CONSTANTS
  Window = 5
  StreamWindow = 3
  Least = 2
  Context = 3
  History = 5
  Initial = 3
  Growth = 2
  Positions = 9
  Prompts = {1, 2, 4, 6}
  Suffixes = {2}
  MaxEnd = 14
SPECIFICATION Spec
INVARIANTS
  TypeOK
  AttendsWindow
  ExportIsChronological
CHECK_DEADLOCK FALSE
