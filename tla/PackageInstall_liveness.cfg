CONSTANTS
  q8 = q8
  f16 = f16
  weights8 = weights8
  weights16 = weights16
  sidecar = sidecar
  Packages = {q8, f16}
  FilesOf <- SidecarOnly
  Nobody = nobody
  Events = {"stop", "remove", "sizes"}
SPECIFICATION FairSpec
INVARIANT InventoryMatchesDisk
PROPERTIES
  InstallsEnd
