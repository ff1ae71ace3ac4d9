--------------------------- MODULE MCLiveIngest ----------------------------
(* Bodies of 16-bit stereo that end after, inside and between frames, a     *)
(* chunk that is too large, and texts that part in the middle of an         *)
(* accented character.                                                      *)
EXTENDS LiveIngest

SmallChunkings == {<<5, 12>>, <<3, 7, 11>>, <<1, 2>>, <<9>>, <<7, 13, 20>>}
SmallTexts == {<<"a", "L", "x", "a">>, <<"a", "L", "y">>, <<"b", "L", "x", "a">>}
SmallLengths == [lead \in {"a", "b", "L"} |-> IF lead = "L" THEN 2 ELSE 1]
=============================================================================
