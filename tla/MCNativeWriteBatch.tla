------------------------- MODULE MCNativeWriteBatch -------------------------
(* NativeWriteBatch with the code's own sizes and few of everything.       *)
EXTENDS NativeWriteBatch

FewRows == {0, 1, 3}
FewColumns == {0, 2}
SomeNulls == {0, 1, 3}
TwoWidths == {1, 16}
SomeData == {0, 1, 3, 16, 17, 48}
SomeLengths == {0, 1, 16}
SomeOccupied == {0, 3}
SomeLocations == {0, 2}
=============================================================================
