----------------------------- MODULE MCIoQueue -----------------------------
(* Model values for IoQueue: the request shapes of the TLC runs.           *)
EXTENDS IoQueue

RequestShape(op, fua, aligned, segs) ==
    [op |-> op, fua |-> fua, aligned |-> aligned, segs |-> segs]

Write == RequestShape("WRITE", FALSE, TRUE, 2)
FuaWrite == RequestShape("WRITE", TRUE, TRUE, 2)
ShortWrite == RequestShape("WRITE", FALSE, TRUE, 1)
Misaligned == RequestShape("WRITE", FALSE, FALSE, 1)

(* A request with data, one that the driver turns away at once and, where  *)
(* the controller lacks FUA, one that it turns away with all its segments  *)
(* mapped.                                                                 *)
MixedShapes == {Write, FuaWrite, Misaligned}
DataShapes == {ShortWrite}
FuaShapes == {FuaWrite}
=============================================================================
