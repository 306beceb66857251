----------------------------- MODULE MCDevices -----------------------------
(* Model values for DeviceConformance: two blocks of two units.  Offsets   *)
(* wrap at WrapLba blocks; a list may have one entry more than the limit,  *)
(* be a unit too short or too long, or hold a null address.                *)
EXTENDS DeviceConformance

CONSTANTS zero, a, b

AllUnits == {zero, a, b}
AllData == [1 .. UnitsPerBlock -> AllUnits]
ZeroBlock == [i \in 1 .. UnitsPerBlock |-> zero]
AllFaults == {"INTERNAL"}
WrapLba == OffsetMod \div UnitsPerBlock

Segment(data) == [addr |-> TRUE, data |-> data]
NullSegment == [addr |-> FALSE, data |-> <<a>>]

(* One block, two blocks, and lists of one block that are exact, too       *)
(* short, too long, one entry too many, or break off at a null address.    *)
Whole == <<Segment(<<a, b>>)>>
Double == <<Segment(<<a, b>>), Segment(<<b, a>>)>>
Halves == <<Segment(<<b>>), Segment(<<a>>)>>
Defective == {<<Segment(<<a>>)>>, <<Segment(<<a>>), NullSegment>>,
              <<Segment(<<a>>), Segment(<<a, b>>)>>,
              <<Segment(<<a>>), Segment(<<>>), Segment(<<b>>)>>}

Cmd(op, fua, lba, n, sgl, addr, segs) ==
    [op |-> op, fua |-> fua, lba |-> lba, n |-> n, sgl |-> sgl,
     addr |-> addr, segs |-> segs]

Writes ==
    {Cmd("WRITE", fua, 0, 1, FALSE, TRUE, Whole) : fua \in BOOLEAN}
    \cup {Cmd("WRITE", FALSE, 0, 2, TRUE, TRUE, Double),
          Cmd("WRITE", TRUE, 1, 1, TRUE, TRUE, Halves)}
    \cup {Cmd("WRITE", FALSE, 1, 1, TRUE, TRUE, segs) : segs \in Defective}
    \cup {Cmd("WRITE", fua, WrapLba, 1, FALSE, TRUE, Whole) : fua \in BOOLEAN}
    \cup {Cmd("WRITE", FALSE, 1, 2, TRUE, TRUE, Double),
          Cmd("WRITE", FALSE, 0, 1, FALSE, FALSE, Whole)}

Reads == {Cmd("READ", FALSE, 0, 2, TRUE, TRUE, Double),
          Cmd("READ", FALSE, 1, 1, FALSE, FALSE, Whole)}
    \cup {Cmd("READ", FALSE, 1, 1, TRUE, TRUE, segs) : segs \in Defective}

Others ==
    {Cmd("DISCARD", FALSE, lba, 1, FALSE, FALSE, <<>>) : lba \in 0 .. 1}
    \cup {Cmd(op, FALSE, 0, 0, FALSE, FALSE, <<>>) :
            op \in {"FLUSH", "IDENTIFY", "UNKNOWN"}}
    \cup {Cmd("UNKNOWN", FALSE, 1, 1, FALSE, FALSE, <<>>)}

AllCommands == Writes \cup Reads \cup Others
OracleCommands == {OracleCommand(c) : c \in AllCommands}
=============================================================================
