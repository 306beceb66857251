---------------------------- MODULE DurableStore ----------------------------
(***************************************************************************)
(* What a block device with a volatile write cache promises its host: a    *)
(* read returns what was last stored or discarded; a power loss takes the  *)
(* contents back to what they were when a FLUSH or an FUA write last       *)
(* completed; a command that does not succeed changes nothing, except that *)
(* where TornTransfers is TRUE a refused write may have stored a part, and *)
(* a refused read returned a part.                                         *)
(*                                                                         *)
(* answer is the last completion: the command, its status, and the blocks  *)
(* it stored or returned.                                                  *)
(***************************************************************************)
CONSTANTS Blocks, Data, Zero, Opcodes, Refusals, TornTransfers

VARIABLES now,     \* the contents a read sees
          safe,    \* the contents a power loss leaves
          answer

vars == <<now, safe, answer>>

Contents == [Blocks -> Data]

(* What a command may have moved.  The answer says it, so that is what an  *)
(* action looks for.                                                       *)
Extents == UNION {[r -> Data] : r \in SUBSET Blocks}

Answer(op, fua, status, data) ==
    [op |-> op, fua |-> fua, status |-> status, data |-> data]

Init == /\ now = [b \in Blocks |-> Zero] /\ safe = now
        /\ answer = Answer("NONE", FALSE, "SUCCESS", <<>>)

Store(data) ==
    now' = [b \in Blocks |-> IF b \in DOMAIN data THEN data[b] ELSE now[b]]

Write(fua, data) ==
    /\ answer' = Answer("WRITE", fua, "SUCCESS", data)
    /\ Store(data)
    /\ safe' = IF fua THEN now' ELSE safe

Discard(fua, data) ==
    /\ answer' = Answer("DISCARD", fua, "SUCCESS", data)
    /\ \A b \in DOMAIN data : data[b] = Zero
    /\ Store(data) /\ UNCHANGED safe

Read(fua, data) ==
    /\ answer' = Answer("READ", fua, "SUCCESS", data)
    /\ \A b \in DOMAIN data : data[b] = now[b]
    /\ UNCHANGED <<now, safe>>

Flush(fua) == /\ safe' = now /\ UNCHANGED now
              /\ answer' = Answer("FLUSH", fua, "SUCCESS", <<>>)

Identify(fua) == /\ answer' = Answer("IDENTIFY", fua, "SUCCESS", <<>>)
                 /\ UNCHANGED <<now, safe>>

Refuse(op, fua, status) == /\ answer' = Answer(op, fua, status, <<>>)
                           /\ UNCHANGED <<now, safe>>

Tear(fua, status, data) ==
    /\ TornTransfers
    /\ \/ /\ answer' = Answer("WRITE", fua, status, data)
          /\ Store(data) /\ UNCHANGED safe
       \/ /\ answer' = Answer("READ", fua, status, data)
          /\ \A b \in DOMAIN data : data[b] = now[b]
          /\ UNCHANGED <<now, safe>>

PowerLoss == now' = safe /\ UNCHANGED <<safe, answer>>

Next ==
    \/ \E fua \in BOOLEAN :
         \/ \E data \in Extents \cap {answer'.data} :
              \/ Write(fua, data) \/ Discard(fua, data) \/ Read(fua, data)
              \/ \E status \in Refusals : Tear(fua, status, data)
         \/ Flush(fua) \/ Identify(fua)
         \/ \E op \in Opcodes, status \in Refusals : Refuse(op, fua, status)
    \/ PowerLoss

Spec == Init /\ [][Next]_vars
=============================================================================
