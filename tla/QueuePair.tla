----------------------------- MODULE QueuePair -----------------------------
(***************************************************************************)
(* What a submission/completion queue pair promises its user, without any  *)
(* ring: commands are executed in the order of submission, each one once,  *)
(* and their completions are handed out in the same order, each one once.  *)
(* The number of commands waiting, and of completions waiting, is bounded. *)
(***************************************************************************)
EXTENDS Naturals, Sequences

CONSTANTS Capacity,   \* how many commands, and how many completions, fit
          Cmds,       \* commands
          Statuses,   \* outcomes of a command
          None        \* no completion available

VARIABLES pending,    \* submitted commands, oldest first
          done,       \* completions not handed out yet, oldest first
          out         \* what the last consume returned

vars == <<pending, done, out>>

Init == pending = <<>> /\ done = <<>> /\ out = None

Submit(c) ==
    /\ Len(pending) < Capacity
    /\ pending' = Append(pending, c)
    /\ UNCHANGED <<done, out>>

Execute(status) ==
    /\ pending # <<>> /\ Len(done) < Capacity
    /\ done' = Append(done, [cmd |-> Head(pending), status |-> status])
    /\ pending' = Tail(pending)
    /\ UNCHANGED out

Consume ==
    /\ IF done = <<>> THEN out' = None /\ UNCHANGED done
                      ELSE out' = Head(done) /\ done' = Tail(done)
    /\ UNCHANGED pending

Reset == pending' = <<>> /\ done' = <<>> /\ UNCHANGED out

Next ==
    \/ \E c \in Cmds : Submit(c)
    \/ \E status \in Statuses : Execute(status)
    \/ Consume
    \/ Reset

Spec == Init /\ [][Next]_vars
=============================================================================
