---------------------------- MODULE Publication ----------------------------
(***************************************************************************)
(* What the adapter promises the subscribers of its event bus: each block  *)
(* that the application commits owes them one publication.  Publications   *)
(* come oldest block first and at most once per block, and what is owed is *)
(* given up only when the service goes down.                               *)
(***************************************************************************)
EXTENDS Naturals, Sequences

CONSTANT MaxHeight

VARIABLES committed,  \* number of blocks the application has committed
          owed,       \* the blocks whose events are still to come
          seen,       \* the heights published so far
          serving     \* no call has failed since the node was started

pubVars == <<committed, owed, seen, serving>>

Init == committed = 0 /\ owed = {} /\ seen = <<>> /\ serving = FALSE

Start == /\ serving' = TRUE
         /\ UNCHANGED <<committed, owed, seen>>

\* A block whose execution fails right after the application's commit is not
\* published any more, and that failure ends the service.
CommitBlock == /\ committed < MaxHeight
               /\ committed' = committed + 1
               /\ \/ owed' = owed \cup {committed + 1} /\ UNCHANGED serving
                  \/ UNCHANGED owed /\ serving' = FALSE
               /\ UNCHANGED seen

Publish(h) == /\ h \in owed
              /\ \A g \in owed : h <= g
              /\ \A i \in DOMAIN seen : seen[i] < h
              /\ owed' = owed \ {h}
              /\ seen' = Append(seen, h)
              /\ UNCHANGED <<committed, serving>>

GiveUp == /\ serving' = FALSE
          /\ owed' \subseteq owed
          /\ UNCHANGED <<committed, seen>>

Next == Start \/ CommitBlock \/ (\E h \in owed : Publish(h)) \/ GiveUp

Spec == Init /\ [][Next]_pubVars
=============================================================================
