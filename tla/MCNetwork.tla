------------------------------ MODULE MCNetwork ------------------------------
(* Constants for checking Network. *)
EXTENDS Network

\* The default quorum fraction 0.667 with one block an epoch, and a majority
\* with two.
EveryBlock == [epochLength |-> 1, num |-> 667, den |-> 1000]
Majority == [epochLength |-> 2, num |-> 1, den |-> 2]

\* Validator 1 holds half of the power of three.
MCPower == [v \in Validators |-> IF v = 1 THEN 2 ELSE 1]
EqualPower == [v \in Validators |-> 1]

AllParams == {EveryBlock, Majority}
OnlyEveryBlock == {EveryBlock}

\* Two validators with the positions and the powers they have anyway, and two
\* whose indices are the same modulo IndexSpan.
Dense == <<[address |-> 1, index |-> 0, power |-> 2],
           [address |-> 2, index |-> 1, power |-> 1]>>
Colliding == <<[address |-> 2, index |-> 1, power |-> 1],
               [address |-> 1, index |-> IndexSpan + 1, power |-> 2]>>
=============================================================================
