---------------------------- MODULE MCRollkitMngr ----------------------------
(* Constants for checking RollkitMngr. *)
EXTENDS RollkitMngr

Five == <<"a", "b", "c", "d", "e">>
Powers == [k \in Keys |-> IF k \notin Elems(InitValidators) THEN 0
                          ELSE IF k = "a" THEN 5 ELSE 2]

\* The validators of the chain; one of them has unbonded; another has bonded.
MCLists == {Five, <<"a", "b", "c", "d">>, <<"y", "a", "b", "c", "d", "e">>}

To(s, as) == [sequencer |-> s, attesters |-> as]

\* One of the validators, an outsider, validators and outsiders, all the
\* validators with one or the other sequencer, all but one.
MCTargets == {To("a", <<>>), To("x", <<>>), To("x", <<"c", "x", "y">>),
              To("b", Five), To("a", Five), To("a", <<"a", "b", "c", "d">>)}
=============================================================================
