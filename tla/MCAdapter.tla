------------------------------ MODULE MCAdapter ------------------------------
(* Constants for checking Adapter. *)
EXTENDS Adapter

\* The application adds a validator at height 2 and replaces the genesis
\* validator at height 3.
MCValUpdates ==
    [h \in Heights |->
        CASE h = 2 -> [add |-> Vals, remove |-> {}]
          [] h = 3 -> [add |-> {}, remove |-> {Genesis}]
          [] OTHER -> [add |-> {}, remove |-> {}]]
=============================================================================
