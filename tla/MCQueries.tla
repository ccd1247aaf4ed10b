------------------------------ MODULE MCQueries ------------------------------
(* Constants for checking Queries. *)
EXTENDS Queries

\* The application replaces no validator: that is MCAdapter's concern.
MCValUpdates == [h \in Heights |-> [add |-> {}, remove |-> {}]]
MCPerPages == {Nil, -1, 1, 3}
=============================================================================
