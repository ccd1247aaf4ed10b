----------------------------- MODULE MCMempoolIDs -----------------------------
(* Model values and symmetry for checking MempoolIDs. *)
EXTENDS MempoolIDs, TLC

PeerSymmetry == Permutations(Peers)
=============================================================================
