-------------------------- MODULE MCPrivacyState --------------------------
(* Small instances of PrivacyState for TLC. *)
EXTENDS PrivacyState, TLC

\* hello_received only compares client ids for equality.
ClientSymmetry == Permutations(ClientId)
=============================================================================
