-------------------------- MODULE MCCredentialStore --------------------------
(* Model-checking instance of CredentialStore. *)
EXTENDS CredentialStore, TLC

Symmetry == Permutations(Procs) \cup Permutations(Providers)
=============================================================================
