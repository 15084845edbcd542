--------------------------- MODULE MCStatusLists ---------------------------
(* Instances of StatusLists for TLC. *)
EXTENDS StatusLists, TLC

\* Threads, and lists and credentials until they are used, are alike.
Symmetric == Permutations(Threads) \cup Permutations(ListIds) \cup Permutations(CredIds)
=============================================================================
