-------------------------- MODULE MCConnectionPool --------------------------
(* ConnectionPool on a few threads, databases and sessions.                *)
EXTENDS ConnectionPool, TLC

Symmetry ==
  Permutations(Threads) \cup Permutations(Databases)
    \cup Permutations(Sessions) \cup Permutations(Locks)

=============================================================================
