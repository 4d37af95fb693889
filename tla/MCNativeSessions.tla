-------------------------- MODULE MCNativeSessions --------------------------
(* Small instances of NativeSessions. Sessions that exist are told apart by
   their handles only, so threads, sessions, containers are interchangeable
   (Symmetry is used by the invariant runs, not by the temporal ones). *)
EXTENDS NativeSessions, TLC

Symmetry == Permutations(Threads) \cup Permutations(Sessions)
              \cup Permutations(Containers)
=============================================================================
