---------------------------- MODULE MCClientPool ----------------------------
(* A small instance of ClientPool for TLC.                                 *)
EXTENDS ClientPool, TLC

\* Streams, callers and credentials are interchangeable.
Symmetry == Permutations(Stream) \cup Permutations(Caller) \cup Permutations(Creds)
=============================================================================
