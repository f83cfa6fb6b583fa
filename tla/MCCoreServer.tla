---------------------------- MODULE MCCoreServer ----------------------------
(* Small instances of CoreServer for TLC.                                  *)
EXTENDS CoreServer, TLC

\* Addresses, objects and bufferevents are interchangeable; descriptors are
\* not, because a broadcast visits them in order.
Symmetry == Permutations(IPs) \cup Permutations(Conns) \cup Permutations(Bevs)

=============================================================================
