-------------------------- MODULE MCHttpConnection --------------------------
(* HttpConnection for TLC: the threads are interchangeable.                 *)
EXTENDS HttpConnection, TLC

Symmetry == Permutations(Threads)

=============================================================================
