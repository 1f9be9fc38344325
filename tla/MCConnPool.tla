----------------------------- MODULE MCConnPool -----------------------------
(* Instances of ConnPool for TLC.                                          *)
EXTENDS ConnPool, TLC

Symmetry == Permutations(Conn) \cup Permutations(Caller)
=============================================================================
