--------------------------- MODULE MCTraceHandler ---------------------------
(* Model values and symmetry for checking TraceHandler with TLC. *)
EXTENDS TraceHandler, TLC

\* clients are interchangeable
Sym == Permutations(Callers)
=============================================================================
