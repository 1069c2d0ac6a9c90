---------------------------- MODULE MCOpProfiler ----------------------------
(* An instance of OpProfiler: two slots, operators that nest once, and one operator *)
(* whose index does not fit. *)
EXTENDS OpProfiler
=============================================================================
