--------------------------- MODULE MCServiceCall ---------------------------
(***************************************************************************)
(* ServiceCall with an emergency call and everyday calls to one service.   *)
(***************************************************************************)
EXTENDS ServiceCall
=============================================================================
