---------------------------- MODULE MCAlarmLink ----------------------------
(***************************************************************************)
(* AlarmLink with a short line and few requests.                           *)
(***************************************************************************)
EXTENDS AlarmLink, TLC

Sym == Permutations(Conns)
=============================================================================
