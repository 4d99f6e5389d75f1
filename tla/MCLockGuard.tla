---------------------------- MODULE MCLockGuard ----------------------------
(***************************************************************************)
(* LockGuard with one client and two listeners.                            *)
(***************************************************************************)
EXTENDS LockGuard
=============================================================================
