-------------------------- MODULE MCCommandMailbox --------------------------
(***************************************************************************)
(* CommandMailbox with two people at two web pages.                        *)
(***************************************************************************)
EXTENDS CommandMailbox, TLC

Sym == Permutations(Users)
=============================================================================
