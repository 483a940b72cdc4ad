---------------------------- MODULE MCMseDeploy ----------------------------
(***************************************************************************)
(* A small instance of MseDeploy for TLC: a step whose file is cloned (the *)
(* files that are linked take the way of ~/.zshrc), a tool with a command  *)
(* entry, and clashctl, in the order of AVAILABLE_STEPS.                   *)
(***************************************************************************)
EXTENDS MseDeploy, TLC

CONSTANTS nvim, sqtop, clashctl

Order == <<nvim, sqtop, clashctl>>
Paths == nvim :> "nvim"
=============================================================================
