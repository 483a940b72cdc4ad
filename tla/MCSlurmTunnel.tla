--------------------------- MODULE MCSlurmTunnel ---------------------------
(***************************************************************************)
(* Small instances of SlurmTunnel for TLC.                                 *)
(***************************************************************************)
EXTENDS SlurmTunnel, TLC

CONSTANTS h1, h2

Cands == <<h1, h2>>
Pref == {<<h1, h2>>}
Syms == Permutations(Shells) \cup Permutations(Pids)
=============================================================================
