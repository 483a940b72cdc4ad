--------------------------- MODULE MCNohupService ---------------------------
(***************************************************************************)
(* Small instances of NohupService for TLC.                                *)
(***************************************************************************)
EXTENDS NohupService, TLC

\* Sessions are alike, and so are pids: /proc is scanned in no particular order.
SessionsAndPids == Permutations(Clients) \cup Permutations(Pids)
=============================================================================
