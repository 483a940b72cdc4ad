----------------------------- MODULE MCSubSwitch -----------------------------
(***************************************************************************)
(* Small instances of SubSwitch for TLC.                                   *)
(***************************************************************************)
EXTENDS SubSwitch, TLC

\* Links are alike, and so are kernels.
LinksAndSlots == Permutations(Urls) \cup Permutations(Slots)
=============================================================================
