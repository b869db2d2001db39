------------------------------ MODULE MCDocSync ------------------------------
(***************************************************************************)
(* Two devices of the household, a few changes: the instances of DocSync.  *)
(***************************************************************************)
EXTENDS DocSync, TLC

\* The devices are interchangeable
Devices == Permutations(Client)
=============================================================================
