------------------------------- MODULE MCOpSync ------------------------------
(***************************************************************************)
(* Two devices and a few articles: the instances of OpSync.                *)
(***************************************************************************)
EXTENDS OpSync, TLC

Devices == Permutations(Client)
=============================================================================
