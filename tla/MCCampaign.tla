----------------------------- MODULE MCCampaign -----------------------------
(* Two modules, two packs, and every script. *)
EXTENDS Campaign

CONSTANTS packA, packB, m1, m2
=============================================================================
