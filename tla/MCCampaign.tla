----------------------------- MODULE MCCampaign -----------------------------
(* Two tests of an instruction, machine states with one compared and one    *)
(* ignored bit, and any earlier campaign's results in the way.              *)
EXTENDS Campaign

CONSTANTS t1, t2

MCTestList == <<t1, t2>>
=============================================================================
