----------------------------- MODULE MCKmorphd -----------------------------
(***************************************************************************)
(* kmorphd with one kmorph upgrade that asks it to take over, or with none *)
(* and handover requests at any time from commands that hold a freeze;     *)
(* identities are model values.                                            *)
(***************************************************************************)
EXTENDS Upgrade

CONSTANTS c1, c2, snap1
MCCpus == {c1, c2}
MCSnapshots == {snap1}

MCInit == UpgradeInit \/ (KmorphdInit /\ upgrade = "absent" /\ reply = "none" /\ frozen = TRUE)

MCNext == IF upgrade = "absent" THEN KmorphdNext /\ UNCHANGED upgradeVars ELSE UpgradeNext

MCSpec == MCInit /\ [][MCNext]_composedVars
MCFairSpec == MCSpec /\ KmorphdFairness
=============================================================================
