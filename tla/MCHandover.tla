----------------------------- MODULE MCHandover -----------------------------
(***************************************************************************)
(* The two ends of a handover and the freeze between them, one of them in  *)
(* each behaviour: on the host two arm or disarm commands at once beside   *)
(* watch, over two network identities; two upgrades freezing side by side, *)
(* on tables with a second mount of a device, a read-only one, one that    *)
(* cannot be frozen, different orders and more than the set holds; in the  *)
(* successor two functions to adopt, one it booted with, and one IOMMU.    *)
(***************************************************************************)
EXTENDS Arm, Freeze, Adoption, TLC

CONSTANTS c1, c2, net1, net2, u1, u2, root, home, boot, d1, d2, own, unit

VARIABLE subject   \* the part at work

MCCommand == {c1}
MCTwoCommands == {c1, c2}
MCIdentity == {net1, net2}
MCSymmetry == Permutations(MCTwoCommands) \cup Permutations(MCIdentity)

Writable(d) == [dev |-> d, writable |-> TRUE]
ReadOnly(d) == [dev |-> d, writable |-> FALSE]
MCCommands == {u1, u2}
MCDevs == {root, home, boot}
MCUnsupported == {boot}
MCTables == {<<Writable(root), Writable(root), Writable(boot)>>,
             <<Writable(home), ReadOnly(boot), Writable(root)>>,
             <<Writable(root), Writable(home)>>,
             <<Writable(root), Writable(home), Writable(boot)>>}

MCDevices == {d1, d2, own}
MCBooted == {own}
MCUnits == {unit}
-----------------------------------------------------------------------------
SUBJECTS == {"arm", "freeze", "adoption"}

\* A part that is not at work stays in one of its initial states.
HandoverInit(subjects) ==
  /\ subject \in subjects
  /\ ArmInit /\ FreezeInit /\ AdoptionInit
  /\ subject # "arm" => pool = NoPool /\ ~claim_file
  /\ subject # "freeze" => mountinfo = <<Writable(root), Writable(home)>>
  /\ subject # "adoption" =>
       /\ env = [reset_devices |-> TRUE, dump |-> FALSE, next_memory |-> FALSE, iommus |-> {}]
       /\ \A d \in DEVICES : dma[d] # "host"

\* The takeover is over: kmorphd has nothing left to do.
Over == subject = "adoption" /\ pc = "done" /\ UNCHANGED <<armvars, freezeVars, adoptionVars>>

HandoverNext ==
  /\ \/ subject = "arm" /\ ArmNext /\ UNCHANGED <<freezeVars, adoptionVars>>
     \/ subject = "freeze" /\ FreezeSteps /\ UNCHANGED <<armvars, adoptionVars>>
     \/ subject = "adoption" /\ AdoptionNext /\ UNCHANGED <<armvars, freezeVars>>
     \/ Over
  /\ UNCHANGED subject

handoverVars == <<armvars, freezeVars, adoptionVars, subject>>

HandoverSpec == HandoverInit(SUBJECTS) /\ [][HandoverNext]_handoverVars

AdoptionAlone == HandoverInit({"adoption"}) /\ [][HandoverNext]_handoverVars

WatchAlone ==
  HandoverInit({"arm"}) /\ [][HandoverNext]_handoverVars /\ ArmFairness
=============================================================================
