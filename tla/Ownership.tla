------------------------------ MODULE Ownership ------------------------------
(***************************************************************************)
(* What a takeover promises, with nothing of how it is done: the CPUs of   *)
(* the machine the predecessor still executes on, and what the successor   *)
(* has claimed of the predecessor's resources.  CPUs stop one at a time    *)
(* and never resume the predecessor; resources are claimed only once no    *)
(* CPU runs it, and are never given back.                                  *)
(***************************************************************************)
CONSTANTS CPUS,       \* the predecessor's CPUs
          RESOURCES   \* the kinds of resource a takeover claims

VARIABLES running,    \* CPUs that still execute the predecessor
          claimed     \* resources the successor has claimed

ownershipVars == <<running, claimed>>

OwnershipInit == running = CPUS /\ claimed = {}

StopCpus(S) == /\ S # {}
               /\ running' = running \ S
               /\ UNCHANGED claimed

Claim(R) == /\ running = {}
            /\ claimed' = claimed \cup R
            /\ UNCHANGED running

OwnershipNext == \/ \E S \in SUBSET running : StopCpus(S)
                 \/ \E R \in SUBSET RESOURCES : Claim(R)

OwnershipSpec == OwnershipInit /\ [][OwnershipNext]_ownershipVars
=============================================================================
