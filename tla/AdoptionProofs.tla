--------------------------- MODULE AdoptionProofs ---------------------------
(***************************************************************************)
(* Proofs about Adoption, for any functions, any that the successor booted *)
(* with, any IOMMUs and any number of restarts of kmorphd.                 *)
(***************************************************************************)
EXTENDS Adoption, TLAPS

\* ops_init() starts with every function it did not boot with foreign.
LEMMA AdoptionInitially == AdoptionInit => AdoptionInv
<1> SUFFICES ASSUME AdoptionInit PROVE AdoptionInv
  OBVIOUS
<1> USE AdoptionAssumption DEF AdoptionInit
<1>1. AdoptionTypeOK
  <2>1. met \in [DEVICES -> {"none", "host", "quiet", "own"}]
    OBVIOUS
  <2>2. crashes \in 0..MAX_CRASHES
    OBVIOUS
  <2> QED
    BY <2>1, <2>2 DEF AdoptionTypeOK, PARTS
<1>2. DriverMeetsQuiet /\ IommuClaimedQuiet /\ MemoryAfterDevices
  BY DEF DriverMeetsQuiet, IommuClaimedQuiet, MemoryAfterDevices
<1> QED
  BY <1>1, <1>2 DEF AdoptionInv

\* Every step of ops_adopt(), ops_preserve() and ops_reap(), and a restart,
\* keeps the invariant.
LEMMA AdoptionKept == ASSUME AdoptionInv, AdoptionNext PROVE AdoptionInv'
<1> USE AdoptionAssumption
    DEF AdoptionInv, AdoptionTypeOK, NamedIfLive, DriverMeetsQuiet, IommuClaimedQuiet,
        MemoryAfterDevices, kernel, process, PARTS
<1>1. CASE ops_adopt
  BY <1>1 DEF ops_adopt
<1>2. CASE HoldDrivers
  BY <1>2 DEF HoldDrivers
<1>3. ASSUME NEW d \in DEVICES, adopt_device(d) PROVE AdoptionInv'
  BY <1>3 DEF adopt_device
<1>4. ASSUME NEW d \in DEVICES, reset_device(d) PROVE AdoptionInv'
  BY <1>4 DEF reset_device
<1>5. CASE AdoptedAsTheyAre
  BY <1>5 DEF AdoptedAsTheyAre
<1>6. CASE StartResets
  BY <1>6 DEF StartResets
<1>7. CASE claim_iommus
  BY <1>7 DEF claim_iommus, ResetsCollected, all_quiet, Env
<1>8. CASE ReleaseDrivers
  BY <1>8 DEF ReleaseDrivers
<1>9. CASE ProbeDrivers
  BY <1>9 DEF ProbeDrivers
<1>10. CASE plan_adoption
  BY <1>10 DEF plan_adoption, keep_for_pool
<1>11. CASE apply_adopt
  BY <1>11 DEF apply_adopt
<1>12. CASE ops_preserve
  BY <1>12 DEF ops_preserve
<1>13. CASE ops_reap
  BY <1>13 DEF ops_reap
<1>14. CASE Crash
  <2>1. crashes' \in 0..MAX_CRASHES /\ crashes' # 0
    BY <1>14 DEF Crash
  <2>2. dma' \in [DEVICES -> {"host", "quiet", "own"}]
    BY <1>14 DEF Crash
  <2> QED
    BY <1>14, <2>1, <2>2 DEF Crash, ProcessInit, list_foreign
<1> QED
  BY <1>1, <1>2, <1>3, <1>4, <1>5, <1>6, <1>7, <1>8, <1>9, <1>10, <1>11, <1>12, <1>13, <1>14
     DEF AdoptionNext

\* The invariant holds in every state of every behaviour.
THEOREM AdoptionInvariant == AdoptionSpec => []AdoptionInv
<1>1. AdoptionInv /\ UNCHANGED adoptionVars => AdoptionInv'
  BY DEF AdoptionInv, AdoptionTypeOK, NamedIfLive, DriverMeetsQuiet, IommuClaimedQuiet,
         MemoryAfterDevices, adoptionVars, kernel, process
<1> QED
  BY <1>1, AdoptionInitially, AdoptionKept, PTL DEF AdoptionSpec

\* ops_adopt_devices(): no driver meets a function that runs the predecessor's
\* DMA unless the log named the function, through any number of restarts.
THEOREM DriversMeetQuiet == AdoptionSpec => []DriverMeetsQuiet
<1>1. AdoptionInv => DriverMeetsQuiet
  BY DEF AdoptionInv
<1> QED
  BY <1>1, AdoptionInvariant, PTL

\* claim_iommus(): before any restart a unit is claimed only when no function
\* runs the predecessor's DMA.
THEOREM IommusClaimedQuiet == AdoptionSpec => []IommuClaimedQuiet
<1>1. AdoptionInv => IommuClaimedQuiet
  BY DEF AdoptionInv
<1> QED
  BY <1>1, AdoptionInvariant, PTL

\* ops_adopt(): before any restart memory joins only when every function that
\* may still write to it was named in the log.
THEOREM MemoryJoinsAfterDevices == AdoptionSpec => []MemoryAfterDevices
<1>1. AdoptionInv => MemoryAfterDevices
  BY DEF AdoptionInv
<1> QED
  BY <1>1, AdoptionInvariant, PTL
=============================================================================
