------------------------------ MODULE Adoption ------------------------------
(***************************************************************************)
(* What kmorphd does once the predecessor is fenced (kmorphd/ops.c): it    *)
(* adopts the predecessor's PCI functions with drivers held off, resets    *)
(* them side by side in child processes, claims the IOMMUs, lets drivers   *)
(* probe, and then hot-adds CPUs and memory, the memory after a dump when  *)
(* one is configured.  Every step may fail, and the process may die and be *)
(* restarted between any two.                                              *)
(*                                                                         *)
(* A function's DMA is "host" while it may run what the predecessor set    *)
(* up, "quiet" once reset or quiesced, "own" where the successor booted    *)
(* with the function.                                                      *)
(***************************************************************************)
EXTENDS Integers

CONSTANTS DEVICES,         \* functions in the host tree, bridges left out
          BOOTED,          \* those the successor booted with
          UNITS,           \* IOMMUs a machine may have
          MAX_CRASHES      \* bound: deaths of kmorphd (0 as PID 1)

ASSUME AdoptionAssumption == BOOTED \subseteq DEVICES /\ MAX_CRASHES \in Nat

\* struct ops_env: the configuration, and the IOMMUs of the boot tree.
Env == [reset_devices : BOOLEAN, dump : BOOLEAN, next_memory : BOOLEAN, iommus : SUBSET UNITS]

VARIABLES
  env,         \* fixed for the life of the successor
  present,     \* functions on the successor's PCI bus
  dma,         \* whose DMA a function runs
  met,         \* the DMA a function's driver met when it was probed, or "none"
  autoprobe,   \* drivers_autoprobe of the bus
  units,       \* IOMMUs claimed
  cpus,        \* are the predecessor's CPUs adopted
  memory,      \* parts of its memory hot-added: "pool" is what a pool needs
  claimfile,   \* POOL_CLAIM_PATH: "absent", "torn" or "pool"
  pc,          \* where ops_adopt(), ops_preserve() and ops_reap() stand
  foreign, devices_tried, preserved, adoptable,   \* of struct ops
  hold,        \* are drivers held off by this ops_adopt_devices()
  adopted,     \* functions ops_adopt_devices() adopted
  failed,      \* functions it could not adopt
  resets,      \* functions whose reset is not collected yet
  live,        \* functions counted as neither reset nor quiesced
  reported,    \* history: functions not taken, left live or taken as they are, by
               \* kmorphd's log
  crashes

kernel == <<present, dma, met, autoprobe, units, cpus, memory>>
process == <<foreign, devices_tried, preserved, adoptable, hold, adopted, failed, resets, live>>
adoptionVars == <<env, kernel, claimfile, pc, process, reported, crashes>>

PARTS == {"pool", "rest"}

\* list_foreign(): what is not on this kernel's bus is the predecessor's.
list_foreign == DEVICES \ present

ProcessInit(listed) ==
  /\ foreign' = listed
  /\ devices_tried' = FALSE
  /\ preserved' = {} /\ adoptable' = {}
  /\ hold' = FALSE /\ adopted' = {} /\ failed' = {} /\ resets' = {} /\ live' = {}

AdoptionInit ==
  /\ env \in Env
  /\ present = BOOTED
  /\ dma \in [DEVICES -> {"host", "quiet", "own"}]
  /\ \A d \in DEVICES : dma[d] = "own" <=> d \in BOOTED
  /\ met = [d \in DEVICES |-> "none"]
  /\ autoprobe = TRUE /\ units = {} /\ cpus = FALSE /\ memory = {}
  /\ claimfile = "absent" /\ pc = "idle"
  /\ foreign = DEVICES \ BOOTED
  /\ devices_tried = FALSE
  /\ preserved = {} /\ adoptable = {}
  /\ hold = FALSE /\ adopted = {} /\ failed = {} /\ resets = {} /\ live = {}
  /\ reported = {} /\ crashes = 0
-----------------------------------------------------------------------------
(* ops_adopt_devices().                                                    *)

\* ops_adopt() is called after the fence, and again after it failed; devices
\* are tried once per process.
ops_adopt ==
  /\ pc \in {"idle", "failed"}
  /\ pc' = IF devices_tried THEN "plan" ELSE "hold"
  /\ devices_tried' = TRUE
  /\ UNCHANGED <<env, reported, kernel, claimfile, crashes, foreign, preserved, adoptable, hold, adopted,
                 failed, resets, live>>

\* A mutant of ops_adopt_devices(): drivers are not held off.
HoldsNothing ==
  /\ pc = "hold"
  /\ pc' = "adopt"
  /\ \/ (env.reset_devices \/ env.iommus # {}) /\ hold' = TRUE
     \/ hold' = FALSE
  /\ reported' = IF hold' THEN reported ELSE reported \cup foreign
  /\ UNCHANGED <<env, autoprobe, present, dma, met, units, cpus, memory, claimfile, crashes,
                 foreign, devices_tried, preserved, adoptable, adopted, failed, resets, live>>

\* pci_set_autoprobe(false) where devices are to be reset or IOMMUs claimed.
\* When it fails the devices are adopted as they are.
HoldDrivers ==
  /\ pc = "hold"
  /\ pc' = "adopt"
  /\ \/ (env.reset_devices \/ env.iommus # {}) /\ hold' = TRUE /\ autoprobe' = FALSE
                                                     /\ UNCHANGED reported
     \/ hold' = FALSE /\ reported' = reported \cup foreign /\ UNCHANGED autoprobe
  /\ UNCHANGED <<env, present, dma, met, units, cpus, memory, claimfile, crashes, foreign,
                 devices_tried, preserved, adoptable, adopted, failed, resets, live>>

\* A device-add overlay; the bus probes a driver at once unless held off.
adopt_device(d) ==
  /\ pc = "adopt"
  /\ d \in foreign \ (adopted \cup failed)
  /\ \/ /\ present' = present \cup {d}
        /\ adopted' = adopted \cup {d}
        /\ met' = IF autoprobe THEN [met EXCEPT ![d] = dma[d]] ELSE met
        /\ UNCHANGED <<failed, reported>>
     \/ /\ failed' = failed \cup {d}
        /\ reported' = reported \cup {d}
        /\ UNCHANGED <<present, adopted, met>>
  /\ UNCHANGED <<env, dma, autoprobe, units, cpus, memory, claimfile, pc, crashes, foreign,
                 devices_tried, preserved, adoptable, hold, resets, live>>

\* Without the hold nothing is reset and no IOMMU claimed.
AdoptedAsTheyAre ==
  /\ pc = "adopt" /\ foreign = adopted \cup failed /\ ~hold
  /\ pc' = "plan"
  /\ UNCHANGED <<env, reported, kernel, claimfile, crashes, process>>

\* reset_devices() starts a child for each function.
StartResets ==
  /\ pc = "adopt" /\ foreign = adopted \cup failed /\ hold
  /\ pc' = "reset"
  /\ resets' = adopted
  /\ UNCHANGED <<env, reported, kernel, claimfile, crashes, foreign, devices_tried, preserved, adoptable,
                 hold, adopted, failed, live>>

\* reset_device() in a child, and its exit status: reset or quiesced, neither,
\* or no status to go by because the child was killed, before or after.
reset_device(d) ==
  /\ pc = "reset"
  /\ d \in resets
  /\ resets' = resets \ {d}
  /\ \/ dma' = [dma EXCEPT ![d] = "quiet"] /\ live' \in {live, live \cup {d}}
     \/ live' = live \cup {d} /\ UNCHANGED dma
  /\ reported' = reported \cup live'
  /\ UNCHANGED <<env, present, met, autoprobe, units, cpus, memory, claimfile, pc, crashes, foreign,
                 devices_tried, preserved, adoptable, hold, adopted, failed>>

\* A mutant of reset_devices(): the children are not waited for.
DoesNotWait == TRUE

\* reset_devices() returns when every child was collected.
ResetsCollected == resets = {}

\* A mutant of the condition for the IOMMUs: functions that could not be
\* adopted do not count.
IgnoresUntaken == live = {}

\* The all_quiet ops_adopt_devices() passes to claim_iommus().
all_quiet == failed = {} /\ live = {}

\* claim_iommus(); a unit whose overlay fails stays the predecessor's.
claim_iommus ==
  /\ pc = "reset"
  /\ ResetsCollected
  /\ pc' = "autoprobe"
  /\ units' \in IF all_quiet THEN {units \cup U : U \in SUBSET env.iommus} ELSE {units}
  /\ UNCHANGED <<env, reported, present, dma, met, autoprobe, cpus, memory, claimfile, crashes, process>>

\* pci_set_autoprobe(true), which may fail and is only logged then.
ReleaseDrivers ==
  /\ pc = "autoprobe"
  /\ pc' = "probe"
  /\ autoprobe' \in {TRUE, autoprobe}
  /\ UNCHANGED <<env, reported, present, dma, met, units, cpus, memory, claimfile, crashes, process>>

\* pci_probe_driver() for every adopted function, then the network identity is
\* restored on those that got a driver.
ProbeDrivers ==
  /\ pc = "probe"
  /\ pc' = "plan"
  /\ \E bound \in SUBSET adopted :
       met' = [d \in DEVICES |-> IF d \in bound THEN dma[d] ELSE met[d]]
  /\ UNCHANGED <<env, reported, present, dma, autoprobe, units, cpus, memory, claimfile, crashes, process>>
-----------------------------------------------------------------------------
(* Memory and CPUs.                                                        *)

\* keep_for_pool(): a part of the memory left is recorded for the next pool.
\* A record that cannot be written leaves the old one or a truncated one.
keep_for_pool(left) ==
  \/ /\ env.next_memory /\ "pool" \in left
     /\ claimfile' = "pool" /\ adoptable' = left \ {"pool"}
  \/ /\ env.next_memory /\ "pool" \in left
     /\ claimfile' \in {claimfile, "torn"} /\ adoptable' = left
  \/ /\ ~env.next_memory \/ "pool" \notin left
     /\ adoptable' = left /\ UNCHANGED claimfile

\* plan_adoption(): what is not this kernel's yet, less the pool; or a failure
\* before anything was decided.
plan_adoption ==
  /\ pc = "plan"
  /\ \/ pc' = "apply" /\ keep_for_pool(PARTS \ memory)
     \/ pc' = "failed" /\ adoptable' = {} /\ UNCHANGED claimfile
  /\ UNCHANGED <<env, reported, kernel, crashes, foreign, devices_tried, preserved, hold, adopted, failed,
                 resets, live>>

\* apply_adopt() in ops_adopt(): with a dump the memory waits in "preserved".
apply_adopt ==
  /\ pc = "apply"
  /\ preserved' = IF env.dump THEN adoptable ELSE preserved
  /\ \/ /\ pc' = "preserve"
        /\ cpus' = TRUE
        /\ memory' = IF env.dump THEN memory ELSE memory \cup adoptable
     \/ pc' = "failed" /\ UNCHANGED <<cpus, memory>>
  /\ UNCHANGED <<env, reported, present, dma, met, autoprobe, units, claimfile, crashes, foreign,
                 devices_tried, adoptable, hold, adopted, failed, resets, live>>

\* ops_preserve(): a failed dump ends the takeover with the memory unclaimed.
ops_preserve ==
  /\ pc = "preserve"
  /\ pc' \in IF preserved = {} THEN {"reap"} ELSE {"reap", "done"}
  /\ UNCHANGED <<env, reported, kernel, claimfile, crashes, process>>

ops_reap ==
  /\ pc = "reap"
  /\ pc' = "done"
  /\ \/ memory' = memory \cup preserved /\ preserved' = {}
     \/ preserved # {} /\ UNCHANGED <<memory, preserved>>
  /\ UNCHANGED <<env, reported, present, dma, met, autoprobe, units, cpus, claimfile, crashes, foreign,
                 devices_tried, adoptable, hold, adopted, failed, resets, live>>

\* kmorphd dies and a new process runs ops_init(); children it had started
\* finish or not.  The restarted process fences again and comes here.
Crash ==
  /\ crashes < MAX_CRASHES
  /\ crashes' = crashes + 1
  /\ pc' = "idle"
  /\ \E done \in SUBSET resets :
       dma' = [d \in DEVICES |-> IF d \in done THEN "quiet" ELSE dma[d]]
  /\ ProcessInit(list_foreign)
  /\ UNCHANGED <<env, reported, present, met, autoprobe, units, cpus, memory, claimfile>>

AdoptionNext ==
  \/ ops_adopt \/ HoldDrivers
  \/ \E d \in DEVICES : adopt_device(d) \/ reset_device(d)
  \/ AdoptedAsTheyAre \/ StartResets \/ claim_iommus \/ ReleaseDrivers \/ ProbeDrivers
  \/ plan_adoption \/ apply_adopt \/ ops_preserve \/ ops_reap
  \/ Crash

AdoptionSpec == AdoptionInit /\ [][AdoptionNext]_adoptionVars
-----------------------------------------------------------------------------
(* Properties.                                                             *)

\* Types of struct ops and the kernel's view; a function counts as adopted or
\* failed, never both, and only what was adopted is reset.
AdoptionTypeOK ==
  /\ env \in Env
  /\ present \subseteq DEVICES /\ foreign \subseteq DEVICES /\ reported \subseteq DEVICES
  /\ dma \in [DEVICES -> {"host", "quiet", "own"}]
  /\ met \in [DEVICES -> {"none", "host", "quiet", "own"}]
  /\ autoprobe \in BOOLEAN /\ cpus \in BOOLEAN /\ devices_tried \in BOOLEAN /\ hold \in BOOLEAN
  /\ units \subseteq UNITS
  /\ memory \subseteq PARTS /\ preserved \subseteq PARTS /\ adoptable \subseteq PARTS
  /\ claimfile \in {"absent", "torn", "pool"}
  /\ pc \in {"idle", "hold", "adopt", "reset", "autoprobe", "probe", "plan", "apply",
             "preserve", "reap", "done", "failed"}
  /\ adopted \subseteq foreign \cap present /\ failed \subseteq foreign \ adopted
  /\ resets \subseteq adopted /\ live \subseteq adopted
  /\ crashes \in 0..MAX_CRASHES

\* ops_adopt_devices(): "each driver meets its device reset or quiesced rather
\* than as the crash left it", except where kmorphd logged that it could not;
\* through restarts of kmorphd at any step.
DriverMeetsQuiet == \A d \in DEVICES : met[d] = "host" => d \in reported

\* claim_iommus(): a process that was never restarted claims a unit only once
\* no function runs DMA the host set up, however adoptions and resets failed.
IommuClaimedQuiet ==
  crashes = 0 /\ units # {} => \A d \in DEVICES : dma[d] # "host"

\* claim_iommu(): "A unit is claimed only once no function it may still guard
\* runs DMA the host set up", restarts of kmorphd included.
IommuAlwaysQuiet == units # {} => \A d \in DEVICES : dma[d] # "host"

\* ops_adopt(): "whatever DMA the predecessor left running is stopped before
\* its memory is hot-added", except where kmorphd logged that it could not or
\* was restarted.
MemoryAfterDevices ==
  crashes = 0 /\ memory # {} => \A d \in DEVICES : dma[d] = "host" => d \in reported
-----------------------------------------------------------------------------
(* What is inductive.                                                      *)

\* A function still running the predecessor's DMA was named in the log.
NamedIfLive == \A d \in DEVICES : dma[d] = "host" => d \in reported

\* The bookkeeping of ops_adopt_devices(): what it did not hold off was logged;
\* from reset_devices() on every foreign function counts as adopted or failed,
\* and an adopted one still live is being reset or counted as live; in a
\* process that is the first, only foreign functions run the predecessor's DMA,
\* and past the devices each such function was logged.
AdoptionInv ==
  /\ AdoptionTypeOK
  /\ failed \subseteq reported /\ live \subseteq reported
  /\ pc = "adopt" /\ (autoprobe \/ ~hold) => foreign \subseteq reported
  /\ pc \in {"reset", "autoprobe", "probe"} =>
       /\ foreign = adopted \cup failed
       /\ \A d \in adopted : dma[d] = "host" => d \in resets \cup live
  /\ pc \in {"autoprobe", "probe"} => resets = {}
  /\ pc = "idle" => ~devices_tried
  /\ crashes = 0 => \A d \in DEVICES : dma[d] = "host" => d \in foreign
  /\ crashes = 0 /\ pc \in {"plan", "apply", "preserve", "reap", "done", "failed"} => NamedIfLive
  /\ DriverMeetsQuiet /\ IommuClaimedQuiet /\ MemoryAfterDevices
=============================================================================
