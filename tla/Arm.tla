--------------------------------- MODULE Arm ---------------------------------
(***************************************************************************)
(* The predecessor's side while a successor is prepared and stands by: the *)
(* commands "kmorph arm" and "kmorph disarm" (kmorph/arm.c), any number of *)
(* them at once, on the kernel's multikernel filesystem (lib/mkfs.c), and  *)
(* "kmorph watch" (kmorph/watch.c), which keeps the successor's copy of    *)
(* the network identity current.                                           *)
(*                                                                         *)
(* The kernel keeps one pool and the instance of the configured name.  An  *)
(* overlay is written in one step and the status of the latest transaction *)
(* read in a later one.  Every call may fail, MAX_FAULTS times in all.     *)
(***************************************************************************)
EXTENDS Integers, Sequences, FiniteSets

CONSTANTS Command,       \* the arm and disarm processes
          Identity,      \* network identities
          MAX_FAULTS,    \* calls that fail
          MAX_IDS,       \* instances created
          MAX_CHANGES    \* changes of the network

ASSUME ArmAssumption ==
  /\ {MAX_FAULTS, MAX_IDS, MAX_CHANGES} \subseteq Nat
  /\ IsFiniteSet(Command) /\ "none" \notin Identity /\ Identity # {}

VARIABLES pool,        \* the kernel's pool
          instance,    \* the instance of the configured name
          next_id,     \* the id the kernel gives next
          tx,          \* the status of the latest transaction
          claim_file,  \* memory kmorphd kept for the pool, when this kernel took over
          cmd,         \* the local variables of the commands
          network,     \* the machine's network identity
          watch,       \* kmorph watch
          faults, changes

kernelvars == <<pool, instance, next_id, tx>>
netvars == <<network, watch, changes>>
armvars == <<kernelvars, claim_file, cmd, netvars, faults>>

\* A pool has or lacks the PCI and the platform devices of the config; claimed:
\* it was made of the memory kept at the takeover.
NoPool == [exists |-> FALSE, devices |-> FALSE, platform |-> FALSE, claimed |-> FALSE]
NoInstance == [id |-> 0, status |-> "absent", identity |-> "none", inbox |-> <<>>,
               loads |-> 0]
Exists == instance.id # 0

\* identity is what the successor holds, inbox the requests its kmorphd has not
\* answered, and loads counts the images loaded under its id.

\* pc is what a command does next, id the instance's id as it read it, image the
\* network identity in the initrd arm assembled, mine what became of the overlay
\* or baseline it wrote last.  undisturbed: it ran alone, from a state it
\* expects, and no call failed that the code does not tolerate.
Idle == [pc |-> "idle", verb |-> "none", id |-> 0, image |-> "none", mine |-> "none",
         result |-> "none", undisturbed |-> FALSE]

WatchOff == [pc |-> "off", now |-> "none", id |-> 0, sent |-> "none", sent_to |-> 0]

ArmInit ==
  /\ pool \in {NoPool} \cup [exists : {TRUE}, devices : BOOLEAN, platform : BOOLEAN,
                            claimed : {FALSE}]
  /\ instance = NoInstance /\ next_id = 1 /\ tx = "none"
  /\ claim_file \in IF pool.exists THEN {FALSE} ELSE BOOLEAN
  /\ cmd = [c \in Command |-> Idle]
  /\ network \in Identity /\ watch = WatchOff
  /\ faults = 0 /\ changes = 0
-----------------------------------------------------------------------------
(* How a step of a command ends.                                           *)

At(c, here) == cmd[c].pc = here

Becomes(c, local) == cmd' = [cmd EXCEPT ![c] = local]

Goto(c, next) == Becomes(c, [cmd[c] EXCEPT !.pc = next])

Succeeds(c) == Becomes(c, [cmd[c] EXCEPT !.pc = "idle", !.image = "none", !.result = "ok"])

Fails(c) == Becomes(c, [Idle EXCEPT !.result = "failed", !.undisturbed = cmd[c].undisturbed])

Fault == faults < MAX_FAULTS /\ faults' = faults + 1

\* A command is started.
Start(c, v) ==
  /\ At(c, "idle")
  /\ v = "arm" => next_id <= MAX_IDS
  /\ cmd' = [d \in Command |->
       IF d = c
         THEN [Idle EXCEPT !.pc = IF v = "arm" THEN "ensure_pool" ELSE "instance_id",
                           !.verb = v,
                           !.undisturbed = /\ \A e \in Command \ {c} : At(e, "idle")
                                           /\ Exists <=> v = "disarm"
                                           /\ pool.exists => pool.platform]
         ELSE [cmd[d] EXCEPT !.undisturbed = FALSE]]
  /\ UNCHANGED <<kernelvars, claim_file, netvars, faults>>

\* Every call that fails without an effect ends the command, but for the
\* baseline with the kept memory, the network snapshot and the status.
CallFails(c) ==
  /\ cmd[c].pc \notin {"idle", "unlink"}
  /\ Fault /\ Becomes(c, [Idle EXCEPT !.result = "failed"])
  /\ UNCHANGED <<kernelvars, claim_file, netvars>>
-----------------------------------------------------------------------------
(* mkfs_apply_overlay(), used by both commands.                            *)

\* The overlay is written and becomes a transaction; fits says whether the
\* kernel can apply it, and it may fail for reasons of its own.
WriteOverlay(c, here, next, fits, effect) ==
  /\ At(c, here)
  /\ \/ /\ fits /\ effect /\ tx' = "applied"
        /\ Becomes(c, [cmd[c] EXCEPT !.pc = next, !.mine = "applied"])
        /\ UNCHANGED faults
     \/ /\ UNCHANGED <<pool, instance, next_id>> /\ tx' = "failed"
        /\ Becomes(c, [cmd[c] EXCEPT !.pc = next, !.mine = "failed",
                                     !.undisturbed = @ /\ ~fits])
        /\ IF fits THEN Fault ELSE UNCHANGED faults
  /\ UNCHANGED <<claim_file, netvars>>

\* The status read is that of the latest transaction there is.
ReadTx(c, here, succeeds) ==
  /\ At(c, here)
  /\ IF tx = "applied" THEN succeeds ELSE Fails(c)
  /\ UNCHANGED <<kernelvars, claim_file, netvars, faults>>
-----------------------------------------------------------------------------
(* arm_run().                                                              *)

\* Platform devices enter the pool only with its baseline; the CPUs and the
\* memory are free unless the instance holds them.
check_pool_fits == pool.platform /\ ~Exists

\* ensure_pool(): the pool there is, or a new one.
ensure_pool(c) ==
  /\ At(c, "ensure_pool")
  /\ IF ~pool.exists THEN Goto(c, "init_pool")
     ELSE IF ~check_pool_fits THEN Fails(c)
     ELSE Goto(c, IF pool.devices THEN "initrd" ELSE "add_devices")
  /\ UNCHANGED <<kernelvars, claim_file, netvars, faults>>

NewPool(claimed) ==
  pool' = [exists |-> TRUE, devices |-> TRUE, platform |-> TRUE, claimed |-> claimed]

\* init_pool(): with the memory kept at the takeover first, if there is any;
\* the kernel takes one baseline.
ClaimPool(c) ==
  /\ At(c, "init_pool") /\ claim_file
  /\ \/ /\ ~pool.exists /\ NewPool(TRUE) /\ UNCHANGED faults
        /\ Becomes(c, [cmd[c] EXCEPT !.pc = "unlink", !.mine = "applied"])
     \/ /\ UNCHANGED pool
        /\ Becomes(c, [cmd[c] EXCEPT !.pc = "unlink", !.mine = "failed"])
        /\ IF pool.exists THEN UNCHANGED faults ELSE Fault
  /\ UNCHANGED <<instance, next_id, tx, claim_file, netvars>>

\* Whether or not the kernel took it, the record of the kept memory goes; that
\* it could not be removed is ignored.
UnlinkClaim(c) ==
  /\ At(c, "unlink") /\ Goto(c, IF cmd[c].mine = "applied" THEN "initrd" ELSE "baseline")
  /\ \/ claim_file' = FALSE /\ UNCHANGED faults
     \/ UNCHANGED claim_file /\ Fault
  /\ UNCHANGED <<kernelvars, netvars>>

\* A pool from this kernel's own memory.
WriteBaseline(c) ==
  /\ At(c, "baseline") \/ (At(c, "init_pool") /\ ~claim_file)
  /\ IF pool.exists THEN UNCHANGED pool /\ Fails(c)
                    ELSE NewPool(FALSE) /\ Goto(c, "initrd")
  /\ UNCHANGED <<instance, next_id, tx, claim_file, netvars, faults>>

arm_pool_add_devices(c) ==
  \/ WriteOverlay(c, "add_devices", "add_devices_tx", pool.exists,
                  pool' = [pool EXCEPT !.devices = TRUE] /\ UNCHANGED <<instance, next_id>>)
  \/ ReadTx(c, "add_devices_tx", Goto(c, "initrd"))

\* successor_initrd() and add_network(): without a snapshot the successor boots
\* with no identity.
successor_initrd(c) ==
  /\ At(c, "initrd")
  /\ \/ Becomes(c, [cmd[c] EXCEPT !.pc = "create", !.image = network]) /\ UNCHANGED faults
     \/ Goto(c, "create") /\ Fault
  /\ UNCHANGED <<kernelvars, claim_file, netvars>>

\* build_host_tree() describes the machine or fails the command (CallFails); the
\* overlay then creates the instance, if none is there.
create_instance(c) ==
  \/ WriteOverlay(c, "create", "create_tx", pool.devices /\ ~Exists,
                  /\ instance' = [NoInstance EXCEPT !.id = next_id, !.status = "ready"]
                  /\ next_id' = next_id + 1 /\ UNCHANGED pool)
  \/ ReadTx(c, "create_tx", Goto(c, "instance_id"))

mkfs_instance_id == instance.id

\* Both commands look the id up by name: arm goes on to load, disarm reads the
\* status.
InstanceId(c) ==
  /\ At(c, "instance_id")
  /\ IF ~Exists THEN Fails(c)
     ELSE Becomes(c, [cmd[c] EXCEPT !.id = mkfs_instance_id,
                                    !.pc = IF cmd[c].verb = "arm" THEN "load" ELSE "status"])
  /\ UNCHANGED <<kernelvars, claim_file, netvars, faults>>

\* A call on the instance with the id the command holds, which the kernel
\* refuses unless the instance is as it has to be.
OnInstance(c, here, from, effect, succeeds) ==
  /\ At(c, here)
  /\ IF instance.id = cmd[c].id /\ instance.status = from
       THEN instance' = effect /\ succeeds
       ELSE UNCHANGED instance /\ Fails(c)
  /\ UNCHANGED <<pool, next_id, tx, claim_file, netvars, faults>>

\* A mutant of load_and_exec(): the successor is loaded but never booted.
LoadsOnly(c) ==
  OnInstance(c, "load", "ready",
             [instance EXCEPT !.status = "loaded", !.identity = cmd[c].image, !.loads = @ + 1],
             Succeeds(c))

load_and_exec(c) ==
  \/ OnInstance(c, "load", "ready",
                [instance EXCEPT !.status = "loaded", !.identity = cmd[c].image, !.loads = @ + 1],
                Goto(c, "exec"))
  \/ OnInstance(c, "exec", "loaded", [instance EXCEPT !.status = "active"], Succeeds(c))
-----------------------------------------------------------------------------
(* disarm_run().                                                           *)

\* A mutant of ToUndo: the image of an instance that is not active is left.
UndoesActive(s) == IF s = "active" THEN "halt" ELSE "remove"

\* What disarm begins with for a status it read.
ToUndo(s) == IF s = "active" THEN "halt" ELSE IF s = "loaded" THEN "unload" ELSE "remove"

InstanceStatus(c) ==
  /\ At(c, "status")
  /\ \/ Exists /\ Goto(c, ToUndo(instance.status)) /\ UNCHANGED faults
     \/ /\ Becomes(c, [cmd[c] EXCEPT !.pc = ToUndo("unknown"), !.undisturbed = @ /\ ~Exists])
        /\ IF Exists THEN Fault ELSE UNCHANGED faults
  /\ UNCHANGED <<kernelvars, claim_file, netvars>>

\* A halted instance keeps its image.
HaltAndUnload(c) ==
  \/ OnInstance(c, "halt", "active",
                [instance EXCEPT !.status = "loaded", !.inbox = <<>>], Goto(c, "unload"))
  \/ OnInstance(c, "unload", "loaded",
                [instance EXCEPT !.status = "ready", !.identity = "none"], Goto(c, "remove"))

\* The instance is removed by name, and not while it has an image.
RemoveInstance(c) ==
  \/ WriteOverlay(c, "remove", "remove_tx", instance.status = "ready",
                  instance' = NoInstance /\ UNCHANGED <<pool, next_id>>)
  \/ ReadTx(c, "remove_tx", Succeeds(c))
-----------------------------------------------------------------------------
(* watch_run(): a snapshot, the id, the request and its reply, and again    *)
(* after a change, a second after an error or ten seconds after a success. *)

\* Started by kmorph.service once armed; it gives up only if there is no
\* instance at its start.
WatchStart ==
  /\ watch.pc = "off" /\ Exists
  /\ watch' = [WatchOff EXCEPT !.pc = "snapshot"]
  /\ UNCHANGED <<kernelvars, claim_file, cmd, network, changes, faults>>

WatchSnapshot ==
  /\ watch.pc = "snapshot"
  /\ \/ watch' = [watch EXCEPT !.pc = "id", !.now = network] /\ UNCHANGED faults
     \/ Fault /\ UNCHANGED watch
  /\ UNCHANGED <<kernelvars, claim_file, cmd, network, changes>>

\* A re-armed successor has a new id and only the identity of its arm time.
ToSend(to) == to # watch.sent_to \/ watch.now # watch.sent

WatchId ==
  /\ watch.pc = "id"
  /\ watch' = IF Exists /\ ToSend(mkfs_instance_id)
                THEN [watch EXCEPT !.pc = "send", !.id = mkfs_instance_id]
                ELSE [watch EXCEPT !.pc = "snapshot"]
  /\ UNCHANGED <<kernelvars, claim_file, cmd, network, changes, faults>>

Reachable == instance.id = watch.id /\ instance.status = "active"

\* A mutant of AfterError: what could not be sent counts as sent.
TakesErrorAsSent == [watch EXCEPT !.pc = "snapshot", !.sent = watch.now, !.sent_to = watch.id]

\* After an error sent and sent_to stay as they were.
AfterError == [watch EXCEPT !.pc = "snapshot"]

\* send_text(): the request reaches kmorphd, or not.
WatchSend ==
  /\ watch.pc = "send"
  /\ \/ /\ Reachable
        /\ instance' = [instance EXCEPT !.inbox = Append(@, [identity |-> watch.now, waited |-> TRUE])]
        /\ watch' = [watch EXCEPT !.pc = "reply"] /\ UNCHANGED faults
     \/ /\ UNCHANGED instance /\ watch' = AfterError
        /\ IF Reachable THEN Fault ELSE UNCHANGED faults
  /\ UNCHANGED <<pool, next_id, tx, claim_file, cmd, network, changes>>

\* The reply does not come in time, while the request stays queued, or the
\* successor is gone.
WatchTimeout ==
  /\ watch.pc = "reply"
  /\ watch' = AfterError
  /\ IF Reachable
       THEN /\ Fault
            /\ instance' = [instance EXCEPT !.inbox[Len(instance.inbox)].waited = FALSE]
       ELSE UNCHANGED <<instance, faults>>
  /\ UNCHANGED <<pool, next_id, tx, claim_file, cmd, network, changes>>

\* kmorphd takes requests in the order they came and answers each.
KmorphdTakes ==
  /\ instance.status = "active" /\ instance.inbox # <<>>
  /\ instance' = [instance EXCEPT !.identity = Head(instance.inbox).identity,
                                  !.inbox = Tail(@)]
  /\ watch' = IF Head(instance.inbox).waited
                THEN [watch EXCEPT !.pc = "snapshot", !.sent = watch.now, !.sent_to = watch.id]
                ELSE watch
  /\ UNCHANGED <<pool, next_id, tx, claim_file, cmd, network, changes, faults>>

NetworkChanges ==
  /\ changes < MAX_CHANGES
  /\ changes' = changes + 1
  /\ \E n \in Identity \ {network} : network' = n
  /\ UNCHANGED <<kernelvars, claim_file, cmd, watch, faults>>
-----------------------------------------------------------------------------
CommandStep(c) ==
  \/ CallFails(c) \/ ensure_pool(c) \/ ClaimPool(c) \/ UnlinkClaim(c) \/ WriteBaseline(c)
  \/ arm_pool_add_devices(c) \/ successor_initrd(c) \/ create_instance(c) \/ InstanceId(c)
  \/ load_and_exec(c) \/ InstanceStatus(c) \/ HaltAndUnload(c) \/ RemoveInstance(c)

WatchStep == WatchStart \/ WatchSnapshot \/ WatchId \/ WatchSend \/ WatchTimeout

ArmNext ==
  \/ \E c \in Command : CommandStep(c) \/ \E v \in {"arm", "disarm"} : Start(c, v)
  \/ WatchStep \/ KmorphdTakes \/ NetworkChanges

ArmSpec == ArmInit /\ [][ArmNext]_armvars

\* A command that was started goes on, watch runs as long as its service does,
\* and the successor's kmorphd serves its queue.
ArmFairness ==
  /\ \A c \in Command : WF_armvars(CommandStep(c))
  /\ WF_armvars(WatchStep) /\ WF_armvars(KmorphdTakes)
-----------------------------------------------------------------------------
(* Properties.                                                             *)

\* Whatever commands that failed halfway have left behind (a pool without the
\* devices, an instance with or without an image, a record of kept memory the
\* kernel refused), a disarm of an instance that is there succeeds, and so does
\* an arm when there is none and a pool has the platform devices, provided it
\* runs alone and no call fails that the code does not tolerate: "run 'kmorph
\* disarm' to remove it" always works.
UndisturbedSucceeds == \A c \in Command : cmd[c].undisturbed => cmd[c].result # "failed"

\* A disarm that reports success ran on an instance that is no longer there,
\* and an arm that does so left one that runs, unless another command came in
\* between.
UndisturbedDoes ==
  \A c \in Command :
    cmd[c].undisturbed /\ cmd[c].result = "ok" =>
      IF cmd[c].verb = "arm" THEN instance.id = cmd[c].id /\ instance.status = "active"
                             ELSE ~Exists

\* watch_run(): what it last sent is what the successor of that id holds, as
\* long as no call failed: sent and sent_to are set by a reply only, whatever
\* commands do to the instance in between, and a successor armed anew has a new
\* id.  Commands that overlap can load a second image under one id.
WatchKnows ==
  (/\ instance.status = "active" /\ instance.loads = 1
   /\ watch.sent_to = instance.id /\ instance.inbox = <<>> /\ faults = 0)
     => instance.identity = watch.sent

\* Once the network no longer changes, an active successor holds its identity
\* for good: "kmorph watch sends it again whenever an interface, address or
\* route changes".
IdentityConverges == <>[](instance.status = "active" => instance.identity = network)
=============================================================================
