# Verification of kmorph

kmorph keeps a second kernel, the *successor*, booted beside the running one,
the *predecessor*. When the predecessor crashes, or hands over for an upgrade,
the successor stops its CPUs and takes the machine: devices, IOMMUs, CPUs,
memory. This directory holds TLA+ models of that program, the TLC
configurations that check them on small instances, and TLAPS proofs, for every
instance, of the parts that matter most. `PROJECT.json` records the runs, the
source lines each definition stands for, the hazards and the theorems.

    tlc -config MCKmorphd.cfg MCKmorphd     # one run
    tlapm KmorphdProofs.tla                 # one proof module

## The system

| part | code | runs in | state | changes it by |
|---|---|---|---|---|
| takeover state machine | `kmorphd/takeover.c` | successor | `struct takeover` | `takeover_handle()`; the operations fence, adopt, preserve, reap |
| daemon | `kmorphd/main.c`, `lib/probe.c`, `lib/request.c` | successor | `struct daemon`, state file, marker, identity file, accept queue | timer tick, probe, connection, signal, death and restart |
| takeover operations | `kmorphd/ops.c`, `lib/pci.c`, `lib/memblock.c` | successor | PCI bus, IOMMUs, hot-added CPUs and memory, pool record | `ops_adopt()`, `ops_preserve()`, `ops_reap()` |
| standby root, console | `kmorphd/standby.c`, `init.c`, `console.c` | successor | mount tree, root, the login's supervisor | boot of the first process, login program |
| network identity | `lib/netsnap.c`, `lib/rtnl.c` | both | snapshot, interfaces, rtnetlink socket | collect, format, parse, restore |
| arm, disarm, watch | `kmorph/arm.c`, `watch.c`, `client.c`, `lib/mkfs.c`, `lib/mksys.c` | predecessor | the kernel's pool, instance, transactions; what watch sent | overlays, load, exec, claim, undo; requests |
| upgrade, freeze | `kmorph/upgrade.c`, `freeze.c`, `client.c` | predecessor | where the command stands, `struct freeze_set` | push, freeze, handover, wait, thaw |
| ranges, crash dump | `lib/ranges.c`, `takeable.c`, `dump.c`, `elfcore.c` | both | range sets, the core file | add, subtract, align; `dump_vmcore()` |
| device trees | `lib/fdt/`, `lib/fdtutil.c`, `dt.c`, `host_tree.c` | both | a blob in a buffer | libfdt calls, builders, readers |
| inputs | `lib/config.c`, `parse.c`, `madt.c` | both | configuration, table of CPUs | read once |

The two kernels share vsock and the multikernel file system of the kernel,
which is outside this repository and modelled from its use:

    kmorph arm ----- instance, image, identity -----> kernel ---> successor boots kmorphd
    kmorph watch --- network identity --------------> kmorphd
    kmorph upgrade - handover, under a freeze ------> kmorphd
    kmorphd -------- probe every interval ----------> predecessor's kernel
    kmorphd -------- fence (NMI), adopt, reap ------> kernel

What makes it hard: the predecessor may die at any point and only silence says
so; kmorphd itself may die and is restarted (`Restart=on-failure` in
`dist/dracut/99kmorph/kmorphd-initrd.service`) and has to work out from files
and the bus what was done; each operation is a series of calls that may fail
half-way; a client's timeout races kmorphd's answer; commands run side by side
on one kernel interface.

## Modules

| module | models | built on |
|---|---|---|
| `Ownership` | the promise: all CPUs of the predecessor stop before anything of its is claimed | |
| `Takeover` | `takeover.c` | |
| `Kmorphd` | `main.c`, with the predecessor, its requests, deaths and restarts | EXTENDS `Takeover` |
| `Upgrade` | `upgrade.c`, `client.c` against kmorphd | EXTENDS `Kmorphd` |
| `Freeze` | `freeze.c`, several commands, a changing mount table | |
| `Adoption` | `ops.c` and the bus, with failures and restarts | |
| `Arm` | `arm.c`, `mkfs.c`, `mksys.c`, `watch.c` | |
| `Netsnap` | `netsnap.c`, `rtnl.c` | |
| `Standby` | `main()` up to its loop, `init.c`, `standby.c` | |
| `Successor` | both, and `console.c` | EXTENDS `Netsnap`, `Standby` |
| `Ranges`, `Dump` | `ranges.c`, `takeable.c`, the arithmetic of `ops.c` and `arm.c`; `dump.c`, `elfcore.c` | `Dump` EXTENDS `Ranges` |
| `DeviceTree` | the promise of libfdt: a call changes the tree as its name says, or nothing | |
| `Fdt`, `FdtCalls` | `lib/fdt`; a program that writes and edits a blob | `FdtCalls` EXTENDS `Fdt` |
| `Dt` | `fdtutil.c`, `dt.c`, `host_tree.c` | EXTENDS `Fdt`, `Ranges` |
| `Inputs` | `config.c`, `parse.c`, `madt.c` | EXTENDS `Ranges` |
| `MCKmorphd`, `MCHandover`, `MCData`, `MCSuccessor` | values of the constants, and which parts run in one behaviour | |
| `TakeoverProofs`, `KmorphdProofs`, `UpgradeProofs`, `FreezeProofs`, `AdoptionProofs` | theorems | |

**Takeover.** `state`, `silent`, `fence_attempts` and `last_error` are the
fields of `struct takeover`. An operation is not atomic: `op` names the one in
progress, and its return is a step of its own, so a process can die inside it.
`running` is the set of predecessor CPUs that may still execute; a fence that
fails has stopped any part of them. A restart is `takeover_init()` with the
machine as it was left.

**Kmorphd.** A tick, a ready probe and a connection are actions; what a handler
does after it calls into the state machine is part of the same action, or of
the `frame` it returns to. A file written in place is `"torn"` between
`open(O_TRUNC)` and `write`. Request text is abstract; replies are the values
the handlers choose between.

**Upgrade.** The command's steps interleave with the daemon's. A request is an
entry of the accept queue and stays one when the command's timeout expires.
`Freeze` holds the detail of freezing; here `frozen` is one bit.

**Freeze.** One set of local variables per command; a filesystem is named by
its device, `frozen[d]` is who froze it. The kernel answers EBUSY for a frozen
filesystem, and thaws for whoever asks.

**Adoption.** `pc` walks through `ops_adopt()`, `ops_preserve()` and
`ops_reap()`. A function runs the host's DMA, is quiet, or runs its new
driver's; `met` records what a driver met when it probed. Resets are children
that run side by side. Each call may fail.

**Arm.** A command is a record of its locals, its `pc` the next kernel call.
The kernel keeps a pool, one instance with its id and image, and the status of
the latest transaction only, because that is what `mkfs_apply_overlay()` reads.
`watch` is the loop of `watch_run()`.

**Netsnap.** The text is a sequence of lines with the limits of the parser; the
restore is one rtnetlink request at a time, each of which is sent, answered,
lost or answered late, while drivers create interfaces and the clock moves. A
subnet stands for an address or a gateway in it.

**Standby.** Mounts are places in other filesystems and a path is looked up
from the process's root through what is mounted on the way, so that a failure
in the middle leaves the tree the code would leave.

**Successor.** Arm's forwarded file, the boot, the reading of the identity, the
restore and the login's supervisor in one behaviour.

**Fdt, Dt.** A blob is a sequence of tags with a string table and free space
counted in bytes, so NOSPACE, moved offsets and names that share a tail come
out as in the code. `FdtCalls` makes any sequence of calls and is compared
with `DeviceTree` under the mapping that reads the blob. A builder of `Dt` is
the sequence of calls it makes, repeated in a buffer twice as large until they fit.

**Ranges, Dump, Inputs.** Operators over sequences with integers modulo a small
power of two and allocations that may fail, compared with sets of addresses,
the memory, and the plain meaning of the text.

## Runs

States are distinct ones.

| run | bounds | states | shows |
|---|---|---|---|
| `kmorphd` | 2 CPUs, threshold 3, 1 retry, 2 requests, queue of 2, 1 death | 202,565 | a fence has a reason; never two kernels; state file current; waiter released only on an owned machine; no stale identity; dump before reap; CPUs stop for a handover only under the freeze or after the command gave up; a refusal is final; refinement of `Takeover` and `Ownership`; a crash is always noticed |
| `handover` | 2 commands, 1 fault, 2 ids, 1 change; 2 upgrades, 3 devices, set of 2; 2 foreign functions and an own one, 1 IOMMU, 1 death | about 1.8 million | after anything, an undisturbed disarm and then arm succeed and do their work; watch knows what the successor holds; what an upgrade lists is frozen while it waits and thawed when it fails, by itself only; drivers meet quiet functions; without a restart, IOMMUs and memory follow the devices |
| `data` | 3-bit addresses, page of 2, buffers of 40, 96 and 118 bytes, builds from 112 to 896 bytes, 2 config lines, 3 table entries | 38,608 | range sets are sets, the dump is the memory; libfdt implements `DeviceTree` and a failed call changes nothing; a blob says what was asked and is built whenever it fits; trees, configurations and tables are read as they are |
| `successor` | 2 NICs, 2 links, addresses and routes, 8 lines of text, 2 clock steps, 2 errors, 1 failing call at boot | 208,734 | a failed standby root is put back; the forwarded identity is read in either root; restored links are up, routes not lost to their order, leases kept; the restore and the console make progress |

Why the bounds are enough: a threshold of 3 separates the first silence, one
that only adds up and the last one; one retry has a first and a last attempt.
Two CPUs let a fence stop one and not the other. One death at every step
reaches each half-done file and operation. Two requests are what an upgrade
and a watch make at once. Three devices and a set of two give a
duplicate mount, an unsupported filesystem and a full set. Eight addresses hold
touching, nested, split and wrapping ranges and pieces that end inside a page.
The buffers fail at the header, in the middle of a tree and at its last edit.
Two netlink errors are needed for an answer that comes late and is met by a
later request. Bounds that a proof covers (below) matter only to what is not
proved. `handover` and `data` run one of their parts in each behaviour: the
parts share no state, and each is explored in full. `handover` uses symmetry of
commands and identities, and checks no liveness.
`CHECK_DEADLOCK FALSE` is set where the system may stop: kmorphd stopped by
SIGTERM or done, a library call that has returned, a login that ended.

### Fairness

* `kmorphd`: the timer keeps expiring, the epoll loop serves what is ready, a
  started probe or operation ends, a dead process is restarted (the unit file).
  Strong fairness of `probe_start` says that local failures to open a probe do
  not go on for ever; without it `probe_start()` may fail at each tick, which
  is no silence, and no crash would be noticed.
* `watch_lost_reply`: started commands go on, watch runs (`ExecStart` of
  `kmorph.service`) and kmorphd serves its queue.
* `successor`: `netsnap_apply()` and the login's supervisor go on. Strong
  fairness says that a line opened again every second opens some time.

### Where the code and its documentation differ

Each has a run in which TLC finds the stated promise violated.

| run | promise | what happens |
|---|---|---|
| `fence_not_retried` | README 474: a failed fence is retried on the next probe | `on_tick()` starts no probe once the state is FENCING or later, so no event comes |
| `identity_lost` | `main.c:235`: a restarted kmorphd picks the latest identity up | a death between truncation and write leaves an empty file, read as no identity |
| `upgrade_late_accept` | README 207: the command fails and the predecessor stays the kernel | a request that timed out stays queued and may be accepted later |
| `iommu_after_restart` | `ops.c:267`: a unit is claimed only once no function it guards runs the host's DMA | a restarted kmorphd does not count functions the last process adopted and had not reset |
| `watch_lost_reply` | README 390: watch sends the identity again whenever the network changes | a lost reply makes `sent` stale, and a change back to it is not sent |
| `identity_refused` | README 379: every PCI network interface is recorded | two interfaces on one PCI function are written as two links of one key, and the parser refuses the whole text |
| `names_swapped` | `netsnap.h:87`: each link's name is put back | two NICs that hold each other's names are both refused theirs and count as restored |
| `bad_table_accepted` | `madt.h:9`: every CPU on the machine; `test_madt.c:110` | a malformed entry behind a good one ends the reading with success and a partial list |

Met on the way and kept without a run: a failed adoption is not written to the
state file's error; a handover queued before a crash of the predecessor may be
accepted after it, within a tick; the pool record of an adoption that is
retried may be the old one; with two commands at once `mkfs_apply_overlay()`
may report the other's transaction; after a failed `chroot()` the paths
`standby.c` uses to put things back lead elsewhere, which `PutBack` excludes;
`fdt_add_property_()` takes back `strlen(name)` bytes where it added `namelen`,
which are equal in every call kmorph makes; a daemon restarted after the
takeover starts a second login on the line. The hazards in `PROJECT.json` say
more.

## Proofs

All for every value of the constants the named assumption admits. The numbers
of requests and deaths are bounded by constants too, of any size.

**`TakeoverProofs`** (`ConfigAssumption`, the ranges `config.c` accepts).
`TakeoverInv` is inductive. `NeverTwoKernels` alone is not: that a claim is
made with no CPU running follows from which operation is in progress in which
state (`CallMatchesState`), and the bounds on attempts from
`CountersFollowState`. From it follow `TakeoverSafety`, `TakeoverOneShot` (a
process that began to fence never watches again) and
`TakeoverImplementsOwnership`, step by step with stutters.

**`KmorphdProofs`** (also `KmorphdAssumption`). `KmorphdImplementsTakeover`
shows that each step of the daemon is one of the state machine or a stutter,
with the variables of `Takeover` as they are, so `TakeoverInv` carries over.
`KmorphdInv` adds what ties the rest together: `TicksCounted` (each tick starts
at most one probe, each probe counts once, so silence is never ahead of the
ticks, without which `FenceHasReason` is not inductive), `IdentityFollows` (the
file holds the latest identity or is being written, for `NoStaleIdentity`),
`CpusTaken` (preserve and reap follow only an adoption that took the CPUs, for
`ReleasedOnOwnMachine`) and `DumpFollows` (for `KmorphdDumps`).

**`UpgradeProofs`**. `UpgradeImplementsKmorphd` shows the composition to be the
daemon, so all of the above holds with the command at work. `UpgradeInv` adds
`RequestFollows`: the one handover request is queued, then taken or refused,
and made and waited for under the freeze. `UpgradeStopsFrozen` and
`UpgradeRefusalIsFinal` follow.

**`FreezeProofs`** (`FreezeAssumption`). `FrozenPrefix`, the core of
`FreezeInv`, says that a command has frozen exactly the part of its list its
loop counter stands for; it needs `ListedOnce`, since thawing one of two equal
entries would break it, and `CountersInRange`. `FreezeHolds`,
`FreezeFailureThaws` and `FreezeOwnerThaws` follow.

**`AdoptionProofs`** (`AdoptionAssumption`). `AdoptionInv` says what the lists
of `ops_adopt_devices()` mean at each place: what was not held off was logged,
from the resets on every foreign function is adopted or failed, an adopted one
that still runs is being reset or counted as live. `DriversMeetQuiet` holds
through restarts; `IommusClaimedQuiet` and `MemoryJoinsAfterDevices` only for a
process that was not restarted, and `iommu_after_restart` shows why.

Only model-checked: liveness (TLAPS proves nothing under fairness or with
ENABLED); what the loops of `ranges.c`, `dump.c`, `netsnap.c`, `config.c` and
libfdt compute, which needs induction over data; `Fdt` and `Dt`, which use
RECURSIVE operators; `Arm`, `Netsnap`, `Standby` and `Successor`, whose
invariants have no proof.

## Not modelled

* `crashinfo.c`, `vmlinux.c`, `elf.c`: readers of sysfs, `/proc/kcore` and ELF
  files, whose result is an input of `Dump`. The records inside a note and
  write errors of the dump are left out.
* `iomem.c`, `devname.c`, `devtree_read_cpus()`, `has_host_tree()`: each reads
  kernel text or links once; what they return is an input.
* `kmorph/image.c`, `cpio.c`: an archive written once.
* libfdt: checks of blobs it did not make, phandles, `fdt_addresses.c`,
  `fdt_empty_tree.c`, `fdt_strerror.c`, which kmorph does not use.
* Request and state file text, messages, option parsing.
* Shell scripts and units of `dist/`; they only justify restarts and fairness.
* Real time. Ticks are steps; a handler that blocks delays them, also the
  500 ms `read_request()` may wait for a silent client.
* In `Freeze` thawing never fails (the code logs it and goes on), a path is its
  device, and no command is killed while it holds the freeze. In `Arm`, upgrade
  is not a second sender of identities.
* The kernel, but for what the calls made here return.
