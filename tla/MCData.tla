------------------------------- MODULE MCData -------------------------------
(***************************************************************************)
(* The sequential libraries, one of them in each behaviour: every range    *)
(* set over addresses of three bits and the dumps of each; every blob that *)
(* the calls of libfdt make in a small buffer; a build of every kind, some *)
(* of which the largest buffer does not hold; every configuration of a few *)
(* lines; and every small table of CPUs.                                   *)
(***************************************************************************)
EXTENDS Dump, FdtCalls, Dt, Inputs

VARIABLE subject   \* the library at work

MCSizes == {40, 96, 118}
MCNodes == {<<"n">>, <<"n", "@", "1">>}
MCProps == {<<"a">>, <<"b", "a">>}
MCValues == {<<>>, <<"x", "x", "x">>}

Set(x) == [r |-> x, cap |-> 2]
x1 == [base |-> 1, size |-> 2]
x2 == [base |-> 4, size |-> 2]
Memories == {Set(<<>>), Set(<<x1>>), Set(<<x1, x2>>)}
Function(id, iommu) == [id |-> id, vendor |-> 1, device |-> 2, class |-> 3, iommu |-> iommu]
Functions2 == {<<>>, <<Function("f", 0), Function("g", 5)>>}
Vmcores == {[page_offset |-> <<>>, vmcoreinfo |-> [base |-> 0, size |-> 0], cpu_notes |-> <<>>],
            [page_offset |-> <<3>>, vmcoreinfo |-> x2, cpu_notes |-> <<x1, x2>>],
            [page_offset |-> <<>>, vmcoreinfo |-> [base |-> 0, size |-> 0], cpu_notes |-> <<x1>>]}
HostTrees == [cpus : {<<0, 1>>}, ram : Memories, devices : Functions2, vmcore : Vmcores]
Names == {<<>>, <<"f", "g">>}

MCJobs ==
  [kind : {"create"}, name : {"k"}, cpus : {<<>>, <<0, 1>>}, memory : {0, 4},
   devices : Names, platform : Names, host : {<<>>} \cup {<<ht>> : ht \in HostTrees}]
  \cup [kind : {"remove"}, name : {"k"}]
  \cup [kind : {"adopt"}, name : {"k"}, cpus : {<<>>, <<1>>, <<0, 1>>}, ranges : Memories]
  \cup [kind : {"adopt-device"}, name : {"k"}, pci_id : {"f"}]
  \cup [kind : {"iommu"}, name : {"k"}, base : {5}]
  \cup [kind : {"pool"}, cpus : {<<>>, <<0, 1>>}, memory : {0, 2, 4},
        claim : {<<>>, <<[base |-> 4, size |-> 0]>>, <<x1>>, <<[base |-> 1, size |-> 3]>>},
        functions : Functions2, platform : Names]
  \cup [kind : {"pool-device"}, devices : Names]
  \cup [kind : {"foreign"}, cpus : {<<>>, <<0, 1>>}, ranges : Memories]

Instance1(n, m) == [name |-> n, memory |-> m]
Bridge(d, f) == [domain |-> d, functions |-> f]
MCPools ==
  [kind : {"kernel"}, name : {"k"}, id : {<<7>>}, granule : {2},
   cpus : {<<>>, <<0, 1>>, <<0, PART>>}, chunks : {<<>>, <<x1, x2>>}, platform : Names,
   instances : {<<>>, <<Instance1("i", 1), Instance1("j", 2)>>, <<Instance1("i", 5)>>},
   bridges : {<<>>, <<Bridge(0, <<<<1>>, <<2>>>>), Bridge(1, <<<<1>>>>)>>},
   reserved : {<<>>}, iommus : {<<>>}]
MCSelves ==
  [kind : {"kernel"}, name : {"k"}, id : {<<7>>, <<PART>>}, granule : {2},
   cpus : {<<>>, <<0, 1>>, <<0, PART>>}, chunks : {<<>>}, platform : {<<>>},
   instances : {<<>>}, bridges : {<<>>},
   reserved : {<<>>, <<3, 2, 1, 3>>, <<3, 2, 1>>, <<3, PART>>},
   iommus : {<<>>, <<<<1, 1>>, <<2, 1>>>>, <<<<1, 1>>, <<2>>>>}]


MCShift == "" :> 0 @@ "K" :> 1 @@ "M" :> 2
MCScale == "" :> 1 @@ "s" :> 2 @@ "m" :> 3

Line(key, values) == {[is |-> "setting", key |-> key, value |-> v] : v \in values}
Numbers == [num : {NAN, 0, 2, 3, 4, 7, 8}, unit : {"", "K", "s", "m", "x"}]
Item(lo, hi) == [lo |-> lo, hi |-> hi, sep |-> ","]
CpuTexts == {<<>>, <<Item(1, <<2>>), Item(0, <<1>>)>>, <<Item(6, <<7>>), Item(6, <<>>)>>,
             <<Item(2, <<1>>)>>, <<Item(7, <<8>>)>>, <<[Item(3, <<>>) EXCEPT !.sep = "?"]>>}
MCLines ==
  {[is |-> "blank", key |-> "", value |-> ""], [is |-> "nonsense", key |-> "", value |-> ""]}
  \cup Line("bogus", {""}) \cup Line("name", {"", "a"}) \cup Line("memory", Numbers)
  \cup Line("probe_interval", Numbers) \cup Line("cpus", CpuTexts)
  \cup Line("devices", {<<>>, <<"a", "b">>, <<"a", "">>})
  \cup Line("probe_timeouts", {NAN, 0, 1, 3, 4}) \cup Line("fence_retries", {0, 4})
  \cup Line("reset_devices", {"yes", "no", "maybe"})
  \cup Line("console", {"", "tty"}) \cup Line("console_login", {"", "login"})

Cpu(type, id, flags, len) == [type |-> type, id |-> id, flags |-> flags, len |-> len]
MCEntries ==
  {Cpu("LAPIC", 3, {"ENABLED"}, "full"), Cpu("LAPIC", 2, {}, "full"),
   Cpu("X2APIC", 0, {"ONLINE_CAPABLE"}, "full"), Cpu("X2APIC", 5, {"ENABLED"}, "short"),
   Cpu("GICC", 9, {"GICC_ONLINE_CAPABLE"}, "full"), Cpu("GICC", 4, {"ONLINE_CAPABLE"}, "full"),
   Cpu("IOAPIC", 6, {"ENABLED"}, "full"), Cpu("LAPIC", 7, {"ENABLED"}, "bad")}
-----------------------------------------------------------------------------
Idle == [job |-> [kind |-> "none"], size |-> 0, at |-> "idle", todo |-> <<>>,
         fdt |-> NoBlob, ret |-> "none"]

DataInit ==
  /\ RangesInit /\ FdtInit /\ ConfInit
  /\ subject \in {"ranges", "fdt", "build", "config", "table"}
  /\ IF subject = "build" THEN BuildInit(MCJobs \cup MCPools \cup MCSelves) ELSE build = Idle
  /\ IF subject = "table" THEN TableInit ELSE table = [header |-> FALSE, entries |-> <<>>]

DataNext ==
  /\ \/ subject = "ranges" /\ RangesNext /\ UNCHANGED <<fdtVars, build, conf, table>>
     \/ subject = "fdt" /\ FdtNext /\ UNCHANGED <<set, build, conf, table>>
     \/ subject = "build" /\ BuildNext /\ UNCHANGED <<set, fdtVars, conf, table>>
     \/ subject = "config" /\ ConfNext /\ UNCHANGED <<set, fdtVars, build>>
     \/ subject = "table" /\ AddEntry /\ UNCHANGED <<set, fdtVars, build>>
  /\ UNCHANGED subject

dataVars == <<set, fdtVars, build, conf, table, subject>>

DataSpec == DataInit /\ [][DataNext]_dataVars

\* What the latest libfdt call was and returned does not matter to the next.
MCView == <<set, blob, build, conf, table, subject>>
-----------------------------------------------------------------------------
OnRanges == subject = "ranges"

\* ranges.c: a set stays sorted, its ranges apart, and adding and subtracting are
\* union and difference, or change nothing.
RangesAreSets == OnRanges => SetCanonical /\ AddIsUnion /\ SubtractIsDifference

\* takeable.c: what is taken is all of the machine but this kernel's own and
\* the reserved regions.
TakesTheRest == OnRanges => TakeableIsRest

\* ops.c: whole granules join, and the memory kept for the next pool is enough
\* for it, lies among them and does not join.
MemoryShared == OnRanges => AlignTakesWholeBlocks /\ PoolClaimFits

\* dump.c: a dump that reports success is the memory, at the offsets its
\* headers give.
DumpHolds == OnRanges => DumpIsMemory

\* config.c, parse.c and madt.c: a configuration is what its text says, and a
\* sound table lists every CPU.
InputsRead == ConfigSaysText /\ (subject = "table" => SoundTableListed)
=============================================================================
