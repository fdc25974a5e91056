--------------------------------- MODULE Dt ---------------------------------
(***************************************************************************)
(* The blobs kmorph exchanges with the kernel: the overlays and baselines  *)
(* of lib/dt.c and the host tree of lib/host_tree.c, written by            *)
(* lib/fdtutil.c through the calls of Fdt into a buffer that grows until   *)
(* they fit, and the readers of the trees the kernel publishes, lib/dt.c   *)
(* and lib/devtree.c.                                                      *)
(*                                                                         *)
(* A builder is the sequence of the calls it makes.  The value of a        *)
(* property is the sequence of its cells, 64-bit ones included, or a       *)
(* string as its only element; a cell that is cut short is PART.           *)
(***************************************************************************)
EXTENDS Fdt, Ranges, TLC

CONSTANTS BUILD_SIZE,   \* the first buffer of fdtutil_build(), 16 KiB in the code
          BUILD_MAX     \* the last one, 4 MiB

\* The header and the end of the reservation map always fit.
ASSUME DtAssumption == BUILD_SIZE \in Nat /\ BUILD_SIZE >= 64 /\ BUILD_MAX \in Nat

\* The build in progress: the job, the buffer's size, the calls still to make,
\* the buffer and what fdtutil_build() returned.
VARIABLE build

PART == -1

Begin(name) == [do |-> "begin", name |-> name, val |-> <<>>]
Prop(name, val) == [do |-> "prop", name |-> <<name>>, val |-> val]
Cells(name, val) == [do |-> "cells", name |-> <<name>>, val |-> val]
End == [do |-> "end", name |-> <<>>, val |-> <<>>]
Refuses == [do |-> "refuse", name |-> <<>>, val |-> <<>>]

Node(name, calls) == <<Begin(<<name>>)>> \o calls \o <<End>>
Unit(name, unit, calls) == <<Begin(<<name, "@", ToString(unit)>>)>> \o calls \o <<End>>
Each(seq, Emit(_)) == FlattenSeq([n \in DOMAIN seq |-> Emit(n)])
When(cond, calls) == IF cond THEN calls ELSE <<>>
-----------------------------------------------------------------------------
(* host_tree.c: the host tree, into a node that is open.                   *)

emit_cells == <<Prop("#address-cells", <<2>>), Prop("#size-cells", <<2>>)>>

fdtutil_prop_reg(x) == Prop("reg", <<x.base, x.size>>)
\* These two copy their cells to a buffer of their own first.
fdtutil_prop_regs(l) == Cells("reg", FlattenSeq([n \in DOMAIN l |-> <<l[n].base, l[n].size>>]))
fdtutil_prop_cpulist(name, l) == Cells(name, l)

vmcore_info_present(vi) == vi.page_offset # <<>> \/ vi.vmcoreinfo.size # 0 \/ vi.cpu_notes # <<>>

emit_vmcore(vi) ==
  Node("vmcore",
       emit_cells
       \o When(vi.page_offset # <<>>, <<Prop("page-offset", vi.page_offset)>>)
       \o When(vi.vmcoreinfo.size # 0, Node("vmcoreinfo", <<fdtutil_prop_reg(vi.vmcoreinfo)>>))
       \o When(vi.cpu_notes # <<>>, Node("cpu-notes", <<fdtutil_prop_regs(vi.cpu_notes)>>)))

emit_pci_device_nodes(devices, host_tree) ==
  Each(devices, LAMBDA n :
    LET d == devices[n]
    IN  <<Begin(<<"pci_", d.id>>), Prop("device-type", <<"pci">>), Prop("pci-id", <<d.id>>),
          Prop("vendor-id", <<d.vendor>>), Prop("device-id", <<d.device>>)>>
        \o When(host_tree, <<Prop("class-code", <<d.class>>)>>)
        \o When(host_tree /\ d.iommu # 0, <<Prop("multikernel,iommu-base", <<d.iommu>>)>>)
        \o <<End>>)

\* The nodes carry their base, not their number.
host_tree_emit(ht) ==
  IF ht.cpus = <<>> \/ ht.ram.r = <<>> THEN <<Refuses>>
  ELSE emit_cells \o <<fdtutil_prop_cpulist("cpus", ht.cpus)>>
       \o Each(ht.ram.r, LAMBDA n :
            Unit("memory", ht.ram.r[n].base,
                 <<Prop("device_type", <<"memory">>), fdtutil_prop_reg(ht.ram.r[n])>>))
       \o When(ht.devices # <<>>, Node("devices", emit_pci_device_nodes(ht.devices, TRUE)))
       \o When(vmcore_info_present(ht.vmcore), emit_vmcore(ht.vmcore))
-----------------------------------------------------------------------------
(* dt.c: the builders.                                                     *)

Compatible == Prop("compatible", <<"linux,multikernel-overlay">>)
InstancesPath == <<"instances">>
InstancePath(name) == <<"instances", name>>
PoolPath == <<"resources">>

\* fragment_begin() .. fragment_end()
Fragment(index, target, calls) ==
  Unit("fragment", index, <<Prop("target-path", target)>> \o Node("__overlay__", calls))

\* overlay_begin() .. overlay_end()
Overlay(target, calls) == Node("", <<Compatible>> \o Fragment(0, target, calls))

emit_device_add(index, target, devices) ==
  Fragment(index, target,
           Node("device-add", Each(devices, LAMBDA n :
                  Unit("pci", n - 1, <<Prop("pci-id", <<devices[n]>>)>>))))

emit_platform_device_nodes(names) ==
  Each(names, LAMBDA n : Node(names[n], <<Prop("device-type", <<"platform">>),
                                          Prop("device-name", <<names[n]>>)>>))

\* The devices join by a second fragment.
build_instance_create(a) ==
  Node("",
       <<Compatible>>
       \o Fragment(0, InstancesPath,
            Node("instance-create",
                 <<Prop("instance-name", <<a.name>>)>>
                 \o Node("resources",
                         <<fdtutil_prop_cpulist("cpus", a.cpus), Prop("memory-bytes", <<a.memory>>)>>
                         \o When(a.platform # <<>>,
                                 Node("devices", emit_platform_device_nodes(a.platform))))
                 \o Each(a.host, LAMBDA n :
                      Node("chosen", Node("multikernel,host-tree", host_tree_emit(a.host[n]))))))
       \o When(a.devices # <<>>, emit_device_add(1, InstancePath(a.name), a.devices)))

build_instance_remove(a) ==
  Overlay(InstancesPath, Node("instance-remove", <<Prop("instance-name", <<a.name>>)>>))

emit_cpu_add(cpus) ==
  Node("cpu-add", Each(cpus, LAMBDA n : Unit("cpu", cpus[n], <<Prop("reg", <<cpus[n]>>)>>)))

emit_memory_add(memory) ==
  Node("memory-add", Each(memory, LAMBDA n :
    Unit("memory", n - 1, <<fdtutil_prop_reg(memory[n]), Prop("mem-type", <<1>>)>>)))

build_adopt(a) ==
  Overlay(InstancePath(a.name),
          When(a.cpus # <<>>, emit_cpu_add(a.cpus))
          \o When(a.ranges.r # <<>>, emit_memory_add(a.ranges.r)))

build_adopt_device(a) ==
  Node("", <<Compatible>> \o emit_device_add(0, InstancePath(a.name), <<a.pci_id>>))

build_iommu_add(a) ==
  Overlay(InstancePath(a.name),
          Node("iommu-add", Unit("dmar", 0, <<Prop("reg", <<a.base>>)>>)))

\* A mutant of the memory of build_pool_baseline(): the pool grows by all of it.
GrowsByAll(a) == a.memory

\* What the pool needs beyond its claim, where it has one.
grow(a) ==
  IF a.claim = <<>> THEN a.memory
  ELSE IF a.memory > a.claim[1].size THEN a.memory - a.claim[1].size ELSE 0

build_pool_baseline(a) ==
  LET more == IF a.claim = <<>> THEN 0 ELSE 1
      memory == Prop("device_type", <<"memory">>)
  IN  Node("", Node("resources",
        <<fdtutil_prop_cpulist("cpus", a.cpus)>>
        \o Each(a.claim, LAMBDA n : Unit("memory", 0, <<memory, fdtutil_prop_reg(a.claim[n])>>))
        \o When(grow(a) # 0, Unit("memory", more, <<memory, Prop("size", <<grow(a)>>)>>))
        \o When(a.functions # <<>> \/ a.platform # <<>>,
                Node("devices", emit_pci_device_nodes(a.functions, FALSE)
                                \o emit_platform_device_nodes(a.platform)))))

build_pool_device_add(a) ==
  Node("", <<Compatible>> \o emit_device_add(0, PoolPath, a.devices))

build_foreign_baseline(a) ==
  Node("", Node("resources",
    <<fdtutil_prop_cpulist("cpus", a.cpus)>>
    \o Each(a.ranges.r, LAMBDA n :
         Unit("memory", n - 1, <<Prop("device_type", <<"memory">>),
                                 fdtutil_prop_reg(a.ranges.r[n])>>))))
-----------------------------------------------------------------------------
(* fdtutil.c: building a blob.                                             *)

\* The checks of the dt_build functions before they build anything.
Accepts(job) ==
  CASE job.kind = "create" -> job.cpus # <<>> /\ job.memory # 0
    [] job.kind = "adopt" -> job.cpus # <<>> \/ job.ranges.r # <<>>
    [] job.kind = "pool" -> /\ job.cpus # <<>> /\ job.memory # 0
                            /\ \A n \in DOMAIN job.claim : job.claim[n].size # 0
    [] job.kind = "pool-device" -> job.devices # <<>>
    [] job.kind = "foreign" -> job.cpus # <<>> /\ job.ranges.r # <<>>
    [] OTHER -> TRUE

\* The tree the kernel publishes, which kmorph reads: its own pool and itself.
KernelTree(a) ==
  Node("",
    <<Prop("model", <<a.name>>), Prop("id", a.id), Prop("memory-granule", <<a.granule>>)>>
    \o Node("resources",
         When(a.cpus # <<>>, <<Prop("cpus", a.cpus), Prop("cpus-available", a.cpus)>>)
         \o Each(a.chunks, LAMBDA n : Unit("memory", n - 1, <<fdtutil_prop_reg(a.chunks[n])>>))
         \o When(a.platform # <<>>, Node("devices", emit_platform_device_nodes(a.platform))))
    \o When(a.instances # <<>>, Node("instances", Each(a.instances, LAMBDA n :
         Node(a.instances[n].name,
              Node("resources", <<Prop("memory-bytes", <<a.instances[n].memory>>)>>)))))
    \o Each(a.bridges, LAMBDA n :
         Unit("pci", n - 1,
              <<Prop("compatible", <<"multikernel,pci-host-bridge">>)>>
              \o When(a.bridges[n].domain # 0, <<Prop("linux,pci-domain", <<a.bridges[n].domain>>)>>)
              \o Each(a.bridges[n].functions, LAMBDA f :
                   Unit("fn", f, <<Prop("vendor-id", <<1>>), Prop("reg", a.bridges[n].functions[f])>>))))
    \o Node("chosen",
         When(a.reserved # <<>>, <<Prop("multikernel,reserved-memory", a.reserved)>>)
         \o When(a.iommus # <<>>, Node("multikernel,iommus", Each(a.iommus, LAMBDA n :
              Unit("iommu", n - 1, <<Prop("reg", a.iommus[n])>>))))))

Calls(job) ==
  CASE job.kind = "create" -> build_instance_create(job)
    [] job.kind = "remove" -> build_instance_remove(job)
    [] job.kind = "adopt" -> build_adopt(job)
    [] job.kind = "adopt-device" -> build_adopt_device(job)
    [] job.kind = "iommu" -> build_iommu_add(job)
    [] job.kind = "pool" -> build_pool_baseline(job)
    [] job.kind = "pool-device" -> build_pool_device_add(job)
    [] job.kind = "foreign" -> build_foreign_baseline(job)
    [] job.kind = "kernel" -> KernelTree(job)

Perform(fdt, call) ==
  CASE call.do = "begin" -> fdt_begin_node(fdt, call.name)
    [] call.do \in {"prop", "cells"} -> fdt_property(fdt, call.name, call.val)
    [] call.do = "end" -> fdt_end_node(fdt)
    [] call.do = "refuse" -> Returns(-22, fdt)     \* -EINVAL among the libfdt errors

BuildInit(jobs) ==
  build \in {[job |-> job, size |-> BUILD_SIZE, at |-> "asked", todo |-> <<>>,
              fdt |-> NoBlob, ret |-> "none"] : job \in jobs}

Ends(ret, fdt) == build' = [build EXCEPT !.at = "done", !.todo = <<>>, !.ret = ret, !.fdt = fdt]

Refuse ==
  /\ build.at = "asked" /\ ~Accepts(build.job)
  /\ Ends("EINVAL", NoBlob)

\* The buffer and the two calls before the builder's own; realloc() may fail.
TryBuild ==
  /\ build.at \in {"asked", "again"} /\ Accepts(build.job)
  /\ \/ Ends("ENOMEM", NoBlob)
     \/ \E fdt \in {fdt_finish_reservemap(fdt_create(build.size).blob).blob} :
          build' = [build EXCEPT !.at = "building", !.fdt = fdt, !.todo = Calls(build.job)]

\* A mutant of TooSmall: the limit is tested after the size is doubled.
GivesUpEarly ==
  IF 2 * build.size >= BUILD_MAX THEN Ends("ENOSPC", NoBlob)
  ELSE build' = [build EXCEPT !.at = "again", !.size = 2 * @, !.fdt = NoBlob, !.todo = <<>>]

\* FDT_ERR_NOSPACE: the builder starts again in a buffer of twice the size.
TooSmall ==
  IF build.size >= BUILD_MAX THEN Ends("ENOSPC", NoBlob)
  ELSE build' = [build EXCEPT !.at = "again", !.size = 2 * @, !.fdt = NoBlob, !.todo = <<>>]

\* One call of the builder; -FDT_ERR_INTERNAL is a copy that has no memory.
Emit ==
  /\ build.at = "building" /\ build.todo # <<>>
  /\ \/ Head(build.todo).do = "cells" /\ Ends("EINVAL", NoBlob)
     \/ \E r \in {Perform(build.fdt, Head(build.todo))} :
          CASE r.ret = 0 -> build' = [build EXCEPT !.fdt = r.blob, !.todo = Tail(@)]
            [] r.ret = NOSPACE -> TooSmall
            [] OTHER -> Ends("EINVAL", NoBlob)

FinishBuild ==
  /\ build.at = "building" /\ build.todo = <<>>
  /\ \E r \in {fdt_finish(build.fdt)} :
       CASE r.ret = 0 -> Ends("ok", fdt_pack(r.blob).blob)
         [] r.ret = NOSPACE -> TooSmall
         [] OTHER -> Ends("EINVAL", NoBlob)

BuildNext == Refuse \/ TryBuild \/ Emit \/ FinishBuild
-----------------------------------------------------------------------------
(* Reading a finished tree: through libfdt, as the root tree is read, or   *)
(* as the directories of /proc/device-tree, where names are exact.         *)

\* fdt_for_each_subnode(), which is also what readdir() finds
RECURSIVE SubnodesFrom(_, _)
SubnodesFrom(b, o) == IF o < 0 THEN <<>> ELSE <<o>> \o SubnodesFrom(b, fdt_next_subnode(b, o))
Subnodes(b, o) == SubnodesFrom(b, fdt_first_subnode(b, o))

Named(b, o, prefix) == SelectSeq(Subnodes(b, o), LAMBDA n : fdt_get_name(b, n)[1] = prefix)

\* The directory path below o, and the file of it: <<>> is ENOENT.
Dir(b, o, path) ==
  FoldLeft(LAMBDA dirs, name :
             SelectSeq(FlattenSeq([n \in DOMAIN dirs |-> Subnodes(b, dirs[n])]),
                       LAMBDA n : fdt_get_name(b, n) = <<name>>), <<o>>, path)
file_read(b, o, path, file) ==
  LET dir == Dir(b, o, path) IN IF dir = <<>> THEN <<>> ELSE fdt_getprop(b, dir[1], <<file>>)

\* A property of n whole cells.
Whole(p) == p # <<>> /\ ~Contains(p[1], PART)
Holds(p, n) == Whole(p) /\ Len(p[1]) = n

fdtutil_read_reg(b, o) == fdt_getprop(b, o, <<"reg">>)
fdtutil_read_u64(b, o, name) == fdt_getprop(b, o, <<name>>)

\* Pairs of cells, added to a range set one after the other.
Pairs(cells) == [n \in 1..(Len(cells) \div 2) |-> [base |-> cells[2 * n - 1], size |-> cells[2 * n]]]
AddAll(pairs) ==
  FoldLeft(LAMBDA s, x : IF s.ret = "ok" THEN rangeset_add(s.set, x.base, x.size, FALSE) ELSE s,
           Done(Empty), pairs)

\* struct vmcore_info from its files: an absent one stays zero.
VmcoreInfo(page_offset, info, notes) ==
  LET good == /\ page_offset = <<>> \/ Holds(page_offset, 1)
              /\ info = <<>> \/ Holds(info, 2)
              /\ notes = <<>> \/ (Whole(notes) /\ Len(notes[1]) % 2 = 0)
  IN  [ret |-> IF good THEN "ok" ELSE "EINVAL",
       page_offset |-> IF page_offset = <<>> THEN <<>> ELSE page_offset[1],
       vmcoreinfo |-> IF info = <<>> THEN [base |-> 0, size |-> 0] ELSE Pairs(info[1])[1],
       cpu_notes |-> IF notes = <<>> THEN <<>> ELSE Pairs(notes[1])]

read_vmcore(b, o) == VmcoreInfo(file_read(b, o, <<"vmcore">>, "page-offset"),
                                file_read(b, o, <<"vmcore", "vmcoreinfo">>, "reg"),
                                file_read(b, o, <<"vmcore", "cpu-notes">>, "reg"))

\* The IOMMU of a function is not read back.
read_pci_device(b, o) ==
  LET cell(name) == LET p == fdt_getprop(b, o, <<name>>) IN IF p = <<>> THEN 0 ELSE p[1][1]
      id == fdt_getprop(b, o, <<"pci-id">>)
  IN  [id |-> IF id = <<>> THEN "none" ELSE id[1][1], vendor |-> cell("vendor-id"),
       device |-> cell("device-id"), class |-> cell("class-code"), iommu |-> 0]

read_devices(b, o) ==
  LET dir == Dir(b, o, <<"devices">>)
      nodes == IF dir = <<>> THEN <<>> ELSE Named(b, dir[1], "pci_")
  IN  [n \in DOMAIN nodes |-> read_pci_device(b, nodes[n])]

\* The reg of each of the nodes.
RegsOf(b, nodes) == [n \in DOMAIN nodes |-> fdtutil_read_reg(b, nodes[n])]

HostTree(cpus, regs, devices, vmcore) ==
  LET ram == AddAll([n \in DOMAIN regs |-> Pairs(regs[n][1])[1]])
      failed(err) == [ret |-> err]
  IN  CASE cpus = <<>> -> failed("ENOENT")
        [] ~Whole(cpus) \/ \E n \in DOMAIN regs : ~Holds(regs[n], 2) -> failed("EINVAL")
        [] ram.ret # "ok" -> failed(ram.ret)
        [] \E n \in DOMAIN devices : devices[n].id = "none" -> failed("ENOENT")
        [] vmcore.ret # "ok" -> failed(vmcore.ret)
        [] OTHER -> [ret |-> "ok", cpus |-> cpus[1], ram |-> ram.set,
                     devices |-> devices, vmcore |-> vmcore]

\* The order of scandir() is left out: the names are all of one length.
host_tree_read(b, o) ==
  HostTree(fdt_getprop(b, o, <<"cpus">>), RegsOf(b, Named(b, o, "memory")),
           read_devices(b, o), read_vmcore(b, o))

\* The pool's memory is the chunks that say where they are.
sum_chunks(b, resources) ==
  LET nodes == Named(b, resources, "memory")
      sizes == [n \in DOMAIN nodes |->
                  LET reg == fdtutil_read_reg(b, nodes[n]) IN IF Holds(reg, 2) THEN reg[1][2] ELSE 0]
  IN  FoldLeft(LAMBDA x, y : (x + y) % SPAN, 0, sizes)

\* A mutant of sum_instance_memory(): the first instance only.
CountsFirst(b) ==
  LET instances == fdt_path_offset(b, <<InstancesPath>>)
      node == IF instances < 0 THEN NOTFOUND ELSE fdt_first_subnode(b, instances)
      res == IF node < 0 THEN NOTFOUND ELSE fdt_subnode_offset(b, node, PoolPath)
      bytes == IF res < 0 THEN <<>> ELSE fdtutil_read_u64(b, res, "memory-bytes")
  IN  IF Holds(bytes, 1) THEN bytes[1][1] ELSE 0

sum_instance_memory(b) ==
  LET instances == fdt_path_offset(b, <<InstancesPath>>)
      nodes == IF instances < 0 THEN <<>> ELSE Subnodes(b, instances)
      bytes == [n \in DOMAIN nodes |->
                  LET res == fdt_subnode_offset(b, nodes[n], PoolPath)
                      p == IF res < 0 THEN <<>> ELSE fdtutil_read_u64(b, res, "memory-bytes")
                  IN  IF Holds(p, 1) THEN p[1][1] ELSE 0]
  IN  FoldLeft(LAMBDA x, y : (x + y) % SPAN, 0, bytes)

\* The functions of a host bridge: their domain and the first cell of reg.
collect_pci_functions(b, bridge) ==
  LET dom == fdt_getprop(b, bridge, <<"linux,pci-domain">>)
      fns == SelectSeq(Subnodes(b, bridge), LAMBDA n : fdt_getprop(b, n, <<"vendor-id">>) # <<>>)
  IN  [n \in DOMAIN fns |->
         [domain |-> IF dom = <<>> THEN 0 ELSE dom[1][1],
          reg |-> LET reg == fdt_getprop(b, fns[n], <<"reg">>)
                  IN  IF reg = <<>> \/ reg[1] = <<>> THEN PART ELSE reg[1][1]]]

collect_pool_pci(b) ==
  LET bridges == SelectSeq(Subnodes(b, 1), LAMBDA n :
                   fdt_getprop(b, n, <<"compatible">>) = <<<<"multikernel,pci-host-bridge">>>>)
  IN  FlattenSeq([n \in DOMAIN bridges |-> collect_pci_functions(b, bridges[n])])

collect_platform_devices(b, resources) ==
  LET devices == fdt_subnode_offset(b, resources, <<"devices">>)
      nodes == IF devices < 0 THEN <<>>
               ELSE SelectSeq(Subnodes(b, devices), LAMBDA n :
                      fdt_getprop(b, n, <<"device-type">>) = <<<<"platform">>>>)
      name(n) == fdt_getprop(b, n, <<"device-name">>)
  IN  [n \in DOMAIN nodes |-> IF name(nodes[n]) # <<>> THEN name(nodes[n])[1]
                                                     ELSE fdt_get_name(b, nodes[n])]

\* Without a chunk there is no pool, though there are resources.
dt_read_pool(b) ==
  LET resources == fdt_path_offset(b, <<PoolPath>>)
      free_cpus == fdt_getprop(b, resources, <<"cpus-available">>)
      total == sum_chunks(b, resources)
      used == sum_instance_memory(b)
      devices == collect_pool_pci(b)
  IN  CASE resources < 0 -> [ret |-> "ENOENT"]
        [] free_cpus # <<>> /\ ~Whole(free_cpus) -> [ret |-> "EINVAL"]
        [] total = 0 -> [ret |-> "ENOENT"]
        [] \E n \in DOMAIN devices : devices[n].reg = PART -> [ret |-> "EINVAL"]
        [] OTHER -> [ret |-> "ok",
                     free_cpus |-> IF free_cpus = <<>> THEN <<>> ELSE free_cpus[1],
                     total_bytes |-> total,
                     free_bytes |-> IF used < total THEN total - used ELSE 0,
                     devices |-> devices,
                     platform_devices |-> collect_platform_devices(b, resources)]

dt_read_memory_granule(b) ==
  LET p == fdtutil_read_u64(b, 1, "memory-granule")
  IN  IF Holds(p, 1) THEN [ret |-> "ok", granule |-> p[1][1]] ELSE [ret |-> "EINVAL"]

\* An odd cell is refused before any is added.
read_reserved(b) ==
  LET cells == file_read(b, 1, <<"chosen">>, "multikernel,reserved-memory")
  IN  IF cells = <<>> THEN Done(Empty)
      ELSE IF ~Whole(cells) \/ Len(cells[1]) % 2 # 0 THEN Failed("EINVAL", Empty)
      ELSE AddAll(Pairs(cells[1]))

devtree_read_self(b) ==
  LET name == file_read(b, 1, <<>>, "model")
      id == file_read(b, 1, <<>>, "id")
      own_cpus == file_read(b, 1, PoolPath, "cpus")
      reserved == read_reserved(b)
  IN  CASE name = <<>> \/ id = <<>> -> [ret |-> "ENOENT"]
        [] ~Holds(id, 1) -> [ret |-> "EINVAL"]
        [] own_cpus = <<>> -> [ret |-> "ENOENT"]
        [] ~Whole(own_cpus) -> [ret |-> "EINVAL"]
        [] reserved.ret # "ok" -> [ret |-> reserved.ret]
        [] OTHER -> [ret |-> "ok", name |-> name[1][1], id |-> id[1][1],
                     own_cpus |-> own_cpus[1], reserved |-> reserved.set]

\* The first bad unit makes it fail, and the units before it are dropped.
devtree_read_iommus(b) ==
  LET dir == Dir(b, 1, <<"chosen", "multikernel,iommus">>)
      nodes == IF dir = <<>> THEN <<>> ELSE Named(b, dir[1], "iommu")
      regs == [n \in DOMAIN nodes |-> fdtutil_read_reg(b, nodes[n])]
  IN  IF \E n \in DOMAIN regs : ~Holds(regs[n], 2) THEN [ret |-> "EINVAL"]
      ELSE [ret |-> "ok", iommus |-> [n \in DOMAIN regs |-> Pairs(regs[n][1])[1]]]
-----------------------------------------------------------------------------
(* Properties.                                                             *)

Built == build.at = "done" /\ build.ret = "ok"

\* What the kernel finds in an overlay: where each fragment applies, and the
\* values of a property of the nodes below one of its operations.
Fragments(b) == Named(b, 1, "fragment")
Targets(b) == [n \in DOMAIN Fragments(b) |-> fdt_getprop(b, Fragments(b)[n], <<"target-path">>)[1]]
At(b, n, path) == Dir(b, Fragments(b)[n], <<"__overlay__">> \o path)
Below(b, dirs, name) ==
  LET nodes == FlattenSeq([n \in DOMAIN dirs |-> Subnodes(b, dirs[n])])
  IN  FlattenSeq([n \in DOMAIN nodes |-> fdt_getprop(b, nodes[n], <<name>>)])
Strings(names) == [n \in DOMAIN names |-> <<names[n]>>]
Regs(ranges) == [n \in DOMAIN ranges |-> <<ranges[n].base, ranges[n].size>>]

\* host_tree_read() of the tree that travels with the instance: all of it but
\* the IOMMUs of the functions.
HostTreeArrives(b, dir, ht) ==
  \A read \in {host_tree_read(b, dir)} :
      /\ read.ret = "ok"
      /\ read.cpus = ht.cpus /\ read.ram.r = ht.ram.r
      /\ read.devices = [n \in DOMAIN ht.devices |-> [ht.devices[n] EXCEPT !.iommu = 0]]
      /\ \A f \in DOMAIN ht.vmcore : read.vmcore[f] = ht.vmcore[f]

CreateSays(b, a) ==
  LET create == At(b, 1, <<"instance-create">>)
      res == Dir(b, create[1], <<"resources">>)[1]
      tree == Dir(b, create[1], <<"chosen", "multikernel,host-tree">>)
  IN  /\ Targets(b) = <<InstancesPath>> \o When(a.devices # <<>>, <<InstancePath(a.name)>>)
      /\ fdt_getprop(b, create[1], <<"instance-name">>) = <<<<a.name>>>>
      /\ fdt_getprop(b, res, <<"cpus">>) = <<a.cpus>>
      /\ fdt_getprop(b, res, <<"memory-bytes">>) = <<<<a.memory>>>>
      /\ Below(b, Dir(b, res, <<"devices">>), "device-name") = Strings(a.platform)
      /\ Len(tree) = Len(a.host) /\ \A n \in DOMAIN tree : HostTreeArrives(b, tree[n], a.host[n])
      /\ a.devices # <<>> => Below(b, At(b, 2, <<"device-add">>), "pci-id") = Strings(a.devices)

AdoptSays(b, a) ==
  /\ Targets(b) = <<InstancePath(a.name)>>
  /\ Below(b, At(b, 1, <<"cpu-add">>), "reg") = Strings(a.cpus)
  /\ Below(b, At(b, 1, <<"memory-add">>), "reg") = Regs(a.ranges.r)
  /\ a.cpus = <<>> => At(b, 1, <<"cpu-add">>) = <<>>
  /\ a.ranges.r = <<>> => At(b, 1, <<"memory-add">>) = <<>>

\* The pool gets its claim and so much more that it holds what it is to hold.
PoolSays(b, a) ==
  LET res == Dir(b, 1, PoolPath)
      sizes == Below(b, res, "size")
      claimed == IF a.claim = <<>> THEN 0 ELSE a.claim[1].size
      grown == IF sizes = <<>> THEN 0 ELSE sizes[1][1]
  IN  /\ fdt_getprop(b, res[1], <<"cpus">>) = <<a.cpus>>
      /\ Below(b, res, "reg") = Regs(a.claim)
      /\ Len(sizes) <= 1
      /\ claimed + grown = IF claimed > a.memory THEN claimed ELSE a.memory
      /\ Below(b, Dir(b, res[1], <<"devices">>), "pci-id") = [n \in DOMAIN a.functions |-> <<a.functions[n].id>>]
      /\ Below(b, Dir(b, res[1], <<"devices">>), "device-name") = Strings(a.platform)

\* dt.h "Blobs for the multikernel kernel interfaces": whatever buffers the
\* build went through, a blob that the dt_build functions return says what
\* their caller asked for and nothing more, every fragment applies where it
\* should, and the host tree in it reads back.
BlobSaysJob ==
  Built =>
    LET b == build.fdt
        a == build.job
        adds(op, prop) == Below(b, At(b, 1, <<op>>), prop)
    IN  CASE a.kind = "create" -> CreateSays(b, a)
          [] a.kind = "adopt" -> AdoptSays(b, a)
          [] a.kind = "pool" -> PoolSays(b, a)
          [] a.kind = "remove" ->
               /\ Targets(b) = <<InstancesPath>>
               /\ fdt_getprop(b, At(b, 1, <<"instance-remove">>)[1], <<"instance-name">>) = <<<<a.name>>>>
          [] a.kind = "adopt-device" ->
               Targets(b) = <<InstancePath(a.name)>> /\ adds("device-add", "pci-id") = <<<<a.pci_id>>>>
          [] a.kind = "iommu" ->
               Targets(b) = <<InstancePath(a.name)>> /\ adds("iommu-add", "reg") = <<<<a.base>>>>
          [] a.kind = "pool-device" ->
               Targets(b) = <<PoolPath>> /\ adds("device-add", "pci-id") = Strings(a.devices)
          [] a.kind = "foreign" ->
               /\ fdt_getprop(b, Dir(b, 1, PoolPath)[1], <<"cpus">>) = <<a.cpus>>
               /\ Below(b, Dir(b, 1, PoolPath), "reg") = Regs(a.ranges.r)
          [] a.kind = "kernel" -> TRUE

\* The bytes of a job's blob while it is written, in a buffer that holds it.
Need(job) ==
  LET begun == fdt_finish_reservemap(fdt_create(2 ^ 20).blob).blob
      written == FoldLeft(LAMBDA b, call : Perform(b, call).blob, begun, Calls(job))
  IN  fdt_data_size_(fdt_finish(written).blob)

\* The first of the sizes that is the limit or more.
RECURSIVE LastFrom(_)
LastFrom(size) == IF size >= BUILD_MAX THEN size ELSE LastFrom(2 * size)

\* fdtutil_build(): the largest buffer is tried before a blob is given up, and
\* a blob is returned exactly when that one holds it, packed to its own size.
BuildsWhatFits ==
  build.at = "done" =>
    /\ build.ret = "ok" => /\ Need(build.job) <= build.size
                           /\ build.fdt.totalsize = fdt_data_size_(build.fdt)
    /\ build.ret = "ENOSPC" => Need(build.job) > LastFrom(BUILD_SIZE)

Sum(numbers) == FoldLeft(LAMBDA x, y : x + y, 0, numbers)

\* dt_read_pool() and devtree_read_self(), devtree_read_iommus() of the tree
\* the kernel publishes: the pool is all chunks, what is free is what no
\* instance holds, every pooled function and platform device is listed once;
\* the reserved regions are a range set; and a file with a cell cut short or an
\* odd one is refused as a whole.
TreeReadBack ==
  Built /\ build.job.kind = "kernel" =>
    \A pool \in {dt_read_pool(build.fdt)}, self \in {devtree_read_self(build.fdt)},
       iommus \in {devtree_read_iommus(build.fdt)} :
    LET b == build.fdt
        a == build.job
        total == Sum([n \in DOMAIN a.chunks |-> a.chunks[n].size])
        used == Sum([n \in DOMAIN a.instances |-> a.instances[n].memory])
        fns == FlattenSeq([n \in DOMAIN a.bridges |->
                 [f \in DOMAIN a.bridges[n].functions |->
                    [domain |-> a.bridges[n].domain, reg |-> a.bridges[n].functions[f][1]]]])
        paired == Len(a.reserved) % 2 = 0 /\ ~Contains(a.reserved, PART)
    IN  /\ dt_read_memory_granule(b) = [ret |-> "ok", granule |-> a.granule]
        /\ pool.ret = "ok" <=> a.chunks # <<>> /\ ~Contains(a.cpus, PART)
        /\ pool.ret = "ok" =>
             /\ pool.free_cpus = a.cpus /\ pool.total_bytes = total
             /\ pool.free_bytes = IF used < total THEN total - used ELSE 0
             /\ pool.devices = fns /\ pool.platform_devices = Strings(a.platform)
        /\ self.ret = "ok" <=> /\ a.cpus # <<>> /\ ~Contains(a.cpus, PART)
                               /\ Len(a.id) = 1 /\ ~Contains(a.id, PART) /\ paired
        /\ self.ret = "ok" =>
             /\ self.name = a.name /\ self.id = a.id[1] /\ self.own_cpus = a.cpus
             /\ Canonical(self.reserved)
             /\ Addresses(self.reserved) =
                  UNION {Bytes(x) : x \in {Pairs(a.reserved)[n] : n \in DOMAIN Pairs(a.reserved)}}
        /\ iommus.ret = "ok" <=> \A n \in DOMAIN a.iommus : Len(a.iommus[n]) = 2 /\ ~Contains(a.iommus[n], PART)
        /\ iommus.ret = "ok" => Regs(iommus.iommus) = a.iommus
=============================================================================
