------------------------------ MODULE FdtCalls ------------------------------
(***************************************************************************)
(* A program that writes a blob with the calls of module Fdt, finishes it  *)
(* and goes on to edit it, in a buffer of any of the sizes SIZES.  Calls   *)
(* are made in the order the builders of lib/dt.c keep to: nodes are       *)
(* closed, and a node's properties precede its subnodes.                   *)
(***************************************************************************)
EXTENDS Fdt

CONSTANTS SIZES,   \* buffer sizes
          NODES,   \* names of nodes below the root
          PROPS,   \* names of properties
          VALUES,  \* property values, sequences of bytes
          MAX_RSV, \* reservations, the terminator included
          PATH_LEN \* the buffer a caller gives fdt_get_path()

VARIABLES blob,    \* the blob, or [magic |-> "none"] before fdt_create()
          ret,     \* what the latest call returned
          did,     \* the latest call that succeeded, its node as a position
          nodes    \* the tree that reads from the blob, for the refinement

fdtVars == <<blob, ret, did, nodes>>

Entry == <<1, 1>>

Offsets(b) == {o \in DOMAIN b.struct : b.struct[o].tag = "BEGIN_NODE"}

Until(b, o) == Min({j \in o + 1 .. Len(b.struct) + 1 :
                       fdt_next_tag(b, j).tag \notin {"PROP", "NOP"}})

OpenAt(b, o) ==
  LET seen(tag) == Cardinality({p \in 1 .. o - 1 : b.struct[p].tag = tag})
  IN seen("BEGIN_NODE") - seen("END_NODE")

\* the node at an offset as its depth, name and properties read
NodeAt(b, o) ==
  LET read(tags) == [i \in DOMAIN tags |-> <<fdt_get_string(b, tags[i].nameoff), tags[i].val>>]
  IN [depth |-> OpenAt(b, o), name |-> b.struct[o].name,
      props |-> read(SelectSeq(SubSeq(b.struct, o + 1, Until(b, o) - 1),
                               LAMBDA t : t.tag = "PROP"))]

\* the nodes in document order
Nodes(b) ==
  IF b.magic = "none" THEN <<>>
  ELSE LET at == SelectSeq([o \in DOMAIN b.struct |-> o], LAMBDA o : b.struct[o].tag = "BEGIN_NODE")
       IN [k \in DOMAIN at |-> NodeAt(b, at[k])]

Open(b) == IF b.magic = "none" THEN 0 ELSE OpenAt(b, Len(b.struct) + 1)

\* the position of the node at an offset among the nodes
Position(b, o) == Cardinality({p \in Offsets(b) : p <= o})

NoCall == [op |-> "none", node |-> 0, name |-> <<>>, val |-> <<>>]

Call(op, k, n, v, result) == \E r \in {result} :
  /\ blob' = r.blob /\ ret' = r.ret
  /\ nodes' = IF r.blob = blob THEN nodes ELSE Nodes(r.blob)
  /\ did' = IF r.ret < 0 THEN NoCall ELSE [op |-> op, node |-> k, name |-> n, val |-> v]

FdtInit == blob = NoBlob /\ nodes = <<>> /\ ret = 0 /\ did = NoCall

Create == blob = NoBlob /\ \E s \in SIZES : Call("create", 0, <<>>, <<>>, fdt_create(s))

Writing == blob.magic = "FDT_SW_MAGIC"

Resize == blob # NoBlob /\ \E s \in SIZES : Call("resize", 0, <<>>, <<>>, fdt_resize(blob, s))

AddReservemapEntry ==
  /\ Writing /\ Len(blob.rsv) + 1 < MAX_RSV
  /\ Call("reserve", 0, <<>>, Entry, fdt_add_reservemap_entry(blob, Entry))

FinishReservemap ==
  /\ Writing /\ ~blob.mapped
  /\ Call("reserve", 0, <<>>, <<0, 0>>, fdt_finish_reservemap(blob))

Tags == Writing /\ blob.mapped

BeginNode ==
  /\ Tags
  /\ \/ blob.struct = <<>> /\ Call("begin", 0, <<>>, <<>>, fdt_begin_node(blob, <<>>))
     \/ Open(blob) > 0 /\ \E n \in NODES : Call("begin", 0, n, <<>>, fdt_begin_node(blob, n))

Property ==
  /\ Tags /\ Open(blob) > 0 /\ Last(blob.struct).tag # "END_NODE"
  /\ \E n \in PROPS, v \in VALUES : Call("prop", 0, n, v, fdt_property(blob, n, v))

EndNode == Tags /\ Open(blob) > 0 /\ Call("end", 0, <<>>, <<>>, fdt_end_node(blob))

Finish ==
  /\ Writing /\ blob.mapped /\ blob.struct # <<>> /\ Open(blob) = 0
  /\ Call("finish", 0, <<>>, <<>>, fdt_finish(blob))

Editing == blob.magic = "FDT_MAGIC"

OpenInto == Editing /\ \E s \in SIZES : Call("open", 0, <<>>, <<>>, fdt_open_into(blob, s))

Pack == Editing /\ Call("pack", 0, <<>>, <<>>, fdt_pack(blob))

EditProperty ==
  /\ Editing
  /\ \E o \in Offsets(blob), n \in PROPS :
       LET k == Position(blob, o)
       IN \/ Call("del", k, n, <<>>, fdt_delprop(blob, o, n))
          \/ Call("del", k, n, <<>>, fdt_nop_property(blob, o, n))
          \/ \E v \in VALUES :
               \/ Call("set", k, n, v, fdt_setprop(blob, o, n, v))
               \/ Call("set", k, n, v, fdt_setprop_inplace(blob, o, n, v))
               \/ Call("append", k, n, v, fdt_appendprop(blob, o, n, v))

EditNode ==
  /\ Editing
  /\ \E o \in Offsets(blob) :
       LET k == Position(blob, o)
       IN \/ Call("remove", k, <<>>, <<>>, fdt_del_node(blob, o))
          \/ Call("remove", k, <<>>, <<>>, fdt_nop_node(blob, o))
          \/ \E n \in NODES :
               \/ o > 1 /\ Call("rename", k, n, <<>>, fdt_set_name(blob, o, n))
               \/ Call("add", k, n, <<>>, fdt_add_subnode(blob, o, n))

EditReserved ==
  /\ Editing
  /\ \/ Len(blob.rsv) < MAX_RSV /\ Call("addrsv", 0, <<>>, Entry, fdt_add_mem_rsv(blob, Entry))
     \/ \E n \in 0 .. MAX_RSV - 1 : Call("delrsv", n + 1, <<>>, <<>>, fdt_del_mem_rsv(blob, n))

FdtNext ==
  \/ Create \/ Resize \/ AddReservemapEntry \/ FinishReservemap
  \/ BeginNode \/ Property \/ EndNode \/ Finish
  \/ OpenInto \/ Pack \/ EditProperty \/ EditNode \/ EditReserved

FdtSpec == FdtInit /\ [][FdtNext]_fdtVars

---------------------------------------------------------------------------
Tree == INSTANCE DeviceTree
          WITH tree <- nodes, open <- Open(blob),
               reserved <- IF blob = NoBlob THEN <<>> ELSE blob.rsv,
               did <- did, MATCH <- Answers

(* Whatever the calls made of tags, offsets and names, the tree read from  *)
(* the blob changes exactly as the successful call says and not at all     *)
(* when a call fails (fdt_sw.c, fdt_rw.c, fdt_wip.c).                      *)
FdtImplementsTree == Tree!DTSpec

(* A call that fails, for want of space above all, leaves the blob as it   *)
(* was, down to the string table: the name that fdt_find_add_string_()     *)
(* added is taken back by fdt_del_last_string_().                          *)
FailureChangesNothing == [][ret' < 0 => UNCHANGED blob]_fdtVars

(* Structure block, strings and reservations never outgrow the buffer, and *)
(* the lookups of fdt_ro.c on a finished tree agree with the tree itself:  *)
(* a property is found by its name and not by a part of it, a subnode and  *)
(* a parent are the node's own, and a path leads back to its node unless a *)
(* sibling before one of its nodes answers to the same name.               *)
LookupsAgree ==
  LET ns == nodes
      pos(o) == Position(blob, o)
      parent(j) == Max({i \in 1 .. j - 1 : ns[i].depth = ns[j].depth - 1})
      below(k) == {j \in k + 1 .. Len(ns) : ns[j].depth = ns[k].depth + 1 /\ parent(j) = k}
      first(S) == IF S = {} THEN {} ELSE {Min(S)}
      at(o) == IF o > 0 THEN {pos(o)} ELSE {}
      value(k, n) ==
        LET has == {i \in DOMAIN ns[k].props : ns[k].props[i][1] = n}
        IN IF has = {} THEN <<>> ELSE <<ns[k].props[Min(has)][2]>>
  IN blob # NoBlob =>
     /\ fdt_data_size_(blob) <= blob.totalsize
     /\ blob.magic = "FDT_MAGIC" =>
        \A o \in Offsets(blob) :
          /\ \A n \in PROPS : fdt_getprop(blob, o, n) = value(pos(o), n)
          /\ \A n \in NODES :
               at(fdt_subnode_offset(blob, o, n)) =
                 first({j \in below(pos(o)) : Answers(ns[j].name, n)})
          /\ at(fdt_first_subnode(blob, o)) = first(below(pos(o)))
          /\ at(fdt_parent_offset(blob, o)) =
               IF o = 1 THEN {} ELSE {parent(pos(o))}
          /\ LET path == fdt_get_path(blob, o, PATH_LEN)
                 upwards(j) == {i \in 1 .. j : /\ ns[i].depth <= ns[j].depth
                                               /\ \A h \in i + 1 .. j : ns[h].depth > ns[i].depth}
                 shadowed(j) == j > 1 /\ \E i \in below(parent(j)) :
                                            i < j /\ Answers(ns[i].name, ns[j].name)
             IN (path.ret = 0 /\ \A j \in upwards(pos(o)) : ~shadowed(j)) =>
                  fdt_path_offset(blob, Tail(path.blob)) = o
          /\ \A n \in PROPS, v \in VALUES :
               at(fdt_node_offset_by_prop_value(blob, o, n, v)) =
                 first({j \in pos(o) + 1 .. Len(ns) : <<v>> = value(j, n)})
          /\ o > 1 => at(fdt_next_subnode(blob, o)) =
                        first({j \in below(parent(pos(o))) : j > pos(o)})
===========================================================================
