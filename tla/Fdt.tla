-------------------------------- MODULE Fdt --------------------------------
(***************************************************************************)
(* The flattened device tree of lib/fdt: a blob whose structure block is a *)
(* sequence of tags and whose property names are offsets into a string     *)
(* table.  fdt_sw.c writes a blob front to back with the string table at   *)
(* the end of the buffer, fdt_rw.c edits a finished one by moving what     *)
(* follows, fdt_wip.c overwrites with NOP tags, fdt_ro.c looks things up.  *)
(*                                                                         *)
(* An offset is the position of a tag in the structure block; sizes are in *)
(* bytes and decide between success and FDT_ERR_NOSPACE as in the code.    *)
(* Names are sequences of symbols, as an offset may lead into the middle   *)
(* of a stored name and a lookup may leave out the unit address.           *)
(***************************************************************************)
EXTENDS Integers, Sequences, SequencesExt, FiniteSetsExt

NUL == "NUL"

NOTFOUND == -1
EXISTS == -2
NOSPACE == -3
BADOFFSET == -4
BADSTATE == -7
TRUNCATED == -8
BADSTRUCTURE == -11
BEGIN_NODE(n) == [tag |-> "BEGIN_NODE", name |-> n]
PROP(o, v) == [tag |-> "PROP", nameoff |-> o, val |-> v]
END_NODE == [tag |-> "END_NODE"]
NOP == [tag |-> "NOP"]
END == [tag |-> "END"]

\* a buffer without a blob
NoBlob == [magic |-> "none"]

\* a call's return value and the blob it leaves
Returns(r, b) == [ret |-> r, blob |-> b]

Align(n, a) == ((n + a - 1) \div a) * a

TagSize(t) ==
  CASE t.tag = "BEGIN_NODE" -> 4 + Align(Len(t.name) + 1, 4)
    [] t.tag = "PROP" -> 12 + Align(Len(t.val), 4)
    [] OTHER -> 4

RsvSize == 16

SizeOf(tags) ==
  LET upto[i \in 0 .. Len(tags)] == IF i = 0 THEN 0 ELSE upto[i - 1] + TagSize(tags[i])
  IN upto[Len(tags)]

off_dt_struct(b) == b.off_mem_rsvmap + RsvSize * Len(b.rsv)

fdt_data_size_(b) == off_dt_struct(b) + SizeOf(b.struct) + Len(b.strings)

---------------------------------------------------------------------------
(* fdt.c: walking the tags *)

fdt_next_tag(b, o) ==
  IF o \in DOMAIN b.struct THEN [tag |-> b.struct[o].tag, next |-> o + 1]
  ELSE [tag |-> "END", next |-> TRUNCATED]

fdt_check_node_offset_(b, o) ==
  IF fdt_next_tag(b, o).tag = "BEGIN_NODE" THEN o + 1 ELSE BADOFFSET

fdt_check_prop_offset_(b, o) ==
  IF fdt_next_tag(b, o).tag = "PROP" THEN o + 1 ELSE BADOFFSET

EndsIn(b, from, j) == Cardinality({i \in from .. j : fdt_next_tag(b, i).tag = "END_NODE"})

\* the tag t at which the loop of fdt_next_node() ended, left nodes before it
StopsAt(t, at, depth, left, counted) ==
  CASE t.tag = "BEGIN_NODE" -> [off |-> at, depth |-> depth - left + 1]
    [] t.tag = "END_NODE" -> [off |-> t.next, depth |-> -1]
    [] OTHER -> [off |-> IF t.next > 0 \/ ~counted THEN NOTFOUND ELSE t.next,
                 depth |-> depth - left]

NodeFrom(b, from, depth, counted) ==
  LET at == Min({j \in from .. Len(b.struct) + 1 :
                    \/ fdt_next_tag(b, j).tag \in {"BEGIN_NODE", "END"}
                    \/ counted /\ EndsIn(b, from, j) > depth})
  IN StopsAt(fdt_next_tag(b, at), at, depth, EndsIn(b, from, at), counted)

\* from 0 (the code's -1) it finds the root; depth counts only when asked for
fdt_next_node(b, o, depth, counted) ==
  IF o > 0 /\ fdt_check_node_offset_(b, o) < 0 THEN [off |-> BADOFFSET, depth |-> depth]
  ELSE NodeFrom(b, IF o > 0 THEN o + 1 ELSE 1, depth, counted)

\* the nodes a loop over fdt_next_node() visits, and where it ends
RECURSIVE Walk(_, _, _)
Walk(b, at, counted) ==
  IF at.off <= 0 \/ (counted /\ at.depth < 0) THEN <<at>>
  ELSE <<at>> \o Walk(b, fdt_next_node(b, at.off, at.depth, counted), counted)

fdt_first_subnode(b, o) ==
  LET n == fdt_next_node(b, o, 0, TRUE)
  IN IF n.off < 0 \/ n.depth # 1 THEN NOTFOUND ELSE n.off

\* the first place of a walk that is no deeper than the node it began at
NextBeside(walk) ==
  LET stop == Min({i \in DOMAIN walk : walk[i].off < 0 \/ walk[i].depth <= 1})
  IN IF walk[stop].off < 0 \/ walk[stop].depth < 1 THEN NOTFOUND ELSE walk[stop].off

fdt_next_subnode(b, o) == NextBeside(Tail(Walk(b, [off |-> o, depth |-> 1], TRUE)))

\* where s stands in a table, counted from 0; a longer name may end in it
fdt_find_string_len_(strtab, s) ==
  {p \in 0 .. Len(strtab) - Len(s) - 1 :
      SubSeq(strtab, p + 1, p + Len(s) + 1) = Append(s, NUL)}

---------------------------------------------------------------------------
(* fdt_ro.c: looking things up in a blob *)

fdt_get_name(b, o) == b.struct[o].name

\* a name without a unit address answers for any unit address
Answers(name, s) ==
  \/ name = s
  \/ /\ ~Contains(s, "@")
     /\ IsStrictPrefix(s, name)
     /\ name[Len(s) + 1] = "@"

fdt_nodename_eq_(b, o, s) == Answers(fdt_get_name(b, o), s)

\* offsets are negative, from the end of the buffer, until fdt_finish()
fdt_get_string(b, stroffset) ==
  LET from == IF b.magic = "FDT_SW_MAGIC" THEN Len(b.strings) + stroffset ELSE stroffset
      ends == {p \in from + 1 .. Len(b.strings) : b.strings[p] = NUL}
  IN SubSeq(b.strings, from + 1, Min(ends) - 1)

fdt_num_mem_rsv(b) == Min({n \in DOMAIN b.rsv : b.rsv[n][2] = 0}) - 1

\* A mutant of nextprop_(): a NOP where a property was ends the list.
StopsAtNop(b, o) ==
  LET t == fdt_next_tag(b, o)
  IN IF t.tag = "PROP" THEN o ELSE NOTFOUND

PropertyAt(at, t) ==
  CASE t.tag = "PROP" -> at
    [] t.tag = "END" -> IF t.next > 0 THEN BADSTRUCTURE ELSE t.next
    [] OTHER -> NOTFOUND

nextprop_(b, o) ==
  LET at == Min({j \in o .. Len(b.struct) + 1 : fdt_next_tag(b, j).tag # "NOP"})
  IN PropertyAt(at, fdt_next_tag(b, at))

fdt_first_property_offset(b, o) ==
  LET next == fdt_check_node_offset_(b, o) IN IF next < 0 THEN next ELSE nextprop_(b, next)

fdt_next_property_offset(b, o) ==
  LET next == fdt_check_prop_offset_(b, o) IN IF next < 0 THEN next ELSE nextprop_(b, next)

\* the first of the properties from o on that has the name, or the error
RECURSIVE PropertyFrom(_, _, _)
PropertyFrom(b, o, name) ==
  IF o < 0 \/ fdt_get_string(b, b.struct[o].nameoff) = name THEN o
  ELSE PropertyFrom(b, fdt_next_property_offset(b, o), name)

fdt_get_property_namelen_(b, o, name) ==
  PropertyFrom(b, fdt_first_property_offset(b, o), name)

\* <<>> for NULL, else the value in a sequence of its own
ValueAt(b, p) == IF p < 0 THEN <<>> ELSE <<b.struct[p].val>>
fdt_getprop(b, o, name) == ValueAt(b, fdt_get_property_namelen_(b, o, name))

SubnodeIn(walk, b, name) ==
  LET hits == {i \in DOMAIN walk : /\ walk[i].off > 0 /\ walk[i].depth = 1
                                   /\ fdt_nodename_eq_(b, walk[i].off, name)}
  IN IF hits # {} THEN walk[Min(hits)].off
     ELSE IF Last(walk).depth < 0 THEN NOTFOUND ELSE Last(walk).off

fdt_subnode_offset(b, o, name) ==
  SubnodeIn(Walk(b, [off |-> o, depth |-> 0], TRUE), b, name)

\* a path is the sequence of the names below the root
fdt_path_offset(b, path) ==
  FoldLeft(LAMBDA o, n : IF o < 0 THEN o ELSE fdt_subnode_offset(b, o, n), 1, path)

\* the nodes from the root up to o, where there is one
WalkTo(b, o) ==
  SelectSeq(Walk(b, [off |-> 1, depth |-> 0], TRUE), LAMBDA w : w.off \in 1 .. o)

fdt_get_path(b, o, buflen) ==
  LET chars(path) == FoldLeft(LAMBDA n, s : n + Len(s) + 1, 0, path)
      enter(path, w) ==
        LET up == SubSeq(path, 1, Min({Len(path), w.depth}))
            name == fdt_get_name(b, w.off)
        IN IF Len(up) >= w.depth /\ chars(up) + Len(name) + 1 <= buflen
           THEN Append(up, name) ELSE up
      walk == WalkTo(b, o)
      path == FoldLeft(enter, <<>>, walk)
  IN CASE buflen < 2 -> Returns(NOSPACE, <<>>)
       [] walk = <<>> \/ Last(walk).off # o -> Returns(BADOFFSET, <<>>)
       [] Len(path) < Last(walk).depth + 1 -> Returns(NOSPACE, <<>>)
       [] OTHER -> Returns(0, path)

fdt_supernode_atdepth_offset(b, o, depth) ==
  LET walk == WalkTo(b, o)
      at == {i \in DOMAIN walk : walk[i].depth = depth}
  IN CASE depth < 0 -> NOTFOUND
       [] walk = <<>> \/ Last(walk).off # o -> BADOFFSET
       [] depth > Last(walk).depth -> NOTFOUND
       [] OTHER -> walk[Max(at)].off

fdt_node_depth(b, o) ==
  LET walk == WalkTo(b, o)
  IN IF walk = <<>> \/ Last(walk).off # o THEN BADOFFSET ELSE Last(walk).depth

fdt_parent_offset(b, o) ==
  LET depth == fdt_node_depth(b, o)
  IN IF depth < 0 THEN depth ELSE fdt_supernode_atdepth_offset(b, o, depth - 1)

fdt_node_offset_by_prop_value(b, start, name, val) ==
  LET walk == Walk(b, fdt_next_node(b, start, 0, FALSE), FALSE)
      hits == {i \in DOMAIN walk : walk[i].off > 0 /\ fdt_getprop(b, walk[i].off, name) = <<val>>}
  IN IF hits # {} THEN walk[Min(hits)].off ELSE Last(walk).off

---------------------------------------------------------------------------
(* fdt_sw.c: writing a blob front to back *)

fdt_create(size) ==
  IF size < 48 THEN Returns(NOSPACE, NoBlob)
  ELSE Returns(0, [magic |-> "FDT_SW_MAGIC", totalsize |-> size, off_mem_rsvmap |-> 48,
                mapped |-> FALSE, rsv |-> <<>>, struct |-> <<>>, strings |-> <<>>])

fdt_sw_probe_memrsv_(b) == b.magic = "FDT_SW_MAGIC" /\ ~b.mapped

fdt_sw_probe_struct_(b) == b.magic = "FDT_SW_MAGIC" /\ b.mapped

fdt_resize(b, size) ==
  CASE b.magic # "FDT_SW_MAGIC" -> Returns(BADSTATE, b)
    [] fdt_data_size_(b) > size -> Returns(NOSPACE, b)
    [] OTHER -> Returns(0, [b EXCEPT !.totalsize = size])

fdt_add_reservemap_entry(b, e) ==
  CASE ~fdt_sw_probe_memrsv_(b) -> Returns(BADSTATE, b)
    [] off_dt_struct(b) + RsvSize > b.totalsize -> Returns(NOSPACE, b)
    [] OTHER -> Returns(0, [b EXCEPT !.rsv = Append(@, e)])

fdt_finish_reservemap(b) ==
  LET r == fdt_add_reservemap_entry(b, <<0, 0>>)
  IN IF r.ret < 0 THEN r ELSE Returns(0, [r.blob EXCEPT !.mapped = TRUE])

\* space for one more tag between the structure block and the strings
fdt_grab_space_(b, t) ==
  IF SizeOf(b.struct) + TagSize(t) > b.totalsize - off_dt_struct(b) - Len(b.strings)
  THEN Returns(NOSPACE, b)
  ELSE Returns(0, [b EXCEPT !.struct = Append(@, t)])

Writes(b, t) ==
  IF fdt_sw_probe_struct_(b) THEN fdt_grab_space_(b, t) ELSE Returns(BADSTATE, b)

fdt_begin_node(b, name) == Writes(b, BEGIN_NODE(name))

fdt_end_node(b) == Writes(b, END_NODE)

\* the table grows down from the end of the buffer
fdt_add_string_(b, s) ==
  IF b.totalsize - (Len(b.strings) + Len(s) + 1) < off_dt_struct(b) + SizeOf(b.struct)
  THEN Returns(0, b)
  ELSE Returns(-(Len(b.strings) + Len(s) + 1), [b EXCEPT !.strings = s \o <<NUL>> \o @])

fdt_property(b, name, val) ==
  LET found == fdt_find_string_len_(b.strings, name)
      named == IF found # {} THEN Returns(Min(found) - Len(b.strings), b)
               ELSE fdt_add_string_(b, name)
      r == fdt_grab_space_(named.blob, PROP(named.ret, val))
  IN CASE ~fdt_sw_probe_struct_(b) -> Returns(BADSTATE, b)
       [] named.ret = 0 -> Returns(NOSPACE, b)
       [] r.ret < 0 /\ found = {} ->      \* fdt_del_last_string_()
            Returns(NOSPACE, [named.blob EXCEPT !.strings =
                              SubSeq(@, Len(name) + 2, Len(@))])
       [] OTHER -> r

\* the strings move down to the structure block, so the names count from the start
Relocates(b, t) ==
  IF t.tag = "PROP" THEN [t EXCEPT !.nameoff = @ + Len(b.strings)] ELSE t

fdt_finish(b) ==
  LET r == Writes(b, END)
      moved == [i \in DOMAIN r.blob.struct |-> Relocates(b, r.blob.struct[i])]
  IN IF r.ret < 0 THEN r
     ELSE Returns(0, [r.blob EXCEPT !.magic = "FDT_MAGIC", !.struct = moved,
                                 !.totalsize = fdt_data_size_(r.blob)])

---------------------------------------------------------------------------
(* fdt_rw.c and fdt_wip.c: editing a finished blob in place *)

\* a sequence with its elements from .. to - 1 replaced
Splice(s, from, to, new) == SubSeq(s, 1, from - 1) \o new \o SubSeq(s, to, Len(s))

\* room for a change of the data by delta bytes
fdt_splice_(b, delta) == fdt_data_size_(b) + delta <= b.totalsize

fdt_splice_struct_(b, from, to, new) ==
  IF fdt_splice_(b, SizeOf(new) - SizeOf(SubSeq(b.struct, from, to - 1)))
  THEN Returns(0, [b EXCEPT !.struct = Splice(@, from, to, new)])
  ELSE Returns(NOSPACE, b)

fdt_find_add_string_(b, s) ==
  LET found == fdt_find_string_len_(b.strings, s)
  IN CASE found # {} -> Returns(Min(found), b)
       [] ~fdt_splice_(b, Len(s) + 1) -> Returns(NOSPACE, b)
       [] OTHER -> Returns(Len(b.strings), [b EXCEPT !.strings = @ \o s \o <<NUL>>])

\* A mutant of fdt_add_property_(): the name stays in the table when the
\* property has no room.
KeepsName(b, o, name, val) ==
  LET next == fdt_check_node_offset_(b, o)
      named == fdt_find_add_string_(b, name)
  IN CASE next < 0 -> Returns(next, b)
       [] named.ret < 0 -> named
       [] OTHER -> fdt_splice_struct_(named.blob, next, next, <<PROP(named.ret, val)>>)

\* fdt_del_last_string_() takes the name back when the property has no room
fdt_add_property_(b, o, name, val) ==
  LET next == fdt_check_node_offset_(b, o)
      named == fdt_find_add_string_(b, name)
      r == fdt_splice_struct_(named.blob, next, next, <<PROP(named.ret, val)>>)
  IN CASE next < 0 -> Returns(next, b)
       [] named.ret < 0 -> named
       [] r.ret < 0 /\ named.blob # b ->
            Returns(r.ret, [named.blob EXCEPT !.strings = SubSeq(@, 1, Len(@) - Len(name) - 1)])
       [] OTHER -> r

\* the property's value becomes val, behind the old one where that is kept
ChangesProperty(b, o, name, val, keep) ==
  LET p == fdt_get_property_namelen_(b, o, name)
  IN CASE p > 0 -> fdt_splice_struct_(b, p, p + 1,
                      <<[b.struct[p] EXCEPT !.val = IF keep THEN @ \o val ELSE val]>>)
       [] p = NOTFOUND -> fdt_add_property_(b, o, name, val)
       [] OTHER -> Returns(p, b)

fdt_setprop(b, o, name, val) == ChangesProperty(b, o, name, val, FALSE)

fdt_appendprop(b, o, name, val) == ChangesProperty(b, o, name, val, TRUE)

fdt_delprop(b, o, name) ==
  LET p == fdt_get_property_namelen_(b, o, name)
  IN IF p < 0 THEN Returns(p, b) ELSE fdt_splice_struct_(b, p, p + 1, <<>>)

fdt_set_name(b, o, name) ==
  IF fdt_check_node_offset_(b, o) < 0 THEN Returns(BADOFFSET, b)
  ELSE fdt_splice_struct_(b, o, o + 1, <<BEGIN_NODE(name)>>)

\* A mutant of fdt_add_subnode(): NOPs do not count as part of the parent's
\* properties.
BeforeNops(b, parent) ==
  Min({j \in parent + 1 .. Len(b.struct) : fdt_next_tag(b, j).tag # "PROP"})

\* a new node goes after the parent's properties
AfterProperties(b, parent) ==
  Min({j \in parent + 1 .. Len(b.struct) :
          fdt_next_tag(b, j).tag \notin {"PROP", "NOP"}})

fdt_add_subnode(b, parent, name) ==
  LET o == fdt_subnode_offset(b, parent, name)
      at == AfterProperties(b, parent)
  IN CASE o > 0 -> Returns(EXISTS, b)
       [] o # NOTFOUND -> Returns(o, b)
       [] OTHER -> fdt_splice_struct_(b, at, at, <<BEGIN_NODE(name), END_NODE>>)

fdt_node_end_offset_(b, o) == Last(Walk(b, [off |-> o, depth |-> 0], TRUE)).off

fdt_del_node(b, o) ==
  LET end == fdt_node_end_offset_(b, o)
  IN IF end < 0 THEN Returns(end, b) ELSE fdt_splice_struct_(b, o, end, <<>>)

\* every word of the tags from .. to - 1 becomes a NOP
fdt_nop_region_(b, from, to) ==
  LET words == SizeOf(SubSeq(b.struct, from, to - 1)) \div 4
  IN [b EXCEPT !.struct = Splice(@, from, to, [i \in 1 .. words |-> NOP])]

fdt_nop_property(b, o, name) ==
  LET p == fdt_get_property_namelen_(b, o, name)
  IN IF p < 0 THEN Returns(p, b) ELSE Returns(0, fdt_nop_region_(b, p, p + 1))

fdt_nop_node(b, o) ==
  LET end == fdt_node_end_offset_(b, o)
  IN IF end < 0 THEN Returns(end, b) ELSE Returns(0, fdt_nop_region_(b, o, end))

fdt_setprop_inplace(b, o, name, val) ==
  LET p == fdt_get_property_namelen_(b, o, name)
  IN CASE p < 0 -> Returns(p, b)
       [] Len(b.struct[p].val) # Len(val) -> Returns(NOSPACE, b)
       [] OTHER -> Returns(0, [b EXCEPT !.struct[p].val = val])

fdt_add_mem_rsv(b, e) ==
  IF fdt_splice_(b, RsvSize)
  THEN Returns(0, [b EXCEPT !.rsv = InsertAt(@, fdt_num_mem_rsv(b) + 1, e)])
  ELSE Returns(NOSPACE, b)

fdt_del_mem_rsv(b, n) ==
  IF n >= fdt_num_mem_rsv(b) THEN Returns(NOTFOUND, b)
  ELSE Returns(0, [b EXCEPT !.rsv = RemoveAt(@, n + 1)])

\* the blocks are in order already: the tree only gets more room
fdt_open_into(b, size) ==
  IF b.totalsize > size THEN Returns(NOSPACE, b) ELSE Returns(0, [b EXCEPT !.totalsize = size])

fdt_pack(b) ==
  LET packed == [b EXCEPT !.off_mem_rsvmap = 40,
                          !.rsv = SubSeq(@, 1, fdt_num_mem_rsv(b) + 1)]
  IN Returns(0, [packed EXCEPT !.totalsize = fdt_data_size_(packed)])
===========================================================================
