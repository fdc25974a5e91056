-------------------------------- MODULE Dump --------------------------------
(***************************************************************************)
(* The crash dump: the ELF core file that lib/elfcore.c lays out and       *)
(* lib/dump.c writes from the predecessor's memory, to a regular file, in  *)
(* which pages of zeros stay holes, or to an output that cannot seek.      *)
(*                                                                         *)
(* A file is the sequence of its bytes.  Sizes are scaled down: a page has *)
(* PAGE bytes and the copy buffer CHUNK.  A write that fails ends the dump *)
(* with its error and is not modelled here; Kmorphd has the dump fail.     *)
(***************************************************************************)
EXTENDS Ranges

CONSTANTS PAGE,       \* ELFCORE_PAGE
          CHUNK,      \* DUMP_CHUNK
          NOTE_MAX,   \* DUMP_NOTE_MAX
          EHDR_SIZE, PHDR_SIZE,
          PHNUM_MAX   \* UINT16_MAX

ASSUME DumpAssumption ==
  /\ {PAGE, CHUNK, EHDR_SIZE, PHDR_SIZE} \subseteq Nat \ {0}
  /\ CHUNK % PAGE = 0
  /\ PHNUM_MAX \in Nat /\ NOTE_MAX \in Nat

Smaller(a, b) == IF a < b THEN a ELSE b

Zeros(n) == [k \in 1..n |-> 0]

\* The bytes of the ELF and program headers, and those of the notes.
HeaderByte == -1
NoteByte == -2

page_align(v) == RoundDown(v + PAGE - 1, PAGE)

\* elfcore_layout(): the headers and notes, padded to a page, then every range
\* from a page boundary on; offsets has one entry more, the end of the file.
elfcore_layout(ranges, notes_len) ==
  LET note_off == EHDR_SIZE + (1 + Len(ranges.r)) * PHDR_SIZE
      header_len == page_align(note_off + notes_len)
      offsets[n \in 1..(Len(ranges.r) + 1)] ==
        IF n = 1 THEN header_len
                 ELSE page_align(offsets[n - 1] + ranges.r[n - 1].size)
  IN  IF Len(ranges.r) > PHNUM_MAX - 1
        THEN [ret |-> "E2BIG", header |-> <<>>, offsets |-> <<>>, total |-> 0]
        ELSE [ret |-> "ok",
              header |-> [k \in 1..header_len |->
                            IF k <= note_off THEN HeaderByte
                            ELSE IF k <= note_off + notes_len THEN NoteByte ELSE 0],
              offsets |-> offsets,
              total |-> offsets[Len(ranges.r) + 1]]

\* source_read(): a regular file ends somewhere, a device does not.
source_read(src, base, len) ==
  IF base > src.limit \/ len > src.limit - base
    THEN [ret |-> "EIO", data |-> <<>>]
    ELSE [ret |-> "ok", data |-> [k \in 1..len |-> src.mem[base + k - 1]]]

\* read_note(): a buffer that is empty, too large or unreadable has no note.
read_note(src, note) ==
  IF note.size = 0 \/ note.size > NOTE_MAX
     \/ source_read(src, note.base, note.size).ret # "ok" THEN 0 ELSE note.len

\* collect_notes(): the length of the notes there are, one after the other.
collect_notes(src, notes) == FoldLeft(LAMBDA len, note : len + read_note(src, note), 0, notes)

\* open_sink(): a regular file has its final size from the start.
open_sink(seekable, total) ==
  [seekable |-> seekable, file |-> IF seekable THEN Zeros(total) ELSE <<>>]

\* pwrite() and write(): the position of sequential output is the length of
\* what was written.
write_all(s, data, off) ==
  [s EXCEPT !.file =
     IF s.seekable
       THEN [k \in 1..Len(s.file) |-> IF k \in (off + 1)..(off + Len(data))
                                        THEN data[k - off] ELSE s.file[k]]
       ELSE s.file \o data]

\* A mutant of sink_write(): sequential output is written without the gap.
LeavesNoGap(s, data, off) == write_all(s, data, off)

\* sink_write(): a gap in sequential output is filled.
sink_write(s, data, off) ==
  LET pos == Len(s.file)
      filled == IF ~s.seekable /\ pos < off
                  THEN [s EXCEPT !.file = @ \o Zeros(off - pos)] ELSE s
  IN  write_all(filled, data, off)

\* write_chunk(): the runs between pages of zeros; a last piece shorter than a
\* page is always written.
write_chunk(s, data, off) ==
  LET len == Len(data)
      Run(acc, to) == IF to > acc.start
                        THEN sink_write(acc.sink, SubSeq(data, acc.start + 1, to), off + acc.start)
                        ELSE acc.sink
      Page(acc, i) ==
        IF len - i >= PAGE /\ SubSeq(data, i + 1, i + PAGE) = Zeros(PAGE)
          THEN [start |-> i + PAGE, sink |-> Run(acc, i)] ELSE acc
      pages == [k \in 1..(page_align(len) \div PAGE) |-> (k - 1) * PAGE]
      end == FoldLeft(Page, [start |-> 0, sink |-> s], pages)
  IN  IF s.seekable THEN Run(end, len) ELSE sink_write(s, data, off)

\* copy_range(): a range in pieces of the buffer's size, up to one that cannot
\* be read.
copy_range(src, out, x, off) ==
  LET Piece(acc, at) ==
        LET read == source_read(src, x.base + at, Smaller(CHUNK, x.size - at))
        IN  IF acc.ret # "ok" THEN acc
            ELSE IF read.ret # "ok" THEN [acc EXCEPT !.ret = read.ret]
            ELSE [acc EXCEPT !.sink = write_chunk(@, read.data, off + at)]
      pieces == [k \in 1..((x.size + CHUNK - 1) \div CHUNK) |-> (k - 1) * CHUNK]
  IN  FoldLeft(Piece, out, pieces)

\* dump_vmcore(): the headers, every range, and the padding that ends
\* sequential output.
dump_vmcore(src, ranges, notes, seekable) ==
  LET layout == elfcore_layout(ranges, collect_notes(src, notes))
      headers == [ret |-> "ok",
                  sink |-> sink_write(open_sink(seekable, layout.total), layout.header, 0)]
      Copy(acc, n) == IF acc.ret = "ok"
                         THEN copy_range(src, acc, ranges.r[n], layout.offsets[n]) ELSE acc
      copied == FoldLeft(Copy, headers, [n \in 1..Len(ranges.r) |-> n])
      written == IF copied.ret = "ok" /\ ~seekable
                   THEN sink_write(copied.sink, <<>>, layout.total) ELSE copied.sink
  IN  IF layout.ret # "ok" THEN [ret |-> layout.ret, file |-> <<>>]
                           ELSE [ret |-> copied.ret, file |-> written.file]
-----------------------------------------------------------------------------
(* Properties.                                                             *)

\* Memory in which every byte is told apart, but for those that are zero.
Memory(zeros) == [a \in Address |-> IF a \in zeros THEN 0 ELSE a + 1]

Pages == {p \in SUBSET Address : p # {} /\ \E a \in Address : a % PAGE = 0 /\ p = a..(a + PAGE - 1)}
Blanks == {UNION some : some \in SUBSET Pages} \cup {{a} : a \in Address}

NoteBuffers == {<<>>,
                <<[base |-> 0, size |-> 1, len |-> 1], [base |-> 1, size |-> NOTE_MAX + 1, len |-> 1]>>,
                <<[base |-> 0, size |-> 1, len |-> 0], [base |-> SPAN - 1, size |-> 1, len |-> 1]>>}

\* What a reader of the core file finds: at the offset of a range's segment the
\* range's memory, notes behind the headers, and zeros elsewhere.
CoreFile(mem, ranges, layout) ==
  [k \in 1..layout.total |->
     IF k <= Len(layout.header) THEN layout.header[k]
     ELSE LET holds(n) == k - 1 - layout.offsets[n] \in 0..(ranges.r[n].size - 1)
              n == CHOOSE m \in DOMAIN ranges.r : holds(m)
          IN  IF \E m \in DOMAIN ranges.r : holds(m)
                THEN mem[ranges.r[n].base + k - 1 - layout.offsets[n]] ELSE 0]

\* dump_vmcore(): a dump that reports success holds every byte of the memory
\* it is given at the offset its headers say, whether pages of zeros were left
\* out, the range was copied in pieces or the output could not seek; segments
\* do not overlap; and it fails exactly when a range cannot be read or the
\* headers cannot count the ranges.
DumpIsMemory ==
  \A zeros \in Blanks, seekable \in BOOLEAN, limit \in {SPAN \div 2, SPAN}, notes \in NoteBuffers :
    LET src == [mem |-> Memory(zeros), limit |-> limit]
        layout == elfcore_layout(set, collect_notes(src, notes))
        res == dump_vmcore(src, set, notes, seekable)
        whole == \A a \in Addresses(set) : a < limit
    IN  /\ res.ret = "ok" <=> whole /\ Len(set.r) < PHNUM_MAX
        /\ res.ret = "ok" =>
             /\ res.file = CoreFile(src.mem, set, layout)
             /\ \A n \in DOMAIN set.r :
                  /\ layout.offsets[n] % PAGE = 0
                  /\ layout.offsets[n] >= Len(layout.header)
                  /\ layout.offsets[n] + set.r[n].size <= layout.offsets[n + 1]
=============================================================================
