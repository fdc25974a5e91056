------------------------------- MODULE Ranges -------------------------------
(***************************************************************************)
(* The address range sets of lib/ranges.c and what kmorphd computes with   *)
(* them: the memory it can take (lib/takeable.c), the part it can hot-add  *)
(* and the part it keeps for the next pool (kmorphd/ops.c).  Addresses are *)
(* unsigned integers of WIDTH bits, 64 in the code, and wrap.              *)
(*                                                                         *)
(* The specification lets a range set go through any sequence of additions *)
(* and subtractions, so that its states are the sets the code can build;   *)
(* the operators are compared with sets of addresses in each of them.      *)
(***************************************************************************)
EXTENDS Integers, SequencesExt

CONSTANTS WIDTH,     \* bits of an address
          CAPACITY   \* ranges allocated at first, 8 in the code

ASSUME RangesAssumption == WIDTH \in Nat \ {0} /\ CAPACITY \in Nat \ {0}

SPAN == 2 ^ WIDTH
Address == 0..(SPAN - 1)
Range64 == [base : Address, size : Address]

\* struct rangeset
VARIABLE set

Empty == [r |-> <<>>, cap |-> 0]

range_end(x) == (x.base + x.size) % SPAN

\* Whether a call may fail for want of memory: realloc() is only asked when the
\* array is full.
Full(s) == Len(s.r) = s.cap

Grown(s) == IF ~Full(s) THEN s.cap ELSE IF s.cap = 0 THEN CAPACITY ELSE 2 * s.cap

Done(s) == [ret |-> "ok", set |-> s]
Failed(err, s) == [ret |-> err, set |-> s]

rangeset_insert(s, at, x, nomem) ==
  IF Full(s) /\ nomem
    THEN Failed("ENOMEM", s)
    ELSE Done([r |-> InsertAt(s.r, at, x), cap |-> Grown(s)])

BadRange(base, size) == size = 0 \/ (base + size) % SPAN < base

Passed(x, base) == range_end(x) < base

\* A mutant of Swallow: a swallowed range extends the new one downwards only.
KeepsEnd(new, x) == [new EXCEPT !.base = IF x.base < @ THEN x.base ELSE @]

Swallow(new, x) ==
  [base |-> IF x.base < new.base THEN x.base ELSE new.base,
   end |-> IF range_end(x) > new.end THEN range_end(x) ELSE new.end]

\* rangeset_add(): the ranges before the new one are passed over, the next ones
\* are swallowed as long as they touch what it has become, and the result is
\* inserted once.
rangeset_add(s, base, size, nomem) ==
  LET OneRange(acc, x) ==
        IF acc.n = Len(acc.before) /\ Passed(x, base)
          THEN [acc EXCEPT !.n = @ + 1, !.before = Append(@, x)]
        ELSE IF acc.after = <<>> /\ x.base <= acc.new.end
          THEN [acc EXCEPT !.n = @ + 1, !.new = Swallow(@, x)]
        ELSE [acc EXCEPT !.n = @ + 1, !.after = Append(@, x)]
      acc == FoldLeft(OneRange,
                      [n |-> 0, before |-> <<>>, after |-> <<>>,
                       new |-> [base |-> base, end |-> (base + size) % SPAN]], s.r)
  IN  IF BadRange(base, size)
        THEN Failed("EINVAL", s)
        ELSE rangeset_insert([s EXCEPT !.r = acc.before \o acc.after], Len(acc.before) + 1,
                             [base |-> acc.new.base, size |-> acc.new.end - acc.new.base],
                             nomem)

\* What one range becomes in rangeset_subtract() of [base, end).
Cut(x, base, end) ==
  LET rend == range_end(x)
  IN  IF rend <= base \/ x.base >= end THEN <<x>>
      ELSE (IF x.base < base THEN <<[base |-> x.base, size |-> base - x.base]>> ELSE <<>>)
           \o (IF rend > end THEN <<[base |-> end, size |-> rend - end]>> ELSE <<>>)

\* rangeset_subtract(): only a range split in two needs room for one more.
rangeset_subtract(s, base, size, nomem) ==
  LET end == (base + size) % SPAN
      Subtract(acc, x) == acc \o Cut(x, base, end)
      splits == \E n \in DOMAIN s.r : s.r[n].base < base /\ range_end(s.r[n]) > end
  IN  IF BadRange(base, size) THEN Failed("EINVAL", s)
      ELSE IF splits /\ Full(s) /\ nomem THEN Failed("ENOMEM", s)
      ELSE Done([r |-> FoldLeft(Subtract, <<>>, s.r),
                 cap |-> IF splits THEN Grown(s) ELSE s.cap])

rangeset_subtract_set(s, minus) ==
  FoldLeft(LAMBDA acc, x : IF acc.ret = "ok"
                             THEN rangeset_subtract(acc.set, x.base, x.size, FALSE) ELSE acc,
           Done(s), minus.r)

rangeset_copy(s) ==
  FoldLeft(LAMBDA acc, x : IF acc.ret = "ok"
                             THEN rangeset_add(acc.set, x.base, x.size, FALSE) ELSE acc,
           Done(Empty), s.r)

RoundDown(a, block) == (a \div block) * block

\* Rounding up wraps like every other sum.
RoundUp(a, block) == RoundDown((a + block - 1) % SPAN, block)

\* rangeset_align(): the whole blocks of every range.
rangeset_align(s, block) ==
  LET Align(acc, x) ==
        LET base == RoundUp(x.base, block)
            end == RoundDown(range_end(x), block)
        IN  IF acc.ret # "ok" \/ end <= base THEN acc
            ELSE rangeset_add(acc.set, base, end - base, FALSE)
  IN  FoldLeft(Align, Done(Empty), s.r)
-----------------------------------------------------------------------------
(* What kmorphd computes with them.                                        *)

\* A mutant of takeable_memory: the reserved regions are taken too.
TakesReserved(ram, own_ram, reserved) ==
  LET copy == rangeset_copy(ram)
  IN  IF copy.ret = "ok" THEN rangeset_subtract_set(copy.set, own_ram) ELSE copy

\* The memory of takeable_compute(): the machine's RAM, less this kernel's own
\* and the reserved regions.
takeable_memory(ram, own_ram, reserved) ==
  LET copy == rangeset_copy(ram)
      own == IF copy.ret = "ok" THEN rangeset_subtract_set(copy.set, own_ram) ELSE copy
  IN  IF own.ret = "ok" THEN rangeset_subtract_set(own.set, reserved) ELSE own

\* takeable_compute(): with no memory or no CPU left there is nothing to take.
takeable_compute(ram, own_ram, reserved, cpus, own_cpus) ==
  LET memory == takeable_memory(ram, own_ram, reserved)
      rest == cpus \ own_cpus
      nothing == [memory |-> Empty, cpus |-> {}]
  IN  IF memory.ret # "ok" THEN [ret |-> memory.ret, takeable |-> nothing]
      ELSE IF memory.set.r = <<>> \/ rest = {} THEN [ret |-> "ENOENT", takeable |-> nothing]
      ELSE [ret |-> "ok", takeable |-> [memory |-> memory.set, cpus |-> rest]]

\* The range keep_for_pool() picks: the first of the largest ones.
Largest(s) ==
  s.r[CHOOSE n \in DOMAIN s.r :
        /\ \A m \in DOMAIN s.r : s.r[m].size <= s.r[n].size
        /\ \A m \in 1..(n - 1) : s.r[m].size < s.r[n].size]

\* A mutant of Want: no granule is added for the park area.
WantsNoMore(next_memory, granule) == RoundUp(next_memory, granule)

\* The size keep_for_pool() wants.
Want(next_memory, granule) == (RoundUp(next_memory, granule) + granule) % SPAN

\* keep_for_pool(): the top of the largest range, or nothing when none holds it.
keep_for_pool(adoptable, granule, next_memory) ==
  LET want == Want(next_memory, granule)
      none == [claim |-> [base |-> 0, size |-> 0], adoptable |-> adoptable]
  IN  IF next_memory = 0 \/ adoptable.r = <<>> THEN none
      ELSE LET largest == Largest(adoptable)
               base == largest.base + largest.size - want
           IN  IF largest.size < want THEN none
               ELSE [claim |-> [base |-> base, size |-> want],
                     adoptable |-> rangeset_subtract(adoptable, base, want, FALSE).set]
-----------------------------------------------------------------------------
RangesInit == set = Empty

Add(x, nomem) == set' = rangeset_add(set, x.base, x.size, nomem).set
Subtract(x, nomem) == set' = rangeset_subtract(set, x.base, x.size, nomem).set

RangesNext == \E x \in Range64, nomem \in BOOLEAN : Add(x, nomem) \/ Subtract(x, nomem)

RangesSpec == RangesInit /\ [][RangesNext]_set
-----------------------------------------------------------------------------
(* Properties.                                                             *)

Bytes(x) == x.base..(x.base + x.size - 1)
Addresses(s) == UNION {Bytes(s.r[n]) : n \in DOMAIN s.r}

\* ranges.h "Sorted, non-overlapping, non-adjacent ranges": what the loops of rangeset_add()
\* and rangeset_subtract() rely on, and keep.
Canonical(s) ==
  /\ \A n \in DOMAIN s.r : s.r[n].size > 0 /\ s.r[n].base + s.r[n].size < SPAN
  /\ \A n \in 1..(Len(s.r) - 1) : s.r[n].base + s.r[n].size < s.r[n + 1].base
  /\ Len(s.r) <= s.cap

SetCanonical == Canonical(set)

\* rangeset_add() is the union, and one that fails changes nothing, though it
\* removes ranges before it inserts one.
AddIsUnion ==
  \A x \in Range64, nomem \in BOOLEAN :
    LET res == rangeset_add(set, x.base, x.size, nomem)
    IN  Addresses(res.set) = IF res.ret = "ok" THEN Addresses(set) \cup Bytes(x)
                                               ELSE Addresses(set)

\* rangeset_subtract() is the difference, or changes nothing.
SubtractIsDifference ==
  \A x \in Range64, nomem \in BOOLEAN :
    LET res == rangeset_subtract(set, x.base, x.size, nomem)
    IN  Addresses(res.set) = IF res.ret = "ok" THEN Addresses(set) \ Bytes(x)
                                               ELSE Addresses(set)

Granules == {2 ^ n : n \in 0..(WIDTH - 1)}

\* A set that rangeset_align() can round up without wrapping: no range starts
\* within a block of the top of the address space.
RoundsUp(s, block) == \A n \in DOMAIN s.r : s.r[n].base + block <= SPAN

\* rangeset_align(): memory joins "only in whole units of the kernel's memory
\* granule", and every whole unit there is does.
AlignTakesWholeBlocks ==
  \A g \in Granules : RoundsUp(set, g) =>
    LET res == rangeset_align(set, g)
        block(a) == RoundDown(a, g)..(RoundDown(a, g) + g - 1)
    IN  /\ res.ret = "ok"
        /\ Addresses(res.set) = {a \in Address : block(a) \subseteq Addresses(set)}

\* keep_for_pool(): the memory kept lies in what is adoptable, is made of whole
\* granules, holds what init_pool() of a later arm asks for (the successor's
\* memory and one granule), and is not hot-added.
PoolClaimFits ==
  \A g \in Granules, next \in Address :
    RoundsUp(set, g) /\ next + 2 * g <= SPAN =>
      LET adoptable == rangeset_align(set, g).set
          kept == keep_for_pool(adoptable, g, next)
          claim == kept.claim
      IN  claim.size > 0 =>
            /\ Bytes(claim) \subseteq Addresses(adoptable)
            /\ claim.base % g = 0 /\ claim.size % g = 0
            /\ claim.size >= next + g
            /\ Addresses(kept.adoptable) = Addresses(adoptable) \ Bytes(claim)

Spans == {Empty} \cup {[r |-> <<x>>, cap |-> CAPACITY] :
                         x \in {y \in Range64 : ~BadRange(y.base, y.size)}}

\* takeable_compute(): what is taken is never this kernel's own memory, a
\* reserved region or one of its own CPUs, nothing else of the machine is left
\* out, and ENOENT says that there is no memory or no CPU.
TakeableIsRest ==
  \A own, reserved \in Spans, cpus \in {{0, 1}}, own_cpus \in {{0}, {0, 1}} :
    \A res \in {takeable_compute(set, own, reserved, cpus, own_cpus)},
       memory \in {(Addresses(set) \ Addresses(own)) \ Addresses(reserved)} :
        IF memory = {} \/ cpus \subseteq own_cpus
          THEN res.ret = "ENOENT"
          ELSE /\ res.ret = "ok"
               /\ Addresses(res.takeable.memory) = memory
               /\ res.takeable.cpus = cpus \ own_cpus
=============================================================================
