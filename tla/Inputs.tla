------------------------------- MODULE Inputs -------------------------------
(***************************************************************************)
(* What kmorph reads from people and firmware: the configuration file      *)
(* (lib/config.c), the numbers and lists in it (lib/parse.c) and the       *)
(* firmware's table of CPUs (lib/madt.c).  A text is given by what it is   *)
(* made of: a number as digits that may not fit, with the unit behind it,  *)
(* a list as its items; NAN stands for a text without digits.  Integers    *)
(* are of WIDTH bits as in Ranges, unsigned int of UINT_WIDTH.             *)
(***************************************************************************)
EXTENDS Ranges, FiniteSetsExt

CONSTANTS UINT_WIDTH,
          SHIFT,        \* parse_size(): the shift of every unit
          SCALE,        \* parse_duration_ms(): the milliseconds of every unit
          LINES,        \* the lines a configuration is made of
          MAX_LINES,
          ENTRIES,      \* the entries of the firmware's table
          MAX_ENTRIES

ASSUME InputsAssumption ==
  /\ UINT_WIDTH \in 1..WIDTH /\ MAX_LINES \in Nat /\ MAX_ENTRIES \in Nat
  /\ SHIFT[""] = 0 /\ SCALE[""] = 1

VARIABLES conf,    \* the lines read so far, the configuration and the outcome
          table    \* the firmware's table

NAN == -1
NULL == ""

parse_u64_prefix(num) ==
  CASE num = NAN -> "EINVAL" [] num >= SPAN -> "ERANGE" [] OTHER -> "ok"

\* A parsed value, or the error.
Value(v) == [ret |-> "ok", v |-> v]
Error(err) == [ret |-> err, v |-> 0]

\* A mutant of parse_size(): the bits that are shifted out are lost.
ShiftsOut(s) ==
  CASE parse_u64_prefix(s.num) # "ok" -> Error(parse_u64_prefix(s.num))
    [] s.unit \notin DOMAIN SHIFT -> Error("EINVAL")
    [] OTHER -> Value((s.num * 2 ^ SHIFT[s.unit]) % SPAN)

parse_size(s) ==
  CASE parse_u64_prefix(s.num) # "ok" -> Error(parse_u64_prefix(s.num))
    [] s.unit \notin DOMAIN SHIFT -> Error("EINVAL")
    [] SHIFT[s.unit] # 0 /\ s.num > (SPAN - 1) \div (2 ^ SHIFT[s.unit]) -> Error("ERANGE")
    [] OTHER -> Value((s.num * 2 ^ SHIFT[s.unit]) % SPAN)

parse_duration_ms(s) ==
  CASE parse_u64_prefix(s.num) # "ok" -> Error(parse_u64_prefix(s.num))
    [] s.unit \notin DOMAIN SCALE -> Error("EINVAL")
    [] s.num > (SPAN - 1) \div SCALE[s.unit] -> Error("ERANGE")
    [] OTHER -> Value((s.num * SCALE[s.unit]) % SPAN)

\* qsort(), and every id once
cpulist_normalize(ids) == SetToSortSeq({ids[n] : n \in DOMAIN ids}, <)

\* One range of a list, and what is behind it: the ids, or the error.
ParseRange(x) ==
  LET hi == IF x.hi = <<>> THEN x.lo ELSE x.hi[1]
  IN  CASE parse_u64_prefix(x.lo) # "ok" -> Error(parse_u64_prefix(x.lo))
        [] parse_u64_prefix(hi) # "ok" -> Error(parse_u64_prefix(hi))
        [] hi < x.lo -> Error("EINVAL")
        [] x.sep \notin {"", ","} -> Error("EINVAL")
        [] OTHER -> Value([n \in 1..(hi - x.lo + 1) |-> x.lo + n - 1])

\* The error is that of the first bad item.
parse_cpulist(s) ==
  LET parsed == [n \in DOMAIN s |-> ParseRange(s[n])]
      bad == {n \in DOMAIN s : parsed[n].ret # "ok"}
  IN  IF s = <<>> THEN Error("EINVAL")
      ELSE IF bad # {} THEN Error(parsed[Min(bad)].ret)
      ELSE Value(cpulist_normalize(FlattenSeq([n \in DOMAIN s |-> parsed[n].v])))

\* Items are trimmed, and none is empty.
parse_strlist(s) == IF s = <<>> \/ Contains(s, NULL) THEN Error("EINVAL") ELSE Value(s)

set_uint(num, least) ==
  IF num < least \/ num >= 2 ^ UINT_WIDTH THEN Error("EINVAL") ELSE Value(num)

set_bool(s) ==
  CASE s = "yes" -> Value(TRUE) [] s = "no" -> Value(FALSE) [] OTHER -> Error("EINVAL")

StringKeys == {"kernel", "initrd", "cmdline", "dump", "console", "console_login"}
CpuKeys == {"cpus", "machine_cpus"}
ListKeys == {"devices", "modules", "standby", "standby_files"}
Least == [probe_timeouts |-> 1, fence_retries |-> 0, console_baud |-> 1]
Keys == {"name", "memory", "probe_interval", "reset_devices"}
        \cup StringKeys \cup CpuKeys \cup ListKeys \cup DOMAIN Least

config_defaults ==
  [k \in Keys |->
     CASE k = "name" -> "successor"
       [] k \in StringKeys -> NULL
       [] k \in CpuKeys \cup ListKeys -> <<>>
       [] k = "memory" -> 0
       [] k = "probe_interval" -> 100
       [] k = "probe_timeouts" -> 5
       [] k = "fence_retries" -> 3
       [] k = "console_baud" -> 115200
       [] k = "reset_devices" -> TRUE]

\* An empty value clears a string or a list; the others need one.
config_set(key, value) ==
  CASE key = "name" -> IF value = NULL THEN Error("EINVAL") ELSE Value(value)
    [] key \in StringKeys -> Value(value)
    [] key \in CpuKeys -> IF value = <<>> THEN Value(<<>>) ELSE parse_cpulist(value)
    [] key \in ListKeys -> IF value = <<>> THEN Value(<<>>) ELSE parse_strlist(value)
    [] key = "memory" -> parse_size(value)
    [] key = "probe_interval" -> parse_duration_ms(value)
    [] key \in DOMAIN Least -> set_uint(value, Least[key])
    [] key = "reset_devices" -> set_bool(value)
    [] OTHER -> Error("ENOENT")

\* config_free()
Freed == [k \in {} |-> NULL]

\* One line: blank ones and comments say nothing, the others need a '=', and
\* the first error ends the text and frees the configuration.
config_parse_line(line) ==
  LET res == config_set(line.key, line.value)
      err == IF line.is = "nonsense" THEN "EINVAL" ELSE res.ret
      read == [conf EXCEPT !.read = Append(@, line)]
  IN  CASE line.is = "blank" -> conf' = read
        [] line.is # "blank" /\ err # "ok" ->
             conf' = [read EXCEPT !.ret = err, !.err = Len(read.read), !.c = Freed]
        [] OTHER -> conf' = [read EXCEPT !.c[line.key] = res.v]

ConfInit == conf = [read |-> <<>>, c |-> config_defaults, ret |-> "none", err |-> 0]

\* config_parse(): line after line, ...
ParseLine ==
  /\ conf.ret = "none" /\ Len(conf.read) < MAX_LINES
  /\ \E line \in LINES : config_parse_line(line)
  /\ UNCHANGED table

NeedsLogin == conf.c["console"] # NULL /\ conf.c["console_login"] = NULL

\* ... and at the end of the text a console needs a login.
ParseEnds ==
  /\ conf.ret = "none"
  /\ conf' = IF NeedsLogin THEN [conf EXCEPT !.ret = "EINVAL", !.c = Freed]
                           ELSE [conf EXCEPT !.ret = "ok"]
  /\ UNCHANGED table
-----------------------------------------------------------------------------
(* madt.c: the CPUs of the machine.                                        *)

\* The bits of an entry that make it a CPU of the machine.
UsableFlags(type) ==
  CASE type \in {"LAPIC", "X2APIC"} -> {"ENABLED", "ONLINE_CAPABLE"}
    [] type = "GICC" -> {"ENABLED", "GICC_ONLINE_CAPABLE"}
    [] OTHER -> {}

\* Whether an entry names a CPU; one too short for its type does not.
madt_entry_cpu(e) == e.len = "full" /\ e.flags \cap UsableFlags(e.type) # {}

\* The affinity fields of an MPIDR
MPIDR_HWID(e) == IF e.type = "GICC" THEN e.id % SPAN ELSE e.id

\* The table ends at the first entry that is shorter than its own header or
\* reaches beyond the table, with what ret holds by then.
madt_read_cpus(t, nomem) ==
  LET bad == {n \in DOMAIN t.entries : t.entries[n].len = "bad"}
      sound == IF bad = {} THEN t.entries ELSE SubSeq(t.entries, 1, Min(bad) - 1)
      cpus == SelectSeq(sound, madt_entry_cpu)
      ids == [n \in DOMAIN cpus |-> MPIDR_HWID(cpus[n])]
  IN  CASE ~t.header -> [ret |-> "EINVAL", ids |-> <<>>]
        [] t.header /\ ids # <<>> /\ nomem -> [ret |-> "ENOMEM", ids |-> <<>>]
        [] t.header /\ bad # {} /\ ids = <<>> -> [ret |-> "EINVAL", ids |-> <<>>]
        [] t.header /\ bad # {} /\ ids # <<>> /\ ~nomem -> [ret |-> "ok", ids |-> ids]
        [] OTHER -> [ret |-> "ok", ids |-> cpulist_normalize(ids)]

TableInit == table \in [header : BOOLEAN, entries : {<<>>}]

AddEntry ==
  /\ Len(table.entries) < MAX_ENTRIES
  /\ \E e \in ENTRIES : table' = [table EXCEPT !.entries = Append(@, e)]
  /\ UNCHANGED conf

ConfNext == ParseLine \/ ParseEnds
-----------------------------------------------------------------------------
(* Properties.                                                             *)

\* What a value says, in unbounded integers; {} when it says nothing.
Says(key, value) ==
  LET fits(n) == IF n < SPAN THEN {n} ELSE {}
      lower(x) == x.lo
      upper(x) == IF x.hi = <<>> THEN x.lo ELSE x.hi[1]
      range(x) == lower(x) # NAN /\ lower(x) <= upper(x) /\ upper(x) < SPAN /\ x.sep # "?"
  IN  CASE key = "name" -> {value} \ {NULL}
        [] key \in StringKeys -> {value}
        [] key = "memory" -> IF value.num = NAN \/ value.unit \notin DOMAIN SHIFT THEN {}
                             ELSE fits(value.num * 2 ^ SHIFT[value.unit])
        [] key = "probe_interval" -> IF value.num = NAN \/ value.unit \notin DOMAIN SCALE THEN {}
                                     ELSE fits(value.num * SCALE[value.unit])
        [] key \in DOMAIN Least -> {value} \cap (Least[key] .. 2 ^ UINT_WIDTH - 1)
        [] key = "reset_devices" -> {b \in BOOLEAN : value = IF b THEN "yes" ELSE "no"}
        [] key \in ListKeys -> IF Contains(value, NULL) THEN {} ELSE {value}
        [] key \in CpuKeys ->
             IF \E n \in DOMAIN value : ~range(value[n]) THEN {}
             ELSE {SetToSortSeq(UNION {lower(value[n])..upper(value[n]) : n \in DOMAIN value}, <)}
        [] OTHER -> {}

Good(line) == line.is = "blank" \/ (line.is = "setting" /\ Says(line.key, line.value) # {})

\* config_parse(): a configuration that is returned holds, for every key, what
\* the last line about it says, or the default, with no number wrapped and every
\* CPU listed once and in order; a text with a bad line is refused at the first
\* one, and a console without a login once all of it is read.
ConfigSaysText ==
  LET read == conf.read
      last(k) == Max({n \in DOMAIN read : read[n].is = "setting" /\ read[n].key = k})
      about(k) == \E n \in DOMAIN read : read[n].is = "setting" /\ read[n].key = k
      bad == {n \in DOMAIN read : ~Good(read[n])}
  IN  CASE conf.ret = "ok" ->
             /\ bad = {} /\ ~NeedsLogin
             /\ \A k \in Keys : IF about(k) THEN {conf.c[k]} = Says(k, read[last(k)].value)
                                            ELSE conf.c[k] = config_defaults[k]
        [] conf.ret \notin {"ok", "none"} ->
             /\ conf.c = Freed
             /\ IF conf.err = 0 THEN bad = {} /\ about("console") ELSE bad = {conf.err}
        [] OTHER -> TRUE

\* madt_read_cpus() of a sound table: madt.h "Every CPU on the machine, by
\* physical id", each once and in order.
SoundTableListed ==
  table.header /\ (\A n \in DOMAIN table.entries : table.entries[n].len # "bad") =>
    LET cpus == {n \in DOMAIN table.entries : madt_entry_cpu(table.entries[n])}
    IN  madt_read_cpus(table, FALSE) =
          [ret |-> "ok", ids |-> SetToSortSeq({MPIDR_HWID(table.entries[n]) : n \in cpus}, <)]

\* madt_read_cpus() "rejects_bad_tables" (tests/test_madt.c): a table with an
\* entry that cannot be walked past is refused, whatever precedes it.
BadTableRefused ==
  ~table.header \/ (\E n \in DOMAIN table.entries : table.entries[n].len = "bad") =>
    \A nomem \in BOOLEAN : madt_read_cpus(table, nomem).ret # "ok"
=============================================================================
