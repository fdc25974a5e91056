------------------------------- MODULE Freeze -------------------------------
(***************************************************************************)
(* Freezing the predecessor's filesystems for an upgrade (kmorph/freeze.c, *)
(* freeze_filesystems() of kmorph/upgrade.c), by commands that may run     *)
(* side by side on a mount table that changes under them.  The kernel      *)
(* refuses to freeze a frozen filesystem (EBUSY) and thaws one for whoever *)
(* asks, so nothing but the order of the calls keeps two commands apart.   *)
(***************************************************************************)
EXTENDS Integers, Sequences

CONSTANTS COMMANDS,      \* runs of kmorph upgrade
          DEVS,          \* filesystems, named by their device number
          UNSUPPORTED,   \* those whose freeze fails with EOPNOTSUPP
          TABLES,        \* contents /proc/self/mountinfo may have
          FREEZE_MAX,    \* entries of struct freeze_set
          None

\* A line of mountinfo: its device, and whether it is a writable mount of a
\* block device.
Mount == [dev : DEVS, writable : BOOLEAN]

ASSUME FreezeAssumption == /\ UNSUPPORTED \subseteq DEVS
                           /\ TABLES \subseteq Seq(Mount)
                           /\ TABLES # {}
                           /\ FREEZE_MAX \in Nat \ {0}
                           /\ None \notin COMMANDS

VARIABLES mountinfo,   \* the mount table
          phase,       \* where each command stands
          text,        \* what freeze_collect() still has to read
          paths,       \* struct freeze_set
          i,           \* the loop counters of freeze_all() and thaw_all()
          frozen       \* who froze a filesystem, or None

freezeVars == <<mountinfo, phase, text, paths, i, frozen>>

Phase == {"start", "collect", "freeze", "hold", "thaw", "failed"}

FreezeInit == /\ mountinfo \in TABLES
              /\ phase = [c \in COMMANDS |-> "start"]
              /\ text = [c \in COMMANDS |-> <<>>]
              /\ paths = [c \in COMMANDS |-> <<>>]
              /\ i = [c \in COMMANDS |-> 0]
              /\ frozen = [d \in DEVS |-> None]

Remount(table) == /\ mountinfo' = table
                  /\ UNCHANGED <<phase, text, paths, i, frozen>>

\* freeze_filesystems() reads the table as it is at that moment.
ReadMountinfo(c) == /\ phase[c] = "start"
                    /\ phase' = [phase EXCEPT ![c] = "collect"]
                    /\ text' = [text EXCEPT ![c] = mountinfo]
                    /\ paths' = [paths EXCEPT ![c] = <<>>]
                    /\ UNCHANGED <<mountinfo, i, frozen>>

Listed(c) == {paths[c][n] : n \in 1..Len(paths[c])}

\* One line in freeze_collect(): read-only mounts, other sources and devices
\* already listed are passed over.
Collects(c, m) == m.writable /\ m.dev \notin Listed(c)

\* The loop of freeze_collect(); a full set is an error that freezes nothing.
CollectLine(c) ==
  /\ phase[c] = "collect" /\ text[c] # <<>>
  /\ text' = [text EXCEPT ![c] = Tail(@)]
  /\ LET m == Head(text[c])
     IN  IF Collects(c, m)
           THEN IF Len(paths[c]) = FREEZE_MAX
                  THEN phase' = [phase EXCEPT ![c] = "failed"] /\ UNCHANGED paths
                  ELSE paths' = [paths EXCEPT ![c] = Append(@, m.dev)] /\ UNCHANGED phase
           ELSE UNCHANGED <<phase, paths>>
  /\ UNCHANGED <<mountinfo, i, frozen>>

CollectDone(c) == /\ phase[c] = "collect" /\ text[c] = <<>>
                  /\ phase' = [phase EXCEPT ![c] = "freeze"]
                  /\ i' = [i EXCEPT ![c] = 0]
                  /\ UNCHANGED <<mountinfo, text, paths, frozen>>

\* A mutant of freeze_all(): EBUSY is passed over like EOPNOTSUPP.
SkipsBusy(c) ==
  /\ phase[c] = "freeze" /\ i[c] < Len(paths[c])
  /\ LET d == paths[c][i[c] + 1]
     IN  \/ (d \in UNSUPPORTED \/ frozen[d] # None) /\ UNCHANGED frozen
         \/ d \notin UNSUPPORTED /\ frozen[d] = None /\ frozen' = [frozen EXCEPT ![d] = c]
  /\ i' = [i EXCEPT ![c] = @ + 1]
  /\ UNCHANGED <<mountinfo, phase, text, paths>>

\* The next call of ops->freeze() in freeze_all(), for paths[i]: a success, or
\* a filesystem that cannot be frozen and is skipped.
FreezeNext(c) ==
  /\ phase[c] = "freeze" /\ i[c] < Len(paths[c])
  /\ LET d == paths[c][i[c] + 1]
     IN  \/ d \in UNSUPPORTED /\ UNCHANGED frozen
         \/ d \notin UNSUPPORTED /\ frozen[d] = None /\ frozen' = [frozen EXCEPT ![d] = c]
  /\ i' = [i EXCEPT ![c] = @ + 1]
  /\ UNCHANGED <<mountinfo, phase, text, paths>>

\* Mutants of the failure in freeze_all(): the one that failed is thawed with
\* the others, or the last one frozen is forgotten.
ThawsFailedToo(c) ==
  /\ phase[c] = "freeze" /\ i[c] < Len(paths[c])
  /\ paths[c][i[c] + 1] \notin UNSUPPORTED
  /\ phase' = [phase EXCEPT ![c] = "thaw"]
  /\ i' = [i EXCEPT ![c] = @ + 1]
  /\ UNCHANGED <<mountinfo, text, paths, frozen>>

ForgetsLast(c) ==
  /\ phase[c] = "freeze" /\ i[c] < Len(paths[c])
  /\ paths[c][i[c] + 1] \notin UNSUPPORTED
  /\ phase' = [phase EXCEPT ![c] = "thaw"]
  /\ i' = [i EXCEPT ![c] = IF @ > 0 THEN @ - 1 ELSE @]
  /\ UNCHANGED <<mountinfo, text, paths, frozen>>

\* ... or an error, EBUSY where another command froze it: the first i are
\* thawed again.
FreezeFails(c) ==
  /\ phase[c] = "freeze" /\ i[c] < Len(paths[c])
  /\ paths[c][i[c] + 1] \notin UNSUPPORTED
  /\ phase' = [phase EXCEPT ![c] = "thaw"]
  /\ UNCHANGED <<mountinfo, text, paths, i, frozen>>

FreezeDone(c) == /\ phase[c] = "freeze" /\ i[c] = Len(paths[c])
                 /\ phase' = [phase EXCEPT ![c] = "hold"]
                 /\ UNCHANGED <<mountinfo, text, paths, i, frozen>>

\* upgrade_run() goes to thaw: no answer, a refusal, or no fence in time.
GiveUp(c) == /\ phase[c] = "hold"
             /\ phase' = [phase EXCEPT ![c] = "thaw"]
             /\ i' = [i EXCEPT ![c] = Len(paths[c])]
             /\ UNCHANGED <<mountinfo, text, paths, frozen>>

\* thaw_all() backwards; EINVAL from a filesystem that is not frozen is ignored.
ThawNext(c) == /\ phase[c] = "thaw" /\ i[c] > 0
               /\ frozen' = [frozen EXCEPT ![paths[c][i[c]]] = None]
               /\ i' = [i EXCEPT ![c] = @ - 1]
               /\ UNCHANGED <<mountinfo, phase, text, paths>>

ThawDone(c) == /\ phase[c] = "thaw" /\ i[c] = 0
               /\ phase' = [phase EXCEPT ![c] = "failed"]
               /\ UNCHANGED <<mountinfo, text, paths, i, frozen>>

\* The administrator tries again.
Retry(c) == /\ phase[c] = "failed"
            /\ phase' = [phase EXCEPT ![c] = "start"]
            /\ UNCHANGED <<mountinfo, text, paths, i, frozen>>

FreezeStep(c) == \/ ReadMountinfo(c) \/ CollectLine(c) \/ CollectDone(c)
                 \/ FreezeNext(c) \/ FreezeFails(c) \/ FreezeDone(c)
                 \/ GiveUp(c) \/ ThawNext(c) \/ ThawDone(c) \/ Retry(c)

FreezeSteps == \/ \E c \in COMMANDS : FreezeStep(c)
               \/ \E table \in TABLES : Remount(table)

FreezeSpec == FreezeInit /\ [][FreezeSteps]_freezeVars
-----------------------------------------------------------------------------
(* Properties.                                                             *)

\* Types of the commands' state; the loop counter stays within the set.
FreezeTypeOK == /\ mountinfo \in TABLES
                /\ phase \in [COMMANDS -> Phase]
                /\ text \in [COMMANDS -> Seq(Mount)]
                /\ paths \in [COMMANDS -> Seq(DEVS)]
                /\ \A c \in COMMANDS : Len(paths[c]) <= FREEZE_MAX
                /\ i \in [COMMANDS -> Nat]
                /\ frozen \in [DEVS -> COMMANDS \cup {None}]

\* freeze_all(): while a command holds its freeze every filesystem it listed
\* that can be frozen is frozen by it, whatever other commands try.
HeldIsFrozen ==
  \A c \in COMMANDS : phase[c] = "hold" =>
    \A d \in Listed(c) \ UNSUPPORTED : frozen[d] = c

\* freeze.h "Freezes all or, on a failure, thaws those it froze", and
\* upgrade_run(): a command that failed leaves nothing frozen.
FailureThaws ==
  \A c \in COMMANDS : phase[c] \in {"start", "collect", "failed"} =>
    \A d \in DEVS : frozen[d] # c

\* thaw_all(): a freeze ends only by the command that made it.
OnlyOwnerThaws ==
  [][\A d \in DEVS : frozen[d] # None /\ frozen'[d] # frozen[d] =>
        frozen'[d] = None /\ phase[frozen[d]] = "thaw"]_freezeVars

\* freeze_collect() "each once, in mount order": no filesystem is listed twice,
\* which would make the command refuse its own freeze.
ListedOnce ==
  \A c \in COMMANDS : \A m, n \in 1..Len(paths[c]) : paths[c][m] = paths[c][n] => m = n

\* The part of a command's list that its loop counter stands for.
Done(c, d) == /\ phase[c] \in {"freeze", "hold", "thaw"}
              /\ d \notin UNSUPPORTED
              /\ \E n \in 1..i[c] : paths[c][n] = d

\* freeze_all()/thaw_all(): that part is exactly what the command has frozen.
FrozenPrefix == \A c \in COMMANDS : \A d \in DEVS : frozen[d] = c <=> Done(c, d)

\* What FrozenPrefix needs of the loop counters to be inductive.
CountersInRange ==
  \A c \in COMMANDS : /\ phase[c] \in {"freeze", "hold", "thaw"} => i[c] <= Len(paths[c])
                      /\ phase[c] = "hold" => i[c] = Len(paths[c])

\* The inductive invariant of FreezeSpec: freeze_all() and thaw_all() keep the
\* commands' loop counters, their lists and the frozen filesystems in step.
FreezeInv == FreezeTypeOK /\ ListedOnce /\ CountersInRange /\ FrozenPrefix
=============================================================================
