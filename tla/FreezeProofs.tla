---------------------------- MODULE FreezeProofs ----------------------------
(***************************************************************************)
(* Proofs about Freeze, for any number of upgrades and filesystems, any    *)
(* mount tables and any size of the set.                                   *)
(***************************************************************************)
EXTENDS Freeze, TLAPS

\* freeze_collect() starts with an empty set and no filesystem is frozen.
LEMMA FreezeInitially == FreezeInit => FreezeInv
BY FreezeAssumption
   DEF FreezeInit, FreezeInv, FreezeTypeOK, Phase, ListedOnce, CountersInRange, FrozenPrefix, Done

\* A step of one command leaves the types, the bound of struct freeze_set
\* included, as they are.
LEMMA StepTypes == ASSUME FreezeInv, NEW c \in COMMANDS, FreezeStep(c)
                   PROVE  FreezeTypeOK'
<1> USE FreezeAssumption DEF FreezeInv, FreezeTypeOK, Phase
<1>1. CASE ReadMountinfo(c)
  BY <1>1 DEF ReadMountinfo
<1>2. CASE CollectLine(c)
  <2>1. Head(text[c]) \in Mount /\ Tail(text[c]) \in Seq(Mount)
    BY <1>2 DEF CollectLine
  <2>2. Head(text[c]).dev \in DEVS
    BY <2>1 DEF Mount
  <2>3. CASE UNCHANGED paths
    BY <1>2, <2>1, <2>3 DEF CollectLine
  <2>4. CASE /\ Len(paths[c]) # FREEZE_MAX
             /\ paths' = [paths EXCEPT ![c] = Append(@, Head(text[c]).dev)]
             /\ UNCHANGED phase
    <3>1. paths' \in [COMMANDS -> Seq(DEVS)]
      BY <2>2, <2>4
    <3>2. ASSUME NEW e \in COMMANDS PROVE Len(paths'[e]) <= FREEZE_MAX
      BY <2>2, <2>4
    <3> QED
      BY <1>2, <2>1, <2>4, <3>1, <3>2 DEF CollectLine
  <2> QED
    BY <1>2, <2>3, <2>4 DEF CollectLine
<1>3. CASE CollectDone(c)
  BY <1>3 DEF CollectDone
<1>4. CASE FreezeNext(c)
  <2>1. frozen' \in [DEVS -> COMMANDS \cup {None}]
    BY <1>4 DEF FreezeNext
  <2>2. i' \in [COMMANDS -> Nat]
    BY <1>4 DEF FreezeNext
  <2> QED
    BY <1>4, <2>1, <2>2 DEF FreezeNext
<1>5. CASE FreezeFails(c) \/ FreezeDone(c) \/ ThawDone(c) \/ Retry(c)
  BY <1>5 DEF FreezeFails, FreezeDone, ThawDone, Retry
<1>6. CASE GiveUp(c)
  BY <1>6 DEF GiveUp
<1>7. CASE ThawNext(c)
  <2>1. paths[c][i[c]] \in DEVS
    BY <1>7 DEF ThawNext, CountersInRange
  <2> QED
    BY <1>7, <2>1 DEF ThawNext
<1> QED
  BY <1>1, <1>2, <1>3, <1>4, <1>5, <1>6, <1>7 DEF FreezeStep

\* freeze_collect() passes over a device it has listed.
LEMMA StepListedOnce == ASSUME FreezeInv, NEW c \in COMMANDS, FreezeStep(c)
                        PROVE  ListedOnce'
<1> USE DEF FreezeInv, FreezeTypeOK, ListedOnce
<1>1. CASE ReadMountinfo(c)
  BY <1>1 DEF ReadMountinfo
<1>2. CASE CollectLine(c) /\ paths' # paths
  <2> DEFINE d == Head(text[c]).dev
  <2>1. /\ d \notin Listed(c)
        /\ paths' = [paths EXCEPT ![c] = Append(@, d)]
    BY <1>2 DEF CollectLine, Collects
  <2>2. d \in DEVS
    <3>1. Head(text[c]) \in Mount
      BY <1>2 DEF CollectLine
    <3> QED
      BY <3>1 DEF Mount
  <2>3. \A n \in 1..Len(paths[c]) : paths[c][n] # d
    BY <2>1 DEF Listed
  <2> HIDE DEF d
  <2> SUFFICES ASSUME NEW e \in COMMANDS, NEW m \in 1..Len(paths'[e]),
                      NEW n \in 1..Len(paths'[e]), paths'[e][m] = paths'[e][n]
               PROVE  m = n
    OBVIOUS
  <2>4. CASE e # c
    BY <2>1, <2>4
  <2>5. CASE e = c
    <3>1. /\ paths[c] \in Seq(DEVS) /\ paths'[c] = Append(paths[c], d)
      BY <2>1
    <3>2. /\ Len(paths'[c]) = Len(paths[c]) + 1
          /\ paths'[c][Len(paths[c]) + 1] = d
          /\ \A k \in 1..Len(paths[c]) : paths'[c][k] = paths[c][k]
      BY <2>2, <3>1
    <3> QED
      BY <2>3, <2>5, <3>1, <3>2
  <2> QED
    BY <2>4, <2>5
<1>3. CASE UNCHANGED paths
  BY <1>3
<1> QED
  BY <1>1, <1>2, <1>3 DEF FreezeStep, CollectDone, FreezeNext, FreezeFails, FreezeDone,
     GiveUp, ThawNext, ThawDone, Retry

\* The loops of freeze_all() and thaw_all() stay within the set.
LEMMA StepCounters == ASSUME FreezeInv, NEW c \in COMMANDS, FreezeStep(c)
                      PROVE  CountersInRange'
<1> USE DEF FreezeInv, FreezeTypeOK, CountersInRange
<1> SUFFICES ASSUME NEW e \in COMMANDS
             PROVE  /\ phase'[e] \in {"freeze", "hold", "thaw"} => i'[e] <= Len(paths'[e])
                    /\ phase'[e] = "hold" => i'[e] = Len(paths'[e])
  OBVIOUS
<1>1. CASE ReadMountinfo(c)
  BY <1>1 DEF ReadMountinfo
<1>2. CASE CollectLine(c)
  <2>1. phase'[c] \in {"collect", "failed"}
    BY <1>2 DEF CollectLine
  <2>2. e # c => phase'[e] = phase[e] /\ i'[e] = i[e] /\ paths'[e] = paths[e]
    BY <1>2 DEF CollectLine
  <2> QED
    BY <2>1, <2>2
<1>3. CASE CollectDone(c)
  BY <1>3 DEF CollectDone
<1>4. CASE FreezeNext(c)
  BY <1>4 DEF FreezeNext
<1>5. CASE FreezeFails(c) \/ FreezeDone(c) \/ ThawDone(c) \/ Retry(c)
  BY <1>5 DEF FreezeFails, FreezeDone, ThawDone, Retry
<1>6. CASE GiveUp(c)
  BY <1>6 DEF GiveUp
<1>7. CASE ThawNext(c)
  BY <1>7 DEF ThawNext
<1> QED
  BY <1>1, <1>2, <1>3, <1>4, <1>5, <1>6, <1>7 DEF FreezeStep

\* A device is at one place of a set only.
LEMMA ListedAt == ASSUME FreezeInv, NEW c \in COMMANDS, NEW k \in 1..Len(paths[c])
                  PROVE  \A n \in 1..Len(paths[c]) : paths[c][n] = paths[c][k] => n = k
BY Zenon DEF FreezeInv, ListedOnce

\* A step of one command keeps what it has frozen and its loop counter in
\* step, and changes no filesystem another command froze.
LEMMA StepFrozen == ASSUME FreezeInv, NEW c \in COMMANDS, FreezeStep(c)
                    PROVE  FrozenPrefix'
<1> SUFFICES ASSUME NEW e \in COMMANDS, NEW d \in DEVS
             PROVE  frozen'[d] = e <=> Done(e, d)'
  BY DEF FrozenPrefix
<1>0. frozen[d] = e <=> Done(e, d)
  BY DEF FreezeInv, FrozenPrefix
<1> USE FreezeAssumption DEF FreezeInv, FreezeTypeOK, FrozenPrefix, Done
<1>1. CASE ReadMountinfo(c)
  BY <1>0, <1>1 DEF ReadMountinfo
<1>2. CASE CollectLine(c)
  <2>1. phase[c] = "collect" /\ phase'[c] \in {"collect", "failed"}
    BY <1>2 DEF CollectLine
  <2>2. e # c => phase'[e] = phase[e] /\ i'[e] = i[e] /\ paths'[e] = paths[e]
    BY <1>2 DEF CollectLine
  <2>3. frozen' = frozen
    BY <1>2 DEF CollectLine
  <2> QED
    BY <1>0, <2>1, <2>2, <2>3
<1>3. CASE CollectDone(c)
  BY <1>0, <1>3 DEF CollectDone
<1>4. CASE FreezeNext(c)
  <2> DEFINE f == paths[c][i[c] + 1]
  <2>1. /\ phase[c] = "freeze" /\ i[c] \in Nat /\ i[c] < Len(paths[c])
        /\ phase' = phase /\ paths' = paths /\ i' = [i EXCEPT ![c] = i[c] + 1]
    BY <1>4 DEF FreezeNext
  <2>2. f \in DEVS
    BY <2>1
  <2>3. Done(e, d)' <=> Done(e, d) \/ (e = c /\ d = f /\ d \notin UNSUPPORTED)
    <3>1. CASE e = c
      <4>1. i'[c] = i[c] + 1
        BY <2>1
      <4>2. (\E n \in 1..(i[c] + 1) : paths[c][n] = d)
               <=> (\E n \in 1..i[c] : paths[c][n] = d) \/ d = f
        BY <2>1
      <4> QED
        BY <2>1, <3>1, <4>1, <4>2
    <3>2. CASE e # c
      BY <2>1, <3>2
    <3> QED
      BY <3>1, <3>2
  <2>4. CASE f \in UNSUPPORTED /\ UNCHANGED frozen
    <3>1. ~(d = f /\ d \notin UNSUPPORTED)
      BY <2>4
    <3>2. Done(e, d)' <=> Done(e, d)
      <4> HIDE DEF Done, f
      <4> QED
        BY <2>3, <3>1
    <3> QED
      BY <1>0, <2>4, <3>2
  <2>5. CASE f \notin UNSUPPORTED /\ frozen[f] = None /\ frozen' = [frozen EXCEPT ![f] = c]
    BY <1>0, <2>2, <2>3, <2>5
  <2> QED
    BY <1>4, <2>4, <2>5 DEF FreezeNext
<1>5. CASE FreezeFails(c) \/ FreezeDone(c)
  BY <1>0, <1>5 DEF FreezeFails, FreezeDone
<1>6. CASE GiveUp(c)
  BY <1>0, <1>6 DEF GiveUp, CountersInRange
<1>7. CASE ThawNext(c)
  <2> DEFINE f == paths[c][i[c]]
  <2>1. /\ phase[c] = "thaw" /\ i[c] \in Nat \ {0} /\ i[c] <= Len(paths[c])
        /\ phase' = phase /\ paths' = paths /\ i' = [i EXCEPT ![c] = i[c] - 1]
        /\ frozen' = [frozen EXCEPT ![f] = None]
    BY <1>7 DEF ThawNext, CountersInRange
  <2>2. f \in DEVS
    BY <2>1
  <2>3. f \notin UNSUPPORTED => frozen[f] = c
    BY <2>1, <2>2
  <2>4. Done(e, d)' <=> Done(e, d) /\ ~(e = c /\ d = f)
    <3>1. CASE e = c
      <4>1. i'[c] = i[c] - 1
        BY <2>1
      <4>2. \A n \in 1..Len(paths[c]) : paths[c][n] = f => n = i[c]
        <5> i[c] \in 1..Len(paths[c])
          BY <2>1
        <5> QED
          BY ListedAt
      <4>3. 1..(i[c] - 1) = 1..i[c] \ {i[c]} /\ 1..i[c] \subseteq 1..Len(paths[c])
        BY <2>1
      <4>4. (\E n \in 1..(i[c] - 1) : paths[c][n] = d)
               <=> (\E n \in 1..i[c] : paths[c][n] = d) /\ d # f
        <5> HIDE DEF f
        <5>1. ASSUME NEW n \in 1..(i[c] - 1), paths[c][n] = d
              PROVE  n \in 1..i[c] /\ d # f
          BY <4>2, <4>3, <5>1
        <5>2. ASSUME NEW n \in 1..i[c], paths[c][n] = d, d # f
              PROVE  n \in 1..(i[c] - 1)
          BY <2>1, <5>2 DEF f
        <5> QED
          BY <5>1, <5>2
      <4> QED
        BY <2>1, <3>1, <4>1, <4>4
    <3>2. CASE e # c
      BY <2>1, <3>2
    <3> QED
      BY <3>1, <3>2
  <2>5. CASE d = f
    <3>1. frozen'[d] = None
      BY <2>1, <2>2, <2>5
    <3>2. d \in UNSUPPORTED \/ e = c \/ frozen[d] # e
      BY <2>3, <2>5
    <3> QED
      BY <1>0, <2>4, <2>5, <3>1, <3>2
  <2>6. CASE d # f
    BY <1>0, <2>1, <2>4, <2>6
  <2> QED
    BY <2>5, <2>6
<1>8. CASE ThawDone(c)
  BY <1>0, <1>8 DEF ThawDone
<1>9. CASE Retry(c)
  BY <1>0, <1>9 DEF Retry
<1> QED
  BY <1>1, <1>2, <1>3, <1>4, <1>5, <1>6, <1>7, <1>8, <1>9 DEF FreezeStep

\* Every step, a change of the mount table included, keeps the invariant.
LEMMA FreezeInductive == FreezeInv /\ [FreezeSteps]_freezeVars => FreezeInv'
<1> SUFFICES ASSUME FreezeInv, [FreezeSteps]_freezeVars PROVE FreezeInv'
  OBVIOUS
<1>1. ASSUME NEW c \in COMMANDS, FreezeStep(c) PROVE FreezeInv'
  BY <1>1, StepTypes, StepListedOnce, StepCounters, StepFrozen DEF FreezeInv
<1>2. ASSUME NEW table \in TABLES, Remount(table) PROVE FreezeInv'
  BY <1>2 DEF Remount, FreezeInv, FreezeTypeOK, ListedOnce, CountersInRange, FrozenPrefix, Done
<1>3. CASE UNCHANGED freezeVars
  BY <1>3 DEF freezeVars, FreezeInv, FreezeTypeOK, ListedOnce, CountersInRange, FrozenPrefix, Done
<1> QED
  BY <1>1, <1>2, <1>3 DEF FreezeSteps

\* freeze_all() and thaw_all(): lists, loop counters and frozen filesystems of
\* all commands stay in step, whatever the interleaving.
THEOREM FreezeInvariant == FreezeSpec => []FreezeInv
BY FreezeInitially, FreezeInductive, PTL DEF FreezeSpec

\* While a command holds its freeze, all it listed is frozen, by it.
THEOREM FreezeHolds == FreezeSpec => []HeldIsFrozen
<1>1. FreezeInv => HeldIsFrozen
  <2> SUFFICES ASSUME FreezeInv, NEW c \in COMMANDS, phase[c] = "hold",
                      NEW d \in Listed(c) \ UNSUPPORTED
               PROVE  frozen[d] = c
    BY DEF HeldIsFrozen
  <2>1. PICK n \in 1..Len(paths[c]) : paths[c][n] = d
    BY DEF Listed
  <2>2. i[c] = Len(paths[c]) /\ d \in DEVS
    BY <2>1 DEF FreezeInv, CountersInRange, FreezeTypeOK
  <2> QED
    BY <2>1, <2>2 DEF FreezeInv, FrozenPrefix, Done
<1> QED
  BY <1>1, FreezeInvariant, PTL

\* A command that failed, or has not begun to freeze, has nothing frozen.
THEOREM FreezeFailureThaws == FreezeSpec => []FailureThaws
<1>1. FreezeInv => FailureThaws
  BY DEF FreezeInv, FrozenPrefix, Done, FailureThaws
<1> QED
  BY <1>1, FreezeInvariant, PTL

\* thaw_all(): no command ends the freeze of another one.
THEOREM FreezeOwnerThaws == FreezeSpec => OnlyOwnerThaws
<1> DEFINE OwnerThaws == \A d \in DEVS : frozen[d] # None /\ frozen'[d] # frozen[d] =>
                            frozen'[d] = None /\ phase[frozen[d]] = "thaw"
<1>1. FreezeInv /\ [FreezeSteps]_freezeVars => [OwnerThaws]_freezeVars
  <2> SUFFICES ASSUME FreezeInv, FreezeSteps, NEW d \in DEVS,
                      frozen[d] # None, frozen'[d] # frozen[d]
               PROVE  frozen'[d] = None /\ phase[frozen[d]] = "thaw"
    BY DEF freezeVars
  <2>1. PICK c \in COMMANDS : FreezeStep(c)
    BY DEF FreezeSteps, Remount
  <2>2. FreezeNext(c) \/ ThawNext(c)
    BY <2>1 DEF FreezeStep, ReadMountinfo, CollectLine, CollectDone, FreezeFails,
       FreezeDone, GiveUp, ThawDone, Retry
  <2>3. ~FreezeNext(c)
    BY DEF FreezeNext, FreezeInv, FreezeTypeOK
  <2>4. ThawNext(c)
    BY <2>2, <2>3
  <2> DEFINE f == paths[c][i[c]]
  <2>5. /\ phase[c] = "thaw" /\ i[c] \in 1..Len(paths[c])
        /\ frozen' = [frozen EXCEPT ![f] = None]
    BY <2>4 DEF ThawNext, FreezeInv, FreezeTypeOK, CountersInRange
  <2>6. d = f
    BY <2>5 DEF FreezeInv, FreezeTypeOK
  <2>7. frozen'[d] = None
    BY <2>5, <2>6 DEF FreezeInv, FreezeTypeOK
  <2>8. frozen[d] \in COMMANDS
    BY DEF FreezeInv, FreezeTypeOK
  <2>9. d \notin UNSUPPORTED
    BY <2>8 DEF FreezeInv, FrozenPrefix, Done
  <2>10. frozen[d] = c
    BY <2>5, <2>6, <2>9 DEF FreezeInv, FreezeTypeOK, FrozenPrefix, Done
  <2> QED
    BY <2>5, <2>7, <2>10
<1> QED
  BY <1>1, FreezeInvariant, PTL DEF FreezeSpec, OnlyOwnerThaws
=============================================================================
