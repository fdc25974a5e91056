--------------------------- MODULE UpgradeProofs ---------------------------
(***************************************************************************)
(* Proofs about Upgrade: the command leaves kmorphd as it is, so that all  *)
(* of KmorphdProofs holds of the two together, and what it relies on holds *)
(* whatever requests, deaths and restarts come in between.                 *)
(***************************************************************************)
EXTENDS Upgrade, KmorphdProofs

\* upgrade_run() acts on kmorphd by connecting to it only.
LEMMA UpgradeSteps ==
  ASSUME [UpgradeNext]_composedVars
  PROVE  [KmorphdNext]_kmorphdVars
<1>1. CASE UpgradeStep
  <2>1. \/ UNCHANGED kmorphdVars
        \/ \E snap \in SNAPSHOTS : Connect(snap)
        \/ Connect("handover")
    BY <1>1 DEF UpgradeStep, watch_push, freeze_filesystems, RequestHandover, RequestFails,
                ReplyRefused, ReplyAccepted, NotFenced, Thaw
  <2> QED
    BY <2>1 DEF KmorphdNext, Requests
<1>2. CASE KmorphdStep
  BY <1>2 DEF KmorphdStep, KmorphdNext
<1>3. CASE Answered
  BY <1>3 DEF Answered, KmorphdNext
<1> QED
  BY <1>1, <1>2, <1>3 DEF UpgradeNext, composedVars

\* upgrade.c: kmorphd with an upgrade beside it is kmorphd.
THEOREM UpgradeImplementsKmorphd == UpgradeSpec => KmorphdSpec
<1>1. UpgradeInit => KmorphdInit
  BY DEF UpgradeInit
<1> QED
  BY <1>1, UpgradeSteps, PTL DEF UpgradeSpec, KmorphdSpec

LEMMA UpgradeInitially == UpgradeInit => UpgradeInv
<1> SUFFICES ASSUME UpgradeInit PROVE UpgradeInv
  OBVIOUS
<1>1. KmorphdInv
  BY KmorphdInitially DEF UpgradeInit
<1>2. \A k : ~Asks(k)
  BY DEF UpgradeInit, KmorphdInit, Asks
<1> QED
  BY <1>1, <1>2 DEF UpgradeInv, UpgradeInit, KmorphdInit, RequestFollows, RefusalIsFinal

\* The accept queue grows at its end, is served at its head and is lost with the
\* process.
LEMMA QueueSteps ==
  ASSUME KmorphdTypeOK
  PROVE  /\ \A r \in Requests : conns' = Append(conns, r) =>
              \A k \in 1..BACKLOG : Asks(k)' <=> Asks(k) \/ (k = Len(conns) + 1 /\ r = "handover")
         /\ conns # <<>> /\ conns' = Tail(conns) =>
              \A k \in 1..BACKLOG : Asks(k)' => k + 1 \in 1..BACKLOG /\ Asks(k + 1)
         /\ conns # <<>> => (Head(conns) = "handover" <=> Asks(1))
         /\ conns' = <<>> => \A k \in 1..BACKLOG : ~Asks(k)'
<1> USE KmorphdAssumption DEF Asks
<1>1. conns \in Seq(Requests) /\ Len(conns) <= BACKLOG
  BY DEF KmorphdTypeOK
<1>2. ASSUME NEW r \in Requests, conns' = Append(conns, r), NEW k \in 1..BACKLOG
      PROVE  Asks(k)' <=> Asks(k) \/ (k = Len(conns) + 1 /\ r = "handover")
  <2>1. DOMAIN conns' = 1..(Len(conns) + 1) /\ DOMAIN conns = 1..Len(conns)
    BY <1>1, <1>2
  <2>2. \A m \in 1..Len(conns) : conns'[m] = conns[m]
    BY <1>1, <1>2
  <2>3. conns'[Len(conns) + 1] = r
    BY <1>1, <1>2
  <2>4. Len(conns) \in Nat
    BY <1>1
  <2> QED
    BY <2>1, <2>2, <2>3, <2>4
<1>3. ASSUME conns # <<>>, conns' = Tail(conns), NEW k \in 1..BACKLOG, Asks(k)'
      PROVE  k + 1 \in 1..BACKLOG /\ Asks(k + 1)
  <2>1. DOMAIN conns' = 1..(Len(conns) - 1) /\ DOMAIN conns = 1..Len(conns)
    BY <1>1, <1>3
  <2>2. \A m \in 1..(Len(conns) - 1) : conns'[m] = conns[m + 1]
    BY <1>1, <1>3
  <2> QED
    BY <1>1, <1>3, <2>1, <2>2
<1>4. conns # <<>> => (Head(conns) = "handover" <=> Asks(1))
  BY <1>1
<1>5. conns' = <<>> => \A k \in 1..BACKLOG : ~Asks(k)'
  OBVIOUS
<1> QED
  BY <1>2, <1>3, <1>4, <1>5

\* Every step of the command and of kmorphd keeps the invariant.
LEMMA UpgradeKept == UpgradeInv /\ [UpgradeNext]_composedVars => UpgradeInv'
<1> SUFFICES ASSUME UpgradeInv, [UpgradeNext]_composedVars PROVE UpgradeInv'
  OBVIOUS
<1> USE KmorphdAssumption DEF RequestFollows, RefusalIsFinal
<1>0. KmorphdInv' /\ RequestFollows /\ RefusalIsFinal
  BY UpgradeSteps, KmorphdKept DEF UpgradeInv
<1>1. KmorphdTypeOK
  BY DEF UpgradeInv, KmorphdInv
<1>2. CASE UpgradeStep
  <2>1. CASE UNCHANGED kmorphdVars
    <3>1. UNCHANGED <<conns, handed_over>>
      BY <2>1 DEF kmorphdVars, daemon, world
    <3>2. \A k : Asks(k)' <=> Asks(k)
      BY <3>1 DEF Asks
    <3> QED
      BY <1>0, <1>2, <3>1, <3>2
      DEF UpgradeInv, UpgradeStep, watch_push, freeze_filesystems, RequestHandover,
          RequestFails, ReplyRefused, ReplyAccepted, NotFenced, Thaw
  <2>2. ASSUME NEW snap \in SNAPSHOTS, Connect(snap), watch_push PROVE UpgradeInv'
    <3>1. \A k \in 1..BACKLOG : Asks(k)' <=> Asks(k)
      BY <1>1, <2>2, QueueSteps DEF Connect, Requests
    <3> QED
      BY <1>0, <2>2, <3>1 DEF UpgradeInv, watch_push, Connect, daemon
  <2>3. CASE RequestHandover
    <3>1. \A k \in 1..BACKLOG : Asks(k)' <=> Asks(k) \/ k = Len(conns) + 1
      BY <1>1, <2>3, QueueSteps DEF RequestHandover, Connect, Requests
    <3>2. \A k \in 1..BACKLOG : ~Asks(k)
      BY <1>0, <2>3 DEF RequestHandover
    <3> QED
      BY <1>0, <2>3, <3>1, <3>2 DEF UpgradeInv, RequestHandover, Connect, daemon
  <2> QED
    BY <1>2, <2>1, <2>2, <2>3
    DEF UpgradeStep, watch_push, freeze_filesystems, RequestFails, ReplyRefused, ReplyAccepted,
        NotFenced, Thaw
<1>3. CASE KmorphdStep
  <2>1. /\ handed_over' => handed_over
        /\ \/ UNCHANGED conns
           \/ conns' = <<>>
           \/ \E r \in Requests \ {"handover"} : conns' = Append(conns, r)
    <3>1. CASE Terminate \/ Crash
      BY <3>1 DEF Terminate, Crash, ProcessEnds
    <3>2. CASE \E r \in Requests \ {"handover"} : Connect(r)
      BY <3>2 DEF Connect, daemon
    <3>3. ASSUME NEW err, deliver_probe(err) PROVE UNCHANGED handed_over
      BY <3>3 DEF deliver_probe
    <3>4. CASE on_tick \/ on_probe_ready
               \/ \E err \in {"EHOSTDOWN", "EIO"} : probe_start_fails(err)
      BY <3>3, <3>4 DEF on_tick, on_probe_ready, probe_start_fails, daemon, world
    <3>5. CASE probe_start \/ ProbeAnswered \/ file_write \/ OperationReturns \/ CpuStops
               \/ PredecessorDies \/ Boot
      BY <3>5 DEF probe_start, ProbeAnswered, file_write, OperationReturns, CpuStops,
                  PredecessorDies, Boot, daemon, world
    <3> QED
      BY <1>3, <3>1, <3>2, <3>4, <3>5 DEF KmorphdStep
  <2>2. \A k \in 1..BACKLOG : Asks(k)' => Asks(k)
    <3>1. CASE UNCHANGED conns
      BY <3>1 DEF Asks
    <3>2. CASE \E r \in Requests \ {"handover"} : conns' = Append(conns, r)
      BY <1>1, <3>2, QueueSteps
    <3>3. CASE conns' = <<>>
      BY <1>1, <3>3, QueueSteps
    <3> QED
      BY <2>1, <3>1, <3>2, <3>3
  <2> QED
    BY <1>0, <1>3, <2>1, <2>2 DEF UpgradeInv, KmorphdStep, upgradeVars
<1>4. CASE Answered
  <2>1. \A k \in 1..BACKLOG : Asks(k)' => k + 1 \in 1..BACKLOG /\ Asks(k + 1)
    BY <1>1, <1>4, QueueSteps DEF Answered, on_connection
  <2>2. Head(conns) = "handover" <=> Asks(1)
    BY <1>1, <1>4, QueueSteps DEF Answered, on_connection
  <2>3. CASE ~Asks(1)
    <3>1. UNCHANGED <<handed_over, upgrade, reply, frozen>>
      BY <1>4, <2>2, <2>3 DEF Answered, on_connection, answer_network, daemon
    <3> QED
      BY <1>0, <2>1, <3>1 DEF UpgradeInv
  <2>4. CASE Asks(1)
    <3>1. \A k \in 1..BACKLOG : ~Asks(k)'
      BY <1>0, <2>1, <2>4
    <3>2. upgrade \in {"asked", "sleep", "failed"} /\ ~handed_over /\ reply # "refused"
      BY <1>0, <2>4
    <3>3. /\ handed_over' => answer_handover
          /\ UNCHANGED <<upgrade, frozen>>
          /\ reply' = IF upgrade = "asked"
                         THEN IF answer_handover THEN "accepted" ELSE "refused" ELSE reply
      BY <1>4, <2>2, <2>4, <3>2 DEF Answered, on_connection, answer_network, daemon
    <3> QED
      BY <1>0, <3>1, <3>2, <3>3 DEF UpgradeInv
  <2> QED
    BY <2>3, <2>4
<1>5. CASE UNCHANGED composedVars
  <2>1. UNCHANGED <<conns, handed_over, upgrade, reply, frozen>>
    BY <1>5 DEF composedVars, kmorphdVars, daemon, world, upgradeVars
  <2>2. \A k : Asks(k)' <=> Asks(k)
    BY <2>1 DEF Asks
  <2> QED
    BY <1>0, <2>1, <2>2 DEF UpgradeInv
<1> QED
  BY <1>2, <1>3, <1>4, <1>5 DEF UpgradeNext

\* upgrade.c: request, answer, freeze and takeover stay in step.
THEOREM UpgradeInvariant == UpgradeSpec => []UpgradeInv
BY UpgradeInitially, UpgradeKept, PTL DEF UpgradeSpec

\* upgrade_run(): no CPU is stopped for a handover but under the freeze, or after
\* the command gave up.
THEOREM UpgradeStopsFrozen == UpgradeSpec => []StoppedWhileFrozen
<1>1. UpgradeInv => StoppedWhileFrozen
  BY DEF UpgradeInv, RequestFollows, StoppedWhileFrozen
<1> QED  BY <1>1, UpgradeInvariant, PTL

\* upgrade_run(): a refused handover is not taken.
THEOREM UpgradeRefusalIsFinal == UpgradeSpec => []RefusalIsFinal
<1>1. UpgradeInv => RefusalIsFinal
  BY DEF UpgradeInv
<1> QED  BY <1>1, UpgradeInvariant, PTL
=============================================================================
