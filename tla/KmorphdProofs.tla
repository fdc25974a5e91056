--------------------------- MODULE KmorphdProofs ---------------------------
(***************************************************************************)
(* Proofs about Kmorphd, for any CPUs, thresholds, identities, requests    *)
(* and number of restarts.  What takeover.c keeps is taken over from       *)
(* TakeoverProofs through the refinement; the rest of the invariant is     *)
(* proved for one part of the daemon after the other.                      *)
(***************************************************************************)
EXTENDS Kmorphd, TakeoverProofs

\* Every handler of main.c leaves the state machine alone or takes one of its
\* steps.
LEMMA KmorphdSteps ==
  ASSUME [KmorphdNext]_kmorphdVars
  PROVE  [TakeoverNext]_takeoverVars
<1>1. ASSUME NEW err, op = "none", deliver_probe(err)
      PROVE  [TakeoverNext]_takeoverVars
  <2>1. CASE UNCHANGED tkVars
    BY <1>1, <2>1 DEF deliver_probe, takeoverVars
  <2>2. CASE \E ev \in TkEvent : takeover_handle(ev)
    BY <1>1, <2>2 DEF deliver_probe, TakeoverNext, Handle
  <2> QED
    BY <1>1, <2>1, <2>2 DEF deliver_probe, TkEvent
<1>2. CASE on_tick
  BY <1>1, <1>2 DEF on_tick, Idle
<1>3. CASE on_probe_ready
  BY <1>1, <1>3 DEF on_probe_ready, Idle
<1>4. CASE \E err \in {"EHOSTDOWN", "EIO"} : probe_start_fails(err)
  BY <1>1, <1>4 DEF probe_start_fails
<1>5. CASE on_connection
  <2>1. CASE take_handover
    BY <1>5, <2>1 DEF on_connection, Idle, take_handover, TakeoverNext, Handle, TkEvent
  <2> QED
    BY <1>5, <2>1 DEF on_connection, answer_network
<1>6. CASE OperationReturns
  <2>1. PICK err \in Result :
          \/ FenceReturns(err)
          \/ \E taken \in SUBSET (IF dump THEN RESOURCES \ {"memory"} ELSE RESOURCES) :
               AdoptReturns(err, taken)
          \/ PreserveReturns(err)
          \/ ReapReturns(err)
    BY <1>6 DEF OperationReturns
  <2>2. CASE \E taken \in SUBSET RESOURCES : AdoptReturns(err, taken)
    BY <2>2 DEF TakeoverNext
  <2> QED
    BY <2>1, <2>2 DEF TakeoverNext
<1>7. CASE CpuStops
  BY <1>7 DEF CpuStops, TakeoverNext
<1>8. CASE Terminate \/ Crash
  BY <1>8 DEF Terminate, Crash, ProcessEnds, TakeoverNext
<1>9. CASE \/ probe_start \/ ProbeAnswered \/ file_write \/ PredecessorDies \/ Boot
           \/ (\E r \in Requests : Connect(r)) \/ UNCHANGED kmorphdVars
  BY <1>9 DEF probe_start, ProbeAnswered, file_write, PredecessorDies, Boot, Connect,
              kmorphdVars
<1> QED
  BY <1>2, <1>3, <1>4, <1>5, <1>6, <1>7, <1>8, <1>9 DEF KmorphdNext

\* main.c: probes, requests, restarts and files around it leave the state
\* machine of takeover.c as it is.
THEOREM KmorphdImplementsTakeover == KmorphdSpec => ImplementsTakeover
<1>1. KmorphdInit => TakeoverInit
  BY DEF KmorphdInit
<1> QED
  BY <1>1, KmorphdSteps, PTL DEF KmorphdSpec, ImplementsTakeover, TakeoverSpec
-----------------------------------------------------------------------------
(* Types.                                                                  *)

\* Probe results, counters, files and the accept queue keep their types.
LEMMA KmorphdTypesKept ==
  ASSUME KmorphdTypeOK, TakeoverTypeOK', KmorphdNext
  PROVE  KmorphdTypeOK'
<1> USE KmorphdAssumption, ConfigAssumption
<1> DEFINE Status == [state : TkState, predecessor : ProbeResult \cup {"handed-over"},
                      error : Result]
<1> USE DEF KmorphdTypeOK, TakeoverTypeOK
<1>1. last_result' \in ProbeResult /\ handed_over' \in BOOLEAN => fill_status' \in Status
  BY DEF fill_status, predecessor
<1>2. ASSUME NEW err, deliver_probe(err)
      PROVE  /\ last_result' \in ProbeResult
             /\ UNCHANGED <<handed_over, dump, network, netfile>>
             /\ statefile' \in Status
             /\ marker' \in BOOLEAN
             /\ waiter' \in {"waiting", "released", "failed"}
  <2>1. last_result' \in ProbeResult /\ UNCHANGED <<handed_over, dump, network, netfile>>
    BY <1>2 DEF deliver_probe, probe_classify, ProbeResult
  <2> QED
    BY <1>1, <1>2, <2>1 DEF deliver_probe, on_state, write_state_file
<1>3. CASE on_tick
  <2>1. ticks' \in 0..PROBE_TIMEOUTS
    BY <1>3 DEF on_tick, CountTick
  <2> QED
    BY <1>2, <1>3, <2>1 DEF on_tick, daemon, files, world
<1>4. CASE on_probe_ready
  <2>1. ticks' \in 0..PROBE_TIMEOUTS
    BY <1>4 DEF on_probe_ready, CountAnswer
  <2> QED
    BY <1>2, <1>4, <2>1 DEF on_probe_ready, world
<1>5. CASE \E err \in {"EHOSTDOWN", "EIO"} : probe_start_fails(err)
  BY <1>2, <1>5 DEF probe_start_fails, world
<1>6. CASE \E r \in Requests : Connect(r)
  <2>1. conns' \in Seq(Requests) /\ Len(conns') <= BACKLOG /\ requests' \in 0..MAX_REQUESTS
    BY <1>6 DEF Connect
  <2> QED
    BY <1>6, <2>1 DEF Connect, daemon, files
<1>7. CASE on_connection
  <2>1. conns' \in Seq(Requests) /\ Len(conns') <= BACKLOG
    BY <1>7 DEF on_connection
  <2>2. CASE take_handover
    <3>1. handed_over' \in BOOLEAN /\ dump' \in BOOLEAN /\ marker' \in BOOLEAN
      BY <2>2, Zenon DEF take_handover, on_state
    <3>2. statefile' \in Status
      BY <1>1, <2>2, <3>1 DEF take_handover, on_state, write_state_file
    <3> QED
      BY <1>7, <2>1, <2>2, <3>1, <3>2 DEF on_connection, take_handover, on_state
  <2>3. CASE Head(conns) \in SNAPSHOTS /\ answer_network(Head(conns))
    BY <1>7, <2>1, <2>3 DEF on_connection, answer_network, Identities
  <2> QED
    BY <1>7, <2>1, <2>2, <2>3 DEF on_connection, daemon, files
<1>8. CASE OperationReturns
  <2>1. marker' \in BOOLEAN
    BY <1>8, Zenon DEF OperationReturns, on_state
  <2>2. statefile' \in Status
    BY <1>1, <1>8 DEF OperationReturns, on_state, write_state_file, daemon
  <2> QED
    BY <1>8, <2>1, <2>2 DEF OperationReturns, on_state, daemon, world
<1>9. CASE Terminate \/ Crash
  <2>1. ProcessEnds
    BY <1>9 DEF Terminate, Crash
  <2>2. conns' \in Seq(Requests) /\ Len(conns') <= BACKLOG
    BY <2>1 DEF ProcessEnds
  <2>3. ticks' \in 0..PROBE_TIMEOUTS
    BY <2>1 DEF ProcessEnds
  <2>4. crashes' \in 0..MAX_CRASHES /\ proc' \in {"up", "crashed", "stopped"}
    BY <1>9 DEF Terminate, Crash
  <2>5. handed_over' \in BOOLEAN /\ dump' \in BOOLEAN /\ marker' \in BOOLEAN
    BY <2>1, Zenon DEF ProcessEnds
  <2> QED
    BY <2>1, <2>2, <2>3, <2>4, <2>5 DEF ProcessEnds, ProbeResult, Identities
<1>10. CASE Boot
  BY <1>1, <1>10 DEF Boot, write_state_file, load_network, Identities, world
<1>11. CASE probe_start
  BY <1>11 DEF probe_start, daemon, files, world
<1>12. CASE ProbeAnswered
  BY <1>12 DEF ProbeAnswered, daemon, files, world, Errno
<1>13. CASE file_write
  BY <1>13 DEF file_write, daemon, files, world
<1>14. CASE CpuStops
  BY <1>14 DEF CpuStops, daemon, files, world
<1>15. CASE PredecessorDies
  BY <1>15 DEF PredecessorDies, daemon, files
<1> QED
  BY <1>3, <1>4, <1>5, <1>6, <1>7, <1>8, <1>9, <1>10, <1>11, <1>12,
     <1>13, <1>14, <1>15 DEF KmorphdNext
-----------------------------------------------------------------------------
(* Identities, the state file, what is taken and what is dumped.           *)

\* answer_network(), file_write(), load_network(): the file never holds an
\* older identity than the one accepted last.
LEMMA IdentityKeptInStep ==
  ASSUME KmorphdTypeOK, IdentityFollows, NoStaleIdentity, KmorphdNext
  PROVE  IdentityFollows' /\ NoStaleIdentity'
<1> USE KmorphdAssumption DEF IdentityFollows, NoStaleIdentity, KmorphdTypeOK
<1>0. latest \notin {"absent", "torn"}
  BY DEF Identities
<1>1. CASE on_connection
  BY <1>1 DEF on_connection, take_handover, answer_network, daemon, files, Idle
<1>2. CASE file_write
  BY <1>0, <1>2 DEF file_write, daemon
<1>3. CASE Boot
  BY <1>0, <1>3 DEF Boot, load_network
<1>4. CASE Terminate \/ Crash
  BY <1>4 DEF Terminate, Crash, ProcessEnds
<1>5. CASE on_tick \/ on_probe_ready \/ \E err \in {"EHOSTDOWN", "EIO"} : probe_start_fails(err)
  BY <1>5 DEF on_tick, on_probe_ready, probe_start_fails, deliver_probe, daemon, files
<1>6. CASE probe_start \/ ProbeAnswered \/ (\E r \in Requests : Connect(r)) \/ CpuStops
           \/ PredecessorDies \/ OperationReturns
  BY <1>6 DEF probe_start, ProbeAnswered, Connect, CpuStops, PredecessorDies,
              OperationReturns, daemon, files
<1> QED
  BY <1>1, <1>2, <1>3, <1>4, <1>5, <1>6 DEF KmorphdNext

\* write_state_file() is called wherever the state or the predecessor's changes.
LEMMA StateFileKeptInStep ==
  ASSUME KmorphdTypeOK, StateFileCurrent, KmorphdNext
  PROVE  StateFileCurrent'
<1> USE DEF StateFileCurrent, predecessor
<1>1. write_state_file => StateFileCurrent'
  BY DEF write_state_file, fill_status
<1>2. on_state /\ UNCHANGED <<last_result, handed_over, proc>> => StateFileCurrent'
  BY <1>1 DEF on_state
<1>3. ASSUME NEW err, deliver_probe(err), UNCHANGED proc PROVE StateFileCurrent'
  BY <1>1, <1>2, <1>3 DEF deliver_probe, tkVars
<1>4. CASE on_tick \/ on_probe_ready \/ \E err \in {"EHOSTDOWN", "EIO"} : probe_start_fails(err)
  BY <1>3, <1>4 DEF on_tick, on_probe_ready, probe_start_fails, daemon, files, takeoverVars,
                    tkVars
<1>5. CASE on_connection
  <2>1. CASE answer_handover /\ take_handover
    BY <1>1, <2>1 DEF answer_handover, take_handover, takeover_handle, handle_watching,
                      begin_takeover, Watching, on_state
  <2> QED
    BY <1>5, <2>1 DEF on_connection, answer_network, daemon, files, takeoverVars, tkVars
<1>6. CASE OperationReturns
  BY <1>2, <1>6 DEF OperationReturns, daemon
<1>7. CASE Boot
  BY <1>1, <1>7 DEF Boot
<1>8. CASE Terminate \/ Crash
  BY <1>8 DEF Terminate, Crash
<1>9. CASE probe_start \/ ProbeAnswered \/ (\E r \in Requests : Connect(r)) \/ file_write
           \/ PredecessorDies \/ CpuStops
  BY <1>9 DEF probe_start, ProbeAnswered, Connect, file_write, PredecessorDies, CpuStops,
              StopCpu, daemon, files, takeoverVars, tkVars
<1> QED
  BY <1>4, <1>5, <1>6, <1>7, <1>8, <1>9 DEF KmorphdNext

\* ops.env.dump_path is given up by a handover and by nothing else.
LEMMA DumpKeptInStep ==
  ASSUME KmorphdTypeOK, DumpFollows, KmorphdNext
  PROVE  DumpFollows'
<1> USE KmorphdAssumption DEF DumpFollows, KmorphdTypeOK
<1>1. CASE take_handover
  BY <1>1, Zenon DEF take_handover
<1>2. CASE ProcessEnds
  BY <1>2, Zenon DEF ProcessEnds
<1>3. CASE UNCHANGED <<dump, handed_over>>
  BY <1>3, Zenon
<1> QED
  BY <1>1, <1>2, <1>3
  DEF KmorphdNext, on_connection, answer_network, on_tick, on_probe_ready, probe_start_fails,
      deliver_probe, probe_start, ProbeAnswered, Connect, file_write, PredecessorDies,
      CpuStops, OperationReturns, Boot, Terminate, Crash, daemon

\* continue_takeover(): preserve and reap follow an adoption that took the CPUs,
\* and nothing that was taken is given back.
LEMMA MachineKeptInStep ==
  ASSUME TakeoverInv, CpusTaken, [TakeoverNext]_takeoverVars
  PROVE  CpusTaken' /\ running' \subseteq running /\ claimed \subseteq claimed'
<1> USE DEF CpusTaken, TakeoverInv, CallMatchesState
<1>1. ASSUME NEW ev \in TkEvent, Handle(ev)
      PROVE  CpusTaken' /\ UNCHANGED machine
  BY <1>1 DEF Handle, takeover_handle, handle_watching, handle_fence_failed, begin_takeover,
              continue_takeover, Ignore, tkVars, machine, Watching
<1>2. ASSUME NEW err \in Result, FenceReturns(err) \/ PreserveReturns(err)
      PROVE  CpusTaken' /\ UNCHANGED machine
  BY <1>2 DEF FenceReturns, PreserveReturns, machine
<1>3. ASSUME NEW err \in Result, ReapReturns(err)
      PROVE  CpusTaken' /\ running' = running /\ claimed \subseteq claimed'
  BY <1>3 DEF ReapReturns
<1>4. ASSUME NEW err \in Result, NEW taken \in SUBSET RESOURCES, AdoptReturns(err, taken)
      PROVE  CpusTaken' /\ running' = running /\ claimed \subseteq claimed'
  BY <1>4 DEF AdoptReturns
<1>5. ASSUME NEW c \in CPUS, StopCpu(c)
      PROVE  CpusTaken' /\ running' \subseteq running /\ claimed \subseteq claimed'
  BY <1>5 DEF StopCpu, tkVars
<1>6. CASE Restart \/ UNCHANGED takeoverVars
  BY <1>6 DEF Restart, takeover_init, machine, takeoverVars, tkVars
<1> QED
  BY <1>1, <1>2, <1>3, <1>4, <1>5, <1>6 DEF TakeoverNext, machine

\* on_state(): the marker appears and the waiter is released in TAKEN_OVER only.
LEMMA ReleasedKeptInStep ==
  ASSUME TakeoverInv, TakeoverInv', CpusTaken, ReleasedOnOwnMachine, KmorphdNext
  PROVE  CpusTaken' /\ ReleasedOnOwnMachine'
<1> DEFINE Released == marker \/ waiter = "released"
<1>1. CpusTaken' /\ running' \subseteq running /\ claimed \subseteq claimed'
  BY KmorphdSteps, MachineKeptInStep
<1>2. on_state => (Released' => Released \/ state' = "TAKEN_OVER")
  BY DEF on_state
<1>3. Released' => Released \/ state' = "TAKEN_OVER"
  <2>1. ASSUME NEW err, deliver_probe(err) PROVE Released' => Released \/ state' = "TAKEN_OVER"
    BY <1>2, <2>1 DEF deliver_probe
  <2>2. CASE on_tick \/ on_probe_ready
             \/ \E err \in {"EHOSTDOWN", "EIO"} : probe_start_fails(err)
    BY <2>1, <2>2 DEF on_tick, on_probe_ready, probe_start_fails, files
  <2>3. CASE on_connection
    BY <1>2, <2>3 DEF on_connection, take_handover, answer_network, files
  <2>4. CASE OperationReturns
    BY <1>2, <2>4 DEF OperationReturns
  <2>5. CASE Terminate \/ Crash \/ Boot
    BY <2>5 DEF Terminate, Crash, ProcessEnds, Boot
  <2>6. CASE probe_start \/ ProbeAnswered \/ (\E r \in Requests : Connect(r)) \/ file_write
             \/ PredecessorDies \/ CpuStops
    BY <2>6 DEF probe_start, ProbeAnswered, Connect, file_write, PredecessorDies, CpuStops,
                files
  <2> QED
    BY <2>2, <2>3, <2>4, <2>5, <2>6 DEF KmorphdNext
<1>4. state' = "TAKEN_OVER" => running' = {}
  BY DEF TakeoverInv, NeverTwoKernels
<1> QED
  BY <1>1, <1>3, <1>4 DEF ReleasedOnOwnMachine, CpusTaken
-----------------------------------------------------------------------------
(* Why the predecessor is fenced.                                          *)

\* on_tick(), deliver_probe(), take_handover(): silence and answers are counted
\* against the ticks of the timer.
LEMMA TicksKeptInStep ==
  ASSUME TakeoverInv, KmorphdTypeOK, TicksCounted, FenceHasReason, KmorphdNext
  PROVE  TicksCounted' /\ FenceHasReason'
<1> USE ConfigAssumption
    DEF TakeoverInv, TakeoverTypeOK, CountersFollowState, CallMatchesState, KmorphdTypeOK,
        TicksCounted, FenceHasReason, Pending, Watching
<1>1. CASE on_tick
  <2>1. CASE probe = "none"
    BY <1>1, <2>1 DEF on_tick, Idle, CountTick, takeoverVars, tkVars, daemon
  <2>2. CASE probe # "none"
    BY <1>1, <2>2 DEF on_tick, Idle, CountTick, deliver_probe, probe_classify, takeover_handle,
                      handle_watching, begin_takeover
  <2> QED
    BY <2>1, <2>2
<1>2. CASE on_probe_ready
  BY <1>2 DEF on_probe_ready, Idle, CountAnswer, deliver_probe, probe_classify,
              takeover_handle, handle_watching, handle_fence_failed, begin_takeover,
              continue_takeover, Ignore, tkVars, Errno
<1>3. CASE \E err \in {"EHOSTDOWN", "EIO"} : probe_start_fails(err)
  BY <1>3 DEF probe_start_fails, deliver_probe, probe_classify, takeover_handle,
              handle_watching, handle_fence_failed, begin_takeover, continue_takeover, Ignore,
              tkVars
<1>4. CASE probe_start \/ ProbeAnswered
  BY <1>4 DEF probe_start, ProbeAnswered, takeoverVars, tkVars, daemon
<1>5. CASE on_connection
  <2>1. CASE answer_handover /\ take_handover
    BY <1>5, <2>1 DEF on_connection, answer_handover, take_handover, takeover_handle,
                      handle_watching, begin_takeover, Idle
  <2> QED
    BY <1>5, <2>1 DEF on_connection, answer_network, takeoverVars, tkVars, daemon, Idle
<1>6. CASE OperationReturns
  BY <1>6 DEF OperationReturns, FenceReturns, AdoptReturns, PreserveReturns, ReapReturns, daemon
<1>7. CASE Terminate \/ Crash
  BY <1>7 DEF Terminate, Crash, ProcessEnds, Restart, takeover_init
<1>8. CASE Boot \/ (\E r \in Requests : Connect(r)) \/ file_write \/ PredecessorDies \/ CpuStops
  BY <1>8 DEF Boot, Connect, file_write, PredecessorDies, CpuStops, StopCpu, takeoverVars,
              tkVars, daemon
<1> QED
  BY <1>1, <1>2, <1>3, <1>4, <1>5, <1>6, <1>7, <1>8 DEF KmorphdNext
-----------------------------------------------------------------------------
(* The theorems.                                                           *)

\* daemon_setup() of the first process.
LEMMA KmorphdInitially == KmorphdInit => KmorphdInv
<1> SUFFICES ASSUME KmorphdInit PROVE KmorphdInv
  OBVIOUS
<1> USE KmorphdAssumption, ConfigAssumption DEF KmorphdInit
<1>1. TakeoverInv
  BY TakeoverInitInv
<1>2. KmorphdTypeOK
  <2>1. conns \in Seq(Requests) /\ Len(conns) <= BACKLOG
    OBVIOUS
  <2>2. statefile \in [state : TkState, predecessor : ProbeResult \cup {"handed-over"},
                       error : Result]
    BY DEF TakeoverInit, fill_status, predecessor, TkState, ProbeResult, Result
  <2>3. crashes \in 0..MAX_CRASHES /\ requests \in 0..MAX_REQUESTS /\ ticks \in 0..PROBE_TIMEOUTS
    OBVIOUS
  <2>4. handed_over \in BOOLEAN /\ dump \in BOOLEAN /\ marker \in BOOLEAN
    BY Zenon
  <2> QED
    BY <1>1, <2>1, <2>2, <2>3, <2>4
    DEF KmorphdTypeOK, TakeoverInv, ProbeResult, Identities, Errno
<1>3. TicksCounted /\ FenceHasReason
  BY DEF TicksCounted, FenceHasReason, Pending, TakeoverInit, Watching
<1>4. IdentityFollows /\ NoStaleIdentity /\ ReleasedOnOwnMachine /\ CpusTaken
  BY DEF IdentityFollows, NoStaleIdentity, ReleasedOnOwnMachine, CpusTaken, TakeoverInit
<1>5. StateFileCurrent
  BY DEF StateFileCurrent, fill_status
<1>6. DumpFollows
  BY Zenon DEF DumpFollows
<1> QED
  BY <1>1, <1>2, <1>3, <1>4, <1>5, <1>6 DEF KmorphdInv

LEMMA KmorphdKept == KmorphdInv /\ [KmorphdNext]_kmorphdVars => KmorphdInv'
<1> SUFFICES ASSUME KmorphdInv, [KmorphdNext]_kmorphdVars PROVE KmorphdInv'
  OBVIOUS
<1>1. CASE KmorphdNext
  <2>1. TakeoverInv'
    BY <1>1, KmorphdSteps, TakeoverStepInv DEF KmorphdInv
  <2>2. KmorphdTypeOK'
    BY <1>1, <2>1, KmorphdTypesKept DEF KmorphdInv, TakeoverInv
  <2>3. TicksCounted' /\ FenceHasReason'
    BY <1>1, TicksKeptInStep DEF KmorphdInv
  <2>4. IdentityFollows' /\ NoStaleIdentity'
    BY <1>1, IdentityKeptInStep DEF KmorphdInv
  <2>5. StateFileCurrent' /\ DumpFollows'
    BY <1>1, StateFileKeptInStep, DumpKeptInStep DEF KmorphdInv
  <2>6. CpusTaken' /\ ReleasedOnOwnMachine'
    BY <1>1, <2>1, ReleasedKeptInStep DEF KmorphdInv
  <2> QED
    BY <2>1, <2>2, <2>3, <2>4, <2>5, <2>6 DEF KmorphdInv
<1>2. CASE UNCHANGED kmorphdVars
  <2> USE <1>2 DEF KmorphdInv, kmorphdVars, takeoverVars, tkVars, machine, daemon, files, world
  <2>1. TakeoverInv'
    BY StutterInv
  <2>2. KmorphdTypeOK'
    BY <2>1 DEF KmorphdTypeOK, TakeoverInv
  <2>3. TicksCounted' /\ FenceHasReason'
    BY DEF TicksCounted, FenceHasReason, Pending
  <2>4. IdentityFollows' /\ NoStaleIdentity'
    BY DEF IdentityFollows, NoStaleIdentity
  <2>5. StateFileCurrent'
    BY DEF StateFileCurrent, predecessor
  <2>6. CpusTaken' /\ ReleasedOnOwnMachine' /\ DumpFollows'
    BY DEF CpusTaken, ReleasedOnOwnMachine, DumpFollows
  <2> QED
    BY <2>1, <2>2, <2>3, <2>4, <2>5, <2>6
<1> QED
  BY <1>1, <1>2

\* All of main.c's bookkeeping stays in step, deaths and restarts included.
THEOREM KmorphdInvariant == KmorphdSpec => []KmorphdInv
BY KmorphdInitially, KmorphdKept, PTL DEF KmorphdSpec

\* on_tick(), take_handover(): the predecessor is fenced after probe_timeouts
\* ticks without an answer, or on a handover of one that just answered.
THEOREM KmorphdFencesForReason == KmorphdSpec => []FenceHasReason
<1>1. KmorphdInv => FenceHasReason
  BY DEF KmorphdInv
<1> QED  BY <1>1, KmorphdInvariant, PTL

\* write_state_file(): the state file is current whenever kmorphd is up.
THEOREM KmorphdStateFile == KmorphdSpec => []StateFileCurrent
<1>1. KmorphdInv => StateFileCurrent
  BY DEF KmorphdInv
<1> QED  BY <1>1, KmorphdInvariant, PTL

\* on_state(): whoever waits for the takeover is released on a machine whose
\* CPUs are the successor's.
THEOREM KmorphdReleases == KmorphdSpec => []ReleasedOnOwnMachine
<1>1. KmorphdInv => ReleasedOnOwnMachine
  BY DEF KmorphdInv
<1> QED  BY <1>1, KmorphdInvariant, PTL

\* load_network(): no restart goes back to an older identity.
THEOREM KmorphdIdentity == KmorphdSpec => []NoStaleIdentity
<1>1. KmorphdInv => NoStaleIdentity
  BY DEF KmorphdInv
<1> QED  BY <1>1, KmorphdInvariant, PTL

\* ops_adopt(), continue_takeover(): memory of a crashed predecessor joins only
\* after it was dumped.
THEOREM KmorphdDumps == KmorphdSpec => MemoryDumpedFirst
<1> DEFINE Step == claimed' # claimed /\ "memory" \in claimed' \ claimed =>
                     ~DUMP \/ handed_over \/ (op = "reap" /\ last_error = "ok")
<1>1. ASSUME KmorphdInv, [KmorphdNext]_kmorphdVars PROVE [Step]_kmorphdVars
  <2>1. CASE OperationReturns
    <3>1. dump \/ ~DUMP \/ handed_over
      BY <1>1, KmorphdAssumption, Zenon DEF KmorphdInv, DumpFollows
    <3>2. op = "reap" => last_error = "ok"
      BY <1>1 DEF KmorphdInv, TakeoverInv, CallMatchesState
    <3> QED
      BY <2>1, <3>1, <3>2 DEF OperationReturns, FenceReturns, AdoptReturns, PreserveReturns,
                              ReapReturns, machine
  <2>2. CASE UNCHANGED claimed
    BY <2>2
  <2>3. OperationReturns \/ UNCHANGED claimed
    BY <1>1 DEF KmorphdNext, on_tick, deliver_probe, probe_start, ProbeAnswered, on_probe_ready,
                probe_start_fails, Connect, on_connection, take_handover, answer_network,
                file_write, CpuStops, StopCpu, PredecessorDies, Terminate, Crash, ProcessEnds,
                Restart, Boot, kmorphdVars, takeoverVars, machine
  <2> QED
    BY <2>1, <2>2, <2>3
<1> QED
  BY <1>1, KmorphdInvariant, PTL DEF KmorphdSpec, MemoryDumpedFirst
=============================================================================
