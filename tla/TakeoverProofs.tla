--------------------------- MODULE TakeoverProofs ---------------------------
(***************************************************************************)
(* Proofs about Takeover, for every set of CPUs and every configuration    *)
(* config.c accepts.                                                       *)
(***************************************************************************)
EXTENDS Takeover, TLAPS

\* A freshly initialised daemon on an untouched machine satisfies the
\* invariant.
LEMMA TakeoverInitInv == TakeoverInit => TakeoverInv
BY ConfigAssumption
   DEF TakeoverInit, TakeoverInv, TakeoverTypeOK, CallMatchesState, CountersFollowState,
       NeverTwoKernels, TkState, Watching, Op, Result, RESOURCES

\* begin_takeover() keeps the invariant wherever handle_watching() and the
\* retry call it: outside of any operation, with attempts left.
LEMMA BeginTakeoverInv ==
  ASSUME TakeoverInv, op = "none", fence_attempts <= FENCE_RETRIES,
         state \in Watching \cup {"FENCE_FAILED"},
         begin_takeover, silent' \in 0..PROBE_TIMEOUTS, UNCHANGED machine
  PROVE  TakeoverInv'
BY ConfigAssumption
   DEF TakeoverInv, TakeoverTypeOK, CallMatchesState, CountersFollowState, NeverTwoKernels,
       begin_takeover, machine, TkState, Watching, Op, Result

\* Nothing happens to the invariant when an event is ignored.
LEMMA StutterInv == TakeoverInv /\ UNCHANGED takeoverVars => TakeoverInv'
BY DEF TakeoverInv, TakeoverTypeOK, CallMatchesState, CountersFollowState, NeverTwoKernels,
       takeoverVars, tkVars, machine

\* Every call of takeover_handle() keeps the invariant.
LEMMA HandleInv ==
  ASSUME NEW ev \in TkEvent, TakeoverInv, Handle(ev)
  PROVE  TakeoverInv'
<1> USE DEF Handle
<1>1. CASE Ignore
  BY <1>1, StutterInv DEF Ignore, takeoverVars
<1>2. CASE state \in Watching /\ handle_watching(ev)
  <2>0. fence_attempts <= FENCE_RETRIES /\ silent < PROBE_TIMEOUTS /\ silent \in 0..PROBE_TIMEOUTS
    BY <1>2, ConfigAssumption DEF TakeoverInv, TakeoverTypeOK, CountersFollowState, Watching
  <2>1. CASE ev = "ALIVE"
    BY <1>2, <2>1, ConfigAssumption
       DEF handle_watching, TakeoverInv, TakeoverTypeOK, CallMatchesState,
           CountersFollowState, NeverTwoKernels, TkState, Watching, Op, Result, machine
  <2>2. CASE ev = "SILENT" /\ begin_takeover
    <3>1. silent' \in 0..PROBE_TIMEOUTS
      BY <1>2, <2>0, <2>2, ConfigAssumption DEF handle_watching
    <3> QED  BY <1>2, <2>0, <2>2, <3>1, BeginTakeoverInv DEF Watching
  <2>3. CASE ev = "SILENT" /\ ~begin_takeover
    BY <1>2, <2>0, <2>3, ConfigAssumption
       DEF handle_watching, TakeoverInv, TakeoverTypeOK, CallMatchesState,
           CountersFollowState, NeverTwoKernels, TkState, Watching, Op, Result, machine
  <2>4. CASE ev = "REQUEST"
    <3>1. CASE begin_takeover /\ UNCHANGED silent
      BY <1>2, <2>0, <3>1, BeginTakeoverInv DEF Watching
    <3> QED  BY <1>1, <1>2, <2>4, <3>1 DEF handle_watching
  <2> QED  BY <2>1, <2>2, <2>3, <2>4 DEF TkEvent
<1>3. CASE state = "FENCE_FAILED" /\ handle_fence_failed(ev)
  <2>1. CASE fence_attempts <= FENCE_RETRIES /\ begin_takeover /\ UNCHANGED silent
    <3>1. silent' \in 0..PROBE_TIMEOUTS
      BY <2>1 DEF TakeoverInv, TakeoverTypeOK
    <3> QED  BY <1>3, <2>1, <3>1, BeginTakeoverInv
  <2> QED  BY <1>1, <1>3, <2>1 DEF handle_fence_failed
<1>4. CASE state = "FENCED" /\ continue_takeover
  BY <1>4, ConfigAssumption
     DEF continue_takeover, TakeoverInv, TakeoverTypeOK, CallMatchesState,
         CountersFollowState, NeverTwoKernels, TkState, Watching, Op, Result, machine
<1> QED  BY <1>1, <1>2, <1>3, <1>4 DEF takeover_handle

\* Every step of the takeover, a restart included, keeps the invariant.
LEMMA TakeoverStepInv == TakeoverInv /\ [TakeoverNext]_takeoverVars => TakeoverInv'
<1> SUFFICES ASSUME TakeoverInv, [TakeoverNext]_takeoverVars PROVE TakeoverInv'
  OBVIOUS
<1> USE ConfigAssumption
    DEF TakeoverInv, TakeoverTypeOK, CallMatchesState, CountersFollowState, NeverTwoKernels,
        machine, tkVars, TkState, Watching, Op, Result, RESOURCES
<1>1. ASSUME NEW ev \in TkEvent, Handle(ev) PROVE TakeoverInv'
  BY <1>1, HandleInv
<1>2. ASSUME NEW c \in CPUS, StopCpu(c) PROVE TakeoverInv'
  BY <1>2 DEF StopCpu
<1>3. ASSUME NEW err \in Result, FenceReturns(err) PROVE TakeoverInv'
  BY <1>3 DEF FenceReturns
<1>4. ASSUME NEW err \in Result, NEW taken \in SUBSET RESOURCES, AdoptReturns(err, taken)
      PROVE TakeoverInv'
  BY <1>4 DEF AdoptReturns
<1>5. ASSUME NEW err \in Result, PreserveReturns(err) PROVE TakeoverInv'
  BY <1>5 DEF PreserveReturns
<1>6. ASSUME NEW err \in Result, ReapReturns(err) PROVE TakeoverInv'
  BY <1>6 DEF ReapReturns
<1>7. CASE Restart
  BY <1>7 DEF Restart, takeover_init
<1>8. CASE UNCHANGED takeoverVars
  BY <1>8, StutterInv
<1> QED  BY <1>1, <1>2, <1>3, <1>4, <1>5, <1>6, <1>7, <1>8 DEF TakeoverNext

\* takeover.c keeps its invariant in every execution.
THEOREM TakeoverInvariant == TakeoverSpec => []TakeoverInv
BY TakeoverInitInv, TakeoverStepInv, PTL DEF TakeoverSpec

\* The counters of struct takeover stay within probe_timeouts and
\* fence_retries + 1.
THEOREM TakeoverTypes == TakeoverSpec => []TakeoverTypeOK
<1>1. TakeoverInv => TakeoverTypeOK
  BY DEF TakeoverInv
<1> QED  BY <1>1, TakeoverInvariant, PTL

\* Nothing is claimed, and FENCED is not reported, while a CPU of the
\* predecessor may run.
THEOREM TakeoverSafety == TakeoverSpec => []NeverTwoKernels
<1>1. TakeoverInv => NeverTwoKernels
  BY DEF TakeoverInv
<1> QED  BY <1>1, TakeoverInvariant, PTL

\* An operation runs only in the state that calls it, and preserve and reap
\* only after what precedes them succeeded.
THEOREM TakeoverCalls == TakeoverSpec => []CallMatchesState
<1>1. TakeoverInv => CallMatchesState
  BY DEF TakeoverInv
<1> QED  BY <1>1, TakeoverInvariant, PTL
\* A process that began to fence never watches again, FENCED leads only to
\* TAKEN_OVER, and TAKEN_OVER is final, until kmorphd restarts.
THEOREM TakeoverOneShot == TakeoverSpec => OneShot
<1> DEFINE Step == /\ state \notin Watching => state' \notin Watching
                   /\ state = "FENCED" => state' \in {"FENCED", "TAKEN_OVER"}
                   /\ state = "TAKEN_OVER" => state' = "TAKEN_OVER"
<1>1. ASSUME TakeoverInv, [TakeoverNext]_takeoverVars PROVE [Restart \/ Step]_tkVars
  <2> USE <1>1 DEF TakeoverInv, CallMatchesState, Watching
  <2>1. ASSUME NEW ev \in TkEvent, Handle(ev) PROVE Step \/ UNCHANGED tkVars
    BY <2>1 DEF Handle, takeover_handle, handle_watching, handle_fence_failed,
                begin_takeover, continue_takeover, Ignore, tkVars
  <2>2. ASSUME NEW c \in CPUS, StopCpu(c) PROVE UNCHANGED tkVars
    BY <2>2 DEF StopCpu
  <2>3. ASSUME NEW err \in Result,
               FenceReturns(err) \/ PreserveReturns(err) \/ ReapReturns(err)
        PROVE  Step
    BY <2>3 DEF FenceReturns, PreserveReturns, ReapReturns
  <2>4. ASSUME NEW err \in Result, NEW taken \in SUBSET RESOURCES, AdoptReturns(err, taken)
        PROVE  Step
    BY <2>4 DEF AdoptReturns
  <2>5. CASE UNCHANGED takeoverVars
    BY <2>5 DEF takeoverVars
  <2> HIDE DEF Step
  <2> QED  BY <2>1, <2>2, <2>3, <2>4, <2>5 DEF TakeoverNext
<1> QED  BY <1>1, TakeoverInvariant, PTL DEF TakeoverSpec, OneShot

\* takeover.c implements Ownership: CPUs only ever stop, and what a takeover
\* claims it claims with every one of them stopped.
THEOREM TakeoverImplementsOwnership == TakeoverSpec => OwnershipKept
<1>1. TakeoverInit => Owners!OwnershipInit
  BY DEF TakeoverInit, Owners!OwnershipInit
<1>2. ASSUME TakeoverInv, [TakeoverNext]_takeoverVars
      PROVE  [Owners!OwnershipNext]_(Owners!ownershipVars)
  <2> USE DEF Owners!ownershipVars
  <2>1. ASSUME NEW ev \in TkEvent, Handle(ev) PROVE UNCHANGED machine
    BY <2>1 DEF Handle
  <2>2. ASSUME NEW c \in CPUS, StopCpu(c) PROVE Owners!OwnershipNext
    <3>1. {c} \in SUBSET running /\ Owners!StopCpus({c})
      BY <2>2 DEF StopCpu, Owners!StopCpus
    <3> QED  BY <3>1 DEF Owners!OwnershipNext
  <2>3. ASSUME NEW err \in Result, FenceReturns(err) \/ PreserveReturns(err)
        PROVE  UNCHANGED machine
    BY <2>3 DEF FenceReturns, PreserveReturns
  <2>4. ASSUME NEW err \in Result, NEW taken \in SUBSET RESOURCES, AdoptReturns(err, taken)
        PROVE  Owners!OwnershipNext
    <3>1. running = {}
      BY <1>2, <2>4 DEF AdoptReturns, TakeoverInv, CallMatchesState, NeverTwoKernels
    <3>2. Owners!Claim(taken)
      BY <2>4, <3>1 DEF AdoptReturns, Owners!Claim
    <3> QED  BY <3>2 DEF Owners!OwnershipNext
  <2>5. ASSUME NEW err \in Result, ReapReturns(err)
        PROVE  Owners!OwnershipNext \/ UNCHANGED machine
    <3>1. running = {}
      BY <1>2, <2>5 DEF ReapReturns, TakeoverInv, CallMatchesState, NeverTwoKernels
    <3>2. CASE claimed' = claimed
      BY <2>5, <3>2 DEF ReapReturns, machine
    <3>3. CASE claimed' = claimed \cup {"memory"}
      <4>1. {"memory"} \in SUBSET RESOURCES
        BY DEF RESOURCES
      <4>2. Owners!Claim({"memory"})
        BY <2>5, <3>1, <3>3 DEF ReapReturns, Owners!Claim
      <4> QED  BY <4>1, <4>2 DEF Owners!OwnershipNext
    <3> QED  BY <2>5, <3>2, <3>3 DEF ReapReturns
  <2>6. CASE Restart
    BY <2>6 DEF Restart, machine
  <2>7. CASE UNCHANGED takeoverVars
    BY <2>7 DEF takeoverVars, machine
  <2> QED  BY <1>2, <2>1, <2>2, <2>3, <2>4, <2>5, <2>6, <2>7 DEF TakeoverNext, machine
<1> QED  BY <1>1, <1>2, TakeoverInvariant, PTL DEF TakeoverSpec, OwnershipKept, Owners!OwnershipSpec
=============================================================================
