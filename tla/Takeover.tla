------------------------------ MODULE Takeover ------------------------------
(***************************************************************************)
(* kmorphd's takeover state machine (kmorphd/takeover.c), driven by        *)
(* arbitrary events.  takeover_handle() runs to completion inside one      *)
(* event, but the operations it calls (fence, adopt, preserve, reap) take  *)
(* long enough for the machine around it to move, and the daemon may die   *)
(* in any of them, so each operation is a step of its own: "op" is the one *)
(* takeover_handle() is inside of, "none" when it has returned.            *)
(*                                                                         *)
(* The kernels are outside kmorph: "running" is the set of CPUs that still *)
(* execute the predecessor, which only the fence system call reduces, and  *)
(* "claimed" is what the overlays applied by adopt and reap have taken.    *)
(***************************************************************************)
EXTENDS Integers

CONSTANTS CPUS,             \* the CPUs the fence has to stop
          PROBE_TIMEOUTS,   \* probe_timeouts of kmorph.conf
          FENCE_RETRIES     \* fence_retries of kmorph.conf

\* config.c accepts probe_timeouts from 1 and fence_retries from 0 up.
ASSUME ConfigAssumption == /\ PROBE_TIMEOUTS \in Nat \ {0}
                           /\ FENCE_RETRIES \in Nat

RESOURCES == {"devices", "cpus", "memory"}

TkState == {"ARMED", "SUSPECT", "FENCING", "FENCE_FAILED", "FENCED", "TAKEN_OVER"}
Watching == {"ARMED", "SUSPECT"}
TkEvent == {"ALIVE", "SILENT", "REQUEST"}
Op == {"none", "fence", "adopt", "preserve", "reap"}
Result == {"ok", "error"}

VARIABLES state, silent, fence_attempts, last_error,  \* struct takeover
          op,                                         \* call in progress
          running, claimed                            \* the machine

machine == <<running, claimed>>
tkVars == <<state, silent, fence_attempts, last_error, op>>
takeoverVars == <<tkVars, machine>>

takeover_init == /\ state' = "ARMED"
                 /\ silent' = 0
                 /\ fence_attempts' = 0
                 /\ last_error' = "ok"
                 /\ op' = "none"

TakeoverInit == /\ state = "ARMED"
                /\ silent = 0
                /\ fence_attempts = 0
                /\ last_error = "ok"
                /\ op = "none"
                /\ running = CPUS
                /\ claimed = {}
-----------------------------------------------------------------------------
begin_takeover == /\ state' = "FENCING"
                  /\ fence_attempts' = fence_attempts + 1
                  /\ op' = "fence"
                  /\ UNCHANGED last_error

\* An event takeover_handle() has no use for.
Ignore == UNCHANGED tkVars

continue_takeover == /\ op' = "adopt"
                     /\ UNCHANGED <<state, silent, fence_attempts, last_error>>

\* A mutant of handle_watching(): an answer does not forget the silence before it.
KeepsSilence(ev) ==
  \/ /\ ev = "ALIVE"
     /\ state' = "ARMED"
     /\ UNCHANGED <<silent, fence_attempts, last_error, op>>
  \/ /\ ev = "SILENT"
     /\ silent' = silent + 1
     /\ IF silent + 1 >= PROBE_TIMEOUTS
          THEN begin_takeover
          ELSE /\ state' = "SUSPECT"
               /\ UNCHANGED <<fence_attempts, last_error, op>>
  \/ /\ ev = "REQUEST"
     /\ IF state = "ARMED" THEN begin_takeover /\ UNCHANGED silent ELSE Ignore

handle_watching(ev) ==
  \/ /\ ev = "ALIVE"
     /\ silent' = 0
     /\ state' = "ARMED"
     /\ UNCHANGED <<fence_attempts, last_error, op>>
  \/ /\ ev = "SILENT"
     /\ silent' = silent + 1
     /\ IF silent + 1 >= PROBE_TIMEOUTS
          THEN begin_takeover
          ELSE /\ state' = "SUSPECT"
               /\ UNCHANGED <<fence_attempts, last_error, op>>
  \/ /\ ev = "REQUEST"
     /\ IF state = "ARMED" THEN begin_takeover /\ UNCHANGED silent ELSE Ignore

\* A mutant of handle_fence_failed: a predecessor that answers again is watched
\* again.
WatchesAgain(ev) ==
  IF ev # "ALIVE" /\ fence_attempts <= FENCE_RETRIES
    THEN begin_takeover /\ UNCHANGED silent
    ELSE handle_watching("ALIVE")

\* takeover_handle() in TK_FENCE_FAILED.
handle_fence_failed(ev) ==
  IF ev # "ALIVE" /\ fence_attempts <= FENCE_RETRIES
    THEN begin_takeover /\ UNCHANGED silent ELSE Ignore

takeover_handle(ev) ==
  \/ state \in Watching /\ handle_watching(ev)
  \/ state = "FENCE_FAILED" /\ handle_fence_failed(ev)
  \/ state = "FENCED" /\ continue_takeover
  \/ state \in {"FENCING", "TAKEN_OVER"} /\ Ignore
-----------------------------------------------------------------------------
(* The returns of the operations, step() and what follows it.              *)

\* The fence system call stops CPUs one by one; a CPU may also heed it after
\* the call has given up waiting.
StopCpu(c) == /\ fence_attempts > 0
              /\ c \in running
              /\ running' = running \ {c}
              /\ UNCHANGED <<tkVars, claimed>>

\* Mutants of begin_takeover()'s use of the fence: its result is dropped, or
\* running out of retries is taken for success.
FenceResultDropped(err) ==
  /\ op = "fence"
  /\ err = "ok" => running = {}
  /\ last_error' = err
  /\ state' = "FENCED"
  /\ op' = "adopt"
  /\ UNCHANGED <<silent, fence_attempts, machine>>

GivesUpFencing(err) ==
  /\ op = "fence"
  /\ err = "ok" => running = {}
  /\ last_error' = err
  /\ IF err = "ok" \/ fence_attempts > FENCE_RETRIES
       THEN state' = "FENCED" /\ op' = "adopt"
       ELSE state' = "FENCE_FAILED" /\ op' = "none"
  /\ UNCHANGED <<silent, fence_attempts, machine>>

\* ... and succeeds only once it has seen every one of them stopped.
FenceReturns(err) ==
  /\ op = "fence"
  /\ err = "ok" => running = {}
  /\ last_error' = err
  /\ IF err = "ok" THEN state' = "FENCED" /\ op' = "adopt"
                   ELSE state' = "FENCE_FAILED" /\ op' = "none"
  /\ UNCHANGED <<silent, fence_attempts, machine>>

\* A failed adoption may have taken some of the devices already.
AdoptReturns(err, taken) ==
  /\ op = "adopt"
  /\ IF err = "ok" THEN "cpus" \in taken ELSE taken \subseteq {"devices"}
  /\ claimed' = claimed \cup taken
  /\ last_error' = err
  /\ op' = IF err = "ok" THEN "preserve" ELSE "none"
  /\ UNCHANGED <<state, silent, fence_attempts, running>>

\* A mutant of continue_takeover(): the memory is reaped though its dump failed.
ReapsUndumped(err) ==
  /\ op = "preserve"
  /\ last_error' = err
  /\ op' = "reap"
  /\ UNCHANGED <<state, silent, fence_attempts, machine>>

PreserveReturns(err) ==
  /\ op = "preserve"
  /\ last_error' = err
  /\ IF err = "ok" THEN op' = "reap" /\ UNCHANGED state
                   ELSE op' = "none" /\ state' = "TAKEN_OVER"
  /\ UNCHANGED <<silent, fence_attempts, machine>>

ReapReturns(err) ==
  /\ op = "reap"
  /\ last_error' = err
  /\ claimed' \in {claimed} \cup (IF err = "ok" THEN {claimed \cup {"memory"}} ELSE {})
  /\ op' = "none"
  /\ state' = "TAKEN_OVER"
  /\ UNCHANGED <<silent, fence_attempts, running>>
-----------------------------------------------------------------------------
Handle(ev) == /\ op = "none"
              /\ takeover_handle(ev)
              /\ UNCHANGED machine

\* A new kmorphd process starts over, on the machine as the last one left it.
Restart == takeover_init /\ UNCHANGED machine

TakeoverNext ==
  \/ \E ev \in TkEvent : Handle(ev)
  \/ \E c \in CPUS : StopCpu(c)
  \/ \E err \in Result : FenceReturns(err) \/ PreserveReturns(err) \/ ReapReturns(err)
  \/ \E err \in Result, taken \in SUBSET RESOURCES : AdoptReturns(err, taken)
  \/ Restart

TakeoverSpec == TakeoverInit /\ [][TakeoverNext]_takeoverVars

-----------------------------------------------------------------------------
(* Properties.                                                             *)

\* Types of struct takeover and the machine; silent stops counting at the
\* threshold and fence_attempts at one more than the retries, because the
\* states that advance them are never entered again.
TakeoverTypeOK ==
  /\ state \in TkState
  /\ silent \in 0..PROBE_TIMEOUTS
  /\ fence_attempts \in 0..(FENCE_RETRIES + 1)
  /\ last_error \in Result
  /\ op \in Op
  /\ running \subseteq CPUS
  /\ claimed \subseteq RESOURCES

\* begin_takeover()/continue_takeover(): nothing of the predecessor's is
\* claimed, and the state file never says FENCED or TAKEN_OVER, while a CPU
\* may still execute it, whatever fences failed or daemons died before.
NeverTwoKernels ==
  (claimed # {} \/ state \in {"FENCED", "TAKEN_OVER"}) => running = {}

\* FENCE_FAILED and FENCED hold no call of takeover_handle(); FENCING is only
\* ever seen from inside the fence, so the "case TK_FENCING" of
\* takeover_handle() is never reached.
CallMatchesState ==
  /\ op = "fence" <=> state = "FENCING"
  /\ op \in {"adopt", "preserve", "reap"} => state = "FENCED"
  /\ op \in {"preserve", "reap"} => last_error = "ok"

\* What makes the counters bounded: silence is forgotten when the predecessor
\* answers, and nothing was fenced while it is watched.
CountersFollowState ==
  /\ state = "ARMED" => silent = 0
  /\ state = "SUSPECT" => silent < PROBE_TIMEOUTS
  /\ state \in Watching => fence_attempts = 0

\* The inductive invariant of TakeoverSpec.
TakeoverInv == /\ TakeoverTypeOK
               /\ CallMatchesState
               /\ CountersFollowState
               /\ NeverTwoKernels

\* A process never returns to watching once it began to fence, and never does
\* anything after TAKEN_OVER: takeover is one-shot.
OneShot ==
  [][Restart \/ /\ state \notin Watching => state' \notin Watching
                /\ state = "FENCED" => state' \in {"FENCED", "TAKEN_OVER"}
                /\ state = "TAKEN_OVER" => state' = "TAKEN_OVER"]_tkVars

\* takeover_handle(), FENCE_FAILED: as long as silence recurs, a failed fence
\* is retried until the retries are used up.
FenceRetried ==
  (state = "FENCE_FAILED" /\ fence_attempts <= FENCE_RETRIES) ~> state # "FENCE_FAILED"

\* The takeover never claims what a running predecessor owns.
Owners == INSTANCE Ownership WITH running <- running, claimed <- claimed,
                                CPUS <- CPUS, RESOURCES <- RESOURCES
OwnershipKept == Owners!OwnershipSpec
=============================================================================
