------------------------------ MODULE Kmorphd ------------------------------
(***************************************************************************)
(* The kmorphd process (kmorphd/main.c) around the takeover state machine: *)
(* its epoll loop, the probes, the requests of the predecessor, the state  *)
(* file and the marker other programs wait for, and the restarts of the    *)
(* process by the successor's init.                                        *)
(*                                                                         *)
(* One event is handled at a time, but a handler is not one step.  While   *)
(* takeover_handle() is inside an operation (op) the machine moves on;     *)
(* on_tick() continues with a new probe after takeover_handle() returned   *)
(* (frame = "tick"); answer_network() truncates the identity file before   *)
(* it writes it (frame = "net").  The process may die in all of them.      *)
(***************************************************************************)
EXTENDS Takeover, Sequences

CONSTANTS DUMP,           \* is "dump" configured
          SNAPSHOTS,      \* network identities the predecessor may send
          IMAGE,          \* the identity kmorph arm put into the image
          BACKLOG,        \* connections the listening socket queues
          MAX_REQUESTS,   \* bound: requests the predecessor ever makes
          MAX_CRASHES     \* bound: deaths of the process (0 for PID 1)

ASSUME KmorphdAssumption == /\ DUMP \in BOOLEAN
                            /\ IMAGE \notin SNAPSHOTS
                            /\ BACKLOG \in Nat \ {0}
                            /\ MAX_REQUESTS \in Nat
                            /\ MAX_CRASHES \in Nat
                            /\ {"absent", "torn", "none", "handover", "other"}
                                 \cap (SNAPSHOTS \cup {IMAGE}) = {}

Errno == {"ECONNRESET", "ETIMEDOUT", "EHOSTDOWN", "EIO"}
ProbeResult == {"alive", "silent", "error"}
Requests == {"handover", "other"} \cup SNAPSHOTS
Identities == {"none", IMAGE} \cup SNAPSHOTS

VARIABLES
  proc,         \* "up", "crashed" or "stopped" by SIGTERM
  crashes,      \* how often the process died
  frame,        \* where the handler stands when no operation runs
  probe,        \* probe_fd: "none", "connecting" or the errno it holds
  last_result, handed_over,   \* of struct daemon
  dump,         \* is ops.env.dump_path set
  network,      \* ops.env.network
  netfile,      \* STANDBY_NETWORK: "absent", "torn" or what it holds
  statefile,    \* STATE_PATH
  marker,       \* does TAKEN_OVER_PATH exist
  waiter,       \* the first process of kmorphd --wait
  health,       \* "ok", or "dead" once the predecessor crashed
  conns,        \* accept queue of the listening socket
  requests,     \* requests made so far
  ticks,        \* history: ticks since the predecessor last answered
  latest        \* history: the identity accepted last

daemon == <<last_result, handed_over, dump, network>>
files == <<netfile, statefile, marker, waiter>>
world == <<health, conns, requests>>
kmorphdVars == <<takeoverVars, proc, crashes, frame, probe, daemon, files, world, ticks, latest>>

\* A mutant of the epoll loop: events are handled inside an operation.
NestsEvents == proc = "up" /\ frame = "loop"

\* daemon_run() waits in epoll_wait().
Idle == proc = "up" /\ frame = "loop" /\ op = "none"
-----------------------------------------------------------------------------
(* State file, marker and waiter.                                          *)

\* fill_status(): what the process reports of itself.
predecessor == IF handed_over THEN "handed-over" ELSE last_result
fill_status == [state |-> state, predecessor |-> predecessor, error |-> last_error]

write_state_file == statefile' = fill_status'

\* A mutant of on_state(): the file is written before the state is set.
WritesOldState == IF state' # state
                    THEN /\ statefile' = fill_status
                         /\ IF state' = "TAKEN_OVER"
                              THEN marker' = TRUE /\ waiter' = "released"
                              ELSE UNCHANGED <<marker, waiter>>
                    ELSE UNCHANGED <<statefile, marker, waiter>>

\* A mutant of on_state(): --wait is released by the fence already.
ReleasesAtFence == IF state' # state
                     THEN /\ write_state_file
                          /\ IF state' \in {"FENCED", "TAKEN_OVER"}
                               THEN marker' = TRUE /\ waiter' = "released"
                               ELSE UNCHANGED <<marker, waiter>>
                     ELSE UNCHANGED <<statefile, marker, waiter>>

\* set_state() and the on_state() it calls: every change of state is written;
\* TAKEN_OVER also releases the waiter and creates the marker.
on_state == IF state' # state
              THEN /\ write_state_file
                   /\ IF state' = "TAKEN_OVER"
                        THEN marker' = TRUE /\ waiter' = "released"
                        ELSE UNCHANGED <<marker, waiter>>
              ELSE UNCHANGED <<statefile, marker, waiter>>
-----------------------------------------------------------------------------
(* Probes.                                                                 *)

\* A mutant of probe_classify(): a probe that timed out is a local error.
TimeoutIsError(err) == CASE err = "ECONNRESET" -> "alive"
                         [] err = "EHOSTDOWN" -> "silent"
                         [] OTHER -> "error"

probe_classify(err) == CASE err = "ECONNRESET" -> "alive"
                         [] err \in {"ETIMEDOUT", "EHOSTDOWN"} -> "silent"
                         [] OTHER -> "error"

\* deliver_probe(): a changed result is written to the state file, then the
\* event is handled.  A local error whose errno differs from the last one is
\* written too; the errnos are not told apart, so it may or may not.
deliver_probe(err) ==
  LET r == probe_classify(err)
  IN  /\ last_result' = r
      /\ UNCHANGED <<handed_over, dump, network, netfile, machine>>
      /\ IF r = "error"
           THEN /\ UNCHANGED tkVars
                /\ write_state_file \/ (last_result = r /\ UNCHANGED statefile)
                /\ UNCHANGED <<marker, waiter>>
           ELSE /\ takeover_handle(IF r = "alive" THEN "ALIVE" ELSE "SILENT")
                /\ IF last_result # r
                     THEN write_state_file /\ UNCHANGED <<marker, waiter>>
                     ELSE on_state

\* Every tick of a watching daemon counts, and an answer starts over.
CountTick == ticks' = IF ticks < PROBE_TIMEOUTS THEN ticks + 1 ELSE ticks
CountAnswer(err) == ticks' = IF probe_classify(err) = "alive" /\ state \in Watching
                               THEN 0 ELSE ticks

\* on_tick() up to probe_start(): a probe still pending has timed out, its
\* answer unread if one just came.  In later states the tick does nothing.
on_tick ==
  /\ Idle
  /\ state \in Watching
  /\ CountTick
  /\ frame' = "tick"
  /\ probe' = "none"
  /\ IF probe # "none"
       THEN deliver_probe("ETIMEDOUT")
       ELSE UNCHANGED <<takeoverVars, daemon, files>>
  /\ UNCHANGED <<proc, crashes, world, latest>>

\* ... and the rest of it, once takeover_handle() returned, whatever it did.
probe_start ==
  /\ proc = "up" /\ frame = "tick" /\ op = "none"
  /\ frame' = "loop"
  /\ probe' = "connecting"
  /\ UNCHANGED <<takeoverVars, proc, crashes, daemon, files, world, ticks, latest>>

probe_start_fails(err) ==
  /\ proc = "up" /\ frame = "tick" /\ op = "none"
  /\ frame' = "loop"
  /\ deliver_probe(err)
  /\ UNCHANGED <<proc, crashes, probe, world, ticks, latest>>

\* The predecessor's kernel answers with a reset; without an answer the
\* connection attempt times out in the successor's kernel, in the end.
ProbeAnswered ==
  /\ probe = "connecting"
  /\ probe' \in IF health = "ok" /\ running # {} THEN {"ECONNRESET"}
                                                 ELSE {"ETIMEDOUT", "EHOSTDOWN"}
  /\ UNCHANGED <<takeoverVars, proc, crashes, frame, daemon, files, world, ticks, latest>>

on_probe_ready ==
  /\ Idle
  /\ probe \in Errno
  /\ probe' = "none"
  /\ deliver_probe(probe)
  /\ CountAnswer(probe)
  /\ UNCHANGED <<proc, crashes, frame, world, latest>>
-----------------------------------------------------------------------------
(* Requests.                                                               *)

\* A request of the predecessor: "other" is a status request, a malformed one
\* or one that never completes, none of which changes anything.
Connect(r) ==
  /\ health = "ok" /\ running # {}
  /\ proc = "up"
  /\ Len(conns) < BACKLOG
  /\ requests < MAX_REQUESTS
  /\ conns' = Append(conns, r)
  /\ requests' = requests + 1
  /\ UNCHANGED <<takeoverVars, proc, crashes, frame, probe, daemon, files, health, ticks, latest>>

\* answer_handover(): only a predecessor last seen alive may hand over.
answer_handover == state = "ARMED" /\ last_result = "alive"

take_handover ==
  /\ handed_over' = TRUE
  /\ dump' = FALSE
  /\ UNCHANGED <<last_result, network, netfile, machine, frame, latest>>
  /\ takeover_handle("REQUEST")
  /\ on_state

\* answer_network() up to the open() in file_write(), which truncates.
answer_network(snap) ==
  /\ network' = snap
  /\ latest' = snap
  /\ netfile' = "torn"
  /\ frame' = "net"
  /\ UNCHANGED <<takeoverVars, last_result, handed_over, dump, statefile, marker, waiter>>

\* ... and the write() in it.
file_write ==
  /\ proc = "up" /\ frame = "net"
  /\ netfile' = network
  /\ frame' = "loop"
  /\ UNCHANGED <<takeoverVars, proc, crashes, probe, daemon, statefile, marker, waiter,
                 world, ticks, latest>>

\* A mutant of answer_request(): a handover is taken whatever the answer was.
TakesRefused ==
  /\ Idle
  /\ conns # <<>>
  /\ conns' = Tail(conns)
  /\ \/ Head(conns) = "handover" /\ take_handover
     \/ Head(conns) \in SNAPSHOTS /\ state \in Watching /\ answer_network(Head(conns))
     \/ /\ \/ Head(conns) = "other"
           \/ Head(conns) \in SNAPSHOTS /\ state \notin Watching
        /\ UNCHANGED <<takeoverVars, daemon, files, frame, latest>>
  /\ UNCHANGED <<proc, crashes, probe, health, requests, ticks>>

on_connection ==
  /\ Idle
  /\ conns # <<>>
  /\ conns' = Tail(conns)
  /\ \/ Head(conns) = "handover" /\ answer_handover /\ take_handover
     \/ Head(conns) \in SNAPSHOTS /\ state \in Watching /\ answer_network(Head(conns))
     \/ /\ \/ Head(conns) = "other"
           \/ Head(conns) = "handover" /\ ~answer_handover
           \/ Head(conns) \in SNAPSHOTS /\ state \notin Watching
        /\ UNCHANGED <<takeoverVars, daemon, files, frame, latest>>
  /\ UNCHANGED <<proc, crashes, probe, health, requests, ticks>>
-----------------------------------------------------------------------------
(* The operations return to the process, if it still lives.                *)

\* With a dump configured the memory is left to reap; without one neither
\* preserve nor reap has anything to do.
OperationReturns ==
  /\ proc = "up"
  /\ UNCHANGED <<daemon, netfile>>
  /\ \E err \in Result :
       \/ FenceReturns(err)
       \/ \E taken \in SUBSET (IF dump THEN RESOURCES \ {"memory"} ELSE RESOURCES) :
            AdoptReturns(err, taken)
       \/ (~dump => err = "ok") /\ PreserveReturns(err)
       \/ (~dump => err = "ok") /\ ReapReturns(err) /\ (~dump => claimed' = claimed)
  /\ on_state
  /\ UNCHANGED <<proc, crashes, frame, probe, world, ticks, latest>>

CpuStops ==
  /\ \E c \in CPUS : StopCpu(c)
  /\ UNCHANGED <<proc, crashes, frame, probe, daemon, files, world, ticks, latest>>

PredecessorDies ==
  /\ health = "ok"
  /\ health' = "dead"
  /\ UNCHANGED <<takeoverVars, proc, crashes, frame, probe, daemon, files, conns, requests,
                 ticks, latest>>
-----------------------------------------------------------------------------
(* The life of the process.                                                *)

\* What a process leaves behind when it ends: files and the machine.
ProcessEnds ==
  /\ Restart
  /\ frame' = "loop" /\ probe' = "none" /\ conns' = <<>> /\ ticks' = 0
  /\ last_result' = "error" /\ handed_over' = FALSE /\ dump' = DUMP /\ network' = "none"
  /\ waiter' = IF waiter = "waiting" THEN "failed" ELSE waiter
  /\ UNCHANGED <<netfile, statefile, marker, health, requests, latest>>

\* SIGTERM or SIGINT reaches daemon_run(), which returns; nobody restarts it.
Terminate == /\ Idle
             /\ MAX_CRASHES > 0
             /\ proc' = "stopped"
             /\ ProcessEnds
             /\ UNCHANGED crashes

Crash == /\ proc = "up"
         /\ crashes < MAX_CRASHES
         /\ proc' = "crashed"
         /\ crashes' = crashes + 1
         /\ ProcessEnds

\* A mutant of load_network(): the image's identity is looked at first.
PrefersImage == IMAGE

\* load_network(): the first of the two files that can be read decides; a
\* truncated one parses as no interface at all.
load_network == CASE netfile = "absent" -> IMAGE
                  [] netfile = "torn" -> "none"
                  [] OTHER -> netfile

\* daemon_setup() and the start of daemon_run() in a restarted process.
Boot == /\ proc = "crashed"
        /\ proc' = "up"
        /\ network' = load_network
        /\ waiter' = "waiting"
        /\ UNCHANGED <<takeoverVars, crashes, frame, probe, last_result, handed_over, dump,
                       netfile, marker, world, ticks, latest>>
        /\ write_state_file

KmorphdInit ==
  /\ TakeoverInit
  /\ proc = "up" /\ crashes = 0 /\ frame = "loop" /\ probe = "none"
  /\ last_result = "error" /\ handed_over = FALSE /\ dump = DUMP
  /\ netfile = "absent" /\ network = IMAGE /\ latest = IMAGE
  /\ statefile = fill_status /\ marker = FALSE /\ waiter = "waiting"
  /\ health = "ok" /\ conns = <<>> /\ requests = 0 /\ ticks = 0

KmorphdNext ==
  \/ on_tick \/ probe_start \/ ProbeAnswered \/ on_probe_ready
  \/ \E err \in {"EHOSTDOWN", "EIO"} : probe_start_fails(err)
  \/ \E r \in Requests : Connect(r)
  \/ on_connection \/ file_write
  \/ OperationReturns \/ CpuStops
  \/ PredecessorDies
  \/ Terminate \/ Crash \/ Boot

KmorphdSpec == KmorphdInit /\ [][KmorphdNext]_kmorphdVars

\* The timer keeps expiring, a started operation or probe ends, the epoll loop
\* serves what is ready, a crashed process is restarted, and local failures to
\* start a probe do not go on for ever.
KmorphdFairness ==
  /\ WF_kmorphdVars(on_tick)
  /\ WF_kmorphdVars(probe_start \/ \E err \in {"EHOSTDOWN", "EIO"} : probe_start_fails(err))
  /\ SF_kmorphdVars(probe_start)
  /\ WF_kmorphdVars(ProbeAnswered)
  /\ WF_kmorphdVars(on_probe_ready)
  /\ WF_kmorphdVars(on_connection)
  /\ WF_kmorphdVars(file_write)
  /\ WF_kmorphdVars(OperationReturns)
  /\ WF_kmorphdVars(Boot)

-----------------------------------------------------------------------------
(* Properties.                                                             *)

\* Types of struct daemon, its files and the world around it.
KmorphdTypeOK ==
  /\ TakeoverTypeOK
  /\ proc \in {"up", "crashed", "stopped"}
  /\ crashes \in 0..MAX_CRASHES
  /\ frame \in {"loop", "tick", "net"}
  /\ probe \in {"none", "connecting"} \cup Errno
  /\ last_result \in ProbeResult
  /\ handed_over \in BOOLEAN /\ dump \in BOOLEAN /\ marker \in BOOLEAN
  /\ network \in Identities /\ latest \in Identities
  /\ netfile \in {"absent", "torn"} \cup Identities
  /\ statefile \in [state : TkState, predecessor : ProbeResult \cup {"handed-over"},
                    error : Result]
  /\ waiter \in {"waiting", "released", "failed"}
  /\ health \in {"ok", "dead"}
  /\ conns \in Seq(Requests) /\ Len(conns) <= BACKLOG
  /\ requests \in 0..MAX_REQUESTS
  /\ ticks \in 0..PROBE_TIMEOUTS

\* on_tick()/deliver_probe()/take_handover(): a fence has one of two reasons.
\* Either probe_timeouts ticks passed since the predecessor's last answer,
\* however the probes of these ticks failed, or the predecessor handed over
\* and its last answer is at most one tick old.
FenceHasReason ==
  state \notin Watching =>
    IF handed_over THEN ticks <= 1 ELSE ticks >= PROBE_TIMEOUTS

\* write_state_file(): whoever reads /run/kmorph/state between two events of a
\* living kmorphd finds its state and what it knows of the predecessor, though
\* most handlers do not write the file.
StateFileCurrent ==
  proc = "up" => /\ statefile.state = state
                 /\ statefile.predecessor = predecessor

\* on_state(): the marker's and the waiter's readers start the next user space
\* only on a machine whose CPUs are the successor's, whichever process of
\* kmorphd took over.
ReleasedOnOwnMachine ==
  marker \/ waiter = "released" => running = {} /\ "cpus" \in claimed

\* answer_network()/load_network(): an identity older than the last accepted
\* one is never used, restarts included.
NoStaleIdentity == network \in {"none", latest}

\* answer_network() "A restarted kmorphd picks the latest identity up from here".
IdentityKept == proc = "up" => network = latest

\* ops_adopt()/continue_takeover(): memory of a predecessor that did not hand
\* over joins the successor only in a reap that follows a successful dump.
MemoryDumpedFirst ==
  [][claimed' # claimed /\ "memory" \in claimed' \ claimed =>
       ~DUMP \/ handed_over \/ (op = "reap" /\ last_error = "ok")]_kmorphdVars

\* Probes, requests, restarts and files around it leave the state machine of
\* takeover.c as it is.
ImplementsTakeover == TakeoverSpec

\* daemon_run(): a crash of the predecessor is noticed, whatever requests and
\* restarts of kmorphd come in between, unless kmorphd is told to stop.
CrashDetected == health = "dead" ~> (state \notin Watching \/ proc = "stopped")
-----------------------------------------------------------------------------
(* What is inductive.                                                      *)

Pending == IF probe # "none" \/ frame = "tick" THEN 1 ELSE 0

\* Every tick starts at most one probe and every probe counts once, so silence
\* is never ahead of the ticks; an answer is at most one tick old.
TicksCounted ==
  /\ frame = "tick" => probe = "none"
  /\ state \in Watching => silent + Pending <= ticks /\ ~handed_over
  /\ state \in Watching /\ last_result = "alive" => ticks <= Pending

\* The identity in the file is the latest one, or the file is being written.
IdentityFollows ==
  /\ frame = "net" => proc = "up" /\ network = latest
  /\ netfile = "absent" => latest = IMAGE
  /\ netfile \in {"absent", "torn", latest}

\* Only an adoption that took the CPUs is followed by preserve and reap.
CpusTaken == op \in {"preserve", "reap"} \/ state = "TAKEN_OVER" => "cpus" \in claimed

DumpFollows == dump = (DUMP /\ ~handed_over)

KmorphdInv == /\ TakeoverInv /\ KmorphdTypeOK
              /\ TicksCounted /\ FenceHasReason
              /\ IdentityFollows /\ NoStaleIdentity
              /\ StateFileCurrent
              /\ CpusTaken /\ ReleasedOnOwnMachine
              /\ DumpFollows
=============================================================================
