------------------------------ MODULE Upgrade ------------------------------
(***************************************************************************)
(* kmorph upgrade (kmorph/upgrade.c, client.c) in the predecessor, against *)
(* the kmorphd of the successor it hands over to.  The command runs on the *)
(* CPUs the fence stops, so it only takes steps while one of them runs.    *)
(* Freezing is one step here; Freeze has its loops and failures.           *)
(***************************************************************************)
EXTENDS Kmorphd

VARIABLES upgrade,   \* where upgrade_run() stands
          reply,     \* what its handover connection received
          frozen     \* are the filesystems frozen

upgradeVars == <<upgrade, reply, frozen>>
composedVars == <<kmorphdVars, upgradeVars>>

Runs == health = "ok" /\ running # {}

UpgradeInit == /\ KmorphdInit
               /\ upgrade = "start"
               /\ reply = "none"
               /\ frozen = FALSE

\* watch_push(): the upgrade goes on whether the identity got through or not.
watch_push == /\ upgrade = "start"
              /\ upgrade' = "pushed"
              /\ \/ \E snap \in SNAPSHOTS : Connect(snap)
                 \/ Runs /\ UNCHANGED kmorphdVars
              /\ UNCHANGED <<reply, frozen>>

\* A mutant of upgrade_run(): the handover is asked for before the freeze.
FreezesLate == /\ Runs /\ upgrade = "pushed"
               /\ upgrade' = "frozen"
               /\ UNCHANGED <<kmorphdVars, reply, frozen>>

freeze_filesystems == /\ Runs /\ upgrade = "pushed"
                      /\ \/ upgrade' = "frozen" /\ frozen' = TRUE
                         \/ upgrade' = "failed" /\ UNCHANGED frozen
                      /\ UNCHANGED <<kmorphdVars, reply>>

\* client_request() connects and sends.
RequestHandover == /\ upgrade = "frozen"
                   /\ Connect("handover")
                   /\ upgrade' = "asked"
                   /\ UNCHANGED <<reply, frozen>>

\* The label thaw: the filesystems are thawed and the command fails.
Thaw == /\ upgrade' = "failed"
        /\ frozen' = FALSE
        /\ UNCHANGED <<kmorphdVars, reply>>

\* No connection, or no answer within REQUEST_TIMEOUT_MS; the connection may
\* still wait in kmorphd's queue.
RequestFails == Runs /\ upgrade \in {"frozen", "asked"} /\ reply = "none" /\ Thaw

ReplyRefused == Runs /\ upgrade = "asked" /\ reply = "refused" /\ Thaw

ReplyAccepted == /\ Runs /\ upgrade = "asked" /\ reply = "accepted"
                 /\ upgrade' = "sleep"
                 /\ UNCHANGED <<kmorphdVars, reply, frozen>>

\* sleep(FENCE_WAIT_S) is over; the fence call itself does not take that long.
NotFenced == Runs /\ upgrade = "sleep" /\ op # "fence" /\ Thaw

UpgradeStep == \/ watch_push \/ freeze_filesystems \/ RequestHandover
               \/ RequestFails \/ ReplyRefused \/ ReplyAccepted \/ NotFenced

\* kmorphd's step; an answer reaches the command while it waits for it.
KmorphdStep ==
  /\ \/ on_tick \/ probe_start \/ ProbeAnswered \/ on_probe_ready
     \/ \E err \in {"EHOSTDOWN", "EIO"} : probe_start_fails(err)
     \/ file_write \/ OperationReturns \/ CpuStops \/ PredecessorDies
     \/ Terminate \/ Crash \/ Boot
     \/ \E r \in Requests \ {"handover"} : Connect(r)
  /\ UNCHANGED upgradeVars

Answered ==
  /\ on_connection
  /\ reply' = IF Head(conns) = "handover" /\ upgrade = "asked"
                THEN IF answer_handover THEN "accepted" ELSE "refused"
                ELSE reply
  /\ UNCHANGED <<upgrade, frozen>>

UpgradeNext == UpgradeStep \/ KmorphdStep \/ Answered

UpgradeSpec == UpgradeInit /\ [][UpgradeNext]_composedVars
-----------------------------------------------------------------------------
(* Properties.                                                             *)

\* upgrade_run(): a CPU is stopped on behalf of a handover only while every
\* filesystem is frozen, unless the command has given up before.
StoppedWhileFrozen ==
  handed_over /\ running # CPUS => frozen \/ upgrade = "failed"

\* upgrade_run(): a command told that the successor refused never sees it
\* take over on its request.
RefusalIsFinal == reply = "refused" => ~handed_over

\* README "If no fence comes within ten seconds, the command thaws the
\* filesystems and fails, and the predecessor stays the machine's kernel": a
\* command that returned is not followed by the fence it asked for.
FailureIsFinal == [][handed_over' /\ ~handed_over => upgrade # "failed"]_composedVars
-----------------------------------------------------------------------------
(* What is inductive.                                                      *)

Asks(k) == k \in DOMAIN conns /\ conns[k] = "handover"

\* The one handover request is queued, then taken or refused, and it is made
\* and waited for under the freeze.
RequestFollows ==
  /\ upgrade \in {"start", "pushed", "frozen", "asked", "sleep", "failed"}
  /\ reply \in {"none", "accepted", "refused"}
  /\ upgrade \in {"frozen", "asked", "sleep"} => frozen = TRUE
  /\ \A k, m \in 1..BACKLOG : Asks(k) /\ Asks(m) => k = m
  /\ (\E k \in 1..BACKLOG : Asks(k)) \/ handed_over \/ reply # "none" =>
       upgrade \in {"asked", "sleep", "failed"}
  /\ handed_over \/ reply = "refused" => \A k \in 1..BACKLOG : ~Asks(k)

UpgradeInv == KmorphdInv /\ RequestFollows /\ RefusalIsFinal
=============================================================================
