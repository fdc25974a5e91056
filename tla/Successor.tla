----------------------------- MODULE Successor -----------------------------
(***************************************************************************)
(* The life of the successor's user space around the takeover: kmorphd     *)
(* boots (Standby), reads the identity it finds there, puts it back after  *)
(* the devices are adopted (Netsnap), and keeps a login program on the     *)
(* serial line (kmorphd/console.c).                                        *)
(***************************************************************************)
EXTENDS Netsnap, Standby

VARIABLE login   \* the console's supervisor and its child

successorVars == <<netVars, standbyVars, login>>

SuccessorInit == NetInit /\ StandbyInit /\ login = "off"

Arm == /\ pc = "mkdirfs" /\ n = 1
       /\ Forward
       /\ text' = Malformed <=> Forwarded \notin DOMAIN files
       /\ UNCHANGED <<standbyVars, login>>

\* Failures at boot and later ones share one bound.
BootStep == /\ at = "sent" /\ StandbyStep
            /\ errors' = Len(failed')
            /\ UNCHANGED <<network, clock, text, snap, devs, i, j, at, sock, restored, login>>

\* load_network() on the file Standby found: the copy, what a failed copy left
\* of it, or none of this predecessor's.
LoadIdentity ==
  /\ pc = "running"
  /\ CASE identity = "armed" -> Load(text)
       [] identity = "torn" /\ text # Malformed ->
            \E k \in 0..Len(text) : Load(SubSeq(text, 1, k)) \/ Load(Malformed)
       [] OTHER -> Load(<<>>)
  /\ UNCHANGED <<standbyVars, login>>

RestoreStep == /\ ApplyStep \/ Tick \/ \E p \in Nics : DriverCreates(p)
               /\ at \notin {"armed", "done"} /\ pc = "running"
               /\ UNCHANGED <<standbyVars, login>>

\* console_start(), called by on_state() once the takeover is done.
ConsoleStart == /\ at = "done" /\ login = "off"
                /\ login' \in {"fork", "ended"}
                /\ UNCHANGED <<netVars, standbyVars>>


\* supervise(): the child runs the login program, cannot open the line, or the
\* program cannot be executed (127) or forked, which ends the supervisor.
LoginStarts == /\ login = "fork"
               /\ login' \in {"running", "dead", "ended"}
               /\ UNCHANGED <<netVars, standbyVars>>

LoginExits == /\ login = "running"
              /\ login' \in {"dead", "ended"}
              /\ UNCHANGED <<netVars, standbyVars>>

\* After a second the login program is started again.
LoginAgain == /\ login = "dead"
              /\ login' = "fork"
              /\ UNCHANGED <<netVars, standbyVars>>

SuccessorNext == \/ Arm \/ BootStep \/ LoadIdentity \/ RestoreStep
                 \/ ConsoleStart \/ LoginStarts \/ LoginExits \/ LoginAgain

\* kmorphd and the supervisor run; a line tried again and again opens.
SuccessorSpec ==
  /\ SuccessorInit /\ [][SuccessorNext]_successorVars
  /\ WF_successorVars(RestoreStep /\ ApplyStep)
  /\ WF_successorVars(LoginStarts) /\ WF_successorVars(LoginAgain)
  /\ SF_successorVars(LoginStarts /\ login' # "dead")
-----------------------------------------------------------------------------
(* Properties.                                                             *)

=============================================================================
