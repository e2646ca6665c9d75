------------------------------ MODULE Supervisor ------------------------------
(***************************************************************************)
(* main.py: the Backend that spawns the Go backend, restarts it, relays    *)
(* calls to it, and runs its commands (reset) while it is stopped.         *)
(*                                                                         *)
(* main.py is one asyncio thread, so an action is what runs between two    *)
(* awaits: of Backend.run and what it calls, of a call, of stop, or of a   *)
(* restart.  The backend process moves on its own.  Timeouts may fire      *)
(* whenever what they bound hasn't happened.                               *)
(***************************************************************************)
EXTENDS Integers, FiniteSets

CONSTANTS
  Calls,       \* calls of the frontend
  CrashLimit,  \* CRASH_LIMIT
  Hands,       \* the handshakes a backend may send: "ok", "bad" (another protocol)
  Requests,    \* bound: what is asked for, of {"restart", "command", "stop", "call"}
  MaxRequests  \* bound: restarts and commands asked for

\* With one crash to give up on, a wake left over from the start could undo the giving up.
ASSUME LimitAssumption == CrashLimit \in Nat /\ CrashLimit >= 2
ASSUME BoundsAssumption == Hands \subseteq {"ok", "bad"} /\ MaxRequests \in Nat

VARIABLES
  loop,        \* where Backend.run stands
  state,       \* self.state
  ready,       \* self.ready
  wake,        \* self.wake
  crashes,     \* self.crashes, those within CRASH_WINDOW
  restartReq,  \* self.restart_requested
  stopping,    \* self.stopping
  command,     \* self.command is set
  proc,        \* self.proc is set
  os,          \* the process: none yet, up, its stdout closed, or dead
  hand,        \* the handshake read from it
  stdin,       \* its stdin is open
  calls,       \* where each call stands
  stop,        \* where stop stands
  asked,       \* auxiliary: a restart was asked for since the last spawn
  requests     \* restarts and commands asked for so far

process == <<proc, os, hand, stdin>>
vars == <<loop, state, ready, wake, crashes, restartReq, stopping, command, process, calls, stop,
          asked, requests>>

\* Where Backend.run waits:
\*   emit      for the "starting" event     command  for run_command
\*   spawn     for create_subprocess_exec   read     for a line of stdout
\*   eof       for the process to exit      drain    for the end of stderr
\*   downEmit  for the "down" event         down     in _wait_for_restart, down
\*   backEmit  for the "restarting" event   refused  in _wait_for_restart, refused
\*   backoff   for wake or the backoff      ended    not at all: it returned
Loop == {"emit", "command", "spawn", "read", "eof", "drain", "downEmit", "down", "refused",
         "backEmit", "backoff", "ended"}
State == {"starting", "ready", "restarting", "down", "refused", "stopped"}

\* Where a call stands: not made, waiting for ready, woken by it, or in self.pending.
CallState == {"idle", "waiting", "woken", "pending"}

-----------------------------------------------------------------------------
(* Backend.run. *)

\* The top of run's loop, and _run_once up to its first await.
GoOn == IF stopping
        THEN loop' = "ended" /\ UNCHANGED <<state, ready>>
        ELSE loop' = "emit" /\ state' = "starting" /\ ready' = FALSE

\* run after _run_once: it stops, restarts as asked, waits after a refusal, or counts a crash.
\* Crashes that fell out of CRASH_WINDOW no longer count.
Judge ==
  \/ /\ stopping
     /\ loop' = "ended"
     /\ UNCHANGED <<state, ready, wake, crashes, restartReq>>
  \/ /\ ~stopping /\ restartReq
     /\ restartReq' = FALSE /\ wake' = FALSE
     /\ GoOn
     /\ UNCHANGED crashes
  \/ /\ ~stopping /\ ~restartReq /\ state = "refused"
     /\ loop' = "refused"
     /\ UNCHANGED <<state, ready, wake, crashes, restartReq>>
  \/ /\ ~stopping /\ ~restartReq /\ state # "refused"
     /\ \E n \in 0 .. crashes :
          /\ crashes' = n + 1
          /\ IF n + 1 >= CrashLimit THEN loop' = "downEmit" /\ state' = "down"
                                    ELSE loop' = "backEmit" /\ state' = "restarting"
     /\ UNCHANGED <<ready, wake, restartReq>>

\* A command asked for is taken, and runs first.
Emitted ==
  /\ loop = "emit"
  /\ loop' = IF command THEN "command" ELSE "spawn"
  /\ command' = FALSE
  /\ UNCHANGED <<state, ready, wake, crashes, restartReq, stopping, process, calls, stop, asked, requests>>

\* run_command ends, failed or not.
CommandEnds ==
  /\ loop = "command"
  /\ loop' = "spawn"
  /\ UNCHANGED <<state, ready, wake, crashes, restartReq, stopping, command, process, calls, stop, asked, requests>>

\* The process is there.  A call the last handshake woke has run by then.
Spawned ==
  /\ loop = "spawn" /\ \A c \in Calls : calls[c] # "woken"
  /\ loop' = "read"
  /\ proc' = TRUE /\ os' = "up" /\ hand' = "none" /\ stdin' = TRUE
  /\ asked' = FALSE
  /\ UNCHANGED <<state, ready, wake, crashes, restartReq, stopping, command, calls, stop, requests>>

SpawnFails ==
  /\ loop = "spawn"
  /\ Judge
  /\ asked' = FALSE
  /\ UNCHANGED <<stopping, command, process, calls, stop, requests>>

\* _handshake: a backend of this protocol is ready, and waiting calls wake.
Welcome ==
  /\ loop = "read" /\ hand = "none" /\ os # "none" /\ "ok" \in Hands
  /\ hand' = "ok"
  /\ ready' = TRUE /\ state' = "ready"
  /\ calls' = [c \in Calls |-> IF calls[c] = "waiting" THEN "woken" ELSE calls[c]]
  /\ UNCHANGED <<loop, wake, crashes, restartReq, stopping, command, proc, os, stdin, stop, asked, requests>>

\* One of another protocol is refused, its stdin closed.
Refuse ==
  /\ loop = "read" /\ hand = "none" /\ os # "none" /\ "bad" \in Hands
  /\ hand' = "bad"
  /\ state' = "refused"
  /\ stdin' = FALSE
  /\ UNCHANGED <<loop, ready, wake, crashes, restartReq, stopping, command, proc, os, calls, stop, asked, requests>>

\* _expect_ready: no handshake in time.
HandshakeTimeout ==
  /\ loop \in {"read", "eof"} /\ ~ready /\ os # "dead"
  /\ os' = "dead"
  /\ UNCHANGED <<loop, state, ready, wake, crashes, restartReq, stopping, command, proc, hand, stdin, calls, stop, asked, requests>>

\* _read_stdout returns: the end of stdout, or a line too long, which kills the process.
ReadEnds ==
  /\ loop = "read"
  /\ loop' = "eof"
  /\ os' = IF os = "up" THEN "dead" ELSE os
  /\ UNCHANGED <<state, ready, wake, crashes, restartReq, stopping, command, proc, hand, stdin, calls, stop, asked, requests>>

\* The process exited.
Reaped ==
  /\ loop = "eof" /\ os = "dead"
  /\ loop' = "drain"
  /\ ready' = FALSE
  /\ UNCHANGED <<state, wake, crashes, restartReq, stopping, command, process, calls, stop, asked, requests>>

\* Variant: calls in flight aren't told.
DrainedQuietly ==
  /\ loop = "drain"
  /\ proc' = FALSE
  /\ Judge
  /\ UNCHANGED <<stopping, command, os, hand, stdin, calls, stop, asked, requests>>

\* Its stderr ended too: _fail_pending, and run judges how it went.
Drained ==
  /\ loop = "drain"
  /\ proc' = FALSE
  /\ calls' = [c \in Calls |-> IF calls[c] = "pending" THEN "idle" ELSE calls[c]]
  /\ Judge
  /\ UNCHANGED <<stopping, command, os, hand, stdin, stop, asked, requests>>

\* Variant: _wait_for_restart forgets a wake from before it waits.
GaveUpDeaf ==
  /\ loop = "downEmit"
  /\ loop' = "down"
  /\ wake' = FALSE
  /\ UNCHANGED <<state, ready, crashes, restartReq, stopping, command, process, calls, stop, asked, requests>>

\* run gave up, and said so.
GaveUp ==
  /\ loop = "downEmit"
  /\ loop' = "down"
  /\ UNCHANGED <<state, ready, wake, crashes, restartReq, stopping, command, process, calls, stop, asked, requests>>

\* _wait_for_restart ends.
Woken ==
  /\ loop \in {"down", "refused"} /\ wake
  /\ wake' = FALSE
  /\ crashes' = 0
  /\ GoOn
  /\ UNCHANGED <<restartReq, stopping, command, process, calls, stop, asked, requests>>

BackedOff ==
  /\ loop = "backEmit"
  /\ loop' = "backoff"
  /\ UNCHANGED <<state, ready, wake, crashes, restartReq, stopping, command, process, calls, stop, asked, requests>>

\* Variant: the wake that ended the backoff stays set.
RetryAwake ==
  /\ loop = "backoff"
  /\ GoOn
  /\ UNCHANGED <<wake, crashes, restartReq, stopping, command, process, calls, stop, asked, requests>>

\* The backoff ends, by itself or woken.
Retry ==
  /\ loop = "backoff"
  /\ wake' = FALSE
  /\ GoOn
  /\ UNCHANGED <<crashes, restartReq, stopping, command, process, calls, stop, asked, requests>>

-----------------------------------------------------------------------------
(* restart, run_stopped and stop. *)

\* restart runs to its end at once.
RestartEffect ==
  /\ crashes' = 0
  /\ asked' = TRUE
  /\ IF state \in {"down", "refused"}
     THEN state' = "starting" /\ wake' = TRUE /\ UNCHANGED <<restartReq, os>>
     ELSE IF proc
     THEN restartReq' = TRUE /\ os' = "dead" /\ UNCHANGED <<state, wake>>
     ELSE wake' = TRUE /\ UNCHANGED <<state, restartReq, os>>

Ask(what) == ~stopping /\ what \in Requests /\ requests < MaxRequests /\ requests' = requests + 1

Restart ==
  /\ Ask("restart")
  /\ RestartEffect
  /\ UNCHANGED <<loop, ready, stopping, command, proc, hand, stdin, calls, stop>>

\* run_stopped: one command at a time, and a restart for it.
RunStopped ==
  /\ Ask("command")
  /\ ~command
  /\ command' = TRUE
  /\ RestartEffect
  /\ UNCHANGED <<loop, ready, stopping, proc, hand, stdin, calls, stop>>

\* stop closes the backend's stdin and waits, if there is one.
Stop ==
  /\ "stop" \in Requests /\ ~stopping
  /\ stopping' = TRUE
  /\ wake' = TRUE
  /\ stdin' = (stdin /\ ~proc)
  /\ stop' = IF proc THEN "waiting" ELSE "done"
  /\ UNCHANGED <<loop, state, ready, crashes, restartReq, command, proc, os, hand, calls, asked, requests>>

\* The backend didn't exit in STOP_TIMEOUT.
StopKills ==
  /\ stop = "waiting" /\ os # "dead"
  /\ os' = "dead"
  /\ UNCHANGED <<loop, state, ready, wake, crashes, restartReq, stopping, command, proc, hand, stdin, calls, stop, asked, requests>>

\* The process stop waits for exited; run may have seen it first.
Stopped ==
  /\ stop = "waiting" /\ os = "dead"
  /\ stop' = "done"
  /\ state' = "stopped"
  /\ UNCHANGED <<loop, ready, wake, crashes, restartReq, stopping, command, process, calls, asked, requests>>

-----------------------------------------------------------------------------
(* Calls. *)

CallStarts(c) ==
  /\ "call" \in Requests /\ calls[c] = "idle"
  /\ state \notin {"down", "refused", "stopped"}
  /\ calls' = [calls EXCEPT ![c] = IF ready THEN "woken" ELSE "waiting"]
  /\ UNCHANGED <<loop, state, ready, wake, crashes, restartReq, stopping, command, process, stop, asked, requests>>

\* It is written to the backend, if there is one.
CallSent(c) ==
  /\ calls[c] = "woken"
  /\ calls' = [calls EXCEPT ![c] = IF proc THEN "pending" ELSE "idle"]
  /\ UNCHANGED <<loop, state, ready, wake, crashes, restartReq, stopping, command, process, stop, asked, requests>>

\* The backend answered, or its stdin is gone.
CallAnswered(c) ==
  /\ calls[c] = "pending" /\ (loop = "read" \/ os = "dead")
  /\ calls' = [calls EXCEPT ![c] = "idle"]
  /\ UNCHANGED <<loop, state, ready, wake, crashes, restartReq, stopping, command, process, stop, asked, requests>>

CallTimeout(c) ==
  /\ calls[c] \in {"waiting", "pending"}
  /\ calls' = [calls EXCEPT ![c] = "idle"]
  /\ UNCHANGED <<loop, state, ready, wake, crashes, restartReq, stopping, command, process, stop, asked, requests>>

-----------------------------------------------------------------------------
(* The backend process. *)

\* It exits, at once or after its stdout closed.
Exits ==
  /\ os \in {"up", "closing"}
  /\ os' = "dead"
  /\ UNCHANGED <<loop, state, ready, wake, crashes, restartReq, stopping, command, proc, hand, stdin, calls, stop, asked, requests>>

ClosesStdout ==
  /\ os = "up"
  /\ os' = "closing"
  /\ UNCHANGED <<loop, state, ready, wake, crashes, restartReq, stopping, command, proc, hand, stdin, calls, stop, asked, requests>>

-----------------------------------------------------------------------------
Init ==
  /\ loop = "emit" /\ state = "starting"
  /\ ready = FALSE /\ wake = FALSE /\ crashes = 0
  /\ restartReq = FALSE /\ stopping = FALSE /\ command = FALSE
  /\ proc = FALSE /\ os = "none" /\ hand = "none" /\ stdin = FALSE
  /\ calls = [c \in Calls |-> "idle"]
  /\ stop = "no" /\ asked = FALSE /\ requests = 0

RunStep ==
  \/ Emitted \/ CommandEnds \/ Spawned \/ SpawnFails \/ HandshakeTimeout
  \/ os \in {"closing", "dead"} /\ ReadEnds
  \/ Reaped \/ Drained \/ GaveUp \/ Woken \/ BackedOff \/ Retry

CallStep(c) == CallStarts(c) \/ CallSent(c) \/ CallAnswered(c) \/ CallTimeout(c)

Next ==
  \/ RunStep \/ Welcome \/ Refuse \/ ReadEnds
  \/ Restart \/ RunStopped \/ Stop \/ StopKills \/ Stopped
  \/ \E c \in Calls : CallStep(c)
  \/ Exits \/ ClosesStdout

Spec == Init /\ [][Next]_vars

\* main.py's tasks run on, timeouts included, and a backend that closed its stdout exits.  A healthy
\* one may run forever, and one whose stdin closed may hang.
Fairness ==
  /\ WF_vars(RunStep)
  /\ WF_vars(StopKills) /\ WF_vars(Stopped)
  /\ WF_vars(os = "closing" /\ Exits)
  /\ \A c \in Calls : WF_vars(CallSent(c))

FairSpec == Spec /\ Fairness

-----------------------------------------------------------------------------
(* Properties. *)

TypeOK ==
  /\ loop \in Loop /\ state \in State
  /\ ready \in BOOLEAN /\ wake \in BOOLEAN
  /\ ready => loop \in {"read", "eof"}
  /\ crashes \in 0 .. CrashLimit
  /\ restartReq \in BOOLEAN /\ stopping \in BOOLEAN /\ command \in BOOLEAN
  /\ proc \in BOOLEAN /\ os \in {"none", "up", "closing", "dead"}
  /\ hand \in {"none", "ok", "bad"} /\ stdin \in BOOLEAN
  /\ calls \in [Calls -> CallState]
  /\ stop \in {"no", "waiting", "done"}
  /\ asked \in BOOLEAN /\ requests \in Nat

\* docs/adr/0001: "when the binary exits, every in-flight call fails".  No call stays pending once
\* the process it was written to is gone, even one written while the process was dying.
PendingServed == \A c \in Calls : calls[c] = "pending" => proc

\* "refuses a binary whose protocol version differs": no call is ever written to one, whatever
\* woke it, and whatever restart a user asked for meanwhile.
RefusedServesNone == hand = "bad" /\ proc => \A c \in Calls : calls[c] \notin {"woken", "pending"}

\* run_command: "The backend must be stopped: the command deletes files it keeps open."
CommandAlone == loop = "command" => os \notin {"up", "closing"}

\* Once run gave up on a backend that keeps crashing, only a restart asked for after that, or the
\* plugin's stop, starts it again: no wake left over from before does.
GivesUp == [][loop = "down" /\ loop' # "down" => asked \/ stopping]_vars

\* restart's comment: "User-requested restart: never counted as a crash".
RestartUncounted == [][loop = "drain" /\ asked /\ ~stopping => crashes' = 0]_vars

\* run_stopped: it "stops the backend, runs its command, and starts it again".
CommandRuns == command ~> ~command
=============================================================================
