----------------------------- MODULE Heartbeat -----------------------------
(***************************************************************************)
(* The heartbeat of one connection in time: the ping interval, last_alive   *)
(* and the two places where handle_ws_connection (src/network.rs) waits for *)
(* the socket inside an arm of select!, deaf to everything else.            *)
(*                                                                         *)
(* Time is discrete.  It passes only when the task has nothing to do, that  *)
(* is, when it waits for the clock, for its client or for a stalled socket; *)
(* a client that is up answers a ping before the next instant.              *)
(***************************************************************************)
EXTENDS Naturals

CONSTANTS PingInterval,   \* PING_INTERVAL, 10 s
          PongTimeout,    \* PONG_TIMEOUT, 30 s
          MaxSilence,     \* bound: longer silences and waits are not told apart
          MaxDue          \* bound: more missed deadlines are not told apart

\* A ping is sent before the timeout; the bounds lie past the moments at
\* which the loop looks at what they count.
ASSUME IntervalsAssumption ==
  /\ PingInterval \in Nat \ {0} /\ PongTimeout \in Nat /\ PingInterval < PongTimeout
  /\ MaxSilence \in Nat /\ MaxSilence > PongTimeout + PingInterval
  /\ MaxDue \in Nat \ {0}

VARIABLES task,        \* in select!, inside one of its arms, or closed
          silence,     \* last_alive.elapsed()
          phase,       \* time to the next deadline of ping_tick
          due,         \* deadlines passed and not yet delivered (Burst)
          client,      \* "up", or "dead" without a word
          wire,        \* a "ping" to be answered, a "frame" to be read
          socket,      \* it is "taking" data, or "stalled"
          held,        \* how long the socket has held the task up since select!
                       \* last had nothing to do
          why          \* why the loop was left

taskVars == <<task, silence, due, why>>
clientVars == <<client, wire>>
timeVars == <<phase, held>>
vars == <<taskVars, timeVars, clientVars, socket>>

Init ==
  /\ task = "select"
  /\ silence = 0
  /\ phase = PingInterval   \* ping_tick.reset(): no immediate ping
  /\ due = 0
  /\ client = "up"
  /\ wire = {}
  /\ socket = "taking"
  /\ held = 0
  /\ why = "open"

\* Mutant: last_alive is not updated.
ReadFrameForgets ==
  /\ task = "select"
  /\ "frame" \in wire
  /\ wire' = wire \ {"frame"}
  /\ UNCHANGED <<taskVars, timeVars, client, socket>>

\* The incoming arm: any frame is a sign of life.
ReadFrame ==
  /\ task = "select"
  /\ "frame" \in wire
  /\ wire' = wire \ {"frame"}
  /\ silence' = 0
  /\ UNCHANGED <<task, due, why, timeVars, client, socket>>

\* The outbound arm: the router has queued something.
SendBegin ==
  /\ task = "select"
  /\ task' = "sending"
  /\ UNCHANGED <<silence, due, why, timeVars, clientVars, socket>>

SendEnd ==
  /\ task = "sending"
  /\ socket # "stalled"
  /\ task' = "select"
  /\ UNCHANGED <<silence, due, why, timeVars, clientVars, socket>>

TickFires ==
  /\ task = "select"
  /\ due > 0
  /\ due' = due - 1
  /\ task' = "pinging"
  /\ UNCHANGED <<silence, why, timeVars, clientVars, socket>>

\* Mutant: last_alive is not looked at.
PingSentUnchecked ==
  /\ task = "pinging"
  /\ socket # "stalled"
  /\ wire' = wire \cup (IF client = "up" THEN {"ping"} ELSE {})
  /\ task' = "select"
  /\ UNCHANGED <<silence, due, why, timeVars, client, socket>>

\* The ping is out; only now is last_alive looked at.
PingSent ==
  /\ task = "pinging"
  /\ socket # "stalled"
  /\ wire' = wire \cup (IF client = "up" THEN {"ping"} ELSE {})
  /\ IF silence > PongTimeout
     THEN task' = "closed" /\ why' = "timeout"
     ELSE task' = "select" /\ UNCHANGED why
  /\ UNCHANGED <<silence, due, timeVars, client, socket>>

\* ws_sender.send returns Err: TCP gave the connection up.
SendFails ==
  /\ task \in {"sending", "pinging"}
  /\ socket = "stalled"
  /\ task' = "closed"
  /\ why' = "send error"
  /\ UNCHANGED <<silence, due, timeVars, clientVars, socket>>

\* The client ends the connection: a close frame, or a reset by its system.
ClientCloses ==
  /\ task = "select"
  /\ task' = "closed"
  /\ why' = "closed by client"
  /\ UNCHANGED <<silence, due, timeVars, clientVars, socket>>

-----------------------------------------------------------------------------
(* The client and the network.                                              *)

Pong ==
  /\ "ping" \in wire
  /\ wire' = {"frame"}
  /\ UNCHANGED <<taskVars, timeVars, client, socket>>

ClientSpeaks ==
  /\ client = "up"
  /\ wire' = wire \cup {"frame"}
  /\ UNCHANGED <<taskVars, timeVars, client, socket>>

ClientDies ==
  /\ client = "up"
  /\ client' = "dead"
  /\ wire' = wire \ {"ping"}
  /\ UNCHANGED <<taskVars, timeVars, socket>>

Stall ==
  /\ socket # "stalled"
  /\ socket' = "stalled"
  /\ UNCHANGED <<taskVars, timeVars, clientVars>>

\* Only a client that is up makes room again.
Drain ==
  /\ socket = "stalled"
  /\ client = "up"
  /\ socket' = "taking"
  /\ UNCHANGED <<taskVars, timeVars, clientVars>>

-----------------------------------------------------------------------------

\* The task waits: for time, for the client, or for a stalled socket.
TaskWaits ==
  \/ task = "select" /\ due = 0 /\ "frame" \notin wire
  \/ task \in {"sending", "pinging"} /\ socket = "stalled"

CapAt(n, bound) == IF n > bound THEN bound ELSE n

\* What the socket has held up is over when select! waits again.
HeldOn == IF task = "select" THEN 0 ELSE CapAt(held + 1, MaxSilence)

\* Mutant: the deadline is not set again.
ElapseNoReset ==
  /\ TaskWaits
  /\ "ping" \notin wire
  /\ silence' = CapAt(silence + 1, MaxSilence)
  /\ phase' = phase - 1
  /\ due' = IF phase = 1 THEN CapAt(due + 1, MaxDue) ELSE due
  /\ held' = HeldOn
  /\ UNCHANGED <<task, why, clientVars, socket>>

Elapse ==
  /\ TaskWaits
  /\ "ping" \notin wire
  /\ silence' = CapAt(silence + 1, MaxSilence)
  /\ IF phase = 1
     THEN phase' = PingInterval /\ due' = CapAt(due + 1, MaxDue)
     ELSE phase' = phase - 1 /\ UNCHANGED due
  /\ held' = HeldOn
  /\ UNCHANGED <<task, why, clientVars, socket>>

Next ==
  \/ ReadFrame \/ SendBegin \/ SendEnd \/ SendFails \/ TickFires \/ PingSent \/ ClientCloses
  \/ Pong \/ ClientSpeaks \/ ClientDies \/ Stall \/ Drain \/ Elapse

Spec == Init /\ [][Next]_vars

\* Time passes; select! polls its arms in random order, so the tick that is
\* due is taken in the end; a stalled socket is drained by its client, or
\* TCP gives the connection up.
FairSpec ==
  /\ Spec
  /\ SF_vars(Elapse) /\ SF_vars(TickFires) /\ WF_vars(Drain) /\ WF_vars(SendFails)
  /\ SF_vars(SendEnd) /\ SF_vars(PingSent) /\ SF_vars(ReadFrame)

-----------------------------------------------------------------------------
(* Properties.                                                              *)

TypeOK ==
  /\ task \in {"select", "sending", "pinging", "closed"}
  /\ silence \in 0 .. MaxSilence
  /\ phase \in 1 .. PingInterval
  /\ due \in 0 .. MaxDue
  /\ client \in {"up", "dead"}
  /\ wire \subseteq {"ping", "frame"}
  /\ socket \in {"taking", "stalled"}
  /\ held \in 0 .. MaxSilence
  /\ why \in {"open", "timeout", "send error", "closed by client"}

\* A dead client is disconnected one ping interval after the timeout at the
\* latest, wherever in the interval it died, but for the time for which its
\* socket holds the task up in the middle of a send.
ClosedOneIntervalLate ==
  task # "closed" => silence <= PongTimeout + PingInterval + held

\* A client that answers its pings is not timed out by the ticks that are
\* overdue after a stall and compete with its unread frames, unless the stall
\* took longer than the timeout less one interval.
OnlyTheDeadTimeOut ==
  why = "timeout" => client = "dead" \/ held > PongTimeout - PingInterval

\* A dead client is disconnected in the end, also when its socket stalls in
\* the middle of a send and missed ticks pile up: by the timeout or by the
\* error of the send, which is the only way out of an arm that waits.
DeadClientCloses == client = "dead" ~> task = "closed"
=============================================================================
