-------------------------- MODULE HeartbeatProofs --------------------------
(***************************************************************************)
(* How late a dead client is noticed, and that a live one is not timed out, *)
(* for every ping interval and every longer timeout.                        *)
(***************************************************************************)
EXTENDS Heartbeat, TLAPS

\* The loop is left for a reason.
Reasons == task = "closed" <=> why # "open"

\* A tick is due, or taken and its ping not yet sent.
TickOpen == due > 0 \/ task = "pinging"

\* At the last ping the silence was within the timeout, or the loop was left;
\* what has been added since is the interval and the time held by the socket.
SilenceBound ==
  task # "closed" =>
    /\ silence <= PongTimeout + PingInterval + held
    /\ ~TickOpen => silence <= PongTimeout + PingInterval - phase

\* A client that is up has been heard since the last ping, or what it said is
\* read before select! has nothing to do.
LiveBound ==
  task # "closed" /\ client = "up" =>
    /\ silence <= PingInterval + held
    /\ ~TickOpen /\ wire = {} => silence <= PingInterval - phase

\* The inductive invariant.
HInv == TypeOK /\ Reasons /\ SilenceBound /\ LiveBound /\ OnlyTheDeadTimeOut

\* The assumption, in the form that arithmetic uses.
LEMMA Intervals ==
  /\ PingInterval \in Nat /\ PongTimeout \in Nat /\ MaxSilence \in Nat /\ MaxDue \in Nat
  /\ 0 < PingInterval /\ PingInterval < PongTimeout
  /\ PongTimeout + PingInterval < MaxSilence /\ 0 < MaxDue
BY IntervalsAssumption DEF IntervalsAssumption

USE Intervals

\* The loop starts a full interval before its first ping.
LEMMA InitHInv == Init => HInv
BY DEF Init, HInv, TypeOK, Reasons, TickOpen, SilenceBound, LiveBound,
       OnlyTheDeadTimeOut

\* The arms that do not look at the clock keep the invariant.
LEMMA ArmsKeep ==
  ASSUME HInv, ReadFrame \/ SendBegin \/ SendEnd \/ SendFails \/ ClientCloses
  PROVE  HInv'
<1> USE DEF HInv, TypeOK, Reasons, TickOpen, SilenceBound, LiveBound,
            OnlyTheDeadTimeOut, clientVars, timeVars
<1>1. CASE ReadFrame
  BY <1>1 DEF ReadFrame
<1>2. CASE SendBegin
  BY <1>2 DEF SendBegin
<1>3. CASE SendEnd
  BY <1>3 DEF SendEnd
<1>4. CASE SendFails
  BY <1>4 DEF SendFails
<1>5. CASE ClientCloses
  BY <1>5 DEF ClientCloses
<1>6. QED
  BY <1>1, <1>2, <1>3, <1>4, <1>5

\* The ping arm keeps the invariant: it leaves the loop when the silence is
\* longer than the timeout.
LEMMA PingKeeps ==
  ASSUME HInv, TickFires \/ PingSent
  PROVE  HInv'
<1> USE DEF HInv, TypeOK, Reasons, TickOpen, SilenceBound, LiveBound,
            OnlyTheDeadTimeOut, clientVars, timeVars
<1>1. CASE TickFires
  BY <1>1 DEF TickFires
<1>2. CASE PingSent
  <2>1. CASE silence > PongTimeout
    BY <1>2, <2>1 DEF PingSent
  <2>2. CASE ~(silence > PongTimeout)
    BY <1>2, <2>2 DEF PingSent
  <2>3. QED
    BY <2>1, <2>2
<1>3. QED
  BY <1>1, <1>2

\* What the client and the network do keeps the invariant.
LEMMA OutsideKeeps ==
  ASSUME HInv, Pong \/ ClientSpeaks \/ ClientDies \/ Stall \/ Drain
  PROVE  HInv'
<1> USE DEF HInv, TypeOK, Reasons, TickOpen, SilenceBound, LiveBound,
            OnlyTheDeadTimeOut, clientVars, taskVars, timeVars
<1>1. CASE Pong
  BY <1>1 DEF Pong
<1>2. CASE ClientSpeaks
  BY <1>2 DEF ClientSpeaks
<1>3. CASE ClientDies
  BY <1>3 DEF ClientDies
<1>4. CASE Stall
  BY <1>4 DEF Stall
<1>5. CASE Drain
  BY <1>5 DEF Drain
<1>6. QED
  BY <1>1, <1>2, <1>3, <1>4, <1>5

\* The ranges of TypeOK, in the form that arithmetic uses.
LEMMA Ranges ==
  ASSUME HInv
  PROVE  /\ silence \in Nat /\ silence <= MaxSilence
         /\ phase \in Nat /\ 1 <= phase /\ phase <= PingInterval
         /\ due \in Nat /\ due <= MaxDue
         /\ held \in Nat /\ held <= MaxSilence
<1>1. /\ silence \in 0 .. MaxSilence /\ phase \in 1 .. PingInterval
      /\ due \in 0 .. MaxDue /\ held \in 0 .. MaxSilence
  BY Zenon DEF HInv, TypeOK
<1>2. QED
  BY <1>1

\* The passing of time keeps the invariant.
LEMMA ElapseKeeps ==
  ASSUME HInv, Elapse
  PROVE  HInv'
<1>1. /\ silence \in Nat /\ silence <= MaxSilence
      /\ phase \in Nat /\ 1 <= phase /\ phase <= PingInterval
      /\ due \in Nat /\ due <= MaxDue
      /\ held \in Nat /\ held <= MaxSilence
  BY Ranges
<1>2. /\ silence' = CapAt(silence + 1, MaxSilence)
      /\ phase = 1 => phase' = PingInterval /\ due' = CapAt(due + 1, MaxDue)
      /\ phase # 1 => phase' = phase - 1 /\ due' = due
      /\ held' = HeldOn
      /\ UNCHANGED <<task, why, client, wire, socket>>
  BY DEF Elapse, clientVars
<1>3. TypeOK'
  <2>1. /\ silence' \in 0 .. MaxSilence /\ phase' \in 1 .. PingInterval
        /\ due' \in 0 .. MaxDue /\ held' \in 0 .. MaxSilence
    BY <1>1, <1>2 DEF CapAt, HeldOn
  <2>2. QED
    BY <1>2, <2>1 DEF HInv, TypeOK
<1>4. task # "closed"
  BY DEF Elapse, TaskWaits
<1>5. Reasons' /\ OnlyTheDeadTimeOut'
  BY <1>2, <1>4 DEF HInv, Reasons, OnlyTheDeadTimeOut
<1>6. silence' <= silence + 1
  BY <1>1, <1>2 DEF CapAt
<1>7. ~TickOpen' => ~TickOpen /\ phase' = phase - 1
  BY <1>1, <1>2 DEF TickOpen, CapAt
<1>8. SilenceBound /\ LiveBound /\ wire \subseteq {"ping", "frame"}
  BY DEF HInv, TypeOK
<1>9. /\ silence' \in Nat /\ held' \in Nat /\ phase' \in Nat
      /\ silence' <= MaxSilence /\ phase' <= PingInterval
  BY <1>1, <1>2 DEF CapAt, HeldOn
<1>10. ASSUME task = "select" PROVE SilenceBound' /\ LiveBound'
  <2>1. due = 0 /\ "ping" \notin wire /\ "frame" \notin wire
    BY <1>10 DEF Elapse, TaskWaits
  <2>2. ~TickOpen /\ wire = {} /\ held' = 0
    BY <1>1, <1>2, <1>8, <1>10, <2>1 DEF TickOpen, HeldOn
  <2>3. silence <= PongTimeout + PingInterval - phase
    BY <1>4, <1>8, <2>2 DEF SilenceBound
  <2>4. client = "up" => silence <= PingInterval - phase
    BY <1>4, <1>8, <2>2 DEF LiveBound
  <2>5. SilenceBound'
    BY <1>1, <1>2, <1>6, <1>7, <1>9, <2>2, <2>3 DEF SilenceBound
  <2>6. LiveBound'
    BY <1>1, <1>2, <1>6, <1>7, <1>9, <2>2, <2>4 DEF LiveBound
  <2>7. QED
    BY <2>5, <2>6
<1>11. ASSUME task # "select" PROVE SilenceBound' /\ LiveBound'
  <2>1. held' = held + 1 \/ held' = MaxSilence
    BY <1>1, <1>2, <1>11 DEF HeldOn, CapAt
  <2>2. SilenceBound'
    BY <1>1, <1>2, <1>4, <1>6, <1>7, <1>8, <1>9, <2>1 DEF SilenceBound
  <2>3. LiveBound'
    BY <1>1, <1>2, <1>4, <1>6, <1>7, <1>8, <1>9, <2>1 DEF LiveBound
  <2>4. QED
    BY <2>2, <2>3
<1>12. QED
  BY <1>3, <1>5, <1>10, <1>11 DEF HInv

\* Every step keeps the invariant.
LEMMA NextHInv == HInv /\ [Next]_vars => HInv'
<1> SUFFICES ASSUME HInv, [Next]_vars PROVE HInv'
  OBVIOUS
<1>1. CASE UNCHANGED vars
  BY <1>1 DEF vars, taskVars, clientVars, timeVars, HInv, TypeOK, Reasons, TickOpen,
              SilenceBound, LiveBound, OnlyTheDeadTimeOut
<1>2. QED
  BY <1>1, ArmsKeep, PingKeeps, OutsideKeeps, ElapseKeeps DEF Next

\* For every interval and every longer timeout: a connection is silent for no
\* more than the timeout, one interval and the time its socket held the task
\* up, and the timeout hits no client that answers unless a stall was long.
THEOREM HeartbeatSafety == Spec => [](TypeOK /\ ClosedOneIntervalLate /\ OnlyTheDeadTimeOut)
<1>1. HInv => ClosedOneIntervalLate
  BY DEF HInv, SilenceBound, ClosedOneIntervalLate
<1>2. QED
  BY <1>1, InitHInv, NextHInv, PTL DEF Spec, HInv
=============================================================================
