-------------------------- MODULE LifecycleProofs --------------------------
(***************************************************************************)
(* The safety of Lifecycle for any number of gateway processes.             *)
(***************************************************************************)
EXTENDS Lifecycle, TLAPS

\* A task exists only once main has spawned it, and while the process lives the two
\* other ports are its own exactly when the task has bound them.
TasksMatchPorts ==
  \A p \in Procs :
    /\ main[p] \in {"new", "starting", "metrics"} => udp[p] = "none"
    /\ main[p] \in {"new", "starting", "metrics", "udp"} => ws[p] = "none"
    /\ Alive(p) => (udp[p] = "bound" <=> owner["udp"] = p) /\ (ws[p] = "bound" <=> owner["ws"] = p)

\* The inductive invariant.
LInv == TypeOK /\ TasksMatchPorts

USE DEF Ports, Signals, Serving, MainStages, TaskStages, Alive

\* Before the first launch no port belongs to a gateway.
LEMMA InitLInv == Init => LInv
BY OwnersAssumption DEF Init, LInv, TypeOK, TasksMatchPorts

\* A process that goes takes nothing from the others.
LEMMA GoneKeeps ==
  ASSUME NEW p \in Procs, LInv, Alive(p), Gone(p)
  PROVE  LInv'
BY DEF Gone, LInv, TypeOK, TasksMatchPorts

\* A socket of a process that has ended is nobody else's.
LEMMA CloseKeeps ==
  ASSUME NEW p \in Procs, NEW x \in Ports, LInv, Close(p, x)
  PROVE  LInv'
<1> USE OwnersAssumption DEF Close, LInv
<1>1. TypeOK'
  BY DEF TypeOK
<1>2. TasksMatchPorts'
  BY DEF TypeOK, TasksMatchPorts
<1>3. QED
  BY <1>1, <1>2

\* The steps of the main task keep the invariant.
LEMMA MainKeeps ==
  ASSUME NEW p \in Procs, LInv, Launch(p) \/ MainStep(p)
  PROVE  LInv'
<1> USE OwnersAssumption DEF LInv, Advance
<1>1. CASE Launch(p)
  BY <1>1 DEF Launch, TypeOK, TasksMatchPorts
<1>2. CASE InitMetrics(p) /\ owner["metrics"] = Nobody
  <2>1. TypeOK'
    BY <1>2 DEF InitMetrics, TypeOK
  <2>2. TasksMatchPorts'
    BY <1>2 DEF InitMetrics, TypeOK, TasksMatchPorts
  <2>3. QED
    BY <2>1, <2>2
<1>3. CASE InitMetrics(p) /\ owner["metrics"] # Nobody
  BY <1>3, GoneKeeps DEF InitMetrics
<1>4. CASE SpawnUdp(p)
  BY <1>4 DEF SpawnUdp, TypeOK, TasksMatchPorts
<1>5. CASE SpawnWs(p)
  BY <1>5 DEF SpawnWs, TypeOK, TasksMatchPorts
<1>6. CASE InstallHandlers(p) \/ AbortUdp(p) \/ AbortWs(p)
  BY <1>6 DEF InstallHandlers, AbortUdp, AbortWs, TypeOK, TasksMatchPorts
<1>7. CASE Exit(p)
  BY <1>7, GoneKeeps DEF Exit
<1>8. QED
  BY <1>1, <1>2, <1>3, <1>4, <1>5, <1>6, <1>7 DEF MainStep

\* The steps of the spawned tasks keep the invariant.
LEMMA TaskKeeps ==
  ASSUME NEW p \in Procs, LInv, TaskStep(p)
  PROVE  LInv'
<1> USE OwnersAssumption DEF LInv
<1>1. CASE RunUdp(p)
  <2>1. main[p] \in Serving
    BY <1>1 DEF RunUdp, TypeOK, TasksMatchPorts
  <2>2. TypeOK'
    BY <1>1, <2>1 DEF RunUdp, TypeOK
  <2>3. TasksMatchPorts'
    BY <1>1, <2>1 DEF RunUdp, TypeOK, TasksMatchPorts
  <2>4. QED
    BY <2>2, <2>3
<1>2. CASE RunWs(p)
  <2>1. main[p] \in Serving
    BY <1>2 DEF RunWs, TypeOK, TasksMatchPorts
  <2>2. TypeOK'
    BY <1>2, <2>1 DEF RunWs, TypeOK
  <2>3. TasksMatchPorts'
    BY <1>2, <2>1 DEF RunWs, TypeOK, TasksMatchPorts
  <2>4. QED
    BY <2>2, <2>3
<1>3. CASE CancelUdp(p)
  BY <1>3 DEF CancelUdp, TypeOK, TasksMatchPorts
<1>4. CASE CancelWs(p)
  <2>1. TypeOK'
    BY <1>4 DEF CancelWs, TypeOK
  <2>2. TasksMatchPorts'
    BY <1>4 DEF CancelWs, TypeOK, TasksMatchPorts
  <2>3. QED
    BY <2>1, <2>2
<1>5. QED
  BY <1>1, <1>2, <1>3, <1>4 DEF TaskStep

\* Every step keeps the invariant.
LEMMA NextLInv == LInv /\ [Next]_vars => LInv'
<1> SUFFICES ASSUME LInv, [Next]_vars PROVE LInv'
  OBVIOUS
<1>1. ASSUME NEW p \in Procs, NEW s \in Signals, Signal(p, s)
      PROVE  LInv'
  <2>1. CASE Gone(p)
    BY <1>1, <2>1, GoneKeeps DEF Signal
  <2>2. CASE ~Gone(p)
    BY <1>1, <2>2 DEF Signal, LInv, TypeOK, TasksMatchPorts
  <2>3. QED
    BY <2>1, <2>2
<1>2. ASSUME NEW p \in Procs, Crash(p)
      PROVE  LInv'
  BY <1>2, GoneKeeps DEF Crash
<1>3. CASE UNCHANGED vars
  BY <1>3 DEF vars, LInv, TypeOK, TasksMatchPorts
<1>4. QED
  BY <1>1, <1>2, <1>3, MainKeeps, TaskKeeps, CloseKeeps DEF Next

-----------------------------------------------------------------------------

\* A bind can fail for a port that a foreign program has, or a process that has ended.
Taken(x) == owner[x] = Other \/ \E q \in Procs : owner[x] = q /\ main[q] = "exited"

\* Two processes are never past init_metrics together, so a port that a task
\* finds taken is not that of a gateway that runs.
LEMMA TakenByNoRunning ==
  ASSUME NEW p \in Procs, LInv, main[p] \in Serving, NEW x \in {"udp", "ws"},
         owner[x] # p, owner[x] # Nobody
  PROVE  Taken(x)
BY OwnersAssumption DEF LInv, TypeOK, Taken

\* No step of one process makes a task of another panic, and RunUdp does so
\* only when the port is taken.
LEMMA UdpPanics ==
  ASSUME NEW p \in Procs, LInv, [Next]_vars, udp[p] # "panicked", udp'[p] = "panicked"
  PROVE  Taken("udp")
<1>1. RunUdp(p)
  <2>1. udp' # udp
    OBVIOUS
  <2>2. PICK q \in Procs : SpawnUdp(q) \/ RunUdp(q) \/ CancelUdp(q)
    BY <2>1 DEF Next, vars, MainStep, TaskStep, Launch, InitMetrics, SpawnWs, InstallHandlers, AbortUdp,
                AbortWs, Exit, Gone, RunWs, CancelWs, Signal, Crash, Close
  <2>3. udp[q] # "panicked" /\ udp'[q] = "panicked" /\ RunUdp(q) /\ q = p
    BY <2>2 DEF SpawnUdp, RunUdp, CancelUdp, LInv, TypeOK
  <2>4. QED
    BY <2>3
<1>2. main[p] \in Serving
  BY <1>1 DEF RunUdp, LInv, TypeOK, TasksMatchPorts
<1>3. owner["udp"] # p /\ owner["udp"] # Nobody
  BY <1>1 DEF RunUdp, LInv, TypeOK, TasksMatchPorts
<1>4. QED
  BY <1>2, <1>3, TakenByNoRunning

\* The same for the task of run_ws.
LEMMA WsPanics ==
  ASSUME NEW p \in Procs, LInv, [Next]_vars, ws[p] # "panicked", ws'[p] = "panicked"
  PROVE  Taken("ws")
<1>1. RunWs(p)
  <2>1. ws' # ws
    OBVIOUS
  <2>2. PICK q \in Procs : SpawnWs(q) \/ RunWs(q) \/ CancelWs(q)
    BY <2>1 DEF Next, vars, MainStep, TaskStep, Launch, InitMetrics, SpawnUdp, InstallHandlers, AbortUdp,
                AbortWs, Exit, Gone, RunUdp, CancelUdp, Signal, Crash, Close
  <2>3. ws[q] # "panicked" /\ ws'[q] = "panicked" /\ RunWs(q) /\ q = p
    BY <2>2 DEF SpawnWs, RunWs, CancelWs, LInv, TypeOK
  <2>4. QED
    BY <2>3
<1>2. main[p] \in Serving
  BY <1>1 DEF RunWs, LInv, TypeOK, TasksMatchPorts
<1>3. owner["ws"] # p /\ owner["ws"] # Nobody
  BY <1>1 DEF RunWs, LInv, TypeOK, TasksMatchPorts
<1>4. QED
  BY <1>2, <1>3, TakenByNoRunning

\* For any number of gateway processes on a host: a port belongs to nobody, to
\* a foreign program or to a process that has come to bind it, and the metrics
\* port to the one process that serves.
THEOREM LifecycleSafety == Spec => []TypeOK
<1>1. QED
  BY InitLInv, NextLInv, PTL DEF Spec, LInv

\* For any number of gateway processes: no gateway fails to bind its UDP or
\* WebSocket port because of another one that runs.
THEOREM OneGatewayAtATime == Spec => BindsUnlessForeign
<1>1. LInv /\ [Next]_vars =>
        [\A p \in Procs :
           LET T(x) == owner[x] = Other \/ \E q \in Procs : owner[x] = q /\ main[q] = "exited"
           IN  /\ udp[p] # "panicked" /\ udp'[p] = "panicked" => T("udp")
               /\ ws[p] # "panicked" /\ ws'[p] = "panicked" => T("ws")]_vars
  BY UdpPanics, WsPanics DEF Taken
<1>2. QED
  BY <1>1, InitLInv, NextLInv, PTL DEF Spec, BindsUnlessForeign
=============================================================================
