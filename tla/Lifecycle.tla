----------------------------- MODULE Lifecycle -----------------------------
(***************************************************************************)
(* Gateway processes on one host, src/main.rs, from their start to their    *)
(* exit: the three listeners with their ports, the tasks that main spawns,  *)
(* the signals and the two aborts.  Several processes with the same         *)
(* addresses may overlap, as when one is started again while the one        *)
(* before it still shuts down.                                              *)
(***************************************************************************)
CONSTANTS Procs,       \* the gateway processes of a behaviour, a bound
          Nobody,      \* owns a port that is free
          Other        \* a program that is no gateway

ASSUME OwnersAssumption == Nobody \notin Procs /\ Other \notin Procs /\ Nobody # Other

VARIABLES main,        \* how far the main task of each process is
          udp,         \* the task of run_udp
          ws,          \* the task of run_ws
          owner,       \* who has bound each port
          pending      \* the signals a process has received and not lost

vars == <<main, udp, ws, owner, pending>>

Ports == {"metrics", "udp", "ws"}
Signals == {"SIGINT", "SIGTERM"}

\* "metrics": init_metrics has returned; "udp", "ws": that task is spawned as
\* well; "waiting": the handlers are installed; "aborting": the first handle
\* is aborted; "draining": both are, and main sleeps.
Serving == {"metrics", "udp", "ws", "waiting", "aborting", "draining"}
MainStages == {"new", "starting", "exited"} \cup Serving

\* "bound": run_udp has spawned its loop and returned, or run_ws is serving.
TaskStages == {"none", "spawned", "bound", "panicked", "cancelled"}

Init ==
  /\ main = [p \in Procs |-> "new"]
  /\ udp = [p \in Procs |-> "none"]
  /\ ws = [p \in Procs |-> "none"]
  /\ owner \in [Ports -> {Nobody, Other}]
  /\ pending = [p \in Procs |-> {}]

Alive(p) == main[p] \notin {"new", "exited"}

Advance(p, from, to) == main[p] = from /\ main' = [main EXCEPT ![p] = to]

\* The process runs no more; its sockets close one by one (Close).
Gone(p) ==
  /\ main' = [main EXCEPT ![p] = "exited"]
  /\ UNCHANGED <<udp, ws, owner, pending>>

-----------------------------------------------------------------------------
(* The main task.                                                           *)

\* Somebody starts the program.
Launch(p) == Advance(p, "new", "starting") /\ UNCHANGED <<udp, ws, owner, pending>>

\* Mutant: the metrics port is bound in the task that serves it.
InitMetricsInTask(p) ==
  /\ Advance(p, "starting", "metrics")
  /\ owner' = IF owner["metrics"] = Nobody THEN [owner EXCEPT !["metrics"] = p] ELSE owner
  /\ UNCHANGED <<udp, ws, pending>>

\* init_metrics binds on the main task: a port that is taken ends the process.
InitMetrics(p) ==
  \/ /\ owner["metrics"] = Nobody
     /\ Advance(p, "starting", "metrics")
     /\ owner' = [owner EXCEPT !["metrics"] = p]
     /\ UNCHANGED <<udp, ws, pending>>
  \/ /\ owner["metrics"] # Nobody
     /\ main[p] = "starting"
     /\ Gone(p)

SpawnUdp(p) ==
  /\ Advance(p, "metrics", "udp")
  /\ udp' = [udp EXCEPT ![p] = "spawned"]
  /\ UNCHANGED <<ws, owner, pending>>

\* Mutant: the future is made and not spawned.
SpawnWsForgotten(p) ==
  /\ Advance(p, "udp", "ws")
  /\ UNCHANGED <<udp, ws, owner, pending>>

SpawnWs(p) ==
  /\ Advance(p, "udp", "ws")
  /\ ws' = [ws EXCEPT ![p] = "spawned"]
  /\ UNCHANGED <<udp, owner, pending>>

\* shutdown_signal is polled for the first time: both handlers are installed.
InstallHandlers(p) == Advance(p, "ws", "waiting") /\ UNCHANGED <<udp, ws, owner, pending>>

\* Mutant: only Ctrl-C ends the wait.
AbortUdpOnCtrlC(p) ==
  /\ "SIGINT" \in pending[p]
  /\ Advance(p, "waiting", "aborting")
  /\ UNCHANGED <<udp, ws, owner, pending>>

\* An arm of shutdown_signal is ready, then udp_handle.abort().
AbortUdp(p) ==
  /\ pending[p] # {}
  /\ Advance(p, "waiting", "aborting")
  /\ UNCHANGED <<udp, ws, owner, pending>>

\* Mutant: the metrics listener is closed as well.
AbortWsAndMetrics(p) ==
  /\ Advance(p, "aborting", "draining")
  /\ owner' = [owner EXCEPT !["metrics"] = Nobody]
  /\ UNCHANGED <<udp, ws, pending>>

\* ws_handle.abort(), and main sleeps.
AbortWs(p) == Advance(p, "aborting", "draining") /\ UNCHANGED <<udp, ws, owner, pending>>

\* The 500 ms are over: main returns and the runtime drops every task.
Exit(p) == main[p] = "draining" /\ Gone(p)

-----------------------------------------------------------------------------
(* The spawned tasks.                                                       *)

\* run_udp: bind, spawn the receive loop and return.  A port that is taken
\* is the panic of a task nobody waits for.
RunUdp(p) ==
  /\ Alive(p) /\ udp[p] = "spawned"
  /\ IF owner["udp"] = Nobody
     THEN /\ udp' = [udp EXCEPT ![p] = "bound"]
          /\ owner' = [owner EXCEPT !["udp"] = p]
     ELSE udp' = [udp EXCEPT ![p] = "panicked"] /\ UNCHANGED owner
  /\ UNCHANGED <<main, ws, pending>>

\* run_ws: bind and serve.
RunWs(p) ==
  /\ Alive(p) /\ ws[p] = "spawned"
  /\ IF owner["ws"] = Nobody
     THEN /\ ws' = [ws EXCEPT ![p] = "bound"]
          /\ owner' = [owner EXCEPT !["ws"] = p]
     ELSE ws' = [ws EXCEPT ![p] = "panicked"] /\ UNCHANGED owner
  /\ UNCHANGED <<main, udp, pending>>

\* An aborted task is dropped at its next await.  run_udp has none left once
\* it has bound, and the loop it has spawned has a handle of its own, which
\* was dropped: the loop goes on, and so does the metrics endpoint.
CancelUdp(p) ==
  /\ main[p] \in {"aborting", "draining"}
  /\ udp[p] = "spawned"
  /\ udp' = [udp EXCEPT ![p] = "cancelled"]
  /\ UNCHANGED <<main, ws, owner, pending>>

\* run_ws is dropped with its listener.
CancelWs(p) ==
  /\ main[p] = "draining"
  /\ ws[p] \in {"spawned", "bound"}
  /\ ws' = [ws EXCEPT ![p] = "cancelled"]
  /\ owner' = IF ws[p] = "bound" THEN [owner EXCEPT !["ws"] = Nobody] ELSE owner
  /\ UNCHANGED <<main, udp, pending>>

-----------------------------------------------------------------------------
(* The outside.                                                             *)

\* A socket of a process that has ended is closed, by the runtime that drops
\* its tasks or by the system, in whatever order.
Close(p, x) ==
  /\ main[p] = "exited" /\ owner[x] = p
  /\ owner' = [owner EXCEPT ![x] = Nobody]
  /\ UNCHANGED <<main, udp, ws, pending>>

\* A signal that finds no handler has its default action.
Signal(p, s) ==
  /\ Alive(p)
  /\ \/ /\ main[p] \in {"waiting", "aborting", "draining"}
        /\ pending' = [pending EXCEPT ![p] = @ \cup {s}]
        /\ UNCHANGED <<main, udp, ws, owner>>
     \/ /\ main[p] \in {"starting", "metrics", "udp", "ws"}
        /\ Gone(p)

\* SIGKILL, or the power fails for one process.
Crash(p) == Alive(p) /\ Gone(p)

MainStep(p) ==
  \/ InitMetrics(p) \/ SpawnUdp(p) \/ SpawnWs(p) \/ InstallHandlers(p)
  \/ AbortUdp(p) \/ AbortWs(p) \/ Exit(p)

TaskStep(p) == RunUdp(p) \/ RunWs(p) \/ CancelUdp(p) \/ CancelWs(p)

Next ==
  \E p \in Procs :
    \/ Launch(p) \/ MainStep(p) \/ TaskStep(p) \/ Crash(p)
    \/ \E s \in Signals : Signal(p, s)
    \/ \E x \in Ports : Close(p, x)

Spec == Init /\ [][Next]_vars

\* tokio runs what is ready, and the 500 ms pass.
Fairness == \A p \in Procs : WF_vars(MainStep(p)) /\ WF_vars(TaskStep(p))

FairSpec == Spec /\ Fairness

-----------------------------------------------------------------------------
(* Properties.                                                              *)

\* A process past init_metrics holds the metrics port, and one that has not
\* come so far holds none.
TypeOK ==
  /\ main \in [Procs -> MainStages]
  /\ udp \in [Procs -> TaskStages]
  /\ ws \in [Procs -> TaskStages]
  /\ owner \in [Ports -> Procs \cup {Nobody, Other}]
  /\ pending \in [Procs -> SUBSET Signals]
  /\ \A p \in Procs : main[p] \in Serving => owner["metrics"] = p
  /\ \A x \in Ports, p \in Procs : owner[x] = p => main[p] \in Serving \cup {"exited"}

\* Neither bind that nobody waits for fails because of a gateway that still
\* runs: the metrics port, bound first and kept to the end, keeps a second
\* process out, also while the UDP loop of the first outlives its abort.  It
\* fails only for a foreign program, or in the moment in which a process that
\* has ended has closed its metrics socket and not yet the other.
BindsUnlessForeign ==
  [][\A p \in Procs :
       LET Taken(x) == owner[x] = Other \/ \E q \in Procs : owner[x] = q /\ main[q] = "exited"
       IN  /\ udp[p] # "panicked" /\ udp'[p] = "panicked" => Taken("udp")
           /\ ws[p] # "panicked" /\ ws'[p] = "panicked" => Taken("ws")]_vars

Serves(p) == owner["udp"] = p /\ owner["ws"] = p

\* A gateway that has its metrics port takes packets on both others, unless
\* one of them was taken or it is told, or made, to stop first.
ComesUp ==
  \A p \in Procs :
    main[p] = "metrics" ~>
      Serves(p) \/ pending[p] # {} \/ main[p] = "exited" \/ "panicked" \in {udp[p], ws[p]}

\* SIGINT or SIGTERM ends the process at whatever moment of its life it comes,
\* whichever of its tasks run, wait, have panicked or do not take the abort.
SignalStops == \A p \in Procs : pending[p] # {} ~> main[p] = "exited"
=============================================================================
