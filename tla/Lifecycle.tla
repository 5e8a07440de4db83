----------------------------- MODULE Lifecycle -----------------------------
(***************************************************************************)
(* The life of one server process, CommandStart::run                       *)
(* (cmd/percas/src/start.rs): the configuration is loaded, telemetry and   *)
(* the runtimes are made, run_server starts the tasks of a node one after  *)
(* the other, waits for ctrl-c and joins them again (start_gossip,         *)
(* start_server and await_shutdown in crates/server/src/server.rs), and    *)
(* the locals of run() are dropped, the last one first.                    *)
(*                                                                         *)
(* The tasks run on other threads, so each may end, fail or panic between  *)
(* any two steps of run().  What the gossip tasks do is in Gossip; what is *)
(* read from the file and the environment is in Config.                    *)
(***************************************************************************)
EXTENDS Config

CONSTANTS
    Files,  \* the documents a config file may hold
    Envs,   \* the PERCAS_CONFIG_ variables a process may be started with
    MaxIO   \* bound: how much disk I/O is counted

ASSUME MaxIOAssumption == MaxIO \in Nat

\* A document maps its paths to tables and values.
ASSUME FilesAssumption ==
    \A file \in Files :
        file \in [DOMAIN file -> {Table} \cup [is: {"value"}, by: {"file"}, text: Text]]

\* The handles of start(), in the order in which they are pushed.
Loop == {"ping", "anti_entropy", "rebuild_ring", "remove_dead_members"}

\* The HTTP servers: the control server's handle is the first of gossip_futs.
Server == {"control", "data"}

Gossip == {"control"} \cup Loop

Task == Server \cup Loop \cup {"bootstrap", "report"}

VARIABLES
    main,       \* the statement or the await run() is at
    result,     \* how run_server, or what precedes it, has ended
    load,       \* the locals of load_config
    drops,      \* the locals of run() that will be dropped, in that order
    task,       \* task[t]: what has become of task t
    signalled,  \* shutdown_tx.shutdown() has been called by the ctrl-c handler
    told,       \* shutdown() has been called on shutdown_tx_actions
    stats,      \* one of the engine's four I/O counters
    snapshot,   \* what ReportMetricsAction last saw of it
    exported    \* what it has added to the metrics counter

loadVars == <<load, drops>>
taskVars == <<task, signalled, told>>
ioVars   == <<stats, snapshot, exported>>
vars     == <<main, result, loadVars, taskVars, ioVars>>

Ended == {"ok", "error", "panicked"}

\* starting: a server that has not polled its signal yet; closing: a server
\* that lets its connections finish; hung: a bootstrap whose peer is silent;
\* dropped: cancelled with its runtime.
TaskState == {"none", "starting", "running", "closing", "hung", "dropped"} \cup Ended

\* The places run() can be at, and the two ways the process ends.
Loading  == {"read_file", "environment", "telemetry"}
Starting == {"setup", "control_wg", "fast_bootstrap", "data_wg", "set_handler"}
Stopping == {"actions", "server_fut", "gossip_futs"}
Over     == {"exited", "killed"}

TypeOK ==
    /\ main \in Loading \cup Starting \cup {"is_shutdown"} \cup Stopping
               \cup {"drop"} \cup Over
    /\ result \in {"none", "returned", "failed", "unwound"}
    /\ task \in [Task -> TaskState]
    /\ signalled \in BOOLEAN
    /\ told \in BOOLEAN
    /\ stats \in 0..MaxIO /\ snapshot \in 0..MaxIO

NoLoad == [file |-> <<>>, env |-> <<>>, pending |-> {}, doc |-> <<>>, warnings |-> 0]

Init ==
    /\ main = "read_file"
    /\ result = "none"
    /\ \E file \in Files, env \in Envs :
          load = [file |-> file, env |-> env, pending |-> DOMAIN env, doc |-> file,
                  warnings |-> 0]
    /\ drops = <<>>
    /\ task = [t \in Task |-> "none"]
    /\ signalled = FALSE
    /\ told = FALSE
    /\ stats = 0 /\ snapshot = 0 /\ exported = 0

Becomes(t, state) == task' = [task EXCEPT ![t] = state]

\* run() goes on to another statement.
Goto(place) == main' = place /\ UNCHANGED result

\* run() ends before it has started anything.
Exit(how) == main' = "exited" /\ result' = how

\* run_server ends and the locals of run() are dropped.
Leave(how) == main' = "drop" /\ result' = how

-----------------------------------------------------------------------------
(***************************************************************************)
(* load_config and telemetry::init.                                        *)
(***************************************************************************)
ReadFile ==
    /\ main = "read_file"
    /\ Goto("environment")
    /\ UNCHANGED <<loadVars, taskVars, ioVars>>

\* The file cannot be read, or is not TOML.
ReadFails ==
    /\ main = "read_file"
    /\ Exit("failed")
    /\ UNCHANGED <<loadVars, taskVars, ioVars>>

\* One turn of the loop over a HashMap: the variables come in any order.
ApplyVariable(path) ==
    /\ main = "environment" /\ path \in load.pending
    /\ Accepted(path, load.env[path])
    /\ ~Clashes(load.doc, path)
    /\ load' = [load EXCEPT
                    !.pending  = @ \ {path},
                    !.doc      = SetTomlPath(@, path, load.env[path]),
                    !.warnings = @ + Cardinality(MissingParents(load.doc, path))]
    /\ UNCHANGED <<main, result, drops, taskVars, ioVars>>

\* The variable is unknown, of another type, or cannot be parsed; or toml_edit
\* panics on a parent that is not a table.
VariableFails(path) ==
    /\ main = "environment" /\ path \in load.pending
    /\ \/ ~Accepted(path, load.env[path]) /\ Exit("failed")
       \/ Accepted(path, load.env[path]) /\ Clashes(load.doc, path) /\ Exit("unwound")
    /\ UNCHANGED <<loadVars, taskVars, ioVars>>

Deserialize ==
    /\ main = "environment" /\ load.pending = {}
    /\ IF Deserializes(load.doc) THEN Goto("telemetry") ELSE Exit("failed")
    /\ UNCHANGED <<loadVars, taskVars, ioVars>>

\* The guards of telemetry::init: of each exporter the configuration asks for.
Guard(guard, section, doc) == IF section \in DOMAIN doc THEN <<guard>> ELSE <<>>

Guards(doc) ==
    Guard("metrics_guard", MetricsOtel, doc) \o Guard("traces_guard", TracesOtel, doc)

\* The locals of run(), dropped in the order of their declarations.
DropsFirstFirst(doc) ==
    Guards(doc) \o <<"telemetry_runtime", "io_runtime", "server_runtime",
                     "gossip_runtime">>

\* The runtimes are dropped in the reverse order of their declarations, then
\* drop_guards from its first element to its last, the telemetry runtime.
Drops(doc) ==
    <<"gossip_runtime", "server_runtime", "io_runtime">>
        \o Guards(doc) \o <<"telemetry_runtime">>

\* telemetry::init and the other runtimes.  What is left of the configuration
\* is not looked at again in this module.
InitTelemetry ==
    /\ main = "telemetry"
    /\ Goto("setup")
    /\ drops' = Drops(load.doc)
    /\ load' = NoLoad
    /\ UNCHANGED <<taskVars, ioVars>>

\* A filter cannot be parsed, or an exporter or the log file cannot be made.
InitPanics ==
    /\ main = "telemetry"
    /\ Exit("unwound")
    /\ UNCHANGED <<loadVars, taskVars, ioVars>>

-----------------------------------------------------------------------------
(***************************************************************************)
(* The tasks, while the process lives and their runtime has not been       *)
(* dropped.                                                                *)
(***************************************************************************)
RuntimeOf(t) ==
    IF t \in Gossip \cup {"bootstrap"} THEN "gossip_runtime" ELSE "server_runtime"

Up(local) == main \notin Over /\ local \in Range(drops)

Live(t) == Up(RuntimeOf(t))

\* A server polls its signal for the first time, which drops its WaitGroup.
ServerStarts(t) ==
    /\ Live(t) /\ task[t] = "starting"
    /\ Becomes(t, "running")
    /\ UNCHANGED <<main, result, loadVars, signalled, told, ioVars>>

\* run_with_graceful_shutdown fails, at once or later; the signal it was
\* given is dropped with it, and the WaitGroup in there too.
ServerFails(t) ==
    /\ Live(t) /\ task[t] \in {"starting", "running"}
    /\ Becomes(t, "error")
    /\ UNCHANGED <<main, result, loadVars, signalled, told, ioVars>>

\* The signal resolves: no connection is accepted any more.
ServerCloses(t) ==
    /\ Live(t) /\ task[t] = "running" /\ signalled
    /\ Becomes(t, "closing")
    /\ UNCHANGED <<main, result, loadVars, signalled, told, ioVars>>

\* The connections have finished, or the ten seconds are over.
ServerStops(t) ==
    /\ Live(t) /\ task[t] = "closing"
    /\ Becomes(t, "ok")
    /\ UNCHANGED <<main, result, loadVars, signalled, told, ioVars>>

\* The select! of a loop sees the shutdown at whatever await the loop is.
LoopStops(t) ==
    /\ Live(t) /\ task[t] = "running" /\ signalled
    /\ Becomes(t, "ok")
    /\ UNCHANGED <<main, result, loadVars, signalled, told, ioVars>>

\* The two loops that call peers can panic: in persist() or on an empty table.
LoopPanics(t) ==
    /\ Live(t) /\ task[t] = "running"
    /\ t \in {"ping", "anti_entropy"}
    /\ Becomes(t, "panicked")
    /\ UNCHANGED <<main, result, loadVars, signalled, told, ioVars>>

\* A peer takes a request of fast_bootstrap and never answers it (Hang of
\* Gossip).
BootstrapHangs ==
    /\ Live("bootstrap") /\ task["bootstrap"] = "running"
    /\ Becomes("bootstrap", "hung")
    /\ UNCHANGED <<main, result, loadVars, signalled, told, ioVars>>

BootstrapStops ==
    /\ Live("bootstrap") /\ task["bootstrap"] = "running"
    /\ Becomes("bootstrap", "ok")
    /\ UNCHANGED <<main, result, loadVars, signalled, told, ioVars>>

\* The scheduled action sees its own shutdown between two reports, and drops
\* its receiver.
ReportStops ==
    /\ Live("report") /\ task["report"] = "running" /\ told
    /\ Becomes("report", "ok")
    /\ UNCHANGED <<main, result, loadVars, signalled, told, ioVars>>

\* The engine reads or writes its disk.
EngineIO ==
    /\ Up("io_runtime") /\ task["control"] # "none"
    /\ stats < MaxIO
    /\ stats' = stats + 1
    /\ UNCHANGED <<main, result, loadVars, taskVars, snapshot, exported>>

\* A do_report that forgets to store what it has seen.
ReportForgets ==
    /\ Live("report") /\ task["report"] = "running"
    /\ exported <= stats
    /\ exported' = exported + (stats - snapshot)
    /\ UNCHANGED <<main, result, loadVars, taskVars, stats, snapshot>>

\* do_report.  It awaits nothing, so it is not cancelled half-way.
Report ==
    /\ Live("report") /\ task["report"] = "running"
    /\ exported' = exported + (stats - snapshot)
    /\ snapshot' = stats
    /\ UNCHANGED <<main, result, loadVars, taskVars, stats>>

-----------------------------------------------------------------------------
(***************************************************************************)
(* run_server.                                                             *)
(***************************************************************************)

\* Engine, acceptors and node.json are there, and the control server is
\* spawned.
Setup ==
    /\ main = "setup"
    /\ Goto("control_wg")
    /\ Becomes("control", "starting")
    /\ UNCHANGED <<loadVars, signalled, told, ioVars>>

\* Engine or acceptors fail, or node.json cannot be read or written.
SetupFails ==
    /\ main = "setup"
    /\ Leave("failed") \/ Leave("unwound")
    /\ UNCHANGED <<loadVars, taskVars, ioVars>>

\* A start that waits for the control server to be there.
ControlServing ==
    /\ main = "control_wg"
    /\ task["control"] = "running"
    /\ Goto("fast_bootstrap")
    /\ Becomes("bootstrap", "running")
    /\ UNCHANGED <<loadVars, signalled, told, ioVars>>

\* wg.await in start_gossip; start() then spawns fast_bootstrap.
ControlStarted ==
    /\ main = "control_wg"
    /\ task["control"] # "starting"
    /\ Goto("fast_bootstrap")
    /\ Becomes("bootstrap", "running")
    /\ UNCHANGED <<loadVars, signalled, told, ioVars>>

\* start() spawns the loops, start_server the data server.
Bootstrapped ==
    /\ main = "fast_bootstrap"
    /\ task["bootstrap"] = "ok"
    /\ Goto("data_wg")
    /\ task' = [t \in Task |-> IF t \in Loop THEN "running"
                               ELSE IF t = "data" THEN "starting"
                               ELSE task[t]]
    /\ UNCHANGED <<loadVars, signalled, told, ioVars>>

\* start() finds an empty table.  In Gossip it never does: what is stored before
\* the loops run has a member at least.  This module does not rely on it.
BootstrapFails ==
    /\ main = "fast_bootstrap"
    /\ task["bootstrap"] = "ok"
    /\ Leave("failed")
    /\ UNCHANGED <<loadVars, taskVars, ioVars>>

\* wg.await in start_server; the metrics report is then scheduled.
DataStarted ==
    /\ main = "data_wg"
    /\ task["data"] # "starting"
    /\ Goto("set_handler")
    /\ Becomes("report", "running")
    /\ UNCHANGED <<loadVars, signalled, told, ioVars>>

SetHandler ==
    /\ main = "set_handler"
    /\ Goto("is_shutdown") \/ Leave("failed")
    /\ UNCHANGED <<loadVars, taskVars, ioVars>>

\* ctrl-c: where no handler has been set it ends the process.
CtrlC ==
    /\ main \notin Over
    /\ IF main \in Loading \cup Starting \/ (main = "drop" /\ ~told)
       THEN Goto("killed") /\ UNCHANGED signalled
       ELSE signalled' = TRUE /\ UNCHANGED <<main, result>>
    /\ UNCHANGED <<loadVars, task, told, ioVars>>

\* A shutdown that waits for the scheduled actions and does not tell them.
ShutdownSilent ==
    /\ main = "is_shutdown"
    /\ signalled
    /\ Goto("actions")
    /\ UNCHANGED <<loadVars, taskVars, ioVars>>

\* await_shutdown: the scheduled actions are told first.
Shutdown ==
    /\ main = "is_shutdown"
    /\ signalled
    /\ Goto("actions")
    /\ told' = TRUE
    /\ UNCHANGED <<loadVars, task, signalled, ioVars>>

\* shutdown_tx_actions have no receiver left.
ActionsStopped ==
    /\ main = "actions"
    /\ task["report"] \in Ended
    /\ Goto("server_fut")
    /\ UNCHANGED <<loadVars, taskVars, ioVars>>

JoinServer ==
    /\ main = "server_fut"
    /\ task["data"] \in Ended
    /\ Goto("gossip_futs")
    /\ UNCHANGED <<loadVars, taskVars, ioVars>>

\* A join that is content with the control server.
JoinControl ==
    /\ main = "gossip_futs"
    /\ task["control"] \in {"ok", "error"}
    /\ Leave("returned")
    /\ UNCHANGED <<loadVars, taskVars, ioVars>>

\* try_join_all polls the handles in order: an error of the control server
\* ends it at once, a panicked loop is resumed by JoinHandle::poll.
JoinGossip ==
    /\ main = "gossip_futs"
    /\ \/ task["control"] = "error" /\ Leave("returned")
       \/ /\ task["control"] # "error"
          /\ \E t \in Loop : task[t] = "panicked"
          /\ Leave("unwound")
       \/ (\A t \in Gossip : task[t] = "ok") /\ Leave("returned")
    /\ UNCHANGED <<loadVars, taskVars, ioVars>>

\* The next local of run() is dropped; a runtime cancels its tasks.
DropNext ==
    /\ main = "drop"
    /\ drops' = Tail(drops)
    /\ task' = [t \in Task |->
                  IF RuntimeOf(t) = Head(drops) /\ task[t] \notin Ended \cup {"none"}
                  THEN "dropped" ELSE task[t]]
    /\ main' = IF Tail(drops) = <<>> THEN "exited" ELSE main
    /\ UNCHANGED <<result, load, signalled, told, ioVars>>

\* The process is gone, and its tasks with it.
Terminated == main \in Over /\ UNCHANGED vars

-----------------------------------------------------------------------------
ServerStep(t) ==
    \/ ServerStarts(t) \/ ServerFails(t) \/ ServerCloses(t) \/ ServerStops(t)

LoopStep(t) == LoopStops(t) \/ LoopPanics(t)

BootstrapStep == BootstrapStops \/ BootstrapHangs

LoadStep ==
    \/ ReadFile \/ ReadFails
    \/ \E path \in load.pending : ApplyVariable(path) \/ VariableFails(path)
    \/ Deserialize
    \/ InitTelemetry \/ InitPanics

MainStep ==
    \/ Setup \/ SetupFails \/ ControlStarted \/ Bootstrapped \/ BootstrapFails
    \/ DataStarted \/ SetHandler
    \/ Shutdown \/ ActionsStopped \/ JoinServer \/ JoinGossip
    \/ DropNext

Next ==
    \/ LoadStep
    \/ MainStep
    \/ \E t \in Server : ServerStep(t)
    \/ \E t \in Loop : LoopStep(t)
    \/ BootstrapStep
    \/ EngineIO
    \/ Report
    \/ ReportStops
    \/ CtrlC
    \/ Terminated

Spec == Init /\ [][Next]_vars

(***************************************************************************)
(* Every runtime polls what is ready, and poem enforces the ten seconds.   *)
(* That fast_bootstrap ends or hangs is BootstrapEnds of Gossip.  Nobody   *)
(* has to press ctrl-c, and nothing has to fail.                           *)
(***************************************************************************)
Fairness ==
    /\ WF_vars(LoadStep)
    /\ WF_vars(MainStep)
    /\ WF_vars(BootstrapStep)
    /\ WF_vars(ReportStops)
    /\ \A t \in Server : /\ WF_vars(ServerStarts(t))
                         /\ WF_vars(ServerCloses(t))
                         /\ WF_vars(ServerStops(t))
    /\ \A t \in Loop : WF_vars(LoopStops(t))

FairSpec == Spec /\ Fairness

-----------------------------------------------------------------------------

\* load_config lays the environment over the file whatever the order in which
\* the HashMap yields the variables: a variable wins over the file, nothing
\* else of the file is lost, and the start fails exactly when a variable
\* cannot be used or what results is not a Config.
LoadIsOverlay ==
    [][main = "environment" /\ main' \notin {"environment", "killed"} =>
          IF main' = "telemetry"
          THEN /\ load.doc = Overlay(load.file, load.env)
               /\ Loadable(load.file, load.env)
          ELSE ~Loadable(load.file, load.env)]_vars

\* A variable that switches a section on which the file does not have is
\* warned of, once per table it creates and not once per variable.
CreatedIsWarned ==
    [][main = "environment" /\ main' = "telemetry" =>
          load.warnings = Cardinality({path \in DOMAIN load.doc \ DOMAIN load.file :
                                          load.doc[path] = Table})]_vars

\* run_server only returns once nothing it started is left: every task has
\* ended, and no panic of a gossip loop has been swallowed.  The exception is
\* a control server that failed, whose error try_join_all returns at once.
ReturnsLast ==
    result = "returned" =>
        /\ task["data"] \in Ended /\ task["report"] \in Ended
        /\ task["control"] # "error" => \A t \in Gossip : task[t] = "ok"

\* The guards of telemetry::init flush when no task is left that could still
\* report, and while the runtime that exports is there; also when run_server
\* failed or panicked and its tasks were never joined.
FlushesLast ==
    [][drops # <<>> /\ drops' = Tail(drops)
          /\ Head(drops) \in {"metrics_guard", "traces_guard"} =>
             /\ \A t \in Task : task[t] \in Ended \cup {"none", "dropped"}
             /\ Up("telemetry_runtime")]_vars

\* The I/O counters of the engine are exported once: what has been added to
\* the metrics is what the snapshot says, whenever reports and I/O interleave,
\* and the difference of two snapshots never underflows.
ReportsOnce == exported = snapshot /\ snapshot <= stats

\* run() gets to the point where it listens to ctrl-c, or ends: neither
\* WaitGroup keeps it waiting for a server that failed to start.  A silent
\* initial peer can keep it waiting for ever.
StartEnds ==
    main = "read_file" ~>
        main \in {"is_shutdown"} \cup Over \/ task["bootstrap"] = "hung"

\* Once ctrl-c has been pressed the process ends, whatever its tasks were
\* doing and whichever of them had failed or panicked before.
ShutdownEnds == signalled ~> main \in Over

=============================================================================
