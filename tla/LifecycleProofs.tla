--------------------------- MODULE LifecycleProofs ---------------------------
(***************************************************************************)
(* Proofs about the life of a server process, for every set of             *)
(* configuration files and environments: run_server returns last           *)
(* (ReturnsLast), the report counts once (ReportsOnce), and telemetry is   *)
(* flushed last (FlushesLast).                                             *)
(***************************************************************************)
EXTENDS Lifecycle, SequenceTheorems, FiniteSetTheorems, TLAPS

\* What a step of the process' tasks looks like from run().
TaskNext ==
    \/ \E t \in Server : ServerStep(t)
    \/ \E t \in Loop : LoopStep(t)
    \/ BootstrapStep
    \/ ReportStops

(***************************************************************************)
(* The inductive invariant: what await_shutdown has joined so far stays    *)
(* joined, because a task that has ended does nothing any more and is not  *)
(* cancelled with its runtime.                                             *)
(***************************************************************************)
JoinInv ==
    /\ TypeOK
    /\ result = "returned" => main \in {"drop"} \cup Over
    /\ main \in {"server_fut", "gossip_futs"} \/ result = "returned" =>
          task["report"] \in Ended
    /\ main = "gossip_futs" \/ result = "returned" => task["data"] \in Ended
    /\ ReturnsLast

\* A task that has ended stays as it is.
EndedStay == \A t \in Task : task[t] \in Ended => task'[t] = task[t]

\* A step of a task leaves run() alone and turns a task that had not ended yet
\* into another state.
LEMMA TaskStep ==
    ASSUME TypeOK, TaskNext
    PROVE  TypeOK' /\ UNCHANGED <<main, result>> /\ EndedStay
  <1>1. ASSUME NEW t \in Task, NEW state \in TaskState,
               task[t] \notin Ended, Becomes(t, state),
               UNCHANGED <<main, result, loadVars, signalled, told, ioVars>>
        PROVE  TypeOK' /\ UNCHANGED <<main, result>> /\ EndedStay
    BY <1>1 DEF TypeOK, Becomes, ioVars, EndedStay
  <1>2. CASE \E t \in Server : ServerStep(t)
    BY <1>1, <1>2 DEF ServerStep, ServerStarts, ServerFails, ServerCloses,
                      ServerStops, Server, Task, TaskState, Ended
  <1>3. CASE \E t \in Loop : LoopStep(t)
    BY <1>1, <1>3 DEF LoopStep, LoopStops, LoopPanics, Task, TaskState, Ended
  <1>4. CASE BootstrapStep
    BY <1>1, <1>4 DEF BootstrapStep, BootstrapStops, BootstrapHangs, Task, TaskState,
                      Ended
  <1>5. CASE ReportStops
    BY <1>1, <1>5 DEF ReportStops, Task, TaskState, Ended
  <1> QED
    BY <1>2, <1>3, <1>4, <1>5 DEF TaskNext

\* A step that leaves run() and the tasks that have ended alone keeps what has
\* been joined.
LEMMA JoinedStay ==
    ASSUME JoinInv, TypeOK', UNCHANGED <<main, result>>, EndedStay
    PROVE  JoinInv'
  BY DEF JoinInv, ReturnsLast, EndedStay, Task, Server, Gossip, Ended

\* Every step keeps what has been joined.
LEMMA JoinStep ==
    ASSUME JoinInv, [Next]_vars
    PROVE  JoinInv'
  <1> USE DEF JoinInv
  <1>1. CASE UNCHANGED vars
    BY <1>1 DEF TypeOK, ReturnsLast, vars, taskVars, ioVars
  <1>2. CASE TaskNext
    BY <1>2, TaskStep, JoinedStay
  <1>3. CASE LoadStep
    <2>1. /\ main \in Loading /\ result' # "returned"
          /\ main' \in Loading \cup {"setup", "exited"}
          /\ UNCHANGED <<taskVars, ioVars>>
          /\ result' \in {"none", "returned", "failed", "unwound"}
      BY <1>3 DEF LoadStep, ReadFile, ReadFails, ApplyVariable, VariableFails,
                  Deserialize, InitTelemetry, InitPanics, Goto, Exit, Loading, Over, TypeOK
    <2> QED
      BY <2>1 DEF TypeOK, Loading, Starting, Over, ReturnsLast, taskVars, ioVars
  <1>4. CASE \/ Setup \/ SetupFails \/ ControlStarted \/ Bootstrapped
             \/ BootstrapFails \/ DataStarted \/ SetHandler
    <2>1. /\ main \in Starting /\ result' # "returned"
          /\ main' \in Starting \cup {"is_shutdown", "drop"}
          /\ result' \in {"none", "returned", "failed", "unwound"}
      BY <1>4 DEF Setup, SetupFails, ControlStarted, Bootstrapped, BootstrapFails,
                  DataStarted, SetHandler, Goto, Leave, TypeOK, Starting, Over
    <2>2. task' \in [Task -> TaskState] /\ UNCHANGED <<signalled, told, ioVars>>
      BY <1>4 DEF Setup, SetupFails, ControlStarted, Bootstrapped, BootstrapFails,
                  DataStarted, SetHandler, Becomes, taskVars, TypeOK, TaskState, Task
    <2> QED
      BY <2>1, <2>2 DEF TypeOK, Starting, Over, ReturnsLast, ioVars
  <1>5. CASE Shutdown
    BY <1>5 DEF Shutdown, Goto, TypeOK, Stopping, Over, ReturnsLast, ioVars
  <1>6. CASE ActionsStopped
    BY <1>6 DEF ActionsStopped, Goto, TypeOK, Stopping, Over, ReturnsLast, taskVars, ioVars
  <1>7. CASE JoinServer
    BY <1>7 DEF JoinServer, Goto, TypeOK, Stopping, Over, ReturnsLast, taskVars, ioVars
  <1>8. CASE JoinGossip
    BY <1>8 DEF JoinGossip, Leave, TypeOK, Over, ReturnsLast, taskVars, ioVars
  <1>9. CASE DropNext
    <2>1. task' \in [Task -> TaskState] /\ EndedStay
      BY <1>9 DEF DropNext, EndedStay, TypeOK, TaskState
    <2>2. /\ main = "drop" /\ main' \in {"drop", "exited"}
          /\ UNCHANGED <<result, signalled, told, ioVars>>
      BY <1>9 DEF DropNext
    <2> QED
      BY <2>1, <2>2 DEF TypeOK, Over, ReturnsLast, EndedStay, ioVars, Task, Server,
                        Gossip, Ended
  <1>10. CASE CtrlC
    BY <1>10 DEF CtrlC, Goto, TypeOK, Over, ReturnsLast, ioVars
  <1>11. CASE EngineIO \/ Report
    <2>1. TypeOK' /\ UNCHANGED <<main, result, task>>
      BY <1>11, MaxIOAssumption DEF EngineIO, Report, TypeOK, taskVars
    <2> QED
      BY <2>1, JoinedStay DEF EndedStay
  <1>12. CASE Terminated
    BY <1>1, <1>12 DEF Terminated
  <1> QED
    BY <1>1, <1>2, <1>3, <1>4, <1>5, <1>6, <1>7, <1>8, <1>9, <1>10, <1>11, <1>12
       DEF Next, MainStep, TaskNext

\* Every behaviour has the join invariant.
THEOREM JoinInvariant == Spec => []JoinInv
  <1>1. ASSUME Init PROVE JoinInv
    <2>1. /\ main = "read_file" /\ result = "none"
          /\ task = [t \in Task |-> "none"]
          /\ signalled = FALSE /\ told = FALSE
          /\ stats = 0 /\ snapshot = 0
      BY <1>1 DEF Init
    <2>2. TypeOK
      <3>1. stats \in 0..MaxIO /\ snapshot \in 0..MaxIO
        BY <2>1, MaxIOAssumption
      <3>2. signalled \in BOOLEAN /\ told \in BOOLEAN
        BY <2>1
      <3>3. task \in [Task -> TaskState]
        BY <2>1 DEF TaskState
      <3> QED
        BY <2>1, <3>1, <3>2, <3>3 DEF TypeOK, Loading
    <2> QED
      BY <2>1, <2>2 DEF JoinInv, ReturnsLast
  <1>2. JoinInv /\ [Next]_vars => JoinInv'
    BY JoinStep
  <1> QED
    BY <1>1, <1>2, PTL DEF Spec

\* run_server returns only when nothing it started is left, or the control
\* server had failed (await_shutdown joins in the right order).
THEOREM ReturnIsLast == Spec => []ReturnsLast
  <1>1. JoinInv => ReturnsLast
    BY DEF JoinInv
  <1> QED
    BY <1>1, JoinInvariant, PTL

\* What do_report has exported is what its snapshot says, and no counter is
\* ever behind its snapshot: no I/O is counted twice and no difference
\* underflows.
THEOREM ReportCountsOnce == Spec => []ReportsOnce
  <1>1. Init => ReportsOnce
    BY DEF Init, ReportsOnce
  <1>2. ASSUME JoinInv, ReportsOnce, [Next]_vars
        PROVE  ReportsOnce'
    <2>1. stats \in Nat /\ snapshot \in Nat
      BY <1>2, MaxIOAssumption DEF JoinInv, TypeOK
    <2>2. CASE EngineIO
      BY <1>2, <2>1, <2>2 DEF EngineIO, ReportsOnce
    <2>3. CASE Report
      BY <1>2, <2>1, <2>3 DEF Report, ReportsOnce
    <2>4. CASE UNCHANGED ioVars
      BY <1>2, <2>4 DEF ioVars, ReportsOnce
    <2>5. CASE TaskNext
      BY <2>4, <2>5 DEF TaskNext, ServerStep, ServerStarts, ServerFails, ServerCloses,
                        ServerStops, LoopStep, LoopStops, LoopPanics, BootstrapStep,
                        BootstrapStops, BootstrapHangs, ReportStops
    <2>6. CASE LoadStep
      BY <2>4, <2>6 DEF LoadStep, ReadFile, ReadFails, ApplyVariable, VariableFails,
                        Deserialize, InitTelemetry, InitPanics
    <2>7. CASE MainStep
      BY <2>4, <2>7 DEF MainStep, Setup, SetupFails, ControlStarted, Bootstrapped,
                        BootstrapFails, DataStarted, SetHandler, Shutdown,
                        ActionsStopped, JoinServer, JoinGossip, DropNext
    <2>8. CASE CtrlC \/ Terminated \/ UNCHANGED vars
      BY <2>4, <2>8 DEF CtrlC, Terminated, vars
    <2> QED
      BY <1>2, <2>2, <2>3, <2>5, <2>6, <2>7, <2>8 DEF Next, TaskNext
  <1> QED
    BY <1>1, <1>2, JoinInvariant, PTL DEF Spec

-----------------------------------------------------------------------------
(***************************************************************************)
(* The locals of run() and the tasks that live in them.                    *)
(***************************************************************************)
Local == {"gossip_runtime", "server_runtime", "io_runtime", "metrics_guard",
          "traces_guard", "telemetry_runtime"}

\* The place of a local in the order in which run() drops them.
Place(d) ==
    CASE d = "gossip_runtime"    -> 1
      [] d = "server_runtime"    -> 2
      [] d = "io_runtime"        -> 3
      [] d = "metrics_guard"     -> 4
      [] d = "traces_guard"      -> 5
      [] d = "telemetry_runtime" -> 6

\* A list of locals in that order, from one place on and up to another.
Within(s, lo, hi) ==
    /\ s \in Seq(Local)
    /\ \A i \in 1..Len(s) : lo <= Place(s[i]) /\ Place(s[i]) <= hi
    /\ \A i, j \in 1..Len(s) : i < j => Place(s[i]) < Place(s[j])

\* Every local has a place.
LEMMA PlaceType == \A d \in Local : Place(d) \in 1..6
  BY DEF Place, Local

\* What two lists of locals make one after the other.
LEMMA ConcatFacts ==
    ASSUME NEW s \in Seq(Local), NEW t \in Seq(Local)
    PROVE  /\ s \o t \in Seq(Local)
           /\ Len(s) \in Nat /\ Len(t) \in Nat
           /\ Len(s \o t) = Len(s) + Len(t)
           /\ DOMAIN (s \o t) = 1..(Len(s) + Len(t))
           /\ \A i \in 1..(Len(s) + Len(t)) :
                 (s \o t)[i] = IF i <= Len(s) THEN s[i] ELSE t[i - Len(s)]
  OBVIOUS

\* Two lists in order, the second one after the first, make one.
LEMMA WithinConcat ==
    ASSUME NEW s, NEW t, NEW a \in Nat, NEW b \in Nat, NEW c \in Nat, NEW d \in Nat,
           Within(s, a, b), Within(t, c, d), a <= c, b < c, b <= d
    PROVE  Within(s \o t, a, d)
  <1> DEFINE st == s \o t
  <1>0. s \in Seq(Local) /\ t \in Seq(Local)
    BY DEF Within
  <1>1. /\ st \in Seq(Local) /\ Len(st) = Len(s) + Len(t)
        /\ Len(s) \in Nat /\ Len(t) \in Nat
        /\ \A i \in 1..Len(st) : st[i] = IF i <= Len(s) THEN s[i] ELSE t[i - Len(s)]
    BY <1>0, ConcatFacts
  <1>2. \A i \in 1..Len(s) : Place(s[i]) \in Nat
    BY <1>0, PlaceType
  <1>3. \A i \in 1..Len(t) : Place(t[i]) \in Nat
    BY <1>0, PlaceType
  <1> HIDE DEF st
  <1>4. ASSUME NEW i \in 1..Len(st)
        PROVE  \/ i <= Len(s) /\ i \in 1..Len(s) /\ st[i] = s[i]
               \/ ~(i <= Len(s)) /\ i - Len(s) \in 1..Len(t) /\ st[i] = t[i - Len(s)]
    BY <1>1
  <1>5. ASSUME NEW i \in 1..Len(st)
        PROVE  a <= Place(st[i]) /\ Place(st[i]) <= d
    <2>1. CASE \E k \in 1..Len(s) : st[i] = s[k]
      BY <1>2, <2>1 DEF Within
    <2>2. CASE \E k \in 1..Len(t) : st[i] = t[k]
      BY <1>3, <2>2 DEF Within
    <2> QED
      BY <1>4, <2>1, <2>2
  <1>6. ASSUME NEW i \in 1..Len(st), NEW j \in 1..Len(st), i < j
        PROVE  Place(st[i]) < Place(st[j])
    <2>1. CASE j <= Len(s)
      <3>1. i \in 1..Len(s) /\ j \in 1..Len(s) /\ st[i] = s[i] /\ st[j] = s[j]
        BY <1>1, <1>6, <2>1
      <3> QED
        BY <1>6, <3>1 DEF Within
    <2>2. CASE ~(i <= Len(s))
      <3> DEFINE k == i - Len(s)
                 l == j - Len(s)
      <3>1. /\ k \in 1..Len(t) /\ l \in 1..Len(t) /\ k < l
            /\ st[i] = t[k] /\ st[j] = t[l]
        BY <1>1, <1>6, <2>2
      <3> HIDE DEF k, l
      <3> QED
        BY <3>1 DEF Within
    <2>3. CASE i <= Len(s) /\ ~(j <= Len(s))
      <3> DEFINE l == j - Len(s)
      <3>1. i \in 1..Len(s) /\ l \in 1..Len(t) /\ st[i] = s[i] /\ st[j] = t[l]
        BY <1>4, <2>3
      <3> HIDE DEF l
      <3>2. Place(s[i]) <= b /\ c <= Place(t[l])
        BY <3>1 DEF Within
      <3> QED
        BY <1>2, <1>3, <3>1, <3>2
    <2> QED
      BY <2>1, <2>2, <2>3
  <1> QED
    BY <1>1, <1>5, <1>6 DEF Within, st

\* What telemetry::init and run() put up for dropping: the runtimes of the
\* tasks first, the runtime that exports last, the guards in between.
LEMMA DropsOrder ==
    ASSUME NEW doc
    PROVE  /\ Within(Drops(doc), 1, 6)
           /\ Drops(doc) # <<>>
           /\ Drops(doc)[Len(Drops(doc))] = "telemetry_runtime"
           /\ {"gossip_runtime", "server_runtime"} \subseteq Range(Drops(doc))
  <1> DEFINE runtimes == <<"gossip_runtime", "server_runtime", "io_runtime">>
             last     == <<"telemetry_runtime">>
             most     == runtimes \o Guards(doc)
  <1>1. Within(runtimes, 1, 3) /\ Within(last, 6, 6)
    <2>1. Within(runtimes, 1, 3)
      BY DEF Within, Place, Local
    <2>2. Within(last, 6, 6)
      BY DEF Within, Place, Local
    <2> QED
      BY <2>1, <2>2
  <1>2. /\ Within(Guard("metrics_guard", MetricsOtel, doc), 4, 4)
        /\ Within(Guard("traces_guard", TracesOtel, doc), 5, 5)
    <2>1. Within(<<>>, 4, 4) /\ Within(<<>>, 5, 5)
      BY DEF Within
    <2>2. Within(<<"metrics_guard">>, 4, 4)
      BY DEF Within, Place, Local
    <2>3. Within(<<"traces_guard">>, 5, 5)
      BY DEF Within, Place, Local
    <2> QED
      BY <2>1, <2>2, <2>3 DEF Guard
  <1>3. Within(Guards(doc), 4, 5)
    BY <1>2, WithinConcat DEF Guards
  <1>4. /\ runtimes \in Seq(Local) /\ Len(runtimes) = 3
        /\ runtimes[1] = "gossip_runtime" /\ runtimes[2] = "server_runtime"
    BY <1>1 DEF Within
  <1>5. last \in Seq(Local) /\ Len(last) = 1 /\ last[1] = "telemetry_runtime"
    BY <1>1 DEF Within
  <1>6. Drops(doc) = most \o last
    BY DEF Drops
  <1> HIDE DEF runtimes, last
  <1>7. Within(most, 1, 5)
    BY <1>1, <1>3, WithinConcat
  <1>8. /\ most \in Seq(Local) /\ Len(most) >= 3
        /\ most[1] = "gossip_runtime" /\ most[2] = "server_runtime"
    <2>1. Guards(doc) \in Seq(Local)
      BY <1>3 DEF Within
    <2> QED
      BY <1>4, <2>1, ConcatFacts
  <1> HIDE DEF most
  <1>9. Within(Drops(doc), 1, 6)
    BY <1>1, <1>6, <1>7, WithinConcat
  <1>10. /\ Len(most) \in Nat /\ DOMAIN Drops(doc) = 1..Len(Drops(doc))
         /\ Len(Drops(doc)) = Len(most) + 1
         /\ Drops(doc)[Len(most) + 1] = "telemetry_runtime"
         /\ Drops(doc)[1] = "gossip_runtime" /\ Drops(doc)[2] = "server_runtime"
    <2> DEFINE n == Len(most) + 1
    <2>0. Len(most) \in Nat
      BY <1>5, <1>8, ConcatFacts
    <2>1. Len(most) >= 3 /\ n \in 1..n /\ 1 \in 1..n /\ 2 \in 1..n
      BY <1>8, <2>0
    <2>2. /\ Len(Drops(doc)) = n /\ DOMAIN Drops(doc) = 1..n
          /\ \A i \in 1..n :
                Drops(doc)[i] = IF i <= Len(most) THEN most[i] ELSE last[i - Len(most)]
      <3>1. /\ Len(most \o last) = Len(most) + Len(last)
            /\ DOMAIN (most \o last) = 1..(Len(most) + Len(last))
            /\ \A i \in 1..(Len(most) + Len(last)) :
                  (most \o last)[i] = IF i <= Len(most) THEN most[i]
                                                       ELSE last[i - Len(most)]
        BY <1>5, <1>8, ConcatFacts
      <3> QED
        BY <1>5, <1>6, <3>1
    <2>3. ~(n <= Len(most)) /\ n - Len(most) = 1 /\ 1 <= Len(most) /\ 2 <= Len(most)
      BY <2>0, <2>1
    <2> HIDE DEF n
    <2>4. Drops(doc)[n] = "telemetry_runtime"
      BY <1>5, <2>1, <2>2, <2>3
    <2>5. Drops(doc)[1] = "gossip_runtime" /\ Drops(doc)[2] = "server_runtime"
      BY <1>8, <2>1, <2>2, <2>3
    <2> QED
      BY <2>0, <2>2, <2>4, <2>5 DEF n
  <1>11. 1 \in DOMAIN Drops(doc) /\ 2 \in DOMAIN Drops(doc) /\ Drops(doc) # <<>>
    BY <1>8, <1>10
  <1> QED
    BY <1>9, <1>10, <1>11 DEF Range

\* Dropping the first local leaves the others, in their order, all after it.
LEMMA TailOrder ==
    ASSUME NEW s, Within(s, 1, 6), s # <<>>
    PROVE  /\ Within(Tail(s), 1, 6)
           /\ Head(s) \in Local
           /\ Range(s) = {Head(s)} \cup Range(Tail(s))
           /\ \A d \in Range(Tail(s)) : Place(Head(s)) < Place(d)
           /\ Tail(s) # <<>> => Tail(s)[Len(Tail(s))] = s[Len(s)]
           /\ s[Len(s)] \in Range(s)
  <1>1. /\ s \in Seq(Local) /\ Len(s) \in Nat /\ Len(s) > 0
        /\ Head(s) = s[1] /\ Tail(s) \in Seq(Local) /\ Len(Tail(s)) = Len(s) - 1
        /\ \A i \in 1..Len(Tail(s)) : Tail(s)[i] = s[i + 1]
        /\ DOMAIN s = 1..Len(s) /\ DOMAIN Tail(s) = 1..Len(Tail(s))
    BY DEF Within
  <1>2. \A i \in 1..Len(Tail(s)) : i + 1 \in 1..Len(s) /\ 1 < i + 1
    BY <1>1
  <1>3. 1 \in 1..Len(s) /\ Len(s) \in 1..Len(s)
    BY <1>1
  <1>4. Within(Tail(s), 1, 6)
    <2>1. \A i \in 1..Len(Tail(s)) : 1 <= Place(Tail(s)[i]) /\ Place(Tail(s)[i]) <= 6
      BY <1>1, <1>2 DEF Within
    <2>2. \A i, j \in 1..Len(Tail(s)) : i < j =>
             Place(Tail(s)[i]) < Place(Tail(s)[j])
      BY <1>1, <1>2 DEF Within
    <2> QED
      BY <1>1, <2>1, <2>2 DEF Within
  <1>5. Range(s) = {Head(s)} \cup Range(Tail(s))
    <2>1. ASSUME NEW i \in 1..Len(s), i # 1
          PROVE  i - 1 \in 1..Len(Tail(s)) /\ s[i] = Tail(s)[i - 1]
      BY <1>1, <2>1
    <2>2. ASSUME NEW d \in Range(s)
          PROVE  d \in {Head(s)} \cup Range(Tail(s))
      <3>1. PICK i \in 1..Len(s) : d = s[i]
        BY <1>1 DEF Range
      <3>2. CASE i = 1
        BY <1>1, <3>1, <3>2
      <3>3. CASE i # 1
        <4>1. i - 1 \in DOMAIN Tail(s) /\ d = Tail(s)[i - 1]
          BY <1>1, <2>1, <3>1, <3>3
        <4> QED
          BY <4>1 DEF Range
      <3> QED
        BY <3>2, <3>3
    <2>3. \A d \in {Head(s)} \cup Range(Tail(s)) : d \in Range(s)
      BY <1>1, <1>2, <1>3 DEF Range
    <2> QED
      BY <2>2, <2>3
  <1>6. \A d \in Range(Tail(s)) : Place(Head(s)) < Place(d)
    BY <1>1, <1>2, <1>3 DEF Range, Within
  <1>7. Tail(s) # <<>> => Tail(s)[Len(Tail(s))] = s[Len(s)]
    BY <1>1
  <1>8. s[Len(s)] \in Range(s) /\ Head(s) \in Local
    BY <1>1, <1>3 DEF Range
  <1> QED
    BY <1>4, <1>5, <1>6, <1>7, <1>8

Asleep == Ended \cup {"none", "dropped"}

(***************************************************************************)
(* The inductive invariant: the locals not yet dropped are in order and    *)
(* end with the telemetry runtime, the runtimes of the tasks are there     *)
(* until run_server is over, and a task that can still do something has    *)
(* its runtime.                                                            *)
(***************************************************************************)
DropInv ==
    /\ Within(drops, 1, 6)
    /\ drops # <<>> => drops[Len(drops)] = "telemetry_runtime"
    /\ main \in Loading => drops = <<>> /\ \A t \in Task : task[t] = "none"
    /\ main \notin Loading \cup {"drop"} \cup Over =>
          {"gossip_runtime", "server_runtime"} \subseteq Range(drops)
    /\ main = "drop" => drops # <<>>
    /\ \A t \in Task : task[t] \notin Asleep => RuntimeOf(t) \in Range(drops)

\* A task that becomes something else while its runtime is there, in a step
\* that drops nothing.
LEMMA TaskKeepsDropInv ==
    ASSUME TypeOK, DropInv, UNCHANGED drops,
           main' = main \/ main' \in Over,
           \A t \in Task : \/ task'[t] = task[t] \/ task'[t] \in Asleep
                           \/ RuntimeOf(t) \in Range(drops),
           main' \in Loading => \A t \in Task : task'[t] = task[t]
    PROVE  DropInv'
  BY DEF DropInv, Over, Loading, Asleep

\* A step that moves run() between two places at which both runtimes of tasks
\* are there.
LEMMA PlaceKeepsDropInv ==
    ASSUME TypeOK, DropInv, UNCHANGED drops,
           main \in Starting \cup {"is_shutdown"} \cup Stopping,
           main' \notin Loading
    PROVE  DropInv'
  <1>1. /\ main \notin Loading \cup {"drop"} \cup Over
        /\ {"gossip_runtime", "server_runtime"} \subseteq Range(drops)
    BY DEF Starting, Stopping, Loading, Over, DropInv
  <1>2. drops # <<>>
    BY <1>1 DEF Range
  <1>3. \A t \in Task : RuntimeOf(t) \in Range(drops)
    BY <1>1 DEF RuntimeOf
  <1> QED
    BY <1>1, <1>2, <1>3 DEF DropInv

\* Every step keeps the order of the locals and the runtimes of live tasks.
LEMMA DropStep ==
    ASSUME TypeOK, DropInv, [Next]_vars
    PROVE  DropInv'
  <1>1. CASE UNCHANGED <<main, drops, task>>
    BY <1>1 DEF DropInv
  <1>2. CASE TaskNext
    <2>1. ASSUME NEW t \in Task, Live(t), \E state : Becomes(t, state),
                 UNCHANGED <<main, loadVars>>
          PROVE  DropInv'
      <3>1. RuntimeOf(t) \in Range(drops) /\ main \notin Over
        BY <2>1 DEF Live, Up
      <3>2. drops # <<>>
        BY <3>1 DEF Range
      <3>3. main' \notin Loading /\ main' = main /\ drops' = drops
        BY <2>1, <3>2 DEF DropInv, loadVars
      <3>4. \A u \in Task : u # t => task'[u] = task[u]
        BY <2>1 DEF Becomes, TypeOK
      <3> QED
        BY <3>1, <3>3, <3>4, TaskKeepsDropInv
    <2>2. CASE \E t \in Server : ServerStep(t)
      BY <2>1, <2>2 DEF ServerStep, ServerStarts, ServerFails, ServerCloses,
                        ServerStops, Task
    <2>3. CASE \E t \in Loop : LoopStep(t)
      BY <2>1, <2>3 DEF LoopStep, LoopStops, LoopPanics, Task
    <2>4. CASE BootstrapStep
      BY <2>1, <2>4 DEF BootstrapStep, BootstrapStops, BootstrapHangs, Task
    <2>5. CASE ReportStops
      BY <2>1, <2>5 DEF ReportStops, Task
    <2> QED
      BY <1>2, <2>2, <2>3, <2>4, <2>5 DEF TaskNext
  <1>3. CASE InitTelemetry
    <2>1. /\ main = "telemetry" /\ main' = "setup" /\ task' = task
          /\ drops' = Drops(load.doc)
      BY <1>3 DEF InitTelemetry, Goto, taskVars
    <2>2. \A t \in Task : task'[t] = "none"
      BY <2>1 DEF DropInv, Loading
    <2> QED
      BY <2>1, <2>2, DropsOrder DEF DropInv, Loading, Over, Asleep
  <1>4. CASE LoadStep /\ ~InitTelemetry
    <2>1. main \in Loading /\ main' \in Loading \cup {"exited"}
          /\ UNCHANGED <<drops, task>>
      BY <1>4 DEF LoadStep, ReadFile, ReadFails, ApplyVariable, VariableFails,
                  Deserialize, InitPanics, Goto, Exit, Loading, loadVars, taskVars
    <2> QED
      BY <2>1 DEF DropInv, Loading, Over
  <1>5. CASE \/ Setup \/ SetupFails \/ ControlStarted \/ Bootstrapped
             \/ BootstrapFails \/ DataStarted \/ SetHandler
             \/ Shutdown \/ ActionsStopped \/ JoinServer \/ JoinGossip
    <2>1. /\ main \in Starting \cup {"is_shutdown"} \cup Stopping
          /\ UNCHANGED drops
      BY <1>5 DEF Setup, SetupFails, ControlStarted, Bootstrapped, BootstrapFails,
                  DataStarted, SetHandler, Shutdown, ActionsStopped, JoinServer,
                  JoinGossip, Starting, Stopping, loadVars
    <2>2. main' \notin Loading
      BY <1>5 DEF Setup, SetupFails, ControlStarted, Bootstrapped, BootstrapFails,
                  DataStarted, SetHandler, Shutdown, ActionsStopped, JoinServer,
                  JoinGossip, Goto, Leave, Loading
    <2> QED
      BY <2>1, <2>2, PlaceKeepsDropInv
  <1>6. CASE DropNext
    <2>1. /\ main = "drop" /\ drops # <<>> /\ drops' = Tail(drops)
          /\ main' = IF drops' = <<>> THEN "exited" ELSE "drop"
          /\ Within(drops, 1, 6) /\ drops[Len(drops)] = "telemetry_runtime"
      BY <1>6 DEF DropNext, DropInv
    <2>2. /\ Within(drops', 1, 6)
          /\ Range(drops) = {Head(drops)} \cup Range(drops')
          /\ drops' # <<>> => drops'[Len(drops')] = "telemetry_runtime"
      BY <2>1, TailOrder
    <2>3. ASSUME NEW t \in Task, task'[t] \notin Asleep
          PROVE  RuntimeOf(t) \in Range(drops')
      <3>1. task'[t] = task[t] /\ RuntimeOf(t) # Head(drops)
        BY <1>6, <2>3 DEF DropNext, Asleep
      <3>2. RuntimeOf(t) \in Range(drops)
        BY <2>3, <3>1 DEF DropInv
      <3> QED
        BY <2>2, <3>1, <3>2
    <2> QED
      BY <2>1, <2>2, <2>3 DEF DropInv, Loading, Over
  <1>7. CASE CtrlC
    <2>1. /\ main' = main \/ main' \in Over
          /\ UNCHANGED <<drops, task>>
      BY <1>7 DEF CtrlC, Goto, Over, loadVars
    <2> QED
      BY <2>1, TaskKeepsDropInv
  <1>8. CASE EngineIO \/ Report \/ Terminated \/ UNCHANGED vars
    BY <1>1, <1>8 DEF EngineIO, Report, Terminated, vars, loadVars, taskVars
  <1> QED
    BY <1>2, <1>3, <1>4, <1>5, <1>6, <1>7, <1>8 DEF Next, MainStep, TaskNext

\* The drop invariant holds in every behaviour.
THEOREM DropInvariant == Spec => []DropInv
  <1>1. ASSUME Init PROVE DropInv
    <2>1. drops = <<>> /\ main = "read_file" /\ task = [t \in Task |-> "none"]
      BY <1>1 DEF Init
    <2>2. Within(<<>>, 1, 6)
      BY DEF Within
    <2> QED
      BY <2>1, <2>2 DEF DropInv, Loading, Asleep
  <1>2. JoinInv /\ DropInv /\ [Next]_vars => DropInv'
    BY DropStep DEF JoinInv
  <1> QED
    BY <1>1, <1>2, JoinInvariant, PTL DEF Spec

\* Only run() drops its locals, and one at a time.
LEMMA OnlyDropNext ==
    ASSUME TypeOK, DropInv, [Next]_vars, drops # <<>>, drops' # drops
    PROVE  DropNext
  <1>1. main \notin Loading
    BY DEF DropInv
  <1>2. ~LoadStep
    BY <1>1 DEF LoadStep, ReadFile, ReadFails, ApplyVariable, VariableFails,
                Deserialize, InitTelemetry, InitPanics, Loading
  <1>3. ~TaskNext
    BY DEF TaskNext, ServerStep, ServerStarts, ServerFails, ServerCloses,
           ServerStops, LoopStep, LoopStops, LoopPanics, BootstrapStep,
           BootstrapStops, BootstrapHangs, ReportStops, loadVars
  <1>4. CASE MainStep
    BY <1>4 DEF MainStep, Setup, SetupFails, ControlStarted, Bootstrapped,
                BootstrapFails, DataStarted, SetHandler, Shutdown,
                ActionsStopped, JoinServer, JoinGossip, loadVars
  <1>5. CASE EngineIO \/ Report \/ CtrlC \/ Terminated \/ UNCHANGED vars
    BY <1>5 DEF EngineIO, Report, CtrlC, Terminated, vars, loadVars
  <1> QED
    BY <1>2, <1>3, <1>4, <1>5 DEF Next, TaskNext

\* The guards of telemetry::init flush when no task is left that could report
\* and while the runtime that exports is there, however run_server ended.
THEOREM FlushIsLast == Spec => FlushesLast
  <1>1. ASSUME TypeOK, DropInv, [Next]_vars, drops # <<>>, drops' = Tail(drops),
               Head(drops) \in {"metrics_guard", "traces_guard"}
        PROVE  /\ \A t \in Task : task[t] \in Ended \cup {"none", "dropped"}
               /\ Up("telemetry_runtime")
    <2>1. Within(drops, 1, 6) /\ drops[Len(drops)] = "telemetry_runtime"
      BY <1>1 DEF DropInv
    <2>2. /\ Range(drops) = {Head(drops)} \cup Range(Tail(drops))
          /\ \A d \in Range(Tail(drops)) : Place(Head(drops)) < Place(d)
          /\ "telemetry_runtime" \in Range(drops)
      BY <1>1, <2>1, TailOrder
    <2>3. Place(Head(drops)) \in {4, 5}
      BY <1>1 DEF Place
    <2>4. ASSUME NEW t \in Task, task[t] \notin Asleep
          PROVE  FALSE
      <3>1. RuntimeOf(t) \in Range(drops)
        BY <1>1, <2>4 DEF DropInv
      <3>2. RuntimeOf(t) \in {"gossip_runtime", "server_runtime"}
        BY DEF RuntimeOf
      <3>3. Place(RuntimeOf(t)) \in {1, 2}
        BY <3>2 DEF Place
      <3>4. RuntimeOf(t) # Head(drops)
        BY <1>1, <3>2
      <3>5. Place(Head(drops)) < Place(RuntimeOf(t))
        BY <2>2, <3>1, <3>4
      <3> QED
        BY <2>3, <3>3, <3>5
    <2>5. drops' # drops
      BY <1>1, <2>1 DEF Within
    <2>6. main = "drop"
      BY <1>1, <2>5, OnlyDropNext DEF DropNext
    <2> QED
      BY <2>2, <2>4, <2>6 DEF Asleep, Up, Over
  <1>2. JoinInv /\ DropInv /\ [Next]_vars =>
          [drops # <<>> /\ drops' = Tail(drops)
              /\ Head(drops) \in {"metrics_guard", "traces_guard"} =>
                 /\ \A t \in Task : task[t] \in Ended \cup {"none", "dropped"}
                 /\ Up("telemetry_runtime")]_vars
    BY <1>1 DEF JoinInv
  <1> QED
    BY <1>2, JoinInvariant, DropInvariant, PTL DEF Spec, FlushesLast

-----------------------------------------------------------------------------
(***************************************************************************)
(* The environment over the file.  No option is a table on the way to      *)
(* another one; that is why the order of the variables does not matter.    *)
(***************************************************************************)
Option == StringOption \cup IntegerOption

\* The keys under which an option is found, none of which is an option's own.
Section == {"server", "storage", "disk_throttle", "iops_counter", "telemetry", "logs",
            "file", "stderr", "opentelemetry", "metrics", "traces"}

\* The keys of the options themselves.
Field == {"advertise_ctrl_addr", "advertise_data_addr", "cluster_id", "dir",
          "listen_ctrl_addr", "listen_data_addr", "data_dir", "disk_capacity",
          "memory_capacity", "mode", "filter", "otlp_endpoint", "push_interval",
          "capture_log_filter", "size", "read_iops", "read_throughput",
          "write_iops", "write_throughput", "max_files"}

Key == Section \cup Field

\* A path through sections to something that is none.
LeadsTo(path) ==
    /\ path \in Seq(Key) /\ Len(path) > 0
    /\ path[Len(path)] \notin Section
    /\ \A i \in 1..(Len(path) - 1) : path[i] \in Section

\* The options listed under a section.
LEMMA UnderLeadsTo ==
    ASSUME NEW parent \in Seq(Section), NEW keys \in SUBSET Field,
           NEW path \in Under(parent, keys)
    PROVE  LeadsTo(path)
  <1>1. PICK key \in keys : path = Append(parent, key)
    BY DEF Under
  <1>2. Field \cap Section = {}
    BY DEF Field, Section
  <1>3. key \in Key /\ key \notin Section
    BY <1>2 DEF Key
  <1>4. parent \in Seq(Key) /\ \A i \in 1..Len(parent) : parent[i] \in Section
    BY DEF Key
  <1>5. /\ path \in Seq(Key) /\ Len(parent) \in Nat
        /\ Len(path) = Len(parent) + 1
        /\ path[Len(parent) + 1] = key
        /\ \A i \in 1..Len(parent) : path[i] = parent[i]
    BY <1>1, <1>3, <1>4, AppendProperties
  <1>6. Len(path) > 0 /\ Len(path) - 1 = Len(parent)
    BY <1>5
  <1> QED
    BY <1>3, <1>4, <1>5, <1>6 DEF LeadsTo

\* The entries of known_option_entries are such paths.
LEMMA OptionLeadsTo == \A path \in Option : LeadsTo(path)
  <1>1. <<"server">> \in Seq(Section) /\ <<"storage">> \in Seq(Section)
    BY DEF Section
  <1>2. Throttle \in Seq(Section) /\ IopsCounter \in Seq(Section)
    <2>1. Throttle \in Seq(Section) /\ "iops_counter" \in Section
      BY DEF Section, Throttle
    <2> QED
      BY <2>1, AppendProperties DEF IopsCounter
  <1>3. LogsFile \in Seq(Section) /\ LogsOtel \in Seq(Section)
    BY DEF Section, LogsFile, LogsOtel
  <1>4. <<"telemetry", "logs", "stderr">> \in Seq(Section)
    BY DEF Section
  <1>5. MetricsOtel \in Seq(Section) /\ TracesOtel \in Seq(Section)
    BY DEF Section, MetricsOtel, TracesOtel
  <1>6. <<"telemetry", "traces">> \in Seq(Section)
    BY DEF Section
  <1> DEFINE Listed(path) ==
               \E parent \in Seq(Section), keys \in SUBSET Field :
                  path \in Under(parent, keys)
  <1>7. ASSUME NEW path \in StringOption
        PROVE  Listed(path)
    BY <1>1, <1>2, <1>3, <1>4, <1>5, <1>6 DEF StringOption, Field
  <1>8. ASSUME NEW path \in IntegerOption
        PROVE  Listed(path)
    BY <1>2, <1>3 DEF IntegerOption, Field
  <1>9. ASSUME NEW path, Listed(path) PROVE LeadsTo(path)
    BY <1>9, UnderLeadsTo
  <1> QED
    BY <1>7, <1>8, <1>9 DEF Option

\* The parents of a path are its shorter prefixes.
LEMMA ParentFacts ==
    ASSUME NEW path \in Seq(Key), NEW p \in Parents(path)
    PROVE  /\ p \in Seq(Key) /\ Len(p) < Len(path)
           /\ \A i \in 1..Len(p) : p[i] = path[i]
  <1>1. PICK l \in 0..Len(path) : p = SubSeq(path, 1, l)
    BY DEF Parents, Prefixes
  <1>2. p # path
    BY DEF Parents
  <1>3. /\ p \in Seq(Key) /\ Len(p) = l
        /\ \A i \in 1..l : p[i] = path[i]
    BY <1>1
  <1>4. l # Len(path)
    <2> SUFFICES ASSUME l = Len(path) PROVE FALSE
      OBVIOUS
    <2>1. Len(p) = Len(path) /\ \A i \in 1..Len(p) : p[i] = path[i]
      BY <1>3
    <2>2. p = path
      BY <1>3, <2>1
    <2> QED
      BY <1>2, <2>2
  <1> QED
    BY <1>3, <1>4

\* What it is to be a prefix.
LEMMA PrefixFacts ==
    ASSUME NEW s \in Seq(Key), NEW t \in Seq(Key), IsPrefix(s, t)
    PROVE  Len(s) <= Len(t) /\ \A i \in 1..Len(s) : s[i] = t[i]
  <1>1. /\ Len(s) \in Nat /\ Len(t) \in Nat /\ Len(s) <= Len(t)
        /\ SubSeq(s, 1, Len(s)) = SubSeq(t, 1, Len(s))
    BY DEF IsPrefix
  <1>2. /\ \A i \in 1..Len(s) : SubSeq(s, 1, Len(s))[i] = s[i]
        /\ \A i \in 1..Len(s) : SubSeq(t, 1, Len(s))[i] = t[i]
    BY <1>1
  <1> QED
    BY <1>1, <1>2

\* No option is a prefix of another one, nor of a table another one is in.
LEMMA OptionsApart ==
    ASSUME NEW a \in Option, NEW b \in Option
    PROVE  /\ IsPrefix(a, b) <=> a = b
           /\ \A p \in Parents(b) : ~IsPrefix(a, p)
           /\ a \notin Parents(b)
  <1>0. /\ a \in Seq(Key) /\ b \in Seq(Key)
        /\ Len(a) \in Nat /\ Len(b) \in Nat /\ Len(a) > 0
        /\ a[Len(a)] \notin Section
        /\ \A i \in 1..(Len(b) - 1) : b[i] \in Section
    BY OptionLeadsTo DEF LeadsTo
  <1>1. ASSUME NEW q \in Seq(Key), Len(q) <= Len(b),
               \A i \in 1..Len(q) : q[i] = b[i], IsPrefix(a, q)
        PROVE  Len(a) = Len(b) /\ Len(q) = Len(b) /\ \A i \in 1..Len(a) : a[i] = b[i]
    <2>1. /\ Len(a) <= Len(q) /\ Len(q) \in Nat
          /\ \A i \in 1..Len(a) : a[i] = q[i]
      BY <1>0, <1>1, PrefixFacts
    <2>2. Len(a) \in 1..Len(q) /\ Len(a) \in 1..Len(a)
      BY <1>0, <2>1
    <2>3. b[Len(a)] \notin Section
      BY <1>0, <1>1, <2>1, <2>2
    <2>4. ~(Len(a) <= Len(b) - 1)
      BY <1>0, <2>2, <2>3
    <2>5. Len(a) = Len(b) /\ Len(q) = Len(b)
      BY <1>0, <1>1, <2>1, <2>4
    <2>6. \A i \in 1..Len(a) : a[i] = b[i]
      BY <1>1, <2>1, <2>5
    <2> QED
      BY <2>5, <2>6
  <1>2. IsPrefix(a, b) => a = b
    <2>1. IsPrefix(a, b) => Len(a) = Len(b) /\ \A i \in 1..Len(a) : a[i] = b[i]
      BY <1>0, <1>1
    <2> QED
      BY <1>0, <2>1
  <1>3. a = b => IsPrefix(a, b)
    BY <1>0 DEF IsPrefix
  <1>4. ASSUME NEW p \in Parents(b) PROVE ~IsPrefix(a, p)
    <2>1. /\ p \in Seq(Key) /\ Len(p) < Len(b) /\ Len(p) \in Nat
          /\ \A i \in 1..Len(p) : p[i] = b[i]
      BY <1>0, ParentFacts
    <2> QED
      BY <1>0, <1>1, <2>1
  <1>5. a \notin Parents(b)
    <2>1. IsPrefix(a, a)
      BY <1>0 DEF IsPrefix
    <2> QED
      BY <1>4, <2>1
  <1> QED
    BY <1>2, <1>3, <1>4, <1>5

\* The document after the variables in `done' have been laid over the file.
Kept(file, done) == {q \in DOMAIN file : \A path \in done : ~IsPrefix(path, q)}

Created(done) == UNION {Parents(path) : path \in done}

Laid(file, env, done) ==
    [p \in Kept(file, done) \cup Created(done) \cup done |->
        IF p \in done THEN Leaf("env", env[p])
        ELSE IF p \in Kept(file, done) THEN file[p] ELSE Table]

\* The tables of a document that its file does not have.
NewTables(file, doc) == {p \in DOMAIN doc \ DOMAIN file : doc[p] = Table}

\* A variable's value is not a table.
LEMMA LeafIsNoTable == \A by, text : Leaf(by, text) # Table
  BY DEF Leaf, Table

\* set_toml_path lays one more variable over the file, and it does not matter
\* which ones are there already.
LEMMA LaidStep ==
    ASSUME NEW file, NEW env, NEW done \in SUBSET Option, NEW path \in Option
    PROVE  SetTomlPath(Laid(file, env, done), path, env[path])
              = Laid(file, env, done \cup {path})
  <1> DEFINE doc  == Laid(file, env, done)
             next == done \cup {path}
             kept == Kept(file, done)
             left == {q \in DOMAIN doc : ~IsStrictPrefix(path, q)}
             new  == left \cup Parents(path) \cup {path}
  <1>1. DOMAIN doc = kept \cup Created(done) \cup done
    BY DEF Laid
  <1>2. \A q \in DOMAIN doc : doc[q] = IF q \in done THEN Leaf("env", env[q])
                              ELSE IF q \in kept THEN file[q] ELSE Table
    BY DEF Laid
  <1>3. \A a \in Option : /\ IsPrefix(path, a) <=> path = a
                          /\ \A p \in Parents(a) : ~IsPrefix(path, p)
                          /\ a \notin Parents(path) /\ path \notin Parents(a)
    BY OptionsApart
  <1>4. Kept(file, next) = {q \in kept : ~IsPrefix(path, q)}
    BY DEF Kept
  <1>5. Created(next) = Created(done) \cup Parents(path)
    BY DEF Created
  <1>6. \A q \in Created(done) : ~IsPrefix(path, q) /\ q # path
    BY <1>3 DEF Created
  <1>7. \A q \in done : IsPrefix(path, q) <=> path = q
    BY <1>3
  <1>8. \A q \in Parents(path) : q \notin next /\ ~IsPrefix(path, q)
    BY <1>3
  <1> HIDE DEF doc, kept
  <1>9. new = Kept(file, next) \cup Created(next) \cup next
    <2>1. \A q \in new : q \in Kept(file, next) \cup Created(next) \cup next
      BY <1>1, <1>4, <1>5 DEF IsStrictPrefix
    <2>2. \A q \in Kept(file, next) \cup Created(next) \cup next : q \in new
      BY <1>1, <1>4, <1>5, <1>6, <1>7 DEF IsStrictPrefix
    <2> QED
      BY <2>1, <2>2
  <1>10. ASSUME NEW q \in new
         PROVE  (IF q = path THEN Leaf("env", env[path])
                 ELSE IF q \in DOMAIN doc THEN doc[q] ELSE Table)
                = (IF q \in next THEN Leaf("env", env[q])
                   ELSE IF q \in Kept(file, next) THEN file[q] ELSE Table)
    <2>1. CASE q = path
      BY <2>1
    <2>2. CASE q # path /\ q \in done
      BY <1>1, <1>2, <2>2
    <2>3. CASE q # path /\ q \notin done /\ q \in kept
      <3>1. ~IsPrefix(path, q)
        BY <1>8, <2>3 DEF IsStrictPrefix
      <3> QED
        BY <1>1, <1>2, <1>4, <2>3, <3>1
    <2>4. CASE q # path /\ q \notin done /\ q \notin kept
      BY <1>1, <1>2, <1>4, <2>4
    <2> QED
      BY <2>1, <2>2, <2>3, <2>4
  <1>11. SetTomlPath(doc, path, env[path])
            = [q \in new |-> IF q = path THEN Leaf("env", env[path])
                             ELSE IF q \in DOMAIN doc THEN doc[q] ELSE Table]
    BY DEF SetTomlPath
  <1>12. Laid(file, env, next)
            = [q \in Kept(file, next) \cup Created(next) \cup next |->
                  IF q \in next THEN Leaf("env", env[q])
                  ELSE IF q \in Kept(file, next) THEN file[q] ELSE Table]
    BY DEF Laid
  <1> HIDE DEF new, next
  <1>13. SetTomlPath(doc, path, env[path]) = Laid(file, env, next)
    BY <1>9, <1>10, <1>11, <1>12
  <1> QED
    BY <1>13 DEF doc, next

\* Whether toml_edit panics on a variable depends on the file alone, not on
\* the variables laid over it before.
LEMMA LaidClashes ==
    ASSUME NEW file, NEW env, NEW done \in SUBSET Option, NEW path \in Option
    PROVE  Clashes(Laid(file, env, done), path) <=> Clashes(file, path)
  <1> DEFINE doc  == Laid(file, env, done)
             kept == Kept(file, done)
  <1>1. /\ DOMAIN doc = kept \cup Created(done) \cup done
        /\ \A q \in DOMAIN doc : doc[q] = IF q \in done THEN Leaf("env", env[q])
                                 ELSE IF q \in kept THEN file[q] ELSE Table
    BY DEF Laid
  <1>2. \A q \in Parents(path) : q \notin done
    BY OptionsApart
  <1>3. \A q \in Parents(path) : q \in DOMAIN file <=> q \in kept
    BY OptionsApart DEF Kept
  <1> HIDE DEF doc, kept
  <1>4. Clashes(doc, path) => Clashes(file, path)
    BY <1>1, <1>2, <1>3 DEF Clashes
  <1>5. Clashes(file, path) => Clashes(doc, path)
    BY <1>1, <1>2, <1>3 DEF Clashes
  <1> QED
    BY <1>4, <1>5 DEF doc

\* The tables a variable creates are the parents it misses: none of them was
\* there before, and none created before is lost.
LEMMA LaidCreates ==
    ASSUME NEW file, NEW env, NEW done \in SUBSET Option, NEW path \in Option
    PROVE  LET doc == Laid(file, env, done)
               new == Laid(file, env, done \cup {path})
           IN  /\ NewTables(file, new) = NewTables(file, doc) \cup MissingParents(doc, path)
               /\ NewTables(file, doc) \cap MissingParents(doc, path) = {}
  <1> DEFINE doc  == Laid(file, env, done)
             next == done \cup {path}
             new  == Laid(file, env, next)
  <1>1. /\ DOMAIN doc = Kept(file, done) \cup Created(done) \cup done
        /\ \A q \in DOMAIN doc : doc[q] = IF q \in done THEN Leaf("env", env[q])
                                 ELSE IF q \in Kept(file, done) THEN file[q] ELSE Table
    BY DEF Laid
  <1>2. /\ DOMAIN new = Kept(file, next) \cup Created(next) \cup next
        /\ \A q \in DOMAIN new : new[q] = IF q \in next THEN Leaf("env", env[q])
                                 ELSE IF q \in Kept(file, next) THEN file[q] ELSE Table
    BY DEF Laid
  <1>3. Created(next) = Created(done) \cup Parents(path)
    BY DEF Created
  <1>4. \A q \in Created(next) : q \notin next
    BY OptionsApart DEF Created
  <1>5. \A q \in Parents(path) : q \in DOMAIN file => q \in Kept(file, done)
    BY OptionsApart DEF Kept
  <1>6. /\ \A q \in Kept(file, done) : q \in DOMAIN file
        /\ \A q \in Kept(file, next) : q \in DOMAIN file
    BY DEF Kept
  <1> HIDE DEF doc, new
  <1>7. ASSUME NEW q
        PROVE  q \in NewTables(file, doc) <=> q \in Created(done) /\ q \notin DOMAIN file
    <2>1. q \in Created(done) => q \notin done
      BY <1>3, <1>4
    <2> QED
      BY <1>1, <1>6, <2>1, LeafIsNoTable DEF NewTables
  <1>8. ASSUME NEW q
        PROVE  q \in NewTables(file, new) <=> q \in Created(next) /\ q \notin DOMAIN file
    BY <1>2, <1>4, <1>6, LeafIsNoTable DEF NewTables
  <1>9. ASSUME NEW q
        PROVE  q \in MissingParents(doc, path) <=>
                  q \in Parents(path) /\ q \notin DOMAIN doc
    BY DEF MissingParents
  <1>10. \A q \in Parents(path) : q \notin DOMAIN file /\ q \in DOMAIN doc =>
            q \in Created(done)
    BY <1>1, <1>3, <1>4, <1>6
  <1>11. NewTables(file, new) = NewTables(file, doc) \cup MissingParents(doc, path)
    BY <1>1, <1>3, <1>5, <1>7, <1>8, <1>9, <1>10
  <1>12. NewTables(file, doc) \cap MissingParents(doc, path) = {}
    BY <1>1, <1>7, <1>9
  <1> QED
    BY <1>11, <1>12 DEF doc, new

\* A path has finitely many parents.
LEMMA ParentsFinite ==
    ASSUME NEW path \in Seq(Key), NEW some \in SUBSET Parents(path)
    PROVE  IsFiniteSet(some)
  <1> DEFINE f == [l \in 0..Len(path) |-> SubSeq(path, 1, l)]
  <1>1. IsFiniteSet(0..Len(path))
    BY FS_Interval
  <1>2. f \in Surjection(0..Len(path), Prefixes(path))
    BY DEF Surjection, Prefixes
  <1>3. IsFiniteSet(Prefixes(path))
    BY <1>1, <1>2, FS_Surjection DEF ExistsSurjection
  <1>4. some \in SUBSET Prefixes(path)
    BY DEF Parents
  <1> QED
    BY <1>3, <1>4, FS_Subset

(***************************************************************************)
(* The inductive invariant of load_config: the document is the file with   *)
(* the variables that are no longer pending laid over it, all of which     *)
(* could be used, and there has been a warning for every table created.    *)
(***************************************************************************)
Applied == DOMAIN load.env \ load.pending

LoadInv ==
    /\ load = [file |-> load.file, env |-> load.env, pending |-> load.pending,
               doc |-> load.doc, warnings |-> load.warnings]
    /\ main \in {"read_file", "environment"} =>
          /\ load.pending \subseteq DOMAIN load.env
          /\ \A path \in Applied : /\ Accepted(path, load.env[path])
                                   /\ ~Clashes(load.file, path)
          /\ load.doc = Laid(load.file, load.env, Applied)
          /\ IsFiniteSet(NewTables(load.file, load.doc))
          /\ load.warnings = Cardinality(NewTables(load.file, load.doc))

\* Before the first variable the document is the file.
LEMMA LoadInit ==
    ASSUME Init
    PROVE  LoadInv
  <1>1. PICK file \in Files, env \in Envs :
           load = [file |-> file, env |-> env, pending |-> DOMAIN env, doc |-> file,
                   warnings |-> 0]
    BY DEF Init
  <1>2. /\ load.file = file /\ load.env = env /\ load.pending = DOMAIN env
        /\ load.doc = file /\ load.warnings = 0 /\ Applied = {}
    BY <1>1 DEF Applied
  <1>3. file = [p \in DOMAIN file |-> file[p]]
    BY FilesAssumption
  <1>4. Kept(file, {}) = DOMAIN file /\ Created({}) = {}
    BY DEF Kept, Created
  <1>5. Laid(file, env, {}) = file
    BY <1>3, <1>4 DEF Laid
  <1>6. NewTables(file, file) = {}
    BY DEF NewTables
  <1> QED
    BY <1>1, <1>2, <1>5, <1>6, FS_EmptySet DEF LoadInv

\* One turn of the loop over the environment.
LEMMA ApplyStep ==
    ASSUME LoadInv, NEW path \in load.pending, ApplyVariable(path)
    PROVE  LoadInv'
  <1> DEFINE doc == load.doc
  <1>1. /\ main = "environment" /\ main' = main
        /\ Accepted(path, load.env[path]) /\ ~Clashes(doc, path)
        /\ load' = [load EXCEPT
                      !.pending  = @ \ {path},
                      !.doc      = SetTomlPath(@, path, load.env[path]),
                      !.warnings = @ + Cardinality(MissingParents(doc, path))]
    BY DEF ApplyVariable
  <1>2. /\ load = [file |-> load.file, env |-> load.env, pending |-> load.pending,
                   doc |-> load.doc, warnings |-> load.warnings]
        /\ load.pending \subseteq DOMAIN load.env
        /\ \A q \in Applied : Accepted(q, load.env[q]) /\ ~Clashes(load.file, q)
        /\ load.doc = Laid(load.file, load.env, Applied)
        /\ IsFiniteSet(NewTables(load.file, load.doc))
        /\ load.warnings = Cardinality(NewTables(load.file, load.doc))
    BY <1>1 DEF LoadInv
  <1>3. load' = [file |-> load.file, env |-> load.env, pending |-> load.pending \ {path},
                 doc |-> SetTomlPath(doc, path, load.env[path]),
                 warnings |-> load.warnings + Cardinality(MissingParents(doc, path))]
    BY <1>1, <1>2
  <1>4. Applied' = Applied \cup {path}
    BY <1>2, <1>3 DEF Applied
  <1>5. path \in Option /\ Applied \in SUBSET Option
    BY <1>1, <1>2 DEF Accepted, Option
  <1>6. load.doc' = Laid(load.file, load.env, Applied \cup {path})
    BY <1>2, <1>3, <1>5, LaidStep
  <1>7. ~Clashes(load.file, path)
    BY <1>1, <1>2, <1>5, LaidClashes
  <1> DEFINE old  == NewTables(load.file, doc)
             made == MissingParents(doc, path)
  <1>8. NewTables(load.file, load.doc') = old \cup made /\ old \cap made = {}
    BY <1>2, <1>5, <1>6, LaidCreates
  <1>9. IsFiniteSet(made)
    <2>1. path \in Seq(Key) /\ made \in SUBSET Parents(path)
      BY <1>5, OptionLeadsTo DEF LeadsTo, MissingParents
    <2> QED
      BY <2>1, ParentsFinite
  <1>10. /\ IsFiniteSet(old \cup made)
         /\ Cardinality(old \cup made) = Cardinality(old) + Cardinality(made)
    <2> HIDE DEF old, made
    <2>1. IsFiniteSet(old)
      BY <1>2 DEF old
    <2>2. /\ Cardinality(old) \in Nat /\ Cardinality(made) \in Nat
          /\ Cardinality(old \cap made) = 0
      BY <1>8, <1>9, <2>1, FS_CardinalityType, FS_EmptySet
    <2>3. /\ IsFiniteSet(old \cup made)
          /\ Cardinality(old \cup made) =
                Cardinality(old) + Cardinality(made) - Cardinality(old \cap made)
      BY <1>9, <2>1, FS_Union
    <2> QED
      BY <2>2, <2>3
  <1> HIDE DEF old, made, doc
  <1>11. /\ load.file' = load.file /\ load.env' = load.env
         /\ load.pending' = load.pending \ {path}
         /\ load.warnings' = load.warnings + Cardinality(made)
         /\ load' = [file |-> load'.file, env |-> load'.env, pending |-> load'.pending,
                     doc |-> load'.doc, warnings |-> load'.warnings]
    BY <1>3 DEF made
  <1>12. /\ IsFiniteSet(NewTables(load.file', load.doc'))
         /\ load.warnings' = Cardinality(NewTables(load.file', load.doc'))
    BY <1>2, <1>8, <1>10, <1>11 DEF old, doc
  <1>13. load.doc' = Laid(load.file', load.env', Applied')
    BY <1>4, <1>6, <1>11
  <1>14. \A q \in Applied' : Accepted(q, load.env'[q]) /\ ~Clashes(load.file', q)
    BY <1>1, <1>2, <1>4, <1>7, <1>11
  <1>15. load.pending' \subseteq DOMAIN load.env'
    BY <1>2, <1>11
  <1> QED
    BY <1>11, <1>12, <1>13, <1>14, <1>15 DEF LoadInv

\* Nothing but the loop over the environment touches what load_config has
\* made so far.
LEMMA LoadStays ==
    ASSUME TypeOK, [Next]_vars, ~\E path \in load.pending : ApplyVariable(path)
    PROVE  \/ /\ load' = load
              /\ main' \in {"read_file", "environment"} =>
                    main \in {"read_file", "environment"}
           \/ load' = NoLoad /\ main' = "setup"
  <1>1. CASE LoadStep
    BY <1>1 DEF LoadStep, ReadFile, ReadFails, VariableFails, Deserialize,
                InitTelemetry, InitPanics, Goto, Exit, loadVars
  <1>2. CASE TaskNext
    BY <1>2 DEF TaskNext, ServerStep, ServerStarts, ServerFails, ServerCloses,
                ServerStops, LoopStep, LoopStops, LoopPanics, BootstrapStep,
                BootstrapStops, BootstrapHangs, ReportStops, loadVars
  <1>3. CASE MainStep
    BY <1>3 DEF MainStep, Setup, SetupFails, ControlStarted, Bootstrapped,
                BootstrapFails, DataStarted, SetHandler, Shutdown, ActionsStopped,
                JoinServer, JoinGossip, DropNext, Goto, Leave, loadVars
  <1>4. CASE EngineIO \/ Report \/ CtrlC \/ Terminated \/ UNCHANGED vars
    BY <1>4 DEF EngineIO, Report, CtrlC, Terminated, Goto, vars, loadVars
  <1> QED
    BY <1>1, <1>2, <1>3, <1>4 DEF Next, TaskNext

\* The document is always the file under the variables applied so far.
THEOREM LoadInvariant == Spec => []LoadInv
  <1>1. ASSUME TypeOK, LoadInv, [Next]_vars
        PROVE  LoadInv'
    <2>1. CASE \E path \in load.pending : ApplyVariable(path)
      BY <1>1, <2>1, ApplyStep
    <2>2. CASE /\ load' = load
               /\ main' \in {"read_file", "environment"} =>
                     main \in {"read_file", "environment"}
      BY <1>1, <2>2 DEF LoadInv, Applied
    <2>3. CASE load' = NoLoad /\ main' = "setup"
      BY <2>3 DEF LoadInv, NoLoad
    <2> QED
      BY <1>1, <2>1, <2>2, <2>3, LoadStays
  <1>2. JoinInv /\ LoadInv /\ [Next]_vars => LoadInv'
    BY <1>1 DEF JoinInv
  <1> QED
    BY <1>2, LoadInit, JoinInvariant, PTL DEF Spec

\* With every variable laid over it the file is what load_config promises.
LEMMA LaidIsOverlay ==
    ASSUME NEW file, NEW env
    PROVE  Laid(file, env, DOMAIN env) = Overlay(file, env)
  BY DEF Laid, Overlay, Kept, Created

\* How load_config ends.
LEMMA LoadEnds ==
    ASSUME [Next]_vars, main = "environment", main' \notin {"environment", "killed"}
    PROVE  Deserialize \/ \E path \in load.pending : VariableFails(path)
  <1>1. ~TaskNext
    BY DEF TaskNext, ServerStep, ServerStarts, ServerFails, ServerCloses,
           ServerStops, LoopStep, LoopStops, LoopPanics, BootstrapStep,
           BootstrapStops, BootstrapHangs, ReportStops
  <1>2. ~MainStep
    BY DEF MainStep, Setup, SetupFails, ControlStarted, Bootstrapped,
           BootstrapFails, DataStarted, SetHandler, Shutdown, ActionsStopped,
           JoinServer, JoinGossip, DropNext
  <1>3. ~(EngineIO \/ Report \/ CtrlC \/ Terminated \/ UNCHANGED vars)
    BY DEF EngineIO, Report, CtrlC, Terminated, Goto, Loading, Over, vars
  <1>4. LoadStep
    BY <1>1, <1>2, <1>3 DEF Next, TaskNext
  <1> QED
    BY <1>4 DEF LoadStep, ReadFile, ReadFails, ApplyVariable, InitTelemetry, InitPanics

\* Whatever the order in which the HashMap yields the variables, load_config
\* lays the environment over the file, and the start fails exactly when a
\* variable cannot be used or the result is not a Config.
THEOREM LoadsOverlay == Spec => LoadIsOverlay
  <1>1. ASSUME LoadInv, [Next]_vars, main = "environment",
               main' \notin {"environment", "killed"}
        PROVE  IF main' = "telemetry"
               THEN /\ load.doc = Overlay(load.file, load.env)
                    /\ Loadable(load.file, load.env)
               ELSE ~Loadable(load.file, load.env)
    <2>1. /\ load.pending \subseteq DOMAIN load.env
          /\ \A q \in Applied : Accepted(q, load.env[q]) /\ ~Clashes(load.file, q)
          /\ load.doc = Laid(load.file, load.env, Applied)
      BY <1>1 DEF LoadInv
    <2>2. CASE Deserialize
      <3>1. Applied = DOMAIN load.env
        BY <2>2 DEF Deserialize, Applied
      <3>2. load.doc = Overlay(load.file, load.env)
        BY <2>1, <3>1, LaidIsOverlay
      <3>3. main' = IF Deserializes(load.doc) THEN "telemetry" ELSE "exited"
        BY <2>2 DEF Deserialize, Goto, Exit
      <3>4. Loadable(load.file, load.env) <=> Deserializes(load.doc)
        BY <2>1, <3>1, <3>2 DEF Loadable
      <3> QED
        BY <3>2, <3>3, <3>4
    <2>3. ASSUME NEW path \in load.pending, VariableFails(path)
          PROVE  main' # "telemetry" /\ ~Loadable(load.file, load.env)
      <3>1. main' = "exited" /\ path \in DOMAIN load.env
        BY <2>1, <2>3 DEF VariableFails, Exit
      <3>2. CASE ~Accepted(path, load.env[path])
        BY <3>1, <3>2 DEF Loadable
      <3>3. CASE Accepted(path, load.env[path]) /\ Clashes(load.doc, path)
        <4>1. path \in Option /\ Applied \in SUBSET Option
          BY <2>1, <3>3 DEF Accepted, Option
        <4>2. Clashes(load.file, path)
          BY <2>1, <3>3, <4>1, LaidClashes
        <4> QED
          BY <3>1, <4>2 DEF Loadable
      <3> QED
        BY <2>3, <3>2, <3>3 DEF VariableFails
    <2> QED
      BY <1>1, <2>2, <2>3, LoadEnds
  <1>2. LoadInv /\ [Next]_vars =>
          [main = "environment" /\ main' \notin {"environment", "killed"} =>
             IF main' = "telemetry"
             THEN /\ load.doc = Overlay(load.file, load.env)
                  /\ Loadable(load.file, load.env)
             ELSE ~Loadable(load.file, load.env)]_vars
    BY <1>1
  <1> QED
    BY <1>2, LoadInvariant, PTL DEF Spec, LoadIsOverlay

\* A table that the environment creates is warned of once, however many
\* variables are set in it and in whatever order they are applied.
THEOREM WarnsOfCreated == Spec => CreatedIsWarned
  <1>1. LoadInv /\ [Next]_vars =>
          [main = "environment" /\ main' = "telemetry" =>
             load.warnings = Cardinality({path \in DOMAIN load.doc \ DOMAIN load.file :
                                             load.doc[path] = Table})]_vars
    BY DEF LoadInv, NewTables
  <1> QED
    BY <1>1, LoadInvariant, PTL DEF Spec, CreatedIsWarned

==============================================================================
