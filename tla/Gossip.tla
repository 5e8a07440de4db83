------------------------------- MODULE Gossip -------------------------------
(***************************************************************************)
(* The gossip protocol of a Percas cluster (crates/gossip/src/gossip.rs),  *)
(* with the start-up sequence that creates a node's identity (start_gossip *)
(* in crates/server/src/server.rs, crates/gossip/src/node.rs).             *)
(*                                                                         *)
(* A node runs its gossip server and its loops on a runtime with a single  *)
(* worker thread, so everything between two awaits is one step here.  An   *)
(* exchange is an HTTP request that the peer's handler answers; it awaits, *)
(* and during it anything may happen: the request or its answer is lost    *)
(* and retried, the request is handled after the caller has given up on    *)
(* it, a node crashes and comes back under a new incarnation, perhaps at   *)
(* another address.  The first store of start() is the one write made by   *)
(* another thread (see DeliverDuringStart).                                *)
(***************************************************************************)
EXTENDS Membership, Sequences, FiniteSets

CONSTANTS
    AddrOf,          \* AddrOf[n]: the addresses node n may come up at
    InitialPeers,    \* InitialPeers[n]: the URLs of n's config, in order
    Skew,            \* Skew[n]: how far n's wall clock is ahead of `clock'
    Deadline,        \* DEFAULT_MEMBER_DEADLINE
    MaxRetries,      \* DEFAULT_RETRIES
    DiskMayFail,     \* whether a write of node.json can fail half-way
    Torn,            \* the content of a half-written node.json
    MaxClock,        \* bound: how far the clock runs
    MaxIncarnation,  \* bound: how many incarnations a node goes through
    MaxInFlight,     \* bound: exchanges awaited at one time in the cluster
    MaxHung,         \* bound: exchanges whose peer will never answer
    MaxLosses,       \* bound: attempts that fail though the peer is up
    MaxLate          \* bound: abandoned requests still on their way

ASSUME ConstantsAssumption ==
    /\ AddrOf \in [Node -> SUBSET Addr]
    /\ InitialPeers \in [Node -> Seq(Addr)]
    /\ Skew \in [Node -> Nat]
    /\ Deadline \in Nat
    /\ MaxRetries \in Nat
    /\ DiskMayFail \in BOOLEAN
    /\ MaxClock \in Nat
    /\ MaxIncarnation \in Nat
    /\ MaxInFlight \in Nat
    /\ MaxHung \in Nat
    /\ MaxLosses \in Nat
    /\ MaxLate \in Nat
    /\ Torn \notin Nat /\ None \notin Nat /\ Torn # None

VARIABLES
    clock,       \* real time, in ticks
    phase,       \* phase[n]: how far the process of n has come
    disk,        \* disk[n]: the incarnation in n's node.json, None or Torn
    current,     \* current[n]: current_node, None while n is down
    membership,  \* membership[n]: n's table
    ring,        \* ring[n]: the ids n's hash ring was built from
    call,        \* call[n][t]: the exchange task t of n is awaiting, or None
    bootStep,    \* bootStep[n]: the next step of fast_bootstrap
    panicked,    \* panicked[n]: the tasks of n that died
    losses,      \* how many attempts the network has lost
    late         \* abandoned requests that may still be handled

vars == <<clock, phase, disk, current, membership, ring, call, bootStep,
          panicked, losses, late>>

\* The two loops that talk to peers, and the bootstrap that precedes them.
Loop == {"ping", "sync"}
Task == Loop \cup {"boot"}

(***************************************************************************)
(* "serving": the control server answers, the table is still the default;  *)
(* "bootstrap": start() has stored its table and fast_bootstrap runs;      *)
(* "running": the loops have been spawned.                                 *)
(***************************************************************************)
Phase == {"down", "serving", "bootstrap", "running"}

Ping(info)    == [type |-> "ping", info |-> info]
Ack(info)     == [type |-> "ack", info |-> info]
Sync(members) == [type |-> "sync", members |-> members]

GossipMessage ==
    [type: {"ping", "ack"}, info: NodeInfo] \cup [type: {"sync"}, members: Table]

\* The outcome of an attempt whose handler panicked: there is no answer.
Failed == [type |-> "failed"]

\* The peer holds the connection and will never answer.
Silent == [type |-> "silent"]

\* The outcomes of an attempt that bring no message.
NoAnswer == {None, Failed, Silent}

(***************************************************************************)
(* An exchange: the URL called, the member it was picked from (None for an *)
(* initial peer), the request, how often it has been retried, the answer.  *)
(***************************************************************************)
Call == [url: Addr, peer: NodeInfo \cup {None}, msg: GossipMessage,
         tries: 0..MaxRetries, reply: GossipMessage \cup NoAnswer]

NewCall(url, peer, msg) ==
    [url |-> url, peer |-> peer, msg |-> msg, tries |-> 0, reply |-> None]

NoCalls == [t \in Task |-> None]

Request == [url: Addr, msg: GossipMessage]

TypeOK ==
    /\ clock \in Nat
    /\ phase \in [Node -> Phase]
    /\ disk \in [Node -> Nat \cup {None, Torn}]
    /\ current \in [Node -> NodeInfo \cup {None}]
    /\ membership \in [Node -> Table]
    /\ ring \in [Node -> SUBSET Node]
    /\ call \in [Node -> [Task -> Call \cup {None}]]
    /\ bootStep \in [Node -> Nat]
    /\ panicked \in [Node -> SUBSET Loop]
    /\ losses \in 0..MaxLosses
    /\ late \in SUBSET Request

Init ==
    /\ clock = 0
    /\ phase = [n \in Node |-> "down"]
    /\ disk = [n \in Node |-> None]
    /\ current = [n \in Node |-> None]
    /\ membership = [n \in Node |-> EmptyTable]
    /\ ring = [n \in Node |-> {}]
    /\ call = [n \in Node |-> NoCalls]
    /\ bootStep = [n \in Node |-> 0]
    /\ panicked = [n \in Node |-> {}]
    /\ losses = 0
    /\ late = {}

-----------------------------------------------------------------------------
(***************************************************************************)
(* Time, identity, start and crash.                                        *)
(***************************************************************************)

\* Timestamp::now() on node n.
Now(n) == clock + Skew[n]

AliveNow(n, info) == [info |-> info, status |-> "alive", heartbeat |-> Now(n)]

Tick ==
    /\ clock < MaxClock
    /\ clock' = clock + 1
    /\ UNCHANGED <<phase, disk, current, membership, ring, call, bootStep,
                   panicked, losses, late>>

\* A restart that goes on with the incarnation it finds in node.json.
ReusedIncarnation(n) == IF disk[n] = None THEN 0 ELSE disk[n]

\* NodeInfo::load and advance_incarnation, or NodeInfo::new without a file.
NextIncarnation(n) == IF disk[n] = None THEN 0 ELSE disk[n] + 1

\* A process that binds address a can find node.json absent or readable;
\* with a torn file NodeInfo::load panics and the process never starts.
CanBoot(n, a) ==
    /\ phase[n] = "down"
    /\ disk[n] # Torn
    /\ NextIncarnation(n) <= MaxIncarnation
    /\ a \in AddrOf[n]
    /\ \A m \in Node : phase[m] # "down" => current[m].url # a

\* start_gossip up to the control server answering requests.
Boot(n, a) ==
    /\ CanBoot(n, a)
    /\ disk' = [disk EXCEPT ![n] = NextIncarnation(n)]
    /\ current' = [current EXCEPT ![n] =
            [node_id |-> n, url |-> a, incarnation |-> NextIncarnation(n)]]
    /\ phase' = [phase EXCEPT ![n] = "serving"]
    /\ UNCHANGED <<clock, membership, ring, call, bootStep, panicked, losses, late>>

\* The same, but the process dies while it writes node.json.
BootTorn(n) ==
    /\ DiskMayFail
    /\ \E a \in AddrOf[n] : CanBoot(n, a)
    /\ disk' = [disk EXCEPT ![n] = Torn]
    /\ UNCHANGED <<clock, phase, current, membership, ring, call, bootStep,
                   panicked, losses, late>>

\* The process ends, by a crash or by ctrl-c: no one is told.
Crash(n) ==
    /\ phase[n] # "down"
    /\ phase' = [phase EXCEPT ![n] = "down"]
    /\ current' = [current EXCEPT ![n] = None]
    /\ membership' = [membership EXCEPT ![n] = EmptyTable]
    /\ ring' = [ring EXCEPT ![n] = {}]
    /\ call' = [call EXCEPT ![n] = NoCalls]
    /\ bootStep' = [bootStep EXCEPT ![n] = 0]
    /\ panicked' = [panicked EXCEPT ![n] = {}]
    /\ UNCHANGED <<clock, disk, losses, late>>

-----------------------------------------------------------------------------
(***************************************************************************)
(* Handling a message (handle_message).                                    *)
(***************************************************************************)

\* A handler that believes what a Sync says of the node itself.
HandledUnvouched(n, msg) ==
    IF msg.type = "sync"
    THEN UpdateMembers(membership[n], msg.members)
    ELSE UpdateMember(membership[n], AliveNow(n, msg.info))

\* The table handle_message stores.  A Sync is merged entry by entry and the
\* node then vouches for itself; a Ping or an Ack vouches for its sender.
Handled(n, msg) ==
    IF msg.type = "sync"
    THEN UpdateMember(UpdateMembers(membership[n], msg.members),
                      AliveNow(n, current[n]))
    ELSE UpdateMember(membership[n], AliveNow(n, msg.info))

\* The answer, made before the incarnation is advanced.
ReplyTo(n, msg) ==
    CASE msg.type = "ping" -> Ack(current[n])
      [] msg.type = "sync" -> Sync(Handled(n, msg))
      [] OTHER             -> None

\* advance_incarnation without the write of node.json.
AdvanceInMemory(n) ==
    /\ current[n].incarnation < MaxIncarnation
    /\ current' = [current EXCEPT ![n].incarnation = @ + 1]
    /\ UNCHANGED disk

AdvanceIncarnation(n) ==
    /\ current[n].incarnation < MaxIncarnation
    /\ disk' = [disk EXCEPT ![n] = current[n].incarnation + 1]
    /\ current' = [current EXCEPT ![n].incarnation = @ + 1]

HandleMessage(n, msg) ==
    /\ membership' = [membership EXCEPT ![n] = Handled(n, msg)]
    /\ IF IsDead(Handled(n, msg), n)
       THEN AdvanceIncarnation(n)
       ELSE UNCHANGED <<current, disk>>

\* persist() panics, after the table has been stored: node.json could not be
\* written, or it was written half-way.
HandleMessagePanics(n, msg) ==
    /\ DiskMayFail
    /\ IsDead(Handled(n, msg), n)
    /\ membership' = [membership EXCEPT ![n] = Handled(n, msg)]
    /\ \E content \in {disk[n], Torn} : disk' = [disk EXCEPT ![n] = content]
    /\ UNCHANGED current

-----------------------------------------------------------------------------
(***************************************************************************)
(* Exchanges.  A request reaches whichever process now serves its URL.     *)
(***************************************************************************)
Serves(m, url) == phase[m] # "down" /\ current[m].url = url

Hung(n, t) == call[n][t] # None /\ call[n][t].reply = Silent

\* The exchanges in progress; one that hangs does not count against the bound.
InFlight ==
    {nt \in Node \X Task : call[nt[1]][nt[2]] # None /\ ~Hung(nt[1], nt[2])}

MayCall == Cardinality(InFlight) < MaxInFlight

Awaiting(n, t) == call[n][t] # None /\ call[n][t].reply = None

Answered(n, t) == call[n][t] # None /\ call[n][t].reply \notin NoAnswer

Deliver(n, t, m) ==
    /\ Awaiting(n, t)
    /\ Serves(m, call[n][t].url)
    /\ HandleMessage(m, call[n][t].msg)
    /\ call' = [call EXCEPT ![n][t].reply = ReplyTo(m, call[n][t].msg)]
    /\ UNCHANGED <<clock, phase, ring, bootStep, panicked, losses, late>>

\* start() stores its table on the server runtime's thread.  A handler that
\* loaded the table before that store and stores after it wipes it out.
DeliverDuringStart(n, t, m) ==
    /\ Awaiting(n, t)
    /\ Serves(m, call[n][t].url)
    /\ phase[m] = "serving"
    /\ HandleMessage(m, call[n][t].msg)
    /\ call' = [call EXCEPT ![n][t].reply = ReplyTo(m, call[n][t].msg)]
    /\ phase' = [phase EXCEPT ![m] = "bootstrap"]
    /\ UNCHANGED <<clock, ring, bootStep, panicked, losses, late>>

DeliverPanics(n, t, m) ==
    /\ Awaiting(n, t)
    /\ Serves(m, call[n][t].url)
    /\ HandleMessagePanics(m, call[n][t].msg)
    /\ call' = [call EXCEPT ![n][t].reply = Failed]
    /\ UNCHANGED <<clock, phase, ring, bootStep, panicked, losses, late>>

\* The peer takes the request, runs the handler or not, and never answers:
\* Client::new() sets no timeout, so the attempt lasts as long as the peer.
Hang(n, t) ==
    /\ Cardinality({nt \in Node \X Task : Hung(nt[1], nt[2])}) < MaxHung
    /\ call[n][t] # None
    /\ call[n][t].reply \notin {Failed, Silent}
    /\ \E m \in Node : Serves(m, call[n][t].url)
    /\ call' = [call EXCEPT ![n][t].reply = Silent]
    /\ UNCHANGED <<clock, phase, disk, current, membership, ring, bootStep,
                   panicked, losses, late>>

\* The attempt ends in an error, with the request handled or not: no process
\* serves the URL (any more), the handler panicked, or the network lost the
\* request or its answer.
AttemptFails(n, t) ==
    /\ call[n][t] # None
    /\ \/ /\ \/ call[n][t].reply = Failed
             \/ /\ call[n][t].reply \in {None, Silent}
                /\ \A m \in Node : ~Serves(m, call[n][t].url)
          /\ UNCHANGED losses
       \/ /\ call[n][t].reply \notin {Failed, Silent}
          /\ \E m \in Node : Serves(m, call[n][t].url)
          /\ losses < MaxLosses
          /\ losses' = losses + 1

\* A retry that is not limited to DEFAULT_RETRIES.
RetryForever(n, t) ==
    /\ AttemptFails(n, t)
    /\ call[n][t].tries <= MaxRetries
    /\ call' = [call EXCEPT ![n][t].tries = @ + 1, ![n][t].reply = None]
    /\ UNCHANGED <<clock, phase, disk, current, membership, ring, bootStep,
                   panicked, late>>

Retry(n, t) ==
    /\ AttemptFails(n, t)
    /\ call[n][t].tries < MaxRetries
    /\ call' = [call EXCEPT ![n][t].tries = @ + 1, ![n][t].reply = None]
    /\ UNCHANGED <<clock, phase, disk, current, membership, ring, bootStep,
                   panicked, late>>

\* The caller sees an error, yet the request is still on its way.
RetryLate(n, t) ==
    /\ Awaiting(n, t)
    /\ call[n][t].tries < MaxRetries
    /\ losses < MaxLosses
    /\ Cardinality(late) < MaxLate
    /\ losses' = losses + 1
    /\ late' = late \cup {[url |-> call[n][t].url, msg |-> call[n][t].msg]}
    /\ call' = [call EXCEPT ![n][t].tries = @ + 1]
    /\ UNCHANGED <<clock, phase, disk, current, membership, ring, bootStep,
                   panicked>>

DeliverLate(r, m) ==
    /\ r \in late
    /\ Serves(m, r.url)
    /\ HandleMessage(m, r.msg) \/ HandleMessagePanics(m, r.msg)
    /\ late' = late \ {r}
    /\ UNCHANGED <<clock, phase, ring, call, bootStep, panicked, losses>>

\* The same race as in DeliverDuringStart.
DeliverLateDuringStart(r, m) ==
    /\ r \in late
    /\ Serves(m, r.url)
    /\ phase[m] = "serving"
    /\ HandleMessage(m, r.msg)
    /\ late' = late \ {r}
    /\ phase' = [phase EXCEPT ![m] = "bootstrap"]
    /\ UNCHANGED <<clock, ring, call, bootStep, panicked, losses>>

\* A mark_dead that condemns whatever the table now holds under the id.
MarkDeadById(table, peer) ==
    IF table[peer.node_id] = None
    THEN table
    ELSE [table EXCEPT ![peer.node_id].status = "dead"]

\* A mark_dead that is forgotten.
MarkDeadNot(table, peer) == table

\* mark_dead: the report carries the heartbeat the table has now, and the
\* identity the exchange was started with.
MarkDead(table, peer) ==
    IF table[peer.node_id] = None
    THEN table
    ELSE UpdateMember(table, [info      |-> peer,
                              status    |-> "dead",
                              heartbeat |-> table[peer.node_id].heartbeat])

EndCall(n, t) == call' = [call EXCEPT ![n][t] = None]

\* The answer arrives: handle_message runs in the calling task.
HandleReply(n, t) ==
    /\ Answered(n, t)
    /\ HandleMessage(n, call[n][t].reply)
    /\ EndCall(n, t)
    /\ bootStep' = [bootStep EXCEPT ![n] = IF t = "boot" THEN @ + 1 ELSE @]
    /\ UNCHANGED <<clock, phase, ring, panicked, losses, late>>

\* As above, but persist() panics and takes the loop with it.  (During
\* fast_bootstrap it cannot: see OnlySelfSuspicion.)
HandleReplyPanics(n, t) ==
    /\ Answered(n, t)
    /\ t \in Loop
    /\ HandleMessagePanics(n, call[n][t].reply)
    /\ EndCall(n, t)
    /\ panicked' = [panicked EXCEPT ![n] = @ \cup {t}]
    /\ UNCHANGED <<clock, phase, ring, bootStep, losses, late>>

\* A loop's last attempt fails: its peer is marked dead.
GiveUp(n, t) ==
    /\ t \in Loop
    /\ AttemptFails(n, t)
    /\ call[n][t].tries = MaxRetries
    /\ membership' = [membership EXCEPT ![n] = MarkDead(@, call[n][t].peer)]
    /\ EndCall(n, t)
    /\ UNCHANGED <<clock, phase, disk, current, ring, bootStep, panicked, late>>

-----------------------------------------------------------------------------
(***************************************************************************)
(* Start-up (start, fast_bootstrap) and the periodic loops.                *)
(***************************************************************************)

\* A rebuild that trusts the table to list the node itself.
RingOfTable(n, table) == Members(table)

\* The ids of a ring built from a table, the node itself always included.
RingOf(n, table) ==
    Members(UpdateMember(table, AliveNow(n, current[n])))

\* start() replaces whatever the control server has learnt so far.
Start(n) ==
    /\ phase[n] = "serving"
    /\ membership' = [membership EXCEPT ![n] =
            UpdateMember(EmptyTable, AliveNow(n, current[n]))]
    /\ phase' = [phase EXCEPT ![n] = "bootstrap"]
    /\ UNCHANGED <<clock, disk, current, ring, call, bootStep, panicked, losses, late>>

\* A bootstrap that contacts nobody.
NoPeers(n) == <<>>

\* fast_bootstrap pings every initial peer and then syncs with each.
Peers(n) == InitialPeers[n]

BootSend(n) ==
    /\ phase[n] = "bootstrap"
    /\ call[n]["boot"] = None
    /\ MayCall
    /\ bootStep[n] < 2 * Len(Peers(n))
    /\ LET url == Peers(n)[(bootStep[n] % Len(Peers(n))) + 1]
           msg == IF bootStep[n] < Len(Peers(n))
                  THEN Ping(current[n])
                  ELSE Sync(membership[n])
       IN  call' = [call EXCEPT ![n]["boot"] = NewCall(url, None, msg)]
    /\ UNCHANGED <<clock, phase, disk, current, membership, ring, bootStep,
                   panicked, losses, late>>

\* A bootstrap that insists on every initial peer.
BootInsists(n) ==
    /\ AttemptFails(n, "boot")
    /\ call[n]["boot"].tries = MaxRetries
    /\ EndCall(n, "boot")
    /\ UNCHANGED <<clock, phase, disk, current, membership, ring, bootStep,
                   panicked, late>>

\* An initial peer that does not answer is passed over, not marked dead.
BootGiveUp(n) ==
    /\ AttemptFails(n, "boot")
    /\ call[n]["boot"].tries = MaxRetries
    /\ EndCall(n, "boot")
    /\ bootStep' = [bootStep EXCEPT ![n] = @ + 1]
    /\ UNCHANGED <<clock, phase, disk, current, membership, ring, panicked, late>>

\* The ring is built and the loops are spawned.  With an empty table start()
\* fails and the process exits, which is a Crash.
BootDone(n) ==
    /\ phase[n] = "bootstrap"
    /\ bootStep[n] = 2 * Len(Peers(n))
    /\ Members(membership[n]) # {}
    /\ ring' = [ring EXCEPT ![n] = RingOf(n, membership[n])]
    /\ phase' = [phase EXCEPT ![n] = "running"]
    /\ UNCHANGED <<clock, disk, current, membership, call, bootStep, panicked,
                   losses, late>>

\* Loop t of n is between two exchanges.
Idle(n, t) ==
    /\ phase[n] = "running"
    /\ t \notin panicked[n]
    /\ call[n][t] = None

\* A tick picks a member at random, possibly the node itself, and calls it.
\* (A tick that picks a dead member does nothing.)
LoopTick(n, t, m) ==
    /\ Idle(n, t)
    /\ MayCall
    /\ IsAlive(membership[n], m)
    /\ LET info == membership[n][m].info
           msg  == IF t = "ping" THEN Ping(current[n]) ELSE Sync(membership[n])
       IN  call' = [call EXCEPT ![n][t] = NewCall(info.url, info, msg)]
    /\ UNCHANGED <<clock, phase, disk, current, membership, ring, bootStep,
                   panicked, losses, late>>

\* random_range(0..0): with an empty table the tick panics before it gets to
\* the branch that would bootstrap again.
LoopTickPanics(n, t) ==
    /\ Idle(n, t)
    /\ Members(membership[n]) = {}
    /\ panicked' = [panicked EXCEPT ![n] = @ \cup {t}]
    /\ UNCHANGED <<clock, phase, disk, current, membership, ring, call, bootStep,
                   losses, late>>

RebuildRing(n) ==
    /\ phase[n] = "running"
    /\ ring' = [ring EXCEPT ![n] = RingOf(n, membership[n])]
    /\ UNCHANGED <<clock, phase, disk, current, membership, call, bootStep,
                   panicked, losses, late>>

\* A comparison the wrong way round.
ExpiredBefore(n) ==
    {m \in Node : /\ IsDead(membership[n], m)
                  /\ membership[n][m].heartbeat + Deadline > Now(n)}

\* The members remove_dead_members drops.
Expired(n) ==
    {m \in Node : /\ IsDead(membership[n], m)
                  /\ membership[n][m].heartbeat + Deadline < Now(n)}

RemoveDeadMembers(n) ==
    /\ phase[n] = "running"
    /\ Expired(n) # {}
    /\ LET table == RemoveMembers(membership[n], Expired(n))
       IN  /\ membership' = [membership EXCEPT ![n] = table]
           /\ ring' = [ring EXCEPT ![n] = RingOf(n, table)]
    /\ UNCHANGED <<clock, phase, disk, current, call, bootStep, panicked, losses, late>>

-----------------------------------------------------------------------------
Process(n) ==
    \/ \E a \in Addr : Boot(n, a)
    \/ BootTorn(n)
    \/ Crash(n)
    \/ Start(n)
    \/ BootSend(n)
    \/ BootGiveUp(n)
    \/ BootDone(n)
    \/ RebuildRing(n)
    \/ RemoveDeadMembers(n)

Exchange(n, t) ==
    \/ \E m \in Node : Deliver(n, t, m)
    \/ \E m \in Node : DeliverDuringStart(n, t, m)
    \/ \E m \in Node : DeliverPanics(n, t, m)
    \/ Hang(n, t)
    \/ Retry(n, t)
    \/ RetryLate(n, t)
    \/ HandleReply(n, t)
    \/ HandleReplyPanics(n, t)
    \/ GiveUp(n, t)

LoopStep(n, t) ==
    \/ \E m \in Node : LoopTick(n, t, m)
    \/ LoopTickPanics(n, t)

Next ==
    \/ Tick
    \/ \E n \in Node : Process(n)
    \/ \E n \in Node, t \in Task : Exchange(n, t)
    \/ \E n \in Node, t \in Loop : LoopStep(n, t)
    \/ \E r \in late, m \in Node : DeliverLate(r, m) \/ DeliverLateDuringStart(r, m)

Spec == Init /\ [][Next]_vars

(***************************************************************************)
(* Fairness.  The runtime polls every task that is ready, the timers of    *)
(* the loops fire, and the transport tells the caller about an answer or   *)
(* an error; that an answer ever comes is not assumed (Hang).  The loops   *)
(* pick their peers uniformly at random, so one of them again and again    *)
(* calls a member that is alive in the table again and again.  Nothing is  *)
(* asked of the operator: no process needs to be started, and none needs   *)
(* to stay up.                                                             *)
(***************************************************************************)

\* A step of the task that runs start() and fast_bootstrap.
BootStep(n) == Start(n) \/ Exchange(n, "boot") \/ BootGiveUp(n) \/ BootDone(n)

Fairness ==
    \A n \in Node :
        /\ WF_vars(BootStep(n))
        /\ SF_vars(BootSend(n))
        /\ \A m \in Node \ {n} : SF_vars(\E t \in Loop : LoopTick(n, t, m))
        /\ \A t \in Loop : WF_vars(Exchange(n, t))

FairSpec == Spec /\ Fairness

\* Time passes too, and remove_dead_members ticks for ever, at a period of its
\* own: a member that is expired again and again is met by one of its ticks.
TimedFairSpec ==
    FairSpec /\ WF_vars(Tick) /\ \A n \in Node : SF_vars(RemoveDeadMembers(n))

-----------------------------------------------------------------------------
(***************************************************************************)
(* Every identity that occurs anywhere: in a node's memory, in a table, in *)
(* an exchange or in an abandoned request.                                 *)
(***************************************************************************)
MessageInfos(msg) ==
    IF msg.type = "sync" THEN TableInfos(msg.members) ELSE {msg.info}

CallInfos(c) ==
    (IF c.peer = None THEN {} ELSE {c.peer})
        \cup MessageInfos(c.msg)
        \cup (IF c.reply \in NoAnswer THEN {} ELSE MessageInfos(c.reply))

NodeInfos(n) ==
    (IF current[n] = None THEN {} ELSE {current[n]})
        \cup TableInfos(membership[n])
        \cup (UNION {CallInfos(call[n][t]) : t \in {u \in Task : call[n][u] # None}})

Infos ==
    (UNION {NodeInfos(n) : n \in Node})
        \cup (UNION {MessageInfos(r.msg) : r \in late})

(***************************************************************************)
(* The inductive invariant behind the properties below.                    *)
(***************************************************************************)

\* A process that is up has an identity of its own and one that is down
\* awaits nothing; a loop remembers whom it is calling.
ProcessInv ==
    \A n \in Node :
        /\ phase[n] # "down" => current[n] # None /\ current[n].node_id = n
        /\ phase[n] = "down" => current[n] = None /\ call[n] = NoCalls
        /\ \A t \in Loop : call[n][t] # None => call[n][t].peer # None

\* Whoever is known has a node.json, and is known under no incarnation ahead
\* of it or of the running process.
KnownInv ==
    \A i \in Infos :
        /\ disk[i.node_id] # None
        /\ disk[i.node_id] \in Nat => i.incarnation <= disk[i.node_id]
        /\ phase[i.node_id] # "down" =>
              i.incarnation <= current[i.node_id].incarnation

-----------------------------------------------------------------------------
\* The identity a node announces is on disk before anyone can learn it: no
\* incarnation seen anywhere is ahead of the one in the node's node.json
\* (advance_incarnation persists before it stores; start_gossip persists
\* before the control server answers).
IncarnationOnDisk ==
    \A i \in Infos : disk[i.node_id] \in Nat => i.incarnation <= disk[i.node_id]

\* An incarnation of a node has one identity: update_member keeps the stored
\* info of an equal incarnation, so an address change under an unchanged
\* incarnation would never reach a peer that already knows the node.
IncarnationDeterminesInfo ==
    \A i, j \in Infos :
        i.node_id = j.node_id /\ i.incarnation = j.incarnation => i = j

\* A node that comes up supersedes everything known of it: whatever is still
\* in a table, an exchange or an abandoned request is of an older incarnation.
BootSupersedes ==
    [][\A n \in Node :
          phase[n] = "down" /\ phase'[n] = "serving" =>
             \A i \in Infos :
                i.node_id = n => i.incarnation < current'[n].incarnation]_vars

\* While a process is up, what its table says of a member never goes back to
\* an older incarnation nor, within one, to an older heartbeat; an entry only
\* disappears when remove_dead_members finds it dead and expired.
TableMovesForward ==
    [][\A n, m \in Node :
          /\ phase[n] \in {"bootstrap", "running"}
          /\ phase'[n] # "down"
          /\ membership[n][m] # None
          => LET old == membership[n][m]
                 new == membership'[n][m]
             IN  \/ new = None /\ m \in Expired(n)
                 \/ new # None /\ new.info.incarnation > old.info.incarnation
                 \/ /\ new # None /\ new.info = old.info
                    /\ new.heartbeat >= old.heartbeat]_vars

\* An exchange awaits while the table moves on.  When it fails, what mark_dead
\* condemns is the very identity the exchange was started with: a member that
\* came back under a new incarnation in the meantime is left alone.
SuspicionIsCurrent ==
    [][\A n, m \in Node, t \in Loop :
          GiveUp(n, t) /\ membership'[n][m] # membership[n][m] =>
             membership'[n][m].info = call[n][t].peer]_vars

\* A node that routes requests is in its own ring, even when its own table
\* has lost it (rebuild_ring: "Ensure the current node is alive").
RunningNodeInOwnRing ==
    \A n \in Node : phase[n] = "running" => n \in ring[n]

\* Only a node's own loop can make it believe it is dead.  Whatever another
\* node reports, handle_message vouches for the node itself before it stores
\* ("Ensure the current node is alive"), so the incarnation is advanced for
\* a failed self-ping only, and never before the loops run.
OnlySelfSuspicion ==
    [][\A n \in Node :
          ~IsDead(membership[n], n) /\ IsDead(membership[n], n)' =>
             /\ phase[n] = "running"
             /\ \E t \in Loop : /\ call[n][t] # None /\ call'[n][t] = None
                               /\ call[n][t].peer.node_id = n]_vars

-----------------------------------------------------------------------------
(***************************************************************************)
(* Liveness.                                                               *)
(***************************************************************************)
Running(n) == phase[n] = "running"

\* Neither loop of n calls anybody any more: each awaits a silent peer or has
\* died of a panic.
HeldUp(n) == \A t \in Loop : Hung(n, t) \/ t \in panicked[n]

\* start() comes to an end, whatever its initial peers do: the node gets to
\* its loops, unless its process ends first or a peer takes a request of
\* fast_bootstrap and never answers it.
BootstrapEnds ==
    \A n \in Node :
        phase[n] = "serving" ~> phase[n] \in {"running", "down"} \/ Hung(n, "boot")

\* A process that is gone for good is found out: a node that keeps running
\* does not go on believing it alive (GiveUp marks it dead), as long as one
\* of its two loops is not held up.  "Again and again" rather than "for ever":
\* a snapshot taken before the member was marked dead can still revive it for
\* a while.
CrashDetected ==
    \A n, m \in Node :
        <>[](Running(n) /\ phase[m] = "down") =>
            []<>(~IsAlive(membership[n], m) \/ HeldUp(n))

\* The time in which a member last heard of now can expire is over: the bound
\* MaxClock ends it.
OutOfTime(n, m) ==
    /\ membership[n][m] # None
    /\ membership[n][m].heartbeat + Deadline >= MaxClock + Skew[n]

\* A process that is gone for good is forgotten again and again, although a
\* snapshot taken before it was removed brings it back with its old heartbeat
\* (remove_dead_members against the anti-entropy loop), as long as one of the
\* two loops that can find it out is not held up.
CrashForgotten ==
    \A n, m \in Node :
        <>[](Running(n) /\ phase[m] = "down") =>
            []<>(\/ membership[n][m] = None
                 \/ OutOfTime(n, m)
                 \/ HeldUp(n))

\* If no attempt fails while its peer is up and every node lists every node,
\* itself included, as an initial peer, nodes that stay up end up knowing each
\* other as alive, in whatever order they started, crashed and came back, and
\* though any exchange of a loop may hang.  (A handler that wipes out the store
\* of start() takes the node out of its own table; only a message from itself
\* is sure to bring it back.)
ViewsConverge ==
    \A n, m \in Node :
        <>[](Running(n) /\ Running(m)) => <>[]IsAlive(membership[n], m)

\* n and m hold each other for dead though both are up and know themselves
\* to be alive.
Split(n, m) ==
    /\ Running(n) /\ Running(m)
    /\ IsAlive(membership[n], n) /\ IsDead(membership[n], m)
    /\ IsAlive(membership[m], m) /\ IsDead(membership[m], n)

\* "Fault tolerance" (README): two nodes that lost sight of each other find
\* each other again when the network works, if both stay up.
SplitIsHealed ==
    \A n, m \in Node :
        Split(n, m) ~> \/ ~Running(n) \/ ~Running(m)
                       \/ IsAlive(membership[n], m) \/ IsAlive(membership[m], n)

\* "no members found in the cluster" leads to another bootstrap: the loops
\* survive an empty table.
NoLoopDies == \A n \in Node : panicked[n] = {}

=============================================================================
