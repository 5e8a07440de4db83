------------------------------- MODULE Routing -------------------------------
(***************************************************************************)
(* A client's call, from its route table through the proxies of the        *)
(* cluster to an engine: client/src/client.rs, crates/gossip/src/proxy.rs, *)
(* ClusterProxyEndpoint in crates/server/src/middleware.rs, the handlers   *)
(* get, put, delete and list_members in crates/server/src/server.rs, and   *)
(* the cache behind them (crates/core/src/engine.rs).                      *)
(*                                                                         *)
(* What a node believes of the others is kept by its gossip: here it       *)
(* changes one report at a time, in any order, and the ring follows by the *)
(* rebuilds of Gossip.  A node keeps its address; a key is its hash.       *)
(***************************************************************************)
EXTENDS HashRing, FiniteSets

CONSTANTS
    Key,           \* keys
    KeyHash,       \* KeyHash[k]: the hash of k
    HashesOf,      \* HashesOf[n]: the hashes of n's virtual nodes
    Value,         \* values
    Task,          \* calls one client makes at a time
    Late,          \* bound: requests on their way whose callers have given up
    Methods,       \* the methods of the client that are called
    DataNode,      \* the node at the client's data_url
    CtrlNode,      \* the node at the client's ctrl_url
    OldListings,   \* listings the client may hold from an earlier life of the
                   \* cluster
    MaxRedirects,  \* Policy::limited(2)
    Unknown,       \* see `latest'
    MaxCalls,      \* bound: calls
    MaxReports,    \* bound: reports that change a node's table
    MaxStops,      \* bound: processes that stop
    MaxHung,       \* bound: calls that hang
    MaxElapsed     \* bound: times UPDATE_ROUTE_TABLE_INTERVAL elapses

ASSUME RoutingAssumption ==
    /\ KeyHash \in [Key -> Hash]
    /\ HashesOf \in [Node -> SUBSET Hash]
    /\ \A n \in Node : HashesOf[n] # {}
    /\ DataNode \in Node /\ CtrlNode \in Node
    /\ OldListings \in SUBSET SUBSET Node
    /\ Methods \in SUBSET {"get", "put", "put_owned", "delete"}
    /\ MaxRedirects \in Nat \ {0}
    /\ MaxCalls \in Nat /\ MaxReports \in Nat /\ MaxStops \in Nat
    /\ MaxHung \in Nat /\ MaxElapsed \in Nat
    /\ None \notin Value /\ Unknown \notin Value \cup {None}
    /\ {"ok", "error", "redirects"} \cap (Value \cup {None, Unknown}) = {}
    /\ None \notin {"alive", "dead"} /\ \A ids \in SUBSET Node : ids # None
    /\ Task \cap Late = {}

VARIABLES
    up,          \* the nodes whose data and control servers answer
    table,       \* table[n][m]: m's status in n's membership, or None
    ring,        \* ring[n]: the ids n's ring was built from
    store,       \* store[n][k]: what n's engine returns for k, or None
    written,     \* written[n][k]: the values n's device may still hold
    routeTable,  \* the members of the client's route table, or None
    expired,     \* whether UPDATE_ROUTE_TABLE_INTERVAL has elapsed
    op,          \* op[t]: the call made by task t, or None; op[l]: a request that
                 \* nobody awaits any more, or None
    latest,      \* history: latest[k] is the last write applied at the owner of k
                 \* since the views were last disturbed, Unknown if there was
                 \* none
    calls, reports, stops, elapsed  \* counters for the bounds

views == <<up, table, ring>>
client == <<routeTable, expired>>
engine == <<store, written>>
counters == <<calls, reports, stops, elapsed>>
vars == <<up, table, ring, store, written, routeTable, expired, op, latest,
          calls, reports, stops, elapsed>>

Status == {"alive", "dead"}

\* listing: GET /members is awaited; listed: its answer is there; routing: the
\* table is fresh; sent: the request is on its way to `at'; proxied: the proxy
\* of `at' has loaded its ring; local: the handler has been called; read: the
\* engine has answered a get; hung: a peer has taken the request and never
\* answers.
OpPhase == {"listing", "listed", "routing", "sent", "proxied", "local", "read", "done",
            "hung"}

\* put_owned: the one with a body that is streamed, and cannot be sent twice.
Puts == {"put", "put_owned"}

Request == Task \cup Late

(***************************************************************************)
(* members: the listing, or the ids of the ring the proxy has loaded;      *)
(* result: what the caller gets.  History: settled, whether all nodes have *)
(* agreed since the call was sent; steady, whether they have since the     *)
(* proxy of `at' loaded its ring; seen, for a get, what `latest' has been  *)
(* since then.                                                             *)
(***************************************************************************)
Op == [kind: Puts \cup {"get", "delete"}, key: Key, value: Value \cup {None},
       phase: OpPhase, members: SUBSET Node, at: Node \cup {None},
       redirects: 0..MaxRedirects,
       result: Value \cup {None, "ok", "error", "redirects"},
       settled: BOOLEAN, steady: BOOLEAN, seen: SUBSET (Value \cup {None, Unknown})]

TypeOK ==
    /\ up \in SUBSET Node
    /\ table \in [Node -> [Node -> Status \cup {None}]]
    /\ ring \in [Node -> SUBSET Node]
    /\ store \in [Node -> [Key -> Value \cup {None}]]
    /\ written \in [Node -> [Key -> SUBSET Value]]
    /\ routeTable \in (SUBSET Node) \cup {None}
    /\ expired \in BOOLEAN
    /\ op \in [Request -> Op \cup {None}]
    /\ latest \in [Key -> Value \cup {None, Unknown}]
    /\ calls \in 0..MaxCalls
    /\ reports \in 0..MaxReports
    /\ stops \in 0..MaxStops
    /\ elapsed \in 0..MaxElapsed

Listed(n) == {m \in Node : table[n][m] # None}
Alive(n)  == {m \in Node : table[n][m] = "alive"}

\* The ring n looks keys up in.
RingOf(n) == RingFrom(ring[n], HashesOf)

\* Every node that is up knows the same members, holds exactly the ones that
\* are up for alive, and has rebuilt its ring.
Agreed ==
    /\ \A m, n \in up : table[m] = table[n]
    /\ \A n \in up : ring[n] = Listed(n) /\ Alive(n) = up

\* All nodes are up and agree; the client has just been built, or holds a
\* listing of some earlier time.
Init ==
    /\ up = Node
    /\ table = [n \in Node |-> [m \in Node |-> "alive"]]
    /\ ring = [n \in Node |-> Node]
    /\ store = [n \in Node |-> [k \in Key |-> None]]
    /\ written = [n \in Node |-> [k \in Key |-> {}]]
    /\ routeTable \in OldListings \cup {None}
    /\ expired = (routeTable = None)
    /\ op = [r \in Request |-> None]
    /\ latest = [k \in Key |-> Unknown]
    /\ calls = 0 /\ reports = 0 /\ stops = 0 /\ elapsed = 0

-----------------------------------------------------------------------------
(***************************************************************************)
(* The cluster around a call.                                              *)
(***************************************************************************)

Unsettled(o) == [o EXCEPT !.settled = FALSE, !.steady = FALSE, !.seen = {}]

\* What is recorded when the views are disturbed.
Forget == latest' = [k \in Key |-> Unknown]

Disturb ==
    /\ Forget
    /\ op' = [r \in Request |-> IF op[r] = None THEN None ELSE Unsettled(op[r])]

\* Gossip changes what n believes of m: it hears of a member, changes its status,
\* or forgets one that is dead.
Report(n, m, status) ==
    /\ n \in up
    /\ reports < MaxReports
    /\ status # table[n][m]
    /\ status = None => table[n][m] = "dead"
    /\ table' = [table EXCEPT ![n][m] = status]
    /\ reports' = reports + 1
    /\ Disturb
    /\ UNCHANGED <<up, ring, engine, client, calls, stops, elapsed>>

RebuildRing(n) ==
    /\ n \in up
    /\ ring[n] # Listed(n) \cup {n}
    /\ ring' = [ring EXCEPT ![n] = Listed(n) \cup {n}]
    /\ Disturb
    /\ UNCHANGED <<up, table, store, written, routeTable, expired, counters>>

\* A call that is over keeps what it was and its result; nobody hears of the end
\* of a late request.
Ended(r, result) ==
    IF r \in Late THEN None
    ELSE [Unsettled(op[r]) EXCEPT !.phase = "done", !.result = result, !.members = {},
                                  !.at = None, !.redirects = 0]

\* Requests that process n has taken and not answered: they end with it, and so
\* do the connections of late ones.
TakenBy(n) ==
    {r \in Request : /\ op[r] # None /\ op[r].at = n
                     /\ op[r].phase \in {"proxied", "local"} \/ r \in Late}

Stop(n) ==
    /\ n \in up
    /\ stops < MaxStops
    /\ up' = up \ {n}
    /\ stops' = stops + 1
    /\ Forget
    /\ op' = [r \in Request |->
                CASE op[r] = None     -> None
                  [] r \in TakenBy(n) -> Ended(r, "error")
                  [] OTHER            -> Unsettled(op[r])]
    /\ UNCHANGED <<table, ring, engine, client, calls, reports, elapsed>>

\* The data server answers once fast_bootstrap is over: by then the node has
\* heard of some of the others, and its engine has recovered some of what is
\* on its device.
Restart(n) ==
    /\ n \notin up
    /\ up' = up \cup {n}
    /\ \E ids \in SUBSET Node :
          /\ n \in ids
          /\ table' = [table EXCEPT ![n] =
                          [m \in Node |-> IF m \in ids THEN "alive" ELSE None]]
          /\ ring' = [ring EXCEPT ![n] = ids]
    /\ \E found \in [Key -> Value \cup {None}] :
          /\ \A k \in Key : found[k] \in written[n][k] \cup {None}
          /\ store' = [store EXCEPT ![n] = found]
    /\ Disturb
    /\ UNCHANGED <<written, routeTable, expired, counters>>

\* A cache may forget.
Evict(n, k) ==
    /\ store[n][k] # None
    /\ store' = [store EXCEPT ![n][k] = None]
    /\ UNCHANGED <<up, table, ring, written, routeTable, expired, op, latest, counters>>

\* UPDATE_ROUTE_TABLE_INTERVAL elapses.
Expire ==
    /\ ~expired
    /\ elapsed < MaxElapsed
    /\ expired' = TRUE
    /\ elapsed' = elapsed + 1
    /\ UNCHANGED <<views, engine, routeTable, op, latest, calls, reports, stops>>

-----------------------------------------------------------------------------
(***************************************************************************)
(* The client.                                                             *)
(***************************************************************************)

\* get, put, put_owned or delete is called: update_route_table_if_needed.  A
\* task whose last call hangs makes no other.
Begin(t, kind, k, v) ==
    /\ op[t] # None => op[t].phase = "done"
    /\ calls < MaxCalls
    /\ calls' = calls + 1
    /\ op' = [op EXCEPT ![t] =
                [kind |-> kind, key |-> k, value |-> v,
                 phase |-> IF expired THEN "listing" ELSE "routing",
                 members |-> {}, at |-> None, redirects |-> 0,
                 result |-> None, settled |-> FALSE, steady |-> FALSE,
                 seen |-> {}]]
    /\ UNCHANGED <<views, engine, client, latest, reports, stops, elapsed>>

\* list_members answers with every member of the table, dead ones included, and
\* the virtual nodes it has in the ring: none if the ring has not been rebuilt
\* since the member was heard of.  The ring is loaded for each member again, so
\* it may be rebuilt meanwhile.
ListMembers(t) ==
    /\ op[t] # None /\ op[t].phase = "listing"
    /\ CtrlNode \in up
    /\ \E ids \in SUBSET Listed(CtrlNode) :
          /\ Listed(CtrlNode) \cap ring[CtrlNode] \subseteq ids
          /\ op' = [op EXCEPT ![t].phase = "listed", ![t].members = ids]
    /\ UNCHANGED <<views, engine, client, latest, counters>>

\* Without a listing the call fails, whether or not there is an old table.
ListingFails(t) ==
    /\ op[t] # None /\ op[t].phase = "listing"
    /\ op' = [op EXCEPT ![t].phase = "done", ![t].result = "error"]
    /\ UNCHANGED <<views, engine, client, latest, counters>>

\* The table is replaced by the listing, which another task's may have
\* overtaken.
UpdateRouteTable(t) ==
    /\ op[t] # None /\ op[t].phase = "listed"
    /\ routeTable' = op[t].members
    /\ expired' = FALSE
    /\ op' = [op EXCEPT ![t].phase = "routing", ![t].members = {}]
    /\ UNCHANGED <<views, engine, latest, counters>>

\* A route that skips a virtual node at the very hash of the key.
ClientRoutePast(k) ==
    IF routeTable # None /\ KeyHash[k] < MaxHash
    THEN RouteLookup(RingFrom(routeTable, HashesOf), KeyHash[k] + 1)
    ELSE DataNode

\* Client::route.
ClientRoute(k) ==
    IF routeTable # None /\ RouteLookup(RingFrom(routeTable, HashesOf), KeyHash[k]) # None
    THEN RouteLookup(RingFrom(routeTable, HashesOf), KeyHash[k])
    ELSE DataNode

Send(t) ==
    /\ op[t] # None /\ op[t].phase = "routing"
    /\ op' = [op EXCEPT ![t].phase = "sent",
                        ![t].at = ClientRoute(op[t].key),
                        ![t].settled = Agreed]
    /\ UNCHANGED <<views, engine, client, latest, counters>>

\* t no longer awaits its answer and is left with `o'.  The request is lost, or
\* a write that has reached the server goes on without anybody waiting for it.
GivesUp(t, o) ==
    \/ op' = [op EXCEPT ![t] = o]
    \/ \E l \in Late :
          /\ op[l] = None
          /\ op[t].kind # "get"
          /\ op[t].phase \in {"sent", "proxied", "local"} /\ op[t].at \in up
          /\ op' = [op EXCEPT ![t] = o,
                              ![l] = [op[t] EXCEPT !.settled = FALSE, !.redirects = 0]]

\* The client has no timeout: an answer that never comes is awaited for ever.
Hang(t) ==
    /\ Cardinality({u \in Task : op[u] # None /\ op[u].phase = "hung"}) < MaxHung
    /\ op[t] # None
    /\ \/ op[t].phase = "listing" /\ CtrlNode \in up
       \/ op[t].phase \in {"sent", "proxied", "local", "read"} /\ op[t].at \in up
    /\ GivesUp(t, [op[t] EXCEPT !.phase = "hung", !.members = {}, !.steady = FALSE,
                                !.seen = {}])
    /\ UNCHANGED <<views, engine, client, latest, counters>>

\* The request or its answer is lost, its body cannot be read, or nobody
\* listens.
SendFails(t) ==
    /\ op[t] # None /\ op[t].phase \in {"sent", "proxied", "local", "read"}
    /\ GivesUp(t, Ended(t, "error"))
    /\ UNCHANGED <<views, engine, client, latest, counters>>

-----------------------------------------------------------------------------
(***************************************************************************)
(* A server.                                                               *)
(***************************************************************************)

\* A route that serves whatever it is asked for.
RouteLocal(n, k, ids) == n

\* A route that does not ask whether the owner is alive.
RouteToDead(n, k, ids) ==
    LET owner == Lookup(RingFrom(ids, HashesOf), KeyHash[k])
    IN  IF owner \in Listed(n) THEN owner ELSE n

\* Proxy::route, for the ring of `ids': the node itself when no member of the
\* ring is alive.
Route(n, k, ids) ==
    LET owner == LookupUntil(RingFrom(ids, HashesOf), KeyHash[k], Alive(n))
    IN  IF owner = None THEN n ELSE owner

\* The request arrives, and Proxy::route loads the ring; the membership it
\* loads afterwards may be another one's.
LoadRing(r) ==
    /\ op[r] # None /\ op[r].phase = "sent" /\ op[r].at \in up
    /\ op' = [op EXCEPT ![r].phase = "proxied",
                        ![r].members = ring[op[r].at],
                        ![r].steady = Agreed,
                        ![r].seen = IF op[r].kind = "get" THEN {latest[op[r].key]} ELSE {}]
    /\ UNCHANGED <<views, engine, client, latest, counters>>

Dest(r) == Route(op[r].at, op[r].key, op[r].members)

\* The key is the node's own, and the handler is called: it awaits the body of
\* a put, or the engine.
Serve(r) ==
    /\ op[r] # None /\ op[r].phase = "proxied"
    /\ Dest(r) = op[r].at
    /\ op' = [op EXCEPT ![r].phase = "local", ![r].members = {}]
    /\ UNCHANGED <<views, engine, client, latest, counters>>

\* A client that follows redirects for ever.
RedirectForever(r) ==
    /\ op[r] # None /\ op[r].phase = "proxied"
    /\ Dest(r) # op[r].at
    /\ op' = [op EXCEPT ![r].phase = "sent", ![r].at = Dest(r), ![r].members = {},
                        ![r].steady = FALSE, ![r].seen = {}]
    /\ UNCHANGED <<views, engine, client, latest, counters>>

\* A client that follows one redirect too many.
RedirectOneMore(r) ==
    /\ op[r] # None /\ op[r].phase = "proxied"
    /\ Dest(r) # op[r].at
    /\ op' = IF op[r].redirects <= MaxRedirects
             THEN [op EXCEPT ![r].phase = "sent", ![r].at = Dest(r),
                             ![r].redirects = @ + 1]
             ELSE [op EXCEPT ![r] = Ended(r, "redirects")]
    /\ UNCHANGED <<views, engine, client, latest, counters>>

\* ClusterProxyEndpoint answers 307, and the client follows it if it may; a
\* body that cannot be sent again leaves the caller with the 307, an error.
\* Nobody follows the redirect of a late request.
Redirect(r) ==
    /\ op[r] # None /\ op[r].phase = "proxied"
    /\ Dest(r) # op[r].at
    /\ op' = [op EXCEPT ![r] =
                CASE r \in Late \/ op[r].kind = "put_owned" -> Ended(r, "error")
                  [] r \notin Late /\ op[r].kind # "put_owned"
                        /\ op[r].redirects < MaxRedirects ->
                       [op[r] EXCEPT !.phase = "sent", !.at = Dest(r),
                                     !.redirects = @ + 1, !.members = {},
                                     !.steady = FALSE, !.seen = {}]
                  [] OTHER -> Ended(r, "redirects")]
    /\ UNCHANGED <<views, engine, client, latest, counters>>

\* n is the node a key belongs to when all agree.
Owns(n, k) == IsOwner(RingOf(n), KeyHash[k], up, n)

\* A delete that leaves the value where it is.
KeepOnDelete(n, o) ==
    IF o.kind \in Puts THEN [store EXCEPT ![n][o.key] = o.value] ELSE store

\* What the engine holds after a write.
Applied(n, o) ==
    [store EXCEPT ![n][o.key] = IF o.kind \in Puts THEN o.value ELSE None]

\* A get of `k' that runs while the latest write becomes `v'.
Sees(o, k, v) ==
    IF o # None /\ o.key = k /\ o.seen # {} THEN [o EXCEPT !.seen = @ \cup {v}] ELSE o

\* The body is there, and put or delete applies the write wherever the proxy
\* sent it; the answer may be lost.
Write(r) ==
    /\ op[r] # None /\ op[r].phase = "local" /\ op[r].kind # "get"
    /\ LET o == op[r]
           counts == Agreed /\ Owns(o.at, o.key)
       IN  /\ store' = Applied(o.at, o)
           /\ written' = IF o.kind \in Puts
                         THEN [written EXCEPT ![o.at][o.key] = @ \cup {o.value}]
                         ELSE written
           /\ latest' = IF counts THEN [latest EXCEPT ![o.key] = o.value] ELSE latest
           /\ \E result \in {"ok", "error"} :
                 op' = [q \in Request |->
                          CASE q = r -> Ended(r, result)
                            [] q # r /\ counts -> Sees(op[q], o.key, o.value)
                            [] OTHER -> op[q]]
    /\ UNCHANGED <<views, client, counters>>

\* The engine has found a value, on disk maybe; one that fails to read finds
\* nothing.
Read(t) ==
    /\ op[t] # None /\ op[t].phase = "local" /\ op[t].kind = "get"
    /\ \E value \in {store[op[t].at][op[t].key], None} :
          op' = [op EXCEPT ![t].phase = "read", ![t].result = value]
    /\ UNCHANGED <<views, engine, client, latest, counters>>

\* The answer to a get arrives, a while after the engine's.
Answer(t) ==
    /\ op[t] # None /\ op[t].phase = "read"
    /\ op' = [op EXCEPT ![t] = Ended(t, op[t].result)]
    /\ UNCHANGED <<views, engine, client, latest, counters>>

-----------------------------------------------------------------------------
Cluster ==
    \/ \E n, m \in Node, status \in Status \cup {None} : Report(n, m, status)
    \/ \E n \in Node : RebuildRing(n) \/ Stop(n) \/ Restart(n)
    \/ \E n \in Node, k \in Key : Evict(n, k)
    \/ Expire

Start(t) ==
    \/ \E k \in Key, v \in Value, kind \in Methods \cap Puts : Begin(t, kind, k, v)
    \/ \E k \in Key, kind \in Methods \ Puts : Begin(t, kind, k, None)

ServerStep(r) == LoadRing(r) \/ Serve(r) \/ Redirect(r) \/ Write(r)

Step(t) ==
    \/ ListMembers(t)
    \/ ListingFails(t)
    \/ UpdateRouteTable(t)
    \/ Send(t)
    \/ SendFails(t)
    \/ Hang(t)
    \/ ServerStep(t)
    \/ Read(t)
    \/ Answer(t)

Next ==
    \/ Cluster
    \/ \E t \in Task : Start(t) \/ Step(t)
    \/ \E l \in Late : ServerStep(l)

Spec == Init /\ [][Next]_vars

\* The runtime polls the client's tasks: each goes on until its call is over or
\* hangs.
FairSpec == Spec /\ \A t \in Task : WF_vars(Step(t))

-----------------------------------------------------------------------------

\* A key is read and written at one place: if the nodes have agreed since the
\* proxy of a node loaded its ring, a handler runs at the member that is up and
\* comes first clockwise, wherever the client's own table, however old, sent
\* the request first and however long the handler awaits its body or the disk.
\* So do the handlers of requests nobody awaits.
ServedAtOwner ==
    \A r \in Request :
        op[r] # None /\ op[r].steady /\ op[r].phase \in {"local", "read"} =>
            Owns(op[r].at, op[r].key)

\* A call made while the nodes agree is redirected at most once, and then to
\* the owner, which is up and lets it in: it never runs out of redirects.
RedirectLeadsToOwner ==
    \A t \in Task :
        op[t] # None /\ op[t].settled =>
            /\ op[t].redirects <= 1
            /\ op[t].redirects = 1 => op[t].at \in up /\ Owns(op[t].at, op[t].key)
            /\ op[t].redirects = 1 /\ op[t].phase = "proxied" => Dest(t) = op[t].at

\* A get that runs while the nodes agree returns a value that was the last
\* write applied at the owner at some moment since the get reached its proxy,
\* or nothing: never an older one, whatever copies other nodes still hold,
\* whichever writes overtake it, and though writes of callers that gave up, or
\* that were let in before the views changed, are still being applied.
GetSeesLatest ==
    [][\A t \in Task :
          /\ op[t] # None /\ op[t].phase = "read" /\ op'[t].phase = "done"
          /\ op[t].steady /\ Unknown \notin op[t].seen
          => op'[t].result \in op[t].seen \cup {None, "error"}]_vars

\* A table that has just been listed leads straight to the owner, or to a
\* member that is down and still listed: a call of a client that is up to date
\* is never redirected while the nodes agree, and so a streamed put_owned, which
\* could not follow, is not turned away.
FreshTableFindsOwner ==
    [][\A t \in Task :
          /\ op[t] # None /\ op'[t] # None
          /\ op[t].phase = "routing" /\ op'[t].phase = "sent"
          /\ Agreed /\ op'[t].at \in up
          /\ \A n \in up : routeTable = Listed(n)
          => Owns(op'[t].at, op[t].key)]_vars

\* Every call ends, though nodes may disagree for ever and send it to and fro:
\* only a peer that never answers keeps it.
CallsEnd ==
    \A t \in Task : op[t] # None ~> op[t] # None /\ op[t].phase \in {"done", "hung"}

=============================================================================
