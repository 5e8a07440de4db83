--------------------------- MODULE RoutingProofs ----------------------------
(***************************************************************************)
(* Proofs about routed calls, for every cluster, every placement of the    *)
(* virtual nodes, any number of clients' tasks, of requests that outlive   *)
(* their callers and of disturbances.                                      *)
(***************************************************************************)
EXTENDS Routing, RingLemmas

(***************************************************************************)
(* The inductive invariant.                                                *)
(***************************************************************************)

\* A put has a value to store; a call that has not been sent has nothing to
\* show; a request that a process has taken ends with it.  A call sent while
\* all agreed, with no disturbance since, has been redirected at most once, and
\* then to the owner of its key.  A proxy that has met no disturbance since it
\* loaded its ring still holds the ring all agree on, and the handler it has
\* called runs at the owner.
RouteOK(o) ==
    /\ o.kind \in Puts => o.value \in Value
    /\ o.phase \in {"listing", "listed", "routing"} =>
          o.redirects = 0 /\ ~o.settled /\ ~o.steady
    /\ o.phase \in {"proxied", "local"} => o.at \in up
    /\ o.settled =>
          /\ Agreed
          /\ o.redirects <= 1
          /\ o.redirects = 1 => o.at \in up /\ Owns(o.at, o.key)
          /\ o.phase = "proxied" => o.members = ring[o.at]
    /\ o.steady =>
          /\ Agreed
          /\ o.phase = "proxied" => o.members = ring[o.at]
          /\ o.phase \in {"local", "read"} => Owns(o.at, o.key)

\* An undisturbed get has seen every write that counted since its proxy loaded
\* the ring, and what the engine has given it is one of them.
ReadOK(o) ==
    /\ o.phase = "read" => o.kind = "get"
    /\ o.kind = "get" /\ o.steady =>
          /\ latest[o.key] \in o.seen
          /\ o.phase = "read" /\ Unknown \notin o.seen => o.result \in o.seen \cup {None}

CallsInv == \A r \in Request : op[r] # None => RouteOK(op[r]) /\ ReadOK(op[r])

\* A write is remembered only while all agree, and the owner of the key holds
\* it or has evicted it; copies other nodes hold do not matter, nor writes that
\* are applied elsewhere.
LatestInv ==
    \A k \in Key :
        latest[k] # Unknown =>
            /\ Agreed
            /\ \A n \in up : Owns(n, k) => store[n][k] \in {latest[k], None}

RoutingInv == TypeOK /\ CallsInv /\ LatestInv

-----------------------------------------------------------------------------
(***************************************************************************)
(* Where a key belongs while all nodes agree.                              *)
(***************************************************************************)

\* Nodes that agree have one ring, and Proxy::route of each of them names the
\* owner of the key in it, which is up and is the only one.
LEMMA AgreedRoute ==
    ASSUME TypeOK, Agreed, NEW n \in up, NEW k \in Key
    PROVE  /\ Route(n, k, ring[n]) \in up
           /\ Owns(Route(n, k, ring[n]), k)
           /\ \A m \in up : RingOf(m) = RingOf(n)
           /\ \A m \in up : Owns(m, k) => m = Route(n, k, ring[n])
  <1> DEFINE r == RingOf(n)
             a == LookupUntil(r, KeyHash[k], up)
  <1>1. /\ up \in SUBSET Node /\ KeyHash[k] \in Hash /\ None \notin Node
        /\ HashesOf \in [Node -> SUBSET Hash] /\ HashesOf[n] # {}
        /\ ring[n] \in SUBSET Node
    BY RoutingAssumption, RingAssumption DEF TypeOK
  <1>2. Alive(n) = up /\ ring[n] = Listed(n)
    BY DEF Agreed
  <1>3. n \in ring[n]
    BY <1>1, <1>2, RoutingAssumption DEF Alive, Listed
  <1>4. r \in Ring /\ InRing(r, up)
    BY <1>1, <1>3, RingFromHas DEF RingOf
  <1>5. IsOwner(r, KeyHash[k], up, a)
    BY <1>1, <1>4, LookupUntilFinds
  <1>6. a \in up
    BY <1>5 DEF IsOwner
  <1>7. Route(n, k, ring[n]) = a
    BY <1>1, <1>2, <1>6 DEF Route, RingOf
  <1>8. ASSUME NEW m \in up
        PROVE  RingOf(m) = r
    <2>1. table[m] = table[n] /\ ring[m] = Listed(m)
      BY DEF Agreed
    <2> QED
      BY <1>2, <2>1 DEF RingOf, Listed
  <1> HIDE DEF r, a
  <1>9. ASSUME NEW m \in up, Owns(m, k)
        PROVE  m = a
    <2>1. IsOwner(r, KeyHash[k], up, m)
      BY <1>8, <1>9 DEF Owns
    <2> QED
      BY <1>1, <1>4, <1>5, <2>1, OwnerIsUnique
  <1>10. Owns(a, k)
    BY <1>5, <1>6, <1>8 DEF Owns
  <1> QED
    BY <1>6, <1>7, <1>8, <1>9, <1>10 DEF r

\* A table just listed sends a key to its owner, or to a member that is down.
LEMMA FreshRoute ==
    ASSUME TypeOK, Agreed, NEW k \in Key, ClientRoute(k) \in up,
           \A n \in up : routeTable = Listed(n)
    PROVE  Owns(ClientRoute(k), k)
  <1> DEFINE n == ClientRoute(k)
             r == RingOf(n)
             a == Lookup(r, KeyHash[k])
  <1>1. /\ up \in SUBSET Node /\ KeyHash[k] \in Hash /\ None \notin Node
        /\ HashesOf \in [Node -> SUBSET Hash] /\ HashesOf[n] # {}
        /\ ring[n] \in SUBSET Node
    BY RoutingAssumption, RingAssumption DEF TypeOK
  <1>2. ring[n] = Listed(n) /\ Alive(n) = up /\ routeTable = ring[n]
    BY DEF Agreed
  <1>3. n \in ring[n] /\ routeTable # None
    <2>1. n \in Listed(n)
      BY <1>1, <1>2, RoutingAssumption DEF Alive, Listed
    <2> QED
      BY <1>1, <1>2, <2>1, RoutingAssumption
  <1>4. r \in Ring /\ InRing(r, Node)
    BY <1>1, <1>3, RingFromHas DEF RingOf
  <1>5. IsOwner(r, KeyHash[k], Node, a)
    BY <1>1, <1>4, LookupFinds, LookupUntilFinds
  <1>6. a # None /\ a = RouteLookup(r, KeyHash[k])
    BY <1>1, <1>4, <1>5, RouteLookupFinds DEF IsOwner
  <1>7. n = a
    <2>1. r = RingFrom(routeTable, HashesOf)
      BY <1>2 DEF RingOf
    <2> QED
      BY <1>3, <1>6, <2>1 DEF ClientRoute
  <1> HIDE DEF n, r, a
  <1>8. IsOwner(r, KeyHash[k], up, n)
    BY <1>1, <1>4, <1>5, <1>7, OwnerAmongFewer DEF n
  <1> QED
    BY <1>8 DEF n, r, Owns

-----------------------------------------------------------------------------
(***************************************************************************)
(* Routes, and the fields of a call.                                       *)
(***************************************************************************)

\* Client::route names a node.
LEMMA ClientRouteType ==
    ASSUME TypeOK, NEW k \in Key
    PROVE  ClientRoute(k) \in Node
  <1> DEFINE r == RingFrom(routeTable, HashesOf)
             a == RouteLookup(r, KeyHash[k])
  <1>1. CASE routeTable # None /\ a # None
    <2>1. /\ routeTable \in SUBSET Node /\ KeyHash[k] \in Hash
          /\ HashesOf \in [Node -> SUBSET Hash]
      BY <1>1, RoutingAssumption DEF TypeOK
    <2>2. r \in Ring
      BY <2>1, RingFromHas
    <2> HIDE DEF r
    <2>3. a = LookupUntil(r, KeyHash[k], Node)
      BY <2>1, <2>2, RouteLookupFinds, LookupFinds
    <2>4. IsOwner(r, KeyHash[k], Node, a)
      BY <1>1, <2>1, <2>2, <2>3, LookupUntilFinds
    <2>5. a \in Node
      BY <2>4 DEF IsOwner
    <2> QED
      BY <1>1, <2>5 DEF ClientRoute, r
  <1>2. CASE ~(routeTable # None /\ a # None)
    BY <1>2, RoutingAssumption DEF ClientRoute
  <1> QED
    BY <1>1, <1>2

\* Proxy::route names a node.
LEMMA RouteType ==
    ASSUME TypeOK, NEW n \in Node, NEW k \in Key, NEW ids \in SUBSET Node
    PROVE  Route(n, k, ids) \in Node
  <1> DEFINE r == RingFrom(ids, HashesOf)
             a == LookupUntil(r, KeyHash[k], Alive(n))
  <1>1. /\ KeyHash[k] \in Hash
        /\ HashesOf \in [Node -> SUBSET Hash] /\ Alive(n) \in SUBSET Node
    BY RoutingAssumption DEF TypeOK, Alive
  <1>2. r \in Ring
    BY <1>1, RingFromHas
  <1> HIDE DEF r
  <1>3. a # None => IsOwner(r, KeyHash[k], Alive(n), a)
    BY <1>1, <1>2, LookupUntilFinds
  <1>4. a # None => a \in Node
    BY <1>1, <1>3 DEF IsOwner
  <1> QED
    BY <1>4 DEF Route, r

\* A call has the fields of a call.
LEMMA OpFields ==
    ASSUME TypeOK, NEW r \in Request, op[r] # None
    PROVE  op[r] \in Op
  BY DEF TypeOK

\* What a disturbance leaves of a call.
LEMMA UnsettledFields ==
    ASSUME NEW o \in Op
    PROVE  /\ Unsettled(o) \in Op
           /\ ~Unsettled(o).settled /\ ~Unsettled(o).steady
           /\ Unsettled(o).kind = o.kind /\ Unsettled(o).value = o.value
           /\ Unsettled(o).phase = o.phase /\ Unsettled(o).redirects = o.redirects
           /\ Unsettled(o).at = o.at
  BY DEF Unsettled, Op

\* What is left of a call that is over.
LEMMA EndedFields ==
    ASSUME TypeOK, CallsInv, NEW r \in Request, op[r] # None,
           NEW result \in Value \cup {None, "ok", "error", "redirects"}
    PROVE  /\ r \in Late => Ended(r, result) = None
           /\ r \notin Late =>
                 /\ Ended(r, result) \in Op
                 /\ Ended(r, result).phase = "done" /\ Ended(r, result).result = result
                 /\ ~Ended(r, result).settled /\ ~Ended(r, result).steady
                 /\ Ended(r, result).kind \in Puts => Ended(r, result).value \in Value
  <1>1. op[r] \in Op /\ (op[r].kind \in Puts => op[r].value \in Value)
    BY OpFields DEF CallsInv, RouteOK
  <1> DEFINE u == Unsettled(op[r])
             o == [u EXCEPT !.phase = "done", !.result = result, !.members = {},
                            !.at = None, !.redirects = 0]
  <1>2. /\ u \in Op /\ ~u.settled /\ ~u.steady
        /\ u.kind = op[r].kind /\ u.value = op[r].value
    BY <1>1, UnsettledFields
  <1> HIDE DEF u
  <1>3. /\ o \in Op /\ o.phase = "done" /\ o.result = result
        /\ ~o.settled /\ ~o.steady /\ o.kind = op[r].kind /\ o.value = op[r].value
    <2>1. 0 \in 0..MaxRedirects
      BY RoutingAssumption
    <2>2. o \in Op
      BY <1>2, <2>1 DEF Op, OpPhase
    <2>3. /\ o.phase = "done" /\ o.result = result /\ o.settled = u.settled
          /\ o.steady = u.steady /\ o.kind = u.kind /\ o.value = u.value
      BY <1>2 DEF Op
    <2> QED
      BY <1>2, <2>2, <2>3
  <1>4. Ended(r, result) = IF r \in Late THEN None ELSE o
    BY DEF Ended, u
  <1> HIDE DEF o
  <1> QED
    BY <1>1, <1>3, <1>4

-----------------------------------------------------------------------------
(***************************************************************************)
(* What a step does to the requests.                                       *)
(***************************************************************************)

\* What the invariant says of a request.
OpOK(o) == o \in Op /\ RouteOK(o) /\ ReadOK(o)

\* The requests after a step are such as the invariant allows.
OpsKept == op' \in [Request -> Op \cup {None}] /\ CallsInv'

\* RouteOK depends on the request and on the views only.
LEMMA SameViews ==
    ASSUME UNCHANGED views
    PROVE  /\ \A r \in Request : RouteOK(op[r])' <=> RouteOK(op'[r])
           /\ Agreed' <=> Agreed
           /\ \A n \in Node, k \in Key : Owns(n, k)' <=> Owns(n, k)
  BY DEF RouteOK, Owns, RingOf, Agreed, Listed, Alive, views

\* A step that leaves the views and the last writes alone may leave a request
\* as it was, end it, or put another in its place.
LEMMA OpsFrom ==
    ASSUME TypeOK, CallsInv, UNCHANGED <<views, latest>>,
           op' = [r \in Request |-> op'[r]],
           \A r \in Request : op'[r] = op[r] \/ op'[r] = None \/ OpOK(op'[r])
    PROVE  OpsKept
  <1>1. op' \in [Request -> Op \cup {None}]
    BY DEF OpOK, TypeOK
  <1>2. ASSUME NEW r \in Request, op'[r] # None
        PROVE  RouteOK(op[r])' /\ ReadOK(op[r])'
    <2>1. RouteOK(op'[r]) /\ ReadOK(op'[r])
      BY <1>2 DEF OpOK, CallsInv
    <2>2. RouteOK(op[r])'
      BY <2>1, SameViews
    <2>3. ReadOK(op[r])'
      BY <2>1 DEF ReadOK
    <2> QED
      BY <2>2, <2>3
  <1> QED
    BY <1>1, <1>2 DEF OpsKept, CallsInv

\* The request in one place is replaced by `o'.
LEMMA OneMoves ==
    ASSUME TypeOK, CallsInv, UNCHANGED <<views, latest>>, NEW r \in Request, NEW o,
           o = None \/ OpOK(o), op' = [op EXCEPT ![r] = o]
    PROVE  OpsKept /\ op'[r] = o /\ \A q \in Request \ {r} : op'[q] = op[q]
  <1>1. /\ op' = [q \in Request |-> op'[q]] /\ op'[r] = o
        /\ \A q \in Request \ {r} : op'[q] = op[q]
    BY DEF TypeOK
  <1>2. \A q \in Request : op'[q] = op[q] \/ op'[q] = None \/ OpOK(op'[q])
    BY <1>1
  <1> QED
    BY <1>1, <1>2, OpsFrom

\* A call that is over is one the invariant allows.
LEMMA EndedOK ==
    ASSUME TypeOK, CallsInv, NEW r \in Request, op[r] # None,
           NEW result \in Value \cup {None, "ok", "error", "redirects"}
    PROVE  Ended(r, result) = None \/ OpOK(Ended(r, result))
  BY EndedFields DEF OpOK, RouteOK, ReadOK

\* A call that is given up is left as the invariant allows, and so is what
\* goes on without its caller.
LEMMA GivesUpMoves ==
    ASSUME TypeOK, CallsInv, UNCHANGED <<views, latest>>, NEW t \in Task, op[t] # None,
           NEW o, OpOK(o), GivesUp(t, o)
    PROVE  OpsKept /\ op'[t] = o /\ \A u \in Task \ {t} : op'[u] = op[u]
  <1>0. Task \subseteq Request /\ Late \subseteq Request /\ Task \cap Late = {}
    BY RoutingAssumption DEF Request
  <1>1. CASE op' = [op EXCEPT ![t] = o]
    BY <1>0, <1>1, OneMoves
  <1>2. ASSUME NEW l \in Late, op[t].kind # "get",
               op[t].phase \in {"sent", "proxied", "local"}, op[t].at \in up,
               op' = [op EXCEPT ![t] = o,
                                ![l] = [op[t] EXCEPT !.settled = FALSE, !.redirects = 0]]
        PROVE  OpsKept /\ op'[t] = o /\ \A u \in Task \ {t} : op'[u] = op[u]
    <2> DEFINE p == [op[t] EXCEPT !.settled = FALSE, !.redirects = 0]
    <2>1. op[t] \in Op /\ RouteOK(op[t]) /\ ReadOK(op[t])
      BY <1>0, OpFields DEF CallsInv
    <2>2. p \in Op /\ p.settled = FALSE
      <3>1. 0 \in 0..MaxRedirects
        BY RoutingAssumption
      <3> QED
        BY <2>1, <3>1 DEF Op
    <2>3. /\ p.kind = op[t].kind /\ p.key = op[t].key /\ p.value = op[t].value
          /\ p.phase = op[t].phase /\ p.members = op[t].members /\ p.at = op[t].at
          /\ p.steady = op[t].steady
      BY <2>1 DEF Op
    <2>4. /\ op' = [r \in Request |-> op'[r]] /\ op'[t] = o /\ op'[l] = p
          /\ \A q \in Request \ {t, l} : op'[q] = op[q]
      BY <1>0, <1>2 DEF TypeOK
    <2> HIDE DEF p
    <2>5. OpOK(p)
      BY <1>2, <2>1, <2>2, <2>3 DEF OpOK, RouteOK, ReadOK
    <2>6. \A q \in Request : op'[q] = op[q] \/ op'[q] = None \/ OpOK(op'[q])
      BY <2>4, <2>5
    <2> QED
      BY <1>0, <2>4, <2>6, OpsFrom
  <1> QED
    BY <1>1, <1>2 DEF GivesUp

\* The call that Begin makes.
NewOp(kind, k, v) ==
    [kind |-> kind, key |-> k, value |-> v,
     phase |-> IF expired THEN "listing" ELSE "routing",
     members |-> {}, at |-> None, redirects |-> 0,
     result |-> None, settled |-> FALSE, steady |-> FALSE, seen |-> {}]

LEMMA StartMoves ==
    ASSUME TypeOK, CallsInv, NEW t \in Task, Start(t)
    PROVE  /\ OpsKept
           /\ op[t] # None => op[t].phase = "done"
           /\ \A u \in Task \ {t} : op'[u] = op[u]
           /\ UNCHANGED <<views, engine, client, latest, reports, stops, elapsed>>
           /\ calls' \in 0..MaxCalls
  <1>1. PICK kind \in Puts \cup {"get", "delete"}, k \in Key, v \in Value \cup {None} :
           Begin(t, kind, k, v) /\ (kind \in Puts => v \in Value)
    BY RoutingAssumption DEF Start, Puts
  <1> DEFINE o == NewOp(kind, k, v)
  <1>2. o \in Op
    <2>1. 0 \in 0..MaxRedirects
      BY RoutingAssumption
    <2> QED
      BY <2>1 DEF NewOp, Op, OpPhase
  <1>3. OpOK(o)
    BY <1>1, <1>2 DEF OpOK, RouteOK, ReadOK, NewOp
  <1>4. op' = [op EXCEPT ![t] = o]
    BY <1>1 DEF Begin, NewOp
  <1>5. /\ UNCHANGED <<views, engine, client, latest, reports, stops, elapsed>>
        /\ op[t] # None => op[t].phase = "done"
        /\ calls' = calls + 1 /\ calls < MaxCalls
    BY <1>1 DEF Begin
  <1>6. calls' \in 0..MaxCalls
    BY <1>5, RoutingAssumption DEF TypeOK
  <1> HIDE DEF o
  <1>7. OpsKept /\ \A u \in Task \ {t} : op'[u] = op[u]
    BY <1>3, <1>4, <1>5, OneMoves DEF Request
  <1> QED
    BY <1>5, <1>6, <1>7

\* The steps of a call before it is sent, and its sending.
LEMMA ClientMoves ==
    ASSUME TypeOK, CallsInv, NEW t \in Task,
           ListMembers(t) \/ ListingFails(t) \/ UpdateRouteTable(t) \/ Send(t)
    PROVE  /\ OpsKept /\ op[t] # None
           /\ \A u \in Task \ {t} : op'[u] = op[u]
           /\ Send(t) => op'[t].phase = "sent" /\ op'[t].at = ClientRoute(op[t].key)
  <1>1. op[t] # None /\ t \in Request /\ UNCHANGED <<views, latest>>
    BY DEF ListMembers, ListingFails, UpdateRouteTable, Send, Request
  <1>2. op[t] \in Op /\ RouteOK(op[t]) /\ ReadOK(op[t])
    BY <1>1, OpFields DEF CallsInv
  <1>3. ASSUME NEW o, op' = [op EXCEPT ![t] = o], OpOK(o)
        PROVE  OpsKept /\ op'[t] = o /\ \A u \in Task \ {t} : op'[u] = op[u]
    BY <1>1, <1>3, OneMoves DEF Request
  <1>4. CASE ListMembers(t)
    <2>1. PICK ids \in SUBSET Node :
             op' = [op EXCEPT ![t].phase = "listed", ![t].members = ids]
      BY <1>4 DEF ListMembers, Listed
    <2> DEFINE o == [op[t] EXCEPT !.phase = "listed", !.members = ids]
    <2>2. op' = [op EXCEPT ![t] = o]
      BY <1>1, <2>1 DEF TypeOK
    <2>3. OpOK(o)
      BY <1>2, <1>4 DEF OpOK, RouteOK, ReadOK, Op, OpPhase, ListMembers
    <2>4. ~Send(t)
      BY <1>4 DEF ListMembers, Send
    <2> HIDE DEF o
    <2> QED
      BY <1>1, <1>3, <2>2, <2>3, <2>4
  <1>5. CASE ListingFails(t)
    <2> DEFINE o == [op[t] EXCEPT !.phase = "done", !.result = "error"]
    <2>2. op' = [op EXCEPT ![t] = o]
      BY <1>1, <1>5 DEF TypeOK, ListingFails
    <2>3. OpOK(o)
      BY <1>2, <1>5 DEF OpOK, RouteOK, ReadOK, Op, OpPhase, ListingFails
    <2>4. ~Send(t)
      BY <1>5 DEF ListingFails, Send
    <2> HIDE DEF o
    <2> QED
      BY <1>1, <1>3, <2>2, <2>3, <2>4
  <1>6. CASE UpdateRouteTable(t)
    <2> DEFINE o == [op[t] EXCEPT !.phase = "routing", !.members = {}]
    <2>2. op' = [op EXCEPT ![t] = o]
      BY <1>1, <1>6 DEF TypeOK, UpdateRouteTable
    <2>3. OpOK(o)
      BY <1>2, <1>6 DEF OpOK, RouteOK, ReadOK, Op, OpPhase, UpdateRouteTable
    <2>4. ~Send(t)
      BY <1>6 DEF UpdateRouteTable, Send
    <2> HIDE DEF o
    <2> QED
      BY <1>1, <1>3, <2>2, <2>3, <2>4
  <1>7. CASE Send(t)
    <2> DEFINE o == [op[t] EXCEPT !.phase = "sent", !.at = ClientRoute(op[t].key),
                                  !.settled = Agreed]
    <2>1. op[t].key \in Key /\ op[t].phase = "routing"
      BY <1>2, <1>7 DEF Op, Send
    <2>2. ClientRoute(op[t].key) \in Node /\ Agreed \in BOOLEAN
      BY <2>1, ClientRouteType DEF Agreed
    <2>3. o \in Op /\ o.phase = "sent" /\ o.at = ClientRoute(op[t].key)
      BY <1>2, <2>2 DEF Op, OpPhase
    <2>4. /\ o.settled => Agreed
          /\ o.kind = op[t].kind /\ o.value = op[t].value
          /\ o.redirects = op[t].redirects /\ o.steady = op[t].steady
      BY <1>2 DEF Op
    <2>5. op' = [op EXCEPT ![t] = o]
      BY <1>1, <1>7 DEF TypeOK, Send
    <2> HIDE DEF o
    <2>6. OpOK(o)
      BY <1>2, <2>1, <2>3, <2>4 DEF OpOK, RouteOK, ReadOK
    <2> QED
      BY <1>1, <1>3, <2>3, <2>5, <2>6
  <1> QED
    BY <1>4, <1>5, <1>6, <1>7

\* A call whose caller gives up, or waits for ever.
LEMMA GivenUpMoves ==
    ASSUME TypeOK, CallsInv, NEW t \in Task, Hang(t) \/ SendFails(t)
    PROVE  /\ OpsKept /\ op[t] # None
           /\ \A u \in Task \ {t} : op'[u] = op[u]
           /\ IF Hang(t) THEN op'[t].phase = "hung"
                         ELSE op'[t].phase = "done" /\ op'[t].result = "error"
  <1>1. op[t] # None /\ t \in Request /\ t \notin Late /\ UNCHANGED <<views, latest>>
    BY RoutingAssumption DEF Hang, SendFails, Request
  <1>2. op[t] \in Op /\ RouteOK(op[t]) /\ ReadOK(op[t])
    BY <1>1, OpFields DEF CallsInv
  <1>3. CASE Hang(t)
    <2> DEFINE o == [op[t] EXCEPT !.phase = "hung", !.members = {}, !.steady = FALSE,
                                  !.seen = {}]
    <2>1. o \in Op /\ o.phase = "hung" /\ o.steady = FALSE
      BY <1>2 DEF Op, OpPhase
    <2>2. /\ o.kind = op[t].kind /\ o.key = op[t].key /\ o.value = op[t].value
          /\ o.at = op[t].at /\ o.redirects = op[t].redirects
          /\ o.settled = op[t].settled
      BY <1>2 DEF Op
    <2>3. GivesUp(t, o)
      BY <1>3 DEF Hang
    <2> HIDE DEF o
    <2>4. OpOK(o)
      BY <1>2, <2>1, <2>2 DEF OpOK, RouteOK, ReadOK
    <2> QED
      BY <1>1, <1>3, <2>1, <2>3, <2>4, GivesUpMoves
  <1>4. CASE SendFails(t) /\ ~Hang(t)
    <2>1. GivesUp(t, Ended(t, "error"))
      BY <1>4 DEF SendFails
    <2>2. /\ Ended(t, "error") \in Op
          /\ Ended(t, "error").phase = "done" /\ Ended(t, "error").result = "error"
          /\ OpOK(Ended(t, "error"))
      BY <1>1, EndedFields DEF OpOK, RouteOK, ReadOK
    <2> QED
      BY <1>1, <1>4, <2>1, <2>2, GivesUpMoves
  <1> QED
    BY <1>3, <1>4


\* The proxy of a node loads its ring.
LEMMA LoadRingMoves ==
    ASSUME TypeOK, CallsInv, NEW r \in Request, LoadRing(r)
    PROVE  OpsKept /\ \A q \in Request \ {r} : op'[q] = op[q]
  <1>1. /\ op[r] # None /\ UNCHANGED <<views, latest>>
        /\ op[r].phase = "sent" /\ op[r].at \in up
    BY DEF LoadRing
  <1>2. op[r] \in Op /\ RouteOK(op[r]) /\ op[r].key \in Key /\ op[r].at \in Node
    BY <1>1, OpFields DEF CallsInv, Op, TypeOK
  <1> DEFINE s == IF op[r].kind = "get" THEN {latest[op[r].key]} ELSE {}
             o == [op[r] EXCEPT !.phase = "proxied", !.members = ring[op[r].at],
                                !.steady = Agreed, !.seen = s]
  <1>3. s \in SUBSET (Value \cup {None, Unknown}) /\ ring[op[r].at] \in SUBSET Node
    BY <1>2 DEF TypeOK
  <1>4. op' = [op EXCEPT ![r] = o]
    BY <1>1 DEF TypeOK, LoadRing
  <1>5. op[r].kind = "get" => latest[op[r].key] \in s
    OBVIOUS
  <1> HIDE DEF s
  <1>6. o \in Op
    <2>1. Agreed \in BOOLEAN
      BY DEF Agreed
    <2> QED
      BY <1>2, <1>3, <2>1 DEF Op, OpPhase
  <1>7. /\ o.phase = "proxied" /\ o.members = ring[op[r].at] /\ o.seen = s
        /\ o.steady => Agreed
        /\ o.kind = op[r].kind /\ o.key = op[r].key /\ o.value = op[r].value
        /\ o.at = op[r].at /\ o.redirects = op[r].redirects
        /\ o.settled = op[r].settled
    BY <1>2 DEF Op
  <1> HIDE DEF o
  <1>8. RouteOK(o)
    BY <1>1, <1>2, <1>7 DEF RouteOK
  <1>9. ReadOK(o)
    BY <1>5, <1>7 DEF ReadOK
  <1> QED
    BY <1>1, <1>4, <1>6, <1>8, <1>9, OneMoves DEF OpOK

\* A proxy that has loaded the ring all agree on lets in what belongs to its
\* node, and nothing else.
LEMMA AgreedDest ==
    ASSUME TypeOK, CallsInv, NEW r \in Request, op[r] # None, op[r].phase = "proxied",
           Agreed, op[r].members = ring[op[r].at]
    PROVE  /\ Dest(r) \in up /\ Owns(Dest(r), op[r].key)
           /\ Owns(op[r].at, op[r].key) => Dest(r) = op[r].at
  <1>1. op[r].at \in up /\ op[r].key \in Key
    BY OpFields DEF CallsInv, RouteOK, Op
  <1> QED
    BY <1>1, AgreedRoute DEF Dest

\* The handler is called.
LEMMA ServeMoves ==
    ASSUME TypeOK, CallsInv, NEW r \in Request, Serve(r)
    PROVE  OpsKept /\ \A q \in Request \ {r} : op'[q] = op[q]
  <1>1. /\ op[r] # None /\ UNCHANGED <<views, latest>>
        /\ op[r].phase = "proxied" /\ Dest(r) = op[r].at
    BY DEF Serve
  <1>2. op[r] \in Op /\ RouteOK(op[r]) /\ ReadOK(op[r])
    BY <1>1, OpFields DEF CallsInv
  <1>3. op[r].steady => Owns(op[r].at, op[r].key)
    BY <1>1, <1>2, AgreedDest DEF RouteOK
  <1> DEFINE o == [op[r] EXCEPT !.phase = "local", !.members = {}]
  <1>4. op' = [op EXCEPT ![r] = o]
    BY <1>1 DEF TypeOK, Serve
  <1>5. /\ o \in Op /\ o.phase = "local"
        /\ o.kind = op[r].kind /\ o.key = op[r].key /\ o.value = op[r].value
        /\ o.at = op[r].at /\ o.redirects = op[r].redirects
        /\ o.settled = op[r].settled /\ o.steady = op[r].steady /\ o.seen = op[r].seen
    BY <1>2 DEF Op, OpPhase
  <1> HIDE DEF o
  <1>6. OpOK(o)
    BY <1>1, <1>2, <1>3, <1>5 DEF OpOK, RouteOK, ReadOK
  <1> QED
    BY <1>1, <1>4, <1>6, OneMoves

\* The request is redirected, and its caller follows or gives up.
LEMMA RedirectMoves ==
    ASSUME TypeOK, CallsInv, NEW r \in Request, Redirect(r)
    PROVE  OpsKept /\ \A q \in Request \ {r} : op'[q] = op[q]
  <1>1. /\ op[r] # None /\ UNCHANGED <<views, latest>>
        /\ op[r].phase = "proxied" /\ Dest(r) # op[r].at
    BY DEF Redirect
  <1>2. /\ op[r] \in Op /\ RouteOK(op[r]) /\ op[r].at \in Node /\ op[r].key \in Key
        /\ op[r].members \in SUBSET Node
        /\ op[r].redirects \in 0..MaxRedirects /\ MaxRedirects \in Nat
    BY <1>1, OpFields, RoutingAssumption DEF CallsInv, Op, RouteOK, TypeOK
  <1>3. Dest(r) \in Node
    BY <1>2, RouteType DEF Dest
  <1> DEFINE o == [op[r] EXCEPT !.phase = "sent", !.at = Dest(r),
                                !.redirects = op[r].redirects + 1, !.members = {},
                                !.steady = FALSE, !.seen = {}]
  <1>4. \/ op' = [op EXCEPT ![r] = o] /\ op[r].redirects < MaxRedirects
        \/ op' = [op EXCEPT ![r] = Ended(r, "error")]
        \/ op' = [op EXCEPT ![r] = Ended(r, "redirects")]
    BY <1>1 DEF Redirect, TypeOK
  <1>5. CASE op' = [op EXCEPT ![r] = Ended(r, "error")]
    BY <1>1, <1>5, EndedOK, OneMoves
  <1>6. CASE op' = [op EXCEPT ![r] = Ended(r, "redirects")]
    BY <1>1, <1>6, EndedOK, OneMoves
  <1>7. CASE op' = [op EXCEPT ![r] = o] /\ op[r].redirects < MaxRedirects
    <2>1. op[r].settled =>
             /\ Agreed /\ op[r].redirects = 0
             /\ Dest(r) \in up /\ Owns(Dest(r), op[r].key)
      <3>1. SUFFICES ASSUME op[r].settled
                     PROVE  /\ Agreed /\ op[r].redirects = 0
                            /\ Dest(r) \in up /\ Owns(Dest(r), op[r].key)
        OBVIOUS
      <3>2. /\ Agreed /\ op[r].redirects <= 1 /\ op[r].members = ring[op[r].at]
            /\ op[r].redirects = 1 => Owns(op[r].at, op[r].key)
        BY <1>1, <1>2, <3>1 DEF RouteOK
      <3>3. /\ Dest(r) \in up /\ Owns(Dest(r), op[r].key)
            /\ Owns(op[r].at, op[r].key) => Dest(r) = op[r].at
        BY <1>1, <3>2, AgreedDest
      <3> QED
        BY <1>1, <1>2, <3>2, <3>3
    <2>2. o \in Op
      <3>1. op[r].redirects + 1 \in 0..MaxRedirects
        BY <1>2, <1>7
      <3> QED
        BY <1>2, <1>3, <3>1 DEF Op, OpPhase
    <2>3. /\ o.phase = "sent" /\ o.at = Dest(r) /\ o.steady = FALSE
          /\ o.redirects = op[r].redirects + 1
          /\ o.kind = op[r].kind /\ o.key = op[r].key /\ o.value = op[r].value
          /\ o.settled = op[r].settled
      BY <1>2 DEF Op
    <2> HIDE DEF o
    <2>4. OpOK(o)
      BY <1>2, <2>1, <2>2, <2>3 DEF OpOK, RouteOK, ReadOK
    <2> QED
      BY <1>1, <1>7, <2>4, OneMoves
  <1> QED
    BY <1>4, <1>5, <1>6, <1>7

\* The engine of the owner gives an undisturbed get the last write, or nothing.
LEMMA ReadMoves ==
    ASSUME TypeOK, CallsInv, LatestInv, NEW t \in Task, Read(t)
    PROVE  OpsKept /\ \A u \in Task \ {t} : op'[u] = op[u]
  <1>1. /\ op[t] # None /\ UNCHANGED <<views, latest>> /\ t \in Request
        /\ op[t].phase = "local" /\ op[t].kind = "get"
    BY DEF Read, Request
  <1>2. /\ op[t] \in Op /\ RouteOK(op[t]) /\ ReadOK(op[t])
        /\ op[t].at \in up /\ op[t].at \in Node /\ op[t].key \in Key
    BY <1>1, OpFields DEF CallsInv, RouteOK, Op, TypeOK
  <1>3. PICK value \in {store[op[t].at][op[t].key], None} :
           op' = [op EXCEPT ![t].phase = "read", ![t].result = value]
    BY DEF Read
  <1>4. value \in Value \cup {None}
    BY <1>2 DEF TypeOK
  <1>5. op[t].steady /\ Unknown \notin op[t].seen => value \in op[t].seen \cup {None}
    <2>1. SUFFICES ASSUME op[t].steady, Unknown \notin op[t].seen
                   PROVE  value \in op[t].seen \cup {None}
      OBVIOUS
    <2>2. latest[op[t].key] \in op[t].seen /\ Owns(op[t].at, op[t].key)
      BY <1>1, <1>2, <2>1 DEF RouteOK, ReadOK
    <2>3. store[op[t].at][op[t].key] \in {latest[op[t].key], None}
      BY <1>2, <2>1, <2>2 DEF LatestInv
    <2> QED
      BY <2>2, <2>3
  <1> DEFINE o == [op[t] EXCEPT !.phase = "read", !.result = value]
  <1>6. op' = [op EXCEPT ![t] = o]
    BY <1>1, <1>3 DEF TypeOK
  <1>7. /\ o \in Op /\ o.phase = "read" /\ o.result = value
        /\ o.kind = op[t].kind /\ o.key = op[t].key /\ o.value = op[t].value
        /\ o.at = op[t].at /\ o.redirects = op[t].redirects
        /\ o.settled = op[t].settled /\ o.steady = op[t].steady /\ o.seen = op[t].seen
    BY <1>2, <1>4 DEF Op, OpPhase
  <1> HIDE DEF o
  <1>8. RouteOK(o)
    BY <1>1, <1>2, <1>7 DEF RouteOK
  <1>9. ReadOK(o)
    BY <1>1, <1>2, <1>5, <1>7 DEF ReadOK
  <1>10. OpOK(o)
    BY <1>7, <1>8, <1>9 DEF OpOK
  <1> QED
    BY <1>1, <1>6, <1>10, OneMoves DEF Request

LEMMA AnswerMoves ==
    ASSUME TypeOK, CallsInv, NEW t \in Task, Answer(t)
    PROVE  /\ OpsKept /\ op[t] # None
           /\ \A u \in Task \ {t} : op'[u] = op[u]
           /\ op'[t].result = op[t].result
  <1>1. /\ op[t] # None /\ UNCHANGED <<views, latest>> /\ t \in Request /\ t \notin Late
        /\ op' = [op EXCEPT ![t] = Ended(t, op[t].result)]
    BY RoutingAssumption DEF Answer, Request
  <1>2. op[t].result \in Value \cup {None, "ok", "error", "redirects"}
    BY <1>1, OpFields DEF Op
  <1>3. /\ OpOK(Ended(t, op[t].result))
        /\ Ended(t, op[t].result).result = op[t].result
    BY <1>1, <1>2, EndedFields DEF OpOK, RouteOK, ReadOK
  <1> QED
    BY <1>1, <1>3, OneMoves DEF Request


\* A get that runs while a write is applied only sees more.
LEMMA SeesFields ==
    ASSUME NEW o \in Op, o # None, NEW k \in Key, NEW v \in Value \cup {None}
    PROVE  /\ Sees(o, k, v) \in Op
           /\ Sees(o, k, v).kind = o.kind /\ Sees(o, k, v).key = o.key
           /\ Sees(o, k, v).value = o.value /\ Sees(o, k, v).phase = o.phase
           /\ Sees(o, k, v).members = o.members /\ Sees(o, k, v).at = o.at
           /\ Sees(o, k, v).redirects = o.redirects /\ Sees(o, k, v).result = o.result
           /\ Sees(o, k, v).settled = o.settled /\ Sees(o, k, v).steady = o.steady
           /\ o.seen \subseteq Sees(o, k, v).seen
           /\ o.key = k /\ o.seen # {} => v \in Sees(o, k, v).seen
  <1> DEFINE p == [o EXCEPT !.seen = o.seen \cup {v}]
  <1>1. CASE o.key = k /\ o.seen # {}
    <2>1. Sees(o, k, v) = p
      BY <1>1 DEF Sees
    <2>2. p \in Op /\ p.seen = o.seen \cup {v}
      BY DEF Op
    <2>3. /\ p.kind = o.kind /\ p.key = o.key /\ p.value = o.value /\ p.phase = o.phase
          /\ p.members = o.members /\ p.at = o.at /\ p.redirects = o.redirects
          /\ p.result = o.result /\ p.settled = o.settled /\ p.steady = o.steady
      BY DEF Op
    <2> HIDE DEF p
    <2> QED
      BY <2>1, <2>2, <2>3
  <1>2. CASE ~(o.key = k /\ o.seen # {})
    <2>1. Sees(o, k, v) = o
      BY <1>2 DEF Sees
    <2> QED
      BY <1>2, <2>1
  <1> QED
    BY <1>1, <1>2

\* What a write that is applied does: at the node the proxy let it in at, owner
\* or not, to the copy of its key there; it counts as the last write if that
\* node is the owner and all agree.
LEMMA WriteStep ==
    ASSUME TypeOK, CallsInv, NEW r \in Request, Write(r)
    PROVE  /\ UNCHANGED views /\ op[r] # None /\ op[r].phase = "local"
           /\ op[r].at \in up /\ op[r].at \in Node /\ op[r].key \in Key
           /\ op[r].value \in Value \cup {None}
           /\ store' \in [Node -> [Key -> Value \cup {None}]]
           /\ written' \in [Node -> [Key -> SUBSET Value]]
           /\ latest' \in [Key -> Value \cup {None, Unknown}]
           /\ \A n \in Node, k \in Key :
                 n # op[r].at \/ k # op[r].key => store'[n][k] = store[n][k]
           /\ \A k \in Key : k # op[r].key => latest'[k] = latest[k]
           /\ IF Agreed /\ Owns(op[r].at, op[r].key)
              THEN /\ latest'[op[r].key] = op[r].value
                   /\ store'[op[r].at][op[r].key] \in {latest'[op[r].key], None}
              ELSE latest' = latest
  <1>1. /\ UNCHANGED views /\ op[r] # None /\ op[r].phase = "local"
        /\ op[r].kind # "get"
        /\ store' = Applied(op[r].at, op[r])
        /\ written' = IF op[r].kind \in Puts
                      THEN [written EXCEPT ![op[r].at][op[r].key] = @ \cup {op[r].value}]
                      ELSE written
        /\ latest' = IF Agreed /\ Owns(op[r].at, op[r].key)
                     THEN [latest EXCEPT ![op[r].key] = op[r].value] ELSE latest
    BY DEF Write
  <1>2. /\ op[r].at \in up /\ op[r].at \in Node /\ op[r].key \in Key
        /\ op[r].value \in Value \cup {None}
        /\ op[r].kind \in Puts => op[r].value \in Value
    BY <1>1, OpFields DEF Op, TypeOK, CallsInv, RouteOK
  <1> DEFINE v == IF op[r].kind \in Puts THEN op[r].value ELSE None
  <1>3. /\ store \in [Node -> [Key -> Value \cup {None}]]
        /\ written \in [Node -> [Key -> SUBSET Value]]
        /\ latest \in [Key -> Value \cup {None, Unknown}]
    BY DEF TypeOK
  <1>4. store' = [store EXCEPT ![op[r].at][op[r].key] = v] /\ v \in {op[r].value, None}
    BY <1>1 DEF Applied
  <1> HIDE DEF v
  <1>5. /\ store' \in [Node -> [Key -> Value \cup {None}]]
        /\ store'[op[r].at][op[r].key] = v
        /\ \A n \in Node, k \in Key :
              n # op[r].at \/ k # op[r].key => store'[n][k] = store[n][k]
    BY <1>2, <1>3, <1>4
  <1>6. written' \in [Node -> [Key -> SUBSET Value]]
    BY <1>1, <1>2, <1>3
  <1>7. /\ latest' \in [Key -> Value \cup {None, Unknown}]
        /\ \A k \in Key : k # op[r].key => latest'[k] = latest[k]
        /\ IF Agreed /\ Owns(op[r].at, op[r].key)
           THEN latest'[op[r].key] = op[r].value
           ELSE latest' = latest
    BY <1>1, <1>2, <1>3
  <1> QED
    BY <1>1, <1>2, <1>4, <1>5, <1>6, <1>7

LEMMA WriteMoves ==
    ASSUME TypeOK, CallsInv, NEW r \in Request, Write(r)
    PROVE  /\ OpsKept
           /\ \A q \in Request \ {r} : op[q] # None => op'[q].phase = op[q].phase
  <1> DEFINE k == op[r].key
             v == op[r].value
             counts == Agreed /\ Owns(op[r].at, op[r].key)
  <1>1. /\ op[r] # None /\ k \in Key /\ v \in Value \cup {None}
        /\ UNCHANGED views
        /\ \A j \in Key : j # k => latest'[j] = latest[j]
        /\ IF counts THEN latest'[k] = v ELSE latest' = latest
    BY WriteStep
  <1>2. PICK result \in {"ok", "error"} :
           op' = [q \in Request |-> CASE q = r -> Ended(r, result)
                                      [] q # r /\ counts -> Sees(op[q], k, v)
                                      [] OTHER -> op[q]]
    BY DEF Write
  <1> HIDE DEF k, v, counts
  <1>3. Ended(r, result) = None \/ OpOK(Ended(r, result))
    BY <1>1, EndedOK
  <1>4. op'[r] = Ended(r, result)
    BY <1>2
  <1>5. ASSUME NEW q \in Request, q # r
        PROVE  op'[q] = IF counts THEN Sees(op[q], k, v) ELSE op[q]
    BY <1>2, <1>5
  <1>6. ASSUME NEW q \in Request, q # r, op[q] = None
        PROVE  op'[q] = None
    BY <1>5, <1>6 DEF Sees
  <1>7. ASSUME NEW q \in Request, q # r, op[q] # None
        PROVE  /\ op'[q] \in Op /\ RouteOK(op'[q]) /\ ReadOK(op[q])'
               /\ op'[q].phase = op[q].phase
    <2>1. op[q] \in Op /\ RouteOK(op[q]) /\ ReadOK(op[q]) /\ op[q].key \in Key
      BY <1>7, OpFields DEF CallsInv, Op
    <2>2. CASE counts
      <3> DEFINE o == op[q]
                 p == Sees(o, k, v)
      <3>1. op'[q] = p
        BY <1>5, <1>7, <2>2
      <3>2. /\ p \in Op /\ p.kind = o.kind /\ p.key = o.key /\ p.value = o.value
            /\ p.phase = o.phase /\ p.members = o.members /\ p.at = o.at
            /\ p.redirects = o.redirects /\ p.result = o.result
            /\ p.settled = o.settled /\ p.steady = o.steady
            /\ o.seen \subseteq p.seen
            /\ o.key = k /\ o.seen # {} => v \in p.seen
        BY <1>1, <1>7, <2>1, SeesFields
      <3>3. RouteOK(o) /\ ReadOK(o) /\ o.key \in Key
        BY <2>1
      <3> HIDE DEF o, p
      <3>4. RouteOK(p)
        BY <3>2, <3>3 DEF RouteOK
      <3>5. p.kind = "get" /\ p.steady => latest'[p.key] \in p.seen
        BY <1>1, <2>2, <3>2, <3>3 DEF ReadOK
      <3>6. ReadOK(op[q])'
        BY <3>1, <3>2, <3>3, <3>5 DEF ReadOK
      <3> QED
        BY <3>1, <3>2, <3>4, <3>6 DEF o
    <2>3. CASE ~counts
      <3>1. op'[q] = op[q] /\ latest' = latest
        BY <1>1, <1>5, <1>7, <2>3
      <3> QED
        BY <2>1, <3>1 DEF ReadOK
    <2> QED
      BY <2>2, <2>3
  <1>8. op'[r] # None => op'[r] \in Op /\ RouteOK(op'[r]) /\ ReadOK(op[r])'
    <2>1. SUFFICES ASSUME op'[r] # None
                   PROVE  op'[r] \in Op /\ RouteOK(op'[r]) /\ ReadOK(op[r])'
      OBVIOUS
    <2>2. OpOK(op'[r]) /\ op'[r].phase = "done" /\ ~op'[r].steady
      BY <1>1, <1>3, <1>4, <2>1, EndedFields
    <2> QED
      BY <2>2 DEF OpOK, ReadOK
  <1>9. \A q \in Request : op'[q] # None => RouteOK(op[q])' /\ ReadOK(op[q])'
    BY <1>1, <1>6, <1>7, <1>8, SameViews
  <1>10. op' \in [Request -> Op \cup {None}]
    <2>1. op' = [q \in Request |-> op'[q]]
      BY <1>2
    <2>2. \A q \in Request : op'[q] \in Op \cup {None}
      BY <1>6, <1>7, <1>8
    <2> QED
      BY <2>1, <2>2
  <1> QED
    BY <1>7, <1>9, <1>10 DEF OpsKept, CallsInv

\* The steps around a call that disturb the views.
Disturbance ==
    \/ \E n, m \in Node, status \in Status \cup {None} : Report(n, m, status)
    \/ \E n \in Node : RebuildRing(n) \/ Stop(n) \/ Restart(n)

\* After a disturbance no request is settled or steady, and what a process had
\* taken when it stopped is over.
LEMMA DisturbanceMoves ==
    ASSUME TypeOK, CallsInv, Disturbance
    PROVE  /\ OpsKept /\ latest' = [k \in Key |-> Unknown]
           /\ \A t \in Task :
                 op[t] # None /\ op[t].phase \notin {"proxied", "local"} =>
                    op'[t].phase = op[t].phase
  <1>1. ASSUME NEW r \in Request, op[r] # None
        PROVE  /\ Unsettled(op[r]) \in Op
               /\ ~Unsettled(op[r]).settled /\ ~Unsettled(op[r]).steady
               /\ Unsettled(op[r]).kind = op[r].kind
               /\ Unsettled(op[r]).value = op[r].value
               /\ Unsettled(op[r]).phase = op[r].phase
               /\ Unsettled(op[r]).redirects = op[r].redirects
               /\ Unsettled(op[r]).at = op[r].at
               /\ RouteOK(op[r]) /\ ReadOK(op[r])
    BY <1>1, OpFields, UnsettledFields DEF CallsInv
  <1>2. CASE \/ \E n, m \in Node, status \in Status \cup {None} : Report(n, m, status)
             \/ \E n \in Node : RebuildRing(n) \/ Restart(n)
    <2>1. Disturb /\ up \subseteq up'
      BY <1>2 DEF Report, RebuildRing, Restart
    <2>2. op' = [r \in Request |-> IF op[r] = None THEN None ELSE Unsettled(op[r])]
      BY <2>1 DEF Disturb
    <2>3. ASSUME NEW r \in Request, op[r] # None
          PROVE  op'[r] = Unsettled(op[r]) /\ RouteOK(op[r])' /\ ReadOK(op[r])'
      <3>1. op'[r] = Unsettled(op[r])
        BY <2>2, <2>3
      <3> QED
        BY <1>1, <2>1, <2>3, <3>1 DEF RouteOK, ReadOK
    <2>4. op' \in [Request -> Op \cup {None}]
      BY <1>1, <2>2
    <2>5. \A r \in Request : op[r] = None => op'[r] = None
      BY <2>2
    <2>6. latest' = [k \in Key |-> Unknown]
      BY <2>1 DEF Disturb, Forget
    <2> QED
      BY <1>1, <2>3, <2>4, <2>5, <2>6 DEF OpsKept, CallsInv, Request
  <1>3. ASSUME NEW n \in Node, Stop(n)
        PROVE  /\ OpsKept /\ latest' = [k \in Key |-> Unknown]
               /\ \A t \in Task :
                     op[t] # None /\ op[t].phase \notin {"proxied", "local"} =>
                        op'[t].phase = op[t].phase
    <2>1. /\ up' = up \ {n} /\ latest' = [k \in Key |-> Unknown]
          /\ op' = [r \in Request |-> CASE op[r] = None     -> None
                                        [] r \in TakenBy(n) -> Ended(r, "error")
                                        [] OTHER            -> Unsettled(op[r])]
      BY <1>3 DEF Stop, Forget
    <2>2. \A r \in Request : op[r] = None => op'[r] = None
      BY <2>1 DEF TakenBy
    <2>3. ASSUME NEW r \in Request, op[r] # None, r \in TakenBy(n)
          PROVE  \/ op'[r] = None
                 \/ op'[r] \in Op /\ RouteOK(op[r])' /\ ReadOK(op[r])'
      <3>1. op'[r] = Ended(r, "error")
        BY <2>1, <2>3 DEF TakenBy
      <3> QED
        BY <2>3, <3>1, EndedFields DEF RouteOK, ReadOK
    <2>4. ASSUME NEW r \in Request, op[r] # None, r \notin TakenBy(n)
          PROVE  /\ op'[r] \in Op /\ RouteOK(op[r])' /\ ReadOK(op[r])'
                 /\ op'[r].phase = op[r].phase
      <3>1. op'[r] = Unsettled(op[r])
        BY <2>1, <2>4
      <3>2. op[r].phase \in {"proxied", "local"} => op[r].at \in up'
        BY <1>1, <2>1, <2>4 DEF TakenBy, RouteOK
      <3> QED
        BY <1>1, <2>4, <3>1, <3>2 DEF RouteOK, ReadOK
    <2>5. op' \in [Request -> Op \cup {None}]
      <3>1. op' = [r \in Request |-> op'[r]]
        BY <2>1
      <3> QED
        BY <2>2, <2>3, <2>4, <3>1
    <2>6. CallsInv'
      BY <2>2, <2>3, <2>4 DEF CallsInv
    <2>7. ASSUME NEW t \in Task, op[t] # None, op[t].phase \notin {"proxied", "local"}
          PROVE  op'[t].phase = op[t].phase
      <3>1. t \in Request /\ t \notin TakenBy(n)
        BY <2>7, RoutingAssumption DEF Request, TakenBy
      <3> QED
        BY <2>4, <2>7, <3>1
    <2> QED
      BY <2>1, <2>5, <2>6, <2>7 DEF OpsKept
  <1> QED
    BY <1>2, <1>3 DEF Disturbance


-----------------------------------------------------------------------------
(***************************************************************************)
(* The invariant is inductive.                                             *)
(***************************************************************************)

\* Every step is one of these.
LEMMA NextCases ==
    ASSUME [Next]_vars
    PROVE  \/ UNCHANGED vars
           \/ Disturbance
           \/ \E n \in Node, k \in Key : Evict(n, k)
           \/ Expire
           \/ \E t \in Task : \/ Start(t)
                              \/ ListMembers(t) \/ ListingFails(t)
                              \/ UpdateRouteTable(t) \/ Send(t)
                              \/ Hang(t) \/ SendFails(t)
                              \/ Read(t) \/ Answer(t)
           \/ \E r \in Request : LoadRing(r) \/ Serve(r) \/ Redirect(r) \/ Write(r)
  <1>1. ASSUME NEW l \in Late, ServerStep(l)
        PROVE  \E r \in Request : LoadRing(r) \/ Serve(r) \/ Redirect(r) \/ Write(r)
    BY <1>1 DEF ServerStep, Request
  <1>2. ASSUME NEW t \in Task, ServerStep(t)
        PROVE  \E r \in Request : LoadRing(r) \/ Serve(r) \/ Redirect(r) \/ Write(r)
    BY <1>2 DEF ServerStep, Request
  <1> QED
    BY <1>1, <1>2 DEF Next, Cluster, Disturbance, Step

\* Every step of a request keeps what is known of it.
LEMMA CallsStep ==
    ASSUME TypeOK, CallsInv, LatestInv, [Next]_vars
    PROVE  OpsKept
  <1>1. ASSUME UNCHANGED <<views, latest, op>>
        PROVE  OpsKept
    <2>1. /\ op' = [r \in Request |-> op'[r]] /\ op' = op
          /\ UNCHANGED <<views, latest>>
      BY <1>1 DEF TypeOK
    <2> QED
      BY <2>1, OpsFrom
  <1>2. CASE UNCHANGED vars \/ (\E n \in Node, k \in Key : Evict(n, k)) \/ Expire
    <2>1. UNCHANGED <<views, latest, op>>
      BY <1>2 DEF vars, views, Evict, Expire
    <2> QED
      BY <1>1, <2>1
  <1> QED
    BY <1>2, NextCases, DisturbanceMoves, StartMoves, ClientMoves, GivenUpMoves,
       ReadMoves, AnswerMoves, LoadRingMoves, ServeMoves, RedirectMoves, WriteMoves

\* Every step keeps the types.
LEMMA TypeStep ==
    ASSUME TypeOK, CallsInv, LatestInv, [Next]_vars
    PROVE  TypeOK'
  <1>0. op' \in [Request -> Op \cup {None}]
    BY CallsStep DEF OpsKept
  <1>1. CASE UNCHANGED vars
    BY <1>1 DEF TypeOK, vars
  <1>2. ASSUME Disturbance
        PROVE  latest' \in [Key -> Value \cup {None, Unknown}]
    BY <1>2, DisturbanceMoves
  <1>3. ASSUME NEW n \in Node, NEW m \in Node, NEW status \in Status \cup {None},
               Report(n, m, status)
        PROVE  TypeOK'
    <2>1. latest' \in [Key -> Value \cup {None, Unknown}]
      BY <1>2, <1>3 DEF Disturbance
    <2>2. table' \in [Node -> [Node -> Status \cup {None}]]
      BY <1>3 DEF Report, TypeOK
    <2>3. reports' \in 0..MaxReports
      BY <1>3, RoutingAssumption DEF Report, TypeOK
    <2> QED
      BY <1>0, <1>3, <2>1, <2>2, <2>3 DEF Report, TypeOK, engine, client
  <1>4. ASSUME NEW n \in Node, RebuildRing(n)
        PROVE  TypeOK'
    <2>1. latest' \in [Key -> Value \cup {None, Unknown}]
      BY <1>2, <1>4 DEF Disturbance
    <2>2. ring' \in [Node -> SUBSET Node]
      BY <1>4 DEF RebuildRing, TypeOK, Listed
    <2> QED
      BY <1>0, <1>4, <2>1, <2>2 DEF RebuildRing, TypeOK, counters
  <1>5. ASSUME NEW n \in Node, Stop(n)
        PROVE  TypeOK'
    <2>1. latest' \in [Key -> Value \cup {None, Unknown}]
      BY <1>2, <1>5 DEF Disturbance
    <2>2. stops' \in 0..MaxStops /\ up' \in SUBSET Node
      BY <1>5, RoutingAssumption DEF Stop, TypeOK
    <2> QED
      BY <1>0, <1>5, <2>1, <2>2 DEF Stop, TypeOK, engine, client
  <1>6. ASSUME NEW n \in Node, Restart(n)
        PROVE  TypeOK'
    <2>1. latest' \in [Key -> Value \cup {None, Unknown}]
      BY <1>2, <1>6 DEF Disturbance
    <2>2. PICK ids \in SUBSET Node :
             /\ table' = [table EXCEPT ![n] =
                             [m \in Node |-> IF m \in ids THEN "alive" ELSE None]]
             /\ ring' = [ring EXCEPT ![n] = ids]
      BY <1>6 DEF Restart
    <2>3. /\ table' \in [Node -> [Node -> Status \cup {None}]]
          /\ ring' \in [Node -> SUBSET Node]
      BY <2>2 DEF TypeOK, Status
    <2>4. store' \in [Node -> [Key -> Value \cup {None}]] /\ up' \in SUBSET Node
      BY <1>6 DEF Restart, TypeOK
    <2> QED
      BY <1>0, <1>6, <2>1, <2>3, <2>4 DEF Restart, TypeOK, counters
  <1>7. ASSUME NEW n \in Node, NEW k \in Key, Evict(n, k)
        PROVE  TypeOK'
    <2>1. store' \in [Node -> [Key -> Value \cup {None}]]
      BY <1>7 DEF Evict, TypeOK
    <2> QED
      BY <1>7, <2>1 DEF Evict, TypeOK, counters
  <1>8. CASE Expire
    <2>1. elapsed' \in 0..MaxElapsed
      BY <1>8, RoutingAssumption DEF Expire, TypeOK
    <2> QED
      BY <1>8, <2>1 DEF Expire, TypeOK, views, engine
  <1>9. ASSUME NEW t \in Task, Start(t)
        PROVE  TypeOK'
    <2>1. /\ UNCHANGED <<views, engine, client, latest, reports, stops, elapsed>>
          /\ calls' \in 0..MaxCalls
      BY <1>9, StartMoves
    <2> QED
      BY <1>0, <2>1 DEF TypeOK, views, engine, client
  <1>10. ASSUME UNCHANGED <<views, engine, client, latest, counters>>
         PROVE  TypeOK'
    BY <1>0, <1>10 DEF TypeOK, views, engine, client, counters
  <1>11. ASSUME NEW t \in Task, \/ ListMembers(t) \/ ListingFails(t) \/ Send(t) \/ Hang(t)
                                \/ SendFails(t) \/ Read(t) \/ Answer(t)
         PROVE  TypeOK'
    <2>1. UNCHANGED <<views, engine, client, latest, counters>>
      BY <1>11 DEF ListMembers, ListingFails, Send, Hang, SendFails, Read, Answer
    <2> QED
      BY <1>10, <2>1
  <1>12. ASSUME NEW t \in Task, UpdateRouteTable(t)
         PROVE  TypeOK'
    <2>1. routeTable' \in SUBSET Node
      BY <1>12, OpFields DEF UpdateRouteTable, Op, Request
    <2> QED
      BY <1>0, <1>12, <2>1 DEF UpdateRouteTable, TypeOK, views, engine, counters
  <1>13. ASSUME NEW r \in Request, LoadRing(r) \/ Serve(r) \/ Redirect(r)
         PROVE  TypeOK'
    <2>1. UNCHANGED <<views, engine, client, latest, counters>>
      BY <1>13 DEF LoadRing, Serve, Redirect
    <2> QED
      BY <1>10, <2>1
  <1>14. ASSUME NEW r \in Request, Write(r)
         PROVE  TypeOK'
    <2>1. /\ store' \in [Node -> [Key -> Value \cup {None}]]
          /\ written' \in [Node -> [Key -> SUBSET Value]]
          /\ latest' \in [Key -> Value \cup {None, Unknown}]
      BY <1>14, WriteStep
    <2>2. UNCHANGED <<views, client, counters>>
      BY <1>14 DEF Write
    <2> QED
      BY <1>0, <2>1, <2>2 DEF TypeOK, views, client, counters
  <1> QED
    BY <1>1, <1>3, <1>4, <1>5, <1>6, <1>7, <1>8, <1>9, <1>11, <1>12, <1>13, <1>14,
       NextCases DEF Disturbance

\* Every step keeps the last write at the owner of its key.
LEMMA LatestStep ==
    ASSUME TypeOK, CallsInv, LatestInv, [Next]_vars
    PROVE  LatestInv'
  <1>0. up \in SUBSET Node
    BY DEF TypeOK
  <1>1. CASE Disturbance
    <2>1. \A k \in Key : latest'[k] = Unknown
      BY <1>1, DisturbanceMoves
    <2> QED
      BY <2>1 DEF LatestInv
  <1>2. ASSUME UNCHANGED <<views, latest>>,
               \A n \in Node, k \in Key : store'[n][k] \in {store[n][k], None}
        PROVE  LatestInv'
    <2>1. ASSUME NEW k \in Key, latest'[k] # Unknown
          PROVE  Agreed' /\ \A n \in up' : Owns(n, k)' => store'[n][k] \in {latest'[k], None}
      <3>1. Agreed /\ \A n \in up : Owns(n, k) => store[n][k] \in {latest[k], None}
        BY <1>2, <2>1 DEF LatestInv
      <3>2. up' = up /\ latest' = latest
        BY <1>2 DEF views
      <3> QED
        BY <1>0, <1>2, <3>1, <3>2, SameViews
    <2> QED
      BY <2>1 DEF LatestInv
  <1>3. ASSUME UNCHANGED <<views, engine, latest>>
        PROVE  LatestInv'
    BY <1>2, <1>3 DEF engine
  <1>4. CASE UNCHANGED vars \/ Expire
    <2>1. UNCHANGED <<views, engine, latest>>
      BY <1>4 DEF vars, views, engine, Expire
    <2> QED
      BY <1>3, <2>1
  <1>5. ASSUME NEW n \in Node, NEW k \in Key, Evict(n, k)
        PROVE  LatestInv'
    <2>1. /\ store' = [store EXCEPT ![n][k] = None]
          /\ store \in [Node -> [Key -> Value \cup {None}]]
          /\ UNCHANGED <<views, latest>>
      BY <1>5 DEF Evict, TypeOK, views
    <2>2. \A m \in Node, l \in Key : store'[m][l] \in {store[m][l], None}
      BY <2>1
    <2> QED
      BY <1>2, <2>1, <2>2
  <1>6. ASSUME NEW t \in Task,
               \/ Start(t) \/ ListMembers(t) \/ ListingFails(t) \/ UpdateRouteTable(t)
               \/ Send(t) \/ Hang(t) \/ SendFails(t) \/ Read(t) \/ Answer(t)
        PROVE  LatestInv'
    <2>1. UNCHANGED <<views, engine, latest>>
      BY <1>6 DEF Start, Begin, ListMembers, ListingFails, UpdateRouteTable, Send, Hang,
                  SendFails, Read, Answer
    <2> QED
      BY <1>3, <2>1
  <1>7. ASSUME NEW r \in Request, LoadRing(r) \/ Serve(r) \/ Redirect(r)
        PROVE  LatestInv'
    <2>1. UNCHANGED <<views, engine, latest>>
      BY <1>7 DEF LoadRing, Serve, Redirect
    <2> QED
      BY <1>3, <2>1
  <1>8. ASSUME NEW r \in Request, Write(r)
        PROVE  LatestInv'
    <2>1. /\ UNCHANGED views
          /\ op[r].at \in up /\ op[r].key \in Key
          /\ \A n \in Node, k \in Key :
                n # op[r].at \/ k # op[r].key => store'[n][k] = store[n][k]
          /\ \A k \in Key : k # op[r].key => latest'[k] = latest[k]
          /\ IF Agreed /\ Owns(op[r].at, op[r].key)
             THEN store'[op[r].at][op[r].key] \in {latest'[op[r].key], None}
             ELSE latest' = latest
      BY <1>8, WriteStep
    <2>2. ASSUME NEW k \in Key, latest'[k] # Unknown
          PROVE  Agreed
      BY <2>1, <2>2 DEF LatestInv
    <2>3. ASSUME NEW k \in Key, latest'[k] # Unknown, NEW n \in up, Owns(n, k)
          PROVE  store'[n][k] \in {latest'[k], None}
      <3>1. Agreed
        BY <2>2, <2>3
      <3>2. CASE k = op[r].key /\ n = op[r].at
        BY <2>1, <2>3, <3>1, <3>2
      <3>3. CASE k = op[r].key /\ n # op[r].at
        <4>1. ~Owns(op[r].at, op[r].key)
          BY <2>1, <2>3, <3>1, <3>3, AgreedRoute
        <4>2. latest' = latest /\ store'[n][k] = store[n][k]
          BY <1>0, <2>1, <3>3, <4>1
        <4> QED
          BY <2>3, <4>2 DEF LatestInv
      <3>4. CASE k # op[r].key
        <4>1. store'[n][k] = store[n][k] /\ latest'[k] = latest[k]
          BY <1>0, <2>1, <3>4
        <4> QED
          BY <2>3, <4>1 DEF LatestInv
      <3> QED
        BY <3>2, <3>3, <3>4
    <2>4. up' = up /\ (Agreed' <=> Agreed)
          /\ \A n \in up, k \in Key : Owns(n, k)' <=> Owns(n, k)
      BY <1>0, <2>1, SameViews DEF views
    <2> QED
      BY <2>2, <2>3, <2>4 DEF LatestInv
  <1> QED
    BY <1>1, <1>4, <1>5, <1>6, <1>7, <1>8, NextCases

-----------------------------------------------------------------------------
(***************************************************************************)
(* The theorems.                                                           *)
(***************************************************************************)

\* The invariant of routed requests: their types, what is known of a call sent
\* while all nodes agreed and of a request whose proxy has met no disturbance,
\* through the awaits of its handler, and where the last write that counted is
\* though others are still being applied elsewhere.
THEOREM RoutingInvariant == Spec => []RoutingInv
  <1>1. Init => RoutingInv
    <2> SUFFICES ASSUME Init
                 PROVE  RoutingInv
      OBVIOUS
    <2>1. TypeOK
      BY RoutingAssumption DEF Init, TypeOK, Status
    <2>2. CallsInv
      BY DEF Init, CallsInv
    <2>3. LatestInv
      BY DEF Init, LatestInv
    <2> QED
      BY <2>1, <2>2, <2>3 DEF RoutingInv
  <1>2. RoutingInv /\ [Next]_vars => RoutingInv'
    BY TypeStep, CallsStep, LatestStep DEF RoutingInv, OpsKept
  <1> QED
    BY <1>1, <1>2, PTL DEF Spec

\* The variables of a cluster with a client keep their types.
THEOREM RoutingTypes == Spec => []TypeOK
  <1>1. RoutingInv => TypeOK
    BY DEF RoutingInv
  <1> QED
    BY <1>1, RoutingInvariant, PTL

\* A call made while all nodes agree meets at most one redirect
\* (ClusterProxyEndpoint), and it leads to the owner of the key, whose proxy
\* lets it in: Policy::limited(2) of the client is never exhausted.
THEOREM OneRedirectSuffices == Spec => []RedirectLeadsToOwner
  <1>1. ASSUME RoutingInv, NEW t \in Task, op[t] # None, op[t].settled
        PROVE  /\ op[t].redirects <= 1
               /\ op[t].redirects = 1 => op[t].at \in up /\ Owns(op[t].at, op[t].key)
               /\ op[t].redirects = 1 /\ op[t].phase = "proxied" => Dest(t) = op[t].at
    <2>1. TypeOK /\ CallsInv /\ t \in Request /\ RouteOK(op[t])
      BY <1>1 DEF RoutingInv, CallsInv, Request
    <2>2. /\ Agreed /\ op[t].redirects <= 1
          /\ op[t].redirects = 1 => op[t].at \in up /\ Owns(op[t].at, op[t].key)
          /\ op[t].phase = "proxied" => op[t].members = ring[op[t].at]
      BY <1>1, <2>1 DEF RouteOK
    <2> QED
      BY <1>1, <2>1, <2>2, AgreedDest
  <1>2. RoutingInv => RedirectLeadsToOwner
    BY <1>1 DEF RedirectLeadsToOwner
  <1> QED
    BY <1>2, RoutingInvariant, PTL

\* While all nodes agree, from the proxy's load of the ring to the last await of
\* the handler, a key is read and written at its owner only.
THEOREM ServedByOwner == Spec => []ServedAtOwner
  <1>1. RoutingInv => ServedAtOwner
    BY DEF RoutingInv, CallsInv, RouteOK, ServedAtOwner
  <1> QED
    BY <1>1, RoutingInvariant, PTL

\* A step of another request leaves a task's call in its phase.
LEMMA OthersStay ==
    ASSUME TypeOK, CallsInv, LatestInv, NEW t \in Task, op[t] # None
    PROVE  /\ \A u \in Task \ {t} :
                 \/ Start(u)
                 \/ ListMembers(u) \/ ListingFails(u) \/ UpdateRouteTable(u) \/ Send(u)
                 \/ Hang(u) \/ SendFails(u) \/ Read(u) \/ Answer(u)
                 => op'[t].phase = op[t].phase
           /\ \A r \in Request \ {t} :
                 LoadRing(r) \/ Serve(r) \/ Redirect(r) \/ Write(r)
                 => op'[t].phase = op[t].phase
  <1>1. ASSUME NEW u \in Task \ {t},
               \/ Start(u)
               \/ ListMembers(u) \/ ListingFails(u) \/ UpdateRouteTable(u) \/ Send(u)
               \/ Hang(u) \/ SendFails(u) \/ Read(u) \/ Answer(u)
        PROVE  op'[t].phase = op[t].phase
    BY <1>1, StartMoves, ClientMoves, GivenUpMoves, ReadMoves, AnswerMoves
  <1>2. ASSUME NEW r \in Request \ {t},
               LoadRing(r) \/ Serve(r) \/ Redirect(r) \/ Write(r)
        PROVE  op'[t].phase = op[t].phase
    BY <1>2, LoadRingMoves, ServeMoves, RedirectMoves, WriteMoves DEF Request
  <1> QED
    BY <1>1, <1>2

\* A call leaves these phases by these steps of its own only.
LEMMA LeavesPhase ==
    ASSUME TypeOK, CallsInv, LatestInv, [Next]_vars, NEW t \in Task, op[t] # None,
           op[t].phase \in {"routing", "read"}, op'[t].phase # op[t].phase
    PROVE  \/ op[t].phase = "routing" /\ Send(t)
           \/ op[t].phase = "read" /\ (Hang(t) \/ SendFails(t) \/ Answer(t))
  <1>1. CASE UNCHANGED vars \/ (\E n \in Node, k \in Key : Evict(n, k)) \/ Expire
    <2>1. op' = op
      BY <1>1 DEF vars, Evict, Expire
    <2> QED
      BY <2>1
  <1>2. CASE Disturbance
    BY <1>2, DisturbanceMoves
  <1>3. CASE Start(t)
    BY <1>3, StartMoves
  <1>4. CASE \/ ListMembers(t) \/ ListingFails(t) \/ UpdateRouteTable(t) \/ Send(t)
             \/ Hang(t) \/ SendFails(t) \/ Read(t) \/ Answer(t)
    BY <1>4 DEF ListMembers, ListingFails, UpdateRouteTable, Send, Hang, SendFails, Read,
                Answer
  <1>5. CASE LoadRing(t) \/ Serve(t) \/ Redirect(t) \/ Write(t)
    BY <1>5 DEF LoadRing, Serve, Redirect, Write
  <1> QED
    BY <1>1, <1>2, <1>3, <1>4, <1>5, NextCases, OthersStay

\* An undisturbed get returns what was, at some moment since its proxy loaded
\* the ring, the last write applied at the owner of the key, or nothing: never
\* an older copy, and never one of another node's.
THEOREM NoStaleRead == Spec => GetSeesLatest
  <1>1. ASSUME RoutingInv, [Next]_vars, NEW t \in Task, op[t] # None,
               op[t].phase = "read", op'[t].phase = "done",
               op[t].steady, Unknown \notin op[t].seen
        PROVE  op'[t].result \in op[t].seen \cup {None, "error"}
    <2>1. TypeOK /\ CallsInv /\ LatestInv /\ t \in Request
      BY <1>1 DEF RoutingInv, Request
    <2>2. op[t].result \in op[t].seen \cup {None}
      BY <1>1, <2>1 DEF CallsInv, ReadOK
    <2>3. Hang(t) \/ SendFails(t) \/ Answer(t)
      BY <1>1, <2>1, LeavesPhase
    <2>4. op'[t].result \in {op[t].result, "error"}
      BY <1>1, <2>1, <2>3, GivenUpMoves, AnswerMoves
    <2> QED
      BY <2>2, <2>4
  <1>2. RoutingInv /\ [Next]_vars =>
          [\A t \in Task :
             /\ op[t] # None /\ op[t].phase = "read" /\ op'[t].phase = "done"
             /\ op[t].steady /\ Unknown \notin op[t].seen
             => op'[t].result \in op[t].seen \cup {None, "error"}]_vars
    BY <1>1
  <1> QED
    BY <1>2, RoutingInvariant, PTL DEF Spec, GetSeesLatest

\* A client whose route table is the members the nodes agree on sends a call
\* straight to the owner of its key, or to a member that is down.
THEOREM FreshTableIsRight == Spec => FreshTableFindsOwner
  <1>1. ASSUME RoutingInv, [Next]_vars, NEW t \in Task, op[t] # None, op'[t] # None,
               op[t].phase = "routing", op'[t].phase = "sent", Agreed, op'[t].at \in up,
               \A n \in up : routeTable = Listed(n)
        PROVE  Owns(op'[t].at, op[t].key)
    <2>1. TypeOK /\ CallsInv /\ LatestInv /\ t \in Request
      BY <1>1 DEF RoutingInv, Request
    <2>2. op[t].key \in Key
      BY <1>1, <2>1, OpFields DEF Op
    <2>3. Send(t)
      BY <1>1, <2>1, LeavesPhase
    <2>4. op'[t].at = ClientRoute(op[t].key)
      BY <2>1, <2>3, ClientMoves
    <2> QED
      BY <1>1, <2>1, <2>2, <2>4, FreshRoute
  <1>2. RoutingInv /\ [Next]_vars =>
          [\A t \in Task :
             /\ op[t] # None /\ op'[t] # None
             /\ op[t].phase = "routing" /\ op'[t].phase = "sent"
             /\ Agreed /\ op'[t].at \in up
             /\ \A n \in up : routeTable = Listed(n)
             => Owns(op'[t].at, op[t].key)]_vars
    BY <1>1
  <1> QED
    BY <1>2, RoutingInvariant, PTL DEF Spec, FreshTableFindsOwner

=============================================================================
