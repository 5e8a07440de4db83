---------------------------- MODULE GossipProofs ----------------------------
(***************************************************************************)
(* Proofs about Gossip, for every set of nodes, every configuration and    *)
(* every value of the bounds.                                              *)
(***************************************************************************)
EXTENDS Gossip, MembershipProofs

-----------------------------------------------------------------------------
(***************************************************************************)
(* What one operation does to the part of the state it touches.            *)
(***************************************************************************)

\* A vouched-for identity is a well-formed entry.
LEMMA AliveNowType ==
    ASSUME TypeOK, NEW n \in Node, NEW info \in NodeInfo
    PROVE  AliveNow(n, info) \in MemberState /\ AliveNow(n, info).info = info
  BY ConstantsAssumption DEF TypeOK, AliveNow, Now, MemberState, MemberStatus

\* handle_message stores a table whose identities were in the table, in the
\* message or are the node's own.
LEMMA HandledType ==
    ASSUME TypeOK, NEW n \in Node, current[n] \in NodeInfo,
           NEW msg \in GossipMessage
    PROVE  /\ Handled(n, msg) \in Table
           /\ TableInfos(Handled(n, msg)) \subseteq
                 TableInfos(membership[n]) \cup MessageInfos(msg) \cup {current[n]}
  <1>1. membership[n] \in Table
    BY DEF TypeOK
  <1>2. CASE msg.type = "sync"
    <2>1. msg.members \in Table
      BY <1>2 DEF GossipMessage
    <2> DEFINE merged == UpdateMembers(membership[n], msg.members)
    <2>2. /\ merged \in Table
          /\ TableInfos(merged) \subseteq
                TableInfos(membership[n]) \cup TableInfos(msg.members)
      BY <1>1, <2>1, UpdateMembersType
    <2>3. /\ AliveNow(n, current[n]) \in MemberState
          /\ AliveNow(n, current[n]).info = current[n]
      BY AliveNowType
    <2>4. Handled(n, msg) = UpdateMember(merged, AliveNow(n, current[n]))
      BY <1>2 DEF Handled
    <2>5. MessageInfos(msg) = TableInfos(msg.members)
      BY <1>2 DEF MessageInfos
    <2> HIDE DEF merged
    <2> QED
      BY <2>2, <2>3, <2>4, <2>5, UpdateMemberType
  <1>3. CASE msg.type # "sync"
    <2>1. msg.info \in NodeInfo
      BY <1>3 DEF GossipMessage
    <2>2. /\ AliveNow(n, msg.info) \in MemberState
          /\ AliveNow(n, msg.info).info = msg.info
      BY <2>1, AliveNowType
    <2>3. Handled(n, msg) = UpdateMember(membership[n], AliveNow(n, msg.info))
      BY <1>3 DEF Handled
    <2>4. MessageInfos(msg) = {msg.info}
      BY <1>3 DEF MessageInfos
    <2> QED
      BY <1>1, <2>2, <2>3, <2>4, UpdateMemberType
  <1> QED
    BY <1>2, <1>3

\* So does the answer.
LEMMA ReplyType ==
    ASSUME TypeOK, NEW n \in Node, current[n] \in NodeInfo,
           NEW msg \in GossipMessage
    PROVE  /\ ReplyTo(n, msg) \in GossipMessage \cup {None}
           /\ ReplyTo(n, msg) # None =>
                 MessageInfos(ReplyTo(n, msg)) \subseteq
                    TableInfos(membership[n]) \cup MessageInfos(msg)
                                              \cup {current[n]}
  <1>1. CASE msg.type = "ping"
    <2>1. ReplyTo(n, msg) = Ack(current[n])
      BY <1>1 DEF ReplyTo
    <2>2. Ack(current[n]) \in GossipMessage
      BY DEF Ack, GossipMessage
    <2>3. MessageInfos(Ack(current[n])) = {current[n]}
      BY DEF Ack, MessageInfos
    <2> QED
      BY <2>1, <2>2, <2>3
  <1>2. CASE msg.type = "sync"
    <2>1. ReplyTo(n, msg) = Sync(Handled(n, msg))
      BY <1>2 DEF ReplyTo
    <2>2. Sync(Handled(n, msg)) \in GossipMessage
      BY HandledType DEF Sync, GossipMessage
    <2>3. MessageInfos(Sync(Handled(n, msg))) = TableInfos(Handled(n, msg))
      BY DEF Sync, MessageInfos
    <2> QED
      BY <2>1, <2>2, <2>3, HandledType
  <1>3. CASE msg.type = "ack"
    BY <1>3 DEF ReplyTo
  <1> QED
    BY <1>1, <1>2, <1>3 DEF GossipMessage

\* mark_dead brings in no identity but the one it condemns.
LEMMA MarkDeadType ==
    ASSUME NEW table \in Table, NEW peer \in NodeInfo
    PROVE  /\ MarkDead(table, peer) \in Table
           /\ TableInfos(MarkDead(table, peer)) \subseteq
                 TableInfos(table) \cup {peer}
  <1> DEFINE id == peer.node_id
  <1>1. CASE table[id] = None
    BY <1>1 DEF MarkDead
  <1>2. CASE table[id] # None
    <2> DEFINE member == [info |-> peer, status |-> "dead",
                          heartbeat |-> table[id].heartbeat]
    <2>1. table[id] \in MemberState
      BY <1>2 DEF Table, NodeInfo
    <2>2. member \in MemberState /\ member.info = peer
      BY <2>1 DEF MemberState, MemberStatus
    <2>3. MarkDead(table, peer) = UpdateMember(table, member)
      BY <1>2 DEF MarkDead
    <2> HIDE DEF member
    <2> QED
      BY <2>2, <2>3, UpdateMemberType
  <1> QED
    BY <1>1, <1>2

-----------------------------------------------------------------------------
(***************************************************************************)
(* The identity of a node, step by step.  Whatever happens, one of three   *)
(* things happens to the identity of a node: it is kept or lost, it is     *)
(* advanced and persisted while the process runs, or the process starts    *)
(* afresh with the successor of what is on disk.                           *)
(***************************************************************************)
Keeps(k) ==
    /\ disk'[k] \in {disk[k], Torn}
    /\ \/ phase'[k] = "down" /\ current'[k] = None
       \/ phase[k] # "down" /\ phase'[k] # "down" /\ current'[k] = current[k]

Advances(k) ==
    /\ phase[k] # "down" /\ phase'[k] # "down"
    /\ current'[k] = [current[k] EXCEPT !.incarnation = @ + 1]
    /\ disk'[k] = current[k].incarnation + 1

StartsAfresh(k) ==
    /\ phase[k] = "down" /\ phase'[k] # "down"
    /\ disk[k] # Torn
    /\ disk'[k] = NextIncarnation(k)
    /\ current'[k].node_id = k
    /\ current'[k].incarnation = NextIncarnation(k)

IdentityStep == \A k \in Node : Keeps(k) \/ Advances(k) \/ StartsAfresh(k)

\* handle_message, in whichever task it runs, changes one table and at most
\* advances one incarnation.
LEMMA HandleMessageStep ==
    ASSUME TypeOK, ProcessInv, NEW n \in Node, phase[n] # "down",
           NEW msg \in GossipMessage,
           HandleMessage(n, msg) \/ HandleMessagePanics(n, msg)
    PROVE  /\ membership' = [membership EXCEPT ![n] = Handled(n, msg)]
           /\ membership' \in [Node -> Table]
           /\ disk' \in [Node -> Nat \cup {None, Torn}]
           /\ current' \in [Node -> NodeInfo \cup {None}]
           /\ current'[n] \in NodeInfo /\ current'[n].node_id = n
           /\ \A k \in Node \ {n} : current'[k] = current[k] /\ disk'[k] = disk[k]
           /\ \/ current'[n] = current[n] /\ disk'[n] \in {disk[n], Torn}
              \/ /\ current'[n] = [current[n] EXCEPT !.incarnation = @ + 1]
                 /\ disk'[n] = current[n].incarnation + 1
  <1>1. /\ current[n] \in NodeInfo /\ current[n].node_id = n
        /\ current \in [Node -> NodeInfo \cup {None}]
        /\ disk \in [Node -> Nat \cup {None, Torn}]
        /\ membership \in [Node -> Table]
    BY DEF TypeOK, ProcessInv
  <1>2. membership' = [membership EXCEPT ![n] = Handled(n, msg)]
    BY DEF HandleMessage, HandleMessagePanics
  <1>3. Handled(n, msg) \in Table
    BY <1>1, HandledType
  <1>4. membership' \in [Node -> Table]
    BY <1>1, <1>2, <1>3
  <1>5. CASE UNCHANGED <<current, disk>>
    BY <1>1, <1>2, <1>4, <1>5
  <1>6. CASE AdvanceIncarnation(n)
    <2>1. /\ current[n].incarnation \in Nat
          /\ [current[n] EXCEPT !.incarnation = @ + 1] \in NodeInfo
          /\ [current[n] EXCEPT !.incarnation = @ + 1].node_id = n
      BY <1>1 DEF NodeInfo
    <2>2. /\ current' = [current EXCEPT ![n] =
                            [current[n] EXCEPT !.incarnation = @ + 1]]
          /\ disk' = [disk EXCEPT ![n] = current[n].incarnation + 1]
      BY <1>1, <1>6 DEF AdvanceIncarnation
    <2> QED
      BY <1>1, <1>2, <1>4, <2>1, <2>2
  <1>7. CASE HandleMessagePanics(n, msg)
    BY <1>1, <1>2, <1>4, <1>7 DEF HandleMessagePanics
  <1> QED
    BY <1>5, <1>6, <1>7 DEF HandleMessage

\* Replacing one exchange.
LEMMA CallUpdate ==
    ASSUME TypeOK, NEW n \in Node, NEW t \in Task, NEW c \in Call \cup {None},
           call' = [call EXCEPT ![n][t] = c]
    PROVE  /\ call' \in [Node -> [Task -> Call \cup {None}]]
           /\ call'[n][t] = c
           /\ \A u \in Task : u # t => call'[n][u] = call[n][u]
           /\ \A k \in Node : k # n => call'[k] = call[k]
  BY DEF TypeOK

\* Ending an exchange leaves every other one as it was.
LEMMA EndCallStep ==
    ASSUME TypeOK, NEW n \in Node, NEW t \in Task, EndCall(n, t)
    PROVE  /\ call' \in [Node -> [Task -> Call \cup {None}]]
           /\ call'[n][t] = None
           /\ \A u \in Task : u # t => call'[n][u] = call[n][u]
           /\ \A k \in Node : k # n => call'[k] = call[k]
  BY DEF EndCall, TypeOK

\* Only a process that is up awaits an answer.
LEMMA CallerIsUp ==
    ASSUME ProcessInv, NEW n \in Node, NEW t \in Task, call[n][t] # None
    PROVE  phase[n] # "down"
  BY DEF ProcessInv, NoCalls

\* An attempt that fails costs the network at most one of its losses.
LEMMA AttemptFailsStep ==
    ASSUME TypeOK, NEW n \in Node, NEW t \in Task, AttemptFails(n, t)
    PROVE  call[n][t] # None /\ losses' \in 0..MaxLosses
  BY ConstantsAssumption DEF AttemptFails, TypeOK

\* An exchange that is awaited or answered is a well-formed one.
LEMMA CallFields ==
    ASSUME TypeOK, NEW n \in Node, NEW t \in Task, call[n][t] # None
    PROVE  /\ call[n][t] \in Call
           /\ call[n][t].url \in Addr
           /\ call[n][t].peer \in NodeInfo \cup {None}
           /\ call[n][t].msg \in GossipMessage
           /\ call[n][t].tries \in 0..MaxRetries
           /\ call[n][t].reply \in GossipMessage \cup NoAnswer
  <1>1. call[n][t] \in Call
    BY DEF TypeOK
  <1> QED
    BY <1>1 DEF Call

\* An attempt that has an outcome is otherwise the exchange it was.
LEMMA OutcomeStep ==
    ASSUME TypeOK, ProcessInv, NEW n \in Node, NEW t \in Task, call[n][t] # None,
           NEW reply \in GossipMessage \cup NoAnswer,
           call' = [call EXCEPT ![n][t].reply = reply]
    PROVE  /\ phase[n] # "down"
           /\ call' \in [Node -> [Task -> Call \cup {None}]]
           /\ call'[n][t] = [call[n][t] EXCEPT !.reply = reply]
           /\ \A u \in Task : u # t => call'[n][u] = call[n][u]
           /\ \A k \in Node : k # n => call'[k] = call[k]
           /\ \A k \in Node, u \in Loop : call'[k][u] # None => call'[k][u].peer # None
  <1>1. phase[n] # "down"
    BY CallerIsUp
  <1>2. call[n][t] \in Call
    BY CallFields
  <1> DEFINE c == [call[n][t] EXCEPT !.reply = reply]
  <1>3. c \in Call /\ c.peer = call[n][t].peer
    BY <1>2 DEF Call
  <1>4. call' = [call EXCEPT ![n][t] = c]
    BY DEF TypeOK
  <1> HIDE DEF c
  <1>5. /\ call' \in [Node -> [Task -> Call \cup {None}]]
        /\ call'[n][t] = c
        /\ \A u \in Task : u # t => call'[n][u] = call[n][u]
        /\ \A k \in Node : k # n => call'[k] = call[k]
    BY <1>3, <1>4, CallUpdate
  <1>6. ASSUME NEW k \in Node, NEW u \in Loop, call'[k][u] # None
        PROVE  call'[k][u].peer # None
    BY <1>3, <1>5, <1>6 DEF ProcessInv, Task
  <1> QED
    BY <1>1, <1>5, <1>6 DEF c

\* A request that is answered at once, whatever becomes of the handler.
LEMMA AnswerStep ==
    ASSUME TypeOK, ProcessInv, NEW n \in Node, NEW t \in Task, NEW m \in Node,
           Awaiting(n, t), Serves(m, call[n][t].url),
           NEW reply \in GossipMessage \cup NoAnswer,
           call' = [call EXCEPT ![n][t].reply = reply]
    PROVE  /\ phase[n] # "down" /\ phase[m] # "down"
           /\ current[m] \in NodeInfo
           /\ call[n][t].msg \in GossipMessage
           /\ call' \in [Node -> [Task -> Call \cup {None}]]
           /\ call'[n][t] = [call[n][t] EXCEPT !.reply = reply]
           /\ \A u \in Task : u # t => call'[n][u] = call[n][u]
           /\ \A k \in Node : k # n => call'[k] = call[k]
           /\ \A k \in Node, u \in Loop : call'[k][u] # None => call'[k][u].peer # None
  <1>1. call[n][t] # None
    BY DEF Awaiting
  <1>2. phase[m] # "down" /\ current[m] \in NodeInfo
    BY DEF Serves, ProcessInv, TypeOK
  <1>3. call[n][t].msg \in GossipMessage
    BY <1>1, CallFields
  <1> QED
    BY <1>1, <1>2, <1>3, OutcomeStep

\* A peer that will never answer leaves the caller with its request.
LEMMA HangStep ==
    ASSUME TypeOK, ProcessInv, NEW n \in Node, NEW t \in Task, Hang(n, t)
    PROVE  /\ call[n][t] # None
           /\ call' \in [Node -> [Task -> Call \cup {None}]]
           /\ call'[n][t].peer = call[n][t].peer
           /\ call'[n][t].msg = call[n][t].msg
           /\ call'[n][t].reply \in NoAnswer
           /\ \A u \in Task : u # t => call'[n][u] = call[n][u]
           /\ \A k \in Node : k # n => call'[k] = call[k]
           /\ phase[n] # "down"
           /\ \A k \in Node, u \in Loop : call'[k][u] # None => call'[k][u].peer # None
  <1> DEFINE reply == Silent
  <1>1. call[n][t] # None /\ call' = [call EXCEPT ![n][t].reply = reply]
    BY DEF Hang
  <1>2. reply \in NoAnswer /\ reply \in GossipMessage \cup NoAnswer
    BY DEF NoAnswer
  <1> HIDE DEF reply
  <1>3. /\ phase[n] # "down"
        /\ call' \in [Node -> [Task -> Call \cup {None}]]
        /\ call'[n][t] = [call[n][t] EXCEPT !.reply = reply]
        /\ \A u \in Task : u # t => call'[n][u] = call[n][u]
        /\ \A k \in Node : k # n => call'[k] = call[k]
        /\ \A k \in Node, u \in Loop : call'[k][u] # None => call'[k][u].peer # None
    BY <1>1, <1>2, OutcomeStep
  <1>4. call[n][t] \in Call
    BY <1>1, CallFields
  <1>5. /\ call'[n][t].peer = call[n][t].peer
        /\ call'[n][t].msg = call[n][t].msg
        /\ call'[n][t].reply = reply
    BY <1>3, <1>4 DEF Call
  <1> QED
    BY <1>1, <1>2, <1>3, <1>5

\* A retry sends the same request once more.
LEMMA RetryStep ==
    ASSUME TypeOK, ProcessInv, NEW n \in Node, NEW t \in Task,
           Retry(n, t) \/ RetryLate(n, t)
    PROVE  /\ call[n][t] # None /\ phase[n] # "down"
           /\ call' \in [Node -> [Task -> Call \cup {None}]]
           /\ call'[n][t].peer = call[n][t].peer
           /\ call'[n][t].msg = call[n][t].msg
           /\ call'[n][t].reply = None
           /\ \A u \in Task : u # t => call'[n][u] = call[n][u]
           /\ \A k \in Node : k # n => call'[k] = call[k]
  <1> DEFINE old == call[n][t]
             c   == [url |-> old.url, peer |-> old.peer, msg |-> old.msg,
                     tries |-> old.tries + 1, reply |-> None]
  <1>1. call[n][t] # None /\ call[n][t].tries < MaxRetries
    BY AttemptFailsStep DEF Retry, RetryLate, Awaiting
  <1>2. phase[n] # "down"
    BY <1>1, CallerIsUp
  <1>3. call[n][t] \in Call /\ call[n][t].tries \in 0..MaxRetries
    BY <1>1, CallFields
  <1>4. c \in Call
    <2>1. /\ old.url \in Addr /\ old.peer \in NodeInfo \cup {None}
          /\ old.msg \in GossipMessage
      BY <1>3 DEF Call
    <2>2. old.tries + 1 \in 0..MaxRetries
      <3>1. MaxRetries \in Nat
        BY ConstantsAssumption
      <3> QED
        BY <1>1, <1>3, <3>1
    <2> QED
      BY <2>1, <2>2 DEF Call, NoAnswer
  <1>5. call' = [call EXCEPT ![n][t] = c]
    <2>1. CASE Retry(n, t)
      <3> DEFINE d == [url |-> old.url, peer |-> old.peer, msg |-> old.msg,
                       tries |-> old.tries + 1, reply |-> old.reply]
      <3>1. [old EXCEPT !.tries = @ + 1] = d
        BY <1>3 DEF Call
      <3>2. [d EXCEPT !.reply = None] = c
        OBVIOUS
      <3>3. call' = [call EXCEPT ![n][t] =
                        [[old EXCEPT !.tries = @ + 1] EXCEPT !.reply = None]]
        BY <2>1 DEF Retry, TypeOK
      <3> QED
        BY <3>1, <3>2, <3>3
    <2>2. CASE RetryLate(n, t)
      <3>1. old.reply = None
        BY <2>2 DEF RetryLate, Awaiting
      <3>2. [old EXCEPT !.tries = @ + 1] = c
        BY <1>3, <3>1 DEF Call
      <3>3. call' = [call EXCEPT ![n][t] = [old EXCEPT !.tries = @ + 1]]
        BY <2>2 DEF RetryLate, TypeOK
      <3> QED
        BY <3>2, <3>3
    <2> QED
      BY <2>1, <2>2
  <1>6. c.peer = old.peer /\ c.msg = old.msg /\ c.reply = None
    OBVIOUS
  <1> HIDE DEF c
  <1>7. /\ call' \in [Node -> [Task -> Call \cup {None}]]
        /\ call'[n][t] = c
        /\ \A u \in Task : u # t => call'[n][u] = call[n][u]
        /\ \A k \in Node : k # n => call'[k] = call[k]
    BY <1>4, <1>5, CallUpdate
  <1> QED
    BY <1>1, <1>2, <1>6, <1>7

\* fast_bootstrap calls one of the initial peers.
LEMMA BootUrl ==
    ASSUME TypeOK, NEW n \in Node, BootSend(n)
    PROVE  Peers(n)[(bootStep[n] % Len(Peers(n))) + 1] \in Addr
  <1> DEFINE len == Len(Peers(n))
  <1>1. Peers(n) \in Seq(Addr) /\ bootStep[n] \in Nat
    BY ConstantsAssumption DEF Peers, TypeOK
  <1>2. len \in Nat /\ bootStep[n] < 2 * len
    BY <1>1 DEF BootSend
  <1>3. len > 0
    BY <1>1, <1>2
  <1>4. (bootStep[n] % len) + 1 \in 1..len
    BY <1>1, <1>2, <1>3
  <1> QED
    BY <1>1, <1>4

\* Every step keeps the state well-formed, a process that is up keeps an
\* identity of its own, and a loop keeps the peer it is calling.
LEMMA TypeStep ==
    ASSUME TypeOK, ProcessInv, [Next]_vars
    PROVE  TypeOK' /\ ProcessInv'
  <1>1. CASE UNCHANGED vars
    BY <1>1 DEF TypeOK, ProcessInv, vars
  <1>2. CASE Tick
    BY <1>2 DEF Tick, TypeOK, ProcessInv
  <1>3. ASSUME NEW n \in Node, NEW a \in Addr, Boot(n, a)
        PROVE  TypeOK' /\ ProcessInv'
    <2>1. NextIncarnation(n) \in Nat
      BY <1>3 DEF Boot, CanBoot, NextIncarnation, TypeOK
    <2> DEFINE info == [node_id |-> n, url |-> a, incarnation |-> NextIncarnation(n)]
    <2>2. info \in NodeInfo /\ info.node_id = n /\ info # None
      BY <2>1, NoneAssumption DEF NodeInfo
    <2> HIDE DEF info
    <2>3. /\ disk' = [disk EXCEPT ![n] = NextIncarnation(n)]
          /\ current' = [current EXCEPT ![n] = info]
          /\ phase' = [phase EXCEPT ![n] = "serving"]
          /\ UNCHANGED <<clock, membership, ring, call, bootStep, panicked,
                         losses, late>>
      BY <1>3 DEF Boot, info
    <2>4. TypeOK'
      BY <2>1, <2>2, <2>3 DEF TypeOK, Phase
    <2>5. ProcessInv'
      BY <2>2, <2>3 DEF TypeOK, ProcessInv
    <2> QED
      BY <2>4, <2>5
  <1>4. ASSUME NEW n \in Node, BootTorn(n)
        PROVE  TypeOK' /\ ProcessInv'
    BY <1>4 DEF BootTorn, TypeOK, ProcessInv
  <1>5. ASSUME NEW n \in Node, Crash(n)
        PROVE  TypeOK' /\ ProcessInv'
    <2>1. NoCalls \in [Task -> Call \cup {None}] /\ EmptyTable \in Table
      BY EmptyTableType DEF NoCalls
    <2>2. TypeOK'
      BY <1>5, <2>1 DEF Crash, TypeOK, Phase
    <2>3. \A t \in Loop : NoCalls[t] = None
      BY DEF NoCalls, Task
    <2>4. ProcessInv'
      BY <1>5, <2>3 DEF Crash, TypeOK, ProcessInv
    <2> QED
      BY <2>2, <2>4
  <1>6. ASSUME NEW n \in Node, Start(n)
        PROVE  TypeOK' /\ ProcessInv'
    <2>1. current[n] \in NodeInfo
      BY <1>6 DEF Start, ProcessInv, TypeOK
    <2>2. UpdateMember(EmptyTable, AliveNow(n, current[n])) \in Table
      BY <2>1, AliveNowType, EmptyTableType, UpdateMemberType
    <2>3. TypeOK'
      BY <1>6, <2>2 DEF Start, TypeOK, Phase
    <2>4. ProcessInv'
      BY <1>6 DEF Start, TypeOK, ProcessInv
    <2> QED
      BY <2>3, <2>4
  <1>7. ASSUME NEW n \in Node, BootSend(n)
        PROVE  TypeOK' /\ ProcessInv'
    <2> DEFINE len == Len(Peers(n))
               url == Peers(n)[(bootStep[n] % len) + 1]
               msg == IF bootStep[n] < len THEN Ping(current[n])
                                           ELSE Sync(membership[n])
               c   == NewCall(url, None, msg)
    <2>1. current[n] \in NodeInfo /\ membership[n] \in Table
      BY <1>7 DEF BootSend, ProcessInv, TypeOK
    <2>2. url \in Addr
      BY <1>7, BootUrl
    <2>3. msg \in GossipMessage
      BY <2>1 DEF Ping, Sync, GossipMessage
    <2>4. c \in Call
      BY <2>2, <2>3, ConstantsAssumption DEF NewCall, Call, NoAnswer
    <2>5. call' = [call EXCEPT ![n]["boot"] = c]
      BY <1>7 DEF BootSend
    <2> HIDE DEF c
    <2>6. /\ call' \in [Node -> [Task -> Call \cup {None}]]
          /\ \A u \in Loop : call'[n][u] = call[n][u]
          /\ \A k \in Node : k # n => call'[k] = call[k]
      BY <2>4, <2>5, CallUpdate DEF Task, Loop
    <2>7. TypeOK'
      BY <1>7, <2>6 DEF BootSend, TypeOK
    <2>8. ProcessInv'
      BY <1>7, <2>6 DEF BootSend, ProcessInv
    <2> QED
      BY <2>7, <2>8
  <1>8. ASSUME NEW n \in Node, BootGiveUp(n)
        PROVE  TypeOK' /\ ProcessInv'
    <2>1. "boot" \in Task /\ "boot" \notin Loop
      BY DEF Task, Loop
    <2>2. /\ call' \in [Node -> [Task -> Call \cup {None}]]
          /\ \A u \in Loop : call'[n][u] = call[n][u]
          /\ \A k \in Node : k # n => call'[k] = call[k]
      BY <1>8, <2>1, EndCallStep DEF BootGiveUp, Task
    <2>3. losses' \in 0..MaxLosses /\ phase[n] # "down"
      BY <1>8, <2>1, AttemptFailsStep, CallerIsUp DEF BootGiveUp
    <2>4. TypeOK'
      <3>1. /\ bootStep' \in [Node -> Nat]
            /\ UNCHANGED <<clock, phase, disk, current, membership, ring,
                           panicked, late>>
        BY <1>8 DEF BootGiveUp, TypeOK
      <3> QED
        BY <2>2, <2>3, <3>1 DEF TypeOK
    <2>5. ProcessInv'
      BY <1>8, <2>2, <2>3 DEF BootGiveUp, ProcessInv
    <2> QED
      BY <2>4, <2>5
  <1>9. ASSUME NEW n \in Node, BootDone(n)
        PROVE  TypeOK' /\ ProcessInv'
    <2>1. RingOf(n, membership[n]) \in SUBSET Node
      BY DEF RingOf, Members
    <2>2. TypeOK'
      BY <1>9, <2>1 DEF BootDone, TypeOK, Phase
    <2>3. ProcessInv'
      BY <1>9 DEF BootDone, TypeOK, ProcessInv
    <2> QED
      BY <2>2, <2>3
  <1>10. ASSUME NEW n \in Node, RebuildRing(n)
         PROVE  TypeOK' /\ ProcessInv'
    <2>1. RingOf(n, membership[n]) \in SUBSET Node
      BY DEF RingOf, Members
    <2> QED
      BY <1>10, <2>1 DEF RebuildRing, TypeOK, ProcessInv
  <1>11. ASSUME NEW n \in Node, RemoveDeadMembers(n)
         PROVE  TypeOK' /\ ProcessInv'
    <2> DEFINE table == RemoveMembers(membership[n], Expired(n))
    <2>1. table \in Table
      BY RemoveMembersType DEF Expired, TypeOK
    <2>2. RingOf(n, table) \in SUBSET Node
      BY DEF RingOf, Members
    <2>3. /\ membership' = [membership EXCEPT ![n] = table]
          /\ ring' = [ring EXCEPT ![n] = RingOf(n, table)]
      BY <1>11 DEF RemoveDeadMembers
    <2> HIDE DEF table
    <2> QED
      BY <1>11, <2>1, <2>2, <2>3 DEF RemoveDeadMembers, TypeOK, ProcessInv
  <1>12. ASSUME NEW n \in Node, NEW t \in Task, NEW m \in Node,
                Deliver(n, t, m) \/ DeliverDuringStart(n, t, m)
         PROVE  TypeOK' /\ ProcessInv'
    <2> DEFINE msg == call[n][t].msg
    <2>1. /\ Awaiting(n, t) /\ Serves(m, call[n][t].url)
          /\ HandleMessage(m, msg)
          /\ call' = [call EXCEPT ![n][t].reply = ReplyTo(m, msg)]
          /\ UNCHANGED <<clock, ring, bootStep, panicked, losses, late>>
      BY <1>12 DEF Deliver, DeliverDuringStart
    <2>2. call[n][t] # None /\ phase[m] # "down"
      BY <2>1 DEF Awaiting, Serves
    <2>3. current[m] \in NodeInfo /\ msg \in GossipMessage
      BY <2>2, CallFields DEF ProcessInv, TypeOK
    <2>4. ReplyTo(m, msg) \in GossipMessage \cup NoAnswer
      BY <2>3, ReplyType DEF NoAnswer
    <2>5. /\ phase[n] # "down"
          /\ call' \in [Node -> [Task -> Call \cup {None}]]
          /\ \A k \in Node : k # n => call'[k] = call[k]
          /\ \A k \in Node, u \in Loop :
                call'[k][u] # None => call'[k][u].peer # None
      BY <2>1, <2>4, AnswerStep
    <2>6. /\ membership' \in [Node -> Table]
          /\ disk' \in [Node -> Nat \cup {None, Torn}]
          /\ current' \in [Node -> NodeInfo \cup {None}]
          /\ current'[m] \in NodeInfo /\ current'[m].node_id = m
          /\ \A k \in Node \ {m} : current'[k] = current[k]
      BY <2>1, <2>2, <2>3, HandleMessageStep
    <2>7. /\ phase' \in [Node -> Phase]
          /\ \A k \in Node : phase'[k] = "down" <=> phase[k] = "down"
      BY <1>12, <2>2 DEF Deliver, DeliverDuringStart, TypeOK, Phase
    <2>8. TypeOK'
      BY <2>1, <2>5, <2>6, <2>7 DEF TypeOK
    <2>9. ProcessInv'
      BY <2>2, <2>5, <2>6, <2>7, NoneAssumption DEF ProcessInv
    <2> QED
      BY <2>8, <2>9
  <1>13. ASSUME NEW n \in Node, NEW t \in Task, NEW m \in Node,
                DeliverPanics(n, t, m)
         PROVE  TypeOK' /\ ProcessInv'
    <2> DEFINE msg == call[n][t].msg
    <2>1. /\ Awaiting(n, t) /\ Serves(m, call[n][t].url)
          /\ HandleMessagePanics(m, msg)
          /\ call' = [call EXCEPT ![n][t].reply = Failed]
          /\ UNCHANGED <<clock, phase, ring, bootStep, panicked, losses, late>>
      BY <1>13 DEF DeliverPanics
    <2>2. phase[m] # "down" /\ msg \in GossipMessage
      BY <2>1, CallFields DEF Awaiting, Serves
    <2> DEFINE reply == Failed
    <2>3. reply \in GossipMessage \cup NoAnswer
      BY DEF NoAnswer
    <2>4. call' = [call EXCEPT ![n][t].reply = reply]
      BY <2>1
    <2> HIDE DEF reply
    <2>5. /\ phase[n] # "down"
          /\ call' \in [Node -> [Task -> Call \cup {None}]]
          /\ \A k \in Node : k # n => call'[k] = call[k]
          /\ \A k \in Node, u \in Loop :
                call'[k][u] # None => call'[k][u].peer # None
      BY <2>1, <2>3, <2>4, AnswerStep
    <2>6. /\ membership' \in [Node -> Table]
          /\ disk' \in [Node -> Nat \cup {None, Torn}]
          /\ current' \in [Node -> NodeInfo \cup {None}]
          /\ current'[m] \in NodeInfo /\ current'[m].node_id = m
          /\ \A k \in Node \ {m} : current'[k] = current[k]
      BY <2>1, <2>2, HandleMessageStep
    <2>7. TypeOK'
      BY <2>1, <2>5, <2>6 DEF TypeOK
    <2>8. ProcessInv'
      BY <2>1, <2>2, <2>5, <2>6, NoneAssumption DEF ProcessInv
    <2> QED
      BY <2>7, <2>8
  <1>14. ASSUME NEW n \in Node, NEW t \in Task, Retry(n, t) \/ RetryLate(n, t)
         PROVE  TypeOK' /\ ProcessInv'
    <2>1. /\ call[n][t] # None /\ phase[n] # "down"
          /\ call' \in [Node -> [Task -> Call \cup {None}]]
          /\ call'[n][t].peer = call[n][t].peer
          /\ \A u \in Task : u # t => call'[n][u] = call[n][u]
          /\ \A k \in Node : k # n => call'[k] = call[k]
      BY <1>14, RetryStep
    <2>2. call[n][t].url \in Addr /\ call[n][t].msg \in GossipMessage
      BY <2>1, CallFields
    <2>3. ASSUME NEW k \in Node, NEW u \in Loop, call'[k][u] # None
          PROVE  call'[k][u].peer # None
      BY <2>1, <2>3 DEF ProcessInv, Task
    <2>4. losses' \in 0..MaxLosses
      <3>1. CASE Retry(n, t)
        BY <3>1, AttemptFailsStep DEF Retry
      <3>2. CASE RetryLate(n, t)
        BY <3>2, ConstantsAssumption DEF RetryLate, TypeOK
      <3> QED
        BY <1>14, <3>1, <3>2
    <2>5. late' \in SUBSET Request
      BY <1>14, <2>2 DEF Retry, RetryLate, TypeOK, Request
    <2>6. UNCHANGED <<clock, phase, disk, current, membership, ring, bootStep,
                      panicked>>
      BY <1>14 DEF Retry, RetryLate
    <2>7. TypeOK'
      BY <2>1, <2>4, <2>5, <2>6 DEF TypeOK
    <2>8. ProcessInv'
      BY <2>1, <2>3, <2>6 DEF ProcessInv
    <2> QED
      BY <2>7, <2>8
  <1>15. ASSUME NEW n \in Node, NEW t \in Task,
                HandleReply(n, t) \/ HandleReplyPanics(n, t)
         PROVE  TypeOK' /\ ProcessInv'
    <2> DEFINE msg == call[n][t].reply
    <2>1. /\ Answered(n, t)
          /\ HandleMessage(n, msg) \/ HandleMessagePanics(n, msg)
          /\ EndCall(n, t)
          /\ UNCHANGED <<clock, phase, ring, losses, late>>
      BY <1>15 DEF HandleReply, HandleReplyPanics
    <2>2. phase[n] # "down" /\ msg \in GossipMessage
      BY <2>1, CallFields, CallerIsUp DEF Answered
    <2>3. /\ call' \in [Node -> [Task -> Call \cup {None}]]
          /\ call'[n][t] = None
          /\ \A u \in Task : u # t => call'[n][u] = call[n][u]
          /\ \A k \in Node : k # n => call'[k] = call[k]
      BY <2>1, EndCallStep
    <2>4. bootStep' \in [Node -> Nat] /\ panicked' \in [Node -> SUBSET Loop]
      <3>1. CASE HandleReply(n, t)
        BY <3>1 DEF HandleReply, TypeOK
      <3>2. CASE HandleReplyPanics(n, t)
        BY <3>2 DEF HandleReplyPanics, TypeOK
      <3> QED
        BY <1>15, <3>1, <3>2
    <2>5. /\ membership' \in [Node -> Table]
          /\ disk' \in [Node -> Nat \cup {None, Torn}]
          /\ current' \in [Node -> NodeInfo \cup {None}]
          /\ current'[n] \in NodeInfo /\ current'[n].node_id = n
          /\ \A k \in Node \ {n} : current'[k] = current[k]
      BY <2>1, <2>2, HandleMessageStep
    <2>6. TypeOK'
      BY <2>1, <2>3, <2>4, <2>5 DEF TypeOK
    <2>7. ProcessInv'
      BY <2>1, <2>2, <2>3, <2>5, NoneAssumption DEF ProcessInv, Task
    <2> QED
      BY <2>6, <2>7
  <1>16. ASSUME NEW n \in Node, NEW t \in Task, GiveUp(n, t)
         PROVE  TypeOK' /\ ProcessInv'
    <2> DEFINE table == MarkDead(membership[n], call[n][t].peer)
    <2>1. /\ t \in Loop /\ AttemptFails(n, t) /\ EndCall(n, t)
          /\ membership' = [membership EXCEPT ![n] = table]
          /\ UNCHANGED <<clock, phase, disk, current, ring, bootStep, panicked,
                         late>>
      BY <1>16 DEF GiveUp, TypeOK
    <2>2. call[n][t] # None /\ losses' \in 0..MaxLosses
      BY <2>1, AttemptFailsStep
    <2>3. call[n][t].peer \in NodeInfo /\ phase[n] # "down"
      BY <2>1, <2>2, CallFields, CallerIsUp DEF ProcessInv
    <2>4. table \in Table
      BY <2>3, MarkDeadType DEF TypeOK
    <2>5. /\ call' \in [Node -> [Task -> Call \cup {None}]]
          /\ call'[n][t] = None
          /\ \A u \in Task : u # t => call'[n][u] = call[n][u]
          /\ \A k \in Node : k # n => call'[k] = call[k]
      BY <2>1, EndCallStep
    <2> HIDE DEF table
    <2>6. TypeOK'
      BY <2>1, <2>2, <2>4, <2>5 DEF TypeOK
    <2>7. ProcessInv'
      BY <2>1, <2>3, <2>5 DEF ProcessInv, Task
    <2> QED
      BY <2>6, <2>7
  <1>17. ASSUME NEW n \in Node, NEW t \in Loop, NEW m \in Node, LoopTick(n, t, m)
         PROVE  TypeOK' /\ ProcessInv'
    <2> DEFINE info == membership[n][m].info
               msg  == IF t = "ping" THEN Ping(current[n]) ELSE Sync(membership[n])
               c    == NewCall(info.url, info, msg)
    <2>1. /\ phase[n] = "running" /\ membership[n][m] # None
          /\ call' = [call EXCEPT ![n][t] = c]
          /\ UNCHANGED <<clock, phase, disk, current, membership, ring,
                         bootStep, panicked, losses, late>>
      BY <1>17 DEF LoopTick, Idle, IsAlive
    <2>2. /\ current[n] \in NodeInfo /\ membership[n] \in Table
          /\ membership[n][m] \in MemberState
      BY <2>1 DEF ProcessInv, TypeOK, Table
    <2>3. info \in NodeInfo /\ info.url \in Addr /\ info # None
      BY <2>2, NoneAssumption DEF MemberState, NodeInfo
    <2>4. msg \in GossipMessage
      BY <2>2 DEF Ping, Sync, GossipMessage
    <2>5. c \in Call /\ c.peer # None
      BY <2>3, <2>4, ConstantsAssumption DEF NewCall, Call, NoAnswer
    <2> HIDE DEF c
    <2>6. /\ call' \in [Node -> [Task -> Call \cup {None}]]
          /\ call'[n][t] = c
          /\ \A u \in Task : u # t => call'[n][u] = call[n][u]
          /\ \A k \in Node : k # n => call'[k] = call[k]
      BY <2>1, <2>5, CallUpdate DEF Task
    <2>7. TypeOK'
      BY <2>1, <2>6 DEF TypeOK
    <2>8. ProcessInv'
      BY <2>1, <2>5, <2>6 DEF ProcessInv, Task
    <2> QED
      BY <2>7, <2>8
  <1>18. ASSUME NEW n \in Node, NEW t \in Loop, LoopTickPanics(n, t)
         PROVE  TypeOK' /\ ProcessInv'
    BY <1>18 DEF LoopTickPanics, TypeOK, ProcessInv
  <1>19. ASSUME NEW r \in late, NEW m \in Node,
                DeliverLate(r, m) \/ DeliverLateDuringStart(r, m)
         PROVE  TypeOK' /\ ProcessInv'
    <2>1. /\ phase[m] # "down"
          /\ HandleMessage(m, r.msg) \/ HandleMessagePanics(m, r.msg)
          /\ UNCHANGED <<clock, ring, call, bootStep, panicked, losses>>
      BY <1>19 DEF DeliverLate, DeliverLateDuringStart, Serves
    <2>2. /\ r.msg \in GossipMessage /\ late' \in SUBSET Request
          /\ phase' \in [Node -> Phase]
          /\ \A k \in Node : phase'[k] = "down" <=> phase[k] = "down"
      BY <1>19 DEF DeliverLate, DeliverLateDuringStart, TypeOK, Request, Phase
    <2>3. /\ membership' \in [Node -> Table]
          /\ disk' \in [Node -> Nat \cup {None, Torn}]
          /\ current' \in [Node -> NodeInfo \cup {None}]
          /\ current'[m] \in NodeInfo /\ current'[m].node_id = m
          /\ \A k \in Node \ {m} : current'[k] = current[k]
      BY <2>1, <2>2, HandleMessageStep
    <2>4. TypeOK'
      BY <2>1, <2>2, <2>3 DEF TypeOK
    <2>5. ProcessInv'
      BY <2>1, <2>2, <2>3, NoneAssumption DEF ProcessInv
    <2> QED
      BY <2>4, <2>5
  <1>20. ASSUME NEW n \in Node, NEW t \in Task, Hang(n, t)
         PROVE  TypeOK' /\ ProcessInv'
    <2>1. UNCHANGED <<clock, phase, disk, current, membership, ring, bootStep,
                      panicked, losses, late>>
      BY <1>20 DEF Hang
    <2>2. TypeOK'
      BY <1>20, <2>1, HangStep DEF TypeOK
    <2>3. ProcessInv'
      BY <1>20, <2>1, HangStep DEF ProcessInv
    <2> QED
      BY <2>2, <2>3
  <1> QED
    BY <1>1, <1>2, <1>3, <1>4, <1>5, <1>6, <1>7, <1>8, <1>9, <1>10, <1>11,
       <1>12, <1>13, <1>14, <1>15, <1>16, <1>17, <1>18, <1>19, <1>20
       DEF Next, Process, Exchange, LoopStep

\* Before any process has started, the state is well-formed.
LEMMA InitTypes ==
    ASSUME Init
    PROVE  TypeOK /\ ProcessInv
  <1>1. EmptyTable \in Table /\ NoCalls \in [Task -> Call \cup {None}]
    BY EmptyTableType DEF NoCalls
  <1>2. \A t \in Loop : NoCalls[t] = None
    BY DEF NoCalls, Task
  <1>3. TypeOK
    BY <1>1, ConstantsAssumption DEF Init, TypeOK, Phase
  <1>4. /\ phase = [n \in Node |-> "down"]
        /\ current = [n \in Node |-> None]
        /\ call = [n \in Node |-> NoCalls]
    BY DEF Init
  <1>5. ASSUME NEW n \in Node
        PROVE  phase[n] = "down" /\ current[n] = None /\ call[n] = NoCalls
    BY <1>4
  <1>6. ASSUME NEW n \in Node, NEW t \in Loop
        PROVE  call[n][t] = None
    BY <1>2, <1>5
  <1>7. ProcessInv
    BY <1>5, <1>6, Zenon DEF ProcessInv
  <1> QED
    BY <1>3, <1>7

\* Type correctness of every behaviour of the gossip protocol, with the
\* facts about processes it rests on.
THEOREM TypeCorrect == Spec => [](TypeOK /\ ProcessInv)
  <1>1. Init => TypeOK /\ ProcessInv
    BY InitTypes
  <1>2. TypeOK /\ ProcessInv /\ [Next]_vars => TypeOK' /\ ProcessInv'
    BY TypeStep
  <1> QED
    BY <1>1, <1>2, PTL DEF Spec
-----------------------------------------------------------------------------
(***************************************************************************)
(* Identities: where they come from and how far they can be ahead.         *)
(***************************************************************************)

\* Where identities are found.
LEMMA InfosHave ==
    /\ \A n \in Node : current[n] # None => current[n] \in Infos
    /\ \A n \in Node : TableInfos(membership[n]) \subseteq Infos
    /\ \A n \in Node, t \in Task :
          call[n][t] # None => CallInfos(call[n][t]) \subseteq Infos
    /\ \A r \in late : MessageInfos(r.msg) \subseteq Infos
  <1>1. ASSUME NEW n \in Node PROVE NodeInfos(n) \subseteq Infos
    BY DEF Infos
  <1>2. ASSUME NEW n \in Node, current[n] # None PROVE current[n] \in NodeInfos(n)
    BY <1>2 DEF NodeInfos
  <1>3. ASSUME NEW n \in Node PROVE TableInfos(membership[n]) \subseteq NodeInfos(n)
    BY DEF NodeInfos
  <1>4. ASSUME NEW n \in Node, NEW t \in Task, call[n][t] # None
        PROVE  CallInfos(call[n][t]) \subseteq NodeInfos(n)
    BY <1>4 DEF NodeInfos
  <1>5. ASSUME NEW r \in late PROVE MessageInfos(r.msg) \subseteq Infos
    BY DEF Infos
  <1> QED
    BY <1>1, <1>2, <1>3, <1>4, <1>5

\* ... and nowhere else: after a step whose tables, exchanges and abandoned
\* requests mention only S, anything known is in S or somebody's own.
LEMMA InfosFrom ==
    ASSUME NEW S,
           \A n \in Node : TableInfos(membership'[n]) \subseteq S,
           \A n \in Node, t \in Task :
              call'[n][t] # None => CallInfos(call'[n][t]) \subseteq S,
           \A r \in late' : MessageInfos(r.msg) \subseteq S
    PROVE  \A i \in Infos' :
              i \in S \/ \E k \in Node : current'[k] # None /\ i = current'[k]
  <1>1. SUFFICES ASSUME NEW i \in Infos'
                 PROVE  \/ i \in S
                        \/ \E k \in Node : current'[k] # None /\ i = current'[k]
    OBVIOUS
  <1>2. CASE \E r \in late' : i \in MessageInfos(r.msg)
    BY <1>2
  <1>3. CASE \E n \in Node : i \in NodeInfos(n)'
    <2>1. PICK n \in Node : i \in NodeInfos(n)'
      BY <1>3
    <2>2. \/ current'[n] # None /\ i = current'[n]
          \/ i \in TableInfos(membership'[n])
          \/ \E t \in Task : call'[n][t] # None /\ i \in CallInfos(call'[n][t])
      BY <2>1 DEF NodeInfos
    <2> QED
      BY <2>2
  <1> QED
    BY <1>2, <1>3 DEF Infos

\* The parts of an exchange.
LEMMA CallInfosParts ==
    ASSUME NEW c \in Call
    PROVE  /\ MessageInfos(c.msg) \subseteq CallInfos(c)
           /\ c.peer # None => c.peer \in CallInfos(c)
           /\ c.reply \notin NoAnswer =>
                 MessageInfos(c.reply) \subseteq CallInfos(c)
  BY DEF CallInfos

\* handle_message lets a node learn only what is already known.
LEMMA HandledInfos ==
    ASSUME TypeOK, NEW n \in Node, current[n] \in NodeInfo,
           NEW msg \in GossipMessage, MessageInfos(msg) \subseteq Infos
    PROVE  /\ TableInfos(Handled(n, msg)) \subseteq Infos
           /\ ReplyTo(n, msg) # None => MessageInfos(ReplyTo(n, msg)) \subseteq Infos
  <1>1. current[n] \in Infos /\ TableInfos(membership[n]) \subseteq Infos
    BY InfosHave, NoneAssumption
  <1> QED
    BY <1>1, HandledType, ReplyType

\* Identities are made by their owners only: a step makes nothing known but
\* what was known before, except a node's own new identity.
InfosGrow ==
    \A i \in Infos' :
        i \in Infos \/ \E k \in Node : current'[k] # None /\ i = current'[k]

\* The tables, exchanges and abandoned requests a step leaves behind.
TablesOK == \A k \in Node : TableInfos(membership'[k]) \subseteq Infos

CallsOK ==
    \A k \in Node, u \in Task :
        call'[k][u] # None => CallInfos(call'[k][u]) \subseteq Infos

LateOK == \A r \in late' : MessageInfos(r.msg) \subseteq Infos

\* What tables, exchanges and abandoned requests mention after a step was
\* known before it.
LEMMA InfosSpreadStep ==
    ASSUME TypeOK, ProcessInv, [Next]_vars
    PROVE  TablesOK /\ CallsOK /\ LateOK
  <1> USE DEF TablesOK, CallsOK, LateOK
  <1>a. /\ UNCHANGED membership => TablesOK
        /\ UNCHANGED call => CallsOK
        /\ UNCHANGED late => LateOK
    BY InfosHave
  <1>b. ASSUME NEW n \in Node, NEW table,
               membership' = [membership EXCEPT ![n] = table],
               TableInfos(table) \subseteq Infos
        PROVE  TablesOK
    <2>1. \A k \in Node : membership'[k] = IF k = n THEN table ELSE membership[k]
      BY <1>b DEF TypeOK
    <2> QED
      BY <1>b, <2>1, InfosHave
  <1>c. ASSUME NEW n \in Node, NEW t \in Task,
               \A u \in Task : u # t => call'[n][u] = call[n][u],
               \A k \in Node : k # n => call'[k] = call[k],
               call'[n][t] # None => CallInfos(call'[n][t]) \subseteq Infos
        PROVE  CallsOK
    <2>1. ASSUME NEW k \in Node, NEW u \in Task, call'[k][u] # None
          PROVE  CallInfos(call'[k][u]) \subseteq Infos
      BY <1>c, <2>1, InfosHave
    <2> QED
      BY <2>1
  <1> HIDE DEF TablesOK, CallsOK, LateOK
  <1>1. CASE UNCHANGED <<membership, call, late>>
    BY <1>1, <1>a
  <1>2. ASSUME NEW n \in Node, Crash(n)
        PROVE  TablesOK /\ CallsOK /\ LateOK
    <2>1. TableInfos(EmptyTable) = {}
      BY EmptyTableType DEF TableInfos
    <2>2. TablesOK
      BY <1>2, <2>1, <1>b DEF Crash
    <2>3. ASSUME NEW k \in Node, NEW u \in Task, call'[k][u] # None
          PROVE  call'[k][u] = call[k][u]
      BY <1>2, <2>3 DEF Crash, NoCalls, TypeOK
    <2>4. CallsOK
      BY <2>3, InfosHave DEF CallsOK
    <2> QED
      BY <1>2, <1>a, <2>2, <2>4 DEF Crash
  <1>3. ASSUME NEW n \in Node, Start(n)
        PROVE  TablesOK /\ CallsOK /\ LateOK
    <2> DEFINE table == UpdateMember(EmptyTable, AliveNow(n, current[n]))
    <2>1. current[n] \in NodeInfo /\ current[n] \in Infos
      BY <1>3, InfosHave DEF Start, ProcessInv, TypeOK
    <2>2. /\ AliveNow(n, current[n]) \in MemberState
          /\ AliveNow(n, current[n]).info = current[n]
      BY <2>1, AliveNowType
    <2>3. TableInfos(table) \subseteq TableInfos(EmptyTable) \cup {current[n]}
      BY <2>2, EmptyTableType, UpdateMemberType
    <2>4. TableInfos(EmptyTable) = {}
      BY EmptyTableType DEF TableInfos
    <2>5. TablesOK
      BY <1>3, <1>b, <2>1, <2>3, <2>4 DEF Start
    <2> QED
      BY <1>3, <1>a, <2>5 DEF Start
  <1>4. ASSUME NEW n \in Node, RemoveDeadMembers(n)
        PROVE  TablesOK /\ CallsOK /\ LateOK
    <2> DEFINE table == RemoveMembers(membership[n], Expired(n))
    <2>1. TableInfos(table) \subseteq TableInfos(membership[n])
      BY RemoveMembersType DEF Expired, TypeOK
    <2>2. membership' = [membership EXCEPT ![n] = table]
      BY <1>4 DEF RemoveDeadMembers
    <2> HIDE DEF table
    <2>3. TableInfos(table) \subseteq Infos
      BY <2>1, InfosHave
    <2>4. TablesOK
      BY <1>b, <2>2, <2>3
    <2> QED
      BY <1>4, <1>a, <2>4 DEF RemoveDeadMembers
  <1>5. ASSUME NEW n \in Node, NEW t \in Task, EndCall(n, t)
        PROVE  CallsOK
    BY <1>5, <1>c, EndCallStep
  <1>6. ASSUME NEW n \in Node, BootGiveUp(n)
        PROVE  TablesOK /\ CallsOK /\ LateOK
    <2>1. CallsOK
      BY <1>5, <1>6 DEF BootGiveUp, Task
    <2> QED
      BY <1>6, <1>a, <2>1 DEF BootGiveUp
  <1>7. ASSUME NEW n \in Node, NEW t \in Task, NEW url \in Addr,
               NEW peer \in NodeInfo \cup {None}, NEW msg \in GossipMessage,
               peer # None => peer \in Infos, MessageInfos(msg) \subseteq Infos,
               call' = [call EXCEPT ![n][t] = NewCall(url, peer, msg)]
        PROVE  CallsOK
    <2> DEFINE c == NewCall(url, peer, msg)
    <2>1. /\ c \in Call /\ c.peer = peer /\ c.msg = msg /\ c.reply = None
      BY <1>7, ConstantsAssumption DEF NewCall, Call, NoAnswer
    <2>2. call' = [call EXCEPT ![n][t] = c]
      BY <1>7
    <2> HIDE DEF c
    <2>3. CallInfos(c) \subseteq Infos
      BY <1>7, <2>1 DEF CallInfos, NoAnswer
    <2>4. /\ call'[n][t] = c
          /\ \A u \in Task : u # t => call'[n][u] = call[n][u]
          /\ \A k \in Node : k # n => call'[k] = call[k]
      BY <2>1, <2>2, CallUpdate
    <2> QED
      BY <1>c, <2>3, <2>4
  <1>8. ASSUME NEW n \in Node, BootSend(n)
        PROVE  TablesOK /\ CallsOK /\ LateOK
    <2> DEFINE len == Len(Peers(n))
               url == Peers(n)[(bootStep[n] % len) + 1]
               msg == IF bootStep[n] < len THEN Ping(current[n])
                                           ELSE Sync(membership[n])
    <2>1. /\ current[n] \in NodeInfo /\ membership[n] \in Table
          /\ current[n] \in Infos /\ TableInfos(membership[n]) \subseteq Infos
      BY <1>8, InfosHave DEF BootSend, ProcessInv, TypeOK
    <2>2. url \in Addr
      BY <1>8, BootUrl
    <2>3. msg \in GossipMessage /\ MessageInfos(msg) \subseteq Infos
      BY <2>1 DEF Ping, Sync, GossipMessage, MessageInfos
    <2>4. call' = [call EXCEPT ![n]["boot"] = NewCall(url, None, msg)]
      BY <1>8 DEF BootSend
    <2> HIDE DEF url, msg
    <2>5. CallsOK
      BY <1>7, <2>2, <2>3, <2>4 DEF Task
    <2> QED
      BY <1>8, <1>a, <2>5 DEF BootSend
  <1>9. ASSUME NEW n \in Node, NEW t \in Loop, NEW m \in Node, LoopTick(n, t, m)
        PROVE  TablesOK /\ CallsOK /\ LateOK
    <2> DEFINE info == membership[n][m].info
               msg  == IF t = "ping" THEN Ping(current[n]) ELSE Sync(membership[n])
    <2>1. /\ phase[n] = "running" /\ membership[n][m] # None
          /\ call' = [call EXCEPT ![n][t] = NewCall(info.url, info, msg)]
          /\ UNCHANGED <<membership, late>>
      BY <1>9 DEF LoopTick, Idle, IsAlive
    <2>2. /\ current[n] \in NodeInfo /\ membership[n] \in Table
          /\ membership[n][m] \in MemberState
          /\ current[n] \in Infos /\ TableInfos(membership[n]) \subseteq Infos
      BY <2>1, InfosHave DEF ProcessInv, TypeOK, Table
    <2>3. info \in NodeInfo /\ info.url \in Addr
      BY <2>2 DEF MemberState, NodeInfo
    <2>4. info \in Infos
      BY <2>1, <2>2 DEF TableInfos, Members
    <2>5. msg \in GossipMessage /\ MessageInfos(msg) \subseteq Infos
      BY <2>2 DEF Ping, Sync, GossipMessage, MessageInfos
    <2> HIDE DEF info, msg
    <2>6. CallsOK
      BY <1>7, <2>1, <2>3, <2>4, <2>5 DEF Task
    <2> QED
      BY <1>a, <2>1, <2>6
  <1>10. ASSUME NEW n \in Node, NEW t \in Task, NEW m \in Node,
                NEW reply \in GossipMessage \cup NoAnswer,
                Awaiting(n, t), Serves(m, call[n][t].url),
                call' = [call EXCEPT ![n][t].reply = reply],
                reply \notin NoAnswer => MessageInfos(reply) \subseteq Infos
         PROVE  CallsOK
    <2>1. call[n][t] # None
      BY <1>10 DEF Awaiting
    <2>2. /\ call'[n][t] = [call[n][t] EXCEPT !.reply = reply]
          /\ \A u \in Task : u # t => call'[n][u] = call[n][u]
          /\ \A k \in Node : k # n => call'[k] = call[k]
      BY <1>10, AnswerStep
    <2>3. /\ call'[n][t].peer = call[n][t].peer
          /\ call'[n][t].msg = call[n][t].msg
          /\ call'[n][t].reply = reply
      BY <2>1, <2>2, CallFields DEF Call
    <2>4. CallInfos(call[n][t]) \subseteq Infos
      BY <2>1, InfosHave
    <2>5. CallInfos(call'[n][t]) \subseteq Infos
      BY <1>10, <2>3, <2>4 DEF CallInfos
    <2> QED
      BY <1>c, <2>2, <2>5
  <1>11. ASSUME NEW n \in Node, NEW t \in Task, call[n][t] # None
         PROVE  /\ call[n][t].msg \in GossipMessage
                /\ MessageInfos(call[n][t].msg) \subseteq Infos
                /\ call[n][t].peer # None => call[n][t].peer \in Infos
                /\ call[n][t].reply \notin NoAnswer =>
                      /\ call[n][t].reply \in GossipMessage
                      /\ MessageInfos(call[n][t].reply) \subseteq Infos
    <2>1. CallInfos(call[n][t]) \subseteq Infos
      BY <1>11, InfosHave
    <2> QED
      BY <1>11, <2>1, CallFields, CallInfosParts
  <1>12. ASSUME NEW m \in Node, phase[m] # "down", NEW msg \in GossipMessage,
                MessageInfos(msg) \subseteq Infos,
                membership' = [membership EXCEPT ![m] = Handled(m, msg)]
         PROVE  /\ TablesOK
                /\ ReplyTo(m, msg) \in GossipMessage \cup NoAnswer
                /\ ReplyTo(m, msg) # None =>
                      MessageInfos(ReplyTo(m, msg)) \subseteq Infos
    <2>1. current[m] \in NodeInfo
      BY <1>12 DEF ProcessInv, TypeOK
    <2> QED
      BY <1>12, <1>b, <2>1, HandledInfos, ReplyType DEF NoAnswer
  <1>13. ASSUME NEW n \in Node, NEW t \in Task, NEW m \in Node,
                Deliver(n, t, m) \/ DeliverDuringStart(n, t, m)
         PROVE  TablesOK /\ CallsOK /\ LateOK
    <2> DEFINE msg == call[n][t].msg
    <2>1. /\ Awaiting(n, t) /\ Serves(m, call[n][t].url)
          /\ membership' = [membership EXCEPT ![m] = Handled(m, msg)]
          /\ call' = [call EXCEPT ![n][t].reply = ReplyTo(m, msg)]
          /\ UNCHANGED late
      BY <1>13 DEF Deliver, DeliverDuringStart, HandleMessage
    <2>2. call[n][t] # None /\ phase[m] # "down"
      BY <2>1 DEF Awaiting, Serves
    <2>3. /\ TablesOK
          /\ ReplyTo(m, msg) \in GossipMessage \cup NoAnswer
          /\ ReplyTo(m, msg) # None => MessageInfos(ReplyTo(m, msg)) \subseteq Infos
      BY <1>11, <1>12, <2>1, <2>2
    <2>4. CallsOK
      BY <1>10, <2>1, <2>3 DEF NoAnswer
    <2> QED
      BY <1>a, <2>1, <2>3, <2>4
  <1>14. ASSUME NEW n \in Node, NEW t \in Task, NEW m \in Node,
                DeliverPanics(n, t, m)
         PROVE  TablesOK /\ CallsOK /\ LateOK
    <2> DEFINE msg == call[n][t].msg
               reply == Failed
    <2>1. /\ Awaiting(n, t) /\ Serves(m, call[n][t].url)
          /\ membership' = [membership EXCEPT ![m] = Handled(m, msg)]
          /\ call' = [call EXCEPT ![n][t].reply = reply]
          /\ UNCHANGED late
      BY <1>14 DEF DeliverPanics, HandleMessagePanics
    <2>2. call[n][t] # None /\ phase[m] # "down"
      BY <2>1 DEF Awaiting, Serves
    <2>3. TablesOK
      BY <1>11, <1>12, <2>1, <2>2
    <2>4. reply \in GossipMessage \cup NoAnswer /\ reply \in NoAnswer
      BY DEF NoAnswer
    <2> HIDE DEF reply
    <2>5. CallsOK
      BY <1>10, <2>1, <2>4
    <2> QED
      BY <1>a, <2>1, <2>3, <2>5
  <1>15. ASSUME NEW n \in Node, NEW t \in Task, Retry(n, t) \/ RetryLate(n, t)
         PROVE  TablesOK /\ CallsOK /\ LateOK
    <2>1. /\ call[n][t] # None
          /\ call'[n][t].peer = call[n][t].peer
          /\ call'[n][t].msg = call[n][t].msg
          /\ call'[n][t].reply = None
          /\ \A u \in Task : u # t => call'[n][u] = call[n][u]
          /\ \A k \in Node : k # n => call'[k] = call[k]
      BY <1>15, RetryStep
    <2>2. CallInfos(call'[n][t]) \subseteq Infos
      BY <2>1, <1>11 DEF CallInfos, NoAnswer
    <2>3. CallsOK
      BY <1>c, <2>1, <2>2
    <2>4. \A r \in late' : r \in late \/ r.msg = call[n][t].msg
      BY <1>15 DEF Retry, RetryLate
    <2>5. LateOK
      BY <1>11, <2>1, <2>4, InfosHave DEF LateOK
    <2> QED
      BY <1>15, <1>a, <2>3, <2>5 DEF Retry, RetryLate
  <1>16. ASSUME NEW n \in Node, NEW t \in Task,
                HandleReply(n, t) \/ HandleReplyPanics(n, t)
         PROVE  TablesOK /\ CallsOK /\ LateOK
    <2> DEFINE msg == call[n][t].reply
    <2>1. /\ call[n][t] # None /\ msg \notin NoAnswer
          /\ membership' = [membership EXCEPT ![n] = Handled(n, msg)]
          /\ EndCall(n, t)
          /\ UNCHANGED late
      BY <1>16 DEF HandleReply, HandleReplyPanics, Answered, HandleMessage,
                   HandleMessagePanics
    <2>2. phase[n] # "down"
      BY <2>1, CallerIsUp
    <2>3. TablesOK
      BY <1>11, <1>12, <2>1, <2>2
    <2> QED
      BY <1>a, <1>5, <2>1, <2>3
  <1>17. ASSUME NEW n \in Node, NEW t \in Task, GiveUp(n, t)
         PROVE  TablesOK /\ CallsOK /\ LateOK
    <2> DEFINE table == MarkDead(membership[n], call[n][t].peer)
    <2>1. /\ t \in Loop /\ AttemptFails(n, t) /\ EndCall(n, t)
          /\ membership' = [membership EXCEPT ![n] = table]
          /\ UNCHANGED late
      BY <1>17 DEF GiveUp, TypeOK
    <2>2. call[n][t] # None
      BY <2>1 DEF AttemptFails
    <2>3. call[n][t].peer \in NodeInfo /\ call[n][t].peer \in Infos
      BY <1>11, <2>1, <2>2, CallFields DEF ProcessInv
    <2>4. TableInfos(table) \subseteq TableInfos(membership[n]) \cup {call[n][t].peer}
      BY <2>3, MarkDeadType DEF TypeOK
    <2> HIDE DEF table
    <2>5. TableInfos(table) \subseteq Infos
      BY <2>3, <2>4, InfosHave
    <2>6. TablesOK
      BY <1>b, <2>1, <2>5
    <2> QED
      BY <1>a, <1>5, <2>1, <2>6
  <1>18. ASSUME NEW r \in late, NEW m \in Node,
                DeliverLate(r, m) \/ DeliverLateDuringStart(r, m)
         PROVE  TablesOK /\ CallsOK /\ LateOK
    <2>1. /\ phase[m] # "down"
          /\ membership' = [membership EXCEPT ![m] = Handled(m, r.msg)]
          /\ late' = late \ {r}
          /\ UNCHANGED call
      BY <1>18 DEF DeliverLate, DeliverLateDuringStart, Serves, HandleMessage,
                   HandleMessagePanics
    <2>2. r.msg \in GossipMessage /\ MessageInfos(r.msg) \subseteq Infos
      BY InfosHave DEF TypeOK, Request
    <2>3. TablesOK
      BY <1>12, <2>1, <2>2
    <2>4. LateOK
      BY <2>1, InfosHave DEF LateOK
    <2> QED
      BY <1>a, <2>1, <2>3, <2>4
  <1>19. CASE UNCHANGED vars \/ Tick
    BY <1>1, <1>19 DEF vars, Tick
  <1>20. ASSUME NEW n \in Node,
                \/ \E a \in Addr : Boot(n, a)
                \/ BootTorn(n) \/ BootDone(n) \/ RebuildRing(n)
                \/ \E t \in Loop : LoopTickPanics(n, t)
         PROVE  TablesOK /\ CallsOK /\ LateOK
    BY <1>1, <1>20 DEF Boot, BootTorn, BootDone, RebuildRing, LoopTickPanics
  <1>21. ASSUME NEW n \in Node, NEW t \in Task, Hang(n, t)
         PROVE  TablesOK /\ CallsOK /\ LateOK
    <2>1. CallInfos(call'[n][t]) \subseteq Infos
      BY <1>11, <1>21, HangStep DEF CallInfos
    <2>2. CallsOK
      BY <1>c, <1>21, <2>1, HangStep
    <2> QED
      BY <1>1, <1>a, <1>21, <2>2 DEF Hang
  <1> QED
    BY <1>2, <1>3, <1>4, <1>6, <1>8, <1>9, <1>13, <1>14, <1>15, <1>16, <1>17,
       <1>18, <1>19, <1>20, <1>21
       DEF Next, Process, Exchange, LoopStep

\* No step of a node, of a loop or of the network invents an identity.
LEMMA InfosGrowStep ==
    ASSUME TypeOK, ProcessInv, [Next]_vars
    PROVE  InfosGrow
  BY InfosSpreadStep, InfosFrom DEF InfosGrow, TablesOK, CallsOK, LateOK

\* Every step treats the identity of every node in one of the three ways.
LEMMA IdentityStepHolds ==
    ASSUME TypeOK, ProcessInv, [Next]_vars
    PROVE  IdentityStep
  <1>1. ASSUME UNCHANGED <<current, disk, phase>>
        PROVE  IdentityStep
    BY <1>1 DEF IdentityStep, Keeps, ProcessInv
  <1>2. ASSUME UNCHANGED <<current, disk>>,
               \A k \in Node : phase'[k] = "down" <=> phase[k] = "down"
        PROVE  IdentityStep
    BY <1>2 DEF IdentityStep, Keeps, ProcessInv
  <1>3. ASSUME NEW m \in Node, phase[m] # "down", NEW msg \in GossipMessage,
               HandleMessage(m, msg) \/ HandleMessagePanics(m, msg),
               \A k \in Node : phase'[k] = "down" <=> phase[k] = "down"
        PROVE  IdentityStep
    <2>1. /\ \A k \in Node \ {m} : current'[k] = current[k] /\ disk'[k] = disk[k]
          /\ \/ current'[m] = current[m] /\ disk'[m] \in {disk[m], Torn}
             \/ /\ current'[m] = [current[m] EXCEPT !.incarnation = @ + 1]
                /\ disk'[m] = current[m].incarnation + 1
      BY <1>3, HandleMessageStep
    <2>2. ASSUME NEW k \in Node \ {m} PROVE Keeps(k)
      BY <1>3, <2>1, <2>2 DEF Keeps, ProcessInv
    <2>3. Keeps(m) \/ Advances(m)
      BY <1>3, <2>1 DEF Keeps, Advances
    <2> QED
      BY <2>2, <2>3 DEF IdentityStep
  <1>4. ASSUME NEW n \in Node, NEW a \in Addr, Boot(n, a)
        PROVE  IdentityStep
    <2>1. StartsAfresh(n)
      BY <1>4 DEF Boot, CanBoot, StartsAfresh, TypeOK
    <2>2. ASSUME NEW k \in Node \ {n} PROVE Keeps(k)
      BY <1>4 DEF Boot, Keeps, ProcessInv, TypeOK
    <2> QED
      BY <2>1, <2>2 DEF IdentityStep
  <1>5. ASSUME NEW n \in Node, BootTorn(n)
        PROVE  IdentityStep
    BY <1>5 DEF BootTorn, CanBoot, IdentityStep, Keeps, ProcessInv, TypeOK
  <1>6. ASSUME NEW n \in Node, Crash(n)
        PROVE  IdentityStep
    BY <1>6 DEF Crash, IdentityStep, Keeps, ProcessInv, TypeOK
  <1>7. ASSUME NEW n \in Node, Start(n) \/ BootDone(n)
        PROVE  IdentityStep
    <2>1. \A k \in Node : phase'[k] = "down" <=> phase[k] = "down"
      BY <1>7 DEF Start, BootDone, TypeOK
    <2> QED
      BY <1>2, <1>7, <2>1 DEF Start, BootDone
  <1>8. ASSUME NEW n \in Node,
               \/ BootSend(n) \/ BootGiveUp(n) \/ RebuildRing(n)
               \/ RemoveDeadMembers(n)
        PROVE  IdentityStep
    BY <1>1, <1>8 DEF BootSend, BootGiveUp, RebuildRing, RemoveDeadMembers
  <1>9. ASSUME NEW n \in Node, NEW t \in Task,
               Hang(n, t) \/ Retry(n, t) \/ RetryLate(n, t) \/ GiveUp(n, t)
        PROVE  IdentityStep
    BY <1>1, <1>9 DEF Hang, Retry, RetryLate, GiveUp
  <1>10. ASSUME NEW n \in Node, NEW t \in Loop,
                (\E m \in Node : LoopTick(n, t, m)) \/ LoopTickPanics(n, t)
         PROVE  IdentityStep
    BY <1>1, <1>10 DEF LoopTick, LoopTickPanics
  <1>11. ASSUME NEW n \in Node, NEW t \in Task, NEW m \in Node,
                \/ Deliver(n, t, m) \/ DeliverDuringStart(n, t, m)
                \/ DeliverPanics(n, t, m)
         PROVE  IdentityStep
    <2> DEFINE msg == call[n][t].msg
    <2>1. /\ Awaiting(n, t) /\ Serves(m, call[n][t].url)
          /\ HandleMessage(m, msg) \/ HandleMessagePanics(m, msg)
      BY <1>11 DEF Deliver, DeliverDuringStart, DeliverPanics
    <2>2. phase[m] # "down" /\ msg \in GossipMessage
      BY <2>1, CallFields DEF Awaiting, Serves
    <2>3. \A k \in Node : phase'[k] = "down" <=> phase[k] = "down"
      BY <1>11, <2>2 DEF Deliver, DeliverDuringStart, DeliverPanics, TypeOK
    <2> QED
      BY <1>3, <2>1, <2>2, <2>3
  <1>12. ASSUME NEW n \in Node, NEW t \in Task,
                HandleReply(n, t) \/ HandleReplyPanics(n, t)
         PROVE  IdentityStep
    <2> DEFINE msg == call[n][t].reply
    <2>1. /\ Answered(n, t)
          /\ HandleMessage(n, msg) \/ HandleMessagePanics(n, msg)
          /\ UNCHANGED phase
      BY <1>12 DEF HandleReply, HandleReplyPanics
    <2>2. phase[n] # "down" /\ msg \in GossipMessage
      BY <2>1, CallFields, CallerIsUp DEF Answered
    <2> QED
      BY <1>3, <2>1, <2>2
  <1>13. ASSUME NEW r \in late, NEW m \in Node,
                DeliverLate(r, m) \/ DeliverLateDuringStart(r, m)
         PROVE  IdentityStep
    <2>1. /\ phase[m] # "down" /\ r.msg \in GossipMessage
          /\ HandleMessage(m, r.msg) \/ HandleMessagePanics(m, r.msg)
          /\ \A k \in Node : phase'[k] = "down" <=> phase[k] = "down"
      BY <1>13 DEF DeliverLate, DeliverLateDuringStart, Serves, TypeOK, Request
    <2> QED
      BY <1>3, <2>1
  <1>14. CASE UNCHANGED vars \/ Tick
    BY <1>1, <1>14 DEF vars, Tick
  <1> QED
    BY <1>4, <1>5, <1>6, <1>7, <1>8, <1>9, <1>10, <1>11, <1>12, <1>13, <1>14
       DEF Next, Process, Exchange, LoopStep

\* Everything known is a well-formed identity.
LEMMA InfosType ==
    ASSUME TypeOK
    PROVE  Infos \subseteq NodeInfo
  <1>1. ASSUME NEW table \in Table PROVE TableInfos(table) \subseteq NodeInfo
    BY DEF TableInfos, Members, Table, MemberState
  <1>2. ASSUME NEW msg \in GossipMessage PROVE MessageInfos(msg) \subseteq NodeInfo
    BY <1>1 DEF MessageInfos, GossipMessage
  <1>3. ASSUME NEW c \in Call PROVE CallInfos(c) \subseteq NodeInfo
    <2>1. /\ c.peer \in NodeInfo \cup {None} /\ c.msg \in GossipMessage
          /\ c.reply \in GossipMessage \cup NoAnswer
      BY DEF Call
    <2> QED
      BY <1>2, <2>1 DEF CallInfos
  <1>4. ASSUME NEW n \in Node PROVE NodeInfos(n) \subseteq NodeInfo
    <2>1. /\ current[n] \in NodeInfo \cup {None} /\ membership[n] \in Table
          /\ \A t \in Task : call[n][t] # None => call[n][t] \in Call
      BY DEF TypeOK
    <2> QED
      BY <1>1, <1>3, <2>1 DEF NodeInfos
  <1>5. ASSUME NEW r \in late PROVE MessageInfos(r.msg) \subseteq NodeInfo
    BY <1>2 DEF TypeOK, Request
  <1> QED
    BY <1>4, <1>5 DEF Infos

\* What KnownInv says of one identity.
Behind(i) ==
    /\ disk[i.node_id] # None
    /\ disk[i.node_id] \in Nat => i.incarnation <= disk[i.node_id]
    /\ phase[i.node_id] # "down" =>
          i.incarnation <= current[i.node_id].incarnation

\* A node that starts afresh is ahead of every identity of its own that is not
\* ahead of its node.json and its process, and so is a node that advances.
LEMMA NewIdentityIsAhead ==
    ASSUME TypeOK, ProcessInv, NEW k \in Node, StartsAfresh(k) \/ Advances(k)
    PROVE  /\ disk'[k] \in Nat
           /\ current'[k].node_id = k
           /\ current'[k].incarnation = disk'[k]
           /\ \A i \in NodeInfo :
                 Behind(i) /\ i.node_id = k => i.incarnation < disk'[k]
  <1>1. \A i \in NodeInfo : i.incarnation \in Nat
    BY DEF NodeInfo
  <1>2. disk[k] \in Nat \cup {None, Torn}
    BY DEF TypeOK
  <1>3. CASE StartsAfresh(k)
    <2>1. CASE disk[k] = None
      BY <1>1, <1>3, <2>1 DEF StartsAfresh, NextIncarnation, Behind
    <2>2. CASE disk[k] # None
      <3>1. disk[k] \in Nat /\ disk'[k] = disk[k] + 1
        BY <1>2, <1>3, <2>2 DEF StartsAfresh, NextIncarnation
      <3>2. \A i \in NodeInfo :
               Behind(i) /\ i.node_id = k => i.incarnation <= disk[k]
        BY <3>1 DEF Behind
      <3> QED
        BY <1>1, <1>3, <3>1, <3>2 DEF StartsAfresh
    <2> QED
      BY <2>1, <2>2
  <1>4. CASE Advances(k)
    <2>1. current[k] \in NodeInfo /\ current[k].node_id = k
      BY <1>4 DEF Advances, ProcessInv, TypeOK
    <2>2. /\ current[k].incarnation \in Nat
          /\ disk'[k] = current[k].incarnation + 1
          /\ current'[k].incarnation = current[k].incarnation + 1
          /\ current'[k].node_id = k
      BY <1>4, <2>1 DEF Advances, NodeInfo
    <2>3. \A i \in NodeInfo :
             Behind(i) /\ i.node_id = k => i.incarnation <= current[k].incarnation
      BY <1>4 DEF Advances, Behind
    <2> QED
      BY <1>1, <2>2, <2>3
  <1> QED
    BY <1>3, <1>4

\* So it is ahead of everything known of it.
LEMMA NewIdentitySupersedes ==
    ASSUME TypeOK, ProcessInv, KnownInv, NEW k \in Node,
           StartsAfresh(k) \/ Advances(k)
    PROVE  \A i \in Infos : i.node_id = k => i.incarnation < disk'[k]
  <1>1. \A i \in Infos : i \in NodeInfo /\ Behind(i)
    BY InfosType DEF KnownInv, Behind
  <1> QED
    BY <1>1, NewIdentityIsAhead

\* An identity that is not ahead of its node.json and its process stays so.
LEMMA BehindStep ==
    ASSUME TypeOK, ProcessInv, [Next]_vars, NEW i \in NodeInfo, Behind(i)
    PROVE  Behind(i)'
  <1> DEFINE k == i.node_id
  <1>1. k \in Node /\ i.incarnation \in Nat
    BY DEF NodeInfo
  <1>2. CASE Keeps(k)
    BY <1>2, ConstantsAssumption DEF Keeps, Behind
  <1>3. CASE StartsAfresh(k) \/ Advances(k)
    <2>1. /\ disk'[k] \in Nat
          /\ current'[k].incarnation = disk'[k]
          /\ i.incarnation < disk'[k]
      BY <1>1, <1>3, NewIdentityIsAhead
    <2> HIDE DEF k
    <2>2. i.incarnation <= disk'[k] /\ disk'[k] # None
      BY <1>1, <2>1, ConstantsAssumption
    <2> QED
      BY <2>1, <2>2 DEF k, Behind
  <1> QED
    BY <1>1, <1>2, <1>3, IdentityStepHolds DEF IdentityStep

\* The identity of a process that has just started or advanced is not ahead
\* of its node.json either.
LEMMA NewIsBehind ==
    ASSUME TypeOK, ProcessInv, NEW k \in Node, StartsAfresh(k) \/ Advances(k)
    PROVE  Behind(current[k])'
  <1>1. /\ disk'[k] \in Nat /\ current'[k].node_id = k
        /\ current'[k].incarnation = disk'[k]
    BY NewIdentityIsAhead
  <1> QED
    BY <1>1, ConstantsAssumption DEF Behind

\* Every identity a step leaves behind was known before, or is the new one
\* of a node that has just advanced or started.
LEMMA OldOrNew ==
    ASSUME TypeOK, ProcessInv, [Next]_vars, NEW i \in Infos'
    PROVE  \/ i \in Infos
           \/ \E k \in Node : (StartsAfresh(k) \/ Advances(k)) /\ i = current'[k]
  <1>1. SUFFICES ASSUME NEW k \in Node, current'[k] # None, i = current'[k]
                 PROVE  i \in Infos \/ StartsAfresh(k) \/ Advances(k)
    BY InfosGrowStep DEF InfosGrow
  <1>2. CASE Keeps(k)
    <2>1. phase[k] # "down" /\ i = current[k]
      BY <1>1, <1>2 DEF Keeps
    <2> QED
      BY <1>1, <2>1, InfosHave
  <1> QED
    BY <1>2, IdentityStepHolds DEF IdentityStep

\* Whoever is known has a node.json that is not behind.
LEMMA KnownStep ==
    ASSUME TypeOK, ProcessInv, KnownInv, [Next]_vars
    PROVE  KnownInv'
  <1>1. ASSUME NEW i \in Infos'
        PROVE  Behind(i)'
    <2>1. CASE i \in Infos
      <3>1. i \in NodeInfo /\ Behind(i)
        BY <2>1, InfosType DEF KnownInv, Behind
      <3> QED
        BY <3>1, BehindStep
    <2>2. ASSUME NEW k \in Node, StartsAfresh(k) \/ Advances(k), i = current'[k]
          PROVE  Behind(i)'
      BY <2>2, NewIsBehind DEF Behind
    <2> QED
      BY <2>1, <2>2, OldOrNew
  <1> QED
    BY <1>1 DEF KnownInv, Behind

\* An incarnation keeps its one identity.
LEMMA DeterminesStep ==
    ASSUME TypeOK, ProcessInv, KnownInv, IncarnationDeterminesInfo, [Next]_vars
    PROVE  IncarnationDeterminesInfo'
  <1>1. SUFFICES ASSUME NEW i \in Infos', NEW j \in Infos',
                        i.node_id = j.node_id, i.incarnation = j.incarnation
                 PROVE  i = j
    BY DEF IncarnationDeterminesInfo
  <1>2. ASSUME NEW p \in Infos, NEW k \in Node, StartsAfresh(k) \/ Advances(k),
               p.node_id = current'[k].node_id,
               p.incarnation = current'[k].incarnation
        PROVE  FALSE
    <2>1. /\ disk'[k] \in Nat
          /\ current'[k].node_id = k
          /\ current'[k].incarnation = disk'[k]
          /\ \A q \in Infos : q.node_id = k => q.incarnation < disk'[k]
      BY <1>2, NewIdentityIsAhead, NewIdentitySupersedes
    <2> QED
      BY <1>2, <2>1
  <1>3. CASE i \in Infos /\ j \in Infos
    BY <1>1, <1>3 DEF IncarnationDeterminesInfo
  <1>4. ASSUME NEW k \in Node, StartsAfresh(k) \/ Advances(k), i = current'[k],
               NEW l \in Node, StartsAfresh(l) \/ Advances(l), j = current'[l]
        PROVE  i = j
    <2>1. i.node_id = k /\ j.node_id = l
      BY <1>4, NewIdentityIsAhead
    <2> QED
      BY <1>1, <1>4, <2>1
  <1> QED
    BY <1>1, <1>2, <1>3, <1>4, OldOrNew

\* Before any process has started, nobody is known.
LEMMA NobodyKnown ==
    ASSUME Init
    PROVE  Infos = {}
  <1>1. TableInfos(EmptyTable) = {}
    BY EmptyTableType DEF TableInfos
  <1>2. ASSUME NEW n \in Node PROVE NodeInfos(n) = {}
    <2>1. /\ current[n] = None /\ membership[n] = EmptyTable
          /\ \A t \in Task : call[n][t] = None
      BY DEF Init, NoCalls
    <2> QED
      BY <1>1, <2>1 DEF NodeInfos
  <1>3. late = {}
    BY DEF Init
  <1> QED
    BY <1>2, <1>3 DEF Infos

-----------------------------------------------------------------------------
(***************************************************************************)
(* The theorems.                                                           *)
(***************************************************************************)

\* The state is well-formed in every reachable state.
THEOREM TypeSafe == Spec => []TypeOK
  BY TypeCorrect, PTL

\* The inductive invariant about identities: a process that is up has one of
\* its own, and nobody is known ahead of its node.json or its process.
THEOREM IdentityInvariant ==
    Spec => [](TypeOK /\ ProcessInv /\ KnownInv /\ IncarnationDeterminesInfo)
  <1>1. Init => KnownInv /\ IncarnationDeterminesInfo
    BY NobodyKnown DEF KnownInv, IncarnationDeterminesInfo
  <1>2. /\ TypeOK /\ ProcessInv /\ KnownInv /\ IncarnationDeterminesInfo
        /\ [Next]_vars
        => KnownInv' /\ IncarnationDeterminesInfo'
    BY KnownStep, DeterminesStep
  <1> QED
    BY <1>1, <1>2, TypeCorrect, PTL DEF Spec

\* advance_incarnation and start_gossip persist an identity before anyone can
\* learn it: no incarnation seen anywhere is ahead of the one in node.json.
THEOREM PersistedBeforeAnnounced == Spec => []IncarnationOnDisk
  <1>1. KnownInv => IncarnationOnDisk
    BY DEF KnownInv, IncarnationOnDisk
  <1> QED
    BY <1>1, IdentityInvariant, PTL

\* The rule of update_member that an equal incarnation keeps the stored info
\* is sound: there is only one info for it.
THEOREM OneIdentityPerIncarnation == Spec => []IncarnationDeterminesInfo
  BY IdentityInvariant, PTL

\* A node that starts is ahead of everything that is still around of it.
THEOREM BootIsAhead == Spec => BootSupersedes
  <1>1. ASSUME TypeOK, ProcessInv, KnownInv, [Next]_vars,
               NEW n \in Node, phase[n] = "down", phase'[n] = "serving",
               NEW i \in Infos, i.node_id = n
        PROVE  i.incarnation < current'[n].incarnation
    <2>1. StartsAfresh(n)
      <3>1. Keeps(n) \/ Advances(n) \/ StartsAfresh(n)
        BY <1>1, IdentityStepHolds DEF IdentityStep
      <3> QED
        BY <1>1, <3>1 DEF Keeps, Advances
    <2> QED
      BY <1>1, <2>1, NewIdentityIsAhead, NewIdentitySupersedes
  <1>2. TypeOK /\ ProcessInv /\ KnownInv /\ [Next]_vars =>
          [\A n \in Node :
             phase[n] = "down" /\ phase'[n] = "serving" =>
                \A i \in Infos :
                   i.node_id = n => i.incarnation < current'[n].incarnation]_vars
    BY <1>1
  <1> QED
    BY <1>2, IdentityInvariant, PTL DEF Spec, BootSupersedes

\* A ring that is built contains the node that builds it.
LEMMA RingOfHasSelf ==
    ASSUME TypeOK, ProcessInv, NEW n \in Node, phase[n] # "down",
           NEW table \in Table
    PROVE  n \in RingOf(n, table)
  <1> DEFINE member == AliveNow(n, current[n])
  <1>1. current[n] \in NodeInfo /\ current[n].node_id = n
    BY DEF TypeOK, ProcessInv
  <1>2. member \in MemberState /\ member.info = current[n]
    BY <1>1, AliveNowType
  <1> HIDE DEF member
  <1>3. Members(UpdateMember(table, member)) = Members(table) \cup {n}
    BY <1>1, <1>2, UpdateMemberType
  <1> QED
    BY <1>3 DEF RingOf, member

\* A node that routes requests is in its own ring, whatever its table says.
THEOREM OwnRing == Spec => []RunningNodeInOwnRing
  <1>1. Init => RunningNodeInOwnRing
    BY DEF Init, RunningNodeInOwnRing
  <1>2. ASSUME TypeOK, ProcessInv, RunningNodeInOwnRing, [Next]_vars
        PROVE  RunningNodeInOwnRing'
    <2>1. ASSUME NEW n \in Node, NEW table \in Table, phase[n] # "down",
                 ring' = [ring EXCEPT ![n] = RingOf(n, table)],
                 \A k \in Node : k # n => phase'[k] = phase[k]
          PROVE  RunningNodeInOwnRing'
      BY <1>2, <2>1, RingOfHasSelf DEF RunningNodeInOwnRing, TypeOK
    <2>2. ASSUME UNCHANGED ring,
                 \A k \in Node : phase'[k] = "running" => phase[k] = "running"
          PROVE  RunningNodeInOwnRing'
      BY <1>2, <2>2 DEF RunningNodeInOwnRing
    <2>3. ASSUME NEW n \in Node, BootDone(n)
          PROVE  RunningNodeInOwnRing'
      <3>1. membership[n] \in Table
        BY <1>2 DEF TypeOK
      <3> QED
        BY <1>2, <2>1, <2>3, <3>1 DEF BootDone, TypeOK
    <2>4. ASSUME NEW n \in Node, RebuildRing(n)
          PROVE  RunningNodeInOwnRing'
      <3>1. membership[n] \in Table
        BY <1>2 DEF TypeOK
      <3> QED
        BY <2>1, <2>4, <3>1 DEF RebuildRing
    <2>5. ASSUME NEW n \in Node, RemoveDeadMembers(n)
          PROVE  RunningNodeInOwnRing'
      <3> DEFINE table == RemoveMembers(membership[n], Expired(n))
      <3>1. table \in Table
        <4>1. membership[n] \in Table /\ Expired(n) \in SUBSET Node
          BY <1>2 DEF TypeOK, Expired
        <4> QED
          BY <4>1, RemoveMembersType
      <3>2. ring' = [ring EXCEPT ![n] = RingOf(n, table)]
        BY <2>5 DEF RemoveDeadMembers
      <3> HIDE DEF table
      <3> QED
        BY <2>1, <2>5, <3>1, <3>2 DEF RemoveDeadMembers
    <2>6. ASSUME NEW n \in Node, Crash(n)
          PROVE  RunningNodeInOwnRing'
      BY <1>2, <2>6 DEF Crash, RunningNodeInOwnRing, TypeOK
    <2>7. ASSUME NEW n \in Node,
                 \/ \E a \in Addr : Boot(n, a)
                 \/ BootTorn(n) \/ Start(n) \/ BootSend(n) \/ BootGiveUp(n)
          PROVE  RunningNodeInOwnRing'
      BY <1>2, <2>2, <2>7 DEF Boot, BootTorn, Start, BootSend, BootGiveUp, TypeOK
    <2>8. ASSUME NEW n \in Node, NEW t \in Task, Exchange(n, t)
          PROVE  RunningNodeInOwnRing'
      <3>1. CASE \E m \in Node : DeliverDuringStart(n, t, m)
        BY <1>2, <2>2, <3>1 DEF DeliverDuringStart, TypeOK
      <3>2. CASE ~\E m \in Node : DeliverDuringStart(n, t, m)
        BY <2>2, <2>8, <3>2 DEF Exchange, Deliver, DeliverPanics, Hang, Retry,
                                RetryLate, HandleReply, HandleReplyPanics, GiveUp
      <3> QED
        BY <3>1, <3>2
    <2>9. ASSUME NEW n \in Node, NEW t \in Loop, LoopStep(n, t)
          PROVE  RunningNodeInOwnRing'
      BY <2>2, <2>9 DEF LoopStep, LoopTick, LoopTickPanics
    <2>10. ASSUME NEW r \in late, NEW m \in Node,
                  DeliverLate(r, m) \/ DeliverLateDuringStart(r, m)
           PROVE  RunningNodeInOwnRing'
      BY <1>2, <2>2, <2>10 DEF DeliverLate, DeliverLateDuringStart, TypeOK
    <2>11. CASE UNCHANGED vars \/ Tick
      BY <2>2, <2>11 DEF vars, Tick
    <2> QED
      BY <1>2, <2>3, <2>4, <2>5, <2>6, <2>7, <2>8, <2>9, <2>10, <2>11
         DEF Next, Process
  <1> QED
    BY <1>1, <1>2, TypeCorrect, PTL DEF Spec

\* A failed exchange condemns the identity it was started with and no other.
THEOREM SuspicionSound == Spec => SuspicionIsCurrent
  <1>1. ASSUME TypeOK, ProcessInv, NEW n \in Node, NEW m \in Node, NEW t \in Loop,
               IncarnationDeterminesInfo,
               GiveUp(n, t), membership'[n][m] # membership[n][m]
        PROVE  membership'[n][m].info = call[n][t].peer
    <2> DEFINE table == membership[n]
               peer  == call[n][t].peer
               id    == peer.node_id
    <2>1. call[n][t] # None /\ membership' = [membership EXCEPT ![n] = MarkDead(table, peer)]
      BY <1>1 DEF GiveUp, AttemptFails, TypeOK
    <2>2. peer \in NodeInfo /\ peer \in Infos /\ table \in Table
      <3>1. t \in Task
        BY DEF Task
      <3>2. peer \in NodeInfo
        BY <1>1, <2>1, <3>1, CallFields DEF ProcessInv
      <3>3. CallInfos(call[n][t]) \subseteq Infos
        BY <2>1, <3>1, InfosHave
      <3>4. peer \in Infos
        BY <3>2, <3>3, NoneAssumption DEF CallInfos
      <3> QED
        BY <1>1, <3>2, <3>4 DEF TypeOK
    <2>3. MarkDead(table, peer)[m] # table[m]
      BY <1>1, <2>1 DEF TypeOK
    <2> DEFINE member == [info |-> peer, status |-> "dead",
                          heartbeat |-> table[id].heartbeat]
    <2>4. table[id] # None /\ MarkDead(table, peer) = UpdateMember(table, member)
      BY <2>3 DEF MarkDead
    <2>5. m = id /\ UpdateMember(table, member)[id] = Merge(table[id], member)
      <3>1. member.info.node_id = id /\ id \in Node
        BY <2>2 DEF NodeInfo
      <3> HIDE DEF member
      <3> QED
        BY <2>2, <2>3, <2>4, <3>1 DEF UpdateMember, Table
    <2>6. Merge(table[id], member) # table[id]
      BY <2>3, <2>4, <2>5
    <2>7. table[id] \in MemberState /\ table[id].info.node_id = id
      BY <2>2, <2>4 DEF Table, NodeInfo
    <2>8. table[id].info \in Infos
      <3>1. table[id].info \in TableInfos(table)
        BY <2>4, <2>2 DEF TableInfos, Members, NodeInfo
      <3> QED
        BY <1>1, <3>1, InfosHave
    <2>9. membership'[n][m] = Merge(table[id], member)
      BY <1>1, <2>1, <2>4, <2>5 DEF TypeOK
    <2>10. member.info = peer
      OBVIOUS
    <2>11. table[id].info.incarnation \in Nat /\ peer.incarnation \in Nat
      BY <2>2, <2>7 DEF MemberState, NodeInfo
    <2> HIDE DEF member
    <2>12. CASE table[id].info.incarnation = peer.incarnation
      <3>1. table[id].info = peer
        BY <1>1, <2>2, <2>7, <2>8, <2>12 DEF IncarnationDeterminesInfo
      <3>2. Merge(table[id], member) = MergeSameIncarnation(table[id], member)
        BY <2>4, <2>10, <2>11, <2>12 DEF Merge
      <3> QED
        BY <2>9, <3>1, <3>2 DEF MergeSameIncarnation
    <2>13. CASE table[id].info.incarnation # peer.incarnation
      <3>1. Merge(table[id], member) = member
        BY <2>4, <2>6, <2>10, <2>11, <2>13 DEF Merge
      <3> QED
        BY <2>9, <2>10, <3>1
    <2> QED
      BY <2>12, <2>13
  <1>2. TypeOK /\ ProcessInv /\ IncarnationDeterminesInfo /\ [Next]_vars =>
          [\A n, m \in Node, t \in Loop :
             GiveUp(n, t) /\ membership'[n][m] # membership[n][m] =>
                membership'[n][m].info = call[n][t].peer]_vars
    BY <1>1
  <1> QED
    BY <1>2, IdentityInvariant, PTL DEF Spec, SuspicionIsCurrent

-----------------------------------------------------------------------------
(***************************************************************************)
(* Entries move forward.                                                   *)
(***************************************************************************)
EntryMovesOn(old, new) ==
    \/ new.info.incarnation > old.info.incarnation
    \/ new.info = old.info /\ new.heartbeat >= old.heartbeat

TableMovesOn(old, new) ==
    \A m \in Node : old[m] # None => new[m] # None /\ EntryMovesOn(old[m], new[m])

\* Moving on twice is moving on.
LEMMA MovesOnTransitive ==
    ASSUME NEW a \in Table, NEW b \in Table, NEW c \in Table,
           TableMovesOn(a, b), TableMovesOn(b, c)
    PROVE  TableMovesOn(a, c)
  <1> SUFFICES ASSUME NEW m \in Node, a[m] # None
               PROVE  c[m] # None /\ EntryMovesOn(a[m], c[m])
    BY DEF TableMovesOn
  <1>1. /\ b[m] # None /\ EntryMovesOn(a[m], b[m])
        /\ c[m] # None /\ EntryMovesOn(b[m], c[m])
    BY DEF TableMovesOn
  <1>2. a[m] \in MemberState /\ b[m] \in MemberState /\ c[m] \in MemberState
    BY <1>1 DEF Table
  <1>3. /\ a[m].info.incarnation \in Nat /\ b[m].info.incarnation \in Nat
        /\ c[m].info.incarnation \in Nat
        /\ a[m].heartbeat \in Nat /\ b[m].heartbeat \in Nat /\ c[m].heartbeat \in Nat
    BY <1>2 DEF MemberState, NodeInfo
  <1> QED
    BY <1>1, <1>3 DEF EntryMovesOn

\* update_member moves a table on.
LEMMA UpdateMovesOn ==
    ASSUME NEW table \in Table, NEW member \in MemberState
    PROVE  TableMovesOn(table, UpdateMember(table, member))
  <1> DEFINE new == UpdateMember(table, member)
  <1> SUFFICES ASSUME NEW m \in Node, table[m] # None
               PROVE  new[m] # None /\ EntryMovesOn(table[m], new[m])
    BY DEF TableMovesOn
  <1>1. table[m] \in MemberState /\ table[m].info.node_id = m
    BY DEF Table
  <1>2. CASE m = member.info.node_id
    <2>1. new[m] = Merge(table[m], member)
      BY <1>2 DEF UpdateMember, Table
    <2>2. Merge(table[m], member) # None
      BY <1>1, <1>2, MergeType
    <2> QED
      BY <1>1, <2>1, <2>2, MergeMovesForward DEF EntryMovesOn
  <1>3. CASE m # member.info.node_id
    <2>1. new[m] = table[m]
      BY <1>3 DEF UpdateMember, Table
    <2>2. table[m].heartbeat \in Nat
      BY <1>1 DEF MemberState
    <2> QED
      BY <2>1, <2>2 DEF EntryMovesOn
  <1> QED
    BY <1>2, <1>3

\* So does merging a whole table into it.
LEMMA UpdatesMoveOn ==
    ASSUME NEW table \in Table, NEW members \in Table
    PROVE  TableMovesOn(table, UpdateMembers(table, members))
  <1> DEFINE new == UpdateMembers(table, members)
  <1> SUFFICES ASSUME NEW m \in Node, table[m] # None
               PROVE  new[m] # None /\ EntryMovesOn(table[m], new[m])
    BY DEF TableMovesOn
  <1>1. table[m] \in MemberState /\ table[m].info.node_id = m
    BY DEF Table
  <1>2. CASE members[m] # None
    <2>1. new[m] = Merge(table[m], members[m])
      BY <1>2 DEF UpdateMembers
    <2>2. members[m] \in MemberState /\ members[m].info.node_id = m
      BY <1>2 DEF Table
    <2>3. Merge(table[m], members[m]) # None
      BY <1>1, <2>2, MergeType
    <2> QED
      BY <1>1, <2>1, <2>2, <2>3, MergeMovesForward DEF EntryMovesOn
  <1>3. CASE members[m] = None
    <2>1. new[m] = table[m]
      BY <1>3 DEF UpdateMembers
    <2>2. table[m].heartbeat \in Nat
      BY <1>1 DEF MemberState
    <2> QED
      BY <2>1, <2>2 DEF EntryMovesOn
  <1> QED
    BY <1>2, <1>3

\* handle_message moves the table on.
LEMMA HandledMovesOn ==
    ASSUME TypeOK, NEW n \in Node, current[n] \in NodeInfo,
           NEW msg \in GossipMessage
    PROVE  TableMovesOn(membership[n], Handled(n, msg))
  <1>1. membership[n] \in Table
    BY DEF TypeOK
  <1>2. CASE msg.type = "sync"
    <2> DEFINE merged == UpdateMembers(membership[n], msg.members)
               self   == AliveNow(n, current[n])
    <2>1. msg.members \in Table
      BY <1>2 DEF GossipMessage
    <2>2. merged \in Table /\ TableMovesOn(membership[n], merged)
      BY <1>1, <2>1, UpdateMembersType, UpdatesMoveOn
    <2>3. self \in MemberState
      BY AliveNowType
    <2>4. Handled(n, msg) = UpdateMember(merged, self)
      BY <1>2 DEF Handled
    <2> HIDE DEF merged, self
    <2>5. UpdateMember(merged, self) \in Table
          /\ TableMovesOn(merged, UpdateMember(merged, self))
      BY <2>2, <2>3, UpdateMemberType, UpdateMovesOn
    <2> QED
      BY <1>1, <2>2, <2>4, <2>5, MovesOnTransitive
  <1>3. CASE msg.type # "sync"
    <2> DEFINE member == AliveNow(n, msg.info)
    <2>1. msg.info \in NodeInfo
      BY <1>3 DEF GossipMessage
    <2>2. member \in MemberState
      BY <2>1, AliveNowType
    <2>3. Handled(n, msg) = UpdateMember(membership[n], member)
      BY <1>3 DEF Handled
    <2> HIDE DEF member
    <2> QED
      BY <1>1, <2>2, <2>3, UpdateMovesOn
  <1> QED
    BY <1>2, <1>3

\* mark_dead moves the table on.
LEMMA MarkDeadMovesOn ==
    ASSUME NEW table \in Table, NEW peer \in NodeInfo
    PROVE  TableMovesOn(table, MarkDead(table, peer))
  <1> DEFINE id == peer.node_id
  <1>1. CASE table[id] = None
    <2>1. \A m \in Node : table[m] # None => table[m].heartbeat \in Nat
      BY DEF Table, MemberState
    <2> QED
      BY <1>1, <2>1 DEF MarkDead, TableMovesOn, EntryMovesOn
  <1>2. CASE table[id] # None
    <2> DEFINE member == [info |-> peer, status |-> "dead",
                          heartbeat |-> table[id].heartbeat]
    <2>1. table[id] \in MemberState
      BY <1>2 DEF Table, NodeInfo
    <2>2. member \in MemberState
      BY <2>1 DEF MemberState, MemberStatus
    <2>3. MarkDead(table, peer) = UpdateMember(table, member)
      BY <1>2 DEF MarkDead
    <2> HIDE DEF member
    <2> QED
      BY <2>2, <2>3, UpdateMovesOn
  <1> QED
    BY <1>1, <1>2

\* What a step may do to a table of a process that is past start().
LEMMA TableStep ==
    ASSUME TypeOK, ProcessInv, [Next]_vars,
           NEW n \in Node, phase[n] \in {"bootstrap", "running"}, phase'[n] # "down"
    PROVE  \/ TableMovesOn(membership[n], membership'[n])
           \/ membership'[n] = RemoveMembers(membership[n], Expired(n))
  <1>0. membership[n] \in Table /\ TableMovesOn(membership[n], membership[n])
    <2>1. membership[n] \in Table
      BY DEF TypeOK
    <2>2. \A m \in Node : membership[n][m] # None => membership[n][m].heartbeat \in Nat
      BY <2>1 DEF Table, MemberState
    <2> QED
      BY <2>1, <2>2 DEF TableMovesOn, EntryMovesOn
  <1>1. CASE membership'[n] = membership[n]
    BY <1>0, <1>1
  <1>2. ASSUME NEW k \in Node, NEW msg \in GossipMessage, phase[k] # "down",
               membership' = [membership EXCEPT ![k] = Handled(k, msg)]
        PROVE  TableMovesOn(membership[n], membership'[n])
    <2>1. current[k] \in NodeInfo
      BY <1>2 DEF TypeOK, ProcessInv
    <2>2. TableMovesOn(membership[k], Handled(k, msg))
      BY <1>2, <2>1, HandledMovesOn
    <2>3. membership'[n] = IF n = k THEN Handled(k, msg) ELSE membership[n]
      BY <1>2 DEF TypeOK
    <2> QED
      BY <1>0, <2>2, <2>3
  <1>3. ASSUME NEW k \in Node, NEW t \in Task, NEW m \in Node,
               \/ Deliver(k, t, m) \/ DeliverDuringStart(k, t, m)
               \/ DeliverPanics(k, t, m)
        PROVE  TableMovesOn(membership[n], membership'[n])
    <2>1. /\ Awaiting(k, t) /\ phase[m] # "down"
          /\ membership' = [membership EXCEPT ![m] = Handled(m, call[k][t].msg)]
      BY <1>3 DEF Deliver, DeliverDuringStart, DeliverPanics, Serves,
                  HandleMessage, HandleMessagePanics
    <2>2. call[k][t].msg \in GossipMessage
      BY <2>1, CallFields DEF Awaiting
    <2> QED
      BY <1>2, <2>1, <2>2
  <1>4. ASSUME NEW k \in Node, NEW t \in Task,
               HandleReply(k, t) \/ HandleReplyPanics(k, t)
        PROVE  TableMovesOn(membership[n], membership'[n])
    <2>1. /\ Answered(k, t)
          /\ membership' = [membership EXCEPT ![k] = Handled(k, call[k][t].reply)]
      BY <1>4 DEF HandleReply, HandleReplyPanics, HandleMessage, HandleMessagePanics
    <2>2. call[k][t].reply \in GossipMessage /\ phase[k] # "down"
      BY <2>1, CallFields, CallerIsUp DEF Answered
    <2> QED
      BY <1>2, <2>1, <2>2
  <1>5. ASSUME NEW r \in late, NEW m \in Node,
               DeliverLate(r, m) \/ DeliverLateDuringStart(r, m)
        PROVE  TableMovesOn(membership[n], membership'[n])
    <2>1. /\ phase[m] # "down" /\ r.msg \in GossipMessage
          /\ membership' = [membership EXCEPT ![m] = Handled(m, r.msg)]
      BY <1>5 DEF DeliverLate, DeliverLateDuringStart, Serves, HandleMessage,
                  HandleMessagePanics, TypeOK, Request
    <2> QED
      BY <1>2, <2>1
  <1>6. ASSUME NEW k \in Node, NEW t \in Task, GiveUp(k, t)
        PROVE  TableMovesOn(membership[n], membership'[n])
    <2> DEFINE peer == call[k][t].peer
    <2>1. /\ t \in Loop /\ call[k][t] # None
          /\ membership' = [membership EXCEPT ![k] = MarkDead(membership[k], peer)]
      BY <1>6 DEF GiveUp, AttemptFails, TypeOK
    <2>2. peer \in NodeInfo /\ membership[k] \in Table
      BY <2>1, CallFields DEF ProcessInv, TypeOK
    <2> HIDE DEF peer
    <2>3. TableMovesOn(membership[k], MarkDead(membership[k], peer))
      BY <2>2, MarkDeadMovesOn
    <2>4. membership'[n] = IF n = k THEN MarkDead(membership[k], peer) ELSE membership[n]
      BY <2>1 DEF TypeOK
    <2> QED
      BY <1>0, <2>3, <2>4
  <1>7. ASSUME NEW k \in Node, RemoveDeadMembers(k)
        PROVE  \/ membership'[n] = membership[n]
               \/ membership'[n] = RemoveMembers(membership[n], Expired(n))
    BY <1>7 DEF RemoveDeadMembers, TypeOK
  <1>8. ASSUME NEW k \in Node, Crash(k) \/ Start(k)
        PROVE  membership'[n] = membership[n]
    <2>1. k # n
      BY <1>8 DEF Crash, Start, TypeOK
    <2> QED
      BY <1>8, <2>1 DEF Crash, Start, TypeOK
  <1>9. ASSUME NEW k \in Node,
               \/ \E a \in Addr : Boot(k, a)
               \/ BootTorn(k) \/ BootSend(k) \/ BootGiveUp(k) \/ BootDone(k)
               \/ RebuildRing(k)
               \/ \E t \in Task : Hang(k, t) \/ Retry(k, t) \/ RetryLate(k, t)
               \/ \E t \in Loop : LoopStep(k, t)
        PROVE  membership'[n] = membership[n]
    BY <1>9 DEF Boot, BootTorn, BootSend, BootGiveUp, BootDone, RebuildRing, Hang,
                Retry, RetryLate, LoopStep, LoopTick, LoopTickPanics
  <1>10. CASE UNCHANGED vars \/ Tick
    BY <1>1, <1>10 DEF vars, Tick
  <1> QED
    BY <1>1, <1>3, <1>4, <1>5, <1>6, <1>7, <1>8, <1>9, <1>10
       DEF Next, Process, Exchange

\* While a process is up its table never goes back: update_member, mark_dead
\* and handle_message, in whatever order exchanges end, only move it on.
THEOREM TablesMoveForward == Spec => TableMovesForward
  <1>1. ASSUME TypeOK, ProcessInv, [Next]_vars, NEW n \in Node, NEW m \in Node,
               phase[n] \in {"bootstrap", "running"}, phase'[n] # "down",
               membership[n][m] # None
        PROVE  \/ membership'[n][m] = None /\ m \in Expired(n)
               \/ /\ membership'[n][m] # None
                  /\ membership'[n][m].info.incarnation >
                        membership[n][m].info.incarnation
               \/ /\ membership'[n][m] # None
                  /\ membership'[n][m].info = membership[n][m].info
                  /\ membership'[n][m].heartbeat >= membership[n][m].heartbeat
    <2>1. CASE TableMovesOn(membership[n], membership'[n])
      BY <1>1, <2>1 DEF TableMovesOn, EntryMovesOn
    <2>2. CASE membership'[n] = RemoveMembers(membership[n], Expired(n))
      <3>1. membership'[n][m] = IF m \in Expired(n) THEN None ELSE membership[n][m]
        BY <2>2 DEF RemoveMembers
      <3>2. membership[n][m].heartbeat \in Nat
        BY <1>1 DEF TypeOK, Table, MemberState
      <3> QED
        BY <1>1, <3>1, <3>2
    <2> QED
      BY <1>1, <2>1, <2>2, TableStep
  <1>2. TypeOK /\ ProcessInv /\ [Next]_vars =>
          [\A n, m \in Node :
             /\ phase[n] \in {"bootstrap", "running"}
             /\ phase'[n] # "down"
             /\ membership[n][m] # None
             => LET old == membership[n][m]
                    new == membership'[n][m]
                IN  \/ new = None /\ m \in Expired(n)
                    \/ new # None /\ new.info.incarnation > old.info.incarnation
                    \/ /\ new # None /\ new.info = old.info
                       /\ new.heartbeat >= old.heartbeat]_vars
    BY <1>1
  <1> QED
    BY <1>2, TypeCorrect, PTL DEF Spec, TableMovesForward

-----------------------------------------------------------------------------
(***************************************************************************)
(* Who can make a node believe that it is dead.                            *)
(***************************************************************************)

\* Only the loops of a running node await an exchange with a member: the
\* loops are spawned when start() is done, and a crash ends them.
LoopInv ==
    \A n \in Node, t \in Loop : call[n][t] # None => phase[n] = "running"

\* An exchange of a loop begins in a running process and ends with it.
LEMMA LoopInvStep ==
    ASSUME TypeOK, ProcessInv, LoopInv, [Next]_vars
    PROVE  LoopInv'
  <1> SUFFICES ASSUME NEW k \in Node, NEW u \in Loop, call'[k][u] # None
               PROVE  phase'[k] = "running"
    BY DEF LoopInv
  <1>0. u \in Task /\ u # "boot"
    BY DEF Loop, Task
  <1>1. ASSUME call[k][u] # None, phase'[k] = phase[k]
        PROVE  phase'[k] = "running"
    BY <1>1 DEF LoopInv
  <1>2. ASSUME NEW n \in Node, NEW t \in Task, call[n][t] # None, NEW reply,
               call' = [call EXCEPT ![n][t].reply = reply]
        PROVE  call[k][u] # None
    BY <1>0, <1>2 DEF TypeOK
  <1>3. ASSUME NEW n \in Node, NEW t \in Task, EndCall(n, t)
        PROVE  call[k][u] # None
    BY <1>0, <1>3 DEF EndCall, TypeOK
  <1>4. ASSUME NEW n \in Node, NEW t \in Task, NEW m \in Node,
               Deliver(n, t, m) \/ DeliverPanics(n, t, m)
        PROVE  phase'[k] = "running"
    BY <1>1, <1>2, <1>4 DEF Deliver, DeliverPanics, Awaiting
  <1>5. ASSUME NEW n \in Node, NEW t \in Task, NEW m \in Node,
               DeliverDuringStart(n, t, m)
        PROVE  phase'[k] = "running"
    <2>1. call[k][u] # None
      BY <1>2, <1>5 DEF DeliverDuringStart, Awaiting
    <2>2. phase[k] = "running"
      BY <2>1 DEF LoopInv
    <2>3. m # k
      BY <1>5, <2>2 DEF DeliverDuringStart
    <2> QED
      BY <1>5, <2>2, <2>3 DEF DeliverDuringStart, TypeOK
  <1>6. ASSUME NEW n \in Node, NEW t \in Task, Hang(n, t)
        PROVE  phase'[k] = "running"
    BY <1>1, <1>2, <1>6 DEF Hang
  <1>7. ASSUME NEW n \in Node, NEW t \in Task, Retry(n, t) \/ RetryLate(n, t)
        PROVE  phase'[k] = "running"
    <2>1. /\ call[n][t] # None
          /\ \A v \in Task : v # t => call'[n][v] = call[n][v]
          /\ \A j \in Node : j # n => call'[j] = call[j]
      BY <1>7, RetryStep
    <2> QED
      BY <1>0, <1>1, <1>7, <2>1 DEF Retry, RetryLate
  <1>8. ASSUME NEW n \in Node, NEW t \in Task,
               HandleReply(n, t) \/ HandleReplyPanics(n, t) \/ GiveUp(n, t)
        PROVE  phase'[k] = "running"
    BY <1>1, <1>3, <1>8 DEF HandleReply, HandleReplyPanics, GiveUp
  <1>9. ASSUME NEW n \in Node, NEW t \in Loop, NEW m \in Node, LoopTick(n, t, m)
        PROVE  phase'[k] = "running"
    <2>1. CASE n = k
      BY <1>9, <2>1 DEF LoopTick, Idle
    <2>2. CASE n # k
      BY <1>1, <1>9, <2>2 DEF LoopTick, TypeOK
    <2> QED
      BY <2>1, <2>2
  <1>10. ASSUME NEW n \in Node, BootSend(n) \/ BootGiveUp(n)
         PROVE  phase'[k] = "running"
    <2>1. PICK c : call' = [call EXCEPT ![n]["boot"] = c]
      BY <1>10 DEF BootSend, BootGiveUp, EndCall
    <2>2. call'[k][u] = call[k][u]
      BY <1>0, <2>1 DEF TypeOK
    <2>3. phase' = phase
      BY <1>10 DEF BootSend, BootGiveUp
    <2> QED
      BY <1>1, <2>2, <2>3
  <1>11. ASSUME NEW n \in Node, Crash(n)
         PROVE  phase'[k] = "running"
    BY <1>0, <1>1, <1>11 DEF Crash, NoCalls, TypeOK
  <1>12. ASSUME NEW n \in Node, \/ \E a \in Addr : Boot(n, a)
                                \/ Start(n) \/ BootDone(n)
         PROVE  phase'[k] = "running"
    <2>1. call[k][u] # None
      BY <1>12 DEF Boot, Start, BootDone
    <2>2. phase[k] = "running"
      BY <2>1 DEF LoopInv
    <2>3. n # k
      BY <1>12, <2>2 DEF Boot, CanBoot, Start, BootDone
    <2> QED
      BY <1>12, <2>2, <2>3 DEF Boot, Start, BootDone, TypeOK
  <1>13. CASE UNCHANGED <<call, phase>>
    BY <1>1, <1>13
  <1>14. CASE UNCHANGED vars \/ Tick
    BY <1>13, <1>14 DEF vars, Tick
  <1>15. ASSUME NEW n \in Node, \/ BootTorn(n) \/ RebuildRing(n)
                                \/ RemoveDeadMembers(n)
                                \/ \E t \in Loop : LoopTickPanics(n, t)
         PROVE  phase'[k] = "running"
    BY <1>13, <1>15 DEF BootTorn, RebuildRing, RemoveDeadMembers, LoopTickPanics
  <1>16. ASSUME NEW r \in late, NEW m \in Node,
                DeliverLate(r, m) \/ DeliverLateDuringStart(r, m)
         PROVE  phase'[k] = "running"
    <2>1. CASE DeliverLate(r, m)
      BY <1>13, <2>1 DEF DeliverLate
    <2>2. CASE DeliverLateDuringStart(r, m)
      <3>1. call[k][u] # None
        BY <1>2, <2>2 DEF DeliverLateDuringStart
      <3>2. phase[k] = "running"
        BY <3>1 DEF LoopInv
      <3> QED
        BY <2>2, <3>2 DEF DeliverLateDuringStart, TypeOK
    <2> QED
      BY <1>16, <2>1, <2>2
  <1> QED
    BY <1>4, <1>5, <1>6, <1>7, <1>8, <1>9, <1>10, <1>11, <1>12, <1>14, <1>15, <1>16
       DEF Next, Process, Exchange, LoopStep

\* A node vouched for is alive, unless a later incarnation of it is known.
LEMMA VouchedMerge ==
    ASSUME NEW entry \in MemberState \cup {None}, NEW member \in MemberState,
           member.status = "alive"
    PROVE  \/ Merge(entry, member).status = "alive"
           \/ /\ entry # None /\ Merge(entry, member) = entry
              /\ entry.info.incarnation > member.info.incarnation
  <1>1. CASE entry = None
    BY <1>1 DEF Merge
  <1>2. CASE entry # None
    <2>1. /\ entry.info.incarnation \in Nat /\ member.info.incarnation \in Nat
          /\ entry.status \in {"alive", "dead"}
      BY <1>2 DEF MemberState, NodeInfo, MemberStatus
    <2>2. MergeStatus(entry, member) = "alive"
      BY <2>1 DEF MergeStatus, DowngradeTo
    <2>3. MergeSameIncarnation(entry, member).status = "alive"
      BY <2>2 DEF MergeSameIncarnation
    <2> QED
      BY <1>2, <2>1, <2>3 DEF Merge
  <1> QED
    BY <1>1, <1>2

\* No message makes handle_message store that the node itself is dead: the
\* reports of a Sync are overruled, for none is of an incarnation ahead of
\* the node's own, and a Ping or an Ack reports nobody dead.
LEMMA HandledVouches ==
    ASSUME TypeOK, ProcessInv, KnownInv, NEW n \in Node, phase[n] # "down",
           NEW msg \in GossipMessage, MessageInfos(msg) \subseteq Infos,
           IsDead(Handled(n, msg), n)
    PROVE  IsDead(membership[n], n)
  <1>1. /\ current[n] \in NodeInfo /\ current[n].node_id = n
        /\ membership[n] \in Table
        /\ TableInfos(membership[n]) \subseteq Infos
    BY InfosHave DEF TypeOK, ProcessInv
  <1>2. CASE msg.type = "sync"
    <2> DEFINE merged == UpdateMembers(membership[n], msg.members)
               self   == AliveNow(n, current[n])
    <2>1. msg.members \in Table /\ TableInfos(msg.members) \subseteq Infos
      BY <1>2 DEF GossipMessage, MessageInfos
    <2>2. merged \in Table /\ TableInfos(merged) \subseteq Infos
      BY <1>1, <2>1, UpdateMembersType
    <2>3. self \in MemberState /\ self.info = current[n] /\ self.status = "alive"
      BY <1>1, AliveNowType DEF AliveNow
    <2>4. Handled(n, msg) = UpdateMember(merged, self)
      BY <1>2 DEF Handled
    <2> HIDE DEF merged, self
    <2>5. Handled(n, msg)[n] = Merge(merged[n], self)
      BY <1>1, <2>2, <2>3, <2>4 DEF UpdateMember, Table
    <2>6. ASSUME merged[n] # None
          PROVE  ~(merged[n].info.incarnation > self.info.incarnation)
      <3>1. /\ merged[n].info \in Infos /\ merged[n].info.node_id = n
            /\ merged[n].info.incarnation \in Nat
        BY <2>2, <2>6 DEF TableInfos, Members, Table, MemberState, NodeInfo
      <3>2. merged[n].info.incarnation <= current[n].incarnation
        BY <3>1 DEF KnownInv
      <3>3. current[n].incarnation \in Nat
        BY <1>1 DEF NodeInfo
      <3> QED
        BY <2>3, <3>1, <3>2, <3>3
    <2>7. Handled(n, msg)[n].status = "alive"
      <3>1. merged[n] \in MemberState \cup {None}
        BY <2>2 DEF Table
      <3> QED
        BY <2>3, <2>5, <2>6, <3>1, VouchedMerge
    <2> QED
      BY <2>7 DEF IsDead
  <1>3. CASE msg.type # "sync"
    <2> DEFINE member == AliveNow(n, msg.info)
               id     == msg.info.node_id
    <2>1. msg.info \in NodeInfo
      BY <1>3 DEF GossipMessage
    <2>2. /\ member \in MemberState /\ member.info.node_id = id
          /\ member.status = "alive"
      BY <2>1, AliveNowType DEF AliveNow
    <2>3. Handled(n, msg) = UpdateMember(membership[n], member)
      BY <1>3 DEF Handled
    <2> HIDE DEF member
    <2>4. Handled(n, msg)[n] = IF id = n THEN Merge(membership[n][n], member)
                                         ELSE membership[n][n]
      BY <1>1, <2>2, <2>3 DEF UpdateMember, Table
    <2>5. membership[n][n] \in MemberState \cup {None}
      BY <1>1 DEF Table
    <2>6. \/ Merge(membership[n][n], member).status = "alive"
          \/ Merge(membership[n][n], member) = membership[n][n]
      BY <2>2, <2>5, VouchedMerge
    <2> QED
      BY <2>4, <2>6 DEF IsDead
  <1> QED
    BY <1>2, <1>3

\* mark_dead says nothing of any member but the one it condemns.
LEMMA MarkDeadOthers ==
    ASSUME NEW table \in Table, NEW peer, NEW m \in Node, m # peer.node_id
    PROVE  MarkDead(table, peer)[m] = table[m]
  BY DEF MarkDead, UpdateMember, Table

\* A step after which a node believes itself dead, and did not before it, is
\* the end of an exchange one of its own loops had with itself.
LEMMA SuspicionStep ==
    ASSUME TypeOK, ProcessInv, KnownInv, LoopInv, [Next]_vars, NEW n \in Node,
           ~IsDead(membership[n], n), IsDead(membership'[n], n)
    PROVE  /\ phase[n] = "running"
           /\ \E t \in Loop : /\ call[n][t] # None /\ call'[n][t] = None
                             /\ call[n][t].peer.node_id = n
  <1> DEFINE Goal == /\ phase[n] = "running"
                     /\ \E t \in Loop : /\ call[n][t] # None /\ call'[n][t] = None
                                       /\ call[n][t].peer.node_id = n
  <1> SUFFICES Goal
    OBVIOUS
  <1> HIDE DEF Goal
  <1>1. membership'[n] # membership[n]
    OBVIOUS
  <1>2. ASSUME NEW k \in Node, NEW msg \in GossipMessage, phase[k] # "down",
               MessageInfos(msg) \subseteq Infos,
               membership' = [membership EXCEPT ![k] = Handled(k, msg)]
        PROVE  FALSE
    <2>1. k = n /\ membership'[n] = Handled(n, msg)
      BY <1>1, <1>2 DEF TypeOK
    <2> QED
      BY <1>2, <2>1, HandledVouches
  <1>3. ASSUME NEW k \in Node, NEW t \in Task, NEW m \in Node,
               \/ Deliver(k, t, m) \/ DeliverDuringStart(k, t, m)
               \/ DeliverPanics(k, t, m)
        PROVE  FALSE
    <2>1. /\ Awaiting(k, t) /\ phase[m] # "down"
          /\ membership' = [membership EXCEPT ![m] = Handled(m, call[k][t].msg)]
      BY <1>3 DEF Deliver, DeliverDuringStart, DeliverPanics, Serves,
                  HandleMessage, HandleMessagePanics
    <2>2. call[k][t] # None /\ call[k][t].msg \in GossipMessage
      BY <2>1, CallFields DEF Awaiting
    <2>3. MessageInfos(call[k][t].msg) \subseteq Infos
      BY <2>2, InfosHave DEF CallInfos
    <2> QED
      BY <1>2, <2>1, <2>2, <2>3
  <1>4. ASSUME NEW k \in Node, NEW t \in Task,
               HandleReply(k, t) \/ HandleReplyPanics(k, t)
        PROVE  FALSE
    <2>1. /\ Answered(k, t)
          /\ membership' = [membership EXCEPT ![k] = Handled(k, call[k][t].reply)]
      BY <1>4 DEF HandleReply, HandleReplyPanics, HandleMessage, HandleMessagePanics
    <2>2. /\ call[k][t] # None /\ call[k][t].reply \notin NoAnswer
          /\ call[k][t].reply \in GossipMessage /\ phase[k] # "down"
      BY <2>1, CallFields, CallerIsUp DEF Answered
    <2>3. MessageInfos(call[k][t].reply) \subseteq Infos
      BY <2>2, InfosHave DEF CallInfos
    <2> QED
      BY <1>2, <2>1, <2>2, <2>3
  <1>5. ASSUME NEW r \in late, NEW m \in Node,
               DeliverLate(r, m) \/ DeliverLateDuringStart(r, m)
        PROVE  FALSE
    <2>1. /\ phase[m] # "down" /\ r.msg \in GossipMessage
          /\ membership' = [membership EXCEPT ![m] = Handled(m, r.msg)]
      BY <1>5 DEF DeliverLate, DeliverLateDuringStart, Serves, HandleMessage,
                  HandleMessagePanics, TypeOK, Request
    <2> QED
      BY <1>2, <2>1, InfosHave
  <1>6. ASSUME NEW k \in Node, NEW t \in Task, GiveUp(k, t)
        PROVE  Goal
    <2> DEFINE peer == call[k][t].peer
    <2>1. /\ t \in Loop /\ call[k][t] # None /\ EndCall(k, t)
          /\ membership' = [membership EXCEPT ![k] = MarkDead(membership[k], peer)]
      BY <1>6 DEF GiveUp, AttemptFails, TypeOK
    <2>2. k = n /\ membership'[n] = MarkDead(membership[n], peer)
      BY <1>1, <2>1 DEF TypeOK
    <2>3. peer.node_id = n
      BY <2>2, MarkDeadOthers DEF IsDead, TypeOK
    <2>4. call'[n][t] = None
      BY <2>1, <2>2, EndCallStep
    <2> QED
      BY <2>1, <2>2, <2>3, <2>4 DEF Goal, LoopInv
  <1>7. ASSUME NEW k \in Node, RemoveDeadMembers(k)
        PROVE  FALSE
    <2>1. membership'[n] = RemoveMembers(membership[n], Expired(n))
      BY <1>1, <1>7 DEF RemoveDeadMembers, TypeOK
    <2> QED
      BY <2>1 DEF RemoveMembers, IsDead
  <1>8. ASSUME NEW k \in Node, Crash(k)
        PROVE  FALSE
    <2>1. membership'[n] = EmptyTable
      BY <1>1, <1>8 DEF Crash, TypeOK
    <2> QED
      BY <2>1 DEF EmptyTable, IsDead
  <1>9. ASSUME NEW k \in Node, Start(k)
        PROVE  FALSE
    <2> DEFINE self == AliveNow(n, current[n])
    <2>1. k = n /\ phase[n] = "serving"
      BY <1>1, <1>9 DEF Start, TypeOK
    <2>2. membership'[n] = UpdateMember(EmptyTable, self)
      BY <1>9, <2>1 DEF Start, TypeOK
    <2>3. /\ self \in MemberState /\ self.info.node_id = n
          /\ self.status = "alive"
      BY <2>1, AliveNowType DEF ProcessInv, TypeOK, AliveNow
    <2> HIDE DEF self
    <2>4. membership'[n][n] = self
      BY <2>2, <2>3 DEF UpdateMember, EmptyTable, Merge
    <2> QED
      BY <2>3, <2>4 DEF IsDead
  <1>10. ASSUME NEW k \in Node,
               \/ \E a \in Addr : Boot(k, a)
               \/ BootTorn(k) \/ BootSend(k) \/ BootGiveUp(k) \/ BootDone(k)
               \/ RebuildRing(k)
               \/ \E t \in Task : Hang(k, t) \/ Retry(k, t) \/ RetryLate(k, t)
               \/ \E t \in Loop : LoopStep(k, t)
        PROVE  FALSE
    BY <1>1, <1>10 DEF Boot, BootTorn, BootSend, BootGiveUp, BootDone, RebuildRing,
                       Hang, Retry, RetryLate, LoopStep, LoopTick, LoopTickPanics
  <1>11. CASE UNCHANGED vars \/ Tick
    BY <1>1, <1>11 DEF vars, Tick
  <1> QED
    BY <1>3, <1>4, <1>5, <1>6, <1>7, <1>8, <1>9, <1>10, <1>11
       DEF Next, Process, Exchange

\* Whatever the other nodes report and in whatever order it arrives, a node
\* comes to believe itself dead only when a loop of its own gives up on it:
\* handle_message vouches for the node before it stores a Sync.
THEOREM OnlyItself == Spec => OnlySelfSuspicion
  <1>1. Init => LoopInv
    BY DEF Init, LoopInv, NoCalls, Task
  <1>2. TypeOK /\ ProcessInv /\ LoopInv /\ [Next]_vars => LoopInv'
    BY LoopInvStep
  <1>3. TypeOK /\ ProcessInv /\ KnownInv /\ LoopInv /\ [Next]_vars =>
          [\A n \in Node :
             ~IsDead(membership[n], n) /\ IsDead(membership[n], n)' =>
                /\ phase[n] = "running"
                /\ \E t \in Loop : /\ call[n][t] # None /\ call'[n][t] = None
                                  /\ call[n][t].peer.node_id = n]_vars
    <2> SUFFICES ASSUME TypeOK, ProcessInv, KnownInv, LoopInv, [Next]_vars,
                        NEW n \in Node,
                        ~IsDead(membership[n], n), IsDead(membership[n], n)'
                 PROVE  /\ phase[n] = "running"
                        /\ \E t \in Loop : /\ call[n][t] # None /\ call'[n][t] = None
                                          /\ call[n][t].peer.node_id = n
      OBVIOUS
    <2>1. IsDead(membership'[n], n)
      BY DEF IsDead
    <2> QED
      BY <2>1, SuspicionStep
  <1> QED
    BY <1>1, <1>2, <1>3, IdentityInvariant, PTL DEF Spec, OnlySelfSuspicion

=============================================================================
