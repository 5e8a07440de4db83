---------------------------- MODULE MCMembership ----------------------------
(***************************************************************************)
(* update_member by itself: one entry of a table, and every report that    *)
(* could be made about it, merged in every order and any number of times.  *)
(***************************************************************************)
EXTENDS Membership, FiniteSets, FiniteSetsExt

CONSTANTS
    n,               \* the node reported about
    MaxIncarnation,  \* bound: incarnations a report may carry
    MaxHeartbeat     \* bound: heartbeats a report may carry

ASSUME ReportAssumption ==
    n \in Node /\ MaxIncarnation \in Nat /\ MaxHeartbeat \in Nat

VARIABLES
    entry,     \* the entry for n, None before the first report
    seen,      \* the reports merged so far
    returned   \* what the last update_member returned

vars == <<entry, seen, returned>>

\* The reports that can be made about n.
Report ==
    [info: [node_id: {n}, url: Addr, incarnation: 0..MaxIncarnation],
     status: MemberStatus, heartbeat: 0..MaxHeartbeat]

Init ==
    /\ entry = None
    /\ seen = {}
    /\ returned = FALSE

Update(report) ==
    /\ entry' = Merge(entry, report)
    /\ seen' = seen \cup {report}
    /\ returned' = UpdateReturns(entry, report)

Next == \E report \in Report : Update(report)

Spec == Init /\ [][Next]_vars

-----------------------------------------------------------------------------
\* The newest incarnation reported.
NewestIncarnation == Max({r.info.incarnation : r \in seen})

\* The order in which reports arrive does not matter for the incarnation and
\* the heartbeat a node ends up with: the newest incarnation reported, and
\* the latest heartbeat reported for it (update_member's merge rules).
EntryIsFreshest ==
    seen # {} =>
        LET newest == {r \in seen : r.info.incarnation = NewestIncarnation}
        IN  /\ entry.info.incarnation = NewestIncarnation
            /\ entry.heartbeat = Max({r.heartbeat : r \in newest})
            /\ \E r \in newest : r.status = entry.status

\* update_member returns TRUE exactly when it changed the map ("Returns
\* `true` if the membership map was modified").
ReturnsWhetherModified == [][returned' <=> entry' # entry]_vars

\* "This avoids flipping status based on stale reports": within one
\* incarnation, a report with an older heartbeat leaves the status alone.
StaleReportKeepsStatus ==
    [][\A r \in Report :
          /\ entry # None
          /\ Update(r)
          /\ r.info.incarnation = entry.info.incarnation
          /\ r.heartbeat < entry.heartbeat
          => entry'.status = entry.status]_vars
=============================================================================
