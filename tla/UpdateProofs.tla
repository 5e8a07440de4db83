---------------------------- MODULE UpdateProofs ----------------------------
(***************************************************************************)
(* update_member, for every number of incarnations, heartbeats and         *)
(* addresses, and however often and in whatever order reports arrive.      *)
(***************************************************************************)
EXTENDS MCMembership, MembershipProofs

\* The reports of the entry's own incarnation.
Current == {r \in seen : r.info.incarnation = entry.info.incarnation}

(***************************************************************************)
(* The inductive invariant: the entry against the reports merged so far,   *)
(* without maxima.  Nothing reported is newer than the entry, nothing of   *)
(* its incarnation is later, and each of the three has been reported.      *)
(***************************************************************************)
MergedInv ==
    /\ seen \in SUBSET Report
    /\ seen = {} <=> entry = None
    /\ seen # {} =>
          /\ entry \in Report
          /\ \A r \in seen : r.info.incarnation <= entry.info.incarnation
          /\ \A r \in Current : r.heartbeat <= entry.heartbeat
          /\ \E r \in Current : r.heartbeat = entry.heartbeat
          /\ \E r \in Current : r.status = entry.status

\* A report is a member state, and its fields are what update_member compares.
LEMMA ReportFields ==
    ASSUME NEW r \in Report
    PROVE  /\ r \in MemberState /\ r # None
           /\ r.info.node_id = n
           /\ r.info.incarnation \in Nat /\ r.heartbeat \in Nat
           /\ r.status \in MemberStatus
  <1>1. /\ r.info.incarnation \in Nat /\ r.heartbeat \in Nat
        /\ r.info \in NodeInfo /\ r.status \in MemberStatus /\ r.info.node_id = n
    BY ReportAssumption DEF Report, NodeInfo
  <1>2. r \in MemberState
    BY <1>1 DEF Report, MemberState
  <1> QED
    BY <1>1, <1>2, NoneAssumption

\* A tie of incarnations is resolved field by field: the status is one of the
\* two, and the heartbeat is the later one.
LEMMA MergeTie ==
    ASSUME NEW e \in Report, NEW r \in Report,
           e.info.incarnation = r.info.incarnation
    PROVE  /\ Merge(e, r) \in Report
           /\ Merge(e, r).info = e.info
           /\ Merge(e, r).status = MergeStatus(e, r)
           /\ MergeStatus(e, r) \in {e.status, r.status}
           /\ Merge(e, r).heartbeat = Later(e.heartbeat, r.heartbeat)
           /\ \/ Later(e.heartbeat, r.heartbeat) = e.heartbeat
                    /\ r.heartbeat <= e.heartbeat
              \/ Later(e.heartbeat, r.heartbeat) = r.heartbeat
                    /\ e.heartbeat <= r.heartbeat
  <1>1. /\ e # None
        /\ e.info.incarnation \in Nat /\ e.heartbeat \in Nat /\ r.heartbeat \in Nat
    BY ReportFields
  <1>2. Merge(e, r) = MergeSameIncarnation(e, r)
    BY <1>1 DEF Merge
  <1>3. MergeStatus(e, r) \in {e.status, r.status}
    BY DEF MergeStatus, DowngradeTo
  <1>4. \/ Later(e.heartbeat, r.heartbeat) = e.heartbeat /\ r.heartbeat <= e.heartbeat
        \/ Later(e.heartbeat, r.heartbeat) = r.heartbeat /\ e.heartbeat <= r.heartbeat
    BY <1>1 DEF Later
  <1>5. MergeSameIncarnation(e, r) \in Report
    BY <1>3, <1>4 DEF MergeSameIncarnation, Report
  <1> QED
    BY <1>2, <1>3, <1>4, <1>5 DEF MergeSameIncarnation

\* Merging one more report, be it new, old or a repetition, keeps the entry
\* the freshest there is.
LEMMA MergedStep ==
    ASSUME MergedInv, [Next]_vars
    PROVE  MergedInv'
  <1>1. CASE UNCHANGED vars
    BY <1>1 DEF vars, MergedInv, Current
  <1>2. ASSUME NEW report \in Report, Update(report)
        PROVE  MergedInv'
    <2>1. /\ entry' = Merge(entry, report) /\ seen' = seen \cup {report}
          /\ report # None /\ report.info.incarnation \in Nat
          /\ report.heartbeat \in Nat
      BY <1>2, ReportFields DEF Update
    <2>2. seen' \in SUBSET Report /\ seen' # {}
      BY <2>1 DEF MergedInv
    <2>3. \A r \in seen : r.info.incarnation \in Nat /\ r.heartbeat \in Nat
      BY ReportFields DEF MergedInv
    <2>4. CASE entry = None
      <3>1. entry' = report /\ seen' = {report}
        BY <2>1, <2>4 DEF Merge, MergedInv
      <3> QED
        BY <2>1, <2>2, <3>1 DEF MergedInv, Current
    <2>5. CASE entry # None
      <3>1. /\ entry \in Report /\ seen # {}
            /\ \A r \in seen : r.info.incarnation <= entry.info.incarnation
            /\ \A r \in Current : r.heartbeat <= entry.heartbeat
            /\ \E r \in Current : r.heartbeat = entry.heartbeat
            /\ \E r \in Current : r.status = entry.status
        BY <2>5 DEF MergedInv
      <3>2. entry.info.incarnation \in Nat /\ entry.heartbeat \in Nat
        BY <3>1, ReportFields
      <3>3. CASE entry.info.incarnation < report.info.incarnation
        <4>1. entry' = report
          BY <2>1, <2>5, <3>3 DEF Merge
        <4>2. Current' = {report}
          BY <2>1, <2>3, <3>1, <3>2, <3>3, <4>1 DEF Current
        <4>3. \A r \in seen' : r.info.incarnation <= entry'.info.incarnation
          BY <2>1, <2>3, <3>1, <3>2, <3>3, <4>1
        <4> QED
          BY <2>1, <2>2, <4>1, <4>2, <4>3 DEF MergedInv
      <3>4. CASE entry.info.incarnation > report.info.incarnation
        <4>1. entry' = entry
          BY <2>1, <2>5, <3>2, <3>4 DEF Merge
        <4>2. Current' = Current
          BY <2>1, <3>2, <3>4, <4>1 DEF Current
        <4>3. \A r \in seen' : r.info.incarnation <= entry'.info.incarnation
          BY <2>1, <3>1, <3>2, <3>4, <4>1
        <4> QED
          BY <2>2, <2>5, <3>1, <4>1, <4>2, <4>3 DEF MergedInv
      <3>5. CASE entry.info.incarnation = report.info.incarnation
        <4>1. /\ entry' \in Report /\ entry'.info = entry.info
              /\ entry'.status \in {entry.status, report.status}
              /\ \/ entry'.heartbeat = entry.heartbeat
                       /\ report.heartbeat <= entry.heartbeat
                 \/ entry'.heartbeat = report.heartbeat
                       /\ entry.heartbeat <= report.heartbeat
          BY <2>1, <3>1, <3>5, MergeTie
        <4>2. Current' = Current \cup {report}
          BY <2>1, <3>5, <4>1 DEF Current
        <4>3. \A r \in seen' : r.info.incarnation <= entry'.info.incarnation
          BY <2>1, <3>1, <3>5, <4>1
        <4>4. \A r \in Current' : r.heartbeat <= entry'.heartbeat
          <5>1. \A r \in Current : r.heartbeat \in Nat
            BY <2>3 DEF Current
          <5> QED
            BY <2>1, <3>1, <3>2, <4>1, <4>2, <5>1
        <4>5. \E r \in Current' : r.heartbeat = entry'.heartbeat
          BY <3>1, <4>1, <4>2
        <4>6. \E r \in Current' : r.status = entry'.status
          BY <3>1, <4>1, <4>2
        <4>7. entry' # None
          BY <4>1, ReportFields
        <4> QED
          BY <2>2, <4>1, <4>3, <4>4, <4>5, <4>6, <4>7 DEF MergedInv
      <3> QED
        BY <2>1, <3>2, <3>3, <3>4, <3>5
    <2> QED
      BY <2>4, <2>5
  <1> QED
    BY <1>1, <1>2 DEF Next

\* The entry is no older than any report and is made of reported parts.
THEOREM MergedInvariant == Spec => []MergedInv
  <1>1. Init => MergedInv
    BY DEF Init, MergedInv
  <1> QED
    BY <1>1, MergedStep, PTL DEF Spec

\* The largest of a set of numbers is the member that bounds it.
LEMMA MaxIs ==
    ASSUME NEW numbers \in SUBSET Nat, NEW m \in numbers, \A k \in numbers : k <= m
    PROVE  Max(numbers) = m
  <1>1. \A k \in numbers : m >= k
    OBVIOUS
  <1>2. Max(numbers) \in numbers /\ \A k \in numbers : Max(numbers) >= k
    BY <1>1 DEF Max
  <1>3. m \in Nat /\ Max(numbers) \in Nat
    BY <1>2
  <1>4. m >= Max(numbers) /\ Max(numbers) >= m
    BY <1>1, <1>2
  <1> QED
    BY <1>3, <1>4

\* However reports are ordered and repeated, a node ends up with the newest
\* incarnation reported and with the latest heartbeat reported for it.
THEOREM Freshest == Spec => []EntryIsFreshest
  <1>1. ASSUME MergedInv, seen # {}
        PROVE  LET newest == {r \in seen : r.info.incarnation = NewestIncarnation}
               IN  /\ entry.info.incarnation = NewestIncarnation
                   /\ entry.heartbeat = Max({r.heartbeat : r \in newest})
                   /\ \E r \in newest : r.status = entry.status
    <2>1. /\ \A r \in seen : r.info.incarnation <= entry.info.incarnation
          /\ \A r \in Current : r.heartbeat <= entry.heartbeat
          /\ \E r \in Current : r.heartbeat = entry.heartbeat
          /\ \E r \in Current : r.status = entry.status
      BY <1>1 DEF MergedInv
    <2>2. \A r \in seen : r.info.incarnation \in Nat /\ r.heartbeat \in Nat
      BY <1>1, ReportFields DEF MergedInv
    <2>3. NewestIncarnation = entry.info.incarnation
      <3> DEFINE incs == {r.info.incarnation : r \in seen}
      <3>1. incs \in SUBSET Nat /\ entry.info.incarnation \in incs
        BY <2>1, <2>2 DEF Current
      <3>2. \A k \in incs : k <= entry.info.incarnation
        BY <2>1
      <3> HIDE DEF incs
      <3>3. Max(incs) = entry.info.incarnation
        BY <3>1, <3>2, MaxIs
      <3> QED
        BY <3>3 DEF NewestIncarnation, incs
    <2>4. {r \in seen : r.info.incarnation = NewestIncarnation} = Current
      BY <2>3 DEF Current
    <2>5. Max({r.heartbeat : r \in Current}) = entry.heartbeat
      <3> DEFINE beats == {r.heartbeat : r \in Current}
      <3>1. beats \in SUBSET Nat /\ entry.heartbeat \in beats
        BY <2>1, <2>2 DEF Current
      <3>2. \A k \in beats : k <= entry.heartbeat
        BY <2>1
      <3> HIDE DEF beats
      <3>3. Max(beats) = entry.heartbeat
        BY <3>1, <3>2, MaxIs
      <3> QED
        BY <3>3 DEF beats
    <2> QED
      BY <2>1, <2>3, <2>4, <2>5
  <1>2. MergedInv => EntryIsFreshest
    BY <1>1 DEF EntryIsFreshest
  <1> QED
    BY <1>2, MergedInvariant, PTL

\* The Boolean of update_member is right: it is TRUE exactly when the map has
\* changed, a newer heartbeat alone included.
THEOREM ReturnIsRight == Spec => ReturnsWhetherModified
  <1>1. ASSUME MergedInv, NEW report \in Report, Update(report)
        PROVE  returned' <=> entry' # entry
    <2>1. /\ entry' = Merge(entry, report)
          /\ returned' = UpdateReturns(entry, report)
          /\ report # None /\ report.info.incarnation \in Nat
      BY <1>1, ReportFields DEF Update
    <2>2. CASE entry = None
      BY <2>1, <2>2 DEF Merge, UpdateReturns
    <2>3. CASE entry # None
      <3>1. entry \in Report /\ entry.info.incarnation \in Nat
        BY <1>1, <2>3, ReportFields DEF MergedInv
      <3>2. CASE entry.info.incarnation < report.info.incarnation
        BY <2>1, <2>3, <3>1, <3>2 DEF Merge, UpdateReturns
      <3>3. CASE entry.info.incarnation > report.info.incarnation
        BY <2>1, <2>3, <3>1, <3>3 DEF Merge, UpdateReturns
      <3>4. CASE entry.info.incarnation = report.info.incarnation
        <4>1. /\ entry' \in Report /\ entry'.info = entry.info
              /\ entry'.status = MergeStatus(entry, report)
              /\ entry'.heartbeat = Later(entry.heartbeat, report.heartbeat)
          BY <2>1, <3>1, <3>4, MergeTie
        <4>2. entry' = entry <=> /\ entry'.status = entry.status
                                 /\ entry'.heartbeat = entry.heartbeat
          BY <3>1, <4>1 DEF Report
        <4>3. UpdateReturns(entry, report) <=>
                 \/ MergeStatus(entry, report) # entry.status
                 \/ Later(entry.heartbeat, report.heartbeat) # entry.heartbeat
          BY <2>3, <3>1, <3>4 DEF UpdateReturns
        <4> QED
          BY <2>1, <4>1, <4>2, <4>3
      <3> QED
        BY <2>1, <3>1, <3>2, <3>3, <3>4
    <2> QED
      BY <2>2, <2>3
  <1>2. MergedInv /\ [Next]_vars => [returned' <=> entry' # entry]_vars
    BY <1>1 DEF Next
  <1> QED
    BY <1>2, MergedInvariant, PTL DEF Spec, ReturnsWhetherModified

=============================================================================
