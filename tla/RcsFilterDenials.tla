-------------------------- MODULE RcsFilterDenials --------------------------
(***************************************************************************)
(* A rejection stands for the rest of its lifecycle: the rows of an answer  *)
(* are ranked so that a rejecting one is the verdict applied, the verdict   *)
(* leads to a tombstone, and no step leads out of a tombstone but the       *)
(* removal of the entry and the insertion of a new lifecycle.               *)
(***************************************************************************)
EXTENDS RcsFilterSteps

\* The answer about to be applied: a hash with a rejecting row has a rejection
\* as its verdict.
QueryDenials == \A t \in Tx : t \in query.denials => query.verdicts[t] \in Rejections

DenialInv == DenialStands /\ QueryDenials

Settled == Terminal \cup {"Absent"}

\* apply_query_status with a rejection of the entry's own lifecycle.
LEMMA RejectionSettles ==
  ASSUME NEW e \in BufferEntry, NEW status \in Rejections
  PROVE  ApplyQueryStatus(e, e.generation, status).status \in Settled
  <1> DEFINE f == ApplyQueryStatus(e, e.generation, status)
  <1>1. CASE ~Present(e) \/ IsTerminal(e)
    <2>1. f = e
      BY <1>1 DEF ApplyQueryStatus
    <2> QED
      BY <1>1, <2>1 DEF Present, IsTerminal, Settled
  <1>2. CASE Present(e) /\ ~IsTerminal(e) /\ Expired(e)
    <2>1. f = ResolveTotalTimeout(e)
      BY <1>2 DEF ApplyQueryStatus
    <2>2. e.onTimeout \in {"Allow", "Deny"}
      BY DEF BufferEntry, TimeoutActions
    <2> QED
      BY <1>2, <2>1, <2>2, ResolveKeeps DEF Settled, Terminal
  <1>3. CASE Present(e) /\ ~IsTerminal(e) /\ ~Expired(e)
    <2>1. f = Transition(e, "Dropped")
      BY <1>3 DEF ApplyQueryStatus, Rejections
    <2>2. "Dropped" \in BufferStatus
      BY DEF BufferStatus, Terminal
    <2> QED
      BY <1>3, <2>1, <2>2, TransitionKeeps DEF Settled, Terminal
  <1> QED
    BY <1>1, <1>2, <1>3

\* No move leads out of a tombstone but the removal of the entry.
LEMMA SettledStays ==
  ASSUME NEW e \in BufferEntry, NEW f, NEW included, EntryMove(e, f, included),
         e.status \in Settled
  PROVE  f.status \in Settled
  <1>1. ~Expired(e)
    BY DEF Settled, Terminal, Expired, Retryable
  <1>2. \A s : <<e.status, s>> \notin LiveMoves
    BY DEF Settled, Terminal, LiveMoves, Retryable
  <1> QED
    BY <1>1, <1>2 DEF EntryMove, NoEntry, Settled

\* The rows of an answer: a rejection among them is the one that counts.
LEMMA RejectionRanksFirst ==
  ASSUME NEW statuses, statuses \cap Rejections # {}
  PROVE  Relevant(statuses) \in Rejections
  <1>1. \E s \in statuses : s \in Rejections
    OBVIOUS
  <1>2. (CHOOSE s \in statuses : s \in Rejections) \in Rejections
    BY <1>1
  <1> QED
    BY <1>2 DEF Relevant

\* Only the application of a rejecting answer puts a denial on record.
LEMMA DenialSource ==
  ASSUME IInv, [Next]_vars, NEW t \in Tx, "denied" \in evidence'[t]
  PROVE  "denied" \in evidence[t] \/ (QueryApply /\ Denied(t))
  <1>0. evidence \in [Tx -> SUBSET {"approved", "rejected", "mismatch", "included", "denied"}]
    BY DEF IInv, TypeOK
  <1>a. ASSUME UNCHANGED evidence PROVE "denied" \in evidence[t]
    BY <1>a
  <1>1. CASE Screening
    <2> PICK b \in Builders :
        \/ \E u \in Tx, l \in Logs, h \in Heights : PreScreen(b, u, l, h)
        \/ Lookup(b) \/ EvaluateFresh(b) \/ Recheck(b) \/ InsertAudit(b)
        \/ ScreenApproved(b) \/ ScreenTimedOutAllow(b) \/ ScreenWithheld(b) \/ CommitTx(b)
      BY <1>1 DEF Screening
    <2>1. CASE InsertAudit(b)
      <3>1. evidence' = evidence \/ evidence' = [evidence EXCEPT ![builder[b].tx] = {}]
        BY Zenon, <2>1 DEF InsertAudit
      <3> QED
        BY <1>0, <3>1
    <2>2. CASE ScreenApproved(b)
      <3>1. \/ evidence' = [evidence EXCEPT ![builder[b].tx] = @]
            \/ evidence' = [evidence EXCEPT ![builder[b].tx] = @ \cup {"mismatch"}]
        BY <2>2 DEF ScreenApproved
      <3> QED
        BY <1>0, <3>1
    <2>3. CASE ~InsertAudit(b) /\ ~ScreenApproved(b)
      BY Zenon, <1>a, <2>3
      DEF PreScreen, Lookup, EvaluateFresh, Recheck, ScreenTimedOutAllow, ScreenWithheld, CommitTx
    <2> QED
      BY <2>1, <2>2, <2>3
  <1>2. CASE Submitting
    BY Zenon, <1>a, <1>2
    DEF Submitting, SubmitOnce, SubmitRestart, SubmitGroup, RcsReceive, SubmitResponse, SubmitError
  <1>3. CASE Querying
    <2>1. CASE \E rows \in SUBSET (Tx \X RowStatuses) : QueryReply(rows)
      <3>1. PICK verdict : evidence'[t] = Learn(t, verdict)
        BY <2>1 DEF QueryReply
      <3> QED
        BY <3>1 DEF Learn
    <2>2. CASE QueryApply
      <3>1. evidence'[t] = evidence[t] \cup (IF Denied(t) THEN {"denied"} ELSE {})
        BY Zenon, <2>2 DEF QueryApply
      <3> QED
        BY <2>2, <3>1
    <2>3. CASE QueryStart \/ QueryError \/ QueryRestart
      BY Zenon, <1>a, <2>3 DEF QueryStart, QueryError, QueryRestart
    <2> QED
      BY Zenon, <1>3, <2>1, <2>2, <2>3 DEF Querying
  <1>4. CASE Upkeep
    <2>1. CASE \E hashes \in SUBSET Tx : CanonicalCommitted(hashes)
      <3>1. evidence'[t] = evidence[t] \/ evidence'[t] = evidence[t] \cup {"included"}
        BY <2>1 DEF CanonicalCommitted
      <3> QED
        BY <3>1
    <2>2. CASE ~\E hashes \in SUBSET Tx : CanonicalCommitted(hashes)
      BY Zenon, <1>a, <1>4, <2>2
      DEF Upkeep, TimeoutOnce, Tick, InstallRules, CanonicalLagged, ReconcileSnapshot, ReconcileOne
    <2> QED
      BY <2>1, <2>2
  <1>5. CASE UNCHANGED vars
    BY <1>a, <1>5 DEF vars
  <1> QED
    BY <1>1, <1>2, <1>3, <1>4, <1>5 DEF Next

\* The verdicts of the answer in hand.
LEMMA QueryDenialsStep ==
  ASSUME IInv, QueryDenials, [Next]_vars
  PROVE  QueryDenials'
  <1>a. ASSUME UNCHANGED query PROVE QueryDenials'
    BY <1>a DEF QueryDenials
  <1>b. ASSUME query'.denials = {} PROVE QueryDenials'
    BY <1>b DEF QueryDenials
  <1>0. query \in QueryRecords /\ QueryIdle.denials = {}
    BY DEF IInv, TypeOK, QueryIdle
  <1>1. CASE Screening
    BY Zenon, <1>a, <1>1
    DEF Screening, PreScreen, Lookup, EvaluateFresh, Recheck, InsertAudit, ScreenApproved,
        ScreenTimedOutAllow, ScreenWithheld, CommitTx
  <1>2. CASE Submitting
    BY Zenon, <1>a, <1>2
    DEF Submitting, SubmitOnce, SubmitRestart, SubmitGroup, RcsReceive, SubmitResponse, SubmitError
  <1>3. CASE Querying
    <2>1. CASE QueryStart
      <3>1. \/ query' = QueryIdle
            \/ \E expected : query' = [QueryIdle EXCEPT !.pc = "ask", !.expected = expected]
        BY Zenon, <2>1 DEF QueryStart
      <3>2. \A expected : [QueryIdle EXCEPT !.pc = "ask", !.expected = expected].denials = {}
        BY DEF QueryIdle
      <3> QED
        BY <1>0, <1>b, <3>1, <3>2
    <2>2. ASSUME NEW rows \in SUBSET (Tx \X RowStatuses), QueryReply(rows)
          PROVE  QueryDenials'
      <3> DEFINE statusesOf(t) == {r \in RowStatuses : <<t, r>> \in rows}
                 verdicts == [t \in Tx |->
                    IF query.expected[t] = 0 THEN "none" ELSE Relevant(statusesOf(t))]
                 denials == {t \in Tx : /\ query.expected[t] # 0
                                        /\ statusesOf(t) \cap Rejections # {}}
      <3>1. query' = [query EXCEPT !.pc = "apply", !.verdicts = verdicts, !.denials = denials]
        BY Zenon, <2>2 DEF QueryReply
      <3>2. \A t \in Tx : t \in denials => verdicts[t] \in Rejections
        <4> SUFFICES ASSUME NEW t \in Tx, query.expected[t] # 0,
                            statusesOf(t) \cap Rejections # {}
                     PROVE  verdicts[t] \in Rejections
          BY Zenon
        <4>1. Relevant(statusesOf(t)) \in Rejections
          BY Zenon, RejectionRanksFirst
        <4> QED
          BY Zenon, <4>1
      <3> HIDE DEF verdicts, denials
      <3>3. query'.verdicts = verdicts /\ query'.denials = denials
        BY <1>0, <3>1 DEF QueryRecords
      <3> QED
        BY <3>2, <3>3 DEF QueryDenials
    <2>3. CASE QueryApply \/ QueryError
      <3>1. query' = NextRound
        BY Zenon, <2>3 DEF QueryApply, QueryError
      <3>2. NextRound.denials = {}
        BY <1>0 DEF NextRound, QueryRecords
      <3> QED
        BY <1>b, <3>1, <3>2
    <2>4. CASE QueryRestart
      BY <1>0, <1>b, <2>4 DEF QueryRestart
    <2> QED
      BY Zenon, <1>3, <2>1, <2>2, <2>3, <2>4 DEF Querying
  <1>4. CASE Upkeep
    BY Zenon, <1>a, <1>4
    DEF Upkeep, TimeoutOnce, Tick, InstallRules, CanonicalCommitted, CanonicalLagged,
        ReconcileSnapshot, ReconcileOne
  <1>5. CASE UNCHANGED vars
    BY <1>a, <1>5 DEF vars
  <1> QED
    BY <1>1, <1>2, <1>3, <1>4, <1>5 DEF Next

\* A rejection that an applied answer carried for a lifecycle is never undone
\* (query_once, apply_query_status).
THEOREM DenialsStand == Spec => []DenialStands
  <1>1. Init => DenialInv
    BY DEF Init, DenialInv, DenialStands, QueryDenials, QueryIdle
  <1>2. ASSUME IInv, DenialInv, [Next]_vars PROVE DenialInv'
    <2>0. QueryDenials'
      BY <1>2, QueryDenialsStep DEF DenialInv
    <2>1. ASSUME NEW t \in Tx, "denied" \in evidence'[t]
          PROVE  pool'[t].status \in Settled
      <3>0. pool[t] \in BufferEntry
        BY <1>2 DEF IInv, TypeOK
      <3>1. CASE "denied" \in evidence[t]
        <4>1. pool[t].status \in Settled
          BY <1>2, <3>1 DEF DenialInv, DenialStands, Settled
        <4>2. CASE Moved
          BY <3>0, <4>1, <4>2, SettledStays DEF Moved
        <4>3. ASSUME NEW u \in Tx, Inserted(u) PROVE pool'[t].status \in Settled
          <5>1. evidence' = [evidence EXCEPT ![u] = {}] /\ \A v \in Tx \ {u} : pool'[v] = pool[v]
            BY <4>3 DEF Inserted
          <5>2. t # u
            BY <1>2, <2>1, <5>1 DEF IInv, TypeOK
          <5> QED
            BY <4>1, <5>1, <5>2
        <4> QED
          BY <1>2, <4>2, <4>3, StepCases
      <3>2. CASE QueryApply /\ Denied(t)
        <4>1. t \in query.denials /\ query.expected[t] = pool[t].generation
          BY <3>2 DEF Denied
        <4>2. query.verdicts[t] \in Rejections
          BY <1>2, <4>1 DEF DenialInv, QueryDenials
        <4>3. pool'[t] = ApplyQueryStatus(pool[t], pool[t].generation, query.verdicts[t])
          BY <3>2, <4>1, <4>2 DEF QueryApply, Rejections
        <4> QED
          BY <3>0, <4>2, <4>3, RejectionSettles
      <3> QED
        BY <1>2, <2>1, <3>1, <3>2, DenialSource
    <2> QED
      BY <2>0, <2>1 DEF DenialInv, DenialStands, Settled
  <1>3. DenialInv => DenialStands
    BY DEF DenialInv
  <1> QED
    BY <1>1, <1>2, <1>3, Inductive, PTL DEF Spec
=============================================================================
