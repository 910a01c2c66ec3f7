--------------------------- MODULE RcsFilterSteps ---------------------------
(***************************************************************************)
(* What a single step of RcsFilter may do to an entry, and what follows: the*)
(* action properties, and that the filter implements AuditDecision.         *)
(***************************************************************************)
EXTENDS RcsFilterSafety

\* The status the deadline gives an entry.
Fallback(e) == IF e.onTimeout = "Allow" THEN "TimedOutAllow" ELSE "Dropped"

\* The moves of an entry whose retry window is open.
LiveMoves ==
    {<<"NotSubmitted", "Submitted">>, <<"Submitted", "Pending">>,
     <<"Submitted", "NotSubmitted">>, <<"Pending", "NotSubmitted">>,
     <<"Submitted", "Approved">>, <<"Pending", "Approved">>}
        \cup {<<s, "Dropped">> : s \in Retryable \cup {"Approved"}}

\* What any step but an insertion makes of an entry.
EntryMove(e, f, included) ==
    \/ f.generation = e.generation /\ f.status = e.status
    \/ f.generation = e.generation /\ Expired(e) /\ f.status = Fallback(e)
    \/ f.generation = e.generation /\ ~Expired(e) /\ <<e.status, f.status>> \in LiveMoves
    \/ /\ f = NoEntry
       /\ e.status = "Dropped" => e.sinceLast > TerminalEntryRetention \/ included

\* The deadline.
LEMMA ResolveMove ==
  ASSUME NEW e \in BufferEntry, NEW included
  PROVE  EntryMove(e, ResolveTotalTimeout(e), included)
  <1>1. e.onTimeout \in {"Allow", "Deny"}
    BY DEF BufferEntry, TimeoutActions
  <1> QED
    BY <1>1, ResolveKeeps DEF EntryMove, Fallback, SameLifecycle

\* A status change of an entry that has not expired.
LEMMA TransitionMove ==
  ASSUME NEW e \in BufferEntry, NEW s, NEW included, ~Expired(e), <<e.status, s>> \in LiveMoves
  PROVE  EntryMove(e, Transition(e, s), included)
  <1>1. s \in BufferStatus /\ Present(e)
    BY DEF LiveMoves, BufferStatus, Retryable, Terminal, Present
  <1> QED
    BY <1>1, TransitionKeeps DEF EntryMove, SameLifecycle

\* apply_submit_response.
LEMMA SubmitResponseMove ==
  ASSUME NEW e \in BufferEntry, NEW g, NEW accepted \in BOOLEAN, NEW included
  PROVE  EntryMove(e, ApplySubmitResponse(e, g, accepted), included)
  <1> DEFINE f == ApplySubmitResponse(e, g, accepted)
  <1>1. CASE f = e
    BY <1>1 DEF EntryMove
  <1>2. CASE f = ResolveTotalTimeout(e)
    BY <1>2, ResolveMove
  <1>3. CASE ~Expired(e) /\ e.status = "NotSubmitted" /\ f = Transition(e, "Submitted")
    <2>1. <<e.status, "Submitted">> \in LiveMoves
      BY <1>3 DEF LiveMoves
    <2> QED
      BY <1>3, <2>1, TransitionMove
  <1> QED
    BY <1>1, <1>2, <1>3, SubmitResponseCases

\* apply_query_status.
LEMMA QueryStatusMove ==
  ASSUME NEW e \in BufferEntry, NEW g, NEW status, NEW included
  PROVE  EntryMove(e, ApplyQueryStatus(e, g, status), included)
  <1> DEFINE f == ApplyQueryStatus(e, g, status)
  <1>1. CASE f = e
    BY <1>1 DEF EntryMove
  <1>2. CASE f = ResolveTotalTimeout(e)
    BY <1>2, ResolveMove
  <1>3. CASE ~Expired(e) /\ e.status = "Submitted" /\ f = Transition(e, "Pending")
    <2>1. <<e.status, "Pending">> \in LiveMoves
      BY <1>3 DEF LiveMoves
    <2> QED
      BY <1>3, <2>1, TransitionMove
  <1>4. CASE ~Expired(e) /\ e.status \in {"Submitted", "Pending"} /\ f = Transition(e, "Approved")
    <2>1. <<e.status, "Approved">> \in LiveMoves
      BY <1>4 DEF LiveMoves
    <2> QED
      BY <1>4, <2>1, TransitionMove
  <1>5. CASE ~Expired(e) /\ Present(e) /\ ~IsTerminal(e) /\ f = Transition(e, "Dropped")
    <2>1. e.status \in Retryable \cup {"Approved"}
      BY <1>5 DEF Present, IsTerminal, BufferEntry, BufferStatus
    <2>2. <<e.status, "Dropped">> \in LiveMoves
      BY <2>1 DEF LiveMoves
    <2> QED
      BY <1>5, <2>2, TransitionMove
  <1> QED
    BY <1>1, <1>2, <1>3, <1>4, <1>5, QueryStatusCases

\* finish_consistency_check.
LEMMA ConsistencyMove ==
  ASSUME NEW e \in BufferEntry, NEW g, NEW consistent \in BOOLEAN, NEW included
  PROVE  EntryMove(e, FinishConsistencyCheck(e, g, consistent), included)
  <1> DEFINE f == FinishConsistencyCheck(e, g, consistent)
  <1>1. CASE f = e
    BY <1>1 DEF EntryMove
  <1>2. CASE e.status = "Approved" /\ f = Transition(e, "Dropped")
    <2>1. <<e.status, "Dropped">> \in LiveMoves /\ ~Expired(e)
      BY <1>2 DEF LiveMoves, Expired, Retryable
    <2> QED
      BY <1>2, <2>1, TransitionMove
  <1> QED
    BY <1>1, <1>2 DEF FinishConsistencyCheck, Matches

\* timeout_once.
LEMMA TimeoutMove ==
  ASSUME NEW e \in BufferEntry, NEW included
  PROVE  EntryMove(e, PruneTerminal(CheckTimeouts(e)), included)
  <1> DEFINE f == CheckTimeouts(e)
  <1>1. EntryMove(e, f, included)
    <2>1. CASE f = e
      BY <2>1 DEF EntryMove
    <2>2. CASE f = ResolveTotalTimeout(e)
      BY <2>2, ResolveMove
    <2>3. CASE ~Expired(e) /\ e.status \in {"Submitted", "Pending"} /\ f = Transition(e, "NotSubmitted")
      <3>1. <<e.status, "NotSubmitted">> \in LiveMoves
        BY <2>3 DEF LiveMoves
      <3> QED
        BY <2>3, <3>1, TransitionMove
    <2> QED
      BY <2>1, <2>2, <2>3, CheckTimeoutsCases
  <1>2. e.status = "Dropped" => f = e
    BY DEF CheckTimeouts, Expired, Retryable
  <1>3. \/ PruneTerminal(f) = f
        \/ PruneTerminal(f) = NoEntry /\ f.sinceLast > TerminalEntryRetention
    BY DEF PruneTerminal
  <1> HIDE DEF f
  <1> QED
    BY <1>1, <1>2, <1>3 DEF EntryMove, f

-----------------------------------------------------------------------------
(* A step of the specification.                                              *)

\* One entry is inserted, with no history, and nothing else changes in the table.
Inserted(u) ==
    /\ ~Present(pool[u]) /\ pool'[u].status = "NotSubmitted"
    /\ nextGeneration < MaxGeneration
    /\ nextGeneration' = nextGeneration + 1 /\ pool'[u].generation = nextGeneration'
    /\ \A t \in Tx \ {u} : pool'[t] = pool[t]
    /\ evidence' = [evidence EXCEPT ![u] = {}]

\* Every entry makes a move, and nothing is inserted.
Moved ==
    /\ nextGeneration' = nextGeneration
    /\ \A t \in Tx : EntryMove(pool[t], pool'[t], "included" \in evidence'[t])

\* The two kinds of step.
LEMMA StepCases ==
  ASSUME IInv, [Next]_vars
  PROVE  Moved \/ \E u \in Tx : Inserted(u)
  <1>0. \A t \in Tx : pool[t] \in BufferEntry
    BY DEF IInv, TypeOK
  <1>a. ASSUME UNCHANGED <<pool, nextGeneration>> PROVE Moved
    BY <1>a DEF Moved, EntryMove
  <1>b. ASSUME pool' = ResolveTotalTimeouts(pool), UNCHANGED nextGeneration PROVE Moved
    BY <1>0, <1>b, ResolveMove DEF Moved, ResolveTotalTimeouts
  <1>1. CASE Screening
    <2> PICK b \in Builders :
        \/ \E t \in Tx, l \in Logs, h \in Heights : PreScreen(b, t, l, h)
        \/ Lookup(b) \/ EvaluateFresh(b) \/ Recheck(b) \/ InsertAudit(b)
        \/ ScreenApproved(b) \/ ScreenTimedOutAllow(b) \/ ScreenWithheld(b) \/ CommitTx(b)
      BY <1>1 DEF Screening
    <2> DEFINE u == builder[b].tx
    <2>1. CASE InsertAudit(b)
      <3>1. CASE Present(pool[u])
        BY <1>a, <2>1, <3>1 DEF InsertAudit
      <3>2. CASE ~Present(pool[u])
        <4> DEFINE e == NewEntry(nextGeneration + 1, builder[b].height, builder[b].rules,
                                 Outcome[builder[b].rules][builder[b].logs])
        <4>1. u \in Tx
          BY <2>1 DEF InsertAudit, IInv, BuilderBusy
        <4>2. e.status = "NotSubmitted" /\ e.generation = nextGeneration + 1
          BY SMTT(30) DEF NewEntry
        <4>3. /\ nextGeneration < MaxGeneration /\ nextGeneration' = nextGeneration + 1
              /\ pool' = [pool EXCEPT ![u] = e] /\ evidence' = [evidence EXCEPT ![u] = {}]
          BY <2>1, <3>2 DEF InsertAudit
        <4> HIDE DEF e
        <4>4. pool'[u] = e /\ \A t \in Tx \ {u} : pool'[t] = pool[t]
          BY <4>1, <4>3 DEF IInv, TypeOK
        <4>5. pool'[u].status = "NotSubmitted" /\ pool'[u].generation = nextGeneration'
          BY <4>2, <4>3, <4>4
        <4>6. Inserted(u)
          BY Zenon, <3>2, <4>3, <4>4, <4>5 DEF Inserted
        <4> QED
          BY <4>1, <4>6
      <3> QED
        BY SMTT(30), <3>1, <3>2
    <2>2. CASE ScreenApproved(b)
      <3> DEFINE f == FinishConsistencyCheck(pool[u], builder[b].seen.generation, Consistent(b))
      <3>1. u \in Tx
        BY <2>2 DEF ScreenApproved, IInv, BuilderBusy
      <3>2. pool' = [pool EXCEPT ![u] = f] /\ UNCHANGED nextGeneration
        BY <2>2 DEF ScreenApproved
      <3>3. Consistent(b) \in BOOLEAN
        BY DEF Consistent
      <3>4. \A included : EntryMove(pool[u], f, included)
        BY <1>0, <3>1, <3>3, ConsistencyMove
      <3> HIDE DEF f
      <3>5. pool'[u] = f /\ \A t \in Tx \ {u} : pool'[t] = pool[t]
        BY <3>1, <3>2 DEF IInv, TypeOK
      <3> SUFFICES ASSUME NEW t \in Tx
                   PROVE  EntryMove(pool[t], pool'[t], "included" \in evidence'[t])
        BY SMTT(30), <3>2 DEF Moved
      <3>6. CASE t = u
        BY <3>4, <3>5, <3>6
      <3>7. CASE t # u
        BY <3>5, <3>7 DEF EntryMove
      <3> QED
        BY <3>6, <3>7
    <2>3. CASE ~InsertAudit(b) /\ ~ScreenApproved(b)
      BY Zenon, <1>a, <2>3
      DEF PreScreen, Lookup, EvaluateFresh, Recheck, ScreenTimedOutAllow, ScreenWithheld, CommitTx
    <2> QED
      BY <2>1, <2>2, <2>3
  <1>2. CASE Submitting
    <2>1. CASE \E h \in Heights : SubmitResponse(h)
      <3> PICK h \in Heights : SubmitResponse(h)
        BY <2>1
      <3>1. UNCHANGED nextGeneration
        BY DEF SubmitResponse
      <3> SUFFICES ASSUME NEW t \in Tx
                   PROVE  EntryMove(pool[t], pool'[t], "included" \in evidence'[t])
        BY <3>1 DEF Moved
      <3>2. \/ pool'[t] = pool[t]
            \/ pool'[t] = ApplySubmitResponse(pool[t], submit[h].batch[t].generation,
                                              t \in submit[h].accepted)
        BY DEF SubmitResponse
      <3>3. (t \in submit[h].accepted) \in BOOLEAN
        OBVIOUS
      <3>4. EntryMove(pool[t], pool[t], "included" \in evidence'[t])
        BY DEF EntryMove
      <3> QED
        BY Zenon, <1>0, <3>2, <3>3, <3>4, SubmitResponseMove
    <2>2. CASE ~\E h \in Heights : SubmitResponse(h)
      BY Zenon, <1>a, <1>b, <1>2, <2>2
      DEF Submitting, SubmitOnce, SubmitRestart, SubmitGroup, RcsReceive, SubmitError
    <2> QED
      BY <2>1, <2>2
  <1>3. CASE Querying
    <2>1. CASE QueryApply
      <3>1. UNCHANGED nextGeneration
        BY <2>1 DEF QueryApply
      <3> SUFFICES ASSUME NEW t \in Tx
                   PROVE  EntryMove(pool[t], pool'[t], "included" \in evidence'[t])
        BY <3>1 DEF Moved
      <3>2. \/ pool'[t] = pool[t]
            \/ pool'[t] = ApplyQueryStatus(pool[t], query.expected[t], query.verdicts[t])
        BY <2>1 DEF QueryApply
      <3>4. EntryMove(pool[t], pool[t], "included" \in evidence'[t])
        BY DEF EntryMove
      <3> QED
        BY <1>0, <3>2, <3>4, QueryStatusMove
    <2>2. CASE ~QueryApply
      BY Zenon, <1>a, <1>b, <1>3, <2>2 DEF Querying, QueryStart, QueryReply, QueryError, QueryRestart
    <2> QED
      BY <2>1, <2>2
  <1>4. CASE Upkeep
    <2>1. CASE TimeoutOnce
      BY <1>0, <2>1, TimeoutMove DEF TimeoutOnce, Moved
    <2>2. CASE Tick
      BY <1>0, <2>2, OlderKeeps DEF Tick, Moved, EntryMove, SameLifecycle
    <2>3. CASE \E r \in Rules : InstallRules(r)
      BY <1>a, <2>3 DEF InstallRules
    <2>4. CASE \E hashes \in SUBSET Tx : CanonicalCommitted(hashes)
      <3>1. UNCHANGED nextGeneration
        BY <2>4 DEF CanonicalCommitted
      <3>2. ASSUME NEW t \in Tx
            PROVE  EntryMove(pool[t], pool'[t], "included" \in evidence'[t])
        BY <2>4 DEF CanonicalCommitted, RemoveCanonical, EntryMove, Present
      <3> QED
        BY <3>1, <3>2 DEF Moved
    <2>5. CASE CanonicalLagged
      BY <2>5 DEF CanonicalLagged, RecoverAfterCanonicalLag, Moved, EntryMove
    <2>6. CASE ReconcileSnapshot
      BY <1>a, <2>6 DEF ReconcileSnapshot
    <2>7. CASE \E u \in Tx, contained \in BOOLEAN : ReconcileOne(u, contained)
      <3>1. UNCHANGED nextGeneration
        BY <2>7 DEF ReconcileOne
      <3>2. ASSUME NEW t \in Tx
            PROVE  EntryMove(pool[t], pool'[t], "included" \in evidence'[t])
        <4>1. \/ pool'[t] = pool[t]
              \/ pool'[t] = NoEntry /\ ~IsTerminal(pool[t])
          BY <2>7 DEF ReconcileOne, RemoveNonTerminalIfGeneration, IInv, TypeOK
        <4> QED
          BY <4>1 DEF EntryMove, IsTerminal, Terminal
      <3> QED
        BY <3>1, <3>2 DEF Moved
    <2> QED
      BY <1>4, <2>1, <2>2, <2>3, <2>4, <2>5, <2>6, <2>7 DEF Upkeep
  <1>5. CASE UNCHANGED vars
    BY <1>a, <1>5 DEF vars
  <1> QED
    BY <1>1, <1>2, <1>3, <1>4, <1>5 DEF Next

-----------------------------------------------------------------------------
(* The action properties.                                                    *)

\* Nothing but the fallback moves an entry whose retry window has run out
\* (apply_submit_response, apply_query_status, check_timeouts).
THEOREM DeadlineIsFinal == Spec => DeadlineWins
  <1>1. ASSUME IInv, [Next]_vars, NEW t \in Tx,
               Expired(pool[t]), pool'[t].status # pool[t].status
        PROVE  pool'[t].status \in
                 {"Absent", IF pool[t].onTimeout = "Allow" THEN "TimedOutAllow" ELSE "Dropped"}
    <2>1. CASE Moved
      <3>1. EntryMove(pool[t], pool'[t], "included" \in evidence'[t])
        BY <2>1 DEF Moved
      <3> QED
        BY <1>1, <3>1 DEF EntryMove, Fallback, NoEntry
    <2>2. CASE \E u \in Tx : Inserted(u)
      BY <1>1, <2>2 DEF Inserted, Present, Expired, Retryable
    <2> QED
      BY <1>1, <2>1, <2>2, StepCases
  <1>2. IInv /\ [Next]_vars =>
          [\A t \in Tx :
             Expired(pool[t]) /\ pool'[t].status # pool[t].status =>
                pool'[t].status \in
                  {"Absent", IF pool[t].onTimeout = "Allow" THEN "TimedOutAllow" ELSE "Dropped"}
          ]_vars
    BY <1>1
  <1> QED
    BY <1>2, Inductive, PTL DEF Spec, DeadlineWins

\* A rejection is forgotten only after its retention or on inclusion
\* (prune_terminal, remove_canonical, recover_after_canonical_lag,
\* remove_non_terminal_if_generation, insert).
THEOREM RejectionsRemembered == Spec => RejectionRemembered
  <1>1. ASSUME IInv, [Next]_vars, NEW t \in Tx,
               pool[t].status = "Dropped", pool'[t].status # "Dropped"
        PROVE  pool[t].sinceLast > TerminalEntryRetention \/ "included" \in evidence'[t]
    <2>1. CASE Moved
      <3>1. EntryMove(pool[t], pool'[t], "included" \in evidence'[t])
        BY <2>1 DEF Moved
      <3>2. ~Expired(pool[t]) /\ <<pool[t].status, pool'[t].status>> \notin LiveMoves
        BY <1>1 DEF Expired, Retryable, LiveMoves
      <3> QED
        BY <1>1, <3>1, <3>2 DEF EntryMove
    <2>2. CASE \E u \in Tx : Inserted(u)
      BY <1>1, <2>2 DEF Inserted, Present
    <2> QED
      BY <1>1, <2>1, <2>2, StepCases
  <1>2. IInv /\ [Next]_vars =>
          [\A t \in Tx :
             pool[t].status = "Dropped" /\ pool'[t].status # "Dropped" =>
                pool[t].sinceLast > TerminalEntryRetention \/ "included" \in evidence'[t]]_vars
    BY <1>1
  <1> QED
    BY <1>2, Inductive, PTL DEF Spec, RejectionRemembered

\* The decision of one thread to package its transaction.
Justified(b) ==
    LET t == builder[b].tx
        e == pool'[t]
        outcome == Outcome[e.rules][builder[b].logs] IN
    builder[b].pc # "commit" /\ builder'[b].pc = "commit" =>
       IF builder[b].pc = "recheck" THEN ~Present(e)
       ELSE \/ /\ e.status = "Approved"
               /\ "approved" \in evidence'[t]
               /\ outcome.kind = "Audit" /\ outcome.quota = e.quota
            \/ e.status = "TimedOutAllow" /\ e.onTimeout = "Allow"

\* screen_tx packages nothing without grounds that hold when it decides.
THEOREM ReleasesJustified == Spec => ReleaseJustified
  <1>1. ASSUME IInv, [Next]_vars, NEW b \in Builders PROVE Justified(b)
    <2> SUFFICES ASSUME builder[b].pc # "commit", builder'[b].pc = "commit" PROVE Justified(b)
      BY Zenon DEF Justified
    <2> DEFINE B == builder[b]
               u == B.tx
    <2>1. Screening
      BY Zenon, <1>1 DEF Next, vars, Submitting, SubmitOnce, SubmitRestart, SubmitGroup, RcsReceive,
         SubmitResponse, SubmitError, Querying, QueryStart, QueryReply, QueryApply, QueryError,
         QueryRestart, Upkeep, TimeoutOnce, Tick, InstallRules, CanonicalCommitted,
         CanonicalLagged, ReconcileSnapshot, ReconcileOne
    <2>2. builder[b] \in BuilderRecords /\ builder \in [Builders -> BuilderRecords]
      BY <1>1 DEF IInv, TypeOK
    <2>3. \/ \E t \in Tx, l \in Logs, h \in Heights : PreScreen(b, t, l, h)
          \/ Lookup(b) \/ EvaluateFresh(b) \/ Recheck(b) \/ InsertAudit(b)
          \/ ScreenApproved(b) \/ ScreenTimedOutAllow(b) \/ ScreenWithheld(b) \/ CommitTx(b)
      <3> PICK c \in Builders :
            \/ \E t \in Tx, l \in Logs, h \in Heights : PreScreen(c, t, l, h)
            \/ Lookup(c) \/ EvaluateFresh(c) \/ Recheck(c) \/ InsertAudit(c)
            \/ ScreenApproved(c) \/ ScreenTimedOutAllow(c) \/ ScreenWithheld(c) \/ CommitTx(c)
        BY <2>1 DEF Screening
      <3>1. \E r : Goto(c, r)
        BY Zenon DEF PreScreen, Lookup, EvaluateFresh, Recheck, InsertAudit,
           ScreenApproved, ScreenTimedOutAllow, ScreenWithheld, CommitTx
      <3>2. c = b
        BY <2>2, <3>1 DEF Goto
      <3> QED
        BY <3>2
    <2>4. Recheck(b) \/ ScreenApproved(b) \/ ScreenTimedOutAllow(b)
      <3>1. \A r : Goto(b, r) => r.pc = "commit"
        BY <2>2 DEF Goto
      <3>2. BuilderIdle.pc # "commit"
        BY TypeFacts
      <3>3. ~Lookup(b)
        <4>1. /\ [B EXCEPT !.pc = "fresh"].pc # "commit"
              /\ \A s : [B EXCEPT !.pc = "existing", !.seen = s].pc # "commit"
          BY <2>2 DEF BuilderRecords
        <4> QED
          BY Zenon, <3>1, <4>1 DEF Lookup
      <3>4. ~EvaluateFresh(b)
        <4>1. /\ [B EXCEPT !.pc = "recheck"].pc # "commit"
              /\ [B EXCEPT !.pc = "insert", !.rules = rules].pc # "commit"
          BY <2>2 DEF BuilderRecords
        <4> QED
          BY Zenon, <3>1, <3>2, <4>1 DEF EvaluateFresh
      <3>5. ASSUME NEW t, NEW l, NEW h PROVE ~PreScreen(b, t, l, h)
        <4> DEFINE r == [BuilderIdle EXCEPT !.pc = "lookup", !.tx = t, !.logs = l, !.height = h]
        <4>1. r.pc # "commit"
          BY TypeFacts DEF BuilderRecords
        <4> QED
          BY Zenon, <3>1, <4>1 DEF PreScreen
      <3>6. ~InsertAudit(b) /\ ~ScreenWithheld(b) /\ ~CommitTx(b)
        BY SMTT(30), <3>1, <3>2 DEF InsertAudit, ScreenWithheld, CommitTx
      <3> QED
        BY <2>3, <3>3, <3>4, <3>5, <3>6
    <2>5. u \in Tx
      BY SMTT(30), <1>1, <2>4 DEF IInv, BuilderBusy, Recheck, ScreenApproved, ScreenTimedOutAllow
    <2>6. \A r : Goto(b, r) => r.pc = "commit"
      BY <2>2 DEF Goto
    <2>7. BuilderIdle.pc # "commit" /\ \A s : [B EXCEPT !.pc = "existing", !.seen = s].pc # "commit"
      BY <2>2, TypeFacts DEF BuilderRecords
    <2>8. CASE Recheck(b)
      BY Zenon, <2>6, <2>7, <2>8 DEF Recheck, Justified
    <2>9. CASE ScreenApproved(b)
      <3> DEFINE g == B.seen.generation
                 f == FinishConsistencyCheck(pool[u], g, Consistent(b))
      <3>1. Matches(f, g, "Approved") /\ Consistent(b) /\ pool' = [pool EXCEPT ![u] = f]
        BY <2>6, <2>7, <2>9 DEF ScreenApproved
      <3>2. f = pool[u]
        BY SMTT(30), <3>1 DEF FinishConsistencyCheck
      <3>3. pool'[u] = pool[u] /\ pool[u].status = "Approved" /\ pool[u].generation = g
        BY Zenon, <1>1, <2>5, <3>1, <3>2 DEF Matches, IInv, TypeOK
      <3>4. BuilderToken(b)
        BY <1>1 DEF IInv, Tokens, BuilderTokens
      <3>5. B.seen.quota = pool[u].quota /\ B.seen.rules = pool[u].rules
        BY SMTT(30), <2>9, <3>3, <3>4 DEF BuilderToken, ScreenApproved, Present
      <3>6. "approved" \in evidence'[u]
        <4>1. IInv'
          BY <1>1, NextInv
        <4> QED
          BY <2>5, <3>3, <4>1 DEF IInv, PoolGrounded, Grounded
      <3>7. LET outcome == Outcome[pool'[u].rules][B.logs] IN
            outcome.kind = "Audit" /\ outcome.quota = pool'[u].quota
        BY Zenon, <3>1, <3>3, <3>5 DEF Consistent
      <3>8. B.pc = "existing"
        BY <2>9 DEF ScreenApproved
      <3> QED
        BY Zenon, <3>3, <3>6, <3>7, <3>8 DEF Justified
    <2>10. CASE ScreenTimedOutAllow(b)
      <3>1. Matches(pool[u], B.seen.generation, "TimedOutAllow") /\ pool' = pool
        BY <2>6, <2>7, <2>10 DEF ScreenTimedOutAllow
      <3>2. pool[u].status = "TimedOutAllow" /\ pool[u].onTimeout = "Allow"
        BY <1>1, <2>5, <3>1 DEF Matches, IInv, PoolGrounded, Grounded
      <3> QED
        BY <2>10, <3>1, <3>2 DEF Justified, ScreenTimedOutAllow
    <2> QED
      BY <2>4, <2>8, <2>9, <2>10
  <1>2. IInv /\ [Next]_vars => [\A b \in Builders : Justified(b)]_vars
    BY <1>1
  <1> QED
    BY <1>2, Inductive, PTL DEF Spec, ReleaseJustified, Justified

-----------------------------------------------------------------------------
(* The filter implements AuditDecision.                                      *)

\* The phase of an entry.
LEMMA PhaseFacts ==
  ASSUME NEW e \in BufferEntry
  PROVE  /\ e.status \in Retryable => PhaseOf(e) = "open"
         /\ e.status = "Approved" => PhaseOf(e) = "approved"
         /\ e.status = "TimedOutAllow" => PhaseOf(e) = "released"
         /\ e.status = "Dropped" => PhaseOf(e) = "rejected"
         /\ ~Present(e) => PhaseOf(e) = "none"
         /\ Present(e) => PhaseOf(e) # "none"
         /\ PhaseOf(e) \in Decision!Phases
  BY DEF PhaseOf, Retryable, Present, BufferEntry, BufferStatus, Terminal, Decision!Phases

\* An entry's move is a move of its lifecycle, or changes nothing.
LEMMA PhaseMove ==
  ASSUME NEW e \in BufferEntry, NEW f \in BufferEntry, NEW included, EntryMove(e, f, included)
  PROVE  \/ PhaseOf(f) = PhaseOf(e)
         \/ <<PhaseOf(e), PhaseOf(f)>> \in Decision!Moves
  <1>1. CASE f.status = e.status
    BY <1>1 DEF PhaseOf
  <1>2. CASE Expired(e) /\ f.status = Fallback(e)
    <2>1. PhaseOf(e) = "open" /\ PhaseOf(f) \in {"released", "rejected"}
      BY <1>2, PhaseFacts DEF Expired, Fallback
    <2> QED
      BY <2>1 DEF Decision!Moves
  <1>3. CASE <<e.status, f.status>> \in LiveMoves
    <2>1. \/ e.status \in Retryable /\ f.status \in Retryable \cup {"Approved", "Dropped"}
          \/ e.status = "Approved" /\ f.status = "Dropped"
      BY <1>3 DEF LiveMoves, Retryable
    <2>2. \/ PhaseOf(e) = "open" /\ PhaseOf(f) \in {"open", "approved", "rejected"}
          \/ PhaseOf(e) = "approved" /\ PhaseOf(f) = "rejected"
      BY <2>1, PhaseFacts
    <2> QED
      BY <2>2 DEF Decision!Moves
  <1>4. CASE f = NoEntry
    <2>1. PhaseOf(f) = "none" /\ PhaseOf(e) \in Decision!Phases
      BY <1>4, PhaseFacts, NoEntryType
    <2> QED
      BY <2>1 DEF Decision!Moves
  <1> QED
    BY <1>1, <1>2, <1>3, <1>4 DEF EntryMove

\* Every behaviour of the filter, seen through PhaseOf and the generations, is a
\* behaviour of AuditDecision.
THEOREM FilterImplementsDecision == Spec => ImplementsDecision
  <1> DEFINE phase == [t \in Tx |-> PhaseOf(pool[t])]
             life == [t \in Tx |-> pool[t].generation]
  <1>1. Init => Decision!DecisionInit
    <2> SUFFICES ASSUME Init PROVE Decision!DecisionInit
      OBVIOUS
    <2>1. \A t \in Tx : pool[t] = NoEntry
      BY Zenon DEF Init, EmptyPool
    <2>2. \A t \in Tx : PhaseOf(pool[t]) = "none" /\ pool[t].generation = 0
      BY Zenon, <2>1, NoEntryType, PhaseFacts
    <2> QED
      BY <2>2 DEF Init, Decision!DecisionInit
  <1>2. ASSUME IInv, [Next]_vars PROVE [Decision!DecisionNext]_(Decision!decisionVars)
    <2>1. IInv'
      BY <1>2, NextInv
    <2>2. \A t \in Tx : pool[t] \in BufferEntry /\ pool'[t] \in BufferEntry
      BY <1>2, <2>1 DEF IInv, TypeOK
    <2>3. CASE Moved
      <3> DEFINE newPhase == [t \in Tx |-> PhaseOf(pool'[t])]
      <3>1. newPhase \in [Tx -> Decision!Phases]
        BY <2>2, PhaseFacts
      <3>2. \A t \in Tx : newPhase[t] = phase[t] \/ <<phase[t], newPhase[t]>> \in Decision!Moves
        BY <2>2, <2>3, PhaseMove DEF Moved
      <3>3. ASSUME NEW t \in Tx
            PROVE  pool'[t].generation = IF newPhase[t] = "none" THEN 0 ELSE pool[t].generation
        <4>1. WellNumbered(pool'[t], nextGeneration')
          BY <2>1 DEF IInv, PoolNumbered
        <4>2. newPhase[t] = "none" <=> ~Present(pool'[t])
          BY <2>2, PhaseFacts
        <4>3. pool'[t].generation = pool[t].generation \/ pool'[t] = NoEntry
          BY Zenon, <2>3 DEF Moved, EntryMove
        <4> HIDE DEF newPhase
        <4> QED
          BY <4>1, <4>2, <4>3, NoEntryType DEF WellNumbered
      <3>4. life' = [t \in Tx |-> IF newPhase[t] = "none" THEN 0 ELSE life[t]]
        BY <3>3
      <3>5. phase' = newPhase
        OBVIOUS
      <3> HIDE DEF newPhase
      <3>6. \E n \in [Tx -> Decision!Phases] : Decision!Decide(n)
        BY SMTT(30), <2>3, <3>1, <3>2, <3>4, <3>5 DEF Decision!Decide, Moved
      <3>7. Decision!DecisionNext
        BY <3>6 DEF Decision!DecisionNext
      <3> QED
        BY <3>7
    <2>4. CASE \E u \in Tx : Inserted(u)
      <3> PICK u \in Tx : Inserted(u)
        BY <2>4
      <3>1. PhaseOf(pool[u]) = "none" /\ PhaseOf(pool'[u]) = "open"
        BY <2>2, PhaseFacts DEF Inserted, Retryable
      <3>2. phase' = [phase EXCEPT ![u] = "open"]
        BY Zenon, <3>1 DEF Inserted
      <3>3. life' = [life EXCEPT ![u] = nextGeneration + 1]
        BY Zenon DEF Inserted
      <3>4. Decision!OpenAudit(u)
        BY <3>1, <3>2, <3>3 DEF Decision!OpenAudit, Inserted
      <3> QED
        BY <3>4 DEF Decision!DecisionNext
    <2> QED
      BY <1>2, <2>3, <2>4, StepCases
  <1> QED
    BY <1>1, <1>2, Inductive, PTL DEF Spec, ImplementsDecision, Decision!DecisionSpec
=============================================================================
