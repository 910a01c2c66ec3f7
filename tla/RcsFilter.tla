----------------------------- MODULE RcsFilter ------------------------------
(***************************************************************************)
(* The RCS transaction filter (crates/rcs-filter): builder threads screen   *)
(* transactions against the buffer pool, and background workers submit      *)
(* audited transactions to the risk-control service (RCS), poll its         *)
(* verdicts, apply timeouts and reload rules.  The node's canonical-cleanup *)
(* and txpool-reconciliation tasks (crates/builder flashblocks/service.rs)  *)
(* remove entries.                                                          *)
(*                                                                          *)
(* Every action is one critical section of the pool mutex, or one step      *)
(* outside it; whatever a task remembers across an await or an unlock is in *)
(* its own record, and may be stale when it is used.                        *)
(***************************************************************************)
EXTENDS BufferPool, Sequences

CONSTANTS
    Builders,       \* block-building threads that may screen at the same time
    EmptyRules,     \* RuleSet::default(), installed until the first load
    RowStatuses     \* (RCS) the statuses a row of an answer may carry

ASSUME EmptyRulesAssumption ==
    /\ EmptyRules \in Rules
    /\ \A l \in Logs : Outcome[EmptyRules][l].kind = "Allow"

VARIABLES
    pool,           \* Shared.pool: BufferPool.entries
    nextGeneration, \* BufferPool.next_generation
    rules,          \* Shared.rules: the installed snapshot
    builder,        \* per thread: the screening it is in the middle of
    submit,         \* per block height: the submit_group call in progress
    query,          \* the query_once pass in progress
    reconcile,      \* non-terminal lifecycles reconcile_absent_non_terminal holds
    rcs,            \* (RCS) the submissions RCS has received for a hash
    evidence        \* (history) what was found out about the current lifecycle

vars == <<pool, nextGeneration, rules, builder, submit, query, reconcile, rcs, evidence>>

-----------------------------------------------------------------------------
(* Records of the tasks.                                                     *)

\* What screen_tx copies out of an entry before it releases the lock.
Snapshot(e) ==
    [status |-> e.status, generation |-> e.generation, quota |-> e.quota, rules |-> e.rules]
Snapshots ==
    [status : BufferStatus \cup {"Absent"}, generation : Generations,
     quota : Quotas \cup {None}, rules : Rules \cup {None}]

\* A submission: the lifecycle and the quota actions cloned for it.
Submissions == [generation : Generations, quota : Quotas \cup {None}]
NoSubmission == [generation |-> 0, quota |-> None]
Submission(e) == [generation |-> e.generation, quota |-> e.quota]

BuilderRecords ==
    [pc : {"idle", "lookup", "fresh", "recheck", "insert", "existing", "commit"},
     tx : Tx \cup {None}, logs : Logs \cup {None}, height : Heights \cup {None},
     rules : Rules \cup {None}, seen : Snapshots]
BuilderIdle ==
    [pc |-> "idle", tx |-> None, logs |-> None, height |-> None, rules |-> None,
     seen |-> Snapshot(NoEntry)]

SubmitRecords ==
    [pc : {"idle", "queued", "sent", "answered"},
     batch : [Tx -> Submissions], accepted : SUBSET Tx]
SubmitIdle ==
    [pc |-> "idle", batch |-> [t \in Tx |-> NoSubmission], accepted |-> {}]

\* query_once asks for these statuses in turn.
QueryStatuses == <<"pending", "approved", "denied", "outdated">>
Rejections == {"denied", "outdated"}
Verdicts == {"none", "pending", "approved"} \cup Rejections

\* denials is history: the hashes asked for that some row of the answer rejects.
QueryRecords ==
    [pc : {"idle", "ask", "apply"}, round : 1 .. Len(QueryStatuses),
     expected : [Tx -> Generations], verdicts : [Tx -> Verdicts], denials : SUBSET Tx]
QueryIdle ==
    [pc |-> "idle", round |-> 1, expected |-> NoLifecycles,
     verdicts |-> [t \in Tx |-> "none"], denials |-> {}]

Init ==
    /\ pool = EmptyPool
    /\ nextGeneration = 0
    /\ rules = EmptyRules
    /\ builder = [b \in Builders |-> BuilderIdle]
    /\ submit = [h \in Heights |-> SubmitIdle]
    /\ query = QueryIdle
    /\ reconcile = NoLifecycles
    /\ rcs = [t \in Tx |-> {}]
    /\ evidence = [t \in Tx |-> {}]

-----------------------------------------------------------------------------
(* Screening: run_tx_loop calls pre_screen, executes, then calls screen_tx.  *)

Goto(b, record) == builder' = [builder EXCEPT ![b] = record]

\* FilterHandle::pre_screen returns Execute, and the execution emits logs l.
\* The other results (Defer, Drop) end this thread's work on t at once, as does
\* an execution that fails, is intercepted or fails closed before screen_tx.
PreScreen(b, t, l, h) ==
    /\ builder[b].pc = "idle"
    /\ pool[t].status \in {"Absent", "Approved", "TimedOutAllow"}
    /\ Goto(b, [BuilderIdle EXCEPT !.pc = "lookup", !.tx = t, !.logs = l, !.height = h])
    /\ UNCHANGED <<pool, nextGeneration, rules, submit, query, reconcile, rcs, evidence>>

\* screen_tx, stage zero: copy the entry, if any, out of the pool.
Lookup(b) ==
    LET e == pool[builder[b].tx] IN
    /\ builder[b].pc = "lookup"
    /\ IF Present(e)
       THEN Goto(b, [builder[b] EXCEPT !.pc = "existing", !.seen = Snapshot(e)])
       ELSE Goto(b, [builder[b] EXCEPT !.pc = "fresh"])
    /\ UNCHANGED <<pool, nextGeneration, rules, submit, query, reconcile, rcs, evidence>>

\* screen_tx: evaluate the logs under the rules installed now, without the lock.
EvaluateFresh(b) ==
    LET outcome == Outcome[rules][builder[b].logs].kind IN
    /\ builder[b].pc = "fresh"
    /\ \/ outcome = "Allow" /\ Goto(b, [builder[b] EXCEPT !.pc = "recheck"])
       \/ outcome = "Audit" /\ Goto(b, [builder[b] EXCEPT !.pc = "insert", !.rules = rules])
       \/ outcome = "Deny" /\ Goto(b, BuilderIdle)
    /\ UNCHANGED <<pool, nextGeneration, rules, submit, query, reconcile, rcs, evidence>>

\* Mutant: an Allow is final without a second look at the pool.
RecheckSkipped(b) ==
    /\ builder[b].pc = "recheck"
    /\ Goto(b, [builder[b] EXCEPT !.pc = "commit"])
    /\ UNCHANGED <<pool, nextGeneration, rules, submit, query, reconcile, rcs, evidence>>

\* screen_tx, Allow: an entry inserted meanwhile takes precedence.
Recheck(b) ==
    LET e == pool[builder[b].tx] IN
    /\ builder[b].pc = "recheck"
    /\ IF Present(e)
       THEN Goto(b, [builder[b] EXCEPT !.pc = "existing", !.seen = Snapshot(e)])
       ELSE Goto(b, [builder[b] EXCEPT !.pc = "commit"])
    /\ UNCHANGED <<pool, nextGeneration, rules, submit, query, reconcile, rcs, evidence>>

\* screen_tx, Audit: BufferPool::insert, a no-op if another thread was first.
InsertAudit(b) ==
    LET t == builder[b].tx
        g == nextGeneration + 1 IN
    /\ builder[b].pc = "insert"
    /\ IF Present(pool[t])
       THEN UNCHANGED <<pool, nextGeneration, evidence>>
       ELSE /\ nextGeneration < MaxGeneration
            /\ nextGeneration' = g
            /\ pool' = [pool EXCEPT ![t] =
                          NewEntry(g, builder[b].height, builder[b].rules,
                                   Outcome[builder[b].rules][builder[b].logs])]
            /\ evidence' = [evidence EXCEPT ![t] = {}]
    /\ Goto(b, BuilderIdle)
    /\ UNCHANGED <<rules, submit, query, reconcile, rcs>>

\* History: a verdict of RCS counts for the current lifecycle of t if RCS had
\* received that very submission when it answered.
Learn(t, verdict) ==
    IF Present(pool[t]) /\ Submission(pool[t]) \in rcs[t]
    THEN evidence[t] \cup ({verdict} \cap {"approved"})
                     \cup (IF verdict \in Rejections THEN {"rejected"} ELSE {})
    ELSE evidence[t]

\* Mutant: recompute under the rules installed now.
ConsistentNow(b) ==
    LET outcome == Outcome[rules][builder[b].logs] IN
    outcome.kind = "Audit" /\ outcome.quota = builder[b].seen.quota

\* The pre-package recompute: the logs of this execution under the rules the
\* entry was audited with yield the quota that was submitted.
Consistent(b) ==
    LET outcome == Outcome[builder[b].seen.rules][builder[b].logs] IN
    outcome.kind = "Audit" /\ outcome.quota = builder[b].seen.quota

\* screen_existing, Approved: finish_consistency_check under the lock, with a
\* result computed before it was taken.
ScreenApproved(b) ==
    LET t == builder[b].tx
        g == builder[b].seen.generation
        after == FinishConsistencyCheck(pool[t], g, Consistent(b)) IN
    /\ builder[b].pc = "existing"
    /\ builder[b].seen.status = "Approved"
    /\ pool' = [pool EXCEPT ![t] = after]
    /\ evidence' = [evidence EXCEPT ![t] =
          IF Consistent(b) \/ pool[t].generation # g THEN @ ELSE @ \cup {"mismatch"}]
    /\ IF Matches(after, g, "Approved") /\ Consistent(b)
       THEN Goto(b, [builder[b] EXCEPT !.pc = "commit"])
       ELSE Goto(b, BuilderIdle)
    /\ UNCHANGED <<nextGeneration, rules, submit, query, reconcile, rcs>>

\* screen_existing, TimedOutAllow: released only if the tombstone still stands.
ScreenTimedOutAllow(b) ==
    /\ builder[b].pc = "existing"
    /\ builder[b].seen.status = "TimedOutAllow"
    /\ IF Matches(pool[builder[b].tx], builder[b].seen.generation, "TimedOutAllow")
       THEN Goto(b, [builder[b] EXCEPT !.pc = "commit"])
       ELSE Goto(b, BuilderIdle)
    /\ UNCHANGED <<pool, nextGeneration, rules, submit, query, reconcile, rcs, evidence>>

\* screen_existing, Dropped (Screen::Drop) and the states still in flight
\* (Screen::AuditPending): nothing is packaged and the pool is left alone.
ScreenWithheld(b) ==
    /\ builder[b].pc = "existing"
    /\ builder[b].seen.status \in Retryable \cup {"Dropped"}
    /\ Goto(b, BuilderIdle)
    /\ UNCHANGED <<pool, nextGeneration, rules, submit, query, reconcile, rcs, evidence>>

\* run_tx_loop commits the execution that screen_tx released.
CommitTx(b) ==
    /\ builder[b].pc = "commit"
    /\ Goto(b, BuilderIdle)
    /\ UNCHANGED <<pool, nextGeneration, rules, submit, query, reconcile, rcs, evidence>>

-----------------------------------------------------------------------------
(* The submit worker: submit_once and its submit_group calls.  The calls of  *)
(* one pass may run concurrently and in any order here; SubmitSchedule has   *)
(* the order the dependency graph imposes.                                   *)

\* submit_once: expire, then snapshot the NotSubmitted entries per height.
SubmitOnce ==
    LET expired == ResolveTotalTimeouts(pool)
        due(h) == {t \in Tx : expired[t].status = "NotSubmitted" /\ expired[t].height = h}
    IN
    /\ \A h \in Heights : submit[h].pc = "idle"
    /\ pool' = expired
    /\ submit' = [h \in Heights |->
          IF due(h) = {} THEN SubmitIdle
          ELSE [SubmitIdle EXCEPT !.pc = "queued",
                  !.batch = [t \in Tx |->
                      IF t \in due(h) THEN Submission(expired[t]) ELSE NoSubmission]]]
    /\ UNCHANGED <<nextGeneration, rules, builder, query, reconcile, rcs, evidence>>

\* submit_group up to the await: expire, drop what is no longer this
\* NotSubmitted lifecycle, and send the rest.
SubmitGroup(h) ==
    LET expired == ResolveTotalTimeouts(pool)
        batch == [t \in Tx |->
                    IF Matches(expired[t], submit[h].batch[t].generation, "NotSubmitted")
                    THEN submit[h].batch[t] ELSE NoSubmission]
    IN
    /\ submit[h].pc = "queued"
    /\ pool' = expired
    /\ submit' = [submit EXCEPT ![h] =
          IF \A t \in Tx : batch[t] = NoSubmission THEN SubmitIdle
          ELSE [SubmitIdle EXCEPT !.pc = "sent", !.batch = batch]]
    /\ UNCHANGED <<nextGeneration, rules, builder, query, reconcile, rcs, evidence>>

\* RCS receives the request and accepts part of it, the rest being malformed.
RcsReceive(h, accepted) ==
    /\ submit[h].pc = "sent"
    /\ accepted \subseteq {t \in Tx : submit[h].batch[t] # NoSubmission}
    /\ rcs' = [t \in Tx |->
          IF t \in accepted THEN rcs[t] \cup {submit[h].batch[t]} ELSE rcs[t]]
    /\ submit' = [submit EXCEPT ![h].pc = "answered", ![h].accepted = accepted]
    /\ UNCHANGED <<pool, nextGeneration, rules, builder, query, reconcile, evidence>>

\* submit_group after the await: apply_submit_response.
SubmitResponse(h) ==
    /\ submit[h].pc = "answered"
    /\ pool' = [t \in Tx |->
          IF submit[h].batch[t] = NoSubmission THEN pool[t]
          ELSE ApplySubmitResponse(pool[t], submit[h].batch[t].generation,
                                   t \in submit[h].accepted)]
    /\ submit' = [submit EXCEPT ![h] = SubmitIdle]
    /\ UNCHANGED <<nextGeneration, rules, builder, query, reconcile, rcs, evidence>>

\* submit_group: the request fails, or its answer is lost after RCS took it.
SubmitError(h) ==
    /\ submit[h].pc \in {"sent", "answered"}
    /\ pool' = ResolveTotalTimeouts(pool)
    /\ submit' = [submit EXCEPT ![h] = SubmitIdle]
    /\ UNCHANGED <<nextGeneration, rules, builder, query, reconcile, rcs, evidence>>

\* spawn_supervised restarts the submit worker: its calls are forgotten.
SubmitRestart ==
    /\ \E h \in Heights : submit[h].pc # "idle"
    /\ submit' = [h \in Heights |-> SubmitIdle]
    /\ UNCHANGED <<pool, nextGeneration, rules, builder, query, reconcile, rcs, evidence>>

-----------------------------------------------------------------------------
(* The query worker: query_once.                                             *)

\* Expire, then snapshot the lifecycles in flight; without any, the pass ends.
QueryStart ==
    LET expired == ResolveTotalTimeouts(pool)
        expected == LifecyclesIn(expired, InFlight) IN
    /\ query.pc = "idle"
    /\ pool' = expired
    /\ query' = IF expected = NoLifecycles THEN QueryIdle
                ELSE [QueryIdle EXCEPT !.pc = "ask", !.expected = expected]
    /\ UNCHANGED <<nextGeneration, rules, builder, submit, reconcile, rcs, evidence>>

\* Mutant: unrecognized statuses are not skipped.
RelevantAny(statuses) ==
    IF statuses = {} THEN "none" ELSE CHOOSE s \in statuses : TRUE

\* Mutant: an approval outranks a rejection.
RelevantApprovalFirst(statuses) ==
    IF "approved" \in statuses THEN "approved"
    ELSE IF statuses \cap Rejections # {} THEN CHOOSE s \in statuses : s \in Rejections
    ELSE IF "pending" \in statuses THEN "pending"
    ELSE "none"

\* The row that counts for a hash: a rejection before an approval before
\* pending; unrecognized statuses are skipped.
Relevant(statuses) ==
    IF statuses \cap Rejections # {} THEN CHOOSE s \in statuses : s \in Rejections
    ELSE IF "approved" \in statuses THEN "approved"
    ELSE IF "pending" \in statuses THEN "pending"
    ELSE "none"

\* RCS answers one status query with any rows (RCS), and the worker parses,
\* filters and deduplicates them without the lock.
QueryReply(rows) ==
    LET statusesOf(t) == {r \in RowStatuses : <<t, r>> \in rows}
        verdicts == [t \in Tx |->
            IF query.expected[t] = 0 THEN "none" ELSE Relevant(statusesOf(t))]
        denials == {t \in Tx : query.expected[t] # 0 /\ statusesOf(t) \cap Rejections # {}}
    IN
    /\ query.pc = "ask"
    /\ query' = [query EXCEPT !.pc = "apply", !.verdicts = verdicts, !.denials = denials]
    /\ evidence' = [t \in Tx |-> Learn(t, verdicts[t])]
    /\ UNCHANGED <<pool, nextGeneration, rules, builder, submit, reconcile, rcs>>

\* The next of the four statuses, or the end of the pass.
NextRound ==
    IF query.round = Len(QueryStatuses) THEN QueryIdle
    ELSE [query EXCEPT !.pc = "ask", !.round = @ + 1,
                      !.verdicts = QueryIdle.verdicts, !.denials = {}]

\* History: an answer that rejects the current lifecycle of t is being applied.
Denied(t) == t \in query.denials /\ query.expected[t] = pool[t].generation

\* Apply the rows under one lock.
QueryApply ==
    /\ query.pc = "apply"
    /\ pool' = [t \in Tx |-> IF query.verdicts[t] = "none" THEN pool[t]
                  ELSE ApplyQueryStatus(pool[t], query.expected[t], query.verdicts[t])]
    /\ query' = NextRound
    /\ evidence' = [t \in Tx |-> evidence[t] \cup (IF Denied(t) THEN {"denied"} ELSE {})]
    /\ UNCHANGED <<nextGeneration, rules, builder, submit, reconcile, rcs>>

\* Mutant: a status query that fails ends the pass.
QueryErrorEndsPass ==
    /\ query.pc = "ask"
    /\ pool' = ResolveTotalTimeouts(pool)
    /\ query' = [query EXCEPT !.pc = "idle"]
    /\ UNCHANGED <<nextGeneration, rules, builder, submit, reconcile, rcs, evidence>>

\* One status query fails: expire, and go on with the next status.
QueryError ==
    /\ query.pc = "ask"
    /\ pool' = ResolveTotalTimeouts(pool)
    /\ query' = NextRound
    /\ UNCHANGED <<nextGeneration, rules, builder, submit, reconcile, rcs, evidence>>

\* spawn_supervised restarts the query worker in the middle of a pass.
QueryRestart ==
    /\ query.pc # "idle"
    /\ query' = QueryIdle
    /\ UNCHANGED <<pool, nextGeneration, rules, builder, submit, reconcile, rcs, evidence>>

-----------------------------------------------------------------------------
(* The timeout and rules workers, the clock, and the node's cleanup tasks.   *)

\* timeout_once: check_timeouts, then prune_terminal, under one lock.
TimeoutOnce ==
    /\ pool' = [t \in Tx |-> PruneTerminal(CheckTimeouts(pool[t]))]
    /\ UNCHANGED <<nextGeneration, rules, builder, submit, query, reconcile, rcs, evidence>>

\* The clock advances by one second.
Tick ==
    /\ pool' = [t \in Tx |-> Older(pool[t])]
    /\ UNCHANGED <<nextGeneration, rules, builder, submit, query, reconcile, rcs, evidence>>

\* rules_task: a version other than the current one is loaded and installed.
InstallRules(r) ==
    /\ r # rules
    /\ rules' = r
    /\ UNCHANGED <<pool, nextGeneration, builder, submit, query, reconcile, rcs, evidence>>

\* A canonical notification: remove_canonical_transactions.
CanonicalCommitted(hashes) ==
    /\ pool' = RemoveCanonical(pool, hashes)
    /\ evidence' = [t \in Tx |->
          IF t \in hashes /\ Present(pool[t]) THEN evidence[t] \cup {"included"} ELSE evidence[t]]
    /\ UNCHANGED <<nextGeneration, rules, builder, submit, query, reconcile, rcs>>

\* The canonical receiver lagged: recover_after_canonical_lag.
CanonicalLagged ==
    /\ pool' = RecoverAfterCanonicalLag(pool)
    /\ UNCHANGED <<nextGeneration, rules, builder, submit, query, reconcile, rcs, evidence>>

\* reconcile_absent_non_terminal: snapshot the non-terminal lifecycles ...
ReconcileSnapshot ==
    /\ reconcile = NoLifecycles
    /\ reconcile' = LifecyclesIn(pool, BufferStatus \ Terminal)
    /\ UNCHANGED <<pool, nextGeneration, rules, builder, submit, query, rcs, evidence>>

\* ... then, one at a time, keep those the txpool contains and remove the
\* others if the lifecycle is still current (the txpool is in TerminalDiscard).
ReconcileOne(t, contained) ==
    /\ reconcile[t] # 0
    /\ reconcile' = [reconcile EXCEPT ![t] = 0]
    /\ pool' = IF contained THEN pool
               ELSE [pool EXCEPT ![t] = RemoveNonTerminalIfGeneration(@, reconcile[t])]
    /\ UNCHANGED <<nextGeneration, rules, builder, submit, query, rcs, evidence>>

-----------------------------------------------------------------------------

Screening ==
    \E b \in Builders :
        \/ \E t \in Tx, l \in Logs, h \in Heights : PreScreen(b, t, l, h)
        \/ Lookup(b)
        \/ EvaluateFresh(b)
        \/ Recheck(b)
        \/ InsertAudit(b)
        \/ ScreenApproved(b)
        \/ ScreenTimedOutAllow(b)
        \/ ScreenWithheld(b)
        \/ CommitTx(b)

Submitting ==
    \/ SubmitOnce
    \/ SubmitRestart
    \/ \E h \in Heights :
        \/ SubmitGroup(h)
        \/ \E accepted \in SUBSET Tx : RcsReceive(h, accepted)
        \/ SubmitResponse(h)
        \/ SubmitError(h)

Querying ==
    \/ QueryStart
    \/ \E rows \in SUBSET (Tx \X RowStatuses) : QueryReply(rows)
    \/ QueryApply
    \/ QueryError
    \/ QueryRestart

Upkeep ==
    \/ TimeoutOnce
    \/ Tick
    \/ \E r \in Rules : InstallRules(r)
    \/ \E hashes \in SUBSET Tx : CanonicalCommitted(hashes)
    \/ CanonicalLagged
    \/ ReconcileSnapshot
    \/ \E t \in Tx, contained \in BOOLEAN : ReconcileOne(t, contained)

Next == Screening \/ Submitting \/ Querying \/ Upkeep

Spec == Init /\ [][Next]_vars

\* The timeout worker runs every second under a supervisor that restarts it,
\* and the clock advances; nothing else is assumed to make progress.
FairSpec == Spec /\ WF_vars(TimeoutOnce) /\ WF_vars(Tick)

\* The answer to the query for denied transactions lists t.
ReportDenied(t) ==
    /\ QueryStatuses[query.round] = "denied"
    /\ \E rows \in SUBSET (Tx \X RowStatuses) : <<t, "denied">> \in rows /\ QueryReply(rows)

\* The query worker polls for ever, and every request ends within the request
\* timeout, in an answer or an error; nothing is assumed of which.
PollingSpec ==
    /\ Spec
    /\ WF_vars(QueryStart)
    /\ WF_vars(QueryError \/ \E rows \in SUBSET (Tx \X RowStatuses) : QueryReply(rows))
    /\ WF_vars(QueryApply)

-----------------------------------------------------------------------------
(* Properties.                                                               *)

\* Type correctness of the shared tables and of every task's record.
TypeOK ==
    /\ pool \in [Tx -> BufferEntry]
    /\ nextGeneration \in Generations
    /\ rules \in Rules
    /\ builder \in [Builders -> BuilderRecords]
    /\ submit \in [Heights -> SubmitRecords]
    /\ query \in QueryRecords
    /\ reconcile \in [Tx -> Generations]
    /\ rcs \in [Tx -> SUBSET Submissions]
    /\ evidence \in [Tx -> SUBSET {"approved", "rejected", "mismatch", "included", "denied"}]

\* An entry is Approved only if RCS answered "approved" to a query after it had
\* received the submission of this very lifecycle, with this lifecycle's quota
\* (the generation fence of query_once / apply_query_status): no approval of an
\* earlier lifecycle of the same hash, read before an await, is applied to it.
ApprovedReviewed ==
    \A t \in Tx : pool[t].status = "Approved" => "approved" \in evidence[t]

\* A tombstone has a cause that belongs to its own lifecycle: a rejection RCS
\* gave after receiving it, a quota mismatch a builder computed for it, or the
\* expiry of its own retry window with the matching fallback action
\* (apply_query_status, finish_consistency_check, resolve_total_timeout).
TombstoneHasCause ==
    \A t \in Tx :
        LET e == pool[t]
            overdue == e.sinceFirst > TotalRetryTimeout IN
        /\ e.status = "Dropped" =>
              \/ evidence[t] \cap {"rejected", "mismatch"} # {}
              \/ overdue /\ e.onTimeout = "Deny"
        /\ e.status = "TimedOutAllow" => overdue /\ e.onTimeout = "Allow"

\* A rejection stands for the rest of the lifecycle: once an answer with a
\* rejecting row for it has been applied, the lifecycle is neither open nor
\* approved, whatever other rows the same answer had for the hash (query_once ranks
\* a rejection above an approval), whatever the later queries of the pass, answers
\* read before it, stalls and resubmissions bring.
DenialStands ==
    \A t \in Tx : "denied" \in evidence[t] => pool[t].status \in Terminal \cup {"Absent"}

\* screen_tx releases a transaction to the block only on grounds that hold at
\* the moment of the decision: no entry exists (Allow), or RCS approved this
\* lifecycle and this execution reproduces the quota it approved, or the retry
\* window ran out under a fail-open rule -- whatever the other threads and
\* workers did between its first look at the pool and the decision.
ReleaseJustified ==
    [][\A b \in Builders :
         LET t == builder[b].tx
             e == pool'[t]
             outcome == Outcome[e.rules][builder[b].logs] IN
         builder[b].pc # "commit" /\ builder'[b].pc = "commit" =>
            IF builder[b].pc = "recheck" THEN ~Present(e)
            ELSE \/ /\ e.status = "Approved"
                    /\ "approved" \in evidence'[t]
                    /\ outcome.kind = "Audit" /\ outcome.quota = e.quota
                 \/ e.status = "TimedOutAllow" /\ e.onTimeout = "Allow"]_vars

\* Once the retry window of an unresolved lifecycle has run out, no submit
\* response, verdict or stall moves it any more: its next status is its
\* fallback, or the entry is removed ("closing the network-await race").
DeadlineWins ==
    [][\A t \in Tx :
         Expired(pool[t]) /\ pool'[t].status # pool[t].status =>
            pool'[t].status \in
                {"Absent", IF pool[t].onTimeout = "Allow" THEN "TimedOutAllow" ELSE "Dropped"}
      ]_vars

\* A rejection is not forgotten early: a Dropped entry leaves the pool only
\* after its retention, or because the transaction became canonical; neither a
\* lagged canonical receiver (recover_after_canonical_lag: "Dropped tombstones
\* remain fail-closed") nor txpool reconciliation nor a new insertion erases it.
RejectionRemembered ==
    [][\A t \in Tx :
         pool[t].status = "Dropped" /\ pool'[t].status # "Dropped" =>
            pool[t].sinceLast > TerminalEntryRetention \/ "included" \in evidence'[t]]_vars

\* A lifecycle under audit does not stay unresolved for ever: whatever RCS
\* does, it is approved, resolved by the fallback, or removed.  Resubmission
\* after a stall must not restart its retry window (check_timeouts).
AuditsResolve ==
    \A t \in Tx, g \in 1 .. MaxGeneration :
        (pool[t].generation = g /\ pool[t].status \in Retryable)
            ~> ~(pool[t].generation = g /\ pool[t].status \in Retryable)

\* Tombstones do not accumulate: each one is evicted or removed (prune_terminal).
TombstonesEvicted ==
    \A t \in Tx, g \in 1 .. MaxGeneration :
        (pool[t].generation = g /\ IsTerminal(pool[t])) ~> pool[t].generation # g

\* An approval RCS takes back is withdrawn: if the worker stops panicking one day
\* and the query for denied transactions, asked over and over, is again and again
\* answered with t among its rows, then the lifecycle does not stay approved, even
\* if every other query of every pass fails (query_once goes on with the next
\* status after an error).  No timeout would do it: the fallback applies only
\* before an approval.
WithdrawnApprovalDropped ==
    \A t \in Tx : <>[][~QueryRestart]_vars /\ SF_vars(ReportDenied(t)) =>
        \A g \in 1 .. MaxGeneration :
            (pool[t].generation = g /\ pool[t].status = "Approved")
                ~> ~(pool[t].generation = g /\ pool[t].status = "Approved")

-----------------------------------------------------------------------------
(* The abstract specification this module implements.                        *)

PhaseOf(e) ==
    CASE e.status \in Retryable -> "open"
      [] e.status = "Approved" -> "approved"
      [] e.status = "TimedOutAllow" -> "released"
      [] e.status = "Dropped" -> "rejected"
      [] OTHER -> "none"

Decision == INSTANCE AuditDecision WITH
    phase <- [t \in Tx |-> PhaseOf(pool[t])],
    life <- [t \in Tx |-> pool[t].generation],
    opened <- nextGeneration

\* The filter, with all its retries, stale snapshots, restarts and cleanups,
\* makes only the moves AuditDecision allows: verdicts that arrive late never
\* reopen or reverse a tombstone (BufferStatus, "terminal tombstones"), an
\* approval is only ever withdrawn, and lifecycle identities are fresh.
ImplementsDecision == Decision!DecisionSpec

=============================================================================
