---------------------------- MODULE RcsFilterTypes ---------------------------
(***************************************************************************)
(* Type correctness of RcsFilter, for any number of transactions,           *)
(* threads, heights, rule sets and lifecycles and any timeouts.             *)
(***************************************************************************)
EXTENDS RcsFilter, BufferPoolTheorems

-----------------------------------------------------------------------------
(* Types.                                                                    *)

\* A thread in the middle of a screening works on a transaction; before an
\* insertion it holds the rules it evaluated.
BuilderBusy ==
    \A b \in Builders :
        /\ builder[b].pc # "idle" =>
              builder[b].tx \in Tx /\ builder[b].logs \in Logs /\ builder[b].height \in Heights
        /\ builder[b].pc = "insert" => builder[b].rules \in Rules

\* Small facts about the types.
LEMMA TypeFacts ==
  /\ 0 \in Generations /\ 0 \in Ages
  /\ Snapshot(NoEntry) \in Snapshots
  /\ NoSubmission \in Submissions
  /\ BuilderIdle \in BuilderRecords /\ BuilderIdle.pc = "idle"
  /\ SubmitIdle \in SubmitRecords
  /\ QueryIdle \in QueryRecords
  /\ NoLifecycles \in [Tx -> Generations]
  /\ Len(QueryStatuses) = 4
  <1>1. 0 \in Generations /\ 0 \in Ages
    BY ConfigAssumption, GenerationAssumption DEF Generations, Ages
  <1>2. Snapshot(NoEntry) \in Snapshots
    BY <1>1 DEF Snapshot, Snapshots, NoEntry
  <1>3. NoSubmission \in Submissions
    BY <1>1 DEF NoSubmission, Submissions
  <1>4. BuilderIdle \in BuilderRecords /\ BuilderIdle.pc = "idle"
    BY <1>2 DEF BuilderIdle, BuilderRecords
  <1>5. SubmitIdle \in SubmitRecords
    BY <1>3 DEF SubmitIdle, SubmitRecords
  <1>6. Len(QueryStatuses) = 4
    BY DEF QueryStatuses
  <1>7. NoLifecycles \in [Tx -> Generations]
    BY <1>1 DEF NoLifecycles
  <1>8. QueryIdle \in QueryRecords
    BY <1>6, <1>7 DEF QueryIdle, QueryRecords, Verdicts
  <1> QED
    BY <1>1, <1>2, <1>3, <1>4, <1>5, <1>6, <1>7, <1>8

\* What a task copies out of an entry has the type of its record.
LEMMA CopyTypes ==
  ASSUME NEW e \in BufferEntry
  PROVE  Snapshot(e) \in Snapshots /\ Submission(e) \in Submissions
  BY DEF Snapshot, Snapshots, Submission, Submissions, BufferEntry

\* The initial state.
LEMMA InitTypes == Init => TypeOK /\ BuilderBusy
  <1> SUFFICES ASSUME Init PROVE TypeOK /\ BuilderBusy
    OBVIOUS
  <1>1. TypeOK
    BY TypeFacts, NoEntryType, EmptyRulesAssumption DEF Init, TypeOK, EmptyPool
  <1>2. BuilderBusy
    BY TypeFacts DEF Init, BuilderBusy
  <1> QED
    BY <1>1, <1>2

\* A thread's record changes and nothing else does.
LEMMA GotoTypes ==
  ASSUME TypeOK, BuilderBusy, NEW b \in Builders, NEW record \in BuilderRecords,
         Goto(b, record),
         record.pc # "idle" =>
            record.tx \in Tx /\ record.logs \in Logs /\ record.height \in Heights,
         record.pc = "insert" => record.rules \in Rules
  PROVE  builder' \in [Builders -> BuilderRecords] /\ BuilderBusy'
  BY DEF TypeOK, BuilderBusy, Goto

\* The ways a thread in the middle of a screening moves on.
LEMMA AdvanceTypes ==
  ASSUME TypeOK, BuilderBusy, NEW b \in Builders, builder[b].pc # "idle",
         \/ \E pc \in {"fresh", "recheck", "commit"} : Goto(b, [builder[b] EXCEPT !.pc = pc])
         \/ \E s \in Snapshots : Goto(b, [builder[b] EXCEPT !.pc = "existing", !.seen = s])
         \/ Goto(b, [builder[b] EXCEPT !.pc = "insert", !.rules = rules])
         \/ Goto(b, BuilderIdle)
  PROVE  builder' \in [Builders -> BuilderRecords] /\ BuilderBusy'
  <1>1. builder[b] \in BuilderRecords /\ rules \in Rules
    BY Zenon DEF TypeOK
  <1>2. /\ builder[b].tx \in Tx /\ builder[b].logs \in Logs /\ builder[b].height \in Heights
    BY Zenon DEF BuilderBusy
  <1>3. ASSUME NEW pc \in {"fresh", "recheck", "commit"},
               Goto(b, [builder[b] EXCEPT !.pc = pc])
        PROVE  builder' \in [Builders -> BuilderRecords] /\ BuilderBusy'
    <2> DEFINE r == [builder[b] EXCEPT !.pc = pc]
    <2>1. /\ r \in BuilderRecords /\ r.pc = pc /\ r.tx = builder[b].tx
          /\ r.logs = builder[b].logs /\ r.height = builder[b].height
      BY Zenon, <1>1 DEF BuilderRecords
    <2>2. Goto(b, r)
      BY Zenon, <1>3
    <2> HIDE DEF r
    <2> QED
      BY Zenon, <1>2, <2>1, <2>2, GotoTypes
  <1>4. ASSUME NEW s \in Snapshots,
               Goto(b, [builder[b] EXCEPT !.pc = "existing", !.seen = s])
        PROVE  builder' \in [Builders -> BuilderRecords] /\ BuilderBusy'
    <2> DEFINE r == [builder[b] EXCEPT !.pc = "existing", !.seen = s]
    <2>1. /\ r \in BuilderRecords /\ r.pc = "existing" /\ r.tx = builder[b].tx
          /\ r.logs = builder[b].logs /\ r.height = builder[b].height
      BY Zenon, <1>1 DEF BuilderRecords
    <2>2. Goto(b, r)
      BY Zenon, <1>4
    <2> HIDE DEF r
    <2> QED
      BY Zenon, <1>2, <2>1, <2>2, GotoTypes
  <1>5. ASSUME Goto(b, [builder[b] EXCEPT !.pc = "insert", !.rules = rules])
        PROVE  builder' \in [Builders -> BuilderRecords] /\ BuilderBusy'
    <2> DEFINE r == [builder[b] EXCEPT !.pc = "insert", !.rules = rules]
    <2>1. /\ r \in BuilderRecords /\ r.pc = "insert" /\ r.tx = builder[b].tx
          /\ r.logs = builder[b].logs /\ r.height = builder[b].height /\ r.rules = rules
      BY Zenon, <1>1 DEF BuilderRecords
    <2>2. Goto(b, r)
      BY Zenon, <1>5
    <2> HIDE DEF r
    <2> QED
      BY Zenon, <1>1, <1>2, <2>1, <2>2, GotoTypes
  <1>6. ASSUME Goto(b, BuilderIdle)
        PROVE  builder' \in [Builders -> BuilderRecords] /\ BuilderBusy'
    BY <1>6, TypeFacts, GotoTypes
  <1> QED
    BY Zenon, <1>3, <1>4, <1>5, <1>6

\* Screening keeps the types.
LEMMA ScreeningTypes ==
  ASSUME TypeOK, BuilderBusy, Screening
  PROVE  TypeOK' /\ BuilderBusy'
  <1> PICK b \in Builders :
        \/ \E t \in Tx, l \in Logs, h \in Heights : PreScreen(b, t, l, h)
        \/ Lookup(b) \/ EvaluateFresh(b) \/ Recheck(b) \/ InsertAudit(b)
        \/ ScreenApproved(b) \/ ScreenTimedOutAllow(b) \/ ScreenWithheld(b) \/ CommitTx(b)
    BY DEF Screening
  <1> DEFINE B == builder[b]
  <1>1. CASE \E t \in Tx, l \in Logs, h \in Heights : PreScreen(b, t, l, h)
    <2> PICK t \in Tx, l \in Logs, h \in Heights : PreScreen(b, t, l, h)
      BY <1>1
    <2> DEFINE r == [BuilderIdle EXCEPT !.pc = "lookup", !.tx = t, !.logs = l, !.height = h]
    <2>1. r \in BuilderRecords /\ r.pc = "lookup" /\ r.tx = t /\ r.logs = l /\ r.height = h
      BY Zenon, TypeFacts DEF BuilderRecords
    <2> QED
      BY Zenon, <2>1, GotoTypes DEF PreScreen, TypeOK
  <1>2. CASE Lookup(b)
    <2>1. B.tx \in Tx /\ B.logs \in Logs /\ B.height \in Heights
      BY <1>2 DEF Lookup, BuilderBusy
    <2>2. Snapshot(pool[B.tx]) \in Snapshots
      BY <2>1, CopyTypes DEF TypeOK
    <2>3. builder' \in [Builders -> BuilderRecords] /\ BuilderBusy'
      BY Zenon, <1>2, <2>2, AdvanceTypes DEF Lookup
    <2> QED
      BY <1>2, <2>3 DEF Lookup, TypeOK
  <1>3. CASE EvaluateFresh(b)
    <2>1. builder' \in [Builders -> BuilderRecords] /\ BuilderBusy'
      BY Zenon, <1>3, AdvanceTypes DEF EvaluateFresh
    <2> QED
      BY <1>3, <2>1 DEF EvaluateFresh, TypeOK
  <1>4. CASE Recheck(b)
    <2>1. B.tx \in Tx /\ B.logs \in Logs /\ B.height \in Heights
      BY <1>4 DEF Recheck, BuilderBusy
    <2>2. Snapshot(pool[B.tx]) \in Snapshots
      BY <2>1, CopyTypes DEF TypeOK
    <2>3. builder' \in [Builders -> BuilderRecords] /\ BuilderBusy'
      BY Zenon, <1>4, <2>2, AdvanceTypes DEF Recheck
    <2> QED
      BY <1>4, <2>3 DEF Recheck, TypeOK
  <1>5. CASE InsertAudit(b)
    <2> DEFINE e == NewEntry(nextGeneration + 1, B.height, B.rules, Outcome[B.rules][B.logs])
    <2>1. /\ B.tx \in Tx /\ B.logs \in Logs /\ B.height \in Heights /\ B.rules \in Rules
      BY <1>5 DEF InsertAudit, BuilderBusy
    <2>2. Outcome[B.rules][B.logs] \in MatchOutcomes
      BY SMTT(30), <2>1, OutcomeAssumption
    <2>3. nextGeneration < MaxGeneration => e \in BufferEntry
      <3>1. nextGeneration < MaxGeneration => nextGeneration + 1 \in Generations
        BY GenerationAssumption DEF TypeOK, Generations
      <3>2. "NotSubmitted" \in BufferStatus
        BY SMTT(30) DEF BufferStatus, Retryable
      <3> QED
        BY <2>1, <2>2, <3>1, <3>2, TypeFacts DEF NewEntry, BufferEntry, MatchOutcomes
    <2>4. nextGeneration < MaxGeneration => nextGeneration + 1 \in Generations
      BY GenerationAssumption DEF TypeOK, Generations
    <2>5. builder' \in [Builders -> BuilderRecords] /\ BuilderBusy'
      BY SMTT(30), <1>5, GotoTypes, TypeFacts DEF InsertAudit
    <2> HIDE DEF e
    <2>6. /\ pool' \in [Tx -> BufferEntry] /\ nextGeneration' \in Generations
          /\ evidence' \in [Tx -> SUBSET {"approved", "rejected", "mismatch", "included", "denied"}]
      BY <1>5, <2>1, <2>3, <2>4 DEF InsertAudit, TypeOK, e
    <2> QED
      BY SMTT(30), <1>5, <2>5, <2>6 DEF InsertAudit, TypeOK
  <1>6. CASE ScreenApproved(b)
    <2>1. B.tx \in Tx /\ B.logs \in Logs /\ B.height \in Heights
      BY SMTT(30), <1>6 DEF ScreenApproved, BuilderBusy
    <2>2. FinishConsistencyCheck(pool[B.tx], B.seen.generation, Consistent(b)) \in BufferEntry
      <3>1. pool[B.tx] \in BufferEntry
        BY <2>1 DEF TypeOK
      <3>2. "Dropped" \in BufferStatus
        BY DEF BufferStatus, Terminal
      <3>3. Matches(pool[B.tx], B.seen.generation, "Approved") => Present(pool[B.tx])
        BY DEF Matches, Present
      <3> QED
        BY <3>1, <3>2, <3>3, TransitionKeeps DEF FinishConsistencyCheck
    <2>3. builder' \in [Builders -> BuilderRecords] /\ BuilderBusy'
      BY Zenon, <1>6, AdvanceTypes DEF ScreenApproved
    <2>4. pool' \in [Tx -> BufferEntry]
      BY <1>6, <2>1, <2>2 DEF ScreenApproved, TypeOK
    <2>5. evidence' \in [Tx -> SUBSET {"approved", "rejected", "mismatch", "included", "denied"}]
      BY <1>6, <2>1 DEF ScreenApproved, TypeOK
    <2> QED
      BY <1>6, <2>3, <2>4, <2>5 DEF ScreenApproved, TypeOK
  <1>7. CASE ScreenTimedOutAllow(b)
    <2>1. builder' \in [Builders -> BuilderRecords] /\ BuilderBusy'
      BY Zenon, <1>7, AdvanceTypes DEF ScreenTimedOutAllow
    <2> QED
      BY <1>7, <2>1 DEF ScreenTimedOutAllow, TypeOK
  <1>8. CASE ScreenWithheld(b)
    BY <1>8, GotoTypes, TypeFacts DEF ScreenWithheld, TypeOK
  <1>9. CASE CommitTx(b)
    BY <1>9, GotoTypes, TypeFacts DEF CommitTx, TypeOK
  <1> QED
    BY <1>1, <1>2, <1>3, <1>4, <1>5, <1>6, <1>7, <1>8, <1>9

\* Every operation on the table keeps the types.
LEMMA TableTypes ==
  ASSUME NEW table \in [Tx -> BufferEntry]
  PROVE  /\ ResolveTotalTimeouts(table) \in [Tx -> BufferEntry]
         /\ RecoverAfterCanonicalLag(table) \in [Tx -> BufferEntry]
         /\ \A hashes : RemoveCanonical(table, hashes) \in [Tx -> BufferEntry]
         /\ \A statuses : LifecyclesIn(table, statuses) \in [Tx -> Generations]
  <1>1. \A t \in Tx : table[t] \in BufferEntry /\ table[t].generation \in Generations
    BY DEF BufferEntry
  <1>2. \A t \in Tx : ResolveTotalTimeout(table[t]) \in BufferEntry
    BY Zenon, <1>1, ResolveKeeps
  <1> QED
    BY <1>1, <1>2, NoEntryType, TypeFacts
    DEF ResolveTotalTimeouts, RecoverAfterCanonicalLag, RemoveCanonical, LifecyclesIn

\* The operations on one entry keep its type.
LEMMA EntryTypes ==
  ASSUME NEW e \in BufferEntry
  PROVE  /\ \A g : \A accepted \in BOOLEAN : ApplySubmitResponse(e, g, accepted) \in BufferEntry
         /\ \A g, status : ApplyQueryStatus(e, g, status) \in BufferEntry
         /\ PruneTerminal(CheckTimeouts(e)) \in BufferEntry
         /\ \A g : RemoveNonTerminalIfGeneration(e, g) \in BufferEntry
  <1>0. /\ {"Submitted", "Pending", "Approved", "Dropped", "NotSubmitted"} \subseteq BufferStatus
        /\ \A s \in BufferStatus : e.status = s => Present(e)
    BY DEF BufferStatus, Retryable, Terminal, Present
  <1>1. ASSUME NEW g, NEW accepted \in BOOLEAN
        PROVE  ApplySubmitResponse(e, g, accepted) \in BufferEntry
    BY <1>0, SubmitResponseCases, ResolveKeeps, TransitionKeeps
  <1>2. ASSUME NEW g, NEW status
        PROVE  ApplyQueryStatus(e, g, status) \in BufferEntry
    BY <1>0, QueryStatusCases, ResolveKeeps, TransitionKeeps
  <1>3. CheckTimeouts(e) \in BufferEntry
    BY <1>0, CheckTimeoutsCases, ResolveKeeps, TransitionKeeps
  <1> QED
    BY <1>1, <1>2, <1>3, NoEntryType DEF PruneTerminal, RemoveNonTerminalIfGeneration

\* The submit worker keeps the types.
LEMMA SubmittingTypes ==
  ASSUME TypeOK, BuilderBusy, Submitting
  PROVE  TypeOK' /\ BuilderBusy'
  <1> DEFINE expired == ResolveTotalTimeouts(pool)
  <1>0. expired \in [Tx -> BufferEntry]
    BY TableTypes DEF TypeOK
  <1>1. CASE SubmitOnce
    <2> DEFINE due(h) == {t \in Tx : expired[t].status = "NotSubmitted" /\ expired[t].height = h}
               batch(h) == [t \in Tx |->
                  IF t \in due(h) THEN Submission(expired[t]) ELSE NoSubmission]
    <2>1. \A h : batch(h) \in [Tx -> Submissions]
      BY <1>0, CopyTypes, TypeFacts
    <2> HIDE DEF batch
    <2>2. \A h : [SubmitIdle EXCEPT !.pc = "queued", !.batch = batch(h)] \in SubmitRecords
      BY Zenon, <2>1, TypeFacts DEF SubmitRecords
    <2>3. submit' \in [Heights -> SubmitRecords]
      BY Zenon, <1>1, <2>2, TypeFacts DEF SubmitOnce, batch
    <2> QED
      BY Zenon, <1>0, <1>1, <2>3 DEF SubmitOnce, TypeOK, BuilderBusy
  <1>2. CASE SubmitRestart
    BY <1>2, TypeFacts DEF SubmitRestart, TypeOK, BuilderBusy
  <1>3. ASSUME NEW h \in Heights, SubmitGroup(h)
        PROVE  TypeOK' /\ BuilderBusy'
    <2> DEFINE batch == [t \in Tx |->
                  IF Matches(expired[t], submit[h].batch[t].generation, "NotSubmitted")
                  THEN submit[h].batch[t] ELSE NoSubmission]
    <2>1. batch \in [Tx -> Submissions]
      BY TypeFacts DEF TypeOK, SubmitRecords
    <2> HIDE DEF batch
    <2>2. [SubmitIdle EXCEPT !.pc = "sent", !.batch = batch] \in SubmitRecords
      BY Zenon, <2>1, TypeFacts DEF SubmitRecords
    <2>3. submit' \in [Heights -> SubmitRecords]
      BY <1>3, <2>2, TypeFacts DEF SubmitGroup, TypeOK, batch
    <2> QED
      BY <1>0, <1>3, <2>3 DEF SubmitGroup, TypeOK, BuilderBusy
  <1>4. ASSUME NEW h \in Heights, NEW accepted \in SUBSET Tx, RcsReceive(h, accepted)
        PROVE  TypeOK' /\ BuilderBusy'
    <2>1. submit[h] \in SubmitRecords /\ submit[h].batch \in [Tx -> Submissions]
      BY DEF TypeOK, SubmitRecords
    <2>2. submit' \in [Heights -> SubmitRecords]
      BY Zenon, <1>4, <2>1 DEF RcsReceive, TypeOK, SubmitRecords
    <2>3. rcs' \in [Tx -> SUBSET Submissions]
      BY <1>4, <2>1 DEF RcsReceive, TypeOK
    <2> QED
      BY <1>4, <2>2, <2>3 DEF RcsReceive, TypeOK, BuilderBusy
  <1>5. ASSUME NEW h \in Heights, SubmitResponse(h)
        PROVE  TypeOK' /\ BuilderBusy'
    <2>a. ASSUME NEW t \in Tx
          PROVE  ApplySubmitResponse(pool[t], submit[h].batch[t].generation,
                                     t \in submit[h].accepted) \in BufferEntry
      <3>1. pool[t] \in BufferEntry /\ (t \in submit[h].accepted) \in BOOLEAN
        BY DEF TypeOK
      <3> QED
        BY Zenon, <3>1, EntryTypes
    <2>1. pool' \in [Tx -> BufferEntry]
      BY <1>5, <2>a DEF SubmitResponse, TypeOK
    <2>2. submit' \in [Heights -> SubmitRecords]
      BY <1>5, TypeFacts DEF SubmitResponse, TypeOK
    <2> QED
      BY SMTT(30), <1>5, <2>1, <2>2 DEF SubmitResponse, TypeOK, BuilderBusy
  <1>6. ASSUME NEW h \in Heights, SubmitError(h)
        PROVE  TypeOK' /\ BuilderBusy'
    <2>1. submit' \in [Heights -> SubmitRecords]
      BY <1>6, TypeFacts DEF SubmitError, TypeOK
    <2> QED
      BY <1>0, <1>6, <2>1 DEF SubmitError, TypeOK, BuilderBusy
  <1> QED
    BY <1>1, <1>2, <1>3, <1>4, <1>5, <1>6 DEF Submitting

\* The query worker keeps the types.
LEMMA QueryingTypes ==
  ASSUME TypeOK, BuilderBusy, Querying
  PROVE  TypeOK' /\ BuilderBusy'
  <1> DEFINE expired == ResolveTotalTimeouts(pool)
  <1>0. expired \in [Tx -> BufferEntry]
    BY TableTypes DEF TypeOK
  <1>a. NextRound \in QueryRecords
    <2>1. /\ query.round \in 1 .. 4 /\ query \in QueryRecords
          /\ QueryIdle.verdicts \in [Tx -> Verdicts]
      BY TypeFacts DEF TypeOK, QueryRecords
    <2>2. query.round # 4 => query.round + 1 \in 1 .. 4
      BY <2>1
    <2>3. {} \in SUBSET Tx
      OBVIOUS
    <2> QED
      BY Zenon, <2>1, <2>2, <2>3, TypeFacts DEF NextRound, QueryRecords
  <1>1. CASE QueryStart
    <2> DEFINE expected == LifecyclesIn(expired, InFlight)
    <2>1. expected \in [Tx -> Generations]
      BY <1>0, TableTypes
    <2> HIDE DEF expected
    <2>2. [QueryIdle EXCEPT !.pc = "ask", !.expected = expected] \in QueryRecords
      BY Zenon, <2>1, TypeFacts DEF QueryRecords
    <2>3. query' \in QueryRecords
      BY <1>1, <2>2, TypeFacts DEF QueryStart, expected
    <2> QED
      BY <1>0, <1>1, <2>3 DEF QueryStart, TypeOK, BuilderBusy
  <1>2. ASSUME NEW rows \in SUBSET (Tx \X RowStatuses), QueryReply(rows)
        PROVE  TypeOK' /\ BuilderBusy'
    <2> DEFINE statusesOf(t) == {r \in RowStatuses : <<t, r>> \in rows}
               verdicts == [t \in Tx |->
                  IF query.expected[t] = 0 THEN "none" ELSE Relevant(statusesOf(t))]
    <2>1. \A statuses : Relevant(statuses) \in Verdicts
      BY DEF Relevant, Verdicts, Rejections
    <2>2. verdicts \in [Tx -> Verdicts]
      BY <2>1 DEF Verdicts
    <2> HIDE DEF verdicts
    <2>3. PICK denials \in SUBSET Tx :
            query' = [query EXCEPT !.pc = "apply", !.verdicts = verdicts, !.denials = denials]
      BY <1>2 DEF QueryReply, verdicts
    <2>4. query' \in QueryRecords
      BY Zenon, <2>2, <2>3 DEF TypeOK, QueryRecords
    <2>5. evidence' = [t \in Tx |-> Learn(t, verdicts[t])]
      BY <1>2 DEF QueryReply, verdicts
    <2>6. evidence' \in [Tx -> SUBSET {"approved", "rejected", "mismatch", "included", "denied"}]
      BY <2>5 DEF Learn, TypeOK
    <2> QED
      BY Zenon, <1>2, <2>4, <2>6 DEF QueryReply, TypeOK, BuilderBusy
  <1>3. CASE QueryApply
    <2>1. pool' \in [Tx -> BufferEntry]
      BY Zenon, <1>3, EntryTypes DEF QueryApply, TypeOK
    <2>2. evidence' \in [Tx -> SUBSET {"approved", "rejected", "mismatch", "included", "denied"}]
      BY <1>3 DEF QueryApply, TypeOK
    <2> QED
      BY <1>a, <1>3, <2>1, <2>2 DEF QueryApply, TypeOK, BuilderBusy
  <1>4. CASE QueryError
    BY <1>0, <1>a, <1>4 DEF QueryError, TypeOK, BuilderBusy
  <1>5. CASE QueryRestart
    BY <1>5, TypeFacts DEF QueryRestart, TypeOK, BuilderBusy
  <1> QED
    BY <1>1, <1>2, <1>3, <1>4, <1>5 DEF Querying

\* The other workers and the node's cleanup tasks keep the types.
LEMMA UpkeepTypes ==
  ASSUME TypeOK, BuilderBusy, Upkeep
  PROVE  TypeOK' /\ BuilderBusy'
  <1>1. CASE TimeoutOnce
    BY <1>1, EntryTypes DEF TimeoutOnce, TypeOK, BuilderBusy
  <1>2. CASE Tick
    BY <1>2, OlderKeeps DEF Tick, TypeOK, BuilderBusy
  <1>3. CASE \E r \in Rules : InstallRules(r)
    BY <1>3 DEF InstallRules, TypeOK, BuilderBusy
  <1>4. CASE \E hashes \in SUBSET Tx : CanonicalCommitted(hashes)
    <2>1. pool' \in [Tx -> BufferEntry]
      BY <1>4, TableTypes DEF CanonicalCommitted, TypeOK
    <2>2. evidence' \in [Tx -> SUBSET {"approved", "rejected", "mismatch", "included", "denied"}]
      BY <1>4 DEF CanonicalCommitted, TypeOK
    <2> QED
      BY <1>4, <2>1, <2>2 DEF CanonicalCommitted, TypeOK, BuilderBusy
  <1>5. CASE CanonicalLagged
    BY <1>5, TableTypes DEF CanonicalLagged, TypeOK, BuilderBusy
  <1>6. CASE ReconcileSnapshot
    BY SMTT(30), <1>6, TableTypes DEF ReconcileSnapshot, TypeOK, BuilderBusy
  <1>7. CASE \E t \in Tx, contained \in BOOLEAN : ReconcileOne(t, contained)
    <2> PICK t \in Tx, contained \in BOOLEAN : ReconcileOne(t, contained)
      BY <1>7
    <2> DEFINE e == RemoveNonTerminalIfGeneration(pool[t], reconcile[t])
    <2>0. e \in BufferEntry
      BY Zenon, EntryTypes DEF TypeOK
    <2> HIDE DEF e
    <2>1. pool' \in [Tx -> BufferEntry]
      <3>1. pool' = pool \/ pool' = [pool EXCEPT ![t] = e]
        BY DEF ReconcileOne, e
      <3> QED
        BY <2>0, <3>1 DEF TypeOK
    <2>2. reconcile' \in [Tx -> Generations]
      BY TypeFacts DEF ReconcileOne, TypeOK
    <2> QED
      BY <1>7, <2>1, <2>2 DEF ReconcileOne, TypeOK, BuilderBusy
  <1> QED
    BY <1>1, <1>2, <1>3, <1>4, <1>5, <1>6, <1>7 DEF Upkeep

\* Types are preserved by every step.
LEMMA NextTypes == TypeOK /\ BuilderBusy /\ [Next]_vars => TypeOK' /\ BuilderBusy'
  <1> SUFFICES ASSUME TypeOK, BuilderBusy, [Next]_vars PROVE TypeOK' /\ BuilderBusy'
    OBVIOUS
  <1>1. CASE UNCHANGED vars
    BY <1>1 DEF vars, TypeOK, BuilderBusy
  <1> QED
    BY <1>1, ScreeningTypes, SubmittingTypes, QueryingTypes, UpkeepTypes DEF Next

\* The tables and the tasks' records always have their types.
THEOREM TypeCorrect == Spec => []TypeOK
  BY InitTypes, NextTypes, PTL DEF Spec
=============================================================================
