------------------------- MODULE RcsFilterInvariant -------------------------
(***************************************************************************)
(* The inductive invariant of RcsFilter, and the submit and query workers:  *)
(* the tasks that carry what they read across an await.                     *)
(*                                                                          *)
(* The argument.  Whatever a task remembers across an await or an unlock is *)
(* a token that carries a generation.  A token whose generation is that of  *)
(* the current entry describes this very lifecycle, because a lifecycle     *)
(* never changes the fields set at insertion and a new one gets a larger    *)
(* generation than any token.  So what is applied through the generation    *)
(* fence is about the entry it is applied to.                               *)
(***************************************************************************)
EXTENDS RcsFilterTypes

-----------------------------------------------------------------------------
(* The inductive invariant.                                                  *)

PoolNumbered == \A t \in Tx : WellNumbered(pool[t], nextGeneration)

\* Every status has its grounds.
PoolGrounded ==
    \A t \in Tx : Grounded(pool[t], Submission(pool[t]) \in rcs[t], evidence[t])

\* A submission in progress that names the current lifecycle carries its quota,
\* and RCS holds what it reported as accepted.
SubmitToken(h, t) ==
    /\ submit[h].batch[t].generation <= nextGeneration
    /\ Present(pool[t]) /\ submit[h].batch[t].generation = pool[t].generation =>
          submit[h].batch[t] = Submission(pool[t])
    /\ submit[h].pc = "answered" /\ t \in submit[h].accepted => submit[h].batch[t] \in rcs[t]
SubmitTokens == \A h \in Heights, t \in Tx : SubmitToken(h, t)

\* A query in progress for the current lifecycle is about a submission RCS
\* holds, and its verdict is on record.
QueryToken(t) ==
    /\ query.expected[t] <= nextGeneration
    /\ Present(pool[t]) /\ query.expected[t] = pool[t].generation =>
          /\ Submission(pool[t]) \in rcs[t]
          /\ query.verdicts[t] = "approved" => "approved" \in evidence[t]
          /\ query.verdicts[t] \in Rejections => "rejected" \in evidence[t]
QueryTokens == \A t \in Tx : QueryToken(t)

\* A snapshot a thread holds of the current lifecycle has its quota and rules.
BuilderToken(b) ==
    LET e == pool[builder[b].tx]
        s == builder[b].seen IN
    builder[b].pc = "existing" =>
        /\ s.generation \in 1 .. nextGeneration
        /\ Present(e) /\ s.generation = e.generation => s.quota = e.quota /\ s.rules = e.rules
BuilderTokens == \A b \in Builders : BuilderToken(b)

Tokens == SubmitTokens /\ QueryTokens /\ BuilderTokens

IInv == TypeOK /\ BuilderBusy /\ PoolNumbered /\ PoolGrounded /\ Tokens

\* What an idle task remembers.
LEMMA IdleFacts ==
  /\ SubmitIdle.pc = "idle" /\ NoSubmission.generation = 0
  /\ \A t \in Tx : SubmitIdle.batch[t] = NoSubmission
  /\ \A t \in Tx : QueryIdle.expected[t] = 0 /\ QueryIdle.verdicts[t] = "none"
  BY DEF SubmitIdle, NoSubmission, QueryIdle, NoLifecycles

\* A number drawn before an insertion is not the one the insertion draws.
LEMMA OlderNumber ==
  ASSUME NEW n \in Nat
  PROVE  /\ \A g \in Nat : g <= n => g <= n + 1 /\ g # n + 1
         /\ \A g \in 1 .. n : g \in 1 .. (n + 1) /\ g # n + 1
  OBVIOUS

\* Two states of one lifecycle stand for the same submission.
LEMMA SameSubmission ==
  ASSUME NEW e, NEW f, SameLifecycle(e, f)
  PROVE  Submission(f) = Submission(e)
  BY DEF SameLifecycle, Submission

\* What a thread copies from an entry.
LEMMA SnapshotFields ==
  ASSUME NEW e
  PROVE  /\ Snapshot(e).generation = e.generation
         /\ Snapshot(e).quota = e.quota /\ Snapshot(e).rules = e.rules
  BY DEF Snapshot

\* The initial state.
LEMMA InitInv == Init => IInv
  <1> SUFFICES ASSUME Init PROVE IInv
    OBVIOUS
  <1>1. TypeOK /\ BuilderBusy
    BY InitTypes
  <1>2. \A t \in Tx : pool[t] = NoEntry
    BY Zenon DEF Init, EmptyPool
  <1>3. PoolNumbered
    BY Zenon, <1>2, NoEntryType DEF PoolNumbered, WellNumbered
  <1>4. PoolGrounded
    BY Zenon, <1>2, GroundedNoEntry DEF PoolGrounded
  <1>5. SubmitTokens
    <2> SUFFICES ASSUME NEW h \in Heights, NEW t \in Tx PROVE SubmitToken(h, t)
      BY DEF SubmitTokens
    <2>1. submit[h] = SubmitIdle /\ nextGeneration = 0 /\ ~Present(pool[t])
      BY <1>2, NoEntryType DEF Init
    <2> QED
      BY <2>1, IdleFacts DEF SubmitToken
  <1>6. QueryTokens
    <2> SUFFICES ASSUME NEW t \in Tx PROVE QueryToken(t)
      BY Zenon DEF QueryTokens
    <2>1. query = QueryIdle /\ nextGeneration = 0 /\ ~Present(pool[t])
      BY <1>2, NoEntryType DEF Init
    <2> QED
      BY <2>1, IdleFacts DEF QueryToken
  <1>7. BuilderTokens
    BY TypeFacts DEF Init, BuilderTokens, BuilderToken
  <1> QED
    BY <1>1, <1>3, <1>4, <1>5, <1>6, <1>7 DEF IInv, Tokens

-----------------------------------------------------------------------------
(* What tokens say is not disturbed by a step that only removes entries or   *)
(* moves them along their lifecycle.                                         *)

EntryKept(e, f) == f = NoEntry \/ SameLifecycle(e, f)

\* No entry is inserted, and nothing RCS received or was found out is lost.
Kept ==
    /\ pool' \in [Tx -> BufferEntry]
    /\ \A t \in Tx : EntryKept(pool[t], pool'[t])
    /\ nextGeneration' = nextGeneration
    /\ \A t \in Tx : rcs[t] \subseteq rcs'[t] /\ evidence[t] \subseteq evidence'[t]

\* An entry that is present after such a step was present before it, and is the
\* same lifecycle.
LEMMA KeptEntry ==
  ASSUME NEW e \in BufferEntry, NEW f \in BufferEntry, EntryKept(e, f), Present(f)
  PROVE  /\ Present(e) /\ f.generation = e.generation /\ f.quota = e.quota
         /\ f.rules = e.rules /\ Submission(f) = Submission(e)
  BY NoEntryType DEF EntryKept, SameLifecycle, Submission

\* The numbering survives.
LEMMA KeptNumbered ==
  ASSUME TypeOK, PoolNumbered, Kept
  PROVE  PoolNumbered'
  <1> SUFFICES ASSUME NEW t \in Tx PROVE WellNumbered(pool'[t], nextGeneration)
    BY DEF PoolNumbered, Kept
  <1>1. pool[t] \in BufferEntry /\ pool'[t] \in BufferEntry /\ EntryKept(pool[t], pool'[t])
    BY DEF TypeOK, Kept
  <1>2. WellNumbered(pool[t], nextGeneration)
    BY DEF PoolNumbered
  <1> QED
    BY <1>1, <1>2, NoEntryType DEF EntryKept, SameLifecycle, WellNumbered

\* The submit worker's tokens survive.
LEMMA KeptSubmit ==
  ASSUME TypeOK, SubmitTokens, Kept, NEW h \in Heights, submit'[h] = submit[h]
  PROVE  \A t \in Tx : SubmitToken(h, t)'
  <1> SUFFICES ASSUME NEW t \in Tx PROVE SubmitToken(h, t)'
    OBVIOUS
  <1>1. pool[t] \in BufferEntry /\ pool'[t] \in BufferEntry /\ EntryKept(pool[t], pool'[t])
    BY DEF TypeOK, Kept
  <1>2. SubmitToken(h, t)
    BY DEF SubmitTokens
  <1> QED
    BY <1>1, <1>2, KeptEntry DEF SubmitToken, Kept

\* The query worker's tokens survive.
LEMMA KeptQuery ==
  ASSUME TypeOK, QueryTokens, Kept, query' = query
  PROVE  QueryTokens'
  <1> SUFFICES ASSUME NEW t \in Tx PROVE QueryToken(t)'
    BY DEF QueryTokens
  <1>1. pool[t] \in BufferEntry /\ pool'[t] \in BufferEntry /\ EntryKept(pool[t], pool'[t])
    BY DEF TypeOK, Kept
  <1>2. QueryToken(t)
    BY DEF QueryTokens
  <1> QED
    BY <1>1, <1>2, KeptEntry DEF QueryToken, Kept

\* A thread's token survives.
LEMMA KeptBuilder ==
  ASSUME TypeOK, BuilderBusy, BuilderTokens, Kept, NEW b \in Builders, builder'[b] = builder[b]
  PROVE  BuilderToken(b)'
  <1> SUFFICES ASSUME builder[b].pc = "existing" PROVE BuilderToken(b)'
    BY DEF BuilderToken
  <1> DEFINE t == builder[b].tx
  <1>0. t \in Tx
    BY DEF BuilderBusy
  <1>1. pool[t] \in BufferEntry /\ pool'[t] \in BufferEntry /\ EntryKept(pool[t], pool'[t])
    BY <1>0 DEF TypeOK, Kept
  <1>2. BuilderToken(b)
    BY DEF BuilderTokens
  <1> QED
    BY <1>1, <1>2, KeptEntry DEF BuilderToken, Kept

\* An idle submit call remembers no lifecycle.
LEMMA IdleSubmit ==
  ASSUME PoolNumbered', TypeOK', NEW h \in Heights, submit'[h] = SubmitIdle
  PROVE  \A t \in Tx : SubmitToken(h, t)'
  <1> SUFFICES ASSUME NEW t \in Tx PROVE SubmitToken(h, t)'
    OBVIOUS
  <1>1. Present(pool'[t]) => pool'[t].generation # 0
    BY DEF PoolNumbered, WellNumbered
  <1>2. nextGeneration' >= 0
    BY DEF TypeOK, Generations
  <1> QED
    BY <1>1, <1>2, IdleFacts DEF SubmitToken

\* An idle query worker remembers no lifecycle.
LEMMA IdleQuery ==
  ASSUME PoolNumbered', TypeOK', query' = QueryIdle
  PROVE  QueryTokens'
  <1> SUFFICES ASSUME NEW t \in Tx PROVE QueryToken(t)'
    BY DEF QueryTokens
  <1>1. Present(pool'[t]) => pool'[t].generation # 0
    BY DEF PoolNumbered, WellNumbered
  <1>2. nextGeneration' >= 0
    BY DEF TypeOK, Generations
  <1> QED
    BY <1>1, <1>2, IdleFacts DEF QueryToken

\* The next status of a pass: the verdicts are gone, the lifecycles are not.
LEMMA NextRoundQuery ==
  ASSUME TypeOK, QueryTokens, Kept, PoolNumbered', TypeOK', query' = NextRound
  PROVE  QueryTokens'
  <1>1. CASE query' = QueryIdle
    BY <1>1, IdleQuery
  <1>2. CASE query' = [query EXCEPT !.pc = "ask", !.round = @ + 1,
                                     !.verdicts = QueryIdle.verdicts, !.denials = {}]
    <2> SUFFICES ASSUME NEW t \in Tx PROVE QueryToken(t)'
      BY DEF QueryTokens
    <2>1. pool[t] \in BufferEntry /\ pool'[t] \in BufferEntry /\ EntryKept(pool[t], pool'[t])
      BY DEF TypeOK, Kept
    <2>2. QueryToken(t)
      BY DEF QueryTokens
    <2>3. query'.expected[t] = query.expected[t] /\ query'.verdicts[t] = "none"
      BY <1>2, IdleFacts DEF TypeOK, QueryRecords
    <2> QED
      BY <2>1, <2>2, <2>3, KeptEntry DEF QueryToken, Kept, Rejections
  <1> QED
    BY <1>1, <1>2 DEF NextRound

\* The deadline is applied to the whole table.
LEMMA ResolveKept ==
  ASSUME TypeOK, PoolGrounded, pool' = ResolveTotalTimeouts(pool),
         UNCHANGED <<nextGeneration, rcs, evidence>>
  PROVE  Kept /\ PoolGrounded'
  <1>1. \A t \in Tx : pool[t] \in BufferEntry /\ pool'[t] = ResolveTotalTimeout(pool[t])
    BY DEF TypeOK, ResolveTotalTimeouts
  <1>2. Kept
    BY <1>1, ResolveKeeps, TableTypes DEF Kept, EntryKept, TypeOK
  <1>3. ASSUME NEW t \in Tx
        PROVE  Grounded(pool[t], Submission(pool[t]) \in rcs[t], evidence[t])'
    <2>1. Grounded(pool[t], Submission(pool[t]) \in rcs[t], evidence[t])
      BY DEF PoolGrounded
    <2>2. Grounded(pool'[t], Submission(pool[t]) \in rcs[t], evidence[t])
      BY <1>1, <2>1, GroundedResolve
    <2>3. Submission(pool'[t]) = Submission(pool[t])
      BY <1>1, ResolveKeeps DEF SameLifecycle, Submission
    <2> QED
      BY <2>2, <2>3
  <1> QED
    BY <1>2, <1>3 DEF PoolGrounded

\* Nothing the argument is about changes.
LEMMA UnchangedKept ==
  ASSUME TypeOK, PoolGrounded, UNCHANGED <<pool, nextGeneration, rcs, evidence>>
  PROVE  Kept /\ PoolGrounded'
  <1>1. \A t \in Tx : SameLifecycle(pool[t], pool[t])
    BY SameSelf DEF TypeOK
  <1> QED
    BY <1>1 DEF Kept, EntryKept, TypeOK, PoolGrounded

-----------------------------------------------------------------------------
(* One lemma per group of actions.                                           *)

\* A step that keeps entries, submit calls, queries and threads as they are.
LEMMA QuietStep ==
  ASSUME IInv, Kept, PoolGrounded', TypeOK', BuilderBusy', UNCHANGED <<builder, submit, query>>
  PROVE  IInv'
  <1>1. PoolNumbered'
    BY KeptNumbered DEF IInv
  <1>2. SubmitTokens'
    BY KeptSubmit DEF IInv, Tokens, SubmitTokens
  <1>3. QueryTokens'
    BY KeptQuery DEF IInv, Tokens
  <1>4. BuilderTokens'
    BY KeptBuilder DEF IInv, Tokens, BuilderTokens
  <1> QED
    BY <1>1, <1>2, <1>3, <1>4 DEF IInv, Tokens

\* A step of the submit worker.
LEMMA SubmitStep ==
  ASSUME IInv, Kept, PoolGrounded', TypeOK', BuilderBusy', UNCHANGED <<builder, query>>,
         SubmitTokens'
  PROVE  IInv'
  <1>1. PoolNumbered'
    BY KeptNumbered DEF IInv
  <1>3. QueryTokens'
    BY KeptQuery DEF IInv, Tokens
  <1>4. BuilderTokens'
    BY KeptBuilder DEF IInv, Tokens, BuilderTokens
  <1> QED
    BY <1>1, <1>3, <1>4 DEF IInv, Tokens

\* A step of the query worker.
LEMMA QueryStep ==
  ASSUME IInv, Kept, PoolGrounded', TypeOK', BuilderBusy', UNCHANGED <<builder, submit>>,
         QueryTokens'
  PROVE  IInv'
  <1>1. PoolNumbered'
    BY KeptNumbered DEF IInv
  <1>2. SubmitTokens'
    BY KeptSubmit DEF IInv, Tokens, SubmitTokens
  <1>4. BuilderTokens'
    BY KeptBuilder DEF IInv, Tokens, BuilderTokens
  <1> QED
    BY <1>1, <1>2, <1>4 DEF IInv, Tokens

\* A step of one thread that inserts nothing.
LEMMA BuilderStep ==
  ASSUME IInv, Kept, PoolGrounded', TypeOK', BuilderBusy', UNCHANGED <<submit, query>>,
         NEW b \in Builders, \A c \in Builders \ {b} : builder'[c] = builder[c],
         BuilderToken(b)'
  PROVE  IInv'
  <1>1. PoolNumbered'
    BY KeptNumbered DEF IInv
  <1>2. SubmitTokens'
    BY KeptSubmit DEF IInv, Tokens, SubmitTokens
  <1>3. QueryTokens'
    BY KeptQuery DEF IInv, Tokens
  <1>4. BuilderTokens'
    <2> SUFFICES ASSUME NEW c \in Builders \ {b} PROVE BuilderToken(c)'
      BY DEF BuilderTokens
    <2> QED
      BY KeptBuilder DEF IInv, Tokens
  <1> QED
    BY <1>1, <1>2, <1>3, <1>4 DEF IInv, Tokens

\* The submit worker.
LEMMA SubmittingInv ==
  ASSUME IInv, Submitting
  PROVE  IInv'
  <1> /\ TypeOK /\ BuilderBusy /\ PoolNumbered /\ PoolGrounded
      /\ SubmitTokens /\ QueryTokens /\ BuilderTokens
    BY DEF IInv, Tokens
  <1>0. TypeOK' /\ BuilderBusy'
    BY SubmittingTypes
  <1> DEFINE expired == ResolveTotalTimeouts(pool)
  <1>1. CASE SubmitOnce
    <2>1. Kept /\ PoolGrounded'
      BY Zenon, <1>1, ResolveKept DEF SubmitOnce
    <2>2. PoolNumbered'
      BY <2>1, KeptNumbered
    <2>3. ASSUME NEW h \in Heights, NEW t \in Tx PROVE SubmitToken(h, t)'
      <3>1. CASE submit'[h] = SubmitIdle
        BY <1>0, <2>2, <3>1, IdleSubmit
      <3>2. CASE submit'[h] # SubmitIdle
        <4> DEFINE due == {u \in Tx : expired[u].status = "NotSubmitted" /\ expired[u].height = h}
                   batch == [u \in Tx |-> IF u \in due THEN Submission(expired[u]) ELSE NoSubmission]
        <4>1. submit'[h] = [SubmitIdle EXCEPT !.pc = "queued", !.batch = batch]
          BY Zenon, <1>1, <3>2 DEF SubmitOnce
        <4>2. submit'[h].pc = "queued" /\ submit'[h].batch[t] = batch[t]
          BY <4>1 DEF SubmitIdle
        <4>3. batch[t] = Submission(pool'[t]) \/ batch[t] = NoSubmission
          BY Zenon, <1>1 DEF SubmitOnce
        <4> HIDE DEF batch
        <4>4. WellNumbered(pool'[t], nextGeneration') /\ nextGeneration' \in Nat
          BY <1>0, <2>2 DEF PoolNumbered, TypeOK, Generations
        <4>5. Submission(pool'[t]).generation = pool'[t].generation
          BY DEF Submission
        <4> QED
          BY <4>2, <4>3, <4>4, <4>5, IdleFacts DEF SubmitToken, WellNumbered
      <3> QED
        BY <3>1, <3>2
    <2> QED
      BY Zenon, <1>0, <1>1, <2>1, <2>3, SubmitStep DEF SubmitOnce, SubmitTokens
  <1>2. CASE SubmitRestart
    <2>1. Kept /\ PoolGrounded'
      BY <1>2, UnchangedKept DEF SubmitRestart
    <2>2. PoolNumbered'
      BY <2>1, KeptNumbered
    <2>3. SubmitTokens'
      BY <1>0, <1>2, <2>2, IdleSubmit DEF SubmitRestart, SubmitTokens
    <2> QED
      BY <1>0, <1>2, <2>1, <2>3, SubmitStep DEF SubmitRestart
  <1>3. ASSUME NEW h \in Heights, SubmitGroup(h)
        PROVE  IInv'
    <2>1. Kept /\ PoolGrounded'
      BY <1>3, ResolveKept DEF SubmitGroup
    <2>2. PoolNumbered'
      BY <2>1, KeptNumbered
    <2>3. ASSUME NEW t \in Tx PROVE SubmitToken(h, t)'
      <3>1. CASE submit'[h] = SubmitIdle
        BY SMTT(30), <1>0, <2>2, <3>1, IdleSubmit
      <3>2. CASE submit'[h] # SubmitIdle
        <4> DEFINE batch == [u \in Tx |->
                      IF Matches(expired[u], submit[h].batch[u].generation, "NotSubmitted")
                      THEN submit[h].batch[u] ELSE NoSubmission]
        <4>1. submit'[h] = [SubmitIdle EXCEPT !.pc = "sent", !.batch = batch]
          BY <1>3, <3>2 DEF SubmitGroup, TypeOK
        <4>2. submit'[h].pc = "sent" /\ submit'[h].batch[t] = batch[t]
          BY <4>1 DEF SubmitIdle
        <4>3. batch[t] = submit[h].batch[t] \/ batch[t] = NoSubmission
          OBVIOUS
        <4> HIDE DEF batch
        <4>4. WellNumbered(pool'[t], nextGeneration') /\ nextGeneration' \in Nat
          BY <1>0, <2>2 DEF PoolNumbered, TypeOK, Generations
        <4>5. SubmitToken(h, t)
          BY DEF SubmitTokens
        <4>6. pool[t] \in BufferEntry /\ pool'[t] \in BufferEntry /\ EntryKept(pool[t], pool'[t])
          BY <2>1 DEF TypeOK, Kept
        <4>7. nextGeneration' = nextGeneration
          BY <2>1 DEF Kept
        <4> QED
          BY SMTT(30), <4>2, <4>3, <4>4, <4>5, <4>6, <4>7, IdleFacts, KeptEntry DEF SubmitToken, WellNumbered
      <3> QED
        BY <3>1, <3>2
    <2>4. ASSUME NEW k \in Heights \ {h} PROVE \A t \in Tx : SubmitToken(k, t)'
      <3>1. submit'[k] = submit[k]
        BY <1>3 DEF SubmitGroup, TypeOK
      <3> QED
        BY <2>1, <3>1, KeptSubmit
    <2> QED
      BY <1>0, <1>3, <2>1, <2>3, <2>4, SubmitStep DEF SubmitGroup, SubmitTokens
  <1>4. ASSUME NEW h \in Heights, NEW accepted \in SUBSET Tx, RcsReceive(h, accepted)
        PROVE  IInv'
    <2>1. \A t \in Tx : rcs[t] \subseteq rcs'[t]
      BY <1>4 DEF RcsReceive, TypeOK
    <2>2. Kept
      <3>1. \A t \in Tx : SameLifecycle(pool[t], pool[t])
        BY SameSelf DEF TypeOK
      <3> QED
        BY <1>4, <2>1, <3>1 DEF Kept, EntryKept, TypeOK, RcsReceive
    <2>3. PoolGrounded'
      <3> SUFFICES ASSUME NEW t \in Tx
                   PROVE  Grounded(pool[t], Submission(pool[t]) \in rcs'[t], evidence[t])
        BY <1>4 DEF PoolGrounded, RcsReceive
      <3>1. Grounded(pool[t], Submission(pool[t]) \in rcs[t], evidence[t])
        BY DEF PoolGrounded
      <3>2. Submission(pool[t]) \in rcs[t] => Submission(pool[t]) \in rcs'[t]
        BY SMTT(30), <2>1
      <3> QED
        BY <3>1, <3>2 DEF Grounded
    <2>4. ASSUME NEW t \in Tx PROVE SubmitToken(h, t)'
      <3>1. /\ submit'[h].batch = submit[h].batch /\ submit'[h].accepted = accepted
        BY <1>4 DEF RcsReceive, TypeOK, SubmitRecords
      <3>2. t \in accepted => submit[h].batch[t] \in rcs'[t]
        BY <1>4 DEF RcsReceive
      <3>3. SubmitToken(h, t)
        BY DEF SubmitTokens
      <3> QED
        BY <1>4, <3>1, <3>2, <3>3 DEF SubmitToken, RcsReceive
    <2>5. ASSUME NEW k \in Heights \ {h} PROVE \A t \in Tx : SubmitToken(k, t)'
      <3>1. submit'[k] = submit[k]
        BY <1>4 DEF RcsReceive, TypeOK
      <3> QED
        BY <2>2, <3>1, KeptSubmit
    <2> QED
      BY <1>0, <1>4, <2>2, <2>3, <2>4, <2>5, SubmitStep DEF RcsReceive, SubmitTokens
  <1>5. ASSUME NEW h \in Heights, SubmitResponse(h)
        PROVE  IInv'
    <2>1. ASSUME NEW t \in Tx
          PROVE  /\ SameLifecycle(pool[t], pool'[t])
                 /\ Grounded(pool'[t], Submission(pool'[t]) \in rcs[t], evidence[t])
      <3> DEFINE e == pool[t]
                 g == submit[h].batch[t].generation
                 accepted == t \in submit[h].accepted
                 received == Submission(e) \in rcs[t]
      <3>1. e \in BufferEntry /\ Grounded(e, received, evidence[t])
        BY SMTT(30) DEF TypeOK, PoolGrounded
      <3>2. SubmitToken(h, t)
        BY DEF SubmitTokens
      <3>3. e.generation = g /\ accepted /\ Present(e) => received
        BY <1>5, <3>2 DEF SubmitToken, SubmitResponse
      <3>4. accepted \in BOOLEAN
        OBVIOUS
      <3>5. LET f == ApplySubmitResponse(e, g, accepted) IN
            SameLifecycle(e, f) /\ Grounded(f, received, evidence[t])
        <4> HIDE DEF e, g, accepted, received
        <4> QED
          BY <3>1, <3>3, <3>4, GroundedSubmitResponse
      <3>6. SameLifecycle(e, e)
        BY <3>1, SameSelf
      <3>7. pool'[t] = e \/ pool'[t] = ApplySubmitResponse(e, g, accepted)
        BY SMTT(30), <1>5 DEF SubmitResponse
      <3>8. SameLifecycle(e, pool'[t]) /\ Grounded(pool'[t], received, evidence[t])
        BY <3>1, <3>5, <3>6, <3>7
      <3>9. Submission(pool'[t]) = Submission(e)
        BY SMTT(30), <3>8, SameSubmission
      <3> QED
        BY <3>8, <3>9
    <2>2. Kept
      BY SMTT(30), <1>0, <1>5, <2>1 DEF Kept, EntryKept, TypeOK, SubmitResponse
    <2>3. PoolGrounded'
      BY <1>5, <2>1 DEF PoolGrounded, SubmitResponse
    <2>4. PoolNumbered'
      BY <2>2, KeptNumbered
    <2>5. submit'[h] = SubmitIdle /\ \A k \in Heights \ {h} : submit'[k] = submit[k]
      BY <1>5 DEF SubmitResponse, TypeOK
    <2>6. SubmitTokens'
      BY <1>0, <2>2, <2>4, <2>5, IdleSubmit, KeptSubmit DEF SubmitTokens
    <2> QED
      BY <1>0, <1>5, <2>2, <2>3, <2>6, SubmitStep DEF SubmitResponse
  <1>6. ASSUME NEW h \in Heights, SubmitError(h)
        PROVE  IInv'
    <2>1. Kept /\ PoolGrounded'
      BY <1>6, ResolveKept DEF SubmitError
    <2>2. PoolNumbered'
      BY <2>1, KeptNumbered
    <2>3. submit'[h] = SubmitIdle /\ \A k \in Heights \ {h} : submit'[k] = submit[k]
      BY SMTT(30), <1>6 DEF SubmitError, TypeOK
    <2>4. SubmitTokens'
      BY <1>0, <2>1, <2>2, <2>3, IdleSubmit, KeptSubmit DEF SubmitTokens
    <2> QED
      BY <1>0, <1>6, <2>1, <2>4, SubmitStep DEF SubmitError
  <1> QED
    BY <1>1, <1>2, <1>3, <1>4, <1>5, <1>6 DEF Submitting

\* The query worker.
LEMMA QueryingInv ==
  ASSUME IInv, Querying
  PROVE  IInv'
  <1> /\ TypeOK /\ BuilderBusy /\ PoolNumbered /\ PoolGrounded
      /\ SubmitTokens /\ QueryTokens /\ BuilderTokens
    BY DEF IInv, Tokens
  <1>0. TypeOK' /\ BuilderBusy'
    BY QueryingTypes
  <1>1. CASE QueryStart
    <2> DEFINE expired == ResolveTotalTimeouts(pool)
               expected == LifecyclesIn(expired, InFlight)
    <2>1. Kept /\ PoolGrounded'
      BY <1>1, ResolveKept DEF QueryStart
    <2>2. PoolNumbered'
      BY <2>1, KeptNumbered
    <2>3. CASE query' = QueryIdle
      BY <1>0, <1>1, <2>1, <2>2, <2>3, IdleQuery, QueryStep DEF QueryStart
    <2>4. CASE query' = [QueryIdle EXCEPT !.pc = "ask", !.expected = expected]
      <3>1. ASSUME NEW t \in Tx PROVE QueryToken(t)'
        <4>1. query'.expected[t] = expected[t] /\ query'.verdicts[t] = "none"
          BY <2>4 DEF QueryIdle
        <4>2. pool' = expired
          BY <1>1 DEF QueryStart
        <4>3. expected[t] = IF pool'[t].status \in InFlight THEN pool'[t].generation ELSE 0
          BY <4>2 DEF LifecyclesIn
        <4>4. WellNumbered(pool'[t], nextGeneration') /\ nextGeneration' \in Nat
          BY <1>0, <2>2 DEF PoolNumbered, TypeOK, Generations
        <4>5. pool'[t].status \in InFlight => Submission(pool'[t]) \in rcs'[t]
          BY <2>1 DEF PoolGrounded, Grounded
        <4> HIDE DEF expected
        <4> QED
          BY <4>1, <4>3, <4>4, <4>5 DEF QueryToken, WellNumbered, Rejections
      <3> QED
        BY SMTT(30), <1>0, <1>1, <2>1, <3>1, QueryStep DEF QueryStart, QueryTokens
    <2> QED
      BY <1>1, <2>3, <2>4 DEF QueryStart
  <1>2. ASSUME NEW rows \in SUBSET (Tx \X RowStatuses), QueryReply(rows)
        PROVE  IInv'
    <2> DEFINE statusesOf(t) == {r \in RowStatuses : <<t, r>> \in rows}
               verdicts == [t \in Tx |->
                  IF query.expected[t] = 0 THEN "none" ELSE Relevant(statusesOf(t))]
    <2>0. PICK denials :
            query' = [query EXCEPT !.pc = "apply", !.verdicts = verdicts, !.denials = denials]
      BY <1>2 DEF QueryReply
    <2>1. evidence' = [t \in Tx |-> Learn(t, verdicts[t])]
      BY <1>2 DEF QueryReply
    <2> HIDE DEF verdicts
    <2>2. \A t \in Tx : evidence[t] \subseteq evidence'[t]
      BY <2>1 DEF Learn
    <2>3. Kept
      <3>1. \A t \in Tx : SameLifecycle(pool[t], pool[t])
        BY SameSelf DEF TypeOK
      <3> QED
        BY Zenon, <1>2, <2>2, <3>1 DEF Kept, EntryKept, TypeOK, QueryReply
    <2>4. PoolGrounded'
      <3> SUFFICES ASSUME NEW t \in Tx
                   PROVE  Grounded(pool[t], Submission(pool[t]) \in rcs[t], evidence'[t])
        BY SMTT(30), <1>2 DEF PoolGrounded, QueryReply
      <3>1. Grounded(pool[t], Submission(pool[t]) \in rcs[t], evidence[t])
        BY DEF PoolGrounded
      <3> QED
        BY <2>2, <3>1 DEF Grounded
    <2>5. ASSUME NEW t \in Tx PROVE QueryToken(t)'
      <3>1. query'.expected[t] = query.expected[t] /\ query'.verdicts[t] = verdicts[t]
        BY <2>0 DEF TypeOK, QueryRecords
      <3>2. QueryToken(t)
        BY DEF QueryTokens
      <3>3. Present(pool[t]) /\ Submission(pool[t]) \in rcs[t] =>
              /\ verdicts[t] = "approved" => "approved" \in evidence'[t]
              /\ verdicts[t] \in Rejections => "rejected" \in evidence'[t]
        BY Zenon, <2>1 DEF Learn
      <3> QED
        BY <1>2, <3>1, <3>2, <3>3 DEF QueryToken, QueryReply
    <2> QED
      BY <1>0, <1>2, <2>3, <2>4, <2>5, QueryStep DEF QueryReply, QueryTokens
  <1>3. CASE QueryApply
    <2>1. ASSUME NEW t \in Tx
          PROVE  /\ SameLifecycle(pool[t], pool'[t])
                 /\ Grounded(pool'[t], Submission(pool'[t]) \in rcs[t], evidence[t])
      <3> DEFINE e == pool[t]
                 g == query.expected[t]
                 verdict == query.verdicts[t]
                 received == Submission(e) \in rcs[t]
      <3>1. e \in BufferEntry /\ Grounded(e, received, evidence[t])
        BY DEF TypeOK, PoolGrounded
      <3>2. QueryToken(t)
        BY SMTT(30) DEF QueryTokens
      <3>3. e.generation = g /\ Present(e) =>
              /\ received
              /\ verdict = "approved" => "approved" \in evidence[t]
              /\ verdict \in {"denied", "outdated"} => "rejected" \in evidence[t]
        BY SMTT(30), <3>2 DEF QueryToken, Rejections
      <3>5. LET f == ApplyQueryStatus(e, g, verdict) IN
            SameLifecycle(e, f) /\ Grounded(f, received, evidence[t])
        <4> HIDE DEF e, g, verdict, received
        <4> QED
          BY <3>1, <3>3, GroundedQueryStatus
      <3>6. SameLifecycle(e, e)
        BY <3>1, SameSelf
      <3>7. pool'[t] = e \/ pool'[t] = ApplyQueryStatus(e, g, verdict)
        BY SMTT(30), <1>3 DEF QueryApply
      <3>8. SameLifecycle(e, pool'[t]) /\ Grounded(pool'[t], received, evidence[t])
        BY SMTT(30), <3>1, <3>5, <3>6, <3>7
      <3>9. Submission(pool'[t]) = Submission(e)
        BY SMTT(30), <3>8, SameSubmission
      <3> QED
        BY <3>8, <3>9
    <2>a. \A t \in Tx : evidence[t] \subseteq evidence'[t]
      BY <1>3 DEF QueryApply
    <2>2. Kept
      <3>1. UNCHANGED <<nextGeneration, rcs>>
        BY <1>3 DEF QueryApply
      <3> QED
        BY <1>0, <2>1, <2>a, <3>1 DEF Kept, EntryKept, TypeOK
    <2>3. PoolGrounded'
      <3> SUFFICES ASSUME NEW t \in Tx
                   PROVE  Grounded(pool'[t], Submission(pool'[t]) \in rcs[t], evidence'[t])
        BY SMTT(30), <1>3 DEF PoolGrounded, QueryApply
      <3> QED
        BY <2>1, <2>a DEF Grounded
    <2>4. PoolNumbered'
      BY <2>2, KeptNumbered
    <2>5. QueryTokens'
      BY <1>0, <1>3, <2>2, <2>4, NextRoundQuery DEF QueryApply
    <2> QED
      BY SMTT(30), <1>0, <1>3, <2>2, <2>3, <2>5, QueryStep DEF QueryApply
  <1>4. CASE QueryError
    <2>1. Kept /\ PoolGrounded'
      BY <1>4, ResolveKept DEF QueryError
    <2>2. PoolNumbered'
      BY <2>1, KeptNumbered
    <2>3. QueryTokens'
      BY <1>0, <1>4, <2>1, <2>2, NextRoundQuery DEF QueryError
    <2> QED
      BY <1>0, <1>4, <2>1, <2>3, QueryStep DEF QueryError
  <1>5. CASE QueryRestart
    <2>1. Kept /\ PoolGrounded'
      BY <1>5, UnchangedKept DEF QueryRestart
    <2>2. PoolNumbered'
      BY <2>1, KeptNumbered
    <2> QED
      BY <1>0, <1>5, <2>1, <2>2, IdleQuery, QueryStep DEF QueryRestart
  <1> QED
    BY <1>1, <1>2, <1>3, <1>4, <1>5 DEF Querying

=============================================================================
