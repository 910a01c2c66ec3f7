-------------------------- MODULE RcsFilterSafety ---------------------------
(***************************************************************************)
(* The safety properties of RcsFilter, for any number of transactions,      *)
(* threads, heights, rule sets and lifecycles and any timeouts.  The other  *)
(* groups of actions preserve the invariant of RcsFilterInvariant too.      *)
(***************************************************************************)
EXTENDS RcsFilterInvariant

\* The timeout and rules workers, the clock and the node's cleanup tasks.
LEMMA UpkeepInv ==
  ASSUME IInv, Upkeep
  PROVE  IInv'
  <1> /\ TypeOK /\ BuilderBusy /\ PoolNumbered /\ PoolGrounded
      /\ SubmitTokens /\ QueryTokens /\ BuilderTokens
    BY DEF IInv, Tokens
  <1>0. TypeOK' /\ BuilderBusy'
    BY UpkeepTypes
  \* It is enough to look at one entry.
  <1>a. ASSUME UNCHANGED <<nextGeneration, builder, submit, query, rcs>>,
               \A t \in Tx : evidence[t] \subseteq evidence'[t],
               \A t \in Tx :
                  \/ pool'[t] = NoEntry
                  \/ /\ SameLifecycle(pool[t], pool'[t])
                     /\ Grounded(pool'[t], Submission(pool[t]) \in rcs[t], evidence[t])
        PROVE  IInv'
    <2>1. Kept
      BY <1>0, <1>a DEF Kept, EntryKept, TypeOK
    <2>2. PoolGrounded'
      <3> SUFFICES ASSUME NEW t \in Tx
                   PROVE  Grounded(pool'[t], Submission(pool'[t]) \in rcs[t], evidence'[t])
        BY <1>a DEF PoolGrounded
      <3>1. CASE pool'[t] = NoEntry
        BY <3>1, GroundedNoEntry
      <3>2. CASE /\ SameLifecycle(pool[t], pool'[t])
                 /\ Grounded(pool'[t], Submission(pool[t]) \in rcs[t], evidence[t])
        <4>1. Submission(pool'[t]) = Submission(pool[t])
          BY <3>2, SameSubmission
        <4>2. evidence[t] \subseteq evidence'[t]
          BY <1>a
        <4> QED
          BY <3>2, <4>1, <4>2 DEF Grounded
      <3> QED
        BY <1>a, <3>1, <3>2
    <2> QED
      BY <1>0, <1>a, <2>1, <2>2, QuietStep
  <1>b. \A t \in Tx :
          /\ pool[t] \in BufferEntry
          /\ Grounded(pool[t], Submission(pool[t]) \in rcs[t], evidence[t])
          /\ SameLifecycle(pool[t], pool[t])
    <2>1. \A t \in Tx : pool[t] \in BufferEntry
      BY DEF TypeOK
    <2>2. \A t \in Tx : SameLifecycle(pool[t], pool[t])
      BY Zenon, <2>1, SameSelf
    <2> QED
      BY Zenon, <2>1, <2>2 DEF PoolGrounded
  <1>1. CASE TimeoutOnce
    <2>1. ASSUME NEW t \in Tx
          PROVE  \/ pool'[t] = NoEntry
                 \/ /\ SameLifecycle(pool[t], pool'[t])
                    /\ Grounded(pool'[t], Submission(pool[t]) \in rcs[t], evidence[t])
      <3>1. pool'[t] = NoEntry \/ pool'[t] = CheckTimeouts(pool[t])
        BY <1>1 DEF TimeoutOnce, PruneTerminal
      <3> QED
        BY <1>b, <3>1, GroundedCheckTimeouts
    <2>2. UNCHANGED <<nextGeneration, builder, submit, query, rcs, evidence>>
      BY <1>1 DEF TimeoutOnce
    <2> QED
      BY <1>a, <2>1, <2>2
  <1>2. CASE Tick
    <2>1. ASSUME NEW t \in Tx
          PROVE  /\ SameLifecycle(pool[t], pool'[t])
                 /\ Grounded(pool'[t], Submission(pool[t]) \in rcs[t], evidence[t])
      <3>1. pool'[t] = Older(pool[t])
        BY <1>2 DEF Tick
      <3> QED
        BY <1>b, <3>1, OlderKeeps, GroundedLater
    <2>2. UNCHANGED <<nextGeneration, builder, submit, query, rcs, evidence>>
      BY <1>2 DEF Tick
    <2> QED
      BY <1>a, <2>1, <2>2
  <1>3. CASE \E r \in Rules : InstallRules(r)
    <2>1. UNCHANGED <<pool, nextGeneration, builder, submit, query, rcs, evidence>>
      BY <1>3 DEF InstallRules
    <2>2. Kept /\ PoolGrounded'
      BY <2>1, UnchangedKept
    <2> QED
      BY <1>0, <2>1, <2>2, QuietStep
  <1>4. CASE \E hashes \in SUBSET Tx : CanonicalCommitted(hashes)
    <2>1. \A t \in Tx : pool'[t] = NoEntry \/ pool'[t] = pool[t]
      BY <1>4 DEF CanonicalCommitted, RemoveCanonical
    <2>2. \A t \in Tx : evidence[t] \subseteq evidence'[t]
      BY <1>4 DEF CanonicalCommitted
    <2>3. UNCHANGED <<nextGeneration, builder, submit, query, rcs>>
      BY <1>4 DEF CanonicalCommitted
    <2>4. \A t \in Tx :
                  \/ pool'[t] = NoEntry
                  \/ /\ SameLifecycle(pool[t], pool'[t])
                     /\ Grounded(pool'[t], Submission(pool[t]) \in rcs[t], evidence[t])
      BY <1>b, <2>1
    <2> QED
      BY <1>a, <2>2, <2>3, <2>4
  <1>5. CASE CanonicalLagged
    <2>1. \A t \in Tx : pool'[t] = NoEntry \/ pool'[t] = pool[t]
      BY <1>5 DEF CanonicalLagged, RecoverAfterCanonicalLag
    <2>2. UNCHANGED <<nextGeneration, builder, submit, query, rcs, evidence>>
      BY <1>5 DEF CanonicalLagged
    <2> QED
      BY <1>a, <1>b, <2>1, <2>2
  <1>6. CASE ReconcileSnapshot
    <2>1. UNCHANGED <<pool, nextGeneration, builder, submit, query, rcs, evidence>>
      BY <1>6 DEF ReconcileSnapshot
    <2>2. Kept /\ PoolGrounded'
      BY <2>1, UnchangedKept
    <2> QED
      BY <1>0, <2>1, <2>2, QuietStep
  <1>7. CASE \E t \in Tx, contained \in BOOLEAN : ReconcileOne(t, contained)
    <2>1. \A t \in Tx : pool'[t] = NoEntry \/ pool'[t] = pool[t]
      BY <1>7 DEF ReconcileOne, RemoveNonTerminalIfGeneration, TypeOK
    <2>2. UNCHANGED <<nextGeneration, builder, submit, query, rcs, evidence>>
      BY <1>7 DEF ReconcileOne
    <2> QED
      BY <1>a, <1>b, <2>1, <2>2
  <1> QED
    BY <1>1, <1>2, <1>3, <1>4, <1>5, <1>6, <1>7 DEF Upkeep

\* A thread moves on and remembers either nothing or the entry as it is now.
LEMMA ThreadStep ==
  ASSUME IInv, TypeOK', BuilderBusy', NEW b \in Builders,
         UNCHANGED <<pool, nextGeneration, submit, query, rcs, evidence>>,
         \A c \in Builders \ {b} : builder'[c] = builder[c],
         builder'[b].pc = "existing" =>
            /\ builder'[b].tx \in Tx
            /\ Present(pool[builder'[b].tx])
            /\ builder'[b].seen = Snapshot(pool[builder'[b].tx])
  PROVE  IInv'
  <1>1. Kept /\ PoolGrounded'
    BY UnchangedKept DEF IInv
  <1>2. BuilderToken(b)'
    <2> SUFFICES ASSUME builder'[b].pc = "existing" PROVE BuilderToken(b)'
      BY DEF BuilderToken
    <2> DEFINE e == pool[builder'[b].tx]
    <2>1. WellNumbered(e, nextGeneration) /\ Present(e)
      BY DEF IInv, PoolNumbered
    <2>2. /\ builder'[b].seen.generation = e.generation
          /\ builder'[b].seen.quota = e.quota /\ builder'[b].seen.rules = e.rules
      BY SnapshotFields
    <2> QED
      BY Zenon, <2>1, <2>2 DEF BuilderToken, WellNumbered
  <1> QED
    BY <1>1, <1>2, BuilderStep

\* A thread goes on with a record that is not a snapshot.
LEMMA GotoStep ==
  ASSUME IInv, TypeOK', BuilderBusy', NEW b \in Builders, NEW r, Goto(b, r),
         UNCHANGED <<pool, nextGeneration, submit, query, rcs, evidence>>,
         r.pc # "existing"
  PROVE  IInv'
  <1>1. builder'[b] = r /\ \A c \in Builders \ {b} : builder'[c] = builder[c]
    BY DEF Goto, IInv, TypeOK
  <1> QED
    BY <1>1, ThreadStep

\* A thread copies the entry of its transaction.
LEMMA SnapshotStep ==
  ASSUME IInv, TypeOK', BuilderBusy', NEW b \in Builders, builder[b].pc # "idle",
         Goto(b, [builder[b] EXCEPT !.pc = "existing", !.seen = Snapshot(pool[builder[b].tx])]),
         Present(pool[builder[b].tx]),
         UNCHANGED <<pool, nextGeneration, submit, query, rcs, evidence>>
  PROVE  IInv'
  <1>1. builder[b] \in BuilderRecords /\ builder[b].tx \in Tx
    BY DEF IInv, TypeOK, BuilderBusy
  <1>2. \A c \in Builders \ {b} : builder'[c] = builder[c]
    BY DEF Goto, IInv, TypeOK
  <1>3. builder'[b] = [builder[b] EXCEPT !.pc = "existing", !.seen = Snapshot(pool[builder[b].tx])]
    BY DEF Goto, IInv, TypeOK
  <1>4. builder'[b].tx = builder[b].tx /\ builder'[b].seen = Snapshot(pool[builder[b].tx])
    BY <1>1, <1>3 DEF BuilderRecords
  <1> QED
    BY <1>1, <1>2, <1>4, ThreadStep

\* The record of a thread that only moves its program counter.
LEMMA MovedRecord ==
  ASSUME NEW r \in BuilderRecords
  PROVE  /\ \A pc \in {"fresh", "recheck", "commit"} : [r EXCEPT !.pc = pc].pc # "existing"
         /\ \A new : [r EXCEPT !.pc = "insert", !.rules = new].pc # "existing"
         /\ BuilderIdle.pc # "existing"
  BY TypeFacts DEF BuilderRecords

\* A fresh insertion: its generation is larger than that of any token.
LEMMA InsertInv ==
  ASSUME IInv, TypeOK', BuilderBusy', NEW b \in Builders, InsertAudit(b),
         ~Present(pool[builder[b].tx])
  PROVE  IInv'
  <1> DEFINE u == builder[b].tx
             e == NewEntry(nextGeneration + 1, builder[b].height, builder[b].rules,
                           Outcome[builder[b].rules][builder[b].logs])
  <1>1. u \in Tx
    BY DEF InsertAudit, IInv, BuilderBusy
  <1>2. /\ nextGeneration' = nextGeneration + 1
        /\ pool' = [pool EXCEPT ![u] = e]
        /\ evidence' = [evidence EXCEPT ![u] = {}]
        /\ builder' = [builder EXCEPT ![b] = BuilderIdle]
        /\ UNCHANGED <<submit, query, rcs>>
    BY DEF InsertAudit, Goto
  <1>3. e.generation = nextGeneration + 1 /\ e.status = "NotSubmitted"
    BY DEF NewEntry
  <1>4. nextGeneration \in Nat
    BY DEF IInv, TypeOK, Generations
  <1> HIDE DEF e
  <1>5. pool'[u] = e /\ \A t \in Tx \ {u} : pool'[t] = pool[t] /\ evidence'[t] = evidence[t]
    BY <1>1, <1>2 DEF IInv, TypeOK
  <1>frame. /\ nextGeneration' = nextGeneration + 1
        /\ submit' = submit /\ query' = query /\ rcs' = rcs
    BY <1>2
  <1> HIDE DEF u
  <1>6. PoolNumbered'
    <2> SUFFICES ASSUME NEW t \in Tx PROVE WellNumbered(pool'[t], nextGeneration + 1)
      BY <1>2 DEF PoolNumbered
    <2>1. CASE t = u
      BY <1>3, <1>4, <1>5, <2>1 DEF WellNumbered, Present
    <2>2. CASE t # u
      <3>1. WellNumbered(pool[t], nextGeneration) /\ pool'[t] = pool[t]
        BY <1>5, <2>2 DEF IInv, PoolNumbered
      <3> QED
        BY <1>4, <3>1 DEF WellNumbered
    <2> QED
      BY <2>1, <2>2
  <1>7. PoolGrounded'
    <2> SUFFICES ASSUME NEW t \in Tx
                 PROVE  Grounded(pool'[t], Submission(pool'[t]) \in rcs[t], evidence'[t])
      BY <1>2 DEF PoolGrounded
    <2>1. CASE t = u
      BY <1>3, <1>5, <2>1 DEF Grounded, InFlight
    <2>2. CASE t # u
      BY <1>5, <2>2 DEF IInv, PoolGrounded
    <2> QED
      BY <2>1, <2>2
  <1>8. SubmitTokens'
    <2> SUFFICES ASSUME NEW h \in Heights, NEW t \in Tx PROVE SubmitToken(h, t)'
      BY DEF SubmitTokens
    <2>1. SubmitToken(h, t) /\ submit[h].batch[t].generation \in Nat
      <3>1. submit[h] \in SubmitRecords
        BY DEF IInv, TypeOK
      <3>2. submit[h].batch[t] \in Submissions
        BY <3>1 DEF SubmitRecords
      <3> QED
        BY <3>2 DEF IInv, Tokens, SubmitTokens, Submissions, Generations
    <2>o. /\ submit[h].batch[t].generation <= nextGeneration + 1
          /\ submit[h].batch[t].generation # nextGeneration + 1
      BY SMTT(30), <1>4, <2>1, OlderNumber DEF SubmitToken
    <2>2. CASE t = u
      <3>1. pool'[t].generation = nextGeneration + 1
        BY SMTT(30), <1>3, <1>5, <2>2
      <3> QED
        BY <1>frame, <2>1, <2>o, <3>1 DEF SubmitToken
    <2>3. CASE t # u
      <3>1. pool'[t] = pool[t]
        BY <1>5, <2>3
      <3> QED
        BY <1>frame, <2>1, <2>o, <3>1 DEF SubmitToken
    <2> QED
      BY <2>2, <2>3
  <1>9. QueryTokens'
    <2> SUFFICES ASSUME NEW t \in Tx PROVE QueryToken(t)'
      BY DEF QueryTokens
    <2>1. QueryToken(t) /\ query.expected[t] \in Nat
      BY DEF IInv, Tokens, QueryTokens, TypeOK, QueryRecords, Generations
    <2>o. query.expected[t] <= nextGeneration + 1 /\ query.expected[t] # nextGeneration + 1
      BY <1>4, <2>1, OlderNumber DEF QueryToken
    <2>2. CASE t = u
      <3>1. pool'[t].generation = nextGeneration + 1
        BY <1>3, <1>5, <2>2
      <3> QED
        BY <1>frame, <2>o, <3>1 DEF QueryToken
    <2>3. CASE t # u
      <3>1. pool'[t] = pool[t] /\ evidence'[t] = evidence[t]
        BY <1>5, <2>3
      <3> QED
        BY <1>frame, <2>1, <2>o, <3>1 DEF QueryToken
    <2> QED
      BY <2>2, <2>3
  <1>10. BuilderTokens'
    <2> SUFFICES ASSUME NEW c \in Builders PROVE BuilderToken(c)'
      BY SMTT(30) DEF BuilderTokens
    <2>1. CASE c = b
      BY <1>2, <2>1, TypeFacts DEF BuilderToken, IInv, TypeOK
    <2>2. CASE c # b
      <3>1. builder'[c] = builder[c]
        BY <1>2, <2>2 DEF IInv, TypeOK
      <3>2. BuilderToken(c) /\ (builder[c].pc = "existing" => builder[c].tx \in Tx)
        BY SMTT(30) DEF IInv, Tokens, BuilderTokens, BuilderBusy
      <3>o. builder[c].pc = "existing" =>
              /\ builder[c].seen.generation \in 1 .. (nextGeneration + 1)
              /\ builder[c].seen.generation # nextGeneration + 1
        BY <1>4, <3>2, OlderNumber DEF BuilderToken
      <3>3. CASE builder[c].tx = u
        <4>1. pool'[builder'[c].tx].generation = nextGeneration + 1
          BY SMTT(30), <1>3, <1>5, <3>1, <3>3
        <4> QED
          BY <1>frame, <3>1, <3>o, <4>1 DEF BuilderToken
      <3>4. CASE builder[c].tx # u
        <4>1. builder[c].pc = "existing" => pool'[builder[c].tx] = pool[builder[c].tx]
          BY <1>5, <3>2, <3>4
        <4> QED
          BY SMTT(30), <1>frame, <3>1, <3>2, <3>o, <4>1 DEF BuilderToken
      <3> QED
        BY <3>3, <3>4
    <2> QED
      BY <2>1, <2>2
  <1> QED
    BY SMTT(30), <1>6, <1>7, <1>8, <1>9, <1>10 DEF IInv, Tokens

\* The builder threads.
LEMMA ScreeningInv ==
  ASSUME IInv, Screening
  PROVE  IInv'
  <1>0. TypeOK' /\ BuilderBusy'
    BY ScreeningTypes DEF IInv
  <1> PICK b \in Builders :
        \/ \E t \in Tx, l \in Logs, h \in Heights : PreScreen(b, t, l, h)
        \/ Lookup(b) \/ EvaluateFresh(b) \/ Recheck(b) \/ InsertAudit(b)
        \/ ScreenApproved(b) \/ ScreenTimedOutAllow(b) \/ ScreenWithheld(b) \/ CommitTx(b)
    BY DEF Screening
  <1> DEFINE B == builder[b]
  <1>m. /\ \A pc \in {"fresh", "recheck", "commit"} : [B EXCEPT !.pc = pc].pc # "existing"
        /\ \A new : [B EXCEPT !.pc = "insert", !.rules = new].pc # "existing"
        /\ BuilderIdle.pc # "existing"
    BY MovedRecord DEF IInv, TypeOK
  <1>1. CASE \E t \in Tx, l \in Logs, h \in Heights : PreScreen(b, t, l, h)
    <2> PICK t \in Tx, l \in Logs, h \in Heights : PreScreen(b, t, l, h)
      BY <1>1
    <2> DEFINE r == [BuilderIdle EXCEPT !.pc = "lookup", !.tx = t, !.logs = l, !.height = h]
    <2>1. r.pc # "existing"
      BY TypeFacts DEF BuilderRecords
    <2>2. Goto(b, r) /\ UNCHANGED <<pool, nextGeneration, submit, query, rcs, evidence>>
      BY Zenon DEF PreScreen
    <2> HIDE DEF r
    <2> QED
      BY <1>0, <2>1, <2>2, GotoStep
  <1>2. CASE Lookup(b)
    BY Zenon, <1>0, <1>2, <1>m, GotoStep, SnapshotStep DEF Lookup
  <1>3. CASE EvaluateFresh(b)
    BY Zenon, <1>0, <1>3, <1>m, GotoStep DEF EvaluateFresh
  <1>4. CASE Recheck(b)
    BY Zenon, <1>0, <1>4, <1>m, GotoStep, SnapshotStep DEF Recheck
  <1>5. CASE InsertAudit(b)
    <2>1. CASE Present(pool[B.tx])
      BY <1>0, <1>5, <1>m, <2>1, GotoStep DEF InsertAudit
    <2>2. CASE ~Present(pool[B.tx])
      BY Zenon, <1>0, <1>5, <2>2, InsertInv
    <2> QED
      BY <2>1, <2>2
  <1>6. CASE ScreenApproved(b)
    <2> DEFINE u == B.tx
               g == B.seen.generation
               f == FinishConsistencyCheck(pool[u], g, Consistent(b))
    <2>1. u \in Tx
      BY <1>6 DEF ScreenApproved, IInv, BuilderBusy
    <2>2. /\ pool' = [pool EXCEPT ![u] = f]
          /\ evidence' = [evidence EXCEPT ![u] =
                IF Consistent(b) \/ pool[u].generation # g THEN @ ELSE @ \cup {"mismatch"}]
          /\ UNCHANGED <<nextGeneration, submit, query, rcs>>
      BY <1>6 DEF ScreenApproved
    <2>3. /\ pool'[u] = f
          /\ evidence[u] \subseteq evidence'[u]
          /\ pool[u].generation = g /\ ~Consistent(b) => "mismatch" \in evidence'[u]
          /\ \A t \in Tx \ {u} : pool'[t] = pool[t] /\ evidence'[t] = evidence[t]
      <3> HIDE DEF f, g, B
      <3> QED
        BY <2>1, <2>2 DEF IInv, TypeOK
    <2>4. /\ SameLifecycle(pool[u], f)
          /\ Grounded(f, Submission(pool[u]) \in rcs[u], evidence'[u])
      <3>1. pool[u] \in BufferEntry /\ Consistent(b) \in BOOLEAN
        BY Zenon, <2>1 DEF IInv, TypeOK, Consistent
      <3>2. Grounded(pool[u], Submission(pool[u]) \in rcs[u], evidence[u])
        BY Zenon, <2>1 DEF IInv, PoolGrounded
      <3>3. Grounded(pool[u], Submission(pool[u]) \in rcs[u], evidence'[u])
        BY Zenon, <2>3, <3>2 DEF Grounded
      <3> QED
        BY Zenon, <2>3, <3>1, <3>3, GroundedConsistencyCheck
    <2>5. Submission(f) = Submission(pool[u])
      BY Zenon, <2>4 DEF SameLifecycle, Submission
    <2> HIDE DEF f
    <2>6. Kept
      <3> SUFFICES ASSUME NEW t \in Tx
                   PROVE  SameLifecycle(pool[t], pool'[t]) /\ evidence[t] \subseteq evidence'[t]
        BY Zenon, <1>0, <2>2 DEF Kept, EntryKept, TypeOK
      <3>1. SameLifecycle(pool[t], pool[t])
        BY SameSelf DEF IInv, TypeOK
      <3> QED
        BY Zenon, <2>3, <2>4, <3>1
    <2>7. PoolGrounded'
      <3> SUFFICES ASSUME NEW t \in Tx
                   PROVE  Grounded(pool'[t], Submission(pool'[t]) \in rcs[t], evidence'[t])
        BY <2>2 DEF PoolGrounded
      <3>1. CASE t = u
        BY Zenon, <2>3, <2>4, <2>5, <3>1
      <3>2. CASE t # u
        BY Zenon, <2>3, <3>2 DEF IInv, PoolGrounded
      <3> QED
        BY Zenon, <3>1, <3>2
    <2>8. \E r : Goto(b, r) /\ r.pc # "existing"
      BY Zenon, <1>6, <1>m DEF ScreenApproved
    <2>9. builder'[b].pc # "existing" /\ \A c \in Builders \ {b} : builder'[c] = builder[c]
      BY <2>8 DEF Goto, IInv, TypeOK
    <2>10. BuilderToken(b)'
      BY Zenon, <2>9 DEF BuilderToken
    <2> QED
      BY SMTT(30), <1>0, <2>2, <2>6, <2>7, <2>9, <2>10, BuilderStep
  <1>7. CASE ScreenTimedOutAllow(b)
    BY Zenon, <1>0, <1>7, <1>m, GotoStep DEF ScreenTimedOutAllow
  <1>8. CASE ScreenWithheld(b)
    BY <1>0, <1>8, <1>m, GotoStep DEF ScreenWithheld
  <1>9. CASE CommitTx(b)
    BY <1>0, <1>9, <1>m, GotoStep DEF CommitTx
  <1> QED
    BY <1>1, <1>2, <1>3, <1>4, <1>5, <1>6, <1>7, <1>8, <1>9

\* Every step keeps the invariant.
LEMMA NextInv ==
  ASSUME IInv, [Next]_vars
  PROVE  IInv'
  <1>1. CASE UNCHANGED vars
    BY Zenon, <1>1 DEF vars, IInv, TypeOK, BuilderBusy, PoolNumbered, PoolGrounded, Tokens,
       SubmitTokens, SubmitToken, QueryTokens, QueryToken, BuilderTokens, BuilderToken
  <1> QED
    BY <1>1, ScreeningInv, SubmittingInv, QueryingInv, UpkeepInv DEF Next

\* The invariant holds throughout.
THEOREM Inductive == Spec => []IInv
  BY InitInv, NextInv, PTL DEF Spec

-----------------------------------------------------------------------------
(* The safety properties.                                                    *)

\* An Approved entry was approved by RCS after RCS had received the submission
\* of this very lifecycle (query_once, apply_query_status).
THEOREM ApprovalsReviewed == Spec => []ApprovedReviewed
  <1>1. IInv => ApprovedReviewed
    BY Zenon DEF IInv, PoolGrounded, Grounded, ApprovedReviewed
  <1> QED
    BY <1>1, Inductive, PTL

\* Every tombstone has a cause of its own lifecycle (apply_query_status,
\* finish_consistency_check, resolve_total_timeout).
THEOREM TombstonesCaused == Spec => []TombstoneHasCause
  <1>1. IInv => TombstoneHasCause
    BY Zenon DEF IInv, PoolGrounded, Grounded, TombstoneHasCause
  <1> QED
    BY <1>1, Inductive, PTL
=============================================================================
