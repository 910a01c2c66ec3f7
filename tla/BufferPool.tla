----------------------------- MODULE BufferPool -----------------------------
(***************************************************************************)
(* The RCS filter's buffer pool (crates/rcs-filter/src/pool.rs): a side     *)
(* table tx_hash -> entry that carries the audit state machine of one       *)
(* screened transaction.  Every operation of the pool is a function of the  *)
(* table, so that the modules that use it can apply one operation per       *)
(* critical section of the pool mutex.                                      *)
(*                                                                          *)
(* Time.  The code stores two timestamps and only ever compares             *)
(* now.saturating_sub(timestamp) with a configured number of seconds.  An   *)
(* entry therefore carries the two differences, sinceFirst and sinceLast,   *)
(* which Older advances by one second, saturating at MaxAge, a value above  *)
(* every threshold.                                                         *)
(***************************************************************************)
EXTENDS Naturals

CONSTANTS
    Tx,                             \* transaction hashes
    Rules,                          \* rule snapshots (content versions)
    Logs,                           \* what a simulation of a transaction can emit
    Quotas,                         \* canonical encodings of actions["quota"]
    Heights,                        \* heights of the blocks being built
    None,                           \* the fields of an absent entry
    Outcome,                        \* Outcome[r][l]: what matching::try_evaluate returns
    SubmittedConfirmationTimeout,
    RiskModuleUnresponsiveTimeout,
    TotalRetryTimeout,
    TerminalEntryRetention,
    MaxAge,                         \* bound: ages saturate here
    MaxGeneration                   \* bound: insertions in a behaviour

\* TimeoutAction (rules/model.rs): the fallback merged across the matched rules.
TimeoutActions == {"Allow", "Deny"}

\* MatchOutcome (matching.rs).  A binding-budget error is a "Deny": screen_tx
\* denies on it and the consistency recompute treats both as inconsistent.
MatchOutcomes ==
    [kind : {"Allow", "Deny", "Audit"}, quota : Quotas, onTimeout : TimeoutActions]

ASSUME OutcomeAssumption == Outcome \in [Rules -> [Logs -> MatchOutcomes]]

\* FilterConfig::validate: every duration is non-zero and tombstones outlive
\* the retry window; MaxAge lies above every threshold.
ASSUME ConfigAssumption ==
    /\ SubmittedConfirmationTimeout \in Nat \ {0}
    /\ RiskModuleUnresponsiveTimeout \in Nat \ {0}
    /\ TotalRetryTimeout \in Nat \ {0}
    /\ TerminalEntryRetention \in Nat
    /\ TerminalEntryRetention > TotalRetryTimeout
    /\ MaxAge \in Nat
    /\ MaxAge > SubmittedConfirmationTimeout
    /\ MaxAge > RiskModuleUnresponsiveTimeout
    /\ MaxAge > TerminalEntryRetention

ASSUME GenerationAssumption == MaxGeneration \in Nat

-----------------------------------------------------------------------------
(* Entries.  An absent key is the record NoEntry, whose generation 0 no      *)
(* insertion ever uses, so a snapshot of generations is a function on Tx     *)
(* that is 0 where the map has no key.                                       *)

Retryable == {"NotSubmitted", "Submitted", "Pending"}
InFlight  == {"Submitted", "Pending", "Approved"}
Terminal  == {"TimedOutAllow", "Dropped"}
BufferStatus == Retryable \cup {"Approved"} \cup Terminal

Generations == 0 .. MaxGeneration
Ages == 0 .. MaxAge

BufferEntry ==
    [generation : Generations, status : BufferStatus \cup {"Absent"},
     height : Heights \cup {None}, rules : Rules \cup {None},
     quota : Quotas \cup {None}, onTimeout : TimeoutActions,
     sinceFirst : Ages, sinceLast : Ages]

NoEntry ==
    [generation |-> 0, status |-> "Absent", height |-> None, rules |-> None,
     quota |-> None, onTimeout |-> "Deny", sinceFirst |-> 0, sinceLast |-> 0]

Present(e) == e.status # "Absent"
IsTerminal(e) == e.status \in Terminal

-----------------------------------------------------------------------------
(* Operations on one entry.                                                  *)

\* BufferPool::matches: the key still refers to this lifecycle in this status.
Matches(e, g, s) == e.generation = g /\ e.status = s

\* A status change stamps last_transition_at.
Transition(e, s) == [e EXCEPT !.status = s, !.sinceLast = 0]

\* One second passes for a stored entry; ages saturate at MaxAge.
Saturate(n) == IF n < MaxAge THEN n + 1 ELSE n
Older(e) ==
    IF Present(e)
    THEN [e EXCEPT !.sinceFirst = Saturate(@), !.sinceLast = Saturate(@)]
    ELSE e

\* Mutant: the retry window ends one second early.
ExpiredEarly(e) == e.status \in Retryable /\ e.sinceFirst >= TotalRetryTimeout

\* The cumulative fallback applies only while RCS has not approved.
Expired(e) == e.status \in Retryable /\ e.sinceFirst > TotalRetryTimeout

\* Mutant: every lifecycle fails open.
ResolveAlwaysAllow(e) == IF Expired(e) THEN Transition(e, "TimedOutAllow") ELSE e

\* resolve_total_timeout.
ResolveTotalTimeout(e) ==
    IF Expired(e)
    THEN Transition(e, IF e.onTimeout = "Allow" THEN "TimedOutAllow" ELSE "Dropped")
    ELSE e

\* Mutant: a response that arrives after the deadline still moves the entry.
ApplySubmitResponseLate(e, g, accepted) ==
    IF e.generation = g /\ accepted /\ e.status = "NotSubmitted"
    THEN Transition(e, "Submitted")
    ELSE e

\* The body of apply_submit_response for one expected hash.
ApplySubmitResponse(e, g, accepted) ==
    IF e.generation # g \/ ~Present(e) THEN e
    ELSE IF Expired(e) THEN ResolveTotalTimeout(e)
    ELSE IF accepted /\ e.status = "NotSubmitted" THEN Transition(e, "Submitted")
    ELSE e

\* Mutant: approvals are applied without the generation fence.
ApplyQueryStatusUnfenced(e, g, status) ==
    IF (e.generation # g /\ status # "approved") \/ ~Present(e) \/ IsTerminal(e) THEN e
    ELSE IF Expired(e) THEN ResolveTotalTimeout(e)
    ELSE IF status = "pending" /\ e.status = "Submitted" THEN Transition(e, "Pending")
    ELSE IF status = "approved" /\ e.status \in {"Submitted", "Pending"}
         THEN Transition(e, "Approved")
    ELSE IF status \in {"denied", "outdated"} THEN Transition(e, "Dropped")
    ELSE e

\* Mutant: a tombstone is not final.
ApplyQueryStatusReverses(e, g, status) ==
    IF e.generation # g \/ ~Present(e) THEN e
    ELSE IF Expired(e) THEN ResolveTotalTimeout(e)
    ELSE IF status = "pending" /\ e.status = "Submitted" THEN Transition(e, "Pending")
    ELSE IF status = "approved" /\ e.status \in {"Submitted", "Pending"}
         THEN Transition(e, "Approved")
    ELSE IF status \in {"denied", "outdated"} THEN Transition(e, "Dropped")
    ELSE e

\* apply_query_status.  "denied" and "outdated" act alike on the table.
ApplyQueryStatus(e, g, status) ==
    IF e.generation # g \/ ~Present(e) \/ IsTerminal(e) THEN e
    ELSE IF Expired(e) THEN ResolveTotalTimeout(e)
    ELSE IF status = "pending" /\ e.status = "Submitted" THEN Transition(e, "Pending")
    ELSE IF status = "approved" /\ e.status \in {"Submitted", "Pending"}
         THEN Transition(e, "Approved")
    ELSE IF status \in {"denied", "outdated"} THEN Transition(e, "Dropped")
    ELSE e

\* finish_consistency_check: only an entry that is still this approved
\* lifecycle is dropped on a mismatch.
FinishConsistencyCheck(e, g, consistent) ==
    IF Matches(e, g, "Approved") /\ ~consistent THEN Transition(e, "Dropped") ELSE e

\* Mutant: a stall also restarts the retry window.
CheckTimeoutsRestart(e) ==
    IF Expired(e) THEN ResolveTotalTimeout(e)
    ELSE IF \/ e.status = "Submitted" /\ e.sinceLast > SubmittedConfirmationTimeout
            \/ e.status = "Pending" /\ e.sinceLast > RiskModuleUnresponsiveTimeout
         THEN [Transition(e, "NotSubmitted") EXCEPT !.sinceFirst = 0]
    ELSE e

\* The body of check_timeouts: the outer fallback before the per-state stalls.
CheckTimeouts(e) ==
    IF Expired(e) THEN ResolveTotalTimeout(e)
    ELSE IF \/ e.status = "Submitted" /\ e.sinceLast > SubmittedConfirmationTimeout
            \/ e.status = "Pending" /\ e.sinceLast > RiskModuleUnresponsiveTimeout
         THEN Transition(e, "NotSubmitted")
    ELSE e

\* Mutant: released tombstones are kept.
PruneDropped(e) ==
    IF e.status = "Dropped" /\ e.sinceLast > TerminalEntryRetention THEN NoEntry ELSE e

\* The retain predicate of prune_terminal.
PruneTerminal(e) ==
    IF IsTerminal(e) /\ e.sinceLast > TerminalEntryRetention THEN NoEntry ELSE e

\* remove_non_terminal_if_generation.
RemoveNonTerminalIfGeneration(e, g) ==
    IF e.generation = g /\ Present(e) /\ ~IsTerminal(e) THEN NoEntry ELSE e

-----------------------------------------------------------------------------
(* Operations on the table.                                                  *)

EmptyPool == [t \in Tx |-> NoEntry]

\* The fresh entry screen_tx builds for an audit outcome under rules r.
NewEntry(g, h, r, outcome) ==
    [generation |-> g, status |-> "NotSubmitted", height |-> h, rules |-> r,
     quota |-> outcome.quota, onTimeout |-> outcome.onTimeout,
     sinceFirst |-> 0, sinceLast |-> 0]

\* remove_canonical.
RemoveCanonical(pool, hashes) ==
    [t \in Tx |-> IF t \in hashes THEN NoEntry ELSE pool[t]]

\* Mutant: the lag clears the whole table.
RecoverForgetsAll(pool) == EmptyPool

\* recover_after_canonical_lag: only Dropped tombstones survive.
RecoverAfterCanonicalLag(pool) ==
    [t \in Tx |-> IF pool[t].status = "Dropped" THEN pool[t] ELSE NoEntry]

\* resolve_total_timeouts.
ResolveTotalTimeouts(pool) == [t \in Tx |-> ResolveTotalTimeout(pool[t])]

\* A map hash -> generation of the entries whose status is in statuses:
\* in_flight_generations, non_terminal_lifecycles, the submit snapshot.
LifecyclesIn(pool, statuses) ==
    [t \in Tx |-> IF pool[t].status \in statuses THEN pool[t].generation ELSE 0]

NoLifecycles == [t \in Tx |-> 0]

=============================================================================
