-------------------------- MODULE TerminalDiscard ---------------------------
(***************************************************************************)
(* How a rejection reaches the transaction pool: the "rcs filter terminal   *)
(* discard" task (crates/builder flashblocks/service.rs), the broadcast     *)
(* channel of terminal events, the txpool's new-transaction listener and    *)
(* the block-building thread, composed with the filter as AuditDecision     *)
(* specifies it.                                                            *)
(*                                                                          *)
(* The channel is bounded and lossy: a receiver that falls behind loses the *)
(* oldest events and is told so; a worker that dies between the pool lock   *)
(* and the send loses its events silently.                                  *)
(***************************************************************************)
EXTENDS AuditDecision, Sequences

CONSTANTS
    Builders,           \* block-building threads
    EventCapacity,      \* TERMINAL_EVENT_CAPACITY
    ListenerCapacity    \* (reth) capacity of the new-transaction listener

ASSUME CapacityAssumption ==
    EventCapacity \in Nat \ {0} /\ ListenerCapacity \in Nat \ {0}

VARIABLES
    txpool,         \* (reth) hashes in the transaction pool
    unsent,         \* terminal events decided under the pool lock, not yet sent
    events,         \* the events the receiver of the task can still read
    lagged,         \* the receiver lost events it has not been told about
    arrivals,       \* (reth) hashes queued on the new-transaction listener
    dropped,        \* the task's map hash -> dropped generation, 0 when no key
    task,           \* where the task is in its select loop
    refused,        \* per thread: the hash it is about to remove from the txpool and
                    \* the lifecycle it saw, 0 for none, at its last look at the filter
    gone            \* (history) lifecycles whose transaction has been out of the txpool

vars == <<phase, life, opened, txpool, unsent, events, lagged, arrivals, dropped, task,
          refused, gone>>
taskVars == <<events, lagged, arrivals, dropped, task>>

NoKeys == [t \in Tx |-> 0]
At(pc, todo, tick) == [pc |-> pc, todo |-> todo, tick |-> tick, absent |-> {}]
Selecting == At("select", NoKeys, FALSE)
Lifecycles == Tx \X (1 .. MaxGeneration)
Refusals == Tx \X (0 .. MaxGeneration)
NoRefusal == <<>>

Init ==
    /\ DecisionInit
    /\ txpool = {}
    /\ unsent = {}
    /\ events = <<>>
    /\ lagged = FALSE
    /\ arrivals = <<>>
    /\ dropped = NoKeys
    /\ task = Selecting
    /\ refused = [b \in Builders |-> NoRefusal]
    /\ gone = {}

-----------------------------------------------------------------------------
(* The filter and the block-building thread.                                 *)

\* screen_tx puts a transaction under audit; the iterator may have yielded it
\* before it left the txpool.
Audit(t) ==
    /\ OpenAudit(t)
    /\ UNCHANGED <<txpool, unsent, taskVars, refused>>

\* Mutant: an event for every resolution, releases included.
WorkerAnnouncesAll(newPhase) ==
    /\ Decide(newPhase)
    /\ unsent' = unsent \cup
          {<<t, life[t]>> : t \in {u \in Tx : newPhase[u] # phase[u] /\ newPhase[u] # "none"}}
    /\ UNCHANGED <<txpool, taskVars, refused>>

\* A worker moves lifecycles; each one it rejects has an event to send once the
\* pool lock is released (query_once, submit_group, timeout_once).
WorkerDecides(newPhase) ==
    /\ Decide(newPhase)
    /\ unsent' = unsent \cup
          {<<t, life[t]>> : t \in {u \in Tx : phase[u] # "rejected" /\ newPhase[u] = "rejected"}}
    /\ UNCHANGED <<txpool, taskVars, refused>>

\* Mutant: an unbounded channel.
EmitUnbounded(event) ==
    /\ event \in unsent
    /\ unsent' = unsent \ {event}
    /\ events' = Append(events, event)
    /\ UNCHANGED <<decisionVars, txpool, lagged, arrivals, dropped, task, refused>>

\* emit_terminal: broadcast::Sender::send overwrites the oldest event.
EmitTerminal(event) ==
    /\ event \in unsent
    /\ unsent' = unsent \ {event}
    /\ IF Len(events) < EventCapacity
       THEN events' = Append(events, event) /\ UNCHANGED lagged
       ELSE events' = Append(Tail(events), event) /\ lagged' = TRUE
    /\ UNCHANGED <<decisionVars, txpool, arrivals, dropped, task, refused>>

\* The worker panics before it sends; spawn_supervised restarts it.
LoseEvents ==
    /\ unsent # {}
    /\ unsent' = {}
    /\ UNCHANGED <<decisionVars, txpool, taskVars, refused>>

\* A builder thread finds a quota mismatch (finish_consistency_check): the
\* lifecycle is rejected without an event, the thread itself removes the hash.
Mismatch(b, t) ==
    /\ refused[b] = NoRefusal
    /\ phase[t] = "approved"
    /\ Decide([phase EXCEPT ![t] = "rejected"])
    /\ refused' = [refused EXCEPT ![b] = <<t, life[t]>>]
    /\ UNCHANGED <<txpool, unsent, taskVars>>

\* Mutant: pre_screen drops what is under audit instead of deferring it.
RefuseInFlight(b, t) ==
    /\ refused[b] = NoRefusal
    /\ refused' = [refused EXCEPT ![b] = <<t, life[t]>>]
    /\ UNCHANGED <<decisionVars, txpool, unsent, taskVars>>

\* The last look at the filter that leads to a refusal: pre_screen or screen_tx
\* reports Drop, a rule denies a hash that screen_tx found without an entry, or
\* the execution pre_screen let through fails closed (fail_closed_screen).
Refuse(b, t) ==
    /\ refused[b] = NoRefusal
    /\ phase[t] # "open"
    /\ refused' = [refused EXCEPT ![b] = <<t, life[t]>>]
    /\ UNCHANGED <<decisionVars, txpool, unsent, taskVars>>

\* run_tx_loop: remove_transaction, later than the decision and without the lock.
RemoveRefused(b) ==
    /\ refused[b] # NoRefusal
    /\ refused' = [refused EXCEPT ![b] = NoRefusal]
    /\ txpool' = txpool \ {refused[b][1]}
    /\ UNCHANGED <<decisionVars, unsent, taskVars>>

\* The candidate that pre_screen let through ends otherwise (skipped, reverted,
\* intercepted), or the thread dies before the removal.
ForgetRefused(b) ==
    /\ refused[b] # NoRefusal
    /\ refused' = [refused EXCEPT ![b] = NoRefusal]
    /\ UNCHANGED <<decisionVars, txpool, unsent, taskVars>>

-----------------------------------------------------------------------------
(* The transaction pool (reth).                                              *)

\* A transaction enters the pool; a full listener misses it.
Arrive(t) ==
    /\ t \notin txpool
    /\ txpool' = txpool \cup {t}
    /\ arrivals' = IF Len(arrivals) < ListenerCapacity THEN Append(arrivals, t) ELSE arrivals
    /\ UNCHANGED <<decisionVars, unsent, events, lagged, dropped, task, refused>>

\* It leaves for reasons of its own: mined, replaced, evicted.
Leave(t) ==
    /\ t \in txpool
    /\ txpool' = txpool \ {t}
    /\ UNCHANGED <<decisionVars, unsent, taskVars, refused>>

-----------------------------------------------------------------------------
(* run_terminal_discard.                                                     *)

\* Mutant: any lifecycle that was ever announced.
AnyLifecycle(t, g) == g # 0

\* with_dropped_lifecycle: the exact lifecycle is still Dropped; the removal
\* then happens under the pool lock.
DroppedLifecycle(t, g) == phase[t] = "rejected" /\ life[t] = g

\* discard_transaction.
DiscardTransaction(t, g) ==
    txpool' = IF DroppedLifecycle(t, g) THEN txpool \ {t} ELSE txpool

\* FilterHandle::dropped_lifecycles and non_terminal_lifecycles.
DroppedLifecycles == [t \in Tx |-> IF phase[t] = "rejected" THEN life[t] ELSE 0]
NonTerminalLifecycles ==
    [t \in Tx |-> IF phase[t] \in {"open", "approved"} THEN life[t] ELSE 0]

\* terminal_events.recv() returns an event.
TaskEvent ==
    /\ task.pc = "select" /\ ~lagged /\ events # <<>>
    /\ LET t == Head(events)[1]
           g == Head(events)[2] IN
       /\ DiscardTransaction(t, g)
       /\ dropped' = IF DroppedLifecycle(t, g) THEN [dropped EXCEPT ![t] = g] ELSE dropped
    /\ events' = Tail(events)
    /\ UNCHANGED <<decisionVars, unsent, lagged, arrivals, task, refused>>

\* terminal_events.recv() returns Lagged: rebuild the map and go through it.
TaskLagged ==
    /\ task.pc = "select" /\ lagged
    /\ lagged' = FALSE
    /\ dropped' = DroppedLifecycles
    /\ task' = At("dropped", DroppedLifecycles, FALSE)
    /\ UNCHANGED <<decisionVars, txpool, unsent, events, arrivals, refused>>

\* new_transactions.recv() returns a transaction.
TaskNewTransaction ==
    /\ task.pc = "select" /\ arrivals # <<>>
    /\ LET t == Head(arrivals)
           g == dropped[t] IN
       /\ IF g = 0 THEN UNCHANGED txpool ELSE DiscardTransaction(t, g)
       /\ dropped' = IF DroppedLifecycle(t, g) THEN dropped ELSE [dropped EXCEPT ![t] = 0]
    /\ arrivals' = Tail(arrivals)
    /\ UNCHANGED <<decisionVars, unsent, events, lagged, task, refused>>

\* Mutant: the tick goes through the map it has, without rebuilding it.
TaskTickStale ==
    /\ task.pc = "select"
    /\ task' = At("dropped", dropped, TRUE)
    /\ UNCHANGED <<decisionVars, txpool, unsent, events, lagged, arrivals, dropped, refused>>

\* reconciliation.tick(): rebuild the map and go through it.
TaskTick ==
    /\ task.pc = "select"
    /\ dropped' = DroppedLifecycles
    /\ task' = At("dropped", DroppedLifecycles, TRUE)
    /\ UNCHANGED <<decisionVars, txpool, unsent, events, lagged, arrivals, refused>>

\* reconcile_dropped: one lock per lifecycle.
ReconcileDropped(t) ==
    /\ task.pc = "dropped" /\ task.todo[t] # 0
    /\ DiscardTransaction(t, task.todo[t])
    /\ task' = [task EXCEPT !.todo[t] = 0]
    /\ UNCHANGED <<decisionVars, unsent, events, lagged, arrivals, dropped, refused>>

\* After the map: back to select or, on a tick, the non-terminal lifecycles.
ReconcileDroppedEnd ==
    /\ task.pc = "dropped" /\ task.todo = NoKeys
    /\ task' = IF task.tick THEN At("absent", NonTerminalLifecycles, TRUE) ELSE Selecting
    /\ UNCHANGED <<decisionVars, txpool, unsent, events, lagged, arrivals, dropped, refused>>

\* reconcile_absent_non_terminal asks the txpool, without the pool lock, ...
ReconcileContains(t) ==
    /\ task.pc = "absent" /\ task.absent = {} /\ task.todo[t] # 0
    /\ task' = IF t \in txpool THEN [task EXCEPT !.todo[t] = 0]
               ELSE [task EXCEPT !.absent = {t}]
    /\ UNCHANGED <<decisionVars, txpool, unsent, events, lagged, arrivals, dropped, refused>>

\* Mutant: approved lifecycles are kept.
ReconcileRemoveOpen(t) ==
    LET current == life[t] = task.todo[t] /\ phase[t] = "open" IN
    /\ t \in task.absent
    /\ Decide([phase EXCEPT ![t] = IF current THEN "none" ELSE @])
    /\ task' = At("absent", [task.todo EXCEPT ![t] = 0], TRUE)
    /\ UNCHANGED <<txpool, unsent, events, lagged, arrivals, dropped, refused>>

\* Mutant: whatever lifecycle the hash has by now is removed.
ReconcileRemoveUnfenced(t) ==
    /\ t \in task.absent
    /\ Decide([phase EXCEPT ![t] = IF NonTerminalLifecycles[t] # 0 THEN "none" ELSE @])
    /\ task' = At("absent", [task.todo EXCEPT ![t] = 0], TRUE)
    /\ UNCHANGED <<txpool, unsent, events, lagged, arrivals, dropped, refused>>

\* ... and then removes the lifecycle it found without its transaction, if it
\* is still current (remove_non_terminal_if_generation).
ReconcileRemove(t) ==
    LET current == NonTerminalLifecycles[t] = task.todo[t] IN
    /\ t \in task.absent
    /\ Decide([phase EXCEPT ![t] = IF current THEN "none" ELSE @])
    /\ task' = At("absent", [task.todo EXCEPT ![t] = 0], TRUE)
    /\ UNCHANGED <<txpool, unsent, events, lagged, arrivals, dropped, refused>>

ReconcileAbsentEnd ==
    /\ task.pc = "absent" /\ task.todo = NoKeys
    /\ task' = Selecting
    /\ UNCHANGED <<decisionVars, txpool, unsent, events, lagged, arrivals, dropped, refused>>

-----------------------------------------------------------------------------

Environment ==
    \/ \E newPhase \in [Tx -> Phases] : WorkerDecides(newPhase)
    \/ \E event \in unsent : EmitTerminal(event)
    \/ LoseEvents
    \/ \E t \in Tx :
        \/ Audit(t)
        \/ Arrive(t)
        \/ Leave(t)
        \/ \E b \in Builders : Mismatch(b, t) \/ Refuse(b, t)
    \/ \E b \in Builders : RemoveRefused(b) \/ ForgetRefused(b)

\* The branches of select!, and the rest of a reconciliation under way.
Select == TaskEvent \/ TaskLagged \/ TaskNewTransaction \/ TaskTick
Reconcile ==
    \/ ReconcileDroppedEnd
    \/ ReconcileAbsentEnd
    \/ \E t \in Tx : ReconcileDropped(t) \/ ReconcileContains(t) \/ ReconcileRemove(t)

\* History: a lifecycle counts as gone from the first moment the txpool is
\* without its transaction.
Observe ==
    gone' = {t \in Tx : /\ life'[t] # 0
                        /\ t \notin txpool' \/ (t \in gone /\ life'[t] = life[t])}

Next == (Environment \/ Select \/ Reconcile) /\ Observe

Spec == Init /\ [][Next]_vars

\* A reconciliation has no await, so it runs to its end.  The interval is ready
\* again a second later and select! picks among its ready branches at random, so
\* the tick is not passed over for ever although other branches keep the task
\* busy: strong fairness.  No event is assumed to arrive.
FairSpec == Spec /\ WF_vars(Reconcile /\ Observe) /\ SF_vars(TaskTick /\ Observe)

-----------------------------------------------------------------------------
(* Properties.                                                               *)

\* Type correctness; the two queues respect their capacities.
TypeOK ==
    /\ phase \in [Tx -> Phases]
    /\ life \in [Tx -> 0 .. MaxGeneration]
    /\ opened \in 0 .. MaxGeneration
    /\ txpool \subseteq Tx
    /\ unsent \subseteq Lifecycles
    /\ events \in Seq(Lifecycles) /\ Len(events) <= EventCapacity
    /\ lagged \in BOOLEAN
    /\ arrivals \in Seq(Tx) /\ Len(arrivals) <= ListenerCapacity
    /\ dropped \in [Tx -> 0 .. MaxGeneration]
    /\ task \in [pc : {"select", "dropped", "absent"}, todo : [Tx -> 0 .. MaxGeneration],
                 tick : BOOLEAN, absent : SUBSET Tx]
    /\ refused \in [Builders -> {NoRefusal} \cup Refusals]
    /\ gone \subseteq Tx

\* Every eviction is accounted for by the lifecycle the hash has at that moment:
\* the txpool let the transaction go by itself, the lifecycle is rejected, or a
\* builder thread carries out a refusal -- and if that removal, which run_tx_loop
\* does without the pool lock, hits a transaction under audit, the audit is
\* younger than the look the refusal rests on.  No event, map entry or list that
\* outlived its lifecycle (run_terminal_discard) evicts a hash audited anew.
EvictionsAccounted ==
    [][\A t \in txpool \ txpool' :
          \/ Leave(t)
          \/ phase[t] = "rejected"
          \/ \E b \in Builders :
                /\ RemoveRefused(b)
                /\ refused[b][1] = t
                /\ phase[t] = "open" => refused[b][2] < life[t]]_vars

\* reconcile_absent_non_terminal forgets a lifecycle only if the txpool was without
\* its transaction at some moment of that very lifecycle: a hash that returned and
\* was audited anew between contains and the removal keeps its new audit
\* (remove_non_terminal_if_generation, "a stale generation can never remove a
\* reinserted lifecycle").
ForgottenOnlyIfGone ==
    [][Reconcile =>
          \A t \in Tx : NonTerminalLifecycles[t] # 0 /\ life'[t] = 0 => t \in gone]_vars

\* Whatever names the current lifecycle of a hash as dropped is right about it:
\* a rejection is announced after it is final, so an event or a map entry that
\* passes the generation fence is never premature.
AnnouncedIsRejected ==
    \A t \in Tx :
        /\ life[t] # 0
        /\ \/ <<t, life[t]>> \in unsent
           \/ \E i \in 1 .. Len(events) : events[i] = <<t, life[t]>>
           \/ dropped[t] = life[t]
        => phase[t] = "rejected"

\* A rejected transaction leaves the txpool, or its lifecycle is forgotten, even
\* when the event is lost, the receiver lags, the listener misses its return and
\* no builder thread ever meets it.
RejectedLeavesTxpool ==
    \A t \in Tx, g \in 1 .. MaxGeneration :
        (DroppedLifecycle(t, g) /\ t \in txpool) ~> (~DroppedLifecycle(t, g) \/ t \notin txpool)

\* Non-terminal memory is bounded by the txpool: a lifecycle whose transaction
\* is gone is removed or decided, unless the transaction comes back ("Non-terminal
\* memory is bounded separately by builder-side txpool-presence reconciliation").
AbsentAuditsReclaimed ==
    \A t \in Tx, g \in 1 .. MaxGeneration :
        LET idle == NonTerminalLifecycles[t] = g /\ t \notin txpool
        IN idle ~> ~idle
=============================================================================
