# TLA+ models of the X Layer node

X Layer's node is a Reth-based OP-stack node.  Its sequencer builds *flashblocks*
(several partial blocks per block) and can screen every transaction against a
risk-control service (RCS) before it is packaged.  This directory holds TLA+
models of its stateful parts, the TLC configurations that check them on small
instances, and TLAPS proofs of the main properties for every instance.

    tlc -config lifecycle.cfg MCRcsFilter     # a run: cfg and module are listed below
    tlapm RcsFilterSteps.tla                  # a module of proofs

`PROJECT.json` lists components, runs, the source lines of every definition, the
hazards and the theorems.

## 1. Inventory

| part | source | state | operations |
|---|---|---|---|
| buffer pool | `rcs-filter/src/pool.rs` | tx hash -> entry (status, generation, rule snapshot, quota hash, fallback, two timestamps) | insert, submit response, query status, timeouts, pruning, consistency check, removals |
| filter handle | `rcs-filter/src/handle.rs` | pool mutex, rules slot, terminal-event channel | `pre_screen`, `screen_tx`, `screen_existing`, cleanups |
| workers | `rcs-filter/src/worker.rs` | snapshots held across awaits, backoff | rules, submit, query, timeout tasks under a supervisor |
| submit scheduling | `rcs-filter/src/submit.rs` | groups, segments, dependency graph | `submit_once`, `run_normal_segment`, `submit_group` |
| rule matching, JSON logic, validation | `rcs-filter/src/matching.rs`, `rules/` | none | `try_evaluate`, `load_rules` |
| discard and cleanup tasks | `builder/src/flashblocks/service.rs` | dropped map, channels, txpool | `run_terminal_discard`, canonical cleanup |
| transaction loop | `builder/src/flashblocks/context.rs` | execution info, limits | `run_tx_loop`, sequencer and cached transactions |
| native-transfer capture | `builder/src/flashblocks/rcs_capture.rs` | observation log, checkpoints | inspector callbacks, start/finish/abort |
| payload builder | `builder/src/flashblocks/builder.rs`, `builder_tx.rs` | flashblock state, best payload | `build_payload`, `build_next_flashblock` |
| timing | `builder/src/flashblocks/timing.rs` | trigger times | `FlashblockScheduler` |
| payload jobs | `builder/src/flashblocks/generator.rs` | last cancel token, block cell | new job, resolve, deadline |
| payload handler, cache, websocket | `handler.rs`, `utils/cache.rs`, `utils/wspub.rs` | sequence of the pending block, file, subscribers | add, persist, load, replay, publish |
| p2p | `builder/src/p2p` | peers, streams | connect, broadcast, receive |
| flashblocks RPC side | `crates/flashblocks` | receivers, persistence | publish, persist, subscriptions |
| legacy RPC | `crates/legacy-rpc` | cutoff height | routing, split of `eth_getLogs` |
| RPC extensions, interception, monitor, chain specs, binaries | `crates/rpc`, `intercept`, `monitor`, `chainspec`, `bin` | little or none | handlers, predicates, wiring |

How they interact.  The transaction loop asks `pre_screen` before it executes a
transaction and `screen_tx` after.  A transaction that a rule sends to audit gets
an entry in the buffer pool.  The submit worker sends it to RCS, the query worker
polls the verdict, the timeout worker applies the rule's fallback when RCS stays
silent.  All of them share the pool under one mutex that is never held across an
await, so everything a task remembers can be stale when it is used; a *generation*
number per insertion fences it.  Rejections are broadcast to a task that evicts the
transaction from the txpool; canonical notifications remove entries.

What is hard about it: decisions applied after an await; two builder threads on
one hash; answers that arrive after the deadline; lost answers and resubmission;
lossy channels; worker restarts; rules that change in the middle of a screening;
order of requests that share a nonce or a quota.  The hazards of `PROJECT.json`
name the lines.

## 2. Modules

| module | models |
|---|---|
| `BufferPool` | the entry, and every operation of `pool.rs` as an operator on one entry or on the table |
| `RcsFilter` | screening threads, workers, RCS, clock and cleanups as actions over the pool |
| `AuditDecision` | abstract: what the filter promises about one audit |
| `TerminalDiscard` | the discard task, its channels, the txpool and the block-building thread, composed with `AuditDecision` (which `RcsFilter` implements) |
| `SubmitSchedule` | the order and the concurrency of the requests of one submit pass |
| `MCRcsFilter`, `MCSubmitSchedule` | instances for TLC |
| `BufferPoolTheorems`, `RcsFilterTypes`, `RcsFilterInvariant`, `RcsFilterSafety`, `RcsFilterSteps`, `RcsFilterDenials` | proofs |

### BufferPool and RcsFilter

`pool` is `BufferPool.entries`; an absent key is the record `NoEntry` with
generation 0.  One action is one critical section of the pool mutex or one step
between two of them.  `builder[b]` is a thread inside `screen_tx`, with what the
code holds in locals: the logs of its execution, the rule snapshot of a fresh
evaluation, and the copy of an entry taken by the lookup.  `submit[h]` is the
`submit_group` call of one block height, `query` the `query_once` pass,
`reconcile` the list `reconcile_absent_non_terminal` walks through.

Abstractions:

- *Time.*  The code only compares `now.saturating_sub(t)` with thresholds.  An
  entry carries these differences (`sinceFirst`, `sinceLast`); `Tick` adds a second
  and they saturate at `MaxAge`, above all thresholds.  `screen_tx` reads the clock
  just before it takes the lock (`handle.rs:341`, `:539`); the model reads it
  inside.  The wall clock is assumed not to step back.
- *Matching.*  `Outcome[r][l]` is what `try_evaluate` returns for the rule set `r`
  and the observation stream `l`; a budget error is a `Deny`, since `screen_tx`
  denies on it and the recompute treats both as inconsistent.  `quota` stands for
  the canonical encoding of the quota actions; its hash is taken as injective.
- *RCS* is external.  It may accept any part of a request, lose the answer, and
  answer a status query with any rows, of any status, for any hash.
- *Generations* are not wrapped.  `MaxGeneration` bounds the insertions of a
  behaviour.
- `pre_screen` results other than `Execute`, executions that fail and results that
  fail closed before `screen_tx` leave the filter's state alone and are no step.
- `rcs` (what RCS has received) and `evidence` (what was learnt about the current
  lifecycle: a verdict of RCS given after it had this very submission, a quota
  mismatch, inclusion in the chain, the application of an answer with a rejecting
  row) are not state of the code; the properties need them to tell whose verdict was
  applied.  `query.denials` is of the same kind: it is taken from the rows before they
  are ranked, so that a wrong ranking does not hide the rejection it loses.

### AuditDecision

A hash is unknown, open, approved, released or rejected, in lifecycles with fresh
identities.  An open lifecycle may be decided, an approval may turn into a
rejection, any lifecycle may be forgotten, and nothing else happens.  `RcsFilter`
implements it under `PhaseOf` (statuses to phases), generations as identities.

### TerminalDiscard

The filter's part is `AuditDecision`; added are the events a worker owes after the
pool lock, the broadcast channel with overwriting and `Lagged`, the bounded
listener of new transactions, the task's map and the two reconciliations with one
lock per lifecycle.  `refused[b]` is what a builder thread is about to remove from
the txpool, with the lifecycle it saw at its last look at the filter (0 for none).
That look is `pre_screen` or the lookup of `screen_tx`; the removal in `run_tx_loop`
comes after an execution or an evaluation and takes no lock, so the hash may have been
put under audit by another thread in between.  Neither an audit nor a refusal asks
whether the transaction is still in the txpool, since the iterator may have yielded it
earlier.  `gone`, maintained by `Observe`, is history: the lifecycles whose transaction
has been out of the txpool at some moment.

### SubmitSchedule

Groups are numbered by height.  `Predecessors` has the edges `build_normal_nodes`
draws with its two last-seen maps; `Launched` is the loop that fills the window from
the heap.  An exclusive group (unknown footprint) is a segment of its own.  What a
request does to the pool is in `RcsFilter`, which allows any order of the groups
and therefore every order of this module.

## 3. Runs

All runs pass; deadlock is checked in all of them.

| run | properties | states |
|---|---|---|
| `lifecycle` | `TypeOK`, `ApprovedReviewed`, `TombstoneHasCause`, `DenialStands`, `DeadlineWins`, `RejectionRemembered` | 692 000 |
| `refinement` | `ImplementsDecision` | 252 000 |
| `two_builders` | `ReleaseJustified` | 560 000 |
| `screening` | `TombstoneHasCause`, `ReleaseJustified` | 200 000 |
| `liveness` | `AuditsResolve`, `TombstonesEvicted` | 132 000 |
| `withdrawal` | `WithdrawnApprovalDropped` | 29 000 |
| `discard` | `TypeOK`, `AnnouncedIsRejected`, `EvictionsAccounted`, `ForgottenOnlyIfGone` | 341 000 |
| `discard_live` | `RejectedLeavesTxpool`, `AbsentAuditsReclaimed` | 9 000 |
| `schedule` | `TypeOK`, `ConflictsInOrder`, `BoundedConcurrency`, `WorkConserving` | 228 000 |
| `schedule_live` | `EveryGroupReturns` | 14 000 |

- `lifecycle`: a hash is audited twice, so that answers for the first lifecycle
  meet the second.  No approval and no tombstone is taken over from it; after the
  retry window only the fallback applies; a rejection outlives lag recovery, and
  wins over an approval in the same answer and over everything that comes later.
- `refinement`: the same with shorter windows, against `AuditDecision`.
- `two_builders`: the race between an `Allow` and a concurrent insertion, with rules
  that change from the empty set to an audit.
- `screening`: rule sets that disagree on quota, fallback and refusal; executions
  with different logs; an approval whose execution no longer matches.
- `liveness`: RCS may stay silent for ever; audits still resolve.
- `withdrawal`: RCS takes an approval back.  Every query except the one for denied
  transactions may fail in every pass, and the approval is withdrawn all the same.
- `discard`, `discard_live`: one-place channels, so that every send may lag.  A
  transaction leaves the txpool by itself, because its current lifecycle is rejected,
  or by a builder's refusal; where such a removal hits an open audit, the audit was
  opened after the thread's last look (the code does not exclude this case: two
  threads, two rule sets).  A reconciliation removes a lifecycle only if the
  transaction was away during that very lifecycle.
- `schedule`, `schedule_live`: all passes over `SmallGroups` (three nonces, three
  quotas, groups with two keys of a kind, two kinds of unknown footprint), all
  completion orders, two requests at a time.

Bounds.  The filter's entries do not influence each other except through the batch
of a request and the rows of an answer, both of which are handled entry by entry;
one hash with two lifecycles has all the races of a stale token.  The proofs cover
any number of hashes, builders and heights.  Windows of one to three seconds suffice
to order stalls before the deadline and the deadline before the eviction.  Four
groups allow a conflict that is only ordered through a third group beside one that is
independent.

Fairness.  `RcsFilter!FairSpec` assumes only that time passes and that the timeout
worker runs: it sleeps a second in an endless loop under a supervisor that restarts
it.  RCS, the other workers and the builders may stop.  `PollingSpec` assumes instead that
the query worker goes on polling and that each of its requests ends, in an answer or
an error (the client has a request timeout).  What `WithdrawnApprovalDropped` needs of
RCS, that it lists the denied transaction again and again when asked for denied ones,
and of the worker, that it stops panicking one day, are hypotheses of the property and
not part of the specification.  In `TerminalDiscard` a
reconciliation contains no await and runs to its end (weak fairness); the interval
is ready a second after it was last taken and `select!` picks among the ready
branches at random, so the tick is not passed over for ever while other branches
are taken (strong fairness).  No event has to arrive.  In `SubmitSchedule` every
request ends because the client has a request timeout.

Every property is paired in `PROJECT.json` with a changed definition (marked
"Mutant" in the modules) under which TLC finds it violated.

## 4. Proofs

For all sets of transactions, builders, heights, rules, logs and quotas and all
time-outs allowed by `FilterConfig::validate`:

| theorem | states |
|---|---|
| `RcsFilterTypes!TypeCorrect` | `Spec => []TypeOK` |
| `RcsFilterSafety!ApprovalsReviewed` | `Spec => []ApprovedReviewed` |
| `RcsFilterSafety!TombstonesCaused` | `Spec => []TombstoneHasCause` |
| `RcsFilterSteps!DeadlineIsFinal` | `Spec => DeadlineWins` |
| `RcsFilterSteps!RejectionsRemembered` | `Spec => RejectionRemembered` |
| `RcsFilterSteps!ReleasesJustified` | `Spec => ReleaseJustified` |
| `RcsFilterSteps!FilterImplementsDecision` | `Spec => ImplementsDecision` |
| `RcsFilterDenials!DenialsStand` | `Spec => []DenialStands` |

Assumptions: `OutcomeAssumption`, `ConfigAssumption`, `GenerationAssumption`
(`BufferPool`) and `EmptyRulesAssumption` (`RcsFilter`); TLC evaluates them in every
run of `MCRcsFilter`.

The argument.  `ApprovedReviewed` is not inductive: whether a verdict may be applied
depends on what the query worker remembered before its await.  The inductive
invariant `IInv` (`RcsFilterInvariant`) adds

- `PoolNumbered`: generations in the pool are positive, at most `nextGeneration`, and
  0 exactly where there is no entry;
- `PoolGrounded`: each entry has the cause its status needs (submission received,
  approval, rejection, mismatch or expired window);
- `Tokens`: whatever a task holds (a copied entry, a batch, an expected generation)
  has a generation at most `nextGeneration` and, *if* that generation is still the
  current one of the hash, agrees with the entry on quota, rules and evidence;
- `BuilderBusy`: a thread inside `screen_tx` has a transaction and logs.

An insertion uses a generation above all tokens, so no token speaks about it; every
other step keeps quota, rules and generation of an entry.  `BufferPoolTheorems` has
the facts about single operations.  `RcsFilterSteps` classifies every step as one
insertion or as moves that keep the lifecycle of each entry (`StepCases`); the action
properties and the refinement follow from the cases.  `DenialStands` needs one more
conjunct, `QueryDenials`: in the answer in hand, a hash with a rejecting row has a
rejection as its verdict.  That a rejection leads to a tombstone and that no move leads
out of one are lemmas about single entries.

Model-checked only: the liveness properties (fairness and ENABLED are outside the
prover), and so far all properties of `TerminalDiscard` and `SubmitSchedule`.

## 5. Not modelled, and the plan

Left out for good: metrics and logging, argument parsing, HTTP and JSON encoding, EVM
execution and state roots, the yamux multiplexer, chain tables, offline tools,
monitoring (it forwards events and changes nothing).

Next, in this order:

1. `PayloadJob`: job creation, cancellation, deadline, block cell and resolution as
   processes; at most one live build, every resolve is answered when a payload exists.
2. `FlashblockBuild` and `FlashblockTiming`: the build loop of one block with its
   triggers and per-flashblock limits; trigger times against a reference definition;
   limits never exceeded at the end of a batch.
3. `TxLoop`: gas, DA and gasless limits, cached-sequence replay and cancellation.
4. `SequenceCache`: add, persist by write and rename, crash, reload, replay; what is
   replayed is a prefix of what was published for that parent.
5. `NativeCapture`: checkpoints and reverts against the observations of successful frames.
6. `RuleMatching`: candidates, bindings, budget, strictest action and JSON logic as
   operators against a declarative reference.
7. `LegacyRouting`: the split of a log range against an undivided chain.
8. `PeerStreams`, `WsPublisher`, `RulesReload` (backoff and hot reload).

Proofs to come: `SubmitSchedule!ConflictsInOrder` (by the maximal conflicting
predecessor), `TerminalDiscard!AnnouncedIsRejected`, `EvictionsAccounted` and
`ForgottenOnlyIfGone`, then the safety invariants of the modules above.
