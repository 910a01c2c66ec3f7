--------------------------- MODULE SubmitSchedule ---------------------------
(***************************************************************************)
(* The order in which one submit pass sends its groups to RCS               *)
(* (crates/rcs-filter/src/submit.rs): submit_once turns the NotSubmitted    *)
(* transactions into one group per block height, build_submit_schedule cuts *)
(* the groups into segments at every group of unknown footprint, and        *)
(* run_normal_segment runs a segment as a dependency graph on a bounded     *)
(* number of concurrent requests.                                           *)
(*                                                                          *)
(* Groups are numbered in the order of their heights (a BTreeMap).  A       *)
(* request that fails releases its successors as one that succeeds, so the  *)
(* result of a request is not part of the state; RcsFilter has its effect   *)
(* on the pool.                                                             *)
(***************************************************************************)
EXTENDS Naturals, FiniteSets

CONSTANTS
    MaxGroups,              \* bound: groups in a pass
    NonceKeys,              \* (origin, nonce)
    QuotaKeys,              \* (recipient, token)
    EntrySets,              \* bound: the entries a group may consist of
    SubmitMaxConcurrency    \* FilterConfig::submit_max_concurrency

Groups == 1 .. MaxGroups

\* A transaction of a group: its nonce, the quota items whose recipient and
\* token are recognized, and whether every audit item was.
SubmitEntry == [nonce : NonceKeys, quota : SUBSET QuotaKeys, known : BOOLEAN]

ASSUME ScheduleAssumption ==
    /\ MaxGroups \in Nat
    /\ EntrySets \subseteq SUBSET SubmitEntry
    /\ SubmitMaxConcurrency \in Nat \ {0}

VARIABLES
    entries,    \* the groups of this pass
    next,       \* the first group of the segments still to run
    segment,    \* the groups of the segment that runs
    remaining,  \* SubmitNode.remaining_predecessors
    ready,      \* groups without unfinished predecessors, not started
    active,     \* groups whose submit_group call is in progress
    done        \* groups whose submit_group call has returned

vars == <<entries, next, segment, remaining, ready, active, done>>

-----------------------------------------------------------------------------
(* Conflict profiles and the schedule.                                       *)

\* GroupConflictProfile, as profile_entries computes it: the nonce and the quota
\* keys, and whether some transaction has no action or an unrecognized one.
Keys(i) ==
    {<<"nonce", e.nonce>> : e \in entries[i]}
        \cup {<<"quota", k>> : k \in UNION {e.quota : e \in entries[i]}}
Exclusive(i) == \E e \in entries[i] : ~e.known \/ e.quota = {}

\* build_submit_schedule: the segment that starts at group i.
SegmentAt(i) ==
    IF Exclusive(i) THEN {i}
    ELSE {j \in i .. MaxGroups : \A m \in i .. j : ~Exclusive(m)}

\* Mutant: no edges for shared quotas.
NoncePredecessors(s, i) ==
    {j \in s : /\ j < i
               /\ \E n \in NonceKeys :
                      /\ <<"nonce", n>> \in Keys(i) \cap Keys(j)
                      /\ \A m \in s : j < m /\ m < i => <<"nonce", n>> \notin Keys(m)}

\* build_normal_nodes: the edges into group i of segment s come from the last
\* earlier group with the same key (last_nonce, last_quota), key by key.
Predecessors(s, i) ==
    {j \in s : /\ j < i
               /\ \E k \in Keys(i) \cap Keys(j) :
                      \A m \in s : j < m /\ m < i => k \notin Keys(m)}

\* Mutant: one request too many.
LaunchedOneMore(waiting, running) ==
    {i \in waiting :
        Cardinality({j \in waiting : j < i}) + Cardinality(running) <= SubmitMaxConcurrency}

\* Mutant: one group is started where several fit.
LaunchedOne(waiting, running) ==
    {i \in waiting : \A j \in waiting : i <= j /\ Cardinality(running) < SubmitMaxConcurrency}

\* The inner loop of run_normal_segment: pop the lowest ready groups while there
\* is room.
Launched(waiting, running) ==
    {i \in waiting :
        Cardinality({j \in waiting : j < i}) + Cardinality(running) < SubmitMaxConcurrency}

-----------------------------------------------------------------------------

Passes == [Groups -> EntrySets]

Init ==
    /\ entries \in Passes
    /\ next = 1
    /\ segment = {}
    /\ remaining = [i \in Groups |-> 0]
    /\ ready = {}
    /\ active = {}
    /\ done = {}

\* Mutant: predecessors are counted once per shared key.
StartSegmentPerKey ==
    LET s == SegmentAt(next)
        roots == {i \in s : Predecessors(s, i) = {}}
        launched == IF Exclusive(next) THEN s ELSE Launched(roots, {})
        edges(i) == {<<j, k>> \in Predecessors(s, i) \X Keys(i) : k \in Keys(j)} IN
    /\ active = {} /\ next \in Groups
    /\ next' = next + Cardinality(s)
    /\ segment' = s
    /\ remaining' = [i \in Groups |-> IF i \in s THEN Cardinality(edges(i)) ELSE 0]
    /\ ready' = roots \ launched
    /\ active' = launched
    /\ UNCHANGED <<entries, done>>

\* Mutant: a group is skipped after every segment.
StartSegmentSkips ==
    LET s == SegmentAt(next)
        roots == {i \in s : Predecessors(s, i) = {}}
        launched == IF Exclusive(next) THEN s ELSE Launched(roots, {}) IN
    /\ active = {} /\ next \in Groups
    /\ next' = next + Cardinality(s) + 1
    /\ segment' = s
    /\ remaining' = [i \in Groups |-> IF i \in s THEN Cardinality(Predecessors(s, i)) ELSE 0]
    /\ ready' = roots \ launched
    /\ active' = launched
    /\ UNCHANGED <<entries, done>>

\* submit_once takes the next segment; run_normal_segment collects the nodes
\* without predecessors and starts as many as fit.
StartSegment ==
    LET s == SegmentAt(next)
        roots == {i \in s : Predecessors(s, i) = {}}
        launched == IF Exclusive(next) THEN s ELSE Launched(roots, {}) IN
    /\ active = {} /\ next \in Groups
    /\ next' = next + Cardinality(s)
    /\ segment' = s
    /\ remaining' = [i \in Groups |-> IF i \in s THEN Cardinality(Predecessors(s, i)) ELSE 0]
    /\ ready' = roots \ launched
    /\ active' = launched
    /\ UNCHANGED <<entries, done>>

\* A call returns: its successors lose a predecessor, those that lost the last
\* one become ready, and the free room is filled.
Complete(i) ==
    LET successors == {j \in segment : i \in Predecessors(segment, j)}
        left == [j \in Groups |-> IF j \in successors THEN remaining[j] - 1 ELSE remaining[j]]
        waiting == ready \cup {j \in successors : left[j] = 0}
        launched == Launched(waiting, active \ {i}) IN
    /\ i \in active
    /\ done' = done \cup {i}
    /\ remaining' = left
    /\ ready' = waiting \ launched
    /\ active' = (active \ {i}) \cup launched
    /\ UNCHANGED <<entries, next, segment>>

\* submit_once returns; the next pass starts from another snapshot, as Init does.
PassOver ==
    /\ active = {} /\ next \notin Groups
    /\ UNCHANGED vars

Next == StartSegment \/ (\E i \in Groups : Complete(i)) \/ PassOver

Spec == Init /\ [][Next]_vars

\* Every request ends, by its answer, an error or the client's timeout, so some
\* request in flight returns and the worker goes on.
FairSpec == Spec /\ WF_vars(Next)

-----------------------------------------------------------------------------
(* Properties.                                                               *)

\* Type correctness.
TypeOK ==
    /\ entries \in Passes
    /\ next \in 1 .. MaxGroups + 1
    /\ segment \subseteq Groups
    /\ remaining \in [Groups -> Nat]
    /\ ready \subseteq segment
    /\ active \subseteq segment
    /\ done \subseteq Groups

\* Two groups that must not be in flight together: a shared nonce, a shared
\* quota, or a footprint that is not known.
Conflict(i, j) == Exclusive(i) \/ Exclusive(j) \/ Keys(i) \cap Keys(j) # {}

\* Groups that conflict are sent in the order of their heights, one after the
\* other: when a group is sent, every earlier group it conflicts with has
\* returned.  (The graph only has an edge from the last group with the same key.)
ConflictsInOrder ==
    \A i \in active \cup done : \A j \in Groups :
        j < i /\ Conflict(i, j) => j \in done \ active

\* No more requests than submit_max_concurrency are in flight.
BoundedConcurrency == Cardinality(active) <= SubmitMaxConcurrency

\* The pass never idles: with room to spare, a group of the segment waits only
\* for an earlier group that conflicts with it and has not returned.
WorkConserving ==
    Cardinality(active) < SubmitMaxConcurrency =>
        \A i \in segment \ (active \cup done) :
            \E j \in segment \ done : j < i /\ Conflict(i, j)

\* Every group of a pass is sent and returns ("submit dependency graph must be
\* acyclic"); no group is left behind when its segment ends.
EveryGroupReturns == \A i \in Groups : i \notin done ~> i \in done

=============================================================================
