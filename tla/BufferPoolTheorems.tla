------------------------- MODULE BufferPoolTheorems -------------------------
(* What the operations of BufferPool preserve, for one entry.                *)
EXTENDS BufferPool, TLAPS

\* The entry is well formed: an absent key has generation 0, a stored entry has
\* one of the generations handed out so far.
WellNumbered(e, last) ==
    IF Present(e) THEN e.generation \in 1 .. last ELSE e.generation = 0

\* f is the same lifecycle as e, possibly later: the fields that are set once at
\* insertion are the same and the retry window has not been restarted.
SameLifecycle(e, f) ==
    /\ f.generation = e.generation
    /\ f.quota = e.quota
    /\ f.rules = e.rules
    /\ f.onTimeout = e.onTimeout
    /\ f.sinceFirst >= e.sinceFirst
    /\ Present(f) <=> Present(e)

\* An absent key has the shape of an entry.
LEMMA NoEntryType == NoEntry \in BufferEntry /\ ~Present(NoEntry) /\ NoEntry.generation = 0
  BY ConfigAssumption, GenerationAssumption
  DEF NoEntry, BufferEntry, Present, Generations, Ages, TimeoutActions

\* An entry is its own lifecycle.
LEMMA SameSelf == ASSUME NEW e \in BufferEntry PROVE SameLifecycle(e, e)
  BY ConfigAssumption DEF SameLifecycle, BufferEntry, Ages

\* A status change keeps the lifecycle.
LEMMA TransitionKeeps ==
  ASSUME NEW e \in BufferEntry, NEW s \in BufferStatus, Present(e)
  PROVE  /\ Transition(e, s) \in BufferEntry
         /\ SameLifecycle(e, Transition(e, s))
         /\ Transition(e, s).status = s
  <1> DEFINE f == Transition(e, s)
  <1>0. 0 \in Ages
    BY ConfigAssumption DEF Ages
  <1>1. f \in BufferEntry
    BY Zenon, <1>0 DEF Transition, BufferEntry
  <1>2. /\ f.status = s
        /\ f.generation = e.generation /\ f.quota = e.quota /\ f.rules = e.rules
        /\ f.onTimeout = e.onTimeout /\ f.sinceFirst = e.sinceFirst
    BY DEF Transition, BufferEntry
  <1>3. s # "Absent"
    BY DEF BufferStatus, Retryable, Terminal
  <1>4. e.sinceFirst \in Nat
    BY ConfigAssumption DEF BufferEntry, Ages
  <1> HIDE DEF f
  <1>5. SameLifecycle(e, f)
    BY <1>2, <1>3, <1>4 DEF SameLifecycle, Present
  <1> QED
    BY <1>1, <1>2, <1>5 DEF f

\* resolve_total_timeout keeps the lifecycle; it moves an expired entry to its
\* fallback and no other.
LEMMA ResolveKeeps ==
  ASSUME NEW e \in BufferEntry
  PROVE  LET f == ResolveTotalTimeout(e) IN
         /\ f \in BufferEntry
         /\ SameLifecycle(e, f)
         /\ Expired(e) => /\ e.onTimeout = "Allow" => f.status = "TimedOutAllow"
                          /\ e.onTimeout = "Deny" => f.status = "Dropped"
         /\ ~Expired(e) => f = e
  <1>1. CASE Expired(e)
    <2>1. Present(e)
      BY <1>1 DEF Expired, Present, Retryable
    <2>2. e.onTimeout \in {"Allow", "Deny"}
      BY DEF BufferEntry, TimeoutActions
    <2> DEFINE s == IF e.onTimeout = "Allow" THEN "TimedOutAllow" ELSE "Dropped"
    <2>3. s \in BufferStatus
      BY DEF BufferStatus, Terminal
    <2>4. ResolveTotalTimeout(e) = Transition(e, s)
      BY <1>1 DEF ResolveTotalTimeout
    <2> QED
      BY <1>1, <2>1, <2>2, <2>3, <2>4, TransitionKeeps
  <1>2. CASE ~Expired(e)
    BY <1>2 DEF ResolveTotalTimeout, SameLifecycle, BufferEntry, Ages
  <1> QED
    BY <1>1, <1>2

\* One second more keeps the lifecycle and its status.
LEMMA OlderKeeps ==
  ASSUME NEW e \in BufferEntry
  PROVE  /\ Older(e) \in BufferEntry
         /\ SameLifecycle(e, Older(e))
         /\ Older(e).status = e.status
  <1>1. e.sinceFirst \in Ages /\ e.sinceLast \in Ages
    BY DEF BufferEntry
  <1>2. ASSUME NEW n \in Ages PROVE Saturate(n) \in Ages /\ Saturate(n) >= n /\ n >= n
    BY ConfigAssumption DEF Saturate, Ages
  <1>3. CASE Present(e)
    <2> DEFINE f == [e EXCEPT !.sinceFirst = Saturate(@), !.sinceLast = Saturate(@)]
    <2>1. Older(e) = f
      BY <1>3 DEF Older
    <2>2. f \in BufferEntry
      BY Zenon, <1>1, <1>2 DEF BufferEntry
    <2>3. /\ f.status = e.status /\ f.generation = e.generation /\ f.quota = e.quota
          /\ f.rules = e.rules /\ f.onTimeout = e.onTimeout
          /\ f.sinceFirst = Saturate(e.sinceFirst)
      BY DEF BufferEntry
    <2> HIDE DEF f
    <2> QED
      BY <1>1, <1>2, <2>1, <2>2, <2>3 DEF SameLifecycle, Present
  <1>4. CASE ~Present(e)
    BY <1>1, <1>2, <1>4 DEF Older, SameLifecycle
  <1> QED
    BY <1>3, <1>4

-----------------------------------------------------------------------------
(* The moves an operation makes, as cases.                                   *)

\* apply_submit_response leaves the entry alone, applies its deadline, or moves
\* exactly the lifecycle it was called for from NotSubmitted to Submitted.
LEMMA SubmitResponseCases ==
  ASSUME NEW e \in BufferEntry, NEW g, NEW accepted \in BOOLEAN
  PROVE  LET f == ApplySubmitResponse(e, g, accepted) IN
         \/ f = e
         \/ f = ResolveTotalTimeout(e)
         \/ /\ e.generation = g /\ accepted /\ ~Expired(e)
            /\ e.status = "NotSubmitted" /\ f = Transition(e, "Submitted")
  BY DEF ApplySubmitResponse

\* apply_query_status: the same, for a verdict.
LEMMA QueryStatusCases ==
  ASSUME NEW e \in BufferEntry, NEW g, NEW status
  PROVE  LET f == ApplyQueryStatus(e, g, status) IN
         \/ f = e
         \/ f = ResolveTotalTimeout(e)
         \/ /\ e.generation = g /\ ~Expired(e) /\ Present(e) /\ ~IsTerminal(e)
            /\ \/ /\ e.status = "Submitted" /\ f = Transition(e, "Pending")
               \/ /\ status = "approved" /\ e.status \in {"Submitted", "Pending"}
                  /\ f = Transition(e, "Approved")
               \/ /\ status \in {"denied", "outdated"} /\ f = Transition(e, "Dropped")
  BY DEF ApplyQueryStatus

\* check_timeouts: the deadline, or a stall that asks for a new submission.
LEMMA CheckTimeoutsCases ==
  ASSUME NEW e \in BufferEntry
  PROVE  LET f == CheckTimeouts(e) IN
         \/ f = e /\ ~Expired(e)
         \/ f = ResolveTotalTimeout(e)
         \/ /\ ~Expired(e) /\ e.status \in {"Submitted", "Pending"}
            /\ f = Transition(e, "NotSubmitted")
  BY DEF CheckTimeouts

-----------------------------------------------------------------------------
(* Grounds.                                                                  *)

\* The status of an entry has its grounds: received says that RCS holds the
\* submission of this lifecycle, ev is what was found out about it.
Grounded(e, received, ev) ==
    /\ e.status \in InFlight => received
    /\ e.status = "Approved" => "approved" \in ev
    /\ e.status = "Dropped" =>
          \/ ev \cap {"rejected", "mismatch"} # {}
          \/ e.sinceFirst > TotalRetryTimeout /\ e.onTimeout = "Deny"
    /\ e.status = "TimedOutAllow" =>
          e.sinceFirst > TotalRetryTimeout /\ e.onTimeout = "Allow"

\* A later state of the same lifecycle in the same status stays grounded.
LEMMA GroundedLater ==
  ASSUME NEW e \in BufferEntry, NEW f \in BufferEntry, NEW received, NEW ev,
         SameLifecycle(e, f), f.status = e.status, Grounded(e, received, ev)
  PROVE  Grounded(f, received, ev)
  <1>1. e.sinceFirst \in Nat /\ f.sinceFirst \in Nat /\ TotalRetryTimeout \in Nat
    BY ConfigAssumption DEF BufferEntry, Ages
  <1> QED
    BY <1>1 DEF Grounded, SameLifecycle

\* More submissions and more findings do not take grounds away.
LEMMA GroundedMore ==
  ASSUME NEW e, NEW R1 \in BOOLEAN, NEW R2 \in BOOLEAN, NEW ev1, NEW ev2,
         Grounded(e, R1, ev1), R1 => R2, ev1 \subseteq ev2
  PROVE  Grounded(e, R2, ev2)
  BY DEF Grounded

\* The deadline grounds the tombstone it creates.
LEMMA GroundedResolve ==
  ASSUME NEW e \in BufferEntry, NEW received, NEW ev, Grounded(e, received, ev)
  PROVE  Grounded(ResolveTotalTimeout(e), received, ev)
  <1> DEFINE f == ResolveTotalTimeout(e)
  <1>1. f \in BufferEntry /\ SameLifecycle(e, f)
    BY ResolveKeeps
  <1>2. CASE Expired(e)
    <2>1. e.sinceFirst > TotalRetryTimeout /\ e.onTimeout \in {"Allow", "Deny"}
      BY <1>2 DEF Expired, BufferEntry, TimeoutActions
    <2>2. /\ e.onTimeout = "Allow" => f.status = "TimedOutAllow"
          /\ e.onTimeout = "Deny" => f.status = "Dropped"
      BY <1>2, ResolveKeeps
    <2>3. f.sinceFirst > TotalRetryTimeout /\ f.onTimeout = e.onTimeout
      <3>1. e.sinceFirst \in Nat /\ f.sinceFirst \in Nat /\ TotalRetryTimeout \in Nat
        BY <1>1, ConfigAssumption DEF BufferEntry, Ages
      <3> QED
        BY <1>1, <2>1, <3>1 DEF SameLifecycle
    <2> HIDE DEF f
    <2>4. Grounded(f, received, ev)
      BY <2>1, <2>2, <2>3 DEF Grounded, InFlight
    <2> QED
      BY <2>4 DEF f
  <1>3. CASE ~Expired(e)
    BY <1>3, ResolveKeeps
  <1> QED
    BY <1>2, <1>3

\* A status other than those of Grounded needs no grounds, and a new status has
\* those it is given.
LEMMA GroundedTransition ==
  ASSUME NEW e \in BufferEntry, NEW s \in BufferStatus, NEW received, NEW ev, Present(e),
         s \in InFlight => received,
         s = "Approved" => "approved" \in ev,
         s = "Dropped" => ev \cap {"rejected", "mismatch"} # {},
         s # "TimedOutAllow"
  PROVE  Grounded(Transition(e, s), received, ev)
  BY TransitionKeeps DEF Grounded

\* apply_submit_response keeps an entry grounded if RCS holds the submission of
\* the lifecycle it is called for.
LEMMA GroundedSubmitResponse ==
  ASSUME NEW e \in BufferEntry, NEW g, NEW accepted \in BOOLEAN, NEW received, NEW ev,
         Grounded(e, received, ev), e.generation = g /\ accepted /\ Present(e) => received
  PROVE  LET f == ApplySubmitResponse(e, g, accepted) IN
         f \in BufferEntry /\ SameLifecycle(e, f) /\ Grounded(f, received, ev)
  <1> DEFINE f == ApplySubmitResponse(e, g, accepted)
  <1>1. CASE f = e
    BY <1>1 DEF SameLifecycle, BufferEntry, Ages
  <1>2. CASE f = ResolveTotalTimeout(e)
    BY <1>2, ResolveKeeps, GroundedResolve
  <1>3. CASE /\ e.generation = g /\ accepted
             /\ e.status = "NotSubmitted" /\ f = Transition(e, "Submitted")
    <2>1. Present(e) /\ "Submitted" \in BufferStatus
      BY <1>3 DEF Present, BufferStatus, Retryable
    <2> QED
      BY Zenon, <1>3, <2>1, TransitionKeeps, GroundedTransition
  <1> HIDE DEF f
  <1>4. f = e \/ f = ResolveTotalTimeout(e)
          \/ (/\ e.generation = g /\ accepted
              /\ e.status = "NotSubmitted" /\ f = Transition(e, "Submitted"))
    BY SubmitResponseCases DEF f
  <1> QED
    BY <1>1, <1>2, <1>3, <1>4 DEF f

\* apply_query_status keeps an entry grounded if the verdict is one RCS gave
\* about this lifecycle.
LEMMA GroundedQueryStatus ==
  ASSUME NEW e \in BufferEntry, NEW g, NEW status, NEW received, NEW ev,
         Grounded(e, received, ev),
         e.generation = g /\ Present(e) =>
            /\ received
            /\ status = "approved" => "approved" \in ev
            /\ status \in {"denied", "outdated"} => "rejected" \in ev
  PROVE  LET f == ApplyQueryStatus(e, g, status) IN
         f \in BufferEntry /\ SameLifecycle(e, f) /\ Grounded(f, received, ev)
  <1> DEFINE f == ApplyQueryStatus(e, g, status)
  <1>0. {"Pending", "Approved", "Dropped"} \subseteq BufferStatus
    BY DEF BufferStatus, Retryable, Terminal
  <1>1. CASE f = e
    BY <1>1 DEF SameLifecycle, BufferEntry, Ages
  <1>2. CASE f = ResolveTotalTimeout(e)
    BY <1>2, ResolveKeeps, GroundedResolve
  <1>3. CASE e.generation = g /\ Present(e) /\ f = Transition(e, "Pending")
    BY ZenonT(60), <1>0, <1>3, TransitionKeeps, GroundedTransition
  <1>4. CASE e.generation = g /\ Present(e) /\ status = "approved" /\ f = Transition(e, "Approved")
    BY ZenonT(60), <1>0, <1>4, TransitionKeeps, GroundedTransition
  <1>5. CASE /\ e.generation = g /\ Present(e) /\ status \in {"denied", "outdated"}
             /\ f = Transition(e, "Dropped")
    <2>1. ev \cap {"rejected", "mismatch"} # {}
      BY <1>5
    <2>2. "Dropped" \in BufferStatus
      BY <1>0
    <2>3. Grounded(Transition(e, "Dropped"), received, ev)
      BY Zenon, <1>5, <2>1, <2>2, GroundedTransition DEF InFlight
    <2> QED
      BY Zenon, <1>5, <2>2, <2>3, TransitionKeeps
  <1> HIDE DEF f
  <1>6. \/ f = e
        \/ f = ResolveTotalTimeout(e)
        \/ e.generation = g /\ Present(e) /\ f = Transition(e, "Pending")
        \/ e.generation = g /\ Present(e) /\ status = "approved" /\ f = Transition(e, "Approved")
        \/ /\ e.generation = g /\ Present(e) /\ status \in {"denied", "outdated"}
           /\ f = Transition(e, "Dropped")
    BY QueryStatusCases DEF f
  <1> QED
    BY <1>1, <1>2, <1>3, <1>4, <1>5, <1>6 DEF f

\* check_timeouts keeps an entry grounded.
LEMMA GroundedCheckTimeouts ==
  ASSUME NEW e \in BufferEntry, NEW received, NEW ev, Grounded(e, received, ev)
  PROVE  LET f == CheckTimeouts(e) IN
         f \in BufferEntry /\ SameLifecycle(e, f) /\ Grounded(f, received, ev)
  <1> DEFINE f == CheckTimeouts(e)
  <1>1. CASE f = e
    BY <1>1 DEF SameLifecycle, BufferEntry, Ages
  <1>2. CASE f = ResolveTotalTimeout(e)
    BY <1>2, ResolveKeeps, GroundedResolve
  <1>3. CASE e.status \in {"Submitted", "Pending"} /\ f = Transition(e, "NotSubmitted")
    <2>1. Present(e) /\ "NotSubmitted" \in BufferStatus
      BY <1>3 DEF Present, BufferStatus, Retryable
    <2> QED
      BY <1>3, <2>1, TransitionKeeps, GroundedTransition DEF InFlight
  <1> HIDE DEF f
  <1>4. \/ f = e
        \/ f = ResolveTotalTimeout(e)
        \/ e.status \in {"Submitted", "Pending"} /\ f = Transition(e, "NotSubmitted")
    BY CheckTimeoutsCases DEF f
  <1> QED
    BY <1>1, <1>2, <1>3, <1>4 DEF f

\* finish_consistency_check keeps an entry grounded if a mismatch is on record.
LEMMA GroundedConsistencyCheck ==
  ASSUME NEW e \in BufferEntry, NEW g, NEW consistent \in BOOLEAN, NEW received, NEW ev,
         Grounded(e, received, ev),
         e.generation = g /\ ~consistent => "mismatch" \in ev
  PROVE  LET f == FinishConsistencyCheck(e, g, consistent) IN
         f \in BufferEntry /\ SameLifecycle(e, f) /\ Grounded(f, received, ev)
  <1> DEFINE f == FinishConsistencyCheck(e, g, consistent)
  <1>1. CASE f = e
    BY <1>1 DEF SameLifecycle, BufferEntry, Ages
  <1>2. CASE Matches(e, g, "Approved") /\ ~consistent /\ f = Transition(e, "Dropped")
    <2>1. Present(e) /\ "Dropped" \in BufferStatus
      BY <1>2 DEF Matches, Present, BufferStatus, Terminal
    <2>2. ev \cap {"rejected", "mismatch"} # {}
      BY <1>2 DEF Matches
    <2> QED
      BY <1>2, <2>1, <2>2, TransitionKeeps, GroundedTransition DEF InFlight
  <1> QED
    BY <1>1, <1>2 DEF FinishConsistencyCheck

\* An absent key is grounded.
LEMMA GroundedNoEntry == \A received, ev : Grounded(NoEntry, received, ev)
  BY DEF Grounded, NoEntry, InFlight
=============================================================================
