--------------------------- MODULE AuditDecision ----------------------------
(***************************************************************************)
(* What the RCS filter promises about the audit of one transaction, without *)
(* its workers, clocks and retries: a transaction hash is audited in        *)
(* lifecycles with identities that are never reused; a lifecycle is open    *)
(* until it is decided; an approval can still be withdrawn, but a release   *)
(* by timeout and a rejection are final for that lifecycle, until the       *)
(* filter forgets it.                                                       *)
(***************************************************************************)
EXTENDS Naturals

CONSTANTS
    Tx,             \* transaction hashes
    MaxGeneration   \* bound: lifecycles in a behaviour

VARIABLES
    phase,          \* the phase of the current lifecycle of a hash
    life,           \* its identity, 0 when the filter knows nothing of the hash
    opened          \* the identities handed out so far

decisionVars == <<phase, life, opened>>

Phases == {"none", "open", "approved", "released", "rejected"}

\* The moves of one lifecycle; any lifecycle may be forgotten.
Moves ==
    {<<"open", "approved">>, <<"open", "released">>, <<"open", "rejected">>,
     <<"approved", "rejected">>}
        \cup {<<p, "none">> : p \in Phases}

DecisionInit ==
    /\ phase = [t \in Tx |-> "none"]
    /\ life = [t \in Tx |-> 0]
    /\ opened = 0

\* An unknown hash is put under audit.
OpenAudit(t) ==
    /\ phase[t] = "none"
    /\ opened < MaxGeneration
    /\ opened' = opened + 1
    /\ phase' = [phase EXCEPT ![t] = "open"]
    /\ life' = [life EXCEPT ![t] = opened + 1]

\* Any lifecycles make one move each: a worker handles several in one go.
Decide(newPhase) ==
    /\ \A t \in Tx : newPhase[t] = phase[t] \/ <<phase[t], newPhase[t]>> \in Moves
    /\ phase' = newPhase
    /\ life' = [t \in Tx |-> IF newPhase[t] = "none" THEN 0 ELSE life[t]]
    /\ UNCHANGED opened

DecisionNext ==
    \/ \E t \in Tx : OpenAudit(t)
    \/ \E newPhase \in [Tx -> Phases] : Decide(newPhase)

DecisionSpec == DecisionInit /\ [][DecisionNext]_decisionVars
=============================================================================
