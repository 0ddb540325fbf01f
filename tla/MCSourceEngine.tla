--------------------------- MODULE MCSourceEngine ---------------------------
(* A plugin's calls and the requests it makes, side by side for TLC: the   *)
(* engine (SourceEngine) and the guard that challenged requests meet       *)
(* (Challenges, by way of MCChallenges).  They share no state; a behaviour *)
(* is one of the part its start chooses, and the other rests.              *)
EXTENDS SourceEngine, MCChallenges, TLC

CONSTANTS b1, b2, v1, v2

VARIABLE part

\* Two binaries of two versions, or two local builds of one version.
TwoVersions == [b \in Builds |-> IF b = b1 THEN v1 ELSE v2]

hostVars == <<outstanding, listed, bundles, legacy, subscribed, inFlight, spent, solving, viewHost,
              proc, unverified, notifying, fetches, submits, presses>>
allVars == <<part, vars, hostVars>>

EngineStep(S) == part = "engine" /\ S /\ UNCHANGED <<part, hostVars>>
HostsStep(S) == part = "hosts" /\ S /\ UNCHANGED <<part, vars>>

PartsInit ==
    /\ part \in {"engine", "hosts"} /\ Init /\ H!Init
    /\ (part = "engine" => legacy = Nobody) /\ (part = "hosts" => ids = 0)

PartsNext == EngineStep(Next) \/ HostsStep(H!Next)

\* The fairness of each part, as its module states it.
PartsFairness ==
    /\ \A c \in Callers : WF_allVars(EngineStep(CallerStep(c)))
    /\ \A a \in Admins : WF_allVars(EngineStep(AdminStep(a)))
    /\ WF_allVars(EngineStep(ClosingStep))
    /\ \A p \in H!Procs : WF_allVars(HostsStep(H!ProcStep(p)))

PartsSpec == PartsInit /\ [][PartsNext]_allVars /\ PartsFairness
=============================================================================
