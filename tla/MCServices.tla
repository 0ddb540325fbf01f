------------------------------ MODULE MCServices ------------------------------
(* Four parts of the program that share no state, side by side: `makidoku  *)
(* serve` itself, `makidoku download`, the account of a tracker and the    *)
(* pacing of requests.  A behaviour is one of the part Init chooses, the   *)
(* others rest; so the run has the sum of their states, not the product.   *)
EXTENDS Naturals, FiniteSets, TLC

CONSTANTS MaxHandlers, Rows, Drainers, MaxClaimFailures, Handlers, Callers, SyncCallers, MaxGrants,
          MaxTokens, MaxEvents, Pacers, Sources, Hosts, Intervals, Retries, Backoff, MaxWrites, None

Default == [interval |-> 1, retries |-> 0]

VARIABLES part,
    step, signalled, stopping, listener, handlers, loop, answer, taken, launch, timedOut, first,
    result, released,
    pending, inHand, pc, errs, failures, refused, completed, canceled, paused, returned,
    stored, oauth, begun, used, provider, handler, caller, lost, clobbered, events, page,
    override, hint, policies, writing, writes, stale, next, quiet, pacer

D == INSTANCE Daemon
O == INSTANCE DownloadDrain WITH Workers <- Drainers
A == INSTANCE TrackerAccounts
P == INSTANCE PagePacing WITH Workers <- Pacers

ASSUME ServicesAssumption ==
    D!DaemonAssumption /\ O!DrainAssumption /\ A!AccountsAssumption /\ P!PacingAssumption

daemonVars == <<step, signalled, stopping, listener, handlers, loop, answer, taken, launch,
                timedOut, first, result, released>>
drainVars == <<pending, inHand, pc, errs, failures, refused, completed, canceled, paused, returned>>
accountVars == <<stored, oauth, begun, used, provider, handler, caller, lost, clobbered, events, page>>
pacingVars == <<override, hint, policies, writing, writes, stale, next, quiet, pacer>>
vars == <<part, daemonVars, drainVars, accountVars, pacingVars>>

Init ==
    /\ part \in {"daemon", "drain", "account", "pacing"}
    /\ D!DaemonInit /\ O!Init /\ A!AccountsInit /\ P!PacingInit
    /\ part # "pacing" => \A s \in Sources : hint[s] = P!Silent

\* A step of one part, the variables of the others at rest.
DaemonStep(S) == part = "daemon" /\ S /\ UNCHANGED <<part, drainVars, accountVars, pacingVars>>
DrainStep(S) == part = "drain" /\ S /\ UNCHANGED <<part, daemonVars, accountVars, pacingVars>>
AccountStep(S) == part = "account" /\ S /\ UNCHANGED <<part, daemonVars, drainVars, pacingVars>>
PacingStep(S) == part = "pacing" /\ S /\ UNCHANGED <<part, daemonVars, drainVars, accountVars>>

Next ==
    \/ DaemonStep(D!DaemonNext) \/ DrainStep(O!Next) \/ AccountStep(A!AccountsNext)
    \/ PacingStep(P!PacingNext)

\* The fairness of each part, as its module states it.
Fairness ==
    /\ WF_vars(DaemonStep(D!RunStep)) /\ \A l \in D!Loops : WF_vars(DaemonStep(D!LoopReturns(l)))
    /\ WF_vars(DrainStep(O!Return)) /\ \A w \in Drainers : WF_vars(DrainStep(O!WorkerStep(w)))
    /\ WF_vars(PacingStep(P!Tick)) /\ \A w \in Pacers : WF_vars(PacingStep(P!PacerStep(w)))

Spec == Init /\ [][Next]_vars /\ Fairness

-----------------------------------------------------------------------------
(* What the parts promise                                                  *)

\* Nothing Run waits for works on a closed database (Daemon).
DatabaseOutlivesWork == D!DatabaseOutlivesWork

\* A failure is not lost on its way out, whoever hears of it first: of a part of the
\* daemon until the process ends, of a row until the drain has read the channel.
FailuresAreReported == D!FailureIsReported /\ O!NoErrorLost

\* An account (TrackerAccounts): a rotated refresh token is presented again only
\* after a lost answer or beside the other process's refresh, a sign-in is completed by one callback, and the page comes to show what is stored.
AccountsSound == A!RefreshIsHonoured /\ A!SignInCompletesOnce /\ A!PageFollows

\* Pacing (PagePacing): between two requests to a host passes the interval of the first,
\* and a cached policy is what its layers say.
PacingHolds == [][P!RequestsAreSpaced /\ (P!CacheIsCurrent)']_vars

\* A signal or a failure ends the daemon; the drain returns unless more rows fail than its
\* channel holds; a page is fetched or given up.
EverythingEnds == D!StopEnds /\ (part = "drain" => O!DrainEnds) /\ P!PageEnds

=============================================================================
