----------------------------- MODULE Challenges -----------------------------
(***************************************************************************)
(* How a source that is behind an anti-bot guard is read: the fetcher that *)
(* meets the challenge and claims it (internal/engine/fetch.go), the       *)
(* broker that stores clearance material and parks the blocked request     *)
(* (clearance.go, internal/db/clearance.go), the automatic solver and its  *)
(* allowance (internal/app/autosolve.go), the solve the reader asks for    *)
(* (internal/api/api.go) and the one window both use (internal/solver).    *)
(*                                                                         *)
(* One source, several hosts.  A process is a plugin's request, or a solve *)
(* that ends with a probe, which is a request too.  What the site answers  *)
(* is free: it may challenge one request and serve the next.  Hosts that   *)
(* never challenge take no part, except that material can be stored there. *)
(***************************************************************************)
EXTENDS Naturals, FiniteSets

CONSTANTS Origins,     \* hosts of the source
          Guarded,     \* hosts behind the anti-bot guard
          Parent,      \* the host a host is a strict subdomain of, or None
          Values,      \* clearance cookies a host issues, positive
          Fetches,     \* requests of plugins
          AutoSolves,  \* solves the daemon starts
          Presses,     \* solves the reader starts
          Limit,       \* autoSolveAttemptsPerOrigin
          MaxFetches,  \* bound: requests of plugins in a behaviour
          MaxSubmits,  \* bound: material the operator submits or deletes
          MaxPresses,  \* bound: solves the reader starts
          None

ChallengesAssumption ==
    /\ Parent \in [Origins -> Origins \cup {None}] /\ None \notin Origins
    /\ Guarded \subseteq Origins
    /\ {Limit, MaxFetches, MaxSubmits, MaxPresses} \subseteq Nat

VARIABLES
    outstanding,  \* Fetcher.outstanding: the claim on each host
    listed,       \* Fetcher.challenges: hosts shown as awaiting clearance
    bundles,      \* clearance_bundle: the jar stored for each host, or None
    legacy,       \* the one cookie an earlier version stored for the source, or None
    subscribed,   \* processes holding the channel the next notify closes
    inFlight,     \* autoSolver.inFlight
    spent,        \* AttemptBudget.spent
    solving,      \* Server.inFlight, the claims of the reader's solves
    viewHost,     \* the process whose window is open, or None
    proc,         \* what each process does next, and its locals
    unverified,   \* windows the daemon opened since the host last worked
    notifying,    \* the operator has stored material and not yet told anybody
    fetches, submits, presses

fetcherVars == <<outstanding, listed>>
brokerVars  == <<bundles, legacy, subscribed, notifying>>
solverVars  == <<inFlight, spent, solving, viewHost, unverified>>
countVars   == <<fetches, submits, presses>>
vars == <<fetcherVars, brokerVars, solverVars, proc, countVars>>

Procs == Fetches \cup AutoSolves \cup Presses
Solves == AutoSolves \cup Presses
\* The cookies of one solve; without a clearance cookie among them the value is 0.
Jars == [for : Origins, value : Values \cup {0}]
\* What an earlier version stored names no host.
LegacyJars == [for : {None}, value : Values]

FetchLabels == {"attempt", "answer", "warmUp", "claim", "resolve",
                "subscribe", "recheck", "wait", "replay", "release", "clear"}
SolveLabels == {"open", "show", "store", "notify", "served", "refused"}
Idle == [pc |-> "idle", origin |-> None, used |-> None]

Init ==
    /\ outstanding = [o \in Origins |-> "free"] /\ listed = {}
    /\ bundles = [o \in Origins |-> None] /\ legacy \in LegacyJars \cup {None}
    /\ subscribed = {} /\ notifying = FALSE
    /\ inFlight = {} /\ spent = [o \in Origins |-> 0] /\ solving = {} /\ viewHost = None
    /\ proc = [p \in Procs |-> Idle]
    /\ unverified = [o \in Origins |-> 0]
    /\ fetches = 0 /\ submits = 0 /\ presses = 0

At(p, label) == proc[p].pc = label
Goto(p, label) == proc' = [proc EXCEPT ![p].pc = label]

-----------------------------------------------------------------------------
(* The broker's reads and writes                                           *)

\* parentBundle: what an ancestor of the host holds.
ParentMaterial(o) ==
    IF Parent[o] # None THEN bundles[Parent[o]] ELSE None

\* Mutant of Material: any host's material is offered when the host has none.
MaterialOfAny(o) ==
    LET held == {h \in Origins : bundles[h] # None}
    IN  IF o \in held \/ held = {} THEN bundles[o] ELSE bundles[CHOOSE h \in held : TRUE]

\* Bundle: the host's own row, its ancestor's, or what the reserved keys hold
\* (legacyBundle).  The latter is also written to the row of no host, which no host reads.
Material(o) == IF bundles[o] # None THEN bundles[o]
               ELSE IF ParentMaterial(o) # None THEN ParentMaterial(o) ELSE legacy

\* fresh: there is a clearance cookie and it is not the one that was refused.
Fresh(p) == LET jar == Material(proc[p].origin)
            IN  jar \notin {None, proc[p].used} /\ jar.value # 0

-----------------------------------------------------------------------------
(* Fetcher.doWith and ClearanceBroker.Resolve                              *)

\* A request ends; a solve whose probe it was goes on to judge it.
Finish(p, ok) ==
    proc' = [proc EXCEPT ![p] = IF p \in Fetches THEN Idle
                                ELSE [@ EXCEPT !.pc = IF ok THEN "served" ELSE "refused",
                                               !.used = None]]

StartFetch(p, o) ==
    /\ p \in Fetches /\ At(p, "idle") /\ fetches < MaxFetches
    /\ fetches' = fetches + 1
    /\ proc' = [proc EXCEPT ![p] = [Idle EXCEPT !.pc = "attempt", !.origin = o]]
    /\ UNCHANGED <<fetcherVars, brokerVars, solverVars, submits, presses>>

\* attemptWith puts the stored material on the request.
Attempt(p) ==
    /\ At(p, "attempt")
    /\ proc' = [proc EXCEPT ![p].pc = "answer", ![p].used = Material(proc[p].origin)]
    /\ UNCHANGED <<fetcherVars, brokerVars, solverVars, countVars>>

\* Served, lost on the way, or challenged.
Answer(p) ==
    /\ At(p, "answer")
    /\ Finish(p, TRUE) \/ Finish(p, FALSE) \/ Goto(p, "warmUp")
    /\ UNCHANGED <<fetcherVars, brokerVars, solverVars, countVars>>

\* One visit to the root of the host and one more try.  What is not settled is
\* claimed; a request that is not a GET or HEAD is only put on the list.
WarmUp(p) ==
    /\ At(p, "warmUp")
    /\ \/ Finish(p, TRUE) /\ UNCHANGED listed
       \/ Goto(p, "claim") /\ UNCHANGED listed
       \/ /\ listed' = listed \cup {proc[p].origin}
          /\ Finish(p, FALSE)
    /\ UNCHANGED <<outstanding, brokerVars, solverVars, countVars>>

\* Mutant of Claim: a claim never refuses.
ClaimAlways(p) ==
    LET o == proc[p].origin
    IN  /\ At(p, "claim")
        /\ outstanding' = [outstanding EXCEPT ![o] = "held"]
        /\ listed' = listed \cup {o}
        /\ Goto(p, "resolve")
        /\ UNCHANGED <<brokerVars, solverVars, countVars>>

\* The first caller owns the challenge and puts the host on the list; the others
\* fail at once.
Claim(p) ==
    LET o == proc[p].origin
    IN  /\ At(p, "claim")
        /\ IF outstanding[o] = "held"
           THEN Finish(p, FALSE) /\ UNCHANGED fetcherVars
           ELSE /\ outstanding' = [outstanding EXCEPT ![o] = "held"]
                /\ listed' = listed \cup {o}
                /\ Goto(p, "resolve")
        /\ UNCHANGED <<brokerVars, solverVars, countVars>>

\* Mutant of StartsSolve: the allowance is compared after it is spent.
StartsOneMore(s, o) ==
    /\ At(s, "idle") /\ o \notin inFlight /\ spent[o] <= Limit
    /\ inFlight' = inFlight \cup {o}
    /\ spent' = [spent EXCEPT ![o] = @ + 1]
    /\ unverified' = [unverified EXCEPT ![o] = @ + 1]

\* onChallenged, called on the request's way into the wait: one solve per host,
\* and a place in the allowance.  The preference may be off.
StartsSolve(s, o) ==
    /\ At(s, "idle") /\ o \notin inFlight /\ spent[o] < Limit
    /\ inFlight' = inFlight \cup {o}
    /\ spent' = [spent EXCEPT ![o] = @ + 1]
    /\ unverified' = [unverified EXCEPT ![o] = @ + 1]

Resolve(p) ==
    /\ At(p, "resolve")
    /\ \/ Fresh(p) /\ Goto(p, "replay") /\ UNCHANGED solverVars
       \/ ~Fresh(p) /\ Goto(p, "subscribe") /\ UNCHANGED solverVars
       \/ /\ ~Fresh(p)
          /\ \E s \in AutoSolves :
                /\ StartsSolve(s, proc[p].origin)
                /\ proc' = [proc EXCEPT ![p].pc = "subscribe",
                                ![s] = [Idle EXCEPT !.pc = "open", !.origin = proc[p].origin]]
          /\ UNCHANGED <<solving, viewHost>>
    /\ UNCHANGED <<fetcherVars, brokerVars, countVars>>

\* Mutant of Subscribe: the material was read before, and is not read again.
SubscribeAndWait(p) ==
    /\ At(p, "subscribe")
    /\ subscribed' = subscribed \cup {p}
    /\ Goto(p, "wait")
    /\ UNCHANGED <<fetcherVars, bundles, legacy, notifying, solverVars, countVars>>

\* Subscribed before the material is read again, so nothing lands in between.
Subscribe(p) ==
    /\ At(p, "subscribe")
    /\ subscribed' = subscribed \cup {p}
    /\ Goto(p, "recheck")
    /\ UNCHANGED <<fetcherVars, bundles, legacy, notifying, solverVars, countVars>>

Recheck(p) ==
    /\ At(p, "recheck")
    /\ \/ Fresh(p) /\ Goto(p, "replay") /\ subscribed' = subscribed \ {p}
       \/ ~Fresh(p) /\ Goto(p, "wait") /\ UNCHANGED subscribed
    /\ UNCHANGED <<fetcherVars, bundles, legacy, notifying, solverVars, countVars>>

\* Mutant of Wait: the wait has no deadline.
WaitForever(p) ==
    /\ At(p, "wait")
    /\ p \notin subscribed /\ Goto(p, "subscribe")
    /\ UNCHANGED <<fetcherVars, brokerVars, solverVars, countVars>>

\* The channel was closed, or the wait's deadline or the request's context
\* passed.  The claim stays: the visitor has not answered.
Wait(p) ==
    /\ At(p, "wait")
    /\ \/ p \notin subscribed /\ Goto(p, "subscribe")
       \/ Finish(p, FALSE)
    /\ subscribed' = subscribed \ {p}
    /\ UNCHANGED <<fetcherVars, bundles, legacy, notifying, solverVars, countVars>>

\* The request again, with what is stored now: served, lost on the way, or
\* challenged once more.  Only a page gives the claim back.
Replay(p) ==
    /\ At(p, "replay")
    /\ Goto(p, "release") \/ Finish(p, FALSE)
    /\ UNCHANGED <<fetcherVars, brokerVars, solverVars, countVars>>

Release(p) ==
    /\ At(p, "release")
    /\ outstanding' = [outstanding EXCEPT ![proc[p].origin] = "free"]
    /\ Goto(p, "clear")
    /\ UNCHANGED <<listed, brokerVars, solverVars, countVars>>

Clear(p) ==
    /\ At(p, "clear")
    /\ listed' = listed \ {proc[p].origin}
    /\ Finish(p, TRUE)
    /\ UNCHANGED <<outstanding, brokerVars, solverVars, countVars>>

\* Where a request stands between its claim and its end.
Claiming(p) == proc[p].pc \in {"resolve", "subscribe", "recheck",
                              "wait", "replay", "release"}

\* challengeClaimTTL has passed.  It is longer than the wait and the replay
\* together with the default settings.
ExpireClaim(o) ==
    /\ outstanding[o] = "held"
    /\ \A p \in Procs : ~(Claiming(p) /\ proc[p].origin = o)
    /\ outstanding' = [outstanding EXCEPT ![o] = "free"]
    /\ UNCHANGED <<listed, brokerVars, solverVars, proc, countVars>>

FetchStep(p) ==
    \/ Attempt(p) \/ Answer(p) \/ WarmUp(p) \/ Claim(p)
    \/ Resolve(p) \/ Subscribe(p) \/ Recheck(p) \/ Wait(p) \/ Replay(p) \/ Release(p) \/ Clear(p)

-----------------------------------------------------------------------------
(* Solves: the daemon's and the reader's, in one window                    *)

\* solveClearance refuses a host the reader is solving already, but does not
\* know what the daemon is solving.
Press(s, o) ==
    /\ s \in Presses /\ At(s, "idle") /\ presses < MaxPresses /\ o \notin solving
    /\ presses' = presses + 1
    /\ solving' = solving \cup {o}
    /\ proc' = [proc EXCEPT ![s] = [Idle EXCEPT !.pc = "open", !.origin = o]]
    /\ UNCHANGED <<fetcherVars, brokerVars, inFlight, spent, viewHost, unverified, fetches, submits>>

\* The solve is over: the claim of whoever started it is given back.
Leave(s) ==
    /\ proc' = [proc EXCEPT ![s] = Idle]
    /\ inFlight' = IF s \in AutoSolves THEN inFlight \ {proc[s].origin} ELSE inFlight
    /\ solving' = IF s \in Presses THEN solving \ {proc[s].origin} ELSE solving

\* Solve opens a window, or leaves because none can be presented.  When another
\* solve has the window, opening fails, and the deferred closeView closes it.
Open(s) ==
    /\ At(s, "open")
    /\ \/ /\ viewHost = None /\ viewHost' = s
          /\ Goto(s, "show")
          /\ UNCHANGED <<inFlight, solving>>
       \/ Leave(s) /\ viewHost' = None
    /\ UNCHANGED <<fetcherVars, brokerVars, spent, unverified, countVars>>

\* The jar settles while some window is open, the page is served without a
\* cookie, or the solve runs out of time; closeView closes the window there is.
Show(s) ==
    /\ At(s, "show")
    /\ \/ viewHost # None /\ Goto(s, "store") /\ UNCHANGED <<inFlight, solving>>
       \/ Leave(s)
    /\ viewHost' = None
    /\ UNCHANGED <<fetcherVars, brokerVars, spent, unverified, countVars>>

\* SubmitBundle: the row, then the waiters.  The jar may hold no clearance.
StoreCapture(s, jar) ==
    /\ At(s, "store")
    /\ jar.for = proc[s].origin
    /\ bundles' = [bundles EXCEPT ![proc[s].origin] = jar]
    /\ Goto(s, "notify")
    /\ UNCHANGED <<fetcherVars, legacy, subscribed, notifying, solverVars, countVars>>

\* ... and then ProbeClearance fetches the root of the host.
NotifyCapture(s) ==
    /\ At(s, "notify")
    /\ subscribed' = {}
    /\ Goto(s, "attempt")
    /\ UNCHANGED <<fetcherVars, bundles, legacy, notifying, solverVars, countVars>>

\* Mutant of Judge: what was captured counts as a solve.
JudgeCapture(s) ==
    LET o == proc[s].origin
    IN  /\ At(s, "served") \/ At(s, "refused")
        /\ Leave(s)
        /\ spent' = IF s \in AutoSolves THEN [spent EXCEPT ![o] = 0] ELSE spent
        /\ unverified' = IF s \in AutoSolves /\ At(s, "served")
                         THEN [unverified EXCEPT ![o] = 0] ELSE unverified
        /\ UNCHANGED <<fetcherVars, brokerVars, viewHost, countVars>>

\* The probe got a page: the material works, and the daemon's allowance for the
\* host is restored.  A page that is an error, like a challenge, restores nothing.
Judge(s) ==
    LET o == proc[s].origin
    IN  /\ At(s, "served") \/ At(s, "refused")
        /\ Leave(s)
        /\ \/ /\ s \in AutoSolves /\ At(s, "served")
              /\ spent' = [spent EXCEPT ![o] = 0]
              /\ unverified' = [unverified EXCEPT ![o] = 0]
           \/ UNCHANGED <<spent, unverified>>
        /\ UNCHANGED <<fetcherVars, brokerVars, viewHost, countVars>>

SolveStep(s) == \/ Open(s) \/ Show(s) \/ NotifyCapture(s) \/ Judge(s)
                \/ \E jar \in Jars : StoreCapture(s, jar)
ProcStep(p) == FetchStep(p) \/ (p \in Solves /\ SolveStep(p))

-----------------------------------------------------------------------------
(* The operator: material pasted by hand                                   *)

Submit(o, jar) ==
    /\ ~notifying /\ submits < MaxSubmits /\ submits' = submits + 1
    /\ jar.for = o /\ jar.value # 0
    /\ bundles' = [bundles EXCEPT ![o] = jar] /\ notifying' = TRUE
    /\ UNCHANGED <<fetcherVars, legacy, subscribed, solverVars, proc, fetches, presses>>

Delete(o) ==
    /\ ~notifying /\ submits < MaxSubmits /\ submits' = submits + 1
    /\ bundles' = [bundles EXCEPT ![o] = None] /\ notifying' = TRUE
    /\ UNCHANGED <<fetcherVars, legacy, subscribed, solverVars, proc, fetches, presses>>

\* The channel is the source's, so every host's waiters look again.
Notify ==
    /\ notifying /\ notifying' = FALSE
    /\ subscribed' = {}
    /\ UNCHANGED <<fetcherVars, bundles, legacy, solverVars, proc, countVars>>

Next ==
    \/ \E p \in Procs : ProcStep(p)
    \/ \E p \in Fetches, o \in Guarded : StartFetch(p, o)
    \/ \E s \in Presses, o \in Guarded : Press(s, o)
    \/ \E o \in Origins, jar \in Jars : Submit(o, jar)
    \/ \E o \in Origins : Delete(o) \/ ExpireClaim(o)
    \/ Notify

Spec == Init /\ [][Next]_vars

\* Goroutines run, waits and windows have deadlines.  Nobody owes a request, a
\* press or material, and nothing rests on a claim expiring.
Fairness == \A p \in Procs : WF_vars(ProcStep(p))

FairSpec == Spec /\ Fairness

-----------------------------------------------------------------------------
(* Properties                                                              *)

ProcOK(p) ==
    /\ proc[p].pc \in {"idle"} \cup FetchLabels \cup (IF p \in Solves THEN SolveLabels ELSE {})
    /\ proc[p].origin \in Origins \cup {None} /\ proc[p].used \in Jars \cup LegacyJars \cup {None}
    /\ At(p, "idle") <=> proc[p].origin = None
TypeOK ==
    /\ outstanding \in [Origins -> {"free", "held"}] /\ listed \subseteq Origins
    /\ bundles \in [Origins -> Jars \cup {None}] /\ legacy \in LegacyJars \cup {None}
    /\ subscribed \subseteq Procs /\ notifying \in BOOLEAN
    /\ inFlight \subseteq Origins /\ solving \subseteq Origins
    /\ spent \in [Origins -> 0 .. Limit] /\ viewHost \in Solves \cup {None}
    /\ \A p \in Procs : ProcOK(p)

\* Resolve subscribes "before re-reading so a submission landing in between is
\* not missed": a request sleeps beside material it could use only while
\* whoever stored it is about to tell it, also when the material is the
\* parent host's.
NoLostWakeUp ==
    \A p \in subscribed : At(p, "wait") /\ Fresh(p) =>
        notifying \/ \E s \in Solves : At(s, "notify")

\* A burst of requests makes one prompt: of the requests a host challenged, one
\* is past its claim, through failed replays, expired claims and probes.
OnePromptPerHost ==
    \A p, q \in Procs : Claiming(p) /\ Claiming(q) /\ proc[p].origin = proc[q].origin => p = q

\* AttemptBudget: since a host last let a probe through, the daemon has opened
\* no more windows for it than its allowance, however many requests it blocked
\* and whatever was captured and refused.
AllowanceRespected == \A o \in Origins : unverified[o] <= Limit

\* "An unrelated domain is never offered another domain's material", and a parent is
\* never offered its subdomain's.  The one cookie an earlier version stored for a source
\* is of no recorded domain, and Material offers it to every host that has nothing.
MaterialStaysInDomain ==
    \A p \in Procs : proc[p].used \notin {None, legacy} =>
        proc[p].used.for \in {proc[p].origin, Parent[proc[p].origin]}

\* Requests, probes and solves end, whoever closes whose window and whether or
\* not anybody answers the challenge.
EverythingEnds == \A p \in Procs : []<>At(p, "idle")

\* A challenge is handled as the broker and the claims promise: no wake-up is lost, a
\* host's requests make one prompt, and material that was stored for a domain stays there.
ChallengesSound == TypeOK /\ NoLostWakeUp /\ OnePromptPerHost /\ MaterialStaysInDomain
=============================================================================
