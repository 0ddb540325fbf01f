------------------------------ MODULE PagePacing ------------------------------
(***************************************************************************)
(* How fast the downloader asks for pages: the pacing policy of a source   *)
(* and its cache (internal/downloader/queue.go, policyFor), the reader's   *)
(* override (internal/api/source_downloads.go), the slots of a host and    *)
(* the retries (internal/downloader/worker.go).                            *)
(*                                                                         *)
(* Time is what is left of a wait; the clock does not pass a timer that is *)
(* due.  A policy is an interval and a number of retries.                  *)
(***************************************************************************)
EXTENDS Naturals, FiniteSets

CONSTANTS Workers, Sources, Hosts,
          Intervals,   \* intervals a source suggests or the reader sets, in ticks
          Retries,     \* numbers of retries they may ask for
          Default,     \* the policy of the downloader's options
          Backoff,     \* the first retry's delay
          MaxWrites,   \* bound: overrides the reader stores and updates of a source
          None

PacingAssumption ==
    /\ Intervals \subseteq Nat \ {0} /\ Retries \subseteq Nat /\ {Backoff, MaxWrites} \subseteq Nat
    /\ Default \in [interval : Nat \ {0}, retries : Nat] /\ None \notin Nat

VARIABLES
    override,  \* source_download_prefs: a layer for each source, its knobs None or a value
    hint,      \* the layer the installed plugin of a source suggests
    policies,  \* Queue.policies, the policy in use for a source, or None
    writing,   \* sources whose override is stored and whose policy is not dropped yet
    writes,    \* how many
    stale,     \* sources updated, or resolved while their override was written
    next,      \* DomainLimiter.next: ticks until the next free slot of a host
    quiet,     \* ticks the last request to a host asked to be left alone
    pacer      \* what each worker does

pacingVars == <<override, hint, policies, writing, writes, stale, next, quiet, pacer>>

Layers == [interval : Intervals \cup {None}, retries : Retries \cup {None}]
Silent == [interval |-> None, retries |-> None]

\* A layer speaks for the knobs it sets.
Over(layer, policy) == [k \in {"interval", "retries"} |-> IF layer[k] = None THEN policy[k] ELSE layer[k]]

\* A hint of zero counts as none, an override of zero does not.
Suggested(s) == Over([k \in {"interval", "retries"} |-> IF hint[s][k] = 0 THEN None ELSE hint[s][k]], Default)
Effective(s) == Over(override[s], Suggested(s))

Resting == [at |-> "idle", source |-> None, policy |-> Default, rated |-> TRUE,
            attempt |-> 0, host |-> None, left |-> 0]

PacingInit ==
    /\ override = [s \in Sources |-> Silent] /\ hint \in [Sources -> Layers]
    /\ policies = [s \in Sources |-> None] /\ writing = {} /\ writes = 0 /\ stale = {}
    /\ next = [h \in Hosts |-> 0] /\ quiet = [h \in Hosts |-> 0]
    /\ pacer = [w \in Workers |-> Resting]

Unwritten == UNCHANGED <<override, hint, writing, writes>>
Unpaced == UNCHANGED <<next, quiet>>

-----------------------------------------------------------------------------
(* policyFor                                                               *)

\* A chapter begins with the cached policy, or resolves one.
Begin(w, s) ==
    /\ pacer[w].at = "idle"
    /\ pacer' = [pacer EXCEPT ![w] =
          IF policies[s] # None
          THEN [Resting EXCEPT !.at = "page", !.source = s, !.policy = policies[s]]
          ELSE [Resting EXCEPT !.at = "hints", !.source = s]]
    /\ UNCHANGED <<policies, stale>> /\ Unwritten /\ Unpaced

\* TransferHints; a plugin that cannot be loaded suggests nothing.
ReadHints(w) ==
    /\ pacer[w].at = "hints"
    /\ \/ pacer' = [pacer EXCEPT ![w].at = "override", ![w].policy = Suggested(pacer[w].source)]
       \/ pacer' = [pacer EXCEPT ![w].at = "override", ![w].rated = FALSE]
    /\ UNCHANGED <<policies, stale>> /\ Unwritten /\ Unpaced

ReadOverride(w) ==
    /\ pacer[w].at = "override"
    /\ pacer' = [pacer EXCEPT ![w].at = "store", ![w].policy = Over(override[pacer[w].source], @)]
    /\ UNCHANGED <<policies, stale>> /\ Unwritten /\ Unpaced

\* What was resolved without hints is not kept.
StorePolicy(w) ==
    /\ pacer[w].at = "store"
    /\ policies' = IF pacer[w].rated THEN [policies EXCEPT ![pacer[w].source] = pacer[w].policy] ELSE policies
    /\ pacer' = [pacer EXCEPT ![w].at = "page"]
    /\ UNCHANGED stale /\ Unwritten /\ Unpaced

Resolving(s) == \E w \in Workers : pacer[w].source = s /\ pacer[w].at \in {"hints", "override", "store"}

\* putSourceDownloads stores the override, then drops the policy.  A worker that
\* resolves meanwhile may store the old one after that.
PutOverride(s, layer) ==
    /\ s \notin writing /\ writes < MaxWrites /\ writes' = writes + 1
    /\ override' = [override EXCEPT ![s] = layer] /\ writing' = writing \cup {s}
    /\ UNCHANGED <<hint, policies, stale, pacer>> /\ Unpaced

\* Mutant of InvalidateSourcePolicy: the policy stays.
InvalidateNothing(s) ==
    /\ s \in writing /\ writing' = writing \ {s}
    /\ stale' = IF Resolving(s) THEN stale \cup {s} ELSE stale
    /\ UNCHANGED <<policies, override, hint, writes, pacer>> /\ Unpaced

InvalidateSourcePolicy(s) ==
    /\ s \in writing /\ writing' = writing \ {s}
    /\ policies' = [policies EXCEPT ![s] = None]
    /\ stale' = IF Resolving(s) THEN stale \cup {s} ELSE stale
    /\ UNCHANGED <<override, hint, writes, pacer>> /\ Unpaced

\* Install of a newer version: its hints are other ones, and no policy is dropped.
UpdateSource(s, layer) ==
    /\ writes < MaxWrites /\ writes' = writes + 1
    /\ hint' = [hint EXCEPT ![s] = layer] /\ stale' = stale \cup {s}
    /\ UNCHANGED <<override, writing, policies, pacer>> /\ Unpaced

-----------------------------------------------------------------------------
(* DomainLimiter and retryFetchWith                                        *)

\* Mutant of Reserve: the slot after the next one is counted from now.
ReserveFromNow(w, h) ==
    /\ pacer[w].at = "page" /\ pacer[w].host \in {None, h}
    /\ pacer' = [pacer EXCEPT ![w].at = "wait", ![w].host = h, ![w].left = next[h]]
    /\ next' = [next EXCEPT ![h] = pacer[w].policy.interval]
    /\ UNCHANGED <<policies, stale, quiet>> /\ Unwritten

\* WaitWithInterval, for a page at any host and for its retries at the same one: the next slot of the host, which stays reserved whatever comes.
Reserve(w, h) ==
    /\ pacer[w].at = "page" /\ pacer[w].host \in {None, h}
    /\ pacer' = [pacer EXCEPT ![w].at = "wait", ![w].host = h, ![w].left = next[h]]
    /\ next' = [next EXCEPT ![h] = @ + pacer[w].policy.interval]
    /\ UNCHANGED <<policies, stale, quiet>> /\ Unwritten

Request(w) ==
    /\ pacer[w].at = "wait" /\ pacer[w].left = 0
    /\ pacer' = [pacer EXCEPT ![w].at = "answer"]
    /\ quiet' = [quiet EXCEPT ![pacer[w].host] = pacer[w].policy.interval]
    /\ UNCHANGED <<policies, stale, next>> /\ Unwritten

Three(n) == IF n < 3 THEN n ELSE 3
\* Doubled with every attempt, three times at most.
RetryDelay(attempt) == Backoff * 2 ^ Three(attempt)

\* Mutant of Answer: an attempt is not counted.
AnswerUncounted(w) ==
    /\ pacer[w].at = "answer"
    /\ \/ pacer' = [pacer EXCEPT ![w] = Resting]
       \/ /\ pacer[w].attempt < pacer[w].policy.retries
          /\ pacer' = [pacer EXCEPT ![w].at = "backoff", ![w].left = RetryDelay(pacer[w].attempt)]
    /\ UNCHANGED <<policies, stale>> /\ Unwritten /\ Unpaced

\* The page arrives, or fails for good; or it failed in a way that may pass.
Answer(w) ==
    /\ pacer[w].at = "answer"
    /\ \/ pacer' = [pacer EXCEPT ![w] = Resting]
       \/ /\ pacer[w].attempt < pacer[w].policy.retries
          /\ pacer' = [pacer EXCEPT ![w].at = "backoff", ![w].attempt = @ + 1,
                                    ![w].left = RetryDelay(pacer[w].attempt)]
    /\ UNCHANGED <<policies, stale>> /\ Unwritten /\ Unpaced

Retry(w) ==
    /\ pacer[w].at = "backoff" /\ pacer[w].left = 0
    /\ pacer' = [pacer EXCEPT ![w].at = "page"]
    /\ UNCHANGED <<policies, stale>> /\ Unwritten /\ Unpaced

Less(n) == IF n = 0 THEN 0 ELSE n - 1
Tick ==
    /\ \A w \in Workers : pacer[w].at \in {"wait", "backoff"} => pacer[w].left > 0
    /\ pacer' = [w \in Workers |-> [pacer[w] EXCEPT !.left = Less(@)]]
    /\ next' = [h \in Hosts |-> Less(next[h])] /\ quiet' = [h \in Hosts |-> Less(quiet[h])]
    /\ UNCHANGED <<policies, stale>> /\ Unwritten

PacerStep(w) ==
    \/ ReadHints(w) \/ ReadOverride(w) \/ StorePolicy(w)
    \/ (\E h \in Hosts : Reserve(w, h)) \/ Request(w) \/ Answer(w) \/ Retry(w)

PacingNext ==
    \/ Tick
    \/ \E w \in Workers : PacerStep(w) \/ \E s \in Sources : Begin(w, s)
    \/ \E s \in Sources : \/ InvalidateSourcePolicy(s)
                          \/ \E layer \in Layers : PutOverride(s, layer) \/ UpdateSource(s, layer)

\* Workers run, requests are answered and time passes.
PacingFairness == WF_pacingVars(Tick) /\ \A w \in Workers : WF_pacingVars(PacerStep(w))

PacingSpec == PacingInit /\ [][PacingNext]_pacingVars /\ PacingFairness

-----------------------------------------------------------------------------
(* Properties                                                              *)

\* "Reserves the next request slot for the URL host": between two requests to one host
\* passes the interval of the first, whichever workers and sources they belong to, also
\* after retries and changes of the policy.
RequestsAreSpaced ==
    \A w \in Workers : pacer[w].at = "wait" /\ pacer'[w].at = "answer" => quiet[pacer[w].host] = 0

\* "The result is cached until the override changes": a policy in the cache is what the
\* layers say, unless a worker resolved it while the override was written or the
\* source was updated, which drop it too late or never.
CacheIsCurrent ==
    \A s \in Sources : policies[s] # None /\ s \notin writing \cup stale => policies[s] = Effective(s)

\* A page ends: a worker is not held up by others at its host, and its retries run out.
PageEnds == \A w \in Workers : pacer[w].at # "idle" ~> pacer[w].at = "idle"

=============================================================================
