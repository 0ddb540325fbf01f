-------------------------------- MODULE Daemon --------------------------------
(***************************************************************************)
(* internal/app Server.Run and close: the listener and the background      *)
(* loops of `makidoku serve`, how the first of them to fail or a signal    *)
(* takes the others down, and when the solver, the engine and the database *)
(* are released under them.                                                *)
(***************************************************************************)
EXTENDS Naturals, FiniteSets

CONSTANTS MaxHandlers,  \* bound: requests in flight at once
          None

DaemonAssumption == MaxHandlers \in Nat /\ None \notin {"nil", "canceled", "error"}

\* downloads.Run, syncer.Run and the tickers of the updater and the backups.
Loops == {"downloads", "sync", "updates", "backups"}
Failing == {"downloads", "sync"} \* the tickers only end with their context

VARIABLES
    step,      \* what Run does next
    signalled, \* its context is done
    stopping,  \* and the context of the loops
    listener,  \* "serving", "failed" or "closed"
    handlers,  \* requests in flight
    loop,      \* "running" or "returned"
    answer,    \* what a loop returned, or None: "nil", "canceled", "error"
    taken,     \* the loops whose channel has been read
    launch,    \* the update on launch runs
    timedOut,  \* http.Shutdown gave up on its handlers
    first,     \* the error a failed loop or Shutdown left for Run to return
    result,    \* what Run returned
    released   \* what close has released

daemonVars == <<step, signalled, stopping, listener, handlers, loop, answer, taken, launch,
                timedOut, first, result, released>>

DaemonInit ==
    /\ step = "start" /\ signalled = FALSE /\ stopping = FALSE
    /\ listener = "closed" /\ handlers = 0
    /\ loop = [l \in Loops |-> "returned"] /\ answer = [l \in Loops |-> None] /\ taken = {}
    /\ launch = FALSE /\ timedOut = FALSE
    /\ first = None /\ result = None /\ released = {}

\* The settings are read, or Run ends; a ticker without an interval returns at once.
Start ==
    /\ step = "start"
    /\ \/ \E off \in SUBSET {"updates", "backups"} :
              /\ loop' = [l \in Loops |-> IF l \in off THEN "returned" ELSE "running"]
              /\ answer' = [l \in Loops |-> IF l \in off THEN "nil" ELSE None]
              /\ launch' \in BOOLEAN
              /\ listener' = "serving" /\ step' = "select" /\ UNCHANGED result
       \/ step' = "close" /\ result' = "error" /\ UNCHANGED <<loop, answer, launch, listener>>
    /\ UNCHANGED <<signalled, stopping, handlers, taken, timedOut, first, released>>

Signal ==
    /\ ~signalled /\ signalled' = TRUE /\ stopping' = TRUE
    /\ UNCHANGED <<step, listener, handlers, loop, answer, taken, launch, timedOut, first, result, released>>

\* ListenAndServe fails, for one that the port is taken.
ListenFails ==
    /\ listener = "serving" /\ listener' = "failed"
    /\ UNCHANGED <<step, signalled, stopping, handlers, loop, answer, taken, launch, timedOut, first, result, released>>

Request ==
    /\ listener = "serving" /\ handlers < MaxHandlers /\ handlers' = handlers + 1
    /\ UNCHANGED <<step, signalled, stopping, listener, loop, answer, taken, launch, timedOut, first, result, released>>
Respond ==
    /\ handlers > 0 /\ handlers' = handlers - 1
    /\ UNCHANGED <<step, signalled, stopping, listener, loop, answer, taken, launch, timedOut, first, result, released>>

\* A loop ends with its context, or because it could not start.
LoopReturns(l) ==
    /\ loop[l] = "running"
    /\ \/ stopping /\ answer' = [answer EXCEPT ![l] = IF l = "downloads" THEN "nil" ELSE "canceled"]
       \/ l \in Failing /\ answer' = [answer EXCEPT ![l] = "error"]
    /\ loop' = [loop EXCEPT ![l] = "returned"]
    /\ UNCHANGED <<step, signalled, stopping, listener, handlers, taken, launch, timedOut, first, result, released>>

LaunchEnds ==
    /\ launch /\ launch' = FALSE
    /\ UNCHANGED <<step, signalled, stopping, listener, handlers, loop, answer, taken, timedOut, first, result, released>>

-----------------------------------------------------------------------------
(* Run                                                                     *)

Noted(error) == IF first = None /\ error = "error" THEN "error" ELSE first

\* The select: a failed listener, a loop that returned, or the signal, in the order
\* the scheduler finds them.
Select ==
    /\ step = "select"
    /\ \/ listener = "failed" /\ first' = "error" /\ UNCHANGED taken
       \/ \E l \in Failing : answer[l] # None /\ first' = Noted(answer[l]) /\ taken' = {l}
       \/ signalled /\ UNCHANGED <<first, taken>>
    /\ stopping' = TRUE /\ step' = "shutdown"
    /\ UNCHANGED <<signalled, listener, handlers, loop, answer, launch, timedOut, result, released>>

\* No loop ended Run, and the listener did not: the case of the signal.
BySignal == first = None /\ taken = {}

\* Mutant of Shutdown: it closes the listener and the connections.
ShutdownNow ==
    /\ step = "shutdown" /\ listener' = "closed"
    /\ step' = "downloads" /\ UNCHANGED <<first, timedOut>>
    /\ UNCHANGED <<signalled, stopping, handlers, loop, answer, taken, launch, result, released>>

\* http.Shutdown waits for the handlers, ten seconds at most; when it gives up after
\* a signal, Run does not wait for the loops.
Shutdown ==
    /\ step = "shutdown" /\ listener' = "closed"
    /\ \/ handlers = 0 /\ step' = "downloads" /\ UNCHANGED <<first, timedOut>>
       \/ /\ handlers > 0 /\ timedOut' = TRUE /\ first' = "error"
          /\ step' = IF BySignal THEN "leave" ELSE "downloads"
    /\ UNCHANGED <<signalled, stopping, handlers, loop, answer, taken, launch, result, released>>

After == [downloads |-> "sync", sync |-> "updates", updates |-> "backups", backups |-> "leave"]

\* Mutants of Join: an answer the select has read is waited for again; what a loop
\* failed with is dropped.
JoinAgain(l) ==
    /\ step = l /\ answer[l] # None /\ l \notin taken
    /\ taken' = taken \cup {l} /\ first' = Noted(answer[l])
    /\ step' = After[l]
    /\ UNCHANGED <<signalled, stopping, listener, handlers, loop, answer, launch, timedOut, result, released>>
JoinSilently(l) ==
    /\ step = l /\ answer[l] # None
    /\ taken' = taken \cup {l} /\ UNCHANGED first
    /\ step' = After[l]
    /\ UNCHANGED <<signalled, stopping, listener, handlers, loop, answer, launch, timedOut, result, released>>

\* waitForBackground and the two receives after it: the answers in a fixed order,
\* without the one the select has read.
Join(l) ==
    /\ step = l /\ answer[l] # None
    /\ taken' = taken \cup {l}
    /\ first' = IF l \in Failing \ taken THEN Noted(answer[l]) ELSE first
    /\ step' = After[l]
    /\ UNCHANGED <<signalled, stopping, listener, handlers, loop, answer, launch, timedOut, result, released>>

Leave ==
    /\ step = "leave" /\ step' = "close"
    /\ result' = IF first = None THEN "nil" ELSE first
    /\ UNCHANGED <<signalled, stopping, listener, handlers, loop, answer, taken, launch, timedOut, first, released>>

Holding == <<"solver", "engine", "database">>
\* close: the solver, the engine, the database; the process ends after the last.
Close ==
    /\ step = "close" /\ Cardinality(released) < 3
    /\ released' = released \cup {Holding[Cardinality(released) + 1]}
    /\ stopping' = TRUE
    /\ UNCHANGED <<step, signalled, listener, handlers, loop, answer, taken, launch, timedOut, first, result>>

RunStep == Start \/ Select \/ Shutdown \/ (\E l \in Loops : Join(l)) \/ Leave \/ Close

DaemonNext ==
    \/ RunStep
    \/ Signal \/ ListenFails \/ Request \/ Respond \/ LaunchEnds
    \/ \E l \in Loops : LoopReturns(l)

\* The scheduler runs every goroutine, and a loop looks at its context.  A handler
\* may take as long as it likes.
DaemonFairness ==
    /\ WF_daemonVars(RunStep)
    /\ \A l \in Loops : WF_daemonVars(LoopReturns(l))

DaemonSpec == DaemonInit /\ [][DaemonNext]_daemonVars /\ DaemonFairness

-----------------------------------------------------------------------------
(* Properties                                                              *)

\* "Releasing it after the database would let a solve finish against a closed
\* handle": nothing Run waits for works on a closed database.  Handlers outlive it
\* when Shutdown gave up on them, and the loops when it did so after a signal; the
\* update on launch is waited for by nobody.
DatabaseOutlivesWork ==
    "database" \in released =>
        /\ handlers = 0 \/ timedOut
        /\ \A l \in Loops : loop[l] = "returned" \/ (timedOut /\ signalled)

\* The reason the downloads or the sync could not run is what the process ends with,
\* whichever goroutine Run hears of first.
FailureIsReported ==
    step = "close" /\ (first = "error" \/ \E l \in Failing : answer[l] = "error") => result = "error"

\* A signal, or the failure of a part, ends the process: no join waits for an answer
\* that has been read or never comes.
StopEnds == (stopping \/ listener = "failed") ~> "database" \in released

=============================================================================
