--------------------------- MODULE DownloadDrain ---------------------------
(***************************************************************************)
(* Queue.Drain, the one-shot run behind `makidoku download`: every worker  *)
(* claims and processes rows until none is left, sends each failure into a *)
(* buffered channel, and Drain reads the channel only after all of them    *)
(* have returned.  process() is one step here (DownloadQueue has its       *)
(* steps): a row finishes, fails, or is stopped.                           *)
(***************************************************************************)
EXTENDS Naturals, FiniteSets

CONSTANTS Rows,      \* the pending rows Drain starts from
          Workers,   \* Options.Workers goroutines; also the channel's capacity
          MaxClaimFailures   \* bound: claims the database refuses

DrainAssumption == IsFiniteSet(Rows) /\ IsFiniteSet(Workers) /\ MaxClaimFailures \in Nat

VARIABLES pending,    \* rows still PENDING
          inHand,     \* the row each worker processes
          pc,         \* "claim", "process", "send" (then claim again), "quit"
                      \* (send, then return) or "done"
          errs,       \* errors in the channel
          failures,   \* errors the workers met
          refused,    \* claims the database refused
          completed,  \* chapters finished
          canceled,   \* the context was canceled
          paused,     \* Queue.paused
          returned    \* Drain returned

vars == <<pending, inHand, pc, errs, failures, refused, completed, canceled, paused, returned>>

Init == /\ pending = Rows
        /\ inHand = [w \in Workers |-> {}]
        /\ pc = [w \in Workers |-> "claim"]
        /\ errs = 0 /\ failures = 0 /\ refused = 0 /\ completed = {}
        /\ canceled = FALSE /\ paused = FALSE /\ returned = FALSE

Goto(w, label) == pc' = [pc EXCEPT ![w] = label]

\* The head of the loop: a canceled context, a paused downloader and an empty
\* queue end the worker; a failing claim ends it with an error.
Claim(w) ==
    /\ pc[w] = "claim"
    /\ \/ /\ canceled \/ paused \/ pending = {}
          /\ Goto(w, "done")
          /\ UNCHANGED <<pending, inHand, failures, refused>>
       \/ /\ ~canceled /\ ~paused /\ refused < MaxClaimFailures
          /\ Goto(w, "quit")
          /\ failures' = failures + 1 /\ refused' = refused + 1
          /\ UNCHANGED <<pending, inHand>>
       \/ /\ ~canceled /\ ~paused
          /\ \E r \in pending : /\ pending' = pending \ {r}
                                /\ inHand' = [inHand EXCEPT ![w] = {r}]
          /\ Goto(w, "process")
          /\ UNCHANGED <<failures, refused>>
    /\ UNCHANGED <<errs, completed, canceled, paused, returned>>

\* The row finishes; or it fails; or it was stopped or taken away, which is no
\* error.
Process(w) ==
    /\ pc[w] = "process"
    /\ inHand' = [inHand EXCEPT ![w] = {}]
    /\ \/ /\ completed' = completed \cup inHand[w]
          /\ Goto(w, "claim") /\ UNCHANGED failures
       \/ /\ failures' = failures + 1
          /\ Goto(w, "send") /\ UNCHANGED completed
       \/ /\ Goto(w, "claim") /\ UNCHANGED <<completed, failures>>
    /\ UNCHANGED <<pending, errs, refused, canceled, paused, returned>>

\* Mutants of Send: an unbuffered channel; a send that gives up when nobody
\* listens.
SendUnbuffered(w) == pc[w] \in {"send", "quit"} /\ FALSE /\ UNCHANGED vars
SendDropping(w) ==
    /\ pc[w] \in {"send", "quit"}
    /\ Goto(w, IF pc[w] = "send" THEN "claim" ELSE "done")
    /\ UNCHANGED <<pending, inHand, errs, failures, refused, completed, canceled, paused, returned>>
\* errs <- err: blocks while the channel is full.
Send(w) ==
    /\ pc[w] \in {"send", "quit"}
    /\ errs < Cardinality(Workers)
    /\ errs' = errs + 1
    /\ Goto(w, IF pc[w] = "send" THEN "claim" ELSE "done")
    /\ UNCHANGED <<pending, inHand, failures, refused, completed, canceled, paused, returned>>

\* workers.Wait, then the channel is closed and read.
Return ==
    /\ ~returned /\ \A w \in Workers : pc[w] = "done"
    /\ returned' = TRUE /\ errs' = 0
    /\ UNCHANGED <<pending, inHand, pc, failures, refused, completed, canceled, paused>>

\* Interrupt of the command, and PauseAll.
Cancel == /\ ~canceled /\ ~returned /\ canceled' = TRUE
          /\ UNCHANGED <<pending, inHand, pc, errs, failures, refused, completed, paused, returned>>
Pause  == /\ ~paused /\ ~returned /\ paused' = TRUE
          /\ UNCHANGED <<pending, inHand, pc, errs, failures, refused, completed, canceled, returned>>

WorkerStep(w) == Claim(w) \/ Process(w) \/ Send(w)

Next == Return \/ Cancel \/ Pause \/ \E w \in Workers : WorkerStep(w)

Spec == Init /\ [][Next]_vars
FairSpec == Spec /\ WF_vars(Return) /\ \A w \in Workers : WF_vars(WorkerStep(w))

-----------------------------------------------------------------------------
\* Until Drain has read the channel, no error a worker met is lost on the way:
\* it is in the channel or still in the worker's hands.
NoErrorLost ==
    ~returned => failures = errs + Cardinality({w \in Workers : pc[w] \in {"send", "quit"}})

\* The drain returns, canceled or paused or not, unless more errors come than the channel
\* holds: it is read when all workers have returned, and a worker that cannot send never
\* does.
DrainEnds == <>(returned \/ failures > Cardinality(Workers))
=============================================================================
