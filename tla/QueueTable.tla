----------------------------- MODULE QueueTable -----------------------------
(***************************************************************************)
(* The download_queue table and the statements the repository runs on it   *)
(* (internal/db/repository.go).  The daemon's pool holds one connection,   *)
(* so every statement or transaction below is one atomic operator from a   *)
(* table value to the next: q is the table, a function from the ids of its *)
(* live rows to the rows.                                                  *)
(*                                                                         *)
(* A row keeps the number of page indexes its done_pages column lists: the *)
(* code appends indexes and reads back only their number.  The progress    *)
(* percentage and the error message are derived and left out.  Rows that   *)
(* tie on position are ordered by queued_at, a time in seconds: the model  *)
(* lets any of them come first.                                            *)
(***************************************************************************)
EXTENDS Naturals, FiniteSets, Functions

CONSTANTS Chapters,          \* rows of the chapters table
          Sources,           \* installed sources
          SourceOf,          \* the source each chapter belongs to
          Cap,               \* resolved chapter cap of each source, 0: no gate
          MaxActiveSources   \* sources that may download at once, 0: no gate

ASSUME SourceOfAssumption == SourceOf \in [Chapters -> Sources]
ASSUME CapAssumption == Cap \in [Sources -> Nat] /\ MaxActiveSources \in Nat

Status == {"PENDING", "DOWNLOADING", "PAUSED", "FAILED"}

Row == [chapter : Chapters, status : Status, position : Nat,
        total : Nat, downloaded : Nat, done : Nat]

NewRow(c, p) == [chapter |-> c, status |-> "PENDING", position |-> p,
                 total |-> 0, downloaded |-> 0, done |-> 0]

WithStatus(q, st) == {id \in DOMAIN q : q[id].status \in st}
RowsOf(q, c) == {id \in DOMAIN q : q[id].chapter = c}
RowsFrom(q, s) == {id \in DOMAIN q : SourceOf[q[id].chapter] = s}

\* UPDATE download_queue SET status = st WHERE id IN ids.
SetStatus(q, ids, st) ==
    [id \in DOMAIN q |-> IF id \in ids THEN [q[id] EXCEPT !.status = st] ELSE q[id]]

\* DELETE FROM download_queue WHERE id IN ids.
Without(q, ids) == Restrict(q, DOMAIN q \ ids)

\* COALESCE(MAX(position), 0) + 1, the position behind every live row: the one
\* member of this set.
NextPositions(q) == {p \in {1} \cup {q[id].position + 1 : id \in DOMAIN q} :
                        \A id \in DOMAIN q : q[id].position < p}

(***************************************************************************)
(* EnqueueChapter.  A chapter without a row gets a new one under the next  *)
(* autoincrement id; a FAILED row becomes PENDING behind the others with   *)
(* its counters at zero, and keeps its done_pages; any other row stays as  *)
(* it is.                                                                  *)
(***************************************************************************)
InsertRow(q, c, id, p) ==
    [i \in DOMAIN q \cup {id} |-> IF i = id THEN NewRow(c, p) ELSE q[i]]

RequeueFailed(q, c, p) ==
    [id \in DOMAIN q |->
        IF q[id].chapter = c /\ q[id].status = "FAILED"
        THEN [q[id] EXCEPT !.status = "PENDING", !.position = p,
                           !.total = 0, !.downloaded = 0]
        ELSE q[id]]

(***************************************************************************)
(* ClaimNextQueueItem: the pending rows that pass the gates, and among     *)
(* them those with the lowest position.                                    *)
(***************************************************************************)
InFlight(q, s) == RowsFrom(q, s) \cap WithStatus(q, {"DOWNLOADING"})
ActiveSources(q) == {s \in Sources : InFlight(q, s) # {}}

\* Mutant of Claimable: the cap is off by one and the source gate is gone.
ClaimableOverCap(q, held) ==
    {id \in WithStatus(q, {"PENDING"}) :
        LET s == SourceOf[q[id].chapter]
        IN  /\ s \notin held
            /\ Cap[s] > 0 => Cardinality(InFlight(q, s)) <= Cap[s]}

Claimable(q, held) ==
    {id \in WithStatus(q, {"PENDING"}) :
        LET s == SourceOf[q[id].chapter]
        IN  /\ s \notin held
            /\ Cap[s] > 0 => Cardinality(InFlight(q, s)) < Cap[s]
            /\ MaxActiveSources > 0 =>
                  s \in ActiveSources(q) \/ Cardinality(ActiveSources(q)) < MaxActiveSources}

Heads(q, held) == {id \in Claimable(q, held) :
                      \A other \in Claimable(q, held) : q[id].position <= q[other].position}

(***************************************************************************)
(* UpdateQueueProgress and SaveQueuePageProgress.  Both refuse a count     *)
(* above the total and a row that is neither pending nor in flight; the    *)
(* first also moves a pending row to DOWNLOADING.                          *)
(***************************************************************************)
\* Mutant of Progressable: the status guard of the statements is dropped.
ProgressableAlways(q, id) == id \in DOMAIN q

Progressable(q, id) == id \in WithStatus(q, {"PENDING", "DOWNLOADING"})

AcceptsProgress(q, id, total, done) == done <= total /\ Progressable(q, id)

UpdateProgress(q, id, total, done) ==
    [q EXCEPT ![id] = [@ EXCEPT !.status = "DOWNLOADING", !.total = total,
                                !.downloaded = done]]

SaveDone(q, id, done) ==
    [q EXCEPT ![id] = [@ EXCEPT !.downloaded = done, !.done = done]]

(***************************************************************************)
(* YieldSupersededDownloads: the rows in flight that stand behind the      *)
(* first pending row.  SetQueueOrder: the rows a client lists take their   *)
(* rank in that list, 0 first, as position; the others keep theirs.        *)
(***************************************************************************)
Superseded(q) == {id \in WithStatus(q, {"DOWNLOADING"}) :
                    \E p \in WithStatus(q, {"PENDING"}) : q[id].position > q[p].position}

SetOrder(q, rank) ==
    [id \in DOMAIN q |->
        IF id \in DOMAIN rank THEN [q[id] EXCEPT !.position = rank[id]] ELSE q[id]]
=============================================================================
