-------------------------------- MODULE Covers --------------------------------
(***************************************************************************)
(* The cover of a title: requests that serve the cached file or fetch one  *)
(* (internal/api/library.go, ensureCover), the transfer slots they share   *)
(* (internal/api/api.go), and the writes of the title's row that replace   *)
(* the cover: a refresh and the editor (internal/db: UpsertManga,          *)
(* UpdateMangaCustom), which drop the cached file after, the import of a   *)
(* Mihon backup and the restore of a backup (internal/tachibackup and      *)
(* internal/backup, import.go), which leave it in the row.                 *)
(*                                                                         *)
(* An address stands for its picture and for the path of its cached file;  *)
(* nothing sweeps the files of covers.                                     *)
(***************************************************************************)
EXTENDS Naturals, FiniteSets

CONSTANTS Viewers, Writers, Addresses,
          Slots,      \* transfers at once
          MaxEdits,   \* bound: writes of the row
          None

CoverAssumption == Slots \in Nat \ {0} /\ MaxEdits \in Nat /\ None \notin Addresses

VARIABLES
    title,   \* the title's row: cover_url, custom_cover_url and cover_cache_path
    files,   \* the cached files
    inUse,   \* transfer slots in use
    viewer,  \* what each request for the cover does, with the row it read
    writer,  \* what each write of the row does
    edits,
    crossed, \* a fetch, another write or a crash met a write of the row
    unheard  \* an import or a restore changed the cover of a row that kept its file

coverVars == <<title, files, inUse, viewer, writer, edits, crossed, unheard>>

\* The override wins over the source's cover.
Address(row) == IF row.custom # None THEN row.custom ELSE row.cover

NoView == [at |-> "idle", row |-> None]
NoWrite == [at |-> "idle", field |-> None, address |-> None, read |-> None]

CoverInit ==
    /\ title = [cover |-> None, custom |-> None, path |-> None]
    /\ files = {} /\ inUse = 0 /\ viewer = [v \in Viewers |-> NoView]
    /\ writer = [w \in Writers |-> NoWrite] /\ edits = 0 /\ crossed = FALSE /\ unheard = FALSE

Views(v, at) == viewer' = [viewer EXCEPT ![v].at = at]
\* The deferred endImageFetch.
Leaves(v) == viewer' = [viewer EXCEPT ![v] = NoView] /\ inUse' = inUse - 1
Unwritten == UNCHANGED <<writer, edits, crossed, unheard>>

-----------------------------------------------------------------------------
(* ensureCover                                                             *)

\* readCachedCover, by the row the request has.
HasFile(row) == row.path # None /\ row.path \in files

\* A cover that is cached or has no address is answered at once.
View(v) ==
    /\ viewer[v].at = "idle" /\ ~HasFile(title) /\ Address(title) # None
    /\ viewer' = [viewer EXCEPT ![v] = [at |-> "gate", row |-> title]]
    /\ UNCHANGED <<title, files, inUse>> /\ Unwritten

\* beginImageFetch.
TakeSlot(v) ==
    /\ viewer[v].at = "gate" /\ inUse < Slots /\ inUse' = inUse + 1 /\ Views(v, "again")
    /\ UNCHANGED <<title, files>> /\ Unwritten

\* The second look is at the row that was read before the wait: it finds a file only if
\* somebody wrote the one that row named.
LookAgain(v) ==
    /\ viewer[v].at = "again"
    /\ IF HasFile(viewer[v].row) THEN Leaves(v) ELSE Views(v, "fetch") /\ UNCHANGED inUse
    /\ UNCHANGED <<title, files>> /\ Unwritten

\* Mutant of FetchCover: a transfer that fails keeps its slot.
FetchAndKeepSlot(v) ==
    /\ viewer[v].at = "fetch"
    /\ Views(v, "store") \/ viewer' = [viewer EXCEPT ![v] = NoView]
    /\ UNCHANGED <<title, files, inUse>> /\ Unwritten

FetchCover(v) ==
    /\ viewer[v].at = "fetch"
    /\ \/ Views(v, "store") /\ UNCHANGED inUse
       \/ Leaves(v)
    /\ UNCHANGED <<title, files>> /\ Unwritten

\* storeCover writes the file, then the row, whatever became of it since it was read.
WriteCover(v) ==
    /\ viewer[v].at = "store" /\ Views(v, "record") /\ files' = files \cup {Address(viewer[v].row)}
    /\ UNCHANGED <<title, inUse>> /\ Unwritten

SetMangaCover(v) ==
    /\ viewer[v].at = "record" /\ Leaves(v)
    /\ title' = [title EXCEPT !.path = Address(viewer[v].row)]
    /\ UNCHANGED files /\ Unwritten

-----------------------------------------------------------------------------
(* Writes of the row                                                       *)

Unviewed == UNCHANGED <<files, inUse, viewer>>

\* A refresh brings the source's cover and reads the one it replaces; the editor of a title
\* reads the row, to write all its overrides, among them the cover or not ("other").
ReadRow(w, field, address) ==
    /\ writer[w].at = "idle" /\ edits < MaxEdits /\ edits' = edits + 1
    /\ writer' = [writer EXCEPT ![w] = [at |-> "write", field |-> field, address |-> address,
                    read |-> IF field = "cover" THEN title.cover ELSE title.custom]]
    /\ crossed' = (crossed \/ \E u \in Writers : writer[u].at # "idle")
    /\ UNCHANGED <<title, unheard>> /\ Unviewed

\* Mutant of Replaces: only an override replaces the cover.
ReplacesCustom(w) == writer[w].field = "custom"

\* What is followed by the statement that drops the cached cover.
Replaces(w) ==
    \/ writer[w].field = "custom"
    \/ writer[w].field = "cover" /\ writer[w].read \notin {None, writer[w].address}

\* A request is at work on another cover than the row gives.
Meets(row) == \E v \in Viewers : viewer[v].at # "idle" /\ Address(viewer[v].row) # Address(row)

WriteRow(w) ==
    /\ writer[w].at = "write"
    /\ title' = CASE writer[w].field = "cover" -> [title EXCEPT !.cover = writer[w].address]
                  [] writer[w].field = "custom" -> [title EXCEPT !.custom = writer[w].address]
                  [] writer[w].field = "other" -> [title EXCEPT !.custom = writer[w].read]
    /\ writer' = [writer EXCEPT ![w] = IF Replaces(w) THEN [@ EXCEPT !.at = "drop"] ELSE NoWrite]
    /\ crossed' = (crossed \/ Meets(title'))
    /\ UNCHANGED <<edits, unheard>> /\ Unviewed

DropCover(w) ==
    /\ writer[w].at = "drop" /\ title' = [title EXCEPT !.path = None] /\ unheard' = FALSE
    /\ writer' = [writer EXCEPT ![w] = NoWrite]
    /\ UNCHANGED <<edits, crossed>> /\ Unviewed

\* An import and a restore write the row in one statement and drop nothing.
Overwritten(row) ==
    /\ edits < MaxEdits /\ edits' = edits + 1 /\ title' = row
    /\ crossed' = (crossed \/ Meets(row) \/ \E w \in Writers : writer[w].at # "idle")
    /\ unheard' = (unheard \/ (title.path # None /\ Address(row) # Address(title)))
    /\ UNCHANGED writer /\ Unviewed

\* What the backup does not have stays.
Import(cover, custom) ==
    Overwritten([title EXCEPT !.cover = IF cover = None THEN @ ELSE cover,
                              !.custom = IF custom = None THEN @ ELSE custom])

\* A backup has the cover of the source and not the override.
Restore(cover) == Overwritten([title EXCEPT !.cover = cover])

Crash ==
    /\ edits < MaxEdits /\ edits' = edits + 1
    /\ crossed' = (crossed \/ \E w \in Writers : writer[w].at = "drop")
    /\ viewer' = [v \in Viewers |-> NoView] /\ inUse' = 0 /\ writer' = [w \in Writers |-> NoWrite]
    /\ UNCHANGED <<title, files, unheard>>

ViewerStep(v) == TakeSlot(v) \/ LookAgain(v) \/ FetchCover(v) \/ WriteCover(v) \/ SetMangaCover(v)
WriterStep(w) == WriteRow(w) \/ DropCover(w)

CoverNext ==
    \/ \E v \in Viewers : View(v) \/ ViewerStep(v)
    \/ \E w \in Writers :
         \/ WriterStep(w) \/ ReadRow(w, "other", None)
         \/ \E field \in {"cover", "custom"}, address \in Addresses \cup {None} : ReadRow(w, field, address)
    \/ \E cover \in Addresses \cup {None} :
         Restore(cover) \/ \E custom \in Addresses \cup {None} : Import(cover, custom)
    \/ Crash

\* The channel serves whoever waits for a slot.
CoverFairness == \A v \in Viewers : WF_coverVars(ViewerStep(v)) /\ SF_coverVars(TakeSlot(v))

CoverSpec == CoverInit /\ [][CoverNext]_coverVars /\ CoverFairness

-----------------------------------------------------------------------------
(* Properties                                                              *)

Settled == ~crossed /\ \A w \in Writers : writer[w].at = "idle"

\* The file the row names is the cover's, with an override or without, unless a write of
\* the row met a fetch of the old cover, another write, or a crash before it dropped the
\* file, or an import or a restore changed the cover and no write has dropped the file since.
CoverFollows ==
    title.path # None /\ Settled /\ ~unheard => title.path = Address(title) /\ title.path \in files

\* The slots in use are those of the transfers, so none is lost, and a request ends.
SlotsAreReturned == inUse = Cardinality({v \in Viewers : viewer[v].at \notin {"idle", "gate"}}) /\ inUse <= Slots
ViewEnds == \A v \in Viewers : viewer[v].at # "idle" ~> viewer[v].at = "idle"

=============================================================================
