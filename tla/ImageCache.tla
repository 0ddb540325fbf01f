------------------------------ MODULE ImageCache ------------------------------
(***************************************************************************)
(* The pages of a chapter as the reader is shown them: the list of pages   *)
(* and the image of one (internal/api/sources.go, materializePages and     *)
(* pageImage), the archive of a downloaded chapter (internal/downloader/   *)
(* artifact.go), the cached files and their rows (internal/db) and the     *)
(* retention (internal/imagecache/imagecache.go).                          *)
(*                                                                         *)
(* An address stands for the picture behind it and, since a file is named  *)
(* by the hash of both, for the path of its cached file.                   *)
(***************************************************************************)
EXTENDS Naturals, FiniteSets, SequencesExt

CONSTANTS Requests, Addresses,
          MaxPages,    \* bound: pages of the chapter
          MaxFiles,    \* ImageCacheMaxBytes, in files
          MaxChanges,  \* bound: lists the source publishes, downloads, losses and crashes
          Blank,       \* the address of a page that is known from the archive only
          None

\* A row of `pages`.
PageRows == [id : Nat, address : Addresses \cup {Blank}]

ImageAssumption ==
    /\ {MaxPages, MaxFiles, MaxChanges} \subseteq Nat
    /\ Blank \notin Addresses /\ None \notin Addresses \cup {Blank} \cup PageRows

VARIABLES
    published,   \* the source's list of pages
    changes,
    artifact,    \* the pages in the archive the chapter's row names, <<>> without one
    pages,       \* rows of `pages` by page_index: the id and the address, or None
    ids,         \* how many were inserted
    cached,      \* rows of `page_cache`: the path for a page, or None
    dir,         \* the cache directory, oldest file first
    torn,        \* the files that are not whole
    request,     \* what each request of the reader does
    renumbered,  \* pages that got another address behind a cached image or a request
    rewritten    \* files that were written again while something named them

imageVars == <<published, changes, artifact, pages, ids, cached, dir, torn, request, renumbered, rewritten>>

Indexes == 1..MaxPages
Lists == {list \in UNION {[1..n -> Addresses] : n \in 0..MaxPages} : IsInjective(list)}
NoRequest == [at |-> "idle", index |-> None, page |-> None, path |-> None, keep |-> {}, list |-> <<>>,
              refused |-> FALSE]

ImageInit ==
    /\ published \in Lists /\ changes = 0 /\ artifact = <<>>
    /\ pages = [i \in Indexes |-> None] /\ ids = 0 /\ cached = [i \in Indexes |-> None]
    /\ dir = <<>> /\ torn = {} /\ request = [r \in Requests |-> NoRequest]
    /\ renumbered = {} /\ rewritten = {}

Goes(r, at) == request' = [request EXCEPT ![r].at = at, ![r].path = None]
Recorded(r) == request' = [request EXCEPT ![r] = [NoRequest EXCEPT !.at = "sweep"]]
Ends(r) == request' = [request EXCEPT ![r] = NoRequest]
Unlisted == UNCHANGED <<published, changes, artifact, pages, ids, renumbered>>
Unfiled == UNCHANGED <<dir, torn, rewritten>>

-----------------------------------------------------------------------------
(* The list of pages                                                       *)

\* UpsertPages: an index keeps its row and gets the new address; the indexes the list does
\* not reach are deleted, and what was cached of them with them.
UpsertPages(list) ==
    LET Of(i) == IF i > Len(list) THEN None
                 ELSE [id |-> IF pages[i] = None THEN ids + 1 ELSE pages[i].id, address |-> list[i]]
        gone == {i \in Indexes : i > Len(list)}
        named == {i \in Indexes : cached[i] # None \/ \E r \in Requests : request[r].index = i}
    IN  /\ pages' = [i \in Indexes |-> Of(i)]
        /\ ids' = IF \E i \in 1..Len(list) : pages[i] = None THEN ids + 1 ELSE ids
        /\ cached' = [i \in Indexes |-> IF i \in gone THEN None ELSE cached[i]]
        /\ renumbered' = (renumbered \ gone) \cup
               {i \in named \ gone : pages[i] # None /\ pages[i].address # list[i]}

\* The stored list serves; without one, or to refresh it, the archive's entries, and
\* without an archive the source.
MaterializePages(r, refresh) ==
    /\ request[r].at = "idle" /\ (refresh \/ \A i \in Indexes : pages[i] = None)
    /\ IF artifact # <<>>
       THEN UpsertPages([i \in DOMAIN artifact |-> Blank]) /\ UNCHANGED request
       ELSE Goes(r, "ask") /\ UNCHANGED <<pages, ids, cached, renumbered>>
    /\ UNCHANGED <<published, changes, artifact>> /\ Unfiled

AskSource(r) ==
    /\ request[r].at = "ask"
    /\ \/ request' = [request EXCEPT ![r].at = "store", ![r].list = published]
       \/ Ends(r)
    /\ UNCHANGED cached /\ Unlisted /\ Unfiled

StoreList(r) ==
    /\ request[r].at = "store" /\ UpsertPages(request[r].list) /\ Ends(r)
    /\ UNCHANGED <<published, changes, artifact>> /\ Unfiled

-----------------------------------------------------------------------------
(* The image of a page                                                     *)

\* The archive wins, if it has a page at that position; then what is cached, then the source.
OpenPage(r, i) ==
    /\ request[r].at = "idle" /\ pages[i] # None /\ i \notin DOMAIN artifact
    /\ request' = [request EXCEPT ![r] = [NoRequest EXCEPT !.at = IF cached[i] = None THEN "fetch" ELSE "read",
                      !.index = i, !.page = pages[i], !.path = cached[i]]]
    /\ UNCHANGED cached /\ Unlisted /\ Unfiled

\* The row the request read is still there.
Stands(r) == LET row == pages[request[r].index] IN row # None /\ row.id = request[r].page.id

\* Mutant of ReadCached: a row whose file is gone is an error.
ReadOrFail(r) ==
    /\ request[r].at = "read"
    /\ IF request[r].path \in Range(dir) THEN Ends(r) ELSE Goes(r, "failed")
    /\ UNCHANGED cached /\ Unlisted /\ Unfiled

\* "The cached bytes vanished; fall through to the source."
ReadCached(r) ==
    /\ request[r].at = "read"
    /\ IF request[r].path \in Range(dir) THEN Ends(r) ELSE Goes(r, "fetch")
    /\ UNCHANGED cached /\ Unlisted /\ Unfiled

\* FetchImage and Unscramble.
FetchImage(r) ==
    /\ request[r].at = "fetch"
    /\ \/ request[r].page.address # Blank /\ Goes(r, "write")
       \/ request' = [request EXCEPT ![r].at = "failed", ![r].refused = TRUE]
    /\ UNCHANGED cached /\ Unlisted /\ Unfiled

WritersOf(path) == {r \in Requests : request[r].at \in {"writing", "record"} /\ request[r].page.address = path}

\* os.WriteFile truncates the file in place, and fills it.
Truncate(r) ==
    /\ request[r].at = "write" /\ Goes(r, "writing")
    /\ LET path == request[r].page.address IN
         /\ dir' = Append(SelectSeq(dir, LAMBDA p : p # path), path) /\ torn' = torn \cup {path}
         /\ rewritten' = IF path \in Range(cached) \/ WritersOf(path) # {} THEN rewritten \cup {path} ELSE rewritten
    /\ UNCHANGED cached /\ Unlisted

\* Mutant of Fill: a write that failed is recorded.
FillAnyway(r) ==
    /\ request[r].at = "writing" /\ Goes(r, "record")
    /\ torn' \in {torn, torn \ {request[r].page.address}}
    /\ UNCHANGED <<cached, dir, rewritten>> /\ Unlisted

\* The write can fail half way.  What two writers leave before the last is done is either.
Fill(r) ==
    /\ request[r].at = "writing"
    /\ LET path == request[r].page.address IN
         \/ Goes(r, "record") /\ torn' = torn \ {path}
         \/ /\ \E s \in Requests \ {r} : request[s].at = "writing" /\ s \in WritersOf(path)
            /\ Goes(r, "record") /\ UNCHANGED torn
         \/ request' = [request EXCEPT ![r].at = "failed", ![r].refused = TRUE] /\ UNCHANGED torn
    /\ UNCHANGED <<cached, dir, rewritten>> /\ Unlisted

\* Mutant of SetPageCache: the row is for the position in the chapter.
SetPageCacheByIndex(r) ==
    /\ request[r].at = "record"
    /\ cached' = [cached EXCEPT ![request[r].index] = request[r].page.address] /\ Recorded(r)
    /\ Unlisted /\ Unfiled

\* The row refers to the page's row, and is refused when that is gone.
SetPageCache(r) ==
    /\ request[r].at = "record"
    /\ IF Stands(r)
       THEN cached' = [cached EXCEPT ![request[r].index] = request[r].page.address] /\ Recorded(r)
       ELSE Goes(r, "failed") /\ UNCHANGED cached
    /\ Unlisted /\ Unfiled

-----------------------------------------------------------------------------
(* Retention                                                               *)

\* AfterWrite: within a minute of the last sweep nothing, else the paths the rows name are
\* read, and then swept by.
AfterWrite(r) ==
    /\ request[r].at = "sweep"
    /\ \/ Ends(r)
       \/ request' = [request EXCEPT ![r].at = "sweeping", ![r].keep = Range(cached)]
    /\ UNCHANGED cached /\ Unlisted /\ Unfiled

\* Sweep: the files past their age, the ones no row names, and the oldest of the rest until
\* the others fit.  What is being written is not old.
Swept(keep) ==
    LET young == {n \in 0..Len(dir) : \A k \in 1..n : WritersOf(dir[k]) = {}}
        Rest(n) == SelectSeq(SubSeq(dir, n + 1, Len(dir)), LAMBDA p : p \in keep)
        Fits(files) == SubSeq(files, 1 + (IF Len(files) > MaxFiles THEN Len(files) - MaxFiles ELSE 0), Len(files))
    IN  {Fits(Rest(n)) : n \in young}

Sweep(r) ==
    /\ request[r].at = "sweeping" /\ dir' \in Swept(request[r].keep) /\ torn' = torn \cap Range(dir')
    /\ Ends(r)
    /\ UNCHANGED <<cached, rewritten>> /\ Unlisted

\* The error is on its way.
Close(r) ==
    /\ request[r].at = "failed" /\ Ends(r)
    /\ UNCHANGED cached /\ Unlisted /\ Unfiled

-----------------------------------------------------------------------------
(* What else happens                                                       *)

Renumber(list) ==
    /\ changes < MaxChanges /\ changes' = changes + 1 /\ list # published /\ published' = list
    /\ UNCHANGED <<artifact, pages, ids, cached, request, renumbered>> /\ Unfiled

\* The downloader registers an archive, and the list it downloaded.
Download ==
    /\ changes < MaxChanges /\ changes' = changes + 1 /\ artifact = <<>> /\ artifact' = published
    /\ published # <<>> /\ UpsertPages(published) /\ UNCHANGED <<published, request>> /\ Unfiled

LoseArtifact ==
    /\ changes < MaxChanges /\ changes' = changes + 1 /\ artifact # <<>> /\ artifact' = <<>>
    /\ UNCHANGED <<published, pages, ids, cached, request, renumbered>> /\ Unfiled

\* The daemon dies and starts again, with one sweep.
Restart ==
    /\ changes < MaxChanges /\ changes' = changes + 1
    /\ request' = [r \in Requests |-> NoRequest]
    /\ dir' \in Swept(Range(cached)) /\ torn' = torn \cap Range(dir')
    /\ UNCHANGED <<published, artifact, pages, ids, cached, renumbered, rewritten>>

RequestStep(r) ==
    \/ AskSource(r) \/ StoreList(r) \/ ReadCached(r) \/ FetchImage(r) \/ Truncate(r)
    \/ Fill(r) \/ SetPageCache(r) \/ AfterWrite(r) \/ Sweep(r) \/ Close(r)

ImageNext ==
    \/ \E r \in Requests : \/ RequestStep(r) \/ \E i \in Indexes : OpenPage(r, i)
                           \/ \E refresh \in BOOLEAN : MaterializePages(r, refresh)
    \/ (\E list \in Lists : Renumber(list)) \/ Download \/ LoseArtifact \/ Restart

ImageSpec == ImageInit /\ [][ImageNext]_imageVars

-----------------------------------------------------------------------------
(* Properties                                                              *)

\* Whatever the retention removes under a request, it is answered: it fails when the source
\* or the disk failed it, or when the page is gone from the list (pageImage).
EvictionIsHarmless ==
    \A r \in Requests : request[r].at = "failed" => request[r].refused \/ ~Stands(r)

\* The image kept for a page is that of its address, also after the page was deleted and
\* inserted again while it was fetched, but for a page that got another address while an
\* image was kept or under way: nothing drops that one.
CachedIsThePage ==
    \A i \in Indexes : cached[i] # None /\ i \notin renumbered =>
        pages[i] # None /\ pages[i].address = cached[i]

\* A file that a row names is whole, unless it was written again in place meanwhile: by a
\* second request for the page, or after it was swept away; of such a file a reader may
\* get a part, and after a crash keeps getting it.
NamedIsWhole == \A i \in Indexes : cached[i] \in torn => cached[i] \in rewritten

=============================================================================
