---------------------------- MODULE MCKept_proofs ----------------------------
(***************************************************************************)
(* Proofs about the three stores of MCKept, for every number of requests:  *)
(* the images of pages (ImageCache) through sweeps, renumbered lists and   *)
(* crashes, the covers (Covers) for every number of writers and slots, and *)
(* the catalog (Catalog) for every number of sources, versions, releases.  *)
(***************************************************************************)
EXTENDS MCKept, Sequences, FiniteSetTheorems, TLAPS

-----------------------------------------------------------------------------
(* The images of pages                                                     *)

Paths == Addresses \cup {Blank}
Loading == {"read", "fetch", "write", "writing", "record", "failed"}
Writing == {"writing", "record"}
PageRequests ==
    [at : Loading \cup {"idle", "ask", "store", "sweep", "sweeping"}, index : I!Indexes \cup {None},
     page : {None} \cup I!PageRows, path : {None} \cup Paths, keep : SUBSET ({None} \cup Paths),
     list : Seq(Addresses), refused : BOOLEAN]

\* Types; a request for a page has read a row that was inserted at some time.
ImageTyped ==
    /\ published \in Seq(Addresses) /\ artifact \in Seq(Addresses) /\ ids \in Nat
    /\ pages \in [I!Indexes -> {None} \cup I!PageRows]
    /\ \A i \in I!Indexes : pages[i] # None => pages[i].id <= ids
    /\ cached \in [I!Indexes -> {None} \cup Paths] /\ torn \subseteq Paths
    /\ request \in [Requests -> PageRequests]
    /\ \A r \in Requests : request[r].at \in Loading =>
          request[r].index \in I!Indexes /\ request[r].page \in I!PageRows /\ request[r].page.id <= ids

\* Whose row still stands has its address, but for a page that was renumbered.
RowsAgree ==
    \A r \in Requests :
        request[r].at \in Loading /\ I!Stands(r) /\ request[r].index \notin renumbered =>
            pages[request[r].index].address = request[r].page.address

\* Two that write one file write it again; and a file that is about to be named is whole,
\* or written again.
WritersMeet ==
    /\ \A r, s \in Requests :
          r # s /\ request[r].at \in Writing /\ request[s].at \in Writing
                /\ request[r].page.address = request[s].page.address =>
             request[r].page.address \in rewritten
    /\ \A r \in Requests :
          request[r].at = "record" /\ request[r].page.address \in torn => request[r].page.address \in rewritten

ImageInv ==
    /\ ImageTyped /\ RowsAgree /\ WritersMeet
    /\ I!EvictionIsHarmless /\ I!CachedIsThePage /\ I!NamedIsWhole

LEMMA ImageNone == None \notin Paths \cup I!PageRows /\ MaxPages \in Nat
BY KeptAssumption DEF I!ImageAssumption, Paths

LEMMA ListsAreSequences == ASSUME NEW list \in I!Lists PROVE list \in Seq(Addresses)
BY KeptAssumption DEF I!ImageAssumption, I!Lists

LEMMA NoPageRequest == I!NoRequest \in PageRequests /\ I!NoRequest.at = "idle"
<1>1. <<>> \in Seq(Addresses)
  OBVIOUS
<1> QED BY <1>1 DEF I!NoRequest, PageRequests, Loading

LEMMA ImagesBegin == Init => ImageInv
<1> SUFFICES ASSUME Init PROVE ImageInv
  OBVIOUS
<1>1. published \in Seq(Addresses) /\ artifact = <<>> /\ <<>> \in Seq(Addresses)
  BY ListsAreSequences DEF Init, I!ImageInit
<1>2. \A r \in Requests : request[r] = I!NoRequest
  BY DEF Init, I!ImageInit
<1>3. ImageTyped
  BY <1>1, <1>2, NoPageRequest DEF Init, I!ImageInit, ImageTyped, Loading
<1> QED BY <1>2, <1>3, NoPageRequest
        DEF Init, I!ImageInit, ImageInv, RowsAgree, WritersMeet, I!EvictionIsHarmless, I!CachedIsThePage,
            I!NamedIsWhole, Loading, Writing

\* A new list of pages, from the archive or the source.
LEMMA UpsertKeeps ==
    ASSUME ImageInv, NEW list \in Seq(Paths), I!UpsertPages(list),
           published' \in Seq(Addresses), artifact' \in Seq(Addresses), UNCHANGED <<torn, rewritten>>,
           request' \in [Requests -> PageRequests],
           \A r \in Requests : request'[r] = request[r] \/ request'[r].at = "idle"
    PROVE  ImageInv'
<1> DEFINE gone == {i \in I!Indexes : i > Len(list)}
           named == {i \in I!Indexes : cached[i] # None \/ \E r \in Requests : request[r].index = i}
           Of(i) == IF i > Len(list) THEN None
                    ELSE [id |-> IF pages[i] = None THEN ids + 1 ELSE pages[i].id, address |-> list[i]]
<1>1. /\ pages' = [i \in I!Indexes |-> Of(i)]
      /\ ids' = IF \E i \in 1..Len(list) : pages[i] = None THEN ids + 1 ELSE ids
      /\ cached' = [i \in I!Indexes |-> IF i \in gone THEN None ELSE cached[i]]
      /\ renumbered' = (renumbered \ gone) \cup
             {i \in named \ gone : pages[i] # None /\ pages[i].address # list[i]}
  BY DEF I!UpsertPages
<1>2. /\ ids \in Nat /\ Len(list) \in Nat /\ \A i \in 1..Len(list) : list[i] \in Paths
      /\ \A i \in I!Indexes : i \in Nat /\ i >= 1 /\ (i \notin gone => i \in 1..Len(list))
      /\ \A i \in I!Indexes : pages[i] # None => pages[i].id \in Nat /\ pages[i].id <= ids
      /\ \A r \in Requests : request[r].at \in Loading =>
            /\ request[r].index \in I!Indexes /\ request[r].page \in I!PageRows
            /\ request[r].page.id \in Nat /\ request[r].page.id <= ids
  <2>1. /\ ids \in Nat /\ Len(list) \in Nat /\ \A i \in 1..Len(list) : list[i] \in Paths
        /\ \A i \in I!Indexes : i \in Nat /\ i >= 1 /\ (i \notin gone => i \in 1..Len(list))
    BY DEF ImageInv, ImageTyped, I!Indexes
  <2>2. \A row \in I!PageRows : row.id \in Nat
    BY DEF I!PageRows
  <2> QED BY <2>1, <2>2 DEF ImageInv, ImageTyped
<1>3. \A i \in I!Indexes \ gone : i \in 1..Len(list) /\ Of(i) \in I!PageRows /\ Of(i) # None
  <2> TAKE i \in I!Indexes \ gone
  <2>1. i \in 1..Len(list) /\ list[i] \in Paths
    BY <1>2
  <2>2. pages[i] = None \/ pages[i].id \in Nat
    BY DEF ImageInv, ImageTyped, I!PageRows
  <2>3. Of(i) \in I!PageRows
    BY <1>2, <2>1, <2>2 DEF I!PageRows, Paths
  <2> QED BY <2>1, <2>3, ImageNone
<1>4. \A i \in I!Indexes : IF i \in gone THEN pages'[i] = None
                           ELSE /\ pages'[i] \in I!PageRows /\ pages'[i] # None /\ pages'[i].address = list[i]
                                /\ pages'[i].id = IF pages[i] = None THEN ids' ELSE pages[i].id
                                /\ pages[i] = None => ids' = ids + 1
  BY <1>1, <1>2, <1>3
<1>5. ids' \in Nat /\ ids <= ids'
  BY <1>1, <1>2
<1> HIDE DEF Of
<1>6. ImageTyped'
  <2>1. \A i \in I!Indexes : pages'[i] # None => pages'[i].id <= ids'
    BY <1>2, <1>4, <1>5
  <2>2. pages' \in [I!Indexes -> {None} \cup I!PageRows]
    BY <1>1, <1>4
  <2>3. cached' \in [I!Indexes -> {None} \cup Paths]
    BY <1>1 DEF ImageInv, ImageTyped
  <2>4. \A r \in Requests : request'[r].at \in Loading =>
          /\ request'[r].index \in I!Indexes /\ request'[r].page \in I!PageRows /\ request'[r].page.id <= ids'
    BY <1>2, <1>5 DEF Loading
  <2> QED BY <1>5, <2>1, <2>2, <2>3, <2>4 DEF ImageInv, ImageTyped
<1>7. ASSUME NEW r \in Requests, request'[r].at \in Loading, I!Stands(r)'
      PROVE  /\ request'[r] = request[r] /\ request[r].index \notin gone
             /\ I!Stands(r) /\ pages'[request[r].index].address = list[request[r].index]
  <2>1. /\ request'[r] = request[r] /\ request[r].index \in I!Indexes
        /\ request[r].page.id \in Nat /\ request[r].page.id <= ids
    BY <1>2, <1>7 DEF Loading
  <2>2. pages'[request[r].index] # None /\ pages'[request[r].index].id = request[r].page.id
    BY <1>7, <2>1 DEF I!Stands
  <2>3. request[r].index \notin gone /\ pages[request[r].index] # None
        /\ pages[request[r].index].id = request[r].page.id
    BY <1>2, <1>4, <2>1, <2>2
  <2> QED BY <1>4, <2>1, <2>3 DEF I!Stands
<1>8. RowsAgree'
  <2> SUFFICES ASSUME NEW r \in Requests, request'[r].at \in Loading, I!Stands(r)',
                      request'[r].index \notin renumbered'
               PROVE  pages'[request'[r].index].address = request'[r].page.address
    BY DEF RowsAgree
  <2> DEFINE i == request[r].index
  <2>1. /\ request'[r] = request[r] /\ i \notin gone /\ I!Stands(r) /\ pages'[i].address = list[i]
        /\ i \in I!Indexes
    BY <1>7 DEF ImageInv, ImageTyped
  <2>2. i \in named /\ pages[i] # None
    BY <2>1 DEF I!Stands
  <2>3. i \notin renumbered /\ pages[i].address = list[i]
    BY <1>1, <2>1, <2>2
  <2> QED BY <2>1, <2>3 DEF ImageInv, RowsAgree
<1>9. I!EvictionIsHarmless'
  <2>1. \A r \in Requests : request'[r].at = "failed" => request'[r].refused \/ ~I!Stands(r)'
    BY <1>7 DEF ImageInv, I!EvictionIsHarmless, Loading
  <2> QED BY <2>1 DEF I!EvictionIsHarmless
<1>10. I!CachedIsThePage'
  <2> SUFFICES ASSUME NEW i \in I!Indexes, cached'[i] # None, i \notin renumbered'
               PROVE  pages'[i] # None /\ pages'[i].address = cached'[i]
    BY DEF I!CachedIsThePage
  <2>1. i \notin gone /\ cached'[i] = cached[i] /\ i \in named /\ i \notin renumbered
    BY <1>1
  <2>2. pages[i] # None /\ pages[i].address = cached[i]
    BY <2>1 DEF ImageInv, I!CachedIsThePage
  <2> QED BY <1>1, <1>4, <2>1, <2>2
<1>11. I!NamedIsWhole' /\ WritersMeet'
  <2>1. \A i \in I!Indexes : cached'[i] \in torn => cached'[i] \in rewritten
    BY <1>1, ImageNone DEF ImageInv, ImageTyped, I!NamedIsWhole
  <2>2. \A r \in Requests : request'[r].at \in Writing => request'[r] = request[r]
    BY DEF Writing
  <2>3. WritersMeet'
    BY <2>2 DEF ImageInv, WritersMeet, Writing
  <2> QED BY <2>1, <2>3 DEF I!NamedIsWhole
<1> QED BY <1>6, <1>8, <1>9, <1>10, <1>11 DEF ImageInv

\* One request moves: it goes on with the row it has read, or reads one.
LEMMA LoadMoves ==
    ASSUME ImageInv, NEW r \in Requests, NEW q \in PageRequests, request' = [request EXCEPT ![r] = q],
           published' \in Seq(Addresses), artifact' \in Seq(Addresses), torn' \subseteq Paths,
           UNCHANGED <<pages, ids, cached, renumbered>>,
           q.at \in Loading =>
              \/ request[r].at \in Loading /\ q.index = request[r].index /\ q.page = request[r].page
              \/ q.index \in I!Indexes /\ pages[q.index] # None /\ q.page = pages[q.index],
           q.at = "failed" =>
              /\ request[r].at \in Loading /\ q.index = request[r].index /\ q.page = request[r].page
              /\ q.refused \/ ~I!Stands(r)
    PROVE  ImageTyped' /\ RowsAgree' /\ I!EvictionIsHarmless' /\ I!CachedIsThePage'
<1>1. \A s \in Requests : request'[s] = IF s = r THEN q ELSE request[s]
  BY DEF ImageInv, ImageTyped
<1>2. q.at \in Loading => q.index \in I!Indexes /\ q.page \in I!PageRows /\ q.page.id <= ids
  BY DEF ImageInv, ImageTyped
<1>3. ImageTyped'
  BY <1>1, <1>2 DEF ImageInv, ImageTyped
<1>4. RowsAgree'
  <2> SUFFICES ASSUME NEW s \in Requests, request'[s].at \in Loading, I!Stands(s)',
                      request'[s].index \notin renumbered
               PROVE  pages[request'[s].index].address = request'[s].page.address
    BY DEF RowsAgree
  <2>1. CASE s # r \/ (request[r].at \in Loading /\ q.index = request[r].index /\ q.page = request[r].page)
    BY <1>1, <2>1 DEF ImageInv, RowsAgree, I!Stands
  <2>2. CASE s = r /\ q.page = pages[q.index]
    BY <1>1, <2>2
  <2> QED BY <1>1, <2>1, <2>2
<1>5. I!EvictionIsHarmless'
  <2> SUFFICES ASSUME NEW s \in Requests, request'[s].at = "failed"
               PROVE  request'[s].refused \/ ~I!Stands(s)'
    BY DEF I!EvictionIsHarmless
  <2> QED BY <1>1 DEF ImageInv, I!EvictionIsHarmless, I!Stands
<1>6. I!CachedIsThePage'
  BY DEF ImageInv, I!CachedIsThePage
<1> QED BY <1>3, <1>4, <1>5, <1>6

\* ... and writes nothing.
LEMMA QuietMoves ==
    ASSUME ImageInv, NEW r \in Requests, NEW q \in PageRequests, request' = [request EXCEPT ![r] = q],
           published' \in Seq(Addresses), artifact' \in Seq(Addresses), torn' \subseteq torn,
           UNCHANGED <<pages, ids, cached, renumbered, rewritten>>, q.at \notin Writing,
           q.at \in Loading =>
              \/ request[r].at \in Loading /\ q.index = request[r].index /\ q.page = request[r].page
              \/ q.index \in I!Indexes /\ pages[q.index] # None /\ q.page = pages[q.index],
           q.at = "failed" =>
              /\ request[r].at \in Loading /\ q.index = request[r].index /\ q.page = request[r].page
              /\ q.refused \/ ~I!Stands(r)
    PROVE  ImageInv'
<1>1. torn' \subseteq Paths
  BY DEF ImageInv, ImageTyped
<1>2. ImageTyped' /\ RowsAgree' /\ I!EvictionIsHarmless' /\ I!CachedIsThePage'
  BY <1>1, LoadMoves
<1>3. \A s \in Requests : request'[s].at \in Writing => s # r /\ request'[s] = request[s]
  BY DEF ImageInv, ImageTyped
<1>4. WritersMeet'
  BY <1>3 DEF ImageInv, WritersMeet, Writing
<1>5. I!NamedIsWhole'
  BY DEF ImageInv, I!NamedIsWhole
<1> QED BY <1>2, <1>4, <1>5 DEF ImageInv

LEMMA OpenPageKeeps ==
    ASSUME ImageInv, NEW r \in Requests, NEW i \in I!Indexes, I!OpenPage(r, i)
    PROVE  ImageInv'
<1> DEFINE q == [I!NoRequest EXCEPT !.at = IF cached[i] = None THEN "fetch" ELSE "read",
                                    !.index = i, !.page = pages[i], !.path = cached[i]]
<1>1. /\ pages[i] # None /\ request' = [request EXCEPT ![r] = q]
      /\ UNCHANGED <<published, artifact, pages, ids, cached, renumbered, torn, rewritten>>
  BY DEF I!OpenPage, I!Unlisted, I!Unfiled
<1>2. pages[i] \in I!PageRows /\ cached[i] \in {None} \cup Paths
      /\ published \in Seq(Addresses) /\ artifact \in Seq(Addresses)
  BY <1>1 DEF ImageInv, ImageTyped
<1>3. /\ q \in PageRequests /\ q.at \in {"fetch", "read"} /\ q.index = i /\ q.page = pages[i]
  BY <1>2, NoPageRequest DEF I!NoRequest, PageRequests, Loading
<1> HIDE DEF q
<1> QED BY <1>1, <1>2, <1>3, QuietMoves DEF Writing

\* Whatever a request becomes that has read a row keeps the row.
LEMMA GoesOn ==
    ASSUME ImageInv, NEW r \in Requests
    PROVE  /\ \A at \in Loading \cup {"sweeping"} : [request[r] EXCEPT !.at = at, !.path = None] \in PageRequests
           /\ [request[r] EXCEPT !.at = "failed", !.refused = TRUE] \in PageRequests
           /\ [request[r] EXCEPT !.at = "sweeping", !.keep = I!Range(cached)] \in PageRequests
           /\ [request[r] EXCEPT !.at = "store", !.list = published] \in PageRequests
           /\ [I!NoRequest EXCEPT !.at = "sweep"] \in PageRequests
           /\ [request[r] EXCEPT !.at = "ask", !.path = None] \in PageRequests
           /\ request[r] \in PageRequests
<1>1. request[r] \in PageRequests /\ published \in Seq(Addresses)
  BY DEF ImageInv, ImageTyped
<1>2. I!Range(cached) \subseteq {None} \cup Paths
  BY DEF ImageInv, ImageTyped, I!Range
<1>3. I!Range(cached) \in SUBSET ({None} \cup Paths)
  BY <1>2
<1> QED BY <1>1, <1>3, NoPageRequest DEF PageRequests, Loading, I!NoRequest

\* The steps that write no file and name none.
LEMMA ReadingKeeps ==
    ASSUME ImageInv, NEW r \in Requests,
           I!AskSource(r) \/ I!ReadCached(r) \/ I!FetchImage(r) \/ I!AfterWrite(r) \/ I!Sweep(r) \/ I!Close(r)
    PROVE  ImageInv'
<1>1. /\ UNCHANGED <<published, artifact, pages, ids, cached, renumbered, rewritten>>
      /\ torn' \subseteq torn
  <2>1. CASE I!Sweep(r)
    BY <2>1 DEF I!Sweep, I!Unlisted
  <2>2. CASE I!AskSource(r) \/ I!ReadCached(r) \/ I!FetchImage(r) \/ I!AfterWrite(r) \/ I!Close(r)
    BY <2>2 DEF I!AskSource, I!ReadCached, I!FetchImage, I!AfterWrite, I!Close, I!Unlisted, I!Unfiled
  <2> QED BY <2>1, <2>2
<1>2. published \in Seq(Addresses) /\ artifact \in Seq(Addresses) /\ request \in [Requests -> PageRequests]
  BY DEF ImageInv, ImageTyped
<1>3. \/ request' = [request EXCEPT ![r] = I!NoRequest]
      \/ request' = [request EXCEPT ![r] = [request[r] EXCEPT !.at = "store", !.list = published]]
      \/ request' = [request EXCEPT ![r] = [request[r] EXCEPT !.at = "sweeping", !.keep = I!Range(cached)]]
      \/ /\ request[r].at \in Loading
         /\ \/ request' = [request EXCEPT ![r] = [request[r] EXCEPT !.at = "fetch", !.path = None]]
            \/ request' = [request EXCEPT ![r] = [request[r] EXCEPT !.at = "write", !.path = None]]
            \/ request' = [request EXCEPT ![r] = [request[r] EXCEPT !.at = "failed", !.refused = TRUE]]
  <2>1. CASE I!AskSource(r)
    BY <1>2, <2>1 DEF I!AskSource, I!Ends
  <2>2. CASE I!ReadCached(r)
    BY <1>2, <2>2 DEF I!ReadCached, I!Ends, I!Goes, Loading
  <2>3. CASE I!FetchImage(r)
    BY <1>2, <2>3 DEF I!FetchImage, I!Goes, Loading
  <2>4. CASE I!AfterWrite(r)
    BY <1>2, <2>4 DEF I!AfterWrite, I!Ends
  <2>5. CASE I!Sweep(r) \/ I!Close(r)
    BY <1>2, <2>5 DEF I!Sweep, I!Close, I!Ends
  <2> QED BY <2>1, <2>2, <2>3, <2>4, <2>5
<1>4. ASSUME NEW q \in PageRequests, request' = [request EXCEPT ![r] = q], q.at \notin Writing,
             q.at \in Loading => request[r].at \in Loading /\ q.index = request[r].index /\ q.page = request[r].page,
             q.at = "failed" => q.refused
      PROVE  ImageInv'
  <2>1. q.at = "failed" => request[r].at \in Loading /\ q.index = request[r].index /\ q.page = request[r].page
                           /\ (q.refused \/ ~I!Stands(r))
    BY <1>4 DEF Loading
  <2> QED BY <1>1, <1>2, <1>4, <2>1, QuietMoves
<1>5. CASE request' = [request EXCEPT ![r] = I!NoRequest]
  BY <1>4, <1>5, NoPageRequest DEF Loading, Writing
<1>6. ASSUME NEW at \in {"fetch", "write"}, request[r].at \in Loading,
             request' = [request EXCEPT ![r] = [request[r] EXCEPT !.at = at, !.path = None]]
      PROVE  ImageInv'
  <2> DEFINE q == [request[r] EXCEPT !.at = at, !.path = None]
  <2>1. request[r] \in PageRequests /\ q \in PageRequests /\ request' = [request EXCEPT ![r] = q]
    BY <1>6, GoesOn DEF Loading
  <2>2. q.at = at /\ q.index = request[r].index /\ q.page = request[r].page
    BY <2>1 DEF PageRequests
  <2> HIDE DEF q
  <2> QED BY <1>4, <1>6, <2>1, <2>2 DEF Writing
<1>7. CASE request[r].at \in Loading
           /\ request' = [request EXCEPT ![r] = [request[r] EXCEPT !.at = "failed", !.refused = TRUE]]
  <2> DEFINE q == [request[r] EXCEPT !.at = "failed", !.refused = TRUE]
  <2>1. request[r] \in PageRequests /\ q \in PageRequests /\ request' = [request EXCEPT ![r] = q]
    BY <1>7, GoesOn
  <2>2. q.at = "failed" /\ q.refused /\ q.index = request[r].index /\ q.page = request[r].page
    BY <2>1 DEF PageRequests
  <2> HIDE DEF q
  <2> QED BY <1>4, <1>7, <2>1, <2>2 DEF Writing
<1>8. CASE request' = [request EXCEPT ![r] = [request[r] EXCEPT !.at = "store", !.list = published]]
  <2> DEFINE q == [request[r] EXCEPT !.at = "store", !.list = published]
  <2>1. request[r] \in PageRequests /\ q \in PageRequests /\ request' = [request EXCEPT ![r] = q]
    BY <1>8, GoesOn
  <2>2. q.at = "store"
    BY <2>1 DEF PageRequests
  <2> HIDE DEF q
  <2> QED BY <1>4, <2>1, <2>2 DEF Writing, Loading
<1>9. CASE request' = [request EXCEPT ![r] = [request[r] EXCEPT !.at = "sweeping", !.keep = I!Range(cached)]]
  <2> DEFINE q == [request[r] EXCEPT !.at = "sweeping", !.keep = I!Range(cached)]
  <2>1. request[r] \in PageRequests /\ q \in PageRequests /\ request' = [request EXCEPT ![r] = q]
    BY <1>9, GoesOn
  <2>2. q.at = "sweeping"
    BY <2>1 DEF PageRequests
  <2> HIDE DEF q
  <2> QED BY <1>4, <2>1, <2>2 DEF Writing, Loading
<1> QED BY <1>3, <1>5, <1>6, <1>7, <1>8, <1>9

LEMMA ListKeeps ==
    ASSUME ImageInv, NEW r \in Requests, NEW refresh \in BOOLEAN, I!MaterializePages(r, refresh) \/ I!StoreList(r)
    PROVE  ImageInv'
<1>1. /\ published \in Seq(Addresses) /\ artifact \in Seq(Addresses) /\ request \in [Requests -> PageRequests]
      /\ UNCHANGED <<published, artifact, torn, rewritten>>
  BY DEF ImageInv, ImageTyped, I!MaterializePages, I!StoreList, I!Unfiled
<1>2. CASE I!MaterializePages(r, refresh) /\ artifact # <<>>
  <2>1. [i \in DOMAIN artifact |-> Blank] \in Seq(Paths)
    BY <1>1 DEF Paths
  <2>2. I!UpsertPages([i \in DOMAIN artifact |-> Blank]) /\ UNCHANGED request
    BY <1>2 DEF I!MaterializePages
  <2> QED BY <1>1, <2>1, <2>2, UpsertKeeps
<1>3. CASE I!MaterializePages(r, refresh) /\ artifact = <<>>
  <2> DEFINE q == [request[r] EXCEPT !.at = "ask", !.path = None]
  <2>1. /\ q \in PageRequests /\ request[r] \in PageRequests
        /\ request' = [request EXCEPT ![r] = q] /\ UNCHANGED <<pages, ids, cached, renumbered>>
    <3>1. /\ request' = [request EXCEPT ![r].at = "ask", ![r].path = None]
          /\ UNCHANGED <<pages, ids, cached, renumbered>>
      BY <1>3 DEF I!MaterializePages, I!Goes
    <3> QED BY <1>1, <3>1, GoesOn
  <2>2. q.at = "ask"
    BY <2>1 DEF PageRequests
  <2> HIDE DEF q
  <2> QED BY <1>1, <2>1, <2>2, QuietMoves DEF Loading, Writing
<1>4. CASE I!StoreList(r)
  <2>1. I!UpsertPages(request[r].list) /\ request' = [request EXCEPT ![r] = I!NoRequest]
    BY <1>4 DEF I!StoreList, I!Ends
  <2>2. request[r].list \in Seq(Paths)
    BY <1>1 DEF PageRequests, Paths
  <2>3. /\ request' \in [Requests -> PageRequests]
        /\ \A s \in Requests : request'[s] = request[s] \/ request'[s].at = "idle"
    BY <1>1, <2>1, NoPageRequest
  <2> QED BY <1>1, <2>1, <2>2, <2>3, UpsertKeeps
<1> QED BY <1>2, <1>3, <1>4

\* A file is written: again, if a row or another request names it.
LEMMA TruncateKeeps ==
    ASSUME ImageInv, NEW r \in Requests, I!Truncate(r)
    PROVE  ImageInv'
<1> DEFINE path == request[r].page.address
           q == [request[r] EXCEPT !.at = "writing", !.path = None]
<1>1. /\ request[r].at = "write" /\ torn' = torn \cup {path}
      /\ request' = [request EXCEPT ![r].at = "writing", ![r].path = None]
      /\ rewritten' = IF path \in I!Range(cached) \/ I!WritersOf(path) # {} THEN rewritten \cup {path} ELSE rewritten
      /\ UNCHANGED <<published, artifact, pages, ids, cached, renumbered>>
  BY DEF I!Truncate, I!Goes, I!Unlisted
<1>2. /\ published \in Seq(Addresses) /\ artifact \in Seq(Addresses) /\ request \in [Requests -> PageRequests]
      /\ cached \in [I!Indexes -> {None} \cup Paths] /\ torn \subseteq Paths /\ request[r].page \in I!PageRows
  BY <1>1 DEF ImageInv, ImageTyped, Loading
<1>3. path \in Paths
  BY <1>2 DEF I!PageRows, Paths
<1>4. request[r] \in PageRequests /\ q \in PageRequests /\ request' = [request EXCEPT ![r] = q]
  BY <1>1, <1>2, GoesOn DEF Loading
<1>5. q.at = "writing" /\ q.index = request[r].index /\ q.page = request[r].page
  BY <1>4 DEF PageRequests
<1> HIDE DEF q
<1>6. \A s \in Requests : request'[s] = IF s = r THEN q ELSE request[s]
  BY <1>2, <1>4
<1>7. ImageTyped' /\ RowsAgree' /\ I!EvictionIsHarmless' /\ I!CachedIsThePage'
  <2>1. request[r].at \in Loading /\ torn' \subseteq Paths
    BY <1>1, <1>2, <1>3 DEF Loading
  <2> QED BY <1>1, <1>2, <1>4, <1>5, <2>1, LoadMoves
<1>8. \A s \in Requests \ {r} : request[s].at \in Writing /\ request[s].page.address = path => path \in rewritten'
  BY <1>1 DEF I!WritersOf, Writing
<1>9. WritersMeet'
  <2>1. rewritten \subseteq rewritten'
    BY <1>1
  <2>2. ASSUME NEW s \in Requests, NEW u \in Requests, s # u, request'[s].at \in Writing, request'[u].at \in Writing,
               request'[s].page.address = request'[u].page.address
        PROVE  request'[s].page.address \in rewritten'
    BY <1>5, <1>6, <1>8, <2>1, <2>2 DEF ImageInv, WritersMeet
  <2>3. ASSUME NEW s \in Requests, request'[s].at = "record", request'[s].page.address \in torn'
        PROVE  request'[s].page.address \in rewritten'
    <3>1. s # r /\ request'[s] = request[s] /\ request[s].at \in Writing
      BY <1>5, <1>6, <2>3 DEF Writing
    <3> QED BY <1>1, <1>8, <2>1, <2>3, <3>1 DEF ImageInv, WritersMeet
  <2> QED BY <2>2, <2>3 DEF WritersMeet
<1>10. I!NamedIsWhole'
  <2> SUFFICES ASSUME NEW i \in I!Indexes, cached[i] \in torn' PROVE cached[i] \in rewritten'
    BY <1>1 DEF I!NamedIsWhole
  <2>1. cached[i] \in I!Range(cached)
    BY <1>2 DEF I!Range
  <2> QED BY <1>1, <2>1 DEF ImageInv, I!NamedIsWhole
<1> QED BY <1>7, <1>9, <1>10 DEF ImageInv

LEMMA FillKeeps ==
    ASSUME ImageInv, NEW r \in Requests, I!Fill(r)
    PROVE  ImageInv'
<1> DEFINE path == request[r].page.address
<1>1. /\ request[r].at = "writing"
      /\ UNCHANGED <<published, artifact, pages, ids, cached, renumbered, rewritten>>
      /\ \/ I!Goes(r, "record") /\ torn' = torn \ {path}
         \/ I!Goes(r, "record") /\ torn' = torn /\ path \in rewritten
         \/ request' = [request EXCEPT ![r].at = "failed", ![r].refused = TRUE] /\ torn' = torn
  BY DEF I!Fill, I!Unlisted, I!WritersOf, ImageInv, WritersMeet, Writing
<1>2. /\ published \in Seq(Addresses) /\ artifact \in Seq(Addresses) /\ request \in [Requests -> PageRequests]
      /\ torn \subseteq Paths /\ torn' \subseteq torn
  BY <1>1 DEF ImageInv, ImageTyped
<1>3. CASE request' = [request EXCEPT ![r].at = "failed", ![r].refused = TRUE]
  <2> DEFINE q == [request[r] EXCEPT !.at = "failed", !.refused = TRUE]
  <2>1. request[r] \in PageRequests /\ q \in PageRequests /\ request' = [request EXCEPT ![r] = q]
    BY <1>2, <1>3, GoesOn
  <2>2. q.at = "failed" /\ q.refused /\ q.index = request[r].index /\ q.page = request[r].page
    BY <2>1 DEF PageRequests
  <2> HIDE DEF q
  <2>3. request[r].at \in Loading /\ q.at \notin Writing
    BY <1>1, <2>2 DEF Loading, Writing
  <2> QED BY <1>1, <1>2, <2>1, <2>2, <2>3, QuietMoves
<1>4. CASE I!Goes(r, "record") /\ (path \notin torn' \/ path \in rewritten)
  <2> DEFINE q == [request[r] EXCEPT !.at = "record", !.path = None]
  <2>1. request[r] \in PageRequests /\ q \in PageRequests /\ request' = [request EXCEPT ![r] = q]
    BY <1>2, <1>4, GoesOn DEF I!Goes, Loading
  <2>2. q.at = "record" /\ q.index = request[r].index /\ q.page = request[r].page
    BY <2>1 DEF PageRequests
  <2> HIDE DEF q
  <2>3. \A s \in Requests : request'[s] = IF s = r THEN q ELSE request[s]
    BY <1>2, <2>1
  <2>4. ImageTyped' /\ RowsAgree' /\ I!EvictionIsHarmless' /\ I!CachedIsThePage'
    <3>1. request[r].at \in Loading /\ torn' \subseteq Paths
      BY <1>1, <1>2 DEF Loading
    <3> QED BY <1>1, <1>2, <2>1, <2>2, <3>1, LoadMoves
  <2>5. WritersMeet'
    <3>1. \A s \in Requests : /\ request'[s].at \in Writing => request[s].at \in Writing
                              /\ request'[s].at \in Writing => request'[s].page = request[s].page
                              /\ request'[s].at = "record" /\ s # r => request[s].at = "record"
      BY <1>1, <2>2, <2>3 DEF Writing
    <3>2. \A s, u \in Requests :
             s # u /\ request'[s].at \in Writing /\ request'[u].at \in Writing
                   /\ request'[s].page.address = request'[u].page.address => request'[s].page.address \in rewritten'
      BY <1>1, <3>1 DEF ImageInv, WritersMeet
    <3>3. \A s \in Requests :
             request'[s].at = "record" /\ request'[s].page.address \in torn' => request'[s].page.address \in rewritten'
      BY <1>1, <1>2, <1>4, <3>1 DEF ImageInv, WritersMeet, Writing
    <3> QED BY <3>2, <3>3 DEF WritersMeet
  <2>6. I!NamedIsWhole'
    BY <1>1, <1>2 DEF ImageInv, I!NamedIsWhole
  <2> QED BY <2>4, <2>5, <2>6 DEF ImageInv
<1> QED BY <1>1, <1>3, <1>4

\* The row is for the page the request has read, whatever it is called by now.
LEMMA RecordKeeps ==
    ASSUME ImageInv, NEW r \in Requests, I!SetPageCache(r)
    PROVE  ImageInv'
<1> DEFINE path == request[r].page.address
           i == request[r].index
<1>1. request[r].at = "record" /\ UNCHANGED <<published, artifact, pages, ids, renumbered, torn, rewritten>>
  BY DEF I!SetPageCache, I!Unlisted, I!Unfiled
<1>2. /\ published \in Seq(Addresses) /\ artifact \in Seq(Addresses) /\ request \in [Requests -> PageRequests]
      /\ cached \in [I!Indexes -> {None} \cup Paths]
      /\ request[r].page \in I!PageRows /\ i \in I!Indexes
  BY <1>1 DEF ImageInv, ImageTyped, Loading
<1>3. path \in Paths /\ path # None
  BY <1>2, ImageNone DEF I!PageRows, Paths
<1>4. CASE I!Stands(r)
  <2>1. /\ cached' = [cached EXCEPT ![i] = path]
        /\ request' = [request EXCEPT ![r] = [I!NoRequest EXCEPT !.at = "sweep"]]
    BY <1>4 DEF I!SetPageCache, I!Recorded
  <2>2. [I!NoRequest EXCEPT !.at = "sweep"] \in PageRequests /\ [I!NoRequest EXCEPT !.at = "sweep"].at = "sweep"
    BY NoPageRequest, GoesOn DEF I!NoRequest
  <2>3. /\ \A s \in Requests : request'[s].at \in Loading => request'[s] = request[s]
        /\ request' \in [Requests -> PageRequests]
    BY <1>2, <2>1, <2>2 DEF Loading
  <2>4. ImageTyped'
    BY <1>1, <1>2, <1>3, <2>1, <2>3 DEF ImageInv, ImageTyped
  <2>5. RowsAgree' /\ I!EvictionIsHarmless'
    BY <1>1, <2>3 DEF ImageInv, RowsAgree, I!EvictionIsHarmless, I!Stands, Loading
  <2>6. WritersMeet'
    BY <1>1, <2>3 DEF ImageInv, WritersMeet, Writing, Loading
  <2>7. i \notin renumbered => pages[i] # None /\ pages[i].address = path
    BY <1>1, <1>4 DEF ImageInv, RowsAgree, I!Stands, Loading
  <2>8. I!CachedIsThePage'
    BY <1>1, <1>2, <2>1, <2>7 DEF ImageInv, I!CachedIsThePage
  <2>9. path \in torn => path \in rewritten
    BY <1>1 DEF ImageInv, WritersMeet
  <2>10. I!NamedIsWhole'
    BY <1>1, <1>2, <2>1, <2>9 DEF ImageInv, I!NamedIsWhole
  <2> QED BY <2>4, <2>5, <2>6, <2>8, <2>10 DEF ImageInv
<1>5. CASE ~I!Stands(r)
  <2> DEFINE q == [request[r] EXCEPT !.at = "failed", !.path = None]
  <2>1. /\ request[r] \in PageRequests /\ q \in PageRequests /\ request' = [request EXCEPT ![r] = q]
        /\ UNCHANGED cached
    BY <1>2, <1>5, GoesOn DEF I!SetPageCache, I!Goes, Loading
  <2>2. q.at = "failed" /\ q.index = request[r].index /\ q.page = request[r].page
    BY <2>1 DEF PageRequests
  <2> HIDE DEF q
  <2>3. request[r].at \in Loading /\ q.at \notin Writing
    BY <1>1, <2>2 DEF Loading, Writing
  <2> QED BY <1>1, <1>2, <1>5, <2>1, <2>2, <2>3, QuietMoves
<1> QED BY <1>4, <1>5

LEMMA OthersKeep ==
    ASSUME ImageInv, (\E list \in I!Lists : I!Renumber(list)) \/ I!Download \/ I!LoseArtifact \/ I!Restart
    PROVE  ImageInv'
<1>1. published \in Seq(Addresses) /\ artifact \in Seq(Addresses) /\ request \in [Requests -> PageRequests]
  BY DEF ImageInv, ImageTyped
<1>2. CASE (\E list \in I!Lists : I!Renumber(list)) \/ I!LoseArtifact
  <2>1. /\ UNCHANGED <<pages, ids, cached, request, renumbered, torn, rewritten>>
        /\ published' \in Seq(Addresses) /\ artifact' \in Seq(Addresses)
    <3>1. CASE I!LoseArtifact
      BY <1>1, <3>1 DEF I!LoseArtifact, I!Unfiled
    <3>2. ASSUME NEW list \in I!Lists, I!Renumber(list)
          PROVE  /\ UNCHANGED <<artifact, pages, ids, cached, request, renumbered, torn, rewritten>>
                 /\ published' = list /\ list \in Seq(Addresses)
      BY <3>2, ListsAreSequences DEF I!Renumber, I!Unfiled
    <3> QED BY <1>1, <1>2, <3>1, <3>2
  <2> QED BY <2>1 DEF ImageInv, ImageTyped, RowsAgree, WritersMeet, I!EvictionIsHarmless, I!CachedIsThePage,
                      I!NamedIsWhole, I!Stands
<1>3. CASE I!Download
  <2>1. /\ artifact' = published /\ I!UpsertPages(published)
        /\ UNCHANGED <<published, request, torn, rewritten>>
    BY <1>3 DEF I!Download, I!Unfiled
  <2>2. published \in Seq(Paths)
    BY <1>1 DEF Paths
  <2> QED BY <1>1, <2>1, <2>2, UpsertKeeps
<1>4. CASE I!Restart
  <2>1. /\ request' = [r \in Requests |-> I!NoRequest] /\ torn' \subseteq torn
        /\ UNCHANGED <<published, artifact, pages, ids, cached, renumbered, rewritten>>
    BY <1>4 DEF I!Restart
  <2>2. \A r \in Requests : request'[r] = I!NoRequest
    BY <2>1
  <2>3. ImageTyped'
    BY <2>1, <2>2, NoPageRequest DEF ImageInv, ImageTyped, Loading
  <2>4. \A r \in Requests : request'[r].at = "idle"
    BY <2>2, NoPageRequest
  <2>5. RowsAgree' /\ WritersMeet' /\ I!EvictionIsHarmless'
    BY <2>4 DEF RowsAgree, WritersMeet, I!EvictionIsHarmless, Loading, Writing
  <2>6. I!CachedIsThePage' /\ I!NamedIsWhole'
    BY <2>1 DEF ImageInv, I!CachedIsThePage, I!NamedIsWhole
  <2> QED BY <2>3, <2>5, <2>6 DEF ImageInv
<1> QED BY <1>2, <1>3, <1>4

\* Each step of the images keeps their invariant.
LEMMA ImagesKeep == ASSUME ImageInv, I!ImageNext PROVE ImageInv'
<1>1. ASSUME NEW r \in Requests, I!RequestStep(r) PROVE ImageInv'
  <2>1. \/ I!AskSource(r) \/ I!ReadCached(r) \/ I!FetchImage(r) \/ I!AfterWrite(r) \/ I!Sweep(r) \/ I!Close(r)
        \/ I!StoreList(r) \/ I!Truncate(r) \/ I!Fill(r) \/ I!SetPageCache(r)
    BY <1>1 DEF I!RequestStep
  <2> QED BY <2>1, ReadingKeeps, ListKeeps, TruncateKeeps, FillKeeps, RecordKeeps
<1> QED BY <1>1, OpenPageKeeps, ListKeeps, OthersKeep DEF I!ImageNext

-----------------------------------------------------------------------------
(* Covers                                                                  *)

Places == Addresses \cup {None}
Rows == [cover : Places, custom : Places, path : Places]
Transfers == {"again", "fetch", "store", "record"}
Views == [at : Transfers \cup {"idle", "gate"}, row : Rows \cup {None}]
Writes == [at : {"idle", "write", "drop"}, field : {"cover", "custom", "other", None}, address : Places, read : Places]
Busy == {v \in Viewers : viewer[v].at \notin {"idle", "gate"}}

CoverTyped ==
    /\ title \in Rows /\ viewer \in [Viewers -> Views] /\ writer \in [Writers -> Writes]
    /\ crossed \in BOOLEAN /\ unheard \in BOOLEAN
    /\ \A w \in Writers : writer[w].at # "idle" => writer[w].field \in {"cover", "custom", "other"}

\* A file that is about to be named, or is, was written.
CoversAreFiles ==
    /\ \A v \in Viewers : viewer[v].at # "idle" => viewer[v].row \in Rows /\ C!Address(viewer[v].row) # None
    /\ \A v \in Viewers : viewer[v].at = "record" => C!Address(viewer[v].row) \in files
    /\ title.path # None => title.path \in files

\* As long as no write of the row met another, a fetch or a crash: one at a time, of what
\* the row still says; who fetches does so for the address of the row; and what is kept is
\* of that address, or about to be dropped, unless an import or a restore changed it unheard.
CoversFollow ==
    ~crossed =>
        /\ \A w, u \in Writers : writer[w].at # "idle" /\ writer[u].at # "idle" => w = u
        /\ \A w \in Writers : writer[w].at = "write" =>
              writer[w].read = IF writer[w].field = "cover" THEN title.cover ELSE title.custom
        /\ \A v \in Viewers : viewer[v].at # "idle" => C!Address(viewer[v].row) = C!Address(title)
        /\ title.path \in {None, C!Address(title)} \/ (\E w \in Writers : writer[w].at = "drop") \/ unheard

SlotsCounted == inUse = Cardinality(Busy) /\ IsFiniteSet(Busy) /\ inUse <= Slots

CoverInv == CoverTyped /\ CoversAreFiles /\ CoversFollow /\ SlotsCounted

LEMMA CoverNone == None \notin Addresses /\ Slots \in Nat /\ Slots > 0
BY KeptAssumption DEF C!CoverAssumption

\* The sizes of sets are the same in the module of the covers.
LEMMA SameSets == \A S : C!Cardinality(S) = Cardinality(S)
BY DEF C!IsFiniteSet, IsFiniteSet, C!Cardinality, Cardinality

LEMMA CoverSafe == CoverInv => C!CoverFollows /\ C!SlotsAreReturned
<1> SUFFICES ASSUME CoverInv PROVE C!CoverFollows /\ C!SlotsAreReturned
  OBVIOUS
<1>1. C!CoverFollows
  BY DEF CoverInv, CoversAreFiles, CoversFollow, C!CoverFollows, C!Settled
<1>2. C!SlotsAreReturned
  BY SameSets DEF CoverInv, SlotsCounted, Busy, C!SlotsAreReturned
<1> QED BY <1>1, <1>2

LEMMA CoversBegin == Init => CoverInv
<1> SUFFICES ASSUME Init PROVE CoverInv
  OBVIOUS
<1>1. /\ \A v \in Viewers : viewer[v] = C!NoView
      /\ \A w \in Writers : writer[w] = C!NoWrite
      /\ title = [cover |-> None, custom |-> None, path |-> None] /\ inUse = 0
      /\ ~crossed /\ crossed \in BOOLEAN /\ unheard \in BOOLEAN
  BY DEF Init, C!CoverInit
<1>2. CoverTyped
  BY <1>1 DEF CoverTyped, C!NoView, C!NoWrite, Views, Writes, Rows, Places, Init, C!CoverInit
<1>3. CoversAreFiles /\ CoversFollow
  BY <1>1 DEF CoversAreFiles, CoversFollow, C!NoView, C!NoWrite
<1>4. Busy = {}
  BY <1>1 DEF Busy, C!NoView
<1>5. SlotsCounted
  BY <1>1, <1>4, FS_EmptySet, CoverNone DEF SlotsCounted
<1> QED BY <1>2, <1>3, <1>5 DEF CoverInv

\* A slot is taken and given back by one request.
LEMMA SlotsKeep ==
    ASSUME CoverInv,
           \/ Busy' = Busy /\ inUse' = inUse
           \/ \E v \in Viewers : v \notin Busy /\ Busy' = Busy \cup {v} /\ inUse' = inUse + 1 /\ inUse < Slots
           \/ \E v \in Viewers : v \in Busy /\ Busy' = Busy \ {v} /\ inUse' = inUse - 1
    PROVE  SlotsCounted'
<1>1. IsFiniteSet(Busy) /\ inUse = Cardinality(Busy) /\ inUse \in Nat /\ inUse <= Slots /\ Slots \in Nat
  BY FS_CardinalityType, CoverNone DEF CoverInv, SlotsCounted
<1>2. CASE Busy' = Busy /\ inUse' = inUse
  BY <1>1, <1>2 DEF SlotsCounted
<1>3. ASSUME NEW v \in Viewers, v \notin Busy, Busy' = Busy \cup {v}, inUse' = inUse + 1, inUse < Slots
      PROVE  SlotsCounted'
  <2>1. IsFiniteSet(Busy') /\ Cardinality(Busy') = Cardinality(Busy) + 1
    BY <1>1, <1>3, FS_AddElement
  <2> QED BY <1>1, <1>3, <2>1 DEF SlotsCounted
<1>4. ASSUME NEW v \in Viewers, v \in Busy, Busy' = Busy \ {v}, inUse' = inUse - 1
      PROVE  SlotsCounted'
  <2>1. IsFiniteSet(Busy') /\ Cardinality(Busy') = Cardinality(Busy) - 1
    BY <1>1, <1>4, FS_RemoveElement
  <2> QED BY <1>1, <1>4, <2>1 DEF SlotsCounted
<1> QED BY <1>2, <1>3, <1>4

LEMMA TurnsTo ==
    ASSUME viewer \in [Viewers -> Views], NEW v \in Viewers, NEW at \in Transfers, C!Views(v, at)
    PROVE  /\ viewer' \in [Viewers -> Views] /\ \A u \in Viewers \ {v} : viewer'[u] = viewer[u]
           /\ viewer'[v].at = at /\ viewer'[v].row = viewer[v].row
BY DEF C!Views, Views

LEMMA LeavesView ==
    ASSUME viewer \in [Viewers -> Views], NEW v \in Viewers, C!Leaves(v)
    PROVE  /\ viewer' \in [Viewers -> Views] /\ \A u \in Viewers \ {v} : viewer'[u] = viewer[u]
           /\ viewer'[v].at = "idle" /\ inUse' = inUse - 1
BY DEF C!Leaves, C!NoView, Views

\* A request for the cover goes on with the row it has read, or ends.
LEMMA ViewsKeep ==
    ASSUME CoverInv, NEW v \in Viewers, C!View(v) \/ C!ViewerStep(v)
    PROVE  CoverInv'
<1>1. /\ viewer \in [Viewers -> Views] /\ title \in Rows /\ UNCHANGED <<writer, crossed, unheard>>
      /\ writer \in [Writers -> Writes] /\ crossed \in BOOLEAN /\ unheard \in BOOLEAN
  BY DEF CoverInv, CoverTyped, C!View, C!ViewerStep, C!TakeSlot, C!LookAgain, C!FetchCover, C!WriteCover,
         C!SetMangaCover, C!Unwritten
<1>2. /\ viewer' \in [Viewers -> Views] /\ \A u \in Viewers \ {v} : viewer'[u] = viewer[u]
      /\ \/ /\ viewer[v].at = "idle" /\ viewer'[v].at = "gate" /\ viewer'[v].row = title
            /\ C!Address(title) # None /\ UNCHANGED <<title, files, inUse>>
         \/ /\ viewer[v].at = "gate" /\ viewer'[v].at = "again" /\ viewer'[v].row = viewer[v].row
            /\ inUse < Slots /\ inUse' = inUse + 1 /\ UNCHANGED <<title, files>>
         \/ /\ viewer[v].at \in {"again", "fetch"} /\ viewer'[v].at \in {"fetch", "store"}
            /\ viewer'[v].row = viewer[v].row /\ UNCHANGED <<title, files, inUse>>
         \/ /\ viewer[v].at = "store" /\ viewer'[v].at = "record" /\ viewer'[v].row = viewer[v].row
            /\ files' = files \cup {C!Address(viewer[v].row)} /\ UNCHANGED <<title, inUse>>
         \/ /\ viewer[v].at \in Transfers /\ viewer'[v].at = "idle" /\ inUse' = inUse - 1 /\ UNCHANGED files
            /\ \/ UNCHANGED title
               \/ viewer[v].at = "record" /\ title' = [title EXCEPT !.path = C!Address(viewer[v].row)]
  <2>1. CASE C!View(v)
    BY <1>1, <2>1 DEF C!View, Views
  <2>2. CASE C!TakeSlot(v)
    BY <1>1, <2>2, TurnsTo DEF C!TakeSlot, Transfers
  <2>3. CASE C!LookAgain(v)
    BY <1>1, <2>3, TurnsTo, LeavesView DEF C!LookAgain, Transfers
  <2>4. CASE C!FetchCover(v)
    BY <1>1, <2>4, TurnsTo, LeavesView DEF C!FetchCover, Transfers
  <2>5. CASE C!WriteCover(v)
    BY <1>1, <2>5, TurnsTo DEF C!WriteCover, Transfers
  <2>6. CASE C!SetMangaCover(v)
    BY <1>1, <2>6, LeavesView DEF C!SetMangaCover, Transfers
  <2> QED BY <2>1, <2>2, <2>3, <2>4, <2>5, <2>6 DEF C!ViewerStep
<1>3. /\ \A u \in Viewers : viewer'[u].at # "idle" =>
            viewer'[u].row \in Rows /\ C!Address(viewer'[u].row) # None
      /\ \A u \in Viewers : viewer'[u].at # "idle" =>
            viewer'[u].row = title \/ (viewer[u].at # "idle" /\ viewer'[u].row = viewer[u].row)
      /\ \A u \in Viewers : viewer'[u].at = "record" => C!Address(viewer'[u].row) \in files'
  <2>1. title \in Rows /\ \A u \in Viewers : viewer[u].at # "idle" =>
            viewer[u].row \in Rows /\ C!Address(viewer[u].row) # None
    BY <1>1 DEF CoverInv, CoversAreFiles
  <2>2. \A u \in Viewers : viewer'[u].at # "idle" =>
            \/ viewer'[u].row = title /\ C!Address(title) # None
            \/ viewer[u].at # "idle" /\ viewer'[u].row = viewer[u].row
    BY <1>2 DEF Transfers
  <2>3. \A u \in Viewers : viewer'[u].at = "record" => C!Address(viewer'[u].row) \in files'
    BY <1>2 DEF CoverInv, CoversAreFiles
  <2>4. ASSUME NEW u \in Viewers, viewer'[u].at # "idle"
        PROVE  viewer'[u].row \in Rows /\ C!Address(viewer'[u].row) # None
    <3>1. CASE viewer'[u].row = title /\ C!Address(title) # None
      BY <2>1, <3>1
    <3>2. CASE viewer[u].at # "idle" /\ viewer'[u].row = viewer[u].row
      BY <2>1, <3>2
    <3> QED BY <2>2, <2>4, <3>1, <3>2
  <2>5. \A u \in Viewers : viewer'[u].at # "idle" =>
            viewer'[u].row = title \/ (viewer[u].at # "idle" /\ viewer'[u].row = viewer[u].row)
    BY <2>2
  <2> QED BY <2>3, <2>4, <2>5
<1>5. /\ files \subseteq files'
      /\ \/ title' = title
         \/ viewer[v].at = "record" /\ title' = [title EXCEPT !.path = C!Address(viewer[v].row)]
  BY <1>2
<1>6. /\ C!Address(title') = C!Address(title) /\ title' \in Rows
      /\ title'.cover = title.cover /\ title'.custom = title.custom
      /\ title'.path # None => title'.path \in files'
  BY <1>1, <1>5 DEF CoverInv, CoversAreFiles, Rows, Places, C!Address
<1>7. CoverTyped'
  BY <1>1, <1>2, <1>6 DEF CoverInv, CoverTyped
<1>8. CoversAreFiles'
  BY <1>3, <1>6 DEF CoversAreFiles
<1>9. CoversFollow'
  <2> SUFFICES ASSUME ~crossed PROVE CoversFollow'
    BY <1>1 DEF CoversFollow
  <2>1. \A u \in Viewers : viewer'[u].at # "idle" => C!Address(viewer'[u].row) = C!Address(title')
    BY <1>3, <1>6 DEF CoverInv, CoversFollow
  <2>2. title'.path \in {None, C!Address(title')} \/ (\E w \in Writers : writer'[w].at = "drop") \/ unheard'
    BY <1>1, <1>5, <1>6 DEF CoverInv, CoversFollow, Rows
  <2> QED BY <1>1, <1>6, <2>1, <2>2 DEF CoverInv, CoversFollow
<1>10. SlotsCounted'
  <2>1. \A u \in Viewers \ {v} : u \in Busy' <=> u \in Busy
    BY <1>2 DEF Busy
  <2>2. \/ (v \in Busy' <=> v \in Busy) /\ inUse' = inUse
        \/ v \notin Busy /\ v \in Busy' /\ inUse' = inUse + 1 /\ inUse < Slots
        \/ v \in Busy /\ v \notin Busy' /\ inUse' = inUse - 1
    BY <1>2 DEF Busy, Transfers
  <2>3. Busy \subseteq Viewers /\ Busy' \subseteq Viewers
    BY DEF Busy
  <2>4. \/ Busy' = Busy /\ inUse' = inUse
        \/ v \notin Busy /\ Busy' = Busy \cup {v} /\ inUse' = inUse + 1 /\ inUse < Slots
        \/ v \in Busy /\ Busy' = Busy \ {v} /\ inUse' = inUse - 1
    BY <2>1, <2>2, <2>3
  <2> QED BY <2>4, SlotsKeep
<1> QED BY <1>7, <1>8, <1>9, <1>10 DEF CoverInv

LEMMA ReadRowKeeps ==
    ASSUME CoverInv, NEW w \in Writers, NEW field \in {"cover", "custom", "other"}, NEW address \in Places,
           C!ReadRow(w, field, address)
    PROVE  CoverInv'
<1> DEFINE q == [at |-> "write", field |-> field, address |-> address,
                 read |-> IF field = "cover" THEN title.cover ELSE title.custom]
<1>1. /\ writer[w].at = "idle" /\ writer' = [writer EXCEPT ![w] = q]
      /\ crossed' = (crossed \/ \E u \in Writers : writer[u].at # "idle")
      /\ UNCHANGED <<title, files, inUse, viewer, unheard>>
  BY DEF C!ReadRow, C!Unviewed
<1>2. title \in Rows /\ writer \in [Writers -> Writes]
  BY DEF CoverInv, CoverTyped
<1>3. q \in Writes
  BY <1>2 DEF Rows, Writes
<1>4. \A u \in Writers : writer'[u] = IF u = w THEN q ELSE writer[u]
  BY <1>1, <1>2
<1>5. CoverTyped' /\ CoversAreFiles'
  BY <1>1, <1>2, <1>3, <1>4 DEF CoverInv, CoverTyped, CoversAreFiles
<1>6. CoversFollow'
  <2> SUFFICES ASSUME ~crossed' PROVE CoversFollow'
    BY DEF CoversFollow
  <2>1. ~crossed /\ \A u \in Writers : writer[u].at = "idle"
    BY <1>1 DEF CoverInv, CoverTyped
  <2> QED BY <1>1, <1>4, <2>1 DEF CoverInv, CoversFollow
<1>7. SlotsCounted'
  BY <1>1, SlotsKeep DEF Busy
<1> QED BY <1>5, <1>6, <1>7 DEF CoverInv

LEMMA WriteRowKeeps ==
    ASSUME CoverInv, NEW w \in Writers, C!WriteRow(w)
    PROVE  CoverInv'
<1> DEFINE q == IF C!Replaces(w) THEN [writer[w] EXCEPT !.at = "drop"] ELSE C!NoWrite
<1>1. /\ writer[w].at = "write" /\ writer' = [writer EXCEPT ![w] = q]
      /\ crossed' = (crossed \/ \E v \in Viewers : viewer[v].at # "idle" /\ C!Address(viewer[v].row) # C!Address(title'))
      /\ UNCHANGED <<files, inUse, viewer, unheard>>
  BY DEF C!WriteRow, C!Meets, C!Unviewed, CoverInv, CoverTyped
<1>2. title \in Rows /\ writer \in [Writers -> Writes] /\ writer[w] \in Writes
      /\ writer[w].field \in {"cover", "custom", "other"} /\ crossed \in BOOLEAN /\ unheard \in BOOLEAN
  BY <1>1 DEF CoverInv, CoverTyped
<1>3. \/ writer[w].field = "cover" /\ title' = [title EXCEPT !.cover = writer[w].address]
      \/ writer[w].field = "custom" /\ title' = [title EXCEPT !.custom = writer[w].address]
      \/ writer[w].field = "other" /\ title' = [title EXCEPT !.custom = writer[w].read]
  BY <1>2 DEF C!WriteRow
<1>4. title' \in Rows /\ title'.path = title.path
  BY <1>2, <1>3 DEF Rows, Writes
<1>5. q \in Writes /\ q.at # "write" /\ (q.at = "drop" <=> C!Replaces(w))
      /\ (q.at # "idle" => q.field \in {"cover", "custom", "other"})
  BY <1>2 DEF Writes, Places, C!NoWrite
<1> HIDE DEF q
<1>6. \A u \in Writers : writer'[u] = IF u = w THEN q ELSE writer[u]
  BY <1>1, <1>2
<1>7. CoverTyped' /\ CoversAreFiles'
  BY <1>1, <1>2, <1>4, <1>5, <1>6 DEF CoverInv, CoverTyped, CoversAreFiles
<1>8. CoversFollow'
  <2> SUFFICES ASSUME ~crossed' PROVE CoversFollow'
    BY DEF CoversFollow
  <2>1. /\ ~crossed /\ \A v \in Viewers : viewer[v].at # "idle" => C!Address(viewer[v].row) = C!Address(title')
    BY <1>1, <1>2
  <2>2. \A u \in Writers : u # w => writer[u].at = "idle" /\ writer'[u].at = "idle"
    BY <1>1, <1>6, <2>1 DEF CoverInv, CoversFollow
  <2>3. /\ title.path \in {None, C!Address(title)} \/ unheard
        /\ writer[w].read = IF writer[w].field = "cover" THEN title.cover ELSE title.custom
    BY <1>1, <2>1, <2>2 DEF CoverInv, CoversFollow
  <2>4. title.path \in {None, C!Address(title')} \/ C!Replaces(w) \/ unheard
    <3>1. CASE writer[w].field = "cover"
      BY <1>2, <1>3, <2>3, <3>1 DEF C!Replaces, C!Address, Rows
    <3>2. CASE writer[w].field = "custom"
      BY <3>2 DEF C!Replaces
    <3>3. CASE writer[w].field = "other"
      <4>1. C!Address(title') = C!Address(title)
        BY <1>2, <1>3, <2>3, <3>3 DEF C!Address, Rows
      <4> QED BY <2>3, <4>1
    <3> QED BY <1>2, <3>1, <3>2, <3>3
  <2>5. title'.path \in {None, C!Address(title')} \/ (\E u \in Writers : writer'[u].at = "drop") \/ unheard'
    BY <1>1, <1>4, <1>5, <1>6, <2>4
  <2> QED BY <1>1, <1>5, <1>6, <2>1, <2>2, <2>5 DEF CoversFollow
<1>9. SlotsCounted'
  BY <1>1, SlotsKeep DEF Busy
<1> QED BY <1>7, <1>8, <1>9 DEF CoverInv

LEMMA DropOrCrashKeeps ==
    ASSUME CoverInv, (\E w \in Writers : C!DropCover(w)) \/ C!Crash
    PROVE  CoverInv'
<1>1. title \in Rows /\ writer \in [Writers -> Writes] /\ C!NoWrite \in Writes /\ C!NoView \in Views
  BY DEF CoverInv, CoverTyped, C!NoWrite, Writes, C!NoView, Views, Places
<1>2. ASSUME NEW w \in Writers, C!DropCover(w) PROVE CoverInv'
  <2>1. /\ writer[w].at = "drop" /\ title' = [title EXCEPT !.path = None]
        /\ writer' = [writer EXCEPT ![w] = C!NoWrite] /\ unheard' = FALSE
        /\ UNCHANGED <<crossed, files, inUse, viewer>>
    BY <1>2 DEF C!DropCover, C!Unviewed
  <2>2. /\ title' \in Rows /\ title'.path = None /\ title'.cover = title.cover /\ title'.custom = title.custom
        /\ C!Address(title') = C!Address(title)
    BY <1>1, <2>1 DEF Rows, Places, C!Address
  <2>3. \A u \in Writers : writer'[u] = IF u = w THEN C!NoWrite ELSE writer[u]
    BY <1>1, <2>1
  <2>4. CoverTyped' /\ CoversAreFiles'
    BY <1>1, <2>1, <2>2, <2>3 DEF CoverInv, CoverTyped, CoversAreFiles, C!NoWrite
  <2>5. CoversFollow'
    BY <2>1, <2>2, <2>3 DEF CoverInv, CoversFollow, C!NoWrite
  <2>6. SlotsCounted'
    BY <2>1, SlotsKeep DEF Busy
  <2> QED BY <2>4, <2>5, <2>6 DEF CoverInv
<1>3. CASE C!Crash
  <2>1. /\ crossed' = (crossed \/ \E w \in Writers : writer[w].at = "drop")
        /\ viewer' = [v \in Viewers |-> C!NoView] /\ inUse' = 0 /\ writer' = [w \in Writers |-> C!NoWrite]
        /\ UNCHANGED <<title, files, unheard>>
    BY <1>3 DEF C!Crash
  <2>2. /\ \A v \in Viewers : viewer'[v].at = "idle"
        /\ \A w \in Writers : writer'[w].at = "idle"
    BY <2>1 DEF C!NoView, C!NoWrite
  <2>3. CoverTyped' /\ CoversAreFiles'
    BY <1>1, <2>1, <2>2 DEF CoverInv, CoverTyped, CoversAreFiles
  <2>4. CoversFollow'
    BY <2>1, <2>2 DEF CoverInv, CoverTyped, CoversFollow
  <2>5. Busy' = {}
    BY <2>2 DEF Busy
  <2>6. SlotsCounted'
    BY <2>1, <2>5, FS_EmptySet, CoverNone DEF SlotsCounted
  <2> QED BY <2>3, <2>4, <2>6 DEF CoverInv
<1> QED BY <1>2, <1>3

\* An import or a restore leaves the file of the row, and says so if the cover is another.
LEMMA OverwrittenKeeps ==
    ASSUME CoverInv, NEW row, C!Overwritten(row), row \in Rows, row.path = title.path
    PROVE  CoverInv'
<1>1. /\ title' = row /\ UNCHANGED <<writer, files, inUse, viewer>>
      /\ crossed' = (crossed \/ C!Meets(row) \/ \E w \in Writers : writer[w].at # "idle")
      /\ unheard' = (unheard \/ (title.path # None /\ C!Address(row) # C!Address(title)))
  BY DEF C!Overwritten, C!Unviewed
<1>2. CoverTyped' /\ CoversAreFiles'
  BY <1>1 DEF CoverInv, CoverTyped, CoversAreFiles
<1>3. CoversFollow'
  <2> SUFFICES ASSUME ~crossed' PROVE CoversFollow'
    BY DEF CoversFollow
  <2>1. /\ ~crossed /\ ~C!Meets(row) /\ \A w \in Writers : writer[w].at = "idle"
    BY <1>1 DEF CoverInv, CoverTyped
  <2>2. \A v \in Viewers : viewer[v].at # "idle" => C!Address(viewer[v].row) = C!Address(row)
    BY <2>1 DEF C!Meets
  <2>3. title.path \in {None, C!Address(title)} \/ unheard
    BY <2>1 DEF CoverInv, CoversFollow
  <2>4. row.path \in {None, C!Address(row)} \/ unheard'
    BY <1>1, <2>3
  <2> QED BY <1>1, <2>1, <2>2, <2>4 DEF CoversFollow
<1>4. SlotsCounted'
  BY <1>1, SlotsKeep DEF Busy
<1> QED BY <1>2, <1>3, <1>4 DEF CoverInv

LEMMA ImportsKeep ==
    ASSUME CoverInv, NEW cover \in Places, NEW custom \in Places, C!Restore(cover) \/ C!Import(cover, custom)
    PROVE  CoverInv'
<1>1. title \in Rows
  BY DEF CoverInv, CoverTyped
<1>2. CASE C!Restore(cover)
  <2>1. [title EXCEPT !.cover = cover] \in Rows /\ [title EXCEPT !.cover = cover].path = title.path
    BY <1>1 DEF Rows
  <2> QED BY <1>2, <2>1, OverwrittenKeeps DEF C!Restore
<1>3. CASE C!Import(cover, custom)
  <2> DEFINE row == [title EXCEPT !.cover = IF cover = None THEN @ ELSE cover,
                                  !.custom = IF custom = None THEN @ ELSE custom]
  <2>1. row \in Rows /\ row.path = title.path
    BY <1>1 DEF Rows
  <2>2. C!Overwritten(row)
    BY <1>3 DEF C!Import
  <2> QED BY <2>1, <2>2, OverwrittenKeeps
<1> QED BY <1>2, <1>3

\* Each step of the covers keeps their invariant.
LEMMA CoversKeep == ASSUME CoverInv, C!CoverNext PROVE CoverInv'
<1>1. None \in Places /\ Addresses \cup {None} = Places
  BY DEF Places
<1> QED BY <1>1, ViewsKeep, ReadRowKeeps, WriteRowKeeps, DropOrCrashKeeps, ImportsKeep DEF C!CoverNext, C!WriterStep

-----------------------------------------------------------------------------
(* The catalog                                                             *)

Indices == [Ids -> Entries \cup {None}]
AtWork == {"fetch", "download", "fetched"}
SourceRequests ==
    [at : AtWork \cup {"idle", "read", "keep", "search", "missing"}, id : Ids \cup {None},
     got : Indices \cup {None}, forced : BOOLEAN, listed : BOOLEAN, entry : Entries \cup {None}]

CatalogTyped ==
    /\ listing \in Indices /\ index \in Indices \cup {None}
    /\ binaries \in [Ids -> [Versions -> Digests \cup {None}]]
    /\ client \in [Clients -> SourceRequests]
    /\ \A c \in Clients : client[c].at \in {"keep", "search"} => client[c].got \in Indices
    /\ \A c \in Clients : client[c].at \in AtWork => client[c].id \in Ids /\ client[c].entry \in Entries
    /\ \A c \in Clients : client[c].at = "missing" => client[c].id \in Ids

\* Every entry of an index was given.
Given(ix) == \A i \in Ids : ix[i] # None => <<i, ix[i].version, ix[i].digest>> \in given

\* What anybody holds of an index, and every binary, the catalog has given.
AllGiven ==
    /\ Given(listing) /\ (index # None => Given(index))
    /\ \A c \in Clients : client[c].at \in {"keep", "search"} => Given(client[c].got)
    /\ \A c \in Clients : client[c].at \in AtWork =>
          <<client[c].id, client[c].entry.version, client[c].entry.digest>> \in given
    /\ \A i \in Ids, v \in Versions : binaries[i][v] # None => <<i, v, binaries[i][v]>> \in given

\* What was listed all along is still; and a second look that did not find it says so.
ListedAllAlong ==
    /\ \A c \in Clients : client[c].listed => client[c].id \in Ids /\ listing[client[c].id] # None
    /\ \A c \in Clients :
          client[c].at \in {"keep", "search"} /\ client[c].forced
             /\ client[c].id \in Ids /\ client[c].got[client[c].id] = None => ~client[c].listed
    /\ K!MissingIsUnlisted

\* A binary is fetched only for an entry this build can run, and stays.
RunsHere ==
    /\ \A c \in Clients : client[c].at \in {"download", "fetched"} => K!MeetsRuntimeFloor(client[c].entry)
    /\ \A c \in Clients : client[c].at = "fetched" => binaries[client[c].id][client[c].entry.version] # None

CatalogInv == CatalogTyped /\ AllGiven /\ ListedAllAlong /\ RunsHere

LEMMA CatalogConstants ==
    /\ None \notin Ids /\ None \notin Digests
    /\ \A e \in Entries : e.version \in Versions /\ e.digest \in Digests
BY KeptAssumption DEF K!CatalogAssumption

LEMMA CatalogSafe == CatalogInv => K!MissingIsUnlisted /\ K!BinariesAreVerified
BY DEF CatalogInv, ListedAllAlong, AllGiven, RunsHere, K!BinariesAreVerified, K!MeetsRuntimeFloor

LEMMA NoSourceRequest == K!NoRequest \in SourceRequests /\ K!NoRequest.at = "idle" /\ ~K!NoRequest.listed
BY DEF K!NoRequest, SourceRequests

LEMMA CatalogBegins == Init => CatalogInv
<1> SUFFICES ASSUME Init PROVE CatalogInv
  OBVIOUS
<1>1. /\ \A c \in Clients : client[c].at = "idle" /\ ~client[c].listed
      /\ client \in [Clients -> SourceRequests] /\ listing = [i \in Ids |-> None] /\ index = None
      /\ binaries = [i \in Ids |-> [v \in Versions |-> None]]
  BY NoSourceRequest DEF Init, K!CatalogInit, K!Unlisted
<1>2. CatalogTyped
  BY <1>1 DEF CatalogTyped, Indices, AtWork
<1>3. AllGiven
  BY <1>1 DEF AllGiven, Given, AtWork
<1>4. ListedAllAlong
  BY <1>1 DEF ListedAllAlong, K!MissingIsUnlisted
<1>5. RunsHere
  BY <1>1 DEF RunsHere
<1> QED BY <1>2, <1>3, <1>4, <1>5 DEF CatalogInv

\* A request that turns to something else, while the catalog rests and binaries are only
\* added.
LEMMA ClientTurns ==
    ASSUME CatalogInv, NEW c \in Clients, NEW q \in SourceRequests, client' = [client EXCEPT ![c] = q],
           UNCHANGED <<listing, given>>,
           index' = index \/ (client[c].at = "keep" /\ index' = client[c].got),
           binaries' \in [Ids -> [Versions -> Digests \cup {None}]],
           \A i \in Ids, v \in Versions : binaries'[i][v] # binaries[i][v] =>
              binaries'[i][v] # None /\ <<i, v, binaries'[i][v]>> \in given,
           q.at \in {"keep", "search"} => q.got \in Indices /\ Given(q.got),
           q.at \in AtWork => /\ q.id \in Ids /\ q.entry \in Entries
                              /\ <<q.id, q.entry.version, q.entry.digest>> \in given,
           q.at = "missing" => q.id \in Ids /\ ~q.listed,
           q.listed => q.id \in Ids /\ listing[q.id] # None,
           q.at \in {"keep", "search"} /\ q.forced /\ q.id \in Ids /\ q.got[q.id] = None => ~q.listed,
           q.at \in {"download", "fetched"} => K!MeetsRuntimeFloor(q.entry),
           q.at = "fetched" => binaries'[q.id][q.entry.version] # None
    PROVE  CatalogInv'
<1>1. client' \in [Clients -> SourceRequests] /\ \A d \in Clients : client'[d] = IF d = c THEN q ELSE client[d]
  BY DEF CatalogInv, CatalogTyped
<1>2. index' \in Indices \cup {None} /\ (index' # None => Given(index'))
  BY DEF CatalogInv, CatalogTyped, AllGiven
<1>3. CatalogTyped'
  BY <1>1, <1>2 DEF CatalogInv, CatalogTyped
<1>4. AllGiven'
  <2>1. Given(listing)' /\ (index' # None => Given(index)')
    BY <1>2 DEF CatalogInv, AllGiven, Given
  <2>2. \A d \in Clients : client'[d].at \in {"keep", "search"} => Given(client[d].got)'
    BY <1>1 DEF CatalogInv, AllGiven, Given
  <2>3. \A d \in Clients : client'[d].at \in AtWork =>
          <<client'[d].id, client'[d].entry.version, client'[d].entry.digest>> \in given
    BY <1>1 DEF CatalogInv, AllGiven
  <2>4. \A i \in Ids, v \in Versions : binaries'[i][v] # None => <<i, v, binaries'[i][v]>> \in given
    BY DEF CatalogInv, AllGiven
  <2> QED BY <2>1, <2>2, <2>3, <2>4 DEF AllGiven
<1>5. ListedAllAlong'
  <2>1. \A d \in Clients : client'[d].listed => client'[d].id \in Ids /\ listing'[client'[d].id] # None
    BY <1>1 DEF CatalogInv, ListedAllAlong
  <2>2. \A d \in Clients :
           client'[d].at \in {"keep", "search"} /\ client'[d].forced
              /\ client'[d].id \in Ids /\ client'[d].got[client'[d].id] = None => ~client'[d].listed
    BY <1>1 DEF CatalogInv, ListedAllAlong
  <2>3. \A d \in Clients : client'[d].at = "missing" => ~client'[d].listed
    BY <1>1 DEF CatalogInv, ListedAllAlong, K!MissingIsUnlisted
  <2> QED BY <2>1, <2>2, <2>3 DEF ListedAllAlong, K!MissingIsUnlisted
<1>6. RunsHere'
  <2>1. (\A d \in Clients : client[d].at \in {"download", "fetched"} => K!MeetsRuntimeFloor(client[d].entry))'
    BY <1>1 DEF CatalogInv, RunsHere, K!MeetsRuntimeFloor, K!Below
  <2>2. ASSUME NEW d \in Clients, client'[d].at = "fetched"
        PROVE  binaries'[client'[d].id][client'[d].entry.version] # None
    <3>1. CASE d = c
      BY <1>1, <2>2, <3>1
    <3>2. CASE d # c
      <4>1. client'[d] = client[d] /\ client[d].id \in Ids /\ client[d].entry.version \in Versions
        BY <1>1, <2>2, <3>2, CatalogConstants DEF CatalogInv, CatalogTyped, AtWork
      <4> QED BY <2>2, <4>1 DEF CatalogInv, RunsHere
    <3> QED BY <3>1, <3>2
  <2> QED BY <2>1, <2>2 DEF RunsHere
<1> QED BY <1>3, <1>4, <1>5, <1>6 DEF CatalogInv

\* What a request that is under way may become.
LEMMA ClientsGoOn ==
    ASSUME CatalogInv, NEW c \in Clients
    PROVE  /\ client[c] \in SourceRequests /\ client \in [Clients -> SourceRequests]
           /\ \A at \in AtWork \cup {"search", "missing"} : [client[c] EXCEPT !.at = at] \in SourceRequests
           /\ [client[c] EXCEPT !.at = "keep", !.got = listing] \in SourceRequests
           /\ [client[c] EXCEPT !.at = "read", !.forced = TRUE, !.got = None] \in SourceRequests
           /\ client[c].got \in Indices /\ client[c].id \in Ids =>
                [K!NoRequest EXCEPT !.at = "fetch", !.id = client[c].id, !.entry = client[c].got[client[c].id]]
                   \in SourceRequests
<1>1. client[c] \in SourceRequests /\ client \in [Clients -> SourceRequests] /\ listing \in Indices
  BY DEF CatalogInv, CatalogTyped
<1>2. client[c].got \in Indices /\ client[c].id \in Ids => client[c].got[client[c].id] \in Entries \cup {None}
  BY DEF Indices
<1> QED BY <1>1, <1>2, NoSourceRequest DEF SourceRequests, AtWork, K!NoRequest

LEMMA EndsKeep ==
    ASSUME CatalogInv, NEW c \in Clients, K!Ends(c), UNCHANGED <<index, binaries, listing, given>>
    PROVE  CatalogInv'
<1>1. binaries \in [Ids -> [Versions -> Digests \cup {None}]]
  BY DEF CatalogInv, CatalogTyped
<1> QED BY <1>1, NoSourceRequest, ClientTurns DEF K!Ends, AtWork

LEMMA BeginKeeps ==
    ASSUME CatalogInv, NEW c \in Clients, NEW id \in Ids \cup {None}, NEW refresh \in BOOLEAN, K!Begin(c, id, refresh)
    PROVE  CatalogInv'
<1> DEFINE held == index # None /\ fresh /\ ~refresh
           q == [K!NoRequest EXCEPT !.id = id, !.at = IF held THEN "search" ELSE "read",
                                    !.got = IF held THEN index ELSE None,
                                    !.listed = id # None /\ listing[id] # None]
<1>1. client' = [client EXCEPT ![c] = q] /\ UNCHANGED <<index, binaries, listing, given>>
  BY DEF K!Begin, K!Unreleased
<1>2. /\ index \in Indices \cup {None} /\ (index # None => Given(index))
      /\ binaries \in [Ids -> [Versions -> Digests \cup {None}]]
  BY DEF CatalogInv, CatalogTyped, AllGiven
<1>3. /\ q \in SourceRequests /\ q.at \in {"search", "read"} /\ q.id = id /\ ~q.forced
      /\ q.at = "search" => index # None /\ q.got = index
      /\ q.listed = (id # None /\ listing[id] # None)
  <2>1. /\ q.at = (IF held THEN "search" ELSE "read") /\ q.id = id /\ q.forced = FALSE
        /\ q.got = (IF held THEN index ELSE None) /\ q.listed = (id # None /\ listing[id] # None)
    BY DEF K!NoRequest
  <2>2. (id # None /\ listing[id] # None) \in BOOLEAN
    OBVIOUS
  <2>3. q \in SourceRequests
    BY <1>2, <2>2 DEF SourceRequests, K!NoRequest
  <2> QED BY <2>1, <2>3
<1> HIDE DEF q
<1>4. q.listed => q.id \in Ids /\ listing[q.id] # None
  BY <1>3
<1> QED BY <1>1, <1>2, <1>3, <1>4, ClientTurns DEF AtWork

LEMMA IndexKeeps ==
    ASSUME CatalogInv, NEW c \in Clients, K!ReadIndex(c) \/ K!KeepIndex(c)
    PROVE  CatalogInv'
<1>1. /\ listing \in Indices /\ Given(listing) /\ binaries \in [Ids -> [Versions -> Digests \cup {None}]]
      /\ client[c].at \in {"keep", "search"} => client[c].got \in Indices /\ Given(client[c].got)
      /\ client[c].listed => client[c].id \in Ids /\ listing[client[c].id] # None
      /\ client[c].at \in {"keep", "search"} /\ client[c].forced /\ client[c].id \in Ids
            /\ client[c].got[client[c].id] = None => ~client[c].listed
  BY DEF CatalogInv, CatalogTyped, AllGiven, ListedAllAlong
<1>2. client[c] \in SourceRequests /\ client \in [Clients -> SourceRequests]
  BY ClientsGoOn
<1>3. CASE K!ReadIndex(c)
  <2> DEFINE q == [client[c] EXCEPT !.at = "keep", !.got = listing]
  <2>1. UNCHANGED <<index, binaries, listing, given>>
    BY <1>3 DEF K!ReadIndex, K!Unreleased
  <2>2. q \in SourceRequests
    BY ClientsGoOn
  <2>3. q.at = "keep" /\ q.got = listing /\ q.listed = client[c].listed /\ q.id = client[c].id
    BY <1>2 DEF SourceRequests
  <2>4. K!Ends(c) \/ client' = [client EXCEPT ![c] = q]
    BY <1>2, <1>3 DEF K!ReadIndex
  <2> HIDE DEF q
  <2>5. CASE client' = [client EXCEPT ![c] = q]
    BY <1>1, <2>1, <2>2, <2>3, <2>5, ClientTurns DEF AtWork
  <2> QED BY <2>1, <2>4, <2>5, EndsKeep
<1>4. CASE K!KeepIndex(c)
  <2>1. /\ client[c].at = "keep" /\ index' = client[c].got /\ UNCHANGED <<binaries, listing, given>>
        /\ K!Ends(c) \/ K!Goes(c, "search")
    BY <1>4 DEF K!KeepIndex, K!Unreleased, K!Ends
  <2>2. CASE K!Ends(c)
    BY <1>1, <2>1, <2>2, NoSourceRequest, ClientTurns DEF K!Ends, AtWork
  <2>3. CASE K!Goes(c, "search")
    <3> DEFINE q == [client[c] EXCEPT !.at = "search"]
    <3>1. q \in SourceRequests
      BY ClientsGoOn
    <3>2. /\ q.at = "search" /\ q.got = client[c].got /\ q.listed = client[c].listed /\ q.id = client[c].id
          /\ q.forced = client[c].forced
      BY <1>2 DEF SourceRequests
    <3>3. client' = [client EXCEPT ![c] = q]
      BY <1>2, <2>3 DEF K!Goes
    <3> HIDE DEF q
    <3> QED BY <1>1, <2>1, <3>1, <3>2, <3>3, ClientTurns DEF AtWork
  <2> QED BY <2>1, <2>2, <2>3
<1> QED BY <1>3, <1>4

LEMMA SearchKeeps ==
    ASSUME CatalogInv, NEW c \in Clients, K!Search(c)
    PROVE  CatalogInv'
<1> DEFINE id == client[c].id
           found == [K!NoRequest EXCEPT !.at = "fetch", !.id = id, !.entry = client[c].got[id]]
           missing == [client[c] EXCEPT !.at = "missing"]
           again == [client[c] EXCEPT !.at = "read", !.forced = TRUE, !.got = None]
<1>1. /\ client[c].at = "search" /\ client[c].got \in Indices /\ Given(client[c].got)
      /\ binaries \in [Ids -> [Versions -> Digests \cup {None}]]
      /\ client[c].listed => id \in Ids /\ listing[id] # None
      /\ client[c].forced /\ id \in Ids /\ client[c].got[id] = None => ~client[c].listed
      /\ UNCHANGED <<index, binaries, listing, given>>
  BY DEF K!Search, K!Unreleased, CatalogInv, CatalogTyped, AllGiven, ListedAllAlong
<1>2. /\ client[c] \in SourceRequests /\ client \in [Clients -> SourceRequests]
      /\ missing \in SourceRequests /\ again \in SourceRequests /\ (id \in Ids => found \in SourceRequests)
  BY <1>1, ClientsGoOn
<1>3. /\ missing.at = "missing" /\ missing.id = id /\ missing.listed = client[c].listed
      /\ again.at = "read" /\ again.id = id /\ again.listed = client[c].listed
  BY <1>2 DEF SourceRequests
<1>4. found.at = "fetch" /\ found.id = id /\ found.entry = client[c].got[id] /\ ~found.listed
  BY DEF K!NoRequest
<1>5. id \in Ids \cup {None}
  BY <1>2 DEF SourceRequests
<1>6. \/ K!Ends(c)
      \/ id \in Ids /\ client[c].got[id] # None /\ client' = [client EXCEPT ![c] = found]
      \/ id \in Ids /\ client[c].got[id] = None /\ client[c].forced /\ client' = [client EXCEPT ![c] = missing]
      \/ client' = [client EXCEPT ![c] = again]
  BY <1>2, <1>5 DEF K!Search, K!Ends
<1> HIDE DEF missing, again, found
<1>7. CASE id \in Ids /\ client[c].got[id] # None /\ client' = [client EXCEPT ![c] = found]
  <2>1. found.entry \in Entries /\ <<id, found.entry.version, found.entry.digest>> \in given
    BY <1>1, <1>4, <1>7 DEF Indices, Given
  <2> QED BY <1>1, <1>2, <1>4, <1>7, <2>1, ClientTurns
<1>8. CASE id \in Ids /\ client[c].got[id] = None /\ client[c].forced /\ client' = [client EXCEPT ![c] = missing]
  BY <1>1, <1>2, <1>3, <1>8, ClientTurns DEF AtWork
<1>9. CASE client' = [client EXCEPT ![c] = again]
  BY <1>1, <1>2, <1>3, <1>9, ClientTurns DEF AtWork
<1> QED BY <1>1, <1>6, <1>7, <1>8, <1>9, EndsKeep

LEMMA FetchKeeps ==
    ASSUME CatalogInv, NEW c \in Clients, K!LookInCache(c) \/ K!Download(c) \/ K!Answer(c)
    PROVE  CatalogInv'
<1> DEFINE e == client[c].entry
           id == client[c].id
<1>1. /\ listing \in Indices /\ binaries \in [Ids -> [Versions -> Digests \cup {None}]]
      /\ client[c].listed => id \in Ids /\ listing[id] # None
      /\ client[c].at \in AtWork =>
            id \in Ids /\ e \in Entries /\ e.version \in Versions /\ e.digest \in Digests /\ e.digest # None
               /\ <<id, e.version, e.digest>> \in given
      /\ client[c].at = "download" => K!MeetsRuntimeFloor(e)
      /\ UNCHANGED <<index, listing, given>>
  <2>1. UNCHANGED <<index, listing, given>>
    BY DEF K!LookInCache, K!Download, K!Answer, K!Unreleased
  <2> QED BY <2>1, CatalogConstants DEF CatalogInv, CatalogTyped, AllGiven, ListedAllAlong, RunsHere
<1>2. client[c] \in SourceRequests /\ client \in [Clients -> SourceRequests]
  BY ClientsGoOn
<1>3. ASSUME NEW at \in {"fetched", "download"}, K!Goes(c, at), client[c].at \in AtWork, K!MeetsRuntimeFloor(e),
             binaries' = binaries \/ binaries' = [binaries EXCEPT ![id][e.version] = e.digest],
             at = "fetched" => binaries'[id][e.version] = e.digest
      PROVE  CatalogInv'
  <2> DEFINE q == [client[c] EXCEPT !.at = at]
  <2>1. q \in SourceRequests
    BY ClientsGoOn DEF AtWork
  <2>2. q.at = at /\ q.id = id /\ q.entry = e /\ q.listed = client[c].listed
    BY <1>2 DEF SourceRequests
  <2>3. client' = [client EXCEPT ![c] = q]
    BY <1>2, <1>3 DEF K!Goes
  <2> HIDE DEF q
  <2>4. /\ binaries' \in [Ids -> [Versions -> Digests \cup {None}]]
        /\ \A i \in Ids, v \in Versions : binaries'[i][v] # binaries[i][v] =>
              binaries'[i][v] # None /\ <<i, v, binaries'[i][v]>> \in given
    <3>1. CASE binaries' = binaries
      BY <1>1, <3>1
    <3>2. CASE binaries' = [binaries EXCEPT ![id][e.version] = e.digest]
      <4>1. binaries' = [binaries EXCEPT ![id] = [binaries[id] EXCEPT ![e.version] = e.digest]]
        BY <3>2
      <4>2. /\ id \in Ids /\ e.version \in Versions /\ e.digest \in Digests /\ e.digest # None
            /\ <<id, e.version, e.digest>> \in given
        BY <1>1, <1>3
      <4>3. \A i \in Ids, v \in Versions :
               binaries'[i][v] = IF i = id /\ v = e.version THEN e.digest ELSE binaries[i][v]
        BY <1>1, <4>1, <4>2
      <4>4. [binaries[id] EXCEPT ![e.version] = e.digest] \in [Versions -> Digests \cup {None}]
        BY <1>1, <4>2
      <4>5. binaries' \in [Ids -> [Versions -> Digests \cup {None}]]
        BY <1>1, <4>1, <4>4
      <4> HIDE DEF id, e
      <4> QED BY <4>2, <4>3, <4>5
    <3> QED BY <1>3, <3>1, <3>2
  <2> QED BY <1>1, <1>3, <2>1, <2>2, <2>3, <2>4, ClientTurns
<1>4. CASE K!LookInCache(c)
  <2>1. /\ client[c].at = "fetch" /\ binaries' = binaries
        /\ \/ K!Ends(c)
           \/ K!MeetsRuntimeFloor(e) /\ K!Goes(c, "fetched") /\ binaries[id][e.version] = e.digest
           \/ K!MeetsRuntimeFloor(e) /\ K!Goes(c, "download")
    BY <1>4 DEF K!LookInCache
  <2> QED BY <1>1, <1>3, <2>1, EndsKeep DEF AtWork
<1>5. CASE K!Download(c)
  <2>1. /\ client[c].at = "download"
        /\ \/ K!Ends(c) /\ binaries' = binaries
           \/ K!Goes(c, "fetched") /\ binaries' = [binaries EXCEPT ![id][e.version] = e.digest]
    BY <1>5 DEF K!Download
  <2>2. binaries' = [binaries EXCEPT ![id][e.version] = e.digest] => binaries'[id][e.version] = e.digest
    BY <1>1, <2>1 DEF AtWork
  <2> QED BY <1>1, <1>3, <2>1, <2>2, EndsKeep DEF AtWork
<1>6. CASE K!Answer(c)
  BY <1>1, <1>6, EndsKeep DEF K!Answer
<1> QED BY <1>4, <1>5, <1>6

LEMMA PublisherKeeps ==
    ASSUME CatalogInv, NEW id \in Ids, NEW entry \in Entries \cup {None}, K!PublishIndex(id, entry)
    PROVE  CatalogInv'
<1>1. /\ listing' = [listing EXCEPT ![id] = entry]
      /\ client' = [c \in Clients |->
           IF client[c].id = id /\ entry = None THEN [client[c] EXCEPT !.listed = FALSE] ELSE client[c]]
      /\ given' = IF entry = None THEN given ELSE given \cup {<<id, entry.version, entry.digest>>}
      /\ UNCHANGED <<index, binaries>>
  BY DEF K!PublishIndex
<1>2. client \in [Clients -> SourceRequests] /\ listing \in Indices
  BY DEF CatalogInv, CatalogTyped
<1>3. /\ client' \in [Clients -> SourceRequests]
      /\ \A c \in Clients :
            /\ client'[c].at = client[c].at /\ client'[c].id = client[c].id /\ client'[c].got = client[c].got
            /\ client'[c].forced = client[c].forced /\ client'[c].entry = client[c].entry
            /\ client'[c].listed => client[c].listed /\ ~(client[c].id = id /\ entry = None)
  BY <1>1, <1>2 DEF SourceRequests
<1>4. given \subseteq given' /\ listing' \in Indices
  BY <1>1, <1>2 DEF Indices
<1>5. CatalogTyped'
  BY <1>1, <1>3, <1>4 DEF CatalogInv, CatalogTyped
<1>6. AllGiven'
  <2>1. Given(listing)'
    BY <1>1, <1>2, <1>4 DEF CatalogInv, AllGiven, Given, Indices
  <2>2. \A ix : (\A i \in Ids : ix[i] # None => <<i, ix[i].version, ix[i].digest>> \in given) =>
                 \A i \in Ids : ix[i] # None => <<i, ix[i].version, ix[i].digest>> \in given'
    BY <1>4
  <2>3. index' # None => Given(index)'
    BY <1>1, <2>2 DEF CatalogInv, AllGiven, Given
  <2>4. \A c \in Clients : client'[c].at \in {"keep", "search"} => Given(client[c].got)'
    BY <1>3, <1>4 DEF CatalogInv, AllGiven, Given
  <2>5. \A c \in Clients : client'[c].at \in AtWork =>
          <<client'[c].id, client'[c].entry.version, client'[c].entry.digest>> \in given'
    BY <1>3, <1>4 DEF CatalogInv, AllGiven
  <2>6. \A i \in Ids, v \in Versions : binaries'[i][v] # None => <<i, v, binaries'[i][v]>> \in given'
    BY <1>1, <1>4 DEF CatalogInv, AllGiven
  <2> QED BY <2>1, <2>3, <2>4, <2>5, <2>6 DEF AllGiven
<1>7. ListedAllAlong'
  <2>1. \A c \in Clients : client'[c].listed => client'[c].id \in Ids /\ listing'[client'[c].id] # None
    BY <1>1, <1>2, <1>3 DEF CatalogInv, ListedAllAlong, Indices
  <2>2. \A c \in Clients :
           client'[c].at \in {"keep", "search"} /\ client'[c].forced
              /\ client'[c].id \in Ids /\ client'[c].got[client'[c].id] = None => ~client'[c].listed
    BY <1>3 DEF CatalogInv, ListedAllAlong
  <2>3. \A c \in Clients : client'[c].at = "missing" => ~client'[c].listed
    BY <1>3 DEF CatalogInv, ListedAllAlong, K!MissingIsUnlisted
  <2> QED BY <2>1, <2>2, <2>3 DEF ListedAllAlong, K!MissingIsUnlisted
<1>8. RunsHere'
  BY <1>1, <1>3 DEF CatalogInv, RunsHere, K!MeetsRuntimeFloor, K!Below
<1> QED BY <1>5, <1>6, <1>7, <1>8 DEF CatalogInv

LEMMA TimeKeeps ==
    ASSUME CatalogInv, (\E id \in Ids, digest \in Digests : K!PublishBinary(id, digest)) \/ K!Expire \/ K!Restart
    PROVE  CatalogInv'
<1>1. CASE K!Restart
  <2>1. /\ index' = None /\ client' = [c \in Clients |-> K!NoRequest] /\ UNCHANGED <<listing, binaries, given>>
    BY <1>1 DEF K!Restart
  <2>2. client' \in [Clients -> SourceRequests] /\ \A c \in Clients : client'[c].at = "idle" /\ ~client'[c].listed
    BY <2>1, NoSourceRequest
  <2>3. CatalogTyped'
    BY <2>1, <2>2 DEF CatalogInv, CatalogTyped, AtWork
  <2>4. AllGiven'
    BY <2>1, <2>2 DEF CatalogInv, AllGiven, Given, AtWork
  <2>5. ListedAllAlong' /\ RunsHere'
    BY <2>2 DEF ListedAllAlong, RunsHere, K!MissingIsUnlisted
  <2> QED BY <2>3, <2>4, <2>5 DEF CatalogInv
<1>2. CASE (\E id \in Ids, digest \in Digests : K!PublishBinary(id, digest)) \/ K!Expire
  <2>1. UNCHANGED <<listing, index, binaries, client, given>>
    BY <1>2 DEF K!PublishBinary, K!Expire, K!Unreleased
  <2> QED BY <2>1 DEF CatalogInv, CatalogTyped, AllGiven, Given, ListedAllAlong, RunsHere, K!MissingIsUnlisted,
                      K!MeetsRuntimeFloor, K!Below
<1> QED BY <1>1, <1>2

\* Each step of the catalog keeps its invariant.
LEMMA CatalogKeeps == ASSUME CatalogInv, K!CatalogNext PROVE CatalogInv'
<1>1. ASSUME NEW c \in Clients, K!ClientStep(c) PROVE CatalogInv'
  BY <1>1, IndexKeeps, SearchKeeps, FetchKeeps DEF K!ClientStep
<1>2. ASSUME NEW c \in Clients, NEW id \in Ids \cup {None}, NEW refresh \in BOOLEAN, K!Begin(c, id, refresh)
      PROVE  CatalogInv'
  BY <1>2, BeginKeeps
<1>3. ASSUME NEW id \in Ids, NEW entry \in Entries \cup {None}, K!PublishIndex(id, entry) PROVE CatalogInv'
  BY <1>3, PublisherKeeps
<1>4. \/ \E c \in Clients : K!ClientStep(c)
      \/ \E c \in Clients, id \in Ids \cup {None}, refresh \in BOOLEAN : K!Begin(c, id, refresh)
      \/ \E id \in Ids, entry \in Entries \cup {None} : K!PublishIndex(id, entry)
      \/ (\E id \in Ids, digest \in Digests : K!PublishBinary(id, digest)) \/ K!Expire \/ K!Restart
  BY DEF K!CatalogNext
<1> QED BY <1>1, <1>2, <1>3, <1>4, TimeKeeps

-----------------------------------------------------------------------------
(* The three stores side by side                                           *)

Kept == ImageInv /\ CoverInv /\ CatalogInv

LEMMA KeptBegins == Init => Kept
BY ImagesBegin, CoversBegin, CatalogBegins DEF Kept

\* A part at rest keeps what holds of it.
LEMMA RestKeeps ==
    /\ ImageInv /\ UNCHANGED imageVars => ImageInv'
    /\ CoverInv /\ UNCHANGED coverVars => CoverInv'
    /\ CatalogInv /\ UNCHANGED catalogVars => CatalogInv'
<1>1. ImageInv /\ UNCHANGED imageVars => ImageInv'
  BY DEF imageVars, ImageInv, ImageTyped, RowsAgree, WritersMeet, I!EvictionIsHarmless, I!CachedIsThePage,
         I!NamedIsWhole, I!Stands
<1>2. CoverInv /\ UNCHANGED coverVars => CoverInv'
  BY DEF coverVars, CoverInv, CoverTyped, CoversAreFiles, CoversFollow, SlotsCounted, Busy, C!Address
<1>3. CatalogInv /\ UNCHANGED catalogVars => CatalogInv'
  BY DEF catalogVars, CatalogInv, CatalogTyped, AllGiven, Given, ListedAllAlong, RunsHere, K!MissingIsUnlisted,
         K!MeetsRuntimeFloor, K!Below
<1> QED BY <1>1, <1>2, <1>3

LEMMA KeptKeeps == Kept /\ [Next]_vars => Kept'
<1> SUFFICES ASSUME Kept, [Next]_vars PROVE Kept'
  OBVIOUS
<1>1. CASE ImageStep(I!ImageNext)
  BY <1>1, ImagesKeep, RestKeeps DEF ImageStep, Kept
<1>2. CASE CoverStep(C!CoverNext)
  BY <1>2, CoversKeep, RestKeeps DEF CoverStep, Kept
<1>3. CASE CatalogStep(K!CatalogNext)
  BY <1>3, CatalogKeeps, RestKeeps DEF CatalogStep, Kept
<1>4. CASE UNCHANGED vars
  BY <1>4, RestKeeps DEF vars, Kept
<1> QED BY <1>1, <1>2, <1>3, <1>4 DEF Next

\* What is kept is what it is kept for: an image is its page's although pages are swept
\* and renumbered under the requests, a cover its title's although titles are edited, as
\* long as no import or restore has changed it unheard, a binary what the catalog gave for
\* its version.
THEOREM KeptStaysGood == Spec => []KeptIsGood
<1>1. Kept => KeptIsGood
  BY CoverSafe, CatalogSafe DEF Kept, KeptIsGood, ImageInv
<1> QED BY <1>1, KeptBegins, KeptKeeps, PTL DEF Spec

=============================================================================
