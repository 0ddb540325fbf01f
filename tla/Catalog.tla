------------------------------- MODULE Catalog -------------------------------
(***************************************************************************)
(* The catalog of sources: the index a Registry keeps for a while and the  *)
(* verified binaries it keeps for good (internal/engine/registry.go), as   *)
(* Catalog and Install use them (internal/engine/engine.go).               *)
(*                                                                         *)
(* The publisher's side changes on its own: the index lists sources with a *)
(* version and the digest of their binary, and binaries are replaced       *)
(* before or after it.  A version is three numbers.                        *)
(***************************************************************************)
EXTENDS Naturals, FiniteSets

CONSTANTS Clients, Ids, Versions, Digests,
          Entries,         \* what the index may list of a source: version, digest and floor
          RuntimeVersion,  \* of this build, None in a development build
          MaxReleases,     \* bound: what the publisher changes, and crashes
          None

CatalogAssumption ==
    /\ Versions \subseteq Nat \X Nat \X Nat
    /\ Entries \subseteq [version : Versions, digest : Digests, floor : Versions \cup {None}]
    /\ RuntimeVersion \in Versions \cup {None}
    /\ MaxReleases \in Nat /\ None \notin Ids \cup Digests

VARIABLES
    listing,    \* the live index: an entry for each id, or None
    wasm,       \* the digest of the binary the entry's address serves
    index,      \* Registry.index, or None
    fresh,      \* the time since fetchedAt is below indexTTL
    binaries,   \* the cache directory: the digest of the file for an id and a version, or None
    client,     \* what each request does
    releases,   \* how often the publisher changed something
    given       \* the binaries the index has listed: id, version and digest

catalogVars == <<listing, wasm, index, fresh, binaries, client, releases, given>>

Unlisted == [i \in Ids |-> None]
NoRequest == [at |-> "idle", id |-> None, got |-> None, forced |-> FALSE, listed |-> FALSE, entry |-> None]

CatalogInit ==
    /\ listing = Unlisted /\ wasm = [i \in Ids |-> None]
    /\ index = None /\ fresh = FALSE
    /\ binaries = [i \in Ids |-> [v \in Versions |-> None]]
    /\ client = [c \in Clients |-> NoRequest] /\ releases = 0 /\ given = {}

-----------------------------------------------------------------------------
(* Versions                                                                *)

\* compareSemver(a, b) < 0.
Below(a, b) ==
    \/ a[1] < b[1]
    \/ a[1] = b[1] /\ a[2] < b[2]
    \/ a[1] = b[1] /\ a[2] = b[2] /\ a[3] < b[3]

\* meetsRuntimeFloor: without a version of its own or a floor nothing is compared.
MeetsRuntimeFloor(entry) ==
    RuntimeVersion = None \/ entry.floor = None \/ ~Below(RuntimeVersion, entry.floor)

-----------------------------------------------------------------------------
(* Index and Find                                                          *)

Goes(c, at) == client' = [client EXCEPT ![c].at = at]
Ends(c) == client' = [client EXCEPT ![c] = NoRequest]
Unreleased == UNCHANGED <<listing, wasm, releases, given>>

\* Install of an id, or a look at the catalog (None), which may ask to read it anew.
Begin(c, id, refresh) ==
    /\ client[c].at = "idle" /\ (id # None => ~refresh)
    /\ client' = [client EXCEPT ![c] =
         [NoRequest EXCEPT !.id = id, !.at = IF index # None /\ fresh /\ ~refresh THEN "search" ELSE "read",
                           !.got = IF index # None /\ fresh /\ ~refresh THEN index ELSE None,
                           !.listed = id # None /\ listing[id] # None]]
    /\ UNCHANGED <<index, fresh, binaries>> /\ Unreleased

\* The read, outside the lock.
ReadIndex(c) ==
    /\ client[c].at = "read"
    /\ \/ client' = [client EXCEPT ![c].at = "keep", ![c].got = listing]
       \/ Ends(c)
    /\ UNCHANGED <<index, fresh, binaries>> /\ Unreleased

\* Whatever another request kept meanwhile.
KeepIndex(c) ==
    /\ client[c].at = "keep" /\ index' = client[c].got /\ fresh' = TRUE
    /\ IF client[c].id = None THEN client' = [client EXCEPT ![c] = NoRequest] ELSE Goes(c, "search")
    /\ UNCHANGED binaries /\ Unreleased

\* Mutant of Search: a miss in the kept index is final.
SearchOnce(c) ==
    /\ client[c].at = "search"
    /\ LET id == client[c].id IN
         client' = [client EXCEPT ![c] =
            IF id = None THEN NoRequest
            ELSE IF client[c].got[id] # None THEN [NoRequest EXCEPT !.at = "fetch", !.id = id, !.entry = client[c].got[id]]
            ELSE [@ EXCEPT !.at = "missing"]]
    /\ UNCHANGED <<index, fresh, binaries>> /\ Unreleased

\* Mutant of Search: every miss has the index read again.
SearchForever(c) ==
    /\ client[c].at = "search"
    /\ LET id == client[c].id IN
         client' = [client EXCEPT ![c] =
            IF id = None THEN NoRequest
            ELSE IF client[c].got[id] # None THEN [NoRequest EXCEPT !.at = "fetch", !.id = id, !.entry = client[c].got[id]]
            ELSE [@ EXCEPT !.at = "read", !.got = None]]
    /\ UNCHANGED <<index, fresh, binaries>> /\ Unreleased

\* "A stale cached index is the likely cause of a miss, so retry once against the live
\* catalog."
Search(c) ==
    /\ client[c].at = "search"
    /\ LET id == client[c].id IN
         client' = [client EXCEPT ![c] =
            IF id = None THEN NoRequest
            ELSE IF client[c].got[id] # None THEN [NoRequest EXCEPT !.at = "fetch", !.id = id, !.entry = client[c].got[id]]
            ELSE IF client[c].forced THEN [@ EXCEPT !.at = "missing"]
            ELSE [@ EXCEPT !.at = "read", !.forced = TRUE, !.got = None]]
    /\ UNCHANGED <<index, fresh, binaries>> /\ Unreleased

-----------------------------------------------------------------------------
(* Fetch                                                                   *)

\* validateEntry, and the cached file if it is still what the catalog says.
LookInCache(c) ==
    /\ client[c].at = "fetch"
    /\ LET e == client[c].entry IN
         IF ~MeetsRuntimeFloor(e) THEN Ends(c)
         ELSE Goes(c, IF binaries[client[c].id][e.version] = e.digest THEN "fetched" ELSE "download")
    /\ UNCHANGED <<index, fresh, binaries>> /\ Unreleased

\* Mutant of Download: the digest is not compared.
DownloadUnverified(c) ==
    /\ client[c].at = "download" /\ wasm[client[c].id] # None
    /\ binaries' = [binaries EXCEPT ![client[c].id][client[c].entry.version] = wasm[client[c].id]]
    /\ Goes(c, "fetched")
    /\ UNCHANGED <<index, fresh>> /\ Unreleased

\* The binary is verified before it is written, in one step, over the version's file.
Download(c) ==
    /\ client[c].at = "download"
    /\ LET e == client[c].entry IN
         \/ /\ wasm[client[c].id] = e.digest /\ Goes(c, "fetched")
            /\ binaries' = [binaries EXCEPT ![client[c].id][e.version] = e.digest]
         \/ Ends(c) /\ UNCHANGED binaries
    /\ UNCHANGED <<index, fresh>> /\ Unreleased

\* The source is registered, or said to be missing.
Answer(c) ==
    /\ client[c].at \in {"fetched", "missing"} /\ Ends(c)
    /\ UNCHANGED <<index, fresh, binaries>> /\ Unreleased

-----------------------------------------------------------------------------
(* The publisher, time and crashes                                         *)

Releases == releases < MaxReleases /\ releases' = releases + 1

\* A request for what is not listed any more may be told so.
PublishIndex(id, entry) ==
    /\ Releases /\ listing' = [listing EXCEPT ![id] = entry]
    /\ client' = [c \in Clients |->
         IF client[c].id = id /\ entry = None THEN [client[c] EXCEPT !.listed = FALSE] ELSE client[c]]
    /\ given' = IF entry = None THEN given ELSE given \cup {<<id, entry.version, entry.digest>>}
    /\ UNCHANGED <<wasm, index, fresh, binaries>>

PublishBinary(id, digest) ==
    /\ Releases /\ wasm' = [wasm EXCEPT ![id] = digest]
    /\ UNCHANGED <<listing, index, fresh, binaries, client, given>>

Expire == fresh /\ fresh' = FALSE /\ UNCHANGED <<index, binaries, client>> /\ Unreleased

Restart ==
    /\ Releases /\ index' = None /\ fresh' = FALSE /\ client' = [c \in Clients |-> NoRequest]
    /\ UNCHANGED <<listing, wasm, binaries, given>>

ClientStep(c) == ReadIndex(c) \/ KeepIndex(c) \/ Search(c) \/ LookInCache(c) \/ Download(c) \/ Answer(c)

CatalogNext ==
    \/ \E c \in Clients : ClientStep(c) \/ \E id \in Ids \cup {None}, refresh \in BOOLEAN : Begin(c, id, refresh)
    \/ \E id \in Ids : \/ \E entry \in Entries \cup {None} : PublishIndex(id, entry)
                       \/ \E digest \in Digests : PublishBinary(id, digest)
    \/ Expire \/ Restart

CatalogFairness == \A c \in Clients : WF_catalogVars(ClientStep(c))

CatalogSpec == CatalogInit /\ [][CatalogNext]_catalogVars /\ CatalogFairness

-----------------------------------------------------------------------------
(* Properties                                                              *)

\* A source is reported missing only if the live catalog did not list it at some time
\* since the request began, however old the index it found was and whichever other
\* requests kept theirs in between (Find).
MissingIsUnlisted == \A c \in Clients : client[c].at = "missing" => ~client[c].listed

\* A file in the cache is a binary the catalog has given for that very version, whatever
\* the address served and whichever requests wrote it; what is registered runs on this
\* build (Fetch).
BinariesAreVerified ==
    /\ \A i \in Ids, v \in Versions : binaries[i][v] # None => <<i, v, binaries[i][v]>> \in given
    /\ \A c \in Clients : client[c].at = "fetched" =>
         /\ binaries[client[c].id][client[c].entry.version] # None
         /\ client[c].entry.floor # None /\ RuntimeVersion # None => ~Below(RuntimeVersion, client[c].entry.floor)

\* A request ends, the second look at the catalog being the last.
InstallEnds == \A c \in Clients : client[c].at # "idle" ~> client[c].at = "idle"

=============================================================================
