--------------------------------- MODULE MCKept ---------------------------------
(* Three stores beside the library that share no state, side by side: the  *)
(* images of pages, the covers, and the catalog of sources with its        *)
(* binaries.  A behaviour is one of the part Init chooses, the others rest.*)
EXTENDS Naturals, FiniteSets, TLC

CONSTANTS Requests, Addresses, MaxPages, MaxFiles, MaxChanges, Blank,
          Viewers, Writers, Slots, MaxEdits,
          Clients, Ids, Versions, Digests, Entries, RuntimeVersion, MaxReleases, None

VARIABLES part,
    published, changes, artifact, pages, ids, cached, dir, torn, request, renumbered, rewritten,
    title, files, inUse, viewer, writer, edits, crossed, unheard,
    listing, wasm, index, fresh, binaries, client, releases, given

I == INSTANCE ImageCache
C == INSTANCE Covers
K == INSTANCE Catalog

ASSUME KeptAssumption == I!ImageAssumption /\ C!CoverAssumption /\ K!CatalogAssumption

imageVars == <<published, changes, artifact, pages, ids, cached, dir, torn, request, renumbered, rewritten>>
coverVars == <<title, files, inUse, viewer, writer, edits, crossed, unheard>>
catalogVars == <<listing, wasm, index, fresh, binaries, client, releases, given>>
vars == <<part, imageVars, coverVars, catalogVars>>

\* The source publishes one page at first.
Init ==
    /\ part \in {"images", "covers", "catalog"}
    /\ I!ImageInit /\ C!CoverInit /\ K!CatalogInit
    /\ published = <<CHOOSE a \in Addresses : TRUE>>

\* A step of one part, the variables of the others at rest.
ImageStep(S) == part = "images" /\ S /\ UNCHANGED <<part, coverVars, catalogVars>>
CoverStep(S) == part = "covers" /\ S /\ UNCHANGED <<part, imageVars, catalogVars>>
CatalogStep(S) == part = "catalog" /\ S /\ UNCHANGED <<part, imageVars, coverVars>>

Next == ImageStep(I!ImageNext) \/ CoverStep(C!CoverNext) \/ CatalogStep(K!CatalogNext)

\* The fairness of the parts, as their modules state it.
Fairness ==
    /\ \A v \in Viewers : WF_vars(CoverStep(C!ViewerStep(v))) /\ SF_vars(CoverStep(C!TakeSlot(v)))
    /\ \A c \in Clients : WF_vars(CatalogStep(K!ClientStep(c)))

Spec == Init /\ [][Next]_vars /\ Fairness

-----------------------------------------------------------------------------
(* What the parts promise                                                  *)

\* What is kept is what it is kept for: of images (ImageCache) although they are swept
\* and renumbered under the requests, of covers and their transfer slots (Covers) although
\* titles are edited, if no import or restore changed the cover unheard, of the catalog and its binaries (Catalog) although both change.
KeptIsGood ==
    /\ I!EvictionIsHarmless /\ I!CachedIsThePage /\ I!NamedIsWhole
    /\ C!CoverFollows /\ C!SlotsAreReturned
    /\ K!MissingIsUnlisted /\ K!BinariesAreVerified

\* A request ends: for a cover, though others hold the transfer slots, and for a source,
\* whose index is read a second time at most.
RequestsEnd == C!ViewEnds /\ K!InstallEnds

-----------------------------------------------------------------------------
(* The instance                                                            *)

\* This build, and a later one that a comparison of texts takes for older.
This == <<1, 2, 0>>
Later == <<1, 10, 0>>
BothVersions == {This, Later}

\* A version that is built again, and one this build is too old for.
ThreeEntries ==
    {[version |-> This, digest |-> "old", floor |-> None], [version |-> This, digest |-> "new", floor |-> This],
     [version |-> Later, digest |-> "new", floor |-> Later]}
=============================================================================
