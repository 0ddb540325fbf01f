------------------------- MODULE SourceEngine_proofs -------------------------
(***************************************************************************)
(* Proofs about SourceEngine for every set of callers, admins and builds,  *)
(* every pool size and every bound, and about Challenges, which the same   *)
(* engine's fetcher meets, for every set of hosts, requests and solves.    *)
(***************************************************************************)
EXTENDS SourceEngine, MCChallenges, FiniteSetTheorems, TLAPS

-----------------------------------------------------------------------------
(* The inductive invariant                                                 *)

Caller == [pc : CallerLabels, id : Nat, path : Paths \cup {None}, plugin : Nat, room : BOOLEAN]
Admin == [pc : AdminLabels, build : Builds \cup {None}, id : Nat, path : Paths \cup {None},
          local : BOOLEAN]

TypeInv ==
    /\ row \in [id : Nat, installed : BOOLEAN, path : Paths \cup {None}] /\ ids \in Nat
    /\ files \in [Paths -> Builds \cup {None}]
    /\ heap \in Seq(Plugin) /\ closing \subseteq 1 .. Len(heap)
    /\ loading \subseteq 1 .. ids /\ DOMAIN plugins \subseteq 1 .. ids
    /\ plugins \in [DOMAIN plugins -> 1 .. Len(heap)]
    /\ caller \in [Callers -> Caller] /\ admin \in [Admins -> Admin]

\* The row that is installed was recorded.
RowFits == /\ row.id <= ids
           /\ row.installed => row.id # 0 /\ row.path \in Paths

Loads == {"readRow", "compile", "store"}
Uses == {"acquire", "take", "wait"} \cup Holding

\* A caller that loads holds the claim of its source, which is not in the map; what it
\* compiled is open and known to nobody else.
CallerFits(r) ==
    /\ r.id <= ids /\ r.plugin <= Len(heap)
    /\ r.pc \in {"lookup", "await"} \cup Loads => r.id # 0
    /\ r.pc \in {"idle", "resolve", "lookup", "await", "readRow", "compile"} => r.plugin = 0
    /\ r.pc \in Uses => r.plugin # 0
    /\ r.pc = "compile" => r.path \in Paths
    /\ r.pc \in Loads => r.id \in loading /\ r.id \notin DOMAIN plugins
    /\ r.pc = "store" /\ r.plugin # 0 =>
          /\ heap[r.plugin].id = r.id /\ heap[r.plugin].phase = "open" /\ r.plugin \notin closing

\* One loader per source.
LoadersApart ==
    \A c, d \in Callers : caller[c].pc \in Loads /\ caller[d].pc \in Loads /\ caller[c].id = caller[d].id
                            => c = d

AdminFits(r) ==
    /\ r.id <= ids
    /\ r.pc \in {"write", "probe", "find", "record"} => r.build \in Builds /\ r.path \in Paths
    /\ r.pc = "record" => r.id # 0

\* The map is one to one, and nobody closes what it serves.
MapFits ==
    \A id \in DOMAIN plugins :
        /\ heap[plugins[id]].id = id /\ heap[plugins[id]].phase = "open"
        /\ plugins[id] \notin closing

\* The callers that hold an instance are finitely many, whatever their number.
Holders(p) == {c \in Callers : caller[c].pc \in Holding /\ caller[c].plugin = p}
Accounted(p) ==
    /\ IsFiniteSet(Holders(p))
    /\ heap[p].live = heap[p].idle + Cardinality(Holders(p))

EngineInv ==
    /\ TypeInv /\ RowFits /\ LoadersApart /\ MapFits
    /\ \A c \in Callers : CallerFits(caller[c])
    /\ \A a \in Admins : AdminFits(admin[a])
    /\ \A p \in 1 .. Len(heap) : Accounted(p)
    /\ NoPluginLeak

\* With one admin: what it is about to record is on disk, what it removes is not recorded.
BinaryStands(a) ==
    /\ \/ admin[a].pc \in {"find", "record"}
       \/ admin[a].pc = "probe" /\ ~admin[a].local
       => files[admin[a].path] # None
    /\ admin[a].pc = "remove" => ~row.installed

-----------------------------------------------------------------------------
(* Callers that touch no instance                                          *)

\* A caller moves on without an instance changing hands.
LEMMA CallerMoves ==
    ASSUME EngineInv, NEW c \in Callers, NEW r \in Caller, caller' = [caller EXCEPT ![c] = r],
           UNCHANGED <<diskVars, plugins, heap, closing, admin>>,
           loading \subseteq loading', loading' \subseteq 1 .. ids,
           CallerFits(caller[c])',
           r.pc \in Holding <=> caller[c].pc \in Holding,
           r.pc \in Holding => r.plugin = caller[c].plugin,
           caller[c].pc = "store" => caller[c].plugin = 0,
           r.pc \in Loads => \/ caller[c].pc \in Loads /\ r.id = caller[c].id
                             \/ r.id \notin loading
    PROVE  EngineInv'
<1>1. UNCHANGED <<row, ids, files>>
  BY DEF diskVars
<1>2. caller' \in [Callers -> Caller] /\ caller'[c] = r /\ \A d \in Callers \ {c} : caller'[d] = caller[d]
  BY DEF EngineInv, TypeInv
<1>3. TypeInv'
  BY <1>1, <1>2 DEF EngineInv, TypeInv
<1>4. RowFits' /\ MapFits'
  BY <1>1 DEF EngineInv, RowFits, MapFits
<1>5. \A d \in Callers : CallerFits(caller[d])'
  BY <1>1, <1>2 DEF EngineInv, CallerFits
<1>6. \A d \in Callers : caller[d].pc \in Loads => caller[d].id \in loading
  BY DEF EngineInv, CallerFits
<1>7. LoadersApart'
  BY <1>2, <1>6 DEF EngineInv, LoadersApart
<1>8. \A a \in Admins : AdminFits(admin[a])'
  BY <1>1 DEF EngineInv, AdminFits
<1>9. \A p \in 1 .. Len(heap) : Accounted(p)'
  <2>1. \A p : Holders(p)' = Holders(p)
    BY <1>2 DEF Holders
  <2>2. QED
    BY <2>1 DEF EngineInv, Accounted
<1>10. NoPluginLeak'
  <2>1. \A d \in Callers : caller[d].pc = "store" /\ caller[d].plugin # 0 => caller'[d] = caller[d]
    BY <1>2
  <2>2. \A p \in DOMAIN heap : p # 0
    BY DEF EngineInv, TypeInv
  <2>3. QED
    BY <2>1, <2>2 DEF EngineInv, NoPluginLeak
<1>11. QED
  BY <1>3, <1>4, <1>5, <1>7, <1>8, <1>9, <1>10 DEF EngineInv

\* A caller that returns without an instance.
LEMMA ReturnKeeps ==
    ASSUME EngineInv, NEW c \in Callers, Return(c), caller[c].pc \notin Holding,
           caller[c].pc = "store" => caller[c].plugin = 0,
           UNCHANGED <<diskVars, memoryVars, admin>>
    PROVE  EngineInv'
<1>1. NoCall \in Caller /\ NoCall.pc = "idle" /\ NoCall.id = 0 /\ NoCall.plugin = 0
  BY DEF NoCall, Caller, CallerLabels
<1>2. ids \in Nat /\ Len(heap) \in Nat /\ loading \subseteq 1 .. ids
  BY DEF EngineInv, TypeInv
<1>3. UNCHANGED <<row, ids, files, plugins, loading, heap, closing>>
  BY DEF diskVars, memoryVars
<1>4. CallerFits(caller[c])'
  <2>1. caller'[c] = NoCall
    BY DEF Return, EngineInv, TypeInv
  <2>2. QED
    BY <1>1, <1>2, <1>3, <2>1 DEF CallerFits, Loads, Uses, Holding
<1>5. QED
  BY <1>1, <1>2, <1>3, <1>4, CallerMoves DEF Return, Holding, Loads, diskVars

\* A caller that goes on to another label, its locals as they were.
LEMMA GotoKeeps ==
    ASSUME EngineInv, NEW c \in Callers, NEW label \in CallerLabels, Goto(c, label),
           UNCHANGED <<diskVars, memoryVars, admin>>,
           \/ caller[c].pc = "idle" /\ label = "resolve"
           \/ caller[c].pc = "lookup" /\ label = "await"
           \/ caller[c].pc = "compile" /\ label = "store"
           \/ caller[c].pc = "take" /\ label = "wait"
           \/ caller[c].pc \in Holding /\ label \in Holding
    PROVE  EngineInv'
<1> DEFINE r == [caller[c] EXCEPT !.pc = label]
<1>1. caller[c] \in Caller /\ CallerFits(caller[c])
  BY DEF EngineInv, TypeInv
<1>2. /\ r \in Caller /\ r.pc = label /\ r.id = caller[c].id /\ r.plugin = caller[c].plugin
      /\ r.path = caller[c].path
  BY <1>1 DEF Caller
<1>3. caller' = [caller EXCEPT ![c] = r] /\ caller'[c] = r
  BY DEF Goto, EngineInv, TypeInv
<1>4. UNCHANGED <<row, ids, files, plugins, loading, heap, closing>> /\ loading \subseteq 1 .. ids
  BY DEF diskVars, memoryVars, EngineInv, TypeInv
<1>5. CallerFits(caller[c])'
  BY <1>1, <1>2, <1>3, <1>4 DEF CallerFits, Loads, Uses, Holding
<1>6. QED
  BY <1>1, <1>2, <1>3, <1>4, <1>5, CallerMoves DEF Holding, Loads, diskVars

LEMMA ResolveKeeps ==
    ASSUME EngineInv, NEW c \in Callers, Resolve(c)
    PROVE  EngineInv'
<1>1. caller[c].pc = "resolve" /\ UNCHANGED <<diskVars, memoryVars, admin>>
  BY DEF Resolve
<1>2. CASE ~row.installed
  BY <1>1, <1>2, ReturnKeeps DEF Resolve, Holding
<1>3. CASE row.installed
  <2> DEFINE r == [caller[c] EXCEPT !.pc = "lookup", !.id = row.id]
  <2>1. caller[c] \in Caller /\ CallerFits(caller[c]) /\ row.id \in Nat /\ row.id <= ids /\ row.id # 0
    BY <1>3 DEF EngineInv, TypeInv, RowFits
  <2>2. r \in Caller /\ r.pc = "lookup" /\ r.id = row.id /\ r.plugin = caller[c].plugin
    BY <2>1 DEF Caller, CallerLabels
  <2>3. caller' = [caller EXCEPT ![c] = r] /\ caller'[c] = r
    BY <1>3 DEF Resolve, EngineInv, TypeInv
  <2>4. UNCHANGED <<row, ids, files, plugins, loading, heap, closing>> /\ loading \subseteq 1 .. ids
    BY <1>1 DEF diskVars, memoryVars, EngineInv, TypeInv
  <2>5. CallerFits(caller[c])'
    BY <1>1, <2>1, <2>2, <2>3, <2>4 DEF CallerFits, Loads, Uses, Holding
  <2>6. QED
    BY <1>1, <2>2, <2>3, <2>4, <2>5, CallerMoves DEF Holding, Loads
<1>4. QED
  BY <1>2, <1>3 DEF EngineInv, TypeInv

LEMMA LookupKeeps ==
    ASSUME EngineInv, NEW c \in Callers, Lookup(c)
    PROVE  EngineInv'
<1> DEFINE id == caller[c].id
<1>1. /\ caller[c].pc = "lookup" /\ caller[c] \in Caller /\ CallerFits(caller[c])
      /\ UNCHANGED <<diskVars, plugins, heap, closing, admin>>
      /\ UNCHANGED <<row, ids, files>>
  BY DEF Lookup, EngineInv, TypeInv, diskVars
<1>2. id \in 1 .. ids /\ loading \subseteq 1 .. ids /\ ids \in Nat /\ Len(heap) \in Nat
  BY <1>1 DEF CallerFits, Caller, EngineInv, TypeInv
<1>3. CASE id \in DOMAIN plugins /\ loading' = loading
           /\ caller' = [caller EXCEPT ![c].pc = "acquire", ![c].plugin = plugins[id]]
  <2> DEFINE r == [caller[c] EXCEPT !.pc = "acquire", !.plugin = plugins[id]]
  <2>1. plugins[id] \in Nat /\ plugins[id] <= Len(heap) /\ plugins[id] # 0
    <3>1. plugins[id] \in 1 .. Len(heap)
      BY <1>3 DEF EngineInv, TypeInv
    <3>2. QED
      BY <1>2, <3>1
  <2>2. r \in Caller /\ r.pc = "acquire" /\ r.id = id /\ r.plugin = plugins[id]
    BY <1>1, <2>1 DEF Caller, CallerLabels
  <2>3. caller' = [caller EXCEPT ![c] = r] /\ caller'[c] = r
    BY <1>3 DEF EngineInv, TypeInv
  <2>4. CallerFits(caller[c])'
    BY <1>1, <1>2, <1>3, <2>1, <2>2, <2>3 DEF CallerFits, Loads, Uses, Holding
  <2>5. QED
    BY <1>1, <1>2, <1>3, <2>2, <2>3, <2>4, CallerMoves DEF Holding, Loads
<1>4. CASE Goto(c, "await") /\ loading' = loading
  BY <1>1, <1>4, GotoKeeps DEF CallerLabels, memoryVars
<1>5. CASE id \notin DOMAIN plugins /\ id \notin loading /\ loading' = loading \cup {id} /\ Goto(c, "readRow")
  <2> DEFINE r == [caller[c] EXCEPT !.pc = "readRow"]
  <2>1. r \in Caller /\ r.pc = "readRow" /\ r.id = id /\ r.plugin = caller[c].plugin
    BY <1>1 DEF Caller, CallerLabels
  <2>2. caller' = [caller EXCEPT ![c] = r] /\ caller'[c] = r
    BY <1>5 DEF Goto, EngineInv, TypeInv
  <2>3. CallerFits(caller[c])'
    BY <1>1, <1>2, <1>5, <2>1, <2>2 DEF CallerFits, Loads, Uses, Holding
  <2>4. loading \subseteq loading' /\ loading' \subseteq 1 .. ids
    BY <1>2, <1>5
  <2>5. QED
    BY <1>1, <1>2, <1>5, <2>1, <2>2, <2>3, <2>4, CallerMoves DEF Holding, Loads
<1>6. QED
  BY <1>3, <1>4, <1>5 DEF Lookup

LEMMA ReadRowKeeps ==
    ASSUME EngineInv, NEW c \in Callers, ReadRow(c)
    PROVE  EngineInv'
<1> DEFINE r == [caller[c] EXCEPT !.pc = IF row.installed THEN "compile" ELSE "store", !.path = row.path]
<1>1. /\ caller[c].pc = "readRow" /\ caller[c] \in Caller /\ CallerFits(caller[c])
      /\ UNCHANGED <<diskVars, memoryVars, admin>>
      /\ UNCHANGED <<row, ids, files, plugins, loading, heap, closing>> /\ loading \subseteq 1 .. ids
  BY DEF ReadRow, EngineInv, TypeInv, diskVars, memoryVars
<1>2. row.path \in Paths \cup {None} /\ (row.installed => row.path \in Paths)
  BY DEF EngineInv, TypeInv, RowFits
<1>3. /\ r \in Caller /\ r.pc = (IF row.installed THEN "compile" ELSE "store")
      /\ r.id = caller[c].id /\ r.plugin = caller[c].plugin /\ r.path = row.path
  BY <1>1, <1>2 DEF Caller, CallerLabels
<1>4. caller' = [caller EXCEPT ![c] = r] /\ caller'[c] = r
  BY DEF ReadRow, EngineInv, TypeInv
<1>5. CallerFits(caller[c])'
  BY <1>1, <1>2, <1>3, <1>4 DEF CallerFits, Loads, Uses, Holding
<1>6. r.pc \notin Holding /\ caller[c].pc \notin Holding /\ caller[c].pc \in Loads
  BY <1>1, <1>3 DEF Holding, Loads
<1>7. QED
  BY <1>1, <1>3, <1>4, <1>5, <1>6, CallerMoves

LEMMA CheckRoomKeeps ==
    ASSUME EngineInv, NEW c \in Callers, CheckRoom(c)
    PROVE  EngineInv'
<1>1. /\ caller[c].pc = "acquire" /\ caller[c] \in Caller /\ CallerFits(caller[c])
      /\ UNCHANGED <<diskVars, memoryVars, admin>>
      /\ UNCHANGED <<row, ids, files, plugins, loading, heap, closing>> /\ loading \subseteq 1 .. ids
  BY DEF CheckRoom, EngineInv, TypeInv, diskVars, memoryVars
<1>2. CASE Return(c)
  BY <1>1, <1>2, ReturnKeeps DEF Holding
<1>3. CASE caller' = [caller EXCEPT ![c].pc = "take", ![c].room = Pool(c).live < PoolSize]
  <2> DEFINE room == Pool(c).live < PoolSize
             r == [caller[c] EXCEPT !.pc = "take", !.room = room]
  <2>1. room \in BOOLEAN
    OBVIOUS
  <2>2. r \in Caller /\ r.pc = "take" /\ r.id = caller[c].id /\ r.plugin = caller[c].plugin
    BY <1>1, <2>1 DEF Caller, CallerLabels
  <2>3. caller' = [caller EXCEPT ![c] = r] /\ caller'[c] = r
    BY <1>3 DEF EngineInv, TypeInv
  <2>4. CallerFits(caller[c])'
    BY <1>1, <2>2, <2>3 DEF CallerFits, Loads, Uses, Holding
  <2>5. QED
    BY <1>1, <2>2, <2>3, <2>4, CallerMoves DEF Holding, Loads
<1>4. QED
  BY <1>2, <1>3 DEF CheckRoom

-----------------------------------------------------------------------------
(* Instances change hands                                                  *)

\* One plugin of the heap is replaced by its next state.
LEMMA HeapEntry ==
    ASSUME heap \in Seq(Plugin), NEW p \in 1 .. Len(heap), NEW q \in Plugin,
           heap' = [heap EXCEPT ![p] = q]
    PROVE  /\ heap' \in Seq(Plugin) /\ Len(heap') = Len(heap) /\ DOMAIN heap' = DOMAIN heap
           /\ DOMAIN heap = 1 .. Len(heap)
           /\ heap'[p] = q /\ \A i \in 1 .. Len(heap) : i # p => heap'[i] = heap[i]
OBVIOUS

\* A caller takes an instance of a plugin, gives one back or destroys it: the plugin stays
\* what it is, and nobody else's count changes.
LEMMA PoolChanges ==
    ASSUME EngineInv, NEW c \in Callers, NEW r \in Caller, NEW p, NEW q \in Plugin,
           caller[c].plugin = p, caller' = [caller EXCEPT ![c] = r], heap' = [heap EXCEPT ![p] = q],
           UNCHANGED <<diskVars, plugins, loading, closing, admin>>,
           caller[c].pc \in Uses, r.pc \in {"idle"} \cup Holding,
           r.pc = "idle" => r.id = 0 /\ r.plugin = 0,
           r.pc \in Holding => r.id = caller[c].id /\ r.plugin = p,
           q.id = heap[p].id, q.phase = heap[p].phase, Accounted(p)'
    PROVE  EngineInv'
<1>1. /\ UNCHANGED <<row, ids, files>> /\ ids \in Nat /\ Len(heap) \in Nat
      /\ caller[c] \in Caller /\ CallerFits(caller[c]) /\ heap \in Seq(Plugin)
  BY DEF diskVars, EngineInv, TypeInv
<1>2. p \in 1 .. Len(heap)
  BY <1>1 DEF CallerFits, Caller
<1>3. /\ heap' \in Seq(Plugin) /\ Len(heap') = Len(heap) /\ DOMAIN heap' = DOMAIN heap
      /\ DOMAIN heap = 1 .. Len(heap)
      /\ heap'[p] = q /\ \A i \in 1 .. Len(heap) : i # p => heap'[i] = heap[i]
  BY <1>1, <1>2, HeapEntry
<1>4. \A i \in 1 .. Len(heap) : heap'[i].id = heap[i].id /\ heap'[i].phase = heap[i].phase
  BY <1>2, <1>3
<1>5. caller' \in [Callers -> Caller] /\ caller'[c] = r /\ \A d \in Callers \ {c} : caller'[d] = caller[d]
  BY DEF EngineInv, TypeInv
<1>6. TypeInv'
  BY <1>1, <1>3, <1>5 DEF EngineInv, TypeInv
<1>7. RowFits' /\ MapFits'
  <2>1. \A id \in DOMAIN plugins : plugins[id] \in 1 .. Len(heap)
    BY DEF EngineInv, TypeInv
  <2>2. QED
    BY <1>1, <1>4, <2>1 DEF EngineInv, RowFits, MapFits
<1>8. ASSUME NEW d \in Callers PROVE CallerFits(caller[d])'
  <2>1. CASE d = c
    <3>1. r.id <= ids /\ r.plugin <= Len(heap) /\ (r.pc \in Uses => r.plugin # 0)
      BY <1>1, <1>2 DEF Holding, Uses, CallerFits
    <3>2. QED
      BY <1>1, <1>3, <1>5, <2>1, <3>1 DEF CallerFits, Holding, Loads, Uses
  <2>2. CASE d # c
    <3>1. caller'[d] = caller[d] /\ CallerFits(caller[d]) /\ caller[d] \in Caller
      BY <1>5, <2>2 DEF EngineInv, TypeInv
    <3>2. ASSUME caller[d].plugin # 0
          PROVE  /\ heap'[caller[d].plugin].id = heap[caller[d].plugin].id
                 /\ heap'[caller[d].plugin].phase = heap[caller[d].plugin].phase
      <4>1. caller[d].plugin \in 1 .. Len(heap)
        BY <1>1, <3>1, <3>2 DEF CallerFits, Caller
      <4>2. QED
        BY <1>4, <4>1
    <3>3. QED
      BY <1>1, <1>3, <3>1, <3>2 DEF CallerFits
  <2>3. QED
    BY <2>1, <2>2
<1>9. LoadersApart'
  <2>1. caller'[c].pc \notin Loads
    BY <1>5 DEF Holding, Loads
  <2>2. QED
    BY <1>5, <2>1 DEF EngineInv, LoadersApart
<1>10. \A a \in Admins : AdminFits(admin[a])'
  BY <1>1 DEF EngineInv, AdminFits
<1>11. ASSUME NEW i \in 1 .. Len(heap), i # p PROVE Accounted(i)'
  <2>1. r.pc \in Holding => r.plugin = p
    OBVIOUS
  <2>2. Holders(i)' = Holders(i)
    BY <1>5, <1>11, <2>1 DEF Holders
  <2>3. QED
    BY <1>3, <1>11, <2>2 DEF EngineInv, Accounted
<1>12. NoPluginLeak'
  <2>1. caller[c].pc # "store" /\ \A d \in Callers : caller[d].pc = "store" => caller'[d] = caller[d]
    BY <1>5 DEF Uses, Holding
  <2>2. QED
    BY <1>3, <1>4, <2>1 DEF EngineInv, NoPluginLeak
<1>13. QED
  BY <1>3, <1>6, <1>7, <1>8, <1>9, <1>10, <1>11, <1>12 DEF EngineInv

\* One more caller holds an instance of a plugin.
LEMMA HoldersGrow ==
    ASSUME NEW p, IsFiniteSet(Holders(p)), NEW c \in Callers, NEW r,
           caller \in [Callers -> Caller], caller' = [caller EXCEPT ![c] = r],
           caller[c].pc \notin Holding, r.pc \in Holding, r.plugin = p
    PROVE  /\ IsFiniteSet(Holders(p)') /\ Cardinality(Holders(p)) \in Nat
           /\ Cardinality(Holders(p)') = Cardinality(Holders(p)) + 1
<1>1. Holders(p)' = Holders(p) \cup {c} /\ c \notin Holders(p)
  BY DEF Holders
<1>2. QED
  BY <1>1, FS_AddElement, FS_CardinalityType

\* One caller fewer does.
LEMMA HoldersShrink ==
    ASSUME NEW p, IsFiniteSet(Holders(p)), NEW c \in Callers, NEW r,
           caller \in [Callers -> Caller], caller' = [caller EXCEPT ![c] = r],
           caller[c].pc \in Holding, caller[c].plugin = p, r.pc \notin Holding
    PROVE  /\ IsFiniteSet(Holders(p)') /\ Cardinality(Holders(p)) \in Nat \ {0}
           /\ Cardinality(Holders(p)') = Cardinality(Holders(p)) - 1
<1>1. Holders(p)' = Holders(p) \ {c} /\ c \in Holders(p)
  BY DEF Holders
<1>2. /\ IsFiniteSet(Holders(p)') /\ Cardinality(Holders(p)') = Cardinality(Holders(p)) - 1
  BY <1>1, FS_RemoveElement
<1>3. Cardinality(Holders(p)) \in Nat /\ Cardinality(Holders(p)) # 0
  BY <1>1, FS_CardinalityType, FS_EmptySet
<1>4. QED
  BY <1>2, <1>3

\* What is known of the plugin a caller uses.
LEMMA PluginInUse ==
    ASSUME EngineInv, NEW c \in Callers, caller[c].pc \in Uses
    PROVE  /\ caller[c] \in Caller /\ caller[c].plugin \in 1 .. Len(heap)
           /\ heap \in Seq(Plugin) /\ heap[caller[c].plugin] \in Plugin
           /\ Accounted(caller[c].plugin)
<1>1. caller[c] \in Caller /\ CallerFits(caller[c]) /\ heap \in Seq(Plugin) /\ Len(heap) \in Nat
  BY DEF EngineInv, TypeInv
<1>2. caller[c].plugin \in 1 .. Len(heap)
  BY <1>1 DEF CallerFits, Caller
<1>3. QED
  BY <1>1, <1>2 DEF EngineInv

\* An instance is taken from the channel, or a new one is made.
LEMMA TakesInstance ==
    ASSUME EngineInv, NEW c \in Callers, caller[c].pc \in {"take", "wait"}, Goto(c, "call"),
           NEW p, caller[c].plugin = p, NEW q \in Plugin, heap' = [heap EXCEPT ![p] = q],
           q.live - q.idle = heap[p].live - heap[p].idle + 1,
           q.id = heap[p].id, q.phase = heap[p].phase,
           UNCHANGED <<diskVars, plugins, loading, closing, admin>>
    PROVE  EngineInv'
<1> DEFINE r == [caller[c] EXCEPT !.pc = "call"]
<1>1. /\ caller[c] \in Caller /\ p \in 1 .. Len(heap) /\ heap \in Seq(Plugin) /\ heap[p] \in Plugin
      /\ Accounted(p) /\ caller \in [Callers -> Caller]
  BY PluginInUse DEF Uses, EngineInv, TypeInv
<1>2. r \in Caller /\ r.pc = "call" /\ r.id = caller[c].id /\ r.plugin = p /\ caller' = [caller EXCEPT ![c] = r]
  BY <1>1 DEF Goto, Caller, CallerLabels
<1>3. /\ IsFiniteSet(Holders(p)') /\ Cardinality(Holders(p)) \in Nat
      /\ Cardinality(Holders(p)') = Cardinality(Holders(p)) + 1
  BY <1>1, <1>2, HoldersGrow DEF Accounted, Holding
<1>4. heap'[p] = q
  BY <1>1, HeapEntry
<1>5. Accounted(p)'
  <2>1. {q.live, q.idle, heap[p].live, heap[p].idle} \subseteq Nat
    BY <1>1 DEF Plugin
  <2>2. heap[p].live = heap[p].idle + Cardinality(Holders(p))
    BY <1>1 DEF Accounted
  <2>3. q.live = q.idle + Cardinality(Holders(p)')
    BY <1>3, <2>1, <2>2
  <2>4. QED
    BY <1>3, <1>4, <2>3 DEF Accounted
<1>6. QED
  BY <1>1, <1>2, <1>5, PoolChanges DEF Uses, Holding

\* An instance goes back to the channel, or is destroyed.
LEMMA ReturnsInstance ==
    ASSUME EngineInv, NEW c \in Callers, caller[c].pc \in {"push", "discard"}, Return(c),
           NEW p, caller[c].plugin = p, NEW q \in Plugin, heap' = [heap EXCEPT ![p] = q],
           q.live - q.idle = heap[p].live - heap[p].idle - 1,
           q.id = heap[p].id, q.phase = heap[p].phase,
           UNCHANGED <<diskVars, plugins, loading, closing, admin>>
    PROVE  EngineInv'
<1>1. /\ caller[c] \in Caller /\ p \in 1 .. Len(heap) /\ heap \in Seq(Plugin) /\ heap[p] \in Plugin
      /\ Accounted(p) /\ caller \in [Callers -> Caller]
  BY PluginInUse DEF Uses, Holding, EngineInv, TypeInv
<1>2. /\ NoCall \in Caller /\ NoCall.pc = "idle" /\ NoCall.id = 0 /\ NoCall.plugin = 0
      /\ caller' = [caller EXCEPT ![c] = NoCall]
  BY DEF Return, NoCall, Caller, CallerLabels
<1>3. /\ IsFiniteSet(Holders(p)') /\ Cardinality(Holders(p)) \in Nat \ {0}
      /\ Cardinality(Holders(p)') = Cardinality(Holders(p)) - 1
  BY <1>1, <1>2, HoldersShrink DEF Accounted, Holding
<1>4. heap'[p] = q
  BY <1>1, HeapEntry
<1>5. Accounted(p)'
  <2>1. {q.live, q.idle, heap[p].live, heap[p].idle} \subseteq Nat
    BY <1>1 DEF Plugin
  <2>2. heap[p].live = heap[p].idle + Cardinality(Holders(p))
    BY <1>1 DEF Accounted
  <2>3. q.live = q.idle + Cardinality(Holders(p)')
    BY <1>3, <2>1, <2>2
  <2>4. QED
    BY <1>3, <1>4, <2>3 DEF Accounted
<1>6. QED
  BY <1>1, <1>2, <1>5, PoolChanges DEF Uses, Holding

\* A plugin with another number of live instances, or of idle ones.
LEMMA PluginLive ==
    ASSUME NEW o \in Plugin, NEW live \in Nat
    PROVE  /\ [o EXCEPT !.live = live] \in Plugin /\ [o EXCEPT !.live = live].idle = o.idle
           /\ [o EXCEPT !.live = live].live = live
           /\ [o EXCEPT !.live = live].id = o.id /\ [o EXCEPT !.live = live].phase = o.phase
BY DEF Plugin

LEMMA PluginIdle ==
    ASSUME NEW o \in Plugin, NEW idle \in Nat
    PROVE  /\ [o EXCEPT !.idle = idle] \in Plugin /\ [o EXCEPT !.idle = idle].live = o.live
           /\ [o EXCEPT !.idle = idle].idle = idle
           /\ [o EXCEPT !.idle = idle].id = o.id /\ [o EXCEPT !.idle = idle].phase = o.phase
BY DEF Plugin

\* The counts of the plugin a caller uses, and their owner.
LEMMA CountsInUse ==
    ASSUME EngineInv, NEW c \in Callers, caller[c].pc \in Uses, NEW p, caller[c].plugin = p
    PROVE  /\ heap[p] \in Plugin /\ heap[p].live \in Nat /\ heap[p].idle \in Nat
           /\ caller[c].pc \in Holding => heap[p].live # 0 /\ heap[p].live > heap[p].idle
<1>1. heap[p] \in Plugin /\ Accounted(p) /\ caller \in [Callers -> Caller]
  BY PluginInUse DEF EngineInv, TypeInv
<1>2. heap[p].live \in Nat /\ heap[p].idle \in Nat
  BY <1>1 DEF Plugin
<1>3. ASSUME caller[c].pc \in Holding PROVE heap[p].live # 0 /\ heap[p].live > heap[p].idle
  <2>1. c \in Holders(p)
    BY <1>3 DEF Holders
  <2>2. Cardinality(Holders(p)) \in Nat /\ Cardinality(Holders(p)) # 0
    BY <1>1, <2>1, FS_CardinalityType, FS_EmptySet DEF Accounted
  <2>3. QED
    BY <1>1, <1>2, <2>2 DEF Accounted
<1>4. QED
  BY <1>1, <1>2, <1>3

LEMMA TakeOrCreateKeeps ==
    ASSUME EngineInv, NEW c \in Callers, TakeOrCreate(c)
    PROVE  EngineInv'
<1> DEFINE p == caller[c].plugin
<1>1. /\ caller[c].pc = "take" /\ caller[c].pc \in Uses
      /\ UNCHANGED <<diskVars, plugins, loading, closing, admin>>
  BY DEF TakeOrCreate, Uses
<1>2. heap[p] \in Plugin /\ heap[p].live \in Nat /\ heap[p].idle \in Nat
  BY <1>1, CountsInUse
<1>3. CASE heap[p].idle > 0 /\ heap' = [heap EXCEPT ![p].idle = @ - 1] /\ Goto(c, "call")
  <2> DEFINE q == [heap[p] EXCEPT !.idle = heap[p].idle - 1]
  <2>1. heap[p].idle - 1 \in Nat
    BY <1>2, <1>3
  <2>2. /\ q \in Plugin /\ q.live = heap[p].live /\ q.idle = heap[p].idle - 1
        /\ q.id = heap[p].id /\ q.phase = heap[p].phase
    BY <1>2, <2>1, PluginIdle
  <2>3. q.live - q.idle = heap[p].live - heap[p].idle + 1
    BY <1>2, <2>2
  <2>4. heap' = [heap EXCEPT ![p] = q]
    BY <1>3
  <2>5. QED
    BY <1>1, <1>3, <2>2, <2>3, <2>4, TakesInstance
<1>4. CASE heap' = [heap EXCEPT ![p].live = @ + 1] /\ Goto(c, "call")
  <2> DEFINE q == [heap[p] EXCEPT !.live = heap[p].live + 1]
  <2>1. heap[p].live + 1 \in Nat
    BY <1>2
  <2>2. /\ q \in Plugin /\ q.live = heap[p].live + 1 /\ q.idle = heap[p].idle
        /\ q.id = heap[p].id /\ q.phase = heap[p].phase
    BY <1>2, <2>1, PluginLive
  <2>3. q.live - q.idle = heap[p].live - heap[p].idle + 1
    BY <1>2, <2>2
  <2>4. heap' = [heap EXCEPT ![p] = q]
    BY <1>4
  <2>5. QED
    BY <1>1, <1>4, <2>2, <2>3, <2>4, TakesInstance
<1>5. CASE Return(c) /\ UNCHANGED heap
  BY <1>1, <1>5, ReturnKeeps DEF memoryVars, Holding
<1>6. CASE Goto(c, "wait") /\ UNCHANGED heap
  BY <1>1, <1>6, GotoKeeps DEF memoryVars, CallerLabels
<1>7. QED
  BY <1>3, <1>4, <1>5, <1>6 DEF TakeOrCreate

LEMMA WaitIdleKeeps ==
    ASSUME EngineInv, NEW c \in Callers, WaitIdle(c)
    PROVE  EngineInv'
<1> DEFINE p == caller[c].plugin
<1>1. /\ caller[c].pc = "wait" /\ caller[c].pc \in Uses
      /\ UNCHANGED <<diskVars, plugins, loading, closing, admin>>
  BY DEF WaitIdle, Uses
<1>2. heap[p] \in Plugin /\ heap[p].live \in Nat /\ heap[p].idle \in Nat
  BY <1>1, CountsInUse
<1>3. CASE heap[p].idle > 0 /\ heap' = [heap EXCEPT ![p].idle = @ - 1] /\ Goto(c, "call")
  <2> DEFINE q == [heap[p] EXCEPT !.idle = heap[p].idle - 1]
  <2>1. heap[p].idle - 1 \in Nat
    BY <1>2, <1>3
  <2>2. /\ q \in Plugin /\ q.live = heap[p].live /\ q.idle = heap[p].idle - 1
        /\ q.id = heap[p].id /\ q.phase = heap[p].phase
    BY <1>2, <2>1, PluginIdle
  <2>3. q.live - q.idle = heap[p].live - heap[p].idle + 1
    BY <1>2, <2>2
  <2>4. heap' = [heap EXCEPT ![p] = q]
    BY <1>3
  <2>5. QED
    BY <1>1, <1>3, <2>2, <2>3, <2>4, TakesInstance
<1>4. CASE Return(c) /\ UNCHANGED heap
  BY <1>1, <1>4, ReturnKeeps DEF memoryVars, Holding
<1>5. QED
  BY <1>3, <1>4 DEF WaitIdle

LEMMA PushIdleKeeps ==
    ASSUME EngineInv, NEW c \in Callers, PushIdle(c)
    PROVE  EngineInv'
<1> DEFINE p == caller[c].plugin
<1>1. /\ caller[c].pc = "push" /\ caller[c].pc \in Uses
      /\ UNCHANGED <<diskVars, plugins, loading, closing, admin>>
  BY DEF PushIdle, Uses, Holding
<1>2. heap[p] \in Plugin /\ heap[p].live \in Nat /\ heap[p].idle \in Nat
  BY <1>1, CountsInUse
<1>3. CASE heap' = [heap EXCEPT ![p].idle = @ + 1] /\ Return(c)
  <2> DEFINE q == [heap[p] EXCEPT !.idle = heap[p].idle + 1]
  <2>1. heap[p].idle + 1 \in Nat
    BY <1>2
  <2>2. /\ q \in Plugin /\ q.live = heap[p].live /\ q.idle = heap[p].idle + 1
        /\ q.id = heap[p].id /\ q.phase = heap[p].phase
    BY <1>2, <2>1, PluginIdle
  <2>3. q.live - q.idle = heap[p].live - heap[p].idle - 1
    BY <1>2, <2>2
  <2>4. heap' = [heap EXCEPT ![p] = q]
    BY <1>3
  <2>5. QED
    BY <1>1, <1>3, <2>2, <2>3, <2>4, ReturnsInstance
<1>4. CASE Goto(c, "discard") /\ UNCHANGED heap
  BY <1>1, <1>4, GotoKeeps DEF memoryVars, CallerLabels, Holding
<1>5. QED
  BY <1>3, <1>4 DEF PushIdle

LEMMA DiscardKeeps ==
    ASSUME EngineInv, NEW c \in Callers, Discard(c)
    PROVE  EngineInv'
<1> DEFINE p == caller[c].plugin
           q == [heap[p] EXCEPT !.live = heap[p].live - 1]
<1>1. /\ caller[c].pc = "discard" /\ caller[c].pc \in Uses /\ Return(c)
      /\ UNCHANGED <<diskVars, plugins, loading, closing, admin>>
  BY DEF Discard, Uses, Holding
<1>2. heap[p] \in Plugin /\ heap[p].live \in Nat /\ heap[p].idle \in Nat /\ heap[p].live # 0
  BY <1>1, CountsInUse DEF Holding
<1>3. heap[p].live - 1 \in Nat
  BY <1>2
<1>4. /\ q \in Plugin /\ q.live = heap[p].live - 1 /\ q.idle = heap[p].idle
      /\ q.id = heap[p].id /\ q.phase = heap[p].phase
  BY <1>2, <1>3, PluginLive
<1>5. q.live - q.idle = heap[p].live - heap[p].idle - 1
  BY <1>2, <1>4
<1>6. heap' = [heap EXCEPT ![p] = q]
  BY DEF Discard
<1>7. QED
  BY <1>1, <1>4, <1>5, <1>6, ReturnsInstance

-----------------------------------------------------------------------------
(* A plugin is compiled, and stored                                        *)

\* What is said of a plugin and of a caller while the heap grows at its end.
LEMMA CompileKeeps ==
    ASSUME EngineInv, NEW c \in Callers, Compile(c)
    PROVE  EngineInv'
<1> DEFINE n == Len(heap) + 1
           new == [id |-> caller[c].id, build |-> files[caller[c].path], live |-> 1, idle |-> 1,
                   phase |-> "open"]
           r == [caller[c] EXCEPT !.pc = "store", !.plugin = n]
<1>1. /\ caller[c].pc = "compile" /\ caller[c] \in Caller /\ CallerFits(caller[c])
      /\ UNCHANGED <<diskVars, plugins, loading, closing, admin>> /\ UNCHANGED <<row, ids, files>>
      /\ heap \in Seq(Plugin) /\ Len(heap) \in Nat /\ ids \in Nat
  BY DEF Compile, EngineInv, TypeInv, diskVars
<1>2. CASE Goto(c, "store") /\ UNCHANGED heap
  BY <1>1, <1>2, GotoKeeps DEF memoryVars, CallerLabels
<1>3. CASE /\ files[caller[c].path] # None /\ heap' = Append(heap, new)
           /\ caller' = [caller EXCEPT ![c].pc = "store", ![c].plugin = Len(heap')]
  <2>1. new \in Plugin
    <3>1. caller[c].path \in Paths /\ caller[c].id \in Nat
      BY <1>1 DEF CallerFits, Caller
    <3>2. files[caller[c].path] \in Builds
      BY <1>3, <3>1 DEF EngineInv, TypeInv
    <3>3. QED
      BY <3>1, <3>2 DEF Plugin
  <2>2. /\ heap' \in Seq(Plugin) /\ Len(heap') = n /\ heap'[n] = new /\ n \in Nat /\ n # 0
        /\ \A i \in 1 .. Len(heap) : heap'[i] = heap[i]
        /\ DOMAIN heap' = 1 .. n /\ DOMAIN heap = 1 .. Len(heap)
        /\ \A i \in 1 .. n : i = n \/ i \in 1 .. Len(heap)
    BY <1>1, <1>3, <2>1
  <2>3. /\ r \in Caller /\ r.pc = "store" /\ r.plugin = n /\ r.id = caller[c].id
    BY <1>1, <2>2 DEF Caller, CallerLabels
  <2>4. /\ caller' \in [Callers -> Caller] /\ caller'[c] = r
        /\ \A d \in Callers \ {c} : caller'[d] = caller[d]
    BY <1>3, <2>2, <2>3 DEF EngineInv, TypeInv
  <2>5. TypeInv'
    <3>1. closing \subseteq 1 .. n /\ plugins \in [DOMAIN plugins -> 1 .. n]
      BY <1>1, <2>2 DEF EngineInv, TypeInv
    <3>2. QED
      BY <1>1, <2>2, <2>4, <3>1 DEF EngineInv, TypeInv
  <2>6. RowFits' /\ MapFits'
    <3>1. \A id \in DOMAIN plugins : plugins[id] \in 1 .. Len(heap)
      BY DEF EngineInv, TypeInv
    <3>2. QED
      BY <1>1, <2>2, <3>1 DEF EngineInv, RowFits, MapFits
  <2>7. ASSUME NEW d \in Callers PROVE CallerFits(caller[d])'
    <3>1. CASE d = c
      <4>1. n \notin closing
        BY <1>1, <2>2 DEF EngineInv, TypeInv
      <4>2. caller[c].id <= ids /\ caller[c].id # 0 /\ caller[c].id \in loading
            /\ caller[c].id \notin DOMAIN plugins
        BY <1>1 DEF CallerFits, Loads
      <4>3. n <= Len(heap')
        BY <2>2
      <4>4. /\ caller'[d].pc = "store" /\ caller'[d].id = caller[c].id /\ caller'[d].plugin = n
            /\ heap'[n].id = caller[c].id /\ heap'[n].phase = "open"
        <5>1. heap'[n] = new /\ new.id = caller[c].id /\ new.phase = "open"
          BY <2>2
        <5>2. caller'[c].pc = "store" /\ caller'[c].id = caller[c].id /\ caller'[c].plugin = n
          BY <2>3, <2>4
        <5>3. QED
          BY <3>1, <5>1, <5>2
      <4>5. UNCHANGED <<ids, loading, plugins, closing>>
        BY <1>1
      <4>6. QED
        BY <4>1, <4>2, <4>3, <4>4, <4>5 DEF CallerFits, Loads, Uses, Holding
    <3>2. CASE d # c
      <4>1. caller'[d] = caller[d] /\ CallerFits(caller[d]) /\ caller[d] \in Caller
        BY <2>4, <3>2 DEF EngineInv, TypeInv
      <4>2. caller[d].plugin <= n /\ (caller[d].plugin # 0 => heap'[caller[d].plugin] = heap[caller[d].plugin])
        BY <1>1, <2>2, <4>1 DEF CallerFits, Caller
      <4>3. QED
        BY <1>1, <2>2, <4>1, <4>2 DEF CallerFits
    <3>3. QED
      BY <3>1, <3>2
  <2>8. LoadersApart'
    <3>1. caller[c].pc \in Loads /\ caller'[c].pc \in Loads /\ caller'[c].id = caller[c].id
      BY <1>1, <2>3, <2>4 DEF Loads
    <3>2. \A d \in Callers : caller'[d].pc \in Loads =>
             caller[d].pc \in Loads /\ caller'[d].id = caller[d].id
      BY <2>4, <3>1
    <3>3. QED
      BY <3>2 DEF EngineInv, LoadersApart
  <2>9. \A a \in Admins : AdminFits(admin[a])'
    BY <1>1 DEF EngineInv, AdminFits
  <2>10. ASSUME NEW p \in 1 .. n PROVE Accounted(p)'
    <3>1. caller[c].pc \notin Holding /\ caller'[c].pc \notin Holding
      BY <1>1, <2>3, <2>4 DEF Holding
    <3>2. Holders(p)' = Holders(p)
      BY <2>4, <3>1 DEF Holders
    <3>3. CASE p = n
      <4>1. \A d \in Callers : caller[d].plugin <= Len(heap) /\ caller[d].plugin \in Nat
        BY DEF EngineInv, TypeInv, CallerFits, Caller
      <4>2. Holders(n) = {}
        BY <1>1, <4>1 DEF Holders
      <4>3. IsFiniteSet(Holders(p)') /\ Cardinality(Holders(p)') = 0
        BY <3>2, <3>3, <4>2, FS_EmptySet
      <4>4. QED
        BY <2>2, <3>3, <4>3 DEF Accounted
    <3>4. CASE p # n
      <4>1. p \in 1 .. Len(heap)
        BY <2>2, <3>4
      <4>2. QED
        BY <2>2, <3>2, <4>1 DEF EngineInv, Accounted
    <3>5. QED
      BY <3>3, <3>4
  <2>11. NoPluginLeak'
    <3>1. ASSUME NEW p \in 1 .. n, heap'[p].phase = "open"
          PROVE  \/ p \in closing' \/ p \in {plugins'[id] : id \in DOMAIN plugins'}
                 \/ \E d \in Callers : caller'[d].pc = "store" /\ caller'[d].plugin = p
      <4>1. CASE p = n
        BY <2>3, <2>4, <4>1
      <4>2. CASE p # n
        <5>1. p \in 1 .. Len(heap) /\ heap'[p] = heap[p]
          BY <2>2, <4>2
        <5>2. \A d \in Callers : caller[d].pc = "store" => caller'[d] = caller[d]
          BY <1>1, <2>4
        <5>3. QED
          BY <1>1, <2>2, <3>1, <5>1, <5>2 DEF EngineInv, NoPluginLeak
      <4>3. QED
        BY <4>1, <4>2
    <3>2. QED
      BY <2>2, <3>1 DEF NoPluginLeak
  <2>12. QED
    BY <2>2, <2>5, <2>6, <2>7, <2>8, <2>9, <2>10, <2>11 DEF EngineInv
<1>4. QED
  BY <1>2, <1>3 DEF Compile

\* The claim is returned with the plugin in the map, or without: nobody else loads the
\* source, so nothing is overwritten.
LEMMA StoreKeeps ==
    ASSUME EngineInv, NEW c \in Callers, Store(c)
    PROVE  EngineInv'
<1> DEFINE id == caller[c].id
           ok == caller[c].plugin # 0
<1>1. /\ caller[c].pc = "store" /\ caller[c] \in Caller /\ CallerFits(caller[c])
      /\ loading' = loading \ {id} /\ UNCHANGED <<row, ids, files, heap, closing, admin>>
      /\ ids \in Nat /\ Len(heap) \in Nat
  BY DEF Store, diskVars, EngineInv, TypeInv
<1>2. /\ id \in 1 .. ids /\ id \in loading /\ id \notin DOMAIN plugins
      /\ ok => /\ heap[caller[c].plugin].id = id /\ heap[caller[c].plugin].phase = "open"
               /\ caller[c].plugin \notin closing /\ caller[c].plugin \in 1 .. Len(heap)
  BY <1>1 DEF CallerFits, Caller, Loads
<1>3. /\ ok => /\ DOMAIN plugins' = DOMAIN plugins \cup {id} /\ plugins'[id] = caller[c].plugin
               /\ \A i \in DOMAIN plugins : plugins'[i] = plugins[i]
               /\ plugins' = [i \in DOMAIN plugins' |-> plugins'[i]]
      /\ ~ok => plugins' = plugins
  BY <1>2 DEF Store
<1>4. /\ NoCall \in Caller /\ NoCall.pc = "idle" /\ NoCall.id = 0 /\ NoCall.plugin = 0
      /\ \A d \in Callers : [caller[d] EXCEPT !.pc = "lookup"] \in Caller
      /\ [caller[c] EXCEPT !.pc = "acquire"] \in Caller
  <2>1. NoCall \in Caller /\ NoCall.pc = "idle" /\ NoCall.id = 0 /\ NoCall.plugin = 0
    BY DEF NoCall, Caller, CallerLabels
  <2>2. ASSUME NEW r \in Caller PROVE {[r EXCEPT !.pc = "lookup"], [r EXCEPT !.pc = "acquire"]} \subseteq Caller
    BY DEF Caller, CallerLabels
  <2>3. \A d \in Callers : caller[d] \in Caller
    BY DEF EngineInv, TypeInv
  <2>4. QED
    BY <2>1, <2>2, <2>3
<1>5. /\ caller' \in [Callers -> Caller]
      /\ ok => /\ caller'[c].pc = "acquire" /\ caller'[c].id = id
               /\ caller'[c].plugin = caller[c].plugin /\ caller'[c].path = caller[c].path
      /\ ~ok => caller'[c] = NoCall
      /\ \A d \in Callers \ {c} :
            \/ caller'[d] = caller[d]
            \/ /\ caller[d].pc = "await" /\ caller'[d].pc = "lookup" /\ caller'[d].id = caller[d].id
               /\ caller'[d].plugin = caller[d].plugin /\ caller'[d].path = caller[d].path
  <2>1. caller' \in [Callers -> Caller]
    BY <1>4 DEF Store, EngineInv, TypeInv
  <2>2. caller'[c] = IF ok THEN [caller[c] EXCEPT !.pc = "acquire"] ELSE NoCall
    BY DEF Store
  <2>3. \A d \in Callers \ {c} : caller'[d] = caller[d] \/ (caller[d].pc = "await" /\ caller'[d] = [caller[d] EXCEPT !.pc = "lookup"])
    BY DEF Store
  <2>4. \A d \in Callers : caller[d] \in Caller
    BY DEF EngineInv, TypeInv
  <2>5. QED
    BY <2>1, <2>2, <2>3, <2>4 DEF Caller
<1>6. TypeInv'
  <2>1. DOMAIN plugins' \subseteq 1 .. ids
    BY <1>2, <1>3 DEF EngineInv, TypeInv
  <2>2. plugins' \in [DOMAIN plugins' -> 1 .. Len(heap)]
    BY <1>2, <1>3 DEF EngineInv, TypeInv
  <2>3. QED
    BY <1>1, <1>5, <2>1, <2>2 DEF EngineInv, TypeInv
<1>7. RowFits'
  BY <1>1 DEF EngineInv, RowFits
<1>8. MapFits'
  BY <1>1, <1>2, <1>3 DEF EngineInv, MapFits
<1>9. \A d \in Callers \ {c} : caller[d].pc \in Loads => caller[d].id # id
  BY <1>1 DEF EngineInv, LoadersApart, Loads
<1>10. ASSUME NEW d \in Callers PROVE CallerFits(caller[d])'
  <2>1. CASE d = c /\ ok
    BY <1>1, <1>5, <2>1 DEF CallerFits, Loads, Uses, Holding
  <2>2. CASE d = c /\ ~ok
    BY <1>1, <1>4, <1>5, <2>2 DEF CallerFits, Loads, Uses, Holding
  <2>3. CASE d # c /\ caller'[d] = caller[d]
    <3>1. CallerFits(caller[d])
      BY DEF EngineInv
    <3>2. caller[d].pc \in Loads => caller[d].id \in loading' /\ caller[d].id \notin DOMAIN plugins'
      BY <1>1, <1>3, <1>9, <2>3, <3>1 DEF CallerFits
    <3>3. QED
      BY <1>1, <2>3, <3>1, <3>2 DEF CallerFits
  <2>4. CASE d # c /\ caller'[d] # caller[d]
    <3>1. CallerFits(caller[d]) /\ caller[d].pc = "await" /\ caller'[d].pc = "lookup"
          /\ caller'[d].id = caller[d].id /\ caller'[d].plugin = caller[d].plugin
      BY <1>5, <2>4 DEF EngineInv
    <3>2. QED
      BY <1>1, <3>1 DEF CallerFits, Loads, Uses, Holding
  <2>5. QED
    BY <2>1, <2>2, <2>3, <2>4
<1>11. LoadersApart'
  <2>1. \A d \in Callers : caller'[d].pc \in Loads => d # c /\ caller'[d] = caller[d]
    BY <1>4, <1>5 DEF Loads
  <2>2. QED
    BY <2>1 DEF EngineInv, LoadersApart
<1>12. \A a \in Admins : AdminFits(admin[a])'
  BY <1>1 DEF EngineInv, AdminFits
<1>13. ASSUME NEW p \in 1 .. Len(heap) PROVE Accounted(p)'
  <2>1. \A d \in Callers : \/ caller'[d].pc \notin Holding /\ caller[d].pc \notin Holding
                           \/ caller'[d] = caller[d]
    BY <1>1, <1>4, <1>5 DEF Holding
  <2>2. Holders(p)' = Holders(p)
    BY <2>1 DEF Holders
  <2>3. QED
    BY <1>1, <2>2 DEF EngineInv, Accounted
<1>14. NoPluginLeak'
  <2>1. ASSUME NEW p \in DOMAIN heap, heap[p].phase = "open"
        PROVE  \/ p \in closing \/ p \in {plugins'[i] : i \in DOMAIN plugins'}
               \/ \E d \in Callers : caller'[d].pc = "store" /\ caller'[d].plugin = p
    <3>1. CASE p \in closing
      BY <3>1
    <3>2. ASSUME NEW i \in DOMAIN plugins, p = plugins[i] PROVE p \in {plugins'[j] : j \in DOMAIN plugins'}
      BY <1>3, <3>2
    <3>3. ASSUME NEW d \in Callers, caller[d].pc = "store", caller[d].plugin = p
          PROVE  \/ p \in {plugins'[i] : i \in DOMAIN plugins'}
                 \/ \E e \in Callers : caller'[e].pc = "store" /\ caller'[e].plugin = p
      <4>1. CASE d = c
        <5>1. p # 0
          BY <2>1 DEF EngineInv, TypeInv
        <5>2. ok /\ plugins'[id] = p /\ id \in DOMAIN plugins'
          BY <1>3, <3>3, <4>1, <5>1
        <5>3. QED
          BY <5>2
      <4>2. CASE d # c
        BY <1>5, <3>3, <4>2
      <4>3. QED
        BY <4>1, <4>2
    <3>4. QED
      BY <2>1, <3>1, <3>2, <3>3 DEF EngineInv, NoPluginLeak
  <2>2. QED
    BY <1>1, <2>1 DEF NoPluginLeak
<1>15. QED
  BY <1>1, <1>6, <1>7, <1>8, <1>10, <1>11, <1>12, <1>13, <1>14 DEF EngineInv

LEMMA CallerKeeps ==
    ASSUME EngineInv, NEW c \in Callers, StartCall(c) \/ CallerStep(c) \/ GiveUp(c)
    PROVE  EngineInv'
<1>1. ASSUME StartCall(c) PROVE EngineInv'
  BY <1>1, GotoKeeps DEF StartCall, CallerLabels
<1>2. ASSUME GiveUp(c) PROVE EngineInv'
  BY <1>2, ReturnKeeps DEF GiveUp, Holding
<1>3. ASSUME EndCall(c) PROVE EngineInv'
  BY <1>3, GotoKeeps DEF EndCall, CallerLabels, Holding
<1>4. ASSUME CheckClosed(c) PROVE EngineInv'
  BY <1>4, GotoKeeps DEF CheckClosed, CallerLabels, Holding
<1>5. QED
  BY <1>1, <1>2, <1>3, <1>4, ResolveKeeps, LookupKeeps, ReadRowKeeps, CompileKeeps, StoreKeeps,
     CheckRoomKeeps, TakeOrCreateKeeps, WaitIdleKeeps, PushIdleKeeps, DiscardKeeps DEF CallerStep

-----------------------------------------------------------------------------
(* Admins, closing and crashes                                             *)

\* An admin moves on; the row, the ids and the files may change with it.
LEMMA AdminMoves ==
    ASSUME EngineInv, NEW a \in Admins, NEW r \in Admin, admin' = [admin EXCEPT ![a] = r],
           UNCHANGED <<memoryVars, caller>>, AdminFits(admin[a])',
           row' \in [id : Nat, installed : BOOLEAN, path : Paths \cup {None}], RowFits',
           ids' \in Nat, ids <= ids', files' \in [Paths -> Builds \cup {None}]
    PROVE  EngineInv'
<1>1. UNCHANGED <<plugins, loading, heap, closing>> /\ ids \in Nat
  BY DEF memoryVars, EngineInv, TypeInv
<1>2. admin' \in [Admins -> Admin] /\ \A b \in Admins \ {a} : admin'[b] = admin[b]
  BY DEF EngineInv, TypeInv
<1>3. \A i \in 1 .. ids : i \in 1 .. ids'
  BY <1>1
<1>4. TypeInv'
  BY <1>1, <1>2, <1>3 DEF EngineInv, TypeInv
<1>5. MapFits' /\ LoadersApart' /\ NoPluginLeak'
  BY <1>1 DEF EngineInv, MapFits, LoadersApart, NoPluginLeak
<1>6. ASSUME NEW c \in Callers PROVE CallerFits(caller[c])'
  <2>1. CallerFits(caller[c]) /\ caller[c].id \in Nat
    BY DEF EngineInv, TypeInv, Caller
  <2>2. caller[c].id <= ids'
    BY <1>1, <2>1 DEF CallerFits
  <2>3. QED
    BY <1>1, <2>1, <2>2 DEF CallerFits
<1>7. ASSUME NEW b \in Admins, b # a PROVE AdminFits(admin[b])'
  <2>1. AdminFits(admin[b]) /\ admin[b].id \in Nat
    BY DEF EngineInv, TypeInv, Admin
  <2>2. admin[b].id <= ids'
    BY <1>1, <2>1 DEF AdminFits
  <2>3. QED
    BY <1>2, <1>7, <2>1, <2>2 DEF AdminFits
<1>8. \A p \in 1 .. Len(heap) : Accounted(p)'
  BY <1>1 DEF EngineInv, Accounted, Holders
<1>9. QED
  BY <1>1, <1>4, <1>5, <1>6, <1>7, <1>8 DEF EngineInv

\* Labels an admin goes on to with its locals as they were, the disk as it was.
LEMMA AdminGoes ==
    ASSUME EngineInv, NEW a \in Admins, NEW label \in AdminLabels, AdminGoto(a, label),
           UNCHANGED <<memoryVars, caller>>,
           row' \in [id : Nat, installed : BOOLEAN, path : Paths \cup {None}], RowFits',
           UNCHANGED ids, files' \in [Paths -> Builds \cup {None}],
           label \in {"write", "probe", "find"} => admin[a].pc \in {"write", "probe"},
           label # "record"
    PROVE  EngineInv'
<1> DEFINE r == [admin[a] EXCEPT !.pc = label]
<1>1. admin[a] \in Admin /\ AdminFits(admin[a]) /\ ids \in Nat
  BY DEF EngineInv, TypeInv
<1>2. /\ r \in Admin /\ r.pc = label /\ r.build = admin[a].build /\ r.id = admin[a].id
      /\ r.path = admin[a].path
  BY <1>1 DEF Admin
<1>3. admin' = [admin EXCEPT ![a] = r] /\ admin'[a] = r
  BY DEF AdminGoto, EngineInv, TypeInv
<1>4. AdminFits(admin[a])'
  BY <1>1, <1>2, <1>3 DEF AdminFits
<1>5. ids' \in Nat /\ ids <= ids'
  BY <1>1
<1>6. QED
  BY <1>2, <1>3, <1>4, <1>5, AdminMoves

\* An admin that is done, or begins.
LEMMA AdminRests ==
    ASSUME EngineInv, NEW a \in Admins, Done(a), UNCHANGED <<memoryVars, caller>>,
           row' \in [id : Nat, installed : BOOLEAN, path : Paths \cup {None}], RowFits',
           UNCHANGED ids, files' \in [Paths -> Builds \cup {None}]
    PROVE  EngineInv'
<1>1. NoChange \in Admin /\ NoChange.pc = "idle" /\ NoChange.id = 0 /\ ids \in Nat
  BY DEF NoChange, Admin, AdminLabels, EngineInv, TypeInv
<1>2. admin' = [admin EXCEPT ![a] = NoChange] /\ admin'[a] = NoChange
  BY DEF Done, EngineInv, TypeInv
<1>3. AdminFits(admin[a])'
  BY <1>1, <1>2 DEF AdminFits
<1>4. ids' \in Nat /\ ids <= ids'
  BY <1>1
<1>5. QED
  BY <1>1, <1>2, <1>3, <1>4, AdminMoves

\* What is known of the disk, before a step and after one that leaves it alone.
LEMMA DiskFits ==
    ASSUME EngineInv
    PROVE  /\ row \in [id : Nat, installed : BOOLEAN, path : Paths \cup {None}] /\ RowFits
           /\ ids \in Nat /\ files \in [Paths -> Builds \cup {None}]
           /\ UNCHANGED <<row, ids>> => RowFits'
BY DEF EngineInv, TypeInv, RowFits

LEMMA BeginKeeps ==
    ASSUME EngineInv, NEW a \in Admins,
           \/ StartUninstall(a)
           \/ \E b \in Builds, local \in BOOLEAN : StartInstall(a, b, local)
    PROVE  EngineInv'
<1>1. CASE StartUninstall(a)
  <2> DEFINE r == [NoChange EXCEPT !.pc = "unload", !.id = row.id, !.path = row.path]
  <2>1. r \in Admin /\ r.pc = "unload" /\ r.id = row.id /\ row.id <= ids
    BY DiskFits DEF NoChange, Admin, AdminLabels, RowFits
  <2>2. admin' = [admin EXCEPT ![a] = r] /\ admin'[a] = r /\ UNCHANGED <<row, ids, files, memoryVars, caller>>
    BY <1>1 DEF StartUninstall, diskVars, EngineInv, TypeInv
  <2>3. AdminFits(admin[a])'
    BY <2>1, <2>2 DEF AdminFits
  <2>4. ids <= ids'
    BY <2>2, DiskFits
  <2>5. QED
    BY <2>1, <2>2, <2>3, <2>4, DiskFits, AdminMoves
<1>2. ASSUME NEW b \in Builds, NEW local \in BOOLEAN, StartInstall(a, b, local) PROVE EngineInv'
  <2> DEFINE r == [NoChange EXCEPT !.pc = IF local THEN "probe" ELSE "write", !.build = b,
                                   !.path = PathOf[b], !.local = local]
  <2>1. PathOf[b] \in Paths
    BY EnginePathAssumption
  <2>2. /\ r \in Admin /\ r.pc \in {"probe", "write"} /\ r.id = 0 /\ r.build = b /\ r.path = PathOf[b]
    BY <2>1 DEF NoChange, Admin, AdminLabels
  <2>3. admin' = [admin EXCEPT ![a] = r] /\ admin'[a] = r /\ UNCHANGED <<row, ids, files, memoryVars, caller>>
    BY <1>2 DEF StartInstall, diskVars, EngineInv, TypeInv
  <2>4. ids \in Nat /\ ids <= ids'
    BY <2>3, DiskFits
  <2>5. AdminFits(admin[a])'
    <3>1. admin'[a].id <= ids' /\ admin'[a].pc # "record"
      <4>1. admin'[a].id = 0 /\ admin'[a].pc \in {"probe", "write"} /\ ids' \in Nat
        BY <2>2, <2>3, <2>4
      <4>2. QED
        BY <4>1
    <3>2. admin'[a].build \in Builds /\ admin'[a].path \in Paths
      BY <2>1, <2>2, <2>3
    <3>3. QED
      BY <3>1, <3>2 DEF AdminFits
  <2>6. QED
    BY <2>2, <2>3, <2>4, <2>5, DiskFits, AdminMoves
<1>3. QED
  BY <1>1, <1>2

LEMMA InstallKeeps ==
    ASSUME EngineInv, NEW a \in Admins, WriteBinary(a) \/ Probe(a) \/ FindId(a) \/ Record(a)
    PROVE  EngineInv'
<1>1. admin[a] \in Admin /\ AdminFits(admin[a])
  BY DEF EngineInv, TypeInv
<1>2. CASE WriteBinary(a)
  <2>1. files' \in [Paths -> Builds \cup {None}]
    BY <1>1, <1>2, DiskFits DEF WriteBinary, AdminFits
  <2>2. admin[a].pc = "write" /\ UNCHANGED <<row, ids, memoryVars, caller>>
        /\ \E label \in {"find", "probe"} : AdminGoto(a, label)
    BY <1>2 DEF WriteBinary
  <2>3. QED
    BY <2>1, <2>2, DiskFits, AdminGoes DEF AdminLabels
<1>3. CASE Probe(a)
  <2>1. admin[a].pc = "probe" /\ UNCHANGED <<row, ids, files, memoryVars, caller>>
    BY <1>3 DEF Probe, diskVars
  <2>2. Done(a) \/ \E label \in {"find", "write"} : AdminGoto(a, label)
    BY <1>3 DEF Probe
  <2>3. QED
    BY <2>1, <2>2, DiskFits, AdminGoes, AdminRests DEF AdminLabels
<1>4. CASE FindId(a)
  <2> DEFINE id == IF row.id = 0 THEN ids + 1 ELSE row.id
             r == [admin[a] EXCEPT !.pc = "record", !.id = id]
  <2>1. /\ admin[a].pc = "find" /\ UNCHANGED <<row, files, memoryVars, caller>>
        /\ ids' = IF row.id = 0 THEN ids + 1 ELSE ids
    BY <1>4 DEF FindId
  <2>2. row.id \in Nat /\ row.id <= ids /\ ids \in Nat
    BY DiskFits DEF RowFits
  <2>3. ids' \in Nat /\ ids <= ids' /\ id \in Nat /\ id # 0 /\ id <= ids' /\ row.id <= ids'
    BY <2>1, <2>2
  <2>4. RowFits'
    BY <2>1, <2>3, DiskFits DEF RowFits
  <2>5. r \in Admin /\ r.pc = "record" /\ r.id = id /\ r.build = admin[a].build /\ r.path = admin[a].path
    BY <1>1, <2>3 DEF Admin, AdminLabels
  <2>6. admin' = [admin EXCEPT ![a] = r] /\ admin'[a] = r
    BY <1>4 DEF FindId, EngineInv, TypeInv
  <2>7. AdminFits(admin[a])'
    BY <1>1, <2>1, <2>3, <2>5, <2>6 DEF AdminFits
  <2>8. QED
    BY <2>1, <2>3, <2>4, <2>5, <2>6, <2>7, DiskFits, AdminMoves
<1>5. CASE Record(a)
  <2>1. /\ admin[a].pc = "record" /\ UNCHANGED <<ids, files, memoryVars, caller>> /\ AdminGoto(a, "unload")
        /\ row' = [id |-> admin[a].id, installed |-> TRUE, path |-> admin[a].path]
    BY <1>5 DEF Record
  <2>2. admin[a].id \in Nat /\ admin[a].path \in Paths /\ admin[a].id # 0 /\ admin[a].id <= ids
    BY <1>1, <2>1 DEF Admin, AdminFits
  <2>3. row' \in [id : Nat, installed : BOOLEAN, path : Paths \cup {None}] /\ RowFits'
    BY <2>1, <2>2 DEF RowFits
  <2>4. QED
    BY <2>1, <2>3, DiskFits, AdminGoes DEF AdminLabels
<1>6. QED
  BY <1>2, <1>3, <1>4, <1>5

LEMMA RemoveKeeps ==
    ASSUME EngineInv, NEW a \in Admins, Erase(a) \/ RemoveBinary(a)
    PROVE  EngineInv'
<1>1. CASE Erase(a)
  <2>1. /\ UNCHANGED <<ids, files, memoryVars, caller>> /\ AdminGoto(a, "remove")
        /\ row' = [row EXCEPT !.installed = FALSE, !.path = None]
    BY <1>1 DEF Erase
  <2>2. row' \in [id : Nat, installed : BOOLEAN, path : Paths \cup {None}] /\ RowFits'
    BY <2>1, DiskFits DEF RowFits
  <2>3. QED
    BY <2>1, <2>2, DiskFits, AdminGoes DEF AdminLabels
<1>2. CASE RemoveBinary(a)
  <2>1. files' \in [Paths -> Builds \cup {None}]
    BY <1>2, DiskFits DEF RemoveBinary
  <2>2. UNCHANGED <<row, ids, memoryVars, caller>> /\ Done(a)
    BY <1>2 DEF RemoveBinary
  <2>3. QED
    BY <2>1, <2>2, DiskFits, AdminRests
<1>3. QED
  BY <1>1, <1>2

\* Plugins leave the map for somebody to close.
LEMMA MapShrinks ==
    ASSUME EngineInv, NEW D \in SUBSET DOMAIN plugins, plugins' = [i \in D |-> plugins[i]],
           closing' = closing \cup {plugins[i] : i \in DOMAIN plugins \ D},
           UNCHANGED <<diskVars, loading, heap, caller>>,
           admin' \in [Admins -> Admin], \A a \in Admins : AdminFits(admin[a])'
    PROVE  EngineInv'
<1>1. UNCHANGED <<row, ids, files>> /\ heap \in Seq(Plugin) /\ DOMAIN plugins' = D
  BY DEF diskVars, EngineInv, TypeInv
<1>2. \A i \in DOMAIN plugins : plugins[i] \in 1 .. Len(heap)
  BY DEF EngineInv, TypeInv
<1>3. TypeInv'
  <2>1. closing' \subseteq 1 .. Len(heap)
    BY <1>2 DEF EngineInv, TypeInv
  <2>2. plugins' \in [DOMAIN plugins' -> 1 .. Len(heap)]
    BY <1>1, <1>2
  <2>3. QED
    BY <1>1, <2>1, <2>2 DEF EngineInv, TypeInv
<1>4. RowFits' /\ LoadersApart'
  BY <1>1 DEF EngineInv, RowFits, LoadersApart
<1>5. MapFits'
  <2>1. ASSUME NEW i \in D
        PROVE  heap[plugins[i]].id = i /\ heap[plugins[i]].phase = "open" /\ plugins[i] \notin closing'
    BY <2>1 DEF EngineInv, MapFits
  <2>2. QED
    BY <1>1, <2>1 DEF MapFits
<1>6. ASSUME NEW c \in Callers PROVE CallerFits(caller[c])'
  <2>1. CallerFits(caller[c])
    BY DEF EngineInv
  <2>2. ASSUME caller[c].pc = "store", caller[c].plugin # 0 PROVE caller[c].plugin \notin closing'
    BY <2>1, <2>2 DEF CallerFits, Loads, EngineInv, MapFits
  <2>3. caller[c].pc \in Loads => caller[c].id \notin DOMAIN plugins'
    BY <1>1, <2>1 DEF CallerFits
  <2>4. QED
    BY <1>1, <2>1, <2>2, <2>3 DEF CallerFits
<1>7. \A p \in 1 .. Len(heap) : Accounted(p)'
  BY DEF EngineInv, Accounted, Holders
<1>8. NoPluginLeak'
  <2>1. ASSUME NEW p \in {plugins[i] : i \in DOMAIN plugins}
        PROVE  p \in closing' \/ p \in {plugins'[i] : i \in DOMAIN plugins'}
    BY <1>1
  <2>2. QED
    BY <2>1 DEF EngineInv, NoPluginLeak
<1>9. QED
  BY <1>3, <1>4, <1>5, <1>6, <1>7, <1>8 DEF EngineInv

LEMMA UnloadKeeps ==
    ASSUME EngineInv, NEW a \in Admins, Unload(a)
    PROVE  EngineInv'
<1> DEFINE D == DOMAIN plugins \ {admin[a].id}
<1>1. /\ admin[a] \in Admin /\ AdminFits(admin[a]) /\ ids' = ids /\ ids \in Nat
      /\ UNCHANGED <<diskVars, loading, heap, caller>>
  BY DEF Unload, EngineInv, TypeInv, diskVars
<1>2. closing' = closing \cup {plugins[i] : i \in DOMAIN plugins \ D}
  <2>1. DOMAIN plugins \ D = DOMAIN plugins \cap {admin[a].id}
    OBVIOUS
  <2>2. QED
    BY <2>1 DEF Unload
<1>3. PICK r \in Admin : r.pc \in {"erase", "idle"} /\ r.id <= ids /\ admin' = [admin EXCEPT ![a] = r]
  <2>1. CASE AdminGoto(a, "erase")
    <3>1. [admin[a] EXCEPT !.pc = "erase"] \in Admin
      BY <1>1 DEF Admin, AdminLabels
    <3>2. [admin[a] EXCEPT !.pc = "erase"].id = admin[a].id /\ admin[a].id <= ids
      BY <1>1 DEF Admin, AdminFits
    <3>3. [admin[a] EXCEPT !.pc = "erase"].pc = "erase"
      BY <1>1 DEF Admin
    <3>4. admin' = [admin EXCEPT ![a] = [admin[a] EXCEPT !.pc = "erase"]]
      BY <2>1 DEF AdminGoto
    <3>5. QED
      BY <3>1, <3>2, <3>3, <3>4
  <2>2. CASE Done(a)
    <3>1. NoChange \in Admin /\ NoChange.pc = "idle" /\ NoChange.id <= ids
      BY <1>1 DEF NoChange, Admin, AdminLabels
    <3>2. admin' = [admin EXCEPT ![a] = NoChange]
      BY <2>2 DEF Done
    <3>3. QED
      BY <3>1, <3>2
  <2>3. QED
    BY <2>1, <2>2 DEF Unload
<1>4. admin' \in [Admins -> Admin] /\ admin'[a] = r /\ \A b \in Admins \ {a} : admin'[b] = admin[b]
  BY <1>3 DEF EngineInv, TypeInv
<1>5. \A b \in Admins : AdminFits(admin[b])'
  BY <1>1, <1>3, <1>4 DEF EngineInv, AdminFits
<1>6. plugins' = [i \in D |-> plugins[i]]
  BY DEF Unload
<1>7. QED
  BY <1>1, <1>2, <1>4, <1>5, <1>6, MapShrinks

LEMMA CloseEngineKeeps ==
    ASSUME EngineInv, CloseEngine
    PROVE  EngineInv'
<1>1. /\ UNCHANGED <<diskVars, loading, heap, caller, admin>> /\ UNCHANGED ids
      /\ plugins' = [i \in {} |-> plugins[i]]
      /\ closing' = closing \cup {plugins[i] : i \in DOMAIN plugins \ {}}
  BY DEF CloseEngine, diskVars
<1>2. \A a \in Admins : AdminFits(admin[a])'
  BY <1>1 DEF EngineInv, AdminFits
<1>3. admin' \in [Admins -> Admin] /\ {} \in SUBSET DOMAIN plugins
  BY <1>1 DEF EngineInv, TypeInv
<1>4. QED
  BY <1>1, <1>2, <1>3, MapShrinks

\* A plugin on its way out changes phase, and loses what waits in its channel.
LEMMA ClosingKeeps ==
    ASSUME EngineInv, NEW p \in closing, MarkClosed(p) \/ Drain(p)
    PROVE  EngineInv'
<1>1. /\ p \in 1 .. Len(heap) /\ heap \in Seq(Plugin) /\ heap[p] \in Plugin /\ Len(heap) \in Nat
      /\ Accounted(p) /\ heap[p].live \in Nat /\ heap[p].idle \in Nat
  <2>1. heap \in Seq(Plugin) /\ p \in 1 .. Len(heap)
    BY DEF EngineInv, TypeInv
  <2>2. heap[p] \in Plugin /\ Len(heap) \in Nat
    BY <2>1
  <2>3. heap[p].live \in Nat /\ heap[p].idle \in Nat
    BY <2>2 DEF Plugin
  <2>4. Accounted(p)
    BY <2>1 DEF EngineInv
  <2>5. QED
    BY <2>1, <2>2, <2>3, <2>4
<1>2. UNCHANGED <<row, ids, files, plugins, loading, caller, admin>>
  BY DEF MarkClosed, Drain, diskVars
<1>3. closing' \subseteq closing /\ \A i \in closing : i # p => i \in closing'
  BY DEF MarkClosed, Drain
<1>4. PICK q \in Plugin :
         /\ heap' = [heap EXCEPT ![p] = q] /\ q.id = heap[p].id /\ q.phase \in {"closed", "drained"}
         /\ q.live = q.idle + Cardinality(Holders(p)) /\ (q.phase = "closed" => closing' = closing)
  <2>1. heap[p].live = heap[p].idle + Cardinality(Holders(p)) /\ Cardinality(Holders(p)) \in Nat
    BY <1>1, FS_CardinalityType DEF Accounted
  <2>2. CASE MarkClosed(p)
    <3> DEFINE q == [heap[p] EXCEPT !.phase = "closed"]
    <3>1. q \in Plugin /\ q.id = heap[p].id /\ q.phase = "closed" /\ q.live = heap[p].live /\ q.idle = heap[p].idle
      BY <1>1 DEF Plugin
    <3>2. heap' = [heap EXCEPT ![p] = q] /\ closing' = closing
      BY <2>2 DEF MarkClosed
    <3>3. QED
      BY <2>1, <3>1, <3>2
  <2>3. CASE Drain(p)
    <3> DEFINE live == heap[p].live - heap[p].idle
               q == [heap[p] EXCEPT !.phase = "drained", !.idle = 0, !.live = live]
    <3>1. live \in Nat /\ live = 0 + Cardinality(Holders(p))
      BY <1>1, <2>1
    <3>2. q \in Plugin /\ q.id = heap[p].id /\ q.phase = "drained" /\ q.live = live /\ q.idle = 0
      BY <1>1, <3>1 DEF Plugin
    <3>3. heap' = [heap EXCEPT ![p] = q]
      BY <2>3 DEF Drain
    <3>4. QED
      BY <3>1, <3>2, <3>3
  <2>4. QED
    BY <2>2, <2>3
<1>5. /\ heap' \in Seq(Plugin) /\ Len(heap') = Len(heap) /\ DOMAIN heap' = DOMAIN heap
      /\ DOMAIN heap = 1 .. Len(heap)
      /\ heap'[p] = q /\ \A i \in 1 .. Len(heap) : i # p => heap'[i] = heap[i]
  BY <1>1, <1>4, HeapEntry
<1>6. TypeInv'
  BY <1>2, <1>3, <1>5 DEF EngineInv, TypeInv
<1>7. RowFits' /\ LoadersApart' /\ \A a \in Admins : AdminFits(admin[a])'
  BY <1>2 DEF EngineInv, RowFits, LoadersApart, AdminFits
<1>8. MapFits'
  <2>1. \A id \in DOMAIN plugins : plugins[id] \in 1 .. Len(heap) /\ plugins[id] # p
    BY DEF EngineInv, TypeInv, MapFits
  <2>2. QED
    BY <1>2, <1>3, <1>5, <2>1 DEF EngineInv, MapFits
<1>9. ASSUME NEW c \in Callers PROVE CallerFits(caller[c])'
  <2>1. CallerFits(caller[c]) /\ caller[c] \in Caller
    BY DEF EngineInv, TypeInv
  <2>2. ASSUME caller[c].pc = "store", caller[c].plugin # 0
        PROVE  caller[c].plugin \notin closing' /\ heap'[caller[c].plugin] = heap[caller[c].plugin]
    <3>1. caller[c].plugin \in 1 .. Len(heap) /\ caller[c].plugin \notin closing
      BY <1>1, <2>1, <2>2 DEF CallerFits, Caller
    <3>2. QED
      BY <1>3, <1>5, <3>1
  <2>3. QED
    BY <1>2, <1>5, <2>1, <2>2 DEF CallerFits
<1>10. ASSUME NEW i \in 1 .. Len(heap) PROVE Accounted(i)'
  <2>1. Holders(i)' = Holders(i)
    BY <1>2 DEF Holders
  <2>2. CASE i = p
    BY <1>1, <1>4, <1>5, <2>1, <2>2 DEF Accounted
  <2>3. CASE i # p
    BY <1>5, <2>1, <2>3 DEF EngineInv, Accounted
  <2>4. QED
    BY <2>2, <2>3
<1>11. NoPluginLeak'
  <2>1. ASSUME NEW i \in DOMAIN heap, heap'[i].phase = "open" PROVE i # p /\ heap[i].phase = "open"
    BY <1>4, <1>5, <2>1
  <2>2. QED
    BY <1>2, <1>3, <1>5, <2>1 DEF EngineInv, NoPluginLeak
<1>12. QED
  BY <1>5, <1>6, <1>7, <1>8, <1>9, <1>10, <1>11 DEF EngineInv

\* Memory that begins empty fits any disk.
LEMMA EmptyMemory ==
    ASSUME row \in [id : Nat, installed : BOOLEAN, path : Paths \cup {None}], RowFits, ids \in Nat,
           files \in [Paths -> Builds \cup {None}],
           plugins = [i \in {} |-> 0], loading = {}, heap = <<>>, closing = {},
           caller = [c \in Callers |-> NoCall], admin = [a \in Admins |-> NoChange]
    PROVE  EngineInv
<1>1. NoCall \in Caller /\ NoCall.pc = "idle" /\ NoCall.id = 0 /\ NoCall.plugin = 0
  BY DEF NoCall, Caller, CallerLabels
<1>2. NoChange \in Admin /\ NoChange.pc = "idle" /\ NoChange.id = 0
  BY DEF NoChange, Admin, AdminLabels
<1>3. heap \in Seq(Plugin) /\ Len(heap) = 0 /\ DOMAIN plugins = {} /\ plugins \in [DOMAIN plugins -> 1 .. Len(heap)]
  OBVIOUS
<1>4. TypeInv
  BY <1>1, <1>2, <1>3 DEF TypeInv
<1>5. LoadersApart /\ MapFits /\ NoPluginLeak
  BY <1>1, <1>3 DEF LoadersApart, MapFits, NoPluginLeak, Loads
<1>6. \A c \in Callers : CallerFits(caller[c])
  BY <1>1, <1>3 DEF CallerFits, Loads, Uses, Holding
<1>7. \A a \in Admins : AdminFits(admin[a])
  BY <1>2 DEF AdminFits
<1>8. QED
  BY <1>3, <1>4, <1>5, <1>6, <1>7 DEF EngineInv

LEMMA InitHolds == Init => EngineInv
<1> SUFFICES ASSUME Init PROVE EngineInv
  OBVIOUS
<1>1. CASE row = [id |-> 0, installed |-> FALSE, path |-> None] /\ ids = 0 /\ files = [p \in Paths |-> None]
  BY <1>1, EmptyMemory DEF Init, RowFits
<1>2. ASSUME NEW b \in Builds, row = [id |-> 1, installed |-> TRUE, path |-> PathOf[b]], ids = 1,
             files = [p \in Paths |-> IF p = PathOf[b] THEN b ELSE None]
      PROVE  EngineInv
  <2>1. PathOf[b] \in Paths
    BY EnginePathAssumption
  <2>2. row \in [id : Nat, installed : BOOLEAN, path : Paths \cup {None}] /\ RowFits
    BY <1>2, <2>1 DEF RowFits
  <2>3. files \in [Paths -> Builds \cup {None}] /\ ids \in Nat
    BY <1>2
  <2>4. QED
    BY <2>2, <2>3, EmptyMemory DEF Init
<1>3. QED
  BY <1>1, <1>2 DEF Init

LEMMA CrashKeeps ==
    ASSUME EngineInv, Crash
    PROVE  EngineInv'
<1>1. UNCHANGED <<row, ids, files>>
  BY DEF Crash, diskVars
<1>2. /\ row' \in [id : Nat, installed : BOOLEAN, path : Paths \cup {None}] /\ RowFits' /\ ids' \in Nat
      /\ files' \in [Paths -> Builds \cup {None}]
  BY <1>1, DiskFits
<1>3. NoCall \in Caller /\ NoCall.pc = "idle" /\ NoCall.id = 0 /\ NoCall.plugin = 0
  BY DEF NoCall, Caller, CallerLabels
<1>4. NoChange \in Admin /\ NoChange.pc = "idle" /\ NoChange.id = 0
  BY DEF NoChange, Admin, AdminLabels
<1>5. /\ plugins' = [i \in {} |-> 0] /\ loading' = {} /\ heap' = <<>> /\ closing' = {}
      /\ caller' = [c \in Callers |-> NoCall] /\ admin' = [a \in Admins |-> NoChange]
  BY DEF Crash
<1>6. heap' \in Seq(Plugin) /\ Len(heap') = 0 /\ DOMAIN plugins' = {} /\ DOMAIN heap' = {}
      /\ plugins' \in [DOMAIN plugins' -> 1 .. Len(heap')]
  BY <1>5
<1>7. TypeInv'
  BY <1>2, <1>3, <1>4, <1>5, <1>6 DEF TypeInv
<1>8. LoadersApart' /\ MapFits' /\ NoPluginLeak'
  BY <1>3, <1>5, <1>6 DEF LoadersApart, MapFits, NoPluginLeak, Loads
<1>9. \A c \in Callers : CallerFits(caller[c])'
  BY <1>2, <1>3, <1>5, <1>6 DEF CallerFits, Loads, Uses, Holding
<1>10. \A a \in Admins : AdminFits(admin[a])'
  BY <1>2, <1>4, <1>5 DEF AdminFits
<1>11. QED
  BY <1>2, <1>6, <1>7, <1>8, <1>9, <1>10 DEF EngineInv

-----------------------------------------------------------------------------
(* The theorems                                                            *)

LEMMA StepsKeep == EngineInv /\ [Next]_vars => EngineInv'
<1> SUFFICES ASSUME EngineInv, [Next]_vars PROVE EngineInv'
  OBVIOUS
<1>1. ASSUME NEW a \in Admins, AdminStep(a) PROVE EngineInv'
  BY <1>1, InstallKeeps, UnloadKeeps, RemoveKeeps DEF AdminStep
<1>2. CASE ClosingStep
  BY <1>2, ClosingKeeps DEF ClosingStep
<1>3. CASE UNCHANGED vars
  <2>1. UNCHANGED <<row, ids, files, plugins, loading, heap, closing, caller, admin>>
    BY <1>3 DEF vars, diskVars, memoryVars
  <2>2. \A p \in 1 .. Len(heap) : Accounted(p)'
    BY <2>1 DEF EngineInv, Accounted, Holders
  <2>3. QED
    BY <2>1, <2>2 DEF EngineInv, TypeInv, RowFits, LoadersApart, MapFits, CallerFits, AdminFits, NoPluginLeak
<1>4. QED
  BY <1>1, <1>2, <1>3, CallerKeeps, BeginKeeps, CloseEngineKeeps, CrashKeeps DEF Next

LEMMA EngineInvariant == Spec => []EngineInv
BY InitHolds, StepsKeep, PTL DEF Spec

\* Whoever calls, installs, removes, closes or crashes, and however many do it at once:
\* every instance of a plugin is counted exactly once, no compiled module is lost to
\* everybody, and what the map serves is open.
THEOREM PoolsAreSound == Spec => []PoolsSound
<1>1. ASSUME EngineInv PROVE PoolsSound
  <2>1. DOMAIN heap = 1 .. Len(heap)
    BY <1>1 DEF EngineInv, TypeInv
  <2>2. TypeOK
    <3>1. RowOK
      BY <1>1 DEF EngineInv, TypeInv, RowFits, RowOK
    <3>2. MemoryOK
      BY <1>1, <2>1 DEF EngineInv, TypeInv, MemoryOK
    <3>3. CallersOK
      <4>1. ASSUME NEW c \in Callers
            PROVE  caller[c] \in [pc : CallerLabels, id : 0 .. ids, path : Paths \cup {None},
                                  plugin : 0 .. Len(heap), room : BOOLEAN]
        BY <1>1 DEF EngineInv, TypeInv, CallerFits, Caller
      <4>2. QED
        BY <1>1, <4>1 DEF EngineInv, TypeInv, CallersOK
    <3>4. AdminsOK
      <4>1. ASSUME NEW a \in Admins
            PROVE  admin[a] \in [pc : AdminLabels, build : Builds \cup {None}, id : 0 .. ids,
                                 path : Paths \cup {None}, local : BOOLEAN]
        BY <1>1 DEF EngineInv, TypeInv, AdminFits, Admin
      <4>2. QED
        BY <1>1, <4>1 DEF EngineInv, TypeInv, AdminsOK
    <3>5. QED
      BY <1>1, <3>1, <3>2, <3>3, <3>4 DEF EngineInv, TypeInv, TypeOK
  <2>3. InstanceAccounting
    BY <1>1, <2>1 DEF EngineInv, Accounted, Holders, InstanceAccounting
  <2>4. NoPluginLeak /\ CachedIsOpen
    BY <1>1 DEF EngineInv, MapFits, CachedIsOpen
  <2>5. QED
    BY <2>2, <2>3, <2>4 DEF PoolsSound
<1>2. QED
  BY <1>1, EngineInvariant, PTL

-----------------------------------------------------------------------------
(* The binary of an installed source, with one admin at a time             *)

BinaryFacts == InstalledBinaryExists /\ \A a \in Admins : BinaryStands(a)

\* Who neither installs nor removes leaves the record and the files alone.
LEMMA CallersSpareTheDisk ==
    ASSUME NEW c \in Callers, StartCall(c) \/ CallerStep(c) \/ GiveUp(c)
    PROVE  UNCHANGED <<row, files, admin>>
<1>1. ASSUME StartCall(c) \/ GiveUp(c) PROVE UNCHANGED <<row, files, admin>>
  BY <1>1 DEF StartCall, GiveUp, diskVars
<1>2. ASSUME Resolve(c) \/ Lookup(c) \/ ReadRow(c) \/ Compile(c) \/ Store(c) \/ CheckRoom(c)
      PROVE  UNCHANGED <<row, files, admin>>
  BY <1>2 DEF Resolve, Lookup, ReadRow, Compile, Store, CheckRoom, diskVars
<1>3. ASSUME TakeOrCreate(c) \/ WaitIdle(c) \/ EndCall(c) \/ CheckClosed(c) \/ PushIdle(c) \/ Discard(c)
      PROVE  UNCHANGED <<row, files, admin>>
  BY <1>3 DEF TakeOrCreate, WaitIdle, EndCall, CheckClosed, PushIdle, Discard, diskVars
<1>4. QED
  BY <1>1, <1>2, <1>3 DEF CallerStep

\* A step of the only admin: what it wrote or is about to record stands.
LEMMA AdminKeepsBinary ==
    ASSUME \A a, b \in Admins : a = b, EngineInv, BinaryFacts, NEW a \in Admins,
           \/ AdminStep(a) \/ StartUninstall(a)
           \/ \E b \in Builds, local \in BOOLEAN : StartInstall(a, b, local)
    PROVE  BinaryFacts'
<1>1. /\ admin \in [Admins -> Admin] /\ admin[a] \in Admin /\ AdminFits(admin[a])
      /\ row \in [id : Nat, installed : BOOLEAN, path : Paths \cup {None}] /\ RowFits
      /\ files \in [Paths -> Builds \cup {None}] /\ InstalledBinaryExists /\ BinaryStands(a)
      /\ None \notin Builds \cup Paths
  BY EnginePathAssumption DEF EngineInv, TypeInv, BinaryFacts
<1>2. ASSUME NEW l \in AdminLabels
      PROVE  LET r == [admin[a] EXCEPT !.pc = l]
             IN  r.pc = l /\ r.path = admin[a].path /\ r.local = admin[a].local
  BY <1>1 DEF Admin
<1>3. SUFFICES InstalledBinaryExists' /\ BinaryStands(a)'
  BY DEF BinaryFacts, BinaryStands
<1>4. NoChange.pc = "idle"
  BY DEF NoChange
<1>5. ASSUME WriteBinary(a) PROVE InstalledBinaryExists' /\ BinaryStands(a)'
  <2>1. admin[a].path \in Paths /\ admin[a].build \in Builds /\ admin[a].build # None
    BY <1>1, <1>5 DEF WriteBinary, AdminFits
  <2>2. /\ files' \in [Paths -> Builds \cup {None}] /\ files'[admin[a].path] # None /\ row' = row
        /\ \A p \in Paths : files[p] # None => files'[p] # None
    BY <1>1, <1>5, <2>1 DEF WriteBinary
  <2>3. InstalledBinaryExists'
    BY <1>1, <2>2 DEF InstalledBinaryExists, RowFits
  <2>4. admin'[a].pc \in {"find", "probe"} /\ admin'[a].path = admin[a].path
    BY <1>1, <1>2, <1>5 DEF WriteBinary, AdminGoto, AdminLabels
  <2>5. QED
    BY <2>2, <2>3, <2>4 DEF BinaryStands
<1>6. ASSUME Probe(a) PROVE InstalledBinaryExists' /\ BinaryStands(a)'
  <2>1. UNCHANGED <<row, files>>
    BY <1>6 DEF Probe, diskVars
  <2>2. CASE Done(a)
    BY <1>1, <1>4, <2>1, <2>2 DEF Done, InstalledBinaryExists, BinaryStands
  <2>3. CASE AdminGoto(a, IF admin[a].local THEN "write" ELSE "find")
    <3>1. /\ admin[a].pc = "probe" /\ admin'[a].path = admin[a].path
          /\ admin'[a].pc = IF admin[a].local THEN "write" ELSE "find"
      BY <1>1, <1>2, <1>6, <2>3 DEF Probe, AdminGoto, AdminLabels
    <3>2. QED
      BY <1>1, <2>1, <3>1 DEF InstalledBinaryExists, BinaryStands
  <2>4. QED
    BY <1>6, <2>2, <2>3 DEF Probe
<1>7. ASSUME FindId(a) PROVE InstalledBinaryExists' /\ BinaryStands(a)'
  <2>1. UNCHANGED <<row, files>> /\ admin[a].pc = "find"
    BY <1>7 DEF FindId
  <2>2. admin'[a].pc = "record" /\ admin'[a].path = admin[a].path
    BY <1>1, <1>7 DEF FindId, Admin
  <2>3. QED
    BY <1>1, <2>1, <2>2 DEF InstalledBinaryExists, BinaryStands
<1>8. ASSUME Record(a) PROVE InstalledBinaryExists' /\ BinaryStands(a)'
  <2>1. files' = files /\ files[admin[a].path] # None /\ row'.path = admin[a].path
    BY <1>1, <1>8 DEF Record, BinaryStands
  <2>2. admin'[a].pc = "unload"
    BY <1>1, <1>2, <1>8 DEF Record, AdminGoto, AdminLabels
  <2>3. QED
    BY <2>1, <2>2 DEF InstalledBinaryExists, BinaryStands
<1>9. ASSUME Unload(a) PROVE InstalledBinaryExists' /\ BinaryStands(a)'
  <2>1. UNCHANGED <<row, files>>
    BY <1>9 DEF Unload, diskVars
  <2>2. CASE AdminGoto(a, "erase")
    <3>1. admin'[a].pc = "erase"
      BY <1>1, <1>2, <2>2 DEF AdminGoto, AdminLabels
    <3>2. QED
      BY <1>1, <2>1, <3>1 DEF InstalledBinaryExists, BinaryStands
  <2>3. CASE Done(a)
    BY <1>1, <1>4, <2>1, <2>3 DEF Done, InstalledBinaryExists, BinaryStands
  <2>4. QED
    BY <1>9, <2>2, <2>3 DEF Unload
<1>10. ASSUME Erase(a) PROVE InstalledBinaryExists' /\ BinaryStands(a)'
  <2>1. ~row'.installed
    BY <1>1, <1>10 DEF Erase
  <2>2. admin'[a].pc = "remove"
    BY <1>1, <1>2, <1>10 DEF Erase, AdminGoto, AdminLabels
  <2>3. QED
    BY <2>1, <2>2 DEF InstalledBinaryExists, BinaryStands
<1>11. ASSUME RemoveBinary(a) PROVE InstalledBinaryExists' /\ BinaryStands(a)'
  <2>1. row' = row /\ ~row.installed
    BY <1>1, <1>11 DEF RemoveBinary, BinaryStands
  <2>2. QED
    BY <1>1, <1>4, <1>11, <2>1 DEF RemoveBinary, Done, InstalledBinaryExists, BinaryStands
<1>12. ASSUME StartUninstall(a) PROVE InstalledBinaryExists' /\ BinaryStands(a)'
  <2>1. UNCHANGED <<row, files>> /\ admin'[a].pc = "unload"
    BY <1>1, <1>12 DEF StartUninstall, diskVars, NoChange
  <2>2. QED
    BY <1>1, <2>1 DEF InstalledBinaryExists, BinaryStands
<1>13. ASSUME NEW b \in Builds, NEW local \in BOOLEAN, StartInstall(a, b, local)
       PROVE  InstalledBinaryExists' /\ BinaryStands(a)'
  <2>1. UNCHANGED <<row, files>>
    BY <1>13 DEF StartInstall, diskVars
  <2>2. admin'[a].local = local /\ admin'[a].pc = IF local THEN "probe" ELSE "write"
    BY <1>1, <1>13 DEF StartInstall, NoChange
  <2>3. QED
    BY <1>1, <2>1, <2>2 DEF InstalledBinaryExists, BinaryStands
<1>14. QED
  BY <1>5, <1>6, <1>7, <1>8, <1>9, <1>10, <1>11, <1>12, <1>13 DEF AdminStep

LEMMA BinaryInit == Init => BinaryFacts
<1> SUFFICES ASSUME Init PROVE BinaryFacts
  OBVIOUS
<1>1. \A a \in Admins : admin[a].pc = "idle"
  BY DEF Init, NoChange
<1>2. InstalledBinaryExists
  <2>1. ASSUME NEW b \in Builds, row = [id |-> 1, installed |-> TRUE, path |-> PathOf[b]],
               files = [p \in Paths |-> IF p = PathOf[b] THEN b ELSE None]
        PROVE  InstalledBinaryExists
    BY <2>1, EnginePathAssumption DEF InstalledBinaryExists
  <2>2. QED
    BY <2>1 DEF Init, InstalledBinaryExists
<1>3. QED
  BY <1>1, <1>2 DEF BinaryFacts, BinaryStands

LEMMA BinarySteps ==
    ASSUME \A a, b \in Admins : a = b, EngineInv, BinaryFacts, [Next]_vars
    PROVE  BinaryFacts'
<1>1. ASSUME UNCHANGED <<row, files, admin>> PROVE BinaryFacts'
  BY <1>1 DEF BinaryFacts, InstalledBinaryExists, BinaryStands
<1>2. CASE Crash
  <2>1. UNCHANGED <<row, files>> /\ \A a \in Admins : admin'[a].pc = "idle"
    BY <1>2, SMTT(30) DEF Crash, diskVars, NoChange
  <2>2. QED
    BY <2>1 DEF BinaryFacts, InstalledBinaryExists, BinaryStands
<1>3. CASE ClosingStep \/ CloseEngine \/ UNCHANGED vars
  BY <1>1, <1>3 DEF ClosingStep, MarkClosed, Drain, CloseEngine, diskVars, vars
<1>4. QED
  BY <1>1, <1>2, <1>3, CallersSpareTheDisk, AdminKeepsBinary DEF Next

\* With one admin at a time, as long as no two requests install or remove the source at
\* once, an installed source also has its binary at every point of an install, of an
\* uninstall and of a crash between their steps.  With two it does not: the file one
\* removes may be the one the other has just recorded.
THEOREM EngineIsSound ==
    ASSUME \A a, b \in Admins : a = b
    PROVE  Spec => []EngineSound
<1>1. Init => BinaryFacts
  BY BinaryInit
<1>2. EngineInv /\ BinaryFacts /\ [Next]_vars => BinaryFacts'
  BY BinarySteps
<1>3. PoolsSound /\ BinaryFacts => EngineSound
  BY DEF BinaryFacts, EngineSound
<1>4. QED
  BY <1>1, <1>2, <1>3, EngineInvariant, PoolsAreSound, PTL DEF Spec

-----------------------------------------------------------------------------
(* The challenges a request meets: the inductive invariant                 *)

Labels == {"idle"} \cup H!FetchLabels \cup H!SolveLabels
Proc == [pc : Labels, origin : Origins \cup {Nobody}, used : H!Jars \cup H!LegacyJars \cup {Nobody}]

ChallengeTyped ==
    /\ outstanding \in [Origins -> {"free", "held"}] /\ listed \subseteq Origins
    /\ bundles \in [Origins -> H!Jars \cup {Nobody}] /\ legacy \in H!LegacyJars \cup {Nobody}
    /\ subscribed \subseteq H!Procs /\ notifying \in BOOLEAN
    /\ inFlight \subseteq Origins /\ solving \subseteq Origins
    /\ spent \in [Origins -> 0 .. Limit] /\ viewHost \in H!Solves \cup {Nobody}
    /\ proc \in [H!Procs -> Proc]

\* What a process may be: a host while it is busy, material of its domain.
Legal(p, r) ==
    /\ r.pc \in H!SolveLabels => p \in H!Solves
    /\ r.pc = "idle" <=> r.origin = Nobody
    /\ r.used \notin {Nobody, legacy} => r.used.for \in {r.origin, Parent[r.origin]}

\* Between a claim and its end.
Past == {"resolve", "subscribe", "recheck", "wait", "replay", "release"}
ClaimsHeld == \A p \in H!Procs : proc[p].pc \in Past => outstanding[proc[p].origin] = "held"

\* Material is stored under the host that issued it.
AtHome == \A o \in Origins : bundles[o] # Nobody => bundles[o].for = o

ChallengeInv ==
    /\ H!ChallengesAssumption /\ ChallengeTyped /\ AtHome /\ ClaimsHeld
    /\ \A p \in H!Procs : Legal(p, proc[p])
    /\ H!NoLostWakeUp /\ H!OnePromptPerHost
    /\ unverified = spent

-----------------------------------------------------------------------------
(* Processes that move                                                     *)

\* Processes move and no material does: nobody who was to tell the sleepers forgets
\* them, and nobody falls asleep beside material it could use.
LEMMA SleepersStayTold ==
    ASSUME ChallengeInv, UNCHANGED <<bundles, legacy, notifying>>,
           \A p \in H!Procs : proc'[p] # proc[p] =>
              /\ proc[p].pc # "notify"
              /\ proc'[p].pc = "wait" => ~H!Fresh(p) /\ proc'[p].origin = proc[p].origin
                                                   /\ proc'[p].used = proc[p].used,
           \A p \in subscribed' : p \in H!Procs /\ (p \in subscribed \/ proc'[p].pc # "wait")
    PROVE  H!NoLostWakeUp'
<1> SUFFICES ASSUME NEW p \in subscribed', proc'[p].pc = "wait", H!Fresh(p)'
             PROVE  notifying' \/ \E s \in H!Solves : proc'[s].pc = "notify"
  BY DEF H!NoLostWakeUp, H!At
<1>1. p \in H!Procs /\ p \in subscribed
  OBVIOUS
<1>2. proc'[p] = proc[p]
  BY <1>1 DEF H!Fresh, H!Material, H!ParentMaterial
<1>3. H!Fresh(p) /\ proc[p].pc = "wait"
  BY <1>2 DEF H!Fresh, H!Material, H!ParentMaterial
<1>4. notifying \/ \E s \in H!Solves : proc[s].pc = "notify"
  BY <1>1, <1>3 DEF ChallengeInv, H!NoLostWakeUp, H!At
<1>5. \A s \in H!Solves : proc[s].pc = "notify" => proc'[s].pc = "notify"
  BY DEF H!Solves, H!Procs
<1>6. QED
  BY <1>4, <1>5

\* Nobody passes its claim: who is past it was there before, for the same host.
LEMMA ClaimsStay ==
    ASSUME ChallengeInv, outstanding' = outstanding,
           \A p \in H!Procs : proc'[p].pc \in Past =>
              proc[p].pc \in Past /\ proc'[p].origin = proc[p].origin
    PROVE  ClaimsHeld' /\ H!OnePromptPerHost'
BY DEF ChallengeInv, ClaimsHeld, H!OnePromptPerHost, H!Claiming, Past

\* The material of a host is its own, its parent's or that of an earlier version.
LEMMA MaterialIsDomestic ==
    ASSUME ChallengeInv, NEW o \in Origins
    PROVE  /\ H!Material(o) \in H!Jars \cup H!LegacyJars \cup {Nobody}
           /\ H!Material(o) \notin {Nobody, legacy} => H!Material(o).for \in {o, Parent[o]}
<1>1. bundles \in [Origins -> H!Jars \cup {Nobody}] /\ AtHome /\ Parent[o] \in Origins \cup {Nobody}
  BY DEF ChallengeInv, H!ChallengesAssumption, ChallengeTyped
<1>2. legacy \in H!LegacyJars \cup {Nobody}
  BY DEF ChallengeInv, ChallengeTyped
<1>3. H!Material(o) \in {bundles[o], legacy} \/ (Parent[o] \in Origins /\ H!Material(o) = bundles[Parent[o]])
  BY <1>1 DEF H!Material, H!ParentMaterial
<1>4. \A h \in Origins : bundles[h] \in H!Jars \cup {Nobody} /\ (bundles[h] # Nobody => bundles[h].for = h)
  BY <1>1 DEF AtHome
<1>5. QED
  BY <1>2, <1>3, <1>4

\* Where the request of a process may go when it ends.
LEMMA Finishes ==
    ASSUME ChallengeInv, NEW p \in H!Procs, proc[p].pc # "idle", NEW ok \in BOOLEAN, H!Finish(p, ok)
    PROVE  \E r \in Proc : /\ proc' = [proc EXCEPT ![p] = r] /\ Legal(p, r)
                           /\ r.pc \in {"idle", "served", "refused"}
<1>1. proc[p] \in Proc /\ Legal(p, proc[p])
  BY DEF ChallengeInv, ChallengeTyped
<1>2. CASE p \in Fetches
  <2>1. H!Idle \in Proc /\ Legal(p, H!Idle) /\ H!Idle.pc = "idle"
    BY DEF H!Idle, Proc, Labels, Legal, H!SolveLabels
  <2>2. proc' = [proc EXCEPT ![p] = H!Idle]
    BY <1>2 DEF H!Finish
  <2>3. QED
    BY <2>1, <2>2
<1>3. CASE p \notin Fetches
  <2> DEFINE r == [proc[p] EXCEPT !.pc = IF ok THEN "served" ELSE "refused", !.used = Nobody]
  <2>1. p \in H!Solves
    BY <1>3 DEF H!Solves, H!Procs
  <2>2. /\ r \in Proc /\ r.pc \in {"served", "refused"} /\ r.used = Nobody
        /\ r.origin = proc[p].origin /\ r.pc # "idle"
    BY <1>1 DEF Proc, Labels, H!SolveLabels
  <2>3. Legal(p, r)
    BY <1>1, <2>1, <2>2 DEF Legal
  <2>4. proc' = [proc EXCEPT ![p] = r]
    BY <1>3 DEF H!Finish
  <2>5. QED
    BY <2>2, <2>3, <2>4
<1>4. QED
  BY <1>2, <1>3

\* A process goes to another label and keeps its host and its material.
LEMMA Goes ==
    ASSUME ChallengeInv, NEW p \in H!Procs, proc[p].pc # "idle", NEW l \in Labels \ {"idle"},
           l \in H!SolveLabels => p \in H!Solves, H!Goto(p, l)
    PROVE  \E r \in Proc : /\ proc' = [proc EXCEPT ![p] = r] /\ Legal(p, r)
                           /\ r.pc = l /\ r.origin = proc[p].origin /\ r.used = proc[p].used
<1> DEFINE r == [proc[p] EXCEPT !.pc = l]
<1>1. proc[p] \in Proc /\ Legal(p, proc[p])
  BY DEF ChallengeInv, ChallengeTyped
<1>2. r \in Proc /\ r.pc = l /\ r.origin = proc[p].origin /\ r.used = proc[p].used
  BY <1>1 DEF Proc, Labels
<1>3. Legal(p, r)
  BY <1>1, <1>2 DEF Legal
<1>4. proc' = [proc EXCEPT ![p] = r]
  BY DEF H!Goto
<1>5. QED
  BY <1>2, <1>3, <1>4

\* One process moves without passing its claim, and may leave the list of sleepers.
LEMMA OneMoves ==
    ASSUME ChallengeInv, NEW p \in H!Procs, NEW r \in Proc, proc' = [proc EXCEPT ![p] = r], Legal(p, r),
           UNCHANGED <<outstanding, bundles, legacy, notifying>>, unverified' = spent',
           listed' \subseteq Origins, inFlight' \subseteq Origins, solving' \subseteq Origins,
           spent' \in [Origins -> 0 .. Limit], viewHost' \in H!Solves \cup {Nobody},
           subscribed' \subseteq subscribed \cup {p},
           proc[p].pc # "notify",
           r.pc = "wait" => ~H!Fresh(p) /\ r.origin = proc[p].origin /\ r.used = proc[p].used
                              /\ subscribed' \subseteq subscribed,
           r.pc \in Past => proc[p].pc \in Past /\ r.origin = proc[p].origin
    PROVE  ChallengeInv'
<1>1. /\ proc' \in [H!Procs -> Proc] /\ proc'[p] = r /\ \A q \in H!Procs \ {p} : proc'[q] = proc[q]
      /\ subscribed \subseteq H!Procs
  BY DEF ChallengeInv, ChallengeTyped
<1>2. ChallengeTyped' /\ AtHome'
  BY <1>1 DEF ChallengeInv, ChallengeTyped, AtHome
<1>3. \A q \in H!Procs : Legal(q, proc[q])'
  BY <1>1 DEF ChallengeInv, Legal
<1>4. H!NoLostWakeUp'
  BY <1>1, SleepersStayTold
<1>5. ClaimsHeld' /\ H!OnePromptPerHost'
  BY <1>1, ClaimsStay
<1>6. QED
  BY <1>2, <1>3, <1>4, <1>5 DEF ChallengeInv

-----------------------------------------------------------------------------
(* Requests                                                                *)

LEMMA RequestsBegin ==
    ASSUME ChallengeInv, NEW p \in H!Procs, NEW o \in Guarded, H!StartFetch(p, o) \/ H!Press(p, o)
    PROVE  ChallengeInv'
<1> DEFINE r == IF H!StartFetch(p, o) THEN [H!Idle EXCEPT !.pc = "attempt", !.origin = o]
                ELSE [H!Idle EXCEPT !.pc = "open", !.origin = o]
<1>1. /\ o \in Origins /\ o # Nobody /\ proc[p].pc = "idle" /\ proc' = [proc EXCEPT ![p] = r]
  BY DEF ChallengeInv, H!ChallengesAssumption, H!StartFetch, H!Press, H!At
<1>2. r \in Proc /\ r.pc \in {"attempt", "open"} /\ r.origin = o /\ r.used = Nobody
  BY <1>1 DEF H!Idle, Proc, Labels, H!FetchLabels, H!SolveLabels
<1>3. Legal(p, r)
  <2>1. CASE H!StartFetch(p, o)
    <3>1. r.pc = "attempt"
      BY <2>1 DEF H!Idle
    <3>2. QED
      BY <1>1, <1>2, <3>1 DEF Legal, H!SolveLabels
  <2>2. CASE ~H!StartFetch(p, o)
    <3>1. p \in H!Solves
      BY <2>2 DEF H!Press, H!Solves
    <3>2. QED
      BY <1>1, <1>2, <3>1 DEF Legal
  <2>3. QED
    BY <2>1, <2>2
<1>4. /\ UNCHANGED <<outstanding, listed, bundles, legacy, notifying, subscribed, inFlight, spent, viewHost, unverified>>
      /\ solving' \subseteq Origins
  BY <1>1 DEF H!StartFetch, H!Press, H!fetcherVars, H!brokerVars, H!solverVars, ChallengeInv, ChallengeTyped
<1> HIDE DEF r
<1>5. QED
  BY <1>1, <1>2, <1>3, <1>4, OneMoves DEF ChallengeInv, ChallengeTyped, Past

\* The steps of a request that take or give back no claim.
LEMMA RequestKeeps ==
    ASSUME ChallengeInv, NEW p \in H!Procs,
           \/ H!Attempt(p) \/ H!Answer(p) \/ H!WarmUp(p) \/ H!Subscribe(p) \/ H!Recheck(p) \/ H!Wait(p) \/ H!Replay(p)
           \/ H!Clear(p)
    PROVE  ChallengeInv'
<1>1. proc[p] \in Proc /\ Legal(p, proc[p]) /\ ChallengeTyped /\ unverified = spent
  BY DEF ChallengeInv, ChallengeTyped
<1>2. /\ UNCHANGED <<outstanding, bundles, legacy, notifying, inFlight, spent, solving, viewHost, unverified>>
      /\ proc[p].pc \in H!FetchLabels
  BY DEF H!Attempt, H!Answer, H!WarmUp, H!Subscribe, H!Recheck, H!Wait, H!Replay, H!Clear, H!fetcherVars, H!brokerVars,
         H!solverVars, H!At, H!FetchLabels
<1>3. proc[p].pc \notin {"idle", "notify"} /\ proc[p].origin \in Origins
  BY <1>1, <1>2 DEF H!FetchLabels, Legal, Proc
<1>4. listed' \subseteq Origins
  BY <1>1, <1>3 DEF H!Attempt, H!Answer, H!WarmUp, H!Subscribe, H!Recheck, H!Wait, H!Replay, H!Clear, H!fetcherVars, ChallengeTyped
<1>5. subscribed' \subseteq subscribed \cup {p} /\ (~H!Subscribe(p) => subscribed' \subseteq subscribed)
  BY DEF H!Attempt, H!Answer, H!WarmUp, H!Subscribe, H!Recheck, H!Wait, H!Replay, H!Clear, H!brokerVars
<1>6. ASSUME NEW ok \in BOOLEAN, H!Finish(p, ok) PROVE ChallengeInv'
  <2>1. PICK r \in Proc : /\ proc' = [proc EXCEPT ![p] = r] /\ Legal(p, r)
                          /\ r.pc \in {"idle", "served", "refused"}
    BY <1>3, <1>6, Finishes
  <2>2. r.pc # "wait" /\ r.pc \notin Past
    BY <2>1 DEF Past
  <2>3. QED
    BY <1>1, <1>2, <1>3, <1>4, <1>5, <2>1, <2>2, OneMoves DEF ChallengeTyped
<1>7. ASSUME NEW l \in H!FetchLabels, H!Goto(p, l), l \in Past => proc[p].pc \in Past,
             l = "wait" => H!Recheck(p) /\ ~H!Fresh(p)
      PROVE  ChallengeInv'
  <2>1. l \in Labels \ {"idle"} /\ l \notin H!SolveLabels
    BY DEF Labels, H!FetchLabels, H!SolveLabels
  <2>2. PICK r \in Proc : /\ proc' = [proc EXCEPT ![p] = r] /\ Legal(p, r)
                          /\ r.pc = l /\ r.origin = proc[p].origin /\ r.used = proc[p].used
    BY <1>3, <1>7, <2>1, Goes
  <2>3. r.pc = "wait" => ~H!Fresh(p) /\ subscribed' \subseteq subscribed
    BY <1>5, <1>7, <2>2 DEF H!Recheck, H!Subscribe, H!At
  <2>4. QED
    BY <1>1, <1>2, <1>3, <1>4, <1>5, <1>7, <2>2, <2>3, OneMoves DEF ChallengeTyped
<1>8. CASE H!Attempt(p)
  <2> DEFINE jar == H!Material(proc[p].origin)
             r == [proc[p] EXCEPT !.pc = "answer", !.used = jar]
  <2>1. jar \in H!Jars \cup H!LegacyJars \cup {Nobody} /\ (jar \notin {Nobody, legacy} => jar.for \in {proc[p].origin, Parent[proc[p].origin]})
    BY <1>3, MaterialIsDomestic
  <2> HIDE DEF jar
  <2>2. r \in Proc /\ r.pc = "answer" /\ r.origin = proc[p].origin /\ r.used = jar
    BY <1>1, <2>1 DEF Proc, Labels, H!FetchLabels
  <2>3. Legal(p, r)
    BY <1>1, <1>3, <2>1, <2>2 DEF Legal, H!SolveLabels
  <2>4. proc' = [proc EXCEPT ![p] = r]
    BY <1>8 DEF H!Attempt, jar
  <2> HIDE DEF r
  <2>5. QED
    BY <1>1, <1>2, <1>3, <1>4, <1>5, <2>2, <2>3, <2>4, OneMoves DEF ChallengeTyped, Past
<1>9. CASE H!Answer(p) \/ H!WarmUp(p)
  BY <1>6, <1>7, <1>9 DEF H!Answer, H!WarmUp, H!FetchLabels, Past
<1>10. CASE H!Subscribe(p)
  BY <1>7, <1>10 DEF H!Subscribe, H!At, H!FetchLabels, Past
<1>11. CASE H!Recheck(p)
  BY <1>7, <1>11 DEF H!Recheck, H!At, H!FetchLabels, Past
<1>12. CASE H!Wait(p) \/ H!Replay(p)
  BY <1>6, <1>7, <1>12 DEF H!Wait, H!Replay, H!At, H!FetchLabels, Past
<1>13. CASE H!Clear(p)
  BY <1>6, <1>13 DEF H!Clear
<1>14. QED
  BY <1>8, <1>9, <1>10, <1>11, <1>12, <1>13

\* The claim: whoever is refused ends, whoever gets it finds nobody else past it.
LEMMA ClaimKeeps ==
    ASSUME ChallengeInv, NEW p \in H!Procs, H!Claim(p)
    PROVE  ChallengeInv'
<1> DEFINE o == proc[p].origin
<1>1. proc[p] \in Proc /\ Legal(p, proc[p]) /\ ChallengeTyped /\ unverified = spent /\ proc[p].pc = "claim"
  BY DEF ChallengeInv, ChallengeTyped, H!Claim, H!At
<1>2. UNCHANGED <<bundles, legacy, subscribed, notifying, inFlight, spent, solving, viewHost, unverified>>
  BY DEF H!Claim, H!brokerVars, H!solverVars
<1>3. o \in Origins
  BY <1>1 DEF Legal, Proc
<1>4. CASE outstanding[o] = "held"
  <2>1. H!Finish(p, FALSE) /\ UNCHANGED <<outstanding, listed>>
    BY <1>4 DEF H!Claim, H!fetcherVars
  <2>2. PICK r \in Proc : /\ proc' = [proc EXCEPT ![p] = r] /\ Legal(p, r)
                          /\ r.pc \in {"idle", "served", "refused"}
    BY <1>1, <2>1, Finishes
  <2>3. r.pc # "wait" /\ r.pc \notin Past
    BY <2>2 DEF Past
  <2>4. QED
    BY <1>1, <1>2, <2>1, <2>2, <2>3, OneMoves DEF ChallengeTyped
<1>5. CASE outstanding[o] # "held"
  <2>1. /\ outstanding' = [outstanding EXCEPT ![o] = "held"] /\ listed' = listed \cup {o}
        /\ H!Goto(p, "resolve")
    BY <1>5 DEF H!Claim
  <2>2. PICK r \in Proc : /\ proc' = [proc EXCEPT ![p] = r] /\ Legal(p, r)
                          /\ r.pc = "resolve" /\ r.origin = o /\ r.used = proc[p].used
    BY <1>1, <2>1, Goes DEF Labels, H!FetchLabels, H!SolveLabels
  <2>3. proc' \in [H!Procs -> Proc] /\ proc'[p] = r /\ \A q \in H!Procs \ {p} : proc'[q] = proc[q]
    BY <1>1, <2>2 DEF ChallengeTyped
  <2>4. /\ outstanding' \in [Origins -> {"free", "held"}] /\ outstanding'[o] = "held"
        /\ \A h \in Origins : outstanding[h] = "held" => outstanding'[h] = "held"
    BY <1>1, <1>3, <2>1 DEF ChallengeTyped
  <2>5. ChallengeTyped' /\ AtHome' /\ unverified' = spent'
    BY <1>1, <1>2, <1>3, <2>1, <2>3, <2>4 DEF ChallengeTyped, ChallengeInv, AtHome
  <2>6. \A q \in H!Procs : Legal(q, proc[q])'
    BY <1>2, <2>2, <2>3 DEF ChallengeInv, Legal
  <2>7. H!NoLostWakeUp'
    BY <1>1, <1>2, <2>2, <2>3, SleepersStayTold DEF ChallengeTyped
  <2>8. \A q \in H!Procs : proc[q].pc \in Past => proc[q].origin \in Origins /\ outstanding[proc[q].origin] = "held"
    BY DEF ChallengeInv, ChallengeTyped, Proc, Legal, Past, ClaimsHeld
  <2>9. ClaimsHeld'
    BY <2>2, <2>3, <2>4, <2>8 DEF ClaimsHeld
  <2>10. H!OnePromptPerHost'
    BY <1>5, <2>2, <2>3, <2>8 DEF ChallengeInv, H!OnePromptPerHost, H!Claiming, Past
  <2>11. QED
    BY <2>5, <2>6, <2>7, <2>9, <2>10 DEF ChallengeInv
<1>6. QED
  BY <1>4, <1>5

\* The claim is given back by the only process past it, or by time when there is none.
LEMMA ReleaseKeeps ==
    ASSUME ChallengeInv, NEW p \in H!Procs, H!Release(p)
    PROVE  ChallengeInv'
<1> DEFINE o == proc[p].origin
<1>1. proc[p] \in Proc /\ Legal(p, proc[p]) /\ ChallengeTyped /\ unverified = spent /\ proc[p].pc = "release"
  BY DEF ChallengeInv, ChallengeTyped, H!Release, H!At
<1>2. /\ UNCHANGED <<listed, bundles, legacy, subscribed, notifying, inFlight, spent, solving, viewHost, unverified>>
      /\ outstanding' = [outstanding EXCEPT ![o] = "free"] /\ H!Goto(p, "clear")
  BY DEF H!Release, H!brokerVars, H!solverVars
<1>3. o \in Origins
  BY <1>1 DEF Legal, Proc
<1>4. PICK r \in Proc : /\ proc' = [proc EXCEPT ![p] = r] /\ Legal(p, r)
                        /\ r.pc = "clear" /\ r.origin = o /\ r.used = proc[p].used
  BY <1>1, <1>2, Goes DEF Labels, H!FetchLabels, H!SolveLabels
<1>5. proc' \in [H!Procs -> Proc] /\ proc'[p] = r /\ \A q \in H!Procs \ {p} : proc'[q] = proc[q]
  BY <1>1, <1>4 DEF ChallengeTyped
<1>6. /\ outstanding' \in [Origins -> {"free", "held"}]
      /\ \A h \in Origins : h # o => outstanding'[h] = outstanding[h]
  BY <1>1, <1>2, <1>3 DEF ChallengeTyped
<1>7. ChallengeTyped' /\ AtHome' /\ unverified' = spent'
  BY <1>1, <1>2, <1>5, <1>6 DEF ChallengeTyped, ChallengeInv, AtHome
<1>8. \A q \in H!Procs : Legal(q, proc[q])'
  BY <1>2, <1>4, <1>5 DEF ChallengeInv, Legal
<1>9. H!NoLostWakeUp'
  BY <1>1, <1>2, <1>4, <1>5, SleepersStayTold DEF ChallengeTyped
<1>10. \A q \in H!Procs : proc'[q].pc \in Past => q # p /\ proc[q].pc \in Past /\ proc'[q] = proc[q]
  BY <1>4, <1>5 DEF Past
<1>11. \A q \in H!Procs : q # p /\ proc[q].pc \in Past => proc[q].origin # o /\ proc[q].origin \in Origins
  BY <1>1 DEF ChallengeInv, H!OnePromptPerHost, H!Claiming, Past, ChallengeTyped, Proc, Legal
<1>12. ClaimsHeld'
  BY <1>6, <1>10, <1>11 DEF ChallengeInv, ClaimsHeld
<1>13. H!OnePromptPerHost'
  BY <1>10 DEF ChallengeInv, H!OnePromptPerHost, H!Claiming, Past
<1>14. QED
  BY <1>7, <1>8, <1>9, <1>12, <1>13 DEF ChallengeInv

LEMMA ExpireKeeps ==
    ASSUME ChallengeInv, NEW o \in Origins, H!ExpireClaim(o)
    PROVE  ChallengeInv'
<1>1. /\ UNCHANGED <<listed, bundles, legacy, subscribed, notifying, inFlight, spent, solving, viewHost, unverified, proc>>
      /\ outstanding' = [outstanding EXCEPT ![o] = "free"]
      /\ \A p \in H!Procs : proc[p].pc \in Past => proc[p].origin # o
  BY DEF H!ExpireClaim, H!brokerVars, H!solverVars, H!Claiming, Past
<1>2. /\ outstanding' \in [Origins -> {"free", "held"}]
      /\ \A h \in Origins : h # o => outstanding'[h] = outstanding[h]
  BY <1>1 DEF ChallengeInv, ChallengeTyped
<1>3. ChallengeTyped' /\ AtHome' /\ unverified' = spent' /\ \A q \in H!Procs : Legal(q, proc[q])'
  BY <1>1, <1>2 DEF ChallengeTyped, ChallengeInv, AtHome, Legal
<1>4. H!NoLostWakeUp'
  BY <1>1, SleepersStayTold DEF ChallengeInv, ChallengeTyped
<1>5. \A p \in H!Procs : proc[p].pc \in Past => proc[p].origin \in Origins
  BY DEF ChallengeInv, ChallengeTyped, Proc, Legal, Past
<1>6. ClaimsHeld'
  BY <1>1, <1>2, <1>5 DEF ChallengeInv, ClaimsHeld
<1>7. H!OnePromptPerHost'
  BY <1>1 DEF ChallengeInv, H!OnePromptPerHost, H!Claiming
<1>8. QED
  BY <1>3, <1>4, <1>6, <1>7 DEF ChallengeInv

\* A request that owns its challenge goes on, and may start the daemon's solve.
LEMMA ResolvesKeep ==
    ASSUME ChallengeInv, NEW p \in H!Procs, H!Resolve(p)
    PROVE  ChallengeInv'
<1>1. proc[p] \in Proc /\ Legal(p, proc[p]) /\ ChallengeTyped /\ unverified = spent /\ proc[p].pc = "resolve"
  BY DEF ChallengeInv, ChallengeTyped, H!Resolve, H!At
<1>2. UNCHANGED <<outstanding, listed, bundles, legacy, subscribed, notifying>>
  BY DEF H!Resolve, H!fetcherVars, H!brokerVars
<1>3. ASSUME NEW l \in {"replay", "subscribe"}, H!Goto(p, l), UNCHANGED H!solverVars PROVE ChallengeInv'
  <2>1. PICK r \in Proc : /\ proc' = [proc EXCEPT ![p] = r] /\ Legal(p, r)
                          /\ r.pc = l /\ r.origin = proc[p].origin /\ r.used = proc[p].used
    BY <1>1, <1>3, Goes DEF Labels, H!FetchLabels, H!SolveLabels
  <2>2. UNCHANGED <<inFlight, spent, solving, viewHost, unverified>>
    BY <1>3 DEF H!solverVars
  <2>3. QED
    BY <1>1, <1>2, <2>1, <2>2, OneMoves DEF ChallengeTyped, Past
<1>4. ASSUME NEW s \in AutoSolves, H!StartsSolve(s, proc[p].origin), UNCHANGED <<solving, viewHost>>,
             proc' = [proc EXCEPT ![p].pc = "subscribe",
                                  ![s] = [H!Idle EXCEPT !.pc = "open", !.origin = proc[p].origin]]
      PROVE  ChallengeInv'
  <2> DEFINE o == proc[p].origin
             r == [proc[p] EXCEPT !.pc = "subscribe"]
             t == [H!Idle EXCEPT !.pc = "open", !.origin = o]
  <2>1. s \in H!Procs /\ s \in H!Solves /\ s # p /\ o \in Origins /\ o # Nobody
    BY <1>1, <1>4 DEF ChallengeInv, H!ChallengesAssumption, H!Procs, H!Solves, H!StartsSolve, H!At, Legal, Proc
  <2>2. r \in Proc /\ r.pc = "subscribe" /\ r.origin = o /\ r.used = proc[p].used
    BY <1>1 DEF Proc, Labels, H!FetchLabels
  <2>3. t \in Proc /\ t.pc = "open" /\ t.origin = o /\ t.used = Nobody
    BY <2>1 DEF H!Idle, Proc, Labels, H!SolveLabels
  <2>4. Legal(p, r) /\ Legal(s, t)
    BY <1>1, <2>1, <2>2, <2>3 DEF Legal, H!SolveLabels
  <2>5. /\ proc' \in [H!Procs -> Proc] /\ proc'[p] = r /\ proc'[s] = t
        /\ \A q \in H!Procs \ {p, s} : proc'[q] = proc[q]
    BY <1>1, <1>4, <2>1, <2>2, <2>3 DEF ChallengeTyped
  <2>6. spent' \in [Origins -> 0 .. Limit] /\ inFlight' \subseteq Origins /\ unverified' = spent'
    <3>1. spent[o] \in 0 .. Limit /\ spent[o] < Limit /\ Limit \in Nat
      BY <1>1, <1>4, <2>1 DEF ChallengeInv, H!ChallengesAssumption, ChallengeTyped, H!StartsSolve
    <3>2. spent[o] + 1 \in 0 .. Limit
      BY <3>1
    <3>3. spent' = [spent EXCEPT ![o] = spent[o] + 1] /\ unverified' = [spent EXCEPT ![o] = spent[o] + 1]
          /\ inFlight' = inFlight \cup {o}
      BY <1>1, <1>4 DEF H!StartsSolve
    <3>4. QED
      BY <1>1, <2>1, <3>2, <3>3 DEF ChallengeTyped
  <2>7. ChallengeTyped' /\ AtHome'
    BY <1>1, <1>2, <1>4, <2>5, <2>6 DEF ChallengeTyped, ChallengeInv, AtHome
  <2> HIDE DEF r, t
  <2>8. \A q \in H!Procs : Legal(q, proc[q])'
    BY <1>2, <2>1, <2>4, <2>5 DEF ChallengeInv, Legal
  <2>9. proc[s].pc = "idle"
    BY <1>4 DEF H!StartsSolve, H!At
  <2>10. H!NoLostWakeUp'
    BY <1>1, <1>2, <2>2, <2>3, <2>5, <2>9, SleepersStayTold DEF ChallengeTyped
  <2>11. ClaimsHeld' /\ H!OnePromptPerHost'
    BY <1>1, <1>2, <2>2, <2>3, <2>5, ClaimsStay DEF Past
  <2>12. QED
    BY <2>6, <2>7, <2>8, <2>10, <2>11 DEF ChallengeInv
<1>5. QED
  BY <1>3, <1>4 DEF H!Resolve

-----------------------------------------------------------------------------
(* Solves and the operator                                                 *)

\* A solve that is over frees the claim of whoever started it.
LEMMA LeaveKeeps ==
    ASSUME ChallengeInv, NEW s \in H!Solves, proc[s].pc \in H!SolveLabels \ {"notify"}, H!Leave(s),
           UNCHANGED <<outstanding, listed, bundles, legacy, subscribed, notifying>>,
           spent' \in [Origins -> 0 .. Limit], unverified' = spent', viewHost' \in H!Solves \cup {Nobody}
    PROVE  ChallengeInv'
<1>1. s \in H!Procs /\ proc' = [proc EXCEPT ![s] = H!Idle]
  BY DEF H!Leave, H!Procs, H!Solves
<1>2. H!Idle \in Proc /\ Legal(s, H!Idle) /\ H!Idle.pc = "idle"
  BY DEF H!Idle, Proc, Labels, Legal, H!SolveLabels
<1>3. inFlight' \subseteq Origins /\ solving' \subseteq Origins /\ listed \subseteq Origins
  BY DEF ChallengeInv, ChallengeTyped, H!Leave
<1>4. QED
  BY <1>1, <1>2, <1>3, OneMoves DEF Past

LEMMA SolveKeeps ==
    ASSUME ChallengeInv, NEW s \in H!Solves, H!Open(s) \/ H!Show(s) \/ H!Judge(s)
    PROVE  ChallengeInv'
<1>1. /\ s \in H!Procs /\ ChallengeTyped /\ unverified = spent /\ proc[s].pc \in H!SolveLabels \ {"notify"}
      /\ UNCHANGED <<outstanding, listed, bundles, legacy, subscribed, notifying>>
  BY DEF ChallengeInv, H!Open, H!Show, H!Judge, H!At, H!Procs, H!Solves, H!SolveLabels, H!fetcherVars, H!brokerVars
<1>2. CASE H!Judge(s)
  <2>1. H!Leave(s) /\ viewHost' = viewHost
    BY <1>2 DEF H!Judge
  <2>2. spent' \in [Origins -> 0 .. Limit] /\ unverified' = spent'
    <3>1. CASE UNCHANGED <<spent, unverified>>
      BY <1>1, <3>1 DEF ChallengeTyped
    <3>2. CASE spent' = [spent EXCEPT ![proc[s].origin] = 0] /\ unverified' = [unverified EXCEPT ![proc[s].origin] = 0]
      <4>1. 0 \in 0 .. Limit
        BY DEF ChallengeInv, H!ChallengesAssumption
      <4>2. spent' \in [Origins -> 0 .. Limit]
        BY <1>1, <3>2, <4>1 DEF ChallengeTyped
      <4>3. QED
        BY <1>1, <3>2, <4>2
    <3>3. QED
      BY <1>2, <3>1, <3>2 DEF H!Judge
  <2>3. QED
    BY <1>1, <2>1, <2>2, LeaveKeeps DEF ChallengeTyped
<1>3. CASE H!Open(s) \/ H!Show(s)
  <2>1. UNCHANGED <<spent, unverified>> /\ viewHost' \in H!Solves \cup {Nobody}
    BY <1>3 DEF H!Open, H!Show
  <2>2. CASE H!Leave(s)
    BY <1>1, <2>1, <2>2, LeaveKeeps DEF ChallengeTyped
  <2>3. ASSUME NEW l \in {"show", "store"}, H!Goto(s, l), UNCHANGED <<inFlight, solving>> PROVE ChallengeInv'
    <3>1. PICK r \in Proc : proc' = [proc EXCEPT ![s] = r] /\ Legal(s, r) /\ r.pc = l
      BY <1>1, <2>3, Goes DEF Labels, H!FetchLabels, H!SolveLabels
    <3>2. QED
      BY <1>1, <2>1, <2>3, <3>1, OneMoves DEF ChallengeTyped, Past
  <2>4. QED
    BY <1>3, <2>2, <2>3 DEF H!Open, H!Show
<1>4. QED
  BY <1>2, <1>3

\* Material arrives with somebody who will tell: the solve that captured it.
LEMMA CaptureKeeps ==
    ASSUME ChallengeInv, NEW s \in H!Solves, NEW jar \in H!Jars, H!StoreCapture(s, jar)
    PROVE  ChallengeInv'
<1>1. /\ s \in H!Procs /\ ChallengeTyped /\ unverified = spent /\ proc[s].pc = "store" /\ proc[s] \in Proc
      /\ Legal(s, proc[s]) /\ jar.for = proc[s].origin
      /\ UNCHANGED <<outstanding, listed, legacy, subscribed, notifying, inFlight, spent, solving, viewHost, unverified>>
      /\ bundles' = [bundles EXCEPT ![proc[s].origin] = jar] /\ H!Goto(s, "notify")
  BY DEF ChallengeInv, ChallengeTyped, H!StoreCapture, H!At, H!Procs, H!Solves, H!fetcherVars, H!solverVars
<1>2. PICK r \in Proc : proc' = [proc EXCEPT ![s] = r] /\ Legal(s, r) /\ r.pc = "notify"
  BY <1>1, Goes DEF Labels, H!FetchLabels, H!SolveLabels
<1>3. proc' \in [H!Procs -> Proc] /\ proc'[s] = r /\ \A q \in H!Procs \ {s} : proc'[q] = proc[q]
  BY <1>1, <1>2 DEF ChallengeTyped
<1>4. bundles' \in [Origins -> H!Jars \cup {Nobody}] /\ AtHome'
  BY <1>1 DEF ChallengeTyped, ChallengeInv, AtHome
<1>5. ChallengeTyped' /\ unverified' = spent'
  BY <1>1, <1>3, <1>4 DEF ChallengeTyped
<1>6. \A q \in H!Procs : Legal(q, proc[q])'
  BY <1>1, <1>2, <1>3 DEF ChallengeInv, Legal
<1>7. H!NoLostWakeUp'
  BY <1>2, <1>3 DEF H!NoLostWakeUp, H!At
<1>8. ClaimsHeld' /\ H!OnePromptPerHost'
  BY <1>1, <1>2, <1>3, ClaimsStay DEF Past
<1>9. QED
  BY <1>4, <1>5, <1>6, <1>7, <1>8 DEF ChallengeInv

\* Telling empties the list of sleepers: whoever sleeps on looks again.
LEMMA NotifyCaptureKeeps ==
    ASSUME ChallengeInv, NEW s \in H!Solves, H!NotifyCapture(s)
    PROVE  ChallengeInv'
<1>1. /\ s \in H!Procs /\ ChallengeTyped /\ unverified = spent /\ proc[s].pc = "notify"
      /\ UNCHANGED <<outstanding, listed, bundles, legacy, notifying, inFlight, spent, solving, viewHost, unverified>>
      /\ subscribed' = {} /\ H!Goto(s, "attempt")
  BY DEF ChallengeInv, H!NotifyCapture, H!At, H!Procs, H!Solves, H!fetcherVars, H!solverVars
<1>2. PICK r \in Proc : proc' = [proc EXCEPT ![s] = r] /\ Legal(s, r) /\ r.pc = "attempt"
  BY <1>1, Goes DEF Labels, H!FetchLabels, H!SolveLabels
<1>3. proc' \in [H!Procs -> Proc] /\ proc'[s] = r /\ \A q \in H!Procs \ {s} : proc'[q] = proc[q]
  BY <1>1, <1>2 DEF ChallengeTyped
<1>4. ChallengeTyped' /\ AtHome' /\ unverified' = spent'
  BY <1>1, <1>3 DEF ChallengeTyped, ChallengeInv, AtHome
<1>5. \A q \in H!Procs : Legal(q, proc[q])'
  BY <1>1, <1>2, <1>3 DEF ChallengeInv, Legal
<1>6. H!NoLostWakeUp'
  BY <1>1 DEF H!NoLostWakeUp
<1>7. ClaimsHeld' /\ H!OnePromptPerHost'
  BY <1>1, <1>2, <1>3, ClaimsStay DEF Past
<1>8. QED
  BY <1>4, <1>5, <1>6, <1>7 DEF ChallengeInv

LEMMA OperatorKeeps ==
    ASSUME ChallengeInv,
           \/ \E o \in Origins, jar \in H!Jars : H!Submit(o, jar)
           \/ \E o \in Origins : H!Delete(o)
           \/ H!Notify
    PROVE  ChallengeInv'
<1>1. UNCHANGED <<outstanding, listed, legacy, inFlight, spent, solving, viewHost, unverified, proc>>
  BY DEF H!Submit, H!Delete, H!Notify, H!fetcherVars, H!solverVars
<1>2. bundles' \in [Origins -> H!Jars \cup {Nobody}] /\ AtHome'
  BY DEF H!Submit, H!Delete, H!Notify, ChallengeInv, ChallengeTyped, AtHome
<1>3. subscribed' \subseteq H!Procs /\ notifying' \in BOOLEAN /\ (notifying' \/ subscribed' = {})
  BY DEF H!Submit, H!Delete, H!Notify, ChallengeInv, ChallengeTyped
<1>4. ChallengeTyped' /\ unverified' = spent' /\ \A q \in H!Procs : Legal(q, proc[q])'
  BY <1>1, <1>2, <1>3 DEF ChallengeInv, ChallengeTyped, Legal
<1>5. H!NoLostWakeUp'
  BY <1>3 DEF H!NoLostWakeUp
<1>6. ClaimsHeld' /\ H!OnePromptPerHost'
  BY <1>1, ClaimsStay
<1>7. QED
  BY <1>2, <1>4, <1>5, <1>6 DEF ChallengeInv

-----------------------------------------------------------------------------
(* The theorems                                                            *)

LEMMA ChallengesBegin == H!ChallengesAssumption /\ H!Init => ChallengeInv
<1> SUFFICES ASSUME H!ChallengesAssumption, H!Init PROVE ChallengeInv
  OBVIOUS
<1>1. H!Idle \in Proc /\ (\A p \in H!Procs : Legal(p, H!Idle)) /\ H!Idle.pc = "idle"
  BY DEF H!Idle, Proc, Labels, Legal, H!SolveLabels
<1>2. ChallengeTyped
  <2>1. 0 \in 0 .. Limit
    BY DEF ChallengeInv, H!ChallengesAssumption
  <2>2. QED
    BY <1>1, <2>1 DEF H!Init, ChallengeTyped
<1>3. ClaimsHeld /\ H!OnePromptPerHost /\ \A p \in H!Procs : Legal(p, proc[p])
  BY <1>1 DEF H!Init, ClaimsHeld, H!OnePromptPerHost, H!Claiming, Past
<1>4. QED
  BY <1>2, <1>3 DEF H!Init, ChallengeInv, AtHome, H!NoLostWakeUp

LEMMA ChallengesStay == ChallengeInv /\ [H!Next]_H!vars => ChallengeInv'
<1> SUFFICES ASSUME ChallengeInv, [H!Next]_H!vars PROVE ChallengeInv'
  OBVIOUS
<1>1. ASSUME NEW p \in H!Procs, H!ProcStep(p) PROVE ChallengeInv'
  BY <1>1, RequestKeeps, ClaimKeeps, ReleaseKeeps, ResolvesKeep, SolveKeeps, CaptureKeeps,
     NotifyCaptureKeeps DEF H!ProcStep, H!FetchStep, H!SolveStep
<1>2. CASE \/ \E p \in Fetches, o \in Guarded : H!StartFetch(p, o)
           \/ \E s \in Presses, o \in Guarded : H!Press(s, o)
  BY <1>2, RequestsBegin DEF H!Procs
<1>3. CASE UNCHANGED H!vars
  <2>1. UNCHANGED <<outstanding, listed, bundles, legacy, subscribed, notifying, inFlight, spent, solving, viewHost,
                    unverified, proc>>
    BY <1>3 DEF H!vars, H!fetcherVars, H!brokerVars, H!solverVars
  <2>2. H!NoLostWakeUp'
    BY <2>1 DEF ChallengeInv, H!NoLostWakeUp, H!Fresh, H!Material, H!ParentMaterial, H!At
  <2>3. QED
    BY <2>1, <2>2 DEF ChallengeInv, ChallengeTyped, AtHome, ClaimsHeld, Legal, H!OnePromptPerHost, H!Claiming
<1>4. QED
  BY <1>1, <1>2, <1>3, OperatorKeeps, ExpireKeeps DEF H!Next

LEMMA ChallengeInvariant == ASSUME H!ChallengesAssumption PROVE H!Spec => []ChallengeInv
<1>1. H!Init => ChallengeInv
  BY ChallengesBegin
<1>2. QED
  BY <1>1, ChallengesStay, PTL DEF H!Spec

\* For every number of hosts, requests and solves: no request sleeps beside material it
\* could use with nobody about to tell it, a host's requests make one prompt, and no
\* request carries material stored for another domain, whichever of the fetcher, the solver,
\* the reader and the operator moves when.
THEOREM ChallengesAreSound == H!Spec => []ChallengesSound
<1>1. ASSUME ChallengeInv PROVE ChallengesSound
  <2>1. ASSUME NEW p \in H!Procs PROVE H!ProcOK(p)
    <3>1. proc[p] \in Proc /\ Legal(p, proc[p])
      BY <1>1 DEF ChallengeInv, ChallengeTyped
    <3>2. proc[p].pc \in {"idle"} \cup H!FetchLabels \cup (IF p \in H!Solves THEN H!SolveLabels ELSE {})
      BY <3>1 DEF Proc, Labels, Legal
    <3>3. QED
      BY <3>1, <3>2 DEF H!ProcOK, Proc, Legal, H!At
  <2>2. H!TypeOK
    BY <1>1, <2>1 DEF ChallengeInv, ChallengeTyped, H!TypeOK
  <2>3. H!MaterialStaysInDomain
    BY <1>1 DEF ChallengeInv, Legal, H!MaterialStaysInDomain
  <2>4. QED
    BY <1>1, <2>2, <2>3 DEF ChallengeInv, ChallengesSound, H!ChallengesSound
<1>2. QED
  BY <1>1, ChallengeInvariant, MCChallengesAssumption, PTL

\* Whatever requests are challenged, and whatever is captured and refused: since a host
\* last let one of its probes through, the daemon has opened no more windows for it than
\* its allowance.
THEOREM AllowanceHolds == H!Spec => []AllowanceRespected
<1>1. ASSUME ChallengeInv PROVE AllowanceRespected
  BY <1>1 DEF ChallengeInv, H!ChallengesAssumption, ChallengeTyped, AllowanceRespected, H!AllowanceRespected
<1>2. QED
  BY <1>1, ChallengeInvariant, MCChallengesAssumption, PTL
=============================================================================
