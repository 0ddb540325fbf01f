---------------------------- MODULE SourceEngine ----------------------------
(***************************************************************************)
(* The plugin engine for one plugin key: the installation record and the   *)
(* cached binaries (internal/engine/engine.go, registry.go), the map of    *)
(* loaded plugins with its one-loader-per-source discipline, and the pool  *)
(* of single-threaded instances each loaded plugin owns (instance.go).     *)
(*                                                                         *)
(* Callers are API requests and download workers that call into the        *)
(* source, admins are requests that install or uninstall it.  A step is    *)
(* what one goroutine does between two accesses to state another one can   *)
(* change: the row, a file, Engine.mu, loadedPlugin.mu, the idle channel.  *)
(***************************************************************************)
EXTENDS Naturals, FiniteSets, Sequences

CONSTANTS Callers,    \* goroutines that call into the source
          Admins,     \* requests that install or uninstall it
          Builds,     \* binaries of the plugin
          Paths,      \* cache paths, one per version
          PathOf,     \* the cache path of a binary: local rebuilds share one
          PoolSize,   \* defaultPoolSize
          MaxCalls,   \* bound: calls in a behaviour
          MaxChanges, \* bound: installs, uninstalls and shutdowns in a behaviour
          MaxCrashes, \* bound: crashes in a behaviour
          None        \* no binary

ASSUME EnginePathAssumption == PathOf \in [Builds -> Paths] /\ None \notin Builds \cup Paths
ASSUME EngineBoundAssumption ==
    /\ PoolSize \in Nat \ {0}
    /\ MaxCalls \in Nat /\ MaxChanges \in Nat /\ MaxCrashes \in Nat

VARIABLES
    row,      \* the sources row: its id (0: never recorded), installed, path
    ids,      \* installation ids handed out by identity.New
    files,    \* the binary each cache path holds, or None
    plugins,  \* Engine.plugins: installation id -> loaded plugin
    loading,  \* Engine.loading: installation ids somebody compiles
    heap,     \* every loaded plugin of this process, in order of compilation
    closing,  \* plugins taken out of the map that close has yet to finish
    caller,   \* what each caller does next, and its locals
    admin,    \* what each admin does next, and its locals
    calls, changes, crashes

memoryVars == <<plugins, loading, heap, closing>>
diskVars   == <<row, ids, files>>
countVars  == <<calls, changes, crashes>>
vars == <<diskVars, memoryVars, caller, admin, countVars>>

\* live counts the instances, idle the ones in the channel; phase follows close.
Plugin == [id : Nat, build : Builds, live : Nat, idle : Nat,
           phase : {"open", "closed", "drained"}]

CallerLabels == {"idle", "resolve", "lookup", "await", "readRow", "compile", "store",
                 "acquire", "take", "wait", "call", "release", "push", "discard"}
NoCall == [pc |-> "idle", id |-> 0, path |-> None, plugin |-> 0, room |-> FALSE]

AdminLabels == {"idle", "write", "probe", "find", "record", "unload", "erase", "remove"}
NoChange == [pc |-> "idle", build |-> None, id |-> 0, path |-> None, local |-> FALSE]

Init ==
    /\ \/ /\ row = [id |-> 0, installed |-> FALSE, path |-> None] /\ ids = 0
          /\ files = [p \in Paths |-> None]
       \/ \E b \in Builds :
          /\ row = [id |-> 1, installed |-> TRUE, path |-> PathOf[b]] /\ ids = 1
          /\ files = [p \in Paths |-> IF p = PathOf[b] THEN b ELSE None]
    /\ plugins = [id \in {} |-> 0] /\ loading = {} /\ heap = <<>> /\ closing = {}
    /\ caller = [c \in Callers |-> NoCall]
    /\ admin = [a \in Admins |-> NoChange]
    /\ calls = 0 /\ changes = 0 /\ crashes = 0

\* A caller moves on; one that leaves forgets its locals.
Goto(c, label) == caller' = [caller EXCEPT ![c].pc = label]
Return(c) == caller' = [caller EXCEPT ![c] = NoCall]
Holding == {"call", "release", "push", "discard"}
Pool(c) == heap[caller[c].plugin]

-----------------------------------------------------------------------------
(* Engine.plugin and Engine.load                                           *)

\* An engine operation starts: Search, Details, Pages, Unscramble, ...
StartCall(c) ==
    /\ caller[c].pc = "idle" /\ calls < MaxCalls
    /\ calls' = calls + 1
    /\ Goto(c, "resolve")
    /\ UNCHANGED <<diskVars, memoryVars, admin, changes, crashes>>

\* row(): only an installed source answers, cached instance or not.
Resolve(c) ==
    /\ caller[c].pc = "resolve"
    /\ IF row.installed
       THEN caller' = [caller EXCEPT ![c].pc = "lookup", ![c].id = row.id]
       ELSE Return(c)
    /\ UNCHANGED <<diskVars, memoryVars, admin, countVars>>

\* Mutant of Lookup: callers of a source that is being compiled do not wait.
LookupWithoutWaiting(c) ==
    LET id == caller[c].id
    IN  /\ caller[c].pc = "lookup"
        /\ \/ /\ id \in DOMAIN plugins
              /\ caller' = [caller EXCEPT ![c].pc = "acquire", ![c].plugin = plugins[id]]
              /\ UNCHANGED loading
           \/ /\ id \notin DOMAIN plugins
              /\ loading' = loading \cup {id}
              /\ Goto(c, "readRow")
        /\ UNCHANGED <<diskVars, plugins, heap, closing, admin, countVars>>

\* Under Engine.mu: a loaded plugin, or the wait for the one being compiled, or
\* the claim to compile it.
Lookup(c) ==
    LET id == caller[c].id
    IN  /\ caller[c].pc = "lookup"
        /\ \/ /\ id \in DOMAIN plugins
              /\ caller' = [caller EXCEPT ![c].pc = "acquire", ![c].plugin = plugins[id]]
              /\ UNCHANGED loading
           \/ /\ id \notin DOMAIN plugins /\ id \in loading
              /\ Goto(c, "await")
              /\ UNCHANGED loading
           \/ /\ id \notin DOMAIN plugins /\ id \notin loading
              /\ loading' = loading \cup {id}
              /\ Goto(c, "readRow")
        /\ UNCHANGED <<diskVars, plugins, heap, closing, admin, countVars>>

\* The context of a request that waits for a compilation ends.
GiveUp(c) == /\ caller[c].pc = "await"
             /\ Return(c)
             /\ UNCHANGED <<diskVars, memoryVars, admin, countVars>>

\* load reads the row a second time.
ReadRow(c) ==
    /\ caller[c].pc = "readRow"
    /\ caller' = [caller EXCEPT ![c].pc = IF row.installed THEN "compile" ELSE "store",
                                ![c].path = row.path]
    /\ UNCHANGED <<diskVars, memoryVars, admin, countVars>>

\* ReadFile and loadPlugin: one instance is made, probed and put in the channel.
\* A missing file, a module that does not compile or another ABI fails the load.
Compile(c) ==
    /\ caller[c].pc = "compile"
    /\ \/ /\ Goto(c, "store")
          /\ UNCHANGED heap
       \/ /\ files[caller[c].path] # None
          /\ heap' = Append(heap, [id |-> caller[c].id, build |-> files[caller[c].path],
                                   live |-> 1, idle |-> 1, phase |-> "open"])
          /\ caller' = [caller EXCEPT ![c].pc = "store", ![c].plugin = Len(heap')]
    /\ UNCHANGED <<diskVars, plugins, loading, closing, admin, countVars>>

\* Mutant of Store: a failed load leaves its claim behind.
StoreOnSuccess(c) ==
    LET id == caller[c].id
        ok == caller[c].plugin # 0
        next == [d \in Callers |->
                    IF d = c THEN IF ok THEN [caller[c] EXCEPT !.pc = "acquire"] ELSE NoCall
                    ELSE IF ok /\ caller[d].pc = "await" /\ caller[d].id = id
                         THEN [caller[d] EXCEPT !.pc = "lookup"] ELSE caller[d]]
    IN  /\ caller[c].pc = "store"
        /\ loading' = IF ok THEN loading \ {id} ELSE loading
        /\ plugins' = IF ok THEN [i \in DOMAIN plugins \cup {id} |->
                                     IF i = id THEN caller[c].plugin ELSE plugins[i]]
                      ELSE plugins
        /\ caller' = next
        /\ UNCHANGED <<diskVars, heap, closing, admin, countVars>>

\* The claim is given back in both outcomes, and closing the channel sends
\* everybody who waited back to the map.
Store(c) ==
    LET id == caller[c].id
        ok == caller[c].plugin # 0
    IN  /\ caller[c].pc = "store"
        /\ loading' = loading \ {id}
        /\ plugins' = IF ok THEN [i \in DOMAIN plugins \cup {id} |->
                                     IF i = id THEN caller[c].plugin ELSE plugins[i]]
                      ELSE plugins
        /\ caller' = [d \in Callers |->
                         IF d = c THEN IF ok THEN [caller[c] EXCEPT !.pc = "acquire"] ELSE NoCall
                         ELSE IF caller[d].pc = "await" /\ caller[d].id = id
                              THEN [caller[d] EXCEPT !.pc = "lookup"] ELSE caller[d]]
        /\ UNCHANGED <<diskVars, heap, closing, admin, countVars>>

-----------------------------------------------------------------------------
(* The instance pool: acquire, release, discard                            *)

\* acquire, under the pool's lock: refused once closed; whether there is room.
CheckRoom(c) ==
    /\ caller[c].pc = "acquire"
    /\ IF Pool(c).phase = "open"
       THEN caller' = [caller EXCEPT ![c].pc = "take", ![c].room = Pool(c).live < PoolSize]
       ELSE Return(c)
    /\ UNCHANGED <<diskVars, memoryVars, admin, countVars>>

\* An idle instance, a new one when there was room, or the wait for one.  The
\* module that was closed meanwhile, or that runs out of memory, makes none.
TakeOrCreate(c) ==
    LET p == caller[c].plugin
    IN  /\ caller[c].pc = "take"
        /\ \/ /\ heap[p].idle > 0
              /\ heap' = [heap EXCEPT ![p].idle = @ - 1]
              /\ Goto(c, "call")
           \/ /\ heap[p].idle = 0 /\ caller[c].room /\ heap[p].phase # "drained"
              /\ heap' = [heap EXCEPT ![p].live = @ + 1]
              /\ Goto(c, "call")
           \/ /\ heap[p].idle = 0 /\ caller[c].room
              /\ Return(c)
              /\ UNCHANGED heap
           \/ /\ heap[p].idle = 0 /\ ~caller[c].room
              /\ Goto(c, "wait")
              /\ UNCHANGED heap
        /\ UNCHANGED <<diskVars, plugins, loading, closing, admin, countVars>>

\* The wait ends with an instance somebody released or at the call's deadline.
WaitIdle(c) ==
    LET p == caller[c].plugin
    IN  /\ caller[c].pc = "wait"
        /\ \/ /\ heap[p].idle > 0
              /\ heap' = [heap EXCEPT ![p].idle = @ - 1]
              /\ Goto(c, "call")
           \/ /\ Return(c)
              /\ UNCHANGED heap
        /\ UNCHANGED <<diskVars, plugins, loading, closing, admin, countVars>>

\* CallWithContext: a call that failed or ran out of time costs its instance.
EndCall(c) == /\ caller[c].pc = "call"
              /\ Goto(c, "release") \/ Goto(c, "discard")
              /\ UNCHANGED <<diskVars, memoryVars, admin, countVars>>

\* release looks at closed under the lock and pushes without it.
CheckClosed(c) ==
    /\ caller[c].pc = "release"
    /\ Goto(c, IF Pool(c).phase = "open" THEN "push" ELSE "discard")
    /\ UNCHANGED <<diskVars, memoryVars, admin, countVars>>

\* Mutant of PushIdle: a full channel drops the instance without counting it.
PushOrDrop(c) ==
    LET p == caller[c].plugin
    IN  /\ caller[c].pc = "push"
        /\ Return(c)
        /\ heap' = IF heap[p].idle < PoolSize THEN [heap EXCEPT ![p].idle = @ + 1] ELSE heap
        /\ UNCHANGED <<diskVars, plugins, loading, closing, admin, countVars>>

PushIdle(c) ==
    LET p == caller[c].plugin
    IN  /\ caller[c].pc = "push"
        /\ \/ /\ heap[p].idle < PoolSize
              /\ heap' = [heap EXCEPT ![p].idle = @ + 1]
              /\ Return(c)
           \/ /\ heap[p].idle = PoolSize
              /\ Goto(c, "discard")
              /\ UNCHANGED heap
        /\ UNCHANGED <<diskVars, plugins, loading, closing, admin, countVars>>

\* Mutant of Discard: a failed call is taken off the count twice.
DiscardTwice(c) ==
    /\ caller[c].pc = "discard"
    /\ heap' = [heap EXCEPT ![caller[c].plugin].live = @ - 2]
    /\ Return(c)
    /\ UNCHANGED <<diskVars, plugins, loading, closing, admin, countVars>>

\* One instance fewer, and nobody is told.
Discard(c) ==
    /\ caller[c].pc = "discard"
    /\ heap' = [heap EXCEPT ![caller[c].plugin].live = @ - 1]
    /\ Return(c)
    /\ UNCHANGED <<diskVars, plugins, loading, closing, admin, countVars>>

CallerStep(c) ==
    \/ Resolve(c) \/ Lookup(c) \/ ReadRow(c) \/ Compile(c) \/ Store(c) \/ CheckRoom(c)
    \/ TakeOrCreate(c) \/ WaitIdle(c) \/ EndCall(c) \/ CheckClosed(c) \/ PushIdle(c)
    \/ Discard(c)

-----------------------------------------------------------------------------
(* Install, InstallFile, Uninstall and close                               *)

AdminGoto(a, label) == admin' = [admin EXCEPT ![a].pc = label]
Done(a) == admin' = [admin EXCEPT ![a] = NoChange]

\* A catalog binary is written before it is probed, a local one after.
StartInstall(a, b, local) ==
    /\ admin[a].pc = "idle" /\ changes < MaxChanges
    /\ changes' = changes + 1
    /\ admin' = [admin EXCEPT ![a] = [NoChange EXCEPT !.pc = IF local THEN "probe" ELSE "write",
                                                     !.build = b, !.path = PathOf[b],
                                                     !.local = local]]
    /\ UNCHANGED <<diskVars, memoryVars, caller, calls, crashes>>

\* writeFileAtomic, or the reuse of a file whose digest matches.
WriteBinary(a) ==
    /\ admin[a].pc = "write"
    /\ files' = [files EXCEPT ![admin[a].path] = admin[a].build]
    /\ AdminGoto(a, IF admin[a].local THEN "find" ELSE "probe")
    /\ UNCHANGED <<row, ids, memoryVars, caller, countVars>>

\* probeMetadata compiles the binary on its own; the catalog and the binary may
\* disagree about the source.
Probe(a) ==
    /\ admin[a].pc = "probe"
    /\ \/ AdminGoto(a, IF admin[a].local THEN "write" ELSE "find")
       \/ Done(a)
    /\ UNCHANGED <<diskVars, memoryVars, caller, countVars>>

\* register looks the plugin key up and takes a new id when it is unknown.
FindId(a) ==
    /\ admin[a].pc = "find"
    /\ ids' = IF row.id = 0 THEN ids + 1 ELSE ids
    /\ admin' = [admin EXCEPT ![a].pc = "record", ![a].id = IF row.id = 0 THEN ids + 1 ELSE row.id]
    /\ UNCHANGED <<row, files, memoryVars, caller, countVars>>

\* The upsert keyed by the plugin key, which overwrites the id.
Record(a) ==
    /\ admin[a].pc = "record"
    /\ row' = [id |-> admin[a].id, installed |-> TRUE, path |-> admin[a].path]
    /\ AdminGoto(a, "unload")
    /\ UNCHANGED <<ids, files, memoryVars, caller, countVars>>

StartUninstall(a) ==
    /\ admin[a].pc = "idle" /\ changes < MaxChanges /\ row.installed
    /\ changes' = changes + 1
    /\ admin' = [admin EXCEPT ![a] = [NoChange EXCEPT !.pc = "unload", !.id = row.id,
                                                     !.path = row.path]]
    /\ UNCHANGED <<diskVars, memoryVars, caller, calls, crashes>>

\* Mutant of Unload: the plugin is closed and stays in the map.
CloseInPlace(a) ==
    LET id == admin[a].id
    IN  /\ admin[a].pc = "unload"
        /\ closing' = closing \cup {plugins[i] : i \in DOMAIN plugins \cap {id}}
        /\ IF admin[a].build = None THEN AdminGoto(a, "erase") ELSE Done(a)
        /\ UNCHANGED <<diskVars, plugins, loading, heap, caller, countVars>>

\* unload: out of the map under the lock, closed afterwards.  It is the last
\* thing an install does and the first of an uninstall.
Unload(a) ==
    LET id == admin[a].id
    IN  /\ admin[a].pc = "unload"
        /\ plugins' = [i \in DOMAIN plugins \ {id} |-> plugins[i]]
        /\ closing' = closing \cup {plugins[i] : i \in DOMAIN plugins \cap {id}}
        /\ IF admin[a].build = None THEN AdminGoto(a, "erase") ELSE Done(a)
        /\ UNCHANGED <<diskVars, loading, heap, caller, countVars>>

\* Mutant of Erase: the file goes while the row still names it.
EraseFile(a) ==
    /\ admin[a].pc = "erase"
    /\ files' = [files EXCEPT ![admin[a].path] = None]
    /\ AdminGoto(a, "remove")
    /\ UNCHANGED <<row, ids, memoryVars, caller, countVars>>

Erase(a) ==
    /\ admin[a].pc = "erase" /\ \A p \in closing : heap[p].id # admin[a].id
    /\ row' = [row EXCEPT !.installed = FALSE, !.path = None]
    /\ AdminGoto(a, "remove")
    /\ UNCHANGED <<ids, files, memoryVars, caller, countVars>>

\* The file the row named when the uninstall began.
RemoveBinary(a) ==
    /\ admin[a].pc = "remove"
    /\ files' = [files EXCEPT ![admin[a].path] = None]
    /\ Done(a)
    /\ UNCHANGED <<row, ids, memoryVars, caller, countVars>>

\* loadedPlugin.close: closed is set under the lock, then the idle instances go
\* and the compiled module after them.
MarkClosed(p) ==
    /\ p \in closing /\ heap[p].phase = "open"
    /\ heap' = [heap EXCEPT ![p].phase = "closed"]
    /\ UNCHANGED <<diskVars, plugins, loading, closing, caller, admin, countVars>>

Drain(p) ==
    /\ p \in closing /\ heap[p].phase = "closed"
    /\ heap' = [heap EXCEPT ![p].phase = "drained", ![p].idle = 0,
                            ![p].live = @ - heap[p].idle]
    /\ closing' = closing \ {p}
    /\ UNCHANGED <<diskVars, plugins, loading, caller, admin, countVars>>

\* Engine.Close, when the server stops: what is cached is closed.
CloseEngine ==
    /\ changes < MaxChanges /\ changes' = changes + 1
    /\ plugins' = [i \in {} |-> 0]
    /\ closing' = closing \cup {plugins[i] : i \in DOMAIN plugins}
    /\ UNCHANGED <<diskVars, loading, heap, caller, admin, calls, crashes>>

AdminStep(a) == \/ WriteBinary(a) \/ Probe(a) \/ FindId(a) \/ Record(a)
                \/ Unload(a) \/ Erase(a) \/ RemoveBinary(a)
ClosingStep == \E p \in closing : MarkClosed(p) \/ Drain(p)

\* The process dies and starts again: rows and files stay.
Crash ==
    /\ crashes < MaxCrashes /\ crashes' = crashes + 1
    /\ plugins' = [i \in {} |-> 0] /\ loading' = {} /\ heap' = <<>> /\ closing' = {}
    /\ caller' = [c \in Callers |-> NoCall]
    /\ admin' = [a \in Admins |-> NoChange]
    /\ UNCHANGED <<diskVars, calls, changes>>

Next ==
    \/ \E c \in Callers : StartCall(c) \/ CallerStep(c) \/ GiveUp(c)
    \/ \E a \in Admins :
          \/ AdminStep(a) \/ StartUninstall(a)
          \/ \E b \in Builds, local \in BOOLEAN : StartInstall(a, b, local)
    \/ ClosingStep \/ CloseEngine \/ Crash

Spec == Init /\ [][Next]_vars

\* Goroutines that can run do.  Nobody owes a call, an install, a shutdown or
\* the end of a request's context.
Fairness == /\ \A c \in Callers : WF_vars(CallerStep(c))
            /\ \A a \in Admins : WF_vars(AdminStep(a))
            /\ WF_vars(ClosingStep)

FairSpec == Spec /\ Fairness

-----------------------------------------------------------------------------
(* Properties                                                              *)

RowOK == row \in [id : 0 .. ids, installed : BOOLEAN, path : Paths \cup {None}]
MemoryOK == /\ heap \in Seq(Plugin) /\ closing \subseteq DOMAIN heap
            /\ loading \subseteq 1 .. ids /\ DOMAIN plugins \subseteq 1 .. ids
            /\ \A id \in DOMAIN plugins : plugins[id] \in DOMAIN heap
CallersOK == caller \in [Callers -> [pc : CallerLabels, id : 0 .. ids,
                                     path : Paths \cup {None}, plugin : 0 .. Len(heap),
                                     room : BOOLEAN]]
AdminsOK == admin \in [Admins -> [pc : AdminLabels, build : Builds \cup {None}, id : 0 .. ids,
                                  path : Paths \cup {None}, local : BOOLEAN]]
TypeOK == /\ RowOK /\ files \in [Paths -> Builds \cup {None}]
          /\ MemoryOK /\ CallersOK /\ AdminsOK

\* Every instance is counted once, whether it waits in the channel or serves a
\* call, through failures, a full channel and a close that drains the pool: live
\* drifting up would refuse calls for ever, drifting down would lift the bound.
InstanceAccounting ==
    \A p \in DOMAIN heap :
        heap[p].live = heap[p].idle
            + Cardinality({c \in Callers : caller[c].pc \in Holding /\ caller[c].plugin = p})

\* A compiled module can be reached: it is in the map, or its loader is about to
\* put it there, or somebody is closing it.  Two loaders at work on one source
\* would overwrite each other's and leak a runtime.
NoPluginLeak ==
    \A p \in DOMAIN heap : heap[p].phase = "open" =>
        \/ p \in closing \/ p \in {plugins[id] : id \in DOMAIN plugins}
        \/ \E c \in Callers : caller[c].pc = "store" /\ caller[c].plugin = p

\* What the map serves is open.  A plugin closed in place would answer every
\* later call with SOURCE_OFFLINE: nothing but an unload takes it out.
CachedIsOpen ==
    \A id \in DOMAIN plugins :
        heap[plugins[id]].phase = "open" /\ plugins[id] \notin closing

\* With one admin at a time, an installed source has its binary on disk, at
\* every point a crash can strike an install or an uninstall.
InstalledBinaryExists == row.installed => files[row.path] # None

\* Every call returns, whatever was compiled, replaced, removed or lost meanwhile.
CallsReturn == \A c \in Callers : []<>(caller[c].pc = "idle")

\* The pools and the cache of plugins hold together: every instance is counted once,
\* no compiled module leaks, and what the map serves is open, also when several admins
\* work on the source.
PoolsSound == TypeOK /\ InstanceAccounting /\ NoPluginLeak /\ CachedIsOpen

\* Besides, an installed source has its binary.
EngineSound == PoolsSound /\ InstalledBinaryExists
=============================================================================
