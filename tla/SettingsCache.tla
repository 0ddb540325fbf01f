---------------------------- MODULE SettingsCache ----------------------------
(* The settings: a table in the database, the map in memory that is read   *)
(* instead of it (internal/settings/settings.go) and the copies the parts  *)
(* of the program take of a value when they start (internal/app/server.go  *)
(* New).  Three of them hear of a change from the handlers of              *)
(* internal/api/settings.go: the level of the log, the identity the        *)
(* requests present and whether challenges are solved unasked.  The others *)
(* keep what they took: "workers" stands for the numbers of workers, of    *)
(* sources, of chapters and of retries, the pacing of pages and the days   *)
(* of the image cache.                                                     *)
(*                                                                         *)
(* A request takes a step for each call of the database and for each time  *)
(* it takes the lock of the map.  "navigation" stands for the settings no  *)
(* part holds a copy of; a stored name of it can be one that was renamed.  *)
(*                                                                         *)
(* Two ghosts: `contested` has the keys whose last write came while        *)
(* another request had a value of them in hand, and those the table got a  *)
(* value of that the map was not told of; `deaf` has the keys that were    *)
(* changed and whose copy hears nothing of it.                             *)
EXTENDS Naturals

CONSTANTS Clients, MaxSettingWrites, MaxSettingFailures, None

VARIABLES table, cache, copies, request, contested, deaf, settingWrites, settingFailures

settingsVars == <<table, cache, copies, request, contested, deaf, settingWrites, settingFailures>>

\* The copies that hear of a change, those that do not, and the settings.
Observed == {"level", "agent", "solve"}
Held == Observed \cup {"workers"}
Keys == Held \cup {"navigation"}
\* The order the settings are defined in, and listed.
Place == [navigation |-> 1, workers |-> 2, solve |-> 3, agent |-> 4, level |-> 5]
Standard == "standard"
Values == {Standard, "chosen"}
Tables == [Keys -> Values \cup {"retired"}]
\* What a backup may hold, here one value of all.
Restorable == {[k \in Keys |-> IF k = "navigation" /\ v # Standard THEN "retired" ELSE v] : v \in Values}

Migrate(k, value) == IF k = "navigation" /\ value = "retired" THEN "chosen" ELSE value
Served(k) == Migrate(k, table[k])

Empty == [k \in Keys |-> None]
\* What a handler is at: the keys it has to look at or to reset, the one in hand and its
\* value, and those it has reset.
Request(op, at, todo, key, value) ==
    [op |-> op, at |-> at, todo |-> todo, key |-> key, value |-> value, reset |-> {}]
Idle == Request("none", "idle", {}, None, None)
Listing == Request("list", "look", Keys, None, None)

TypeOK ==
    /\ table \in Tables
    /\ cache \in [Keys -> Values \cup {None}]
    /\ copies \in [Held -> Values]
    /\ \A c \in Clients : request[c].at \in {"idle", "look", "read", "fill", "write", "cache", "tell"}
    /\ contested \subseteq Keys /\ deaf \subseteq Held

\* The start of the program: the map is empty but for what the parts take their copies of.
Loaded(values) ==
    /\ cache' = [k \in Keys |-> IF k \in Held THEN values[k] ELSE None]
    /\ copies' = [k \in Held |-> values[k]]

SettingsInit ==
    /\ table \in {[k \in Keys |-> IF k = "navigation" THEN v ELSE Standard] : v \in {Standard, "retired"}}
    /\ cache = [k \in Keys |-> IF k \in Held THEN Standard ELSE None]
    /\ copies = [k \in Held |-> Standard]
    /\ request = [c \in Clients |-> Idle]
    /\ contested = {} /\ deaf = {} /\ settingWrites = 0 /\ settingFailures = 0

\* Another request has a value of k that it has yet to put somewhere.
InHand(c, k) ==
    \E d \in Clients \ {c} :
        \/ request[d].at \in {"fill", "cache", "tell"} /\ request[d].key = k
        \/ request[d].at \in {"look", "read"} /\ request[d].op # "list" /\ k \in request[d].todo

Written(c, k, value) ==
    /\ table' = [table EXCEPT ![k] = value]
    /\ contested' = IF InHand(c, k) THEN contested \cup {k} ELSE contested \ {k}

Becomes(c, r) == request' = [request EXCEPT ![c] = r]

-----------------------------------------------------------------------------
(* Get: the map, else the table, the map being filled with what it says    *)

ListSettings(c) ==
    /\ request[c] = Idle /\ Becomes(c, Listing)
    /\ UNCHANGED <<table, cache, copies, contested, deaf, settingWrites, settingFailures>>

\* Get returned `value`: a handler tells the part that holds a copy, a list goes on.
Got(c, k, value) ==
    LET left == request[c].todo \ {k} IN
    IF request[c].op # "list" THEN Becomes(c, [request[c] EXCEPT !.at = "tell", !.key = k, !.value = value])
    ELSE Becomes(c, IF left = {} THEN Idle ELSE [Listing EXCEPT !.todo = left])

Look(c) ==
    /\ request[c].at = "look"
    /\ \E k \in request[c].todo :
         /\ \A j \in request[c].todo : Place[k] <= Place[j]
         /\ IF cache[k] # None THEN Got(c, k, cache[k])
            ELSE Becomes(c, [request[c] EXCEPT !.at = "read", !.key = k])
    /\ UNCHANGED <<table, cache, copies, contested, deaf, settingWrites, settingFailures>>

\* Any failure of the read is taken for a setting that has no row.
Read(c) ==
    LET k == request[c].key IN
    /\ request[c].at = "read"
    /\ \/ /\ Becomes(c, [request[c] EXCEPT !.at = "fill", !.value = Served(k)])
          /\ UNCHANGED <<contested, settingFailures>>
       \/ /\ settingFailures < MaxSettingFailures /\ settingFailures' = settingFailures + 1
          /\ Becomes(c, [request[c] EXCEPT !.at = "fill", !.value = Standard])
          /\ contested' = contested \cup {k}
    /\ UNCHANGED <<table, cache, copies, deaf, settingWrites>>

Fill(c) ==
    /\ request[c].at = "fill"
    /\ cache' = [cache EXCEPT ![request[c].key] = request[c].value]
    /\ Got(c, request[c].key, request[c].value)
    /\ UNCHANGED <<table, copies, contested, deaf, settingWrites, settingFailures>>

-----------------------------------------------------------------------------
(* putSetting: the table, the map, the copy                                *)

Put(c, k, value) ==
    /\ request[c] = Idle /\ settingWrites < MaxSettingWrites /\ settingWrites' = settingWrites + 1
    /\ Written(c, k, value)
    /\ deaf' = deaf \cup ({k} \cap (Held \ Observed))
    /\ Becomes(c, Request("put", "cache", {k}, k, value))
    /\ UNCHANGED <<cache, copies, settingFailures>>

\* The identity is read back, the level and the solving are told as they were sent.
CacheSet(c) ==
    LET k == request[c].key IN
    /\ request[c].at = "cache"
    /\ cache' = [cache EXCEPT ![k] = request[c].value]
    /\ Becomes(c, CASE k = "agent" -> [request[c] EXCEPT !.at = "look"]
                    [] k \in {"level", "solve"} -> [request[c] EXCEPT !.at = "tell"]
                    [] OTHER -> Listing)
    /\ UNCHANGED <<table, copies, contested, deaf, settingWrites, settingFailures>>

\* The part takes the value, and the handler answers with the list of all settings.
Tell(c) ==
    LET k == request[c].key IN
    /\ request[c].at = "tell"
    /\ copies' = [copies EXCEPT ![k] = request[c].value] /\ deaf' = deaf \ {k}
    /\ Becomes(c, Listing)
    /\ UNCHANGED <<table, cache, contested, settingWrites, settingFailures>>

-----------------------------------------------------------------------------
(* resetSettings: the keys one by one, then the whole map                  *)

Reset(c, keys) ==
    /\ request[c] = Idle /\ settingWrites < MaxSettingWrites /\ settingWrites' = settingWrites + 1
    /\ Becomes(c, Request("reset", "write", keys, None, None))
    /\ UNCHANGED <<table, cache, copies, contested, deaf, settingFailures>>

ResetKey(c) ==
    /\ request[c].at = "write"
    /\ \E k \in request[c].todo :
         /\ Written(c, k, Standard)
         /\ deaf' = deaf \cup ({k} \cap Held)
         /\ Becomes(c, [request[c] EXCEPT !.todo = @ \ {k}, !.reset = @ \cup {k}])
    /\ UNCHANGED <<cache, copies, settingWrites, settingFailures>>

\* A key nobody knows, or an error of the database: the keys before it stay written, and
\* the map keeps what it has of them.
ResetFails(c) ==
    /\ request[c].at = "write"
    /\ settingFailures < MaxSettingFailures /\ settingFailures' = settingFailures + 1
    /\ contested' = contested \cup request[c].reset
    /\ Becomes(c, Idle)
    /\ UNCHANGED <<table, cache, copies, deaf, settingWrites>>

\* Mutant of ClearCache: the keys somebody holds a copy of stay in the map.
ClearKeys(c) ==
    /\ request[c].at = "write" /\ request[c].todo = {}
    /\ cache' = [k \in Keys |-> IF k \in request[c].reset \ Observed THEN None ELSE cache[k]]
    /\ Becomes(c, IF "level" \in request[c].reset THEN Request("reset", "look", {"level"}, None, None) ELSE Listing)
    /\ UNCHANGED <<table, copies, contested, deaf, settingWrites, settingFailures>>

\* Of the copies only the level of the log is set anew.
ClearCache(c) ==
    /\ request[c].at = "write" /\ request[c].todo = {}
    /\ cache' = Empty
    /\ Becomes(c, IF "level" \in request[c].reset THEN Request("reset", "look", {"level"}, None, None) ELSE Listing)
    /\ UNCHANGED <<table, copies, contested, deaf, settingWrites, settingFailures>>

-----------------------------------------------------------------------------
\* importBackup writes the settings of a backup past the map, and tells nobody.
Restore(c, values) ==
    LET changed == {k \in Keys : table[k] # values[k]} IN
    /\ request[c] = Idle /\ settingWrites < MaxSettingWrites /\ settingWrites' = settingWrites + 1
    /\ table' = values
    /\ contested' = contested \cup {k \in changed : cache[k] # None \/ InHand(c, k)}
    /\ deaf' = deaf \cup (changed \cap Held)
    /\ UNCHANGED <<cache, copies, request, settingFailures>>

\* The program stops and starts.
Restart ==
    /\ Loaded([k \in Keys |-> Served(k)])
    /\ request' = [c \in Clients |-> Idle]
    /\ contested' = {} /\ deaf' = {}
    /\ UNCHANGED <<table, settingWrites, settingFailures>>

ClientStep(c) ==
    \/ ListSettings(c) \/ Look(c) \/ Read(c) \/ Fill(c)
    \/ \E k \in Keys, value \in Values : Put(c, k, value)
    \/ CacheSet(c) \/ Tell(c)
    \/ \E keys \in {{k} : k \in Keys} \cup {Keys} : Reset(c, keys)
    \/ ResetKey(c) \/ ResetFails(c) \/ ClearCache(c)
    \/ \E values \in Restorable : Restore(c, values)

SettingsNext == Restart \/ \E c \in Clients : ClientStep(c)
SettingsSpec == SettingsInit /\ [][SettingsNext]_settingsVars

-----------------------------------------------------------------------------
\* A handler that changes k is at work.
Changing(k) ==
    \E c \in Clients :
        /\ request[c].op \in {"put", "reset"}
        /\ k \in request[c].todo \cup request[c].reset \cup {request[c].key}

\* Once no handler changes it, a setting is served as the table has it, and a part that
\* hears of its changes works with that value (settings.go Get, Set and Reset, settings.go
\* of the api): however the requests interleave, unless another had a value of the key in
\* hand when it was last written, or the map was not told of it; the next write that meets
\* nobody puts this right.  A part that hears of nothing has the value until it is changed.
SettingsAreServed ==
    \A k \in Keys \ contested : ~Changing(k) =>
        /\ cache[k] \in {None, Served(k)}
        /\ k \in Held \ deaf => copies[k] = Served(k)

=============================================================================
