---------------------------- MODULE TrackerAccounts ----------------------------
(***************************************************************************)
(* The account of one tracker: signing in through the browser, a password  *)
(* or a pasted token (internal/api/tracker.go), the stored credential and  *)
(* its refresh (internal/tracker/registry.go, credentials.go), and the     *)
(* page that shows who is connected (internal/api/events.go).              *)
(*                                                                         *)
(* `makidoku sync` uses and refreshes the same credential beside the       *)
(* daemon; a lock keeps the calls of one process apart.                    *)
(*                                                                         *)
(* A grant is what the provider gave at one sign-in.  Its refresh tokens   *)
(* are numbered: the provider honours the last one only.                   *)
(***************************************************************************)
EXTENDS Naturals, FiniteSets, TLC

CONSTANTS Handlers,   \* concurrent requests of the browser
          Callers,    \* concurrent uses of the credential
          SyncCallers,  \* those of `makidoku sync`, the others being the daemon's
          MaxGrants,  \* bound: sign-ins begun
          MaxTokens,  \* bound: refreshes of one grant
          MaxEvents,  \* the buffer of a subscriber
          None

\* A row of the table of credentials.
Credentials == [grant : 1..MaxGrants, token : Nat, expired : BOOLEAN]

\* A subscriber's channel holds at least one event.
AccountsAssumption ==
    /\ SyncCallers \subseteq Callers
    /\ {MaxGrants, MaxTokens} \subseteq Nat /\ MaxEvents \in Nat \ {0} /\ None \notin Credentials

VARIABLES
    stored,    \* the credential row: its grant, refresh token and whether it has expired
    oauth,     \* Registry.oauth: the sign-in that awaits its callback
    begun,     \* sign-ins begun; the last one's number is its state
    used,      \* codes the provider has exchanged
    provider,  \* the refresh token it honours, for each grant
    handler,   \* a request: what it does next and for which grant
    caller,    \* credential(): what it does next, with which credential, and whether the
               \* other process had refreshed it, or did meanwhile
    lost,      \* an answer of the provider was lost after it rotated the token
    clobbered, \* a refresh was saved over what a request had stored meanwhile
    events,    \* in the subscriber's channel
    page       \* what the page shows, and whether it is reading it again

accountVars == <<stored, oauth, begun, used, provider, handler, caller, lost, clobbered, events, page>>

Grants == 1..MaxGrants
AtRest == [at |-> "idle", grant |-> 0]
NoCall == [at |-> "idle", cred |-> None, crossed |-> FALSE]
SameProcess(c, o) == c \in SyncCallers <=> o \in SyncCallers
Shown(row) == IF row = None THEN 0 ELSE row.grant

AccountsInit ==
    /\ stored = None /\ oauth = None /\ begun = 0 /\ used = {}
    /\ provider = [g \in Grants |-> 0]
    /\ handler = [h \in Handlers |-> AtRest] /\ caller = [c \in Callers |-> NoCall]
    /\ lost = FALSE /\ clobbered = FALSE
    /\ events = 0 /\ page = [shows |-> 0, reading |-> FALSE]

Goes(h, at, grant) == handler' = [handler EXCEPT ![h] = [at |-> at, grant |-> grant]]

-----------------------------------------------------------------------------
(* Signing in and out                                                      *)

\* StartOAuth: one sign-in awaits its callback, the last one begun.
StartOAuth ==
    /\ begun < MaxGrants /\ begun' = begun + 1
    /\ oauth' = [grant |-> begun + 1, expired |-> FALSE]
    /\ UNCHANGED <<stored, used, provider, handler, caller, lost, clobbered, events, page>>

\* Ten minutes pass.
ExpireOAuth ==
    /\ oauth # None /\ oauth' = [oauth EXCEPT !.expired = TRUE]
    /\ UNCHANGED <<stored, begun, used, provider, handler, caller, lost, clobbered, events, page>>

\* Mutant of TakePending: the sign-in is kept until its code has been exchanged.
TakePendingLater(h, state) ==
    /\ handler[h].at = "idle"
    /\ IF oauth # None /\ oauth.grant = state /\ ~oauth.expired
       THEN Goes(h, "exchange", state) ELSE UNCHANGED handler
    /\ UNCHANGED <<oauth, stored, begun, used, provider, caller, lost, clobbered, events, page>>

\* CompleteOAuth, for the callback of a sign-in, which a browser may repeat: what
\* awaits a callback is taken before it is looked at.
TakePending(h, state) ==
    /\ handler[h].at = "idle"
    /\ oauth' = None
    /\ IF oauth # None /\ oauth.grant = state /\ ~oauth.expired
       THEN Goes(h, "exchange", state) ELSE UNCHANGED handler
    /\ UNCHANGED <<stored, begun, used, provider, caller, lost, clobbered, events, page>>

\* The provider exchanges the code, once; or cannot be reached.
ExchangeCode(h) ==
    /\ handler[h].at = "exchange"
    /\ LET g == handler[h].grant IN
       \/ g \notin used /\ Goes(h, "save", g)
          /\ used' = used \cup {g} /\ provider' = [provider EXCEPT ![g] = 1]
       \/ Goes(h, "idle", 0) /\ UNCHANGED <<used, provider>>
    /\ UNCHANGED <<stored, oauth, begun, caller, lost, clobbered, events, page>>

\* Login with a password, and a pasted token: the provider gave it already.
Login(h) ==
    /\ handler[h].at = "idle" /\ begun < MaxGrants /\ begun' = begun + 1
    /\ used' = used \cup {begun + 1} /\ provider' = [provider EXCEPT ![begun + 1] = 1]
    /\ Goes(h, "save", begun + 1)
    /\ UNCHANGED <<stored, oauth, caller, lost, clobbered, events, page>>

\* CredentialStore.Save replaces the row.
SaveCredential(h) ==
    /\ handler[h].at = "save"
    /\ stored' = [grant |-> handler[h].grant, token |-> 1, expired |-> FALSE]
    /\ Goes(h, "publish", 0)
    /\ UNCHANGED <<oauth, begun, used, provider, caller, lost, clobbered, events, page>>

Disconnect(h) ==
    /\ handler[h].at = "idle" /\ stored # None /\ stored' = None
    /\ Goes(h, "publish", 0)
    /\ UNCHANGED <<oauth, begun, used, provider, caller, lost, clobbered, events, page>>

-----------------------------------------------------------------------------
(* Using the credential                                                    *)

Expire ==
    /\ stored # None /\ ~stored.expired /\ stored.token < MaxTokens
    /\ stored' = [stored EXCEPT !.expired = TRUE]
    /\ UNCHANGED <<oauth, begun, used, provider, handler, caller, lost, clobbered, events, page>>

\* Mutant of Load: there is no lock.
LoadAnyway(c) ==
    /\ caller[c].at = "idle"
    /\ IF stored # None /\ stored.expired
       THEN caller' = [caller EXCEPT ![c] = [at |-> "refresh", cred |-> stored, crossed |-> FALSE]]
       ELSE UNCHANGED caller
    /\ UNCHANGED <<stored, oauth, begun, used, provider, handler, lost, clobbered, events, page>>

\* credential: under the process's lock for the tracker the row is read; what has not
\* expired is used as it is, and a missing row is an error.
Load(c) ==
    /\ \A o \in Callers : SameProcess(c, o) => caller[o].at = "idle"
    /\ IF stored # None /\ stored.expired
       THEN caller' = [caller EXCEPT ![c] =
                [at |-> "refresh", cred |-> stored,
                 crossed |-> \E o \in Callers : /\ ~SameProcess(c, o) /\ caller[o].at = "save"
                                               /\ caller[o].cred.grant = stored.grant]]
       ELSE UNCHANGED caller
    /\ UNCHANGED <<stored, oauth, begun, used, provider, handler, lost, clobbered, events, page>>

Overtakes(c, o) == /\ ~SameProcess(c, o) /\ caller[o].at = "refresh"
                   /\ caller[o].cred.grant = caller[c].cred.grant

\* The token endpoint rotates the refresh token and answers; or its answer is lost on
\* the way; or it refuses or cannot be reached.
Refresh(c) ==
    /\ caller[c].at = "refresh"
    /\ LET cred == caller[c].cred
           rotated == [grant |-> cred.grant, token |-> cred.token + 1, expired |-> FALSE]
       IN  \/ /\ cred.token = provider[cred.grant]
              /\ provider' = [provider EXCEPT ![cred.grant] = @ + 1]
              /\ \/ /\ caller' = [o \in Callers |->
                          IF o = c THEN [at |-> "save", cred |-> rotated, crossed |-> FALSE]
                          ELSE [caller[o] EXCEPT !.crossed = @ \/ Overtakes(c, o)]]
                    /\ UNCHANGED lost
                 \/ caller' = [caller EXCEPT ![c] = NoCall] /\ lost' = TRUE
           \/ caller' = [caller EXCEPT ![c] = NoCall] /\ UNCHANGED <<provider, lost>>
    /\ UNCHANGED <<stored, oauth, begun, used, handler, clobbered, events, page>>

\* What was refreshed replaces the row, whatever it holds by now; nobody is told.
SaveRefreshed(c) ==
    /\ caller[c].at = "save"
    /\ stored' = caller[c].cred /\ caller' = [caller EXCEPT ![c] = NoCall]
    /\ clobbered' = (clobbered \/ Shown(stored) # caller[c].cred.grant)
    /\ UNCHANGED <<oauth, begun, used, provider, handler, lost, events, page>>

-----------------------------------------------------------------------------
(* The page                                                                *)

\* Mutant of Publish: a full buffer is emptied first.
PublishAnew(h) ==
    /\ handler[h].at = "publish" /\ Goes(h, "idle", 0)
    /\ events' = IF events < MaxEvents THEN events + 1 ELSE 0
    /\ UNCHANGED <<stored, oauth, begun, used, provider, caller, lost, clobbered, page>>

\* publishTrackerCredentials: a full buffer drops the event.
Publish(h) ==
    /\ handler[h].at = "publish" /\ Goes(h, "idle", 0)
    /\ events' = IF events < MaxEvents THEN events + 1 ELSE events
    /\ UNCHANGED <<stored, oauth, begun, used, provider, caller, lost, clobbered, page>>

\* An event makes the page read the trackers again; one read serves later events.
Receive ==
    /\ events > 0 /\ events' = events - 1 /\ page' = [page EXCEPT !.reading = TRUE]
    /\ UNCHANGED <<stored, oauth, begun, used, provider, handler, caller, lost, clobbered>>

\* listTrackers
ListTrackers ==
    /\ page.reading /\ page' = [shows |-> Shown(stored), reading |-> FALSE]
    /\ UNCHANGED <<stored, oauth, begun, used, provider, handler, caller, lost, clobbered, events>>

AccountsNext ==
    \/ StartOAuth \/ ExpireOAuth \/ Expire \/ Receive \/ ListTrackers
    \/ \E h \in Handlers : \/ \E state \in 1..begun : TakePending(h, state)
                           \/ ExchangeCode(h) \/ Login(h) \/ SaveCredential(h)
                           \/ Disconnect(h) \/ Publish(h)
    \/ \E c \in Callers : Load(c) \/ Refresh(c) \/ SaveRefreshed(c)

AccountsSpec == AccountsInit /\ [][AccountsNext]_accountVars

-----------------------------------------------------------------------------
(* Properties                                                              *)

\* A rotated refresh token is presented to the provider never again: concurrent calls of
\* one process share one refresh, and no sign-in brings an old token back.  Only a lost
\* answer leaves the old token stored, and only a refresh by the other process, between
\* the read of the row and the request or before the row was saved, makes it old.
RefreshIsHonoured ==
    \A c \in Callers : caller[c].at = "refresh" =>
        lost \/ caller[c].crossed \/ caller[c].cred.token = provider[caller[c].cred.grant]

\* "authorization expired; try connecting again": a code is exchanged by one request
\* only, however often the browser repeats its callback.
SignInCompletesOnce ==
    \A h \in Handlers : handler[h].at = "exchange" =>
        /\ handler[h].grant \notin used
        /\ \A o \in Handlers \ {h} : handler[o].at = "exchange" => handler[o].grant # handler[h].grant

\* "A slow subscriber drops events and reconciles through its own refetch": once no
\* event is under way the page shows the account that is stored, unless a refresh was
\* saved over it.
PageFollows ==
    events = 0 /\ ~page.reading /\ (\A h \in Handlers : handler[h].at # "publish") =>
        clobbered \/ page.shows = Shown(stored)

=============================================================================
