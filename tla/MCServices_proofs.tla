--------------------------- MODULE MCServices_proofs ---------------------------
(***************************************************************************)
(* Proofs about the daemon, the drain, a tracker account and the pacing of *)
(* requests, for every value of their constants.  A part that rests keeps  *)
(* its initial state, which satisfies its invariant, so each invariant     *)
(* holds in every behaviour of MCServices.                                 *)
(***************************************************************************)
EXTENDS MCServices, FiniteSetTheorems, TLAPS

-----------------------------------------------------------------------------
(* The daemon                                                              *)

DaemonTyped ==
    /\ step \in {"start", "select", "shutdown", "leave", "close"} \cup D!Loops
    /\ handlers \in Nat /\ loop \in [D!Loops -> {"running", "returned"}]
    /\ answer \in [D!Loops -> {None, "nil", "canceled", "error"}] /\ taken \subseteq D!Loops
    /\ first \in {None, "error"} /\ result \in {None, "nil", "error"}

\* Before Start nothing runs and nothing is noted.
Unstarted ==
    step = "start" =>
        /\ handlers = 0 /\ listener = "closed" /\ taken = {} /\ first = None
        /\ \A l \in D!Loops : loop[l] = "returned" /\ answer[l] = None

Ended(l) == loop[l] = "returned"

\* Once Run is past Shutdown the listener is closed and the handlers have ended or
\* were given up.
Drained ==
    step \in D!Loops \cup {"leave", "close"} =>
        listener = "closed" /\ (handlers = 0 \/ timedOut)

\* The loops Run has joined have returned; it leaves without joining them all only
\* when it gave up on the handlers after a signal.
Joined ==
    /\ step \in {"sync", "updates", "backups"} => Ended("downloads")
    /\ step \in {"updates", "backups"} => Ended("sync")
    /\ step = "backups" => Ended("updates")
    /\ step \in {"leave", "close"} => (\A l \in D!Loops : Ended(l)) \/ (timedOut /\ signalled)

\* An answer is a returned loop's, and what was read of it is noted.
Answered ==
    /\ \A l \in D!Loops : answer[l] # None => Ended(l)
    /\ \A l \in taken : answer[l] # None
    /\ \A l \in taken \cap D!Failing : answer[l] = "error" => first = "error"

\* Run has read both loops that can fail, or it knows of a failure.
BothRead == {"downloads", "sync"} \subseteq taken

Reading ==
    /\ step = "sync" => "downloads" \in taken
    /\ step \in {"updates", "backups"} => BothRead
    /\ step = "shutdown" /\ first = None /\ taken = {} => signalled
    /\ step = "leave" => first = "error" \/ BothRead
    /\ step = "close" => result = "error" \/ (first = None /\ BothRead)

DaemonInv ==
    /\ DaemonTyped /\ Unstarted /\ Drained /\ Joined /\ Answered /\ Reading
    /\ released # {} => step = "close"

LEMMA NoneIsNoAnswer == None \notin {"nil", "canceled", "error"}
BY ServicesAssumption DEF D!DaemonAssumption

LEMMA DaemonBegins == Init => DaemonInv
BY NoneIsNoAnswer
   DEF Init, D!DaemonInit, DaemonInv, DaemonTyped, Unstarted, Drained, Joined, Answered,
       Reading, BothRead, Ended, D!Loops, D!Failing

LEMMA AfterIs ==
    /\ D!After["downloads"] = "sync" /\ D!After["sync"] = "updates"
    /\ D!After["updates"] = "backups" /\ D!After["backups"] = "leave"
BY DEF D!After

LEMMA DaemonSteps == ASSUME DaemonInv, D!DaemonNext PROVE DaemonInv'
<1> USE NoneIsNoAnswer DEF DaemonInv, DaemonTyped, Unstarted, Drained, Joined, Answered, Reading,
                           BothRead, Ended, D!Loops, D!Failing
<1>1. CASE D!Start BY <1>1 DEF D!Start
<1>2. CASE D!Select
  BY <1>2 DEF D!Select, D!Noted
<1>3. CASE D!Shutdown BY <1>3 DEF D!Shutdown, D!BySignal
<1>4. ASSUME NEW l \in D!Loops, D!Join(l) PROVE DaemonInv'
  BY <1>4, AfterIs DEF D!Join, D!Noted
<1>5. CASE D!Leave BY <1>5 DEF D!Leave
<1>6. CASE D!Close BY <1>6 DEF D!Close
<1>7. CASE D!Signal BY <1>7 DEF D!Signal
<1>8. CASE D!ListenFails BY <1>8 DEF D!ListenFails
<1>9. CASE D!Request BY <1>9 DEF D!Request
<1>10. CASE D!Respond BY <1>10 DEF D!Respond
<1>11. CASE D!LaunchEnds BY <1>11 DEF D!LaunchEnds
<1>12. ASSUME NEW l \in D!Loops, D!LoopReturns(l) PROVE DaemonInv'
  BY <1>12 DEF D!LoopReturns
<1> QED BY <1>1, <1>2, <1>3, <1>4, <1>5, <1>6, <1>7, <1>8, <1>9, <1>10, <1>11, <1>12
        DEF D!DaemonNext, D!RunStep

LEMMA DaemonRests == ASSUME DaemonInv, UNCHANGED daemonVars PROVE DaemonInv'
BY DEF daemonVars, DaemonInv, DaemonTyped, Unstarted, Drained, Joined, Answered, Reading,
       BothRead, Ended

LEMMA DaemonKept == DaemonInv /\ [Next]_vars => DaemonInv'
<1> SUFFICES ASSUME DaemonInv, [Next]_vars PROVE DaemonInv' OBVIOUS
<1>1. CASE DaemonStep(D!DaemonNext) BY <1>1, DaemonSteps DEF DaemonStep
<1>2. CASE UNCHANGED daemonVars BY <1>2, DaemonRests
<1> QED BY <1>1, <1>2 DEF Next, DrainStep, AccountStep, PacingStep, vars

LEMMA DaemonHolds == Spec => []DaemonInv
BY DaemonBegins, DaemonKept, PTL DEF Spec

\* Nothing Run waits for works on a closed database: when close comes to the database
\* the handlers have ended or were given up, and the loops have returned unless Run
\* left without them after a signal (Server.Run, close).
THEOREM DatabaseOutlives == Spec => []DatabaseOutlivesWork
<1>1. DaemonInv => DatabaseOutlivesWork
  BY DEF DaemonInv, Drained, Joined, Ended, DatabaseOutlivesWork, D!DatabaseOutlivesWork
<1> QED BY <1>1, DaemonHolds, PTL

-----------------------------------------------------------------------------
(* The drain                                                               *)

Holders == {w \in Drainers : pc[w] \in {"send", "quit"}}

DrainInv ==
    /\ pc \in [Drainers -> {"claim", "process", "send", "quit", "done"}]
    /\ errs \in Nat /\ failures \in Nat
    /\ ~returned => failures = errs + Cardinality(Holders)

\* DownloadDrain's finite sets are this module's.
LEMMA SameSets == \A S : (O!IsFiniteSet(S) <=> IsFiniteSet(S)) /\ O!Cardinality(S) = Cardinality(S)
BY DEF O!IsFiniteSet, IsFiniteSet, O!Cardinality, Cardinality

LEMMA HoldersFinite == IsFiniteSet(Holders) /\ Cardinality(Holders) \in Nat
<1>1. IsFiniteSet(Drainers) BY ServicesAssumption, SameSets DEF O!DrainAssumption
<1>2. IsFiniteSet(Holders) BY <1>1, FS_Subset DEF Holders
<1> QED BY <1>2, FS_CardinalityType

\* A worker that met an error, and one that got rid of it.
LEMMA HolderJoins ==
    ASSUME DrainInv, NEW w \in Drainers, NEW label, label \in {"send", "quit"},
           pc[w] \notin {"send", "quit"}, pc' = [pc EXCEPT ![w] = label]
    PROVE  Cardinality(Holders') = Cardinality(Holders) + 1
<1>1. Holders' = Holders \cup {w} /\ w \notin Holders BY DEF DrainInv, Holders
<1> QED BY <1>1, HoldersFinite, FS_AddElement

LEMMA HolderLeaves ==
    ASSUME DrainInv, NEW w \in Drainers, NEW label, label \in {"claim", "done"},
           pc[w] \in {"send", "quit"}, pc' = [pc EXCEPT ![w] = label]
    PROVE  Cardinality(Holders') = Cardinality(Holders) - 1
<1>1. Holders' = Holders \ {w} /\ w \in Holders BY DEF DrainInv, Holders
<1> QED BY <1>1, HoldersFinite, FS_RemoveElement

LEMMA HoldersStay ==
    ASSUME DrainInv, NEW w \in Drainers, NEW label, label \notin {"send", "quit"},
           pc[w] \notin {"send", "quit"}, pc' = [pc EXCEPT ![w] = label]
    PROVE  Holders' = Holders
BY DEF DrainInv, Holders

LEMMA DrainBegins == Init => DrainInv
<1> SUFFICES ASSUME Init PROVE DrainInv OBVIOUS
<1>1. Holders = {} BY DEF Init, O!Init, Holders
<1> QED BY <1>1, FS_EmptySet DEF Init, O!Init, DrainInv

LEMMA DrainSteps == ASSUME DrainInv, O!Next PROVE DrainInv'
<1>1. ASSUME NEW w \in Drainers, O!Claim(w) PROVE DrainInv'
  <2>1. CASE O!Goto(w, "quit") /\ failures' = failures + 1
    <3>1. Cardinality(Holders') = Cardinality(Holders) + 1
      BY <1>1, <2>1, HolderJoins DEF O!Claim, O!Goto
    <3> QED BY <1>1, <2>1, <3>1, HoldersFinite DEF O!Claim, O!Goto, DrainInv
  <2>2. CASE (O!Goto(w, "done") \/ O!Goto(w, "process")) /\ UNCHANGED failures
    BY <1>1, <2>2, HoldersStay DEF O!Claim, O!Goto, DrainInv
  <2> QED BY <1>1, <2>1, <2>2 DEF O!Claim
<1>2. ASSUME NEW w \in Drainers, O!Process(w) PROVE DrainInv'
  <2>1. CASE O!Goto(w, "send") /\ failures' = failures + 1
    <3>1. Cardinality(Holders') = Cardinality(Holders) + 1
      BY <1>2, <2>1, HolderJoins DEF O!Process, O!Goto
    <3>2. UNCHANGED <<errs, returned>> BY <1>2 DEF O!Process
    <3>3. ~returned' => failures' = errs' + Cardinality(Holders')
      BY <2>1, <3>1, <3>2, HoldersFinite DEF DrainInv
    <3>4. failures' \in Nat /\ errs' \in Nat BY <2>1, <3>2 DEF DrainInv
    <3> QED BY <2>1, <3>3, <3>4 DEF O!Goto, DrainInv
  <2>2. CASE O!Goto(w, "claim") /\ UNCHANGED failures
    BY <1>2, <2>2, HoldersStay DEF O!Process, O!Goto, DrainInv
  <2> QED BY <1>2, <2>1, <2>2 DEF O!Process
<1>3. ASSUME NEW w \in Drainers, O!Send(w) PROVE DrainInv'
  <2>1. Cardinality(Holders') = Cardinality(Holders) - 1
    BY <1>3, HolderLeaves DEF O!Send, O!Goto
  <2> QED BY <1>3, <2>1, HoldersFinite DEF O!Send, O!Goto, DrainInv
<1>4. CASE O!Return BY <1>4 DEF O!Return, DrainInv
<1>5. CASE O!Cancel \/ O!Pause BY <1>5 DEF O!Cancel, O!Pause, DrainInv, Holders
<1> QED BY <1>1, <1>2, <1>3, <1>4, <1>5 DEF O!Next, O!WorkerStep

LEMMA DrainKept == DrainInv /\ [Next]_vars => DrainInv'
<1> SUFFICES ASSUME DrainInv, [Next]_vars PROVE DrainInv' OBVIOUS
<1>1. CASE DrainStep(O!Next) BY <1>1, DrainSteps DEF DrainStep
<1>2. CASE UNCHANGED drainVars BY <1>2 DEF drainVars, DrainInv, Holders
<1> QED BY <1>1, <1>2 DEF Next, DaemonStep, AccountStep, PacingStep, vars

\* A failure is not lost on its way out: what a loop could not run for is what the
\* process ends with, and until Drain has read its channel every error a worker met is
\* in the channel or in the worker's hands (Server.Run, Queue.Drain).
THEOREM FailuresReported == Spec => []FailuresAreReported
<1>1. DaemonInv => D!FailureIsReported
  BY NoneIsNoAnswer DEF DaemonInv, Reading, Answered, BothRead, D!FailureIsReported, D!Failing
<1>2. DrainInv => O!NoErrorLost BY SameSets DEF DrainInv, Holders, O!NoErrorLost
<1>3. Spec => []DrainInv BY DrainBegins, DrainKept, PTL DEF Spec
<1> QED BY <1>1, <1>2, <1>3, DaemonHolds, PTL DEF FailuresAreReported

-----------------------------------------------------------------------------
(* The account of a tracker                                                *)

Call == [at : {"idle", "refresh", "save"}, cred : A!Credentials \cup {None}, crossed : BOOLEAN]

AccountTyped ==
    /\ begun \in 0 .. MaxGrants /\ used \subseteq 1 .. begun
    /\ provider \in [A!Grants -> Nat] /\ lost \in BOOLEAN /\ clobbered \in BOOLEAN
    /\ stored \in A!Credentials \cup {None}
    /\ handler \in [Handlers -> [at : {"idle", "exchange", "save", "publish"}, grant : Nat]]
    /\ caller \in [Callers -> Call]
    /\ events \in Nat

\* The sign-in that awaits its callback is being completed by nobody.
PendingIsFresh ==
    oauth # None =>
        /\ oauth.grant \in (1 .. begun) \ used
        /\ \A h \in Handlers : handler[h].at = "exchange" => handler[h].grant # oauth.grant

\* A request that exchanges a code is the only one to, and nobody has; one that saves
\* what it got is the only one that has it, and the provider has rotated nothing yet.
SignsIn(h) ==
    LET g == handler[h].grant IN
    /\ handler[h].at = "exchange" =>
          /\ g \in (1 .. begun) \ used
          /\ \A o \in Handlers : handler[o].at = "exchange" /\ handler[o].grant = g => o = h
    /\ handler[h].at = "save" =>
          /\ g \in used /\ provider[g] = 1
          /\ \A o \in Handlers : handler[o].at = "save" /\ handler[o].grant = g => o = h
          /\ stored # None => stored.grant # g
          /\ \A c \in Callers : caller[c].at # "idle" => caller[c].cred.grant # g

\* The lock: one call of a process uses the credential.
OneCaller ==
    \A c, o \in Callers : caller[c].at # "idle" /\ caller[o].at # "idle" /\ A!SameProcess(c, o) => c = o

\* A call holds a row that was stored.  The token it got is the one the provider honours;
\* the one it is about to present is, unless the other process refreshed it or an answer
\* was lost.
Calls(c) ==
    LET cred == caller[c].cred IN
    caller[c].at # "idle" =>
        /\ cred # None /\ cred.grant \in used /\ cred.token <= provider[cred.grant]
        /\ caller[c].at = "save" => cred.token = provider[cred.grant]
        /\ caller[c].at = "refresh" => lost \/ caller[c].crossed \/ cred.token = provider[cred.grant]

\* While a call has a token to store, nobody else has one that is honoured: neither
\* another call nor the row.
OneFresh(c) ==
    LET g == caller[c].cred.grant IN
    caller[c].at = "save" =>
        /\ \A o \in Callers : /\ o # c /\ caller[o].at # "idle" /\ caller[o].cred.grant = g
                              => caller[o].at = "refresh" /\ caller[o].cred.token # provider[g]
        /\ stored # None /\ stored.grant = g => stored.token # provider[g]

\* The stored token is honoured, or the one that takes its place is about to be stored.
StoredIsHonoured ==
    stored # None =>
        /\ stored.grant \in used /\ stored.token <= provider[stored.grant]
        /\ \/ lost \/ stored.token = provider[stored.grant]
           \/ \E c \in Callers : caller[c].at = "save" /\ caller[c].cred.grant = stored.grant

AccountInv ==
    /\ AccountTyped /\ PendingIsFresh /\ OneCaller /\ StoredIsHonoured /\ A!PageFollows
    /\ \A h \in Handlers : SignsIn(h)
    /\ \A c \in Callers : Calls(c) /\ OneFresh(c)

LEMMA AccountFacts ==
    MaxGrants \in Nat /\ MaxEvents \in Nat \ {0} /\ None \notin A!Credentials
BY ServicesAssumption DEF A!AccountsAssumption

LEMMA AccountBegins == Init => AccountInv
<1> SUFFICES ASSUME Init PROVE AccountInv OBVIOUS
<1> USE DEF Init, A!AccountsInit, A!AtRest, A!NoCall
<1>1. AccountTyped
  <2>1. handler \in [Handlers -> [at : {"idle", "exchange", "save", "publish"}, grant : Nat]] OBVIOUS
  <2>2. caller \in [Callers -> Call] BY DEF Call
  <2>3. provider \in [A!Grants -> Nat] /\ begun \in 0 .. MaxGrants /\ used \subseteq 1 .. begun
    BY AccountFacts
  <2> QED BY <2>1, <2>2, <2>3 DEF AccountTyped
<1>2. \A h \in Handlers : SignsIn(h) BY DEF SignsIn
<1>3. \A c \in Callers : Calls(c) /\ OneFresh(c) BY DEF Calls, OneFresh
<1>4. PendingIsFresh /\ OneCaller /\ StoredIsHonoured
  BY DEF PendingIsFresh, OneCaller, StoredIsHonoured
<1>5. A!PageFollows BY DEF A!PageFollows, A!Shown
<1> QED BY <1>1, <1>2, <1>3, <1>4, <1>5 DEF AccountInv

\* A row that expires, and one whose token is rotated.
LEMMA RowExpires ==
    ASSUME NEW r \in A!Credentials
    PROVE  LET e == [r EXCEPT !.expired = TRUE]
           IN  e \in A!Credentials /\ e # None /\ e.grant = r.grant /\ e.token = r.token
BY AccountFacts DEF A!Credentials

LEMMA RowRotates ==
    ASSUME NEW r \in A!Credentials
    PROVE  LET e == [grant |-> r.grant, token |-> r.token + 1, expired |-> FALSE]
           IN  e \in A!Credentials /\ e # None /\ e.grant = r.grant /\ e.token = r.token + 1
<1> DEFINE e == [grant |-> r.grant, token |-> r.token + 1, expired |-> FALSE]
<1>1. r.grant \in 1 .. MaxGrants /\ r.token \in Nat BY DEF A!Credentials
<1>2. r.token + 1 \in Nat BY <1>1
<1>3. e \in A!Credentials BY <1>1, <1>2, Zenon DEF A!Credentials
<1>4. e # None BY <1>3, AccountFacts
<1> QED BY <1>3, <1>4

LEMMA AccountSteps == ASSUME AccountInv, A!AccountsNext PROVE AccountInv'
<1> USE AccountFacts
    DEF AccountInv, AccountTyped, PendingIsFresh, OneCaller, StoredIsHonoured,
        A!PageFollows, SignsIn, Calls, OneFresh, Call, A!Shown, A!Grants, A!Credentials
<1>1. CASE A!StartOAuth BY <1>1 DEF A!StartOAuth
<1>2. CASE A!ExpireOAuth BY <1>2 DEF A!ExpireOAuth
<1>3. CASE A!Expire
  <2>1. PICK row \in A!Credentials : stored = row BY <1>3 DEF A!Expire
  <2>2. stored' = [row EXCEPT !.expired = TRUE] BY <1>3, <2>1 DEF A!Expire
  <2>3. /\ stored' \in A!Credentials /\ stored' # None /\ stored'.grant = stored.grant
        /\ stored'.token = stored.token
    BY <2>1, <2>2, RowExpires
  <2> HIDE DEF A!Credentials
  <2> QED BY <1>3, <2>1, <2>3 DEF A!Expire
<1>4. CASE A!Receive BY <1>4 DEF A!Receive
<1>5. CASE A!ListTrackers BY <1>5 DEF A!ListTrackers
<1>6. ASSUME NEW h \in Handlers, NEW state \in 1 .. begun, A!TakePending(h, state) PROVE AccountInv'
  <2>1. CASE UNCHANGED handler BY <1>6, <2>1 DEF A!TakePending
  <2>2. CASE ~ UNCHANGED handler
    <3>1. /\ oauth # None /\ oauth.grant = state /\ oauth' = None /\ handler[h].at = "idle"
          /\ handler' = [handler EXCEPT ![h] = [at |-> "exchange", grant |-> state]]
          /\ UNCHANGED <<stored, begun, used, provider, caller, lost, clobbered, events, page>>
      BY <1>6, <2>2 DEF A!TakePending, A!Goes
    <3> QED BY <3>1
  <2> QED BY <2>1, <2>2
<1>7. ASSUME NEW h \in Handlers, A!ExchangeCode(h) PROVE AccountInv'
  <2>1. CASE UNCHANGED <<used, provider>>
    <3>1. /\ handler[h].at = "exchange"
          /\ handler' = [handler EXCEPT ![h] = [at |-> "idle", grant |-> 0]]
          /\ UNCHANGED <<stored, oauth, begun, caller, lost, clobbered, events, page>>
      BY <1>7, <2>1 DEF A!ExchangeCode, A!Goes
    <3> QED BY <2>1, <3>1
  <2>2. CASE ~ UNCHANGED <<used, provider>>
    <3> DEFINE g == handler[h].grant
    <3>1. /\ handler[h].at = "exchange" /\ g \notin used
          /\ handler' = [handler EXCEPT ![h] = [at |-> "save", grant |-> g]]
          /\ used' = used \cup {g} /\ provider' = [provider EXCEPT ![g] = 1]
          /\ UNCHANGED <<stored, oauth, begun, caller, lost, clobbered, events, page>>
      BY <1>7, <2>2 DEF A!ExchangeCode, A!Goes
    <3>2. g \in 1 .. begun /\ g \in 1 .. MaxGrants BY <3>1
    <3>3. AccountTyped' BY <3>1, <3>2
    <3>4. \A o \in Handlers : SignsIn(o)' BY <3>1, <3>2
    <3>5. \A c \in Callers : Calls(c)' /\ OneFresh(c)'
      <4> SUFFICES ASSUME NEW c \in Callers PROVE Calls(c)' /\ OneFresh(c)' OBVIOUS
      <4>1. caller[c].at # "idle" => caller[c].cred.grant \in used \cap A!Grants BY <3>2
      <4>2. stored # None => stored.grant \in used \cap A!Grants BY <3>2
      <4>3. \A x \in used \cap A!Grants : provider'[x] = provider[x] /\ x \in used' BY <3>1
      <4>4. UNCHANGED <<caller, stored, lost>> BY <3>1
      <4>5. Calls(c) /\ OneFresh(c) OBVIOUS
      <4>6. Calls(c)'
        <5> HIDE DEF AccountInv, AccountTyped, g, A!Credentials, SignsIn, StoredIsHonoured, OneFresh
        <5> QED BY <4>1, <4>3, <4>4, <4>5
      <4>7. OneFresh(c)'
        <5> HIDE DEF AccountInv, AccountTyped, g, A!Credentials, SignsIn, StoredIsHonoured, Calls
        <5> QED BY <4>1, <4>2, <4>3, <4>4, <4>5
      <4> QED BY <4>6, <4>7
    <3>6. PendingIsFresh' /\ OneCaller' /\ A!PageFollows' BY <3>1, <3>2
    <3>7. StoredIsHonoured' BY <3>1, <3>2
    <3> QED BY <3>3, <3>4, <3>5, <3>6, <3>7
  <2> QED BY <2>1, <2>2
<1>8. ASSUME NEW h \in Handlers, A!Login(h) PROVE AccountInv'
  BY <1>8, SMTT(30) DEF A!Login, A!Goes
<1>9. ASSUME NEW h \in Handlers, A!SaveCredential(h) PROVE AccountInv'
  BY <1>9 DEF A!SaveCredential, A!Goes
<1>10. ASSUME NEW h \in Handlers, A!Disconnect(h) PROVE AccountInv'
  BY <1>10 DEF A!Disconnect, A!Goes
<1>11. ASSUME NEW h \in Handlers, A!Publish(h) PROVE AccountInv'
  BY <1>11 DEF A!Publish, A!Goes
<1>12. ASSUME NEW c \in Callers, A!Load(c) PROVE AccountInv'
  <2>1. CASE UNCHANGED caller BY <1>12, <2>1 DEF A!Load
  <2>2. CASE ~ UNCHANGED caller
    <3> DEFINE crosses == \E o \in Callers : /\ ~A!SameProcess(c, o) /\ caller[o].at = "save"
                                            /\ caller[o].cred.grant = stored.grant
    <3>1. /\ stored # None /\ \A o \in Callers : A!SameProcess(c, o) => caller[o].at = "idle"
          /\ caller' = [caller EXCEPT ![c] =
                            [at |-> "refresh", cred |-> stored, crossed |-> crosses]]
          /\ UNCHANGED <<stored, oauth, begun, used, provider, handler, lost, clobbered, events, page>>
      BY <1>12, <2>2 DEF A!Load
    <3>2. /\ caller'[c].at = "refresh" /\ caller'[c].cred = stored /\ caller'[c].crossed = crosses
          /\ \A o \in Callers \ {c} : caller'[o] = caller[o]
      BY <3>1
    <3>3. crosses \in BOOLEAN OBVIOUS
    <3>4. \A o \in Callers : caller[o].at = "save" => ~A!SameProcess(c, o) BY <3>1
    <3>5. caller[c].at = "idle" BY <3>1 DEF A!SameProcess
    <3> HIDE DEF crosses
    <3>6. AccountTyped' BY <3>1, <3>3
    <3>7. Calls(c)'
      <4>1. lost \/ crosses \/ stored.token = provider[stored.grant] BY <3>1, <3>4 DEF crosses
      <4> QED BY <3>1, <3>2, <4>1
    <3>8. \A o \in Callers \ {c} : Calls(o)' BY <3>1, <3>2
    <3>9. \A o \in Callers : OneFresh(o)' BY <3>1, <3>2, <3>5
    <3>10. \A h \in Handlers : SignsIn(h)' BY <3>1, <3>2
    <3>11. OneCaller' BY <3>1, <3>2 DEF A!SameProcess
    <3>12. StoredIsHonoured' BY <3>1, <3>2, <3>5
    <3>13. PendingIsFresh' /\ A!PageFollows' BY <3>1
    <3> QED BY <3>6, <3>7, <3>8, <3>9, <3>10, <3>11, <3>12, <3>13
  <2> QED BY <2>1, <2>2
<1>13. ASSUME NEW c \in Callers, A!Refresh(c) PROVE AccountInv'
  <2> DEFINE cred == caller[c].cred
             g == cred.grant
             rotated == [grant |-> cred.grant, token |-> cred.token + 1, expired |-> FALSE]
  <2>1. caller[c].at = "refresh" /\ cred \in A!Credentials /\ g \in used \cap A!Grants
    BY <1>13 DEF A!Refresh
  <2>2. UNCHANGED <<stored, oauth, begun, used, handler, clobbered, events, page>>
    BY <1>13 DEF A!Refresh
  <2>3. CASE caller' = [caller EXCEPT ![c] = A!NoCall] /\ UNCHANGED <<provider, lost>>
    BY <2>1, <2>2, <2>3 DEF A!NoCall
  <2>4. ASSUME cred.token = provider[g], provider' = [provider EXCEPT ![g] = @ + 1]
        PROVE  /\ provider' \in [A!Grants -> Nat] /\ provider'[g] = provider[g] + 1
               /\ \A x \in A!Grants \ {g} : provider'[x] = provider[x]
               /\ \A x \in A!Grants : provider[x] \in Nat
    BY <2>1, <2>4
  <2>5. CASE /\ cred.token = provider[g] /\ provider' = [provider EXCEPT ![g] = @ + 1]
             /\ caller' = [caller EXCEPT ![c] = A!NoCall] /\ lost' = TRUE
    <3>1. /\ provider' \in [A!Grants -> Nat] /\ provider'[g] = provider[g] + 1
          /\ \A x \in A!Grants \ {g} : provider'[x] = provider[x]
          /\ \A x \in A!Grants : provider[x] \in Nat
      BY <2>4, <2>5
    <3>2. caller'[c].at = "idle" /\ \A o \in Callers \ {c} : caller'[o] = caller[o]
      BY <2>5 DEF A!NoCall
    <3>3. AccountTyped' BY <2>2, <2>5, <3>1 DEF A!NoCall
    <3>4. \A o \in Callers : caller[o].at # "idle" =>
              /\ caller[o].cred.grant \in used \cap A!Grants /\ caller[o].cred.token \in Nat
              /\ caller[o].at = "save" => caller[o].cred.grant # g
      BY <2>1, <2>5
    <3>5. \A o \in Callers : Calls(o)'
      <4> SUFFICES ASSUME NEW o \in Callers, caller'[o].at # "idle" PROVE Calls(o)' OBVIOUS
      <4>1. o # c /\ caller'[o] = caller[o] /\ Calls(o) BY <3>2
      <4>2. caller[o].cred.token <= provider'[caller[o].cred.grant] BY <3>1, <3>4, <4>1
      <4>3. caller[o].at = "save" => provider'[caller[o].cred.grant] = provider[caller[o].cred.grant]
        BY <3>1, <3>4, <4>1
      <4> HIDE DEF AccountInv, AccountTyped, g, cred, rotated
      <4> QED BY <2>2, <2>5, <4>1, <4>2, <4>3
    <3>6. \A o \in Callers : OneFresh(o)'
      <4> SUFFICES ASSUME NEW o \in Callers, caller'[o].at = "save" PROVE OneFresh(o)' OBVIOUS
      <4>1. o # c /\ caller'[o] = caller[o] /\ OneFresh(o) BY <3>2
      <4>2. provider'[caller[o].cred.grant] = provider[caller[o].cred.grant] BY <3>1, <3>4, <4>1
      <4> HIDE DEF AccountInv, AccountTyped, g, cred, rotated
      <4> QED BY <2>2, <3>2, <4>1, <4>2
    <3>7. \A h \in Handlers : SignsIn(h)'
      <4> SUFFICES ASSUME NEW h \in Handlers PROVE SignsIn(h)' OBVIOUS
      <4>1. handler[h].at = "save" => handler[h].grant # g /\ handler[h].grant \in A!Grants
        BY <2>1
      <4>2. handler[h].at = "save" => provider'[handler[h].grant] = 1 BY <3>1, <4>1
      <4>3. SignsIn(h) OBVIOUS
      <4> HIDE DEF AccountInv, AccountTyped, g, cred, rotated
      <4> QED BY <2>2, <3>2, <4>2, <4>3
    <3>8. StoredIsHonoured' BY <2>2, <2>5, <3>1
    <3>9. PendingIsFresh' /\ OneCaller' /\ A!PageFollows' BY <2>2, <3>2
    <3> QED BY <3>3, <3>5, <3>6, <3>7, <3>8, <3>9
  <2>6. CASE /\ cred.token = provider[g] /\ provider' = [provider EXCEPT ![g] = @ + 1]
             /\ caller' = [o \in Callers |->
                    IF o = c THEN [at |-> "save", cred |-> rotated, crossed |-> FALSE]
                    ELSE [caller[o] EXCEPT !.crossed = @ \/ A!Overtakes(c, o)]]
             /\ UNCHANGED lost
    <3>1. /\ provider' \in [A!Grants -> Nat] /\ provider'[g] = provider[g] + 1
          /\ \A x \in A!Grants \ {g} : provider'[x] = provider[x]
          /\ \A x \in A!Grants : provider[x] \in Nat
      BY <2>4, <2>6
    <3>2. PICK row \in A!Credentials : /\ row = rotated /\ row # None /\ row.grant = g
                                      /\ row.token = cred.token + 1
      <4> HIDE DEF AccountInv, AccountTyped, A!Credentials, Call
      <4>1. /\ rotated \in A!Credentials /\ rotated # None /\ rotated.grant = g
            /\ rotated.token = cred.token + 1
        BY <2>1, RowRotates, Zenon
      <4> QED BY <4>1
    <3> HIDE DEF rotated
    <3>3. caller'[c] = [at |-> "save", cred |-> row, crossed |-> FALSE] BY <2>6, <3>2
    <3>4. ASSUME NEW o \in Callers \ {c}
          PROVE  /\ caller'[o] \in Call /\ caller'[o].at = caller[o].at
                 /\ caller'[o].cred = caller[o].cred
                 /\ caller'[o].crossed = (caller[o].crossed \/ A!Overtakes(c, o))
      <4>1. PICK old \in Call : old = caller[o] OBVIOUS
      <4>2. PICK over \in BOOLEAN : over = A!Overtakes(c, o) BY DEF A!Overtakes
      <4>3. caller'[o] = [old EXCEPT !.crossed = @ \/ over] BY <2>6, <4>1, <4>2
      <4> HIDE DEF AccountInv, A!Credentials
      <4> QED BY <4>1, <4>2, <4>3
    <3>5. AccountTyped'
      <4>1. caller' \in [Callers -> Call]
        <5>1. caller'[c] \in Call BY <3>2, <3>3
        <5>2. caller' = [o \in Callers |-> caller'[o]] BY <2>6
        <5> HIDE DEF Call, AccountInv, AccountTyped
        <5> QED BY <3>4, <5>1, <5>2
      <4> HIDE DEF Call
      <4> QED BY <2>2, <2>6, <3>1, <4>1
    <3>6. \A o \in Callers \ {c} : caller[o].at # "idle" =>
              /\ caller[o].cred.grant \in used \cap A!Grants /\ caller[o].cred.token \in Nat
              /\ ~A!SameProcess(c, o) /\ caller[o].cred # None
              /\ caller[o].at = "save" => caller[o].cred.grant # g
              /\ caller[o].cred.token <= provider[caller[o].cred.grant]
      BY <2>1, <2>6
    <3>7. ASSUME NEW o \in Callers \ {c} PROVE Calls(o)'
      <4> SUFFICES ASSUME caller[o].at # "idle" PROVE Calls(o)' BY <3>4
      <4>1. Calls(o) OBVIOUS
      <4>2. caller[o].cred.token <= provider'[caller[o].cred.grant]
        <5>1. PICK t \in Nat, x \in A!Grants : t = caller[o].cred.token /\ x = caller[o].cred.grant
          BY <3>6
        <5>2. t <= provider[x] BY <3>6, <5>1
        <5>3. provider[x] \in Nat /\ provider'[x] \in Nat /\ provider[x] <= provider'[x]
          <6>1. CASE x = g BY <3>1, <6>1
          <6>2. CASE x # g BY <3>1, <5>1, <6>2
          <6> QED BY <6>1, <6>2
        <5>4. t <= provider'[x] BY <5>1, <5>2, <5>3
        <5> QED BY <5>1, <5>4
      <4>3. caller[o].at = "save" => provider'[caller[o].cred.grant] = provider[caller[o].cred.grant]
        BY <3>1, <3>6
      <4>4. CASE caller[o].cred.grant = g
        <5>1. caller[o].at = "refresh" => caller'[o].crossed BY <3>4, <3>6, <4>4 DEF A!Overtakes
        <5>2. caller[o].at # "save" BY <3>6, <4>4
        <5> HIDE DEF AccountInv, AccountTyped, rotated, g, cred
        <5> QED BY <2>2, <3>4, <3>6, <4>2, <5>1, <5>2
      <4>5. CASE caller[o].cred.grant # g
        <5>1. provider'[caller[o].cred.grant] = provider[caller[o].cred.grant] BY <3>1, <3>6, <4>5
        <5> HIDE DEF AccountInv, AccountTyped, rotated, g, cred
        <5>2. UNCHANGED <<lost, used>> BY <2>2, <2>6
        <5>3. caller[o].crossed => caller'[o].crossed BY <3>4
        <5> QED BY <3>4, <4>1, <4>2, <5>1, <5>2, <5>3
      <4> QED BY <4>4, <4>5
    <3>8. Calls(c)' BY <2>1, <2>2, <2>6, <3>1, <3>2, <3>3
    <3>9. OneFresh(c)'
      <4>1. \A o \in Callers : o # c /\ caller'[o].at # "idle" /\ caller'[o].cred.grant = g
                => caller'[o].at = "refresh" /\ caller'[o].cred.token # provider'[g]
        <5> SUFFICES ASSUME NEW o \in Callers, o # c, caller'[o].at # "idle",
                            caller'[o].cred.grant = g
                     PROVE  caller'[o].at = "refresh" /\ caller'[o].cred.token # provider'[g]
          OBVIOUS
        <5>1. caller[o].at # "idle" /\ caller[o].cred.grant = g BY <3>4
        <5>2. caller[o].at \in {"refresh", "save"} BY <5>1
        <5> QED BY <3>1, <3>4, <3>6, <5>1, <5>2
      <4>2. stored # None /\ stored.grant = g => stored.token # provider'[g] BY <2>1, <3>1
      <4> HIDE DEF AccountInv, AccountTyped, rotated, g, cred
      <4> QED BY <2>2, <3>2, <3>3, <4>1, <4>2
    <3>10. ASSUME NEW o \in Callers \ {c} PROVE OneFresh(o)'
      <4> SUFFICES ASSUME caller[o].at = "save" PROVE OneFresh(o)' BY <3>4
      <4>1. caller[o].cred.grant # g /\ provider'[caller[o].cred.grant] = provider[caller[o].cred.grant]
        BY <3>1, <3>6
      <4>2. OneFresh(o) OBVIOUS
      <4> HIDE DEF AccountInv, AccountTyped, rotated, g, cred
      <4> QED BY <2>2, <3>2, <3>3, <3>4, <4>1, <4>2 DEF g, cred
    <3>11. \A h \in Handlers : SignsIn(h)'
      <4> SUFFICES ASSUME NEW h \in Handlers PROVE SignsIn(h)' OBVIOUS
      <4>1. handler[h].at = "save" => handler[h].grant # g /\ handler[h].grant \in A!Grants
        BY <2>1
      <4>2. handler[h].at = "save" => provider'[handler[h].grant] = 1 BY <3>1, <4>1
      <4>3. SignsIn(h) OBVIOUS
      <4>4. handler[h].at = "save" => \A d \in Callers : caller'[d].at # "idle"
                => caller'[d].cred.grant # handler[h].grant
        BY <3>2, <3>3, <3>4, <4>1, <4>3
      <4> HIDE DEF AccountInv, AccountTyped, g, cred, rotated
      <4> QED BY <2>2, <4>2, <4>3, <4>4
    <3>12. StoredIsHonoured'
      <4>1. stored # None => stored.grant \in A!Grants OBVIOUS
      <4>2. CASE stored = None BY <2>2, <4>2
      <4>3. CASE stored # None /\ stored.grant = g BY <2>1, <2>2, <3>1, <3>2, <3>3, <4>3
      <4>4. CASE stored # None /\ stored.grant # g
        <5>1. provider'[stored.grant] = provider[stored.grant] BY <3>1, <4>1, <4>4
        <5>2. \A o \in Callers : caller[o].at = "save" => o # c BY <2>1
        <5>3. StoredIsHonoured OBVIOUS
        <5> HIDE DEF AccountInv, AccountTyped, g, cred, rotated, Calls, OneFresh, SignsIn, A!Credentials
        <5> QED BY <2>2, <2>6, <3>4, <4>4, <5>1, <5>2, <5>3
      <4> QED BY <4>2, <4>3, <4>4
    <3>13. OneCaller'
      <4>1. \A o \in Callers : caller'[o].at # "idle" => caller[o].at # "idle" BY <2>1, <3>4
      <4> QED BY <4>1
    <3>14. PendingIsFresh' /\ A!PageFollows' BY <2>2
    <3>15. \A o \in Callers : Calls(o)' /\ OneFresh(o)'
      <4> HIDE DEF Calls, OneFresh
      <4> QED BY <3>7, <3>8, <3>9, <3>10
    <3> HIDE DEF AccountInv, AccountTyped, PendingIsFresh, OneCaller, StoredIsHonoured, A!PageFollows,
            SignsIn, Calls, OneFresh, Call, A!Shown, A!Grants, A!Credentials, rotated, g, cred
    <3> QED BY <3>5, <3>11, <3>12, <3>13, <3>14, <3>15 DEF AccountInv
  <2> HIDE DEF AccountInv, AccountTyped, PendingIsFresh, OneCaller, StoredIsHonoured, A!PageFollows,
           SignsIn, Calls, OneFresh, Call, A!Shown, A!Grants, A!Credentials, rotated, g
  <2> QED BY <1>13, <2>3, <2>5, <2>6, Zenon DEF A!Refresh, rotated, g
<1>14. ASSUME NEW c \in Callers, A!SaveRefreshed(c) PROVE AccountInv'
  <2> DEFINE cred == caller[c].cred
  <2>1. caller[c].at = "save" /\ cred \in A!Credentials
    BY <1>14 DEF A!SaveRefreshed
  <2>2. /\ stored' = cred /\ caller' = [caller EXCEPT ![c] = A!NoCall]
        /\ clobbered' = (clobbered \/ A!Shown(stored) # cred.grant)
        /\ UNCHANGED <<oauth, begun, used, provider, handler, lost, events, page>>
    BY <1>14 DEF A!SaveRefreshed
  <2>3. caller'[c].at = "idle" /\ \A o \in Callers \ {c} : caller'[o] = caller[o]
    BY <2>2 DEF A!NoCall
  <2>4. AccountTyped' BY <2>1, <2>2 DEF A!NoCall
  <2>5. \A h \in Handlers : SignsIn(h)' BY <2>1, <2>2, <2>3
  <2>6. \A o \in Callers : Calls(o)' BY <2>1, <2>2, <2>3
  <2>7. \A o \in Callers : OneFresh(o)' BY <2>1, <2>2, <2>3
  <2>8. StoredIsHonoured' BY <2>1, <2>2
  <2>9. A!PageFollows' BY <2>1, <2>2
  <2>10. PendingIsFresh' /\ OneCaller' BY <2>2, <2>3
  <2> QED BY <2>4, <2>5, <2>6, <2>7, <2>8, <2>9, <2>10
<1> HIDE DEF AccountInv, AccountTyped, PendingIsFresh, OneCaller, StoredIsHonoured, A!PageFollows,
         SignsIn, Calls, OneFresh, Call, A!Shown, A!Grants, A!Credentials
<1> QED BY <1>1, <1>2, <1>3, <1>4, <1>5, <1>6, <1>7, <1>8, <1>9, <1>10, <1>11, <1>12, <1>13, <1>14
        DEF A!AccountsNext

LEMMA AccountKept == AccountInv /\ [Next]_vars => AccountInv'
<1> SUFFICES ASSUME AccountInv, [Next]_vars PROVE AccountInv' OBVIOUS
<1>1. CASE AccountStep(A!AccountsNext) BY <1>1, AccountSteps DEF AccountStep
<1>2. CASE UNCHANGED accountVars
  BY <1>2 DEF accountVars, AccountInv, AccountTyped, PendingIsFresh, OneCaller, StoredIsHonoured,
              A!PageFollows, SignsIn, Calls, OneFresh, A!Shown
<1> QED BY <1>1, <1>2 DEF Next, DaemonStep, DrainStep, PacingStep, vars

\* An account: a refresh token the provider has rotated is presented to it again only
\* after it lost an answer, or by a call the refresh of the other process crossed,
\* whatever sign-ins, disconnects and the other calls of a process do meanwhile;
\* one request completes a sign-in; the page comes to show what is stored
\* (Registry.credential, CompleteOAuth, publishTrackerCredentials).
THEOREM AccountsAreSound == Spec => []AccountsSound
<1>1. AccountInv => AccountsSound
  BY DEF AccountInv, SignsIn, Calls, AccountsSound, A!RefreshIsHonoured, A!SignInCompletesOnce
<1>2. Spec => []AccountInv BY AccountBegins, AccountKept, PTL DEF Spec
<1> QED BY <1>1, <1>2, PTL

-----------------------------------------------------------------------------
(* The pacing of requests                                                  *)

Interval(w) == pacer[w].policy.interval

Policies == [interval : Nat \ {0}, retries : Nat]
Pacer == [at : {"idle", "hints", "override", "store", "page", "wait", "answer", "backoff"},
          source : Sources \cup {None}, policy : Policies, rated : BOOLEAN,
          attempt : Nat, host : Hosts \cup {None}, left : Nat]

\* A policy's interval is positive, wherever it comes from.
PacingTyped ==
    /\ policies \in [Sources -> Policies \cup {None}]
    /\ override \in [Sources -> P!Layers] /\ hint \in [Sources -> P!Layers]
    /\ writing \subseteq Sources /\ stale \subseteq Sources
    /\ next \in [Hosts -> Nat] /\ quiet \in [Hosts -> Nat]
    /\ pacer \in [Pacers -> Pacer]
    /\ \A w \in Pacers : /\ pacer[w].at \in {"hints", "override", "store"} => pacer[w].source \in Sources
                         /\ pacer[w].at \in {"wait", "answer"} => pacer[w].host \in Hosts

\* A slot lies after the quiet time of the last request, and before the next free slot by
\* its interval at least.
SlotsReserved ==
    /\ \A h \in Hosts : quiet[h] <= next[h]
    /\ \A w \in Pacers : pacer[w].at = "wait" =>
          LET h == pacer[w].host IN
          quiet[h] <= pacer[w].left /\ pacer[w].left + Interval(w) <= next[h]

\* Two slots of one host are the interval of the earlier apart.
SlotsApart ==
    \A w, v \in Pacers :
        w # v /\ pacer[w].at = "wait" /\ pacer[v].at = "wait" /\ pacer[w].host = pacer[v].host =>
            \/ pacer[w].left + Interval(w) <= pacer[v].left
            \/ pacer[v].left + Interval(v) <= pacer[w].left

\* What a worker has resolved so far is what the layers say, unless they change.
Current(p) ==
    p.rated /\ p.source \notin writing \cup stale =>
        /\ p.at = "override" => p.policy = P!Suggested(p.source)
        /\ p.at = "store" => p.policy = P!Effective(p.source)

ResolvedIsCurrent == \A w \in Pacers : Current(pacer[w])

PacingInv == PacingTyped /\ SlotsReserved /\ SlotsApart /\ ResolvedIsCurrent /\ P!CacheIsCurrent

LEMMA PacingFacts ==
    /\ Intervals \subseteq Nat \ {0} /\ Retries \subseteq Nat /\ Backoff \in Nat
    /\ P!Layers = [interval : Intervals \cup {None}, retries : Retries \cup {None}]
    /\ Default \in Policies /\ None \notin Nat
BY ServicesAssumption DEF P!PacingAssumption, P!Layers, Policies, Default

\* What a layer makes of a policy is a policy.
LEMMA OverIs ==
    ASSUME NEW layer, NEW policy \in Policies,
           layer.interval \in Intervals \cup {None}, layer.retries \in Retries \cup {None}
    PROVE  P!Over(layer, policy) \in Policies
BY PacingFacts DEF P!Over, Policies

LEMMA SuggestedIs ==
    ASSUME NEW s \in Sources, hint[s] \in P!Layers
    PROVE  P!Suggested(s) \in Policies
BY PacingFacts DEF P!Suggested, P!Over, Policies

LEMMA PacingBegins == Init => PacingInv
<1> SUFFICES ASSUME Init PROVE PacingInv OBVIOUS
<1> USE DEF Init, P!PacingInit, P!Resting
<1>1. pacer \in [Pacers -> Pacer] BY PacingFacts DEF Pacer
<1>2. P!Silent \in P!Layers BY PacingFacts DEF P!Silent
<1>3. PacingTyped BY <1>1, <1>2, PacingFacts DEF PacingTyped
<1>4. SlotsReserved /\ SlotsApart /\ ResolvedIsCurrent
  BY DEF SlotsReserved, SlotsApart, ResolvedIsCurrent, Current
<1>5. P!CacheIsCurrent BY DEF P!CacheIsCurrent
<1> QED BY <1>3, <1>4, <1>5 DEF PacingInv

\* The slots stay as they are when a worker moves that is not waiting for one and does
\* not come to.
LEMMA SlotsKept ==
    ASSUME PacingInv, NEW w \in Pacers, UNCHANGED <<next, quiet>>,
           \A v \in Pacers \ {w} : pacer'[v] = pacer[v], pacer'[w].at # "wait"
    PROVE  SlotsReserved' /\ SlotsApart'
<1>1. \A v \in Pacers : pacer'[v].at = "wait" => pacer'[v] = pacer[v] /\ v # w OBVIOUS
<1>2. SlotsReserved' BY <1>1 DEF PacingInv, SlotsReserved, Interval
<1>3. SlotsApart' BY <1>1 DEF PacingInv, SlotsApart, Interval
<1> QED BY <1>2, <1>3

LEMMA LayersKept ==
    ASSUME UNCHANGED <<override, hint>>
    PROVE  \A s : P!Suggested(s)' = P!Suggested(s) /\ P!Effective(s)' = P!Effective(s)
BY DEF P!Effective, P!Suggested

\* One worker moves, and what it has resolved is current.
LEMMA ResolvedKept ==
    ASSUME PacingInv, NEW w \in Pacers, NEW r, UNCHANGED <<override, hint, writing, stale>>,
           pacer'[w] = r, \A v \in Pacers \ {w} : pacer'[v] = pacer[v], Current(r)
    PROVE  ResolvedIsCurrent'
<1> SUFFICES ASSUME NEW v \in Pacers PROVE Current(pacer[v])' BY DEF ResolvedIsCurrent
<1>1. PICK x : x = pacer'[v] OBVIOUS
<1>2. Current(x) BY <1>1 DEF PacingInv, ResolvedIsCurrent
<1>3. Current(x)' BY <1>2, LayersKept DEF Current
<1> QED BY <1>1, <1>3 DEF Current

LEMMA CacheKept ==
    ASSUME PacingInv, UNCHANGED <<override, hint, writing, stale, policies>> PROVE P!CacheIsCurrent'
BY LayersKept DEF PacingInv, P!CacheIsCurrent

\* A worker's move leaves the rest typed.
LEMMA PacerTyped ==
    ASSUME PacingInv, NEW w \in Pacers, NEW r \in Pacer, pacer' = [pacer EXCEPT ![w] = r],
           UNCHANGED <<override, hint, writing, stale>>,
           policies' \in [Sources -> Policies \cup {None}],
           next' \in [Hosts -> Nat], quiet' \in [Hosts -> Nat],
           r.at \in {"hints", "override", "store"} => r.source \in Sources,
           r.at \in {"wait", "answer"} => r.host \in Hosts
    PROVE  /\ PacingTyped' /\ pacer'[w] = r
           /\ \A v \in Pacers \ {w} : pacer'[v] = pacer[v]
<1>1. pacer' \in [Pacers -> Pacer] BY DEF PacingInv, PacingTyped
<1> QED BY <1>1 DEF PacingInv, PacingTyped

LEMMA BeginKeeps ==
    ASSUME PacingInv, NEW w \in Pacers, NEW s \in Sources, P!Begin(w, s) PROVE PacingInv'
<1> DEFINE r == IF policies[s] # None
                THEN [P!Resting EXCEPT !.at = "page", !.source = s, !.policy = policies[s]]
                ELSE [P!Resting EXCEPT !.at = "hints", !.source = s]
<1>1. r \in Pacer /\ r.at \in {"page", "hints"} /\ r.source = s
  BY PacingFacts DEF P!Resting, Pacer, PacingInv, PacingTyped
<1>2. /\ pacer' = [pacer EXCEPT ![w] = r]
      /\ UNCHANGED <<override, hint, writing, stale, policies, next, quiet>>
  BY DEF P!Begin, P!Unwritten, P!Unpaced
<1> HIDE DEF r
<1>3. PICK x \in Pacer : x = r BY <1>1
<1>4. policies \in [Sources -> Policies \cup {None}] /\ next \in [Hosts -> Nat] /\ quiet \in [Hosts -> Nat]
  BY DEF PacingInv, PacingTyped
<1>5. /\ PacingTyped' /\ pacer'[w] = x
      /\ \A v \in Pacers \ {w} : pacer'[v] = pacer[v]
  BY <1>1, <1>2, <1>3, <1>4, PacerTyped
<1>6. SlotsReserved' /\ SlotsApart' BY <1>1, <1>2, <1>3, <1>5, SlotsKept
<1>7. Current(x) BY <1>1, <1>3 DEF Current
<1>8. ResolvedIsCurrent' BY <1>2, <1>5, <1>7, ResolvedKept
<1>9. P!CacheIsCurrent' BY <1>2, CacheKept
<1> QED BY <1>5, <1>6, <1>8, <1>9 DEF PacingInv

LEMMA StoredTyped ==
    PacingInv => /\ policies \in [Sources -> Policies \cup {None}]
                 /\ next \in [Hosts -> Nat] /\ quiet \in [Hosts -> Nat]
BY DEF PacingInv, PacingTyped

LEMMA ReadHintsKeeps ==
    ASSUME PacingInv, NEW w \in Pacers, P!ReadHints(w) PROVE PacingInv'
<1>1. PICK p \in Pacer : p = pacer[w] BY DEF PacingInv, PacingTyped
<1>2. p.at = "hints" /\ p.source \in Sources BY <1>1 DEF P!ReadHints, PacingInv, PacingTyped
<1>3. PICK q \in Policies : q = P!Suggested(p.source)
  BY <1>2, SuggestedIs DEF PacingInv, PacingTyped
<1>4. UNCHANGED <<override, hint, writing, stale, policies, next, quiet>>
  BY DEF P!ReadHints, P!Unwritten, P!Unpaced
<1>5. PICK r \in Pacer :
          /\ pacer' = [pacer EXCEPT ![w] = r] /\ r.at = "override" /\ r.source = p.source
          /\ r.rated => r.policy = q
  <2>1. CASE pacer' = [pacer EXCEPT ![w].at = "override", ![w].policy = P!Suggested(pacer[w].source)]
    <3> DEFINE r == [p EXCEPT !.at = "override", !.policy = q]
    <3>1. pacer' = [pacer EXCEPT ![w] = r] BY <1>1, <1>3, <2>1 DEF PacingInv, PacingTyped
    <3>2. r \in Pacer /\ r.at = "override" /\ r.source = p.source /\ r.policy = q BY DEF Pacer
    <3> QED BY <3>1, <3>2
  <2>2. CASE pacer' = [pacer EXCEPT ![w].at = "override", ![w].rated = FALSE]
    <3> DEFINE r == [p EXCEPT !.at = "override", !.rated = FALSE]
    <3>1. pacer' = [pacer EXCEPT ![w] = r] BY <1>1, <2>2 DEF PacingInv, PacingTyped
    <3>2. r \in Pacer /\ r.at = "override" /\ r.source = p.source /\ ~r.rated BY DEF Pacer
    <3> QED BY <3>1, <3>2
  <2> QED BY <2>1, <2>2 DEF P!ReadHints
<1>6. /\ PacingTyped' /\ pacer'[w] = r
      /\ \A v \in Pacers \ {w} : pacer'[v] = pacer[v]
  BY <1>2, <1>4, <1>5, StoredTyped, PacerTyped
<1>7. SlotsReserved' /\ SlotsApart' BY <1>4, <1>5, <1>6, SlotsKept
<1>8. Current(r) BY <1>3, <1>5 DEF Current
<1>9. ResolvedIsCurrent' BY <1>4, <1>6, <1>8, ResolvedKept
<1>10. P!CacheIsCurrent' BY <1>4, CacheKept
<1> QED BY <1>6, <1>7, <1>9, <1>10 DEF PacingInv

LEMMA ReadOverrideKeeps ==
    ASSUME PacingInv, NEW w \in Pacers, P!ReadOverride(w) PROVE PacingInv'
<1>1. PICK p \in Pacer : p = pacer[w] BY DEF PacingInv, PacingTyped
<1>2. p.at = "override" /\ p.source \in Sources
  BY <1>1 DEF P!ReadOverride, PacingInv, PacingTyped
<1>3. PICK q \in Policies : q = P!Over(override[p.source], p.policy)
  <2>1. override[p.source] \in [interval : Intervals \cup {None}, retries : Retries \cup {None}]
    BY <1>2, PacingFacts DEF PacingInv, PacingTyped
  <2> QED BY <2>1, OverIs DEF Pacer
<1>4. UNCHANGED <<override, hint, writing, stale, policies, next, quiet>>
  BY DEF P!ReadOverride, P!Unwritten, P!Unpaced
<1>5. PICK r \in Pacer :
          /\ pacer' = [pacer EXCEPT ![w] = r] /\ r.at = "store" /\ r.source = p.source
          /\ r.rated = p.rated /\ r.policy = q
  <2> DEFINE r == [p EXCEPT !.at = "store", !.policy = q]
  <2>1. pacer' = [pacer EXCEPT ![w] = r] BY <1>1, <1>3 DEF PacingInv, PacingTyped, P!ReadOverride
  <2>2. /\ r \in Pacer /\ r.at = "store" /\ r.source = p.source /\ r.policy = q
        /\ r.rated = p.rated
    BY DEF Pacer
  <2> QED BY <2>1, <2>2
<1>6. /\ PacingTyped' /\ pacer'[w] = r
      /\ \A v \in Pacers \ {w} : pacer'[v] = pacer[v]
  BY <1>2, <1>4, <1>5, StoredTyped, PacerTyped
<1>7. SlotsReserved' /\ SlotsApart' BY <1>4, <1>5, <1>6, SlotsKept
<1>8. Current(r)
  <2>1. Current(p) BY <1>1 DEF PacingInv, ResolvedIsCurrent
  <2> QED BY <1>2, <1>3, <1>5, <2>1 DEF Current, P!Effective
<1>9. ResolvedIsCurrent' BY <1>4, <1>6, <1>8, ResolvedKept
<1>10. P!CacheIsCurrent' BY <1>4, CacheKept
<1> QED BY <1>6, <1>7, <1>9, <1>10 DEF PacingInv

LEMMA StorePolicyKeeps ==
    ASSUME PacingInv, NEW w \in Pacers, P!StorePolicy(w) PROVE PacingInv'
<1>1. PICK p \in Pacer : p = pacer[w] BY DEF PacingInv, PacingTyped
<1>2. p.at = "store" /\ p.source \in Sources
  BY <1>1 DEF P!StorePolicy, PacingInv, PacingTyped
<1>3. UNCHANGED <<override, hint, writing, stale, next, quiet>>
  BY DEF P!StorePolicy, P!Unwritten, P!Unpaced
<1>4. policies' = IF p.rated THEN [policies EXCEPT ![p.source] = p.policy] ELSE policies
  BY <1>1 DEF P!StorePolicy
<1>5. PICK r \in Pacer : pacer' = [pacer EXCEPT ![w] = r] /\ r.at = "page"
  <2> DEFINE r == [p EXCEPT !.at = "page"]
  <2>1. pacer' = [pacer EXCEPT ![w] = r] BY <1>1 DEF PacingInv, PacingTyped, P!StorePolicy
  <2>2. r \in Pacer /\ r.at = "page" BY DEF Pacer
  <2> QED BY <2>1, <2>2
<1>6. policies' \in [Sources -> Policies \cup {None}] BY <1>2, <1>4, StoredTyped DEF Pacer
<1>7. /\ PacingTyped' /\ pacer'[w] = r
      /\ \A v \in Pacers \ {w} : pacer'[v] = pacer[v]
  BY <1>3, <1>5, <1>6, StoredTyped, PacerTyped
<1>8. SlotsReserved' /\ SlotsApart' BY <1>3, <1>5, <1>7, SlotsKept
<1>10. P!CacheIsCurrent'
  <2> SUFFICES ASSUME NEW s \in Sources, policies'[s] # None, s \notin writing \cup stale
               PROVE  policies'[s] = P!Effective(s)
    BY <1>3, LayersKept DEF P!CacheIsCurrent
  <2>1. CASE s = p.source /\ p.rated
    <3>1. Current(p) BY <1>1 DEF PacingInv, ResolvedIsCurrent
    <3> QED BY <1>2, <1>4, <2>1, <3>1, StoredTyped DEF Current
  <2>2. CASE ~(s = p.source /\ p.rated)
    <3>1. policies'[s] = policies[s] BY <1>4, <2>2, StoredTyped
    <3> QED BY <3>1 DEF PacingInv, P!CacheIsCurrent
  <2> QED BY <2>1, <2>2
<1>9. Current(r) BY <1>5 DEF Current
<1>11. ResolvedIsCurrent' BY <1>3, <1>7, <1>9, ResolvedKept
<1> QED BY <1>7, <1>8, <1>10, <1>11 DEF PacingInv

\* What follows when a worker moves that resolves nothing, is at no slot and takes none.
LEMMA Elsewhere ==
    ASSUME PacingInv, NEW w \in Pacers, NEW r \in Pacer, pacer' = [pacer EXCEPT ![w] = r],
           UNCHANGED <<override, hint, writing, stale, policies, next, quiet>>,
           r.at \in {"idle", "page", "backoff"}
    PROVE  PacingInv'
<1>1. /\ PacingTyped' /\ pacer'[w] = r
      /\ \A v \in Pacers \ {w} : pacer'[v] = pacer[v]
  BY StoredTyped, PacerTyped
<1>2. SlotsReserved' /\ SlotsApart' BY <1>1, SlotsKept
<1>3. Current(r) BY DEF Current
<1>4. ResolvedIsCurrent' BY <1>1, <1>3, ResolvedKept
<1>5. P!CacheIsCurrent' BY CacheKept
<1> QED BY <1>1, <1>2, <1>4, <1>5 DEF PacingInv

LEMMA RestingIs == P!Resting \in Pacer /\ P!Resting.at = "idle"
BY PacingFacts DEF P!Resting, Pacer

LEMMA DelayIs == \A n \in Nat : P!RetryDelay(n) \in Nat
<1> SUFFICES ASSUME NEW n \in Nat PROVE P!RetryDelay(n) \in Nat OBVIOUS
<1>1. PICK k \in {0, 1, 2, 3} : k = P!Three(n) BY DEF P!Three
<1>2. 2 ^ 0 \in Nat /\ 2 ^ 1 \in Nat /\ 2 ^ 2 \in Nat /\ 2 ^ 3 \in Nat OBVIOUS
<1>3. 2 ^ k \in Nat
  <2>1. CASE k = 0 BY <1>2, <2>1
  <2>2. CASE k = 1 BY <1>2, <2>2
  <2>3. CASE k = 2 BY <1>2, <2>3
  <2>4. CASE k = 3 BY <1>2, <2>4
  <2> QED BY <2>1, <2>2, <2>3, <2>4
<1> QED BY <1>1, <1>3, PacingFacts DEF P!RetryDelay

LEMMA AnswerKeeps == ASSUME PacingInv, NEW w \in Pacers, P!Answer(w) PROVE PacingInv'
<1>1. PICK p \in Pacer : p = pacer[w] BY DEF PacingInv, PacingTyped
<1>2. UNCHANGED <<override, hint, writing, stale, policies, next, quiet>>
  BY DEF P!Answer, P!Unwritten, P!Unpaced
<1>3. CASE pacer' = [pacer EXCEPT ![w] = P!Resting] BY <1>2, <1>3, RestingIs, Elsewhere
<1>4. CASE pacer' = [pacer EXCEPT ![w].at = "backoff", ![w].attempt = @ + 1,
                                  ![w].left = P!RetryDelay(pacer[w].attempt)]
  <2>1. PICK d \in Nat : d = P!RetryDelay(p.attempt) BY DelayIs DEF Pacer
  <2>2. PICK k \in Nat : k = p.attempt + 1 BY DEF Pacer
  <2> DEFINE q == [p EXCEPT !.at = "backoff", !.attempt = k]
             r == [q EXCEPT !.left = d]
  <2>3. pacer' = [pacer EXCEPT ![w] = r] BY <1>1, <1>4, <2>1, <2>2 DEF PacingInv, PacingTyped
  <2>4. q \in Pacer /\ q.at = "backoff" BY DEF Pacer
  <2> HIDE DEF q
  <2>5. r \in Pacer /\ r.at = "backoff" BY <2>4 DEF Pacer
  <2> QED BY <1>2, <2>3, <2>5, Elsewhere
<1> QED BY <1>3, <1>4 DEF P!Answer

LEMMA RetryKeeps == ASSUME PacingInv, NEW w \in Pacers, P!Retry(w) PROVE PacingInv'
<1>1. PICK p \in Pacer : p = pacer[w] BY DEF PacingInv, PacingTyped
<1> DEFINE r == [p EXCEPT !.at = "page"]
<1>2. pacer' = [pacer EXCEPT ![w] = r] BY <1>1 DEF PacingInv, PacingTyped, P!Retry
<1>3. r \in Pacer /\ r.at = "page" BY DEF Pacer
<1>4. UNCHANGED <<override, hint, writing, stale, policies, next, quiet>>
  BY DEF P!Retry, P!Unwritten, P!Unpaced
<1> QED BY <1>2, <1>3, <1>4, Elsewhere

\* A slot is taken behind every other of the host, and moves the next one back by the
\* interval of its worker.
LEMMA ReserveKeeps ==
    ASSUME PacingInv, NEW w \in Pacers, NEW h \in Hosts, P!Reserve(w, h) PROVE PacingInv'
<1>1. PICK p \in Pacer : p = pacer[w] BY DEF PacingInv, PacingTyped
<1>2. PICK n \in Nat : n = next[h] BY StoredTyped
<1>3. p.at = "page" /\ p.policy.interval \in Nat \ {0} BY <1>1 DEF P!Reserve, Pacer, Policies
<1>4. PICK r \in Pacer : /\ pacer' = [pacer EXCEPT ![w] = r]
                         /\ r.at = "wait" /\ r.host = h /\ r.left = n /\ r.policy = p.policy
  <2> DEFINE r == [p EXCEPT !.at = "wait", !.host = h, !.left = n]
  <2>1. pacer' = [pacer EXCEPT ![w] = r] BY <1>1, <1>2 DEF PacingInv, PacingTyped, P!Reserve
  <2>2. r \in Pacer /\ r.at = "wait" /\ r.host = h /\ r.left = n /\ r.policy = p.policy BY DEF Pacer
  <2> QED BY <2>1, <2>2
<1>5. /\ UNCHANGED <<override, hint, writing, stale, policies, quiet>>
      /\ next' = [next EXCEPT ![h] = n + p.policy.interval]
  BY <1>1, <1>2 DEF P!Reserve, P!Unwritten
<1>6. next' \in [Hosts -> Nat] BY <1>3, <1>5, StoredTyped
<1>7. /\ PacingTyped' /\ pacer'[w] = r
      /\ \A v \in Pacers \ {w} : pacer'[v] = pacer[v]
  BY <1>4, <1>5, <1>6, StoredTyped, PacerTyped
<1>8. /\ next'[h] = n + p.policy.interval
      /\ \A i \in Hosts : next'[i] >= next[i]
  BY <1>2, <1>3, <1>5, StoredTyped
<1>9. SlotsReserved'
  <2>1. \A i \in Hosts : quiet'[i] <= next'[i]
    BY <1>5, <1>6, <1>8, StoredTyped DEF PacingInv, SlotsReserved
  <2> SUFFICES ASSUME NEW v \in Pacers, pacer'[v].at = "wait"
               PROVE  /\ quiet'[pacer'[v].host] <= pacer'[v].left
                      /\ pacer'[v].left + pacer'[v].policy.interval <= next'[pacer'[v].host]
    BY <2>1 DEF SlotsReserved, Interval
  <2>2. CASE v = w
    BY <1>2, <1>3, <1>4, <1>5, <1>7, <1>8, <2>2 DEF PacingInv, SlotsReserved
  <2>3. CASE v # w
    <3>1. /\ pacer'[v] = pacer[v] /\ pacer[v].host \in Hosts /\ pacer[v].left \in Nat
          /\ pacer[v].policy.interval \in Nat
      BY <1>7, <2>3 DEF PacingInv, PacingTyped, Pacer, Policies
    <3> QED BY <1>5, <1>6, <1>8, <3>1, StoredTyped DEF PacingInv, SlotsReserved, Interval
  <2> QED BY <2>2, <2>3
<1>10. SlotsApart'
  <2>1. \A v \in Pacers \ {w} : pacer'[v].at = "wait" /\ pacer'[v].host = h =>
            pacer'[v].left + pacer'[v].policy.interval <= n
    BY <1>2, <1>7 DEF PacingInv, SlotsReserved, Interval
  <2> QED BY <1>4, <1>7, <2>1 DEF PacingInv, SlotsApart, Interval
<1>11. Current(r) BY <1>4 DEF Current
<1>12. ResolvedIsCurrent' BY <1>5, <1>7, <1>11, ResolvedKept
<1>13. P!CacheIsCurrent' BY <1>5, CacheKept
<1> QED BY <1>7, <1>9, <1>10, <1>12, <1>13 DEF PacingInv

\* A request leaves its host alone for the interval of its worker, which the slots of the
\* others are behind.
LEMMA RequestKeeps == ASSUME PacingInv, NEW w \in Pacers, P!Request(w) PROVE PacingInv'
<1>1. PICK p \in Pacer : p = pacer[w] BY DEF PacingInv, PacingTyped
<1>2. p.at = "wait" /\ p.left = 0 /\ p.host \in Hosts /\ p.policy.interval \in Nat \ {0}
  BY <1>1 DEF P!Request, PacingInv, PacingTyped, Pacer, Policies
<1>3. PICK h \in Hosts : h = p.host BY <1>2
<1>4. PICK i \in Nat \ {0} : i = p.policy.interval BY <1>2
<1>5. PICK r \in Pacer : pacer' = [pacer EXCEPT ![w] = r] /\ r.at = "answer" /\ r.host = h
  <2> DEFINE r == [p EXCEPT !.at = "answer"]
  <2>1. pacer' = [pacer EXCEPT ![w] = r] BY <1>1 DEF PacingInv, PacingTyped, P!Request
  <2>2. r \in Pacer /\ r.at = "answer" /\ r.host = h BY <1>3 DEF Pacer
  <2> QED BY <2>1, <2>2
<1>6. /\ UNCHANGED <<override, hint, writing, stale, policies, next>>
      /\ quiet' = [quiet EXCEPT ![h] = i]
  BY <1>1, <1>3, <1>4 DEF P!Request, P!Unwritten
<1>7. quiet' \in [Hosts -> Nat] BY <1>6, StoredTyped
<1>8. /\ PacingTyped' /\ pacer'[w] = r
      /\ \A v \in Pacers \ {w} : pacer'[v] = pacer[v]
  BY <1>5, <1>6, <1>7, StoredTyped, PacerTyped
<1>9. quiet'[h] = i /\ \A x \in Hosts \ {h} : quiet'[x] = quiet[x]
  BY <1>6, StoredTyped
<1>10. SlotsReserved'
  <2>1. \A x \in Hosts : quiet'[x] <= next'[x]
    <3>1. i <= next[h] BY <1>1, <1>2, <1>3, <1>4 DEF PacingInv, SlotsReserved, Interval
    <3> QED BY <1>6, <1>9, <3>1 DEF PacingInv, SlotsReserved
  <2> SUFFICES ASSUME NEW v \in Pacers, pacer'[v].at = "wait"
               PROVE  /\ quiet'[pacer'[v].host] <= pacer'[v].left
                      /\ pacer'[v].left + pacer'[v].policy.interval <= next'[pacer'[v].host]
    BY <2>1 DEF SlotsReserved, Interval
  <2>2. v # w /\ pacer'[v] = pacer[v] BY <1>5, <1>8
  <2>3. PICK o \in Pacer : o = pacer[v] BY DEF PacingInv, PacingTyped
  <2>4. o.at = "wait" /\ o.host \in Hosts /\ o.left \in Nat /\ o.policy.interval \in Nat \ {0}
    BY <2>2, <2>3 DEF PacingInv, PacingTyped, Pacer, Policies
  <2>5. o.left + o.policy.interval <= next[o.host] /\ quiet[o.host] <= o.left
    BY <2>3, <2>4 DEF PacingInv, SlotsReserved, Interval
  <2>6. CASE o.host = h
    <3>1. i <= o.left \/ o.left + o.policy.interval <= 0
      BY <1>1, <1>2, <1>3, <1>4, <2>2, <2>3, <2>4, <2>6 DEF PacingInv, SlotsApart, Interval
    <3> QED BY <1>6, <1>9, <2>2, <2>3, <2>4, <2>5, <2>6, <3>1
  <2>7. CASE o.host # h BY <1>6, <1>9, <2>2, <2>3, <2>4, <2>5, <2>7
  <2> QED BY <2>6, <2>7
<1>11. SlotsApart' BY <1>5, <1>8 DEF PacingInv, SlotsApart, Interval
<1>12. Current(r) BY <1>5 DEF Current
<1>13. ResolvedIsCurrent' BY <1>6, <1>8, <1>12, ResolvedKept
<1>14. P!CacheIsCurrent' BY <1>6, CacheKept
<1> QED BY <1>8, <1>10, <1>11, <1>13, <1>14 DEF PacingInv

LEMMA LessIs == \A n \in Nat : P!Less(n) \in Nat /\ (n > 0 => P!Less(n) = n - 1) /\ (n = 0 => P!Less(n) = 0)
BY DEF P!Less

LEMMA TickKeeps == ASSUME PacingInv, P!Tick PROVE PacingInv'
<1>1. /\ UNCHANGED <<override, hint, writing, stale, policies>>
      /\ next' = [h \in Hosts |-> P!Less(next[h])] /\ quiet' = [h \in Hosts |-> P!Less(quiet[h])]
      /\ pacer' = [w \in Pacers |-> [pacer[w] EXCEPT !.left = P!Less(@)]]
      /\ \A w \in Pacers : pacer[w].at \in {"wait", "backoff"} => pacer[w].left > 0
  BY DEF P!Tick, P!Unwritten
<1>2. next' \in [Hosts -> Nat] /\ quiet' \in [Hosts -> Nat] BY <1>1, StoredTyped, LessIs
<1>3. ASSUME NEW w \in Pacers
      PROVE  /\ pacer'[w] \in Pacer /\ pacer'[w].at = pacer[w].at /\ pacer'[w].host = pacer[w].host
             /\ pacer'[w].source = pacer[w].source /\ pacer'[w].policy = pacer[w].policy
             /\ pacer'[w].rated = pacer[w].rated /\ pacer[w].left \in Nat
             /\ pacer[w].at = "wait" => pacer[w].left > 0 /\ pacer'[w].left = pacer[w].left - 1
  <2>1. PICK p \in Pacer : p = pacer[w] BY DEF PacingInv, PacingTyped
  <2>2. PICK l \in Nat : l = P!Less(p.left) BY LessIs DEF Pacer
  <2>3. pacer'[w] = [p EXCEPT !.left = l] BY <1>1, <2>1, <2>2
  <2>4. p.left \in Nat /\ (p.at = "wait" => p.left > 0 /\ l = p.left - 1)
    BY <1>1, <2>1, <2>2, LessIs DEF Pacer
  <2> QED BY <2>1, <2>3, <2>4 DEF Pacer
<1>4. pacer' \in [Pacers -> Pacer] BY <1>1, <1>3
<1>5. PacingTyped' BY <1>1, <1>2, <1>3, <1>4 DEF PacingInv, PacingTyped
<1>6. \A w \in Pacers : pacer[w].at = "wait" =>
          /\ pacer[w].host \in Hosts /\ Interval(w) \in Nat \ {0} /\ Interval(w)' = Interval(w)
          /\ quiet[pacer[w].host] <= pacer[w].left /\ pacer[w].left + Interval(w) <= next[pacer[w].host]
  BY <1>3 DEF PacingInv, PacingTyped, SlotsReserved, Interval, Pacer, Policies
<1>7. SlotsReserved'
  <2>1. \A h \in Hosts : quiet'[h] <= next'[h]
    BY <1>1, StoredTyped, LessIs DEF PacingInv, SlotsReserved
  <2> SUFFICES ASSUME NEW w \in Pacers, pacer[w].at = "wait"
               PROVE  /\ quiet'[pacer[w].host] <= pacer'[w].left
                      /\ pacer'[w].left + Interval(w) <= next'[pacer[w].host]
    BY <1>3, <1>6, <2>1 DEF SlotsReserved
  <2>2. PICK h \in Hosts : h = pacer[w].host BY <1>6
  <2>3. next'[h] = P!Less(next[h]) /\ quiet'[h] = P!Less(quiet[h]) /\ next[h] \in Nat /\ quiet[h] \in Nat
    BY <1>1, StoredTyped
  <2>4. next'[h] = next[h] - 1 BY <1>3, <1>6, <2>2, <2>3, LessIs
  <2>5. quiet'[h] <= pacer[w].left - 1 BY <1>3, <1>6, <2>2, <2>3, LessIs
  <2> QED BY <1>3, <1>6, <2>2, <2>3, <2>4, <2>5
<1>8. SlotsApart'
  <2> SUFFICES ASSUME NEW w \in Pacers, NEW v \in Pacers, w # v,
                      pacer[w].at = "wait", pacer[v].at = "wait", pacer[w].host = pacer[v].host
               PROVE  \/ pacer'[w].left + Interval(w) <= pacer'[v].left
                      \/ pacer'[v].left + Interval(v) <= pacer'[w].left
    BY <1>3, <1>6 DEF SlotsApart
  <2>1. \/ pacer[w].left + Interval(w) <= pacer[v].left
        \/ pacer[v].left + Interval(v) <= pacer[w].left
    BY DEF PacingInv, SlotsApart
  <2> QED BY <1>3, <1>6, <2>1
<1>9. ResolvedIsCurrent'
  <2> SUFFICES ASSUME NEW v \in Pacers PROVE Current(pacer[v])' BY DEF ResolvedIsCurrent
  <2>1. PICK x : x = pacer'[v] OBVIOUS
  <2>2. Current(pacer[v]) BY DEF PacingInv, ResolvedIsCurrent
  <2>3. Current(x) BY <1>3, <2>1, <2>2 DEF Current
  <2>4. Current(x)' BY <1>1, <2>3, LayersKept DEF Current
  <2> QED BY <2>1, <2>4 DEF Current
<1>10. P!CacheIsCurrent' BY <1>1, CacheKept
<1> QED BY <1>5, <1>7, <1>8, <1>9, <1>10 DEF PacingInv

\* When no worker moves, its slots stay; what is left is the layers and the cache.
LEMMA Untouched ==
    ASSUME PacingInv, UNCHANGED <<pacer, next, quiet>>,
           policies' \in [Sources -> Policies \cup {None}],
           override' \in [Sources -> P!Layers], hint' \in [Sources -> P!Layers],
           writing' \subseteq Sources, stale' \subseteq Sources,
           \A w \in Pacers : pacer[w].at \in {"override", "store"} => Current(pacer[w])',
           P!CacheIsCurrent'
    PROVE  PacingInv'
<1>1. PacingTyped' BY DEF PacingInv, PacingTyped
<1>2. SlotsReserved' /\ SlotsApart' BY DEF PacingInv, SlotsReserved, SlotsApart, Interval
<1>3. ResolvedIsCurrent' BY DEF ResolvedIsCurrent, Current
<1> QED BY <1>1, <1>2, <1>3 DEF PacingInv

\* A layer of one source says nothing of another.
LEMMA OthersKept ==
    ASSUME PacingInv, NEW s \in Sources, NEW x \in Sources \ {s}, NEW layer,
           \/ override' = [override EXCEPT ![s] = layer] /\ UNCHANGED hint
           \/ hint' = [hint EXCEPT ![s] = layer] /\ UNCHANGED override
    PROVE  P!Suggested(x)' = P!Suggested(x) /\ P!Effective(x)' = P!Effective(x)
<1>1. hint'[x] = hint[x] /\ override'[x] = override[x] BY DEF PacingInv, PacingTyped
<1> QED BY <1>1 DEF P!Suggested, P!Effective

\* What was current of the other sources stays so, when a source can no longer be relied on.
LEMMA LayerChanges ==
    ASSUME PacingInv, NEW s \in Sources, NEW layer \in P!Layers,
           UNCHANGED <<pacer, next, quiet, policies>>,
           \/ override' = [override EXCEPT ![s] = layer] /\ UNCHANGED hint
           \/ hint' = [hint EXCEPT ![s] = layer] /\ UNCHANGED override,
           writing' \subseteq Sources, stale' \subseteq Sources,
           writing' \cup stale' = writing \cup stale \cup {s}
    PROVE  PacingInv'
<1>1. override' \in [Sources -> P!Layers] /\ hint' \in [Sources -> P!Layers]
  BY DEF PacingInv, PacingTyped
<1>2. ASSUME NEW w \in Pacers, pacer[w].at \in {"override", "store"} PROVE Current(pacer[w])'
  <2>1. PICK p : p = pacer[w] /\ p.source \in Sources BY <1>2 DEF PacingInv, PacingTyped
  <2>2. Current(p) BY <2>1 DEF PacingInv, ResolvedIsCurrent
  <2>3. Current(p)'
    <3>1. CASE p.source = s BY <3>1 DEF Current
    <3>2. CASE p.source # s BY <2>1, <2>2, <3>2, OthersKept DEF Current
    <3> QED BY <3>1, <3>2
  <2> QED BY <2>1, <2>3 DEF Current
<1>3. P!CacheIsCurrent'
  <2> SUFFICES ASSUME NEW x \in Sources, policies[x] # None, x \notin writing' \cup stale'
               PROVE  policies[x] = P!Effective(x)'
    BY DEF P!CacheIsCurrent
  <2>1. x # s /\ x \notin writing \cup stale OBVIOUS
  <2> QED BY <2>1, OthersKept DEF PacingInv, P!CacheIsCurrent
<1> QED BY <1>1, <1>2, <1>3, StoredTyped, Untouched

LEMMA PutOverrideKeeps ==
    ASSUME PacingInv, NEW s \in Sources, NEW layer \in P!Layers, P!PutOverride(s, layer)
    PROVE  PacingInv'
BY LayerChanges DEF P!PutOverride, P!Unpaced, PacingInv, PacingTyped

LEMMA UpdateSourceKeeps ==
    ASSUME PacingInv, NEW s \in Sources, NEW layer \in P!Layers, P!UpdateSource(s, layer)
    PROVE  PacingInv'
BY LayerChanges DEF P!UpdateSource, P!Unpaced, PacingInv, PacingTyped

LEMMA InvalidateKeeps ==
    ASSUME PacingInv, NEW s \in Sources, P!InvalidateSourcePolicy(s) PROVE PacingInv'
<1>1. /\ UNCHANGED <<override, hint, pacer, next, quiet>>
      /\ writing' = writing \ {s} /\ policies' = [policies EXCEPT ![s] = None]
      /\ stale' = IF P!Resolving(s) THEN stale \cup {s} ELSE stale
  BY DEF P!InvalidateSourcePolicy, P!Unpaced
<1>2. /\ policies' \in [Sources -> Policies \cup {None}] /\ writing' \subseteq Sources
      /\ stale' \subseteq Sources /\ override' \in [Sources -> P!Layers] /\ hint' \in [Sources -> P!Layers]
  BY <1>1, StoredTyped DEF PacingInv, PacingTyped
<1>3. ASSUME NEW w \in Pacers, pacer[w].at \in {"override", "store"} PROVE Current(pacer[w])'
  <2>1. PICK p : p = pacer[w] OBVIOUS
  <2>2. Current(p) BY <2>1 DEF PacingInv, ResolvedIsCurrent
  <2>3. Current(p)'
    <3>1. CASE p.source = s
      <4>1. P!Resolving(s) BY <1>3, <2>1, <3>1 DEF P!Resolving
      <4> QED BY <1>1, <3>1, <4>1 DEF Current
    <3>2. CASE p.source # s BY <1>1, <2>2, <3>2, LayersKept DEF Current
    <3> QED BY <3>1, <3>2
  <2> QED BY <1>1, <2>1, <2>3 DEF Current
<1>4. P!CacheIsCurrent'
  <2> SUFFICES ASSUME NEW x \in Sources, policies'[x] # None, x \notin writing' \cup stale'
               PROVE  policies'[x] = P!Effective(x)
    BY <1>1, LayersKept DEF P!CacheIsCurrent
  <2>1. x # s /\ policies'[x] = policies[x] /\ x \notin writing \cup stale BY <1>1, StoredTyped
  <2> QED BY <2>1 DEF PacingInv, P!CacheIsCurrent
<1> QED BY <1>1, <1>2, <1>3, <1>4, Untouched

LEMMA PacingSteps == ASSUME PacingInv, P!PacingNext PROVE PacingInv'
BY TickKeeps, BeginKeeps, ReadHintsKeeps, ReadOverrideKeeps, StorePolicyKeeps, ReserveKeeps,
   RequestKeeps, AnswerKeeps, RetryKeeps, InvalidateKeeps, PutOverrideKeeps, UpdateSourceKeeps
   DEF P!PacingNext, P!PacerStep

LEMMA PacingKept == PacingInv /\ [Next]_vars => PacingInv'
<1> SUFFICES ASSUME PacingInv, [Next]_vars PROVE PacingInv' OBVIOUS
<1>1. CASE PacingStep(P!PacingNext) BY <1>1, PacingSteps DEF PacingStep
<1>2. CASE UNCHANGED pacingVars
  <2>1. UNCHANGED <<override, hint, policies, writing, stale, next, quiet, pacer>>
    BY <1>2 DEF pacingVars
  <2>2. \A w \in Pacers : Current(pacer[w])'
    <3> SUFFICES ASSUME NEW w \in Pacers PROVE Current(pacer[w])' OBVIOUS
    <3>1. PICK p : p = pacer[w] OBVIOUS
    <3>2. Current(p) BY <3>1 DEF PacingInv, ResolvedIsCurrent
    <3>3. Current(p)' BY <2>1, <3>2, LayersKept DEF Current
    <3> QED BY <2>1, <3>1, <3>3 DEF Current
  <2>3. P!CacheIsCurrent' BY <2>1, CacheKept
  <2> QED BY <2>1, <2>2, <2>3, StoredTyped, Untouched DEF PacingInv, PacingTyped
<1> QED BY <1>1, <1>2 DEF Next, DaemonStep, DrainStep, AccountStep, vars

\* A worker that sends a request does so when its host has been left alone as long as the
\* last request there asked, and the policy it will keep is what the layers say
\* (DomainLimiter.WaitWithInterval, Queue.policyFor).
THEOREM PacingIsHeld == Spec => PacingHolds
<1>1. PacingInv /\ [Next]_vars => [P!RequestsAreSpaced /\ (P!CacheIsCurrent)']_vars
  <2> SUFFICES ASSUME PacingInv, [Next]_vars, vars' # vars
               PROVE  P!RequestsAreSpaced /\ (P!CacheIsCurrent)'
    OBVIOUS
  <2>1. (P!CacheIsCurrent)' BY PacingKept DEF PacingInv
  <2>2. P!RequestsAreSpaced
    <3> SUFFICES ASSUME NEW w \in Pacers, pacer[w].at = "wait", pacer'[w].at = "answer"
                 PROVE  quiet[pacer[w].host] = 0
      BY DEF P!RequestsAreSpaced
    <3>1. pacer[w].left = 0
      <4>1. P!PacingNext BY DEF Next, DaemonStep, DrainStep, AccountStep, PacingStep, pacingVars
      <4>2. CASE P!Tick
        <5>1. PICK p \in Pacer : p = pacer[w] BY DEF PacingInv, PacingTyped
        <5>2. pacer'[w] = [p EXCEPT !.left = P!Less(@)] BY <4>2, <5>1 DEF P!Tick
        <5>3. pacer'[w].at = p.at BY <5>2 DEF Pacer
        <5> QED BY <5>1, <5>3
      <4>3. ASSUME NEW v \in Pacers, P!PacerStep(v) PROVE pacer[w].left = 0
        BY <4>3 DEF P!PacerStep, PacingInv, PacingTyped, P!ReadHints, P!ReadOverride, P!StorePolicy,
                    P!Reserve, P!Request, P!Answer, P!Retry, P!Resting
      <4>4. ASSUME NEW v \in Pacers, NEW s \in Sources, P!Begin(v, s) PROVE pacer[w].left = 0
        BY <4>4 DEF P!Begin, PacingInv, PacingTyped
      <4>5. ASSUME NEW s \in Sources,
                   \/ P!InvalidateSourcePolicy(s)
                   \/ \E layer \in P!Layers : P!PutOverride(s, layer) \/ P!UpdateSource(s, layer)
            PROVE  pacer[w].left = 0
        BY <4>5 DEF P!InvalidateSourcePolicy, P!PutOverride, P!UpdateSource
      <4> QED BY <4>1, <4>2, <4>3, <4>4, <4>5 DEF P!PacingNext
    <3>2. pacer[w].host \in Hosts /\ quiet[pacer[w].host] \in Nat
      BY DEF PacingInv, PacingTyped
    <3> QED BY <3>1, <3>2 DEF PacingInv, SlotsReserved
  <2> QED BY <2>1, <2>2
<1>2. Spec => []PacingInv BY PacingBegins, PacingKept, PTL DEF Spec
<1> QED BY <1>1, <1>2, PTL DEF Spec, PacingHolds

=============================================================================
