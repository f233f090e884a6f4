--------------------------- MODULE ServiceTokens ---------------------------
(***************************************************************************)
(* ServiceTokenService: the application-scoped cache of the access tokens  *)
(* of the "service" user of every realm.  StartupService fills it realm by *)
(* realm before anything else runs; afterwards any number of request       *)
(* threads call getServiceToken at once on a plain HashMap.  A call        *)
(* looks the token up, judges how long it still lives, and when that is    *)
(* not long enough logs in to Keycloak and stores what it gets.  Between   *)
(* any two of these steps other calls run and the clock advances.          *)
(***************************************************************************)
EXTENDS Integers

CONSTANTS
    Realm,      \* the realm codes callers ask for, "genny" among them
    Genny,      \* the realm code "genny"
    MainRealm,  \* GennySettings.mainrealm
    Caller,     \* request threads
    Limit,      \* GennySettings.ACCESS_TOKEN_EXPIRY_LIMIT_SECONDS
    Lifetime,   \* the lifetimes Keycloak gives to an access token
    MaxNow,     \* bound: the clock stops here
    NoToken     \* null

ASSUME RealmAssumption == Genny \in Realm /\ MainRealm \in Realm
ASSUME TimeAssumption == Limit \in Nat /\ Lifetime \subseteq Nat \ {0} /\ MaxNow \in Nat
ASSUME NoTokenAssumption == NoToken \notin [realm : Realm, exp : Nat]

VARIABLES
    devMode,               \* GennySettings.devMode, fixed for the whole run
    now,                   \* the wall clock, in seconds
    toInit,                \* enabled realm units that init has not reached
    serviceTokens,         \* the HashMap of access tokens: NoToken where a get returns null
    call                   \* per thread, the call of getServiceToken it runs

vars == <<devMode, now, toInit, serviceTokens, call>>

Token == [realm : Realm, exp : Nat]
MaybeToken == Token \cup {NoToken}

(***************************************************************************)
(* Where a call stands.  key is the realm after the renaming at the top of *)
(* getServiceToken, token what the call holds or returns, own whether      *)
(* Keycloak issued it to this very call, and at the time it was chosen or  *)
(* issued.                                                                 *)
(***************************************************************************)
Step == {"idle", "lookup", "judge", "json", "login", "store", "done"}
CallRecord == [pc : Step, ask : Realm, key : Realm, token : MaybeToken,
               own : BOOLEAN, at : Nat]

Idle == [pc |-> "idle", ask |-> Genny, key |-> Genny, token |-> NoToken,
         own |-> FALSE, at |-> 0]

\* getServiceToken: in devMode every realm is "genny", otherwise "genny" is the main realm.
ResolveSkipsAlias(r) == IF devMode THEN Genny ELSE r
Resolve(r) == IF devMode THEN Genny ELSE IF r = Genny THEN MainRealm ELSE r

\* The check on duration: enough life left to reuse the token.
ReusableInverted(t) == t # NoToken /\ t.exp - now <= Limit
Reusable(t) == t # NoToken /\ t.exp - now >= Limit

\* (A mutant: the lifetime subtracted.)
IssueInThePast(r) == {[realm |-> r, exp |-> now - life] : life \in Lifetime}
\* What KeycloakUtils.getSecureTokenPayload may answer for realm r.
Issue(r) == {[realm |-> r, exp |-> now + life] : life \in Lifetime}

\* Another thread is inside a put on the HashMap serviceTokens.
OtherWriting(c) == \E d \in Caller \ {c} : call[d].pc = "store"

----------------------------------------------------------------------------
Init ==
    /\ devMode \in BOOLEAN
    /\ now = 0
    /\ toInit \in SUBSET (Realm \ {Genny})
    /\ serviceTokens = [r \in Realm |-> NoToken]
    /\ call = [c \in Caller |-> Idle]

\* init(RealmUnit): the startup thread logs each enabled realm in; a failure stores null.
InitRealm(r) ==
    /\ r \in toInit
    /\ toInit' = toInit \ {r}
    /\ \E t \in Issue(r) \cup {NoToken} : serviceTokens' = [serviceTokens EXCEPT ![r] = t]
    /\ UNCHANGED <<devMode, now, call>>

\* A thread enters getServiceToken(r); none does before init has run for every realm.
Call(c, r) ==
    /\ toInit = {}
    /\ call[c].pc = "idle"
    /\ call' = [call EXCEPT ![c] = [pc |-> "lookup", ask |-> r, key |-> Resolve(r),
                   token |-> NoToken, own |-> FALSE, at |-> now]]
    /\ UNCHANGED <<devMode, now, toInit, serviceTokens>>

\* serviceTokens.get(realm): a get racing a put may also miss the entry.
Lookup(c) ==
    /\ call[c].pc = "lookup"
    /\ \E t \in {serviceTokens[call[c].key]} \cup (IF OtherWriting(c) THEN {NoToken} ELSE {}) :
          call' = [call EXCEPT ![c].pc = "judge", ![c].token = t]
    /\ UNCHANGED <<devMode, now, toInit, serviceTokens>>

\* The expiry check: return the cached token or go on to generateServiceToken.
Judge(c) ==
    /\ call[c].pc = "judge"
    /\ call' = [call EXCEPT ![c].pc = IF Reusable(call[c].token) THEN "done" ELSE "json",
                            ![c].at = now]
    /\ UNCHANGED <<devMode, now, toInit, serviceTokens>>

\* generateServiceToken(realm): SecureResources has "<realm>.json" at this moment, or (in
\* devMode) one copied from "genny", and the call logs in; or the call ends without a token.
\* Other components fill and empty that map at any time: module KeycloakRealms has it.
FindJson(c) ==
    /\ call[c].pc = "json"
    /\ \/ call' = [call EXCEPT ![c].pc = "login"]
       \/ call' = [call EXCEPT ![c].pc = "done", ![c].token = NoToken]
    /\ UNCHANGED <<devMode, now, toInit, serviceTokens>>

\* generateServiceToken(5 arguments): Keycloak answers with a token pair ...
LoginOk(c) ==
    /\ call[c].pc = "login"
    /\ \E t \in Issue(call[c].key) :
          call' = [call EXCEPT ![c].pc = "store", ![c].token = t,
                               ![c].own = TRUE, ![c].at = now]
    /\ UNCHANGED <<devMode, now, toInit, serviceTokens>>

\* ... or the login throws (or names no access token), which is caught: null.
LoginFails(c) ==
    /\ call[c].pc = "login"
    /\ call' = [call EXCEPT ![c].pc = "done", ![c].token = NoToken]
    /\ UNCHANGED <<devMode, now, toInit, serviceTokens>>

\* Reading the Keycloak configuration and decrypting the service user's password are outside
\* that try: what they throw leaves getServiceToken, and the caller gets no answer.
Throws(c) ==
    /\ call[c].pc \in {"json", "login"}
    /\ call' = [call EXCEPT ![c] = Idle]
    /\ UNCHANGED <<devMode, now, toInit, serviceTokens>>

\* The key under which a call stores what it was given.
StoreKey(c) == call[c].key

\* serviceTokens.put, and the call returns the access token: of two puts that race one may
\* be lost.  The put on refreshServiceTokens beside it is left out: no call uses that map.
StoreAccess(c) ==
    /\ call[c].pc = "store"
    /\ \/ serviceTokens' = [serviceTokens EXCEPT ![StoreKey(c)] = call[c].token]
       \/ OtherWriting(c) /\ UNCHANGED serviceTokens
    /\ call' = [call EXCEPT ![c].pc = "done"]
    /\ UNCHANGED <<devMode, now, toInit>>

\* The caller has used what getServiceToken returned and may call again.
Return(c) ==
    /\ call[c].pc = "done"
    /\ call' = [call EXCEPT ![c] = Idle]
    /\ UNCHANGED <<devMode, now, toInit, serviceTokens>>

----------------------------------------------------------------------------
\* Time passes.
Tick ==
    /\ now < MaxNow
    /\ now' = now + 1
    /\ UNCHANGED <<devMode, toInit, serviceTokens, call>>

CallStep(c) ==
    \/ \E r \in Realm : Call(c, r)
    \/ Lookup(c) \/ Judge(c) \/ FindJson(c) \/ LoginOk(c) \/ LoginFails(c)
    \/ Throws(c) \/ StoreAccess(c) \/ Return(c)

Next ==
    \/ \E r \in Realm : InitRealm(r)
    \/ \E c \in Caller : CallStep(c)
    \/ Tick

Spec == Init /\ [][Next]_vars

----------------------------------------------------------------------------
TypeOK ==
    /\ devMode \in BOOLEAN
    /\ now \in 0..MaxNow
    /\ toInit \subseteq Realm \ {Genny}
    /\ serviceTokens \in [Realm -> MaybeToken]
    /\ call \in [Caller -> CallRecord]

\* The realm whose token a caller that asks for r is meant to get.
Meant(r) == IF devMode THEN Genny ELSE IF r # Genny THEN r ELSE MainRealm

\* Tokens never cross realms: what the map holds for a realm, Keycloak issued for that
\* realm, and what a call holds or returns is for the realm its caller meant, whatever
\* calls overlap (getServiceToken, generateServiceToken, init).
TokensStayInTheirRealm ==
    /\ \A r \in Realm : serviceTokens[r] # NoToken => serviceTokens[r].realm = r
    /\ \A c \in Caller : call[c].token # NoToken => call[c].token.realm = Meant(call[c].ask)

\* A token a call returns had Limit seconds left when the call judged it, or Keycloak
\* issued it alive to this very call: no caller gets a token on another call's judgement.
ReturnedTokenHadLife ==
    \A c \in Caller : LET k == call[c] IN
        k.pc = "done" /\ k.token # NoToken =>
            \/ k.token.exp - k.at >= Limit
            \/ k.own /\ k.token.exp > k.at
=============================================================================
