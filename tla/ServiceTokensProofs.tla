------------------------ MODULE ServiceTokensProofs ------------------------
(***************************************************************************)
(* The safety of the token cache for any realms, threads, lifetimes and    *)
(* clock: the inductive invariant IInv adds to the properties what a call  *)
(* knows at each of its steps.                                             *)
(***************************************************************************)
EXTENDS ServiceTokens, TLAPS

\* What holds of a call at each of its steps: it uses the key of the realm its caller
\* meant, holds only tokens of that realm, and knows how long they live.
CallInv(k) ==
    /\ k \in CallRecord
    /\ k.pc # "idle" => k.key = Meant(k.ask)
    /\ k.token # NoToken => k.token.realm = Meant(k.ask)
    /\ k.pc \in {"idle", "lookup"} => k.token = NoToken
    /\ k.pc = "store" => k.own /\ k.token # NoToken /\ k.token.exp > k.at
    /\ k.pc = "done" /\ k.token # NoToken =>
          \/ k.token.exp - k.at >= Limit
          \/ k.own /\ k.token.exp > k.at

StoredInv == \A r \in Realm : serviceTokens[r] # NoToken => serviceTokens[r].realm = r

IInv == TypeOK /\ StoredInv /\ \A c \in Caller : CallInv(call[c])

\* A token is never null, so its fields are those of a token record.
LEMMA TokenNotNull == NoToken \notin Token
  BY NoTokenAssumption DEF Token

LEMMA ResolveIsMeant == ASSUME TypeOK, NEW r \in Realm
                        PROVE  Resolve(r) = Meant(r) /\ Resolve(r) \in Realm
  BY RealmAssumption DEF TypeOK, Resolve, Meant

\* What Keycloak issues for r is a live token of r.
LEMMA IssuedToken == ASSUME TypeOK, NEW r \in Realm, NEW t \in Issue(r)
                     PROVE  t \in Token /\ t.realm = r /\ t.exp > now /\ t # NoToken
  <1>1. PICK life \in Lifetime : t = [realm |-> r, exp |-> now + life]
    BY DEF Issue
  <1>2. life \in Nat /\ life > 0 /\ now \in Nat
    BY TimeAssumption DEF TypeOK
  <1>3. t \in Token
    BY <1>1, <1>2 DEF Token
  <1> QED BY <1>1, <1>2, <1>3, TokenNotNull

LEMMA InitIInv == Init => IInv
  BY RealmAssumption, TimeAssumption
  DEF Init, IInv, TypeOK, StoredInv, CallInv, Idle, CallRecord, Step, MaybeToken, Token

\* A step of a call touches the record of that call alone and, when that call still
\* satisfies CallInv, keeps the invariant.
LEMMA OneCall == ASSUME IInv, NEW c \in Caller, NEW k,
                        call' = [call EXCEPT ![c] = k], CallInv(k),
                        UNCHANGED <<devMode, now, toInit>>,
                        serviceTokens' \in [Realm -> MaybeToken], StoredInv'
                 PROVE  IInv'
  <1>1. call' \in [Caller -> CallRecord]
    BY DEF IInv, TypeOK, CallInv
  <1>2. \A d \in Caller : call'[d] = call[d] \/ call'[d] = k
    BY DEF IInv, TypeOK
  <1>3. ASSUME NEW d \in Caller PROVE CallInv(call[d])'
    BY <1>2 DEF IInv, CallInv, Meant
  <1> QED BY <1>1, <1>3 DEF IInv, TypeOK

\* The judgement of a call splits on whether its token is reusable.
LEMMA JudgedCall == ASSUME NEW k \in CallRecord, CallInv(k), k.pc = "judge", now \in Nat
                    PROVE  CallInv([k EXCEPT !.pc = IF Reusable(k.token) THEN "done" ELSE "json",
                                             !.at = now])
  <1>1. CASE Reusable(k.token)
    <2> DEFINE n == [k EXCEPT !.pc = "done", !.at = now]
    <2>1. n \in CallRecord /\ n.pc = "done" /\ n.at = now /\ n.token = k.token
             /\ n.ask = k.ask /\ n.key = k.key
      BY DEF CallRecord, Step
    <2>2. k.token # NoToken /\ k.token.exp - now >= Limit
      BY <1>1 DEF Reusable
    <2>3. CallInv(n)
      BY <2>1, <2>2 DEF CallInv
    <2> QED BY <1>1, <2>3
  <1>2. CASE ~Reusable(k.token)
    <2> DEFINE n == [k EXCEPT !.pc = "json", !.at = now]
    <2>1. n \in CallRecord /\ n.pc = "json" /\ n.at = now /\ n.token = k.token
             /\ n.ask = k.ask /\ n.key = k.key
      BY DEF CallRecord, Step
    <2>2. CallInv(n)
      BY <2>1 DEF CallInv
    <2> QED BY <1>2, <2>2
  <1> QED BY <1>1, <1>2

LEMMA CallStepIInv == ASSUME IInv, NEW c \in Caller, CallStep(c)
                      PROVE  IInv'
  <1> DEFINE k == call[c]
  <1>k. k \in CallRecord /\ CallInv(k) /\ call \in [Caller -> CallRecord]
    BY DEF IInv, TypeOK
  <1>s. serviceTokens \in [Realm -> MaybeToken] /\ StoredInv /\ now \in Nat
    BY TimeAssumption DEF IInv, TypeOK
  <1>1. ASSUME NEW r \in Realm, Call(c, r) PROVE IInv'
    <2> DEFINE n == [pc |-> "lookup", ask |-> r, key |-> Resolve(r), token |-> NoToken,
                     own |-> FALSE, at |-> now]
    <2>1. CallInv(n)
      BY <1>s, ResolveIsMeant DEF IInv, CallInv, CallRecord, Step, MaybeToken
    <2>2. call' = [call EXCEPT ![c] = n]
      BY <1>1 DEF Call
    <2> QED BY <1>1, <1>s, <2>1, <2>2, OneCall DEF Call, StoredInv
  <1>2. CASE Lookup(c)
    <2>1. PICK t \in {serviceTokens[k.key], NoToken} :
             call' = [call EXCEPT ![c].pc = "judge", ![c].token = t]
      BY <1>2 DEF Lookup
    <2> DEFINE n == [k EXCEPT !.pc = "judge", !.token = t]
    <2>2. call' = [call EXCEPT ![c] = n]
      BY <1>k, <2>1 DEF CallRecord
    <2>3. CallInv(n)
      <3>1. k.pc = "lookup" /\ k.key \in Realm
        BY <1>2, <1>k DEF Lookup, CallRecord
      <3>2. t \in MaybeToken /\ (t # NoToken => t.realm = k.key)
        BY <1>s, <2>1, <3>1 DEF StoredInv, MaybeToken
      <3> QED BY <1>k, <3>1, <3>2 DEF CallInv, CallRecord, Step
    <2> QED BY <1>2, <1>s, <2>2, <2>3, OneCall DEF Lookup, StoredInv
  <1>3. CASE Judge(c)
    <2> DEFINE n == [k EXCEPT !.pc = IF Reusable(k.token) THEN "done" ELSE "json",
                              !.at = now]
    <2>1. call' = [call EXCEPT ![c] = n]
      BY <1>3, <1>k DEF Judge, CallRecord
    <2>2. CallInv(n)
      BY <1>3, <1>k, <1>s, JudgedCall DEF Judge
    <2> QED BY <1>3, <1>s, <2>1, <2>2, OneCall DEF Judge, StoredInv
  <1>4. CASE FindJson(c)
    <2>1. PICK n \in {[k EXCEPT !.pc = "login"], [k EXCEPT !.pc = "done", !.token = NoToken]} :
             call' = [call EXCEPT ![c] = n]
      <3>1. CASE call' = [call EXCEPT ![c].pc = "login"]
        BY <3>1, <1>k DEF CallRecord
      <3>2. CASE call' = [call EXCEPT ![c].pc = "done", ![c].token = NoToken]
        BY <3>2, <1>k DEF CallRecord
      <3> QED BY <1>4, <3>1, <3>2 DEF FindJson
    <2>2. CallInv(n)
      BY <1>4, <1>k, <2>1 DEF FindJson, CallInv, CallRecord, Step, MaybeToken
    <2> QED BY <1>4, <1>s, <2>1, <2>2, OneCall DEF FindJson, StoredInv
  <1>5. CASE LoginOk(c)
    <2>1. PICK t \in Issue(k.key) :
             call' = [call EXCEPT ![c].pc = "store", ![c].token = t,
                                  ![c].own = TRUE, ![c].at = now]
      BY <1>5 DEF LoginOk
    <2> DEFINE n == [k EXCEPT !.pc = "store", !.token = t, !.own = TRUE, !.at = now]
    <2>2. call' = [call EXCEPT ![c] = n]
      BY <1>k, <2>1 DEF CallRecord
    <2>3. k.pc = "login" /\ t \in Token /\ t.realm = k.key /\ t.exp > now /\ t # NoToken
      BY <1>5, <1>k, IssuedToken DEF LoginOk, IInv, CallRecord
    <2>4. CallInv(n)
      BY <1>k, <1>s, <2>3 DEF CallInv, CallRecord, Step, MaybeToken
    <2> QED BY <1>5, <1>s, <2>2, <2>4, OneCall DEF LoginOk, StoredInv
  <1>6. CASE LoginFails(c)
    <2> DEFINE n == [k EXCEPT !.pc = "done", !.token = NoToken]
    <2>1. call' = [call EXCEPT ![c] = n]
      BY <1>6, <1>k DEF LoginFails, CallRecord
    <2>2. CallInv(n)
      BY <1>6, <1>k DEF LoginFails, CallInv, CallRecord, Step, MaybeToken
    <2> QED BY <1>6, <1>s, <2>1, <2>2, OneCall DEF LoginFails, StoredInv
  <1>7. CASE StoreAccess(c)
    <2> DEFINE n == [k EXCEPT !.pc = "done"]
    <2>1. call' = [call EXCEPT ![c] = n]
      BY <1>7, <1>k DEF StoreAccess, CallRecord
    <2>2. k.pc = "store" /\ k.key \in Realm /\ k.token \in MaybeToken
      BY <1>7, <1>k DEF StoreAccess, CallRecord
    <2>3. CallInv(n) /\ k.token.realm = k.key
      BY <1>k, <2>2 DEF CallInv, CallRecord, Step
    <2>4. serviceTokens' \in [Realm -> MaybeToken] /\ StoredInv'
      BY <1>7, <1>s, <2>2, <2>3 DEF StoreAccess, StoreKey, StoredInv
    <2> QED BY <1>7, <2>1, <2>3, <2>4, OneCall DEF StoreAccess
  <1>8. CASE Return(c)
    <2>1. CallInv(Idle)
      BY RealmAssumption DEF CallInv, Idle, CallRecord, Step, MaybeToken
    <2> QED BY <1>8, <1>s, <2>1, OneCall DEF Return, StoredInv
  <1>9. CASE Throws(c)
    <2>1. CallInv(Idle)
      BY RealmAssumption DEF CallInv, Idle, CallRecord, Step, MaybeToken
    <2> QED BY <1>9, <1>s, <2>1, OneCall DEF Throws, StoredInv
  <1> QED BY <1>1, <1>2, <1>3, <1>4, <1>5, <1>6, <1>7, <1>8, <1>9 DEF CallStep

\* The steps of the startup thread and of the clock leave the calls alone.
LEMMA NextIInv == IInv /\ [Next]_vars => IInv'
  <1> SUFFICES ASSUME IInv, [Next]_vars PROVE IInv'
    OBVIOUS
  <1> USE DEF IInv, TypeOK, StoredInv, CallInv, Meant
  <1>1. ASSUME NEW r \in Realm, InitRealm(r) PROVE IInv'
    <2>1. \A t \in Issue(r) : t \in Token /\ t.realm = r
      BY IssuedToken
    <2> QED BY <1>1, <2>1 DEF InitRealm, MaybeToken
  <1>2. ASSUME NEW c \in Caller, CallStep(c) PROVE IInv'
    BY <1>2, CallStepIInv
  <1>3. CASE Tick
    BY <1>3, TimeAssumption DEF Tick
  <1>4. CASE UNCHANGED vars
    BY <1>4 DEF vars
  <1> QED BY <1>1, <1>2, <1>3, <1>4 DEF Next

\* IInv holds in every reachable state.
LEMMA SpecIInv == Spec => []IInv
  BY InitIInv, NextIInv, PTL DEF Spec

\* Every reachable state of the token cache is well typed.
THEOREM TokensTypeCorrect == Spec => []TypeOK
  <1>1. IInv => TypeOK  BY DEF IInv
  <1> QED BY SpecIInv, <1>1, PTL

\* No realm's token is ever stored for, held for or returned to another realm.
THEOREM TokensNeverCrossRealms == Spec => []TokensStayInTheirRealm
  <1>1. IInv => TokensStayInTheirRealm  BY DEF IInv, StoredInv, CallInv, TokensStayInTheirRealm
  <1> QED BY SpecIInv, <1>1, PTL

\* Every token a call returns was judged, or issued, by that call.
THEOREM ReturnedTokensHadLife == Spec => []ReturnedTokenHadLife
  <1>1. IInv => ReturnedTokenHadLife  BY DEF IInv, CallInv, ReturnedTokenHadLife
  <1> QED BY SpecIInv, <1>1, PTL
=============================================================================
