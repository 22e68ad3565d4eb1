------------------------- MODULE SessionClientProofs ------------------------
(***************************************************************************)
(* What SessionClient guarantees for any number of tabs, calls and tokens. *)
(***************************************************************************)
EXTENDS SessionClient, TLAPS

USE SessionAssumption

-----------------------------------------------------------------------------
(* Types.                                                                  *)

\* The pages a tab can be on.
LEMMA GuardedRoute ==
  ASSUME NEW route \in Routes
  PROVE  Guarded(route) \in Routes
BY DEF Guarded

Calling == [Tabs -> [Operations -> Call]]
Stored  == [access : Token, refresh : Token, saved : Saved]

\* What the helpers of the actions leave in the variables they set.
LEMMA PutTyped ==
  ASSUME TypeOK, NEW t \in Tabs, NEW s \in Store, Put(t, s)
  PROVE  store' \in [Tabs -> Store] /\ storage' \in Stored
BY DEF TypeOK, Put, Store, Saved, Stored

LEMMA PutWithTyped ==
  ASSUME TypeOK, NEW t \in Tabs, NEW s \in Store, NEW pair \in Token, PutWith(t, s, pair)
  PROVE  store' \in [Tabs -> Store] /\ storage' \in Stored
BY DEF TypeOK, PutWith, Store, Saved, Stored

LEMMA CallTyped ==
  ASSUME TypeOK, NEW t \in Tabs, NEW o \in Operations, NEW c \in Call,
         call' = [call EXCEPT ![t][o] = c]
  PROVE  call' \in Calling
<1>1. [call[t] EXCEPT ![o] = c] \in [Operations -> Call]
  BY DEF TypeOK
<1>2. call' = [call EXCEPT ![t] = [call[t] EXCEPT ![o] = c]]
  BY DEF TypeOK
<1> QED
  BY <1>1, <1>2 DEF TypeOK, Calling

LEMMA IdleTyped == Idle \in Call
BY DEF Idle, Call, Phases, Token, None

LEMMA GoesTyped ==
  ASSUME TypeOK, NEW t \in Tabs, NEW o \in Operations, NEW phase \in Phases, NEW token \in Token,
         Goes(t, o, phase, token)
  PROVE  call' \in Calling
<1>1. [at |-> phase, with |-> token, got |-> None] \in Call
  BY DEF Call, Token, None
<1> QED
  BY <1>1, CallTyped DEF Goes

LEMMA EndsTyped ==
  ASSUME TypeOK, NEW t \in Tabs, NEW o \in Operations, Ends(t, o)
  PROVE  call' \in Calling
BY IdleTyped, CallTyped DEF Ends

LEMMA AnswerTyped ==
  ASSUME TypeOK, NEW t \in Tabs, NEW o \in Operations, NEW phase \in Phases, NEW pair \in Token,
         Answer(t, o, phase, pair)
  PROVE  call' \in Calling
<1>1. call[t][o] \in Call
  BY DEF TypeOK
<1>2. [call[t][o] EXCEPT !.at = phase, !.got = pair] \in Call
  BY <1>1 DEF Call
<1>3. call' = [call EXCEPT ![t][o] = [call[t][o] EXCEPT !.at = phase, !.got = pair]]
  BY DEF Answer, TypeOK
<1> QED
  BY <1>2, <1>3, CallTyped

\* The states of a store that the operations make of the one before.
LEMMA StoreTyped ==
  ASSUME NEW s \in Store, NEW in \in BOOLEAN
  PROVE  /\ Signed(s, in) \in Store /\ Quiet(s) \in Store /\ Quiet(Signed(s, in)) \in Store
         /\ [s EXCEPT !.isLoading = TRUE] \in Store
         /\ WithUser(s) \in Store /\ Quiet(WithUser(s)) \in Store
BY DEF Store, Signed, Quiet, WithUser

LEMMA CallParts ==
  ASSUME TypeOK, NEW t \in Tabs, NEW o \in Operations
  PROVE  call[t][o].at \in Phases /\ call[t][o].with \in Token /\ call[t][o].got \in Token
<1>1. call[t][o] \in Call
  BY DEF TypeOK
<1> QED
  BY <1>1 DEF Call

LEMMA StorageParts ==
  ASSUME TypeOK
  PROVE  /\ storage.access \in Token /\ storage.refresh \in Token /\ storage.saved \in Saved
         /\ storage \in Stored
BY DEF TypeOK, Stored

\* Every step keeps the types of all variables.
LEMMA TypePreserved ==
  TypeOK /\ [Next]_vars => TypeOK'
<1> SUFFICES ASSUME TypeOK, [Next]_vars PROVE TypeOK'
  OBVIOUS
<1>t. ASSUME /\ answers' \in Answers /\ storage' \in Stored /\ cookie' \in Token
             /\ expired' \subseteq Pairs /\ ended' \subseteq Pairs /\ sessions' \subseteq Pairs /\ lost' \subseteq Token
             /\ reloaded' \subseteq Tabs /\ issued' \in 0..MaxPairs
             /\ store' \in [Tabs -> Store] /\ call' \in Calling
             /\ page' \in [Tabs -> Routes] /\ faults' \in 0..MaxFaults
      PROVE  TypeOK'
  BY <1>t DEF TypeOK, Stored, Calling
<1>o. /\ {"login", "logout", "refreshUser", "checkAuth"} = Operations
      /\ {"login", "logout", "refresh", "rotate", "me", "ok", "failed", "mine", "denied"} \subseteq Phases
      /\ None \in Token /\ 0..MaxPairs = Token /\ Pairs \subseteq Token
  BY DEF Operations, Phases, Token, None, Pairs
<1>k. /\ answers \in Answers /\ storage \in Stored /\ cookie \in Token
      /\ expired \subseteq Pairs /\ ended \subseteq Pairs /\ sessions \subseteq Pairs /\ lost \subseteq Token
      /\ reloaded \subseteq Tabs /\ issued \in 0..MaxPairs
      /\ store \in [Tabs -> Store] /\ call \in Calling
      /\ page \in [Tabs -> Routes] /\ faults \in 0..MaxFaults
  BY DEF TypeOK, Stored, Calling
<1>s. ASSUME NEW t \in Tabs PROVE store[t] \in Store
  BY DEF TypeOK
<1>n. ASSUME issued < MaxPairs PROVE issued + 1 \in Pairs /\ issued + 1 \in 0..MaxPairs
  BY <1>n, <1>k DEF Pairs
<1>f. ASSUME faults < MaxFaults PROVE faults + 1 \in 0..MaxFaults
  BY <1>f, <1>k
<1>r. ASSUME NEW route \in Routes PROVE Guarded(route) \in Routes
  BY <1>r, GuardedRoute
<1>1. ASSUME NEW t \in Tabs, Login(t) PROVE TypeOK'
  <2>1. store' \in [Tabs -> Store] /\ storage' \in Stored
    BY <1>1, <1>s, StoreTyped, PutTyped DEF Login
  <2>2. call' \in Calling
    BY <1>1, <1>o, GoesTyped DEF Login
  <2> QED
    BY <1>1, <1>t, <1>k, <2>1, <2>2 DEF Login, server
<1>2. ASSUME NEW t \in Tabs, Logout(t) PROVE TypeOK'
  <2>1. CASE /\ Put(t, [store[t] EXCEPT !.isLoading = TRUE])
             /\ Goes(t, "logout", "logout", storage.access) /\ UNCHANGED cookie
    <3>1. store' \in [Tabs -> Store] /\ storage' \in Stored
      BY <2>1, <1>s, StoreTyped, PutTyped
    <3>2. call' \in Calling
      BY <2>1, <1>o, StorageParts, GoesTyped
    <3> QED
      BY <1>2, <2>1, <1>t, <1>k, <3>1, <3>2 DEF Logout, server
  <2>2. CASE PutWith(t, Quiet(Signed(store[t], FALSE)), None) /\ SetCookie(None) /\ UNCHANGED call
    <3>1. store' \in [Tabs -> Store] /\ storage' \in Stored
      BY <2>2, <1>s, <1>o, StoreTyped, PutWithTyped
    <3> QED
      BY <1>2, <2>2, <1>t, <1>k, <1>o, <3>1 DEF Logout, SetCookie, server
  <2> QED
    BY <1>2, <2>1, <2>2 DEF Logout
<1>3. ASSUME NEW t \in Tabs, RefreshUser(t) PROVE TypeOK'
  <2>1. CASE Goes(t, "refreshUser", "me", storage.access) /\ UNCHANGED <<store, storage>>
    <3>1. call' \in Calling
      BY <2>1, <1>o, StorageParts, GoesTyped
    <3> QED
      BY <1>3, <2>1, <1>t, <1>k, <3>1 DEF RefreshUser, server
  <2>2. CASE Put(t, Signed(store[t], FALSE)) /\ UNCHANGED call
    <3>1. store' \in [Tabs -> Store] /\ storage' \in Stored
      BY <2>2, <1>s, StoreTyped, PutTyped
    <3> QED
      BY <1>3, <2>2, <1>t, <1>k, <3>1 DEF RefreshUser, server
  <2> QED
    BY <1>3, <2>1, <2>2 DEF RefreshUser
<1>4. ASSUME NEW t \in Tabs, CheckAuth(t) PROVE TypeOK'
  <2>1. ASSUME NEW phase \in {"me", "refresh"}, NEW token \in Token,
               Put(t, [store[t] EXCEPT !.isLoading = TRUE]), Goes(t, "checkAuth", phase, token)
        PROVE  TypeOK'
    <3>1. store' \in [Tabs -> Store] /\ storage' \in Stored
      BY <2>1, <1>s, StoreTyped, PutTyped
    <3>2. call' \in Calling
      BY <2>1, <1>o, GoesTyped
    <3> QED
      BY <1>4, <2>1, <1>t, <1>k, <3>1, <3>2 DEF CheckAuth, server
  <2>2. ASSUME Put(t, Quiet(Signed(store[t], FALSE))), UNCHANGED call
        PROVE  TypeOK'
    <3>1. store' \in [Tabs -> Store] /\ storage' \in Stored
      BY <2>2, <1>s, StoreTyped, PutTyped
    <3> QED
      BY <1>4, <2>2, <1>t, <1>k, <3>1 DEF CheckAuth, server
  <2> QED
    BY <1>4, <2>1, <2>2, StorageParts DEF CheckAuth
<1>5. ASSUME NEW t \in Tabs, Serves(t) PROVE TypeOK'
  <2>1. CASE ServeLogin(t)
    <3>1. call' \in Calling
      BY <2>1, <1>o, <1>n, AnswerTyped DEF ServeLogin
    <3> QED
      BY <2>1, <1>t, <1>k, <1>o, <1>n, <1>f, <3>1 DEF ServeLogin, clientSide
  <2>2. CASE ServeLogout(t)
    BY <2>2, <1>t, <1>k, <1>o, AnswerTyped DEF ServeLogout, clientSide
  <2>3. CASE ServeRefreshRead(t)
    BY <2>3, <1>t, <1>k, <1>o, AnswerTyped DEF ServeRefreshRead, clientSide
  <2>4. CASE ServeRefreshWrite(t)
    <3>1. call' \in Calling
      BY <2>4, <1>o, <1>n, AnswerTyped DEF ServeRefreshWrite
    <3>2. call[t]["checkAuth"].with \in Token
      BY <1>o, CallParts
    <3> QED
      BY <2>4, <1>t, <1>k, <1>o, <1>n, <1>f, <3>1, <3>2 DEF ServeRefreshWrite, clientSide
  <2>5. ASSUME NEW o \in {"refreshUser", "checkAuth"}, ServeMe(t, o) PROVE TypeOK'
    BY <2>5, <1>t, <1>k, <1>o, AnswerTyped DEF ServeMe, clientSide
  <2> QED
    BY <1>5, <2>1, <2>2, <2>3, <2>4, <2>5 DEF Serves
<1>6. ASSUME NEW t \in Tabs, Settles(t) PROVE TypeOK'
  <2>1. CASE AnswerLogin(t)
    <3>1. call' \in Calling /\ call[t]["login"].got \in Token
      BY <2>1, <1>o, EndsTyped, CallParts DEF AnswerLogin
    <3>2. store' \in [Tabs -> Store] /\ storage' \in Stored
      BY <2>1, <1>s, <3>1, StoreTyped, PutTyped, PutWithTyped DEF AnswerLogin
    <3>3. cookie' \in Token /\ page' \in [Tabs -> Routes]
      BY <2>1, <1>k, <3>1 DEF AnswerLogin, SetCookie
    <3> QED
      BY <2>1, <1>t, <1>k, <3>1, <3>2, <3>3 DEF AnswerLogin, server
  <2>2. CASE AnswerLogout(t)
    <3>1. call' \in Calling
      BY <2>2, <1>o, EndsTyped DEF AnswerLogout
    <3>2. store' \in [Tabs -> Store] /\ storage' \in Stored
      BY <2>2, <1>s, <1>o, StoreTyped, PutWithTyped DEF AnswerLogout
    <3> QED
      BY <2>2, <1>t, <1>k, <1>o, <3>1, <3>2 DEF AnswerLogout, SetCookie, server
  <2>3. CASE AnswerRefreshUser(t)
    <3>1. call' \in Calling
      BY <2>3, <1>o, EndsTyped DEF AnswerRefreshUser
    <3>2. store' \in [Tabs -> Store] /\ storage' \in Stored
      BY <2>3, <1>s, StoreTyped, PutTyped DEF AnswerRefreshUser
    <3> QED
      BY <2>3, <1>t, <1>k, <3>1, <3>2 DEF AnswerRefreshUser, server
  <2>4. CASE AnswerRefresh(t)
    <3>1. call[t]["checkAuth"].got \in Token /\ call[t]["checkAuth"].with \in Token
      BY <1>o, CallParts
    <3>2. CASE /\ setTokens(call[t]["checkAuth"].got) /\ SetCookie(call[t]["checkAuth"].got)
               /\ Goes(t, "checkAuth", "me", call[t]["checkAuth"].got)
               /\ UNCHANGED <<store, lost>>
      <4>1. call' \in Calling
        BY <3>1, <3>2, <1>o, GoesTyped
      <4>2. storage' \in Stored /\ cookie' \in Token
        BY <3>1, <3>2, <1>k DEF setTokens, SetCookie, Stored
      <4> QED
        BY <2>4, <1>t, <1>k, <3>2, <4>1, <4>2 DEF AnswerRefresh, server
    <3>3. CASE /\ Put(t, Quiet(Signed(store[t], FALSE)))
               /\ lost' = IF call[t]["checkAuth"].at = "ok"
                            THEN lost \cup {call[t]["checkAuth"].with} ELSE lost
               /\ Ends(t, "checkAuth") /\ UNCHANGED cookie
      <4>1. call' \in Calling
        BY <3>3, <1>o, EndsTyped
      <4>2. store' \in [Tabs -> Store] /\ storage' \in Stored
        BY <3>3, <1>s, StoreTyped, PutTyped
      <4>3. lost' \subseteq Token
        BY <3>1, <3>3, <1>k
      <4> QED
        BY <2>4, <1>t, <1>k, <3>3, <4>1, <4>2, <4>3 DEF AnswerRefresh, server
    <3> QED
      BY <2>4, <3>2, <3>3 DEF AnswerRefresh
  <2>5. CASE AnswerCheckAuth(t)
    <3>1. call' \in Calling
      BY <2>5, <1>o, EndsTyped DEF AnswerCheckAuth
    <3>2. store' \in [Tabs -> Store] /\ storage' \in Stored
      BY <2>5, <1>s, StoreTyped, PutTyped DEF AnswerCheckAuth
    <3> QED
      BY <2>5, <1>t, <1>k, <3>1, <3>2 DEF AnswerCheckAuth, server
  <2> QED
    BY <1>6, <2>1, <2>2, <2>3, <2>4, <2>5 DEF Settles
<1>7. ASSUME NEW t \in Tabs, Reload(t) PROVE TypeOK'
  <2>1. Loaded(storage.saved) \in Store
    BY StorageParts DEF Loaded, Store, Saved
  <2>2. call' \in Calling
    BY <1>7, <1>k, IdleTyped DEF Reload, Calling
  <2>3. page' \in [Tabs -> Routes] /\ store' \in [Tabs -> Store]
    BY <1>7, <1>k, <1>r, <2>1 DEF Reload
  <2>4. lost' \subseteq Token
    BY <1>7, <1>k, <1>o, CallParts DEF Reload
  <2> QED
    BY <1>7, <1>t, <1>k, <1>f, <2>2, <2>3, <2>4 DEF Reload, server
<1>8. ASSUME NEW t \in Tabs, NEW route \in Routes, Visit(t, route) PROVE TypeOK'
  BY <1>8, <1>t, <1>k, <1>r DEF Visit, server
<1>9. ASSUME NEW t \in Tabs, NEW o \in Operations, Lose(t, o) PROVE TypeOK'
  <2>1. call' \in Calling
    BY <1>9, <1>o, AnswerTyped DEF Lose
  <2>2. lost' \subseteq Token
    BY <1>9, <1>k, CallParts DEF Lose
  <2> QED
    BY <1>9, <1>t, <1>k, <1>f, <2>1, <2>2 DEF Lose, server
<1>10. ASSUME NEW p \in Pairs, Expire(p) PROVE TypeOK'
  BY <1>10, <1>t, <1>k DEF Expire, server
<1>11. ASSUME NEW p \in Pairs, EndSessions(p) PROVE TypeOK'
  <2>1. 1..p \subseteq Pairs
    BY DEF Pairs
  <2> QED
    BY <1>11, <1>t, <1>k, <1>f, <2>1 DEF EndSessions
<1>12. CASE UNCHANGED vars
  BY <1>12, <1>t, <1>k DEF vars, server
<1> QED
  BY <1>1, <1>2, <1>3, <1>4, <1>5, <1>6, <1>7, <1>8, <1>9, <1>10, <1>11, <1>12 DEF Next, Calls

\* The variables of the browser and of the service keep their types.
THEOREM TypeCorrect == Spec => []TypeOK
<1>1. Init => TypeOK
  BY DEF Init, TypeOK, Store, Saved, Call, Operations, Phases, Token, Pairs, None, Idle,
         Loaded, SignedOut
<1> QED
  BY <1>1, TypePreserved, PTL DEF Spec

-----------------------------------------------------------------------------
(* A service whose answers are bare.                                       *)

\* Nothing a guard could take for a session is ever kept in the browser.
NothingKept ==
  answers = "bare" => /\ storage.access = None /\ storage.refresh = None
                      /\ cookie = None
                      /\ \A t \in Tabs : page[t] \in publicRoutes

\* The guard keeps a browser without a cookie on the public pages.
LEMMA NoCookieStaysOutside ==
  ASSUME cookie = None, NEW route \in Routes
  PROVE  Guarded(route) \in publicRoutes
BY DEF Guarded, CookieSent, publicRoutes, None

LEMMA NothingKeptPreserved ==
  TypeOK /\ NothingKept /\ [Next]_vars => NothingKept'
<1> SUFFICES ASSUME TypeOK, NothingKept, [Next]_vars, answers' = "bare"
             PROVE  /\ storage'.access = None /\ storage'.refresh = None
                    /\ cookie' = None
                    /\ \A t \in Tabs : page'[t] \in publicRoutes
  BY DEF NothingKept
<1>1. answers = "bare"
  BY DEF Next, Calls, Login, Logout, RefreshUser, CheckAuth, Serves, ServeLogin, ServeLogout,
         ServeRefreshRead, ServeRefreshWrite, ServeMe, Settles, AnswerLogin, AnswerLogout,
         AnswerRefreshUser, AnswerRefresh, AnswerCheckAuth, Reload, Visit, Lose, Expire,
         EndSessions, server, clientSide, vars
<1>2. /\ storage.access = None /\ storage.refresh = None /\ cookie = None
      /\ \A t \in Tabs : page[t] \in publicRoutes
  BY <1>1 DEF NothingKept
<1> USE <1>1, <1>2 DEF TypeOK, Saved
<1>3. ASSUME NEW t \in Tabs, Calls(t)
      PROVE  storage'.access = None /\ storage'.refresh = None /\ cookie' = None /\ page' = page
  <2>1. ASSUME NEW s, Put(t, s)
        PROVE  storage'.access = None /\ storage'.refresh = None
    BY <2>1 DEF Put
  <2>2. ASSUME NEW s, PutWith(t, s, None)
        PROVE  storage'.access = None /\ storage'.refresh = None
    BY <2>2 DEF PutWith
  <2>3. CASE Login(t)
    BY <2>1, <2>3 DEF Login
  <2>4. CASE Logout(t)
    BY <2>1, <2>2, <2>4 DEF Logout, SetCookie
  <2>5. CASE RefreshUser(t)
    BY <2>1, <2>5 DEF RefreshUser
  <2>6. CASE CheckAuth(t)
    BY <2>1, <2>6 DEF CheckAuth
  <2> QED
    BY <1>3, <2>3, <2>4, <2>5, <2>6 DEF Calls
<1>4. ASSUME NEW t \in Tabs, Serves(t)
      PROVE  UNCHANGED <<storage, cookie, page>>
  BY <1>4 DEF Serves, ServeLogin, ServeLogout, ServeRefreshRead, ServeRefreshWrite, ServeMe, clientSide
<1>5. ASSUME NEW t \in Tabs, Settles(t)
      PROVE  storage'.access = None /\ storage'.refresh = None /\ cookie' = None /\ page' = page
  <2>1. ASSUME NEW s, Put(t, s)
        PROVE  storage'.access = None /\ storage'.refresh = None
    BY <2>1 DEF Put
  <2>2. ASSUME NEW s, PutWith(t, s, None)
        PROVE  storage'.access = None /\ storage'.refresh = None
    BY <2>2 DEF PutWith
  <2>3. CASE AnswerLogin(t)
    BY <2>1, <2>3 DEF AnswerLogin
  <2>4. CASE AnswerLogout(t)
    BY <2>2, <2>4 DEF AnswerLogout, SetCookie
  <2>5. CASE AnswerRefreshUser(t)
    BY <2>1, <2>5 DEF AnswerRefreshUser
  <2>6. CASE AnswerRefresh(t)
    BY <2>1, <2>6 DEF AnswerRefresh
  <2>7. CASE AnswerCheckAuth(t)
    BY <2>1, <2>7 DEF AnswerCheckAuth
  <2> QED
    BY <1>5, <2>3, <2>4, <2>5, <2>6, <2>7 DEF Settles
<1>6. ASSUME NEW t \in Tabs, NEW route \in Routes,
             page' = [page EXCEPT ![t] = Guarded(route)], UNCHANGED <<storage, cookie>>
      PROVE  /\ storage'.access = None /\ storage'.refresh = None /\ cookie' = None
             /\ \A u \in Tabs : page'[u] \in publicRoutes
  BY <1>6, NoCookieStaysOutside
<1>7. ASSUME NEW t \in Tabs, Reload(t) PROVE page[t] \in Routes
  OBVIOUS
<1> QED
  BY <1>3, <1>4, <1>5, <1>6, <1>7 DEF Next, Reload, Visit, Lose, Expire, EndSessions, vars

\* Against a service that answers as the auth service of this repository does,
\* nobody gets past the guard, however many tabs sign in, refresh and reload.
THEOREM BareAdmitsNobody == Spec => []BareServiceAdmitsNobody
<1>1. Init => NothingKept
  BY DEF Init, NothingKept, publicRoutes
<1>2. NothingKept => BareServiceAdmitsNobody
  BY DEF NothingKept, BareServiceAdmitsNobody
<1> QED
  BY <1>1, <1>2, TypeCorrect, NothingKeptPreserved, PTL DEF Spec

-----------------------------------------------------------------------------
(* The refresh token in localStorage.                                      *)

\* An answer that carries a pair, not yet used; a refresh that the service has
\* not yet answered; one whose answer is on its way.
Holding(t, o) == o \in {"login", "checkAuth"} /\ call[t][o].at = "ok"
Spending(t)   == call[t]["checkAuth"].at \in {"refresh", "rotate"}
Replacing(t)  == call[t]["checkAuth"].at = "ok"

\* What is stored or sent was issued.
TokensIssued ==
  /\ storage.refresh \in 0..issued
  /\ \A t \in Tabs : Spending(t) => call[t]["checkAuth"].with \in 1..issued

\* A pair on its way to a tab is good, in no other answer, and, since no tab
\* has stored it, in no refresh.
FreshPair(t, o) ==
  LET p == call[t][o].got IN
  /\ p \in 1..issued /\ p \in sessions \cup lost /\ p # storage.refresh
  /\ \A u \in Tabs : Spending(u) => call[u]["checkAuth"].with # p
  /\ \A u \in Tabs, q \in Operations : Holding(u, q) /\ call[u][q].got = p => u = t /\ q = o

PairsFresh == \A t \in Tabs, o \in Operations : Holding(t, o) => FreshPair(t, o)

RefreshInv == TypeOK /\ TokensIssued /\ PairsFresh /\ StoredRefreshWorks

\* Steps after which no answer carries a pair and no refresh is sent that was
\* not before, and nothing good is lost, keep the invariant.
LEMMA QuietStep ==
  ASSUME RefreshInv, TypeOK',
         storage'.refresh \in {storage.refresh, None},
         sessions \cup lost \subseteq sessions' \cup lost', lost \subseteq lost',
         ended \subseteq ended', issued \in 0..issued',
         \A t \in Tabs, o \in Operations : Holding(t, o)' =>
            Holding(t, o) /\ call'[t][o].got = call[t][o].got,
         \A t \in Tabs : Spending(t)' =>
            \/ Spending(t) /\ call'[t]["checkAuth"].with = call[t]["checkAuth"].with
            \/ storage.refresh # None /\ call'[t]["checkAuth"].with = storage.refresh,
         \A t \in Tabs : Replacing(t) =>
            \/ Replacing(t)' /\ call'[t]["checkAuth"].with = call[t]["checkAuth"].with
            \/ storage'.refresh = None
            \/ call[t]["checkAuth"].with \in lost'
  PROVE  RefreshInv'
<1>1. issued \in Nat /\ issued' \in Nat
  BY DEF RefreshInv, TypeOK
<1>2. TokensIssued'
  BY <1>1 DEF RefreshInv, TokensIssued, None
<1>3. PairsFresh'
  BY <1>1 DEF RefreshInv, TokensIssued, PairsFresh, FreshPair, None
<1>4. StoredRefreshWorks'
  BY DEF RefreshInv, StoredRefreshWorks, Replacing, None
<1> QED
  BY <1>2, <1>3, <1>4 DEF RefreshInv

\* What a step makes of the calls.
LEMMA AnswerParts ==
  ASSUME TypeOK, NEW t \in Tabs, NEW o \in Operations, NEW phase, NEW pair,
         Answer(t, o, phase, pair)
  PROVE  /\ call'[t][o].at = phase /\ call'[t][o].got = pair
         /\ call'[t][o].with = call[t][o].with
         /\ \A u \in Tabs, q \in Operations : u # t \/ q # o => call'[u][q] = call[u][q]
BY DEF TypeOK, Call, Answer

LEMMA GoesParts ==
  ASSUME TypeOK, NEW t \in Tabs, NEW o \in Operations, NEW phase, NEW token,
         Goes(t, o, phase, token)
  PROVE  /\ call'[t][o].at = phase /\ call'[t][o].with = token
         /\ \A u \in Tabs, q \in Operations : u # t \/ q # o => call'[u][q] = call[u][q]
BY DEF TypeOK, Goes

LEMMA EndsParts ==
  ASSUME TypeOK, NEW t \in Tabs, NEW o \in Operations, Ends(t, o)
  PROVE  /\ call'[t][o].at = "idle"
         /\ \A u \in Tabs, q \in Operations : u # t \/ q # o => call'[u][q] = call[u][q]
BY DEF TypeOK, Ends, Idle

\* The pair of a new session or of a refresh is unlike all that are about.
LEMMA IssueStep ==
  ASSUME RefreshInv, TypeOK', NEW t \in Tabs, NEW o \in {"login", "checkAuth"}, NEW gone,
         issued' = issued + 1, Answer(t, o, "ok", issued + 1),
         \/ sessions' = (sessions \ {gone}) \cup {issued + 1} /\ lost' = lost
         \/ sessions' = sessions \ {gone} /\ lost' = lost \cup {issued + 1},
         UNCHANGED <<storage, ended>>,
         \/ o = "login" /\ gone = None
         \/ o = "checkAuth" /\ Spending(t) /\ gone = call[t][o].with
  PROVE  RefreshInv'
<1>0. o \in Operations /\ issued \in Nat
  BY DEF Operations, RefreshInv, TypeOK
<1>1. /\ call'[t][o].at = "ok" /\ call'[t][o].got = issued + 1
      /\ call'[t][o].with = call[t][o].with
      /\ \A u \in Tabs, q \in Operations : u # t \/ q # o => call'[u][q] = call[u][q]
  BY <1>0, AnswerParts DEF RefreshInv
<1>c. "checkAuth" \in Operations
  BY DEF Operations
<1>2. \A u \in Tabs : Spending(u)' => Spending(u) /\ call'[u]["checkAuth"] = call[u]["checkAuth"]
  BY <1>1, <1>c DEF Spending
<1>3. TokensIssued'
  BY <1>0, <1>2 DEF RefreshInv, TokensIssued
<1>4. ASSUME NEW u \in Tabs, NEW q \in Operations, Holding(u, q)' PROVE FreshPair(u, q)'
  <2>1. CASE u = t /\ q = o
    <3>1. \A v \in Tabs, r \in Operations : Holding(v, r) => call[v][r].got \in 1..issued
      BY DEF RefreshInv, PairsFresh, FreshPair
    <3>2. \A v \in Tabs, r \in Operations :
             Holding(v, r)' /\ call'[v][r].got = issued + 1 => v = t /\ r = o
      BY <1>0, <1>1, <3>1 DEF Holding
    <3>3. issued + 1 \in 1..(issued + 1) /\ issued + 1 \in sessions' \cup lost'
      BY <1>0
    <3>4. issued + 1 # storage.refresh /\ \A v \in Tabs : Spending(v) => call[v]["checkAuth"].with # issued + 1
      BY <1>0 DEF RefreshInv, TokensIssued
    <3> QED
      BY <1>1, <1>2, <2>1, <3>2, <3>3, <3>4 DEF FreshPair
  <2>2. CASE ~(u = t /\ q = o)
    <3>1. Holding(u, q) /\ call'[u][q] = call[u][q]
      BY <1>1, <1>4, <2>2 DEF Holding
    <3>2. FreshPair(u, q)
      BY <3>1 DEF RefreshInv, PairsFresh
    <3>3. call[u][q].got # None /\ call[u][q].got # gone
      BY <1>0, <3>2 DEF FreshPair, None
    <3>4. call[u][q].got \in sessions' \cup lost'
      BY <3>2, <3>3 DEF FreshPair
    <3>5. \A v \in Tabs, r \in Operations :
             Holding(v, r)' /\ call'[v][r].got = call[u][q].got => v = u /\ r = q
      BY <1>0, <1>1, <3>2 DEF FreshPair, Holding
    <3> QED
      BY <1>0, <1>2, <3>1, <3>2, <3>4, <3>5 DEF FreshPair
  <2> QED
    BY <2>1, <2>2
<1>5. StoredRefreshWorks'
  <2>1. ASSUME storage.refresh # None, storage.refresh \notin sessions', storage.refresh \notin ended
        PROVE  \/ storage.refresh \in lost'
               \/ \E u \in Tabs : call'[u]["checkAuth"].at = "ok" /\ call'[u]["checkAuth"].with = storage.refresh
    <3>1. CASE storage.refresh = gone
      BY <1>1, <2>1, <3>1
    <3>2. CASE storage.refresh # gone
      <4>1. storage.refresh \notin sessions
        BY <2>1, <3>2
      <4>2. PICK u \in Tabs : \/ storage.refresh \in lost
                              \/ /\ call[u]["checkAuth"].at = "ok"
                                 /\ call[u]["checkAuth"].with = storage.refresh
        BY <2>1, <4>1 DEF RefreshInv, StoredRefreshWorks
      <4>3. u # t \/ o # "checkAuth" \/ storage.refresh \in lost
        BY <4>2 DEF Spending
      <4> QED
        BY <1>1, <1>c, <4>2, <4>3
    <3> QED
      BY <3>1, <3>2
  <2> QED
    BY <2>1 DEF StoredRefreshWorks
<1> QED
  BY <1>3, <1>4, <1>5 DEF RefreshInv, PairsFresh

\* A tab that stores the pair of an answer it uses.
LEMMA StoreStep ==
  ASSUME RefreshInv, TypeOK', NEW t \in Tabs, NEW o \in Operations, Holding(t, o),
         storage'.refresh = call[t][o].got,
         call'[t][o].at \in {"idle", "me"},
         \A u \in Tabs, q \in Operations : u # t \/ q # o => call'[u][q] = call[u][q],
         UNCHANGED <<ended, sessions, lost, issued>>
  PROVE  RefreshInv'
<1>1. FreshPair(t, o) /\ issued \in Nat
  BY DEF RefreshInv, PairsFresh, TypeOK
<1>c. "checkAuth" \in Operations
  BY DEF Operations
<1>2. \A u \in Tabs : Spending(u)' => Spending(u) /\ call'[u]["checkAuth"] = call[u]["checkAuth"]
  BY <1>c DEF Spending
<1>3. TokensIssued'
  BY <1>1, <1>2 DEF RefreshInv, TokensIssued, FreshPair
<1>4. ASSUME NEW u \in Tabs, NEW q \in Operations, Holding(u, q)' PROVE FreshPair(u, q)'
  <2>1. Holding(u, q) /\ call'[u][q] = call[u][q] /\ ~(u = t /\ q = o)
    BY <1>4 DEF Holding
  <2>2. FreshPair(u, q)
    BY <2>1 DEF RefreshInv, PairsFresh
  <2>3. call[u][q].got # call[t][o].got
    BY <1>1, <2>1 DEF FreshPair
  <2>4. \A v \in Tabs, r \in Operations :
           Holding(v, r)' => Holding(v, r) /\ call'[v][r] = call[v][r]
    BY DEF Holding
  <2> QED
    BY <1>2, <2>1, <2>2, <2>3, <2>4 DEF FreshPair
<1>5. StoredRefreshWorks'
  BY <1>1 DEF FreshPair, StoredRefreshWorks
<1> QED
  BY <1>3, <1>4, <1>5 DEF RefreshInv, PairsFresh

LEMMA RefreshPreserved ==
  RefreshInv /\ [Next]_vars => RefreshInv'
<1> SUFFICES ASSUME RefreshInv, [Next]_vars PROVE RefreshInv'
  OBVIOUS
<1>y. TypeOK /\ TypeOK'
  BY TypePreserved DEF RefreshInv
<1>c. /\ "login" \in Operations /\ "logout" \in Operations
      /\ "refreshUser" \in Operations /\ "checkAuth" \in Operations
      /\ issued \in Nat /\ issued \in 0..issued
  BY <1>y DEF Operations, TypeOK
<1>u. ASSUME NEW t \in Tabs, NEW s, Put(t, s) PROVE storage'.refresh = storage.refresh
  BY <1>u DEF Put
<1>w. ASSUME NEW t \in Tabs, NEW s, NEW pair, PutWith(t, s, pair) PROVE storage'.refresh = pair
  BY <1>w DEF PutWith
<1>1. ASSUME NEW t \in Tabs, Login(t) PROVE RefreshInv'
  <2>1. /\ storage'.refresh = storage.refresh /\ UNCHANGED <<ended, sessions, lost, issued>>
        /\ call'[t]["login"].at = "login"
        /\ \A u \in Tabs, q \in Operations : u # t \/ q # "login" => call'[u][q] = call[u][q]
    BY <1>1, <1>y, <1>c, <1>u, GoesParts DEF Login, server
  <2> QED
    BY <1>y, <1>c, <2>1, QuietStep DEF Holding, Spending, Replacing
<1>2. ASSUME NEW t \in Tabs, Logout(t) PROVE RefreshInv'
  <2>1. /\ storage'.refresh \in {storage.refresh, None} /\ UNCHANGED <<ended, sessions, lost, issued>>
        /\ \A u \in Tabs, q \in Operations : u # t \/ q # "logout" => call'[u][q] = call[u][q]
    BY <1>2, <1>y, <1>c, <1>u, <1>w, GoesParts DEF Logout, server
  <2> QED
    BY <1>y, <1>c, <2>1, QuietStep DEF Holding, Spending, Replacing
<1>3. ASSUME NEW t \in Tabs, RefreshUser(t) PROVE RefreshInv'
  <2>1. /\ storage'.refresh = storage.refresh /\ UNCHANGED <<ended, sessions, lost, issued>>
        /\ \A u \in Tabs, q \in Operations : u # t \/ q # "refreshUser" => call'[u][q] = call[u][q]
    BY <1>3, <1>y, <1>c, <1>u, GoesParts DEF RefreshUser, server
  <2> QED
    BY <1>y, <1>c, <2>1, QuietStep DEF Holding, Spending, Replacing
<1>4. ASSUME NEW t \in Tabs, CheckAuth(t) PROVE RefreshInv'
  <2>1. storage'.refresh = storage.refresh /\ UNCHANGED <<ended, sessions, lost, issued>>
    BY <1>4, <1>u DEF CheckAuth, server
  <2>2. call[t]["checkAuth"] = Idle
    BY <1>4 DEF CheckAuth, CanCall
  <2>3. \/ Goes(t, "checkAuth", "me", storage.access)
        \/ Goes(t, "checkAuth", "refresh", storage.refresh) /\ storage.refresh # None
        \/ call' = call
    BY <1>4 DEF CheckAuth
  <2>4. /\ \A u \in Tabs, q \in Operations : u # t \/ q # "checkAuth" => call'[u][q] = call[u][q]
        /\ \/ call'[t]["checkAuth"].at = "me"
           \/ /\ call'[t]["checkAuth"].at = "refresh" /\ call'[t]["checkAuth"].with = storage.refresh
              /\ storage.refresh # None
           \/ call'[t]["checkAuth"] = call[t]["checkAuth"]
    BY <2>3, <1>y, <1>c, GoesParts
  <2> QED
    BY <1>y, <1>c, <2>1, <2>2, <2>4, QuietStep DEF Holding, Spending, Replacing, Idle
<1>5. ASSUME NEW t \in Tabs, ServeLogin(t) PROVE RefreshInv'
  <2>1. CASE issued' = issued + 1 /\ Answer(t, "login", "ok", issued + 1)
    <3>1. \/ sessions' = (sessions \ {None}) \cup {issued + 1} /\ lost' = lost
          \/ sessions' = sessions \ {None} /\ lost' = lost \cup {issued + 1}
          \/ sessions' = sessions /\ lost' = lost /\ issued' = issued
      BY <1>5, <1>y DEF ServeLogin, TypeOK, Pairs, None
    <3> QED
      BY <1>5, <1>y, <1>c, <2>1, <3>1, IssueStep DEF ServeLogin, clientSide
  <2>2. CASE UNCHANGED <<issued, sessions, faults, lost>> /\ Answer(t, "login", "failed", None)
    <3>1. /\ call'[t]["login"].at = "failed" /\ UNCHANGED <<storage, ended, sessions, lost, issued>>
          /\ \A u \in Tabs, q \in Operations : u # t \/ q # "login" => call'[u][q] = call[u][q]
      BY <1>5, <2>2, <1>y, <1>c, AnswerParts DEF ServeLogin, clientSide
    <3> QED
      BY <1>y, <1>c, <3>1, QuietStep DEF Holding, Spending, Replacing
  <2> QED
    BY <1>5, <2>1, <2>2 DEF ServeLogin
<1>6. ASSUME NEW t \in Tabs, ServeLogout(t) PROVE RefreshInv'
  <2>1. /\ UNCHANGED <<storage, ended, sessions, lost, issued>>
        /\ \A u \in Tabs, q \in Operations : u # t \/ q # "logout" => call'[u][q] = call[u][q]
    BY <1>6, <1>y, <1>c, AnswerParts DEF ServeLogout, clientSide
  <2> QED
    BY <1>y, <1>c, <2>1, QuietStep DEF Holding, Spending, Replacing
<1>7. ASSUME NEW t \in Tabs, ServeRefreshRead(t) PROVE RefreshInv'
  <2>1. UNCHANGED <<storage, ended, sessions, lost, issued>> /\ Spending(t)
    BY <1>7 DEF ServeRefreshRead, clientSide, Spending
  <2>2. /\ call'[t]["checkAuth"].at \in {"rotate", "failed"}
        /\ call'[t]["checkAuth"].with = call[t]["checkAuth"].with
        /\ \A u \in Tabs, q \in Operations : u # t \/ q # "checkAuth" => call'[u][q] = call[u][q]
    BY <1>7, <1>y, <1>c, AnswerParts DEF ServeRefreshRead
  <2> QED
    BY <1>y, <1>c, <2>1, <2>2, QuietStep DEF Holding, Spending, Replacing
<1>8. ASSUME NEW t \in Tabs, ServeRefreshWrite(t) PROVE RefreshInv'
  <2> DEFINE gone == call[t]["checkAuth"].with
  <2>1. Spending(t) /\ UNCHANGED <<storage, ended>>
    BY <1>8 DEF ServeRefreshWrite, Spending, clientSide
  <2>2. CASE /\ issued' = issued + 1 /\ Answer(t, "checkAuth", "ok", issued + 1)
             /\ \/ sessions' = (sessions \ {gone}) \cup {issued + 1} /\ lost' = lost
                \/ sessions' = sessions \ {gone} /\ lost' = lost \cup {issued + 1}
    BY <1>y, <2>1, <2>2, IssueStep
  <2>3. CASE /\ Answer(t, "checkAuth", "failed", None) /\ issued' = issued
             /\ lost' = lost \cup {gone} /\ sessions' = sessions \ {gone}
    <3>1. /\ call'[t]["checkAuth"].at = "failed"
          /\ \A u \in Tabs, q \in Operations : u # t \/ q # "checkAuth" => call'[u][q] = call[u][q]
      BY <1>y, <1>c, <2>3, AnswerParts
    <3>2. sessions \cup lost \subseteq sessions' \cup lost' /\ lost \subseteq lost'
      BY <2>3
    <3> QED
      BY <1>y, <1>c, <2>1, <2>3, <3>1, <3>2, QuietStep DEF Holding, Spending, Replacing
  <2> QED
    BY <1>8, <2>2, <2>3 DEF ServeRefreshWrite
<1>9. ASSUME NEW t \in Tabs, NEW o \in {"refreshUser", "checkAuth"}, ServeMe(t, o) PROVE RefreshInv'
  <2>1. /\ UNCHANGED <<storage, ended, sessions, lost, issued>> /\ call[t][o].at = "me"
        /\ call'[t][o].at \in {"denied", "mine"}
        /\ \A u \in Tabs, q \in Operations : u # t \/ q # o => call'[u][q] = call[u][q]
    BY <1>9, <1>y, <1>c, AnswerParts DEF ServeMe, clientSide
  <2> QED
    BY <1>y, <1>c, <2>1, QuietStep DEF Holding, Spending, Replacing
<1>10. ASSUME NEW t \in Tabs, AnswerLogin(t) PROVE RefreshInv'
  <2>1. /\ UNCHANGED <<ended, sessions, lost, issued>> /\ call'[t]["login"].at = "idle"
        /\ \A u \in Tabs, q \in Operations : u # t \/ q # "login" => call'[u][q] = call[u][q]
    BY <1>10, <1>y, <1>c, EndsParts DEF AnswerLogin, server
  <2>2. CASE call[t]["login"].at = "ok" /\ storage'.refresh = call[t]["login"].got
    BY <1>y, <1>c, <2>1, <2>2, StoreStep DEF Holding
  <2>3. CASE storage'.refresh = storage.refresh
    BY <1>y, <1>c, <2>1, <2>3, QuietStep DEF Holding, Spending, Replacing
  <2> QED
    BY <1>10, <1>u, <1>w, <2>2, <2>3 DEF AnswerLogin
<1>11. ASSUME NEW t \in Tabs, AnswerLogout(t) PROVE RefreshInv'
  <2>1. /\ UNCHANGED <<ended, sessions, lost, issued>> /\ storage'.refresh = None
        /\ \A u \in Tabs, q \in Operations : u # t \/ q # "logout" => call'[u][q] = call[u][q]
    BY <1>11, <1>y, <1>c, <1>w, EndsParts DEF AnswerLogout, server
  <2> QED
    BY <1>y, <1>c, <2>1, QuietStep DEF Holding, Spending, Replacing
<1>12. ASSUME NEW t \in Tabs, AnswerRefreshUser(t) PROVE RefreshInv'
  <2>1. /\ UNCHANGED <<ended, sessions, lost, issued>> /\ storage'.refresh = storage.refresh
        /\ \A u \in Tabs, q \in Operations : u # t \/ q # "refreshUser" => call'[u][q] = call[u][q]
    BY <1>12, <1>y, <1>c, <1>u, EndsParts DEF AnswerRefreshUser, server
  <2> QED
    BY <1>y, <1>c, <2>1, QuietStep DEF Holding, Spending, Replacing
<1>13. ASSUME NEW t \in Tabs, AnswerRefresh(t) PROVE RefreshInv'
  <2>1. CASE /\ setTokens(call[t]["checkAuth"].got) /\ call[t]["checkAuth"].at = "ok"
             /\ Goes(t, "checkAuth", "me", call[t]["checkAuth"].got) /\ UNCHANGED lost
    <3>1. storage'.refresh = call[t]["checkAuth"].got /\ UNCHANGED <<ended, sessions, lost, issued>>
      BY <1>13, <1>y, <2>1 DEF AnswerRefresh, setTokens, server, TypeOK
    <3>2. /\ call'[t]["checkAuth"].at = "me"
          /\ \A u \in Tabs, q \in Operations : u # t \/ q # "checkAuth" => call'[u][q] = call[u][q]
      BY <1>y, <1>c, <2>1, GoesParts
    <3> QED
      BY <1>y, <1>c, <2>1, <3>1, <3>2, StoreStep DEF Holding
  <2>2. CASE /\ storage'.refresh = storage.refresh /\ Ends(t, "checkAuth")
             /\ lost' = IF call[t]["checkAuth"].at = "ok"
                          THEN lost \cup {call[t]["checkAuth"].with} ELSE lost
    <3>1. UNCHANGED <<ended, sessions, issued>>
      BY <1>13 DEF AnswerRefresh, server
    <3>2. /\ call'[t]["checkAuth"].at = "idle"
          /\ \A u \in Tabs, q \in Operations : u # t \/ q # "checkAuth" => call'[u][q] = call[u][q]
      BY <1>y, <1>c, <2>2, EndsParts
    <3> QED
      BY <1>y, <1>c, <2>2, <3>1, <3>2, QuietStep DEF Holding, Spending, Replacing
  <2> QED
    BY <1>13, <1>u, <2>1, <2>2 DEF AnswerRefresh
<1>14. ASSUME NEW t \in Tabs, AnswerCheckAuth(t) PROVE RefreshInv'
  <2>1. /\ UNCHANGED <<ended, sessions, lost, issued>> /\ storage'.refresh = storage.refresh
        /\ call[t]["checkAuth"].at \in {"mine", "denied"} /\ call'[t]["checkAuth"].at = "idle"
        /\ \A u \in Tabs, q \in Operations : u # t \/ q # "checkAuth" => call'[u][q] = call[u][q]
    BY <1>14, <1>y, <1>c, <1>u, EndsParts DEF AnswerCheckAuth, server
  <2> QED
    BY <1>y, <1>c, <2>1, QuietStep DEF Holding, Spending, Replacing
<1>15. ASSUME NEW t \in Tabs, Reload(t) PROVE RefreshInv'
  <2>1. /\ UNCHANGED <<storage, ended, sessions, issued>> /\ lost \subseteq lost'
        /\ \A q \in Operations : call'[t][q] = Idle
        /\ \A u \in Tabs : u # t => call'[u] = call[u]
    BY <1>15, <1>y DEF Reload, server, TypeOK
  <2>2. Replacing(t) => call[t]["checkAuth"].with \in lost'
    BY <1>15 DEF Reload, Replacing
  <2> QED
    BY <1>y, <1>c, <2>1, <2>2, QuietStep DEF Holding, Spending, Replacing, Idle
<1>16. ASSUME NEW t \in Tabs, NEW route \in Routes, Visit(t, route) PROVE RefreshInv'
  BY <1>y, <1>c, <1>16, QuietStep DEF Visit, server, Holding, Spending, Replacing
<1>17. ASSUME NEW t \in Tabs, NEW o \in Operations, Lose(t, o) PROVE RefreshInv'
  <2>1. /\ UNCHANGED <<storage, ended, sessions, issued>>
        /\ lost' = IF o = "checkAuth" /\ call[t][o].at = "ok" THEN lost \cup {call[t][o].with} ELSE lost
    BY <1>17 DEF Lose, server
  <2>2. /\ call'[t][o].at \in {"denied", "failed"}
        /\ \A u \in Tabs, q \in Operations : u # t \/ q # o => call'[u][q] = call[u][q]
    BY <1>17, <1>y, <1>c, AnswerParts DEF Lose
  <2> QED
    BY <1>y, <1>c, <2>1, <2>2, QuietStep DEF Holding, Spending, Replacing
<1>18. ASSUME NEW p \in Pairs, Expire(p) PROVE RefreshInv'
  BY <1>y, <1>c, <1>18, QuietStep DEF Expire, server, Holding, Spending, Replacing
<1>19. ASSUME NEW p \in Pairs, EndSessions(p) PROVE RefreshInv'
  BY <1>y, <1>c, <1>19, QuietStep DEF EndSessions, Holding, Spending, Replacing
<1>20. CASE UNCHANGED vars
  BY <1>y, <1>c, <1>20, QuietStep DEF vars, server, Holding, Spending, Replacing
<1> QED
  BY <1>1, <1>2, <1>3, <1>4, <1>5, <1>6, <1>7, <1>8, <1>9, <1>10, <1>11, <1>12, <1>13, <1>14,
     <1>15, <1>16, <1>17, <1>18, <1>19, <1>20 DEF Next, Calls, Serves, Settles

\* However many tabs sign in, refresh, sign out and lose answers, the refresh
\* token that localStorage holds works until it expires, unless its replacement
\* is on its way or was lost, or the account was found not active.
THEOREM RefreshTokenWorks == Spec => []StoredRefreshWorks
<1>1. Init => RefreshInv
  <2>1. Init => TypeOK
    BY DEF Init, TypeOK, Store, Saved, Call, Operations, Phases, Token, Pairs, None, Idle,
           Loaded, SignedOut
  <2>2. Init => TokensIssued /\ PairsFresh /\ StoredRefreshWorks
    BY DEF Init, TokensIssued, PairsFresh, StoredRefreshWorks, Holding, Spending, Idle, None,
           Operations
  <2> QED
    BY <2>1, <2>2 DEF RefreshInv
<1>2. RefreshInv => StoredRefreshWorks
  BY DEF RefreshInv
<1> QED
  BY <1>1, <1>2, RefreshPreserved, PTL DEF Spec
=============================================================================
