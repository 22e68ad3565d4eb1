---------------------------- MODULE SessionClient ---------------------------
(***************************************************************************)
(* Sign-in state of the operator app (apps/key): AuthService and its       *)
(* tokens (lib/auth.ts), the store every component reads                   *)
(* (stores/authStore.ts), the route guard (middleware.ts) and the sign-in  *)
(* page, in several tabs of one browser, with the part of the auth service *)
(* they call (services/auth/internal/service/auth.go).                     *)
(*                                                                         *)
(* The tabs share localStorage and the cookie; each has a store of its own *)
(* in memory, rebuilt from localStorage when the tab is loaded.  A call is *)
(* cut at every await: the request leaves, the service works, the answer   *)
(* is used.  Nothing cancels a call, and any call may overlap any other.   *)
(*                                                                         *)
(* A pair of tokens is a number, in the order the service issues them.     *)
(***************************************************************************)
EXTENDS Naturals, FiniteSets

CONSTANTS
  Tabs,       \* tabs of one browser
  Callers,    \* the operations of the store that the user, or a component, calls in each tab
  Answers,    \* the forms an answer may have: wrapped in {data: ...}, or bare
  Routes,     \* paths that are visited
  Visitors,   \* the tabs in which links are followed; the others keep their page until reloaded
  MaxCalls,   \* bound on the calls under way at once
  MaxPairs,   \* bound on the pairs of tokens the service issues
  MaxFaults   \* bound on the faults: lost answers, lost rows, reloads of a tab, and how
              \* often sessions expire or a refresh finds the account not active

Operations == {"login", "logout", "refreshUser", "checkAuth"}

ASSUME SessionAssumption ==
  /\ Callers \in [Tabs -> SUBSET Operations]
  /\ Answers \subseteq {"wrapped", "bare"}
  /\ {"/login", "/"} \subseteq Routes /\ Visitors \subseteq Tabs
  /\ MaxCalls \in Nat /\ MaxPairs \in Nat \ {0} /\ MaxFaults \in Nat

None  == 0
Pairs == 1..MaxPairs
Token == Pairs \cup {None}

VARIABLES
  answers,    \* how this deployment's auth service wraps its answers
  storage,    \* localStorage: the two tokens, and the store's saved state
  cookie,     \* the access token in the cookie
  expired,    \* pairs whose access token has reached expires_at
  ended,      \* pairs whose refresh token, and the row of its session, have expired
  sessions,   \* refresh tokens with a row in table sessions
  issued,     \* pairs issued so far
  store,      \* useAuthStore in each tab
  call,       \* the call of each operation that is under way in each tab
  page,       \* the page each tab shows
  faults,     \* faults so far
  lost,       \* pairs whose refresh token is good for nothing: its row was not written, its
              \* replacement did not arrive, or it was refused to an account not active
  reloaded    \* tabs that have been loaded again

server == <<answers, ended, sessions, issued>>
vars == <<server, storage, cookie, expired, store, call, page, faults, lost, reloaded>>

(***************************************************************************)
(* Types                                                                   *)
(***************************************************************************)
Phases == {"idle", "login", "logout", "refresh", "rotate", "me",
           "ok", "failed", "mine", "denied"}
\* `with` is the token the call carries, `got` the pair the service issued for it.
Call == [at : Phases, with : Token, got : Token]
Idle == [at |-> "idle", with |-> None, got |-> None]

Saved == [user : BOOLEAN, isAuthenticated : BOOLEAN]
Store == [user : BOOLEAN, isAuthenticated : BOOLEAN, isLoading : BOOLEAN]

publicRoutes == {"/login", "/forgot-password"}
authRoutes   == {"/login"}

TypeOK ==
  /\ answers \in Answers
  /\ storage \in [access : Token, refresh : Token, saved : Saved]
  /\ cookie \in Token
  /\ expired \subseteq Pairs /\ ended \subseteq Pairs
  /\ sessions \subseteq Pairs /\ lost \subseteq Token
  /\ reloaded \subseteq Tabs
  /\ issued \in 0..MaxPairs
  /\ store \in [Tabs -> Store]
  /\ call \in [Tabs -> [Operations -> Call]]
  /\ page \in [Tabs -> Routes]
  /\ faults \in 0..MaxFaults

(***************************************************************************)
(* The store                                                               *)
(***************************************************************************)
\* Mutant of Loaded: a tab starts from the saved state alone.
LoadedAsSaved(saved) == saved

Loaded(saved) == [user |-> saved.user, isAuthenticated |-> saved.isAuthenticated,
                  isLoading |-> TRUE]
SignedOut == [user |-> FALSE, isAuthenticated |-> FALSE]

\* set(...): zustand's persist writes user and isAuthenticated back to localStorage.
Put(t, s) ==
  /\ store' = [store EXCEPT ![t] = s]
  /\ storage' = [storage EXCEPT !.saved = [user |-> s.user, isAuthenticated |-> s.isAuthenticated]]

\* The same, in a step that also sets the tokens.
PutWith(t, s, pair) ==
  /\ store' = [store EXCEPT ![t] = s]
  /\ storage' = [access |-> pair, refresh |-> pair,
                 saved |-> [user |-> s.user, isAuthenticated |-> s.isAuthenticated]]

\* Mutant of setTokens: the new refresh token is not kept.
setTokensAccessOnly(pair) == storage' = [storage EXCEPT !.access = pair]

setTokens(pair) == storage' = [storage EXCEPT !.access = pair, !.refresh = pair]
SetCookie(pair) == cookie' = pair

Signed(s, in) == [s EXCEPT !.user = in, !.isAuthenticated = in]
Quiet(s)      == [s EXCEPT !.isLoading = FALSE]

\* AuthService.isAuthenticated
TokenIsValid == storage.access # None /\ storage.access \notin expired
\* The browser drops the cookie when its expiry, that of the token, has passed.
CookieSent   == IF cookie \in expired THEN None ELSE cookie

\* Mutant of Guarded: who has no cookie is let through.
GuardedNoRedirect(route) ==
  IF CookieSent # None /\ route \in authRoutes THEN "/" ELSE route

\* middleware(request)
Guarded(route) ==
  IF CookieSent # None /\ route \in authRoutes THEN "/"
  ELSE IF CookieSent = None /\ route \notin publicRoutes THEN "/login"
  ELSE route

Init ==
  /\ answers \in Answers
  /\ storage = [access |-> None, refresh |-> None, saved |-> SignedOut]
  /\ cookie = None
  /\ expired = {} /\ ended = {} /\ sessions = {} /\ lost = {} /\ reloaded = {}
  /\ issued = 0 /\ faults = 0
  /\ store = [t \in Tabs |-> Loaded(SignedOut)]
  /\ call = [t \in Tabs |-> [o \in Operations |-> Idle]]
  /\ page = [t \in Tabs |-> "/login"]

\* The calls under way.  An operation overlaps itself in another tab only.
UnderWay == {c \in Tabs \X Operations : call[c[1]][c[2]] # Idle}
CanCall(t, o) == call[t][o] = Idle /\ Cardinality(UnderWay) < MaxCalls

Goes(t, o, phase, token) ==
  call' = [call EXCEPT ![t][o] = [at |-> phase, with |-> token, got |-> None]]
Ends(t, o) == call' = [call EXCEPT ![t][o] = Idle]

(***************************************************************************)
(* What the tabs call                                                      *)
(***************************************************************************)
\* The sign-in button is disabled while the store is loading.
SignInOffered(t) == page[t] = "/login" /\ ~store[t].isLoading

\* onSubmit of the sign-in page, and login up to its await
Login(t) ==
  /\ "login" \in Callers[t] /\ SignInOffered(t) /\ CanCall(t, "login")
  /\ Put(t, [store[t] EXCEPT !.isLoading = TRUE])
  /\ Goes(t, "login", "login", None)
  /\ UNCHANGED <<server, reloaded, cookie, expired, page, faults, lost>>

\* logout: with no token nothing is asked of the service.
Logout(t) ==
  /\ "logout" \in Callers[t] /\ CanCall(t, "logout")
  /\ \/ /\ storage.access # None
        /\ Put(t, [store[t] EXCEPT !.isLoading = TRUE])
        /\ Goes(t, "logout", "logout", storage.access)
        /\ UNCHANGED cookie
     \/ /\ storage.access = None
        /\ PutWith(t, Quiet(Signed(store[t], FALSE)), None)
        /\ SetCookie(None)
        /\ UNCHANGED call
  /\ UNCHANGED <<server, reloaded, expired, page, faults, lost>>

\* refreshUser
RefreshUser(t) ==
  /\ "refreshUser" \in Callers[t] /\ CanCall(t, "refreshUser")
  /\ \/ /\ storage.access # None
        /\ Goes(t, "refreshUser", "me", storage.access)
        /\ UNCHANGED <<store, storage>>
     \/ /\ storage.access = None
        /\ Put(t, Signed(store[t], FALSE))
        /\ UNCHANGED call
  /\ UNCHANGED <<server, reloaded, cookie, expired, page, faults, lost>>

\* checkAuth up to its first await: a valid token is used as it is, an
\* expired one is refreshed, and without a refresh token the tab is signed out.
CheckAuth(t) ==
  /\ "checkAuth" \in Callers[t] /\ CanCall(t, "checkAuth")
  /\ \/ /\ TokenIsValid
        /\ Put(t, [store[t] EXCEPT !.isLoading = TRUE])
        /\ Goes(t, "checkAuth", "me", storage.access)
     \/ /\ ~TokenIsValid /\ storage.refresh # None
        /\ Put(t, [store[t] EXCEPT !.isLoading = TRUE])
        /\ Goes(t, "checkAuth", "refresh", storage.refresh)
     \/ /\ ~TokenIsValid /\ storage.refresh = None
        /\ Put(t, Quiet(Signed(store[t], FALSE)))
        /\ UNCHANGED call
  /\ UNCHANGED <<server, reloaded, cookie, expired, page, faults, lost>>

\* A link or an address: the tab stays loaded, and the guard decides.
Visit(t, route) ==
  /\ Guarded(route) # page[t]
  /\ page' = [page EXCEPT ![t] = Guarded(route)]
  /\ UNCHANGED <<server, reloaded, storage, cookie, expired, store, call, faults, lost>>

(***************************************************************************)
(* The service                                                             *)
(***************************************************************************)
Answer(t, o, phase, pair) ==
  call' = [call EXCEPT ![t][o] = [@ EXCEPT !.at = phase, !.got = pair]]
clientSide == <<answers, ended, storage, cookie, expired, store, page, reloaded>>

\* AuthService.Login: the row of the session may fail to be written, which is
\* only logged; wrong credentials, and an account that is not active, are refused.
ServeLogin(t) ==
  /\ call[t]["login"].at = "login"
  /\ \/ /\ issued < MaxPairs
        /\ issued' = issued + 1
        /\ Answer(t, "login", "ok", issued + 1)
        /\ \/ /\ sessions' = sessions \cup {issued + 1}
              /\ UNCHANGED <<faults, lost>>
           \/ /\ faults < MaxFaults /\ faults' = faults + 1
              /\ lost' = lost \cup {issued + 1}
              /\ UNCHANGED sessions
     \/ /\ Answer(t, "login", "failed", None)
        /\ UNCHANGED <<issued, sessions, faults, lost>>
  /\ UNCHANGED clientSide

\* POST /logout has no body: the handler cannot decode it and answers 400.
ServeLogout(t) ==
  /\ call[t]["logout"].at = "logout"
  /\ Answer(t, "logout", "failed", None)
  /\ UNCHANGED <<clientSide, sessions, issued, faults, lost>>

\* AuthService.RefreshToken looks for the session of the token, where neither may
\* have expired ...
ServeRefreshRead(t) ==
  /\ call[t]["checkAuth"].at = "refresh"
  /\ Answer(t, "checkAuth",
            IF call[t]["checkAuth"].with \in sessions \ ended THEN "rotate" ELSE "failed", None)
  /\ UNCHANGED <<clientSide, sessions, issued, faults, lost>>

\* ... and deletes that row by its id.  It writes one for a new pair, and ignores the
\* errors of both; an account that is not active loses its row, and is refused.
ServeRefreshWrite(t) ==
  /\ call[t]["checkAuth"].at = "rotate"
  /\ LET kept == sessions \ {call[t]["checkAuth"].with} IN
       \/ /\ issued < MaxPairs
          /\ issued' = issued + 1
          /\ Answer(t, "checkAuth", "ok", issued + 1)
          /\ \/ /\ sessions' = kept \cup {issued + 1}
                /\ UNCHANGED <<faults, lost>>
             \/ /\ faults < MaxFaults /\ faults' = faults + 1
                /\ lost' = lost \cup {issued + 1}
                /\ sessions' = kept
       \/ /\ faults < MaxFaults /\ faults' = faults + 1
          /\ Answer(t, "checkAuth", "failed", None)
          /\ lost' = lost \cup {call[t]["checkAuth"].with}
          /\ sessions' = kept
          /\ UNCHANGED issued
  /\ UNCHANGED clientSide

\* GET /me accepts an access token until it expires, whatever became of its session.
ServeMe(t, o) ==
  /\ call[t][o].at = "me"
  /\ Answer(t, o, IF call[t][o].with \in expired THEN "denied" ELSE "mine", None)
  /\ UNCHANGED <<clientSide, sessions, issued, faults, lost>>

(***************************************************************************)
(* What the tabs do with the answers                                       *)
(***************************************************************************)
\* Mutant of AnswerLogin: after a failure the store goes on loading.
AnswerLoginLoading(t) ==
  LET c == call[t]["login"] IN
  /\ \/ /\ c.at = "ok" /\ answers = "wrapped"
        /\ PutWith(t, Quiet(Signed(store[t], TRUE)), c.got)
        /\ SetCookie(c.got)
        /\ page' = [page EXCEPT ![t] = IF c.got \in expired THEN "/login" ELSE "/"]
     \/ /\ c.at = "failed" \/ (c.at = "ok" /\ answers = "bare")
        /\ UNCHANGED <<store, storage, cookie, page>>
  /\ Ends(t, "login")
  /\ UNCHANGED <<server, reloaded, expired, faults, lost>>

\* The end of login and of onSubmit.  A bare answer has no `data` to read: the
\* TypeError is caught like a refusal, and its tokens are dropped.
AnswerLogin(t) ==
  LET c == call[t]["login"] IN
  /\ \/ /\ c.at = "ok" /\ answers = "wrapped"
        /\ PutWith(t, Quiet(Signed(store[t], TRUE)), c.got)
        /\ SetCookie(c.got)
        /\ page' = [page EXCEPT ![t] = IF c.got \in expired THEN "/login" ELSE "/"]
     \/ /\ c.at = "failed" \/ (c.at = "ok" /\ answers = "bare")
        /\ Put(t, Quiet(store[t]))
        /\ UNCHANGED <<cookie, page>>
  /\ Ends(t, "login")
  /\ UNCHANGED <<server, reloaded, expired, faults, lost>>

\* The finally blocks of logout run whatever the service answered.
AnswerLogout(t) ==
  /\ call[t]["logout"].at = "failed"
  /\ PutWith(t, Quiet(Signed(store[t], FALSE)), None)
  /\ SetCookie(None)
  /\ Ends(t, "logout")
  /\ UNCHANGED <<server, reloaded, expired, page, faults, lost>>

\* getCurrentUser reads `data` of the answer: of a bare one it returns undefined.
WithUser(s) == [s EXCEPT !.user = (answers = "wrapped"), !.isAuthenticated = TRUE]

AnswerRefreshUser(t) ==
  LET c == call[t]["refreshUser"] IN
  /\ c.at \in {"mine", "denied"}
  /\ Put(t, IF c.at = "mine" THEN WithUser(store[t]) ELSE Signed(store[t], FALSE))
  /\ Ends(t, "refreshUser")
  /\ UNCHANGED <<server, reloaded, cookie, expired, page, faults, lost>>

\* checkAuth after refreshTokens: the new pair is stored and used at once.
AnswerRefresh(t) ==
  LET c == call[t]["checkAuth"] IN
  /\ \/ /\ c.at = "ok" /\ answers = "wrapped"
        /\ setTokens(c.got) /\ SetCookie(c.got)
        /\ Goes(t, "checkAuth", "me", c.got)
        /\ UNCHANGED <<store, lost>>
     \/ /\ c.at = "failed" \/ (c.at = "ok" /\ answers = "bare")
        /\ Put(t, Quiet(Signed(store[t], FALSE)))
        /\ lost' = IF c.at = "ok" THEN lost \cup {c.with} ELSE lost
        /\ Ends(t, "checkAuth")
        /\ UNCHANGED cookie
  /\ UNCHANGED <<server, reloaded, expired, page, faults>>

\* checkAuth after getCurrentUser
AnswerCheckAuth(t) ==
  LET c == call[t]["checkAuth"] IN
  /\ c.at \in {"mine", "denied"}
  /\ Put(t, Quiet(IF c.at = "mine" THEN WithUser(store[t]) ELSE Signed(store[t], FALSE)))
  /\ Ends(t, "checkAuth")
  /\ UNCHANGED <<server, reloaded, cookie, expired, page, faults, lost>>

(***************************************************************************)
(* Time and faults                                                         *)
(***************************************************************************)
\* The access tokens last equally long (15 minutes), so they expire in the order of
\* issue,
Expire(p) ==
  /\ p <= issued /\ p \notin expired /\ 1..(p - 1) \subseteq expired
  /\ expired' = expired \cup {p}
  /\ UNCHANGED <<server, reloaded, storage, cookie, store, call, page, faults, lost>>

\* and so do the refresh tokens with their sessions, after seven days: those of
\* pairs up to p, seen from here, at once.
EndSessions(p) ==
  /\ faults < MaxFaults /\ faults' = faults + 1
  /\ p \in expired \ ended
  /\ ended' = ended \cup 1..p
  /\ UNCHANGED <<answers, sessions, issued, storage, cookie, expired, store, call, page,
                 lost, reloaded>>

\* fetch rejects: the request or its answer was lost, or the service failed before it
\* had done anything.  A refresh token that the service has already replaced is spent.
\* A sign-in whose request is lost ends like a refused one, and so does a sign-out.
Lose(t, o) ==
  /\ faults < MaxFaults /\ faults' = faults + 1
  /\ o # "logout"
  /\ call[t][o].at \in {"refresh", "me", "ok"}
  /\ LET c == call[t][o] IN
       /\ Answer(t, o, IF c.at = "me" THEN "denied" ELSE "failed", None)
       /\ lost' = IF o = "checkAuth" /\ c.at = "ok" THEN lost \cup {c.with} ELSE lost
  /\ UNCHANGED <<server, reloaded, storage, cookie, expired, store, page>>

\* A tab is loaded again: its calls are forgotten, and the store starts from
\* what localStorage holds, with isLoading true.
Reload(t) ==
  /\ faults < MaxFaults /\ faults' = faults + 1
  /\ call[t]["checkAuth"].at # "rotate"
  /\ store' = [store EXCEPT ![t] = Loaded(storage.saved)]
  /\ call' = [call EXCEPT ![t] = [o \in Operations |-> Idle]]
  /\ lost' = lost \cup IF call[t]["checkAuth"].at = "ok" THEN {call[t]["checkAuth"].with} ELSE {}
  /\ page' = [page EXCEPT ![t] = Guarded(page[t])]
  /\ reloaded' = reloaded \cup {t}
  /\ UNCHANGED <<server, storage, cookie, expired>>

Calls(t) == Login(t) \/ Logout(t) \/ RefreshUser(t) \/ CheckAuth(t)
Serves(t) ==
  \/ ServeLogin(t) \/ ServeLogout(t) \/ ServeRefreshRead(t) \/ ServeRefreshWrite(t)
  \/ \E o \in {"refreshUser", "checkAuth"} : ServeMe(t, o)
Settles(t) ==
  AnswerLogin(t) \/ AnswerLogout(t) \/ AnswerRefreshUser(t) \/ AnswerRefresh(t) \/ AnswerCheckAuth(t)

Next ==
  \/ \E t \in Tabs : Calls(t) \/ Serves(t) \/ Settles(t) \/ Reload(t)
  \/ \E t \in Visitors, route \in Routes : Visit(t, route)
  \/ \E t \in Tabs, o \in Operations : Lose(t, o)
  \/ \E p \in Pairs : Expire(p) \/ EndSessions(p)

Spec == Init /\ [][Next]_vars

\* The phases of a call follow one another.
Progress(t, o) ==
  CASE o = "login"       -> ServeLogin(t) \/ AnswerLogin(t)
    [] o = "logout"      -> ServeLogout(t) \/ AnswerLogout(t)
    [] o = "refreshUser" -> ServeMe(t, o) \/ AnswerRefreshUser(t)
    [] o = "checkAuth"   -> \/ ServeRefreshRead(t) \/ ServeRefreshWrite(t) \/ AnswerRefresh(t)
                            \/ ServeMe(t, o) \/ AnswerCheckAuth(t)

\* A request is answered, or its fetch fails, and the continuation of a
\* settled promise runs.  Nobody has to call anything.
FairSpec == Spec /\ \A t \in Tabs : \A o \in Callers[t] : WF_vars(Progress(t, o))

(***************************************************************************)
(* Properties                                                              *)
(***************************************************************************)
\* The refresh token in localStorage is one the service will accept until it expires,
\* unless its replacement is on the way to this browser or was lost, or the service
\* refused it to an account that was not active.  So two tabs that refresh the same
\* token at once, a sign-in or a sign-out in one of them while the other refreshes, and
\* answers that overtake each other do not by themselves lock the browser out
\* (authStore.ts:62-75, auth.ts:123-143, service/auth.go:132-197).
StoredRefreshWorks ==
  storage.refresh \notin {None} \cup sessions \cup ended =>
    \/ storage.refresh \in lost
    \/ \E t \in Tabs : LET c == call[t]["checkAuth"] IN
         c.at = "ok" /\ c.with = storage.refresh

\* Against the auth service of this repository, whose answers are bare, no
\* tab is ever given a token or shown a page behind the guard: login reads a
\* `data` that is not there (auth.ts:74-78, services/auth handler respondJSON).
BareServiceAdmitsNobody ==
  answers = "bare" => /\ storage.access = None
                      /\ \A t \in Tabs : page[t] \in publicRoutes

\* A tab that has called login, logout or checkAuth does not stay loading:
\* whatever the service answers and whatever else is called meanwhile, the
\* button of the sign-in page is enabled again (authStore.ts:29-91), unless
\* the tab is loaded anew and the call forgotten.
LoadingEnds ==
  \A t \in Tabs :
    (\E o \in Operations \ {"refreshUser"} : call[t][o].at # "idle")
      ~> (~store[t].isLoading \/ t \in reloaded \/ issued = MaxPairs)
=============================================================================
