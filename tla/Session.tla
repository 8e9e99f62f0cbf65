------------------------------ MODULE Session ------------------------------
(***************************************************************************)
(* The session of the web client: several browser windows share one local  *)
(* storage that holds a pair of tokens (access and refresh).  Every window *)
(* sends its requests with the stored access token; a 401 answer makes the *)
(* response interceptor rotate the pair once for all requests of the       *)
(* window that wait for it, and repeat them.  The hub honours a refresh    *)
(* token once.  A token pair is a number, 0 is an empty storage.           *)
(***************************************************************************)
EXTENDS Integers, FiniteSets

CONSTANTS
  Windows,    \* browser windows with a page of the web client
  Slots,      \* requests that can be under way at the same time
  NoWindow,   \* no window
  MaxPairs,   \* bound: pairs of tokens the hub issues
  MaxRequests,\* bound: requests users and pages start
  MaxFaults   \* bound: network failures and reloads

ASSUME PairAssumption == MaxPairs \in Nat \ {0}
ASSUME BoundAssumption == MaxRequests \in Nat /\ MaxFaults \in Nat
ASSUME NoWindowAssumption == NoWindow \notin Windows

Pairs == 1..MaxPairs

VARIABLES
  issued,     \* hub: number of pairs issued
  live,       \* hub: pairs whose access token is accepted
  fresh,      \* hub: pairs whose refresh token has not been used
  rotatedBy,  \* history: the window, not reloaded since, whose refresh spent a pair
  storage,    \* local storage: the pair, written and removed as one
  unseen,     \* history: pairs that have not been in the storage
  page,       \* the route of each window
  toast,      \* msgBoxVisible of each window
  refresh,    \* refreshPromise of each window
  req,        \* the requests
  requests,   \* requests started
  faults      \* failures so far

hubVars == <<issued, live, fresh, rotatedBy>>
windowVars == <<page, toast>>
bounds == <<requests, faults>>
vars == <<issued, live, fresh, rotatedBy, storage, unseen, page, toast, refresh, req,
          requests, faults>>

Kinds == {"api", "password", "login", "logout"}
Idle == [st |-> "idle", win |-> NoWindow, kind |-> "api", tok |-> 0, retried |-> FALSE, pair |-> 0]
NoRefresh == [st |-> "none", tok |-> 0, pair |-> 0]

\* A request sent now carries the access token of the storage, if there is one.
Send(w, kind) ==
  [st |-> "sent", win |-> w, kind |-> kind, tok |-> storage, retried |-> FALSE, pair |-> 0]

\* The pages are opened without a session, or with the one an earlier visit has left.
Init ==
  /\ storage \in {0, 1}
  /\ issued = storage
  /\ live = 1..issued
  /\ fresh = 1..issued
  /\ rotatedBy = [p \in Pairs |-> NoWindow]
  /\ unseen = Pairs \ {storage}
  /\ page = [w \in Windows |-> IF storage = 0 THEN "login" ELSE "app"]
  /\ toast = [w \in Windows |-> FALSE]
  /\ refresh = [w \in Windows |-> NoRefresh]
  /\ req = [s \in Slots |-> Idle]
  /\ requests = 0
  /\ faults = 0

-----------------------------------------------------------------------------
(* The user *)

\* A page, a timer of a page or the user requests something from the hub.
Request(w, s) ==
  /\ page[w] = "app"
  /\ req[s].st = "idle"
  /\ requests < MaxRequests
  /\ requests' = requests + 1
  /\ req' = [req EXCEPT ![s] = Send(w, "api")]
  /\ UNCHANGED <<hubVars, storage, unseen, windowVars, refresh, faults>>

\* onLogin: the login form is valid and is posted.
Login(w, s) ==
  /\ page[w] = "login"
  /\ req[s].st = "idle"
  /\ requests < MaxRequests
  /\ requests' = requests + 1
  /\ req' = [req EXCEPT ![s] = Send(w, "login")]
  /\ UNCHANGED <<hubVars, storage, unseen, windowVars, refresh, faults>>

\* The prompt for a new password is confirmed: common/changeMyPassword.
ChangePassword(s) ==
  /\ req[s].st = "prompt"
  /\ requests < MaxRequests
  /\ requests' = requests + 1
  /\ req' = [req EXCEPT ![s] = Send(req[s].win, "password")]
  /\ UNCHANGED <<hubVars, storage, unseen, windowVars, refresh, faults>>

\* onLogout: the refresh token read now is the one the hub is asked to revoke.
Logout(w, s) ==
  /\ page[w] = "app"
  /\ req[s].st = "idle"
  /\ requests < MaxRequests
  /\ requests' = requests + 1
  /\ req' = [req EXCEPT ![s] = Send(w, "logout")]
  /\ UNCHANGED <<hubVars, storage, unseen, windowVars, refresh, faults>>

\* The route a push to a page other than /login ends at: beforeEach looks for the token.
Guarded(token) == IF token = 0 THEN "login" ELSE "app"

\* A navigation by the user or the address bar.
Navigate(w) ==
  /\ page' = [page EXCEPT ![w] = Guarded(storage)]
  /\ UNCHANGED <<hubVars, storage, unseen, toast, refresh, req, bounds>>

\* Reloading the page forgets its promises; answers to what it sent are not read.
Reload(w) ==
  /\ faults < MaxFaults
  /\ faults' = faults + 1
  /\ page' = [page EXCEPT ![w] = Guarded(storage)]
  /\ toast' = [toast EXCEPT ![w] = FALSE]
  /\ refresh' = [refresh EXCEPT ![w] = NoRefresh]
  /\ req' = [s \in Slots |-> IF req[s].win = w THEN Idle ELSE req[s]]
  /\ rotatedBy' = [p \in Pairs |-> IF rotatedBy[p] = w THEN NoWindow ELSE rotatedBy[p]]
  /\ UNCHANGED <<issued, live, fresh, storage, unseen, requests>>

-----------------------------------------------------------------------------
(* The hub *)

\* Variant for comparison: the number of the new pair is not recorded.
IssueTokenPairUnrecorded(p) ==
  /\ p = issued + 1
  /\ p \in Pairs
  /\ UNCHANGED issued
  /\ live' = live \cup {p}

\* issueTokenPair: the next pair, accepted and not used yet.
IssueTokenPair(p) ==
  /\ p = issued + 1
  /\ p \in Pairs
  /\ issued' = p
  /\ live' = live \cup {p}

\* checkToken of the authorization middleware decides on requests but /login and /logout.
\* What an accepted request brings back, getMe included, changes no session.
AuthorizeApi(s) ==
  /\ req[s].st = "sent"
  /\ req[s].kind = "api"
  /\ req[s].tok \in live
  /\ req' = [req EXCEPT ![s] = Idle]
  /\ UNCHANGED <<hubVars, storage, unseen, windowVars, refresh, bounds>>

\* changeMyPassword goes on when it is answered.
AuthorizePassword(s) ==
  /\ req[s].st = "sent"
  /\ req[s].kind = "password"
  /\ req[s].tok \in live
  /\ req' = [req EXCEPT ![s].st = "ok"]
  /\ UNCHANGED <<hubVars, storage, unseen, windowVars, refresh, bounds>>

\* The token is revoked, or has expired by now.
Unauthorize(s) ==
  /\ req[s].st = "sent"
  /\ req[s].kind \in {"api", "password"}
  /\ req' = [req EXCEPT ![s].st = "unauthorized"]
  /\ live' = live \ {req[s].tok}
  /\ UNCHANGED <<issued, fresh, rotatedBy, storage, unseen, windowVars, refresh, bounds>>

\* PostLogin with the right password.
LoginAccepted(s) ==
  /\ req[s].st = "sent"
  /\ req[s].kind = "login"
  /\ \E p \in Pairs :
       /\ IssueTokenPair(p)
       /\ fresh' = fresh \cup {p}
       /\ req' = [req EXCEPT ![s].st = "ok", ![s].pair = p]
  /\ UNCHANGED <<rotatedBy, storage, unseen, windowVars, refresh, bounds>>

\* PostLogin with another password.
LoginRefused(s) ==
  /\ req[s].st = "sent"
  /\ req[s].kind = "login"
  /\ req' = [req EXCEPT ![s].st = "unauthorized"]
  /\ UNCHANGED <<hubVars, storage, unseen, windowVars, refresh, bounds>>

\* PostLogout revokes both tokens of the pair that was sent.  Its answer, like its failure,
\* starts the timer of 10 ms.
LogoutAtHub(s) ==
  /\ req[s].st = "sent"
  /\ req[s].kind = "logout"
  /\ live' = live \ {req[s].tok}
  /\ fresh' = fresh \ {req[s].tok}
  /\ req' = [req EXCEPT ![s].st = "timer"]
  /\ UNCHANGED <<issued, rotatedBy, storage, unseen, windowVars, refresh, bounds>>

\* PostRefresh marks the refresh token used and issues a new pair.
RefreshAccepted(w) ==
  /\ refresh[w].st = "sent"
  /\ refresh[w].tok \in fresh
  /\ \E p \in Pairs :
       /\ IssueTokenPair(p)
       /\ fresh' = (fresh \ {refresh[w].tok}) \cup {p}
       /\ refresh' = [refresh EXCEPT ![w].st = "new", ![w].pair = p]
  /\ rotatedBy' = [rotatedBy EXCEPT ![refresh[w].tok] = w]
  /\ UNCHANGED <<storage, unseen, windowVars, req, bounds>>

\* PostRefresh refuses a token that is used, revoked or expired.
RefreshRefused(w) ==
  /\ refresh[w].st = "sent"
  /\ refresh' = [refresh EXCEPT ![w].st = "refused"]
  /\ fresh' = fresh \ {refresh[w].tok}
  /\ UNCHANGED <<issued, live, rotatedBy, storage, unseen, windowVars, req, bounds>>

-----------------------------------------------------------------------------
(* The response interceptor and the callers *)

\* What a caller does with the undefined answer a final 401 resolves to, when the storage
\* holds t: login and changeMyPassword return normally and onLogin goes on to getMe.
AfterUndefined(r, t) ==
  IF r.kind \in {"login", "password"} THEN [Idle EXCEPT !.st = "sent", !.win = r.win, !.tok = t]
  ELSE Idle

\* Variant for comparison: every request starts a refresh of its own.
JoinRefreshAlways(s) ==
  LET w == req[s].win IN
  /\ req[s].st = "unauthorized"
  /\ ~req[s].retried
  /\ storage # 0
  /\ req' = [req EXCEPT ![s].st = "waiting", ![s].retried = TRUE]
  /\ refresh' = [refresh EXCEPT ![w] = [st |-> "sent", tok |-> storage, pair |-> 0]]
  /\ UNCHANGED <<hubVars, storage, unseen, windowVars, bounds>>

\* A 401 for a first attempt: the request waits for the window's refresh, which is started
\* with the stored token unless one is under way.
JoinRefresh(s) ==
  LET w == req[s].win IN
  /\ req[s].st = "unauthorized"
  /\ ~req[s].retried
  /\ storage # 0
  /\ req' = [req EXCEPT ![s].st = "waiting", ![s].retried = TRUE]
  /\ refresh' = IF refresh[w].st # "none" THEN refresh
                ELSE [refresh EXCEPT ![w] = [st |-> "sent", tok |-> storage, pair |-> 0]]
  /\ UNCHANGED <<hubVars, storage, unseen, windowVars, bounds>>

\* Variant for comparison: a second 401 also clears the session.
GiveUpClears(s) ==
  LET w == req[s].win IN
  /\ req[s].st = "unauthorized"
  /\ req[s].retried \/ storage = 0
  /\ page' = [page EXCEPT ![w] = "login"]
  /\ storage' = 0
  /\ req' = [req EXCEPT ![s] = AfterUndefined(req[s], 0)]
  /\ UNCHANGED <<hubVars, unseen, toast, refresh, bounds>>

\* A 401 for the second attempt, or without a session: to /login, silently when the
\* warning is already visible.  After changeMyPassword login goes on to the home page.
GiveUp(s) ==
  LET w == req[s].win IN
  /\ req[s].st = "unauthorized"
  /\ req[s].retried \/ storage = 0
  /\ page' = IF req[s].kind = "password" THEN [page EXCEPT ![w] = Guarded(storage)]
             ELSE IF storage # 0 /\ toast[w] THEN page ELSE [page EXCEPT ![w] = "login"]
  /\ toast' = IF storage # 0 THEN [toast EXCEPT ![w] = TRUE] ELSE toast
  /\ req' = [req EXCEPT ![s] = AfterUndefined(req[s], storage)]
  /\ UNCHANGED <<hubVars, storage, unseen, refresh, bounds>>

\* The five seconds of the warning are over.
ToastTimer(w) ==
  /\ toast[w]
  /\ toast' = [toast EXCEPT ![w] = FALSE]
  /\ UNCHANGED <<hubVars, storage, unseen, page, refresh, req, bounds>>

Waiting(s, w) == req[s].win = w /\ req[s].st = "waiting"

\* The refreshed pair is stored and every waiting request is sent again with it.
RefreshStored(w) ==
  /\ refresh[w].st = "new"
  /\ storage' = refresh[w].pair
  /\ unseen' = unseen \ {refresh[w].pair}
  /\ refresh' = [refresh EXCEPT ![w] = NoRefresh]
  /\ req' = [s \in Slots |->
               IF Waiting(s, w) THEN [req[s] EXCEPT !.st = "sent", !.tok = refresh[w].pair]
               ELSE req[s]]
  /\ UNCHANGED <<hubVars, windowVars, bounds>>

\* Variant for comparison: a failed refresh leaves the requests that wait for it alone.
ClearSessionQuietly(w) ==
  /\ storage' = 0
  /\ refresh' = [refresh EXCEPT ![w] = NoRefresh]
  /\ page' = [page EXCEPT ![w] = "login"]
  /\ UNCHANGED <<hubVars, unseen, req>>

\* Variant for comparison: a failed refresh writes the pair it has sent back.
ClearSessionRestores(w) ==
  /\ storage' = refresh[w].tok
  /\ refresh' = [refresh EXCEPT ![w] = NoRefresh]
  /\ page' = [page EXCEPT ![w] = "login"]
  /\ req' = [s \in Slots |-> IF Waiting(s, w) THEN AfterUndefined(req[s], 0) ELSE req[s]]
  /\ UNCHANGED <<hubVars, unseen>>

\* clearSession, by every request that waited for a refresh that failed.
ClearSession(w) ==
  /\ storage' = 0
  /\ refresh' = [refresh EXCEPT ![w] = NoRefresh]
  /\ page' = [page EXCEPT ![w] = "login"]
  /\ req' = [s \in Slots |-> IF Waiting(s, w) THEN AfterUndefined(req[s], 0) ELSE req[s]]
  /\ UNCHANGED <<hubVars, unseen>>

\* Variant for comparison: a 401 on /refresh itself waits for the refresh under way.
RefreshUnauthorizedJoins(w) ==
  /\ refresh[w].st = "refused"
  /\ storage = 0
  /\ UNCHANGED <<toast, bounds>>
  /\ ClearSession(w)

\* The hub's 401 on /refresh shows the warning as any other and fails the refresh.
RefreshUnauthorized(w) ==
  /\ refresh[w].st = "refused"
  /\ toast' = IF storage # 0 THEN [toast EXCEPT ![w] = TRUE] ELSE toast
  /\ UNCHANGED bounds
  /\ ClearSession(w)

\* The network fails before or after the hub has acted on the refresh.
RefreshLost(w) ==
  /\ faults < MaxFaults
  /\ faults' = faults + 1
  /\ refresh[w].st \in {"sent", "new", "refused"}
  /\ UNCHANGED <<toast, requests>>
  /\ ClearSession(w)

\* The password is changed: to the active tab or the home page, then getMe.
AnswerPassword(s) ==
  /\ req[s].st = "ok"
  /\ req[s].kind = "password"
  /\ page' = [page EXCEPT ![req[s].win] = Guarded(storage)]
  /\ req' = [req EXCEPT ![s] = Send(req[s].win, "api")]
  /\ UNCHANGED <<hubVars, storage, unseen, toast, refresh, bounds>>

\* The pair of the login is stored, and the home page and getMe follow.
AnswerLogin(s) ==
  LET p == req[s].pair IN
  /\ req[s].st = "ok"
  /\ req[s].kind = "login"
  /\ storage' = p
  /\ unseen' = unseen \ {p}
  /\ req' = [req EXCEPT ![s] = [Idle EXCEPT !.st = "sent", !.win = req[s].win, !.tok = p]]
  /\ page' = [page EXCEPT ![req[s].win] = Guarded(p)]
  /\ UNCHANGED <<hubVars, toast, refresh, bounds>>

\* The pair of the login is stored, and the prompt for a new password is shown.
AnswerLoginPrompt(s) ==
  LET p == req[s].pair IN
  /\ req[s].st = "ok"
  /\ req[s].kind = "login"
  /\ storage' = p
  /\ unseen' = unseen \ {p}
  /\ req' = [req EXCEPT ![s] = [Idle EXCEPT !.st = "prompt", !.win = req[s].win]]
  /\ UNCHANGED <<hubVars, windowVars, refresh, bounds>>

\* The timer of the logout removes whatever pair is stored by now.
LogoutTimer(s) ==
  /\ req[s].st = "timer"
  /\ storage' = 0
  /\ page' = [page EXCEPT ![req[s].win] = "login"]
  /\ req' = [req EXCEPT ![s] = Idle]
  /\ UNCHANGED <<hubVars, unseen, toast, refresh, bounds>>

\* The network fails before or after the hub has acted on a request: the caller gives up.
RequestLost(s) ==
  /\ faults < MaxFaults
  /\ faults' = faults + 1
  /\ req[s].st \in {"sent", "ok", "unauthorized"}
  /\ req[s].kind # "logout"
  /\ req' = [req EXCEPT ![s] = Idle]
  /\ UNCHANGED <<hubVars, storage, unseen, windowVars, refresh, requests>>

\* onLogout goes on without the hub.
LogoutLost(s) ==
  /\ faults < MaxFaults
  /\ faults' = faults + 1
  /\ req[s].st = "sent"
  /\ req[s].kind = "logout"
  /\ req' = [req EXCEPT ![s].st = "timer"]
  /\ UNCHANGED <<hubVars, storage, unseen, windowVars, refresh, requests>>

-----------------------------------------------------------------------------
HubStep(s) ==
  \/ AuthorizeApi(s) \/ AuthorizePassword(s) \/ Unauthorize(s)
  \/ LoginAccepted(s) \/ LoginRefused(s) \/ LogoutAtHub(s)
Answer(s) ==
  \/ JoinRefresh(s) \/ GiveUp(s) \/ AnswerPassword(s)
  \/ AnswerLogin(s) \/ AnswerLoginPrompt(s) \/ LogoutTimer(s)
RefreshStep(w) ==
  RefreshAccepted(w) \/ RefreshRefused(w) \/ RefreshStored(w) \/ RefreshUnauthorized(w)

Next ==
  \/ \E s \in Slots :
       \/ \E w \in Windows : Request(w, s) \/ Login(w, s) \/ Logout(w, s)
       \/ ChangePassword(s) \/ HubStep(s) \/ Answer(s) \/ RequestLost(s) \/ LogoutLost(s)
  \/ \E w \in Windows :
       Navigate(w) \/ Reload(w) \/ ToastTimer(w) \/ RefreshStep(w) \/ RefreshLost(w)

Spec == Init /\ [][Next]_vars

\* The hub answers what reaches it and the browser runs the callbacks of what was answered
\* and the timers that are due.
FairSpec ==
  /\ Spec
  /\ \A s \in Slots : WF_vars(HubStep(s)) /\ WF_vars(Answer(s))
  /\ \A w \in Windows : WF_vars(RefreshStep(w))

-----------------------------------------------------------------------------
RefreshRecord == [st : {"none", "sent", "new", "refused"}, tok : 0..MaxPairs, pair : 0..MaxPairs]
RequestRecord ==
  [st : {"idle", "sent", "ok", "unauthorized", "waiting", "prompt", "timer"},
   win : Windows \cup {NoWindow}, kind : Kinds, tok : 0..MaxPairs,
   retried : BOOLEAN, pair : 0..MaxPairs]

\* Type invariant; the hub honours tokens it has issued and no others.
TypeOK ==
  /\ issued \in 0..MaxPairs
  /\ live \in SUBSET (1..issued)
  /\ fresh \in SUBSET (1..issued)
  /\ rotatedBy \in [Pairs -> Windows \cup {NoWindow}]
  /\ storage \in 0..MaxPairs
  /\ unseen \in SUBSET Pairs
  /\ page \in [Windows -> {"login", "app"}]
  /\ toast \in [Windows -> BOOLEAN]
  /\ refresh \in [Windows -> RefreshRecord]
  /\ req \in [Slots -> RequestRecord]
  /\ requests \in 0..MaxRequests
  /\ faults \in 0..MaxFaults

\* The single flight of the interceptor (refreshAccessToken): the hub never refuses a
\* window a refresh token which the same page has itself already exchanged.
OwnRotationKept ==
  \A w \in Windows :
    refresh[w].st = "refused" => rotatedBy[refresh[w].tok] # w

\* A request that waits is waiting for a refresh that is under way: the interceptor never
\* leaves it behind.
NobodyLeftWaiting ==
  \A s \in Slots : req[s].st = "waiting" => refresh[req[s].win].st # "none"

\* clearSession: when a session the hub would still rotate is removed from the storage
\* without a logout, then the network failed, or the refresh that failed was for another
\* session than the one stored by now.
NoNeedlessDrop ==
  [][(storage \in fresh /\ storage' = 0 /\ ~\E s \in Slots : LogoutTimer(s)) =>
       \E w \in Windows :
         \/ RefreshLost(w)
         \/ refresh[w].st = "refused" /\ refresh[w].tok # storage]_vars

\* Every request settles: the interceptor's wait for a refresh, its second attempt and the
\* requests that follow a login come to an end.
RequestSettles ==
  \A s \in Slots : req[s].st \notin {"idle", "prompt"} ~> req[s].st \in {"idle", "prompt"}

\* The storage of all windows together implements the abstract one: no late answer, second
\* attempt or failed refresh puts a pair back that was in the storage before.
Store == INSTANCE TokenStore WITH stored <- storage
StoreSpec == Store!Spec
=============================================================================
