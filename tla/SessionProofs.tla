--------------------------- MODULE SessionProofs ---------------------------
(***************************************************************************)
(* Proofs about the session of the web client, for any number of windows,  *)
(* requests, pairs of tokens and failures.                                 *)
(***************************************************************************)
EXTENDS Session, TLAPS

\* A request under way belongs to a window, and only the answer to a login carries a pair,
\* which has not been in the storage.
ReqShape ==
  \A s \in Slots :
    /\ req[s].st # "idle" => req[s].win \in Windows
    /\ req[s].pair # 0 => req[s].st = "ok" /\ req[s].kind = "login"
    /\ req[s].st = "ok" /\ req[s].kind = "login" => req[s].pair # 0 /\ req[s].pair \in unseen

\* A refresh was started with a pair of the storage; only its answer carries a new pair.
RefreshShape ==
  \A w \in Windows :
    /\ refresh[w].st # "none" => refresh[w].tok # 0 /\ refresh[w].tok \notin unseen
    /\ refresh[w].pair # 0 => refresh[w].st = "new"
    /\ refresh[w].st = "new" => refresh[w].pair # 0 /\ refresh[w].pair \in unseen

\* Pairs that are not issued are unseen and not on their way, the stored one is not unseen.
UnseenShape ==
  /\ \A p \in Pairs : p > issued => p \in unseen
  /\ \A s \in Slots : req[s].pair <= issued
  /\ \A w \in Windows : refresh[w].pair <= issued
  /\ storage \notin unseen

\* No pair is on its way twice.
OnItsWayOnce ==
  /\ \A v, w \in Windows : refresh[v].pair = refresh[w].pair => v = w \/ refresh[v].pair = 0
  /\ \A s, t \in Slots : req[s].pair = req[t].pair => s = t \/ req[s].pair = 0
  /\ \A w \in Windows, s \in Slots : refresh[w].pair = req[s].pair => refresh[w].pair = 0

\* The pair a window has exchanged stays stored only until the window reads the answer, and
\* the window does not send it again.
RotatedShape ==
  \A p \in Pairs :
    rotatedBy[p] # NoWindow =>
      /\ p \notin unseen /\ p \notin fresh
      /\ storage = p => refresh[rotatedBy[p]].st = "new" /\ refresh[rotatedBy[p]].tok = p
      /\ refresh[rotatedBy[p]].st \in {"sent", "refused"} => refresh[rotatedBy[p]].tok # p

\* The hub does not honour a refresh token it has refused.
RefusedShape ==
  \A w \in Windows : refresh[w].st = "refused" => refresh[w].tok \notin fresh

IInv ==
  /\ TypeOK
  /\ ReqShape
  /\ RefreshShape
  /\ UnseenShape
  /\ OnItsWayOnce
  /\ RotatedShape
  /\ RefusedShape
  /\ NobodyLeftWaiting

-----------------------------------------------------------------------------

\* The record of a slot without a request.
LEMMA IdleType == Idle \in RequestRecord /\ Idle.st = "idle" /\ Idle.pair = 0
BY PairAssumption DEF Idle, RequestRecord, Kinds

\* The requests a login goes on with.
LEMMA IdleUpdate ==
  ASSUME NEW v \in Windows \cup {NoWindow}, NEW t \in 0..MaxPairs
  PROVE  /\ [Idle EXCEPT !.st = "sent", !.win = v, !.tok = t] \in RequestRecord
         /\ [Idle EXCEPT !.st = "prompt", !.win = v] \in RequestRecord
<1>1. \A r \in RequestRecord : [r EXCEPT !.st = "sent", !.win = v, !.tok = t] \in RequestRecord
  BY DEF RequestRecord
<1>2. \A r \in RequestRecord : [r EXCEPT !.st = "prompt", !.win = v] \in RequestRecord
  BY DEF RequestRecord
<1> QED
  BY <1>1, <1>2, IdleType

\* A request may change its stage, the answer to a login brings a pair, and a second attempt
\* carries another token.
LEMMA RequestType ==
  ASSUME NEW r \in RequestRecord, NEW p \in 0..MaxPairs
  PROVE  /\ \A x \in {"sent", "ok", "unauthorized", "waiting", "timer"} : [r EXCEPT !.st = x] \in RequestRecord
         /\ [r EXCEPT !.st = "ok", !.pair = p] \in RequestRecord
         /\ [r EXCEPT !.st = "waiting", !.retried = TRUE] \in RequestRecord
         /\ [r EXCEPT !.st = "sent", !.tok = p] \in RequestRecord
BY DEF RequestRecord

\* What follows a final 401: nothing, or getMe of the same window.
LEMMA AfterUndefinedType ==
  ASSUME NEW r \in RequestRecord, NEW t \in 0..MaxPairs
  PROVE  /\ AfterUndefined(r, t) \in RequestRecord
         /\ AfterUndefined(r, t).pair = 0
         /\ AfterUndefined(r, t).st \in {"idle", "sent"}
         /\ AfterUndefined(r, t).st # "idle" => AfterUndefined(r, t).win = r.win
<1>1. CASE r.kind \in {"login", "password"}
  <2>1. AfterUndefined(r, t) = [st |-> "sent", win |-> r.win, kind |-> "api", tok |-> t, retried |-> FALSE, pair |-> 0]
    BY <1>1 DEF AfterUndefined, Idle
  <2> QED
    BY <2>1, PairAssumption DEF RequestRecord, Kinds
<1>2. CASE r.kind \notin {"login", "password"}
  BY <1>2, IdleType DEF AfterUndefined
<1> QED
  BY <1>1, <1>2

\* A refresh is for a pair the hub has issued.
LEMMA RefreshIssued ==
  ASSUME IInv, NEW w \in Windows, refresh[w].st # "none"
  PROVE  refresh[w].tok \in 1..issued
BY PairAssumption DEF IInv, TypeOK, RefreshShape, UnseenShape, RefreshRecord, Pairs

\* A refresh may change its stage, and its answer brings a pair.
LEMMA RefreshType ==
  ASSUME NEW r \in RefreshRecord, NEW p \in 0..MaxPairs
  PROVE  /\ [r EXCEPT !.st = "refused"] \in RefreshRecord
         /\ [r EXCEPT !.st = "new", !.pair = p] \in RefreshRecord
         /\ NoRefresh \in RefreshRecord
         /\ [st |-> "sent", tok |-> p, pair |-> 0] \in RefreshRecord
<1>1. [r EXCEPT !.st = "refused"] \in RefreshRecord
  BY DEF RefreshRecord
<1>2. [r EXCEPT !.st = "new", !.pair = p] \in RefreshRecord
  BY DEF RefreshRecord
<1>3. NoRefresh \in RefreshRecord
  BY PairAssumption DEF RefreshRecord, NoRefresh
<1>4. [st |-> "sent", tok |-> p, pair |-> 0] \in RefreshRecord
  BY PairAssumption DEF RefreshRecord
<1> QED
  BY <1>1, <1>2, <1>3, <1>4

\* Request preserves the invariant.
LEMMA RequestKeeps ==
  ASSUME IInv, NEW w \in Windows, NEW s \in Slots, Request(w, s)
  PROVE  IInv'
<1>1. TypeOK'
  <2>1. req' \in [Slots -> RequestRecord]
    BY PairAssumption, BoundAssumption, NoWindowAssumption DEF IInv, Request, hubVars, windowVars, bounds, Pairs, Send, Kinds, TypeOK, RequestRecord
  <2>2. refresh' \in [Windows -> RefreshRecord]
    BY PairAssumption, BoundAssumption, NoWindowAssumption DEF IInv, Request, hubVars, windowVars, bounds, Pairs, Send, Kinds, TypeOK, RefreshRecord
  <2>3. (issued \in 0..MaxPairs /\ live \in SUBSET (1..issued) /\ fresh \in SUBSET (1..issued))'
    BY PairAssumption, BoundAssumption, NoWindowAssumption DEF IInv, Request, hubVars, windowVars, bounds, Pairs, Send, Kinds, TypeOK
  <2>4. (rotatedBy \in [Pairs -> Windows \cup {NoWindow}] /\ storage \in 0..MaxPairs)'
    BY PairAssumption, BoundAssumption, NoWindowAssumption DEF IInv, Request, hubVars, windowVars, bounds, Pairs, Send, Kinds, TypeOK, RequestRecord, RefreshRecord
  <2>5. (unseen \in SUBSET Pairs)'
    BY PairAssumption, BoundAssumption, NoWindowAssumption DEF IInv, Request, hubVars, windowVars, bounds, Pairs, Send, Kinds, TypeOK
  <2>6. (page \in [Windows -> {"login", "app"}] /\ toast \in [Windows -> BOOLEAN])'
    BY PairAssumption, BoundAssumption, NoWindowAssumption DEF IInv, Request, hubVars, windowVars, bounds, Pairs, Send, Kinds, TypeOK
  <2>7. (requests \in 0..MaxRequests /\ faults \in 0..MaxFaults)'
    BY PairAssumption, BoundAssumption, NoWindowAssumption DEF IInv, Request, hubVars, windowVars, bounds, Pairs, Send, Kinds, TypeOK
  <2> QED
    BY <2>1, <2>2, <2>3, <2>4, <2>5, <2>6, <2>7 DEF TypeOK
<1>2. ReqShape'
  BY PairAssumption, BoundAssumption, NoWindowAssumption DEF IInv, Request, hubVars, windowVars, bounds, Pairs, Send, Kinds, TypeOK, RequestRecord, RefreshRecord, ReqShape, UnseenShape, OnItsWayOnce
<1>3. RefreshShape'
  BY PairAssumption, BoundAssumption, NoWindowAssumption DEF IInv, Request, hubVars, windowVars, bounds, Pairs, Send, Kinds, TypeOK, RequestRecord, RefreshRecord, RefreshShape, UnseenShape, OnItsWayOnce
<1>4. UnseenShape'
  BY PairAssumption, BoundAssumption, NoWindowAssumption DEF IInv, Request, hubVars, windowVars, bounds, Pairs, Send, Kinds, TypeOK, RequestRecord, RefreshRecord, UnseenShape, ReqShape, RefreshShape
<1>5. OnItsWayOnce'
  BY PairAssumption, BoundAssumption, NoWindowAssumption DEF IInv, Request, hubVars, windowVars, bounds, Pairs, Send, Kinds, TypeOK, RequestRecord, RefreshRecord, OnItsWayOnce, UnseenShape
<1>6. RotatedShape'
  BY PairAssumption, BoundAssumption, NoWindowAssumption DEF IInv, Request, hubVars, windowVars, bounds, Pairs, Send, Kinds, TypeOK, RequestRecord, RefreshRecord, RotatedShape, RefreshShape, ReqShape, UnseenShape
<1>7. RefusedShape'
  BY PairAssumption, BoundAssumption, NoWindowAssumption DEF IInv, Request, hubVars, windowVars, bounds, Pairs, Send, Kinds, TypeOK, RequestRecord, RefreshRecord, RefusedShape, RefreshShape, UnseenShape
<1>8. NobodyLeftWaiting'
  BY PairAssumption, BoundAssumption, NoWindowAssumption DEF IInv, Request, hubVars, windowVars, bounds, Pairs, Send, Kinds, TypeOK, RequestRecord, RefreshRecord, NobodyLeftWaiting, ReqShape
<1> QED
  BY <1>1, <1>2, <1>3, <1>4, <1>5, <1>6, <1>7, <1>8 DEF IInv

\* Login preserves the invariant.
LEMMA LoginKeeps ==
  ASSUME IInv, NEW w \in Windows, NEW s \in Slots, Login(w, s)
  PROVE  IInv'
<1>1. TypeOK'
  <2>1. req' \in [Slots -> RequestRecord]
    BY PairAssumption, BoundAssumption, NoWindowAssumption DEF IInv, Login, hubVars, windowVars, bounds, Pairs, Send, Kinds, TypeOK, RequestRecord
  <2>2. refresh' \in [Windows -> RefreshRecord]
    BY PairAssumption, BoundAssumption, NoWindowAssumption DEF IInv, Login, hubVars, windowVars, bounds, Pairs, Send, Kinds, TypeOK, RefreshRecord
  <2>3. (issued \in 0..MaxPairs /\ live \in SUBSET (1..issued) /\ fresh \in SUBSET (1..issued))'
    BY PairAssumption, BoundAssumption, NoWindowAssumption DEF IInv, Login, hubVars, windowVars, bounds, Pairs, Send, Kinds, TypeOK
  <2>4. (rotatedBy \in [Pairs -> Windows \cup {NoWindow}] /\ storage \in 0..MaxPairs)'
    BY PairAssumption, BoundAssumption, NoWindowAssumption DEF IInv, Login, hubVars, windowVars, bounds, Pairs, Send, Kinds, TypeOK, RequestRecord, RefreshRecord
  <2>5. (unseen \in SUBSET Pairs)'
    BY PairAssumption, BoundAssumption, NoWindowAssumption DEF IInv, Login, hubVars, windowVars, bounds, Pairs, Send, Kinds, TypeOK
  <2>6. (page \in [Windows -> {"login", "app"}] /\ toast \in [Windows -> BOOLEAN])'
    BY PairAssumption, BoundAssumption, NoWindowAssumption DEF IInv, Login, hubVars, windowVars, bounds, Pairs, Send, Kinds, TypeOK
  <2>7. (requests \in 0..MaxRequests /\ faults \in 0..MaxFaults)'
    BY PairAssumption, BoundAssumption, NoWindowAssumption DEF IInv, Login, hubVars, windowVars, bounds, Pairs, Send, Kinds, TypeOK
  <2> QED
    BY <2>1, <2>2, <2>3, <2>4, <2>5, <2>6, <2>7 DEF TypeOK
<1>2. ReqShape'
  BY PairAssumption, BoundAssumption, NoWindowAssumption DEF IInv, Login, hubVars, windowVars, bounds, Pairs, Send, Kinds, TypeOK, RequestRecord, RefreshRecord, ReqShape, UnseenShape, OnItsWayOnce
<1>3. RefreshShape'
  BY PairAssumption, BoundAssumption, NoWindowAssumption DEF IInv, Login, hubVars, windowVars, bounds, Pairs, Send, Kinds, TypeOK, RequestRecord, RefreshRecord, RefreshShape, UnseenShape, OnItsWayOnce
<1>4. UnseenShape'
  BY PairAssumption, BoundAssumption, NoWindowAssumption DEF IInv, Login, hubVars, windowVars, bounds, Pairs, Send, Kinds, TypeOK, RequestRecord, RefreshRecord, UnseenShape, ReqShape, RefreshShape
<1>5. OnItsWayOnce'
  BY PairAssumption, BoundAssumption, NoWindowAssumption DEF IInv, Login, hubVars, windowVars, bounds, Pairs, Send, Kinds, TypeOK, RequestRecord, RefreshRecord, OnItsWayOnce, UnseenShape
<1>6. RotatedShape'
  BY PairAssumption, BoundAssumption, NoWindowAssumption DEF IInv, Login, hubVars, windowVars, bounds, Pairs, Send, Kinds, TypeOK, RequestRecord, RefreshRecord, RotatedShape, RefreshShape, ReqShape, UnseenShape
<1>7. RefusedShape'
  BY PairAssumption, BoundAssumption, NoWindowAssumption DEF IInv, Login, hubVars, windowVars, bounds, Pairs, Send, Kinds, TypeOK, RequestRecord, RefreshRecord, RefusedShape, RefreshShape, UnseenShape
<1>8. NobodyLeftWaiting'
  BY PairAssumption, BoundAssumption, NoWindowAssumption DEF IInv, Login, hubVars, windowVars, bounds, Pairs, Send, Kinds, TypeOK, RequestRecord, RefreshRecord, NobodyLeftWaiting, ReqShape
<1> QED
  BY <1>1, <1>2, <1>3, <1>4, <1>5, <1>6, <1>7, <1>8 DEF IInv

\* Logout preserves the invariant.
LEMMA LogoutKeeps ==
  ASSUME IInv, NEW w \in Windows, NEW s \in Slots, Logout(w, s)
  PROVE  IInv'
<1>1. TypeOK'
  <2>1. req' \in [Slots -> RequestRecord]
    BY PairAssumption, BoundAssumption, NoWindowAssumption DEF IInv, Logout, hubVars, windowVars, bounds, Pairs, Send, Kinds, TypeOK, RequestRecord
  <2>2. refresh' \in [Windows -> RefreshRecord]
    BY PairAssumption, BoundAssumption, NoWindowAssumption DEF IInv, Logout, hubVars, windowVars, bounds, Pairs, Send, Kinds, TypeOK, RefreshRecord
  <2>3. (issued \in 0..MaxPairs /\ live \in SUBSET (1..issued) /\ fresh \in SUBSET (1..issued))'
    BY PairAssumption, BoundAssumption, NoWindowAssumption DEF IInv, Logout, hubVars, windowVars, bounds, Pairs, Send, Kinds, TypeOK
  <2>4. (rotatedBy \in [Pairs -> Windows \cup {NoWindow}] /\ storage \in 0..MaxPairs)'
    BY PairAssumption, BoundAssumption, NoWindowAssumption DEF IInv, Logout, hubVars, windowVars, bounds, Pairs, Send, Kinds, TypeOK, RequestRecord, RefreshRecord
  <2>5. (unseen \in SUBSET Pairs)'
    BY PairAssumption, BoundAssumption, NoWindowAssumption DEF IInv, Logout, hubVars, windowVars, bounds, Pairs, Send, Kinds, TypeOK
  <2>6. (page \in [Windows -> {"login", "app"}] /\ toast \in [Windows -> BOOLEAN])'
    BY PairAssumption, BoundAssumption, NoWindowAssumption DEF IInv, Logout, hubVars, windowVars, bounds, Pairs, Send, Kinds, TypeOK
  <2>7. (requests \in 0..MaxRequests /\ faults \in 0..MaxFaults)'
    BY PairAssumption, BoundAssumption, NoWindowAssumption DEF IInv, Logout, hubVars, windowVars, bounds, Pairs, Send, Kinds, TypeOK
  <2> QED
    BY <2>1, <2>2, <2>3, <2>4, <2>5, <2>6, <2>7 DEF TypeOK
<1>2. ReqShape'
  BY PairAssumption, BoundAssumption, NoWindowAssumption DEF IInv, Logout, hubVars, windowVars, bounds, Pairs, Send, Kinds, TypeOK, RequestRecord, RefreshRecord, ReqShape, UnseenShape, OnItsWayOnce
<1>3. RefreshShape'
  BY PairAssumption, BoundAssumption, NoWindowAssumption DEF IInv, Logout, hubVars, windowVars, bounds, Pairs, Send, Kinds, TypeOK, RequestRecord, RefreshRecord, RefreshShape, UnseenShape, OnItsWayOnce
<1>4. UnseenShape'
  BY PairAssumption, BoundAssumption, NoWindowAssumption DEF IInv, Logout, hubVars, windowVars, bounds, Pairs, Send, Kinds, TypeOK, RequestRecord, RefreshRecord, UnseenShape, ReqShape, RefreshShape
<1>5. OnItsWayOnce'
  BY PairAssumption, BoundAssumption, NoWindowAssumption DEF IInv, Logout, hubVars, windowVars, bounds, Pairs, Send, Kinds, TypeOK, RequestRecord, RefreshRecord, OnItsWayOnce, UnseenShape
<1>6. RotatedShape'
  BY PairAssumption, BoundAssumption, NoWindowAssumption DEF IInv, Logout, hubVars, windowVars, bounds, Pairs, Send, Kinds, TypeOK, RequestRecord, RefreshRecord, RotatedShape, RefreshShape, ReqShape, UnseenShape
<1>7. RefusedShape'
  BY PairAssumption, BoundAssumption, NoWindowAssumption DEF IInv, Logout, hubVars, windowVars, bounds, Pairs, Send, Kinds, TypeOK, RequestRecord, RefreshRecord, RefusedShape, RefreshShape, UnseenShape
<1>8. NobodyLeftWaiting'
  BY PairAssumption, BoundAssumption, NoWindowAssumption DEF IInv, Logout, hubVars, windowVars, bounds, Pairs, Send, Kinds, TypeOK, RequestRecord, RefreshRecord, NobodyLeftWaiting, ReqShape
<1> QED
  BY <1>1, <1>2, <1>3, <1>4, <1>5, <1>6, <1>7, <1>8 DEF IInv

\* ChangePassword preserves the invariant.
LEMMA ChangePasswordKeeps ==
  ASSUME IInv, NEW s \in Slots, ChangePassword(s)
  PROVE  IInv'
<1>1. TypeOK'
  <2>1. req' \in [Slots -> RequestRecord]
    BY PairAssumption, BoundAssumption, NoWindowAssumption DEF IInv, ChangePassword, hubVars, windowVars, bounds, Pairs, Send, Kinds, TypeOK, RequestRecord
  <2>2. refresh' \in [Windows -> RefreshRecord]
    BY PairAssumption, BoundAssumption, NoWindowAssumption DEF IInv, ChangePassword, hubVars, windowVars, bounds, Pairs, Send, Kinds, TypeOK, RefreshRecord
  <2>3. (issued \in 0..MaxPairs /\ live \in SUBSET (1..issued) /\ fresh \in SUBSET (1..issued))'
    BY PairAssumption, BoundAssumption, NoWindowAssumption DEF IInv, ChangePassword, hubVars, windowVars, bounds, Pairs, Send, Kinds, TypeOK
  <2>4. (rotatedBy \in [Pairs -> Windows \cup {NoWindow}] /\ storage \in 0..MaxPairs)'
    BY PairAssumption, BoundAssumption, NoWindowAssumption DEF IInv, ChangePassword, hubVars, windowVars, bounds, Pairs, Send, Kinds, TypeOK, RequestRecord, RefreshRecord
  <2>5. (unseen \in SUBSET Pairs)'
    BY PairAssumption, BoundAssumption, NoWindowAssumption DEF IInv, ChangePassword, hubVars, windowVars, bounds, Pairs, Send, Kinds, TypeOK
  <2>6. (page \in [Windows -> {"login", "app"}] /\ toast \in [Windows -> BOOLEAN])'
    BY PairAssumption, BoundAssumption, NoWindowAssumption DEF IInv, ChangePassword, hubVars, windowVars, bounds, Pairs, Send, Kinds, TypeOK
  <2>7. (requests \in 0..MaxRequests /\ faults \in 0..MaxFaults)'
    BY PairAssumption, BoundAssumption, NoWindowAssumption DEF IInv, ChangePassword, hubVars, windowVars, bounds, Pairs, Send, Kinds, TypeOK
  <2> QED
    BY <2>1, <2>2, <2>3, <2>4, <2>5, <2>6, <2>7 DEF TypeOK
<1>2. ReqShape'
  BY PairAssumption, BoundAssumption, NoWindowAssumption DEF IInv, ChangePassword, hubVars, windowVars, bounds, Pairs, Send, Kinds, TypeOK, RequestRecord, RefreshRecord, ReqShape, UnseenShape, OnItsWayOnce
<1>3. RefreshShape'
  BY PairAssumption, BoundAssumption, NoWindowAssumption DEF IInv, ChangePassword, hubVars, windowVars, bounds, Pairs, Send, Kinds, TypeOK, RequestRecord, RefreshRecord, RefreshShape, UnseenShape, OnItsWayOnce
<1>4. UnseenShape'
  BY PairAssumption, BoundAssumption, NoWindowAssumption DEF IInv, ChangePassword, hubVars, windowVars, bounds, Pairs, Send, Kinds, TypeOK, RequestRecord, RefreshRecord, UnseenShape, ReqShape, RefreshShape
<1>5. OnItsWayOnce'
  BY PairAssumption, BoundAssumption, NoWindowAssumption DEF IInv, ChangePassword, hubVars, windowVars, bounds, Pairs, Send, Kinds, TypeOK, RequestRecord, RefreshRecord, OnItsWayOnce, UnseenShape
<1>6. RotatedShape'
  BY PairAssumption, BoundAssumption, NoWindowAssumption DEF IInv, ChangePassword, hubVars, windowVars, bounds, Pairs, Send, Kinds, TypeOK, RequestRecord, RefreshRecord, RotatedShape, RefreshShape, ReqShape, UnseenShape
<1>7. RefusedShape'
  BY PairAssumption, BoundAssumption, NoWindowAssumption DEF IInv, ChangePassword, hubVars, windowVars, bounds, Pairs, Send, Kinds, TypeOK, RequestRecord, RefreshRecord, RefusedShape, RefreshShape, UnseenShape
<1>8. NobodyLeftWaiting'
  BY PairAssumption, BoundAssumption, NoWindowAssumption DEF IInv, ChangePassword, hubVars, windowVars, bounds, Pairs, Send, Kinds, TypeOK, RequestRecord, RefreshRecord, NobodyLeftWaiting, ReqShape
<1> QED
  BY <1>1, <1>2, <1>3, <1>4, <1>5, <1>6, <1>7, <1>8 DEF IInv

\* AuthorizeApi preserves the invariant.
LEMMA AuthorizeApiKeeps ==
  ASSUME IInv, NEW s \in Slots, AuthorizeApi(s)
  PROVE  IInv'
<1>1. TypeOK'
  <2>1. req' \in [Slots -> RequestRecord]
    BY PairAssumption, BoundAssumption, NoWindowAssumption DEF IInv, AuthorizeApi, hubVars, windowVars, bounds, Pairs, Idle, Kinds, TypeOK, RequestRecord
  <2>2. refresh' \in [Windows -> RefreshRecord]
    BY PairAssumption, BoundAssumption, NoWindowAssumption DEF IInv, AuthorizeApi, hubVars, windowVars, bounds, Pairs, Idle, Kinds, TypeOK, RefreshRecord
  <2>3. (issued \in 0..MaxPairs /\ live \in SUBSET (1..issued) /\ fresh \in SUBSET (1..issued))'
    BY PairAssumption, BoundAssumption, NoWindowAssumption DEF IInv, AuthorizeApi, hubVars, windowVars, bounds, Pairs, Idle, Kinds, TypeOK
  <2>4. (rotatedBy \in [Pairs -> Windows \cup {NoWindow}] /\ storage \in 0..MaxPairs)'
    BY PairAssumption, BoundAssumption, NoWindowAssumption DEF IInv, AuthorizeApi, hubVars, windowVars, bounds, Pairs, Idle, Kinds, TypeOK, RequestRecord, RefreshRecord
  <2>5. (unseen \in SUBSET Pairs)'
    BY PairAssumption, BoundAssumption, NoWindowAssumption DEF IInv, AuthorizeApi, hubVars, windowVars, bounds, Pairs, Idle, Kinds, TypeOK
  <2>6. (page \in [Windows -> {"login", "app"}] /\ toast \in [Windows -> BOOLEAN])'
    BY PairAssumption, BoundAssumption, NoWindowAssumption DEF IInv, AuthorizeApi, hubVars, windowVars, bounds, Pairs, Idle, Kinds, TypeOK
  <2>7. (requests \in 0..MaxRequests /\ faults \in 0..MaxFaults)'
    BY PairAssumption, BoundAssumption, NoWindowAssumption DEF IInv, AuthorizeApi, hubVars, windowVars, bounds, Pairs, Idle, Kinds, TypeOK
  <2> QED
    BY <2>1, <2>2, <2>3, <2>4, <2>5, <2>6, <2>7 DEF TypeOK
<1>2. ReqShape'
  BY PairAssumption, BoundAssumption, NoWindowAssumption DEF IInv, AuthorizeApi, hubVars, windowVars, bounds, Pairs, Idle, Kinds, TypeOK, RequestRecord, RefreshRecord, ReqShape, UnseenShape, OnItsWayOnce
<1>3. RefreshShape'
  BY PairAssumption, BoundAssumption, NoWindowAssumption DEF IInv, AuthorizeApi, hubVars, windowVars, bounds, Pairs, Idle, Kinds, TypeOK, RequestRecord, RefreshRecord, RefreshShape, UnseenShape, OnItsWayOnce
<1>4. UnseenShape'
  BY PairAssumption, BoundAssumption, NoWindowAssumption DEF IInv, AuthorizeApi, hubVars, windowVars, bounds, Pairs, Idle, Kinds, TypeOK, RequestRecord, RefreshRecord, UnseenShape, ReqShape, RefreshShape
<1>5. OnItsWayOnce'
  BY PairAssumption, BoundAssumption, NoWindowAssumption DEF IInv, AuthorizeApi, hubVars, windowVars, bounds, Pairs, Idle, Kinds, TypeOK, RequestRecord, RefreshRecord, OnItsWayOnce, UnseenShape
<1>6. RotatedShape'
  BY PairAssumption, BoundAssumption, NoWindowAssumption DEF IInv, AuthorizeApi, hubVars, windowVars, bounds, Pairs, Idle, Kinds, TypeOK, RequestRecord, RefreshRecord, RotatedShape, RefreshShape, ReqShape, UnseenShape
<1>7. RefusedShape'
  BY PairAssumption, BoundAssumption, NoWindowAssumption DEF IInv, AuthorizeApi, hubVars, windowVars, bounds, Pairs, Idle, Kinds, TypeOK, RequestRecord, RefreshRecord, RefusedShape, RefreshShape, UnseenShape
<1>8. NobodyLeftWaiting'
  BY PairAssumption, BoundAssumption, NoWindowAssumption DEF IInv, AuthorizeApi, hubVars, windowVars, bounds, Pairs, Idle, Kinds, TypeOK, RequestRecord, RefreshRecord, NobodyLeftWaiting, ReqShape
<1> QED
  BY <1>1, <1>2, <1>3, <1>4, <1>5, <1>6, <1>7, <1>8 DEF IInv

\* AuthorizePassword preserves the invariant.
LEMMA AuthorizePasswordKeeps ==
  ASSUME IInv, NEW s \in Slots, AuthorizePassword(s)
  PROVE  IInv'
<1>1. TypeOK'
  <2>1. req' \in [Slots -> RequestRecord]
    BY PairAssumption, BoundAssumption, NoWindowAssumption DEF IInv, AuthorizePassword, hubVars, windowVars, bounds, Pairs, TypeOK, RequestRecord
  <2>2. refresh' \in [Windows -> RefreshRecord]
    BY PairAssumption, BoundAssumption, NoWindowAssumption DEF IInv, AuthorizePassword, hubVars, windowVars, bounds, Pairs, TypeOK, RefreshRecord
  <2>3. (issued \in 0..MaxPairs /\ live \in SUBSET (1..issued) /\ fresh \in SUBSET (1..issued))'
    BY PairAssumption, BoundAssumption, NoWindowAssumption DEF IInv, AuthorizePassword, hubVars, windowVars, bounds, Pairs, TypeOK
  <2>4. (rotatedBy \in [Pairs -> Windows \cup {NoWindow}] /\ storage \in 0..MaxPairs)'
    BY PairAssumption, BoundAssumption, NoWindowAssumption DEF IInv, AuthorizePassword, hubVars, windowVars, bounds, Pairs, TypeOK, RequestRecord, RefreshRecord
  <2>5. (unseen \in SUBSET Pairs)'
    BY PairAssumption, BoundAssumption, NoWindowAssumption DEF IInv, AuthorizePassword, hubVars, windowVars, bounds, Pairs, TypeOK
  <2>6. (page \in [Windows -> {"login", "app"}] /\ toast \in [Windows -> BOOLEAN])'
    BY PairAssumption, BoundAssumption, NoWindowAssumption DEF IInv, AuthorizePassword, hubVars, windowVars, bounds, Pairs, TypeOK
  <2>7. (requests \in 0..MaxRequests /\ faults \in 0..MaxFaults)'
    BY PairAssumption, BoundAssumption, NoWindowAssumption DEF IInv, AuthorizePassword, hubVars, windowVars, bounds, Pairs, TypeOK
  <2> QED
    BY <2>1, <2>2, <2>3, <2>4, <2>5, <2>6, <2>7 DEF TypeOK
<1>2. ReqShape'
  BY PairAssumption, BoundAssumption, NoWindowAssumption DEF IInv, AuthorizePassword, hubVars, windowVars, bounds, Pairs, TypeOK, RequestRecord, RefreshRecord, ReqShape, UnseenShape, OnItsWayOnce
<1>3. RefreshShape'
  BY PairAssumption, BoundAssumption, NoWindowAssumption DEF IInv, AuthorizePassword, hubVars, windowVars, bounds, Pairs, TypeOK, RequestRecord, RefreshRecord, RefreshShape, UnseenShape, OnItsWayOnce
<1>4. UnseenShape'
  BY PairAssumption, BoundAssumption, NoWindowAssumption DEF IInv, AuthorizePassword, hubVars, windowVars, bounds, Pairs, TypeOK, RequestRecord, RefreshRecord, UnseenShape, ReqShape, RefreshShape
<1>5. OnItsWayOnce'
  BY PairAssumption, BoundAssumption, NoWindowAssumption DEF IInv, AuthorizePassword, hubVars, windowVars, bounds, Pairs, TypeOK, RequestRecord, RefreshRecord, OnItsWayOnce, UnseenShape
<1>6. RotatedShape'
  BY PairAssumption, BoundAssumption, NoWindowAssumption DEF IInv, AuthorizePassword, hubVars, windowVars, bounds, Pairs, TypeOK, RequestRecord, RefreshRecord, RotatedShape, RefreshShape, ReqShape, UnseenShape
<1>7. RefusedShape'
  BY PairAssumption, BoundAssumption, NoWindowAssumption DEF IInv, AuthorizePassword, hubVars, windowVars, bounds, Pairs, TypeOK, RequestRecord, RefreshRecord, RefusedShape, RefreshShape, UnseenShape
<1>8. NobodyLeftWaiting'
  BY PairAssumption, BoundAssumption, NoWindowAssumption DEF IInv, AuthorizePassword, hubVars, windowVars, bounds, Pairs, TypeOK, RequestRecord, RefreshRecord, NobodyLeftWaiting, ReqShape
<1> QED
  BY <1>1, <1>2, <1>3, <1>4, <1>5, <1>6, <1>7, <1>8 DEF IInv

\* Unauthorize preserves the invariant.
LEMMA UnauthorizeKeeps ==
  ASSUME IInv, NEW s \in Slots, Unauthorize(s)
  PROVE  IInv'
<1>1. TypeOK'
  <2>1. req' \in [Slots -> RequestRecord]
    BY PairAssumption, BoundAssumption, NoWindowAssumption DEF IInv, Unauthorize, hubVars, windowVars, bounds, Pairs, TypeOK, RequestRecord
  <2>2. refresh' \in [Windows -> RefreshRecord]
    BY PairAssumption, BoundAssumption, NoWindowAssumption DEF IInv, Unauthorize, hubVars, windowVars, bounds, Pairs, TypeOK, RefreshRecord
  <2>3. (issued \in 0..MaxPairs /\ live \in SUBSET (1..issued) /\ fresh \in SUBSET (1..issued))'
    BY PairAssumption, BoundAssumption, NoWindowAssumption DEF IInv, Unauthorize, hubVars, windowVars, bounds, Pairs, TypeOK
  <2>4. (rotatedBy \in [Pairs -> Windows \cup {NoWindow}] /\ storage \in 0..MaxPairs)'
    BY PairAssumption, BoundAssumption, NoWindowAssumption DEF IInv, Unauthorize, hubVars, windowVars, bounds, Pairs, TypeOK, RequestRecord, RefreshRecord
  <2>5. (unseen \in SUBSET Pairs)'
    BY PairAssumption, BoundAssumption, NoWindowAssumption DEF IInv, Unauthorize, hubVars, windowVars, bounds, Pairs, TypeOK
  <2>6. (page \in [Windows -> {"login", "app"}] /\ toast \in [Windows -> BOOLEAN])'
    BY PairAssumption, BoundAssumption, NoWindowAssumption DEF IInv, Unauthorize, hubVars, windowVars, bounds, Pairs, TypeOK
  <2>7. (requests \in 0..MaxRequests /\ faults \in 0..MaxFaults)'
    BY PairAssumption, BoundAssumption, NoWindowAssumption DEF IInv, Unauthorize, hubVars, windowVars, bounds, Pairs, TypeOK
  <2> QED
    BY <2>1, <2>2, <2>3, <2>4, <2>5, <2>6, <2>7 DEF TypeOK
<1>2. ReqShape'
  BY PairAssumption, BoundAssumption, NoWindowAssumption DEF IInv, Unauthorize, hubVars, windowVars, bounds, Pairs, TypeOK, RequestRecord, RefreshRecord, ReqShape, UnseenShape, OnItsWayOnce
<1>3. RefreshShape'
  BY PairAssumption, BoundAssumption, NoWindowAssumption DEF IInv, Unauthorize, hubVars, windowVars, bounds, Pairs, TypeOK, RequestRecord, RefreshRecord, RefreshShape, UnseenShape, OnItsWayOnce
<1>4. UnseenShape'
  BY PairAssumption, BoundAssumption, NoWindowAssumption DEF IInv, Unauthorize, hubVars, windowVars, bounds, Pairs, TypeOK, RequestRecord, RefreshRecord, UnseenShape, ReqShape, RefreshShape
<1>5. OnItsWayOnce'
  BY PairAssumption, BoundAssumption, NoWindowAssumption DEF IInv, Unauthorize, hubVars, windowVars, bounds, Pairs, TypeOK, RequestRecord, RefreshRecord, OnItsWayOnce, UnseenShape
<1>6. RotatedShape'
  BY PairAssumption, BoundAssumption, NoWindowAssumption DEF IInv, Unauthorize, hubVars, windowVars, bounds, Pairs, TypeOK, RequestRecord, RefreshRecord, RotatedShape, RefreshShape, ReqShape, UnseenShape
<1>7. RefusedShape'
  BY PairAssumption, BoundAssumption, NoWindowAssumption DEF IInv, Unauthorize, hubVars, windowVars, bounds, Pairs, TypeOK, RequestRecord, RefreshRecord, RefusedShape, RefreshShape, UnseenShape
<1>8. NobodyLeftWaiting'
  BY PairAssumption, BoundAssumption, NoWindowAssumption DEF IInv, Unauthorize, hubVars, windowVars, bounds, Pairs, TypeOK, RequestRecord, RefreshRecord, NobodyLeftWaiting, ReqShape
<1> QED
  BY <1>1, <1>2, <1>3, <1>4, <1>5, <1>6, <1>7, <1>8 DEF IInv

\* LoginAccepted preserves the invariant.
LEMMA LoginAcceptedKeeps ==
  ASSUME IInv, NEW s \in Slots, LoginAccepted(s)
  PROVE  IInv'
<1>1. TypeOK'
  <2>1. req' \in [Slots -> RequestRecord]
    <3>1. PICK p \in Pairs : req' = [req EXCEPT ![s].st = "ok", ![s].pair = p]
      BY DEF LoginAccepted
    <3>2. p \in 0..MaxPairs
      BY DEF Pairs
    <3>3. req[s] \in RequestRecord
      BY DEF IInv, TypeOK
    <3>4. [req[s] EXCEPT !.st = "ok", !.pair = p] \in RequestRecord
      BY <3>2, <3>3, RequestType
    <3>5. req' = [req EXCEPT ![s] = [req[s] EXCEPT !.st = "ok", !.pair = p]]
      BY <3>1, <3>3 DEF IInv, TypeOK, RequestRecord
    <3> QED
      BY <3>4, <3>5 DEF IInv, TypeOK
  <2>2. refresh' \in [Windows -> RefreshRecord]
    BY PairAssumption, BoundAssumption, NoWindowAssumption DEF IInv, LoginAccepted, hubVars, windowVars, bounds, Pairs, IssueTokenPair, TypeOK, RefreshRecord
  <2>3. (issued \in 0..MaxPairs /\ live \in SUBSET (1..issued) /\ fresh \in SUBSET (1..issued))'
    BY PairAssumption, BoundAssumption, NoWindowAssumption DEF IInv, LoginAccepted, hubVars, windowVars, bounds, Pairs, IssueTokenPair, TypeOK
  <2>4. (rotatedBy \in [Pairs -> Windows \cup {NoWindow}] /\ storage \in 0..MaxPairs)'
    BY PairAssumption, BoundAssumption, NoWindowAssumption DEF IInv, LoginAccepted, hubVars, windowVars, bounds, Pairs, IssueTokenPair, TypeOK, RequestRecord, RefreshRecord
  <2>5. (unseen \in SUBSET Pairs)'
    BY PairAssumption, BoundAssumption, NoWindowAssumption DEF IInv, LoginAccepted, hubVars, windowVars, bounds, Pairs, IssueTokenPair, TypeOK
  <2>6. (page \in [Windows -> {"login", "app"}] /\ toast \in [Windows -> BOOLEAN])'
    BY PairAssumption, BoundAssumption, NoWindowAssumption DEF IInv, LoginAccepted, hubVars, windowVars, bounds, Pairs, IssueTokenPair, TypeOK
  <2>7. (requests \in 0..MaxRequests /\ faults \in 0..MaxFaults)'
    BY PairAssumption, BoundAssumption, NoWindowAssumption DEF IInv, LoginAccepted, hubVars, windowVars, bounds, Pairs, IssueTokenPair, TypeOK
  <2> QED
    BY <2>1, <2>2, <2>3, <2>4, <2>5, <2>6, <2>7 DEF TypeOK
<1>2. ReqShape'
  BY PairAssumption, BoundAssumption, NoWindowAssumption DEF IInv, LoginAccepted, hubVars, windowVars, bounds, Pairs, IssueTokenPair, TypeOK, RequestRecord, RefreshRecord, ReqShape, UnseenShape, OnItsWayOnce
<1>3. RefreshShape'
  BY PairAssumption, BoundAssumption, NoWindowAssumption DEF IInv, LoginAccepted, hubVars, windowVars, bounds, Pairs, IssueTokenPair, TypeOK, RequestRecord, RefreshRecord, RefreshShape, UnseenShape, OnItsWayOnce
<1>4. UnseenShape'
  BY PairAssumption, BoundAssumption, NoWindowAssumption DEF IInv, LoginAccepted, hubVars, windowVars, bounds, Pairs, IssueTokenPair, TypeOK, RequestRecord, RefreshRecord, UnseenShape, ReqShape, RefreshShape
<1>5. OnItsWayOnce'
  BY PairAssumption, BoundAssumption, NoWindowAssumption DEF IInv, LoginAccepted, hubVars, windowVars, bounds, Pairs, IssueTokenPair, TypeOK, RequestRecord, RefreshRecord, OnItsWayOnce, UnseenShape
<1>6. RotatedShape'
  BY PairAssumption, BoundAssumption, NoWindowAssumption DEF IInv, LoginAccepted, hubVars, windowVars, bounds, Pairs, IssueTokenPair, TypeOK, RequestRecord, RefreshRecord, RotatedShape, RefreshShape, ReqShape, UnseenShape
<1>7. RefusedShape'
  <2>1. \A v \in Windows : refresh[v].st # "none" => refresh[v].tok \in 1..issued
    BY RefreshIssued
  <2>2. /\ refresh' = refresh /\ fresh' = fresh \cup {issued + 1}
        /\ issued \in Nat
    BY DEF LoginAccepted, IssueTokenPair, IInv, TypeOK
  <2> QED
    BY <2>1, <2>2 DEF IInv, RefusedShape
<1>8. NobodyLeftWaiting'
  BY PairAssumption, BoundAssumption, NoWindowAssumption DEF IInv, LoginAccepted, hubVars, windowVars, bounds, Pairs, IssueTokenPair, TypeOK, RequestRecord, RefreshRecord, NobodyLeftWaiting, ReqShape
<1> QED
  BY <1>1, <1>2, <1>3, <1>4, <1>5, <1>6, <1>7, <1>8 DEF IInv

\* LoginRefused preserves the invariant.
LEMMA LoginRefusedKeeps ==
  ASSUME IInv, NEW s \in Slots, LoginRefused(s)
  PROVE  IInv'
<1>1. TypeOK'
  <2>1. req' \in [Slots -> RequestRecord]
    BY PairAssumption, BoundAssumption, NoWindowAssumption DEF IInv, LoginRefused, hubVars, windowVars, bounds, Pairs, TypeOK, RequestRecord
  <2>2. refresh' \in [Windows -> RefreshRecord]
    BY PairAssumption, BoundAssumption, NoWindowAssumption DEF IInv, LoginRefused, hubVars, windowVars, bounds, Pairs, TypeOK, RefreshRecord
  <2>3. (issued \in 0..MaxPairs /\ live \in SUBSET (1..issued) /\ fresh \in SUBSET (1..issued))'
    BY PairAssumption, BoundAssumption, NoWindowAssumption DEF IInv, LoginRefused, hubVars, windowVars, bounds, Pairs, TypeOK
  <2>4. (rotatedBy \in [Pairs -> Windows \cup {NoWindow}] /\ storage \in 0..MaxPairs)'
    BY PairAssumption, BoundAssumption, NoWindowAssumption DEF IInv, LoginRefused, hubVars, windowVars, bounds, Pairs, TypeOK, RequestRecord, RefreshRecord
  <2>5. (unseen \in SUBSET Pairs)'
    BY PairAssumption, BoundAssumption, NoWindowAssumption DEF IInv, LoginRefused, hubVars, windowVars, bounds, Pairs, TypeOK
  <2>6. (page \in [Windows -> {"login", "app"}] /\ toast \in [Windows -> BOOLEAN])'
    BY PairAssumption, BoundAssumption, NoWindowAssumption DEF IInv, LoginRefused, hubVars, windowVars, bounds, Pairs, TypeOK
  <2>7. (requests \in 0..MaxRequests /\ faults \in 0..MaxFaults)'
    BY PairAssumption, BoundAssumption, NoWindowAssumption DEF IInv, LoginRefused, hubVars, windowVars, bounds, Pairs, TypeOK
  <2> QED
    BY <2>1, <2>2, <2>3, <2>4, <2>5, <2>6, <2>7 DEF TypeOK
<1>2. ReqShape'
  BY PairAssumption, BoundAssumption, NoWindowAssumption DEF IInv, LoginRefused, hubVars, windowVars, bounds, Pairs, TypeOK, RequestRecord, RefreshRecord, ReqShape, UnseenShape, OnItsWayOnce
<1>3. RefreshShape'
  BY PairAssumption, BoundAssumption, NoWindowAssumption DEF IInv, LoginRefused, hubVars, windowVars, bounds, Pairs, TypeOK, RequestRecord, RefreshRecord, RefreshShape, UnseenShape, OnItsWayOnce
<1>4. UnseenShape'
  BY PairAssumption, BoundAssumption, NoWindowAssumption DEF IInv, LoginRefused, hubVars, windowVars, bounds, Pairs, TypeOK, RequestRecord, RefreshRecord, UnseenShape, ReqShape, RefreshShape
<1>5. OnItsWayOnce'
  BY PairAssumption, BoundAssumption, NoWindowAssumption DEF IInv, LoginRefused, hubVars, windowVars, bounds, Pairs, TypeOK, RequestRecord, RefreshRecord, OnItsWayOnce, UnseenShape
<1>6. RotatedShape'
  BY PairAssumption, BoundAssumption, NoWindowAssumption DEF IInv, LoginRefused, hubVars, windowVars, bounds, Pairs, TypeOK, RequestRecord, RefreshRecord, RotatedShape, RefreshShape, ReqShape, UnseenShape
<1>7. RefusedShape'
  BY PairAssumption, BoundAssumption, NoWindowAssumption DEF IInv, LoginRefused, hubVars, windowVars, bounds, Pairs, TypeOK, RequestRecord, RefreshRecord, RefusedShape, RefreshShape, UnseenShape
<1>8. NobodyLeftWaiting'
  BY PairAssumption, BoundAssumption, NoWindowAssumption DEF IInv, LoginRefused, hubVars, windowVars, bounds, Pairs, TypeOK, RequestRecord, RefreshRecord, NobodyLeftWaiting, ReqShape
<1> QED
  BY <1>1, <1>2, <1>3, <1>4, <1>5, <1>6, <1>7, <1>8 DEF IInv

\* LogoutAtHub preserves the invariant.
LEMMA LogoutAtHubKeeps ==
  ASSUME IInv, NEW s \in Slots, LogoutAtHub(s)
  PROVE  IInv'
<1>1. TypeOK'
  <2>1. req' \in [Slots -> RequestRecord]
    BY PairAssumption, BoundAssumption, NoWindowAssumption DEF IInv, LogoutAtHub, hubVars, windowVars, bounds, Pairs, TypeOK, RequestRecord
  <2>2. refresh' \in [Windows -> RefreshRecord]
    BY PairAssumption, BoundAssumption, NoWindowAssumption DEF IInv, LogoutAtHub, hubVars, windowVars, bounds, Pairs, TypeOK, RefreshRecord
  <2>3. (issued \in 0..MaxPairs /\ live \in SUBSET (1..issued) /\ fresh \in SUBSET (1..issued))'
    BY PairAssumption, BoundAssumption, NoWindowAssumption DEF IInv, LogoutAtHub, hubVars, windowVars, bounds, Pairs, TypeOK
  <2>4. (rotatedBy \in [Pairs -> Windows \cup {NoWindow}] /\ storage \in 0..MaxPairs)'
    BY PairAssumption, BoundAssumption, NoWindowAssumption DEF IInv, LogoutAtHub, hubVars, windowVars, bounds, Pairs, TypeOK, RequestRecord, RefreshRecord
  <2>5. (unseen \in SUBSET Pairs)'
    BY PairAssumption, BoundAssumption, NoWindowAssumption DEF IInv, LogoutAtHub, hubVars, windowVars, bounds, Pairs, TypeOK
  <2>6. (page \in [Windows -> {"login", "app"}] /\ toast \in [Windows -> BOOLEAN])'
    BY PairAssumption, BoundAssumption, NoWindowAssumption DEF IInv, LogoutAtHub, hubVars, windowVars, bounds, Pairs, TypeOK
  <2>7. (requests \in 0..MaxRequests /\ faults \in 0..MaxFaults)'
    BY PairAssumption, BoundAssumption, NoWindowAssumption DEF IInv, LogoutAtHub, hubVars, windowVars, bounds, Pairs, TypeOK
  <2> QED
    BY <2>1, <2>2, <2>3, <2>4, <2>5, <2>6, <2>7 DEF TypeOK
<1>2. ReqShape'
  BY PairAssumption, BoundAssumption, NoWindowAssumption DEF IInv, LogoutAtHub, hubVars, windowVars, bounds, Pairs, TypeOK, RequestRecord, RefreshRecord, ReqShape, UnseenShape, OnItsWayOnce
<1>3. RefreshShape'
  BY PairAssumption, BoundAssumption, NoWindowAssumption DEF IInv, LogoutAtHub, hubVars, windowVars, bounds, Pairs, TypeOK, RequestRecord, RefreshRecord, RefreshShape, UnseenShape, OnItsWayOnce
<1>4. UnseenShape'
  BY PairAssumption, BoundAssumption, NoWindowAssumption DEF IInv, LogoutAtHub, hubVars, windowVars, bounds, Pairs, TypeOK, RequestRecord, RefreshRecord, UnseenShape, ReqShape, RefreshShape
<1>5. OnItsWayOnce'
  BY PairAssumption, BoundAssumption, NoWindowAssumption DEF IInv, LogoutAtHub, hubVars, windowVars, bounds, Pairs, TypeOK, RequestRecord, RefreshRecord, OnItsWayOnce, UnseenShape
<1>6. RotatedShape'
  BY PairAssumption, BoundAssumption, NoWindowAssumption DEF IInv, LogoutAtHub, hubVars, windowVars, bounds, Pairs, TypeOK, RequestRecord, RefreshRecord, RotatedShape, RefreshShape, ReqShape, UnseenShape
<1>7. RefusedShape'
  BY PairAssumption, BoundAssumption, NoWindowAssumption DEF IInv, LogoutAtHub, hubVars, windowVars, bounds, Pairs, TypeOK, RequestRecord, RefreshRecord, RefusedShape, RefreshShape, UnseenShape
<1>8. NobodyLeftWaiting'
  BY PairAssumption, BoundAssumption, NoWindowAssumption DEF IInv, LogoutAtHub, hubVars, windowVars, bounds, Pairs, TypeOK, RequestRecord, RefreshRecord, NobodyLeftWaiting, ReqShape
<1> QED
  BY <1>1, <1>2, <1>3, <1>4, <1>5, <1>6, <1>7, <1>8 DEF IInv

\* JoinRefresh preserves the invariant.
LEMMA JoinRefreshKeeps ==
  ASSUME IInv, NEW s \in Slots, JoinRefresh(s)
  PROVE  IInv'
<1>1. TypeOK'
  <2>1. req' \in [Slots -> RequestRecord]
    BY PairAssumption, BoundAssumption, NoWindowAssumption DEF IInv, JoinRefresh, hubVars, windowVars, bounds, Pairs, TypeOK, RequestRecord
  <2>2. refresh' \in [Windows -> RefreshRecord]
    <3>1. storage \in 0..MaxPairs
      BY DEF IInv, TypeOK
    <3>2. [st |-> "sent", tok |-> storage, pair |-> 0] \in RefreshRecord
      BY <3>1, PairAssumption DEF RefreshRecord
    <3> QED
      BY <3>2 DEF JoinRefresh, IInv, TypeOK
  <2>3. (issued \in 0..MaxPairs /\ live \in SUBSET (1..issued) /\ fresh \in SUBSET (1..issued))'
    BY PairAssumption, BoundAssumption, NoWindowAssumption DEF IInv, JoinRefresh, hubVars, windowVars, bounds, Pairs, TypeOK
  <2>4. (rotatedBy \in [Pairs -> Windows \cup {NoWindow}] /\ storage \in 0..MaxPairs)'
    BY PairAssumption, BoundAssumption, NoWindowAssumption DEF IInv, JoinRefresh, hubVars, windowVars, bounds, Pairs, TypeOK, RequestRecord, RefreshRecord
  <2>5. (unseen \in SUBSET Pairs)'
    BY PairAssumption, BoundAssumption, NoWindowAssumption DEF IInv, JoinRefresh, hubVars, windowVars, bounds, Pairs, TypeOK
  <2>6. (page \in [Windows -> {"login", "app"}] /\ toast \in [Windows -> BOOLEAN])'
    BY PairAssumption, BoundAssumption, NoWindowAssumption DEF IInv, JoinRefresh, hubVars, windowVars, bounds, Pairs, TypeOK
  <2>7. (requests \in 0..MaxRequests /\ faults \in 0..MaxFaults)'
    BY PairAssumption, BoundAssumption, NoWindowAssumption DEF IInv, JoinRefresh, hubVars, windowVars, bounds, Pairs, TypeOK
  <2> QED
    BY <2>1, <2>2, <2>3, <2>4, <2>5, <2>6, <2>7 DEF TypeOK
<1>2. ReqShape'
  BY PairAssumption, BoundAssumption, NoWindowAssumption DEF IInv, JoinRefresh, hubVars, windowVars, bounds, Pairs, TypeOK, RequestRecord, RefreshRecord, ReqShape, UnseenShape, OnItsWayOnce
<1>3. RefreshShape'
  BY PairAssumption, BoundAssumption, NoWindowAssumption DEF IInv, JoinRefresh, hubVars, windowVars, bounds, Pairs, TypeOK, RequestRecord, RefreshRecord, RefreshShape, UnseenShape, OnItsWayOnce
<1>4. UnseenShape'
  BY PairAssumption, BoundAssumption, NoWindowAssumption DEF IInv, JoinRefresh, hubVars, windowVars, bounds, Pairs, TypeOK, RequestRecord, RefreshRecord, UnseenShape, ReqShape, RefreshShape
<1>5. OnItsWayOnce'
  BY PairAssumption, BoundAssumption, NoWindowAssumption DEF IInv, JoinRefresh, hubVars, windowVars, bounds, Pairs, TypeOK, RequestRecord, RefreshRecord, OnItsWayOnce, UnseenShape
<1>6. RotatedShape'
  BY PairAssumption, BoundAssumption, NoWindowAssumption DEF IInv, JoinRefresh, hubVars, windowVars, bounds, Pairs, TypeOK, RequestRecord, RefreshRecord, RotatedShape, RefreshShape, ReqShape, UnseenShape
<1>7. RefusedShape'
  BY PairAssumption, BoundAssumption, NoWindowAssumption DEF IInv, JoinRefresh, hubVars, windowVars, bounds, Pairs, TypeOK, RequestRecord, RefreshRecord, RefusedShape, RefreshShape, UnseenShape
<1>8. NobodyLeftWaiting'
  BY PairAssumption, BoundAssumption, NoWindowAssumption DEF IInv, JoinRefresh, hubVars, windowVars, bounds, Pairs, TypeOK, RequestRecord, RefreshRecord, NobodyLeftWaiting, ReqShape
<1> QED
  BY <1>1, <1>2, <1>3, <1>4, <1>5, <1>6, <1>7, <1>8 DEF IInv

\* GiveUp preserves the invariant.
LEMMA GiveUpKeeps ==
  ASSUME IInv, NEW s \in Slots, GiveUp(s)
  PROVE  IInv'
<1>0. PICK r \in RequestRecord :
         /\ req' = [req EXCEPT ![s] = r]
         /\ r.pair = 0 /\ r.st \in {"idle", "sent"} /\ (r.st # "idle" => r.win = req[s].win)
  <2>1. req[s] \in RequestRecord /\ storage \in 0..MaxPairs
    BY DEF IInv, TypeOK
  <2>2. req' = [req EXCEPT ![s] = AfterUndefined(req[s], storage)]
    BY DEF GiveUp
  <2> QED
    BY <2>1, <2>2, AfterUndefinedType
<1>00. req[s].st = "unauthorized" /\ UNCHANGED <<issued, live, fresh, rotatedBy, storage, unseen, refresh>>
  BY DEF GiveUp, hubVars
<1>1. TypeOK'
  <2>1. req' \in [Slots -> RequestRecord]
    BY <1>0 DEF IInv, TypeOK
  <2>2. refresh' \in [Windows -> RefreshRecord]
    BY PairAssumption, BoundAssumption, NoWindowAssumption DEF IInv, GiveUp, hubVars, windowVars, bounds, Pairs, Guarded, TypeOK, RefreshRecord
  <2>3. (issued \in 0..MaxPairs /\ live \in SUBSET (1..issued) /\ fresh \in SUBSET (1..issued))'
    BY PairAssumption, BoundAssumption, NoWindowAssumption DEF IInv, GiveUp, hubVars, windowVars, bounds, Pairs, Guarded, TypeOK
  <2>4. (rotatedBy \in [Pairs -> Windows \cup {NoWindow}] /\ storage \in 0..MaxPairs)'
    BY PairAssumption, BoundAssumption, NoWindowAssumption DEF IInv, GiveUp, hubVars, windowVars, bounds, Pairs, Guarded, TypeOK, RequestRecord, RefreshRecord
  <2>5. (unseen \in SUBSET Pairs)'
    BY PairAssumption, BoundAssumption, NoWindowAssumption DEF IInv, GiveUp, hubVars, windowVars, bounds, Pairs, Guarded, TypeOK
  <2>6. (page \in [Windows -> {"login", "app"}] /\ toast \in [Windows -> BOOLEAN])'
    BY PairAssumption, BoundAssumption, NoWindowAssumption DEF IInv, GiveUp, hubVars, windowVars, bounds, Pairs, Guarded, TypeOK
  <2>7. (requests \in 0..MaxRequests /\ faults \in 0..MaxFaults)'
    BY PairAssumption, BoundAssumption, NoWindowAssumption DEF IInv, GiveUp, hubVars, windowVars, bounds, Pairs, Guarded, TypeOK
  <2> QED
    BY <2>1, <2>2, <2>3, <2>4, <2>5, <2>6, <2>7 DEF TypeOK
<1>2. ReqShape'
  BY <1>0, <1>00, PairAssumption DEF IInv, TypeOK, RequestRecord, RefreshRecord, Pairs, ReqShape, UnseenShape, OnItsWayOnce
<1>3. RefreshShape'
  BY PairAssumption, BoundAssumption, NoWindowAssumption DEF IInv, GiveUp, hubVars, windowVars, bounds, Pairs, Guarded, TypeOK, RequestRecord, RefreshRecord, RefreshShape, UnseenShape, OnItsWayOnce
<1>4. UnseenShape'
  BY <1>0, <1>00, PairAssumption DEF IInv, TypeOK, RequestRecord, RefreshRecord, Pairs, UnseenShape, ReqShape, RefreshShape
<1>5. OnItsWayOnce'
  BY <1>0, <1>00, PairAssumption DEF IInv, TypeOK, RequestRecord, RefreshRecord, Pairs, OnItsWayOnce, UnseenShape
<1>6. RotatedShape'
  BY PairAssumption, BoundAssumption, NoWindowAssumption DEF IInv, GiveUp, hubVars, windowVars, bounds, Pairs, Guarded, TypeOK, RequestRecord, RefreshRecord, RotatedShape, RefreshShape, ReqShape, UnseenShape
<1>7. RefusedShape'
  BY PairAssumption, BoundAssumption, NoWindowAssumption DEF IInv, GiveUp, hubVars, windowVars, bounds, Pairs, Guarded, TypeOK, RequestRecord, RefreshRecord, RefusedShape, RefreshShape, UnseenShape
<1>8. NobodyLeftWaiting'
  BY <1>0, <1>00, PairAssumption DEF IInv, TypeOK, RequestRecord, RefreshRecord, Pairs, NobodyLeftWaiting, ReqShape
<1> QED
  BY <1>1, <1>2, <1>3, <1>4, <1>5, <1>6, <1>7, <1>8 DEF IInv

\* AnswerPassword preserves the invariant.
LEMMA AnswerPasswordKeeps ==
  ASSUME IInv, NEW s \in Slots, AnswerPassword(s)
  PROVE  IInv'
<1>1. TypeOK'
  <2>1. req' \in [Slots -> RequestRecord]
    BY PairAssumption, BoundAssumption, NoWindowAssumption DEF IInv, AnswerPassword, hubVars, windowVars, bounds, Pairs, Send, Guarded, Kinds, TypeOK, RequestRecord
  <2>2. refresh' \in [Windows -> RefreshRecord]
    BY PairAssumption, BoundAssumption, NoWindowAssumption DEF IInv, AnswerPassword, hubVars, windowVars, bounds, Pairs, Send, Guarded, Kinds, TypeOK, RefreshRecord
  <2>3. (issued \in 0..MaxPairs /\ live \in SUBSET (1..issued) /\ fresh \in SUBSET (1..issued))'
    BY PairAssumption, BoundAssumption, NoWindowAssumption DEF IInv, AnswerPassword, hubVars, windowVars, bounds, Pairs, Send, Guarded, Kinds, TypeOK
  <2>4. (rotatedBy \in [Pairs -> Windows \cup {NoWindow}] /\ storage \in 0..MaxPairs)'
    BY PairAssumption, BoundAssumption, NoWindowAssumption DEF IInv, AnswerPassword, hubVars, windowVars, bounds, Pairs, Send, Guarded, Kinds, TypeOK, RequestRecord, RefreshRecord
  <2>5. (unseen \in SUBSET Pairs)'
    BY PairAssumption, BoundAssumption, NoWindowAssumption DEF IInv, AnswerPassword, hubVars, windowVars, bounds, Pairs, Send, Guarded, Kinds, TypeOK
  <2>6. (page \in [Windows -> {"login", "app"}] /\ toast \in [Windows -> BOOLEAN])'
    BY PairAssumption, BoundAssumption, NoWindowAssumption DEF IInv, AnswerPassword, hubVars, windowVars, bounds, Pairs, Send, Guarded, Kinds, TypeOK
  <2>7. (requests \in 0..MaxRequests /\ faults \in 0..MaxFaults)'
    BY PairAssumption, BoundAssumption, NoWindowAssumption DEF IInv, AnswerPassword, hubVars, windowVars, bounds, Pairs, Send, Guarded, Kinds, TypeOK
  <2> QED
    BY <2>1, <2>2, <2>3, <2>4, <2>5, <2>6, <2>7 DEF TypeOK
<1>2. ReqShape'
  BY PairAssumption, BoundAssumption, NoWindowAssumption DEF IInv, AnswerPassword, hubVars, windowVars, bounds, Pairs, Send, Guarded, Kinds, TypeOK, RequestRecord, RefreshRecord, ReqShape, UnseenShape, OnItsWayOnce
<1>3. RefreshShape'
  BY PairAssumption, BoundAssumption, NoWindowAssumption DEF IInv, AnswerPassword, hubVars, windowVars, bounds, Pairs, Send, Guarded, Kinds, TypeOK, RequestRecord, RefreshRecord, RefreshShape, UnseenShape, OnItsWayOnce
<1>4. UnseenShape'
  BY PairAssumption, BoundAssumption, NoWindowAssumption DEF IInv, AnswerPassword, hubVars, windowVars, bounds, Pairs, Send, Guarded, Kinds, TypeOK, RequestRecord, RefreshRecord, UnseenShape, ReqShape, RefreshShape
<1>5. OnItsWayOnce'
  BY PairAssumption, BoundAssumption, NoWindowAssumption DEF IInv, AnswerPassword, hubVars, windowVars, bounds, Pairs, Send, Guarded, Kinds, TypeOK, RequestRecord, RefreshRecord, OnItsWayOnce, UnseenShape
<1>6. RotatedShape'
  BY PairAssumption, BoundAssumption, NoWindowAssumption DEF IInv, AnswerPassword, hubVars, windowVars, bounds, Pairs, Send, Guarded, Kinds, TypeOK, RequestRecord, RefreshRecord, RotatedShape, RefreshShape, ReqShape, UnseenShape
<1>7. RefusedShape'
  BY PairAssumption, BoundAssumption, NoWindowAssumption DEF IInv, AnswerPassword, hubVars, windowVars, bounds, Pairs, Send, Guarded, Kinds, TypeOK, RequestRecord, RefreshRecord, RefusedShape, RefreshShape, UnseenShape
<1>8. NobodyLeftWaiting'
  BY PairAssumption, BoundAssumption, NoWindowAssumption DEF IInv, AnswerPassword, hubVars, windowVars, bounds, Pairs, Send, Guarded, Kinds, TypeOK, RequestRecord, RefreshRecord, NobodyLeftWaiting, ReqShape
<1> QED
  BY <1>1, <1>2, <1>3, <1>4, <1>5, <1>6, <1>7, <1>8 DEF IInv

\* AnswerLogin preserves the invariant.
LEMMA AnswerLoginKeeps ==
  ASSUME IInv, NEW s \in Slots, AnswerLogin(s)
  PROVE  IInv'
<1>1. TypeOK'
  <2>1. req' \in [Slots -> RequestRecord]
    <3>1. req[s].win \in Windows \cup {NoWindow} /\ req[s].pair \in 0..MaxPairs
      BY DEF IInv, TypeOK, RequestRecord
    <3>2. [Idle EXCEPT !.st = "sent", !.win = req[s].win, !.tok = req[s].pair] \in RequestRecord
      BY <3>1, IdleUpdate
    <3> QED
      BY <3>2 DEF AnswerLogin, IInv, TypeOK
  <2>2. refresh' \in [Windows -> RefreshRecord]
    BY PairAssumption, BoundAssumption, NoWindowAssumption DEF IInv, AnswerLogin, hubVars, windowVars, bounds, Pairs, Idle, Guarded, Kinds, TypeOK, RefreshRecord
  <2>3. (issued \in 0..MaxPairs /\ live \in SUBSET (1..issued) /\ fresh \in SUBSET (1..issued))'
    BY PairAssumption, BoundAssumption, NoWindowAssumption DEF IInv, AnswerLogin, hubVars, windowVars, bounds, Pairs, Idle, Guarded, Kinds, TypeOK
  <2>4. (rotatedBy \in [Pairs -> Windows \cup {NoWindow}] /\ storage \in 0..MaxPairs)'
    BY PairAssumption, BoundAssumption, NoWindowAssumption DEF IInv, AnswerLogin, hubVars, windowVars, bounds, Pairs, Idle, Guarded, Kinds, TypeOK, RequestRecord, RefreshRecord
  <2>5. (unseen \in SUBSET Pairs)'
    BY PairAssumption, BoundAssumption, NoWindowAssumption DEF IInv, AnswerLogin, hubVars, windowVars, bounds, Pairs, Idle, Guarded, Kinds, TypeOK
  <2>6. (page \in [Windows -> {"login", "app"}] /\ toast \in [Windows -> BOOLEAN])'
    BY PairAssumption, BoundAssumption, NoWindowAssumption DEF IInv, AnswerLogin, hubVars, windowVars, bounds, Pairs, Idle, Guarded, Kinds, TypeOK
  <2>7. (requests \in 0..MaxRequests /\ faults \in 0..MaxFaults)'
    BY PairAssumption, BoundAssumption, NoWindowAssumption DEF IInv, AnswerLogin, hubVars, windowVars, bounds, Pairs, Idle, Guarded, Kinds, TypeOK
  <2> QED
    BY <2>1, <2>2, <2>3, <2>4, <2>5, <2>6, <2>7 DEF TypeOK
<1>2. ReqShape'
  BY PairAssumption, BoundAssumption, NoWindowAssumption DEF IInv, AnswerLogin, hubVars, windowVars, bounds, Pairs, Idle, Guarded, Kinds, TypeOK, RequestRecord, RefreshRecord, ReqShape, UnseenShape, OnItsWayOnce
<1>3. RefreshShape'
  BY PairAssumption, BoundAssumption, NoWindowAssumption DEF IInv, AnswerLogin, hubVars, windowVars, bounds, Pairs, Idle, Guarded, Kinds, TypeOK, RequestRecord, RefreshRecord, RefreshShape, UnseenShape, OnItsWayOnce
<1>4. UnseenShape'
  BY PairAssumption, BoundAssumption, NoWindowAssumption DEF IInv, AnswerLogin, hubVars, windowVars, bounds, Pairs, Idle, Guarded, Kinds, TypeOK, RequestRecord, RefreshRecord, UnseenShape, ReqShape, RefreshShape
<1>5. OnItsWayOnce'
  BY PairAssumption, BoundAssumption, NoWindowAssumption DEF IInv, AnswerLogin, hubVars, windowVars, bounds, Pairs, Idle, Guarded, Kinds, TypeOK, RequestRecord, RefreshRecord, OnItsWayOnce, UnseenShape
<1>6. RotatedShape'
  BY PairAssumption, BoundAssumption, NoWindowAssumption DEF IInv, AnswerLogin, hubVars, windowVars, bounds, Pairs, Idle, Guarded, Kinds, TypeOK, RequestRecord, RefreshRecord, RotatedShape, RefreshShape, ReqShape, UnseenShape
<1>7. RefusedShape'
  BY PairAssumption, BoundAssumption, NoWindowAssumption DEF IInv, AnswerLogin, hubVars, windowVars, bounds, Pairs, Idle, Guarded, Kinds, TypeOK, RequestRecord, RefreshRecord, RefusedShape, RefreshShape, UnseenShape
<1>8. NobodyLeftWaiting'
  BY PairAssumption, BoundAssumption, NoWindowAssumption DEF IInv, AnswerLogin, hubVars, windowVars, bounds, Pairs, Idle, Guarded, Kinds, TypeOK, RequestRecord, RefreshRecord, NobodyLeftWaiting, ReqShape
<1> QED
  BY <1>1, <1>2, <1>3, <1>4, <1>5, <1>6, <1>7, <1>8 DEF IInv

\* AnswerLoginPrompt preserves the invariant.
LEMMA AnswerLoginPromptKeeps ==
  ASSUME IInv, NEW s \in Slots, AnswerLoginPrompt(s)
  PROVE  IInv'
<1>1. TypeOK'
  <2>1. req' \in [Slots -> RequestRecord]
    <3>1. req[s].win \in Windows \cup {NoWindow} /\ req[s].pair \in 0..MaxPairs
      BY DEF IInv, TypeOK, RequestRecord
    <3>2. [Idle EXCEPT !.st = "prompt", !.win = req[s].win] \in RequestRecord
      BY <3>1, IdleUpdate
    <3> QED
      BY <3>2 DEF AnswerLoginPrompt, IInv, TypeOK
  <2>2. refresh' \in [Windows -> RefreshRecord]
    BY PairAssumption, BoundAssumption, NoWindowAssumption DEF IInv, AnswerLoginPrompt, hubVars, windowVars, bounds, Pairs, Idle, Kinds, TypeOK, RefreshRecord
  <2>3. (issued \in 0..MaxPairs /\ live \in SUBSET (1..issued) /\ fresh \in SUBSET (1..issued))'
    BY PairAssumption, BoundAssumption, NoWindowAssumption DEF IInv, AnswerLoginPrompt, hubVars, windowVars, bounds, Pairs, Idle, Kinds, TypeOK
  <2>4. (rotatedBy \in [Pairs -> Windows \cup {NoWindow}] /\ storage \in 0..MaxPairs)'
    BY PairAssumption, BoundAssumption, NoWindowAssumption DEF IInv, AnswerLoginPrompt, hubVars, windowVars, bounds, Pairs, Idle, Kinds, TypeOK, RequestRecord, RefreshRecord
  <2>5. (unseen \in SUBSET Pairs)'
    BY PairAssumption, BoundAssumption, NoWindowAssumption DEF IInv, AnswerLoginPrompt, hubVars, windowVars, bounds, Pairs, Idle, Kinds, TypeOK
  <2>6. (page \in [Windows -> {"login", "app"}] /\ toast \in [Windows -> BOOLEAN])'
    BY PairAssumption, BoundAssumption, NoWindowAssumption DEF IInv, AnswerLoginPrompt, hubVars, windowVars, bounds, Pairs, Idle, Kinds, TypeOK
  <2>7. (requests \in 0..MaxRequests /\ faults \in 0..MaxFaults)'
    BY PairAssumption, BoundAssumption, NoWindowAssumption DEF IInv, AnswerLoginPrompt, hubVars, windowVars, bounds, Pairs, Idle, Kinds, TypeOK
  <2> QED
    BY <2>1, <2>2, <2>3, <2>4, <2>5, <2>6, <2>7 DEF TypeOK
<1>2. ReqShape'
  BY PairAssumption, BoundAssumption, NoWindowAssumption DEF IInv, AnswerLoginPrompt, hubVars, windowVars, bounds, Pairs, Idle, Kinds, TypeOK, RequestRecord, RefreshRecord, ReqShape, UnseenShape, OnItsWayOnce
<1>3. RefreshShape'
  BY PairAssumption, BoundAssumption, NoWindowAssumption DEF IInv, AnswerLoginPrompt, hubVars, windowVars, bounds, Pairs, Idle, Kinds, TypeOK, RequestRecord, RefreshRecord, RefreshShape, UnseenShape, OnItsWayOnce
<1>4. UnseenShape'
  BY PairAssumption, BoundAssumption, NoWindowAssumption DEF IInv, AnswerLoginPrompt, hubVars, windowVars, bounds, Pairs, Idle, Kinds, TypeOK, RequestRecord, RefreshRecord, UnseenShape, ReqShape, RefreshShape
<1>5. OnItsWayOnce'
  BY PairAssumption, BoundAssumption, NoWindowAssumption DEF IInv, AnswerLoginPrompt, hubVars, windowVars, bounds, Pairs, Idle, Kinds, TypeOK, RequestRecord, RefreshRecord, OnItsWayOnce, UnseenShape
<1>6. RotatedShape'
  BY PairAssumption, BoundAssumption, NoWindowAssumption DEF IInv, AnswerLoginPrompt, hubVars, windowVars, bounds, Pairs, Idle, Kinds, TypeOK, RequestRecord, RefreshRecord, RotatedShape, RefreshShape, ReqShape, UnseenShape
<1>7. RefusedShape'
  BY PairAssumption, BoundAssumption, NoWindowAssumption DEF IInv, AnswerLoginPrompt, hubVars, windowVars, bounds, Pairs, Idle, Kinds, TypeOK, RequestRecord, RefreshRecord, RefusedShape, RefreshShape, UnseenShape
<1>8. NobodyLeftWaiting'
  BY PairAssumption, BoundAssumption, NoWindowAssumption DEF IInv, AnswerLoginPrompt, hubVars, windowVars, bounds, Pairs, Idle, Kinds, TypeOK, RequestRecord, RefreshRecord, NobodyLeftWaiting, ReqShape
<1> QED
  BY <1>1, <1>2, <1>3, <1>4, <1>5, <1>6, <1>7, <1>8 DEF IInv

\* LogoutTimer preserves the invariant.
LEMMA LogoutTimerKeeps ==
  ASSUME IInv, NEW s \in Slots, LogoutTimer(s)
  PROVE  IInv'
<1>1. TypeOK'
  <2>1. req' \in [Slots -> RequestRecord]
    BY PairAssumption, BoundAssumption, NoWindowAssumption DEF IInv, LogoutTimer, hubVars, windowVars, bounds, Pairs, Idle, Kinds, TypeOK, RequestRecord
  <2>2. refresh' \in [Windows -> RefreshRecord]
    BY PairAssumption, BoundAssumption, NoWindowAssumption DEF IInv, LogoutTimer, hubVars, windowVars, bounds, Pairs, Idle, Kinds, TypeOK, RefreshRecord
  <2>3. (issued \in 0..MaxPairs /\ live \in SUBSET (1..issued) /\ fresh \in SUBSET (1..issued))'
    BY PairAssumption, BoundAssumption, NoWindowAssumption DEF IInv, LogoutTimer, hubVars, windowVars, bounds, Pairs, Idle, Kinds, TypeOK
  <2>4. (rotatedBy \in [Pairs -> Windows \cup {NoWindow}] /\ storage \in 0..MaxPairs)'
    BY PairAssumption, BoundAssumption, NoWindowAssumption DEF IInv, LogoutTimer, hubVars, windowVars, bounds, Pairs, Idle, Kinds, TypeOK, RequestRecord, RefreshRecord
  <2>5. (unseen \in SUBSET Pairs)'
    BY PairAssumption, BoundAssumption, NoWindowAssumption DEF IInv, LogoutTimer, hubVars, windowVars, bounds, Pairs, Idle, Kinds, TypeOK
  <2>6. (page \in [Windows -> {"login", "app"}] /\ toast \in [Windows -> BOOLEAN])'
    BY PairAssumption, BoundAssumption, NoWindowAssumption DEF IInv, LogoutTimer, hubVars, windowVars, bounds, Pairs, Idle, Kinds, TypeOK
  <2>7. (requests \in 0..MaxRequests /\ faults \in 0..MaxFaults)'
    BY PairAssumption, BoundAssumption, NoWindowAssumption DEF IInv, LogoutTimer, hubVars, windowVars, bounds, Pairs, Idle, Kinds, TypeOK
  <2> QED
    BY <2>1, <2>2, <2>3, <2>4, <2>5, <2>6, <2>7 DEF TypeOK
<1>2. ReqShape'
  BY PairAssumption, BoundAssumption, NoWindowAssumption DEF IInv, LogoutTimer, hubVars, windowVars, bounds, Pairs, Idle, Kinds, TypeOK, RequestRecord, RefreshRecord, ReqShape, UnseenShape, OnItsWayOnce
<1>3. RefreshShape'
  BY PairAssumption, BoundAssumption, NoWindowAssumption DEF IInv, LogoutTimer, hubVars, windowVars, bounds, Pairs, Idle, Kinds, TypeOK, RequestRecord, RefreshRecord, RefreshShape, UnseenShape, OnItsWayOnce
<1>4. UnseenShape'
  BY PairAssumption, BoundAssumption, NoWindowAssumption DEF IInv, LogoutTimer, hubVars, windowVars, bounds, Pairs, Idle, Kinds, TypeOK, RequestRecord, RefreshRecord, UnseenShape, ReqShape, RefreshShape
<1>5. OnItsWayOnce'
  BY PairAssumption, BoundAssumption, NoWindowAssumption DEF IInv, LogoutTimer, hubVars, windowVars, bounds, Pairs, Idle, Kinds, TypeOK, RequestRecord, RefreshRecord, OnItsWayOnce, UnseenShape
<1>6. RotatedShape'
  BY PairAssumption, BoundAssumption, NoWindowAssumption DEF IInv, LogoutTimer, hubVars, windowVars, bounds, Pairs, Idle, Kinds, TypeOK, RequestRecord, RefreshRecord, RotatedShape, RefreshShape, ReqShape, UnseenShape
<1>7. RefusedShape'
  BY PairAssumption, BoundAssumption, NoWindowAssumption DEF IInv, LogoutTimer, hubVars, windowVars, bounds, Pairs, Idle, Kinds, TypeOK, RequestRecord, RefreshRecord, RefusedShape, RefreshShape, UnseenShape
<1>8. NobodyLeftWaiting'
  BY PairAssumption, BoundAssumption, NoWindowAssumption DEF IInv, LogoutTimer, hubVars, windowVars, bounds, Pairs, Idle, Kinds, TypeOK, RequestRecord, RefreshRecord, NobodyLeftWaiting, ReqShape
<1> QED
  BY <1>1, <1>2, <1>3, <1>4, <1>5, <1>6, <1>7, <1>8 DEF IInv

\* RequestLost preserves the invariant.
LEMMA RequestLostKeeps ==
  ASSUME IInv, NEW s \in Slots, RequestLost(s)
  PROVE  IInv'
<1>1. TypeOK'
  <2>1. req' \in [Slots -> RequestRecord]
    BY PairAssumption, BoundAssumption, NoWindowAssumption DEF IInv, RequestLost, hubVars, windowVars, bounds, Pairs, Idle, Kinds, TypeOK, RequestRecord
  <2>2. refresh' \in [Windows -> RefreshRecord]
    BY PairAssumption, BoundAssumption, NoWindowAssumption DEF IInv, RequestLost, hubVars, windowVars, bounds, Pairs, Idle, Kinds, TypeOK, RefreshRecord
  <2>3. (issued \in 0..MaxPairs /\ live \in SUBSET (1..issued) /\ fresh \in SUBSET (1..issued))'
    BY PairAssumption, BoundAssumption, NoWindowAssumption DEF IInv, RequestLost, hubVars, windowVars, bounds, Pairs, Idle, Kinds, TypeOK
  <2>4. (rotatedBy \in [Pairs -> Windows \cup {NoWindow}] /\ storage \in 0..MaxPairs)'
    BY PairAssumption, BoundAssumption, NoWindowAssumption DEF IInv, RequestLost, hubVars, windowVars, bounds, Pairs, Idle, Kinds, TypeOK, RequestRecord, RefreshRecord
  <2>5. (unseen \in SUBSET Pairs)'
    BY PairAssumption, BoundAssumption, NoWindowAssumption DEF IInv, RequestLost, hubVars, windowVars, bounds, Pairs, Idle, Kinds, TypeOK
  <2>6. (page \in [Windows -> {"login", "app"}] /\ toast \in [Windows -> BOOLEAN])'
    BY PairAssumption, BoundAssumption, NoWindowAssumption DEF IInv, RequestLost, hubVars, windowVars, bounds, Pairs, Idle, Kinds, TypeOK
  <2>7. (requests \in 0..MaxRequests /\ faults \in 0..MaxFaults)'
    BY PairAssumption, BoundAssumption, NoWindowAssumption DEF IInv, RequestLost, hubVars, windowVars, bounds, Pairs, Idle, Kinds, TypeOK
  <2> QED
    BY <2>1, <2>2, <2>3, <2>4, <2>5, <2>6, <2>7 DEF TypeOK
<1>2. ReqShape'
  BY PairAssumption, BoundAssumption, NoWindowAssumption DEF IInv, RequestLost, hubVars, windowVars, bounds, Pairs, Idle, Kinds, TypeOK, RequestRecord, RefreshRecord, ReqShape, UnseenShape, OnItsWayOnce
<1>3. RefreshShape'
  BY PairAssumption, BoundAssumption, NoWindowAssumption DEF IInv, RequestLost, hubVars, windowVars, bounds, Pairs, Idle, Kinds, TypeOK, RequestRecord, RefreshRecord, RefreshShape, UnseenShape, OnItsWayOnce
<1>4. UnseenShape'
  BY PairAssumption, BoundAssumption, NoWindowAssumption DEF IInv, RequestLost, hubVars, windowVars, bounds, Pairs, Idle, Kinds, TypeOK, RequestRecord, RefreshRecord, UnseenShape, ReqShape, RefreshShape
<1>5. OnItsWayOnce'
  BY PairAssumption, BoundAssumption, NoWindowAssumption DEF IInv, RequestLost, hubVars, windowVars, bounds, Pairs, Idle, Kinds, TypeOK, RequestRecord, RefreshRecord, OnItsWayOnce, UnseenShape
<1>6. RotatedShape'
  BY PairAssumption, BoundAssumption, NoWindowAssumption DEF IInv, RequestLost, hubVars, windowVars, bounds, Pairs, Idle, Kinds, TypeOK, RequestRecord, RefreshRecord, RotatedShape, RefreshShape, ReqShape, UnseenShape
<1>7. RefusedShape'
  BY PairAssumption, BoundAssumption, NoWindowAssumption DEF IInv, RequestLost, hubVars, windowVars, bounds, Pairs, Idle, Kinds, TypeOK, RequestRecord, RefreshRecord, RefusedShape, RefreshShape, UnseenShape
<1>8. NobodyLeftWaiting'
  BY PairAssumption, BoundAssumption, NoWindowAssumption DEF IInv, RequestLost, hubVars, windowVars, bounds, Pairs, Idle, Kinds, TypeOK, RequestRecord, RefreshRecord, NobodyLeftWaiting, ReqShape
<1> QED
  BY <1>1, <1>2, <1>3, <1>4, <1>5, <1>6, <1>7, <1>8 DEF IInv

\* LogoutLost preserves the invariant.
LEMMA LogoutLostKeeps ==
  ASSUME IInv, NEW s \in Slots, LogoutLost(s)
  PROVE  IInv'
<1>1. TypeOK'
  <2>1. req' \in [Slots -> RequestRecord]
    BY PairAssumption, BoundAssumption, NoWindowAssumption DEF IInv, LogoutLost, hubVars, windowVars, bounds, Pairs, TypeOK, RequestRecord
  <2>2. refresh' \in [Windows -> RefreshRecord]
    BY PairAssumption, BoundAssumption, NoWindowAssumption DEF IInv, LogoutLost, hubVars, windowVars, bounds, Pairs, TypeOK, RefreshRecord
  <2>3. (issued \in 0..MaxPairs /\ live \in SUBSET (1..issued) /\ fresh \in SUBSET (1..issued))'
    BY PairAssumption, BoundAssumption, NoWindowAssumption DEF IInv, LogoutLost, hubVars, windowVars, bounds, Pairs, TypeOK
  <2>4. (rotatedBy \in [Pairs -> Windows \cup {NoWindow}] /\ storage \in 0..MaxPairs)'
    BY PairAssumption, BoundAssumption, NoWindowAssumption DEF IInv, LogoutLost, hubVars, windowVars, bounds, Pairs, TypeOK, RequestRecord, RefreshRecord
  <2>5. (unseen \in SUBSET Pairs)'
    BY PairAssumption, BoundAssumption, NoWindowAssumption DEF IInv, LogoutLost, hubVars, windowVars, bounds, Pairs, TypeOK
  <2>6. (page \in [Windows -> {"login", "app"}] /\ toast \in [Windows -> BOOLEAN])'
    BY PairAssumption, BoundAssumption, NoWindowAssumption DEF IInv, LogoutLost, hubVars, windowVars, bounds, Pairs, TypeOK
  <2>7. (requests \in 0..MaxRequests /\ faults \in 0..MaxFaults)'
    BY PairAssumption, BoundAssumption, NoWindowAssumption DEF IInv, LogoutLost, hubVars, windowVars, bounds, Pairs, TypeOK
  <2> QED
    BY <2>1, <2>2, <2>3, <2>4, <2>5, <2>6, <2>7 DEF TypeOK
<1>2. ReqShape'
  BY PairAssumption, BoundAssumption, NoWindowAssumption DEF IInv, LogoutLost, hubVars, windowVars, bounds, Pairs, TypeOK, RequestRecord, RefreshRecord, ReqShape, UnseenShape, OnItsWayOnce
<1>3. RefreshShape'
  BY PairAssumption, BoundAssumption, NoWindowAssumption DEF IInv, LogoutLost, hubVars, windowVars, bounds, Pairs, TypeOK, RequestRecord, RefreshRecord, RefreshShape, UnseenShape, OnItsWayOnce
<1>4. UnseenShape'
  BY PairAssumption, BoundAssumption, NoWindowAssumption DEF IInv, LogoutLost, hubVars, windowVars, bounds, Pairs, TypeOK, RequestRecord, RefreshRecord, UnseenShape, ReqShape, RefreshShape
<1>5. OnItsWayOnce'
  BY PairAssumption, BoundAssumption, NoWindowAssumption DEF IInv, LogoutLost, hubVars, windowVars, bounds, Pairs, TypeOK, RequestRecord, RefreshRecord, OnItsWayOnce, UnseenShape
<1>6. RotatedShape'
  BY PairAssumption, BoundAssumption, NoWindowAssumption DEF IInv, LogoutLost, hubVars, windowVars, bounds, Pairs, TypeOK, RequestRecord, RefreshRecord, RotatedShape, RefreshShape, ReqShape, UnseenShape
<1>7. RefusedShape'
  BY PairAssumption, BoundAssumption, NoWindowAssumption DEF IInv, LogoutLost, hubVars, windowVars, bounds, Pairs, TypeOK, RequestRecord, RefreshRecord, RefusedShape, RefreshShape, UnseenShape
<1>8. NobodyLeftWaiting'
  BY PairAssumption, BoundAssumption, NoWindowAssumption DEF IInv, LogoutLost, hubVars, windowVars, bounds, Pairs, TypeOK, RequestRecord, RefreshRecord, NobodyLeftWaiting, ReqShape
<1> QED
  BY <1>1, <1>2, <1>3, <1>4, <1>5, <1>6, <1>7, <1>8 DEF IInv

\* Navigate preserves the invariant.
LEMMA NavigateKeeps ==
  ASSUME IInv, NEW w \in Windows, Navigate(w)
  PROVE  IInv'
<1>1. TypeOK'
  <2>1. req' \in [Slots -> RequestRecord]
    BY PairAssumption, BoundAssumption, NoWindowAssumption DEF IInv, Navigate, hubVars, windowVars, bounds, Pairs, Guarded, TypeOK, RequestRecord
  <2>2. refresh' \in [Windows -> RefreshRecord]
    BY PairAssumption, BoundAssumption, NoWindowAssumption DEF IInv, Navigate, hubVars, windowVars, bounds, Pairs, Guarded, TypeOK, RefreshRecord
  <2>3. (issued \in 0..MaxPairs /\ live \in SUBSET (1..issued) /\ fresh \in SUBSET (1..issued))'
    BY PairAssumption, BoundAssumption, NoWindowAssumption DEF IInv, Navigate, hubVars, windowVars, bounds, Pairs, Guarded, TypeOK
  <2>4. (rotatedBy \in [Pairs -> Windows \cup {NoWindow}] /\ storage \in 0..MaxPairs)'
    BY PairAssumption, BoundAssumption, NoWindowAssumption DEF IInv, Navigate, hubVars, windowVars, bounds, Pairs, Guarded, TypeOK, RequestRecord, RefreshRecord
  <2>5. (unseen \in SUBSET Pairs)'
    BY PairAssumption, BoundAssumption, NoWindowAssumption DEF IInv, Navigate, hubVars, windowVars, bounds, Pairs, Guarded, TypeOK
  <2>6. (page \in [Windows -> {"login", "app"}] /\ toast \in [Windows -> BOOLEAN])'
    BY PairAssumption, BoundAssumption, NoWindowAssumption DEF IInv, Navigate, hubVars, windowVars, bounds, Pairs, Guarded, TypeOK
  <2>7. (requests \in 0..MaxRequests /\ faults \in 0..MaxFaults)'
    BY PairAssumption, BoundAssumption, NoWindowAssumption DEF IInv, Navigate, hubVars, windowVars, bounds, Pairs, Guarded, TypeOK
  <2> QED
    BY <2>1, <2>2, <2>3, <2>4, <2>5, <2>6, <2>7 DEF TypeOK
<1>2. ReqShape'
  BY PairAssumption, BoundAssumption, NoWindowAssumption DEF IInv, Navigate, hubVars, windowVars, bounds, Pairs, Guarded, TypeOK, RequestRecord, RefreshRecord, ReqShape, UnseenShape, OnItsWayOnce
<1>3. RefreshShape'
  BY PairAssumption, BoundAssumption, NoWindowAssumption DEF IInv, Navigate, hubVars, windowVars, bounds, Pairs, Guarded, TypeOK, RequestRecord, RefreshRecord, RefreshShape, UnseenShape, OnItsWayOnce
<1>4. UnseenShape'
  BY PairAssumption, BoundAssumption, NoWindowAssumption DEF IInv, Navigate, hubVars, windowVars, bounds, Pairs, Guarded, TypeOK, RequestRecord, RefreshRecord, UnseenShape, ReqShape, RefreshShape
<1>5. OnItsWayOnce'
  BY PairAssumption, BoundAssumption, NoWindowAssumption DEF IInv, Navigate, hubVars, windowVars, bounds, Pairs, Guarded, TypeOK, RequestRecord, RefreshRecord, OnItsWayOnce, UnseenShape
<1>6. RotatedShape'
  BY PairAssumption, BoundAssumption, NoWindowAssumption DEF IInv, Navigate, hubVars, windowVars, bounds, Pairs, Guarded, TypeOK, RequestRecord, RefreshRecord, RotatedShape, RefreshShape, ReqShape, UnseenShape
<1>7. RefusedShape'
  BY PairAssumption, BoundAssumption, NoWindowAssumption DEF IInv, Navigate, hubVars, windowVars, bounds, Pairs, Guarded, TypeOK, RequestRecord, RefreshRecord, RefusedShape, RefreshShape, UnseenShape
<1>8. NobodyLeftWaiting'
  BY PairAssumption, BoundAssumption, NoWindowAssumption DEF IInv, Navigate, hubVars, windowVars, bounds, Pairs, Guarded, TypeOK, RequestRecord, RefreshRecord, NobodyLeftWaiting, ReqShape
<1> QED
  BY <1>1, <1>2, <1>3, <1>4, <1>5, <1>6, <1>7, <1>8 DEF IInv

\* Reload preserves the invariant.
LEMMA ReloadKeeps ==
  ASSUME IInv, NEW w \in Windows, Reload(w)
  PROVE  IInv'
<1>1. TypeOK'
  <2>1. req' \in [Slots -> RequestRecord]
    BY PairAssumption, BoundAssumption, NoWindowAssumption DEF IInv, Reload, hubVars, windowVars, bounds, Pairs, Guarded, Idle, NoRefresh, Kinds, TypeOK, RequestRecord
  <2>2. refresh' \in [Windows -> RefreshRecord]
    BY PairAssumption, BoundAssumption, NoWindowAssumption DEF IInv, Reload, hubVars, windowVars, bounds, Pairs, Guarded, Idle, NoRefresh, Kinds, TypeOK, RefreshRecord
  <2>3. (issued \in 0..MaxPairs /\ live \in SUBSET (1..issued) /\ fresh \in SUBSET (1..issued))'
    BY PairAssumption, BoundAssumption, NoWindowAssumption DEF IInv, Reload, hubVars, windowVars, bounds, Pairs, Guarded, Idle, NoRefresh, Kinds, TypeOK
  <2>4. (rotatedBy \in [Pairs -> Windows \cup {NoWindow}] /\ storage \in 0..MaxPairs)'
    BY PairAssumption, BoundAssumption, NoWindowAssumption DEF IInv, Reload, hubVars, windowVars, bounds, Pairs, Guarded, Idle, NoRefresh, Kinds, TypeOK, RequestRecord, RefreshRecord
  <2>5. (unseen \in SUBSET Pairs)'
    BY PairAssumption, BoundAssumption, NoWindowAssumption DEF IInv, Reload, hubVars, windowVars, bounds, Pairs, Guarded, Idle, NoRefresh, Kinds, TypeOK
  <2>6. (page \in [Windows -> {"login", "app"}] /\ toast \in [Windows -> BOOLEAN])'
    BY PairAssumption, BoundAssumption, NoWindowAssumption DEF IInv, Reload, hubVars, windowVars, bounds, Pairs, Guarded, Idle, NoRefresh, Kinds, TypeOK
  <2>7. (requests \in 0..MaxRequests /\ faults \in 0..MaxFaults)'
    BY PairAssumption, BoundAssumption, NoWindowAssumption DEF IInv, Reload, hubVars, windowVars, bounds, Pairs, Guarded, Idle, NoRefresh, Kinds, TypeOK
  <2> QED
    BY <2>1, <2>2, <2>3, <2>4, <2>5, <2>6, <2>7 DEF TypeOK
<1>2. ReqShape'
  BY PairAssumption, BoundAssumption, NoWindowAssumption DEF IInv, Reload, hubVars, windowVars, bounds, Pairs, Guarded, Idle, NoRefresh, Kinds, TypeOK, RequestRecord, RefreshRecord, ReqShape, UnseenShape, OnItsWayOnce
<1>3. RefreshShape'
  BY PairAssumption, BoundAssumption, NoWindowAssumption DEF IInv, Reload, hubVars, windowVars, bounds, Pairs, Guarded, Idle, NoRefresh, Kinds, TypeOK, RequestRecord, RefreshRecord, RefreshShape, UnseenShape, OnItsWayOnce
<1>4. UnseenShape'
  BY PairAssumption, BoundAssumption, NoWindowAssumption DEF IInv, Reload, hubVars, windowVars, bounds, Pairs, Guarded, Idle, NoRefresh, Kinds, TypeOK, RequestRecord, RefreshRecord, UnseenShape, ReqShape, RefreshShape
<1>5. OnItsWayOnce'
  BY PairAssumption, BoundAssumption, NoWindowAssumption DEF IInv, Reload, hubVars, windowVars, bounds, Pairs, Guarded, Idle, NoRefresh, Kinds, TypeOK, RequestRecord, RefreshRecord, OnItsWayOnce, UnseenShape
<1>6. RotatedShape'
  BY PairAssumption, BoundAssumption, NoWindowAssumption DEF IInv, Reload, hubVars, windowVars, bounds, Pairs, Guarded, Idle, NoRefresh, Kinds, TypeOK, RequestRecord, RefreshRecord, RotatedShape, RefreshShape, ReqShape, UnseenShape
<1>7. RefusedShape'
  BY PairAssumption, BoundAssumption, NoWindowAssumption DEF IInv, Reload, hubVars, windowVars, bounds, Pairs, Guarded, Idle, NoRefresh, Kinds, TypeOK, RequestRecord, RefreshRecord, RefusedShape, RefreshShape, UnseenShape
<1>8. NobodyLeftWaiting'
  BY PairAssumption, BoundAssumption, NoWindowAssumption DEF IInv, Reload, hubVars, windowVars, bounds, Pairs, Guarded, Idle, NoRefresh, Kinds, TypeOK, RequestRecord, RefreshRecord, NobodyLeftWaiting, ReqShape
<1> QED
  BY <1>1, <1>2, <1>3, <1>4, <1>5, <1>6, <1>7, <1>8 DEF IInv

\* ToastTimer preserves the invariant.
LEMMA ToastTimerKeeps ==
  ASSUME IInv, NEW w \in Windows, ToastTimer(w)
  PROVE  IInv'
<1>1. TypeOK'
  <2>1. req' \in [Slots -> RequestRecord]
    BY PairAssumption, BoundAssumption, NoWindowAssumption DEF IInv, ToastTimer, hubVars, windowVars, bounds, Pairs, TypeOK, RequestRecord
  <2>2. refresh' \in [Windows -> RefreshRecord]
    BY PairAssumption, BoundAssumption, NoWindowAssumption DEF IInv, ToastTimer, hubVars, windowVars, bounds, Pairs, TypeOK, RefreshRecord
  <2>3. (issued \in 0..MaxPairs /\ live \in SUBSET (1..issued) /\ fresh \in SUBSET (1..issued))'
    BY PairAssumption, BoundAssumption, NoWindowAssumption DEF IInv, ToastTimer, hubVars, windowVars, bounds, Pairs, TypeOK
  <2>4. (rotatedBy \in [Pairs -> Windows \cup {NoWindow}] /\ storage \in 0..MaxPairs)'
    BY PairAssumption, BoundAssumption, NoWindowAssumption DEF IInv, ToastTimer, hubVars, windowVars, bounds, Pairs, TypeOK, RequestRecord, RefreshRecord
  <2>5. (unseen \in SUBSET Pairs)'
    BY PairAssumption, BoundAssumption, NoWindowAssumption DEF IInv, ToastTimer, hubVars, windowVars, bounds, Pairs, TypeOK
  <2>6. (page \in [Windows -> {"login", "app"}] /\ toast \in [Windows -> BOOLEAN])'
    BY PairAssumption, BoundAssumption, NoWindowAssumption DEF IInv, ToastTimer, hubVars, windowVars, bounds, Pairs, TypeOK
  <2>7. (requests \in 0..MaxRequests /\ faults \in 0..MaxFaults)'
    BY PairAssumption, BoundAssumption, NoWindowAssumption DEF IInv, ToastTimer, hubVars, windowVars, bounds, Pairs, TypeOK
  <2> QED
    BY <2>1, <2>2, <2>3, <2>4, <2>5, <2>6, <2>7 DEF TypeOK
<1>2. ReqShape'
  BY PairAssumption, BoundAssumption, NoWindowAssumption DEF IInv, ToastTimer, hubVars, windowVars, bounds, Pairs, TypeOK, RequestRecord, RefreshRecord, ReqShape, UnseenShape, OnItsWayOnce
<1>3. RefreshShape'
  BY PairAssumption, BoundAssumption, NoWindowAssumption DEF IInv, ToastTimer, hubVars, windowVars, bounds, Pairs, TypeOK, RequestRecord, RefreshRecord, RefreshShape, UnseenShape, OnItsWayOnce
<1>4. UnseenShape'
  BY PairAssumption, BoundAssumption, NoWindowAssumption DEF IInv, ToastTimer, hubVars, windowVars, bounds, Pairs, TypeOK, RequestRecord, RefreshRecord, UnseenShape, ReqShape, RefreshShape
<1>5. OnItsWayOnce'
  BY PairAssumption, BoundAssumption, NoWindowAssumption DEF IInv, ToastTimer, hubVars, windowVars, bounds, Pairs, TypeOK, RequestRecord, RefreshRecord, OnItsWayOnce, UnseenShape
<1>6. RotatedShape'
  BY PairAssumption, BoundAssumption, NoWindowAssumption DEF IInv, ToastTimer, hubVars, windowVars, bounds, Pairs, TypeOK, RequestRecord, RefreshRecord, RotatedShape, RefreshShape, ReqShape, UnseenShape
<1>7. RefusedShape'
  BY PairAssumption, BoundAssumption, NoWindowAssumption DEF IInv, ToastTimer, hubVars, windowVars, bounds, Pairs, TypeOK, RequestRecord, RefreshRecord, RefusedShape, RefreshShape, UnseenShape
<1>8. NobodyLeftWaiting'
  BY PairAssumption, BoundAssumption, NoWindowAssumption DEF IInv, ToastTimer, hubVars, windowVars, bounds, Pairs, TypeOK, RequestRecord, RefreshRecord, NobodyLeftWaiting, ReqShape
<1> QED
  BY <1>1, <1>2, <1>3, <1>4, <1>5, <1>6, <1>7, <1>8 DEF IInv

\* RefreshAccepted preserves the invariant.
LEMMA RefreshAcceptedKeeps ==
  ASSUME IInv, NEW w \in Windows, RefreshAccepted(w)
  PROVE  IInv'
<1>1. TypeOK'
  <2>1. req' \in [Slots -> RequestRecord]
    BY PairAssumption, BoundAssumption, NoWindowAssumption DEF IInv, RefreshAccepted, hubVars, windowVars, bounds, Pairs, IssueTokenPair, TypeOK, RequestRecord
  <2>2. refresh' \in [Windows -> RefreshRecord]
    <3>1. PICK p \in Pairs : refresh' = [refresh EXCEPT ![w].st = "new", ![w].pair = p]
      BY DEF RefreshAccepted
    <3>2. p \in 0..MaxPairs
      BY DEF Pairs
    <3>3. refresh[w] \in RefreshRecord
      BY DEF IInv, TypeOK
    <3>4. [refresh[w] EXCEPT !.st = "new", !.pair = p] \in RefreshRecord
      BY <3>2, <3>3, RefreshType
    <3>5. refresh' = [refresh EXCEPT ![w] = [refresh[w] EXCEPT !.st = "new", !.pair = p]]
      BY <3>1, <3>3 DEF IInv, TypeOK, RefreshRecord
    <3> QED
      BY <3>4, <3>5 DEF IInv, TypeOK
  <2>3. (issued \in 0..MaxPairs /\ live \in SUBSET (1..issued) /\ fresh \in SUBSET (1..issued))'
    BY PairAssumption, BoundAssumption, NoWindowAssumption DEF IInv, RefreshAccepted, hubVars, windowVars, bounds, Pairs, IssueTokenPair, TypeOK
  <2>4. (rotatedBy \in [Pairs -> Windows \cup {NoWindow}] /\ storage \in 0..MaxPairs)'
    BY PairAssumption, BoundAssumption, NoWindowAssumption DEF IInv, RefreshAccepted, hubVars, windowVars, bounds, Pairs, IssueTokenPair, TypeOK, RequestRecord, RefreshRecord
  <2>5. (unseen \in SUBSET Pairs)'
    BY PairAssumption, BoundAssumption, NoWindowAssumption DEF IInv, RefreshAccepted, hubVars, windowVars, bounds, Pairs, IssueTokenPair, TypeOK
  <2>6. (page \in [Windows -> {"login", "app"}] /\ toast \in [Windows -> BOOLEAN])'
    BY PairAssumption, BoundAssumption, NoWindowAssumption DEF IInv, RefreshAccepted, hubVars, windowVars, bounds, Pairs, IssueTokenPair, TypeOK
  <2>7. (requests \in 0..MaxRequests /\ faults \in 0..MaxFaults)'
    BY PairAssumption, BoundAssumption, NoWindowAssumption DEF IInv, RefreshAccepted, hubVars, windowVars, bounds, Pairs, IssueTokenPair, TypeOK
  <2> QED
    BY <2>1, <2>2, <2>3, <2>4, <2>5, <2>6, <2>7 DEF TypeOK
<1>2. ReqShape'
  BY PairAssumption, BoundAssumption, NoWindowAssumption DEF IInv, RefreshAccepted, hubVars, windowVars, bounds, Pairs, IssueTokenPair, TypeOK, RequestRecord, RefreshRecord, ReqShape, UnseenShape, OnItsWayOnce
<1>3. RefreshShape'
  BY PairAssumption, BoundAssumption, NoWindowAssumption DEF IInv, RefreshAccepted, hubVars, windowVars, bounds, Pairs, IssueTokenPair, TypeOK, RequestRecord, RefreshRecord, RefreshShape, UnseenShape, OnItsWayOnce
<1>4. UnseenShape'
  BY PairAssumption, BoundAssumption, NoWindowAssumption DEF IInv, RefreshAccepted, hubVars, windowVars, bounds, Pairs, IssueTokenPair, TypeOK, RequestRecord, RefreshRecord, UnseenShape, ReqShape, RefreshShape
<1>5. OnItsWayOnce'
  BY PairAssumption, BoundAssumption, NoWindowAssumption DEF IInv, RefreshAccepted, hubVars, windowVars, bounds, Pairs, IssueTokenPair, TypeOK, RequestRecord, RefreshRecord, OnItsWayOnce, UnseenShape
<1>6. RotatedShape'
  BY PairAssumption, BoundAssumption, NoWindowAssumption DEF IInv, RefreshAccepted, hubVars, windowVars, bounds, Pairs, IssueTokenPair, TypeOK, RequestRecord, RefreshRecord, RotatedShape, RefreshShape, ReqShape, UnseenShape
<1>7. RefusedShape'
  <2>1. \A v \in Windows : refresh[v].st # "none" => refresh[v].tok \in 1..issued
    BY RefreshIssued
  <2> QED
    BY <2>1, PairAssumption, BoundAssumption, NoWindowAssumption DEF IInv, TypeOK, RequestRecord, RefreshRecord, RefusedShape, RefreshAccepted, IssueTokenPair, Pairs, hubVars, windowVars
<1>8. NobodyLeftWaiting'
  BY PairAssumption, BoundAssumption, NoWindowAssumption DEF IInv, RefreshAccepted, hubVars, windowVars, bounds, Pairs, IssueTokenPair, TypeOK, RequestRecord, RefreshRecord, NobodyLeftWaiting, ReqShape
<1> QED
  BY <1>1, <1>2, <1>3, <1>4, <1>5, <1>6, <1>7, <1>8 DEF IInv

\* RefreshRefused preserves the invariant.
LEMMA RefreshRefusedKeeps ==
  ASSUME IInv, NEW w \in Windows, RefreshRefused(w)
  PROVE  IInv'
<1>1. TypeOK'
  <2>1. req' \in [Slots -> RequestRecord]
    BY PairAssumption, BoundAssumption, NoWindowAssumption DEF IInv, RefreshRefused, hubVars, windowVars, bounds, Pairs, TypeOK, RequestRecord
  <2>2. refresh' \in [Windows -> RefreshRecord]
    BY PairAssumption, BoundAssumption, NoWindowAssumption DEF IInv, RefreshRefused, hubVars, windowVars, bounds, Pairs, TypeOK, RefreshRecord
  <2>3. (issued \in 0..MaxPairs /\ live \in SUBSET (1..issued) /\ fresh \in SUBSET (1..issued))'
    BY PairAssumption, BoundAssumption, NoWindowAssumption DEF IInv, RefreshRefused, hubVars, windowVars, bounds, Pairs, TypeOK
  <2>4. (rotatedBy \in [Pairs -> Windows \cup {NoWindow}] /\ storage \in 0..MaxPairs)'
    BY PairAssumption, BoundAssumption, NoWindowAssumption DEF IInv, RefreshRefused, hubVars, windowVars, bounds, Pairs, TypeOK, RequestRecord, RefreshRecord
  <2>5. (unseen \in SUBSET Pairs)'
    BY PairAssumption, BoundAssumption, NoWindowAssumption DEF IInv, RefreshRefused, hubVars, windowVars, bounds, Pairs, TypeOK
  <2>6. (page \in [Windows -> {"login", "app"}] /\ toast \in [Windows -> BOOLEAN])'
    BY PairAssumption, BoundAssumption, NoWindowAssumption DEF IInv, RefreshRefused, hubVars, windowVars, bounds, Pairs, TypeOK
  <2>7. (requests \in 0..MaxRequests /\ faults \in 0..MaxFaults)'
    BY PairAssumption, BoundAssumption, NoWindowAssumption DEF IInv, RefreshRefused, hubVars, windowVars, bounds, Pairs, TypeOK
  <2> QED
    BY <2>1, <2>2, <2>3, <2>4, <2>5, <2>6, <2>7 DEF TypeOK
<1>2. ReqShape'
  BY PairAssumption, BoundAssumption, NoWindowAssumption DEF IInv, RefreshRefused, hubVars, windowVars, bounds, Pairs, TypeOK, RequestRecord, RefreshRecord, ReqShape, UnseenShape, OnItsWayOnce
<1>3. RefreshShape'
  BY PairAssumption, BoundAssumption, NoWindowAssumption DEF IInv, RefreshRefused, hubVars, windowVars, bounds, Pairs, TypeOK, RequestRecord, RefreshRecord, RefreshShape, UnseenShape, OnItsWayOnce
<1>4. UnseenShape'
  BY PairAssumption, BoundAssumption, NoWindowAssumption DEF IInv, RefreshRefused, hubVars, windowVars, bounds, Pairs, TypeOK, RequestRecord, RefreshRecord, UnseenShape, ReqShape, RefreshShape
<1>5. OnItsWayOnce'
  BY PairAssumption, BoundAssumption, NoWindowAssumption DEF IInv, RefreshRefused, hubVars, windowVars, bounds, Pairs, TypeOK, RequestRecord, RefreshRecord, OnItsWayOnce, UnseenShape
<1>6. RotatedShape'
  BY PairAssumption, BoundAssumption, NoWindowAssumption DEF IInv, RefreshRefused, hubVars, windowVars, bounds, Pairs, TypeOK, RequestRecord, RefreshRecord, RotatedShape, RefreshShape, ReqShape, UnseenShape
<1>7. RefusedShape'
  BY PairAssumption, BoundAssumption, NoWindowAssumption DEF IInv, RefreshRefused, hubVars, windowVars, bounds, Pairs, TypeOK, RequestRecord, RefreshRecord, RefusedShape, RefreshShape, UnseenShape
<1>8. NobodyLeftWaiting'
  BY PairAssumption, BoundAssumption, NoWindowAssumption DEF IInv, RefreshRefused, hubVars, windowVars, bounds, Pairs, TypeOK, RequestRecord, RefreshRecord, NobodyLeftWaiting, ReqShape
<1> QED
  BY <1>1, <1>2, <1>3, <1>4, <1>5, <1>6, <1>7, <1>8 DEF IInv

\* RefreshStored preserves the invariant.
LEMMA RefreshStoredKeeps ==
  ASSUME IInv, NEW w \in Windows, RefreshStored(w)
  PROVE  IInv'
<1>0. /\ refresh[w].pair \in Pairs /\ refresh[w].pair \in unseen /\ refresh[w].pair <= issued
      /\ storage' = refresh[w].pair /\ unseen' = unseen \ {refresh[w].pair}
      /\ UNCHANGED <<issued, live, fresh, rotatedBy>>
  BY DEF RefreshStored, IInv, TypeOK, RefreshShape, UnseenShape, RefreshRecord, Pairs, hubVars
<1>00. /\ \A v \in Windows : v # w => refresh'[v] = refresh[v]
       /\ refresh'[w].st = "none" /\ refresh'[w].pair = 0
       /\ refresh[w].st = "new"
  BY DEF RefreshStored, IInv, TypeOK, NoRefresh
<1>000. \A x \in Slots :
          /\ req'[x] \in RequestRecord
          /\ req'[x].pair = req[x].pair /\ req'[x].win = req[x].win /\ req'[x].kind = req[x].kind
          /\ \/ req[x].st = "waiting" /\ req[x].win = w /\ req'[x].st = "sent"
             \/ req'[x].st = req[x].st /\ ~(req[x].st = "waiting" /\ req[x].win = w)
  <2> SUFFICES ASSUME NEW x \in Slots
               PROVE  /\ req'[x] \in RequestRecord
                      /\ req'[x].pair = req[x].pair /\ req'[x].win = req[x].win /\ req'[x].kind = req[x].kind
                      /\ \/ req[x].st = "waiting" /\ req[x].win = w /\ req'[x].st = "sent"
                         \/ req'[x].st = req[x].st /\ ~(req[x].st = "waiting" /\ req[x].win = w)
    OBVIOUS
  <2>1. req[x] \in RequestRecord /\ refresh[w].pair \in 0..MaxPairs
    BY <1>0 DEF IInv, TypeOK, Pairs
  <2>2. CASE Waiting(x, w)
    <3>1. req'[x] = [req[x] EXCEPT !.st = "sent", !.tok = refresh[w].pair]
      BY <2>2 DEF RefreshStored
    <3> QED
      BY <3>1, <2>1, <2>2 DEF RequestRecord, Waiting
  <2>3. CASE ~Waiting(x, w)
    <3>1. req'[x] = req[x]
      BY <2>3 DEF RefreshStored
    <3> QED
      BY <3>1, <2>1, <2>3 DEF Waiting
  <2> QED
    BY <2>2, <2>3
<1>1. TypeOK'
  <2>1. req' \in [Slots -> RequestRecord]
    BY <1>000 DEF RefreshStored
  <2>2. refresh' \in [Windows -> RefreshRecord]
    BY RefreshType, PairAssumption DEF RefreshStored, IInv, TypeOK, RefreshRecord, NoRefresh
  <2>3. (issued \in 0..MaxPairs /\ live \in SUBSET (1..issued) /\ fresh \in SUBSET (1..issued))'
    BY PairAssumption, BoundAssumption, NoWindowAssumption DEF IInv, RefreshStored, hubVars, windowVars, bounds, Pairs, NoRefresh, Waiting, TypeOK
  <2>4. (rotatedBy \in [Pairs -> Windows \cup {NoWindow}] /\ storage \in 0..MaxPairs)'
    BY PairAssumption, BoundAssumption, NoWindowAssumption DEF IInv, RefreshStored, hubVars, windowVars, bounds, Pairs, NoRefresh, Waiting, TypeOK, RequestRecord, RefreshRecord
  <2>5. (unseen \in SUBSET Pairs)'
    BY PairAssumption, BoundAssumption, NoWindowAssumption DEF IInv, RefreshStored, hubVars, windowVars, bounds, Pairs, NoRefresh, Waiting, TypeOK
  <2>6. (page \in [Windows -> {"login", "app"}] /\ toast \in [Windows -> BOOLEAN])'
    BY PairAssumption, BoundAssumption, NoWindowAssumption DEF IInv, RefreshStored, hubVars, windowVars, bounds, Pairs, NoRefresh, Waiting, TypeOK
  <2>7. (requests \in 0..MaxRequests /\ faults \in 0..MaxFaults)'
    BY PairAssumption, BoundAssumption, NoWindowAssumption DEF IInv, RefreshStored, hubVars, windowVars, bounds, Pairs, NoRefresh, Waiting, TypeOK
  <2> QED
    BY <2>1, <2>2, <2>3, <2>4, <2>5, <2>6, <2>7 DEF TypeOK
<1>2. ReqShape'
  BY <1>0, <1>00, <1>000, PairAssumption, NoWindowAssumption DEF IInv, TypeOK, Pairs, ReqShape, UnseenShape, OnItsWayOnce
<1>3. RefreshShape'
  BY <1>0, <1>00, <1>000, PairAssumption, NoWindowAssumption DEF IInv, TypeOK, Pairs, RefreshShape, UnseenShape, OnItsWayOnce
<1>4. UnseenShape'
  BY <1>0, <1>00, <1>000, PairAssumption, NoWindowAssumption DEF IInv, TypeOK, Pairs, UnseenShape, ReqShape, RefreshShape
<1>5. OnItsWayOnce'
  BY <1>0, <1>00, <1>000, PairAssumption, NoWindowAssumption DEF IInv, TypeOK, Pairs, OnItsWayOnce, UnseenShape
<1>6. RotatedShape'
  BY <1>0, <1>00, <1>000, PairAssumption, NoWindowAssumption DEF IInv, TypeOK, Pairs, RotatedShape, RefreshShape, ReqShape, UnseenShape
<1>7. RefusedShape'
  BY PairAssumption, BoundAssumption, NoWindowAssumption DEF IInv, RefreshStored, hubVars, windowVars, bounds, Pairs, NoRefresh, Waiting, TypeOK, RequestRecord, RefreshRecord, RefusedShape, RefreshShape, UnseenShape
<1>8. NobodyLeftWaiting'
  BY <1>0, <1>00, <1>000, PairAssumption, NoWindowAssumption DEF IInv, TypeOK, Pairs, NobodyLeftWaiting, ReqShape
<1> QED
  BY <1>1, <1>2, <1>3, <1>4, <1>5, <1>6, <1>7, <1>8 DEF IInv

\* The end of a failed refresh preserves the invariant.
LEMMA ClearSessionKeeps ==
  ASSUME IInv, NEW w \in Windows, refresh[w].st # "none", ClearSession(w),
         toast' \in [Windows -> BOOLEAN],
         requests' \in 0..MaxRequests, faults' \in 0..MaxFaults
  PROVE  IInv'
<1>1. /\ storage' = 0
      /\ UNCHANGED <<issued, live, fresh, rotatedBy, unseen>>
      /\ page' = [page EXCEPT ![w] = "login"]
  BY DEF ClearSession, hubVars
<1>2. /\ refresh' = [refresh EXCEPT ![w] = NoRefresh]
      /\ \A v \in Windows : v # w => refresh'[v] = refresh[v]
      /\ refresh'[w].st = "none" /\ refresh'[w].pair = 0
  BY DEF ClearSession, IInv, TypeOK, NoRefresh
<1>3. \A x \in Slots :
        /\ req'[x] \in RequestRecord
        /\ \/ req'[x] = req[x] /\ ~Waiting(x, w)
           \/ /\ Waiting(x, w)
              /\ req'[x].pair = 0 /\ req'[x].st \in {"idle", "sent"}
              /\ req'[x].st # "idle" => req'[x].win = req[x].win
  <2> SUFFICES ASSUME NEW x \in Slots
               PROVE  /\ req'[x] \in RequestRecord
                      /\ \/ req'[x] = req[x] /\ ~Waiting(x, w)
                         \/ /\ Waiting(x, w)
                            /\ req'[x].pair = 0 /\ req'[x].st \in {"idle", "sent"}
                            /\ req'[x].st # "idle" => req'[x].win = req[x].win
    OBVIOUS
  <2>1. req[x] \in RequestRecord /\ 0 \in 0..MaxPairs
    BY PairAssumption DEF IInv, TypeOK
  <2>2. CASE Waiting(x, w)
    <3>1. req'[x] = AfterUndefined(req[x], 0)
      BY <2>2 DEF ClearSession
    <3> QED
      BY <3>1, <2>1, <2>2, AfterUndefinedType
  <2>3. CASE ~Waiting(x, w)
    <3>1. req'[x] = req[x]
      BY <2>3 DEF ClearSession
    <3> QED
      BY <3>1, <2>1, <2>3
  <2> QED
    BY <2>2, <2>3
<1>4. TypeOK'
  <2>1. req' \in [Slots -> RequestRecord]
    BY <1>3 DEF ClearSession
  <2>2. refresh' \in [Windows -> RefreshRecord]
    BY <1>2, PairAssumption DEF IInv, TypeOK, RefreshRecord, NoRefresh
  <2>3. page' \in [Windows -> {"login", "app"}]
    BY <1>1 DEF IInv, TypeOK
  <2> QED
    BY <1>1, <2>1, <2>2, <2>3, PairAssumption DEF IInv, TypeOK
<1>5. ReqShape'
  BY <1>1, <1>3 DEF IInv, TypeOK, ReqShape, Waiting
<1>6. RefreshShape'
  BY <1>1, <1>2 DEF IInv, TypeOK, RefreshShape
<1>7. UnseenShape'
  <2>1. 0 \notin unseen
    BY DEF IInv, TypeOK, Pairs
  <2>2. \A x \in Slots : req'[x].pair <= issued
    BY <1>3, PairAssumption DEF IInv, TypeOK, UnseenShape
  <2>3. \A v \in Windows : refresh'[v].pair <= issued
    BY <1>2 DEF IInv, TypeOK, UnseenShape
  <2> QED
    BY <1>1, <2>1, <2>2, <2>3 DEF IInv, UnseenShape
<1>8. OnItsWayOnce'
  BY <1>2, <1>3 DEF IInv, TypeOK, OnItsWayOnce
<1>9. RotatedShape'
  BY <1>1, <1>2 DEF IInv, TypeOK, RotatedShape, Pairs
<1>10. RefusedShape'
  BY <1>1, <1>2 DEF IInv, TypeOK, RefusedShape
<1>11. NobodyLeftWaiting'
  BY <1>2, <1>3 DEF IInv, TypeOK, NobodyLeftWaiting, ReqShape, Waiting
<1> QED
  BY <1>4, <1>5, <1>6, <1>7, <1>8, <1>9, <1>10, <1>11 DEF IInv

\* The initial states satisfy the invariant.
LEMMA InitInvariant == Init => IInv
<1> SUFFICES ASSUME Init PROVE IInv
  OBVIOUS
<1>1. TypeOK
  <2>1. req \in [Slots -> RequestRecord]
    BY IdleType DEF Init
  <2>2. refresh \in [Windows -> RefreshRecord]
    BY PairAssumption DEF Init, NoRefresh, RefreshRecord
  <2> QED
    BY <2>1, <2>2, PairAssumption, BoundAssumption DEF Init, TypeOK, Pairs
<1>2. ReqShape /\ RefreshShape /\ UnseenShape /\ OnItsWayOnce
  BY IdleType, PairAssumption DEF Init, ReqShape, RefreshShape, UnseenShape, OnItsWayOnce, NoRefresh, Pairs
<1>3. RotatedShape /\ RefusedShape /\ NobodyLeftWaiting
  BY IdleType DEF Init, RotatedShape, RefusedShape, NobodyLeftWaiting, NoRefresh
<1> QED
  BY <1>1, <1>2, <1>3 DEF IInv

\* Every step preserves the invariant.
LEMMA StepInvariant == IInv /\ [Next]_vars => IInv'
<1> SUFFICES ASSUME IInv, [Next]_vars PROVE IInv'
  OBVIOUS
<1>1. CASE \E s \in Slots : \E w \in Windows : Request(w, s) \/ Login(w, s) \/ Logout(w, s)
  BY <1>1, RequestKeeps, LoginKeeps, LogoutKeeps
<1>2. CASE \E s \in Slots : ChangePassword(s) \/ RequestLost(s) \/ LogoutLost(s)
  BY <1>2, ChangePasswordKeeps, RequestLostKeeps, LogoutLostKeeps
<1>3. CASE \E s \in Slots : HubStep(s)
  BY <1>3, AuthorizeApiKeeps, AuthorizePasswordKeeps, UnauthorizeKeeps, LoginAcceptedKeeps,
     LoginRefusedKeeps, LogoutAtHubKeeps DEF HubStep
<1>4. CASE \E s \in Slots : Answer(s)
  BY <1>4, JoinRefreshKeeps, GiveUpKeeps, AnswerPasswordKeeps, AnswerLoginKeeps,
     AnswerLoginPromptKeeps, LogoutTimerKeeps DEF Answer
<1>5. CASE \E w \in Windows : Navigate(w) \/ Reload(w) \/ ToastTimer(w)
  BY <1>5, NavigateKeeps, ReloadKeeps, ToastTimerKeeps
<1>6. CASE \E w \in Windows : RefreshAccepted(w) \/ RefreshRefused(w) \/ RefreshStored(w)
  BY <1>6, RefreshAcceptedKeeps, RefreshRefusedKeeps, RefreshStoredKeeps
<1>7. ASSUME NEW w \in Windows, RefreshUnauthorized(w)
      PROVE  IInv'
  <2>1. /\ refresh[w].st # "none" /\ ClearSession(w)
        /\ toast' \in [Windows -> BOOLEAN]
        /\ requests' \in 0..MaxRequests /\ faults' \in 0..MaxFaults
    BY <1>7 DEF RefreshUnauthorized, bounds, IInv, TypeOK
  <2> QED
    BY <2>1, ClearSessionKeeps
<1>8. ASSUME NEW w \in Windows, RefreshLost(w)
      PROVE  IInv'
  <2>1. /\ refresh[w].st # "none" /\ ClearSession(w)
        /\ toast' \in [Windows -> BOOLEAN]
        /\ requests' \in 0..MaxRequests /\ faults' \in 0..MaxFaults
    BY <1>8, BoundAssumption DEF RefreshLost, IInv, TypeOK
  <2> QED
    BY <2>1, ClearSessionKeeps
<1>9. CASE UNCHANGED vars
  <2>1. TypeOK'
    BY <1>9 DEF vars, IInv, TypeOK
  <2>2. (ReqShape /\ RefreshShape /\ UnseenShape /\ OnItsWayOnce)'
    BY <1>9 DEF vars, IInv, ReqShape, RefreshShape, UnseenShape, OnItsWayOnce
  <2>3. (RotatedShape /\ RefusedShape /\ NobodyLeftWaiting)'
    BY <1>9 DEF vars, IInv, RotatedShape, RefusedShape, NobodyLeftWaiting
  <2> QED
    BY <2>1, <2>2, <2>3 DEF IInv
<1> QED
  BY <1>1, <1>2, <1>3, <1>4, <1>5, <1>6, <1>7, <1>8, <1>9 DEF Next, RefreshStep

LEMMA Invariance == Spec => []IInv
  BY InitInvariant, StepInvariant, PTL DEF Spec

\* Type correctness of the session, for every number of windows, requests and pairs.
THEOREM TypeCorrect == Spec => []TypeOK
<1>1. IInv => TypeOK
  BY DEF IInv
<1> QED
  BY <1>1, Invariance, PTL

\* No page is ever refused a refresh token it has itself exchanged: the single flight of
\* refreshAccessToken and the order in which it stores the answer suffice.
THEOREM SingleFlight == Spec => []OwnRotationKept
<1>1. IInv => OwnRotationKept
  <2> SUFFICES ASSUME IInv, NEW w \in Windows, refresh[w].st = "refused"
               PROVE  rotatedBy[refresh[w].tok] # w
    BY DEF OwnRotationKept
  <2>1. refresh[w].tok \in Pairs
    <3>1. refresh[w].st # "none"
      OBVIOUS
    <3>2. refresh[w].tok \in 1..issued /\ issued \in 0..MaxPairs
      BY <3>1, RefreshIssued DEF IInv, TypeOK
    <3> QED
      BY <3>2, PairAssumption DEF Pairs
  <2> QED
    BY <2>1, NoWindowAssumption DEF IInv, TypeOK, RotatedShape
<1> QED
  BY <1>1, Invariance, PTL

\* The interceptor leaves no waiting request without a refresh under way.
THEOREM WaitersServed == Spec => []NobodyLeftWaiting
<1>1. IInv => NobodyLeftWaiting
  BY DEF IInv
<1> QED
  BY <1>1, Invariance, PTL

\* Steps that write the storage: a login, a refresh, the end of a logout, a failed refresh.
LEMMA StorageWriters ==
  ASSUME IInv, [Next]_vars
  PROVE  \/ UNCHANGED <<storage, unseen>>
         \/ /\ storage' \in unseen /\ unseen' = unseen \ {storage'} /\ storage' # 0
         \/ /\ storage' = 0 /\ unseen' = unseen
            /\ \/ \E s \in Slots : LogoutTimer(s)
               \/ \E w \in Windows : RefreshUnauthorized(w) \/ RefreshLost(w)
<1>1. ASSUME NEW s \in Slots, AnswerLogin(s) \/ AnswerLoginPrompt(s)
      PROVE  storage' \in unseen /\ unseen' = unseen \ {storage'} /\ storage' # 0
  BY <1>1 DEF AnswerLogin, AnswerLoginPrompt, IInv, ReqShape
<1>2. ASSUME NEW w \in Windows, RefreshStored(w)
      PROVE  storage' \in unseen /\ unseen' = unseen \ {storage'} /\ storage' # 0
  BY <1>2 DEF RefreshStored, IInv, RefreshShape
<1>3. ASSUME NEW s \in Slots, LogoutTimer(s)
      PROVE  storage' = 0 /\ unseen' = unseen
  BY <1>3 DEF LogoutTimer
<1>4. ASSUME NEW w \in Windows, RefreshUnauthorized(w) \/ RefreshLost(w)
      PROVE  storage' = 0 /\ unseen' = unseen
  BY <1>4 DEF RefreshUnauthorized, RefreshLost, ClearSession
<1>5. ASSUME NEW s \in Slots,
             \/ \E w \in Windows : Request(w, s) \/ Login(w, s) \/ Logout(w, s)
             \/ ChangePassword(s) \/ HubStep(s) \/ RequestLost(s) \/ LogoutLost(s)
             \/ JoinRefresh(s) \/ GiveUp(s) \/ AnswerPassword(s)
      PROVE  UNCHANGED <<storage, unseen>>
  BY <1>5 DEF Request, Login, Logout, ChangePassword, HubStep, RequestLost, LogoutLost, JoinRefresh,
     GiveUp, AnswerPassword, AuthorizeApi, AuthorizePassword, Unauthorize, LoginAccepted,
     LoginRefused, LogoutAtHub
<1>6. ASSUME NEW w \in Windows,
             Navigate(w) \/ Reload(w) \/ ToastTimer(w) \/ RefreshAccepted(w) \/ RefreshRefused(w)
      PROVE  UNCHANGED <<storage, unseen>>
  BY <1>6 DEF Navigate, Reload, ToastTimer, RefreshAccepted, RefreshRefused
<1>7. CASE UNCHANGED vars
  BY <1>7 DEF vars
<1> QED
  BY <1>1, <1>2, <1>3, <1>4, <1>5, <1>6, <1>7 DEF Next, Answer, RefreshStep

\* A session the hub would still rotate is dropped only after a network failure, or by the
\* failed refresh of another session.
THEOREM DropsExplained == Spec => NoNeedlessDrop
<1> DEFINE A == (storage \in fresh /\ storage' = 0 /\ ~\E s \in Slots : LogoutTimer(s)) =>
                  \E w \in Windows :
                    \/ RefreshLost(w)
                    \/ refresh[w].st = "refused" /\ refresh[w].tok # storage
<1>1. IInv /\ [Next]_vars => [A]_vars
  <2> SUFFICES ASSUME IInv, [Next]_vars, storage \in fresh, storage' = 0,
                      ~\E s \in Slots : LogoutTimer(s)
               PROVE  \E w \in Windows :
                        \/ RefreshLost(w)
                        \/ refresh[w].st = "refused" /\ refresh[w].tok # storage
    OBVIOUS
  <2>1. storage # 0
    BY DEF IInv, TypeOK
  <2>2. PICK w \in Windows : RefreshUnauthorized(w) \/ RefreshLost(w)
    BY <2>1, StorageWriters
  <2> QED
    BY <2>2 DEF RefreshUnauthorized, IInv, RefusedShape
<1> QED
  BY <1>1, Invariance, PTL DEF Spec, NoNeedlessDrop

\* The windows together implement the abstract storage: every pair is stored at most once.
THEOREM Refinement == Spec => StoreSpec
<1>1. Init => Store!Init
  BY DEF Init, Store!Init, Pairs
<1>2. IInv /\ [Next]_vars => [Store!Next]_(Store!vars)
  <2> SUFFICES ASSUME IInv, [Next]_vars PROVE [Store!Next]_(Store!vars)
    OBVIOUS
  <2> QED
    BY StorageWriters DEF Store!Next, Store!vars, Store!Store, Store!Drop
<1> QED
  BY <1>1, <1>2, Invariance, PTL DEF Spec, StoreSpec, Store!Spec
=============================================================================
