--------------------------- MODULE AccountsProofs ---------------------------
(***************************************************************************)
(* Sign-in, consent and deletion, proved for any users, browsers, requests *)
(* and bounds.                                                             *)
(*                                                                         *)
(* The idea: an id belongs for ever to the user it was drawn for, and a    *)
(* request works on ids of its own user only.  So two requests that touch  *)
(* the same rows have the same user, and when one of them is a deletion    *)
(* that user has raced; a deletion that is alone finds the rows as it left *)
(* them, step after step.                                                  *)
(***************************************************************************)
EXTENDS Accounts, TLAPS

\* Requests that a session vouches for, and requests that know an account id.
Seated == Deletion \union Asked \union {"issue", "forget"}
Known == {"create", "again", "profile", "connect", "session", "drop", "welcome",
          "issue", "forget"} \union (Deletion \ {"deletes"})
\* Requests before the end of which an account row must lead to their id.
Backed == {"profile", "connect", "issue", "read", "revoke", "disconnect", "agent", "owner",
           "unprofile", "unsession", "unaccount"}

\* A sign-in that has no session yet.
Early == Login \ {"drop", "welcome"}

\* What a request knows at each point of its program.
ShapeOK(k) ==
  /\ k.pc # "idle" => k.user \in Users
  /\ k.pc \in Login => k.attempt \in Attempts
  /\ k.pc \in Seated => k.cookie \in Sessions
  /\ k.pc \in Known => k.id \in Ids
Shapes == \A r \in Requests : ShapeOK(request[r])

Typed == TypeOK /\ Shapes

\* A number that was not drawn yet names nothing.
IdsDrawn == \A i \in Ids : past.owner[i] # NoUser => i <= drawn.ids
SessionsDrawn == \A s \in Sessions : session[s] # NoUser => s <= drawn.sessions
AttemptsDrawn == \A t \in Attempts : attempt[t].row # "absent" => t <= drawn.attempts

\* Whatever holds an id holds one that was drawn for its user.
Owned ==
  /\ \A u \in Users : account[u] # 0 => past.owner[account[u]] = u
  /\ \A i \in Ids : HasRows(i) \/ i \in past.deleted => past.owner[i] \in Users
  /\ \A t \in Attempts : attempt[t].calendar = "yes" =>
        attempt[t].account \in Ids /\ past.owner[attempt[t].account] \in Users
  /\ \A r \in Requests : request[r].pc \in Known => past.owner[request[r].id] = request[r].user

\* A used-up attempt is in the hands of one request, or of one session.
OneLogin ==
  /\ \A r \in Requests : request[r].attempt # 0 => attempt[request[r].attempt].row = "used"
  /\ \A s \in Sessions : past.login[s] # 0 => attempt[past.login[s]].row = "used"
  /\ \A r, q \in Requests :
        r # q /\ request[r].attempt # 0 => request[r].attempt # request[q].attempt
  /\ \A r \in Requests, s \in Sessions :
        request[r].pc \in Early => request[r].attempt # past.login[s]

\* The session of a request is its user's, or is gone.
CookiesOK ==
  \A r \in Requests : request[r].pc \in Seated =>
     /\ request[r].cookie <= drawn.sessions
     /\ session[request[r].cookie] \in {request[r].user, NoUser}

Remembered == \A u \in Users : Races(u) => u \in raced

\* How far a deletion has come, and what a sign-in may rely on, unless raced.
Progress(k) ==
  /\ k.pc \in Backed => account[k.user] = k.id
  /\ k.pc = "create" => k.id \notin past.deleted
  /\ k.pc = "disconnect" => grant[k.user] # "stored"
  /\ k.pc \in {"agent", "owner", "unprofile", "unsession", "unaccount", "goodbye"} =>
        connection[k.id] = NoUser
  /\ k.pc \in {"owner", "unprofile", "unsession", "unaccount", "goodbye"} => k.id \notin agent
  /\ k.pc \in {"unsession", "unaccount", "goodbye"} => k.id \notin profile
  /\ k.pc \in {"unprofile", "unsession", "unaccount"} => k.key = k.user
  /\ k.pc = "goodbye" => account[k.user] # k.id
ProgressOK == \A r \in Requests : request[r].user \in raced \/ Progress(request[r])
KeysOK ==
  \A r \in Requests : request[r].pc \in {"unprofile", "unsession", "unaccount"} =>
     request[r].key \in {request[r].user, NoUser}

Logins == AttemptsDrawn /\ OneLogin /\ AttemptSignsInOnce
Seats == SessionsDrawn /\ CookiesOK /\ KeysOK
Ownership == IdsDrawn /\ Owned /\ ConsentIsOfTheAsker
Ledger == ProgressOK /\ RowsHaveAnAccount /\ StoredTokenIsKeptOrRevoked /\ DeletedIsGone
IInv == Typed /\ Logins /\ Seats /\ Ownership /\ Remembered /\ Ledger
-----------------------------------------------------------------------------
(* The request that takes a step, and the others.                           *)
Moved(r) ==
  /\ request' \in [Requests -> Request]
  /\ \A q \in Requests : q # r => request'[q] = request[q]
Ended(r) == Moved(r) /\ request'[r] = IdleRequest
Becomes(r, pc, id, key, fresh) ==
  /\ Moved(r)
  /\ request'[r].pc = pc /\ request'[r].id = id
  /\ request'[r].key = key /\ request'[r].fresh = fresh
  /\ request'[r].user = request[r].user /\ request'[r].attempt = request[r].attempt
  /\ request'[r].cookie = request[r].cookie /\ request'[r].browser = request[r].browser
  /\ request'[r].consent = request[r].consent
Goes(r, pc) == Becomes(r, pc, request[r].id, request[r].key, request[r].fresh)

LEMMA RequestFields ==
  ASSUME TypeOK, NEW r \in Requests
  PROVE  /\ request[r] \in Request /\ request \in [Requests -> Request]
         /\ request[r].pc \in PC /\ request[r].user \in Users \union {NoUser}
         /\ request[r].key \in Users \union {NoUser} /\ request[r].id \in 0..MaxIds
         /\ request[r].attempt \in 0..MaxAttempts /\ request[r].cookie \in 0..MaxSessions
         /\ request[r].fresh \in 0..MaxSessions /\ request[r].consent \in Consent
BY DEF TypeOK, Request

LEMMA IdleIsARequest == IdleRequest \in Request /\ ShapeOK(IdleRequest)
BY AccountAssumption
   DEF IdleRequest, Request, PC, ShapeOK, Login, Seated, Known, Deletion, Asked, Consent

LEMMA GotoIs ==
  ASSUME TypeOK, NEW r \in Requests, NEW pc \in PC, Goto(r, pc)
  PROVE  Goes(r, pc)
BY RequestFields DEF Goto, Goes, Becomes, Moved, Request

LEMMA EndIs ==
  ASSUME TypeOK, NEW r \in Requests, End(r)
  PROVE  Ended(r)
BY RequestFields, IdleIsARequest DEF End, Ended, Moved

LEMMA GotoWithIdIs ==
  ASSUME TypeOK, NEW r \in Requests, NEW pc \in PC, NEW i \in 0..MaxIds,
         request' = [request EXCEPT ![r].pc = pc, ![r].id = i]
  PROVE  Becomes(r, pc, i, request[r].key, request[r].fresh)
BY RequestFields DEF Becomes, Moved, Request

LEMMA GotoWithKeyIs ==
  ASSUME TypeOK, NEW r \in Requests, NEW pc \in PC, NEW u \in Users \union {NoUser},
         request' = [request EXCEPT ![r].pc = pc, ![r].key = u]
  PROVE  Becomes(r, pc, request[r].id, u, request[r].fresh)
BY RequestFields DEF Becomes, Moved, Request

LEMMA GotoWithSessionIs ==
  ASSUME TypeOK, NEW r \in Requests, NEW pc \in PC, NEW s \in 0..MaxSessions,
         request' = [request EXCEPT ![r].pc = pc, ![r].fresh = s]
  PROVE  Becomes(r, pc, request[r].id, request[r].key, s)
BY RequestFields DEF Becomes, Moved, Request

LEMMA PointsAreKnown ==
  /\ Login \subseteq PC /\ Deletion \subseteq PC /\ Asked \subseteq PC
  /\ Known \subseteq PC /\ Seated \subseteq PC /\ Backed \subseteq Known
BY DEF Login, Deletion, Asked, PC, Known, Seated, Backed

\* The steps that do more to their request than move it on.
LEMMA CallbackAccountIs ==
  ASSUME TypeOK, NEW r \in Requests, CallbackAccount(r), request[r].user \in Users
  PROVE  \/ /\ account[request[r].user] # 0
            /\ Becomes(r, "profile", account[request[r].user], request[r].key, request[r].fresh)
            /\ UNCHANGED <<drawn, past>>
         \/ /\ account[request[r].user] = 0 /\ drawn.ids + 1 \in Ids
            /\ Becomes(r, "create", drawn.ids + 1, request[r].key, request[r].fresh)
            /\ drawn' = [drawn EXCEPT !.ids = drawn.ids + 1]
            /\ past' = [past EXCEPT !.owner[drawn.ids + 1] = request[r].user]
<1>1. account[request[r].user] \in 0..MaxIds /\ drawn.ids \in 0..MaxIds
  BY DEF TypeOK
<1>2. CASE account[request[r].user] # 0
  BY <1>1, <1>2, GotoWithIdIs DEF CallbackAccount, PC, Login
<1>3. CASE account[request[r].user] = 0
  <2>1. /\ drawn.ids < MaxIds
        /\ drawn' = [drawn EXCEPT !.ids = @ + 1]
        /\ past' = [past EXCEPT !.owner[drawn.ids + 1] = request[r].user]
        /\ request' = [request EXCEPT ![r].pc = "create", ![r].id = drawn.ids + 1]
    BY <1>3 DEF CallbackAccount
  <2>2. drawn.ids + 1 \in Ids /\ drawn.ids + 1 \in 0..MaxIds
    BY <1>1, <2>1, AccountAssumption DEF Ids
  <2> QED BY <1>3, <2>1, <2>2, GotoWithIdIs DEF PC, Login
<1> QED BY <1>2, <1>3

LEMMA CallbackAgainIs ==
  ASSUME TypeOK, NEW r \in Requests, CallbackAgain(r), request[r].user \in Users
  PROVE  \/ /\ account[request[r].user] # 0
            /\ Becomes(r, "profile", account[request[r].user], request[r].key, request[r].fresh)
         \/ Ended(r)
<1>1. account[request[r].user] \in 0..MaxIds
  BY DEF TypeOK
<1>2. CASE account[request[r].user] # 0
  <2>1. request' = [request EXCEPT ![r].pc = "profile", ![r].id = account[request[r].user]]
    BY <1>2, RequestFields DEF CallbackAgain
  <2> QED BY <1>1, <1>2, <2>1, GotoWithIdIs DEF PC, Login
<1>3. CASE account[request[r].user] = 0
  BY <1>3, EndIs DEF CallbackAgain, End
<1> QED BY <1>2, <1>3

LEMMA CallbackSessionIs ==
  ASSUME TypeOK, NEW r \in Requests, CallbackSession(r)
  PROVE  /\ drawn.sessions + 1 \in Sessions
         /\ session' = [session EXCEPT ![drawn.sessions + 1] = request[r].user]
         /\ past' = [past EXCEPT !.login[drawn.sessions + 1] = request[r].attempt]
         /\ drawn' = [drawn EXCEPT !.sessions = drawn.sessions + 1]
         /\ \E pc \in {"drop", "welcome"} :
              Becomes(r, pc, request[r].id, request[r].key, drawn.sessions + 1)
<1>1. /\ drawn.sessions < MaxSessions /\ drawn.sessions \in Nat
      /\ drawn.sessions + 1 \in 0..MaxSessions /\ drawn.sessions + 1 \in Sessions
  BY AccountAssumption DEF CallbackSession, TypeOK, Sessions
<1> DEFINE pc == IF request[r].cookie = 0 THEN "welcome" ELSE "drop"
<1>2. pc \in PC /\ pc \in {"drop", "welcome"}
  BY DEF PC, Login
<1>3. request' = [request EXCEPT ![r].pc = pc, ![r].fresh = drawn.sessions + 1]
  BY DEF CallbackSession
<1> HIDE DEF pc
<1>4. Becomes(r, pc, request[r].id, request[r].key, drawn.sessions + 1)
  BY <1>1, <1>2, <1>3, GotoWithSessionIs
<1> QED BY <1>1, <1>2, <1>4 DEF CallbackSession

LEMMA CurrentIs ==
  ASSUME TypeOK, NEW r \in Requests, Current(r), request[r].user \in Users
  PROVE  \/ /\ account[request[r].user] = 0
            /\ Ended(r)
            /\ session' = [session EXCEPT ![request[r].cookie] = NoUser]
         \/ /\ account[request[r].user] # 0
            /\ UNCHANGED session
            /\ \E pc \in {"read", "issue", "forget"} :
                 Becomes(r, pc, account[request[r].user], request[r].key, request[r].fresh)
<1>1. account[request[r].user] \in 0..MaxIds
  BY DEF TypeOK
<1>2. CASE account[request[r].user] = 0
  BY <1>2, EndIs DEF Current
<1>3. CASE account[request[r].user] # 0
  <2> DEFINE pc == CASE request[r].pc = "deletes" -> "read"
                     [] request[r].pc = "opens" -> "issue"
                     [] request[r].pc = "lets_go" -> "forget"
  <2>1. pc \in {"read", "issue", "forget"} /\ pc \in PC
    BY DEF Current, Asked, PC, Deletion
  <2>2. /\ request' = [request EXCEPT ![r].id = account[request[r].user], ![r].pc = pc]
        /\ UNCHANGED session
    BY <1>3 DEF Current
  <2> HIDE DEF pc
  <2>3. Becomes(r, pc, account[request[r].user], request[r].key, request[r].fresh)
    BY <1>1, <2>1, <2>2, RequestFields DEF Becomes, Moved, Request
  <2> QED BY <1>3, <2>1, <2>2, <2>3
<1> QED BY <1>2, <1>3

LEMMA DeleteReadsOwnerIs ==
  ASSUME TypeOK, NEW r \in Requests, DeleteReadsOwner(r), request[r].cookie \in Sessions
  PROVE  /\ session[request[r].cookie] \in Users \union {NoUser}
         /\ Becomes(r, "unprofile", request[r].id, session[request[r].cookie], request[r].fresh)
<1>1. session[request[r].cookie] \in Users \union {NoUser}
  BY DEF TypeOK
<1> QED BY <1>1, GotoWithKeyIs DEF DeleteReadsOwner, PC, Deletion

LEMMA CallbackIs ==
  ASSUME TypeOK, NEW r \in Requests, NEW b \in Browsers, NEW t \in Attempts, NEW u \in Users,
         NEW consent \in Consent, Callback(r, b, t, u, consent)
  PROVE  /\ Moved(r) /\ request'[r].pc \in {"match", "account"}
         /\ request'[r].pc = "account" => attempt[t].calendar # "yes"
         /\ request'[r].user = u /\ request'[r].attempt = t
<1> DEFINE k == [IdleRequest EXCEPT !.browser = b, !.user = u, !.attempt = t,
                    !.consent = consent, !.cookie = jar[b].session,
                    !.pc = IF attempt[t].calendar = "yes" THEN "match" ELSE "account"]
<1>1. t \in 0..MaxAttempts /\ jar[b].session \in 0..MaxSessions
  BY AccountAssumption DEF TypeOK, Attempts
<1>2. /\ k \in Request /\ k.pc \in {"match", "account"} /\ k.user = u /\ k.attempt = t
      /\ k.pc = "account" => attempt[t].calendar # "yes"
  BY <1>1, IdleIsARequest DEF Request, PC, Login
<1>3. request' = [request EXCEPT ![r] = k]
  BY DEF Callback
<1> HIDE DEF k
<1> QED BY <1>2, <1>3, RequestFields DEF Moved

LEMMA AskIs ==
  ASSUME TypeOK, NEW r \in Requests, NEW b \in Browsers, NEW pc \in Asked, Ask(r, b, pc)
  PROVE  /\ Moved(r) /\ request'[r].pc = pc /\ request'[r].attempt = 0
         /\ request'[r].cookie \in Sessions
         /\ request'[r].user \in Users /\ session[request'[r].cookie] = request'[r].user
<1> DEFINE k == [IdleRequest EXCEPT !.browser = b, !.cookie = jar[b].session,
                                    !.user = session[jar[b].session], !.pc = pc]
<1>1. jar[b].session \in 0..MaxSessions /\ jar[b].session # 0
  BY DEF TypeOK, Ask, Named
<1>2. jar[b].session \in Sessions /\ session[jar[b].session] \in Users
  BY <1>1, AccountAssumption DEF TypeOK, Ask, Named, Sessions
<1>3. /\ k \in Request /\ k.pc = pc /\ k.attempt = 0 /\ k.cookie = jar[b].session
      /\ k.user = session[jar[b].session]
  BY <1>1, <1>2, IdleIsARequest, PointsAreKnown DEF Request, IdleRequest
<1>4. request' = [request EXCEPT ![r] = k]
  BY DEF Ask
<1> HIDE DEF k
<1> QED BY <1>2, <1>3, <1>4, RequestFields DEF Moved
-----------------------------------------------------------------------------
(* Types and shapes.                                                        *)
LEMMA ShapesKept ==
  ASSUME Shapes, NEW r \in Requests, Moved(r), ShapeOK(request'[r])
  PROVE  Shapes'
BY DEF Shapes, ShapeOK, Moved

LEMMA GoesShapes ==
  ASSUME Typed, NEW r \in Requests, NEW pc \in PC, NEW i, NEW k, NEW s,
         request[r].pc # "idle",
         Becomes(r, pc, i, k, s),
         pc \in Login => request[r].pc \in Login,
         pc \in Seated => request[r].pc \in Seated,
         pc \in Known => i \in Ids
  PROVE  Moved(r) /\ ShapeOK(request'[r])
BY DEF Becomes, Typed, Shapes, ShapeOK

\* What a request in each part of its program has at hand.
LEMMA AtHand ==
  ASSUME Typed, NEW r \in Requests
  PROVE  /\ request[r].pc # "idle" => request[r].user \in Users
         /\ request[r].pc \in Login => request[r].attempt \in Attempts
         /\ request[r].pc \in Seated => request[r].cookie \in Sessions
         /\ request[r].pc \in Known => request[r].id \in Ids
         /\ 0 \notin Ids /\ Ids \subseteq 0..MaxIds
BY AccountAssumption DEF Typed, Shapes, ShapeOK, Ids

StoreTyped ==
  /\ account \in [Users -> 0..MaxIds]
  /\ profile \subseteq Ids /\ agent \subseteq Ids
  /\ connection \in [Ids -> Users \union {NoUser}]
  /\ attempt \in [Attempts -> Attempt]
  /\ session \in [Sessions -> Users \union {NoUser}]
  /\ jar \in [Browsers -> [login : 0..MaxAttempts, session : 0..MaxSessions]]
  /\ grant \in [Users -> {"none", "stored", "let_go"}]
  /\ drawn \in [ids : 0..MaxIds, attempts : 0..MaxAttempts, sessions : 0..MaxSessions]
  /\ past \in Past

LEMMA TypedStore == Typed => StoreTyped
BY DEF Typed, TypeOK, StoreTyped

LEMMA TypedAgain ==
  ASSUME Typed, NEW r \in Requests, StoreTyped', Moved(r), ShapeOK(request'[r]), Remember
  PROVE  Typed'
<1>1. Shapes'
  BY ShapesKept DEF Typed
<1>2. raced' \subseteq Users
  BY DEF Typed, TypeOK, Remember
<1> QED BY <1>1, <1>2 DEF Typed, TypeOK, StoreTyped, Moved

Jar == [login : 0..MaxAttempts, session : 0..MaxSessions]

LEMMA JarTyped ==
  ASSUME StoreTyped, NEW b, NEW l \in 0..MaxAttempts, NEW s \in 0..MaxSessions,
         \/ jar' = [jar EXCEPT ![b].login = l]
         \/ jar' = [jar EXCEPT ![b].session = s]
         \/ jar' = [jar EXCEPT ![b] = [login |-> l, session |-> s]]
  PROVE  jar' \in [Browsers -> Jar]
<1>1. jar \in [Browsers -> Jar] /\ [login |-> l, session |-> s] \in Jar
  BY DEF StoreTyped, Jar
<1>2. CASE b \in Browsers
  <2>1. [jar[b] EXCEPT !.login = l] \in Jar /\ [jar[b] EXCEPT !.session = s] \in Jar
    BY <1>1, <1>2 DEF Jar
  <2> QED BY <1>1, <1>2, <2>1
<1> QED BY <1>1, <1>2

LEMMA FailedLoginTyped ==
  ASSUME Typed, NEW r \in Requests, FailedLogin(r)
  PROVE  StoreTyped' /\ Moved(r) /\ ShapeOK(request'[r])
<1>1. Ended(r)
  BY EndIs DEF FailedLogin, Typed
<1>2. StoreTyped'
  <2>1. 0 \in 0..MaxAttempts /\ 0 \in 0..MaxSessions /\ StoreTyped
    BY TypedStore, AccountAssumption
  <2>2. jar' \in [Browsers -> Jar]
    BY <2>1, JarTyped DEF FailedLogin
  <2> QED BY <2>1, <2>2 DEF FailedLogin, StoreTyped, Jar, rows
<1> QED BY <1>1, <1>2, IdleIsARequest DEF Ended

LEMMA SignInTyped ==
  ASSUME Typed, NEW r \in Requests,
         \/ CallbackMatch(r) \/ CallbackAccount(r) \/ CallbackCreate(r) \/ CallbackAgain(r)
         \/ CallbackProfile(r) \/ CallbackConnect(r) \/ CallbackSession(r) \/ CallbackDrop(r)
         \/ Welcome(r)
  PROVE  StoreTyped' /\ Moved(r) /\ ShapeOK(request'[r])
<1> USE TypedStore
<1>0. TypeOK /\ StoreTyped
  BY DEF Typed
<1>1. CASE CallbackMatch(r)
  <2>1. CASE Goto(r, "account") /\ UNCHANGED <<rows, jar, grant, drawn, past>>
    <3>1. Goes(r, "account")
      BY <1>0, <2>1, GotoIs DEF PC, Login
    <3>2. StoreTyped'
      BY <1>0, <2>1 DEF StoreTyped, rows
    <3> QED BY <1>1, <3>1, <3>2, GoesShapes
            DEF CallbackMatch, Goes, PC, Login, Seated, Known, Deletion, Asked
  <2> QED BY <1>1, <2>1, FailedLoginTyped DEF CallbackMatch
<1>2. CASE CallbackAccount(r)
  <2>1. request[r].pc = "account" /\ request[r].user \in Users
    BY <1>2, AtHand DEF CallbackAccount
  <2>2. /\ account[request[r].user] \in 0..MaxIds
        /\ account[request[r].user] # 0 => account[request[r].user] \in Ids
    BY <1>0, <2>1, AccountAssumption DEF StoreTyped, Ids
  <2>3. Moved(r) /\ ShapeOK(request'[r])
    BY <1>0, <1>2, <2>1, <2>2, CallbackAccountIs, GoesShapes
       DEF PC, Login, Seated, Known, Deletion, Asked
  <2>4. StoreTyped'
    <3>1. CASE UNCHANGED <<drawn, past>>
      BY <1>0, <1>2, <3>1 DEF CallbackAccount, StoreTyped, rows
    <3>2. CASE /\ drawn.ids + 1 \in Ids
               /\ drawn' = [drawn EXCEPT !.ids = drawn.ids + 1]
               /\ past' = [past EXCEPT !.owner[drawn.ids + 1] = request[r].user]
      <4>1. drawn' \in [ids : 0..MaxIds, attempts : 0..MaxAttempts, sessions : 0..MaxSessions]
        BY <1>0, <3>2, AtHand DEF StoreTyped
      <4>2. past' \in Past
        BY <1>0, <2>1, <3>2 DEF StoreTyped, Past
      <4> QED BY <1>0, <1>2, <4>1, <4>2 DEF CallbackAccount, StoreTyped, rows
    <3> QED BY <1>0, <1>2, <2>1, <3>1, <3>2, CallbackAccountIs
  <2> QED BY <2>3, <2>4
<1>3. CASE CallbackCreate(r)
  <2>1. request[r].pc = "create" /\ request[r].user \in Users /\ request[r].id \in Ids
    BY <1>3, AtHand DEF CallbackCreate, Known
  <2>2. \E pc \in {"profile", "again"} : Goes(r, pc)
    BY <1>0, <1>3, GotoIs DEF CallbackCreate, PC, Login
  <2>3. Moved(r) /\ ShapeOK(request'[r])
    BY <2>1, <2>2, GoesShapes DEF Goes, PC, Login, Seated, Known, Deletion, Asked
  <2>4. StoreTyped'
    BY <1>0, <1>3, <2>1, AtHand DEF CallbackCreate, StoreTyped
  <2> QED BY <2>3, <2>4
<1>4. CASE CallbackAgain(r)
  <2>1. request[r].pc = "again" /\ request[r].user \in Users
    BY <1>4, AtHand DEF CallbackAgain
  <2>2. account[request[r].user] # 0 => account[request[r].user] \in Ids
    BY <1>0, <2>1, AccountAssumption DEF StoreTyped, Ids
  <2>3. Moved(r) /\ ShapeOK(request'[r])
    BY <1>0, <1>4, <2>1, <2>2, CallbackAgainIs, GoesShapes, IdleIsARequest
       DEF Ended, PC, Login, Seated, Known, Deletion, Asked
  <2>4. StoreTyped'
    BY <1>0, <1>4 DEF CallbackAgain, StoreTyped, rows
  <2> QED BY <2>3, <2>4
<1>5. CASE CallbackProfile(r)
  <2>1. request[r].pc = "profile" /\ request[r].id \in Ids
    BY <1>5, AtHand DEF CallbackProfile, Known
  <2>2. \E pc \in {"connect", "session"} : Goes(r, pc)
    BY <1>0, <1>5, GotoIs DEF CallbackProfile, PC, Login
  <2>3. Moved(r) /\ ShapeOK(request'[r])
    BY <2>1, <2>2, GoesShapes DEF Goes, PC, Login, Seated, Known, Deletion, Asked
  <2>4. StoreTyped'
    BY <1>0, <1>5, <2>1 DEF CallbackProfile, StoreTyped
  <2> QED BY <2>3, <2>4
<1>6. CASE CallbackConnect(r)
  <2>1. request[r].pc = "connect" /\ request[r].id \in Ids /\ request[r].user \in Users
    BY <1>6, AtHand DEF CallbackConnect, Known
  <2>2. ASSUME Goto(r, "session")
        PROVE  Moved(r) /\ ShapeOK(request'[r])
    <3>1. Goes(r, "session")
      BY <1>0, <2>2, GotoIs DEF PC, Login
    <3> QED BY <2>1, <3>1, GoesShapes DEF Goes, PC, Login, Seated, Known, Deletion, Asked
  <2>3. CASE /\ connection' = [connection EXCEPT ![request[r].id] = request[r].user]
             /\ grant' = [grant EXCEPT ![request[r].user] = "stored"]
             /\ Goto(r, "session")
             /\ UNCHANGED <<account, profile, agent, attempt, session, jar, drawn, past>>
    <3>1. StoreTyped'
      BY <1>0, <2>1, <2>3 DEF StoreTyped
    <3> QED BY <2>2, <2>3, <3>1
  <2>4. CASE Goto(r, "session") /\ UNCHANGED <<rows, jar, grant, drawn, past>>
    <3>1. StoreTyped'
      BY <1>0, <2>4 DEF StoreTyped, rows
    <3> QED BY <2>2, <2>4, <3>1
  <2> QED BY <1>6, <2>3, <2>4, FailedLoginTyped DEF CallbackConnect
<1>7. CASE CallbackSession(r)
  <2>1. request[r].pc = "session" /\ request[r].user \in Users /\ request[r].id \in Ids
        /\ request[r].attempt \in 0..MaxAttempts
    BY <1>0, <1>7, AtHand, RequestFields DEF CallbackSession, Login, Known
  <2>2. Moved(r) /\ ShapeOK(request'[r])
    BY <1>0, <1>7, <2>1, CallbackSessionIs, GoesShapes
       DEF Goes, PC, Login, Seated, Known, Deletion, Asked
  <2>3. drawn' \in [ids : 0..MaxIds, attempts : 0..MaxAttempts, sessions : 0..MaxSessions]
    BY <1>0, <1>7, CallbackSessionIs, AccountAssumption DEF StoreTyped, Sessions
  <2>4. past' \in Past
    BY <1>0, <1>7, <2>1, CallbackSessionIs DEF StoreTyped, Past
  <2>5. session' \in [Sessions -> Users \union {NoUser}]
    BY <1>0, <1>7, <2>1, CallbackSessionIs DEF StoreTyped
  <2> QED BY <1>0, <1>7, <2>2, <2>3, <2>4, <2>5 DEF CallbackSession, StoreTyped
<1>8. CASE CallbackDrop(r)
  <2>1. request[r].pc = "drop" /\ request[r].id \in Ids
    BY <1>8, AtHand DEF CallbackDrop, Known
  <2>2. Goes(r, "welcome")
    BY <1>0, <1>8, GotoIs DEF CallbackDrop, PC, Login
  <2>3. Moved(r) /\ ShapeOK(request'[r])
    BY <2>1, <2>2, GoesShapes DEF Goes, PC, Login, Seated, Known, Deletion, Asked
  <2>4. StoreTyped'
    BY <1>0, <1>8 DEF CallbackDrop, StoreTyped
  <2> QED BY <2>3, <2>4
<1>9. CASE Welcome(r)
  <2>1. Ended(r)
    BY <1>0, <1>9, EndIs DEF Welcome
  <2>2. StoreTyped'
    <3>1. 0 \in 0..MaxAttempts /\ request[r].fresh \in 0..MaxSessions
      BY <1>0, RequestFields, AccountAssumption
    <3>2. jar' \in [Browsers -> Jar]
      BY <1>0, <1>9, <3>1, JarTyped DEF Welcome
    <3> QED BY <1>0, <1>9, <3>2 DEF Welcome, StoreTyped, Jar, rows
  <2> QED BY <2>1, <2>2, IdleIsARequest DEF Ended
<1> QED BY <1>1, <1>2, <1>3, <1>4, <1>5, <1>6, <1>7, <1>8, <1>9

LEMMA SeatedTyped ==
  ASSUME Typed, NEW r \in Requests,
         \/ Current(r) \/ IssueAgent(r) \/ Forget(r)
         \/ RevokeRead(r) \/ Revoke(r) \/ Disconnect(r) \/ DeleteAgent(r)
         \/ DeleteReadsOwner(r) \/ DeleteProfile(r) \/ DeleteSession(r) \/ DeleteAccount(r)
         \/ Goodbye(r)
  PROVE  StoreTyped' /\ Moved(r) /\ ShapeOK(request'[r])
<1> USE TypedStore
<1>0. TypeOK /\ StoreTyped
  BY DEF Typed
<1>a. request[r].pc \in Deletion \union Asked \union {"issue", "forget"}
  BY DEF Current, IssueAgent, Forget, RevokeRead, Revoke, Disconnect, DeleteAgent,
         DeleteReadsOwner, DeleteProfile, DeleteSession, DeleteAccount, Goodbye, Deletion
<1>b. /\ request[r].user \in Users /\ request[r].cookie \in Sessions
      /\ request[r].pc \notin Login /\ request[r].pc # "idle" /\ request[r].pc \in Seated
  BY <1>a, AtHand DEF Deletion, Asked, Login, Seated
<1>c. request[r].pc \in Known => request[r].id \in Ids
  BY AtHand
<1>d. ASSUME Ended(r)
      PROVE  Moved(r) /\ ShapeOK(request'[r])
  BY <1>d, IdleIsARequest DEF Ended
<1>e. ASSUME NEW pc \in Deletion, Goes(r, pc), request[r].pc \in Known
      PROVE  Moved(r) /\ ShapeOK(request'[r])
  <2>1. pc \in PC /\ pc \in Seated /\ pc \notin Login
    BY PointsAreKnown DEF Deletion, Seated, Login
  <2> QED BY <1>b, <1>c, <1>e, <2>1, GoesShapes DEF Goes
<1>1. CASE Current(r)
  <2>1. account[request[r].user] \in 0..MaxIds
    BY <1>0, <1>b DEF StoreTyped
  <2>2. CASE Ended(r) /\ session' = [session EXCEPT ![request[r].cookie] = NoUser]
    <3>1. StoreTyped'
      BY <1>0, <1>1, <2>2 DEF Current, StoreTyped
    <3> QED BY <2>2, <3>1, <1>d
  <2>3. CASE /\ account[request[r].user] # 0 /\ UNCHANGED session
             /\ \E pc \in {"read", "issue", "forget"} :
                  Becomes(r, pc, account[request[r].user], request[r].key, request[r].fresh)
    <3>1. StoreTyped'
      BY <1>0, <1>1, <2>3 DEF Current, StoreTyped
    <3>2. account[request[r].user] \in Ids
      BY <2>1, <2>3, AccountAssumption DEF Ids
    <3>3. PICK pc \in {"read", "issue", "forget"} :
            Becomes(r, pc, account[request[r].user], request[r].key, request[r].fresh)
      BY <2>3
    <3>4. pc \in PC /\ pc \in Seated /\ pc \notin Login
      BY DEF PC, Seated, Deletion, Login
    <3>5. Moved(r) /\ ShapeOK(request'[r])
      BY <1>b, <3>2, <3>3, <3>4, GoesShapes
    <3> QED BY <3>1, <3>5
  <2> QED BY <1>0, <1>1, <1>b, <2>2, <2>3, CurrentIs
<1>2. CASE IssueAgent(r)
  <2>1. Ended(r) /\ request[r].pc \in Known
    BY <1>0, <1>2, EndIs DEF IssueAgent, Known
  <2>2. StoreTyped'
    BY <1>0, <1>2, <1>c, <2>1 DEF IssueAgent, StoreTyped
  <2> QED BY <2>1, <2>2, <1>d
<1>3. CASE Forget(r)
  <2>1. Ended(r)
    BY <1>0, <1>3, EndIs DEF Forget
  <2>2. StoreTyped'
    BY <1>0, <1>3, <1>b DEF Forget, StoreTyped
  <2> QED BY <2>1, <2>2, <1>d
<1>4. CASE RevokeRead(r)
  <2>1. \E pc \in {"revoke", "disconnect"} : Goes(r, pc)
    BY <1>0, <1>4, GotoIs DEF RevokeRead, PC, Deletion
  <2>2. StoreTyped'
    BY <1>0, <1>4 DEF RevokeRead, StoreTyped, rows
  <2> QED BY <1>4, <1>e, <2>1, <2>2 DEF RevokeRead, Deletion, Known
<1>5. CASE Revoke(r)
  <2>1. Goes(r, "disconnect")
    BY <1>0, <1>5, GotoIs DEF Revoke, PC, Deletion
  <2>2. StoreTyped'
    BY <1>0, <1>5 DEF Revoke, StoreTyped, rows
  <2> QED BY <1>5, <1>e, <2>1, <2>2 DEF Revoke, Deletion, Known
<1>6. CASE Disconnect(r)
  <2>1. Goes(r, "agent")
    BY <1>0, <1>6, GotoIs DEF Disconnect, PC, Deletion
  <2>2. StoreTyped'
    BY <1>0, <1>6 DEF Disconnect, StoreTyped
  <2> QED BY <1>6, <1>e, <2>1, <2>2 DEF Disconnect, Deletion, Known
<1>7. CASE DeleteAgent(r)
  <2>1. Goes(r, "owner")
    BY <1>0, <1>7, GotoIs DEF DeleteAgent, PC, Deletion
  <2>2. StoreTyped'
    BY <1>0, <1>7 DEF DeleteAgent, StoreTyped
  <2> QED BY <1>7, <1>e, <2>1, <2>2 DEF DeleteAgent, Deletion, Known
<1>8. CASE DeleteReadsOwner(r)
  <2>1. Becomes(r, "unprofile", request[r].id, session[request[r].cookie], request[r].fresh)
    BY <1>0, <1>8, <1>b, DeleteReadsOwnerIs
  <2>2. StoreTyped'
    BY <1>0, <1>8 DEF DeleteReadsOwner, StoreTyped, rows
  <2>3. request[r].pc \in Known /\ "unprofile" \in PC /\ "unprofile" \notin Login
    BY <1>8 DEF DeleteReadsOwner, Deletion, Known, PC, Login
  <2>4. Moved(r) /\ ShapeOK(request'[r])
    BY <1>b, <1>c, <2>1, <2>3, GoesShapes
  <2> QED BY <2>2, <2>4
<1>9. CASE DeleteProfile(r)
  <2>1. Goes(r, "unsession")
    BY <1>0, <1>9, GotoIs DEF DeleteProfile, PC, Deletion
  <2>2. StoreTyped'
    BY <1>0, <1>9 DEF DeleteProfile, StoreTyped
  <2> QED BY <1>9, <1>e, <2>1, <2>2 DEF DeleteProfile, Deletion, Known
<1>10. CASE DeleteSession(r)
  <2>1. \E pc \in {"goodbye", "unaccount"} : Goes(r, pc)
    BY <1>0, <1>10, GotoIs DEF DeleteSession, PC, Deletion
  <2>2. StoreTyped'
    BY <1>0, <1>10 DEF DeleteSession, StoreTyped
  <2> QED BY <1>10, <1>e, <2>1, <2>2 DEF DeleteSession, Deletion, Known
<1>11. CASE DeleteAccount(r)
  <2>1. Goes(r, "goodbye")
    BY <1>0, <1>11, GotoIs DEF DeleteAccount, PC, Deletion
  <2>2. StoreTyped'
    <3>1. 0 \in 0..MaxIds /\ account \in [Users -> 0..MaxIds]
      BY <1>0, AccountAssumption DEF StoreTyped
    <3>2. account' \in [Users -> 0..MaxIds]
      BY <1>11, <3>1 DEF DeleteAccount
    <3> QED BY <1>0, <1>11, <3>2 DEF DeleteAccount, StoreTyped
  <2> QED BY <1>11, <1>e, <2>1, <2>2 DEF DeleteAccount, Deletion, Known
<1>12. CASE Goodbye(r)
  <2>1. Ended(r) /\ request[r].id \in Ids
    BY <1>0, <1>12, <1>c, EndIs DEF Goodbye, Known, Deletion
  <2>2. jar' \in [Browsers -> Jar]
    <3>1. 0 \in 0..MaxAttempts /\ 0 \in 0..MaxSessions
      BY AccountAssumption
    <3>2. jar' = [jar EXCEPT ![request[r].browser].session = 0]
      BY <1>12 DEF Goodbye
    <3> QED BY <1>0, <3>1, <3>2, JarTyped
  <2>3. past' \in Past
    BY <1>0, <1>12, <2>1 DEF Goodbye, StoreTyped, Past
  <2>4. StoreTyped'
    BY <1>0, <1>12, <2>2, <2>3 DEF Goodbye, StoreTyped, Jar, rows
  <2> QED BY <2>1, <2>4, <1>d
<1> QED BY <1>1, <1>2, <1>3, <1>4, <1>5, <1>6, <1>7, <1>8, <1>9, <1>10, <1>11, <1>12

LEMMA EndsEarlyTyped ==
  ASSUME Typed, NEW r \in Requests, EndsEarly(r)
  PROVE  StoreTyped' /\ Moved(r) /\ ShapeOK(request'[r])
<1>1. Ended(r)
  BY EndIs DEF EndsEarly, Typed
<1>2. past.disturbed \in 0..MaxDisturbed /\ past \in Past /\ StoreTyped
  BY TypedStore DEF StoreTyped, Past
<1>3. past.disturbed + 1 \in 0..MaxDisturbed
  BY <1>2, AccountAssumption DEF EndsEarly
<1>4. past' \in Past
  BY <1>2, <1>3 DEF EndsEarly, Past
<1>5. StoreTyped'
  BY <1>2, <1>4 DEF EndsEarly, StoreTyped, rows
<1> QED BY <1>1, <1>5, IdleIsARequest DEF Ended

LEMMA StepTyped ==
  ASSUME Typed, NEW r \in Requests, Step(r)
  PROVE  StoreTyped' /\ Moved(r) /\ ShapeOK(request'[r])
BY SignInTyped, SeatedTyped, EndsEarlyTyped DEF Step

LEMMA StillTyped ==
  ASSUME Typed, StoreTyped', UNCHANGED request, Remember
  PROVE  Typed'
<1>1. Shapes' /\ raced' \subseteq Users
  BY DEF Typed, TypeOK, Shapes, ShapeOK, Remember
<1> QED BY <1>1 DEF Typed, TypeOK, StoreTyped

LEMMA VisitTyped ==
  ASSUME Typed, NEW b \in Browsers, Visit(b), Remember
  PROVE  Typed'
<1>0. TypeOK /\ StoreTyped
  BY TypedStore DEF Typed
<1>1. ASSUME NEW calendar \in {"no", "yes"}, Start(b, calendar)
      PROVE  Typed'
  <2> DEFINE t == drawn.attempts + 1
             a == [row |-> "kept", calendar |-> calendar,
                   account |-> IF calendar = "yes" THEN AccountOf(Named(jar[b].session)) ELSE 0]
  <2>1. /\ t \in Attempts /\ t \in 0..MaxAttempts
        /\ drawn' = [drawn EXCEPT !.attempts = t]
    BY <1>0, <1>1, AccountAssumption DEF Start, StoreTyped, Attempts
  <2>2. Named(jar[b].session) \in Users \union {NoUser}
    <3>1. jar[b].session \in 0..MaxSessions
      BY <1>0 DEF StoreTyped
    <3>2. CASE jar[b].session = 0
      BY <3>2 DEF Named
    <3>3. CASE jar[b].session \in Sessions
      BY <1>0, <3>3, AccountAssumption DEF Named, StoreTyped, Sessions
    <3> QED BY <3>1, <3>2, <3>3, AccountAssumption DEF Sessions
  <2>3. AccountOf(Named(jar[b].session)) \in 0..MaxIds
    BY <1>0, <2>2, AccountAssumption DEF AccountOf, StoreTyped
  <2>4. a \in Attempt
    BY <2>3, AccountAssumption DEF Attempt
  <2>5. attempt' = [attempt EXCEPT ![t] = a]
    BY <1>1 DEF Start
  <2>6. jar' = [jar EXCEPT ![b].login = t]
    BY <1>1 DEF Start
  <2> HIDE DEF t, a
  <2>7. jar' \in [Browsers -> Jar]
    <3>1. 0 \in 0..MaxSessions
      BY AccountAssumption
    <3> QED BY <1>0, <2>1, <2>6, <3>1, JarTyped
  <2>8. drawn' \in [ids : 0..MaxIds, attempts : 0..MaxAttempts, sessions : 0..MaxSessions]
    BY <1>0, <2>1 DEF StoreTyped
  <2>9. attempt' \in [Attempts -> Attempt]
    BY <1>0, <2>4, <2>5 DEF StoreTyped
  <2>10. StoreTyped'
    BY <1>0, <1>1, <2>7, <2>8, <2>9 DEF Start, StoreTyped, Jar
  <2> QED BY <1>1, <2>10, StillTyped DEF Start
<1>2. ASSUME NEW t \in Attempts, CallbackCancelled(b, t)
      PROVE  Typed'
  <2>1. 0 \in 0..MaxAttempts /\ 0 \in 0..MaxSessions
    BY AccountAssumption
  <2>2. jar' = [jar EXCEPT ![b].login = 0]
    BY <1>2 DEF CallbackCancelled
  <2>3. jar' \in [Browsers -> Jar]
    BY <1>0, <2>1, <2>2, JarTyped
  <2>4. attempt' \in [Attempts -> Attempt]
    BY <1>0, <1>2 DEF CallbackCancelled, StoreTyped, Attempt
  <2>5. StoreTyped'
    BY <1>0, <1>2, <2>3, <2>4 DEF CallbackCancelled, StoreTyped, Jar
  <2> QED BY <1>2, <2>5, StillTyped DEF CallbackCancelled
<1>3. ASSUME NEW r \in Requests, NEW t \in Attempts, NEW u \in Users, NEW consent \in Consent,
             Callback(r, b, t, u, consent)
      PROVE  Typed'
  <2>1. attempt' \in [Attempts -> Attempt]
    BY <1>0, <1>3 DEF Callback, StoreTyped, Attempt
  <2>2. StoreTyped'
    BY <1>0, <1>3, <2>1 DEF Callback, StoreTyped
  <2>3. Moved(r) /\ ShapeOK(request'[r])
    BY <1>0, <1>3, CallbackIs DEF ShapeOK, Seated, Known, Deletion, Asked
  <2> QED BY <2>2, <2>3, TypedAgain
<1>4. ASSUME NEW r \in Requests, NEW pc \in Asked, Ask(r, b, pc)
      PROVE  Typed'
  <2>1. StoreTyped'
    BY <1>0, <1>4 DEF Ask, StoreTyped, rows
  <2>2. Moved(r) /\ ShapeOK(request'[r])
    BY <1>0, <1>4, AskIs DEF ShapeOK, Login, Known, Deletion, Asked
  <2> QED BY <2>1, <2>2, TypedAgain
<1>5. CASE Logout(b)
  <2>1. 0 \in 0..MaxAttempts /\ 0 \in 0..MaxSessions
    BY AccountAssumption
  <2>2. jar' = [jar EXCEPT ![b].session = 0]
    BY <1>5 DEF Logout
  <2>3. jar' \in [Browsers -> Jar]
    BY <1>0, <2>1, <2>2, JarTyped
  <2>4. StoreTyped'
    BY <1>0, <1>5, <2>3 DEF Logout, StoreTyped, Jar
  <2> QED BY <1>5, <2>4, StillTyped DEF Logout
<1> QED BY <1>1, <1>2, <1>3, <1>4, <1>5 DEF Visit

LEMMA ExpiryTyped ==
  ASSUME Typed, Remember,
         \/ \E t \in Attempts : AttemptExpires(t)
         \/ \E s \in Sessions : SessionExpires(s)
  PROVE  Typed'
<1>0. TypeOK /\ StoreTyped
  BY TypedStore DEF Typed
<1>1. past' \in Past
  <2>1. past \in Past /\ past.disturbed \in 0..MaxDisturbed
    BY <1>0 DEF StoreTyped, Past
  <2>2. /\ past.disturbed < MaxDisturbed
        /\ past' = [past EXCEPT !.disturbed = past.disturbed + 1]
    BY DEF AttemptExpires, SessionExpires
  <2>3. past.disturbed + 1 \in 0..MaxDisturbed
    BY <2>1, <2>2, AccountAssumption
  <2> QED BY <2>1, <2>2, <2>3 DEF Past
<1>2. ASSUME NEW t \in Attempts, AttemptExpires(t)
      PROVE  StoreTyped' /\ UNCHANGED request
  <2>1. attempt' \in [Attempts -> Attempt]
    BY <1>0, <1>2 DEF AttemptExpires, StoreTyped, Attempt
  <2> QED BY <1>0, <1>1, <1>2, <2>1 DEF AttemptExpires, StoreTyped
<1>3. ASSUME NEW s \in Sessions, SessionExpires(s)
      PROVE  StoreTyped' /\ UNCHANGED request
  BY <1>0, <1>1, <1>3 DEF SessionExpires, StoreTyped
<1> QED BY <1>2, <1>3, StillTyped

LEMMA InitTyped == Init => Typed
<1> SUFFICES ASSUME Init PROVE Typed
  OBVIOUS
<1>1. 0 \in 0..MaxIds /\ 0 \in 0..MaxAttempts /\ 0 \in 0..MaxSessions /\ 0 \in 0..MaxDisturbed
  BY AccountAssumption
<1>2. request \in [Requests -> Request] /\ Shapes
  BY IdleIsARequest DEF Init, Shapes
<1>3. past \in Past
  BY <1>1 DEF Init, Past
<1>4. StoreTyped
  BY <1>1, <1>3 DEF Init, StoreTyped, Attempt
<1> QED BY <1>2, <1>4 DEF Init, Typed, TypeOK, StoreTyped

LEMMA NextTyped == Typed /\ [Next]_vars => Typed'
<1>1. ASSUME Typed, NEW r \in Requests, Step(r), Remember
      PROVE  Typed'
  BY <1>1, StepTyped, TypedAgain
<1>2. ASSUME Typed, UNCHANGED vars
      PROVE  Typed'
  BY <1>2 DEF vars, rows, Typed, TypeOK, Shapes, ShapeOK
<1> QED BY <1>1, <1>2, VisitTyped, ExpiryTyped DEF Next

(* Rows, cookies and requests are of the kind the code stores, for any      *)
(* users, browsers, requests and bounds.                                    *)
THEOREM TypeCorrect == Spec => []TypeOK
<1>1. Typed => TypeOK
  BY DEF Typed
<1> QED BY <1>1, InitTyped, NextTyped, PTL DEF Spec
-----------------------------------------------------------------------------
\* The program of a request: from where to where a step may take it.
Flow ==
  {<<"match", "account">>, <<"account", "profile">>, <<"account", "create">>,
   <<"create", "profile">>, <<"create", "again">>, <<"again", "profile">>,
   <<"profile", "connect">>, <<"profile", "session">>, <<"connect", "session">>,
   <<"session", "drop">>, <<"session", "welcome">>, <<"drop", "welcome">>,
   <<"deletes", "read">>, <<"opens", "issue">>, <<"lets_go", "forget">>,
   <<"read", "revoke">>, <<"read", "disconnect">>, <<"revoke", "disconnect">>,
   <<"disconnect", "agent">>, <<"agent", "owner">>, <<"owner", "unprofile">>,
   <<"unprofile", "unsession">>, <<"unsession", "unaccount">>, <<"unsession", "goodbye">>,
   <<"unaccount", "goodbye">>}

Advances(r) ==
  /\ Moved(r)
  /\ request'[r].user = request[r].user /\ request'[r].attempt = request[r].attempt
  /\ request'[r].cookie = request[r].cookie
  /\ <<request[r].pc, request'[r].pc>> \in Flow
  /\ IF request[r].pc = "owner" THEN request'[r].key = session[request[r].cookie]
                                ELSE request'[r].key = request[r].key

LEMMA StepMoves ==
  ASSUME Typed, NEW r \in Requests, Step(r)
  PROVE  Ended(r) \/ Advances(r)
<1>0. TypeOK
  BY DEF Typed
<1>a. ASSUME NEW pc \in PC, NEW i, NEW s, Becomes(r, pc, i, request[r].key, s),
             <<request[r].pc, pc>> \in Flow, request[r].pc # "owner"
      PROVE  Advances(r)
  BY <1>a DEF Becomes, Advances
<1>b. ASSUME NEW pc \in PC, Goto(r, pc), <<request[r].pc, pc>> \in Flow, request[r].pc # "owner"
      PROVE  Advances(r)
  BY <1>0, <1>a, <1>b, GotoIs DEF Goes
<1>c. FailedLogin(r) => Ended(r)
  BY <1>0, EndIs DEF FailedLogin
<1>d. request[r].pc # "idle" => request[r].user \in Users
  BY AtHand
<1>1. CASE CallbackMatch(r)
  BY <1>1, <1>b, <1>c DEF CallbackMatch, Flow, PC, Login
<1>2. CASE CallbackAccount(r)
  <2>1. request[r].pc = "account"
    BY <1>2 DEF CallbackAccount
  <2>2. \E pc \in {"profile", "create"}, i \in 0..MaxIds :
          Becomes(r, pc, i, request[r].key, request[r].fresh)
    BY <1>0, <1>2, <1>d, <2>1, CallbackAccountIs, AtHand DEF TypeOK
  <2> QED BY <1>a, <2>1, <2>2 DEF Flow, PC, Login
<1>3. CASE CallbackCreate(r)
  BY <1>3, <1>b DEF CallbackCreate, Flow, PC, Login
<1>4. CASE CallbackAgain(r)
  <2>1. request[r].pc = "again"
    BY <1>4 DEF CallbackAgain
  <2>2. Ended(r) \/ \E i \in 0..MaxIds :
          Becomes(r, "profile", i, request[r].key, request[r].fresh)
    BY <1>0, <1>4, <1>d, <2>1, CallbackAgainIs DEF TypeOK
  <2> QED BY <1>a, <2>1, <2>2 DEF Flow, PC, Login
<1>5. CASE CallbackProfile(r)
  BY <1>5, <1>b DEF CallbackProfile, Flow, PC, Login
<1>6. CASE CallbackConnect(r)
  BY <1>6, <1>b, <1>c DEF CallbackConnect, Flow, PC, Login
<1>7. CASE CallbackSession(r)
  <2>1. request[r].pc = "session"
    BY <1>7 DEF CallbackSession
  <2> QED BY <1>0, <1>7, <1>a, <2>1, CallbackSessionIs DEF Flow, PC, Login
<1>8. CASE CallbackDrop(r)
  BY <1>8, <1>b DEF CallbackDrop, Flow, PC, Login
<1>9. CASE Welcome(r) \/ IssueAgent(r) \/ Forget(r) \/ Goodbye(r) \/ EndsEarly(r)
  BY <1>0, <1>9, EndIs DEF Welcome, IssueAgent, Forget, Goodbye, EndsEarly
<1>10. CASE Current(r)
  <2>1. request[r].pc \in Asked
    BY <1>10 DEF Current
  <2>2. CASE account[request[r].user] = 0
    BY <1>0, <1>10, <2>2, EndIs DEF Current
  <2>3. CASE account[request[r].user] # 0
    <3> DEFINE pc == CASE request[r].pc = "deletes" -> "read"
                       [] request[r].pc = "opens" -> "issue"
                       [] request[r].pc = "lets_go" -> "forget"
    <3>1. pc \in PC /\ <<request[r].pc, pc>> \in Flow /\ request[r].pc # "owner"
      BY <2>1 DEF Asked, PC, Deletion, Flow
    <3>2. request' = [request EXCEPT ![r].id = account[request[r].user], ![r].pc = pc]
      BY <1>10, <2>3 DEF Current
    <3>3. account[request[r].user] \in 0..MaxIds
      BY <1>0, <1>d, <2>1 DEF TypeOK, Asked
    <3> HIDE DEF pc
    <3>4. Becomes(r, pc, account[request[r].user], request[r].key, request[r].fresh)
      BY <1>0, <3>1, <3>2, <3>3, RequestFields DEF Becomes, Moved, Request
    <3> QED BY <1>a, <3>1, <3>4
  <2> QED BY <2>2, <2>3
<1>11. CASE RevokeRead(r)
  BY <1>11, <1>b DEF RevokeRead, Flow, PC, Deletion
<1>12. CASE Revoke(r)
  BY <1>12, <1>b DEF Revoke, Flow, PC, Deletion
<1>13. CASE Disconnect(r)
  BY <1>13, <1>b DEF Disconnect, Flow, PC, Deletion
<1>14. CASE DeleteAgent(r)
  BY <1>14, <1>b DEF DeleteAgent, Flow, PC, Deletion
<1>15. CASE DeleteReadsOwner(r)
  <2>1. request[r].pc = "owner" /\ request[r].cookie \in Sessions
    BY <1>15, AtHand DEF DeleteReadsOwner, Seated, Deletion
  <2> QED BY <1>0, <1>15, <2>1, DeleteReadsOwnerIs DEF Becomes, Advances, Flow
<1>16. CASE DeleteProfile(r)
  BY <1>16, <1>b DEF DeleteProfile, Flow, PC, Deletion
<1>17. CASE DeleteSession(r)
  BY <1>17, <1>b DEF DeleteSession, Flow, PC, Deletion
<1>18. CASE DeleteAccount(r)
  BY <1>18, <1>b DEF DeleteAccount, Flow, PC, Deletion
<1> QED BY <1>1, <1>2, <1>3, <1>4, <1>5, <1>6, <1>7, <1>8, <1>9, <1>10, <1>11, <1>12,
          <1>13, <1>14, <1>15, <1>16, <1>17, <1>18 DEF Step
-----------------------------------------------------------------------------
(* Login attempts.                                                          *)
LEMMA AttemptTypes ==
  ASSUME Typed
  PROVE  /\ \A r \in Requests : request[r].attempt \in 0..MaxAttempts
         /\ \A r \in Requests : request[r].attempt # 0 => request[r].attempt \in Attempts
         /\ \A r \in Requests : request[r].pc \in Early => request[r].attempt \in Attempts
         /\ \A s \in Sessions : past.login[s] \in 0..MaxAttempts
         /\ \A s \in Sessions : past.login[s] # 0 => past.login[s] \in Attempts
         /\ drawn.attempts \in 0..MaxAttempts /\ Attempts \subseteq Int /\ 0 \notin Attempts
<1>1. \A r \in Requests : request[r].attempt \in 0..MaxAttempts
  BY RequestFields DEF Typed
<1>2. \A r \in Requests : request[r].pc \in Early => request[r].attempt \in Attempts
  BY AtHand DEF Early
<1>3. /\ drawn.attempts \in 0..MaxAttempts
      /\ \A s \in Sessions : past.login[s] \in 0..MaxAttempts
  BY DEF Typed, TypeOK, Past
<1> QED BY <1>1, <1>2, <1>3, AccountAssumption DEF Attempts

\* A step that consumes no attempt and makes no session.
LoginsCalm ==
  /\ \A q \in Requests :
       \/ /\ request'[q].attempt = request[q].attempt
          /\ request'[q].pc \in Early => request[q].pc \in Early
       \/ request'[q].attempt = 0 /\ request'[q].pc \notin Early
  /\ \A t \in Attempts : \/ attempt'[t].row = attempt[t].row
                         \/ attempt[t].row # "absent" /\ attempt'[t].row = "used"
  /\ drawn'.attempts = drawn.attempts /\ past'.login = past.login

LEMMA LoginsKept ==
  ASSUME Typed, Logins, LoginsCalm
  PROVE  Logins'
<1>1. AttemptsDrawn'
  BY DEF Logins, AttemptsDrawn, LoginsCalm
<1>2. OneLogin'
  <2>1. \A r \in Requests : request'[r].attempt # 0 => attempt'[request'[r].attempt].row = "used"
    BY AttemptTypes DEF Logins, OneLogin, LoginsCalm
  <2>2. \A s \in Sessions : past'.login[s] # 0 => attempt'[past'.login[s]].row = "used"
    BY AttemptTypes DEF Logins, OneLogin, LoginsCalm
  <2>3. \A r, q \in Requests :
          r # q /\ request'[r].attempt # 0 => request'[r].attempt # request'[q].attempt
    BY DEF Logins, OneLogin, LoginsCalm
  <2>4. \A r \in Requests, s \in Sessions :
          request'[r].pc \in Early => request'[r].attempt # past'.login[s]
    BY DEF Logins, OneLogin, LoginsCalm
  <2> QED BY <2>1, <2>2, <2>3, <2>4 DEF OneLogin
<1>3. AttemptSignsInOnce'
  BY DEF Logins, AttemptSignsInOnce, LoginsCalm
<1> QED BY <1>1, <1>2, <1>3 DEF Logins

\* What every step but those of sign-in itself leaves of the attempts.
LEMMA StepLogins ==
  ASSUME Typed, NEW r \in Requests, Step(r), ~CallbackSession(r)
  PROVE  LoginsCalm
<1>1. /\ UNCHANGED attempt
      /\ drawn'.attempts = drawn.attempts /\ past'.login = past.login
  <2>0. TypeOK
    BY DEF Typed
  <2>1. CASE CallbackAccount(r)
    <3>1. request[r].user \in Users
      BY <2>1, AtHand DEF CallbackAccount
    <3> QED BY <2>0, <2>1, <3>1, CallbackAccountIs DEF CallbackAccount, rows, TypeOK, Past
  <2>2. CASE Goodbye(r)
    BY <2>0, <2>2 DEF Goodbye, rows, TypeOK, Past
  <2>3. CASE EndsEarly(r)
    BY <2>0, <2>3 DEF EndsEarly, rows, TypeOK, Past
  <2> QED BY <2>1, <2>2, <2>3
          DEF Step, CallbackMatch, CallbackCreate, CallbackAgain, CallbackProfile,
              CallbackConnect, CallbackDrop, Welcome, Current, IssueAgent, Forget, RevokeRead,
              Revoke, Disconnect, DeleteAgent, DeleteReadsOwner, DeleteProfile, DeleteSession,
              DeleteAccount, FailedLogin, rows
<1>2. Ended(r) \/ Advances(r)
  BY StepMoves
<1>3. CASE Ended(r)
  BY <1>1, <1>3 DEF Ended, Moved, IdleRequest, LoginsCalm, Early, Login
<1>4. CASE Advances(r)
  <2>1. request'[r].pc \in Early => request[r].pc \in Early
    BY <1>4 DEF Advances, Flow, Early, Login
  <2> QED BY <1>1, <1>4, <2>1 DEF Advances, Moved, LoginsCalm
<1> QED BY <1>2, <1>3, <1>4

\* The session takes the attempt over from its request.
LEMMA SessionLogins ==
  ASSUME Typed, Logins, NEW r \in Requests, CallbackSession(r)
  PROVE  Logins'
<1> DEFINE s == drawn.sessions + 1
           t == request[r].attempt
<1>1. /\ s \in Sessions /\ Moved(r) /\ request'[r].attempt = t
      /\ request'[r].pc \notin Early
      /\ past' = [past EXCEPT !.login[s] = t]
      /\ UNCHANGED attempt /\ drawn'.attempts = drawn.attempts
  <2>1. TypeOK
    BY DEF Typed
  <2> QED BY <2>1, CallbackSessionIs DEF Becomes, CallbackSession, Early, TypeOK
<1>2. /\ past'.login[s] = t
      /\ \A x \in Sessions : x # s => past'.login[x] = past.login[x]
  BY <1>1 DEF Typed, TypeOK, Past
<1>3. request[r].pc \in Early
  BY DEF CallbackSession, Early, Login
<1>4. t \in Attempts /\ t # 0
  BY <1>3, AttemptTypes
<1> HIDE DEF s, t
<1>5. request[r].attempt = t
  BY DEF t
<1>6. AttemptsDrawn'
  BY <1>1 DEF Logins, AttemptsDrawn
<1>7. AttemptSignsInOnce'
  <2>1. \A x \in Sessions : x # s => past'.login[x] # t
    BY <1>2, <1>3, <1>5 DEF Logins, OneLogin
  <2> QED BY <1>1, <1>2, <2>1 DEF Logins, AttemptSignsInOnce
<1>8. OneLogin'
  <2>1. \A q \in Requests : request'[q].attempt = request[q].attempt
    BY <1>1, <1>5 DEF Moved
  <2>2. \A q \in Requests : request'[q].attempt # 0 => attempt'[request'[q].attempt].row = "used"
    BY <1>1, <2>1 DEF Logins, OneLogin
  <2>3. \A x \in Sessions : past'.login[x] # 0 => attempt'[past'.login[x]].row = "used"
    BY <1>1, <1>2, <1>4, <1>5 DEF Logins, OneLogin
  <2>4. \A p, q \in Requests :
          p # q /\ request'[p].attempt # 0 => request'[p].attempt # request'[q].attempt
    BY <2>1 DEF Logins, OneLogin
  <2>5. ASSUME NEW q \in Requests, NEW x \in Sessions, request'[q].pc \in Early
        PROVE  request'[q].attempt # past'.login[x]
    <3>1. q # r /\ request[q].pc \in Early
      BY <1>1, <2>5 DEF Moved
    <3>2. request[q].attempt # t
      BY <1>4, <1>5, <3>1 DEF Logins, OneLogin
    <3> QED BY <1>2, <2>1, <3>1, <3>2 DEF Logins, OneLogin
  <2> QED BY <2>2, <2>3, <2>4, <2>5 DEF OneLogin
<1> QED BY <1>6, <1>7, <1>8 DEF Logins

\* The attempt that a callback uses up was nobody's.
LEMMA CallbackLogins ==
  ASSUME Typed, Logins, NEW r \in Requests, NEW b \in Browsers, NEW t \in Attempts,
         NEW u \in Users, NEW consent \in Consent, Callback(r, b, t, u, consent)
  PROVE  Logins'
<1>1. /\ Moved(r) /\ request'[r].attempt = t
      /\ attempt[t].row = "kept" /\ drawn' = drawn /\ past' = past
      /\ t # 0
  <2>1. TypeOK /\ t # 0
    BY AttemptTypes DEF Typed
  <2>2. Moved(r) /\ request'[r].attempt = t
    BY <2>1, CallbackIs
  <2>3. attempt[t].row = "kept" /\ drawn' = drawn /\ past' = past
    BY DEF Callback, Consumed
  <2> QED BY <2>1, <2>2, <2>3
<1>2. /\ attempt'[t].row = "used"
      /\ \A x \in Attempts : x # t => attempt'[x] = attempt[x]
  BY DEF Callback, Typed, TypeOK, Attempt
<1>3. \A q \in Requests : request[q].attempt # t
  BY <1>1 DEF Logins, OneLogin
<1>4. \A s \in Sessions : past.login[s] # t
  BY <1>1 DEF Logins, OneLogin
<1>5. AttemptsDrawn'
  BY <1>1, <1>2 DEF Logins, AttemptsDrawn
<1>6. OneLogin'
  <2>1. \A q \in Requests : request'[q].attempt # 0 => attempt'[request'[q].attempt].row = "used"
    BY <1>1, <1>2, <1>3, AttemptTypes DEF Logins, OneLogin, Moved
  <2>2. \A s \in Sessions : past'.login[s] # 0 => attempt'[past'.login[s]].row = "used"
    BY <1>1, <1>2, <1>4, AttemptTypes DEF Logins, OneLogin
  <2>3. \A p, q \in Requests :
          p # q /\ request'[p].attempt # 0 => request'[p].attempt # request'[q].attempt
    BY <1>1, <1>3 DEF Logins, OneLogin, Moved
  <2>4. \A q \in Requests, s \in Sessions :
          request'[q].pc \in Early => request'[q].attempt # past'.login[s]
    BY <1>1, <1>4 DEF Logins, OneLogin, Moved
  <2> QED BY <2>1, <2>2, <2>3, <2>4 DEF OneLogin
<1>7. AttemptSignsInOnce'
  BY <1>1 DEF Logins, AttemptSignsInOnce
<1> QED BY <1>5, <1>6, <1>7 DEF Logins

LEMMA StartLogins ==
  ASSUME Typed, Logins, NEW b \in Browsers, NEW calendar \in {"no", "yes"}, Start(b, calendar)
  PROVE  Logins'
<1> DEFINE t == drawn.attempts + 1
<1>1. /\ t \in Attempts /\ t \in Int /\ drawn.attempts \in Int /\ drawn'.attempts = t
      /\ request' = request /\ past' = past
      /\ \A x \in Attempts : x # t => attempt'[x] = attempt[x]
  BY AttemptTypes, AccountAssumption DEF Start, Typed, TypeOK, Attempts
<1>2. ~(t <= drawn.attempts)
  BY <1>1
<1>a. \A x \in Attempts : x \in Int /\ (x <= drawn.attempts => x <= t)
  BY <1>1, AttemptTypes
<1> HIDE DEF t
<1>3. attempt[t].row = "absent"
  BY <1>1, <1>2 DEF Logins, AttemptsDrawn
<1>4. /\ \A r \in Requests : request[r].attempt # t
      /\ \A s \in Sessions : past.login[s] # t
  BY <1>1, <1>3, AttemptTypes DEF Logins, OneLogin
<1>5. AttemptsDrawn'
  <2>1. ASSUME NEW x \in Attempts, attempt'[x].row # "absent"
        PROVE  x <= drawn'.attempts
    <3>1. CASE x = t
      BY <1>1, <3>1
    <3>2. CASE x # t
      BY <1>1, <1>a, <2>1, <3>2 DEF Logins, AttemptsDrawn
    <3> QED BY <3>1, <3>2
  <2> QED BY <2>1 DEF AttemptsDrawn
<1>6. OneLogin'
  BY <1>1, <1>4, AttemptTypes DEF Logins, OneLogin
<1>7. AttemptSignsInOnce'
  BY <1>1 DEF Logins, AttemptSignsInOnce
<1> QED BY <1>5, <1>6, <1>7 DEF Logins

LEMMA LoginsInductive ==
  /\ Init => Logins
  /\ Typed /\ Logins /\ [Next]_vars => Logins'
<1>1. Init => Logins
  BY DEF Init, Logins, AttemptsDrawn, OneLogin, AttemptSignsInOnce, IdleRequest, Early, Login
<1> SUFFICES ASSUME Typed, Logins, [Next]_vars PROVE Logins'
  BY <1>1
<1>2. ASSUME NEW b \in Browsers, Visit(b)
      PROVE  Logins'
  <2>1. ASSUME NEW t \in Attempts, CallbackCancelled(b, t)
        PROVE  LoginsCalm
    BY <2>1 DEF CallbackCancelled, Consumed, LoginsCalm, Typed, TypeOK, Attempt
  <2>2. ASSUME NEW r \in Requests, NEW pc \in Asked, Ask(r, b, pc)
        PROVE  LoginsCalm
    BY <2>2, AskIs DEF Ask, LoginsCalm, Moved, rows, Typed, Early, Login, Asked
  <2>3. Logout(b) => LoginsCalm
    BY DEF Logout, LoginsCalm
  <2> QED BY <1>2, <2>1, <2>2, <2>3, StartLogins, CallbackLogins, LoginsKept DEF Visit
<1>3. ASSUME NEW r \in Requests, Step(r)
      PROVE  Logins'
  BY <1>3, StepLogins, SessionLogins, LoginsKept
<1>4. ASSUME NEW t \in Attempts, AttemptExpires(t)
      PROVE  LoginsCalm
  BY <1>4 DEF AttemptExpires, LoginsCalm, Typed, TypeOK, Attempt, Past
<1>5. ASSUME NEW s \in Sessions, SessionExpires(s)
      PROVE  LoginsCalm
  BY <1>5 DEF SessionExpires, LoginsCalm, Typed, TypeOK, Past
<1>6. UNCHANGED vars => LoginsCalm
  BY DEF vars, rows, LoginsCalm
<1> QED BY <1>2, <1>3, <1>4, <1>5, <1>6, LoginsKept DEF Next

(* A login attempt signs in at most once, for any browsers, requests and    *)
(* repetitions of its callback.                                             *)
THEOREM LoginsCorrect == Spec => []AttemptSignsInOnce
<1>1. Init => Typed /\ Logins
  BY InitTyped, LoginsInductive
<1>2. Typed /\ Logins /\ [Next]_vars => (Typed /\ Logins)'
  BY NextTyped, LoginsInductive
<1>3. Typed /\ Logins => AttemptSignsInOnce
  BY DEF Logins
<1> QED BY <1>1, <1>2, <1>3, PTL DEF Spec
-----------------------------------------------------------------------------
(* Sessions, and the requests that they vouch for.                          *)
Keyed == {"unprofile", "unsession", "unaccount"}

\* A step that opens no session; a request may sit down on one that is there.
SeatsCalm ==
  /\ \A q \in Requests :
       \/ request'[q].pc \notin Seated
       \/ /\ request[q].pc \in Seated
          /\ request'[q].user = request[q].user /\ request'[q].cookie = request[q].cookie
          /\ request'[q].pc \in Keyed =>
               \/ request[q].pc \in Keyed /\ request'[q].key = request[q].key
               \/ request'[q].key = session[request[q].cookie]
       \/ /\ request'[q].pc \in Asked /\ request'[q].cookie \in Sessions
          /\ request'[q].user \in Users
          /\ session[request'[q].cookie] = request'[q].user
  /\ \A s \in Sessions : session'[s] = session[s] \/ session'[s] = NoUser
  /\ drawn'.sessions = drawn.sessions

LEMMA SeatsKept ==
  ASSUME Typed, Seats, SeatsCalm
  PROVE  Seats'
<1>1. SessionsDrawn'
  BY DEF Seats, SessionsDrawn, SeatsCalm
<1>2. \A q \in Requests : request[q].pc \in Seated => request[q].cookie \in Sessions
  BY AtHand
<1>3. CookiesOK'
  <2> SUFFICES ASSUME NEW q \in Requests, request'[q].pc \in Seated
               PROVE  /\ request'[q].cookie <= drawn'.sessions
                      /\ session'[request'[q].cookie] \in {request'[q].user, NoUser}
    BY DEF CookiesOK
  <2>1. CASE /\ request[q].pc \in Seated
             /\ request'[q].user = request[q].user /\ request'[q].cookie = request[q].cookie
    BY <1>2, <2>1 DEF Seats, CookiesOK, SeatsCalm
  <2>2. CASE /\ request'[q].cookie \in Sessions /\ request'[q].user \in Users
             /\ session[request'[q].cookie] = request'[q].user
    BY <2>2, AccountAssumption DEF Seats, SessionsDrawn, SeatsCalm
  <2> QED BY <2>1, <2>2 DEF SeatsCalm
<1>4. KeysOK'
  <2> SUFFICES ASSUME NEW q \in Requests, request'[q].pc \in Keyed
               PROVE  request'[q].key \in {request'[q].user, NoUser}
    BY DEF KeysOK, Keyed
  <2>1. request'[q].pc \in Seated /\ request'[q].pc \notin Asked
    BY DEF Keyed, Seated, Deletion, Asked
  <2>2. /\ request[q].pc \in Seated /\ request'[q].user = request[q].user
        /\ \/ request[q].pc \in Keyed /\ request'[q].key = request[q].key
           \/ request'[q].key = session[request[q].cookie]
    BY <2>1 DEF SeatsCalm
  <2> QED BY <2>2 DEF Seats, KeysOK, CookiesOK, Keyed
<1> QED BY <1>1, <1>3, <1>4 DEF Seats

\* What a step that moves its request alone does to the seats.
LEMMA StepSeats ==
  ASSUME Typed, NEW r \in Requests, Step(r), ~CallbackSession(r)
  PROVE  SeatsCalm
<1>1. \A s \in Sessions : session'[s] = session[s] \/ session'[s] = NoUser
  <2>1. CASE CallbackDrop(r) \/ DeleteSession(r) \/ Current(r)
    BY <2>1 DEF CallbackDrop, DeleteSession, Current, Typed, TypeOK
  <2> QED BY <2>1
          DEF Step, CallbackMatch, CallbackAccount, CallbackCreate, CallbackAgain,
              CallbackProfile, CallbackConnect, Welcome, IssueAgent, Forget, RevokeRead,
              Revoke, Disconnect, DeleteAgent, DeleteReadsOwner, DeleteProfile,
              DeleteAccount, Goodbye, EndsEarly, FailedLogin, rows
<1>2. drawn'.sessions = drawn.sessions
  <2>1. CASE CallbackAccount(r)
    BY <2>1 DEF CallbackAccount, Typed, TypeOK
  <2> QED BY <2>1
          DEF Step, CallbackMatch, CallbackCreate, CallbackAgain, CallbackDrop,
              CallbackProfile, CallbackConnect, Welcome, Current, IssueAgent, Forget, RevokeRead,
              Revoke, Disconnect, DeleteAgent, DeleteReadsOwner, DeleteProfile, DeleteSession,
              DeleteAccount, Goodbye, EndsEarly, FailedLogin
<1>3. Ended(r) \/ Advances(r)
  BY StepMoves
<1>4. CASE Ended(r)
  BY <1>1, <1>2, <1>4 DEF Ended, Moved, IdleRequest, SeatsCalm, Seated, Deletion, Asked
<1>5. CASE Advances(r)
  <2>1. /\ request'[r].pc \in Seated => request[r].pc \in Seated
        /\ request'[r].pc \in Keyed =>
             \/ request[r].pc \in Keyed /\ request'[r].key = request[r].key
             \/ request'[r].key = session[request[r].cookie]
    BY <1>5 DEF Advances, Flow, Seated, Deletion, Asked, Keyed
  <2>2. request'[r].user = request[r].user /\ request'[r].cookie = request[r].cookie
    BY <1>5 DEF Advances
  <2> QED BY <1>1, <1>2, <1>5, <2>1, <2>2 DEF Advances, Moved, SeatsCalm
<1> QED BY <1>3, <1>4, <1>5

\* A new session is under a number that no request came with.
LEMMA SessionSeats ==
  ASSUME Typed, Seats, NEW r \in Requests, CallbackSession(r)
  PROVE  Seats'
<1> DEFINE s == drawn.sessions + 1
<1>1. /\ s \in Sessions /\ Moved(r) /\ request'[r].pc \in {"drop", "welcome"}
      /\ session' = [session EXCEPT ![s] = request[r].user]
      /\ drawn'.sessions = s
  BY CallbackSessionIs DEF Becomes, Typed, TypeOK
<1>2. /\ ~(s <= drawn.sessions)
      /\ \A x \in Sessions : x <= drawn.sessions => x <= s
      /\ s <= s
  BY <1>1 DEF Typed, TypeOK, Sessions
<1> HIDE DEF s
<1>3. \A x \in Sessions : x # s => session'[x] = session[x]
  BY <1>1 DEF Typed, TypeOK
<1>4. SessionsDrawn'
  BY <1>1, <1>2, <1>3 DEF Seats, SessionsDrawn
<1>5. ASSUME NEW q \in Requests, request'[q].pc \in Seated
      PROVE  /\ q # r /\ request'[q] = request[q]
             /\ request[q].cookie \in Sessions /\ request[q].cookie # s
  <2>1. q # r /\ request'[q] = request[q]
    BY <1>1, <1>5 DEF Moved, Seated, Deletion, Asked
  <2> QED BY <1>2, <1>5, <2>1, AtHand DEF Seats, CookiesOK
<1>6. CookiesOK'
  BY <1>1, <1>2, <1>3, <1>5 DEF Seats, CookiesOK
<1>7. KeysOK'
  <2>1. \A q \in Requests : request'[q].pc \in Keyed => request'[q].pc \in Seated
    BY DEF Keyed, Seated, Deletion
  <2> QED BY <1>5, <2>1 DEF Seats, KeysOK, Keyed
<1> QED BY <1>4, <1>6, <1>7 DEF Seats

LEMMA SeatsInductive ==
  /\ Init => Seats
  /\ Typed /\ Seats /\ [Next]_vars => Seats'
<1>1. Init => Seats
  BY DEF Init, Seats, SessionsDrawn, CookiesOK, KeysOK, IdleRequest, Seated, Deletion, Asked
<1> SUFFICES ASSUME Typed, Seats, [Next]_vars PROVE Seats'
  BY <1>1
<1>a. ASSUME UNCHANGED request
      PROVE  \A q \in Requests :
               \/ request'[q].pc \notin Seated
               \/ /\ request[q].pc \in Seated
                  /\ request'[q].user = request[q].user /\ request'[q].cookie = request[q].cookie
                  /\ request'[q].pc \in Keyed =>
                       \/ request[q].pc \in Keyed /\ request'[q].key = request[q].key
                       \/ request'[q].key = session[request[q].cookie]
  BY <1>a
<1>2. ASSUME NEW b \in Browsers, Visit(b)
      PROVE  SeatsCalm
  <2>1. ASSUME NEW calendar \in {"no", "yes"}, Start(b, calendar)
        PROVE  SeatsCalm
    BY <1>a, <2>1 DEF Start, SeatsCalm, Typed, TypeOK
  <2>2. ASSUME NEW t \in Attempts, CallbackCancelled(b, t)
        PROVE  SeatsCalm
    BY <1>a, <2>2 DEF CallbackCancelled, SeatsCalm
  <2>3. ASSUME NEW r \in Requests, NEW t \in Attempts, NEW u \in Users, NEW consent \in Consent,
               Callback(r, b, t, u, consent)
        PROVE  SeatsCalm
    <3>1. Moved(r) /\ request'[r].pc \notin Seated
      BY <2>3, CallbackIs DEF Typed, Seated, Deletion, Asked
    <3> QED BY <2>3, <3>1 DEF Callback, SeatsCalm, Moved
  <2>4. ASSUME NEW r \in Requests, NEW pc \in Asked, Ask(r, b, pc)
        PROVE  SeatsCalm
    <3>1. /\ Moved(r) /\ request'[r].pc \in Asked /\ request'[r].cookie \in Sessions
          /\ request'[r].user \in Users /\ session[request'[r].cookie] = request'[r].user
      BY <2>4, AskIs DEF Typed
    <3>2. session' = session /\ drawn' = drawn
      BY <2>4 DEF Ask, rows
    <3>3. \A q \in Requests : q # r => request'[q] = request[q]
      BY <3>1 DEF Moved
    <3> QED BY <3>1, <3>2, <3>3 DEF SeatsCalm
  <2>5. CASE Logout(b)
    BY <1>a, <2>5 DEF Logout, SeatsCalm, Typed, TypeOK
  <2> QED BY <1>2, <2>1, <2>2, <2>3, <2>4, <2>5 DEF Visit
<1>3. ASSUME NEW r \in Requests, Step(r)
      PROVE  Seats'
  BY <1>3, StepSeats, SessionSeats, SeatsKept
<1>4. ASSUME NEW t \in Attempts, AttemptExpires(t)
      PROVE  SeatsCalm
  BY <1>a, <1>4 DEF AttemptExpires, SeatsCalm
<1>5. ASSUME NEW s \in Sessions, SessionExpires(s)
      PROVE  SeatsCalm
  BY <1>a, <1>5 DEF SessionExpires, SeatsCalm, Typed, TypeOK
<1>6. UNCHANGED vars => SeatsCalm
  BY <1>a DEF vars, rows, SeatsCalm
<1> QED BY <1>2, <1>3, <1>4, <1>5, <1>6, SeatsKept DEF Next
-----------------------------------------------------------------------------
(* Ids and their users, and the consent to a calendar.                      *)
LEMMA OwnerTypes ==
  ASSUME Typed
  PROVE  /\ \A u \in Users : account[u] \in 0..MaxIds
         /\ \A u \in Users : account[u] # 0 => account[u] \in Ids
         /\ \A i \in Ids : past.owner[i] \in Users \union {NoUser}
         /\ \A t \in Attempts : attempt[t] \in Attempt
         /\ NoUser \notin Users /\ 0 \notin Ids
BY AccountAssumption DEF Typed, TypeOK, Past, Ids

\* A step that draws no id.
OwnersCalm ==
  /\ past'.owner = past.owner /\ drawn'.ids = drawn.ids
  /\ \A u \in Users :
       \/ account'[u] = account[u]
       \/ account'[u] # 0 => past.owner[account'[u]] = u
  /\ \A i \in Ids : HasRows(i)' => HasRows(i) \/ past.owner[i] \in Users
  /\ \A i \in Ids : i \in past'.deleted => i \in past.deleted \/ past.owner[i] \in Users
  /\ \A t \in Attempts :
       \/ attempt'[t].calendar = attempt[t].calendar /\ attempt'[t].account = attempt[t].account
       \/ attempt'[t].calendar = "yes" =>
            attempt'[t].account \in Ids /\ past.owner[attempt'[t].account] \in Users
  /\ \A q \in Requests :
       \/ request'[q] = request[q]
       \/ request'[q].pc \in Known => past.owner[request'[q].id] = request'[q].user

LEMMA OwnersKept ==
  ASSUME Typed, IdsDrawn, Owned, OwnersCalm
  PROVE  IdsDrawn' /\ Owned'
<1>1. IdsDrawn'
  BY DEF IdsDrawn, OwnersCalm
<1>2. \A u \in Users : account'[u] # 0 => past'.owner[account'[u]] = u
  BY DEF Owned, OwnersCalm
<1>3. \A i \in Ids : HasRows(i)' \/ i \in past'.deleted => past'.owner[i] \in Users
  BY DEF Owned, OwnersCalm
<1>4. \A t \in Attempts : attempt'[t].calendar = "yes" =>
        attempt'[t].account \in Ids /\ past'.owner[attempt'[t].account] \in Users
  BY DEF Owned, OwnersCalm
<1>5. \A q \in Requests :
        request'[q].pc \in Known => past'.owner[request'[q].id] = request'[q].user
  BY DEF Owned, OwnersCalm
<1> QED BY <1>1, <1>2, <1>3, <1>4, <1>5 DEF Owned

\* The rows a step of a request leaves, and whom the ids of the others are of.
LEMMA StoreOwners ==
  ASSUME Typed, Owned, NEW r \in Requests, Step(r), ~CallbackAccount(r)
  PROVE  /\ past'.owner = past.owner /\ drawn'.ids = drawn.ids
         /\ \A u \in Users :
              \/ account'[u] = account[u]
              \/ account'[u] # 0 => past.owner[account'[u]] = u
         /\ \A i \in Ids : HasRows(i)' => HasRows(i) \/ past.owner[i] \in Users
         /\ \A i \in Ids : i \in past'.deleted => i \in past.deleted \/ past.owner[i] \in Users
         /\ UNCHANGED attempt
<1>0. /\ TypeOK
      /\ request[r].pc # "idle" => request[r].user \in Users
      /\ request[r].pc \in Known => past.owner[request[r].id] = request[r].user
  BY AtHand DEF Typed, Owned
<1>1. CASE CallbackCreate(r)
  <2>1. request[r].pc = "create" /\ past.owner[request[r].id] = request[r].user
    BY <1>0, <1>1 DEF CallbackCreate, Known
  <2> QED BY <1>0, <1>1, <2>1 DEF CallbackCreate, HasRows, TypeOK
<1>2. CASE CallbackProfile(r) \/ IssueAgent(r)
  <2>1. past.owner[request[r].id] = request[r].user /\ request[r].user \in Users
    BY <1>0, <1>2 DEF CallbackProfile, IssueAgent, Known
  <2> QED BY <1>0, <1>2, <2>1 DEF CallbackProfile, IssueAgent, HasRows
<1>3. CASE CallbackConnect(r)
  <2>1. past.owner[request[r].id] = request[r].user /\ request[r].user \in Users
    BY <1>0, <1>3 DEF CallbackConnect, Known
  <2>2. /\ UNCHANGED <<account, profile, agent, attempt, drawn, past>>
        /\ \A i \in Ids : i # request[r].id => connection'[i] = connection[i]
    BY <1>0, <1>3 DEF CallbackConnect, FailedLogin, rows, TypeOK
  <2> QED BY <2>1, <2>2 DEF HasRows
<1>4. CASE CallbackSession(r)
  BY <1>0, <1>4, CallbackSessionIs DEF CallbackSession, HasRows, TypeOK, Past
<1>5. CASE Forget(r) \/ Disconnect(r)
  <2>1. /\ UNCHANGED <<account, profile, agent, attempt, drawn, past>>
        /\ \A i \in Ids : connection'[i] = connection[i] \/ connection'[i] = NoUser
    BY <1>0, <1>5 DEF Forget, Disconnect, TypeOK
  <2> QED BY <2>1 DEF HasRows
<1>6. CASE DeleteAgent(r) \/ DeleteProfile(r)
  BY <1>6 DEF DeleteAgent, DeleteProfile, HasRows
<1>7. CASE DeleteAccount(r)
  BY <1>0, <1>7 DEF DeleteAccount, HasRows, TypeOK
<1>8. CASE Goodbye(r)
  <2>1. past.owner[request[r].id] = request[r].user /\ request[r].user \in Users
    BY <1>0, <1>8 DEF Goodbye, Known, Deletion
  <2> QED BY <1>0, <1>8, <2>1 DEF Goodbye, HasRows, rows, TypeOK, Past
<1>9. CASE EndsEarly(r)
  BY <1>0, <1>9 DEF EndsEarly, HasRows, rows, TypeOK, Past
<1>10. CASE \/ CallbackMatch(r) \/ CallbackAgain(r) \/ CallbackDrop(r) \/ Welcome(r)
            \/ Current(r) \/ RevokeRead(r) \/ Revoke(r) \/ DeleteReadsOwner(r)
            \/ DeleteSession(r)
  <2>1. UNCHANGED <<account, profile, connection, agent, attempt, drawn, past>>
    BY <1>10 DEF CallbackMatch, CallbackAgain, CallbackDrop, Welcome, Current, RevokeRead,
           Revoke, DeleteReadsOwner, DeleteSession, FailedLogin, rows
  <2> QED BY <2>1 DEF HasRows
<1> QED BY <1>1, <1>2, <1>3, <1>4, <1>5, <1>6, <1>7, <1>8, <1>9, <1>10 DEF Step

\* A request comes by an id by reading its user's account row, and keeps it.
LEMMA StepId ==
  ASSUME Typed, Owned, NEW r \in Requests, Step(r), ~CallbackAccount(r)
  PROVE  request'[r].pc \in Known => past.owner[request'[r].id] = request'[r].user
<1>0. /\ TypeOK
      /\ request[r].pc # "idle" => request[r].user \in Users
      /\ \A u \in Users : account[u] # 0 => past.owner[account[u]] = u
      /\ request[r].pc \in Known => past.owner[request[r].id] = request[r].user
  BY AtHand DEF Typed, Owned
<1>a. Ended(r) => request'[r].pc \notin Known
  BY DEF Ended, IdleRequest, Known, Deletion
<1>b. ASSUME request[r].pc \in Known, NEW pc \in PC, Goto(r, pc)
      PROVE  past.owner[request'[r].id] = request'[r].user
  BY <1>0, <1>b, GotoIs DEF Goes, Becomes
<1>c. FailedLogin(r) => Ended(r)
  BY <1>0, EndIs DEF FailedLogin
<1>1. CASE CallbackMatch(r)
  <2>1. ASSUME Goto(r, "account")
        PROVE  request'[r].pc \notin Known
    BY <1>0, <2>1, GotoIs DEF Goes, Becomes, PC, Login, Known, Deletion
  <2> QED BY <1>1, <1>a, <1>c, <2>1 DEF CallbackMatch
<1>2. CASE CallbackCreate(r) \/ CallbackProfile(r) \/ CallbackConnect(r) \/ CallbackDrop(r)
  BY <1>2, <1>a, <1>b, <1>c
     DEF CallbackCreate, CallbackProfile, CallbackConnect, CallbackDrop, Known, PC, Login
<1>3. CASE CallbackAgain(r)
  <2>1. request[r].pc = "again"
    BY <1>3 DEF CallbackAgain
  <2> QED BY <1>0, <1>3, <1>a, <2>1, CallbackAgainIs DEF Becomes
<1>4. CASE CallbackSession(r)
  <2>1. request[r].pc \in Known
    BY <1>4 DEF CallbackSession, Known
  <2> QED BY <1>0, <1>4, <2>1, CallbackSessionIs DEF Becomes
<1>5. CASE Welcome(r) \/ IssueAgent(r) \/ Forget(r) \/ Goodbye(r) \/ EndsEarly(r)
  BY <1>0, <1>5, <1>a, EndIs DEF Welcome, IssueAgent, Forget, Goodbye, EndsEarly
<1>6. CASE Current(r)
  <2>1. request[r].pc # "idle"
    BY <1>6 DEF Current, Asked
  <2> QED BY <1>0, <1>6, <1>a, <2>1, CurrentIs DEF Becomes
<1>7. CASE \/ RevokeRead(r) \/ Revoke(r) \/ Disconnect(r) \/ DeleteAgent(r)
           \/ DeleteProfile(r) \/ DeleteSession(r) \/ DeleteAccount(r)
  BY <1>7, <1>b DEF RevokeRead, Revoke, Disconnect, DeleteAgent, DeleteProfile, DeleteSession,
                    DeleteAccount, Known, Deletion, PC
<1>8. CASE DeleteReadsOwner(r)
  <2>1. request[r].pc \in Known /\ request[r].cookie \in Sessions
    BY <1>8, AtHand DEF DeleteReadsOwner, Known, Seated, Deletion
  <2> QED BY <1>0, <1>8, <2>1, DeleteReadsOwnerIs DEF Becomes
<1> QED BY <1>1, <1>2, <1>3, <1>4, <1>5, <1>6, <1>7, <1>8 DEF Step

\* A sign-in without an account draws an id that nothing names yet.
LEMMA AccountOwners ==
  ASSUME Typed, IdsDrawn, Owned, NEW r \in Requests, CallbackAccount(r)
  PROVE  /\ IdsDrawn' /\ Owned'
         /\ \A i \in Ids : past.owner[i] \in Users => past'.owner[i] = past.owner[i]
<1>0. request[r].pc = "account" /\ request[r].user \in Users /\ TypeOK
  BY AtHand DEF CallbackAccount, Typed
<1>a. /\ UNCHANGED <<account, profile, connection, agent, attempt>>
      /\ \A i \in Ids : HasRows(i)' = HasRows(i)
  BY DEF CallbackAccount, rows, HasRows
<1>1. CASE /\ account[request[r].user] # 0
           /\ Becomes(r, "profile", account[request[r].user], request[r].key, request[r].fresh)
           /\ UNCHANGED <<drawn, past>>
  <2>1. \A q \in Requests :
          \/ request'[q] = request[q]
          \/ past.owner[request'[q].id] = request'[q].user
    BY <1>0, <1>1 DEF Becomes, Moved, Owned
  <2>2. OwnersCalm
    BY <1>a, <1>1, <2>1 DEF OwnersCalm
  <2> QED BY <1>1, <2>2, OwnersKept
<1>2. CASE /\ account[request[r].user] = 0 /\ drawn.ids + 1 \in Ids
           /\ Becomes(r, "create", drawn.ids + 1, request[r].key, request[r].fresh)
           /\ drawn' = [drawn EXCEPT !.ids = drawn.ids + 1]
           /\ past' = [past EXCEPT !.owner[drawn.ids + 1] = request[r].user]
  <2> DEFINE n == drawn.ids + 1
  <2>1. /\ n \in Ids /\ drawn'.ids = n /\ ~(n <= drawn.ids) /\ n <= n
        /\ \A i \in Ids : i <= drawn.ids => i <= n
    BY <1>0, <1>2 DEF TypeOK, Ids
  <2>2. /\ past'.owner[n] = request[r].user /\ past'.deleted = past.deleted
        /\ \A i \in Ids : i # n => past'.owner[i] = past.owner[i]
    BY <1>0, <1>2 DEF TypeOK, Past
  <2>3. Moved(r) /\ request'[r].id = n /\ request'[r].user = request[r].user
    BY <1>2 DEF Becomes
  <2> HIDE DEF n
  <2>4. past.owner[n] = NoUser
    BY <2>1, OwnerTypes DEF IdsDrawn
  <2>5. \A i \in Ids : past.owner[i] \in Users => i # n /\ past'.owner[i] = past.owner[i]
    BY <2>2, <2>4, OwnerTypes
  <2>6. IdsDrawn'
    BY <2>1, <2>2 DEF IdsDrawn
  <2>7. \A u \in Users : account'[u] # 0 => past'.owner[account'[u]] = u
    BY <1>a, <2>5, OwnerTypes DEF Owned
  <2>8. \A i \in Ids : HasRows(i)' \/ i \in past'.deleted => past'.owner[i] \in Users
    BY <1>a, <2>2, <2>5 DEF Owned
  <2>9. \A t \in Attempts : attempt'[t].calendar = "yes" =>
          attempt'[t].account \in Ids /\ past'.owner[attempt'[t].account] \in Users
    BY <1>a, <2>5 DEF Owned
  <2>10. ASSUME NEW q \in Requests, request'[q].pc \in Known
         PROVE  past'.owner[request'[q].id] = request'[q].user
    <3>1. CASE q = r
      BY <2>2, <2>3, <3>1
    <3>2. CASE q # r
      <4>1. request'[q] = request[q] /\ request[q].pc \in Known
        BY <2>3, <2>10, <3>2 DEF Moved
      <4>2. /\ past.owner[request[q].id] = request[q].user
            /\ request[q].id \in Ids /\ request[q].user \in Users
        BY <4>1, AtHand DEF Owned, Known, Deletion
      <4> QED BY <2>5, <4>1, <4>2
    <3> QED BY <3>1, <3>2
  <2>11. Owned'
    BY <2>7, <2>8, <2>9, <2>10 DEF Owned
  <2> QED BY <2>5, <2>6, <2>11
<1> QED BY <1>0, <1>1, <1>2, CallbackAccountIs

\* A request under way holds a used attempt: what it asks for does not change.
Vetted == Early \ {"match"}
ConsentOf(k, a, owner) == a[k.attempt].calendar = "yes" => owner[a[k.attempt].account] = k.user

LEMMA ConsentIs ==
  ConsentIsOfTheAsker <=>
    \A r \in Requests : request[r].pc \in Vetted => ConsentOf(request[r], attempt, past.owner)
BY DEF ConsentIsOfTheAsker, ConsentOf, Calendar, Vetted, Early, Login

ConsentCalm ==
  /\ \A i \in Ids : past.owner[i] \in Users => past'.owner[i] = past.owner[i]
  /\ \A q \in Requests : request[q].pc \in Early =>
       /\ attempt'[request[q].attempt].calendar = attempt[request[q].attempt].calendar
       /\ attempt'[request[q].attempt].account = attempt[request[q].attempt].account
  /\ \A q \in Requests : request'[q].pc \in Vetted =>
       \/ /\ request'[q].user = request[q].user /\ request'[q].attempt = request[q].attempt
          /\ \/ request[q].pc \in Vetted
             \/ /\ request[q].pc = "match"
                /\ account[request[q].user] = attempt[request[q].attempt].account
       \/ attempt'[request'[q].attempt].calendar # "yes"

LEMMA ConsentKept ==
  ASSUME Typed, Owned, ConsentIsOfTheAsker, ConsentCalm
  PROVE  ConsentIsOfTheAsker'
<1> SUFFICES ASSUME NEW q \in Requests, request'[q].pc \in Vetted
             PROVE  ConsentOf(request'[q], attempt', past'.owner)
  BY DEF ConsentIsOfTheAsker, ConsentOf, Calendar, Vetted, Early, Login
<1>1. CASE attempt'[request'[q].attempt].calendar # "yes"
  BY <1>1 DEF ConsentOf
<1>2. CASE /\ request'[q].user = request[q].user /\ request'[q].attempt = request[q].attempt
           /\ \/ request[q].pc \in Vetted
              \/ /\ request[q].pc = "match"
                 /\ account[request[q].user] = attempt[request[q].attempt].account
  <2>1. request[q].pc \in Early /\ request[q].user \in Users /\ request[q].attempt \in Attempts
    BY <1>2, AtHand DEF Vetted, Early, Login
  <2>2. CASE attempt[request[q].attempt].calendar = "yes"
    <3>1. /\ attempt[request[q].attempt].account \in Ids
          /\ past.owner[attempt[request[q].attempt].account] \in Users
      BY <2>1, <2>2 DEF Owned
    <3>2. past.owner[attempt[request[q].attempt].account] = request[q].user
      <4>1. CASE request[q].pc \in Vetted
        BY <2>2, <4>1, ConsentIs DEF ConsentOf
      <4>2. CASE account[request[q].user] = attempt[request[q].attempt].account
        BY <2>1, <3>1, <4>2, OwnerTypes DEF Owned
      <4> QED BY <1>2, <4>1, <4>2
    <3> QED BY <1>2, <2>1, <3>1, <3>2 DEF ConsentOf, ConsentCalm
  <2>3. CASE attempt[request[q].attempt].calendar # "yes"
    BY <1>2, <2>1, <2>3 DEF ConsentOf, ConsentCalm
  <2> QED BY <2>2, <2>3
<1> QED BY <1>1, <1>2 DEF ConsentCalm

LEMMA StepOwners ==
  ASSUME Typed, IdsDrawn, Owned, NEW r \in Requests, Step(r)
  PROVE  /\ IdsDrawn' /\ Owned' /\ UNCHANGED attempt
         /\ \A i \in Ids : past.owner[i] \in Users => past'.owner[i] = past.owner[i]
<1>1. CASE CallbackAccount(r)
  <2>1. UNCHANGED attempt
    BY <1>1 DEF CallbackAccount, rows
  <2> QED BY <1>1, <2>1, AccountOwners
<1>2. CASE ~CallbackAccount(r)
  <2>1. Moved(r)
    BY StepTyped
  <2>2. OwnersCalm
    BY <1>2, <2>1, StoreOwners, StepId DEF OwnersCalm, Moved
  <2> QED BY <1>2, <2>2, OwnersKept, StoreOwners
<1> QED BY <1>1, <1>2

LEMMA StepConsent ==
  ASSUME Typed, IdsDrawn, Owned, NEW r \in Requests, Step(r)
  PROVE  ConsentCalm
<1>1. /\ attempt' = attempt
      /\ \A i \in Ids : past.owner[i] \in Users => past'.owner[i] = past.owner[i]
  BY StepOwners
<1>2. CASE Ended(r)
  BY <1>1, <1>2 DEF Ended, Moved, IdleRequest, ConsentCalm, Vetted, Early, Login
<1>3. CASE Advances(r)
  <2>1. request'[r].pc \in Vetted => request[r].pc \in Vetted \/ request[r].pc = "match"
    BY <1>3 DEF Advances, Flow, Vetted, Early, Login
  <2>2. CASE request[r].pc = "match"
    <3>1. CallbackMatch(r) \/ EndsEarly(r)
      BY <2>2 DEF Step, CallbackAccount, CallbackCreate, CallbackAgain, CallbackProfile,
           CallbackConnect, CallbackSession, CallbackDrop, Welcome, Current, IssueAgent, Forget,
           RevokeRead, Revoke, Disconnect, DeleteAgent, DeleteReadsOwner, DeleteProfile,
           DeleteSession, DeleteAccount, Goodbye, Asked
    <3>2. ~Matching(r) => FailedLogin(r) \/ EndsEarly(r)
      BY <3>1 DEF CallbackMatch
    <3>3. FailedLogin(r) \/ EndsEarly(r) => Ended(r)
      BY EndIs DEF FailedLogin, EndsEarly, Typed
    <3>4. Ended(r) => request'[r].pc \notin Vetted
      BY DEF Ended, IdleRequest, Vetted, Early, Login
    <3> QED BY <1>1, <1>3, <2>2, <3>2, <3>3, <3>4 DEF Advances, Moved, ConsentCalm, Matching
  <2>3. CASE request[r].pc # "match"
    BY <1>1, <1>3, <2>1, <2>3 DEF Advances, Moved, ConsentCalm
  <2> QED BY <2>2, <2>3
<1> QED BY <1>2, <1>3, StepMoves

LEMMA VisitOwnership ==
  ASSUME Typed, Logins, Ownership, NEW b \in Browsers, Visit(b)
  PROVE  Ownership'
<1> SUFFICES OwnersCalm /\ ConsentCalm
  BY OwnersKept, ConsentKept DEF Ownership
<1>0. TypeOK
  BY DEF Typed
<1>1. ASSUME NEW calendar \in {"no", "yes"}, Start(b, calendar)
      PROVE  OwnersCalm /\ ConsentCalm
  <2> DEFINE t == drawn.attempts + 1
             id == AccountOf(Named(jar[b].session))
  <2>1. /\ t \in Attempts /\ ~(t <= drawn.attempts) /\ drawn'.ids = drawn.ids
        /\ UNCHANGED <<account, profile, connection, agent, request, past>>
        /\ attempt'[t].calendar = calendar
        /\ calendar = "yes" => attempt'[t].account = id
        /\ \A x \in Attempts : x # t => attempt'[x] = attempt[x]
    BY <1>0, <1>1, AccountAssumption DEF Start, TypeOK, Attempts, Attempt
  <2>2. calendar = "yes" => id # 0
    BY <1>1 DEF Start
  <2> HIDE DEF t
  <2>3. Named(jar[b].session) \in Users \union {NoUser}
    BY <1>0, AccountAssumption DEF Named, TypeOK, Sessions
  <2>4. id # 0 => id \in Ids /\ past.owner[id] \in Users
    BY <2>3, OwnerTypes DEF AccountOf, Ownership, Owned
  <2>5. OwnersCalm
    <3>1. \A x \in Attempts :
            \/ attempt'[x].calendar = attempt[x].calendar /\ attempt'[x].account = attempt[x].account
            \/ attempt'[x].calendar = "yes" =>
                 attempt'[x].account \in Ids /\ past.owner[attempt'[x].account] \in Users
      BY <2>1, <2>2, <2>4
    <3> QED BY <2>1, <3>1 DEF OwnersCalm, HasRows
  <2>6. ConsentCalm
    <3>1. attempt[t].row = "absent"
      BY <2>1 DEF Logins, AttemptsDrawn
    <3>2. \A q \in Requests : request[q].pc \in Early =>
            request[q].attempt \in Attempts /\ request[q].attempt # t
      BY <3>1, AttemptTypes DEF Logins, OneLogin
    <3> QED BY <2>1, <3>2 DEF ConsentCalm
  <2> QED BY <2>5, <2>6
<1>2. ASSUME NEW t \in Attempts, CallbackCancelled(b, t)
      PROVE  OwnersCalm /\ ConsentCalm
  <2>1. \A x \in Attempts :
          attempt'[x].calendar = attempt[x].calendar /\ attempt'[x].account = attempt[x].account
    BY <1>0, <1>2 DEF CallbackCancelled, TypeOK, Attempt
  <2> QED BY <1>2, <2>1, AttemptTypes DEF CallbackCancelled, OwnersCalm, ConsentCalm, HasRows
<1>3. ASSUME NEW r \in Requests, NEW t \in Attempts, NEW u \in Users, NEW consent \in Consent,
             Callback(r, b, t, u, consent)
      PROVE  OwnersCalm /\ ConsentCalm
  <2>1. \A x \in Attempts :
          attempt'[x].calendar = attempt[x].calendar /\ attempt'[x].account = attempt[x].account
    BY <1>0, <1>3 DEF Callback, TypeOK, Attempt
  <2>2. /\ Moved(r) /\ request'[r].pc \notin Known /\ request'[r].attempt = t
        /\ request'[r].pc \in Vetted => attempt'[t].calendar # "yes"
    BY <1>0, <1>3, <2>1, CallbackIs DEF Known, Deletion, Vetted
  <2> QED BY <1>3, <2>1, <2>2, AttemptTypes
          DEF Callback, OwnersCalm, ConsentCalm, HasRows, Moved
<1>4. ASSUME NEW r \in Requests, NEW pc \in Asked, Ask(r, b, pc)
      PROVE  OwnersCalm /\ ConsentCalm
  <2>1. Moved(r) /\ request'[r].pc \notin Known /\ request'[r].pc \notin Vetted
    BY <1>0, <1>4, AskIs DEF Known, Deletion, Asked, Vetted, Early, Login
  <2> QED BY <1>4, <2>1 DEF Ask, rows, OwnersCalm, ConsentCalm, HasRows, Moved
<1>5. CASE Logout(b)
  BY <1>5 DEF Logout, OwnersCalm, ConsentCalm, HasRows
<1> QED BY <1>1, <1>2, <1>3, <1>4, <1>5 DEF Visit

LEMMA OwnershipInductive ==
  /\ Init => Ownership
  /\ Typed /\ Logins /\ Ownership /\ [Next]_vars => Ownership'
<1>1. Init => Ownership
  BY DEF Init, Ownership, IdsDrawn, Owned, ConsentIsOfTheAsker, IdleRequest, HasRows, Known,
         Deletion
<1> SUFFICES ASSUME Typed, Logins, Ownership, [Next]_vars PROVE Ownership'
  BY <1>1
<1>2. ASSUME NEW r \in Requests, Step(r)
      PROVE  Ownership'
  BY <1>2, StepOwners, StepConsent, ConsentKept DEF Ownership
<1>3. ASSUME NEW t \in Attempts, AttemptExpires(t)
      PROVE  OwnersCalm /\ ConsentCalm
  <2>1. /\ \A x \in Attempts :
             attempt'[x].calendar = attempt[x].calendar /\ attempt'[x].account = attempt[x].account
        /\ past'.owner = past.owner /\ past'.deleted = past.deleted
    BY <1>3 DEF AttemptExpires, Typed, TypeOK, Attempt, Past
  <2> QED BY <1>3, <2>1, AttemptTypes DEF AttemptExpires, OwnersCalm, ConsentCalm, HasRows
<1>4. ASSUME NEW s \in Sessions, SessionExpires(s)
      PROVE  OwnersCalm /\ ConsentCalm
  <2>1. past'.owner = past.owner /\ past'.deleted = past.deleted
    BY <1>4 DEF SessionExpires, Typed, TypeOK, Past
  <2> QED BY <1>4, <2>1 DEF SessionExpires, OwnersCalm, ConsentCalm, HasRows
<1>5. UNCHANGED vars => OwnersCalm /\ ConsentCalm
  BY DEF vars, rows, OwnersCalm, ConsentCalm, HasRows
<1> QED BY <1>2, <1>3, <1>4, <1>5, VisitOwnership, OwnersKept, ConsentKept DEF Next, Ownership

(* A consent to a calendar ends in a session of the person who asked for    *)
(* it, for any users, browsers, cookies and interleavings.                  *)
THEOREM ConsentCorrect == Spec => []ConsentIsOfTheAsker
<1>1. Init => Typed /\ Logins /\ Ownership
  BY InitTyped, LoginsInductive, OwnershipInductive
<1>2. Typed /\ Logins /\ Ownership /\ [Next]_vars => (Typed /\ Logins /\ Ownership)'
  BY NextTyped, LoginsInductive, OwnershipInductive
<1>3. Typed /\ Logins /\ Ownership => ConsentIsOfTheAsker
  BY DEF Ownership
<1> QED BY <1>1, <1>2, <1>3, PTL DEF Spec
-----------------------------------------------------------------------------
(* Rows and deletions.  Two requests of one user, one of them a deletion,   *)
(* race; what races is remembered.                                          *)
LEMMA RacedGrows ==
  ASSUME Remember
  PROVE  raced \subseteq raced' /\ Remembered'
BY DEF Remember, Remembered

LEMMA Apart ==
  ASSUME Remembered, NEW r \in Requests, NEW q \in Requests, r # q,
         request[r].user \in Users, request[q].user = request[r].user,
         request[r].pc \in Deletion
  PROVE  request[r].user \in raced
BY DEF Remembered, Races, Deletes

LEMMA Lost ==
  ASSUME Remembered, NEW r \in Requests, request[r].user \in Users,
         request[r].pc \in {"read", "revoke", "disconnect", "agent", "owner"},
         session[request[r].cookie] = NoUser
  PROVE  request[r].user \in raced
BY DEF Remembered, Races, Deletes, SessionLost, Deletion

\* A step that writes no row of an account.
LedgerCalm ==
  /\ UNCHANGED <<account, profile, connection, agent, grant>>
  /\ past'.deleted = past.deleted
  /\ \A i \in Ids : past.owner[i] \in Users => past'.owner[i] = past.owner[i]
  /\ raced \subseteq raced'
  /\ \A q \in Requests :
       request'[q] = request[q] \/ request'[q].user \in raced' \/ Progress(request'[q])

LEMMA LedgerKept ==
  ASSUME Typed, Owned, Ledger, LedgerCalm
  PROVE  Ledger'
<1>1. ProgressOK'
  <2> SUFFICES ASSUME NEW q \in Requests, request'[q].user \notin raced'
               PROVE  Progress(request[q])'
    BY DEF ProgressOK
  <2>1. Progress(request'[q])
    BY DEF Ledger, ProgressOK, LedgerCalm
  <2> QED BY <2>1 DEF Progress, LedgerCalm
<1>2. RowsHaveAnAccount'
  BY DEF Ledger, RowsHaveAnAccount, LedgerCalm, HasRows, Owned
<1>3. StoredTokenIsKeptOrRevoked'
  BY DEF Ledger, StoredTokenIsKeptOrRevoked, LedgerCalm
<1>4. DeletedIsGone'
  <2> SUFFICES ASSUME NEW i \in past'.deleted, past'.owner[i] \notin raced'
               PROVE  ~HasRows(i)' /\ account'[past'.owner[i]] # i
    BY DEF DeletedIsGone
  <2>1. i \in past.deleted /\ i \in Ids /\ past'.owner[i] = past.owner[i]
    BY DEF LedgerCalm, Typed, TypeOK, Past, Owned
  <2> QED BY <2>1 DEF Ledger, DeletedIsGone, LedgerCalm, HasRows
<1> QED BY <1>1, <1>2, <1>3, <1>4 DEF Ledger

\* A step of r that writes rows of its user and of its id only.
WritesOwn(r) ==
  /\ Moved(r)
  /\ past'.owner = past.owner /\ raced \subseteq raced'
  /\ \A v \in Users : v # request[r].user => account'[v] = account[v] /\ grant'[v] = grant[v]
  /\ \A j \in Ids : j # request[r].id =>
       /\ (j \in profile') = (j \in profile)
       /\ (j \in agent') = (j \in agent)
       /\ connection'[j] = connection[j]
       /\ (j \in past'.deleted) = (j \in past.deleted)
  /\ request[r].pc \notin Deletion =>
       /\ past'.deleted = past.deleted
       /\ account'[request[r].user] = account[request[r].user] \/ account[request[r].user] = 0

\* What is at hand when a request writes.
LEMMA Writer ==
  ASSUME Typed, Owned, NEW r \in Requests, request[r].pc \in Known
  PROVE  /\ request[r].user \in Users /\ request[r].id \in Ids
         /\ past.owner[request[r].id] = request[r].user
         /\ request[r].user # NoUser /\ request[r].id # 0
BY AtHand, AccountAssumption DEF Owned, Known, Deletion

LEMMA OthersProgress ==
  ASSUME Typed, Owned, Remembered, ProgressOK, NEW r \in Requests, request[r].pc \in Known,
         WritesOwn(r),
         request'[r].user \in raced' \/ Progress(request[r])'
  PROVE  ProgressOK'
<1> SUFFICES ASSUME NEW q \in Requests, q # r, request[q].user \notin raced
             PROVE  Progress(request[q])'
  BY DEF ProgressOK, WritesOwn, Moved
<1> DEFINE u == request[r].user
           i == request[r].id
<1>1. u \in Users /\ i \in Ids /\ past.owner[i] = u
  BY Writer
<1>2. request'[q] = request[q] /\ Progress(request[q])
  BY DEF ProgressOK, WritesOwn, Moved
<1>3. CASE request[q].pc \notin Known
  <2>1. request[q].pc \notin Backed /\ request[q].pc \notin Known
    BY <1>3, PointsAreKnown
  <2>2. /\ request[q].pc \notin {"create", "disconnect", "agent", "owner", "unprofile",
                                 "unsession", "unaccount", "goodbye"}
    BY <2>1 DEF Known, Deletion
  <2> QED BY <1>2, <2>1, <2>2 DEF Progress
<1>4. CASE request[q].pc \in Known
  <2>1. /\ request[q].user \in Users /\ request[q].id \in Ids
        /\ past.owner[request[q].id] = request[q].user
    BY <1>4, Writer
  <2>2. CASE request[q].user # u
    <3>1. request[q].id # i
      BY <1>1, <2>1, <2>2
    <3>2. /\ account'[request[q].user] = account[request[q].user]
          /\ grant'[request[q].user] = grant[request[q].user]
          /\ (request[q].id \in profile') = (request[q].id \in profile)
          /\ (request[q].id \in agent') = (request[q].id \in agent)
          /\ connection'[request[q].id] = connection[request[q].id]
          /\ (request[q].id \in past'.deleted) = (request[q].id \in past.deleted)
      BY <2>1, <2>2, <3>1 DEF WritesOwn
    <3> QED BY <1>2, <3>2 DEF Progress
  <2>3. CASE request[q].user = u
    <3>1. request[q].pc \notin Deletion /\ request[r].pc \notin Deletion
      BY <1>1, <2>1, <2>3, Apart
    <3>2. /\ past'.deleted = past.deleted
          /\ account'[request[q].user] = account[request[q].user] \/ account[request[q].user] = 0
      BY <2>3, <3>1 DEF WritesOwn
    <3>3. request[q].pc \notin {"disconnect", "agent", "owner", "unprofile", "unsession",
                                "unaccount", "goodbye"}
      BY <3>1 DEF Deletion
    <3>4. request[q].id # 0
      BY <2>1, AtHand
    <3> QED BY <1>2, <3>2, <3>3, <3>4 DEF Progress
  <2> QED BY <2>2, <2>3
<1> QED BY <1>3, <1>4

\* The ledger of one user: what its rows, its grant and its deletions say.
OwnOK(u) ==
  /\ \A j \in Ids : past.owner[j] = u =>
       /\ HasRows(j) => account[u] = j
       /\ j \in past.deleted => ~HasRows(j) /\ account[u] # j
  /\ grant[u] = "stored" => \E j \in Ids : connection[j] = u /\ past.owner[j] = u

EachOK == \A u \in Users : u \in raced \/ OwnOK(u)

LEMMA LedgerIs ==
  /\ Ledger => EachOK
  /\ Typed /\ Owned /\ ProgressOK /\ EachOK => Ledger
<1>3. ASSUME Ledger, NEW u \in Users, u \notin raced
      PROVE  OwnOK(u)
  <2>1. ASSUME NEW j \in Ids, past.owner[j] = u
        PROVE  /\ HasRows(j) => account[u] = j
               /\ j \in past.deleted => ~HasRows(j) /\ account[u] # j
    BY <1>3, <2>1 DEF Ledger, RowsHaveAnAccount, DeletedIsGone
  <2>2. grant[u] = "stored" => \E j \in Ids : connection[j] = u /\ past.owner[j] = u
    BY <1>3 DEF Ledger, StoredTokenIsKeptOrRevoked
  <2> QED BY <2>1, <2>2 DEF OwnOK
<1>4. ASSUME Typed, Owned, ProgressOK, EachOK
      PROVE  Ledger
  <2>a. \A j \in Ids : HasRows(j) \/ j \in past.deleted => past.owner[j] \in Users
    BY <1>4 DEF Owned
  <2>b. past.deleted \subseteq Ids
    BY <1>4 DEF Typed, TypeOK, Past
  <2>1. RowsHaveAnAccount
    BY <2>a, <1>4 DEF RowsHaveAnAccount, EachOK, OwnOK
  <2>2. StoredTokenIsKeptOrRevoked
    BY <1>4 DEF StoredTokenIsKeptOrRevoked, EachOK, OwnOK
  <2>3. DeletedIsGone
    BY <2>a, <2>b, <1>4 DEF DeletedIsGone, EachOK, OwnOK
  <2> QED BY <1>4, <2>1, <2>2, <2>3 DEF Ledger
<1> QED BY <1>3, <1>4 DEF EachOK

\* It is enough to look at the ledger of the user whose request writes.
LEMMA WritesKeep ==
  ASSUME Typed, Owned, Remembered, Ledger, Typed', Owned',
         NEW r \in Requests, request[r].pc \in Known, WritesOwn(r), Ended(r) \/ Advances(r),
         NEW u \in Users, request[r].user = u,
         u \notin raced => OwnOK(u)' /\ Progress(request[r])'
  PROVE  Ledger'
<1>1. ProgressOK
  BY DEF Ledger
<1>2. raced \subseteq raced' /\ past'.owner = past.owner
  BY DEF WritesOwn
<1>3. request'[r].user \in raced' \/ Progress(request[r])'
  <2>1. CASE u \notin raced
    BY <2>1
  <2>2. CASE u \in raced /\ Ended(r)
    BY <2>2 DEF Ended, IdleRequest, Progress, Backed
  <2>3. CASE u \in raced /\ Advances(r)
    BY <1>2, <2>3 DEF Advances
  <2> QED BY <2>1, <2>2, <2>3
<1>4. ProgressOK'
  BY <1>1, <1>3, OthersProgress
<1>5. request[r].id \in Ids /\ past.owner[request[r].id] = u
  BY Writer
<1>6. ASSUME NEW v \in Users, v \notin raced'
      PROVE  OwnOK(v)'
  <2>1. CASE v = u
    BY <1>2, <1>6, <2>1
  <2>2. CASE v # u
    <3>1. OwnOK(v)
      BY <1>2, <1>6, LedgerIs DEF EachOK
    <3>2. account'[v] = account[v] /\ grant'[v] = grant[v]
      BY <2>2 DEF WritesOwn
    <3>3. ASSUME NEW j \in Ids, past.owner[j] = v
          PROVE  /\ HasRows(j)' = HasRows(j) /\ connection'[j] = connection[j]
                 /\ (j \in past'.deleted) = (j \in past.deleted)
      BY <1>5, <2>2, <3>3 DEF WritesOwn, HasRows
    <3>4. \A j \in Ids : past'.owner[j] = v =>
            /\ HasRows(j)' => account'[v] = j
            /\ j \in past'.deleted => ~HasRows(j)' /\ account'[v] # j
      BY <1>2, <3>1, <3>2, <3>3 DEF OwnOK
    <3>5. grant'[v] = "stored" => \E j \in Ids : connection'[j] = v /\ past'.owner[j] = v
      BY <1>2, <3>1, <3>2, <3>3 DEF OwnOK
    <3> QED BY <3>4, <3>5 DEF OwnOK
  <2> QED BY <2>1, <2>2
<1>7. EachOK'
  BY <1>6 DEF EachOK
<1>8. Typed' /\ Owned' /\ ProgressOK' /\ EachOK' => Ledger'
  BY LedgerIs, PTL
<1> QED BY <1>4, <1>7, <1>8

\* What a writer knows of its own user's ledger before it writes.
LEMMA WriterKnows ==
  ASSUME Typed, Owned, Ledger, NEW r \in Requests, request[r].pc \in Known
  PROVE  \E u \in Users, i \in Ids :
           /\ request[r].user = u /\ request[r].id = i /\ past.owner[i] = u
           /\ i # 0 /\ u # NoUser
           /\ u \notin raced => OwnOK(u) /\ Progress(request[r])
BY Writer, LedgerIs DEF EachOK, Ledger, ProgressOK

LEMMA CreateLedger ==
  ASSUME Typed, Owned, Remembered, Ledger, Typed', Owned', Remember,
         NEW r \in Requests, CallbackCreate(r)
  PROVE  Ledger'
<1>0. TypeOK /\ request[r].pc = "create" /\ request[r].pc \in Known /\ request[r].pc \notin Deletion
  BY DEF Typed, CallbackCreate, Known, Deletion
<1>1. PICK u \in Users, i \in Ids :
        /\ request[r].user = u /\ request[r].id = i /\ past.owner[i] = u
        /\ i # 0 /\ u # NoUser
        /\ u \notin raced => OwnOK(u) /\ Progress(request[r])
  BY <1>0, WriterKnows
<1>2. CASE CanCreate(r)
  <2>1. /\ account[u] = 0 /\ account'[u] = i
        /\ \A v \in Users : v # u => account'[v] = account[v]
        /\ UNCHANGED <<profile, connection, agent, grant, past>>
        /\ Goes(r, "profile")
    BY <1>0, <1>1, <1>2, GotoIs DEF CallbackCreate, CanCreate, TypeOK, PC, Login
  <2>2. WritesOwn(r)
    BY <1>0, <1>1, <2>1, RacedGrows DEF WritesOwn, Goes, Becomes
  <2>3. Advances(r)
    BY <1>0, <2>1 DEF Goes, Becomes, Advances, Flow
  <2>4. ASSUME u \notin raced
        PROVE  OwnOK(u)' /\ Progress(request[r])'
    <3>1. OwnOK(u) /\ i \notin past.deleted
      BY <1>0, <1>1, <2>4 DEF Progress
    <3>2. \A j \in Ids : HasRows(j)' = HasRows(j)
      BY <2>1 DEF HasRows
    <3>3. OwnOK(u)'
      BY <2>1, <3>1, <3>2, AtHand DEF OwnOK
    <3>4. Progress(request[r])'
      BY <1>1, <2>1 DEF Goes, Becomes, Progress, Backed
    <3> QED BY <3>3, <3>4
  <2> QED BY <1>0, <1>1, <2>2, <2>3, <2>4, WritesKeep
<1>3. CASE ~CanCreate(r)
  <2>1. UNCHANGED <<account, profile, connection, agent, grant, past>> /\ Goes(r, "again")
    BY <1>0, <1>3, GotoIs DEF CallbackCreate, PC, Login
  <2>2. Progress(request'[r])
    BY <2>1 DEF Goes, Becomes, Progress, Backed
  <2>3. LedgerCalm
    BY <2>1, <2>2, RacedGrows DEF LedgerCalm, Goes, Becomes, Moved
  <2> QED BY <2>3, LedgerKept
<1> QED BY <1>2, <1>3

\* The rows of an id that its account row leads to may be written.
LEMMA RowLedger ==
  ASSUME Typed, Owned, Remembered, Ledger, Typed', Owned', Remember,
         NEW r \in Requests, request[r].pc \in Backed, request[r].pc \notin Deletion,
         UNCHANGED <<account, past>>,
         \A v \in Users : v # request[r].user => grant'[v] = grant[v],
         \A j \in Ids : j # request[r].id =>
           /\ (j \in profile') = (j \in profile) /\ (j \in agent') = (j \in agent)
           /\ connection'[j] = connection[j],
         \/ grant'[request[r].user] = grant[request[r].user]
            /\ connection'[request[r].id] = connection[request[r].id]
         \/ connection'[request[r].id] = request[r].user,
         Ended(r) \/ Advances(r),
         request[r].user \notin raced => Progress(request[r])'
  PROVE  Ledger'
<1>0. request[r].pc \in Known
  BY PointsAreKnown
<1>1. PICK u \in Users, i \in Ids :
        /\ request[r].user = u /\ request[r].id = i /\ past.owner[i] = u
        /\ i # 0 /\ u # NoUser
        /\ u \notin raced => OwnOK(u) /\ Progress(request[r])
  BY <1>0, WriterKnows
<1>2. WritesOwn(r)
  BY RacedGrows DEF WritesOwn, Ended, Advances
<1>3. ASSUME u \notin raced
      PROVE  OwnOK(u)'
  <2>1. OwnOK(u) /\ account[u] = i
    BY <1>1, <1>3 DEF Progress
  <2>2. \A j \in Ids : j # i => HasRows(j)' = HasRows(j)
    BY <1>1 DEF HasRows
  <2>3. \A j \in Ids : past'.owner[j] = u =>
          /\ HasRows(j)' => account'[u] = j
          /\ j \in past'.deleted => ~HasRows(j)' /\ account'[u] # j
    BY <2>1, <2>2 DEF OwnOK
  <2>4. grant'[u] = "stored" => \E j \in Ids : connection'[j] = u /\ past'.owner[j] = u
    BY <1>1, <2>1 DEF OwnOK
  <2> QED BY <2>3, <2>4 DEF OwnOK
<1> QED BY <1>0, <1>1, <1>2, <1>3, WritesKeep

LEMMA SignInLedger ==
  ASSUME Typed, Owned, Remembered, Ledger, Typed', Owned', Remember, NEW r \in Requests,
         CallbackProfile(r) \/ IssueAgent(r)
  PROVE  Ledger'
<1>0. TypeOK
  BY DEF Typed
<1>1. CASE CallbackProfile(r)
  <2>1. request[r].pc = "profile" /\ request[r].pc \in Backed /\ request[r].pc \notin Deletion
    BY <1>1 DEF CallbackProfile, Backed, Deletion
  <2>2. \E pc \in {"connect", "session"} : Goes(r, pc)
    BY <1>0, <1>1, GotoIs DEF CallbackProfile, PC, Login
  <2>3. Advances(r)
    BY <2>1, <2>2 DEF Goes, Becomes, Advances, Flow
  <2>4. PICK u \in Users, i \in Ids : request[r].user = u /\ request[r].id = i
    BY <2>1, Writer, PointsAreKnown
  <2>5. /\ UNCHANGED <<account, connection, agent, grant, past>>
        /\ \A j \in Ids : j # i => (j \in profile') = (j \in profile)
    BY <1>1, <2>4 DEF CallbackProfile
  <2>6. u \notin raced => account[u] = i
    BY <2>1, <2>4 DEF Ledger, ProgressOK, Progress
  <2>7. u \notin raced => Progress(request[r])'
    BY <2>2, <2>4, <2>5, <2>6 DEF Goes, Becomes, Progress, Backed
  <2> QED BY <2>1, <2>3, <2>4, <2>5, <2>7, RowLedger
<1>2. CASE IssueAgent(r)
  <2>1. request[r].pc = "issue" /\ request[r].pc \in Backed /\ request[r].pc \notin Deletion
    BY <1>2 DEF IssueAgent, Backed, Deletion
  <2>2. Ended(r)
    BY <1>0, <1>2, EndIs DEF IssueAgent
  <2>4. PICK u \in Users, i \in Ids : request[r].user = u /\ request[r].id = i
    BY <2>1, Writer, PointsAreKnown
  <2>5. /\ UNCHANGED <<account, connection, profile, grant, past>>
        /\ \A j \in Ids : j # i => (j \in agent') = (j \in agent)
    BY <1>2, <2>4 DEF IssueAgent
  <2>6. Progress(request[r])'
    BY <2>2 DEF Ended, IdleRequest, Progress, Backed
  <2> QED BY <2>1, <2>2, <2>4, <2>5, <2>6, RowLedger
<1> QED BY <1>1, <1>2

LEMMA ConnectLedger ==
  ASSUME Typed, Owned, Remembered, Ledger, Typed', Owned', Remember, NEW r \in Requests,
         CallbackConnect(r)
  PROVE  Ledger'
<1>0. /\ TypeOK /\ request[r].pc = "connect" /\ request[r].pc \in Backed
      /\ request[r].pc \notin Deletion
  BY DEF Typed, CallbackConnect, Backed, Deletion
<1>a. PICK u \in Users, i \in Ids : request[r].user = u /\ request[r].id = i
  BY <1>0, Writer, PointsAreKnown
<1>1. CASE /\ connection' = [connection EXCEPT ![request[r].id] = request[r].user]
           /\ grant' = [grant EXCEPT ![request[r].user] = "stored"]
           /\ Goto(r, "session")
           /\ UNCHANGED <<account, profile, agent, attempt, session, jar, drawn, past>>
  <2>1. /\ connection'[i] = u
        /\ \A j \in Ids : j # i => connection'[j] = connection[j]
        /\ \A v \in Users : v # u => grant'[v] = grant[v]
    BY <1>0, <1>1, <1>a DEF TypeOK
  <2>2. Goes(r, "session")
    BY <1>0, <1>1, GotoIs DEF PC, Login
  <2>3. Advances(r) /\ Progress(request[r])'
    BY <1>0, <2>2 DEF Goes, Becomes, Advances, Flow, Progress, Backed
  <2> QED BY <1>0, <1>1, <1>a, <2>1, <2>3, RowLedger
<1>2. CASE UNCHANGED <<account, profile, connection, agent, grant, past>>
           /\ (Goto(r, "session") \/ FailedLogin(r))
  <2>1. Ended(r) \/ Goes(r, "session")
    BY <1>0, <1>2, GotoIs, EndIs DEF FailedLogin, PC, Login
  <2>2. Moved(r) /\ Progress(request'[r])
    BY <2>1 DEF Ended, IdleRequest, Goes, Becomes, Progress, Backed
  <2>3. LedgerCalm
    BY <1>2, <2>2, RacedGrows DEF LedgerCalm, Moved
  <2> QED BY <2>3, LedgerKept
<1> QED BY <1>1, <1>2 DEF CallbackConnect, FailedLogin, rows

LEMMA ForgetLedger ==
  ASSUME Typed, Owned, Remembered, Ledger, Typed', Owned', Remember, NEW r \in Requests,
         Forget(r)
  PROVE  Ledger'
<1>0. TypeOK /\ request[r].pc = "forget" /\ request[r].pc \in Known /\ request[r].pc \notin Deletion
  BY DEF Typed, Forget, Known, Deletion
<1>1. PICK u \in Users, i \in Ids :
        /\ request[r].user = u /\ request[r].id = i /\ past.owner[i] = u
        /\ i # 0 /\ u # NoUser
        /\ u \notin raced => OwnOK(u) /\ Progress(request[r])
  BY <1>0, WriterKnows
<1>2. /\ Ended(r) /\ UNCHANGED <<account, profile, agent, past>>
      /\ connection'[i] = NoUser /\ grant'[u] # "stored"
      /\ \A j \in Ids : j # i => connection'[j] = connection[j]
      /\ \A v \in Users : v # u => grant'[v] = grant[v]
  BY <1>0, <1>1, EndIs DEF Forget, TypeOK
<1>3. WritesOwn(r)
  BY <1>0, <1>1, <1>2, RacedGrows DEF WritesOwn, Ended
<1>4. Progress(request[r])'
  BY <1>2 DEF Ended, IdleRequest, Progress, Backed
<1>5. ASSUME u \notin raced
      PROVE  OwnOK(u)'
  <2>1. \A j \in Ids : HasRows(j)' => HasRows(j)
    BY <1>2 DEF HasRows
  <2> QED BY <1>1, <1>2, <1>5, <2>1 DEF OwnOK
<1> QED BY <1>0, <1>1, <1>2, <1>3, <1>4, <1>5, WritesKeep

\* A deletion takes rows away, in the order that its progress says.
LEMMA DeletionLedger ==
  ASSUME Typed, Owned, Remembered, Ledger, Typed', Owned', Remember, NEW r \in Requests,
         Revoke(r) \/ Disconnect(r) \/ DeleteAgent(r) \/ DeleteProfile(r)
  PROVE  Ledger'
<1>0. /\ TypeOK /\ request[r].pc \in Known /\ request[r].pc \in Deletion
      /\ request[r].pc \in Backed
  BY DEF Typed, Revoke, Disconnect, DeleteAgent, DeleteProfile, Known, Deletion, Backed
<1>1. PICK u \in Users, i \in Ids :
        /\ request[r].user = u /\ request[r].id = i /\ past.owner[i] = u
        /\ i # 0 /\ u # NoUser
        /\ u \notin raced => OwnOK(u) /\ Progress(request[r])
  BY <1>0, WriterKnows
<1>2. /\ UNCHANGED <<account, past>>
      /\ \A v \in Users : v # u => grant'[v] = grant[v]
      /\ \A j \in Ids : j # i =>
           /\ (j \in profile') = (j \in profile) /\ (j \in agent') = (j \in agent)
           /\ connection'[j] = connection[j]
      /\ \A j \in Ids : HasRows(j)' => HasRows(j)
      /\ grant'[u] = grant[u] \/ grant'[u] = "none"
  <2>1. CASE Revoke(r)
    BY <1>0, <1>1, <2>1 DEF Revoke, TypeOK, HasRows, rows
  <2>2. CASE Disconnect(r)
    BY <1>0, <1>1, <2>2 DEF Disconnect, TypeOK, HasRows
  <2>3. CASE DeleteAgent(r) \/ DeleteProfile(r)
    BY <1>0, <1>1, <2>3 DEF DeleteAgent, DeleteProfile, HasRows
  <2> QED BY <2>1, <2>2, <2>3
<1>3. PICK pc \in Deletion : Goes(r, pc) /\ <<request[r].pc, pc>> \in Flow /\ pc \in Backed
  <2>1. CASE Revoke(r)
    <3>1. Goes(r, "disconnect")
      BY <1>0, <2>1, GotoIs DEF Revoke, PC, Deletion
    <3> QED BY <2>1, <3>1 DEF Revoke, Deletion, Flow, Backed
  <2>2. CASE Disconnect(r)
    <3>1. Goes(r, "agent")
      BY <1>0, <2>2, GotoIs DEF Disconnect, PC, Deletion
    <3> QED BY <2>2, <3>1 DEF Disconnect, Deletion, Flow, Backed
  <2>3. CASE DeleteAgent(r)
    <3>1. Goes(r, "owner")
      BY <1>0, <2>3, GotoIs DEF DeleteAgent, PC, Deletion
    <3> QED BY <2>3, <3>1 DEF DeleteAgent, Deletion, Flow, Backed
  <2>4. CASE DeleteProfile(r)
    <3>1. Goes(r, "unsession")
      BY <1>0, <2>4, GotoIs DEF DeleteProfile, PC, Deletion
    <3> QED BY <2>4, <3>1 DEF DeleteProfile, Deletion, Flow, Backed
  <2> QED BY <2>1, <2>2, <2>3, <2>4
<1>4. Advances(r) /\ WritesOwn(r)
  <2>1. request[r].pc # "owner"
    BY DEF Revoke, Disconnect, DeleteAgent, DeleteProfile
  <2>2. Advances(r)
    BY <1>3, <2>1 DEF Goes, Becomes, Advances
  <2> QED BY <1>0, <1>1, <1>2, <2>2, RacedGrows DEF WritesOwn, Advances
<1>5. ASSUME u \notin raced
      PROVE  OwnOK(u)' /\ Progress(request[r])'
  <2>1. OwnOK(u) /\ Progress(request[r]) /\ account[u] = i
    BY <1>0, <1>1, <1>5 DEF Progress
  <2>2. grant'[u] = "stored" => \E j \in Ids : connection'[j] = u /\ past'.owner[j] = u
    <3>1. CASE Revoke(r) \/ DeleteAgent(r) \/ DeleteProfile(r)
      <4>1. connection' = connection /\ past'.owner = past.owner
        BY <3>1 DEF Revoke, DeleteAgent, DeleteProfile, rows
      <4>2. grant'[u] = "stored" => grant[u] = "stored"
        BY <1>2
      <4> QED BY <2>1, <4>1, <4>2 DEF OwnOK
    <3>2. CASE Disconnect(r)
      <4>1. grant' = grant /\ request[r].pc = "disconnect"
        BY <3>2 DEF Disconnect
      <4> QED BY <1>1, <2>1, <4>1 DEF Progress
    <3> QED BY <3>1, <3>2
  <2>3. OwnOK(u)'
    BY <1>2, <2>1, <2>2 DEF OwnOK
  <2>4. /\ request'[r].pc = pc /\ request'[r].user = u /\ request'[r].id = i
        /\ request'[r].key = request[r].key
    BY <1>1, <1>3 DEF Goes, Becomes
  <2>5. Progress(request[r])'
    <3>1. CASE Revoke(r)
      <4>1. request'[r].pc = "disconnect" /\ grant'[u] # "stored"
        BY <1>0, <1>1, <3>1, GotoIs DEF Revoke, Goes, Becomes, PC, Deletion, TypeOK
      <4> QED BY <1>2, <2>1, <2>4, <4>1 DEF Progress
    <3>2. CASE Disconnect(r)
      <4>1. request'[r].pc = "agent" /\ connection'[i] = NoUser
        BY <1>0, <1>1, <3>2, GotoIs DEF Disconnect, Goes, Becomes, PC, Deletion, TypeOK
      <4> QED BY <1>2, <2>1, <2>4, <4>1 DEF Progress
    <3>3. CASE DeleteAgent(r)
      <4>1. /\ request'[r].pc = "owner" /\ i \notin agent' /\ connection' = connection
            /\ request[r].pc = "agent"
        BY <1>0, <1>1, <3>3, GotoIs DEF DeleteAgent, Goes, Becomes, PC, Deletion
      <4> QED BY <1>1, <1>2, <2>1, <2>4, <4>1 DEF Progress
    <3>4. CASE DeleteProfile(r)
      <4>1. /\ request'[r].pc = "unsession" /\ i \notin profile' /\ connection' = connection
            /\ agent' = agent /\ request[r].pc = "unprofile"
        BY <1>0, <1>1, <3>4, GotoIs DEF DeleteProfile, Goes, Becomes, PC, Deletion
      <4> QED BY <1>1, <1>2, <2>1, <2>4, <4>1 DEF Progress
    <3> QED BY <3>1, <3>2, <3>3, <3>4
  <2> QED BY <2>3, <2>5
<1> QED BY <1>0, <1>1, <1>4, <1>5, WritesKeep

\* The account row goes last, when nothing else is left under its id.
LEMMA AccountLedger ==
  ASSUME Typed, Owned, KeysOK, Remembered, Ledger, Typed', Owned', Remember, NEW r \in Requests,
         DeleteAccount(r)
  PROVE  Ledger'
<1>0. /\ TypeOK /\ request[r].pc = "unaccount" /\ request[r].pc \in Known
      /\ request[r].pc \in Deletion
  BY DEF Typed, DeleteAccount, Known, Deletion
<1>1. PICK u \in Users, i \in Ids :
        /\ request[r].user = u /\ request[r].id = i /\ past.owner[i] = u
        /\ i # 0 /\ u # NoUser
        /\ u \notin raced => OwnOK(u) /\ Progress(request[r])
  BY <1>0, WriterKnows
<1>2. Goes(r, "goodbye") /\ UNCHANGED <<profile, connection, agent, grant, past>>
  BY <1>0, GotoIs DEF DeleteAccount, PC, Deletion
<1>3. /\ \A v \in Users : v # u => account'[v] = account[v]
      /\ request[r].key = u => account'[u] = 0
  <2>1. request[r].key \in {u, NoUser} /\ NoUser \notin Users
    BY <1>0, <1>1, AccountAssumption DEF KeysOK
  <2>2. account' = [account EXCEPT ![request[r].key] = 0]
    BY DEF DeleteAccount
  <2> QED BY <1>0, <2>1, <2>2 DEF TypeOK
<1>4. Advances(r) /\ WritesOwn(r)
  <2>1. Advances(r)
    BY <1>0, <1>2 DEF Goes, Becomes, Advances, Flow
  <2> QED BY <1>0, <1>1, <1>2, <1>3, <2>1, RacedGrows DEF WritesOwn, Advances
<1>5. ASSUME u \notin raced
      PROVE  OwnOK(u)' /\ Progress(request[r])'
  <2>1. /\ OwnOK(u) /\ account[u] = i /\ request[r].key = u
        /\ connection[i] = NoUser /\ i \notin agent /\ i \notin profile
    BY <1>0, <1>1, <1>5 DEF Progress, Backed
  <2>2. \A j \in Ids : HasRows(j)' = HasRows(j)
    BY <1>2 DEF HasRows
  <2>3. ~HasRows(i)
    BY <2>1 DEF HasRows
  <2>4. account'[u] = 0
    BY <1>3, <2>1
  <2>5. \A j \in Ids : past'.owner[j] = u =>
          /\ HasRows(j)' => account'[u] = j
          /\ j \in past'.deleted => ~HasRows(j)' /\ account'[u] # j
    BY <1>2, <2>1, <2>2, <2>3, <2>4, AtHand DEF OwnOK
  <2>6. OwnOK(u)'
    BY <1>2, <2>1, <2>5 DEF OwnOK
  <2>7. Progress(request[r])'
    BY <1>1, <1>2, <2>1, <2>4 DEF Goes, Becomes, Progress, Backed
  <2> QED BY <2>6, <2>7
<1> QED BY <1>0, <1>1, <1>4, <1>5, WritesKeep

LEMMA GoodbyeLedger ==
  ASSUME Typed, Owned, Remembered, Ledger, Typed', Owned', Remember, NEW r \in Requests,
         Goodbye(r)
  PROVE  Ledger'
<1>0. /\ TypeOK /\ request[r].pc = "goodbye" /\ request[r].pc \in Known
      /\ request[r].pc \in Deletion
  BY DEF Typed, Goodbye, Known, Deletion
<1>1. PICK u \in Users, i \in Ids :
        /\ request[r].user = u /\ request[r].id = i /\ past.owner[i] = u
        /\ i # 0 /\ u # NoUser
        /\ u \notin raced => OwnOK(u) /\ Progress(request[r])
  BY <1>0, WriterKnows
<1>2. /\ Ended(r) /\ UNCHANGED <<account, profile, connection, agent, grant>>
      /\ past'.deleted = past.deleted \union {i} /\ past'.owner = past.owner
  BY <1>0, <1>1, EndIs DEF Goodbye, rows, TypeOK, Past
<1>3. WritesOwn(r)
  BY <1>0, <1>1, <1>2, RacedGrows DEF WritesOwn, Ended
<1>4. Progress(request[r])'
  BY <1>2 DEF Ended, IdleRequest, Progress, Backed
<1>5. ASSUME u \notin raced
      PROVE  OwnOK(u)'
  <2>1. /\ OwnOK(u) /\ account[u] # i
        /\ connection[i] = NoUser /\ i \notin agent /\ i \notin profile
    BY <1>0, <1>1, <1>5 DEF Progress
  <2>2. ~HasRows(i) /\ \A j \in Ids : HasRows(j)' = HasRows(j)
    BY <1>2, <2>1 DEF HasRows
  <2> QED BY <1>2, <2>1, <2>2 DEF OwnOK
<1> QED BY <1>0, <1>1, <1>2, <1>3, <1>4, <1>5, WritesKeep

\* The steps of a request that write no row of an account.
LEMMA CalmLedger ==
  ASSUME IInv, Remember, NEW r \in Requests,
         \/ CallbackMatch(r) \/ CallbackAccount(r) \/ CallbackAgain(r) \/ CallbackSession(r)
         \/ CallbackDrop(r) \/ Welcome(r) \/ Current(r) \/ RevokeRead(r)
         \/ DeleteReadsOwner(r) \/ DeleteSession(r) \/ EndsEarly(r)
  PROVE  LedgerCalm
<1>0. TypeOK /\ Typed /\ Owned /\ Remembered /\ Ledger /\ Step(r)
  BY DEF IInv, Ownership, Typed, Step
<1>a. /\ UNCHANGED <<account, profile, connection, agent, grant>>
      /\ past'.deleted = past.deleted
      /\ \A i \in Ids : past.owner[i] \in Users => past'.owner[i] = past.owner[i]
      /\ raced \subseteq raced'
  <2>1. UNCHANGED <<account, profile, connection, agent, grant>>
    BY DEF CallbackMatch, CallbackAccount, CallbackAgain, CallbackSession, CallbackDrop, Welcome,
           Current, RevokeRead, DeleteReadsOwner, DeleteSession, EndsEarly, FailedLogin, rows
  <2>2. past'.deleted = past.deleted
    <3>1. CASE CallbackAccount(r)
      <4>1. request[r].user \in Users
        BY <1>0, <3>1, AtHand DEF CallbackAccount
      <4> QED BY <1>0, <3>1, <4>1, CallbackAccountIs DEF TypeOK, Past
    <3>2. CASE CallbackSession(r) \/ EndsEarly(r)
      BY <1>0, <3>2, CallbackSessionIs DEF EndsEarly, TypeOK, Past
    <3> QED BY <3>1, <3>2 DEF CallbackMatch, CallbackAgain, CallbackDrop, Welcome,
           Current, RevokeRead, DeleteReadsOwner, DeleteSession, FailedLogin
  <2>3. \A i \in Ids : past.owner[i] \in Users => past'.owner[i] = past.owner[i]
    BY <1>0, StepOwners DEF IInv, Ownership
  <2> QED BY <2>1, <2>2, <2>3, RacedGrows
<1>b. Ended(r) \/ Advances(r)
  BY <1>0, StepMoves
<1> SUFFICES request'[r].user \in raced' \/ Progress(request'[r])
  BY <1>a, <1>b DEF LedgerCalm, Ended, Advances, Moved
<1>c. Ended(r) => Progress(request'[r])
  BY DEF Ended, IdleRequest, Progress, Backed
<1> SUFFICES ASSUME Advances(r), request[r].user \notin raced PROVE Progress(request'[r])
  BY <1>a, <1>b, <1>c DEF Advances
<1>d. Progress(request[r])
  BY <1>0 DEF Ledger, ProgressOK
<1>e. request'[r].user = request[r].user /\ <<request[r].pc, request'[r].pc>> \in Flow
      /\ (request[r].pc # "owner" => request'[r].key = request[r].key)
  BY DEF Advances
<1>f. /\ request[r].pc # "idle" => request[r].user \in Users
      /\ request[r].pc \in Seated => request[r].cookie \in Sessions
  BY <1>0, AtHand
<1>g. ASSUME NEW pc \in PC, Goto(r, pc)
      PROVE  request'[r].pc = pc /\ request'[r].id = request[r].id
  BY <1>0, <1>g, GotoIs DEF Goes, Becomes
<1>h. "idle" # request[r].pc
  BY <1>e DEF Flow
<1>i. FailedLogin(r) \/ Welcome(r) \/ EndsEarly(r) => request'[r].pc = "idle"
  BY <1>0, EndIs DEF FailedLogin, Welcome, EndsEarly, Ended, IdleRequest
<1>j. request'[r].pc # "idle"
  BY <1>e DEF Flow
<1>1. CASE CallbackMatch(r) \/ CallbackDrop(r)
  <2>1. request'[r].pc \in {"account", "welcome"}
    BY <1>1, <1>g, <1>i, <1>j DEF CallbackMatch, CallbackDrop, PC, Login
  <2> QED BY <2>1 DEF Progress, Backed
<1>2. CASE CallbackAccount(r)
  <2>1. request[r].user \in Users
    BY <1>2, <1>f, <1>h
  <2>2. CASE Becomes(r, "profile", account[request[r].user], request[r].key, request[r].fresh)
    BY <2>2 DEF Becomes, Progress
  <2>3. CASE /\ Becomes(r, "create", drawn.ids + 1, request[r].key, request[r].fresh)
             /\ drawn.ids + 1 \in Ids
    <3>1. ~(drawn.ids + 1 <= drawn.ids)
      BY <1>0 DEF TypeOK
    <3>2. past.owner[drawn.ids + 1] \notin Users
      BY <1>0, <2>3, <3>1, OwnerTypes DEF IInv, Ownership, IdsDrawn
    <3>3. drawn.ids + 1 \notin past.deleted
      BY <1>0, <2>3, <3>2 DEF Owned
    <3> QED BY <2>3, <3>3 DEF Becomes, Progress, Backed
  <2> QED BY <1>0, <1>2, <2>1, <2>2, <2>3, CallbackAccountIs
<1>3. CASE CallbackAgain(r)
  <2>1. Ended(r) => request'[r].pc = "idle"
    BY DEF Ended, IdleRequest
  <2> QED BY <1>0, <1>3, <1>f, <1>h, <1>j, <2>1, CallbackAgainIs DEF Becomes, Progress
<1>4. CASE CallbackSession(r)
  BY <1>0, <1>4, CallbackSessionIs DEF Becomes, Progress, Backed
<1>5. CASE Current(r)
  <2>1. Ended(r) => request'[r].pc = "idle"
    BY DEF Ended, IdleRequest
  <2>2. \E pc \in {"read", "issue", "forget"} :
          Becomes(r, pc, account[request[r].user], request[r].key, request[r].fresh)
    BY <1>0, <1>5, <1>f, <1>h, <1>j, <2>1, CurrentIs
  <2> QED BY <2>2 DEF Becomes, Progress
<1>6. CASE RevokeRead(r)
  <2>1. request[r].pc = "read" /\ request[r].user \in Users /\ request[r].pc \in Backed
    BY <1>6, <1>f, <1>h DEF RevokeRead, Backed
  <2>2. account[request[r].user] = request[r].id
    BY <1>d, <2>1 DEF Progress
  <2>3. connection[request[r].id] = NoUser => grant[request[r].user] # "stored"
    <3> SUFFICES ASSUME connection[request[r].id] = NoUser, grant[request[r].user] = "stored"
                 PROVE  FALSE
      OBVIOUS
    <3>1. PICK j \in Ids : connection[j] = request[r].user /\ past.owner[j] = request[r].user
      BY <1>0, <2>1 DEF Ledger, StoredTokenIsKeptOrRevoked
    <3>2. HasRows(j)
      BY <2>1, <3>1, AccountAssumption DEF HasRows
    <3>3. account[request[r].user] = j
      BY <1>0, <2>1, <3>1, <3>2 DEF Ledger, RowsHaveAnAccount
    <3> QED BY <2>1, <2>2, <3>1, <3>3, AccountAssumption
  <2>4. /\ request'[r].pc = IF connection[request[r].id] # NoUser THEN "revoke" ELSE "disconnect"
        /\ request'[r].id = request[r].id
    BY <1>6, <1>g DEF RevokeRead, PC, Deletion
  <2> QED BY <1>e, <2>2, <2>3, <2>4 DEF Progress
<1>7. CASE DeleteReadsOwner(r)
  <2>1. request[r].pc = "owner" /\ request[r].pc \in Seated
    BY <1>7 DEF DeleteReadsOwner, Seated, Deletion
  <2>2. session[request[r].cookie] = request[r].user
    BY <1>0, <1>f, <1>h, <2>1, Lost DEF IInv, Seats, CookiesOK
  <2>3. Becomes(r, "unprofile", request[r].id, session[request[r].cookie], request[r].fresh)
    BY <1>0, <1>7, <1>f, <2>1, DeleteReadsOwnerIs
  <2> QED BY <1>d, <2>1, <2>2, <2>3 DEF Becomes, Progress, Backed
<1>8. CASE DeleteSession(r)
  <2>1. request[r].pc = "unsession" /\ request[r].user \in Users
    BY <1>8, <1>f, <1>h DEF DeleteSession
  <2>2. request[r].key = request[r].user
    BY <1>d, <2>1 DEF Progress
  <2>3. request'[r].pc = "unaccount" /\ request'[r].id = request[r].id
    BY <1>8, <1>g, <2>1, <2>2, AccountAssumption DEF DeleteSession, PC, Deletion
  <2> QED BY <1>d, <1>e, <2>1, <2>2, <2>3 DEF Progress, Backed
<1>9. CASE Welcome(r) \/ EndsEarly(r)
  BY <1>9, <1>i, <1>j
<1> QED BY <1>1, <1>2, <1>3, <1>4, <1>5, <1>6, <1>7, <1>8, <1>9

LEMMA VisitLedger ==
  ASSUME IInv, Remember, NEW b \in Browsers, Visit(b)
  PROVE  LedgerCalm
<1>0. TypeOK /\ raced \subseteq raced'
  BY RacedGrows DEF IInv, Typed
<1>1. UNCHANGED <<account, profile, connection, agent, grant, past>>
  BY DEF Visit, Start, CallbackCancelled, Callback, Ask, Logout, rows
<1>2. ASSUME NEW r \in Requests, NEW t \in Attempts, NEW u \in Users, NEW consent \in Consent,
             Callback(r, b, t, u, consent)
      PROVE  Moved(r) /\ Progress(request'[r])
  BY <1>0, <1>2, CallbackIs DEF Progress, Backed
<1>3. ASSUME NEW r \in Requests, NEW pc \in Asked, Ask(r, b, pc)
      PROVE  Moved(r) /\ Progress(request'[r])
  BY <1>0, <1>3, AskIs DEF Progress, Backed, Asked
<1>4. ASSUME NEW r \in Requests, Moved(r), Progress(request'[r])
      PROVE  LedgerCalm
  BY <1>0, <1>1, <1>4 DEF LedgerCalm, Moved
<1>5. UNCHANGED request => LedgerCalm
  BY <1>0, <1>1 DEF LedgerCalm
<1> QED BY <1>2, <1>3, <1>4, <1>5 DEF Visit, Start, CallbackCancelled, Logout

LEMMA LedgerInductive ==
  /\ Init => Remembered /\ Ledger
  /\ IInv /\ Typed' /\ Owned' /\ [Next]_vars => Remembered' /\ Ledger'
<1>1. Init => Remembered /\ Ledger
  <2> SUFFICES ASSUME Init PROVE Remembered /\ Ledger
    OBVIOUS
  <2>1. Remembered
    BY DEF Init, Remembered, Races, Deletes, IdleRequest, Deletion
  <2>2. ProgressOK
    BY DEF Init, ProgressOK, Progress, IdleRequest, Backed
  <2>3. RowsHaveAnAccount /\ StoredTokenIsKeptOrRevoked /\ DeletedIsGone
    BY DEF Init, RowsHaveAnAccount, StoredTokenIsKeptOrRevoked, DeletedIsGone, HasRows
  <2> QED BY <2>1, <2>2, <2>3 DEF Ledger
<1> SUFFICES ASSUME IInv, Typed', Owned', [Next]_vars PROVE Remembered' /\ Ledger'
  BY <1>1
<1>0. Typed /\ Owned /\ KeysOK /\ Remembered /\ Ledger
  BY DEF IInv, Ownership, Seats
<1>2. ASSUME NEW r \in Requests, Step(r), Remember
      PROVE  Ledger'
  BY <1>0, <1>2, CalmLedger, LedgerKept, CreateLedger, SignInLedger, ConnectLedger, ForgetLedger,
     DeletionLedger, AccountLedger, GoodbyeLedger DEF Step
<1>3. ASSUME NEW b \in Browsers, Visit(b), Remember
      PROVE  Ledger'
  BY <1>0, <1>3, VisitLedger, LedgerKept
<1>4. ASSUME Remember,
             \/ \E t \in Attempts : AttemptExpires(t)
             \/ \E s \in Sessions : SessionExpires(s)
      PROVE  Ledger'
  <2>1. /\ UNCHANGED <<account, profile, connection, agent, grant, request>>
        /\ past'.deleted = past.deleted /\ past'.owner = past.owner
    BY <1>0, <1>4 DEF AttemptExpires, SessionExpires, Typed, TypeOK, Past
  <2> QED BY <1>0, <1>4, <2>1, RacedGrows, LedgerKept DEF LedgerCalm
<1>5. CASE UNCHANGED vars
  <2>1. LedgerCalm
    BY <1>5 DEF vars, rows, LedgerCalm
  <2>2. Remembered'
    BY <1>0, <1>5 DEF vars, rows, Remembered, Races, Deletes, SessionLost
  <2> QED BY <1>0, <2>1, <2>2, LedgerKept
<1>6. CASE Next
  BY <1>2, <1>3, <1>4, <1>6, RacedGrows DEF Next
<1> QED BY <1>5, <1>6

LEMMA Inductive == Spec => []IInv
<1>1. Init => IInv
  BY InitTyped, LoginsInductive, SeatsInductive, OwnershipInductive, LedgerInductive DEF IInv
<1>2. IInv /\ [Next]_vars => IInv'
  <2> SUFFICES ASSUME IInv, [Next]_vars PROVE IInv'
    OBVIOUS
  <2>1. Typed' /\ Logins' /\ Seats' /\ Ownership'
    BY NextTyped, LoginsInductive, SeatsInductive, OwnershipInductive DEF IInv
  <2>2. Remembered' /\ Ledger'
    BY <2>1, LedgerInductive DEF Ownership
  <2> QED BY <2>1, <2>2 DEF IInv
<1> QED BY <1>1, <1>2, PTL DEF Spec

(* Whatever is stored under an id, an account row leads to it, but for      *)
(* users whose deletion raced another of their requests.                    *)
THEOREM RowsCorrect == Spec => []RowsHaveAnAccount
<1>1. IInv => RowsHaveAnAccount
  BY DEF IInv, Ledger
<1> QED BY <1>1, Inductive, PTL

(* A stored token is in its user's row until Google was told to revoke it,  *)
(* wherever deletions stop.                                                 *)
THEOREM RevocationCorrect == Spec => []StoredTokenIsKeptOrRevoked
<1>1. IInv => StoredTokenIsKeptOrRevoked
  BY DEF IInv, Ledger
<1> QED BY <1>1, Inductive, PTL

(* A deletion that was answered has left no row, for ever, unless it raced. *)
THEOREM DeletionCorrect == Spec => []DeletedIsGone
<1>1. IInv => DeletedIsGone
  BY DEF IInv, Ledger
<1> QED BY <1>1, Inductive, PTL
=============================================================================
