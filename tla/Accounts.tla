------------------------------ MODULE Accounts ------------------------------
(***************************************************************************)
(* Google accounts (src/src/auth.rs, auth_store.rs, google_identity.rs,    *)
(* and the connection rows of google_calendar.rs): sign-in, calendar       *)
(* consent, sessions, the agent of an account, and its deletion, as        *)
(* requests that run side by side and make one store or Google call per    *)
(* step.                                                                   *)
(*                                                                         *)
(* A row is keyed by what the code keys it by: the account row by the      *)
(* Google subject, profile, connection and agent by the account id, login  *)
(* attempts and sessions by a fresh random token.  Tokens and ids are      *)
(* numbered in the order they are drawn; 0 is none.  A browser is its two  *)
(* cookies; requests of one browser share them.                            *)
(***************************************************************************)
EXTENDS Integers

CONSTANTS
  Users, NoUser,   \* Google subjects that the access list admits
  Browsers, NoBrowser,
  Requests,        \* the requests under way at once
  MaxIds,          \* bounds on fresh ids, attempts and sessions
  MaxAttempts,
  MaxSessions,
  MaxDisturbed     \* bound on requests that end early and on rows that expire

ASSUME AccountAssumption ==
  /\ NoUser \notin Users /\ NoBrowser \notin Browsers
  /\ MaxIds \in Nat /\ MaxAttempts \in Nat /\ MaxSessions \in Nat
  /\ MaxDisturbed \in Nat

VARIABLES
  account,     \* google:<subject> rows: the account id
  profile,     \* ids with a profile: row
  connection,  \* calendar:<id> rows: whose refresh token is stored
  agent,       \* ids with a record in the agents table
  attempt,     \* login: rows
  session,     \* session: rows: whose account they name
  jar,         \* the cookies of each browser
  request,
  grant,       \* what Google still honours: none, a stored token, or one the service let go
  drawn,       \* how many ids, attempts and sessions were drawn
  past, raced  \* history, see below

rows == <<account, profile, connection, agent, attempt, session>>
vars == <<rows, jar, request, grant, drawn, past, raced>>
-----------------------------------------------------------------------------
Ids == 1..MaxIds
Attempts == 1..MaxAttempts
Sessions == 1..MaxSessions

Login == {"match", "account", "create", "again", "profile", "connect", "session",
          "drop", "welcome"}
Deletion == {"deletes", "read", "revoke", "disconnect", "agent", "owner", "unprofile",
             "unsession", "unaccount", "goodbye"}
Asked == {"deletes", "opens", "lets_go"}
PC == {"idle", "issue", "forget"} \union Login \union Deletion \union Asked
Attempt == [row : {"absent", "kept", "used"}, calendar : {"no", "yes"}, account : 0..MaxIds]
Consent == {"token", "none", "unscoped"}   \* what Google granted a calendar attempt
Request == [pc : PC, browser : Browsers \union {NoBrowser}, user : Users \union {NoUser},
            key : Users \union {NoUser},
            id : 0..MaxIds, attempt : 0..MaxAttempts, cookie : 0..MaxSessions, fresh : 0..MaxSessions,
            consent : Consent]
IdleRequest == [pc |-> "idle", browser |-> NoBrowser, user |-> NoUser, key |-> NoUser, id |-> 0,
                attempt |-> 0, cookie |-> 0, fresh |-> 0, consent |-> "none"]

Running(r) == request[r].pc # "idle"
Goto(r, pc) == request' = [request EXCEPT ![r].pc = pc]
End(r) == request' = [request EXCEPT ![r] = IdleRequest]

\* The user a cookie signs in, and the account it leads to.
Named(s) == IF s = 0 THEN NoUser ELSE session[s]
AccountOf(u) == IF u = NoUser THEN 0 ELSE account[u]
Calendar(r) == attempt[request[r].attempt].calendar = "yes"
-----------------------------------------------------------------------------
(* History.  owner: for whom an id was drawn; login: the attempt a session  *)
(* came from; deleted: ids whose deletion answered 204; disturbed counts.   *)
(* raced: users who had a deletion under way together with another request, *)
(* or with the end of its session.                                          *)
Init ==
  /\ account = [u \in Users |-> 0]
  /\ profile = {} /\ agent = {}
  /\ connection = [i \in Ids |-> NoUser]
  /\ attempt = [t \in Attempts |-> [row |-> "absent", calendar |-> "no", account |-> 0]]
  /\ session = [s \in Sessions |-> NoUser]
  /\ jar = [b \in Browsers |-> [login |-> 0, session |-> 0]]
  /\ request = [r \in Requests |-> IdleRequest]
  /\ grant = [u \in Users |-> "none"]
  /\ drawn = [ids |-> 0, attempts |-> 0, sessions |-> 0]
  /\ past = [owner |-> [i \in Ids |-> NoUser], login |-> [s \in Sessions |-> 0],
             deleted |-> {}, disturbed |-> 0]
  /\ raced = {}
-----------------------------------------------------------------------------
(* start: draws an attempt bound to the browser's new login cookie.  A      *)
(* calendar attempt is for the account the browser is signed in to.         *)
Start(b, calendar) ==
  LET t == drawn.attempts + 1
      id == AccountOf(Named(jar[b].session))
  IN /\ drawn.attempts < MaxAttempts
     /\ calendar = "yes" => id # 0
     /\ attempt' = [attempt EXCEPT ![t] =
          [row |-> "kept", calendar |-> calendar,
           account |-> IF calendar = "yes" THEN id ELSE 0]]
     /\ drawn' = [drawn EXCEPT !.attempts = t]
     /\ jar' = [jar EXCEPT ![b].login = t]
     /\ UNCHANGED <<account, profile, connection, agent, session, request, grant, past>>

(* callback: the attempt is used up, by a browser with its cookie, before   *)
(* Google is asked who the person at the keyboard is.                       *)
ConsumedByAnyone(b, t) == attempt[t].row # "absent"   \* faulty variant
Consumed(b, t) == attempt[t].row = "kept" /\ jar[b].login = t

Callback(r, b, t, u, consent) ==
  /\ ~Running(r)
  /\ Consumed(b, t)
  /\ attempt[t].calendar = "no" => consent = "none"
  /\ attempt' = [attempt EXCEPT ![t].row = "used"]
  /\ request' = [request EXCEPT ![r] =
       [IdleRequest EXCEPT !.browser = b, !.user = u, !.attempt = t, !.consent = consent,
                           !.cookie = jar[b].session,
                           !.pc = IF attempt[t].calendar = "yes" THEN "match" ELSE "account"]]
  /\ UNCHANGED <<account, profile, connection, agent, session, jar, grant, drawn, past>>

\* The person cancels at Google, or Google does not vouch for them.
CallbackCancelled(b, t) ==
  /\ Consumed(b, t)
  /\ attempt' = [attempt EXCEPT ![t].row = "used"]
  /\ jar' = [jar EXCEPT ![b].login = 0]
  /\ UNCHANGED <<account, profile, connection, agent, session, request, grant, drawn, past>>

\* Every refusal of a callback clears the login cookie and nothing else.
FailedLogin(r) ==
  /\ jar' = [jar EXCEPT ![request[r].browser].login = 0]
  /\ End(r)
  /\ UNCHANGED <<rows, grant, drawn, past>>

AnyMatches(r) == attempt[request[r].attempt].account # 0   \* faulty variant
Matching(r) == account[request[r].user] = attempt[request[r].attempt].account
CallbackMatch(r) ==
  /\ request[r].pc = "match"
  /\ IF Matching(r)
     THEN Goto(r, "account") /\ UNCHANGED <<rows, jar, grant, drawn, past>>
     ELSE FailedLogin(r)

CallbackAccount(r) ==
  LET u == request[r].user IN
  /\ request[r].pc = "account"
  /\ IF account[u] # 0
     THEN /\ request' = [request EXCEPT ![r].pc = "profile", ![r].id = account[u]]
          /\ UNCHANGED <<drawn, past>>
     ELSE /\ drawn.ids < MaxIds
          /\ drawn' = [drawn EXCEPT !.ids = @ + 1]
          /\ past' = [past EXCEPT !.owner[drawn.ids + 1] = u]
          /\ request' = [request EXCEPT ![r].pc = "create", ![r].id = drawn.ids + 1]
  /\ UNCHANGED <<rows, jar, grant>>

CanCreate(r) == account[request[r].user] = 0
CallbackCreate(r) ==
  /\ request[r].pc = "create"
  /\ IF CanCreate(r)
     THEN account' = [account EXCEPT ![request[r].user] = request[r].id] /\ Goto(r, "profile")
     ELSE Goto(r, "again") /\ UNCHANGED account
  /\ UNCHANGED <<profile, connection, agent, attempt, session, jar, grant, drawn, past>>

CallbackAgainTrusting(r) ==   \* faulty variant: the row is taken to be there still
  /\ request[r].pc = "again"
  /\ request' = [request EXCEPT ![r].pc = "profile", ![r].id = account[request[r].user]]
  /\ UNCHANGED <<rows, jar, grant, drawn, past>>
\* Another sign-in created the row first: its account is this one's too.
CallbackAgain(r) ==
  LET id == account[request[r].user] IN
  /\ request[r].pc = "again"
  /\ request' = [request EXCEPT ![r] =
       IF id # 0 THEN [@ EXCEPT !.pc = "profile", !.id = id] ELSE IdleRequest]
  /\ UNCHANGED <<rows, jar, grant, drawn, past>>

CallbackProfile(r) ==
  /\ request[r].pc = "profile"
  /\ profile' = profile \union {request[r].id}
  /\ Goto(r, IF Calendar(r) THEN "connect" ELSE "session")
  /\ UNCHANGED <<account, connection, agent, attempt, session, jar, grant, drawn, past>>

\* connect: stores the token Google gave; without one a stored row will do.
CallbackConnect(r) ==
  LET u == request[r].user
      id == request[r].id
  IN /\ request[r].pc = "connect"
     /\ \/ /\ request[r].consent = "token"
           /\ connection' = [connection EXCEPT ![id] = u]
           /\ grant' = [grant EXCEPT ![u] = "stored"]
           /\ Goto(r, "session")
           /\ UNCHANGED <<account, profile, agent, attempt, session, jar, drawn, past>>
        \/ /\ request[r].consent = "none" /\ connection[id] # NoUser
           /\ Goto(r, "session")
           /\ UNCHANGED <<rows, jar, grant, drawn, past>>
        \/ /\ request[r].consent = "unscoped"
              \/ (request[r].consent = "none" /\ connection[id] = NoUser)
           /\ FailedLogin(r)

CallbackSession(r) ==
  LET s == drawn.sessions + 1 IN
  /\ request[r].pc = "session"
  /\ drawn.sessions < MaxSessions
  /\ session' = [session EXCEPT ![s] = request[r].user]
  /\ drawn' = [drawn EXCEPT !.sessions = s]
  /\ past' = [past EXCEPT !.login[s] = request[r].attempt]
  /\ request' = [request EXCEPT ![r].pc = IF request[r].cookie = 0 THEN "welcome" ELSE "drop",
                                ![r].fresh = s]
  /\ UNCHANGED <<account, profile, connection, agent, attempt, jar, grant>>

CallbackDrop(r) ==
  /\ request[r].pc = "drop"
  /\ session' = [session EXCEPT ![request[r].cookie] = NoUser]
  /\ Goto(r, "welcome")
  /\ UNCHANGED <<account, profile, connection, agent, attempt, jar, grant, drawn, past>>

\* The answer reaches the browser with the new session's cookie.
Welcome(r) ==
  /\ request[r].pc = "welcome"
  /\ jar' = [jar EXCEPT ![request[r].browser] = [login |-> 0, session |-> request[r].fresh]]
  /\ End(r)
  /\ UNCHANGED <<rows, grant, drawn, past>>
-----------------------------------------------------------------------------
(* current: the session row, then the account row it names.                 *)
Ask(r, b, pc) ==
  /\ ~Running(r)
  /\ Named(jar[b].session) # NoUser
  /\ request' = [request EXCEPT ![r] =
       [IdleRequest EXCEPT !.browser = b, !.cookie = jar[b].session,
                           !.user = session[jar[b].session], !.pc = pc]]
  /\ UNCHANGED <<rows, jar, grant, drawn, past>>

Current(r) ==
  LET id == account[request[r].user] IN
  /\ request[r].pc \in Asked
  /\ IF id = 0
     THEN session' = [session EXCEPT ![request[r].cookie] = NoUser] /\ End(r)
     ELSE /\ request' = [request EXCEPT ![r].id = id,
                ![r].pc = CASE request[r].pc = "deletes" -> "read"
                            [] request[r].pc = "opens" -> "issue"
                            [] request[r].pc = "lets_go" -> "forget"]
          /\ UNCHANGED session
  /\ UNCHANGED <<account, profile, connection, agent, attempt, jar, grant, drawn, past>>

\* agent: the account's agent, created on the first visit.
IssueAgent(r) ==
  /\ request[r].pc = "issue"
  /\ agent' = agent \union {request[r].id}
  /\ End(r)
  /\ UNCHANGED <<account, profile, connection, attempt, session, jar, grant, drawn, past>>

\* logout forgets the session and nothing else.
Logout(b) ==
  /\ jar[b].session # 0
  /\ session' = [session EXCEPT ![jar[b].session] = NoUser]
  /\ jar' = [jar EXCEPT ![b].session = 0]
  /\ UNCHANGED <<account, profile, connection, agent, attempt, request, grant, drawn, past>>
-----------------------------------------------------------------------------
(* disconnect (the request): the row goes, the grant stays with Google.      *)
Forget(r) ==
  LET u == request[r].user IN
  /\ request[r].pc = "forget"
  /\ connection' = [connection EXCEPT ![request[r].id] = NoUser]
  /\ grant' = [grant EXCEPT ![u] = IF @ = "stored" THEN "let_go" ELSE @]
  /\ End(r)
  /\ UNCHANGED <<account, profile, agent, attempt, session, jar, drawn, past>>

(* delete_account.  revoke reads the row and tells Google, then removes it.  *)
RevokeNobody(r) ==   \* faulty variant: the row goes, Google is not told
  /\ request[r].pc = "read"
  /\ Goto(r, "disconnect")
  /\ UNCHANGED <<rows, jar, grant, drawn, past>>
RevokeRead(r) ==
  /\ request[r].pc = "read"
  /\ Goto(r, IF connection[request[r].id] # NoUser THEN "revoke" ELSE "disconnect")
  /\ UNCHANGED <<rows, jar, grant, drawn, past>>

Revoke(r) ==
  /\ request[r].pc = "revoke"
  /\ grant' = [grant EXCEPT ![request[r].user] = "none"]
  /\ Goto(r, "disconnect")
  /\ UNCHANGED <<rows, jar, drawn, past>>

Disconnect(r) ==
  /\ request[r].pc = "disconnect"
  /\ connection' = [connection EXCEPT ![request[r].id] = NoUser]
  /\ Goto(r, "agent")
  /\ UNCHANGED <<account, profile, agent, attempt, session, jar, grant, drawn, past>>

AgentAndAccount(r) ==   \* faulty variant: the account row goes before the rest
  /\ request[r].pc = "agent"
  /\ account' = [account EXCEPT ![request[r].user] = 0]
  /\ agent' = agent \ {request[r].id}
  /\ Goto(r, "owner")
  /\ UNCHANGED <<profile, connection, attempt, session, jar, grant, drawn, past>>
DeleteAgent(r) ==
  /\ request[r].pc = "agent"
  /\ agent' = agent \ {request[r].id}
  /\ Goto(r, "owner")
  /\ UNCHANGED <<account, profile, connection, attempt, session, jar, grant, drawn, past>>

\* The session is read again for the key of the account row.
DeleteReadsOwner(r) ==
  /\ request[r].pc = "owner"
  /\ request' = [request EXCEPT ![r].pc = "unprofile", ![r].key = session[request[r].cookie]]
  /\ UNCHANGED <<rows, jar, grant, drawn, past>>

DeleteProfile(r) ==
  /\ request[r].pc = "unprofile"
  /\ profile' = profile \ {request[r].id}
  /\ Goto(r, "unsession")
  /\ UNCHANGED <<account, connection, agent, attempt, session, jar, grant, drawn, past>>

DeleteSession(r) ==
  /\ request[r].pc = "unsession"
  /\ session' = [session EXCEPT ![request[r].cookie] = NoUser]
  /\ Goto(r, IF request[r].key = NoUser THEN "goodbye" ELSE "unaccount")
  /\ UNCHANGED <<account, profile, connection, agent, attempt, jar, grant, drawn, past>>

DeleteAccount(r) ==
  /\ request[r].pc = "unaccount"
  /\ account' = [account EXCEPT ![request[r].key] = 0]
  /\ Goto(r, "goodbye")
  /\ UNCHANGED <<profile, connection, agent, attempt, session, jar, grant, drawn, past>>

GoodbyeToAll(r) ==   \* faulty variant: the answer does not wait for the account row
  /\ request[r].pc \in {"unaccount", "goodbye"}
  /\ jar' = [jar EXCEPT ![request[r].browser].session = 0]
  /\ past' = [past EXCEPT !.deleted = @ \union {request[r].id}]
  /\ End(r)
  /\ UNCHANGED <<rows, grant, drawn>>
Goodbye(r) ==
  /\ request[r].pc = "goodbye"
  /\ jar' = [jar EXCEPT ![request[r].browser].session = 0]
  /\ past' = [past EXCEPT !.deleted = @ \union {request[r].id}]
  /\ End(r)
  /\ UNCHANGED <<rows, grant, drawn>>
-----------------------------------------------------------------------------
(* A request ends between two of its steps: its next call fails, the call   *)
(* before it took effect and its answer was lost, or its 22 seconds are up. *)
EndsEarly(r) ==
  /\ Running(r)
  /\ past.disturbed < MaxDisturbed
  /\ past' = [past EXCEPT !.disturbed = @ + 1]
  /\ End(r)
  /\ UNCHANGED <<rows, jar, grant, drawn>>

AttemptExpires(t) ==
  /\ attempt[t].row = "kept" /\ past.disturbed < MaxDisturbed
  /\ attempt' = [attempt EXCEPT ![t].row = "used"]
  /\ past' = [past EXCEPT !.disturbed = @ + 1]
  /\ UNCHANGED <<account, profile, connection, agent, session, jar, request, grant, drawn>>

SessionExpires(s) ==
  /\ session[s] # NoUser /\ past.disturbed < MaxDisturbed
  /\ session' = [session EXCEPT ![s] = NoUser]
  /\ past' = [past EXCEPT !.disturbed = @ + 1]
  /\ UNCHANGED <<account, profile, connection, agent, attempt, jar, request, grant, drawn>>
-----------------------------------------------------------------------------
\* The deletions of u under way, and those that have not yet read their session again.
Deletes(r, u) == request[r].user = u /\ request[r].pc \in Deletion
SessionLost(r) ==
  /\ request[r].pc \in {"read", "revoke", "disconnect", "agent", "owner"}
  /\ session[request[r].cookie] = NoUser
Races(u) ==
  \E r \in Requests :
     Deletes(r, u) /\ (SessionLost(r) \/ \E q \in Requests \ {r} : request[q].user = u)
Remember == raced' = raced \union {u \in Users : Races(u)'}

Step(r) ==
  \/ CallbackMatch(r) \/ CallbackAccount(r) \/ CallbackCreate(r) \/ CallbackAgain(r)
  \/ CallbackProfile(r) \/ CallbackConnect(r) \/ CallbackSession(r) \/ CallbackDrop(r)
  \/ Welcome(r)
  \/ Current(r) \/ IssueAgent(r) \/ Forget(r)
  \/ RevokeRead(r) \/ Revoke(r) \/ Disconnect(r) \/ DeleteAgent(r) \/ DeleteReadsOwner(r)
  \/ DeleteProfile(r) \/ DeleteSession(r) \/ DeleteAccount(r) \/ Goodbye(r)
  \/ EndsEarly(r)

Visit(b) ==
  \/ \E calendar \in {"no", "yes"} : Start(b, calendar)
  \/ \E t \in Attempts : CallbackCancelled(b, t)
  \/ \E r \in Requests, t \in Attempts, u \in Users, consent \in Consent :
        Callback(r, b, t, u, consent)
  \/ \E r \in Requests, pc \in Asked : Ask(r, b, pc)
  \/ Logout(b)

Next ==
  \/ \E b \in Browsers : Visit(b) /\ Remember
  \/ \E r \in Requests : Step(r) /\ Remember
  \/ \E t \in Attempts : AttemptExpires(t) /\ Remember
  \/ \E s \in Sessions : SessionExpires(s) /\ Remember

Spec == Init /\ [][Next]_vars
-----------------------------------------------------------------------------
Past == [owner : [Ids -> Users \union {NoUser}], login : [Sessions -> 0..MaxAttempts],
         deleted : SUBSET Ids, disturbed : 0..MaxDisturbed]
\* Every row, cookie and request is of the kind the code stores there.
TypeOK ==
  /\ account \in [Users -> 0..MaxIds]
  /\ profile \subseteq Ids /\ agent \subseteq Ids
  /\ connection \in [Ids -> Users \union {NoUser}]
  /\ attempt \in [Attempts -> Attempt]
  /\ session \in [Sessions -> Users \union {NoUser}]
  /\ jar \in [Browsers -> [login : 0..MaxAttempts, session : 0..MaxSessions]]
  /\ request \in [Requests -> Request]
  /\ grant \in [Users -> {"none", "stored", "let_go"}]
  /\ drawn \in [ids : 0..MaxIds, attempts : 0..MaxAttempts, sessions : 0..MaxSessions]
  /\ past \in Past /\ raced \subseteq Users

HasRows(i) == i \in profile \/ i \in agent \/ connection[i] # NoUser

(* Nothing is stored under an id that no account row leads to, however many *)
(* sign-ins create the account at once and wherever a deletion stops: the   *)
(* account row is the first to come and the last to go (auth.rs:422-433).   *)
(* A deletion that overlaps other requests of its user is the exception.    *)
RowsHaveAnAccount ==
  \A i \in Ids : HasRows(i) => account[past.owner[i]] = i \/ past.owner[i] \in raced

(* A calendar consent ends in a session of the person who asked for it,     *)
(* whoever chose an account at Google: "Choosing another account cannot     *)
(* attach its tokens" (docs/google-calendar-booking.md).                    *)
ConsentIsOfTheAsker ==
  \A r \in Requests :
     request[r].pc \in {"account", "create", "again", "profile", "connect", "session"} /\ Calendar(r)
        => past.owner[attempt[request[r].attempt].account] = request[r].user

(* A login attempt signs in at most once, however often its callback URL is *)
(* requested (consume, auth_store.rs).                                      *)
AttemptSignsInOnce ==
  \A s1, s2 \in Sessions : past.login[s1] = past.login[s2] /\ past.login[s1] # 0 => s1 = s2

(* A token that was stored is revoked at Google before its row is deleted,  *)
(* wherever the deletion stops; only a disconnect lets a grant go.          *)
StoredTokenIsKeptOrRevoked ==
  \A u \in Users :
     grant[u] = "stored" => u \in raced \/ \E i \in Ids : connection[i] = u /\ past.owner[i] = u

(* An account whose deletion was answered 204 has left no row behind,       *)
(* unless another request of its user, or the end of its session, raced it. *)
DeletedIsGone ==
  \A i \in past.deleted :
     past.owner[i] \in raced \/ (~HasRows(i) /\ account[past.owner[i]] # i)
=============================================================================
