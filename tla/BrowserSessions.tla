--------------------------- MODULE BrowserSessions --------------------------
(***************************************************************************)
(* internal/web/server.go over internal/auth and the web_sessions table:   *)
(* requests of one browser (its tabs share a cookie) are verified against  *)
(* the stored sessions, get the browserSession of the server's map, and    *)
(* sign in, register, sign out, start a turn or follow one. The store, the *)
(* map and the browser are reached in separate steps, so requests          *)
(* interleave between them; the process may restart, which loses the map   *)
(* and keeps the table.                                                    *)
(*                                                                         *)
(* Random identifiers are fresh: a session's ID is named for the request   *)
(* that makes it, and a browserSession and a turn are named for the        *)
(* request that makes them too. A cookie stands for an ID with the right   *)
(* secret.                                                                 *)
(***************************************************************************)
EXTENDS Naturals, FiniteSets

CONSTANTS
    Requests,       \* requests; each is made once
    Users,          \* user names, and the users rows
    Anonymous,      \* the user_id of a session nobody signed in to (NULL)
    Absent,         \* no row of web_sessions
    Nothing,        \* no cookie, no browserSession, no Set-Cookie header
    Boot,           \* a session from before this process
    Kinds,          \* the requests that are made
    MaxFaults       \* bound: failing statements of the store, sessions whose
                    \* time passes and restarts, together

Ids == {Boot} \cup (Requests \X {"public", "rotated"})
Cleared == "cleared"
AllKinds == {"index", "form", "login", "register", "logout", "turn", "watch"}

ASSUME BoundsAssumption == MaxFaults \in Nat /\ IsFiniteSet(Requests)
ASSUME NamesAssumption ==
    /\ Anonymous \notin Users /\ Absent \notin Users \cup {Anonymous}
    /\ Nothing \notin Requests /\ Ids \cap {Nothing, Cleared} = {}
    /\ Boot \notin Requests \X {"public", "rotated"}
    /\ Kinds \subseteq AllKinds

VARIABLES
    rows,       \* web_sessions: the user of each session ID
    expired,    \* the session IDs whose ExpiresAt has passed
    accounts,   \* the users table
    defaults,   \* the users that have a default conversation
    sessions,   \* Server.sessions: the browserSession of each session ID
    jar,        \* the cookie of the browser
    request,    \* the requests
    restarts    \* restarts so far

storeVars == <<rows, expired, accounts, defaults>>
vars == <<rows, expired, accounts, defaults, sessions, jar, request, restarts>>

Public == {"form", "login", "register", "logout"}

\* after: the requests answered before it arrived (history).
\* id, owner: the storage.Session verified. object: the browserSession, with
\* the id and owner of the request it is named for. turn: its turnJob.
RequestFields ==
    [kind : AllKinds \cup {"none"}, cookie : Ids \cup {Nothing}, user : Users \cup {Nothing},
     target : Requests \cup {Nothing}, after : SUBSET Requests,
     pc : {"idle", "verifying", "creating", "looking", "loading", "storing", "handling",
           "rotating", "removing", "answering", "answered", "lost"},
     id : Ids \cup {Nothing}, owner : Users \cup {Anonymous},
     object : Requests \cup {Nothing}, turn : {"none", "running", "over", "lost"},
     setCookie : Ids \cup {Nothing, Cleared},
     answer : {"none", "page", "home", "signin", "refused", "forbidden", "error",
               "created", "conflict", "found", "missing"}]

NewRequest ==
    [kind |-> "none", cookie |-> Nothing, user |-> Nothing,
     target |-> Nothing, after |-> {}, pc |-> "idle", id |-> Nothing,
     owner |-> Anonymous, object |-> Nothing, turn |-> "none", setCookie |-> Nothing, answer |-> "none"]

Init ==
    /\ accounts \in SUBSET Users
    /\ jar \in {Nothing, Boot}
    /\ rows \in {[id \in Ids |-> IF id = jar THEN user ELSE Absent] :
                    user \in accounts \cup {Anonymous}}
    /\ expired = {}
    /\ defaults = {}
    /\ sessions = [id \in Ids |-> Nothing]
    /\ request = [r \in Requests |-> NewRequest]
    /\ restarts = 0

At(r, pc) == request[r].pc = pc
Set(r, next) == request' = [request EXCEPT ![r] = next]
Goto(r, pc) == Set(r, [request[r] EXCEPT !.pc = pc])

\* A response matters to the browser's cookie only if it sets one.
Responding(k) == IF k.setCookie = Nothing THEN "answered" ELSE "answering"
Answer(r, answer) ==
    Set(r, [request[r] EXCEPT !.pc = Responding(request[r]), !.answer = answer])

Faults ==
    Cardinality(expired) + restarts + Cardinality({r \in Requests : request[r].answer = "error"})

\* A statement of the store fails: 500, session_error.
StoreFails(r) == Faults < MaxFaults /\ Answer(r, "error")

----------------------------------------------------------------------------
(* What the auth service and the store do *)

SessionByID(id) == rows[id]
InsertSession(id, user) == rows' = [rows EXCEPT ![id] = user]
DeleteSession(id) == rows' = [rows EXCEPT ![id] = Absent]

\* Mutant of RotateSession: the signed-in session keeps its ID.
RotateInPlace(old, id, user) == rows' = [rows EXCEPT ![old] = user]

\* One transaction deletes the old session and adds the new one.
RotateSession(old, id, user) == rows' = [rows EXCEPT ![old] = Absent, ![id] = user]

\* createBrowserSession: a fresh ID, secret and token.
NewId(r, how) == <<r, how>>

\* VerifyBrowserSession accepts the cookie.
Expires(id) == SessionByID(id) # Absent /\ id \in expired
Valid(id) == SessionByID(id) # Absent /\ ~Expires(id)

HasUser(user) == user \in accounts
InsertUser(user) == user \notin accounts /\ accounts' = accounts \cup {user}

\* It is made when a user's messages are first asked for.
DefaultConversation(user) == defaults' = defaults \cup ({user} \ {Anonymous})

----------------------------------------------------------------------------
(* publicSession and authenticatedSession *)

\* A request with the cookie of now.
Arrive(r) ==
    /\ At(r, "idle")
    /\ \E kind \in Kinds, user \in Users, target \in Requests :
          /\ kind \in {"login", "register"} \/ user = CHOOSE u \in Users : TRUE
          /\ kind = "watch" \/ target = r
          /\ kind = "watch" => request[target].turn # "none"
          /\ LET arrived == [request[r] EXCEPT !.kind = kind, !.cookie = jar, !.user = user,
                                               !.target = target,
                                               !.after = {q \in Requests : At(q, "answered")}]
             IN  IF jar # Nothing THEN Set(r, [arrived EXCEPT !.pc = "verifying"])
                 ELSE IF kind \in Public THEN Set(r, [arrived EXCEPT !.pc = "creating"])
                 ELSE Set(r, [arrived EXCEPT !.pc = "answered", !.answer = "signin"])
    /\ UNCHANGED <<storeVars, sessions, jar, restarts>>

Admit(r, id) ==
    Set(r, [request[r] EXCEPT !.pc = "looking", !.id = id, !.owner = SessionByID(id)])

\* A cookie that is not accepted is replaced by an anonymous session.
VerifyPublic(r) ==
    /\ At(r, "verifying") /\ request[r].kind \in Public
    /\ LET id == request[r].cookie
       IN  \/ Valid(id) /\ Admit(r, id)
           \/ ~Valid(id) /\ Goto(r, "creating")
           \/ StoreFails(r)
    /\ UNCHANGED <<storeVars, sessions, jar, restarts>>

\* Only a user's session will do; the cookie of an expired one is cleared.
VerifyUser(r) ==
    /\ At(r, "verifying") /\ request[r].kind \notin Public
    /\ LET id == request[r].cookie
           users == Valid(id) /\ SessionByID(id) # Anonymous
       IN  \/ users /\ Admit(r, id)
           \/ ~users /\ ~Expires(id) /\ Answer(r, "signin")
           \/ Expires(id) /\ Set(r, [request[r] EXCEPT !.pc = "answering", !.answer = "signin",
                                                        !.setCookie = Cleared])
           \/ StoreFails(r)
    /\ UNCHANGED <<storeVars, sessions, jar, restarts>>

\* CreateAnonymousBrowserSession
CreateAnonymous(r) ==
    /\ At(r, "creating")
    /\ \/ LET id == NewId(r, "public") IN
          /\ InsertSession(id, Anonymous)
          /\ Set(r, [request[r] EXCEPT !.pc = "looking", !.id = id, !.owner = Anonymous,
                                       !.setCookie = id])
       \/ StoreFails(r) /\ UNCHANGED rows
    /\ UNCHANGED <<expired, accounts, defaults, sessions, jar, restarts>>

----------------------------------------------------------------------------
(* browserSessionForStoredSession: s.mu is not held while it loads *)

\* Mutant of Lookup: the map is not consulted.
LookupMisses(r) ==
    /\ At(r, "looking")
    /\ Goto(r, "loading")
    /\ UNCHANGED <<storeVars, sessions, jar, restarts>>

Lookup(r) ==
    /\ At(r, "looking")
    /\ LET object == sessions[request[r].id]
       IN  Set(r, [request[r] EXCEPT !.object = object,
                                     !.pc = IF object = Nothing THEN "loading" ELSE "handling"])
    /\ UNCHANGED <<storeVars, sessions, jar, restarts>>

\* DefaultConversationForUser, then the messages of a new chat.Session.
Load(r) ==
    /\ At(r, "loading")
    /\ \/ DefaultConversation(request[r].owner) /\ Goto(r, "storing")
       \/ request[r].owner # Anonymous /\ StoreFails(r) /\ UNCHANGED defaults
    /\ UNCHANGED <<rows, expired, accounts, sessions, jar, restarts>>

\* Whatever the map holds by now is replaced.
StoreEntry(r) ==
    /\ At(r, "storing")
    /\ sessions' = [sessions EXCEPT ![request[r].id] = r]
    /\ Set(r, [request[r] EXCEPT !.pc = "handling", !.object = r])
    /\ UNCHANGED <<storeVars, jar, restarts>>

----------------------------------------------------------------------------
(* The handlers, once they have their browserSession *)

\* validCSRF: the token is that of a page shown with this cookie. It may also
\* be that of an earlier one (Forbid).
HasToken(r) == request[r].id = request[r].cookie

Handling(r, kinds) == At(r, "handling") /\ request[r].kind \in kinds

Forbid(r) ==
    /\ Handling(r, {"login", "register", "logout", "turn"})
    /\ Answer(r, "forbidden")
    /\ UNCHANGED <<storeVars, sessions, jar, restarts>>

\* handleIndex
ShowPage(r) ==
    /\ Handling(r, {"index"})
    /\ Answer(r, "page")
    /\ UNCHANGED <<storeVars, sessions, jar, restarts>>

\* handleLoginForm and handleRegisterForm send a user back to the page.
ShowForm(r) ==
    /\ Handling(r, {"form"})
    /\ Answer(r, IF request[request[r].object].owner # Anonymous THEN "home" ELSE "page")
    /\ UNCHANGED <<storeVars, sessions, jar, restarts>>

\* handleLogin: no such user, or not this password.
LogIn(r) ==
    /\ Handling(r, {"login"}) /\ HasToken(r)
    /\ \/ HasUser(request[r].user) /\ Goto(r, "rotating")
       \/ Answer(r, "refused")
    /\ UNCHANGED <<storeVars, sessions, jar, restarts>>

\* handleRegister: the account exists from here on, whatever comes of the rotation.
Register(r) ==
    /\ Handling(r, {"register"}) /\ HasToken(r)
    /\ \/ InsertUser(request[r].user) /\ Goto(r, "rotating")
       \/ /\ HasUser(request[r].user) \/ Faults < MaxFaults
          /\ Answer(r, "refused") /\ UNCHANGED accounts
    /\ UNCHANGED <<rows, expired, defaults, sessions, jar, restarts>>

\* Mutant of Rotate: the deletion is not part of the transaction.
RotateDeletesFirst(r) ==
    /\ At(r, "rotating")
    /\ LET id == NewId(r, "rotated") IN
       \/ /\ RotateSession(request[r].id, id, request[r].user)
          /\ Set(r, [request[r] EXCEPT !.pc = "removing", !.setCookie = id, !.answer = "home"])
       \/ StoreFails(r) /\ DeleteSession(request[r].id)
    /\ UNCHANGED <<expired, accounts, defaults, sessions, jar, restarts>>

\* RotateBrowserSession, at the end of handleLogin and of handleRegister.
Rotate(r) ==
    /\ At(r, "rotating")
    /\ LET id == NewId(r, "rotated") IN
       \/ /\ RotateSession(request[r].id, id, request[r].user)
          /\ Set(r, [request[r] EXCEPT !.pc = "removing", !.setCookie = id, !.answer = "home"])
       \/ StoreFails(r) /\ UNCHANGED rows
    /\ UNCHANGED <<expired, accounts, defaults, sessions, jar, restarts>>

\* handleLogout and auth.Logout
LogOut(r) ==
    /\ Handling(r, {"logout"}) /\ HasToken(r)
    /\ \/ /\ DeleteSession(request[r].id)
          /\ Set(r, [request[r] EXCEPT !.pc = "removing", !.setCookie = Cleared,
                                       !.answer = "signin"])
       \/ StoreFails(r) /\ UNCHANGED rows
    /\ UNCHANGED <<expired, accounts, defaults, sessions, jar, restarts>>

\* removeBrowserSession
Remove(r) ==
    /\ At(r, "removing")
    /\ sessions' = [sessions EXCEPT ![request[r].id] = Nothing]
    /\ Goto(r, "answering")
    /\ UNCHANGED <<storeVars, jar, restarts>>

\* handleCreateTurn: the gate looks at the turns of this browserSession.
CreateTurn(r) ==
    /\ Handling(r, {"turn"}) /\ HasToken(r)
    /\ IF \E q \in Requests : request[q].turn = "running" /\ request[q].object = request[r].object
       THEN Answer(r, "conflict")
       ELSE Set(r, [request[r] EXCEPT !.pc = "answered", !.answer = "created",
                                      !.turn = "running"])
    /\ UNCHANGED <<storeVars, sessions, jar, restarts>>

\* handleTurnEvents and handleAbortTurn: browserSession.turn
FindTurn(r) ==
    /\ Handling(r, {"watch"})
    /\ Answer(r, IF request[request[r].target].object = request[r].object
                 THEN "found" ELSE "missing")
    /\ UNCHANGED <<storeVars, sessions, jar, restarts>>

\* The turn's goroutine ends; it needs neither the request nor the session.
EndTurn(r) ==
    /\ request[r].turn = "running"
    /\ Set(r, [request[r] EXCEPT !.turn = "over"])
    /\ UNCHANGED <<storeVars, sessions, jar, restarts>>

\* The response arrives, with its Set-Cookie header.
Respond(r) ==
    /\ At(r, "answering")
    /\ jar' = CASE request[r].setCookie = Nothing -> jar
                [] request[r].setCookie = Cleared -> Nothing
                [] OTHER -> request[r].setCookie
    /\ Set(r, [request[r] EXCEPT !.pc = "answered", !.setCookie = Nothing])
    /\ UNCHANGED <<storeVars, sessions, restarts>>

----------------------------------------------------------------------------
\* The clock passes the ExpiresAt of a session; the row stays. Only of a cookie
\* that is in use: it is when it is verified that its time matters.
Expire(id) ==
    /\ rows[id] # Absent /\ id \notin expired
    /\ id = jar \/ \E r \in Requests : At(r, "verifying") /\ request[r].cookie = id
    /\ Faults < MaxFaults
    /\ expired' = expired \cup {id}
    /\ UNCHANGED <<rows, accounts, defaults, sessions, jar, request, restarts>>

\* Requests in flight and turns die with the process; the store stays.
Restart ==
    /\ Faults < MaxFaults
    /\ restarts' = restarts + 1
    /\ sessions' = [id \in Ids |-> Nothing]
    /\ request' = [r \in Requests |->
                     [request[r] EXCEPT
                        !.pc = IF @ \in {"idle", "answered"} THEN @ ELSE "lost",
                        !.turn = IF @ = "running" THEN "lost" ELSE @]]
    /\ UNCHANGED <<storeVars, jar>>

Handle(r) ==
    \/ Forbid(r) \/ ShowPage(r) \/ ShowForm(r) \/ LogIn(r) \/ Register(r) \/ Rotate(r)
    \/ LogOut(r) \/ Remove(r) \/ CreateTurn(r) \/ FindTurn(r)

Next ==
    \/ \E r \in Requests :
          \/ Arrive(r) \/ VerifyPublic(r) \/ VerifyUser(r) \/ CreateAnonymous(r)
          \/ Lookup(r) \/ Load(r) \/ StoreEntry(r)
          \/ Handle(r) \/ Respond(r) \/ EndTurn(r)
    \/ \E id \in Ids : Expire(id)
    \/ Restart

Spec == Init /\ [][Next]_vars

----------------------------------------------------------------------------
(***************************************************************************)
(* Every variable holds a value of its type, and a default conversation    *)
(* is that of a registered user.                                           *)
(***************************************************************************)
TypeOK ==
    /\ rows \in [Ids -> Users \cup {Anonymous, Absent}]
    /\ expired \subseteq Ids
    /\ accounts \subseteq Users
    /\ defaults \subseteq accounts
    /\ sessions \in [Ids -> Requests \cup {Nothing}]
    /\ jar \in Ids \cup {Nothing}
    /\ request \in [Requests -> RequestFields]
    /\ restarts \in 0..MaxFaults

(***************************************************************************)
(* A handler works with a browserSession of the very session its cookie    *)
(* names, made for the user that session belongs to: a sign-in beside it   *)
(* never leaves it the anonymous one, nor that of another user.            *)
(***************************************************************************)
ServedAsStored ==
    \A r \in Requests :
        request[r].object # Nothing =>
            /\ request[request[r].object].id = request[r].id
            /\ request[request[r].object].owner = request[r].owner

\* The request has ended the session it came with.
Retires(r) ==
    /\ request[r].kind \in {"login", "register", "logout"}
    /\ request[r].answer \in {"home", "signin"}
    /\ request[r].id # Nothing

Retired(id) == \E r \in Requests : Retires(r) /\ request[r].id = id

Issued(id) ==
    \/ id = Boot /\ \E r \in Requests : request[r].cookie = Boot
    \/ \E r \in Requests : request[r].id = id
    \/ \E r \in Requests : Retires(r) /\ request[r].kind # "logout" /\ id = <<r, "rotated">>

(***************************************************************************)
(* A stored session ends when, and only when, a request that came with it  *)
(* signed in, registered or signed out: a rotation that fails leaves the   *)
(* form's session usable for the next attempt, and one that succeeds       *)
(* leaves no way back into the old session, whatever runs beside it.       *)
(* Types hold.                                                             *)
(***************************************************************************)
EndsWhenRetired ==
    /\ TypeOK
    /\ \A id \in Ids : Issued(id) => (rows[id] = Absent <=> Retired(id))

(***************************************************************************)
(* A turn that runs can be watched and stopped with the cookie it was      *)
(* started with, unless that session was ended by a request, or two first  *)
(* requests of it raced for its entry of the map.                          *)
(***************************************************************************)
Raced(id) ==
    \E q, r \in Requests :
        /\ q # r /\ q \notin request[r].after /\ r \notin request[q].after
        /\ request[q].id = id /\ request[q].object = q
        /\ request[r].id = id /\ request[r].object = r

RunningTurnIsReachable ==
    \A t \in Requests :
        request[t].turn = "running" =>
            \/ sessions[request[t].id] = request[t].object
            \/ Retired(request[t].id)
            \/ Raced(request[t].id)

(***************************************************************************)
(* A session has one turn at a time (TestCreateTurnRejectsConcurrentTurn,  *)
(* server_test.go), but for the same race, and behind the end of the       *)
(* session: two browserSessions of one cookie have a gate each.            *)
(***************************************************************************)
OneTurnPerSession ==
    \A t, u \in Requests :
        /\ request[t].turn = "running" /\ request[u].turn = "running"
        /\ request[t].id = request[u].id
        => t = u \/ Raced(request[t].id) \/ Retired(request[t].id)
=============================================================================
