----------------------- MODULE BrowserSessionsProofs ------------------------
(***************************************************************************)
(* Proofs about the sessions of a browser (BrowserSessions), for any       *)
(* finite number of requests, any users and any number of faults.          *)
(***************************************************************************)
EXTENDS BrowserSessions, FiniteSetTheorems, TLAPS

(***************************************************************************)
(* The inductive invariant. First, where a handler is fixes what it has    *)
(* been given so far, and it has no answer before its last step.           *)
(***************************************************************************)
Ended(k) ==
    k.kind \in {"login", "register", "logout"} /\ k.answer \in {"home", "signin"} /\ k.id # Nothing

Rotated(k) == Ended(k) /\ k.kind # "logout"

StageOf(r, k, users) ==
    /\ k.pc \in {"idle", "verifying", "creating"} => k.id = Nothing /\ k.setCookie = Nothing
    /\ k.pc \in {"idle", "verifying", "creating", "looking", "loading", "storing"}
         => k.object = Nothing
    /\ k.pc \in {"idle", "verifying", "creating", "looking", "loading", "storing",
                 "handling", "rotating"}
         => k.answer = "none" /\ k.turn = "none"
    /\ k.pc \in {"looking", "loading", "storing", "handling", "rotating", "removing"}
         => k.id # Nothing
    /\ k.pc = "verifying" => k.cookie # Nothing
    /\ k.pc # "idle" => k.user \in Users
    /\ k.pc = "rotating" => k.kind \in {"login", "register"} /\ k.user \in users
    /\ k.pc = "handling" => k.object # Nothing
    /\ k.pc = "removing" => Ended(k)
    /\ k.turn # "none" => k.object # Nothing /\ k.pc = "answered"
    /\ k.object # Nothing => k.id # Nothing
    /\ k.id # Nothing => k.owner \in users \cup {Anonymous}
    /\ k.setCookie \in Ids =>
          \/ k.setCookie = <<r, "public">> /\ k.id = <<r, "public">>
          \/ k.setCookie = <<r, "rotated">> /\ Rotated(k)

Staged == \A r \in Requests : StageOf(r, request[r], accounts)

(***************************************************************************)
(* Then, what identifies a session: every ID in use was made by the        *)
(* request it is named for, belongs to one user for ever, and is in the    *)
(* table until a request retires it.                                       *)
(***************************************************************************)
Made ==
    {id \in Ids :
        \/ id = Boot
        \/ \E r \in Requests : \/ id = <<r, "public">> /\ request[r].id = id
                               \/ id = <<r, "rotated">> /\ Rotated(request[r])}

UsesMade ==
    /\ jar \in Made \cup {Nothing}
    /\ \A r \in Requests : /\ request[r].cookie \in Made \cup {Nothing}
                           /\ request[r].id \in Made \cup {Nothing}

InUse(id) == jar = id \/ \E r \in Requests : request[r].cookie = id

RowsOwned ==
    /\ \A id \in Ids : rows[id] \in accounts \cup {Anonymous, Absent}
    /\ \A r \in Requests :
          request[r].id # Nothing => rows[request[r].id] \in {request[r].owner, Absent}

OneOwner ==
    \A q, r \in Requests : request[q].id # Nothing /\ request[q].id = request[r].id
                             => request[q].owner = request[r].owner

StoredUntilRetired ==
    /\ InUse(Boot) => Retired(Boot) \/ rows[Boot] # Absent
    /\ \A id \in Ids : /\ Retired(id) => rows[id] = Absent
                       /\ Issued(id) /\ ~Retired(id) => rows[id] # Absent

Identity == UsesMade /\ RowsOwned /\ OneOwner /\ StoredUntilRetired

(***************************************************************************)
(* Last, the map: an entry was made by a request of that session, and a    *)
(* handler works with the entry of now, unless another request that found  *)
(* no entry has stored its own since.                                      *)
(***************************************************************************)
Entries ==
    \A id \in Ids : sessions[id] # Nothing =>
        request[sessions[id]].id = id /\ request[sessions[id]].object = sessions[id]

Objects ==
    \A r \in Requests : request[r].object # Nothing =>
        /\ request[request[r].object].id = request[r].id
        /\ request[request[r].object].object = request[r].object

AfterAnswered ==
    \A q, r \in Requests : q \in request[r].after => request[q].pc = "answered"

LoadsBeside ==
    \A r \in Requests : request[r].pc \in {"loading", "storing"}
                          => sessions[request[r].id] \notin request[r].after

Works(k) == k.pc = "handling" \/ k.turn = "running"

WorksWithEntry ==
    \A r \in Requests : Works(request[r]) =>
        \/ sessions[request[r].id] = request[r].object
        \/ Retired(request[r].id)
        \/ Raced(request[r].id)

OneTurnPerObject ==
    \A t, u \in Requests :
        request[t].turn = "running" /\ request[u].turn = "running"
        /\ request[t].object = request[u].object => t = u

Mapped ==
    Entries /\ Objects /\ AfterAnswered /\ LoadsBeside /\ WorksWithEntry /\ OneTurnPerObject

SessionsInv == TypeOK /\ Staged /\ Identity /\ Mapped

----------------------------------------------------------------------------
(***************************************************************************)
(* A step of one request.                                                  *)
(***************************************************************************)
LEMMA Updated ==
    ASSUME TypeOK, Staged, NEW r \in Requests, NEW k \in RequestFields, Set(r, k),
           accounts \subseteq accounts', StageOf(r, k, accounts')
    PROVE  /\ request' \in [Requests -> RequestFields]
           /\ request'[r] = k /\ \A q \in Requests : q # r => request'[q] = request[q]
           /\ Staged'
<1>1. request \in [Requests -> RequestFields] BY DEF TypeOK
<1>2. request' = [request EXCEPT ![r] = k] BY DEF Set
<1>3. request'[r] = k /\ \A q \in Requests : q # r => request'[q] = request[q]
  BY <1>1, <1>2
<1>4. ASSUME NEW q \in Requests PROVE StageOf(q, request'[q], accounts')
  <2>1. CASE q = r BY <1>3, <2>1
  <2>2. CASE q # r
    <3>1. StageOf(q, request[q], accounts) BY DEF Staged
    <3>2. request'[q] = request[q] BY <1>3, <2>2
    <3>3. StageOf(q, request[q], accounts') BY <3>1 DEF StageOf
    <3> QED BY <3>2, <3>3
  <2> QED BY <2>1, <2>2
<1> QED BY <1>1, <1>2, <1>3, <1>4 DEF Staged

(***************************************************************************)
(* What identifies the sessions stays when nobody gets or ends one.        *)
(***************************************************************************)
LEMMA IdentityKept ==
    ASSUME Identity, rows' = rows, jar' = jar, accounts \subseteq accounts',
           \A q \in Requests : /\ request'[q].id = request[q].id
                               /\ request'[q].owner = request[q].owner
                               /\ request'[q].cookie = request[q].cookie
                               /\ Ended(request'[q]) <=> Ended(request[q])
                               /\ Ended(request[q]) => request'[q].kind = request[q].kind
    PROVE  Identity'
<1>1. \A q \in Requests : Retires(q) <=> Ended(request[q]) BY DEF Retires, Ended
<1>2. \A q \in Requests : Retires(q)' <=> Ended(request'[q]) BY DEF Retires, Ended
<1>3. Made' = Made BY DEF Made, Rotated
<1>4. \A id : Retired(id)' <=> Retired(id) BY <1>1, <1>2 DEF Retired
<1>5. \A id : Issued(id)' <=> Issued(id) BY <1>1, <1>2 DEF Issued
<1>6. UsesMade' BY <1>3 DEF Identity, UsesMade
<1>7. RowsOwned' BY DEF Identity, RowsOwned
<1>8. OneOwner' BY DEF Identity, OneOwner
<1>9. StoredUntilRetired' BY <1>4, <1>5 DEF Identity, StoredUntilRetired, InUse
<1> QED BY <1>6, <1>7, <1>8, <1>9 DEF Identity

(***************************************************************************)
(* Two requests that raced for an entry stay so.                           *)
(***************************************************************************)
LEMMA RacedStays ==
    ASSUME \A q \in Requests : /\ request[q].id \in Ids => request'[q].id = request[q].id
                               /\ request[q].object # Nothing => request'[q].object = request[q].object
                               /\ request[q].object # Nothing => request'[q].after = request[q].after,
           Nothing \notin Requests,
           NEW id \in Ids, Raced(id)
    PROVE  Raced(id)'
BY DEF Raced

(***************************************************************************)
(* The map is as good as it was when no entry changes, no handler's        *)
(* browserSession is replaced, and one that gets a browserSession, starts  *)
(* to load or starts to work finds what the map holds.                     *)
(***************************************************************************)
LEMMA MappedKept ==
    ASSUME TypeOK, Staged, Mapped, sessions' = sessions,
           \A q \in Requests :
              /\ request[q].id # Nothing => request'[q].id = request[q].id
              /\ request[q].object # Nothing => /\ request'[q].object = request[q].object
                                                /\ request'[q].after = request[q].after
              /\ Ended(request[q]) => Ended(request'[q])
              /\ request[q].pc = "answered" => request'[q].pc = "answered",
           \A q \in Requests :
              /\ \/ request'[q].object = request[q].object
                 \/ request'[q].id \in Ids /\ request'[q].object = sessions[request'[q].id]
              /\ \/ request'[q].after = request[q].after
                 \/ \A p \in request'[q].after : p \in Requests /\ request[p].pc = "answered"
              /\ request'[q].pc \in {"loading", "storing"} =>
                    /\ request'[q].after = request[q].after
                    /\ \/ request[q].pc \in {"loading", "storing"}
                       \/ request'[q].id \in Ids /\ sessions[request'[q].id] = Nothing
              /\ Works(request'[q]) => \/ Works(request[q])
                                       \/ sessions[request'[q].id] = request'[q].object,
           OneTurnPerObject'
    PROVE  Mapped'
<1> USE NamesAssumption
<1>0. /\ request \in [Requests -> RequestFields] /\ sessions \in [Ids -> Requests \cup {Nothing}]
      /\ \A q \in Requests : StageOf(q, request[q], accounts)
      /\ Entries /\ Objects /\ AfterAnswered /\ LoadsBeside /\ WorksWithEntry
  BY DEF TypeOK, Staged, Mapped
<1> HIDE DEF Ids
<1>1. ASSUME NEW q \in Requests, request[q].object # Nothing
      PROVE  /\ request[q].id # Nothing /\ request[q].id \in Ids
             /\ request'[q].id = request[q].id /\ request'[q].object = request[q].object
  <2>1. request[q].id # Nothing BY <1>0, <1>1 DEF StageOf
  <2> QED BY <1>0, <1>1, <2>1 DEF RequestFields
<1>2. ASSUME NEW id \in Ids PROVE (Retired(id) => Retired(id)') /\ (Raced(id) => Raced(id)')
  <2>1. ASSUME NEW q \in Requests, Retires(q), request[q].id = id
        PROVE  Retires(q)' /\ request'[q].id = id
    <3>1. Ended(request[q]) BY <2>1 DEF Retires, Ended
    <3>2. Ended(request'[q]) /\ request'[q].id = id BY <2>1, <3>1 DEF Ended
    <3> QED BY <3>2 DEF Retires, Ended
  <2>2. \A q \in Requests : /\ request[q].id \in Ids => request'[q].id = request[q].id
                            /\ request[q].object # Nothing => request'[q].object = request[q].object
                            /\ request[q].object # Nothing => request'[q].after = request[q].after
    OBVIOUS
  <2>3. Raced(id) => Raced(id)'
    <3> SUFFICES ASSUME Raced(id) PROVE Raced(id)' OBVIOUS
    <3> QED BY ONLY <2>2, NamesAssumption, Raced(id), id \in Ids, RacedStays
  <2> QED BY <2>1, <2>3 DEF Retired
<1>3. ASSUME NEW id \in Ids, sessions[id] # Nothing
      PROVE  /\ sessions[id] \in Requests
             /\ request'[sessions[id]].id = id
             /\ request'[sessions[id]].object = sessions[id]
  <2>1. sessions[id] \in Requests BY <1>0, <1>3
  <2>2. request[sessions[id]].id = id /\ request[sessions[id]].object = sessions[id]
    BY <1>0, <1>3 DEF Entries
  <2> QED BY <1>1, <1>3, <2>1, <2>2
<1>4. Objects'
  <2> SUFFICES ASSUME NEW q \in Requests, request'[q].object # Nothing
               PROVE  /\ request'[request'[q].object].id = request'[q].id
                      /\ request'[request'[q].object].object = request'[q].object
    BY DEF Objects
  <2>1. CASE request'[q].object # request[q].object BY <1>3, <2>1
  <2>2. CASE request'[q].object = request[q].object
    <3>1. request[q].object \in Requests BY <1>0, <2>2 DEF RequestFields
    <3>2. /\ request[request[q].object].id = request[q].id
          /\ request[request[q].object].object = request[q].object
      BY <1>0, <2>2 DEF Objects
    <3> QED BY <1>1, <2>2, <3>1, <3>2
  <2> QED BY <2>1, <2>2
<1>5. AfterAnswered'
  <2> SUFFICES ASSUME NEW p \in Requests, NEW q \in Requests, p \in request'[q].after
               PROVE  request'[p].pc = "answered"
    BY DEF AfterAnswered
  <2>1. request[p].pc = "answered" BY <1>0 DEF AfterAnswered
  <2> QED BY <2>1
<1>6. LoadsBeside'
  <2> SUFFICES ASSUME NEW q \in Requests, request'[q].pc \in {"loading", "storing"}
               PROVE  sessions[request'[q].id] \notin request'[q].after
    BY DEF LoadsBeside
  <2>0. request[q].after \subseteq Requests /\ request'[q].after = request[q].after
    BY <1>0 DEF RequestFields
  <2>1. CASE request[q].pc \in {"loading", "storing"}
    <3>1. request[q].id # Nothing BY <1>0, <2>1 DEF StageOf
    <3> QED BY <1>0, <2>0, <2>1, <3>1 DEF LoadsBeside
  <2>2. CASE sessions[request'[q].id] = Nothing BY <2>0, <2>2
  <2> QED BY <2>1, <2>2
<1>7. WorksWithEntry'
  <2> SUFFICES ASSUME NEW q \in Requests, Works(request[q])'
               PROVE  (\/ sessions[request[q].id] = request[q].object
                       \/ Retired(request[q].id) \/ Raced(request[q].id))'
    BY DEF WorksWithEntry
  <2>1. CASE sessions[request'[q].id] = request'[q].object BY <2>1
  <2>2. CASE Works(request[q])
    <3>1. request[q].object # Nothing BY <1>0, <2>2 DEF StageOf, Works
    <3>2. /\ request[q].id \in Ids /\ request'[q].id = request[q].id
          /\ request'[q].object = request[q].object
      BY <1>1, <3>1
    <3>3. \/ sessions[request[q].id] = request[q].object
          \/ Retired(request[q].id) \/ Raced(request[q].id)
      BY <1>0, <2>2 DEF WorksWithEntry
    <3> DEFINE id == request[q].id
    <3>4. id' = id BY <3>2
    <3>5. (Retired(id) => Retired(id)') /\ (Raced(id) => Raced(id)')
      BY <1>2, <3>2, <3>4 DEF Retired, Raced
    <3> QED BY <3>2, <3>3, <3>4, <3>5
  <2> QED BY <2>1, <2>2 DEF Works
<1>8. Entries' BY <1>3 DEF Entries
<1> QED BY <1>4, <1>5, <1>6, <1>7, <1>8 DEF Mapped

----------------------------------------------------------------------------
(***************************************************************************)
(* A step of a handler that gets it no session, no browserSession and no   *)
(* turn, and ends no session.                                              *)
(***************************************************************************)
LEMMA QuietStep ==
    ASSUME SessionsInv, NEW r \in Requests, NEW k \in RequestFields, Set(r, k),
           rows' = rows, expired' = expired, sessions' = sessions, jar' = jar,
           restarts' = restarts,
           accounts \subseteq accounts', accounts' \subseteq Users, defaults' \subseteq accounts',
           StageOf(r, k, accounts'),
           k.id = request[r].id, k.owner = request[r].owner, k.cookie = request[r].cookie,
           k.object = request[r].object, k.after = request[r].after, k.kind = request[r].kind,
           Ended(k) <=> Ended(request[r]),
           request[r].pc = "answered" => k.pc = "answered",
           k.pc \in {"loading", "storing"} => request[r].pc \in {"loading", "storing"},
           Works(k) => Works(request[r]), k.turn = "running" => request[r].turn = "running"
    PROVE  SessionsInv'
<1>1. TypeOK /\ Staged /\ Identity /\ Mapped BY DEF SessionsInv
<1>2. /\ request' \in [Requests -> RequestFields]
      /\ request'[r] = k /\ \A q \in Requests : q # r => request'[q] = request[q]
      /\ Staged'
  BY <1>1, Updated
<1>3. TypeOK' BY <1>1, <1>2 DEF TypeOK
<1>4. ASSUME NEW q \in Requests
      PROVE  /\ request'[q].id = request[q].id /\ request'[q].owner = request[q].owner
             /\ request'[q].cookie = request[q].cookie /\ request'[q].kind = request[q].kind
             /\ request'[q].object = request[q].object /\ request'[q].after = request[q].after
             /\ Ended(request'[q]) <=> Ended(request[q])
             /\ request[q].pc = "answered" => request'[q].pc = "answered"
             /\ request'[q].pc \in {"loading", "storing"} => request[q].pc \in {"loading", "storing"}
             /\ Works(request'[q]) => Works(request[q])
             /\ request'[q].turn = "running" => request[q].turn = "running"
  BY <1>2
<1>5. Identity' BY <1>1, <1>4, IdentityKept
<1>6. OneTurnPerObject' BY <1>1, <1>4 DEF Mapped, OneTurnPerObject
<1>7. Mapped' BY <1>1, <1>4, <1>6, MappedKept
<1> QED BY <1>2, <1>3, <1>5, <1>7 DEF SessionsInv

(***************************************************************************)
(* A handler answers without having ended its session.                     *)
(***************************************************************************)
LEMMA AnswerStep ==
    ASSUME SessionsInv, NEW r \in Requests, NEW answer, Answer(r, answer),
           request[r].pc \in {"verifying", "creating", "loading", "handling", "rotating"},
           answer \in {"page", "home", "signin", "refused", "forbidden", "error",
                       "conflict", "found", "missing"},
           request[r].kind \in {"login", "register", "logout"} => answer \notin {"home", "signin"},
           UNCHANGED <<storeVars, sessions, jar, restarts>>
    PROVE  SessionsInv'
<1> DEFINE pc == Responding(request[r])
           k == [request[r] EXCEPT !.pc = pc, !.answer = answer]
<1>1. /\ request[r] \in RequestFields /\ StageOf(r, request[r], accounts)
      /\ accounts \subseteq Users /\ defaults \subseteq accounts
  BY DEF SessionsInv, TypeOK, Staged
<1>2. Set(r, k) BY DEF Answer
<1>0. pc \in {"answered", "answering"} BY DEF Responding
<1> HIDE DEF pc
<1>3. /\ k.answer = answer /\ k.pc \in {"answered", "answering"}
      /\ k.id = request[r].id /\ k.owner = request[r].owner /\ k.cookie = request[r].cookie
      /\ k.object = request[r].object /\ k.after = request[r].after /\ k.kind = request[r].kind
      /\ k.turn = request[r].turn /\ k.user = request[r].user
      /\ k.setCookie = request[r].setCookie
  BY <1>0, <1>1 DEF RequestFields
<1>9. k \in RequestFields
  <2> DEFINE s == [request[r] EXCEPT !.pc = pc]
  <2>1. s \in RequestFields BY <1>0, <1>1 DEF RequestFields
  <2>2. k = [s EXCEPT !.answer = answer] BY <1>1 DEF RequestFields
  <2>3. answer \in {"none", "page", "home", "signin", "refused", "forbidden", "error",
                    "created", "conflict", "found", "missing"}
    OBVIOUS
  <2> HIDE DEF s, k
  <2> QED BY <2>1, <2>2, <2>3 DEF RequestFields
<1> HIDE DEF k
<1>4. /\ rows' = rows /\ expired' = expired /\ sessions' = sessions /\ jar' = jar
      /\ restarts' = restarts /\ accounts' = accounts /\ defaults' = defaults
  BY DEF storeVars
<1>5. request[r].answer = "none" /\ request[r].turn = "none" BY <1>1 DEF StageOf
<1>6. ~Ended(k) /\ ~Ended(request[r]) BY <1>3, <1>5 DEF Ended
<1>7. StageOf(r, k, accounts) BY <1>1, <1>3, <1>5, <1>6 DEF StageOf, Rotated
<1>8. ~Works(k) /\ k.turn # "running" BY <1>3, <1>5 DEF Works
<1> QED BY <1>1, <1>2, <1>3, <1>4, <1>6, <1>7, <1>8, <1>9, QuietStep

(***************************************************************************)
(* A handler moves on.                                                     *)
(***************************************************************************)
LEMMA GotoStep ==
    ASSUME SessionsInv, NEW r \in Requests, NEW pc, Goto(r, pc),
           \/ request[r].pc = "verifying" /\ pc = "creating"
           \/ request[r].pc = "loading" /\ pc = "storing"
           \/ /\ request[r].pc = "handling" /\ pc = "rotating"
              /\ request[r].kind \in {"login", "register"} /\ request[r].user \in accounts',
           rows' = rows, expired' = expired, sessions' = sessions, jar' = jar,
           restarts' = restarts,
           accounts \subseteq accounts', accounts' \subseteq Users, defaults' \subseteq accounts'
    PROVE  SessionsInv'
<1> DEFINE k == [request[r] EXCEPT !.pc = pc]
<1>1. request[r] \in RequestFields /\ StageOf(r, request[r], accounts)
  BY DEF SessionsInv, TypeOK, Staged
<1>2. Set(r, k) BY DEF Goto
<1>3. /\ k \in RequestFields /\ k.pc = pc
      /\ k.id = request[r].id /\ k.owner = request[r].owner /\ k.cookie = request[r].cookie
      /\ k.object = request[r].object /\ k.after = request[r].after /\ k.kind = request[r].kind
      /\ k.turn = request[r].turn /\ k.user = request[r].user
      /\ k.setCookie = request[r].setCookie /\ k.answer = request[r].answer
  BY <1>1 DEF RequestFields
<1> HIDE DEF k
<1>4. Ended(k) <=> Ended(request[r]) BY <1>3 DEF Ended
<1>5. request[r].turn = "none" BY <1>1 DEF StageOf
<1>6. StageOf(r, k, accounts') BY <1>1, <1>3, <1>4 DEF StageOf, Rotated
<1>7. ~Works(k) /\ k.turn # "running" BY <1>3, <1>5 DEF Works
<1>8. /\ request[r].pc # "answered"
      /\ k.pc \in {"loading", "storing"} => request[r].pc \in {"loading", "storing"}
  BY <1>3
<1> QED BY <1>2, <1>3, <1>4, <1>6, <1>7, <1>8, QuietStep

----------------------------------------------------------------------------
(***************************************************************************)
(* The steps of publicSession and authenticatedSession.                    *)
(***************************************************************************)
LEMMA ArriveKeeps ==
    ASSUME SessionsInv, NEW r \in Requests, Arrive(r)
    PROVE  SessionsInv'
<1> USE NamesAssumption
<1>1. TypeOK /\ Staged /\ Identity /\ Mapped BY DEF SessionsInv
<1>2. /\ request \in [Requests -> RequestFields] /\ request[r] \in RequestFields
      /\ request[r].pc = "idle" /\ StageOf(r, request[r], accounts) /\ jar \in Ids \cup {Nothing}
  BY <1>1 DEF Arrive, At, TypeOK, Staged
<1>3. /\ rows' = rows /\ expired' = expired /\ sessions' = sessions /\ jar' = jar
      /\ restarts' = restarts /\ accounts' = accounts /\ defaults' = defaults
  BY DEF Arrive, storeVars
<1> DEFINE arrived(kind, user, target) ==
               [request[r] EXCEPT !.kind = kind, !.cookie = jar, !.user = user, !.target = target,
                                  !.after = {q \in Requests : At(q, "answered")}]
<1>4. PICK kind \in Kinds, user \in Users, target \in Requests :
         \/ /\ jar # Nothing
            /\ Set(r, [arrived(kind, user, target) EXCEPT !.pc = "verifying"])
         \/ /\ jar = Nothing /\ kind \in Public
            /\ Set(r, [arrived(kind, user, target) EXCEPT !.pc = "creating"])
         \/ /\ jar = Nothing /\ kind \notin Public
            /\ Set(r, [arrived(kind, user, target) EXCEPT !.pc = "answered", !.answer = "signin"])
  BY DEF Arrive
<1>5. PICK k : /\ k \in RequestFields /\ Set(r, k) /\ k.cookie = jar /\ k.user \in Users
               /\ k.pc \in {"verifying", "creating", "answered"} /\ (k.pc = "verifying" => jar # Nothing)
               /\ k.id = request[r].id /\ k.owner = request[r].owner
               /\ k.object = request[r].object /\ k.turn = request[r].turn
               /\ k.setCookie = request[r].setCookie
               /\ k.pc # "answered" => k.answer = request[r].answer
               /\ k.after = {q \in Requests : At(q, "answered")}
  <2> DEFINE a == arrived(kind, user, target)
  <2>1. /\ a \in RequestFields /\ a.cookie = jar /\ a.user \in Users /\ a.id = request[r].id
        /\ a.owner = request[r].owner /\ a.object = request[r].object
        /\ a.turn = request[r].turn /\ a.setCookie = request[r].setCookie
        /\ a.answer = request[r].answer /\ a.after = {q \in Requests : At(q, "answered")}
    BY <1>2 DEF RequestFields
  <2> HIDE DEF a
  <2>2. CASE jar # Nothing /\ Set(r, [a EXCEPT !.pc = "verifying"])
    <3> DEFINE k == [a EXCEPT !.pc = "verifying"]
    <3> k \in RequestFields BY <2>1 DEF RequestFields
    <3> QED BY <2>1, <2>2 DEF RequestFields
  <2>3. CASE jar = Nothing /\ Set(r, [a EXCEPT !.pc = "creating"])
    <3> DEFINE k == [a EXCEPT !.pc = "creating"]
    <3> k \in RequestFields BY <2>1 DEF RequestFields
    <3> QED BY <2>1, <2>3 DEF RequestFields
  <2>4. CASE jar = Nothing /\ Set(r, [a EXCEPT !.pc = "answered", !.answer = "signin"])
    <3> DEFINE b == [a EXCEPT !.pc = "answered"]
               k == [b EXCEPT !.answer = "signin"]
    <3>1. b \in RequestFields /\ b.pc = "answered" BY <2>1 DEF RequestFields
    <3>2. /\ b.cookie = jar /\ b.user \in Users /\ b.id = request[r].id /\ b.owner = request[r].owner
          /\ b.object = request[r].object /\ b.turn = request[r].turn
          /\ b.setCookie = request[r].setCookie
          /\ b.after = {q \in Requests : At(q, "answered")}
      BY <2>1 DEF RequestFields
    <3>3. k = [a EXCEPT !.pc = "answered", !.answer = "signin"] BY <2>1 DEF RequestFields
    <3>4. Set(r, k) BY <2>4, <3>3
    <3> HIDE DEF b
    <3>5. k \in RequestFields BY <3>1 DEF RequestFields
    <3>6. /\ k.cookie = jar /\ k.user \in Users /\ k.id = request[r].id /\ k.owner = request[r].owner
          /\ k.object = request[r].object /\ k.turn = request[r].turn
          /\ k.setCookie = request[r].setCookie /\ k.pc = "answered"
          /\ k.after = {q \in Requests : At(q, "answered")}
      BY <3>1, <3>2 DEF RequestFields
    <3> HIDE DEF k
    <3> QED BY <3>4, <3>5, <3>6
  <2> QED BY <1>4, <2>2, <2>3, <2>4 DEF a
<1>6. /\ k.id = Nothing /\ k.object = Nothing /\ k.turn = "none" /\ k.setCookie = Nothing
      /\ request[r].id = Nothing /\ request[r].object = Nothing
      /\ k.pc # "answered" => k.answer = "none"
  BY <1>2, <1>5 DEF StageOf
<1>7. ~Ended(k) /\ ~Ended(request[r]) BY <1>6 DEF Ended
<1>8. StageOf(r, k, accounts) BY <1>5, <1>6 DEF StageOf
<1>9. /\ request' \in [Requests -> RequestFields]
      /\ request'[r] = k /\ \A q \in Requests : q # r => request'[q] = request[q]
      /\ Staged'
  BY <1>1, <1>3, <1>5, <1>8, Updated
<1>10. TypeOK' BY <1>1, <1>3, <1>9 DEF TypeOK
<1>11. \A q \in Requests :
          /\ request'[q].id = request[q].id /\ request'[q].owner = request[q].owner
          /\ request'[q].object = request[q].object /\ request'[q].turn = request[q].turn
          /\ Ended(request'[q]) <=> Ended(request[q])
          /\ Ended(request[q]) => request'[q].kind = request[q].kind
          /\ request'[q].cookie \in {request[q].cookie, jar}
          /\ request[q].object # Nothing => request'[q].after = request[q].after
          /\ request[q].pc = "answered" => request'[q].pc = "answered"
          /\ \/ request'[q].after = request[q].after
             \/ \A p \in request'[q].after : p \in Requests /\ request[p].pc = "answered"
          /\ request'[q].pc \in {"loading", "storing"} =>
                /\ request'[q].after = request[q].after
                /\ request[q].pc \in {"loading", "storing"}
          /\ Works(request'[q]) => Works(request[q])
  <2> SUFFICES ASSUME NEW q \in Requests PROVE <1>11!(q) OBVIOUS
  <2>1. CASE q = r
    <3>1. \A p \in k.after : p \in Requests /\ request[p].pc = "answered" BY <1>5 DEF At
    <3> QED BY <1>2, <1>5, <1>6, <1>7, <1>9, <2>1, <3>1 DEF Works
  <2>2. CASE q # r BY <1>9, <2>2
  <2> QED BY <2>1, <2>2
<1>12. Identity'
  <2>1. \A q \in Requests : Retires(q)' <=> Retires(q)
    BY <1>11 DEF Retires, Ended
  <2>2. \A id : Retired(id)' <=> Retired(id) BY <1>11, <2>1 DEF Retired
  <2>3. Made' = Made BY <1>11 DEF Made, Rotated
  <2>4. \A id : InUse(id)' => InUse(id) BY <1>3, <1>11 DEF InUse
  <2>5. ASSUME NEW id \in Ids, Issued(id)' PROVE Issued(id) \/ (id = Boot /\ InUse(Boot))
    <3>1. \A q \in Requests : Retires(q)' => request'[q].kind = request[q].kind
      BY <1>11, <2>1 DEF Retires, Ended
    <3> QED BY <1>11, <2>1, <2>4, <2>5, <3>1 DEF Issued, InUse
  <2>6. UsesMade' BY <1>1, <1>3, <1>11, <2>3 DEF Identity, UsesMade
  <2>7. RowsOwned' BY <1>1, <1>3, <1>11 DEF Identity, RowsOwned
  <2>8. OneOwner' BY <1>1, <1>11 DEF Identity, OneOwner
  <2>9. StoredUntilRetired' BY <1>1, <1>3, <2>2, <2>4, <2>5 DEF Identity, StoredUntilRetired
  <2> QED BY <2>6, <2>7, <2>8, <2>9 DEF Identity
<1>13. OneTurnPerObject' BY <1>1, <1>11 DEF Mapped, OneTurnPerObject
<1>14. Mapped' BY <1>1, <1>3, <1>11, <1>13, MappedKept
<1> QED BY <1>9, <1>10, <1>12, <1>14 DEF SessionsInv

(***************************************************************************)
(* A request whose cookie is accepted gets the session the table has under *)
(* it, so the owner of that session is the one others were given.          *)
(***************************************************************************)
LEMMA AdmitKeeps ==
    ASSUME SessionsInv, NEW r \in Requests, request[r].pc = "verifying",
           Valid(request[r].cookie), Admit(r, request[r].cookie),
           UNCHANGED <<storeVars, sessions, jar, restarts>>
    PROVE  SessionsInv'
<1> USE NamesAssumption
<1>1. TypeOK /\ Staged /\ Identity /\ Mapped BY DEF SessionsInv
<1>2. /\ request \in [Requests -> RequestFields] /\ request[r] \in RequestFields
      /\ StageOf(r, request[r], accounts) /\ rows \in [Ids -> Users \cup {Anonymous, Absent}]
  BY <1>1 DEF TypeOK, Staged
<1>3. /\ rows' = rows /\ expired' = expired /\ sessions' = sessions /\ jar' = jar
      /\ restarts' = restarts /\ accounts' = accounts /\ defaults' = defaults
  BY DEF storeVars
<1> DEFINE id == request[r].cookie
           owner == rows[id]
           k == [request[r] EXCEPT !.pc = "looking", !.id = id, !.owner = owner]
<1>4. /\ id \in Ids /\ id # Nothing /\ rows[id] # Absent
      /\ request[r].id = Nothing /\ request[r].object = Nothing /\ request[r].turn = "none"
      /\ request[r].setCookie = Nothing /\ request[r].answer = "none"
  BY <1>2 DEF StageOf, RequestFields, Valid, SessionByID
<1>5. owner \in accounts \cup {Anonymous} /\ owner \in Users \cup {Anonymous}
  BY <1>1, <1>4 DEF Identity, RowsOwned, TypeOK
<1>6. Set(r, k) BY DEF Admit, SessionByID
<1> HIDE DEF id, owner
<1>7. /\ k.pc = "looking" /\ k.id = id /\ k.owner = owner
      /\ k.cookie = request[r].cookie /\ k.object = request[r].object
      /\ k.after = request[r].after /\ k.turn = request[r].turn
      /\ k.setCookie = request[r].setCookie /\ k.answer = request[r].answer
      /\ k.user = request[r].user
  BY <1>2 DEF RequestFields
<1>16. k \in RequestFields
  <2> DEFINE a == [request[r] EXCEPT !.pc = "looking"]
             b == [a EXCEPT !.id = id]
  <2>1. k = [b EXCEPT !.owner = owner] BY <1>2 DEF RequestFields
  <2>2. a \in RequestFields BY <1>2 DEF RequestFields
  <2> HIDE DEF a, k
  <2>3. b \in RequestFields BY <1>4, <2>2 DEF RequestFields
  <2> HIDE DEF b
  <2> QED BY <1>5, <2>1, <2>3 DEF RequestFields
<1> HIDE DEF k
<1>8. ~Ended(k) /\ ~Ended(request[r]) BY <1>4, <1>7 DEF Ended
<1>9. StageOf(r, k, accounts)
  <2> HIDE DEF Ids
  <2>1. k.user \in Users BY <1>2, <1>7 DEF StageOf
  <2>2. k.setCookie \notin Ids BY <1>4, <1>7, NamesAssumption
  <2> QED BY <1>4, <1>5, <1>7, <2>1, <2>2 DEF StageOf
<1>10. /\ request' \in [Requests -> RequestFields]
       /\ request'[r] = k /\ \A q \in Requests : q # r => request'[q] = request[q]
       /\ Staged'
  BY <1>1, <1>3, <1>6, <1>16, <1>9, Updated
<1>11. TypeOK' BY <1>1, <1>3, <1>10 DEF TypeOK
<1>12. \A q \in Requests :
          /\ request[q].id # Nothing => /\ request'[q].id = request[q].id
                                        /\ request'[q].owner = request[q].owner
          /\ request'[q].id # request[q].id => request'[q].id = id /\ request'[q].owner = owner
          /\ request'[q].object = request[q].object /\ request'[q].turn = request[q].turn
          /\ request'[q].after = request[q].after /\ request'[q].cookie = request[q].cookie
          /\ Ended(request'[q]) <=> Ended(request[q])
          /\ Ended(request[q]) => request'[q] = request[q]
          /\ request[q].pc = "answered" => request'[q].pc = "answered"
          /\ request'[q].pc \in {"loading", "storing"} => request[q].pc \in {"loading", "storing"}
          /\ Works(request'[q]) => Works(request[q])
  <2> SUFFICES ASSUME NEW q \in Requests PROVE <1>12!(q) OBVIOUS
  <2>1. CASE q = r BY <1>4, <1>7, <1>8, <1>10, <2>1 DEF Works
  <2>2. CASE q # r BY <1>10, <2>2
  <2> QED BY <2>1, <2>2
<1>13. Identity'
  <2>1. \A q \in Requests : /\ Retires(q)' <=> Retires(q)
                            /\ Retires(q) => request'[q] = request[q]
    BY <1>12 DEF Retires, Ended
  <2>2. \A x : Retired(x)' <=> Retired(x) BY <2>1 DEF Retired
  <2>3. Made \subseteq Made' BY <1>12 DEF Made, Rotated
  <2>4. id \in Made BY <1>1, <1>4 DEF Identity, UsesMade, id
  <2>5. \A x : InUse(x)' <=> InUse(x) BY <1>3, <1>12 DEF InUse
  <2>6. ASSUME NEW x \in Ids, Issued(x)' PROVE Issued(x) \/ x = id
    BY <1>12, <2>1, <2>6 DEF Issued
  <2>7. UsesMade'
    <3> SUFFICES ASSUME NEW q \in Requests
                 PROVE  /\ jar' \in Made' \cup {Nothing}
                        /\ request'[q].cookie \in Made' \cup {Nothing}
                        /\ request'[q].id \in Made' \cup {Nothing}
      BY DEF UsesMade
    <3>1. /\ jar \in Made \cup {Nothing} /\ request[q].cookie \in Made \cup {Nothing}
          /\ request[q].id \in Made \cup {Nothing}
      BY <1>1 DEF Identity, UsesMade
    <3> QED BY <1>3, <1>12, <2>3, <2>4, <3>1
  <2>8. RowsOwned' BY <1>1, <1>3, <1>12 DEF Identity, RowsOwned, owner
  <2>9. OneOwner'
    <3>1. \A q \in Requests : request'[q].id = id /\ id # Nothing => request'[q].owner = owner
      BY <1>1, <1>4, <1>12 DEF Identity, RowsOwned, owner
    <3> QED BY <1>1, <1>4, <1>12, <3>1 DEF Identity, OneOwner
  <2>10. StoredUntilRetired'
    BY <1>1, <1>3, <1>4, <2>2, <2>5, <2>6 DEF Identity, StoredUntilRetired
  <2> QED BY <2>7, <2>8, <2>9, <2>10 DEF Identity
<1>14. OneTurnPerObject' BY <1>1, <1>12 DEF Mapped, OneTurnPerObject
<1>15. Mapped' BY <1>1, <1>3, <1>12, <1>14, MappedKept
<1> QED BY <1>10, <1>11, <1>13, <1>15 DEF SessionsInv

(***************************************************************************)
(* The verification of a cookie, whatever comes of it.                     *)
(***************************************************************************)
LEMMA VerifyKeeps ==
    ASSUME SessionsInv, NEW r \in Requests, VerifyPublic(r) \/ VerifyUser(r)
    PROVE  SessionsInv'
<1> USE NamesAssumption
<1>1. /\ request[r].pc = "verifying" /\ request[r] \in RequestFields
      /\ StageOf(r, request[r], accounts) /\ accounts \subseteq Users /\ defaults \subseteq accounts
  BY DEF SessionsInv, TypeOK, Staged, VerifyPublic, VerifyUser, At
<1>2. UNCHANGED <<storeVars, sessions, jar, restarts>> BY DEF VerifyPublic, VerifyUser
<1>3. /\ rows' = rows /\ expired' = expired /\ sessions' = sessions /\ jar' = jar
      /\ restarts' = restarts /\ accounts' = accounts /\ defaults' = defaults
  BY <1>2 DEF storeVars
<1>4. CASE Valid(request[r].cookie) /\ Admit(r, request[r].cookie)
  BY <1>1, <1>2, <1>4, AdmitKeeps
<1>5. CASE Goto(r, "creating") BY <1>1, <1>3, <1>5, GotoStep
<1>6. CASE StoreFails(r) BY <1>1, <1>2, <1>6, AnswerStep DEF StoreFails
<1>7. CASE Answer(r, "signin") /\ request[r].kind \notin Public
  BY <1>1, <1>2, <1>7, AnswerStep DEF Public
<1>8. CASE /\ request[r].kind \notin Public
           /\ Set(r, [request[r] EXCEPT !.pc = "answering", !.answer = "signin",
                                        !.setCookie = Cleared])
  <2> DEFINE a == [request[r] EXCEPT !.pc = "answering"]
             b == [a EXCEPT !.answer = "signin"]
             k == [b EXCEPT !.setCookie = Cleared]
  <2>1. k = [request[r] EXCEPT !.pc = "answering", !.answer = "signin", !.setCookie = Cleared]
    BY <1>1 DEF RequestFields
  <2>2. a \in RequestFields BY <1>1 DEF RequestFields
  <2>3. /\ k.pc = "answering" /\ k.setCookie = Cleared /\ k.kind = request[r].kind
        /\ k.id = request[r].id /\ k.owner = request[r].owner /\ k.cookie = request[r].cookie
        /\ k.object = request[r].object /\ k.after = request[r].after /\ k.turn = request[r].turn
        /\ k.user = request[r].user
    BY <1>1 DEF RequestFields
  <2> HIDE DEF a
  <2>4. b \in RequestFields BY <2>2 DEF RequestFields
  <2> HIDE DEF b
  <2>5. k \in RequestFields BY <2>4 DEF RequestFields
  <2>6. Set(r, k) BY <1>8, <2>1
  <2> HIDE DEF k
  <2>7. ~Ended(k) /\ ~Ended(request[r]) BY <1>8, <2>3 DEF Ended, Public
  <2>8. request[r].turn = "none" BY <1>1 DEF StageOf
  <2>9. StageOf(r, k, accounts) BY <1>1, <2>3, <2>8 DEF StageOf
  <2>10. ~Works(k) /\ k.turn # "running" BY <2>3, <2>8 DEF Works
  <2> QED BY <1>1, <1>3, <2>3, <2>5, <2>6, <2>7, <2>9, <2>10, QuietStep
<1>9. CASE VerifyPublic(r) BY <1>4, <1>5, <1>6, <1>9 DEF VerifyPublic
<1>10. CASE VerifyUser(r) BY <1>4, <1>6, <1>7, <1>8, <1>10 DEF VerifyUser
<1> QED BY <1>9, <1>10

(***************************************************************************)
(* A new session: nobody has its ID yet.                                   *)
(***************************************************************************)
LEMMA CreateAnonymousKeeps ==
    ASSUME SessionsInv, NEW r \in Requests, CreateAnonymous(r)
    PROVE  SessionsInv'
<1> USE NamesAssumption
<1>1. TypeOK /\ Staged /\ Identity /\ Mapped BY DEF SessionsInv
<1>2. /\ request \in [Requests -> RequestFields] /\ request[r] \in RequestFields
      /\ StageOf(r, request[r], accounts) /\ rows \in [Ids -> Users \cup {Anonymous, Absent}]
      /\ request[r].pc = "creating"
  BY <1>1 DEF TypeOK, Staged, CreateAnonymous, At
<1>3. /\ expired' = expired /\ sessions' = sessions /\ jar' = jar
      /\ restarts' = restarts /\ accounts' = accounts /\ defaults' = defaults
  BY DEF CreateAnonymous
<1>4. CASE StoreFails(r) /\ UNCHANGED rows
  BY <1>2, <1>3, <1>4, AnswerStep DEF StoreFails, storeVars
<1> DEFINE id == <<r, "public">>
           k == [request[r] EXCEPT !.pc = "looking", !.id = id, !.owner = Anonymous,
                                   !.setCookie = id]
<1>5. CASE rows' = [rows EXCEPT ![id] = Anonymous] /\ Set(r, k)
  <2>1. /\ id \in Ids /\ id # Nothing /\ id # Boot /\ \A q \in Requests : id # <<q, "rotated">>
        /\ request[r].id = Nothing /\ request[r].object = Nothing /\ request[r].turn = "none"
        /\ request[r].answer = "none"
    BY <1>2 DEF StageOf, Ids
  <2>2. id \notin Made BY <2>1 DEF Made
  <2>3. jar # id /\ \A q \in Requests : request[q].id # id /\ request[q].cookie # id
    BY <1>1, <2>1, <2>2 DEF Identity, UsesMade
  <2>4. id = <<r, "public">> OBVIOUS
  <2> HIDE DEF id
  <2>5. /\ k.pc = "looking" /\ k.id = id /\ k.owner = Anonymous /\ k.setCookie = id
        /\ k.cookie = request[r].cookie /\ k.object = request[r].object
        /\ k.after = request[r].after /\ k.turn = request[r].turn /\ k.answer = request[r].answer
        /\ k.user = request[r].user
    BY <1>2 DEF RequestFields
  <2>6. k \in RequestFields
    <3> DEFINE a == [request[r] EXCEPT !.pc = "looking"]
               b == [a EXCEPT !.id = id]
               c == [b EXCEPT !.owner = Anonymous]
    <3>1. k = [c EXCEPT !.setCookie = id] BY <1>2 DEF RequestFields
    <3>2. a \in RequestFields BY <1>2 DEF RequestFields
    <3> HIDE DEF a, k
    <3>3. b \in RequestFields BY <2>1, <3>2 DEF RequestFields
    <3> HIDE DEF b
    <3>4. c \in RequestFields BY <3>3 DEF RequestFields
    <3> HIDE DEF c
    <3> QED BY <2>1, <3>1, <3>4 DEF RequestFields
  <2>7. Set(r, k) BY <1>5
  <2> HIDE DEF k
  <2>8. ~Ended(k) /\ ~Ended(request[r]) BY <2>1, <2>5 DEF Ended
  <2>9. StageOf(r, k, accounts)
    <3> HIDE DEF Ids
    <3>1. k.user \in Users BY <1>2, <2>5 DEF StageOf
    <3> QED BY <2>1, <2>4, <2>5, <3>1 DEF StageOf
  <2>10. /\ request' \in [Requests -> RequestFields]
         /\ request'[r] = k /\ \A q \in Requests : q # r => request'[q] = request[q]
         /\ Staged'
    BY <1>1, <1>3, <2>6, <2>7, <2>9, Updated
  <2>11. /\ rows' \in [Ids -> Users \cup {Anonymous, Absent}] /\ rows'[id] = Anonymous
         /\ \A x \in Ids : x # id => rows'[x] = rows[x]
    BY <1>2, <1>5, <2>1 DEF id
  <2>12. TypeOK' BY <1>1, <1>3, <2>10, <2>11 DEF TypeOK
  <2>13. \A q \in Requests :
          /\ request[q].id # Nothing => /\ request'[q].id = request[q].id
                                        /\ request'[q].owner = request[q].owner
          /\ request'[q].id # request[q].id =>
                q = r /\ request'[q].id = id /\ request'[q].owner = Anonymous
          /\ request'[q].object = request[q].object /\ request'[q].turn = request[q].turn
          /\ request'[q].after = request[q].after /\ request'[q].cookie = request[q].cookie
          /\ Ended(request'[q]) <=> Ended(request[q])
          /\ Ended(request[q]) => request'[q] = request[q]
          /\ request[q].pc = "answered" => request'[q].pc = "answered"
          /\ request'[q].pc \in {"loading", "storing"} => request[q].pc \in {"loading", "storing"}
          /\ Works(request'[q]) => Works(request[q])
    <3> SUFFICES ASSUME NEW q \in Requests PROVE <2>13!(q) OBVIOUS
    <3>1. CASE q = r BY <1>2, <2>1, <2>5, <2>8, <2>10, <3>1 DEF Works
    <3>2. CASE q # r BY <2>10, <3>2
    <3> QED BY <3>1, <3>2
  <2>14. Identity'
    <3>1. \A q \in Requests : /\ Retires(q)' <=> Retires(q)
                              /\ Retires(q) => request'[q] = request[q]
      BY <2>13 DEF Retires, Ended
    <3>2. \A x : Retired(x)' <=> Retired(x) BY <3>1 DEF Retired
    <3>3. Made \subseteq Made' /\ id \in Made'
      <4>1. Made \subseteq Made' BY <2>13 DEF Made, Rotated
      <4>2. request'[r].id = id BY <2>5, <2>10
      <4> QED BY <2>1, <2>4, <4>1, <4>2 DEF Made
    <3>4. \A x : InUse(x)' <=> InUse(x) BY <1>3, <2>13 DEF InUse
    <3>5. ASSUME NEW x \in Ids, Issued(x)' PROVE Issued(x) \/ x = id
      BY <2>13, <3>1, <3>5 DEF Issued
    <3>6. ~Retired(id) BY <2>3 DEF Retired
    <3>7. UsesMade'
      <4> SUFFICES ASSUME NEW q \in Requests
                   PROVE  /\ jar' \in Made' \cup {Nothing}
                          /\ request'[q].cookie \in Made' \cup {Nothing}
                          /\ request'[q].id \in Made' \cup {Nothing}
        BY DEF UsesMade
      <4>1. /\ jar \in Made \cup {Nothing} /\ request[q].cookie \in Made \cup {Nothing}
            /\ request[q].id \in Made \cup {Nothing}
        BY <1>1 DEF Identity, UsesMade
      <4> QED BY <1>3, <2>13, <3>3, <4>1
    <3>8. RowsOwned'
      <4>1. \A x \in Ids : rows'[x] \in accounts' \cup {Anonymous, Absent}
        BY <1>1, <1>3, <2>11 DEF Identity, RowsOwned
      <4>2. ASSUME NEW q \in Requests, request'[q].id # Nothing
            PROVE  rows'[request'[q].id] \in {request'[q].owner, Absent}
        <5>1. CASE request'[q].id = id BY <2>3, <2>11, <2>13, <5>1
        <5>2. CASE request'[q].id # id
          <6>1. request'[q].id = request[q].id /\ request[q].id \in Ids
            BY <1>2, <2>13, <4>2, <5>2 DEF RequestFields
          <6> QED BY <1>1, <2>11, <2>13, <4>2, <5>2, <6>1 DEF Identity, RowsOwned
        <5> QED BY <5>1, <5>2
      <4> QED BY <4>1, <4>2 DEF RowsOwned
    <3>9. OneOwner' BY <1>1, <2>3, <2>13 DEF Identity, OneOwner
    <3>10. StoredUntilRetired'
      <4>1. Boot \in Ids BY DEF Ids
      <4>2. rows'[Boot] = rows[Boot] BY <2>1, <2>11, <4>1
      <4>3. Anonymous # Absent OBVIOUS
      <4> QED BY <1>1, <2>1, <2>11, <3>2, <3>4, <3>5, <3>6, <4>2, <4>3
              DEF Identity, StoredUntilRetired
    <3> QED BY <3>7, <3>8, <3>9, <3>10 DEF Identity
  <2>15. OneTurnPerObject' BY <1>1, <2>13 DEF Mapped, OneTurnPerObject
  <2>16. Mapped' BY <1>1, <1>3, <2>13, <2>15, MappedKept
  <2> QED BY <2>10, <2>12, <2>14, <2>16 DEF SessionsInv
<1> QED BY <1>4, <1>5 DEF CreateAnonymous, InsertSession, NewId

----------------------------------------------------------------------------
(***************************************************************************)
(* The steps of browserSessionForStoredSession.                            *)
(***************************************************************************)
LEMMA LookupKeeps ==
    ASSUME SessionsInv, NEW r \in Requests, Lookup(r)
    PROVE  SessionsInv'
<1> USE NamesAssumption
<1>1. TypeOK /\ Staged /\ Identity /\ Mapped BY DEF SessionsInv
<1>2. /\ request \in [Requests -> RequestFields] /\ request[r] \in RequestFields
      /\ StageOf(r, request[r], accounts) /\ request[r].pc = "looking"
      /\ sessions \in [Ids -> Requests \cup {Nothing}]
  BY <1>1 DEF TypeOK, Staged, Lookup, At
<1>3. /\ rows' = rows /\ expired' = expired /\ sessions' = sessions /\ jar' = jar
      /\ restarts' = restarts /\ accounts' = accounts /\ defaults' = defaults
  BY DEF Lookup, storeVars
<1> DEFINE object == sessions[request[r].id]
           pc == IF object = Nothing THEN "loading" ELSE "handling"
           k == [request[r] EXCEPT !.object = object, !.pc = pc]
<1>4. Set(r, k) BY DEF Lookup
<1>5. /\ request[r].id \in Ids /\ request[r].id # Nothing
      /\ request[r].object = Nothing /\ request[r].turn = "none"
      /\ request[r].answer = "none"
  BY <1>2 DEF StageOf, RequestFields
<1>6. /\ object \in Requests \cup {Nothing} /\ object = sessions[request[r].id]
      /\ \/ pc = "loading" /\ object = Nothing
         \/ pc = "handling" /\ object # Nothing
  BY <1>2, <1>5
<1> HIDE DEF object, pc
<1>7. /\ k.pc = pc /\ k.object = object /\ k.id = request[r].id /\ k.owner = request[r].owner
      /\ k.cookie = request[r].cookie /\ k.after = request[r].after
      /\ k.turn = request[r].turn /\ k.answer = request[r].answer /\ k.kind = request[r].kind
      /\ k.setCookie = request[r].setCookie /\ k.user = request[r].user
  BY <1>2 DEF RequestFields
<1>8. k \in RequestFields
  <2> DEFINE a == [request[r] EXCEPT !.object = object]
  <2>1. k = [a EXCEPT !.pc = pc] BY <1>2 DEF RequestFields
  <2>2. a \in RequestFields BY <1>2, <1>6 DEF RequestFields
  <2> HIDE DEF a, k
  <2>3. pc \in {"loading", "handling"} BY <1>6
  <2> QED BY <2>1, <2>2, <2>3 DEF RequestFields
<1> HIDE DEF k
<1>9. ~Ended(k) /\ ~Ended(request[r]) BY <1>5, <1>7 DEF Ended
<1>10. StageOf(r, k, accounts)
  <2>1. k.pc \in {"loading", "handling"} BY <1>6, <1>7
  <2>2. k.setCookie \in Ids => k.setCookie = <<r, "public">> /\ k.id = <<r, "public">>
    BY <1>2, <1>7, <1>9 DEF StageOf, Rotated
  <2>3. k.pc = "loading" => k.object = Nothing BY <1>6, <1>7
  <2>4. k.pc = "handling" => k.object # Nothing BY <1>6, <1>7
  <2> QED BY <1>2, <1>5, <1>7, <2>1, <2>2, <2>3, <2>4 DEF StageOf
<1>11. /\ request' \in [Requests -> RequestFields]
       /\ request'[r] = k /\ \A q \in Requests : q # r => request'[q] = request[q]
       /\ Staged'
  BY <1>1, <1>3, <1>4, <1>8, <1>10, Updated
<1>12. TypeOK' BY <1>1, <1>3, <1>11 DEF TypeOK
<1>13. \A q \in Requests :
          /\ request'[q].id = request[q].id /\ request'[q].owner = request[q].owner
          /\ request'[q].cookie = request[q].cookie /\ request'[q].kind = request[q].kind
          /\ request'[q].turn = request[q].turn /\ request'[q].after = request[q].after
          /\ Ended(request'[q]) <=> Ended(request[q])
          /\ request[q].object # Nothing => request'[q].object = request[q].object
          /\ request[q].pc = "answered" => request'[q].pc = "answered"
          /\ \/ request'[q].object = request[q].object
             \/ request'[q].id \in Ids /\ request'[q].object = sessions[request'[q].id]
          /\ request'[q].pc \in {"loading", "storing"} =>
                \/ request[q].pc \in {"loading", "storing"}
                \/ request'[q].id \in Ids /\ sessions[request'[q].id] = Nothing
          /\ Works(request'[q]) => \/ Works(request[q])
                                   \/ sessions[request'[q].id] = request'[q].object
  <2> SUFFICES ASSUME NEW q \in Requests PROVE <1>13!(q) OBVIOUS
  <2>1. CASE q = r BY <1>2, <1>5, <1>6, <1>7, <1>9, <1>11, <2>1 DEF Works
  <2>2. CASE q # r BY <1>11, <2>2
  <2> QED BY <2>1, <2>2
<1>14. Identity' BY <1>1, <1>3, <1>13, IdentityKept
<1>15. OneTurnPerObject'
  <2>1. \A q \in Requests : request[q].turn = "running" => request[q].object # Nothing
    BY <1>1 DEF Staged, StageOf
  <2> QED BY <1>1, <1>13, <2>1 DEF Mapped, OneTurnPerObject
<1>16. Mapped' BY <1>1, <1>3, <1>13, <1>15, MappedKept
<1> QED BY <1>11, <1>12, <1>14, <1>16 DEF SessionsInv

(***************************************************************************)
(* The default conversation is that of the session's owner.                *)
(***************************************************************************)
LEMMA LoadKeeps ==
    ASSUME SessionsInv, NEW r \in Requests, Load(r)
    PROVE  SessionsInv'
<1>1. /\ request[r].pc = "loading" /\ StageOf(r, request[r], accounts)
      /\ accounts \subseteq Users /\ defaults \subseteq accounts
  BY DEF SessionsInv, TypeOK, Staged, Load, At
<1>2. UNCHANGED <<rows, expired, accounts, sessions, jar, restarts>> BY DEF Load
<1>3. CASE DefaultConversation(request[r].owner) /\ Goto(r, "storing")
  <2>1. request[r].owner \in accounts \cup {Anonymous} BY <1>1 DEF StageOf
  <2>2. defaults' \subseteq accounts' BY <1>1, <1>2, <1>3, <2>1 DEF DefaultConversation
  <2> QED BY <1>1, <1>2, <1>3, <2>2, GotoStep
<1>4. CASE StoreFails(r) /\ UNCHANGED defaults
  BY <1>1, <1>2, <1>4, AnswerStep DEF StoreFails, storeVars
<1> QED BY <1>3, <1>4 DEF Load

(***************************************************************************)
(* The request stores its entry. A handler that works with the entry it    *)
(* replaces was made by a request not yet answered when this one arrived,  *)
(* and raced with it.                                                      *)
(***************************************************************************)
LEMMA StoreEntryKeeps ==
    ASSUME SessionsInv, NEW r \in Requests, StoreEntry(r)
    PROVE  SessionsInv'
<1> USE NamesAssumption
<1>1. TypeOK /\ Staged /\ Identity /\ Mapped BY DEF SessionsInv
<1>2. /\ request \in [Requests -> RequestFields] /\ request[r] \in RequestFields
      /\ StageOf(r, request[r], accounts) /\ request[r].pc = "storing"
      /\ sessions \in [Ids -> Requests \cup {Nothing}]
  BY <1>1 DEF TypeOK, Staged, StoreEntry, At
<1>3. /\ rows' = rows /\ expired' = expired /\ jar' = jar
      /\ restarts' = restarts /\ accounts' = accounts /\ defaults' = defaults
  BY DEF StoreEntry, storeVars
<1> DEFINE id == request[r].id
           k == [request[r] EXCEPT !.pc = "handling", !.object = r]
<1>4. Set(r, k) /\ sessions' = [sessions EXCEPT ![id] = r] BY DEF StoreEntry
<1>5. /\ id \in Ids /\ id # Nothing
      /\ request[r].object = Nothing /\ request[r].turn = "none"
      /\ request[r].answer = "none"
  BY <1>2 DEF StageOf, RequestFields
<1>6. /\ k.pc = "handling" /\ k.object = r /\ k.id = request[r].id /\ k.owner = request[r].owner
      /\ k.cookie = request[r].cookie /\ k.after = request[r].after
      /\ k.turn = request[r].turn /\ k.answer = request[r].answer /\ k.kind = request[r].kind
      /\ k.setCookie = request[r].setCookie /\ k.user = request[r].user
  BY <1>2 DEF RequestFields
<1>7. k \in RequestFields
  <2> DEFINE a == [request[r] EXCEPT !.pc = "handling"]
  <2>1. k = [a EXCEPT !.object = r] BY <1>2 DEF RequestFields
  <2>2. a \in RequestFields BY <1>2 DEF RequestFields
  <2> HIDE DEF a, k
  <2> QED BY <2>1, <2>2 DEF RequestFields
<1>8. id = request[r].id OBVIOUS
<1>9. /\ sessions' \in [Ids -> Requests \cup {Nothing}] /\ sessions'[id] = r
      /\ \A x \in Ids : x # id => sessions'[x] = sessions[x]
  BY <1>2, <1>4, <1>5
<1> HIDE DEF k, id
<1>10. ~Ended(k) /\ ~Ended(request[r]) BY <1>5, <1>6 DEF Ended
<1>11. StageOf(r, k, accounts) BY <1>2, <1>5, <1>6, <1>10 DEF StageOf, Rotated
<1>12. /\ request' \in [Requests -> RequestFields]
       /\ request'[r] = k /\ \A q \in Requests : q # r => request'[q] = request[q]
       /\ Staged'
  BY <1>1, <1>3, <1>4, <1>7, <1>11, Updated
<1>13. TypeOK' BY <1>1, <1>3, <1>9, <1>12 DEF TypeOK
<1>14. \A q \in Requests :
          /\ request'[q].id = request[q].id /\ request'[q].owner = request[q].owner
          /\ request'[q].cookie = request[q].cookie /\ request'[q].kind = request[q].kind
          /\ request'[q].turn = request[q].turn /\ request'[q].after = request[q].after
          /\ Ended(request'[q]) <=> Ended(request[q])
          /\ request[q].object # Nothing => q # r /\ request'[q].object = request[q].object
          /\ request'[q].object # request[q].object => q = r
          /\ request[q].pc = "answered" => request'[q].pc = "answered"
          /\ request'[q].pc \in {"loading", "storing"} => request[q].pc \in {"loading", "storing"}
          /\ Works(request'[q]) => q = r \/ Works(request[q])
  <2> SUFFICES ASSUME NEW q \in Requests PROVE <1>14!(q) OBVIOUS
  <2>1. CASE q = r BY <1>2, <1>5, <1>6, <1>10, <1>12, <2>1
  <2>2. CASE q # r BY <1>12, <2>2
  <2> QED BY <2>1, <2>2
<1>15. Identity' BY <1>1, <1>3, <1>14, IdentityKept
<1>16. OneTurnPerObject'
  <2>1. \A q \in Requests : request[q].turn = "running" => request[q].object # Nothing
    BY <1>1 DEF Staged, StageOf
  <2> QED BY <1>1, <1>14, <2>1 DEF Mapped, OneTurnPerObject
<1>17. ASSUME NEW q \in Requests, request[q].object # Nothing
       PROVE  request[q].id # Nothing /\ request[q].id \in Ids /\ q # r
  <2>1. request[q].id # Nothing BY <1>1, <1>17 DEF Staged, StageOf
  <2> QED BY <1>2, <1>14, <1>17, <2>1 DEF RequestFields
<1>18. ASSUME NEW x \in Ids, sessions[x] # Nothing
       PROVE  /\ sessions[x] \in Requests /\ sessions[x] # r
              /\ request[sessions[x]].id = x /\ request[sessions[x]].object = sessions[x]
  <2>1. sessions[x] \in Requests BY <1>2, <1>18
  <2>2. request[sessions[x]].id = x /\ request[sessions[x]].object = sessions[x]
    BY <1>1, <1>18 DEF Mapped, Entries
  <2> QED BY <1>17, <1>18, <2>1, <2>2
<1>19. Mapped'
  <2>1. Entries'
    <3> SUFFICES ASSUME NEW x \in Ids, sessions'[x] # Nothing
                 PROVE  /\ request'[sessions'[x]].id = x
                        /\ request'[sessions'[x]].object = sessions'[x]
      BY DEF Entries
    <3>1. CASE x = id BY <1>6, <1>8, <1>9, <1>12, <3>1
    <3>2. CASE x # id BY <1>9, <1>12, <1>18, <3>2
    <3> QED BY <3>1, <3>2
  <2>2. Objects'
    <3> SUFFICES ASSUME NEW q \in Requests, request'[q].object # Nothing
                 PROVE  /\ request'[request'[q].object].id = request'[q].id
                        /\ request'[request'[q].object].object = request'[q].object
      BY DEF Objects
    <3>1. CASE q = r BY <1>6, <1>12, <3>1
    <3>2. CASE q # r
      <4>1. request'[q] = request[q] BY <1>12, <3>2
      <4>2. /\ request[request[q].object].id = request[q].id
            /\ request[request[q].object].object = request[q].object
        BY <1>1, <4>1 DEF Mapped, Objects
      <4>3. request[q].object \in Requests BY <1>2, <4>1 DEF RequestFields
      <4>4. request[q].object # r BY <1>17, <4>1, <4>2, <4>3
      <4> QED BY <1>12, <4>1, <4>2, <4>3, <4>4
    <3> QED BY <3>1, <3>2
  <2>3. AfterAnswered' BY <1>1, <1>14 DEF Mapped, AfterAnswered
  <2>4. LoadsBeside'
    <3> SUFFICES ASSUME NEW q \in Requests, request'[q].pc \in {"loading", "storing"}
                 PROVE  sessions'[request'[q].id] \notin request'[q].after
      BY DEF LoadsBeside
    <3>1. request[q].pc \in {"loading", "storing"} BY <1>14
    <3>2. request[q].id \in Ids
      <4>1. request[q].id # Nothing BY <1>1, <3>1 DEF Staged, StageOf
      <4> QED BY <1>2, <4>1 DEF RequestFields
    <3>3. sessions[request[q].id] \notin request[q].after
      BY <1>1, <3>1 DEF Mapped, LoadsBeside
    <3>4. r \notin request[q].after BY <1>1, <1>2 DEF Mapped, AfterAnswered
    <3> QED BY <1>9, <1>14, <3>2, <3>3, <3>4
  <2>5. WorksWithEntry'
    <3> SUFFICES ASSUME NEW q \in Requests, Works(request[q])'
                 PROVE  (\/ sessions[request[q].id] = request[q].object
                         \/ Retired(request[q].id) \/ Raced(request[q].id))'
      BY DEF WorksWithEntry
    <3>1. CASE q = r BY <1>6, <1>8, <1>9, <1>12, <3>1
    <3>2. CASE q # r
      <4>1. request'[q] = request[q] /\ Works(request[q]) BY <1>12, <3>2 DEF Works
      <4>2. request[q].object # Nothing BY <1>1, <4>1 DEF Staged, StageOf, Works
      <4>3. request[q].id \in Ids BY <1>17, <4>2
      <4> DEFINE x == request[q].id
      <4>4. x' = x BY <4>1
      <4>5. sessions[x] = request[q].object \/ Retired(x) \/ Raced(x)
        BY <1>1, <4>1 DEF Mapped, WorksWithEntry
      <4>6. CASE Retired(x)
        <5>1. \A p \in Requests : Retires(p)' <=> Retires(p) BY <1>14 DEF Retires, Ended
        <5> QED BY <1>14, <4>4, <4>6, <5>1 DEF Retired
      <4>7. CASE Raced(x)
        <5>1. \A p \in Requests :
                 /\ request[p].id \in Ids => request'[p].id = request[p].id
                 /\ request[p].object # Nothing => request'[p].object = request[p].object
                 /\ request[p].object # Nothing => request'[p].after = request[p].after
          BY <1>14
        <5>2. x \in Ids BY <4>3
        <5> HIDE DEF x
        <5>3. \A y \in Ids : Raced(y) => Raced(y)'
          BY ONLY <5>1, NamesAssumption, RacedStays
        <5>4. Raced(x)' BY <4>4, <4>7, <5>2, <5>3 DEF Raced
        <5> QED BY <5>4 DEF x
      <4>8. CASE sessions[x] = request[q].object
        <5> DEFINE o == request[q].object
        <5>1. /\ o \in Requests /\ o # r /\ request[o].id = x /\ request[o].object = o
              /\ sessions[x] # Nothing
          BY <1>18, <4>2, <4>3, <4>8
        <5>2. CASE x # id BY <1>9, <4>1, <4>3, <4>8, <5>2
        <5>3. CASE x = id
          <6>1. o \notin request[r].after
            BY <1>1, <1>2, <1>8, <4>8, <5>3 DEF Mapped, LoadsBeside
          <6>2. r \notin request[o].after BY <1>1, <1>2, <5>1 DEF Mapped, AfterAnswered
          <6>3. /\ request'[o] = request[o] /\ request'[r].id = x /\ request'[r].object = r
                /\ request'[r].after = request[r].after
            BY <1>6, <1>8, <1>12, <5>1, <5>3
          <6>4. Raced(x)' BY <4>4, <5>1, <6>1, <6>2, <6>3 DEF Raced
          <6> QED BY <6>4
        <5> QED BY <5>2, <5>3
      <4> QED BY <4>5, <4>6, <4>7, <4>8
    <3> QED BY <3>1, <3>2
  <2> QED BY <1>16, <2>1, <2>2, <2>3, <2>4, <2>5 DEF Mapped
<1> QED BY <1>12, <1>13, <1>15, <1>19 DEF SessionsInv

----------------------------------------------------------------------------
(***************************************************************************)
(* The handlers that end no session.                                       *)
(***************************************************************************)
LEMMA AnswersKeep ==
    ASSUME SessionsInv, NEW r \in Requests,
           Forbid(r) \/ ShowPage(r) \/ ShowForm(r) \/ FindTurn(r)
    PROVE  SessionsInv'
<1>1. CASE Forbid(r) BY <1>1, AnswerStep DEF Forbid, Handling, At
<1>2. CASE ShowPage(r) BY <1>2, AnswerStep DEF ShowPage, Handling, At
<1>3. CASE ShowForm(r)
  <2>1. PICK answer \in {"home", "page"} : Answer(r, answer) BY <1>3 DEF ShowForm
  <2>2. request[r].pc = "handling" /\ request[r].kind = "form"
    BY <1>3 DEF ShowForm, Handling, At
  <2> QED BY <1>3, <2>1, <2>2, AnswerStep DEF ShowForm
<1>4. CASE FindTurn(r)
  <2>1. PICK answer \in {"found", "missing"} : Answer(r, answer) BY <1>4 DEF FindTurn
  <2> QED BY <1>4, <2>1, AnswerStep DEF FindTurn, Handling, At
<1> QED BY <1>1, <1>2, <1>3, <1>4

(***************************************************************************)
(* Who goes on to rotate has an account.                                   *)
(***************************************************************************)
LEMMA SignInKeeps ==
    ASSUME SessionsInv, NEW r \in Requests, LogIn(r) \/ Register(r)
    PROVE  SessionsInv'
<1>1. /\ request[r].pc = "handling" /\ request[r].kind \in {"login", "register"}
      /\ accounts \subseteq Users /\ defaults \subseteq accounts
      /\ request[r].user \in Users
  BY DEF SessionsInv, TypeOK, Staged, StageOf, LogIn, Register, Handling, At
<1>2. UNCHANGED <<rows, expired, defaults, sessions, jar, restarts>>
  BY DEF LogIn, Register, storeVars
<1>3. CASE HasUser(request[r].user) /\ Goto(r, "rotating") /\ accounts' = accounts
  BY <1>1, <1>2, <1>3, GotoStep DEF HasUser
<1>4. CASE Answer(r, "refused") /\ accounts' = accounts
  BY <1>1, <1>2, <1>4, AnswerStep DEF storeVars
<1>5. CASE Register(r) /\ InsertUser(request[r].user) /\ Goto(r, "rotating")
  <2>1. /\ accounts \subseteq accounts' /\ accounts' \subseteq Users
        /\ request[r].user \in accounts'
    BY <1>1, <1>5 DEF InsertUser
  <2> QED BY <1>1, <1>2, <1>5, <2>1, GotoStep
<1> QED BY <1>3, <1>4, <1>5 DEF LogIn, Register, storeVars

(***************************************************************************)
(* A session is ended: its row goes, and a rotation adds the new one in    *)
(* the same step.                                                          *)
(***************************************************************************)
LEMMA EndSession ==
    ASSUME SessionsInv, NEW r \in Requests, NEW k \in RequestFields, Set(r, k),
           request[r].pc \in {"handling", "rotating"},
           k.pc = "removing", Ended(k),
           k.id = request[r].id, k.owner = request[r].owner, k.cookie = request[r].cookie,
           k.object = request[r].object, k.after = request[r].after, k.turn = request[r].turn,
           k.user = request[r].user,
           k.setCookie \in Ids => k.setCookie = <<r, "rotated">> /\ Rotated(k),
           rows' \in [Ids -> Users \cup {Anonymous, Absent}],
           rows'[request[r].id] = Absent,
           Rotated(k) => rows'[<<r, "rotated">>] \in accounts,
           \A x \in Ids : \/ x = request[r].id
                          \/ x = <<r, "rotated">> /\ Rotated(k)
                          \/ rows'[x] = rows[x],
           UNCHANGED <<expired, accounts, defaults, sessions, jar, restarts>>
    PROVE  SessionsInv'
<1> USE NamesAssumption
<1>1. TypeOK /\ Staged /\ Identity /\ Mapped BY DEF SessionsInv
<1>2. /\ request \in [Requests -> RequestFields] /\ request[r] \in RequestFields
      /\ StageOf(r, request[r], accounts) /\ rows \in [Ids -> Users \cup {Anonymous, Absent}]
      /\ accounts \subseteq Users
  BY <1>1 DEF TypeOK, Staged
<1> DEFINE id == request[r].id
           new == <<r, "rotated">>
<1>3. /\ id \in Ids /\ id # Nothing /\ request[r].answer = "none" /\ request[r].turn = "none"
  BY <1>2 DEF StageOf, RequestFields
<1>4. ~Ended(request[r]) /\ ~Rotated(request[r]) BY <1>3 DEF Ended, Rotated
<1>5. /\ new \in Ids /\ new # Boot /\ \A q \in Requests : new # <<q, "public">>
      /\ \A q \in Requests : new = <<q, "rotated">> => q = r
  BY DEF Ids
<1>6. new \notin Made BY <1>4, <1>5 DEF Made
<1>7. jar # new /\ \A q \in Requests : request[q].id # new /\ request[q].cookie # new
  BY <1>1, <1>5, <1>6 DEF Identity, UsesMade
<1>8. /\ rows'[id] = Absent /\ (Rotated(k) => rows'[new] \in accounts)
      /\ \A x \in Ids : x = id \/ (x = new /\ Rotated(k)) \/ rows'[x] = rows[x]
  OBVIOUS
<1>9. new = <<r, "rotated">> /\ id = request[r].id OBVIOUS
<1> HIDE DEF id, new
<1>10. StageOf(r, k, accounts) BY <1>2, <1>3, <1>9 DEF StageOf
<1>11. /\ request' \in [Requests -> RequestFields]
       /\ request'[r] = k /\ \A q \in Requests : q # r => request'[q] = request[q]
       /\ Staged'
  BY <1>1, <1>10, Updated
<1>12. TypeOK' BY <1>1, <1>11 DEF TypeOK
<1>13. \A q \in Requests :
          /\ request'[q].id = request[q].id /\ request'[q].owner = request[q].owner
          /\ request'[q].cookie = request[q].cookie
          /\ request'[q].object = request[q].object /\ request'[q].after = request[q].after
          /\ request'[q].turn = request[q].turn
          /\ Ended(request'[q]) <=> Ended(request[q]) \/ q = r
          /\ Ended(request[q]) => request'[q] = request[q]
          /\ request[q].pc = "answered" => request'[q].pc = "answered"
          /\ request'[q].pc \in {"loading", "storing"} => request[q].pc \in {"loading", "storing"}
          /\ Works(request'[q]) => Works(request[q])
  <2> SUFFICES ASSUME NEW q \in Requests PROVE <1>13!(q) OBVIOUS
  <2>1. CASE q = r BY <1>3, <1>4, <1>11, <2>1 DEF Works
  <2>2. CASE q # r BY <1>11, <2>2
  <2> QED BY <2>1, <2>2
<1>14. Identity'
  <2>1. \A q \in Requests : /\ Retires(q)' <=> Retires(q) \/ q = r
                            /\ Retires(q) => request'[q] = request[q]
    BY <1>13 DEF Retires, Ended
  <2>2. \A x : Retired(x)' <=> Retired(x) \/ x = id BY <1>9, <1>13, <2>1 DEF Retired
  <2>3. Made \subseteq Made' BY <1>13 DEF Made, Rotated
  <2>4. \A x : InUse(x)' <=> InUse(x) BY <1>13 DEF InUse
  <2>5. ASSUME NEW x \in Ids, Issued(x)' PROVE Issued(x) \/ (x = new /\ Rotated(k))
    <3>1. CASE \/ x = Boot /\ \E q \in Requests : request'[q].cookie = Boot
               \/ \E q \in Requests : request'[q].id = x
      BY <1>13, <3>1 DEF Issued
    <3>2. ASSUME NEW q \in Requests, Retires(q)', request'[q].kind # "logout",
                 x = <<q, "rotated">>
          PROVE  Issued(x) \/ (x = new /\ Rotated(k))
      <4>1. CASE q = r BY <1>9, <1>11, <3>2, <4>1 DEF Rotated
      <4>2. CASE q # r BY <2>1, <3>2, <4>2 DEF Issued
      <4> QED BY <4>1, <4>2
    <3> QED BY <2>5, <3>1, <3>2 DEF Issued
  <2>6. UsesMade'
    <3> SUFFICES ASSUME NEW q \in Requests
                 PROVE  /\ jar' \in Made' \cup {Nothing}
                        /\ request'[q].cookie \in Made' \cup {Nothing}
                        /\ request'[q].id \in Made' \cup {Nothing}
      BY DEF UsesMade
    <3>1. /\ jar \in Made \cup {Nothing} /\ request[q].cookie \in Made \cup {Nothing}
          /\ request[q].id \in Made \cup {Nothing}
      BY <1>1 DEF Identity, UsesMade
    <3> QED BY <1>13, <2>3, <3>1
  <2>7. RowsOwned'
    <3>1. \A x \in Ids : rows'[x] \in accounts' \cup {Anonymous, Absent}
      BY <1>1, <1>8 DEF Identity, RowsOwned
    <3>2. ASSUME NEW q \in Requests, request'[q].id # Nothing
          PROVE  rows'[request'[q].id] \in {request'[q].owner, Absent}
      <4>1. request'[q].id = request[q].id /\ request[q].id \in Ids /\ request[q].id # new
        BY <1>2, <1>7, <1>13, <3>2 DEF RequestFields
      <4>2. rows[request[q].id] \in {request[q].owner, Absent}
        BY <1>1, <3>2, <4>1 DEF Identity, RowsOwned
      <4> QED BY <1>8, <1>13, <4>1, <4>2
    <3> QED BY <3>1, <3>2 DEF RowsOwned
  <2>8. OneOwner' BY <1>1, <1>13 DEF Identity, OneOwner
  <2>9. StoredUntilRetired'
    <3>1. Boot \in Ids BY DEF Ids
    <3>2. InUse(Boot)' => Retired(Boot)' \/ rows'[Boot] # Absent
      BY <1>1, <1>5, <1>8, <2>2, <2>4, <3>1 DEF Identity, StoredUntilRetired
    <3>3. ASSUME NEW x \in Ids
          PROVE  /\ Retired(x)' => rows'[x] = Absent
                 /\ Issued(x)' /\ ~Retired(x)' => rows'[x] # Absent
      <4>1. CASE x = id BY <1>8, <2>2, <4>1
      <4>2. CASE x = new /\ Rotated(k)
        <5>1. ~Retired(new) /\ new # id BY <1>7, <1>9 DEF Retired
        <5> QED BY <1>2, <1>8, <2>2, <4>2, <5>1
      <4>3. CASE x # id /\ ~(x = new /\ Rotated(k))
        BY <1>1, <1>8, <2>2, <2>5, <4>3 DEF Identity, StoredUntilRetired
      <4> QED BY <4>1, <4>2, <4>3
    <3> QED BY <3>2, <3>3 DEF StoredUntilRetired
  <2> QED BY <2>6, <2>7, <2>8, <2>9 DEF Identity
<1>15. OneTurnPerObject' BY <1>1, <1>13 DEF Mapped, OneTurnPerObject
<1>16. Mapped' BY <1>1, <1>13, <1>15, MappedKept
<1> QED BY <1>11, <1>12, <1>14, <1>16 DEF SessionsInv

(***************************************************************************)
(* RotateBrowserSession: a fresh ID takes the place of the old one.        *)
(***************************************************************************)
LEMMA RotateKeeps ==
    ASSUME SessionsInv, NEW r \in Requests, Rotate(r)
    PROVE  SessionsInv'
<1> USE NamesAssumption
<1>1. TypeOK /\ Staged /\ Identity BY DEF SessionsInv
<1>2. /\ request[r] \in RequestFields /\ StageOf(r, request[r], accounts)
      /\ request[r].pc = "rotating" /\ rows \in [Ids -> Users \cup {Anonymous, Absent}]
      /\ accounts \subseteq Users
  BY <1>1 DEF TypeOK, Staged, Rotate, At
<1>3. UNCHANGED <<expired, accounts, defaults, sessions, jar, restarts>> BY DEF Rotate
<1>4. CASE StoreFails(r) /\ UNCHANGED rows
  BY <1>2, <1>3, <1>4, AnswerStep DEF StoreFails, storeVars
<1> DEFINE id == request[r].id
           new == <<r, "rotated">>
           user == request[r].user
           k == [request[r] EXCEPT !.pc = "removing", !.setCookie = new, !.answer = "home"]
<1>5. CASE rows' = [rows EXCEPT ![id] = Absent, ![new] = user] /\ Set(r, k)
  <2>1. /\ id \in Ids /\ id # Nothing /\ new \in Ids /\ user \in accounts
        /\ request[r].kind \in {"login", "register"} /\ request[r].answer = "none"
    BY <1>2 DEF StageOf, RequestFields, Ids
  <2>2. id # new
    <3>1. id \in Made BY <1>1, <2>1 DEF Identity, UsesMade
    <3>2. ~Rotated(request[r]) BY <2>1 DEF Rotated, Ended
    <3>3. new # Boot /\ \A q \in Requests : new # <<q, "public">> BY DEF Ids
    <3>4. \A q \in Requests : new = <<q, "rotated">> => q = r OBVIOUS
    <3> HIDE DEF new, id
    <3> QED BY <3>1, <3>2, <3>3, <3>4 DEF Made
  <2>3. new = <<r, "rotated">> /\ id = request[r].id /\ user = request[r].user OBVIOUS
  <2> HIDE DEF new, id, user
  <2>4. /\ k.pc = "removing" /\ k.setCookie = new /\ k.answer = "home"
        /\ k.id = request[r].id /\ k.owner = request[r].owner /\ k.cookie = request[r].cookie
        /\ k.object = request[r].object /\ k.after = request[r].after /\ k.turn = request[r].turn
        /\ k.user = request[r].user /\ k.kind = request[r].kind
    BY <1>2 DEF RequestFields
  <2>5. k \in RequestFields
    <3> DEFINE a == [request[r] EXCEPT !.pc = "removing"]
               b == [a EXCEPT !.setCookie = new]
    <3>1. k = [b EXCEPT !.answer = "home"] BY <1>2 DEF RequestFields
    <3>2. a \in RequestFields BY <1>2 DEF RequestFields
    <3> HIDE DEF a, k
    <3>3. b \in RequestFields BY <2>1, <3>2 DEF RequestFields
    <3> HIDE DEF b
    <3> QED BY <3>1, <3>3 DEF RequestFields
  <2>6. Set(r, k) BY <1>5
  <2> HIDE DEF k
  <2>7. Ended(k) /\ Rotated(k) BY <2>1, <2>3, <2>4 DEF Ended, Rotated
  <2>8. /\ rows' \in [Ids -> Users \cup {Anonymous, Absent}]
        /\ rows'[id] = Absent /\ rows'[new] = user
        /\ \A x \in Ids : x # id /\ x # new => rows'[x] = rows[x]
    BY <1>2, <1>5, <2>1, <2>2
  <2> HIDE DEF Ids
  <2>9. /\ rows'[request[r].id] = Absent /\ rows'[<<r, "rotated">>] \in accounts
        /\ \A x \in Ids : \/ x = request[r].id
                          \/ x = <<r, "rotated">> /\ Rotated(k)
                          \/ rows'[x] = rows[x]
        /\ k.setCookie \in Ids => k.setCookie = <<r, "rotated">> /\ Rotated(k)
    BY <2>1, <2>3, <2>4, <2>7, <2>8
  <2> QED BY <1>2, <1>3, <2>4, <2>5, <2>6, <2>7, <2>8, <2>9, EndSession
<1> QED BY <1>4, <1>5 DEF Rotate, RotateSession, NewId

(***************************************************************************)
(* handleLogout: the session's row goes, and nothing takes its place.      *)
(***************************************************************************)
LEMMA LogOutKeeps ==
    ASSUME SessionsInv, NEW r \in Requests, LogOut(r)
    PROVE  SessionsInv'
<1> USE NamesAssumption
<1>1. /\ request[r] \in RequestFields /\ StageOf(r, request[r], accounts)
      /\ request[r].pc = "handling" /\ request[r].kind = "logout"
      /\ rows \in [Ids -> Users \cup {Anonymous, Absent}]
  BY DEF SessionsInv, TypeOK, Staged, LogOut, Handling, At
<1>2. UNCHANGED <<expired, accounts, defaults, sessions, jar, restarts>> BY DEF LogOut
<1>3. CASE StoreFails(r) /\ UNCHANGED rows
  BY <1>1, <1>2, <1>3, AnswerStep DEF StoreFails, storeVars
<1> DEFINE id == request[r].id
           k == [request[r] EXCEPT !.pc = "removing", !.setCookie = Cleared, !.answer = "signin"]
<1>4. CASE rows' = [rows EXCEPT ![id] = Absent] /\ Set(r, k)
  <2>1. id \in Ids /\ id # Nothing /\ id = request[r].id
    BY <1>1 DEF StageOf, RequestFields
  <2> HIDE DEF id
  <2>2. /\ k.pc = "removing" /\ k.setCookie = Cleared /\ k.answer = "signin"
        /\ k.id = request[r].id /\ k.owner = request[r].owner /\ k.cookie = request[r].cookie
        /\ k.object = request[r].object /\ k.after = request[r].after /\ k.turn = request[r].turn
        /\ k.user = request[r].user /\ k.kind = request[r].kind
    BY <1>1 DEF RequestFields
  <2>3. k \in RequestFields
    <3> DEFINE a == [request[r] EXCEPT !.pc = "removing"]
               b == [a EXCEPT !.setCookie = Cleared]
    <3>1. k = [b EXCEPT !.answer = "signin"] BY <1>1 DEF RequestFields
    <3>2. a \in RequestFields BY <1>1 DEF RequestFields
    <3> HIDE DEF a, k
    <3>3. b \in RequestFields BY <3>2 DEF RequestFields
    <3> HIDE DEF b
    <3> QED BY <3>1, <3>3 DEF RequestFields
  <2>4. Set(r, k) BY <1>4
  <2> HIDE DEF k
  <2>5. Ended(k) /\ ~Rotated(k) BY <1>1, <2>1, <2>2 DEF Ended, Rotated
  <2>6. /\ rows' \in [Ids -> Users \cup {Anonymous, Absent}]
        /\ rows'[request[r].id] = Absent
        /\ \A x \in Ids : x # request[r].id => rows'[x] = rows[x]
    BY <1>1, <1>4, <2>1
  <2> HIDE DEF Ids
  <2>7. k.setCookie \notin Ids BY <2>2
  <2> QED BY <1>1, <1>2, <2>2, <2>3, <2>4, <2>5, <2>6, <2>7, EndSession
<1> QED BY <1>3, <1>4 DEF LogOut, DeleteSession

(***************************************************************************)
(* The entry of an ended session goes.                                     *)
(***************************************************************************)
LEMMA RemoveKeeps ==
    ASSUME SessionsInv, NEW r \in Requests, Remove(r)
    PROVE  SessionsInv'
<1> USE NamesAssumption
<1>1. TypeOK /\ Staged /\ Identity /\ Mapped BY DEF SessionsInv
<1>2. /\ request \in [Requests -> RequestFields] /\ request[r] \in RequestFields
      /\ StageOf(r, request[r], accounts) /\ request[r].pc = "removing"
      /\ sessions \in [Ids -> Requests \cup {Nothing}]
  BY <1>1 DEF TypeOK, Staged, Remove, At
<1>3. /\ rows' = rows /\ expired' = expired /\ jar' = jar
      /\ restarts' = restarts /\ accounts' = accounts /\ defaults' = defaults
  BY DEF Remove, storeVars
<1> DEFINE id == request[r].id
           k == [request[r] EXCEPT !.pc = "answering"]
<1>4. Set(r, k) /\ sessions' = [sessions EXCEPT ![id] = Nothing] BY DEF Remove, Goto
<1>5. id \in Ids /\ Ended(request[r]) /\ request[r].turn = "none" /\ id = request[r].id
  BY <1>2 DEF StageOf, RequestFields
<1>6. /\ k \in RequestFields /\ k.pc = "answering" /\ k.object = request[r].object
      /\ k.id = request[r].id /\ k.owner = request[r].owner
      /\ k.cookie = request[r].cookie /\ k.after = request[r].after
      /\ k.turn = request[r].turn /\ k.answer = request[r].answer /\ k.kind = request[r].kind
      /\ k.setCookie = request[r].setCookie /\ k.user = request[r].user
  BY <1>2 DEF RequestFields
<1>7. /\ sessions' \in [Ids -> Requests \cup {Nothing}] /\ sessions'[id] = Nothing
      /\ \A x \in Ids : x # id => sessions'[x] = sessions[x]
  BY <1>2, <1>4, <1>5
<1> HIDE DEF k, id
<1>8. Ended(k) BY <1>5, <1>6 DEF Ended
<1>9. StageOf(r, k, accounts) BY <1>2, <1>5, <1>6, <1>8 DEF StageOf, Rotated
<1>10. /\ request' \in [Requests -> RequestFields]
       /\ request'[r] = k /\ \A q \in Requests : q # r => request'[q] = request[q]
       /\ Staged'
  BY <1>1, <1>3, <1>4, <1>6, <1>9, Updated
<1>11. TypeOK' BY <1>1, <1>3, <1>7, <1>10 DEF TypeOK
<1>12. \A q \in Requests :
          /\ request'[q].id = request[q].id /\ request'[q].owner = request[q].owner
          /\ request'[q].cookie = request[q].cookie /\ request'[q].kind = request[q].kind
          /\ request'[q].object = request[q].object
          /\ request'[q].turn = request[q].turn /\ request'[q].after = request[q].after
          /\ Ended(request'[q]) <=> Ended(request[q])
          /\ request[q].pc = "answered" => request'[q].pc = "answered"
          /\ request'[q].pc \in {"loading", "storing"} => request[q].pc \in {"loading", "storing"}
          /\ Works(request'[q]) => Works(request[q])
  <2> SUFFICES ASSUME NEW q \in Requests PROVE <1>12!(q) OBVIOUS
  <2>1. CASE q = r BY <1>2, <1>5, <1>6, <1>8, <1>10, <2>1 DEF Works
  <2>2. CASE q # r BY <1>10, <2>2
  <2> QED BY <2>1, <2>2
<1>13. Identity' BY <1>1, <1>3, <1>12, IdentityKept
<1>14. OneTurnPerObject' BY <1>1, <1>12 DEF Mapped, OneTurnPerObject
<1>15. Mapped'
  <2>1. Entries' BY <1>1, <1>2, <1>7, <1>12 DEF Mapped, Entries
  <2>2. Objects'
    <3>1. \A q \in Requests : request[q].object \in Requests \cup {Nothing}
      BY <1>2 DEF RequestFields
    <3> QED BY <1>1, <1>12, <3>1 DEF Mapped, Objects
  <2>3. AfterAnswered' BY <1>1, <1>12 DEF Mapped, AfterAnswered
  <2>4. LoadsBeside'
    <3> SUFFICES ASSUME NEW q \in Requests, request'[q].pc \in {"loading", "storing"}
                 PROVE  sessions'[request'[q].id] \notin request'[q].after
      BY DEF LoadsBeside
    <3>1. request[q].pc \in {"loading", "storing"} BY <1>12
    <3>2. request[q].id \in Ids /\ request[q].after \subseteq Requests
      <4>1. request[q].id # Nothing BY <1>1, <3>1 DEF Staged, StageOf
      <4> QED BY <1>2, <4>1 DEF RequestFields
    <3>3. sessions[request[q].id] \notin request[q].after
      BY <1>1, <3>1 DEF Mapped, LoadsBeside
    <3> QED BY <1>7, <1>12, <3>2, <3>3
  <2>5. WorksWithEntry'
    <3> SUFFICES ASSUME NEW q \in Requests, Works(request[q])'
                 PROVE  (\/ sessions[request[q].id] = request[q].object
                         \/ Retired(request[q].id) \/ Raced(request[q].id))'
      BY DEF WorksWithEntry
    <3> DEFINE x == request[q].id
    <3>1. Works(request[q]) BY <1>12 DEF Works
    <3>2. x \in Ids
      <4>1. x # Nothing BY <1>1, <3>1 DEF Staged, StageOf, Works
      <4> QED BY <1>2, <4>1 DEF RequestFields
    <3>3. x' = x BY <1>12
    <3>4. \A p \in Requests : Retires(p)' <=> Retires(p) BY <1>12 DEF Retires, Ended
    <3>5. Retired(x) => Retired(x)' BY <1>12, <3>3, <3>4 DEF Retired
    <3>6. Raced(x) => Raced(x)' BY <1>12, <3>3 DEF Raced
    <3>7. Retires(r) BY <1>5 DEF Ended, Retires
    <3>8. x = id => Retired(x)' BY <1>5, <1>12, <3>3, <3>4, <3>7 DEF Retired
    <3>9. sessions[x] = request[q].object \/ Retired(x) \/ Raced(x)
      BY <1>1, <3>1 DEF Mapped, WorksWithEntry
    <3> QED BY <1>7, <1>12, <3>2, <3>3, <3>5, <3>6, <3>8, <3>9
  <2> QED BY <1>14, <2>1, <2>2, <2>3, <2>4, <2>5 DEF Mapped
<1> QED BY <1>10, <1>11, <1>13, <1>15 DEF SessionsInv

(***************************************************************************)
(* The gate of a browserSession: no other turn of it runs.                 *)
(***************************************************************************)
LEMMA CreateTurnKeeps ==
    ASSUME SessionsInv, NEW r \in Requests, CreateTurn(r)
    PROVE  SessionsInv'
<1>1. TypeOK /\ Staged /\ Identity /\ Mapped BY DEF SessionsInv
<1>2. /\ request \in [Requests -> RequestFields] /\ request[r] \in RequestFields
      /\ StageOf(r, request[r], accounts)
      /\ request[r].pc = "handling" /\ request[r].kind = "turn"
  BY <1>1 DEF TypeOK, Staged, CreateTurn, Handling, At
<1>3. UNCHANGED <<storeVars, sessions, jar, restarts>> BY DEF CreateTurn
<1>4. CASE Answer(r, "conflict") BY <1>2, <1>3, <1>4, AnswerStep
<1> DEFINE k == [request[r] EXCEPT !.pc = "answered", !.answer = "created", !.turn = "running"]
<1>5. CASE /\ \A q \in Requests : request[q].turn = "running"
                                    => request[q].object # request[r].object
           /\ Set(r, k)
  <2>1. /\ request[r].object # Nothing /\ request[r].turn = "none" /\ request[r].answer = "none"
        /\ request[r].user \in Users
    BY <1>2 DEF StageOf
  <2>2. /\ k.pc = "answered" /\ k.answer = "created" /\ k.turn = "running"
        /\ k.id = request[r].id /\ k.owner = request[r].owner /\ k.cookie = request[r].cookie
        /\ k.object = request[r].object /\ k.after = request[r].after
        /\ k.user = request[r].user /\ k.kind = request[r].kind
        /\ k.setCookie = request[r].setCookie
    BY <1>2 DEF RequestFields
  <2>3. k \in RequestFields
    <3> DEFINE a == [request[r] EXCEPT !.pc = "answered"]
               b == [a EXCEPT !.answer = "created"]
    <3>1. k = [b EXCEPT !.turn = "running"] BY <1>2 DEF RequestFields
    <3>2. a \in RequestFields BY <1>2 DEF RequestFields
    <3> HIDE DEF a, k
    <3>3. b \in RequestFields BY <3>2 DEF RequestFields
    <3> HIDE DEF b
    <3> QED BY <3>1, <3>3 DEF RequestFields
  <2>4. Set(r, k) BY <1>5
  <2> HIDE DEF k
  <2>5. ~Ended(k) /\ ~Ended(request[r]) BY <2>1, <2>2 DEF Ended
  <2>6. /\ rows' = rows /\ expired' = expired /\ sessions' = sessions /\ jar' = jar
        /\ restarts' = restarts /\ accounts' = accounts /\ defaults' = defaults
    BY <1>3 DEF storeVars
  <2>7. StageOf(r, k, accounts) BY <1>2, <2>1, <2>2, <2>5 DEF StageOf, Rotated
  <2>8. /\ request' \in [Requests -> RequestFields]
        /\ request'[r] = k /\ \A q \in Requests : q # r => request'[q] = request[q]
        /\ Staged'
    BY <1>1, <2>3, <2>4, <2>6, <2>7, Updated
  <2>9. TypeOK' BY <1>1, <2>6, <2>8 DEF TypeOK
  <2>10. \A q \in Requests :
          /\ request'[q].id = request[q].id /\ request'[q].owner = request[q].owner
          /\ request'[q].cookie = request[q].cookie /\ request'[q].kind = request[q].kind
          /\ request'[q].object = request[q].object
          /\ request'[q].after = request[q].after
          /\ request'[q].turn = "running" => q = r \/ request[q].turn = "running"
          /\ Ended(request'[q]) <=> Ended(request[q])
          /\ request[q].pc = "answered" => request'[q].pc = "answered"
          /\ request'[q].pc \in {"loading", "storing"} => request[q].pc \in {"loading", "storing"}
          /\ Works(request'[q]) => Works(request[q])
    <3> SUFFICES ASSUME NEW q \in Requests PROVE <2>10!(q) OBVIOUS
    <3>1. CASE q = r BY <1>2, <2>2, <2>5, <2>8, <3>1 DEF Works
    <3>2. CASE q # r BY <2>8, <3>2
    <3> QED BY <3>1, <3>2
  <2>11. Identity' BY <1>1, <2>6, <2>10, IdentityKept
  <2>12. OneTurnPerObject' BY <1>1, <1>5, <2>10 DEF Mapped, OneTurnPerObject
  <2>13. Mapped' BY <1>1, <2>6, <2>10, <2>12, MappedKept
  <2> QED BY <2>8, <2>9, <2>11, <2>13 DEF SessionsInv
<1> QED BY <1>4, <1>5 DEF CreateTurn

(***************************************************************************)
(* The end of a turn frees the gate of its browserSession.                 *)
(***************************************************************************)
LEMMA EndTurnKeeps ==
    ASSUME SessionsInv, NEW r \in Requests, EndTurn(r)
    PROVE  SessionsInv'
<1> DEFINE k == [request[r] EXCEPT !.turn = "over"]
<1>1. /\ request[r] \in RequestFields /\ StageOf(r, request[r], accounts)
      /\ request[r].turn = "running" /\ accounts \subseteq Users /\ defaults \subseteq accounts
  BY DEF SessionsInv, TypeOK, Staged, EndTurn
<1>2. Set(r, k) BY DEF EndTurn
<1>3. /\ rows' = rows /\ expired' = expired /\ sessions' = sessions /\ jar' = jar
      /\ restarts' = restarts /\ accounts' = accounts /\ defaults' = defaults
  BY DEF EndTurn, storeVars
<1>4. /\ k \in RequestFields /\ k.turn = "over" /\ k.pc = request[r].pc
      /\ k.id = request[r].id /\ k.owner = request[r].owner /\ k.cookie = request[r].cookie
      /\ k.object = request[r].object /\ k.after = request[r].after /\ k.kind = request[r].kind
      /\ k.user = request[r].user
      /\ k.setCookie = request[r].setCookie /\ k.answer = request[r].answer
  BY <1>1 DEF RequestFields
<1> HIDE DEF k
<1>5. Ended(k) <=> Ended(request[r]) BY <1>4 DEF Ended
<1>6. request[r].pc = "answered" /\ request[r].object # Nothing BY <1>1 DEF StageOf
<1>7. StageOf(r, k, accounts) BY <1>1, <1>4, <1>5, <1>6 DEF StageOf, Rotated
<1>8. Works(k) => Works(request[r]) BY <1>1, <1>4 DEF Works
<1> QED BY <1>1, <1>2, <1>3, <1>4, <1>5, <1>6, <1>7, <1>8, QuietStep

(***************************************************************************)
(* The browser is given an ID that this request has made.                  *)
(***************************************************************************)
LEMMA RespondKeeps ==
    ASSUME SessionsInv, NEW r \in Requests, Respond(r)
    PROVE  SessionsInv'
<1> USE NamesAssumption
<1> DEFINE k == [request[r] EXCEPT !.pc = "answered", !.setCookie = Nothing]
<1>1. TypeOK /\ Staged /\ Identity /\ Mapped BY DEF SessionsInv
<1>2. /\ request \in [Requests -> RequestFields] /\ request[r] \in RequestFields
      /\ StageOf(r, request[r], accounts) /\ request[r].pc = "answering"
      /\ jar \in Ids \cup {Nothing}
  BY <1>1 DEF TypeOK, Staged, Respond, At
<1>3. /\ rows' = rows /\ expired' = expired /\ sessions' = sessions
      /\ restarts' = restarts /\ accounts' = accounts /\ defaults' = defaults
  BY DEF Respond, storeVars
<1>4. Set(r, k) BY DEF Respond
<1>5. /\ k.pc = "answered" /\ k.turn = request[r].turn
      /\ k.id = request[r].id /\ k.owner = request[r].owner /\ k.cookie = request[r].cookie
      /\ k.object = request[r].object /\ k.after = request[r].after /\ k.kind = request[r].kind
      /\ k.user = request[r].user /\ k.setCookie = Nothing /\ k.answer = request[r].answer
  BY <1>2 DEF RequestFields
<1>6. k \in RequestFields
  <2> DEFINE a == [request[r] EXCEPT !.pc = "answered"]
  <2>1. k = [a EXCEPT !.setCookie = Nothing] BY <1>2 DEF RequestFields
  <2>2. a \in RequestFields BY <1>2 DEF RequestFields
  <2> HIDE DEF a, k
  <2> QED BY <2>1, <2>2 DEF RequestFields
<1> HIDE DEF k
<1>7. /\ Ended(k) <=> Ended(request[r])
      /\ request[r].turn = "none" /\ request[r].user \in Users
  BY <1>2, <1>5 DEF Ended, StageOf
<1>8. StageOf(r, k, accounts)
  <2> HIDE DEF Ids
  <2>1. k.setCookie \notin Ids BY <1>5
  <2> QED BY <1>2, <1>5, <1>7, <2>1 DEF StageOf
<1>9. /\ request' \in [Requests -> RequestFields]
      /\ request'[r] = k /\ \A q \in Requests : q # r => request'[q] = request[q]
      /\ Staged'
  BY <1>1, <1>3, <1>4, <1>6, <1>8, Updated
<1>10. jar' = jar \/ jar' = Nothing \/ (jar' \in Ids /\ jar' = request[r].setCookie)
  <2>1. request[r].setCookie \in Ids \cup {Nothing, Cleared} BY <1>2 DEF RequestFields
  <2> HIDE DEF Ids
  <2> QED BY <2>1 DEF Respond
<1>11. TypeOK' BY <1>1, <1>2, <1>3, <1>9, <1>10 DEF TypeOK
<1>12. \A q \in Requests :
          /\ request'[q].id = request[q].id /\ request'[q].owner = request[q].owner
          /\ request'[q].cookie = request[q].cookie /\ request'[q].kind = request[q].kind
          /\ request'[q].object = request[q].object
          /\ request'[q].turn = request[q].turn /\ request'[q].after = request[q].after
          /\ Ended(request'[q]) <=> Ended(request[q])
          /\ request[q].pc = "answered" => request'[q].pc = "answered"
          /\ request'[q].pc \in {"loading", "storing"} => request[q].pc \in {"loading", "storing"}
          /\ Works(request'[q]) => Works(request[q])
  <2> SUFFICES ASSUME NEW q \in Requests PROVE <1>12!(q) OBVIOUS
  <2>1. CASE q = r BY <1>2, <1>5, <1>7, <1>9, <2>1 DEF Works
  <2>2. CASE q # r BY <1>9, <2>2
  <2> QED BY <2>1, <2>2
<1>13. Identity'
  <2>1. \A q \in Requests : Retires(q)' <=> Retires(q) BY <1>12 DEF Retires, Ended
  <2>2. \A x : Retired(x)' <=> Retired(x) BY <1>12, <2>1 DEF Retired
  <2>3. \A x : Issued(x)' <=> Issued(x) BY <1>12, <2>1 DEF Issued
  <2>4. Made' = Made BY <1>12 DEF Made, Rotated
  <2>5. jar' \in Made \cup {Nothing} /\ (jar' = Boot => jar = Boot)
    <3>1. CASE jar' = jar \/ jar' = Nothing
      <4>1. Boot \in Ids BY DEF Ids
      <4>2. jar \in Made \cup {Nothing} BY <1>1 DEF Identity, UsesMade
      <4> QED BY <3>1, <4>1, <4>2
    <3>2. CASE jar' \in Ids /\ jar' = <<r, "public">> /\ request[r].id = <<r, "public">>
      <4>1. jar' # Boot BY <3>2
      <4> QED BY <3>2, <4>1 DEF Made
    <3>3. CASE jar' \in Ids /\ jar' = <<r, "rotated">> /\ Rotated(request[r])
      <4>1. jar' # Boot BY <3>3
      <4> QED BY <3>3, <4>1 DEF Made
    <3> QED BY <1>2, <1>10, <3>1, <3>2, <3>3 DEF StageOf
  <2>6. UsesMade' BY <1>1, <1>12, <2>4, <2>5 DEF Identity, UsesMade
  <2>7. RowsOwned' BY <1>1, <1>3, <1>12 DEF Identity, RowsOwned
  <2>8. OneOwner' BY <1>1, <1>12 DEF Identity, OneOwner
  <2>9. StoredUntilRetired'
    <3>1. InUse(Boot)' => InUse(Boot) BY <1>12, <2>5 DEF InUse
    <3> QED BY <1>1, <1>3, <2>2, <2>3, <3>1 DEF Identity, StoredUntilRetired
  <2> QED BY <2>6, <2>7, <2>8, <2>9 DEF Identity
<1>14. OneTurnPerObject' BY <1>1, <1>12 DEF Mapped, OneTurnPerObject
<1>15. Mapped' BY <1>1, <1>3, <1>12, <1>14, MappedKept
<1> QED BY <1>9, <1>11, <1>13, <1>15 DEF SessionsInv

----------------------------------------------------------------------------
(***************************************************************************)
(* Time and the process: no request gets anywhere.                         *)
(***************************************************************************)
LEMMA StutterKeeps ==
    ASSUME SessionsInv, expired' \subseteq Ids,
           UNCHANGED <<rows, accounts, defaults, sessions, jar, request, restarts>>
    PROVE  SessionsInv'
<1>1. TypeOK /\ Staged /\ Identity /\ Mapped BY DEF SessionsInv
<1>2. TypeOK' BY <1>1 DEF TypeOK
<1>3. Staged' BY <1>1 DEF Staged
<1>4. Identity' BY <1>1, IdentityKept
<1>5. OneTurnPerObject' BY <1>1 DEF Mapped, OneTurnPerObject
<1>6. Mapped' BY <1>1, <1>5, MappedKept
<1> QED BY <1>2, <1>3, <1>4, <1>6 DEF SessionsInv

(***************************************************************************)
(* The bound on faults bounds the restarts.                                *)
(***************************************************************************)
LEMMA FaultsBoundRestarts ==
    ASSUME TypeOK, Faults < MaxFaults
    PROVE  restarts + 1 \in 0..MaxFaults
<1>1. IsFiniteSet(Ids)
  <2>1. IsFiniteSet({}) BY FS_EmptySet
  <2>2. IsFiniteSet({} \cup {"public"}) BY <2>1, FS_AddElement
  <2>3. IsFiniteSet(({} \cup {"public"}) \cup {"rotated"}) BY <2>2, FS_AddElement
  <2>4. ({} \cup {"public"}) \cup {"rotated"} = {"public", "rotated"} OBVIOUS
  <2>5. IsFiniteSet({"public", "rotated"}) BY <2>3, <2>4
  <2>6. IsFiniteSet(Requests \X {"public", "rotated"})
    BY <2>5, BoundsAssumption, FS_Product
  <2>7. IsFiniteSet((Requests \X {"public", "rotated"}) \cup {Boot})
    BY <2>6, FS_AddElement
  <2>8. (Requests \X {"public", "rotated"}) \cup {Boot} = Ids BY DEF Ids
  <2> QED BY <2>7, <2>8
<1> DEFINE errors == {r \in Requests : request[r].answer = "error"}
<1>2. IsFiniteSet(expired) BY <1>1, FS_Subset DEF TypeOK
<1>3. Cardinality(expired) \in Nat BY <1>2, FS_CardinalityType
<1>4. errors \in SUBSET Requests OBVIOUS
<1>5. IsFiniteSet(errors) BY <1>4, BoundsAssumption, FS_Subset
<1>6. Cardinality(errors) \in Nat BY <1>5, FS_CardinalityType
<1>7. Cardinality(expired) + restarts + Cardinality(errors) < MaxFaults BY DEF Faults
<1> HIDE DEF errors
<1>8. restarts \in 0..MaxFaults /\ MaxFaults \in Nat BY BoundsAssumption DEF TypeOK
<1> QED BY <1>3, <1>6, <1>7, <1>8

(***************************************************************************)
(* A restart empties the map, and no handler and no turn is left that could *)
(* work with an entry.                                                     *)
(***************************************************************************)
LEMMA RestartKeeps ==
    ASSUME SessionsInv, Restart
    PROVE  SessionsInv'
<1> USE NamesAssumption
<1>1. TypeOK /\ Staged /\ Identity /\ Mapped BY DEF SessionsInv
<1>2. request \in [Requests -> RequestFields] BY <1>1 DEF TypeOK
<1>3. /\ rows' = rows /\ expired' = expired /\ jar' = jar
      /\ accounts' = accounts /\ defaults' = defaults
      /\ sessions' = [id \in Ids |-> Nothing] /\ restarts' = restarts + 1
  BY DEF Restart, storeVars
<1>4. ASSUME NEW q \in Requests
      PROVE  /\ request'[q] \in RequestFields /\ StageOf(q, request'[q], accounts)
             /\ request'[q].id = request[q].id /\ request'[q].owner = request[q].owner
             /\ request'[q].cookie = request[q].cookie /\ request'[q].kind = request[q].kind
             /\ request'[q].object = request[q].object /\ request'[q].after = request[q].after
             /\ Ended(request'[q]) <=> Ended(request[q])
             /\ request[q].pc = "answered" => request'[q].pc = "answered"
             /\ request'[q].pc \in {"idle", "answered", "lost"}
             /\ request'[q].turn # "running"
  <2>1. request[q] \in RequestFields /\ StageOf(q, request[q], accounts)
    BY <1>1, <1>2 DEF Staged
  <2> DEFINE pc == IF request[q].pc \in {"idle", "answered"} THEN request[q].pc ELSE "lost"
             turn == IF request[q].turn = "running" THEN "lost" ELSE request[q].turn
             a == [request[q] EXCEPT !.pc = pc]
             k == [a EXCEPT !.turn = turn]
  <2>2. request'[q] = [request[q] EXCEPT !.pc = pc, !.turn = turn] BY DEF Restart
  <2>3. /\ pc \in {"idle", "answered", "lost"} /\ turn \in {"none", "over", "lost"}
        /\ pc = "idle" <=> request[q].pc = "idle"
        /\ request[q].pc = "answered" => pc = "answered"
        /\ turn # "none" => request[q].turn # "none"
    BY <2>1 DEF RequestFields
  <2> HIDE DEF pc, turn
  <2>4. request'[q] = k BY <2>1, <2>2 DEF RequestFields
  <2>5. /\ k.pc = pc /\ k.turn = turn
        /\ k.id = request[q].id /\ k.owner = request[q].owner /\ k.cookie = request[q].cookie
        /\ k.object = request[q].object /\ k.after = request[q].after /\ k.kind = request[q].kind
        /\ k.user = request[q].user
        /\ k.setCookie = request[q].setCookie /\ k.answer = request[q].answer
    BY <2>1 DEF RequestFields
  <2>6. a \in RequestFields BY <2>1, <2>3 DEF RequestFields
  <2> HIDE DEF a
  <2>7. k \in RequestFields BY <2>3, <2>6 DEF RequestFields
  <2> HIDE DEF k
  <2>8. Ended(k) <=> Ended(request[q]) BY <2>5 DEF Ended
  <2>9. StageOf(q, k, accounts)
    <3>1. turn # "none" => request[q].pc = "answered" /\ request[q].object # Nothing
      BY <2>1, <2>3 DEF StageOf
    <3> QED BY <2>1, <2>3, <2>5, <2>8, <3>1 DEF StageOf, Rotated
  <2> QED BY <2>3, <2>4, <2>5, <2>7, <2>8, <2>9
<1>5. request' \in [Requests -> RequestFields]
  <2>1. request' = [q \in Requests |-> request'[q]] BY DEF Restart
  <2> QED BY <1>4, <2>1
<1>6. Staged' BY <1>3, <1>4 DEF Staged
<1>7. TypeOK'
  <2>1. restarts' \in 0..MaxFaults BY <1>1, <1>3, FaultsBoundRestarts DEF Restart
  <2> QED BY <1>1, <1>3, <1>5, <2>1 DEF TypeOK
<1>8. Identity' BY <1>1, <1>3, <1>4, IdentityKept
<1>9. \A x \in Ids : sessions'[x] = Nothing BY <1>3
<1>10. Mapped'
  <2>1. Entries' BY <1>9 DEF Entries
  <2>2. Objects'
    <3>1. \A q \in Requests : request[q].object \in Requests \cup {Nothing}
      BY <1>2 DEF RequestFields
    <3> QED BY <1>1, <1>4, <3>1 DEF Mapped, Objects
  <2>3. AfterAnswered' BY <1>1, <1>4 DEF Mapped, AfterAnswered
  <2>4. LoadsBeside' BY <1>4 DEF LoadsBeside
  <2>5. WorksWithEntry' BY <1>4 DEF WorksWithEntry, Works
  <2>6. OneTurnPerObject' BY <1>4 DEF OneTurnPerObject
  <2> QED BY <2>1, <2>2, <2>3, <2>4, <2>5, <2>6 DEF Mapped
<1> QED BY <1>6, <1>7, <1>8, <1>10 DEF SessionsInv

(***************************************************************************)
(* The invariant holds at first and is kept by every step.                 *)
(***************************************************************************)
LEMMA SessionsInit ==
    ASSUME Init
    PROVE  SessionsInv
<1> USE NamesAssumption
<1>1. /\ accounts \in SUBSET Users /\ jar \in {Nothing, Boot} /\ expired = {} /\ defaults = {}
      /\ sessions = [id \in Ids |-> Nothing] /\ request = [r \in Requests |-> NewRequest]
      /\ restarts = 0
  BY DEF Init
<1>2. PICK user \in accounts \cup {Anonymous} :
         rows = [id \in Ids |-> IF id = jar THEN user ELSE Absent]
  BY DEF Init
<1>3. /\ Boot \in Ids /\ Boot # Nothing /\ Nothing \notin Ids /\ user # Absent BY <1>1 DEF Ids
<1>4. /\ NewRequest.kind = "none" /\ NewRequest.cookie = Nothing /\ NewRequest.after = {}
      /\ NewRequest.pc = "idle" /\ NewRequest.id = Nothing /\ NewRequest.object = Nothing
      /\ NewRequest.turn = "none" /\ NewRequest.setCookie = Nothing /\ NewRequest.answer = "none"
  BY DEF NewRequest
<1>5. NewRequest \in RequestFields BY DEF NewRequest, RequestFields
<1> HIDE DEF Ids
<1>6. TypeOK
  <2>1. rows \in [Ids -> Users \cup {Anonymous, Absent}] BY <1>1, <1>2
  <2>2. request \in [Requests -> RequestFields] BY <1>1, <1>5
  <2>3. restarts \in 0..MaxFaults BY <1>1, BoundsAssumption
  <2> QED BY <1>1, <1>3, <2>1, <2>2, <2>3 DEF TypeOK
<1>7. \A r \in Requests : request[r] = NewRequest BY <1>1
<1>8. Staged
  <2>1. \A r : StageOf(r, NewRequest, accounts) BY <1>3, <1>4 DEF StageOf
  <2> QED BY <1>7, <2>1 DEF Staged
<1>9. Identity
  <2>1. UsesMade BY <1>1, <1>3, <1>4, <1>7 DEF UsesMade, Made
  <2>2. RowsOwned
    <3>1. \A id \in Ids : rows[id] \in accounts \cup {Anonymous, Absent} BY <1>2
    <3> QED BY <1>4, <1>7, <3>1 DEF RowsOwned
  <2>3. OneOwner BY <1>4, <1>7 DEF OneOwner
  <2>4. \A r \in Requests : ~Retires(r) BY <1>4, <1>7 DEF Retires
  <2>5. \A id \in Ids : ~Issued(id) /\ ~Retired(id)
    BY <1>3, <1>4, <1>7, <2>4 DEF Issued, Retired
  <2>6. InUse(Boot) => rows[Boot] # Absent BY <1>2, <1>3, <1>4, <1>7 DEF InUse
  <2> QED BY <2>1, <2>2, <2>3, <2>5, <2>6 DEF Identity, StoredUntilRetired
<1>10. Mapped
  BY <1>1, <1>4, <1>7 DEF Mapped, Entries, Objects, AfterAnswered, LoadsBeside, WorksWithEntry,
                          Works, OneTurnPerObject
<1> QED BY <1>6, <1>8, <1>9, <1>10 DEF SessionsInv

(***************************************************************************)
(* One case for each action.                                               *)
(***************************************************************************)
LEMMA SessionsNext == SessionsInv /\ [Next]_vars => SessionsInv'
<1> SUFFICES ASSUME SessionsInv, [Next]_vars PROVE SessionsInv' OBVIOUS
<1>1. ASSUME NEW r \in Requests,
             \/ Arrive(r) \/ VerifyPublic(r) \/ VerifyUser(r) \/ CreateAnonymous(r)
             \/ Lookup(r) \/ Load(r) \/ StoreEntry(r) \/ Respond(r) \/ EndTurn(r)
      PROVE  SessionsInv'
  BY <1>1, ArriveKeeps, VerifyKeeps, CreateAnonymousKeeps, LookupKeeps, LoadKeeps,
     StoreEntryKeeps, RespondKeeps, EndTurnKeeps
<1>2. ASSUME NEW r \in Requests, Handle(r) PROVE SessionsInv'
  BY <1>2, AnswersKeep, SignInKeeps, RotateKeeps, LogOutKeeps, RemoveKeeps, CreateTurnKeeps
     DEF Handle
<1>3. ASSUME NEW id \in Ids, Expire(id) PROVE SessionsInv'
  <2>1. expired' \subseteq Ids BY <1>3 DEF Expire, SessionsInv, TypeOK
  <2> QED BY <1>3, <2>1, StutterKeeps DEF Expire
<1>4. CASE Restart BY <1>4, RestartKeeps
<1>5. CASE UNCHANGED vars
  <2>1. expired' \subseteq Ids BY <1>5 DEF vars, SessionsInv, TypeOK
  <2> QED BY <1>5, <2>1, StutterKeeps DEF vars
<1> QED BY <1>1, <1>2, <1>3, <1>4, <1>5 DEF Next

(***************************************************************************)
(* The invariant of every behaviour.                                       *)
(***************************************************************************)
LEMMA SessionsInvariant == Spec => []SessionsInv
BY SessionsInit, SessionsNext, PTL DEF Spec

----------------------------------------------------------------------------
(***************************************************************************)
(* Types hold, for any number of requests and users.                       *)
(***************************************************************************)
THEOREM SessionsTypeCorrect == Spec => []TypeOK
<1>1. SessionsInv => TypeOK BY DEF SessionsInv
<1> QED BY <1>1, SessionsInvariant, PTL

(***************************************************************************)
(* A handler never works with the browserSession of another session or of  *)
(* another user (browserSessionForStoredSession).                          *)
(***************************************************************************)
THEOREM AlwaysServedAsStored == Spec => []ServedAsStored
<1>1. SessionsInv => ServedAsStored
  <2> SUFFICES ASSUME SessionsInv, NEW r \in Requests, request[r].object # Nothing
               PROVE  /\ request[request[r].object].id = request[r].id
                      /\ request[request[r].object].owner = request[r].owner
    BY DEF ServedAsStored
  <2>1. request[r].object \in Requests BY DEF SessionsInv, TypeOK, RequestFields
  <2>2. request[request[r].object].id = request[r].id
    BY DEF SessionsInv, Mapped, Objects
  <2>3. request[r].id # Nothing BY DEF SessionsInv, Staged, StageOf
  <2> QED BY <2>1, <2>2, <2>3 DEF SessionsInv, Identity, OneOwner
<1> QED BY <1>1, SessionsInvariant, PTL

(***************************************************************************)
(* The row of a session that was issued is gone exactly when a request     *)
(* that came with it has signed in, registered or signed out, over the     *)
(* failures of the store and the restarts of the process.                  *)
(***************************************************************************)
THEOREM SessionEndsWhenRetired == Spec => []EndsWhenRetired
<1>1. SessionsInv => EndsWhenRetired
  BY DEF SessionsInv, Identity, StoredUntilRetired, EndsWhenRetired
<1> QED BY <1>1, SessionsInvariant, PTL

(***************************************************************************)
(* The map leads to a running turn, but for the two exceptions the         *)
(* property names.                                                         *)
(***************************************************************************)
THEOREM RunningTurnStaysReachable == Spec => []RunningTurnIsReachable
<1>1. SessionsInv => RunningTurnIsReachable
  BY DEF SessionsInv, Mapped, WorksWithEntry, Works, RunningTurnIsReachable
<1> QED BY <1>1, SessionsInvariant, PTL

(***************************************************************************)
(* Two turns of one session never run together, but for the same two: both *)
(* would work with the one entry of the map, whose gate lets one by.       *)
(***************************************************************************)
THEOREM SessionRunsOneTurn == Spec => []OneTurnPerSession
<1>1. SessionsInv => OneTurnPerSession
  <2> SUFFICES ASSUME SessionsInv, NEW t \in Requests, NEW u \in Requests,
                      request[t].turn = "running", request[u].turn = "running",
                      request[t].id = request[u].id,
                      ~Raced(request[t].id), ~Retired(request[t].id)
               PROVE  t = u
    BY DEF OneTurnPerSession
  <2>1. /\ sessions[request[t].id] = request[t].object
        /\ sessions[request[u].id] = request[u].object
    BY DEF SessionsInv, Mapped, WorksWithEntry, Works
  <2> QED BY <2>1 DEF SessionsInv, Mapped, OneTurnPerObject
<1> QED BY <1>1, SessionsInvariant, PTL
=============================================================================
