---------------------------- MODULE ServerProofs ----------------------------
(***************************************************************************)
(* What holds of Server for every set of spaces, users and sessions, in    *)
(* every interleaving of requests, failing saves and removals, kills and   *)
(* restarts.                                                               *)
(***************************************************************************)
EXTENDS Server, TLAPS

\* The locks: who holds one is busy with it, and nobody is left behind by a
\* process that has ended.
LockInv ==
  /\ op.at = "enter" => op.kind \in Kind
  /\ op.at \in {"close", "remove"} => op.kind = None
  /\ op # Unlocked => op.by # saving.by
  /\ BusyHoldsLock
  /\ ~up => op = Unlocked /\ saving = NotSaving /\ \A c \in Caller : At(c, "none")

\* A creation is under way.
Entering(s) == op.space = s /\ op.kind \in Kind

\* Maps and engines: an engine in the map is listed, of the listed type, and
\* open until DeleteSpace closes it.
EngineInv ==
  /\ \A s \in Space : spaces[s] # 0 =>
       /\ Listed(s) /\ spaces[s] \in DOMAIN engines[s]
       /\ engines[s][spaces[s]].kind = metas[s]
       /\ engines[s][spaces[s]].open \/ (op.at = "close" /\ op.space = s)
  /\ OpenEngineIsKnown
  /\ op.at = "enter" =>
       /\ spaces[op.space] = 0 /\ ~Listed(op.space)
       /\ Len(engines[op.space]) > 0
       /\ engines[op.space][Len(engines[op.space])] = [kind |-> op.kind, open |-> TRUE]
  /\ op.at = "close" => \A i \in DOMAIN engines[op.space] : ~engines[op.space][i].open
  /\ op.at \in {"close", "remove"} => Listed(op.space)
  /\ op.at = "remove" => spaces[op.space] = 0
  /\ op.at \in {"save", "write"} =>
       IF op.kind = None THEN spaces[op.space] = 0 /\ ~Listed(op.space)
       ELSE spaces[op.space] = Len(engines[op.space]) /\ spaces[op.space] # 0

\* Requests: the engine that was looked up is still the object it was, or was
\* closed by a DeleteSpace; it is never the one a creation is about to enter.
RequestFits(c) ==
  /\ request[c].space \in Space
  /\ request[c].engine \in DOMAIN engines[request[c].space]
  /\ Found(c).open \/ overtaken[c]
  /\ At(c, "call") => Found(c).kind = request[c].kind
  /\ Entering(request[c].space) => request[c].engine < Len(engines[request[c].space])

RequestInv == \A c \in Caller : session[c].at \in {"meta", "call"} => RequestFits(c)

\* metadata.json against memory: while a change is made, and until a save
\* fails, they differ at most in the space that is being changed.
CatalogInv ==
  /\ up /\ op.at \notin {"save", "write"} /\ ~unsaved => catalog.metas = metas
  /\ up /\ op.at = "save" /\ ~unsaved =>
       \A t \in Space : t # op.space => catalog.metas[t] = metas[t]
  /\ op.at = "write" => catalog.torn
  /\ ~up => ~unsaved /\ (~forgotten => ~catalog.torn)

\* The directories against memory ...
Removing(s) == op.space = s /\ op.kind = None /\ op.at \in {"remove", "save"}

DirsFitMemory ==
  \A s \in Space :
    /\ ~Listed(s) => dirs[s] \in {"none", "empty"}
    /\ Entering(s) => dirs[s] = "empty"
    /\ Listed(s) /\ s \notin spoiled /\ ~Removing(s) => dirs[s] \in {"empty", "data"}
    /\ Listed(s) /\ s \notin spoiled /\ op.space # s /\ spaces[s] = 0 => metas[s] = "vector"

\* ... and against the file, which is what a restart goes by.
DirsFitCatalog ==
  \A s \in Space :
    /\ catalog.metas[s] = None => dirs[s] \in {"none", "empty"}
    /\ catalog.metas[s] # None /\ s \notin spoiled /\ ~Removing(s) => dirs[s] \in {"empty", "data"}

DirInv ==
  /\ up /\ ~forgotten => DirsFitMemory
  /\ ~forgotten /\ ~unsaved /\ ~catalog.torn => DirsFitCatalog

\* Rights: a command that is still to be checked can only pass if its user has
\* been administrator since it was sent.
RightsInv ==
  \A c \in Caller :
    /\ session[c].at # "none" => session[c].user \in User
    /\ At(c, "check") /\ IsAdmin(session[c].user) => wasAdmin[c]
    /\ session[c].at \in {"run", "busy"} => wasAdmin[c]

\* The inductive invariant.
ServerInv ==
  /\ TypeOK /\ LockInv /\ EngineInv /\ RequestInv
  /\ CatalogInv /\ DirInv /\ UserFileMatches /\ RightsInv

-----------------------------------------------------------------------------
\* What a step of the server does to the space manager.
SpacesStep ==
  \/ ~up /\ up' /\ LoadSpaces
  \/ ~up' /\ LoseSpaces
  \/ /\ up' = up
     /\ \/ \E c \in Caller, s \in Space, k \in Kind : CreateOpen(c, s, k)
        \/ \E s \in Space : CreateRejected(s)
        \/ CreateEnter
        \/ \E c \in Caller, s \in Space : DeleteClose(c, s)
        \/ DeleteUnmap \/ DeleteForget \/ DeleteFails
        \/ SaveTruncate \/ SaveWrite \/ SaveFails
        \/ UNCHANGED <<memory, catalog, spaceMarks>> /\ \E c \in Caller : Call(c)
        \/ UNCHANGED spaceVars

\* The other steps leave it alone.
LEMMA SpacesSteps == [Next]_vars => SpacesStep
<1> SUFFICES ASSUME [Next]_vars PROVE SpacesStep
  OBVIOUS
<1>1. CASE UNCHANGED vars
  BY <1>1 DEF vars, SpacesStep
<1>2. CASE Start \/ Kill
  BY <1>2 DEF Start, Kill, SpacesStep
<1>3. ASSUME NEW c \in Caller, NEW s \in Space, RunRejected(c, s) \/ RunDelete(c, s) PROVE SpacesStep
  BY <1>3 DEF RunRejected, RunDelete, SpacesStep
<1>4. ASSUME NEW c \in Caller, NEW s \in Space, NEW k \in Kind, RunCreate(c, s, k) PROVE SpacesStep
  BY <1>4 DEF RunCreate, SpacesStep
<1>5. CASE SpacesProgress \/ SpacesReturn
  BY <1>5 DEF SpacesProgress, SpacesReturn, SpacesStep
<1>6. ASSUME NEW c \in Caller, Call(c) PROVE SpacesStep
  BY <1>6 DEF Call, SpacesStep
<1>7. ASSUME NEW c \in Caller,
             \/ \E u \in User : Login(c, u) \/ RunUser(c, u)
             \/ Leave(c) \/ AdminCheck(c) \/ RunError(c) \/ ReadMeta(c)
             \/ \E what \in {"create", "delete", "user"} : Send(c, what)
             \/ \E s \in Space, k \in Kind, what \in Access : Lookup(c, s, k, what)
      PROVE  UNCHANGED <<spaceVars, up>>
  BY <1>7 DEF Login, RunUser, Leave, AdminCheck, RunError, ReadMeta, Send, Lookup
<1>8. CASE FirstStart \/ UsersProgress \/ UsersReturn
  BY <1>8 DEF FirstStart, UsersProgress, UsersReturn, SpacesStep
<1>9. UNCHANGED <<spaceVars, up>> => SpacesStep
  BY DEF SpacesStep
<1> QED
  BY <1>1, <1>2, <1>3, <1>4, <1>5, <1>6, <1>7, <1>8, <1>9 DEF Next

\* Whoever holds sm.lock is a caller, at work on a space.
LEMMA Holder ==
  ASSUME SpacesTypeOK, op.at # "idle"
  PROVE  /\ op \in Operation /\ op.space \in Space /\ op.by \in Caller
         /\ \A label \in {"remove", "save", "write"} : [op EXCEPT !.at = label] \in Operation
<1>1. op \in Operation
  BY DEF SpacesTypeOK, Unlocked
<1> QED BY <1>1 DEF Operation

\* Types of catalog, maps, engines and directories.
LEMMA SpacesType == SpacesTypeOK /\ SpacesStep => SpacesTypeOK'
<1> SUFFICES ASSUME SpacesTypeOK, SpacesStep PROVE SpacesTypeOK'
  OBVIOUS
<1>1. CASE LoadSpaces
  <2>1. PICK opens \in SUBSET {s \in Space : InCatalog[s] # None} :
          /\ metas' = InCatalog /\ op' = Unlocked /\ UNCHANGED <<spaceFiles, spaceMarks>>
          /\ spaces' = [s \in Space |-> IF s \in opens THEN 1 ELSE 0]
          /\ engines' = [s \in Space |-> IF s \in opens
                            THEN <<[kind |-> InCatalog[s], open |-> TRUE]>> ELSE <<>>]
    BY <1>1, Zenon DEF LoadSpaces
  <2>2. InCatalog \in [Space -> Kind \cup {None}]
    BY DEF SpacesTypeOK, InCatalog
  <2>3. \A s \in opens : [kind |-> InCatalog[s], open |-> TRUE] \in Engine
    BY <2>2 DEF Engine
  <2>4. engines' \in [Space -> Seq(Engine)]
    BY <2>1, <2>3
  <2>5. spaces' \in [Space -> Nat]
    BY <2>1
  <2> QED BY <2>1, <2>2, <2>4, <2>5 DEF Unlocked, SpacesTypeOK, None, Operation, spaceFiles, spaceMarks
<1>2. CASE LoseSpaces
  <2>1. spoiled' \subseteq Space
    BY <1>2 DEF LoseSpaces, SpacesTypeOK, Operation, Unlocked
  <2>2. engines' \in [Space -> Seq(Engine)] /\ spaces' \in [Space -> Nat]
    BY <1>2 DEF LoseSpaces
  <2> QED BY <1>2, <2>1, <2>2 DEF LoseSpaces, NoSpaces, Unlocked, SpacesTypeOK, None, Operation, spaceFiles
<1>3. ASSUME NEW c \in Caller, NEW s \in Space, NEW k \in Kind, CreateOpen(c, s, k) PROVE SpacesTypeOK'
  <2>1. [kind |-> k, open |-> TRUE] \in Engine /\ engines \in [Space -> Seq(Engine)]
    BY DEF Engine, SpacesTypeOK
  <2>2. engines' \in [Space -> Seq(Engine)]
    BY <1>3, <2>1 DEF CreateOpen
  <2> QED BY <1>3, <2>2 DEF CreateOpen, SpacesTypeOK, None, Operation, spaceMarks
<1>4. ASSUME NEW s \in Space, CreateRejected(s) PROVE SpacesTypeOK'
  BY <1>4 DEF CreateRejected, SpacesTypeOK, None, memory, spaceMarks
<1>5. CASE CreateEnter
  <2>1. op' \in Operation /\ op.space \in Space /\ op.kind \in Kind \cup {None}
    BY <1>5, Holder DEF CreateEnter, Operation
  <2>2. Len(engines[op.space]) \in Nat
    BY <2>1 DEF SpacesTypeOK
  <2> QED BY <1>5, <2>1, <2>2 DEF CreateEnter, SpacesTypeOK, spaceFiles, spaceMarks
<1>6. ASSUME NEW c \in Caller, NEW s \in Space, DeleteClose(c, s) PROVE SpacesTypeOK'
  <2>1. engines[s] \in Seq(Engine) /\ engines \in [Space -> Seq(Engine)]
    BY DEF SpacesTypeOK
  <2>2. \A i \in DOMAIN engines[s] : [engines[s][i] EXCEPT !.open = FALSE] \in Engine
    <3>1. \A i \in DOMAIN engines[s] : engines[s][i] \in Engine
      BY <2>1
    <3> QED BY <3>1 DEF Engine
  <2>3. [i \in DOMAIN engines[s] |-> IF i = spaces[s] THEN [engines[s][i] EXCEPT !.open = FALSE]
                                    ELSE engines[s][i]] \in Seq(Engine)
    BY <2>1, <2>2
  <2>4. engines' \in [Space -> Seq(Engine)]
    BY <1>6, <2>1, <2>3 DEF DeleteClose, CloseEngine
  <2> QED BY <1>6, <2>4 DEF DeleteClose, SpacesTypeOK, None, Operation, spaceFiles, spaceMarks
<1>7. CASE DeleteUnmap
  <2>1. op' \in Operation /\ op.space \in Space
    BY <1>7, Holder DEF DeleteUnmap
  <2> QED BY <1>7, <2>1 DEF DeleteUnmap, SpacesTypeOK, None, spaceMarks
<1>8. CASE DeleteForget
  <2>1. op' \in Operation /\ op.space \in Space
    BY <1>8, Holder DEF DeleteForget
  <2> QED BY <1>8, <2>1 DEF DeleteForget, SpacesTypeOK, None, spaceMarks
<1>9. CASE DeleteFails
  BY <1>9 DEF DeleteFails, SpacesTypeOK, Operation, Unlocked, spaceFiles, spaceMarks
<1>10. CASE SaveTruncate
  <2>1. op' \in Operation /\ op.space \in Space
    BY <1>10, Holder DEF SaveTruncate
  <2> QED BY <1>10, <2>1 DEF SaveTruncate, SpacesTypeOK, None, NoSpaces, spaceMarks
<1>11. CASE SaveWrite
  BY <1>11 DEF SaveWrite, SpacesTypeOK, None, Operation, Unlocked
<1>12. CASE SaveFails
  BY <1>12 DEF SaveFails, SpacesTypeOK, None, Operation, Unlocked, spaceFiles
<1>13. ASSUME NEW c \in Caller, UNCHANGED <<memory, catalog, spaceMarks>>, Call(c) PROVE SpacesTypeOK'
  BY <1>13 DEF Call, SpacesTypeOK, memory, spaceMarks
<1>14. CASE UNCHANGED spaceVars
  BY <1>14 DEF SpacesTypeOK, spaceVars, memory, spaceFiles, spaceMarks
<1> QED
  BY <1>1, <1>2, <1>3, <1>4, <1>5, <1>6, <1>7, <1>8, <1>9, <1>10, <1>11, <1>12, <1>13, <1>14 DEF SpacesStep

-----------------------------------------------------------------------------
\* Every command about users is a change of one of them, saved under a.lock.
LEMMA UserChange ==
  ASSUME UsersTypeOK(Caller), NEW c \in Caller, NEW u \in User, RunUser(c, u)
  PROVE  \E a \in Account \cup {NoUser} : ChangeUser(c, u, a)
<1> USE DEF UsersTypeOK, Users
<1>1. Exists(u) => users[u] \in Account
  BY DEF Exists, NoUser
<1>2. CASE CreateUser(c, u) \/ DeleteUser(c, u)
  BY <1>2 DEF CreateUser, DeleteUser
<1>3. CASE UpdateUserPassword(c, u)
  <2>1. Exists(u) /\ \A p \in Password : [users[u] EXCEPT !.password = p] \in Account
    BY <1>1, <1>3 DEF UpdateUserPassword, Account
  <2> QED BY <1>3, <2>1 DEF UpdateUserPassword
<1>4. CASE UpdateUserRole(c, u)
  <2>1. Exists(u) /\ \A r \in {"admin", "user"} : [users[u] EXCEPT !.role = r] \in Account
    BY <1>1, <1>4 DEF UpdateUserRole, Account
  <2> QED BY <1>4, <2>1 DEF UpdateUserRole
<1>5. CASE UpdateUserPermissions(c, u)
  <2>1. Exists(u) /\ \A p \in Perms : [users[u] EXCEPT !.perms = p] \in Account
    BY <1>1, <1>5 DEF UpdateUserPermissions, Account
  <2> QED BY <1>5, <2>1 DEF UpdateUserPermissions
<1> QED BY <1>2, <1>3, <1>4, <1>5 DEF RunUser

\* What a step of the server does to the user manager.
UsersStep ==
  \/ \E u \in User, a \in Account, torn \in BOOLEAN : ~up' /\ Bootstrap(u, a, torn)
  \/ LoadUsers
  \/ LoseUsers /\ ~up'
  \/ \E c \in Caller, u \in User, a \in Account \cup {NoUser} : ChangeUser(c, u, a) /\ up' = up
  \/ SaveUsersTruncate /\ up' = up
  \/ SaveUsersWrite /\ up' = up
  \/ SaveUsersFails /\ up' = up
  \/ UNCHANGED <<userVars, up>>

\* The other steps leave it alone.
LEMMA UsersSteps == UsersTypeOK(Caller) /\ [Next]_vars => UsersStep
<1> SUFFICES ASSUME UsersTypeOK(Caller), [Next]_vars PROVE UsersStep
  OBVIOUS
<1>1. CASE UNCHANGED vars
  BY <1>1 DEF vars, UsersStep
<1>2. CASE FirstStart \/ Start \/ Kill
  BY <1>2 DEF FirstStart, Start, Kill, UsersStep
<1>3. ASSUME NEW c \in Caller, NEW u \in User, RunUser(c, u) PROVE UsersStep
  BY <1>3, UserChange DEF RunUser, UsersStep
<1>4. CASE UsersProgress \/ UsersReturn
  BY <1>4 DEF UsersProgress, UsersReturn, UsersStep
<1>5. ASSUME NEW c \in Caller,
             \/ \E u \in User : Login(c, u)
             \/ Leave(c) \/ AdminCheck(c) \/ RunError(c) \/ ReadMeta(c) \/ Call(c)
             \/ \E what \in {"create", "delete", "user"} : Send(c, what)
             \/ \E s \in Space : RunRejected(c, s) \/ RunDelete(c, s)
             \/ \E s \in Space, k \in Kind : RunCreate(c, s, k)
             \/ \E s \in Space, k \in Kind, what \in Access : Lookup(c, s, k, what)
      PROVE  UNCHANGED <<userVars, up>>
  BY <1>5 DEF Login, Leave, AdminCheck, RunError, ReadMeta, Call, Send, RunRejected, RunDelete, RunCreate, Lookup
<1>6. CASE SpacesProgress \/ SpacesReturn
  BY <1>6 DEF SpacesProgress, SpacesReturn, UsersStep
<1>7. UNCHANGED <<userVars, up>> => UsersStep
  BY DEF UsersStep
<1> QED
  BY <1>1, <1>2, <1>3, <1>4, <1>5, <1>6, <1>7 DEF Next

\* Types of the users in memory and in the file.
LEMMA UsersType == UsersTypeOK(Caller) /\ UsersStep => UsersTypeOK(Caller)'
<1> SUFFICES ASSUME UsersTypeOK(Caller), UsersStep PROVE UsersTypeOK(Caller)'
  OBVIOUS
<1> USE DEF UsersTypeOK, Users
<1>1. ASSUME NEW u \in User, NEW a \in Account, NEW torn \in BOOLEAN, Bootstrap(u, a, torn)
      PROVE  UsersTypeOK(Caller)'
  BY <1>1 DEF Bootstrap, NoUsers
<1>2. CASE LoadUsers \/ LoseUsers
  BY <1>2 DEF LoadUsers, LoseUsers, NoUsers
<1>3. ASSUME NEW c \in Caller, NEW u \in User, NEW a \in Account \cup {NoUser}, ChangeUser(c, u, a)
      PROVE  UsersTypeOK(Caller)'
  BY <1>3 DEF ChangeUser
<1>4. CASE SaveUsersTruncate
  <2>1. saving' \in [at : {"save", "write"}, by : Caller]
    BY <1>4 DEF SaveUsersTruncate, NotSaving
  <2> QED BY <1>4, <2>1 DEF SaveUsersTruncate, NoUsers
<1>5. CASE SaveUsersWrite
  <2>1. userFile' \in [exists : BOOLEAN, torn : BOOLEAN, users : Users]
    BY <1>5 DEF SaveUsersWrite
  <2> QED BY <1>5, <2>1 DEF SaveUsersWrite
<1>6. CASE SaveUsersFails
  BY <1>6 DEF SaveUsersFails
<1>7. CASE UNCHANGED userVars
  BY <1>7 DEF userVars
<1> QED BY <1>1, <1>2, <1>3, <1>4, <1>5, <1>6, <1>7 DEF UsersStep

-----------------------------------------------------------------------------
\* Types of sessions and requests.
SessionsTypeOK ==
  /\ up \in BOOLEAN
  /\ session \in [Caller -> Session] /\ request \in [Caller -> Request]
  /\ overtaken \in [Caller -> BOOLEAN] /\ wasAdmin \in [Caller -> BOOLEAN]

\* A request moves on.
LEMMA GotoType ==
  ASSUME SessionsTypeOK, NEW c \in Caller,
         NEW label \in {"ready", "check", "run", "busy", "meta", "call"}, Goto(c, label)
  PROVE  session' \in [Caller -> Session]
<1>1. session[c] \in Session
  BY DEF SessionsTypeOK
<1>2. [session[c] EXCEPT !.at = label] \in Session
  BY <1>1 DEF Session
<1> QED BY <1>2 DEF SessionsTypeOK, Goto

\* The reply to a request, and the session ready for the next one.
LEMMA AnswerType ==
  ASSUME SessionsTypeOK, NEW c \in Caller, Answer(c)
  PROVE  /\ session' \in [Caller -> Session] /\ request' \in [Caller -> Request]
         /\ overtaken' \in [Caller -> BOOLEAN] /\ wasAdmin' \in [Caller -> BOOLEAN]
<1>1. session' \in [Caller -> Session]
  BY GotoType DEF Answer
<1>2. NoRequest \in Request
  BY DEF NoRequest, Request
<1> QED BY <1>1, <1>2 DEF SessionsTypeOK, Answer

\* Sessions and requests keep their types in every step.
LEMMA SessionsType ==
  TypeOK /\ [Next]_vars => SessionsTypeOK'
<1> SUFFICES ASSUME TypeOK, [Next]_vars PROVE SessionsTypeOK'
  OBVIOUS
<1>a. SessionsTypeOK
  BY DEF TypeOK, SessionsTypeOK
<1>1. CASE UNCHANGED vars \/ FirstStart \/ Start \/ SpacesProgress \/ UsersProgress
  BY <1>a, <1>1 DEF vars, FirstStart, Start, SpacesProgress, UsersProgress, sessions, marks, SessionsTypeOK
<1>2. CASE Kill
  BY <1>a, <1>2 DEF Kill, NoSession, NoRequest, Session, Request, SessionsTypeOK
<1>3. ASSUME NEW c \in Caller, NEW u \in User, Login(c, u) PROVE SessionsTypeOK'
  <2>1. [at |-> "ready", user |-> u, account |-> users[u]] \in Session
    BY DEF Session, TypeOK, UsersTypeOK, Users
  <2> QED BY <1>a, <1>3, <2>1 DEF Login, marks, SessionsTypeOK
<1>4. ASSUME NEW c \in Caller, Leave(c) PROVE SessionsTypeOK'
  <2>1. NoSession \in Session
    BY DEF NoSession, Session
  <2> QED BY <1>a, <1>4, <2>1 DEF Leave, marks, SessionsTypeOK
<1>5. ASSUME NEW c \in Caller, AdminCheck(c) \/ ReadMeta(c) PROVE SessionsTypeOK'
  BY <1>a, <1>5, GotoType, AnswerType DEF AdminCheck, ReadMeta, GoOnIf, marks, SessionsTypeOK
<1>6. ASSUME NEW c \in Caller, RunError(c) \/ Call(c) PROVE SessionsTypeOK'
  BY <1>a, <1>6, AnswerType DEF RunError, Call, SessionsTypeOK
<1>7. ASSUME NEW c \in Caller, NEW what \in {"create", "delete", "user"}, Send(c, what)
      PROVE  SessionsTypeOK'
  <2>1. session' \in [Caller -> Session]
    BY <1>a, <1>7, GotoType DEF Send
  <2>2. [NoRequest EXCEPT !.what = what] \in Request
    BY DEF NoRequest, Request
  <2>3. IsAdmin(session[c].user) \in BOOLEAN
    BY DEF IsAdmin, Exists
  <2> QED BY <1>a, <1>7, <2>1, <2>2, <2>3 DEF Send, SessionsTypeOK
<1>8. ASSUME NEW c \in Caller, NEW s \in Space, RunRejected(c, s) PROVE SessionsTypeOK'
  BY <1>a, <1>8, AnswerType DEF RunRejected, SessionsTypeOK
<1>9. ASSUME NEW c \in Caller, NEW s \in Space, RunDelete(c, s) PROVE SessionsTypeOK'
  <2>1. session' \in [Caller -> Session]
    BY <1>a, <1>9, GotoType DEF RunDelete
  <2>2. overtaken' \in [Caller -> BOOLEAN]
    BY <1>a, <1>9 DEF RunDelete, SessionsTypeOK
  <2> QED BY <1>a, <1>9, <2>1, <2>2 DEF RunDelete, SessionsTypeOK
<1>10. ASSUME NEW c \in Caller, NEW s \in Space, NEW k \in Kind, RunCreate(c, s, k)
       PROVE  SessionsTypeOK'
  BY <1>a, <1>10, GotoType DEF RunCreate, marks, SessionsTypeOK
<1>11. ASSUME NEW c \in Caller, NEW u \in User, RunUser(c, u) PROVE SessionsTypeOK'
  <2>1. session' \in [Caller -> Session]
    BY <1>a, <1>11, GotoType DEF RunUser
  <2>2. wasAdmin' \in [Caller -> BOOLEAN]
    BY <1>a, <1>11 DEF RunUser, SessionsTypeOK
  <2> QED BY <1>a, <1>11, <2>1, <2>2 DEF RunUser, SessionsTypeOK
<1>12. ASSUME NEW c \in Caller, NEW s \in Space, NEW k \in Kind, NEW what \in Access,
              Lookup(c, s, k, what)
       PROVE  SessionsTypeOK'
  <2>1. session' \in [Caller -> Session]
    BY <1>a, <1>12, GotoType DEF Lookup
  <2>2. [what |-> what, space |-> s, kind |-> k, engine |-> spaces[s]] \in Request
    BY ServerAssumption DEF Request, TypeOK, SpacesTypeOK
  <2> QED BY <1>a, <1>12, <2>1, <2>2 DEF Lookup, SessionsTypeOK
<1>13. CASE SpacesReturn
  <2>1. op.at # "idle"
    BY <1>13 DEF SpacesReturn, SaveWrite, SaveFails, DeleteFails
  <2>2. op.by \in Caller
    BY <2>1 DEF TypeOK, SpacesTypeOK, Operation, Unlocked
  <2> QED BY <1>a, <1>13, <2>2, AnswerType DEF SpacesReturn, SessionsTypeOK
<1>14. CASE UsersReturn
  <2>1. saving.at # "idle"
    BY <1>14 DEF UsersReturn, SaveUsersWrite, SaveUsersFails
  <2>2. saving.by \in Caller
    BY <2>1 DEF TypeOK, UsersTypeOK, NotSaving
  <2> QED BY <1>a, <1>14, <2>2, AnswerType DEF UsersReturn, SessionsTypeOK
<1> QED
  BY <1>1, <1>2, <1>3, <1>4, <1>5, <1>6, <1>7, <1>8, <1>9, <1>10, <1>11, <1>12, <1>13, <1>14 DEF Next

-----------------------------------------------------------------------------
\* A server that has never run.
LEMMA TypeInit == Init => TypeOK
<1> SUFFICES ASSUME Init PROVE TypeOK
  OBVIOUS
<1>1. SpacesTypeOK
  <2>1. engines \in [Space -> Seq(Engine)]
    BY DEF Init, SpacesInit
  <2>2. NoSpaces \in [Space -> Kind \cup {None}]
    BY DEF NoSpaces
  <2> QED BY <2>1, <2>2 DEF Init, SpacesInit, SpacesTypeOK
<1>2. UsersTypeOK(Caller)
  BY DEF Init, UsersInit, UsersTypeOK, NoUsers, Users, NotSaving
<1>3. NoSession \in Session /\ NoRequest \in Request
  BY DEF NoSession, NoRequest, Session, Request
<1> QED BY <1>1, <1>2, <1>3 DEF Init, TypeOK

\* Every step keeps the types.
LEMMA TypeStep == TypeOK /\ [Next]_vars => TypeOK'
BY SpacesSteps, SpacesType, UsersSteps, UsersType, SessionsType DEF TypeOK, SessionsTypeOK

\* All variables keep their types, for all spaces, users and sessions, through
\* kills, failing saves and restarts (the maps, files and sessions of the code).
THEOREM TypeCorrect == Spec => []TypeOK
BY TypeInit, TypeStep, PTL DEF Spec

-----------------------------------------------------------------------------
\* Nobody holds a lock of a server that does not run yet.
LEMMA LockInit == Init => LockInv
BY SpacesAssumption DEF Init, SpacesInit, UsersInit, LockInv, BusyHoldsLock, At, Unlocked, NotSaving, NoSession, None

\* A lock is taken by a session that gets busy with it, goes from label to
\* label, and is given back when the session answers (CreateSpaceWithWAL,
\* DeleteSpace, save and their error returns).
LEMMA LockStep == TypeOK /\ LockInv /\ [Next]_vars => LockInv'
<1> SUFFICES ASSUME TypeOK, LockInv, [Next]_vars PROVE LockInv'
  OBVIOUS
<1>a. /\ op \in Operation \cup {Unlocked}
      /\ saving \in [at : {"save", "write"}, by : Caller] \cup {NotSaving}
      /\ session \in [Caller -> Session]
  BY DEF TypeOK, SpacesTypeOK, UsersTypeOK
<1>b. "none" \notin Caller
  BY SpacesAssumption DEF None
<1> USE <1>a, <1>b DEF LockInv, BusyHoldsLock, At, Goto, Operation, Unlocked, NotSaving, None
<1>1. CASE UNCHANGED vars \/ FirstStart
  BY <1>1 DEF vars, FirstStart, Bootstrap, sessions, spaceVars, memory, userVars
<1>2. CASE Start
  BY <1>2 DEF Start, LoadSpaces, LoadUsers, sessions
<1>3. CASE Kill
  BY <1>3 DEF Kill, LoseSpaces, LoseUsers, NoSession
<1>c. ASSUME up, UNCHANGED <<op, saving, up>>,
             \A d \in Caller : session'[d].at = "busy" <=> session[d].at = "busy"
      PROVE  LockInv'
  BY <1>c
<1>4. ASSUME NEW c \in Caller,
             \/ \E u \in User : Login(c, u)
             \/ Leave(c)
             \/ \E what \in {"create", "delete", "user"} : Send(c, what)
             \/ \E s \in Space, k \in Kind, what \in Access : Lookup(c, s, k, what)
      PROVE  LockInv'
  <2>1. up /\ UNCHANGED <<op, saving, up>>
    BY <1>4 DEF Login, Leave, Send, Lookup, spaceVars, memory, userVars
  <2>2. session[c].at # "busy"
    BY <1>4 DEF Login, Leave, Send, Lookup
  <2>4. session'[c].at # "busy"
    <3>1. ASSUME NEW u \in User, Login(c, u) PROVE session'[c].at = "ready"
      BY <3>1 DEF Login
    <3>2. CASE Leave(c)
      BY <3>2 DEF Leave, NoSession
    <3>3. ASSUME NEW what, Send(c, what) PROVE session'[c].at = "check"
      BY <3>3 DEF Send
    <3>4. ASSUME NEW s, NEW k, NEW what, Lookup(c, s, k, what) PROVE session'[c].at = "meta"
      BY <3>4 DEF Lookup
    <3> QED BY <1>4, <3>1, <3>2, <3>3, <3>4
  <2>3. \A d \in Caller \ {c} : session'[d] = session[d]
    BY <1>4 DEF Login, Leave, Send, Lookup
  <2> QED BY <1>c, <2>1, <2>2, <2>3, <2>4
<1>5. ASSUME NEW c \in Caller, AdminCheck(c) \/ ReadMeta(c) \/ RunError(c) PROVE LockInv'
  <2>1. up /\ UNCHANGED <<op, saving, up>>
    BY <1>5 DEF AdminCheck, ReadMeta, RunError, spaceVars, memory, userVars
  <2>2. session[c].at # "busy" /\ \E label \in {"ready", "run", "call"} : Goto(c, label)
    BY <1>5 DEF AdminCheck, ReadMeta, RunError, GoOnIf, Answer
  <2> QED BY <1>c, <2>1, <2>2
<1>6. ASSUME NEW c \in Caller, NEW s \in Space, RunRejected(c, s) PROVE LockInv'
  BY <1>6 DEF RunRejected, CreateRejected, Running, Answer, memory, userVars
<1>7. ASSUME NEW c \in Caller, Call(c) PROVE LockInv'
  BY <1>7 DEF Call, Answer, memory, userVars
<1>8. ASSUME NEW c \in Caller, NEW s \in Space, RunDelete(c, s) PROVE LockInv'
  BY <1>8 DEF RunDelete, DeleteClose, Running, userVars
<1>9. ASSUME NEW c \in Caller, NEW s \in Space, NEW k \in Kind, RunCreate(c, s, k) PROVE LockInv'
  BY <1>9 DEF RunCreate, CreateOpen, Running, userVars
<1>10. ASSUME NEW c \in Caller, NEW u \in User, RunUser(c, u) PROVE LockInv'
  <2>1. PICK a \in Account \cup {NoUser} : ChangeUser(c, u, a)
    BY <1>10, UserChange DEF TypeOK
  <2> QED BY <1>10, <2>1 DEF RunUser, ChangeUser, Running, spaceVars, memory
<1>11. CASE SpacesProgress
  BY <1>11 DEF SpacesProgress, CreateEnter, DeleteUnmap, DeleteForget, SaveTruncate, userVars, sessions
<1>12. CASE SpacesReturn
  BY <1>12 DEF SpacesReturn, SaveWrite, SaveFails, DeleteFails, Answer, userVars
<1>13. CASE UsersProgress
  BY <1>13 DEF UsersProgress, SaveUsersTruncate, spaceVars, memory, sessions
<1>14. CASE UsersReturn
  BY <1>14 DEF UsersReturn, SaveUsersWrite, SaveUsersFails, Answer, spaceVars, memory
<1> QED
  BY <1>1, <1>2, <1>3, <1>4, <1>5, <1>6, <1>7, <1>8, <1>9, <1>10, <1>11, <1>12, <1>13, <1>14 DEF Next

-----------------------------------------------------------------------------
\* No space has an engine before the server first starts.
LEMMA EngineInit == Init => EngineInv
BY DEF Init, SpacesInit, EngineInv, OpenEngineIsKnown, Unlocked

\* An engine is open before it is in the map and closed before it leaves it
\* (CreateSpaceWithWAL, DeleteSpace), whatever fails and whenever it is killed.
LEMMA EngineStep == TypeOK /\ LockInv /\ EngineInv /\ [Next]_vars => EngineInv'
<1> SUFFICES ASSUME TypeOK, LockInv, EngineInv, SpacesStep PROVE EngineInv'
  BY SpacesSteps
<1>a. /\ op \in Operation \cup {Unlocked} /\ spaces \in [Space -> Nat]
      /\ metas \in [Space -> Kind \cup {None}] /\ engines \in [Space -> Seq(Engine)]
  BY DEF TypeOK, SpacesTypeOK
<1>b. /\ op.at = "enter" => op.kind \in Kind
      /\ op.at \in {"close", "remove"} => op.kind = None
  BY DEF LockInv
<1>c. op.at # "idle" => op.space \in Space /\ op \in Operation
  BY <1>a DEF Operation, Unlocked
<1> USE DEF EngineInv, OpenEngineIsKnown, Listed
<1>1. CASE LoadSpaces
  <2>1. PICK opens \in SUBSET {s \in Space : InCatalog[s] # None} :
          /\ metas' = InCatalog /\ op' = Unlocked
          /\ spaces' = [s \in Space |-> IF s \in opens THEN 1 ELSE 0]
          /\ engines' = [s \in Space |-> IF s \in opens
                            THEN <<[kind |-> InCatalog[s], open |-> TRUE]>> ELSE <<>>]
    BY <1>1, Zenon DEF LoadSpaces
  <2>2. \A s \in Space \ opens : spaces'[s] = 0 /\ engines'[s] = <<>>
    BY <2>1
  <2>3. \A s \in opens : /\ spaces'[s] = 1 /\ DOMAIN engines'[s] = {1} /\ metas'[s] # None
                         /\ engines'[s][1] = [kind |-> metas'[s], open |-> TRUE]
    BY <2>1
  <2> QED BY <2>1, <2>2, <2>3 DEF Unlocked
<1>2. CASE LoseSpaces
  BY <1>2 DEF LoseSpaces, Unlocked
<1>3. ASSUME NEW c \in Caller, NEW s \in Space, NEW k \in Kind, CreateOpen(c, s, k) PROVE EngineInv'
  <2>1. /\ op = Unlocked /\ spaces[s] = 0 /\ ~Listed(s) /\ UNCHANGED <<metas, spaces>>
        /\ op' = [at |-> "enter", by |-> c, space |-> s, kind |-> k]
    BY <1>3 DEF CreateOpen
  <2>2. /\ Len(engines'[s]) = Len(engines[s]) + 1 /\ Len(engines[s]) \in Nat
        /\ DOMAIN engines'[s] = 1..Len(engines'[s]) /\ DOMAIN engines[s] = 1..Len(engines[s])
        /\ engines'[s][Len(engines'[s])] = [kind |-> k, open |-> TRUE]
        /\ \A i \in 1..Len(engines[s]) : engines'[s][i] = engines[s][i]
        /\ \A t \in Space \ {s} : engines'[t] = engines[t]
    BY <1>a, <1>3 DEF CreateOpen
  <2>3. \A i \in DOMAIN engines'[s] : engines'[s][i].open => i = Len(engines'[s])
    BY <2>1, <2>2 DEF Unlocked
  <2> QED BY <2>1, <2>2, <2>3 DEF Unlocked
<1>4. ASSUME NEW s \in Space, CreateRejected(s) PROVE EngineInv'
  BY <1>4 DEF CreateRejected, memory
<1>5. CASE CreateEnter
  BY <1>a, <1>b, <1>c, <1>5 DEF CreateEnter, Operation, None, Kind
<1>6. ASSUME NEW c \in Caller, NEW s \in Space, DeleteClose(c, s) PROVE EngineInv'
  <2>1. /\ op = Unlocked /\ Listed(s) /\ UNCHANGED <<metas, spaces>>
        /\ op' = [at |-> "close", by |-> c, space |-> s, kind |-> None]
    BY <1>6 DEF DeleteClose
  <2>2. /\ DOMAIN engines'[s] = DOMAIN engines[s]
        /\ \A i \in DOMAIN engines[s] :
             /\ engines'[s][i].kind = engines[s][i].kind
             /\ engines'[s][i].open <=> engines[s][i].open /\ i # spaces[s]
        /\ \A t \in Space \ {s} : engines'[t] = engines[t]
    <3>1. \A i \in DOMAIN engines[s] : engines[s][i] \in Engine
      BY <1>a
    <3> QED BY <1>a, <1>6, <3>1 DEF DeleteClose, CloseEngine, Engine
  <2> QED BY <2>1, <2>2 DEF Unlocked
<1>7. CASE DeleteUnmap
  BY <1>a, <1>b, <1>c, <1>7 DEF DeleteUnmap
<1>8. CASE DeleteForget
  BY <1>a, <1>b, <1>c, <1>8 DEF DeleteForget
<1>9. CASE DeleteFails
  BY <1>a, <1>9 DEF DeleteFails, Unlocked
<1>10. CASE SaveTruncate
  BY <1>a, <1>c, <1>10 DEF SaveTruncate
<1>11. CASE SaveWrite
  BY <1>a, <1>11 DEF SaveWrite, Unlocked
<1>12. CASE SaveFails
  BY <1>a, <1>12 DEF SaveFails, Unlocked
<1>13. CASE UNCHANGED memory
  BY <1>13 DEF memory
<1> QED
  BY <1>1, <1>2, <1>3, <1>4, <1>5, <1>6, <1>7, <1>8, <1>9, <1>10, <1>11, <1>12, <1>13 DEF SpacesStep, spaceVars

-----------------------------------------------------------------------------
\* The file follows the map: every change keeps a.lock until it is saved.
LEMMA UserFileStep == TypeOK /\ UserFileMatches /\ [Next]_vars => UserFileMatches'
<1> SUFFICES ASSUME TypeOK, UserFileMatches, UsersStep PROVE UserFileMatches'
  BY UsersSteps DEF TypeOK
<1>a. saving \in [at : {"save", "write"}, by : Caller] \cup {NotSaving}
  BY DEF TypeOK, UsersTypeOK
<1> USE <1>a DEF UserFileMatches, NotSaving
<1>1. ASSUME NEW u, NEW a, NEW torn, ~up' /\ Bootstrap(u, a, torn) PROVE UserFileMatches'
  BY <1>1
<1>2. CASE LoadUsers
  BY <1>2 DEF LoadUsers
<1>3. CASE LoseUsers /\ ~up'
  BY <1>3
<1>4. ASSUME NEW c, NEW u, NEW a, ChangeUser(c, u, a) PROVE UserFileMatches'
  BY <1>4 DEF ChangeUser
<1>5. CASE SaveUsersTruncate
  BY <1>5 DEF SaveUsersTruncate
<1>6. CASE SaveUsersWrite
  BY <1>6 DEF SaveUsersWrite
<1>7. CASE SaveUsersFails
  BY <1>7 DEF SaveUsersFails
<1>8. CASE UNCHANGED <<userVars, up>>
  BY <1>8 DEF userVars
<1> QED BY <1>1, <1>2, <1>3, <1>4, <1>5, <1>6, <1>7, <1>8 DEF UsersStep

-----------------------------------------------------------------------------
\* Nobody commands a server that has never run.
LEMMA RightsInit == Init => RightsInv
BY DEF Init, RightsInv, NoSession, At

\* Whoever becomes administrator is remembered from then on, and whoever is
\* checked as administrator has been remembered (Execute against UpdateUserRole
\* and DeleteUser of other sessions).
LEMMA RightsStep == TypeOK /\ LockInv /\ RightsInv /\ [Next]_vars => RightsInv'
<1> SUFFICES ASSUME TypeOK, LockInv, RightsInv, [Next]_vars PROVE RightsInv'
  OBVIOUS
<1>a. /\ session \in [Caller -> Session] /\ wasAdmin \in [Caller -> BOOLEAN]
      /\ users \in Users
  BY DEF TypeOK, UsersTypeOK
<1>b. ~up => \A d \in Caller : session[d].at = "none"
  BY DEF LockInv, At
<1> USE <1>a DEF RightsInv, At, Goto, IsAdmin, Exists
<1>1. CASE UNCHANGED vars \/ FirstStart \/ SpacesProgress \/ UsersProgress
  BY <1>1 DEF vars, FirstStart, Bootstrap, SpacesProgress, UsersProgress, SaveUsersTruncate, userVars, sessions, marks
<1>2. CASE Start
  BY <1>b, <1>2 DEF Start, sessions, marks
<1>3. CASE Kill
  BY <1>3 DEF Kill, NoSession
<1>4. ASSUME NEW c \in Caller, NEW u \in User, Login(c, u) PROVE RightsInv'
  BY <1>4 DEF Login, userVars, marks
<1>5. ASSUME NEW c \in Caller, Leave(c) PROVE RightsInv'
  BY <1>5 DEF Leave, userVars, marks, NoSession
<1>6. ASSUME NEW c \in Caller, NEW what, Send(c, what) PROVE RightsInv'
  <2>1. /\ session[c].at = "ready" /\ UNCHANGED users
        /\ session' = [session EXCEPT ![c].at = "check"]
    BY <1>6 DEF Send, userVars
  <2>2. wasAdmin'[c] <=> IsAdmin(session[c].user)
    <3>1. wasAdmin' = [wasAdmin EXCEPT ![c] = IsAdmin(session[c].user)]
      BY <1>6, Zenon DEF Send
    <3> HIDE DEF IsAdmin
    <3> QED BY <1>a, <3>1, Zenon
  <2>3. \A d \in Caller \ {c} : wasAdmin'[d] = wasAdmin[d] /\ session'[d] = session[d]
    BY <1>6, <2>1 DEF Send
  <2>4. session'[c].at = "check" /\ session'[c].user = session[c].user
    BY <2>1 DEF Session
  <2> QED BY <2>1, <2>2, <2>3, <2>4
<1>7. ASSUME NEW c \in Caller, NEW s, NEW k, NEW what, Lookup(c, s, k, what) PROVE RightsInv'
  BY <1>7 DEF Lookup, userVars
<1>8. ASSUME NEW c \in Caller, Answer(c), UNCHANGED users, session[c].at # "none" PROVE RightsInv'
  BY <1>8 DEF Answer
<1>9. ASSUME NEW c \in Caller, AdminCheck(c) PROVE RightsInv'
  <2>1. CASE IsAdmin(session[c].user)
    <3>1. /\ session[c].at = "check" /\ UNCHANGED <<users, wasAdmin>>
          /\ session' = [session EXCEPT ![c].at = "run"]
      BY <1>9, <2>1, Zenon DEF AdminCheck, GoOnIf, userVars, marks
    <3>2. wasAdmin[c]
      BY <2>1, <3>1
    <3> QED BY <3>1, <3>2
  <2>2. CASE ~IsAdmin(session[c].user)
    BY <1>8, <1>9, <2>2 DEF AdminCheck, GoOnIf, userVars
  <2> QED BY <2>1, <2>2
<1>10. ASSUME NEW c \in Caller, ReadMeta(c) PROVE RightsInv'
  <2>1. CASE Goto(c, "call") /\ UNCHANGED <<request, marks>>
    BY <1>10, <2>1 DEF ReadMeta, userVars, marks
  <2>2. CASE Answer(c)
    BY <1>8, <1>10, <2>2 DEF ReadMeta, userVars
  <2> QED BY <1>10, <2>1, <2>2 DEF ReadMeta, GoOnIf
<1>11. ASSUME NEW c \in Caller, RunError(c) \/ Call(c) \/ \E s \in Space : RunRejected(c, s)
       PROVE  RightsInv'
  <2>1. Answer(c) /\ UNCHANGED users /\ session[c].at # "none"
    BY <1>11 DEF RunError, Call, RunRejected, Running, userVars
  <2> QED BY <1>8, <2>1
<1>12. ASSUME NEW c \in Caller, NEW s \in Space, RunDelete(c, s) PROVE RightsInv'
  BY <1>12 DEF RunDelete, Running, userVars
<1>13. ASSUME NEW c \in Caller, NEW s \in Space, NEW k \in Kind, RunCreate(c, s, k) PROVE RightsInv'
  BY <1>13 DEF RunCreate, Running, userVars, marks
<1>14. ASSUME NEW c \in Caller, NEW u \in User, RunUser(c, u) PROVE RightsInv'
  <2>1. PICK a \in Account \cup {NoUser} : users' = [users EXCEPT ![u] = a]
    BY <1>14, UserChange DEF TypeOK, ChangeUser
  <2>2. /\ session' = [session EXCEPT ![c].at = "busy"] /\ session[c].at = "run"
        /\ wasAdmin' = [d \in Caller |->
             wasAdmin[d] \/ (session[d].user = u /\ users'[u].role = "admin")]
    BY <1>14 DEF RunUser, Running
  <2>3. \A d \in Caller : session[d].at # "none" /\ session[d].user # u =>
          users'[session[d].user] = users[session[d].user]
    BY <2>1 DEF Users
  <2> QED BY <2>1, <2>2, <2>3
<1>15. CASE SpacesReturn
  <2>1. op \in Operation /\ op.by \in Caller
    BY <1>15, Holder DEF SpacesReturn, SaveWrite, SaveFails, DeleteFails, TypeOK
  <2>2. session[op.by].at # "none"
    BY <2>1 DEF LockInv, BusyHoldsLock
  <2> QED BY <1>8, <1>15, <2>1, <2>2 DEF SpacesReturn, userVars
<1>16. CASE UsersReturn
  <2>1. saving.by \in Caller
    BY <1>16 DEF UsersReturn, SaveUsersWrite, SaveUsersFails, TypeOK, UsersTypeOK, NotSaving
  <2>2. session[saving.by].at # "none"
    BY <2>1 DEF LockInv, BusyHoldsLock
  <2> QED BY <1>8, <1>16, <2>1, <2>2 DEF UsersReturn, SaveUsersWrite, SaveUsersFails
<1> QED
  BY <1>1, <1>2, <1>3, <1>4, <1>5, <1>6, <1>7, <1>9, <1>10, <1>11, <1>12, <1>13, <1>14, <1>15, <1>16 DEF Next

-----------------------------------------------------------------------------
\* Nothing is listed, and nothing is on disk.
LEMMA CatalogInit == Init => CatalogInv
BY DEF Init, SpacesInit, CatalogInv, Unlocked

\* The file follows the map, entry by entry (saveSpaceMetas, loadSpaceMetas).
LEMMA CatalogStep == TypeOK /\ LockInv /\ CatalogInv /\ [Next]_vars => CatalogInv'
<1> SUFFICES ASSUME TypeOK, LockInv, CatalogInv, SpacesStep PROVE CatalogInv'
  BY SpacesSteps
<1>a. /\ op \in Operation \cup {Unlocked}
      /\ op.at # "idle" => op.space \in Space /\ up
      /\ metas \in [Space -> Kind \cup {None}]
  BY DEF TypeOK, SpacesTypeOK, LockInv, Operation, Unlocked
<1> USE <1>a DEF CatalogInv
<1>1. CASE ~up /\ up' /\ LoadSpaces
  BY <1>1 DEF LoadSpaces, InCatalog, Unlocked, spaceFiles, spaceMarks
<1>2. CASE ~up' /\ LoseSpaces
  BY <1>2 DEF LoseSpaces, Unlocked, spaceFiles
<1>3. ASSUME NEW c \in Caller, NEW s \in Space, NEW k \in Kind, up' = up, CreateOpen(c, s, k)
      PROVE  CatalogInv'
  BY <1>3 DEF CreateOpen, Unlocked, spaceMarks
<1>4. ASSUME NEW s \in Space, up' = up, CreateRejected(s) PROVE CatalogInv'
  BY <1>4 DEF CreateRejected, Unlocked, memory, spaceMarks
<1>5. CASE up' = up /\ CreateEnter
  BY <1>5 DEF CreateEnter, Operation, Unlocked, spaceFiles, spaceMarks
<1>6. ASSUME NEW c \in Caller, NEW s \in Space, up' = up, DeleteClose(c, s) PROVE CatalogInv'
  BY <1>6 DEF DeleteClose, Unlocked, spaceFiles, spaceMarks
<1>7. CASE up' = up /\ DeleteUnmap
  BY <1>7 DEF DeleteUnmap, Operation, Unlocked, spaceMarks
<1>8. CASE up' = up /\ DeleteForget
  <2>1. op'.at = "save" /\ op'.space = op.space /\ up
    BY <1>8, Holder DEF DeleteForget, Operation, TypeOK
  <2>2. op.at = "remove" /\ \A t \in Space \ {op.space} : metas'[t] = metas[t]
    BY <1>8 DEF DeleteForget
  <2> QED BY <1>8, <2>1, <2>2 DEF DeleteForget, spaceMarks
<1>9. CASE up' = up /\ DeleteFails
  BY <1>9 DEF DeleteFails, Unlocked, spaceFiles
<1>10. CASE up' = up /\ SaveTruncate
  <2>1. op'.at = "write" /\ up
    BY <1>10, Holder DEF SaveTruncate, Operation, TypeOK
  <2>2. catalog'.torn
    BY <1>10 DEF SaveTruncate
  <2> QED BY <1>10, <2>1, <2>2
<1>11. CASE up' = up /\ SaveWrite
  BY <1>11 DEF SaveWrite, Unlocked
<1>12. CASE up' = up /\ SaveFails
  BY <1>12 DEF SaveFails, Unlocked, spaceFiles
<1>13. CASE up' = up /\ UNCHANGED <<memory, catalog, spaceMarks>>
  BY <1>13 DEF memory, spaceMarks
<1> QED
  BY <1>1, <1>2, <1>3, <1>4, <1>5, <1>6, <1>7, <1>8, <1>9, <1>10, <1>11, <1>12, <1>13
  DEF SpacesStep, spaceVars, spaceFiles

-----------------------------------------------------------------------------
\* Nobody has looked up an engine yet.
LEMMA RequestInit == Init => RequestInv
BY DEF Init, RequestInv, NoSession, At

\* An engine that was looked up under sm.lock stays what it is (GetSpace,
\* SpaceMeta, Execute), or is closed by a DeleteSpace the request does not see.
LEMMA RequestStep ==
  TypeOK /\ LockInv /\ EngineInv /\ RequestInv /\ [Next]_vars => RequestInv'
<1> SUFFICES ASSUME TypeOK, LockInv, EngineInv, RequestInv, [Next]_vars PROVE RequestInv'
  OBVIOUS
<1>a. /\ op \in Operation \cup {Unlocked} /\ spaces \in [Space -> Nat]
      /\ session \in [Caller -> Session] /\ request \in [Caller -> Request]
      /\ engines \in [Space -> Seq(Engine)] /\ overtaken \in [Caller -> BOOLEAN]
  BY DEF TypeOK, SpacesTypeOK
<1>b. ~up => \A d \in Caller : session[d].at = "none"
  BY DEF LockInv, At
\* The requests of the others go on.
<1>c. ASSUME NEW c, UNCHANGED engines, session'[c].at \notin {"meta", "call"},
             \A s \in Space : Entering(s)' => Entering(s),
             \A d \in Caller \ {c} : session'[d] = session[d] /\ request'[d] = request[d]
                                     /\ overtaken'[d] = overtaken[d]
      PROVE  RequestInv'
  <2> SUFFICES ASSUME NEW d \in Caller, session'[d].at \in {"meta", "call"} PROVE RequestFits(d)'
    BY DEF RequestInv
  <2>1. d # c /\ session'[d] = session[d] /\ request'[d] = request[d] /\ overtaken'[d] = overtaken[d]
    BY <1>c
  <2>2. RequestFits(d)
    BY <2>1 DEF RequestInv
  <2>3. Entering(request[d].space)' => Entering(request[d].space)
    BY <1>c, <2>2 DEF RequestFits
  <2> QED BY <1>c, <2>1, <2>2, <2>3 DEF RequestFits, Found, At, Entering
\* A session that answers has no engine any more.
<1>d. ASSUME NEW c \in Caller, Answer(c), UNCHANGED engines,
             \A s \in Space : Entering(s)' => Entering(s)
      PROVE  RequestInv'
  <2>1. session'[c].at = "ready"
    BY <1>a, <1>d DEF Answer, Goto
  <2>2. \A d \in Caller \ {c} : session'[d] = session[d] /\ request'[d] = request[d]
                                /\ overtaken'[d] = overtaken[d]
    BY <1>a, <1>d DEF Answer, Goto
  <2> QED BY <1>c, <1>d, <2>1, <2>2
<1>1. CASE UNCHANGED vars \/ FirstStart \/ UsersProgress
  <2>1. UNCHANGED <<engines, op, session, request, overtaken>>
    BY <1>1 DEF vars, FirstStart, UsersProgress, spaceVars, memory, sessions, marks
  <2> QED BY <2>1 DEF RequestInv, RequestFits, Found, At, Entering
<1>2. CASE Start \/ Kill
  <2>1. \A d \in Caller : session'[d].at = "none"
    BY <1>b, <1>2 DEF Start, Kill, sessions, NoSession
  <2> QED BY <2>1 DEF RequestInv
<1>3. ASSUME NEW c \in Caller, NEW u \in User, Login(c, u) \/ RunUser(c, u) PROVE RequestInv'
  <2>1. UNCHANGED <<engines, op>>
    BY <1>3 DEF Login, RunUser, spaceVars, memory
  <2>2. session'[c].at \in {"ready", "busy"}
    <3>1. CASE Login(c, u)
      BY <1>a, <3>1 DEF Login
    <3>2. CASE RunUser(c, u)
      <4>1. Goto(c, "busy")
        BY <3>2 DEF RunUser
      <4> QED BY <1>a, <4>1 DEF Goto
    <3> QED BY <1>3, <3>1, <3>2
  <2>3. UNCHANGED <<request, overtaken>> /\ \A d \in Caller \ {c} : session'[d] = session[d]
    BY <1>a, <1>3 DEF Login, RunUser, Goto, marks
  <2> QED BY <1>c, <2>1, <2>2, <2>3 DEF Entering
<1>4. ASSUME NEW c \in Caller, Leave(c) \/ \E what \in {"create", "delete", "user"} : Send(c, what)
      PROVE  RequestInv'
  <2>1. UNCHANGED <<engines, op, overtaken>>
    BY <1>4 DEF Leave, Send, spaceVars, memory, marks
  <2>2. session'[c].at \in {"none", "check"}
    <3>1. CASE Leave(c)
      BY <1>a, <3>1 DEF Leave, NoSession
    <3>2. ASSUME NEW what, Send(c, what) PROVE session'[c].at = "check"
      <4>1. Goto(c, "check")
        BY <3>2 DEF Send
      <4> QED BY <1>a, <4>1 DEF Goto
    <3> QED BY <1>4, <3>1, <3>2
  <2>3. \A d \in Caller \ {c} : session'[d] = session[d] /\ request'[d] = request[d]
    BY <1>a, <1>4 DEF Leave, Send, Goto
  <2> QED BY <1>c, <2>1, <2>2, <2>3 DEF Entering
<1>5. ASSUME NEW c \in Caller, AdminCheck(c) PROVE RequestInv'
  <2>1. UNCHANGED <<engines, op>>
    BY <1>5 DEF AdminCheck, spaceVars, memory
  <2>2. CASE Goto(c, "run") /\ UNCHANGED <<request, marks>>
    BY <1>a, <1>c, <2>1, <2>2 DEF Goto, marks, Entering
  <2>3. CASE Answer(c)
    BY <1>d, <2>1, <2>3 DEF Entering
  <2> QED BY <1>5, <2>2, <2>3 DEF AdminCheck, GoOnIf
<1>6. ASSUME NEW c \in Caller, RunError(c) \/ Call(c) \/ \E s \in Space : RunRejected(c, s)
      PROVE  RequestInv'
  <2>1. UNCHANGED <<engines, op>> /\ Answer(c)
    BY <1>6 DEF RunError, Call, RunRejected, CreateRejected, spaceVars, memory
  <2> QED BY <1>d, <2>1 DEF Entering
<1>7. ASSUME NEW c \in Caller, NEW s \in Space, NEW k \in Kind, NEW what \in Access,
             Lookup(c, s, k, what)
      PROVE  RequestInv'
  <2>1. UNCHANGED <<engines, op, spaces>> /\ op = Unlocked /\ spaces[s] # 0
    BY <1>7 DEF Lookup, spaceVars, memory
  <2>2. spaces[s] \in DOMAIN engines[s] /\ engines[s][spaces[s]].open /\ \A t : ~Entering(t)
    BY <2>1 DEF EngineInv, Unlocked, Entering, Kind, None
  <2>3. request'[c].space = s /\ request'[c].engine = spaces[s] /\ session'[c].at = "meta"
    BY <1>a, <1>7 DEF Lookup, Goto
  <2>4. \A d \in Caller \ {c} : session'[d] = session[d] /\ request'[d] = request[d]
                                /\ overtaken'[d] = overtaken[d]
    BY <1>a, <1>7 DEF Lookup, Goto
  <2> QED BY <2>1, <2>2, <2>3, <2>4 DEF RequestInv, RequestFits, Found, At, Entering
<1>8. ASSUME NEW c \in Caller, ReadMeta(c) PROVE RequestInv'
  <2>1. UNCHANGED <<engines, op>> /\ session[c].at = "meta"
    BY <1>8 DEF ReadMeta, At, spaceVars, memory
  <2>2. CASE Found(c).kind = request[c].kind /\ Goto(c, "call") /\ UNCHANGED <<request, marks>>
    BY <1>a, <2>1, <2>2 DEF RequestInv, RequestFits, Found, At, Goto, marks, Entering
  <2>3. CASE Answer(c)
    BY <1>d, <2>1, <2>3 DEF Entering
  <2> QED BY <1>8, <2>2, <2>3 DEF ReadMeta, GoOnIf
<1>9. ASSUME NEW c \in Caller, NEW s \in Space, NEW k \in Kind, RunCreate(c, s, k) PROVE RequestInv'
  <2>1. /\ UNCHANGED <<request, overtaken>> /\ session'[c].at = "busy"
        /\ \A d \in Caller \ {c} : session'[d] = session[d]
    BY <1>a, <1>9 DEF RunCreate, Goto, marks
  <2>2. /\ engines' = [engines EXCEPT ![s] = Append(@, [kind |-> k, open |-> TRUE])]
        /\ op' = [at |-> "enter", by |-> c, space |-> s, kind |-> k]
    BY <1>9 DEF RunCreate, CreateOpen
  <2>3. \A t \in Space : /\ DOMAIN engines[t] \subseteq DOMAIN engines'[t]
                         /\ \A i \in DOMAIN engines[t] : engines'[t][i] = engines[t][i]
    BY <1>a, <2>2
  <2>4. \A t \in Space : \A i \in DOMAIN engines[t] : Entering(t)' => i < Len(engines'[t])
    BY <1>a, <2>2 DEF Entering
  <2> QED BY <2>1, <2>3, <2>4 DEF RequestInv, RequestFits, Found, At
<1>10. ASSUME NEW c \in Caller, NEW s \in Space, RunDelete(c, s) PROVE RequestInv'
  <2>1. /\ UNCHANGED request /\ session'[c].at = "busy"
        /\ \A d \in Caller \ {c} : session'[d] = session[d]
    BY <1>a, <1>10 DEF RunDelete, Goto
  <2>2. \A t : ~Entering(t)'
    BY <1>10 DEF RunDelete, DeleteClose, Entering, None, Kind
  <2>3. \A t \in Space : DOMAIN engines'[t] = DOMAIN engines[t]
    BY <1>a, <1>10 DEF RunDelete, DeleteClose, CloseEngine
  <2>4. \A t \in Space : \A i \in DOMAIN engines[t] :
          engines'[t][i].kind = engines[t][i].kind /\ (t # s => engines'[t][i] = engines[t][i])
    <3>1. \A i \in DOMAIN engines[s] : engines[s][i] \in Engine
      BY <1>a
    <3> QED BY <1>a, <1>10, <3>1 DEF RunDelete, DeleteClose, CloseEngine, Engine
  <2>5. \A d \in Caller : session[d].at \in {"meta", "call"} =>
          (overtaken'[d] <=> overtaken[d] \/ request[d].space = s)
    BY <1>10 DEF RunDelete
  <2> QED BY <2>1, <2>2, <2>3, <2>4, <2>5 DEF RequestInv, RequestFits, Found, At
<1>11. CASE SpacesProgress
  <2>1. UNCHANGED <<engines, session, request, overtaken>>
    BY <1>11 DEF SpacesProgress, CreateEnter, DeleteUnmap, DeleteForget, SaveTruncate, sessions, marks
  <2>2. op \in Operation /\ \E label : op' = [op EXCEPT !.at = label]
    <3>1. op.at # "idle"
      BY <1>11 DEF SpacesProgress, CreateEnter, DeleteUnmap, DeleteForget, SaveTruncate
    <3> QED BY <1>11, <3>1, Holder DEF SpacesProgress, CreateEnter, DeleteUnmap, DeleteForget, SaveTruncate, TypeOK
  <2>3. UNCHANGED <<op.space, op.kind>>
    BY <2>2 DEF Operation
  <2> QED BY <2>1, <2>3 DEF RequestInv, RequestFits, Found, At, Entering
<1>12. CASE SpacesReturn
  <2>1. UNCHANGED engines /\ op' = Unlocked /\ Answer(op.by)
    BY <1>12 DEF SpacesReturn, SaveWrite, SaveFails, DeleteFails
  <2>2. op.by \in Caller
    BY <1>12, Holder DEF SpacesReturn, SaveWrite, SaveFails, DeleteFails, TypeOK
  <2> QED BY <1>d, <2>1, <2>2 DEF Entering, Unlocked, None, Kind
<1>13. CASE UsersReturn
  <2>1. UNCHANGED <<engines, op>> /\ Answer(saving.by)
    BY <1>13 DEF UsersReturn, spaceVars, memory
  <2>2. saving.by \in Caller
    BY <1>13 DEF UsersReturn, SaveUsersWrite, SaveUsersFails, TypeOK, UsersTypeOK, NotSaving
  <2> QED BY <1>d, <2>1, <2>2 DEF Entering
<1> QED
  BY <1>1, <1>2, <1>3, <1>4, <1>5, <1>6, <1>7, <1>8, <1>9, <1>10, <1>11, <1>12, <1>13 DEF Next

-----------------------------------------------------------------------------
\* No space, no directory.
LEMMA DirInit == Init => DirInv
BY DEF Init, SpacesInit, DirInv, DirsFitCatalog, NoSpaces

\* Data goes only to a listed space that nobody creates or deletes.
LEMMA CallWrites ==
  ASSUME TypeOK, LockInv, EngineInv, RequestInv, NEW c \in Caller, Call(c)
  PROVE  \/ UNCHANGED dirs
         \/ \E s \in Space : /\ Listed(s) /\ op.space # s /\ up
                             /\ dirs[s] = "empty" /\ dirs' = [dirs EXCEPT ![s] = "data"]
<1> DEFINE s == request[c].space
           i == request[c].engine
<1>a. /\ dirs \in [Space -> {"none", "empty", "data", "partial"}]
      /\ op \in Operation \cup {Unlocked} /\ spaces \in [Space -> Nat]
      /\ engines \in [Space -> Seq(Engine)]
  BY DEF TypeOK, SpacesTypeOK
<1>1. /\ session[c].at = "call"
      /\ dirs' = [dirs EXCEPT ![s] = IF @ = "empty" /\ Found(c).open /\ request[c].what = "write"
                                    THEN "data" ELSE @]
  BY DEF Call, At
<1>2. s \in Space /\ i \in DOMAIN engines[s] /\ (Entering(s) => i < Len(engines[s]))
  BY <1>1 DEF RequestInv, RequestFits
<1>3. CASE dirs[s] # "empty" \/ ~Found(c).open
  BY <1>a, <1>1, <1>2, <1>3
<1>4. CASE dirs[s] = "empty" /\ Found(c).open
  <2>1. engines[s][i].open
    BY <1>4 DEF Found
  <2>2. i = spaces[s] /\ spaces[s] # 0
    <3>1. i \in 1..Len(engines[s]) /\ Len(engines[s]) \in Nat
      BY <1>a, <1>2
    <3>2. i = spaces[s] \/ (op.at = "enter" /\ op.space = s /\ i = Len(engines[s]))
      BY <1>2, <2>1 DEF EngineInv, OpenEngineIsKnown
    <3> QED BY <1>2, <3>1, <3>2 DEF Entering, LockInv
  <2>3. Listed(s)
    BY <1>2, <2>2 DEF EngineInv
  <2>4. op.space # s
    <3> SUFFICES ASSUME op.space = s PROVE FALSE
      OBVIOUS
    <3>1. op \in Operation
      BY <1>a, <1>2, SpacesAssumption DEF Unlocked
    <3>2. op.at \notin {"enter", "close", "remove"}
      BY <1>2, <2>1, <2>2 DEF EngineInv
    <3>3. op.at \in {"save", "write"} /\ op.kind \in Kind \cup {None}
      BY <3>1, <3>2 DEF Operation
    <3>4. spaces[s] = Len(engines[s]) /\ op.kind \in Kind
      BY <2>2, <3>3 DEF EngineInv
    <3>5. i < Len(engines[s]) /\ Len(engines[s]) \in Nat
      BY <1>a, <1>2, <3>4 DEF Entering
    <3> QED BY <2>2, <3>4, <3>5
  <2>5. up
    BY <1>1 DEF LockInv, At
  <2>6. UNCHANGED dirs \/ dirs' = [dirs EXCEPT ![s] = "data"]
    BY <1>a, <1>1, <1>4
  <2> QED BY <1>2, <1>4, <2>3, <2>4, <2>5, <2>6
<1> QED BY <1>3, <1>4

\* The directory of a listed space is there, with what the space holds, and a
\* space that is not listed has left nothing behind: against the maps while
\* the process runs, against metadata.json when it is killed or restarted.
LEMMA DirStep ==
  TypeOK /\ LockInv /\ EngineInv /\ RequestInv /\ CatalogInv /\ DirInv /\ [Next]_vars => DirInv'
<1> SUFFICES ASSUME TypeOK, LockInv, EngineInv, RequestInv, CatalogInv, DirInv, SpacesStep
             PROVE  DirInv'
  BY SpacesSteps
<1>a. /\ op \in Operation \cup {Unlocked}
      /\ dirs \in [Space -> {"none", "empty", "data", "partial"}]
      /\ metas \in [Space -> Kind \cup {None}] /\ spaces \in [Space -> Nat]
      /\ engines \in [Space -> Seq(Engine)]
  BY DEF TypeOK, SpacesTypeOK
<1>b. op.at # "idle" => /\ up /\ op \in Operation /\ op.space \in Space /\ op.by \in Caller
                        /\ op.kind \in Kind \cup {None}
  BY <1>a DEF LockInv, Operation, Unlocked
<1>c. None \notin Space /\ None \notin Kind
  BY SpacesAssumption DEF None, Kind
<1>d. op = Unlocked => \A s \in Space : op.space # s /\ ~Entering(s) /\ ~Removing(s)
  BY <1>c DEF Unlocked, Entering, Removing
<1> USE <1>a DEF DirInv
<1>1. CASE ~up /\ up' /\ LoadSpaces
  <2>1. op = Unlocked /\ op' = Unlocked /\ UNCHANGED <<dirs, catalog, unsaved, forgotten, spoiled>>
    BY <1>1 DEF LockInv, LoadSpaces, spaceFiles, spaceMarks
  <2>2. PICK failed \in SUBSET {s \in Space : InCatalog[s] = "vector"} :
          /\ metas' = InCatalog
          /\ spaces' = [s \in Space |->
               IF s \in {t \in Space : InCatalog[t] # None /\ dirs[t] # "none"} \ failed THEN 1 ELSE 0]
    BY <1>1, Zenon DEF LoadSpaces
  <2>3. ASSUME ~forgotten PROVE DirsFitMemory'
    <3>1. DirsFitCatalog
      BY <1>1, <2>3 DEF CatalogInv
    <3>2. \A s \in Space : ~Entering(s)' /\ ~Removing(s) /\ metas'[s] = catalog.metas[s]
      BY <1>c, <1>d, <2>1, <2>2 DEF Entering, Removing, Unlocked, InCatalog
    <3>3. \A s \in Space : catalog.metas[s] # None /\ dirs[s] # "none" /\ spaces'[s] = 0
                             => catalog.metas[s] = "vector"
      BY <2>2 DEF InCatalog
    <3> QED BY <2>1, <3>1, <3>2, <3>3 DEF DirsFitMemory, DirsFitCatalog, Listed
  <2>4. DirsFitCatalog => DirsFitCatalog'
    BY <1>c, <2>1 DEF DirsFitCatalog, Removing, Unlocked
  <2> QED BY <2>1, <2>3, <2>4
<1>2. CASE ~up' /\ LoseSpaces
  <2>1. /\ op' = Unlocked /\ UNCHANGED <<dirs, catalog>>
        /\ forgotten' = (forgotten \/ unsaved \/ catalog.torn)
        /\ \A s \in Space : s \in spoiled \/ Removing(s) => s \in spoiled'
    BY <1>2 DEF LoseSpaces, spaceFiles, Removing
  <2>2. DirsFitCatalog => DirsFitCatalog'
    BY <2>1 DEF DirsFitCatalog
  <2>3. ~forgotten' => ~forgotten /\ ~unsaved /\ ~catalog.torn
    BY <2>1
  <2> QED BY <1>2, <2>2, <2>3
<1>3. ASSUME NEW c \in Caller, NEW s \in Space, NEW k \in Kind, up' = up, CreateOpen(c, s, k)
      PROVE  DirInv'
  <2>1. /\ op = Unlocked /\ ~Listed(s)
        /\ UNCHANGED <<metas, spaces, catalog, unsaved, forgotten, spoiled>>
        /\ dirs' = [dirs EXCEPT ![s] = IF dirs[s] = "none" THEN "empty" ELSE dirs[s]]
        /\ op' = [at |-> "enter", by |-> c, space |-> s, kind |-> k]
    BY <1>3 DEF CreateOpen, spaceMarks
  <2>2. \A t \in Space : ~Removing(t)' /\ (Entering(t)' => t = s)
    BY <1>c, <2>1 DEF Entering, Removing
  <2>3. DirsFitMemory => DirsFitMemory'
    BY <1>d, <2>1, <2>2 DEF DirsFitMemory, Listed
  <2>4. DirsFitCatalog => DirsFitCatalog'
    BY <1>d, <2>1, <2>2 DEF DirsFitCatalog
  <2> QED BY <1>3, <2>1, <2>3, <2>4
<1>4. ASSUME NEW s \in Space, up' = up, CreateRejected(s) PROVE DirInv'
  <2>1. /\ op = Unlocked /\ ~Listed(s)
        /\ UNCHANGED <<metas, spaces, op, catalog, unsaved, forgotten, spoiled>>
        /\ dirs' = [dirs EXCEPT ![s] = IF dirs[s] = "none" THEN "empty" ELSE dirs[s]]
    BY <1>4 DEF CreateRejected, memory, spaceMarks
  <2>2. \A t \in Space : ~Removing(t)' /\ ~Entering(t)'
    BY <1>d, <2>1 DEF Entering, Removing
  <2>3. DirsFitMemory => DirsFitMemory'
    BY <1>d, <2>1, <2>2 DEF DirsFitMemory, Listed
  <2>4. DirsFitCatalog => DirsFitCatalog'
    BY <1>d, <2>1, <2>2 DEF DirsFitCatalog
  <2> QED BY <1>4, <2>1, <2>3, <2>4
<1>5. CASE up' = up /\ CreateEnter
  <2>1. /\ op.at = "enter" /\ op.kind \in Kind /\ op.space \in Space /\ op \in Operation
        /\ Len(engines[op.space]) > 0
        /\ UNCHANGED <<dirs, catalog, unsaved, forgotten, spoiled>>
    BY <1>b, <1>5 DEF CreateEnter, LockInv, EngineInv, spaceFiles, spaceMarks
  <2>2. op'.at = "save" /\ op'.space = op.space /\ op'.kind = op.kind
    BY <1>5, <2>1 DEF CreateEnter, Operation
  <2>3. /\ metas' = [metas EXCEPT ![op.space] = op.kind]
        /\ spaces' = [spaces EXCEPT ![op.space] = Len(engines[op.space])]
    BY <1>5 DEF CreateEnter
  <2>4. \A t \in Space : ~Removing(t) /\ ~Removing(t)' /\ (Entering(t)' <=> Entering(t))
    BY <1>c, <2>1, <2>2 DEF Entering, Removing
  <2>5. DirsFitMemory => DirsFitMemory'
    <3> SUFFICES ASSUME DirsFitMemory PROVE DirsFitMemory'
      OBVIOUS
    <3>1. metas'[op.space] = op.kind /\ spaces'[op.space] # 0 /\ dirs[op.space] = "empty"
      BY <2>1, <2>3 DEF DirsFitMemory, Entering
    <3>2. \A t \in Space \ {op.space} : metas'[t] = metas[t] /\ spaces'[t] = spaces[t]
      BY <2>3
    <3> QED BY <1>c, <2>1, <2>2, <2>4, <3>1, <3>2 DEF DirsFitMemory, Listed
  <2>6. DirsFitCatalog => DirsFitCatalog'
    BY <2>1, <2>4 DEF DirsFitCatalog
  <2> QED BY <1>5, <2>1, <2>5, <2>6
<1>6. ASSUME NEW c \in Caller, NEW s \in Space, up' = up, DeleteClose(c, s) PROVE DirInv'
  <2>1. /\ op = Unlocked
        /\ UNCHANGED <<metas, spaces, dirs, catalog, unsaved, forgotten, spoiled>>
        /\ op' = [at |-> "close", by |-> c, space |-> s, kind |-> None]
    BY <1>6 DEF DeleteClose, spaceFiles, spaceMarks
  <2>2. \A t \in Space : ~Removing(t)' /\ ~Entering(t)'
    BY <1>c, <2>1 DEF Entering, Removing
  <2>3. DirsFitMemory => DirsFitMemory'
    BY <1>d, <2>1, <2>2 DEF DirsFitMemory, Listed
  <2>4. DirsFitCatalog => DirsFitCatalog'
    BY <1>d, <2>1, <2>2 DEF DirsFitCatalog
  <2> QED BY <1>6, <2>1, <2>3, <2>4
<1>7. CASE up' = up /\ DeleteUnmap
  <2>1. /\ op.at = "close" /\ op.kind = None /\ op.space \in Space /\ op \in Operation /\ up
        /\ Listed(op.space)
        /\ UNCHANGED <<metas, catalog, unsaved, forgotten, spoiled>>
    BY <1>b, <1>7 DEF DeleteUnmap, LockInv, EngineInv, spaceMarks
  <2>2. op'.at = "remove" /\ op'.space = op.space /\ op'.kind = None
    BY <1>7, <2>1 DEF DeleteUnmap, Operation
  <2>3. \A t \in Space \ {op.space} : dirs'[t] = dirs[t] /\ spaces'[t] = spaces[t]
    BY <1>7 DEF DeleteUnmap
  <2>4. \A t \in Space : /\ ~Entering(t)' /\ ~Removing(t) /\ (Removing(t)' <=> t = op.space)
    BY <1>c, <2>1, <2>2 DEF Entering, Removing
  <2>5. DirsFitMemory => DirsFitMemory'
    BY <2>1, <2>2, <2>3, <2>4 DEF DirsFitMemory, Listed
  <2>6. ASSUME ~unsaved, DirsFitCatalog PROVE DirsFitCatalog'
    <3>1. catalog.metas = metas
      BY <2>1, <2>6 DEF CatalogInv
    <3> QED BY <2>1, <2>3, <2>4, <2>6, <3>1 DEF DirsFitCatalog, Listed
  <2> QED BY <1>7, <2>1, <2>5, <2>6
<1>8. CASE up' = up /\ DeleteForget
  <2>1. /\ op.at = "remove" /\ op.kind = None /\ op.space \in Space /\ op \in Operation
        /\ UNCHANGED <<spaces, catalog, unsaved, forgotten, spoiled>>
        /\ dirs' = [dirs EXCEPT ![op.space] = "none"]
        /\ metas' = [metas EXCEPT ![op.space] = None]
    BY <1>b, <1>8 DEF DeleteForget, LockInv, spaceMarks
  <2>2. op'.at = "save" /\ op'.space = op.space /\ op'.kind = None
    BY <1>8, <2>1 DEF DeleteForget, Operation
  <2>3. /\ dirs'[op.space] = "none" /\ metas'[op.space] = None
        /\ \A t \in Space \ {op.space} : dirs'[t] = dirs[t] /\ metas'[t] = metas[t]
    BY <2>1
  <2>4. \A t \in Space : /\ ~Entering(t)' /\ (Removing(t) <=> t = op.space)
                         /\ (Removing(t)' <=> t = op.space)
    BY <1>c, <2>1, <2>2 DEF Entering, Removing
  <2>5. DirsFitMemory => DirsFitMemory'
    BY <2>1, <2>2, <2>3, <2>4 DEF DirsFitMemory, Listed
  <2>6. DirsFitCatalog => DirsFitCatalog'
    BY <2>1, <2>3, <2>4 DEF DirsFitCatalog
  <2> QED BY <1>8, <2>1, <2>5, <2>6
<1>9. CASE up' = up /\ DeleteFails
  <2>1. /\ op.at = "remove" /\ op.kind = None /\ op.space \in Space /\ op' = Unlocked
        /\ UNCHANGED <<metas, spaces, dirs, catalog, unsaved, forgotten>>
        /\ spoiled' = spoiled \cup {op.space}
    BY <1>b, <1>9 DEF DeleteFails, LockInv, spaceFiles
  <2>2. \A t \in Space : ~Entering(t)' /\ (Removing(t) => t \in spoiled')
    BY <1>c, <2>1 DEF Entering, Removing, Unlocked
  <2>3. DirsFitMemory => DirsFitMemory'
    BY <2>1, <2>2 DEF DirsFitMemory, Listed
  <2>4. DirsFitCatalog => DirsFitCatalog'
    BY <2>1, <2>2 DEF DirsFitCatalog
  <2> QED BY <1>9, <2>1, <2>3, <2>4

<1>10. CASE up' = up /\ SaveTruncate
  <2>1. /\ op.at = "save" /\ op.space \in Space /\ op \in Operation
        /\ UNCHANGED <<metas, spaces, dirs, unsaved, forgotten, spoiled>>
        /\ catalog'.torn
    BY <1>b, <1>10 DEF SaveTruncate, spaceMarks
  <2>2. op'.at = "write" /\ op'.space = op.space /\ op'.kind = op.kind
    BY <1>10, <2>1 DEF SaveTruncate, Operation
  <2>3. \A t \in Space : /\ (Entering(t)' <=> Entering(t)) /\ (Removing(t) => ~Listed(t))
    BY <2>1, <2>2 DEF Entering, Removing, EngineInv
  <2>4. DirsFitMemory => DirsFitMemory'
    BY <2>1, <2>2, <2>3 DEF DirsFitMemory, Listed
  <2> QED BY <1>10, <2>1, <2>4
<1>11. CASE up' = up /\ SaveWrite
  <2>1. /\ op.at = "write" /\ op.space \in Space /\ op.kind \in Kind \cup {None} /\ up /\ op' = Unlocked
        /\ UNCHANGED <<metas, spaces, dirs, forgotten>> /\ catalog'.metas = metas
        /\ spoiled' = IF op.kind = None THEN spoiled \ {op.space} ELSE spoiled
    BY <1>b, <1>11 DEF SaveWrite
  <2>2. \A t \in Space : ~Entering(t)' /\ ~Removing(t) /\ ~Removing(t)'
    BY <1>c, <2>1 DEF Entering, Removing, Unlocked
  <2>3. IF op.kind = None THEN ~Listed(op.space) ELSE spaces[op.space] # 0
    BY <2>1 DEF EngineInv
  <2>4. DirsFitMemory => DirsFitMemory' /\ DirsFitCatalog'
    BY <2>1, <2>2, <2>3 DEF DirsFitMemory, DirsFitCatalog, Listed
  <2> QED BY <2>1, <2>4
<1>12. CASE up' = up /\ SaveFails
  <2>1. /\ op.at \in {"save", "write"} /\ op.space \in Space /\ op.kind \in Kind \cup {None}
        /\ op' = Unlocked /\ unsaved'
        /\ UNCHANGED <<metas, spaces, dirs, forgotten, spoiled>>
    BY <1>b, <1>12 DEF SaveFails, spaceFiles
  <2>2. \A t \in Space : ~Entering(t)' /\ ~Removing(t)'
    BY <1>c, <2>1 DEF Entering, Removing, Unlocked
  <2>3. IF op.kind = None THEN ~Listed(op.space) ELSE spaces[op.space] # 0
    BY <2>1 DEF EngineInv
  <2>4. DirsFitMemory => DirsFitMemory'
    BY <2>1, <2>2, <2>3 DEF DirsFitMemory, Listed, Removing
  <2> QED BY <1>12, <2>1, <2>4
<1>13. ASSUME NEW c \in Caller, up' = up, UNCHANGED <<memory, catalog, spaceMarks>>, Call(c)
       PROVE  DirInv'
  <2>1. UNCHANGED <<metas, spaces, op, catalog, unsaved, forgotten, spoiled>>
    BY <1>13 DEF memory, spaceMarks
  <2>2. \A t \in Space : (Entering(t)' <=> Entering(t)) /\ (Removing(t)' <=> Removing(t))
    BY <2>1 DEF Entering, Removing
  <2>3. CASE UNCHANGED dirs
    BY <1>13, <2>1, <2>2, <2>3 DEF DirsFitMemory, DirsFitCatalog, Listed
  <2>4. ASSUME NEW s \in Space, Listed(s), op.space # s, up,
               dirs[s] = "empty", dirs' = [dirs EXCEPT ![s] = "data"]
        PROVE  DirInv'
    <3>1. dirs'[s] = "data" /\ \A t \in Space \ {s} : dirs'[t] = dirs[t]
      BY <2>4
    <3>2. DirsFitMemory => DirsFitMemory'
      BY <2>1, <2>2, <2>4, <3>1 DEF DirsFitMemory, Listed, Entering
    <3>3. ASSUME ~unsaved, ~catalog.torn, DirsFitCatalog PROVE DirsFitCatalog'
      <4>1. catalog.metas[s] = metas[s]
        BY <2>4, <3>3 DEF CatalogInv
      <4> QED BY <2>1, <2>2, <2>4, <3>1, <3>3, <4>1 DEF DirsFitCatalog, Listed
    <3> QED BY <1>13, <2>1, <3>2, <3>3
  <2> QED BY <1>13, <2>3, <2>4, CallWrites
<1>14. CASE UNCHANGED <<spaceVars, up>>
  <2>1. UNCHANGED <<metas, spaces, op, dirs, catalog, unsaved, forgotten, spoiled, up>>
    BY <1>14 DEF spaceVars, memory, spaceFiles, spaceMarks
  <2> QED BY <2>1 DEF DirsFitMemory, DirsFitCatalog, Listed, Entering, Removing
<1> QED
  BY <1>1, <1>2, <1>3, <1>4, <1>5, <1>6, <1>7, <1>8, <1>9, <1>10, <1>11, <1>12, <1>13, <1>14
  DEF SpacesStep

-----------------------------------------------------------------------------
\* All of it holds of every reachable state.
LEMMA Invariant == Spec => []ServerInv
<1>1. Init => ServerInv
  BY TypeInit, LockInit, EngineInit, RequestInit, CatalogInit, DirInit, RightsInit
  DEF ServerInv, UserFileMatches, Init
<1>2. ServerInv /\ [Next]_vars => ServerInv'
  BY TypeStep, LockStep, EngineStep, RequestStep, CatalogStep, DirStep, UserFileStep, RightsStep
  DEF ServerInv
<1> QED BY <1>1, <1>2, PTL DEF Spec

\* A restart finds the spaces of the moment: metadata.json follows the maps
\* through every CreateSpaceWithWAL and DeleteSpace whose save did not fail.
THEOREM CatalogCorrect == Spec => []CatalogMatchesMemory
<1>1. ServerInv => CatalogMatchesMemory
  BY DEF ServerInv, CatalogInv, CatalogMatchesMemory, Unlocked, InCatalog
<1> QED BY <1>1, Invariant, PTL

\* What LIST_SPACES shows can be used, after any number of kills, restarts and
\* half-done removals of other spaces.
THEOREM ListedCorrect == Spec => []ListedIsUsable
<1>1. ServerInv => ListedIsUsable
  <2> SUFFICES ASSUME ServerInv, up, ~forgotten, NEW s \in Space \ spoiled, Listed(s), op.space # s
               PROVE  /\ dirs[s] \in {"empty", "data"}
                      /\ \/ spaces[s] = 0 /\ metas[s] = "vector"
                         \/ /\ spaces[s] \in DOMAIN engines[s]
                            /\ engines[s][spaces[s]] = [kind |-> metas[s], open |-> TRUE]
    BY DEF ListedIsUsable
  <2>1. DirsFitMemory /\ EngineInv /\ ~Removing(s)
    BY DEF ServerInv, DirInv, Removing
  <2>2. dirs[s] \in {"empty", "data"} /\ (spaces[s] = 0 => metas[s] = "vector")
    BY <2>1 DEF DirsFitMemory
  <2>3. ASSUME spaces[s] # 0
        PROVE  /\ spaces[s] \in DOMAIN engines[s]
               /\ engines[s][spaces[s]] = [kind |-> metas[s], open |-> TRUE]
    <3>1. /\ spaces[s] \in DOMAIN engines[s]
          /\ engines[s][spaces[s]].kind = metas[s] /\ engines[s][spaces[s]].open
      BY <2>1, <2>3 DEF EngineInv
    <3>2. engines[s] \in Seq(Engine)
      BY DEF ServerInv, TypeOK, SpacesTypeOK
    <3>3. engines[s][spaces[s]] \in Engine
      BY <3>1, <3>2
    <3> QED BY <3>1, <3>3 DEF Engine
  <2> QED BY <2>2, <2>3
<1> QED BY <1>1, Invariant, PTL

\* No engine is left open outside the map, so two engines never work on the
\* files of one space.
THEOREM EnginesCorrect == Spec => []OpenEngineIsKnown
<1>1. ServerInv => OpenEngineIsKnown
  BY DEF ServerInv, EngineInv
<1> QED BY <1>1, Invariant, PTL

\* users.json follows the users, unless a caller was told that it could not be
\* saved.
THEOREM UserFileCorrect == Spec => []UserFileMatches
<1>1. ServerInv => UserFileMatches
  BY DEF ServerInv
<1> QED BY <1>1, Invariant, PTL

\* No command takes effect for a user who was not administrator at any moment
\* since it was sent.
THEOREM RightsCorrect == Spec => []DemotedCommandsNothing
<1>1. ServerInv => DemotedCommandsNothing
  BY DEF ServerInv, RightsInv, DemotedCommandsNothing
<1> QED BY <1>1, Invariant, PTL

\* sm.lock and a.lock are held by the session that is busy, and by nobody else.
THEOREM LocksCorrect == Spec => []BusyHoldsLock
<1>1. ServerInv => BusyHoldsLock
  BY DEF ServerInv, LockInv
<1> QED BY <1>1, Invariant, PTL

\* CreateSpaceWithWAL never hands out the data of a deleted space.
THEOREM NewSpaceCorrect == Spec => NewSpaceIsEmpty
<1>1. ServerInv /\ [Next]_vars => [CreateEnter => dirs[op.space] = "empty" \/ forgotten]_vars
  <2> SUFFICES ASSUME ServerInv, CreateEnter, ~forgotten PROVE dirs[op.space] = "empty"
    OBVIOUS
  <2>1. op.at = "enter" /\ op.space \in Space
    BY Holder DEF CreateEnter, ServerInv, TypeOK
  <2>2. up /\ Entering(op.space)
    BY <2>1 DEF ServerInv, LockInv, Entering, Unlocked
  <2> QED BY <2>1, <2>2 DEF ServerInv, DirInv, DirsFitMemory
<1> QED BY <1>1, Invariant, PTL DEF Spec, NewSpaceIsEmpty

\* Only a DeleteSpace between lookup and call leaves a request with a closed
\* engine.
THEOREM OvertakenCorrect == Spec => OnlyDeleteOvertakes
<1>1. ServerInv /\ [Next]_vars => [\A c \in Caller : Call(c) /\ ~Found(c).open => overtaken[c]]_vars
  BY DEF ServerInv, RequestInv, RequestFits, Call, At
<1> QED BY <1>1, Invariant, PTL DEF Spec, OnlyDeleteOvertakes

\* The two look-ups of Execute never bring a request to an engine of another
\* type.
THEOREM CallCorrect == Spec => CallFitsEngine
<1>1. ServerInv /\ [Next]_vars => [\A c \in Caller : Call(c) => Found(c).kind = request[c].kind]_vars
  BY DEF ServerInv, RequestInv, RequestFits, Call, At
<1> QED BY <1>1, Invariant, PTL DEF Spec, CallFitsEngine
=============================================================================
