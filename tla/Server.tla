------------------------------- MODULE Server -------------------------------
(***************************************************************************)
(* The server process: connections (handleConnection, cmd/server/          *)
(* server.go) that send requests to the query engine (Execute, internal/   *)
(* queryengine/query_engine.go), which works on the spaces (SpaceManager)  *)
(* and the users (AuthManager); its start and its end by SIGKILL.          *)
(*                                                                         *)
(* A session keeps the account it read at login and checks data requests   *)
(* and CREATE_SPACE against that copy; Execute checks administration       *)
(* against the users of the moment.  No lock is held from one step of a    *)
(* request to the next.                                                    *)
(***************************************************************************)
EXTENDS SpaceManager, AuthManager

CONSTANTS
  Commander, Client,  \* connections that send commands, that send data requests
  Access              \* what data requests do: "read", "write"

ASSUME ServerAssumption ==
  /\ Commander \subseteq Caller /\ Client \subseteq Caller
  /\ Access \subseteq {"read", "write"}

VARIABLES
  up,         \* the process runs
  session,    \* [Caller -> [at, user, account]]: a connection
  request,    \* [Caller -> [what, space, kind, engine]]: what it is working on
  \* History, for the properties only:
  overtaken,  \* [Caller -> a DeleteSpace closed its space since the lookup]
  wasAdmin    \* [Caller -> its user was admin since the command was sent]

sessions == <<session, request>>
marks    == <<overtaken, wasAdmin>>
vars == <<spaceVars, userVars, up, sessions, marks>>

NoSession == [at |-> "none", user |-> "none", account |-> NoUser]
NoRequest == [what |-> "none", space |-> "none", kind |-> "none", engine |-> 0]

At(c, label) == session[c].at = label
Goto(c, label) == session' = [session EXCEPT ![c].at = label]
\* The reply is sent and the session reads its next request.
Answer(c) ==
  /\ Goto(c, "ready")
  /\ request' = [request EXCEPT ![c] = NoRequest]
  /\ overtaken' = [overtaken EXCEPT ![c] = FALSE]
  /\ wasAdmin' = [wasAdmin EXCEPT ![c] = FALSE]
GoOnIf(c, test, label) ==
  IF test THEN Goto(c, label) /\ UNCHANGED <<request, marks>> ELSE Answer(c)

-----------------------------------------------------------------------------
Init ==
  /\ SpacesInit /\ UsersInit /\ up = FALSE
  /\ session = [c \in Caller |-> NoSession] /\ request = [c \in Caller |-> NoRequest]
  /\ overtaken = [c \in Caller |-> FALSE] /\ wasAdmin = [c \in Caller |-> FALSE]

FirstStart ==
  /\ ~up
  /\ \E u \in User, a \in Account, torn \in BOOLEAN : Bootstrap(u, a, torn)
  /\ UNCHANGED <<spaceVars, up, sessions, marks>>

\* StartServer up to its accept loop.
Start ==
  /\ ~up /\ up' = TRUE
  /\ LoadSpaces /\ LoadUsers
  /\ UNCHANGED <<sessions, marks>>

\* "shibudb stop", or a runtime error: the maps that SpaceMeta, Authenticate
\* and GetUser read without a lock are being written by others.
Kill ==
  /\ up /\ up' = FALSE
  /\ LoseSpaces /\ LoseUsers
  /\ session' = [c \in Caller |-> NoSession] /\ request' = [c \in Caller |-> NoRequest]
  /\ overtaken' = [c \in Caller |-> FALSE] /\ wasAdmin' = [c \in Caller |-> FALSE]

\* Authenticate reads the account once; the password is right.
Login(c, u) ==
  /\ up /\ At(c, "none") /\ Exists(u)
  /\ session' = [session EXCEPT ![c] = [at |-> "ready", user |-> u, account |-> users[u]]]
  /\ UNCHANGED <<spaceVars, userVars, up, request, marks>>

Leave(c) ==
  /\ At(c, "ready")
  /\ session' = [session EXCEPT ![c] = NoSession]
  /\ UNCHANGED <<spaceVars, userVars, up, request, marks>>

-----------------------------------------------------------------------------
\* Administration.  Only CREATE_SPACE is checked by the session as well.

Send(c, what) ==
  /\ c \in Commander /\ At(c, "ready") /\ (what = "create" => session[c].account.role = "admin")
  /\ Goto(c, "check")
  /\ request' = [request EXCEPT ![c] = [NoRequest EXCEPT !.what = what]]
  /\ wasAdmin' = [wasAdmin EXCEPT ![c] = IsAdmin(session[c].user)]
  /\ UNCHANGED <<spaceVars, userVars, up, overtaken>>

\* Mutant of AdminCheck: the copy of the session decides.
AdminCheckBySession(c) ==
  /\ At(c, "check")
  /\ GoOnIf(c, session[c].account.role = "admin", "run")
  /\ UNCHANGED <<spaceVars, userVars, up>>

\* GetUser(query.User) and the test of its role; the work comes later.
AdminCheck(c) ==
  /\ At(c, "check")
  /\ GoOnIf(c, IsAdmin(session[c].user), "run")
  /\ UNCHANGED <<spaceVars, userVars, up>>

Running(c, what) == At(c, "run") /\ request[c].what = what

RunCreate(c, s, k) ==
  /\ Running(c, "create")
  /\ CreateOpen(c, s, k)
  /\ Goto(c, "busy")
  /\ UNCHANGED <<userVars, up, request, marks>>

RunRejected(c, s) ==
  /\ Running(c, "create")
  /\ CreateRejected(s)
  /\ Answer(c)
  /\ UNCHANGED <<userVars, up>>

RunDelete(c, s) ==
  /\ Running(c, "delete")
  /\ DeleteClose(c, s)
  /\ Goto(c, "busy")
  /\ overtaken' = [d \in Caller |->
       overtaken[d] \/ (session[d].at \in {"meta", "call"} /\ request[d].space = s)]
  /\ UNCHANGED <<userVars, up, request, wasAdmin>>

RunUser(c, u) ==
  /\ Running(c, "user")
  /\ \/ CreateUser(c, u) \/ DeleteUser(c, u)
     \/ UpdateUserPassword(c, u) \/ UpdateUserRole(c, u) \/ UpdateUserPermissions(c, u)
  /\ Goto(c, "busy")
  /\ wasAdmin' = [d \in Caller |->
       wasAdmin[d] \/ (session[d].user = u /\ users'[u].role = "admin")]
  /\ UNCHANGED <<spaceVars, up, request, overtaken>>

\* "already exists", "not found": nothing is changed.  (The last disjunct of
\* "create" is the bound MaxEngines.)
RunError(c) ==
  /\ At(c, "run")
  /\ CASE request[c].what = "create" ->
            op = Unlocked /\ \E s \in Space : \/ spaces[s] # 0 \/ Listed(s)
                                              \/ Len(engines[s]) >= MaxEngines
       [] request[c].what = "delete" -> op = Unlocked /\ \E s \in Space : ~Listed(s)
       [] OTHER -> saving = NotSaving
  /\ Answer(c)
  /\ UNCHANGED <<spaceVars, userVars, up>>

\* The call that holds a lock goes on; when it returns the session answers.
SpacesProgress ==
  /\ CreateEnter \/ DeleteUnmap \/ DeleteForget \/ SaveTruncate
  /\ UNCHANGED <<userVars, up, sessions, marks>>

SpacesReturn ==
  /\ SaveWrite \/ SaveFails \/ DeleteFails
  /\ Answer(op.by)
  /\ UNCHANGED <<userVars, up>>

UsersProgress ==
  /\ SaveUsersTruncate
  /\ UNCHANGED <<spaceVars, up, sessions, marks>>

UsersReturn ==
  /\ SaveUsersWrite \/ SaveUsersFails
  /\ Answer(saving.by)
  /\ UNCHANGED <<spaceVars, up>>

-----------------------------------------------------------------------------
\* Data.  GetSpace under sm.lock.RLock, SpaceMeta under no lock, then the call.

\* Mutant of Lookup: the map is read without sm.lock.
LookupUnlocked(c, s, k, what) ==
  /\ c \in Client /\ At(c, "ready") /\ HasRole(session[c].account, s, what)
  /\ spaces[s] # 0
  /\ Goto(c, "meta")
  /\ request' = [request EXCEPT ![c] = [what |-> what, space |-> s, kind |-> k, engine |-> spaces[s]]]
  /\ overtaken' = [overtaken EXCEPT ![c] = FALSE]
  /\ UNCHANGED <<spaceVars, userVars, up, wasAdmin>>

\* A space without an engine "does not exist", and nothing happens.
Lookup(c, s, k, what) ==
  /\ c \in Client /\ At(c, "ready") /\ HasRole(session[c].account, s, what)
  /\ op = Unlocked /\ spaces[s] # 0
  /\ Goto(c, "meta")
  /\ request' = [request EXCEPT ![c] = [what |-> what, space |-> s, kind |-> k, engine |-> spaces[s]]]
  /\ overtaken' = [overtaken EXCEPT ![c] = FALSE]
  /\ UNCHANGED <<spaceVars, userVars, up, wasAdmin>>

Found(c) == engines[request[c].space][request[c].engine]

\* Mutant of ReadMeta: the engine is taken to be what the catalog says.
ReadMetaOnly(c) ==
  /\ At(c, "meta")
  /\ GoOnIf(c, metas[request[c].space] = request[c].kind, "call")
  /\ UNCHANGED <<spaceVars, userVars, up>>

\* The catalog may be of a later space than the engine; the engine is asked
\* for its type, too.
ReadMeta(c) ==
  /\ At(c, "meta")
  /\ GoOnIf(c, /\ metas[request[c].space] = request[c].kind
               /\ Found(c).kind = request[c].kind, "call")
  /\ UNCHANGED <<spaceVars, userVars, up>>

\* The operation of the engine.  A closed one answers with an error or, when a
\* key is put, takes the value into a batch that is not flushed any more.
Call(c) ==
  /\ At(c, "call")
  /\ dirs' = [dirs EXCEPT ![request[c].space] =
       IF @ = "empty" /\ Found(c).open /\ request[c].what = "write" THEN "data" ELSE @]
  /\ Answer(c)
  /\ UNCHANGED <<memory, catalog, spaceMarks, userVars, up>>

-----------------------------------------------------------------------------
Next ==
  \/ FirstStart \/ Start \/ Kill
  \/ \E c \in Caller :
       \/ \E u \in User : Login(c, u)
       \/ Leave(c) \/ AdminCheck(c) \/ RunError(c) \/ ReadMeta(c) \/ Call(c)
       \/ \E what \in {"create", "delete", "user"} : Send(c, what)
       \/ \E s \in Space : RunRejected(c, s) \/ RunDelete(c, s)
       \/ \E s \in Space, k \in Kind : RunCreate(c, s, k)
       \/ \E u \in User : RunUser(c, u)
       \/ \E s \in Space, k \in Kind, what \in Access : Lookup(c, s, k, what)
  \/ SpacesProgress \/ SpacesReturn \/ UsersProgress \/ UsersReturn

Spec == Init /\ [][Next]_vars

-----------------------------------------------------------------------------
Session == [at : {"none", "ready", "check", "run", "busy", "meta", "call"},
            user : User \cup {"none"}, account : Account \cup {NoUser}]
Request == [what : {"none", "create", "delete", "user", "read", "write"},
            space : Space \cup {"none"}, kind : Kind \cup {"none"}, engine : Nat]

\* Types of both managers, the sessions and their requests.
TypeOK ==
  /\ SpacesTypeOK /\ UsersTypeOK(Caller) /\ up \in BOOLEAN
  /\ session \in [Caller -> Session] /\ request \in [Caller -> Request]
  /\ overtaken \in [Caller -> BOOLEAN] /\ wasAdmin \in [Caller -> BOOLEAN]

\* When nobody changes it, metadata.json says what the server lists: a restart
\* finds the spaces of the moment, unless the last save failed.
CatalogMatchesMemory == up /\ op = Unlocked /\ ~unsaved => InCatalog = metas

\* A space that LIST_SPACES shows has its directory and an open engine of its
\* type, also after kills and restarts, unless a removal of it was cut short or
\* a catalog was lost.  Only a vector space may lack its engine.
ListedIsUsable ==
  up /\ ~forgotten =>
    \A s \in Space \ spoiled : Listed(s) /\ op.space # s =>
      /\ dirs[s] \in {"empty", "data"}
      /\ \/ spaces[s] = 0 /\ metas[s] = "vector"
         \/ /\ spaces[s] \in DOMAIN engines[s]
            /\ engines[s][spaces[s]] = [kind |-> metas[s], open |-> TRUE]

\* No engine is left open behind the manager's back (its goroutines would go
\* on writing): so no two engines ever work on the files of one space.
OpenEngineIsKnown ==
  \A s \in Space : \A i \in DOMAIN engines[s] :
    engines[s][i].open => i = spaces[s] \/ (op.at = "enter" /\ op.space = s /\ i = Len(engines[s]))

\* A created space starts without the data of an earlier one of its name,
\* wherever kills and errors cut its removal short; only a lost catalog leaves
\* a directory that is taken over.
NewSpaceIsEmpty == [][CreateEnter => dirs[op.space] = "empty" \/ forgotten]_vars

\* A request gets to a closed engine only when a DeleteSpace of its space came
\* between lookup and call.
OnlyDeleteOvertakes ==
  [][\A c \in Caller : Call(c) /\ ~Found(c).open => overtaken[c]]_vars

\* A request never runs on an engine of another type, although engine and
\* catalog are looked up separately and the space may be replaced in between.
CallFitsEngine == [][\A c \in Caller : Call(c) => Found(c).kind = request[c].kind]_vars

\* When nobody changes them, users.json holds the users of the moment, unless
\* the last save failed (which its caller was told).
UserFileMatches ==
  up /\ saving = NotSaving /\ ~userUnsaved => ~userFile.torn /\ userFile.users = users

\* A command takes effect only if its user was an administrator at some moment
\* since it was sent: a user who was demoted or deleted commands nothing any
\* more, through sessions that are still open either.
DemotedCommandsNothing == \A c \in Caller : session[c].at \in {"run", "busy"} => wasAdmin[c]

\* Each lock is held by a session that is busy with it and will give it back,
\* and a session that is answered holds none, on every path through errors: so
\* no command waits for a lock that nobody releases.
BusyHoldsLock ==
  \A c \in Caller : At(c, "busy") <=> op.by = c \/ saving.by = c
=============================================================================
