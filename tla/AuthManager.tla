---------------------------- MODULE AuthManager ----------------------------
(***************************************************************************)
(* The users (internal/auth/manager.go): a map in memory and users.json,   *)
(* which every change writes over in place.  A change holds a.lock until   *)
(* it is saved; Authenticate and GetUser read the map without the lock.    *)
(* Unlike the catalog of spaces, a failing save is reported to the caller, *)
(* but the map keeps the change; and a process does not start on a file    *)
(* it cannot read.                                                         *)
(***************************************************************************)
EXTENDS Naturals

CONSTANTS
  User, Password,
  Perms            \* permission maps in use: subset of [Space -> Right]

VARIABLES
  users,      \* [User -> account, or NoUser]
  saving,     \* save in progress: [at, by]
  userFile,   \* users.json: [exists, torn, users]
  \* History, for the properties only:
  userUnsaved   \* the last save failed

userVars == <<users, saving, userFile, userUnsaved>>

Right == {"none", "read", "write"}
NoUser == [role |-> "none"]
Account == [role : {"admin", "user"}, perms : Perms, password : Password]
Users == [User -> Account \cup {NoUser}]
NoUsers == [u \in User |-> NoUser]
Exists(u) == users[u].role # "none"
IsAdmin(u) == Exists(u) /\ users[u].role = "admin"
NotSaving == [at |-> "idle", by |-> "none"]

\* Types of what the user manager keeps; Callers may make changes.
UsersTypeOK(Callers) ==
  /\ users \in Users
  /\ saving \in [at : {"save", "write"}, by : Callers] \cup {NotSaving}
  /\ userFile \in [exists : BOOLEAN, torn : BOOLEAN, users : Users]
  /\ userUnsaved \in BOOLEAN

\* A role "admin" is enough for everything, else the space must be granted.
HasRole(account, s, required) ==
  \/ account.role = "admin"
  \/ account.perms[s] = "write"
  \/ account.perms[s] = "read" /\ required = "read"

-----------------------------------------------------------------------------
UsersInit ==
  /\ users = NoUsers /\ saving = NotSaving
  /\ userFile = [exists |-> FALSE, torn |-> FALSE, users |-> NoUsers]
  /\ userUnsaved = FALSE

\* bootstrapAdmin, run by "shibudb start" when there is no file: it asks for a
\* name and a password and leaves a file with one administrator, or, when it
\* is killed while it writes, an empty file.
Bootstrap(u, a, torn) ==
  /\ ~userFile.exists /\ a.role = "admin" /\ \A s \in DOMAIN a.perms : a.perms[s] = "none"
  /\ userFile' = [exists |-> TRUE, torn |-> torn,
                  users |-> IF torn THEN NoUsers ELSE [NoUsers EXCEPT ![u] = a]]
  /\ UNCHANGED <<users, saving, userUnsaved>>

\* NewAuthManager of a starting server.  A file that cannot be read ends it.
LoadUsers ==
  /\ userFile.exists /\ ~userFile.torn
  /\ users' = userFile.users /\ saving' = NotSaving
  /\ UNCHANGED <<userFile, userUnsaved>>

LoseUsers ==
  /\ users' = NoUsers /\ saving' = NotSaving
  /\ userUnsaved' = FALSE
  /\ UNCHANGED userFile

-----------------------------------------------------------------------------
\* A change of one user in memory; a.lock is kept for save.
ChangeUser(c, u, a) ==
  /\ saving = NotSaving
  /\ users' = [users EXCEPT ![u] = a]
  /\ saving' = [at |-> "save", by |-> c]
  /\ UNCHANGED <<userFile, userUnsaved>>

CreateUser(c, u) == ~Exists(u) /\ \E a \in Account : ChangeUser(c, u, a)
UpdateUserPassword(c, u) ==
  Exists(u) /\ \E p \in Password : ChangeUser(c, u, [users[u] EXCEPT !.password = p])
\* Mutant of UpdateUserRole: the record is built from the new role alone.
UpdateUserRoleOnly(c, u) ==
  Exists(u) /\ \E r \in {"admin", "user"} : ChangeUser(c, u, [role |-> r])
UpdateUserRole(c, u) ==
  Exists(u) /\ \E r \in {"admin", "user"} : ChangeUser(c, u, [users[u] EXCEPT !.role = r])
UpdateUserPermissions(c, u) ==
  Exists(u) /\ \E p \in Perms : ChangeUser(c, u, [users[u] EXCEPT !.perms = p])
\* Mutant of DeleteUser: the change is not saved.
DeleteUserInMemory(c, u) ==
  /\ Exists(u) /\ saving = NotSaving
  /\ users' = [users EXCEPT ![u] = NoUser]
  /\ UNCHANGED <<saving, userFile, userUnsaved>>
DeleteUser(c, u) == Exists(u) /\ ChangeUser(c, u, NoUser)

\* save: os.WriteFile truncates, then writes.
SaveUsersTruncate ==
  /\ saving.at = "save"
  /\ userFile' = [exists |-> TRUE, torn |-> TRUE, users |-> NoUsers]
  /\ saving' = [saving EXCEPT !.at = "write"]
  /\ UNCHANGED <<users, userUnsaved>>

SaveUsersWrite ==
  /\ saving.at = "write"
  /\ userFile' = [exists |-> TRUE, torn |-> FALSE, users |-> users]
  /\ userUnsaved' = FALSE
  /\ saving' = NotSaving
  /\ UNCHANGED users

\* The caller gets the error; the map is left changed.
SaveUsersFails ==
  /\ saving.at \in {"save", "write"}
  /\ userUnsaved' = TRUE
  /\ saving' = NotSaving
  /\ UNCHANGED <<users, userFile>>
=============================================================================
