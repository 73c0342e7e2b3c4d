---------------------------- MODULE SpaceManager ----------------------------
(***************************************************************************)
(* The catalog of spaces and the engines behind it (internal/spaces/       *)
(* space_manager.go): two maps in memory, a directory per space, and       *)
(* metadata.json, which is written over in place.                          *)
(*                                                                         *)
(* CreateSpace and DeleteSpace hold sm.lock from start to end; op is the   *)
(* call that holds it.  Each is cut into the steps a kill, or a reader     *)
(* that takes no lock (SpaceMeta), can tell apart.  An engine is a number  *)
(* per space, because the object outlives its entry in the map: a request  *)
(* may hold one that DeleteSpace has closed.                               *)
(***************************************************************************)
EXTENDS Integers, Sequences

CONSTANTS
  Space, Caller,   \* names of spaces, goroutines that call the manager
  MaxEngines       \* bound: engines opened per space by one process

VARIABLES
  metas,     \* spaceMetas: [Space -> engine type, or None]
  spaces,    \* spaces: [Space -> number of its engine, or 0]
  engines,   \* engines of this process: [Space -> Seq([kind, open])]
  op,        \* the call that holds sm.lock
  \* On disk:
  dirs,      \* [Space -> "none", "empty", "data" (of some client), "partial"]
  catalog,   \* metadata.json: [torn, metas]
  \* History, for the properties only:
  unsaved,   \* the last save failed
  forgotten, \* a kill hit a save, or came after one that failed
  spoiled    \* spaces whose removal a kill or an error cut short

memory      == <<metas, spaces, engines, op>>
spaceFiles  == <<dirs, catalog>>
spaceMarks  == <<unsaved, forgotten, spoiled>>
spaceVars   == <<memory, spaceFiles, spaceMarks>>

None == "none"
Kind == {"key-value", "vector"}

\* The manager is never called on no space, nor by nobody.
ASSUME SpacesAssumption == MaxEngines \in Nat /\ None \notin Space \cup Caller

NoSpaces == [s \in Space |-> None]
Unlocked == [at |-> "idle", by |-> None, space |-> None, kind |-> None]

Engine == [kind : Kind, open : BOOLEAN]
Operation == [at : {"enter", "close", "remove", "save", "write"}, by : Caller,
              space : Space, kind : Kind \cup {None}]

\* Types of what the space manager keeps.
SpacesTypeOK ==
  /\ metas \in [Space -> Kind \cup {None}] /\ spaces \in [Space -> Nat]
  /\ engines \in [Space -> Seq(Engine)]
  /\ op \in Operation \cup {Unlocked}
  /\ dirs \in [Space -> {"none", "empty", "data", "partial"}]
  /\ catalog \in [torn : BOOLEAN, metas : [Space -> Kind \cup {None}]]
  /\ unsaved \in BOOLEAN /\ forgotten \in BOOLEAN /\ spoiled \subseteq Space

Listed(s) == metas[s] # None
\* What loadSpaceMetas makes of metadata.json: a torn one is no spaces.
InCatalog == catalog.metas

-----------------------------------------------------------------------------
SpacesInit ==
  /\ metas = NoSpaces /\ spaces = [s \in Space |-> 0]
  /\ engines = [s \in Space |-> <<>>] /\ op = Unlocked
  /\ dirs = [s \in Space |-> "none"] /\ catalog = [torn |-> FALSE, metas |-> NoSpaces]
  /\ unsaved = FALSE /\ forgotten = FALSE /\ spoiled = {}

\* Mutants of LoadSpaces: a space that does not open is not listed; every
\* engine is opened as a key-value engine.
LoadOpenedOnly ==
  LET opens == {s \in Space : InCatalog[s] # None /\ dirs[s] # "none"} IN
  /\ metas' = [s \in Space |-> IF s \in opens THEN InCatalog[s] ELSE None]
  /\ spaces' = [s \in Space |-> IF s \in opens THEN 1 ELSE 0]
  /\ engines' = [s \in Space |-> IF s \in opens
                                 THEN <<[kind |-> InCatalog[s], open |-> TRUE]>> ELSE <<>>]
  /\ op' = Unlocked
  /\ UNCHANGED <<spaceFiles, spaceMarks>>

LoadAsKeyValue ==
  LET opens == {s \in Space : InCatalog[s] # None /\ dirs[s] # "none"} IN
  /\ metas' = InCatalog
  /\ spaces' = [s \in Space |-> IF s \in opens THEN 1 ELSE 0]
  /\ engines' = [s \in Space |-> IF s \in opens
                                 THEN <<[kind |-> "key-value", open |-> TRUE]>> ELSE <<>>]
  /\ op' = Unlocked
  /\ UNCHANGED <<spaceFiles, spaceMarks>>

\* loadSpaceMetas by a new process.  Opening creates missing files but not a
\* missing directory.  A key-value engine takes any content (a log it cannot
\* replay is left aside); a vector engine may refuse its own files (see
\* VectorEngine), and its space is then listed without an engine.
LoadSpaces ==
  \E failed \in SUBSET {s \in Space : InCatalog[s] = "vector"} :
    LET opens == {s \in Space : InCatalog[s] # None /\ dirs[s] # "none"} \ failed IN
    /\ metas' = InCatalog
    /\ spaces' = [s \in Space |-> IF s \in opens THEN 1 ELSE 0]
    /\ engines' = [s \in Space |-> IF s \in opens
                                   THEN <<[kind |-> InCatalog[s], open |-> TRUE]>> ELSE <<>>]
    /\ op' = Unlocked
    /\ UNCHANGED <<spaceFiles, spaceMarks>>

\* The process is killed.  The files stay as they are.
LoseSpaces ==
  /\ metas' = NoSpaces /\ spaces' = [s \in Space |-> 0]
  /\ engines' = [s \in Space |-> <<>>] /\ op' = Unlocked
  /\ unsaved' = FALSE
  /\ forgotten' = (forgotten \/ unsaved \/ catalog.torn)
  /\ spoiled' = IF op.kind = None /\ op.at \in {"remove", "save"}
                THEN spoiled \cup {op.space} ELSE spoiled
  /\ UNCHANGED spaceFiles

-----------------------------------------------------------------------------
\* CreateSpaceWithWAL.

\* The directory is made, or an old one taken as it is, and the engine opened.
CreateOpen(c, s, k) ==
  /\ op = Unlocked /\ spaces[s] = 0 /\ ~Listed(s)
  /\ Len(engines[s]) < MaxEngines
  /\ dirs' = [dirs EXCEPT ![s] = IF @ = "none" THEN "empty" ELSE @]
  /\ engines' = [engines EXCEPT ![s] = Append(@, [kind |-> k, open |-> TRUE])]
  /\ op' = [at |-> "enter", by |-> c, space |-> s, kind |-> k]
  /\ UNCHANGED <<metas, spaces, catalog, spaceMarks>>

\* The index type and the metric are checked, and files opened, after MkdirAll:
\* when that fails the directory stays.
CreateRejected(s) ==
  /\ op = Unlocked /\ spaces[s] = 0 /\ ~Listed(s)
  /\ dirs' = [dirs EXCEPT ![s] = IF @ = "none" THEN "empty" ELSE @]
  /\ UNCHANGED <<memory, catalog, spaceMarks>>

\* The two maps.
CreateEnter ==
  /\ op.at = "enter"
  /\ spaces' = [spaces EXCEPT ![op.space] = Len(engines[op.space])]
  /\ metas' = [metas EXCEPT ![op.space] = op.kind]
  /\ op' = [op EXCEPT !.at = "save"]
  /\ UNCHANGED <<engines, spaceFiles, spaceMarks>>

-----------------------------------------------------------------------------
\* DeleteSpace.

CloseEngine(s) ==
  engines' = [engines EXCEPT ![s] =
    [i \in DOMAIN @ |-> IF i = spaces[s] THEN [@[i] EXCEPT !.open = FALSE] ELSE @[i]]]

\* Mutant of DeleteClose: the engine is not closed.
DeleteNoClose(c, s) ==
  /\ op = Unlocked /\ Listed(s)
  /\ op' = [at |-> "close", by |-> c, space |-> s, kind |-> None]
  /\ UNCHANGED <<metas, spaces, engines, spaceFiles, spaceMarks>>

\* Close flushes and may take long; the engine is still in the map.
DeleteClose(c, s) ==
  /\ op = Unlocked /\ Listed(s)
  /\ CloseEngine(s)
  /\ op' = [at |-> "close", by |-> c, space |-> s, kind |-> None]
  /\ UNCHANGED <<metas, spaces, spaceFiles, spaceMarks>>

\* Out of the map; RemoveAll has deleted some of the files.
DeleteUnmap ==
  /\ op.at = "close"
  /\ spaces' = [spaces EXCEPT ![op.space] = 0]
  /\ dirs' = [dirs EXCEPT ![op.space] = IF @ = "none" THEN @ ELSE "partial"]
  /\ op' = [op EXCEPT !.at = "remove"]
  /\ UNCHANGED <<metas, engines, catalog, spaceMarks>>

\* Mutant of DeleteForget: the entry goes, the directory stays.
DeleteForgetOnly ==
  /\ op.at = "remove"
  /\ metas' = [metas EXCEPT ![op.space] = None]
  /\ op' = [op EXCEPT !.at = "save"]
  /\ UNCHANGED <<spaces, engines, spaceFiles, spaceMarks>>

\* RemoveAll is done; the space leaves the catalog in memory.
DeleteForget ==
  /\ op.at = "remove"
  /\ dirs' = [dirs EXCEPT ![op.space] = "none"]
  /\ metas' = [metas EXCEPT ![op.space] = None]
  /\ op' = [op EXCEPT !.at = "save"]
  /\ UNCHANGED <<spaces, engines, catalog, spaceMarks>>

\* RemoveAll fails: the space stays listed, without an engine.
DeleteFails ==
  /\ op.at = "remove"
  /\ op' = Unlocked
  /\ spoiled' = spoiled \cup {op.space}
  /\ UNCHANGED <<metas, spaces, engines, spaceFiles, unsaved, forgotten>>

-----------------------------------------------------------------------------
\* saveSpaceMetas: os.WriteFile truncates the file, then writes it.  Its error
\* is ignored: the caller is told that all is well.

SaveTruncate ==
  /\ op.at = "save"
  /\ catalog' = [torn |-> TRUE, metas |-> NoSpaces]
  /\ op' = [op EXCEPT !.at = "write"]
  /\ UNCHANGED <<metas, spaces, engines, dirs, spaceMarks>>

SaveWrite ==
  /\ op.at = "write"
  /\ catalog' = [torn |-> FALSE, metas |-> metas]
  /\ unsaved' = FALSE
  /\ spoiled' = IF op.kind = None THEN spoiled \ {op.space} ELSE spoiled
  /\ op' = Unlocked
  /\ UNCHANGED <<metas, spaces, engines, dirs, forgotten>>

\* Mutant of SaveFails: sm.lock is not given back.
SaveFailsKeepsLock ==
  /\ op.at \in {"save", "write"}
  /\ unsaved' = TRUE
  /\ UNCHANGED <<memory, spaceFiles, forgotten, spoiled>>

\* The file cannot be opened (and keeps its content), or not be written.
SaveFails ==
  /\ op.at \in {"save", "write"}
  /\ unsaved' = TRUE
  /\ op' = Unlocked
  /\ UNCHANGED <<metas, spaces, engines, spaceFiles, forgotten, spoiled>>
=============================================================================
