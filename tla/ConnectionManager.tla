-------------------------- MODULE ConnectionManager --------------------------
(***************************************************************************)
(* The connection limiter of the server (cmd/server/server.go), the HTTP   *)
(* and signal handlers that change its limit (management.go), and the file *)
(* the limit is kept in (persistence.go).                                  *)
(*                                                                         *)
(* A slot is a token in a buffered channel.  updateLimit replaces the      *)
(* channel; TryAcquire and Release copy the channel under mu.RLock, use    *)
(* the copy after unlocking, and count activeConnections in a step of its  *)
(* own.  channels[Len(channels)] is cm.semaphore, the earlier ones are the *)
(* channels that copies may still refer to.                                *)
(*                                                                         *)
(* Goroutines: the accept loop (the only caller of TryAcquire), one per    *)
(* connection, dynamicLimitManager, one per management request, and the    *)
(* signal handler, whose steps are those of a request for +-100.           *)
(***************************************************************************)
EXTENDS Integers, Sequences, FiniteSets

CONSTANTS
  Conn,          \* connection goroutines
  Admin,         \* management requests and signals being handled at a time
  StartArg,      \* limits given on the command line of start
  Limit,         \* limits of PUT /limit
  Increment, Decrement,   \* amounts of /limit/increase, /limit/decrease
  DefaultLimit,  \* what LoadConnectionLimit returns without a file (1000)
  QueueCap,      \* buffer of limitUpdateChan (10)
  MaxInt,        \* the largest int32: arithmetic wraps around above it
  MaxRequests, MaxStarts   \* bounds: limit requests, starts of the server

ASSUME LimitAssumption ==
  /\ MaxInt \in Nat /\ StartArg \subseteq 1..MaxInt /\ Limit \subseteq -MaxInt..MaxInt
  /\ Increment \subseteq 0..MaxInt /\ Decrement \subseteq 0..MaxInt
  /\ DefaultLimit \in 1..MaxInt /\ QueueCap \in Nat \ {0}
  /\ MaxRequests \in Nat /\ MaxStarts \in Nat

VARIABLES
  max,        \* maxConnections
  active,     \* activeConnections
  channels,   \* Seq of [cap, len]
  accept,     \* accept loop: [at, conn, copy]
  conn,       \* [Conn -> [at, copy]]
  admin,      \* [Admin -> [at, limit]]
  queue,      \* limitUpdateChan
  saving,     \* updateLimit is in SaveConnectionLimit and holds mu
  file,       \* connection_limit.json: a limit, or Absent, or Torn
  \* History, for the properties only:
  disturbed,  \* an update met an acquire or release half done, or active > limit
  count       \* requests and starts so far

limiter == <<max, active, channels>>
vars == <<limiter, accept, conn, admin, queue, saving, file, disturbed, count>>

Absent == -1
Torn   == -2
None   == "none"

\* int32 addition.
Wrap(n) == IF n > MaxInt THEN n - 2 * (MaxInt + 1)
           ELSE IF n < -MaxInt - 1 THEN n + 2 * (MaxInt + 1) ELSE n

Current == Len(channels)
Up == max > 0

IdleAccept == [at |-> "accept", conn |-> None, copy |-> 0]
IdleAdmin  == [at |-> "idle", limit |-> 0]
Stopped(c) == conn[c].at = "none"

-----------------------------------------------------------------------------
Init ==
  /\ max = 0 /\ active = 0 /\ channels = <<>> /\ accept = IdleAccept
  /\ conn = [c \in Conn |-> [at |-> "none", copy |-> 0]]
  /\ admin = [a \in Admin |-> IdleAdmin]
  /\ queue = <<>> /\ saving = FALSE /\ file = Absent
  /\ disturbed = FALSE /\ count = [request |-> 0, start |-> 0]

\* GetPersistentLimit: the file wins over the argument, an unreadable file
\* does not, and a missing one counts as a file that says DefaultLimit.
StartLimit(n) == CASE file = Torn -> n [] file = Absent -> DefaultLimit [] OTHER -> file

Start(n) ==
  /\ ~Up /\ count.start < MaxStarts
  /\ max' = StartLimit(n)
  /\ channels' = <<[cap |-> StartLimit(n), len |-> 0]>>
  /\ count' = [count EXCEPT !.start = @ + 1]
  /\ UNCHANGED <<active, accept, conn, admin, queue, saving, file, disturbed>>

\* "shibudb stop" is SIGKILL.
Kill ==
  /\ Up /\ count.start < MaxStarts
  /\ max' = 0 /\ active' = 0 /\ channels' = <<>> /\ accept' = IdleAccept
  /\ conn' = [c \in Conn |-> [at |-> "none", copy |-> 0]]
  /\ admin' = [a \in Admin |-> IdleAdmin]
  /\ queue' = <<>> /\ saving' = FALSE /\ disturbed' = FALSE
  /\ UNCHANGED <<file, count>>

-----------------------------------------------------------------------------
\* TryAcquire in the accept loop: copy the channel, try to put a token into
\* the copy, count.

AcquireCopy(c) ==
  /\ Up /\ accept.at = "accept" /\ Stopped(c) /\ ~saving
  /\ accept' = [at |-> "push", conn |-> c, copy |-> Current]
  /\ UNCHANGED <<limiter, conn, admin, queue, saving, file, disturbed, count>>

AcquirePush ==
  /\ accept.at = "push"
  /\ channels[accept.copy].len < channels[accept.copy].cap
  /\ channels' = [channels EXCEPT ![accept.copy].len = @ + 1]
  /\ accept' = [accept EXCEPT !.at = "count"]
  /\ UNCHANGED <<max, active, conn, admin, queue, saving, file, disturbed, count>>

\* Mutant of Refuse: a refused connection runs the deferred Release as well.
RefuseUncounts ==
  /\ accept.at = "push"
  /\ channels[accept.copy].len >= channels[accept.copy].cap
  /\ accept' = IdleAccept /\ active' = active - 1
  /\ UNCHANGED <<max, channels, conn, admin, queue, saving, file, disturbed, count>>

\* The channel is full: the connection is refused.
Refuse ==
  /\ accept.at = "push"
  /\ channels[accept.copy].len >= channels[accept.copy].cap
  /\ accept' = IdleAccept
  /\ UNCHANGED <<limiter, conn, admin, queue, saving, file, disturbed, count>>

\* AddInt32, then "go handleConnectionWithManager".
AcquireCount ==
  /\ accept.at = "count"
  /\ active' = active + 1
  /\ conn' = [conn EXCEPT ![accept.conn].at = "serving"]
  /\ accept' = IdleAccept
  /\ UNCHANGED <<max, channels, admin, queue, saving, file, disturbed, count>>

\* The client leaves, or its connection breaks: the deferred Release runs.
Leave(c) ==
  /\ conn[c].at = "serving"
  /\ conn' = [conn EXCEPT ![c].at = "release"]
  /\ UNCHANGED <<limiter, accept, admin, queue, saving, file, disturbed, count>>

\* Release: copy the channel, take a token out of the copy (waiting for one if
\* it has none), count.
ReleaseCopy(c) ==
  /\ conn[c].at = "release" /\ ~saving
  /\ conn' = [conn EXCEPT ![c] = [at |-> "pop", copy |-> Current]]
  /\ UNCHANGED <<limiter, accept, admin, queue, saving, file, disturbed, count>>

\* Mutant of ReleasePop: no token is taken out.
ReleasePopNothing(c) ==
  /\ conn[c].at = "pop"
  /\ conn' = [conn EXCEPT ![c].at = "uncount"]
  /\ UNCHANGED <<limiter, accept, admin, queue, saving, file, disturbed, count>>

ReleasePop(c) ==
  /\ conn[c].at = "pop" /\ channels[conn[c].copy].len > 0
  /\ channels' = [channels EXCEPT ![conn[c].copy].len = @ - 1]
  /\ conn' = [conn EXCEPT ![c].at = "uncount"]
  /\ UNCHANGED <<max, active, accept, admin, queue, saving, file, disturbed, count>>

ReleaseCount(c) ==
  /\ conn[c].at = "uncount"
  /\ active' = active - 1
  /\ conn' = [conn EXCEPT ![c] = [at |-> "none", copy |-> 0]]
  /\ UNCHANGED <<max, channels, accept, admin, queue, saving, file, disturbed, count>>

-----------------------------------------------------------------------------
\* Requests.  Each handler reads what it needs step by step, without a lock.

Request(a, at, n) ==
  /\ Up /\ admin[a].at = "idle" /\ count.request < MaxRequests
  /\ admin' = [admin EXCEPT ![a] = [at |-> at, limit |-> n]]
  /\ count' = [count EXCEPT !.request = @ + 1]
  /\ UNCHANGED <<limiter, accept, conn, queue, saving, file, disturbed>>

SetLimit(a, n) == Request(a, "validate", n)
Increase(a, n) == ~saving /\ Request(a, "validate", Wrap(max + n))
Decrease(a, n) == ~saving /\ Request(a, "floor", Wrap(max - n))

AdminStep(a, at) ==
  /\ admin' = [admin EXCEPT ![a].at = at]
  /\ UNCHANGED <<limiter, accept, conn, saving, file, disturbed, count>>

\* decreaseLimitHandler compares with activeConnections before UpdateLimit does.
DecreaseFloor(a) ==
  /\ admin[a].at = "floor"
  /\ AdminStep(a, IF admin[a].limit < active THEN "idle" ELSE "validate")
  /\ UNCHANGED queue

\* Mutant of Validate: the sign of the limit is not checked.
ValidateAnySign(a) ==
  /\ admin[a].at = "validate"
  /\ AdminStep(a, IF admin[a].limit < active THEN "idle" ELSE "enqueue")
  /\ UNCHANGED queue

\* UpdateLimit: refuse limits that are not positive or below activeConnections.
Validate(a) ==
  /\ admin[a].at = "validate"
  /\ AdminStep(a, IF admin[a].limit <= 0 \/ admin[a].limit < active THEN "idle" ELSE "enqueue")
  /\ UNCHANGED queue

\* Answer "success" once the limit is in the queue, an error when it is full.
Enqueue(a) ==
  /\ admin[a].at = "enqueue"
  /\ AdminStep(a, "idle")
  /\ IF Len(queue) < QueueCap THEN queue' = Append(queue, admin[a].limit) ELSE UNCHANGED queue

-----------------------------------------------------------------------------
\* dynamicLimitManager.

HalfDone == accept.at \in {"push", "count"} \/ \E c \in Conn : conn[c].at \in {"pop", "uncount"}

\* Mutant of ApplyLimit: the new channel starts empty.
ApplyLimitEmpty ==
  /\ queue # <<>> /\ ~saving
  /\ max' = Head(queue)
  /\ channels' = Append(channels, [cap |-> Head(queue), len |-> 0])
  /\ disturbed' = (disturbed \/ HalfDone \/ active > Head(queue))
  /\ queue' = Tail(queue)
  /\ saving' = TRUE /\ file' = Torn
  /\ UNCHANGED <<active, accept, conn, admin, count>>

\* updateLimit under mu.Lock: a new channel that gets a token for each active
\* connection as far as it has room; the old channel is not looked at.  Then
\* SaveConnectionLimit, which truncates the file first.
ApplyLimit ==
  /\ queue # <<>> /\ ~saving
  /\ LET n == Head(queue) IN
     /\ max' = n
     /\ channels' = Append(channels, [cap |-> n, len |-> IF active < n THEN active ELSE n])
     /\ disturbed' = (disturbed \/ HalfDone \/ active > n)
  /\ queue' = Tail(queue)
  /\ saving' = TRUE /\ file' = Torn
  /\ UNCHANGED <<active, accept, conn, admin, count>>

\* Mutant of SaveLimit: the file is emptied and not written.
SaveLimitNothing ==
  /\ saving
  /\ saving' = FALSE
  /\ UNCHANGED <<limiter, accept, conn, admin, queue, file, disturbed, count>>

SaveLimit ==
  /\ saving
  /\ saving' = FALSE /\ file' = max
  /\ UNCHANGED <<limiter, accept, conn, admin, queue, disturbed, count>>

-----------------------------------------------------------------------------
ConnStep(c)  == ReleaseCopy(c) \/ ReleasePop(c) \/ ReleaseCount(c)
AcceptStep   == AcquirePush \/ Refuse \/ AcquireCount
ManagerStep  == ApplyLimit \/ SaveLimit
HandlerStep(a) == DecreaseFloor(a) \/ Validate(a) \/ Enqueue(a)

Next ==
  \/ \E n \in StartArg : Start(n)
  \/ Kill
  \/ \E c \in Conn : AcquireCopy(c) \/ Leave(c) \/ ConnStep(c)
  \/ AcceptStep \/ ManagerStep
  \/ \E a \in Admin : \/ HandlerStep(a)
                      \/ \E n \in Limit : SetLimit(a, n)
                      \/ \E n \in Increment : Increase(a, n)
                      \/ \E n \in Decrement : Decrease(a, n)

\* Goroutines are scheduled, and a channel serves its waiting receivers in the
\* order they came (hence SF); clients, admins and kills owe nothing.
Fairness ==
  /\ WF_vars(AcceptStep) /\ WF_vars(ManagerStep)
  /\ \A c \in Conn : WF_vars(ConnStep(c)) /\ SF_vars(ReleasePop(c))
  /\ \A a \in Admin : WF_vars(HandlerStep(a))

Spec == Init /\ [][Next]_vars /\ Fairness

-----------------------------------------------------------------------------
Channel == [cap : 1..MaxInt, len : Nat]
Accepting == [at : {"accept", "push", "count"}, conn : Conn \cup {None}, copy : Nat]
Connection == [at : {"none", "serving", "release", "pop", "uncount"}, copy : Nat]
Handler == [at : {"idle", "floor", "validate", "enqueue"}, limit : Int]
Counts == [request : Nat, start : Nat]

TypeOK ==
  /\ max \in 0..MaxInt /\ active \in Int /\ file \in Nat \cup {Absent, Torn}
  /\ channels \in Seq(Channel) /\ accept \in Accepting /\ conn \in [Conn -> Connection]
  /\ admin \in [Admin -> Handler] /\ queue \in Seq(1..MaxInt)
  /\ saving \in BOOLEAN /\ disturbed \in BOOLEAN /\ count \in Counts

Counted == {c \in Conn : conn[c].at \in {"serving", "release", "pop", "uncount"}}
Holding == {c \in Conn : conn[c].at \in {"serving", "release", "pop"}}
           \cup (IF accept.at = "count" THEN {accept.conn} ELSE {})

\* activeConnections is exact between the two AddInt32 calls of a connection,
\* whatever happens to the channels: no update, refusal or kill loses a count.
ActiveCountsConnections == active = Cardinality(Counted)

\* As long as no update has met an acquire or release half done, the channel
\* in use has a token for exactly the connections that hold one, so the number
\* of connections never passes the limit.
TokensMatchHolders ==
  Up /\ ~disturbed =>
    channels[Current].len = Cardinality(Holding) /\ channels[Current].cap = max

\* Once an update was applied and saved the file holds the limit in force, so
\* that the next start continues with it: no later update gets between the
\* limit that is set and the limit that is saved.
FileHoldsLimit == Up /\ Current > 1 /\ ~saving => file = max

\* A connection is refused only when max connections hold a token.
RefusedOnlyWhenFull ==
  [][Refuse /\ ~disturbed /\ accept.copy = Current => Cardinality(Holding) >= max]_vars

\* A connection that ends gives its slot back, if no update met an acquire or
\* release half done.
EndedIsReleased ==
  \A c \in Conn : conn[c].at = "release" ~> (conn[c].at = "none" \/ disturbed)

Quiet == accept.at = "accept" /\ ~saving /\ \A c \in Conn : conn[c].at \in {"none", "serving"}

\* docs: "Preserves existing connection permits during updates".
PermitsPreserved == Up /\ Quiet /\ active <= max => channels[Current].len = active

=============================================================================
