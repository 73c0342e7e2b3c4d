----------------------- MODULE ConnectionManagerProofs -----------------------
(***************************************************************************)
(* What holds of ConnectionManager for any number of connections and       *)
(* requests, any limits and any bound on the queue.                        *)
(***************************************************************************)
EXTENDS ConnectionManager, FiniteSetTheorems, TLAPS

\* Limits under way fit into an int32, and those that passed Validate are
\* positive; the file holds a limit if it can be read at all.
LimitsInv ==
  /\ \A a \in Admin : admin[a].limit <= MaxInt /\ (admin[a].at = "enqueue" => admin[a].limit > 0)
  /\ file \in 1..MaxInt \cup {Absent, Torn}

\* A copy is of some channel; the connection being accepted has no goroutine
\* yet; of a process that is not running nothing is left.
CopiesInv ==
  /\ accept.at # "accept" => /\ accept.conn \in Conn /\ Stopped(accept.conn)
                             /\ accept.copy \in DOMAIN channels
  /\ \A c \in Conn : conn[c].at = "pop" => conn[c].copy \in DOMAIN channels
  /\ IF Up THEN channels # <<>>
     ELSE /\ channels = <<>> /\ queue = <<>> /\ ~saving /\ active = 0
          /\ accept.at = "accept" /\ \A c \in Conn : Stopped(c)
          /\ \A a \in Admin : admin[a].at = "idle"

\* The counter.
CountInv == IsFiniteSet(Counted) /\ active = Cardinality(Counted)

\* The tokens: while no update has met an acquire or release half done, all
\* copies are of the channel in use.
TokensInv ==
  /\ IsFiniteSet(Holding)
  /\ ~disturbed =>
       /\ accept.at # "accept" => accept.copy = Current
       /\ \A c \in Conn : conn[c].at = "pop" => conn[c].copy = Current
  /\ TokensMatchHolders

\* The inductive invariant.
LimiterInv == TypeOK /\ LimitsInv /\ CopiesInv /\ CountInv /\ FileHoldsLimit /\ TokensInv

-----------------------------------------------------------------------------
\* int32 addition and subtraction of amounts stay within an int32.
LEMMA WrapFits ==
  ASSUME NEW m \in 0..MaxInt, NEW n \in 0..MaxInt
  PROVE  Wrap(m + n) \in Int /\ Wrap(m + n) <= MaxInt /\ Wrap(m - n) \in Int /\ Wrap(m - n) <= MaxInt
BY LimitAssumption DEF Wrap

\* The oldest of the queued limits is one of them.
LEMMA HeadTail ==
  ASSUME NEW S, NEW q \in Seq(S), q # <<>>
  PROVE  Head(q) \in S /\ Tail(q) \in Seq(S)
OBVIOUS

\* A request starts with a limit that fits.
LEMMA Requested ==
  ASSUME TypeOK, NEW a \in Admin,
         \/ \E n \in Limit : SetLimit(a, n)
         \/ \E n \in Increment : Increase(a, n)
         \/ \E n \in Decrement : Decrease(a, n)
  PROVE  /\ \E at \in {"floor", "validate"}, n \in Int :
              n <= MaxInt /\ Request(a, at, n)
         /\ Up
<1>0. Up
  BY DEF SetLimit, Increase, Decrease, Request
<1>1. CASE \E n \in Limit : SetLimit(a, n)
  <2>1. PICK n \in Limit : SetLimit(a, n)
    BY <1>1
  <2>2. n \in Int /\ n <= MaxInt
    BY LimitAssumption
  <2> QED BY <1>0, <2>1, <2>2 DEF SetLimit
<1>2. CASE \E n \in Increment : Increase(a, n)
  <2>1. PICK n \in Increment : Increase(a, n)
    BY <1>2
  <2>2. Wrap(max + n) \in Int /\ Wrap(max + n) <= MaxInt
    BY WrapFits, LimitAssumption DEF TypeOK
  <2> QED BY <1>0, <2>1, <2>2 DEF Increase
<1>3. CASE \E n \in Decrement : Decrease(a, n)
  <2>1. PICK n \in Decrement : Decrease(a, n)
    BY <1>3
  <2>2. Wrap(max - n) \in Int /\ Wrap(max - n) <= MaxInt
    BY WrapFits, LimitAssumption DEF TypeOK
  <2> QED BY <1>0, <2>1, <2>2 DEF Decrease
<1> QED BY <1>1, <1>2, <1>3

\* A goroutine goes to another label; a counter counts; a token comes or goes.
LEMMA MovesType ==
  ASSUME TypeOK
  PROVE  /\ \A at \in {"none", "serving", "release", "pop", "uncount"}, n \in Nat :
              [at |-> at, copy |-> n] \in Connection
         /\ \A c \in Conn, at \in {"none", "serving", "release", "pop", "uncount"} :
              [conn EXCEPT ![c].at = at] \in [Conn -> Connection]
         /\ \A at \in {"accept", "push", "count"} : [accept EXCEPT !.at = at] \in Accepting
         /\ IdleAccept \in Accepting
         /\ \A c \in Conn, n \in Nat : [at |-> "push", conn |-> c, copy |-> n] \in Accepting
         /\ \A a \in Admin, at \in {"idle", "floor", "validate", "enqueue"} :
              [admin EXCEPT ![a].at = at] \in [Admin -> Handler]
         /\ \A at \in {"idle", "floor", "validate", "enqueue"}, n \in Int :
              [at |-> at, limit |-> n] \in Handler
         /\ [count EXCEPT !.start = @ + 1] \in Counts
         /\ [count EXCEPT !.request = @ + 1] \in Counts
<1>1. \A at \in {"none", "serving", "release", "pop", "uncount"}, n \in Nat :
         [at |-> at, copy |-> n] \in Connection
  BY DEF Connection
<1>2. \A c \in Conn, at \in {"none", "serving", "release", "pop", "uncount"} :
         [conn EXCEPT ![c].at = at] \in [Conn -> Connection]
  BY DEF TypeOK, Connection
<1>3. \A at \in {"accept", "push", "count"} : [accept EXCEPT !.at = at] \in Accepting
  BY DEF TypeOK, Accepting
<1>4. IdleAccept \in Accepting
  BY DEF IdleAccept, Accepting
<1>5. \A c \in Conn, n \in Nat : [at |-> "push", conn |-> c, copy |-> n] \in Accepting
  BY DEF Accepting
<1>6. \A a \in Admin, at \in {"idle", "floor", "validate", "enqueue"} :
         [admin EXCEPT ![a].at = at] \in [Admin -> Handler]
  BY DEF TypeOK, Handler
<1>7. \A at \in {"idle", "floor", "validate", "enqueue"}, n \in Int : [at |-> at, limit |-> n] \in Handler
  BY DEF Handler
<1>8. [count EXCEPT !.start = @ + 1] \in Counts /\ [count EXCEPT !.request = @ + 1] \in Counts
  BY DEF TypeOK, Counts
<1> QED BY <1>1, <1>2, <1>3, <1>4, <1>5, <1>6, <1>7, <1>8

\* Before the first start.
LEMMA LimiterInit == Init => LimiterInv
<1> SUFFICES ASSUME Init PROVE LimiterInv
  OBVIOUS
<1>1. TypeOK
  <2>1. channels \in Seq(Channel) /\ queue \in Seq(1..MaxInt)
    BY DEF Init
  <2>2. accept \in Accepting
    BY DEF Init, IdleAccept, Accepting
  <2>3. conn \in [Conn -> Connection]
    BY DEF Init, Connection
  <2>4. admin \in [Admin -> Handler]
    BY DEF Init, IdleAdmin, Handler
  <2>5. count \in Counts
    BY DEF Init, Counts
  <2>6. saving \in BOOLEAN /\ disturbed \in BOOLEAN /\ max = 0 /\ active = 0
    BY Zenon DEF Init
  <2>8. max \in 0..MaxInt /\ active \in Int
    BY <2>6, LimitAssumption
  <2>7. file \in Nat \cup {Absent, Torn}
    BY DEF Init
  <2> QED BY <2>1, <2>2, <2>3, <2>4, <2>5, <2>6, <2>7, <2>8 DEF TypeOK
<1>2. LimitsInv /\ CopiesInv
  BY LimitAssumption DEF Init, LimitsInv, CopiesInv, IdleAccept, IdleAdmin, Up, Stopped
<1>3. Counted = {} /\ Holding = {}
  BY DEF Init, Counted, Holding, IdleAccept
<1>4. CountInv /\ IsFiniteSet(Holding)
  BY <1>3, FS_EmptySet DEF CountInv, Init
<1>5. FileHoldsLimit /\ TokensInv
  BY <1>4 DEF Init, FileHoldsLimit, TokensInv, TokensMatchHolders, Up, IdleAccept
<1> QED BY <1>1, <1>2, <1>4, <1>5 DEF LimiterInv

-----------------------------------------------------------------------------
\* Every step keeps the types.
LEMMA TypeStep == TypeOK /\ LimitsInv /\ CopiesInv /\ CountInv /\ [Next]_vars => TypeOK'
<1> SUFFICES ASSUME TypeOK, LimitsInv, CopiesInv, CountInv, [Next]_vars PROVE TypeOK'
  OBVIOUS
<1>t. /\ max \in 0..MaxInt /\ active \in Int /\ channels \in Seq(Channel)
      /\ conn \in [Conn -> Connection] /\ admin \in [Admin -> Handler] /\ queue \in Seq(1..MaxInt)
      /\ Current \in Nat
  BY DEF TypeOK, Current
<1>1. CASE UNCHANGED vars
  BY <1>1 DEF vars, limiter, TypeOK
<1>2. ASSUME NEW n \in StartArg, Start(n) PROVE TypeOK'
  <2>1. StartLimit(n) \in 1..MaxInt
    BY LimitAssumption DEF StartLimit, LimitsInv
  <2>2. [cap |-> StartLimit(n), len |-> 0] \in Channel
    BY <2>1 DEF Channel
  <2>3. channels' \in Seq(Channel)
    BY <1>2, <2>2 DEF Start
  <2>4. count' \in Counts
    BY <1>2, MovesType, Zenon DEF Start
  <2>5. max' \in 0..MaxInt
    BY <1>2, <2>1, LimitAssumption DEF Start
  <2>6. UNCHANGED <<active, accept, conn, admin, queue, saving, file, disturbed>>
    BY <1>2 DEF Start
  <2> QED BY <2>3, <2>4, <2>5, <2>6 DEF TypeOK
<1>3. CASE Kill
  <2>1. channels' \in Seq(Channel) /\ queue' \in Seq(1..MaxInt)
    BY <1>3 DEF Kill
  <2>2. accept' \in Accepting
    BY <1>3, MovesType DEF Kill
  <2>3. conn' \in [Conn -> Connection]
    BY <1>3, MovesType DEF Kill
  <2>4. admin' \in [Admin -> Handler]
    BY <1>3 DEF Kill, IdleAdmin, Handler
  <2>5. saving' \in BOOLEAN /\ disturbed' \in BOOLEAN /\ max' = 0 /\ active' = 0
    BY <1>3, Zenon DEF Kill
  <2>7. max' \in 0..MaxInt /\ active' \in Int
    BY <2>5, LimitAssumption
  <2>6. UNCHANGED <<file, count>>
    BY <1>3 DEF Kill
  <2> QED BY <2>1, <2>2, <2>3, <2>4, <2>5, <2>6, <2>7 DEF TypeOK
<1>4. ASSUME NEW c \in Conn, AcquireCopy(c) PROVE TypeOK'
  <2>1. accept' \in Accepting
    BY <1>t, <1>4, MovesType DEF AcquireCopy
  <2>2. UNCHANGED <<limiter, conn, admin, queue, saving, file, disturbed, count>>
    BY <1>4 DEF AcquireCopy
  <2> QED BY <2>1, <2>2 DEF TypeOK, limiter
<1>5. CASE AcquirePush
  <2>1. accept.copy \in DOMAIN channels
    BY <1>5 DEF AcquirePush, CopiesInv
  <2>2. channels[accept.copy] \in Channel
    BY <1>t, <2>1
  <2>3. [channels[accept.copy] EXCEPT !.len = @ + 1] \in Channel
    BY <2>2 DEF Channel
  <2>4. channels' = [channels EXCEPT ![accept.copy] = [channels[accept.copy] EXCEPT !.len = @ + 1]]
    BY <1>5, Zenon DEF AcquirePush
  <2>5. channels' \in Seq(Channel)
    BY <1>t, <2>1, <2>3, <2>4
  <2>6. accept' \in Accepting
    BY <1>5, MovesType, Zenon DEF AcquirePush
  <2>7. UNCHANGED <<max, active, conn, admin, queue, saving, file, disturbed, count>>
    BY <1>5 DEF AcquirePush
  <2> QED BY <2>5, <2>6, <2>7 DEF TypeOK
<1>6. CASE Refuse
  <2>1. accept' \in Accepting
    BY <1>6, MovesType DEF Refuse
  <2>2. UNCHANGED <<limiter, conn, admin, queue, saving, file, disturbed, count>>
    BY <1>6 DEF Refuse
  <2> QED BY <2>1, <2>2 DEF TypeOK, limiter
<1>7. CASE AcquireCount
  <2>1. accept' \in Accepting
    BY <1>7, MovesType, Zenon DEF AcquireCount
  <2>2. conn' \in [Conn -> Connection]
    <3>1. accept.conn \in Conn
      BY <1>7 DEF AcquireCount, CopiesInv
    <3> QED BY <1>7, <3>1, MovesType, Zenon DEF AcquireCount
  <2>3. active' \in Int /\ UNCHANGED <<max, channels, admin, queue, saving, file, disturbed, count>>
    BY <1>t, <1>7 DEF AcquireCount
  <2> QED BY <2>1, <2>2, <2>3 DEF TypeOK
<1>8. ASSUME NEW c \in Conn, Leave(c) \/ ReleaseCopy(c) PROVE TypeOK'
  <2>1. conn' \in [Conn -> Connection]
    <3>1. CASE Leave(c)
      BY <3>1, MovesType, Zenon DEF Leave
    <3>2. CASE ReleaseCopy(c)
      <4>1. [at |-> "pop", copy |-> Current] \in Connection
        BY <1>t, MovesType
      <4> QED BY <1>t, <3>2, <4>1 DEF ReleaseCopy
    <3> QED BY <1>8, <3>1, <3>2
  <2>2. UNCHANGED <<limiter, accept, admin, queue, saving, file, disturbed, count>>
    BY <1>8 DEF Leave, ReleaseCopy
  <2> QED BY <2>1, <2>2 DEF TypeOK, limiter
<1>9. ASSUME NEW c \in Conn, ReleasePop(c) PROVE TypeOK'
  <2>1. conn[c].copy \in DOMAIN channels
    BY <1>9 DEF ReleasePop, CopiesInv
  <2>2. channels[conn[c].copy] \in Channel /\ channels[conn[c].copy].len > 0
    BY <1>t, <1>9, <2>1 DEF ReleasePop
  <2>3. [channels[conn[c].copy] EXCEPT !.len = @ - 1] \in Channel
    BY <2>2 DEF Channel
  <2>4. channels' = [channels EXCEPT ![conn[c].copy] = [channels[conn[c].copy] EXCEPT !.len = @ - 1]]
    BY <1>9, Zenon DEF ReleasePop
  <2>5. channels' \in Seq(Channel)
    BY <1>t, <2>1, <2>3, <2>4
  <2>6. conn' \in [Conn -> Connection]
    BY <1>9, MovesType, Zenon DEF ReleasePop
  <2>7. UNCHANGED <<max, active, accept, admin, queue, saving, file, disturbed, count>>
    BY <1>9 DEF ReleasePop
  <2> QED BY <2>5, <2>6, <2>7 DEF TypeOK
<1>10. ASSUME NEW c \in Conn, ReleaseCount(c) PROVE TypeOK'
  <2>1. [at |-> "none", copy |-> 0] \in Connection
    BY MovesType
  <2>2. conn' \in [Conn -> Connection] /\ active' \in Int
    BY <1>t, <1>10, <2>1 DEF ReleaseCount
  <2>3. UNCHANGED <<max, channels, accept, admin, queue, saving, file, disturbed, count>>
    BY <1>10 DEF ReleaseCount
  <2> QED BY <2>2, <2>3 DEF TypeOK
<1>11. CASE ApplyLimit
  <2>1. Head(queue) \in 1..MaxInt /\ Tail(queue) \in Seq(1..MaxInt)
    <3>1. queue # <<>>
      BY <1>11, Zenon DEF ApplyLimit
    <3> QED BY <1>t, <3>1, HeadTail, Zenon
  <2>2. channels' \in Seq(Channel)
    <3>1. active \in Nat
      BY FS_CardinalityType DEF CountInv
    <3>2. [cap |-> Head(queue), len |-> IF active < Head(queue) THEN active ELSE Head(queue)] \in Channel
      BY <2>1, <3>1, LimitAssumption DEF Channel
    <3>3. channels' = Append(channels, [cap |-> Head(queue),
                                       len |-> IF active < Head(queue) THEN active ELSE Head(queue)])
      BY <1>11 DEF ApplyLimit
    <3> QED BY <1>t, <3>2, <3>3
  <2>3. /\ max' = Head(queue) /\ queue' = Tail(queue) /\ saving' = TRUE /\ file' = Torn
        /\ disturbed' \in BOOLEAN /\ UNCHANGED <<active, accept, conn, admin, count>>
    BY <1>11, Zenon DEF ApplyLimit
  <2>4. max' \in 0..MaxInt /\ queue' \in Seq(1..MaxInt) /\ saving' \in BOOLEAN
        /\ file' \in Nat \cup {Absent, Torn}
    BY <2>1, <2>3, LimitAssumption
  <2> QED BY <2>2, <2>3, <2>4 DEF TypeOK
<1>12. CASE SaveLimit
  <2>1. saving' \in BOOLEAN /\ file' = max
    BY <1>12, Zenon DEF SaveLimit
  <2>3. file' \in Nat \cup {Absent, Torn}
    BY <1>t, <2>1, LimitAssumption
  <2>2. UNCHANGED <<limiter, accept, conn, admin, queue, disturbed, count>>
    BY <1>12 DEF SaveLimit
  <2> QED BY <2>1, <2>2, <2>3 DEF TypeOK, limiter
<1>13. ASSUME NEW a \in Admin, DecreaseFloor(a) \/ Validate(a) PROVE TypeOK'
  <2>1. admin' \in [Admin -> Handler]
    BY <1>13, MovesType DEF DecreaseFloor, Validate, AdminStep
  <2>2. UNCHANGED <<limiter, accept, conn, queue, saving, file, disturbed, count>>
    BY <1>13 DEF DecreaseFloor, Validate, AdminStep
  <2> QED BY <2>1, <2>2 DEF TypeOK, limiter
<1>14. ASSUME NEW a \in Admin, Enqueue(a) PROVE TypeOK'
  <2>1. admin' \in [Admin -> Handler]
    BY <1>14, MovesType DEF Enqueue, AdminStep
  <2>2. admin[a].limit \in 1..MaxInt
    <3>1. admin[a].limit \in Int
      BY <1>t DEF Handler
    <3> QED BY <1>14, <3>1, LimitAssumption DEF Enqueue, LimitsInv
  <2>3. queue' \in Seq(1..MaxInt)
    <3>1. Append(queue, admin[a].limit) \in Seq(1..MaxInt)
      BY <1>t, <2>2
    <3> QED BY <1>t, <1>14, <3>1, Zenon DEF Enqueue
  <2>4. UNCHANGED <<limiter, accept, conn, saving, file, disturbed, count>>
    BY <1>14 DEF Enqueue, AdminStep
  <2> QED BY <2>1, <2>3, <2>4 DEF TypeOK, limiter
<1>15. ASSUME NEW a \in Admin, NEW at \in {"floor", "validate"}, NEW n \in Int, Request(a, at, n)
       PROVE  TypeOK'
  <2>1. [at |-> at, limit |-> n] \in Handler /\ count' \in Counts
    BY <1>15, MovesType, Zenon DEF Request
  <2>2. admin' \in [Admin -> Handler]
    BY <1>t, <1>15, <2>1 DEF Request
  <2>3. UNCHANGED <<limiter, accept, conn, queue, saving, file, disturbed>>
    BY <1>15 DEF Request
  <2> QED BY <2>1, <2>2, <2>3 DEF TypeOK, limiter
<1> QED
  BY <1>1, <1>2, <1>3, <1>4, <1>5, <1>6, <1>7, <1>8, <1>9, <1>10, <1>11, <1>12, <1>13, <1>14, <1>15, Requested
  DEF Next, ConnStep, AcceptStep, ManagerStep, HandlerStep

\* A limit under way fits and, once validated, is positive; the file is written
\* by a running process only.
LEMMA LimitsStep == TypeOK /\ LimitsInv /\ CopiesInv /\ [Next]_vars => LimitsInv'
<1> SUFFICES ASSUME TypeOK, LimitsInv, CopiesInv, [Next]_vars PROVE LimitsInv'
  OBVIOUS
<1>t. admin \in [Admin -> Handler] /\ max \in 0..MaxInt
  BY DEF TypeOK
<1>a. ASSUME UNCHANGED <<admin, file>> PROVE LimitsInv'
  BY <1>a DEF LimitsInv
<1>1. CASE UNCHANGED vars
  BY <1>1, <1>a DEF vars
<1>2. ASSUME NEW n \in StartArg, Start(n) PROVE LimitsInv'
  BY <1>2, <1>a DEF Start
<1>3. CASE Kill
  BY <1>3, LimitAssumption DEF Kill, LimitsInv, IdleAdmin
<1>4. ASSUME NEW c \in Conn, AcquireCopy(c) \/ Leave(c) \/ ConnStep(c) PROVE LimitsInv'
  BY <1>4, <1>a DEF AcquireCopy, Leave, ConnStep, ReleaseCopy, ReleasePop, ReleaseCount
<1>5. CASE AcceptStep
  BY <1>5, <1>a DEF AcceptStep, AcquirePush, Refuse, AcquireCount
<1>6. CASE ApplyLimit
  BY <1>6 DEF ApplyLimit, LimitsInv
<1>7. CASE SaveLimit
  <2>1. Up
    BY <1>7 DEF SaveLimit, CopiesInv
  <2> QED BY <1>t, <1>7, <2>1, LimitAssumption DEF SaveLimit, LimitsInv, Up
<1>8. ASSUME NEW a \in Admin, HandlerStep(a) PROVE LimitsInv'
  <2>1. PICK at \in {"idle", "validate", "enqueue"} :
          /\ admin' = [admin EXCEPT ![a].at = at] /\ file' = file
          /\ at = "enqueue" => admin[a].limit > 0
    <3>1. admin[a].limit \in Int
      BY <1>t DEF Handler
    <3> QED BY <1>8, <3>1 DEF HandlerStep, DecreaseFloor, Validate, Enqueue, AdminStep
  <2>2. \A b \in Admin : admin'[b].limit = admin[b].limit
    BY <1>t, <2>1 DEF Handler
  <2>3. \A b \in Admin : admin'[b].at = IF b = a THEN at ELSE admin[b].at
    BY <1>t, <2>1 DEF Handler
  <2> QED BY <2>1, <2>2, <2>3 DEF LimitsInv
<1>9. ASSUME NEW a \in Admin, NEW at \in {"floor", "validate"}, NEW n \in Int, n <= MaxInt, Request(a, at, n)
      PROVE  LimitsInv'
  BY <1>t, <1>9 DEF Request, LimitsInv
<1> QED
  BY <1>1, <1>2, <1>3, <1>4, <1>5, <1>6, <1>7, <1>8, <1>9, Requested DEF Next, ManagerStep

\* A token comes into a channel or leaves one: nothing else of it changes, nor
\* another channel.
LEMMA TokenMoves ==
  ASSUME TypeOK, NEW i \in DOMAIN channels, NEW n \in Nat,
         channels' = [channels EXCEPT ![i].len = n]
  PROVE  /\ DOMAIN channels' = DOMAIN channels /\ Len(channels') = Len(channels)
         /\ channels'[i].len = n
         /\ \A j \in DOMAIN channels : /\ channels'[j].cap = channels[j].cap
                                       /\ j # i => channels'[j] = channels[j]
<1>1. channels \in Seq(Channel) /\ channels[i] \in Channel
  BY DEF TypeOK
<1>2. channels' = [channels EXCEPT ![i] = [channels[i] EXCEPT !.len = n]]
  BY Zenon
<1>3. [channels[i] EXCEPT !.len = n].len = n /\ [channels[i] EXCEPT !.len = n].cap = channels[i].cap
  BY <1>1 DEF Channel
<1>4. /\ DOMAIN channels' = DOMAIN channels /\ Len(channels') = Len(channels)
      /\ \A j \in DOMAIN channels :
           channels'[j] = IF j = i THEN [channels[i] EXCEPT !.len = n] ELSE channels[j]
  BY <1>1, <1>2
<1> QED BY <1>3, <1>4

\* What AcquirePush and ReleasePop do.
LEMMA Pushed ==
  ASSUME TypeOK, CopiesInv, AcquirePush
  PROVE  /\ accept.copy \in DOMAIN channels /\ channels[accept.copy].len \in Nat
         /\ channels' = [channels EXCEPT ![accept.copy].len = channels[accept.copy].len + 1]
         /\ accept'.at = "count" /\ accept'.conn = accept.conn /\ accept'.copy = accept.copy
<1>1. accept.copy \in DOMAIN channels
  BY DEF AcquirePush, CopiesInv
<1>2. channels[accept.copy] \in Channel
  BY <1>1 DEF TypeOK
<1>3. channels' = [channels EXCEPT ![accept.copy].len = channels[accept.copy].len + 1]
  BY Zenon DEF AcquirePush
<1>4. accept'.at = "count" /\ accept'.conn = accept.conn /\ accept'.copy = accept.copy
  BY DEF AcquirePush, TypeOK, Accepting
<1> QED BY <1>1, <1>2, <1>3, <1>4 DEF Channel

LEMMA Popped ==
  ASSUME TypeOK, CopiesInv, NEW c \in Conn, ReleasePop(c)
  PROVE  /\ conn[c].copy \in DOMAIN channels
         /\ channels[conn[c].copy].len \in Nat /\ channels[conn[c].copy].len > 0
         /\ channels' = [channels EXCEPT ![conn[c].copy].len = channels[conn[c].copy].len - 1]
         /\ conn' = [conn EXCEPT ![c].at = "uncount"]
<1>1. conn[c].copy \in DOMAIN channels
  BY DEF ReleasePop, CopiesInv
<1>2. channels[conn[c].copy] \in Channel
  BY <1>1 DEF TypeOK
<1>3. /\ channels' = [channels EXCEPT ![conn[c].copy].len = channels[conn[c].copy].len - 1]
      /\ conn' = [conn EXCEPT ![c].at = "uncount"]
  BY Zenon DEF ReleasePop
<1> QED BY <1>1, <1>2, <1>3 DEF Channel, ReleasePop

\* Channels are only added while the process runs, so a copy stays a copy of
\* one; nothing is done for a process that does not run.
LEMMA CopiesStep == TypeOK /\ LimitsInv /\ CopiesInv /\ [Next]_vars => CopiesInv'
<1> SUFFICES ASSUME TypeOK, LimitsInv, CopiesInv, [Next]_vars PROVE CopiesInv'
  OBVIOUS
<1>t. /\ max \in 0..MaxInt /\ channels \in Seq(Channel) /\ accept \in Accepting
      /\ conn \in [Conn -> Connection] /\ admin \in [Admin -> Handler] /\ queue \in Seq(1..MaxInt)
  BY DEF TypeOK
<1>1. CASE UNCHANGED vars
  BY <1>1 DEF vars, limiter, CopiesInv, Up, Stopped
<1>2. ASSUME NEW n \in StartArg, Start(n) PROVE CopiesInv'
  <2>1. StartLimit(n) \in 1..MaxInt
    BY LimitAssumption DEF StartLimit, LimitsInv
  <2>2. max' > 0 /\ channels' # <<>> /\ UNCHANGED <<accept, conn>> /\ ~Up
    BY <1>2, <2>1, LimitAssumption DEF Start
  <2> QED BY <2>2 DEF CopiesInv, Up, Stopped
<1>3. CASE Kill
  BY <1>3 DEF Kill, CopiesInv, Up, Stopped, IdleAccept, IdleAdmin
<1>4. ASSUME NEW c \in Conn, AcquireCopy(c) PROVE CopiesInv'
  <2>1. Current \in DOMAIN channels
    BY <1>t, <1>4 DEF AcquireCopy, CopiesInv, Current
  <2> QED BY <1>4, <2>1 DEF AcquireCopy, CopiesInv, limiter, Up, Stopped
<1>5. CASE AcquirePush
  <2>1. DOMAIN channels' = DOMAIN channels /\ (channels # <<>> => channels' # <<>>)
    BY <1>t, <1>5, Pushed, TokenMoves
  <2>2. accept'.conn = accept.conn /\ accept'.copy = accept.copy /\ accept.at # "accept"
        /\ UNCHANGED <<max, conn>>
    BY <1>5, Pushed DEF AcquirePush
  <2> QED BY <2>1, <2>2 DEF CopiesInv, Up, Stopped
<1>6. CASE Refuse
  BY <1>6 DEF Refuse, CopiesInv, limiter, IdleAccept, Up, Stopped
<1>7. CASE AcquireCount
  <2>1. accept.conn \in Conn /\ Up /\ channels # <<>>
    BY <1>7 DEF AcquireCount, CopiesInv
  <2>2. \A d \in Conn : conn'[d].copy = conn[d].copy /\ (conn'[d].at = "pop" => conn[d].at = "pop")
    BY <1>t, <1>7, <2>1 DEF AcquireCount, Connection
  <2> QED BY <1>7, <2>1, <2>2 DEF AcquireCount, CopiesInv, IdleAccept, Up
<1>8. ASSUME NEW c \in Conn, Leave(c) PROVE CopiesInv'
  <2>1. Up /\ channels # <<>> /\ ~Stopped(c) /\ UNCHANGED <<limiter, accept>>
    BY <1>8 DEF Leave, CopiesInv, Stopped
  <2>2. \A d \in Conn : conn'[d].copy = conn[d].copy /\ (conn'[d].at = "pop" => conn[d].at = "pop")
                        /\ (Stopped(d) => Stopped(d)')
    BY <1>t, <1>8, <2>1 DEF Leave, Stopped, Connection
  <2> QED BY <2>1, <2>2 DEF CopiesInv, limiter, Up
<1>9. ASSUME NEW c \in Conn, ReleaseCopy(c) PROVE CopiesInv'
  <2>1. Up /\ channels # <<>> /\ ~Stopped(c) /\ UNCHANGED <<limiter, accept>>
    BY <1>9 DEF ReleaseCopy, CopiesInv, Stopped
  <2>2. Current \in DOMAIN channels
    BY <1>t, <2>1 DEF Current
  <2>3. \A d \in Conn : conn'[d] = IF d = c THEN [at |-> "pop", copy |-> Current] ELSE conn[d]
    BY <1>t, <1>9 DEF ReleaseCopy
  <2> QED BY <2>1, <2>2, <2>3 DEF CopiesInv, limiter, Up, Stopped
<1>10. ASSUME NEW c \in Conn, ReleasePop(c) PROVE CopiesInv'
  <2>1. Up /\ ~Stopped(c) /\ UNCHANGED <<max, accept>>
    BY <1>10 DEF ReleasePop, CopiesInv, Stopped
  <2>2. DOMAIN channels' = DOMAIN channels /\ (channels # <<>> => channels' # <<>>)
    <3>1. conn[c].copy \in DOMAIN channels /\ channels[conn[c].copy].len - 1 \in Nat
          /\ channels' = [channels EXCEPT ![conn[c].copy].len = channels[conn[c].copy].len - 1]
      BY <1>10, Popped
    <3>2. DOMAIN channels' = DOMAIN channels /\ Len(channels') = Len(channels)
      BY <3>1, TokenMoves, Zenon
    <3> QED BY <1>t, <3>2
  <2>3. \A d \in Conn : conn'[d].copy = conn[d].copy /\ (conn'[d].at = "pop" => conn[d].at = "pop")
                        /\ (Stopped(d) => Stopped(d)')
    <3>1. conn' = [conn EXCEPT ![c].at = "uncount"]
      BY <1>10, Popped
    <3> QED BY <1>t, <2>1, <3>1 DEF Stopped, Connection
  <2> QED BY <2>1, <2>2, <2>3 DEF CopiesInv, Up
<1>11. ASSUME NEW c \in Conn, ReleaseCount(c) PROVE CopiesInv'
  <2>1. Up /\ UNCHANGED <<max, channels, accept>>
    BY <1>11 DEF ReleaseCount, CopiesInv, Stopped
  <2>2. \A d \in Conn : conn'[d] = IF d = c THEN [at |-> "none", copy |-> 0] ELSE conn[d]
    BY <1>t, <1>11 DEF ReleaseCount
  <2> QED BY <2>1, <2>2 DEF CopiesInv, Up, Stopped
<1>12. CASE ApplyLimit
  <2>1. queue # <<>> /\ Up /\ max' = Head(queue) /\ UNCHANGED <<accept, conn>>
    BY <1>12 DEF ApplyLimit, CopiesInv
  <2>2. max' \in 1..MaxInt
    BY <1>t, <2>1, HeadTail
  <2>3. PICK ch : channels' = Append(channels, ch)
    BY <1>12 DEF ApplyLimit
  <2>4. channels' # <<>> /\ \A i \in DOMAIN channels : i \in DOMAIN channels'
    BY <1>t, <2>3
  <2> QED BY <2>1, <2>2, <2>4, LimitAssumption DEF CopiesInv, Up, Stopped
<1>13. CASE SaveLimit
  BY <1>13 DEF SaveLimit, CopiesInv, limiter, Up, Stopped
<1>14. ASSUME NEW a \in Admin, HandlerStep(a) PROVE CopiesInv'
  <2>1. Up /\ UNCHANGED <<limiter, accept, conn>>
    BY <1>14 DEF HandlerStep, DecreaseFloor, Validate, Enqueue, AdminStep, CopiesInv
  <2> QED BY <2>1 DEF CopiesInv, limiter, Up, Stopped
<1>15. ASSUME NEW a \in Admin, NEW at \in {"floor", "validate"}, NEW n \in Int, Request(a, at, n), Up
       PROVE  CopiesInv'
  BY <1>15 DEF Request, CopiesInv, limiter, Up, Stopped
<1> QED
  BY <1>1, <1>2, <1>3, <1>4, <1>5, <1>6, <1>7, <1>8, <1>9, <1>10, <1>11, <1>12, <1>13, <1>14, <1>15, Requested
  DEF Next, ConnStep, AcceptStep, ManagerStep

-----------------------------------------------------------------------------
\* AcquireCount adds the connection that was accepted to the count, ReleaseCount
\* takes one away that was in it.
LEMMA CountStep == TypeOK /\ CopiesInv /\ CountInv /\ [Next]_vars => CountInv'
<1> SUFFICES ASSUME TypeOK, CopiesInv, CountInv, [Next]_vars PROVE CountInv'
  OBVIOUS
<1>t. conn \in [Conn -> Connection] /\ active \in Int
  BY DEF TypeOK
<1>a. ASSUME Counted' = Counted, active' = active PROVE CountInv'
  BY <1>a DEF CountInv
<1>b. ASSUME UNCHANGED <<conn, active>> PROVE CountInv'
  BY <1>a, <1>b DEF Counted
<1>1. CASE UNCHANGED vars
  BY <1>1, <1>b DEF vars, limiter
<1>2. ASSUME NEW n \in StartArg, Start(n) PROVE CountInv'
  BY <1>2, <1>b DEF Start
<1>3. CASE Kill
  <2>1. Counted' = {} /\ active' = 0
    BY <1>3 DEF Kill, Counted
  <2> QED BY <2>1, FS_EmptySet DEF CountInv
<1>4. ASSUME NEW c \in Conn, AcquireCopy(c) PROVE CountInv'
  BY <1>4, <1>b DEF AcquireCopy, limiter
<1>5. CASE AcquirePush \/ Refuse
  BY <1>5, <1>b DEF AcquirePush, Refuse, limiter
<1>6. CASE AcquireCount
  <2>1. accept.conn \in Conn /\ Stopped(accept.conn) /\ active' = active + 1
        /\ conn' = [conn EXCEPT ![accept.conn].at = "serving"]
    BY <1>6 DEF AcquireCount, CopiesInv
  <2>2. \A d \in Conn : conn'[d].at = IF d = accept.conn THEN "serving" ELSE conn[d].at
    BY <1>t, <2>1 DEF Connection
  <2>3. Counted' = Counted \cup {accept.conn} /\ accept.conn \notin Counted
    BY <2>1, <2>2 DEF Counted, Stopped
  <2>4. IsFiniteSet(Counted') /\ Cardinality(Counted') = Cardinality(Counted) + 1
    BY <2>3, FS_AddElement DEF CountInv
  <2> QED BY <2>1, <2>4 DEF CountInv
<1>7. ASSUME NEW c \in Conn, Leave(c) \/ ReleaseCopy(c) \/ ReleasePop(c) PROVE CountInv'
  <2>1. conn[c].at \in {"serving", "release", "pop"} /\ active' = active
    BY <1>7 DEF Leave, ReleaseCopy, ReleasePop, limiter
  <2>2. PICK at \in {"release", "pop", "uncount"} :
          \A d \in Conn : conn'[d].at = IF d = c THEN at ELSE conn[d].at
    <3>1. CASE Leave(c)
      <4>1. \A d \in Conn : conn'[d].at = IF d = c THEN "release" ELSE conn[d].at
        BY <1>t, <3>1 DEF Leave, Connection
      <4> QED BY <4>1
    <3>2. CASE ReleaseCopy(c)
      <4>1. \A d \in Conn : conn'[d] = IF d = c THEN [at |-> "pop", copy |-> Current] ELSE conn[d]
        BY <1>t, <3>2 DEF ReleaseCopy
      <4>2. \A d \in Conn : conn'[d].at = IF d = c THEN "pop" ELSE conn[d].at
        BY <4>1
      <4> QED BY <4>2
    <3>3. CASE ReleasePop(c)
      <4>1. conn' = [conn EXCEPT ![c].at = "uncount"]
        BY <3>3, Popped
      <4>2. \A d \in Conn : conn'[d].at = IF d = c THEN "uncount" ELSE conn[d].at
        BY <1>t, <4>1 DEF Connection
      <4> QED BY <4>2
    <3> QED BY <1>7, <3>1, <3>2, <3>3
  <2> QED BY <2>1, <2>2, <1>a DEF Counted
<1>8. ASSUME NEW c \in Conn, ReleaseCount(c) PROVE CountInv'
  <2>1. \A d \in Conn : conn'[d] = IF d = c THEN [at |-> "none", copy |-> 0] ELSE conn[d]
    BY <1>t, <1>8 DEF ReleaseCount
  <2>2. Counted' = Counted \ {c} /\ c \in Counted /\ active' = active - 1
    BY <1>8, <2>1 DEF ReleaseCount, Counted
  <2>3. IsFiniteSet(Counted') /\ Cardinality(Counted') = Cardinality(Counted) - 1
    BY <2>2, FS_RemoveElement DEF CountInv
  <2> QED BY <2>2, <2>3 DEF CountInv
<1>9. CASE ManagerStep
  BY <1>9, <1>b DEF ManagerStep, ApplyLimit, SaveLimit, limiter
<1>10. ASSUME NEW a \in Admin, HandlerStep(a) PROVE CountInv'
  BY <1>10, <1>b DEF HandlerStep, DecreaseFloor, Validate, Enqueue, AdminStep, limiter
<1>11. ASSUME NEW a \in Admin, NEW at \in {"floor", "validate"}, NEW n \in Int, Request(a, at, n)
       PROVE  CountInv'
  BY <1>11, <1>b DEF Request, limiter
<1> QED
  BY <1>1, <1>2, <1>3, <1>4, <1>5, <1>6, <1>7, <1>8, <1>9, <1>10, <1>11, Requested
  DEF Next, ConnStep, AcceptStep

\* From ApplyLimit to SaveLimit the limiter is locked, so the limit saved is the
\* limit set.
LEMMA FileStep == TypeOK /\ CopiesInv /\ FileHoldsLimit /\ [Next]_vars => FileHoldsLimit'
<1> SUFFICES ASSUME TypeOK, CopiesInv, FileHoldsLimit, [Next]_vars PROVE FileHoldsLimit'
  OBVIOUS
<1>t. channels \in Seq(Channel) /\ max \in 0..MaxInt
  BY DEF TypeOK
<1>a. ASSUME UNCHANGED <<max, saving, file>>, Len(channels') = Len(channels) PROVE FileHoldsLimit'
  BY <1>a DEF FileHoldsLimit, Up, Current
<1>1. CASE UNCHANGED vars
  BY <1>1, <1>a DEF vars, limiter
<1>2. ASSUME NEW n \in StartArg, Start(n) PROVE FileHoldsLimit'
  <2>1. Len(channels') = 1
    BY <1>2 DEF Start
  <2> QED BY <2>1 DEF FileHoldsLimit, Current
<1>3. CASE Kill
  BY <1>3 DEF Kill, FileHoldsLimit, Up
<1>4. ASSUME NEW c \in Conn, AcquireCopy(c) \/ Leave(c) \/ ReleaseCopy(c) \/ ReleaseCount(c)
      PROVE  FileHoldsLimit'
  BY <1>4, <1>a DEF AcquireCopy, Leave, ReleaseCopy, ReleaseCount, limiter
<1>5. ASSUME NEW c \in Conn, ReleasePop(c) PROVE FileHoldsLimit'
  <2>1. conn[c].copy \in DOMAIN channels /\ channels[conn[c].copy].len - 1 \in Nat
        /\ channels' = [channels EXCEPT ![conn[c].copy].len = channels[conn[c].copy].len - 1]
    BY <1>5, Popped
  <2>2. Len(channels') = Len(channels)
    BY <2>1, TokenMoves, Zenon
  <2> QED BY <1>5, <1>a, <2>2 DEF ReleasePop
<1>6. CASE AcquirePush
  <2>1. Len(channels') = Len(channels)
    BY <1>6, Pushed, TokenMoves
  <2> QED BY <1>6, <1>a, <2>1 DEF AcquirePush
<1>7. CASE Refuse \/ AcquireCount
  BY <1>7, <1>a DEF Refuse, AcquireCount, limiter
<1>8. CASE ApplyLimit
  BY <1>8 DEF ApplyLimit, FileHoldsLimit
<1>9. CASE SaveLimit
  BY <1>9 DEF SaveLimit, FileHoldsLimit, limiter
<1>10. ASSUME NEW a \in Admin, HandlerStep(a) PROVE FileHoldsLimit'
  BY <1>10, <1>a DEF HandlerStep, DecreaseFloor, Validate, Enqueue, AdminStep, limiter
<1>11. ASSUME NEW a \in Admin, NEW at \in {"floor", "validate"}, NEW n \in Int, Request(a, at, n)
       PROVE  FileHoldsLimit'
  BY <1>11, <1>a DEF Request, limiter
<1> QED
  BY <1>1, <1>2, <1>3, <1>4, <1>5, <1>6, <1>7, <1>8, <1>9, <1>10, <1>11, Requested
  DEF Next, ConnStep, AcceptStep, ManagerStep

-----------------------------------------------------------------------------
\* A token is put in for a connection that has none yet, taken out for one that
\* has, and a new channel gets one for each; whoever has copied a channel that
\* is replaced meanwhile disturbs the balance, and the history says so.
LEMMA TokensStep ==
  TypeOK /\ LimitsInv /\ CopiesInv /\ CountInv /\ TokensInv /\ [Next]_vars => TokensInv'
<1> SUFFICES ASSUME TypeOK, LimitsInv, CopiesInv, CountInv, TokensInv, [Next]_vars PROVE TokensInv'
  OBVIOUS
<1>t. /\ max \in 0..MaxInt /\ channels \in Seq(Channel) /\ accept \in Accepting
      /\ conn \in [Conn -> Connection] /\ queue \in Seq(1..MaxInt) /\ active \in Nat
  BY FS_CardinalityType DEF TypeOK, CountInv
<1>h. IsFiniteSet(Holding) /\ Cardinality(Holding) \in Nat
  BY FS_CardinalityType DEF TokensInv
<1>a. ASSUME UNCHANGED <<max, channels, accept, conn, disturbed>> PROVE TokensInv'
  <2>1. Holding' = Holding
    BY <1>a DEF Holding
  <2> QED BY <1>a, <2>1 DEF TokensInv, TokensMatchHolders, Up, Current
<1>b. ASSUME Holding' = Holding, UNCHANGED <<max, channels, disturbed>>,
             accept'.at # "accept" => accept'.copy = Current \/ (accept.at # "accept" /\ accept'.copy = accept.copy),
             \A c \in Conn : conn'[c].at = "pop" =>
               conn'[c].copy = Current \/ (conn[c].at = "pop" /\ conn'[c].copy = conn[c].copy)
      PROVE  TokensInv'
  BY <1>b DEF TokensInv, TokensMatchHolders, Up, Current
<1>1. CASE UNCHANGED vars
  BY <1>1, <1>a DEF vars, limiter
<1>2. ASSUME NEW n \in StartArg, Start(n) PROVE TokensInv'
  <2>1. accept.at = "accept" /\ (\A c \in Conn : Stopped(c)) /\ UNCHANGED <<accept, conn>>
    BY <1>2 DEF Start, CopiesInv
  <2>2. Holding' = {}
    BY <2>1 DEF Holding, Stopped
  <2>3. channels'[Len(channels')].len = 0 /\ channels'[Len(channels')].cap = max'
    BY <1>2 DEF Start
  <2> QED BY <2>1, <2>2, <2>3, FS_EmptySet DEF TokensInv, TokensMatchHolders, Stopped, Current
<1>3. CASE Kill
  <2>1. Holding' = {} /\ max' = 0 /\ accept'.at = "accept" /\ \A c \in Conn : conn'[c].at = "none"
    BY <1>3 DEF Kill, Holding, IdleAccept
  <2> QED BY <2>1, FS_EmptySet DEF TokensInv, TokensMatchHolders, Up
<1>4. ASSUME NEW c \in Conn, AcquireCopy(c) PROVE TokensInv'
  <2>1. Holding' = Holding
    BY <1>4 DEF AcquireCopy, Holding
  <2> QED BY <1>4, <1>b, <2>1 DEF AcquireCopy, limiter
<1>5. CASE AcquirePush
  <2>1. /\ accept.copy \in DOMAIN channels /\ channels[accept.copy].len \in Nat
        /\ channels' = [channels EXCEPT ![accept.copy].len = channels[accept.copy].len + 1]
        /\ accept'.at = "count" /\ accept'.conn = accept.conn /\ accept'.copy = accept.copy
    BY <1>5, Pushed
  <2>2. accept.at = "push" /\ accept.conn \in Conn /\ Stopped(accept.conn) /\ Up
        /\ UNCHANGED <<max, conn, disturbed>>
    BY <1>5 DEF AcquirePush, CopiesInv
  <2>3. Holding' = Holding \cup {accept.conn} /\ accept.conn \notin Holding
    BY <2>1, <2>2 DEF Holding, Stopped
  <2>4. IsFiniteSet(Holding') /\ Cardinality(Holding') = Cardinality(Holding) + 1
    BY <1>h, <2>3, FS_AddElement
  <2>5. /\ Len(channels') = Len(channels)
        /\ channels'[accept.copy].len = channels[accept.copy].len + 1
        /\ channels'[accept.copy].cap = channels[accept.copy].cap
    <3>1. channels[accept.copy].len + 1 \in Nat
      BY <2>1
    <3> QED BY <2>1, <3>1, TokenMoves, Zenon
  <2>6. ~disturbed => /\ accept.copy = Current /\ channels[Current].len = Cardinality(Holding)
                      /\ channels[Current].cap = max
                      /\ \A c \in Conn : conn[c].at = "pop" => conn[c].copy = Current
    BY <2>2 DEF TokensInv, TokensMatchHolders
  <2>7. CASE disturbed
    BY <2>2, <2>4, <2>7 DEF TokensInv, TokensMatchHolders
  <2>8. CASE ~disturbed
    <3>1. Current' = Current /\ channels'[Current].len = Cardinality(Holding') /\ channels'[Current].cap = max'
      BY <2>2, <2>4, <2>5, <2>6, <2>8 DEF Current
    <3>2. accept'.copy = Current' /\ \A c \in Conn : conn'[c].at = "pop" => conn'[c].copy = Current'
      BY <2>1, <2>2, <2>6, <2>8, <3>1
    <3> QED BY <2>4, <3>1, <3>2 DEF TokensInv, TokensMatchHolders
  <2> QED BY <2>7, <2>8
<1>6. CASE Refuse
  <2>1. Holding' = Holding
    BY <1>6 DEF Refuse, Holding, IdleAccept
  <2> QED BY <1>6, <1>b, <2>1 DEF Refuse, limiter, IdleAccept
<1>7. CASE AcquireCount
  <2>1. accept.at = "count" /\ accept.conn \in Conn
        /\ conn' = [conn EXCEPT ![accept.conn].at = "serving"]
        /\ accept'.at = "accept" /\ UNCHANGED <<max, channels, disturbed>>
    BY <1>7 DEF AcquireCount, CopiesInv, IdleAccept
  <2>2. \A d \in Conn : /\ conn'[d].at = IF d = accept.conn THEN "serving" ELSE conn[d].at
                        /\ conn'[d].copy = conn[d].copy
    BY <1>t, <2>1 DEF Connection
  <2>3. Holding' = Holding
    BY <2>1, <2>2 DEF Holding
  <2> QED BY <1>b, <2>1, <2>2, <2>3
<1>8. ASSUME NEW c \in Conn, Leave(c) PROVE TokensInv'
  <2>1. conn[c].at = "serving" /\ UNCHANGED <<limiter, accept, disturbed>>
    BY <1>8 DEF Leave
  <2>2. \A d \in Conn : /\ conn'[d].at = IF d = c THEN "release" ELSE conn[d].at
                        /\ conn'[d].copy = conn[d].copy
    BY <1>t, <1>8 DEF Leave, Connection
  <2>3. Holding' = Holding
    BY <2>1, <2>2 DEF Holding
  <2> QED BY <1>b, <2>1, <2>2, <2>3 DEF limiter
<1>9. ASSUME NEW c \in Conn, ReleaseCopy(c) PROVE TokensInv'
  <2>1. conn[c].at = "release" /\ UNCHANGED <<limiter, accept, disturbed>>
    BY <1>9 DEF ReleaseCopy
  <2>2. \A d \in Conn : conn'[d] = IF d = c THEN [at |-> "pop", copy |-> Current] ELSE conn[d]
    BY <1>t, <1>9 DEF ReleaseCopy
  <2>3. Holding' = Holding
    BY <2>1, <2>2 DEF Holding
  <2> QED BY <1>b, <2>1, <2>2, <2>3 DEF limiter
<1>10. ASSUME NEW c \in Conn, ReleasePop(c) PROVE TokensInv'
  <2>1. /\ conn[c].copy \in DOMAIN channels /\ channels[conn[c].copy].len \in Nat
        /\ channels[conn[c].copy].len - 1 \in Nat
        /\ channels' = [channels EXCEPT ![conn[c].copy].len = channels[conn[c].copy].len - 1]
        /\ conn' = [conn EXCEPT ![c].at = "uncount"]
    BY <1>10, Popped
  <2>2. conn[c].at = "pop" /\ Up /\ UNCHANGED <<max, accept, disturbed>>
        /\ (accept.at = "count" => accept.conn # c)
    BY <1>10 DEF ReleasePop, CopiesInv, Stopped
  <2>3. \A d \in Conn : /\ conn'[d].at = IF d = c THEN "uncount" ELSE conn[d].at
                        /\ conn'[d].copy = conn[d].copy
    BY <1>t, <2>1 DEF Connection
  <2>4. Holding' = Holding \ {c} /\ c \in Holding
    BY <2>2, <2>3 DEF Holding
  <2>5. IsFiniteSet(Holding') /\ Cardinality(Holding') = Cardinality(Holding) - 1
    BY <1>h, <2>4, FS_RemoveElement
  <2>6. /\ Len(channels') = Len(channels)
        /\ channels'[conn[c].copy].len = channels[conn[c].copy].len - 1
        /\ channels'[conn[c].copy].cap = channels[conn[c].copy].cap
    BY <2>1, TokenMoves, Zenon
  <2>7. ~disturbed => /\ conn[c].copy = Current /\ channels[Current].len = Cardinality(Holding)
                      /\ channels[Current].cap = max
                      /\ \A d \in Conn : conn[d].at = "pop" => conn[d].copy = Current
                      /\ accept.at # "accept" => accept.copy = Current
    BY <2>2 DEF TokensInv, TokensMatchHolders
  <2> QED BY <2>2, <2>3, <2>5, <2>6, <2>7 DEF TokensInv, TokensMatchHolders, Current
<1>11. ASSUME NEW c \in Conn, ReleaseCount(c) PROVE TokensInv'
  <2>1. conn[c].at = "uncount" /\ UNCHANGED <<max, channels, accept, disturbed>>
    BY <1>11 DEF ReleaseCount
  <2>2. \A d \in Conn : conn'[d] = IF d = c THEN [at |-> "none", copy |-> 0] ELSE conn[d]
    BY <1>t, <1>11 DEF ReleaseCount
  <2>3. Holding' = Holding
    BY <2>1, <2>2 DEF Holding
  <2> QED BY <1>b, <2>1, <2>2, <2>3
<1>12. CASE ApplyLimit
  <2>1. Head(queue) \in 1..MaxInt
    BY <1>t, <1>12, HeadTail DEF ApplyLimit
  <2>2. /\ max' = Head(queue) /\ UNCHANGED <<accept, conn>>
        /\ channels' = Append(channels, [cap |-> Head(queue),
                                         len |-> IF active < Head(queue) THEN active ELSE Head(queue)])
    BY <1>12 DEF ApplyLimit
  <2>6. ~disturbed' => ~HalfDone /\ ~disturbed /\ active <= Head(queue)
    <3>1. ~disturbed' => ~HalfDone /\ ~disturbed /\ ~(active > Head(queue))
      BY <1>12, Zenon DEF ApplyLimit
    <3> QED BY <1>t, <2>1, <3>1, LimitAssumption
  <2>3. Holding' = Holding
    BY <2>2 DEF Holding
  <2>4. /\ channels'[Len(channels')].cap = Head(queue)
        /\ active <= Head(queue) => channels'[Len(channels')].len = active
    BY <1>t, <2>1, <2>2, LimitAssumption
  <2>5. ~HalfDone => /\ accept.at = "accept" /\ \A c \in Conn : conn[c].at \notin {"pop", "uncount"}
                     /\ Holding = Counted
    BY <1>t DEF HalfDone, Holding, Counted, Accepting, Connection
  <2> QED
    BY <1>h, <2>2, <2>3, <2>4, <2>5, <2>6 DEF TokensInv, TokensMatchHolders, CountInv, Current
<1>13. CASE SaveLimit
  BY <1>13, <1>a DEF SaveLimit, limiter
<1>14. ASSUME NEW a \in Admin, HandlerStep(a) PROVE TokensInv'
  BY <1>14, <1>a DEF HandlerStep, DecreaseFloor, Validate, Enqueue, AdminStep, limiter
<1>15. ASSUME NEW a \in Admin, NEW at \in {"floor", "validate"}, NEW n \in Int, Request(a, at, n)
       PROVE  TokensInv'
  BY <1>15, <1>a DEF Request, limiter
<1> QED
  BY <1>1, <1>2, <1>3, <1>4, <1>5, <1>6, <1>7, <1>8, <1>9, <1>10, <1>11, <1>12, <1>13, <1>14, <1>15, Requested
  DEF Next, ConnStep, AcceptStep, ManagerStep

-----------------------------------------------------------------------------
\* The inductive invariant holds of every execution: a start, kills, any
\* interleaving of acquires, releases, updates of the limit and saves.
THEOREM LimiterCorrect == Spec => []LimiterInv
<1>1. LimiterInv /\ [Next]_vars => LimiterInv'
  BY TypeStep, LimitsStep, CopiesStep, CountStep, FileStep, TokensStep DEF LimiterInv
<1> QED BY <1>1, LimiterInit, PTL DEF Spec

\* The types of the limiter (server.go:20, management.go, persistence.go).
THEOREM TypeCorrect == Spec => []TypeOK
<1>1. LimiterInv => TypeOK
  BY DEF LimiterInv
<1> QED BY <1>1, LimiterCorrect, PTL

\* activeConnections counts the connections between the two AddInt32 calls of
\* TryAcquire and Release, whatever updates and refusals come between.
THEOREM CountIsExact == Spec => []ActiveCountsConnections
<1>1. LimiterInv => ActiveCountsConnections
  BY DEF LimiterInv, CountInv, ActiveCountsConnections
<1> QED BY <1>1, LimiterCorrect, PTL

\* updateLimit saves the limit it has set before another one is set.
THEOREM FileIsCurrent == Spec => []FileHoldsLimit
<1>1. LimiterInv => FileHoldsLimit
  BY DEF LimiterInv
<1> QED BY <1>1, LimiterCorrect, PTL

\* Until an update meets an acquire or a release half done, the channel in use
\* holds one token for each connection that took one.
THEOREM TokensCorrect == Spec => []TokensMatchHolders
<1>1. LimiterInv => TokensMatchHolders
  BY DEF LimiterInv, TokensInv
<1> QED BY <1>1, LimiterCorrect, PTL

\* As long, TryAcquire refuses a connection only when max connections hold a
\* token.
THEOREM RefusalsCorrect == Spec => RefusedOnlyWhenFull
<1>1. LimiterInv /\ [Next]_vars => [Refuse /\ ~disturbed /\ accept.copy = Current => Cardinality(Holding) >= max]_vars
  <2> SUFFICES ASSUME LimiterInv, Refuse, ~disturbed, accept.copy = Current PROVE Cardinality(Holding) >= max
    OBVIOUS
  <2>1. Up
    BY DEF Refuse, LimiterInv, CopiesInv
  <2> QED BY <2>1 DEF Refuse, LimiterInv, TokensInv, TokensMatchHolders
<1> QED BY <1>1, LimiterCorrect, PTL DEF Spec, RefusedOnlyWhenFull

=============================================================================
