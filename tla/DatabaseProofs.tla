--------------------------- MODULE DatabaseProofs ---------------------------
(***************************************************************************)
(* Theorems about the database of the program: the pool of connections,    *)
(* the supervision of its process and the migrations at the start, for     *)
(* every finite set of callers, set of processes and set of versions.      *)
(***************************************************************************)
EXTENDS ConnectionPool, DatabaseSupervision, Startup, FiniteSetTheorems, TLAPS

-----------------------------------------------------------------------------
(* The pool of connections *)

\* everything in PoolTypeOK but the bound of the reference counts, which follows from CountsAreRight
Shapes ==
  /\ conn \in [Conns -> [state : {"connected", "closing", "closed"}, refs : Nat,
                         timer : BOOLEAN, open : BOOLEAN, by : {"nobody", "timer", "all"}]]
  /\ entry \in Conns \cup {NoConn} /\ mutex \in Mutexes \cup {NoMutex}
  /\ user \in [Users -> [step : {"idle", "lock", "wait", "connect", "use"},
                         conn : Conns \cup {NoConn}, mutex : Mutexes \cup {NoMutex}]]
  /\ pool \in {"open", "closing", "gone"}
  /\ \A u \in Users : user[u].step = "use" => user[u].conn \in Conns

\* the reference count is the number of callbacks that have the connection
CountsAreRight == \A c \in Conns : conn[c].refs = Cardinality(UsersOf(c))

\* what the state of an object says about who works on it
StatesAgree(r) ==
  /\ r.by = "timer" => r.refs = 0 /\ r.state = "closing"
  /\ r.state = "closing" => r.by # "nobody"
  /\ r.state = "connected" => r.by = "nobody"
  /\ r.state = "closed" /\ r.refs = 0 /\ r.by = "nobody" => ~r.open
  /\ r.state = "connected" /\ r.refs = 0 => r.timer

PoolInv == Shapes /\ CountsAreRight /\ \A c \in Conns : StatesAgree(conn[c])

ConnRecord ==
  [state : {"connected", "closing", "closed"}, refs : Nat,
   timer : BOOLEAN, open : BOOLEAN, by : {"nobody", "timer", "all"}]

-----------------------------------------------------------------------------
(* The callers of a connection *)

LEMMA UsersFinite ==
  ASSUME NEW c
  PROVE  /\ IsFiniteSet(UsersOf(c)) /\ Cardinality(UsersOf(c)) \in Nat
         /\ Cardinality(UsersOf(c)) <= Cardinality(Users) /\ Cardinality(Users) \in Nat
         /\ Cardinality(UsersOf(c)) = 0 <=> UsersOf(c) = {}
<1>1. UsersOf(c) \in SUBSET Users
  BY DEF UsersOf
<1> QED BY <1>1, UsersAssumption, FS_Subset, FS_CardinalityType, FS_EmptySet

\* a caller that does not have a connection before or after
LEMMA UserMoves ==
  ASSUME Shapes, NEW u \in Users, NEW v, user[u].step # "use", v.step # "use",
         user' = [user EXCEPT ![u] = v], NEW c \in Conns
  PROVE  UsersOf(c)' = UsersOf(c)
  BY DEF UsersOf, Shapes

LEMMA UserJoins ==
  ASSUME Shapes, NEW u \in Users, NEW c \in Conns, user[u].step # "use",
         user' = [user EXCEPT ![u] = [step |-> "use", conn |-> c, mutex |-> NoMutex]]
  PROVE  /\ Cardinality(UsersOf(c)') = Cardinality(UsersOf(c)) + 1
         /\ \A d \in Conns \ {c} : UsersOf(d)' = UsersOf(d)
<1>1. UsersOf(c)' = UsersOf(c) \cup {u} /\ u \notin UsersOf(c)
  BY DEF UsersOf, Shapes
<1>2. \A d \in Conns \ {c} : UsersOf(d)' = UsersOf(d)
  BY DEF UsersOf, Shapes
<1> QED BY <1>1, <1>2, UsersFinite, FS_AddElement

LEMMA UserLeaves ==
  ASSUME Shapes, NEW u \in Users, NEW c \in Conns, user[u].step = "use", user[u].conn = c,
         user' = [user EXCEPT ![u] = Idle]
  PROVE  /\ Cardinality(UsersOf(c)) \in Nat \ {0}
         /\ Cardinality(UsersOf(c)') = Cardinality(UsersOf(c)) - 1
         /\ \A d \in Conns \ {c} : UsersOf(d)' = UsersOf(d)
<1>1. UsersOf(c)' = UsersOf(c) \ {u} /\ u \in UsersOf(c)
  BY DEF UsersOf, Shapes, Idle
<1>2. \A d \in Conns \ {c} : UsersOf(d)' = UsersOf(d)
  BY DEF UsersOf, Shapes, Idle
<1>3. Cardinality(UsersOf(c)) # 0
  BY <1>1, UsersFinite
<1>4. IsFiniteSet(UsersOf(c)) /\ Cardinality(UsersOf(c)) \in Nat
  BY UsersFinite
<1>5. Cardinality(UsersOf(c) \ {u}) = Cardinality(UsersOf(c)) - 1
  BY <1>1, <1>4, FS_RemoveElement
<1> QED BY <1>1, <1>2, <1>3, <1>4, <1>5

-----------------------------------------------------------------------------
(* The objects *)

\* one object and its count change, and nothing else does
LEMMA OneObject ==
  ASSUME PoolInv, Shapes', NEW c \in Conns, NEW r \in ConnRecord, conn' = [conn EXCEPT ![c] = r],
         r.refs = Cardinality(UsersOf(c)'), StatesAgree(r),
         \A d \in Conns \ {c} : UsersOf(d)' = UsersOf(d)
  PROVE  PoolInv'
<1>1. conn'[c] = r /\ \A d \in Conns \ {c} : conn'[d] = conn[d]
  BY DEF PoolInv, Shapes
<1>2. CountsAreRight'
  BY <1>1 DEF PoolInv, CountsAreRight
<1>3. \A d \in Conns : StatesAgree(conn'[d])
  BY <1>1 DEF PoolInv
<1> QED BY <1>2, <1>3 DEF PoolInv, StatesAgree

LEMMA SameObjects ==
  ASSUME PoolInv, Shapes', conn' = conn, \A d \in Conns : UsersOf(d)' = UsersOf(d)
  PROVE  PoolInv'
  BY DEF PoolInv, CountsAreRight, StatesAgree

\* useConnection() begins: of a connected object, or of one that has just been established
LEMMA Joins ==
  ASSUME PoolInv, NEW u \in Users, user[u].step # "use", NEW c \in Conns, NEW r \in ConnRecord,
         Using(u, c, r), r.refs = conn[c].refs, r.state = "connected", r.by = "nobody",
         entry' \in Conns \cup {NoConn}, UNCHANGED <<mutex, pool>>
  PROVE  PoolInv'
<1> DEFINE a == [r EXCEPT !.timer = FALSE]
           b == [a EXCEPT !.refs = a.refs + 1]
           q == [b EXCEPT !.open = TRUE]
<1>1. conn' = [conn EXCEPT ![c] = q]
      /\ user' = [user EXCEPT ![u] = [step |-> "use", conn |-> c, mutex |-> NoMutex]]
  BY DEF Using
<1>2. /\ q \in ConnRecord /\ q.refs = conn[c].refs + 1
      /\ q.state = "connected" /\ q.by = "nobody" /\ q.refs # 0
  <2>1. a \in ConnRecord /\ a.refs = r.refs /\ a.state = "connected" /\ a.by = "nobody"
    BY DEF ConnRecord
  <2> HIDE DEF a
  <2>2. b \in ConnRecord /\ b.refs = r.refs + 1 /\ b.state = "connected" /\ b.by = "nobody"
    BY <2>1 DEF ConnRecord
  <2> HIDE DEF b
  <2>3. q \in ConnRecord /\ q.refs = r.refs + 1 /\ q.state = "connected" /\ q.by = "nobody"
    BY <2>2 DEF ConnRecord
  <2>4. r.refs \in Nat
    BY DEF ConnRecord
  <2> QED BY <2>3, <2>4
<1> HIDE DEF q
<1>3. Shapes'
  BY <1>1, <1>2 DEF PoolInv, Shapes, ConnRecord
<1>4. q.refs = Cardinality(UsersOf(c)')
  BY <1>1, <1>2, UserJoins DEF PoolInv, CountsAreRight
<1>5. StatesAgree(q)
  BY <1>2 DEF StatesAgree
<1>6. \A d \in Conns \ {c} : UsersOf(d)' = UsersOf(d)
  BY <1>1, UserJoins DEF PoolInv
<1> QED BY <1>1, <1>2, <1>3, <1>4, <1>5, <1>6, OneObject

\* the object in the cache, when it is connected
LEMMA JoinsCached ==
  ASSUME PoolInv, NEW u \in Users, user[u].step # "use", Connected(entry), Using(u, entry, conn[entry]),
         UNCHANGED <<entry, mutex, pool>>
  PROVE  PoolInv'
<1>1. entry \in Conns /\ conn[entry].state = "connected" /\ conn[entry] \in ConnRecord
  BY DEF Connected, StateOf, PoolInv, Shapes, ConnRecord
<1>2. conn[entry].by = "nobody"
  BY <1>1 DEF PoolInv, StatesAgree
<1> QED BY <1>1, <1>2, Joins DEF PoolInv, Shapes

-----------------------------------------------------------------------------
(* The steps *)

\* a caller that waits, asks for the mutex or gives up
LEMMA UserWaits ==
  ASSUME PoolInv, NEW u \in Users, user[u].step # "use",
         NEW v \in [step : {"idle", "lock", "wait", "connect"},
                    conn : Conns \cup {NoConn}, mutex : Mutexes \cup {NoMutex}],
         user' = [user EXCEPT ![u] = v], conn' = conn, pool' = pool,
         entry' \in Conns \cup {NoConn}, mutex' \in Mutexes \cup {NoMutex}
  PROVE  PoolInv'
<1>1. Shapes'
  BY DEF PoolInv, Shapes
<1>2. \A d \in Conns : UsersOf(d)' = UsersOf(d)
  BY UserMoves DEF PoolInv
<1> QED BY <1>1, <1>2, SameObjects

LEMMA AsksMutexStep == ASSUME PoolInv, NEW u \in Users, AsksMutex(u) PROVE PoolInv'
<1>1. PICK m \in Mutexes : mutex' = m /\ user' = [user EXCEPT ![u] = [Idle EXCEPT !.step = "lock", !.mutex = m]]
  BY DEF AsksMutex
<1> DEFINE v == [[Idle EXCEPT !.step = "lock"] EXCEPT !.mutex = m]
<1>2. v \in [step : {"idle", "lock", "wait", "connect"},
             conn : Conns \cup {NoConn}, mutex : Mutexes \cup {NoMutex}]
  BY DEF Idle
<1>3. user' = [user EXCEPT ![u] = v]
  BY <1>1
<1> HIDE DEF v
<1>4. user[u].step # "use" /\ UNCHANGED <<conn, entry, pool>>
  BY DEF AsksMutex
<1>5. entry' \in Conns \cup {NoConn} /\ mutex' \in Mutexes \cup {NoMutex}
  BY <1>1, <1>4 DEF PoolInv, Shapes
<1> QED BY <1>2, <1>3, <1>4, <1>5, UserWaits

LEMMA LocksStep == ASSUME PoolInv, NEW u \in Users, Locks(u) PROVE PoolInv'
<1> DEFINE Shape == [step : {"idle", "lock", "wait", "connect"},
                     conn : Conns \cup {NoConn}, mutex : Mutexes \cup {NoMutex}]
<1>1. user[u].step = "lock" /\ user[u] \in Shape /\ UNCHANGED <<mutex, pool>>
  BY DEF Locks, PoolInv, Shapes
<1>2. CASE Connected(entry) /\ Using(u, entry, conn[entry]) /\ UNCHANGED entry
  BY <1>1, <1>2, JoinsCached
<1>3. CASE StateOf(entry) = "closing"
            /\ user' = [user EXCEPT ![u].step = "wait", ![u].conn = entry] /\ UNCHANGED <<conn, entry>>
  <2> DEFINE v == [[user[u] EXCEPT !.step = "wait"] EXCEPT !.conn = entry]
  <2>1. user' = [user EXCEPT ![u] = v]
    BY <1>3 DEF PoolInv, Shapes
  <2>2. v \in Shape
    BY <1>1 DEF PoolInv, Shapes
  <2> HIDE DEF v
  <2>3. entry' \in Conns \cup {NoConn} /\ mutex' \in Mutexes \cup {NoMutex}
    BY <1>1, <1>3 DEF PoolInv, Shapes
  <2> QED BY <1>1, <1>3, <2>1, <2>2, <2>3, UserWaits
<1>4. CASE StateOf(entry) = "closed" /\ user' = [user EXCEPT ![u].step = "connect"] /\ entry' = NoConn
            /\ UNCHANGED conn
  <2> DEFINE v == [user[u] EXCEPT !.step = "connect"]
  <2>1. user' = [user EXCEPT ![u] = v] /\ v \in Shape
    BY <1>1, <1>4 DEF PoolInv, Shapes
  <2> QED BY <1>1, <1>4, <2>1, UserWaits DEF PoolInv, Shapes
<1> QED BY <1>2, <1>3, <1>4 DEF Locks

LEMMA WaitedStep == ASSUME PoolInv, NEW u \in Users, Waited(u) \/ ConnectFails(u) PROVE PoolInv'
<1> DEFINE Shape == [step : {"idle", "lock", "wait", "connect"},
                     conn : Conns \cup {NoConn}, mutex : Mutexes \cup {NoMutex}]
<1>1. user[u] \in Shape /\ user[u].step # "use"
  BY DEF Waited, ConnectFails, PoolInv, Shapes
<1>2. CASE Waited(u)
  <2> DEFINE v == [[user[u] EXCEPT !.step = "connect"] EXCEPT !.conn = NoConn]
  <2>1. user' = [user EXCEPT ![u] = v]
    BY <1>2 DEF Waited, PoolInv, Shapes
  <2>2. v \in Shape
    BY <1>1
  <2> QED BY <1>1, <1>2, <2>1, <2>2, UserWaits DEF Waited, PoolInv, Shapes
<1>3. CASE ConnectFails(u)
  BY <1>1, <1>3, UserWaits DEF ConnectFails, Idle, PoolInv, Shapes
<1> QED BY <1>2, <1>3

LEMMA ConnectsStep == ASSUME PoolInv, NEW u \in Users, Connects(u) PROVE PoolInv'
<1>1. PICK c \in Conns : /\ conn[c] = Unused /\ entry' = c
                         /\ Using(u, c, [Unused EXCEPT !.state = "connected"])
  BY DEF Connects
<1> DEFINE r == [Unused EXCEPT !.state = "connected"]
<1>2. r \in ConnRecord /\ r.refs = conn[c].refs /\ r.state = "connected" /\ r.by = "nobody"
  BY <1>1 DEF Unused, ConnRecord
<1> HIDE DEF r
<1>3. Using(u, c, r)
  BY <1>1 DEF r
<1> QED BY <1>1, <1>2, <1>3, Joins DEF Connects

LEMMA ReleasesStep == ASSUME PoolInv, NEW u \in Users, NEW failed \in BOOLEAN, Releases(u, failed) PROVE PoolInv'
<1> DEFINE c == user[u].conn
<1>1. c \in Conns /\ conn[c] \in ConnRecord /\ user[u].step = "use" /\ user' = [user EXCEPT ![u] = Idle]
  BY DEF Releases, PoolInv, Shapes, ConnRecord
<1>2. /\ conn[c].refs \in Nat \ {0}
      /\ Cardinality(UsersOf(c)) = conn[c].refs
      /\ StatesAgree(conn[c])
  BY <1>1, UserLeaves DEF PoolInv, CountsAreRight
<1> DEFINE a == [conn[c] EXCEPT !.refs = conn[c].refs - 1]
           r == [a EXCEPT !.state = IF failed THEN "closed" ELSE a.state]
           q == Released(c, r)
           dead == r.refs = 0 /\ r.state = "closed"
<1>3. /\ conn' = [conn EXCEPT ![c] = q]
      /\ entry' = (IF dead THEN NoConn ELSE entry) /\ mutex' = (IF dead THEN NoMutex ELSE mutex)
      /\ pool' = pool
  BY DEF Releases
<1>4. /\ a \in ConnRecord /\ a.refs = conn[c].refs - 1 /\ a.state = conn[c].state /\ a.by = conn[c].by
      /\ a.timer = conn[c].timer
  BY <1>1, <1>2 DEF ConnRecord
<1> HIDE DEF a
<1>5. /\ r \in ConnRecord /\ r.refs = conn[c].refs - 1 /\ r.by = conn[c].by
      /\ r.state \in {conn[c].state, "closed"} /\ r.timer = conn[c].timer
  BY <1>4 DEF ConnRecord
<1> HIDE DEF r
<1>6. q \in ConnRecord /\ q.refs = r.refs
  <2>1. CASE r.refs > 0 \/ r.by = "all"
    BY <1>5, <2>1 DEF Released
  <2>2. CASE ~(r.refs > 0 \/ r.by = "all")
    <3>1. r.refs = 0
      BY <1>2, <1>5, <2>2 DEF ConnRecord
    <3>2. [r EXCEPT !.timer = TRUE] \in ConnRecord /\ [r EXCEPT !.timer = TRUE].refs = r.refs
      BY <1>5 DEF ConnRecord
    <3>3. Unused \in ConnRecord /\ Unused.refs = 0
      BY DEF Unused, ConnRecord
    <3> QED BY <2>2, <3>1, <3>2, <3>3 DEF Released
  <2> QED BY <2>1, <2>2
<1>7. StatesAgree(q)
  <2>1. CASE r.refs > 0 \/ r.by = "all"
    <3>1. q = r /\ r.by # "timer"
      BY <1>2, <1>5, <2>1 DEF Released, StatesAgree
    <3> HIDE DEF q
    <3>2. r.refs = 0 => r.state # "connected" /\ r.by = "all"
      BY <1>2, <1>5, <2>1 DEF StatesAgree, ConnRecord
    <3> QED BY <1>2, <1>5, <3>1, <3>2 DEF StatesAgree
  <2>2. CASE ~(r.refs > 0 \/ r.by = "all") /\ r.state = "closed"
    BY <2>2 DEF Released, Unused, StatesAgree
  <2>3. CASE ~(r.refs > 0 \/ r.by = "all") /\ r.state # "closed"
    <3>1. q = [r EXCEPT !.timer = TRUE]
      BY <2>3 DEF Released
    <3>2. q.timer = TRUE /\ q.state = r.state /\ q.by = r.by
      BY <1>5, <3>1 DEF ConnRecord
    <3> HIDE DEF q
    <3> QED BY <1>2, <1>5, <2>3, <3>2 DEF StatesAgree
  <2> QED BY <2>1, <2>2, <2>3
<1> HIDE DEF q
<1>8. Shapes'
  BY <1>1, <1>3, <1>6 DEF PoolInv, Shapes, ConnRecord, Idle
<1>9. /\ q.refs = Cardinality(UsersOf(c)) - 1
      /\ \A d \in Conns : d = c => Cardinality(UsersOf(d)') = q.refs
      /\ \A d \in Conns \ {c} : UsersOf(d)' = UsersOf(d)
  BY <1>1, <1>2, <1>5, <1>6, UserLeaves DEF PoolInv
<1>10. PICK d \in Conns : d = c
  BY <1>1
<1> HIDE DEF c
<1> QED BY <1>3, <1>6, <1>7, <1>8, <1>9, <1>10, OneObject

\* the callbacks stay, and one object changes
LEMMA Closing ==
  ASSUME PoolInv, NEW c \in Conns, NEW r \in ConnRecord, conn' = [conn EXCEPT ![c] = r],
         r.refs = conn[c].refs, StatesAgree(r), UNCHANGED user,
         entry' \in {entry, NoConn}, mutex' \in {mutex, NoMutex}, pool' \in {"open", "closing", "gone"}
  PROVE  PoolInv'
<1>1. Shapes'
  BY DEF PoolInv, Shapes, ConnRecord
<1>2. \A d \in Conns : UsersOf(d)' = UsersOf(d)
  BY DEF UsersOf
<1>3. r.refs = Cardinality(UsersOf(c)')
  BY <1>2 DEF PoolInv, CountsAreRight
<1> QED BY <1>1, <1>2, <1>3, OneObject

LEMMA IdleTimerFiresStep == ASSUME PoolInv, NEW c \in Conns, IdleTimerFires(c) PROVE PoolInv'
<1>1. conn[c] \in ConnRecord /\ StatesAgree(conn[c])
  BY DEF PoolInv, Shapes, ConnRecord
<1>2. UNCHANGED <<entry, mutex, user, pool>> /\ pool \in {"open", "closing", "gone"}
  BY DEF IdleTimerFires, PoolInv, Shapes
<1>3. CASE conn[c].refs = 0 /\ conn[c].state = "connected"
  <2> DEFINE a == [conn[c] EXCEPT !.timer = FALSE]
             b == [a EXCEPT !.state = "closing"]
             r == [b EXCEPT !.by = "timer"]
  <2>1. conn' = [conn EXCEPT ![c] = r]
    BY <1>3 DEF IdleTimerFires
  <2>2. a \in ConnRecord /\ a.refs = 0
    BY <1>1, <1>3 DEF ConnRecord
  <2> HIDE DEF a
  <2>3. b \in ConnRecord /\ b.refs = 0 /\ b.state = "closing"
    BY <2>2 DEF ConnRecord
  <2> HIDE DEF b
  <2>4. r \in ConnRecord /\ r.refs = 0 /\ r.state = "closing" /\ r.by = "timer"
    BY <2>3 DEF ConnRecord
  <2> HIDE DEF r
  <2>5. StatesAgree(r)
    BY <2>4 DEF StatesAgree
  <2> QED BY <1>2, <1>3, <2>1, <2>4, <2>5, Closing
<1>4. CASE ~(conn[c].refs = 0 /\ conn[c].state = "connected")
  <2> DEFINE r == [conn[c] EXCEPT !.timer = FALSE]
  <2>1. conn' = [conn EXCEPT ![c] = r]
    BY <1>4 DEF IdleTimerFires
  <2>2. /\ r \in ConnRecord /\ r.refs = conn[c].refs /\ r.state = conn[c].state
        /\ r.by = conn[c].by /\ r.open = conn[c].open
    BY <1>1 DEF ConnRecord
  <2> HIDE DEF r
  <2>3. StatesAgree(r)
    BY <1>1, <1>4, <2>2 DEF StatesAgree
  <2> QED BY <1>2, <2>1, <2>2, <2>3, Closing
<1> QED BY <1>3, <1>4

\* close() is over: no callback can have the object, since its state is "closing"
LEMMA ClosesStep == ASSUME PoolInv, NEW c \in Conns, Closes(c) PROVE PoolInv'
<1>1. conn[c].refs = 0
  BY DEF Closes, PoolInv, StatesAgree
<1>2. Unused \in ConnRecord /\ Unused.refs = 0 /\ StatesAgree(Unused)
  BY DEF Unused, ConnRecord, StatesAgree
<1>3. conn' = [conn EXCEPT ![c] = Unused] /\ UNCHANGED <<user, pool>> /\ entry' = NoConn /\ mutex' = NoMutex
  BY <1>1 DEF Closes
<1>4. pool \in {"open", "closing", "gone"}
  BY DEF PoolInv, Shapes
<1> QED BY <1>1, <1>2, <1>3, <1>4, Closing

LEMMA CloseAllStep == ASSUME PoolInv, CloseAll PROVE PoolInv'
<1>1. UNCHANGED <<entry, mutex, user>> /\ pool' \in {"open", "closing", "gone"}
  BY DEF CloseAll
<1>2. CASE entry = NoConn
  <2>1. Shapes' /\ \A d \in Conns : UsersOf(d)' = UsersOf(d)
    BY <1>1, <1>2 DEF CloseAll, PoolInv, Shapes, UsersOf
  <2> QED BY <1>2, <2>1, SameObjects DEF CloseAll
<1>3. CASE entry # NoConn
  <2>1. entry \in Conns /\ conn[entry] \in ConnRecord
    BY <1>3 DEF PoolInv, Shapes, ConnRecord
  <2> DEFINE a == [conn[entry] EXCEPT !.timer = FALSE]
             b == [a EXCEPT !.state = "closing"]
             r == [b EXCEPT !.by = "all"]
  <2>2. conn' = [conn EXCEPT ![entry] = r]
    BY <1>3 DEF CloseAll, PoolInv, Shapes
  <2>3. a \in ConnRecord /\ a.refs = conn[entry].refs
    BY <2>1 DEF ConnRecord
  <2> HIDE DEF a
  <2>4. b \in ConnRecord /\ b.refs = conn[entry].refs /\ b.state = "closing"
    BY <2>3 DEF ConnRecord
  <2> HIDE DEF b
  <2>5. r \in ConnRecord /\ r.refs = conn[entry].refs /\ r.state = "closing" /\ r.by = "all"
    BY <2>4 DEF ConnRecord
  <2> HIDE DEF r
  <2>6. StatesAgree(r)
    BY <2>5 DEF StatesAgree
  <2> QED BY <1>1, <2>1, <2>2, <2>5, <2>6, Closing
<1> QED BY <1>2, <1>3

LEMMA AllClosedStep == ASSUME PoolInv, AllClosed PROVE PoolInv'
<1> DEFINE Left(c) == IF conn[c].by # "all" THEN conn[c]
                      ELSE IF conn[c].refs = 0 THEN Unused
                      ELSE [conn[c] EXCEPT !.state = "closed", !.open = FALSE, !.by = "nobody"]
<1>1. conn' = [c \in Conns |-> Left(c)]
  BY DEF AllClosed
<1>2. ASSUME NEW c \in Conns
      PROVE  Left(c) \in ConnRecord /\ Left(c).refs = conn[c].refs /\ StatesAgree(Left(c))
  <2>1. conn[c] \in ConnRecord /\ StatesAgree(conn[c])
    BY DEF PoolInv, Shapes, ConnRecord
  <2>2. CASE conn[c].by # "all"
    BY <2>1, <2>2
  <2>3. CASE conn[c].by = "all" /\ conn[c].refs = 0
    <3>1. Left(c) = Unused
      BY <2>3
    <3> HIDE DEF Left
    <3> QED BY <2>3, <3>1 DEF Unused, ConnRecord, StatesAgree
  <2>4. CASE conn[c].by = "all" /\ conn[c].refs # 0
    <3> DEFINE a == [conn[c] EXCEPT !.state = "closed"]
               b == [a EXCEPT !.open = FALSE]
               r == [b EXCEPT !.by = "nobody"]
    <3>1. Left(c) = r
      BY <2>4
    <3> HIDE DEF Left
    <3>2. a \in ConnRecord /\ a.refs = conn[c].refs /\ a.state = "closed"
      BY <2>1 DEF ConnRecord
    <3> HIDE DEF a
    <3>3. b \in ConnRecord /\ b.refs = conn[c].refs /\ b.state = "closed"
      BY <3>2 DEF ConnRecord
    <3> HIDE DEF b
    <3>4. r \in ConnRecord /\ r.refs = conn[c].refs /\ r.state = "closed" /\ r.by = "nobody"
      BY <3>3 DEF ConnRecord
    <3> HIDE DEF r
    <3> QED BY <2>4, <3>1, <3>4 DEF StatesAgree
  <2> QED BY <2>2, <2>3, <2>4
<1> HIDE DEF Left
<1>3. Shapes'
  <2>1. user' = user /\ entry' = NoConn /\ mutex' = NoMutex /\ pool' = "gone"
    BY DEF AllClosed
  <2>2. conn' \in [Conns -> ConnRecord]
    BY <1>1, <1>2
  <2> QED BY <2>1, <2>2 DEF PoolInv, Shapes, ConnRecord
<1>4. \A d \in Conns : UsersOf(d)' = UsersOf(d) /\ conn'[d] = Left(d)
  BY <1>1 DEF AllClosed, UsersOf
<1>5. CountsAreRight'
  BY <1>2, <1>4 DEF PoolInv, CountsAreRight
<1>6. \A d \in Conns : StatesAgree(conn'[d])
  BY <1>2, <1>4
<1> QED BY <1>3, <1>5, <1>6 DEF PoolInv, StatesAgree

-----------------------------------------------------------------------------
LEMMA PoolInvInit == PoolInit => PoolInv
<1> SUFFICES ASSUME PoolInit PROVE PoolInv
  OBVIOUS
<1>1. Shapes
  BY DEF PoolInit, Shapes, Unused, Idle
<1>2. \A c \in Conns : UsersOf(c) = {} /\ conn[c] = Unused
  BY DEF PoolInit, UsersOf, Idle
<1>3. CountsAreRight
  BY <1>2, FS_EmptySet DEF CountsAreRight, Unused
<1>4. \A c \in Conns : StatesAgree(conn[c])
  BY <1>2 DEF StatesAgree, Unused
<1> QED BY <1>1, <1>3, <1>4 DEF PoolInv

LEMMA PoolInvStep == PoolInv /\ [PoolNext]_poolVars => PoolInv'
<1> SUFFICES ASSUME PoolInv, [PoolNext]_poolVars PROVE PoolInv'
  OBVIOUS
<1>1. ASSUME NEW u \in Users, UsesCached(u) PROVE PoolInv'
  BY <1>1, JoinsCached DEF UsesCached
<1>2. ASSUME NEW u \in Users, AsksMutex(u) \/ PoolUserStep(u) PROVE PoolInv'
  BY <1>2, AsksMutexStep, LocksStep, WaitedStep, ConnectsStep, ReleasesStep DEF PoolUserStep
<1>3. ASSUME NEW c \in Conns, IdleTimerFires(c) \/ Closes(c) PROVE PoolInv'
  BY <1>3, IdleTimerFiresStep, ClosesStep
<1>4. CASE CloseAll \/ AllClosed
  BY <1>4, CloseAllStep, AllClosedStep
<1>5. CASE UNCHANGED poolVars
  <2>1. Shapes' /\ \A d \in Conns : UsersOf(d)' = UsersOf(d)
    BY <1>5 DEF poolVars, PoolInv, Shapes, UsersOf
  <2> QED BY <1>5, <2>1, SameObjects DEF poolVars
<1> QED BY <1>1, <1>2, <1>3, <1>4, <1>5 DEF PoolNext

LEMMA PoolInvariant == PoolSpec => []PoolInv
  BY PoolInvInit, PoolInvStep, PTL DEF PoolSpec

\* what the invariant says includes the types
LEMMA PoolTypes == PoolInv => PoolTypeOK
<1> SUFFICES ASSUME PoolInv PROVE PoolTypeOK
  OBVIOUS
<1>1. \A c \in Conns : conn[c].refs \in 0..Cardinality(Users)
  BY UsersFinite DEF PoolInv, CountsAreRight
<1>2. \A c \in Conns : conn[c] \in [state : {"connected", "closing", "closed"}, refs : 0..Cardinality(Users),
                                    timer : BOOLEAN, open : BOOLEAN, by : {"nobody", "timer", "all"}]
  BY <1>1 DEF PoolInv, Shapes
<1> QED BY <1>2 DEF PoolInv, Shapes, PoolTypeOK

\* Types, with a reference count that is never negative nor above the number of callers
\* (useConnection, surreal_connection_pool.ts).
THEOREM PoolTypeCorrect == PoolSpec => []PoolTypeOK
  BY PoolTypes, PoolInvariant, PTL

\* The idle timer never closes a connection that a callback has, however its close() overlaps
\* calls of withConnection(): the count is the number of callbacks, and close() by the timer
\* begins only at zero.
THEOREM IdleCloseIsSafe == PoolSpec => []IdleCloseSparesUsers
<1>1. PoolInv => IdleCloseSparesUsers
  BY UsersFinite DEF PoolInv, CountsAreRight, StatesAgree, IdleCloseSparesUsers
<1> QED BY <1>1, PoolInvariant, PTL

\* No connection is leaked: an open one that nobody uses has a timer or somebody who closes it,
\* also after it was replaced in the cache or failed under its last callback.
THEOREM UnusedConnectionsAreClosed == PoolSpec => []UnusedConnectionHasCloser
<1>1. PoolInv => UnusedConnectionHasCloser
  <2> SUFFICES ASSUME PoolInv, NEW c \in Conns, conn[c].open, UsersOf(c) = {}
               PROVE  conn[c].timer \/ conn[c].by # "nobody"
    BY DEF UnusedConnectionHasCloser
  <2>1. conn[c].refs = 0 /\ StatesAgree(conn[c])
    BY UsersFinite DEF PoolInv, CountsAreRight
  <2>2. conn[c].state \in {"connected", "closing", "closed"}
    BY DEF PoolInv, Shapes
  <2> QED BY <2>1, <2>2 DEF StatesAgree
<1> QED BY <1>1, PoolInvariant, PTL

-----------------------------------------------------------------------------
(* The supervisor of the database *)

Child     == Children \cup {NoChild}
TrackAt   == [step : {"idle", "kill", "spawn", "ready", "verify", "close"}, awaits : Child]
Monitors  == [on : BOOLEAN, status : {"stopped", "healthy", "degraded", "unhealthy"},
              failures : 0..FailureThreshold, isChecking : BOOLEAN]
Supervisors == [isRunning : BOOLEAN, subscribed : BOOLEAN, cooldown : BOOLEAN,
                attempts : 0..MaxRestartAttempts]

ProcessTypeOK ==
  /\ child \in [Children -> {"none", "booting", "serving", "hung", "exited", "dead"}]
  /\ handle \in Child /\ isStopping \in BOOLEAN /\ track \in [Tracks -> TrackAt]

LEMMA SupervisionTypeParts ==
  /\ SupervisionTypeOK <=> ProcessTypeOK /\ monitor \in Monitors /\ supervisor \in Supervisors
  /\ SupervisionTypeOK' <=> ProcessTypeOK' /\ monitor' \in Monitors /\ supervisor' \in Supervisors
  BY DEF SupervisionTypeOK, ProcessTypeOK, Child, TrackAt, Monitors, Supervisors

\* a restart that is scheduled is one of those that are left
SupervisionInv ==
  /\ SupervisionTypeOK /\ DeadProcessNoticed
  /\ supervisor.cooldown => supervisor.attempts < MaxRestartAttempts

\* the count of failures stops at the threshold
LEMMA FailuresCapped ==
  ASSUME NEW n \in 0..FailureThreshold
  PROVE  Min({FailureThreshold, n + 1}) \in 0..FailureThreshold
<1> FailureThreshold \in Nat \ {0}
  BY SupervisionAssumption
<1>1. \E m \in {FailureThreshold, n + 1} : \A other \in {FailureThreshold, n + 1} : m <= other
  OBVIOUS
<1>2. /\ Min({FailureThreshold, n + 1}) \in {FailureThreshold, n + 1}
      /\ \A other \in {FailureThreshold, n + 1} : Min({FailureThreshold, n + 1}) <= other
  BY <1>1 DEF Min
<1> QED BY <1>2

LEMMA SupervisionInitInv == SupervisionInit => SupervisionInv
<1> SUFFICES ASSUME SupervisionInit PROVE SupervisionInv
  OBVIOUS
<1> USE SupervisionAssumption DEF SupervisionInit
<1>1. track \in [Tracks -> TrackAt]
  BY DEF TrackAt, Child, Tracks, Idling
<1>2. ProcessTypeOK
  BY <1>1 DEF ProcessTypeOK, Child
<1>3. monitor \in Monitors /\ supervisor \in Supervisors
  BY DEF Monitors, Supervisors
<1> QED BY <1>2, <1>3, SupervisionTypeParts DEF SupervisionInv, DeadProcessNoticed

LEMMA AtFits ==
  ASSUME ProcessTypeOK, NEW t \in Tracks, NEW step \in {"idle", "kill", "spawn", "ready", "verify", "close"},
         track' = At(t, step)
  PROVE  track' \in [Tracks -> TrackAt]
  BY DEF ProcessTypeOK, At, TrackAt, Child

LEMMA StopsProcessFits ==
  ASSUME ProcessTypeOK, DeadProcessNoticed, NEW t \in Tracks, NEW next \in {"idle", "spawn"},
         StopsProcess(t, next), UNCHANGED <<child, handle>>
  PROVE  ProcessTypeOK' /\ DeadProcessNoticed'
<1>1. track' \in [Tracks -> TrackAt]
  BY DEF ProcessTypeOK, StopsProcess, At, TrackAt, Child
<1>2. isStopping' \in BOOLEAN
  BY DEF ProcessTypeOK, StopsProcess
<1> QED BY <1>1, <1>2 DEF ProcessTypeOK, StopsProcess, DeadProcessNoticed, Gone

\* the process manager and the processes
LEMMA ProcessStep ==
  ASSUME SupervisionInv,
         \/ \E t \in Tracks : TrackStep(t)
         \/ \E c \in Children : Boots(c) \/ Hangs(c) \/ Exits(c) \/ ExitHandled(c)
  PROVE  SupervisionInv'
<1> USE SupervisionAssumption
<1>0. ProcessTypeOK /\ monitor \in Monitors /\ supervisor \in Supervisors /\ DeadProcessNoticed
  BY SupervisionTypeParts DEF SupervisionInv
<1>1. ASSUME NEW t \in Tracks, StopEnded(t) PROVE SupervisionInv'
  <2>1. supervisor' \in Supervisors /\ supervisor'.cooldown = supervisor.cooldown
        /\ supervisor'.attempts = supervisor.attempts
    BY <1>0, <1>1 DEF StopEnded, Supervisors
  <2>2. track' \in [Tracks -> TrackAt]
    BY <1>0, <1>1, AtFits DEF StopEnded
  <2>3. child' \in [Children -> {"none", "booting", "serving", "hung", "exited", "dead"}]
    BY <1>0, <1>1 DEF StopEnded, ProcessTypeOK, Gone, Child
  <2>4. ProcessTypeOK' /\ monitor' = monitor
    BY <1>1, <2>2, <2>3 DEF ProcessTypeOK, StopEnded, Child
  <2>5. DeadProcessNoticed'
    BY <1>1 DEF StopEnded, DeadProcessNoticed
  <2> QED BY <1>0, <2>1, <2>4, <2>5, SupervisionTypeParts DEF SupervisionInv
<1>2. ASSUME UNCHANGED <<monitor, supervisor>>, ProcessTypeOK', DeadProcessNoticed' PROVE SupervisionInv'
  BY <1>0, <1>2, SupervisionTypeParts DEF SupervisionInv
<1>3. ASSUME NEW t \in Tracks, Spawns(t) PROVE SupervisionInv'
  <2>1. track' \in [Tracks -> TrackAt]
    BY <1>0, <1>3, AtFits DEF Spawns
  <2>2. ProcessTypeOK'
    BY <1>0, <1>3, <2>1 DEF Spawns, ProcessTypeOK, Child
  <2>3. DeadProcessNoticed'
    <3>1. CASE handle # NoChild
      BY <1>0, <1>3, <3>1 DEF Spawns, DeadProcessNoticed, Gone
    <3>2. CASE handle = NoChild
      <4> PICK c \in Children : child' = [child EXCEPT ![c] = "booting"] /\ handle' = c
        BY <1>3, <3>2 DEF Spawns
      <4> QED BY <1>0 DEF ProcessTypeOK, DeadProcessNoticed, Gone, NoChild
    <3> QED BY <3>1, <3>2
  <2> QED BY <1>2, <1>3, <2>2, <2>3 DEF Spawns
<1>4. ASSUME NEW t \in Tracks, IsReady(t) \/ NotReady(t) PROVE SupervisionInv'
  <2>1. track' \in [Tracks -> TrackAt]
    BY <1>0, <1>4, AtFits DEF IsReady, NotReady
  <2> QED BY <1>0, <1>2, <1>4, <2>1 DEF IsReady, NotReady, ProcessTypeOK, DeadProcessNoticed, Gone, Child
<1>5. ASSUME NEW c \in Children, Boots(c) \/ Hangs(c) \/ Exits(c) PROVE SupervisionInv'
  <2>1. ProcessTypeOK'
    BY <1>0, <1>5 DEF Boots, Hangs, Exits, ProcessTypeOK
  <2>2. \A d \in Children : child'[d] = "dead" => child[d] = "dead"
    BY <1>0, <1>5 DEF Boots, Hangs, Exits, ProcessTypeOK
  <2>3. DeadProcessNoticed'
    BY <1>0, <1>5, <2>2 DEF Boots, Hangs, Exits, ProcessTypeOK, DeadProcessNoticed, Gone, Child
  <2> QED BY <1>2, <1>5, <2>1, <2>3 DEF Boots, Hangs, Exits
<1>6. ASSUME NEW c \in Children, ExitHandled(c) PROVE SupervisionInv'
  BY <1>0, <1>2, <1>6 DEF ExitHandled, ProcessTypeOK, DeadProcessNoticed, Gone, Child
<1> QED BY <1>1, <1>3, <1>4, <1>5, <1>6 DEF TrackStep

\* the health monitor and the supervisor
LEMMA SupervisorStep ==
  ASSUME SupervisionInv,
         CheckBegins \/ CheckEnds \/ CooldownFires \/ Restarted \/ Started \/ StopBegins \/ StopContinues
  PROVE  SupervisionInv'
<1> USE SupervisionAssumption
<1>0. ProcessTypeOK /\ monitor \in Monitors /\ supervisor \in Supervisors /\ DeadProcessNoticed
  BY SupervisionTypeParts DEF SupervisionInv
<1>1. ASSUME UNCHANGED <<child, handle, isStopping, track>>
      PROVE  ProcessTypeOK' /\ DeadProcessNoticed'
  BY <1>0, <1>1 DEF ProcessTypeOK, DeadProcessNoticed, Gone
<1>2. ASSUME ProcessTypeOK' /\ DeadProcessNoticed', monitor' \in Monitors, supervisor' \in Supervisors,
             supervisor'.attempts = supervisor.attempts, supervisor'.cooldown = supervisor.cooldown
      PROVE  SupervisionInv'
  BY <1>2, SupervisionTypeParts DEF SupervisionInv
<1>3. CASE CheckBegins
  <2>1. Min({FailureThreshold, monitor.failures + 1}) \in 0..FailureThreshold
    BY <1>0, FailuresCapped DEF Monitors
  <2>2. monitor' \in Monitors
    BY <1>0, <1>3, <2>1 DEF CheckBegins, Monitors
  <2> QED BY <1>0, <1>1, <1>2, <1>3, <2>2 DEF CheckBegins
<1>4. CASE CheckEnds
  <2> DEFINE failures == IF Answers THEN 0 ELSE Min({FailureThreshold, monitor.failures + 1})
             status   == StatusAfter(failures)
  <2>1. failures \in 0..FailureThreshold
    BY <1>0, FailuresCapped DEF Monitors
  <2>2. status \in {"stopped", "healthy", "degraded", "unhealthy"}
    BY DEF StatusAfter
  <2> HIDE DEF failures, status
  <2>3. /\ monitor' = [monitor EXCEPT !.isChecking = FALSE, !.failures = failures, !.status = status]
        /\ supervisor' = [supervisor EXCEPT !.cooldown = @ \/ CallsForRestart(status)]
        /\ UNCHANGED <<child, handle, isStopping, track>>
    BY <1>4 DEF CheckEnds, failures, status
  <2>4. monitor' \in Monitors
    BY <1>0, <2>1, <2>2, <2>3 DEF Monitors
  <2>5. CallsForRestart(status) \in BOOLEAN
    BY DEF CallsForRestart
  <2>6. supervisor' \in Supervisors /\ supervisor'.attempts = supervisor.attempts
        /\ supervisor'.cooldown = (supervisor.cooldown \/ CallsForRestart(status))
    BY <1>0, <2>3, <2>5, Zenon DEF Supervisors
  <2>7. supervisor'.cooldown => supervisor'.attempts < MaxRestartAttempts
    BY <2>6 DEF SupervisionInv, CallsForRestart
  <2> QED BY <1>1, <2>3, <2>4, <2>6, <2>7, SupervisionTypeParts DEF SupervisionInv
<1>5. CASE CooldownFires
  <2>1. supervisor.cooldown /\ supervisor.attempts < MaxRestartAttempts
    BY <1>5 DEF CooldownFires, SupervisionInv
  <2> DEFINE s == [supervisor EXCEPT !.cooldown = FALSE]
  <2>2. s \in Supervisors /\ ~s.cooldown /\ s.attempts = supervisor.attempts
    BY <1>0 DEF Supervisors
  <2>3. supervisor' = Attempted(s) \/ supervisor' = s
    BY <1>5 DEF CooldownFires
  <2> HIDE DEF s
  <2>4. Attempted(s) \in Supervisors /\ ~Attempted(s).cooldown
    BY <2>1, <2>2 DEF Supervisors, Attempted
  <2>5. supervisor' \in Supervisors /\ ~supervisor'.cooldown
    BY <2>2, <2>3, <2>4
  <2>6. ProcessTypeOK' /\ DeadProcessNoticed'
    BY <1>0, <1>1, <1>5, StopsProcessFits DEF CooldownFires, Tracks
  <2> QED BY <1>0, <1>5, <2>5, <2>6, SupervisionTypeParts DEF SupervisionInv, CooldownFires
<1>6. CASE Restarted
  <2>1. monitor' \in Monitors
    <3>1. CASE Answers
      <4> DEFINE status == IF handle # NoChild THEN "healthy" ELSE monitor.status
      <4>1. monitor' = [monitor EXCEPT !.failures = 0, !.status = status]
        BY <1>0, <1>6, <3>1 DEF Restarted, Monitors
      <4>2. status \in {"stopped", "healthy", "degraded", "unhealthy"}
        BY <1>0 DEF Monitors
      <4>3. 0 \in 0..FailureThreshold
        OBVIOUS
      <4> HIDE DEF status
      <4> QED BY <1>0, <4>1, <4>2, <4>3 DEF Monitors
    <3>2. CASE ~Answers
      BY <1>0, <1>6, <3>2 DEF Restarted
    <3> QED BY <3>1, <3>2
  <2>2. track' \in [Tracks -> TrackAt]
    BY <1>0, <1>6, AtFits DEF Restarted, Tracks
  <2>3. ProcessTypeOK' /\ DeadProcessNoticed'
    BY <1>0, <1>6, <2>2 DEF Restarted, ProcessTypeOK, DeadProcessNoticed, Gone
  <2> QED BY <1>0, <1>2, <1>6, <2>1, <2>3 DEF Restarted
<1>7. CASE Started
  <2>1. monitor' \in Monitors
    BY <1>0, <1>7 DEF Started, Monitors
  <2>2. supervisor' \in Supervisors /\ supervisor'.attempts = supervisor.attempts
        /\ supervisor'.cooldown = supervisor.cooldown
    BY <1>0, <1>7 DEF Started, Supervisors
  <2>3. ProcessTypeOK' /\ DeadProcessNoticed'
    <3>1. CASE Answers
      <4>1. track' \in [Tracks -> TrackAt]
        BY <1>0, <1>7, <3>1, AtFits DEF Started, Tracks
      <4> QED BY <1>0, <1>7, <3>1, <4>1 DEF Started, ProcessTypeOK, DeadProcessNoticed, Gone
    <3>2. CASE ~Answers
      BY <1>0, <1>7, <3>2, StopsProcessFits DEF Started, Tracks
    <3> QED BY <3>1, <3>2
  <2> QED BY <1>2, <2>1, <2>2, <2>3
<1>8. CASE StopBegins
  <2>1. monitor' \in Monitors /\ supervisor' \in Supervisors
        /\ supervisor'.attempts = supervisor.attempts /\ supervisor'.cooldown = supervisor.cooldown
    BY <1>0, <1>8 DEF StopBegins, Monitors, Supervisors
  <2>2. track' \in [Tracks -> TrackAt]
    BY <1>0, <1>8, AtFits DEF StopBegins, Tracks
  <2>3. ProcessTypeOK' /\ DeadProcessNoticed'
    BY <1>0, <1>8, <2>2 DEF StopBegins, ProcessTypeOK, DeadProcessNoticed, Gone
  <2> QED BY <1>2, <2>1, <2>3
<1>9. CASE StopContinues
  <2>1. supervisor' \in Supervisors /\ supervisor'.attempts = supervisor.attempts
        /\ supervisor'.cooldown = supervisor.cooldown
    BY <1>0, <1>9 DEF StopContinues, Supervisors
  <2>2. ProcessTypeOK' /\ DeadProcessNoticed'
    BY <1>0, <1>9, StopsProcessFits DEF StopContinues, Tracks
  <2> QED BY <1>0, <1>2, <1>9, <2>1, <2>2 DEF StopContinues
<1> QED BY <1>3, <1>4, <1>5, <1>6, <1>7, <1>8, <1>9

LEMMA SupervisionStepInv == SupervisionInv /\ [SupervisionNext]_supervisionVars => SupervisionInv'
<1> SUFFICES ASSUME SupervisionInv, [SupervisionNext]_supervisionVars PROVE SupervisionInv'
  OBVIOUS
<1>1. CASE SupervisionNext
  BY <1>1, ProcessStep, SupervisorStep DEF SupervisionNext
<1>2. CASE UNCHANGED supervisionVars
  <2>1. SupervisionTypeOK' /\ DeadProcessNoticed'
    BY <1>2 DEF SupervisionInv, SupervisionTypeOK, DeadProcessNoticed, Gone, supervisionVars
  <2> QED BY <1>2, <2>1 DEF SupervisionInv, supervisionVars
<1> QED BY <1>1, <1>2

LEMMA SupervisionInvariant == SupervisionSpec => []SupervisionInv
<1>1. SupervisionInit => SupervisionInv
  BY SupervisionInitInv
<1>2. SupervisionInv /\ [SupervisionNext]_supervisionVars => SupervisionInv'
  BY SupervisionStepInv
<1> QED BY <1>1, <1>2, PTL DEF SupervisionSpec

\* Type correctness, for any number of processes and restarts: the supervisor makes no more
\* attempts than it is configured to.
THEOREM SupervisionTypeCorrect == SupervisionSpec => []SupervisionTypeOK
<1>1. SupervisionInv => SupervisionTypeOK
  BY DEF SupervisionInv
<1> QED BY <1>1, SupervisionInvariant, PTL

\* The handle of the process manager is not left on a process whose exit was handled, over
\* any number of processes, restarts and stops that overlap.
THEOREM DeadProcessesAreNoticed == SupervisionSpec => []DeadProcessNoticed
<1>1. SupervisionInv => DeadProcessNoticed
  BY DEF SupervisionInv
<1> QED BY <1>1, SupervisionInvariant, PTL

-----------------------------------------------------------------------------
(* The start of the program *)

StartupInv == StartupTypeOK /\ MigrationsOnceInOrder

\* a version that is not rejected extends the history in order
LEMMA HistoryGrows ==
  ASSUME StartupInv, NEW v \in Versions, ~Rejected(v), history' = Append(history, v)
  PROVE  history' \in Seq(Versions) /\ MigrationsOnceInOrder'
<1>1. history \in Seq(Versions) /\ history' \in Seq(Versions)
  BY DEF StartupInv, StartupTypeOK
<1>2. Len(history') = Len(history) + 1 /\ DOMAIN history' = 1..(Len(history) + 1) /\ DOMAIN history = 1..Len(history)
  BY <1>1
<1>3. history'[Len(history) + 1] = v /\ \A i \in DOMAIN history : history'[i] = history[i]
  BY <1>1
<1>4. \A i \in DOMAIN history : history[i] < v
  <2>1. v \in Nat /\ \A i \in DOMAIN history : history[i] \in Nat
    <3>1. ASSUME NEW i \in 1..Len(history) PROVE history[i] \in Versions
      BY <1>1, <3>1
    <3> QED BY <1>2, <3>1, StartupAssumption
  <2> QED BY <2>1 DEF Rejected
<1>5. SUFFICES ASSUME NEW i \in DOMAIN history', NEW j \in DOMAIN history', i < j
               PROVE  history'[i] < history'[j]
  BY <1>1 DEF MigrationsOnceInOrder
<1>6. Len(history) \in Nat
  BY <1>1
<1>7. i \in DOMAIN history
  BY <1>2, <1>5, <1>6
<1>8. CASE j \in DOMAIN history
  BY <1>3, <1>5, <1>7, <1>8 DEF StartupInv, MigrationsOnceInOrder
<1>9. CASE j = Len(history) + 1
  BY <1>3, <1>4, <1>7, <1>9
<1> QED BY <1>2, <1>5, <1>6, <1>8, <1>9

LEMMA StartupInitInv == StartupInit => StartupInv
<1> SUFFICES ASSUME StartupInit PROVE StartupInv
  OBVIOUS
<1>1. history = <<>> /\ history \in Seq(Versions) /\ DOMAIN history = {}
  BY DEF StartupInit
<1>2. StartupTypeOK
  BY <1>1 DEF StartupInit, StartupTypeOK
<1> QED BY <1>1, <1>2 DEF StartupInv, MigrationsOnceInOrder

LEMMA StartupStepInv == StartupInv /\ [StartupNext]_startupVars => StartupInv'
<1> SUFFICES ASSUME StartupInv, [StartupNext]_startupVars PROVE StartupInv'
  OBVIOUS
<1>0. StartupTypeOK /\ MigrationsOnceInOrder
  BY DEF StartupInv
<1>1. ASSUME UNCHANGED history, StartupTypeOK' PROVE StartupInv'
  BY <1>0, <1>1 DEF StartupInv, MigrationsOnceInOrder
<1>2. ASSUME NEW v \in Versions, Ships(v) PROVE StartupInv'
  BY <1>0, <1>1, <1>2 DEF Ships, StartupTypeOK
<1>3. ASSUME NEW v \in Versions, Applies(v) PROVE StartupInv'
  <2>1. history' \in Seq(Versions) /\ MigrationsOnceInOrder'
    BY <1>3, HistoryGrows DEF Applies
  <2>2. boot'.phase \in {"serving", "migrating"} /\ boot'.pending \subseteq Versions
        /\ boot' \in [phase : {"down", "connected", "migrating", "serving"}, pending : SUBSET Versions]
    BY <1>0, <1>3 DEF Applies, StartupTypeOK
  <2> QED BY <1>0, <1>3, <2>1, <2>2 DEF Applies, StartupInv, StartupTypeOK
<1>4. ASSUME NEW v \in Versions, ApplyFails(v) PROVE StartupInv'
  <2>1. history' \in Seq(Versions) /\ MigrationsOnceInOrder'
    <3>1. CASE history' = history
      BY <1>0, <3>1 DEF StartupTypeOK, MigrationsOnceInOrder
    <3>2. CASE ~Rejected(v) /\ history' = Append(history, v)
      BY <3>2, HistoryGrows
    <3> QED BY <1>4, <3>1, <3>2 DEF ApplyFails
  <2> QED BY <1>0, <1>4, <2>1 DEF ApplyFails, StartupInv, StartupTypeOK
<1>5. CASE BootBegins \/ ReadsVersion \/ ProcessEnds
  <2>1. boot' \in [phase : {"down", "connected", "migrating", "serving"}, pending : SUBSET Versions]
    BY <1>0, <1>5 DEF BootBegins, ReadsVersion, ProcessEnds, StartupTypeOK
  <2>2. UNCHANGED <<history, files>> /\ migrationError' \in BOOLEAN
    BY <1>0, <1>5 DEF BootBegins, ReadsVersion, ProcessEnds, StartupTypeOK
  <2> QED BY <1>0, <1>1, <2>1, <2>2 DEF StartupTypeOK
<1>6. CASE UNCHANGED startupVars
  BY <1>0, <1>1, <1>6 DEF startupVars, StartupTypeOK
<1> QED BY <1>2, <1>3, <1>4, <1>5, <1>6 DEF StartupNext

LEMMA StartupInvariant == StartupSpec => []StartupInv
<1>1. StartupInit => StartupInv
  BY StartupInitInv
<1>2. StartupInv /\ [StartupNext]_startupVars => StartupInv'
  BY StartupStepInv
<1> QED BY <1>1, <1>2, PTL DEF StartupSpec

\* History, files and the pending migrations keep their types (surreal_migration_service.ts).
THEOREM StartupTypeCorrect == StartupSpec => []StartupTypeOK
<1>1. StartupInv => StartupTypeOK
  BY DEF StartupInv
<1> QED BY <1>1, StartupInvariant, PTL

\* The versions that schemaVersion records only rise, over any releases, crashes and answers
\* that are lost.
THEOREM MigrationsRunOnceInOrder == StartupSpec => []MigrationsOnceInOrder
<1>1. StartupInv => MigrationsOnceInOrder
  BY DEF StartupInv
<1> QED BY <1>1, StartupInvariant, PTL

=============================================================================
