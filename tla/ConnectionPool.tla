--------------------------- MODULE ConnectionPool ---------------------------
(***************************************************************************)
(* SurrealConnectionPool for one cache key: the cached connection with its *)
(* reference count and idle timer, the mutex under which a connection is   *)
(* established, and closeAll().                                            *)
(*                                                                         *)
(* withConnection() returns useConnection() without awaiting it, so that   *)
(* the mutex is free as soon as the callback has been called.              *)
(***************************************************************************)
EXTENDS Naturals, FiniteSets, FiniteSetsExt

CONSTANTS
  Users,  \* callers of withConnection()
  Conns   \* bound: connections that somebody refers to, numbered

ASSUME ConnsAssumption == Conns \subseteq Nat \ {0}
ASSUME UsersAssumption == IsFiniteSet(Users)

NoConn  == 0
NoMutex == 0
Mutexes == 1..(Cardinality(Users) + 1)

VARIABLES
  conn,     \* cached objects: state, refCount, idleTimer, is it open, who closes it
  entry,    \* cache.get(key)
  mutex,    \* connectionMutexes.get(key)
  user,     \* the callers, each with its connection and the mutex it got
  pool      \* factory.pool: "open", "closing" (closeAll() runs), "gone"

poolVars == <<conn, entry, mutex, user, pool>>

Unused == [state |-> "closed", refs |-> 0, timer |-> FALSE, open |-> FALSE, by |-> "nobody"]
Idle   == [step |-> "idle", conn |-> NoConn, mutex |-> NoMutex]

PoolTypeOK ==
  /\ conn \in [Conns -> [state : {"connected", "closing", "closed"}, refs : 0..Cardinality(Users),
                         timer : BOOLEAN, open : BOOLEAN, by : {"nobody", "timer", "all"}]]
  /\ entry \in Conns \cup {NoConn} /\ mutex \in Mutexes \cup {NoMutex}
  /\ user \in [Users -> [step : {"idle", "lock", "wait", "connect", "use"},
                         conn : Conns \cup {NoConn}, mutex : Mutexes \cup {NoMutex}]]
  /\ pool \in {"open", "closing", "gone"}

PoolInit ==
  /\ conn = [c \in Conns |-> Unused] /\ entry = NoConn /\ mutex = NoMutex
  /\ user = [u \in Users |-> Idle] /\ pool = "open"

StateOf(c)   == IF c = NoConn THEN "closed" ELSE conn[c].state
Connected(c) == StateOf(c) = "connected"
UsersOf(c)   == {u \in Users : user[u].step = "use" /\ user[u].conn = c}

\* mutant of Using: the first user of a connection is not counted
UsingUncounted(u, c, r) ==
  /\ conn' = [conn EXCEPT ![c] = [r EXCEPT !.timer = ~r.open, !.open = TRUE]]
  /\ user' = [user EXCEPT ![u] = [step |-> "use", conn |-> c, mutex |-> NoMutex]]

\* useConnection() up to the callback, with r for the object before it
Using(u, c, r) ==
  /\ conn' = [conn EXCEPT ![c] = [r EXCEPT !.timer = FALSE, !.refs = @ + 1, !.open = TRUE]]
  /\ user' = [user EXCEPT ![u] = [step |-> "use", conn |-> c, mutex |-> NoMutex]]

UsesCached(u) ==
  /\ user[u].step = "idle" /\ pool # "gone" /\ Connected(entry)
  /\ Using(u, entry, conn[entry])
  /\ UNCHANGED <<entry, mutex, pool>>

\* getOrCreateMutex()
AsksMutex(u) ==
  /\ user[u].step = "idle" /\ pool # "gone" /\ ~Connected(entry)
  /\ \E m \in Mutexes :
       /\ IF mutex # NoMutex THEN m = mutex
          ELSE m = Min({k \in Mutexes : \A v \in Users : user[v].mutex # k})
       /\ mutex' = m /\ user' = [user EXCEPT ![u] = [Idle EXCEPT !.step = "lock", !.mutex = m]]
  /\ UNCHANGED <<conn, entry, pool>>

\* the mutex is ours: look again, wait for a connection that closes, or connect
Locks(u) ==
  /\ user[u].step = "lock"
  /\ \A v \in Users : user[v].mutex = user[u].mutex => user[v].step \notin {"wait", "connect"}
  /\ \/ /\ Connected(entry) /\ Using(u, entry, conn[entry])
        /\ UNCHANGED entry
     \/ /\ StateOf(entry) = "closing"
        /\ user' = [user EXCEPT ![u].step = "wait", ![u].conn = entry]
        /\ UNCHANGED <<conn, entry>>
     \/ /\ StateOf(entry) = "closed"
        /\ user' = [user EXCEPT ![u].step = "connect"] /\ entry' = NoConn
        /\ UNCHANGED conn
  /\ UNCHANGED <<mutex, pool>>

\* waitForClose(), which also gives up
Waited(u) ==
  /\ user[u].step = "wait"
  /\ user' = [user EXCEPT ![u].step = "connect", ![u].conn = NoConn] /\ entry' = NoConn
  /\ UNCHANGED <<conn, mutex, pool>>

\* establishConnection(); a bound limits the connections
Connects(u) ==
  /\ user[u].step = "connect"
  /\ \E c \in Conns :
       /\ conn[c] = Unused /\ \A v \in Users : user[v].conn # c
       /\ \A d \in Conns : d < c => conn[d] # Unused \/ \E v \in Users : user[v].conn = d
       /\ Using(u, c, [Unused EXCEPT !.state = "connected"])
       /\ entry' = c
  /\ UNCHANGED <<mutex, pool>>

ConnectFails(u) ==
  /\ user[u].step = "connect"
  /\ user' = [user EXCEPT ![u] = Idle]
  /\ UNCHANGED <<conn, entry, mutex, pool>>

\* mutant of Released: a connection that is no longer cached is not closed
ReleasedIfCached(c, r) ==
  IF r.refs > 0 \/ r.by = "all" \/ (r.state = "closed" /\ entry # c) THEN r
  ELSE IF r.state = "closed" THEN Unused ELSE [r EXCEPT !.timer = TRUE]

\* the last user closes a connection that has failed, or starts the idle timer;
\* somebody who is closing it already finishes that himself
Released(c, r) ==
  IF r.refs > 0 \/ r.by = "all" THEN r
  ELSE IF r.state = "closed" THEN Unused ELSE [r EXCEPT !.timer = TRUE]

\* the finally block of useConnection(), with or without a connection error
Releases(u, failed) ==
  /\ user[u].step = "use"
  /\ LET c == user[u].conn
         r == [conn[c] EXCEPT !.refs = @ - 1, !.state = IF failed THEN "closed" ELSE @]
         dead == r.refs = 0 /\ r.state = "closed"
     IN /\ conn' = [conn EXCEPT ![c] = Released(c, r)]
        /\ entry' = IF dead THEN NoConn ELSE entry
        /\ mutex' = IF dead THEN NoMutex ELSE mutex
  /\ user' = [user EXCEPT ![u] = Idle]
  /\ UNCHANGED pool

\* startIdleTimer(): the callback up to its await
IdleTimerFires(c) ==
  /\ conn[c].timer
  /\ conn' = [conn EXCEPT ![c] =
       IF conn[c].refs = 0 /\ conn[c].state = "connected"
       THEN [conn[c] EXCEPT !.timer = FALSE, !.state = "closing", !.by = "timer"]
       ELSE [conn[c] EXCEPT !.timer = FALSE]]
  /\ UNCHANGED <<entry, mutex, user, pool>>

\* close() has been awaited: entry and mutex go by name, whosever they are
Closes(c) ==
  /\ conn[c].by = "timer"
  /\ conn' = [conn EXCEPT ![c] = IF conn[c].refs = 0 THEN Unused
                ELSE [conn[c] EXCEPT !.state = "closed", !.open = FALSE, !.by = "nobody"]]
  /\ entry' = NoConn /\ mutex' = NoMutex
  /\ UNCHANGED <<user, pool>>

CloseAll ==
  /\ pool = "open" /\ pool' = "closing"
  /\ conn' = IF entry = NoConn THEN conn
             ELSE [conn EXCEPT ![entry] = [@ EXCEPT !.timer = FALSE, !.state = "closing", !.by = "all"]]
  /\ UNCHANGED <<entry, mutex, user>>

AllClosed ==
  /\ pool = "closing" /\ pool' = "gone"
  /\ conn' = [c \in Conns |->
       IF conn[c].by # "all" THEN conn[c]
       ELSE IF conn[c].refs = 0 THEN Unused
       ELSE [conn[c] EXCEPT !.state = "closed", !.open = FALSE, !.by = "nobody"]]
  /\ entry' = NoConn /\ mutex' = NoMutex
  /\ UNCHANGED user

PoolUserStep(u) ==
  Locks(u) \/ Waited(u) \/ Connects(u) \/ ConnectFails(u) \/ \E f \in BOOLEAN : Releases(u, f)

PoolNext ==
  \/ \E u \in Users : UsesCached(u) \/ AsksMutex(u) \/ PoolUserStep(u)
  \/ \E c \in Conns : IdleTimerFires(c) \/ Closes(c)
  \/ CloseAll \/ AllClosed

PoolSpec == PoolInit /\ [][PoolNext]_poolVars

-----------------------------------------------------------------------------
\* The idle timer closes no connection that a callback is using or about to use,
\* whatever calls overlap its close() ("Reference counting ensures connection stays
\* open while in use", surreal_connection_pool.ts).
IdleCloseSparesUsers == \A c \in Conns : conn[c].by = "timer" => UsersOf(c) = {}

\* No connection is leaked: one that nobody uses has an idle timer or somebody who is
\* closing it, also when a newer one has taken its place in the cache and its entry and
\* mutex have been deleted by name.
UnusedConnectionHasCloser ==
  \A c \in Conns : conn[c].open /\ UsersOf(c) = {} => conn[c].timer \/ conn[c].by # "nobody"
=============================================================================
