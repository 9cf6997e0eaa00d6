--------------------------- MODULE FunctionsProofs --------------------------
(***************************************************************************)
(* Theorems about the code that the program runs: FunctionRoutes, for every *)
(* set of requests, functions and paths and any number of writes, and      *)
(* CodeSources, for every number of sources and every set of settings.     *)
(***************************************************************************)
EXTENDS FunctionRoutes, CodeSources, TLAPS

-----------------------------------------------------------------------------
(* The routes: type correctness *)

Steps == {"none", "waiting", "checked", "stat", "import", "store", "run"}

RouterTypes == [defs : [Functions -> Defs], built : 0..MaxWrites]

RequestTypes ==
  [step : Steps, after : 0..MaxWrites, time : 0..MaxFileWrites, code : 0..MaxFileWrites]

TableTypeOK ==
  /\ functionDef \in [Functions -> Defs] /\ dirty \in BOOLEAN
  /\ writes \in [committed : 0..MaxWrites, answered : 0..MaxWrites]
  /\ rebuildMutex \in [by : {"none"} \cup Functions \cup Requests,
                       step : {"free", "add", "update", "enable", "disable", "remove",
                               "written", "marked", "getAll", "rebuild"}]
  /\ router \in RouterTypes /\ fetched \in RouterTypes

HandlerTypeOK ==
  /\ handlerFile \in 0..MaxFileWrites /\ fileWrites \in 0..MaxFileWrites
  /\ handlerCache \in [time : 0..MaxFileWrites, code : 0..MaxFileWrites]

LEMMA TypeParts ==
  /\ RoutesTypeOK <=> TableTypeOK /\ HandlerTypeOK /\ request \in [Requests -> RequestTypes]
  /\ RoutesTypeOK' <=> TableTypeOK' /\ HandlerTypeOK' /\ request' \in [Requests -> RequestTypes]
  BY DEF RoutesTypeOK, TableTypeOK, HandlerTypeOK, RouterTypes, RequestTypes, Steps

LEMMA TypeInit == RoutesInit => RoutesTypeOK
<1> SUFFICES ASSUME RoutesInit PROVE TableTypeOK /\ HandlerTypeOK /\ request \in [Requests -> RequestTypes]
  BY TypeParts
<1>1. 0 \in 0..MaxWrites /\ 0 \in 0..MaxFileWrites
  BY RoutesAssumption
<1>2. NoDef \in Defs /\ NoRouter \in RouterTypes
  BY <1>1 DEF NoDef, Defs, NoRouter, RouterTypes
<1>3. TableTypeOK
  BY <1>1, <1>2 DEF RoutesInit, TableTypeOK, Unlocked
<1>4. HandlerTypeOK /\ request \in [Requests -> RequestTypes]
  BY <1>1 DEF RoutesInit, HandlerTypeOK, Quiet, RequestTypes, Steps
<1> QED BY <1>3, <1>4

-----------------------------------------------------------------------------
(* The steps: those of writers, those under the lock of a rebuild, and those *)
(* that change a request only.                                               *)

Ops == {"add", "update", "enable", "disable", "remove"}

WriterStep ==
  \/ \E f \in Functions, op \in Ops : WriteBegins(f, op)
  \/ \E f \in Functions, op \in Ops, def \in Defs : Commits(f, op, def)
  \/ MarkDirty \/ WriteReturns \/ WriteThrows

RequestStep(r) ==
  \/ Arrives(r) \/ AcquiresForRebuild(r) \/ RebuildFails(r) \/ Dispatches(r)
  \/ Stats(r) \/ Imports(r) \/ Runs(r)

LEMMA NextSplits ==
  ASSUME RoutesTypeOK, RoutesNext
  PROVE  \/ WriterStep
         \/ \E r \in Requests : RequestStep(r) \/ GetAll(r) \/ Rebuilt(r) \/ Stores(r)
         \/ WritesFile \/ RemovesFile
<1>1. ASSUME NEW f \in Functions,
             \/ PostsFunction(f) \/ CreatesFunction(f) \/ EditsFunction(f) \/ PutsFunction(f)
             \/ EnablesFunction(f) \/ DisablesFunction(f) \/ DeletesFunction(f) \/ RemovesFunction(f)
      PROVE  \E op \in Ops : WriteBegins(f, op)
  BY <1>1 DEF PostsFunction, CreatesFunction, EditsFunction, PutsFunction, EnablesFunction, DisablesFunction,
              DeletesFunction, RemovesFunction, Ops
<1>2. \A f \in Functions : functionDef[f] \in Defs
  BY DEF RoutesTypeOK
<1>3. ASSUME NEW f \in Functions, SetFunctionEnabled(f) \/ RemoveFunctionById(f)
      PROVE  \E op \in Ops, def \in Defs : Commits(f, op, def)
  <2>1. /\ [functionDef[f] EXCEPT !.enabled = TRUE] \in Defs
        /\ [functionDef[f] EXCEPT !.enabled = FALSE] \in Defs
        /\ NoDef \in Defs
    BY <1>2 DEF Defs, NoDef
  <2> QED BY <1>3, <2>1 DEF SetFunctionEnabled, RemoveFunctionById, Ops
<1>4. ASSUME NEW f \in Functions, NEW route \in Paths, AddFunction(f, route) \/ UpdateFunction(f, route)
      PROVE  \E op \in Ops, def \in Defs : Commits(f, op, def)
  <2>1. /\ [route |-> route, enabled |-> TRUE] \in Defs
        /\ [functionDef[f] EXCEPT !.route = route] \in Defs
    BY <1>2 DEF Defs
  <2> QED BY <1>4, <2>1 DEF AddFunction, UpdateFunction, Ops
<1> QED BY <1>1, <1>3, <1>4 DEF RoutesNext, WriterStep, RequestStep

\* the frames of the three kinds of steps
LEMMA WriterFrame == WriterStep => UNCHANGED <<fetched, router, handlerVars, request>>
  BY DEF WriterStep, WriteBegins, Commits, MarkDirty, WriteReturns, WriteThrows

LEMMA RequestFrame ==
  ASSUME NEW r \in Requests, RequestStep(r)
  PROVE  UNCHANGED <<functionDef, writes, dirty, fetched, router, handlerVars>>
  BY DEF RequestStep, Arrives, AcquiresForRebuild, RebuildFails, Dispatches, Stats, Imports, Runs, tableVars

\* How one request goes on: q is what becomes of it.
RequestBecomes(r, q) ==
  /\ request' = [request EXCEPT ![r] = q] /\ q \in RequestTypes
  /\ \/ q \in {request[r], Quiet}
     \/ q.step = "waiting" /\ q.after = writes.answered
     \/ ~dirty /\ q.step = "checked" /\ q.after \in {request[r].after, writes.answered}
     \/ q.step = "stat" /\ q.after = 0
     \/ q.step = "import" /\ q.after = request[r].after /\ q.time = handlerFile
     \/ q.step = "run" /\ q.after = request[r].after /\ q.time = handlerCache.time /\ q.code = handlerCache.code
     \/ /\ request[r].step = "import" /\ handlerFile # 0 /\ q.step = "store"
        /\ q.after = request[r].after /\ q.time = request[r].time /\ q.code = handlerFile

LEMMA RequestMoves ==
  ASSUME RoutesTypeOK, NEW r \in Requests, RequestStep(r)
  PROVE  /\ \E q : RequestBecomes(r, q)
         /\ \/ rebuildMutex' \in {rebuildMutex, Unlocked}
            \/ rebuildMutex' = [by |-> r, step |-> "getAll"]
<1> USE DEF RequestBecomes
<1>1. request[r] \in RequestTypes /\ request \in [Requests -> RequestTypes]
  BY TypeParts
<1>2. Quiet \in RequestTypes
  BY RoutesAssumption DEF Quiet, RequestTypes, Steps
<1>3. writes.answered \in 0..MaxWrites /\ handlerFile \in 0..MaxFileWrites
      /\ handlerCache.code \in 0..MaxFileWrites /\ 0 \in 0..MaxFileWrites /\ 0 \in 0..MaxWrites
  BY RoutesAssumption DEF RoutesTypeOK
<1>4. ASSUME Answered(r) PROVE \E q : RequestBecomes(r, q)
  BY <1>2, <1>4 DEF Answered
<1>5. CASE Arrives(r)
  <2> DEFINE a == [Quiet EXCEPT !.step = IF dirty THEN "waiting" ELSE "checked"]
             q == [a EXCEPT !.after = writes.answered]
  <2>1. a \in RequestTypes /\ a.step = IF dirty THEN "waiting" ELSE "checked"
    BY <1>2 DEF RequestTypes, Steps
  <2>2. request' = [request EXCEPT ![r] = q]
    BY <1>5 DEF Arrives
  <2> HIDE DEF a
  <2>3. q \in RequestTypes /\ q.step = a.step /\ q.after = writes.answered
    BY <1>3, <2>1 DEF RequestTypes
  <2> HIDE DEF q
  <2>4. RequestBecomes(r, q)
    BY <2>1, <2>2, <2>3
  <2> QED BY <1>5, <2>4 DEF Arrives, tableVars
<1>6. CASE AcquiresForRebuild(r)
  <2>1. CASE dirty
    BY <1>1, <1>6, <2>1 DEF AcquiresForRebuild
  <2>2. CASE ~dirty
    <3> DEFINE q == [request[r] EXCEPT !.step = "checked"]
    <3>1. request' = [request EXCEPT ![r] = q] /\ rebuildMutex' = rebuildMutex
      BY <1>1, <1>6, <2>2 DEF AcquiresForRebuild, Goes
    <3>2. q \in RequestTypes /\ q.step = "checked" /\ q.after = request[r].after
      BY <1>1 DEF RequestTypes, Steps
    <3> HIDE DEF q
    <3> QED BY <2>2, <3>1, <3>2
  <2> QED BY <2>1, <2>2
<1>7. CASE RebuildFails(r)
  BY <1>4, <1>7 DEF RebuildFails
<1>8. CASE Dispatches(r)
  <2> DEFINE q == [Quiet EXCEPT !.step = "stat"]
  <2>1. q \in RequestTypes /\ q.step = "stat" /\ q.after = 0
    BY <1>2 DEF Quiet, RequestTypes, Steps
  <2>2. Answered(r) \/ request' = [request EXCEPT ![r] = q]
    BY <1>8 DEF Dispatches
  <2> HIDE DEF q
  <2>3. \E x : RequestBecomes(r, x)
    BY <1>4, <2>1, <2>2
  <2> QED BY <1>8, <2>3 DEF Dispatches, tableVars
<1>9. CASE Stats(r)
  <2> DEFINE hit == handlerCache.time = handlerFile
             a == [request[r] EXCEPT !.time = handlerFile]
             b == [a EXCEPT !.step = IF hit THEN "run" ELSE "import"]
             q == [b EXCEPT !.code = IF hit THEN handlerCache.code ELSE 0]
  <2>1. Answered(r) \/ request' = [request EXCEPT ![r] = q]
    BY <1>1, <1>9 DEF Stats
  <2>2. a \in RequestTypes /\ a.time = handlerFile /\ a.after = request[r].after
    BY <1>1, <1>3 DEF RequestTypes
  <2> HIDE DEF a
  <2>3. /\ b \in RequestTypes /\ b.time = handlerFile /\ b.after = request[r].after
        /\ b.step = IF hit THEN "run" ELSE "import"
    BY <2>2 DEF RequestTypes, Steps
  <2> HIDE DEF b
  <2>4. /\ q \in RequestTypes /\ q.time = handlerFile /\ q.after = request[r].after
        /\ q.step = (IF hit THEN "run" ELSE "import") /\ (hit => q.code = handlerCache.code)
    BY <1>3, <2>3 DEF RequestTypes
  <2> HIDE DEF q
  <2>5. \E x : RequestBecomes(r, x)
    BY <1>4, <2>1, <2>4
  <2> QED BY <1>9, <2>5 DEF Stats, tableVars
<1>10. CASE Imports(r)
  <2> DEFINE a == [request[r] EXCEPT !.step = "store"]
             q == [a EXCEPT !.code = handlerFile]
  <2>1. Answered(r) \/ (handlerFile # 0 /\ request' = [request EXCEPT ![r] = q])
    BY <1>1, <1>10 DEF Imports
  <2>2. a \in RequestTypes /\ a.step = "store" /\ a.after = request[r].after /\ a.time = request[r].time
    BY <1>1 DEF RequestTypes, Steps
  <2> HIDE DEF a
  <2>3. /\ q \in RequestTypes /\ q.step = "store" /\ q.after = request[r].after
        /\ q.time = request[r].time /\ q.code = handlerFile
    BY <1>3, <2>2 DEF RequestTypes
  <2> HIDE DEF q
  <2>4. \E x : RequestBecomes(r, x)
    BY <1>4, <1>10, <2>1, <2>3 DEF Imports
  <2> QED BY <1>10, <2>4 DEF Imports, tableVars
<1>11. CASE Runs(r)
  BY <1>4, <1>11 DEF Runs, tableVars
<1> QED BY <1>5, <1>6, <1>7, <1>8, <1>9, <1>10, <1>11 DEF RequestStep

LEMMA TypeStep == RoutesTypeOK /\ [RoutesNext]_routesVars => RoutesTypeOK'
<1> SUFFICES ASSUME RoutesTypeOK, [RoutesNext]_routesVars
             PROVE  TableTypeOK' /\ HandlerTypeOK' /\ request' \in [Requests -> RequestTypes]
  BY TypeParts
<1> USE TypeParts
<1>1. CASE WriterStep
  <2>1. TableTypeOK'
    <3>1. CASE \E f \in Functions, op \in Ops : WriteBegins(f, op)
      BY <3>1 DEF WriteBegins, Ops, TableTypeOK
    <3>2. CASE \E f \in Functions, op \in Ops, def \in Defs : Commits(f, op, def)
      BY <3>2, RoutesAssumption DEF Commits, TableTypeOK
    <3>3. CASE MarkDirty
      BY <3>3 DEF MarkDirty, TableTypeOK
    <3>4. CASE WriteReturns
      BY <3>4 DEF WriteReturns, Unlocked, TableTypeOK
    <3>5. CASE WriteThrows
      BY <3>5 DEF WriteThrows, Unlocked, TableTypeOK
    <3> QED BY <1>1, <3>1, <3>2, <3>3, <3>4, <3>5 DEF WriterStep
  <2> QED BY <1>1, <2>1, WriterFrame DEF handlerVars, HandlerTypeOK
<1>2. ASSUME NEW r \in Requests, RequestStep(r)
      PROVE  TableTypeOK' /\ HandlerTypeOK' /\ request' \in [Requests -> RequestTypes]
  <2>1. request' \in [Requests -> RequestTypes]
    BY <1>2, RequestMoves DEF RequestBecomes
  <2>2. TableTypeOK'
    BY <1>2, RequestFrame, RequestMoves DEF TableTypeOK, Unlocked
  <2> QED BY <1>2, <2>1, <2>2, RequestFrame DEF handlerVars, HandlerTypeOK
<1>3. ASSUME NEW r \in Requests, GetAll(r) \/ Rebuilt(r)
      PROVE  TableTypeOK' /\ HandlerTypeOK' /\ request' \in [Requests -> RequestTypes]
  <2>1. NoRouter \in RouterTypes
    BY RoutesAssumption DEF NoRouter, NoDef, Defs, RouterTypes
  <2>2. TableTypeOK'
    <3>1. CASE GetAll(r)
      BY <3>1 DEF GetAll, TableTypeOK, RouterTypes
    <3>2. CASE Rebuilt(r)
      BY <2>1, <3>2 DEF Rebuilt, Unlocked, TableTypeOK
    <3> QED BY <1>3, <3>1, <3>2
  <2>3. request' \in [Requests -> RequestTypes]
    BY <1>3 DEF GetAll, Rebuilt, Goes, RequestTypes, Steps
  <2> QED BY <1>3, <2>2, <2>3 DEF GetAll, Rebuilt, handlerVars, HandlerTypeOK
<1>4. ASSUME NEW r \in Requests, Stores(r)
      PROVE  TableTypeOK' /\ HandlerTypeOK' /\ request' \in [Requests -> RequestTypes]
  <2>1. request' \in [Requests -> RequestTypes] /\ HandlerTypeOK'
    BY <1>4 DEF Stores, Goes, RequestTypes, Steps, HandlerTypeOK
  <2> QED BY <1>4, <2>1 DEF Stores, tableVars, TableTypeOK
<1>5. CASE WritesFile \/ RemovesFile
  BY <1>5, RoutesAssumption DEF WritesFile, RemovesFile, tableVars, TableTypeOK, HandlerTypeOK
<1>6. CASE UNCHANGED routesVars
  BY <1>6 DEF routesVars, TableTypeOK, HandlerTypeOK
<1> QED BY <1>1, <1>2, <1>3, <1>4, <1>5, <1>6, NextSplits

\* Table, lock, router, cache and requests keep their types (functions_service.ts,
\* function_router.ts, handler_loader.ts).
THEOREM RoutesTypeCorrect == RoutesSpec => []RoutesTypeOK
  BY TypeInit, TypeStep, PTL DEF RoutesSpec

-----------------------------------------------------------------------------
(* Requests and the router *)

\* While nobody holds the lock for a rebuild, a clean router has every write that was answered;
\* the rebuild under the lock has every write that was committed.
RouterInv ==
  /\ writes.answered <= writes.committed /\ router.built <= writes.committed
  /\ ~dirty => router.built >= writes.answered
  /\ rebuildMutex.step = "marked" => dirty
  /\ rebuildMutex.step = "rebuild" => fetched.built = writes.committed

RequestsInv ==
  /\ \A r \in Requests : request[r].after <= writes.answered
  /\ RequestSeesWrites

LEMMA RouterInit == RoutesInit => RouterInv /\ RequestsInv
  BY DEF RoutesInit, RouterInv, RequestsInv, RequestSeesWrites, NoRouter, Unlocked, Quiet

LEMMA RouterStep == RoutesTypeOK /\ RouterInv /\ RequestsInv /\ [RoutesNext]_routesVars => (RouterInv /\ RequestsInv)'
<1> SUFFICES ASSUME RoutesTypeOK, RouterInv, RequestsInv, [RoutesNext]_routesVars
             PROVE  RouterInv' /\ RequestsInv'
  OBVIOUS
<1> USE DEF RouterInv
<1>1. /\ writes.committed \in Nat /\ writes.answered \in Nat /\ router.built \in Nat /\ fetched.built \in Nat
      /\ \A r \in Requests : request[r].after \in Nat
  BY RoutesAssumption DEF RoutesTypeOK
<1>2. CASE WriterStep
  <2>1. UNCHANGED <<fetched, router, request>>
    BY <1>2, WriterFrame
  <2>2. RouterInv' /\ writes'.answered >= writes.answered
    <3>1. CASE \E f \in Functions, op \in Ops : WriteBegins(f, op)
      BY <1>1, <2>1, <3>1 DEF WriteBegins, Ops
    <3>2. CASE \E f \in Functions, op \in Ops, def \in Defs : Commits(f, op, def)
      BY <1>1, <2>1, <3>2 DEF Commits, RoutesTypeOK
    <3>3. CASE MarkDirty
      BY <1>1, <2>1, <3>3 DEF MarkDirty, RoutesTypeOK
    <3>4. CASE WriteReturns
      BY <1>1, <2>1, <3>4 DEF WriteReturns, Unlocked, RoutesTypeOK
    <3>5. CASE WriteThrows
      BY <1>1, <2>1, <3>5 DEF WriteThrows, Unlocked
    <3> QED BY <1>2, <3>1, <3>2, <3>3, <3>4, <3>5 DEF WriterStep
  <2>3. writes'.answered \in Nat
    BY <1>2, TypeStep, RoutesAssumption DEF RoutesTypeOK
  <2> QED BY <1>1, <2>1, <2>2, <2>3 DEF RequestsInv, RequestSeesWrites
<1>3. ASSUME NEW r \in Requests, RequestStep(r) PROVE RouterInv' /\ RequestsInv'
  <2>1. UNCHANGED <<writes, dirty, fetched, router>>
    BY <1>3, RequestFrame
  <2>2. RouterInv'
    BY <1>3, <2>1, RequestMoves DEF Unlocked
  <2>3. PICK q : RequestBecomes(r, q)
    BY <1>3, RequestMoves
  <2>4. q.after <= writes.answered /\ (q.step = "checked" => router.built >= q.after)
    BY <1>1, <2>3 DEF RequestBecomes, RequestsInv, RequestSeesWrites, Quiet
  <2>5. \A p \in Requests : request'[p] = IF p = r THEN q ELSE request[p]
    BY <2>3 DEF RequestBecomes, RoutesTypeOK
  <2> QED BY <2>1, <2>2, <2>4, <2>5 DEF RequestsInv, RequestSeesWrites
<1>4. ASSUME NEW r \in Requests, GetAll(r) PROVE RouterInv' /\ RequestsInv'
  BY <1>1, <1>4 DEF GetAll, RequestsInv, RequestSeesWrites, RoutesTypeOK
<1>5. ASSUME NEW r \in Requests, Rebuilt(r) PROVE RouterInv' /\ RequestsInv'
  <2>1. /\ router'.built = writes.committed /\ UNCHANGED writes /\ rebuildMutex' = Unlocked
    BY <1>5 DEF Rebuilt
  <2>2. \A p \in Requests : request'[p].after = request[p].after
    BY <1>5 DEF Rebuilt, Goes, RoutesTypeOK
  <2>3. \A p \in Requests : request[p].after <= writes.committed
    BY <1>1 DEF RequestsInv
  <2> QED BY <1>1, <2>1, <2>2, <2>3 DEF RequestsInv, RequestSeesWrites, Unlocked
<1>6. ASSUME NEW r \in Requests, Stores(r) PROVE RouterInv' /\ RequestsInv'
  <2>1. UNCHANGED tableVars
    BY <1>6 DEF Stores
  <2>2. \A p \in Requests : /\ request'[p].after = request[p].after
                            /\ request'[p].step = "checked" => request[p].step = "checked"
    BY <1>6 DEF Stores, Goes, RoutesTypeOK
  <2> QED BY <2>1, <2>2 DEF tableVars, RequestsInv, RequestSeesWrites
<1>7. CASE WritesFile \/ RemovesFile \/ UNCHANGED routesVars
  BY <1>7 DEF WritesFile, RemovesFile, routesVars, tableVars, RequestsInv, RequestSeesWrites
<1> QED BY <1>2, <1>3, <1>4, <1>5, <1>6, <1>7, NextSplits

\* A request is dispatched by a router that has every write that was answered before the request
\* arrived, in every order of writes that fail half-way, rebuilds and requests (rebuildIfNeeded).
THEOREM RoutesAreCurrent == RoutesSpec => []RequestSeesWrites
<1>1. RouterInv /\ RequestsInv => RequestSeesWrites
  BY DEF RequestsInv
<1> QED BY <1>1, RouterInit, RouterStep, RoutesTypeCorrect, PTL DEF RoutesSpec

-----------------------------------------------------------------------------
(* Handlers *)

\* The file has the time of the last write; nothing is ever stored under a time later than its code.
LoadsInv ==
  /\ handlerFile \in {0, fileWrites}
  /\ handlerCache.code >= handlerCache.time
  /\ \A r \in Requests :
       /\ request[r].step = "import" => request[r].time <= fileWrites
       /\ request[r].step \in {"store", "run"} => request[r].code >= request[r].time

LEMMA LoadsInit == RoutesInit => LoadsInv
  BY DEF RoutesInit, LoadsInv, Quiet

LEMMA LoadsStep == RoutesTypeOK /\ LoadsInv /\ [RoutesNext]_routesVars => LoadsInv'
<1> SUFFICES ASSUME RoutesTypeOK, LoadsInv, [RoutesNext]_routesVars PROVE LoadsInv'
  OBVIOUS
<1> USE DEF LoadsInv
<1>1. /\ fileWrites \in Nat /\ handlerFile \in Nat /\ handlerCache.code \in Nat /\ handlerCache.time \in Nat
      /\ \A r \in Requests : request[r].time \in Nat /\ request[r].code \in Nat
  BY RoutesAssumption DEF RoutesTypeOK
<1>2. CASE WriterStep
  BY <1>2, WriterFrame DEF handlerVars
<1>3. ASSUME NEW r \in Requests, RequestStep(r) PROVE LoadsInv'
  <2>1. UNCHANGED handlerVars
    BY <1>3, RequestFrame
  <2>2. PICK q : RequestBecomes(r, q)
    BY <1>3, RequestMoves
  <2>3. /\ q.step = "import" => q.time <= fileWrites
        /\ q.step \in {"store", "run"} => q.code >= q.time
    BY <1>1, <2>2 DEF RequestBecomes, Quiet
  <2>4. \A p \in Requests : request'[p] = IF p = r THEN q ELSE request[p]
    BY <2>2 DEF RequestBecomes, RoutesTypeOK
  <2> QED BY <2>1, <2>3, <2>4 DEF handlerVars
<1>4. ASSUME NEW r \in Requests, GetAll(r) \/ Rebuilt(r) PROVE LoadsInv'
  <2>1. UNCHANGED handlerVars
    BY <1>4 DEF GetAll, Rebuilt
  <2>2. \A p \in Requests : request'[p] = request[p] \/ request'[p].step = "checked"
    BY <1>4 DEF GetAll, Rebuilt, Goes, RoutesTypeOK
  <2> QED BY <2>1, <2>2 DEF handlerVars
<1>5. ASSUME NEW r \in Requests, Stores(r) PROVE LoadsInv'
  <2>1. \A p \in Requests : /\ request'[p].time = request[p].time /\ request'[p].code = request[p].code
                            /\ p # r => request'[p].step = request[p].step
    BY <1>5 DEF Stores, Goes, RoutesTypeOK
  <2>2. request'[r].step = "run"
    BY <1>5 DEF Stores, Goes, RoutesTypeOK
  <2> QED BY <1>5, <2>1, <2>2 DEF Stores
<1>6. CASE WritesFile \/ RemovesFile
  BY <1>1, <1>6 DEF WritesFile, RemovesFile
<1>7. CASE UNCHANGED routesVars
  BY <1>7 DEF routesVars
<1> QED BY <1>2, <1>3, <1>4, <1>5, <1>6, <1>7, NextSplits

\* The handler that answers a request is at least as new as the file was when load() looked at it,
\* over concurrent loads, writes during an import, and a file that is removed and written again.
THEOREM HandlersAreCurrent == RoutesSpec => []HandlerIsCurrent
<1>1. LoadsInv => HandlerIsCurrent
  BY DEF LoadsInv, HandlerIsCurrent
<1> QED BY <1>1, LoadsInit, LoadsStep, RoutesTypeCorrect, PTL DEF RoutesSpec

-----------------------------------------------------------------------------
(***************************************************************************)
(* The sources of the code                                                 *)
(***************************************************************************)

\* steps of syncSource() between its reading of the row and its last writing of it
Syncing == {"begin", "clone", "rename", "checkout", "done", "failed"}

\* one source of the name at a time, and what the holder of writeMutex works on
WriterInv ==
  /\ \A i, j \in Sources : Live(i) /\ Live(j) => i = j
  /\ writer.step # "free" => writer.id \in Sources /\ Live(writer.id)
  /\ writer.step \in {"remove", "row"} => (schedule[writer.id] = "none" \/ writer.id \in kept) /\ writer.id \in doomed

\* the loop works on a running job
SyncInv ==
  /\ \A i \in Sources : syncJob[i].status = "none" => syncJob[i] = NoJob
  /\ sync.step # "none" => sync.id \in Sources /\ syncJob[sync.id].status = "running"
  /\ sync.step \in Syncing => row[sync.id].state # "none"
  /\ sync.step = "over" => ~(Live(sync.id) /\ row[sync.id].started) \/ sync.id \in unmarked

\* what a sync finds when it ends
Undisturbed == Live(sync.id) /\ sync.id \notin doomed

ContentInv ==
  /\ sync.step \in Syncing =>
       \A i \in Sources \ {sync.id} : ~(Live(i) /\ row[i].synced)
  /\ sync.step \in Syncing /\ Live(sync.id) => row[sync.id].started
  /\ sync.step \in Syncing /\ Undisturbed => row[sync.id].settings = sync.settings \/ sync.id \in behind
  /\ sync.step = "checkout" /\ Undisturbed => dir = Partial
  /\ sync.step = "done" /\ Undisturbed => dir = Whole(sync.id, sync.settings)

SourceInv ==
  /\ SourceTypeOK /\ WriterInv /\ SyncInv /\ ScheduleHasSource /\ GateHasJob
  /\ ContentInv /\ SyncedMeansWhole

-----------------------------------------------------------------------------
(* Types *)

RowRecord == [state : {"none", "live", "gone"}, settings : Settings, started : BOOLEAN, synced : BOOLEAN]
JobRecord == [status : {"none", "pending", "running"}, by : {"request", "schedule"},
              cancelled : BOOLEAN, retried : BOOLEAN]
WriterRecord == [step : {"free", "directory", "remove", "row"}, id : Sources \cup {0}, git : BOOLEAN]
SyncRecord == [step : {"none", "read", "begin", "clone", "rename", "checkout", "done",
                       "failed", "over"}, id : Sources \cup {0}, settings : Settings]
DirRecords == {Empty, Partial} \cup {Whole(i, s) : i \in Sources, s \in Settings}

RowsTypeOK ==
  /\ row \in [Sources -> RowRecord] /\ schedule \in [Sources -> {"none", "active", "paused"}]
  /\ writer \in WriterRecord

JobsTypeOK ==
  /\ syncJob \in [Sources -> JobRecord] /\ sync \in SyncRecord
  /\ unmarked \subseteq Sources /\ doomed \subseteq Sources /\ kept \subseteq Sources
  /\ resync \subseteq Sources /\ behind \subseteq Sources

LEMMA SourceTypeParts ==
  /\ SourceTypeOK <=> RowsTypeOK /\ JobsTypeOK /\ dir \in DirRecords
  /\ SourceTypeOK' <=> RowsTypeOK' /\ JobsTypeOK' /\ dir' \in DirRecords
  BY DEF SourceTypeOK, RowsTypeOK, JobsTypeOK, RowRecord, JobRecord, WriterRecord, SyncRecord, DirRecords

LEMMA NumberOfSource == 0 \notin Sources
  BY SourcesAssumption

\* the actions by what they work on: what writeMutex guards, the triggers, and the sync
WriterAction ==
  \/ \E i \in Sources : \E git \in BOOLEAN : CreateSource(i, git)
  \/ \E i \in Sources, settings \in Settings : EditsSource(i, settings) \/ PutsSource(i, settings)
  \/ \E i \in Sources : DeleteSource(i)
  \/ EnsureSchedule \/ CreateFails \/ RemoveDirectory \/ RemoveRow

TriggerAction ==
  \E i \in Sources : PostsSync(i) \/ WebhookSync(i) \/ Resyncs(i) \/ ResyncRefused(i) \/ ScheduledSync(i)

WorksOnDirectory == SyncBegins \/ CloneEnds \/ CloneMoves \/ CheckoutEnds

SyncAction ==
  \/ \E i \in Sources : ClaimSync(i)
  \/ SyncStarts \/ SyncStartFails \/ WorksOnDirectory \/ SyncEnds \/ SyncJobEnds

LEMMA SourceNextSplits == SourceNext => WriterAction \/ TriggerAction \/ SyncAction \/ SourceCrash
  BY DEF SourceNext, WriterAction, TriggerAction, SyncAction, WorksOnDirectory, PostsSource, CreatesGitSource

LEMMA RecordsFit ==
  /\ NoRow \in RowRecord /\ GoneRow \in RowRecord /\ NoJob \in JobRecord
  /\ Free \in WriterRecord /\ NoSync \in SyncRecord
  /\ [NoRow EXCEPT !.state = "live"] \in RowRecord
  /\ \A by \in {"request", "schedule"} : [NoJob EXCEPT !.status = "pending", !.by = by] \in JobRecord
<1>1. NoRow \in RowRecord /\ NoJob \in JobRecord /\ Free \in WriterRecord /\ NoSync \in SyncRecord
  BY DEF NoRow, NoJob, Free, NoSync, RowRecord, JobRecord, WriterRecord, SyncRecord, Settings
<1>2. GoneRow \in RowRecord /\ [NoRow EXCEPT !.state = "live"] \in RowRecord
  BY <1>1 DEF GoneRow, RowRecord
<1>3. \A by \in {"request", "schedule"} : [NoJob EXCEPT !.status = "pending", !.by = by] \in JobRecord
  BY <1>1 DEF JobRecord
<1> QED BY <1>1, <1>2, <1>3

LEMMA WriterTypes == ASSUME SourceTypeOK, WriterInv, WriterAction PROVE SourceTypeOK'
<1>0. RowsTypeOK /\ JobsTypeOK /\ dir \in DirRecords
  BY SourceTypeParts
<1> USE NumberOfSource, RecordsFit
<1>1. ASSUME RowsTypeOK', resync' \subseteq Sources, behind' \subseteq Sources,
             UNCHANGED <<syncJob, unmarked, doomed, kept, dir, sync>>
      PROVE  SourceTypeOK'
  BY <1>0, <1>1, SourceTypeParts DEF JobsTypeOK
<1>2. ASSUME NEW i \in Sources, NEW git \in BOOLEAN, CreateSource(i, git) PROVE SourceTypeOK'
  <2>1. row' \in [Sources -> RowRecord] /\ writer' \in WriterRecord
    BY <1>0, <1>2 DEF CreateSource, RowsTypeOK, WriterRecord
  <2> QED BY <1>0, <1>1, <1>2, <2>1 DEF CreateSource, RowsTypeOK, JobsTypeOK
<1>3. ASSUME NEW i \in Sources, NEW settings \in Settings, UpdateSource(i, settings) PROVE RowsTypeOK'
  <2>1. row' \in [Sources -> RowRecord]
    BY <1>0, <1>3 DEF UpdateSource, RowsTypeOK, RowRecord
  <2>2. schedule' \in [Sources -> {"none", "active", "paused"}]
    BY <1>0, <1>3 DEF UpdateSource, Ensured, Toggled, RowsTypeOK
  <2> QED BY <1>0, <1>3, <2>1, <2>2 DEF UpdateSource, RowsTypeOK
<1>4. ASSUME NEW i \in Sources, NEW settings \in Settings, EditsSource(i, settings) \/ PutsSource(i, settings)
      PROVE  SourceTypeOK'
  BY <1>0, <1>1, <1>3, <1>4 DEF EditsSource, PutsSource, UpdateSource, JobsTypeOK
<1>5. ASSUME NEW i \in Sources, DeleteSource(i) PROVE SourceTypeOK'
  <2>1. syncJob' \in [Sources -> JobRecord]
    <3>1. syncJob[i] \in JobRecord
      BY <1>0 DEF JobsTypeOK
    <3>2. JobWithoutSchedule(i) \in JobRecord
      BY <3>1 DEF JobWithoutSchedule, JobRecord
    <3>3. PICK job \in {JobWithoutSchedule(i), syncJob[i]} : syncJob' = [syncJob EXCEPT ![i] = job]
      BY <1>5 DEF DeleteSource
    <3> QED BY <1>0, <3>1, <3>2, <3>3 DEF JobsTypeOK
  <2>2. schedule' \in [Sources -> {"none", "active", "paused"}] /\ kept' \subseteq Sources
    BY <1>0, <1>5 DEF DeleteSource, RowsTypeOK, JobsTypeOK
  <2>3. RowsTypeOK'
    BY <1>0, <1>5, <2>2 DEF DeleteSource, RowsTypeOK, WriterRecord, Free
  <2>4. JobsTypeOK'
    BY <1>0, <1>5, <2>1, <2>2 DEF DeleteSource, JobsTypeOK
  <2> QED BY <1>0, <1>5, <2>3, <2>4, SourceTypeParts DEF DeleteSource
<1>6. CASE EnsureSchedule \/ CreateFails
  <2>1. schedule' \in [Sources -> {"none", "active", "paused"}]
    BY <1>0, <1>6 DEF EnsureSchedule, CreateFails, Ensured, RowsTypeOK, WriterInv
  <2>2. RowsTypeOK'
    BY <1>0, <1>6, <2>1 DEF EnsureSchedule, CreateFails, RowsTypeOK
  <2> QED BY <1>0, <1>1, <1>6, <2>2 DEF EnsureSchedule, CreateFails, JobsTypeOK, WriterInv
<1>7. CASE RemoveDirectory
  <2>1. writer' \in WriterRecord
    BY <1>0, <1>7 DEF RemoveDirectory, Writes, RowsTypeOK, WriterRecord
  <2> QED BY <1>0, <1>7, <2>1, SourceTypeParts DEF RemoveDirectory, RowsTypeOK, JobsTypeOK, DirRecords
<1>8. CASE RemoveRow
  <2>1. row' \in [Sources -> RowRecord]
    BY <1>0, <1>8 DEF RemoveRow, RowsTypeOK
  <2> QED BY <1>0, <1>8, <2>1, SourceTypeParts DEF RemoveRow, RowsTypeOK, JobsTypeOK
<1> QED BY <1>2, <1>4, <1>5, <1>6, <1>7, <1>8 DEF WriterAction

LEMMA TriggerTypes == ASSUME SourceTypeOK, TriggerAction PROVE SourceTypeOK'
<1>0. RowsTypeOK /\ JobsTypeOK /\ dir \in DirRecords
  BY SourceTypeParts
<1>1. ASSUME NEW i \in Sources, NEW by \in {"request", "schedule"}, syncJob' = Enqueued(i, by)
      PROVE  syncJob' \in [Sources -> JobRecord]
  BY <1>0, <1>1, RecordsFit DEF Enqueued, JobsTypeOK
<1>2. ASSUME NEW i \in Sources, PostsSync(i) \/ WebhookSync(i) \/ Resyncs(i) PROVE SourceTypeOK'
  <2>1. syncJob' \in [Sources -> JobRecord] /\ resync' \subseteq Sources
    BY <1>0, <1>1, <1>2 DEF PostsSync, WebhookSync, Resyncs, TriggerSync, JobsTypeOK
  <2> QED BY <1>0, <1>2, <2>1, SourceTypeParts DEF PostsSync, WebhookSync, Resyncs, TriggerSync, RowsTypeOK, JobsTypeOK
<1>3. ASSUME NEW i \in Sources, ResyncRefused(i) PROVE SourceTypeOK'
  BY <1>0, <1>3, SourceTypeParts DEF ResyncRefused, RowsTypeOK, JobsTypeOK
<1>4. ASSUME NEW i \in Sources, ScheduledSync(i) PROVE SourceTypeOK'
  <2>1. syncJob' \in [Sources -> JobRecord]
    BY <1>1, <1>4 DEF ScheduledSync
  <2> QED BY <1>0, <1>4, <2>1, SourceTypeParts DEF ScheduledSync, RowsTypeOK, JobsTypeOK
<1> QED BY <1>2, <1>3, <1>4 DEF TriggerAction

\* a sync changes only its own row, and that only while the source is there
LEMMA MarkedRow ==
  ASSUME SourceTypeOK, NEW started \in BOOLEAN, NEW synced \in BOOLEAN, Marked(started, synced), sync.id \in Sources
  PROVE  /\ row' \in [Sources -> RowRecord]
         /\ \A i \in Sources : /\ row'[i].state = row[i].state /\ row'[i].settings = row[i].settings
                               /\ i # sync.id \/ ~Live(i) => row'[i] = row[i]
         /\ Live(sync.id) => row'[sync.id].started = started /\ row'[sync.id].synced = synced
<1>1. row \in [Sources -> RowRecord]
  BY SourceTypeParts DEF RowsTypeOK
<1>2. CASE Live(sync.id)
  <2>1. row' = [row EXCEPT ![sync.id].started = started, ![sync.id].synced = synced]
    BY <1>2 DEF Marked
  <2> QED BY <1>1, <1>2, <2>1 DEF RowRecord, Live
<1>3. CASE ~Live(sync.id)
  BY <1>1, <1>3 DEF Marked, Live
<1> QED BY <1>2, <1>3

LEMMA SyncTypes == ASSUME SourceTypeOK, SyncInv, SyncAction PROVE SourceTypeOK'
<1>0. RowsTypeOK /\ JobsTypeOK /\ dir \in DirRecords
  BY SourceTypeParts
<1> USE NumberOfSource, RecordsFit
<1>1. ASSUME NEW step \in {"clone", "rename", "checkout", "done", "failed", "over"}, Syncs(step) PROVE sync' \in SyncRecord
  BY <1>0, <1>1 DEF Syncs, JobsTypeOK, SyncRecord
<1>2. ASSUME NEW i \in Sources, ClaimSync(i) PROVE SourceTypeOK'
  <2>1. syncJob' \in [Sources -> JobRecord]
    BY <1>0, <1>2 DEF ClaimSync, JobsTypeOK, JobRecord
  <2>2. sync' \in SyncRecord
    BY <1>0, <1>2 DEF ClaimSync, NoSync, SyncRecord, Settings
  <2> QED BY <1>0, <1>2, <2>1, <2>2, SourceTypeParts DEF ClaimSync, RowsTypeOK, JobsTypeOK
<1>3. CASE SyncStarts
  <2>1. sync.id \in Sources /\ row[sync.id] \in RowRecord
    BY <1>0, <1>3 DEF SyncInv, SyncStarts, RowsTypeOK
  <2>2. row' \in [Sources -> RowRecord]
    BY <1>3, <2>1, MarkedRow DEF SyncStarts, RowRecord
  <2>3. sync' \in SyncRecord
    BY <1>0, <1>3, <2>1 DEF SyncStarts, JobsTypeOK, SyncRecord, RowRecord
  <2> QED BY <1>0, <1>3, <2>2, <2>3, SourceTypeParts DEF SyncStarts, RowsTypeOK, JobsTypeOK
<1>4. CASE WorksOnDirectory
  <2>1. sync' \in SyncRecord
    BY <1>1, <1>4 DEF WorksOnDirectory, SyncBegins, CloneEnds, CloneMoves, CheckoutEnds
  <2>2. sync.id \in Sources /\ sync.settings \in Settings
    BY <1>0, <1>4 DEF SyncInv, JobsTypeOK, SyncRecord, WorksOnDirectory, SyncBegins, CloneEnds, CloneMoves, CheckoutEnds
  <2>3. dir' \in {dir, Empty, Partial, Whole(sync.id, sync.settings)}
    BY <1>4 DEF WorksOnDirectory, SyncBegins, CloneEnds, CloneMoves, CheckoutEnds
  <2>4. UNCHANGED <<row, schedule, syncJob, unmarked, doomed, kept, writer, resync, behind>>
    BY <1>4 DEF WorksOnDirectory, SyncBegins, CloneEnds, CloneMoves, CheckoutEnds
  <2> QED BY <1>0, <2>1, <2>2, <2>3, <2>4, SourceTypeParts DEF RowsTypeOK, JobsTypeOK, DirRecords
<1>5. CASE SyncEnds
  <2>1. row' \in [Sources -> RowRecord] /\ unmarked' \subseteq Sources
    BY <1>0, <1>5, MarkedRow DEF SyncEnds, SyncInv, RowsTypeOK, JobsTypeOK
  <2>2. sync' \in SyncRecord
    BY <1>1, <1>5 DEF SyncEnds
  <2> QED BY <1>0, <1>5, <2>1, <2>2, SourceTypeParts DEF SyncEnds, RowsTypeOK, JobsTypeOK
<1>6. CASE SyncJobEnds
  <2>1. syncJob' \in [Sources -> JobRecord]
    BY <1>0, <1>6 DEF SyncJobEnds, JobsTypeOK
  <2> QED BY <1>0, <1>6, <2>1, SourceTypeParts DEF SyncJobEnds, RowsTypeOK, JobsTypeOK
<1>7. CASE SyncStartFails
  <2>1. sync.id \in Sources /\ row[sync.id].synced \in BOOLEAN
    BY <1>0, <1>7 DEF SyncInv, SyncStartFails, RowsTypeOK, RowRecord
  <2>2. row' \in [Sources -> RowRecord]
    BY <1>0, <1>7, <2>1, MarkedRow DEF SyncStartFails, RowsTypeOK
  <2>3. sync' \in SyncRecord
    BY <1>1, <1>7 DEF SyncStartFails
  <2> QED BY <1>0, <1>7, <2>1, <2>2, <2>3, SourceTypeParts DEF SyncStartFails, RowsTypeOK, JobsTypeOK
<1> QED BY <1>2, <1>3, <1>4, <1>5, <1>6, <1>7 DEF SyncAction

\* what a crash does to the jobs
LEMMA CrashedJobs ==
  ASSUME SourceTypeOK, SourceCrash
  PROVE  /\ syncJob' \in [Sources -> JobRecord]
         /\ \A i \in Sources : syncJob[i].status # "running" => syncJob'[i] = syncJob[i]
         /\ \A i \in Sources : syncJob[i].status = "running" /\ syncJob[i].retried => syncJob'[i] = NoJob
         /\ \A i \in Sources : syncJob[i].status = "running" /\ ~syncJob[i].retried => syncJob'[i].status = "pending"
<1>1. syncJob \in [Sources -> JobRecord]
  BY SourceTypeParts DEF JobsTypeOK
<1>2. ASSUME NEW i \in Sources
      PROVE  /\ [syncJob[i] EXCEPT !.status = "pending", !.retried = TRUE] \in JobRecord
             /\ [syncJob[i] EXCEPT !.status = "pending", !.retried = TRUE].status = "pending"
  BY <1>1 DEF JobRecord
<1>3. \A i \in Sources : syncJob'[i] =
        IF syncJob[i].status # "running" THEN syncJob[i]
        ELSE IF syncJob[i].retried THEN NoJob
        ELSE [syncJob[i] EXCEPT !.status = "pending", !.retried = TRUE]
  BY DEF SourceCrash
<1>4. \A i \in Sources : syncJob'[i] \in JobRecord
  BY <1>1, <1>2, <1>3, RecordsFit
<1>5. syncJob' \in [Sources -> JobRecord]
  <2>1. syncJob' = [i \in Sources |-> syncJob'[i]]
    BY DEF SourceCrash
  <2> QED BY <1>4, <2>1
<1> QED BY <1>2, <1>3, <1>5

LEMMA CrashTypes == ASSUME SourceTypeOK, SourceCrash PROVE SourceTypeOK'
  BY SourceTypeParts, CrashedJobs, RecordsFit DEF SourceCrash, RowsTypeOK, JobsTypeOK, LostJobs

-----------------------------------------------------------------------------
(* Rows and schedules, which writeMutex guards *)

\* what the steps outside writeMutex leave of the rows
LEMMA RowsOutsideMutex ==
  ASSUME SourceTypeOK, SyncInv, TriggerAction \/ SyncAction
  PROVE  /\ UNCHANGED <<schedule, doomed, kept, writer>>
         /\ \A i \in Sources : /\ row'[i].state = row[i].state /\ row'[i].settings = row[i].settings
                               /\ i # sync.id \/ ~Live(i) => row'[i] = row[i]
<1>1. CASE SyncStarts \/ SyncStartFails \/ SyncEnds
  <2>1. sync.id \in Sources /\ row[sync.id].synced \in BOOLEAN
    BY <1>1, SourceTypeParts DEF SyncStarts, SyncStartFails, SyncEnds, SyncInv, RowsTypeOK, RowRecord
  <2> QED BY <1>1, <2>1, MarkedRow DEF SyncStarts, SyncStartFails, SyncEnds
<1>2. CASE \/ TriggerAction
           \/ \E i \in Sources : ClaimSync(i)
           \/ WorksOnDirectory \/ SyncJobEnds
  BY <1>2 DEF TriggerAction, PostsSync, WebhookSync, Resyncs, ResyncRefused, ScheduledSync, TriggerSync, ClaimSync,
       WorksOnDirectory, SyncBegins, CloneEnds, CloneMoves, CheckoutEnds, SyncJobEnds
<1> QED BY <1>1, <1>2 DEF SyncAction

LEMMA WriterKeeps ==
  ASSUME WriterInv, ScheduleHasSource, SourceTypeOK,
         UNCHANGED <<schedule, doomed, kept>>, writer' \in {writer, Free},
         \A i \in Sources : row'[i].state = row[i].state
  PROVE  WriterInv' /\ ScheduleHasSource'
<1>1. \A i \in Sources : Live(i)' <=> Live(i)
  BY DEF Live
<1>2. writer'.step # "free" => writer' = writer
  BY DEF Free
<1> QED BY <1>1, <1>2 DEF WriterInv, ScheduleHasSource

LEMMA WriterSteps ==
  ASSUME SourceTypeOK, WriterInv, ScheduleHasSource, WriterAction
  PROVE  WriterInv' /\ ScheduleHasSource'
<1>0. RowsTypeOK /\ JobsTypeOK
  BY SourceTypeParts
<1>1. ASSUME NEW i \in Sources, NEW git \in BOOLEAN, CreateSource(i, git) PROVE WriterInv' /\ ScheduleHasSource'
  <2>1. \A j \in Sources : Live(j)' <=> j = i
    BY <1>0, <1>1 DEF CreateSource, Live, RowsTypeOK, NoRow
  <2> QED BY <1>0, <1>1, <2>1 DEF CreateSource, WriterInv, ScheduleHasSource
<1>2. ASSUME NEW i \in Sources, NEW settings \in Settings, UpdateSource(i, settings)
      PROVE  WriterInv' /\ ScheduleHasSource'
  <2>1. \A j \in Sources : Live(j)' <=> Live(j)
    BY <1>0, <1>2 DEF UpdateSource, Live, RowsTypeOK, RowRecord
  <2>2. Live(i) /\ \A j \in Sources \ {i} : schedule'[j] = schedule[j]
    BY <1>0, <1>2 DEF UpdateSource, RowsTypeOK
  <2> QED BY <1>2, <2>1, <2>2 DEF UpdateSource, WriterInv, ScheduleHasSource
<1>3. ASSUME NEW i \in Sources, DeleteSource(i) PROVE WriterInv' /\ ScheduleHasSource'
  <2>1. \A j \in Sources : Live(j)' <=> Live(j)
    BY <1>3 DEF DeleteSource, Live
  <2>2. writer'.id = i /\ (schedule'[i] = "none" \/ i \in kept') /\ i \in doomed' /\ Live(i)
    BY <1>0, <1>3 DEF DeleteSource, Free, RowsTypeOK
  <2>3. \A j \in Sources \ {i} : schedule'[j] = schedule[j] /\ (j \in kept => j \in kept')
    BY <1>0, <1>3 DEF DeleteSource, RowsTypeOK
  <2> QED BY <2>1, <2>2, <2>3 DEF WriterInv, ScheduleHasSource
<1>4. CASE EnsureSchedule
  <2>1. \A j \in Sources : Live(j)' <=> Live(j)
    BY <1>4 DEF EnsureSchedule, Live
  <2>2. Live(writer.id) /\ \A j \in Sources \ {writer.id} : schedule'[j] = schedule[j]
    BY <1>0, <1>4 DEF EnsureSchedule, RowsTypeOK, WriterInv
  <2> QED BY <1>4, <2>1, <2>2 DEF EnsureSchedule, WriterInv, ScheduleHasSource, Free
<1>5. CASE CreateFails
  BY <1>5, WriterKeeps DEF CreateFails
<1>6. CASE RemoveDirectory
  <2>1. writer'.id = writer.id /\ writer'.step = "row"
    BY <1>0, <1>6 DEF RemoveDirectory, Writes, RowsTypeOK, WriterRecord
  <2> QED BY <1>6, <2>1 DEF RemoveDirectory, WriterInv, ScheduleHasSource, Live
<1>7. CASE RemoveRow
  <2>1. \A j \in Sources : Live(j)' <=> Live(j) /\ j # writer.id
    BY <1>0, <1>7 DEF RemoveRow, Live, RowsTypeOK, GoneRow, NoRow, WriterInv
  <2> QED BY <1>7, <2>1 DEF RemoveRow, WriterInv, ScheduleHasSource, Free
<1> QED BY <1>1, <1>2, <1>3, <1>4, <1>5, <1>6, <1>7 DEF WriterAction, EditsSource, PutsSource

LEMMA WriterInvStep ==
  ASSUME SourceTypeOK, SyncInv, WriterInv, ScheduleHasSource,
         WriterAction \/ TriggerAction \/ SyncAction \/ SourceCrash
  PROVE  WriterInv' /\ ScheduleHasSource'
<1>1. CASE SourceCrash
  BY <1>1, WriterKeeps DEF SourceCrash
<1> QED BY <1>1, WriterKeeps, WriterSteps, RowsOutsideMutex

-----------------------------------------------------------------------------
(* Jobs, and the gate that a sync leaves closed until it ends *)

\* what the steps under writeMutex do to the rows and the jobs
LEMMA WriterEffects ==
  ASSUME SourceTypeOK, SyncInv, WriterInv, WriterAction
  PROVE  /\ sync' = sync /\ doomed \ {writer.id} \subseteq doomed'
         /\ \A i \in Sources :
              /\ row[i].state # "none" => row'[i].state # "none"
              /\ Live(i)' /\ row'[i].started => Live(i) /\ row[i].started
              /\ Live(i)' /\ row'[i].synced => Live(i) /\ row[i].synced
              /\ syncJob'[i].status = syncJob[i].status \/ (syncJob'[i] = NoJob /\ syncJob[i].status = "pending" /\ i \in doomed')
              /\ syncJob[i] = NoJob => syncJob'[i] = NoJob
              /\ i \in unmarked /\ Live(i)' => i \in unmarked'
              /\ i \in doomed /\ Live(i)' => i \in doomed'
<1>0. RowsTypeOK /\ JobsTypeOK
  BY SourceTypeParts
<1>1. ASSUME NEW i \in Sources, NEW git \in BOOLEAN, CreateSource(i, git)
      PROVE  UNCHANGED <<sync, syncJob, unmarked, doomed>> /\ \A j \in Sources :
               /\ row[j].state # "none" => row'[j].state # "none"
               /\ Live(j)' /\ row'[j].started => Live(j) /\ row[j].started
               /\ Live(j)' /\ row'[j].synced => Live(j) /\ row[j].synced
  BY <1>0, <1>1 DEF CreateSource, NoRow, Live, RowsTypeOK
<1>2. ASSUME NEW i \in Sources, NEW settings \in Settings, UpdateSource(i, settings)
      PROVE  UNCHANGED <<sync, syncJob, unmarked, doomed>> /\ \A j \in Sources :
               row'[j].state = row[j].state /\ row'[j].started = row[j].started /\ row'[j].synced = row[j].synced
  BY <1>0, <1>2 DEF UpdateSource, RowsTypeOK, RowRecord
<1>3. ASSUME NEW i \in Sources, DeleteSource(i)
      PROVE  /\ UNCHANGED <<sync, row, unmarked>> /\ doomed \subseteq doomed'
             /\ \A j \in Sources :
                  /\ syncJob'[j].status = syncJob[j].status
                       \/ (syncJob'[j] = NoJob /\ syncJob[j].status = "pending" /\ j \in doomed')
                  /\ syncJob[j] = NoJob => syncJob'[j] = NoJob
  <2>1. PICK job \in {JobWithoutSchedule(i), syncJob[i]} : syncJob' = [syncJob EXCEPT ![i] = job]
    BY <1>3 DEF DeleteSource
  <2>2. syncJob[i] \in JobRecord
    BY <1>0 DEF JobsTypeOK
  <2>3. /\ JobWithoutSchedule(i).status = syncJob[i].status
             \/ (JobWithoutSchedule(i) = NoJob /\ syncJob[i].status = "pending")
        /\ syncJob[i] = NoJob => JobWithoutSchedule(i) = NoJob
    BY <2>2 DEF JobWithoutSchedule, JobRecord, NoJob
  <2>4. /\ job.status = syncJob[i].status \/ (job = NoJob /\ syncJob[i].status = "pending")
        /\ syncJob[i] = NoJob => job = NoJob
    BY <2>3
  <2>5. doomed' = doomed \cup {i} /\ UNCHANGED <<sync, row, unmarked>>
    BY <1>3 DEF DeleteSource
  <2>6. \A j \in Sources : syncJob'[j] = IF j = i THEN job ELSE syncJob[j]
    BY <1>0, <2>1 DEF JobsTypeOK
  <2> QED BY <2>4, <2>5, <2>6
<1>4. CASE RemoveRow
  <2>1. /\ UNCHANGED <<sync, syncJob>> /\ unmarked' = unmarked \ {writer.id} /\ doomed' = doomed \ {writer.id}
        /\ \A j \in Sources : IF j = writer.id THEN row'[j] = GoneRow ELSE row'[j] = row[j]
    BY <1>0, <1>4 DEF RemoveRow, RowsTypeOK
  <2> QED BY <2>1 DEF Live, GoneRow, NoRow
<1>5. CASE EnsureSchedule \/ CreateFails \/ RemoveDirectory
  BY <1>5 DEF EnsureSchedule, CreateFails, RemoveDirectory, Live
<1>6. CASE \E i \in Sources : DeleteSource(i)
  BY <1>3, <1>6 DEF Live
<1>7. CASE \E i \in Sources : \E git \in BOOLEAN : CreateSource(i, git)
  BY <1>1, <1>7
<1>8. CASE \E i \in Sources, settings \in Settings : EditsSource(i, settings) \/ PutsSource(i, settings)
  <2>1. PICK i \in Sources, settings \in Settings : UpdateSource(i, settings)
    BY <1>8 DEF EditsSource, PutsSource
  <2> QED BY <1>2, <2>1 DEF Live
<1> QED BY <1>4, <1>5, <1>6, <1>7, <1>8 DEF WriterAction

LEMMA JobsWriterStep ==
  ASSUME SourceTypeOK, SyncInv, WriterInv, GateHasJob, WriterAction
  PROVE  SyncInv' /\ GateHasJob'
<1>0. NoJob.status = "none"
  BY DEF NoJob
<1>1. SyncInv'
  <2>1. \A i \in Sources : syncJob'[i].status = "none" => syncJob'[i] = NoJob
    BY <1>0, WriterEffects DEF SyncInv
  <2>2. sync' = sync
    BY WriterEffects
  <2>3. sync.step # "none" => sync.id \in Sources /\ syncJob'[sync.id].status = "running"
    BY <1>0, WriterEffects DEF SyncInv
  <2>4. sync.step \in Syncing => row'[sync.id].state # "none"
    BY <2>3, WriterEffects DEF SyncInv, Syncing
  <2>5. sync.step = "over" => ~(row'[sync.id].state = "live" /\ row'[sync.id].started) \/ sync.id \in unmarked'
    BY <2>3, WriterEffects DEF SyncInv, Live
  <2> QED BY <2>1, <2>2, <2>3, <2>4, <2>5 DEF SyncInv, Live
<1>2. GateHasJob'
  <2> SUFFICES ASSUME NEW i \in Sources, Live(i)', row'[i].started, i \notin unmarked' \cup doomed'
               PROVE  syncJob'[i] # NoJob
    BY DEF GateHasJob
  <2>1. syncJob[i] # NoJob
    BY WriterEffects DEF GateHasJob
  <2>2. syncJob[i].status # "none"
    BY <2>1 DEF SyncInv
  <2> QED BY <1>0, <2>2, WriterEffects
<1> QED BY <1>1, <1>2

LEMMA JobsTriggerStep ==
  ASSUME SourceTypeOK, SyncInv, GateHasJob, TriggerAction
  PROVE  SyncInv' /\ GateHasJob'
<1>1. UNCHANGED <<row, sync, unmarked, doomed>>
  BY DEF TriggerAction, PostsSync, WebhookSync, Resyncs, ResyncRefused, ScheduledSync, TriggerSync
<1>2. \/ syncJob' = syncJob
      \/ \E i \in Sources, by \in {"request", "schedule"} : syncJob[i] = NoJob /\ syncJob' = Enqueued(i, by)
  BY DEF TriggerAction, PostsSync, WebhookSync, Resyncs, ResyncRefused, ScheduledSync, TriggerSync
<1>3. ASSUME NEW i \in Sources, NEW by \in {"request", "schedule"}, syncJob[i] = NoJob, syncJob' = Enqueued(i, by)
      PROVE  syncJob'[i].status = "pending" /\ \A j \in Sources \ {i} : syncJob'[j] = syncJob[j]
  BY <1>3, SourceTypeParts DEF Enqueued, JobsTypeOK, NoJob
<1>4. \A i \in Sources : syncJob'[i] = syncJob[i] \/ (syncJob[i] = NoJob /\ syncJob'[i].status = "pending")
  BY <1>2, <1>3
<1>5. NoJob.status = "none"
  BY DEF NoJob
<1> QED BY <1>1, <1>4, <1>5 DEF SyncInv, GateHasJob, Live

LEMMA JobsSyncStep ==
  ASSUME SourceTypeOK, SyncInv, GateHasJob, SyncAction
  PROVE  SyncInv' /\ GateHasJob'
<1>0. RowsTypeOK /\ JobsTypeOK /\ NoJob.status = "none"
  BY SourceTypeParts DEF NoJob
<1>1. ASSUME NEW i \in Sources, ClaimSync(i) PROVE SyncInv' /\ GateHasJob'
  <2>1. syncJob'[i].status = "running" /\ \A j \in Sources \ {i} : syncJob'[j] = syncJob[j]
    BY <1>0, <1>1 DEF ClaimSync, JobsTypeOK, JobRecord
  <2>2. sync'.step = "read" /\ sync'.id = i
    BY <1>1 DEF ClaimSync, NoSync
  <2>3. UNCHANGED <<row, unmarked, doomed>>
    BY <1>1 DEF ClaimSync
  <2> QED BY <1>0, <2>1, <2>2, <2>3 DEF SyncInv, GateHasJob, Live, Syncing
<1>2. ASSUME UNCHANGED <<syncJob, doomed>>, sync'.id = sync.id, sync.step # "none",
             unmarked \ {sync.id} \subseteq unmarked',
             \A i \in Sources : row'[i].state = row[i].state,
             \A i \in Sources \ {sync.id} : row'[i] = row[i],
             sync'.step \in Syncing => row[sync.id].state # "none",
             sync'.step = "over" => ~(Live(sync.id) /\ row'[sync.id].started) \/ sync.id \in unmarked'
      PROVE  SyncInv' /\ GateHasJob'
  BY <1>0, <1>2 DEF SyncInv, GateHasJob, Live
<1>3. CASE SyncStarts
  <2>1. sync.id \in Sources /\ sync.step = "read" /\ row[sync.id].synced \in BOOLEAN
    BY <1>0, <1>3 DEF SyncStarts, SyncInv, RowsTypeOK, RowRecord
  <2>2. sync'.id = sync.id /\ sync'.step = (IF Live(sync.id) THEN "begin" ELSE "over")
    BY <1>0, <1>3 DEF SyncStarts, JobsTypeOK, SyncRecord
  <2>3. \A i \in Sources : row'[i].state = row[i].state /\ (i # sync.id => row'[i] = row[i])
    BY <1>3, <2>1, MarkedRow DEF SyncStarts
  <2> QED BY <1>2, <1>3, <2>1, <2>2, <2>3 DEF SyncStarts, Live, Syncing
<1>4. CASE WorksOnDirectory
  <2>1. sync.step \in Syncing
    BY <1>4 DEF WorksOnDirectory, SyncBegins, CloneEnds, CloneMoves, CheckoutEnds, Syncing
  <2>2. \E step \in Syncing : Syncs(step)
    BY <1>4 DEF WorksOnDirectory, SyncBegins, CloneEnds, CloneMoves, CheckoutEnds, Syncing
  <2>3. sync'.id = sync.id /\ sync'.step \in Syncing
    BY <1>0, <2>2 DEF Syncs, JobsTypeOK, SyncRecord
  <2>4. UNCHANGED <<row, syncJob, unmarked, doomed>>
    BY <1>4 DEF WorksOnDirectory, SyncBegins, CloneEnds, CloneMoves, CheckoutEnds
  <2> QED BY <1>2, <2>1, <2>3, <2>4 DEF Syncing, SyncInv
<1>5. CASE SyncEnds
  <2>1. sync.id \in Sources /\ sync.step \in Syncing
    BY <1>5 DEF SyncEnds, SyncInv, Syncing
  <2>2. sync'.id = sync.id /\ sync'.step = "over"
    BY <1>0, <1>5 DEF SyncEnds, Syncs, JobsTypeOK, SyncRecord
  <2>3. /\ \A i \in Sources : row'[i].state = row[i].state /\ (i # sync.id => row'[i] = row[i])
        /\ ~(Live(sync.id) /\ row'[sync.id].started) \/ sync.id \in unmarked'
    BY <1>5, <2>1, MarkedRow DEF SyncEnds
  <2>4. UNCHANGED <<syncJob, doomed>> /\ unmarked \ {sync.id} \subseteq unmarked'
    BY <1>5 DEF SyncEnds
  <2> QED BY <1>2, <2>1, <2>2, <2>3, <2>4 DEF Syncing
<1>7. CASE SyncStartFails
  <2>1. sync.id \in Sources /\ sync.step = "read" /\ row[sync.id].synced \in BOOLEAN
    BY <1>0, <1>7 DEF SyncStartFails, SyncInv, RowsTypeOK, RowRecord
  <2>2. sync'.id = sync.id /\ sync'.step = "over"
    BY <1>0, <1>7 DEF SyncStartFails, Syncs, JobsTypeOK, SyncRecord
  <2>3. \A i \in Sources : row'[i].state = row[i].state /\ (i # sync.id => row'[i] = row[i])
    BY <1>7, <2>1, MarkedRow DEF SyncStartFails
  <2> QED BY <1>2, <1>7, <2>1, <2>2, <2>3 DEF SyncStartFails, Syncing
<1>6. CASE SyncJobEnds
  <2>1. sync.id \in Sources /\ (~(Live(sync.id) /\ row[sync.id].started) \/ sync.id \in unmarked)
    BY <1>6 DEF SyncJobEnds, SyncInv
  <2>2. syncJob'[sync.id] = NoJob /\ \A j \in Sources \ {sync.id} : syncJob'[j] = syncJob[j]
    BY <1>0, <1>6, <2>1 DEF SyncJobEnds, JobsTypeOK
  <2>3. UNCHANGED <<row, unmarked, doomed>> /\ sync'.step = "none"
    BY <1>6 DEF SyncJobEnds, NoSync
  <2> QED BY <1>0, <2>1, <2>2, <2>3 DEF SyncInv, GateHasJob, Live, Syncing
<1> QED BY <1>1, <1>3, <1>4, <1>5, <1>6, <1>7 DEF SyncAction

LEMMA JobsCrashStep ==
  ASSUME SourceTypeOK, SyncInv, GateHasJob, SourceCrash
  PROVE  SyncInv' /\ GateHasJob'
<1>1. UNCHANGED <<row, doomed>> /\ sync'.step = "none" /\ unmarked' = unmarked \cup LostJobs
  BY DEF SourceCrash, NoSync
<1>2. NoJob.status = "none"
  BY DEF NoJob
<1>3. SyncInv'
  BY <1>1, <1>2, CrashedJobs DEF SyncInv, Syncing
<1>4. GateHasJob'
  BY <1>1, <1>2, CrashedJobs DEF GateHasJob, Live, LostJobs
<1> QED BY <1>3, <1>4

-----------------------------------------------------------------------------
(* The content of the directory *)

ContentSafe == SourceTypeOK /\ WriterInv /\ SyncInv /\ ContentInv /\ SyncedMeansWhole

\* new settings are noted as not read yet
LEMMA SettingsAreNoted ==
  ASSUME SourceTypeOK, WriterInv, SyncInv, WriterAction
  PROVE  \A i \in Sources : Live(i)' /\ Live(i) =>
           /\ row'[i].settings = row[i].settings \/ i \in behind'
           /\ i \in behind => i \in behind'
<1>0. RowsTypeOK
  BY SourceTypeParts
<1> SUFFICES ASSUME NEW i \in Sources, Live(i)', Live(i)
             PROVE  /\ row'[i].settings = row[i].settings \/ i \in behind'
                    /\ i \in behind => i \in behind'
  OBVIOUS
<1>1. CASE \E j \in Sources : \E git \in BOOLEAN : CreateSource(j, git)
  <2>1. PICK j \in Sources, git \in BOOLEAN : CreateSource(j, git)
    BY <1>1
  <2>2. j # i
    BY <2>1 DEF CreateSource
  <2> QED BY <1>0, <2>1, <2>2 DEF CreateSource, RowsTypeOK
<1>2. CASE \E j \in Sources, settings \in Settings : EditsSource(j, settings) \/ PutsSource(j, settings)
  <2>1. PICK j \in Sources, settings \in Settings : UpdateSource(j, settings)
    BY <1>2 DEF EditsSource, PutsSource
  <2>2. row' = [row EXCEPT ![j].settings = settings]
    BY <2>1 DEF UpdateSource
  <2>3. behind \subseteq behind' /\ (settings = row[j].settings \/ j \in behind')
    BY <2>1 DEF UpdateSource
  <2> QED BY <1>0, <2>2, <2>3 DEF RowsTypeOK, RowRecord
<1>3. CASE RemoveRow
  <2>1. writer.id # i
    BY <1>0, <1>3 DEF RemoveRow, WriterInv, Live, GoneRow, NoRow, RowsTypeOK
  <2> QED BY <1>0, <1>3, <2>1 DEF RemoveRow, RowsTypeOK
<1>4. CASE EnsureSchedule \/ CreateFails \/ RemoveDirectory \/ \E j \in Sources : DeleteSource(j)
  BY <1>4 DEF EnsureSchedule, CreateFails, RemoveDirectory, DeleteSource
<1> QED BY <1>1, <1>2, <1>3, <1>4 DEF WriterAction

\* the directory is removed only of a source that is there and doomed
LEMMA WriterSparesContent ==
  ASSUME SourceTypeOK, WriterInv, SyncInv, WriterAction
  PROVE  /\ dir' = dir \/ \A i \in Sources \ doomed : ~Live(i)
         /\ \A i \in Sources : Live(i)' /\ i \notin doomed' => i \notin doomed
         /\ \A i \in Sources : Live(i)' /\ row[i].state # "none" => Live(i)
<1>0. RowsTypeOK
  BY SourceTypeParts
<1>1. dir' = dir \/ \A i \in Sources \ doomed : ~Live(i)
  <2>1. CASE RemoveDirectory
    BY <2>1 DEF RemoveDirectory, WriterInv
  <2>2. ASSUME NEW i \in Sources,
               \/ \E git \in BOOLEAN : CreateSource(i, git)
               \/ \E settings \in Settings : EditsSource(i, settings) \/ PutsSource(i, settings)
               \/ DeleteSource(i)
        PROVE  dir' = dir
    <3>1. ASSUME NEW git \in BOOLEAN, CreateSource(i, git) PROVE dir' = dir
      BY <3>1 DEF CreateSource
    <3>2. ASSUME NEW settings \in Settings, UpdateSource(i, settings) PROVE dir' = dir
      BY <3>2 DEF UpdateSource
    <3>3. CASE DeleteSource(i)
      BY <3>3 DEF DeleteSource
    <3> QED BY <2>2, <3>1, <3>2, <3>3 DEF EditsSource, PutsSource
  <2>3. CASE EnsureSchedule \/ CreateFails \/ RemoveRow
    BY <2>3 DEF EnsureSchedule, CreateFails, RemoveRow
  <2> QED BY <2>1, <2>2, <2>3 DEF WriterAction
<1>2. ASSUME NEW i \in Sources, Live(i)' PROVE (i \notin doomed' => i \notin doomed) /\ (row[i].state # "none" => Live(i))
  <2>1. CASE RemoveRow
    <3>1. writer.id # i
      BY <1>0, <1>2, <2>1 DEF RemoveRow, WriterInv, Live, GoneRow, NoRow, RowsTypeOK
    <3> QED BY <1>0, <1>2, <2>1, <3>1 DEF RemoveRow, Live, RowsTypeOK
  <2>2. CASE \E j \in Sources : \E git \in BOOLEAN : CreateSource(j, git)
    <3>1. PICK j \in Sources, git \in BOOLEAN : CreateSource(j, git)
      BY <2>2
    <3> QED BY <1>0, <1>2, <3>1 DEF CreateSource, Live, RowsTypeOK, NoRow
  <2>3. CASE \E j \in Sources, settings \in Settings : UpdateSource(j, settings)
    <3>1. PICK j \in Sources, settings \in Settings : UpdateSource(j, settings)
      BY <2>3
    <3> QED BY <1>0, <1>2, <3>1 DEF UpdateSource, Live, RowsTypeOK, RowRecord
  <2>4. CASE EnsureSchedule \/ CreateFails \/ RemoveDirectory \/ \E j \in Sources : DeleteSource(j)
    BY <1>2, <2>4 DEF EnsureSchedule, CreateFails, RemoveDirectory, DeleteSource, Live
  <2> QED BY <2>1, <2>2, <2>3, <2>4 DEF WriterAction, EditsSource, PutsSource
<1> QED BY <1>1, <1>2

\* no operation on a source that stays clears its gate
LEMMA StartsStay ==
  ASSUME SourceTypeOK, WriterInv, WriterAction
  PROVE  \A i \in Sources : Live(i) /\ Live(i)' => row'[i].started = row[i].started
<1>0. RowsTypeOK
  BY SourceTypeParts
<1> SUFFICES ASSUME NEW i \in Sources, Live(i), Live(i)' PROVE row'[i].started = row[i].started
  OBVIOUS
<1>1. CASE \E j \in Sources : \E git \in BOOLEAN : CreateSource(j, git)
  <2>1. PICK j \in Sources, git \in BOOLEAN : CreateSource(j, git)
    BY <1>1
  <2> QED BY <1>0, <2>1 DEF CreateSource, RowsTypeOK
<1>2. CASE \E j \in Sources, settings \in Settings : EditsSource(j, settings) \/ PutsSource(j, settings)
  <2>1. PICK j \in Sources, settings \in Settings : UpdateSource(j, settings)
    BY <1>2 DEF EditsSource, PutsSource
  <2> QED BY <1>0, <2>1 DEF UpdateSource, RowsTypeOK, RowRecord
<1>3. CASE RemoveRow
  BY <1>0, <1>3 DEF RemoveRow, WriterInv, Live, GoneRow, NoRow, RowsTypeOK
<1>4. CASE EnsureSchedule \/ CreateFails \/ RemoveDirectory \/ \E j \in Sources : DeleteSource(j)
  BY <1>4 DEF EnsureSchedule, CreateFails, RemoveDirectory, DeleteSource
<1> QED BY <1>1, <1>2, <1>3, <1>4 DEF WriterAction

LEMMA ContentWriterStep == ASSUME ContentSafe, WriterAction PROVE ContentInv' /\ SyncedMeansWhole'
<1>0. SourceTypeOK /\ WriterInv /\ SyncInv /\ ContentInv /\ SyncedMeansWhole /\ sync' = sync
  BY WriterEffects DEF ContentSafe
<1>1. ASSUME sync.step \in Syncing, Live(sync.id)'
      PROVE  Live(sync.id) /\ sync.id \in Sources
  BY <1>0, <1>1, WriterSparesContent DEF SyncInv, Syncing
<1>2. ASSUME sync.step \in Syncing, Live(sync.id)' PROVE row'[sync.id].started
  BY <1>0, <1>1, <1>2, StartsStay DEF ContentInv
<1>3. ASSUME sync.step \in Syncing, Undisturbed'
      PROVE  /\ Undisturbed /\ dir' = dir
             /\ row'[sync.id].settings = sync.settings \/ sync.id \in behind'
  <2>1. Live(sync.id)' /\ sync.id \notin doomed'
    BY <1>0, <1>3 DEF Undisturbed, Live
  <2>2. Live(sync.id) /\ sync.id \in Sources /\ sync.id \notin doomed
    BY <1>0, <1>1, <1>3, <2>1, WriterSparesContent
  <2>3. dir' = dir
    BY <1>0, <2>2, WriterSparesContent
  <2> QED BY <1>0, <1>3, <2>1, <2>2, <2>3, SettingsAreNoted DEF ContentInv, Undisturbed
<1>4. ContentInv'
  <2>1. sync.step \in Syncing => \A i \in Sources \ {sync.id} : ~(Live(i)' /\ row'[i].synced)
    BY <1>0, WriterEffects DEF ContentInv
  <2>2. sync'.step \in Syncing /\ row'[sync'.id].state = "live" => row'[sync'.id].started
    BY <1>0, <1>2 DEF Live
  <2> QED BY <1>0, <1>3, <2>1, <2>2 DEF ContentInv, Syncing, Live
<1>5. SyncedMeansWhole'
  <2> SUFFICES ASSUME NEW i \in Sources, i \notin doomed', Live(i)', row'[i].synced, ~row'[i].started,
                      i \notin behind'
               PROVE  dir' = Whole(i, row'[i].settings)
    BY DEF SyncedMeansWhole
  <2>1. Live(i) /\ row[i].synced /\ i \notin doomed /\ dir' = dir
    BY <1>0, WriterEffects, WriterSparesContent
  <2>2. ~row[i].started
    BY <1>0, <2>1, StartsStay
  <2>3. row'[i].settings = row[i].settings /\ i \notin behind
    BY <1>0, <2>1, SettingsAreNoted
  <2> QED BY <1>0, <2>1, <2>2, <2>3 DEF SyncedMeansWhole
<1> QED BY <1>4, <1>5

LEMMA ContentTriggerStep == ASSUME ContentSafe, TriggerAction PROVE ContentInv' /\ SyncedMeansWhole'
<1>1. UNCHANGED <<row, doomed, dir, sync, behind>>
  BY DEF TriggerAction, PostsSync, WebhookSync, Resyncs, ResyncRefused, ScheduledSync, TriggerSync
<1> QED BY <1>1 DEF ContentSafe, ContentInv, SyncedMeansWhole, Undisturbed, Live

LEMMA ContentSyncStep == ASSUME ContentSafe, SyncAction PROVE ContentInv' /\ SyncedMeansWhole'
<1>0. SourceTypeOK /\ WriterInv /\ SyncInv /\ ContentInv /\ SyncedMeansWhole /\ RowsTypeOK /\ JobsTypeOK
  BY SourceTypeParts DEF ContentSafe
<1>1. ASSUME UNCHANGED <<row, doomed, dir, behind>>, sync'.step \notin Syncing
      PROVE  ContentInv' /\ SyncedMeansWhole'
  BY <1>0, <1>1 DEF ContentInv, SyncedMeansWhole, Syncing, Live
<1>2. CASE SyncJobEnds \/ \E i \in Sources : ClaimSync(i)
  <2>1. UNCHANGED <<row, doomed, dir, behind>>
    BY <1>2 DEF SyncJobEnds, ClaimSync
  <2>2. sync'.step \notin Syncing
    <3>1. CASE SyncJobEnds
      BY <3>1 DEF SyncJobEnds, NoSync, Syncing
    <3>2. CASE \E i \in Sources : ClaimSync(i)
      BY <3>2 DEF ClaimSync, NoSync, Syncing
    <3> QED BY <1>2, <3>1, <3>2
  <2> QED BY <1>1, <2>1, <2>2
<1>3. ASSUME SyncStarts \/ SyncStartFails
      PROVE  /\ sync.id \in Sources /\ sync.step = "read" /\ sync'.id = sync.id
             /\ \A i \in Sources : /\ row'[i].state = row[i].state /\ row'[i].settings = row[i].settings
                                   /\ row'[i].synced = row[i].synced
                                   /\ row[i].started => row'[i].started
                                   /\ i # sync.id => row'[i] = row[i]
             /\ UNCHANGED <<doomed, dir>>
             /\ behind \ {sync.id} \subseteq behind'
  <2>1. sync.id \in Sources /\ sync.step = "read" /\ row[sync.id].synced \in BOOLEAN
    BY <1>0, <1>3 DEF SyncStarts, SyncStartFails, SyncInv, RowsTypeOK, RowRecord
  <2>2. sync'.id = sync.id
    BY <1>0, <1>3 DEF SyncStarts, SyncStartFails, Syncs, JobsTypeOK, SyncRecord
  <2>3. \A i \in Sources : /\ row'[i].state = row[i].state /\ row'[i].settings = row[i].settings
                           /\ row'[i].synced = row[i].synced
                           /\ row[i].started => row'[i].started
                           /\ i # sync.id => row'[i] = row[i]
    <3>1. CASE UNCHANGED row
      BY <3>1
    <3>2. CASE Marked(TRUE, row[sync.id].synced)
      BY <1>0, <2>1, <3>2, MarkedRow
    <3> QED BY <1>3, <3>1, <3>2 DEF SyncStarts, SyncStartFails
  <2> QED BY <1>3, <2>1, <2>2, <2>3 DEF SyncStarts, SyncStartFails
<1>4. CASE SyncStarts
  <2>1. /\ sync'.settings = row[sync.id].settings /\ sync'.step = (IF Live(sync.id) THEN "begin" ELSE "over")
        /\ behind' = behind \ {sync.id}
    BY <1>0, <1>4 DEF SyncStarts, JobsTypeOK, SyncRecord
  <2>2. Live(sync.id) => row'[sync.id].started
    <3>1. sync.id \in Sources /\ row[sync.id].synced \in BOOLEAN
      BY <1>0, <1>3, <1>4 DEF RowsTypeOK, RowRecord
    <3>2. Marked(TRUE, row[sync.id].synced)
      BY <1>4 DEF SyncStarts
    <3> QED BY <1>0, <3>1, <3>2, MarkedRow
  <2>3. ContentInv'
    BY <1>0, <1>3, <1>4, <2>1, <2>2 DEF ContentInv, WriterInv, Undisturbed, Live, Syncing
  <2>4. SyncedMeansWhole'
    BY <1>0, <1>3, <1>4, <2>1, <2>2 DEF SyncedMeansWhole, Live
  <2> QED BY <2>3, <2>4
<1>5. CASE SyncStartFails
  <2>1. sync'.step = "over" /\ behind' = behind
    BY <1>0, <1>5 DEF SyncStartFails, Syncs, JobsTypeOK, SyncRecord
  <2>2. ContentInv'
    BY <2>1 DEF ContentInv, Syncing
  <2>3. SyncedMeansWhole'
    BY <1>0, <1>3, <1>5, <2>1 DEF SyncedMeansWhole, Live
  <2> QED BY <2>2, <2>3
<1>6. CASE WorksOnDirectory
  <2>1. sync.step \in Syncing
    BY <1>6 DEF WorksOnDirectory, SyncBegins, CloneEnds, CloneMoves, CheckoutEnds, Syncing
  <2>2. \E step \in Syncing : Syncs(step)
    BY <1>6 DEF WorksOnDirectory, SyncBegins, CloneEnds, CloneMoves, CheckoutEnds, Syncing
  <2>3. sync'.id = sync.id /\ sync'.settings = sync.settings /\ sync'.step \in Syncing
    BY <1>0, <2>2 DEF Syncs, JobsTypeOK, SyncRecord
  <2>4. UNCHANGED <<row, syncJob, doomed, resync, behind>>
    BY <1>6 DEF WorksOnDirectory, SyncBegins, CloneEnds, CloneMoves, CheckoutEnds
  <2>5. sync'.step = "checkout" => dir' = Partial
    BY <1>0, <1>6 DEF WorksOnDirectory, SyncBegins, CloneEnds, CloneMoves, CheckoutEnds, Syncs, JobsTypeOK, SyncRecord
  <2>6. sync'.step = "done" /\ Undisturbed => dir' = Whole(sync.id, sync.settings)
    BY <1>0, <1>6 DEF WorksOnDirectory, SyncBegins, CloneEnds, CloneMoves, CheckoutEnds, Syncs, JobsTypeOK, SyncRecord,
         ContentInv
  <2>7. ContentInv'
    BY <1>0, <2>1, <2>3, <2>4, <2>5, <2>6 DEF ContentInv, Undisturbed, Live, Whole
  <2>8. SyncedMeansWhole'
    BY <1>0, <2>1, <2>4 DEF ContentInv, SyncedMeansWhole, Live
  <2> QED BY <2>7, <2>8
<1>7. CASE SyncEnds
  <2>1. sync.id \in Sources /\ sync.step \in {"done", "failed"} /\ sync.step \in Syncing
    BY <1>0, <1>7 DEF SyncEnds, SyncInv, Syncing
  <2>2. sync'.id = sync.id /\ sync'.step = "over"
    BY <1>0, <1>7 DEF SyncEnds, Syncs, JobsTypeOK, SyncRecord
  <2>3. /\ \A i \in Sources : /\ row'[i].state = row[i].state /\ row'[i].settings = row[i].settings
                              /\ i # sync.id => row'[i] = row[i]
        /\ Live(sync.id) /\ row'[sync.id].synced /\ ~row'[sync.id].started => sync.step = "done"
    <3>1. CASE UNCHANGED row
      BY <1>0, <2>1, <3>1 DEF ContentInv
    <3>2. CASE \E synced \in {FALSE, sync.step = "done"} : Marked(FALSE, synced)
      BY <1>0, <2>1, <3>2, MarkedRow
    <3> QED BY <1>7, <3>1, <3>2 DEF SyncEnds
  <2>4. UNCHANGED <<syncJob, doomed, dir, resync, behind>>
    BY <1>7 DEF SyncEnds
  <2>5. ContentInv'
    BY <2>2 DEF ContentInv, Syncing
  <2>6. SyncedMeansWhole'
    <3> SUFFICES ASSUME NEW i \in Sources, i \notin doomed', Live(i)', row'[i].synced, ~row'[i].started,
                        i \notin behind'
                 PROVE  dir' = Whole(i, row'[i].settings)
      BY DEF SyncedMeansWhole
    <3>1. CASE i = sync.id
      <4>1. sync.step = "done" /\ Undisturbed
        BY <2>3, <2>4, <3>1 DEF Undisturbed, Live
      <4>2. dir = Whole(i, sync.settings) /\ row[i].settings = sync.settings
        BY <1>0, <2>4, <3>1, <4>1 DEF ContentInv, Syncing
      <4> QED BY <2>3, <2>4, <4>2
    <3>2. CASE i # sync.id
      BY <1>0, <2>3, <2>4, <3>2 DEF SyncedMeansWhole, Live
    <3> QED BY <3>1, <3>2
  <2> QED BY <2>5, <2>6
<1> QED BY <1>2, <1>4, <1>5, <1>6, <1>7 DEF SyncAction

LEMMA ContentCrashStep == ASSUME ContentSafe, SourceCrash PROVE ContentInv' /\ SyncedMeansWhole'
<1>1. UNCHANGED <<row, doomed, dir, behind>> /\ sync'.step = "none"
  BY DEF SourceCrash, NoSync
<1> QED BY <1>1 DEF ContentSafe, ContentInv, SyncedMeansWhole, Syncing, Live

-----------------------------------------------------------------------------
LEMMA SourceInitInv == SourceInit => SourceInv
<1> SUFFICES ASSUME SourceInit PROVE SourceInv
  OBVIOUS
<1> USE DEF SourceInit
<1>1. RowsTypeOK /\ JobsTypeOK /\ dir \in DirRecords
  BY RecordsFit DEF RowsTypeOK, JobsTypeOK, DirRecords
<1>2. \A i \in Sources : ~Live(i) /\ schedule[i] = "none" /\ syncJob[i] = NoJob
  BY DEF Live, NoRow
<1>3. writer.step = "free" /\ sync.step = "none"
  BY DEF Free, NoSync
<1> QED BY <1>1, <1>2, <1>3, SourceTypeParts
        DEF SourceInv, WriterInv, SyncInv, ScheduleHasSource, GateHasJob, ContentInv, SyncedMeansWhole, Syncing

LEMMA SourceStepInv == SourceInv /\ [SourceNext]_sourceVars => SourceInv'
<1> SUFFICES ASSUME SourceInv, [SourceNext]_sourceVars PROVE SourceInv'
  OBVIOUS
<1>0. ContentSafe /\ GateHasJob /\ ScheduleHasSource
  BY DEF SourceInv, ContentSafe
<1>1. CASE SourceNext
  <2>1. WriterAction \/ TriggerAction \/ SyncAction \/ SourceCrash
    BY <1>1, SourceNextSplits
  <2>2. SourceTypeOK'
    BY <1>0, <2>1, WriterTypes, TriggerTypes, SyncTypes, CrashTypes DEF ContentSafe
  <2>3. WriterInv' /\ ScheduleHasSource'
    BY <1>0, <2>1, WriterInvStep DEF ContentSafe
  <2>4. SyncInv' /\ GateHasJob'
    BY <1>0, <2>1, JobsWriterStep, JobsTriggerStep, JobsSyncStep, JobsCrashStep DEF ContentSafe
  <2>5. ContentInv' /\ SyncedMeansWhole'
    BY <1>0, <2>1, ContentWriterStep, ContentTriggerStep, ContentSyncStep, ContentCrashStep
  <2> QED BY <2>2, <2>3, <2>4, <2>5 DEF SourceInv
<1>2. CASE UNCHANGED sourceVars
  <2> USE <1>2 DEF sourceVars, SourceInv
  <2>1. SourceTypeOK'
    BY DEF SourceTypeOK
  <2>2. WriterInv' /\ ScheduleHasSource' /\ SyncInv' /\ GateHasJob'
    BY DEF WriterInv, ScheduleHasSource, SyncInv, GateHasJob, Live
  <2>3. ContentInv' /\ SyncedMeansWhole'
    BY DEF ContentInv, SyncedMeansWhole, Undisturbed, Live
  <2> QED BY <2>1, <2>2, <2>3
<1> QED BY <1>1, <1>2

LEMMA SourceInvariant == SourceSpec => []SourceInv
<1>1. SourceInit => SourceInv
  BY SourceInitInv
<1>2. SourceInv /\ [SourceNext]_sourceVars => SourceInv'
  BY SourceStepInv
<1> QED BY <1>1, <1>2, PTL DEF SourceSpec

\* Rows, schedules, jobs, directory and the operations on them keep their types
\* (code_source_service.ts, git_code_source_provider.ts).
THEOREM SourcesTypeCorrect == SourceSpec => []SourceTypeOK
<1>1. SourceInv => SourceTypeOK
  BY DEF SourceInv
<1> QED BY <1>1, SourceInvariant, PTL

\* No schedule is left of a source that is gone, for any number of sources that follow each
\* other, and wherever the process dies, except of one whose delete() failed to delete it.
THEOREM SchedulesHaveSources == SourceSpec => []ScheduleHasSource
<1>1. SourceInv => ScheduleHasSource
  BY DEF SourceInv
<1> QED BY <1>1, SourceInvariant, PTL

\* A source whose sync is marked as started has a job that will end it, unless the source is
\* being deleted or its last job ended without marking the end, given up after a second crash
\* or left by an UPDATE that failed, for any number of sources, syncs and crashes.
THEOREM GatesHaveJobs == SourceSpec => []GateHasJob
<1>1. SourceInv => GateHasJob
  BY DEF SourceInv
<1> QED BY <1>1, SourceInvariant, PTL

\* A source that shows a completed sync, and none under way, has its own content at its
\* present settings, unless no sync has read those yet, though sources that had its name, and
\* syncs that outlive them, use the same directory.
THEOREM SyncedSourcesAreWhole == SourceSpec => []SyncedMeansWhole
<1>1. SourceInv => SyncedMeansWhole
  BY DEF SourceInv
<1> QED BY <1>1, SourceInvariant, PTL

=============================================================================
