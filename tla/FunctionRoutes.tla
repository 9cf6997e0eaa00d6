--------------------------- MODULE FunctionRoutes ---------------------------
(***************************************************************************)
(* From a function definition to the code that answers a request:          *)
(* FunctionsService writes the table functionDef and marks the router      *)
(* dirty, a request rebuilds the router before it is dispatched, its key   *)
(* is looked up, and HandlerLoader serves the handler from its cache while *)
(* the time of the file has not changed.                                   *)
(*                                                                         *)
(* Definitions contend for the paths and share one handler file; writes of *)
(* the table, and of the file, are counted.  Writes of the file have       *)
(* distinct times and imports distinct URLs.                               *)
(***************************************************************************)
EXTENDS Naturals, FiniteSets

CONSTANTS
  Requests,
  Functions,
  Paths,          \* normalized routes, of one method
  MaxWrites,      \* bound: committed writes of functionDef
  MaxFileWrites   \* bound: writes of the handler file

ASSUME RoutesAssumption == MaxWrites \in Nat /\ MaxFileWrites \in Nat

VARIABLES
  functionDef,   \* the table
  writes,        \* committed: writes of the table; answered: those whose caller has returned
  dirty, rebuildMutex,
  fetched,       \* what getAll() has returned to the holder of the lock
  router,        \* the definitions it was built from, after how many writes
  handlerFile,   \* the write that it has, 0 when there is no file
  fileWrites,
  handlerCache,  \* the write whose time it has, and the write whose code it has
  request

routesVars == <<functionDef, writes, dirty, rebuildMutex, fetched, router, handlerFile,
                fileWrites, handlerCache, request>>

tableVars   == <<functionDef, writes, dirty, rebuildMutex, fetched, router>>
handlerVars == <<handlerFile, fileWrites, handlerCache>>

NoDef    == [route |-> "none", enabled |-> FALSE]
Defs     == [route : {"none"} \cup Paths, enabled : BOOLEAN]
Unlocked == [by |-> "none", step |-> "free"]
NoRouter == [defs |-> [f \in Functions |-> NoDef], built |-> 0]
Quiet    == [step |-> "none", after |-> 0, time |-> 0, code |-> 0]

RoutesTypeOK ==
  /\ functionDef \in [Functions -> Defs] /\ dirty \in BOOLEAN
  /\ writes \in [committed : 0..MaxWrites, answered : 0..MaxWrites]
  /\ rebuildMutex \in [by : {"none"} \cup Functions \cup Requests,
                       step : {"free", "add", "update", "enable", "disable", "remove",
                               "written", "marked", "getAll", "rebuild"}]
  /\ {router, fetched} \subseteq [defs : [Functions -> Defs], built : 0..MaxWrites]
  /\ handlerFile \in 0..MaxFileWrites /\ fileWrites \in 0..MaxFileWrites
  /\ handlerCache \in [time : 0..MaxFileWrites, code : 0..MaxFileWrites]
  /\ request \in [Requests -> [step : {"none", "waiting", "checked", "stat", "import", "store", "run"},
                               after : 0..MaxWrites, time : 0..MaxFileWrites, code : 0..MaxFileWrites]]

RoutesInit ==
  /\ functionDef = [f \in Functions |-> NoDef] /\ writes = [committed |-> 0, answered |-> 0]
  /\ dirty = TRUE /\ rebuildMutex = Unlocked /\ router = NoRouter /\ fetched = NoRouter
  /\ handlerFile = 0 /\ fileWrites = 0 /\ handlerCache = [time |-> 0, code |-> 0]
  /\ request = [r \in Requests |-> Quiet]

-----------------------------------------------------------------------------
(* Writes, one at a time.  What a handler looked up may be gone when it has the lock. *)

WriteBegins(f, op) ==
  /\ rebuildMutex = Unlocked /\ rebuildMutex' = [by |-> f, step |-> op]
  /\ UNCHANGED <<functionDef, writes, dirty, fetched, router, handlerVars, request>>

PostsFunction(f)   == functionDef[f] = NoDef /\ WriteBegins(f, "add")
CreatesFunction(f) == functionDef[f] = NoDef /\ WriteBegins(f, "add")

\* the page looks for the definition, the API leaves that to the service
EditsFunction(f) == functionDef[f] # NoDef /\ WriteBegins(f, "update")
PutsFunction(f)  == WriteBegins(f, "update")

EnablesFunction(f)  == WriteBegins(f, "enable")
DisablesFunction(f) == WriteBegins(f, "disable")

\* here the API looks for it, and the page needs its name only
DeletesFunction(f) == functionDef[f] # NoDef /\ WriteBegins(f, "remove")
RemovesFunction(f) == WriteBegins(f, "remove")

\* check_route_method_overlap, for which a disabled definition counts as well
Collides(f, route) == \E g \in Functions \ {f} : functionDef[g].route = route

Commits(f, op, def) ==
  /\ rebuildMutex = [by |-> f, step |-> op] /\ writes.committed < MaxWrites
  /\ functionDef' = [functionDef EXCEPT ![f] = def]
  /\ writes' = [writes EXCEPT !.committed = @ + 1]
  /\ rebuildMutex' = [rebuildMutex EXCEPT !.step = "written"]
  /\ UNCHANGED <<dirty, fetched, router, handlerVars, request>>

AddFunction(f, route) ==
  ~Collides(f, route) /\ Commits(f, "add", [route |-> route, enabled |-> TRUE])

UpdateFunction(f, route) ==
  /\ functionDef[f] # NoDef /\ ~Collides(f, route)
  /\ Commits(f, "update", [functionDef[f] EXCEPT !.route = route])

SetFunctionEnabled(f) ==
  /\ functionDef[f] # NoDef
  /\ \/ Commits(f, "enable", [functionDef[f] EXCEPT !.enabled = TRUE])
     \/ Commits(f, "disable", [functionDef[f] EXCEPT !.enabled = FALSE])

RemoveFunctionById(f) == functionDef[f] # NoDef /\ Commits(f, "remove", NoDef)

MarkDirty ==
  /\ rebuildMutex.step = "written" /\ dirty' = TRUE
  /\ rebuildMutex' = [rebuildMutex EXCEPT !.step = "marked"]
  /\ UNCHANGED <<functionDef, writes, fetched, router, handlerVars, request>>

\* the definition was read again: the caller returns
WriteReturns ==
  /\ rebuildMutex.step = "marked" /\ rebuildMutex' = Unlocked
  /\ writes' = [writes EXCEPT !.answered = writes.committed]
  /\ UNCHANGED <<functionDef, dirty, fetched, router, handlerVars, request>>

\* nothing to remove, not found, a collision or a query that fails; after the commit, an answer that was lost
WriteThrows ==
  /\ rebuildMutex.by \in Functions /\ rebuildMutex' = Unlocked
  /\ UNCHANGED <<functionDef, writes, dirty, fetched, router, handlerVars, request>>

-----------------------------------------------------------------------------
(* rebuildIfNeeded() *)

Goes(r, step) == request' = [request EXCEPT ![r].step = step]
Answered(r)   == request' = [request EXCEPT ![r] = Quiet]

Arrives(r) ==
  /\ request[r].step = "none"
  /\ request' = [request EXCEPT ![r] = [Quiet EXCEPT !.step = IF dirty THEN "waiting" ELSE "checked",
                                                     !.after = writes.answered]]
  /\ UNCHANGED <<tableVars, handlerVars>>

\* mutant of AcquiresForRebuild: the flag is cleared before the rebuild
AcquiresClearing(r) ==
  /\ request[r].step = "waiting" /\ rebuildMutex = Unlocked /\ dirty' = FALSE
  /\ IF dirty THEN rebuildMutex' = [by |-> r, step |-> "getAll"] /\ UNCHANGED request
     ELSE Goes(r, "checked") /\ UNCHANGED rebuildMutex
  /\ UNCHANGED <<functionDef, writes, fetched, router, handlerVars>>

\* the flag is read again under the lock
AcquiresForRebuild(r) ==
  /\ request[r].step = "waiting" /\ rebuildMutex = Unlocked
  /\ IF dirty THEN rebuildMutex' = [by |-> r, step |-> "getAll"] /\ UNCHANGED request
     ELSE Goes(r, "checked") /\ UNCHANGED rebuildMutex
  /\ UNCHANGED <<functionDef, writes, dirty, fetched, router, handlerVars>>

GetAll(r) ==
  /\ rebuildMutex = [by |-> r, step |-> "getAll"]
  /\ fetched' = [defs |-> functionDef, built |-> writes.committed]
  /\ rebuildMutex' = [rebuildMutex EXCEPT !.step = "rebuild"]
  /\ UNCHANGED <<functionDef, writes, dirty, router, handlerVars, request>>

Rebuilt(r) ==
  /\ rebuildMutex = [by |-> r, step |-> "rebuild"] /\ router' = fetched /\ fetched' = NoRouter
  /\ dirty' = FALSE /\ rebuildMutex' = Unlocked /\ Goes(r, "checked")
  /\ UNCHANGED <<functionDef, writes, handlerVars>>

\* getAll() throws: the request fails, and the next one rebuilds
RebuildFails(r) ==
  /\ rebuildMutex = [by |-> r, step |-> "getAll"] /\ rebuildMutex' = Unlocked /\ Answered(r)
  /\ UNCHANGED <<functionDef, writes, dirty, fetched, router, handlerVars>>

\* buildRouter() leaves disabled definitions out: a path of theirs is answered with 404, and a
\* request whose key is in no group of the definition with 401
Dispatches(r) ==
  /\ request[r].step = "checked"
  /\ \/ /\ \E f \in Functions : router.defs[f].enabled
        /\ request' = [request EXCEPT ![r] = [Quiet EXCEPT !.step = "stat"]]
     \/ Answered(r)
  /\ UNCHANGED <<tableVars, handlerVars>>

-----------------------------------------------------------------------------
(* createHandler() and HandlerLoader.load() *)

\* no file: HandlerNotFoundError; the time that the cache has: its handler
Stats(r) ==
  /\ request[r].step = "stat"
  /\ IF handlerFile = 0 THEN Answered(r)
     ELSE request' = [request EXCEPT ![r].time = handlerFile,
                        ![r].step = IF handlerCache.time = handlerFile THEN "run" ELSE "import",
                        ![r].code = IF handlerCache.time = handlerFile THEN handlerCache.code ELSE 0]
  /\ UNCHANGED <<tableVars, handlerVars>>

Imports(r) ==
  /\ request[r].step = "import"
  /\ \/ /\ handlerFile # 0
        /\ request' = [request EXCEPT ![r].step = "store", ![r].code = handlerFile]
     \/ Answered(r)  \* HandlerSyntaxError, HandlerExportError or HandlerLoadError
  /\ UNCHANGED <<tableVars, handlerVars>>

\* mutant of Stores: with the time that the file has now
StoresLateTime(r) ==
  /\ request[r].step = "store" /\ Goes(r, "run")
  /\ handlerCache' = [time |-> handlerFile, code |-> request[r].code]
  /\ UNCHANGED <<tableVars, handlerFile, fileWrites>>

\* the cache gets the time that was read before the import
Stores(r) ==
  /\ request[r].step = "store" /\ Goes(r, "run")
  /\ handlerCache' = [time |-> request[r].time, code |-> request[r].code]
  /\ UNCHANGED <<tableVars, handlerFile, fileWrites>>

\* the handler returns or throws, and its metric is stored
Runs(r) ==
  /\ request[r].step = "run" /\ Answered(r)
  /\ UNCHANGED <<tableVars, handlerVars>>

WritesFile ==
  /\ fileWrites < MaxFileWrites /\ fileWrites' = fileWrites + 1 /\ handlerFile' = fileWrites + 1
  /\ UNCHANGED <<tableVars, handlerCache, request>>

RemovesFile ==
  /\ handlerFile # 0 /\ handlerFile' = 0 /\ UNCHANGED <<tableVars, fileWrites, handlerCache, request>>

RoutesNext ==
  \/ \E f \in Functions :
       \/ PostsFunction(f) \/ CreatesFunction(f) \/ EditsFunction(f) \/ PutsFunction(f)
       \/ EnablesFunction(f) \/ DisablesFunction(f) \/ DeletesFunction(f) \/ RemovesFunction(f)
       \/ SetFunctionEnabled(f) \/ RemoveFunctionById(f)
       \/ \E route \in Paths : AddFunction(f, route) \/ UpdateFunction(f, route)
  \/ MarkDirty \/ WriteReturns \/ WriteThrows
  \/ \E r \in Requests : Arrives(r) \/ AcquiresForRebuild(r) \/ GetAll(r) \/ Rebuilt(r)
       \/ RebuildFails(r) \/ Dispatches(r) \/ Stats(r) \/ Imports(r) \/ Stores(r) \/ Runs(r)
  \/ WritesFile \/ RemovesFile

RoutesSpec == RoutesInit /\ [][RoutesNext]_routesVars

-----------------------------------------------------------------------------
\* A request that arrives after a write of functionDef has returned is dispatched by a
\* router that has the write, however rebuilds, other writes and requests interleave.
RequestSeesWrites ==
  \A r \in Requests : request[r].step = "checked" => router.built >= request[r].after

\* The handler that runs is at least as new as the file was when load() looked at it, over
\* loads in flight at the same time, writes during an import and a file that was removed.
HandlerIsCurrent == \A r \in Requests : request[r].step = "run" => request[r].code >= request[r].time
=============================================================================
