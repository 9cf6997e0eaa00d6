--------------------------- MODULE KeysAndSecrets ---------------------------
(***************************************************************************)
(* ApiKeyService and SecretsService with their routes: groups of API keys, *)
(* keys, the secrets of one name in the scopes global, function, group and *)
(* key, and the lookup of that name by a handler whose request came with a *)
(* key, which reads one scope after the other.                             *)
(*                                                                         *)
(* Ids are not used again.  Values are plain: KeyRotation has ciphertexts. *)
(***************************************************************************)
EXTENDS Sequences, Naturals

CONSTANTS
  Groups,     \* bound: groups that are created
  ApiKeys,    \* bound: keys that are created
  KeyValues

ASSUME ScopesAssumption ==
  Groups \cap ApiKeys = {} /\ (Groups \cup ApiKeys) \cap {"global", "function", "none"} = {}

VARIABLES
  hasFunction,    \* whether the function exists
  apiKeyGroup,    \* by group: whether it exists
  apiKey,         \* by key: its group and value
  secret,         \* the scopes in which the name has a value
  keyRequest,     \* the group for which a page or the API is about to create a key
  keyWriter,      \* the holder of writeMutex of ApiKeyService
  groupDeletions, \* the groups that were found empty and are about to be deleted
  secretRequest,  \* the write that a page or the API asked of SecretsService
  lateSecrets,    \* scopes whose owner was gone when their value was created
  lookup          \* getSecretHierarchical() of the handler

apiKeyVars == <<apiKeyGroup, apiKey, keyRequest, keyWriter, groupDeletions>>
secretVars == <<hasFunction, secretRequest, lateSecrets>>
keysVars   == <<apiKeyVars, secretVars, secret, lookup>>

None == "none"
NoKey == [state |-> "new", group |-> None, value |-> None]
NoWriter == [step |-> "free", id |-> None, group |-> None, value |-> None]
NoRequest == [step |-> "none", op |-> "create", scope |-> "global"]
NoLookup == [state |-> "none", chain |-> <<>>, at |-> 0, stable |-> {}, found |-> None]

Scopes == {"global", "function"} \cup Groups \cup ApiKeys

KeysTypeOK ==
  /\ apiKeyGroup \in [Groups -> {"new", "live", "gone"}]
  /\ apiKey \in [ApiKeys -> [state : {"new", "live", "gone"}, group : Groups \cup {None},
                             value : KeyValues \cup {None}]]
  /\ secret \subseteq Scopes
  /\ keyWriter \in [step : {"free", "insert", "update", "keys", "group"}, id : ApiKeys \cup {None},
                    group : Groups \cup {None}, value : KeyValues \cup {None}]
  /\ groupDeletions \subseteq Groups /\ keyRequest \in Groups \cup {None}
  /\ hasFunction \in BOOLEAN /\ lateSecrets \subseteq Scopes
  /\ secretRequest \in [step : {"none", "asked", "encrypts"}, op : {"create", "update", "delete"}, scope : Scopes]
  /\ lookup \in [state : {"none", "reads", "done"}, chain : Seq(Scopes), at : 0..4,
                 stable : SUBSET Scopes, found : Scopes \cup {None}]

KeysInit ==
  /\ apiKeyGroup = [g \in Groups |-> "new"] /\ apiKey = [k \in ApiKeys |-> NoKey] /\ secret = {}
  /\ keyRequest = None /\ keyWriter = NoWriter /\ groupDeletions = {} /\ lookup = NoLookup
  /\ hasFunction = TRUE /\ secretRequest = NoRequest /\ lateSecrets = {}

Specificity(scope) ==
  CASE scope = "global" -> 1 [] scope = "function" -> 2 [] scope \in Groups -> 3 [] scope \in ApiKeys -> 4

KeysOf(g) == {k \in ApiKeys : apiKey[k].state = "live" /\ apiKey[k].group = g}

\* the scopes that had a value ever since the lookup began
SecretsBecome(scopes) ==
  /\ secret' = scopes /\ lookup' = [lookup EXCEPT !.stable = @ \cap scopes]

-----------------------------------------------------------------------------
(* Groups and keys *)

CreateGroup(g) ==
  /\ keyWriter = NoWriter /\ apiKeyGroup[g] = "new" /\ apiKeyGroup' = [apiKeyGroup EXCEPT ![g] = "live"]
  /\ UNCHANGED <<apiKey, secret, keyWriter, groupDeletions, lookup, secretVars>>

\* both look for the name first
PostsGroup(g)   == CreateGroup(g) /\ UNCHANGED keyRequest
CreatesGroup(g) == CreateGroup(g) /\ UNCHANGED keyRequest

\* the API finds the group of the new key; so does the page, or it creates the group
PostsKey(g) ==
  /\ keyRequest = None /\ apiKeyGroup[g] = "live" /\ keyRequest' = g
  /\ UNCHANGED <<apiKeyGroup, apiKey, secret, keyWriter, groupDeletions, lookup, secretVars>>

CreatesKey(g) == PostsKey(g) \/ (keyRequest = None /\ CreateGroup(g) /\ keyRequest' = g)

\* mutant of AddKeyToGroup: it trusts the page
AddKeyAsAsked(k, g, v) ==
  /\ keyWriter = NoWriter /\ keyRequest = g /\ keyRequest' = None /\ apiKey[k].state = "new"
  /\ \A other \in KeysOf(g) : apiKey[other].value # v
  /\ keyWriter' = [step |-> "insert", id |-> k, group |-> g, value |-> v]
  /\ UNCHANGED <<apiKeyGroup, apiKey, secret, groupDeletions, lookup, secretVars>>

\* the group still exists and has neither the value nor the name
AddKeyToGroup(k, g, v) ==
  /\ keyWriter = NoWriter /\ keyRequest = g /\ keyRequest' = None
  /\ apiKey[k].state = "new" /\ apiKeyGroup[g] = "live"
  /\ \A other \in KeysOf(g) : apiKey[other].value # v
  /\ keyWriter' = [step |-> "insert", id |-> k, group |-> g, value |-> v]
  /\ UNCHANGED <<apiKeyGroup, apiKey, secret, groupDeletions, lookup, secretVars>>

\* the group is gone, the name is taken, or the value is, whose key is returned
KeyRequestFails ==
  /\ keyRequest # None /\ keyRequest' = None
  /\ UNCHANGED <<apiKeyGroup, apiKey, secret, keyWriter, groupDeletions, lookup, secretVars>>

\* a value that another key of the group has is not refused
UpdateKey(k, v) ==
  /\ keyWriter = NoWriter /\ apiKey[k].state = "live"
  /\ keyWriter' = [step |-> "update", id |-> k, group |-> apiKey[k].group, value |-> v]
  /\ UNCHANGED <<apiKeyGroup, keyRequest, apiKey, secret, groupDeletions, lookup, secretVars>>

\* the value has been encrypted and hashed
WriteKey ==
  /\ keyWriter.step \in {"insert", "update"} /\ keyWriter' = NoWriter
  /\ apiKey' = [apiKey EXCEPT ![keyWriter.id] =
                  [state |-> "live", group |-> keyWriter.group, value |-> keyWriter.value]]
  /\ UNCHANGED <<apiKeyGroup, keyRequest, secret, groupDeletions, lookup, secretVars>>

\* the event delete_key_secrets goes with every key that is deleted
DeleteKeys(keys) ==
  /\ apiKey' = [k \in ApiKeys |-> IF k \in keys THEN [NoKey EXCEPT !.state = "gone"] ELSE apiKey[k]]
  /\ SecretsBecome(secret \ keys)

RemoveKeyById(k) ==
  /\ keyWriter = NoWriter /\ apiKey[k].state = "live" /\ DeleteKeys({k})
  /\ UNCHANGED <<apiKeyGroup, keyRequest, keyWriter, groupDeletions, secretVars>>

PutsKey(k, v)  == UpdateKey(k, v)

\* the API finds the key first, the page does not
DeletesKey(k)  == apiKey[k].state = "live" /\ RemoveKeyById(k)
RemovesKey(k)  == RemoveKeyById(k)

RemoveKey(g, v) ==
  /\ keyWriter = NoWriter /\ apiKeyGroup[g] = "live"
  /\ DeleteKeys({k \in KeysOf(g) : apiKey[k].value = v})
  /\ UNCHANGED <<apiKeyGroup, keyRequest, keyWriter, groupDeletions, secretVars>>

\* the route and the page, which count the keys without the mutex (a bound: one of them at a time)
ChecksGroupEmpty(g) ==
  /\ apiKeyGroup[g] = "live" /\ KeysOf(g) = {} /\ groupDeletions' = groupDeletions \cup {g}
  /\ UNCHANGED <<apiKeyGroup, keyRequest, apiKey, secret, keyWriter, lookup, secretVars>>

\* mutant of DeleteGroup: it trusts the count and deletes the group only
DeleteGroupAsCounted(g) ==
  /\ keyWriter = NoWriter /\ g \in groupDeletions /\ groupDeletions' = groupDeletions \ {g}
  /\ keyWriter' = [NoWriter EXCEPT !.step = "group", !.group = g]
  /\ UNCHANGED <<apiKeyGroup, keyRequest, apiKey, secret, lookup, secretVars>>

\* a group that got a key since then is deleted with it
DeleteGroup(g) ==
  /\ keyWriter = NoWriter /\ g \in groupDeletions /\ groupDeletions' = groupDeletions \ {g}
  /\ keyWriter' = [NoWriter EXCEPT !.step = "keys", !.group = g]
  /\ UNCHANGED <<apiKeyGroup, keyRequest, apiKey, secret, lookup, secretVars>>

DeleteGroupKeys ==
  /\ keyWriter.step = "keys" /\ DeleteKeys(KeysOf(keyWriter.group))
  /\ keyWriter' = [keyWriter EXCEPT !.step = "group"]
  /\ UNCHANGED <<apiKeyGroup, keyRequest, groupDeletions, secretVars>>

\* with the event delete_group_secrets
DeleteGroupRow ==
  /\ keyWriter.step = "group" /\ keyWriter' = NoWriter
  /\ apiKeyGroup' = [apiKeyGroup EXCEPT ![keyWriter.group] = "gone"]
  /\ SecretsBecome(secret \ {keyWriter.group})
  /\ UNCHANGED <<apiKey, keyRequest, groupDeletions, secretVars>>

KeyWriteFails ==
  /\ keyWriter # NoWriter /\ keyWriter' = NoWriter
  /\ UNCHANGED <<apiKeyGroup, keyRequest, apiKey, secret, groupDeletions, lookup, secretVars>>

-----------------------------------------------------------------------------
(* Secrets of the one name.  A page finds the owner and, to change or delete, *)
(* the secret; then it asks the service.  The API only finds the secret.       *)

\* the event delete_functionDef
DeleteFunction ==
  /\ hasFunction /\ hasFunction' = FALSE /\ SecretsBecome(secret \ {"function"})
  /\ UNCHANGED <<apiKeyVars, secretRequest, lateSecrets>>

HasOwner(scope) ==
  /\ scope = "function" => hasFunction
  /\ scope \in Groups => apiKeyGroup[scope] = "live"
  /\ scope \in ApiKeys => apiKey[scope].state = "live"

Asks(op, scope) ==
  /\ secretRequest = NoRequest /\ secretRequest' = [step |-> "asked", op |-> op, scope |-> scope]
  /\ UNCHANGED <<apiKeyVars, secret, hasFunction, lateSecrets, lookup>>

CreatesGlobalSecret == Asks("create", "global")
EditsGlobalSecret   == "global" \in secret /\ Asks("update", "global")
DeletesGlobalSecret == "global" \in secret /\ Asks("delete", "global")

CreatesFunctionSecret == HasOwner("function") /\ Asks("create", "function")
EditsFunctionSecret   == HasOwner("function") /\ "function" \in secret /\ Asks("update", "function")
DeletesFunctionSecret == HasOwner("function") /\ "function" \in secret /\ Asks("delete", "function")

CreatesGroupSecret(g) == HasOwner(g) /\ Asks("create", g)
EditsGroupSecret(g)   == HasOwner(g) /\ g \in secret /\ Asks("update", g)
DeletesGroupSecret(g) == HasOwner(g) /\ g \in secret /\ Asks("delete", g)

CreatesKeySecret(k) == HasOwner(k) /\ Asks("create", k)
EditsKeySecret(k)   == HasOwner(k) /\ k \in secret /\ Asks("update", k)
DeletesKeySecret(k) == HasOwner(k) /\ k \in secret /\ Asks("delete", k)

\* the id of an owner that is or was
PostsSecret(scope) ==
  /\ scope \in Groups => apiKeyGroup[scope] # "new"
  /\ scope \in ApiKeys => apiKey[scope].state # "new"
  /\ Asks("create", scope)

PutsSecret(scope)    == scope \in secret /\ Asks("update", scope)
RemovesSecret(scope) == scope \in secret /\ Asks("delete", scope)

Replies(step) ==
  secretRequest' = IF step = "none" THEN NoRequest ELSE [secretRequest EXCEPT !.step = step]

\* with writeMutex; an update has found the secret, and the value is encrypted
Encrypts ==
  /\ secretRequest.step = "asked" /\ secretRequest.op # "delete"
  /\ Replies(IF secretRequest.op = "update" /\ secretRequest.scope \notin secret THEN "none" ELSE "encrypts")
  /\ UNCHANGED <<apiKeyVars, secret, hasFunction, lateSecrets, lookup>>

\* mutant of WritesSecret: UPSERT, as for the settings
UpsertsSecret ==
  /\ secretRequest.step = "encrypts" /\ Replies("none")
  /\ SecretsBecome(secret \cup {secretRequest.scope})
  /\ lateSecrets' = lateSecrets \cup
       {c \in {secretRequest.scope} : secretRequest.op = "create" /\ c \notin secret /\ ~HasOwner(c)}
  /\ UNCHANGED <<apiKeyVars, hasFunction>>

\* CREATE fails at the index, and checks no reference; UPDATE changes nothing if the row is gone
WritesSecret ==
  LET created == {c \in {secretRequest.scope} : secretRequest.op = "create" /\ c \notin secret}
  IN /\ secretRequest.step = "encrypts" /\ Replies("none")
     /\ SecretsBecome(secret \cup created)
     /\ lateSecrets' = lateSecrets \cup {c \in created : ~HasOwner(c)}
     /\ UNCHANGED <<apiKeyVars, hasFunction>>

DeletesSecret ==
  /\ secretRequest.step = "asked" /\ secretRequest.op = "delete" /\ Replies("none")
  /\ SecretsBecome(secret \ {secretRequest.scope}) /\ lateSecrets' = lateSecrets \ {secretRequest.scope}
  /\ UNCHANGED <<apiKeyVars, hasFunction>>

SecretRequestFails ==
  /\ secretRequest # NoRequest /\ Replies("none")
  /\ UNCHANGED <<apiKeyVars, secret, hasFunction, lateSecrets, lookup>>

SecretStep ==
  \/ CreatesGlobalSecret \/ EditsGlobalSecret \/ DeletesGlobalSecret
  \/ CreatesFunctionSecret \/ EditsFunctionSecret \/ DeletesFunctionSecret
  \/ \E g \in Groups : CreatesGroupSecret(g) \/ EditsGroupSecret(g) \/ DeletesGroupSecret(g)
  \/ \E k \in ApiKeys : CreatesKeySecret(k) \/ EditsKeySecret(k) \/ DeletesKeySecret(k)
  \/ \E scope \in Scopes : PostsSecret(scope) \/ PutsSecret(scope) \/ RemovesSecret(scope)
  \/ Encrypts \/ WritesSecret \/ DeletesSecret \/ SecretRequestFails \/ DeleteFunction

-----------------------------------------------------------------------------
(* The lookup by a handler *)

\* the function before the group
ChainOfOld(k, g) ==
  (IF k = None THEN <<>> ELSE <<k>>) \o <<"function">> \o (IF k = None THEN <<>> ELSE <<g>>) \o <<"global">>

\* the scopes that a lookup reads, the most specific one first
Chain(k, g) ==
  (IF k = None THEN <<>> ELSE <<k, g>>) \o <<"function", "global">>

\* a request with a key, which may be gone when the handler asks, or without one
LookupBegins(k, g) ==
  /\ lookup = NoLookup
  /\ k # None => apiKey[k].state = "live" /\ apiKey[k].group = g
  /\ k = None => g = None
  /\ lookup' = [state |-> "reads", chain |-> Chain(k, g), at |-> 1,
                 stable |-> {c \in secret : \E i \in DOMAIN Chain(k, g) : Chain(k, g)[i] = c}, found |-> None]
  /\ UNCHANGED <<apiKeyVars, secretVars, secret>>

\* getSecretHierarchical() queries one scope and goes on if it has no value
ReadScope ==
  /\ lookup.state = "reads"
  /\ LET scope == lookup.chain[lookup.at] IN
     lookup' = IF scope \in secret THEN [lookup EXCEPT !.state = "done", !.found = scope]
               ELSE IF lookup.at = Len(lookup.chain) THEN [lookup EXCEPT !.state = "done"]
               ELSE [lookup EXCEPT !.at = @ + 1]
  /\ UNCHANGED <<apiKeyVars, secretVars, secret>>

LookupEnds ==
  /\ lookup.state = "done" /\ lookup' = NoLookup
  /\ UNCHANGED <<apiKeyVars, secretVars, secret>>

KeysNext ==
  \/ \E g \in Groups : PostsGroup(g) \/ CreatesGroup(g) \/ PostsKey(g) \/ CreatesKey(g)
                         \/ ChecksGroupEmpty(g) \/ DeleteGroup(g)
  \/ \E k \in ApiKeys, g \in Groups, v \in KeyValues : AddKeyToGroup(k, g, v)
  \/ \E k \in ApiKeys, v \in KeyValues : PutsKey(k, v)
  \/ \E g \in Groups, v \in KeyValues : RemoveKey(g, v)
  \/ WriteKey \/ DeleteGroupKeys \/ DeleteGroupRow \/ KeyWriteFails \/ KeyRequestFails
  \/ \E k \in ApiKeys : DeletesKey(k) \/ RemovesKey(k)
  \/ SecretStep
  \/ \E k \in ApiKeys \cup {None}, g \in Groups \cup {None} : LookupBegins(k, g)
  \/ ReadScope \/ LookupEnds

KeysSpec == KeysInit /\ [][KeysNext]_keysVars

-----------------------------------------------------------------------------
(* A lookup is several queries while scopes gain and lose their values. If   *)
(* a scope of the request had a value all the time, getSecretHierarchical()  *)
(* finds a value, and none of a less specific scope.                         *)
SpecificSecretWins ==
  lookup.state = "done" =>
    \A scope \in lookup.stable : lookup.found # None /\ Specificity(lookup.found) >= Specificity(scope)

(* The key of a group that is deleted while keys are added is deleted too:   *)
(* no live key, which would be shown without a group, outlives its group.    *)
KeysHaveGroups ==
  \A k \in ApiKeys : apiKey[k].state = "live" => apiKeyGroup[apiKey[k].group] = "live"

(* What is deleted takes its secrets along.  A secret whose owner is gone    *)
(* was created when the owner had gone: the pages look for the owner before  *)
(* they wait, the API does not, and an update never brings a secret back.    *)
OrphansCameLate ==
  \A scope \in secret : HasOwner(scope) \/ scope \in lateSecrets

=============================================================================
