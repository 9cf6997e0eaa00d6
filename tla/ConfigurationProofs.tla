------------------------- MODULE ConfigurationProofs ------------------------
(***************************************************************************)
(* Theorems about the configuration of the program: KeysAndSecrets, for    *)
(* every set of groups, keys and values of keys, and SettingsStore, for    *)
(* every sequence of settings, set of intervals and set of requests.       *)
(***************************************************************************)
EXTENDS KeysAndSecrets, SettingsStore, SequenceTheorems, TLAPS

-----------------------------------------------------------------------------
(***************************************************************************)
(* The keys and the secrets                                                *)
(***************************************************************************)

KeyRecord ==
  [state : {"new", "live", "gone"}, group : Groups \cup {None}, value : KeyValues \cup {None}]

Writer ==
  [step : {"free", "insert", "update", "keys", "group"}, id : ApiKeys \cup {None},
   group : Groups \cup {None}, value : KeyValues \cup {None}]

SecretRequest ==
  [step : {"none", "asked", "encrypts"}, op : {"create", "update", "delete"}, scope : Scopes]

Lookup ==
  [state : {"none", "reads", "done"}, chain : Seq(Scopes), at : 0..4,
   stable : SUBSET Scopes, found : Scopes \cup {None}]

OwnersTypeOK ==
  /\ apiKeyGroup \in [Groups -> {"new", "live", "gone"}] /\ apiKey \in [ApiKeys -> KeyRecord]
  /\ keyWriter \in Writer /\ groupDeletions \subseteq Groups /\ keyRequest \in Groups \cup {None}

SecretsTypeOK ==
  /\ secret \subseteq Scopes /\ hasFunction \in BOOLEAN /\ lateSecrets \subseteq Scopes
  /\ secretRequest \in SecretRequest

LEMMA KeysTypeParts ==
  /\ KeysTypeOK <=> OwnersTypeOK /\ SecretsTypeOK /\ lookup \in Lookup
  /\ KeysTypeOK' <=> OwnersTypeOK' /\ SecretsTypeOK' /\ lookup' \in Lookup
  BY DEF KeysTypeOK, OwnersTypeOK, SecretsTypeOK, KeyRecord, Writer, SecretRequest, Lookup

-----------------------------------------------------------------------------
(* Four kinds of steps: of groups and keys, of secrets, and of the lookup. *)

KeyStep ==
  \/ \E g \in Groups : CreateGroup(g) /\ keyRequest' \in {keyRequest, g}
  \/ \E g \in Groups : PostsKey(g) \/ ChecksGroupEmpty(g) \/ DeleteGroup(g)
  \/ \E k \in ApiKeys, g \in Groups, v \in KeyValues : AddKeyToGroup(k, g, v)
  \/ \E k \in ApiKeys, v \in KeyValues : UpdateKey(k, v)
  \/ \E g \in Groups, v \in KeyValues : RemoveKey(g, v)
  \/ \E k \in ApiKeys : RemoveKeyById(k)
  \/ WriteKey \/ DeleteGroupKeys \/ DeleteGroupRow \/ KeyWriteFails \/ KeyRequestFails

AskStep == \E op \in {"create", "update", "delete"}, scope \in Scopes : Asks(op, scope)

WriteStep == Encrypts \/ WritesSecret \/ DeletesSecret \/ SecretRequestFails \/ DeleteFunction

LookupStep ==
  \/ \E k \in ApiKeys \cup {None}, g \in Groups \cup {None} : LookupBegins(k, g)
  \/ ReadScope \/ LookupEnds

LEMMA KeysNextSplits == KeysNext => KeyStep \/ AskStep \/ WriteStep \/ LookupStep
<1>1. ASSUME NEW g \in Groups, PostsGroup(g) \/ CreatesGroup(g) \/ CreatesKey(g) PROVE KeyStep
  BY <1>1 DEF PostsGroup, CreatesGroup, CreatesKey, KeyStep
<1>2. ASSUME NEW k \in ApiKeys, DeletesKey(k) \/ RemovesKey(k) \/ \E v \in KeyValues : PutsKey(k, v) PROVE KeyStep
  BY <1>2 DEF DeletesKey, RemovesKey, PutsKey, KeyStep
<1>3. ASSUME SecretStep PROVE AskStep \/ WriteStep
  <2>1. "global" \in Scopes /\ "function" \in Scopes /\ Groups \subseteq Scopes /\ ApiKeys \subseteq Scopes
    BY DEF Scopes
  <2>2. CASE \/ CreatesGlobalSecret \/ EditsGlobalSecret \/ DeletesGlobalSecret
             \/ CreatesFunctionSecret \/ EditsFunctionSecret \/ DeletesFunctionSecret
    BY <2>1, <2>2 DEF CreatesGlobalSecret, EditsGlobalSecret, DeletesGlobalSecret, CreatesFunctionSecret,
                      EditsFunctionSecret, DeletesFunctionSecret, AskStep
  <2>3. ASSUME NEW g \in Groups, CreatesGroupSecret(g) \/ EditsGroupSecret(g) \/ DeletesGroupSecret(g)
        PROVE  AskStep
    BY <2>1, <2>3 DEF CreatesGroupSecret, EditsGroupSecret, DeletesGroupSecret, AskStep
  <2>4. ASSUME NEW k \in ApiKeys, CreatesKeySecret(k) \/ EditsKeySecret(k) \/ DeletesKeySecret(k)
        PROVE  AskStep
    BY <2>1, <2>4 DEF CreatesKeySecret, EditsKeySecret, DeletesKeySecret, AskStep
  <2>5. ASSUME NEW scope \in Scopes, PostsSecret(scope) \/ PutsSecret(scope) \/ RemovesSecret(scope)
        PROVE  AskStep
    BY <2>5 DEF PostsSecret, PutsSecret, RemovesSecret, AskStep
  <2> QED BY <1>3, <2>2, <2>3, <2>4, <2>5 DEF SecretStep, WriteStep
<1> QED BY <1>1, <1>2, <1>3 DEF KeysNext, KeyStep, LookupStep

\* the frames
LEMMA KeyFrame == KeyStep => UNCHANGED secretVars
  BY DEF KeyStep, CreateGroup, PostsKey, ChecksGroupEmpty, DeleteGroup, AddKeyToGroup, UpdateKey, RemoveKey,
         RemoveKeyById, WriteKey, DeleteGroupKeys, DeleteGroupRow, KeyWriteFails, KeyRequestFails

LEMMA SecretFrame == AskStep \/ WriteStep => UNCHANGED apiKeyVars
  BY DEF AskStep, WriteStep, Asks, Encrypts, WritesSecret, DeletesSecret, SecretRequestFails, DeleteFunction

LEMMA LookupFrame == LookupStep => UNCHANGED <<apiKeyVars, secretVars, secret>>
  BY DEF LookupStep, LookupBegins, ReadScope, LookupEnds

\* Whoever changes the values tells the lookup.
LEMMA LookupIsTold ==
  KeyStep \/ AskStep \/ WriteStep => SecretsBecome(secret') \/ UNCHANGED <<secret, lookup>>
  BY DEF KeyStep, CreateGroup, PostsKey, ChecksGroupEmpty, DeleteGroup, AddKeyToGroup, UpdateKey, RemoveKey,
         RemoveKeyById, WriteKey, DeleteGroupKeys, DeleteGroupRow, KeyWriteFails, KeyRequestFails, DeleteKeys,
         AskStep, WriteStep, Asks, Encrypts, WritesSecret, DeletesSecret, SecretRequestFails, DeleteFunction,
         SecretsBecome

-----------------------------------------------------------------------------
(* The order of the scopes *)

\* a chain of at most four scopes, none less specific than those after it
Descends(chain) ==
  /\ chain \in Seq(Scopes) /\ Len(chain) \in 1..4
  /\ \A i, j \in 1..Len(chain) : i <= j => Specificity(chain[i]) >= Specificity(chain[j])

LEMMA Specificities ==
  /\ Specificity("global") = 1 /\ Specificity("function") = 2
  /\ \A g \in Groups : Specificity(g) = 3
  /\ \A k \in ApiKeys : Specificity(k) = 4
<1>1. Specificity("global") = 1
  BY ScopesAssumption DEF Specificity
<1>2. Specificity("function") = 2
  BY ScopesAssumption DEF Specificity
<1>3. \A g \in Groups : Specificity(g) = 3
  BY ScopesAssumption DEF Specificity
<1>4. \A k \in ApiKeys : Specificity(k) = 4
  BY ScopesAssumption DEF Specificity
<1> QED BY <1>1, <1>2, <1>3, <1>4

LEMMA ChainDescends ==
  ASSUME NEW k \in ApiKeys \cup {None}, NEW g, k = None \/ g \in Groups
  PROVE  Descends(Chain(k, g))
<1>1. "global" \in Scopes /\ "function" \in Scopes /\ Groups \subseteq Scopes /\ ApiKeys \subseteq Scopes
  BY DEF Scopes
<1>2. CASE k = None
  <2> DEFINE s == <<"function", "global">>
  <2>1. Chain(k, g) = s
    BY <1>2 DEF Chain
  <2>2. s \in Seq(Scopes) /\ Len(s) = 2
    BY <1>1
  <2>3. s[1] = "function" /\ s[2] = "global"
    OBVIOUS
  <2> HIDE DEF s
  <2> QED BY <2>1, <2>2, <2>3, Specificities DEF Descends
<1>3. CASE k # None
  <2> DEFINE a == <<k, g>>
             b == <<"function", "global">>
             s == a \o b
  <2>1. k \in ApiKeys /\ g \in Groups
    BY <1>3
  <2>2. Chain(k, g) = s
    BY <1>3 DEF Chain
  <2>3. a \in Seq(Scopes) /\ Len(a) = 2 /\ a[1] = k /\ a[2] = g
    BY <1>1, <2>1
  <2>4. b \in Seq(Scopes) /\ Len(b) = 2 /\ b[1] = "function" /\ b[2] = "global"
    BY <1>1
  <2> HIDE DEF a, b
  <2>5. /\ s \in Seq(Scopes) /\ Len(s) = Len(a) + Len(b)
        /\ \A i \in 1..Len(a) + Len(b) : s[i] = IF i <= Len(a) THEN a[i] ELSE b[i - Len(a)]
    <3>1. a \in Seq(Scopes) /\ b \in Seq(Scopes)
      BY <2>3, <2>4
    <3> QED BY ONLY <3>1, ConcatProperties, Zenon
  <2> HIDE DEF s
  <2>6. Len(s) = 4 /\ s[1] = a[1] /\ s[2] = a[2] /\ s[3] = b[1] /\ s[4] = b[2]
    BY <2>3, <2>4, <2>5
  <2>7. /\ Specificity(s[1]) = 4 /\ Specificity(s[2]) = 3 /\ Specificity(s[3]) = 2 /\ Specificity(s[4]) = 1
    BY <2>1, <2>3, <2>4, <2>6, Specificities
  <2>8. \A i \in 1..4 : Specificity(s[i]) = 5 - i
    BY <2>7
  <2>9. Len(s) = 4 /\ s \in Seq(Scopes)
    BY <2>5, <2>6
  <2>10. \A i, j \in 1..Len(s) : i <= j => Specificity(s[i]) >= Specificity(s[j])
    BY <2>8, <2>9
  <2>11. Descends(s)
    BY <2>9, <2>10 DEF Descends
  <2> QED BY <2>2, <2>11
<1> QED BY <1>2, <1>3

-----------------------------------------------------------------------------
(* The inductive invariants *)

\* Whoever holds the mutex to write a key found its group, which nobody else
\* deletes meanwhile; when the row of a group goes, its keys have gone.
GroupsInv ==
  /\ \A k \in ApiKeys : apiKey[k].state = "live" =>
       apiKey[k].group \in Groups /\ apiKeyGroup[apiKey[k].group] = "live"
  /\ keyWriter.step \in {"insert", "update"} =>
       keyWriter.id \in ApiKeys /\ keyWriter.group \in Groups /\ apiKeyGroup[keyWriter.group] = "live"
  /\ keyWriter.step \in {"keys", "group"} => keyWriter.group \in Groups
  /\ keyWriter.step = "group" => KeysOf(keyWriter.group) = {}

\* A scope that had a value since the lookup began is still to be read.
LookupInv ==
  /\ lookup.stable \subseteq secret
  /\ lookup.state = "reads" =>
       /\ Descends(lookup.chain) /\ lookup.at \in 1..Len(lookup.chain)
       /\ \A scope \in lookup.stable : \E i \in lookup.at..Len(lookup.chain) : lookup.chain[i] = scope
  /\ SpecificSecretWins

KeysAndSecretsInv == KeysTypeOK /\ GroupsInv /\ OrphansCameLate /\ LookupInv

-----------------------------------------------------------------------------
(* Types *)

LEMMA DeletionTypes ==
  ASSUME NEW keys, OwnersTypeOK, DeleteKeys(keys)
  PROVE  /\ apiKey' \in [ApiKeys -> KeyRecord]
         /\ \A k \in ApiKeys : apiKey'[k].state = "live" => k \notin keys /\ apiKey'[k] = apiKey[k]
         /\ \A k \in ApiKeys : k \notin keys => apiKey'[k] = apiKey[k]
<1> DEFINE deleted == [NoKey EXCEPT !.state = "gone"]
<1>1. deleted \in KeyRecord /\ deleted.state = "gone"
  BY DEF NoKey, KeyRecord
<1> HIDE DEF deleted
<1>2. apiKey' = [k \in ApiKeys |-> IF k \in keys THEN deleted ELSE apiKey[k]]
  BY DEF DeleteKeys, deleted
<1>3. \A k \in ApiKeys : apiKey'[k] = IF k \in keys THEN deleted ELSE apiKey[k]
  BY <1>2
<1> QED BY <1>1, <1>2, <1>3 DEF OwnersTypeOK

LEMMA OwnersTypeStep == OwnersTypeOK /\ KeyStep => OwnersTypeOK'
<1> SUFFICES ASSUME OwnersTypeOK, KeyStep PROVE OwnersTypeOK'
  OBVIOUS
<1>0. NoWriter \in Writer
  BY DEF NoWriter, Writer
<1>1. ASSUME NEW g \in Groups, CreateGroup(g), keyRequest' \in {keyRequest, g} PROVE OwnersTypeOK'
  BY <1>1 DEF CreateGroup, OwnersTypeOK
<1>2. ASSUME NEW g \in Groups, PostsKey(g) \/ ChecksGroupEmpty(g) PROVE OwnersTypeOK'
  BY <1>2 DEF PostsKey, ChecksGroupEmpty, OwnersTypeOK
<1>3. ASSUME NEW g \in Groups, DeleteGroup(g) PROVE OwnersTypeOK'
  BY <1>3 DEF DeleteGroup, OwnersTypeOK, NoWriter, Writer
<1>4. ASSUME NEW k \in ApiKeys, NEW g \in Groups, NEW v \in KeyValues, AddKeyToGroup(k, g, v)
      PROVE  OwnersTypeOK'
  BY <1>4 DEF AddKeyToGroup, OwnersTypeOK, Writer
<1>5. ASSUME NEW k \in ApiKeys, NEW v \in KeyValues, UpdateKey(k, v) PROVE OwnersTypeOK'
  BY <1>5 DEF UpdateKey, OwnersTypeOK, Writer, KeyRecord
<1>6. ASSUME NEW keys, DeleteKeys(keys), UNCHANGED <<apiKeyGroup, keyRequest, groupDeletions>>, keyWriter' \in Writer
      PROVE  OwnersTypeOK'
  BY <1>6, DeletionTypes DEF OwnersTypeOK
<1>7. ASSUME NEW g \in Groups, NEW v \in KeyValues, RemoveKey(g, v) PROVE OwnersTypeOK'
  BY <1>6, <1>7 DEF RemoveKey, OwnersTypeOK
<1>8. ASSUME NEW k \in ApiKeys, RemoveKeyById(k) PROVE OwnersTypeOK'
  BY <1>6, <1>8 DEF RemoveKeyById, OwnersTypeOK
<1>9. CASE DeleteGroupKeys
  <2>1. keyWriter' \in Writer
    BY <1>9 DEF DeleteGroupKeys, OwnersTypeOK, Writer
  <2> QED BY <1>6, <1>9, <2>1 DEF DeleteGroupKeys
<1>10. CASE WriteKey
  <2> DEFINE written == [state |-> "live", group |-> keyWriter.group, value |-> keyWriter.value]
  <2>1. written \in KeyRecord
    BY DEF OwnersTypeOK, Writer, KeyRecord
  <2>2. apiKey' = [apiKey EXCEPT ![keyWriter.id] = written]
    BY <1>10 DEF WriteKey
  <2> HIDE DEF written
  <2>3. apiKey' \in [ApiKeys -> KeyRecord]
    BY <2>1, <2>2 DEF OwnersTypeOK
  <2> QED BY <1>0, <1>10, <2>3 DEF WriteKey, OwnersTypeOK
<1>11. CASE DeleteGroupRow
  BY <1>0, <1>11 DEF DeleteGroupRow, OwnersTypeOK
<1>12. CASE KeyWriteFails \/ KeyRequestFails
  BY <1>0, <1>12 DEF KeyWriteFails, KeyRequestFails, OwnersTypeOK
<1> QED BY <1>1, <1>2, <1>3, <1>4, <1>5, <1>7, <1>8, <1>9, <1>10, <1>11, <1>12 DEF KeyStep

\* the request that the service works on
LEMMA SecretRequestTypes ==
  ASSUME SecretsTypeOK, NEW step \in {"none", "asked", "encrypts"}, Replies(step)
  PROVE  secretRequest' \in SecretRequest /\ secretRequest.scope \in Scopes
<1>1. NoRequest \in SecretRequest
  BY DEF NoRequest, SecretRequest, Scopes
<1>2. [secretRequest EXCEPT !.step = step] \in SecretRequest /\ secretRequest.scope \in Scopes
  BY DEF SecretsTypeOK, SecretRequest
<1> QED BY <1>1, <1>2 DEF Replies

LEMMA SecretsTypeStep == SecretsTypeOK /\ (AskStep \/ WriteStep) => SecretsTypeOK'
<1> SUFFICES ASSUME SecretsTypeOK, AskStep \/ WriteStep PROVE SecretsTypeOK'
  OBVIOUS
<1>1. ASSUME NEW op \in {"create", "update", "delete"}, NEW scope \in Scopes, Asks(op, scope)
      PROVE  SecretsTypeOK'
  BY <1>1 DEF Asks, SecretsTypeOK, SecretRequest
<1>2. CASE Encrypts
  BY <1>2, SecretRequestTypes DEF Encrypts, SecretsTypeOK
<1>3. CASE WritesSecret
  <2>1. secretRequest' \in SecretRequest /\ secretRequest.scope \in Scopes
    BY <1>3, SecretRequestTypes DEF WritesSecret
  <2> QED BY <1>3, <2>1 DEF WritesSecret, SecretsBecome, SecretsTypeOK
<1>4. CASE DeletesSecret
  <2>1. secretRequest' \in SecretRequest
    BY <1>4, SecretRequestTypes DEF DeletesSecret
  <2> QED BY <1>4, <2>1 DEF DeletesSecret, SecretsBecome, SecretsTypeOK
<1>5. CASE SecretRequestFails
  BY <1>5, SecretRequestTypes DEF SecretRequestFails, SecretsTypeOK
<1>6. CASE DeleteFunction
  BY <1>6 DEF DeleteFunction, SecretsBecome, SecretsTypeOK
<1> QED BY <1>1, <1>2, <1>3, <1>4, <1>5, <1>6 DEF AskStep, WriteStep

\* a deletion leaves scopes that were there
LEMMA KeyStepSecrets == KeyStep => secret' \subseteq secret
  BY DEF KeyStep, CreateGroup, PostsKey, ChecksGroupEmpty, DeleteGroup, AddKeyToGroup, UpdateKey, RemoveKey,
         RemoveKeyById, WriteKey, DeleteGroupKeys, DeleteGroupRow, KeyWriteFails, KeyRequestFails, DeleteKeys,
         SecretsBecome

\* what a lookup learns of a change of the values
LEMMA LookupToldKeeps ==
  ASSUME lookup \in Lookup, SecretsBecome(secret') \/ UNCHANGED <<secret, lookup>>
  PROVE  /\ lookup' \in Lookup /\ lookup'.state = lookup.state /\ lookup'.chain = lookup.chain
         /\ lookup'.at = lookup.at /\ lookup'.found = lookup.found
         /\ lookup'.stable \subseteq lookup.stable
         /\ lookup.stable \subseteq secret => lookup'.stable \subseteq secret'
<1>1. CASE UNCHANGED <<secret, lookup>>
  BY <1>1
<1>2. CASE SecretsBecome(secret')
  <2>1. lookup.stable \in SUBSET Scopes
    BY DEF Lookup
  <2> DEFINE kept == lookup.stable \cap secret'
  <2>2. lookup' = [lookup EXCEPT !.stable = kept]
    BY <1>2 DEF SecretsBecome
  <2>3. kept \in SUBSET Scopes /\ kept \subseteq lookup.stable /\ kept \subseteq secret'
    BY <2>1
  <2> HIDE DEF kept
  <2> QED BY <2>2, <2>3 DEF Lookup
<1> QED BY <1>1, <1>2

-----------------------------------------------------------------------------
(* Groups *)

LEMMA GroupsStep == OwnersTypeOK /\ GroupsInv /\ KeyStep => GroupsInv'
<1> SUFFICES ASSUME OwnersTypeOK, GroupsInv, KeyStep PROVE GroupsInv'
  OBVIOUS
<1>0. /\ NoWriter.step = "free"
      /\ "free" \notin {"insert", "update"} /\ "free" \notin {"keys", "group"}
  BY DEF NoWriter
<1>1. ASSUME NEW g \in Groups, CreateGroup(g) PROVE GroupsInv'
  BY <1>0, <1>1 DEF CreateGroup, GroupsInv, OwnersTypeOK, KeysOf
<1>2. ASSUME NEW g \in Groups, PostsKey(g) \/ ChecksGroupEmpty(g) PROVE GroupsInv'
  BY <1>2 DEF PostsKey, ChecksGroupEmpty, GroupsInv, KeysOf
<1>3. ASSUME NEW g \in Groups, DeleteGroup(g) PROVE GroupsInv'
  BY <1>3 DEF DeleteGroup, GroupsInv, NoWriter
<1>4. ASSUME NEW k \in ApiKeys, NEW g \in Groups, NEW v \in KeyValues, AddKeyToGroup(k, g, v)
      PROVE  GroupsInv'
  BY <1>4 DEF AddKeyToGroup, GroupsInv
<1>5. ASSUME NEW k \in ApiKeys, NEW v \in KeyValues, UpdateKey(k, v) PROVE GroupsInv'
  BY <1>5 DEF UpdateKey, GroupsInv
\* keys are deleted by the holder of the mutex or while nobody has it
<1>6. ASSUME NEW keys, DeleteKeys(keys), UNCHANGED <<apiKeyGroup, keyWriter>>, keyWriter = NoWriter
      PROVE  GroupsInv'
  BY <1>0, <1>6, DeletionTypes DEF GroupsInv
<1>7. ASSUME NEW g \in Groups, NEW v \in KeyValues, RemoveKey(g, v) PROVE GroupsInv'
  BY <1>6, <1>7 DEF RemoveKey
<1>8. ASSUME NEW k \in ApiKeys, RemoveKeyById(k) PROVE GroupsInv'
  BY <1>6, <1>8 DEF RemoveKeyById
<1>9. CASE DeleteGroupKeys
  <2>1. /\ keyWriter.group \in Groups /\ keyWriter'.step = "group" /\ keyWriter'.group = keyWriter.group
        /\ apiKeyGroup' = apiKeyGroup /\ DeleteKeys(KeysOf(keyWriter.group))
    BY <1>9 DEF DeleteGroupKeys, GroupsInv, OwnersTypeOK, Writer
  <2>2. \A k \in ApiKeys : apiKey'[k].state = "live" => k \notin KeysOf(keyWriter.group) /\ apiKey'[k] = apiKey[k]
    BY <2>1, DeletionTypes
  <2>3. \A k \in ApiKeys : apiKey'[k].state = "live" => apiKey'[k].group # keyWriter'.group
    BY <2>1, <2>2 DEF KeysOf
  <2>4. KeysOf(keyWriter.group)' = {}
    BY <2>3 DEF KeysOf
  <2> QED BY <2>1, <2>2, <2>4 DEF GroupsInv
<1>10. CASE WriteKey
  <2> DEFINE written == [state |-> "live", group |-> keyWriter.group, value |-> keyWriter.value]
  <2>1. written.group = keyWriter.group
    OBVIOUS
  <2>2. /\ keyWriter.id \in ApiKeys /\ keyWriter.group \in Groups /\ apiKeyGroup[keyWriter.group] = "live"
        /\ apiKeyGroup' = apiKeyGroup /\ keyWriter' = NoWriter /\ apiKey' = [apiKey EXCEPT ![keyWriter.id] = written]
    BY <1>10 DEF WriteKey, GroupsInv
  <2> HIDE DEF written
  <2>3. \A k \in ApiKeys : apiKey'[k] = IF k = keyWriter.id THEN written ELSE apiKey[k]
    BY <2>2 DEF OwnersTypeOK
  <2> QED BY <1>0, <2>1, <2>2, <2>3 DEF GroupsInv
<1>11. CASE DeleteGroupRow
  <2>1. /\ keyWriter.group \in Groups /\ KeysOf(keyWriter.group) = {} /\ apiKey' = apiKey
        /\ keyWriter' = NoWriter /\ apiKeyGroup' = [apiKeyGroup EXCEPT ![keyWriter.group] = "gone"]
    BY <1>11 DEF DeleteGroupRow, GroupsInv
  <2>2. \A k \in ApiKeys : apiKey[k].state = "live" => apiKey[k].group # keyWriter.group
    BY <2>1 DEF KeysOf
  <2> QED BY <1>0, <2>1, <2>2 DEF GroupsInv, OwnersTypeOK
<1>12. CASE KeyWriteFails
  BY <1>0, <1>12 DEF KeyWriteFails, GroupsInv
<1>13. CASE KeyRequestFails
  BY <1>13 DEF KeyRequestFails, GroupsInv, KeysOf
<1> QED BY <1>1, <1>2, <1>3, <1>4, <1>5, <1>7, <1>8, <1>9, <1>10, <1>11, <1>12, <1>13 DEF KeyStep

-----------------------------------------------------------------------------
(* Orphans *)

LEMMA OrphansKeyStep == OwnersTypeOK /\ SecretsTypeOK /\ OrphansCameLate /\ KeyStep => OrphansCameLate'
<1> SUFFICES ASSUME OwnersTypeOK, SecretsTypeOK, OrphansCameLate, KeyStep, NEW scope \in secret'
             PROVE  HasOwner(scope)' \/ scope \in lateSecrets'
  BY DEF OrphansCameLate
<1>0. lateSecrets' = lateSecrets /\ hasFunction' = hasFunction /\ (HasOwner(scope) \/ scope \in lateSecrets)
  BY KeyFrame, KeyStepSecrets DEF OrphansCameLate, secretVars
<1>1. ASSUME NEW g \in Groups, CreateGroup(g) PROVE HasOwner(scope)' \/ scope \in lateSecrets'
  BY <1>0, <1>1 DEF CreateGroup, HasOwner, OwnersTypeOK
<1>2. ASSUME UNCHANGED <<apiKeyGroup, apiKey>> PROVE HasOwner(scope)' \/ scope \in lateSecrets'
  BY <1>0, <1>2 DEF HasOwner
<1>3. ASSUME NEW keys, DeleteKeys(keys), apiKeyGroup' = apiKeyGroup
      PROVE  HasOwner(scope)' \/ scope \in lateSecrets'
  <2>1. scope \notin keys
    BY <1>3 DEF DeleteKeys, SecretsBecome
  <2>2. scope \in ApiKeys => apiKey'[scope] = apiKey[scope]
    BY <1>3, <2>1, DeletionTypes
  <2> QED BY <1>0, <1>3, <2>2 DEF HasOwner
<1>4. CASE WriteKey
  <2> DEFINE written == [state |-> "live", group |-> keyWriter.group, value |-> keyWriter.value]
  <2>1. written.state = "live"
    OBVIOUS
  <2>2. apiKeyGroup' = apiKeyGroup /\ apiKey' = [apiKey EXCEPT ![keyWriter.id] = written]
    BY <1>4 DEF WriteKey
  <2> HIDE DEF written
  <2>3. \A k \in ApiKeys : apiKey[k].state = "live" => apiKey'[k].state = "live"
    BY <2>1, <2>2 DEF OwnersTypeOK
  <2> QED BY <1>0, <2>2, <2>3 DEF HasOwner
<1>5. CASE DeleteGroupRow
  <2>1. /\ scope # keyWriter.group /\ apiKey' = apiKey
        /\ apiKeyGroup' = [apiKeyGroup EXCEPT ![keyWriter.group] = "gone"]
    BY <1>5 DEF DeleteGroupRow, SecretsBecome
  <2> QED BY <1>0, <2>1 DEF HasOwner, OwnersTypeOK
<1> QED BY <1>1, <1>2, <1>3, <1>4, <1>5
        DEF KeyStep, PostsKey, ChecksGroupEmpty, DeleteGroup, AddKeyToGroup, UpdateKey, RemoveKey, RemoveKeyById,
            DeleteGroupKeys, KeyWriteFails, KeyRequestFails

LEMMA OrphansSecretStep == OrphansCameLate /\ (AskStep \/ WriteStep) => OrphansCameLate'
<1> SUFFICES ASSUME OrphansCameLate, AskStep \/ WriteStep, NEW scope \in secret'
             PROVE  HasOwner(scope)' \/ scope \in lateSecrets'
  BY DEF OrphansCameLate
<1>0. apiKeyGroup' = apiKeyGroup /\ apiKey' = apiKey
  BY SecretFrame DEF apiKeyVars
<1>1. CASE UNCHANGED <<secret, hasFunction, lateSecrets>>
  BY <1>0, <1>1 DEF OrphansCameLate, HasOwner
<1>2. CASE WritesSecret
  BY <1>0, <1>2 DEF WritesSecret, SecretsBecome, OrphansCameLate, HasOwner
<1>3. CASE DeletesSecret
  BY <1>0, <1>3 DEF DeletesSecret, SecretsBecome, OrphansCameLate, HasOwner
<1>4. CASE DeleteFunction
  BY <1>0, <1>4 DEF DeleteFunction, SecretsBecome, OrphansCameLate, HasOwner
<1> QED BY <1>1, <1>2, <1>3, <1>4 DEF AskStep, WriteStep, Asks, Encrypts, SecretRequestFails

-----------------------------------------------------------------------------
(* The lookup *)

LEMMA LookupToldStep ==
  ASSUME lookup \in Lookup, LookupInv, KeyStep \/ AskStep \/ WriteStep
  PROVE  lookup' \in Lookup /\ LookupInv'
<1>1. /\ lookup' \in Lookup /\ lookup'.state = lookup.state /\ lookup'.chain = lookup.chain
      /\ lookup'.at = lookup.at /\ lookup'.found = lookup.found
      /\ lookup'.stable \subseteq lookup.stable /\ lookup'.stable \subseteq secret'
  BY LookupIsTold, LookupToldKeeps DEF LookupInv
<1> QED BY <1>1 DEF LookupInv, SpecificSecretWins

LEMMA LookupOwnStep ==
  ASSUME KeysTypeOK, GroupsInv, LookupInv, LookupStep
  PROVE  lookup' \in Lookup /\ LookupInv'
<1>0. secret' = secret /\ secret \subseteq Scopes /\ lookup \in Lookup
  BY LookupFrame, KeysTypeParts DEF SecretsTypeOK
<1>1. ASSUME NEW k \in ApiKeys \cup {None}, NEW g \in Groups \cup {None}, LookupBegins(k, g)
      PROVE  lookup' \in Lookup /\ LookupInv'
  <2> DEFINE s == Chain(k, g)
             stable == {c \in secret : \E i \in DOMAIN s : s[i] = c}
  <2>1. k = None \/ g \in Groups
    BY <1>1 DEF LookupBegins, GroupsInv
  <2>2. Descends(s)
    BY <2>1, ChainDescends
  <2>3. s \in Seq(Scopes) /\ Len(s) \in 1..4 /\ DOMAIN s = 1..Len(s)
    BY <2>2 DEF Descends
  <2>4. lookup' = [state |-> "reads", chain |-> s, at |-> 1, stable |-> stable, found |-> None]
    BY <1>1 DEF LookupBegins
  <2>5. stable \subseteq secret /\ \A c \in stable : \E i \in 1..Len(s) : s[i] = c
    BY <2>3
  <2> HIDE DEF s, stable
  <2>6. lookup' \in Lookup
    BY <1>0, <2>3, <2>4, <2>5 DEF Lookup
  <2>7. /\ lookup'.state = "reads" /\ lookup'.chain = s /\ lookup'.at = 1 /\ lookup'.stable = stable
    BY <2>4
  <2> QED BY <1>0, <2>2, <2>3, <2>5, <2>6, <2>7 DEF LookupInv, SpecificSecretWins
<1>2. CASE ReadScope
  <2> DEFINE s == lookup.chain
             scope == s[lookup.at]
  <2>1. /\ Descends(s) /\ lookup.at \in 1..Len(s) /\ lookup.stable \subseteq secret
        /\ \A c \in lookup.stable : \E i \in lookup.at..Len(s) : s[i] = c
    BY <1>2 DEF ReadScope, LookupInv
  <2>2. s \in Seq(Scopes) /\ Len(s) \in 1..4 /\ scope \in Scopes
    BY <2>1 DEF Descends
  <2>3. CASE scope \in secret
    <3>1. lookup' = [lookup EXCEPT !.state = "done", !.found = scope]
      BY <1>2, <2>3 DEF ReadScope
    <3>2. \A c \in lookup.stable : Specificity(scope) >= Specificity(c)
      BY <2>1 DEF Descends
    <3>3. scope # None
      BY <2>2, ScopesAssumption DEF Scopes, None
    <3> HIDE DEF s, scope
    <3>4. /\ lookup' \in Lookup /\ lookup'.state = "done" /\ lookup'.found = scope
          /\ lookup'.stable = lookup.stable
      BY <1>0, <2>2, <3>1 DEF Lookup
    <3> QED BY <1>0, <2>1, <3>2, <3>3, <3>4 DEF LookupInv, SpecificSecretWins
  <2>4. CASE scope \notin secret /\ lookup.at = Len(s)
    <3>1. lookup' = [lookup EXCEPT !.state = "done"]
      BY <1>2, <2>4 DEF ReadScope
    <3>2. lookup.stable = {}
      BY <2>1, <2>2, <2>4
    <3>3. lookup' \in Lookup /\ lookup'.state = "done" /\ lookup'.stable = {}
      BY <1>0, <3>1, <3>2 DEF Lookup
    <3> QED BY <3>3 DEF LookupInv, SpecificSecretWins
  <2>5. CASE scope \notin secret /\ lookup.at # Len(s)
    <3>1. lookup' = [lookup EXCEPT !.at = lookup.at + 1]
      BY <1>2, <2>5 DEF ReadScope
    <3>2. lookup.at + 1 \in 1..Len(s) /\ lookup.at + 1 \in 0..4
      <4>1. lookup.at \in 1..Len(s) /\ lookup.at # Len(s)
        BY <2>1, <2>5
      <4>2. ASSUME NEW n \in 1..4, NEW i \in 1..n, i # n PROVE i + 1 \in 1..n /\ i + 1 \in 0..4
        BY <4>2
      <4> QED BY <2>2, <4>1, <4>2
    <3>3. \A c \in lookup.stable : \E i \in lookup.at + 1..Len(s) : s[i] = c
      BY <2>1, <2>2, <2>5
    <3>4. /\ lookup' \in Lookup /\ lookup'.state = "reads" /\ lookup'.chain = s
          /\ lookup'.at = lookup.at + 1 /\ lookup'.stable = lookup.stable
      BY <1>0, <1>2, <3>1, <3>2 DEF Lookup, ReadScope
    <3> HIDE DEF s, scope
    <3> QED BY <1>0, <2>1, <3>2, <3>3, <3>4 DEF LookupInv, SpecificSecretWins
  <2> QED BY <2>3, <2>4, <2>5
<1>3. CASE LookupEnds
  <2>1. lookup' = NoLookup
    BY <1>3 DEF LookupEnds
  <2>2. NoLookup \in Lookup /\ NoLookup.stable = {} /\ NoLookup.state = "none"
    BY DEF NoLookup, Lookup
  <2> QED BY <2>1, <2>2 DEF LookupInv, SpecificSecretWins
<1> QED BY <1>1, <1>2, <1>3 DEF LookupStep

-----------------------------------------------------------------------------
(* The theorems *)

LEMMA KeysInitInv == KeysInit => KeysAndSecretsInv
<1> SUFFICES ASSUME KeysInit PROVE KeysAndSecretsInv
  OBVIOUS
<1>1. NoKey \in KeyRecord /\ NoKey.state = "new"
  BY DEF NoKey, KeyRecord
<1>2. \A k \in ApiKeys : apiKey[k].state # "live"
  BY <1>1 DEF KeysInit
<1>3. NoWriter \in Writer /\ NoWriter.step = "free"
  BY DEF NoWriter, Writer
<1>4. OwnersTypeOK
  BY <1>1, <1>3 DEF KeysInit, OwnersTypeOK
<1>5. NoRequest \in SecretRequest
  BY DEF NoRequest, SecretRequest, Scopes
<1>6. SecretsTypeOK
  BY <1>5 DEF KeysInit, SecretsTypeOK
<1>7. NoLookup \in Lookup /\ NoLookup.state = "none" /\ NoLookup.stable = {}
  BY DEF NoLookup, Lookup
<1>8. LookupInv
  BY <1>7 DEF KeysInit, LookupInv, SpecificSecretWins
<1>9. GroupsInv
  BY <1>2, <1>3 DEF KeysInit, GroupsInv
<1>10. OrphansCameLate
  BY DEF KeysInit, OrphansCameLate
<1> QED BY <1>4, <1>6, <1>7, <1>8, <1>9, <1>10, KeysTypeParts DEF KeysInit, KeysAndSecretsInv

LEMMA KeysStepInv == KeysAndSecretsInv /\ [KeysNext]_keysVars => KeysAndSecretsInv'
<1> SUFFICES ASSUME KeysAndSecretsInv, [KeysNext]_keysVars PROVE KeysAndSecretsInv'
  OBVIOUS
<1>0. KeysTypeOK /\ OwnersTypeOK /\ SecretsTypeOK /\ lookup \in Lookup /\ GroupsInv /\ OrphansCameLate /\ LookupInv
  BY KeysTypeParts DEF KeysAndSecretsInv
<1>1. CASE KeyStep
  <2>1. SecretsTypeOK'
    BY <1>0, <1>1, KeyFrame, KeyStepSecrets DEF SecretsTypeOK, secretVars
  <2> QED BY <1>0, <1>1, <2>1, KeysTypeParts, OwnersTypeStep, GroupsStep, OrphansKeyStep, LookupToldStep
          DEF KeysAndSecretsInv
<1>2. CASE AskStep \/ WriteStep
  <2>1. OwnersTypeOK' /\ GroupsInv'
    BY <1>0, <1>2, SecretFrame DEF apiKeyVars, OwnersTypeOK, GroupsInv, KeysOf
  <2> QED BY <1>0, <1>2, <2>1, KeysTypeParts, SecretsTypeStep, OrphansSecretStep, LookupToldStep DEF KeysAndSecretsInv
<1>3. CASE LookupStep
  <2>1. OwnersTypeOK' /\ GroupsInv' /\ SecretsTypeOK' /\ OrphansCameLate'
    BY <1>0, <1>3, LookupFrame
       DEF apiKeyVars, secretVars, OwnersTypeOK, GroupsInv, KeysOf, SecretsTypeOK, OrphansCameLate, HasOwner
  <2> QED BY <1>0, <1>3, <2>1, KeysTypeParts, LookupOwnStep DEF KeysAndSecretsInv
<1>4. CASE UNCHANGED keysVars
  <2>1. UNCHANGED <<apiKeyVars, secretVars, secret>> /\ lookup' = lookup
    BY <1>4 DEF keysVars
  <2>2. OwnersTypeOK' /\ GroupsInv' /\ SecretsTypeOK' /\ OrphansCameLate'
    BY <1>0, <2>1
       DEF apiKeyVars, secretVars, OwnersTypeOK, GroupsInv, KeysOf, SecretsTypeOK, OrphansCameLate, HasOwner
  <2>3. LookupInv'
    BY <1>0, <2>1 DEF LookupInv, SpecificSecretWins
  <2> QED BY <1>0, <2>1, <2>2, <2>3, KeysTypeParts DEF KeysAndSecretsInv
<1> QED BY <1>1, <1>2, <1>3, <1>4, KeysNextSplits

LEMMA KeysInvariant == KeysSpec => []KeysAndSecretsInv
  BY KeysInitInv, KeysStepInv, PTL DEF KeysSpec

\* Groups, keys, requests and lookups keep the shape that ApiKeyService and SecretsService give them.
THEOREM KeysTypeCorrect == KeysSpec => []KeysTypeOK
<1>1. KeysAndSecretsInv => KeysTypeOK
  BY DEF KeysAndSecretsInv
<1> QED BY <1>1, KeysInvariant, PTL

\* No live key outlives its group, though the routes count the keys of a group before they ask for the
\* mutex: whoever has the mutex looks at the group again, and deletes the keys before the row.
THEOREM KeysKeepTheirGroups == KeysSpec => []KeysHaveGroups
<1>1. KeysAndSecretsInv => KeysHaveGroups
  BY DEF KeysAndSecretsInv, GroupsInv, KeysHaveGroups
<1> QED BY <1>1, KeysInvariant, PTL

\* The delete events take along every secret that was there; one without an owner was created late.
THEOREM OnlyLateSecretsAreOrphans == KeysSpec => []OrphansCameLate
<1>1. KeysAndSecretsInv => OrphansCameLate
  BY DEF KeysAndSecretsInv
<1> QED BY <1>1, KeysInvariant, PTL

\* One query per scope is enough for getSecretHierarchical(): if a scope had a value all the time, a
\* value is found, and none of a less specific scope.
THEOREM LookupsAreSpecific == KeysSpec => []SpecificSecretWins
<1>1. KeysAndSecretsInv => SpecificSecretWins
  BY DEF KeysAndSecretsInv, LookupInv
<1> QED BY <1>1, KeysInvariant, PTL

-----------------------------------------------------------------------------
(***************************************************************************)
(* The settings and the intervals of the schedules                         *)
(***************************************************************************)

Follows(name) == interval[name] = setting[name]

\* the request has passed the setting
Passed(r, name) == \E n \in DOMAIN SettingNames : n < save[r].at /\ SettingNames[n] = name

Names(r, name) == save[r].values[name] # 0

\* nobody saves before the servers listen, and the schedules get what the table has
BootInv ==
  /\ settingsPhase # "up" => \A r \in Savers : save[r] = NoSave
  /\ settingsPhase = "configured" => config = setting

\* a request is alone from its begin to its end, or the schedules are not known to follow
AloneInv ==
  \A r \in Savers :
    IF save[r].alone THEN save[r] # NoSave => Alone(r) ELSE apart = Named

\* what a PUT that nothing disturbs has written
PutInv ==
  \A r \in Savers : save[r].alone =>
    /\ save[r].step = "waits" => save[r].at = 1
    /\ save[r].step = "writes" =>
         \A name \in Named : Names(r, name) /\ Passed(r, name) => setting[name] = save[r].values[name]
    /\ save[r].step = "updates" =>
         \A name \in Named : Names(r, name) =>
           /\ setting[name] = save[r].values[name]
           /\ Passed(r, name) /\ name \notin apart => Follows(name)

\* the intervals follow, but for those that a PUT is about to change
FollowInv ==
  settingsPhase = "up" =>
    \A name \in Named \ apart :
      Follows(name) \/ \E r \in Savers : save[r].step \in {"writes", "updates"} /\ Names(r, name)

SettingsInv == SettingsTypeOK /\ BootInv /\ AloneInv /\ PutInv /\ FollowInv

-----------------------------------------------------------------------------
(* Types *)

SettingValues == [Named -> Intervals \cup {0}]
SaveRecord == [step : {"none", "waits", "writes", "updates", "compares", "sets"},
               values : SettingValues, at : DOMAIN SettingNames, alone : BOOLEAN]

LEMMA SettingsTypeParts ==
  /\ SettingsTypeOK <=>
       /\ setting \in SettingValues /\ interval \in SettingValues /\ config \in SettingValues
       /\ settingsPhase \in {"down", "bootstrapped", "configured", "up"}
       /\ settingsMutex \in Savers \cup {"none"} /\ apart \subseteq Named
       /\ save \in [Savers -> SaveRecord]
  /\ SettingsTypeOK' <=>
       /\ setting' \in SettingValues /\ interval' \in SettingValues /\ config' \in SettingValues
       /\ settingsPhase' \in {"down", "bootstrapped", "configured", "up"}
       /\ settingsMutex' \in Savers \cup {"none"} /\ apart' \subseteq Named
       /\ save' \in [Savers -> SaveRecord]
  BY DEF SettingsTypeOK, SettingValues, SaveRecord

LEMMA OrderOfSettings ==
  /\ Len(SettingNames) \in Nat \ {0} /\ DOMAIN SettingNames = 1..Len(SettingNames)
  /\ \A n \in DOMAIN SettingNames : SettingNames[n] \in Named
  BY SettingsAssumption DEF Named

LEMMA NoSaveFits == NoSave \in SaveRecord /\ NoSave.step = "none" /\ NoSave.alone
<1>1. [name \in Named |-> 0] \in SettingValues
  BY DEF SettingValues
<1>2. 1 \in DOMAIN SettingNames
  BY OrderOfSettings
<1> QED BY <1>1, <1>2 DEF NoSave, SaveRecord

LEMMA UnderIsNamed == ASSUME SettingsTypeOK, NEW r \in Savers PROVE Under(r) \in Named
<1>1. save[r].at \in DOMAIN SettingNames
  BY SettingsTypeParts DEF SaveRecord
<1> QED BY <1>1, OrderOfSettings DEF Under

\* a request goes on to the next setting, or is through with them
LEMMA AdvancesTo ==
  ASSUME SettingsTypeOK, NEW r \in Savers, NEW over \in SaveRecord,
         NEW step \in {"writes", "updates", "compares"}, Advances(r, step, over)
  PROVE  /\ save' \in [Savers -> SaveRecord]
         /\ \A other \in Savers \ {r} : save'[other] = save[other]
         /\ save[r].at < Len(SettingNames) =>
              /\ save'[r].step = step /\ save'[r].at = save[r].at + 1
              /\ save'[r].values = save[r].values /\ save'[r].alone = save[r].alone
         /\ ~(save[r].at < Len(SettingNames)) => save'[r] = over /\ save[r].at = Len(SettingNames)
<1>1. save \in [Savers -> SaveRecord] /\ save[r] \in SaveRecord
  BY SettingsTypeParts
<1>2. save[r].at \in 1..Len(SettingNames)
  BY <1>1, OrderOfSettings DEF SaveRecord
<1> DEFINE next == [save[r] EXCEPT !.at = save[r].at + 1, !.step = step]
<1>3. save[r].at < Len(SettingNames) => save[r].at + 1 \in DOMAIN SettingNames
  BY <1>2, OrderOfSettings
<1>4. save[r].at < Len(SettingNames) =>
        /\ next \in SaveRecord /\ next.step = step /\ next.at = save[r].at + 1
        /\ next.values = save[r].values /\ next.alone = save[r].alone
  BY <1>1, <1>3 DEF SaveRecord
<1>5. save' = [save EXCEPT ![r] = IF save[r].at < Len(SettingNames) THEN next ELSE over]
  BY DEF Advances
<1> HIDE DEF next
<1> QED BY <1>1, <1>2, <1>4, <1>5, OrderOfSettings

-----------------------------------------------------------------------------
(* The start *)

LEMMA SettingsBootStep ==
  ASSUME SettingsInv, BootstrapGlobalSettings \/ ReadsConfig \/ RegistersSchedules \/ SettingsCrash
  PROVE  SettingsInv'
<1> USE SettingsAssumption, NoSaveFits
<1>0. SettingsTypeOK /\ BootInv /\ AloneInv /\ PutInv /\ FollowInv
  BY DEF SettingsInv
<1>1. ASSUME settingsPhase # "up", \A r \in Savers : save'[r] = NoSave, SettingsTypeOK', BootInv', FollowInv'
      PROVE  SettingsInv'
  BY <1>1 DEF SettingsInv, AloneInv, PutInv
<1>2. CASE BootstrapGlobalSettings
  <2>1. setting' \in SettingValues
    BY <1>0, <1>2, SettingsTypeParts DEF BootstrapGlobalSettings, SettingValues
  <2>2. SettingsTypeOK'
    BY <1>0, <1>2, <2>1, SettingsTypeParts DEF BootstrapGlobalSettings
  <2> QED BY <1>0, <1>1, <1>2, <2>2 DEF BootstrapGlobalSettings, BootInv, FollowInv
<1>3. CASE ReadsConfig
  <2>1. SettingsTypeOK'
    BY <1>0, <1>3, SettingsTypeParts DEF ReadsConfig
  <2> QED BY <1>0, <1>1, <1>3, <2>1 DEF ReadsConfig, BootInv, FollowInv
<1>4. CASE RegistersSchedules
  <2>1. SettingsTypeOK'
    BY <1>0, <1>4, SettingsTypeParts DEF RegistersSchedules
  <2>2. FollowInv'
    BY <1>0, <1>4 DEF RegistersSchedules, BootInv, FollowInv, Follows
  <2> QED BY <1>0, <1>1, <1>4, <2>1, <2>2 DEF RegistersSchedules, BootInv
<1>5. CASE SettingsCrash
  <2>1. save' \in [Savers -> SaveRecord] /\ \A r \in Savers : save'[r] = NoSave
    BY <1>5 DEF SettingsCrash
  <2>2. SettingsTypeOK'
    BY <1>0, <1>5, <2>1, SettingsTypeParts DEF SettingsCrash
  <2> QED BY <1>5, <2>1, <2>2 DEF SettingsCrash, SettingsInv, BootInv, AloneInv, PutInv, FollowInv
<1> QED BY <1>2, <1>3, <1>4, <1>5

-----------------------------------------------------------------------------
(* The saves *)

\* a request that comes beside others sets none of them apart from the rest: all are
LEMMA SaveBegins ==
  ASSUME SettingsInv, NEW r \in Savers, NEW values \in SettingValues, NEW step \in {"waits", "compares"},
         Saves(r, step, values)
  PROVE  SettingsInv'
<1> USE NoSaveFits
<1>0. SettingsTypeOK /\ BootInv /\ AloneInv /\ PutInv /\ FollowInv /\ save \in [Savers -> SaveRecord]
  BY SettingsTypeParts DEF SettingsInv
<1> DEFINE new == [step |-> step, values |-> values, at |-> 1, alone |-> Alone(r)]
           crowded(other) == [save[other] EXCEPT !.alone = FALSE]
<1>1. new \in SaveRecord /\ new.step = step /\ new.at = 1 /\ new.alone = Alone(r)
  BY OrderOfSettings DEF SaveRecord, Alone
<1>2. \A other \in Savers : crowded(other) \in SaveRecord /\ ~crowded(other).alone
  BY <1>0 DEF SaveRecord
<1>3. save' = [other \in Savers |-> IF other = r THEN new ELSE IF save[other] = NoSave THEN NoSave ELSE crowded(other)]
  BY DEF Saves
<1> HIDE DEF new, crowded
<1>4. /\ save' \in [Savers -> SaveRecord] /\ save'[r] = new
      /\ \A other \in Savers \ {r} : IF save[other] = NoSave THEN save'[other] = NoSave ELSE ~save'[other].alone
  BY <1>1, <1>2, <1>3
<1>5. /\ UNCHANGED <<setting, interval, config, settingsPhase, settingsMutex>> /\ settingsPhase = "up"
      /\ apart' = IF Alone(r) THEN apart ELSE Named
      /\ save[r] = NoSave
  BY DEF Saves
<1>6. SettingsTypeOK'
  BY <1>0, <1>4, <1>5, SettingsTypeParts
<1>7. BootInv'
  BY <1>5 DEF BootInv
<1>8. AloneInv'
  BY <1>1, <1>4, <1>5 DEF AloneInv, Alone
<1>9. PutInv'
  BY <1>1, <1>4, <1>5 DEF PutInv
<1>10. FollowInv'
  <2>1. CASE Alone(r)
    <3>1. \A other \in Savers : save[other] = NoSave
      BY <1>5, <2>1 DEF Alone
    <3>2. \A name \in Named \ apart : Follows(name)
      BY <1>0, <1>5, <3>1 DEF FollowInv
    <3> QED BY <1>5, <2>1, <3>2 DEF FollowInv, Follows
  <2>2. CASE ~Alone(r)
    BY <1>5, <2>2 DEF FollowInv
  <2> QED BY <2>1, <2>2
<1> QED BY <1>6, <1>7, <1>8, <1>9, <1>10 DEF SettingsInv

\* what PutInv and FollowInv say when the request is alone
PutHas(r) ==
  /\ save[r].step = "waits" => save[r].at = 1
  /\ save[r].step = "writes" =>
       \A name \in Named : Names(r, name) /\ Passed(r, name) => setting[name] = save[r].values[name]
  /\ save[r].step = "updates" =>
       \A name \in Named : Names(r, name) =>
         /\ setting[name] = save[r].values[name]
         /\ Passed(r, name) /\ name \notin apart => Follows(name)

PutFollows(r) ==
  \A name \in Named \ apart :
    Follows(name) \/ (save[r].step \in {"writes", "updates"} /\ Names(r, name))

LEMMA AloneHas ==
  ASSUME SettingsInv, NEW r \in Savers, save[r] # NoSave, save[r].alone
  PROVE  PutHas(r) /\ PutFollows(r)
<1>1. \A other \in Savers \ {r} : save[other] = NoSave
  BY DEF SettingsInv, AloneInv, Alone
<1>2. settingsPhase = "up"
  BY DEF SettingsInv, BootInv
<1> QED BY <1>1, <1>2, NoSaveFits DEF SettingsInv, PutInv, FollowInv, PutHas, PutFollows

\* what is to be shown of a step of a request that has begun: it stays alone or not, and
\* the others are not touched
LEMMA SettingRequestStep ==
  ASSUME SettingsInv, NEW r \in Savers, save[r] # NoSave,
         SettingsTypeOK', UNCHANGED <<config, settingsPhase>>,
         \A other \in Savers \ {r} : save'[other] = save[other],
         save'[r].alone = save[r].alone \/ save'[r] = NoSave,
         ~save[r].alone /\ apart = Named => apart' = Named,
         save[r].alone => PutHas(r)' /\ PutFollows(r)'
  PROVE  SettingsInv'
<1> USE NoSaveFits
<1>0. SettingsTypeOK /\ BootInv /\ AloneInv
  BY DEF SettingsInv
<1>1. settingsPhase = "up" /\ BootInv'
  BY <1>0 DEF BootInv
<1>2. /\ save[r].alone => Alone(r) /\ Alone(r)'
      /\ ~save[r].alone => apart = Named /\ apart' = Named
  BY <1>0 DEF AloneInv, Alone
<1>3. \A other \in Savers \ {r} : save[other].alone => save[other] = NoSave
  BY <1>0 DEF AloneInv, Alone
<1>4. AloneInv'
  BY <1>0, <1>2, <1>3 DEF AloneInv, Alone
<1>5. PutInv'
  <2> SUFFICES ASSUME NEW q \in Savers, save'[q].alone, save'[q] # NoSave
               PROVE  PutHas(q)'
    BY DEF PutInv, PutHas
  <2> QED BY <1>3
<1>6. FollowInv'
  BY <1>2 DEF FollowInv, PutFollows
<1> QED BY <1>1, <1>4, <1>5, <1>6 DEF SettingsInv

LEMMA BatchBeginsStep == ASSUME SettingsInv, NEW r \in Savers, BatchBegins(r) PROVE SettingsInv'
<1>0. SettingsTypeOK /\ save \in [Savers -> SaveRecord] /\ save[r] # NoSave
  BY SettingsTypeParts, NoSaveFits DEF SettingsInv, BatchBegins
<1>1. /\ save' \in [Savers -> SaveRecord] /\ \A other \in Savers \ {r} : save'[other] = save[other]
      /\ save'[r].step = "writes" /\ save'[r].at = save[r].at /\ save'[r].values = save[r].values
      /\ save'[r].alone = save[r].alone
  BY <1>0 DEF BatchBegins, SaveRecord
<1>2. SettingsTypeOK'
  BY <1>0, <1>1, SettingsTypeParts DEF BatchBegins
<1>3. save[r].alone => PutHas(r)' /\ PutFollows(r)'
  <2> SUFFICES ASSUME save[r].alone PROVE PutHas(r)' /\ PutFollows(r)'
    OBVIOUS
  <2>1. PutHas(r) /\ PutFollows(r) /\ save[r].at = 1
    BY <1>0, AloneHas DEF PutHas, BatchBegins
  <2>2. \A name \in Named : ~Passed(r, name)'
    BY <1>1, <2>1, OrderOfSettings DEF Passed
  <2>3. \A name \in Named \ apart : Follows(name)
    BY <2>1 DEF PutFollows, BatchBegins
  <2> QED BY <1>1, <2>2, <2>3 DEF PutHas, PutFollows, BatchBegins, Follows
<1> QED BY <1>0, <1>1, <1>2, <1>3, SettingRequestStep DEF BatchBegins

LEMMA WritesSettingStep == ASSUME SettingsInv, NEW r \in Savers, WritesSetting(r) PROVE SettingsInv'
<1>0. /\ SettingsTypeOK /\ save \in [Savers -> SaveRecord] /\ save[r] # NoSave /\ save[r] \in SaveRecord
      /\ Under(r) \in Named /\ setting \in SettingValues /\ save[r].values \in SettingValues
  BY SettingsTypeParts, UnderIsNamed, NoSaveFits DEF SettingsInv, WritesSetting, SaveRecord
<1> DEFINE over == [save[r] EXCEPT !.step = "updates", !.at = 1]
<1>1. /\ over \in SaveRecord /\ over.step = "updates" /\ over.at = 1 /\ over.values = save[r].values
      /\ over.alone = save[r].alone
  <2>1. 1 \in DOMAIN SettingNames
    BY OrderOfSettings
  <2> QED BY <1>0, <2>1 DEF SaveRecord
<1>2. Advances(r, "writes", over)
  BY DEF WritesSetting
<1> HIDE DEF over
<1>3. /\ save' \in [Savers -> SaveRecord] /\ \A other \in Savers \ {r} : save'[other] = save[other]
      /\ save[r].at < Len(SettingNames) => save'[r].step = "writes" /\ save'[r].at = save[r].at + 1
      /\ ~(save[r].at < Len(SettingNames)) =>
           save'[r].step = "updates" /\ save'[r].at = 1 /\ save[r].at = Len(SettingNames)
      /\ save'[r].values = save[r].values /\ save'[r].alone = save[r].alone
  BY <1>0, <1>1, <1>2, AdvancesTo
<1>4. setting' = [setting EXCEPT ![Under(r)] = IF save[r].values[Under(r)] = 0 THEN setting[Under(r)]
                                               ELSE save[r].values[Under(r)]]
  BY DEF WritesSetting
<1>5. /\ setting' \in SettingValues
      /\ \A name \in Named : setting'[name] =
           IF name = Under(r) /\ Names(r, name) THEN save[r].values[name] ELSE setting[name]
  BY <1>0, <1>4 DEF SettingValues, Names
<1>6. SettingsTypeOK'
  BY <1>0, <1>3, <1>5, SettingsTypeParts DEF WritesSetting
<1>7. save[r].alone => PutHas(r)' /\ PutFollows(r)'
  <2> SUFFICES ASSUME save[r].alone PROVE PutHas(r)' /\ PutFollows(r)'
    OBVIOUS
  <2>1. /\ \A name \in Named : Names(r, name) /\ Passed(r, name) => setting[name] = save[r].values[name]
        /\ PutFollows(r)
    BY <1>0, AloneHas DEF PutHas, WritesSetting
  <2>2. save[r].at \in 1..Len(SettingNames)
    BY <1>0, OrderOfSettings DEF SaveRecord
  <2>3. \A n \in DOMAIN SettingNames : n < save[r].at + 1 =>
          SettingNames[n] = Under(r) \/ Passed(r, SettingNames[n])
    BY <2>2, OrderOfSettings DEF Under, Passed
  <2>4. \A n \in DOMAIN SettingNames : n < save[r].at + 1 /\ Names(r, SettingNames[n]) =>
          setting'[SettingNames[n]] = save[r].values[SettingNames[n]]
    BY <1>5, <2>1, <2>3, OrderOfSettings
  <2>5. \A name \in Named : Names(r, name)' <=> Names(r, name)
    BY <1>3 DEF Names
  <2>6. CASE save[r].at < Len(SettingNames)
    <3>1. \A name \in Named : Names(r, name) /\ Passed(r, name)' => setting'[name] = save[r].values[name]
      BY <1>3, <2>4, <2>6 DEF Passed
    <3> QED BY <1>3, <1>5, <2>1, <2>5, <2>6, <3>1 DEF PutHas, PutFollows, Follows, WritesSetting
  <2>7. CASE ~(save[r].at < Len(SettingNames))
    <3>1. \A name \in Named : \E n \in DOMAIN SettingNames : n < save[r].at + 1 /\ SettingNames[n] = name
      BY <1>3, <2>7, OrderOfSettings DEF Named
    <3>2. \A name \in Named : Names(r, name) => setting'[name] = save[r].values[name]
      BY <2>4, <3>1
    <3>3. \A name \in Named : ~Passed(r, name)'
      BY <1>3, <2>7, OrderOfSettings DEF Passed
    <3> QED BY <1>3, <1>5, <2>1, <2>5, <2>7, <3>2, <3>3 DEF PutHas, PutFollows, Follows, WritesSetting
  <2> QED BY <2>6, <2>7
<1> QED BY <1>0, <1>3, <1>6, <1>7, SettingRequestStep DEF WritesSetting

LEMMA BatchFailsStep == ASSUME SettingsInv, NEW r \in Savers, BatchFails(r) \/ PageFails(r) PROVE SettingsInv'
<1>0. SettingsTypeOK /\ save \in [Savers -> SaveRecord] /\ save[r] # NoSave
  BY SettingsTypeParts, NoSaveFits DEF SettingsInv, BatchFails, PageFails
<1>1. /\ save' \in [Savers -> SaveRecord] /\ \A other \in Savers \ {r} : save'[other] = save[other]
      /\ save'[r] = NoSave
  BY <1>0, NoSaveFits DEF BatchFails, PageFails
<1>2. apart' \subseteq Named /\ apart \subseteq apart'
  BY <1>0, SettingsTypeParts DEF BatchFails, PageFails
<1>3. SettingsTypeOK'
  BY <1>0, <1>1, <1>2, SettingsTypeParts DEF BatchFails, PageFails
<1>4. save[r].alone => PutHas(r)' /\ PutFollows(r)'
  <2> SUFFICES ASSUME save[r].alone PROVE PutHas(r)' /\ PutFollows(r)'
    OBVIOUS
  <2>1. PutFollows(r)
    BY <1>0, AloneHas
  <2> QED BY <1>1, <2>1, NoSaveFits DEF PutHas, PutFollows, Follows, Names, BatchFails, PageFails
<1> QED BY <1>0, <1>1, <1>2, <1>3, <1>4, SettingRequestStep DEF BatchFails, PageFails

LEMMA UpdatesScheduleStep == ASSUME SettingsInv, NEW r \in Savers, UpdatesSchedule(r) PROVE SettingsInv'
<1>0. /\ SettingsTypeOK /\ save \in [Savers -> SaveRecord] /\ save[r] # NoSave /\ save[r] \in SaveRecord
      /\ Under(r) \in Named /\ interval \in SettingValues /\ save[r].values \in SettingValues /\ apart \subseteq Named
  BY SettingsTypeParts, UnderIsNamed, NoSaveFits DEF SettingsInv, UpdatesSchedule, SaveRecord
<1>1. /\ save' \in [Savers -> SaveRecord] /\ \A other \in Savers \ {r} : save'[other] = save[other]
      /\ save[r].at < Len(SettingNames) =>
           /\ save'[r].step = "updates" /\ save'[r].at = save[r].at + 1
           /\ save'[r].values = save[r].values /\ save'[r].alone = save[r].alone
      /\ ~(save[r].at < Len(SettingNames)) => save'[r] = NoSave /\ save[r].at = Len(SettingNames)
  BY <1>0, AdvancesTo, NoSaveFits DEF UpdatesSchedule
<1>2. /\ interval' \in SettingValues
      /\ \A name \in Named : interval'[name] = interval[name]
           \/ (name = Under(r) /\ Names(r, name) /\ interval'[name] = save[r].values[name])
      /\ apart' \subseteq Named /\ apart \ {Under(r)} \subseteq apart'
      /\ ~save[r].alone => apart \subseteq apart'
      /\ Under(r) \in apart' \/ ~Names(r, Under(r)) \/ interval'[Under(r)] = save[r].values[Under(r)]
      /\ Under(r) \in apart' \/ Under(r) \notin apart \/ (Names(r, Under(r)) /\ interval'[Under(r)] = save[r].values[Under(r)])
  <2> DEFINE new == save[r].values[Under(r)]
  <2>1. CASE interval' = [interval EXCEPT ![Under(r)] = IF new = 0 THEN @ ELSE new]
             /\ apart' = IF new # 0 /\ save[r].alone THEN apart \ {Under(r)} ELSE apart
    BY <1>0, <2>1 DEF SettingValues, Names
  <2>2. CASE interval' = interval /\ apart' = apart \cup {Under(r)}
    BY <1>0, <2>2 DEF SettingValues, Names
  <2> QED BY <2>1, <2>2 DEF UpdatesSchedule
<1>3. SettingsTypeOK'
  BY <1>0, <1>1, <1>2, SettingsTypeParts DEF UpdatesSchedule
<1>4. save[r].alone => PutHas(r)' /\ PutFollows(r)'
  <2> SUFFICES ASSUME save[r].alone PROVE PutHas(r)' /\ PutFollows(r)'
    OBVIOUS
  <2>1. /\ \A name \in Named : Names(r, name) =>
             setting[name] = save[r].values[name] /\ (Passed(r, name) /\ name \notin apart => Follows(name))
        /\ PutFollows(r) /\ UNCHANGED setting
    BY <1>0, AloneHas DEF PutHas, UpdatesSchedule
  <2>2. save[r].at \in 1..Len(SettingNames)
    BY <1>0, OrderOfSettings DEF SaveRecord
  <2>3. \A n \in DOMAIN SettingNames : n < save[r].at + 1 =>
          SettingNames[n] = Under(r) \/ Passed(r, SettingNames[n])
    BY <2>2, OrderOfSettings DEF Under, Passed
  <2>4. \A name \in Named \ apart' : Names(r, name) /\ (name = Under(r) \/ Passed(r, name)) => interval'[name] = setting[name]
    BY <1>2, <2>1 DEF Follows
  <2>5. \A name \in Named \ apart' : ~Names(r, name) => interval'[name] = setting[name]
    BY <1>2, <2>1 DEF PutFollows, Follows
  <2>6. CASE save[r].at < Len(SettingNames)
    <3>1. \A name \in Named : Passed(r, name)' => name = Under(r) \/ Passed(r, name)
      <4> SUFFICES ASSUME NEW name \in Named, Passed(r, name)' PROVE name = Under(r) \/ Passed(r, name)
        OBVIOUS
      <4> PICK n \in DOMAIN SettingNames : n < save'[r].at /\ SettingNames[n] = name
        BY DEF Passed
      <4> QED BY <1>1, <2>3, <2>6
    <3>2. \A name \in Named : Names(r, name)' <=> Names(r, name)
      BY <1>1, <2>6 DEF Names
    <3> QED BY <1>1, <2>1, <2>4, <2>5, <2>6, <3>1, <3>2 DEF PutHas, PutFollows, Follows
  <2>7. CASE ~(save[r].at < Len(SettingNames))
    <3>1. \A name \in Named : name = Under(r) \/ Passed(r, name)
      BY <1>1, <2>3, <2>7, OrderOfSettings DEF Named
    <3>2. \A name \in Named \ apart' : interval'[name] = setting[name]
      BY <2>4, <2>5, <3>1
    <3> QED BY <1>1, <2>1, <2>7, <3>2, NoSaveFits DEF PutHas, PutFollows, Follows
  <2> QED BY <2>6, <2>7
<1>5. save'[r].alone = save[r].alone \/ save'[r] = NoSave
  BY <1>1
<1> QED BY <1>0, <1>1, <1>2, <1>3, <1>4, <1>5, SettingRequestStep DEF UpdatesSchedule

LEMMA PageStep == ASSUME SettingsInv, NEW r \in Savers, ComparesSetting(r) \/ SetsSetting(r) PROVE SettingsInv'
<1>0. /\ SettingsTypeOK /\ save \in [Savers -> SaveRecord] /\ save[r] # NoSave /\ save[r] \in SaveRecord
      /\ Under(r) \in Named /\ setting \in SettingValues /\ save[r].values \in SettingValues /\ apart \subseteq Named
  BY SettingsTypeParts, UnderIsNamed, NoSaveFits DEF SettingsInv, ComparesSetting, SetsSetting, SaveRecord
<1>1. /\ save' \in [Savers -> SaveRecord] /\ \A other \in Savers \ {r} : save'[other] = save[other]
      /\ save'[r] = NoSave \/ (save'[r].step \in {"compares", "sets"} /\ save'[r].alone = save[r].alone)
  <2>1. CASE Advances(r, "compares", NoSave)
    BY <1>0, <2>1, AdvancesTo, NoSaveFits
  <2>2. CASE save' = [save EXCEPT ![r].step = "sets"]
    BY <1>0, <2>2 DEF SaveRecord
  <2> QED BY <2>1, <2>2 DEF ComparesSetting, SetsSetting
<1>2. /\ setting' \in SettingValues /\ apart' \subseteq Named /\ apart \subseteq apart'
      /\ \A name \in Named \ apart' : setting'[name] = setting[name]
  BY <1>0 DEF ComparesSetting, SetsSetting, SettingValues
<1>3. SettingsTypeOK' /\ UNCHANGED <<interval, config, settingsPhase>>
  BY <1>0, <1>1, <1>2, SettingsTypeParts DEF ComparesSetting, SetsSetting
<1>4. save[r].alone => PutHas(r)' /\ PutFollows(r)'
  <2> SUFFICES ASSUME save[r].alone PROVE PutHas(r)' /\ PutFollows(r)'
    OBVIOUS
  <2>1. \A name \in Named \ apart : Follows(name)
    BY <1>0, AloneHas DEF PutFollows, ComparesSetting, SetsSetting
  <2> QED BY <1>1, <1>2, <1>3, <2>1, NoSaveFits DEF PutHas, PutFollows, Follows
<1> QED BY <1>0, <1>1, <1>2, <1>3, <1>4, SettingRequestStep

-----------------------------------------------------------------------------
LEMMA SettingsInitInv == SettingsInit => SettingsInv
<1> SUFFICES ASSUME SettingsInit PROVE SettingsInv
  OBVIOUS
<1>1. setting \in SettingValues
  BY DEF SettingsInit, SettingValues
<1>2. SettingsTypeOK
  BY <1>1, NoSaveFits, SettingsTypeParts DEF SettingsInit
<1> QED BY <1>2, NoSaveFits DEF SettingsInit, SettingsInv, BootInv, AloneInv, PutInv, FollowInv

LEMMA SettingsStepInv == SettingsInv /\ [SettingsNext]_settingVars => SettingsInv'
<1> SUFFICES ASSUME SettingsInv, [SettingsNext]_settingVars PROVE SettingsInv'
  OBVIOUS
<1>1. ASSUME NEW r \in Savers, NEW values \in [Named -> Intervals \cup {0}], PutsSettings(r, values) \/ SavesPage(r, values)
      PROVE  SettingsInv'
  BY <1>1, SaveBegins DEF PutsSettings, SavesPage, SettingValues
<1>2. ASSUME NEW r \in Savers,
             \/ BatchBegins(r) \/ WritesSetting(r) \/ BatchFails(r) \/ UpdatesSchedule(r)
             \/ ComparesSetting(r) \/ SetsSetting(r) \/ PageFails(r)
      PROVE  SettingsInv'
  BY <1>2, BatchBeginsStep, WritesSettingStep, BatchFailsStep, UpdatesScheduleStep, PageStep
<1>3. CASE UNCHANGED settingVars
  BY <1>3 DEF settingVars, SettingsInv, SettingsTypeOK, BootInv, AloneInv, Alone, PutInv, FollowInv, Follows, Passed, Names
<1> QED BY <1>1, <1>2, <1>3, SettingsBootStep DEF SettingsNext

LEMMA SettingsInvariant == SettingsSpec => []SettingsInv
<1>1. SettingsInit => SettingsInv
  BY SettingsInitInv
<1>2. SettingsInv /\ [SettingsNext]_settingVars => SettingsInv'
  BY SettingsStepInv
<1> QED BY <1>1, <1>2, PTL DEF SettingsSpec

\* Table, schedules, configuration and requests keep their types (settings_service.ts): a
\* request never passes its last setting.
THEOREM SettingsTypeCorrect == SettingsSpec => []SettingsTypeOK
<1>1. SettingsInv => SettingsTypeOK
  BY DEF SettingsInv
<1> QED BY <1>1, SettingsInvariant, PTL

\* A schedule runs at the interval that its setting shows, unless a save has failed, was one
\* of several, or came from the page: for any settings, intervals, requests and restarts.
THEOREM IntervalsFollowSettings == SettingsSpec => []IntervalsFollow
<1>1. SettingsInv => IntervalsFollow
  BY NoSaveFits DEF SettingsInv, FollowInv, Follows, IntervalsFollow
<1> QED BY <1>1, SettingsInvariant, PTL

=============================================================================
