---------------------------- MODULE GatewayProofs ----------------------------
(***************************************************************************)
(* Theorems about the two stores on their own (whatever calls are made, in *)
(* whatever order, with any writes failing and any number of restarts),    *)
(* then about the gateway over both, for all sets of ids, bearers, tokens  *)
(* and request slots.                                                      *)
(***************************************************************************)
EXTENDS Gateway, TLAPS

-----------------------------------------------------------------------------
\* The shape of the metadata.

LEMMA MintType ==
    ASSUME NEW new \in SUBSET (KeyId \cup AgentId \cup Bearer), StoreTypeOK, Mint(new)
    PROVE  minted' \subseteq KeyId \cup AgentId \cup Bearer
BY DEF Mint, StoreTypeOK

LEMMA PersistType ==
    ASSUME NEW saved \in BOOLEAN, StoreTypeOK, mem' \in AgentsState, Persist(saved)
    PROVE  disk' \in AgentsState
BY DEF Persist, StoreTypeOK

\* An entry that is edited in place stays an entry.
LEMMA EntryType ==
    ASSUME NEW a \in AgentId, StoreTypeOK, a \in Present(mem)
    PROVE  mem.agents[a] \in Agent
BY DEF StoreTypeOK, Present, AgentsState

LEMMA StoreTypeStep == StoreTypeOK /\ [StoreNext]_storeVars => StoreTypeOK'
<1>. SUFFICES ASSUME StoreTypeOK, [StoreNext]_storeVars PROVE StoreTypeOK'
  OBVIOUS
<1>1. CASE Reload
  BY <1>1 DEF Reload, StoreTypeOK
<1>2. ASSUME NEW saved \in BOOLEAN, NEW k \in KeyId, AddKey(k, saved)
      PROVE  StoreTypeOK'
  <2>1. mem' \in AgentsState
    BY <1>2 DEF StoreTypeOK, AddKey, AgentsState
  <2>. QED
    BY <1>2, <2>1, MintType, PersistType DEF StoreTypeOK, AddKey
<1>3. ASSUME NEW saved \in BOOLEAN, NEW k \in KeyId, DeleteKey(k, saved)
      PROVE  StoreTypeOK'
  <2>1. mem' \in AgentsState
    BY <1>3 DEF StoreTypeOK, DeleteKey, AgentsState
  <2>. QED
    BY <1>3, <2>1, PersistType DEF StoreTypeOK, DeleteKey
<1>4. ASSUME NEW saved \in BOOLEAN, NEW a \in AgentId, NEW b \in Bearer, RotateBearer(a, b, saved)
      PROVE  StoreTypeOK'
  <2>. DEFINE new == [mem.agents[a] EXCEPT !.bearer_sha256 = sha256Hex(b)]
  <2>1. mem' \in AgentsState
    <3>1. mem.agents[a] \in Agent
      BY <1>4, EntryType DEF RotateBearer
    <3>2. new \in Agent
      BY <3>1 DEF Agent
    <3>3. mem' = [mem EXCEPT !.agents = [@ EXCEPT ![a] = new]]
      BY <1>4 DEF RotateBearer, StoreTypeOK, AgentsState
    <3>. HIDE DEF new
    <3>. QED
      BY <1>4, <3>2, <3>3 DEF StoreTypeOK, AgentsState
  <2>. QED
    BY <1>4, <2>1, MintType, PersistType DEF StoreTypeOK, RotateBearer
<1>5. ASSUME NEW saved \in BOOLEAN, NEW a \in AgentId, NEW b \in Bearer, NEW k \in KeyId,
             CreateAgent(a, b, k, saved)
      PROVE  StoreTypeOK'
  <2>1. [bearer_sha256 |-> sha256Hex(b), key_id |-> k, enabled |-> TRUE] \in Agent
    BY DEF Agent
  <2>2. mem' \in AgentsState
    BY <1>5, <2>1 DEF StoreTypeOK, CreateAgent, AgentsState
  <2>. QED
    BY <1>5, <2>2, MintType, PersistType DEF StoreTypeOK, CreateAgent
<1>6. ASSUME NEW saved \in BOOLEAN, NEW a \in AgentId, NEW k \in KeyId, RebindAgent(a, k, saved)
      PROVE  StoreTypeOK'
  <2>1. mem' \in AgentsState
    BY <1>6, EntryType DEF StoreTypeOK, RebindAgent, AgentsState, Agent
  <2>. QED
    BY <1>6, <2>1, PersistType DEF StoreTypeOK, RebindAgent
<1>7. ASSUME NEW saved \in BOOLEAN, NEW a \in AgentId, NEW enabled \in BOOLEAN,
             SetAgentEnabled(a, enabled, saved)
      PROVE  StoreTypeOK'
  <2>1. mem' \in AgentsState
    BY <1>7, EntryType DEF StoreTypeOK, SetAgentEnabled, AgentsState, Agent
  <2>. QED
    BY <1>7, <2>1, PersistType DEF StoreTypeOK, SetAgentEnabled
<1>8. ASSUME NEW saved \in BOOLEAN, NEW a \in AgentId, DeleteAgent(a, saved)
      PROVE  StoreTypeOK'
  <2>1. mem' \in AgentsState
    BY <1>8 DEF StoreTypeOK, DeleteAgent, AgentsState
  <2>. QED
    BY <1>8, <2>1, PersistType DEF StoreTypeOK, DeleteAgent
<1>9. CASE UNCHANGED storeVars
  BY <1>9 DEF storeVars, StoreTypeOK
<1>. QED
  BY <1>1, <1>2, <1>3, <1>4, <1>5, <1>6, <1>7, <1>8, <1>9 DEF StoreNext

-----------------------------------------------------------------------------

(***************************************************************************)
(* No order of calls, failed writes and restarts leaves an agent bound to  *)
(* a key that does not exist.  The invariant is inductive: a write that    *)
(* fails leaves the file at an earlier memory, which satisfied it too.     *)
(***************************************************************************)
LEMMA BoundStep == StoreTypeOK /\ ReferentialIntegrity /\ [StoreNext]_storeVars
                     => ReferentialIntegrity'
<1>. SUFFICES ASSUME StoreTypeOK, ReferentialIntegrity, [StoreNext]_storeVars
              PROVE  ReferentialIntegrity'
  OBVIOUS
<1>. USE DEF ReferentialIntegrity
<1>1. ASSUME NEW saved \in BOOLEAN, AgentsBound(mem)', Persist(saved)
      PROVE  ReferentialIntegrity'
  BY <1>1 DEF Persist, AgentsBound, Present
<1>2. CASE Reload
  BY <1>2 DEF Reload, AgentsBound, Present
<1>3. ASSUME NEW saved \in BOOLEAN, NEW k \in KeyId, AddKey(k, saved)
      PROVE  ReferentialIntegrity'
  BY <1>1, <1>3 DEF AddKey, AgentsBound, Present, StoreTypeOK, AgentsState
<1>4. ASSUME NEW saved \in BOOLEAN, NEW k \in KeyId, DeleteKey(k, saved)
      PROVE  ReferentialIntegrity'
  BY <1>1, <1>4 DEF DeleteKey, Referencing, AgentsBound, Present, StoreTypeOK, AgentsState
<1>5. ASSUME NEW saved \in BOOLEAN, NEW a \in AgentId, NEW b \in Bearer, RotateBearer(a, b, saved)
      PROVE  ReferentialIntegrity'
  BY <1>1, <1>5, EntryType
  DEF RotateBearer, AgentsBound, Present, StoreTypeOK, AgentsState, Agent
<1>6. ASSUME NEW saved \in BOOLEAN, NEW a \in AgentId, NEW b \in Bearer, NEW k \in KeyId,
             CreateAgent(a, b, k, saved)
      PROVE  ReferentialIntegrity'
  BY <1>1, <1>6 DEF CreateAgent, AgentsBound, Present, StoreTypeOK, AgentsState
<1>7. ASSUME NEW saved \in BOOLEAN, NEW a \in AgentId, NEW k \in KeyId, RebindAgent(a, k, saved)
      PROVE  ReferentialIntegrity'
  BY <1>1, <1>7, EntryType
  DEF RebindAgent, AgentsBound, Present, StoreTypeOK, AgentsState, Agent
<1>8. ASSUME NEW saved \in BOOLEAN, NEW a \in AgentId, NEW enabled \in BOOLEAN,
             SetAgentEnabled(a, enabled, saved)
      PROVE  ReferentialIntegrity'
  BY <1>1, <1>8, EntryType
  DEF SetAgentEnabled, AgentsBound, Present, StoreTypeOK, AgentsState, Agent
<1>9. ASSUME NEW saved \in BOOLEAN, NEW a \in AgentId, DeleteAgent(a, saved)
      PROVE  ReferentialIntegrity'
  BY <1>1, <1>9 DEF DeleteAgent, AgentsBound, Present, StoreTypeOK, AgentsState
<1>10. CASE UNCHANGED storeVars
  BY <1>10 DEF storeVars, AgentsBound, Present
<1>. QED
  BY <1>2, <1>3, <1>4, <1>5, <1>6, <1>7, <1>8, <1>9, <1>10 DEF StoreNext

THEOREM StoreKeepsAgentsBound == StoreSpec => []ReferentialIntegrity
<1>1. StoreInit => StoreTypeOK /\ ReferentialIntegrity
  BY DEF StoreInit, StoreTypeOK, ReferentialIntegrity, AgentsBound, Present, Empty, AgentsState
<1>. QED
  BY <1>1, StoreTypeStep, BoundStep, PTL DEF StoreSpec

-----------------------------------------------------------------------------

(***************************************************************************)
(* Every stored hash is that of a bearer drawn before, so a fresh bearer   *)
(* collides with none, in memory or in the file.                           *)
(***************************************************************************)
HashesOf(m) == {m.agents[a].bearer_sha256 : a \in Present(m)}
HashesMinted == \A b \in Bearer : sha256Hex(b) \in HashesOf(mem) \cup HashesOf(disk)
                                     => b \in minted

BearerInv == HashesMinted /\ BearersUnique

LEMMA BearerStep == StoreTypeOK /\ BearerInv /\ [StoreNext]_storeVars => BearerInv'
<1>. SUFFICES ASSUME StoreTypeOK, BearerInv, [StoreNext]_storeVars
              PROVE  BearerInv'
  OBVIOUS
<1>. USE DEF BearerInv, HashesMinted, BearersUnique
<1>1. ASSUME NEW saved \in BOOLEAN, Persist(saved), minted \subseteq minted',
             OneAgentPerBearer(mem)',
             \A b \in Bearer : sha256Hex(b) \in HashesOf(mem)' => b \in minted'
      PROVE  BearerInv'
  BY <1>1 DEF Persist, OneAgentPerBearer, HashesOf, Present
\* A step that leaves each hash where it was, or drops one.
<1>2. ASSUME NEW saved \in BOOLEAN, Persist(saved), UNCHANGED minted,
             \A a \in Present(mem)' : /\ a \in Present(mem)
                                     /\ mem'.agents[a].bearer_sha256 = mem.agents[a].bearer_sha256
      PROVE  BearerInv'
  BY <1>1, <1>2 DEF OneAgentPerBearer, HashesOf
\* A step that gives a the fresh bearer b.
<1>3. ASSUME NEW saved \in BOOLEAN, Persist(saved), NEW a \in AgentId, NEW b \in Bearer,
             b \notin minted, b \in minted', minted \subseteq minted',
             mem'.agents[a].bearer_sha256 = sha256Hex(b),
             \A a2 \in Present(mem)' \ {a} : /\ a2 \in Present(mem)
                                           /\ mem'.agents[a2] = mem.agents[a2]
      PROVE  BearerInv'
  <2>1. \A a2 \in Present(mem) : mem.agents[a2].bearer_sha256 # sha256Hex(b)
    BY <1>3 DEF HashesOf
  <2>2. OneAgentPerBearer(mem)'
    BY <1>3, <2>1 DEF OneAgentPerBearer
  <2>3. ASSUME NEW c \in Bearer, sha256Hex(c) \in HashesOf(mem)' PROVE c \in minted'
    <3>1. PICK a2 \in Present(mem)' : mem'.agents[a2].bearer_sha256 = sha256Hex(c)
      BY <2>3 DEF HashesOf
    <3>2. CASE a2 = a
      BY <1>3, <3>1, <3>2 DEF sha256Hex
    <3>3. CASE a2 # a
      BY <1>3, <3>1, <3>3 DEF HashesOf
    <3>. QED
      BY <3>2, <3>3
  <2>. QED
    BY <1>1, <1>3, <2>2, <2>3
<1>4. CASE Reload
  BY <1>4 DEF Reload, OneAgentPerBearer, HashesOf, Present
<1>5. ASSUME NEW saved \in BOOLEAN, NEW k \in KeyId, AddKey(k, saved)
      PROVE  BearerInv'
  BY <1>1, <1>5 DEF AddKey, Mint, OneAgentPerBearer, HashesOf, Present, StoreTypeOK, AgentsState
<1>6. ASSUME NEW saved \in BOOLEAN, NEW k \in KeyId, DeleteKey(k, saved)
      PROVE  BearerInv'
  BY <1>2, <1>6 DEF DeleteKey, Present, StoreTypeOK, AgentsState
<1>7. ASSUME NEW saved \in BOOLEAN, NEW a \in AgentId, NEW b \in Bearer, RotateBearer(a, b, saved)
      PROVE  BearerInv'
  <2>1. mem'.agents[a].bearer_sha256 = sha256Hex(b)
    BY <1>7, EntryType DEF RotateBearer, StoreTypeOK, AgentsState, Agent
  <2>2. b \notin minted /\ b \in minted' /\ minted \subseteq minted'
    BY <1>7 DEF RotateBearer, Mint
  <2>3. \A a2 \in Present(mem)' \ {a} : a2 \in Present(mem) /\ mem'.agents[a2] = mem.agents[a2]
    BY <1>7 DEF RotateBearer, Present, StoreTypeOK, AgentsState
  <2>. QED
    BY <1>3, <1>7, <2>1, <2>2, <2>3 DEF RotateBearer
<1>8. ASSUME NEW saved \in BOOLEAN, NEW a \in AgentId, NEW b \in Bearer, NEW k \in KeyId,
             CreateAgent(a, b, k, saved)
      PROVE  BearerInv'
  <2>1. mem'.agents[a].bearer_sha256 = sha256Hex(b)
    BY <1>8 DEF CreateAgent, StoreTypeOK, AgentsState
  <2>2. b \notin minted /\ b \in minted' /\ minted \subseteq minted'
    BY <1>8 DEF CreateAgent, Mint
  <2>3. \A a2 \in Present(mem)' \ {a} : a2 \in Present(mem) /\ mem'.agents[a2] = mem.agents[a2]
    BY <1>8 DEF CreateAgent, Present, StoreTypeOK, AgentsState
  <2>. QED
    BY <1>3, <1>8, <2>1, <2>2, <2>3 DEF CreateAgent
<1>9. ASSUME NEW saved \in BOOLEAN, NEW a \in AgentId, NEW k \in KeyId, RebindAgent(a, k, saved)
      PROVE  BearerInv'
  BY <1>2, <1>9, EntryType DEF RebindAgent, Present, StoreTypeOK, AgentsState, Agent
<1>10. ASSUME NEW saved \in BOOLEAN, NEW a \in AgentId, NEW enabled \in BOOLEAN,
              SetAgentEnabled(a, enabled, saved)
       PROVE  BearerInv'
  BY <1>2, <1>10, EntryType DEF SetAgentEnabled, Present, StoreTypeOK, AgentsState, Agent
<1>11. ASSUME NEW saved \in BOOLEAN, NEW a \in AgentId, DeleteAgent(a, saved)
       PROVE  BearerInv'
  BY <1>2, <1>11 DEF DeleteAgent, Present, StoreTypeOK, AgentsState
<1>12. CASE UNCHANGED storeVars
  BY <1>12 DEF storeVars, OneAgentPerBearer, HashesOf, Present
<1>. QED
  BY <1>4, <1>5, <1>6, <1>7, <1>8, <1>9, <1>10, <1>11, <1>12 DEF StoreNext

(***************************************************************************)
(* findAgentByBearer's first match is its only match, whatever was rotated *)
(* or created before: a bearer never leads to two agents.                  *)
(***************************************************************************)
THEOREM StoreKeepsBearersUnique == StoreSpec => []BearersUnique
<1>1. StoreInit => StoreTypeOK /\ BearerInv
  BY DEF StoreInit, StoreTypeOK, BearerInv, HashesMinted, HashesOf, BearersUnique,
         OneAgentPerBearer, Present, Empty, AgentsState
<1>. QED
  BY <1>1, StoreTypeStep, BearerStep, PTL DEF StoreSpec, BearerInv

-----------------------------------------------------------------------------
\* Where entries come from.

Holds(m, a, b) == a \in Present(m) /\ m.agents[a].bearer_sha256 = sha256Hex(b)

LEMMA CreatedHolds ==
    ASSUME NEW a \in AgentId, NEW b \in Bearer, NEW k \in KeyId, NEW saved \in BOOLEAN,
           StoreTypeOK, CreateAgent(a, b, k, saved),
           NEW a2 \in AgentId, NEW c \in Bearer, Holds(mem, a2, c)'
    PROVE  Holds(mem, a2, c) \/ (a2 = a /\ c = b)
BY DEF CreateAgent, Holds, Present, sha256Hex, StoreTypeOK, AgentsState

LEMMA RotatedHolds ==
    ASSUME NEW a \in AgentId, NEW b \in Bearer, NEW saved \in BOOLEAN,
           StoreTypeOK, RotateBearer(a, b, saved),
           NEW a2 \in AgentId, NEW c \in Bearer, Holds(mem, a2, c)'
    PROVE  IF a2 = a THEN c = b ELSE Holds(mem, a2, c)
BY EntryType DEF RotateBearer, Holds, Present, sha256Hex, StoreTypeOK, AgentsState, Agent

LEMMA DeletedHolds ==
    ASSUME NEW a \in AgentId, NEW saved \in BOOLEAN,
           StoreTypeOK, DeleteAgent(a, saved),
           NEW a2 \in AgentId, NEW c \in Bearer, Holds(mem, a2, c)'
    PROVE  a2 # a /\ Holds(mem, a2, c)
BY DEF DeleteAgent, Holds, Present, StoreTypeOK, AgentsState

LEMMA PersistedHolds ==
    ASSUME NEW saved \in BOOLEAN, Persist(saved),
           NEW a \in AgentId, NEW b \in Bearer, Holds(disk, a, b)'
    PROVE  IF saved THEN Holds(mem, a, b)' ELSE Holds(disk, a, b)
BY DEF Persist, Holds, Present

\* After any step an agent answers to a bearer it answered to before, in
\* memory or in the file, or to one just drawn.
LEMMA BearerSource ==
    ASSUME StoreTypeOK, [StoreNext]_storeVars,
           NEW a \in AgentId, NEW b \in Bearer, Holds(mem, a, b)' \/ Holds(disk, a, b)'
    PROVE  Holds(mem, a, b) \/ Holds(disk, a, b) \/ b \notin minted
<1>1. CASE Reload
  BY <1>1 DEF Reload, Holds, Present
<1>2. ASSUME NEW saved \in BOOLEAN, Persist(saved), Holds(mem, a, b)' => Holds(mem, a, b)
      PROVE  Holds(mem, a, b) \/ Holds(disk, a, b)
  BY <1>2, PersistedHolds
<1>3. ASSUME NEW saved \in BOOLEAN, NEW k \in KeyId, AddKey(k, saved) \/ DeleteKey(k, saved)
      PROVE  Holds(mem, a, b) \/ Holds(disk, a, b)
  BY <1>2, <1>3 DEF AddKey, DeleteKey, Holds, Present, StoreTypeOK, AgentsState
<1>4. ASSUME NEW saved \in BOOLEAN, NEW a1 \in AgentId, NEW c \in Bearer, RotateBearer(a1, c, saved)
      PROVE  Holds(mem, a, b) \/ Holds(disk, a, b) \/ b \notin minted
  BY <1>4, RotatedHolds, PersistedHolds DEF RotateBearer, Mint
<1>5. ASSUME NEW saved \in BOOLEAN, NEW a1 \in AgentId, NEW c \in Bearer, NEW k \in KeyId,
             CreateAgent(a1, c, k, saved)
      PROVE  Holds(mem, a, b) \/ Holds(disk, a, b) \/ b \notin minted
  BY <1>5, CreatedHolds, PersistedHolds DEF CreateAgent, Mint
<1>6. ASSUME NEW saved \in BOOLEAN, NEW a1 \in AgentId, NEW k \in KeyId, RebindAgent(a1, k, saved)
      PROVE  Holds(mem, a, b) \/ Holds(disk, a, b)
  BY <1>2, <1>6, EntryType DEF RebindAgent, Holds, Present, StoreTypeOK, AgentsState, Agent
<1>7. ASSUME NEW saved \in BOOLEAN, NEW a1 \in AgentId, NEW e \in BOOLEAN,
             SetAgentEnabled(a1, e, saved)
      PROVE  Holds(mem, a, b) \/ Holds(disk, a, b)
  BY <1>2, <1>7, EntryType DEF SetAgentEnabled, Holds, Present, StoreTypeOK, AgentsState, Agent
<1>8. ASSUME NEW saved \in BOOLEAN, NEW a1 \in AgentId, DeleteAgent(a1, saved)
      PROVE  Holds(mem, a, b) \/ Holds(disk, a, b)
  BY <1>2, <1>8, DeletedHolds DEF DeleteAgent
<1>9. CASE UNCHANGED storeVars
  BY <1>9 DEF storeVars, Holds, Present
<1>. QED
  BY <1>1, <1>3, <1>4, <1>5, <1>6, <1>7, <1>8, <1>9 DEF StoreNext

-----------------------------------------------------------------------------
\* The secret store.

LEMMA GetKeyType ==
    ASSUME NEW k \in AesKey, SecretTypeOK, GetKey(k)
    PROVE  aesKey' \in AesKey \cup {Absent} /\ salt' \in Salt \cup {Absent}
BY DEF SecretTypeOK, GetKey, LoadOrCreateSalt, AesKey

LEMMA SecretTypeStep == SecretTypeOK /\ [SecretNext]_secretVars => SecretTypeOK'
<1>. SUFFICES ASSUME SecretTypeOK, [SecretNext]_secretVars PROVE SecretTypeOK'
  OBVIOUS
<1>1. ASSUME NEW id \in KeyId, NEW t \in Token, SetSecret(id, t) PROVE SecretTypeOK'
  BY <1>1, GetKeyType DEF SetSecret, SecretTypeOK, Blob
<1>2. ASSUME NEW id \in KeyId, NEW t \in Token, GetSecret(id, t) PROVE SecretTypeOK'
  BY <1>2, GetKeyType DEF GetSecret, SecretTypeOK, Blob
<1>3. ASSUME NEW id \in KeyId, GetSecretThrows(id) PROVE SecretTypeOK'
  BY <1>3, GetKeyType DEF GetSecretThrows, GetKeyThrows, SecretTypeOK
<1>4. CASE SetSecretThrows
  BY <1>4, GetKeyType DEF SetSecretThrows, GetKeyThrows, SecretTypeOK
<1>. QED
  BY <1>1, <1>2, <1>3, <1>4 DEF SecretNext, DeleteSecret, ReopenSecrets, SecretTypeOK, secretVars

\* The AES key in memory comes from the salt in the file.
SaltInv == /\ SaltKept
           /\ aesKey # Absent => aesKey[2] = salt

SecretInv == SecretTypeOK /\ SaltInv

\* A key handed out comes from the salt in the file, and the salt in the file
\* is the one every entry was sealed with.
LEMMA GetKeyKeepsSalt ==
    ASSUME NEW k \in AesKey, SecretInv, GetKey(k)
    PROVE  /\ k[2] = salt'
           /\ aesKey' = k
           /\ salt # Absent => salt' = salt
BY AbsentAssumption DEF SecretInv, SaltInv, SecretTypeOK, GetKey, LoadOrCreateSalt, AesKey

LEMMA SecretStep == SecretInv /\ [SecretNext]_secretVars => SecretInv'
<1>. SUFFICES ASSUME SecretInv, [SecretNext]_secretVars PROVE SecretInv'
  OBVIOUS
<1>. USE DEF SecretInv
<1>1. ASSUME NEW k \in AesKey, GetKey(k), UNCHANGED <<secrets, passphrase>>
      PROVE  SecretInv'
  <2>1. SecretTypeOK'
    BY <1>1, GetKeyType DEF SecretTypeOK
  <2>2. SaltInv'
    BY <1>1, GetKeyKeepsSalt, AbsentAssumption DEF SaltInv, SaltKept, SecretTypeOK, Blob, AesKey
  <2>. QED
    BY <2>1, <2>2
<1>2. CASE UNCHANGED secretVars
  BY <1>2 DEF secretVars, SecretTypeOK, SaltInv, SaltKept
<1>3. CASE SetSecretThrows
  BY <1>1, <1>2, <1>3 DEF SetSecretThrows, GetKeyThrows, secretVars
<1>4. ASSUME NEW id \in KeyId, NEW t \in Token, SetSecret(id, t)
      PROVE  SecretInv'
  <2>1. PICK k \in AesKey :
           GetKey(k) /\ secrets' = [secrets EXCEPT ![id] = [sealedBy |-> k, token |-> t]]
    BY <1>4 DEF SetSecret
  <2>2. SecretTypeOK'
    BY <1>4, <2>1, GetKeyType DEF SetSecret, SecretTypeOK, Blob
  <2>3. SaltInv'
    BY <2>1, GetKeyKeepsSalt, AbsentAssumption DEF SaltInv, SaltKept, SecretTypeOK, Blob, AesKey
  <2>. QED
    BY <2>2, <2>3
<1>5. ASSUME NEW id \in KeyId, NEW t \in Token, GetSecret(id, t)
      PROVE  SecretInv'
  BY <1>1, <1>5 DEF GetSecret, SecretTypeOK, Blob
<1>6. ASSUME NEW id \in KeyId, GetSecretThrows(id)
      PROVE  SecretInv'
  BY <1>1, <1>2, <1>6 DEF GetSecretThrows, GetKeyThrows, secretVars
<1>7. ASSUME NEW id \in KeyId, DeleteSecret(id)
      PROVE  SecretInv'
  BY <1>7 DEF DeleteSecret, SecretTypeOK, SaltInv, SaltKept
<1>8. ASSUME NEW p \in Passphrase \cup {Absent}, ReopenSecrets(p)
      PROVE  SecretInv'
  BY <1>8 DEF ReopenSecrets, SecretTypeOK, SaltInv, SaltKept
<1>. QED
  BY <1>2, <1>3, <1>4, <1>5, <1>6, <1>7, <1>8 DEF SecretNext

(***************************************************************************)
(* The salt is created once and every entry was sealed with it: restarting *)
(* with the right passphrase opens everything that was ever stored.        *)
(***************************************************************************)
THEOREM StoreKeepsSalt == SecretSpec => []SaltKept
<1>1. SecretInit => SecretInv
  BY DEF SecretInit, SecretInv, SecretTypeOK, SaltInv, SaltKept
<1>. QED
  BY <1>1, SecretStep, PTL DEF SecretSpec, SecretInv, SaltInv

-----------------------------------------------------------------------------
\* What the variables hold, case by case.

LEMMA SuspendedType ==
    ASSUME busy \in Handler \cup {Absent}
    PROVE  /\ Suspended("storeKey") => busy.key \in KeyId /\ busy.token \in Token
           /\ Suspended("dropSecret") => busy.key \in KeyId
           /\ Suspended("patchEnabled") => busy.agent \in AgentId /\ busy.enabled \in BOOLEAN
BY DEF Suspended, Handler

LEMMA McpType ==
    ASSUME NEW r \in Request, mcp \in [Request -> McpRequest], mcp[r].pc # "idle"
    PROVE  /\ mcp[r].bearer \in Bearer
           /\ mcp[r].agent \in AgentId
           /\ mcp[r].key \in KeyId
           /\ mcp[r].pc = "admitted" => mcp[r].token = Absent
           /\ mcp[r].pc = "acting" => mcp[r].token \in Token
BY DEF McpRequest, NoRequest

LEMMA McpActing ==
    ASSUME NEW r \in Request, mcp \in [Request -> McpRequest], mcp[r].pc = "admitted",
           NEW t \in Token
    PROVE  [mcp[r] EXCEPT !.pc = "acting", !.token = t] \in McpRequest
<1>1. mcp[r] \in [pc : {"admitted"}, bearer : Bearer, agent : AgentId,
                  key : KeyId, token : {Absent}]
  BY DEF McpRequest, NoRequest
<1>. QED
  BY <1>1 DEF McpRequest

-----------------------------------------------------------------------------
\* A step of the gateway is, for each store, a step of that store or none.

LEMMA NextStore == TypeOK /\ [Next]_vars => [StoreNext]_storeVars
<1>. SUFFICES ASSUME TypeOK, [Next]_vars PROVE [StoreNext]_storeVars
  OBVIOUS
<1>1. ASSUME NEW saved \in BOOLEAN, KeyStep(saved) PROVE [StoreNext]_storeVars
  BY <1>1, SuspendedType
  DEF TypeOK, KeyStep, PostKey, RollBackKey, RemoveKey, DropSecret, StoreNext
<1>2. ASSUME NEW saved \in BOOLEAN, AgentStep(saved) PROVE [StoreNext]_storeVars
  BY <1>2 DEF AgentStep, PostAgent, PostRotate, PatchKeyId, PatchEnabled, RemoveAgent, StoreNext
<1>3. ASSUME NEW r \in Request, McpStep(r) PROVE [StoreNext]_storeVars
  BY <1>3 DEF McpStep, Authenticate, Serve, ServeFails, Finish
<1>. QED
  BY <1>1, <1>2, <1>3 DEF Next, StoreKey, PatchRejected, Restart, StoreNext, vars

LEMMA NextSecret == TypeOK /\ [Next]_vars => [SecretNext]_secretVars
<1>. SUFFICES ASSUME TypeOK, [Next]_vars PROVE [SecretNext]_secretVars
  OBVIOUS
<1>1. ASSUME NEW saved \in BOOLEAN, KeyStep(saved) PROVE [SecretNext]_secretVars
  BY <1>1, SuspendedType
  DEF TypeOK, KeyStep, PostKey, RollBackKey, RemoveKey, DropSecret, SecretNext
<1>2. ASSUME NEW saved \in BOOLEAN, AgentStep(saved) PROVE [SecretNext]_secretVars
  BY <1>2 DEF AgentStep, PostAgent, PostRotate, PatchKeyId, PatchEnabled, RemoveAgent
<1>3. ASSUME NEW r \in Request, McpStep(r) PROVE [SecretNext]_secretVars
  BY <1>3, McpType
  DEF TypeOK, McpStep, Authenticate, Serve, ServeFails, GetSecretMissing, Finish, SecretNext
<1>4. CASE StoreKey
  BY <1>4, SuspendedType DEF TypeOK, StoreKey, SecretNext
<1>. QED
  BY <1>1, <1>2, <1>3, <1>4 DEF Next, PatchRejected, Restart, SecretNext, vars

-----------------------------------------------------------------------------

LEMMA TypeInit == Init => TypeOK
<1>1. Empty \in AgentsState
  BY DEF Empty, AgentsState
<1>. QED
  BY <1>1 DEF Init, TypeOK, StoreInit, StoreTypeOK, SecretInit, SecretTypeOK, McpRequest

LEMMA TypeStep == TypeOK /\ [Next]_vars => TypeOK'
<1>. SUFFICES ASSUME TypeOK, [Next]_vars PROVE TypeOK'
  OBVIOUS
<1>. USE DEF TypeOK
<1>1. StoreTypeOK' /\ SecretTypeOK'
  BY NextStore, StoreTypeStep, NextSecret, SecretTypeStep
<1>2. ASSUME NEW saved \in BOOLEAN, KeyStep(saved) PROVE TypeOK'
  BY <1>1, <1>2, SuspendedType
  DEF KeyStep, PostKey, RollBackKey, RemoveKey, DropSecret, Handler, history
<1>3. ASSUME NEW saved \in BOOLEAN, AgentStep(saved) PROVE TypeOK'
  <2>1. ASSUME NEW a \in AgentId, NEW b \in Bearer,
               (\E k \in KeyId : PostAgent(a, b, k, saved)) \/ PostRotate(a, b, saved)
        PROVE  TypeOK'
    BY <1>1, <2>1 DEF PostAgent, PostRotate, IssuedTo
  <2>2. ASSUME NEW a \in AgentId, NEW k \in KeyId, NEW next \in AfterKeyId(a),
               PatchKeyId(a, k, next, saved)
        PROVE  TypeOK'
    BY <1>1, <2>2 DEF PatchKeyId, AfterKeyId, Handler, history
  <2>3. ASSUME NEW a \in AgentId,
               (\E enabled \in BOOLEAN : PatchEnabled(a, enabled, saved)) \/ RemoveAgent(a, saved)
        PROVE  TypeOK'
    BY <1>1, <2>3 DEF PatchEnabled, RemoveAgent, IssuedTo
  <2>. QED
    BY <1>3, <2>1, <2>2, <2>3 DEF AgentStep
<1>4. ASSUME NEW r \in Request, NEW b \in Bearer, Authenticate(r, b) PROVE TypeOK'
  <2>1. PICK a \in FindAgentByBearer(mem, b) :
          mcp' = [mcp EXCEPT ![r] = [pc |-> "admitted", bearer |-> b, agent |-> a,
                                     key |-> mem.agents[a].key_id, token |-> Absent]]
    BY <1>4 DEF Authenticate
  <2>2. a \in AgentId /\ mem.agents[a].key_id \in KeyId
    BY DEF FindAgentByBearer, Present, StoreTypeOK, AgentsState, Agent
  <2>. QED
    BY <1>1, <1>4, <2>1, <2>2 DEF Authenticate, McpRequest, history
<1>5. ASSUME NEW r \in Request, Serve(r) PROVE TypeOK'
  <2>1. PICK t \in Token : mcp' = [mcp EXCEPT ![r].pc = "acting", ![r].token = t]
    BY <1>5 DEF Serve
  <2>2. [mcp[r] EXCEPT !.pc = "acting", !.token = t] \in McpRequest
    BY <1>1, <1>5, McpActing DEF Serve
  <2>3. mcp' \in [Request -> McpRequest]
    BY <1>1, <2>1, <2>2
  <2>. QED
    BY <1>1, <1>5, <2>3 DEF Serve, history
<1>6. ASSUME NEW r \in Request, ServeFails(r) \/ Finish(r) PROVE TypeOK'
  BY <1>1, <1>6 DEF ServeFails, Finish, McpRequest, history
<1>7. CASE StoreKey
  BY <1>1, <1>7, SuspendedType DEF StoreKey
<1>8. ASSUME NEW p \in Passphrase \cup {Absent}, Restart(p) PROVE TypeOK'
  BY <1>1, <1>8 DEF Restart, McpRequest, history
<1>9. CASE PatchRejected \/ UNCHANGED vars
  BY <1>1, <1>9 DEF PatchRejected, vars, history
<1>. QED
  BY <1>2, <1>3, <1>4, <1>5, <1>6, <1>7, <1>8, <1>9 DEF Next, McpStep

(***************************************************************************)
(* Every variable keeps its shape under every handler, failed write and    *)
(* restart.                                                                *)
(***************************************************************************)
THEOREM TypeCorrect == Spec => []TypeOK
BY TypeInit, TypeStep, PTL DEF Spec

(***************************************************************************)
(* The gateway uses its two stores only through their operations, so what  *)
(* holds of every use of a store holds in the gateway.                     *)
(***************************************************************************)
THEOREM UsesStores == Spec => StoreSpec /\ SecretSpec
<1>1. Init => StoreInit /\ SecretInit
  BY DEF Init
<1>. QED
  BY <1>1, TypeCorrect, NextStore, NextSecret, PTL DEF Spec, StoreSpec, SecretSpec

(***************************************************************************)
(* Every agent of the running gateway, and of the one a crash would leave, *)
(* is bound to a key that exists.                                          *)
(***************************************************************************)
THEOREM AgentsStayBound == Spec => []ReferentialIntegrity
BY UsesStores, StoreKeepsAgentsBound, PTL

(***************************************************************************)
(* A bearer leads to at most one agent.                                    *)
(***************************************************************************)
THEOREM BearersStayUnique == Spec => []BearersUnique
BY UsesStores, StoreKeepsBearersUnique, PTL

(***************************************************************************)
(* Every stored token can be opened again under its passphrase.            *)
(***************************************************************************)
THEOREM SaltStaysKept == Spec => []SaltKept
BY UsesStores, StoreKeepsSalt, PTL

-----------------------------------------------------------------------------

(***************************************************************************)
(* Who was told which bearer, against what memory and file hold: a bearer  *)
(* that was returned belongs to the agent it was returned for wherever it  *)
(* is stored, and a revoked one is stored nowhere.                         *)
(***************************************************************************)
Stored(a, b) == Holds(mem, a, b) \/ Holds(disk, a, b)

IssueInv ==
    /\ \A b \in Bearer : issued[b] # Absent => b \in minted
    /\ \A a \in AgentId, b \in Bearer : Stored(a, b) => issued[b] \in {a, Absent}
    /\ \A b \in revoked : issued[b] # Absent /\ \A a \in AgentId : ~Stored(a, b)

LEMMA MintedGrows == [StoreNext]_storeVars => minted \subseteq minted'
BY DEF StoreNext, storeVars, Reload, AddKey, DeleteKey, RotateBearer, CreateAgent, RebindAgent,
       SetAgentEnabled, DeleteAgent, Mint

LEMMA StoredMinted ==
    ASSUME BearerInv, NEW a \in AgentId, NEW b \in Bearer, Stored(a, b)
    PROVE  b \in minted
BY DEF BearerInv, HashesMinted, HashesOf, Stored, Holds

LEMMA IssueInit == Init => IssueInv
BY DEF Init, StoreInit, IssueInv, Stored, Holds, Present, Empty

LEMMA IssueStep == TypeOK /\ BearerInv /\ IssueInv /\ [Next]_vars => IssueInv'
<1>. SUFFICES ASSUME TypeOK, BearerInv, IssueInv, [Next]_vars PROVE IssueInv'
  OBVIOUS
<1>1. StoreTypeOK /\ [StoreNext]_storeVars /\ minted \subseteq minted'
  BY NextStore, MintedGrows DEF TypeOK
\* A step that tells nobody anything about bearers: what is new in the store
\* was drawn just now and returned to no one.
<1>2. ASSUME UNCHANGED <<issued, revoked>> PROVE IssueInv'
  <2>1. ASSUME NEW a \in AgentId, NEW b \in Bearer, Stored(a, b)'
        PROVE  Stored(a, b) \/ b \notin minted
    BY <1>1, <2>1, BearerSource DEF Stored
  <2>. QED
    BY <1>1, <1>2, <2>1 DEF IssueInv, TypeOK
\* A call that succeeded leaves in the file what it left in memory.
<1>3. ASSUME Persist(TRUE), NEW a \in AgentId, NEW b \in Bearer, Stored(a, b)'
      PROVE  Holds(mem, a, b)'
  BY <1>3, PersistedHolds DEF Stored
<1>4. ASSUME NEW a \in AgentId, NEW b \in Bearer, NEW k \in KeyId, PostAgent(a, b, k, TRUE)
      PROVE  IssueInv'
  <2>1. b \notin minted /\ b \in minted' /\ Persist(TRUE) /\ UNCHANGED revoked
    BY <1>4 DEF PostAgent, CreateAgent, Mint
  <2>2. issued' = [issued EXCEPT ![b] = a]
    BY <1>4 DEF PostAgent
  <2>3. ASSUME NEW a2 \in AgentId, NEW c \in Bearer, Stored(a2, c)'
        PROVE  (a2 = a /\ c = b) \/ (c # b /\ Stored(a2, c))
    BY <1>1, <1>3, <1>4, <2>1, <2>3, CreatedHolds, StoredMinted DEF PostAgent, Stored
  <2>. QED
    BY <1>1, <2>1, <2>2, <2>3 DEF IssueInv, TypeOK
<1>5. ASSUME NEW a \in AgentId, NEW b \in Bearer, PostRotate(a, b, TRUE)
      PROVE  IssueInv'
  <2>1. b \notin minted /\ b \in minted' /\ Persist(TRUE)
    BY <1>5 DEF PostRotate, RotateBearer, Mint
  <2>2. issued' = [issued EXCEPT ![b] = a] /\ revoked' = revoked \cup IssuedTo(a)
    BY <1>5 DEF PostRotate
  <2>3. ASSUME NEW a2 \in AgentId, NEW c \in Bearer, Stored(a2, c)'
        PROVE  (a2 = a /\ c = b) \/ (a2 # a /\ c # b /\ Stored(a2, c))
    BY <1>1, <1>3, <1>5, <2>1, <2>3, RotatedHolds, StoredMinted DEF PostRotate, Stored
  <2>. QED
    BY <1>1, <2>1, <2>2, <2>3, AbsentAssumption DEF IssueInv, TypeOK, IssuedTo
<1>6. ASSUME NEW a \in AgentId, RemoveAgent(a, TRUE)
      PROVE  IssueInv'
  <2>1. issued' = issued /\ revoked' = revoked \cup IssuedTo(a) /\ Persist(TRUE)
    BY <1>6 DEF RemoveAgent, DeleteAgent
  <2>2. ASSUME NEW a2 \in AgentId, NEW c \in Bearer, Stored(a2, c)'
        PROVE  a2 # a /\ Stored(a2, c)
    BY <1>1, <1>3, <1>6, <2>1, <2>2, DeletedHolds DEF RemoveAgent, Stored
  <2>. QED
    BY <1>1, <2>1, <2>2, AbsentAssumption DEF IssueInv, TypeOK, IssuedTo
<1>7. ASSUME NEW saved \in BOOLEAN, KeyStep(saved) PROVE IssueInv'
  BY <1>2, <1>7 DEF KeyStep, PostKey, RollBackKey, RemoveKey, DropSecret, history
<1>8. ASSUME NEW saved \in BOOLEAN, AgentStep(saved) PROVE IssueInv'
  BY <1>2, <1>4, <1>5, <1>6, <1>8
  DEF AgentStep, PostAgent, PostRotate, PatchKeyId, PatchEnabled, RemoveAgent, history
<1>9. ASSUME NEW r \in Request, McpStep(r) PROVE IssueInv'
  BY <1>2, <1>9 DEF McpStep, Authenticate, Serve, ServeFails, Finish, history
<1>. QED
  BY <1>2, <1>7, <1>8, <1>9 DEF Next, StoreKey, PatchRejected, Restart, history, vars

LEMMA IssueInvariant == Spec => [](TypeOK /\ BearerInv /\ IssueInv)
<1>1. Init => BearerInv
  BY DEF Init, StoreInit, BearerInv, HashesMinted, HashesOf, BearersUnique,
         OneAgentPerBearer, Present, Empty
<1>2. TypeOK /\ BearerInv /\ [Next]_vars => BearerInv'
  BY NextStore, BearerStep DEF TypeOK
<1>. QED
  BY <1>1, <1>2, TypeInit, TypeStep, IssueInit, IssueStep, PTL DEF Spec

(***************************************************************************)
(* A bearer whose rotation or deletion was confirmed never authenticates   *)
(* again, before or after any restart.                                     *)
(***************************************************************************)
THEOREM RevocationIsFinal == Spec => []RevokedStaysRevoked
<1>1. TypeOK /\ IssueInv => RevokedStaysRevoked
  BY DEF TypeOK, IssueInv, RevokedStaysRevoked, FindAgentByBearer, Stored, Holds, Present
<1>. QED
  BY <1>1, IssueInvariant, PTL

-----------------------------------------------------------------------------

(***************************************************************************)
(* Keys against secrets.  A key id is drawn once, so the token posted for  *)
(* it is the only one ever stored under it; and DELETE erases the secret   *)
(* only when neither memory nor file lists the key.                        *)
(***************************************************************************)
ListedKeys == mem.keys \cup disk.keys

KeyInv ==
    /\ \A k \in KeyId : secrets[k] # Absent => k \in minted /\ secrets[k].token = given[k]
    /\ ListedKeys \cup created \subseteq minted
    /\ \A k \in created \cap ListedKeys : secrets[k] # Absent
    /\ Suspended("storeKey") => busy.key \in minted /\ busy.token = given[busy.key]
    /\ Suspended("dropSecret") => busy.key \notin ListedKeys

LEMMA KeyInit == Init => KeyInv
BY DEF Init, StoreInit, SecretInit, KeyInv, ListedKeys, Suspended, Empty

LEMMA KeyInvStep == TypeOK /\ KeyInv /\ [Next]_vars => KeyInv'
<1>. SUFFICES ASSUME TypeOK, KeyInv, [Next]_vars PROVE KeyInv'
  OBVIOUS
<1>1. minted \subseteq minted'
  BY NextStore, MintedGrows
\* A step that stores and erases nothing, posts no key and lists none anew.
<1>2. ASSUME UNCHANGED <<secrets, given, created>>, ListedKeys' \subseteq ListedKeys,
             busy' \in {busy, Absent, [op |-> "patchInvalid"]}
                       \cup [op : {"patchEnabled"}, agent : AgentId, enabled : BOOLEAN]
      PROVE  KeyInv'
  BY <1>1, <1>2 DEF KeyInv, Suspended
<1>3. ASSUME NEW saved \in BOOLEAN, NEW k \in KeyId, NEW t \in Token, PostKey(k, t, saved)
      PROVE  KeyInv'
  <2>1. k \notin minted /\ k \in minted' /\ ListedKeys' \subseteq ListedKeys \cup {k}
    BY <1>3 DEF PostKey, AddKey, Mint, Persist, ListedKeys, TypeOK, StoreTypeOK, AgentsState
  <2>. QED
    BY <1>1, <1>3, <2>1 DEF PostKey, secretVars, KeyInv, Suspended, TypeOK
<1>4. CASE StoreKey
  <2>1. busy.key \in KeyId /\ busy.key \in minted /\ busy.token = given[busy.key]
    BY <1>4, SuspendedType DEF StoreKey, KeyInv, TypeOK
  <2>2. PICK q \in AesKey :
          secrets' = [secrets EXCEPT ![busy.key] = [sealedBy |-> q, token |-> busy.token]]
    BY <1>4 DEF StoreKey, SetSecret
  <2>3. [sealedBy |-> q, token |-> busy.token] # Absent
    BY <1>4, AbsentAssumption, SuspendedType DEF StoreKey, Blob, TypeOK
  <2>. QED
    BY <1>1, <1>4, <2>1, <2>2, <2>3
    DEF StoreKey, storeVars, KeyInv, ListedKeys, Suspended, TypeOK, SecretTypeOK
<1>5. ASSUME NEW saved \in BOOLEAN, RollBackKey(saved) PROVE KeyInv'
  BY <1>2, <1>5
  DEF RollBackKey, SetSecretThrows, DeleteKey, Persist, ListedKeys, TypeOK, StoreTypeOK, AgentsState
<1>6. ASSUME NEW saved \in BOOLEAN, NEW k \in KeyId, RemoveKey(k, saved) PROVE KeyInv'
  <2>1. ListedKeys' \subseteq ListedKeys /\ (saved => k \notin ListedKeys')
    BY <1>6 DEF RemoveKey, DeleteKey, Persist, ListedKeys, TypeOK, StoreTypeOK, AgentsState
  <2>. QED
    BY <1>1, <1>6, <2>1 DEF RemoveKey, secretVars, history, KeyInv, Suspended
<1>7. ASSUME NEW saved \in BOOLEAN, DropSecret(saved) PROVE KeyInv'
  <2>1. UNCHANGED <<mem, disk, minted, given, created>> /\ busy' = Absent
    BY <1>7 DEF DropSecret, storeVars, history
  <2>2. busy.key \in KeyId /\ busy.key \notin ListedKeys
    BY <1>7, SuspendedType DEF DropSecret, KeyInv, TypeOK
  <2>3. secrets' \in {secrets, [secrets EXCEPT ![busy.key] = Absent]}
    BY <1>7 DEF DropSecret, DeleteSecret, secretVars
  <2>. QED
    BY <2>1, <2>2, <2>3 DEF KeyInv, ListedKeys, Suspended, TypeOK, SecretTypeOK
<1>8. ASSUME NEW saved \in BOOLEAN, AgentStep(saved) PROVE KeyInv'
  <2>1. ASSUME mem'.keys = mem.keys, Persist(saved), UNCHANGED <<secretVars, given, created>>,
               busy' \in {busy, Absent, [op |-> "patchInvalid"]}
                         \cup [op : {"patchEnabled"}, agent : AgentId, enabled : BOOLEAN]
        PROVE  KeyInv'
    BY <1>2, <2>1 DEF Persist, ListedKeys, secretVars
  <2>2. ASSUME NEW a \in AgentId, NEW k \in KeyId, NEW next \in AfterKeyId(a),
               PatchKeyId(a, k, next, saved)
        PROVE  KeyInv'
    BY <2>1, <2>2
    DEF PatchKeyId, RebindAgent, AfterKeyId, history, TypeOK, StoreTypeOK, AgentsState
  <2>3. ASSUME NEW a \in AgentId, NEW b \in Bearer, NEW k \in KeyId, PostAgent(a, b, k, saved)
        PROVE  KeyInv'
    BY <2>1, <2>3 DEF PostAgent, CreateAgent, TypeOK, StoreTypeOK, AgentsState
  <2>4. ASSUME NEW a \in AgentId, NEW b \in Bearer, PostRotate(a, b, saved)
        PROVE  KeyInv'
    BY <2>1, <2>4 DEF PostRotate, RotateBearer, TypeOK, StoreTypeOK, AgentsState
  <2>5. ASSUME NEW a \in AgentId, NEW e \in BOOLEAN, PatchEnabled(a, e, saved)
        PROVE  KeyInv'
    BY <2>1, <2>5 DEF PatchEnabled, SetAgentEnabled, TypeOK, StoreTypeOK, AgentsState
  <2>6. ASSUME NEW a \in AgentId, RemoveAgent(a, saved)
        PROVE  KeyInv'
    BY <2>1, <2>6 DEF RemoveAgent, DeleteAgent, TypeOK, StoreTypeOK, AgentsState
  <2>. QED
    BY <1>8, <2>2, <2>3, <2>4, <2>5, <2>6 DEF AgentStep
<1>9. ASSUME NEW r \in Request, McpStep(r) PROVE KeyInv'
  BY <1>2, <1>9
  DEF McpStep, Authenticate, Serve, ServeFails, Finish, GetSecret, GetSecretMissing,
      GetSecretThrows, secretVars, storeVars, history, ListedKeys
<1>10. ASSUME NEW p \in Passphrase \cup {Absent}, Restart(p) PROVE KeyInv'
  BY <1>2, <1>10 DEF Restart, Reload, ReopenSecrets, history, ListedKeys
<1>11. CASE PatchRejected \/ UNCHANGED vars
  BY <1>2, <1>11 DEF PatchRejected, vars, storeVars, secretVars, history, ListedKeys
<1>. QED
  BY <1>3, <1>4, <1>5, <1>6, <1>7, <1>8, <1>9, <1>10, <1>11 DEF Next, KeyStep

(***************************************************************************)
(* A key whose creation was confirmed keeps its own token in the secret    *)
(* store for as long as memory or the file lists it.                       *)
(***************************************************************************)
THEOREM CreatedKeysKeepSecrets == Spec => []CreatedKeyHasSecret
<1>1. TypeOK /\ KeyInv => CreatedKeyHasSecret
  BY DEF KeyInv, ListedKeys, CreatedKeyHasSecret, TypeOK
<1>. QED
  BY <1>1, TypeInit, TypeStep, KeyInit, KeyInvStep, PTL DEF Spec

(***************************************************************************)
(* A secret is erased only after its key has left memory and file.         *)
(***************************************************************************)
THEOREM SecretsOutliveKeys == Spec => SecretOutlivesKey
<1>1. TypeOK /\ KeyInv /\ [Next]_vars =>
        [\A k \in KeyId : secrets[k] # Absent /\ secrets'[k] = Absent
                            => k \notin mem.keys \cup disk.keys]_vars
  <2>. SUFFICES ASSUME TypeOK, KeyInv, Next, NEW k \in KeyId,
                       secrets[k] # Absent, secrets'[k] = Absent
                PROVE  k \notin ListedKeys
    BY DEF ListedKeys
  <2>1. ASSUME NEW id \in KeyId, NEW t \in Token, SetSecret(id, t) PROVE FALSE
    BY <2>1, AbsentAssumption DEF SetSecret, Blob, TypeOK, SecretTypeOK
  <2>2. ASSUME UNCHANGED secrets PROVE FALSE
    BY <2>2
  <2>3. ASSUME NEW saved \in BOOLEAN, DropSecret(saved) PROVE k \notin ListedKeys
    BY <2>2, <2>3, SuspendedType
    DEF DropSecret, DeleteSecret, secretVars, KeyInv, TypeOK, SecretTypeOK
  <2>4. ASSUME NEW saved \in BOOLEAN, KeyStep(saved) PROVE k \notin ListedKeys
    BY <2>2, <2>3, <2>4
    DEF KeyStep, PostKey, RollBackKey, SetSecretThrows, RemoveKey, secretVars
  <2>5. ASSUME NEW saved \in BOOLEAN, AgentStep(saved) PROVE FALSE
    BY <2>2, <2>5
    DEF AgentStep, PostAgent, PostRotate, PatchKeyId, PatchEnabled, RemoveAgent, secretVars
  <2>6. ASSUME NEW r \in Request, McpStep(r) PROVE FALSE
    BY <2>2, <2>6
    DEF McpStep, Authenticate, Serve, ServeFails, Finish, GetSecret, GetSecretMissing,
        GetSecretThrows, secretVars
  <2>7. CASE StoreKey
    BY <2>1, <2>7, SuspendedType DEF StoreKey, TypeOK
  <2>. QED
    BY <2>2, <2>4, <2>5, <2>6, <2>7
    DEF Next, PatchRejected, Restart, ReopenSecrets, secretVars
<1>. QED
  BY <1>1, TypeInit, TypeStep, KeyInit, KeyInvStep, PTL DEF Spec, SecretOutlivesKey

-----------------------------------------------------------------------------

(***************************************************************************)
(* What an admitted request carries stays true while the administrator     *)
(* rotates, rebinds and deletes around it: bearers are issued once and a   *)
(* key id gets its token once.                                             *)
(***************************************************************************)
McpInv ==
    \A r \in Request : mcp[r].pc # "idle" =>
        /\ mcp[r].key \in minted
        /\ issued[mcp[r].bearer] = mcp[r].agent
        /\ mcp[r].pc = "acting" => mcp[r].token = given[mcp[r].key]

\* Neither what was issued nor what was posted is ever changed.
LEMMA HistoryKept ==
    ASSUME TypeOK, [Next]_vars
    PROVE  /\ \A b \in Bearer \cap minted : issued'[b] = issued[b]
           /\ \A k \in KeyId \cap minted : given'[k] = given[k]
<1>1. ASSUME NEW saved \in BOOLEAN, NEW k \in KeyId, NEW t \in Token, PostKey(k, t, saved)
      PROVE  issued' = issued /\ \A k2 \in KeyId \cap minted : given'[k2] = given[k2]
  BY <1>1 DEF PostKey, AddKey, Mint, TypeOK
<1>2. ASSUME NEW saved \in BOOLEAN, KeyStep(saved)
      PROVE  issued' = issued /\ \A k2 \in KeyId \cap minted : given'[k2] = given[k2]
  BY <1>1, <1>2 DEF KeyStep, RollBackKey, RemoveKey, DropSecret, history
<1>3. ASSUME NEW saved \in BOOLEAN, NEW a \in AgentId, NEW b \in Bearer,
             (\E k \in KeyId : PostAgent(a, b, k, saved)) \/ PostRotate(a, b, saved)
      PROVE  given' = given /\ \A c \in Bearer \cap minted : issued'[c] = issued[c]
  BY <1>3 DEF PostAgent, CreateAgent, PostRotate, RotateBearer, Mint, TypeOK
<1>4. ASSUME NEW saved \in BOOLEAN, AgentStep(saved)
      PROVE  given' = given /\ \A c \in Bearer \cap minted : issued'[c] = issued[c]
  BY <1>3, <1>4 DEF AgentStep, PatchKeyId, PatchEnabled, RemoveAgent, history
<1>5. ASSUME NEW r \in Request, McpStep(r) PROVE UNCHANGED history
  BY <1>5 DEF McpStep, Authenticate, Serve, ServeFails, Finish
<1>. QED
  BY <1>2, <1>4, <1>5 DEF Next, StoreKey, PatchRejected, Restart, history, vars

LEMMA McpInvStep ==
    TypeOK /\ IssueInv /\ KeyInv /\ McpInv /\ ReferentialIntegrity /\ [Next]_vars => McpInv'
<1>. SUFFICES ASSUME TypeOK, IssueInv, KeyInv, McpInv, ReferentialIntegrity, [Next]_vars,
                     NEW r \in Request, mcp'[r].pc # "idle"
              PROVE  /\ mcp'[r].key \in minted'
                     /\ issued'[mcp'[r].bearer] = mcp'[r].agent
                     /\ mcp'[r].pc = "acting" => mcp'[r].token = given'[mcp'[r].key]
  BY DEF McpInv
<1>1. minted \subseteq minted'
  BY NextStore, MintedGrows
<1>2. ASSUME mcp'[r] = mcp[r]
      PROVE  /\ mcp'[r].key \in minted'
             /\ issued'[mcp'[r].bearer] = mcp'[r].agent
             /\ mcp'[r].pc = "acting" => mcp'[r].token = given'[mcp'[r].key]
  <2>1. /\ mcp[r].key \in minted /\ mcp[r].key \in KeyId
        /\ mcp[r].bearer \in Bearer /\ mcp[r].agent \in AgentId
        /\ issued[mcp[r].bearer] = mcp[r].agent
    BY <1>2, McpType DEF McpInv, TypeOK
  <2>2. mcp[r].bearer \in minted
    BY <2>1, AbsentAssumption DEF IssueInv
  <2>. QED
    BY <1>1, <1>2, <2>1, <2>2, HistoryKept DEF McpInv
<1>3. ASSUME NEW b \in Bearer, Authenticate(r, b)
      PROVE  /\ mcp'[r].key \in minted'
             /\ issued'[mcp'[r].bearer] = mcp'[r].agent
             /\ mcp'[r].pc # "acting"
  <2>1. PICK a \in FindAgentByBearer(mem, b) :
          mcp' = [mcp EXCEPT ![r] = [pc |-> "admitted", bearer |-> b, agent |-> a,
                                     key |-> mem.agents[a].key_id, token |-> Absent]]
    BY <1>3 DEF Authenticate
  <2>2. issued[b] = a
    BY <1>3 DEF Authenticate, IssueInv, Stored, Holds, FindAgentByBearer, Present
  <2>3. mem.agents[a].key_id \in minted
    BY DEF FindAgentByBearer, ReferentialIntegrity, AgentsBound, KeyInv, ListedKeys
  <2>. QED
    BY <1>1, <1>3, <2>1, <2>2, <2>3 DEF Authenticate, history, TypeOK
<1>4. ASSUME Serve(r)
      PROVE  /\ mcp'[r].key \in minted'
             /\ issued'[mcp'[r].bearer] = mcp'[r].agent
             /\ mcp'[r].token = given'[mcp'[r].key]
  <2>1. PICK t \in Token : /\ GetSecret(mcp[r].key, t)
                           /\ mcp' = [mcp EXCEPT ![r].pc = "acting", ![r].token = t]
    BY <1>4 DEF Serve
  <2>2. mcp'[r] = [mcp[r] EXCEPT !.pc = "acting", !.token = t]
    BY <2>1 DEF TypeOK
  <2>3. mcp[r] \in [pc : {"admitted"}, bearer : Bearer, agent : AgentId,
                    key : KeyId, token : {Absent}]
    BY <1>4 DEF Serve, TypeOK, McpRequest, NoRequest
  <2>4. t = given[mcp[r].key]
    BY <2>1, <2>3 DEF GetSecret, KeyInv
  <2>. QED
    BY <1>1, <1>4, <2>2, <2>3, <2>4 DEF Serve, history, McpInv
<1>5. ASSUME NEW r2 \in Request, McpStep(r2), r2 # r PROVE mcp'[r] = mcp[r]
  BY <1>5 DEF McpStep, Authenticate, Serve, ServeFails, Finish, TypeOK
<1>6. ASSUME ServeFails(r) \/ Finish(r) PROVE FALSE
  BY <1>6 DEF ServeFails, Finish, NoRequest, TypeOK
<1>7. ASSUME NEW saved \in BOOLEAN, KeyStep(saved) \/ AgentStep(saved) PROVE mcp' = mcp
  BY <1>7 DEF KeyStep, PostKey, RollBackKey, RemoveKey, DropSecret, AgentStep, PostAgent,
              PostRotate, PatchKeyId, PatchEnabled, RemoveAgent
<1>8. ASSUME NEW p \in Passphrase \cup {Absent}, Restart(p) PROVE FALSE
  BY <1>8 DEF Restart, NoRequest
<1>. QED
  BY <1>2, <1>3, <1>4, <1>5, <1>6, <1>7, <1>8
  DEF Next, McpStep, StoreKey, PatchRejected, vars

\* Everything at once.
GatewayInv == TypeOK /\ BearerInv /\ IssueInv /\ KeyInv /\ McpInv /\ ReferentialIntegrity

LEMMA GatewayInvariant == Spec => []GatewayInv
<1>1. Init => McpInv
  BY DEF Init, McpInv, NoRequest
<1>. QED
  BY <1>1, TypeInit, TypeStep, IssueInvariant, KeyInit, KeyInvStep, McpInvStep,
     AgentsStayBound, PTL DEF Spec, GatewayInv

(***************************************************************************)
(* A tool call runs only with the token posted for the key its agent was   *)
(* bound to when its bearer was checked, and only for the agent that       *)
(* bearer was returned for.                                                *)
(***************************************************************************)
THEOREM TokensIsolated == Spec => []TokenIsolation
<1>1. GatewayInv => TokenIsolation
  BY DEF GatewayInv, McpInv, TokenIsolation
<1>. QED
  BY <1>1, GatewayInvariant, PTL

-----------------------------------------------------------------------------

(***************************************************************************)
(* Disabled agents.  That a confirmed disabling is lasting needs two       *)
(* things: the file never holds an older, enabled copy of the agent, and   *)
(* no later agent gets the id, since ids are drawn once.                   *)
(***************************************************************************)
Enabled(m, a) == a \in Present(m) /\ m.agents[a].enabled

OffInv == /\ Present(mem) \cup Present(disk) \cup off \subseteq minted
          /\ \A a \in off : ~Enabled(mem, a) /\ ~Enabled(disk, a)

\* What a call leaves in memory it leaves in the file, or leaves the file.
LEMMA OffKept ==
    ASSUME OffInv, NEW saved \in BOOLEAN, Persist(saved), minted \subseteq minted',
           off' \subseteq off, Present(mem)' \subseteq minted',
           \A a \in off' : ~Enabled(mem, a)'
    PROVE  OffInv'
<1>1. /\ saved => Present(disk)' = Present(mem)'
      /\ ~saved => Present(disk)' = Present(disk)
      /\ \A a \in AgentId : saved => (Enabled(disk, a)' <=> Enabled(mem, a)')
      /\ \A a \in AgentId : ~saved => (Enabled(disk, a)' <=> Enabled(disk, a))
  BY DEF Persist, Enabled, Present
<1>2. \A a : Enabled(disk, a)' => a \in AgentId
  BY DEF Enabled, Present
<1>. QED
  BY <1>1, <1>2 DEF OffInv

LEMMA OffKeptByKeys ==
    ASSUME OffInv, StoreTypeOK, NEW saved \in BOOLEAN, NEW k \in KeyId, off' = off,
           AddKey(k, saved) \/ DeleteKey(k, saved)
    PROVE  OffInv'
BY OffKept DEF AddKey, DeleteKey, Mint, OffInv, Enabled, Present, StoreTypeOK, AgentsState

LEMMA OffStep == TypeOK /\ OffInv /\ [Next]_vars => OffInv'
<1>. SUFFICES ASSUME TypeOK, OffInv, [Next]_vars PROVE OffInv'
  OBVIOUS
<1>. USE DEF TypeOK
<1>1. CASE UNCHANGED <<mem, disk, minted, off>>
  BY <1>1 DEF OffInv, Enabled, Present
<1>2. ASSUME NEW saved \in BOOLEAN, KeyStep(saved) PROVE OffInv'
  BY <1>1, <1>2, OffKeptByKeys, SuspendedType
  DEF KeyStep, PostKey, RollBackKey, RemoveKey, DropSecret, storeVars, history
<1>3. ASSUME NEW saved \in BOOLEAN, NEW a \in AgentId, NEW b \in Bearer, NEW k \in KeyId,
             PostAgent(a, b, k, saved)
      PROVE  OffInv'
  <2>1. /\ a \notin minted /\ minted' = minted \cup {a, b} /\ Persist(saved) /\ off' = off
        /\ Present(mem)' \subseteq Present(mem) \cup {a}
        /\ \A a2 \in AgentId \ {a} : Enabled(mem, a2)' => Enabled(mem, a2)
    BY <1>3 DEF PostAgent, CreateAgent, Mint, Present, Enabled, StoreTypeOK, AgentsState
  <2>. QED
    BY <2>1, OffKept DEF OffInv
<1>4. ASSUME NEW saved \in BOOLEAN, NEW a \in AgentId, NEW b \in Bearer, PostRotate(a, b, saved)
      PROVE  OffInv'
  <2>1. /\ minted' = minted \cup {b} /\ Persist(saved) /\ off' = off
        /\ Present(mem)' \subseteq Present(mem)
        /\ \A a2 \in AgentId : Enabled(mem, a2)' => Enabled(mem, a2)
    BY <1>4, EntryType
    DEF PostRotate, RotateBearer, Mint, Present, Enabled, StoreTypeOK, AgentsState, Agent
  <2>. QED
    BY <2>1, OffKept DEF OffInv
<1>5. ASSUME NEW saved \in BOOLEAN, NEW a \in AgentId, NEW k \in KeyId, NEW next,
             PatchKeyId(a, k, next, saved)
      PROVE  OffInv'
  <2>1. /\ minted' = minted /\ Persist(saved) /\ off' = off
        /\ Present(mem)' \subseteq Present(mem)
        /\ \A a2 \in AgentId : Enabled(mem, a2)' => Enabled(mem, a2)
    BY <1>5, EntryType
    DEF PatchKeyId, RebindAgent, history, Present, Enabled, StoreTypeOK, AgentsState, Agent
  <2>. QED
    BY <2>1, OffKept DEF OffInv
<1>6. ASSUME NEW saved \in BOOLEAN, NEW a \in AgentId, NEW enabled \in BOOLEAN,
             PatchEnabled(a, enabled, saved)
      PROVE  OffInv'
  <2>1. /\ minted' = minted /\ Persist(saved) /\ a \in Present(mem)
        /\ Present(mem)' \subseteq Present(mem)
        /\ \A a2 \in AgentId \ {a} : Enabled(mem, a2)' => Enabled(mem, a2)
        /\ Enabled(mem, a)' => enabled
    BY <1>6, EntryType
    DEF PatchEnabled, SetAgentEnabled, Present, Enabled, StoreTypeOK, AgentsState, Agent
  <2>2. CASE enabled
    BY <1>6, <2>1, <2>2, OffKept DEF PatchEnabled, OffInv
  <2>3. CASE ~enabled /\ ~saved
    BY <1>6, <2>1, <2>3, OffKept DEF PatchEnabled, OffInv
  \* The only step that adds to `off': memory and file agree after it.
  <2>4. CASE ~enabled /\ saved
    BY <1>6, <2>1, <2>4 DEF PatchEnabled, OffInv, Persist, Enabled, Present
  <2>. QED
    BY <2>2, <2>3, <2>4
<1>7. ASSUME NEW saved \in BOOLEAN, NEW a \in AgentId, RemoveAgent(a, saved) PROVE OffInv'
  <2>1. /\ minted' = minted /\ Persist(saved) /\ off' = off
        /\ Present(mem)' \subseteq Present(mem)
        /\ \A a2 \in AgentId : Enabled(mem, a2)' => Enabled(mem, a2)
    BY <1>7 DEF RemoveAgent, DeleteAgent, Present, Enabled, StoreTypeOK, AgentsState
  <2>. QED
    BY <2>1, OffKept DEF OffInv
<1>8. ASSUME NEW p \in Passphrase \cup {Absent}, Restart(p) PROVE OffInv'
  BY <1>8 DEF Restart, Reload, history, OffInv, Enabled, Present
<1>9. ASSUME NEW r \in Request, McpStep(r) PROVE OffInv'
  BY <1>1, <1>9 DEF McpStep, Authenticate, Serve, ServeFails, Finish, storeVars, history
<1>. QED
  BY <1>1, <1>2, <1>3, <1>4, <1>5, <1>6, <1>7, <1>8, <1>9
  DEF Next, AgentStep, StoreKey, PatchRejected, storeVars, history, vars

(***************************************************************************)
(* An agent whose disabling was confirmed stays disabled, in memory and in *)
(* the file, across failed writes and restarts, until somebody asks to     *)
(* enable it.                                                              *)
(***************************************************************************)
THEOREM DisablingLasts == Spec => []DisabledStaysOff
<1>1. Init => OffInv
  BY DEF Init, StoreInit, OffInv, Enabled, Present, Empty
<1>2. OffInv => DisabledStaysOff
  BY DEF OffInv, DisabledStaysOff, Enabled
<1>. QED
  BY <1>1, <1>2, TypeInit, TypeStep, OffStep, PTL DEF Spec

-----------------------------------------------------------------------------
\* The refinement of TokenAccess.  Who opens what is always a relation that
\* an administrator of the abstract specification may set.

OpensOk == /\ opens \subseteq (Bearer \ revoked) \X KeyId
           /\ Access!OneKeyPerBearer(opens)

LEMMA OpensAllowed == GatewayInv => OpensOk
<1>. SUFFICES ASSUME GatewayInv PROVE OpensOk
  OBVIOUS
<1>1. RevokedStaysRevoked
  BY DEF GatewayInv, TypeOK, IssueInv, RevokedStaysRevoked, FindAgentByBearer, Stored, Holds, Present
<1>2. opens \subseteq (Bearer \ revoked) \X KeyId
  BY <1>1 DEF RevokedStaysRevoked, opens
<1>3. ASSUME NEW b \in Bearer, NEW a1 \in FindAgentByBearer(mem, b),
             NEW a2 \in FindAgentByBearer(mem, b)
      PROVE  a1 = a2
  BY DEF GatewayInv, BearerInv, BearersUnique, OneAgentPerBearer, FindAgentByBearer
<1>4. ASSUME NEW p \in opens, NEW q \in opens, p[1] = q[1] PROVE p = q
  <2>1. p[2] = q[2]
    BY <1>3, <1>4 DEF opens
  <2>. QED
    BY <1>4, <2>1 DEF opens
<1>. QED
  BY <1>2, <1>4 DEF OpensOk, Access!OneKeyPerBearer

LEMMA OpensAllowedNext == GatewayInv' => OpensOk'
BY OpensAllowed, PTL

LEMMA RevokedGrows == [Next]_vars => revoked \subseteq revoked'
<1>1. ASSUME NEW saved \in BOOLEAN, KeyStep(saved) \/ AgentStep(saved)
      PROVE  revoked \subseteq revoked'
  BY <1>1 DEF KeyStep, PostKey, RollBackKey, RemoveKey, DropSecret, AgentStep, PostAgent,
              PostRotate, PatchKeyId, PatchEnabled, RemoveAgent, history
<1>2. ASSUME NEW r \in Request, McpStep(r) PROVE revoked \subseteq revoked'
  BY <1>2 DEF McpStep, Authenticate, Serve, ServeFails, Finish, history
<1>. QED
  BY <1>1, <1>2 DEF Next, StoreKey, PatchRejected, Restart, history, vars

LEMMA AccessInit == Init => Access!Init
BY DEF Init, StoreInit, SecretInit, Access!Init, Access!Nobody, NoRequest, opens, vault, request

\* Every handler is a step of the abstract specification, or none.
LEMMA AccessStep == GatewayInv /\ GatewayInv' /\ [Next]_vars => [Access!Next]_(Access!vars)
<1>. SUFFICES ASSUME GatewayInv, GatewayInv', [Next]_vars PROVE [Access!Next]_(Access!vars)
  OBVIOUS
<1>1. Access!Administer
  BY OpensAllowedNext, RevokedGrows DEF OpensOk, Access!Administer, Access!OneKeyPerBearer
<1>2. ASSUME UNCHANGED secrets PROVE UNCHANGED vault
  BY <1>2 DEF vault
<1>3. ASSUME UNCHANGED mcp PROVE UNCHANGED request
  BY <1>3 DEF request
<1>4. ASSUME UNCHANGED <<mem, issued>> PROVE UNCHANGED opens
  BY <1>4 DEF opens, FindAgentByBearer, Present
<1>5. ASSUME UNCHANGED <<secrets, mcp>> PROVE [Access!Next]_(Access!vars)
  BY <1>1, <1>2, <1>3, <1>5 DEF Access!Next
\* The key's secret is stored once: had it been stored already, with the same
\* token.
<1>6. CASE StoreKey
  <2>1. busy.key \in KeyId /\ busy.token \in Token /\ busy.token = given[busy.key]
    BY <1>6, SuspendedType DEF StoreKey, GatewayInv, TypeOK, KeyInv
  <2>2. vault' = [vault EXCEPT ![busy.key] = busy.token]
    <3>1. PICK k \in AesKey :
            secrets' = [secrets EXCEPT ![busy.key] = [sealedBy |-> k, token |-> busy.token]]
      BY <1>6 DEF StoreKey, SetSecret
    <3>2. [sealedBy |-> k, token |-> busy.token] # Absent
      BY <2>1, AbsentAssumption DEF Blob
    <3>. QED
      BY <2>1, <3>1, <3>2 DEF vault, GatewayInv, TypeOK, SecretTypeOK
  <2>3. vault[busy.key] = Absent \/ vault[busy.key] = busy.token
    BY <2>1 DEF vault, GatewayInv, KeyInv
  <2>4. UNCHANGED <<opens, revoked, request>>
    BY <1>3, <1>4, <1>6 DEF StoreKey, storeVars
  <2>5. CASE vault[busy.key] = Absent
    BY <2>1, <2>2, <2>4, <2>5 DEF Access!Next, Access!Deposit
  <2>6. CASE vault[busy.key] = busy.token
    BY <2>1, <2>2, <2>4, <2>6 DEF Access!vars, vault
  <2>. QED
    BY <2>3, <2>5, <2>6
<1>7. ASSUME NEW saved \in BOOLEAN, DropSecret(saved) PROVE [Access!Next]_(Access!vars)
  <2>1. CASE ~saved
    BY <1>5, <1>7, <2>1 DEF DropSecret, secretVars
  <2>2. CASE saved
    <3>1. busy.key \in KeyId
      BY <1>7, SuspendedType DEF DropSecret, GatewayInv, TypeOK
    <3>2. vault' = [vault EXCEPT ![busy.key] = Absent]
      BY <1>7, <2>2, <3>1 DEF DropSecret, DeleteSecret, vault, GatewayInv, TypeOK, SecretTypeOK
    <3>3. UNCHANGED <<opens, revoked, request>>
      BY <1>3, <1>4, <1>7 DEF DropSecret, storeVars, history
    <3>. QED
      BY <3>1, <3>2, <3>3 DEF Access!Next, Access!Withdraw
  <2>. QED
    BY <2>1, <2>2
<1>8. ASSUME NEW r \in Request, NEW b \in Bearer, Authenticate(r, b)
      PROVE  [Access!Next]_(Access!vars)
  <2>1. PICK a \in FindAgentByBearer(mem, b) :
          mcp' = [mcp EXCEPT ![r] = [pc |-> "admitted", bearer |-> b, agent |-> a,
                                     key |-> mem.agents[a].key_id, token |-> Absent]]
    BY <1>8 DEF Authenticate
  <2>. DEFINE k == mem.agents[a].key_id
  <2>2. k \in KeyId
    BY DEF FindAgentByBearer, Present, GatewayInv, TypeOK, StoreTypeOK, AgentsState, Agent
  <2>3. <<b, k>> \in opens
    BY <1>8, <2>2 DEF Authenticate, opens
  <2>4. request[r] = Access!Nobody
    BY <1>8 DEF Authenticate, GatewayInv, TypeOK, McpRequest, NoRequest, request, Access!Nobody
  <2>5. request' = [request EXCEPT ![r] = [pc |-> "admitted", bearer |-> b,
                                           key |-> k, token |-> Absent]]
    BY <2>1 DEF request, GatewayInv, TypeOK
  <2>6. UNCHANGED <<opens, revoked, vault>>
    BY <1>2, <1>4, <1>8 DEF Authenticate, storeVars, secretVars, history
  <2>7. Access!Admit(r, b, k)
    BY <2>3, <2>4, <2>5, <2>6 DEF Access!Admit
  <2>. QED
    BY <2>2, <2>7 DEF Access!Next
<1>9. ASSUME NEW r \in Request, Serve(r) PROVE [Access!Next]_(Access!vars)
  <2>1. PICK t \in Token : /\ GetSecret(mcp[r].key, t)
                           /\ mcp' = [mcp EXCEPT ![r].pc = "acting", ![r].token = t]
    BY <1>9 DEF Serve
  <2>2. mcp[r].key \in KeyId /\ mcp[r].pc = "admitted"
    BY <1>9, McpType DEF Serve, GatewayInv, TypeOK
  <2>3. vault[request[r].key] = t /\ t # Absent
    BY <2>1, <2>2, AbsentAssumption DEF GetSecret, vault, request
  <2>4. mcp'[r] = [mcp[r] EXCEPT !.pc = "acting", !.token = t]
    BY <2>1 DEF GatewayInv, TypeOK
  <2>5. mcp[r] \in [pc : {"admitted"}, bearer : Bearer, agent : AgentId,
                    key : KeyId, token : {Absent}]
    BY <2>2 DEF GatewayInv, TypeOK, McpRequest, NoRequest
  <2>6. request' = [request EXCEPT ![r].pc = "acting", ![r].token = t]
    <3>1. \A r2 \in Request \ {r} : mcp'[r2] = mcp[r2]
      BY <2>1 DEF GatewayInv, TypeOK
    <3>2. /\ mcp'[r].pc = "acting" /\ mcp'[r].bearer = mcp[r].bearer
          /\ mcp'[r].key = mcp[r].key /\ mcp'[r].token = t
      BY <2>4, <2>5
    <3>3. request'[r] = [request[r] EXCEPT !.pc = "acting", !.token = t]
      <4>. DEFINE Field == {"pc", "bearer", "key", "token"}
      <4>1. DOMAIN request[r] = Field
        BY DEF request
      <4>2. [request[r] EXCEPT !.pc = "acting", !.token = t] =
              [f \in Field |-> IF f = "pc" THEN "acting" ELSE IF f = "token" THEN t
                               ELSE request[r][f]]
        BY <4>1
      <4>3. request'[r] = [pc |-> "acting", bearer |-> mcp[r].bearer,
                           key |-> mcp[r].key, token |-> t]
        BY <3>2 DEF request
      <4>4. request[r].bearer = mcp[r].bearer /\ request[r].key = mcp[r].key
        BY DEF request
      <4>. HIDE DEF request
      <4>. QED
        BY <4>2, <4>3, <4>4
    <3>4. \A r2 \in Request \ {r} : request'[r2] = request[r2]
      BY <3>1 DEF request
    <3>5. /\ DOMAIN request = Request /\ request = [r2 \in Request |-> request[r2]]
          /\ request' = [r2 \in Request |-> request'[r2]]
      BY DEF request
    <3>. HIDE DEF request
    <3>. QED
      BY <3>3, <3>4, <3>5
  <2>7. UNCHANGED <<opens, revoked, vault>>
    BY <1>2, <1>4, <1>9, <2>1 DEF Serve, GetSecret, storeVars, history
  <2>8. request[r].pc = "admitted"
    BY <2>2 DEF request
  <2>. QED
    BY <2>3, <2>6, <2>7, <2>8 DEF Access!Next, Access!Act
<1>10. ASSUME NEW r \in Request, ServeFails(r) \/ Finish(r) PROVE [Access!Next]_(Access!vars)
  <2>1. mcp' = [mcp EXCEPT ![r] = NoRequest]
    BY <1>10 DEF ServeFails, Finish
  <2>2. request' = [request EXCEPT ![r] = Access!Nobody]
    BY <2>1 DEF request, GatewayInv, TypeOK, NoRequest, Access!Nobody
  <2>3. UNCHANGED <<opens, revoked, vault>>
    BY <1>2, <1>4, <1>10
    DEF ServeFails, Finish, GetSecretMissing, GetSecretThrows, storeVars, secretVars, history
  <2>. QED
    BY <2>2, <2>3 DEF Access!Next, Access!End
<1>11. ASSUME NEW p \in Passphrase \cup {Absent}, Restart(p) PROVE [Access!Next]_(Access!vars)
  <2>1. request' = [r \in Request |-> Access!Nobody]
    BY <1>11 DEF Restart, request, NoRequest, Access!Nobody
  <2>. QED
    BY <1>1, <1>2, <1>11, <2>1 DEF Restart, ReopenSecrets, Access!Next
<1>12. ASSUME NEW saved \in BOOLEAN, KeyStep(saved) PROVE [Access!Next]_(Access!vars)
  BY <1>5, <1>7, <1>12
  DEF KeyStep, PostKey, RollBackKey, SetSecretThrows, RemoveKey, secretVars
<1>13. ASSUME NEW saved \in BOOLEAN, AgentStep(saved) PROVE [Access!Next]_(Access!vars)
  BY <1>5, <1>13
  DEF AgentStep, PostAgent, PostRotate, PatchKeyId, PatchEnabled, RemoveAgent, secretVars
<1>. QED
  BY <1>5, <1>6, <1>8, <1>9, <1>10, <1>11, <1>12, <1>13
  DEF Next, McpStep, PatchRejected, secretVars, vars

(***************************************************************************)
(* The gateway implements TokenAccess: what handlers, files and restarts   *)
(* do together is never more than setting who opens what, storing and      *)
(* erasing tokens, and letting requests in with a bearer that opens a key. *)
(***************************************************************************)
THEOREM GatewayGrantsAccess == Spec => AccessGranted
BY AccessInit, AccessStep, GatewayInvariant, PTL DEF Spec, AccessGranted, Access!Spec
=============================================================================
