------------------------------- MODULE Gateway -------------------------------
(***************************************************************************)
(* Gateway mode as a whole: the admin panel's handlers (startAdminServer,  *)
(* src/gateway/admin.ts) and the /mcp endpoint (runHttp, src/index.ts)     *)
(* sharing one AgentStore and one secret store, with failing writes and    *)
(* crashes.                                                                *)
(*                                                                         *)
(* Node runs one handler at a time, up to its next await.  Request bodies, *)
(* the pause between authentication and the /mcp handler, and Cloudflare's *)
(* answers are real suspensions: other requests run meanwhile.  The awaits *)
(* on the secret store are not, since its methods settle before they       *)
(* return; but a handler that writes two files can die between the two.    *)
(* `busy' is the handler in that position: nothing else runs, except a     *)
(* crash.                                                                  *)
(*                                                                         *)
(* A handler that refuses (400, 401, 404, 409 before any write) changes    *)
(* nothing and is not a step; nor are the read-only GET endpoints.         *)
(***************************************************************************)
EXTENDS AgentStore, SecretStore

CONSTANT Request          \* slots for concurrent /mcp requests

VARIABLES
    busy,     \* the handler between two writes, or Absent
    mcp,      \* the /mcp request in each slot
    \* what clients and the administrator have been told (history):
    given,    \* key id |-> the token posted for it
    issued,   \* bearer |-> the agent it was returned for
    created,  \* keys whose POST succeeded
    failed,   \* keys whose POST failed because setSecret threw
    revoked,  \* bearers replaced or deleted by a call that succeeded
    off       \* agents disabled by a call that succeeded, none enabling them since

history == <<given, issued, created, failed, revoked, off>>
vars == <<storeVars, secretVars, busy, mcp, history>>

\* What the suspended handler still has to do.
Handler == [op : {"storeKey"}, key : KeyId, token : Token]
             \cup [op : {"dropSecret"}, key : KeyId]
             \cup [op : {"patchEnabled"}, agent : AgentId, enabled : BOOLEAN]
             \cup [op : {"patchInvalid"}]

ASSUME NoHandlerAssumption == Absent \notin Handler

\* An /mcp request: authenticated ("admitted", res.locals.agent being the copy
\* findAgentByBearer returned), then running with a token ("acting").
NoRequest == [pc |-> "idle", bearer |-> Absent, agent |-> Absent,
              key |-> Absent, token |-> Absent]

McpRequest ==
    {NoRequest}
      \cup [pc : {"admitted"}, bearer : Bearer, agent : AgentId, key : KeyId, token : {Absent}]
      \cup [pc : {"acting"}, bearer : Bearer, agent : AgentId, key : KeyId, token : Token]

(***************************************************************************)
(* The shape of every variable.                                            *)
(***************************************************************************)
TypeOK == /\ StoreTypeOK
          /\ SecretTypeOK
          /\ busy \in Handler \cup {Absent}
          /\ mcp \in [Request -> McpRequest]
          /\ given \in [KeyId -> Token \cup {Absent}]
          /\ issued \in [Bearer -> AgentId \cup {Absent}]
          /\ created \subseteq KeyId
          /\ failed \subseteq KeyId
          /\ revoked \subseteq Bearer
          /\ off \subseteq AgentId

Init == /\ StoreInit
        /\ SecretInit
        /\ busy = Absent
        /\ mcp = [r \in Request |-> NoRequest]
        /\ given = [k \in KeyId |-> Absent]
        /\ issued = [b \in Bearer |-> Absent]
        /\ created = {}
        /\ failed = {}
        /\ revoked = {}
        /\ off = {}

Suspended(op) == busy # Absent /\ busy.op = op

IssuedTo(a) == {b \in Bearer : issued[b] = a}

-----------------------------------------------------------------------------
\* The admin API, dispatchApi.

\* POST /api/keys: addKey.  When persist throws the handler ends here, outside
\* its try: the key stays in memory, without a secret.
PostKey(k, token, saved) ==
    /\ busy = Absent
    /\ AddKey(k, saved)
    /\ given' = [given EXCEPT ![k] = token]
    /\ busy' = IF saved THEN [op |-> "storeKey", key |-> k, token |-> token] ELSE Absent
    /\ UNCHANGED <<secretVars, mcp, issued, created, failed, revoked, off>>

\* ... then setSecret under the new id; the 201 follows, after an optional
\* probe of the token that touches neither store.
StoreKey ==
    /\ Suspended("storeKey")
    /\ SetSecret(busy.key, busy.token)
    /\ created' = created \cup {busy.key}
    /\ busy' = Absent
    /\ UNCHANGED <<storeVars, mcp, given, issued, failed, revoked, off>>

\* ... or setSecret throws and the catch rolls the key back.  No agent can be
\* bound to it yet, so deleteKey does not refuse; its persist may still throw,
\* which the inner catch swallows.
RollBackKey(saved) ==
    /\ Suspended("storeKey")
    /\ SetSecretThrows
    /\ DeleteKey(busy.key, saved)
    /\ failed' = failed \cup {busy.key}
    /\ busy' = Absent
    /\ UNCHANGED <<mcp, given, issued, created, revoked, off>>

\* Mutations: the secret is dropped although the metadata could not be
\* written; the secret is dropped first.
RemoveKey_GoesOn(k, saved) ==
    /\ busy = Absent
    /\ DeleteKey(k, saved)
    /\ busy' = [op |-> "dropSecret", key |-> k]
    /\ UNCHANGED <<secretVars, mcp, history>>

RemoveKey_SecretFirst(k, saved) ==
    /\ busy = Absent
    /\ DeleteKey(k, saved)
    /\ DeleteSecret(k)
    /\ UNCHANGED <<busy, mcp, history>>

\* DELETE /api/keys/:id: the metadata first ...
RemoveKey(k, saved) ==
    /\ busy = Absent
    /\ DeleteKey(k, saved)
    /\ busy' = IF saved THEN [op |-> "dropSecret", key |-> k] ELSE Absent
    /\ UNCHANGED <<secretVars, mcp, history>>

\* ... then the secret.  When its write throws the entry stays behind.
DropSecret(saved) ==
    /\ Suspended("dropSecret")
    /\ IF saved THEN DeleteSecret(busy.key) ELSE UNCHANGED secretVars
    /\ busy' = Absent
    /\ UNCHANGED <<storeVars, mcp, history>>

\* POST /api/agents.  Only a successful call returns the bearer.
PostAgent(a, b, k, saved) ==
    /\ busy = Absent
    /\ CreateAgent(a, b, k, saved)
    /\ issued' = IF saved THEN [issued EXCEPT ![b] = a] ELSE issued
    /\ UNCHANGED <<secretVars, busy, mcp, given, created, failed, revoked, off>>

\* POST /api/agents/:id/rotate.
PostRotate(a, b, saved) ==
    /\ busy = Absent
    /\ RotateBearer(a, b, saved)
    /\ issued' = IF saved THEN [issued EXCEPT ![b] = a] ELSE issued
    /\ revoked' = IF saved THEN revoked \cup IssuedTo(a) ELSE revoked
    /\ UNCHANGED <<secretVars, busy, mcp, given, created, failed, off>>

\* PATCH /api/agents/:id with a key_id: the rebinding is persisted before
\* `enabled' is looked at, in `next', the rest of the body.
PatchKeyId(a, k, next, saved) ==
    /\ busy = Absent
    /\ RebindAgent(a, k, saved)
    /\ busy' = IF saved THEN next ELSE Absent
    /\ UNCHANGED <<secretVars, mcp, history>>

\* PATCH with `enabled', alone or after the rebinding.
PatchEnabled(a, enabled, saved) ==
    /\ busy \in {Absent, [op |-> "patchEnabled", agent |-> a, enabled |-> enabled]}
    /\ SetAgentEnabled(a, enabled, saved)
    /\ off' = IF enabled THEN off \ {a} ELSE IF saved THEN off \cup {a} ELSE off
    /\ busy' = Absent
    /\ UNCHANGED <<secretVars, mcp, given, issued, created, failed, revoked>>

\* PATCH whose `enabled' is not a boolean: 400, the rebinding stays.
PatchRejected ==
    /\ Suspended("patchInvalid")
    /\ busy' = Absent
    /\ UNCHANGED <<storeVars, secretVars, mcp, history>>

\* DELETE /api/agents/:id.
RemoveAgent(a, saved) ==
    /\ busy = Absent
    /\ DeleteAgent(a, saved)
    /\ revoked' = IF saved THEN revoked \cup IssuedTo(a) ELSE revoked
    /\ UNCHANGED <<secretVars, busy, mcp, given, issued, created, failed, off>>

-----------------------------------------------------------------------------
\* The /mcp endpoint.  A client presents a bearer it was given: 256 random
\* bits are not guessed.

\* The middleware: a match is copied to res.locals (no match is a 401).
Authenticate(r, b) ==
    /\ busy = Absent
    /\ mcp[r].pc = "idle"
    /\ issued[b] # Absent
    /\ \E a \in FindAgentByBearer(mem, b) :
          mcp' = [mcp EXCEPT ![r] = [pc |-> "admitted", bearer |-> b, agent |-> a,
                                     key |-> mem.agents[a].key_id, token |-> Absent]]
    /\ UNCHANGED <<storeVars, secretVars, busy, history>>

\* Mutation: the agent's key is looked up again for the secret.
Serve_RereadsKey(r) ==
    /\ busy = Absent
    /\ mcp[r].pc = "admitted"
    /\ mcp[r].agent \in Present(mem)
    /\ \E t \in Token :
          /\ GetSecret(mem.agents[mcp[r].agent].key_id, t)
          /\ mcp' = [mcp EXCEPT ![r].pc = "acting", ![r].token = t]
    /\ UNCHANGED <<storeVars, busy, history>>

\* The POST handler, once express.json has the body: the secret of the key
\* captured at authentication, then runWithToken.
Serve(r) ==
    /\ busy = Absent
    /\ mcp[r].pc = "admitted"
    /\ \E t \in Token :
          /\ GetSecret(mcp[r].key, t)
          /\ mcp' = [mcp EXCEPT ![r].pc = "acting", ![r].token = t]
    /\ UNCHANGED <<storeVars, busy, history>>

\* No secret under that key, or getSecret throws: 500.
ServeFails(r) ==
    /\ busy = Absent
    /\ mcp[r].pc = "admitted"
    /\ GetSecretMissing(mcp[r].key) \/ GetSecretThrows(mcp[r].key)
    /\ mcp' = [mcp EXCEPT ![r] = NoRequest]
    /\ UNCHANGED <<storeVars, busy, history>>

\* Mutation: what the request held is left behind.
Finish_Leftover(r) ==
    /\ busy = Absent
    /\ mcp[r].pc \in {"admitted", "acting"}
    /\ mcp' = [mcp EXCEPT ![r].pc = "idle"]
    /\ UNCHANGED <<storeVars, secretVars, busy, history>>

\* The body is malformed, too large, or never arrives; or the tool call is
\* over and the answer sent.
Finish(r) ==
    /\ busy = Absent
    /\ mcp[r].pc \in {"admitted", "acting"}
    /\ mcp' = [mcp EXCEPT ![r] = NoRequest]
    /\ UNCHANGED <<storeVars, secretVars, busy, history>>

-----------------------------------------------------------------------------

\* The process dies and is started again, with passphrase p in its environment.
Restart(p) ==
    /\ Reload
    /\ ReopenSecrets(p)
    /\ busy' = Absent
    /\ mcp' = [r \in Request |-> NoRequest]
    /\ UNCHANGED history

\* What may follow key_id in a PATCH body: nothing, a boolean, or not one.
AfterKeyId(a) == {Absent, [op |-> "patchInvalid"]}
                   \cup [op : {"patchEnabled"}, agent : {a}, enabled : BOOLEAN]

KeyStep(saved) ==
    \/ \E k \in KeyId, t \in Token : PostKey(k, t, saved)
    \/ RollBackKey(saved)
    \/ \E k \in KeyId : RemoveKey(k, saved)
    \/ DropSecret(saved)

AgentStep(saved) ==
    \E a \in AgentId :
        \/ \E b \in Bearer, k \in KeyId : PostAgent(a, b, k, saved)
        \/ \E b \in Bearer : PostRotate(a, b, saved)
        \/ \E k \in KeyId, next \in AfterKeyId(a) : PatchKeyId(a, k, next, saved)
        \/ \E enabled \in BOOLEAN : PatchEnabled(a, enabled, saved)
        \/ RemoveAgent(a, saved)

McpStep(r) == \/ \E b \in Bearer : Authenticate(r, b)
              \/ Serve(r)
              \/ ServeFails(r)
              \/ Finish(r)

Next == \/ \E saved \in BOOLEAN : KeyStep(saved) \/ AgentStep(saved)
        \/ StoreKey
        \/ PatchRejected
        \/ \E r \in Request : McpStep(r)
        \/ \E p \in Passphrase \cup {Absent} : Restart(p)

Spec == Init /\ [][Next]_vars
-----------------------------------------------------------------------------

(***************************************************************************)
(* A tool call runs with the token that was posted for the very key its    *)
(* agent was bound to when the bearer was checked, and the bearer is one   *)
(* returned for that agent, whatever rotations, rebindings, deletions,     *)
(* failed writes and restarts happened before or since (index.ts 136-196). *)
(***************************************************************************)
TokenIsolation ==
    \A r \in Request : mcp[r].pc = "acting" =>
        /\ mcp[r].token = given[mcp[r].key]
        /\ issued[mcp[r].bearer] = mcp[r].agent

(***************************************************************************)
(* A bearer whose rotation or deletion was confirmed to the administrator  *)
(* authenticates nobody again: not now, and not after a restart from the   *)
(* file (rotateBearer, deleteAgent; README "stops working immediately").   *)
(***************************************************************************)
RevokedStaysRevoked ==
    \A b \in revoked : /\ FindAgentByBearer(mem, b) = {}
                       /\ FindAgentByBearer(disk, b) = {}

(***************************************************************************)
(* An agent whose disabling was confirmed stays disabled, in memory and in *)
(* the file, until somebody asks to enable it (setAgentEnabled).           *)
(***************************************************************************)
DisabledStaysOff ==
    \A m \in {mem, disk}, a \in off : a \in Present(m) => ~m.agents[a].enabled

(***************************************************************************)
(* A key whose creation was confirmed has its own token in the secret      *)
(* store for as long as memory or the file lists the key: whatever write   *)
(* of DELETE /api/keys fails, and wherever it is cut short, no agent is    *)
(* left bound to a key that lost its secret.                               *)
(***************************************************************************)
CreatedKeyHasSecret ==
    \A k \in created \cap (mem.keys \cup disk.keys) :
        secrets[k] # Absent /\ secrets[k].token = given[k]

(***************************************************************************)
(* The claim of admin.ts 370: the rollback runs "so a failed store leaves  *)
(* no dangling key".  It does not always hold: a full disk that fails      *)
(* setSecret fails the rollback's own write too, which is swallowed, and   *)
(* the next start lists the key from the file, with no secret.             *)
(***************************************************************************)
NoDanglingKey == failed \cap mem.keys = {}

(***************************************************************************)
(* A secret disappears only after its key is gone from memory and file, so *)
(* no crash or failed write leaves a listed key without its secret.        *)
(***************************************************************************)
SecretOutlivesKey ==
    [][\A k \in KeyId : secrets[k] # Absent /\ secrets'[k] = Absent
                           => k \notin mem.keys \cup disk.keys]_vars

(***************************************************************************)
(* The gateway implements TokenAccess: enabled agents are the pairs that   *)
(* open a key, confirmed revocations the dead bearers.                     *)
(***************************************************************************)
opens == {p \in Bearer \X KeyId :
            /\ issued[p[1]] # Absent
            /\ \E a \in FindAgentByBearer(mem, p[1]) : mem.agents[a].key_id = p[2]}
vault == [k \in KeyId |-> IF secrets[k] = Absent THEN Absent ELSE secrets[k].token]
request == [r \in Request |-> [pc     |-> mcp[r].pc,  bearer |-> mcp[r].bearer,
                               key    |-> mcp[r].key, token  |-> mcp[r].token]]

Access == INSTANCE TokenAccess WITH dead <- revoked

AccessGranted == Access!Spec

(***************************************************************************)
(* Once a bearer's revocation is confirmed, soon no request runs under it: *)
(* those in flight end and no new one starts (README "stops working        *)
(* immediately", for requests that were already past authentication).      *)
(***************************************************************************)
RevocationTakesHold ==
    \A b \in Bearer : b \in revoked ~> [](\A r \in Request : mcp[r].bearer # b)

(***************************************************************************)
(* Fairness.  The event loop takes queued events in turn, so a request's   *)
(* next event is not passed over for ever; Node's request timeout bounds   *)
(* the wait for a body and doFetch's 30 s timeout every call to            *)
(* Cloudflare, so that event does come.  A suspended handler is resumed.   *)
(***************************************************************************)
Resume == \/ StoreKey
          \/ PatchRejected
          \/ \E saved \in BOOLEAN :
                \/ RollBackKey(saved)
                \/ DropSecret(saved)
                \/ /\ busy # Absent
                   /\ \E a \in AgentId, enabled \in BOOLEAN : PatchEnabled(a, enabled, saved)

Fairness == /\ WF_vars(Resume)
            /\ \A r \in Request : SF_vars(Finish(r))

FairSpec == Spec /\ Fairness
=============================================================================
