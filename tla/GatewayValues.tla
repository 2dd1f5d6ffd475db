---------------------------- MODULE GatewayValues ----------------------------
(***************************************************************************)
(* The values that pass between the gateway's two stores, the admin panel  *)
(* and the /mcp endpoint.                                                  *)
(***************************************************************************)
CONSTANTS
    KeyId,        \* ids newId() can draw for Keys; secrets are stored under them
    AgentId,      \* ids newId() can draw for Agents
    Bearer,       \* plaintext bearers randomBytes(32) can draw
    Token,        \* Cloudflare API tokens
    Passphrase,   \* values of GATEWAY_MASTER_PASSPHRASE
    Salt,         \* 16-byte salts randomBytes can draw
    Absent        \* "undefined": unset, no file, no entry

\* SHA-256 taken as injective, and never equal to a plaintext.
sha256Hex(b) == <<"sha256", b>>

\* The entry of one agent in AgentsState.agents.
Agent == [bearer_sha256 : {sha256Hex(b) : b \in Bearer},
          key_id        : KeyId,
          enabled       : BOOLEAN]

\* scrypt's output, taken as injective in the passphrase and the salt.
AesKey == Passphrase \X Salt

\* One value of secrets.enc.json.
Blob == [sealedBy : AesKey, token : Token]

ASSUME AbsentAssumption ==
    /\ Absent \notin KeyId
    /\ Absent \notin AgentId
    /\ Absent \notin Bearer
    /\ Absent \notin Token
    /\ Absent \notin Passphrase
    /\ Absent \notin Salt
    /\ Absent \notin Agent
    /\ Absent \notin AesKey
    /\ Absent \notin Blob
=============================================================================
