------------------------------ MODULE EnvLists ------------------------------
(***************************************************************************)
(* The comma-separated lists in the server's environment, and what the     *)
(* tools decide from them (parseEnvAllowlist, resolveEnvVarAccess,         *)
(* isScriptAllowedForSecret, isWorkersDeployEnabled of src/tools.ts).  A   *)
(* string is the sequence of its characters, "comma" and "blank" among     *)
(* them, <<>> when the variable is unset.                                  *)
(***************************************************************************)
EXTENDS Texts

CONSTANT Denied       \* WORKER_SECRET_ENV_DENYLIST

\* Trimmed, the empty ones left out; the tools ask only for membership.
parseEnvAllowlist(raw) ==
    LET parts == split(raw, {"comma"})
    IN  UNION {trim(parts[i]) : i \in 1..Len(parts)}

parseScriptAllowlist(raw) == parseEnvAllowlist(raw)

\* Mutation: the allowlist overrides the denylist.
resolveEnvVarAccess_Listed(envVar, raw) == envVar \in parseEnvAllowlist(raw)

resolveEnvVarAccess(envVar, raw) ==
    /\ parseEnvAllowlist(raw) # {}
    /\ envVar \notin Denied
    /\ envVar \in parseEnvAllowlist(raw)

isScriptAllowedForSecret(script, raw) == script \in parseScriptAllowlist(raw)

isWorkersDeployEnabled(raw) == raw = <<"t", "r", "u", "e">>
=============================================================================
