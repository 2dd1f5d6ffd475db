----------------------------- MODULE WorkerTools -----------------------------
(***************************************************************************)
(* cloudflare_set_worker_secret_from_env and cloudflare_deploy_worker      *)
(* (src/tools.ts) over resolveAccountId (src/cloudflare.ts): the gates the *)
(* operator sets in the environment, calls that run concurrently with the  *)
(* account lookup between gate and write, writes still on their way to     *)
(* Cloudflare when the call or the process is gone, and processes started  *)
(* with another environment.                                               *)
(*                                                                         *)
(* The environment is read at call time but changes only with the process. *)
(* Refused calls (a gate closed, confirm not true) change nothing and are  *)
(* not steps.                                                              *)
(***************************************************************************)
EXTENDS EnvLists

CONSTANTS
    Tenant,      \* request tokens
    Account,
    Script,      \* names of Worker scripts, as sequences of characters
    EnvVar,      \* names of environment variables, likewise
    Environment, \* the environments a process may be started in
    Call,        \* slots for concurrent calls
    MaxStarts,   \* how many processes are started (a bound of the model)
    Absent

VARIABLES
    env,         \* the environment of the running process
    accountId,   \* tenantResolvedAccountId
    call,        \* the call in each slot
    visible,     \* Cloudflare: the accounts each token can see
    code,        \* Cloudflare: who wrote the code of a script
    secrets,     \* Cloudflare: the variables whose values are a script's secrets
    \* history:
    starts,      \* processes started
    envs,        \* the environments they were started in
    sole         \* the accounts each token has seen as its only one

workers == <<code, secrets>>
vars == <<env, accountId, call, visible, workers, starts, envs, sole>>

\* What is read of an environment.
EnvFields == {"envAllowlist", "scriptAllowlist", "deploy", "account", "set"}

ASSUME EnvironmentAssumption ==
    \A e \in Environment : /\ DOMAIN e = EnvFields
                           /\ e.account \in Account \cup {Absent}
                           /\ e.set \subseteq EnvVar

ASSUME StartsAssumption == MaxStarts \in Nat \ {0}

NoCall == [pc |-> "idle", op |-> "none", tenant |-> Absent, script |-> Absent,
           envVar |-> Absent, explicit |-> Absent, account |-> Absent]

CallRecord == [pc : {"idle", "asking", "writing", "stray"},
               op : {"none", "setSecret", "deploy"},
               tenant : Tenant \cup {Absent}, script : Script \cup {Absent},
               envVar : EnvVar \cup {Absent}, explicit : Account \cup {Absent},
               account : Account \cup {Absent}]

(***************************************************************************)
(* The shape of every variable.                                            *)
(***************************************************************************)
TypeOK == /\ env \in Environment
          /\ accountId \in [Tenant -> Account \cup {Absent}]
          /\ call \in [Call -> CallRecord]
          /\ visible \in [Tenant -> SUBSET Account]
          /\ code \in [Account \X Script -> {"none", "operator", "model"}]
          /\ secrets \in [Account \X Script -> SUBSET EnvVar]
          /\ starts \in 1..MaxStarts
          /\ envs \subseteq Environment
          /\ sole \in [Tenant -> SUBSET Account]

SoleAccounts(v) == [t \in Tenant |-> {a \in Account : v[t] = {a}}]

Init == /\ env \in Environment
        /\ accountId = [t \in Tenant |-> Absent]
        /\ call = [c \in Call |-> NoCall]
        /\ visible \in [Tenant -> SUBSET Account]
        /\ code = [w \in Account \X Script |-> "none"]
        /\ secrets = [w \in Account \X Script |-> {}]
        /\ starts = 1
        /\ envs = {env}
        /\ sole = SoleAccounts(visible)

-----------------------------------------------------------------------------
\* The gates, in the order of the code; confirm is true.

MaySetSecret(e, script, envVar) ==
    /\ resolveEnvVarAccess(envVar, e.envAllowlist)
    /\ isScriptAllowedForSecret(script, e.scriptAllowlist)
    /\ envVar \in e.set

\* Mutation: reserved scripts are not refused.
MayDeploy_Reserved(e, script) == isWorkersDeployEnabled(e.deploy)

MayDeploy(e, script) ==
    /\ isWorkersDeployEnabled(e.deploy)
    /\ ~isScriptAllowedForSecret(script, e.scriptAllowlist)

\* What the gates let through in each environment.
SecretGate == {g \in {<<e, s, v>> : e \in Environment, s \in Script, v \in EnvVar} :
                  MaySetSecret(g[1], g[2], g[3])}
DeployGate == {g \in {<<e, s>> : e \in Environment, s \in Script} :
                  MayDeploy(g[1], g[2])}

\* resolveAccountId up to its await: explicit argument, environment, cache.
resolveAccountId(explicit, tenant) ==
    CASE explicit # Absent -> explicit
      [] explicit = Absent /\ env.account # Absent -> env.account
      [] OTHER -> accountId[tenant]

Enter(c, entered) ==
    LET account == resolveAccountId(entered.explicit, entered.tenant)
    IN  /\ call[c].pc = "idle"
        /\ call' = [call EXCEPT ![c] =
               [entered EXCEPT !.pc = IF account = Absent THEN "asking" ELSE "writing",
                               !.account = account]]
        /\ UNCHANGED <<env, accountId, visible, workers, starts, envs, sole>>

StartSetSecret(c, tenant, script, envVar, explicit) ==
    /\ <<env, script, envVar>> \in SecretGate
    /\ Enter(c, [NoCall EXCEPT !.op = "setSecret", !.tenant = tenant, !.script = script,
                               !.envVar = envVar, !.explicit = explicit])

StartDeploy(c, tenant, script, explicit) ==
    /\ <<env, script>> \in DeployGate
    /\ Enter(c, [NoCall EXCEPT !.op = "deploy", !.tenant = tenant, !.script = script,
                               !.explicit = explicit])

\* Mutation: one cached id for all tenants.
Resolved_Global(c, a) ==
    /\ call[c].pc = "asking"
    /\ visible[call[c].tenant] = {a}
    /\ accountId' = [t \in Tenant |-> a]
    /\ call' = [call EXCEPT ![c].pc = "writing", ![c].account = a]
    /\ UNCHANGED <<env, visible, workers, starts, envs, sole>>

\* GET /accounts is answered: the only account is cached and used.
Resolved(c, a) ==
    /\ call[c].pc = "asking"
    /\ visible[call[c].tenant] = {a}
    /\ accountId' = [accountId EXCEPT ![call[c].tenant] = a]
    /\ call' = [call EXCEPT ![c].pc = "writing", ![c].account = a]
    /\ UNCHANGED <<env, visible, workers, starts, envs, sole>>

\* Cloudflare does the PUT, for a token that can see the account; a secret
\* needs a script to be there.
Put(c) ==
    LET w == <<call[c].account, call[c].script>>
    IN  /\ call[c].pc \in {"writing", "stray"}
        /\ call[c].account \in visible[call[c].tenant]
        /\ \/ /\ call[c].op = "deploy"
              /\ code' = [code EXCEPT ![w] = "model"]
              /\ UNCHANGED secrets
           \/ /\ call[c].op = "setSecret"
              /\ code[w] # "none"
              /\ secrets' = [secrets EXCEPT ![w] = @ \cup {call[c].envVar}]
              /\ UNCHANGED code
        /\ call' = [call EXCEPT ![c] = NoCall]
        /\ UNCHANGED <<env, accountId, visible, starts, envs, sole>>

\* No account, or more than one, a refusal or a network error, or a stray
\* write that never arrives.
Fail(c) ==
    /\ call[c].pc # "idle"
    /\ call' = [call EXCEPT ![c] = NoCall]
    /\ UNCHANGED <<env, accountId, visible, workers, starts, envs, sole>>

\* doFetch gives up on a PUT that is still on its way.
GiveUp(c) ==
    /\ call[c].pc = "writing"
    /\ call' = [call EXCEPT ![c].pc = "stray"]
    /\ UNCHANGED <<env, accountId, visible, workers, starts, envs, sole>>

\* The operator deploys a script by other means.
DeployOutOfBand(w) ==
    /\ code[w] # "operator"
    /\ code' = [code EXCEPT ![w] = "operator"]
    /\ UNCHANGED <<env, accountId, call, visible, secrets, starts, envs, sole>>

\* A token is given an account or loses one.
Regrant(t, accounts) ==
    /\ accounts # visible[t]
    /\ visible' = [visible EXCEPT ![t] = accounts]
    /\ sole' = [s \in Tenant |-> sole[s] \cup SoleAccounts(visible')[s]]
    /\ UNCHANGED <<env, accountId, call, workers, starts, envs>>

\* The process stops and another starts in environment e; PUTs that were sent
\* may still arrive.
Restart(e) ==
    /\ starts < MaxStarts
    /\ starts' = starts + 1
    /\ env' = e
    /\ envs' = envs \cup {e}
    /\ accountId' = [t \in Tenant |-> Absent]
    /\ call' = [c \in Call |-> IF call[c].pc \in {"writing", "stray"}
                               THEN [call[c] EXCEPT !.pc = "stray"] ELSE NoCall]
    /\ UNCHANGED <<visible, workers, sole>>

Step(c) == \/ \E t \in Tenant, s \in Script, explicit \in Account \cup {Absent} :
                \/ StartDeploy(c, t, s, explicit)
                \/ \E v \in EnvVar : StartSetSecret(c, t, s, v, explicit)
           \/ \E a \in Account : Resolved(c, a)
           \/ Put(c)
           \/ Fail(c)
           \/ GiveUp(c)

Next == \/ \E c \in Call : Step(c)
        \/ \E w \in Account \X Script : DeployOutOfBand(w)
        \/ \E t \in Tenant, accounts \in SUBSET Account : Regrant(t, accounts)
        \/ \E e \in Environment : Restart(e)

Spec == Init /\ [][Next]_vars

-----------------------------------------------------------------------------

\* Scripts that some process could deploy and some process could give secrets.
Moved == {s \in Script :
            /\ \E e \in envs : isScriptAllowedForSecret(s, e.scriptAllowlist)
            /\ \E e \in envs : ~isScriptAllowedForSecret(s, e.scriptAllowlist)}

(***************************************************************************)
(* Separation of duties (tools.ts 958-970, README 201): no script holds a  *)
(* secret taken from the environment while its code was deployed by        *)
(* cloudflare_deploy_worker, whatever calls overlap and however late their *)
(* writes land, unless the operator moved it onto or off the allowlist     *)
(* between runs.                                                           *)
(***************************************************************************)
SeparationOfDuties ==
    \A w \in Account \X Script :
        code[w] = "model" /\ secrets[w] # {} => w[2] \in Moved

(***************************************************************************)
(* A secret that reached a script was the value of a variable, set and not *)
(* denied, that one single environment listed together with that script:   *)
(* two half permissions of different runs never add up to one.             *)
(***************************************************************************)
SecretsWerePermitted ==
    \A w \in Account \X Script, v \in EnvVar : v \in secrets[w] =>
        /\ v \notin Denied
        /\ \E e \in envs : /\ v \in e.set \cap parseEnvAllowlist(e.envAllowlist)
                           /\ w[2] \in parseScriptAllowlist(e.scriptAllowlist)

(***************************************************************************)
(* A call that names no account writes to the operator's, or to one that   *)
(* its own token has seen as its only account, never to one resolved for   *)
(* another tenant (cloudflare.ts 513-518).                                 *)
(***************************************************************************)
AccountIsOwn ==
    \A c \in Call : call[c].pc \in {"writing", "stray"} /\ call[c].explicit = Absent =>
        call[c].account \in sole[call[c].tenant] \cup {e.account : e \in envs}
=============================================================================
