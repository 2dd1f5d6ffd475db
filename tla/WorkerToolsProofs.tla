-------------------------- MODULE WorkerToolsProofs --------------------------
(***************************************************************************)
(* Theorems about the worker tools, for all sets of tenants, accounts,     *)
(* scripts, variables and environments, whatever the lists in them say,    *)
(* and any number of concurrent calls and restarts.                        *)
(***************************************************************************)
EXTENDS WorkerTools, TLAPS

-----------------------------------------------------------------------------
\* The gates are relations between environments, scripts and variables.

LEMMA SecretGateOpen ==
    ASSUME NEW e, NEW s, NEW v, <<e, s, v>> \in SecretGate
    PROVE  MaySetSecret(e, s, v) /\ e \in Environment /\ s \in Script /\ v \in EnvVar
BY DEF SecretGate

LEMMA DeployGateOpen ==
    ASSUME NEW e, NEW s, <<e, s>> \in DeployGate
    PROVE  MayDeploy(e, s) /\ e \in Environment /\ s \in Script
BY DEF DeployGate

-----------------------------------------------------------------------------
\* What a call in flight carries, and the step each action makes of it.

LiveCall == [pc : {"asking", "writing", "stray"}, op : {"setSecret", "deploy"},
             tenant : Tenant, script : Script, envVar : EnvVar \cup {Absent},
             explicit : Account \cup {Absent}, account : Account \cup {Absent}]

WellFormed(r) == r.pc # "idle" =>
    /\ r \in LiveCall
    /\ r.op = "setSecret" => r.envVar \in EnvVar
    /\ r.pc # "asking" => r.account \in Account

TypeInv == TypeOK /\ \A c \in Call : WellFormed(call[c])

\* A call as the two tools hand it to resolveAccountId.
Entering == [pc : {"idle"}, op : {"setSecret", "deploy"}, tenant : Tenant, script : Script,
             envVar : EnvVar \cup {Absent}, explicit : Account \cup {Absent}, account : {Absent}]

LEMMA EnterGoesOn ==
    ASSUME TypeOK, NEW c \in Call, NEW entered \in Entering, Enter(c, entered)
    PROVE  \E r \in LiveCall :
              /\ call' = [call EXCEPT ![c] = r]
              /\ r.pc = IF r.account = Absent THEN "asking" ELSE "writing"
              /\ r.op = entered.op /\ r.tenant = entered.tenant /\ r.script = entered.script
              /\ r.envVar = entered.envVar /\ r.explicit = entered.explicit
              /\ r.account = resolveAccountId(entered.explicit, entered.tenant)
<1>. DEFINE account == resolveAccountId(entered.explicit, entered.tenant)
            r == [entered EXCEPT !.pc = IF account = Absent THEN "asking" ELSE "writing",
                                 !.account = account]
<1>1. account \in Account \cup {Absent}
  BY EnvironmentAssumption DEF resolveAccountId, TypeOK, Entering
<1>2. call' = [call EXCEPT ![c] = r]
  BY DEF Enter
<1>. HIDE DEF account
<1>3. /\ r \in LiveCall
      /\ r.pc = IF r.account = Absent THEN "asking" ELSE "writing"
      /\ r.op = entered.op /\ r.tenant = entered.tenant /\ r.script = entered.script
      /\ r.envVar = entered.envVar /\ r.explicit = entered.explicit /\ r.account = account
  BY <1>1 DEF Entering, LiveCall
<1>. QED
  BY <1>2, <1>3 DEF account

-----------------------------------------------------------------------------

(***************************************************************************)
(* What lets a call in flight do what it is about to do, although the      *)
(* environment it was allowed by may be gone: some process was started in  *)
(* an environment E whose gate was open to it, and the account it writes   *)
(* to was named by its caller, by the operator, or by its own token.       *)
(***************************************************************************)
Permitted(r, E, own) == r.pc # "idle" =>
    /\ r.op = "setSecret" => \E e \in E : MaySetSecret(e, r.script, r.envVar)
    /\ r.op = "deploy" => \E e \in E : MayDeploy(e, r.script)
    /\ r.pc # "asking" /\ r.explicit = Absent =>
          r.account \in own[r.tenant] \cup {e.account : e \in E}

CallsInv == \A c \in Call : Permitted(call[c], envs, sole)

AccountsInv ==
    /\ env \in envs
    /\ \A t \in Tenant : accountId[t] # Absent => accountId[t] \in sole[t]
    /\ \A t \in Tenant, a \in Account : visible[t] = {a} => a \in sole[t]

WorkersInv == \A w \in Account \X Script :
    /\ code[w] = "model" => \E e \in envs : MayDeploy(e, w[2])
    /\ \A v \in secrets[w] : \E e \in envs : MaySetSecret(e, w[2], v)

DutyInv == TypeInv /\ CallsInv /\ AccountsInv /\ WorkersInv

\* Permissions are never taken back, only outlived.
LEMMA PermittedGrows ==
    ASSUME NEW r, NEW E, NEW E2, E \subseteq E2, NEW own, NEW own2, WellFormed(r),
           \A t \in Tenant : own[t] \subseteq own2[t], Permitted(r, E, own)
    PROVE  Permitted(r, E2, own2)
BY DEF Permitted, WellFormed, LiveCall

LEMMA InitInv == Init => DutyInv
<1>. SUFFICES ASSUME Init PROVE DutyInv
  OBVIOUS
<1>1. NoCall \in CallRecord /\ NoCall.pc = "idle"
  BY DEF CallRecord, NoCall
<1>2. TypeInv
  BY <1>1, StartsAssumption DEF Init, TypeInv, TypeOK, WellFormed, SoleAccounts
<1>. QED
  BY <1>1, <1>2 DEF Init, DutyInv, CallsInv, Permitted, AccountsInv, WorkersInv, SoleAccounts

\* One call moves: the others are as they were.
LEMMA CallMoves ==
    ASSUME DutyInv, NEW c \in Call, NEW r \in CallRecord, call' = [call EXCEPT ![c] = r],
           WellFormed(r), Permitted(r, envs, sole), UNCHANGED <<envs, sole>>
    PROVE  /\ call' \in [Call -> CallRecord]
           /\ \A d \in Call : WellFormed(call'[d])
           /\ CallsInv'
BY DEF DutyInv, TypeInv, TypeOK, CallsInv

LEMMA CallDrops ==
    ASSUME DutyInv, NEW c \in Call, call' = [call EXCEPT ![c] = NoCall], UNCHANGED <<envs, sole>>
    PROVE  /\ call' \in [Call -> CallRecord]
           /\ \A d \in Call : WellFormed(call'[d])
           /\ CallsInv'
<1>1. NoCall \in CallRecord /\ NoCall.pc = "idle"
  BY DEF CallRecord, NoCall
<1>2. WellFormed(NoCall) /\ Permitted(NoCall, envs, sole)
  BY <1>1 DEF WellFormed, Permitted
<1>. QED
  BY <1>1, <1>2, CallMoves

\* The environment is the running process's, and so is its account.
LEMMA EnterKeeps ==
    ASSUME DutyInv, NEW c \in Call, NEW entered \in Entering, Enter(c, entered),
           entered.op = "setSecret" => /\ entered.envVar \in EnvVar
                                       /\ MaySetSecret(env, entered.script, entered.envVar),
           entered.op = "deploy" => MayDeploy(env, entered.script)
    PROVE  DutyInv'
<1>1. UNCHANGED <<env, accountId, visible, code, secrets, starts, envs, sole>>
  BY DEF Enter, workers
<1>2. TypeOK /\ AccountsInv /\ WorkersInv
  BY DEF DutyInv, TypeInv
<1>3. PICK r \in LiveCall :
         /\ call' = [call EXCEPT ![c] = r]
         /\ r.pc = IF r.account = Absent THEN "asking" ELSE "writing"
         /\ r.op = entered.op /\ r.tenant = entered.tenant /\ r.script = entered.script
         /\ r.envVar = entered.envVar /\ r.explicit = entered.explicit
         /\ r.account = resolveAccountId(entered.explicit, entered.tenant)
  BY <1>2, EnterGoesOn
<1>4. r \in CallRecord /\ WellFormed(r)
  BY <1>3 DEF LiveCall, CallRecord, WellFormed
<1>5. r.account # Absent /\ r.explicit = Absent
        => r.account \in sole[r.tenant] \cup {e.account : e \in envs}
  BY <1>2, <1>3 DEF resolveAccountId, AccountsInv, LiveCall
<1>6. Permitted(r, envs, sole)
  BY <1>2, <1>3, <1>5 DEF Permitted, AccountsInv
<1>. QED
  BY <1>1, <1>2, <1>3, <1>4, <1>6, CallMoves
  DEF DutyInv, TypeInv, TypeOK, AccountsInv, WorkersInv

LEMMA StartKeeps ==
    ASSUME DutyInv, NEW c \in Call, NEW t \in Tenant, NEW s \in Script,
           NEW explicit \in Account \cup {Absent},
           \/ StartDeploy(c, t, s, explicit)
           \/ \E v \in EnvVar : StartSetSecret(c, t, s, v, explicit)
    PROVE  DutyInv'
<1>1. CASE StartDeploy(c, t, s, explicit)
  <2>. DEFINE entered == [NoCall EXCEPT !.op = "deploy", !.tenant = t, !.script = s,
                                        !.explicit = explicit]
  <2>1. entered \in Entering /\ entered.op = "deploy" /\ entered.script = s
    BY DEF Entering, NoCall
  <2>2. MayDeploy(env, s) /\ Enter(c, entered)
    BY <1>1, DeployGateOpen DEF StartDeploy
  <2>. HIDE DEF entered
  <2>. QED
    BY <2>1, <2>2, EnterKeeps
<1>2. ASSUME NEW v \in EnvVar, StartSetSecret(c, t, s, v, explicit) PROVE DutyInv'
  <2>. DEFINE entered == [NoCall EXCEPT !.op = "setSecret", !.tenant = t, !.script = s,
                                        !.envVar = v, !.explicit = explicit]
  <2>1. /\ entered \in Entering /\ entered.op = "setSecret"
        /\ entered.script = s /\ entered.envVar = v
    BY DEF Entering, NoCall
  <2>2. MaySetSecret(env, s, v) /\ Enter(c, entered)
    BY <1>2, SecretGateOpen DEF StartSetSecret
  <2>. HIDE DEF entered
  <2>. QED
    BY <2>1, <2>2, EnterKeeps
<1>. QED
  BY <1>1, <1>2

LEMMA ResolvedKeeps ==
    ASSUME DutyInv, NEW c \in Call, NEW a \in Account, Resolved(c, a) PROVE DutyInv'
<1>. DEFINE r == [call[c] EXCEPT !.pc = "writing", !.account = a]
            t == call[c].tenant
<1>1. /\ UNCHANGED <<env, visible, code, secrets, starts, envs, sole>>
      /\ call[c].pc = "asking" /\ visible[t] = {a}
      /\ accountId' = [accountId EXCEPT ![t] = a]
  BY DEF Resolved, workers
<1>2. TypeOK /\ AccountsInv /\ WorkersInv /\ WellFormed(call[c]) /\ Permitted(call[c], envs, sole)
  BY DEF DutyInv, TypeInv, CallsInv
<1>3. call[c] \in LiveCall
  BY <1>1, <1>2 DEF WellFormed
<1>4. t \in Tenant /\ a \in sole[t]
  BY <1>1, <1>2, <1>3 DEF LiveCall, AccountsInv
<1>5. call' = [call EXCEPT ![c] = r]
  BY <1>2 DEF Resolved, TypeOK
<1>6. r \in CallRecord /\ r \in LiveCall
  BY <1>3 DEF LiveCall, CallRecord
<1>7. WellFormed(r) /\ Permitted(r, envs, sole)
  BY <1>1, <1>2, <1>3, <1>4, <1>6 DEF WellFormed, Permitted, LiveCall
<1>. HIDE DEF r, t
<1>8. TypeInv' /\ CallsInv'
  BY <1>1, <1>2, <1>4, <1>5, <1>6, <1>7, CallMoves DEF TypeInv, TypeOK
<1>. QED
  BY <1>1, <1>2, <1>4, <1>8 DEF DutyInv, TypeOK, AccountsInv, WorkersInv

LEMMA PutKeeps == ASSUME DutyInv, NEW c \in Call, Put(c) PROVE DutyInv'
<1>. DEFINE w == <<call[c].account, call[c].script>>
<1>1. /\ UNCHANGED <<env, accountId, visible, starts, envs, sole>>
      /\ call[c].pc \in {"writing", "stray"}
      /\ call' = [call EXCEPT ![c] = NoCall]
      /\ \/ /\ call[c].op = "deploy"
            /\ code' = [code EXCEPT ![w] = "model"]
            /\ secrets' = secrets
         \/ /\ call[c].op = "setSecret"
            /\ secrets' = [secrets EXCEPT ![w] = @ \cup {call[c].envVar}]
            /\ code' = code
  BY DEF Put
<1>2. TypeOK /\ AccountsInv /\ WorkersInv /\ WellFormed(call[c]) /\ Permitted(call[c], envs, sole)
  BY DEF DutyInv, TypeInv, CallsInv
<1>3. w \in Account \X Script /\ w[2] = call[c].script
      /\ (call[c].op = "setSecret" => call[c].envVar \in EnvVar)
  BY <1>1, <1>2 DEF WellFormed, LiveCall
<1>4. /\ call[c].op = "deploy" => \E e \in envs : MayDeploy(e, w[2])
      /\ call[c].op = "setSecret" => \E e \in envs : MaySetSecret(e, w[2], call[c].envVar)
  BY <1>1, <1>2, <1>3 DEF Permitted
<1>. HIDE DEF w
<1>5. /\ code' \in [Account \X Script -> {"none", "operator", "model"}]
      /\ secrets' \in [Account \X Script -> SUBSET EnvVar]
  BY <1>1, <1>2, <1>3 DEF TypeOK
<1>6. WorkersInv'
  <2>1. ASSUME NEW x \in Account \X Script, code'[x] = "model"
        PROVE  \E e \in envs : MayDeploy(e, x[2])
    BY <1>1, <1>2, <1>3, <1>4, <2>1 DEF TypeOK, WorkersInv
  <2>2. ASSUME NEW x \in Account \X Script, NEW v \in secrets'[x]
        PROVE  \E e \in envs : MaySetSecret(e, x[2], v)
    BY <1>1, <1>2, <1>3, <1>4 DEF TypeOK, WorkersInv
  <2>. QED
    BY <1>1, <2>1, <2>2 DEF WorkersInv
<1>. QED
  BY <1>1, <1>2, <1>5, <1>6, CallDrops DEF DutyInv, TypeInv, TypeOK, AccountsInv

LEMMA FailKeeps == ASSUME DutyInv, NEW c \in Call, Fail(c) PROVE DutyInv'
BY CallDrops DEF Fail, workers, DutyInv, TypeInv, TypeOK, AccountsInv, WorkersInv

LEMMA GiveUpKeeps == ASSUME DutyInv, NEW c \in Call, GiveUp(c) PROVE DutyInv'
<1>. DEFINE r == [call[c] EXCEPT !.pc = "stray"]
<1>1. WellFormed(call[c]) /\ Permitted(call[c], envs, sole) /\ call[c].pc = "writing" /\ TypeOK
  BY DEF GiveUp, DutyInv, TypeInv, CallsInv
<1>2. r \in CallRecord /\ r \in LiveCall /\ WellFormed(r) /\ Permitted(r, envs, sole)
  BY <1>1 DEF WellFormed, Permitted, LiveCall, CallRecord
<1>3. call' = [call EXCEPT ![c] = r]
  BY <1>1 DEF GiveUp, TypeOK
<1>. HIDE DEF r
<1>. QED
  BY <1>2, <1>3, CallMoves DEF GiveUp, workers, DutyInv, TypeInv, TypeOK, AccountsInv, WorkersInv

LEMMA DeployOutOfBandKeeps ==
    ASSUME DutyInv, NEW w \in Account \X Script, DeployOutOfBand(w) PROVE DutyInv'
BY DEF DeployOutOfBand, DutyInv, TypeInv, TypeOK, CallsInv, AccountsInv, WorkersInv

LEMMA RegrantKeeps ==
    ASSUME DutyInv, NEW t \in Tenant, NEW accounts \in SUBSET Account, Regrant(t, accounts)
    PROVE  DutyInv'
<1>1. /\ UNCHANGED <<env, accountId, call, code, secrets, starts, envs>>
      /\ visible' = [visible EXCEPT ![t] = accounts]
      /\ sole' = [s \in Tenant |-> sole[s] \cup SoleAccounts(visible')[s]]
  BY DEF Regrant, workers
<1>2. TypeOK'
  BY <1>1 DEF DutyInv, TypeInv, TypeOK, SoleAccounts
<1>3. AccountsInv'
  BY <1>1 DEF DutyInv, TypeInv, TypeOK, AccountsInv, SoleAccounts
<1>4. CallsInv'
  BY <1>1, PermittedGrows DEF DutyInv, TypeInv, CallsInv
<1>. QED
  BY <1>1, <1>2, <1>3, <1>4 DEF DutyInv, TypeInv, WorkersInv

LEMMA RestartKeeps == ASSUME DutyInv, NEW e \in Environment, Restart(e) PROVE DutyInv'
<1>1. /\ UNCHANGED <<visible, code, secrets, sole>>
      /\ env' = e /\ envs' = envs \cup {e} /\ starts' = starts + 1 /\ starts < MaxStarts
      /\ accountId' = [t \in Tenant |-> Absent]
      /\ call' = [c \in Call |-> IF call[c].pc \in {"writing", "stray"}
                                 THEN [call[c] EXCEPT !.pc = "stray"] ELSE NoCall]
  BY DEF Restart, workers
<1>2. ASSUME NEW c \in Call
      PROVE  call'[c] \in CallRecord /\ WellFormed(call'[c]) /\ Permitted(call'[c], envs, sole)
  <2>1. WellFormed(call[c]) /\ Permitted(call[c], envs, sole) /\ call[c] \in CallRecord
    BY DEF DutyInv, TypeInv, TypeOK, CallsInv
  <2>2. CASE call[c].pc \in {"writing", "stray"}
    <3>. DEFINE r == [call[c] EXCEPT !.pc = "stray"]
    <3>1. r \in CallRecord /\ r \in LiveCall /\ WellFormed(r) /\ Permitted(r, envs, sole)
      BY <2>1, <2>2 DEF WellFormed, Permitted, LiveCall, CallRecord
    <3>2. call'[c] = r
      BY <1>1, <2>2
    <3>. QED
      BY <3>1, <3>2
  <2>3. CASE call[c].pc \notin {"writing", "stray"}
    <3>1. call'[c] = NoCall /\ NoCall \in CallRecord /\ NoCall.pc = "idle"
      BY <1>1, <2>3 DEF NoCall, CallRecord
    <3>. QED
      BY <3>1 DEF WellFormed, Permitted
  <2>. QED
    BY <2>2, <2>3
<1>3. TypeInv'
  <2>1. starts' \in 1..MaxStarts
    BY <1>1, StartsAssumption DEF DutyInv, TypeInv, TypeOK
  <2>2. call' \in [Call -> CallRecord]
    BY <1>1, <1>2
  <2>. QED
    BY <1>1, <1>2, <2>1, <2>2 DEF DutyInv, TypeInv, TypeOK
<1>4. CallsInv'
  BY <1>1, <1>2, PermittedGrows DEF CallsInv
<1>. QED
  BY <1>1, <1>3, <1>4 DEF DutyInv, AccountsInv, WorkersInv

LEMMA DutyInvariant == Spec => []DutyInv
<1>1. DutyInv /\ [Next]_vars => DutyInv'
  <2>. SUFFICES ASSUME DutyInv, [Next]_vars PROVE DutyInv'
    OBVIOUS
  <2>1. ASSUME NEW c \in Call, Step(c) PROVE DutyInv'
    BY <2>1, StartKeeps, ResolvedKeeps, PutKeeps, FailKeeps, GiveUpKeeps DEF Step
  <2>2. CASE UNCHANGED vars
    BY <2>2 DEF vars, workers, DutyInv, TypeInv, TypeOK, CallsInv, AccountsInv, WorkersInv
  <2>. QED
    BY <2>1, <2>2, DeployOutOfBandKeeps, RegrantKeeps, RestartKeeps DEF Next
<1>. QED
  BY <1>1, InitInv, PTL DEF Spec

(***************************************************************************)
(* Every variable keeps its shape.                                         *)
(***************************************************************************)
THEOREM TypeCorrect == Spec => []TypeOK
BY DutyInvariant, PTL DEF DutyInv, TypeInv

(***************************************************************************)
(* No script holds a secret taken from the environment while its code was  *)
(* deployed through the server, unless the operator moved it onto or off   *)
(* the allowlist between runs: one allowlist never opens both gates.       *)
(***************************************************************************)
THEOREM DutiesStaySeparate == Spec => []SeparationOfDuties
<1>1. DutyInv => SeparationOfDuties
  <2>. SUFFICES ASSUME DutyInv, NEW w \in Account \X Script, code[w] = "model", secrets[w] # {}
                PROVE  w[2] \in Moved
    BY DEF SeparationOfDuties
  <2>1. PICK v \in secrets[w] : TRUE
    OBVIOUS
  <2>2. PICK e1 \in envs : MaySetSecret(e1, w[2], v)
    BY DEF DutyInv, WorkersInv
  <2>3. PICK e2 \in envs : MayDeploy(e2, w[2])
    BY DEF DutyInv, WorkersInv
  <2>. QED
    BY <2>2, <2>3 DEF MaySetSecret, MayDeploy, Moved
<1>. QED
  BY <1>1, DutyInvariant, PTL

(***************************************************************************)
(* A secret that reached a script was permitted by one environment: its    *)
(* variable set, listed and not denied there, its script listed there.     *)
(***************************************************************************)
THEOREM SecretsArePermitted == Spec => []SecretsWerePermitted
<1>1. DutyInv => SecretsWerePermitted
  BY DEF DutyInv, WorkersInv, SecretsWerePermitted, MaySetSecret, resolveEnvVarAccess,
         isScriptAllowedForSecret
<1>. QED
  BY <1>1, DutyInvariant, PTL

(***************************************************************************)
(* A call that names no account writes to the operator's, or to one its    *)
(* own token has seen as its only one.                                     *)
(***************************************************************************)
THEOREM AccountsAreOwn == Spec => []AccountIsOwn
<1>1. DutyInv => AccountIsOwn
  BY DEF DutyInv, CallsInv, Permitted, AccountIsOwn
<1>. QED
  BY <1>1, DutyInvariant, PTL

=============================================================================
