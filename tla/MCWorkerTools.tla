---------------------------- MODULE MCWorkerTools ----------------------------
(***************************************************************************)
(* WorkerTools on two scripts (w, x), two variables (k, and d which is     *)
(* denied) and four environments whose lists have blanks and padding.      *)
(***************************************************************************)
EXTENDS WorkerTools, TLC

ScriptW == <<"w">>
ScriptX == <<"x">>
VarK == <<"k">>
VarD == <<"d">>
TwoScripts == {ScriptW, ScriptX}
Vars == {VarK, VarD}
DeniedVar == {VarD}

Env(names, scripts, deploy) ==
    [envAllowlist |-> names, scriptAllowlist |-> scripts, deploy |-> deploy,
     account |-> Absent, set |-> Vars]

True == <<"t", "r", "u", "e">>

\* A permits k, and denies d, for w; B permits k for x; C lists names and no
\* script, and spells "true" wrongly; D lists scripts and no name.  Where B
\* holds, the operator also gives the account.
EnvA == Env(<<"d", "comma", "blank", "k">>, <<"blank", "w", "comma">>, True)
EnvB == Env(<<"k">>, <<"x">>, True)
EnvC == Env(<<"k", "blank", "comma", "d">>, <<>>, <<"T", "r", "u", "e">>)
EnvD == Env(<<"blank">>, <<"w", "w", "comma", "x">>, True)
Environments == {EnvA, [EnvB EXCEPT !.account = CHOOSE a \in Account : TRUE], EnvC, EnvD}

\* The elements of each set are interchangeable.
Symmetry == Permutations(Call) \cup Permutations(Tenant)
=============================================================================
