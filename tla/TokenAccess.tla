----------------------------- MODULE TokenAccess -----------------------------
(***************************************************************************)
(* What the gateway promises its operator, without files, handlers or      *)
(* agents: a relation from bearers to keys, a vault of tokens under those  *)
(* keys, and requests that get in with a bearer and act with one token.    *)
(*                                                                         *)
(*   - at any moment a bearer opens at most one key;                       *)
(*   - a request acts only with the token that was in the vault under the  *)
(*     key its bearer opened when it was admitted;                         *)
(*   - a bearer declared dead never opens anything again;                  *)
(*   - a vault entry is written once and never changes to another token.   *)
(***************************************************************************)
CONSTANTS Request, Bearer, KeyId, Token, Absent

VARIABLES
    opens,     \* the pairs <<bearer, key>> an admission may use now
    dead,      \* bearers that must never open anything again
    vault,     \* key |-> token, or Absent
    request    \* slot |-> its phase, bearer, key and token

vars == <<opens, dead, vault, request>>

Nobody == [pc |-> "idle", bearer |-> Absent, key |-> Absent, token |-> Absent]

Init == /\ opens = {}
        /\ dead = {}
        /\ vault = [k \in KeyId |-> Absent]
        /\ request = [r \in Request |-> Nobody]

OneKeyPerBearer(pairs) == \A p, q \in pairs : p[1] = q[1] => p = q

\* Administration, a restart, and whatever else may change who opens what.
Administer ==
    /\ opens' \subseteq (Bearer \ dead') \X KeyId
    /\ OneKeyPerBearer(opens')
    /\ dead \subseteq dead'

Deposit(k, t) == /\ vault[k] = Absent
                 /\ vault' = [vault EXCEPT ![k] = t]
                 /\ UNCHANGED <<opens, dead, request>>

Withdraw(k) == /\ vault' = [vault EXCEPT ![k] = Absent]
               /\ UNCHANGED <<opens, dead, request>>

Admit(r, b, k) ==
    /\ request[r] = Nobody
    /\ <<b, k>> \in opens
    /\ request' = [request EXCEPT ![r] = [pc |-> "admitted", bearer |-> b,
                                          key |-> k, token |-> Absent]]
    /\ UNCHANGED <<opens, dead, vault>>

Act(r) ==
    /\ request[r].pc = "admitted"
    /\ vault[request[r].key] # Absent
    /\ request' = [request EXCEPT ![r].pc = "acting", ![r].token = vault[request[r].key]]
    /\ UNCHANGED <<opens, dead, vault>>

End(r) == /\ request' = [request EXCEPT ![r] = Nobody]
          /\ UNCHANGED <<opens, dead, vault>>

Next == \/ Administer /\ UNCHANGED <<vault, request>>
        \/ Administer /\ UNCHANGED vault /\ request' = [r \in Request |-> Nobody]
        \/ \E k \in KeyId, t \in Token : Deposit(k, t)
        \/ \E k \in KeyId : Withdraw(k)
        \/ \E r \in Request : \/ \E b \in Bearer, k \in KeyId : Admit(r, b, k)
                              \/ Act(r)
                              \/ End(r)

Spec == Init /\ [][Next]_vars
=============================================================================
