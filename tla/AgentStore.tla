----------------------------- MODULE AgentStore -----------------------------
(***************************************************************************)
(* The gateway's metadata store, src/gateway/agents.ts: the in-memory view *)
(* `state' of class AgentStore and its persisted copy agents.json.         *)
(*                                                                         *)
(* Every mutating method first changes the memory and then calls persist,  *)
(* which replaces the file atomically (temp file, fsync, rename) or throws *)
(* leaving the old file.  A method that throws in persist has therefore    *)
(* changed the memory and not the file.  The parameter `saved' of an       *)
(* action says which of the two happened.  A method whose own checks throw *)
(* changes nothing and is not a step.                                      *)
(*                                                                         *)
(* Names, timestamps and the order of the two arrays are left out: no      *)
(* decision depends on them.                                               *)
(***************************************************************************)
EXTENDS GatewayValues

\* agents[a] is the entry with id a, Absent when there is none.
AgentsState == [keys : SUBSET KeyId, agents : [AgentId -> Agent \cup {Absent}]]

VARIABLES
    mem,        \* AgentStore.state of the running process
    disk,       \* what agents.json holds
    minted      \* every id and bearer drawn so far: random, so never drawn twice

storeVars == <<mem, disk, minted>>

StoreTypeOK == /\ mem \in AgentsState
               /\ disk \in AgentsState
               /\ minted \subseteq KeyId \cup AgentId \cup Bearer

Empty == [keys |-> {}, agents |-> [a \in AgentId |-> Absent]]

StoreInit == /\ mem = Empty
             /\ disk = Empty
             /\ minted = {}

-----------------------------------------------------------------------------

\* newId and the randomBytes of a bearer.
Mint(new) == /\ new \cap minted = {}
             /\ minted' = minted \cup new

\* persist, through writeFileAtomic0600: all of the new state or none of it.
Persist(saved) == disk' = IF saved THEN mem' ELSE disk

\* loadStore, at process start.
Reload == /\ mem' = disk
          /\ UNCHANGED <<disk, minted>>

Present(m) == {a \in AgentId : m.agents[a] # Absent}

AddKey(k, saved) ==
    /\ Mint({k})
    /\ mem' = [mem EXCEPT !.keys = @ \cup {k}]
    /\ Persist(saved)

Referencing(k) == {a \in Present(mem) : mem.agents[a].key_id = k}

\* Mutation: the references are looked for in the file.
DeleteKey_ChecksFile(k, saved) ==
    /\ \A a \in Present(disk) : disk.agents[a].key_id # k
    /\ k \in mem.keys
    /\ mem' = [mem EXCEPT !.keys = @ \ {k}]
    /\ Persist(saved)
    /\ UNCHANGED minted

DeleteKey(k, saved) ==
    /\ Referencing(k) = {}
    /\ k \in mem.keys
    /\ mem' = [mem EXCEPT !.keys = @ \ {k}]
    /\ Persist(saved)
    /\ UNCHANGED minted

CreateAgent(a, b, k, saved) ==
    /\ k \in mem.keys
    /\ Mint({a, b})
    /\ mem' = [mem EXCEPT !.agents[a] = [bearer_sha256 |-> sha256Hex(b),
                                         key_id        |-> k,
                                         enabled       |-> TRUE]]
    /\ Persist(saved)

\* Mutation: the entry is built anew.
RebindAgent_Anew(a, k, saved) ==
    /\ a \in Present(mem)
    /\ k \in mem.keys
    /\ mem' = [mem EXCEPT !.agents[a] = [@ EXCEPT !.key_id = k, !.enabled = TRUE]]
    /\ Persist(saved)
    /\ UNCHANGED minted

RebindAgent(a, k, saved) ==
    /\ a \in Present(mem)
    /\ k \in mem.keys
    /\ mem' = [mem EXCEPT !.agents[a].key_id = k]
    /\ Persist(saved)
    /\ UNCHANGED minted

SetAgentEnabled(a, enabled, saved) ==
    /\ a \in Present(mem)
    /\ mem' = [mem EXCEPT !.agents[a].enabled = enabled]
    /\ Persist(saved)
    /\ UNCHANGED minted

\* Mutations: the new bearer may be one drawn before; the file is not
\* replaced; only the file is.
RotateBearer_NotFresh(a, b, saved) ==
    /\ a \in Present(mem)
    /\ mem' = [mem EXCEPT !.agents[a].bearer_sha256 = sha256Hex(b)]
    /\ Persist(saved)
    /\ UNCHANGED minted

RotateBearer_InMemory(a, b, saved) ==
    /\ a \in Present(mem)
    /\ Mint({b})
    /\ mem' = [mem EXCEPT !.agents[a].bearer_sha256 = sha256Hex(b)]
    /\ Persist(FALSE)

RotateBearer_InFile(a, b, saved) ==
    /\ a \in Present(mem)
    /\ Mint({b})
    /\ disk' = IF saved THEN [mem EXCEPT !.agents[a].bearer_sha256 = sha256Hex(b)] ELSE disk
    /\ UNCHANGED mem

RotateBearer(a, b, saved) ==
    /\ a \in Present(mem)
    /\ Mint({b})
    /\ mem' = [mem EXCEPT !.agents[a].bearer_sha256 = sha256Hex(b)]
    /\ Persist(saved)

\* Mutation: the file is not replaced.
DeleteAgent_InMemory(a, saved) ==
    /\ a \in Present(mem)
    /\ mem' = [mem EXCEPT !.agents[a] = Absent]
    /\ Persist(FALSE)
    /\ UNCHANGED minted

DeleteAgent(a, saved) ==
    /\ a \in Present(mem)
    /\ mem' = [mem EXCEPT !.agents[a] = Absent]
    /\ Persist(saved)
    /\ UNCHANGED minted

\* findAgentByBearer: the entries it may return.  That there is at most one
\* is what BearersUnique says, so "the first match" needs no order.
FindAgentByBearer(m, b) ==
    {a \in Present(m) : /\ m.agents[a].enabled
                        /\ m.agents[a].bearer_sha256 = sha256Hex(b)}

StoreNext ==
    \/ Reload
    \/ \E saved \in BOOLEAN :
        \/ \E k \in KeyId : AddKey(k, saved) \/ DeleteKey(k, saved)
        \/ \E a \in AgentId, b \in Bearer : RotateBearer(a, b, saved)
        \/ \E a \in AgentId, b \in Bearer, k \in KeyId : CreateAgent(a, b, k, saved)
        \/ \E a \in AgentId, k \in KeyId : RebindAgent(a, k, saved)
        \/ \E a \in AgentId, enabled \in BOOLEAN : SetAgentEnabled(a, enabled, saved)
        \/ \E a \in AgentId : DeleteAgent(a, saved)

StoreSpec == StoreInit /\ [][StoreNext]_storeVars

-----------------------------------------------------------------------------

(***************************************************************************)
(* Every agent is bound to a key that exists, in the running process and   *)
(* in the file the next one starts from: deleteKey's refusal and the       *)
(* checks of createAgent and rebindAgent, whatever persist did in between. *)
(***************************************************************************)
AgentsBound(m) == \A a \in Present(m) : m.agents[a].key_id \in m.keys
ReferentialIntegrity == AgentsBound(mem) /\ AgentsBound(disk)

(***************************************************************************)
(* No two agents answer to one bearer, in memory or in the file, so        *)
(* findAgentByBearer's first match is its only match.                      *)
(***************************************************************************)
OneAgentPerBearer(m) ==
    \A a1, a2 \in Present(m) :
        m.agents[a1].bearer_sha256 = m.agents[a2].bearer_sha256 => a1 = a2
BearersUnique == OneAgentPerBearer(mem) /\ OneAgentPerBearer(disk)
=============================================================================
