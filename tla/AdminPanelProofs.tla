-------------------------- MODULE AdminPanelProofs --------------------------
(***************************************************************************)
(* The admin page, for any tables, passwords and buttons, any number of    *)
(* promise chains at a time, and any number of presses and mishaps.        *)
(***************************************************************************)
EXTENDS AdminPanel, TLAPS

-----------------------------------------------------------------------------
\* What holds whoever overlaps.

\* Every agent is bound to a key, and its id has been drawn.
Bound(ks, ags, dr) ==
    \A a \in AgentId : ags[a] # Absent => ags[a].key \in ks /\ a \in dr

\* What each step of a chain waits for.  Only the halves of a refresh that goes
\* on wait for each other, and only the right password is answered.
ChainOK(r, pws) ==
    /\ r.step = "unlock" => DOMAIN r.asks \in {{"keys"}, {"agents"}} /\ ~r.rejected
    /\ r.step = "command" => /\ DOMAIN r.asks = {"command"} /\ ~r.rejected
                             /\ r.command \in Command
    /\ r.step = "refresh" =>
          IF r.rejected THEN DOMAIN r.asks \in {{"keys"}, {"agents"}}
          ELSE DOMAIN r.asks = {"keys", "agents"}
    /\ \A ask \in DOMAIN r.asks :
          /\ r.asks[ask].status = "held" => r.step = "refresh" /\ ~r.rejected
          /\ r.asks[ask].status \in {"ok", "held"} => r.auth \in pws

BaseInv == /\ TypeOK
           /\ Bound(keys, agents, drawn)
           /\ password \in passwords
           /\ \A c \in Chain : chain[c] # Absent => ChainOK(chain[c], passwords)

LEMMA BaseInit == Init => BaseInv
<1>. SUFFICES ASSUME Init PROVE BaseInv
  OBVIOUS
<1>. DEFINE listed == {a \in AgentId : agents[a] # Absent}
<1>1. agents \in [AgentId -> Agent \cup {Absent}] /\ keys \subseteq KeyId
  BY DEF Init, Agent
<1>2. drawn = keys \cup listed \cup {agents[a].bearer : a \in listed}
  BY DEF Init
<1>3. drawn \subseteq KeyId \cup AgentId \cup Bearer
  BY <1>1, <1>2 DEF Agent
<1>4. Bound(keys, agents, drawn)
  BY <1>2 DEF Init, Bound
<1>5. /\ agentsShown \in [AgentId -> Row \cup {Absent}]
      /\ chain \in [Chain -> ChainRecord \cup {Absent}]
  BY DEF Init
<1>6. presses \in 0..MaxPresses /\ mishaps \in 0..MaxMishaps
  BY BoundsAssumption DEF Init
<1>7. TypeOK
  BY <1>1, <1>3, <1>5, <1>6 DEF Init, TypeOK
<1>. QED
  BY <1>4, <1>7 DEF Init, BaseInv

-----------------------------------------------------------------------------
\* What a command does to the tables, and what it answers.

LEMMA EffectTypes ==
    ASSUME TypeOK, Bound(keys, agents, drawn),
           NEW cmd \in Command, NEW answer \in Minted \cup {Absent}, Effect(cmd, answer)
    PROVE  /\ keys' \subseteq KeyId
           /\ agents' \in [AgentId -> Agent \cup {Absent}]
           /\ drawn' \subseteq KeyId \cup AgentId \cup Bearer
           /\ Bound(keys, agents, drawn)'
<1>. USE DEF TypeOK, Bound
<1>1. CASE /\ cmd.do = "addKey" /\ UNCHANGED agents
           /\ \E k \in KeyId : Draw(k) /\ keys' = keys \cup {k}
  BY <1>1 DEF Draw
<1>2. CASE /\ \A a \in AgentId : agents[a] # Absent => agents[a].key # cmd.key
           /\ keys' = keys \ {cmd.key}
           /\ UNCHANGED <<agents, drawn>>
  BY <1>2
<1>3. CASE /\ cmd.do = "createAgent" /\ cmd.key \in keys /\ UNCHANGED keys
           /\ \E a \in AgentId, b \in Bearer :
                 /\ {a, b} \cap drawn = {} /\ drawn' = drawn \cup {a, b}
                 /\ SetAgent(a, [key |-> cmd.key, enabled |-> TRUE, bearer |-> b])
                 /\ answer = [agent |-> a, bearer |-> b]
  <2>1. PICK a \in AgentId, b \in Bearer :
          /\ drawn' = drawn \cup {a, b}
          /\ SetAgent(a, [key |-> cmd.key, enabled |-> TRUE, bearer |-> b])
    BY <1>3
  <2>. DEFINE new == [key |-> cmd.key, enabled |-> TRUE, bearer |-> b]
  <2>2. new \in Agent /\ new.key = cmd.key
    BY <1>3 DEF Agent
  <2>3. agents' = [agents EXCEPT ![a] = new]
    BY <2>1 DEF SetAgent
  <2>. HIDE DEF new
  <2>. QED
    BY <1>3, <2>1, <2>2, <2>3
<1>4. CASE /\ cmd.do = "rebind" /\ cmd.key \in keys /\ agents[cmd.agent] # Absent
           /\ SetAgent(cmd.agent, [agents[cmd.agent] EXCEPT !.key = cmd.key])
           /\ UNCHANGED <<keys, drawn>>
  <2>1. cmd.agent \in AgentId
    BY <1>4 DEF Command
  <2>2. [agents[cmd.agent] EXCEPT !.key = cmd.key] \in Agent
    BY <1>4, <2>1 DEF Agent
  <2>. QED
    BY <1>4, <2>1, <2>2 DEF SetAgent, Agent
<1>5. CASE SetEnabled(cmd) /\ UNCHANGED <<keys, drawn>>
  <2>1. cmd.agent \in AgentId /\ agents[cmd.agent] # Absent
    BY <1>5 DEF Command, SetEnabled
  <2>2. [agents[cmd.agent] EXCEPT !.enabled = cmd.do = "enable"] \in Agent
    BY <1>5, <2>1 DEF Agent
  <2>. QED
    BY <1>5, <2>1, <2>2 DEF SetAgent, SetEnabled, Agent
<1>6. CASE /\ cmd.do = "rotate" /\ agents[cmd.agent] # Absent /\ UNCHANGED keys
           /\ \E b \in Bearer : /\ Draw(b)
                                /\ SetAgent(cmd.agent, [agents[cmd.agent] EXCEPT !.bearer = b])
  <2>1. PICK b \in Bearer :
          Draw(b) /\ SetAgent(cmd.agent, [agents[cmd.agent] EXCEPT !.bearer = b])
    BY <1>6
  <2>2. cmd.agent \in AgentId
    BY <1>6 DEF Command
  <2>3. [agents[cmd.agent] EXCEPT !.bearer = b] \in Agent
    BY <1>6, <2>2 DEF Agent
  <2>. QED
    BY <1>6, <2>1, <2>2, <2>3 DEF SetAgent, Agent, Draw
<1>7. CASE SetAgent(cmd.agent, Absent) /\ UNCHANGED <<keys, drawn>>
  BY <1>7 DEF SetAgent
<1>. QED
  BY <1>1, <1>2, <1>3, <1>4, <1>5, <1>6, <1>7 DEF Effect

\* An agent is enabled by Enable only; a one-time bearer is the one its agent
\* has now; no other agent's bearer changes.
LEMMA EffectOnAgents ==
    ASSUME TypeOK, Bound(keys, agents, drawn),
           NEW cmd \in Command, NEW answer \in Minted \cup {Absent}, Effect(cmd, answer),
           NEW a \in AgentId, agents'[a] # Absent
    PROVE  /\ agents[a] # Absent /\ ~agents[a].enabled /\ agents'[a].enabled
                 => cmd = [do |-> "enable", agent |-> a]
           /\ IF answer # Absent /\ answer.agent = a
              THEN agents'[a].bearer = answer.bearer
              ELSE agents[a] # Absent /\ agents'[a].bearer = agents[a].bearer
<1>. USE DEF TypeOK, Bound
<1>1. CASE UNCHANGED agents /\ answer = Absent
  BY <1>1
<1>2. CASE \E d \in AgentId, b \in Bearer :
              /\ {d, b} \cap drawn = {}
              /\ SetAgent(d, [key |-> cmd.key, enabled |-> TRUE, bearer |-> b])
              /\ answer = [agent |-> d, bearer |-> b]
  <2>1. PICK d \in AgentId, b \in Bearer :
          /\ d \notin drawn
          /\ SetAgent(d, [key |-> cmd.key, enabled |-> TRUE, bearer |-> b])
          /\ answer = [agent |-> d, bearer |-> b]
    BY <1>2
  <2>2. answer # Absent /\ answer.agent = d /\ answer.bearer = b
    BY <2>1, AbsentAssumption DEF Minted
  <2>3. agents[d] = Absent /\ agents'[d].bearer = b /\ (a # d => agents'[a] = agents[a])
    BY <2>1 DEF SetAgent
  <2>. QED
    BY <2>2, <2>3
<1>3. CASE /\ agents[cmd.agent] # Absent /\ answer = Absent /\ cmd.do = "rebind"
           /\ SetAgent(cmd.agent, [agents[cmd.agent] EXCEPT !.key = cmd.key])
  <2>1. cmd.agent \in AgentId /\ agents[cmd.agent] \in Agent
    BY <1>3 DEF Command
  <2>. DEFINE new == [agents[cmd.agent] EXCEPT !.key = cmd.key]
  <2>2. new.enabled = agents[cmd.agent].enabled /\ new.bearer = agents[cmd.agent].bearer
    BY <2>1 DEF Agent
  <2>3. agents' = [agents EXCEPT ![cmd.agent] = new]
    BY <1>3 DEF SetAgent
  <2>. HIDE DEF new
  <2>. QED
    BY <1>3, <2>1, <2>2, <2>3
<1>4. CASE SetEnabled(cmd) /\ answer = Absent
  <2>1. /\ cmd.agent \in AgentId /\ agents[cmd.agent] \in Agent
        /\ cmd.do = "enable" => cmd = [do |-> "enable", agent |-> cmd.agent]
    BY <1>4 DEF Command, SetEnabled
  <2>. DEFINE new == [agents[cmd.agent] EXCEPT !.enabled = cmd.do = "enable"]
  <2>2. (new.enabled => cmd.do = "enable") /\ new.bearer = agents[cmd.agent].bearer
    BY <2>1 DEF Agent
  <2>3. agents' = [agents EXCEPT ![cmd.agent] = new]
    BY <1>4 DEF SetAgent, SetEnabled
  <2>4. agents[cmd.agent] # Absent
    BY <1>4 DEF SetEnabled
  <2>. HIDE DEF new
  <2>5. CASE a = cmd.agent
    BY <1>4, <2>1, <2>2, <2>3, <2>4, <2>5
  <2>6. CASE a # cmd.agent
    BY <1>4, <2>1, <2>3, <2>6
  <2>. QED
    BY <2>5, <2>6
<1>5. CASE /\ agents[cmd.agent] # Absent /\ cmd.do = "rotate"
           /\ \E b \in Bearer : /\ SetAgent(cmd.agent, [agents[cmd.agent] EXCEPT !.bearer = b])
                                /\ answer = [agent |-> cmd.agent, bearer |-> b]
  <2>1. cmd.agent \in AgentId /\ agents[cmd.agent] \in Agent
    BY <1>5 DEF Command
  <2>2. PICK b \in Bearer : /\ SetAgent(cmd.agent, [agents[cmd.agent] EXCEPT !.bearer = b])
                            /\ answer = [agent |-> cmd.agent, bearer |-> b]
    BY <1>5
  <2>3. answer # Absent /\ answer.agent = cmd.agent /\ answer.bearer = b
    BY <2>1, <2>2, AbsentAssumption DEF Minted
  <2>. DEFINE new == [agents[cmd.agent] EXCEPT !.bearer = b]
  <2>4. new.enabled = agents[cmd.agent].enabled /\ new.bearer = b
    BY <2>1 DEF Agent
  <2>5. agents' = [agents EXCEPT ![cmd.agent] = new]
    BY <2>2 DEF SetAgent
  <2>. HIDE DEF new
  <2>. QED
    BY <1>5, <2>1, <2>3, <2>4, <2>5
<1>6. CASE SetAgent(cmd.agent, Absent) /\ answer = Absent /\ cmd.do = "deleteAgent"
  <2>1. cmd.agent \in AgentId
    BY <1>6 DEF Command
  <2>. QED
    BY <1>6, <2>1 DEF SetAgent
<1>. QED
  BY <1>1, <1>2, <1>3, <1>4, <1>5, <1>6 DEF Effect

-----------------------------------------------------------------------------
\* What a step makes of a chain.

AskSets == {{"keys"}, {"agents"}, {"keys", "agents"}, {"command"}}

LEMMA AsksAre ==
    ASSUME NEW f
    PROVE  f \in Asks <=> /\ f = [a \in DOMAIN f |-> f[a]]
                          /\ DOMAIN f \in AskSets
                          /\ \A a \in DOMAIN f : f[a] \in Answer(a)
<1>. HIDE DEF Answer
<1>1. ASSUME f \in Asks
      PROVE  /\ f = [a \in DOMAIN f |-> f[a]]
             /\ DOMAIN f \in AskSets
             /\ \A a \in DOMAIN f : f[a] \in Answer(a)
  BY <1>1 DEF Asks, AskSets
<1>2. ASSUME f = [a \in DOMAIN f |-> f[a]], \A a \in DOMAIN f : f[a] \in Answer(a)
      PROVE  /\ DOMAIN f = {"keys"} => f \in [keys : Answer("keys")]
             /\ DOMAIN f = {"agents"} => f \in [agents : Answer("agents")]
             /\ DOMAIN f = {"command"} => f \in [command : Answer("command")]
             /\ DOMAIN f = {"keys", "agents"} =>
                   f \in [keys : Answer("keys"), agents : Answer("agents")]
  BY <1>2
<1>. QED
  BY <1>1, <1>2 DEF Asks, AskSets

LEMMA SentChain ==
    ASSUME NEW step \in {"unlock", "command", "refresh"}, NEW auth \in Password \cup {Absent},
           NEW cmd \in Command \cup {Absent}, NEW asks \in AskSets
    PROVE  LET r == Send(step, auth, cmd, asks)
           IN  /\ r \in ChainRecord
               /\ r.step = step /\ r.auth = auth /\ r.command = cmd /\ ~r.rejected
               /\ DOMAIN r.asks = asks
               /\ \A ask \in asks : r.asks[ask].status = "sent"
<1>. DEFINE f == [ask \in asks |-> [status |-> "sent", body |-> Absent]]
<1>1. f \in Asks
  BY AsksAre DEF Answer
<1>2. DOMAIN f = asks /\ \A ask \in asks : f[ask].status = "sent"
  OBVIOUS
<1>. HIDE DEF f
<1>3. Send(step, auth, cmd, asks) =
        [step |-> step, auth |-> auth, command |-> cmd, rejected |-> FALSE, asks |-> f]
  BY DEF Send, f
<1>. QED
  BY <1>1, <1>2, <1>3 DEF ChainRecord

\* Chain r is q but for one answer.
ButFor(ask, r, q) ==
    /\ r.step = q.step /\ r.auth = q.auth /\ r.command = q.command /\ r.rejected = q.rejected
    /\ DOMAIN r.asks = DOMAIN q.asks
    /\ \A other \in DOMAIN q.asks : other # ask => r.asks[other] = q.asks[other]

\* An answer arrives, or its request fails.
LEMMA AnsweredChain ==
    ASSUME TypeOK, NEW c \in Chain, chain[c] # Absent, NEW ask \in DOMAIN chain[c].asks,
           NEW status, NEW answer, [status |-> status, body |-> answer] \in Answer(ask),
           Answered(c, ask, status, answer)
    PROVE  /\ chain' = [chain EXCEPT ![c] = chain'[c]] /\ chain'[c] \in ChainRecord
           /\ ButFor(ask, chain'[c], chain[c])
           /\ chain'[c].asks[ask].status = status /\ chain'[c].asks[ask].body = answer
<1>. DEFINE r == chain[c]
            new == [status |-> status, body |-> answer]
            f == [r.asks EXCEPT ![ask] = new]
            next == [r EXCEPT !.asks = f]
<1>1. r \in ChainRecord
  BY DEF TypeOK
<1>2. r.asks \in Asks
  BY <1>1 DEF ChainRecord
<1>3. new.status = status /\ new.body = answer /\ new \in Answer(ask)
  OBVIOUS
<1>. HIDE DEF new
<1>4. /\ f \in Asks /\ DOMAIN f = DOMAIN r.asks /\ f[ask] = new
      /\ \A other \in DOMAIN r.asks : other # ask => f[other] = r.asks[other]
  BY <1>2, <1>3, AsksAre
<1>5. chain' = [chain EXCEPT ![c] = next]
  BY <1>1 DEF Answered, new, TypeOK, ChainRecord
<1>. HIDE DEF f
<1>6. /\ next \in ChainRecord /\ next.step = r.step /\ next.auth = r.auth
      /\ next.command = r.command /\ next.rejected = r.rejected /\ next.asks = f
  BY <1>1, <1>4 DEF ChainRecord
<1>. HIDE DEF next
<1>7. chain'[c] = next
  BY <1>5 DEF TypeOK
<1>. QED
  BY <1>3, <1>4, <1>5, <1>6, <1>7 DEF ButFor

\* A chain that is rejected ends, or waits for the rest of what it asked for.
LEMMA RejectedChain ==
    ASSUME TypeOK, NEW c \in Chain, chain[c] # Absent, NEW ask \in DOMAIN chain[c].asks,
           ChainOK(chain[c], passwords), Reject(c, ask)
    PROVE  /\ chain' = [chain EXCEPT ![c] = chain'[c]]
           /\ chain'[c] # Absent =>
                 /\ chain'[c] \in ChainRecord
                 /\ chain[c].step = "refresh" /\ ~chain[c].rejected
                 /\ chain'[c].step = "refresh" /\ chain'[c].auth = chain[c].auth
                 /\ chain'[c].rejected
                 /\ DOMAIN chain'[c].asks = {"keys", "agents"} \ {ask}
                 /\ \A other \in DOMAIN chain'[c].asks :
                       /\ chain'[c].asks[other] = chain[c].asks[other]
                       /\ chain[c].asks[other].status # "held"
<1>. DEFINE r == chain[c]
            left == {a \in DOMAIN r.asks \ {ask} : r.asks[a].status # "held"}
            f == [a \in left |-> r.asks[a]]
            next == [r EXCEPT !.asks = f, !.rejected = TRUE]
<1>1. r \in ChainRecord
  BY DEF TypeOK
<1>2. r.asks \in Asks
  BY <1>1 DEF ChainRecord
<1>3. chain' = [chain EXCEPT ![c] = IF left = {} THEN Absent ELSE next]
  BY <1>1 DEF Reject, TypeOK, ChainRecord
<1>4. CASE left = {}
  BY <1>3, <1>4 DEF TypeOK
<1>5. CASE left # {}
  <2>1. r.step = "refresh" /\ ~r.rejected /\ DOMAIN r.asks = {"keys", "agents"}
    BY <1>1, <1>5 DEF ChainOK, ChainRecord
  <2>2. left = {"keys", "agents"} \ {ask} /\ left \in AskSets
    BY <1>5, <2>1 DEF AskSets
  <2>3. /\ f \in Asks /\ DOMAIN f = left
        /\ \A other \in left : f[other] = r.asks[other] /\ r.asks[other].status # "held"
    BY <1>2, <2>2, AsksAre
  <2>. HIDE DEF f, left
  <2>4. /\ next \in ChainRecord /\ next.step = r.step /\ next.auth = r.auth
        /\ next.rejected /\ next.asks = f
    BY <1>1, <2>3 DEF ChainRecord
  <2>. HIDE DEF next
  <2>5. chain' = [chain EXCEPT ![c] = next] /\ chain'[c] = next
    BY <1>3, <1>5 DEF TypeOK
  <2>. QED
    BY <2>1, <2>2, <2>3, <2>4, <2>5
<1>. QED
  BY <1>4, <1>5

LEMMA WaitingChain ==
    ASSUME TypeOK, NEW c \in Chain, NEW ask, NEW statuses, Waiting(c, ask, statuses)
    PROVE  /\ chain[c] \in ChainRecord /\ chain[c] # Absent
           /\ ask \in DOMAIN chain[c].asks /\ chain[c].asks[ask] \in Answer(ask)
           /\ chain[c].asks[ask].status \in statuses
           /\ chain[c].asks[ask].status \in {"ok", "held"} =>
                 /\ ask = "keys" => body(c, ask) \subseteq KeyId
                 /\ ask = "agents" => body(c, ask) \in [AgentId -> Listed \cup {Absent}]
                 /\ ask = "command" => body(c, ask) \in Minted \cup {Absent}
<1>1. /\ chain[c] \in ChainRecord /\ chain[c] # Absent
      /\ ask \in DOMAIN chain[c].asks /\ chain[c].asks[ask].status \in statuses
  BY DEF Waiting, TypeOK
<1>2. chain[c].asks \in Asks
  BY <1>1 DEF ChainRecord
<1>3. chain[c].asks[ask] \in Answer(ask)
  BY <1>1, <1>2, AsksAre
<1>4. chain[c].asks[ask].status \in {"ok", "held"} => body(c, ask) \in Body[ask]
  BY <1>3 DEF Answer, body
<1>5. /\ Body["keys"] = SUBSET KeyId
      /\ Body["agents"] = [AgentId -> Listed \cup {Absent}]
      /\ Body["command"] = Minted \cup {Absent}
  BY DEF Body
<1>. QED
  BY <1>1, <1>3, <1>4, <1>5

\* The rows: an agent whose key is in the list is shown with it.
LEMMA RowsShown ==
    ASSUME NEW listed \in [AgentId -> Listed \cup {Absent}], NEW cache \in SUBSET KeyId,
           renderAgents(listed, cache)
    PROVE  /\ agentsShown' \in [AgentId -> Row \cup {Absent}]
           /\ (\A a \in AgentId : listed[a] # Absent => listed[a].key \in cache) =>
                 agentsShown' = [a \in AgentId |->
                     IF listed[a] = Absent THEN Absent
                     ELSE [options |-> cache, key |-> listed[a].key,
                           enabled |-> listed[a].enabled]]
<1>1. PICK first \in IF cache = {} THEN {Absent} ELSE cache :
        agentsShown' = [a \in AgentId |->
            IF listed[a] = Absent THEN Absent
            ELSE [options |-> cache, enabled |-> listed[a].enabled,
                  key |-> IF listed[a].key \in cache THEN listed[a].key ELSE first]]
  BY DEF renderAgents
<1>2. first \in KeyId \cup {Absent}
  BY <1>1
<1>3. ASSUME NEW a \in AgentId, listed[a] # Absent
      PROVE  /\ [options |-> cache, enabled |-> listed[a].enabled,
                 key |-> IF listed[a].key \in cache THEN listed[a].key ELSE first] \in Row
             /\ [options |-> cache, key |-> listed[a].key, enabled |-> listed[a].enabled] =
                [options |-> cache, enabled |-> listed[a].enabled, key |-> listed[a].key]
  BY <1>2, <1>3 DEF Row, Listed
<1>4. agentsShown' \in [AgentId -> Row \cup {Absent}]
  BY <1>1, <1>3
<1>5. ASSUME \A a \in AgentId : listed[a] # Absent => listed[a].key \in cache
      PROVE  agentsShown' = [a \in AgentId |->
                 IF listed[a] = Absent THEN Absent
                 ELSE [options |-> cache, key |-> listed[a].key, enabled |-> listed[a].enabled]]
  BY <1>1, <1>3, <1>5
<1>. QED
  BY <1>4, <1>5

-----------------------------------------------------------------------------
\* The first invariant is inductive.

LEMMA ChainMoves ==
    ASSUME BaseInv, NEW c \in Chain, chain' = [chain EXCEPT ![c] = chain'[c]],
           chain'[c] # Absent => chain'[c] \in ChainRecord /\ ChainOK(chain'[c], passwords),
           passwords \subseteq passwords'
    PROVE  /\ chain' \in [Chain -> ChainRecord \cup {Absent}]
           /\ \A d \in Chain : d # c => chain'[d] = chain[d]
           /\ \A d \in Chain : chain'[d] # Absent => ChainOK(chain'[d], passwords')
<1>1. /\ chain' \in [Chain -> ChainRecord \cup {Absent}]
      /\ \A d \in Chain : d # c => chain'[d] = chain[d]
  BY DEF BaseInv, TypeOK
<1>2. ASSUME NEW d \in Chain, chain'[d] # Absent PROVE ChainOK(chain'[d], passwords')
  <2>1. ChainOK(chain'[d], passwords)
    BY <1>1, <1>2 DEF BaseInv
  <2>. QED
    BY <2>1 DEF ChainOK
<1>. QED
  BY <1>1, <1>2

LEMMA Served ==
    ASSUME BaseInv, NEW c \in Chain, NEW ask \in {"keys", "agents", "command"}, Serve(c, ask)
    PROVE  /\ chain[c] \in ChainRecord /\ chain[c] # Absent /\ ask \in DOMAIN chain[c].asks
           /\ chain[c].asks[ask].status = "sent"
           /\ chain' = [chain EXCEPT ![c] = chain'[c]] /\ chain'[c] \in ChainRecord
           /\ ButFor(ask, chain'[c], chain[c])
           /\ UNCHANGED <<password, shown, history>>
           /\ \/ chain'[c].asks[ask].status = "unauthorized" /\ UNCHANGED server
              \/ /\ chain'[c].asks[ask].status = "ok" /\ chain[c].auth = password
                 /\ \/ ask = "keys" /\ body(c, ask)' = keys /\ UNCHANGED server
                    \/ ask = "agents" /\ body(c, ask)' = listAgents /\ UNCHANGED server
                    \/ /\ ask = "command" /\ chain[c].command \in Command
                       /\ body(c, ask)' \in Minted \cup {Absent}
                       /\ Effect(chain[c].command, body(c, ask)')
<1>1. /\ chain[c] \in ChainRecord /\ chain[c] # Absent /\ ask \in DOMAIN chain[c].asks
      /\ chain[c].asks[ask].status = "sent" /\ ChainOK(chain[c], passwords)
  BY WaitingChain DEF Serve, BaseInv
<1>2. CASE Answered(c, ask, "unauthorized", Absent) /\ UNCHANGED server
  <2>1. [status |-> "unauthorized", body |-> Absent] \in Answer(ask)
    BY DEF Answer
  <2>. QED
    BY <1>1, <1>2, <2>1, AnsweredChain DEF Serve, BaseInv
<1>3. CASE /\ chain[c].auth = password /\ ask = "keys"
           /\ Answered(c, ask, "ok", keys) /\ UNCHANGED server
  <2>1. [status |-> "ok", body |-> keys] \in Answer(ask)
    BY <1>3 DEF Answer, Body, BaseInv, TypeOK
  <2>. QED
    BY <1>1, <1>3, <2>1, AnsweredChain DEF Serve, BaseInv, body
<1>4. CASE /\ chain[c].auth = password /\ ask = "agents"
           /\ Answered(c, ask, "ok", listAgents) /\ UNCHANGED server
  <2>1. listAgents \in [AgentId -> Listed \cup {Absent}]
    BY DEF listAgents, BaseInv, TypeOK, Agent, Listed
  <2>2. [status |-> "ok", body |-> listAgents] \in Answer(ask)
    BY <1>4, <2>1 DEF Answer, Body
  <2>. QED
    BY <1>1, <1>4, <2>2, AnsweredChain DEF Serve, BaseInv, body
<1>5. ASSUME chain[c].auth = password, ask = "command",
             NEW answer \in Minted \cup {Absent},
             Effect(chain[c].command, answer), Answered(c, ask, "ok", answer)
      PROVE  /\ chain' = [chain EXCEPT ![c] = chain'[c]] /\ chain'[c] \in ChainRecord
             /\ ButFor(ask, chain'[c], chain[c])
             /\ chain'[c].asks[ask].status = "ok" /\ body(c, ask)' = answer
             /\ chain[c].command \in Command
  <2>1. [status |-> "ok", body |-> answer] \in Answer(ask)
    BY <1>5 DEF Answer, Body
  <2>2. chain[c].command \in Command
    BY <1>1, <1>5 DEF ChainOK, ChainRecord
  <2>. QED
    BY <1>1, <1>5, <2>1, <2>2, AnsweredChain DEF BaseInv, body
<1>. QED
  BY <1>1, <1>2, <1>3, <1>4, <1>5 DEF Serve

LEMMA ServeKeepsBase ==
    ASSUME BaseInv, NEW c \in Chain, NEW ask \in {"keys", "agents", "command"}, Serve(c, ask)
    PROVE  BaseInv'
<1>1. /\ chain[c] \in ChainRecord /\ chain[c] # Absent /\ ChainOK(chain[c], passwords)
      /\ ask \in DOMAIN chain[c].asks
      /\ chain' = [chain EXCEPT ![c] = chain'[c]] /\ chain'[c] \in ChainRecord
      /\ ButFor(ask, chain'[c], chain[c])
      /\ chain'[c].asks[ask].status \in {"unauthorized", "ok"}
      /\ chain'[c].asks[ask].status = "ok" => chain[c].auth \in passwords
      /\ UNCHANGED <<password, shown, history>>
  BY Served DEF BaseInv
<1>2. ChainOK(chain'[c], passwords)
  BY <1>1 DEF ChainOK, ButFor
<1>3. /\ chain' \in [Chain -> ChainRecord \cup {Absent}]
      /\ \A d \in Chain : chain'[d] # Absent => ChainOK(chain'[d], passwords')
  BY <1>1, <1>2, ChainMoves DEF history
<1>4. /\ keys' \subseteq KeyId
      /\ agents' \in [AgentId -> Agent \cup {Absent}]
      /\ drawn' \subseteq KeyId \cup AgentId \cup Bearer
      /\ Bound(keys, agents, drawn)'
  <2>1. CASE UNCHANGED server
    BY <2>1 DEF server, BaseInv, TypeOK
  <2>2. CASE /\ chain[c].command \in Command /\ body(c, ask)' \in Minted \cup {Absent}
             /\ Effect(chain[c].command, body(c, ask)')
    BY <2>2, EffectTypes DEF BaseInv
  <2>. QED
    BY <2>1, <2>2, Served
<1>. QED
  BY <1>1, <1>3, <1>4 DEF BaseInv, TypeOK, shown, history, bounds

LEMMA Failed ==
    ASSUME BaseInv, NEW c \in Chain, NEW ask \in {"keys", "agents", "command"}, Fail(c, ask)
    PROVE  /\ chain[c] \in ChainRecord /\ chain[c] # Absent /\ ask \in DOMAIN chain[c].asks
           /\ chain' = [chain EXCEPT ![c] = chain'[c]] /\ chain'[c] \in ChainRecord
           /\ ButFor(ask, chain'[c], chain[c]) /\ chain'[c].asks[ask].status = "error"
           /\ UNCHANGED <<server, shown, passwords>>
<1>1. chain[c] \in ChainRecord /\ chain[c] # Absent /\ ask \in DOMAIN chain[c].asks
  BY WaitingChain DEF Fail, BaseInv
<1>2. [status |-> "error", body |-> Absent] \in Answer(ask)
  BY DEF Answer
<1>. QED
  BY <1>1, <1>2, AnsweredChain DEF Fail, BaseInv

LEMMA FailKeepsBase ==
    ASSUME BaseInv, NEW c \in Chain, NEW ask \in {"keys", "agents", "command"}, Fail(c, ask)
    PROVE  BaseInv'
<1>1. /\ chain[c] # Absent /\ ask \in DOMAIN chain[c].asks /\ ChainOK(chain[c], passwords)
      /\ chain' = [chain EXCEPT ![c] = chain'[c]] /\ chain'[c] \in ChainRecord
      /\ ButFor(ask, chain'[c], chain[c]) /\ chain'[c].asks[ask].status = "error"
  BY Failed DEF BaseInv
<1>2. ChainOK(chain'[c], passwords)
  BY <1>1 DEF ChainOK, ButFor
<1>3. /\ chain' \in [Chain -> ChainRecord \cup {Absent}]
      /\ \A d \in Chain : chain'[d] # Absent => ChainOK(chain'[d], passwords')
  BY <1>1, <1>2, ChainMoves DEF Fail
<1>4. mishaps' \in 0..MaxMishaps
  BY BoundsAssumption DEF Fail, Mishap, BaseInv, TypeOK
<1>. QED
  BY <1>3, <1>4 DEF BaseInv, TypeOK, Fail, Mishap, shown, server

LEMMA SentIsOK ==
    ASSUME NEW step \in {"unlock", "command", "refresh"}, NEW auth \in Password \cup {Absent},
           NEW cmd \in Command \cup {Absent}, NEW asks \in AskSets,
           step = "unlock" => asks \in {{"keys"}, {"agents"}},
           step = "command" => asks = {"command"} /\ cmd \in Command,
           step = "refresh" => asks = {"keys", "agents"}
    PROVE  ChainOK(Send(step, auth, cmd, asks), passwords)
<1>. DEFINE r == Send(step, auth, cmd, asks)
<1>1. /\ r.step = step /\ r.command = cmd /\ ~r.rejected /\ DOMAIN r.asks = asks
      /\ \A ask \in asks : r.asks[ask].status = "sent"
  BY SentChain, SMTT(30)
<1>. HIDE DEF r
<1>2. ChainOK(r, passwords)
  BY <1>1 DEF ChainOK
<1>. QED
  BY <1>2 DEF r

LEMMA BeginKeepsChains ==
    ASSUME BaseInv, NEW c \in Chain, NEW step \in {"unlock", "command"},
           NEW auth \in Password \cup {Absent}, NEW cmd \in Command \cup {Absent},
           step = "command" => cmd \in Command,
           Begin(c, Send(step, auth, cmd, {IF step = "unlock" THEN "keys" ELSE "command"}))
    PROVE  /\ chain' \in [Chain -> ChainRecord \cup {Absent}]
           /\ \A d \in Chain : d # c => chain'[d] = chain[d]
           /\ chain'[c] \in ChainRecord /\ chain'[c] # Absent
           /\ chain'[c].step = step /\ chain'[c].auth = auth /\ ~chain'[c].rejected
           /\ DOMAIN chain'[c].asks = {IF step = "unlock" THEN "keys" ELSE "command"}
           /\ \A ask \in DOMAIN chain'[c].asks : chain'[c].asks[ask].status = "sent"
           /\ \A d \in Chain : chain'[d] # Absent => ChainOK(chain'[d], passwords')
           /\ presses' \in 0..MaxPresses
           /\ calm' \in BOOLEAN /\ fresh' \in BOOLEAN /\ sure' \in BOOLEAN
<1>. DEFINE asks == {IF step = "unlock" THEN "keys" ELSE "command"}
            r == Send(step, auth, cmd, asks)
<1>1. asks \in AskSets /\ (step = "unlock" => asks = {"keys"})
                       /\ (step = "command" => asks = {"command"})
  BY DEF AskSets
<1>. HIDE DEF asks
<1>2. /\ r \in ChainRecord /\ r.step = step /\ r.auth = auth /\ ~r.rejected
      /\ DOMAIN r.asks = asks /\ \A ask \in asks : r.asks[ask].status = "sent"
  BY <1>1, SentChain
<1>3. ChainOK(r, passwords)
  BY <1>1, SentIsOK
<1>4. chain' = [chain EXCEPT ![c] = r] /\ UNCHANGED passwords
  BY DEF Begin, asks
<1>5. r # Absent
  BY <1>2, AbsentAssumption
<1>. HIDE DEF r
<1>6. chain'[c] = r
  BY <1>4 DEF BaseInv, TypeOK
<1>7. /\ chain' \in [Chain -> ChainRecord \cup {Absent}]
      /\ \A d \in Chain : d # c => chain'[d] = chain[d]
      /\ \A d \in Chain : chain'[d] # Absent => ChainOK(chain'[d], passwords')
  BY <1>2, <1>3, <1>4, <1>6, ChainMoves
<1>8. presses' \in 0..MaxPresses
  BY BoundsAssumption DEF Begin, BaseInv, TypeOK
<1>9. calm' \in BOOLEAN /\ fresh' \in BOOLEAN /\ sure' \in BOOLEAN
  BY DEF Begin, Idle, BaseInv, TypeOK
<1>. QED
  BY <1>2, <1>5, <1>6, <1>7, <1>8, <1>9 DEF asks

LEMMA UnlockBegun ==
    ASSUME BaseInv, NEW c \in Chain, NEW val \in Password, unlock(c, val)
    PROVE  /\ BaseInv'
           /\ \A d \in Chain : d # c => chain'[d] = chain[d]
           /\ chain'[c] \in ChainRecord /\ chain'[c] # Absent
           /\ chain'[c].step = "unlock" /\ chain'[c].auth = val
           /\ DOMAIN chain'[c].asks = {"keys"} /\ chain'[c].asks["keys"].status = "sent"
<1>1. Begin(c, Send("unlock", val, Absent, {IF "unlock" = "unlock" THEN "keys" ELSE "command"}))
  BY DEF unlock
<1>2. UNCHANGED <<server, screen, keysCache, agentsShown, banner, passwords, mishaps>> /\ pw' = val
  BY DEF unlock, Begin
<1>3. /\ chain' \in [Chain -> ChainRecord \cup {Absent}]
      /\ \A d \in Chain : d # c => chain'[d] = chain[d]
      /\ chain'[c] \in ChainRecord /\ chain'[c] # Absent
      /\ chain'[c].step = "unlock" /\ chain'[c].auth = val
      /\ DOMAIN chain'[c].asks = {IF "unlock" = "unlock" THEN "keys" ELSE "command"}
      /\ \A ask \in DOMAIN chain'[c].asks : chain'[c].asks[ask].status = "sent"
      /\ \A d \in Chain : chain'[d] # Absent => ChainOK(chain'[d], passwords')
      /\ presses' \in 0..MaxPresses
      /\ calm' \in BOOLEAN /\ fresh' \in BOOLEAN /\ sure' \in BOOLEAN
  <2>. HIDE DEF Begin
  <2>. QED
    BY <1>1, BeginKeepsChains
<1>4. BaseInv'
  BY <1>2, <1>3 DEF BaseInv, TypeOK, server, bounds
<1>. QED
  BY <1>3, <1>4

LEMMA PressBegun ==
    ASSUME BaseInv, NEW c \in Chain, NEW cmd \in Command, Press(c, cmd)
    PROVE  /\ BaseInv'
           /\ \A d \in Chain : d # c => chain'[d] = chain[d]
           /\ chain'[c] \in ChainRecord /\ chain'[c] # Absent
           /\ chain'[c].step = "command"
           /\ DOMAIN chain'[c].asks = {"command"} /\ chain'[c].asks["command"].status = "sent"
<1>1. Begin(c, Send("command", pw, cmd, {IF "command" = "unlock" THEN "keys" ELSE "command"}))
  BY DEF Press
<1>2. UNCHANGED <<server, shown, passwords, mishaps>> /\ pw \in Password \cup {Absent}
  BY DEF Press, Begin, BaseInv, TypeOK
<1>3. /\ chain' \in [Chain -> ChainRecord \cup {Absent}]
      /\ \A d \in Chain : d # c => chain'[d] = chain[d]
      /\ chain'[c] \in ChainRecord /\ chain'[c] # Absent
      /\ chain'[c].step = "command"
      /\ DOMAIN chain'[c].asks = {IF "command" = "unlock" THEN "keys" ELSE "command"}
      /\ \A ask \in DOMAIN chain'[c].asks : chain'[c].asks[ask].status = "sent"
      /\ \A d \in Chain : chain'[d] # Absent => ChainOK(chain'[d], passwords')
      /\ presses' \in 0..MaxPresses
      /\ calm' \in BOOLEAN /\ fresh' \in BOOLEAN /\ sure' \in BOOLEAN
  BY <1>1, <1>2, BeginKeepsChains
<1>4. BaseInv'
  BY <1>2, <1>3 DEF BaseInv, TypeOK, server, shown, bounds
<1>. QED
  BY <1>3, <1>4

LEMMA Rejecting ==
    ASSUME BaseInv, NEW c \in Chain, NEW ask, NEW statuses, Waiting(c, ask, statuses),
           Reject(c, ask), UNCHANGED passwords
    PROVE  /\ chain[c] # Absent /\ chain[c].asks[ask].status \in statuses
           /\ chain' \in [Chain -> ChainRecord \cup {Absent}]
           /\ \A d \in Chain : d # c => chain'[d] = chain[d]
           /\ \A d \in Chain : chain'[d] # Absent => ChainOK(chain'[d], passwords')
           /\ chain'[c] # Absent =>
                 /\ chain'[c].step = "refresh" /\ chain'[c].rejected /\ ~chain[c].rejected
                 /\ DOMAIN chain'[c].asks = {"keys", "agents"} \ {ask}
                 /\ \A other \in DOMAIN chain'[c].asks :
                       /\ other \in DOMAIN chain[c].asks
                       /\ chain'[c].asks[other] = chain[c].asks[other]
<1>1. /\ chain[c] \in ChainRecord /\ chain[c] # Absent /\ ask \in DOMAIN chain[c].asks
      /\ chain[c].asks[ask].status \in statuses
  BY WaitingChain DEF BaseInv
<1>2. ChainOK(chain[c], passwords) /\ chain[c].asks \in Asks
  BY <1>1 DEF BaseInv, ChainRecord
<1>3. /\ chain' = [chain EXCEPT ![c] = chain'[c]]
      /\ chain'[c] # Absent =>
            /\ chain'[c] \in ChainRecord
            /\ chain[c].step = "refresh" /\ ~chain[c].rejected
            /\ chain'[c].step = "refresh" /\ chain'[c].auth = chain[c].auth
            /\ chain'[c].rejected
            /\ DOMAIN chain'[c].asks = {"keys", "agents"} \ {ask}
            /\ \A other \in DOMAIN chain'[c].asks :
                  /\ chain'[c].asks[other] = chain[c].asks[other]
                  /\ chain[c].asks[other].status # "held"
  BY <1>1, <1>2, RejectedChain DEF BaseInv
<1>4. ASSUME chain'[c] # Absent
      PROVE  /\ ChainOK(chain'[c], passwords)
             /\ \A other \in DOMAIN chain'[c].asks : other \in DOMAIN chain[c].asks
  <2>1. DOMAIN chain[c].asks = {"keys", "agents"}
    BY <1>2, <1>3, <1>4 DEF ChainOK
  <2>2. DOMAIN chain'[c].asks \in {{"keys"}, {"agents"}}
    BY <1>1, <1>3, <1>4, <2>1
  <2>. QED
    BY <1>2, <1>3, <1>4, <2>1, <2>2 DEF ChainOK
<1>5. /\ chain' \in [Chain -> ChainRecord \cup {Absent}]
      /\ \A d \in Chain : d # c => chain'[d] = chain[d]
      /\ \A d \in Chain : chain'[d] # Absent => ChainOK(chain'[d], passwords')
  BY <1>3, <1>4, ChainMoves
<1>. QED
  BY <1>1, <1>3, <1>4, <1>5

LEMMA UnauthorizedKeepsBase ==
    ASSUME BaseInv, NEW c \in Chain, NEW ask \in {"keys", "agents", "command"},
           Unauthorized(c, ask)
    PROVE  BaseInv'
<1>1. /\ chain' \in [Chain -> ChainRecord \cup {Absent}]
      /\ \A d \in Chain : chain'[d] # Absent => ChainOK(chain'[d], passwords')
  BY Rejecting DEF Unauthorized, history
<1>. QED
  BY <1>1 DEF Unauthorized, lock, BaseInv, TypeOK, server, history, bounds

LEMMA ErroredKeepsBase ==
    ASSUME BaseInv, NEW c \in Chain, NEW ask \in {"keys", "agents", "command"}, Errored(c, ask)
    PROVE  BaseInv'
<1>1. /\ chain' \in [Chain -> ChainRecord \cup {Absent}]
      /\ \A d \in Chain : chain'[d] # Absent => ChainOK(chain'[d], passwords')
  BY Rejecting DEF Errored, history
<1>2. pw' \in Password \cup {Absent}
  BY DEF Errored, BaseInv, TypeOK
<1>. QED
  BY <1>1, <1>2 DEF Errored, BaseInv, TypeOK, server, history, bounds

LEMMA HalfStep ==
    ASSUME BaseInv, NEW c \in Chain, NEW ask \in {"keys", "agents", "command"}, Half(c, ask)
    PROVE  /\ BaseInv'
           /\ chain[c] # Absent /\ chain[c].step = "refresh"
           /\ ask \in DOMAIN chain[c].asks /\ chain[c].asks[ask].status = "ok"
           /\ \A d \in Chain : d # c => chain'[d] = chain[d]
           /\ chain[c].rejected => chain'[c] = Absent
           /\ ~chain[c].rejected => /\ chain'[c] # Absent /\ ButFor(ask, chain'[c], chain[c])
                                    /\ chain'[c].asks[ask].status = "held"
                                    /\ chain'[c].asks[ask].body = chain[c].asks[ask].body
<1>1. /\ chain[c] \in ChainRecord /\ chain[c] # Absent /\ ask \in DOMAIN chain[c].asks
      /\ chain[c].asks[ask].status = "ok" /\ chain[c].asks[ask] \in Answer(ask)
      /\ chain[c].step = "refresh"
  BY WaitingChain DEF Half, BaseInv
<1>2. ChainOK(chain[c], passwords) /\ UNCHANGED passwords
  BY <1>1 DEF BaseInv, Half, history
<1>3. CASE chain[c].rejected
  <2>1. Waiting(c, ask, {"ok"}) /\ Reject(c, ask)
    BY <1>3 DEF Half
  <2>2. /\ chain' \in [Chain -> ChainRecord \cup {Absent}]
        /\ \A d \in Chain : d # c => chain'[d] = chain[d]
        /\ \A d \in Chain : chain'[d] # Absent => ChainOK(chain'[d], passwords')
        /\ chain'[c] = Absent
    BY <1>2, <1>3, <2>1, Rejecting
  <2>3. BaseInv'
    BY <2>2 DEF Half, BaseInv, TypeOK, server, shown, history, bounds
  <2>. QED
    BY <1>1, <1>3, <2>2, <2>3
<1>4. CASE ~chain[c].rejected
  <2>1. [status |-> "held", body |-> chain[c].asks[ask].body] \in Answer(ask)
    BY <1>1 DEF Answer
  <2>2. Answered(c, ask, "held", chain[c].asks[ask].body)
    BY <1>4 DEF Half, body
  <2>3. /\ chain' = [chain EXCEPT ![c] = chain'[c]] /\ chain'[c] \in ChainRecord
        /\ ButFor(ask, chain'[c], chain[c])
        /\ chain'[c].asks[ask].status = "held"
        /\ chain'[c].asks[ask].body = chain[c].asks[ask].body
    BY <1>1, <2>1, <2>2, AnsweredChain DEF BaseInv
  <2>4. ChainOK(chain'[c], passwords)
    BY <1>1, <1>2, <1>4, <2>3 DEF ChainOK, ButFor
  <2>5. /\ chain' \in [Chain -> ChainRecord \cup {Absent}]
        /\ \A d \in Chain : d # c => chain'[d] = chain[d]
        /\ \A d \in Chain : chain'[d] # Absent => ChainOK(chain'[d], passwords')
    BY <1>2, <2>3, <2>4, ChainMoves
  <2>6. BaseInv'
    BY <2>5 DEF Half, BaseInv, TypeOK, server, shown, history, bounds
  <2>. QED
    BY <1>1, <1>4, <2>3, <2>5, <2>6, AbsentAssumption
<1>. QED
  BY <1>3, <1>4

\* A chain whose answer has been shown ends.
LEMMA Ending ==
    ASSUME BaseInv, NEW c \in Chain, Continue(c, Absent), UNCHANGED passwords
    PROVE  /\ chain' \in [Chain -> ChainRecord \cup {Absent}]
           /\ chain'[c] = Absent
           /\ \A d \in Chain : d # c => chain'[d] = chain[d]
           /\ \A d \in Chain : chain'[d] # Absent => ChainOK(chain'[d], passwords')
  BY DEF Continue, BaseInv, TypeOK

\* ... or sends its next requests.
LEMMA GoingOn ==
    ASSUME BaseInv, NEW c \in Chain, NEW step \in {"unlock", "refresh"}, UNCHANGED passwords,
           NEW asks \in AskSets, step = "unlock" => asks = {"agents"},
           step = "refresh" => asks = {"keys", "agents"},
           Continue(c, Send(step, pw, Absent, asks))
    PROVE  /\ chain' \in [Chain -> ChainRecord \cup {Absent}]
           /\ \A d \in Chain : d # c => chain'[d] = chain[d]
           /\ \A d \in Chain : chain'[d] # Absent => ChainOK(chain'[d], passwords')
           /\ chain'[c] # Absent /\ chain'[c].step = step /\ ~chain'[c].rejected
           /\ DOMAIN chain'[c].asks = asks
           /\ \A ask \in asks : chain'[c].asks[ask].status = "sent"
<1>. DEFINE r == Send(step, pw, Absent, asks)
<1>1. pw \in Password \cup {Absent}
  BY DEF BaseInv, TypeOK
<1>2. /\ r \in ChainRecord /\ r.step = step /\ ~r.rejected
      /\ DOMAIN r.asks = asks /\ \A ask \in asks : r.asks[ask].status = "sent"
  BY <1>1, SentChain
<1>3. ChainOK(r, passwords)
  BY <1>1, SentIsOK
<1>4. chain' = [chain EXCEPT ![c] = r]
  BY DEF Continue
<1>5. r # Absent
  BY <1>2, AbsentAssumption
<1>. HIDE DEF r
<1>6. chain'[c] = r
  BY <1>4 DEF BaseInv, TypeOK
<1>. QED
  BY <1>2, <1>3, <1>4, <1>5, <1>6, ChainMoves

LEMMA UnlockedKeysStep ==
    ASSUME BaseInv, NEW c \in Chain, UnlockedKeys(c)
    PROVE  /\ BaseInv'
           /\ chain[c] # Absent /\ "keys" \in DOMAIN chain[c].asks /\ chain[c].step = "unlock"
           /\ chain[c].asks["keys"].status = "ok"
           /\ \A d \in Chain : d # c => chain'[d] = chain[d]
           /\ chain'[c] # Absent /\ chain'[c].step = "unlock" /\ ~chain'[c].rejected
           /\ DOMAIN chain'[c].asks = {"agents"} /\ chain'[c].asks["agents"].status = "sent"
<1>1. /\ chain[c] # Absent /\ "keys" \in DOMAIN chain[c].asks
      /\ chain[c].asks["keys"].status = "ok" /\ body(c, "keys") \subseteq KeyId
  BY WaitingChain DEF UnlockedKeys, BaseInv
<1>2. {"agents"} \in AskSets
  BY DEF AskSets
<1>3. Continue(c, Send("unlock", pw, Absent, {"agents"})) /\ UNCHANGED passwords
  BY DEF UnlockedKeys
<1>4. /\ chain' \in [Chain -> ChainRecord \cup {Absent}]
      /\ \A d \in Chain : d # c => chain'[d] = chain[d]
      /\ \A d \in Chain : chain'[d] # Absent => ChainOK(chain'[d], passwords')
      /\ chain'[c] # Absent /\ chain'[c].step = "unlock" /\ ~chain'[c].rejected
      /\ DOMAIN chain'[c].asks = {"agents"}
      /\ \A ask \in {"agents"} : chain'[c].asks[ask].status = "sent"
  BY <1>2, <1>3, GoingOn
<1>5. BaseInv'
  BY <1>1, <1>4 DEF UnlockedKeys, BaseInv, TypeOK, server, bounds
<1>. QED
  BY <1>1, <1>4, <1>5 DEF UnlockedKeys

LEMMA UnlockedAgentsStep ==
    ASSUME BaseInv, NEW c \in Chain, UnlockedAgents(c)
    PROVE  /\ BaseInv'
           /\ chain[c] # Absent /\ "agents" \in DOMAIN chain[c].asks /\ chain[c].step = "unlock"
           /\ chain[c].asks["agents"].status = "ok"
           /\ body(c, "agents") \in [AgentId -> Listed \cup {Absent}]
           /\ chain'[c] = Absent /\ \A d \in Chain : d # c => chain'[d] = chain[d]
<1>1. /\ chain[c] # Absent /\ "agents" \in DOMAIN chain[c].asks
      /\ chain[c].asks["agents"].status = "ok"
      /\ body(c, "agents") \in [AgentId -> Listed \cup {Absent}]
  BY WaitingChain DEF UnlockedAgents, BaseInv
<1>2. /\ chain' \in [Chain -> ChainRecord \cup {Absent}] /\ chain'[c] = Absent
      /\ \A d \in Chain : d # c => chain'[d] = chain[d]
      /\ \A d \in Chain : chain'[d] # Absent => ChainOK(chain'[d], passwords')
  BY Ending DEF UnlockedAgents
<1>3. agentsShown' \in [AgentId -> Row \cup {Absent}]
  BY <1>1, RowsShown DEF UnlockedAgents, BaseInv, TypeOK
<1>4. BaseInv'
  BY <1>2, <1>3 DEF UnlockedAgents, BaseInv, TypeOK, server, bounds
<1>. QED
  BY <1>1, <1>2, <1>4 DEF UnlockedAgents

LEMMA CommandDoneStep ==
    ASSUME BaseInv, NEW c \in Chain, CommandDone(c)
    PROVE  /\ BaseInv'
           /\ chain[c] # Absent /\ "command" \in DOMAIN chain[c].asks /\ chain[c].step = "command"
           /\ chain[c].asks["command"].status = "ok"
           /\ body(c, "command") \in Minted \cup {Absent}
           /\ \A d \in Chain : d # c => chain'[d] = chain[d]
           /\ chain'[c] # Absent /\ chain'[c].step = "refresh" /\ ~chain'[c].rejected
           /\ DOMAIN chain'[c].asks = {"keys", "agents"}
           /\ \A ask \in {"keys", "agents"} : chain'[c].asks[ask].status = "sent"
<1>1. /\ chain[c] \in ChainRecord
      /\ chain[c] # Absent /\ "command" \in DOMAIN chain[c].asks
      /\ chain[c].asks["command"].status = "ok" /\ body(c, "command") \in Minted \cup {Absent}
  BY WaitingChain DEF CommandDone, BaseInv
<1>2. chain[c].step = "command"
  BY <1>1 DEF BaseInv, ChainOK, ChainRecord
<1>3. {"keys", "agents"} \in AskSets
  BY DEF AskSets
<1>4. Continue(c, Send("refresh", pw, Absent, {"keys", "agents"})) /\ UNCHANGED passwords
  BY DEF CommandDone
<1>5. /\ chain' \in [Chain -> ChainRecord \cup {Absent}]
      /\ \A d \in Chain : d # c => chain'[d] = chain[d]
      /\ \A d \in Chain : chain'[d] # Absent => ChainOK(chain'[d], passwords')
      /\ chain'[c] # Absent /\ chain'[c].step = "refresh" /\ ~chain'[c].rejected
      /\ DOMAIN chain'[c].asks = {"keys", "agents"}
      /\ \A ask \in {"keys", "agents"} : chain'[c].asks[ask].status = "sent"
  BY <1>3, <1>4, GoingOn
<1>6. banner' \in Minted \cup {Absent} /\ sure' \in BOOLEAN
  BY <1>1 DEF CommandDone, BaseInv, TypeOK
<1>7. BaseInv'
  BY <1>5, <1>6 DEF CommandDone, BaseInv, TypeOK, server, bounds
<1>. QED
  BY <1>1, <1>2, <1>5, <1>7

LEMMA RefreshedStep ==
    ASSUME BaseInv, NEW c \in Chain, NEW ask \in {"keys", "agents", "command"},
           Refreshed(c, ask)
    PROVE  /\ BaseInv'
           /\ chain[c] # Absent /\ chain[c].step = "refresh" /\ ~chain[c].rejected
           /\ DOMAIN chain[c].asks = {"keys", "agents"}
           /\ \A a \in {"keys", "agents"} : chain[c].asks[a].status \in {"ok", "held"}
           /\ body(c, "keys") \subseteq KeyId
           /\ body(c, "agents") \in [AgentId -> Listed \cup {Absent}]
           /\ chain'[c] = Absent /\ \A d \in Chain : d # c => chain'[d] = chain[d]
<1>1. /\ chain[c] # Absent /\ ask \in DOMAIN chain[c].asks /\ chain[c].asks[ask].status = "ok"
      /\ chain[c].step = "refresh"
  BY WaitingChain DEF Refreshed, BaseInv
<1>2. PICK other \in DOMAIN chain[c].asks : other # ask /\ chain[c].asks[other].status = "held"
  BY DEF Refreshed
<1>3. ChainOK(chain[c], passwords)
  BY <1>1 DEF BaseInv
<1>4. ~chain[c].rejected /\ DOMAIN chain[c].asks = {"keys", "agents"}
  BY <1>1, <1>2, <1>3 DEF ChainOK
<1>5. \A a \in {"keys", "agents"} : chain[c].asks[a].status \in {"ok", "held"}
  BY <1>1, <1>2, <1>4
<1>6. body(c, "keys") \subseteq KeyId /\ body(c, "agents") \in [AgentId -> Listed \cup {Absent}]
  <2>1. \A a \in {"keys", "agents"} : Waiting(c, a, {"ok", "held"})
    BY <1>1, <1>4, <1>5 DEF Waiting
  <2>. QED
    BY <1>5, <2>1, WaitingChain DEF BaseInv
<1>7. /\ chain' \in [Chain -> ChainRecord \cup {Absent}] /\ chain'[c] = Absent
      /\ \A d \in Chain : d # c => chain'[d] = chain[d]
      /\ \A d \in Chain : chain'[d] # Absent => ChainOK(chain'[d], passwords')
  BY Ending DEF Refreshed
<1>8. agentsShown' \in [AgentId -> Row \cup {Absent}]
  BY <1>6, RowsShown DEF Refreshed
<1>9. BaseInv'
  BY <1>6, <1>7, <1>8 DEF Refreshed, BaseInv, TypeOK, server, bounds
<1>. QED
  BY <1>1, <1>4, <1>5, <1>6, <1>7, <1>9

LEMMA MishapKeepsBase ==
    ASSUME BaseInv, Elsewhere \/ \E p \in Password : Restart(p)
    PROVE  BaseInv'
<1>1. mishaps' \in 0..MaxMishaps /\ presses' = presses
      /\ calm' = FALSE /\ fresh' = FALSE /\ sure' = FALSE
  BY BoundsAssumption DEF Elsewhere, Restart, Mishap, BaseInv, TypeOK
<1>2. CASE Elsewhere
  <2>1. PICK cmd \in Command, answer \in Minted \cup {Absent} : Effect(cmd, answer)
    BY <1>2 DEF Elsewhere
  <2>2. /\ keys' \subseteq KeyId
        /\ agents' \in [AgentId -> Agent \cup {Absent}]
        /\ drawn' \subseteq KeyId \cup AgentId \cup Bearer
        /\ Bound(keys, agents, drawn)'
    BY <2>1, EffectTypes DEF BaseInv
  <2>. QED
    BY <1>1, <1>2, <2>2 DEF Elsewhere, BaseInv, TypeOK, shown
<1>3. ASSUME NEW p \in Password, Restart(p) PROVE BaseInv'
  <2>1. \A d \in Chain : chain[d] # Absent => ChainOK(chain[d], passwords')
    BY <1>3 DEF BaseInv, ChainOK, Restart
  <2>2. UNCHANGED <<keys, agents, drawn, shown, chain>> /\ password' = p
        /\ passwords' = passwords \cup {p}
    BY <1>3 DEF Restart
  <2>. QED
    BY <1>1, <2>1, <2>2 DEF BaseInv, TypeOK, shown
<1>. QED
  BY <1>2, <1>3

LEMMA BaseStep == BaseInv /\ [Next]_vars => BaseInv'
<1>. SUFFICES ASSUME BaseInv, [Next]_vars PROVE BaseInv'
  OBVIOUS
<1>1. ASSUME NEW c \in Chain, NEW ask \in {"keys", "agents", "command"},
             \/ Serve(c, ask) \/ Fail(c, ask)
             \/ Unauthorized(c, ask) \/ Errored(c, ask)
             \/ Half(c, ask) \/ Refreshed(c, ask)
      PROVE  BaseInv'
  BY <1>1, ServeKeepsBase, FailKeepsBase, UnauthorizedKeepsBase, ErroredKeepsBase, HalfStep,
     RefreshedStep
<1>2. ASSUME NEW c \in Chain,
             \/ \E val \in Password : unlock(c, val)
             \/ \E cmd \in Command : Press(c, cmd)
             \/ UnlockedKeys(c) \/ UnlockedAgents(c) \/ CommandDone(c)
      PROVE  BaseInv'
  BY <1>2, UnlockBegun, PressBegun, UnlockedKeysStep, UnlockedAgentsStep, CommandDoneStep
<1>3. CASE Lock \/ Dismiss
  BY <1>3 DEF Lock, lock, Dismiss, BaseInv, TypeOK, server, history, bounds
<1>4. CASE Elsewhere \/ \E p \in Password : Restart(p)
  BY <1>4, MishapKeepsBase
<1>5. CASE UNCHANGED vars
  BY <1>5 DEF vars, BaseInv, TypeOK, server, shown, history, bounds
<1>. QED
  BY <1>1, <1>2, <1>3, <1>4, <1>5 DEF Next

LEMMA BaseInvariance == Spec => []BaseInv
  BY BaseInit, BaseStep, PTL DEF Spec

(***************************************************************************)
(* Every variable keeps its shape, for any number of chains, presses and   *)
(* mishaps: in particular, no chain waits for an answer it did not ask     *)
(* for, and the tables shown have only rows the server sent.               *)
(***************************************************************************)
THEOREM TypeCorrect == Spec => []TypeOK
<1>1. BaseInv => TypeOK
  BY DEF BaseInv
<1>. QED
  BY <1>1, BaseInvariance, PTL

(***************************************************************************)
(* Only Enable enables: whichever button was pressed, how often, and on    *)
(* however old a table, an agent that was disabled is enabled by a chain   *)
(* whose command says so (admin.ts 641), since a new agent never gets the  *)
(* id of one that was.                                                     *)
(***************************************************************************)
THEOREM ButtonsSayWhatTheyWant == Spec => OnlyEnableEnables
<1>1. ASSUME BaseInv, [Next]_vars, NEW a \in AgentId,
             agents[a] # Absent, agents'[a] # Absent, chain' # chain,
             ~agents[a].enabled, agents'[a].enabled
      PROVE  \E c \in Chain : /\ chain[c] # Absent
                              /\ chain[c].command = [do |-> "enable", agent |-> a]
  <2>1. agents' # agents
    BY <1>1
  <2>2. PICK c \in Chain, ask \in {"keys", "agents", "command"} : Serve(c, ask)
    BY <1>1, <2>1
       DEF Next, vars, server, shown, unlock, Press, Fail, Unauthorized, Errored, Half, Refreshed,
           UnlockedKeys, UnlockedAgents, CommandDone, Lock, Dismiss, Elsewhere, Restart
  <2>3. /\ chain[c].command \in Command /\ body(c, ask)' \in Minted \cup {Absent}
        /\ Effect(chain[c].command, body(c, ask)') /\ chain[c] # Absent
    BY <1>1, <2>1, <2>2, Served DEF server
  <2>. QED
    BY <1>1, <2>3, EffectOnAgents DEF BaseInv
<1>2. BaseInv /\ [Next]_vars =>
        [\A a \in AgentId :
            /\ agents[a] # Absent /\ agents'[a] # Absent /\ chain' # chain
            /\ ~agents[a].enabled /\ agents'[a].enabled
            => \E c \in Chain : /\ chain[c] # Absent
                                /\ chain[c].command = [do |-> "enable", agent |-> a]]_vars
  BY <1>1
<1>. QED
  BY <1>2, BaseInvariance, PTL DEF Spec, OnlyEnableEnables

-----------------------------------------------------------------------------
\* The password being tried.  That the page forgets it is not inductive: it
\* takes a chain that is still trying it to say why it is there.

Trying(r) == r # Absent /\ r.step = "unlock" /\ "keys" \in DOMAIN r.asks

UnlockInv ==
    /\ pw \notin passwords \cup {Absent} =>
          \E c \in Chain : /\ Trying(chain[c]) /\ chain[c].auth = pw
                           /\ chain[c].asks["keys"].status # "ok"
    /\ screen = "login" /\ pw # Absent => \E c \in Chain : Trying(chain[c])

LEMMA TriesGoOn ==
    ASSUME UnlockInv, passwords \subseteq passwords', UNCHANGED <<pw, screen>>,
           \A d \in Chain : Trying(chain[d]) =>
              /\ Trying(chain'[d]) /\ chain'[d].auth = chain[d].auth
              /\ chain[d].auth \notin passwords /\ chain[d].asks["keys"].status # "ok"
                    => chain'[d].asks["keys"].status # "ok"
    PROVE  UnlockInv'
  BY DEF UnlockInv

LEMMA UnlockStep == BaseInv /\ UnlockInv /\ [Next]_vars => UnlockInv'
<1>. SUFFICES ASSUME BaseInv, UnlockInv, [Next]_vars PROVE UnlockInv'
  OBVIOUS
<1>1. ASSUME NEW c \in Chain, NEW val \in Password, unlock(c, val) PROVE UnlockInv'
  BY <1>1, UnlockBegun DEF unlock, UnlockInv, Trying
<1>2. ASSUME NEW c \in Chain, NEW cmd \in Command, Press(c, cmd) PROVE UnlockInv'
  <2>1. \A d \in Chain : Trying(chain[d]) => chain'[d] = chain[d]
    BY <1>2, PressBegun DEF Press, Begin, Trying
  <2>. QED
    BY <1>2, <2>1, TriesGoOn DEF Press, Begin, shown
<1>3. ASSUME NEW c \in Chain, NEW ask \in {"keys", "agents", "command"}, Serve(c, ask)
      PROVE  UnlockInv'
  <2>1. /\ chain[c] # Absent /\ ask \in DOMAIN chain[c].asks
        /\ chain' = [chain EXCEPT ![c] = chain'[c]] /\ chain'[c] \in ChainRecord
        /\ ButFor(ask, chain'[c], chain[c])
        /\ chain'[c].asks[ask].status = "ok" => chain[c].auth \in passwords
        /\ UNCHANGED <<shown, passwords>>
    BY <1>3, Served DEF history, BaseInv
  <2>2. \A d \in Chain : d # c => chain'[d] = chain[d]
    BY <2>1 DEF BaseInv, TypeOK
  <2>3. Trying(chain[c]) =>
           /\ Trying(chain'[c]) /\ chain'[c].auth = chain[c].auth
           /\ chain[c].auth \notin passwords /\ chain[c].asks["keys"].status # "ok"
                 => chain'[c].asks["keys"].status # "ok"
    BY <2>1, AbsentAssumption DEF Trying, ButFor
  <2>. QED
    BY <2>1, <2>2, <2>3, TriesGoOn DEF shown
<1>4. ASSUME NEW c \in Chain, NEW ask \in {"keys", "agents", "command"}, Fail(c, ask)
      PROVE  UnlockInv'
  <2>1. /\ chain' = [chain EXCEPT ![c] = chain'[c]] /\ chain'[c] \in ChainRecord
        /\ ButFor(ask, chain'[c], chain[c]) /\ chain'[c].asks[ask].status = "error"
        /\ UNCHANGED <<shown, passwords>>
    BY <1>4, Failed
  <2>2. \A d \in Chain : d # c => chain'[d] = chain[d]
    BY <2>1 DEF BaseInv, TypeOK
  <2>3. Trying(chain[c]) =>
           /\ Trying(chain'[c]) /\ chain'[c].auth = chain[c].auth
           /\ chain[c].asks["keys"].status # "ok" => chain'[c].asks["keys"].status # "ok"
    BY <2>1, AbsentAssumption DEF Trying, ButFor
  <2>. QED
    BY <2>1, <2>2, <2>3, TriesGoOn DEF shown
<1>5. ASSUME NEW c \in Chain, NEW ask \in {"keys", "agents", "command"}, Unauthorized(c, ask)
      PROVE  UnlockInv'
  BY <1>5 DEF Unauthorized, lock, UnlockInv
<1>6. ASSUME NEW c \in Chain, NEW ask \in {"keys", "agents", "command"}, Errored(c, ask)
      PROVE  UnlockInv'
  <2>1. CASE chain[c].step = "unlock"
    BY <1>6, <2>1 DEF Errored, UnlockInv
  <2>2. CASE chain[c].step # "unlock"
    <3>1. \A d \in Chain : d # c => chain'[d] = chain[d]
      BY <1>6, Rejecting DEF Errored, history
    <3>2. \A d \in Chain : Trying(chain[d]) => chain'[d] = chain[d]
      BY <2>2, <3>1 DEF Trying
    <3>. QED
      BY <1>6, <2>2, <3>2, TriesGoOn DEF Errored, history
  <2>. QED
    BY <2>1, <2>2
<1>7. ASSUME NEW c \in Chain, NEW ask \in {"keys", "agents", "command"},
             Half(c, ask) \/ Refreshed(c, ask)
      PROVE  UnlockInv'
  <2>1. chain[c].step = "refresh" /\ \A d \in Chain : d # c => chain'[d] = chain[d]
    BY <1>7, HalfStep, RefreshedStep
  <2>2. \A d \in Chain : Trying(chain[d]) => chain'[d] = chain[d]
    BY <2>1 DEF Trying
  <2>. QED
    BY <1>7, <2>2, TriesGoOn DEF Half, Refreshed, shown, history
<1>8. ASSUME NEW c \in Chain, UnlockedKeys(c) PROVE UnlockInv'
  <2>1. /\ chain[c].asks["keys"].status = "ok"
        /\ \A d \in Chain : d # c => chain'[d] = chain[d]
    BY <1>8, UnlockedKeysStep
  <2>. QED
    BY <1>8, <2>1 DEF UnlockedKeys, UnlockInv
<1>9. ASSUME NEW c \in Chain, UnlockedAgents(c) \/ CommandDone(c) PROVE UnlockInv'
  <2>1. ~Trying(chain[c]) /\ \A d \in Chain : d # c => chain'[d] = chain[d]
    BY <1>9, UnlockedAgentsStep, CommandDoneStep DEF Trying, BaseInv, ChainOK
  <2>2. \A d \in Chain : Trying(chain[d]) => chain'[d] = chain[d]
    BY <2>1
  <2>. QED
    BY <1>9, <2>2, TriesGoOn DEF UnlockedAgents, CommandDone
<1>10. CASE Lock \/ Dismiss \/ Elsewhere \/ (\E p \in Password : Restart(p)) \/ UNCHANGED vars
  <2>1. CASE Lock
    BY <2>1 DEF Lock, lock, UnlockInv
  <2>2. CASE ~Lock
    BY <1>10, <2>2, TriesGoOn DEF Dismiss, Elsewhere, Restart, shown, history, vars
  <2>. QED
    BY <2>1, <2>2
<1>. QED
  BY <1>1, <1>2, <1>3, <1>4, <1>5, <1>6, <1>7, <1>8, <1>9, <1>10 DEF Next

(***************************************************************************)
(* The page settles: with no unlock under way the login form has forgotten *)
(* the password and the app uses none that was wrong from the start,       *)
(* whatever overlapped and however late the answers came (admin.ts 679 to  *)
(* 691).                                                                   *)
(***************************************************************************)
THEOREM UnlockingSettles == Spec => []UnlockSettles
<1>1. Init => UnlockInv
  BY DEF Init, UnlockInv
<1>2. BaseInv /\ UnlockInv => UnlockSettles
  BY DEF UnlockInv, UnlockSettles, Trying
<1>. QED
  BY <1>1, <1>2, UnlockStep, BaseInvariance, PTL DEF Spec

-----------------------------------------------------------------------------
\* What is shown.  While a chain runs alone, its answers are what the tables
\* are; the tables and the banner are what they say, or will be when it ends.

Listing(ags) == [a \in AgentId |-> IF ags[a] = Absent THEN Absent
                                   ELSE [key |-> ags[a].key, enabled |-> ags[a].enabled]]

Opens(minted, ags) ==
    ags[minted.agent] # Absent => ags[minted.agent].bearer = minted.bearer

\* Chain r has failed in nothing and was told the tables.
Told(r, ks, ags, cache, scr) ==
    /\ \A ask \in DOMAIN r.asks :
          /\ r.asks[ask].status # "error"
          /\ r.asks[ask].status \in {"ok", "held"} =>
                /\ ask = "keys" => r.asks[ask].body = ks
                /\ ask = "agents" => r.asks[ask].body = Listing(ags)
                /\ ask = "command" /\ r.asks[ask].body # Absent => Opens(r.asks[ask].body, ags)
    /\ r.step = "unlock" /\ "agents" \in DOMAIN r.asks => cache = ks
    /\ r.rejected => scr = "login"

Done(r) == r # Absent /\ "command" \in DOMAIN r.asks /\ r.asks["command"].status = "ok"

Displayed == /\ keysCache = keys
             /\ agentsShown = [a \in AgentId |->
                   IF agents[a] = Absent THEN Absent
                   ELSE [options |-> keys, key |-> agents[a].key,
                         enabled |-> agents[a].enabled]]

CalmChains == calm => \A c \in Chain : chain[c] # Absent =>
                          /\ \A d \in Chain : chain[d] # Absent => d = c
                          /\ Told(chain[c], keys, agents, keysCache, screen)

FreshTables == fresh /\ screen = "app" =>
                   \/ Displayed
                   \/ \E c \in Chain : \/ chain[c] # Absent /\ chain[c].step = "refresh"
                                       \/ Done(chain[c])

SureBanner == sure /\ banner # Absent =>
                  \/ Opens(banner, agents)
                  \/ \E c \in Chain : Done(chain[c]) /\ body(c, "command") # Absent

CalmInv == (fresh \/ sure => calm) /\ CalmChains /\ FreshTables /\ SureBanner

LEMMA AloneMoves ==
    ASSUME CalmChains, calm' = calm, NEW c \in Chain, chain[c] # Absent,
           \A d \in Chain : d # c => chain'[d] = chain[d],
           calm /\ chain'[c] # Absent => Told(chain'[c], keys', agents', keysCache', screen')
    PROVE  CalmChains'
<1>. SUFFICES ASSUME calm, NEW e \in Chain, chain'[e] # Absent
              PROVE  /\ \A d \in Chain : chain'[d] # Absent => d = e
                     /\ Told(chain'[e], keys', agents', keysCache', screen')
  BY DEF CalmChains
<1>1. \A d \in Chain : d # c => chain'[d] = Absent
  BY DEF CalmChains
<1>. QED
  BY <1>1

LEMMA BeginningAlone ==
    ASSUME CalmInv, NEW c \in Chain, NEW sent, Begin(c, sent),
           \A d \in Chain : d # c => chain'[d] = chain[d],
           ~chain'[c].rejected, chain'[c].step = "unlock" => "agents" \notin DOMAIN chain'[c].asks,
           \A ask \in DOMAIN chain'[c].asks : chain'[c].asks[ask].status = "sent",
           UNCHANGED <<agents, banner>>,
           \/ screen' = "login"
           \/ UNCHANGED <<screen, keys, keysCache, agentsShown>>
    PROVE  CalmInv'
<1>1. calm' = Idle /\ fresh' = (fresh /\ Idle) /\ sure' = (sure /\ Idle)
  BY DEF Begin
<1>2. CalmChains'
  <2>. SUFFICES ASSUME Idle, NEW e \in Chain, chain'[e] # Absent
                PROVE  /\ \A d \in Chain : chain'[d] # Absent => d = e
                       /\ Told(chain'[e], keys', agents', keysCache', screen')
    BY <1>1 DEF CalmChains
  <2>1. \A d \in Chain : d # c => chain'[d] = Absent
    BY DEF Idle
  <2>2. Told(chain'[c], keys', agents', keysCache', screen')
    BY DEF Told
  <2>. QED
    BY <2>1, <2>2
<1>3. FreshTables'
  BY <1>1 DEF CalmInv, FreshTables, Displayed, Idle, Done
<1>4. SureBanner'
  BY <1>1 DEF CalmInv, SureBanner, Idle, Done
<1>. QED
  BY <1>1, <1>2, <1>3, <1>4 DEF CalmInv

LEMMA UnlockKeepsCalm ==
    ASSUME BaseInv, CalmInv, NEW c \in Chain, NEW val \in Password, unlock(c, val)
    PROVE  CalmInv'
<1>1. Begin(c, Send("unlock", val, Absent, {"keys"})) /\ screen' = "login"
      /\ UNCHANGED <<agents, banner>>
  BY DEF unlock, server
<1>2. /\ \A d \in Chain : d # c => chain'[d] = chain[d]
      /\ chain'[c] # Absent /\ ChainOK(chain'[c], passwords')
      /\ chain'[c].step = "unlock"
      /\ DOMAIN chain'[c].asks = {"keys"} /\ chain'[c].asks["keys"].status = "sent"
  BY UnlockBegun DEF BaseInv
<1>3. ~chain'[c].rejected /\ "agents" \notin DOMAIN chain'[c].asks
      /\ \A ask \in DOMAIN chain'[c].asks : chain'[c].asks[ask].status = "sent"
  BY <1>2 DEF ChainOK
<1>. HIDE DEF Begin
<1>. QED
  BY <1>1, <1>2, <1>3, BeginningAlone

LEMMA PressKeepsCalm ==
    ASSUME BaseInv, CalmInv, NEW c \in Chain, NEW cmd \in Command, Press(c, cmd)
    PROVE  CalmInv'
<1>1. Begin(c, Send("command", pw, cmd, {"command"}))
      /\ UNCHANGED <<agents, banner, screen, keys, keysCache, agentsShown>>
  BY DEF Press, server, shown
<1>2. /\ \A d \in Chain : d # c => chain'[d] = chain[d]
      /\ chain'[c] # Absent /\ ChainOK(chain'[c], passwords')
      /\ chain'[c].step = "command"
      /\ DOMAIN chain'[c].asks = {"command"} /\ chain'[c].asks["command"].status = "sent"
  BY PressBegun DEF BaseInv
<1>3. ~chain'[c].rejected /\ "agents" \notin DOMAIN chain'[c].asks
      /\ \A ask \in DOMAIN chain'[c].asks : chain'[c].asks[ask].status = "sent"
  BY <1>2 DEF ChainOK
<1>. HIDE DEF Begin
<1>. QED
  BY <1>1, <1>2, <1>3, BeginningAlone

LEMMA ServeKeepsCalm ==
    ASSUME BaseInv, CalmInv, NEW c \in Chain, NEW ask \in {"keys", "agents", "command"},
           Serve(c, ask)
    PROVE  CalmInv'
<1>1. /\ chain[c] # Absent /\ ask \in DOMAIN chain[c].asks /\ chain[c].asks[ask].status = "sent"
      /\ chain[c] \in ChainRecord /\ ChainOK(chain[c], passwords)
      /\ chain'[c] # Absent /\ ButFor(ask, chain'[c], chain[c])
      /\ \A d \in Chain : d # c => chain'[d] = chain[d]
      /\ UNCHANGED <<screen, keysCache, agentsShown, banner, calm, fresh, sure>>
  <2>1. chain[c] # Absent /\ chain' = [chain EXCEPT ![c] = chain'[c]] /\ chain'[c] \in ChainRecord
    BY Served
  <2>2. chain'[c] # Absent /\ \A d \in Chain : d # c => chain'[d] = chain[d]
    BY <2>1, AbsentAssumption DEF BaseInv, TypeOK
  <2>3. ChainOK(chain[c], passwords)
    BY <2>1 DEF BaseInv
  <2>. QED
    BY <2>1, <2>2, <2>3, Served DEF shown, history
<1>. DEFINE ans == chain'[c].asks[ask]
<1>2. CASE /\ UNCHANGED <<keys, agents>>
           /\ \/ ans.status = "unauthorized"
              \/ ans.status = "ok" /\ ask = "keys" /\ ans.body = keys
              \/ ans.status = "ok" /\ ask = "agents" /\ ans.body = Listing(agents)
  <2>1. CalmChains'
    <3>1. ASSUME calm PROVE Told(chain'[c], keys, agents, keysCache, screen)
      <4>1. Told(chain[c], keys, agents, keysCache, screen)
        BY <1>1, <3>1 DEF CalmInv, CalmChains
      <4>. QED
        BY <1>1, <1>2, <4>1 DEF Told, ButFor
    <3>. QED
      BY <1>1, <1>2, <3>1, AloneMoves DEF CalmInv
  <2>2. \A d \in Chain :
           /\ chain[d] # Absent /\ chain[d].step = "refresh" =>
                 chain'[d] # Absent /\ chain'[d].step = "refresh"
           /\ Done(chain[d]) => Done(chain'[d]) /\ body(d, "command")' = body(d, "command")
    BY <1>1 DEF Done, body, ButFor
  <2>3. FreshTables'
    BY <1>1, <1>2, <2>2 DEF CalmInv, FreshTables, Displayed
  <2>4. SureBanner'
    BY <1>1, <1>2, <2>2 DEF CalmInv, SureBanner
  <2>. QED
    BY <1>1, <2>1, <2>3, <2>4 DEF CalmInv
<1>3. CASE /\ ans.status = "ok" /\ ask = "command"
           /\ ans.body \in Minted \cup {Absent} /\ chain[c].command \in Command
           /\ Effect(chain[c].command, ans.body)
  <2>1. DOMAIN chain'[c].asks = {"command"} /\ chain'[c].step = "command" /\ ~chain'[c].rejected
    BY <1>1, <1>3 DEF ChainOK, ButFor, ChainRecord
  <2>2. ans.body # Absent => Opens(ans.body, agents')
    BY <1>3, EffectOnAgents DEF BaseInv, Opens, Minted
  <2>3. CalmChains'
    <3>1. Told(chain'[c], keys', agents', keysCache', screen')
      BY <1>3, <2>1, <2>2 DEF Told
    <3>. QED
      BY <1>1, <3>1, AloneMoves DEF CalmInv
  <2>4. Done(chain'[c]) /\ body(c, "command")' = ans.body
    BY <1>1, <1>3, <2>1 DEF Done, body
  <2>5. FreshTables'
    BY <2>4 DEF FreshTables
  <2>6. SureBanner'
    <3>1. CASE ans.body # Absent
      BY <2>4, <3>1 DEF SureBanner
    <3>2. CASE ans.body = Absent
      <4>1. \A d \in Chain : Done(chain[d]) => d # c
        BY <1>1, <1>3 DEF Done
      <4>2. banner # Absent /\ Opens(banner, agents) => Opens(banner, agents')
        BY <1>3, <3>2, EffectOnAgents DEF BaseInv, TypeOK, Opens, Minted
      <4>. QED
        BY <1>1, <4>1, <4>2 DEF CalmInv, SureBanner, body
    <3>. QED
      BY <3>1, <3>2
  <2>. QED
    BY <1>1, <2>3, <2>5, <2>6 DEF CalmInv
<1>. QED
  BY <1>2, <1>3, Served DEF body, listAgents, Listing, server

LEMMA RejectionKeepsCalm ==
    ASSUME BaseInv, CalmInv, NEW c \in Chain, NEW ask \in {"keys", "agents", "command"},
           Unauthorized(c, ask) \/ Errored(c, ask)
    PROVE  CalmInv'
<1>1. /\ Reject(c, ask) /\ UNCHANGED passwords /\ UNCHANGED <<keys, agents, keysCache, agentsShown>>
      /\ UNCHANGED <<calm, fresh, sure>>
  BY DEF Unauthorized, Errored, server, history
<1>2. CASE Errored(c, ask)
  <2>1. chain[c] # Absent /\ ask \in DOMAIN chain[c].asks /\ chain[c].asks[ask].status = "error"
    BY <1>2 DEF Errored, Waiting
  <2>2. ~calm
    BY <2>1 DEF CalmInv, CalmChains, Told
  <2>. QED
    BY <1>1, <2>2 DEF CalmInv, CalmChains, FreshTables, SureBanner
<1>3. CASE Unauthorized(c, ask)
  <2>1. screen' = "login" /\ banner' = Absent /\ Waiting(c, ask, {"unauthorized"})
    BY <1>3 DEF Unauthorized, lock
  <2>2. /\ chain[c] # Absent
        /\ \A d \in Chain : d # c => chain'[d] = chain[d]
        /\ chain'[c] # Absent =>
              /\ chain'[c].step = "refresh" /\ chain'[c].rejected /\ ~chain[c].rejected
              /\ DOMAIN chain'[c].asks = {"keys", "agents"} \ {ask}
              /\ \A other \in DOMAIN chain'[c].asks :
                    /\ other \in DOMAIN chain[c].asks
                    /\ chain'[c].asks[other] = chain[c].asks[other]
    BY <1>1, <2>1, Rejecting
  <2>3. CalmChains'
    <3>1. ASSUME calm, chain'[c] # Absent PROVE Told(chain'[c], keys, agents, keysCache, "login")
      <4>1. Told(chain[c], keys, agents, keysCache, screen)
        BY <2>2, <3>1 DEF CalmInv, CalmChains
      <4>. QED
        BY <2>2, <3>1, <4>1 DEF Told
    <3>. QED
      BY <1>1, <2>1, <2>2, <3>1, AloneMoves DEF CalmInv
  <2>. QED
    BY <1>1, <2>1, <2>3 DEF CalmInv, FreshTables, SureBanner
<1>. QED
  BY <1>2, <1>3

LEMMA HalfKeepsCalm ==
    ASSUME BaseInv, CalmInv, NEW c \in Chain, NEW ask \in {"keys", "agents", "command"},
           Half(c, ask)
    PROVE  CalmInv'
<1>1. /\ UNCHANGED <<keys, agents, keysCache, agentsShown, screen, banner, calm, fresh, sure>>
      /\ chain[c] # Absent /\ chain[c].step = "refresh" /\ ChainOK(chain[c], passwords)
      /\ ask \in DOMAIN chain[c].asks /\ chain[c].asks[ask].status = "ok"
      /\ \A d \in Chain : d # c => chain'[d] = chain[d]
      /\ chain[c].rejected => chain'[c] = Absent
      /\ ~chain[c].rejected => /\ chain'[c] # Absent /\ ButFor(ask, chain'[c], chain[c])
                               /\ chain'[c].asks[ask].status = "held"
                               /\ chain'[c].asks[ask].body = chain[c].asks[ask].body
  BY HalfStep DEF Half, server, shown, history, BaseInv
<1>2. calm => Told(chain[c], keys, agents, keysCache, screen)
  BY <1>1 DEF CalmInv, CalmChains
<1>3. CalmChains'
  <2>1. calm /\ chain'[c] # Absent => Told(chain'[c], keys, agents, keysCache, screen)
    BY <1>1, <1>2 DEF Told, ButFor
  <2>. QED
    BY <1>1, <2>1, AloneMoves DEF CalmInv
<1>4. FreshTables'
  <2>1. \A d \in Chain : Done(chain[d]) => d # c
    BY <1>1 DEF Done, ChainOK
  <2>2. calm /\ screen = "app" => chain'[c] # Absent /\ chain'[c].step = "refresh"
    BY <1>1, <1>2 DEF Told, ButFor
  <2>. QED
    BY <1>1, <2>1, <2>2 DEF CalmInv, FreshTables, Displayed
<1>5. SureBanner'
  <2>1. \A d \in Chain : Done(chain[d]) => d # c
    BY <1>1 DEF Done, ChainOK
  <2>. QED
    BY <1>1, <2>1 DEF CalmInv, SureBanner, body
<1>. QED
  BY <1>1, <1>3, <1>4, <1>5 DEF CalmInv

\* What an answer rendered alone makes of the page.
LEMMA RenderedTables ==
    ASSUME BaseInv, renderAgents(Listing(agents), keys), keysCache' = keys,
           UNCHANGED <<keys, agents>>
    PROVE  Displayed'
<1>1. /\ Listing(agents) \in [AgentId -> Listed \cup {Absent}]
      /\ \A a \in AgentId : Listing(agents)[a] # Absent =>
            agents[a] # Absent /\ Listing(agents)[a].key = agents[a].key
  BY DEF BaseInv, TypeOK, Listing, Listed, Agent
<1>2. ASSUME NEW a \in AgentId
      PROVE  /\ agents[a] # Absent =>
                   /\ Listing(agents)[a] # Absent
                   /\ Listing(agents)[a].key = agents[a].key
                   /\ Listing(agents)[a].enabled = agents[a].enabled
             /\ agents[a] = Absent => Listing(agents)[a] = Absent
  <2>1. agents[a] # Absent => [key |-> agents[a].key, enabled |-> agents[a].enabled] \in Listed
    BY DEF BaseInv, TypeOK, Agent, Listed
  <2>. QED
    BY <2>1, AbsentAssumption DEF Listing
<1>3. \A a \in AgentId : Listing(agents)[a] # Absent => Listing(agents)[a].key \in keys
  BY <1>1 DEF BaseInv, Bound
<1>4. keys \in SUBSET KeyId
  BY DEF BaseInv, TypeOK
<1>. DEFINE listed == Listing(agents)
<1>. HIDE DEF listed
<1>5. agentsShown' = [a \in AgentId |->
          IF listed[a] = Absent THEN Absent
          ELSE [options |-> keys, key |-> listed[a].key, enabled |-> listed[a].enabled]]
  BY <1>1, <1>3, <1>4, RowsShown DEF listed
<1>6. agentsShown' = [a \in AgentId |->
          IF agents[a] = Absent THEN Absent
          ELSE [options |-> keys, key |-> agents[a].key, enabled |-> agents[a].enabled]]
  BY <1>2, <1>5 DEF listed
<1>. QED
  BY <1>6 DEF Displayed

LEMMA RefreshedKeepsCalm ==
    ASSUME BaseInv, CalmInv, NEW c \in Chain, NEW ask \in {"keys", "agents", "command"},
           Refreshed(c, ask)
    PROVE  CalmInv'
<1>1. /\ UNCHANGED <<keys, agents, screen, banner, calm, sure>> /\ fresh' = calm
      /\ keysCache' = body(c, "keys") /\ renderAgents(body(c, "agents"), body(c, "keys"))
      /\ chain[c] # Absent /\ DOMAIN chain[c].asks = {"keys", "agents"}
      /\ \A a \in {"keys", "agents"} : chain[c].asks[a].status \in {"ok", "held"}
      /\ chain'[c] = Absent /\ \A d \in Chain : d # c => chain'[d] = chain[d]
  BY RefreshedStep DEF Refreshed, server
<1>2. CalmChains'
  BY <1>1, AloneMoves DEF CalmInv
<1>3. FreshTables'
  <2>1. CASE calm
    <3>1. Told(chain[c], keys, agents, keysCache, screen)
      BY <1>1, <2>1 DEF CalmInv, CalmChains
    <3>2. body(c, "keys") = keys /\ body(c, "agents") = Listing(agents)
      BY <1>1, <3>1 DEF Told, body
    <3>3. Displayed'
      BY <1>1, <3>2, RenderedTables
    <3>. QED
      BY <3>3 DEF FreshTables
  <2>2. CASE ~calm
    BY <1>1, <2>2 DEF FreshTables
  <2>. QED
    BY <2>1, <2>2
<1>4. SureBanner'
  <2>1. \A d \in Chain : Done(chain[d]) => d # c
    BY <1>1 DEF Done
  <2>. QED
    BY <1>1, <2>1 DEF CalmInv, SureBanner, body
<1>. QED
  BY <1>1, <1>2, <1>3, <1>4 DEF CalmInv

LEMMA UnlockedKeysKeepsCalm ==
    ASSUME BaseInv, CalmInv, NEW c \in Chain, UnlockedKeys(c)
    PROVE  CalmInv'
<1>1. /\ UNCHANGED <<keys, agents, agentsShown, banner, calm, sure>> /\ fresh' = FALSE
      /\ keysCache' = body(c, "keys")
      /\ chain[c] # Absent /\ "keys" \in DOMAIN chain[c].asks /\ chain[c].step = "unlock"
      /\ chain[c].asks["keys"].status = "ok" /\ ChainOK(chain[c], passwords)
      /\ \A d \in Chain : d # c => chain'[d] = chain[d]
      /\ chain'[c] # Absent /\ chain'[c].step = "unlock" /\ ~chain'[c].rejected
      /\ DOMAIN chain'[c].asks = {"agents"} /\ chain'[c].asks["agents"].status = "sent"
  BY UnlockedKeysStep DEF UnlockedKeys, server, BaseInv
<1>2. CalmChains'
  <2>1. ASSUME calm PROVE Told(chain'[c], keys', agents', keysCache', screen')
    <3>1. Told(chain[c], keys, agents, keysCache, screen)
      BY <1>1, <2>1 DEF CalmInv, CalmChains
    <3>2. keysCache' = keys
      BY <1>1, <3>1 DEF Told, body
    <3>. QED
      BY <1>1, <3>2 DEF Told
  <2>. QED
    BY <1>1, <2>1, AloneMoves DEF CalmInv
<1>3. FreshTables'
  BY <1>1 DEF FreshTables
<1>4. SureBanner'
  <2>1. \A d \in Chain : Done(chain[d]) => d # c
    BY <1>1 DEF Done, ChainOK
  <2>. QED
    BY <1>1, <2>1 DEF CalmInv, SureBanner, body
<1>. QED
  BY <1>1, <1>2, <1>3, <1>4 DEF CalmInv

LEMMA UnlockedAgentsKeepsCalm ==
    ASSUME BaseInv, CalmInv, NEW c \in Chain, UnlockedAgents(c)
    PROVE  CalmInv'
<1>1. /\ UNCHANGED <<keys, agents, screen, keysCache, banner, calm, sure>> /\ fresh' = calm
      /\ renderAgents(body(c, "agents"), keysCache)
      /\ chain[c] # Absent /\ "agents" \in DOMAIN chain[c].asks /\ chain[c].step = "unlock"
      /\ chain[c].asks["agents"].status = "ok" /\ ChainOK(chain[c], passwords)
      /\ chain'[c] = Absent /\ \A d \in Chain : d # c => chain'[d] = chain[d]
  BY UnlockedAgentsStep DEF UnlockedAgents, server, BaseInv
<1>2. CalmChains'
  BY <1>1, AloneMoves DEF CalmInv
<1>3. FreshTables'
  <2>1. CASE calm
    <3>1. Told(chain[c], keys, agents, keysCache, screen)
      BY <1>1, <2>1 DEF CalmInv, CalmChains
    <3>2. keysCache = keys /\ body(c, "agents") = Listing(agents)
      BY <1>1, <3>1 DEF Told, body
    <3>3. Displayed'
      BY <1>1, <3>2, RenderedTables
    <3>. QED
      BY <3>3 DEF FreshTables
  <2>2. CASE ~calm
    BY <1>1, <2>2 DEF FreshTables
  <2>. QED
    BY <2>1, <2>2
<1>4. SureBanner'
  <2>1. \A d \in Chain : Done(chain[d]) => d # c
    BY <1>1 DEF Done, ChainOK
  <2>. QED
    BY <1>1, <2>1 DEF CalmInv, SureBanner, body
<1>. QED
  BY <1>1, <1>2, <1>3, <1>4 DEF CalmInv

LEMMA CommandDoneKeepsCalm ==
    ASSUME BaseInv, CalmInv, NEW c \in Chain, CommandDone(c)
    PROVE  CalmInv'
<1>1. /\ UNCHANGED <<keys, agents, screen, keysCache, agentsShown, calm, fresh>>
      /\ chain[c] # Absent /\ "command" \in DOMAIN chain[c].asks
      /\ chain[c].asks["command"].status = "ok"
      /\ \A d \in Chain : d # c => chain'[d] = chain[d]
      /\ chain'[c] # Absent /\ chain'[c].step = "refresh" /\ ~chain'[c].rejected
      /\ DOMAIN chain'[c].asks = {"keys", "agents"}
      /\ \A ask \in {"keys", "agents"} : chain'[c].asks[ask].status = "sent"
  BY CommandDoneStep DEF CommandDone, server
<1>2. CalmChains'
  <2>1. Told(chain'[c], keys', agents', keysCache', screen')
    BY <1>1 DEF Told
  <2>. QED
    BY <1>1, <2>1, AloneMoves DEF CalmInv
<1>3. FreshTables'
  BY <1>1 DEF FreshTables
<1>4. SureBanner' /\ (sure' => calm)
  <2>1. CASE body(c, "command") = Absent
    <3>1. UNCHANGED <<banner, sure>>
      BY <2>1 DEF CommandDone
    <3>2. \A d \in Chain : Done(chain[d]) /\ body(d, "command") # Absent =>
                              chain'[d] = chain[d]
      BY <1>1, <2>1
    <3>. QED
      BY <1>1, <3>1, <3>2 DEF CalmInv, SureBanner, body
  <2>2. CASE body(c, "command") # Absent
    <3>1. banner' = body(c, "command") /\ sure' = calm
      BY <2>2 DEF CommandDone
    <3>2. calm => Told(chain[c], keys, agents, keysCache, screen)
      BY <1>1 DEF CalmInv, CalmChains
    <3>3. calm => Opens(body(c, "command"), agents)
      BY <1>1, <2>2, <3>2 DEF Told, body
    <3>. QED
      BY <1>1, <3>1, <3>3 DEF SureBanner
  <2>. QED
    BY <2>1, <2>2
<1>. QED
  BY <1>1, <1>2, <1>3, <1>4 DEF CalmInv

LEMMA CalmStep == BaseInv /\ CalmInv /\ [Next]_vars => CalmInv'
<1>. SUFFICES ASSUME BaseInv, CalmInv, [Next]_vars PROVE CalmInv'
  OBVIOUS
<1>1. ASSUME NEW c \in Chain, NEW ask \in {"keys", "agents", "command"},
             \/ Serve(c, ask)
             \/ Unauthorized(c, ask) \/ Errored(c, ask)
             \/ Half(c, ask) \/ Refreshed(c, ask)
      PROVE  CalmInv'
  BY <1>1, ServeKeepsCalm, RejectionKeepsCalm, HalfKeepsCalm, RefreshedKeepsCalm
<1>2. ASSUME NEW c \in Chain,
             \/ \E val \in Password : unlock(c, val)
             \/ \E cmd \in Command : Press(c, cmd)
             \/ UnlockedKeys(c) \/ UnlockedAgents(c) \/ CommandDone(c)
      PROVE  CalmInv'
  BY <1>2, UnlockKeepsCalm, PressKeepsCalm, UnlockedKeysKeepsCalm, UnlockedAgentsKeepsCalm,
     CommandDoneKeepsCalm
<1>3. CASE Mishap
  BY <1>3 DEF Mishap, CalmInv, CalmChains, FreshTables, SureBanner
<1>4. CASE Lock
  BY <1>4 DEF Lock, lock, server, history, CalmInv, CalmChains, FreshTables, SureBanner, Told
<1>5. CASE Dismiss
  BY <1>5 DEF Dismiss, server, history, CalmInv, CalmChains, FreshTables, SureBanner, Displayed
<1>6. CASE UNCHANGED vars
  BY <1>6 DEF vars, server, shown, history, CalmInv, CalmChains, FreshTables, SureBanner,
              Displayed, body
<1>. QED
  BY <1>1, <1>2, <1>3, <1>4, <1>5, <1>6 DEF Next, Fail, Elsewhere, Restart

LEMMA CalmInvariance == Spec => [](BaseInv /\ CalmInv)
<1>1. Init => CalmInv
  BY DEF Init, CalmInv, CalmChains, FreshTables, SureBanner
<1>. QED
  BY <1>1, BaseInit, BaseStep, CalmStep, PTL DEF Spec

(***************************************************************************)
(* The tables shown are the server's once all answers are in, whichever    *)
(* half of a refresh came first, unless chains overlapped or something     *)
(* happened that the page does not know of (refresh, admin.ts 672-677).    *)
(***************************************************************************)
THEOREM TablesAreTheServers == Spec => []ShowsServer
<1>1. BaseInv /\ CalmInv => ShowsServer
  BY DEF CalmInv, FreshTables, Displayed, Done, Idle, ShowsServer
<1>. QED
  BY <1>1, CalmInvariance, PTL

(***************************************************************************)
(* The bearer shown is the one its agent has, through any number of        *)
(* rotations, deletions and refreshes, unless chains overlapped or answers *)
(* were lost (admin.ts 642-645, 654-670).                                  *)
(***************************************************************************)
THEOREM BannerIsTrue == Spec => []ShownBearerWorks
<1>1. BaseInv /\ CalmInv => ShownBearerWorks
  BY DEF CalmInv, SureBanner, Opens, Done, Idle, ShownBearerWorks
<1>. QED
  BY <1>1, CalmInvariance, PTL
=============================================================================
