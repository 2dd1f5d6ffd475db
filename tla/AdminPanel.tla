----------------------------- MODULE AdminPanel -----------------------------
(***************************************************************************)
(* The script of the admin page (ADMIN_HTML of src/gateway/admin.ts) in    *)
(* one browser tab: its promise chains, whose requests are served, and     *)
(* whose answers come back, late, in any order or not at all, while the    *)
(* user goes on pressing buttons, another admin changes the tables and the *)
(* server is restarted with another password.                              *)
(***************************************************************************)
EXTENDS Naturals

CONSTANTS
    KeyId, AgentId,   \* ids the server can draw
    Bearer,           \* bearers the server can draw
    Password,         \* values typed, and values of ADMIN_PASSWORD
    Chain,            \* promise chains under way at a time
    MaxPresses,       \* bound: unlocks and presses of buttons
    MaxMishaps,       \* bound: failures, restarts, changes made elsewhere
    Absent            \* null, no row, no banner, no chain

VARIABLES
    keys, agents,              \* the server's tables
    password,                  \* its ADMIN_PASSWORD
    drawn,                     \* ids and bearers drawn so far
    pw,                        \* the page's pw
    screen,                    \* the section shown
    keysCache, agentsShown,    \* the tables shown
    banner,                    \* the one-time bearer shown
    chain,                     \* the promise chains
    passwords, calm, fresh, sure,  \* history
    presses, mishaps               \* what the bounds count

server == <<keys, agents, password, drawn>>
shown == <<pw, screen, keysCache, agentsShown, banner>>
bounds == <<presses, mishaps>>
history == <<passwords, calm, fresh, sure, bounds>>
vars == <<server, shown, chain, history>>

Agent == [key : KeyId, enabled : BOOLEAN, bearer : Bearer]

\* An agent in the answer of GET /api/agents, and the row that shows it: its
\* list of keys and the option selected there.
Listed == [key : KeyId, enabled : BOOLEAN]
Row == [options : SUBSET KeyId, key : KeyId \cup {Absent}, enabled : BOOLEAN]

Command == [do : {"addKey"}]
      \cup [do : {"deleteKey", "createAgent"}, key : KeyId]
      \cup [do : {"rebind"}, agent : AgentId, key : KeyId]
      \cup [do : {"enable", "disable", "rotate", "deleteAgent"}, agent : AgentId]

\* A one-time bearer and whose it is.
Minted == [agent : AgentId, bearer : Bearer]

\* What an answer that came through carries.
Body == [keys    |-> SUBSET KeyId,
         agents  |-> [AgentId -> Listed \cup {Absent}],
         command |-> Minted \cup {Absent}]

\* The state of one fetch: under way, answered, or its answer waiting for the
\* other half of a Promise.all.
Answer(ask) == [status : {"sent", "error", "unauthorized"}, body : {Absent}]
          \cup [status : {"ok", "held"}, body : Body[ask]]

\* A promise chain and the requests it waits for.
Asks == [keys : Answer("keys")] \cup [agents : Answer("agents")]
   \cup [keys : Answer("keys"), agents : Answer("agents")] \cup [command : Answer("command")]

ChainRecord == [step : {"unlock", "command", "refresh"}, auth : Password \cup {Absent},
                command : Command \cup {Absent}, rejected : BOOLEAN, asks : Asks]

ASSUME AbsentAssumption ==
    /\ Absent \notin KeyId /\ Absent \notin Bearer /\ Absent \notin Password
    /\ Absent \notin Agent /\ Absent \notin Listed /\ Absent \notin Row
    /\ Absent \notin Command /\ Absent \notin Minted /\ Absent \notin ChainRecord

ASSUME BoundsAssumption == MaxPresses \in Nat /\ MaxMishaps \in Nat

Idle == \A c \in Chain : chain[c] = Absent

(***************************************************************************)
(* The shape of every variable.                                            *)
(***************************************************************************)
TypeOK == /\ keys \subseteq KeyId
          /\ agents \in [AgentId -> Agent \cup {Absent}]
          /\ password \in Password
          /\ drawn \subseteq KeyId \cup AgentId \cup Bearer
          /\ pw \in Password \cup {Absent}
          /\ screen \in {"login", "app"}
          /\ keysCache \subseteq KeyId
          /\ agentsShown \in [AgentId -> Row \cup {Absent}]
          /\ banner \in Minted \cup {Absent}
          /\ passwords \subseteq Password
          /\ calm \in BOOLEAN /\ fresh \in BOOLEAN /\ sure \in BOOLEAN
          /\ presses \in 0..MaxPresses /\ mishaps \in 0..MaxMishaps
          /\ chain \in [Chain -> ChainRecord \cup {Absent}]

Init == /\ keys \in SUBSET KeyId
        /\ agents \in [AgentId -> [key : keys, enabled : BOOLEAN, bearer : Bearer]
                                  \cup {Absent}]
        /\ \A a, b \in AgentId :
              a # b /\ agents[a] # Absent /\ agents[b] # Absent
                  => agents[a].bearer # agents[b].bearer
        /\ drawn = LET listed == {a \in AgentId : agents[a] # Absent}
                   IN  keys \cup listed \cup {agents[a].bearer : a \in listed}
        /\ password \in Password /\ passwords = {password}
        /\ pw = Absent /\ screen = "login"
        /\ keysCache = {} /\ agentsShown = [a \in AgentId |-> Absent]
        /\ banner = Absent
        /\ chain = [c \in Chain |-> Absent]
        /\ calm = FALSE /\ fresh = FALSE /\ sure = FALSE
        /\ presses = 0 /\ mishaps = 0

-----------------------------------------------------------------------------
\* The server: what an endpoint does, and what it answers.

Draw(x) == x \notin drawn /\ drawn' = drawn \cup {x}

SetAgent(a, agent) == agents' = [agents EXCEPT ![a] = agent]

\* Mutation: the button sends "toggle" and the server flips the flag.
SetEnabled_Flips(cmd) ==
    /\ cmd.do \in {"enable", "disable"} /\ agents[cmd.agent] # Absent
    /\ SetAgent(cmd.agent, [agents[cmd.agent] EXCEPT !.enabled = ~@])

SetEnabled(cmd) ==
    /\ cmd.do \in {"enable", "disable"} /\ agents[cmd.agent] # Absent
    /\ SetAgent(cmd.agent, [agents[cmd.agent] EXCEPT !.enabled = cmd.do = "enable"])

Effect(cmd, body) ==
    \/ /\ cmd.do = "addKey" /\ body = Absent
       /\ \E k \in KeyId : Draw(k) /\ keys' = keys \cup {k}
       /\ UNCHANGED agents
    \/ /\ cmd.do = "deleteKey" /\ body = Absent
       /\ cmd.key \in keys
       /\ \A a \in AgentId : agents[a] # Absent => agents[a].key # cmd.key
       /\ keys' = keys \ {cmd.key}
       /\ UNCHANGED <<agents, drawn>>
    \/ /\ cmd.do = "createAgent" /\ cmd.key \in keys
       /\ \E a \in AgentId, b \in Bearer :
             /\ {a, b} \cap drawn = {} /\ drawn' = drawn \cup {a, b}
             /\ SetAgent(a, [key |-> cmd.key, enabled |-> TRUE, bearer |-> b])
             /\ body = [agent |-> a, bearer |-> b]
       /\ UNCHANGED keys
    \/ /\ cmd.do = "rebind" /\ body = Absent
       /\ cmd.key \in keys /\ agents[cmd.agent] # Absent
       /\ SetAgent(cmd.agent, [agents[cmd.agent] EXCEPT !.key = cmd.key])
       /\ UNCHANGED <<keys, drawn>>
    \/ /\ SetEnabled(cmd) /\ body = Absent
       /\ UNCHANGED <<keys, drawn>>
    \/ /\ cmd.do = "rotate" /\ agents[cmd.agent] # Absent
       /\ \E b \in Bearer :
             /\ Draw(b)
             /\ SetAgent(cmd.agent, [agents[cmd.agent] EXCEPT !.bearer = b])
             /\ body = [agent |-> cmd.agent, bearer |-> b]
       /\ UNCHANGED keys
    \/ /\ cmd.do = "deleteAgent" /\ agents[cmd.agent] # Absent /\ body = Absent
       /\ SetAgent(cmd.agent, Absent)
       /\ UNCHANGED <<keys, drawn>>

listAgents == [a \in AgentId |-> IF agents[a] = Absent THEN Absent
                                 ELSE [key |-> agents[a].key, enabled |-> agents[a].enabled]]

Answered(c, ask, status, body) ==
    chain' = [chain EXCEPT ![c].asks[ask] = [status |-> status, body |-> body]]

Waiting(c, ask, statuses) ==
    /\ chain[c] # Absent
    /\ ask \in DOMAIN chain[c].asks
    /\ chain[c].asks[ask].status \in statuses

Serve(c, ask) ==
    /\ Waiting(c, ask, {"sent"})
    /\ UNCHANGED <<password, shown, history>>
    /\ \/ /\ chain[c].auth # password
          /\ Answered(c, ask, "unauthorized", Absent)
          /\ UNCHANGED server
       \/ /\ chain[c].auth = password /\ ask = "keys"
          /\ Answered(c, ask, "ok", keys)
          /\ UNCHANGED server
       \/ /\ chain[c].auth = password /\ ask = "agents"
          /\ Answered(c, ask, "ok", listAgents)
          /\ UNCHANGED server
       \/ /\ chain[c].auth = password /\ ask = "command"
          /\ \E body \in Minted \cup {Absent} :
                /\ Effect(chain[c].command, body)
                /\ Answered(c, ask, "ok", body)

\* Something the page does not know of.
Mishap ==
    /\ mishaps < MaxMishaps /\ mishaps' = mishaps + 1
    /\ calm' = FALSE /\ fresh' = FALSE /\ sure' = FALSE
    /\ UNCHANGED presses

\* A refusal (404, 409, 500) or a failing connection, before or after the
\* request was served.
Fail(c, ask) ==
    /\ Waiting(c, ask, {"sent", "ok"})
    /\ Answered(c, ask, "error", Absent)
    /\ Mishap
    /\ UNCHANGED <<server, shown, passwords>>

Elsewhere ==
    /\ \E cmd \in Command, body \in Minted \cup {Absent} : Effect(cmd, body)
    /\ Mishap
    /\ UNCHANGED <<password, shown, chain, passwords>>

Restart(p) ==
    /\ password' = p
    /\ passwords' = passwords \cup {p}
    /\ Mishap
    /\ UNCHANGED <<keys, agents, drawn, shown, chain>>

-----------------------------------------------------------------------------
\* The page.

Send(step, auth, cmd, asks) ==
    [step |-> step, auth |-> auth, command |-> cmd, rejected |-> FALSE,
     asks |-> [ask \in asks |-> [status |-> "sent", body |-> Absent]]]

\* A chain that begins while another is under way may pass it.
Begin(c, sent) ==
    /\ chain[c] = Absent
    /\ chain' = [chain EXCEPT ![c] = sent]
    /\ calm' = Idle
    /\ fresh' = (fresh /\ Idle)
    /\ sure' = (sure /\ Idle)
    /\ presses < MaxPresses /\ presses' = presses + 1
    /\ UNCHANGED <<passwords, mishaps>>

\* Mutation: only the sections are switched.
lock_KeepsPassword ==
    screen' = "login" /\ banner' = Absent /\ UNCHANGED pw

lock == pw' = Absent /\ screen' = "login" /\ banner' = Absent

Lock ==
    /\ screen = "app"
    /\ lock
    /\ UNCHANGED <<server, keysCache, agentsShown, chain, history>>

unlock(c, val) ==
    /\ screen = "login"
    /\ pw' = val
    /\ Begin(c, Send("unlock", val, Absent, {"keys"}))
    /\ UNCHANGED <<server, screen, keysCache, agentsShown, banner>>

Dismiss ==
    /\ banner # Absent /\ screen = "app"
    /\ banner' = Absent
    /\ UNCHANGED <<server, pw, screen, keysCache, agentsShown, chain, history>>

Buttons ==
    LET row(a) == agentsShown[a]
        listed == {a \in AgentId : row(a) # Absent}
    IN  {cmd \in Command :
            /\ cmd.do \in {"deleteKey", "createAgent"} => cmd.key \in keysCache
            /\ cmd.do \in {"rebind", "enable", "disable", "rotate", "deleteAgent"} =>
                  cmd.agent \in listed
            /\ cmd.do = "rebind" => /\ cmd.key \in row(cmd.agent).options
                                   /\ cmd.key # row(cmd.agent).key
            /\ cmd.do = "enable" => ~row(cmd.agent).enabled
            /\ cmd.do = "disable" => row(cmd.agent).enabled}

Press(c, cmd) ==
    /\ screen = "app"
    /\ cmd \in Buttons
    /\ Begin(c, Send("command", pw, cmd, {"command"}))
    /\ UNCHANGED <<server, shown>>

\* An agent whose key is not in keysCache shows the first key as selected.
renderAgents(listed, cache) ==
    \E first \in IF cache = {} THEN {Absent} ELSE cache :
        agentsShown' = [a \in AgentId |->
            IF listed[a] = Absent THEN Absent
            ELSE [options |-> cache, enabled |-> listed[a].enabled,
                  key |-> IF listed[a].key \in cache THEN listed[a].key ELSE first]]

\* The chain is rejected; what else it asked for is still on its way.
Reject(c, ask) ==
    LET left == {a \in DOMAIN chain[c].asks \ {ask} : chain[c].asks[a].status # "held"}
    IN  chain' = [chain EXCEPT ![c] =
                     IF left = {} THEN Absent
                     ELSE [@ EXCEPT !.asks = [a \in left |-> chain[c].asks[a]], !.rejected = TRUE]]

Unauthorized(c, ask) ==
    /\ Waiting(c, ask, {"unauthorized"})
    /\ lock
    /\ Reject(c, ask)
    /\ UNCHANGED <<server, keysCache, agentsShown, history>>

Errored(c, ask) ==
    /\ Waiting(c, ask, {"error"})
    /\ Reject(c, ask)
    /\ pw' = IF chain[c].step = "unlock" THEN Absent ELSE pw
    /\ UNCHANGED <<server, screen, keysCache, agentsShown, banner, history>>

body(c, ask) == chain[c].asks[ask].body

\* The chain goes on with what it sends next, or ends.
Continue(c, next) == chain' = [chain EXCEPT ![c] = next]

UnlockedKeys(c) ==
    /\ Waiting(c, "keys", {"ok"}) /\ chain[c].step = "unlock"
    /\ screen' = "app"
    /\ keysCache' = body(c, "keys")
    /\ Continue(c, Send("unlock", pw, Absent, {"agents"}))
    /\ fresh' = FALSE
    /\ UNCHANGED <<server, pw, agentsShown, banner, passwords, calm, sure, bounds>>

UnlockedAgents(c) ==
    /\ Waiting(c, "agents", {"ok"}) /\ chain[c].step = "unlock"
    /\ renderAgents(body(c, "agents"), keysCache)
    /\ Continue(c, Absent)
    /\ fresh' = calm
    /\ UNCHANGED <<server, pw, screen, keysCache, banner, passwords, calm, sure, bounds>>

\* Mutation: a banner that is still there is left alone.
CommandDone_KeepsFirst(c) ==
    /\ Waiting(c, "command", {"ok"})
    /\ IF body(c, "command") = Absent \/ banner # Absent THEN UNCHANGED <<banner, sure>>
       ELSE banner' = body(c, "command") /\ sure' = calm
    /\ Continue(c, Send("refresh", pw, Absent, {"keys", "agents"}))
    /\ UNCHANGED <<server, pw, screen, keysCache, agentsShown, passwords, calm, fresh, bounds>>

\* showBearer and refresh.
CommandDone(c) ==
    /\ Waiting(c, "command", {"ok"})
    /\ IF body(c, "command") = Absent THEN UNCHANGED <<banner, sure>>
       ELSE banner' = body(c, "command") /\ sure' = calm
    /\ Continue(c, Send("refresh", pw, Absent, {"keys", "agents"}))
    /\ UNCHANGED <<server, pw, screen, keysCache, agentsShown, passwords, calm, fresh, bounds>>

\* Half of the Promise.all of refresh, nothing shown yet.
Half(c, ask) ==
    /\ Waiting(c, ask, {"ok"}) /\ chain[c].step = "refresh"
    /\ IF chain[c].rejected THEN Reject(c, ask)
       ELSE /\ \E other \in DOMAIN chain[c].asks \ {ask} :
                  chain[c].asks[other].status # "held"
            /\ Answered(c, ask, "held", body(c, ask))
    /\ UNCHANGED <<server, shown, history>>

\* Mutation: the agents are rendered before the keys they refer to.
Refreshed_AgentsFirst(c, ask) ==
    /\ Waiting(c, ask, {"ok"}) /\ chain[c].step = "refresh"
    /\ \E other \in DOMAIN chain[c].asks \ {ask} : chain[c].asks[other].status = "held"
    /\ keysCache' = body(c, "keys")
    /\ renderAgents(body(c, "agents"), keysCache)
    /\ Continue(c, Absent)
    /\ fresh' = calm
    /\ UNCHANGED <<server, pw, screen, banner, passwords, calm, sure, bounds>>

\* The other half: the keys are rendered, then the agents.
Refreshed(c, ask) ==
    /\ Waiting(c, ask, {"ok"}) /\ chain[c].step = "refresh"
    /\ \E other \in DOMAIN chain[c].asks \ {ask} : chain[c].asks[other].status = "held"
    /\ keysCache' = body(c, "keys")
    /\ renderAgents(body(c, "agents"), body(c, "keys"))
    /\ Continue(c, Absent)
    /\ fresh' = calm
    /\ UNCHANGED <<server, pw, screen, banner, passwords, calm, sure, bounds>>

Next ==
    \/ \E c \in Chain :
        \/ \E val \in Password : unlock(c, val)
        \/ \E cmd \in Command : Press(c, cmd)
        \/ \E ask \in {"keys", "agents", "command"} :
              \/ Serve(c, ask) \/ Fail(c, ask)
              \/ Unauthorized(c, ask) \/ Errored(c, ask)
              \/ Half(c, ask) \/ Refreshed(c, ask)
        \/ UnlockedKeys(c) \/ UnlockedAgents(c) \/ CommandDone(c)
    \/ Lock \/ Dismiss
    \/ Elsewhere
    \/ \E p \in Password : Restart(p)

Spec == Init /\ [][Next]_vars

-----------------------------------------------------------------------------

(***************************************************************************)
(* Whatever overlaps, and whichever answers come late: unless a password   *)
(* is being tried, the login form means that the page has forgotten it,    *)
(* and the app that no wrong password is in use (admin.ts 679-691).        *)
(***************************************************************************)
UnlockSettles ==
    (\A c \in Chain : chain[c] # Absent => chain[c].step # "unlock") =>
        /\ screen = "login" => pw = Absent
        /\ screen = "app" => pw \in passwords \cup {Absent}

(***************************************************************************)
(* Once all answers are in, the tables shown are the server's, each agent  *)
(* with its key selected, provided the last chain that rendered them ran   *)
(* alone and nothing happened since that the page does not know of         *)
(* (refresh, admin.ts 672-677).                                            *)
(***************************************************************************)
ShowsServer ==
    Idle /\ fresh /\ screen = "app" =>
        /\ keysCache = keys
        /\ agentsShown = [a \in AgentId |->
              IF agents[a] = Absent THEN Absent
              ELSE [options |-> keys, key |-> agents[a].key, enabled |-> agents[a].enabled]]

(***************************************************************************)
(* The bearer in the banner opens the agent it is shown for, unless the    *)
(* agent was deleted: no rotation leaves a dead bearer standing there, but *)
(* for chains that overlapped or answers that were lost (admin.ts 642-645, *)
(* 654-670).                                                               *)
(***************************************************************************)
ShownBearerWorks ==
    Idle /\ sure /\ banner # Absent /\ agents[banner.agent] # Absent =>
        agents[banner.agent].bearer = banner.bearer

(***************************************************************************)
(* Buttons say what they want, not what to change: Disable pressed twice,  *)
(* or on a table that is out of date, never enables (admin.ts 641).        *)
(***************************************************************************)
OnlyEnableEnables ==
    [][\A a \in AgentId :
         /\ agents[a] # Absent /\ agents'[a] # Absent /\ chain' # chain
         /\ ~agents[a].enabled /\ agents'[a].enabled
         => \E c \in Chain : /\ chain[c] # Absent
                             /\ chain[c].command = [do |-> "enable", agent |-> a]]_vars
=============================================================================
