------------------------------- MODULE Server -------------------------------
(***************************************************************************)
(* The server process of src/index.ts: what it decides from its            *)
(* environment when it starts, its two sockets, the checks before a        *)
(* request reaches a tool, and the token each request to Cloudflare is     *)
(* then given: AsyncLocalStorage of src/gateway/context.ts, looked into by *)
(* apiToken of src/cloudflare.ts.  The tools are those of ReadTools.  The  *)
(* gateway's agents do not change here (Gateway has them).                 *)
(***************************************************************************)
EXTENDS ReadTools, HttpGuards

CONSTANTS
    Requests,     \* who connects from where, with which headers
    BearerToken,  \* agents' bearers, each with its agent's Cloudflare token
    TakenPorts    \* ports other processes listen on

ASSUME ServerAssumption ==
    /\ \A b \in DOMAIN BearerToken : BearerToken[b] \in Token
    /\ \A e \in Env : e.CLOUDFLARE_API_TOKEN \in Token \cup {undefined}

\* A request that the middleware let through.
Admitted == [request : Requests,
             agent   : DOMAIN BearerToken \cup {Nothing},   \* res.locals.agent
             at      : {"admitted", "handled", "served"}]

ASSUME AdmittedAssumption == Nothing \notin Admitted

VARIABLES
    process,      \* "starting", "up" or "exited"
    admin, mcp,   \* the two sockets: "closed", "binding" or "listening"
    requests,     \* the last HTTP request of each client
    context       \* AsyncLocalStorage: the token bound to the chain of callbacks
                  \* that this request began

vars == <<toolVars, process, admin, mcp, requests, context>>

TypeOK == /\ ToolsTypeOK
          /\ process \in {"starting", "up", "exited"}
          /\ {admin, mcp} \subseteq {"closed", "binding", "listening"}
          /\ requests \in [Client -> Admitted \cup {Nothing}]
          /\ context \in [Client -> Token \cup {Nothing}]

Init == /\ ToolsInit
        /\ process = "starting"
        /\ admin = "closed" /\ mcp = "closed"
        /\ requests = [c \in Client |-> Nothing]
        /\ context = [c \in Client |-> Nothing]

-----------------------------------------------------------------------------
\* Starting.

gatewayEnabled == env.GATEWAY_ENABLE = "true"
HasAuthToken == env.MCP_AUTH_TOKEN \notin {undefined, <<>>}

\* main's own refusals.
MainRefuses ==
    \/ env.TRANSPORT = "stdio" /\ gatewayEnabled
    \/ ~gatewayEnabled /\ env.CLOUDFLARE_API_TOKEN = undefined

\* Mutation: an empty HOST is taken for an unset one.
BindGuardRefuses_EmptyHost ==
    /\ ~HasAuthToken /\ ~gatewayEnabled
    /\ env.HOST # <<>> /\ ~bindsLoopback(env.HOST)
    /\ env.ALLOW_UNAUTHENTICATED # "true"

BindGuardRefuses ==
    /\ ~HasAuthToken /\ ~gatewayEnabled
    /\ ~bindsLoopback(env.HOST)
    /\ env.ALLOW_UNAUTHENTICATED # "true"

Exit == /\ process' = "exited"
        /\ admin' = "closed" /\ mcp' = "closed"
        /\ calls' = [c \in Client |-> Nothing]
        /\ requests' = [c \in Client |-> Nothing]
        /\ context' = [c \in Client |-> Nothing]
        /\ UNCHANGED <<env, kind>>

\* Number.parseInt of something else; listen throws.
BadPort == env.PORT = "NaN" \/ (gatewayEnabled /\ env.ADMIN_PORT = "NaN")

\* In gateway mode also when there is no data directory or loadStore throws.
Refuse == /\ process = "starting"
          /\ \/ MainRefuses
             \/ env.TRANSPORT # "stdio" /\ (gatewayEnabled \/ BindGuardRefuses \/ BadPort)
          /\ Exit

StartStdio == /\ process = "starting"
              /\ ~MainRefuses /\ env.TRANSPORT = "stdio"
              /\ process' = "up"
              /\ UNCHANGED <<toolVars, admin, mcp, requests, context>>

\* Nothing in runHttp waits: both sockets are asked for in one step.
StartHttp == /\ process = "starting"
             /\ ~MainRefuses /\ env.TRANSPORT # "stdio"
             /\ gatewayEnabled => env.GATEWAY_DATA_DIR \notin {undefined, <<>>}
             /\ ~BindGuardRefuses /\ ~BadPort
             /\ process' = "up"
             /\ mcp' = "binding"
             /\ admin' = IF gatewayEnabled THEN "binding" ELSE "closed"
             /\ UNCHANGED <<toolVars, requests, context>>

\* Where app.listen binds for this HOST, if it can.
Interface(host) ==
    IF host \in {undefined} \cup LOCAL_HOSTNAMES THEN {"loopback"}
    ELSE IF trimmed(host) # host \/ (host # <<>> /\ host[1] = "[") THEN {}
    ELSE {"all"}

AdminListens == /\ admin = "binding"
                /\ env.ADMIN_PORT \notin TakenPorts
                /\ mcp = "listening" => env.PORT # env.ADMIN_PORT
                /\ admin' = "listening"
                /\ UNCHANGED <<toolVars, process, mcp, requests, context>>

McpListens == /\ mcp = "binding"
              /\ Interface(env.HOST) # {} /\ env.PORT \notin TakenPorts
              /\ admin = "listening" => env.PORT # env.ADMIN_PORT
              /\ mcp' = "listening"
              /\ UNCHANGED <<toolVars, process, admin, requests, context>>

\* Mutation: the admin server's error is only logged.
ListenFails_McpOnly == mcp = "binding" /\ Exit

\* The error event of either socket: the port is taken, the address unknown.
ListenFails == (admin = "binding" \/ mcp = "binding") /\ Exit

-----------------------------------------------------------------------------
\* A POST to /mcp.

Reaches(request) ==
    /\ mcp = "listening"
    /\ request.from = "elsewhere" => "all" \in Interface(env.HOST)

\* findAgentByBearer of the bearer presented.
FoundAgents(request) == extractBearer(request.authorization) \cap DOMAIN BearerToken

\* A request that does not get past is answered 403 or 401; nothing changes.
FrontDoor(request) ==
    /\ originPasses(request.origin, env.ALLOWED_ORIGINS)
    /\ IF gatewayEnabled
       THEN FoundAgents(request) # {}
       ELSE HasAuthToken =>
              request.authorization = <<"Bearer", "blank">> \o env.MCP_AUTH_TOKEN

\* The client's next request passes the middleware, which keeps the agent in
\* res.locals.  It is a chain of callbacks of its own, with no context yet.
Post(c, request) ==
    /\ calls[c] = Nothing \/ At(c, "done")
    /\ requests[c] # Nothing => requests[c].at = "served"
    /\ Reaches(request) /\ FrontDoor(request)
    /\ \E agent \in IF gatewayEnabled THEN FoundAgents(request) ELSE {Nothing} :
          requests' = [requests EXCEPT ![c] =
              [request |-> request, agent |-> agent, at |-> "admitted"]]
    /\ context' = [context EXCEPT ![c] = Nothing]
    /\ UNCHANGED <<toolVars, process, admin, mcp>>

\* Mutation: the token is kept in a variable of the module.
runWithToken_Module(c, token) == context' = [d \in Client |-> token]

runWithToken(c, token) == context' = [context EXCEPT ![c] = token]

\* The body is there and getSecret has answered with the agent's token.
HandleRequest(c) ==
    /\ requests[c] # Nothing /\ requests[c].at = "admitted"
    /\ requests' = [requests EXCEPT ![c].at = "handled"]
    /\ IF gatewayEnabled
       THEN runWithToken(c, BearerToken[requests[c].agent])
       ELSE UNCHANGED context
    /\ UNCHANGED <<toolVars, process, admin, mcp>>

\* It was no good body, the agent's secret is not to be had, or the message
\* calls no tool.
NoCall(c) ==
    /\ requests[c] # Nothing /\ requests[c].at # "served"
    /\ requests' = [requests EXCEPT ![c] = Nothing]
    /\ UNCHANGED <<toolVars, process, admin, mcp, context>>

\* The token of a request that c's chain sends now: the one of the context,
\* or that of the process; Nothing where apiToken throws.
apiToken(c) ==
    IF gatewayEnabled THEN context[c]
    ELSE IF env.CLOUDFLARE_API_TOKEN = undefined THEN Nothing
    ELSE env.CLOUDFLARE_API_TOKEN

\* The transport hands the message to the tool it calls.
CallTool(c) ==
    /\ requests[c] # Nothing /\ requests[c].at = "handled"
    /\ \E asked \in Asked : Invoke(c, asked, apiToken(c))
    /\ requests' = [requests EXCEPT ![c].at = "served"]
    /\ UNCHANGED <<process, admin, mcp, context>>

\* A message on standard input, from the process that launched this one.
OverStdio(c) ==
    /\ process = "up" /\ env.TRANSPORT = "stdio"
    /\ \E asked \in Asked : Invoke(c, asked, apiToken(c))
    /\ UNCHANGED <<process, admin, mcp, requests, context>>

Work(c) == ToolsNext(c, apiToken(c)) /\ UNCHANGED <<process, admin, mcp, requests, context>>

Next == \/ Refuse \/ StartStdio \/ StartHttp
        \/ AdminListens \/ McpListens \/ ListenFails
        \/ \E c \in Client :
              \/ \E request \in Requests : Post(c, request)
              \/ HandleRequest(c)
              \/ NoCall(c)
              \/ CallTool(c)
              \/ OverStdio(c)
              \/ Work(c)
        \/ \E token \in Token :
              Revoke(token) /\ UNCHANGED <<process, admin, mcp, requests, context>>

\* The start runs by itself, a socket reports how listening went, and the
\* timer of a request goes off.
Fairness == /\ WF_vars(Refuse \/ StartStdio \/ StartHttp)
            /\ WF_vars(AdminListens \/ ListenFails)
            /\ WF_vars(McpListens \/ ListenFails)
            /\ \A c \in Client :
                  WF_vars(/\ Timeout(c, apiToken(c))
                          /\ UNCHANGED <<process, admin, mcp, requests, context>>)

Spec == Init /\ [][Next]_vars /\ Fairness

-----------------------------------------------------------------------------

(***************************************************************************)
(* However the server was configured, no page of another origin gets to    *)
(* the tools unless that is listed (an empty Origin is no page's), no one  *)
(* without an agent's bearer in gateway mode, and without it no one from   *)
(* another machine who has not the token, except where                     *)
(* ALLOW_UNAUTHENTICATED is exactly "true" (index.ts 130-160, 237-261).    *)
(***************************************************************************)
OpenOnlyAsTold ==
    \A c \in Client : requests[c] # Nothing =>
        LET request == requests[c].request
            HasBearer == \E b \in DOMAIN BearerToken : b \in extractBearer(request.authorization)
            HasToken == /\ env.MCP_AUTH_TOKEN \notin {undefined, <<>>}
                        /\ request.authorization = <<"Bearer", "blank">> \o env.MCP_AUTH_TOKEN
        IN  /\ \/ request.origin \in {undefined, <<>>} \cup parseEnvAllowlist(env.ALLOWED_ORIGINS)
               \/ originIsLocal(request.origin)
            /\ env.GATEWAY_ENABLE = "true" => HasBearer
            /\ env.GATEWAY_ENABLE # "true" /\ request.from = "elsewhere" =>
                  HasToken \/ env.ALLOW_UNAUTHENTICATED = "true"

Served(c) == requests[c] # Nothing /\ requests[c].at = "served"

(***************************************************************************)
(* In gateway mode whatever a tool sends to Cloudflare, at first and after *)
(* any wait, carries the token of the agent whose bearer opened the        *)
(* request, however the requests of several agents are interleaved and     *)
(* whatever the process has in its environment: the context is bound to    *)
(* the one request (context.ts 28-48), so that apiToken neither finds      *)
(* another's token nor has to throw (cloudflare.ts 97-108).                *)
(***************************************************************************)
RightToken ==
    \A c \in Client :
        env.GATEWAY_ENABLE = "true" /\ Served(c) /\ Allowed(calls[c].asked) =>
            \A b \in extractBearer(requests[c].request.authorization) :
                calls[c].token = BearerToken[b]

(***************************************************************************)
(* The server either exits or listens on every socket it should: /mcp, in  *)
(* gateway mode the panel too, never the one without the other for long    *)
(* (index.ts 115-122, 263-274; admin.ts 457-468).                          *)
(***************************************************************************)
StartsOrExits ==
    <>[](\/ process = "exited"
         \/ env.TRANSPORT = "stdio" /\ env.GATEWAY_ENABLE # "true"
         \/ mcp = "listening" /\ (env.GATEWAY_ENABLE = "true" => admin = "listening"))

(***************************************************************************)
(* Every call ends, whatever the network and Cloudflare do: the timeout    *)
(* covers the headers and the body of each request (cloudflare.ts          *)
(* 211-225, 263-274).                                                      *)
(***************************************************************************)
CallsEnd ==
    \A c \in Client :
        calls[c] # Nothing ~> calls[c] = Nothing \/ calls[c].at = "done"
=============================================================================
