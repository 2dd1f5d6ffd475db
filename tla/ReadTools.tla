----------------------------- MODULE ReadTools -----------------------------
(***************************************************************************)
(* The tools that only read, and the passthrough (src/tools.ts:            *)
(* cloudflare_verify_token, _list_zones and _list_dns_records,             *)
(* _export_zone, _api_request), each a call of one client that waits for   *)
(* Cloudflare.  What answers may be Cloudflare or something on the way;    *)
(* tokens are revoked while calls wait.                                    *)
(***************************************************************************)
EXTENDS CloudflareClient

CONSTANTS
    Client,       \* those who call tools, one call at a time each
    Token,        \* Cloudflare API tokens
    Zones,        \* the number of zones a token sees
    PerPage,      \* values of per_page clients ask for
    MaxPerPage,   \* the most Cloudflare puts on a page
    Env,          \* environments the server is started in
    Interference, \* replies of what stands between the server and Cloudflare
    Nothing       \* no call, no token

ASSUME ReadToolsAssumption == /\ Zones \in Nat /\ MaxPerPage \in Nat \ {0}
                              /\ Nothing \notin Token
                              /\ PerPage \subseteq Nat \ {0}
                              /\ Interference \subseteq
                                    [status : Status, body : Body \ {"success", "failure"}]

VARIABLES
    env,          \* process.env
    kind,         \* what Cloudflare holds each token for
    calls         \* the last call of each client

toolVars == <<env, kind, calls>>

Asked == [tool : {"verify_token", "export_zone"}]
         \cup [tool : {"list_zones"}, page : 1..(Zones + 1), per_page : PerPage]
         \cup [tool : {"api_request"}, method : {"GET", "HEAD", "POST"}, confirm : BOOLEAN]

Call == [asked   : Asked,
         token   : Token \cup {Nothing},      \* of the request sent last
         at      : {"sent", "handled", "body", "done"},
         probe   : BOOLEAN,                   \* verify_token's second request
         verify  : Outcome,                   \* the outcome of its first
         reply   : Reply,
         result  : Outcome,
         seen    : SUBSET (1..Zones),         \* zones of the pages read one after the other
         granted : BOOLEAN,                   \* Cloudflare did what was asked
         disturbed : BOOLEAN]                 \* something on the way answered, or nothing did

ToolsTypeOK == /\ env \in Env
               /\ kind \in [Token -> {"user", "account", "unusable"}]
               /\ calls \in [Client -> Call \cup {Nothing}]

ToolsInit == /\ env \in Env
             /\ kind \in [Token -> {"user", "account"}]
             /\ calls = [c \in Client |-> Nothing]

At(c, step) == calls[c] # Nothing /\ calls[c].at = step
IsWrite(asked) == asked.tool = "api_request" /\ asked.method = "POST"

-----------------------------------------------------------------------------
\* What is decided before anything is sent.

\* Mutation: blanks around the value do not count.
resolvePassthroughMode_Trimmed(raw) ==
    CASE raw = "off" -> "off" [] raw \in {"full", " full"} -> "full" [] OTHER -> "read"

resolvePassthroughMode(raw) ==
    CASE raw = "off" -> "off" [] raw = "full" -> "full" [] OTHER -> "read"

PassthroughAllows(asked) ==
    LET mode == resolvePassthroughMode(env.CLOUDFLARE_API_PASSTHROUGH)
    IN  /\ mode # "off"
        /\ IsWrite(asked) => mode = "full" /\ asked.confirm

\* Before and after a reply is looked at.
NoReply == [status |-> 500, body |-> "empty"]

Allowed(asked) == asked.tool = "api_request" => PassthroughAllows(asked)

-----------------------------------------------------------------------------
\* The pages of a list.

ResultInfo(asked) ==
    [page |-> asked.page,
     per_page |-> IF asked.per_page < MaxPerPage THEN asked.per_page ELSE MaxPerPage,
     total_count |-> Zones]

OnPage(info) ==
    {zone \in 1..Zones : (info.page - 1) * info.per_page < zone
                         /\ zone <= info.page * info.per_page}

\* Mutation: pages are counted in the size that was asked for.
hasMore_AsAsked(asked) == asked.page * asked.per_page < ResultInfo(asked).total_count

hasMore(asked) == LET result_info == ResultInfo(asked)
                  IN  result_info.page * result_info.per_page < result_info.total_count

\* A list read from its first page on, as long as there is more.
Continues(c, asked) ==
    /\ At(c, "done") /\ calls[c].asked.tool = "list_zones"
    /\ calls[c].result.ok /\ hasMore(calls[c].asked)
    /\ asked = [calls[c].asked EXCEPT !.page = @ + 1]

\* The handler of a tool begins.  Without a token its first request is not
\* sent: apiToken throws.
Invoke(c, asked, token) ==
    /\ calls[c] = Nothing \/ At(c, "done")
    /\ asked.tool = "list_zones" => asked.page = 1 \/ Continues(c, asked)
    /\ calls' = [calls EXCEPT ![c] =
           [asked |-> asked, token |-> token,
            at |-> IF Allowed(asked) /\ token # Nothing THEN "sent" ELSE "done",
            probe |-> FALSE, verify |-> NoAnswer,
            reply |-> NoReply, result |-> NoAnswer,
            seen |-> IF asked.tool = "list_zones" /\ asked.page > 1 THEN calls[c].seen ELSE {},
            granted |-> FALSE, disturbed |-> FALSE]]
    /\ UNCHANGED <<env, kind>>

-----------------------------------------------------------------------------
\* Cloudflare, and the way to it.

Failure(status) == [status |-> status, body |-> "failure"]

\* What Cloudflare answers when it does what is asked: to api_request
\* whatever the endpoint is for, also a script or a file that only looks like
\* JSON at its beginning.
Granted(call) ==
    [status : {200},
     body : CASE call.asked.tool = "export_zone" -> {"text"}
              [] call.asked.tool = "api_request" -> {"success", "bare", "null", "broken", "text", "empty"}
              [] OTHER -> {"success"}]

Grants(call) == CASE call.asked.tool = "verify_token" /\ ~call.probe -> kind[call.token] = "user"
                  [] OTHER -> kind[call.token] # "unusable"

Refusals(call) ==
    IF kind[call.token] = "unusable" THEN {Failure(401)}
    ELSE IF ~Grants(call) THEN {Failure(401), Failure(403)}
    ELSE IF call.asked.tool = "api_request"
         THEN {Failure(403), Failure(500)}
              \cup (IF call.asked.method = "HEAD" THEN {} ELSE {Failure(200)})
    ELSE {Failure(500)}

Handle(c) ==
    /\ At(c, "sent")
    /\ \/ /\ Grants(calls[c])
          /\ \E reply \in Granted(calls[c]) :
                calls' = [calls EXCEPT ![c].at = "handled", ![c].reply = reply,
                                       ![c].granted = TRUE]
       \/ \E reply \in Refusals(calls[c]) :
             calls' = [calls EXCEPT ![c].at = "handled", ![c].reply = reply]
    /\ UNCHANGED <<env, kind>>

\* A proxy answers, or breaks the answer off; whatever it says is no success.
Mangle(c) ==
    /\ At(c, "sent") \/ At(c, "handled")
    /\ \E reply \in Interference :
          calls' = [calls EXCEPT ![c].at = "handled", ![c].reply = reply, ![c].disturbed = TRUE]
    /\ UNCHANGED <<env, kind>>

Revoke(token) ==
    /\ kind[token] # "unusable"
    /\ kind' = [kind EXCEPT ![token] = "unusable"]
    /\ UNCHANGED <<env, calls>>

-----------------------------------------------------------------------------
\* What the tools make of it.

Read(call) ==
    CASE call.asked.tool = "export_zone" -> cfRequestText(call.reply)
      [] call.asked.tool = "api_request" -> cfApiPassthrough(call.reply)
      [] OTHER -> parseJsonEnvelope(call.reply)

\* Mutation: the probe is for 401 alone.
Probes_401(outcome) == ~outcome.ok /\ outcome.status = 401

Probes(outcome) == ~outcome.ok /\ outcome.status \in {401, 403}

\* The request of call ends with outcome: verify_token may go on to the Zones
\* API, of whose error it says nothing, under the token of that moment.
Conclude(c, call, outcome, token) ==
    /\ LET ended == [call EXCEPT !.at = "done", !.result = outcome, !.reply = NoReply]
       IN  calls' = [calls EXCEPT ![c] =
             CASE /\ call.asked.tool = "verify_token" /\ ~call.probe
                  /\ Probes(outcome) /\ token # Nothing ->
                     [call EXCEPT !.at = "sent", !.probe = TRUE, !.verify = outcome,
                                  !.token = token]
               [] call.probe /\ ~outcome.ok ->
                     [ended EXCEPT !.result = call.verify]
               [] call.asked.tool = "list_zones" /\ outcome.ok ->
                     [ended EXCEPT !.seen = @ \cup OnPage(ResultInfo(call.asked))]
               [] OTHER -> ended]
    /\ UNCHANGED <<env, kind>>

\* fetch resolves; of a HEAD only the status is looked at.
Headers(c, token) ==
    /\ At(c, "handled")
    /\ LET call == calls[c]
       IN  IF call.asked.tool = "api_request" /\ call.asked.method = "HEAD"
           THEN Conclude(c, call, IF res_ok(call.reply) THEN Returned(call.reply)
                                  ELSE Failed(call.reply.status), token)
           ELSE /\ calls' = [calls EXCEPT ![c].at = "body"]
                /\ UNCHANGED <<env, kind>>

ReadBody(c, token) == At(c, "body") /\ Conclude(c, calls[c], Read(calls[c]), token)

\* Mutation: the signal is for the headers only.
Timeout_HeadersOnly(c, token) ==
    /\ At(c, "sent") \/ At(c, "handled")
    /\ Conclude(c, [calls[c] EXCEPT !.disturbed = TRUE], NoAnswer, token)

\* AbortSignal.timeout(30_000), or the network's own error.
Timeout(c, token) ==
    /\ At(c, "sent") \/ At(c, "handled") \/ At(c, "body")
    /\ Conclude(c, [calls[c] EXCEPT !.disturbed = TRUE], NoAnswer, token)

\* What a call of c goes on to, with the token its requests are given now.
ToolsNext(c, token) == \/ Handle(c) \/ Mangle(c)
                       \/ Headers(c, token) \/ ReadBody(c, token) \/ Timeout(c, token)

-----------------------------------------------------------------------------

Ended(c, tools) == At(c, "done") /\ calls[c].asked.tool \in tools

(***************************************************************************)
(* What verify_token says of the token is so: usable only when Cloudflare  *)
(* accepted it during the call; refused, when nothing interfered, only     *)
(* when it did not, and an account's token was tried where it works.  The  *)
(* error shown is that of the verification, never that of the probe        *)
(* (tools.ts 266-311).                                                     *)
(***************************************************************************)
VerdictTrue ==
    \A c \in Client : Ended(c, {"verify_token"}) =>
        LET call == calls[c]
        IN  /\ call.result.ok => call.granted
            /\ ~call.result.ok /\ ~call.disturbed /\ call.result.status \in {401, 403}
                  => ~call.granted /\ (kind[call.token] = "account" => call.probe)
            /\ call.probe /\ ~call.result.ok => call.result = call.verify

(***************************************************************************)
(* What a tool reports happened at Cloudflare, and what it reports refused *)
(* with a status did not, so that the caller may repeat it.  It is unknown *)
(* only without a status, when something on the way answered, or when the  *)
(* error says that the reply was no JSON (cloudflare.ts 262-395).  Such an *)
(* error carries a status too, and a call of the passthrough that          *)
(* Cloudflare did may end with it: text that begins like JSON, or is       *)
(* announced as JSON, and does not parse (370-378).                        *)
(***************************************************************************)
ReportsTrue ==
    \A c \in Client : Ended(c, {"list_zones", "export_zone", "api_request"}) =>
        LET call == calls[c]
        IN  /\ call.result.ok =>
                  call.granted \/ (call.disturbed /\ call.asked.tool # "list_zones")
            /\ ~call.result.ok /\ ~call.disturbed =>
                  \/ call.result.status = undefinedStatus \/ call.result.malformed
                  \/ ~call.granted

(***************************************************************************)
(* Whoever reads a list page after page until has_more is false has seen   *)
(* all of it and was never sent to an empty page, also when Cloudflare     *)
(* makes its pages smaller than asked (tools.ts 339-340, 395-396).         *)
(***************************************************************************)
SeesEveryZone ==
    \A c \in Client : Ended(c, {"list_zones"}) /\ calls[c].result.ok =>
        /\ ~hasMore(calls[c].asked) => calls[c].seen = 1..Zones
        /\ calls[c].asked.page > 1 => OnPage(ResultInfo(calls[c].asked)) # {}

(***************************************************************************)
(* Nothing is written through the passthrough unless the operator set it   *)
(* to exactly "full" and the call was confirmed (tools.ts 66-72, 715-744). *)
(***************************************************************************)
WritesAsked ==
    \A c \in Client :
        calls[c] # Nothing /\ IsWrite(calls[c].asked) /\ calls[c].granted
            => env.CLOUDFLARE_API_PASSTHROUGH = "full" /\ calls[c].asked.confirm
=============================================================================
