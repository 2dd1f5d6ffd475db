------------------------------ MODULE MCServer ------------------------------
EXTENDS Server, TLC

CONSTANTS t1, t2

\* The README's way to start the server, and ways that differ in some settings.
Usual == [TRANSPORT |-> "http", GATEWAY_ENABLE |-> "",
          CLOUDFLARE_API_TOKEN |-> t1, MCP_AUTH_TOKEN |-> undefined,
          ALLOW_UNAUTHENTICATED |-> "", HOST |-> undefined,
          PORT |-> "8787", ADMIN_PORT |-> "8788",
          GATEWAY_DATA_DIR |-> <<"data">>, ALLOWED_ORIGINS |-> <<>>,
          CLOUDFLARE_API_PASSTHROUGH |-> "off"]

Gateways == [Usual EXCEPT !.GATEWAY_ENABLE = "true"]

Environments ==
    {[Usual EXCEPT !.MCP_AUTH_TOKEN = auth, !.ALLOW_UNAUTHENTICATED = allow, !.HOST = host] :
        auth \in {undefined, <<"x">>}, allow \in {"", "true", "TRUE"},
        host \in {undefined, <<>>, <<"0.0.0.0">>, <<"blank", "localhost">>}}
    \cup
    {[Usual EXCEPT !.TRANSPORT = transport, !.GATEWAY_ENABLE = gateway,
                   !.CLOUDFLARE_API_TOKEN = token, !.GATEWAY_DATA_DIR = dir] :
        transport \in {"http", "stdio"}, gateway \in {"", "true", "TRUE"},
        token \in {undefined, t1}, dir \in {undefined, <<"data">>}}
    \cup
    {[Gateways EXCEPT !.PORT = port, !.ADMIN_PORT = adminPort, !.HOST = <<"0.0.0.0">>] :
        port \in {"8788", "NaN"}, adminPort \in {"8788", "22", "NaN"}}
    \cup
    {[Usual EXCEPT !.MCP_AUTH_TOKEN = <<>>, !.HOST = <<"0.0.0.0">>]}
    \cup
    {[Usual EXCEPT !.CLOUDFLARE_API_PASSTHROUGH = mode, !.ALLOWED_ORIGINS = <<"http://", "page">>] :
        mode \in {"", "read", "full", " full"}}

\* A gateway that also has a token of its own.
GatewayWithToken == {Gateways}

Bearers == [b \in {<<"b1">>, <<"b2">>} |-> IF b = <<"b1">> THEN t1 ELSE t2]

Nobody == [from |-> "here", origin |-> undefined, authorization |-> undefined]
With(token) == [Nobody EXCEPT !.authorization = <<"Bearer", "blank">> \o token]
From(host) == [Nobody EXCEPT !.origin = <<"http://", host>>]

Elsewhere(request) == [request EXCEPT !.from = "elsewhere"]

Callers == {Nobody, With(<<"b1">>), From("evil"), From("page"), Elsewhere(Nobody),
            Elsewhere([Nobody EXCEPT !.origin = <<>>]),
            Elsewhere(With(<<"b2">>)), Elsewhere(With(<<"x">>))}

\* Clients differ in nothing but their requests.
Symmetry == Permutations(Client)

Agents == {With(<<"b1">>), With(<<"b2">>)}

\* A captive portal, a firewall, a broken line, a gateway that answers JSON.
Portals == [status : {200}, body : {"text", "null", "broken", "cut"}]
           \cup [status : {401}, body : {"cut", "null"}]
           \cup [status : {403}, body : {"text", "bare"}]
=============================================================================
