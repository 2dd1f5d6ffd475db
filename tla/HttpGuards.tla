----------------------------- MODULE HttpGuards -----------------------------
(***************************************************************************)
(* What the two HTTP servers decide from one header or one environment     *)
(* variable: Host, Origin and Authorization, and the address to bind       *)
(* (src/gateway/admin.ts, src/index.ts).                                   *)
(*                                                                         *)
(* A text is the sequence of its tokens.  "localhost", "127.0.0.1" and     *)
(* "bearer" stand for these words however they are capitalized, "Bearer"   *)
(* for this spelling, "http://" for a scheme, "1" for the digit, "blank"   *)
(* for white space and any other token for a word.                         *)
(***************************************************************************)
EXTENDS EnvLists

\* A header that is not sent, a variable that is not set.
undefined == <<"undefined">>

ip6 == <<":", ":", "1">>

LOCAL_HOSTNAMES == {<<"localhost">>, <<"127.0.0.1">>, ip6}

\* Mutation: the port is cut off at the first colon, whatever the address.
hostHeaderIsLocal_FirstColon(host) ==
    /\ host # undefined /\ host # <<>>
    /\ Before(trimmed(host), ":") \in LOCAL_HOSTNAMES

hostHeaderIsLocal(host) ==
    /\ host # undefined /\ host # <<>>
    /\ LET h == trimmed(host)
       IN  \/ /\ h # <<>> /\ h[1] = "["
              /\ Contains(h, "]")
              /\ Before(Tail(h), "]") \in LOCAL_HOSTNAMES
           \/ /\ h # <<>> => h[1] # "["
              /\ Before(h, ":") \in LOCAL_HOSTNAMES

-----------------------------------------------------------------------------
\* new URL(s).hostname, for the texts made of these tokens: {} when it throws,
\* and for every IPv6 address but ::1.

\* The host of host[:port], with the address in brackets when it is IPv6.
UrlHost(s) ==
    IF s # <<>> /\ s[1] = "["
    THEN IF /\ IsPrefix(<<"[">> \o ip6 \o <<"]">>, s)
            /\ Len(s) > 5 => s[6] = ":" /\ \A i \in 7..Len(s) : s[i] = "1"
         THEN {SubSeq(s, 1, 5)} ELSE {}
    ELSE LET host == Before(s, ":")
             port == IF Contains(s, ":") THEN After(s, ":") ELSE <<>>
         IN  IF /\ host # <<>>
                /\ \A t \in {"[", "]", "blank"} : ~Contains(host, t)
                /\ \A i \in 1..Len(port) : port[i] = "1"
             THEN {host} ELSE {}

hostname(s) ==
    LET url == trimmed(s)
        authority == Before(Tail(url), "/")
    IN  IF url = <<>> \/ url[1] # "http://" THEN {}
        ELSE UrlHost(IF Contains(authority, "@") THEN After(authority, "@") ELSE authority)

\* slice(1, -1) of a host in brackets.
Unbracketed(host) == IF host[1] = "[" THEN SubSeq(host, 2, Len(host) - 1) ELSE host

-----------------------------------------------------------------------------

originIsLocal(origin) ==
    \/ origin = undefined
    \/ \E host \in hostname(origin) : Unbracketed(host) \in LOCAL_HOSTNAMES

originAllowed(origin, raw) ==
    \/ origin \in parseEnvAllowlist(raw)
    \/ \E host \in hostname(origin) : Unbracketed(host) \in LOCAL_HOSTNAMES

\* The middleware of /mcp asks only when there is an Origin.
originPasses(origin, raw) ==
    origin \in {undefined, <<>>} \/ originAllowed(origin, raw)

\* Mutation: one blank is taken to separate the word from the token.
extractBearer_OneBlank(header) ==
    LET h == trimmed(header)
    IN  IF /\ header # undefined /\ Len(h) > 2
           /\ h[1] \in {"bearer", "Bearer"} /\ h[2] = "blank"
        THEN {Tail(Tail(h))} ELSE {}

\* The token of "Bearer <token>", in a set, {} when there is none.
extractBearer(header) ==
    LET h == trimmed(header)
        rest == trimmed(Tail(h))
    IN  IF /\ header # undefined /\ Len(h) > 2
           /\ h[1] \in {"bearer", "Bearer"} /\ h[2] = "blank"
        THEN {rest} ELSE {}

\* Whether HOST, unset or given, is a loopback address to the bind guard.
bindsLoopback(host) ==
    \/ host = undefined
    \/ trimmed(host) \in LOCAL_HOSTNAMES \cup {<<"[">> \o ip6 \o <<"]">>}
=============================================================================
