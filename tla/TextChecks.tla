----------------------------- MODULE TextChecks -----------------------------
(***************************************************************************)
(* The texts the server takes decisions from, against reference            *)
(* definitions, on every text over the given tokens: the lists in the      *)
(* environment, the headers of its two HTTP servers, the paths of the      *)
(* passthrough.  A text is written one token at a time.                    *)
(***************************************************************************)
EXTENDS HttpGuards, ApiPath

CONSTANTS Alphabet,   \* for each kind of text its tokens
          MaxLen      \* and how long it gets

VARIABLES kind, raw

Init == kind \in DOMAIN Alphabet /\ raw = <<>>

Next == /\ Len(raw) < MaxLen[kind]
        /\ \E token \in Alphabet[kind] : raw' = Append(raw, token)
        /\ UNCHANGED kind

Spec == Init /\ [][Next]_<<kind, raw>>

-----------------------------------------------------------------------------

\* Name stands in the list: between two commas (or ends of the string), with
\* nothing but spaces around it.
Stands(name) ==
    \E i, j \in 1..Len(raw) :
        /\ i <= j /\ SubSeq(raw, i, j) = name
        /\ \E a \in 1..i : /\ a = 1 \/ raw[a - 1] = "comma"
                           /\ \A k \in a..(i - 1) : raw[k] = "blank"
        /\ \E b \in j..Len(raw) : /\ b = Len(raw) \/ raw[b + 1] = "comma"
                                  /\ \A k \in (j + 1)..b : raw[k] = "blank"

IsName(s) == /\ s # <<>>
             /\ \A i \in 1..Len(s) : s[i] # "comma"
             /\ s[1] # "blank" /\ s[Len(s)] # "blank"

Substrings == {SubSeq(raw, i, j) : i, j \in 1..Len(raw)}

(***************************************************************************)
(* A name is on a list exactly when it stands there whole, between commas  *)
(* and with at most spaces around it: no part of a name, no blank, and no  *)
(* denied name is ever let through (tools.ts 107-149; index.ts 72-76 reads *)
(* ALLOWED_ORIGINS alike).                                                 *)
(***************************************************************************)
ListsExactly ==
    kind = "list" =>
        /\ parseEnvAllowlist(raw) = {s \in Substrings : IsName(s) /\ Stands(s)}
        /\ \A s \in Substrings \cup Denied :
              /\ resolveEnvVarAccess(s, raw) <=> IsName(s) /\ Stands(s) /\ s \notin Denied
              /\ isScriptAllowedForSecret(s, raw) <=> IsName(s) /\ Stands(s)
              /\ hostname(s) = {} => (originAllowed(s, raw) <=> IsName(s) /\ Stands(s))

-----------------------------------------------------------------------------

All(s, t) == \A i \in 1..Len(s) : s[i] = t

\* host or host:port as a browser writes it, for one of these hosts.
HostPort(s, hosts) ==
    \E host \in hosts : \/ s = host
                        \/ /\ Len(s) > Len(host) + 1
                           /\ SubSeq(s, 1, Len(host) + 1) = Append(host, ":")
                           /\ All(SubSeq(s, Len(host) + 2, Len(s)), "1")

Loopback == {<<"localhost">>, <<"127.0.0.1">>, <<"[", ":", ":", "1", "]">>}
Foreign == {<<"1">>, <<"localhost", "1">>, <<"1", "localhost">>, <<"localhost", "localhost">>}

(***************************************************************************)
(* Of the Host and Origin headers a browser can write, those of loopback   *)
(* pages pass and no others do, with or without a port; and what /mcp      *)
(* takes for loopback the panel does (admin.ts 47-76, index.ts 71-85).     *)
(***************************************************************************)
HostsExactly ==
    kind = "host" /\ raw # <<>> =>
    LET origin == <<"http://">> \o raw
    IN  /\ HostPort(raw, Loopback) => hostHeaderIsLocal(raw) /\ originIsLocal(origin)
        /\ HostPort(raw, Foreign) => ~hostHeaderIsLocal(raw) /\ ~originIsLocal(origin)
        \* Whatever the Host header, when it reads as an address it is the
        \* one a browser would go to.
        /\ ~Contains(raw, "@") /\ hostHeaderIsLocal(raw) =>
              hostname(origin) \subseteq Loopback
        /\ originIsLocal(origin) <=> originAllowed(origin, <<>>)

(***************************************************************************)
(* A token that neither begins nor ends with a blank is read back from     *)
(* "Bearer <token>" as it is, whatever it contains and whatever blanks     *)
(* surround it; nothing else is read as a token (admin.ts 78-82).          *)
(***************************************************************************)
BearersExactly ==
    kind = "bearer" =>
        extractBearer(raw) =
            {t \in Substrings :
                /\ t # <<>> /\ t[1] # "blank" /\ t[Len(t)] # "blank"
                /\ \E i, j \in 1..Len(raw) :
                      /\ SubSeq(raw, i + 1, j) = t
                      /\ \E b \in 1..(i - 1) : /\ raw[b] \in {"Bearer", "bearer"}
                                               /\ All(SubSeq(raw, 1, b - 1), "blank")
                                               /\ All(SubSeq(raw, b + 1, i), "blank")
                      /\ All(SubSeq(raw, j + 1, Len(raw)), "blank")}

\* The segments of a URL are the base and those of written in their order,
\* without the single dots; an empty one where a single dot was the last.
AsWritten(segments, written) ==
    LET kept  == {i \in 1..Len(written) : written[i] \notin SingleDots}
        atEnd == written[Len(written)] \in SingleDots
    IN  /\ Len(segments) = 2 + Cardinality(kept) + (IF atEnd THEN 1 ELSE 0)
        /\ \A i \in kept : segments[2 + Cardinality({j \in kept : j <= i})] = written[i]
        /\ atEnd => segments[Len(segments)] = <<>>

(***************************************************************************)
(* Every accepted path is fetched from under the base, whatever dots it    *)
(* has, in plain or encoded; a path without an encoded double dot is       *)
(* fetched as it was written but for its single dots, and only one that is *)
(* malformed or has a double dot is refused (cloudflare.ts 131-186).       *)
(***************************************************************************)
PathsPinned ==
    kind = "path" =>
        /\ validateApiPath(raw) =>
              /\ Len(pathname(raw)) > 2
              /\ SubSeq(pathname(raw), 1, 2) = << <<"client">>, <<"v4">> >>
        /\ LET written == Tail(split(raw, {"/"}))
               encoded == DoubleDots \ { <<".", ".">> }
           IN  /\ validateApiPath(raw) /\ ~Contains(raw, "?") /\ ~Contains(raw, "#")
               /\ \A i \in 1..Len(written) : written[i] \notin encoded
               => AsWritten(pathname(raw), written)
        /\ LET parts == split(raw, {"/", "?", "#"})
           IN  /\ raw # <<>> /\ raw[1] = "/" /\ ~IsPrefix(<<"/", "/">>, raw)
               /\ ~Contains(raw, "backslash") /\ ~Contains(raw, "blank")
               /\ \A i \in 1..Len(parts) : parts[i] \notin DoubleDots
               => validateApiPath(raw)
=============================================================================
