------------------------------ MODULE ZoneCache ------------------------------
(***************************************************************************)
(* withZone and resolveZone of src/cloudflare.ts: the per-tenant cache of  *)
(* zones, calls that run concurrently over it, and zones that are deleted  *)
(* and created again at Cloudflare under new ids.                          *)
(*                                                                         *)
(* A call to Cloudflare is two steps, Cloudflare handling the request and  *)
(* the code resuming with the answer: what is learned may be out of date   *)
(* when it is used.  Everything between two awaits is one step.  `fn', the *)
(* tool's work on the zone, is one request that succeeds, finds no such    *)
(* zone or record (404), or fails otherwise.                               *)
(*                                                                         *)
(* Zone references are taken normalized (trimmed, lower case, no final     *)
(* dot): names and ids.                                                    *)
(***************************************************************************)
CONSTANTS
    Tenant,     \* request tokens; the cache is keyed by their hash
    Name,       \* zone names; tenants may own zones of the same name
    ZoneId,     \* ids Cloudflare can give a new zone
    Call,       \* slots for concurrent tool calls
    Absent      \* no zone, no entry

Ref == Name \cup ZoneId
Zone == [id : ZoneId, name : Name]

ASSUME RefAssumption == /\ Name \cap ZoneId = {}
                        /\ Absent \notin Ref
                        /\ Absent \notin Zone
                        /\ Absent \notin Tenant \X Name

VARIABLES
    world,      \* Cloudflare: world[t][n] is the id of t's zone n, or Absent
    origin,     \* the tenant and name each id was created for (history)
    cache,      \* cache[t]: the Map of zoneCacheFor, from references to zones
    call        \* the tool call in each slot

vars == <<world, origin, cache, call>>

Phase == {"idle",
          "asking",     \* GET /zones is under way, first resolution
          "answered",   \* ... and has been answered
          "running",    \* fn is under way
          "gone",       \* fn came back with a 404
          "done"}

NoCall == [pc |-> "idle", tenant |-> Absent, ref |-> Absent, wasCached |-> FALSE,
           evicted |-> FALSE, zone |-> Absent, answer |-> Absent,
           outcome |-> "none", calm |-> TRUE]

CallRecord ==
    [pc        : Phase,
     tenant    : Tenant \cup {Absent},
     ref       : Ref \cup {Absent},
     wasCached : BOOLEAN,                \* withZone's cache.has(key)
     evicted   : BOOLEAN,                \* in the catch, after the eviction
     zone      : Zone \cup {Absent},     \* the zone fn is run on
     answer    : Zone \cup {Absent},     \* what GET /zones said
     outcome   : {"none", "ok", "noZone", "noRecord", "zoneGone", "error"},
     calm      : BOOLEAN]                \* the tenant's zones have not changed since

(***************************************************************************)
(* The shape of every variable.                                            *)
(***************************************************************************)
TypeOK == /\ world \in [Tenant -> [Name -> ZoneId \cup {Absent}]]
          /\ origin \in [ZoneId -> (Tenant \X Name) \cup {Absent}]
          /\ cache \in [Tenant -> [Ref -> Zone \cup {Absent}]]
          /\ call \in [Call -> CallRecord]

Init == /\ world = [t \in Tenant |-> [n \in Name |-> Absent]]
        /\ origin = [i \in ZoneId |-> Absent]
        /\ cache = [t \in Tenant |-> [k \in Ref |-> Absent]]
        /\ call = [c \in Call |-> NoCall]

-----------------------------------------------------------------------------
\* Cloudflare.

Unsettle(t) == [c \in Call |-> IF call[c].tenant = t THEN [call[c] EXCEPT !.calm = FALSE]
                                                     ELSE call[c]]

\* Zone n of t is created, in place of the one there was, if any.
Create(t, n, i) ==
    /\ origin[i] = Absent
    /\ origin' = [origin EXCEPT ![i] = <<t, n>>]
    /\ world' = [world EXCEPT ![t][n] = i]
    /\ call' = Unsettle(t)
    /\ UNCHANGED cache

Delete(t, n) ==
    /\ world[t][n] # Absent
    /\ world' = [world EXCEPT ![t][n] = Absent]
    /\ call' = Unsettle(t)
    /\ UNCHANGED <<origin, cache>>

\* The zone a reference denotes to t's token at this moment.
Lookup(t, ref) ==
    IF ref \in Name
    THEN IF world[t][ref] = Absent THEN Absent ELSE [id |-> world[t][ref], name |-> ref]
    ELSE IF \E n \in Name : world[t][n] = ref
         THEN [id |-> ref, name |-> CHOOSE n \in Name : world[t][n] = ref]
         ELSE Absent

-----------------------------------------------------------------------------
\* The code.

\* Mutation: one Map for all.
zoneCacheFor_Global(t) == CHOOSE any \in Tenant : TRUE

\* Which Map a request of tenant t uses.
zoneCacheFor(t) == t

\* resolveZone up to its first await: a cached zone, or a request to Cloudflare.
Resolve(m, ref, hit, miss) == IF m[ref] # Absent THEN hit ELSE miss

\* withZone is entered.
Start(c, t, ref) ==
    LET m == cache[zoneCacheFor(t)]
        entered == [NoCall EXCEPT !.tenant = t, !.ref = ref, !.wasCached = m[ref] # Absent]
    IN  /\ call[c] = NoCall
        /\ call' = [call EXCEPT ![c] =
               Resolve(m, ref, [entered EXCEPT !.pc = "running", !.zone = m[ref]],
                               [entered EXCEPT !.pc = "asking"])]
        /\ UNCHANGED <<world, origin, cache>>

\* Mutation: after an eviction the zone's name is asked for, whatever the
\* reference was.
Answer_ByName(c) ==
    /\ call[c].pc = "asking"
    /\ call' = [call EXCEPT ![c].pc = "answered",
                            ![c].answer = Lookup(call[c].tenant,
                                IF call[c].evicted THEN call[c].zone.name ELSE call[c].ref)]
    /\ UNCHANGED <<world, origin, cache>>

\* Cloudflare answers GET /zones/:id or GET /zones?name=.
Answer(c) ==
    /\ call[c].pc = "asking"
    /\ call' = [call EXCEPT ![c].pc = "answered",
                            ![c].answer = Lookup(call[c].tenant, call[c].ref)]
    /\ UNCHANGED <<world, origin, cache>>

Finish(c, outcome) == call' = [call EXCEPT ![c].pc = "done", ![c].outcome = outcome]

\* resolveZone after the await: no zone throws, a zone is cached under its id
\* and its name.  In the catch, an unchanged id rethrows the original 404.
Learn(c) ==
    LET z == call[c].answer
        t == zoneCacheFor(call[c].tenant)
    IN  /\ call[c].pc = "answered"
        /\ UNCHANGED <<world, origin>>
        /\ \/ /\ z = Absent
              /\ Finish(c, "noZone")
              /\ UNCHANGED cache
           \/ /\ z # Absent
              /\ cache' = [cache EXCEPT ![t][z.id] = z, ![t][z.name] = z]
              /\ IF call[c].evicted /\ z.id = call[c].zone.id
                 THEN Finish(c, call[c].outcome)
                 ELSE call' = [call EXCEPT ![c].pc = "running", ![c].zone = z]

\* Cloudflare handles fn's request: it reaches a zone its tenant still has ...
Serve(c, outcome) ==
    /\ call[c].pc = "running"
    /\ Lookup(call[c].tenant, call[c].zone.id) # Absent
    /\ \/ outcome = "ok" /\ Finish(c, "ok")
       \/ /\ outcome = "noRecord"
          /\ call' = [call EXCEPT ![c].pc = "gone", ![c].outcome = "noRecord"]
    /\ UNCHANGED <<world, origin, cache>>

\* ... or does not: 404.
Miss(c) ==
    /\ call[c].pc = "running"
    /\ Lookup(call[c].tenant, call[c].zone.id) = Absent
    /\ call' = [call EXCEPT ![c].pc = "gone", ![c].outcome = "zoneGone"]
    /\ UNCHANGED <<world, origin, cache>>

\* Rate limit, network error, timeout: thrown from where it happens.
Fail(c) ==
    /\ call[c].pc \in {"asking", "running"}
    /\ Finish(c, "error")
    /\ UNCHANGED <<world, origin, cache>>

\* Mutation: the entry under the zone's name is left.
Evict_IdOnly(m, z) == [m EXCEPT ![z.id] = Absent]

Evict(m, z) == [m EXCEPT ![z.id] = Absent, ![z.name] = Absent]

\* withZone's catch: a 404 on a zone that came from the cache evicts it and
\* resolves the reference again; any other 404, or a second one, is rethrown.
NotFound(c) ==
    LET t == zoneCacheFor(call[c].tenant)
        m == Evict(cache[t], call[c].zone)
        known == m[call[c].ref]
    IN  /\ call[c].pc = "gone"
        /\ UNCHANGED <<world, origin>>
        /\ \/ /\ ~call[c].wasCached \/ call[c].evicted
              /\ Finish(c, call[c].outcome)
              /\ UNCHANGED cache
           \/ /\ call[c].wasCached /\ ~call[c].evicted
              /\ cache' = [cache EXCEPT ![t] = m]
              /\ call' = [call EXCEPT ![c] =
                     Resolve(m, call[c].ref,
                             IF known = call[c].zone
                             THEN [@ EXCEPT !.pc = "done"]
                             ELSE [@ EXCEPT !.pc = "running", !.zone = known, !.evicted = TRUE],
                             [@ EXCEPT !.pc = "asking", !.evicted = TRUE])]

\* The tool has answered its client.
Return(c) ==
    /\ call[c].pc = "done"
    /\ call' = [call EXCEPT ![c] = NoCall]
    /\ UNCHANGED <<world, origin, cache>>

Known == Name \cup {i \in ZoneId : origin[i] # Absent}

Next == \/ \E t \in Tenant, n \in Name : \/ Delete(t, n)
                                         \/ \E i \in ZoneId : Create(t, n, i)
        \/ \E c \in Call : \/ \E t \in Tenant, ref \in Known : Start(c, t, ref)
                           \/ Answer(c)
                           \/ Learn(c)
                           \/ \E outcome \in {"ok", "noRecord"} : Serve(c, outcome)
                           \/ Miss(c)
                           \/ Fail(c)
                           \/ NotFound(c)
                           \/ Return(c)

Spec == Init /\ [][Next]_vars

-----------------------------------------------------------------------------

(***************************************************************************)
(* A tenant's Map holds only zones of that tenant, each under its own id   *)
(* or name, and a call works only on its own tenant's zones (cloudflare.ts *)
(* 400-430: no bleeding across agents).                                    *)
(***************************************************************************)
TenantIsolation ==
    /\ \A t \in Tenant, k \in Ref : cache[t][k] # Absent =>
          /\ k \in {cache[t][k].id, cache[t][k].name}
          /\ origin[cache[t][k].id] = <<t, cache[t][k].name>>
    /\ \A c \in Call : call[c].pc = "running" =>
          origin[call[c].zone.id] = <<call[c].tenant, call[c].zone.name>>

(***************************************************************************)
(* "recovering transparently from a stale zone cache" (cloudflare.ts 473): *)
(* a call by name made while the tenant's zones stay as they are never     *)
(* fails because of an id that is no longer the zone's, whatever stale     *)
(* entries it met and whatever late answers refilled the cache meanwhile.  *)
(***************************************************************************)
TransparentRecovery ==
    \A c \in Call :
        /\ call[c].pc = "done" /\ call[c].calm /\ call[c].ref \in Name
        /\ world[call[c].tenant][call[c].ref] # Absent
        => call[c].outcome \notin {"noZone", "zoneGone"}

(***************************************************************************)
(* Work that succeeds was done on the zone its reference denotes at that   *)
(* moment, never on another zone of the tenant or on a namesake.           *)
(***************************************************************************)
ActsOnReferencedZone ==
    [][\A c \in Call : call[c].pc = "running" /\ call'[c].outcome = "ok"
         => call[c].zone = Lookup(call[c].tenant, call[c].ref)]_vars
=============================================================================
