--------------------------- MODULE ZoneCacheProofs ---------------------------
(***************************************************************************)
(* Theorems about the zone cache, for all sets of tenants, zone names, ids *)
(* and concurrent calls, and however often zones are created again.        *)
(***************************************************************************)
EXTENDS ZoneCache, TLAPS

-----------------------------------------------------------------------------
\* The shape of the variables.  What a call in flight carries is part of it.

Resolving == {"asking", "answered"}
Working == {"running", "gone"}

WellFormed(r) ==
    /\ r.pc \in Resolving \cup Working => r.tenant \in Tenant /\ r.ref \in Ref
    /\ r.pc \in Working \/ (r.pc \in Resolving /\ r.evicted) => r.zone \in Zone

TypeInv == TypeOK /\ \A c \in Call : WellFormed(call[c])

LEMMA LookupType ==
    ASSUME TypeOK, NEW t \in Tenant, NEW ref \in Ref
    PROVE  Lookup(t, ref) \in Zone \cup {Absent}
<1>1. CASE ref \in Name
  BY <1>1 DEF Lookup, TypeOK, Zone
<1>2. CASE ref \notin Name /\ \E n \in Name : world[t][n] = ref
  BY <1>2 DEF Lookup, Ref, Zone
<1>. QED
  BY <1>1, <1>2 DEF Lookup

LEMMA TypeInit == Init => TypeInv
BY DEF Init, TypeInv, TypeOK, CallRecord, NoCall, Phase, WellFormed, Resolving, Working

-----------------------------------------------------------------------------
\* What each step makes of its call.

Active(c) == call[c].pc \in Resolving \cup Working

\* A call that ends, at a refusal, an answer or an error.
Ended(c, outcome) == call' = [call EXCEPT ![c] = [call[c] EXCEPT !.pc = "done", !.outcome = outcome]]

\* A call that goes on, with the fields of s for the ones the code assigns.
Becomes(c, s) == call' = [call EXCEPT ![c] = s]

LEMMA FinishEnds ==
    ASSUME TypeOK, NEW c \in Call, NEW outcome, Finish(c, outcome)
    PROVE  Ended(c, outcome)
BY DEF TypeOK, Finish, Ended

LEMMA AnswerBecomes ==
    ASSUME TypeOK, NEW c \in Call, Answer(c)
    PROVE  Becomes(c, [call[c] EXCEPT !.pc = "answered",
                                      !.answer = Lookup(call[c].tenant, call[c].ref)])
BY DEF TypeOK, Answer, Becomes

LEMMA ServeBecomes ==
    ASSUME TypeOK, NEW c \in Call, NEW outcome, Serve(c, outcome)
    PROVE  \/ Ended(c, "ok")
           \/ Becomes(c, [call[c] EXCEPT !.pc = "gone", !.outcome = "noRecord"])
BY FinishEnds DEF TypeOK, Serve, Becomes

LEMMA MissBecomes ==
    ASSUME TypeOK, NEW c \in Call, Miss(c)
    PROVE  Becomes(c, [call[c] EXCEPT !.pc = "gone", !.outcome = "zoneGone"])
BY DEF TypeOK, Miss, Becomes

LEMMA LearnBecomes ==
    ASSUME TypeOK, NEW c \in Call, Learn(c)
    PROVE  \/ /\ call[c].answer = Absent
              /\ Ended(c, "noZone")
           \/ /\ call[c].answer # Absent
              /\ call[c].evicted /\ call[c].answer.id = call[c].zone.id
              /\ Ended(c, call[c].outcome)
           \/ /\ call[c].answer # Absent
              /\ ~(call[c].evicted /\ call[c].answer.id = call[c].zone.id)
              /\ Becomes(c, [call[c] EXCEPT !.pc = "running", !.zone = call[c].answer])
BY FinishEnds DEF TypeOK, Learn, Becomes

\* After the eviction the reference, the zone's id or its name, is in the Map
\* no longer: it is always asked for again.
LEMMA NotFoundBecomes ==
    ASSUME TypeInv, NEW c \in Call, NotFound(c),
           call[c].ref \in {call[c].zone.id, call[c].zone.name}
    PROVE  \/ /\ ~call[c].wasCached \/ call[c].evicted
              /\ Ended(c, call[c].outcome)
           \/ /\ call[c].wasCached /\ ~call[c].evicted
              /\ Becomes(c, [call[c] EXCEPT !.pc = "asking", !.evicted = TRUE])
<1>. DEFINE t == zoneCacheFor(call[c].tenant)
            m == Evict(cache[t], call[c].zone)
<1>1. call[c].tenant \in Tenant /\ call[c].ref \in Ref /\ call[c].zone \in Zone
  BY DEF NotFound, TypeInv, WellFormed, Working
<1>2. m[call[c].ref] = Absent
  BY <1>1 DEF Evict, zoneCacheFor, TypeInv, TypeOK
<1>3. CASE ~call[c].wasCached \/ call[c].evicted
  BY <1>3, FinishEnds DEF NotFound, TypeInv
<1>4. CASE call[c].wasCached /\ ~call[c].evicted
  BY <1>2, <1>4 DEF NotFound, Resolve, Becomes, TypeInv, TypeOK
<1>. QED
  BY <1>3, <1>4

-----------------------------------------------------------------------------

(***************************************************************************)
(* Whose zones are where.  Ids are never given twice, so the tenant and    *)
(* name an id was created for say for ever whose zone it is; the cache, a  *)
(* late answer and a running call may all be out of date, but none of them *)
(* is ever about another tenant's zone, or another zone than was asked for.*)
(***************************************************************************)
Fits(t, ref, z) == ref \in {z.id, z.name} /\ origin[z.id] = <<t, z.name>>

FittingCall(r) ==
    /\ r.pc \in Working \/ (r.pc \in Resolving /\ r.evicted) => Fits(r.tenant, r.ref, r.zone)
    /\ r.pc = "answered" /\ r.answer # Absent => Fits(r.tenant, r.ref, r.answer)

OwnedInv ==
    /\ \A t \in Tenant, n \in Name : world[t][n] # Absent => origin[world[t][n]] = <<t, n>>
    /\ \A t \in Tenant, k \in Ref : cache[t][k] # Absent => Fits(t, k, cache[t][k])
    /\ \A c \in Call : FittingCall(call[c])

ZoneInv == TypeInv /\ OwnedInv

LEMMA OwnedInit == Init => OwnedInv
BY DEF Init, OwnedInv, FittingCall, NoCall, Working, Resolving

\* Cloudflare answers with the zone asked for.
LEMMA LookupFits ==
    ASSUME ZoneInv, NEW t \in Tenant, NEW ref \in Ref, Lookup(t, ref) # Absent
    PROVE  Fits(t, ref, Lookup(t, ref))
<1>. USE DEF ZoneInv, TypeInv, TypeOK, OwnedInv
<1>1. CASE ref \in Name
  BY <1>1 DEF Lookup, Fits
<1>2. CASE ref \notin Name
  <2>1. \E n \in Name : world[t][n] = ref
    BY <1>2 DEF Lookup
  <2>. DEFINE m == CHOOSE n \in Name : world[t][n] = ref
  <2>2. m \in Name /\ world[t][m] = ref
    BY <2>1
  <2>3. Lookup(t, ref) = [id |-> ref, name |-> m]
    BY <1>2, <2>1 DEF Lookup
  <2>. HIDE DEF m
  <2>4. ref # Absent
    BY RefAssumption
  <2>. QED
    BY <2>2, <2>3, <2>4 DEF Fits
<1>. QED
  BY <1>1, <1>2

-----------------------------------------------------------------------------
\* Cloudflare's zones change: in the calls only `calm' does, and no id changes
\* its owner.

ZonesChange == \E t \in Tenant, n \in Name : Delete(t, n) \/ \E i \in ZoneId : Create(t, n, i)

LEMMA OwnersKept ==
    ASSUME TypeOK, ZonesChange
    PROVE  \A t \in Tenant, z \in Zone :
              origin[z.id] = <<t, z.name>> => origin'[z.id] = <<t, z.name>>
<1>1. \A i \in ZoneId : origin[i] # Absent => origin'[i] = origin[i]
  BY DEF ZonesChange, Delete, Create, TypeOK
<1>2. \A t \in Tenant, z \in Zone : <<t, z.name>> # Absent /\ z.id \in ZoneId
  BY RefAssumption DEF Zone
<1>. QED
  BY <1>1, <1>2

LEMMA CallsKept ==
    ASSUME TypeOK, ZonesChange, NEW c \in Call
    PROVE  /\ call'[c] \in CallRecord
           /\ call'[c] = call[c] \/ call'[c] = [call[c] EXCEPT !.calm = FALSE]
           /\ call'[c].pc = call[c].pc /\ call'[c].evicted = call[c].evicted
           /\ call'[c].tenant = call[c].tenant /\ call'[c].ref = call[c].ref
           /\ call'[c].zone = call[c].zone /\ call'[c].answer = call[c].answer
           /\ call'[c].outcome = call[c].outcome /\ call'[c].wasCached = call[c].wasCached
<1>1. call'[c] = call[c] \/ call'[c] = [call[c] EXCEPT !.calm = FALSE]
  BY DEF ZonesChange, Delete, Create, Unsettle
<1>2. call[c] \in CallRecord
  BY DEF TypeOK
<1>. QED
  BY <1>1, <1>2 DEF CallRecord

LEMMA WorldKept ==
    ASSUME ZoneInv, ZonesChange
    PROVE  /\ world' \in [Tenant -> [Name -> ZoneId \cup {Absent}]]
           /\ origin' \in [ZoneId -> (Tenant \X Name) \cup {Absent}]
           /\ \A t \in Tenant, n \in Name :
                 world'[t][n] # Absent => origin'[world'[t][n]] = <<t, n>>
<1>. USE DEF ZoneInv, TypeInv, TypeOK
<1>1. PICK t \in Tenant, n \in Name : Delete(t, n) \/ \E i \in ZoneId : Create(t, n, i)
  BY DEF ZonesChange
<1>2. CASE Delete(t, n)
  BY <1>2 DEF Delete, OwnedInv
<1>3. ASSUME NEW i \in ZoneId, Create(t, n, i)
      PROVE  /\ world' \in [Tenant -> [Name -> ZoneId \cup {Absent}]]
             /\ origin' \in [ZoneId -> (Tenant \X Name) \cup {Absent}]
             /\ \A u \in Tenant, m \in Name :
                   world'[u][m] # Absent => origin'[world'[u][m]] = <<u, m>>
  <2>1. /\ origin[i] = Absent
        /\ origin' = [origin EXCEPT ![i] = <<t, n>>]
        /\ world' = [world EXCEPT ![t][n] = i]
    BY <1>3 DEF Create
  <2>2. ASSUME NEW u \in Tenant, NEW m \in Name, world'[u][m] # Absent
        PROVE  origin'[world'[u][m]] = <<u, m>>
    <3>1. CASE u = t /\ m = n
      BY <2>1, <3>1
    <3>2. CASE ~(u = t /\ m = n)
      <4>1. world'[u][m] = world[u][m]
        BY <2>1, <3>2
      <4>2. origin[world[u][m]] = <<u, m>> /\ <<u, m>> # Absent
        BY <2>2, <4>1, RefAssumption DEF OwnedInv
      <4>3. world[u][m] \in ZoneId /\ world[u][m] # i
        BY <2>1, <2>2, <4>1, <4>2
      <4>. QED
        BY <2>1, <4>1, <4>2, <4>3
    <3>. QED
      BY <3>1, <3>2
  <2>. QED
    BY <2>1, <2>2
<1>. QED
  BY <1>1, <1>2, <1>3

LEMMA WorldStep == ASSUME ZoneInv, ZonesChange PROVE ZoneInv'
<1>. USE DEF ZoneInv
<1>1. cache' = cache
  BY DEF ZonesChange, Delete, Create
<1>2. call' \in [Call -> CallRecord]
  <2>1. call' = [c \in Call |-> call'[c]]
    BY DEF ZonesChange, Delete, Create, Unsettle
  <2>. QED
    BY <2>1, CallsKept DEF TypeInv
<1>3. TypeInv'
  <2>1. TypeOK'
    BY <1>1, <1>2, WorldKept DEF TypeInv, TypeOK
  <2>2. ASSUME NEW c \in Call PROVE WellFormed(call'[c])
    BY CallsKept DEF TypeInv, WellFormed
  <2>. QED
    BY <2>1, <2>2 DEF TypeInv
<1>4. ASSUME NEW c \in Call PROVE FittingCall(call[c])'
  <2>1. FittingCall(call[c]) /\ WellFormed(call[c]) /\ call[c].answer \in Zone \cup {Absent}
    BY DEF OwnedInv, TypeInv, TypeOK, CallRecord
  <2>2. ASSUME NEW z \in Zone, Fits(call[c].tenant, call[c].ref, z), call[c].tenant \in Tenant
        PROVE  z.id \in ZoneId /\ origin'[z.id] = <<call[c].tenant, z.name>>
    BY <2>2, OwnersKept DEF Fits, TypeInv, Zone
  <2>. QED
    BY <2>1, <2>2, CallsKept DEF TypeInv, FittingCall, WellFormed, Fits, Working, Resolving
<1>5. ASSUME NEW u \in Tenant, NEW k \in Ref, cache'[u][k] # Absent
      PROVE  Fits(u, k, cache[u][k])'
  <2>1. cache[u][k] \in Zone /\ Fits(u, k, cache[u][k])
    BY <1>1, <1>5 DEF TypeInv, TypeOK, OwnedInv
  <2>2. origin'[cache[u][k].id] = <<u, cache[u][k].name>>
    BY <2>1, OwnersKept DEF TypeInv, Fits
  <2>. QED
    BY <1>1, <2>1, <2>2 DEF Fits
<1>. QED
  BY <1>3, <1>4, <1>5, WorldKept DEF OwnedInv

-----------------------------------------------------------------------------
\* One call takes a step, Cloudflare's zones staying as they are.

LEMMA CallMoves ==
    ASSUME ZoneInv, NEW c \in Call, NEW s \in CallRecord, Becomes(c, s),
           WellFormed(s), FittingCall(s), UNCHANGED <<world, origin>>,
           cache' \in [Tenant -> [Ref -> Zone \cup {Absent}]],
           \A t \in Tenant, k \in Ref : cache'[t][k] # Absent => Fits(t, k, cache'[t][k])
    PROVE  ZoneInv'
<1>. USE DEF ZoneInv
<1>1. call' \in [Call -> CallRecord] /\ call'[c] = s /\ \A d \in Call \ {c} : call'[d] = call[d]
  BY DEF Becomes, TypeInv, TypeOK
<1>2. TypeInv'
  BY <1>1 DEF TypeInv, TypeOK, WellFormed
<1>3. ASSUME NEW d \in Call PROVE FittingCall(call'[d])
  BY <1>1 DEF OwnedInv
<1>4. OwnedInv'
  BY <1>1, <1>3 DEF OwnedInv, FittingCall, Fits
<1>. QED
  BY <1>2, <1>4

LEMMA CallEnds ==
    ASSUME ZoneInv, NEW c \in Call, NEW o \in {"ok", "none", "noZone", "noRecord", "zoneGone", "error"},
           Ended(c, o), UNCHANGED <<world, origin>>,
           cache' \in [Tenant -> [Ref -> Zone \cup {Absent}]],
           \A t \in Tenant, k \in Ref : cache'[t][k] # Absent => Fits(t, k, cache'[t][k])
    PROVE  ZoneInv'
<1>. DEFINE s == [call[c] EXCEPT !.pc = "done", !.outcome = o]
<1>1. call[c] \in CallRecord
  BY DEF ZoneInv, TypeInv, TypeOK
<1>2. s \in CallRecord /\ s.pc = "done"
  BY <1>1 DEF CallRecord, Phase
<1>3. WellFormed(s) /\ FittingCall(s)
  BY <1>2 DEF WellFormed, FittingCall, Working, Resolving
<1>4. Becomes(c, s)
  BY DEF Ended, Becomes
<1>. HIDE DEF s
<1>. QED
  BY <1>2, <1>3, <1>4, CallMoves

LEMMA CacheFits ==
    ASSUME ZoneInv
    PROVE  /\ cache \in [Tenant -> [Ref -> Zone \cup {Absent}]]
           /\ \A t \in Tenant, k \in Ref : cache[t][k] # Absent => Fits(t, k, cache[t][k])
BY DEF ZoneInv, TypeInv, TypeOK, OwnedInv

\* The call of a step: what it carries, by phase.
LEMMA Carries ==
    ASSUME ZoneInv, NEW c \in Call
    PROVE  /\ call[c] \in CallRecord
           /\ Active(c) => call[c].tenant \in Tenant /\ call[c].ref \in Ref
           /\ call[c].pc \in Working \/ (call[c].pc \in Resolving /\ call[c].evicted) =>
                 /\ call[c].zone \in Zone
                 /\ Fits(call[c].tenant, call[c].ref, call[c].zone)
           /\ call[c].pc = "answered" /\ call[c].answer # Absent =>
                 /\ call[c].answer \in Zone
                 /\ Fits(call[c].tenant, call[c].ref, call[c].answer)
BY DEF ZoneInv, TypeInv, TypeOK, OwnedInv, FittingCall, WellFormed, Active, CallRecord

LEMMA StartKeeps ==
    ASSUME ZoneInv, NEW c \in Call, NEW t \in Tenant, NEW ref \in Ref, Start(c, t, ref)
    PROVE  ZoneInv'
<1>. DEFINE m == cache[zoneCacheFor(t)]
            entered == [NoCall EXCEPT !.tenant = t, !.ref = ref, !.wasCached = m[ref] # Absent]
            hit == [entered EXCEPT !.pc = "running", !.zone = m[ref]]
            miss == [entered EXCEPT !.pc = "asking"]
<1>1. UNCHANGED <<world, origin, cache>>
  BY DEF Start
<1>2. CASE m[ref] # Absent
  <2>1. Becomes(c, hit)
    BY <1>2 DEF Start, Resolve, Becomes
  <2>2. m[ref] \in Zone /\ Fits(t, ref, m[ref])
    BY <1>2, CacheFits DEF zoneCacheFor
  <2>3. hit \in CallRecord
    BY <2>2 DEF CallRecord, NoCall, Phase
  <2>4. WellFormed(hit) /\ FittingCall(hit)
    BY <2>2 DEF WellFormed, FittingCall, NoCall, Working, Resolving
  <2>. HIDE DEF hit
  <2>. QED
    BY <1>1, <2>1, <2>3, <2>4, CallMoves, CacheFits
<1>3. CASE m[ref] = Absent
  <2>1. Becomes(c, miss)
    BY <1>3 DEF Start, Resolve, Becomes
  <2>2. miss \in CallRecord /\ WellFormed(miss) /\ FittingCall(miss)
    BY DEF CallRecord, NoCall, Phase, WellFormed, FittingCall, Working, Resolving
  <2>. HIDE DEF miss
  <2>. QED
    BY <1>1, <2>1, <2>2, CallMoves, CacheFits
<1>. QED
  BY <1>2, <1>3

LEMMA AnswerKeeps == ASSUME ZoneInv, NEW c \in Call, Answer(c) PROVE ZoneInv'
<1>. DEFINE z == Lookup(call[c].tenant, call[c].ref)
            s == [call[c] EXCEPT !.pc = "answered", !.answer = z]
<1>1. UNCHANGED <<world, origin, cache>> /\ call[c].pc = "asking"
  BY DEF Answer
<1>2. Becomes(c, s)
  BY AnswerBecomes DEF ZoneInv, TypeInv
<1>3. z \in Zone \cup {Absent} /\ (z # Absent => Fits(call[c].tenant, call[c].ref, z))
  BY <1>1, Carries, LookupType, LookupFits DEF ZoneInv, TypeInv, Active, Resolving
<1>. HIDE DEF z
<1>4. s \in CallRecord /\ WellFormed(s)
  BY <1>1, <1>3, Carries DEF CallRecord, Phase, WellFormed, Active, Working, Resolving
<1>5. FittingCall(s)
  BY <1>1, <1>3, Carries DEF CallRecord, FittingCall, Working, Resolving
<1>. HIDE DEF s
<1>. QED
  BY <1>1, <1>2, <1>4, <1>5, CallMoves, CacheFits

\* A zone is learned under its own id and name.
LEMMA LearnKeeps == ASSUME ZoneInv, NEW c \in Call, Learn(c) PROVE ZoneInv'
<1>. DEFINE z == call[c].answer
            t == call[c].tenant
            s == [call[c] EXCEPT !.pc = "running", !.zone = z]
<1>1. /\ UNCHANGED <<world, origin>> /\ call[c].pc = "answered"
      /\ z = Absent => cache' = cache
      /\ z # Absent => cache' = [cache EXCEPT ![t][z.id] = z, ![t][z.name] = z]
  BY DEF Learn, zoneCacheFor
<1>2. /\ call[c] \in CallRecord /\ t \in Tenant /\ call[c].ref \in Ref
      /\ z # Absent => z \in Zone /\ Fits(t, call[c].ref, z)
  BY <1>1, Carries DEF Active, Resolving
<1>3. /\ cache' \in [Tenant -> [Ref -> Zone \cup {Absent}]]
      /\ \A u \in Tenant, k \in Ref : cache'[u][k] # Absent => Fits(u, k, cache'[u][k])
  <2>1. CASE z = Absent
    BY <1>1, <2>1, CacheFits
  <2>2. CASE z # Absent
    <3>1. z \in Zone /\ z.id \in Ref /\ z.name \in Ref /\ origin[z.id] = <<t, z.name>>
      BY <1>2, <2>2 DEF Zone, Ref, Fits
    <3>2. \A u \in Tenant, k \in Ref :
             cache'[u][k] = IF u = t /\ k \in {z.id, z.name} THEN z ELSE cache[u][k]
      BY <1>1, <1>2, <2>2, <3>1, CacheFits
    <3>3. cache' \in [Tenant -> [Ref -> Zone \cup {Absent}]]
      BY <1>1, <1>2, <2>2, <3>1, CacheFits
    <3>4. \A k \in {z.id, z.name} : Fits(t, k, z)
      BY <3>1 DEF Fits
    <3>. HIDE DEF z, t
    <3>5. \A u \in Tenant, k \in Ref : cache'[u][k] # Absent => Fits(u, k, cache'[u][k])
      BY <3>2, <3>4, CacheFits
    <3>. QED
      BY <3>3, <3>5
  <2>. QED
    BY <2>1, <2>2
<1>4. CASE Becomes(c, s) /\ z # Absent
  <2>1. s \in CallRecord
    BY <1>2, <1>4 DEF CallRecord, Phase
  <2>2. WellFormed(s) /\ FittingCall(s)
    BY <1>2, <1>4 DEF CallRecord, WellFormed, FittingCall, Working, Resolving
  <2>. HIDE DEF s
  <2>. QED
    BY <1>1, <1>3, <1>4, <2>1, <2>2, CallMoves
<1>5. ASSUME NEW o \in {"noZone", call[c].outcome}, Ended(c, o) PROVE ZoneInv'
  <2>1. o \in {"ok", "none", "noZone", "noRecord", "zoneGone", "error"}
    BY <1>2 DEF CallRecord
  <2>. QED
    BY <1>1, <1>3, <1>5, <2>1, CallEnds
<1>. QED
  BY <1>4, <1>5, LearnBecomes DEF ZoneInv, TypeInv

LEMMA GoneKeeps ==
    ASSUME ZoneInv, NEW c \in Call, call[c].pc = "running", NEW o \in {"noRecord", "zoneGone"},
           Becomes(c, [call[c] EXCEPT !.pc = "gone", !.outcome = o]),
           UNCHANGED <<world, origin, cache>>
    PROVE  ZoneInv'
<1>. DEFINE s == [call[c] EXCEPT !.pc = "gone", !.outcome = o]
<1>1. s \in CallRecord
  BY Carries DEF CallRecord, Phase
<1>2. WellFormed(s) /\ FittingCall(s)
  BY Carries DEF CallRecord, WellFormed, FittingCall, Active, Working, Resolving
<1>. HIDE DEF s
<1>. QED
  BY <1>1, <1>2, CallMoves, CacheFits DEF s

LEMMA ServeKeeps ==
    ASSUME ZoneInv, NEW c \in Call, NEW o, Serve(c, o) \/ Miss(c) \/ Fail(c)
    PROVE  ZoneInv'
<1>1. CASE Serve(c, o)
  BY <1>1, ServeBecomes, GoneKeeps, CallEnds, CacheFits DEF Serve, ZoneInv, TypeInv
<1>2. CASE Miss(c)
  BY <1>2, MissBecomes, GoneKeeps DEF Miss, ZoneInv, TypeInv
<1>3. CASE Fail(c)
  BY <1>3, FinishEnds, CallEnds, CacheFits DEF Fail, ZoneInv, TypeInv
<1>. QED
  BY <1>1, <1>2, <1>3

LEMMA NotFoundKeeps == ASSUME ZoneInv, NEW c \in Call, NotFound(c) PROVE ZoneInv'
<1>. DEFINE t == call[c].tenant
            z == call[c].zone
            s == [call[c] EXCEPT !.pc = "asking", !.evicted = TRUE]
<1>1. UNCHANGED <<world, origin>> /\ call[c].pc = "gone"
  BY DEF NotFound
<1>2. /\ call[c] \in CallRecord /\ t \in Tenant /\ call[c].ref \in Ref
      /\ z \in Zone /\ Fits(t, call[c].ref, z)
  BY <1>1, Carries DEF Active, Working
<1>3. cache' \in {cache, [cache EXCEPT ![t] = Evict(cache[t], z)]}
  BY DEF NotFound, zoneCacheFor
<1>4. /\ cache' \in [Tenant -> [Ref -> Zone \cup {Absent}]]
      /\ \A u \in Tenant, k \in Ref : cache'[u][k] # Absent => Fits(u, k, cache'[u][k])
  <2>1. z.id \in Ref /\ z.name \in Ref
    BY <1>2 DEF Zone, Ref
  <2>2. Evict(cache[t], z) \in [Ref -> Zone \cup {Absent}]
    BY <1>2, <2>1, CacheFits DEF Evict
  <2>3. \A k \in Ref : Evict(cache[t], z)[k] \in {cache[t][k], Absent}
    BY <1>2, <2>1, CacheFits DEF Evict
  <2>4. \A u \in Tenant, k \in Ref : cache'[u][k] \in {cache[u][k], Absent}
    BY <1>2, <1>3, <2>3, CacheFits
  <2>5. cache' \in [Tenant -> [Ref -> Zone \cup {Absent}]]
    BY <1>2, <1>3, <2>2, CacheFits
  <2>. QED
    BY <2>4, <2>5, CacheFits
<1>5. CASE Becomes(c, s)
  <2>1. s \in CallRecord
    BY <1>2 DEF CallRecord, Phase
  <2>2. WellFormed(s) /\ FittingCall(s)
    BY <1>2 DEF CallRecord, WellFormed, FittingCall, Working, Resolving
  <2>. HIDE DEF s
  <2>. QED
    BY <1>1, <1>4, <1>5, <2>1, <2>2, CallMoves
<1>6. CASE Ended(c, call[c].outcome)
  <2>1. call[c].outcome \in {"ok", "none", "noZone", "noRecord", "zoneGone", "error"}
    BY <1>2 DEF CallRecord
  <2>. QED
    BY <1>1, <1>4, <1>6, <2>1, CallEnds
<1>. QED
  BY <1>2, <1>5, <1>6, NotFoundBecomes DEF ZoneInv, Fits

LEMMA ReturnKeeps == ASSUME ZoneInv, NEW c \in Call, Return(c) PROVE ZoneInv'
<1>1. NoCall \in CallRecord /\ WellFormed(NoCall) /\ FittingCall(NoCall)
  BY DEF CallRecord, NoCall, Phase, WellFormed, FittingCall, Working, Resolving
<1>. QED
  BY <1>1, CallMoves, CacheFits DEF Return, Becomes

LEMMA ZoneStep == ZoneInv /\ [Next]_vars => ZoneInv'
<1>. SUFFICES ASSUME ZoneInv, [Next]_vars PROVE ZoneInv'
  OBVIOUS
<1>1. ASSUME NEW c \in Call, NEW t \in Tenant, NEW ref \in Known, Start(c, t, ref)
      PROVE  ZoneInv'
  BY <1>1, StartKeeps DEF Known, Ref
<1>2. CASE UNCHANGED vars
  BY <1>2 DEF vars, ZoneInv, TypeInv, TypeOK, WellFormed, OwnedInv, FittingCall, Fits
<1>. QED
  BY <1>1, <1>2, WorldStep, AnswerKeeps, LearnKeeps, ServeKeeps, NotFoundKeeps, ReturnKeeps
  DEF Next, ZonesChange

LEMMA ZoneInvariant == Spec => []ZoneInv
<1>1. Init => ZoneInv
  BY TypeInit, OwnedInit DEF ZoneInv
<1>. QED
  BY <1>1, ZoneStep, PTL DEF Spec

(***************************************************************************)
(* Every variable keeps its shape.                                         *)
(***************************************************************************)
THEOREM TypeCorrect == Spec => []TypeOK
BY ZoneInvariant, PTL DEF ZoneInv, TypeInv

(***************************************************************************)
(* No tenant's zone ever enters another tenant's cache, and no call works  *)
(* on a zone that is not its tenant's: whatever calls overlap, however     *)
(* late their answers, and however often zones are created again.          *)
(***************************************************************************)
THEOREM TenantsIsolated == Spec => []TenantIsolation
<1>1. ZoneInv => TenantIsolation
  BY Carries DEF ZoneInv, OwnedInv, Fits, TenantIsolation, Working
<1>. QED
  BY <1>1, ZoneInvariant, PTL

-----------------------------------------------------------------------------

(***************************************************************************)
(* Why stale entries do no harm.  While a tenant's zones stay as they are, *)
(* what a call by name learns or works on after an eviction is the zone of *)
(* that name, so a 404 about a zone that is gone can only come from the    *)
(* first, cached attempt, and the answer that follows it is another zone.  *)
(***************************************************************************)
UpToDate(r, i) ==
    /\ r.pc = "answered" => r.answer # Absent /\ r.answer.id = i
    /\ r.pc \in Working /\ (~r.wasCached \/ r.evicted) => r.zone.id = i
    /\ r.pc \in Resolving \cup {"gone"} /\ r.outcome = "zoneGone" => r.zone.id # i
    /\ r.pc = "done" => r.outcome \notin {"noZone", "zoneGone"}

SettledCall(r) ==
    /\ r.pc # "idle" => r.tenant \in Tenant
    /\ r.pc \in Resolving \cup Working => r.outcome \in {"none", "noRecord", "zoneGone"}
    /\ r.pc \in Resolving /\ ~r.evicted => r.outcome = "none" /\ ~r.wasCached
    /\ r.pc # "idle" /\ r.calm /\ r.ref \in Name /\ world[r.tenant][r.ref] # Absent
          => UpToDate(r, world[r.tenant][r.ref])

SettledInv == \A c \in Call : SettledCall(call[c])

LEMMA SettledMoves ==
    ASSUME ZoneInv, SettledInv, NEW c \in Call, NEW s, Becomes(c, s), SettledCall(s), world' = world
    PROVE  SettledInv'
<1>1. \A d \in Call : call'[d] = IF d = c THEN s ELSE call[d]
  BY DEF Becomes, ZoneInv, TypeInv, TypeOK
<1>2. ASSUME NEW d \in Call PROVE SettledCall(call'[d])
  BY <1>1 DEF SettledInv
<1>. QED
  BY <1>2 DEF SettledInv, SettledCall, UpToDate

LEMMA SettledEnds ==
    ASSUME ZoneInv, SettledInv, NEW c \in Call, Active(c), NEW o, Ended(c, o), world' = world,
           \/ o \in {"ok", "error"}
           \/ call[c].calm /\ call[c].ref \in Name /\ world[call[c].tenant][call[c].ref] # Absent
                => o \notin {"noZone", "zoneGone"}
    PROVE  SettledInv'
<1>. DEFINE s == [call[c] EXCEPT !.pc = "done", !.outcome = o]
<1>1. call[c] \in CallRecord /\ call[c].tenant \in Tenant
  BY Carries
<1>2. /\ s.pc = "done" /\ s.outcome = o /\ s.tenant = call[c].tenant
      /\ s.ref = call[c].ref /\ s.calm = call[c].calm
  BY <1>1 DEF CallRecord
<1>3. Becomes(c, s)
  BY DEF Ended, Becomes
<1>. HIDE DEF s
<1>4. SettledCall(s)
  BY <1>1, <1>2 DEF SettledCall, UpToDate, Working, Resolving
<1>. QED
  BY <1>3, <1>4, SettledMoves

LEMMA SettledWorld == ASSUME ZoneInv, SettledInv, ZonesChange PROVE SettledInv'
<1>1. PICK t \in Tenant, n \in Name : Delete(t, n) \/ \E i \in ZoneId : Create(t, n, i)
  BY DEF ZonesChange
<1>2. /\ call' = Unsettle(t)
      /\ \A u \in Tenant \ {t} : world'[u] = world[u]
  BY <1>1 DEF Delete, Create, ZoneInv, TypeInv, TypeOK
<1>3. ASSUME NEW c \in Call PROVE SettledCall(call[c])'
  <2>1. SettledCall(call[c]) /\ call[c] \in CallRecord
    BY DEF SettledInv, ZoneInv, TypeInv, TypeOK
  <2>2. CASE call[c].tenant = t
    <3>1. call'[c].calm = FALSE
      BY <1>2, <2>1, <2>2 DEF Unsettle, CallRecord
    <3>. QED
      BY <2>1, <3>1, CallsKept DEF SettledCall, ZoneInv, TypeInv
  <2>3. CASE call[c].tenant # t
    <3>1. call'[c] = call[c]
      BY <1>2, <2>3 DEF Unsettle
    <3>. QED
      BY <1>2, <2>1, <2>3, <3>1 DEF SettledCall, UpToDate
  <2>. QED
    BY <2>2, <2>3
<1>. QED
  BY <1>3 DEF SettledInv

LEMMA SettledStart ==
    ASSUME ZoneInv, SettledInv, NEW c \in Call, NEW t \in Tenant, NEW ref \in Ref, Start(c, t, ref)
    PROVE  SettledInv'
<1>. DEFINE m == cache[zoneCacheFor(t)]
            entered == [NoCall EXCEPT !.tenant = t, !.ref = ref, !.wasCached = m[ref] # Absent]
            hit == [entered EXCEPT !.pc = "running", !.zone = m[ref]]
            miss == [entered EXCEPT !.pc = "asking"]
<1>1. world' = world
  BY DEF Start
<1>2. CASE m[ref] # Absent
  <2>1. Becomes(c, hit)
    BY <1>2 DEF Start, Resolve, Becomes
  <2>2. SettledCall(hit)
    BY <1>2 DEF SettledCall, UpToDate, NoCall, Working, Resolving
  <2>. HIDE DEF hit
  <2>. QED
    BY <1>1, <2>1, <2>2, SettledMoves
<1>3. CASE m[ref] = Absent
  <2>1. Becomes(c, miss)
    BY <1>3 DEF Start, Resolve, Becomes
  <2>2. SettledCall(miss)
    BY <1>3 DEF SettledCall, UpToDate, NoCall, Working, Resolving
  <2>. HIDE DEF miss
  <2>. QED
    BY <1>1, <2>1, <2>2, SettledMoves
<1>. QED
  BY <1>2, <1>3

LEMMA SettledAnswer ==
    ASSUME ZoneInv, SettledInv, NEW c \in Call, Answer(c) PROVE SettledInv'
<1>. DEFINE z == Lookup(call[c].tenant, call[c].ref)
            s == [call[c] EXCEPT !.pc = "answered", !.answer = z]
<1>1. world' = world /\ call[c].pc = "asking" /\ call[c] \in CallRecord /\ SettledCall(call[c])
  BY Carries DEF Answer, SettledInv
<1>2. Becomes(c, s)
  BY AnswerBecomes DEF ZoneInv, TypeInv
<1>3. ASSUME call[c].ref \in Name, world[call[c].tenant][call[c].ref] # Absent
      PROVE  z.id = world[call[c].tenant][call[c].ref] /\ z # Absent
  <2>1. z \in Zone \cup {Absent}
    BY <1>1, Carries, LookupType DEF Active, Resolving, ZoneInv, TypeInv
  <2>2. z = [id |-> world[call[c].tenant][call[c].ref], name |-> call[c].ref]
    BY <1>3 DEF Lookup
  <2>3. world[call[c].tenant][call[c].ref] \in ZoneId
    BY <1>1, <1>3 DEF SettledCall, ZoneInv, TypeInv, TypeOK
  <2>. QED
    BY <1>3, <2>2, <2>3, RefAssumption DEF Zone
<1>. HIDE DEF z
<1>4. SettledCall(s)
  BY <1>1, <1>3 DEF SettledCall, UpToDate, CallRecord, Working, Resolving
<1>. HIDE DEF s
<1>. QED
  BY <1>1, <1>2, <1>4, SettledMoves

LEMMA SettledLearn ==
    ASSUME ZoneInv, SettledInv, NEW c \in Call, Learn(c) PROVE SettledInv'
<1>. DEFINE z == call[c].answer
            s == [call[c] EXCEPT !.pc = "running", !.zone = z]
<1>1. /\ world' = world /\ call[c].pc = "answered" /\ call[c] \in CallRecord
      /\ SettledCall(call[c]) /\ Active(c)
  BY Carries DEF Learn, SettledInv, Active, Resolving
<1>2. CASE z = Absent /\ Ended(c, "noZone")
  BY <1>1, <1>2, SettledEnds DEF SettledCall, UpToDate
<1>3. CASE call[c].evicted /\ z.id = call[c].zone.id /\ Ended(c, call[c].outcome)
  BY <1>1, <1>3, SettledEnds DEF SettledCall, UpToDate, Resolving
<1>4. CASE Becomes(c, s)
  <2>1. SettledCall(s)
    BY <1>1, <1>4 DEF SettledCall, UpToDate, CallRecord, Working, Resolving
  <2>. HIDE DEF s
  <2>. QED
    BY <1>1, <1>4, <2>1, SettledMoves
<1>. QED
  BY <1>2, <1>3, <1>4, LearnBecomes DEF ZoneInv, TypeInv

\* A zone that is not found is not the one its tenant has.
LEMMA MissedIsGone ==
    ASSUME ZoneInv, NEW t \in Tenant, NEW z \in Zone, Lookup(t, z.id) = Absent, NEW n \in Name
    PROVE  world[t][n] # z.id
<1>. SUFFICES ASSUME world[t][n] = z.id PROVE FALSE
  OBVIOUS
<1>. DEFINE m == CHOOSE k \in Name : world[t][k] = z.id
<1>1. z.id \in ZoneId /\ z.id \notin Name
  BY RefAssumption DEF Zone
<1>2. m \in Name
  OBVIOUS
<1>3. Lookup(t, z.id) = [id |-> z.id, name |-> m]
  BY <1>1 DEF Lookup
<1>. HIDE DEF m
<1>. QED
  BY <1>1, <1>2, <1>3, RefAssumption DEF Zone

LEMMA SettledServe ==
    ASSUME ZoneInv, SettledInv, NEW c \in Call, NEW o, Serve(c, o) \/ Miss(c) \/ Fail(c)
    PROVE  SettledInv'
<1>1. /\ world' = world /\ call[c] \in CallRecord /\ SettledCall(call[c]) /\ Active(c)
      /\ call[c].tenant \in Tenant
  BY Carries DEF Serve, Miss, Fail, SettledInv, Active, Working, Resolving
<1>2. CASE Ended(c, "ok") \/ Ended(c, "error")
  BY <1>1, <1>2, SettledEnds
<1>3. CASE Miss(c)
  <2>. DEFINE s == [call[c] EXCEPT !.pc = "gone", !.outcome = "zoneGone"]
  <2>1. /\ call[c].pc = "running" /\ call[c].zone \in Zone
        /\ Lookup(call[c].tenant, call[c].zone.id) = Absent
    BY <1>3, Carries DEF Miss, Working
  <2>2. \A n \in Name : world[call[c].tenant][n] # call[c].zone.id
    BY <1>1, <2>1, MissedIsGone
  <2>3. SettledCall(s)
    BY <1>1, <2>1, <2>2 DEF SettledCall, UpToDate, CallRecord, Working, Resolving
  <2>4. Becomes(c, s)
    BY <1>3, MissBecomes DEF ZoneInv, TypeInv
  <2>. HIDE DEF s
  <2>. QED
    BY <1>1, <2>3, <2>4, SettledMoves
<1>4. CASE call[c].pc = "running" /\ Becomes(c, [call[c] EXCEPT !.pc = "gone", !.outcome = "noRecord"])
  <2>. DEFINE s == [call[c] EXCEPT !.pc = "gone", !.outcome = "noRecord"]
  <2>1. SettledCall(s)
    BY <1>1, <1>4 DEF SettledCall, UpToDate, CallRecord, Working, Resolving
  <2>. HIDE DEF s
  <2>. QED
    BY <1>1, <1>4, <2>1, SettledMoves DEF s
<1>. QED
  BY <1>2, <1>3, <1>4, ServeBecomes, FinishEnds DEF Serve, Fail, ZoneInv, TypeInv

LEMMA SettledNotFound ==
    ASSUME ZoneInv, SettledInv, NEW c \in Call, NotFound(c) PROVE SettledInv'
<1>. DEFINE s == [call[c] EXCEPT !.pc = "asking", !.evicted = TRUE]
<1>1. /\ world' = world /\ call[c].pc = "gone" /\ call[c] \in CallRecord
      /\ SettledCall(call[c]) /\ Active(c)
      /\ call[c].ref \in {call[c].zone.id, call[c].zone.name}
  BY Carries DEF NotFound, SettledInv, Active, Working, Fits
<1>2. CASE (~call[c].wasCached \/ call[c].evicted) /\ Ended(c, call[c].outcome)
  BY <1>1, <1>2, SettledEnds DEF SettledCall, UpToDate, Working
<1>3. CASE Becomes(c, s)
  <2>1. SettledCall(s)
    BY <1>1, <1>3 DEF SettledCall, UpToDate, CallRecord, Working, Resolving
  <2>. HIDE DEF s
  <2>. QED
    BY <1>1, <1>3, <2>1, SettledMoves
<1>. QED
  BY <1>1, <1>2, <1>3, NotFoundBecomes DEF ZoneInv

LEMMA SettledStep == ZoneInv /\ SettledInv /\ [Next]_vars => SettledInv'
<1>. SUFFICES ASSUME ZoneInv, SettledInv, [Next]_vars PROVE SettledInv'
  OBVIOUS
<1>1. ASSUME NEW c \in Call, NEW t \in Tenant, NEW ref \in Known, Start(c, t, ref)
      PROVE  SettledInv'
  BY <1>1, SettledStart DEF Known, Ref
<1>2. ASSUME NEW c \in Call, Return(c) PROVE SettledInv'
  <2>1. SettledCall(NoCall)
    BY DEF SettledCall, NoCall, Working, Resolving
  <2>. QED
    BY <1>2, <2>1, SettledMoves DEF Return, Becomes
<1>3. CASE UNCHANGED vars
  BY <1>3 DEF vars, SettledInv, SettledCall, UpToDate
<1>. QED
  BY <1>1, <1>2, <1>3, SettledWorld, SettledAnswer, SettledLearn, SettledServe, SettledNotFound
  DEF Next, ZonesChange

LEMMA SettledInvariant == Spec => [](ZoneInv /\ SettledInv)
<1>1. Init => SettledInv
  BY DEF Init, SettledInv, SettledCall, NoCall, Working, Resolving
<1>. QED
  BY <1>1, SettledStep, ZoneInvariant, PTL DEF Spec

(***************************************************************************)
(* A call by name made while the tenant's zones stay as they are never     *)
(* fails because of an id that is no longer the zone's, whatever stale     *)
(* entries it met and whatever late answers refilled the cache meanwhile.  *)
(***************************************************************************)
THEOREM RecoveryIsTransparent == Spec => []TransparentRecovery
<1>1. SettledInv => TransparentRecovery
  BY DEF SettledInv, SettledCall, UpToDate, TransparentRecovery
<1>. QED
  BY <1>1, SettledInvariant, PTL

(***************************************************************************)
(* Work that succeeds was done on the zone its reference denotes at that   *)
(* moment.                                                                 *)
(***************************************************************************)
THEOREM ActsOnTheZoneAskedFor == Spec => ActsOnReferencedZone
<1>1. ASSUME ZoneInv, SettledInv, Next, NEW c \in Call, call[c].pc = "running",
             call'[c].outcome = "ok"
      PROVE  \E o \in {"ok", "noRecord"} : Serve(c, o)
  <2>1. call[c].outcome # "ok" /\ call[c] \in CallRecord
    BY <1>1, Carries DEF SettledInv, SettledCall, Working
  <2>2. ASSUME ZonesChange PROVE FALSE
    BY <1>1, <2>1, <2>2, CallsKept DEF ZoneInv, TypeInv
  <2>3. ASSUME NEW d \in Call, NEW s, Becomes(d, s), d # c PROVE FALSE
    BY <1>1, <2>1, <2>3 DEF Becomes, ZoneInv, TypeInv, TypeOK
  <2>4. ASSUME NEW d \in Call, NEW o, Ended(d, o), d # c PROVE FALSE
    BY <1>1, <2>1, <2>4 DEF Ended, ZoneInv, TypeInv, TypeOK
  <2>5. ASSUME NEW d \in Call, NEW t \in Tenant, NEW ref \in Known, Start(d, t, ref)
        PROVE  FALSE
    <3>1. d # c
      BY <1>1, <2>5 DEF Start, NoCall
    <3>. QED
      BY <2>3, <2>5, <3>1 DEF Start, Becomes
  <2>6. ASSUME NEW d \in Call, Answer(d) \/ Learn(d) \/ NotFound(d) \/ Return(d) PROVE FALSE
    <3>1. d # c
      BY <1>1, <2>6 DEF Answer, Learn, NotFound, Return
    <3>2. CASE NotFound(d)
      BY <1>1, <2>3, <2>4, <3>1, <3>2, NotFoundBecomes, Carries DEF NotFound, ZoneInv, Fits, Working
    <3>. QED
      BY <1>1, <2>3, <2>4, <2>6, <3>1, <3>2, AnswerBecomes, LearnBecomes
      DEF Return, Becomes, ZoneInv, TypeInv
  <2>7. ASSUME NEW d \in Call, Miss(d) \/ Fail(d) PROVE FALSE
    <3>1. d # c
      BY <1>1, <2>1, <2>7 DEF Miss, Fail, Finish, CallRecord, ZoneInv, TypeInv, TypeOK
    <3>. QED
      BY <1>1, <2>3, <2>4, <2>7, <3>1, MissBecomes, FinishEnds DEF Fail, ZoneInv, TypeInv
  <2>8. ASSUME NEW d \in Call, NEW o, Serve(d, o), d # c PROVE FALSE
    BY <1>1, <2>3, <2>4, <2>8, ServeBecomes DEF ZoneInv, TypeInv
  <2>. QED
    BY <1>1, <2>2, <2>5, <2>6, <2>7, <2>8 DEF Next, ZonesChange
\* A zone its tenant still has is the one it was created as.
<1>2. ASSUME ZoneInv, NEW c \in Call, NEW o, Serve(c, o)
      PROVE  call[c].zone = Lookup(call[c].tenant, call[c].ref)
  <2>. DEFINE t == call[c].tenant
              z == call[c].zone
              m == CHOOSE n \in Name : world[t][n] = z.id
  <2>1. /\ t \in Tenant /\ call[c].ref \in {z.id, z.name} /\ z \in Zone
        /\ origin[z.id] = <<t, z.name>>
    BY <1>2, Carries DEF Serve, Active, Working, Fits
  <2>2. z.id \in ZoneId /\ z.id \notin Name /\ z.name \in Name
        /\ z = [id |-> z.id, name |-> z.name]
    BY <2>1, RefAssumption DEF Zone
  <2>3. \E n \in Name : world[t][n] = z.id
    BY <1>2, <2>2 DEF Serve, Lookup
  <2>4. m \in Name /\ world[t][m] = z.id
    BY <2>3
  <2>5. Lookup(t, z.id) = [id |-> z.id, name |-> m]
    BY <2>2, <2>3 DEF Lookup
  <2>. HIDE DEF m
  <2>6. z.id # Absent
    BY <2>2, RefAssumption DEF Ref
  <2>7. origin[z.id] = <<t, m>>
    BY <1>2, <2>1, <2>4, <2>6 DEF ZoneInv, OwnedInv
  <2>8. m = z.name
    BY <2>1, <2>7
  <2>9. Lookup(t, z.name) = [id |-> z.id, name |-> z.name]
    BY <2>2, <2>4, <2>6, <2>8 DEF Lookup
  <2>. QED
    BY <2>1, <2>2, <2>5, <2>8, <2>9
<1>3. ZoneInv /\ SettledInv /\ [Next]_vars =>
        [\A c \in Call : call[c].pc = "running" /\ call'[c].outcome = "ok"
            => call[c].zone = Lookup(call[c].tenant, call[c].ref)]_vars
  BY <1>1, <1>2
<1>. QED
  BY <1>3, SettledInvariant, PTL DEF Spec, ActsOnReferencedZone

=============================================================================
