-------------------------- MODULE RecordToolsProofs --------------------------
(***************************************************************************)
(* Theorems about the tools that write records, for all sets of records,   *)
(* zones, arguments and concurrent calls, and any number of edits made by  *)
(* others and of times the zone is created again.                          *)
(***************************************************************************)
EXTENDS RecordTools, TLAPS

-----------------------------------------------------------------------------
\* What the code computes from records and arguments.

LEMMA PatchedFields ==
    ASSUME NEW r \in Record, NEW p \in Fields
    PROVE  /\ Patched(r, p) \in Record
           /\ \A f \in {"type", "content", "proxied", "priority", "comment"} :
                 Patched(r, p)[f] = IF p[f] = Absent THEN r[f] ELSE p[f]
<1>1. DOMAIN r = {"type", "content", "proxied", "priority", "comment"}
  BY DEF Record
<1>2. Patched(r, p) =
        [type     |-> IF p.type = Absent THEN r.type ELSE p.type,
         content  |-> IF p.content = Absent THEN r.content ELSE p.content,
         proxied  |-> IF p.proxied = Absent THEN r.proxied ELSE p.proxied,
         priority |-> IF p.priority = Absent THEN r.priority ELSE p.priority,
         comment  |-> IF p.comment = Absent THEN r.comment ELSE p.comment]
  BY <1>1 DEF Patched
<1>3. Patched(r, p) \in Record
  BY <1>2 DEF Record, Fields
<1>. QED
  BY <1>1, <1>3 DEF Patched

LEMMA PostedFields ==
    ASSUME NEW a \in Fields, CreateAccepts(a)
    PROVE  /\ Posted(a) \in Record
           /\ Posted(a).type = a.type /\ Posted(a).priority = a.priority
BY DEF Posted, Record, Fields, CreateAccepts

LEMMA SlimFields ==
    ASSUME NEW r \in Record
    PROVE  /\ slimRecord(r) \in Fields
           /\ slimRecord(r).type = r.type /\ slimRecord(r).content = r.content
           /\ slimRecord(r).proxied = r.proxied /\ slimRecord(r).priority = r.priority
           /\ slimRecord(r).comment = IF r.comment = NoComment THEN Absent ELSE r.comment
BY DEF slimRecord, Record, Fields
-----------------------------------------------------------------------------

(***************************************************************************)
(* What is true of a call wherever it stands.  Every write ends its call,  *)
(* so one that has not ended has written nothing; and what it was asked    *)
(* for has passed the checks that come before its first request.           *)
(***************************************************************************)
WellFormed(r, ids) ==
    /\ r.pc # "done" => r.effects = 0
    /\ r.pc \in {"idle", "reading", "writing"} => r.outcome = "none"
    /\ r.pc = "stray" => r.outcome = "error"
    /\ r.effects \in {0, 1}
    /\ r.outcome = "ok" => r.effects = 1
    /\ r.outcome \in {"refused", "notFound"} => r.effects = 0
    /\ r.pc # "idle" => /\ r.op # "none"
                        /\ r.zone \in ids
                        /\ r.op = "create" => r.pc # "reading" /\ CreateAccepts(r.args)
                        /\ r.op # "create" => r.id \in RecordId
                        /\ r.op = "delete" => r.args = NoFields

\* `before' is what the tool showed itself of record p, and passed its check.
Seen(r, p) == /\ r.op = "update" => UpdateAccepts(r.before, r.args)
              /\ ~r.touched => p \in Record /\ r.before = slimRecord(p)

\* While the zone the call reads is the zone of now, and nobody else wrote
\* the record, it is still the one that was read.  A zone that is another by
\* now never is this one again.
Current(r, recs, z) ==
    r.pc \in {"writing", "stray"} /\ r.op # "create" /\ r.zone = z => Seen(r, recs[r.id])

\* The record just before the write is the one that was read.
Wrote(r) == r.effects = 1 /\ r.op # "create" => Seen(r, r.prior)

\* What a call may be while the zone has had the ids `ids' and is now `z'.
CallOK(r, recs, z, ids) == WellFormed(r, ids) /\ Current(r, recs, z) /\ Wrote(r)

CallsInv == \A c \in Call : CallOK(call[c], records, zone, zones)

UndoInv == TypeOK /\ CallsInv

LEMMA NoCallIsACall == NoCall \in CallRecord /\ NoFields \in Fields
BY DEF NoCall, CallRecord, NoFields, Fields

LEMMA InitInv == Init => UndoInv
<1>. SUFFICES ASSUME Init PROVE UndoInv
  OBVIOUS
<1>1. TypeOK
  BY NoCallIsACall, MaxEditsAssumption DEF Init, TypeOK
<1>2. CallOK(NoCall, records, zone, zones)
  BY DEF CallOK, WellFormed, Current, Wrote, NoCall
<1>. QED
  BY <1>1, <1>2 DEF Init, UndoInv, CallsInv

-----------------------------------------------------------------------------
\* One call moves; nothing else does.

LEMMA CallMoves ==
    ASSUME UndoInv, NEW c \in Call, NEW r \in CallRecord, call' = [call EXCEPT ![c] = r],
           CallOK(r, records, zone, zones), UNCHANGED <<zone, zones, records, given, edits>>
    PROVE  UndoInv'
<1>1. TypeOK'
  BY DEF UndoInv, TypeOK
<1>2. ASSUME NEW d \in Call PROVE CallOK(call[d], records, zone, zones)'
  <2>1. CallOK(call'[d], records, zone, zones)
    BY DEF UndoInv, TypeOK, CallsInv
  <2>. QED
    BY <2>1 DEF CallOK, WellFormed, Current, Wrote
<1>. QED
  BY <1>1, <1>2 DEF UndoInv, CallsInv

LEMMA StartKeeps ==
    ASSUME UndoInv, NEW c \in Call, NEW op \in {"create", "update", "delete"},
           NEW args \in Args, NEW i \in RecordId \cup {Absent}, NEW z \in ZoneId,
           NEW cached \in BOOLEAN, Start(c, op, args, i, z, cached)
    PROVE  UndoInv'
<1>. DEFINE r == [NoCall EXCEPT !.pc = FirstRequest(op), !.op = op, !.args = args, !.id = i,
                                !.zone = z, !.wasCached = cached]
<1>1. r \in CallRecord
  <2>1. args \in Fields
    BY ArgsAssumption
  <2>2. FirstRequest(op) \in {"writing", "reading"}
    BY DEF FirstRequest
  <2>. HIDE DEF FirstRequest
  <2>. QED
    BY <2>1, <2>2, NoCallIsACall DEF CallRecord
<1>2. CallOK(r, records, zone, zones)
  <2>1. /\ op = "create" => CreateAccepts(args)
        /\ op # "create" => i \in RecordId
        /\ op = "delete" => args = NoFields
        /\ z \in zones
    BY DEF Start, UndoInv, TypeOK
  <2>2. WellFormed(r, zones)
    BY <2>1 DEF WellFormed, NoCall, FirstRequest
  <2>. QED
    BY <2>2 DEF CallOK, Current, Wrote, NoCall, FirstRequest
<1>. HIDE DEF r
<1>3. call' = [call EXCEPT ![c] = r] /\ UNCHANGED <<zone, zones, records, given, edits>>
  BY DEF Start, r
<1>. QED
  BY <1>1, <1>2, <1>3, CallMoves

LEMMA ReadKeeps ==
    ASSUME UndoInv, NEW c \in Call, Read(c)
    PROVE  UndoInv'
<1>. DEFINE p == records[call[c].id]
            refusal == [call[c] EXCEPT !.pc = "done", !.outcome = "refused"]
            goOn == [call[c] EXCEPT !.pc = "writing", !.before = slimRecord(p)]
<1>1. /\ call[c] \in CallRecord /\ CallOK(call[c], records, zone, zones)
      /\ call[c].pc = "reading" /\ call[c].op # "create"
      /\ p \in Record
  BY AbsentAssumption
     DEF Read, Found, UndoInv, TypeOK, CallsInv, CallOK, WellFormed, CallRecord
<1>2. slimRecord(p) \in Fields
  BY <1>1, SlimFields
<1>3. refusal \in CallRecord /\ goOn \in CallRecord
  BY <1>1, <1>2 DEF CallRecord
<1>4. CallOK(refusal, records, zone, zones)
  BY <1>1 DEF CallOK, WellFormed, Current, Wrote, CallRecord
<1>5. ASSUME call[c].op = "update" => UpdateAccepts(slimRecord(p), call[c].args)
      PROVE  CallOK(goOn, records, zone, zones)
  <2>1. WellFormed(goOn, zones) /\ Wrote(goOn)
    BY <1>1 DEF CallOK, WellFormed, Wrote, CallRecord
  <2>2. Seen(goOn, p)
    BY <1>1, <1>5 DEF Seen, CallRecord
  <2>. QED
    BY <1>1, <2>1, <2>2 DEF CallOK, Current, CallRecord
<1>6. /\ call' = IF call[c].op = "update" /\ ~UpdateAccepts(slimRecord(p), call[c].args)
                 THEN [call EXCEPT ![c] = refusal] ELSE [call EXCEPT ![c] = goOn]
      /\ UNCHANGED <<zone, zones, records, given, edits>>
  BY <1>1 DEF Read, Finish, UndoInv, TypeOK
<1>. HIDE DEF refusal, goOn
<1>. QED
  BY <1>3, <1>4, <1>5, <1>6, CallMoves

LEMMA FailKeeps ==
    ASSUME UndoInv, NEW c \in Call, NEW stray \in BOOLEAN, Fail(c, stray)
    PROVE  UndoInv'
<1>. DEFINE r == [call[c] EXCEPT !.outcome = "error",
                     !.pc = IF stray /\ call[c].pc = "writing" THEN "stray" ELSE "done"]
<1>1. /\ call[c] \in CallRecord /\ CallOK(call[c], records, zone, zones)
      /\ call[c].pc \in {"reading", "writing"}
  BY DEF Fail, UndoInv, TypeOK, CallsInv
<1>2. r \in CallRecord
  BY <1>1 DEF CallRecord
<1>3. CallOK(r, records, zone, zones)
  <2>1. WellFormed(r, zones) /\ Wrote(r)
    BY <1>1 DEF CallOK, WellFormed, Wrote, CallRecord
  <2>2. Current(r, records, zone)
    BY <1>1 DEF CallOK, Current, Seen, CallRecord
  <2>. QED
    BY <2>1, <2>2 DEF CallOK
<1>4. call' = [call EXCEPT ![c] = r] /\ UNCHANGED <<zone, zones, records, given, edits>>
  BY <1>1 DEF Fail, UndoInv, TypeOK
<1>. HIDE DEF r
<1>. QED
  BY <1>2, <1>3, <1>4, CallMoves

LEMMA NotFoundKeeps ==
    ASSUME UndoInv, NEW c \in Call, NotFound(c)
    PROVE  UndoInv'
<1>. DEFINE again == [call[c] EXCEPT !.pc = FirstRequest(call[c].op), !.zone = zone,
                                     !.retried = TRUE, !.before = NoFields]
            missing == [call[c] EXCEPT !.pc = "done", !.outcome = "notFound"]
<1>1. /\ call[c] \in CallRecord /\ CallOK(call[c], records, zone, zones)
      /\ call[c].pc \in {"reading", "writing"}
      /\ zone \in zones /\ zone \in ZoneId
  BY DEF NotFound, UndoInv, TypeOK, CallsInv
<1>2. again \in CallRecord /\ missing \in CallRecord
  <2>1. FirstRequest(call[c].op) \in {"idle", "reading", "writing", "stray", "done"}
    BY DEF FirstRequest
  <2>. HIDE DEF FirstRequest
  <2>2. again \in CallRecord
    BY <1>1, <2>1, NoCallIsACall DEF CallRecord
  <2>. QED
    BY <1>1, <2>2 DEF CallRecord
<1>3. CallOK(missing, records, zone, zones)
  BY <1>1 DEF CallOK, WellFormed, Current, Wrote, CallRecord
<1>4. CallOK(again, records, zone, zones)
  BY <1>1 DEF CallOK, WellFormed, Current, Wrote, CallRecord, FirstRequest
<1>5. /\ call' \in {[call EXCEPT ![c] = again], [call EXCEPT ![c] = missing]}
      /\ UNCHANGED <<zone, zones, records, given, edits>>
  BY <1>1 DEF NotFound, Finish, UndoInv, TypeOK
<1>. HIDE DEF again, missing
<1>. QED
  BY <1>2, <1>3, <1>4, <1>5, CallMoves
-----------------------------------------------------------------------------
\* Records change.

\* What becomes of the other calls when record i becomes p.
Touched(i, r) == IF r.id = i /\ r.pc \in {"writing", "stray"}
                 THEN [r EXCEPT !.touched = TRUE] ELSE r

LEMMA TouchedKeeps ==
    ASSUME TypeOK, NEW i \in RecordId, NEW p, NEW r \in CallRecord,
           CallOK(r, records, zone, zones)
    PROVE  /\ Touched(i, r) \in CallRecord
           /\ CallOK(Touched(i, r), [records EXCEPT ![i] = p], zone, zones)
<1>. DEFINE t == Touched(i, r)
<1>1. t \in CallRecord
  <2>1. [r EXCEPT !.touched = TRUE] \in CallRecord
    BY DEF CallRecord
  <2>. QED
    BY <2>1 DEF Touched
<1>2. WellFormed(t, zones) /\ Wrote(t)
  <2>1. CASE t = r
    BY <2>1 DEF CallOK
  <2>2. CASE r.pc \in {"writing", "stray"} /\ t = [r EXCEPT !.touched = TRUE]
    BY <2>2 DEF CallOK, WellFormed, Wrote, CallRecord
  <2>. QED
    BY <2>1, <2>2 DEF Touched
<1>3. Current(t, [records EXCEPT ![i] = p], zone)
  <2>1. CASE t = r /\ ~(r.id = i /\ r.pc \in {"writing", "stray"})
    <3>1. r.pc \in {"writing", "stray"} /\ r.op # "create"
            => [records EXCEPT ![i] = p][r.id] = records[r.id]
      BY <2>1 DEF TypeOK, CallOK, WellFormed
    <3>. QED
      BY <2>1, <3>1 DEF CallOK, Current
  <2>2. CASE t = [r EXCEPT !.touched = TRUE] /\ r.pc \in {"writing", "stray"}
    BY <2>2 DEF CallOK, Current, Seen, CallRecord
  <2>. QED
    BY <2>1, <2>2 DEF Touched
<1>. QED
  BY <1>1, <1>2, <1>3 DEF CallOK

LEMMA TouchIs ==
    ASSUME NEW i
    PROVE  Touch(i, call) = [d \in Call |-> Touched(i, call[d])]
BY DEF Touch, Touched

LEMMA EditKeeps ==
    ASSUME UndoInv, NEW i \in RecordId, NEW p \in Record \cup {Absent}, Edit(i, p)
    PROVE  UndoInv'
<1>1. /\ records' = [records EXCEPT ![i] = p]
      /\ call' = [d \in Call |-> Touched(i, call[d])]
      /\ UNCHANGED <<zone, zones>>
  BY TouchIs DEF Edit
<1>2. ASSUME NEW d \in Call
      PROVE  call'[d] \in CallRecord /\ CallOK(call'[d], records', zone, zones)
  BY <1>1, TouchedKeeps DEF UndoInv, TypeOK, CallsInv
<1>3. CallsInv'
  BY <1>1, <1>2 DEF CallsInv, CallOK, WellFormed, Current, Wrote
<1>4. call' \in [Call -> CallRecord]
  BY <1>1, <1>2
<1>5. edits' \in 0..MaxEdits /\ given' \subseteq RecordId
  BY MaxEditsAssumption DEF Edit, UndoInv, TypeOK
<1>. QED
  BY <1>1, <1>3, <1>4, <1>5 DEF UndoInv, TypeOK

\* The zone has an id it never had: no call reads it.
LEMMA RecreateKeeps ==
    ASSUME UndoInv, NEW z \in ZoneId, Recreate(z)
    PROVE  UndoInv'
<1>1. TypeOK'
  BY DEF Recreate, UndoInv, TypeOK
<1>2. ASSUME NEW d \in Call PROVE CallOK(call[d], records', z, zones \cup {z})
  <2>1. call[d] \in CallRecord /\ CallOK(call[d], records, zone, zones)
    BY DEF UndoInv, TypeOK, CallsInv
  <2>2. WellFormed(call[d], zones \cup {z}) /\ Wrote(call[d])
    BY <2>1 DEF CallOK, WellFormed
  <2>3. call[d].pc \in {"writing", "stray"} => call[d].zone # z
    BY <2>1 DEF Recreate, CallOK, WellFormed
  <2>. QED
    BY <2>2, <2>3 DEF CallOK, Current
<1>3. zone' = z /\ zones' = zones \cup {z} /\ call' = call
  BY DEF Recreate
<1>. QED
  BY <1>1, <1>2, <1>3 DEF UndoInv, CallsInv

\* A write takes effect: what it makes of the record, and of its own call.
LEMMA EffectWrites ==
    ASSUME UndoInv, NEW c \in Call, NEW i \in RecordId, Effect(c, i),
           call[c].pc \in {"writing", "stray"}
    PROVE  /\ \E p \in Record \cup {Absent} : records' = [records EXCEPT ![i] = p]
           /\ given' \subseteq RecordId
           /\ call[c].op # "create" => /\ call[c].id = i /\ call[c].zone = zone
                                       /\ records[i] \in Record
<1>1. /\ call[c] \in CallRecord /\ WellFormed(call[c], zones)
      /\ call[c].op \in {"create", "update", "delete"}
  BY DEF UndoInv, TypeOK, CallsInv, CallOK, WellFormed, CallRecord
<1>2. call[c].op # "create" => /\ call[c].id = i /\ call[c].zone = zone
                               /\ records[i] \in Record
  BY <1>1, AbsentAssumption DEF Effect, Found, WellFormed, UndoInv, TypeOK
<1>3. call[c].args \in Fields
  BY <1>1 DEF CallRecord
<1>4. \E p \in Record \cup {Absent} : records' = [records EXCEPT ![i] = p]
  <2>1. CASE call[c].op = "create"
    <3>1. Posted(call[c].args) \in Record
      BY <1>1, <1>3, <2>1, PostedFields DEF WellFormed
    <3>. QED
      BY <2>1, <3>1 DEF Effect
  <2>2. CASE call[c].op = "update"
    <3>1. Patched(records[i], call[c].args) \in Record
      BY <1>2, <1>3, <2>2, PatchedFields
    <3>2. records' = [records EXCEPT ![i] = Patched(records[i], call[c].args)]
      BY <2>2 DEF Effect, UndoInv, TypeOK
    <3>. QED
      BY <3>1, <3>2
  <2>3. CASE call[c].op = "delete"
    BY <2>3 DEF Effect
  <2>. QED
    BY <1>1, <2>1, <2>2, <2>3
<1>. QED
  BY <1>2, <1>4 DEF Effect, UndoInv, TypeOK

LEMMA WrittenKeeps ==
    ASSUME UndoInv, NEW c \in Call, NEW i \in RecordId, Effect(c, i),
           NEW outcome \in {"ok", "error"}, call[c].pc \in {"writing", "stray"},
           call' = Written(c, i, outcome)
    PROVE  UndoInv'
<1>. DEFINE r == [call[c] EXCEPT !.pc = "done", !.outcome = outcome,
                                 !.prior = records[i], !.effects = @ + 1]
<1>1. /\ call[c] \in CallRecord /\ CallOK(call[c], records, zone, zones)
      /\ records[i] \in Record \cup {Absent}
  BY DEF UndoInv, TypeOK, CallsInv
<1>2. PICK p \in Record \cup {Absent} : records' = [records EXCEPT ![i] = p]
  BY EffectWrites
<1>3. r \in CallRecord
  <2>1. call[c].effects + 1 \in 0..2
    BY <1>1 DEF CallOK, WellFormed
  <2>2. outcome \in {"none", "ok", "refused", "notFound", "error"}
    OBVIOUS
  <2>. QED
    BY <1>1, <2>1, <2>2 DEF CallRecord
<1>4. CallOK(r, records', zone, zones)
  <2>1. WellFormed(r, zones) /\ r.effects = 1
    BY <1>1 DEF CallOK, WellFormed, CallRecord
  <2>2. call[c].op # "create" => Seen(call[c], records[i])
    BY <1>1, EffectWrites DEF CallOK, Current
  <2>3. Wrote(r)
    BY <1>1, <2>2 DEF Wrote, Seen, CallRecord
  <2>. QED
    BY <1>1, <2>1, <2>3 DEF CallOK, Current, CallRecord
<1>5. call' = [[d \in Call |-> Touched(i, call[d])] EXCEPT ![c] = r]
  BY TouchIs DEF Written
<1>. HIDE DEF r
<1>6. ASSUME NEW d \in Call
      PROVE  call'[d] \in CallRecord /\ CallOK(call'[d], records', zone, zones)
  <2>1. CASE d = c
    BY <1>3, <1>4, <1>5, <2>1
  <2>2. CASE d # c
    <3>1. call'[d] = Touched(i, call[d])
      BY <1>5, <2>2
    <3>. QED
      BY <1>2, <3>1, TouchedKeeps DEF UndoInv, TypeOK, CallsInv
  <2>. QED
    BY <2>1, <2>2
<1>7. UNCHANGED <<zone, zones, edits>>
  BY DEF Effect
<1>8. CallsInv'
  BY <1>6, <1>7 DEF CallsInv, CallOK, WellFormed, Current, Wrote
<1>9. call' \in [Call -> CallRecord]
  BY <1>5, <1>6
<1>. QED
  BY <1>2, <1>7, <1>8, <1>9, EffectWrites DEF UndoInv, TypeOK

LEMMA WriteKeeps ==
    ASSUME UndoInv, NEW c \in Call, NEW i \in RecordId, NEW lost \in BOOLEAN,
           Write(c, i, lost)
    PROVE  UndoInv'
BY WrittenKeeps DEF Write

LEMMA LateWriteKeeps ==
    ASSUME UndoInv, NEW c \in Call, NEW i \in RecordId, LateWrite(c, i)
    PROVE  UndoInv'
<1>1. call[c].pc = "stray" /\ call[c].outcome = "error"
  BY DEF LateWrite, UndoInv, CallsInv, CallOK, WellFormed
<1>. QED
  BY <1>1, WrittenKeeps DEF LateWrite

LEMMA StepInv ==
    ASSUME UndoInv, [Next]_vars
    PROVE  UndoInv'
<1>1. ASSUME NEW c \in Call, Step(c) PROVE UndoInv'
  BY <1>1, StartKeeps, ReadKeeps, WriteKeeps, FailKeeps, LateWriteKeeps, NotFoundKeeps DEF Step
<1>2. CASE UNCHANGED vars
  BY <1>2 DEF vars, UndoInv, TypeOK, CallsInv, CallOK, WellFormed, Current, Wrote
<1>. QED
  BY <1>1, <1>2, EditKeeps, RecreateKeeps DEF Next

LEMMA Invariance == Spec => []UndoInv
BY InitInv, StepInv, PTL DEF Spec

-----------------------------------------------------------------------------

(***************************************************************************)
(* Every variable keeps its shape: what Cloudflare merges from a record    *)
(* and a patch, or fills in of what a create leaves out, is a record.      *)
(***************************************************************************)
THEOREM TypeCorrect == Spec => []TypeOK
<1>1. UndoInv => TypeOK
  BY DEF UndoInv
<1>. QED
  BY <1>1, Invariance, PTL

(***************************************************************************)
(* A call writes at most once and says so truly, for any number of edits   *)
(* and recreations: withZone repeats fn only after a 404, which no write   *)
(* that took effect is answered with, and a write that is given up on can  *)
(* only come late.                                                         *)
(***************************************************************************)
THEOREM CallsWriteOnce == Spec => []WritesOnce
<1>1. UndoInv => WritesOnce
  BY DEF UndoInv, CallsInv, CallOK, WellFormed, WritesOnce
<1>. QED
  BY <1>1, Invariance, PTL

(* The invariant implies that what a write asked for is valid.             *)
LEMMA AskedForIsValidHolds == UndoInv => AskedForIsValid
<1>. SUFFICES ASSUME UndoInv, NEW c \in Call, call[c].effects > 0, ~call[c].touched
              PROVE  LET r == IF call[c].op = "create" THEN Posted(call[c].args)
                              ELSE Patched(call[c].prior, call[c].args)
                     IN  /\ call[c].args.proxied = TRUE => r.type \in PROXYABLE_TYPES
                         /\ call[c].args.type = "MX" => r.priority # Absent
  BY DEF AskedForIsValid
<1>. DEFINE a == call[c].args
            p == call[c].prior
<1>1. /\ call[c] \in CallRecord /\ a \in Fields
      /\ WellFormed(call[c], zones) /\ Wrote(call[c])
  BY DEF UndoInv, TypeOK, CallsInv, CallOK, CallRecord
<1>2. call[c].effects = 1 /\ call[c].pc # "idle"
  BY <1>1 DEF WellFormed
<1>3. CASE call[c].op = "create"
  <2>1. CreateAccepts(a)
    BY <1>1, <1>2, <1>3 DEF WellFormed
  <2>. QED
    BY <1>1, <1>3, <2>1, PostedFields DEF CreateAccepts
<1>4. CASE call[c].op = "update"
  <2>1. p \in Record /\ call[c].before = slimRecord(p) /\ UpdateAccepts(slimRecord(p), a)
    BY <1>1, <1>2, <1>4 DEF Wrote, Seen
  <2>2. /\ Patched(p, a).type = IF a.type = Absent THEN p.type ELSE a.type
        /\ Patched(p, a).priority = IF a.priority = Absent THEN p.priority ELSE a.priority
    BY <1>1, <2>1, PatchedFields
  <2>3. slimRecord(p).type = p.type /\ slimRecord(p).priority = p.priority
    BY <2>1, SlimFields
  <2>. QED
    BY <1>4, <2>1, <2>2, <2>3 DEF UpdateAccepts
<1>5. CASE call[c].op = "delete"
  <2>1. a = NoFields
    BY <1>1, <1>2, <1>5 DEF WellFormed
  <2>2. a.proxied = Absent /\ a.type = Absent
    BY <2>1 DEF NoFields
  <2>3. Absent # TRUE /\ Absent # "MX"
    BY AbsentAssumption
  <2>. QED
    BY <2>2, <2>3
<1>. QED
  BY <1>1, <1>2, <1>3, <1>4, <1>5 DEF WellFormed, CallRecord

(***************************************************************************)
(* What a write asks for is valid when it takes effect, unless somebody    *)
(* changed the record since the tool's check: a check on what was read is  *)
(* a check on what is written, whatever other calls and clients do to      *)
(* other records and to the zone in between.                               *)
(***************************************************************************)
THEOREM WritesAreValid == Spec => []AskedForIsValid
  BY AskedForIsValidHolds, Invariance, PTL

(***************************************************************************)
(* The snapshots undo what the tools did, for every record and every       *)
(* argument: the checks let an update with `before' or a create from the   *)
(* snapshot pass, and no field that was set comes back different.          *)
(***************************************************************************)
THEOREM EditsCanBeUndone == Spec => []SnapshotsUndo
<1>. SUFFICES UndoInv => SnapshotsUndo
  BY Invariance, PTL
<1>. SUFFICES ASSUME UndoInv, NEW c \in Call, ~call[c].touched,
                     call[c].outcome = "ok", call[c].op \in {"update", "delete"}
              PROVE  LET after  == Patched(call[c].prior, call[c].args)
                         undone == Patched(after, call[c].before)
                     IN  /\ call[c].op = "update" =>
                              /\ Valid(call[c].prior) =>
                                    UpdateAccepts(slimRecord(after), call[c].before)
                              /\ \A f \in DOMAIN undone :
                                    call[c].prior[f] \in {Absent, NoComment}
                                      \/ undone[f] = call[c].prior[f]
                         /\ call[c].op = "delete" /\ Valid(call[c].prior) =>
                              /\ CreateAccepts(call[c].before)
                              /\ Posted(call[c].before) = call[c].prior
  BY DEF SnapshotsUndo, Reported
<1>. DEFINE p == call[c].prior
            b == call[c].before
            after == Patched(p, call[c].args)
            undone == Patched(after, b)
<1>1. p \in Record /\ b = slimRecord(p)
  BY DEF UndoInv, CallsInv, CallOK, WellFormed, Wrote, Seen
<1>2. call[c].args \in Fields
  BY DEF UndoInv, TypeOK, CallRecord
<1>3. /\ b \in Fields /\ b.type = p.type /\ b.content = p.content
      /\ b.proxied = p.proxied /\ b.priority = p.priority
      /\ b.comment = IF p.comment = NoComment THEN Absent ELSE p.comment
  BY <1>1, SlimFields
<1>4. after \in Record
  BY <1>1, <1>2, PatchedFields
<1>. HIDE DEF b, p, after
<1>5. ASSUME Valid(p) PROVE UpdateAccepts(slimRecord(after), b)
  <2>1. b.type # Absent
    BY <1>1, <1>3, AbsentAssumption DEF Record
  <2>. QED
    BY <1>3, <1>5, <2>1 DEF UpdateAccepts, Valid
<1>6. ASSUME NEW f \in DOMAIN undone PROVE p[f] \in {Absent, NoComment} \/ undone[f] = p[f]
  <2>1. undone \in Record
    BY <1>3, <1>4, PatchedFields
  <2>2. f \in {"type", "content", "proxied", "priority", "comment"}
    BY <2>1, <1>6 DEF Record
  <2>3. undone[f] = IF b[f] = Absent THEN after[f] ELSE b[f]
    BY <1>3, <1>4, <2>2, PatchedFields
  <2>. QED
    BY <1>3, <2>2, <2>3
<1>7. ASSUME Valid(p) PROVE CreateAccepts(b) /\ Posted(b) = p
  <2>1. CreateAccepts(b)
    BY <1>1, <1>3, <1>7, AbsentAssumption DEF CreateAccepts, Valid, Record
  <2>2. /\ Posted(b) \in Record
        /\ Posted(b).type = p.type /\ Posted(b).content = p.content
        /\ Posted(b).proxied = p.proxied /\ Posted(b).priority = p.priority
        /\ Posted(b).comment = p.comment
    BY <1>1, <1>3, <2>1, PostedFields, AbsentAssumption DEF Posted, Record, Fields
  <2>. QED
    BY <1>1, <2>1, <2>2 DEF Record
<1>. QED
  BY <1>5, <1>6, <1>7 DEF after, b, p
=============================================================================
