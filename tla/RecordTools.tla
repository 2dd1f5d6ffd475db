----------------------------- MODULE RecordTools -----------------------------
(***************************************************************************)
(* The tools that write DNS records (create, update, delete of             *)
(* src/tools.ts) inside withZone, over doFetch (src/cloudflare.ts): calls  *)
(* that run concurrently with each other and with whoever else edits the   *)
(* zone, on one zone name whose zone may be created again under a new id.  *)
(*                                                                         *)
(* A tool reads the record, checks what it was asked against what it read, *)
(* and writes: two requests with an await between them.  Reading is one    *)
(* step, since what follows the answer uses only what the answer said.  A  *)
(* write may reach Cloudflare and its answer not come back, or reach       *)
(* Cloudflare after doFetch's 30 s are over and the tool has failed.       *)
(*                                                                         *)
(* `content' stands for every field the tools pass through unlooked at     *)
(* (name, content, data, ttl).  Cloudflare merges what it accepts and may  *)
(* refuse anything; it is not relied on for the checks the tools make.     *)
(***************************************************************************)
EXTENDS Naturals

CONSTANTS
    Type,       \* the record types in use
    Content,
    Priority,   \* numbers; 0 is a priority
    Comment,
    NoComment,  \* the empty comment
    RecordId,   \* ids Cloudflare can give a new record
    ZoneId,     \* ids Cloudflare can give the zone
    Call,       \* tool calls
    Args,       \* the arguments calls are made with
    MaxEdits,   \* how many edits others make (a bound of the model)
    Absent      \* undefined

PROXYABLE_TYPES == {"A", "AAAA", "CNAME"}

Record == [type : Type, content : Content, proxied : BOOLEAN,
           priority : Priority \cup {Absent}, comment : Comment \cup {NoComment}]

\* A record as slimRecord shows it, and the arguments of a call: fields may
\* be undefined.
Fields == [type : Type \cup {Absent}, content : Content \cup {Absent},
           proxied : BOOLEAN \cup {Absent}, priority : Priority \cup {Absent},
           comment : Comment \cup {NoComment, Absent}]

NoFields == [type |-> Absent, content |-> Absent, proxied |-> Absent,
             priority |-> Absent, comment |-> Absent]

ASSUME ArgsAssumption == Args \subseteq Fields

\* undefined is no value of a field and no id, and no comment is the empty one.
ASSUME AbsentAssumption ==
    /\ Absent \notin Type /\ Absent \notin Content /\ Absent \notin BOOLEAN
    /\ Absent \notin Comment /\ Absent \notin RecordId
    /\ Absent # NoComment /\ Absent # "MX"

ASSUME MaxEditsAssumption == MaxEdits \in Nat

VARIABLES
    zone,      \* the id of the zone at this moment
    zones,     \* every id it has had
    records,   \* records[i]: the zone's record i, or Absent
    given,     \* record ids that have been given
    call,      \* the tool calls
    edits      \* how many edits others have made

vars == <<zone, zones, records, given, call, edits>>

\* The last three fields are history: the record just before the write, how
\* many writes of the call took effect, and whether somebody else changed the
\* record between the read and the write.
NoCall == [pc |-> "idle", op |-> "none", args |-> NoFields, id |-> Absent,
           zone |-> Absent, wasCached |-> FALSE, retried |-> FALSE,
           before |-> NoFields, outcome |-> "none",
           prior |-> Absent, effects |-> 0, touched |-> FALSE]

CallRecord == [pc : {"idle", "reading", "writing", "stray", "done"},
               op : {"none", "create", "update", "delete"},
               args : Fields, id : RecordId \cup {Absent},
               zone : ZoneId \cup {Absent}, wasCached : BOOLEAN, retried : BOOLEAN,
               before : Fields,
               outcome : {"none", "ok", "refused", "notFound", "error"},
               prior : Record \cup {Absent}, effects : 0..2, touched : BOOLEAN]

(***************************************************************************)
(* The shape of every variable.                                            *)
(***************************************************************************)
TypeOK == /\ zone \in zones
          /\ zones \subseteq ZoneId
          /\ records \in [RecordId -> Record \cup {Absent}]
          /\ given \subseteq RecordId
          /\ call \in [Call -> CallRecord]
          /\ edits \in 0..MaxEdits

Init == /\ \E z \in ZoneId : zone = z /\ zones = {z}
        /\ records = [i \in RecordId |-> Absent]
        /\ given = {}
        /\ call = [c \in Call |-> NoCall]
        /\ edits = 0

-----------------------------------------------------------------------------
\* What the code computes from a record and from arguments.

\* Mutation: a priority of 0 is left out like an empty comment.
slimRecord_Truthy(r) ==
    [r EXCEPT !.comment = IF r.comment = NoComment THEN Absent ELSE r.comment,
              !.priority = IF r.priority = 0 THEN Absent ELSE r.priority]

\* slimRecord: an empty comment is left out, a priority of 0 is not.
slimRecord(r) == [r EXCEPT !.comment = IF r.comment = NoComment THEN Absent ELSE r.comment]

\* JSON.stringify leaves out what is undefined, and a PATCH keeps it.
Patched(r, p) == [f \in DOMAIN r |-> IF p[f] = Absent THEN r[f] ELSE p[f]]

Posted(a) == [a EXCEPT !.comment = IF a.comment = Absent THEN NoComment ELSE a.comment]

\* The checks of create, before any request.
CreateAccepts(a) ==
    /\ a.type # Absent /\ a.content # Absent /\ a.proxied # Absent
    /\ a.proxied => a.type \in PROXYABLE_TYPES
    /\ a.type = "MX" => a.priority # Absent

\* Mutation: the type the update asks for is not taken into account.
UpdateAccepts_OldType(before, p) ==
    /\ p.type = "MX" => p.priority # Absent \/ before.priority # Absent
    /\ p.proxied = TRUE => before.type \in PROXYABLE_TYPES

\* The checks of update, on the record it has read.
UpdateAccepts(before, p) ==
    LET effectiveType == IF p.type = Absent THEN before.type ELSE p.type
    IN  /\ p.type = "MX" => p.priority # Absent \/ before.priority # Absent
        /\ p.proxied = TRUE => effectiveType \in PROXYABLE_TYPES

-----------------------------------------------------------------------------
\* Cloudflare, and who else edits the zone there.

Found(c) == /\ call[c].zone = zone
            /\ call[c].id # Absent => records[call[c].id] # Absent

\* The other calls that have read record i and not written it yet.
Touch(i, f) == [d \in Call |-> IF f[d].id = i /\ f[d].pc \in {"writing", "stray"}
                               THEN [f[d] EXCEPT !.touched = TRUE] ELSE f[d]]

Valid(r) == /\ r.proxied => r.type \in PROXYABLE_TYPES
            /\ r.type = "MX" => r.priority # Absent

\* The dashboard, another client, another tool: a record is added, changed or
\* removed.
Edit(i, r) ==
    /\ edits < MaxEdits
    /\ edits' = edits + 1
    /\ r = Absent => records[i] # Absent
    /\ r # Absent => Valid(r) /\ (i \notin given \/ records[i] # Absent)
    /\ r # records[i]
    /\ records' = [records EXCEPT ![i] = r]
    /\ given' = given \cup {i}
    /\ call' = Touch(i, call)
    /\ UNCHANGED <<zone, zones>>

\* The zone is deleted and created again: a new id, and none of the records.
Recreate(z) ==
    /\ z \notin zones
    /\ zone' = z
    /\ zones' = zones \cup {z}
    /\ records' = [i \in RecordId |-> Absent]
    /\ UNCHANGED <<given, call, edits>>

-----------------------------------------------------------------------------
\* The tools.

FirstRequest(op) == IF op = "create" THEN "writing" ELSE "reading"

\* A call whose arguments pass the checks made before any request gets its
\* zone: the current one, or from the cache any the zone has been.
Start(c, op, args, i, z, cached) ==
    /\ call[c].pc = "idle"
    /\ z \in zones /\ (~cached => z = zone)
    /\ \/ op = "create" /\ i = Absent /\ CreateAccepts(args)
       \/ op = "update" /\ i \in given /\ args # NoFields
       \/ op = "delete" /\ i \in given /\ args = NoFields
    /\ call' = [call EXCEPT ![c] = [NoCall EXCEPT
                  !.pc = FirstRequest(op), !.op = op, !.args = args, !.id = i,
                  !.zone = z, !.wasCached = cached]]
    /\ UNCHANGED <<zone, zones, records, given, edits>>

Finish(c, outcome) == [call EXCEPT ![c].pc = "done", ![c].outcome = outcome]

\* getRecord answers; update's checks follow.
Read(c) ==
    LET before == slimRecord(records[call[c].id])
    IN  /\ call[c].pc = "reading"
        /\ Found(c)
        /\ call' = IF call[c].op = "update" /\ ~UpdateAccepts(before, call[c].args)
                   THEN Finish(c, "refused")
                   ELSE [call EXCEPT ![c].pc = "writing", ![c].before = before]
        /\ UNCHANGED <<zone, zones, records, given, edits>>

\* The write takes effect: on a new record, or on the record asked for.
Effect(c, i) ==
    /\ Found(c)
    /\ IF call[c].op = "create" THEN i \notin given ELSE i = call[c].id
    /\ records' = [records EXCEPT ![i] =
           CASE call[c].op = "create" -> Posted(call[c].args)
             [] call[c].op = "update" -> Patched(@, call[c].args)
             [] call[c].op = "delete" -> Absent]
    /\ given' = given \cup {i}
    /\ UNCHANGED <<zone, zones, edits>>

\* ... and what that makes of the calls.
Written(c, i, outcome) ==
    [Touch(i, call) EXCEPT ![c] =
        [call[c] EXCEPT !.pc = "done", !.outcome = outcome,
                        !.prior = records[i], !.effects = @ + 1]]

\* Mutation: a lost answer makes withZone run fn again.
Write_Again(c, i, lost) ==
    /\ call[c].pc = "writing"
    /\ Effect(c, i)
    /\ call' = IF lost /\ ~call[c].retried
               THEN [Written(c, i, "none") EXCEPT ![c].pc = FirstRequest(call[c].op),
                                                  ![c].retried = TRUE]
               ELSE Written(c, i, IF lost THEN "error" ELSE "ok")

\* Cloudflare does the write; its answer comes back, or is lost on the way.
Write(c, i, lost) ==
    /\ call[c].pc = "writing"
    /\ Effect(c, i)
    /\ call' = Written(c, i, IF lost THEN "error" ELSE "ok")

\* doFetch gives up on a request that is still on its way, or was refused or
\* broken before it had an effect: the tool fails.
Fail(c, stray) ==
    /\ call[c].pc \in {"reading", "writing"}
    /\ call' = [call EXCEPT ![c].outcome = "error",
                    ![c].pc = IF stray /\ call[c].pc = "writing" THEN "stray" ELSE "done"]
    /\ UNCHANGED <<zone, zones, records, given, edits>>

\* A write that was given up on takes effect after all.
LateWrite(c, i) ==
    /\ call[c].pc = "stray"
    /\ Effect(c, i)
    /\ call' = Written(c, i, call[c].outcome)

\* withZone's catch: after a 404, with a zone from the cache that has become
\* another, fn runs again from its beginning, once, on the zone of now.
NotFound(c) ==
    /\ call[c].pc \in {"reading", "writing"}
    /\ ~Found(c)
    /\ call' = IF call[c].wasCached /\ ~call[c].retried /\ call[c].zone # zone
               THEN [call EXCEPT ![c].pc = FirstRequest(call[c].op),
                                 ![c].zone = zone, ![c].retried = TRUE,
                                 ![c].before = NoFields]
               ELSE Finish(c, "notFound")
    /\ UNCHANGED <<zone, zones, records, given, edits>>

Step(c) == \/ \E op \in {"create", "update", "delete"}, args \in Args,
                 i \in RecordId \cup {Absent}, z \in ZoneId, cached \in BOOLEAN :
                     Start(c, op, args, i, z, cached)
           \/ Read(c)
           \/ \E i \in RecordId, lost \in BOOLEAN : Write(c, i, lost)
           \/ \E stray \in BOOLEAN : Fail(c, stray)
           \/ \E i \in RecordId : LateWrite(c, i)
           \/ NotFound(c)

Next == \/ \E c \in Call : Step(c)
        \/ \E i \in RecordId, r \in Record \cup {Absent} : Edit(i, r)
        \/ \E z \in ZoneId : Recreate(z)

Spec == Init /\ [][Next]_vars

-----------------------------------------------------------------------------

(***************************************************************************)
(* A call writes at most once, though withZone may run its fn twice and    *)
(* doFetch may fail it without knowing; a call that reports success wrote  *)
(* once, one that reports a refused or missing record wrote nothing.       *)
(***************************************************************************)
WritesOnce ==
    \A c \in Call :
        /\ call[c].effects <= 1
        /\ call[c].outcome = "ok" => call[c].effects = 1
        /\ call[c].outcome \in {"refused", "notFound"} => call[c].effects = 0

Reported(c, op) == call[c].outcome = "ok" /\ call[c].op = op

(***************************************************************************)
(* The `before' of an update and the snapshot of a delete are enough to    *)
(* undo the edit, when nobody else changed the record between the read and *)
(* the write: updating with `before' is accepted and brings back every     *)
(* field the record had, creating from the snapshot is accepted and brings *)
(* back all.                                                               *)
(***************************************************************************)
SnapshotsUndo ==
    \A c \in Call : ~call[c].touched =>
        /\ Reported(c, "update") =>
              LET after  == Patched(call[c].prior, call[c].args)
                  undone == Patched(after, call[c].before)
              IN  /\ Valid(call[c].prior) => UpdateAccepts(slimRecord(after), call[c].before)
                  /\ \A f \in DOMAIN undone : call[c].prior[f] \in {Absent, NoComment}
                                                 \/ undone[f] = call[c].prior[f]
        /\ Reported(c, "delete") /\ Valid(call[c].prior) =>
              CreateAccepts(call[c].before) /\ Posted(call[c].before) = call[c].prior

(***************************************************************************)
(* A write that asks for a proxied record or turns one into an MX gets a   *)
(* record of a type that can be proxied, and with a priority, when nobody  *)
(* changed the record since the tool's check (tools.ts 480-488, 566-573).  *)
(***************************************************************************)
AskedForIsValid ==
    \A c \in Call : call[c].effects > 0 /\ ~call[c].touched =>
        LET r == IF call[c].op = "create" THEN Posted(call[c].args)
                 ELSE Patched(call[c].prior, call[c].args)
        IN  /\ call[c].args.proxied = TRUE => r.type \in PROXYABLE_TYPES
            /\ call[c].args.type = "MX" => r.priority # Absent

(***************************************************************************)
(* tools.ts 579: "To revert, call cloudflare_update_dns_record again with  *)
(* the 'before' values".  A comment (or priority) that the update added is *)
(* not among them, and stays.                                              *)
(***************************************************************************)
BeforeReverts ==
    \A c \in Call : Reported(c, "update") /\ ~call[c].touched =>
        Patched(Patched(call[c].prior, call[c].args), call[c].before) = call[c].prior
=============================================================================
