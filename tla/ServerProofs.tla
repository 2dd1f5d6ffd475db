---------------------------- MODULE ServerProofs ----------------------------
(***************************************************************************)
(* Theorems about the server and its reading tools, for all environments,  *)
(* requests, tokens, numbers of zones and sizes of pages, and whatever     *)
(* stands between the server and Cloudflare.                               *)
(***************************************************************************)
EXTENDS Server, Integers, SequenceTheorems, TLAPS

-----------------------------------------------------------------------------
\* Replies and what is made of them.

LEMMA RepliesAreReplies ==
    /\ NoReply \in Reply /\ NoReply.body # "success" /\ NoAnswer \in Outcome
    /\ ~NoAnswer.ok /\ NoAnswer.status = undefinedStatus
    /\ \A s \in Status : /\ Failure(s) \in Reply
                         /\ Failure(s).status = s /\ Failure(s).body = "failure"
    /\ Interference \subseteq Reply
    /\ \A reply \in Interference : reply.body # "success"
BY ReadToolsAssumption
   DEF NoReply, Reply, Status, Body, NoAnswer, Failed, Outcome, undefinedStatus, Failure

LEMMA OutcomeFields ==
    ASSUME NEW s \in Status \cup {undefinedStatus}, NEW reply \in Reply
    PROVE  /\ Failed(s) \in Outcome /\ ~Failed(s).ok /\ Failed(s).status = s
           /\ ~Failed(s).malformed
           /\ Malformed(s) \in Outcome /\ ~Malformed(s).ok /\ Malformed(s).status = s
           /\ Malformed(s).malformed
           /\ Returned(reply) \in Outcome /\ Returned(reply).ok
BY DEF Failed, Malformed, Returned, Outcome, Reply

LEMMA StatusIsKnown == undefinedStatus \notin Status /\ {200, 401, 403, 500} = Status
BY DEF undefinedStatus, Status

\* A reply in the standard envelope is believed only where it says success.
LEMMA EnvelopeRead ==
    ASSUME NEW reply \in Reply
    PROVE  /\ parseJsonEnvelope(reply) \in Outcome
           /\ parseJsonEnvelope(reply).ok <=> reply.status = 200 /\ reply.body = "success"
<1>1. NoAnswer = Failed(undefinedStatus) /\ reply.status \in Status
  BY DEF NoAnswer, Reply
<1>. QED
  BY <1>1, OutcomeFields DEF parseJsonEnvelope, res_ok

LEMMA TextRead ==
    ASSUME NEW reply \in Reply
    PROVE  /\ cfRequestText(reply) \in Outcome
           /\ cfRequestText(reply).ok <=> reply.status = 200 /\ reply.body # "cut"
<1>1. NoAnswer = Failed(undefinedStatus) /\ reply.status \in Status
  BY DEF NoAnswer, Reply
<1>. QED
  BY <1>1, OutcomeFields DEF cfRequestText, res_ok

LEMMA PassthroughRead ==
    ASSUME NEW reply \in Reply
    PROVE  /\ cfApiPassthrough(reply) \in Outcome
           /\ cfApiPassthrough(reply).ok
                 <=> reply.status = 200 /\ reply.body \notin {"cut", "null", "broken", "failure"}
           /\ reply.body = "null" => cfApiPassthrough(reply).status = undefinedStatus
           /\ reply.body = "broken" => cfApiPassthrough(reply).malformed
<1>1. NoAnswer = Failed(undefinedStatus) /\ reply.status \in Status
  BY DEF NoAnswer, Reply
<1>. QED
  BY <1>1, OutcomeFields DEF cfApiPassthrough, res_ok

-----------------------------------------------------------------------------
\* What a call is known to be at each of its steps.

HeadOnly(asked) == asked.tool = "api_request" /\ asked.method = "HEAD"

\* A reply nothing interfered with says what happened: Cloudflare refuses in
\* the envelope, under a failing status wherever the body is not looked at.
Honest(call) ==
    IF call.granted THEN call.reply \in Granted(call)
    ELSE /\ call.reply.body = "failure"
         /\ call.reply.status = 200 =>
               call.asked.tool = "api_request" /\ ~HeadOnly(call.asked)

\* Nothing is sent that the mode of the passthrough does not allow.
Sent(call) == call.at # "done" \/ call.granted => Allowed(call.asked)

\* On its way: the second request of verify_token is sent only after the
\* first was refused; a success is Cloudflare's own word.
Underway(call) ==
    /\ call.probe => call.asked.tool = "verify_token" /\ ~call.verify.ok
    /\ call.at = "body" => ~HeadOnly(call.asked)
    /\ call.reply.body = "success" => call.granted
    /\ ~call.disturbed => /\ call.at = "sent" => ~call.granted
                          /\ call.at \in {"handled", "body"} => Honest(call)

\* Concluded: what the outcome says of what happened.  Only the passthrough
\* can have written and not know it, from the JSON value null or from a reply
\* it wrongly takes for JSON.
Says(call, outcome) ==
    /\ outcome.ok => call.granted \/ (call.disturbed /\ call.asked.tool \in {"export_zone", "api_request"})
    /\ ~outcome.ok /\ ~call.disturbed /\ call.granted =>
          /\ call.asked.tool = "api_request"
          /\ outcome.status = undefinedStatus \/ outcome.malformed

\* ... and why verify_token is content with it.
Verified(call) == call.asked.tool = "verify_token" /\ ~call.result.ok =>
    /\ call.result.status \in {401, 403} => call.probe /\ (~call.disturbed => ~call.granted)
    /\ call.probe => call.result = call.verify

Concluding(call) ==
    call.at = "done" => /\ call.asked.tool # "verify_token" \/ call.result.ok => Says(call, call.result)
                        /\ Verified(call)

\* The zones seen are those of the pages so far, and there was a reason to
\* ask for this one.
UpTo(n) == {zone \in 1..Zones : zone <= n}

Paged(call) == call.asked.tool = "list_zones" =>
    LET info == ResultInfo(call.asked)
    IN  /\ call.seen = UpTo(IF call.at = "done" /\ call.result.ok THEN info.page * info.per_page
                            ELSE (info.page - 1) * info.per_page)
        /\ info.page > 1 => (info.page - 1) * info.per_page < Zones

CallOK(call) == Sent(call) /\ Underway(call) /\ Concluding(call) /\ Paged(call)

CallsInv == \A c \in Client : calls[c] # Nothing => CallOK(calls[c])

ToolsInv == ToolsTypeOK /\ CallsInv

-----------------------------------------------------------------------------
\* A client's call becomes another; the environment never changes.

LEMMA CallMoves ==
    ASSUME ToolsInv, NEW c \in Client, NEW r \in Call, calls' = [calls EXCEPT ![c] = r],
           CallOK(r), UNCHANGED <<env, kind>>
    PROVE  ToolsInv'
<1>1. ToolsTypeOK'
  BY DEF ToolsInv, ToolsTypeOK
<1>2. \A d \in Client : calls'[d] # Nothing => CallOK(calls'[d])
  BY DEF ToolsInv, ToolsTypeOK, CallsInv
<1>3. CallsInv'
  BY <1>2 DEF CallsInv, CallOK, Sent, Allowed, PassthroughAllows, Underway, Honest, Concluding,
              Says, Verified, Paged
<1>. QED
  BY <1>1, <1>3 DEF ToolsInv

\* Where a call stands that is not concluded.
LEMMA AtCall ==
    ASSUME ToolsInv, NEW c \in Client, NEW step, At(c, step)
    PROVE  /\ calls[c] \in Call /\ calls[c].at = step /\ CallOK(calls[c])
           /\ calls \in [Client -> Call \cup {Nothing}]
BY DEF ToolsInv, ToolsTypeOK, CallsInv, At

\* Cloudflare handles a request, or something on the way answers it.
LEMMA ReplyArrives ==
    ASSUME ToolsInv, NEW c \in Client, At(c, "sent") \/ At(c, "handled"),
           NEW reply \in Reply, NEW r \in Call,
           r = [calls[c] EXCEPT !.at = "handled", !.reply = reply, !.granted = r.granted,
                                !.disturbed = r.disturbed],
           r.granted \in BOOLEAN /\ r.disturbed \in BOOLEAN,
           calls[c].granted => r.granted,
           reply.body = "success" => r.granted,
           r.disturbed \/ Honest(r),
           calls' = [calls EXCEPT ![c] = r], UNCHANGED <<env, kind>>
    PROVE  ToolsInv'
<1>1. calls[c] \in Call /\ calls[c].at \in {"sent", "handled"} /\ CallOK(calls[c])
  BY AtCall
<1>2. /\ r.asked = calls[c].asked /\ r.at = "handled" /\ r.probe = calls[c].probe
      /\ r.verify = calls[c].verify /\ r.reply = reply /\ r.seen = calls[c].seen
  BY <1>1 DEF Call
<1>3. Sent(r) /\ Underway(r) /\ Concluding(r) /\ Paged(r)
  BY <1>1, <1>2 DEF CallOK, Sent, Underway, Concluding, Paged
<1>. QED
  BY <1>3, CallMoves DEF CallOK

LEMMA GrantedReplies ==
    ASSUME NEW call, NEW reply \in Granted(call)
    PROVE  reply \in Reply /\ reply.status = 200
BY StatusIsKnown DEF Granted, Reply, Body

LEMMA RefusedReplies ==
    ASSUME NEW call, NEW reply \in Refusals(call)
    PROVE  /\ reply \in Reply /\ reply.body = "failure"
           /\ reply.status = 200 => call.asked.tool = "api_request" /\ ~HeadOnly(call.asked)
<1>1. /\ 401 \in Status /\ 403 \in Status /\ 500 \in Status /\ 200 \in Status
      /\ Failure(401).status = 401 /\ Failure(403).status = 403 /\ Failure(500).status = 500
  BY StatusIsKnown, RepliesAreReplies
<1>2. \/ reply \in {Failure(401), Failure(403), Failure(500)}
      \/ reply = Failure(200) /\ call.asked.tool = "api_request" /\ call.asked.method # "HEAD"
  BY DEF Refusals
<1>. QED
  BY <1>1, <1>2, RepliesAreReplies DEF HeadOnly

LEMMA HandleKeeps ==
    ASSUME ToolsInv, NEW c \in Client, Handle(c)
    PROVE  ToolsInv'
<1>. DEFINE call == calls[c]
<1>1. /\ call \in Call /\ call.at = "sent" /\ CallOK(call)
      /\ At(c, "sent") /\ UNCHANGED <<env, kind>>
  BY AtCall DEF Handle
<1>2. ASSUME NEW reply \in Granted(call),
             calls' = [calls EXCEPT ![c].at = "handled", ![c].reply = reply, ![c].granted = TRUE]
      PROVE  ToolsInv'
  <2>. DEFINE r == [call EXCEPT !.at = "handled", !.reply = reply, !.granted = TRUE]
  <2>1. reply \in Reply
    BY GrantedReplies
  <2>2. r \in Call /\ r.granted = TRUE /\ r.disturbed = call.disturbed
        /\ r.reply = reply /\ r.asked = call.asked
    BY <1>1, <2>1 DEF Call
  <2>3. Honest(r)
    BY <2>2 DEF Honest, Granted
  <2>4. r = [call EXCEPT !.at = "handled", !.reply = reply, !.granted = r.granted,
                         !.disturbed = r.disturbed]
    BY <1>1, <2>2 DEF Call
  <2>5. calls' = [calls EXCEPT ![c] = r]
    BY <1>1, <1>2 DEF ToolsInv, ToolsTypeOK
  <2>6. r.granted \in BOOLEAN /\ r.disturbed \in BOOLEAN
    BY <1>1, <2>2 DEF Call
  <2>. HIDE DEF r
  <2>. QED
    BY <1>1, <2>1, <2>2, <2>3, <2>4, <2>5, <2>6, ReplyArrives
<1>3. ASSUME NEW reply \in Refusals(call),
             calls' = [calls EXCEPT ![c].at = "handled", ![c].reply = reply]
      PROVE  ToolsInv'
  <2>. DEFINE r == [call EXCEPT !.at = "handled", !.reply = reply]
  <2>1. /\ reply \in Reply /\ reply.body = "failure"
        /\ reply.status = 200 => call.asked.tool = "api_request" /\ ~HeadOnly(call.asked)
    BY RefusedReplies
  <2>2. r \in Call /\ r.granted = call.granted /\ r.disturbed = call.disturbed
        /\ r.reply = reply /\ r.asked = call.asked
    BY <1>1, <2>1 DEF Call
  <2>3. r.disturbed \/ Honest(r)
    BY <1>1, <2>1, <2>2 DEF Honest, CallOK, Underway
  <2>4. r = [call EXCEPT !.at = "handled", !.reply = reply, !.granted = r.granted,
                         !.disturbed = r.disturbed]
    BY <1>1, <2>2 DEF Call
  <2>5. calls' = [calls EXCEPT ![c] = r]
    BY <1>1, <1>3 DEF ToolsInv, ToolsTypeOK
  <2>6. r.granted \in BOOLEAN /\ r.disturbed \in BOOLEAN
    BY <1>1, <2>2 DEF Call
  <2>. HIDE DEF r
  <2>. QED
    BY <1>1, <2>1, <2>2, <2>3, <2>4, <2>5, <2>6, ReplyArrives
<1>. QED
  BY <1>2, <1>3 DEF Handle

LEMMA MangleKeeps ==
    ASSUME ToolsInv, NEW c \in Client, Mangle(c)
    PROVE  ToolsInv'
<1>1. PICK reply \in Interference :
         calls' = [calls EXCEPT ![c].at = "handled", ![c].reply = reply, ![c].disturbed = TRUE]
  BY DEF Mangle
<1>2. reply \in Reply /\ reply.body # "success"
  BY RepliesAreReplies
<1>3. /\ calls[c] \in Call /\ CallOK(calls[c])
      /\ At(c, "sent") \/ At(c, "handled")
      /\ UNCHANGED <<env, kind>>
  BY AtCall DEF Mangle
<1>. DEFINE r == [calls[c] EXCEPT !.at = "handled", !.reply = reply, !.disturbed = TRUE]
<1>4. r \in Call /\ r.granted = calls[c].granted /\ r.disturbed = TRUE
  BY <1>2, <1>3 DEF Call
<1>5. r = [calls[c] EXCEPT !.at = "handled", !.reply = reply, !.granted = r.granted,
                           !.disturbed = r.disturbed]
  BY <1>3, <1>4 DEF Call
<1>6. calls' = [calls EXCEPT ![c] = r]
  BY <1>1, <1>3 DEF ToolsInv, ToolsTypeOK
<1>7. r.granted \in BOOLEAN /\ r.disturbed \in BOOLEAN
  BY <1>3, <1>4 DEF Call
<1>. HIDE DEF r
<1>. QED
  BY <1>2, <1>3, <1>4, <1>5, <1>6, <1>7, ReplyArrives

LEMMA RevokeKeeps ==
    ASSUME ToolsInv, NEW token \in Token, Revoke(token)
    PROVE  ToolsInv'
BY DEF Revoke, ToolsInv, ToolsTypeOK, CallsInv, CallOK, Sent, Allowed, PassthroughAllows, Underway,
       Honest, Concluding, Says, Verified, Paged

-----------------------------------------------------------------------------
\* The pages of a list.

LEMMA PageInfo ==
    ASSUME NEW asked \in Asked, asked.tool = "list_zones"
    PROVE  /\ ResultInfo(asked).page = asked.page /\ asked.page \in 1..(Zones + 1)
           /\ ResultInfo(asked).per_page \in Nat \ {0}
           /\ ResultInfo(asked).total_count = Zones
BY ReadToolsAssumption DEF ResultInfo, Asked

LEMMA NextPage ==
    ASSUME NEW p \in Nat, NEW k \in Nat
    PROVE  (p - 1) * k + k = p * k /\ (p + 1 - 1) * k = p * k
OBVIOUS

\* A page continues what the pages before it have shown.
LEMMA PageAdds ==
    ASSUME NEW asked \in Asked, asked.tool = "list_zones"
    PROVE  LET info == ResultInfo(asked)
           IN  UpTo((info.page - 1) * info.per_page) \cup OnPage(info)
                   = UpTo(info.page * info.per_page)
<1>. DEFINE p == ResultInfo(asked).page
            k == ResultInfo(asked).per_page
<1>1. p \in Nat /\ k \in Nat
  BY PageInfo, ReadToolsAssumption
<1>2. (p - 1) * k \in Int /\ p * k \in Int /\ (p - 1) * k <= p * k
  BY <1>1, NextPage
<1>3. OnPage(ResultInfo(asked)) = {zone \in 1..Zones : (p - 1) * k < zone /\ zone <= p * k}
  BY DEF OnPage
<1>. HIDE DEF p, k
<1>. DEFINE m == (p - 1) * k
            n == p * k
<1>4. m \in Int /\ n \in Int /\ m <= n
  BY <1>2
<1>5. UpTo(m) \cup {zone \in 1..Zones : m < zone /\ zone <= n} = UpTo(n)
  <2>. HIDE DEF m, n
  <2>. QED
    BY <1>4, ReadToolsAssumption DEF UpTo
<1>. QED
  BY <1>3, <1>5 DEF p, k

\* ... and shows something new.
LEMMA PageShows ==
    ASSUME NEW asked \in Asked, asked.tool = "list_zones",
           (ResultInfo(asked).page - 1) * ResultInfo(asked).per_page < Zones
    PROVE  OnPage(ResultInfo(asked)) # {}
<1>. DEFINE p == ResultInfo(asked).page
            k == ResultInfo(asked).per_page
            m == (p - 1) * k
<1>1. p \in Nat /\ p >= 1 /\ k \in Nat \ {0}
  BY PageInfo, ReadToolsAssumption
<1>2. m \in Nat
  BY <1>1
<1>3. m + k = p * k
  BY <1>1, NextPage
<1>4. m + 1 \in 1..Zones
  BY <1>2, ReadToolsAssumption
<1>5. m < m + 1 /\ m + 1 <= p * k
  BY <1>1, <1>2, <1>3
<1>. QED
  BY <1>4, <1>5 DEF OnPage

-----------------------------------------------------------------------------
\* A request ends.

LEMMA ConcludeKeeps ==
    ASSUME ToolsInv, NEW c \in Client, calls[c] \in Call, NEW call \in Call,
           call.at # "done", Sent(call), Underway(call), Paged(call), NEW token \in Token,
           NEW outcome \in Outcome, Says(call, outcome), Conclude(c, call, outcome, token)
    PROVE  ToolsInv'
<1>. DEFINE probing == [call EXCEPT !.at = "sent", !.probe = TRUE, !.verify = outcome,
                                    !.token = token]
            ended == [call EXCEPT !.at = "done", !.result = outcome, !.reply = NoReply]
            refused == [ended EXCEPT !.result = call.verify]
            paged == [ended EXCEPT !.seen = @ \cup OnPage(ResultInfo(call.asked))]
<1>1. UNCHANGED <<env, kind>>
  BY DEF Conclude
<1>2. ended \in Call
  BY RepliesAreReplies DEF Call
<1>3. CASE call.asked.tool = "verify_token" /\ ~call.probe /\ Probes(outcome)
  <2>1. probing \in Call
    BY DEF Call
  <2>2. /\ probing.asked = call.asked /\ probing.at = "sent" /\ probing.verify = outcome
        /\ probing.granted = call.granted /\ probing.disturbed = call.disturbed
        /\ probing.reply = call.reply
    BY DEF Call
  <2>3. CallOK(probing)
    BY <1>3, <2>2 DEF CallOK, Sent, Underway, Concluding, Paged, Says, Probes
  <2>4. calls' = [calls EXCEPT ![c] = probing]
    BY <1>3, ReadToolsAssumption DEF Conclude
  <2>. QED
    BY <1>1, <2>1, <2>3, <2>4, CallMoves
<1>4. CASE call.probe /\ ~outcome.ok
  <2>1. refused \in Call
    BY <1>2 DEF Call
  <2>2. /\ refused.asked = call.asked /\ refused.at = "done" /\ refused.verify = call.verify
        /\ refused.granted = call.granted /\ refused.disturbed = call.disturbed
        /\ refused.reply = NoReply /\ refused.result = call.verify
        /\ refused.probe = call.probe
    BY DEF Call
  <2>3. CallOK(refused)
    BY <1>4, <2>2, RepliesAreReplies
       DEF CallOK, Sent, Underway, Concluding, Verified, Paged, Says
  <2>4. calls' = [calls EXCEPT ![c] = refused]
    BY <1>4 DEF Conclude
  <2>. QED
    BY <1>1, <2>1, <2>3, <2>4, CallMoves
<1>5. CASE call.asked.tool = "list_zones" /\ outcome.ok
  <2>1. paged \in Call
    BY <1>2 DEF Call, OnPage
  <2>2. /\ paged.asked = call.asked /\ paged.at = "done" /\ paged.result = outcome
        /\ paged.granted = call.granted /\ paged.disturbed = call.disturbed
        /\ paged.reply = NoReply /\ paged.probe = call.probe
        /\ paged.seen = call.seen \cup OnPage(ResultInfo(call.asked))
    BY DEF Call
  <2>3. paged.seen = UpTo(ResultInfo(call.asked).page * ResultInfo(call.asked).per_page)
    BY <1>5, <2>2, PageAdds DEF Call, Paged
  <2>4. CallOK(paged)
    BY <1>5, <2>2, <2>3, RepliesAreReplies
       DEF CallOK, Sent, Underway, Concluding, Verified, Paged, Says
  <2>5. calls' = [calls EXCEPT ![c] = paged]
    BY <1>5 DEF Conclude, Underway
  <2>. QED
    BY <1>1, <2>1, <2>4, <2>5, CallMoves
<1>6. CASE /\ ~(call.asked.tool = "verify_token" /\ ~call.probe /\ Probes(outcome))
           /\ ~(call.probe /\ ~outcome.ok)
           /\ ~(call.asked.tool = "list_zones" /\ outcome.ok)
  <2>1. /\ ended.asked = call.asked /\ ended.at = "done" /\ ended.result = outcome
        /\ ended.granted = call.granted /\ ended.disturbed = call.disturbed
        /\ ended.reply = NoReply /\ ended.probe = call.probe /\ ended.seen = call.seen
        /\ ended.verify = call.verify
    BY DEF Call
  <2>2. CallOK(ended)
    BY <1>6, <2>1, RepliesAreReplies
       DEF CallOK, Sent, Underway, Concluding, Verified, Paged, Says, Probes
  <2>3. calls' = [calls EXCEPT ![c] = ended]
    BY <1>6 DEF Conclude
  <2>. QED
    BY <1>1, <1>2, <2>2, <2>3, CallMoves
<1>. QED
  BY <1>3, <1>4, <1>5, <1>6

\* What the headers alone say of a HEAD.
LEMMA HeadersKeep ==
    ASSUME ToolsInv, NEW c \in Client, NEW token \in Token, Headers(c, token)
    PROVE  ToolsInv'
<1>. DEFINE call == calls[c]
            outcome == IF res_ok(call.reply) THEN Returned(call.reply)
                       ELSE Failed(call.reply.status)
<1>1. call \in Call /\ call.at = "handled" /\ CallOK(call) /\ call.reply \in Reply
  BY AtCall DEF Headers, Call
<1>2. CASE HeadOnly(call.asked)
  <2>1. call.reply.status \in Status
    BY <1>1 DEF Reply
  <2>2. outcome \in Outcome /\ (outcome.ok <=> call.reply.status = 200)
    BY <1>1, <2>1, OutcomeFields DEF res_ok
  <2>3. call.granted /\ ~call.disturbed => call.reply.status = 200
    BY <1>1, GrantedReplies DEF CallOK, Underway, Honest
  <2>4. call.reply.status = 200 /\ ~call.disturbed => call.granted
    BY <1>1, <1>2 DEF CallOK, Underway, Honest
  <2>5. Says(call, outcome)
    BY <1>2, <2>2, <2>3, <2>4 DEF Says, HeadOnly
  <2>6. Conclude(c, call, outcome, token)
    BY <1>2 DEF Headers, HeadOnly
  <2>. HIDE DEF outcome
  <2>. QED
    BY <1>1, <2>2, <2>5, <2>6, ConcludeKeeps DEF CallOK
<1>3. CASE ~HeadOnly(call.asked)
  <2>. DEFINE r == [call EXCEPT !.at = "body"]
  <2>1. calls' = [calls EXCEPT ![c] = r] /\ UNCHANGED <<env, kind>>
    BY <1>1, <1>3 DEF Headers, HeadOnly, ToolsInv, ToolsTypeOK
  <2>2. /\ r \in Call /\ r.at = "body" /\ r.asked = call.asked /\ r.seen = call.seen
        /\ r.reply = call.reply /\ r.granted = call.granted /\ r.disturbed = call.disturbed
        /\ r.probe = call.probe /\ r.verify = call.verify
    BY <1>1 DEF Call
  <2>3. ~r.disturbed => Honest(r)
    BY <1>1, <2>2 DEF CallOK, Underway, Honest, Granted
  <2>4. CallOK(r)
    BY <1>1, <1>3, <2>2, <2>3 DEF CallOK, Sent, Underway, Concluding, Paged
  <2>. HIDE DEF r
  <2>. QED
    BY <2>1, <2>2, <2>4, CallMoves
<1>. QED
  BY <1>2, <1>3

\* What the body says, read as each tool reads it.
LEMMA ReadSays ==
    ASSUME NEW call \in Call, call.at = "body", Underway(call)
    PROVE  Read(call) \in Outcome /\ Says(call, Read(call))
<1>. DEFINE reply == call.reply
<1>1. /\ reply \in Reply /\ ~HeadOnly(call.asked)
      /\ reply.body = "success" => call.granted
      /\ ~call.disturbed => Honest(call)
  BY DEF Call, Underway
<1>2. call.asked.tool \in {"verify_token", "export_zone", "list_zones", "api_request"}
  BY DEF Call, Asked
<1>3. CASE call.asked.tool \in {"verify_token", "list_zones"}
  <2>1. Read(call) = parseJsonEnvelope(reply)
    BY <1>3 DEF Read
  <2>2. ~call.disturbed /\ call.granted => reply.status = 200 /\ reply.body = "success"
    BY <1>1, <1>3 DEF Honest, Granted
  <2>. QED
    BY <1>1, <1>3, <2>1, <2>2, EnvelopeRead DEF Says
<1>4. CASE call.asked.tool = "export_zone"
  <2>1. Read(call) = cfRequestText(reply)
    BY <1>4 DEF Read
  <2>2. ~call.disturbed /\ call.granted => reply.status = 200 /\ reply.body = "text"
    BY <1>1, <1>4 DEF Honest, Granted
  <2>3. ~call.disturbed /\ ~call.granted => reply.status # 200
    BY <1>1, <1>4 DEF Honest
  <2>. QED
    BY <1>1, <1>4, <2>1, <2>2, <2>3, TextRead DEF Says
<1>5. CASE call.asked.tool = "api_request"
  <2>1. Read(call) = cfApiPassthrough(reply)
    BY <1>5 DEF Read
  <2>2. ~call.disturbed /\ call.granted =>
          /\ reply.status = 200
          /\ reply.body \in {"success", "bare", "null", "broken", "text", "empty"}
    BY <1>1, <1>5 DEF Honest, Granted
  <2>3. ~call.disturbed /\ ~call.granted => reply.body = "failure"
    BY <1>1 DEF Honest
  <2>. QED
    BY <1>1, <1>5, <2>1, <2>2, <2>3, PassthroughRead DEF Says
<1>. QED
  BY <1>2, <1>3, <1>4, <1>5

LEMMA ReadBodyKeeps ==
    ASSUME ToolsInv, NEW c \in Client, NEW token \in Token, ReadBody(c, token)
    PROVE  ToolsInv'
<1>1. calls[c] \in Call /\ calls[c].at = "body" /\ CallOK(calls[c])
  BY AtCall DEF ReadBody
<1>2. Read(calls[c]) \in Outcome /\ Says(calls[c], Read(calls[c]))
  BY <1>1, ReadSays DEF CallOK
<1>. QED
  BY <1>1, <1>2, ConcludeKeeps DEF ReadBody, CallOK

LEMMA TimeoutKeeps ==
    ASSUME ToolsInv, NEW c \in Client, NEW token \in Token, Timeout(c, token)
    PROVE  ToolsInv'
<1>. DEFINE call == [calls[c] EXCEPT !.disturbed = TRUE]
<1>1. calls[c] \in Call /\ calls[c].at \in {"sent", "handled", "body"} /\ CallOK(calls[c])
  BY AtCall DEF Timeout
<1>2. /\ call \in Call /\ call.disturbed /\ call.at = calls[c].at
      /\ call.asked = calls[c].asked /\ call.granted = calls[c].granted
      /\ call.reply = calls[c].reply /\ call.probe = calls[c].probe
      /\ call.verify = calls[c].verify /\ call.seen = calls[c].seen
  BY <1>1 DEF Call
<1>3. Sent(call) /\ Underway(call) /\ Paged(call)
  BY <1>1, <1>2 DEF CallOK, Sent, Underway, Paged
<1>4. Says(call, NoAnswer)
  BY <1>2, RepliesAreReplies DEF Says
<1>5. Conclude(c, call, NoAnswer, token)
  BY DEF Timeout
<1>. HIDE DEF call
<1>. QED
  BY <1>1, <1>2, <1>3, <1>4, <1>5, RepliesAreReplies, ConcludeKeeps

\* A call starts: on a list's first page, or on the one after the last.
LEMMA InvokeKeeps ==
    ASSUME ToolsInv, NEW c \in Client, NEW asked \in Asked, NEW token \in Token,
           Invoke(c, asked, token)
    PROVE  /\ ToolsInv'
           /\ calls'[c] \in Call /\ calls'[c].token = token
           /\ \A d \in Client \ {c} : calls'[d] = calls[d]
<1>. DEFINE r == [asked |-> asked, token |-> token,
                  at |-> IF Allowed(asked) /\ token # Nothing THEN "sent" ELSE "done",
                  probe |-> FALSE, verify |-> NoAnswer,
                  reply |-> NoReply, result |-> NoAnswer,
                  seen |-> IF asked.tool = "list_zones" /\ asked.page > 1 THEN calls[c].seen
                           ELSE {},
                  granted |-> FALSE, disturbed |-> FALSE]
<1>1. calls' = [calls EXCEPT ![c] = r] /\ UNCHANGED <<env, kind>>
  BY DEF Invoke
<1>2. CASE asked.tool = "list_zones"
  <2>1. asked.page \in 1..(Zones + 1)
    BY <1>2 DEF Asked
  <2>2. CASE asked.page > 1
    <3>. DEFINE call == calls[c]
                info == ResultInfo(call.asked)
    <3>1. /\ call \in Call /\ call.at = "done" /\ CallOK(call) /\ call.asked.tool = "list_zones"
          /\ call.result.ok /\ hasMore(call.asked)
          /\ asked = [call.asked EXCEPT !.page = @ + 1]
      BY <1>2, <2>1, <2>2, AtCall DEF Invoke, Continues
    <3>2. call.asked \in Asked
      BY <3>1 DEF Call
    <3>3. info.page \in Nat /\ info.per_page \in Nat
      BY <3>1, <3>2, PageInfo, ReadToolsAssumption
    <3>4. call.seen = UpTo(info.page * info.per_page) /\ info.page * info.per_page < Zones
      BY <3>1, <3>2, PageInfo DEF CallOK, Paged, hasMore
    <3>5. asked.page = call.asked.page + 1 /\ asked.per_page = call.asked.per_page
      BY <3>1, <3>2 DEF Asked
    <3>6. ResultInfo(asked).page = info.page + 1 /\ ResultInfo(asked).per_page = info.per_page
      BY <3>5 DEF ResultInfo
    <3>. HIDE DEF info
    <3>7. (info.page + 1 - 1) * info.per_page = info.page * info.per_page
      BY <3>3, NextPage
    <3>8. r.seen = call.seen /\ call.seen \in SUBSET (1..Zones)
      BY <1>2, <2>2, <3>1 DEF Call
    <3>9. r \in Call
      BY <3>8, RepliesAreReplies DEF Call
    <3>10. Paged(r)
      <4>1. r.asked = asked /\ ~r.result.ok
        BY RepliesAreReplies
      <4>2. (ResultInfo(asked).page - 1) * ResultInfo(asked).per_page = info.page * info.per_page
        BY <3>3, <3>6, <3>7
      <4>. HIDE DEF r
      <4>. QED
        BY <3>4, <3>8, <4>1, <4>2 DEF Paged
    <3>. QED
      BY <1>2, <3>9, <3>10, <1>1, CallMoves, RepliesAreReplies
         DEF CallOK, Sent, Underway, Concluding, Says, Verified, Allowed, ToolsInv, ToolsTypeOK
  <2>3. CASE asked.page = 1
    <3>1. r.seen = {} /\ ResultInfo(asked).page = 1 /\ ResultInfo(asked).per_page \in Nat
      BY <1>2, <2>3, PageInfo
    <3>2. (1 - 1) * ResultInfo(asked).per_page = 0 /\ UpTo(0) = {}
      BY <3>1 DEF UpTo
    <3>3. Paged(r)
      <4>1. r.asked = asked /\ ~r.result.ok
        BY RepliesAreReplies
      <4>. HIDE DEF r
      <4>. QED
        BY <3>1, <3>2, <4>1 DEF Paged
    <3>4. r \in Call
      BY <3>1, RepliesAreReplies DEF Call
    <3>. QED
      BY <1>2, <3>3, <3>4, <1>1, CallMoves, RepliesAreReplies
         DEF CallOK, Sent, Underway, Concluding, Says, Verified, Allowed, ToolsInv, ToolsTypeOK
  <2>. QED
    BY <2>1, <2>2, <2>3, ReadToolsAssumption
<1>3. CASE asked.tool # "list_zones"
  <2>1. r \in Call
    BY <1>3, RepliesAreReplies DEF Call
  <2>2. CallOK(r)
    BY <1>3, RepliesAreReplies
       DEF CallOK, Sent, Underway, Concluding, Says, Verified, Paged, Allowed, undefinedStatus
  <2>. QED
    BY <1>1, <2>1, <2>2, CallMoves DEF ToolsInv, ToolsTypeOK
<1>. QED
  BY <1>2, <1>3

LEMMA ToolsInitInv == ToolsInit => ToolsInv
BY DEF ToolsInit, ToolsInv, ToolsTypeOK, CallsInv

LEMMA ToolsStep ==
    ASSUME ToolsInv, NEW c \in Client, NEW token \in Token, ToolsNext(c, token)
    PROVE  ToolsInv'
BY HandleKeeps, MangleKeeps, HeadersKeep, ReadBodyKeeps, TimeoutKeeps DEF ToolsNext

\* A call that goes on with the token of its first request stays with it.
LEMMA ConcludeKeepsToken ==
    ASSUME NEW c \in Client, NEW call \in Call, NEW outcome,
           Conclude(c, call, outcome, call.token),
           calls \in [Client -> Call \cup {Nothing}]
    PROVE  /\ calls'[c].token = call.token
           /\ \A d \in Client \ {c} : calls'[d] = calls[d]
<1>. DEFINE ended == [call EXCEPT !.at = "done", !.result = outcome, !.reply = NoReply]
<1>1. PICK r \in {[call EXCEPT !.at = "sent", !.probe = TRUE, !.verify = outcome,
                                !.token = call.token], ended,
                  [ended EXCEPT !.result = call.verify],
                  [ended EXCEPT !.seen = @ \cup OnPage(ResultInfo(call.asked))]} :
         calls' = [calls EXCEPT ![c] = r]
  BY Zenon DEF Conclude
<1>2. r.token = call.token
  BY DEF Call
<1>. QED
  BY <1>1, <1>2

LEMMA OthersWait ==
    ASSUME ToolsInv, NEW c \in Client, NEW token \in Token, ToolsNext(c, token)
    PROVE  \A d \in Client \ {c} : calls'[d] = calls[d]
BY DEF ToolsNext, Handle, Mangle, Headers, ReadBody, Timeout, Conclude, ToolsInv, ToolsTypeOK

LEMMA TokenStays ==
    ASSUME ToolsInv, NEW c \in Client, ToolsNext(c, calls[c].token), NEW d \in Client
    PROVE  calls'[d].token = calls[d].token /\ (d # c => calls'[d] = calls[d])
<1>1. calls[c] \in Call /\ calls \in [Client -> Call \cup {Nothing}]
  BY AtCall DEF ToolsNext, Handle, Mangle, Headers, ReadBody, Timeout
<1>2. CASE Handle(c) \/ Mangle(c)
  <2>1. PICK reply :
           calls' \in {[calls EXCEPT ![c].at = "handled", ![c].reply = reply, ![c].granted = TRUE],
                      [calls EXCEPT ![c].at = "handled", ![c].reply = reply],
                      [calls EXCEPT ![c].at = "handled", ![c].reply = reply, ![c].disturbed = TRUE]}
    BY <1>2, Zenon DEF Handle, Mangle
  <2>2. CASE d = c
    BY <1>1, <2>1, <2>2 DEF Call
  <2>3. CASE d # c
    BY <1>1, <2>1, <2>3
  <2>. QED
    BY <2>2, <2>3
<1>3. CASE Headers(c, calls[c].token)
  <2>1. CASE UNCHANGED <<env, kind>> /\ calls' = [calls EXCEPT ![c].at = "body"]
    BY <1>1, <2>1 DEF Call
  <2>2. CASE \E outcome : Conclude(c, calls[c], outcome, calls[c].token)
    BY <1>1, <2>2, ConcludeKeepsToken
  <2>. QED
    BY <1>3, <2>1, <2>2 DEF Headers
<1>4. CASE ReadBody(c, calls[c].token)
  BY <1>1, <1>4, ConcludeKeepsToken DEF ReadBody
<1>5. CASE Timeout(c, calls[c].token)
  <2>. DEFINE call == [calls[c] EXCEPT !.disturbed = TRUE]
  <2>1. call \in Call /\ call.token = calls[c].token
    BY <1>1 DEF Call
  <2>2. Conclude(c, call, NoAnswer, call.token)
    BY <1>5, <2>1 DEF Timeout
  <2>. HIDE DEF call
  <2>. QED
    BY <1>1, <2>1, <2>2, ConcludeKeepsToken
<1>. QED
  BY <1>2, <1>3, <1>4, <1>5 DEF ToolsNext

-----------------------------------------------------------------------------
\* The door: what the bind guard and the middleware have let through.

LEMMA OneBearer ==
    ASSUME NEW header, NEW a \in extractBearer(header), NEW b \in extractBearer(header)
    PROVE  a = b
BY DEF extractBearer

LEMMA ConcatFirst ==
    ASSUME NEW T, NEW s \in Seq(T), NEW t \in Seq(T), Len(s) > 0
    PROVE  s \o t \in Seq(T) /\ Len(s \o t) = Len(s) + Len(t) /\ (s \o t)[1] = s[1]
<1>1. Len(s) \in Nat /\ Len(t) \in Nat
  OBVIOUS
<1>2. /\ s \o t \in Seq(T) /\ Len(s \o t) = Len(s) + Len(t)
      /\ \A i \in 1..Len(s) + Len(t) : (s \o t)[i] = IF i <= Len(s) THEN s[i] ELSE t[i - Len(s)]
  BY ConcatProperties, Zenon
<1>3. 1 \in 1..Len(s) + Len(t) /\ 1 <= Len(s)
  BY <1>1
<1>. QED
  BY <1>2, <1>3, Zenon

LEMMA BracketedFirst ==
    ASSUME NEW T, NEW a \in Seq(T), NEW b \in Seq(T), NEW c \in Seq(T), Len(a) > 0
    PROVE  a \o b \o c # <<>> /\ (a \o b \o c)[1] = a[1]
<1>1. a \o b \in Seq(T) /\ Len(a \o b) = Len(a) + Len(b) /\ (a \o b)[1] = a[1]
  BY ConcatFirst
<1>2. Len(a \o b) > 0
  BY <1>1
<1>3. Len(a \o b \o c) = Len(a \o b) + Len(c) /\ (a \o b \o c)[1] = (a \o b)[1]
  BY <1>1, <1>2, ConcatFirst
<1>4. a \o b \o c # <<>>
  <2>1. Len(a \o b \o c) > 0
    BY <1>1, <1>2, <1>3
  <2>. QED
    BY <2>1, EmptySeq
<1>. QED
  BY <1>1, <1>3, <1>4

\* The guard and app.listen agree on what is a loopback address: they read
\* the same HOST, the one trimmed and the other not.
LEMMA LoopbackIsNotAll ==
    ASSUME NEW host, bindsLoopback(host)
    PROVE  "all" \notin Interface(host)
<1>1. CASE host \in {undefined} \cup LOCAL_HOSTNAMES
  BY <1>1 DEF Interface
<1>2. CASE host \notin {undefined} \cup LOCAL_HOSTNAMES
  <2>1. trimmed(host) # host \/ host = <<"[">> \o ip6 \o <<"]">>
    BY <1>2 DEF bindsLoopback
  <2>2. <<"[">> \o ip6 \o <<"]">> # <<>> /\ (<<"[">> \o ip6 \o <<"]">>)[1] = "["
    <3>1. /\ <<"[">> \in Seq({"[", ":", "1", "]"}) /\ <<"]">> \in Seq({"[", ":", "1", "]"})
          /\ ip6 \in Seq({"[", ":", "1", "]"})
          /\ Len(<<"[">>) > 0 /\ <<"[">>[1] = "["
      BY DEF ip6
    <3>. QED
      BY <3>1, BracketedFirst, Zenon
  <2>3. trimmed(host) # host \/ (host # <<>> /\ host[1] = "[")
    BY <2>1, <2>2
  <2>. QED
    BY <1>2, <2>3 DEF Interface
<1>. QED
  BY <1>1, <1>2

ToldOf(request) ==
    LET HasBearer == \E b \in DOMAIN BearerToken : b \in extractBearer(request.authorization)
        HasToken == /\ env.MCP_AUTH_TOKEN \notin {undefined, <<>>}
                    /\ request.authorization = <<"Bearer", "blank">> \o env.MCP_AUTH_TOKEN
    IN  /\ \/ request.origin \in {undefined, <<>>} \cup parseEnvAllowlist(env.ALLOWED_ORIGINS)
           \/ originIsLocal(request.origin)
        /\ env.GATEWAY_ENABLE = "true" => HasBearer
        /\ env.GATEWAY_ENABLE # "true" /\ request.from = "elsewhere" =>
              HasToken \/ env.ALLOW_UNAUTHENTICATED = "true"

\* A process that is up was let start; a socket is open only in one that was
\* let listen.
StartedRight ==
    /\ process = "up" => ~MainRefuses
    /\ mcp # "closed" => /\ process = "up" /\ env.TRANSPORT # "stdio"
                         /\ ~BindGuardRefuses

\* The chain of an agent's request is bound to this agent's token before it
\* gets to a tool, and the tool sends nothing under another one.
OwnContext(c) == gatewayEnabled =>
    /\ requests[c].agent \in FoundAgents(requests[c].request)
    /\ requests[c].at # "admitted" => context[c] = BearerToken[requests[c].agent]
    /\ requests[c].at = "served" => calls[c].token = BearerToken[requests[c].agent]

DoorInv == \A c \in Client : requests[c] # Nothing =>
    ToldOf(requests[c].request) /\ ~MainRefuses /\ OwnContext(c)

\* A tool runs in a chain of its own, and in a gateway in that of a request.
RunningInv == \A c \in Client : calls[c] # Nothing =>
    /\ ~MainRefuses
    /\ gatewayEnabled /\ calls[c].at # "done" => Served(c)

ServerInv == TypeOK /\ CallsInv /\ StartedRight /\ DoorInv /\ RunningInv

LEMMA ServerTools == ServerInv => ToolsInv
BY DEF ServerInv, TypeOK, ToolsInv

\* Whoever reaches the socket from elsewhere and passes the middleware has
\* what the guard counted on.
LEMMA FrontDoorAdmits ==
    ASSUME ServerInv, NEW request, Reaches(request), FrontDoor(request)
    PROVE  ToldOf(request)
<1>1. \/ request.origin \in {undefined, <<>>} \cup parseEnvAllowlist(env.ALLOWED_ORIGINS)
      \/ originIsLocal(request.origin)
  BY DEF FrontDoor, originPasses, originAllowed, originIsLocal
<1>2. CASE gatewayEnabled
  <2>1. \E b \in DOMAIN BearerToken : b \in extractBearer(request.authorization)
    BY <1>2 DEF FrontDoor, FoundAgents
  <2>. QED
    BY <1>1, <1>2, <2>1 DEF ToldOf, gatewayEnabled
<1>3. CASE ~gatewayEnabled
  <2>1. ~BindGuardRefuses
    BY DEF Reaches, ServerInv, StartedRight
  <2>2. CASE HasAuthToken
    BY <1>1, <1>3, <2>2 DEF FrontDoor, HasAuthToken, ToldOf, gatewayEnabled
  <2>3. CASE ~HasAuthToken /\ env.ALLOW_UNAUTHENTICATED # "true"
    <3>1. bindsLoopback(env.HOST)
      BY <1>3, <2>1, <2>3 DEF BindGuardRefuses
    <3>2. request.from # "elsewhere"
      BY <3>1, LoopbackIsNotAll DEF Reaches
    <3>. QED
      BY <1>1, <1>3, <3>2 DEF ToldOf, gatewayEnabled
  <2>. QED
    BY <1>1, <1>3, <2>2, <2>3 DEF ToldOf, gatewayEnabled
<1>. QED
  BY <1>2, <1>3

LEMMA ServerInit == Init => ServerInv
BY ToolsInitInv
   DEF Init, ServerInv, ToolsInv, TypeOK, StartedRight, DoorInv, RunningInv, ToolsInit

LEMMA ExitKeeps ==
    ASSUME ServerInv, Exit
    PROVE  ServerInv'
<1>1. TypeOK'
  BY DEF Exit, ServerInv, TypeOK, ToolsTypeOK
<1>2. CallsInv' /\ DoorInv' /\ RunningInv'
  BY DEF Exit, CallsInv, DoorInv, RunningInv
<1>3. StartedRight'
  BY DEF Exit, StartedRight
<1>. QED
  BY <1>1, <1>2, <1>3 DEF ServerInv

\* What the start and the sockets change of the process leaves the calls be.
LEMMA CallsRest ==
    ASSUME ServerInv, UNCHANGED <<toolVars, requests, context>>
    PROVE  /\ ToolsTypeOK' /\ CallsInv' /\ DoorInv' /\ RunningInv'
           /\ requests' \in [Client -> Admitted \cup {Nothing}]
           /\ context' \in [Client -> Token \cup {Nothing}]
<1>1. /\ ToolsTypeOK' /\ requests' \in [Client -> Admitted \cup {Nothing}]
      /\ context' \in [Client -> Token \cup {Nothing}]
  BY DEF toolVars, ServerInv, TypeOK, ToolsTypeOK
<1>2. CallsInv'
  BY DEF toolVars, ServerInv, CallsInv, CallOK, Sent, Allowed, PassthroughAllows, Underway, Honest,
         Concluding, Says, Verified, Paged
<1>3. DoorInv' /\ RunningInv'
  BY DEF toolVars, ServerInv, DoorInv, RunningInv, ToldOf, OwnContext, Served, MainRefuses,
         gatewayEnabled
<1>. QED
  BY <1>1, <1>2, <1>3

LEMMA StartKeeps ==
    ASSUME ServerInv, StartStdio \/ StartHttp \/ AdminListens \/ McpListens
    PROVE  ServerInv'
<1>1. UNCHANGED <<toolVars, requests, context>>
  BY DEF StartStdio, StartHttp, AdminListens, McpListens
<1>2. /\ process' \in {"starting", "up", "exited"}
      /\ {admin', mcp'} \subseteq {"closed", "binding", "listening"}
  BY DEF StartStdio, StartHttp, AdminListens, McpListens, ServerInv, TypeOK
<1>3. StartedRight'
  <2>1. MainRefuses' = MainRefuses /\ BindGuardRefuses' = BindGuardRefuses /\ env' = env
    BY <1>1 DEF toolVars, MainRefuses, BindGuardRefuses, HasAuthToken, gatewayEnabled
  <2>2. CASE StartStdio
    BY <2>1, <2>2 DEF StartStdio, ServerInv, StartedRight
  <2>3. CASE StartHttp
    BY <2>1, <2>3 DEF StartHttp, ServerInv, StartedRight
  <2>4. CASE AdminListens \/ McpListens
    BY <2>1, <2>4 DEF AdminListens, McpListens, ServerInv, StartedRight
  <2>. QED
    BY <2>2, <2>3, <2>4
<1>. QED
  BY <1>1, <1>2, <1>3, CallsRest DEF ServerInv, TypeOK

\* The environment and the process stay; requests and calls move.
LEMMA ToolsMove ==
    ASSUME ServerInv, UNCHANGED <<env, process, admin, mcp>>, ToolsInv', DoorInv', RunningInv',
           requests' \in [Client -> Admitted \cup {Nothing}],
           context' \in [Client -> Token \cup {Nothing}]
    PROVE  ServerInv'
<1>1. StartedRight'
  BY DEF ServerInv, StartedRight, MainRefuses, BindGuardRefuses, HasAuthToken, gatewayEnabled
<1>. QED
  BY <1>1 DEF ServerInv, TypeOK, ToolsInv

\* Where the environment stays, a client whose request, context and call stay
\* keeps its part of the invariant.
LEMMA OthersRest ==
    ASSUME ServerInv, UNCHANGED env, NEW d \in Client,
           requests'[d] = requests[d], context'[d] = context[d], calls'[d] = calls[d]
    PROVE  /\ requests'[d] # Nothing =>
                 ToldOf(requests[d].request)' /\ MainRefuses' = FALSE /\ OwnContext(d)'
           /\ calls'[d] # Nothing =>
                 /\ MainRefuses' = FALSE
                 /\ gatewayEnabled' /\ calls'[d].at # "done" => Served(d)'
BY DEF ServerInv, DoorInv, RunningInv, ToldOf, OwnContext, Served, MainRefuses, gatewayEnabled

\* Only the request of one client goes on.
LEMMA RequestMoves ==
    ASSUME ServerInv, NEW c \in Client, UNCHANGED <<toolVars, process, admin, mcp>>,
           NEW r \in Admitted \cup {Nothing}, requests' = [requests EXCEPT ![c] = r],
           context' \in [Client -> Token \cup {Nothing}],
           \A d \in Client \ {c} : context'[d] = context[d],
           r # Nothing => ToldOf(r.request) /\ ~MainRefuses /\ OwnContext(c)',
           gatewayEnabled => calls[c] = Nothing \/ calls[c].at = "done"
    PROVE  ServerInv'
<1>1. requests' \in [Client -> Admitted \cup {Nothing}] /\ requests'[c] = r
      /\ UNCHANGED <<env, kind, calls>>
  BY DEF ServerInv, TypeOK, toolVars
<1>2. ToolsInv'
  BY <1>1 DEF ServerInv, TypeOK, ToolsInv, ToolsTypeOK, CallsInv, CallOK, Sent, Allowed,
         PassthroughAllows, Underway, Honest, Concluding, Says, Verified, Paged
<1>3. \A d \in Client \ {c} : requests'[d] = requests[d]
  BY DEF ServerInv, TypeOK
<1>4. /\ MainRefuses' = MainRefuses /\ gatewayEnabled' = gatewayEnabled
      /\ \A q : ToldOf(q)' = ToldOf(q)
  BY <1>1 DEF MainRefuses, gatewayEnabled, ToldOf
<1>5. DoorInv'
  <2>1. ASSUME NEW d \in Client, requests'[d] # Nothing
        PROVE  ToldOf(requests[d].request)' /\ ~MainRefuses' /\ OwnContext(d)'
    <3>1. CASE d = c
      BY <1>1, <1>4, <2>1, <3>1
    <3>2. CASE d # c
      BY <1>1, <1>3, <2>1, <3>2, OthersRest
    <3>. QED
      BY <3>1, <3>2
  <2>. QED
    BY <2>1 DEF DoorInv
<1>6. RunningInv'
  <2>1. ASSUME NEW d \in Client, calls'[d] # Nothing
        PROVE  ~MainRefuses' /\ (gatewayEnabled' /\ calls'[d].at # "done" => Served(d)')
    <3>1. CASE d = c
      BY <1>1, <1>4, <2>1, <3>1 DEF ServerInv, RunningInv
    <3>2. CASE d # c
      BY <1>1, <1>3, <2>1, <3>2, OthersRest
    <3>. QED
      BY <3>1, <3>2
  <2>. QED
    BY <2>1 DEF RunningInv
<1>. QED
  BY <1>1, <1>2, <1>5, <1>6, ToolsMove

LEMMA PostKeeps ==
    ASSUME ServerInv, NEW c \in Client, NEW request \in Requests, Post(c, request)
    PROVE  ServerInv'
<1>1. PICK agent \in IF gatewayEnabled THEN FoundAgents(request) ELSE {Nothing} :
         requests' = [requests EXCEPT ![c] =
             [request |-> request, agent |-> agent, at |-> "admitted"]]
  BY DEF Post
<1>. DEFINE r == [request |-> request, agent |-> agent, at |-> "admitted"]
<1>2. r \in Admitted
  BY <1>1 DEF Admitted, FoundAgents
<1>3. ToldOf(request) /\ ~MainRefuses
  BY FrontDoorAdmits DEF Post, Reaches, ServerInv, StartedRight
<1>4. /\ UNCHANGED <<toolVars, process, admin, mcp>>
      /\ context' = [context EXCEPT ![c] = Nothing]
      /\ calls[c] = Nothing \/ calls[c].at = "done"
  BY DEF Post, At
<1>5. /\ context' \in [Client -> Token \cup {Nothing}]
      /\ \A d \in Client \ {c} : context'[d] = context[d]
  BY <1>4 DEF ServerInv, TypeOK
<1>6. requests'[c] = r /\ r.request = request /\ r.agent = agent /\ r.at = "admitted"
  BY <1>1 DEF ServerInv, TypeOK
<1>7. OwnContext(c)'
  BY <1>1, <1>4, <1>6 DEF OwnContext, gatewayEnabled, toolVars, FoundAgents
<1>. HIDE DEF r
<1>. QED
  BY <1>1, <1>2, <1>3, <1>4, <1>5, <1>6, <1>7, RequestMoves DEF r

\* A request that is not served has no call running.
LEMMA NotServedYet ==
    ASSUME ServerInv, NEW c \in Client, requests[c] # Nothing, requests[c].at # "served",
           gatewayEnabled
    PROVE  calls[c] = Nothing \/ calls[c].at = "done"
BY DEF ServerInv, RunningInv, Served

LEMMA HandleRequestKeeps ==
    ASSUME ServerInv, NEW c \in Client, HandleRequest(c)
    PROVE  ServerInv'
<1>. DEFINE r == [requests[c] EXCEPT !.at = "handled"]
<1>1. /\ requests[c] \in Admitted /\ requests[c].at = "admitted"
      /\ requests[c] # Nothing /\ requests' = [requests EXCEPT ![c] = r]
      /\ UNCHANGED <<toolVars, process, admin, mcp>>
  BY DEF HandleRequest, ServerInv, TypeOK
<1>2. /\ r \in Admitted /\ r.request = requests[c].request
      /\ r.agent = requests[c].agent /\ r.at = "handled"
  BY <1>1 DEF Admitted
<1>3. ToldOf(r.request) /\ ~MainRefuses /\ OwnContext(c)
  BY <1>1, <1>2 DEF ServerInv, DoorInv
<1>4. requests'[c] = r
  BY <1>1 DEF ServerInv, TypeOK
<1>5. CASE gatewayEnabled
  <2>1. context' = [context EXCEPT ![c] = BearerToken[requests[c].agent]]
    BY <1>5 DEF HandleRequest, runWithToken
  <2>2. BearerToken[requests[c].agent] \in Token
    BY <1>3, <1>5, ServerAssumption DEF OwnContext, FoundAgents
  <2>3. /\ context' \in [Client -> Token \cup {Nothing}]
        /\ context'[c] = BearerToken[requests[c].agent]
        /\ \A d \in Client \ {c} : context'[d] = context[d]
    BY <2>1, <2>2 DEF ServerInv, TypeOK
  <2>4. OwnContext(c)'
    BY <1>2, <1>3, <1>4, <1>5, <2>3 DEF OwnContext, FoundAgents
  <2>. HIDE DEF r
  <2>. QED
    BY <1>1, <1>2, <1>3, <2>3, <2>4, NotServedYet, RequestMoves
<1>6. CASE ~gatewayEnabled
  <2>1. context' = context /\ context' \in [Client -> Token \cup {Nothing}]
    BY <1>6 DEF HandleRequest, ServerInv, TypeOK
  <2>2. OwnContext(c)'
    BY <1>1, <1>6 DEF OwnContext, gatewayEnabled, toolVars
  <2>. HIDE DEF r
  <2>. QED
    BY <1>1, <1>2, <1>3, <1>6, <2>1, <2>2, RequestMoves
<1>. QED
  BY <1>5, <1>6

LEMMA NoCallKeeps ==
    ASSUME ServerInv, NEW c \in Client, NoCall(c)
    PROVE  ServerInv'
<1>1. context' \in [Client -> Token \cup {Nothing}]
  BY DEF NoCall, ServerInv, TypeOK
<1>. QED
  BY <1>1, NotServedYet, RequestMoves DEF NoCall

\* apiToken finds a token for whoever has got to a tool.
LEMMA TokenBound ==
    ASSUME ServerInv, NEW c \in Client, ~MainRefuses,
           gatewayEnabled => requests[c] # Nothing /\ requests[c].at # "admitted"
    PROVE  apiToken(c) \in Token
<1>1. CASE gatewayEnabled
  <2>1. /\ requests[c].agent \in DOMAIN BearerToken
        /\ context[c] = BearerToken[requests[c].agent]
    BY <1>1 DEF ServerInv, DoorInv, OwnContext, FoundAgents
  <2>. QED
    BY <1>1, <2>1, ServerAssumption DEF apiToken
<1>2. CASE ~gatewayEnabled
  BY <1>2, ServerAssumption DEF apiToken, MainRefuses, ServerInv, TypeOK, ToolsTypeOK
<1>. QED
  BY <1>1, <1>2

\* The tools of one client begin or go on.
LEMMA CallMovesOn ==
    ASSUME ServerInv, NEW c \in Client, UNCHANGED <<env, process, admin, mcp, context>>,
           ToolsInv', requests' \in [Client -> Admitted \cup {Nothing}],
           \A d \in Client \ {c} : calls'[d] = calls[d] /\ requests'[d] = requests[d],
           ~MainRefuses,
           requests'[c] # Nothing => ToldOf(requests'[c].request) /\ OwnContext(c)',
           gatewayEnabled => Served(c)'
    PROVE  ServerInv'
<1>1. /\ MainRefuses' = MainRefuses /\ gatewayEnabled' = gatewayEnabled
      /\ \A q : ToldOf(q)' = ToldOf(q)
  BY DEF MainRefuses, gatewayEnabled, ToldOf
<1>2. DoorInv'
  <2>1. ASSUME NEW d \in Client, requests'[d] # Nothing
        PROVE  ToldOf(requests[d].request)' /\ ~MainRefuses' /\ OwnContext(d)'
    <3>1. CASE d = c
      BY <1>1, <2>1, <3>1
    <3>2. CASE d # c
      BY <1>1, <2>1, <3>2, OthersRest
    <3>. QED
      BY <3>1, <3>2
  <2>. QED
    BY <2>1 DEF DoorInv
<1>3. RunningInv'
  <2>1. ASSUME NEW d \in Client, calls'[d] # Nothing
        PROVE  ~MainRefuses' /\ (gatewayEnabled' /\ calls'[d].at # "done" => Served(d)')
    <3>1. CASE d = c
      BY <1>1, <3>1
    <3>2. CASE d # c
      BY <1>1, <2>1, <3>2, OthersRest
    <3>. QED
      BY <3>1, <3>2
  <2>. QED
    BY <2>1 DEF RunningInv
<1>4. context' \in [Client -> Token \cup {Nothing}]
  BY DEF ServerInv, TypeOK
<1>. QED
  BY <1>2, <1>3, <1>4, ToolsMove

LEMMA CallToolKeeps ==
    ASSUME ServerInv, NEW c \in Client, CallTool(c)
    PROVE  ServerInv'
<1>. DEFINE r == [requests[c] EXCEPT !.at = "served"]
<1>1. PICK asked \in Asked : Invoke(c, asked, apiToken(c))
  BY DEF CallTool
<1>2. /\ requests[c] \in Admitted /\ requests[c].at = "handled"
      /\ requests[c] # Nothing /\ requests' = [requests EXCEPT ![c] = r]
      /\ UNCHANGED <<process, admin, mcp, context>>
  BY DEF CallTool, ServerInv, TypeOK
<1>3. ToldOf(requests[c].request) /\ ~MainRefuses /\ OwnContext(c)
  BY <1>2 DEF ServerInv, DoorInv
<1>4. apiToken(c) \in Token
  BY <1>2, <1>3, TokenBound
<1>5. /\ ToolsInv' /\ calls'[c].token = apiToken(c)
      /\ \A d \in Client \ {c} : calls'[d] = calls[d]
  BY <1>1, <1>4, ServerTools, InvokeKeeps
<1>6. /\ r \in Admitted /\ r.request = requests[c].request
      /\ r.agent = requests[c].agent /\ r.at = "served"
  BY <1>2 DEF Admitted
<1>7. /\ requests' \in [Client -> Admitted \cup {Nothing}] /\ requests'[c] = r
      /\ \A d \in Client \ {c} : requests'[d] = requests[d]
  BY <1>2, <1>6 DEF ServerInv, TypeOK
<1>8. UNCHANGED env
  BY <1>1 DEF Invoke
<1>. HIDE DEF r
<1>9. OwnContext(c)'
  BY <1>2, <1>3, <1>5, <1>6, <1>7, <1>8 DEF OwnContext, gatewayEnabled, FoundAgents, apiToken
<1>10. Served(c)'
  BY <1>6, <1>7, AdmittedAssumption DEF Served
<1>. QED
  BY <1>2, <1>3, <1>5, <1>6, <1>7, <1>8, <1>9, <1>10, CallMovesOn

\* Over stdio there is no request, nor a gateway, and one token.
LEMMA StdioKeeps ==
    ASSUME ServerInv, NEW c \in Client, OverStdio(c)
    PROVE  ServerInv'
<1>1. PICK asked \in Asked : Invoke(c, asked, apiToken(c))
  BY DEF OverStdio
<1>2. ~gatewayEnabled /\ ~MainRefuses
  BY DEF OverStdio, ServerInv, StartedRight, MainRefuses
<1>3. UNCHANGED <<env, process, admin, mcp, requests, context>>
  BY <1>1 DEF OverStdio, Invoke
<1>4. /\ ToolsInv'
      /\ \A d \in Client \ {c} : calls'[d] = calls[d]
  BY <1>1, <1>2, TokenBound, ServerTools, InvokeKeeps
<1>5. requests[c] # Nothing => ToldOf(requests[c].request)
  BY DEF ServerInv, DoorInv
<1>6. OwnContext(c)' /\ requests' \in [Client -> Admitted \cup {Nothing}]
  BY <1>2, <1>3 DEF OwnContext, gatewayEnabled, ServerInv, TypeOK
<1>. QED
  BY <1>2, <1>3, <1>4, <1>5, <1>6, CallMovesOn

LEMMA WorkKeeps ==
    ASSUME ServerInv, NEW c \in Client, Work(c)
    PROVE  ServerInv'
<1>1. ToolsNext(c, apiToken(c)) /\ UNCHANGED <<process, admin, mcp, requests, context>>
  BY DEF Work
<1>2. calls[c] # Nothing /\ calls[c].at # "done"
  BY <1>1 DEF ToolsNext, Handle, Mangle, Headers, ReadBody, Timeout, At
<1>3. ~MainRefuses /\ (gatewayEnabled => Served(c))
  BY <1>2 DEF ServerInv, RunningInv
<1>4. UNCHANGED env
  BY <1>1 DEF ToolsNext, Handle, Mangle, Headers, ReadBody, Timeout, Conclude
<1>5. apiToken(c) \in Token
  BY <1>3, TokenBound DEF Served
<1>6. ToolsInv' /\ \A d \in Client \ {c} : calls'[d] = calls[d]
  BY <1>1, <1>5, ServerTools, ToolsStep, OthersWait
<1>7. requests[c] # Nothing => ToldOf(requests[c].request) /\ OwnContext(c)
  BY DEF ServerInv, DoorInv
<1>8. OwnContext(c)'
  <2>1. CASE gatewayEnabled
    <3>1. apiToken(c) = calls[c].token
      BY <1>3, <1>7, <2>1 DEF OwnContext, Served, apiToken
    <3>2. calls'[c].token = calls[c].token
      BY <1>1, <3>1, ServerTools, TokenStays
    <3>. QED
      BY <1>1, <1>3, <1>4, <1>7, <3>2 DEF OwnContext, Served, gatewayEnabled, FoundAgents
  <2>2. CASE ~gatewayEnabled
    BY <1>4, <2>2 DEF OwnContext, gatewayEnabled
  <2>. QED
    BY <2>1, <2>2
<1>9. /\ requests' \in [Client -> Admitted \cup {Nothing}]
      /\ gatewayEnabled => Served(c)'
  BY <1>1, <1>3 DEF ServerInv, TypeOK, Served
<1>. QED
  BY <1>1, <1>3, <1>4, <1>6, <1>7, <1>8, <1>9, CallMovesOn

LEMMA ServerStep ==
    ASSUME ServerInv, [Next]_vars
    PROVE  ServerInv'
<1>1. CASE Refuse \/ ListenFails
  BY <1>1, ExitKeeps DEF Refuse, ListenFails
<1>2. ASSUME NEW token \in Token, Revoke(token),
             UNCHANGED <<process, admin, mcp, requests, context>>
      PROVE  ServerInv'
  <2>1. ToolsInv'
    BY <1>2, ServerTools, RevokeKeeps
  <2>2. UNCHANGED <<env, calls>>
    BY <1>2 DEF Revoke
  <2>3. DoorInv' /\ RunningInv'
    BY <1>2, <2>2 DEF ServerInv, DoorInv, RunningInv, ToldOf, OwnContext, Served, MainRefuses,
                      gatewayEnabled
  <2>4. /\ requests' \in [Client -> Admitted \cup {Nothing}]
        /\ context' \in [Client -> Token \cup {Nothing}]
    BY <1>2 DEF ServerInv, TypeOK
  <2>. QED
    BY <1>2, <2>1, <2>2, <2>3, <2>4, ToolsMove
<1>3. CASE UNCHANGED vars
  <2>1. UNCHANGED <<toolVars, requests, context, process, admin, mcp>> /\ UNCHANGED env
    BY <1>3 DEF vars, toolVars
  <2>2. ToolsInv'
    BY <2>1, CallsRest DEF ToolsInv
  <2>. QED
    BY <2>1, <2>2, CallsRest, ToolsMove
<1>. QED
  BY <1>1, <1>2, <1>3, StartKeeps, PostKeeps, HandleRequestKeeps, NoCallKeeps, CallToolKeeps,
     StdioKeeps, WorkKeeps DEF Next

LEMMA Invariance == Spec => []ServerInv
BY ServerInit, ServerStep, PTL DEF Spec

-----------------------------------------------------------------------------

(***************************************************************************)
(* Every variable keeps its shape: no call is made without a token, in any *)
(* environment the server starts in.                                       *)
(***************************************************************************)
THEOREM TypeCorrect == Spec => []TypeOK
<1>1. ServerInv => TypeOK
  BY DEF ServerInv
<1>. QED
  BY <1>1, Invariance, PTL

(***************************************************************************)
(* For every environment, the bind guard that decides at the start and the *)
(* middleware that decides per request leave no way in but those the       *)
(* operator was told of: what the one counts on, the other checks.         *)
(***************************************************************************)
THEOREM ServerIsOpenOnlyAsTold == Spec => []OpenOnlyAsTold
<1>1. ServerInv => OpenOnlyAsTold
  BY DEF ServerInv, DoorInv, ToldOf, OpenOnlyAsTold
<1>. QED
  BY <1>1, Invariance, PTL

(***************************************************************************)
(* In gateway mode every request a tool sends carries the token of the     *)
(* agent whose bearer came with its HTTP request, at every moment apiToken *)
(* is asked, for any number of agents and clients at work between its      *)
(* waits.                                                                  *)
(***************************************************************************)
THEOREM CallsUseTheirOwnToken == Spec => []RightToken
<1>1. ServerInv => RightToken
  <2>. SUFFICES ASSUME ServerInv, NEW c \in Client, gatewayEnabled, Served(c),
                       NEW b \in extractBearer(requests[c].request.authorization)
                PROVE  calls[c].token = BearerToken[b]
    BY DEF RightToken, gatewayEnabled
  <2>1. OwnContext(c) /\ requests[c].at = "served"
    BY DEF ServerInv, DoorInv, Served
  <2>2. b = requests[c].agent
    BY <2>1, OneBearer DEF OwnContext, FoundAgents
  <2>. QED
    BY <2>1, <2>2 DEF OwnContext
<1>. QED
  BY <1>1, Invariance, PTL

\* What the reports say follows from what is known of a concluded call.
LEMMA EndedCall ==
    ASSUME ServerInv, NEW c \in Client, NEW tools, Ended(c, tools)
    PROVE  /\ calls[c] \in Call /\ calls[c].at = "done" /\ CallOK(calls[c])
           /\ calls[c].asked.tool \in tools
BY ServerTools, AtCall DEF Ended

(***************************************************************************)
(* verify_token's verdict is true whatever Cloudflare and the network      *)
(* answer to its two requests, for tokens of users and of accounts.        *)
(***************************************************************************)
THEOREM VerdictsAreTrue == Spec => []VerdictTrue
<1>1. ServerInv => VerdictTrue
  <2>. SUFFICES ASSUME ServerInv, NEW c \in Client, Ended(c, {"verify_token"})
                PROVE  LET call == calls[c]
                       IN  /\ call.result.ok => call.granted
                           /\ ~call.result.ok /\ ~call.disturbed /\ call.result.status \in {401, 403}
                                 => ~call.granted /\ (kind[call.token] = "account" => call.probe)
                           /\ call.probe /\ ~call.result.ok => call.result = call.verify
    BY DEF VerdictTrue
  <2>1. Concluding(calls[c]) /\ calls[c].at = "done" /\ calls[c].asked.tool = "verify_token"
    BY EndedCall DEF CallOK
  <2>. QED
    BY <2>1 DEF Concluding, Says, Verified
<1>. QED
  BY <1>1, Invariance, PTL

(***************************************************************************)
(* What list_zones, export_zone and api_request report is what happened,   *)
(* for every reply of Cloudflare or of what answers in its place.          *)
(***************************************************************************)
THEOREM ReportsAreTrue == Spec => []ReportsTrue
<1>1. ServerInv => ReportsTrue
  <2>. SUFFICES ASSUME ServerInv, NEW c \in Client,
                       Ended(c, {"list_zones", "export_zone", "api_request"})
                PROVE  LET call == calls[c]
                       IN  /\ call.result.ok =>
                                call.granted \/ (call.disturbed /\ call.asked.tool # "list_zones")
                           /\ ~call.result.ok /\ ~call.disturbed =>
                                \/ call.result.status = undefinedStatus \/ call.result.malformed
                                \/ ~call.granted
    BY DEF ReportsTrue
  <2>1. Concluding(calls[c]) /\ calls[c].at = "done" /\ calls[c].asked.tool # "verify_token"
    BY EndedCall DEF CallOK
  <2>. QED
    BY <2>1 DEF Concluding, Says
<1>. QED
  BY <1>1, Invariance, PTL

(***************************************************************************)
(* Following has_more shows every zone and never an empty page, for any    *)
(* number of zones, page size asked for and page size Cloudflare uses.     *)
(***************************************************************************)
THEOREM ListsAreComplete == Spec => []SeesEveryZone
<1>1. ServerInv => SeesEveryZone
  <2>. SUFFICES ASSUME ServerInv, NEW c \in Client, Ended(c, {"list_zones"}), calls[c].result.ok
                PROVE  /\ ~hasMore(calls[c].asked) => calls[c].seen = 1..Zones
                       /\ calls[c].asked.page > 1 => OnPage(ResultInfo(calls[c].asked)) # {}
    BY DEF SeesEveryZone
  <2>. DEFINE asked == calls[c].asked
              info == ResultInfo(asked)
              n == info.page * info.per_page
  <2>1. /\ asked \in Asked /\ asked.tool = "list_zones" /\ calls[c].at = "done"
        /\ Paged(calls[c])
    BY EndedCall DEF CallOK, Call
  <2>2. /\ info.page = asked.page /\ info.page \in Nat /\ info.per_page \in Nat
        /\ info.total_count = Zones
    BY <2>1, PageInfo, ReadToolsAssumption
  <2>3. calls[c].seen = UpTo(n) /\ (info.page > 1 => (info.page - 1) * info.per_page < Zones)
    BY <2>1 DEF Paged
  <2>4. n \in Nat
    BY <2>2
  <2>5. ~hasMore(asked) => Zones <= n
    BY <2>2, <2>4, ReadToolsAssumption DEF hasMore
  <2>6. Zones <= n => UpTo(n) = 1..Zones
    <3>. HIDE DEF n
    <3>. QED
      BY <2>4, ReadToolsAssumption DEF UpTo
  <2>7. asked.page > 1 => OnPage(info) # {}
    BY <2>1, <2>2, <2>3, PageShows
  <2>. QED
    BY <2>3, <2>5, <2>6, <2>7
<1>. QED
  BY <1>1, Invariance, PTL

(***************************************************************************)
(* Nothing is written through the passthrough unless the operator and the  *)
(* caller asked for it.                                                    *)
(***************************************************************************)
THEOREM WritesWereAsked == Spec => []WritesAsked
<1>1. ServerInv => WritesAsked
  <2>. SUFFICES ASSUME ServerInv, NEW c \in Client, calls[c] # Nothing, IsWrite(calls[c].asked),
                       calls[c].granted
                PROVE  env.CLOUDFLARE_API_PASSTHROUGH = "full" /\ calls[c].asked.confirm
    BY DEF WritesAsked
  <2>1. Allowed(calls[c].asked)
    BY DEF ServerInv, CallsInv, CallOK, Sent
  <2>2. PassthroughAllows(calls[c].asked)
    BY <2>1 DEF Allowed, IsWrite
  <2>. QED
    BY <2>2 DEF PassthroughAllows, resolvePassthroughMode
<1>. QED
  BY <1>1, Invariance, PTL
=============================================================================
