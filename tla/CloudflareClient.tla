-------------------------- MODULE CloudflareClient --------------------------
(***************************************************************************)
(* How src/cloudflare.ts reads the replies of the Cloudflare API, or of    *)
(* whatever answers in its place.  A reply is its status and its body:     *)
(*   success, failure   the standard envelope, with success true or false  *)
(*   bare, null         other JSON: an object, the value null              *)
(*   broken             announced as JSON, or beginning with [ or {, but   *)
(*                      does not parse                                     *)
(*   text, empty        no JSON                                            *)
(*   cut                the connection breaks in the middle of the body    *)
(* A body that never ends is ended by the request's own timeout.           *)
(***************************************************************************)
EXTENDS Naturals

Status == {200, 401, 403, 500}
Body == {"success", "failure", "bare", "null", "broken", "text", "empty", "cut"}
Reply == [status : Status, body : Body]

res_ok(reply) == reply.status = 200

\* What a request returns to the tool: ok, or a thrown error with the HTTP
\* status the CloudflareApiError carries and whether it says that the reply,
\* of whatever status, was no JSON.
undefinedStatus == 0
Outcome == [ok : BOOLEAN, status : Status \cup {undefinedStatus}, malformed : BOOLEAN]

Returned(reply) == [ok |-> TRUE, status |-> reply.status, malformed |-> FALSE]
Failed(status) == [ok |-> FALSE, status |-> status, malformed |-> FALSE]
Malformed(status) == [ok |-> FALSE, status |-> status, malformed |-> TRUE]

\* The timeout, the network's errors, and any TypeError.
NoAnswer == Failed(undefinedStatus)

\* cfRequest and cfRequestForm.  Reading a property of null throws.
parseJsonEnvelope(reply) ==
    IF reply.body \in {"broken", "text", "empty", "cut"} THEN Malformed(reply.status)
    ELSE IF reply.body = "null" THEN NoAnswer
    ELSE IF res_ok(reply) /\ reply.body = "success" THEN Returned(reply)
    ELSE Failed(reply.status)

\* Under a failing status the null is read inside the try.
cfRequestText(reply) ==
    IF reply.body = "cut" THEN NoAnswer
    ELSE IF res_ok(reply) THEN Returned(reply)
    ELSE Failed(reply.status)

\* Mutation: the envelope is not looked into.
cfApiPassthrough_ByStatus(reply) ==
    IF reply.body = "cut" THEN NoAnswer
    ELSE IF res_ok(reply) THEN Returned(reply)
    ELSE Failed(reply.status)

\* GET and the methods that write.  A HEAD returns with the headers.
cfApiPassthrough(reply) ==
    IF reply.body \in {"cut", "null"} THEN NoAnswer
    ELSE IF reply.body = "broken" THEN Malformed(reply.status)
    ELSE IF res_ok(reply) /\ reply.body # "failure" THEN Returned(reply)
    ELSE Failed(reply.status)
=============================================================================
