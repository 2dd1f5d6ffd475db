------------------------------- MODULE ApiPath -------------------------------
(***************************************************************************)
(* validateApiPath of src/cloudflare.ts: how the path a caller names       *)
(* becomes the URL that is fetched.  A path is the sequence of its tokens: *)
(* "/", ".", "%2e" (a dot, encoded), "?", "#", a backslash, a blank, and   *)
(* words.                                                                  *)
(***************************************************************************)
EXTENDS Texts

API_BASE == << <<"client">>, <<"v4">> >>

\* The segments that new URL does not keep: a dot and two dots, each of them
\* in plain or encoded.
SingleDots == {<<a>> : a \in {".", "%2e"}}
DoubleDots == {<<a, b>> : a, b \in {".", "%2e"}}

\* The path up to a query or a fragment.
UpToQuery(path) ==
    LET upTo == {i \in 0..Len(path) : \A j \in 1..i : path[j] \notin {"?", "#"}}
    IN  SubSeq(path, 1, CHOOSE i \in upTo : \A j \in upTo : j <= i)

\* A double dot takes the segment before it away, a single one nothing; where
\* the path ends with one of them an empty segment is left.
Descend(done, segment, isLast) ==
    LET above == IF segment \in DoubleDots /\ done # <<>> THEN Front(done) ELSE done
        atEnd == IF isLast THEN << <<>> >> ELSE <<>>
    IN  IF segment \in SingleDots \cup DoubleDots THEN above \o atEnd
        ELSE Append(done, segment)

\* The segments of url.pathname, as new URL leaves them.
pathname(path) ==
    LET segments == Tail(split(UpToQuery(path), {"/"}))
        done[i \in 0..Len(segments)] ==
            IF i = 0 THEN API_BASE
            ELSE Descend(done[i - 1], segments[i], i = Len(segments))
    IN  done[Len(segments)]

\* Mutation: the URL that comes out is not looked at.
StaysUnderBase_Assumed(path) == TRUE

\* The origin is that of API_BASE, which is put before the path.
StaysUnderBase(path) ==
    Len(pathname(path)) > 2 /\ SubSeq(pathname(path), 1, 2) = API_BASE

validateApiPath(path) ==
    LET parts == split(path, {"/", "?", "#"})
    IN  /\ path # <<>> /\ path[1] = "/"
        /\ Len(path) > 1 => path[2] # "/"
        /\ ~Contains(path, "backslash") /\ ~Contains(path, "blank")
        /\ \A i \in 1..Len(parts) : parts[i] # <<".", ".">>
        /\ StaysUnderBase(path)
=============================================================================
