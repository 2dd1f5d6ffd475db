---------------------------- MODULE MCRecordTools ----------------------------
(***************************************************************************)
(* RecordTools on small sets.  Ids are never given twice, so |RecordId|    *)
(* bounds how many records are ever created, |ZoneId| how often the zone   *)
(* is created again.  When the ids and the calls are used up and the       *)
(* records gone, nothing is left to happen: the runs do not check for      *)
(* deadlock.                                                               *)
(***************************************************************************)
EXTENDS RecordTools, TLC

\* Fields that pass or fail each check, that set and clear a comment, that
\* create a record of either type, and none.
SomeFields ==
    {NoFields,
     [NoFields EXCEPT !.type = "A", !.content = CHOOSE x \in Content : TRUE,
                      !.proxied = TRUE, !.comment = CHOOSE c \in Comment : TRUE],
     [NoFields EXCEPT !.type = "MX", !.content = CHOOSE x \in Content : TRUE,
                      !.proxied = FALSE, !.priority = 0],
     [NoFields EXCEPT !.type = "MX"],
     [NoFields EXCEPT !.type = "MX", !.proxied = TRUE, !.priority = 0],
     [NoFields EXCEPT !.proxied = TRUE],
     [NoFields EXCEPT !.comment = NoComment]}

\* An update that sets a comment and nothing else.
AddComment == {[NoFields EXCEPT !.comment = CHOOSE c \in Comment : TRUE]}

\* The elements of each set are interchangeable.
Symmetry == Permutations(RecordId)
              \cup Permutations(ZoneId) \cup Permutations(Call)
=============================================================================
