----------------------------- MODULE MCZoneCache -----------------------------
(***************************************************************************)
(* ZoneCache on small sets.  |ZoneId| bounds how often a zone is created   *)
(* or created again over a run: ids are never given twice.                 *)
(***************************************************************************)
EXTENDS ZoneCache, TLC

\* The elements of each set are interchangeable.
Symmetry == Permutations(Tenant) \cup Permutations(Name) \cup Permutations(ZoneId)
              \cup Permutations(Call)
=============================================================================
