------------------------------ MODULE MCGateway ------------------------------
(***************************************************************************)
(* Gateway on small sets of ids, bearers and tokens.  The bounds are the   *)
(* sizes of these sets: ids and bearers are minted fresh and never reused, *)
(* so |KeyId| keys, |AgentId| agents and |Bearer| bearers exist over the   *)
(* whole life of the data directory.                                       *)
(***************************************************************************)
EXTENDS Gateway, TLC

\* The elements of each set are interchangeable in safety properties.
Symmetry == Permutations(KeyId) \cup Permutations(AgentId) \cup Permutations(Bearer)
              \cup Permutations(Token) \cup Permutations(Passphrase)
              \cup Permutations(Salt) \cup Permutations(Request)

\* For a run with liveness: the sets whose elements neither the fairness nor
\* RevocationTakesHold mentions.
LiveSymmetry == Permutations(KeyId) \cup Permutations(Token)
                  \cup Permutations(Passphrase) \cup Permutations(Salt)
=============================================================================
