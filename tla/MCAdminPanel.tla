---------------------------- MODULE MCAdminPanel ----------------------------
EXTENDS AdminPanel, TLC

\* Nothing tells values of one set apart.
Symmetry == Permutations(KeyId) \cup Permutations(AgentId) \cup Permutations(Bearer)
            \cup Permutations(Password) \cup Permutations(Chain)
=============================================================================
