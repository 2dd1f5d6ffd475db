------------------------------ MODULE MCTexts ------------------------------
(***************************************************************************)
(* Texts of at most Lengths tokens, over tokens that mean something to the *)
(* code that reads them.                                                   *)
(***************************************************************************)
EXTENDS TextChecks

Tokens == [list   |-> {"a", "b", "comma", "blank"},
           host   |-> {"localhost", "1", ":", "[", "]", "@", "blank"},
           bearer |-> {"Bearer", "token", "comma", "blank"},
           path   |-> {"/", ".", "%2e", "?", "#", "backslash", "blank",
                       "client", "v4"}]

\* One denied name.
DeniedName == { <<"b">> }

Lengths == [list |-> 6, host |-> 7, bearer |-> 7, path |-> 6]
=============================================================================
