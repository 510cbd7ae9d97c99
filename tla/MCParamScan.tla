---------------------------- MODULE MCParamScan ----------------------------
(* Each style with the characters that matter to it. *)
EXTENDS ParamScan

AlphabetDef ==
  [named |-> {"'", "E", "\\", ":", "x", " "},
   numeric |-> {"'", ":", "x", "=", "-", "$"},
   qmark |-> {"'", "\"", "-", "\n", "?", "E", "e"},
   format |-> {"'", "-", "%", "s", "/", "*"},
   pyformat |-> {"'", "%", "(", ")", "s", "x"}]
=============================================================================
