------------------------------ MODULE MCHookRun ------------------------------
(* Instances of HookRun for TLC: a source file and a test, each with its     *)
(* relative and its absolute path; the tests are exempt from SLP010, and     *)
(* SLP001 is a preview rule.                                                 *)
EXTENDS HookRun

Names == {"app.py", "tests/t.py"}
Absolute == [f \in Names |-> "/repo/" \o f]
MCSpelling == Names \cup {Absolute[f] : f \in Names}
MCFileAt == [p \in Spelling |-> IF p \in Names THEN p ELSE CHOOSE f \in Names : Absolute[f] = p]

Production == [name |-> "production", match |-> {}, exclude |-> {}, default |-> TRUE,
               generated |-> FALSE, ignore |-> {}, allowComments |-> FALSE, limits |-> <<>>]
Tests == [Production EXCEPT !.name = "tests", !.match = {"tests/t.py"}, !.default = FALSE, !.ignore = {"SLP010"}]
Config(preview, profiles) ==
  [select |-> {"SLP001", "SLP010", "SLP030"}, ignore |-> {}, preview |-> preview, profiles |-> profiles]

MCConfigs == {Config(FALSE, <<Tests, Production>>), Config(TRUE, <<Tests, Production>>), Malformed}
Plain == {Config(FALSE, <<Production>>)}

comment == [code |-> "SLP010", line |-> 1]
restated == [code |-> "SLP001", line |-> 1]
except1 == [code |-> "SLP030", line |-> 3]

Text(sites, noqa) == [parses |-> TRUE, sites |-> sites, noqa |-> noqa]
MCAuthored ==
  {Text({}, {}), Text({comment}, {}), Text({comment, restated}, {}),
   [parses |-> FALSE, sites |-> {}, noqa |-> {}]}
Acknowledged == {Text({except1}, {except1}), Text({}, {})}

NoPreview == {}
MCPreviewRules == {"SLP001"}

=============================================================================
