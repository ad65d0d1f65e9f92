------------------------------ MODULE MCInitRun ------------------------------
(* Instances of InitRun for TLC: the three tools, with configurations that   *)
(* are absent, empty, in use by others, wired by hand, or not parseable.     *)
EXTENDS InitRun

CONSTANTS h, bnr, formatter, handmade

MCOther == {formatter}
MCMention == {handmade}

MCAuthored == {File(<<formatter>>), File(<<handmade, formatter>>), Unparseable(<<>>)}

\* Detection; `--tool aider --tool all`, which names Aider twice; and a dry run.
MCJobs ==
  {[tools |-> <<>>, dryRun |-> FALSE],
   [tools |-> <<"aider">> \o ALL, dryRun |-> FALSE],
   [tools |-> <<>>, dryRun |-> TRUE]}

=============================================================================
