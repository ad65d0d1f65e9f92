----------------------------- MODULE Selection ------------------------------
(***************************************************************************)
(* Which rules run on which path: the query engine of the configuration    *)
(* (crate sloplint_linter, config::selector) and the registry's filter.    *)
(*                                                                         *)
(* A configuration is a record [select, ignore, preview, profiles]; a      *)
(* profile is [name, match, exclude, default, generated, ignore,           *)
(* allowComments, limits].                                                 *)
(* Globs are the sets of paths they match, code prefixes the sets of codes *)
(* that start with them, and limits maps the thresholds a profile          *)
(* overrides to their values.                                              *)
(***************************************************************************)
EXTENDS Integers, Sequences, FiniteSetsExt

CONSTANT PreviewRules   \* codes of the registry's preview group

GlobMatches(profile, path) == path \in profile.match \ profile.exclude

\* A profile for generated code also claims files by their content.
Matches(profile, path, isGenerated) ==
  (profile.generated /\ isGenerated) \/ GlobMatches(profile, path)

\* The profiles a file belongs to, as indices: those that claim it, or the
\* first default profile when there is none.
MatchingIndicesWith(config, path, isGenerated) ==
  LET claimed == {i \in DOMAIN config.profiles :
                    /\ ~config.profiles[i].default
                    /\ Matches(config.profiles[i], path, isGenerated)}
      defaults == {i \in DOMAIN config.profiles : config.profiles[i].default}
  IN  IF claimed # {} \/ defaults = {} THEN claimed ELSE {Min(defaults)}

\* `check` and the hook classify by the path alone.
MatchingIndices(config, path) == MatchingIndicesWith(config, path, FALSE)

\* `metrics` has the content: the names a file's measures are filed under.
ProfilesForFile(config, path, isGenerated) ==
  {config.profiles[i].name : i \in MatchingIndicesWith(config, path, isGenerated)}

ProfileNames(config) == {config.profiles[i].name : i \in DOMAIN config.profiles}

IsEnabled(config, code, path) ==
  /\ code \in config.select
  /\ code \notin config.ignore
  /\ \A i \in MatchingIndices(config, path) : code \notin config.profiles[i].ignore

CommentsAllowed(config, path) ==
  \E i \in MatchingIndices(config, path) : config.profiles[i].allowComments

\* A threshold of a path: the last matching profile that sets it wins.
Limit(config, name, path) ==
  LET setters == {i \in MatchingIndices(config, path) :
                    name \in DOMAIN config.profiles[i].limits}
  IN  IF setters = {} THEN config.limits[name]
      ELSE config.profiles[Max(setters)].limits[name]

\* Registry::enabled_for, and the guard of the rules that live outside it.
Runs(config, code, path) ==
  /\ code \in PreviewRules => config.preview
  /\ IsEnabled(config, code, path)

=============================================================================
