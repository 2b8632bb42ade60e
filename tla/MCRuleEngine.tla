---------------------------- MODULE MCRuleEngine ----------------------------
(* Instances of RuleEngine and of its refinement for TLC. *)
EXTENDS RuleEngineRefinement

\* Rule 0 is a module's, with a fire limit; rule 1 is for system messages, with
\* a shorter one; rule 2 is disabled.
SysRule      == {1}
DisabledRule == {2}
Limits       == [r \in 0 .. 2 |-> 2 - r]

\* One rule of a module without a fire limit, one for system messages.
NoRule       == {}
Unlimited    == [r \in 0 .. 1 |-> 0]
=============================================================================
