--------------------------- MODULE MCSkillRegistry ---------------------------
(* A small instance of SkillRegistry for TLC. *)
EXTENDS SkillRegistry

CONSTANTS lookup, policy, lookupBuiltIn, policyBuiltIn, lookupNew, policyNew

\* Two built-ins and, for each, a synthesised skill that takes its name.
MCNameOf == [s \in Skills |-> IF s \in {lookupBuiltIn, lookupNew} THEN lookup ELSE policy]

\* Some callers protect both built-ins, some only the first.
MCProtectLists == {{lookup}, {lookup, policy}}
==============================================================================
