-------------------------- MODULE MCDecisionTokens --------------------------
(* DecisionTokens with two tuples and four generations of one token each.  *)
EXTENDS DecisionTokens
=============================================================================
