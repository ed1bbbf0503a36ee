------------------------------ MODULE RuleSeq -------------------------------
(***************************************************************************)
(* What the rule store promises (spec 4.2): an ordered sequence of parsed  *)
(* rules. create gives the empty sequence; append adds one rule at the end *)
(* and gives it the next index; clear empties it; stripping the audit bit  *)
(* rewrites the decision of every rule in place and nothing else.          *)
(* Each element is [rule, num]: the parsed rule and its index. parsed is  *)
(* the rule the parser has handed to append; only append reads it.         *)
(***************************************************************************)
EXTENDS Naturals, Sequences

VARIABLES rules, parsed

\* The decision with its AUDIT bit cleared (d &= ~AUDIT).
NoAudit(d) == CASE d = "ALLOW_AUDIT" -> "ALLOW"
                [] d = "DENY_AUDIT"  -> "DENY"
                [] OTHER             -> d

\* A rule the parser accepted has a subject field and an object field.
Parsed(r) == r.s # <<>> /\ r.o # <<>>

Init == rules = <<>>

\* append: the old rules stay, in order, and the parsed rule is added at
\* the end with index Len(rules).
AppendRule ==
  /\ Len(rules') = Len(rules) + 1
  /\ SubSeq(rules', 1, Len(rules)) = rules
  /\ rules'[Len(rules')] = [rule |-> parsed, num |-> Len(rules)]
  /\ Parsed(parsed)

ClearRules == rules' = <<>>

StripAudit ==
  rules' = [i \in DOMAIN rules |->
              [rules[i] EXCEPT !.rule.d = NoAudit(rules[i].rule.d)]]

Next == AppendRule \/ ClearRules \/ StripAudit

Spec == Init /\ [][Next]_rules
=============================================================================
