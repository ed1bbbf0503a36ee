-------------------------- MODULE MCPatternOrder ---------------------------
(***************************************************************************)
(* PolicyDecision with a history variable snap, the process's proc_info   *)
(* when the event under decision arrived, used to state what a rule        *)
(* evaluation free of side effects would decide.                           *)
(***************************************************************************)
EXTENDS MCPolicyDecision

VARIABLE snap

\* snap is taken when an event is delivered and kept through its walk.
SnapSpec ==
  /\ Init /\ snap = NewEpisode({})
  /\ [][Next /\ snap' = IF phase = "idle" /\ phase' # "idle"
                        THEN pinfo'[ev'.pid] ELSE snap]_<<vars, snap>>
  /\ Fairness

\* rule_evaluate of rule r on e with proc_info pi left as it is: each
\* pattern field sees pi.
PureSubjectMatch(r, e, pi) ==
  \E k \in 1..(Len(r.s) + 1) :
    /\ \A j \in 1..(k - 1) : SubjFieldStep(r.s[j], e, pi).res = "next"
    /\ k <= Len(r.s) => SubjFieldStep(r.s[k], e, pi).res = "pass"

PureRuleMatch(r, e, pi) ==
  /\ CheckAccess(r, e)
  /\ PureSubjectMatch(r, e, pi)
  /\ \A k \in 1..Len(r.o) : ObjFieldStep(r.o[k], SubjAt(r, k), e)

\* The rule the walk should stop at, 0 for none.
PureFirstMatch(e, pi) ==
  IF \E i \in DOMAIN Rules : PureRuleMatch(Rules[i], e, pi)
  THEN CHOOSE i \in DOMAIN Rules :
         /\ PureRuleMatch(Rules[i], e, pi)
         /\ \A j \in 1..(i - 1) : ~PureRuleMatch(Rules[j], e, pi)
  ELSE 0

(***************************************************************************)
(* Spec 4.4 and 8: evaluate(rule, event) is a function of the rule and the *)
(* event, so the walk stops at the first rule that matches the event as    *)
(* it arrived, whatever the pattern tests of earlier rules did to the      *)
(* process's state (subj_pattern_test, check_subject).                     *)
(***************************************************************************)
DecisionIndependentOfEarlierRules ==
  [][phase # "idle" /\ phase' = "idle" => last'.rule = PureFirstMatch(ev, snap)]_<<vars, snap>>

\* deny perm=any pattern=ld_so : all
\* deny perm=any pattern=static : all
MCRulesTwoPatterns ==
  << [d |-> "DENY", a |-> "ANY_ACC",
      s |-> <<SF("PATTERN", PATTERN_LD_SO_VAL)>>, o |-> AllObj],
     [d |-> "DENY", a |-> "ANY_ACC",
      s |-> <<SF("PATTERN", PATTERN_STATIC_VAL)>>, o |-> AllObj] >>
=============================================================================
