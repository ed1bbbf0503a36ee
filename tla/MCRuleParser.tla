--------------------------- MODULE MCRuleParser ----------------------------
(***************************************************************************)
(* Small instances of RuleParser, and SpecParse: the rule grammar of spec  *)
(* section 4.1 written as a left fold over the tokens of a line, the       *)
(* reference the parser is compared with.                                  *)
(***************************************************************************)
EXTENDS RuleParser, SequencesExt

\* A bare token and a key=value token.
T(n)    == [name |-> n, eq |-> FALSE, val |-> ""]
P(n, v) == [name |-> n, eq |-> TRUE, val |-> v]

\* getpwnam knows root only.
MCUsers == [u \in {"root"} |-> 0]

\* Every kind of token nv_split and parse_new_format tell apart: decisions
\* good and bad, a comment, "all", ":", a token without '=', perm= good and
\* bad, uid= by number, by known and by unknown name, pattern= good and bad,
\* a string subject whose value holds a ':', an object, an unknown field.
MCTokens ==
  {T("allow"), T("permit"), T("#"), T("all"), T(":"), T("junk"),
   P("perm", "any"), P("perm", "write"), P("uid", "0"), P("uid", "root"),
   P("uid", "ghost"), P("pattern", "ld_so"), P("pattern", "foo"),
   P("exe", "/opt/a:b"), P("path", "/usr/bin/ls"), P("size", "1")}

\* One token set per question the violation runs ask.
MCTokensNormal     == {T("deny"), P("pattern", "normal"), T("all")}
MCTokensBadValue   == {T("allow"), P("pattern", "foo"), P("uid", "0"), T("all")}
MCTokensColonValue == {T("allow"), P("exe", "/opt/a:b"), T("all")}
MCTokensGhost      == {T("allow"), P("uid", "ghost"), T("all")}
MCTokensLong       == {T("allow"), P("uid", "0")}

-----------------------------------------------------------------------------
(***************************************************************************)
(* SpecParse(line), from spec 4.1. The dialect is COLON when the line has  *)
(* a ':' token. In COLON, tokens before ':' are subject fields or perm=,   *)
(* tokens after it object fields; in LEGACY a key resolves as a subject,   *)
(* then as an object, and "all" fills the list that is still empty.        *)
(* pattern= takes normal, ld_so and static; a uid= name that no user has   *)
(* is an error of the rule. The result is "skip", "error" or the rule.     *)
(***************************************************************************)
SpecSubjVal(type, v) ==
  IF type \in StrSubjTypes THEN {v}
  ELSE IF type = "PATTERN"
       THEN {CASE v = "normal" -> 0 [] v = "ld_so" -> 1 [] v = "static" -> 2
                  [] OTHER -> -1} \ {-1}
  ELSE IF v \in DOMAIN DigitVal THEN {DigitVal[v]}
  ELSE IF type \in {"AUID", "UID"} /\ v \in DOMAIN Users THEN {Users[v]}
  ELSE {}

SpecStep(acc, t) ==
  LET Err == [acc EXCEPT !.err = TRUE]
      AddS(ty, v) == [acc EXCEPT !.s = Append(@, [type |-> ty, val |-> v])]
      AddO(ty, v) == [acc EXCEPT !.o = Append(@, [type |-> ty, o |-> v]),
                                 !.sec = "obj"]
      SubjOk == t.eq /\ SubjNameToVal(t.name) # NONE
      Subj == IF SpecSubjVal(SubjNameToVal(t.name), t.val) = {} THEN Err
              ELSE AddS(SubjNameToVal(t.name),
                        CHOOSE x \in SpecSubjVal(SubjNameToVal(t.name), t.val) : TRUE)
      ObjOk == t.eq /\ ObjNameToVal(t.name) # NONE
      Obj == AddO(ObjNameToVal(t.name), t.val)
      IsAll == ~t.eq /\ t.name = "all"
  IN  IF acc.err THEN acc
      ELSE IF acc.colon /\ acc.sec = "subj"
      THEN IF ~t.eq /\ t.name = ":" THEN [acc EXCEPT !.sec = "obj"]
           ELSE IF t.eq /\ t.name = "perm"
           THEN CASE t.val = "execute" -> [acc EXCEPT !.a = "EXEC_ACC"]
                  [] t.val = "any" -> [acc EXCEPT !.a = "ANY_ACC"]
                  [] t.val = "open" -> [acc EXCEPT !.a = "OPEN_ACC"]
                  [] OTHER -> Err
           ELSE IF SubjOk THEN Subj
           ELSE IF IsAll THEN AddS("ALL_SUBJ", 0)
           ELSE Err
      ELSE IF acc.colon
      THEN IF ObjOk THEN Obj ELSE IF IsAll THEN AddO("ALL_OBJ", "") ELSE Err
      ELSE IF SubjOk THEN Subj
      ELSE IF ObjOk THEN Obj
      ELSE IF IsAll /\ acc.s = <<>> THEN AddS("ALL_SUBJ", 0)
      ELSE IF IsAll /\ acc.o = <<>> THEN AddO("ALL_OBJ", "")
      ELSE Err

SpecParse(l) ==
  LET colon == \E i \in DOMAIN l : l[i] = T(":")
      d == IF l = <<>> \/ l[1].eq THEN NONE ELSE DecNameToVal(l[1].name)
      acc == FoldLeft(SpecStep,
                      [err |-> FALSE, colon |-> colon, sec |-> "subj",
                       a |-> "OPEN_ACC", s |-> <<>>, o |-> <<>>],
                      Tail(l))
  IN  IF BlankOrComment(l) THEN [kind |-> "skip"]
      ELSE IF d = NONE \/ acc.err \/ acc.s = <<>> \/ acc.o = <<>>
      THEN [kind |-> "error"]
      ELSE [kind |-> "rule", d |-> d, a |-> acc.a, s |-> acc.s, o |-> acc.o]

\* Two subject field lists agree; the value of "all" is never read.
SameSubj(s1, s2) ==
  /\ Len(s1) = Len(s2)
  /\ \A i \in DOMAIN s1 :
       /\ s1[i].type = s2[i].type
       /\ s1[i].type # "ALL_SUBJ" => s1[i].val = s2[i].val

\* spec 4.1: every line ends in the outcome SpecParse gives it. nv_split
\* returns (no exit), skips exactly the lines to skip, accepts exactly the
\* well-formed ones, and an accepted node holds the decision, the access
\* and every field of the line in order.
ParsedAsSpecified ==
  pc \in {"done", "exited"} =>
    LET r == SpecParse(line)
    IN  /\ pc = "done"
        /\ rc = -1 <=> r.kind = "skip"
        /\ rc = 0 <=> r.kind = "rule"
        /\ rc = 0 => /\ node.d = r.d /\ node.a = r.a
                     /\ SameSubj(node.s, r.s) /\ node.o = r.o
=============================================================================
