----------------------------- MODULE RuleParser -----------------------------
(***************************************************************************)
(* The rule parser of rules.c: nv_split, parse_new_format, assign_subject  *)
(* and assign_object (lines 218-461), as one rules_append call per line.   *)
(*                                                                         *)
(* A line is a sequence of strtok tokens taken from the constant set       *)
(* Tokens. A token is a record [name, eq, val]: eq says whether the token  *)
(* holds an '=', name is the text before it (the whole token when there is *)
(* none) and val the text after it. Each step of the model is one          *)
(* iteration of a strtok loop, so the order of the field writes, the early *)
(* returns and the jump from nv_split into parse_new_format are kept.      *)
(* Strings are TLA+ strings: the parser only compares them with literals.  *)
(***************************************************************************)
EXTENDS Integers, Sequences, FiniteSets

CONSTANTS
  Tokens,      \* the tokens a line may hold
  MaxLen,      \* bound: the number of tokens of a line
  Users        \* getpwnam: the known user names and their uids

ASSUME ParserAssumption ==
  /\ MaxLen \in Nat
  /\ Tokens \subseteq [name : STRING, eq : BOOLEAN, val : STRING]
  /\ Users \in [DOMAIN Users -> Nat]

\* rules.c never checks s_count or o_count against this array size.
MAX_FIELDS == 8

NONE == "NONE"

\* The Field Dictionary (outside this repository): dec_name_to_val,
\* subj_name_to_val and obj_name_to_val, with NONE for -1.
DecNameToVal(name) ==
  CASE name = "allow" -> "ALLOW"         [] name = "deny" -> "DENY"
    [] name = "allow_audit" -> "ALLOW_AUDIT"
    [] name = "deny_audit" -> "DENY_AUDIT" [] OTHER -> NONE
SubjNameToVal(name) ==
  CASE name = "uid" -> "UID"      [] name = "auid" -> "AUID"
    [] name = "trust" -> "SUBJ_TRUST" [] name = "pattern" -> "PATTERN"
    [] name = "comm" -> "COMM"    [] name = "exe" -> "EXE"
    [] name = "exe_dir" -> "EXE_DIR" [] OTHER -> NONE
ObjNameToVal(name) ==
  CASE name = "path" -> "PATH"    [] name = "dir" -> "ODIR"
    [] name = "ftype" -> "FTYPE"  [] name = "trust" -> "OBJ_TRUST"
    [] OTHER -> NONE

\* Subject types at or above COMM hold a strdup'ed string, the others an int.
StrSubjTypes == {"COMM", "EXE", "EXE_DIR"}
NumSubjTypes == {"ALL_SUBJ", "AUID", "UID", "SUBJ_TRUST", "PATTERN"}
ObjTypes     == {"ALL_OBJ", "PATH", "ODIR", "FTYPE", "OBJ_TRUST"}
Decisions    == {"ALLOW", "DENY", "ALLOW_AUDIT", "DENY_AUDIT"}
Accesses     == {"OPEN_ACC", "EXEC_ACC", "ANY_ACC"}

\* isdigit(*ptr2) and strtol for the numeric values the model uses.
DigitVal == [v \in {"0", "1", "1000"} |-> CASE v = "0" -> 0 [] v = "1" -> 1
                                               [] v = "1000" -> 1000]
\* What an int field holds when the code never assigns it (malloc'ed memory).
Garbage == {0, 1}

\* The token values that contain a ':' (strchr(buf, ':') at line 363).
ColonValues == {"/opt/a:b"}
HasColon(t) == t.name = ":" \/ t.val \in ColonValues

Lines == UNION {[1..n -> Tokens] : n \in 0..MaxLen}

\* The node rules_append hands to nv_split: s_count = o_count = 0.
NewNode == [d |-> NONE, a |-> NONE, s |-> <<>>, o |-> <<>>]

VARIABLES
  line,    \* the tokens of the line under parse
  pos,     \* the tokens strtok has returned so far
  pc,      \* "idle" (between calls), "split", "orig" (nv_split's loop),
           \* "new" (parse_new_format), "finish" (finish_up), "done"
           \* (returned), "exited" (exit(1))
  fmt,     \* n->format
  pstate,  \* parse_new_format's state: 0 subject, 1 object
  node,    \* the lnode: d, a and the s_count/o_count fields of s[] and o[]
  rc       \* nv_split's return value

pvars == <<line, pos, pc, fmt, pstate, node, rc>>

\* assign_subject: the set of outcomes [exit, n], one per possible value of
\* the memory it reads. The field is written, and s_count incremented, only
\* on the paths that reach line 268; the other returns leave the node alone.
AssignSubject(n, type, v) ==
  LET Add(x) == {[exit |-> FALSE,
                  n |-> [n EXCEPT !.s = Append(@, [type |-> type, val |-> x])]]}
  IN  IF type \in StrSubjTypes THEN Add(v)
      ELSE IF type = "PATTERN"
           THEN IF v = "ld_so" THEN Add(1)
                ELSE IF v = "static" THEN Add(2)
                ELSE {[exit |-> FALSE, n |-> n]}
      ELSE IF v \in DOMAIN DigitVal THEN Add(DigitVal[v])
      ELSE IF type \in {"AUID", "UID"}
           THEN IF v \in DOMAIN Users THEN Add(Users[v])
                ELSE {[exit |-> TRUE, n |-> n]}
      ELSE UNION {Add(g) : g \in Garbage}

\* assign_object: the value is strdup'ed; o_count is incremented.
AssignObject(n, type, v) ==
  [n EXCEPT !.o = Append(@, [type |-> type, o |-> v])]

\* One call of assign_subject whose return the caller ignores (the only
\* test, "== 3", never holds), then the parser goes on at pc2.
ApplySubject(type, v, pc2, ps2) ==
  \E r \in AssignSubject(node, type, v) :
     \/ /\ r.exit
        /\ pc' = "exited"
        /\ UNCHANGED <<node, pstate, rc>>
     \/ /\ ~r.exit
        /\ node' = r.n
        /\ pc' = pc2
        /\ pstate' = ps2
        /\ UNCHANGED rc

Return(code) == rc' = code /\ pc' = "done"

\* strtok finds no token, or the first one starts with '#' (lines 366-369).
BlankOrComment(l) == IF l = <<>> THEN TRUE ELSE l[1].name = "#"

ParserInit ==
  /\ line \in Lines
  /\ pos = 0
  /\ pc = "split"
  /\ fmt = "ORIG"
  /\ pstate = 0
  /\ node = NewNode
  /\ rc = 0

\* Mutation: nv_split goes on when dec_name_to_val fails.
NvSplitStartNoDecisionCheck ==
  /\ pc = "split"
  /\ fmt' = IF \E i \in DOMAIN line : HasColon(line[i]) THEN "COLON" ELSE "ORIG"
  /\ \/ BlankOrComment(line) /\ Return(-1) /\ UNCHANGED <<pos, pstate, node>>
     \/ /\ ~BlankOrComment(line)
        /\ pos' = 1
        /\ node' = [node EXCEPT !.d = IF line[1].eq THEN NONE
                                     ELSE DecNameToVal(line[1].name),
                               !.a = "OPEN_ACC"]
        /\ pc' = "orig"
        /\ UNCHANGED <<pstate, rc>>
  /\ UNCHANGED line

(***************************************************************************)
(* nv_split up to its loop: choose the format from a ':' anywhere in the   *)
(* buffer, skip blank and comment lines, load the decision.                *)
(***************************************************************************)
NvSplitStart ==
  /\ pc = "split"
  /\ fmt' = IF \E i \in DOMAIN line : HasColon(line[i]) THEN "COLON" ELSE "ORIG"
  /\ \/ /\ BlankOrComment(line)
        /\ Return(-1)
        /\ UNCHANGED <<pos, pstate, node>>
     \/ /\ ~BlankOrComment(line)
        /\ pos' = 1
        /\ LET d == IF line[1].eq THEN NONE ELSE DecNameToVal(line[1].name)
           IN  \/ d = NONE /\ Return(1) /\ UNCHANGED <<pstate, node>>
               \/ /\ d # NONE
                  /\ node' = [node EXCEPT !.d = d, !.a = "OPEN_ACC"]
                  /\ pc' = "orig"
                  /\ UNCHANGED <<pstate, rc>>
  /\ UNCHANGED line

\* One token of nv_split's loop in the COLON format: perm= or the first
\* subject field, then the jump into parse_new_format.
ColonFirstToken(t) ==
  \/ /\ t.name = "perm"
     /\ \/ /\ t.val \in {"execute", "any", "open"}
           /\ node' = [node EXCEPT !.a = CASE t.val = "execute" -> "EXEC_ACC"
                                           [] t.val = "any" -> "ANY_ACC"
                                           [] OTHER -> @]
           /\ pc' = "new"
           /\ UNCHANGED <<pstate, rc>>
        \/ t.val \notin {"execute", "any", "open"} /\ Return(2)
                                                   /\ UNCHANGED <<node, pstate>>
  \/ /\ t.name # "perm"
     /\ \/ SubjNameToVal(t.name) = NONE /\ Return(1) /\ UNCHANGED <<node, pstate>>
        \/ /\ SubjNameToVal(t.name) # NONE
           /\ ApplySubject(SubjNameToVal(t.name), t.val, "new", 0)

\* One token of nv_split's loop in the ORIG format.
OrigToken(t) ==
  \/ /\ t.eq
     /\ SubjNameToVal(t.name) # NONE
     /\ ApplySubject(SubjNameToVal(t.name), t.val, "orig", pstate)
  \/ /\ t.eq
     /\ SubjNameToVal(t.name) = NONE /\ ObjNameToVal(t.name) # NONE
     /\ node' = AssignObject(node, ObjNameToVal(t.name), t.val)
     /\ UNCHANGED <<pc, pstate, rc>>
  \/ /\ t.eq
     /\ SubjNameToVal(t.name) = NONE /\ ObjNameToVal(t.name) = NONE
     /\ Return(3) /\ UNCHANGED <<node, pstate>>

\* The bare "all" of nv_split's loop (either format).
OrigAll ==
  \/ node.s = <<>> /\ ApplySubject("ALL_SUBJ", "", pc, pstate)
  \/ /\ node.s # <<>> /\ node.o = <<>>
     /\ node' = AssignObject(node, "ALL_OBJ", "")
     /\ UNCHANGED <<pc, pstate, rc>>
  \/ node.s # <<>> /\ node.o # <<>> /\ Return(4) /\ UNCHANGED <<node, pstate>>

\* One iteration of nv_split's while loop, or its end.
NvSplitLoop ==
  /\ pc = "orig"
  /\ \/ /\ pos = Len(line)
        /\ pc' = "finish"
        /\ UNCHANGED <<pos, pstate, node, rc>>
     \/ /\ pos < Len(line)
        /\ pos' = pos + 1
        /\ LET t == line[pos + 1]
           IN  \/ t.eq /\ fmt = "COLON" /\ ColonFirstToken(t)
               \/ t.eq /\ fmt = "ORIG" /\ OrigToken(t)
               \/ ~t.eq /\ t.name = "all" /\ OrigAll
               \/ ~t.eq /\ t.name # "all" /\ Return(5) /\ UNCHANGED <<node, pstate>>
  /\ UNCHANGED <<line, fmt>>

(***************************************************************************)
(* One iteration of parse_new_format's loop. Its returns 1, 2 and 5 end    *)
(* the loop, and nv_split ignores them and goes to finish_up.              *)
(***************************************************************************)
ParseNewFormat ==
  /\ pc = "new"
  /\ \/ /\ pos = Len(line)
        /\ pc' = "finish"
        /\ UNCHANGED <<pos, pstate, node, rc>>
     \/ /\ pos < Len(line)
        /\ pos' = pos + 1
        /\ LET t == line[pos + 1]
               Stop == pc' = "finish" /\ UNCHANGED <<pstate, node, rc>>
           IN  \/ /\ t.eq /\ pstate = 0
                  /\ \/ SubjNameToVal(t.name) = NONE /\ Stop
                     \/ /\ SubjNameToVal(t.name) # NONE
                        /\ ApplySubject(SubjNameToVal(t.name), t.val, "new", 0)
               \/ /\ t.eq /\ pstate = 1
                  /\ \/ ObjNameToVal(t.name) = NONE /\ Stop
                     \/ /\ ObjNameToVal(t.name) # NONE
                        /\ node' = AssignObject(node, ObjNameToVal(t.name), t.val)
                        /\ UNCHANGED <<pc, pstate, rc>>
               \/ /\ ~t.eq /\ pstate = 0 /\ t.name = ":"
                  /\ pstate' = 1
                  /\ UNCHANGED <<pc, node, rc>>
               \/ /\ ~t.eq /\ ~(pstate = 0 /\ t.name = ":") /\ t.name = "all"
                  /\ \/ pstate = 0 /\ ApplySubject("ALL_SUBJ", "", "new", 0)
                     \/ /\ pstate = 1
                        /\ node' = AssignObject(node, "ALL_OBJ", "")
                        /\ UNCHANGED <<pc, pstate, rc>>
               \/ /\ ~t.eq /\ ~(pstate = 0 /\ t.name = ":") /\ t.name # "all"
                  /\ Stop
  /\ UNCHANGED <<line, fmt>>

\* Mutation: finish_up forgets the test for a missing subject.
FinishUpNoSubjectCheck ==
  /\ pc = "finish"
  /\ Return(IF node.o = <<>> THEN 7 ELSE 0)
  /\ UNCHANGED <<line, pos, fmt, pstate, node>>

\* finish_up: a rule without a subject or an object field is refused.
FinishUp ==
  /\ pc = "finish"
  /\ Return(IF node.s = <<>> THEN 6 ELSE IF node.o = <<>> THEN 7 ELSE 0)
  /\ UNCHANGED <<line, pos, fmt, pstate, node>>

\* The parser's own steps, which a caller composes with its own.
ParseStep == NvSplitStart \/ NvSplitLoop \/ ParseNewFormat \/ FinishUp

\* One behaviour is one call of nv_split: it stops when nv_split returns.
ParserNext == ParseStep

ParserSpec == ParserInit /\ [][ParserNext]_pvars

-----------------------------------------------------------------------------
\* A subject field holds a string (types from COMM on) or an int, tested
\* in that order so that a string is never compared with an int.
IsSubjField(f) ==
  /\ DOMAIN f = {"type", "val"}
  /\ \/ f.type \in StrSubjTypes /\ f.val \in STRING
     \/ f.type \in NumSubjTypes /\ f.val \in Int
ObjFieldT  == [type : ObjTypes, o : STRING \cup {""}]   \* strdup(ptr2), or strdup("") for all

\* The shape of the parser's state. A node is given its decision before the
\* loop starts, and a field is never appended while the parser is stopped.
TypeOK ==
  /\ line \in Seq(Tokens)
  /\ pos \in 0..Len(line)
  /\ pc \in {"idle", "split", "orig", "new", "finish", "done", "exited"}
  /\ fmt \in {"ORIG", "COLON"}
  /\ pstate \in {0, 1}
  /\ DOMAIN node.s = 1..Len(node.s) /\ \A i \in DOMAIN node.s : IsSubjField(node.s[i])
  /\ node.o \in Seq(ObjFieldT)
  /\ pc \in {"orig", "new", "finish"} => node.d \in Decisions /\ node.a \in Accesses
  /\ rc \in -1..7

\* spec section 3: a rule nv_split accepts (rc 0) has between 1 and
\* MAX_FIELDS subject fields and object fields, each of a type of its side.
\* This is what rule_evaluate's loops assume of every node of the list.
AcceptedRuleUsable ==
  pc = "done" /\ rc = 0 =>
    /\ Len(node.s) \in 1..MAX_FIELDS /\ Len(node.o) \in 1..MAX_FIELDS
    /\ node.d \in Decisions /\ node.a \in Accesses
    /\ \A i \in DOMAIN node.s :
         node.s[i].type = "PATTERN" => node.s[i].val \in {1, 2}

\* spec section 3: s_count and o_count never exceed MAX_FIELDS, at any
\* point of the parse (assign_subject and assign_object write s[s_count]
\* and o[o_count] without a check).
FieldCountsBounded ==
  Len(node.s) <= MAX_FIELDS /\ Len(node.o) <= MAX_FIELDS
=============================================================================
