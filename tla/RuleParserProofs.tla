-------------------------- MODULE RuleParserProofs --------------------------
(***************************************************************************)
(* Proofs about RuleParser, for every token set, every user table and      *)
(* every line length allowed by ParserAssumption.                          *)
(*                                                                         *)
(* The argument: nv_split takes one token per step, and no step appends    *)
(* more than one field, so a node never holds more fields than the tokens  *)
(* read after the decision. A line of at most MAX_FIELDS + 1 tokens        *)
(* therefore never fills s[] or o[] past MAX_FIELDS, and finish_up refuses *)
(* a node with an empty side.                                              *)
(***************************************************************************)
EXTENDS RuleParser, SequenceTheorems, TLAPS

\* The strings of the model, the empty one named apart for the provers.
Str == STRING \cup {""}

\* The values a field can hold, without the link between type and value.
SF == [type : NumSubjTypes \cup StrSubjTypes, val : Int \cup Str]
OF == [type : ObjTypes, o : Str]
NodeT == [d : Decisions \cup {NONE}, a : Accesses \cup {NONE},
          s : Seq(SF), o : Seq(OF)]

\* A subject field of a string type holds a string and one of an int type
\* an int; a pattern field holds PATTERN_LD_SO_VAL or PATTERN_STATIC_VAL.
FieldsOk(s) ==
  \A i \in DOMAIN s :
    /\ s[i].type \in StrSubjTypes => s[i].val \in STRING
    /\ s[i].type \in NumSubjTypes => s[i].val \in Int
    /\ s[i].type = "PATTERN" => s[i].val \in {1, 2}

\* The fields a node may hold after pos tokens: one per token after the
\* decision.
Budget(p) == IF p = 0 THEN 0 ELSE p - 1

IInv ==
  /\ line \in Seq(Tokens) /\ Len(line) <= MaxLen
  /\ pos \in 0..Len(line)
  \* "idle": between two calls of nv_split (RuleStore)
  /\ pc \in {"idle", "split", "orig", "new", "finish", "done", "exited"}
  /\ pstate \in {0, 1}
  /\ rc \in Int
  /\ node \in NodeT
  /\ pc = "split" => pos = 0
  /\ pc \in {"orig", "new", "finish"} => pos >= 1
  /\ Len(node.s) + Len(node.o) <= Budget(pos)
  /\ pc \in {"orig", "new", "finish"} \/ (pc = "done" /\ rc = 0) =>
       node.d \in Decisions /\ node.a \in Accesses
  /\ pc = "done" /\ rc = 0 => node.s # <<>> /\ node.o # <<>>
  /\ FieldsOk(node.s)

-----------------------------------------------------------------------------
\* Arithmetic on field counts, stated over plain numbers so that the
\* provers need not see through Len and record fields.
LEMMA SumTrans ==
  ASSUME NEW a \in Nat, NEW b \in Nat, NEW q \in Int, NEW r \in Int,
         a + b <= q, q <= r
  PROVE  a + b <= r
OBVIOUS

LEMMA SumGrow ==
  ASSUME NEW a \in Nat, NEW b \in Nat, NEW c \in Nat, NEW e \in Nat,
         \/ c <= a + 1 /\ e = b
         \/ c = a /\ e = b + 1
         \/ c = a /\ e = b
  PROVE  c + e <= a + b + 1
OBVIOUS

-----------------------------------------------------------------------------
(***************************************************************************)
(* Lemmas on the field writers.                                            *)
(***************************************************************************)

\* Writing s[s_count] and incrementing s_count adds one field at the end.
LEMMA AddSubjField ==
  ASSUME NEW n \in NodeT, NEW type \in NumSubjTypes \cup StrSubjTypes,
         NEW x \in Str \cup Int, FieldsOk(n.s),
         type \in StrSubjTypes => x \in STRING,
         type \in NumSubjTypes => x \in Int,
         type = "PATTERN" => x \in {1, 2}
  PROVE  LET m == [n EXCEPT !.s = Append(@, [type |-> type, val |-> x])]
         IN  /\ m \in NodeT
             /\ m.d = n.d /\ m.a = n.a /\ m.o = n.o
             /\ Len(m.s) = Len(n.s) + 1
             /\ FieldsOk(m.s)
<1> DEFINE f == [type |-> type, val |-> x]
<1>1. f \in SF
  BY DEF SF
<1>2. /\ Append(n.s, f) \in Seq(SF)
      /\ Len(Append(n.s, f)) = Len(n.s) + 1
      /\ \A i \in 1..Len(n.s) : Append(n.s, f)[i] = n.s[i]
      /\ Append(n.s, f)[Len(n.s) + 1] = f
  BY <1>1, AppendProperties DEF NodeT
<1>3. FieldsOk(Append(n.s, f))
  BY <1>2, LenProperties DEF FieldsOk, NodeT
<1> QED
  BY <1>2, <1>3 DEF NodeT

\* assign_subject either stops the daemon, keeps the node, or appends one
\* field; it never touches d, a or the object fields.
LEMMA AssignSubjectOk ==
  ASSUME NEW n \in NodeT, NEW type \in NumSubjTypes \cup StrSubjTypes,
         NEW v \in Str, FieldsOk(n.s),
         type \in StrSubjTypes => v \in STRING,
         NEW r \in AssignSubject(n, type, v)
  PROVE  /\ r.exit \in BOOLEAN
         /\ r.n \in NodeT
         /\ r.n.d = n.d /\ r.n.a = n.a /\ r.n.o = n.o
         /\ Len(r.n.s) <= Len(n.s) + 1
         /\ FieldsOk(r.n.s)
<1> DEFINE Add(x) == [exit |-> FALSE,
                      n |-> [n EXCEPT !.s = Append(@, [type |-> type, val |-> x])]]
           Goal(q) == /\ q.exit \in BOOLEAN
                      /\ q.n \in NodeT
                      /\ q.n.d = n.d /\ q.n.a = n.a /\ q.n.o = n.o
                      /\ Len(q.n.s) <= Len(n.s) + 1
                      /\ FieldsOk(q.n.s)
<1> SUFFICES Goal(r)
  OBVIOUS
<1>1. ASSUME NEW x \in Str \cup Int,
             type \in StrSubjTypes => x \in STRING,
             type \in NumSubjTypes => x \in Int,
             type = "PATTERN" => x \in {1, 2}
      PROVE  Goal(Add(x))
  <2> DEFINE m == [n EXCEPT !.s = Append(@, [type |-> type, val |-> x])]
  <2>1. /\ m \in NodeT
        /\ m.d = n.d /\ m.a = n.a /\ m.o = n.o
        /\ Len(m.s) = Len(n.s) + 1
        /\ FieldsOk(m.s)
    BY <1>1, AddSubjField
  <2>2. Len(n.s) \in Nat
    BY LenProperties DEF NodeT
  <2>3. Add(x).exit = FALSE /\ Add(x).n = m
    OBVIOUS
  <2>4. Len(m.s) <= Len(n.s) + 1
    BY <2>1, <2>2
  <2> HIDE DEF m
  <2> QED
    BY <2>1, <2>3, <2>4
<1>2. Goal([exit |-> FALSE, n |-> n]) /\ Goal([exit |-> TRUE, n |-> n])
  <2>1. Len(n.s) \in Nat
    BY LenProperties DEF NodeT
  <2> QED
    BY <2>1
<1>3. CASE type \in StrSubjTypes
  <2>1. r = Add(v)
    BY <1>3 DEF AssignSubject
  <2>2. Goal(Add(v))
    BY <1>1, <1>3 DEF StrSubjTypes, NumSubjTypes
  <2> HIDE DEF Goal, Add
  <2> QED
    BY <2>1, <2>2
<1>4. CASE type \notin StrSubjTypes /\ type = "PATTERN"
  <2>1. r \in {Add(1), Add(2), [exit |-> FALSE, n |-> n]}
    BY <1>4 DEF AssignSubject
  <2>2. 1 \in Str \cup Int /\ 2 \in Str \cup Int /\ 1 \in Int /\ 2 \in Int
        /\ type \notin StrSubjTypes
    BY <1>4
  <2>3. Goal(Add(1)) /\ Goal(Add(2))
    BY <1>1, <2>2
  <2> HIDE DEF Goal, Add
  <2> QED
    BY <1>2, <2>1, <2>3
<1>5. CASE type \notin StrSubjTypes /\ type # "PATTERN" /\ v \in DOMAIN DigitVal
  <2>1. r = Add(DigitVal[v])
    BY <1>5 DEF AssignSubject
  <2>2. DigitVal[v] \in Int
    BY <1>5 DEF DigitVal
  <2>3. Goal(Add(DigitVal[v]))
    BY <1>1, <1>5, <2>2
  <2> HIDE DEF Goal, Add
  <2> QED
    BY <2>1, <2>3
<1>6. CASE type \notin StrSubjTypes /\ type # "PATTERN" /\ v \notin DOMAIN DigitVal
           /\ type \in {"AUID", "UID"}
  <2>1. r \in {Add(Users[v]), [exit |-> TRUE, n |-> n]}
    BY <1>6 DEF AssignSubject
  <2>2. v \in DOMAIN Users => Users[v] \in Int
    BY ParserAssumption
  <2>3. r = Add(Users[v]) => v \in DOMAIN Users
    BY <1>6 DEF AssignSubject
  <2>4. v \in DOMAIN Users => Goal(Add(Users[v]))
    BY <1>1, <1>6, <2>2 DEF StrSubjTypes
  <2> HIDE DEF Goal, Add
  <2> QED
    BY <1>2, <2>1, <2>3, <2>4
<1>7. CASE type \notin StrSubjTypes /\ type # "PATTERN" /\ v \notin DOMAIN DigitVal
           /\ type \notin {"AUID", "UID"}
  <2>1. PICK g \in Garbage : r = Add(g)
    BY <1>7 DEF AssignSubject
  <2>2. g \in Str \cup Int /\ g \in Int /\ ~(type = "PATTERN")
    BY <1>7 DEF Garbage
  <2>3. Goal(Add(g))
    BY <1>1, <1>7, <2>2
  <2> HIDE DEF Goal, Add
  <2> QED
    BY <2>1, <2>3
<1> QED
  BY <1>3, <1>4, <1>5, <1>6, <1>7

\* assign_object appends one object field and touches nothing else.
LEMMA AssignObjectOk ==
  ASSUME NEW n \in NodeT, NEW type \in ObjTypes, NEW v \in Str
  PROVE  /\ AssignObject(n, type, v) \in NodeT
         /\ AssignObject(n, type, v).d = n.d
         /\ AssignObject(n, type, v).a = n.a
         /\ AssignObject(n, type, v).s = n.s
         /\ Len(AssignObject(n, type, v).o) = Len(n.o) + 1
<1>1. [type |-> type, o |-> v] \in OF
  BY DEF OF
<1>2. /\ Append(n.o, [type |-> type, o |-> v]) \in Seq(OF)
      /\ Len(Append(n.o, [type |-> type, o |-> v])) = Len(n.o) + 1
  BY <1>1, AppendProperties DEF NodeT
<1> QED
  BY <1>2 DEF AssignObject, NodeT

\* The Field Dictionary maps a name to a value of the right kind or NONE.
LEMMA NameToValOk ==
  ASSUME NEW x
  PROVE  /\ DecNameToVal(x) \in Decisions \cup {NONE}
         /\ SubjNameToVal(x) # NONE => SubjNameToVal(x) \in NumSubjTypes \cup StrSubjTypes
         /\ ObjNameToVal(x) # NONE => ObjNameToVal(x) \in ObjTypes
BY DEF DecNameToVal, SubjNameToVal, ObjNameToVal, Decisions, NumSubjTypes,
       StrSubjTypes, ObjTypes, NONE

\* A token of a line has a string name and value.
LEMMA TokenOk ==
  ASSUME NEW t \in Tokens
  PROVE  t.name \in STRING /\ t.val \in STRING /\ t.val \in Str /\ t.eq \in BOOLEAN
BY ParserAssumption DEF Str

\* What one call of assign_subject, as nv_split and parse_new_format make
\* it, does to the parser's state.
LEMMA ApplySubjectOk ==
  ASSUME NEW type \in NumSubjTypes \cup StrSubjTypes, NEW v \in Str,
         type \in StrSubjTypes => v \in STRING,
         NEW pc2, NEW ps2, node \in NodeT, FieldsOk(node.s),
         ApplySubject(type, v, pc2, ps2)
  PROVE  /\ node' \in NodeT
         /\ node'.d = node.d /\ node'.a = node.a /\ node'.o = node.o
         /\ Len(node'.s) <= Len(node.s) + 1
         /\ FieldsOk(node'.s)
         /\ pc' \in {"exited", pc2} /\ pstate' \in {pstate, ps2} /\ rc' = rc
<1>1. PICK r \in AssignSubject(node, type, v) :
        \/ r.exit /\ pc' = "exited" /\ UNCHANGED <<node, pstate, rc>>
        \/ ~r.exit /\ node' = r.n /\ pc' = pc2 /\ pstate' = ps2 /\ UNCHANGED rc
  BY DEF ApplySubject
<1>2. /\ r.n \in NodeT
      /\ r.n.d = node.d /\ r.n.a = node.a /\ r.n.o = node.o
      /\ Len(r.n.s) <= Len(node.s) + 1
      /\ FieldsOk(r.n.s)
  BY AssignSubjectOk
<1>3. Len(node.s) \in Nat
  BY LenProperties DEF NodeT
<1> QED
  BY <1>1, <1>2, <1>3

-----------------------------------------------------------------------------
(***************************************************************************)
(* One token of a loop (nv_split's or parse_new_format's): what every      *)
(* branch of it guarantees, and why that keeps IInv.                       *)
(***************************************************************************)
LoopStep ==
  /\ line' = line /\ pos' = pos + 1
  /\ pc' \in {"orig", "new", "finish", "done", "exited"}
  /\ pstate' \in {0, 1} /\ rc' \in Int
  /\ node' \in NodeT
  /\ node'.d = node.d /\ node'.a \in Accesses
  /\ Len(node'.s) + Len(node'.o) <= Len(node.s) + Len(node.o) + 1
  /\ pc' = "done" => rc' # 0
  /\ FieldsOk(node'.s)

\* A loop step reads one more token and appends at most one field.
LEMMA LoopStepInv ==
  ASSUME IInv, pc \in {"orig", "new"}, pos < Len(line), LoopStep
  PROVE  IInv'
<1>1. pos \in Nat /\ pos >= 1 /\ Len(line) \in Nat
  BY LenProperties DEF IInv
<1>2. Len(node.s) \in Nat /\ Len(node.o) \in Nat
      /\ Len(node'.s) \in Nat /\ Len(node'.o) \in Nat
  BY LenProperties DEF IInv, LoopStep, NodeT
<1>3. Budget(pos) = pos - 1 /\ Budget(pos') = pos
  BY <1>1 DEF Budget, LoopStep
<1>4. Len(node'.s) + Len(node'.o) <= Budget(pos')
  <2>1. Len(node.s) + Len(node.o) <= Budget(pos)
    BY DEF IInv
  <2>2. Len(node'.s) + Len(node'.o) <= Len(node.s) + Len(node.o) + 1
    BY DEF LoopStep
  <2> QED
    <3> DEFINE a == Len(node.s)  b == Len(node.o)
               c == Len(node'.s) d == Len(node'.o)
    <3>1. \A w, x, y, z, p \in Nat :
            p >= 1 /\ w + x <= p - 1 /\ y + z <= w + x + 1 => y + z <= p
      OBVIOUS
    <3>2. c + d <= pos
      <4>1. a \in Nat /\ b \in Nat /\ c \in Nat /\ d \in Nat /\ pos \in Nat
            /\ pos >= 1 /\ a + b <= pos - 1 /\ c + d <= a + b + 1
        BY <1>1, <1>2, <1>3, <2>1, <2>2
      <4> HIDE DEF a, b, c, d
      <4> QED
        BY <4>1, <3>1
    <3> QED
      BY <1>3, <3>2, Zenon
<1>5. node'.d \in Decisions /\ node'.a \in Accesses
  BY DEF IInv, LoopStep
<1>6. pos' \in 0..Len(line') /\ pos' >= 1
  BY <1>1 DEF LoopStep
<1>7. line' \in Seq(Tokens) /\ Len(line') <= MaxLen
  BY DEF IInv, LoopStep
<1>8. pc' # "split" /\ ~(pc' = "done" /\ rc' = 0)
  BY DEF LoopStep
<1> QED
  BY <1>4, <1>5, <1>6, <1>7, <1>8 DEF IInv, LoopStep

-----------------------------------------------------------------------------
(***************************************************************************)
(* IInv is inductive.                                                      *)
(***************************************************************************)
LEMMA InitIInv == ParserInit => IInv
<1> SUFFICES ASSUME ParserInit PROVE IInv
  OBVIOUS
<1>1. PICK k \in 0..MaxLen : line \in [1..k -> Tokens]
  BY DEF ParserInit, Lines
<1>2. line \in Seq(Tokens)
  BY <1>1, SeqDef, ParserAssumption
<1>3. Len(line) = k
  BY <1>1, <1>2, LenProperties
<1>4. NewNode \in NodeT /\ Len(NewNode.s) = 0 /\ Len(NewNode.o) = 0
  BY EmptySeq DEF NewNode, NodeT, Decisions, Accesses
<1> QED
  BY <1>1, <1>2, <1>3, <1>4, ParserAssumption
  DEF IInv, ParserInit, FieldsOk, NewNode, Budget

\* IInv of the next state, one conjunct at a time.
LEMMA IInvPrime ==
  ASSUME line' \in Seq(Tokens), Len(line') <= MaxLen, pos' \in 0..Len(line'),
         pc' \in {"split", "orig", "new", "finish", "done", "exited"},
         pstate' \in {0, 1}, rc' \in Int, node' \in NodeT,
         pc' = "split" => pos' = 0,
         pc' \in {"orig", "new", "finish"} => pos' >= 1,
         Len(node'.s) + Len(node'.o) <= Budget(pos'),
         pc' \in {"orig", "new", "finish"} \/ (pc' = "done" /\ rc' = 0) =>
           node'.d \in Decisions /\ node'.a \in Accesses,
         pc' = "done" /\ rc' = 0 => node'.s # <<>> /\ node'.o # <<>>,
         FieldsOk(node'.s)
  PROVE  IInv'
BY DEF IInv

\* A return of an error code or an exit leaves line and node as they are.
LEMMA StopIInv ==
  ASSUME IInv, line' = line, node' = node, pstate' \in {0, 1},
         NEW p \in Nat, pos' = p, pos <= p, p <= Len(line),
         \/ pc' = "done" /\ rc' \in Int \ {0}
         \/ pc' = "exited" /\ rc' = rc
  PROVE  IInv'
<1>1. /\ line \in Seq(Tokens) /\ Len(line) <= MaxLen /\ pos \in 0..Len(line)
      /\ rc \in Int /\ node \in NodeT /\ FieldsOk(node.s)
  BY DEF IInv
<1>0. Len(node.s) + Len(node.o) <= Budget(pos)
  BY DEF IInv
<1>2. Len(node.s) \in Nat /\ Len(node.o) \in Nat /\ Len(line) \in Nat
  BY <1>1, LenProperties DEF NodeT
<1>3. Budget(pos) <= Budget(p)
  BY <1>1, <1>2 DEF Budget
<1>4. Len(node'.s) + Len(node'.o) <= Budget(pos')
  <2>2. Budget(pos) \in Int /\ Budget(p) \in Int
    BY <1>1 DEF Budget
  <2>3. Len(node'.s) = Len(node.s) /\ Len(node'.o) = Len(node.o)
        /\ Budget(pos') = Budget(p)
    OBVIOUS
  <2>4. Len(node.s) + Len(node.o) <= Budget(p)
    BY <1>0, <1>2, <1>3, <2>2, SumTrans, Zenon
  <2> QED
    BY <2>3, <2>4
<1>5. pos' \in 0..Len(line')
  BY <1>2
<1>6. /\ pc' \in {"split", "orig", "new", "finish", "done", "exited"}
      /\ rc' \in Int
      /\ ~(pc' \in {"orig", "new", "finish"} \/ (pc' = "done" /\ rc' = 0))
      /\ pc' # "split"
  BY <1>1
<1> QED
  BY <1>1, <1>4, <1>5, <1>6 DEF IInv

\* nv_split's start reads the first token only.
LEMMA NvSplitStartIInv == IInv /\ NvSplitStart => IInv'
<1> SUFFICES ASSUME IInv, NvSplitStart PROVE IInv'
  OBVIOUS
<1>1. pc = "split" /\ pos = 0 /\ line' = line
  BY DEF IInv, NvSplitStart
<1>2. /\ line \in Seq(Tokens) /\ Len(line) <= MaxLen
      /\ node \in NodeT /\ FieldsOk(node.s) /\ rc \in Int /\ pstate \in {0, 1}
  BY DEF IInv
<1>3. Len(node.s) = 0 /\ Len(node.o) = 0
  <2>1. Len(node.s) \in Nat /\ Len(node.o) \in Nat
    BY <1>2, LenProperties DEF NodeT
  <2>2. Len(node.s) + Len(node.o) <= Budget(pos)
    BY DEF IInv
  <2>3. Budget(pos) = 0
    BY <1>1 DEF Budget
  <2>4. \A w, x \in Nat : w + x <= 0 => w = 0 /\ x = 0
    OBVIOUS
  <2> QED
    BY <2>1, <2>2, <2>3, <2>4
<1>4. Len(line) \in Nat
  BY <1>2, LenProperties
<1>5. CASE BlankOrComment(line)
  <2>1. rc' = -1 /\ pc' = "done" /\ UNCHANGED <<pos, pstate, node>>
    BY <1>5 DEF NvSplitStart, Return
  <2> QED
    BY <1>1, <1>2, <1>4, <2>1, StopIInv
<1>6. CASE ~BlankOrComment(line)
  <2>1. line # <<>>
    BY <1>6 DEF BlankOrComment
  <2>2. Len(line) >= 1
    BY <1>2, <2>1, EmptySeq
  <2> DEFINE d == IF line[1].eq THEN NONE ELSE DecNameToVal(line[1].name)
  <2>3. d \in Decisions \cup {NONE}
    BY NameToValOk
  <2>4. pos' = 1
    BY <1>6 DEF NvSplitStart
  <2>5. CASE d = NONE
    <3>1. rc' = 1 /\ pc' = "done" /\ UNCHANGED <<pstate, node>>
      BY <1>6, <2>5 DEF NvSplitStart, Return
    <3> QED
      BY <1>1, <1>2, <1>4, <2>2, <2>4, <3>1, StopIInv
  <2>6. CASE d # NONE
    <3>1. node' = [node EXCEPT !.d = d, !.a = "OPEN_ACC"] /\ pc' = "orig"
          /\ UNCHANGED <<pstate, rc>>
      BY <1>6, <2>6 DEF NvSplitStart
    <3>2. node' \in NodeT /\ node'.s = node.s /\ node'.o = node.o
          /\ node'.d \in Decisions /\ node'.a \in Accesses
      BY <1>2, <2>3, <2>6, <3>1 DEF NodeT, Accesses
    <3>3. Len(node'.s) = 0 /\ Len(node'.o) = 0 /\ Budget(pos') = 0
      BY <1>3, <2>4, <3>2 DEF Budget
    <3>4. Len(node'.s) + Len(node'.o) <= Budget(pos')
      BY <3>3
    <3>5. pos' \in 0..Len(line') /\ pos' >= 1
      BY <1>1, <1>4, <2>2, <2>4
    <3>6. FieldsOk(node'.s)
      BY <1>2, <3>2
    <3>7. line' \in Seq(Tokens) /\ Len(line') <= MaxLen
      BY <1>1, <1>2
    <3> QED
      BY <1>2, <3>1, <3>2, <3>4, <3>5, <3>6, <3>7, IInvPrime, Zenon
  <2> QED
    BY <2>5, <2>6
<1> QED
  BY <1>5, <1>6

\* finish_up returns 0 only for a node with a subject and an object field.
LEMMA FinishUpIInv == IInv /\ FinishUp => IInv'
<1> SUFFICES ASSUME IInv, FinishUp PROVE IInv'
  OBVIOUS
<1>1. pc' = "done" /\ UNCHANGED <<line, pos, pstate, node>>
      /\ rc' = IF node.s = <<>> THEN 6 ELSE IF node.o = <<>> THEN 7 ELSE 0
  BY DEF FinishUp, Return
<1>2. /\ line \in Seq(Tokens) /\ Len(line) <= MaxLen /\ pos \in 0..Len(line)
      /\ pstate \in {0, 1} /\ node \in NodeT /\ FieldsOk(node.s)
      /\ Len(node.s) + Len(node.o) <= Budget(pos)
      /\ node.d \in Decisions /\ node.a \in Accesses
  BY DEF IInv, FinishUp
<1> QED
  BY <1>1, <1>2, IInvPrime

-----------------------------------------------------------------------------
(***************************************************************************)
(* The branches of the two loops.                                          *)
(***************************************************************************)

\* The loop finds no token left and goes to finish_up.
LEMMA LoopEndIInv ==
  ASSUME IInv, pc \in {"orig", "new"}, pc' = "finish",
         UNCHANGED <<line, pos, pstate, node, rc>>
  PROVE  IInv'
<1>1. /\ line \in Seq(Tokens) /\ Len(line) <= MaxLen /\ pos \in 0..Len(line)
      /\ pstate \in {0, 1} /\ rc \in Int /\ node \in NodeT /\ FieldsOk(node.s)
      /\ pos >= 1 /\ node.d \in Decisions /\ node.a \in Accesses
  BY DEF IInv
<1>2. Len(node.s) + Len(node.o) <= Budget(pos)
  BY DEF IInv
<1> QED
  BY <1>1, <1>2, IInvPrime, Zenon

\* A token that leaves the node alone: an error return, the end of
\* parse_new_format's loop, or its ':'.
LEMMA LoopStopStep ==
  ASSUME IInv, pc \in {"orig", "new"}, line' = line, pos' = pos + 1,
         node' = node, pstate' \in {0, 1},
         \/ pc' = "done" /\ rc' \in Int \ {0}
         \/ pc' \in {"finish", "new"} /\ rc' = rc
  PROVE  LoopStep
<1>1. /\ pstate \in {0, 1} /\ rc \in Int /\ node \in NodeT /\ FieldsOk(node.s)
      /\ node.a \in Accesses
  BY DEF IInv
<1>2. Len(node.s) \in Nat /\ Len(node.o) \in Nat
  BY <1>1, LenProperties DEF NodeT
<1>3. Len(node'.s) + Len(node'.o) <= Len(node.s) + Len(node.o) + 1
  BY <1>2, SumGrow, Zenon
<1> QED
  BY <1>1, <1>3 DEF LoopStep

\* A token that assign_subject handles.
LEMMA LoopApplyStep ==
  ASSUME IInv, pc \in {"orig", "new"}, line' = line, pos' = pos + 1,
         NEW type \in NumSubjTypes \cup StrSubjTypes, NEW v \in Str,
         type \in StrSubjTypes => v \in STRING,
         NEW pc2 \in {"orig", "new"}, NEW ps2 \in {0, 1},
         ApplySubject(type, v, pc2, ps2)
  PROVE  LoopStep
<1>1. /\ pstate \in {0, 1} /\ rc \in Int /\ node \in NodeT /\ FieldsOk(node.s)
      /\ node.a \in Accesses
  BY DEF IInv
<1>2. /\ node' \in NodeT
      /\ node'.d = node.d /\ node'.a = node.a /\ node'.o = node.o
      /\ Len(node'.s) <= Len(node.s) + 1
      /\ FieldsOk(node'.s)
      /\ pc' \in {"exited", pc2} /\ pstate' \in {pstate, ps2} /\ rc' = rc
  BY <1>1, ApplySubjectOk
<1>3. /\ Len(node.s) \in Nat /\ Len(node.o) \in Nat
      /\ Len(node'.s) \in Nat /\ Len(node'.o) \in Nat
  BY <1>1, <1>2, LenProperties DEF NodeT
<1>4. Len(node'.o) = Len(node.o)
  BY <1>2
<1>5. Len(node'.s) + Len(node'.o) <= Len(node.s) + Len(node.o) + 1
  BY <1>2, <1>3, <1>4, SumGrow, Zenon
<1> QED
  BY <1>1, <1>2, <1>5 DEF LoopStep

\* A token that assign_object handles.
LEMMA LoopObjectStep ==
  ASSUME IInv, pc \in {"orig", "new"}, line' = line, pos' = pos + 1,
         NEW type \in ObjTypes, NEW v \in Str,
         node' = AssignObject(node, type, v), UNCHANGED <<pc, pstate, rc>>
  PROVE  LoopStep
<1>1. /\ pstate \in {0, 1} /\ rc \in Int /\ node \in NodeT /\ FieldsOk(node.s)
      /\ node.a \in Accesses
  BY DEF IInv
<1>2. /\ node' \in NodeT /\ node'.d = node.d /\ node'.a = node.a
      /\ node'.s = node.s /\ Len(node'.o) = Len(node.o) + 1
  BY <1>1, AssignObjectOk
<1>3. /\ Len(node.s) \in Nat /\ Len(node.o) \in Nat
      /\ Len(node'.s) \in Nat /\ Len(node'.o) \in Nat
  BY <1>1, <1>2, LenProperties DEF NodeT
<1>4. Len(node'.s) = Len(node.s)
  BY <1>2
<1>5. Len(node'.s) + Len(node'.o) <= Len(node.s) + Len(node.o) + 1
  BY <1>2, <1>3, <1>4, SumGrow, Zenon
<1> QED
  BY <1>1, <1>2, <1>5 DEF LoopStep

\* perm= sets the access and nothing else.
LEMMA LoopPermStep ==
  ASSUME IInv, pc \in {"orig", "new"}, line' = line, pos' = pos + 1,
         NEW x \in Accesses, node' = [node EXCEPT !.a = x], pc' = "new",
         UNCHANGED <<pstate, rc>>
  PROVE  LoopStep
<1>1. /\ pstate \in {0, 1} /\ rc \in Int /\ node \in NodeT /\ FieldsOk(node.s)
  BY DEF IInv
<1>2. /\ node' \in NodeT /\ node'.d = node.d /\ node'.a = x
      /\ node'.s = node.s /\ node'.o = node.o
  BY <1>1 DEF NodeT
<1>3. Len(node.s) \in Nat /\ Len(node.o) \in Nat
  BY <1>1, LenProperties DEF NodeT
<1>4. Len(node'.s) + Len(node'.o) <= Len(node.s) + Len(node.o) + 1
  BY <1>2, <1>3, SumGrow, Zenon
<1> QED
  BY <1>1, <1>2, <1>4 DEF LoopStep

\* One iteration of nv_split's loop, or its end.
LEMMA NvSplitLoopIInv == IInv /\ NvSplitLoop => IInv'
<1> SUFFICES ASSUME IInv, NvSplitLoop PROVE IInv'
  OBVIOUS
<1>1. pc = "orig" /\ line' = line
  BY DEF NvSplitLoop
<1>2. line \in Seq(Tokens) /\ pos \in 0..Len(line) /\ Len(line) \in Nat
      /\ pstate \in {0, 1}
  BY LenProperties DEF IInv
<1>3. CASE pos = Len(line)
  BY <1>1, <1>3, LoopEndIInv DEF NvSplitLoop
<1>4. CASE pos # Len(line)
  <2>1. pos < Len(line) /\ pos' = pos + 1
    BY <1>2, <1>4 DEF NvSplitLoop
  <2> SUFFICES LoopStep
    BY <1>1, <2>1, LoopStepInv
  <2> DEFINE t == line[pos + 1]
  <2>2. t \in Tokens
    BY <1>2, <2>1, ElementOfSeq
  <2>3. t.name \in STRING /\ t.val \in STRING /\ t.val \in Str /\ t.eq \in BOOLEAN
    BY <2>2, TokenOk
  <2>4. \/ t.eq /\ fmt = "COLON" /\ ColonFirstToken(t)
        \/ t.eq /\ fmt = "ORIG" /\ OrigToken(t)
        \/ ~t.eq /\ t.name = "all" /\ OrigAll
        \/ ~t.eq /\ t.name # "all" /\ Return(5) /\ UNCHANGED <<node, pstate>>
    BY <1>4, <2>1 DEF NvSplitLoop
  <2> USE <1>1, <2>1
  <2>5. CASE ColonFirstToken(t)
    <3>1. CASE t.name = "perm" /\ t.val \in {"execute", "any", "open"}
      <4>1. /\ node' = [node EXCEPT !.a = CASE t.val = "execute" -> "EXEC_ACC"
                                           [] t.val = "any" -> "ANY_ACC"
                                           [] OTHER -> node.a]
            /\ pc' = "new" /\ UNCHANGED <<pstate, rc>>
        BY <2>5, <3>1 DEF ColonFirstToken
      <4>2. node.a \in Accesses
        BY DEF IInv
      <4>3. (CASE t.val = "execute" -> "EXEC_ACC" [] t.val = "any" -> "ANY_ACC"
                [] OTHER -> node.a) \in Accesses
        BY <4>2 DEF Accesses
      <4> QED
        BY <4>1, <4>3, LoopPermStep
    <3>2. CASE t.name = "perm" /\ t.val \notin {"execute", "any", "open"}
      <4>1. rc' = 2 /\ pc' = "done" /\ UNCHANGED <<node, pstate>>
        BY <2>5, <3>2 DEF ColonFirstToken, Return
      <4> QED
        BY <1>2, <4>1, LoopStopStep
    <3>3. CASE t.name # "perm" /\ SubjNameToVal(t.name) = NONE
      <4>1. rc' = 1 /\ pc' = "done" /\ UNCHANGED <<node, pstate>>
        BY <2>5, <3>3 DEF ColonFirstToken, Return
      <4> QED
        BY <1>2, <4>1, LoopStopStep
    <3>4. CASE t.name # "perm" /\ SubjNameToVal(t.name) # NONE
      <4>1. ApplySubject(SubjNameToVal(t.name), t.val, "new", 0)
        BY <2>5, <3>4 DEF ColonFirstToken
      <4>2. SubjNameToVal(t.name) \in NumSubjTypes \cup StrSubjTypes
        BY <3>4, NameToValOk
      <4>3. SubjNameToVal(t.name) \in StrSubjTypes => t.val \in STRING
        BY <2>3
      <4> QED
        BY <2>3, <4>1, <4>2, <4>3, LoopApplyStep
    <3> QED
      BY <3>1, <3>2, <3>3, <3>4
  <2>6. CASE OrigToken(t)
    <3>1. CASE SubjNameToVal(t.name) # NONE
      <4>1. ApplySubject(SubjNameToVal(t.name), t.val, "orig", pstate)
        BY <2>6, <3>1 DEF OrigToken
      <4>2. SubjNameToVal(t.name) \in NumSubjTypes \cup StrSubjTypes
        BY <3>1, NameToValOk
      <4>3. SubjNameToVal(t.name) \in StrSubjTypes => t.val \in STRING
        BY <2>3
      <4> QED
        BY <1>2, <2>3, <4>1, <4>2, <4>3, LoopApplyStep
    <3>2. CASE SubjNameToVal(t.name) = NONE /\ ObjNameToVal(t.name) # NONE
      <4>1. node' = AssignObject(node, ObjNameToVal(t.name), t.val)
            /\ UNCHANGED <<pc, pstate, rc>>
        BY <2>6, <3>2 DEF OrigToken
      <4>2. ObjNameToVal(t.name) \in ObjTypes
        BY <3>2, NameToValOk
      <4> QED
        BY <2>3, <4>1, <4>2, LoopObjectStep
    <3>3. CASE SubjNameToVal(t.name) = NONE /\ ObjNameToVal(t.name) = NONE
      <4>1. rc' = 3 /\ pc' = "done" /\ UNCHANGED <<node, pstate>>
        BY <2>6, <3>3 DEF OrigToken, Return
      <4> QED
        BY <1>2, <4>1, LoopStopStep
    <3> QED
      BY <3>1, <3>2, <3>3
  <2>7. CASE OrigAll
    <3>1. CASE node.s = <<>>
      <4>1. ApplySubject("ALL_SUBJ", "", pc, pstate)
        BY <2>7, <3>1 DEF OrigAll
      <4>2. "ALL_SUBJ" \in NumSubjTypes \cup StrSubjTypes /\ "" \in Str
            /\ pc \in {"orig", "new"} /\ "ALL_SUBJ" \notin StrSubjTypes
        BY DEF NumSubjTypes, StrSubjTypes, Str
      <4> QED
        BY <1>2, <4>1, <4>2, LoopApplyStep
    <3>2. CASE node.s # <<>> /\ node.o = <<>>
      <4>1. node' = AssignObject(node, "ALL_OBJ", "") /\ UNCHANGED <<pc, pstate, rc>>
        BY <2>7, <3>2 DEF OrigAll
      <4>2. "ALL_OBJ" \in ObjTypes /\ "" \in Str
        BY DEF ObjTypes, Str
      <4> QED
        BY <4>1, <4>2, LoopObjectStep, Zenon
    <3>3. CASE node.s # <<>> /\ node.o # <<>>
      <4>1. rc' = 4 /\ pc' = "done" /\ UNCHANGED <<node, pstate>>
        BY <2>7, <3>3 DEF OrigAll, Return
      <4> QED
        BY <1>2, <4>1, LoopStopStep
    <3> QED
      BY <3>1, <3>2, <3>3
  <2>8. CASE Return(5) /\ UNCHANGED <<node, pstate>>
    BY <1>2, <2>8, LoopStopStep DEF Return
  <2> QED
    BY <2>4, <2>5, <2>6, <2>7, <2>8
<1> QED
  BY <1>3, <1>4

\* One iteration of parse_new_format's loop, or its end.
LEMMA ParseNewFormatIInv == IInv /\ ParseNewFormat => IInv'
<1> SUFFICES ASSUME IInv, ParseNewFormat PROVE IInv'
  OBVIOUS
<1>1. pc = "new" /\ line' = line
  BY DEF ParseNewFormat
<1>2. line \in Seq(Tokens) /\ pos \in 0..Len(line) /\ Len(line) \in Nat
      /\ pstate \in {0, 1}
  BY LenProperties DEF IInv
<1>3. CASE pos = Len(line)
  <2>0. ~(pos < Len(line))
    BY <1>3
  <2>1. pc' = "finish" /\ UNCHANGED <<pos, pstate, node, rc>>
    BY <1>3, <2>0, Zenon DEF ParseNewFormat
  <2> QED
    BY <1>1, <2>1, LoopEndIInv
<1>4. CASE pos # Len(line)
  <2>1. pos < Len(line) /\ pos' = pos + 1
    BY <1>2, <1>4 DEF ParseNewFormat
  <2> SUFFICES LoopStep
    BY <1>1, <2>1, LoopStepInv
  <2> DEFINE t == line[pos + 1]
             Stop == pc' = "finish" /\ UNCHANGED <<pstate, node, rc>>
  <2>2. t \in Tokens
    BY <1>2, <2>1, ElementOfSeq
  <2>3. t.name \in STRING /\ t.val \in STRING /\ t.val \in Str /\ t.eq \in BOOLEAN
    BY <2>2, TokenOk
  <2>4. \/ /\ t.eq /\ pstate = 0
           /\ \/ SubjNameToVal(t.name) = NONE /\ Stop
              \/ /\ SubjNameToVal(t.name) # NONE
                 /\ ApplySubject(SubjNameToVal(t.name), t.val, "new", 0)
        \/ /\ t.eq /\ pstate = 1
           /\ \/ ObjNameToVal(t.name) = NONE /\ Stop
              \/ /\ ObjNameToVal(t.name) # NONE
                 /\ node' = AssignObject(node, ObjNameToVal(t.name), t.val)
                 /\ UNCHANGED <<pc, pstate, rc>>
        \/ /\ ~t.eq /\ pstate = 0 /\ t.name = ":"
           /\ pstate' = 1
           /\ UNCHANGED <<pc, node, rc>>
        \/ /\ ~t.eq /\ ~(pstate = 0 /\ t.name = ":") /\ t.name = "all"
           /\ \/ pstate = 0 /\ ApplySubject("ALL_SUBJ", "", "new", 0)
              \/ /\ pstate = 1
                 /\ node' = AssignObject(node, "ALL_OBJ", "")
                 /\ UNCHANGED <<pc, pstate, rc>>
        \/ /\ ~t.eq /\ ~(pstate = 0 /\ t.name = ":") /\ t.name # "all"
           /\ Stop
    BY <1>4, <2>1 DEF ParseNewFormat
  <2> USE <1>1, <2>1
  <2>5. CASE Stop
    BY <1>2, <2>5, LoopStopStep
  <2>6. CASE SubjNameToVal(t.name) # NONE
             /\ ApplySubject(SubjNameToVal(t.name), t.val, "new", 0)
    <3>1. SubjNameToVal(t.name) \in NumSubjTypes \cup StrSubjTypes
      BY <2>6, NameToValOk
    <3>2. SubjNameToVal(t.name) \in StrSubjTypes => t.val \in STRING
      BY <2>3
    <3> QED
      BY <2>3, <2>6, <3>1, <3>2, LoopApplyStep
  <2>7. CASE ObjNameToVal(t.name) # NONE
             /\ node' = AssignObject(node, ObjNameToVal(t.name), t.val)
             /\ UNCHANGED <<pc, pstate, rc>>
    <3>1. ObjNameToVal(t.name) \in ObjTypes
      BY <2>7, NameToValOk
    <3> QED
      BY <2>3, <2>7, <3>1, LoopObjectStep
  <2>8. CASE pstate' = 1 /\ UNCHANGED <<pc, node, rc>>
    BY <2>8, LoopStopStep
  <2>9. CASE ApplySubject("ALL_SUBJ", "", "new", 0)
    <3>1. "ALL_SUBJ" \in NumSubjTypes \cup StrSubjTypes /\ "" \in Str
          /\ "ALL_SUBJ" \notin StrSubjTypes
      BY DEF NumSubjTypes, StrSubjTypes, Str
    <3> QED
      BY <2>9, <3>1, LoopApplyStep
  <2>10. CASE node' = AssignObject(node, "ALL_OBJ", "") /\ UNCHANGED <<pc, pstate, rc>>
    <3>1. "ALL_OBJ" \in ObjTypes /\ "" \in Str
      BY DEF ObjTypes, Str
    <3> QED
      BY <2>10, <3>1, LoopObjectStep, Zenon
  <2> QED
    BY <2>4, <2>5, <2>6, <2>7, <2>8, <2>9, <2>10
<1> QED
  BY <1>3, <1>4

\* Every step of nv_split keeps IInv.
LEMMA NextIInv == IInv /\ [ParserNext]_pvars => IInv'
<1> SUFFICES ASSUME IInv, [ParserNext]_pvars PROVE IInv'
  OBVIOUS
<1>1. CASE NvSplitStart
  BY <1>1, NvSplitStartIInv
<1>2. CASE NvSplitLoop
  BY <1>2, NvSplitLoopIInv
<1>3. CASE ParseNewFormat
  BY <1>3, ParseNewFormatIInv
<1>4. CASE FinishUp
  BY <1>4, FinishUpIInv
<1>5. CASE UNCHANGED pvars
  BY <1>5, Zenon DEF IInv, pvars
<1> QED
  BY <1>1, <1>2, <1>3, <1>4, <1>5 DEF ParserNext, ParseStep

\* The parser's state always satisfies IInv.
THEOREM ParserInvariant == ParserSpec => []IInv
<1>1. ParserInit => IInv
  BY InitIInv
<1>2. IInv /\ [ParserNext]_pvars => IInv'
  BY NextIInv
<1> QED
  BY <1>1, <1>2, PTL DEF ParserSpec

-----------------------------------------------------------------------------
\* A node of a line of at most MAX_FIELDS + 1 tokens holds at most
\* MAX_FIELDS fields of each side.
LEMMA BudgetBound ==
  ASSUME NEW a \in Nat, NEW b \in Nat, NEW p \in Nat, p <= MAX_FIELDS + 1,
         a + b <= Budget(p)
  PROVE  a <= MAX_FIELDS /\ b <= MAX_FIELDS
BY DEF Budget, MAX_FIELDS

LEMMA IInvFieldCounts ==
  ASSUME MaxLen <= MAX_FIELDS + 1, IInv
  PROVE  FieldCountsBounded
<1>1. /\ line \in Seq(Tokens) /\ Len(line) <= MaxLen /\ pos \in 0..Len(line)
      /\ node \in NodeT
  BY DEF IInv
<1>2. Len(node.s) + Len(node.o) <= Budget(pos)
  BY DEF IInv
<1>3. /\ Len(node.s) \in Nat /\ Len(node.o) \in Nat /\ Len(line) \in Nat
      /\ pos \in Nat /\ pos <= MAX_FIELDS + 1
  <2>1. Len(node.s) \in Nat /\ Len(node.o) \in Nat /\ Len(line) \in Nat
    BY <1>1, LenProperties DEF NodeT
  <2>2. MaxLen \in Nat
    BY ParserAssumption
  <2> QED
    BY <1>1, <2>1, <2>2 DEF MAX_FIELDS
<1> QED
  BY <1>2, <1>3, BudgetBound, Zenon DEF FieldCountsBounded

\* spec section 3, for every token set and user table: on lines of at
\* most MAX_FIELDS + 1 tokens, assign_subject and assign_object never
\* write s[] or o[] past MAX_FIELDS, although rules.c never checks the
\* counts. FieldCountsBounded on the lines the field_overflow run shows
\* fails for longer lines.
THEOREM ShortLinesFitFields ==
  ASSUME MaxLen <= MAX_FIELDS + 1
  PROVE  ParserSpec => []FieldCountsBounded
<1>1. IInv => FieldCountsBounded
  BY IInvFieldCounts
<1> QED
  BY <1>1, ParserInvariant, PTL

\* spec section 3 and rule_evaluate: on such lines, every rule nv_split
\* accepts (rc 0) has a decision, an access, one to MAX_FIELDS fields of
\* each side, and only pattern values that rule_evaluate knows.
THEOREM AcceptedRulesUsable ==
  ASSUME MaxLen <= MAX_FIELDS + 1
  PROVE  ParserSpec => []AcceptedRuleUsable
<1>1. IInv => AcceptedRuleUsable
  <2> SUFFICES ASSUME IInv, pc = "done", rc = 0 PROVE AcceptedRuleUsable
    BY DEF AcceptedRuleUsable
  <2>1. FieldCountsBounded
    BY IInvFieldCounts
  <2>2. /\ node.s # <<>> /\ node.o # <<>> /\ node \in NodeT
        /\ node.d \in Decisions /\ node.a \in Accesses /\ FieldsOk(node.s)
    BY DEF IInv
  <2>3. Len(node.s) \in Nat \ {0} /\ Len(node.o) \in Nat \ {0}
    BY <2>2, EmptySeq DEF NodeT
  <2> QED
    BY <2>1, <2>2, <2>3 DEF AcceptedRuleUsable, FieldCountsBounded, FieldsOk
<1> QED
  BY <1>1, ParserInvariant, PTL
-----------------------------------------------------------------------------
(***************************************************************************)
(* What nv_split returns. The decision of spec 4.1 between "skip" (-1) and *)
(* an error or a rule is taken once, at the first token; every later       *)
(* return is one of the codes 0..7 of the loops and finish_up, so -1 on    *)
(* return means a blank or comment line and nothing else.                  *)
(***************************************************************************)
RInv ==
  /\ fmt \in {"ORIG", "COLON"}
  /\ rc \in -1..7
  /\ pc \in {"orig", "new", "finish"} => ~BlankOrComment(line)
  /\ pc = "done" => (rc = -1 <=> BlankOrComment(line))

\* What a step of a loop does to the return value: it keeps it, or it
\* returns one of the loop's error codes.
LoopRc ==
  /\ line' = line /\ fmt' = fmt
  /\ \/ pc' \in {"orig", "new", "finish", "exited"} /\ rc' = rc
     \/ pc' = "done" /\ rc' \in 1..5

\* assign_subject's caller goes on at pc2 or the daemon exits.
LEMMA ApplySubjectRc ==
  ASSUME NEW type, NEW v, NEW pc2, NEW ps2, ApplySubject(type, v, pc2, ps2)
  PROVE  pc' \in {pc2, "exited"} /\ rc' = rc
BY DEF ApplySubject

LEMMA NvSplitLoopRc == NvSplitLoop => LoopRc
<1> SUFFICES ASSUME NvSplitLoop PROVE LoopRc
  OBVIOUS
<1>1. line' = line /\ fmt' = fmt /\ pc = "orig"
  BY DEF NvSplitLoop
<1> DEFINE t == line[pos + 1]
<1>2. CASE pos = Len(line)
  BY <1>1, <1>2 DEF NvSplitLoop, LoopRc
<1>3. CASE pos # Len(line) /\ t.eq /\ fmt = "COLON" /\ ColonFirstToken(t)
  <2>1. \/ pc' = "new" /\ rc' = rc
        \/ pc' = "done" /\ rc' \in {1, 2}
        \/ \E ty : ApplySubject(ty, t.val, "new", 0)
    BY <1>3 DEF ColonFirstToken, Return
  <2> QED
    BY <1>1, <2>1, ApplySubjectRc DEF LoopRc
<1>4. CASE pos # Len(line) /\ t.eq /\ fmt = "ORIG" /\ OrigToken(t)
  <2>1. \/ pc' = "orig" /\ rc' = rc
        \/ pc' = "done" /\ rc' = 3
        \/ \E ty : ApplySubject(ty, t.val, "orig", pstate)
    BY <1>1, <1>4 DEF OrigToken, Return
  <2>2. ASSUME NEW ty, ApplySubject(ty, t.val, "orig", pstate)
        PROVE  pc' \in {"orig", "exited"} /\ rc' = rc
    BY <2>2, ApplySubjectRc
  <2> QED
    BY <1>1, <2>1, <2>2 DEF LoopRc
<1>5. CASE pos # Len(line) /\ ~t.eq /\ t.name = "all" /\ OrigAll
  <2>1. \/ pc' = "orig" /\ rc' = rc
        \/ pc' = "done" /\ rc' = 4
        \/ ApplySubject("ALL_SUBJ", "", "orig", pstate)
    BY <1>1, <1>5 DEF OrigAll, Return
  <2>2. ApplySubject("ALL_SUBJ", "", "orig", pstate)
        => pc' \in {"orig", "exited"} /\ rc' = rc
    BY ApplySubjectRc
  <2>3. \/ pc' \in {"orig", "new", "finish", "exited"} /\ rc' = rc
        \/ pc' = "done" /\ rc' \in 1..5
    <3>1. 4 \in 1..5
      OBVIOUS
    <3> QED
      BY <2>1, <2>2, <3>1, Zenon
  <2> QED
    BY <1>1, <2>3 DEF LoopRc
<1>6. CASE pos # Len(line) /\ ~t.eq /\ t.name # "all" /\ Return(5)
  BY <1>1, <1>6 DEF Return, LoopRc
<1> QED
  BY <1>2, <1>3, <1>4, <1>5, <1>6 DEF NvSplitLoop

LEMMA ParseNewFormatRc == ParseNewFormat => LoopRc
<1> SUFFICES ASSUME ParseNewFormat PROVE LoopRc
  OBVIOUS
<1>1. line' = line /\ fmt' = fmt
  BY DEF ParseNewFormat
<1>2. \/ pc' \in {"new", "finish"} /\ rc' = rc
      \/ \E ty, v : ApplySubject(ty, v, "new", 0)
  BY DEF ParseNewFormat
<1> QED
  BY <1>1, <1>2, ApplySubjectRc DEF LoopRc

LEMMA InitRInv == ParserInit => RInv
BY DEF ParserInit, RInv

LEMMA NextRInv == IInv /\ RInv /\ [ParserNext]_pvars => RInv'
<1> SUFFICES ASSUME IInv, RInv, [ParserNext]_pvars PROVE RInv'
  OBVIOUS
<1>1. CASE NvSplitStart
  <2>1. line' = line /\ fmt' \in {"ORIG", "COLON"}
    BY <1>1 DEF NvSplitStart
  <2>2. CASE BlankOrComment(line)
    BY <1>1, <2>1, <2>2 DEF NvSplitStart, Return, RInv
  <2>3. CASE ~BlankOrComment(line)
    <3>1. \/ pc' = "done" /\ rc' = 1
          \/ pc' = "orig" /\ rc' = rc
      BY <1>1, <2>3 DEF NvSplitStart, Return
    <3> QED
      BY <2>1, <2>3, <3>1 DEF RInv
  <2> QED
    BY <2>2, <2>3
<1>2. CASE NvSplitLoop
  <2>1. LoopRc /\ pc = "orig"
    BY <1>2, NvSplitLoopRc DEF NvSplitLoop
  <2> QED
    BY <2>1 DEF LoopRc, RInv
<1>3. CASE ParseNewFormat
  <2>1. LoopRc /\ pc = "new"
    BY <1>3, ParseNewFormatRc DEF ParseNewFormat
  <2> QED
    BY <2>1 DEF LoopRc, RInv
<1>4. CASE FinishUp
  <2>1. pc = "finish" /\ pc' = "done" /\ rc' \in {0, 6, 7}
        /\ UNCHANGED <<line, fmt>>
    BY <1>4 DEF FinishUp, Return
  <2> QED
    BY <2>1 DEF RInv
<1>5. CASE UNCHANGED pvars
  BY <1>5 DEF RInv, pvars
<1> QED
  BY <1>1, <1>2, <1>3, <1>4, <1>5 DEF ParserNext, ParseStep

\* IInv and RInv give every conjunct of the parser's type invariant.
LEMMA InvTypeOK == IInv /\ RInv => TypeOK
<1> SUFFICES ASSUME IInv, RInv PROVE TypeOK
  OBVIOUS
<1>1. node.s \in Seq(SF) /\ node.o \in Seq(OF) /\ FieldsOk(node.s)
  BY DEF IInv, NodeT
<1>2. DOMAIN node.s = 1..Len(node.s)
  BY <1>1, LenProperties
<1>3. ASSUME NEW i \in DOMAIN node.s PROVE IsSubjField(node.s[i])
  <2>1. node.s[i] \in SF
    BY <1>1, <1>2, ElementOfSeq
  <2>2. /\ node.s[i].type \in StrSubjTypes => node.s[i].val \in STRING
        /\ node.s[i].type \in NumSubjTypes => node.s[i].val \in Int
    BY <1>1 DEF FieldsOk
  <2> QED
    BY <2>1, <2>2 DEF SF, IsSubjField
<1>4. OF = ObjFieldT
  BY DEF OF, ObjFieldT, Str
<1> QED
  BY <1>1, <1>2, <1>3, <1>4 DEF IInv, RInv, TypeOK

\* The parser's state always has its type: the line is made of tokens,
\* every subject field holds a value of its type's kind (string or int),
\* and rc is one of nv_split's return codes.
THEOREM ParserTypeCorrect == ParserSpec => []TypeOK
<1>1. ParserInit => IInv /\ RInv
  BY InitIInv, InitRInv
<1>2. IInv /\ RInv /\ [ParserNext]_pvars => IInv' /\ RInv'
  BY NextIInv, NextRInv
<1> QED
  BY <1>1, <1>2, InvTypeOK, PTL DEF ParserSpec
=============================================================================
