-------------------------- MODULE RuleStoreProofs ---------------------------
(***************************************************************************)
(* Proofs about RuleStore, for every set of lnode addresses, token set and *)
(* user table.                                                             *)
(*                                                                         *)
(* The argument: every lnode of the heap carries its num, and the nums are *)
(* exactly 0 .. cnt-1, each once. head is the lnode numbered 0 and the     *)
(* next pointer of lnode i is lnode i+1, or NULL for the last one. So the  *)
(* list read from head (Chain) is the lnodes in the order of their nums,   *)
(* its length is cnt, and rules_last returns lnode cnt-1. These facts are  *)
(* stated about nums rather than about Chain because Chain is recursive:   *)
(* LInv is inductive without reading Chain, and ChainShape, proved once by *)
(* a least-counterexample argument, turns it into a statement about Chain. *)
(***************************************************************************)
EXTENDS RuleStore, RuleParserProofs, FiniteSetTheorems, TLAPS

\* The number of lnode addresses; Chain has N + 1 entries.
N == Cardinality(Addrs)

\* The lnode of the heap hp numbered i.
NdOf(hp, i) == CHOOSE a \in DOMAIN hp : hp[a].num = i

\* The list read from hd through the next pointers of hp: Chain of the
\* state whose heap and head are hp and hd.
ChainOf(hp, hd) ==
  LET f[k \in 1..N + 1] ==
        IF k = 1 THEN hd
        ELSE IF f[k - 1] = NULL THEN NULL ELSE hp[f[k - 1]].next
  IN  f

\* A heap hp of c lnodes with head hd is a list numbered 0 .. c-1.
ListShape(hp, hd, c) ==
  /\ c \in Nat
  /\ DOMAIN hp \subseteq Addrs
  /\ \A a \in DOMAIN hp : hp[a].num \in 0..c - 1
  /\ \A a, b \in DOMAIN hp : hp[a].num = hp[b].num => a = b
  /\ \A i \in 0..c - 1 : \E a \in DOMAIN hp : hp[a].num = i
  /\ hd = IF c = 0 THEN NULL ELSE NdOf(hp, 0)
  /\ \A a \in DOMAIN hp :
       hp[a].next = IF hp[a].num = c - 1 THEN NULL ELSE NdOf(hp, hp[a].num + 1)

\* The lnodes of the store.
LNodeT == [rule : NodeT, next : Addrs \cup {NULL}, num : Nat]

(***************************************************************************)
(* The inductive invariant. Besides the parser's own (IInv, RInv) and the  *)
(* list's shape: rules_append runs only while the policy loads, on an      *)
(* lnode that is not in the list; cur is an lnode of the list; and a walk  *)
(* has returned the lnodes 0 .. Len(walked)-1 with cur on the last of      *)
(* them. Before a walk starts, cur is where rules_append left it: on the   *)
(* last lnode.                                                             *)
(***************************************************************************)
SInv ==
  /\ heap \in [DOMAIN heap -> LNodeT]
  /\ ListShape(heap, head, cnt)
  /\ pc # "idle" => phase = "load" /\ newnode \in Addrs \ DOMAIN heap
  /\ newnode \in Addrs \cup {NULL}
  /\ phase \in {"load", "eval"} /\ leak \in BOOLEAN
  /\ cur \in DOMAIN heap \cup {NULL}
  /\ walked \in Seq(Nat)
  /\ phase = "load" => walked = <<>>
  /\ walked = <<>> => (cur # NULL => heap[cur].num = cnt - 1)
  /\ walked # <<>> =>
       /\ \A i \in DOMAIN walked : walked[i] = i - 1
       /\ Len(walked) <= cnt
       /\ cur # NULL => heap[cur].num = Len(walked) - 1
       /\ cur = NULL => Len(walked) = cnt

LInv == IInv /\ RInv /\ SInv

\* The length, the last lnode and the rules of the list of hp from hd: the
\* ListLen, LastNode and AbsRules of a state whose heap and head are hp, hd.
ListLenOf(hp, hd) == Cardinality({k \in 1..N : ChainOf(hp, hd)[k] # NULL})
LastOf(hp, hd) == ChainOf(hp, hd)[ListLenOf(hp, hd)]
AbsOf(hp, hd) ==
  [k \in 1..ListLenOf(hp, hd) |-> [rule |-> hp[ChainOf(hp, hd)[k]].rule,
                                   num |-> hp[ChainOf(hp, hd)[k]].num]]

\* The list numbered 0 .. c-1, in order.
InOrder(hp, c) == [k \in 1..c |-> [rule |-> hp[NdOf(hp, k - 1)].rule, num |-> k - 1]]

-----------------------------------------------------------------------------
(***************************************************************************)
(* Lemmas on lists.                                                        *)
(***************************************************************************)

\* The least-number principle, from the well-foundedness of < on Nat.
LEMMA LeastNat ==
  ASSUME NEW T \in SUBSET Nat, T # {}
  PROVE  \E x \in T : \A y \in T : x <= y
<1>1. \E x \in T : \A y \in T : ~(<<y, x>> \in OpToRel(<, Nat))
  BY NatLessThanWellFounded, WFMin
<1>2. ASSUME NEW x \in Nat, NEW y \in Nat, ~(<<y, x>> \in OpToRel(<, Nat))
      PROVE  x <= y
  <2>1. <<y, x>> \in Nat \X Nat
    OBVIOUS
  <2>2. ~(y < x)
    BY <1>2, <2>1 DEF OpToRel
  <2> QED
    BY <2>2
<1> QED
  BY <1>1, <1>2

LEMMA NAddrs == N \in Nat
BY StoreAssumption, FS_CardinalityType DEF N

\* The lnode numbered i is in the heap and has num i; an lnode is the one
\* numbered with its num.
LEMMA NdOfProps ==
  ASSUME NEW hp, NEW hd, NEW c, ListShape(hp, hd, c)
  PROVE  /\ \A i \in 0..c - 1 : NdOf(hp, i) \in DOMAIN hp /\ hp[NdOf(hp, i)].num = i
         /\ \A a \in DOMAIN hp : NdOf(hp, hp[a].num) = a
<1>1. ASSUME NEW i \in 0..c - 1
      PROVE  NdOf(hp, i) \in DOMAIN hp /\ hp[NdOf(hp, i)].num = i
  BY DEF ListShape, NdOf
<1>2. ASSUME NEW a \in DOMAIN hp PROVE NdOf(hp, hp[a].num) = a
  <2>1. hp[a].num \in 0..c - 1
    BY DEF ListShape
  <2>2. NdOf(hp, hp[a].num) \in DOMAIN hp /\ hp[NdOf(hp, hp[a].num)].num = hp[a].num
    BY <1>1, <2>1
  <2> QED
    BY <2>2 DEF ListShape
<1> QED
  BY <1>1, <1>2

\* A list of c lnodes fits in Addrs: its nums number c distinct addresses.
LEMMA ShapeFits ==
  ASSUME NEW hp, NEW hd, NEW c, ListShape(hp, hd, c)
  PROVE  c <= N
<1> DEFINE f == [i \in 0..c - 1 |-> NdOf(hp, i)]
<1>1. c \in Nat /\ DOMAIN hp \subseteq Addrs
  BY DEF ListShape
<1>2. f \in Injection(0..c - 1, Addrs)
  BY <1>1, NdOfProps DEF Injection, IsInjective
<1>3. Cardinality(0..c - 1) <= Cardinality(Addrs)
  BY <1>2, StoreAssumption, FS_Injection
<1>4. Cardinality(0..c - 1) = c
  BY <1>1, FS_Interval
<1> QED
  BY <1>3, <1>4 DEF N

\* Read from hd, the list of a numbered heap is its lnodes in the order of
\* their nums, then NULL. Chain is the unique function that satisfies its
\* recursive definition; the one given here satisfies it, and two such
\* functions agree at their least point of difference, so there is none.
LEMMA ChainShape ==
  ASSUME NEW hp, NEW hd, NEW c, ListShape(hp, hd, c)
  PROVE  ChainOf(hp, hd) = [k \in 1..N + 1 |-> IF k <= c THEN NdOf(hp, k - 1) ELSE NULL]
<1> DEFINE g == [k \in 1..N + 1 |-> IF k <= c THEN NdOf(hp, k - 1) ELSE NULL]
           B(f) == [k \in 1..N + 1 |->
                      IF k = 1 THEN hd
                      ELSE IF f[k - 1] = NULL THEN NULL ELSE hp[f[k - 1]].next]
           F == ChainOf(hp, hd)
<1>1. c \in Nat /\ N \in Nat /\ c <= N
  BY ShapeFits, NAddrs DEF ListShape
<1>2. /\ \A i \in 0..c - 1 : NdOf(hp, i) \in DOMAIN hp /\ hp[NdOf(hp, i)].num = i
      /\ \A i \in 0..c - 1 : NdOf(hp, i) # NULL
  <2>1. \A i \in 0..c - 1 : NdOf(hp, i) \in DOMAIN hp /\ hp[NdOf(hp, i)].num = i
    BY NdOfProps
  <2>2. DOMAIN hp \subseteq Addrs /\ NULL \notin Addrs
    BY StoreAssumption DEF ListShape
  <2> QED
    BY <2>1, <2>2
<1>3. g = B(g)
  <2> SUFFICES ASSUME NEW k \in 1..N + 1 PROVE g[k] = B(g)[k]
    OBVIOUS
  <2>1. CASE k = 1
    BY <1>1, <2>1 DEF ListShape
  <2>2. CASE k > 1 /\ k - 1 > c
    BY <1>1, <2>2
  <2>3. CASE k > 1 /\ k - 1 <= c
    <3> DEFINE a == NdOf(hp, k - 2)
    <3>1. g[k - 1] = a /\ a # NULL /\ a \in DOMAIN hp /\ hp[a].num = k - 2
      BY <1>1, <1>2, <2>3
    <3>2. hp[a].next = IF k - 2 = c - 1 THEN NULL ELSE NdOf(hp, k - 1)
      BY <3>1 DEF ListShape
    <3> QED
      BY <1>1, <2>3, <3>1, <3>2
  <2> QED
    BY <1>1, <2>1, <2>2, <2>3
<1>4. F = B(F)
  BY <1>3 DEF ChainOf
<1>5. SUFFICES ASSUME F # g PROVE FALSE
  OBVIOUS
<1> DEFINE T == {k \in 1..N + 1 : F[k] # g[k]}
<1>6. T # {} /\ T \in SUBSET Nat
  <2>1. F = [k \in 1..N + 1 |-> F[k]] /\ g = [k \in 1..N + 1 |-> g[k]]
    BY <1>4
  <2>2. \E k \in 1..N + 1 : F[k] # g[k]
    BY <1>5, <2>1
  <2> QED
    BY <1>1, <2>2
<1>7. PICK x \in T : \A y \in T : x <= y
  BY <1>6, LeastNat
<1>8. x # 1
  BY <1>3, <1>4
<1>9. x - 1 \in 1..N + 1 /\ F[x - 1] = g[x - 1]
  BY <1>1, <1>7, <1>8
<1>10. F[x] = B(F)[x] /\ g[x] = B(g)[x]
  BY <1>3, <1>4
<1>11. B(F)[x] = B(g)[x]
  BY <1>1, <1>8, <1>9
<1> QED
  BY <1>7, <1>10, <1>11

\* So the list has cnt lnodes, rules_last finds lnode cnt-1, and the rules
\* read from head are the rules in the order of their nums.
LEMMA ListOfShape ==
  ASSUME NEW hp, NEW hd, NEW c, ListShape(hp, hd, c)
  PROVE  /\ ListLenOf(hp, hd) = c
         /\ c >= 1 => LastOf(hp, hd) = NdOf(hp, c - 1)
         /\ AbsOf(hp, hd) = InOrder(hp, c)
<1>1. c \in Nat /\ N \in Nat /\ c <= N
  BY ShapeFits, NAddrs DEF ListShape
<1>2. ChainOf(hp, hd) = [k \in 1..N + 1 |-> IF k <= c THEN NdOf(hp, k - 1) ELSE NULL]
  BY ChainShape
<1>3. \A i \in 0..c - 1 : NdOf(hp, i) \in DOMAIN hp /\ hp[NdOf(hp, i)].num = i
  BY NdOfProps
<1>4. \A i \in 0..c - 1 : NdOf(hp, i) # NULL
  BY <1>3, StoreAssumption DEF ListShape
<1>5. {k \in 1..N : ChainOf(hp, hd)[k] # NULL} = 1..c
  BY <1>1, <1>2, <1>4
<1>6. ListLenOf(hp, hd) = c
  <2>1. Cardinality(1..c) = c
    BY <1>1, FS_Interval
  <2> QED
    BY <1>5, <2>1 DEF ListLenOf
<1>7. c >= 1 => LastOf(hp, hd) = NdOf(hp, c - 1)
  BY <1>1, <1>2, <1>6 DEF LastOf
<1>8. AbsOf(hp, hd) = InOrder(hp, c)
  BY <1>1, <1>2, <1>3, <1>6 DEF AbsOf, InOrder
<1> QED
  BY <1>6, <1>7, <1>8

\* An lnode is the one numbered with its num.
LEMMA NdOfIs ==
  ASSUME NEW hp, NEW hd, NEW c, ListShape(hp, hd, c),
         NEW a \in DOMAIN hp, NEW i, hp[a].num = i
  PROVE  NdOf(hp, i) = a
BY NdOfProps

\* A heap with the same lnodes, nums and next pointers is the same list
\* (rules_unsupport_audit rewrites only the rules).
LEMMA SameNums ==
  ASSUME NEW hp, NEW hp2, NEW hd, NEW c, ListShape(hp, hd, c),
         DOMAIN hp2 = DOMAIN hp,
         \A a \in DOMAIN hp : hp2[a].num = hp[a].num /\ hp2[a].next = hp[a].next
  PROVE  /\ \A i \in 0..c - 1 : NdOf(hp2, i) = NdOf(hp, i)
         /\ ListShape(hp2, hd, c)
<1>1. \A i \in 0..c - 1 : NdOf(hp2, i) = NdOf(hp, i)
  <2> SUFFICES ASSUME NEW i \in 0..c - 1 PROVE NdOf(hp2, i) = NdOf(hp, i)
    OBVIOUS
  <2>1. NdOf(hp, i) \in DOMAIN hp /\ hp[NdOf(hp, i)].num = i
    BY NdOfProps
  <2>2. NdOf(hp2, i) \in DOMAIN hp /\ hp[NdOf(hp2, i)].num = i
    BY <2>1 DEF NdOf
  <2> QED
    BY <2>2, NdOfIs
<1>2. c \in Nat
  BY DEF ListShape
<1>3. \A a \in DOMAIN hp : hp[a].num # c - 1 => hp[a].num + 1 \in 0..c - 1
  BY <1>2 DEF ListShape
<1> QED
  BY <1>1, <1>3 DEF ListShape

\* The list functions of RuleStore are those of its heap and head.
LEMMA Bridge ==
  /\ Chain = ChainOf(heap, head)
  /\ ListLen = ListLenOf(heap, head)
  /\ LastNode = LastOf(heap, head)
  /\ AbsRules = AbsOf(heap, head)
BY DEF Chain, ChainOf, ListLen, ListLenOf, LastNode, LastOf, AbsRules, AbsOf, N

LEMMA BridgePrime ==
  /\ Chain' = ChainOf(heap', head')
  /\ ListLen' = ListLenOf(heap', head')
  /\ AbsRules' = AbsOf(heap', head')
BY DEF Chain, ChainOf, ListLen, ListLenOf, AbsRules, AbsOf, N

\* The heap h with the lnode n allocated at a (rules_append's malloc).
AllocOf(h, a, n) == [x \in DOMAIN h \cup {a} |-> IF x = a THEN n ELSE h[x]]

\* rules_append on a numbered list: a heap hp2 that adds a fresh lnode a
\* numbered c, links it after lnode c-1 (or makes it the head of the empty
\* list) and leaves every other rule, num and next pointer is a list
\* numbered 0 .. c whose first c rules are the old ones, in order, and
\* whose last is r.
LEMMA AppendShape ==
  ASSUME NEW hp, NEW hd, NEW c, ListShape(hp, hd, c),
         NEW a \in Addrs \ DOMAIN hp, NEW r, NEW hp2, NEW hd2,
         DOMAIN hp2 = DOMAIN hp \cup {a},
         hp2[a] = [rule |-> r, next |-> NULL, num |-> c],
         \A b \in DOMAIN hp :
           /\ hp2[b].rule = hp[b].rule /\ hp2[b].num = hp[b].num
           /\ hp2[b].next = IF c >= 1 /\ b = NdOf(hp, c - 1) THEN a ELSE hp[b].next,
         hd2 = IF c = 0 THEN a ELSE hd
  PROVE  /\ ListShape(hp2, hd2, c + 1)
         /\ NdOf(hp2, c) = a
         /\ \A k \in 1..c : InOrder(hp2, c + 1)[k] = InOrder(hp, c)[k]
         /\ InOrder(hp2, c + 1)[c + 1] = [rule |-> r, num |-> c]
<1> DEFINE L == NdOf(hp, c - 1)
<1>1. /\ c \in Nat /\ DOMAIN hp \subseteq Addrs /\ a # NULL
      /\ \A b \in DOMAIN hp : hp[b].num \in 0..c - 1
  BY StoreAssumption DEF ListShape
<1>2. c >= 1 => L \in DOMAIN hp /\ hp[L].num = c - 1
  BY <1>1, NdOfProps
<1>3. \A i \in 0..c - 1 : NdOf(hp2, i) = NdOf(hp, i)
  <2> SUFFICES ASSUME NEW i \in 0..c - 1 PROVE NdOf(hp2, i) = NdOf(hp, i)
    OBVIOUS
  <2>1. NdOf(hp, i) \in DOMAIN hp /\ hp[NdOf(hp, i)].num = i
    BY NdOfProps
  <2>2. NdOf(hp2, i) \in DOMAIN hp2 /\ hp2[NdOf(hp2, i)].num = i
    BY <2>1 DEF NdOf
  <2>3. NdOf(hp2, i) \in DOMAIN hp /\ hp[NdOf(hp2, i)].num = i
    BY <1>1, <2>2
  <2> QED
    BY <2>3, NdOfIs
<1>4. NdOf(hp2, c) = a
  <2>1. NdOf(hp2, c) \in DOMAIN hp2 /\ hp2[NdOf(hp2, c)].num = c
    BY DEF NdOf
  <2> QED
    BY <1>1, <2>1
<1>5. ListShape(hp2, hd2, c + 1)
  <2>1. \A b \in DOMAIN hp2 : hp2[b].num \in 0..c
    BY <1>1
  <2>2. \A b1, b2 \in DOMAIN hp2 : hp2[b1].num = hp2[b2].num => b1 = b2
    BY <1>1 DEF ListShape
  <2>3. \A i \in 0..c : \E b \in DOMAIN hp2 : hp2[b].num = i
    BY <1>1, <1>3, NdOfProps
  <2>4. hd2 = NdOf(hp2, 0)
    <3>1. CASE c = 0
      BY <1>4, <3>1
    <3>2. CASE c >= 1
      BY <1>1, <1>3, <3>2 DEF ListShape
    <3> QED
      BY <1>1, <3>1, <3>2
  <2>5. ASSUME NEW b \in DOMAIN hp2
        PROVE  hp2[b].next = IF hp2[b].num = c THEN NULL ELSE NdOf(hp2, hp2[b].num + 1)
    <3>1. CASE b = a
      BY <3>1
    <3>2. CASE b # a /\ c >= 1 /\ b = L
      <4>1. hp2[b].next = a /\ hp2[b].num = c - 1
        BY <1>2, <3>2
      <4>2. c - 1 # c /\ c - 1 + 1 = c
        BY <1>1
      <4> QED
        BY <1>4, <4>1, <4>2
    <3>3. CASE b # a /\ ~(c >= 1 /\ b = L)
      <4>1. b \in DOMAIN hp /\ hp2[b].next = hp[b].next /\ hp2[b].num = hp[b].num
        BY <3>3
      <4>2. hp[b].num # c - 1
        BY <4>1, <3>3, NdOfIs, <1>1
      <4>3. hp[b].next = NdOf(hp, hp[b].num + 1) /\ hp[b].num + 1 \in 0..c - 1
        BY <1>1, <4>1, <4>2 DEF ListShape
      <4> QED
        BY <1>1, <1>3, <4>1, <4>3
    <3> QED
      BY <3>1, <3>2, <3>3
  <2> QED
    BY <1>1, <2>1, <2>2, <2>3, <2>4, <2>5 DEF ListShape
<1>6. \A k \in 1..c : InOrder(hp2, c + 1)[k] = InOrder(hp, c)[k]
  <2> SUFFICES ASSUME NEW k \in 1..c PROVE InOrder(hp2, c + 1)[k] = InOrder(hp, c)[k]
    OBVIOUS
  <2>1. NdOf(hp2, k - 1) = NdOf(hp, k - 1) /\ NdOf(hp, k - 1) \in DOMAIN hp
    BY <1>1, <1>3, NdOfProps
  <2> QED
    BY <1>1, <2>1 DEF InOrder
<1>7. InOrder(hp2, c + 1)[c + 1] = [rule |-> r, num |-> c]
  BY <1>1, <1>4 DEF InOrder
<1> QED
  BY <1>4, <1>5, <1>6, <1>7

-----------------------------------------------------------------------------
(***************************************************************************)
(* LInv is inductive: one lemma per action of RuleStore.                   *)
(***************************************************************************)

\* rules_create: the empty list, nothing walked, the parser between calls.
LEMMA InitLInv == Init => LInv
<1> SUFFICES ASSUME Init PROVE LInv
  OBVIOUS
<1>1. NewNode \in NodeT /\ Len(NewNode.s) = 0 /\ Len(NewNode.o) = 0
  BY EmptySeq DEF NewNode, NodeT, Decisions, Accesses
<1>2. IInv
  BY <1>1, EmptySeq, ParserAssumption DEF Init, IInv, FieldsOk, NewNode, Budget
<1>3. RInv
  BY DEF Init, RInv
<1>4. SInv
  <2>1. DOMAIN heap = {} /\ heap = [x \in {} |-> NULL]
    BY DEF Init
  <2>2. heap \in [DOMAIN heap -> LNodeT]
    BY <2>1
  <2>3. ListShape(heap, head, cnt)
    BY <2>1 DEF Init, ListShape
  <2>4. walked \in Seq(Nat)
    BY EmptySeq DEF Init
  <2> QED
    BY <2>1, <2>2, <2>3, <2>4 DEF Init, SInv
<1> QED
  BY <1>2, <1>3, <1>4 DEF LInv

\* rules_append up to nv_split: the parser starts on a fresh line, and the
\* lnode being filled is not in the list.
LEMMA AppendStartLInv == LInv /\ RulesAppendStart => LInv'
<1> SUFFICES ASSUME LInv, RulesAppendStart PROVE LInv'
  OBVIOUS
<1>1. PICK a \in Addrs \ DOMAIN heap, l \in Lines :
        /\ newnode' = a
        /\ line' = l /\ pos' = 0 /\ pc' = "split" /\ fmt' = "ORIG"
        /\ pstate' = 0 /\ node' = NewNode /\ rc' = 0
  BY DEF RulesAppendStart
<1>2. IInv'
  <2>1. PICK k \in 0..MaxLen : line' \in [1..k -> Tokens]
    BY <1>1 DEF Lines
  <2>2. line' \in Seq(Tokens)
    BY <2>1, SeqDef, ParserAssumption
  <2>3. Len(line') = k
    BY <2>1, <2>2, LenProperties
  <2>4. NewNode \in NodeT /\ Len(NewNode.s) = 0 /\ Len(NewNode.o) = 0
    BY EmptySeq DEF NewNode, NodeT, Decisions, Accesses
  <2> QED
    BY <1>1, <2>1, <2>2, <2>3, <2>4, ParserAssumption
    DEF IInv, FieldsOk, NewNode, Budget
<1>3. RInv'
  BY <1>1 DEF RInv
<1>4. SInv'
  BY <1>1 DEF RulesAppendStart, LInv, SInv
<1> QED
  BY <1>2, <1>3, <1>4 DEF LInv

\* A step of nv_split keeps the parser's invariants and leaves the list.
LEMMA ParseLInv == LInv /\ Parse => LInv'
<1> SUFFICES ASSUME LInv, Parse PROVE LInv'
  OBVIOUS
<1>1. [ParserNext]_pvars /\ UNCHANGED svars
  BY DEF Parse, ParserNext
<1>2. IInv' /\ RInv'
  BY <1>1, NextIInv, NextRInv DEF LInv
<1>3. pc # "idle"
  BY <1>1 DEF Parse, ParseStep, NvSplitStart, NvSplitLoop, ParseNewFormat, FinishUp
<1>4. SInv'
  BY <1>1, <1>3 DEF LInv, SInv, svars
<1> QED
  BY <1>2, <1>4 DEF LInv

\* The decision thread starts once the parser is between calls.
LEMMA StartEvalLInv == LInv /\ StartEval => LInv'
<1> SUFFICES ASSUME LInv, StartEval PROVE LInv'
  OBVIOUS
<1>1. IInv' /\ RInv'
  BY DEF StartEval, LInv, IInv, RInv, pvars
<1>2. SInv'
  <2>1. pc = "idle" /\ phase = "load" /\ phase' = "eval"
        /\ UNCHANGED <<pc, heap, head, cur, cnt, newnode, leak, walked>>
    BY DEF StartEval, pvars
  <2> QED
    BY <2>1 DEF LInv, SInv
<1> QED
  BY <1>1, <1>2 DEF LInv

\* rules_append after a parse that succeeded: the list gains the parsed
\* node as lnode cnt, after the lnode rules_last returns, and its first cnt
\* rules are unchanged.
LEMMA AppendEndFacts ==
  ASSUME LInv, RulesAppendEnd, rc = 0
  PROVE  /\ heap' \in [DOMAIN heap' -> LNodeT]
         /\ DOMAIN heap' = DOMAIN heap \cup {newnode}
         /\ ListShape(heap', head', cnt')
         /\ cnt' = cnt + 1 /\ cur' = newnode /\ heap'[newnode].num = cnt
         /\ \A k \in 1..cnt : InOrder(heap', cnt')[k] = InOrder(heap, cnt)[k]
         /\ InOrder(heap', cnt')[cnt + 1] = [rule |-> node, num |-> cnt]
<1> DEFINE n   == [rule |-> node, next |-> NULL, num |-> cnt]
           L   == NdOf(heap, cnt - 1)
           hpx == IF head = NULL THEN heap ELSE [heap EXCEPT ![L].next = newnode]
<1>1. /\ node \in NodeT /\ pc = "done"
      /\ heap \in [DOMAIN heap -> LNodeT] /\ ListShape(heap, head, cnt)
      /\ newnode \in Addrs \ DOMAIN heap /\ cnt \in Nat
  BY DEF RulesAppendEnd, LInv, IInv, SInv, ListShape
<1>2. head = NULL <=> cnt = 0
  <2>1. cnt # 0 => NdOf(heap, 0) \in DOMAIN heap
    BY <1>1, NdOfProps
  <2> QED
    BY <1>1, <2>1, StoreAssumption DEF ListShape
<1>3. head # NULL => LastNode = L
  BY <1>1, <1>2, Bridge, ListOfShape
<1>4. /\ heap' = AllocOf(hpx, newnode, n)
      /\ head' = IF cnt = 0 THEN newnode ELSE head
      /\ cur' = newnode /\ cnt' = cnt + 1
  BY <1>2, <1>3 DEF RulesAppendEnd, AllocOf
<1>5. /\ DOMAIN hpx = DOMAIN heap
      /\ \A b \in DOMAIN heap :
           /\ hpx[b] \in LNodeT
           /\ hpx[b].rule = heap[b].rule /\ hpx[b].num = heap[b].num
           /\ hpx[b].next = IF cnt >= 1 /\ b = L THEN newnode ELSE heap[b].next
  <2>1. CASE cnt = 0
    BY <1>1, <1>2, <2>1
  <2>2. CASE cnt >= 1
    BY <1>1, <1>2, <2>2 DEF LNodeT
  <2> QED
    BY <1>1, <2>1, <2>2
<1>6. /\ DOMAIN heap' = DOMAIN heap \cup {newnode}
      /\ heap'[newnode] = n
      /\ \A b \in DOMAIN heap : heap'[b] = hpx[b]
      /\ heap' \in [DOMAIN heap' -> LNodeT]
  <2>1. n \in LNodeT
    BY <1>1 DEF LNodeT
  <2> QED
    BY <1>1, <1>4, <1>5, <2>1 DEF AllocOf
<1> HIDE DEF hpx
<1>7. /\ ListShape(heap', head', cnt + 1)
      /\ \A k \in 1..cnt : InOrder(heap', cnt + 1)[k] = InOrder(heap, cnt)[k]
      /\ InOrder(heap', cnt + 1)[cnt + 1] = [rule |-> node, num |-> cnt]
  <2>1. \A b \in DOMAIN heap :
          /\ heap'[b].rule = heap[b].rule /\ heap'[b].num = heap[b].num
          /\ heap'[b].next = IF cnt >= 1 /\ b = NdOf(heap, cnt - 1)
                             THEN newnode ELSE heap[b].next
    BY <1>5, <1>6
  <2>2. heap'[newnode] = [rule |-> node, next |-> NULL, num |-> cnt]
    BY <1>6
  <2>3. head' = IF cnt = 0 THEN newnode ELSE head
    BY <1>4
  <2>4. newnode \in Addrs \ DOMAIN heap /\ ListShape(heap, head, cnt)
        /\ DOMAIN heap' = DOMAIN heap \cup {newnode}
    BY <1>1, <1>6
  <2> HIDE DEF n, L
  <2> QED
    BY <2>1, <2>2, <2>3, <2>4, AppendShape
<1> QED
  BY <1>4, <1>6, <1>7

\* rules_append after nv_split returned: on an error the list is left as it
\* was; else the parsed node becomes lnode cnt and cur points at it.
LEMMA AppendEndLInv == LInv /\ RulesAppendEnd => LInv'
<1> SUFFICES ASSUME LInv, RulesAppendEnd PROVE LInv'
  OBVIOUS
<1>1. /\ pc = "done" /\ pc' = "idle" /\ newnode' = NULL
      /\ UNCHANGED <<line, pos, fmt, pstate, node, rc, phase, walked>>
  BY DEF RulesAppendEnd
<1>2. IInv' /\ RInv'
  BY <1>1 DEF LInv, IInv, RInv
<1>3. phase = "load" /\ walked = <<>> /\ newnode \in Addrs \ DOMAIN heap
  BY <1>1 DEF LInv, SInv
<1>4. CASE rc # 0
  <2>1. UNCHANGED <<heap, head, cur, cnt>> /\ leak' \in BOOLEAN
    BY <1>4 DEF RulesAppendEnd
  <2> QED
    BY <1>1, <1>2, <2>1 DEF LInv, SInv
<1>5. CASE rc = 0
  <2>1. /\ heap' \in [DOMAIN heap' -> LNodeT]
        /\ DOMAIN heap' = DOMAIN heap \cup {newnode}
        /\ ListShape(heap', head', cnt')
        /\ cnt' = cnt + 1 /\ cur' = newnode /\ heap'[newnode].num = cnt
    BY <1>5, AppendEndFacts
  <2>2. leak' = leak
    BY <1>5 DEF RulesAppendEnd
  <2>3. walked' = <<>> /\ walked' \in Seq(Nat) /\ cnt \in Nat
    BY <1>1, <1>3, EmptySeq DEF LInv, SInv, ListShape
  <2> QED
    BY <1>1, <1>2, <2>1, <2>2, <2>3 DEF LInv, SInv
<1> QED
  BY <1>4, <1>5

\* rules_unsupport_audit clears the AUDIT bit of one lnode's rule and
\* leaves its next pointer and num.
LEMMA AuditNode ==
  ASSUME RulesUnsupportAudit, heap \in [DOMAIN heap -> LNodeT],
         NEW a \in DOMAIN heap
  PROVE  /\ heap'[a] = [rule |-> [heap[a].rule EXCEPT !.d = Abs!NoAudit(heap[a].rule.d)],
                        next |-> heap[a].next, num |-> heap[a].num]
         /\ heap'[a] \in LNodeT
<1>1. heap[a] \in LNodeT
  OBVIOUS
<1>2. heap'[a] = [rule |-> [heap[a].rule EXCEPT !.d = Abs!NoAudit(heap[a].rule.d)],
                  next |-> heap[a].next, num |-> heap[a].num]
  <2>1. heap'[a] = [heap[a] EXCEPT !.rule.d = Abs!NoAudit(heap[a].rule.d)]
    BY DEF RulesUnsupportAudit, Abs!NoAudit
  <2>2. heap[a] = [rule |-> heap[a].rule, next |-> heap[a].next, num |-> heap[a].num]
    BY <1>1 DEF LNodeT
  <2> QED
    BY <2>1, <2>2
<1>3. heap[a].rule.d \in Decisions \cup {NONE}
  BY <1>1 DEF LNodeT, NodeT
<1>4. Abs!NoAudit(heap[a].rule.d) \in Decisions \cup {NONE}
  BY <1>3 DEF Abs!NoAudit, Decisions
<1>5. [heap[a].rule EXCEPT !.d = Abs!NoAudit(heap[a].rule.d)] \in NodeT
  BY <1>1, <1>4 DEF LNodeT, NodeT
<1> QED
  BY <1>1, <1>2, <1>5 DEF LNodeT

\* rules_unsupport_audit rewrites rules only: the lnodes, their nums and
\* next pointers are those of the list before.
LEMMA AuditLInv == LInv /\ RulesUnsupportAudit => LInv'
<1> SUFFICES ASSUME LInv, RulesUnsupportAudit PROVE LInv'
  OBVIOUS
<1>1. /\ heap \in [DOMAIN heap -> LNodeT] /\ ListShape(heap, head, cnt)
      /\ pc = "idle" /\ DOMAIN heap' = DOMAIN heap
      /\ UNCHANGED <<pvars, head, cur, cnt, newnode, phase, leak, walked>>
  BY DEF RulesUnsupportAudit, LInv, SInv
<1>2. \A a \in DOMAIN heap : /\ heap'[a].num = heap[a].num
                             /\ heap'[a].next = heap[a].next
                             /\ heap'[a] \in LNodeT
  BY <1>1, AuditNode
<1>3. ListShape(heap', head', cnt')
  BY <1>1, <1>2, SameNums
<1>4. IInv' /\ RInv'
  BY <1>1 DEF LInv, IInv, RInv, pvars
<1>5. heap' \in [DOMAIN heap' -> LNodeT]
  BY <1>1, <1>2 DEF RulesUnsupportAudit
<1>6. SInv'
  <2>1. SInv
    BY DEF LInv
  <2>2. cur' \in DOMAIN heap' \cup {NULL}
    BY <1>1, <2>1 DEF SInv
  <2>3. cur # NULL => heap'[cur'].num = heap[cur].num
    BY <1>1, <1>2, <2>1 DEF SInv
  <2> QED
    BY <1>1, <1>3, <1>5, <2>1, <2>2, <2>3 DEF SInv, pvars
<1> QED
  BY <1>4, <1>6 DEF LInv

\* rules_first: cur is the head, lnode 0, and the walk has returned it.
LEMMA FirstLInv == LInv /\ RulesFirst => LInv'
<1> SUFFICES ASSUME LInv, RulesFirst PROVE LInv'
  OBVIOUS
<1>1. /\ phase = "eval" /\ cur' = head
      /\ walked' = IF head = NULL THEN <<>> ELSE <<heap[head].num>>
      /\ UNCHANGED <<pvars, heap, head, cnt, newnode, phase, leak>>
  BY DEF RulesFirst
<1>2. IInv' /\ RInv'
  BY <1>1 DEF LInv, IInv, RInv, pvars
<1>3. ListShape(heap, head, cnt) /\ cnt \in Nat /\ SInv
  BY DEF LInv, SInv, ListShape
<1>4. CASE head = NULL
  <2>1. walked' = <<>> /\ cur' = NULL /\ walked' \in Seq(Nat)
    BY <1>1, <1>4, EmptySeq
  <2> QED
    BY <1>1, <1>2, <1>3, <2>1 DEF LInv, SInv, pvars
<1>5. CASE head # NULL
  <2>1. cnt >= 1 /\ head = NdOf(heap, 0)
    BY <1>3, <1>5 DEF ListShape
  <2>2. head \in DOMAIN heap /\ heap[head].num = 0
    BY <1>3, <2>1, NdOfProps
  <2>3. walked' = <<0>>
    BY <1>1, <1>5, <2>2
  <2>4. /\ walked' \in Seq(Nat) /\ walked' # <<>> /\ Len(walked') = 1
        /\ \A i \in DOMAIN walked' : walked'[i] = i - 1
    BY <2>3
  <2> QED
    BY <1>1, <1>2, <1>3, <2>1, <2>2, <2>4 DEF LInv, SInv, pvars
<1> QED
  BY <1>4, <1>5

\* rules_next: cur moves to the lnode numbered one more, which the walk
\* returns, or to NULL after the last lnode, and the walk is complete.
LEMMA NextNodeLInv == LInv /\ RulesNext => LInv'
<1> SUFFICES ASSUME LInv, RulesNext PROVE LInv'
  OBVIOUS
<1> DEFINE m == heap[cur].num
<1>1. /\ phase = "eval" /\ cur # NULL /\ cur' = heap[cur].next
      /\ walked' = IF heap[cur].next = NULL THEN walked
                   ELSE Append(walked, heap[heap[cur].next].num)
      /\ UNCHANGED <<pvars, heap, head, cnt, newnode, phase, leak>>
  BY DEF RulesNext
<1>2. IInv' /\ RInv'
  BY <1>1 DEF LInv, IInv, RInv, pvars
<1>3. /\ SInv /\ ListShape(heap, head, cnt) /\ cnt \in Nat /\ cur \in DOMAIN heap
      /\ m \in 0..cnt - 1 /\ walked \in Seq(Nat)
      /\ heap[cur].next = IF m = cnt - 1 THEN NULL ELSE NdOf(heap, m + 1)
  BY <1>1 DEF LInv, SInv, ListShape
<1>4. CASE m = cnt - 1
  <2>1. cur' = NULL /\ walked' = walked
    BY <1>1, <1>3, <1>4
  <2>2. walked # <<>> => Len(walked) = cnt
    BY <1>1, <1>3, <1>4 DEF SInv
  <2> QED
    BY <1>1, <1>2, <1>3, <2>1, <2>2 DEF LInv, SInv, pvars
<1>5. CASE m # cnt - 1
  <2>1. walked # <<>> /\ m = Len(walked) - 1
    BY <1>1, <1>3, <1>5 DEF SInv
  <2>2. /\ cur' = NdOf(heap, m + 1) /\ cur' # NULL /\ cur' \in DOMAIN heap
        /\ heap[cur'].num = m + 1
    <3>1. m + 1 \in 0..cnt - 1
      BY <1>3, <1>5
    <3>2. NdOf(heap, m + 1) \in DOMAIN heap /\ heap[NdOf(heap, m + 1)].num = m + 1
      BY <1>3, <3>1, NdOfProps
    <3>3. cur' = NdOf(heap, m + 1)
      BY <1>1, <1>3, <1>5
    <3>4. NdOf(heap, m + 1) # NULL
      BY <1>3, <3>2, StoreAssumption DEF ListShape
    <3> QED
      BY <3>2, <3>3, <3>4
  <2>3. walked' = Append(walked, Len(walked))
    BY <1>1, <2>1, <2>2
  <2>4. /\ walked' \in Seq(Nat) /\ walked' # <<>>
        /\ Len(walked') = Len(walked) + 1 /\ Len(walked) + 1 <= cnt
        /\ \A i \in DOMAIN walked' : walked'[i] = i - 1
    <3>1. Len(walked) \in Nat /\ Len(walked) <= cnt - 1
      BY <1>3, <1>5, <2>1
    <3>2. \A i \in DOMAIN walked : walked[i] = i - 1
      BY <1>3, <2>1 DEF SInv
    <3> QED
      BY <1>3, <2>3, <3>1, <3>2, AppendProperties
  <2> QED
    BY <1>1, <1>2, <1>3, <2>1, <2>2, <2>4 DEF LInv, SInv, pvars
<1> QED
  BY <1>4, <1>5

\* rules_clear: the empty list, nothing walked, the policy loads again.
LEMMA ClearLInv == LInv /\ RulesClear => LInv'
<1> SUFFICES ASSUME LInv, RulesClear PROVE LInv'
  OBVIOUS
<1>1. /\ pc = "idle" /\ heap' = <<>> /\ head' = NULL /\ cur' = NULL /\ cnt' = 0
      /\ phase' = "load" /\ walked' = <<>>
      /\ UNCHANGED <<pvars, newnode, leak>>
  BY DEF RulesClear
<1>2. IInv' /\ RInv'
  BY <1>1 DEF LInv, IInv, RInv, pvars
<1>3. DOMAIN heap' = {} /\ heap' = [x \in {} |-> NULL]
  BY <1>1
<1>4. ListShape(heap', head', cnt')
  BY <1>1, <1>3 DEF ListShape
<1>5. walked' \in Seq(Nat)
  BY <1>1, EmptySeq
<1> QED
  BY <1>1, <1>2, <1>3, <1>4, <1>5 DEF LInv, SInv, pvars

\* LInv is inductive.
LEMMA NextLInv == LInv /\ [Next]_vars => LInv'
<1> SUFFICES ASSUME LInv, [Next]_vars PROVE LInv'
  OBVIOUS
<1>1. CASE UNCHANGED vars
  <2>1. UNCHANGED <<line, pos, pc, fmt, pstate, node, rc>>
        /\ UNCHANGED <<heap, head, cur, cnt, newnode, phase, leak, walked>>
    BY <1>1 DEF vars, pvars, svars
  <2>2. IInv' /\ RInv'
    BY <2>1 DEF LInv, IInv, RInv
  <2>3. SInv'
    BY <2>1 DEF LInv, SInv
  <2> QED
    BY <2>2, <2>3 DEF LInv
<1>2. CASE RulesAppendStart
  BY <1>2, AppendStartLInv
<1>3. CASE Parse
  BY <1>3, ParseLInv
<1>4. CASE RulesAppendEnd
  BY <1>4, AppendEndLInv
<1>5. CASE StartEval
  BY <1>5, StartEvalLInv
<1>6. CASE RulesUnsupportAudit
  BY <1>6, AuditLInv
<1>7. CASE RulesFirst
  BY <1>7, FirstLInv
<1>8. CASE RulesNext
  BY <1>8, NextNodeLInv
<1>9. CASE RulesClear
  BY <1>9, ClearLInv
<1> QED
  BY <1>1, <1>2, <1>3, <1>4, <1>5, <1>6, <1>7, <1>8, <1>9 DEF Next

-----------------------------------------------------------------------------
(***************************************************************************)
(* The store's invariants.                                                 *)
(***************************************************************************)

\* Every state of the store satisfies LInv.
LEMMA StoreInvariant == Spec => []LInv
BY InitLInv, NextLInv, PTL DEF Spec

\* The type invariant of the store: the parser's state has its type, every
\* pointer (head, cur, each next) is NULL or an allocated lnode, and cnt is
\* a count.
THEOREM StoreTypeCorrect == Spec => []StoreTypeOK
<1>1. LInv => StoreTypeOK
  <2> SUFFICES ASSUME LInv PROVE StoreTypeOK
    OBVIOUS
  <2>1. TypeOK
    BY InvTypeOK DEF LInv
  <2>2. /\ ListShape(heap, head, cnt) /\ cnt \in Nat /\ SInv
    BY DEF LInv, SInv, ListShape
  <2>3. head \in DOMAIN heap \cup {NULL}
    <3>1. cnt # 0 => NdOf(heap, 0) \in DOMAIN heap
      BY <2>2, NdOfProps
    <3> QED
      BY <2>2, <3>1 DEF ListShape
  <2>4. ASSUME NEW a \in DOMAIN heap PROVE heap[a].next \in DOMAIN heap \cup {NULL}
    <3>1. heap[a].num \in 0..cnt - 1
      BY <2>2 DEF ListShape
    <3>2. heap[a].num # cnt - 1 => NdOf(heap, heap[a].num + 1) \in DOMAIN heap
      BY <2>2, <3>1, NdOfProps
    <3> QED
      BY <2>2, <3>2 DEF ListShape
  <2> QED
    BY <2>1, <2>2, <2>3, <2>4 DEF SInv, ListShape, StoreTypeOK
<1> QED
  BY <1>1, StoreInvariant, PTL

\* The list read from head has cnt lnodes.
LEMMA ListLenIsCnt == LInv => ListLen = cnt /\ AbsRules = InOrder(heap, cnt)
<1> SUFFICES ASSUME LInv PROVE ListLen = cnt /\ AbsRules = InOrder(heap, cnt)
  OBVIOUS
<1>1. ListShape(heap, head, cnt)
  BY DEF LInv, SInv
<1> QED
  BY <1>1, Bridge, ListOfShape

\* spec 4.2, for every set of lnode addresses: a walk with rules_first and
\* rules_next returns the rules in the order of their nums 0, 1, 2, ...,
\* each once, with cur on the last one returned, and ends only after the
\* last rule of the list.
THEOREM WalkInOrder == Spec => []WalkFollowsStore
<1>1. LInv => WalkFollowsStore
  BY ListLenIsCnt DEF LInv, SInv, WalkFollowsStore
<1> QED
  BY <1>1, StoreInvariant, PTL

-----------------------------------------------------------------------------
(***************************************************************************)
(* The refinement: RuleStore implements RuleSeq under AbsRules, the rules  *)
(* of the list read from head. By ListLenIsCnt, AbsRules is the list in    *)
(* the order of the nums, so each step is checked on InOrder.              *)
(***************************************************************************)

\* The elements of RuleSeq's sequence.
RecT == [rule : NodeT, num : Nat]

\* The rules of a numbered list form a sequence of c elements.
LEMMA InOrderSeq ==
  ASSUME NEW hp, NEW hd, NEW c, ListShape(hp, hd, c), hp \in [DOMAIN hp -> LNodeT]
  PROVE  InOrder(hp, c) \in Seq(RecT) /\ Len(InOrder(hp, c)) = c
<1>1. c \in Nat
  BY DEF ListShape
<1>2. InOrder(hp, c) \in [1..c -> RecT]
  <2> SUFFICES ASSUME NEW k \in 1..c PROVE InOrder(hp, c)[k] \in RecT
    BY DEF InOrder
  <2>1. NdOf(hp, k - 1) \in DOMAIN hp
    BY <1>1, NdOfProps
  <2> QED
    BY <1>1, <2>1 DEF InOrder, RecT, LNodeT
<1>3. InOrder(hp, c) \in Seq(RecT)
  BY <1>1, <1>2, SeqDef
<1>4. Len(InOrder(hp, c)) \in Nat /\ DOMAIN InOrder(hp, c) = 1..Len(InOrder(hp, c))
  BY <1>3, LenProperties
<1>5. DOMAIN InOrder(hp, c) = 1..c
  BY DEF InOrder
<1> QED
  BY <1>1, <1>3, <1>4, <1>5

\* The list of no lnode is the empty sequence.
LEMMA InOrderEmpty == ASSUME NEW hp PROVE InOrder(hp, 0) = <<>>
BY DEF InOrder

\* rules_create gives the empty sequence.
LEMMA InitRefines == Init => Abs!Init
<1> SUFFICES ASSUME Init PROVE Abs!Init
  OBVIOUS
<1>1. AbsRules = InOrder(heap, 0)
  BY InitLInv, ListLenIsCnt DEF Init
<1> QED
  BY <1>1, InOrderEmpty DEF Abs!Init

\* A step that leaves heap and head leaves the rules read from head.
LEMMA SameListStutters ==
  ASSUME heap' = heap, head' = head
  PROVE  UNCHANGED AbsRules
BY Bridge, BridgePrime

\* rules_append with a parsed node is RuleSeq's append.
LEMMA AppendRefines ==
  ASSUME LInv, LInv', RulesAppendEnd, rc = 0
  PROVE  Abs!AppendRule
<1>1. /\ heap' \in [DOMAIN heap' -> LNodeT] /\ ListShape(heap', head', cnt')
      /\ cnt' = cnt + 1
      /\ \A k \in 1..cnt : InOrder(heap', cnt')[k] = InOrder(heap, cnt)[k]
      /\ InOrder(heap', cnt')[cnt + 1] = [rule |-> node, num |-> cnt]
  BY AppendEndFacts
<1>2. /\ heap \in [DOMAIN heap -> LNodeT] /\ ListShape(heap, head, cnt)
      /\ cnt \in Nat /\ node.s # <<>> /\ node.o # <<>>
  BY DEF RulesAppendEnd, LInv, SInv, IInv, ListShape
<1>3. AbsRules = InOrder(heap, cnt) /\ AbsRules' = InOrder(heap', cnt')
  BY <1>1, ListLenIsCnt, BridgePrime, ListOfShape
<1>4. /\ AbsRules \in Seq(RecT) /\ Len(AbsRules) = cnt
      /\ AbsRules' \in Seq(RecT) /\ Len(AbsRules') = cnt + 1
  BY <1>1, <1>2, <1>3, InOrderSeq
<1>5. SubSeq(AbsRules', 1, cnt) = AbsRules
  <2>1. \A i \in 1..cnt : AbsRules'[i] \in RecT
    BY <1>2, <1>4, ElementOfSeq
  <2>2. /\ SubSeq(AbsRules', 1, cnt) \in Seq(RecT)
        /\ Len(SubSeq(AbsRules', 1, cnt)) = cnt
        /\ \A i \in 1..cnt : SubSeq(AbsRules', 1, cnt)[i] = AbsRules'[i]
    BY <1>2, <2>1, SubSeqProperties
  <2>3. \A i \in 1..cnt : AbsRules'[i] = AbsRules[i]
    BY <1>1, <1>3
  <2> QED
    BY <1>4, <2>2, <2>3, SeqEqual
<1>6. AbsRules'[cnt + 1] = [rule |-> node, num |-> cnt]
  BY <1>1, <1>3
<1> QED
  BY <1>2, <1>4, <1>5, <1>6 DEF Abs!AppendRule, Abs!Parsed

\* rules_unsupport_audit is RuleSeq's StripAudit.
LEMMA AuditRefines ==
  ASSUME LInv, RulesUnsupportAudit
  PROVE  Abs!StripAudit
<1>1. /\ heap \in [DOMAIN heap -> LNodeT] /\ ListShape(heap, head, cnt)
      /\ cnt \in Nat /\ DOMAIN heap' = DOMAIN heap
      /\ UNCHANGED <<head, cnt>>
  BY DEF RulesUnsupportAudit, LInv, SInv, ListShape
<1>2. \A a \in DOMAIN heap :
        /\ heap'[a] = [rule |-> [heap[a].rule EXCEPT !.d = Abs!NoAudit(heap[a].rule.d)],
                       next |-> heap[a].next, num |-> heap[a].num]
        /\ heap'[a] \in LNodeT
  BY <1>1, AuditNode
<1>3. /\ \A i \in 0..cnt - 1 : NdOf(heap', i) = NdOf(heap, i)
      /\ ListShape(heap', head', cnt')
  BY <1>1, <1>2, SameNums
<1>4. AbsRules = InOrder(heap, cnt) /\ AbsRules' = InOrder(heap', cnt)
  BY <1>1, <1>3, ListLenIsCnt, BridgePrime, ListOfShape
<1>5. ASSUME NEW i \in 1..cnt
      PROVE  InOrder(heap', cnt)[i] =
               [InOrder(heap, cnt)[i] EXCEPT !.rule.d =
                  Abs!NoAudit(InOrder(heap, cnt)[i].rule.d)]
  <2> DEFINE b == NdOf(heap, i - 1)
  <2>1. b \in DOMAIN heap /\ NdOf(heap', i - 1) = b
    BY <1>1, <1>3, NdOfProps
  <2>2. heap'[b].rule = [heap[b].rule EXCEPT !.d = Abs!NoAudit(heap[b].rule.d)]
    <3>1. heap'[b] = [rule |-> [heap[b].rule EXCEPT !.d = Abs!NoAudit(heap[b].rule.d)],
                      next |-> heap[b].next, num |-> heap[b].num]
      BY <1>2, <2>1
    <3> QED
      BY <3>1
  <2>3. InOrder(heap', cnt)[i] = [rule |-> heap'[b].rule, num |-> i - 1]
        /\ InOrder(heap, cnt)[i] = [rule |-> heap[b].rule, num |-> i - 1]
    BY <2>1 DEF InOrder
  <2> QED
    BY <2>2, <2>3
<1> QED
  BY <1>4, <1>5 DEF Abs!StripAudit, InOrder

\* rules_clear is RuleSeq's clear.
LEMMA ClearRefines ==
  ASSUME LInv', RulesClear
  PROVE  Abs!ClearRules
<1>1. cnt' = 0
  BY DEF RulesClear
<1>2. ListShape(heap', head', cnt')
  BY DEF LInv, SInv
<1>3. AbsRules' = InOrder(heap', 0)
  BY <1>1, <1>2, BridgePrime, ListOfShape
<1> QED
  BY <1>3, InOrderEmpty DEF Abs!ClearRules

\* Every step of the store is a step of RuleSeq or leaves its sequence.
LEMMA StepRefines == LInv /\ LInv' /\ [Next]_vars => [Abs!Next]_AbsRules
<1> SUFFICES ASSUME LInv, LInv', [Next]_vars PROVE [Abs!Next]_AbsRules
  OBVIOUS
<1>1. CASE RulesAppendEnd /\ rc = 0
  BY <1>1, AppendRefines DEF Abs!Next
<1>2. CASE RulesAppendEnd /\ rc # 0
  <2>1. heap' = heap /\ head' = head
    BY <1>2 DEF RulesAppendEnd
  <2> QED
    BY <2>1, SameListStutters
<1>3. CASE RulesUnsupportAudit
  BY <1>3, AuditRefines DEF Abs!Next
<1>4. CASE RulesClear
  BY <1>4, ClearRefines DEF Abs!Next
<1>5. CASE RulesAppendStart \/ Parse \/ StartEval \/ RulesFirst \/ RulesNext
        \/ UNCHANGED vars
  <2>1. heap' = heap /\ head' = head
    BY <1>5 DEF RulesAppendStart, Parse, StartEval, RulesFirst, RulesNext,
                vars, svars
  <2> QED
    BY <2>1, SameListStutters
<1> QED
  BY <1>1, <1>2, <1>3, <1>4, <1>5 DEF Next

\* spec 4.2, for every set of lnode addresses: the linked list implements
\* the ordered store. rules_append adds exactly the parsed node at the end
\* with index cnt, rules_clear empties it, rules_unsupport_audit only
\* rewrites decisions, and no other step changes the list read from head.
THEOREM StoreRefinement == Spec => StoreRefinesRuleSeq
<1>1. Init => Abs!Init
  BY InitRefines
<1>2. LInv /\ LInv' /\ [Next]_vars => [Abs!Next]_AbsRules
  BY StepRefines
<1> QED
  BY <1>1, <1>2, StoreInvariant, PTL DEF Spec, StoreRefinesRuleSeq, Abs!Spec
=============================================================================
