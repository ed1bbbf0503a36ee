------------------------------ MODULE RuleStore -----------------------------
(***************************************************************************)
(* The rule list of rules.c: rules_create, rules_append, rules_last,       *)
(* rules_first, rules_next, rules_unsupport_audit and rules_clear (lines   *)
(* 52-88, 466-507, 862-909), composed with the parser that rules_append    *)
(* calls. The list is kept at the level of pointers: heap maps each        *)
(* malloc'ed lnode to its rule, its next pointer and its num; head and cur *)
(* are the llist's pointers and cnt its count.                             *)
(*                                                                         *)
(* The daemon loads a policy (rules_append per line), then evaluates it    *)
(* (rules_first/rules_next), and clears it on reload or shutdown: phase    *)
(* records which of the two the daemon is in.                              *)
(***************************************************************************)
EXTENDS RuleParser, TLC

CONSTANTS
  Addrs,   \* bound: the addresses malloc can return for an lnode
  NULL

ASSUME StoreAssumption == IsFiniteSet(Addrs) /\ NULL \notin Addrs

VARIABLES
  heap,     \* the allocated lnodes: [rule, next, num]
  head, cur, cnt,
  newnode,  \* the lnode rules_append is filling, NULL between calls
  phase,    \* "load" or "eval"
  leak,     \* some strdup'ed string was lost when its lnode was freed
  walked    \* history: the nums the current walk has returned

svars == <<heap, head, cur, cnt, newnode, phase, leak, walked>>
vars  == <<pvars, svars>>

\* The node reached from head after k-1 next pointers (NULL past the end).
Chain[k \in 1..Cardinality(Addrs) + 1] ==
  IF k = 1 THEN head
  ELSE IF Chain[k - 1] = NULL THEN NULL ELSE heap[Chain[k - 1]].next

ListLen == Cardinality({k \in 1..Cardinality(Addrs) : Chain[k] # NULL})

\* rules_last: the node whose next is NULL.
LastNode == Chain[ListLen]

\* The strings an lnode owns: s[i].str for types from COMM on, every o[i].o.
Owned(n) == Cardinality({i \in DOMAIN n.s : n.s[i].type \in StrSubjTypes})
              + Len(n.o)

Init ==
  /\ line = <<>> /\ pos = 0 /\ pc = "idle" /\ fmt = "ORIG" /\ pstate = 0
  /\ node = NewNode /\ rc = 0
  /\ heap = <<>> /\ head = NULL /\ cur = NULL /\ cnt = 0   \* rules_create
  /\ newnode = NULL /\ phase = "load" /\ leak = FALSE /\ walked = <<>>

\* rules_append up to nv_split: malloc a node, zero its counts, parse a line.
RulesAppendStart ==
  /\ phase = "load" /\ pc = "idle"
  /\ \E a \in Addrs \ DOMAIN heap, l \in Lines :
       /\ newnode' = a
       /\ line' = l /\ pos' = 0 /\ pc' = "split" /\ fmt' = "ORIG"
       /\ pstate' = 0 /\ node' = NewNode /\ rc' = 0
  /\ UNCHANGED <<heap, head, cur, cnt, phase, leak, walked>>

\* A step of nv_split inside rules_append.
Parse == ParseStep /\ UNCHANGED svars

\* rules_append after nv_split: free the node on an error (its strings are
\* not freed), else rules_last, link the node at the end, make it current
\* and number it.
RulesAppendEnd ==
  /\ pc = "done"
  /\ \/ /\ rc # 0
        /\ leak' = (leak \/ Owned(node) > 0)
        /\ UNCHANGED <<heap, head, cur, cnt>>
     \/ /\ rc = 0
        /\ LET n == [rule |-> node, next |-> NULL, num |-> cnt]
               \* h with the lnode n allocated at newnode
               Alloc(h) == [x \in DOMAIN h \cup {newnode} |->
                              IF x = newnode THEN n ELSE h[x]]
           IN  IF head = NULL
               THEN heap' = Alloc(heap) /\ head' = newnode
               ELSE /\ heap' = Alloc([heap EXCEPT ![LastNode].next = newnode])
                    /\ head' = head
        /\ cur' = newnode
        /\ cnt' = cnt + 1
        /\ UNCHANGED leak
  /\ newnode' = NULL /\ pc' = "idle"
  /\ UNCHANGED <<line, pos, fmt, pstate, node, rc, phase, walked>>

\* The policy is loaded; the decision thread starts walking it.
StartEval ==
  /\ phase = "load" /\ pc = "idle"
  /\ phase' = "eval"
  /\ UNCHANGED <<pvars, heap, head, cur, cnt, newnode, leak, walked>>

\* rules_unsupport_audit (a USE_AUDIT build): clear AUDIT in every node.
RulesUnsupportAudit ==
  /\ pc = "idle"
  /\ heap' = [a \in DOMAIN heap |->
                [heap[a] EXCEPT !.rule.d =
                   CASE heap[a].rule.d = "ALLOW_AUDIT" -> "ALLOW"
                     [] heap[a].rule.d = "DENY_AUDIT"  -> "DENY"
                     [] OTHER                          -> heap[a].rule.d]]
  /\ UNCHANGED <<pvars, head, cur, cnt, newnode, phase, leak, walked>>

RulesFirst ==
  /\ phase = "eval"
  /\ cur' = head
  /\ walked' = IF head = NULL THEN <<>> ELSE <<heap[head].num>>
  /\ UNCHANGED <<pvars, heap, head, cnt, newnode, phase, leak>>

\* Mutation: rules_next returns the current node again instead of the next.
RulesNextNoAdvance ==
  /\ phase = "eval" /\ cur # NULL
  /\ walked' = Append(walked, heap[cur].num)
  /\ UNCHANGED <<pvars, heap, head, cur, cnt, newnode, phase, leak>>

RulesNext ==
  /\ phase = "eval" /\ cur # NULL
  /\ cur' = heap[cur].next
  /\ walked' = IF heap[cur].next = NULL THEN walked
               ELSE Append(walked, heap[heap[cur].next].num)
  /\ UNCHANGED <<pvars, heap, head, cnt, newnode, phase, leak>>

\* Mutation: rules_clear leaves cnt as it was.
RulesClearKeepCount ==
  /\ pc = "idle"
  /\ heap' = <<>> /\ head' = NULL /\ cur' = NULL
  /\ phase' = "load" /\ walked' = <<>>
  /\ UNCHANGED <<pvars, cnt, newnode, leak>>

\* Mutation: rules_clear leaves cur pointing at a freed node.
RulesClearKeepCur ==
  /\ pc = "idle"
  /\ heap' = <<>> /\ head' = NULL /\ cnt' = 0
  /\ phase' = "load" /\ walked' = <<>>
  /\ UNCHANGED <<pvars, cur, newnode, leak>>

\* rules_clear: free every string and node; the store is empty again.
RulesClear ==
  /\ pc = "idle"
  /\ heap' = <<>> /\ head' = NULL /\ cur' = NULL /\ cnt' = 0
  /\ phase' = "load" /\ walked' = <<>>
  /\ UNCHANGED <<pvars, newnode, leak>>

Next ==
  \/ RulesAppendStart \/ Parse \/ RulesAppendEnd \/ StartEval
  \/ RulesUnsupportAudit \/ RulesFirst \/ RulesNext \/ RulesClear

Spec == Init /\ [][Next]_vars

-----------------------------------------------------------------------------
\* The rules of the list from head, with their nums.
AbsRules == [k \in 1..ListLen |-> [rule |-> heap[Chain[k]].rule,
                                   num |-> heap[Chain[k]].num]]

Abs == INSTANCE RuleSeq WITH rules <- AbsRules, parsed <- node

\* The linked list implements the ordered store of spec 4.2: rules_append
\* adds exactly the parsed node at the end with index cnt, rules_clear
\* empties it and resets the numbering, rules_unsupport_audit only rewrites
\* decisions; no other step changes the list as read from head.
StoreRefinesRuleSeq == Abs!Spec

StoreTypeOK ==
  /\ TypeOK
  /\ DOMAIN heap \subseteq Addrs
  /\ head \in DOMAIN heap \cup {NULL} /\ cur \in DOMAIN heap \cup {NULL}
  /\ \A a \in DOMAIN heap : heap[a].next \in DOMAIN heap \cup {NULL}
  /\ cnt \in Nat /\ newnode \in Addrs \cup {NULL}
  /\ phase \in {"load", "eval"} /\ leak \in BOOLEAN

\* A walk (rules_first, then rules_next until NULL) returns the rules in
\* the order of their nums 0, 1, 2, ..., each once, with cur on the last
\* one returned, and it ends only after the last rule of the list.
WalkFollowsStore ==
  phase = "eval" /\ walked # <<>> =>
    /\ \A i \in DOMAIN walked : walked[i] = i - 1
    /\ Len(walked) <= ListLen
    /\ cur # NULL => heap[cur].num = Len(walked) - 1
    /\ cur = NULL => Len(walked) = ListLen

\* spec 9 (ownership): every string an lnode owns is released exactly
\* once. rules_append frees a rejected lnode with free(newnode) alone.
NoStringLeaked == ~leak
=============================================================================
