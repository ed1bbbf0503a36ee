------------------------ MODULE PolicyDecisionProofs ------------------------
(***************************************************************************)
(* Proofs about PolicyDecision, for every rule list, set of processes and  *)
(* set of files allowed by the assumptions of the specification.           *)
(***************************************************************************)
EXTENDS PolicyDecision, SequenceTheorems, TLAPS

-----------------------------------------------------------------------------
(***************************************************************************)
(* Lemmas on the pattern detector's operators.                             *)
(***************************************************************************)

\* clear_proc_info keeps a proc_info well formed and empties both paths.
LEMMA ClearProcInfoType ==
  ASSUME NEW pi \in ProcInfo
  PROVE  /\ ClearProcInfo(pi) \in ProcInfo
         /\ ClearProcInfo(pi).path1 = NoPath
         /\ ClearProcInfo(pi).path2 = NoPath
         /\ ClearProcInfo(pi).state = pi.state
BY FilesAssumption DEF ClearProcInfo, ProcInfo, PathVals

\* make_decision returns 0 or 1 and a proc_info with no paths.
LEMMA MakeDecisionType ==
  ASSUME NEW pi \in ProcInfo, NEW val \in PatternVals
  PROVE  /\ MakeDecision(pi, val).pi \in ProcInfo
         /\ MakeDecision(pi, val).rc \in PatternResults
         /\ MakeDecision(pi, val).pi.path1 = NoPath
         /\ MakeDecision(pi, val).pi.path2 = NoPath
         /\ MakeDecision(pi, val).pi.state = pi.state
BY ClearProcInfoType DEF MakeDecision, PatternResults

(***************************************************************************)
(* subj_pattern_test returns one of its three results and a well-formed    *)
(* proc_info; the paths it leaves are the ones it found, in an unchanged   *)
(* state, or none at all.                                                  *)
(***************************************************************************)
LEMMA SubjPatternTestType ==
  ASSUME NEW pi \in ProcInfo, NEW val \in PatternVals, NEW x \in BOOLEAN
  PROVE  LET t == SubjPatternTest(pi, val, x) IN
         /\ t.pi \in ProcInfo
         /\ t.rc \in PatternResults
         /\ \/ t.pi = pi
            \/ t.pi.path1 = NoPath /\ t.pi.path2 = NoPath
<1> DEFINE S(st) == [pi EXCEPT !.state = st]
<1>1. \A st \in States : S(st) \in ProcInfo
  BY DEF ProcInfo
<1>2. CASE pi.state \in PreFullStates
  <2>1. SubjPatternTest(pi, val, x) = PreFullTest(pi, val, x)
    BY <1>2 DEF SubjPatternTest
  <2>2. /\ PreFullTest(pi, val, x).pi \in ProcInfo
        /\ PreFullTest(pi, val, x).rc \in PatternResults
        /\ \/ PreFullTest(pi, val, x).pi = pi
           \/ /\ PreFullTest(pi, val, x).pi.path1 = NoPath
              /\ PreFullTest(pi, val, x).pi.path2 = NoPath
    <3>1. S("NOT_ELF") \in ProcInfo /\ S("STATIC_REOPEN") \in ProcInfo
          /\ S("LD_SO") \in ProcInfo
      BY <1>1 DEF States, ClassStates, PreFullStates
    <3>. QED
      BY <3>1, ClearProcInfoType, MakeDecisionType DEF PreFullTest, PatternResults
  <2>. QED BY <2>1, <2>2
<1>3. CASE pi.state = "FULL"
  <2>1. SubjPatternTest(pi, val, x) = FullAnalysis(pi, val)
    BY <1>3 DEF SubjPatternTest, PreFullStates
  <2>2. /\ S("BAD_ELF") \in ProcInfo
        /\ S(IF pi.path1 = LdSo THEN "LD_SO" ELSE "NORMAL") \in ProcInfo
    BY <1>1 DEF States, ClassStates
  <2>. QED
    BY <2>1, <2>2, ClearProcInfoType, MakeDecisionType
    DEF FullAnalysis, PatternResults
<1>4. CASE pi.state \notin PreFullStates /\ pi.state # "FULL"
  BY <1>4, MakeDecisionType DEF SubjPatternTest
<1>. QED BY <1>2, <1>3, <1>4

\* collecting a path keeps a proc_info well formed.
LEMMA CollectPathType ==
  ASSUME NEW pi \in ProcInfo, NEW f \in Files
  PROVE  CollectPath(pi, f) \in ProcInfo
BY DEF CollectPath, ProcInfo, PathVals, States, PreFullStates, ClassStates

LEMMA NewEpisodeType ==
  ASSUME NEW elf \in ElfInfos
  PROVE  NewEpisode(elf) \in ProcInfo
BY DEF NewEpisode, ProcInfo, PathVals, States, PreFullStates

-----------------------------------------------------------------------------
(***************************************************************************)
(* Lemmas on the evaluator's steps.                                        *)
(***************************************************************************)

\* One check_subject iteration: a result of the loop and a well-formed
\* proc_info, the old one unless the field is a pattern field.
LEMMA SubjFieldStepType ==
  ASSUME NEW f \in SubjField, NEW e \in Event, NEW pi \in ProcInfo
  PROVE  LET t == SubjFieldStep(f, e, pi) IN
         /\ t.res \in {"next", "fail", "pass"}
         /\ t.pi \in ProcInfo
         /\ \/ t.pi = pi
            \/ t.pi.path1 = NoPath /\ t.pi.path2 = NoPath
<1>1. CASE f.type = "PATTERN"
  <2>1. f.val \in PatternVals
    BY <1>1 DEF SubjField, NumSubjTypes, StrSubjTypes, PatternVals
  <2>. DEFINE t == SubjPatternTest(pi, f.val, e.type = "FAN_OPEN_EXEC_PERM")
  <2>2. /\ t.pi \in ProcInfo
        /\ t.rc \in PatternResults
        /\ t.pi = pi \/ (t.pi.path1 = NoPath /\ t.pi.path2 = NoPath)
    BY <2>1, SubjPatternTestType
  <2>. QED
    BY <1>1, <2>2 DEF SubjFieldStep, PatternResults
<1>2. CASE f.type # "PATTERN"
  BY <1>2 DEF SubjFieldStep
<1>. QED BY <1>1, <1>2

\* Every field of a rule of the list is well formed.
LEMMA RuleFields ==
  ASSUME NEW i \in 1..Len(Rules)
  PROVE  /\ Rules[i].d \in Decisions
         /\ Rules[i].s \in Seq(SubjField)
         /\ Len(Rules[i].s) \in 1..MaxFields
         /\ Len(Rules[i].o) \in 1..MaxFields
         /\ \A k \in 1..Len(Rules[i].s) : Rules[i].s[k] \in SubjField
<1>1. Rules[i] \in [d : Decisions, a : Accesses,
                    s : Seq(SubjField), o : Seq([type : ObjTypes, o : Text])]
  BY RulesAssumption, ElementOfSeq
<1>2. i \in DOMAIN Rules
  BY RulesAssumption
<1>3. \A k \in 1..Len(Rules[i].s) : Rules[i].s[k] \in SubjField
  BY <1>1, ElementOfSeq
<1>. QED BY <1>1, <1>2, <1>3, RulesAssumption

-----------------------------------------------------------------------------
(***************************************************************************)
(* Type correctness.                                                       *)
(***************************************************************************)

\* A rule with no opinion hands over to the next rule or ends the walk.
LEMMA NextRuleTypeOK ==
  ASSUME TypeOK, phase # "idle", NextRule,
         pinfo' \in [Procs -> ProcInfo],
         UNCHANGED <<alive, firstPath, fcur>>
  PROVE  TypeOK'
<1>1. cur \in 1..Len(Rules) /\ ev \in Event
  BY DEF TypeOK
<1>2. CASE cur < Len(Rules)
  BY <1>1, <1>2 DEF NextRule, TypeOK, Phases, MaxFields
<1>3. CASE ~(cur < Len(Rules))
  BY <1>1, <1>3, RulesAssumption DEF NextRule, Finish, TypeOK, Phases, MaxFields
<1>. QED BY <1>2, <1>3

\* The field counter of a rule with L fields stays within MaxFields + 1.
LEMMA FieldIncrement ==
  ASSUME NEW L \in 1..MaxFields, NEW f \in 1..MaxFields + 1, f <= L
  PROVE  f + 1 \in 1..MaxFields + 1 /\ f + 1 <= L + 1
BY DEF MaxFields

\* Moving to the next field of the rule under evaluation keeps the types.
LEMMA FieldAdvanceTypeOK ==
  ASSUME TypeOK, phase \in {"subject", "object"},
         fcur' \in 1..MaxFields + 1,
         phase = "subject" => fcur' <= Len(Rules[cur].s) + 1,
         phase = "object" => fcur' <= Len(Rules[cur].o) + 1,
         pinfo' \in [Procs -> ProcInfo],
         UNCHANGED <<cur, ev, phase, last, alive, firstPath>>
  PROVE  TypeOK'
BY DEF TypeOK, Phases

LEMMA InitTypeOK == Init => TypeOK
BY NewEpisodeType, RulesAssumption
DEF Init, TypeOK, ElfInfos, PathVals, Phases, MaxFields

LEMMA NextTypeOK == TypeOK /\ [Next]_vars => TypeOK'
<1> SUFFICES ASSUME TypeOK, [Next]_vars PROVE TypeOK'
  OBVIOUS
<1>1. ASSUME NEW p \in Procs, NEW elf \in ElfInfos, Execve(p, elf)
      PROVE  TypeOK'
  BY <1>1 DEF Execve, TypeOK, NewEpisode, ProcInfo, PathVals, States, PreFullStates
<1>2. ASSUME NEW p \in Procs, ProcessExit(p)
      PROVE  TypeOK'
  <2>. {} \in ElfInfos BY DEF ElfInfos
  <2>. QED
    BY <1>2 DEF ProcessExit, TypeOK, NewEpisode, ProcInfo, PathVals, States, PreFullStates
<1>3. ASSUME NEW e \in Event, Deliver(e)
      PROVE  TypeOK'
  <2>1. CollectPath(pinfo[e.pid], e.obj.path) \in ProcInfo
    BY CollectPathType DEF TypeOK, Event
  <2>2. e.obj.path \in PathVals
    BY DEF Event, PathVals
  <2>. QED
    BY <1>3, <2>1, <2>2, RulesAssumption
    DEF Deliver, Finish, TypeOK, Phases, MaxFields
<1>4. CASE RuleCheckAccess
  <2>. USE <1>4
  <2>1. cur \in 1..Len(Rules) /\ ev \in Event
    BY DEF RuleCheckAccess, TypeOK, Phases, MaxFields
  <2>2. CASE CheckAccess(Rules[cur], ev)
    BY <2>1, <2>2, RuleFields DEF RuleCheckAccess, TypeOK, Phases, MaxFields
  <2>3. CASE ~CheckAccess(Rules[cur], ev)
    <3>1. NextRule /\ UNCHANGED <<alive, firstPath, fcur>>
      BY <2>3 DEF RuleCheckAccess
    <3>2. phase # "idle" /\ pinfo' \in [Procs -> ProcInfo]
      BY DEF RuleCheckAccess, TypeOK
    <3>. QED BY <3>1, <3>2, NextRuleTypeOK
  <2>. QED BY <2>2, <2>3
<1>5. CASE RuleCheckSubject
  <2>. USE <1>5
  <2>0. /\ phase = "subject"
        /\ cur \in 1..Len(Rules) /\ ev \in Event /\ fcur \in 1..MaxFields + 1
        /\ fcur <= Len(Rules[cur].s) + 1
    BY DEF RuleCheckSubject, TypeOK, Phases, MaxFields
  <2>1. CASE fcur > Len(Rules[cur].s)
    <3>1. /\ phase' = "object" /\ fcur' = 1
          /\ UNCHANGED <<cur, ev, last, pinfo, alive, firstPath>>
      BY <2>1 DEF RuleCheckSubject
    <3>2. Len(Rules[cur].o) \in 1..MaxFields
      BY <2>0, RuleFields
    <3>. QED BY <3>1, <3>2, <2>0 DEF TypeOK, Phases, MaxFields
  <2>2. CASE fcur <= Len(Rules[cur].s)
    <3>. DEFINE t == SubjFieldStep(Rules[cur].s[fcur], ev, pinfo[ev.pid])
    <3>1. /\ t.res \in {"next", "fail", "pass"}
          /\ t.pi \in ProcInfo
      <4>1. Rules[cur].s[fcur] \in SubjField
        BY <2>0, <2>2, RuleFields
      <4>2. pinfo[ev.pid] \in ProcInfo
        BY <2>0 DEF TypeOK, Event
      <4>. QED BY <4>1, <4>2, <2>0, SubjFieldStepType
    <3>2. pinfo' \in [Procs -> ProcInfo]
      BY <2>2, <3>1 DEF RuleCheckSubject, TypeOK, Event
    <3>3. CASE t.res = "next"
      <4>1. fcur' = fcur + 1 /\ UNCHANGED <<cur, ev, phase, last, alive, firstPath>>
        BY <2>0, <2>2, <3>3, RuleFields DEF RuleCheckSubject
      <4>2. Len(Rules[cur].s) \in 1..MaxFields
        BY <2>0, RuleFields
      <4>3. fcur' \in 1..MaxFields + 1 /\ fcur' <= Len(Rules[cur].s) + 1
        BY <4>1, <4>2, <2>0, <2>2, FieldIncrement
      <4>. QED BY <4>1, <4>3, <2>0, <3>2, FieldAdvanceTypeOK
    <3>4. CASE t.res = "pass"
      <4>1. /\ phase' = "object" /\ fcur' = 1
            /\ UNCHANGED <<cur, ev, last, alive, firstPath>>
        BY <2>0, <2>2, <3>4, RuleFields DEF RuleCheckSubject
      <4>2. Len(Rules[cur].o) \in 1..MaxFields
        BY <2>0, RuleFields
      <4>. QED BY <4>1, <4>2, <2>0, <3>2 DEF TypeOK, Phases, MaxFields
    <3>5. CASE t.res = "fail"
      <4>1. NextRule /\ UNCHANGED <<alive, firstPath, fcur>>
        BY <2>0, <2>2, <3>5, RuleFields DEF RuleCheckSubject
      <4>2. phase # "idle" BY DEF RuleCheckSubject
      <4>. QED BY <4>1, <4>2, <3>2, NextRuleTypeOK
    <3>. QED BY <3>1, <3>3, <3>4, <3>5
  <2>. QED BY <2>0, <2>1, <2>2
<1>6. CASE RuleCheckObject
  <2>. USE <1>6
  <2>0. /\ phase = "object"
        /\ cur \in 1..Len(Rules) /\ ev \in Event /\ fcur \in 1..MaxFields + 1
        /\ fcur <= Len(Rules[cur].o) + 1
    BY DEF RuleCheckObject, TypeOK, Phases, MaxFields
  <2>1. CASE fcur > Len(Rules[cur].o)
    <3>1. /\ phase' = "idle" /\ ev' = NoEvent /\ last' = [rule |-> cur, d |-> Rules[cur].d]
          /\ UNCHANGED <<cur, fcur, pinfo, alive, firstPath>>
      BY <2>0, <2>1 DEF RuleCheckObject, Finish
    <3>2. Rules[cur].d \in Decisions
      BY <2>0, RuleFields
    <3>. QED BY <3>1, <3>2, <2>0 DEF TypeOK, Phases
  <2>2. CASE fcur <= Len(Rules[cur].o)
            /\ ObjFieldStep(Rules[cur].o[fcur], SubjAt(Rules[cur], fcur), ev)
    <3>1. fcur' = fcur + 1 /\ UNCHANGED <<cur, ev, phase, last, pinfo, alive, firstPath>>
      BY <2>0, <2>2, RuleFields DEF RuleCheckObject
    <3>2. Len(Rules[cur].o) \in 1..MaxFields
      BY <2>0, RuleFields
    <3>3. fcur' \in 1..MaxFields + 1 /\ fcur' <= Len(Rules[cur].o) + 1
      BY <3>1, <3>2, <2>0, <2>2, FieldIncrement
    <3>. QED BY <3>1, <3>3, <2>0, FieldAdvanceTypeOK DEF TypeOK
  <2>3. CASE fcur <= Len(Rules[cur].o)
            /\ ~ObjFieldStep(Rules[cur].o[fcur], SubjAt(Rules[cur], fcur), ev)
    <3>1. NextRule /\ UNCHANGED <<alive, firstPath, fcur>>
      BY <2>0, <2>3, RuleFields DEF RuleCheckObject
    <3>3. UNCHANGED pinfo
      BY <2>0, <2>3, RuleFields DEF RuleCheckObject
    <3>2. phase # "idle" /\ pinfo' \in [Procs -> ProcInfo]
      BY <3>3 DEF RuleCheckObject, TypeOK
    <3>. QED BY <3>1, <3>2, NextRuleTypeOK
  <2>. QED BY <2>0, <2>1, <2>2, <2>3
<1>7. CASE UNCHANGED vars
  BY <1>7 DEF vars, TypeOK
<1>. QED BY <1>1, <1>2, <1>3, <1>4, <1>5, <1>6, <1>7 DEF Next

(***************************************************************************)
(* Every reachable state is well typed, and an event is held exactly while *)
(* a rule of the list is being evaluated, with the field counter inside    *)
(* the rule's fields.                                                      *)
(***************************************************************************)
THEOREM TypeCorrect == Spec => []TypeOK
BY InitTypeOK, NextTypeOK, PTL DEF Spec
-----------------------------------------------------------------------------
(***************************************************************************)
(* Release of the collected paths.                                         *)
(***************************************************************************)

\* The condition of PathsHeldOnlyWhileCollecting on one proc_info entry.
PathsOk(pi) ==
  /\ pi.path1 # NoPath => pi.state \in {"COLLECTING", "FULL"}
  /\ pi.path2 # NoPath => pi.state = "FULL"

\* A fresh episode holds no path.
LEMMA NewEpisodePaths ==
  ASSUME NEW elf
  PROVE  PathsOk(NewEpisode(elf))
BY DEF PathsOk, NewEpisode

\* Collecting a path keeps it within a COLLECTING or FULL entry.
LEMMA CollectPathPaths ==
  ASSUME NEW pi \in ProcInfo, NEW f \in Files, PathsOk(pi)
  PROVE  PathsOk(CollectPath(pi, f))
<1>1. CASE pi.state = "COLLECTING" /\ pi.path1 = NoPath
  BY <1>1 DEF CollectPath, PathsOk, ProcInfo
<1>2. CASE pi.state = "COLLECTING" /\ pi.path1 # NoPath
  BY <1>2 DEF CollectPath, PathsOk, ProcInfo
<1>3. CASE pi.state = "STATIC_REOPEN"
  BY <1>3 DEF CollectPath, PathsOk, ProcInfo
<1>4. CASE pi.state = "STATIC_PARTIAL"
  BY <1>4 DEF CollectPath, PathsOk, ProcInfo
<1>5. CASE pi.state \notin {"COLLECTING", "STATIC_REOPEN", "STATIC_PARTIAL"}
  BY <1>5 DEF CollectPath, PathsOk, ProcInfo
<1>. QED BY <1>1, <1>2, <1>3, <1>4, <1>5

\* A check_subject iteration either leaves the entry alone or releases
\* both paths.
LEMMA SubjFieldStepPaths ==
  ASSUME NEW f \in SubjField, NEW e \in Event, NEW pi \in ProcInfo, PathsOk(pi)
  PROVE  PathsOk(SubjFieldStep(f, e, pi).pi)
BY SubjFieldStepType DEF PathsOk

\* TypeOK with the path condition is an inductive invariant.
PathsInv == TypeOK /\ \A p \in Procs : PathsOk(pinfo[p])

LEMMA InitPathsInv == Init => PathsInv
BY InitTypeOK, NewEpisodePaths DEF Init, PathsInv

LEMMA NextPathsInv == PathsInv /\ [Next]_vars => PathsInv'
<1> SUFFICES ASSUME PathsInv, [Next]_vars
             PROVE  \A q \in Procs : PathsOk(pinfo'[q])
  BY NextTypeOK DEF PathsInv
<1>. USE DEF PathsInv
<1>1. ASSUME NEW p \in Procs, NEW elf \in ElfInfos, Execve(p, elf)
      PROVE  \A q \in Procs : PathsOk(pinfo'[q])
  BY <1>1, NewEpisodePaths DEF Execve, TypeOK
<1>2. ASSUME NEW p \in Procs, ProcessExit(p)
      PROVE  \A q \in Procs : PathsOk(pinfo'[q])
  BY <1>2, NewEpisodePaths DEF ProcessExit, TypeOK
<1>3. ASSUME NEW e \in Event, Deliver(e)
      PROVE  \A q \in Procs : PathsOk(pinfo'[q])
  <2>1. e.pid \in Procs /\ e.obj.path \in Files
    BY DEF Event
  <2>2. PathsOk(CollectPath(pinfo[e.pid], e.obj.path))
    BY <2>1, CollectPathPaths DEF TypeOK
  <2>. QED BY <1>3, <2>1, <2>2 DEF Deliver, TypeOK
<1>4. CASE RuleCheckSubject
  <2>1. CASE fcur > Len(Rules[cur].s)
    BY <1>4, <2>1 DEF RuleCheckSubject
  <2>2. CASE ~(fcur > Len(Rules[cur].s))
    <3>1. /\ phase = "subject" /\ cur \in 1..Len(Rules) /\ ev \in Event
          /\ fcur \in 1..MaxFields + 1 /\ fcur <= Len(Rules[cur].s)
      BY <1>4, <2>2 DEF RuleCheckSubject, TypeOK, MaxFields
    <3>2. Rules[cur].s[fcur] \in SubjField
      BY <3>1, RuleFields
    <3>3. ev.pid \in Procs /\ pinfo[ev.pid] \in ProcInfo
      BY <3>1 DEF Event, TypeOK
    <3>4. PathsOk(SubjFieldStep(Rules[cur].s[fcur], ev, pinfo[ev.pid]).pi)
      BY <3>1, <3>2, <3>3, SubjFieldStepPaths
    <3>5. pinfo' = [pinfo EXCEPT ![ev.pid] =
                      SubjFieldStep(Rules[cur].s[fcur], ev, pinfo[ev.pid]).pi]
      BY <1>4, <2>2 DEF RuleCheckSubject
    <3>. QED BY <3>3, <3>4, <3>5 DEF TypeOK
  <2>. QED BY <2>1, <2>2
<1>5. CASE RuleCheckAccess \/ RuleCheckObject \/ UNCHANGED vars
  BY <1>5 DEF RuleCheckAccess, RuleCheckObject, vars
<1>. QED BY <1>1, <1>2, <1>3, <1>4, <1>5 DEF Next

(***************************************************************************)
(* subj_pattern_test releases the paths that process tracking collected as *)
(* soon as it decides: in every reachable state a path is held only by an  *)
(* entry that is still COLLECTING, and a second path only by a FULL entry  *)
(* awaiting its analysis.                                                  *)
(***************************************************************************)
THEOREM PathsReleased == Spec => []PathsHeldOnlyWhileCollecting
<1>1. PathsInv => PathsHeldOnlyWhileCollecting
  BY DEF PathsInv, PathsOk, PathsHeldOnlyWhileCollecting
<1>. QED BY <1>1, InitPathsInv, NextPathsInv, PTL DEF Spec
-----------------------------------------------------------------------------
(***************************************************************************)
(* Classification by the first path of the episode.                        *)
(***************************************************************************)

(***************************************************************************)
(* The strengthening of ClassificationMatchesFirstPath on one entry pi     *)
(* whose recorded first path is fp: a held first path is the recorded one, *)
(* a FULL entry holds its first path, and a LD_SO/NORMAL classification    *)
(* agrees with the recorded path.                                          *)
(***************************************************************************)
ClassOk(pi, fp) ==
  /\ pi.path1 # NoPath => fp = pi.path1
  /\ pi.state = "FULL" => pi.path1 # NoPath
  /\ pi.state \in {"LD_SO", "NORMAL"} => (pi.state = "LD_SO" <=> fp = LdSo)

(***************************************************************************)
(* subj_pattern_test leaves an entry alone, or releases its paths without  *)
(* leaving it FULL; it classifies LD_SO only an entry whose first path is  *)
(* ld.so, and NORMAL only a FULL entry whose first path is not, unless the *)
(* entry had that classification already.                                 *)
(***************************************************************************)
\* Setting the state, then deciding or clearing, releases both paths.
LEMMA SetStateRelease ==
  ASSUME NEW pi \in ProcInfo, NEW st \in States, NEW val \in PatternVals
  PROVE  LET r == [pi EXCEPT !.state = st] IN
         /\ MakeDecision(r, val).pi.path1 = NoPath
         /\ MakeDecision(r, val).pi.path2 = NoPath
         /\ MakeDecision(r, val).pi.state = st
         /\ ClearProcInfo(r).path1 = NoPath
         /\ ClearProcInfo(r).path2 = NoPath
         /\ ClearProcInfo(r).state = st
BY DEF MakeDecision, ClearProcInfo, ProcInfo

LEMMA SubjPatternTestClass ==
  ASSUME NEW pi \in ProcInfo, NEW val \in PatternVals, NEW x \in BOOLEAN
  PROVE  LET q == SubjPatternTest(pi, val, x).pi IN
         \/ q = pi
         \/ /\ q.path1 = NoPath /\ q.path2 = NoPath /\ q.state # "FULL"
            /\ q.state = "LD_SO" => pi.path1 = LdSo \/ pi.state = "LD_SO"
            /\ q.state = "NORMAL" =>
                 (pi.state = "FULL" /\ pi.path1 # LdSo) \/ pi.state = "NORMAL"
<1> DEFINE S(st) == [pi EXCEPT !.state = st]
           q == SubjPatternTest(pi, val, x).pi
           Released(r) == r.path1 = NoPath /\ r.path2 = NoPath
<1> SUFFICES \/ q = pi
             \/ /\ Released(q) /\ q.state # "FULL"
                /\ q.state = "LD_SO" => pi.path1 = LdSo \/ pi.state = "LD_SO"
                /\ q.state = "NORMAL" =>
                     (pi.state = "FULL" /\ pi.path1 # LdSo) \/ pi.state = "NORMAL"
  OBVIOUS
<1>1. \A st \in States : S(st) \in ProcInfo /\ S(st).state = st
  BY DEF ProcInfo
<1>2. CASE pi.state \in PreFullStates
  <2>1. SubjPatternTest(pi, val, x) = PreFullTest(pi, val, x)
    BY <1>2 DEF SubjPatternTest
  <2>2. /\ S("NOT_ELF") \in ProcInfo /\ S("NOT_ELF").state = "NOT_ELF"
        /\ S("STATIC_REOPEN") \in ProcInfo
        /\ S("STATIC_REOPEN").state = "STATIC_REOPEN"
        /\ S("LD_SO") \in ProcInfo /\ S("LD_SO").state = "LD_SO"
    BY <1>1 DEF States, ClassStates, PreFullStates
  <2>. DEFINE P == PreFullTest(pi, val, x)
  <2>3. CASE pi.elf = {}
    <3>1. P.pi = ClearProcInfo(S("NOT_ELF"))
      BY <2>3 DEF PreFullTest
    <3>2. /\ ClearProcInfo(S("NOT_ELF")).path1 = NoPath
          /\ ClearProcInfo(S("NOT_ELF")).path2 = NoPath
          /\ ClearProcInfo(S("NOT_ELF")).state = "NOT_ELF"
      BY <2>2, ClearProcInfoType, Zenon
    <3>3. q = P.pi
      BY <2>1
    <3>4. Released(q) /\ q.state = "NOT_ELF"
      BY <3>1, <3>2, <3>3
    <3>. QED BY <3>4
  <2>4. CASE pi.elf # {} /\ pi.state = "COLLECTING" /\ "HAS_DYNAMIC" \notin pi.elf
    <3>1. "IS_ELF" \in pi.elf
      BY <2>4 DEF ProcInfo, ElfInfos
    <3>2. q = MakeDecision(S("STATIC_REOPEN"), val).pi
      BY <2>1, <2>4, <3>1 DEF PreFullTest
    <3>3. Released(q) /\ q.state = "STATIC_REOPEN"
      BY <3>2, SetStateRelease DEF States, PreFullStates
    <3>. QED BY <3>3
  <2>5. CASE pi.elf # {} /\ ~(pi.state = "COLLECTING" /\ "HAS_DYNAMIC" \notin pi.elf)
             /\ pi.state = "STATIC_PARTIAL"
    <3>1. q = MakeDecision(pi, val).pi
      BY <2>1, <2>5 DEF PreFullTest
    <3>2. Released(q) /\ q.state = "STATIC_PARTIAL"
      BY <2>5, <3>1, MakeDecisionType
    <3>. QED BY <3>2
  <2>6. CASE pi.elf # {} /\ ~(pi.state = "COLLECTING" /\ "HAS_DYNAMIC" \notin pi.elf)
             /\ pi.state # "STATIC_PARTIAL" /\ x /\ pi.path1 = LdSo
    <3>1. q = MakeDecision(S("LD_SO"), val).pi
      BY <2>1, <2>6 DEF PreFullTest
    <3>2. Released(q) /\ q.state = "LD_SO"
      BY <3>1, SetStateRelease DEF States, ClassStates
    <3>. QED BY <2>6, <3>2
  <2>7. CASE pi.elf # {} /\ ~(pi.state = "COLLECTING" /\ "HAS_DYNAMIC" \notin pi.elf)
             /\ pi.state # "STATIC_PARTIAL" /\ ~(x /\ pi.path1 = LdSo)
    <3>1. P.pi = pi
      BY <2>7 DEF PreFullTest
    <3>. QED BY <2>1, <3>1
  <2>. QED BY <2>3, <2>4, <2>5, <2>6, <2>7
<1>3. CASE pi.state = "FULL"
  <2>1. SubjPatternTest(pi, val, x) = FullAnalysis(pi, val)
    BY <1>3 DEF SubjPatternTest, PreFullStates
  <2>3. CASE "HAS_ERROR" \in pi.elf
    <3>1. q = ClearProcInfo(S("BAD_ELF"))
      BY <2>1, <2>3 DEF FullAnalysis
    <3>2. Released(q) /\ q.state = "BAD_ELF"
      BY <3>1, SetStateRelease DEF States, ClassStates
    <3>. QED BY <3>2
  <2>4. CASE "HAS_ERROR" \notin pi.elf /\ pi.path1 = LdSo
    <3>1. q = MakeDecision(S("LD_SO"), val).pi
      BY <2>1, <2>4 DEF FullAnalysis
    <3>2. Released(q) /\ q.state = "LD_SO"
      BY <3>1, SetStateRelease DEF States, ClassStates
    <3>. QED BY <2>4, <3>2
  <2>5. CASE "HAS_ERROR" \notin pi.elf /\ pi.path1 # LdSo
    <3>1. q = MakeDecision(S("NORMAL"), val).pi
      BY <2>1, <2>5 DEF FullAnalysis
    <3>2. Released(q) /\ q.state = "NORMAL"
      BY <3>1, SetStateRelease DEF States, ClassStates
    <3>. QED BY <1>3, <2>5, <3>2
  <2>. QED BY <2>3, <2>4, <2>5
<1>4. CASE pi.state \notin PreFullStates /\ pi.state # "FULL"
  <2>1. q = MakeDecision(pi, val).pi
    BY <1>4 DEF SubjPatternTest
  <2>. QED BY <1>4, <2>1, MakeDecisionType
<1>. QED BY <1>2, <1>3, <1>4

\* The check_subject iteration inherits these facts.
LEMMA SubjFieldStepClass ==
  ASSUME NEW f \in SubjField, NEW e \in Event, NEW pi \in ProcInfo,
         NEW fp, ClassOk(pi, fp)
  PROVE  ClassOk(SubjFieldStep(f, e, pi).pi, fp)
<1>1. CASE f.type = "PATTERN"
  <2>1. f.val \in PatternVals
    BY <1>1 DEF SubjField, NumSubjTypes, StrSubjTypes, PatternVals
  <2>. DEFINE q == SubjPatternTest(pi, f.val, e.type = "FAN_OPEN_EXEC_PERM").pi
  <2>2. SubjFieldStep(f, e, pi).pi = q
    BY <1>1 DEF SubjFieldStep
  <2>3. \/ q = pi
        \/ /\ q.path1 = NoPath /\ q.path2 = NoPath /\ q.state # "FULL"
           /\ q.state = "LD_SO" => pi.path1 = LdSo \/ pi.state = "LD_SO"
           /\ q.state = "NORMAL" =>
                (pi.state = "FULL" /\ pi.path1 # LdSo) \/ pi.state = "NORMAL"
    BY <2>1, SubjPatternTestClass
  <2>. QED BY <2>2, <2>3, FilesAssumption DEF ClassOk
<1>2. CASE f.type # "PATTERN"
  BY <1>2 DEF SubjFieldStep
<1>. QED BY <1>1, <1>2

\* Collecting a path, and recording it when it is the episode's first.
LEMMA CollectPathClass ==
  ASSUME NEW pi \in ProcInfo, NEW f \in Files, NEW fp, ClassOk(pi, fp)
  PROVE  LET q == CollectPath(pi, f) IN
         ClassOk(q, IF pi.path1 = NoPath /\ q.path1 # NoPath THEN f ELSE fp)
<1>1. CASE pi.state = "COLLECTING" /\ pi.path1 = NoPath
  BY <1>1, FilesAssumption DEF CollectPath, ClassOk, ProcInfo
<1>2. CASE pi.state = "COLLECTING" /\ pi.path1 # NoPath
  BY <1>2 DEF CollectPath, ClassOk, ProcInfo
<1>3. CASE pi.state = "STATIC_REOPEN"
  BY <1>3 DEF CollectPath, ClassOk, ProcInfo
<1>4. CASE pi.state = "STATIC_PARTIAL"
  BY <1>4 DEF CollectPath, ClassOk, ProcInfo
<1>5. CASE pi.state \notin {"COLLECTING", "STATIC_REOPEN", "STATIC_PARTIAL"}
  BY <1>5 DEF CollectPath, ClassOk, ProcInfo
<1>. QED BY <1>1, <1>2, <1>3, <1>4, <1>5
\* A fresh episode has no path and no classification.
LEMMA NewEpisodeClass ==
  ASSUME NEW elf
  PROVE  ClassOk(NewEpisode(elf), NoPath)
BY DEF ClassOk, NewEpisode

\* TypeOK with the strengthening is an inductive invariant.
ClassInv == TypeOK /\ \A p \in Procs : ClassOk(pinfo[p], firstPath[p])

LEMMA InitClassInv == Init => ClassInv
BY InitTypeOK, NewEpisodeClass DEF Init, ClassInv

LEMMA NextClassInv == ClassInv /\ [Next]_vars => ClassInv'
<1> SUFFICES ASSUME ClassInv, [Next]_vars
             PROVE  \A q \in Procs : ClassOk(pinfo'[q], firstPath'[q])
  BY NextTypeOK DEF ClassInv
<1>. USE DEF ClassInv
<1>1. ASSUME NEW p \in Procs, NEW elf \in ElfInfos, Execve(p, elf)
      PROVE  \A q \in Procs : ClassOk(pinfo'[q], firstPath'[q])
  BY <1>1, NewEpisodeClass DEF Execve, TypeOK
<1>2. ASSUME NEW p \in Procs, ProcessExit(p)
      PROVE  \A q \in Procs : ClassOk(pinfo'[q], firstPath'[q])
  BY <1>2, NewEpisodeClass DEF ProcessExit, TypeOK
<1>3. ASSUME NEW e \in Event, Deliver(e)
      PROVE  \A q \in Procs : ClassOk(pinfo'[q], firstPath'[q])
  <2>1. e.pid \in Procs /\ e.obj.path \in Files
    BY DEF Event
  <2>. DEFINE c == CollectPath(pinfo[e.pid], e.obj.path)
  <2>2. ClassOk(c, IF pinfo[e.pid].path1 = NoPath /\ c.path1 # NoPath
                   THEN e.obj.path ELSE firstPath[e.pid])
    BY <2>1, CollectPathClass DEF TypeOK
  <2>3. /\ pinfo' = [pinfo EXCEPT ![e.pid] = c]
        /\ firstPath' = IF pinfo[e.pid].path1 = NoPath /\ c.path1 # NoPath
                        THEN [firstPath EXCEPT ![e.pid] = e.obj.path]
                        ELSE firstPath
    BY <1>3 DEF Deliver
  <2>. QED BY <2>1, <2>2, <2>3 DEF TypeOK
<1>4. CASE RuleCheckSubject
  <2>1. CASE fcur > Len(Rules[cur].s)
    BY <1>4, <2>1 DEF RuleCheckSubject
  <2>2. CASE ~(fcur > Len(Rules[cur].s))
    <3>1. /\ phase = "subject" /\ cur \in 1..Len(Rules) /\ ev \in Event
          /\ fcur \in 1..MaxFields + 1 /\ fcur <= Len(Rules[cur].s)
      BY <1>4, <2>2 DEF RuleCheckSubject, TypeOK, MaxFields
    <3>2. Rules[cur].s[fcur] \in SubjField
      BY <3>1, RuleFields
    <3>3. ev.pid \in Procs /\ pinfo[ev.pid] \in ProcInfo
      BY <3>1 DEF Event, TypeOK
    <3>4. ClassOk(SubjFieldStep(Rules[cur].s[fcur], ev, pinfo[ev.pid]).pi,
                  firstPath[ev.pid])
      BY <3>1, <3>2, <3>3, SubjFieldStepClass
    <3>5. /\ pinfo' = [pinfo EXCEPT ![ev.pid] =
                        SubjFieldStep(Rules[cur].s[fcur], ev, pinfo[ev.pid]).pi]
          /\ UNCHANGED firstPath
      BY <1>4, <2>2 DEF RuleCheckSubject
    <3>. QED BY <3>3, <3>4, <3>5 DEF TypeOK
  <2>. QED BY <2>1, <2>2
<1>5. CASE RuleCheckAccess \/ RuleCheckObject \/ UNCHANGED vars
  BY <1>5 DEF RuleCheckAccess, RuleCheckObject, vars
<1>. QED BY <1>1, <1>2, <1>3, <1>4, <1>5 DEF Next

(***************************************************************************)
(* The analysis in subj_pattern_test classifies a process LD_SO exactly    *)
(* when the first path collected in its loading episode was ld.so, and     *)
(* NORMAL otherwise, for every rule list and every sequence of execs,      *)
(* exits and events.                                                       *)
(***************************************************************************)
THEOREM ClassifiedByFirstPath == Spec => []ClassificationMatchesFirstPath
<1>1. ClassInv => ClassificationMatchesFirstPath
  BY DEF ClassInv, ClassOk, ClassificationMatchesFirstPath
<1>. QED BY <1>1, InitClassInv, NextClassInv, PTL DEF Spec
-----------------------------------------------------------------------------
(***************************************************************************)
(* Stability of the classification.                                        *)
(***************************************************************************)

\* subj_pattern_test on a classified entry only makes the decision: the
\* state is kept.
LEMMA SubjFieldStepKeepsClass ==
  ASSUME NEW f \in SubjField, NEW e \in Event, NEW pi \in ProcInfo,
         pi.state \in ClassStates
  PROVE  SubjFieldStep(f, e, pi).pi.state = pi.state
<1>1. CASE f.type = "PATTERN"
  <2>1. SubjFieldStep(f, e, pi).pi
          = SubjPatternTest(pi, f.val, e.type = "FAN_OPEN_EXEC_PERM").pi
    BY <1>1 DEF SubjFieldStep
  <2>2. SubjPatternTest(pi, f.val, e.type = "FAN_OPEN_EXEC_PERM").pi
          = ClearProcInfo(pi)
    BY DEF SubjPatternTest, MakeDecision, ClassStates, PreFullStates
  <2>. QED BY <2>1, <2>2 DEF ClearProcInfo, ProcInfo
<1>2. CASE f.type # "PATTERN"
  BY <1>2 DEF SubjFieldStep
<1>. QED BY <1>1, <1>2

\* Process tracking collects no path for a classified entry.
LEMMA CollectPathKeepsClass ==
  ASSUME NEW pi \in ProcInfo, NEW f, pi.state \in ClassStates
  PROVE  CollectPath(pi, f) = pi
BY DEF CollectPath, ClassStates

\* The action of ClassificationStable.
ClassStep ==
  \A p \in Procs :
    pinfo[p].state \in ClassStates /\ pinfo'[p].state # pinfo[p].state =>
      pinfo'[p] \in {NewEpisode(elf) : elf \in ElfInfos}

LEMMA NextClassStep == TypeOK /\ [Next]_vars => [ClassStep]_vars
<1> SUFFICES ASSUME TypeOK, [Next]_vars PROVE ClassStep
  OBVIOUS
<1>1. ASSUME NEW p \in Procs, NEW elf \in ElfInfos, Execve(p, elf)
      PROVE  ClassStep
  BY <1>1 DEF Execve, TypeOK, ClassStep
<1>2. ASSUME NEW p \in Procs, ProcessExit(p)
      PROVE  ClassStep
  <2>1. {} \in ElfInfos
    BY DEF ElfInfos
  <2>. QED BY <1>2, <2>1 DEF ProcessExit, TypeOK, ClassStep
<1>3. ASSUME NEW e \in Event, Deliver(e)
      PROVE  ClassStep
  <2>1. e.pid \in Procs
    BY DEF Event
  <2>2. pinfo[e.pid].state \in ClassStates =>
          CollectPath(pinfo[e.pid], e.obj.path) = pinfo[e.pid]
    BY <2>1, CollectPathKeepsClass DEF TypeOK
  <2>. QED BY <1>3, <2>1, <2>2 DEF Deliver, TypeOK, ClassStep
<1>4. CASE RuleCheckSubject
  <2>1. CASE fcur > Len(Rules[cur].s)
    BY <1>4, <2>1 DEF RuleCheckSubject, ClassStep
  <2>2. CASE ~(fcur > Len(Rules[cur].s))
    <3>1. /\ phase = "subject" /\ cur \in 1..Len(Rules) /\ ev \in Event
          /\ fcur \in 1..MaxFields + 1 /\ fcur <= Len(Rules[cur].s)
      BY <1>4, <2>2 DEF RuleCheckSubject, TypeOK, MaxFields
    <3>2. Rules[cur].s[fcur] \in SubjField
      BY <3>1, RuleFields
    <3>3. ev.pid \in Procs /\ pinfo[ev.pid] \in ProcInfo
      BY <3>1 DEF Event, TypeOK
    <3>4. pinfo[ev.pid].state \in ClassStates =>
            SubjFieldStep(Rules[cur].s[fcur], ev, pinfo[ev.pid]).pi.state
              = pinfo[ev.pid].state
      BY <3>1, <3>2, <3>3, SubjFieldStepKeepsClass
    <3>5. pinfo' = [pinfo EXCEPT ![ev.pid] =
                      SubjFieldStep(Rules[cur].s[fcur], ev, pinfo[ev.pid]).pi]
      BY <1>4, <2>2 DEF RuleCheckSubject
    <3>. QED BY <3>3, <3>4, <3>5 DEF TypeOK, ClassStep
  <2>. QED BY <2>1, <2>2
<1>5. CASE RuleCheckAccess \/ RuleCheckObject \/ UNCHANGED vars
  BY <1>5 DEF RuleCheckAccess, RuleCheckObject, vars, ClassStep
<1>. QED BY <1>1, <1>2, <1>3, <1>4, <1>5 DEF Next

(***************************************************************************)
(* Once subj_pattern_test has classified a process, neither the collection *)
(* of later paths by process tracking nor any later rule evaluation        *)
(* changes the classification; only execve or the process's exit, which    *)
(* start a new episode, reset it.                                          *)
(***************************************************************************)
THEOREM ClassificationIsStable == Spec => ClassificationStable
BY TypeCorrect, NextClassStep, PTL DEF Spec, ClassificationStable, ClassStep
=============================================================================
