-------------------------- MODULE PolicyDecision ---------------------------
(***************************************************************************)
(* The rule evaluator of src/src/library/rules.c (rule_evaluate,           *)
(* check_access, check_subject, check_object and the directory tests)      *)
(* driven over a loaded rule list, one event at a time, with the pattern   *)
(* detector's per-process state shared between all rules and events.      *)
(*                                                                         *)
(* The caller's walk over the rules (rules_first / rules_next until a rule *)
(* gives an opinion) and the event delivery are outside src/ and follow    *)
(* the spec (4.4, 5). Every loop iteration of check_subject and            *)
(* check_object is one step; no other event is taken while one is being   *)
(* decided, since evaluation is synchronous.                               *)
(***************************************************************************)
EXTENDS PatternDetector

CONSTANTS
  Procs,           \* process ids
  Rules,           \* the loaded rule list, in order
  SubjAttrs,       \* the subject attribute sets an event may carry
  FTypes,          \* object file types (mime strings)
  DefaultDecision, \* the caller's decision when no rule has an opinion
  Absent           \* an attribute get_subj_attr / get_obj_attr cannot give

\* The directory table dirs[] of check_dirs, in its order ("/etc/" first).
Dirs == << <<"/etc/">>, <<"/usr/">>, <<"/bin/">>, <<"/sbin/">>,
           <<"/lib/">>, <<"/lib64/">>, <<"/usr/", "libexec/">> >>

\* Strings held by rules and events are sequences of chunks, like paths.
Text == Seq(STRING)
Str(s) == <<s>>

\* The directory macros and their strlen.
MacroLen == [m \in {Str("execdirs"), Str("systemdirs"), Str("untrusted")} |->
               CASE m = Str("execdirs") -> 8
                 [] m = Str("systemdirs") -> 10
                 [] m = Str("untrusted") -> 9]
Macros == DOMAIN MacroLen

Decisions  == {"ALLOW", "DENY", "ALLOW_AUDIT", "DENY_AUDIT",
               "ALLOW_SYSLOG", "DENY_SYSLOG"}
NO_OPINION == "NO_OPINION"
Accesses   == {"OPEN_ACC", "EXEC_ACC", "ANY_ACC"}
EventTypes == {"FAN_OPEN_PERM", "FAN_OPEN_EXEC_PERM"}

\* Subject field types; the string-valued ones are those >= COMM.
StrSubjTypes == {"COMM", "EXE", "EXE_DIR"}
NumSubjTypes == {"ALL_SUBJ", "UID", "SUBJ_TRUST", "PATTERN"}
SubjTypes == NumSubjTypes \cup StrSubjTypes
ObjTypes  == {"ALL_OBJ", "PATH", "ODIR", "FTYPE", "OBJ_TRUST"}

\* The attribute of an event that get_subj_attr gives for a field type
\* (a directory test looks at the executable's path).
SubjKey(t) == CASE t = "UID" -> "uid" [] t = "SUBJ_TRUST" -> "trust"
                [] t = "COMM" -> "comm" [] t \in {"EXE", "EXE_DIR"} -> "exe"

\* MAX_FIELDS, the capacity of a rule's subject and object arrays.
MaxFields == 8

\* A subject field holds a number or, for the types >= COMM, a string;
\* the parser stores only the ld_so and static pattern codes.
SubjField ==
  [type : NumSubjTypes \ {"PATTERN"}, val : Nat] \cup
  [type : {"PATTERN"}, val : {PATTERN_LD_SO_VAL, PATTERN_STATIC_VAL}] \cup
  [type : StrSubjTypes, val : Text]

ASSUME RulesAssumption ==
  /\ Rules \in Seq([d : Decisions, a : Accesses,
                    s : Seq(SubjField), o : Seq([type : ObjTypes, o : Text])])
  /\ \A i \in DOMAIN Rules :
       /\ Len(Rules[i].s) \in 1..MaxFields
       /\ Len(Rules[i].o) \in 1..MaxFields
  /\ DefaultDecision \in Decisions \cup {NO_OPINION}

Event == [type : EventTypes, pid : Procs, subj : SubjAttrs,
          obj : [path : Files, trust : {0, 1}, ftype : FTypes]]
NoEvent == [type |-> "none"]

VARIABLES
  pinfo,      \* proc_info of each process, owned by process tracking
  alive,      \* the processes process tracking knows
  ev,         \* the event being decided, or NoEvent
  cur,        \* the rule being evaluated (the list cursor)
  phase,      \* where rule_evaluate is: access, subject or object check
  fcur,       \* the field loop counter cnt of check_subject / check_object
  firstPath,  \* history: the first path collected in each process's episode
  last        \* history: the last decision and the rule that gave it

vars == <<pinfo, alive, ev, cur, phase, fcur, firstPath, last>>

-----------------------------------------------------------------------------
(***************************************************************************)
(* Matching helpers.                                                       *)
(***************************************************************************)

\* check_dirs(i, path): path starts with one of dirs[i..] (1-based here).
CheckDirs(i, path) ==
  \E k \in i..Len(Dirs) :
    Len(Dirs[k]) <= Len(path) /\ SubSeq(path, 1, Len(Dirs[k])) = Dirs[k]

\* strncmp(path, v, strlen(v)) = 0 for a stored directory value v. A macro
\* string is never a prefix of a path, which starts with '/'.
DirPrefix(v, path) ==
  /\ v \notin Macros
  /\ Len(v) <= Len(path) /\ SubSeq(path, 1, Len(v)) = v

\* subj_dir_test / obj_dir_test: the length test guarding "untrusted" is
\* 10, as in the code, so that branch is taken for no value.
DirTest(v, path, trusted) ==
  IF v = Str("execdirs") /\ MacroLen[v] = 8 THEN CheckDirs(2, path)
  ELSE IF v = Str("systemdirs") /\ MacroLen[v] = 10 THEN CheckDirs(1, path)
  ELSE IF v = Str("untrusted") /\ MacroLen[v] = 10 THEN ~trusted
  ELSE DirPrefix(v, path)

\* is_subj_trusted / is_obj_trusted.
IsSubjTrusted(e) == e.subj.trust # Absent /\ e.subj.trust = 1
IsObjTrusted(e) == e.obj.trust # 0

\* check_access.
CheckAccess(r, e) ==
  \/ r.a = "ANY_ACC"
  \/ r.a = IF e.type = "FAN_OPEN_EXEC_PERM" THEN "EXEC_ACC" ELSE "OPEN_ACC"

(***************************************************************************)
(* One iteration of the check_subject loop on field f: "next" continues    *)
(* with the following field, "fail" returns 0 and "pass" returns 1 at     *)
(* once; pi is the process's proc_info after the iteration.               *)
(***************************************************************************)
SubjFieldStep(f, e, pi) ==
  LET attr == IF f.type \in {"ALL_SUBJ", "PATTERN"} THEN Absent
              ELSE e.subj[SubjKey(f.type)]
      Ok(b) == [res |-> IF b THEN "next" ELSE "fail", pi |-> pi]
  IN  IF f.type = "ALL_SUBJ" \/ (attr = Absent /\ f.type # "PATTERN")
      THEN Ok(TRUE)
      ELSE IF f.type = "PATTERN"
      THEN LET t == SubjPatternTest(pi, f.val, e.type = "FAN_OPEN_EXEC_PERM")
           IN  [res |-> CASE t.rc = 0 -> "fail" [] t.rc = -1 -> "pass"
                                                [] t.rc = 1 -> "next",
                pi  |-> t.pi]
      ELSE IF f.type = "EXE_DIR"
      THEN Ok(DirTest(f.val, attr, IsSubjTrusted(e)))
      ELSE IF f.type = "EXE" /\ f.val = Str("untrusted")
      THEN Ok(~IsSubjTrusted(e))
      ELSE Ok(attr = f.val)

(***************************************************************************)
(* One iteration of the check_object loop on field f, where sf is the      *)
(* rule's subject field with the same index (UNUSED past s_count): TRUE    *)
(* continues, FALSE returns 0.                                             *)
(***************************************************************************)
ObjFieldStep(f, sf, e) ==
  \/ f.type = "ALL_OBJ"
  \/ /\ f.type = "ODIR"
     /\ DirTest(f.o, e.obj.path, IsObjTrusted(e))
  \/ /\ f.type = "PATH"
     /\ IF sf.type \in {"EXE", "EXE_DIR"} /\ sf.val = Str("untrusted")
        THEN ~IsObjTrusted(e)
        ELSE e.obj.path = f.o
  \/ /\ f.type = "OBJ_TRUST"
     /\ f.o = Str(IF e.obj.trust = 0 THEN "0" ELSE "1")
  \/ /\ f.type = "FTYPE"
     /\ f.o = Str("any") \/ e.obj.ftype = f.o

\* r->s[cnt], which is UNUSED beyond the subject fields.
SubjAt(r, k) == IF k <= Len(r.s) THEN r.s[k] ELSE [type |-> "UNUSED", val |-> 0]

-----------------------------------------------------------------------------
Phases == {"idle", "access", "subject", "object"}

\* The type invariant, with the shape of an evaluation in progress: an
\* event is held exactly while a rule is being evaluated, and the field
\* counter stays within the fields of the rule.
TypeOK ==
  /\ pinfo \in [Procs -> ProcInfo]
  /\ alive \subseteq Procs
  /\ phase \in Phases
  /\ fcur \in 1..(MaxFields + 1)
  /\ firstPath \in [Procs -> PathVals]
  /\ last \in [rule : 0..Len(Rules), d : Decisions \cup {NO_OPINION}]
  /\ phase = "idle" => ev = NoEvent
  /\ phase # "idle" =>
        /\ ev \in Event
        /\ cur \in 1..Len(Rules)
        /\ phase = "subject" => fcur <= Len(Rules[cur].s) + 1
        /\ phase = "object" => fcur <= Len(Rules[cur].o) + 1

Init ==
  /\ pinfo = [p \in Procs |-> NewEpisode({})]
  /\ alive = {}
  /\ ev = NoEvent
  /\ cur = 1
  /\ phase = "idle"
  /\ fcur = 1
  /\ firstPath = [p \in Procs |-> NoPath]
  /\ last = [rule |-> 0, d |-> NO_OPINION]

(***************************************************************************)
(* Process tracking: p execs an image with ELF analysis result elf and     *)
(* starts a new loading episode.                                           *)
(***************************************************************************)
Execve(p, elf) ==
  /\ phase = "idle"
  /\ pinfo' = [pinfo EXCEPT ![p] = NewEpisode(elf)]
  /\ alive' = alive \cup {p}
  /\ firstPath' = [firstPath EXCEPT ![p] = NoPath]
  /\ UNCHANGED <<ev, cur, phase, fcur, last>>

\* Process tracking learns that p has exited: its pattern state is dropped.
ProcessExit(p) ==
  /\ phase = "idle"
  /\ p \in alive
  /\ alive' = alive \ {p}
  /\ pinfo' = [pinfo EXCEPT ![p] = NewEpisode({})]
  /\ firstPath' = [firstPath EXCEPT ![p] = NoPath]
  /\ UNCHANGED <<ev, cur, phase, fcur, last>>

\* Mutation: the walk ends but the event is left in place.
FinishKeepEvent(i, d) ==
  /\ phase' = "idle"
  /\ UNCHANGED ev
  /\ last' = [rule |-> i, d |-> d]

\* The walk ends with decision d, given by rule i (0: the caller's default).
Finish(i, d) ==
  /\ phase' = "idle"
  /\ ev' = NoEvent
  /\ last' = [rule |-> i, d |-> d]

(***************************************************************************)
(* An access event e of a live process arrives: process tracking collects  *)
(* its path, then the walk starts at the first rule (rules_first).         *)
(***************************************************************************)
Deliver(e) ==
  /\ phase = "idle"
  /\ e.pid \in alive
  /\ LET pi == CollectPath(pinfo[e.pid], e.obj.path) IN
       /\ pinfo' = [pinfo EXCEPT ![e.pid] = pi]
       /\ firstPath' = IF pinfo[e.pid].path1 = NoPath /\ pi.path1 # NoPath
                       THEN [firstPath EXCEPT ![e.pid] = e.obj.path]
                       ELSE firstPath
  /\ cur' = 1
  /\ IF Len(Rules) = 0
     THEN Finish(0, DefaultDecision)
     ELSE ev' = e /\ phase' = "access" /\ UNCHANGED last
  /\ UNCHANGED <<alive, fcur>>

\* Mutation: the cursor is not advanced (rules_next not called).
NextRuleStuck ==
  IF cur < Len(Rules)
  THEN /\ cur' = cur
       /\ phase' = "access"
       /\ UNCHANGED <<ev, last>>
  ELSE /\ Finish(0, DefaultDecision)
       /\ UNCHANGED cur

\* The rule under evaluation gave no opinion: move to the next one
\* (rules_next), or finish with the caller's default.
NextRule ==
  IF cur < Len(Rules)
  THEN /\ cur' = cur + 1
       /\ phase' = "access"
       /\ UNCHANGED <<ev, last>>
  ELSE /\ Finish(0, DefaultDecision)
       /\ UNCHANGED cur

\* rule_evaluate, first step: check_access.
RuleCheckAccess ==
  /\ phase = "access"
  /\ IF CheckAccess(Rules[cur], ev)
     THEN phase' = "subject" /\ fcur' = 1 /\ UNCHANGED <<cur, ev, last>>
     ELSE NextRule /\ UNCHANGED fcur
  /\ UNCHANGED <<pinfo, alive, firstPath>>

\* One iteration of check_subject, or its end (return 1).
RuleCheckSubject ==
  /\ phase = "subject"
  /\ IF fcur > Len(Rules[cur].s)
     THEN phase' = "object" /\ fcur' = 1 /\ UNCHANGED <<cur, ev, last, pinfo>>
     ELSE LET t == SubjFieldStep(Rules[cur].s[fcur], ev, pinfo[ev.pid]) IN
          /\ pinfo' = [pinfo EXCEPT ![ev.pid] = t.pi]
          /\ CASE t.res = "next" -> fcur' = fcur + 1 /\ UNCHANGED <<cur, ev, phase, last>>
               [] t.res = "pass" -> phase' = "object" /\ fcur' = 1 /\ UNCHANGED <<cur, ev, last>>
               [] t.res = "fail" -> NextRule /\ UNCHANGED fcur
  /\ UNCHANGED <<alive, firstPath>>

\* One iteration of check_object, or its end: the rule's decision.
RuleCheckObject ==
  /\ phase = "object"
  /\ IF fcur > Len(Rules[cur].o)
     THEN /\ Finish(cur, Rules[cur].d)
          /\ UNCHANGED <<cur, fcur>>
     ELSE IF ObjFieldStep(Rules[cur].o[fcur], SubjAt(Rules[cur], fcur), ev)
     THEN fcur' = fcur + 1 /\ UNCHANGED <<cur, ev, phase, last>>
     ELSE NextRule /\ UNCHANGED fcur
  /\ UNCHANGED <<pinfo, alive, firstPath>>

Next ==
  \/ \E p \in Procs, elf \in ElfInfos : Execve(p, elf)
  \/ \E p \in Procs : ProcessExit(p)
  \/ \E e \in Event : Deliver(e)
  \/ RuleCheckAccess
  \/ RuleCheckSubject
  \/ RuleCheckObject

\* The decision thread runs an evaluation to its end once it has started.
Fairness == WF_vars(RuleCheckAccess \/ RuleCheckSubject \/ RuleCheckObject)

Spec == Init /\ [][Next]_vars /\ Fairness

-----------------------------------------------------------------------------
(***************************************************************************)
(* Properties.                                                             *)
(***************************************************************************)

(***************************************************************************)
(* The path buffers that process tracking collects are released by         *)
(* subj_pattern_test as soon as the pattern is decided (make_decision,     *)
(* NOT_ELF, BAD_ELF): a path is held only while the episode is still       *)
(* collecting, and a second path only in the FULL state awaiting analysis. *)
(***************************************************************************)
PathsHeldOnlyWhileCollecting ==
  \A p \in Procs :
    /\ pinfo[p].path1 # NoPath => pinfo[p].state \in {"COLLECTING", "FULL"}
    /\ pinfo[p].path2 # NoPath => pinfo[p].state = "FULL"

(***************************************************************************)
(* The analysis in subj_pattern_test classifies a dynamically linked       *)
(* process as started by the runtime linker exactly when the first path    *)
(* collected in its episode was ld.so, and as normal otherwise, whichever  *)
(* events and rules led there (spec 4.3, 8).                               *)
(***************************************************************************)
ClassificationMatchesFirstPath ==
  \A p \in Procs :
    pinfo[p].state \in {"LD_SO", "NORMAL"} =>
      (pinfo[p].state = "LD_SO" <=> firstPath[p] = LdSo)

(***************************************************************************)
(* Once subj_pattern_test has classified a process (normal, ld.so, static, *)
(* not ELF, bad ELF), no later event or rule changes the classification;   *)
(* only a new episode (execve) or the process's exit resets it.           *)
(***************************************************************************)
ClassificationStable ==
  [][\A p \in Procs :
       pinfo[p].state \in ClassStates /\ pinfo'[p].state # pinfo[p].state =>
         pinfo'[p] \in {NewEpisode(elf) : elf \in ElfInfos}]_vars

(***************************************************************************)
(* The rule walk over a delivered event always ends with a decision: the   *)
(* loops of check_subject and check_object and the walk over the rules     *)
(* terminate.                                                              *)
(***************************************************************************)
EveryEventDecided == phase # "idle" ~> phase = "idle"

(***************************************************************************)
(* Spec 4.4: the subject check is an AND over all subject fields, a        *)
(* pattern analysis error counting as a match of the pattern field only.   *)
(* So a rule gives its decision only to an event that satisfies each of    *)
(* its non-pattern subject fields (check_subject, rule_evaluate).          *)
(***************************************************************************)
RuleDecidesOnlyMatchingSubjects ==
  [][phase = "object" /\ phase' = "idle" /\ last'.rule # 0 =>
       \A k \in 1..Len(Rules[cur].s) :
         Rules[cur].s[k].type # "PATTERN" =>
           SubjFieldStep(Rules[cur].s[k], ev, pinfo[ev.pid]).res = "next"]_vars
=============================================================================
