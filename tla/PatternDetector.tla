-------------------------- MODULE PatternDetector --------------------------
(***************************************************************************)
(* The ELF-loading pattern detector of src/src/library/rules.c:            *)
(* subj_pattern_test and the make_decision switch, acting on the           *)
(* per-process proc_info record (state, path1, path2, elf_info).           *)
(*                                                                         *)
(* proc_info is owned by the process-tracking collaborator, whose code is  *)
(* not in this repository; the operators that create an episode, collect  *)
(* a path and release the paths (clear_proc_info) are modelled from the    *)
(* spec (sections 3, 4.3 and 6).                                           *)
(*                                                                         *)
(* Paths are sequences of path chunks (so that a prefix of a chunk         *)
(* sequence is a prefix of the path string); NoPath is the NULL pointer.   *)
(***************************************************************************)
EXTENDS Integers, Sequences

CONSTANTS
  Files,     \* the paths a process may open
  LdSo,      \* SYSTEM_LD_SO, the runtime linker's path
  NoPath     \* a NULL path1 / path2

ASSUME FilesAssumption == LdSo \in Files /\ NoPath \notin Files

\* Pattern codes stored in a PATTERN subject field (PATTERN_*_VAL).
PATTERN_NORMAL_VAL == 0
PATTERN_LD_SO_VAL  == 1
PATTERN_STATIC_VAL == 2
PatternVals == {PATTERN_NORMAL_VAL, PATTERN_LD_SO_VAL, PATTERN_STATIC_VAL}

\* The states below STATE_FULL ("we have only 1 or 2 paths") and the
\* classifications above it.
PreFullStates == {"COLLECTING", "PARTIAL", "STATIC_REOPEN", "STATIC_PARTIAL"}
ClassStates   == {"NORMAL", "NOT_ELF", "LD_SO", "STATIC", "BAD_ELF"}
States        == PreFullStates \cup {"FULL"} \cup ClassStates

\* elf_info bits. elf_info = 0 is "not an ELF file"; every other value has
\* IS_ELF set.
ElfInfos == {{}} \cup {f \cup {"IS_ELF"} : f \in SUBSET {"HAS_DYNAMIC", "HAS_ERROR"}}

PathVals == Files \cup {NoPath}

ProcInfo == [state : States, path1 : PathVals, path2 : PathVals, elf : ElfInfos]

\* The results of subj_pattern_test: match, no match (or not enough
\* information yet) and analysis error.
PatternResults == {1, 0, -1}

(***************************************************************************)
(* clear_proc_info (process tracking, spec 4.3): release the collected     *)
(* paths; the state is left as it is.                                      *)
(***************************************************************************)
ClearProcInfo(pi) == [pi EXCEPT !.path1 = NoPath, !.path2 = NoPath]

\* The states each pattern code matches, from the make_decision switch.
MatchingStates(val) ==
  CASE val = PATTERN_NORMAL_VAL -> {"NORMAL"}
    [] val = PATTERN_LD_SO_VAL  -> {"LD_SO"}
    [] val = PATTERN_STATIC_VAL -> {"STATIC_REOPEN", "STATIC_PARTIAL", "STATIC"}

\* Mutation: make_decision forgets to release the paths.
MakeDecisionKeepPaths(pi, val) ==
  [rc |-> IF pi.state \in MatchingStates(val) THEN 1 ELSE 0, pi |-> pi]

\* make_decision: compare the state with the rule's pattern, then release
\* the paths.
MakeDecision(pi, val) ==
  [rc |-> IF pi.state \in MatchingStates(val) THEN 1 ELSE 0,
   pi |-> ClearProcInfo(pi)]

\* Mutation: the analysis compares path2 with ld.so instead of path1.
FullAnalysisPath2(pi, val) ==
  IF "HAS_ERROR" \in pi.elf
  THEN [rc |-> -1, pi |-> ClearProcInfo([pi EXCEPT !.state = "BAD_ELF"])]
  ELSE MakeDecision([pi EXCEPT !.state = IF pi.path2 = LdSo
                                          THEN "LD_SO" ELSE "NORMAL"], val)

(***************************************************************************)
(* The analysis of a FULL entry: an ELF error gives BAD_ELF and the error  *)
(* result -1; otherwise the first path tells ld.so-started from normal,    *)
(* and the decision is made.                                               *)
(***************************************************************************)
FullAnalysis(pi, val) ==
  IF "HAS_ERROR" \in pi.elf
  THEN [rc |-> -1, pi |-> ClearProcInfo([pi EXCEPT !.state = "BAD_ELF"])]
  ELSE MakeDecision([pi EXCEPT !.state = IF pi.path1 = LdSo
                                          THEN "LD_SO" ELSE "NORMAL"], val)

\* The branches taken below STATE_FULL, where 1 or 2 paths are known.
PreFullTest(pi, val, isExec) ==
  IF pi.elf = {}
  THEN [rc |-> 0, pi |-> ClearProcInfo([pi EXCEPT !.state = "NOT_ELF"])]
  ELSE IF /\ "IS_ELF" \in pi.elf
          /\ pi.state = "COLLECTING"
          /\ "HAS_DYNAMIC" \notin pi.elf
  THEN MakeDecision([pi EXCEPT !.state = "STATIC_REOPEN"], val)
  ELSE IF pi.state = "STATIC_PARTIAL"
  THEN MakeDecision(pi, val)
  ELSE IF isExec /\ pi.path1 = LdSo
  THEN MakeDecision([pi EXCEPT !.state = "LD_SO"], val)
  ELSE [rc |-> 0, pi |-> pi]

\* Mutation: the analysis is redone in every state past STATE_FULL.
SubjPatternTestReanalyse(pi, val, isExec) ==
  IF pi.state \in PreFullStates THEN PreFullTest(pi, val, isExec)
  ELSE FullAnalysis(pi, val)

(***************************************************************************)
(* subj_pattern_test(s, e): the result for pattern code val on an event    *)
(* whose type is FAN_OPEN_EXEC_PERM iff isExec, and the new proc_info.     *)
(***************************************************************************)
SubjPatternTest(pi, val, isExec) ==
  IF pi.state \in PreFullStates THEN PreFullTest(pi, val, isExec)
  ELSE IF pi.state = "FULL" THEN FullAnalysis(pi, val)
  ELSE MakeDecision(pi, val)

(***************************************************************************)
(* Process tracking (spec 4.3, 6): a new ELF-loading episode after an      *)
(* execve starts collecting with no paths and the new image's elf_info.    *)
(***************************************************************************)
NewEpisode(elf) == [state |-> "COLLECTING", path1 |-> NoPath,
                    path2 |-> NoPath, elf |-> elf]

(***************************************************************************)
(* Process tracking: record the path of an event before the rules are      *)
(* evaluated. The first path is kept while COLLECTING, the second makes    *)
(* the entry FULL; a static image anticipating its reopen advances through *)
(* STATIC_PARTIAL to STATIC. Other states collect nothing.                 *)
(***************************************************************************)
CollectPath(pi, f) ==
  CASE pi.state = "COLLECTING" /\ pi.path1 = NoPath -> [pi EXCEPT !.path1 = f]
    [] pi.state = "COLLECTING" /\ pi.path1 # NoPath ->
                            [pi EXCEPT !.path2 = f, !.state = "FULL"]
    [] pi.state = "STATIC_REOPEN"  -> [pi EXCEPT !.state = "STATIC_PARTIAL"]
    [] pi.state = "STATIC_PARTIAL" -> [pi EXCEPT !.state = "STATIC"]
    [] OTHER -> pi
=============================================================================
