# TLA+ models of fapolicyd's rule library (`src/library/rules.c`)

This directory holds TLA+ specifications of the rule library of fapolicyd,
the TLC configurations that model-check them and TLAPS proofs about them.
All the code modelled is in `src/src/library/rules.c`. Line numbers below
refer to that file.

## 1. The system

`rules.c` has four parts, all modelled. A fifth part, process tracking,
lives outside this repository but is used here.

| Part | Code | State | Operations |
|---|---|---|---|
| Rule parser | `nv_split`, `parse_new_format`, `assign_subject`, `assign_object` (218-461) | one `lnode`, with `s[]`/`o[]` arrays of `MAX_FIELDS` entries and the counts `s_count`/`o_count` | parse one text line into a node (two formats: "orig" and "colon") |
| Rule list store | `rules_create`, `rules_append`, `rules_first`, `rules_last`, `rules_next`, `rules_clear`, `rules_unsupport_audit` (52-88, 466-507, 862-909) | a linked list `head`, a shared cursor `cur` and a count `cnt` | append a parsed rule, walk, clear, strip the audit bits |
| Rule evaluator | `rule_evaluate`, `check_access`, `check_subject`, `check_object`, `subj_dir_test`, `obj_dir_test`, `check_dirs`, `is_subj_trusted`, `is_obj_trusted` (195-215, 509-577, 719-858) | none of its own; it reads the rule and the event | decide one rule against one event: a decision or `NO_OPINION` |
| Pattern detector | `subj_pattern_test` (643-715) | the process's `proc_info` (`state`, `path1`, `path2`, `elf_info`), which it **writes** | classify how the process was loaded (normal, ld.so-started, static), then release the paths |
| Process tracking (not in this repository) | `clear_proc_info`, the proc cache | `proc_info` of each process | start an episode on execve, collect the first two paths, release them, drop the entry on exit |

How the parts interact:
- The policy code outside this repository walks the rule list with
  `rules_first`/`rules_next`. It calls `rule_evaluate` on each rule until one
  has an opinion; if none has, it uses its default.
- `rule_evaluate` checks the access, then the subject fields, then the object
  fields, and stops at the first mismatch.
- A `pattern=` subject field calls `subj_pattern_test`. That call reads and
  writes the process's `proc_info`, which process tracking filled in when the
  event arrived. So rule evaluation is not free of side effects: the state of
  one process passes from rule to rule and from event to event.

The hard behaviours:
- a process's loading pattern is built up over several events (the exec, then
  the opens made by the runtime linker);
- the pattern detector's writes are shared between the rules of one walk;
- errors are folded into matches;
- several loop counters and length tables must agree.

## 2. Modules

| Module | Models | Contents |
|---|---|---|
| `PatternDetector` | `subj_pattern_test`, plus the process-tracking operators it depends on (spec-modelled) | the `proc_info` records `ProcInfo`; `SubjPatternTest(pi, val, isExec)`, which returns `[rc, pi]`; `PreFullTest`, `FullAnalysis`, `MakeDecision` and `MatchingStates` (the branches and the switch); `ClearProcInfo`, `NewEpisode`, `CollectPath` |
| `PolicyDecision` | the evaluator and the rule walk, composed with `PatternDetector` and process tracking | the variables and actions listed below |
| `MCPolicyDecision` | TLC instance | three files (ld.so, ls, libc), one process, subject attributes uid/trust ∈ {0,1}, and four rule lists |
| `MCPatternOrder` | TLC instance with a history variable `snap` | `PureFirstMatch`: the rule a walk free of side effects would stop at |
| `PolicyDecisionProofs` | TLAPS | the lemmas and theorems of section 5 |
| `RuleParser` | `nv_split`, `parse_new_format`, `assign_subject`, `assign_object` | one call of `nv_split` on one line, token by token |
| `MCRuleParser` | TLC instance, and the reference grammar | token sets per run; `SpecParse`, spec 4.1 written as a fold over the tokens |
| `RuleParserProofs` | TLAPS | the inductive invariant `IInv` of the parser and the theorems of section 5 |
| `RuleSeq` | what the rule store promises (spec 4.2) | a sequence of `[rule, num]` with append, clear and audit stripping |
| `RuleStore` | the linked list of `rules.c`, composed with `RuleParser` | a heap of lnodes with `head`, `cur`, `cnt`; `Abs`, the refinement mapping to `RuleSeq` |
| `MCRuleStore` | TLC instance | two lnode addresses, lines of up to three tokens |
| `RuleStoreProofs` | TLAPS | the inductive invariant `LInv` of the store and the theorems of section 5 |

### State of `PolicyDecision`

| Variable | Meaning |
|---|---|
| `pinfo` | `proc_info` per process |
| `alive` | the processes that process tracking knows |
| `ev` | the event under decision |
| `cur` | the list cursor, as an index into the constant `Rules` |
| `phase` | where `rule_evaluate` is: `access`, `subject` or `object`; `idle` between events |
| `fcur` | the loop counter `cnt` of `check_subject`/`check_object` |
| `firstPath` | history variable: the first path collected in the episode |
| `last` | history variable: the last decision and the rule that gave it |

Rule lists are the constant `Rules`. Their shape (1..`MAX_FIELDS` fields, no
`normal` pattern value) is what `rules_append` can produce (`RulesAssumption`).

### Actions of `PolicyDecision`

| Action | Code |
|---|---|
| `RuleCheckAccess` | `check_access` and the first test of `rule_evaluate` (839-846) |
| `RuleCheckSubject` | one iteration of the `check_subject` loop, or its `return 1`; a pattern field writes `pinfo` in this same step |
| `RuleCheckObject` | one iteration of the `check_object` loop, or its end with `r->d` (`Finish`) |
| `NextRule` | `rules_next`, or the caller's default at the end of the list |
| `Deliver(e)` | process tracking collects the event's path, then `rules_first` |
| `Execve`, `ProcessExit` | process tracking (spec-modelled) |

Each loop iteration is its own step. This keeps the order of the writes of a
pattern field relative to the reads of the following fields, and it lets the
liveness property talk about the loops.

Strings are sequences of chunks, for example `<<"/usr/", "lib64/", "ld.so">>`.
A directory prefix is then a prefix of the sequence. `strlen` of the macro
names is kept as the table `MacroLen`, because the code compares it with
literal lengths.

### The parser (`RuleParser`)

A line is a sequence of tokens from the constant `Tokens`. A token is
`[name, eq, val]`: `eq` says whether `strchr(ptr, '=')` found an `=`, `name`
is the text before it and `val` the text after it. The node keeps `d`, `a`
and the fields written so far (`s`, `o`; their lengths are `s_count` and
`o_count`). `pos` counts the tokens `strtok` has returned, `pc` says where
the code is, `fmt` is `n->format`, `pstate` is `parse_new_format`'s `state`
and `rc` the return value.

| Action | Code |
|---|---|
| `NvSplitStart` | the format test (`strchr(buf, ':')`), the blank/comment test and the decision (363-382) |
| `NvSplitLoop` | one iteration of `nv_split`'s `while`, or its end; `ColonFirstToken`, `OrigToken`, `OrigAll` are its branches (384-448) |
| `ParseNewFormat` | one iteration of `parse_new_format`'s loop; its returns end the loop and `nv_split` goes to `finish_up` whatever they were (302-355, 415-416) |
| `FinishUp` | the two last checks (450-461) |

`AssignSubject(n, type, v)` is the set of outcomes of `assign_subject`. An
int field that the code never assigns (a non-numeric `trust=` value) takes
any value of `Garbage`, since `malloc` does not clear the node. An unknown
user name leads to `pc = "exited"`. `ApplySubject` ignores every result but
the exit, as the code's `== 3` test does.

### The store (`RuleStore`)

`heap` maps each malloc'ed lnode address to `[rule, next, num]`. `head`,
`cur`, `cnt` are the `llist`. `newnode` is the lnode `rules_append` is
filling. `phase` is `load` or `eval`: rules are appended while the policy
loads and walked after. `leak` records that a freed lnode still owned a
string. `walked` is a history variable: the `num`s the current walk has
returned.

| Action | Code |
|---|---|
| `RulesAppendStart` | `rules_append` up to `nv_split`: malloc, zero counts, pick the line (466-480) |
| `Parse` | a step of the parser inside `rules_append` |
| `RulesAppendEnd` | the rest of `rules_append`: free on an error, else `rules_last`, link, make current, number (481-507) |
| `RulesUnsupportAudit` | `rules_unsupport_audit` (862-880) |
| `RulesFirst`, `RulesNext` | 60-63, 81-88 |
| `RulesClear` | `rules_clear` (883-909) |
| `StartEval` | the load ends (spec: the store is read-only during evaluation) |

`Chain[k]` is the lnode reached from `head` after `k-1` next pointers;
`LastNode` is `rules_last`'s window. `AbsRules` reads the list from `head`
and is the refinement mapping: `Abs == INSTANCE RuleSeq WITH rules <- AbsRules,
parsed <- node`. `RuleSeq`'s `parsed` is the rule handed to append, so the
abstract `AppendRule` requires the new element to be exactly the node
`nv_split` accepted, not just some well-formed rule.

## 3. Runs

The pass run is `policy_decision` (`MCPolicyDecision.cfg`): 45,399 distinct
states, about 10 s. Its rules are:
- `deny_audit pattern=ld_so`
- `deny pattern=static uid=1`
- `allow perm=execute exe_dir=execdirs : dir=systemdirs`
- `allow perm=open all : trust=1`

The process can exec a non-ELF, static, dynamic or broken image and open any
of the three files. So every branch of `subj_pattern_test` is taken, including
the static exec→reopen sequence and the ld.so-started sequence. The run
checks:

- `TypeOK`.
- `PathsHeldOnlyWhileCollecting`: the paths are released on every decision
  path.
- `ClassificationMatchesFirstPath`: the LD_SO/NORMAL classification agrees
  with the first path of the episode.
- `ClassificationStable` (action property): a classified state changes only
  by a new episode.
- `EveryEventDecided` (liveness): every walk ends.

Each property has a mutant in `PROJECT.json` that TLC kills:
- `make_decision` without the release;
- the analysis reading `path2`;
- reanalysis in every state;
- `rules_next` not advancing;
- `Finish` not clearing the event.

The violation runs each check one property that the spec states and the code
breaks:

| Run | Property | What TLC shows |
|---|---|---|
| `pattern_error_skips_fields` (`MCPatternAndUid.cfg`) | `RuleDecidesOnlyMatchingSubjects` | With `allow pattern=ld_so uid=0 : all`, a bad ELF run by uid 1 is allowed. The -1 of `subj_pattern_test` makes `check_subject` return 1 at line 759 before it reaches the uid field. |
| `untrusted_dir_dead` (`MCUntrustedDir.cfg`) | `UntrustedOpensDenied` | `dir=untrusted` never matches. The guard is `len == 10` (lines 547 and 570), but `"untrusted"` has 9 characters, so an untrusted open passes `deny all dir=untrusted`. |
| `pattern_rules_interfere` (`MCPatternOrder.cfg`) | `DecisionIndependentOfEarlierRules` | With `deny pattern=ld_so` then `deny pattern=static`, the first event of a static process moves it to `STATIC_REOPEN` while rule 1 is evaluated. Rule 2 then sees a state the event did not bring, so the outcome depends on rule order in a way the spec's `evaluate(rule, event)` does not allow. |

### Bounds

- **One process.** Rule evaluation runs on the single decision thread and
  holds the event until the walk ends (`phase`). Processes interact only
  through their own `proc_info`, so a second process adds interleavings of
  independent entries but no new behaviour of the code.
- **Three files.** They are ld.so, a program and a library: enough to make
  path1 ld.so or not, and path2 differ from path1.
- **Two uids and two trust values.** Enough to make every field match and
  mismatch.
- **Rules of up to two fields.** They reach every `return` of the loops.

### Fairness

`WF` on the three evaluation steps. Once an event is delivered, the decision
thread runs `rule_evaluate` to its end with no further input, so these steps
stay enabled until the walk ends. No fairness is assumed for exec, exit or
event delivery: the system may idle forever.

### Parser and store runs

`parse_line` (`MCRuleParser.cfg`, 149,198 states, about 5 s) parses every
line of up to four tokens over sixteen tokens: good and bad decisions, a
comment, `all`, `:`, a token without `=`, `perm=` good and bad, `uid=` by
number and by known and unknown name, `pattern=` good and bad, an `exe=`
value holding a `:`, an object and an unknown field. Lines with and without
`:` exercise both formats, and every return of the three functions is
reached. It checks:
- `TypeOK`;
- `AcceptedRuleUsable`: a rule that `nv_split` accepts has a decision, an
  access, 1..`MAX_FIELDS` fields per side and only pattern values 1 and 2,
  which is what `rule_evaluate` assumes (and what `RulesAssumption` of
  `PolicyDecision` states).

`rule_store` (`MCRuleStore.cfg`, 48,614 states, about 20 s) loads lines of up
to three tokens into a list of up to two lnodes, strips audit bits, walks
and clears, over and over. It checks:
- `StoreTypeOK`;
- `WalkFollowsStore`: a walk returns nums 0, 1, 2, ... in order, with `cur`
  on the last one returned, and ends only after the last rule;
- `StoreRefinesRuleSeq`: the list read from `head` behaves as `RuleSeq`,
  that is, append adds the parsed rule at the end with index `cnt`, clear
  empties the list and resets the numbering, and nothing else changes it.

Each property has a mutant: no decision check, no comment test, no subject
check in `finish_up`; `rules_next` not advancing, `rules_clear` keeping
`cnt` or keeping `cur`.

The parser violation runs compare `nv_split` with `SpecParse`
(`ParsedAsSpecified`: the line ends as the grammar of spec 4.1 says, with
the same decision, access and fields):

| Run | Line | What the code does |
|---|---|---|
| `pattern_normal_rejected` | `deny pattern=normal all` | `normal` is not a pattern value (233-244); the field is dropped and the rule fails with 7 |
| `invalid_value_accepted` | `allow uid=0 pattern=foo all` | the 2 of `assign_subject` is ignored (429); the rule loads without the pattern |
| `colon_in_value_switches_format` | `allow exe=/opt/a:b all` | the `:` inside the value selects the colon format (363) |
| `unknown_user_exits` | `allow uid=ghost all` | `exit(1)` (262) |

`field_overflow` (`MCParseLong.cfg`, lines of up to ten tokens) breaks
`FieldCountsBounded`: nine `uid=0` fields make `assign_subject` write
`s[8]` (221). `rejected_rule_leaks` (`MCStoreLeak.cfg`) breaks
`NoStringLeaked`: `allow exe=/usr/bin/ls allow` is refused with 5 and
`free(newnode)` (482) loses the `exe` string.

### Parser and store bounds

- **Lines of four tokens** (three in the store): a decision and three
  fields, enough for every branch, the switch into `parse_new_format` after
  a first field, and a field after `:`. The proofs in section 5 cover every
  length.
- **Sixteen tokens** in `parse_line`: one per distinction the code makes.
  The violation runs use smaller sets so that the shortest counterexample
  is the one of the finding.
- **Two lnode addresses**: a list of two rules, where `rules_last` walks
  and the appended node is linked behind another.

No fairness is assumed for the parser or the store: the runs check safety
and refinement only. A parser behaviour ends when `nv_split` returns, so
`parse_line` does not check deadlock; the store can always load or clear,
and `rule_store` checks deadlock.

## 4. Findings

See `findings` in `PROJECT.json`. Evaluator and detector: the three violation
runs of section 3. Parser and store: the six runs above. Each names the
line and what the spec says instead.

## 5. Proofs

### `PolicyDecisionProofs`

The proofs hold for every rule list, file set and process set that satisfy
`FilesAssumption` (ld.so is a file; NULL is not) and `RulesAssumption`.

- **`TypeCorrect`: `Spec => []TypeOK`.** `TypeOK` already carries the shape
  of a walk, so it is inductive:
  - an event is held exactly when `phase # "idle"`;
  - `cur` is in `1..Len(Rules)`;
  - `fcur` is at most the field count + 1.

  The proof rests on these lemmas:
  - `SubjPatternTestType` and `SubjFieldStepType`: `subj_pattern_test`
    returns a well-formed entry;
  - `NextRuleTypeOK`, `FieldAdvanceTypeOK` and `FieldIncrement`: the rule and
    field counters stay in range.
- **`PathsReleased`: `Spec => []PathsHeldOnlyWhileCollecting`.** The
  inductive invariant is `TypeOK` plus the per-entry condition `PathsOk`.
  `SubjFieldStepPaths` shows that a subject step either leaves an entry
  alone or releases both paths. `CollectPathPaths` shows that collecting
  keeps a path in a COLLECTING or FULL entry.
- **`ClassifiedByFirstPath`: `Spec => []ClassificationMatchesFirstPath`.**
  The invariant alone is not inductive. It says nothing about entries that
  are still collecting, and the classification is made from `path1` later.
  The strengthening `ClassOk` adds two facts:
  - a held `path1` is the recorded first path;
  - a FULL entry still holds its `path1`.

  `SubjPatternTestClass` shows that `subj_pattern_test` makes LD_SO only
  from `path1 = ld.so`, and NORMAL only from a FULL entry whose `path1` is
  not ld.so. `CollectPathClass` shows that recording the first path
  preserves `ClassOk`. TLC checked the strengthening as an invariant of
  `policy_decision` before it was proved.
- **`ClassificationIsStable`: `Spec => ClassificationStable`.** This needs
  no strengthening beyond `TypeOK`: every step in which `TypeOK` holds is a
  step of the action. On a classified entry, `CollectPath` takes its OTHER
  branch (`CollectPathKeepsClass`), and `subj_pattern_test` only calls
  `make_decision`, which clears the paths but keeps the state
  (`SubjFieldStepKeepsClass`). `Execve` and `ProcessExit` install
  `NewEpisode(elf)`, and `{}` is one of the `ElfInfos`.

### `RuleParserProofs`

These hold for every token set, user table and `MaxLen` allowed by
`ParserAssumption` (tokens are records of strings, uids are naturals).

- **`ParserInvariant`: `ParserSpec => []IInv`.** `IInv` is `TypeOK`'s shape
  plus the facts that make it inductive:
  - `Len(s) + Len(o) <= Budget(pos)`: no token appends more than one field,
    and the decision token appends none;
  - `pos = 0` before the first token, `pos >= 1` in the loops;
  - the node has a decision and an access once the loops run, and after a
    return of 0;
  - a return of 0 has a subject and an object field;
  - pattern fields hold 1 or 2.

  One lemma per action: `NvSplitStartIInv`, `NvSplitLoopIInv`,
  `ParseNewFormatIInv`, `FinishUpIInv`. The loop lemmas reduce every branch
  to `LoopStep` (one more token, at most one more field), which
  `LoopStepInv` shows keeps `IInv`. The branch lemmas (`LoopApplyStep`,
  `LoopObjectStep`, `LoopPermStep`, `LoopStopStep`, `LoopEndIInv`) rest on
  `AssignSubjectOk`, `AssignObjectOk` and `ApplySubjectOk`, which say what
  the field writers do to a node.
- **`ShortLinesFitFields`**: if `MaxLen <= MAX_FIELDS + 1`, then
  `ParserSpec => []FieldCountsBounded`. It follows from `Budget`. The
  `field_overflow` run shows the bound is needed: the code has no check.
  `parse_line` does not check `FieldCountsBounded`, because its lines are
  too short to break it; the theorem covers them all.
- **`AcceptedRulesUsable`**: under the same bound,
  `ParserSpec => []AcceptedRuleUsable`. This is the property of the
  `parse_line` run, for every token set.
- **`ParserTypeCorrect`: `ParserSpec => []TypeOK`**, the other property
  of `parse_line`, for every token set. `IInv` gives
  the shape of the node; the second invariant `RInv` adds what `IInv` does
  not say about the return code:
  - `fmt` is one of the two formats and `rc` one of nv_split's codes;
  - in the loops and in `finish_up` the line is neither blank nor a comment;
  - after the return, `rc = -1` exactly for a blank or comment line.

  `NextRInv` has one case per action. The loops keep `rc` or return a code
  in `1..5` (`NvSplitLoopRc`, `ParseNewFormatRc`), and `finish_up` returns
  0, 6 or 7, so only `NvSplitStart` can return -1, and it does so exactly
  on a blank or comment line. `InvTypeOK` reads `TypeOK` off `IInv /\ RInv`.
  (That `-1` means exactly a blank or comment line is not a property of
  its own: in the model `-1` is written only by `NvSplitStart`'s guard for
  such lines, so it would restate that guard.)

### `RuleStoreProofs`

These hold for every finite set `Addrs` of lnode addresses, and every
token set and user table of `ParserAssumption`.

The list is read by `Chain`, a recursive function, and its length by the
`Cardinality` of a set built from it. An invariant about `Chain` would have
to be re-established through the recursion at every step, so `LInv` speaks
about the nums the code stores instead:
- every lnode of `heap` has a num in `0..cnt-1`, and no two share one;
- every num in `0..cnt-1` belongs to an lnode;
- `head` is lnode 0, or NULL when `cnt = 0`;
- the next pointer of lnode `i` is lnode `i+1`, or NULL for the last.

This is `ListShape`. `ChainShape` then proves, once, that `Chain` of such a
heap is lnode 0, 1, ..., `cnt-1`, then NULL. The proof builds that function
and shows it satisfies `Chain`'s recursive definition. Two such functions
cannot differ: take the least point where they do (`LeastNat`, from the
well-foundedness of `<` on `Nat`); they agree just before it, so they agree
there. From this, `ListOfShape` gives `ListLen = cnt`,
`LastNode = lnode cnt-1`, and `AbsRules` = the rules in the order of their
nums.

`LInv` is `IInv /\ RInv /\ SInv`. Besides `ListShape`, `SInv` says:
- `rules_append` runs only while the policy loads, on an lnode that is not
  in the list;
- `cur` is an lnode or NULL;
- a walk has returned nums `0 .. Len(walked)-1`, with `cur` on the last;
- before a walk, `cur` is where `rules_append` left it: on lnode `cnt-1`.

That last conjunct is needed because `rules_next` may run before
`rules_first`. TLC checked `LInv` as an invariant of the `rule_store`
instance before it was proved. There is one lemma per action. The step
that appends is `AppendShape`: a fresh lnode numbered `cnt`, linked after
the lnode `rules_last` returns, gives a list numbered `0..cnt` whose first
`cnt` rules are unchanged.

- **`StoreTypeCorrect`: `Spec => []StoreTypeOK`.**
- **`WalkInOrder`: `Spec => []WalkFollowsStore`.** With `ListLen = cnt`,
  this is the walk part of `SInv`.
- **`StoreRefinement`: `Spec => StoreRefinesRuleSeq`.** `Init` maps to the
  empty sequence. `StepRefines` shows every step maps to a step of
  `RuleSeq`, or leaves `AbsRules` unchanged:
  - `rules_append` with rc = 0 is `AppendRule` (`AppendRefines`: the old
    rules are a `SubSeq` of the new ones, and the new one is the parsed node
    with num `cnt`);
  - `rules_unsupport_audit` is `StripAudit`;
  - `rules_clear` is `ClearRules`;
  - every other step leaves `heap` and `head`, hence `AbsRules`.

Three definitions were rewritten, with the same meaning to TLC, so that the
provers can read them:
- `RulesAppendEnd` adds the lnode with an explicit function instead of
  `:>` and `@@`, which TLAPS does not define;
- `RulesUnsupportAudit` and `StripAudit` name the decision they rewrite
  instead of a nested `@`;
- `ObjFieldT` names the empty string apart.

Only TLC checks the following:
- the liveness property `EveryEventDecided`, which needs fairness and
  `ENABLED`;
- the violation runs;
- `NoStringLeaked`, which only a violation run checks.

## 6. Not modelled

- **Sanity checks and logging.** `sanity_check_node` and
  `sanity_check_list` only log and abort, and the model has no corrupted
  nodes. Messages are not modelled.
- **Allocation failure.** `malloc` and `strdup` always succeed in the model.
  The unchecked `malloc` of `rules_append` (473) is listed as a hazard.
- **`strtol` errors.** Numeric values come from `DigitVal`, a small table of
  digit strings; the `errno` path (250-254) is not reached.
- **The Field Dictionary.** `subj_name_to_val`, `obj_name_to_val` and
  `dec_name_to_val` are outside this repository and are modelled from the
  spec, without the format argument of `subj_name_to_val`.
- **Parser and evaluator together.** The evaluator still takes its rules
  from the constant `Rules`. `AcceptedRulesUsable` is what justifies
  `RulesAssumption`, but no run feeds parsed rules to `rule_evaluate`, so
  the `check_object` index hazard (811) is not checked.
- **Process tracking's own bookkeeping.** Pid reuse and cache eviction are
  outside this repository.
