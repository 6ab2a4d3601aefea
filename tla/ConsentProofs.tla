---------------------------- MODULE ConsentProofs -----------------------------
(***************************************************************************)
(* No tool reads or writes beyond what the user has consented to.  The     *)
(* argument follows the rules: each rule the child puts in force is backed *)
(* by a grant or by the fixed baseline, and whatever a rule lets through   *)
(* lies at or beneath the rule's path.                                     *)
(***************************************************************************)
EXTENDS ReplyProofs

\* The right that a rule confers has been granted, or is the baseline's.
Backed(r) ==
  \/ access[r.path] # "none" /\ r.mode = access[r.path]
  \/ r.mode = "ro" /\ r.path \in BaselineRO
  \/ r.kind = "file" /\ r.path \in BaselineRWFiles

BackedRules ==
  /\ pc \in {"restrict", "run"} => \A r \in rules : Backed(r)
  /\ pc = "run" => \A r \in rules : Present(fs, r.path)

\* What a backed rule covers has been consented to.
LEMMA CoveredIsConsented ==
  ASSUME NEW r \in Rule, Backed(r), NEW p \in Path, NEW m \in Mode,
         r.path = p \/ (r.kind = "dir" /\ r.path \in Above[p]),
         Suffices(r.mode, m), RightsOK
  PROVE  Consented(p, m)
<1>1. r.path \in Path /\ r.mode \in Mode /\ r.kind \in {"file", "dir"}
  BY DEF Rule
<1>2. r.path \in {p} \cup Above[p]
  OBVIOUS
<1>3. CASE access[r.path] # "none" /\ r.mode = access[r.path]
  BY <1>2, <1>3 DEF Consented
<1>4. CASE r.mode = "ro" /\ r.path \in BaselineRO
  <2>1. m = "ro"
    BY <1>4 DEF Suffices
  <2> QED  BY <1>2, <1>4, <2>1 DEF Consented
<1>5. CASE r.kind = "file" /\ r.path \in BaselineRWFiles
  BY <1>5 DEF Consented
<1> QED  BY <1>3, <1>4, <1>5 DEF Backed

LEMMA PermittedIsConsented ==
  ASSUME RightsOK, rules \in SUBSET Rule, \A r \in rules : Backed(r),
         NEW p \in Path, NEW m \in Mode, NEW entry,
         Permitted(rules, p, m, entry)
  PROVE  Consented(p, m)
<1>1. PICK r \in rules : Covers(r, p, entry) /\ Suffices(r.mode, m)
  BY DEF Permitted
<1> QED  BY <1>1, CoveredIsConsented DEF Covers

\* A shell step that takes effect passed the permission check on each path.
LEMMA StepIsConsented ==
  ASSUME RightsOK, rules \in SUBSET Rule, \A r \in rules : Backed(r),
         NEW s \in Step, TakesEffect(s, fs, rules), NEW k \in DOMAIN s.paths
  PROVE  Consented(s.paths[k], s.need)
<1>1. s.paths[k] \in Path /\ s.need \in Mode
  <2>1. s.paths \in Seq(Path)
    BY DEF Step
  <2> QED  BY <2>1 DEF Step
<1>2. Permitted(rules, s.paths[k], s.need, s.sys \in removing \cup moving)
  BY DEF TakesEffect, Refused, Blocked
<1> QED  BY <1>1, <1>2, PermittedIsConsented

\* read_file and list_dir return only what a rule covers.
LEMMA ReadIsConsented ==
  ASSUME IsTree(fs), RightsOK, rules \in SUBSET Rule,
         \A r \in rules : Backed(r),
         NEW c \in Call, NEW p \in FileToolReads(c, fs, rules)
  PROVE  Consented(p, "ro")
<1>1. /\ p = c.target /\ c.tool \in {"read_file", "list_dir"}
      /\ PathErrors(c, fs, rules) = {} /\ ~ OtherError(c, fs)
  BY DEF FileToolReads
<1>2. p \in Path /\ Present(fs, p) /\ c.args # "mistyped"
  BY <1>1 DEF OtherError, Call, Present, IsDir
<1>3. ~ Blocked(fs, rules, p, "ro", FALSE)
  <2>1. c.tool # "write_file"
    BY <1>1
  <2> QED  BY <1>1, <1>2, <2>1 DEF PathErrors
<1>4. CanHold(fs, p)
  BY <1>2 DEF IsTree, CanHold, IsDir
<1> QED
  BY <1>2, <1>3, <1>4, PermittedIsConsented DEF Blocked, Mode

\* The topmost missing ancestor of p exists if any ancestor is missing, and is
\* at or above each missing one.
LEMMA TopmostMissing ==
  ASSUME NEW p \in Path, NEW a \in Above[p], ~ Present(fs, a)
  PROVE  \E top \in FirstMkdir(fs, p) : top = a \/ top \in Above[a]
<1> DEFINE missing == {b \in Above[p] : ~ Present(fs, b)}
<1>1. missing \in SUBSET Above[p] /\ a \in missing
  OBVIOUS
<1>2. PICK top \in missing : \A b \in missing \ {top} : top \in Above[b]
  <2>1. \A S \in SUBSET Above[p] : S # {} =>
          \E t \in S : \A b \in S \ {t} : t \in Above[b]
    BY PathAssumption
  <2> HIDE DEF missing
  <2> QED  BY <1>1, <2>1
<1>3. \A b \in Above[top] : Present(fs, b)
  <2> SUFFICES ASSUME NEW b \in Above[top], ~ Present(fs, b)
               PROVE  FALSE
    OBVIOUS
  <2>1. top \in Path /\ b \in missing /\ b # top
    BY PathAssumption
  <2>2. top \in Above[b] /\ b \in Path
    BY <1>2, <2>1, PathAssumption
  <2>3. Above[b] \subseteq Above[top]
    BY <2>1, PathAssumption
  <2> QED  BY <2>1, <2>2, <2>3, PathAssumption
<1>4. top \in FirstMkdir(fs, p)
  BY <1>3 DEF FirstMkdir
<1> QED  BY <1>1, <1>2, <1>4

\* write_file makes and overwrites only what a rule covers.
LEMMA WriteIsConsented ==
  ASSUME IsTree(fs), RightsOK, rules \in SUBSET Rule,
         \A r \in rules : Backed(r) /\ Present(fs, r.path),
         NEW c \in Call, NEW p \in FileToolWrites(c, fs, rules)
  PROVE  Consented(p, "rw")
<1> DEFINE errs == PathErrors(c, fs, rules)
           made == MkdirAll(fs, c.target)
<1>1. /\ c.tool = "write_file" /\ c.args # "mistyped"
      /\ ~ UnderFile(fs, c.target)
      /\ \A e \in errs : e.op # "mkdir"
      /\ \/ p \in Above[c.target] /\ ~ Present(fs, p)
         \/ p = c.target /\ errs = {} /\ ~ IsDir(fs, p)
  BY DEF FileToolWrites
<1>2. c.target \in Path
  BY DEF Call
<1>3. \A a \in FirstMkdir(fs, c.target) : ~ Blocked(fs, rules, a, "rw", FALSE)
  <2> SUFFICES ASSUME NEW a \in FirstMkdir(fs, c.target),
                      Blocked(fs, rules, a, "rw", FALSE)
               PROVE  FALSE
    OBVIOUS
  <2>1. [op |-> "mkdir", path |-> a] \in errs
    BY <1>1, Zenon DEF PathErrors, FirstMkdir
  <2> QED  BY <1>1, <2>1
<1>4. CASE p \in Above[c.target] /\ ~ Present(fs, p)
  <2>1. PICK top \in FirstMkdir(fs, c.target) : top = p \/ top \in Above[p]
    BY <1>2, <1>4, TopmostMissing
  <2>2. top \in Above[c.target] /\ top \in Path /\ p \in Path
        /\ ~ Present(fs, top) /\ \A b \in Above[top] : Present(fs, b)
    BY <1>2, <1>4, <2>1, PathAssumption DEF FirstMkdir
  <2>3. CanHold(fs, top)
    <3>1. Above[top] \subseteq Above[c.target] /\ Above[top] \subseteq Path
      BY <1>2, <2>2, PathAssumption
    <3> QED
      BY <1>1, <2>2, <3>1 DEF UnderFile, CanHold, IsDir, IsTree, Kind, Present
  <2>4. Permitted(rules, top, "rw", FALSE)
    BY <1>3, <2>3 DEF Blocked
  <2>5. PICK r \in rules : Covers(r, top, FALSE) /\ Suffices(r.mode, "rw")
    BY <2>4 DEF Permitted
  <2>6. r.kind = "dir" /\ r.path \in Above[top]
    BY <2>2, <2>5 DEF Covers
  <2>7. r.path \in Above[p]
    BY <2>1, <2>2, <2>6, PathAssumption
  <2> QED
    BY <2>2, <2>5, <2>6, <2>7, CoveredIsConsented DEF Mode
<1>5. CASE p = c.target /\ errs = {} /\ ~ IsDir(fs, p)
  <2>1. ~ Blocked(made, rules, p, "rw", FALSE)
    <3>1. {a \in FirstMkdir(fs, c.target) :
             Blocked(fs, rules, a, "rw", FALSE)} = {}
      BY <1>3
    <3>2. errs = IF Blocked(made, rules, p, "rw", FALSE)
                 THEN {[op |-> "open", path |-> p]} ELSE {}
      BY <1>1, <1>5, <3>1 DEF PathErrors
    <3> QED  BY <1>5, <3>2
  <2>2. CanHold(made, p)
    BY <1>1, <1>2, <1>5, MkdirAllTree
  <2> QED
    BY <1>2, <1>5, <2>1, <2>2, PermittedIsConsented DEF Blocked, Mode
<1> QED  BY <1>1, <1>4, <1>5

-----------------------------------------------------------------------------
LEMMA BackedInit == Init => BackedRules
BY DEF Init, BackedRules

LEMMA BackedNext ==
  Typing /\ InForce /\ BackedRules /\ [Next]_vars => BackedRules'
<1> SUFFICES ASSUME Typing, InForce, BackedRules, [Next]_vars
             PROVE  BackedRules'
  OBVIOUS
<1>1. ASSUME NEW c \in Calls, UnknownTool(c) PROVE BackedRules'
  BY <1>1 DEF UnknownTool, Return, Failure, BackedRules, Backed, agentVars,
             loopVars, childVars, promptVars
<1>2. ASSUME NEW c \in Calls, Dispatch(c) PROVE BackedRules'
  BY <1>2 DEF Dispatch, BackedRules, Backed, agentVars, loopVars, childVars,
             promptVars
<1>3. CASE Snapshot
  BY <1>3 DEF Snapshot, Return, Failure, BackedRules, Backed, agentVars,
             loopVars, childVars, promptVars
<1>4. CASE GiveUp
  BY <1>4 DEF GiveUp, Return, Failure, BackedRules, Backed, agentVars, loopVars,
             childVars, promptVars
<1>5. CASE Split
  <2>1. env.rights = access
    BY <1>5 DEF Split, InForce, ChildPc
  <2>2. \A r \in rules' : access[r.path] # "none" /\ r.mode = access[r.path]
    BY <1>5, <2>1 DEF Split, SplitDirsFiles
  <2> QED  BY <1>5, <2>2 DEF Split, BackedRules, Backed, agentVars
<1>6. CASE RestrictPaths
  <2>1. CASE RestrictFails(fs, rules)
    BY <1>6, <2>1 DEF RestrictPaths, BackedRules
  <2>2. CASE ~ RestrictFails(fs, rules)
    <3>1. \A r \in BaselineRules(fs) : Backed(r) /\ Present(fs, r.path)
      BY DEF BaselineRules, Backed, Present, IsDir
    <3>2. \A r \in rules : Backed(r) /\ Present(fs, r.path)
      BY <1>6, <2>2 DEF RestrictPaths, BackedRules, RestrictFails
    <3> QED
      BY <1>6, <2>2, <3>1, <3>2 DEF RestrictPaths, BackedRules, Backed, agentVars
  <2> QED  BY <2>1, <2>2
<1>7. CASE RunFileTool
  BY <1>7 DEF RunFileTool, FileToolRuns, Finish, BackedRules, Backed, agentVars, loopVars,
             childVars, promptVars
<1>8. CASE ShellStep
  BY <1>8 DEF ShellStep, Shelling, BackedRules, Backed, RulesLeft, agentVars
<1>9. CASE ShellExit
  BY <1>9 DEF ShellExit, Finish, Shelling, BackedRules, Backed, agentVars,
             loopVars, childVars, promptVars
<1>10. CASE PtraceFails
  BY <1>10 DEF PtraceFails, Shelling, BackedRules, Backed, agentVars, loopVars,
             childVars, promptVars
<1>11. CASE ChildLost
  BY <1>11 DEF ChildLost, Return, Failure, BackedRules, Backed, agentVars,
             loopVars, childVars, promptVars
<1>12. CASE Filter
  BY <1>12 DEF Filter, BackedRules, Backed, agentVars, loopVars, childVars,
             promptVars
<1>13. CASE Ask
  BY <1>13 DEF Ask, BackedRules, Backed, agentVars, loopVars, childVars,
             promptVars
<1>14. ASSUME NEW mode \in Mode, Grant(mode) PROVE BackedRules'
  BY <1>14 DEF Grant, Settled, BackedRules, Backed, agentVars, loopVars,
             childVars, promptVars
<1>15. CASE Decline
  BY <1>15 DEF Decline, Settled, BackedRules, Backed, agentVars, loopVars,
             childVars, promptVars
<1>16. CASE Retry
  BY <1>16 DEF Retry, BackedRules, Backed, agentVars, loopVars, childVars,
             promptVars
<1>17. CASE Surface
  BY <1>17 DEF Surface, Return, BackedRules, Backed, agentVars, loopVars,
             childVars, promptVars
<1>18. CASE Leave
  BY <1>18 DEF Leave, BackedRules, Backed, agentVars, loopVars, childVars,
             promptVars
<1>19. ASSUME NEW mode \in DetectMode, SetDetectMode(mode) PROVE BackedRules'
  BY <1>19 DEF SetDetectMode, BackedRules, Backed, agentVars, loopVars,
             childVars, promptVars
<1>20. CASE Cancel
  BY <1>20 DEF Cancel, BackedRules, Backed, agentVars, loopVars, childVars,
             promptVars
<1>21. ASSUME NEW p \in DOMAIN Volatile, OutsideChange(p) PROVE BackedRules'
  BY <1>21 DEF OutsideChange, BackedRules, Backed, RulesLeft, agentVars
<1>22. CASE UNCHANGED vars
  BY <1>22 DEF vars, BackedRules, Backed, agentVars, loopVars, childVars,
             promptVars
<1>23. CASE FileToolLost
  BY <1>23 DEF FileToolLost, FileToolRuns, Return, Failure, BackedRules, Backed,
             RulesLeft, agentVars
<1> QED
  BY <1>1, <1>2, <1>3, <1>4, <1>5, <1>6, <1>7, <1>8, <1>9, <1>10, <1>11, <1>12,
     <1>13, <1>14, <1>15, <1>16, <1>17, <1>18, <1>19, <1>20, <1>21, <1>22, <1>23
     DEF Next, Begin, Agent, Child, Answer, Outside

\* Whatever the model asks for, however often it is retried and however the
\* tree changes meanwhile, the tool's next read or write is at or beneath a
\* path the user has granted that mode for, or in the fixed baseline.
THEOREM AccessConsented == Spec => []AccessIsConsented
<1>1. Typing /\ BackedRules => AccessIsConsented
  <2> SUFFICES ASSUME Typing, BackedRules, pc = "run"
               PROVE  IF Shelling
                      THEN ~ ShellDone /\ TakesEffect(NextStep, fs, rules) =>
                             \A k \in DOMAIN NextStep.paths :
                               Consented(NextStep.paths[k], NextStep.need)
                      ELSE /\ \A p \in FileToolWrites(call, fs, rules) :
                                Consented(p, "rw")
                           /\ \A p \in FileToolReads(call, fs, rules) :
                                Consented(p, "ro")
    BY DEF AccessIsConsented
  <2>1. /\ IsTree(fs) /\ RightsOK /\ rules \in SUBSET Rule
        /\ \A r \in rules : Backed(r) /\ Present(fs, r.path)
    BY DEF Typing, TypeOK, BackedRules
  <2>2. call \in Call
    BY CallAssumption DEF Typing, TypeOK, ControlOK
  <2>3. CASE Shelling
    <3> SUFFICES ASSUME ~ ShellDone, TakesEffect(NextStep, fs, rules),
                        NEW k \in DOMAIN NextStep.paths
                 PROVE  Consented(NextStep.paths[k], NextStep.need)
      BY <2>3
    <3>1. call.script \in Seq(Step)
      BY <2>2 DEF Call
    <3>2. /\ shell.at \in Nat /\ shell.at <= Len(call.script)
          /\ shell.at # Len(call.script)
      BY DEF Typing, TypeOK, ShellOK, Progress, ShellDone
    <3>3. NextStep \in Step
      BY <3>1, <3>2 DEF NextStep
    <3> QED  BY <2>1, <3>3, StepIsConsented
  <2>4. CASE ~ Shelling
    BY <2>1, <2>2, <2>4, ReadIsConsented, WriteIsConsented
  <2> QED  BY <2>3, <2>4
<1> QED
  BY <1>1, TypingInit, TypingNext, InForceInit, InForceNext, BackedInit,
     BackedNext, PTL DEF Spec
=============================================================================
