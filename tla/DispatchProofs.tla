---------------------------- MODULE DispatchProofs ----------------------------
(***************************************************************************)
(* What Dispatch promises, for every tree of paths, every set of tool      *)
(* calls and every retry cap.                                              *)
(***************************************************************************)
EXTENDS Dispatch, DetectionProofs, SequenceTheorems, FiniteSetTheorems

\* The typing invariant needs to know how far a call has got: the retry cap is
\* not reached while a run is being made or judged, the shell's record speaks
\* of steps of the command, and the denial asked about is a pending one.
Progress ==
  /\ pc \in ChildPc \cup {"filter", "prompt", "asking"} => attempt < MaxRetries
  /\ pc = "run" =>
       /\ shell.at <= Len(call.script)
       /\ shell.refusals \subseteq 1 .. shell.at
       /\ \A i \in shell.refusals : call.script[i].paths # <<>>
  /\ pc = "asking" => prompt.index \in pending
  /\ pc \notin {"prompt", "asking"} => pending = {}
  /\ pc = "idle" => attempt = 0

Typing == TypeOK /\ Progress

\* The two kinds of step that reset a part of the state.
LEMMA Fresh ==
  /\ NoRights \in [Path -> Right]
  /\ Start \in [rights : [Path -> Right], detect : DetectMode]
  /\ NoShell \in [at : Nat, refusals : SUBSET Nat, ended : BOOLEAN,
                  traced : BOOLEAN, status : {"none", "zero", "nonzero"}]
  /\ IsResult(NoResult) /\ DOMAIN NoResult.denials = {}
  /\ NoPrompt \in [index : Nat, grant : Path]
  /\ NoReply \in Reply
<1>1. NoRights \in [Path -> Right]
  BY DEF NoRights, Right
<1>2. Start \in [rights : [Path -> Right], detect : DetectMode]
  BY <1>1 DEF Start, DetectMode
<1>3. IsResult(NoResult) /\ DOMAIN NoResult.denials = {}
  BY DEF NoResult, NoDenials, IsResult
<1>4. NoPrompt \in [index : Nat, grant : Path]
  BY PathAssumption DEF NoPrompt
<1>5. <<>> \in Seq(Path)
  OBVIOUS
<1>6. NoReply \in Reply
  BY <1>5 DEF NoReply, Reply
<1> QED  BY <1>1, <1>2, <1>3, <1>4, <1>6 DEF NoShell, FreshShell

LEMMA FirstAttempt == 0 \in 0 .. MaxRetries
BY DispatchAssumption

LEMMA FailureType ==
  ASSUME NEW kind \in {"unknown", "exec", "aborted"}
  PROVE  Failure(kind) \in Reply
<1>1. <<>> \in Seq(Path)
  OBVIOUS
<1> QED  BY <1>1 DEF Failure, Reply

LEMMA TypingInit == Init => Typing
<1> SUFFICES ASSUME Init PROVE Typing
  OBVIOUS
<1>1. IsTree(fs)
  BY DispatchAssumption DEF Init
<1>2. ControlOK
  BY FirstAttempt, DispatchAssumption DEF Init, ControlOK
<1>3. RightsOK /\ ShellOK /\ rules \in SUBSET Rule
  BY Fresh DEF Init, RightsOK, ShellOK, DetectMode
<1>4. IsResult(result) /\ PromptOK /\ reply \in Reply
  BY Fresh DEF Init, PromptOK
<1>5. DeclinedOK
  BY DEF Init, DeclinedOK
<1>6. Progress
  BY DEF Init, Progress, ChildPc
<1> QED  BY <1>1, <1>2, <1>3, <1>4, <1>5, <1>6 DEF Typing, TypeOK

LEMMA TypingNext == Typing /\ [Next]_vars => Typing'
<1> SUFFICES ASSUME Typing, [Next]_vars PROVE Typing'
  OBVIOUS
<1> USE DEF Typing, TypeOK
<1>1. ASSUME NEW c \in Calls, UnknownTool(c) PROVE Typing'
  <2>1. /\ IsTree(fs)' /\ RightsOK' /\ (rules \in SUBSET Rule)'
       /\ ShellOK' /\ IsResult(result)' /\ PromptOK'
       /\ DeclinedOK'
    BY <1>1 DEF UnknownTool, Return, RightsOK, ShellOK, PromptOK, DeclinedOK, agentVars, loopVars,
         childVars, promptVars
  <2>2. ControlOK'
    BY <1>1, DispatchAssumption DEF UnknownTool, Return, ControlOK, ChildPc,
         agentVars, loopVars,
         childVars, promptVars
  <2>3. (reply \in Reply)'
    BY <1>1, FailureType DEF UnknownTool, Return
  <2>4. Progress'
    BY <1>1 DEF UnknownTool, Return, Progress, ChildPc,
         agentVars, loopVars,
         childVars, promptVars
  <2> QED  BY <2>1, <2>2, <2>3, <2>4
<1>2. ASSUME NEW c \in Calls, Dispatch(c) PROVE Typing'
  <2>1. /\ IsTree(fs)' /\ RightsOK' /\ (rules \in SUBSET Rule)'
       /\ ShellOK' /\ IsResult(result)' /\ PromptOK'
       /\ DeclinedOK' /\ (reply \in Reply)'
    BY <1>2 DEF Dispatch, RightsOK, ShellOK, PromptOK, DeclinedOK, agentVars, loopVars,
         childVars, promptVars
  <2>2. ControlOK'
    BY <1>2, DispatchAssumption DEF Dispatch, ControlOK, ChildPc,
         agentVars, loopVars,
         childVars, promptVars
  <2>3. Progress'
    BY <1>2 DEF Dispatch, Progress, ChildPc,
         agentVars, loopVars,
         childVars, promptVars
  <2> QED  BY <2>1, <2>2, <2>3
<1>3. CASE Snapshot
  <2>1. /\ IsTree(fs)' /\ (rules \in SUBSET Rule)' /\ ShellOK'
       /\ IsResult(result)' /\ PromptOK' /\ DeclinedOK'
    BY <1>3 DEF Snapshot, Return, ShellOK, PromptOK, DeclinedOK, agentVars, loopVars,
         childVars, promptVars
  <2>2. ControlOK'
    BY <1>3, DispatchAssumption DEF Snapshot, Return, ControlOK, ChildPc,
         agentVars, loopVars,
         childVars, promptVars
  <2>3. RightsOK'
    BY <1>3 DEF Snapshot, RightsOK, agentVars
  <2>4. (reply \in Reply)'
    BY <1>3, FailureType DEF Snapshot, Return
  <2>5. Progress'
    BY <1>3 DEF Snapshot, Return, Progress, ChildPc,
         agentVars, loopVars,
         childVars, promptVars
  <2> QED  BY <2>1, <2>2, <2>3, <2>4, <2>5
<1>4. CASE GiveUp
  <2>1. /\ IsTree(fs)' /\ RightsOK' /\ (rules \in SUBSET Rule)'
       /\ ShellOK' /\ IsResult(result)' /\ PromptOK'
       /\ DeclinedOK'
    BY <1>4 DEF GiveUp, Return, RightsOK, ShellOK, PromptOK, DeclinedOK, agentVars, loopVars,
         childVars, promptVars
  <2>2. ControlOK'
    BY <1>4, DispatchAssumption DEF GiveUp, Return, ControlOK, ChildPc,
         agentVars, loopVars,
         childVars, promptVars
  <2>3. (reply \in Reply)'
    BY <1>4, FailureType DEF GiveUp, Return
  <2>4. Progress'
    BY <1>4 DEF GiveUp, Return, Progress, ChildPc,
         agentVars, loopVars,
         childVars, promptVars
  <2> QED  BY <2>1, <2>2, <2>3, <2>4
<1>5. CASE Split
  <2>1. /\ IsTree(fs)' /\ RightsOK' /\ ShellOK'
       /\ IsResult(result)' /\ PromptOK' /\ DeclinedOK'
       /\ (reply \in Reply)'
    BY <1>5 DEF Split, RightsOK, ShellOK, PromptOK, DeclinedOK, agentVars, loopVars,
         childVars, promptVars
  <2>2. ControlOK'
    BY <1>5, DispatchAssumption DEF Split, ControlOK, ChildPc,
         agentVars, loopVars,
         childVars, promptVars
  <2>3. (rules \in SUBSET Rule)'
    BY <1>5 DEF Split, SplitDirsFiles, Rule, RightsOK, Right, Mode, Present,
         IsTree, Kind
  <2>4. Progress'
    BY <1>5 DEF Split, Progress, ChildPc,
         agentVars, loopVars,
         childVars, promptVars
  <2> QED  BY <2>1, <2>2, <2>3, <2>4
<1>6. CASE RestrictPaths
  <2>1. /\ IsTree(fs)' /\ RightsOK' /\ DeclinedOK'
       /\ (reply \in Reply)'
    BY <1>6 DEF RestrictPaths, RightsOK, DeclinedOK, agentVars, loopVars,
         childVars, promptVars
  <2>2. ControlOK'
    BY <1>6, DispatchAssumption DEF RestrictPaths, ControlOK, ChildPc,
         agentVars, loopVars,
         childVars, promptVars
  <2>3. (rules \in SUBSET Rule)'
    BY <1>6, PathAssumption DEF RestrictPaths, BaselineRules, Rule, Mode
  <2>4. ShellOK'
    <3>1. Traces(call) \in BOOLEAN
      BY DEF Traces
    <3>2. CASE shell' = shell
      BY <3>2 DEF ShellOK
    <3>3. CASE shell' = FreshShell(Traces(call))
      BY <3>1, <3>3 DEF FreshShell, ShellOK
    <3> QED  BY <1>6, <3>2, <3>3 DEF RestrictPaths
  <2>5. IsResult(result)'
    BY <1>6, NoDenialsType DEF RestrictPaths
  <2>6. PromptOK'
    BY <1>6 DEF RestrictPaths, PromptOK, Progress, promptVars
  <2>7. Progress'
    BY <1>6 DEF RestrictPaths, Progress, ChildPc, FreshShell, ControlOK, loopVars, promptVars
  <2> QED  BY <2>1, <2>2, <2>3, <2>4, <2>5, <2>6, <2>7
<1>7. CASE RunFileTool
  <2>1. /\ RightsOK' /\ ShellOK' /\ DeclinedOK'
       /\ (reply \in Reply)'
    BY <1>7 DEF RunFileTool, FileToolRuns, Finish, RightsOK, ShellOK, DeclinedOK, agentVars, loopVars,
         childVars, promptVars
  <2>2. ControlOK'
    BY <1>7, DispatchAssumption DEF RunFileTool, FileToolRuns, Finish, ControlOK, ChildPc,
         agentVars, loopVars,
         childVars, promptVars
  <2>3. IsTree(fs)'
    <3>1. call \in Call
      BY <1>7, CallAssumption DEF RunFileTool, FileToolRuns, ControlOK
    <3> QED  BY <1>7, <3>1, AfterFileToolTree DEF RunFileTool, FileToolRuns
  <2>4. (rules \in SUBSET Rule)'
    BY <1>7 DEF RunFileTool, FileToolRuns, RulesLeft
  <2>5. IsResult(result)'
    <3>1. call \in Call
      BY <1>7, CallAssumption DEF RunFileTool, FileToolRuns, ControlOK
    <3> QED  BY <1>7, <3>1, FileToolResultType DEF RunFileTool, FileToolRuns, Finish
  <2>6. PromptOK'
    BY <1>7 DEF RunFileTool, FileToolRuns, Finish, PromptOK, Progress, promptVars
  <2>7. Progress'
    BY <1>7 DEF RunFileTool, FileToolRuns, Finish, Progress, ChildPc,
         agentVars, loopVars,
         childVars, promptVars
  <2> QED  BY <2>1, <2>2, <2>3, <2>4, <2>5, <2>6, <2>7
<1>8. CASE ShellStep
  <2>0. /\ call \in Call /\ NextStep \in Step
        /\ shell.at + 1 <= Len(call.script)
    <3>1. call \in Call
      BY <1>8, CallAssumption DEF ShellStep, Shelling, ControlOK
    <3>2. call.script \in Seq(Step)
      BY <3>1 DEF Call
    <3>3. shell.at \in Nat /\ shell.at <= Len(call.script)
             /\ shell.at # Len(call.script)
      BY <1>8 DEF ShellStep, Shelling, ShellDone, ShellOK, Progress
    <3> QED  BY <3>1, <3>2, <3>3 DEF NextStep
  <2>1. /\ RightsOK' /\ IsResult(result)' /\ PromptOK'
       /\ DeclinedOK' /\ (reply \in Reply)'
    BY <1>8 DEF ShellStep, Shelling, RightsOK, PromptOK, DeclinedOK, agentVars, loopVars,
         childVars, promptVars
  <2>2. ControlOK'
    BY <1>8, DispatchAssumption DEF ShellStep, Shelling, ControlOK, ChildPc,
         agentVars, loopVars,
         childVars, promptVars
  <2>3. IsTree(fs)'
    BY <2>0, <1>8, AfterStepTree DEF ShellStep
  <2>4. (rules \in SUBSET Rule)'
    BY <1>8 DEF ShellStep, RulesLeft
  <2>5. ShellOK'
    <3> DEFINE no == Refused(NextStep, fs, rules)
    <3>1. shell' = [shell EXCEPT
                      !.at = @ + 1,
                      !.refusals = @ \cup {i \in {shell.at + 1} : no},
                      !.ended = no /\ ~ NextStep.tolerated]
      BY <1>8 DEF ShellStep
    <3>2. shell.at + 1 \in Nat
      BY DEF ShellOK
    <3>3. shell.refusals \cup {i \in {shell.at + 1} : no} \in SUBSET Nat
      BY <3>2 DEF ShellOK
    <3>4. (no /\ ~ NextStep.tolerated) \in BOOLEAN
      OBVIOUS
    <3> QED  BY <3>1, <3>2, <3>3, <3>4, Zenon DEF ShellOK
  <2>6. Progress'
    <3>1. \A i \in {shell.at + 1} :
              Refused(NextStep, fs, rules) => call.script[i].paths # <<>>
      BY DEF Refused, LookedUp, NextStep
    <3>2. pc' = "run" /\ call' = call /\ pending' = pending /\ pc = "run"
          /\ attempt' = attempt
      BY <1>8 DEF ShellStep, Shelling, loopVars, promptVars
    <3>3. shell'.at = shell.at + 1 /\ shell.at \in Nat
      BY <1>8 DEF ShellStep, ShellOK
    <3>4. shell'.refusals = shell.refusals \cup
                              {i \in {shell.at + 1} : Refused(NextStep, fs, rules)}
      BY <1>8 DEF ShellStep, ShellOK
    <3>5. shell'.at <= Len(call.script)
      BY <2>0, <3>3
    <3>6. shell'.refusals \subseteq 1 .. shell'.at
      BY <3>2, <3>3, <3>4 DEF Progress
    <3>7. \A i \in shell'.refusals : call.script[i].paths # <<>>
      BY <3>1, <3>2, <3>4 DEF Progress
    <3> QED  BY <3>2, <3>5, <3>6, <3>7 DEF Progress, ChildPc
  <2> QED  BY <2>1, <2>2, <2>3, <2>4, <2>5, <2>6
<1>9. CASE ShellExit
  <2>1. /\ IsTree(fs)' /\ RightsOK' /\ (rules \in SUBSET Rule)'
       /\ DeclinedOK' /\ (reply \in Reply)'
    BY <1>9 DEF ShellExit, Finish, Shelling, RightsOK, DeclinedOK, agentVars, loopVars,
         childVars, promptVars
  <2>2. ControlOK'
    BY <1>9, DispatchAssumption DEF ShellExit, Finish, Shelling, ControlOK, ChildPc,
         agentVars, loopVars,
         childVars, promptVars
  <2>3. ShellOK'
    BY <1>9 DEF ShellExit, ShellOK
  <2>4. IsResult(result)'
    <3>1. call \in Call /\ call.script \in Seq(Step)
      BY <1>9, CallAssumption DEF ShellExit, Shelling, ControlOK, Call
    <3>2. /\ shell.at \in Nat /\ shell.at <= Len(call.script)
          /\ shell.refusals \in SUBSET DOMAIN call.script
          /\ \A i \in shell.refusals : call.script[i].paths # <<>>
      BY <1>9, <3>1 DEF ShellExit, Shelling, ShellOK, Progress
    <3>3. PICK nonzero \in BOOLEAN, raw \in SUBSET shell.refusals :
            result' = IF shell.traced
                      THEN ShellPtraceResult(call, 1 .. shell.at,
                                             shell.refusals, nonzero, raw)
                      ELSE ShellDefaultResult(call, 1 .. shell.at,
                                              shell.refusals)
      BY <1>9 DEF ShellExit, Finish
    <3>4. IsResult([failed |-> FALSE,
                    denials |-> TextDenials(call, 1 .. shell.at,
                                            shell.refusals)])
      BY <3>1, <3>2, TextDenialsType
    <3>5. IsResult([failed |-> TRUE,
                    denials |-> PtraceDenials(call, shell.refusals, raw)])
      BY <3>1, <3>2, PtraceDenialsType
    <3> QED  BY <3>3, <3>4, <3>5 DEF ShellPtraceResult, ShellDefaultResult
  <2>5. PromptOK'
    BY <1>9 DEF ShellExit, Shelling, Finish, PromptOK, Progress, promptVars
  <2>6. Progress'
    BY <1>9 DEF ShellExit, Finish, Shelling, Progress, ChildPc,
         agentVars, loopVars,
         childVars, promptVars
  <2> QED  BY <2>1, <2>2, <2>3, <2>4, <2>5, <2>6
<1>10. CASE PtraceFails
  <2>1. /\ IsTree(fs)' /\ RightsOK' /\ (rules \in SUBSET Rule)'
       /\ IsResult(result)' /\ PromptOK' /\ DeclinedOK'
       /\ (reply \in Reply)'
    BY <1>10 DEF PtraceFails, Shelling, NoShell, FreshShell, RightsOK, PromptOK, DeclinedOK, agentVars, loopVars,
         childVars, promptVars
  <2>2. ControlOK'
    BY <1>10, DispatchAssumption DEF PtraceFails, Shelling, NoShell, FreshShell, ControlOK, ChildPc,
         agentVars, loopVars,
         childVars, promptVars
  <2>3. ShellOK'
    BY <1>10, Fresh DEF PtraceFails, ShellOK
  <2>4. Progress'
    BY <1>10 DEF PtraceFails, Shelling, NoShell, FreshShell, Progress, ChildPc,
         agentVars, loopVars,
         childVars, promptVars
  <2> QED  BY <2>1, <2>2, <2>3, <2>4
<1>11. CASE ChildLost
  <2>1. /\ IsTree(fs)' /\ RightsOK' /\ (rules \in SUBSET Rule)'
       /\ ShellOK' /\ IsResult(result)' /\ PromptOK'
       /\ DeclinedOK'
    BY <1>11 DEF ChildLost, Return, RightsOK, ShellOK, PromptOK, DeclinedOK, agentVars, loopVars,
         childVars, promptVars
  <2>2. ControlOK'
    BY <1>11, DispatchAssumption DEF ChildLost, Return, ControlOK, ChildPc,
         agentVars, loopVars,
         childVars, promptVars
  <2>3. (reply \in Reply)'
    BY <1>11, FailureType DEF ChildLost, Return
  <2>4. Progress'
    BY <1>11 DEF ChildLost, Return, Progress, ChildPc,
         agentVars, loopVars,
         childVars, promptVars
  <2> QED  BY <2>1, <2>2, <2>3, <2>4
<1>12. CASE Filter
  <2>1. /\ IsTree(fs)' /\ RightsOK' /\ (rules \in SUBSET Rule)'
       /\ ShellOK' /\ IsResult(result)' /\ DeclinedOK'
       /\ (reply \in Reply)'
    BY <1>12 DEF Filter, RightsOK, ShellOK, DeclinedOK, agentVars, loopVars,
         childVars, promptVars
  <2>2. ControlOK'
    BY <1>12, DispatchAssumption DEF Filter, ControlOK, ChildPc,
         agentVars, loopVars,
         childVars, promptVars
  <2>3. PromptOK'
    BY <1>12 DEF Filter, PromptOK
  <2>4. Progress'
    BY <1>12 DEF Filter, Progress, ChildPc,
         agentVars, loopVars,
         childVars, promptVars
  <2> QED  BY <2>1, <2>2, <2>3, <2>4
<1>13. CASE Ask
  <2>1. /\ IsTree(fs)' /\ RightsOK' /\ (rules \in SUBSET Rule)'
       /\ ShellOK' /\ IsResult(result)' /\ DeclinedOK'
       /\ (reply \in Reply)'
    BY <1>13 DEF Ask, RightsOK, ShellOK, DeclinedOK, agentVars, loopVars,
         childVars, promptVars
  <2>2. ControlOK'
    BY <1>13, DispatchAssumption DEF Ask, ControlOK, ChildPc,
         agentVars, loopVars,
         childVars, promptVars
  <2>3. PromptOK'
    <3>1. PICK i \in First(pending) :
                 \E g \in resolveGrantTarget(fs, result.denials[i].path) :
                   prompt' = [index |-> i, grant |-> g]
      BY <1>13 DEF Ask
    <3>2. i \in pending /\ i \in Nat
      BY <3>1 DEF First, PromptOK, IsResult
    <3>3. result.denials[i].path \in Path
      BY <3>2 DEF PromptOK, IsResult, Denial
    <3>4. resolveGrantTarget(fs, result.denials[i].path) \subseteq Path
      BY <3>3, PathAssumption DEF resolveGrantTarget
    <3> QED  BY <1>13, <3>1, <3>2, <3>4 DEF Ask, PromptOK
  <2>4. Progress'
    BY <1>13 DEF Ask, Progress, ChildPc, First, loopVars
  <2> QED  BY <2>1, <2>2, <2>3, <2>4
<1>14. ASSUME NEW mode \in Mode, Grant(mode) PROVE Typing'
  <2>1. /\ IsTree(fs)' /\ (rules \in SUBSET Rule)' /\ ShellOK'
       /\ IsResult(result)' /\ DeclinedOK' /\ (reply \in Reply)'
    BY <1>14 DEF Grant, Settled, ShellOK, DeclinedOK, agentVars, loopVars,
         childVars, promptVars
  <2>2. ControlOK'
    BY <1>14, DispatchAssumption DEF Grant, Settled, ControlOK, ChildPc,
         agentVars, loopVars,
         childVars, promptVars
  <2>3. RightsOK'
    BY <1>14 DEF Grant, RightsOK, allow, Right, PromptOK, childVars
  <2>4. PromptOK'
    BY <1>14, Fresh DEF Grant, Settled, PromptOK
  <2>5. Progress'
    BY <1>14 DEF Grant, Settled, Progress, ChildPc,
         agentVars, loopVars,
         childVars, promptVars
  <2> QED  BY <2>1, <2>2, <2>3, <2>4, <2>5
<1>15. CASE Decline
  <2>1. /\ IsTree(fs)' /\ RightsOK' /\ (rules \in SUBSET Rule)'
       /\ ShellOK' /\ IsResult(result)' /\ (reply \in Reply)'
    BY <1>15 DEF Decline, Settled, RightsOK, ShellOK, agentVars, loopVars,
         childVars, promptVars
  <2>2. ControlOK'
    BY <1>15, DispatchAssumption DEF Decline, Settled, ControlOK, ChildPc,
         agentVars, loopVars,
         childVars, promptVars
  <2>3. PromptOK'
    BY <1>15, Fresh DEF Decline, Settled, PromptOK
  <2>4. DeclinedOK'
    <3>1. Asked \in Denial
      BY <1>15 DEF Decline, Asked, Progress, PromptOK, IsResult
    <3>2. Asked.path \in Path
      BY <3>1 DEF Denial
    <3> QED  BY <1>15, <3>2, AppendProperties DEF Decline, DeclinedOK
  <2>5. Progress'
    BY <1>15 DEF Decline, Settled, Progress, ChildPc,
         agentVars, loopVars,
         childVars, promptVars
  <2> QED  BY <2>1, <2>2, <2>3, <2>4, <2>5
<1>16. CASE Retry
  <2>1. /\ IsTree(fs)' /\ RightsOK' /\ (rules \in SUBSET Rule)'
       /\ ShellOK' /\ IsResult(result)' /\ PromptOK'
       /\ DeclinedOK' /\ (reply \in Reply)'
    BY <1>16 DEF Retry, RightsOK, ShellOK, PromptOK, DeclinedOK, agentVars, loopVars,
         childVars, promptVars
  <2>2. ControlOK'
    <3>1. attempt' \in 0 .. MaxRetries
      BY <1>16, DispatchAssumption DEF Retry, ControlOK, Progress
    <3> QED
      BY <1>16, <3>1 DEF Retry, ControlOK, ChildPc, agentVars, promptVars
  <2>3. Progress'
    BY <1>16 DEF Retry, Progress, ChildPc,
         agentVars, loopVars,
         childVars, promptVars
  <2> QED  BY <2>1, <2>2, <2>3
<1>17. CASE Surface
  <2>1. /\ IsTree(fs)' /\ RightsOK' /\ (rules \in SUBSET Rule)'
       /\ ShellOK' /\ IsResult(result)' /\ PromptOK'
       /\ DeclinedOK'
    BY <1>17 DEF Surface, Return, RightsOK, ShellOK, PromptOK, DeclinedOK, agentVars, loopVars,
         childVars, promptVars
  <2>2. ControlOK'
    BY <1>17, DispatchAssumption DEF Surface, Return, ControlOK, ChildPc,
         agentVars, loopVars,
         childVars, promptVars
  <2>3. (reply \in Reply)'
    BY <1>17 DEF Surface, Return, Reply, DeclinedOK
  <2>4. Progress'
    BY <1>17 DEF Surface, Return, Progress, ChildPc,
         agentVars, loopVars,
         childVars, promptVars
  <2> QED  BY <2>1, <2>2, <2>3, <2>4
<1>18. CASE Leave
  <2>1. /\ IsTree(fs)'
    BY <1>18 DEF Leave, agentVars, loopVars,
         childVars, promptVars
  <2>2. ControlOK'
    BY <1>18, FirstAttempt DEF Leave, ControlOK, agentVars
  <2>3. RightsOK'
    BY <1>18, Fresh DEF Leave, RightsOK, agentVars
  <2>4. (rules \in SUBSET Rule)'
    BY <1>18 DEF Leave
  <2>5. ShellOK'
    BY <1>18, Fresh DEF Leave, ShellOK
  <2>6. IsResult(result)'
    BY <1>18, Fresh DEF Leave
  <2>7. PromptOK'
    BY <1>18, Fresh DEF Leave, PromptOK
  <2>8. DeclinedOK'
    BY <1>18 DEF Leave, DeclinedOK
  <2>9. (reply \in Reply)'
    BY <1>18, Fresh DEF Leave
  <2>10. Progress'
    BY <1>18 DEF Leave, Progress, ChildPc,
         agentVars, loopVars,
         childVars, promptVars
  <2> QED  BY <2>1, <2>2, <2>3, <2>4, <2>5, <2>6, <2>7, <2>8, <2>9, <2>10
<1>19. ASSUME NEW mode \in DetectMode, SetDetectMode(mode) PROVE Typing'
  <2>1. /\ IsTree(fs)' /\ (rules \in SUBSET Rule)' /\ ShellOK'
       /\ IsResult(result)' /\ PromptOK' /\ DeclinedOK'
       /\ (reply \in Reply)'
    BY <1>19 DEF SetDetectMode, ShellOK, PromptOK, DeclinedOK, agentVars, loopVars,
         childVars, promptVars
  <2>2. ControlOK'
    BY <1>19, DispatchAssumption DEF SetDetectMode, ControlOK, ChildPc,
         agentVars, loopVars,
         childVars, promptVars
  <2>3. RightsOK'
    BY <1>19 DEF SetDetectMode, RightsOK, childVars
  <2>4. Progress'
    BY <1>19 DEF SetDetectMode, Progress, ChildPc,
         agentVars, loopVars,
         childVars, promptVars
  <2> QED  BY <2>1, <2>2, <2>3, <2>4
<1>20. CASE Cancel
  <2>1. /\ IsTree(fs)' /\ RightsOK' /\ (rules \in SUBSET Rule)'
       /\ ShellOK' /\ IsResult(result)' /\ PromptOK'
       /\ DeclinedOK' /\ (reply \in Reply)'
    BY <1>20 DEF Cancel, RightsOK, ShellOK, PromptOK, DeclinedOK, agentVars, loopVars,
         childVars, promptVars
  <2>2. ControlOK'
    BY <1>20, DispatchAssumption DEF Cancel, ControlOK, ChildPc,
         agentVars, loopVars,
         childVars, promptVars
  <2>3. Progress'
    BY <1>20 DEF Cancel, Progress, ChildPc,
         agentVars, loopVars,
         childVars, promptVars
  <2> QED  BY <2>1, <2>2, <2>3
<1>21. ASSUME NEW p \in DOMAIN Volatile, OutsideChange(p) PROVE Typing'
  <2>1. /\ RightsOK' /\ ShellOK' /\ IsResult(result)'
       /\ PromptOK' /\ DeclinedOK' /\ (reply \in Reply)'
    BY <1>21 DEF OutsideChange, RightsOK, ShellOK, PromptOK, DeclinedOK, agentVars, loopVars,
         childVars, promptVars
  <2>2. ControlOK'
    BY <1>21, DispatchAssumption DEF OutsideChange, ControlOK, ChildPc,
         agentVars, loopVars,
         childVars, promptVars
  <2>3. IsTree(fs)'
    <3>1. p \in Path \ {Root} /\ Volatile[p] \in {"file", "dir"}
      BY DispatchAssumption
    <3>2. CASE Present(fs, p)
      BY <1>21, <3>1, <3>2, RemoveTreeTree DEF OutsideChange
    <3>3. CASE ~ Present(fs, p)
      BY <1>21, <3>1, <3>3, MakeTree DEF OutsideChange
    <3> QED  BY <3>2, <3>3
  <2>4. (rules \in SUBSET Rule)'
    BY <1>21 DEF OutsideChange, RulesLeft
  <2>5. Progress'
    BY <1>21 DEF OutsideChange, Progress, ChildPc,
         agentVars, loopVars,
         childVars, promptVars
  <2> QED  BY <2>1, <2>2, <2>3, <2>4, <2>5
<1>22. CASE UNCHANGED vars
  <2>1. /\ IsTree(fs)' /\ RightsOK' /\ (rules \in SUBSET Rule)'
       /\ ShellOK' /\ IsResult(result)' /\ PromptOK'
       /\ DeclinedOK' /\ (reply \in Reply)'
    BY <1>22 DEF vars, RightsOK, ShellOK, PromptOK, DeclinedOK, agentVars, loopVars,
         childVars, promptVars
  <2>2. ControlOK'
    BY <1>22, DispatchAssumption DEF vars, ControlOK, ChildPc,
         agentVars, loopVars,
         childVars, promptVars
  <2>3. Progress'
    BY <1>22 DEF vars, Progress, ChildPc,
         agentVars, loopVars,
         childVars, promptVars
  <2> QED  BY <2>1, <2>2, <2>3
<1>23. CASE FileToolLost
  <2>1. /\ RightsOK' /\ ShellOK' /\ DeclinedOK' /\ IsResult(result)' /\ PromptOK'
    BY <1>23 DEF FileToolLost, FileToolRuns, RightsOK, ShellOK, DeclinedOK, PromptOK,
         agentVars, loopVars, promptVars
  <2>2. ControlOK'
    BY <1>23, DispatchAssumption DEF FileToolLost, FileToolRuns, Return, ControlOK,
         ChildPc, agentVars, loopVars, promptVars
  <2>3. IsTree(fs)'
    <3>1. call \in Call
      BY <1>23, CallAssumption DEF FileToolLost, FileToolRuns, ControlOK
    <3> QED  BY <1>23, <3>1, AfterFileToolTree DEF FileToolLost, FileToolRuns
  <2>4. (rules \in SUBSET Rule)'
    BY <1>23 DEF FileToolLost, FileToolRuns, RulesLeft
  <2>5. (reply \in Reply)'
    BY <1>23, FailureType DEF FileToolLost, Return
  <2>6. Progress'
    BY <1>23 DEF FileToolLost, FileToolRuns, Return, Progress, ChildPc,
         loopVars, promptVars
  <2> QED  BY <2>1, <2>2, <2>3, <2>4, <2>5, <2>6
<1> QED
  BY <1>1, <1>2, <1>3, <1>4, <1>5, <1>6, <1>7, <1>8, <1>9, <1>10, <1>11, <1>12,
     <1>13, <1>14, <1>15, <1>16, <1>17, <1>18, <1>19, <1>20, <1>21, <1>22,
     <1>23 DEF Next, Begin, Agent, Child, Answer, Outside

\* Every variable keeps its type, the tree stays a tree under everything the
\* tools and the other processes do to it, and the cap is never exceeded.
THEOREM TypeCorrect == Spec => []TypeOK
<1>1. Typing => TypeOK
  BY DEF Typing
<1> QED  BY <1>1, TypingInit, TypingNext, PTL DEF Spec

-----------------------------------------------------------------------------
(* A call gets shorter with every step.                                    *)

\* The prompt loop has finitely many denials before it.
FewDenials == IsFiniteSet(DOMAIN result.denials)

LEMMA DenialPositions ==
  ASSUME Typing, [Next]_vars
  PROVE  result' = result \/ \E n \in Nat : DOMAIN result'.denials \subseteq 1 .. n
<1>1. CASE RestrictPaths \/ Leave
  BY <1>1 DEF RestrictPaths, Leave, NoResult, NoDenials
<1>2. CASE RunFileTool
  <2>1. DOMAIN result'.denials \subseteq {1}
    BY <1>2 DEF RunFileTool, FileToolRuns, Finish, FileToolResult, NoDenials
  <2>2. {1} = 1 .. 1
    OBVIOUS
  <2> QED  BY <2>1, <2>2
<1>3. CASE ShellExit
  <2>1. PICK nonzero \in BOOLEAN, raw \in SUBSET shell.refusals :
          result' = IF shell.traced
                    THEN ShellPtraceResult(call, 1 .. shell.at, shell.refusals,
                                           nonzero, raw)
                    ELSE ShellDefaultResult(call, 1 .. shell.at, shell.refusals)
    BY <1>3 DEF ShellExit, Finish
  <2>2. shell.at \in Nat /\ shell.refusals \subseteq 1 .. shell.at
    BY <1>3 DEF ShellExit, Shelling, Typing, TypeOK, ShellOK, Progress
  <2>3. DOMAIN PtraceDenials(call, shell.refusals, raw) \subseteq shell.refusals
    BY DEF PtraceDenials, Traced
  <2>4. DOMAIN TextDenials(call, 1 .. shell.at, shell.refusals) \subseteq 1 .. shell.at
    BY DEF TextDenials, First
  <2> QED
    BY <2>1, <2>2, <2>3, <2>4 DEF ShellPtraceResult, ShellDefaultResult
<1>4. CASE ~ (RestrictPaths \/ Leave \/ RunFileTool \/ ShellExit)
  BY <1>4 DEF Next, vars, Begin, Agent, Child, Answer, Outside, UnknownTool, Dispatch,
       Snapshot, GiveUp, Split, FileToolLost, ShellStep, PtraceFails, ChildLost, Filter,
       Ask, Grant, Decline, Retry, Surface, SetDetectMode, Cancel, OutsideChange
<1> QED  BY <1>1, <1>2, <1>3, <1>4

LEMMA FewDenialsInit == Init => FewDenials
<1>1. DOMAIN NoResult.denials = {}
  BY Fresh
<1> QED  BY <1>1, FS_EmptySet DEF Init, FewDenials

LEMMA FewDenialsNext == Typing /\ FewDenials /\ [Next]_vars => FewDenials'
<1> SUFFICES ASSUME Typing, FewDenials, [Next]_vars PROVE FewDenials'
  OBVIOUS
<1>1. CASE result' = result
  BY <1>1 DEF FewDenials
<1>2. ASSUME NEW n \in Nat, DOMAIN result'.denials \subseteq 1 .. n PROVE FewDenials'
  <2>1. IsFiniteSet(1 .. n)
    BY FS_Interval
  <2> QED  BY <1>2, <2>1, FS_Subset DEF FewDenials
<1> QED  BY <1>1, <1>2, DenialPositions

LEMMA PendingCount ==
  ASSUME Typing, FewDenials
  PROVE  /\ IsFiniteSet(pending) /\ Cardinality(pending) \in Nat
         /\ pc = "asking" => Cardinality(pending) > 0
         /\ pc = "asking" =>
              Cardinality(pending \ {prompt.index}) = Cardinality(pending) - 1
<1>1. IsFiniteSet(pending)
  BY FS_Subset DEF Typing, TypeOK, PromptOK, FewDenials
<1>2. Cardinality(pending) \in Nat
  BY <1>1, FS_CardinalityType
<1>3. pc = "asking" => prompt.index \in pending
  BY DEF Typing, Progress
<1>4. pending # {} => Cardinality(pending) # 0
  BY <1>1, FS_EmptySet
<1>5. prompt.index \in pending =>
        Cardinality(pending \ {prompt.index}) = Cardinality(pending) - 1
  BY <1>1, FS_RemoveElement
<1> QED  BY <1>1, <1>2, <1>3, <1>4, <1>5

LEMMA ScriptOfRun ==
  ASSUME Typing, pc = "run"
  PROVE  /\ Len(call.script) \in Nat /\ shell.at \in Nat
         /\ shell.at <= Len(call.script) /\ shell.traced \in BOOLEAN
<1>1. call \in Call
  BY CallAssumption DEF Typing, TypeOK, ControlOK
<1>2. call.script \in Seq(Step)
  BY <1>1 DEF Call
<1> QED  BY <1>2 DEF Typing, TypeOK, ShellOK, Progress

LeftIsNatural ==
  /\ MaxRetries - attempt \in Nat /\ Stage \in Nat /\ Todo \in Nat
  /\ Left \in Nat \X Nat \X Nat

LEMMA LeftType == Typing /\ FewDenials => LeftIsNatural
<1> SUFFICES ASSUME Typing, FewDenials PROVE LeftIsNatural
  OBVIOUS
<1>1. MaxRetries - attempt \in Nat
  BY DispatchAssumption DEF Typing, TypeOK, ControlOK
<1>2. Stage \in Nat
  BY DEF Stage
<1>3. Todo \in Nat
  <2>1. CASE pc = "run"
    BY <2>1, ScriptOfRun DEF Todo
  <2>2. CASE pc # "run"
    BY <2>2, PendingCount DEF Todo
  <2> QED  BY <2>1, <2>2
<1> QED  BY <1>1, <1>2, <1>3 DEF Left, LeftIsNatural

LEMMA BelowTriple ==
  ASSUME NEW a1 \in Nat, NEW a2 \in Nat, NEW a3 \in Nat,
         NEW b1 \in Nat, NEW b2 \in Nat, NEW b3 \in Nat,
         \/ a1 < b1
         \/ a1 = b1 /\ a2 < b2
         \/ a1 = b1 /\ a2 = b2 /\ a3 < b3
  PROVE  Below(<<a1, a2, a3>>, <<b1, b2, b3>>)
<1>1. 1 .. 3 = {1, 2, 3}
  OBVIOUS
<1>2. CASE a1 < b1
  BY <1>1, <1>2 DEF Below
<1>3. CASE a1 = b1 /\ a2 < b2
  BY <1>1, <1>3 DEF Below
<1>4. CASE a1 = b1 /\ a2 = b2 /\ a3 < b3
  BY <1>1, <1>4 DEF Below
<1> QED  BY <1>2, <1>3, <1>4

\* What a step of the program does to the three numbers.
LEMMA StepsShorten ==
  ASSUME Typing, FewDenials, Agent \/ Child \/ Answer, pc' # "idle"
  PROVE  \/ attempt < attempt'
         \/ attempt' = attempt /\ Stage' < Stage
         \/ attempt' = attempt /\ Stage' = Stage /\ Todo' < Todo
<1>0. attempt \in Nat
  BY DEF Typing, TypeOK, ControlOK
<1>1. CASE \/ Snapshot \/ GiveUp \/ Split \/ RestrictPaths \/ RunFileTool
           \/ ShellExit \/ ChildLost \/ Filter \/ Surface
  <2>1. attempt' = attempt
    BY <1>1 DEF Snapshot, GiveUp, Split, RestrictPaths, RunFileTool,
         FileToolRuns, ShellExit, Finish, ChildLost, Filter, Surface, loopVars
  <2>2. \/ pc = "attempt" /\ pc' \in {"split", "return"}
        \/ pc = "split" /\ pc' = "restrict"
        \/ pc = "restrict" /\ pc' \in {"filter", "run"}
        \/ pc = "run" /\ pc' = "filter"
        \/ pc \in ChildPc /\ pc' = "return"
        \/ pc = "filter" /\ pc' = "prompt"
        \/ pc = "prompt" /\ pc' = "return"
    BY <1>1 DEF Snapshot, Return, GiveUp, Split, RestrictPaths, RunFileTool,
         FileToolRuns, ShellExit, Shelling, Finish, ChildLost, Filter, Surface
  <2>3. Stage' < Stage
    BY <2>2 DEF Stage, ChildPc
  <2> QED  BY <2>1, <2>3
<1>2. CASE ShellStep
  <2>1. /\ pc = "run" /\ pc' = "run" /\ attempt' = attempt /\ call' = call
        /\ shell'.at = shell.at + 1 /\ shell'.traced = shell.traced
    BY <1>2 DEF ShellStep, Shelling, loopVars, Typing, TypeOK, ShellOK
  <2> QED  BY <2>1, ScriptOfRun DEF Stage, Todo
<1>3. CASE PtraceFails
  <2>1. /\ pc = "run" /\ pc' = "run" /\ attempt' = attempt /\ call' = call
        /\ shell'.at = 0 /\ shell.traced /\ ~ shell'.traced
    BY <1>3 DEF PtraceFails, Shelling, loopVars, NoShell, FreshShell
  <2> QED  BY <2>1, ScriptOfRun DEF Stage, Todo
<1>4. CASE Ask
  <2>1. /\ pc = "prompt" /\ pc' = "asking" /\ attempt' = attempt
        /\ pending' = pending
    BY <1>4 DEF Ask, loopVars
  <2> QED  BY <2>1, PendingCount DEF Stage, Todo
<1>5. CASE Answer
  <2>1. /\ pc = "asking" /\ pc' = "prompt" /\ attempt' = attempt
        /\ pending' = pending \ {prompt.index}
    BY <1>5 DEF Answer, Grant, Decline, Settled, loopVars
  <2>2. Todo = 2 * Cardinality(pending) - 1 /\ Todo' = 2 * Cardinality(pending')
    BY <2>1 DEF Todo
  <2> QED  BY <2>1, <2>2, PendingCount DEF Stage
<1>6. CASE Retry
  BY <1>0, <1>6 DEF Retry
<1>7. CASE Leave
  BY <1>7 DEF Leave
<1>8. CASE FileToolLost
  <2>1. pc = "run" /\ pc' = "return" /\ attempt' = attempt
    BY <1>8 DEF FileToolLost, FileToolRuns, Return, loopVars
  <2> QED  BY <2>1 DEF Stage
<1> QED  BY <1>1, <1>2, <1>3, <1>4, <1>5, <1>6, <1>7, <1>8 DEF Agent, Child

LEMMA SurroundingsKeep ==
  ASSUME [Next]_vars, ~ (Agent \/ Child \/ Answer), pc # "idle"
  PROVE  Left' = Left
<1>1. pc' = pc /\ attempt' = attempt /\ shell' = shell /\ call' = call
        /\ pending' = pending
  BY DEF Next, vars, Begin, Outside, UnknownTool, Dispatch, SetDetectMode, Cancel,
       OutsideChange, loopVars, promptVars, childVars
<1> QED  BY <1>1 DEF Left, Stage, Todo

LEMMA FewerLeft ==
  ASSUME NEW a \in Nat, NEW b \in Nat, NEW n \in Nat, a < b
  PROVE  n - b < n - a
OBVIOUS

\* Under every retry cap, whatever the command does and the user answers, a tool call
\* has a number of attempts, stages and denials left that each step makes less.
THEOREM CallsGetShorter == Spec => CallGetsShorter
<1>1. ASSUME Typing, FewDenials, Typing', LeftIsNatural, LeftIsNatural', [Next]_vars,
             pc # "idle", pc' # "idle"
      PROVE  /\ Left' \in Nat \X Nat \X Nat
             /\ IF Agent \/ Child \/ Answer THEN Below(Left', Left) ELSE Left' = Left
  <2>1. /\ MaxRetries - attempt \in Nat /\ Stage \in Nat /\ Todo \in Nat
        /\ MaxRetries - attempt' \in Nat /\ Stage' \in Nat /\ Todo' \in Nat
        /\ Left' \in Nat \X Nat \X Nat
    BY <1>1 DEF LeftIsNatural
  <2>2. CASE Agent \/ Child \/ Answer
    <3>1. \/ MaxRetries - attempt' < MaxRetries - attempt
          \/ MaxRetries - attempt' = MaxRetries - attempt /\ Stage' < Stage
          \/ MaxRetries - attempt' = MaxRetries - attempt /\ Stage' = Stage /\ Todo' < Todo
      <4>1. attempt \in Nat /\ attempt' \in Nat /\ MaxRetries \in Nat
        BY <1>1, DispatchAssumption DEF Typing, TypeOK, ControlOK
      <4>2. \/ attempt < attempt'
            \/ attempt' = attempt /\ Stage' < Stage
            \/ attempt' = attempt /\ Stage' = Stage /\ Todo' < Todo
        BY <1>1, <2>2, StepsShorten
      <4>3. CASE attempt < attempt'
        <5>1. MaxRetries - attempt' < MaxRetries - attempt
          BY <4>1, <4>3, FewerLeft
        <5> QED  BY <5>1
      <4>4. CASE attempt' = attempt
        <5>1. MaxRetries - attempt' = MaxRetries - attempt /\ ~ (attempt < attempt')
          BY <4>1, <4>4
        <5> QED  BY <4>2, <5>1, Zenon
      <4> QED  BY <4>2, <4>3, <4>4
    <3> QED  BY <2>1, <2>2, <3>1, BelowTriple DEF Left
  <2>3. CASE ~ (Agent \/ Child \/ Answer)
    BY <1>1, <2>1, <2>3, SurroundingsKeep
  <2> QED  BY <2>2, <2>3
<1>2. Typing /\ FewDenials /\ Typing' /\ LeftIsNatural /\ LeftIsNatural' /\ [Next]_vars =>
        [pc # "idle" /\ pc' # "idle" =>
           /\ Left' \in Nat \X Nat \X Nat
           /\ IF Agent \/ Child \/ Answer THEN Below(Left', Left)
              ELSE Left' = Left]_vars
  BY <1>1
<1> QED
  BY <1>2, TypingInit, TypingNext, FewDenialsInit, FewDenialsNext, LeftType, PTL
     DEF Spec, CallGetsShorter
=============================================================================
