----------------------------- MODULE ReplyProofs ------------------------------
(***************************************************************************)
(* What the reply of a tool call says: it comes from a run that had every  *)
(* granted right, and it tells of every refusal; and that Dispatch         *)
(* implements PermissionLoop.                                              *)
(***************************************************************************)
EXTENDS DispatchProofs

\* From the snapshot to the verdict the rights in force are the granted ones;
\* they stop being so exactly when a grant makes the run obsolete.
InForce ==
  /\ pc \in ChildPc \cup {"filter"} => env.rights = access
  /\ pc \in {"prompt", "asking"} /\ ~ sawGrant => env.rights = access
  /\ FreshReply

LEMMA InForceInit == Init => InForce
BY DEF Init, InForce, FreshReply, Answered, ChildPc

LEMMA InForceNext == InForce /\ [Next]_vars => InForce'
<1> SUFFICES ASSUME InForce, [Next]_vars PROVE InForce'
  OBVIOUS
<1>1. ASSUME NEW c \in Calls, UnknownTool(c) PROVE InForce'
  BY <1>1 DEF UnknownTool, Return, Failure, InForce, FreshReply, Answered,
             ChildPc, agentVars, loopVars, childVars, promptVars
<1>2. ASSUME NEW c \in Calls, Dispatch(c) PROVE InForce'
  BY <1>2 DEF Dispatch, InForce, FreshReply, Answered, ChildPc, agentVars,
             loopVars, childVars, promptVars
<1>3. CASE Snapshot
  BY <1>3 DEF Snapshot, Return, Failure, InForce, FreshReply, Answered, ChildPc,
             agentVars, loopVars, childVars, promptVars
<1>4. CASE GiveUp
  BY <1>4 DEF GiveUp, Return, Failure, InForce, FreshReply, Answered, ChildPc,
             agentVars, loopVars, childVars, promptVars
<1>5. CASE Split
  BY <1>5 DEF Split, InForce, FreshReply, Answered, ChildPc, agentVars,
             loopVars, childVars, promptVars
<1>6. CASE RestrictPaths
  BY <1>6 DEF RestrictPaths, InForce, FreshReply, Answered, ChildPc, agentVars,
             loopVars, childVars, promptVars
<1>7. CASE RunFileTool
  BY <1>7 DEF RunFileTool, FileToolRuns, Finish, InForce, FreshReply, Answered, ChildPc,
             agentVars, loopVars, childVars, promptVars
<1>8. CASE ShellStep
  BY <1>8 DEF ShellStep, Shelling, InForce, FreshReply, Answered, ChildPc,
             agentVars, loopVars, childVars, promptVars
<1>9. CASE ShellExit
  BY <1>9 DEF ShellExit, Finish, Shelling, InForce, FreshReply, Answered,
             ChildPc, agentVars, loopVars, childVars, promptVars
<1>10. CASE PtraceFails
  BY <1>10 DEF PtraceFails, Shelling, InForce, FreshReply, Answered, ChildPc,
             agentVars, loopVars, childVars, promptVars
<1>11. CASE ChildLost
  BY <1>11 DEF ChildLost, Return, Failure, InForce, FreshReply, Answered,
             ChildPc, agentVars, loopVars, childVars, promptVars
<1>12. CASE Filter
  BY <1>12 DEF Filter, InForce, FreshReply, Answered, ChildPc, agentVars,
             loopVars, childVars, promptVars
<1>13. CASE Ask
  BY <1>13 DEF Ask, InForce, FreshReply, Answered, ChildPc, agentVars, loopVars,
             childVars, promptVars
<1>14. ASSUME NEW mode \in Mode, Grant(mode) PROVE InForce'
  BY <1>14 DEF Grant, Settled, InForce, FreshReply, Answered, ChildPc, agentVars,
             loopVars, childVars, promptVars
<1>15. CASE Decline
  BY <1>15 DEF Decline, Settled, InForce, FreshReply, Answered, ChildPc,
             agentVars, loopVars, childVars, promptVars
<1>16. CASE Retry
  BY <1>16 DEF Retry, InForce, FreshReply, Answered, ChildPc, agentVars,
             loopVars, childVars, promptVars
<1>17. CASE Surface
  BY <1>17 DEF Surface, Return, InForce, FreshReply, Answered, ChildPc,
             agentVars, loopVars, childVars, promptVars
<1>18. CASE Leave
  BY <1>18 DEF Leave, InForce, FreshReply, Answered, ChildPc, agentVars,
             loopVars, childVars, promptVars
<1>19. ASSUME NEW mode \in DetectMode, SetDetectMode(mode) PROVE InForce'
  BY <1>19 DEF SetDetectMode, InForce, FreshReply, Answered, ChildPc, agentVars,
             loopVars, childVars, promptVars
<1>20. CASE Cancel
  BY <1>20 DEF Cancel, InForce, FreshReply, Answered, ChildPc, agentVars,
             loopVars, childVars, promptVars
<1>21. ASSUME NEW p \in DOMAIN Volatile, OutsideChange(p) PROVE InForce'
  BY <1>21 DEF OutsideChange, InForce, FreshReply, Answered, ChildPc, agentVars,
             loopVars, childVars, promptVars
<1>22. CASE UNCHANGED vars
  BY <1>22 DEF vars, InForce, FreshReply, Answered, ChildPc, agentVars, loopVars,
             childVars, promptVars
<1>23. CASE FileToolLost
  BY <1>23 DEF FileToolLost, FileToolRuns, Return, Failure,
             InForce, FreshReply, Answered, ChildPc, agentVars, loopVars, promptVars
<1> QED
  BY <1>1, <1>2, <1>3, <1>4, <1>5, <1>6, <1>7, <1>8, <1>9, <1>10, <1>11, <1>12,
     <1>13, <1>14, <1>15, <1>16, <1>17, <1>18, <1>19, <1>20, <1>21, <1>22,
     <1>23 DEF Next, Begin, Agent, Child, Answer, Outside

\* The text the model gets for a tool's outcome is the outcome under every
\* right the user has granted, whatever was granted, declined, lost or retried
\* on the way.
THEOREM RepliesAreFresh == Spec => []FreshReply
<1>1. InForce => FreshReply
  BY DEF InForce
<1> QED  BY <1>1, InForceInit, InForceNext, PTL DEF Spec

-----------------------------------------------------------------------------
\* While a run is judged, each of its denials is still to be asked about, has
\* been declined, or will be re-run because something was granted.
Accounted ==
  /\ {deniedOrder[k] : k \in DOMAIN deniedOrder} = deniedSet
  /\ pc \in {"prompt", "asking"} =>
       \A i \in DOMAIN result.denials :
         \/ i \in pending \/ sawGrant
         \/ result.denials[i].path \in deniedSet
  /\ Answered => /\ reply.denied = deniedOrder
                 /\ \A i \in DOMAIN result.denials :
                      result.denials[i].path \in deniedSet

LEMMA AccountedInit == Init => Accounted
BY DEF Init, Accounted, Answered

LEMMA AccountedNext == Typing /\ Accounted /\ [Next]_vars => Accounted'
<1> SUFFICES ASSUME Typing, Accounted, [Next]_vars PROVE Accounted'
  OBVIOUS
<1>1. ASSUME NEW c \in Calls, UnknownTool(c) PROVE Accounted'
  BY <1>1 DEF UnknownTool, Return, Failure, Accounted, Answered, ChildPc,
             agentVars, loopVars, childVars, promptVars
<1>2. ASSUME NEW c \in Calls, Dispatch(c) PROVE Accounted'
  BY <1>2 DEF Dispatch, Accounted, Answered, ChildPc, agentVars, loopVars,
             childVars, promptVars
<1>3. CASE Snapshot
  BY <1>3 DEF Snapshot, Return, Failure, Accounted, Answered, ChildPc,
             agentVars, loopVars, childVars, promptVars
<1>4. CASE GiveUp
  BY <1>4 DEF GiveUp, Return, Failure, Accounted, Answered, ChildPc, agentVars,
             loopVars, childVars, promptVars
<1>5. CASE Split
  BY <1>5 DEF Split, Accounted, Answered, ChildPc, agentVars, loopVars,
             childVars, promptVars
<1>6. CASE RestrictPaths
  BY <1>6 DEF RestrictPaths, Accounted, Answered, ChildPc, agentVars, loopVars,
             childVars, promptVars
<1>7. CASE RunFileTool
  BY <1>7 DEF RunFileTool, FileToolRuns, Finish, Accounted, Answered, ChildPc, agentVars,
             loopVars, childVars, promptVars
<1>8. CASE ShellStep
  BY <1>8 DEF ShellStep, Shelling, Accounted, Answered, ChildPc, agentVars,
             loopVars, childVars, promptVars
<1>9. CASE ShellExit
  BY <1>9 DEF ShellExit, Finish, Shelling, Accounted, Answered, ChildPc,
             agentVars, loopVars, childVars, promptVars
<1>10. CASE PtraceFails
  BY <1>10 DEF PtraceFails, Shelling, Accounted, Answered, ChildPc, agentVars,
             loopVars, childVars, promptVars
<1>11. CASE ChildLost
  BY <1>11 DEF ChildLost, Return, Failure, Accounted, Answered, ChildPc,
             agentVars, loopVars, childVars, promptVars
<1>12. CASE Filter
  BY <1>12 DEF Filter, Accounted, Answered, ChildPc, agentVars, loopVars,
             childVars, promptVars
<1>13. CASE Ask
  BY <1>13 DEF Ask, Accounted, Answered, ChildPc, agentVars, loopVars, childVars,
             promptVars
<1>14. ASSUME NEW mode \in Mode, Grant(mode) PROVE Accounted'
  BY <1>14 DEF Grant, Settled, Accounted, Answered, ChildPc, agentVars, loopVars,
             childVars, promptVars
<1>15. CASE Decline
  <2>1. Asked.path \in Path /\ deniedOrder \in Seq(Path)
    BY <1>15 DEF Decline, Asked, Typing, TypeOK, Progress, PromptOK, DeclinedOK,
             IsResult, Denial
  <2>2. {deniedOrder'[k] : k \in DOMAIN deniedOrder'} = deniedSet'
    BY <1>15, <2>1 DEF Decline, Accounted
  <2>3. \A i \in DOMAIN result'.denials :
          \/ i \in pending' \/ sawGrant'
          \/ result'.denials[i].path \in deniedSet'
    BY <1>15 DEF Decline, Settled, Asked, Accounted
  <2> QED  BY <1>15, <2>2, <2>3 DEF Decline, Settled, Accounted, Answered
<1>16. CASE Retry
  BY <1>16 DEF Retry, Accounted, Answered, ChildPc, agentVars, loopVars,
             childVars, promptVars
<1>17. CASE Surface
  BY <1>17 DEF Surface, Return, Accounted, Answered, ChildPc, agentVars,
             loopVars, childVars, promptVars
<1>18. CASE Leave
  BY <1>18 DEF Leave, Accounted, Answered, ChildPc, agentVars, loopVars,
             childVars, promptVars
<1>19. ASSUME NEW mode \in DetectMode, SetDetectMode(mode) PROVE Accounted'
  BY <1>19 DEF SetDetectMode, Accounted, Answered, ChildPc, agentVars, loopVars,
             childVars, promptVars
<1>20. CASE Cancel
  BY <1>20 DEF Cancel, Accounted, Answered, ChildPc, agentVars, loopVars,
             childVars, promptVars
<1>21. ASSUME NEW p \in DOMAIN Volatile, OutsideChange(p) PROVE Accounted'
  BY <1>21 DEF OutsideChange, Accounted, Answered, ChildPc, agentVars, loopVars,
             childVars, promptVars
<1>22. CASE UNCHANGED vars
  BY <1>22 DEF vars, Accounted, Answered, ChildPc, agentVars, loopVars,
             childVars, promptVars
<1>23. CASE FileToolLost
  BY <1>23 DEF FileToolLost, FileToolRuns, Return, Failure,
             Accounted, Answered, agentVars, loopVars, promptVars
<1> QED
  BY <1>1, <1>2, <1>3, <1>4, <1>5, <1>6, <1>7, <1>8, <1>9, <1>10, <1>11, <1>12,
     <1>13, <1>14, <1>15, <1>16, <1>17, <1>18, <1>19, <1>20, <1>21, <1>22,
     <1>23 DEF Next, Begin, Agent, Child, Answer, Outside

\* No refusal is dropped: the user has declined each denial of the surfaced run,
\* and the reply names its path and that of every denial declined in an earlier
\* run of the call.
THEOREM RefusalsTold == Spec => []RefusalsAreTold
<1>1. Accounted => RefusalsAreTold
  BY DEF Accounted, RefusalsAreTold
<1> QED
  BY <1>1, TypingInit, TypingNext, AccountedInit, AccountedNext, PTL DEF Spec

-----------------------------------------------------------------------------
\* Unless a /proc lookup of the tracer fails, a run reports no path twice, and
\* the denials still to be asked about are not of declined paths.
AskedOnce ==
  /\ pc \in {"filter", "prompt", "asking"} => Distinct(result.denials)
  /\ pc \in {"prompt", "asking"} =>
       \A i \in pending : result.denials[i].path \notin deniedSet
  /\ DeclinedListedOnce

LEMMA AskedOnceInit == Init => AskedOnce
BY DEF Init, AskedOnce, DeclinedListedOnce

LEMMA AskedOnceNext ==
  ASSUME ~ ProcRaces
  PROVE  Typing /\ AskedOnce /\ [Next]_vars => AskedOnce'
<1> SUFFICES ASSUME Typing, AskedOnce, [Next]_vars PROVE AskedOnce'
  OBVIOUS
<1>1. ASSUME NEW c \in Calls, UnknownTool(c) PROVE AskedOnce'
  BY <1>1 DEF UnknownTool, Return, Failure, AskedOnce, DeclinedListedOnce,
             ChildPc, agentVars, loopVars, childVars, promptVars
<1>2. ASSUME NEW c \in Calls, Dispatch(c) PROVE AskedOnce'
  BY <1>2 DEF Dispatch, AskedOnce, DeclinedListedOnce, ChildPc, agentVars,
             loopVars, childVars, promptVars
<1>3. CASE Snapshot
  BY <1>3 DEF Snapshot, Return, Failure, AskedOnce, DeclinedListedOnce, ChildPc,
             agentVars, loopVars, childVars, promptVars
<1>4. CASE GiveUp
  BY <1>4 DEF GiveUp, Return, Failure, AskedOnce, DeclinedListedOnce, ChildPc,
             agentVars, loopVars, childVars, promptVars
<1>5. CASE Split
  BY <1>5 DEF Split, AskedOnce, DeclinedListedOnce, ChildPc, agentVars,
             loopVars, childVars, promptVars
<1>6. CASE RestrictPaths
  BY <1>6 DEF RestrictPaths, AskedOnce, DeclinedListedOnce, Distinct, NoDenials,
           loopVars, promptVars
<1>7. CASE RunFileTool
  <2>1. call \in Call
    BY <1>7, CallAssumption DEF RunFileTool, FileToolRuns, Typing, TypeOK, ControlOK
  <2>2. Distinct(result'.denials)
    BY <1>7, <2>1, OneDenialDistinct DEF RunFileTool, FileToolRuns, Finish
  <2> QED
    BY <1>7, <2>2 DEF RunFileTool, FileToolRuns, Finish, AskedOnce, DeclinedListedOnce, loopVars
<1>8. CASE ShellStep
  BY <1>8 DEF ShellStep, Shelling, AskedOnce, DeclinedListedOnce, ChildPc,
             agentVars, loopVars, childVars, promptVars
<1>9. CASE ShellExit
  <2>1. call \in Call /\ call.script \in Seq(Step)
    BY <1>9, CallAssumption
       DEF ShellExit, Shelling, Typing, TypeOK, ControlOK, Call
  <2>2. /\ 1 .. shell.at \subseteq Nat
        /\ shell.refusals \in SUBSET DOMAIN call.script
    BY <1>9, <2>1 DEF ShellExit, Shelling, Typing, TypeOK, ShellOK, Progress
  <2>3. PICK nonzero \in BOOLEAN, raw \in SUBSET shell.refusals :
          /\ raw # {} => ProcRaces
          /\ result' = IF shell.traced
                       THEN ShellPtraceResult(call, 1 .. shell.at,
                                              shell.refusals, nonzero, raw)
                       ELSE ShellDefaultResult(call, 1 .. shell.at,
                                               shell.refusals)
    BY <1>9 DEF ShellExit, Finish
  <2>4. raw = {}
    BY <2>3
  <2>5. Distinct(TextDenials(call, 1 .. shell.at, shell.refusals))
    BY <2>2, OneDenialDistinct
  <2>6. Distinct(PtraceDenials(call, shell.refusals, raw))
    BY <2>1, <2>2, <2>4, PtraceDenialsDistinct
  <2>7. Distinct(result'.denials)
    BY <2>3, <2>5, <2>6 DEF ShellPtraceResult, ShellDefaultResult
  <2> QED
    BY <1>9, <2>7 DEF ShellExit, Finish, AskedOnce, DeclinedListedOnce, loopVars
<1>10. CASE PtraceFails
  BY <1>10 DEF PtraceFails, Shelling, AskedOnce, DeclinedListedOnce, ChildPc,
             agentVars, loopVars, childVars, promptVars
<1>11. CASE ChildLost
  BY <1>11 DEF ChildLost, Return, Failure, AskedOnce, DeclinedListedOnce,
             ChildPc, agentVars, loopVars, childVars, promptVars
<1>12. CASE Filter
  BY <1>12 DEF Filter, AskedOnce, DeclinedListedOnce, ChildPc, agentVars,
             loopVars, childVars, promptVars
<1>13. CASE Ask
  BY <1>13 DEF Ask, AskedOnce, DeclinedListedOnce, ChildPc, agentVars, loopVars,
             childVars, promptVars
<1>14. ASSUME NEW mode \in Mode, Grant(mode) PROVE AskedOnce'
  BY <1>14 DEF Grant, Settled, AskedOnce, DeclinedListedOnce, ChildPc, agentVars,
             loopVars, childVars, promptVars
<1>15. CASE Decline
  <2>1. /\ Asked.path \in Path /\ deniedOrder \in Seq(Path)
        /\ prompt.index \in pending /\ pending \subseteq DOMAIN result.denials
    BY <1>15 DEF Decline, Asked, Typing, TypeOK, Progress, PromptOK, DeclinedOK,
             IsResult, Denial
  <2>2. Asked.path \notin deniedSet
    BY <1>15, <2>1 DEF Decline, AskedOnce, Asked
  <2>3. DeclinedListedOnce'
    <3>1. {deniedOrder[k] : k \in DOMAIN deniedOrder} = deniedSet
      BY DEF AskedOnce, DeclinedListedOnce
    <3>2. deniedOrder' = Append(deniedOrder, Asked.path)
          /\ deniedSet' = deniedSet \cup {Asked.path}
      BY <1>15 DEF Decline
    <3>3. \A k \in DOMAIN deniedOrder : deniedOrder[k] # Asked.path
      BY <2>2, <3>1
    <3>4. {deniedOrder'[k] : k \in DOMAIN deniedOrder'} = deniedSet'
      BY <2>1, <3>1, <3>2
    <3>5. \A j, k \in DOMAIN deniedOrder' :
            deniedOrder'[j] = deniedOrder'[k] => j = k
      BY <2>1, <3>2, <3>3 DEF AskedOnce, DeclinedListedOnce
    <3> QED  BY <3>4, <3>5 DEF DeclinedListedOnce
  <2>4. \A i \in pending' : result'.denials[i].path \notin deniedSet'
    <3>1. Distinct(result.denials)
          /\ \A i \in pending : result.denials[i].path \notin deniedSet
      BY <1>15 DEF Decline, AskedOnce
    <3> QED
      BY <1>15, <2>1, <3>1 DEF Decline, Settled, Asked, Distinct
  <2> QED
    BY <1>15, <2>3, <2>4 DEF Decline, Settled, AskedOnce
<1>16. CASE Retry
  BY <1>16 DEF Retry, AskedOnce, DeclinedListedOnce, ChildPc, agentVars,
             loopVars, childVars, promptVars
<1>17. CASE Surface
  BY <1>17 DEF Surface, Return, AskedOnce, DeclinedListedOnce, ChildPc,
             agentVars, loopVars, childVars, promptVars
<1>18. CASE Leave
  BY <1>18 DEF Leave, AskedOnce, DeclinedListedOnce, ChildPc, agentVars,
             loopVars, childVars, promptVars
<1>19. ASSUME NEW mode \in DetectMode, SetDetectMode(mode) PROVE AskedOnce'
  BY <1>19 DEF SetDetectMode, AskedOnce, DeclinedListedOnce, ChildPc, agentVars,
             loopVars, childVars, promptVars
<1>20. CASE Cancel
  BY <1>20 DEF Cancel, AskedOnce, DeclinedListedOnce, ChildPc, agentVars,
             loopVars, childVars, promptVars
<1>21. ASSUME NEW p \in DOMAIN Volatile, OutsideChange(p) PROVE AskedOnce'
  BY <1>21 DEF OutsideChange, AskedOnce, DeclinedListedOnce, ChildPc, agentVars,
             loopVars, childVars, promptVars
<1>22. CASE UNCHANGED vars
  BY <1>22 DEF vars, AskedOnce, DeclinedListedOnce, ChildPc, agentVars, loopVars,
             childVars, promptVars
<1>23. CASE FileToolLost
  BY <1>23 DEF FileToolLost, FileToolRuns, Return, Failure,
             AskedOnce, DeclinedListedOnce, loopVars, promptVars
<1> QED
  BY <1>1, <1>2, <1>3, <1>4, <1>5, <1>6, <1>7, <1>8, <1>9, <1>10, <1>11, <1>12,
     <1>13, <1>14, <1>15, <1>16, <1>17, <1>18, <1>19, <1>20, <1>21, <1>22,
     <1>23 DEF Next, Begin, Agent, Child, Answer, Outside

\* The user is not asked again about a path he declined in the same tool call: for
\* as long as the tracer's /proc lookups succeed.
THEOREM DeclinesAreFinal ==
  ASSUME ~ ProcRaces
  PROVE  Spec => []DeclinedNotReprompted
<1>1. Typing /\ AskedOnce => DeclinedNotReprompted
  BY DEF Typing, Progress, AskedOnce, DeclinedNotReprompted, Asked
<1> QED
  BY <1>1, TypingInit, TypingNext, AskedOnceInit, AskedOnceNext, PTL DEF Spec

\* The reply's prefix lists each declined path once, on the same condition.
THEOREM DeclinesListedOnce ==
  ASSUME ~ ProcRaces
  PROVE  Spec => []DeclinedListedOnce
<1>1. AskedOnce => DeclinedListedOnce
  BY DEF AskedOnce
<1> QED
  BY <1>1, TypingInit, TypingNext, AskedOnceInit, AskedOnceNext, PTL DEF Spec

-----------------------------------------------------------------------------
(* Every step of the agent, the child, the user and the other processes is *)
(* a step of the abstract loop or leaves it alone.                         *)

\* accessStore.allow only ever adds rights.
LEMMA AllowAdds ==
  ASSUME access \in [Path -> Right], NEW p \in Path, NEW m \in Mode
  PROVE  Rights(access) \subseteq Rights(allow(p, m))
BY DEF Rights, allow, Suffices, Right, Mode

LEMMA LoopInit == Init => Loop!Init
<1> SUFFICES ASSUME Init PROVE Loop!Init
  OBVIOUS
<1>1. Rights(NoRights) = {}
  BY DEF Rights, NoRights, Suffices, Mode
<1>2. Rights(access) = {} /\ Rights(env.rights) = {}
  BY <1>1 DEF Init, Start
<1>3. Phase = "idle" /\ Runs = 0 /\ Obsolete = FALSE
  <2>1. pc = "idle"
    BY DEF Init
  <2> QED  BY <2>1 DEF Phase, Runs, Obsolete, ChildPc
<1> QED
  BY <1>2, <1>3 DEF Loop!Init

\* What a step does to the abstract state.
Still == /\ Rights(access)' = Rights(access)
         /\ Rights(env.rights)' = Rights(env.rights)

LEMMA StillFacts ==
  ASSUME access' = access, env' = env PROVE Still
BY DEF Still, Rights

LEMMA LoopNext ==
  Typing /\ InForce /\ [Next]_vars => [Loop!Next]_(Loop!vars)
<1> SUFFICES ASSUME Typing, InForce, [Next]_vars
             PROVE  [Loop!Next]_(Loop!vars)
  OBVIOUS
<1>0. attempt \in Nat
  BY DispatchAssumption DEF Typing, TypeOK, ControlOK
<1> USE DEF agentVars, childVars, promptVars, loopVars
<1>1. ASSUME NEW c \in Calls, UnknownTool(c) PROVE Loop!Fail
  <2>1. Still
    BY <1>1, StillFacts DEF UnknownTool
  <2>2. /\ Phase = "idle" /\ Phase' = "done" /\ Runs' = 0
        /\ Obsolete = FALSE /\ Obsolete' = FALSE
    BY <1>1 DEF UnknownTool, Return, Phase, Runs, Obsolete, ChildPc
  <2> QED  BY <2>1, <2>2 DEF Still, Loop!Fail, Loop!Stop
<1>2. ASSUME NEW c \in Calls, Dispatch(c) PROVE Loop!Begin
  <2>1. Still
    BY <1>2, StillFacts DEF Dispatch
  <2>2. /\ Phase = "idle" /\ Phase' = "due" /\ Runs = 0 /\ Runs' = 0
        /\ Obsolete = FALSE /\ Obsolete' = FALSE
    BY <1>2 DEF Dispatch, Phase, Runs, Obsolete, ChildPc, Typing, Progress
  <2> QED  BY <2>1, <2>2 DEF Still, Loop!Begin
<1>3. CASE Snapshot
  <2>1. /\ Phase = "due" /\ Runs = attempt /\ Obsolete = FALSE
        /\ attempt < MaxRetries /\ Obsolete' = FALSE
        /\ access' = access /\ attempt' = attempt
    BY <1>3 DEF Snapshot, Return, Phase, Runs, Obsolete, ChildPc
  <2>2. CASE cancelled \/ call.args = "malformed"
    <3>1. Still
      BY <1>3, <2>2, StillFacts DEF Snapshot
    <3>2. Phase' = "done" /\ Runs' = 0
      BY <1>3, <2>2 DEF Snapshot, Return, Phase, Runs, ChildPc
    <3>3. Loop!Fail
      BY <2>1, <3>1, <3>2 DEF Still, Loop!Fail, Loop!Stop
    <3> QED  BY <3>3 DEF Loop!Next
  <2>3. CASE ~ (cancelled \/ call.args = "malformed")
    <3>1. Rights(access)' = Rights(access)
          /\ Rights(env.rights)' = Rights(access)
      BY <1>3, <2>1, <2>3 DEF Snapshot, Rights
    <3>2. Phase' = "running" /\ Runs' = attempt + 1
      BY <1>3, <2>1, <2>3 DEF Snapshot, Phase, Runs, ChildPc
    <3>3. Loop!StartRun
      BY <2>1, <3>1, <3>2 DEF Loop!StartRun
    <3> QED  BY <3>3 DEF Loop!Next
  <2> QED  BY <2>2, <2>3
<1>4. CASE GiveUp
  <2>1. Still
    BY <1>4, StillFacts DEF GiveUp
  <2>2. /\ Phase = "due" /\ Phase' = "done" /\ Runs = MaxRetries /\ Runs' = 0
        /\ Obsolete = FALSE /\ Obsolete' = FALSE
    BY <1>4 DEF GiveUp, Return, Phase, Runs, Obsolete, ChildPc
  <2>3. Loop!GiveUp
    BY <2>1, <2>2 DEF Still, Loop!GiveUp, Loop!Stop
  <2> QED  BY <2>3 DEF Loop!Next
\* The child's own steps, and those of the surroundings, are not seen.
<1>5. ASSUME \/ Split \/ ShellStep \/ PtraceFails \/ Ask \/ Cancel \/ Filter
             \/ \E mode \in DetectMode : SetDetectMode(mode)
             \/ \E p \in DOMAIN Volatile : OutsideChange(p)
             \/ UNCHANGED vars
             \/ RestrictPaths /\ pc' = "run"
      PROVE  UNCHANGED Loop!vars
  <2>1. access' = access /\ env' = env /\ attempt' = attempt
    BY <1>5 DEF Split, ShellStep, PtraceFails, Ask, Cancel, Filter,
                SetDetectMode, OutsideChange, RestrictPaths, vars
  <2>2. Still
    BY <2>1, StillFacts
  <2>3. Phase' = Phase /\ Runs' = Runs /\ Obsolete' = Obsolete
    <3>1. \/ pc' = pc /\ sawGrant' = sawGrant
          \/ pc \in ChildPc /\ pc' \in ChildPc
          \/ pc = "filter" /\ pc' = "prompt" /\ sawGrant' = FALSE
          \/ pc = "prompt" /\ pc' = "asking" /\ sawGrant' = sawGrant
      BY <1>5 DEF Split, ShellStep, PtraceFails, Ask, Cancel, Filter,
                  SetDetectMode, OutsideChange, RestrictPaths, vars, ChildPc
    <3> QED  BY <2>1, <3>1 DEF Phase, Runs, Obsolete, ChildPc
  <2> QED  BY <2>2, <2>3 DEF Still, Loop!vars
<1>6. ASSUME \/ RestrictPaths /\ pc' # "run"
             \/ RunFileTool
             \/ ShellExit
      PROVE  Loop!EndRun
  <2>1. access' = access /\ env' = env /\ attempt' = attempt
    BY <1>6 DEF RestrictPaths, RunFileTool, FileToolRuns, ShellExit, Shelling, Finish
  <2>2. Still
    BY <2>1, StillFacts
  <2>3. pc \in ChildPc /\ pc' = "filter"
    BY <1>6 DEF RestrictPaths, RunFileTool, FileToolRuns, ShellExit, Shelling, Finish, ChildPc
  <2>4. /\ Phase = "running" /\ Phase' = "judging" /\ Runs' = Runs
        /\ Obsolete' = FALSE /\ Obsolete = FALSE
    BY <2>1, <2>3 DEF Phase, Runs, Obsolete, ChildPc
  <2> QED  BY <2>2, <2>4 DEF Still, Loop!EndRun
<1>7. CASE ChildLost \/ FileToolLost
  <2>1. Still
    BY <1>7, StillFacts DEF ChildLost, FileToolLost
  <2>2. /\ Phase = "running" /\ Phase' = "done" /\ Runs' = 0
        /\ Obsolete = FALSE /\ Obsolete' = FALSE
    BY <1>7 DEF ChildLost, FileToolLost, FileToolRuns, Return, Phase, Runs, Obsolete, ChildPc
  <2>3. Loop!Fail
    BY <2>1, <2>2 DEF Still, Loop!Fail, Loop!Stop
  <2> QED  BY <2>3 DEF Loop!Next
<1>8. ASSUME NEW mode \in Mode, Grant(mode) PROVE Loop!Consent
  <2>1. access' = allow(prompt.grant, mode) /\ env' = env /\ attempt' = attempt
    BY <1>8 DEF Grant
  <2>2. Rights(access) \subseteq Rights(access)'
    <3>1. prompt.grant \in Path /\ access \in [Path -> Right]
      BY DEF Typing, TypeOK, PromptOK, RightsOK
    <3>2. Rights(access)' = Rights(allow(prompt.grant, mode))
      BY <2>1 DEF Rights
    <3> QED  BY <3>1, <3>2, AllowAdds
  <2>3. Rights(access)' \in SUBSET (Path \X Mode)
    BY DEF Rights
  <2>4. Rights(env.rights)' = Rights(env.rights)
    BY <2>1 DEF Rights
  <2>5. /\ Phase = "judging" /\ Phase' = "judging" /\ Runs' = Runs
        /\ Obsolete' = TRUE
    BY <1>8, <2>1 DEF Grant, Settled, Phase, Runs, Obsolete, ChildPc
  <2>6. Rights(access)' = Rights(access) \cup Rights(access)'
    BY <2>2
  <2> QED  BY <2>3, <2>4, <2>5, <2>6 DEF Loop!Consent
<1>9. CASE Decline
  <2>1. access' = access /\ env' = env /\ attempt' = attempt
    BY <1>9 DEF Decline
  <2>2. Still
    BY <2>1, StillFacts
  <2>3. Phase' = Phase /\ Runs' = Runs /\ Obsolete' = Obsolete
    BY <1>9, <2>1 DEF Decline, Settled, Phase, Runs, Obsolete, ChildPc
  <2> QED  BY <2>2, <2>3 DEF Still, Loop!vars
<1>10. CASE Retry
  <2>1. Still
    BY <1>10, StillFacts DEF Retry
  <2>2. /\ Phase = "judging" /\ Phase' = "due" /\ Runs' = Runs
        /\ Obsolete = TRUE /\ Obsolete' = FALSE
    BY <1>10 DEF Retry, Phase, Runs, Obsolete, ChildPc, Typing, TypeOK,
                 ControlOK
  <2>3. Loop!RunAgain
    BY <2>1, <2>2 DEF Still, Loop!RunAgain
  <2> QED  BY <2>3 DEF Loop!Next
<1>11. CASE Surface
  <2>1. Still
    BY <1>11, StillFacts DEF Surface
  <2>2. /\ Phase = "judging" /\ Phase' = "done" /\ Runs' = 0
        /\ Obsolete = FALSE /\ Obsolete' = FALSE
    BY <1>11 DEF Surface, Return, Phase, Runs, Obsolete, ChildPc, Typing,
                 TypeOK, ControlOK
  <2>3. Rights(env.rights) = Rights(access)
    BY <1>11 DEF Surface, InForce
  <2>4. Loop!Surface
    BY <2>1, <2>2, <2>3 DEF Still, Loop!Surface, Loop!Stop
  <2> QED  BY <2>4 DEF Loop!Next
<1>12. CASE Leave
  <2>1. Rights(access)' = Rights(access) /\ Rights(env.rights)' = {}
    BY <1>12 DEF Leave, Rights, Start, NoRights, Suffices, Mode
  <2>2. /\ Phase = "done" /\ Phase' = "idle" /\ Runs = 0 /\ Runs' = 0
        /\ Obsolete = FALSE /\ Obsolete' = FALSE
    BY <1>12 DEF Leave, Phase, Runs, Obsolete, ChildPc
  <2>3. Loop!End
    BY <2>1, <2>2 DEF Loop!End
  <2> QED  BY <2>3 DEF Loop!Next
<1> QED
  BY <1>1, <1>2, <1>3, <1>4, <1>5, <1>6, <1>7, <1>8, <1>9, <1>10, <1>11, <1>12
     DEF Next, Begin, Agent, Child, Answer, Outside, Loop!Next, RestrictPaths

\* A tool call keeps the promises of the abstract consent loop: runs confined
\* to a snapshot of the rights, rights never withdrawn or weakened, no run
\* surfaced that a grant has made obsolete, at most MaxRetries runs.
THEOREM Implements == Spec => ImplementsPermissionLoop
<1>1. Spec => Loop!Spec
  BY LoopInit, LoopNext, TypingInit, TypingNext, InForceInit, InForceNext, PTL
     DEF Spec, Loop!Spec
<1> QED  BY <1>1 DEF ImplementsPermissionLoop
=============================================================================
