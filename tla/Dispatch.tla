------------------------------- MODULE Dispatch -------------------------------
(***************************************************************************)
(* One tool call, from the moment the model asks for it to the text it     *)
(* gets back: agent.dispatch, promptAccess and the access store in the     *)
(* agent process, sandbox.Exec and runChild between the two processes, and *)
(* the tool in the sandboxed child, with the other processes of the        *)
(* machine changing the file tree meanwhile.                               *)
(*                                                                         *)
(* The agent is single-threaded, and while a child runs the agent waits    *)
(* for it, so one program counter pc names the place of both:              *)
(*   idle      no tool call in progress                                    *)
(*   attempt   dispatch, at the head of its for loop                       *)
(*   split     the child has its envelope, before splitDirsFiles           *)
(*   restrict  the child, before RestrictPaths                             *)
(*   run       the tool handler                                            *)
(*   filter    dispatch has the child's result                             *)
(*   prompt    dispatch, in its loop over newDenials                       *)
(*   asking    promptAccess waits for the user's line                      *)
(*   return    dispatch returns `reply' to Turn                            *)
(***************************************************************************)
EXTENDS Detection, FiniteSets

CONSTANTS
  Trees,        \* the file trees minai may be started on
  MaxRetries,   \* maxPermissionRetries
  NoCall,       \* no tool call in progress
  Volatile,     \* what other processes create and remove, and as what kind
  ProcRaces     \* whether the tracer's /proc lookups may fail

ASSUME DispatchAssumption ==
  /\ \A t \in Trees : IsTree(t)
  /\ MaxRetries \in Nat \ {0}
  /\ NoCall \notin Calls
  /\ DOMAIN Volatile \subseteq Path \ {Root}
  /\ \A p \in DOMAIN Volatile : Volatile[p] \in {"file", "dir"}
  /\ ProcRaces \in BOOLEAN

VARIABLES
  fs,           \* the file tree
  access,       \* accessStore.m; "none" for a path it does not hold
  detectMode,   \* Agent.detectMode
  autoYes,      \* MINAI_YES
  cancelled,    \* the Turn's context is done
  pc,
  call,         \* tc
  attempt,      \* the loop variable of dispatch
  env,          \* what the envelope says: the access snapshot, the detect mode
  rules,        \* the child's Landlock rule set
  shell,        \* how far the shell command has got
  result,       \* res: whether Error is set, and Denials
  pending,      \* positions of result.denials still to be asked about
  prompt,       \* the denial being asked about, and the path to be granted
  sawGrant, deniedSet, deniedOrder,
  reply         \* what dispatch returns, and the paths its prefix lists

agentVars == <<access, detectMode, autoYes>>
loopVars == <<call, attempt, deniedSet, deniedOrder>>
childVars == <<env, rules, shell>>
promptVars == <<pending, prompt, sawGrant>>
vars == <<fs, cancelled, pc, result, reply,
          agentVars, loopVars, childVars, promptVars>>

NoRights == [p \in Path |-> "none"]
NoResult == [failed |-> FALSE, denials |-> NoDenials]
NoPrompt == [index |-> 0, grant |-> Root]
NoReply == [kind |-> "none", denied |-> <<>>]
FreshShell(traced) == [at |-> 0, refusals |-> {}, ended |-> FALSE,
                       traced |-> traced, status |-> "none"]
NoShell == FreshShell(FALSE)
Start == [rights |-> NoRights, detect |-> "default"]

ChildPc == {"split", "restrict", "run"}
Reply == [kind : {"none", "unknown", "exec", "error", "output", "aborted"},
          denied : Seq(Path)]

-----------------------------------------------------------------------------
(* accessStore.allow.                                                      *)

\* Mutant of allow: the last answer wins, so read-write can be weakened.
allowLastWins(path, mode) == [access EXCEPT ![path] = mode]

allow(path, mode) ==
  IF access[path] = "rw" THEN access ELSE [access EXCEPT ![path] = mode]

-----------------------------------------------------------------------------
Init ==
  /\ fs \in Trees
  /\ access = NoRights
  /\ detectMode = "default"
  /\ autoYes \in BOOLEAN
  /\ cancelled = FALSE
  /\ pc = "idle" /\ call = NoCall /\ attempt = 0
  /\ env = Start /\ rules = {} /\ shell = NoShell
  /\ result = NoResult
  /\ pending = {} /\ prompt = NoPrompt /\ sawGrant = FALSE
  /\ deniedSet = {} /\ deniedOrder = <<>>
  /\ reply = NoReply

\* dispatch returns r to Turn.
Return(r) == pc' = "return" /\ reply' = r
Failure(kind) == [kind |-> kind, denied |-> <<>>]

-----------------------------------------------------------------------------
(* The agent's side, up to the child.                                      *)

UnknownTool(c) ==
  /\ pc = "idle" /\ c.tool \notin Tools
  /\ call' = c
  /\ Return(Failure("unknown"))
  /\ UNCHANGED <<fs, agentVars, cancelled, attempt, childVars, result,
                 promptVars, deniedSet, deniedOrder>>

Dispatch(c) ==
  /\ pc = "idle" /\ c.tool \in Tools
  /\ pc' = "attempt"
  /\ call' = c
  /\ UNCHANGED <<fs, agentVars, cancelled, attempt, childVars, result,
                 promptVars, deniedSet, deniedOrder, reply>>

\* Mutant of Snapshot: one attempt too many (<= for <).
SnapshotOnceMore ==
  /\ pc = "attempt" /\ attempt <= MaxRetries
  /\ env' = [rights |-> access, detect |-> detectMode]
  /\ pc' = "split"
  /\ UNCHANGED <<fs, agentVars, cancelled, loopVars, rules, shell, result,
                 promptVars, reply>>

\* The loop body up to cmd.Start: the snapshot of the access store and the
\* detect mode go into the envelope.
Snapshot ==
  /\ pc = "attempt" /\ attempt < MaxRetries
  /\ IF cancelled \/ call.args = "malformed"
     THEN Return(Failure("exec")) /\ UNCHANGED env
     ELSE /\ env' = [rights |-> access, detect |-> detectMode]
          /\ pc' = "split"
          /\ UNCHANGED reply
  /\ UNCHANGED <<fs, agentVars, cancelled, loopVars, rules, shell, result,
                 promptVars>>

\* The loop condition fails: "too many sandbox permission prompts; aborting".
GiveUp ==
  /\ pc = "attempt" /\ attempt = MaxRetries
  /\ Return(Failure("aborted"))
  /\ UNCHANGED <<fs, agentVars, cancelled, loopVars, childVars, result,
                 promptVars>>

-----------------------------------------------------------------------------
(* The child.                                                              *)

Split ==
  /\ pc = "split"
  /\ rules' = SplitDirsFiles(fs, env.rights)
  /\ pc' = "restrict"
  /\ UNCHANGED <<fs, agentVars, cancelled, loopVars, env, shell, result,
                 promptVars, reply>>

Traces(c) == c.tool = "run_shell" /\ env.detect = "ptrace"

RestrictPaths ==
  /\ pc = "restrict"
  /\ IF RestrictFails(fs, rules)
     THEN /\ result' = [failed |-> TRUE, denials |-> NoDenials]
          /\ pc' = "filter"
          /\ UNCHANGED <<rules, shell>>
     ELSE /\ rules' = rules \cup BaselineRules(fs)
          /\ shell' = FreshShell(Traces(call))
          /\ pc' = "run"
          /\ UNCHANGED result
  /\ UNCHANGED <<fs, agentVars, cancelled, loopVars, env, promptVars, reply>>

\* The tool handler returns and runChild's verdict reaches dispatch.
Finish(r) ==
  /\ result' = r
  /\ pc' = "filter"
  /\ UNCHANGED <<agentVars, cancelled, loopVars, env, promptVars, reply>>

\* The handler of read_file, write_file or list_dir does its work, or that of
\* run_shell finds arguments it cannot read.
FileToolRuns ==
  /\ pc = "run"
  /\ call.tool # "run_shell" \/ call.args = "mistyped"
  /\ fs' = AfterFileTool(call, fs, rules)
  /\ rules' = RulesLeft(fs', rules)
  /\ UNCHANGED shell

RunFileTool == FileToolRuns /\ Finish(FileToolResult(call, fs, rules))

\* The child is lost after the handler's work, before its result has reached
\* the agent: what was written stays, and nobody is told.
FileToolLost ==
  /\ FileToolRuns
  /\ Return(Failure("exec"))
  /\ UNCHANGED <<agentVars, cancelled, loopVars, env, result, promptVars>>

Shelling == pc = "run" /\ call.tool = "run_shell" /\ call.args = "ok"
ShellDone == shell.ended \/ shell.at = Len(call.script)
NextStep == call.script[shell.at + 1]

\* The command makes its next access.
ShellStep ==
  /\ Shelling /\ ~ ShellDone
  /\ LET no == Refused(NextStep, fs, rules) IN
     /\ fs' = IF TakesEffect(NextStep, fs, rules)
              THEN AfterStep(NextStep, fs) ELSE fs
     /\ shell' = [shell EXCEPT
                    !.at = @ + 1,
                    !.refusals = @ \cup {i \in {shell.at + 1} : no},
                    !.ended = no /\ ~ NextStep.tolerated]
  /\ rules' = RulesLeft(fs', rules)
  /\ UNCHANGED <<agentVars, cancelled, loopVars, pc, env, result, promptVars,
                 reply>>

\* The command exits: with non-zero status if a refusal ended it, otherwise
\* with either status.
ShellExit ==
  /\ Shelling /\ ShellDone
  /\ \E nonzero \in BOOLEAN, raw \in SUBSET shell.refusals :
       /\ shell.ended => nonzero
       /\ raw # {} => ProcRaces
       /\ shell' = [shell EXCEPT
                      !.status = IF nonzero THEN "nonzero" ELSE "zero"]
       /\ Finish(IF shell.traced
                 THEN ShellPtraceResult(call, 1 .. shell.at, shell.refusals,
                                        nonzero, raw)
                 ELSE ShellDefaultResult(call, 1 .. shell.at, shell.refusals))
  /\ UNCHANGED <<fs, rules>>

\* ptrace.Run fails, before it has started the command or after any of its
\* steps; runShellPtrace then runs the command again, untraced.
PtraceFails ==
  /\ Shelling /\ shell.traced
  /\ shell' = NoShell
  /\ UNCHANGED <<fs, agentVars, cancelled, loopVars, pc, env, rules, result,
                 promptVars, reply>>

\* The child is killed (the context is done) or dies before a file tool's
\* handler, or anywhere in a command: sandbox.Exec fails.
ChildLost ==
  /\ pc \in ChildPc
  /\ Return(Failure("exec"))
  /\ UNCHANGED <<fs, agentVars, cancelled, loopVars, childVars, result,
                 promptVars>>

-----------------------------------------------------------------------------
(* The agent's side, with the child's result.                              *)

\* Mutant of Filter: every denial is asked about, declined before or not.
FilterNothing ==
  /\ pc = "filter"
  /\ pending' = DOMAIN result.denials
  /\ sawGrant' = FALSE
  /\ pc' = "prompt"
  /\ UNCHANGED <<fs, agentVars, cancelled, loopVars, childVars, result, prompt,
                 reply>>

Filter ==
  /\ pc = "filter"
  /\ pending' = {i \in DOMAIN result.denials :
                   result.denials[i].path \notin deniedSet}
  /\ sawGrant' = FALSE
  /\ pc' = "prompt"
  /\ UNCHANGED <<fs, agentVars, cancelled, loopVars, childVars, result, prompt,
                 reply>>

\* promptAccess up to its ReadString: the grant target is settled before the
\* user answers.
Ask ==
  /\ pc = "prompt"
  /\ \E i \in First(pending) :
       \E g \in resolveGrantTarget(fs, result.denials[i].path) :
         prompt' = [index |-> i, grant |-> g]
  /\ pc' = "asking"
  /\ UNCHANGED <<fs, agentVars, cancelled, loopVars, childVars, result, pending,
                 sawGrant, reply>>

Asked == result.denials[prompt.index]
Settled == /\ pending' = pending \ {prompt.index}
           /\ prompt' = NoPrompt
           /\ pc' = "prompt"

\* The user answers r, w or just enter, or MINAI_YES answers for him.
Grant(mode) ==
  /\ pc = "asking"
  /\ autoYes => mode = Asked.mode
  /\ access' = allow(prompt.grant, mode)
  /\ sawGrant' = TRUE
  /\ Settled
  /\ UNCHANGED <<fs, detectMode, autoYes, cancelled, loopVars, childVars,
                 result, reply>>

\* Mutant of Decline: `sawGrant = granted' instead of `if granted'.
DeclineOverridesGrant ==
  /\ pc = "asking" /\ ~ autoYes
  /\ deniedSet' = deniedSet \cup {Asked.path}
  /\ deniedOrder' = Append(deniedOrder, Asked.path)
  /\ sawGrant' = FALSE
  /\ Settled
  /\ UNCHANGED <<fs, agentVars, cancelled, call, attempt, childVars, result,
                 reply>>

\* The user answers anything else, or standard input has ended.
Decline ==
  /\ pc = "asking" /\ ~ autoYes
  /\ deniedSet' = deniedSet \cup {Asked.path}
  /\ deniedOrder' = Append(deniedOrder, Asked.path)
  /\ Settled
  /\ UNCHANGED <<fs, agentVars, cancelled, call, attempt, childVars, result,
                 sawGrant, reply>>

\* Mutants of Retry: deniedOrder is declared inside the loop; the loop variable
\* is not advanced.
RetryForgetsOrder ==
  /\ pc = "prompt" /\ pending = {} /\ sawGrant
  /\ attempt' = attempt + 1
  /\ deniedOrder' = <<>>
  /\ pc' = "attempt"
  /\ UNCHANGED <<fs, agentVars, cancelled, call, deniedSet, childVars, result,
                 promptVars, reply>>
RetryUncounted ==
  /\ pc = "prompt" /\ pending = {} /\ sawGrant
  /\ pc' = "attempt"
  /\ UNCHANGED <<fs, agentVars, cancelled, loopVars, childVars, result,
                 promptVars, reply>>

Retry ==
  /\ pc = "prompt" /\ pending = {} /\ sawGrant
  /\ attempt' = attempt + 1
  /\ pc' = "attempt"
  /\ UNCHANGED <<fs, agentVars, cancelled, call, deniedSet, deniedOrder,
                 childVars, result, promptVars, reply>>

Surface ==
  /\ pc = "prompt" /\ pending = {} /\ ~ sawGrant
  /\ Return([kind |-> IF result.failed THEN "error" ELSE "output",
             denied |-> deniedOrder])
  /\ UNCHANGED <<fs, agentVars, cancelled, loopVars, childVars, result,
                 promptVars>>

\* dispatch's locals go out of scope.
Leave ==
  /\ pc = "return"
  /\ pc' = "idle"
  /\ call' = NoCall /\ attempt' = 0
  /\ env' = Start /\ rules' = {} /\ shell' = NoShell
  /\ result' = NoResult
  /\ pending' = {} /\ prompt' = NoPrompt /\ sawGrant' = FALSE
  /\ deniedSet' = {} /\ deniedOrder' = <<>>
  /\ reply' = NoReply
  /\ UNCHANGED <<fs, agentVars, cancelled>>

-----------------------------------------------------------------------------
(* The surroundings.                                                       *)

\* /detect, which the REPL obeys between turns.
SetDetectMode(mode) ==
  /\ pc = "idle"
  /\ detectMode' = mode
  /\ UNCHANGED <<fs, access, autoYes, cancelled, pc, loopVars, childVars,
                 result, promptVars, reply>>

\* Ctrl-C.
Cancel ==
  /\ ~ cancelled
  /\ cancelled' = TRUE
  /\ UNCHANGED <<fs, agentVars, pc, loopVars, childVars, result, promptVars,
                 reply>>

\* Another process makes p, or removes it with all it holds.
OutsideChange(p) ==
  /\ fs' = IF Present(fs, p) THEN RemoveTree(fs, p)
           ELSE [fs EXCEPT ![p] = Volatile[p]]
  /\ CanHold(fs, p)
  /\ rules' = IF pc = "run" THEN RulesLeft(fs', rules) ELSE rules
  /\ UNCHANGED <<agentVars, cancelled, pc, loopVars, env, shell, result,
                 promptVars, reply>>

-----------------------------------------------------------------------------
Child == Split \/ RestrictPaths \/ RunFileTool \/ FileToolLost \/ ShellStep
           \/ ShellExit \/ PtraceFails \/ ChildLost
Answer == Decline \/ \E mode \in Mode : Grant(mode)
Agent == Snapshot \/ GiveUp \/ Filter \/ Ask \/ Retry \/ Surface \/ Leave
Begin == \E c \in Calls : UnknownTool(c) \/ Dispatch(c)
Outside == \/ \E mode \in DetectMode : SetDetectMode(mode)
           \/ Cancel
           \/ \E p \in DOMAIN Volatile : OutsideChange(p)

Next == Begin \/ Agent \/ Child \/ Answer \/ Outside

Spec == Init /\ [][Next]_vars

\* The program's steps happen, the command a child runs comes to its end, and
\* the user answers every prompt.
Fairness == WF_vars(Agent) /\ WF_vars(Child) /\ WF_vars(Answer)
FairSpec == Spec /\ Fairness

-----------------------------------------------------------------------------
(* What a tool call promises.                                              *)

ControlOK ==
  /\ pc \in ChildPc \cup {"idle", "attempt", "filter", "prompt", "asking",
                          "return"}
  /\ call \in Calls \cup {NoCall}
  /\ call = NoCall <=> pc = "idle"
  /\ attempt \in 0 .. MaxRetries
  /\ autoYes \in BOOLEAN /\ cancelled \in BOOLEAN /\ sawGrant \in BOOLEAN

RightsOK ==
  /\ access \in [Path -> Right]
  /\ detectMode \in DetectMode
  /\ env \in [rights : [Path -> Right], detect : DetectMode]

ShellOK ==
  shell \in [at : Nat, refusals : SUBSET Nat, ended : BOOLEAN,
             traced : BOOLEAN, status : {"none", "zero", "nonzero"}]

PromptOK ==
  /\ pending \subseteq DOMAIN result.denials
  /\ prompt \in [index : Nat, grant : Path]

DeclinedOK == deniedSet \in SUBSET Path /\ deniedOrder \in Seq(Path)

\* Every variable has its type, a call is in progress whenever the program
\* is not idle, and the tree is a tree.
TypeOK ==
  /\ IsTree(fs)
  /\ ControlOK
  /\ RightsOK
  /\ rules \in SUBSET Rule
  /\ ShellOK
  /\ IsResult(result)
  /\ PromptOK
  /\ DeclinedOK
  /\ reply \in Reply

Answered == pc = "return" /\ reply.kind \in {"error", "output"}

\* A reply that speaks for the tool comes from a run that had every right the
\* user has granted: dispatch never surfaces the outcome of a run that a later
\* grant made obsolete (the `continue' after the prompt loop).
FreshReply == Answered => env.rights = access

\* When the outcome of a run is surfaced, the user has declined every denial
\* that run reported, and the reply's prefix tells the model so; it also names
\* every path declined in an earlier run of the call that the last run no
\* longer hits: no refusal is dropped between the partition into newDenials
\* and the annotation, and none by a retry.
RefusalsAreTold ==
  Answered =>
    \A p \in {result.denials[i].path : i \in DOMAIN result.denials} \cup deniedSet :
      \E k \in DOMAIN reply.denied : reply.denied[k] = p

\* Within one tool call the user is never asked again about a path he has
\* declined, over all retries (the comment on deniedSet).
DeclinedNotReprompted == pc = "asking" => Asked.path \notin deniedSet

\* The prefix names each declined path once, whatever the retries.
DeclinedListedOnce ==
  /\ {deniedOrder[k] : k \in DOMAIN deniedOrder} = deniedSet
  /\ \A j, k \in DOMAIN deniedOrder :
       deniedOrder[j] = deniedOrder[k] => j = k

\* The user, or the fixed baseline, has consented to m on p or on a directory
\* above it.
Consented(p, m) ==
  \/ \E q \in {p} \cup Above[p] : access[q] # "none" /\ Suffices(access[q], m)
  \/ m = "ro" /\ \E b \in BaselineRO : b = p \/ b \in Above[p]
  \/ p \in BaselineRWFiles

\* Nothing a tool is about to do, in any run of any retry, with the tree
\* changing under it, goes beyond what the user consented to: what the handler
\* reads and writes, and what the command's next step gets through.
AccessIsConsented ==
  pc = "run" =>
    IF Shelling
    THEN ~ ShellDone /\ TakesEffect(NextStep, fs, rules) =>
           \A k \in DOMAIN NextStep.paths :
             Consented(NextStep.paths[k], NextStep.need)
    ELSE /\ \A p \in FileToolWrites(call, fs, rules) : Consented(p, "rw")
         /\ \A p \in FileToolReads(call, fs, rules) : Consented(p, "ro")

\* The consent loop is the abstract one: a run is confined to the rights that
\* were granted when it started, rights are only added while a run is judged
\* and never taken back or weakened, and only a run with all of them is
\* surfaced.
Rights(a) == {r \in Path \X Mode : Suffices(a[r[1]], r[2])}
Phase == CASE pc = "idle" -> "idle"
           [] pc = "attempt" -> "due"
           [] pc \in ChildPc -> "running"
           [] pc \in {"filter", "prompt", "asking"} -> "judging"
           [] pc = "return" -> "done"
Runs == IF pc \in {"idle", "return"} THEN 0
        ELSE IF pc = "attempt" THEN attempt ELSE attempt + 1
Obsolete == IF pc \in {"prompt", "asking"} THEN sawGrant ELSE FALSE

Loop == INSTANCE PermissionLoop WITH
          Right <- Path \X Mode,
          MaxRuns <- MaxRetries,
          rights <- Rights(access),
          phase <- Phase,
          runs <- Runs,
          inForce <- Rights(env.rights),
          consented <- Obsolete

ImplementsPermissionLoop == Loop!Spec

\* How far a call is from its end: the attempts it may still make, the stages that
\* this attempt has still to go through, and what there is to do in this one: steps
\* of the command (a traced command may be started once more, untraced) or
\* denials to ask about.
Stage == CASE pc = "attempt" -> 6
           [] pc = "split" -> 5
           [] pc = "restrict" -> 4
           [] pc = "run" -> 3
           [] pc = "filter" -> 2
           [] pc \in {"prompt", "asking"} -> 1
           [] OTHER -> 0
Todo == CASE pc = "run" -> Len(call.script) - shell.at
                             + (IF shell.traced THEN Len(call.script) + 1 ELSE 0)
          [] pc = "prompt" -> 2 * Cardinality(pending)
          [] pc = "asking" -> 2 * Cardinality(pending) - 1
          [] OTHER -> 0
Left == <<MaxRetries - attempt, Stage, Todo>>
Below(a, b) ==
  \E i \in 1 .. 3 : a[i] < b[i] /\ \A j \in 1 .. 3 : j < i => a[j] = b[j]

\* Every step of the agent, the child or the user brings the call closer to its end,
\* and nothing that happens around it takes it further away: neither the retries
\* nor the rerun of a traced command nor the denials can keep it going.
CallGetsShorter ==
  [][pc # "idle" /\ pc' # "idle" =>
       /\ Left' \in Nat \X Nat \X Nat
       /\ IF Agent \/ Child \/ Answer THEN Below(Left', Left) ELSE Left' = Left]_vars

\* Every tool call comes to an end, whatever the tool keeps discovering and
\* whatever is answered: the retry cap bounds the prompt loop.
CallReturns == pc # "idle" ~> pc = "idle"

-----------------------------------------------------------------------------
(* What the repository says of a tool call.                                *)

\* "rerun, until no new permission granted, or succeed" (README.md:22): a
\* dispatch that ends by giving up has run the tool with the last grant.
LastGrantIsTried ==
  pc = "return" /\ reply.kind = "aborted" => env.rights = access

\* "granting that mode is enough for the next retry to succeed on this path"
\* (sandbox.go:72): no run reports a denial of a mode it already had.
DenialModeIsEnough ==
  pc = "filter" =>
    \A i \in DOMAIN result.denials :
      LET d == result.denials[i] IN ~ Suffices(env.rights[d.path], d.mode)

\* "anything reaching Landlock is known to exist" (sandbox.go:214): the paths
\* that splitDirsFiles let through are still there, and still what they were,
\* when RestrictPaths opens them.
ApprovedPathsExist == pc = "restrict" => ~ RestrictFails(fs, rules)

\* "Denials are only surfaced when the shell exits non-zero" (tools.go:256).
QuietOnSuccess ==
  shell.traced /\ shell.status = "zero" => DOMAIN result.denials = {}
=============================================================================
