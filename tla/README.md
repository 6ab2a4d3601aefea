# Formal models of minai

minai is a small AI harness: a REPL sends the user's prompt to a language model,
runs the tools the model asks for, and gives their results back.  Each tool call
runs in a fresh child process that first confines itself with Landlock.  When
the child reports that an access was denied, the user is asked whether to grant
it, and the tool is run again.

This directory holds TLA+ modules for the whole of that, in three machines:

- `Dispatch`, the permission loop of one tool call, from the model's request to
  the text the model gets back, across the agent process, the child, the tool
  and everybody else who changes files meanwhile;
- `Tracer`, the loop that traces the shell command of `run_shell`, with the
  kernel's stops, signals and kills in every order;
- `Session`, the REPL or one-shot run around it: the turns, the history that is
  sent to the model, Ctrl-C and the one standard input.

They meet in abstract specifications: `Dispatch` implements `PermissionLoop`,
and `Session` uses `PermissionLoop` as its tool call; `Tracer` implements
`Trace`, whose result is what `Detection` takes the failures of a traced command
to be.  (The refinements are proved; that the users of the abstract specifications
use them rightly is seen by reading.)  TLC checks the modules on small instances; TLAPS proves every
safety property of the passing runs, and the refinements, for all sizes.

## The system

| Part | State | Operations | Properties that make it correct |
| --- | --- | --- | --- |
| REPL and one-shot mode (`cmd/minai/main.go`) | the context that Ctrl-C cancels; one buffered stdin shared with the prompts | read a line, slash commands, `Turn` | the program ends with its input; a late turn does nothing; no prompt of `-p -` is granted |
| `Agent.Turn` (`agent.go`) | `history`, step count | chat, append, dispatch each tool call | each tool call gets one reply, in order; a turn is bounded and ends |
| `Agent.dispatch`, `promptAccess` (`agent.go`) | attempt, `deniedSet`, `deniedOrder`, `sawGrant` | run, partition denials, ask, retry, surface, give up | the surfaced run is not obsolete; refusals are told; nobody is asked twice; it ends |
| `accessStore` (`agent.go`) | path -> ro/rw | `allow`, `snapshot` | rights only grow |
| `sandbox.Exec` (`sandbox.go`) | the child process | start, wait, decode | a lost child is an error, never a result |
| `sandbox.runChild` (`sandbox.go`) | the Landlock rule set, the tool's return | split directories from files, restrict, run, classify | the rules never exceed the approvals; every denial is reported |
| tools (`tools.go`) | none (the file tree) | `read_file`, `write_file`, `list_dir`, `run_shell` | effects stay within the rules |
| tracer (`internal/ptrace`) | tracees, failures | wait, decode, resume | the failures of the whole process tree, once, with the right path; nothing is left stopped, and nothing runs on when the trace succeeds or cannot be set up |
| model client, environment | token, names | HTTP, `getenv` | - |

The agent waits for the child and the child for its tool, so inside minai there
is one thread of control most of the time; the hard part is what lies between
the steps.  Other processes change the tree between a `stat` and its use.  The
user answers denials of a run one by one, and each answer changes what the next
run may do.  A run has effects before it is refused.  Ctrl-C, a crash of the
child or a failure of the tracer can come at any step.  PROJECT.json lists the
hazards with their lines.

## Modules

`Filesystem` - the file tree and Landlock.  A path is an element of `Path` with
its ancestors `Above[p]`.  A rule is a path, a kind (file or directory) and a
mode; `Blocked` says when the kernel answers EACCES.  The kernel and go-landlock
are external, modelled from their use; `SplitDirsFiles` and `BaselineRules` are
the code's.

`Detection` - `internal/tools`, the call tables of `internal/ptrace`, and the
second half of `runChild`, as operators: what a file tool does to the tree and
fails with, what one access of a shell command does, and which denials come out
(`FileToolResult`, `ShellDefaultResult`, `ShellPtraceResult`), and the grant
target of a denial (`resolveGrantTarget`).  A list of errors is kept as a
function from positions, read in their order.

`Dispatch` - the state machine.  `pc` names the place of the agent and its child.

| Action | Code |
| --- | --- |
| `UnknownTool`, `Dispatch` | `dispatch`, up to the loop |
| `Snapshot` | the loop head: `access.snapshot`, `DetectMode`, the envelope; `Exec` fails here if the arguments are not JSON or the context is done |
| `Split`, `RestrictPaths` | `runChild` up to the handler; two steps, as the tree can change between them |
| `RunFileTool` | the handler of a file tool (`FileToolRuns`) and the classification of its error |
| `FileToolLost` | the handler has done its work, but the child is lost before its result is delivered |
| `ShellStep` | one access by the command of `run_shell` |
| `ShellExit` | the command exits; `runShellDefault` or `runShellPtrace`, and the classification |
| `PtraceFails` | `ptrace.Run` fails, at once or after any step; the fallback starts the command again |
| `ChildLost` | the child is killed by the context or dies, before a handler or anywhere in a command |
| `Filter` | the partition into `newDenials` |
| `Ask`, `Grant`, `Decline` | `promptAccess` up to and after `ReadString`, with what `dispatch` does with the answer |
| `Retry`, `Surface`, `GiveUp` | `continue`; the annotated reply; the cap |
| `Leave` | `Turn` takes the reply |
| `SetDetectMode`, `Cancel`, `OutsideChange` | `/detect`, Ctrl-C, other processes |

`PermissionLoop` - what a tool call promises about consent, without files or
detection: a run is confined to the rights there were when it started, rights
only grow and only while a run is judged, and a run is surfaced only if it had
them all.  `Dispatch!ImplementsPermissionLoop` is the refinement.

`Tracer` - `ptrace.Run`.  A process of the command is at a place (`at[p]`):
running, at the entry stop of a call, inside it, at its exit stop, in the stop
for a fork or an exec, in the SIGSTOP that begins its trace, and so on; `free`
is the place of one that Run has left behind.  `tpc` names the place of the
tracer, in the end the error it returned.  The kernel's side is external, modelled from the
stops that the code handles and requests.

| Action | Code |
| --- | --- |
| `Start`, `StartFails` | `cmd.Start` |
| `InitialWait`, `SetOptions`, `FirstResume` | `runLocked` up to its loop; on failure of `PTRACE_SETOPTIONS` the shell is killed and waited for |
| `InitialWaitFails`, `FirstResumeFails`, `WaitFails`, `ResumeFails` | the other error returns, at lines 198, 235, 249 and 319, any of which may come whenever its request is made (`Abandon`): the tracing thread ends, the kernel lets its tracees go, and they are `free` |
| `WaitEnd`, `WaitStop`, `NoChild` | `wait4` returns an end, a stop (registering a process nobody announced), or ECHILD |
| `SyscallBlind`, `SyscallEntry`, `SyscallExit` | `handleSyscallStop`: no information, capture name and operands, append a failure |
| `EventStop`, `SignalStop` | the new process of a fork; a signal passed on, the first SIGSTOP swallowed |
| `Resume` | `started = true`, `PTRACE_SYSCALL`, where ESRCH is ignored |
| `Copy`, `TakeOutput` | the goroutine of os/exec that copies the output; `runShellPtrace` taking it |
| `Enter`, `Fork`, `Exec`, `ReturnOk`, `ReturnError`, `Exit`, `Write`, `Send`, `Kill` | the command and the kernel |
| `Leftover` | a process that is `free` ends, starts another or writes |

`Trace` - what `ptrace.Run` promises, without calls or stops: processes come and
go, each failure is recorded once, of a live process, and Run returns a trace
only when nothing is alive.  If it fails instead, the records are gone, and the
processes may or may not be.  `Tracer!ImplementsTrace` is the refinement.

`Session` - `run` and `Turn`, with the tool call of `PermissionLoop` (as an
instance named `Loop`).

| Action | Code |
| --- | --- |
| `Repl`, `Once`, `Dash` | the three ways in which `run` begins |
| `ReadLine`, `ReadEnd` | an iteration of the input loop; its end |
| `Chat`, `ChatFails`, `Answer` | `client.Chat` in `Turn`; the answer joins the history |
| `BeginCall`, `StartRun`, `EndRun`, `CallFails`, `RunAgain`, `Surface`, `GiveUp` | `dispatch`, through `PermissionLoop` |
| `ApproveAll`, `AnswerPrompt`, `PromptAtEnd` | `promptAccess`: MINAI_YES, the next line, the end of input |
| `Reply` | the tool message joins the history; next call, next step, or the cap |
| `Type`, `Close`, `CtrlC` | the user |

`Loops` - two loops that `Detection` replaces by definitions of their result,
iteration by iteration: the aggregation of traced failures in `runShellPtrace`
and the climb in `resolveGrantTarget`.

`DetectionProofs`, `DispatchProofs`, `ReplyProofs` (replies, and the refinement),
`ConsentProofs`, `LoopsProofs`, `TracerProofs`, `RecordProofs`, `SessionProofs` -
the proofs.
`MCDispatch`, `MCTracer`, `MCSession`, `MCLoops` - the instances for TLC.

Operators commented "Mutant of ..." are deliberately wrong variants of the
definition that follows; each shows that the property named in PROJECT.json
depends on the part of the code they break.

## Runs

| Run | Question | Result |
| --- | --- | --- |
| `dispatch_safety` | all safety properties, the refinement and the measure of a call | holds, about 409,000 states |
| `dispatch_liveness` | does every call return | holds, about 134,000 states |
| `loops` | do the loops compute what `Detection` says | holds, about 15,000 states |
| `tracer` | the tracer's safety properties, the refinement and the measure of a trace; does Run return | holds, about 558,000 states |
| `session` | the session's safety properties and the measure of a turn; does a turn end, does the end of input | holds, about 457,000 states |
| `dispatch_last_grant` | is the last grant tried | violated |
| `dispatch_denial_mode` | is the reported mode enough | violated |
| `dispatch_quiet` | is a successful traced command left alone | violated |
| `dispatch_known_to_exist` | does every approved path that reaches Landlock exist | violated |
| `dispatch_reprompt` | is a declined path never asked again when /proc lookups may fail | violated |
| `tracer_output` | is the output complete when Run returns | violated |
| `tracer_old_kernel` | is a kernel without PTRACE_GET_SYSCALL_INFO reported | violated |

What the safety properties say:

- `FreshReply`: a reply that speaks for the tool comes from a run that had every
  right granted so far.
- `RefusalsAreTold`: every denial of that run is named in the reply's prefix, and
  so is every one that was declined in an earlier run of the call.
- `DeclinedNotReprompted`, `DeclinedListedOnce`: one question and one mention
  per declined path, over all retries.
- `AccessIsConsented`: what a tool gets through to is covered by the user's
  grants or the baseline, whatever others do to the tree.
- `ImplementsPermissionLoop`, `ImplementsTrace`: the refinements above.
- `RecordsAreReal`, `NothingMissed`: what the tracer records is a call that
  failed, under its own name and with the operands it was entered with; a failed
  call that is not recorded is still to be handled, or its process was killed in
  it.  With `ImplementsTrace`: each once.
- `AttachStopSwallowed`: a new process is never left stopped by the SIGSTOP that
  begins its trace, whether its first stop or its parent's event is waited for
  first.
- `FallbackAlone`: when the trace cannot be set up (`cmd.Start` or
  `PTRACE_SETOPTIONS` fails) and `runShellPtrace` starts the command again,
  nothing of the first start is alive or left to be reaped.  Of the other error
  returns this is not true and nowhere promised: the model lets what they leave
  behind run on, and a reader of `runShellPtrace` should know that the fallback
  may then run beside it.
- `RootStatusReported`: the wait status in the result is the shell's own.
- `SentHistoryComplete`: in a history that is sent each tool call is followed by
  its replies, in order, and there is no other tool message: also after a
  cancelled call, a failed request, or a turn that ran out of steps.
- `LateTurnsGetNothing`: the context stays cancelled, so a prompt entered after
  Ctrl-C adds nothing but itself to the history.
- `PipedPromptGrantsNothing`: `-p -` uses up the input; every permission prompt
  of that session is a refusal, unless MINAI_YES answers it.
- `StepsBounded`: at most `MaxSteps` answers of the model between two prompts of
  the user.
- `CallGetsShorter`, `TurnGetsShorter`, `TraceGetsShorter`: a measure of what is
  left of a tool call, of a turn, of a trace, decreases with every step of the
  program and of the answers, and what happens around them does not raise it.  For a call it is, in this order,
  the runs that may still be made, the stages of this run still to be gone
  through, and the steps of the command or the denials still to be asked about.
  For a turn: the steps, the place in this step, the calls without a reply, the
  stages of this call, the prompts.  For a trace each process has a measure of
  its own (calls, signals it may be sent, places to pass), which no step raises;
  a step that lowers none lowers that of the tracer and the output.  With finitely
  many processes, then, none of the three can go round, which is the part of
  termination that does not rest on fairness.
- `AggregationAgrees`, `ClimbAgrees`: after every iteration the errors of
  `runShellPtrace` are those of `PtraceDenials`, whatever the order of reads,
  writes and other failures on a path; the climb stops at the grant target of
  `Detection`.

The liveness properties are `CallReturns` (every tool call), `TraceEnds` (Run),
`TurnEnds` (a turn ends unless it waits for the user; Ctrl-C does not end that
wait) and `EndOfInputExits`.

The machine of `MCDispatch` has seven paths: `/`, a baseline directory, a
baseline device, a home directory with a file, a missing directory and a file
under it.  That is the least tree with a file grant, a directory grant, a grant
widened past a missing parent, and an access covered by the baseline.  The
thirteen calls each add a way to be denied or to miss a denial: the file tools
on present and missing targets, output that contains somebody's permission
message, arguments that are not JSON or of the wrong type, an unknown tool, a
script with a quiet refusal, a mkdir and a rename, one that reads and then
removes a file, one whose message names a path relative to another directory,
and one that is refused by a call the tracer does not record.

Bounds: `MaxRetries` is 3 (the code: 8) except in `dispatch_last_grant`, where
it is 8; three runs suffice for a grant, a refusal and a surfaced run in any
order, and no property depends on the number.  One path is volatile.  A script
has at most four steps.  `Locked` (a file whose own mode denies the user) is
used for liveness, where it makes grants useless.  `Loops` takes lists of at
most three failures of four calls with three error numbers, and all trees over
five paths.

The machine of `MCTracer` is a shell and one process that it may fork, at any
moment relative to its own calls.  The shell makes two calls, so that a stale
capture can be told from a fresh one, the child one; a call has two path
operands (rename), one (execve, which can succeed and then stops once more), or
is not recorded (fork).  Somebody may send the child a SIGSTOP and the shell a
SIGTERM, and may kill either at any moment, between the tracer's `wait4` and the
handling of the stop too.  One line of output is enough for it to be late.  The
two violated runs use one call each and no signals: they need neither.

`MCSession` has one right, two runs of a tool (the code: 8), two steps of a turn
(the code: 20), up to two calls in an answer of the model, one denial in a run,
and three typed lines of the four kinds that `run` or a prompt tells apart.  So a
cap is reached in either loop, a call is cancelled with another one still to be
answered, lines typed ahead are read by a prompt, and a turn is followed by
another, before and after Ctrl-C.  The proofs need none of these bounds.

`loops`, the tracer runs and `session` switch the deadlock check off, because
the loops, Run and the program end.

### Fairness

`CallReturns` assumes weak fairness of the agent's steps (ordinary sequential
code), of the child's steps together (the child runs, and the command it started
comes to its end: there is no timeout in the code, so a command that never exits
is never interrupted), and of the answers (the user, MINAI_YES or the end of
input answers each prompt).  Nothing is assumed of what others do to the tree.
Which answer is given is left open: a user may grant for ever, and the retry cap
is what ends the loop.

`TraceEnds` assumes weak fairness of the tracer's thread, of the copier, and of
each process of the command: processes go on when the tracer lets them, make a
bounded number of calls and exit.  The kernel's scheduler gives that, and without
the last part the command need not end.  Signals and kills are never assumed, nor
is an error of Run (it could end a trace that is stuck): only that the first
`PTRACE_SYSCALL` comes back, with ESRCH if the shell has been killed.  Nothing is
assumed of the processes that a failed Run leaves behind.

`TurnEnds` and `EndOfInputExits` assume weak fairness of the program alone: its
own code, children that end, and a model service that answers or fails.  The
HTTP client sets no timeout, so the last is an assumption about the service.
Nothing is assumed of the user, whence the exception in `TurnEnds`.

### What the violated runs show

Each is a statement of the repository that its code does not keep:

- `LastGrantIsTried`: README.md:22 promises a rerun until no new permission is
  granted; a grant in the eighth run is followed by "too many sandbox permission
  prompts".
- `DenialModeIsEnough`: sandbox.go:71-73 says granting the reported mode is
  enough; `write_file` reports "open" errors, hence read-only.
- `QuietOnSuccess`: tools.go:256 says denials are surfaced only if the shell
  fails; the text search of `runChild` still looks at the output.
- `ApprovedPathsExist`: sandbox.go:214-215 says that what reaches Landlock is
  known to exist; it was known at the time of the `stat`.
- `DeclinedNotReprompted`, with `ProcRaces`: agent.go:181-182 says no path is
  prompted for twice; deduplication happens before `canonical`.
- `OutputIsComplete`: the smoke test (run_smoke_test.go:31) and `runShellPtrace`
  (tools.go:287) read the buffer when Run returns; Run does not call `cmd.Wait`,
  which waits for the goroutine that fills it.
- `OldKernelIsReported`: ptrace.go:24-25 says that Run surfaces the error of an
  older kernel, tools.go:268-270 that the default mode is then used;
  `handleSyscallStop` passes over the error at every stop.

The comment at run_linux_amd64.go:139-141 says that Run returns when the root
has exited.  The loop does not do that: it goes on until ECHILD, and this is what
`ImplementsTrace` states (with the comment's version, `NoRoot`, it fails).

## Proofs

All theorems are about the `Spec` of their machine, for every value of the
constants that satisfies the machine's assumptions.  `PathAssumption`,
`CallAssumption` and `DispatchAssumption`: paths form a tree under `Root`, calls
are well-typed, the retry cap is positive.  `TracerAssumption`: the shell is a
process, the recorded calls and the others are apart, and names do not clash.
`SessionAssumption`: the caps are positive, the other bounds natural numbers.
`LoopsAssumption`: a reported failure is of a call in the tracer's table with a
path operand, and every path except `/` has a parent directory (ancestors could
otherwise be an infinite chain without a last one, and `filepath.Dir` has a result).

| Theorem | States |
| --- | --- |
| `DispatchProofs!TypeCorrect` | `Spec => []TypeOK` |
| `ReplyProofs!RepliesAreFresh` | `Spec => []FreshReply` |
| `ReplyProofs!RefusalsTold` | `Spec => []RefusalsAreTold` |
| `ReplyProofs!DeclinesAreFinal` | `Spec => []DeclinedNotReprompted`, if `~ ProcRaces` |
| `ReplyProofs!DeclinesListedOnce` | `Spec => []DeclinedListedOnce`, if `~ ProcRaces` |
| `ConsentProofs!AccessConsented` | `Spec => []AccessIsConsented` |
| `ReplyProofs!Implements` | `Spec => ImplementsPermissionLoop` |
| `DispatchProofs!CallsGetShorter` | `Spec => CallGetsShorter` |
| `LoopsProofs!AggregationIsPtraceDenials` | `Spec => []AggregationAgrees` |
| `LoopsProofs!ClimbIsResolve` | `Spec => []ClimbAgrees` |
| `TracerProofs!TypeCorrect` | `Spec => []TypeOK` |
| `TracerProofs!NoStrayStop` | `Spec => []AttachStopSwallowed` |
| `TracerProofs!NothingBesideFallback` | `Spec => []FallbackAlone` |
| `TracerProofs!StatusIsTheShells` | `Spec => []RootStatusReported` |
| `TracerProofs!TracesGetShorter` | `Spec => TraceGetsShorter` |
| `RecordProofs!NothingInvented` | `Spec => []RecordsAreReal` |
| `RecordProofs!NothingLost` | `Spec => []NothingMissed` |
| `RecordProofs!ResultIsComplete` | `Spec => []ResultComplete` |
| `RecordProofs!TracerImplementsTrace` | `Spec => ImplementsTrace` |
| `SessionProofs!TypeCorrect` | `Spec => []TypeOK` |
| `SessionProofs!PipedGrantsNothing` | `Spec => []PipedPromptGrantsNothing` |
| `SessionProofs!LateTurnsStayEmpty` | `Spec => []LateTurnsGetNothing` |
| `SessionProofs!HistoryComplete` | `Spec => []SentHistoryComplete` |
| `SessionProofs!TurnsAreBounded` | `Spec => []StepsBounded` |
| `SessionProofs!TurnsGetShorter` | `Spec => TurnGetsShorter` |

`DetectionProofs` has the lemmas about the operators: every change keeps the
tree a tree, every classification yields a well-formed result, the denials of a
traced run have distinct paths when no lookup failed, and a grant target exists
and is unique.

In `Dispatch`, `TypeOK` is not inductive alone; `Typing` adds `Progress`: which variables are
in use at which `pc`, that an attempt in progress is below the cap, and that the
prompt is about a pending denial.  The other proofs add one conjunct each:

- `InForce`: from `Snapshot` until the first grant, `env.rights = access`; the
  guard `~ sawGrant` of `Surface` then gives `FreshReply`.
- `Accounted`: each denial of the run being judged is pending, declined, or has
  been answered by a grant (and then `sawGrant` holds).
- `AskedOnce`: pending denials have distinct, undeclined paths, and
  `deniedOrder` enumerates `deniedSet`.  That is where `~ ProcRaces` is needed:
  with it `PtraceDenials` merges all failures on a path.
- `BackedRules`: each rule in force is a baseline rule or an approved path with
  its approved mode, and its object still exists.  A tool's access lies at or
  beneath the path of a rule that covers it, so it is consented to.
- `FewDenials`: a run has finitely many denials, so that their number can be part
  of the measure in `CallGetsShorter`.

The refinement is proved step by step: every action maps to an action of
`PermissionLoop` or to a stutter, `InForce` supplying the guard of `Surface`.

In `Tracer`, `Typing` adds `Progress` (a process in a call has made one, one that
has ended has ended somehow), and the other proofs rest on these:

- `Places`: where the processes are at each place of the tracer - before the loop
  nobody but the shell exists, the process whose stop is being handled is still
  in it unless it was killed, after a trace is returned nobody is left, and only
  after an error is a process `free`.  It gives `FallbackAlone` and
  `RootStatusReported`.
- `Swallowing`: a process in the SIGSTOP that begins its trace has `started`
  still false, and a SIGSTOP about to be injected was sent by somebody.
- `Captured`: between the end of the entry stop and the end of the exit stop of a
  call, the tracee has that call's name and operands.  This is why the code may
  record at the exit stop what it read at the entry stop.
- `Failing`: a failed call is one the process made, and has come to its end if it
  is the current one; `Recording`: the records are of failed calls, and none is
  of a call whose exit stop is still to be handled - so no call is recorded twice.
- `Bounded`, `Limits`: calls and lines stay below their bounds, and a process in
  the stop for an event has one to report.  The refinement needs the first to know
  that a record is in the abstract specification's set, `TraceGetsShorter` all of
  them.

`ResultComplete` (defined in `RecordProofs`) is what `Detection` takes a traced
command to be: once Run has returned, each failed call of the table is recorded,
unless its process was killed in it.  It follows from `NothingMissed`, as by
`Places` no exit stop is left to be handled then.

In `Session`, `Typing` adds `Shape` (in a turn there is a step left; while calls
are answered the history ends with the model's answer and the replies so far);
`Drained` says that a `-p -` session has the input behind it once it has begun,
`Late` that a prompt marked late was entered with the context done, and
`Complete` which answers have all their replies at each place of `Turn`.
`Counted` relates the answers after a prompt to the step count: there are at most
as many as the turn has heard, and only messages after the last prompt can grow in
number, so `StepsBounded` follows for all earlier prompts too.

In `Loops`, `Walked` describes the errors after any number of iterations without
the loop: they are the distinct refused paths in the order of their first refusal
(the `k`-th is the one with `k` first refusals up to it), each with the stronger
intent.  It is inductive, and `PtraceDenials` is the same list.  `Climbing` says
that everything that exists among the asked path and its ancestors is the current
path or above it, so what the walk stops at is the nearest.

What TLC alone checks is liveness (`CallReturns`, `TraceEnds`, `TurnEnds`,
`EndOfInputExits`), which needs fairness and `ENABLED`, out of TLAPS's reach.  The
measures are the proved part of the first three: what is left to TLC there is that
a step is always possible and is taken.

## Not modelled

- Landlock on a kernel without it (`BestEffort` then does nothing), its rules on
  re-parenting files across directories, and symbolic links; removing and
  renaming need a rule on a directory above.  A file that a command moves keeps
  its rule in the kernel; here the rule goes with the old path.
- The text of messages and its truncation at 8000 bytes; a reply is its kind and
  the paths its prefix lists.
- What a command does after the child was killed: the shell is not killed with
  it and may run on, still confined.
- In the tracer: an execve by a thread that is not the leader, system call
  numbers of 32-bit programs, seccomp stops, process ids that are used again,
  the entry stop of exit_group.  What a command that Run has abandoned still does
  to the file tree, beside the one that the fallback starts, is not in `Dispatch`
  (`PtraceFails` starts the command again and forgets the first start): like the
  second start it stays within the rules of the child's domain.  A path operand
  is its place in the tracee's memory, so neither what another thread writes
  there before the exit stop nor a process killed between reading its registers
  and its memory is represented.  Output is counted in lines.
- In a file tool: a child that is lost between the directories and the file that
  `write_file` makes; the handler's work is one step.
- In the session: errors of reading standard input other than its end, and a
  last line without a newline; an end of input that is not final (`-p -` reads a
  pipe or a file to its end; a terminal could deliver more after Ctrl-D); what
  the model says and which tools it calls.
- HTTP, the token, logging, flags and the names of the environment variables.
  The client and the environment are partly modelled: what a request can do to
  `Turn`, and what MINAI_YES and MINAI_DETECT_MODE select; the rest keeps no
  state and makes no decision.
