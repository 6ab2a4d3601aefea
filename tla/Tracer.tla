-------------------------------- MODULE Tracer --------------------------------
(***************************************************************************)
(* ptrace.Run: the thread that traces a shell command (runLocked and       *)
(* handleSyscallStop), the command's processes as the kernel shows them to *)
(* a tracer, the goroutine of os/exec that copies the command's output,    *)
(* and runShellPtrace taking the result.                                   *)
(*                                                                         *)
(* Each process p is at a place at[p]:                                     *)
(*   unborn   it does not exist yet                                        *)
(*   execed   the command itself, in its first stop                        *)
(*   running  in user mode                                                 *)
(*   entry    in the stop at the beginning of its system call              *)
(*   inside   in the call                                                  *)
(*   exit     in the stop at the end of the call                           *)
(*   event    in a PTRACE_EVENT stop, inside a fork or an execve           *)
(*   attach   in the SIGSTOP that begins the trace of a new process        *)
(*   signal   in the stop before the delivery of signal note[p]            *)
(*   group    stopped by a SIGSTOP that was delivered                      *)
(*   zombie   ended, not waited for                                        *)
(*   gone     waited for                                                   *)
(*   free     alive, but Run has given up: nobody handles its stops, if it  *)
(*            is still traced, or sees its calls                           *)
(* The calls a process makes are numbered, and a path operand is named by  *)
(* its place: call n, operand k, in the memory of p.                       *)
(***************************************************************************)
EXTENDS Naturals, Sequences, FiniteSets

CONSTANTS
  Pid,          \* process and thread ids
  RootPid,      \* the shell
  FsCalls,      \* fsSyscalls: the number of path operands of each call
  OtherCalls,   \* calls that fsSyscalls does not hold, "fork" among them
  OldKernel,    \* PTRACE_GET_SYSCALL_INFO does not exist
  MaxCalls,     \* bound on the calls of each process
  MaxLines,     \* bound on the lines the command writes
  Sendable,     \* pairs of a process and a signal that somebody may send it
  Killable      \* processes that somebody may kill

ASSUME TracerAssumption ==
  /\ RootPid \in Pid
  /\ "none" \notin Pid /\ "exec" \notin Pid
  /\ FsCalls \in [DOMAIN FsCalls -> Nat]
  /\ "" \notin DOMAIN FsCalls
  /\ DOMAIN FsCalls \cap OtherCalls = {}
  /\ "fork" \in OtherCalls
  /\ OldKernel \in BOOLEAN
  /\ MaxCalls \in [Pid -> Nat] /\ MaxLines \in Nat
  /\ Sendable \subseteq Pid \X {"STOP", "TRAP", "TERM"}
  /\ Killable \subseteq Pid

VARIABLES
  at, note,     \* where each process is; the signal, the event or its end
  calls,        \* the calls each process has made
  failed,       \* those that failed, as <<process, number>>
  sent, killed, \* what has been sent
  tpc,          \* where the tracer is, or the error it returned
  cur, ws,      \* the process wait4 returned, and what it said of it
  inject,       \* the signal to resume it with
  known,        \* the keys of tracees
  tracee,       \* its values
  failures, rootStatus,
  written, piped, buf, output   \* lines: in all, in the pipe, in buf, in output

command == <<at, note, calls, failed, sent, killed>>
handling == <<cur, ws, inject>>
tables == <<known, tracee, failures, rootStatus>>
lines == <<written, piped, buf, output>>
vars == <<command, tpc, handling, tables, lines>>

Sys == DOMAIN FsCalls \cup OtherCalls
Signal == {"STOP", "TRAP", "TERM"}
Errors == {"startError", "initialWaitError", "setoptionsError",
           "initialSyscallError", "wait4Error", "syscallError"}
Stops == {"entry", "exit", "event", "attach", "signal", "group"}
Live == {p \in Pid : at[p] \notin {"unborn", "zombie", "gone"}}
Fresh == [name |-> "", operands |-> <<>>, started |-> FALSE]
NoStop == [kind |-> "none", sig |-> "none"]

Now(p) == Len(calls[p])
Operands(p, n) == IF n \in DOMAIN calls[p] /\ calls[p][n] \in DOMAIN FsCalls
                  THEN [k \in 1 .. FsCalls[calls[p][n]] |-> <<p, n, k>>]
                  ELSE <<>>

Init ==
  /\ at = [p \in Pid |-> "unborn"] /\ note = [p \in Pid |-> "none"]
  /\ calls = [p \in Pid |-> <<>>] /\ failed = {}
  /\ sent = {} /\ killed = {}
  /\ tpc = "start" /\ cur = RootPid /\ ws = NoStop /\ inject = "none"
  /\ known = {} /\ tracee = [p \in Pid |-> Fresh]
  /\ failures = <<>> /\ rootStatus = "none"
  /\ written = 0 /\ piped = 0 /\ buf = 0 /\ output = 0

-----------------------------------------------------------------------------
(* The command, and the kernel that runs it.                               *)

Move(p, place) == at' = [at EXCEPT ![p] = place]
Ends(p, how) == Move(p, "zombie") /\ note' = [note EXCEPT ![p] = how]
Untouched == UNCHANGED <<tpc, handling, tables>>

Enter(p) ==
  /\ at[p] = "running" /\ Now(p) < MaxCalls[p]
  /\ \E s \in Sys : calls' = [calls EXCEPT ![p] = Append(@, s)]
  /\ Move(p, "entry")
  /\ UNCHANGED <<note, failed, sent, killed, lines>> /\ Untouched

\* p, inside the call s, has yet to do what s does.
Doing(p, s) == at[p] = "inside" /\ note[p] = "none" /\ calls[p][Now(p)] = s

\* fork, vfork or clone.  Both processes stop.
Fork(p, q) ==
  /\ Doing(p, "fork") /\ at[q] = "unborn"
  /\ at' = [at EXCEPT ![p] = "event", ![q] = "attach"]
  /\ note' = [note EXCEPT ![p] = q]
  /\ UNCHANGED <<calls, failed, sent, killed, lines>> /\ Untouched

Exec(p) ==
  /\ Doing(p, "execve")
  /\ Move(p, "event")
  /\ note' = [note EXCEPT ![p] = "exec"]
  /\ UNCHANGED <<calls, failed, sent, killed, lines>> /\ Untouched

ReturnOk(p) ==
  /\ at[p] = "inside"
  /\ ~ Doing(p, "fork") /\ ~ Doing(p, "execve")
  /\ Move(p, "exit")
  /\ note' = [note EXCEPT ![p] = "none"]
  /\ UNCHANGED <<calls, failed, sent, killed, lines>> /\ Untouched

ReturnError(p) ==
  /\ \E s \in Sys : Doing(p, s)
  /\ Move(p, "exit")
  /\ failed' = failed \cup {<<p, Now(p)>>}
  /\ UNCHANGED <<note, calls, sent, killed, lines>> /\ Untouched

Exit(p) ==
  /\ at[p] = "running"
  /\ Ends(p, "exited")
  /\ UNCHANGED <<calls, failed, sent, killed, lines>> /\ Untouched

\* Somebody sends p a signal.
Send(p, sig) ==
  /\ at[p] = "running" /\ <<p, sig>> \in Sendable \ sent
  /\ sent' = sent \cup {<<p, sig>>}
  /\ Move(p, "signal")
  /\ note' = [note EXCEPT ![p] = sig]
  /\ UNCHANGED <<calls, failed, killed, lines>> /\ Untouched

\* SIGKILL: no stop precedes it, and it ends a stop.
Kill(p) ==
  /\ p \in Live \cap Killable
  /\ Ends(p, "signaled")
  /\ killed' = killed \cup {p}
  /\ UNCHANGED <<calls, failed, sent, lines>> /\ Untouched

Write(p) ==
  /\ at[p] = "running" /\ written < MaxLines
  /\ written' = written + 1 /\ piped' = piped + 1
  /\ UNCHANGED <<command, buf, output>> /\ Untouched

\* A process that Run left behind goes on, for all that anybody knows: it ends,
\* starts another one or writes.
Leftover(p) ==
  /\ at[p] = "free"
  /\ \/ Ends(p, "exited") /\ UNCHANGED lines
     \/ /\ \E q \in Pid : at[q] = "unborn" /\ Move(q, "free")
        /\ UNCHANGED <<note, lines>>
     \/ /\ written < MaxLines
        /\ written' = written + 1 /\ piped' = piped + 1
        /\ UNCHANGED <<at, note, buf, output>>
  /\ UNCHANGED <<calls, failed, sent, killed>> /\ Untouched

\* The goroutine that os/exec starts for an output that is not a file.
Copy ==
  /\ piped > 0
  /\ buf' = buf + piped /\ piped' = 0
  /\ UNCHANGED <<command, written, output>> /\ Untouched

-----------------------------------------------------------------------------
(* runLocked, before its loop.                                             *)

\* return nil, fmt.Errorf(...): the locals of runLocked are gone.
Fail(why) ==
  /\ tpc' = why
  /\ cur' = RootPid /\ ws' = NoStop /\ inject' = "none"
  /\ known' = {} /\ tracee' = [p \in Pid |-> Fresh]
  /\ failures' = <<>> /\ rootStatus' = "none"

\* The goroutine of Run, and with it the thread that traced, ends while processes
\* of the command are alive.
Abandon(why) ==
  /\ Fail(why)
  /\ at' = [p \in Pid |-> IF p \in Live THEN "free" ELSE at[p]]
  /\ note' = [p \in Pid |-> IF p \in Live THEN "none" ELSE note[p]]
  /\ UNCHANGED <<calls, failed, sent, killed, lines>>

StartFails ==
  /\ tpc = "start"
  /\ Fail("startError")
  /\ UNCHANGED <<command, lines>>

Start ==
  /\ tpc = "start"
  /\ Move(RootPid, "execed")
  /\ tpc' = "initial"
  /\ UNCHANGED <<note, calls, failed, sent, killed, handling,
                 tables, lines>>

InitialWait ==
  /\ tpc = "initial"
  /\ IF at[RootPid] = "zombie"
     THEN Move(RootPid, "gone") /\ rootStatus' = note[RootPid]
            /\ tpc' = "returned"
     ELSE tpc' = "options" /\ UNCHANGED <<at, rootStatus>>
  /\ UNCHANGED <<note, calls, failed, sent, killed, handling,
                 known, tracee, failures, lines>>

InitialWaitFails == tpc = "initial" /\ Abandon("initialWaitError")

\* Mutant of SetOptions: on failure the shell is left alone.
SetOptionsNoKill ==
  /\ tpc = "options"
  /\ Fail("setoptionsError")
  /\ UNCHANGED <<command, lines>>

\* On failure the shell is killed and waited for.
SetOptions ==
  /\ tpc = "options"
  /\ \/ /\ at[RootPid] # "zombie"
        /\ known' = {RootPid} /\ tracee' = [tracee EXCEPT ![RootPid] = Fresh]
        /\ tpc' = "first"
        /\ UNCHANGED <<at, handling, failures, rootStatus>>
     \/ Move(RootPid, "gone") /\ Fail("setoptionsError")
  /\ UNCHANGED <<note, calls, failed, sent, killed, lines>>

FirstResume ==
  /\ tpc = "first" /\ at[RootPid] # "zombie"
  /\ tpc' = "wait" /\ Move(RootPid, "running")
  /\ UNCHANGED <<note, calls, failed, sent, killed, handling,
                 tables, lines>>

\* Any error, ESRCH of a shell that has been killed among them.
FirstResumeFails == tpc = "first" /\ Abandon("initialSyscallError")

-----------------------------------------------------------------------------
(* The loop.                                                               *)

\* Mutant of WaitEnd: every end is taken for the root's.
WaitEndOfAny(p) ==
  /\ tpc = "wait" /\ at[p] = "zombie"
  /\ Move(p, "gone")
  /\ known' = known \ {p} /\ rootStatus' = note[p]
  /\ UNCHANGED <<note, calls, failed, sent, killed, tpc, handling, tracee,
                 failures, lines>>

\* wait4 returns the end of p.
WaitEnd(p) ==
  /\ tpc = "wait" /\ at[p] = "zombie"
  /\ Move(p, "gone")
  /\ known' = known \ {p}
  /\ rootStatus' = IF p = RootPid THEN note[p] ELSE rootStatus
  /\ UNCHANGED <<note, calls, failed, sent, killed, tpc, handling,
                 tracee, failures, lines>>

Report(p) ==
  CASE at[p] \in {"entry", "exit"} -> [kind |-> "syscall", sig |-> "TRAP"]
    [] at[p] = "event" -> [kind |-> "event", sig |-> "TRAP"]
    [] at[p] \in {"attach", "group"} -> [kind |-> "signal", sig |-> "STOP"]
    [] at[p] = "signal" -> [kind |-> "signal", sig |-> note[p]]

\* Mutant of WaitStop: a process nobody announced counts as resumed before.
WaitStopLate(p) ==
  /\ tpc = "wait" /\ at[p] \in Stops
  /\ cur' = p /\ ws' = Report(p)
  /\ known' = known \cup {p}
  /\ tracee' = IF p \in known THEN tracee
               ELSE [tracee EXCEPT ![p] = [Fresh EXCEPT !.started = TRUE]]
  /\ tpc' = "stop"
  /\ UNCHANGED <<command, inject, failures, rootStatus, lines>>

\* Mutant of WaitStop: the stop of a process nobody announced is passed over.
WaitStopKnown(p) ==
  /\ tpc = "wait" /\ at[p] \in Stops /\ p \in known
  /\ cur' = p /\ ws' = Report(p)
  /\ tpc' = "stop"
  /\ UNCHANGED <<command, inject, tables, lines>>

\* wait4 returns a stop of p.  A process nobody announced is tracked from here.
WaitStop(p) ==
  /\ tpc = "wait" /\ at[p] \in Stops
  /\ cur' = p /\ ws' = Report(p)
  /\ known' = known \cup {p}
  /\ tracee' = IF p \in known THEN tracee ELSE [tracee EXCEPT ![p] = Fresh]
  /\ tpc' = "stop"
  /\ UNCHANGED <<command, inject, failures, rootStatus, lines>>

\* Mutant of NoChild: the loop ends with the root, as the comment on Run says.
NoRoot ==
  /\ tpc = "wait" /\ at[RootPid] = "gone"
  /\ tpc' = "returned"
  /\ UNCHANGED <<command, handling, tables, lines>>

\* ECHILD.
NoChild ==
  /\ tpc = "wait"
  /\ \A p \in Pid : at[p] \in {"unborn", "gone"}
  /\ tpc' = "returned"
  /\ UNCHANGED <<command, handling, tables, lines>>

\* Any error but ECHILD and EINTR.
WaitFails == tpc = "wait" /\ Abandon("wait4Error")

Handled(sig) == tpc' = "resume" /\ inject' = sig /\ UNCHANGED <<cur, ws>>
InfoFails == OldKernel \/ at[cur] = "zombie"

\* PTRACE_GET_SYSCALL_INFO fails; the stop is skipped.
SyscallBlind ==
  /\ tpc = "stop" /\ ws.kind = "syscall" /\ InfoFails
  /\ Handled("none")
  /\ UNCHANGED <<command, tables, lines>>

\* Mutant of SyscallEntry: a call that is not recorded leaves the tracee alone.
SyscallEntryKeeps ==
  /\ tpc = "stop" /\ ws.kind = "syscall" /\ ~ InfoFails /\ at[cur] = "entry"
  /\ LET s == calls[cur][Now(cur)] IN
     tracee' = IF s \notin DOMAIN FsCalls THEN tracee
               ELSE [tracee EXCEPT ![cur].name = s,
                                   ![cur].operands = Operands(cur, Now(cur))]
  /\ Handled("none")
  /\ UNCHANGED <<command, known, failures, rootStatus, lines>>

SyscallEntry ==
  /\ tpc = "stop" /\ ws.kind = "syscall" /\ ~ InfoFails /\ at[cur] = "entry"
  /\ LET s == calls[cur][Now(cur)] IN
     tracee' = [tracee EXCEPT
                  ![cur].name = IF s \in DOMAIN FsCalls THEN s ELSE "",
                  ![cur].operands = Operands(cur, Now(cur))]
  /\ Handled("none")
  /\ UNCHANGED <<command, known, failures, rootStatus, lines>>

\* The call failed and is one of fsSyscalls: the captured operands are read now.
\* Which call it was (n) is not part of the record; it is kept for the properties.
SyscallExit ==
  /\ tpc = "stop" /\ ws.kind = "syscall" /\ ~ InfoFails /\ at[cur] = "exit"
  /\ failures' =
       IF tracee[cur].name # "" /\ <<cur, Now(cur)>> \in failed
       THEN Append(failures,
              [pid |-> cur, n |-> Now(cur), sys |-> tracee[cur].name,
               paths |-> tracee[cur].operands])
       ELSE failures
  /\ Handled("none")
  /\ UNCHANGED <<command, known, tracee, rootStatus, lines>>

\* Mutant of EventStop: the new process is registered again.
EventStopAgain ==
  /\ tpc = "stop" /\ ws.kind = "event"
  /\ LET new == {q \in Pid : at[cur] # "zombie" /\ note[cur] = q} IN
     /\ known' = known \cup new
     /\ tracee' = [q \in Pid |-> IF q \in new THEN Fresh ELSE tracee[q]]
  /\ Handled("none")
  /\ UNCHANGED <<command, failures, rootStatus, lines>>

\* Mutant of EventStop: every event is taken for a fork.
EventStopAny ==
  /\ tpc = "stop" /\ ws.kind = "event"
  /\ known' = known \cup {note[cur]}
  /\ Handled("none")
  /\ UNCHANGED <<command, tracee, failures, rootStatus, lines>>

\* PTRACE_GETEVENTMSG names the new process, unless the parent has been killed.
EventStop ==
  /\ tpc = "stop" /\ ws.kind = "event"
  /\ LET new == {q \in Pid \ known : at[cur] # "zombie" /\ note[cur] = q} IN
     /\ known' = known \cup new
     /\ tracee' = [q \in Pid |-> IF q \in new THEN Fresh ELSE tracee[q]]
  /\ Handled("none")
  /\ UNCHANGED <<command, failures, rootStatus, lines>>

SignalStop ==
  /\ tpc = "stop" /\ ws.kind = "signal"
  /\ Handled(IF \/ ws.sig = "TRAP"
                \/ ws.sig = "STOP" /\ ~ tracee[cur].started
             THEN "none" ELSE ws.sig)
  /\ UNCHANGED <<command, tables, lines>>

\* Where a process goes on from its stop when resumed with `inject'.
Onward(p) ==
  CASE at[p] \in {"signal", "attach"} /\ inject = "STOP" -> {"group"}
    [] at[p] = "signal" /\ inject = "TERM" -> {"running", "zombie"}
    [] at[p] \in {"entry", "event"} -> {"inside"}
    [] OTHER -> {"running"}

\* Mutant of Resume: after ESRCH the stop is handled again.
ResumeHandlesAgain ==
  /\ tpc = "resume"
  /\ tracee' = [tracee EXCEPT ![cur].started = TRUE]
  /\ IF at[cur] = "zombie" THEN UNCHANGED <<at, note>> /\ tpc' = "stop"
     ELSE \E place \in Onward(cur) :
            /\ Move(cur, place)
            /\ note' = [note EXCEPT ![cur] =
                          IF place = "zombie" THEN "signaled"
                          ELSE IF place = "inside" THEN @ ELSE "none"]
            /\ tpc' = "wait"
  /\ inject' = "none"
  /\ UNCHANGED <<calls, failed, sent, killed, cur, ws, known,
                 failures, rootStatus, lines>>

\* PTRACE_SYSCALL; ESRCH if the process has been killed meanwhile.
Resume ==
  /\ tpc = "resume"
  /\ tracee' = [tracee EXCEPT ![cur].started = TRUE]
  /\ IF at[cur] = "zombie" THEN UNCHANGED <<at, note>>
     ELSE \E place \in Onward(cur) :
            /\ Move(cur, place)
            /\ note' = [note EXCEPT ![cur] =
                          IF place = "zombie" THEN "signaled"
                          ELSE IF place = "inside" THEN @ ELSE "none"]
  /\ tpc' = "wait" /\ inject' = "none"
  /\ UNCHANGED <<calls, failed, sent, killed, cur, ws, known,
                 failures, rootStatus, lines>>

\* PTRACE_SYSCALL fails, but not with ESRCH.
ResumeFails ==
  tpc = "resume" /\ at[cur] # "zombie" /\ Abandon("syscallError")

\* runShellPtrace: output := buf.String().
TakeOutput ==
  /\ tpc = "returned"
  /\ output' = buf
  /\ tpc' = "done"
  /\ UNCHANGED <<command, handling, tables, written, piped, buf>>

-----------------------------------------------------------------------------
Process(p) ==
  \/ Enter(p) \/ Exec(p) \/ ReturnOk(p) \/ ReturnError(p) \/ Exit(p) \/ Write(p)
  \/ \E q \in Pid : Fork(p, q)
Disturb == \E p \in Pid : Kill(p) \/ \E sig \in Signal : Send(p, sig)
Working ==
  \/ StartFails \/ Start \/ InitialWait \/ SetOptions \/ FirstResume
  \/ NoChild \/ SyscallBlind \/ SyscallEntry \/ SyscallExit \/ EventStop
  \/ SignalStop \/ Resume \/ TakeOutput
  \/ \E p \in Pid : WaitEnd(p) \/ WaitStop(p)
Abandoning == InitialWaitFails \/ FirstResumeFails \/ WaitFails \/ ResumeFails
Tracing == Working \/ Abandoning

Next ==
  \/ Tracing \/ Copy \/ Disturb
  \/ \E p \in Pid : Process(p) \/ Leftover(p)

Spec == Init /\ [][Next]_vars

\* The tracer's thread and the copier run, and the processes of the command go
\* on and come to an end while they are traced.  No error of Run is assumed, but
\* the first PTRACE_SYSCALL comes back with one or without.
Fairness == /\ WF_vars(Working \/ FirstResumeFails) /\ WF_vars(Copy)
            /\ \A p \in Pid : WF_vars(Process(p))
FairSpec == Spec /\ Fairness

-----------------------------------------------------------------------------
Record == [pid : Pid, n : Nat, sys : DOMAIN FsCalls,
           paths : Seq(Pid \X Nat \X Nat)]

CommandOK ==
  /\ at \in [Pid -> Stops \cup {"unborn", "execed", "running", "inside",
                                "zombie", "gone", "free"}]
  /\ note \in [Pid -> Pid \cup Signal \cup {"none", "exec", "exited", "signaled"}]
  /\ calls \in [Pid -> Seq(Sys)]
  /\ failed \subseteq Pid \X Nat
  /\ sent \subseteq Sendable /\ killed \subseteq Killable
HandlingOK ==
  /\ tpc \in Errors \cup {"start", "initial", "options", "first", "wait", "stop",
                         "resume", "returned", "done"}
  /\ cur \in Pid
  /\ ws \in [kind : {"none", "syscall", "event", "signal"}, sig : Signal \cup {"none"}]
  /\ inject \in Signal \cup {"none"}
TablesOK ==
  /\ known \subseteq Pid
  /\ tracee \in [Pid -> [name : DOMAIN FsCalls \cup {""},
                         operands : Seq(Pid \X Nat \X Nat),
                         started : BOOLEAN]]
  /\ failures \in Seq(Record)
  /\ rootStatus \in {"none", "exited", "signaled"}
LinesOK == written \in Nat /\ piped \in Nat /\ buf \in Nat /\ output \in Nat

\* What each variable holds: the state of the command's processes, the locals of
\* runLocked, and how many lines are where.
TypeOK == CommandOK /\ HandlingOK /\ TablesOK /\ LinesOK

Calls(f) == [i \in DOMAIN f |-> <<f[i].pid, f[i].n>>]
Recorded == {Calls(failures)[i] : i \in DOMAIN failures}
FsFailed == {c \in failed : calls[c[1]][c[2]] \in DOMAIN FsCalls}

\* handleSyscallStop keeps name and operands from the entry stop to the exit
\* stop: a record speaks of a call that failed, under that call's name and with
\* that call's own operands, whatever the process called before and whatever
\* other processes do in between.
RecordsAreReal ==
  \A i \in DOMAIN failures :
    LET f == failures[i] IN
    /\ <<f.pid, f.n>> \in failed
    /\ f.sys = calls[f.pid][f.n]
    /\ f.paths = Operands(f.pid, f.n)

\* The loop (runLocked) loses no failure, in whatever order the first stop of a
\* new process and its parent's event are waited for: a failed call that is not
\* recorded is its process's last, and either its exit stop is still to be
\* handled or the process was killed in it.  (An error of Run takes the list with
\* it.)
NothingMissed ==
  ~ OldKernel /\ tpc \notin Errors =>
    \A c \in FsFailed \ Recorded :
      /\ c[2] = Now(c[1])
      /\ \/ at[c[1]] = "exit" /\ ~ (tpc = "resume" /\ cur = c[1])
         \/ c[1] \in killed

\* The SIGSTOP that begins the trace of a new process is swallowed
\* (tracee.started): no process of the command is, under the trace, ever stopped
\* by a SIGSTOP that nobody sent it.
AttachStopSwallowed ==
  \A p \in Pid : at[p] = "group" => <<p, "STOP">> \in sent

\* When Run cannot set up the trace (start, setoptions), and runShellPtrace starts
\* the command again, nothing of the first start is left: neither a process that
\* would run beside the second nor one that was killed and not waited for.  The
\* other errors of Run promise no such thing: see Abandon.
FallbackAlone ==
  tpc \in {"startError", "setoptionsError"} =>
    \A p \in Pid : at[p] \in {"unborn", "gone"}

\* Result.WaitStatus tells how the shell itself ended, although other processes
\* of the command end before and after it.
RootStatusReported ==
  tpc \in {"returned", "done"} =>
    at[RootPid] = "gone" /\ rootStatus = note[RootPid]

\* ptrace.Run implements the trace that the package promises: while processes
\* come and go each failure is recorded once, and Run returns a trace only when
\* nothing of the command is left.
Promise == INSTANCE Trace WITH
  Failure <- UNION {1 .. MaxCalls[p] : p \in Pid},
  alive <- Live,
  recorded <- Calls(failures),
  outcome <- CASE tpc \in Errors -> "error"
               [] tpc \in {"returned", "done"} -> "traced"
               [] OTHER -> "none"
ImplementsTrace == Promise!Spec

\* How far each process is from its end: the calls it may still make, the signals it
\* may still be sent, and the places it has still to pass; and how far the tracer
\* and the output are from theirs when no process moves.
Ahead(p) == CASE at[p] = "unborn" -> 10
              [] at[p] \in {"execed", "attach"} -> 9
              [] at[p] = "entry" -> 8
              [] at[p] = "inside" -> IF note[p] = "none" THEN 7 ELSE 5
              [] at[p] = "event" -> 6
              [] at[p] \in {"exit", "signal"} -> 4
              [] at[p] = "group" -> 3
              [] at[p] \in {"running", "free"} -> 2
              [] at[p] = "zombie" -> 1
              [] at[p] = "gone" -> 0
ToCome(p) == {sig \in Signal : <<p, sig>> \in Sendable \ sent}
Left(p) == <<MaxCalls[p] - Now(p), Cardinality(ToCome(p)), Ahead(p)>>
Stage == CASE tpc = "start" -> 10
           [] tpc = "initial" -> 9
           [] tpc = "options" -> 8
           [] tpc = "first" -> 7
           [] tpc = "stop" -> IF at[cur] = "zombie" THEN 6 ELSE 3
           [] tpc = "resume" -> IF at[cur] = "zombie" THEN 5 ELSE 2
           [] tpc = "wait" -> 4
           [] tpc = "returned" -> 1
           [] tpc \in Errors \cup {"done"} -> 0
Rest == <<Stage, MaxLines - written, piped>>
Below(a, b) ==
  \E i \in 1 .. 3 : a[i] < b[i] /\ \A j \in 1 .. 3 : j < i => a[j] = b[j]

\* The loop never goes round: no step takes a process further from its end, and one
\* that brings none closer, as when a stop is waited for or PTRACE_SYSCALL meets
\* a process that has been killed, brings the tracer or the output closer to theirs.
TraceGetsShorter ==
  [][/\ \A p \in Pid :
          /\ Left(p)' \in Nat \X Nat \X Nat
          /\ Left(p)' = Left(p) \/ Below(Left(p)', Left(p))
     /\ Rest' \in Nat \X Nat \X Nat
     /\ (\E p \in Pid : Below(Left(p)', Left(p))) \/ Below(Rest', Rest)]_vars

\* If every process of the command comes to its end, so does Run: no tracee is
\* left in a stop that the loop does not handle.
TraceEnds == <>(tpc \in Errors \cup {"done"})

\* What tools.go:287 and run_smoke_test.go:31 rely on: when Run has returned, the
\* buffer holds all that the command wrote.
OutputIsComplete == tpc = "done" => output = written

\* ptrace.go:23-25: on a kernel without PTRACE_GET_SYSCALL_INFO Run returns the
\* error, unless no system call was made.
OldKernelIsReported ==
  OldKernel /\ tpc = "done" => \A p \in Pid : calls[p] = <<>>
=============================================================================
