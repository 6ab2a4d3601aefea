----------------------------- MODULE RecordProofs -----------------------------
(***************************************************************************)
(* What the tracer records: nothing that did not happen, everything that   *)
(* did, each failure once.                                                 *)
(***************************************************************************)
EXTENDS TracerProofs

\* The name that the entry stop of p's current call leaves in its tracee.
NameOf(p) == IF calls[p][Now(p)] \in DOMAIN FsCalls THEN calls[p][Now(p)] ELSE ""

\* From the end of the entry stop to the end of the exit stop.
InCall(p) == \/ at[p] \in {"inside", "event", "exit"}
             \/ at[p] = "entry" /\ tpc = "resume" /\ cur = p

Captured ==
  /\ OldKernel => \A p \in Pid : tracee[p].name = ""
  /\ ~ OldKernel =>
       \A p \in Pid : InCall(p) => /\ p \in known
                                   /\ tracee[p].name = NameOf(p)
                                   /\ tracee[p].operands = Operands(p, Now(p))

\* A step moves no process into a call but the one whose stop was handled, and
\* touches no tracee of a process in a call.
LEMMA CapturedKept ==
  ASSUME Typing, Captured,
         \A p \in Pid : InCall(p)' => InCall(p),
         \A p \in Pid : InCall(p) => calls'[p] = calls[p] /\ tracee'[p].name = tracee[p].name
                                       /\ tracee'[p].operands = tracee[p].operands,
         \A p \in Pid : InCall(p)' /\ p \in known => p \in known',
         OldKernel => \A p \in Pid : tracee'[p].name = ""
  PROVE  Captured'
<1>1. ASSUME NEW p \in Pid, InCall(p)', ~ OldKernel
      PROVE  /\ p \in known' /\ tracee'[p].name = NameOf(p)'
             /\ tracee'[p].operands = Operands(p, Now(p))'
  <2>1. InCall(p) /\ calls'[p] = calls[p]
    BY <1>1
  <2>2. NameOf(p)' = NameOf(p) /\ Operands(p, Now(p))' = Operands(p, Now(p))
    BY <2>1 DEF NameOf, Operands, Now
  <2> QED  BY <1>1, <2>1, <2>2 DEF Captured
<1> QED  BY <1>1 DEF Captured

LEMMA CapturedInit == Init => Captured
<1> SUFFICES ASSUME Init PROVE Captured
  OBVIOUS
<1>1. \A p \in Pid : at[p] = "unborn" /\ tracee[p] = Fresh
  BY DEF Init
<1>2. Fresh.name = ""
  BY DEF Fresh
<1> QED  BY <1>1, <1>2 DEF Captured, InCall

LEMMA CapturedProcess ==
  ASSUME Typing, Places, Captured, NEW p \in Pid, Process(p)
  PROVE  Captured'
<1> USE DEF Untouched, handling, tables, command
<1>0. /\ cur \in Pid /\ at \in [Pid -> Stops \cup {"unborn", "execed", "running",
                                          "inside", "zombie", "gone", "free"}]
      /\ tpc = "resume" => at[cur] \in Stops \cup {"zombie"}
      /\ calls \in [Pid -> Seq(Sys)]
  BY DEF Typing, TypeOK, HandlingOK, CommandOK, Places
<1>1. UNCHANGED <<tpc, cur, known, tracee>>
  BY DEF Process, Enter, Exec, ReturnOk, ReturnError, Exit, Write, Fork
<1>2. \A q \in Pid : InCall(q) => calls'[q] = calls[q]
  <2>1. \A q \in Pid \ {p} : calls'[q] = calls[q]
    BY <1>0 DEF Process, Enter, Exec, ReturnOk, ReturnError, Exit, Write, Fork
  <2>2. InCall(p) => ~ Enter(p)
    BY <1>0 DEF InCall, Enter, Stops
  <2> QED
    BY <1>0, <2>1, <2>2 DEF Process, Exec, ReturnOk, ReturnError, Exit, Write, Fork
<1>3. \A q \in Pid : InCall(q)' => InCall(q)
  <2>1. Enter(p) => \A q \in Pid : InCall(q)' => InCall(q)
    BY <1>0, <1>1 DEF Enter, Move, InCall, Stops
  <2>2. Exec(p) \/ ReturnOk(p) \/ ReturnError(p) \/ Exit(p) \/ Write(p) =>
          \A q \in Pid : InCall(q)' => InCall(q)
    BY <1>0, <1>1
    DEF Exec, ReturnOk, ReturnError, Exit, Write, Ends, Move, Doing, InCall, Stops
  <2>3. ASSUME NEW r \in Pid, Fork(p, r) PROVE \A q \in Pid : InCall(q)' => InCall(q)
    BY <1>0, <1>1, <2>3 DEF Fork, Doing, InCall, Stops
  <2> QED  BY <2>1, <2>2, <2>3 DEF Process
<1> QED  BY <1>1, <1>2, <1>3, CapturedKept DEF Captured

LEMMA CapturedLeftover ==
  ASSUME Typing, Captured, NEW p \in Pid, Leftover(p)
  PROVE  Captured'
<1> USE DEF Untouched, handling, tables
<1>0. at \in [Pid -> Stops \cup {"unborn", "execed", "running", "inside", "zombie",
                                    "gone", "free"}]
  BY DEF Typing, TypeOK, CommandOK
<1>1. UNCHANGED <<tpc, cur, known, tracee, calls>>
  BY DEF Leftover
<1>2. \A q \in Pid : InCall(q)' => InCall(q)
  BY <1>0, <1>1 DEF Leftover, Ends, Move, InCall
<1> QED  BY <1>1, <1>2, CapturedKept DEF Captured

LEMMA CapturedDisturb ==
  ASSUME Typing, Places, Captured, Disturb \/ Copy
  PROVE  Captured'
<1> USE DEF Untouched, handling, tables, command
<1>0. /\ cur \in Pid /\ at \in [Pid -> Stops \cup {"unborn", "execed", "running",
                                          "inside", "zombie", "gone", "free"}]
      /\ tpc = "resume" => at[cur] \in Stops \cup {"zombie"}
  BY DEF Typing, TypeOK, HandlingOK, CommandOK, Places
<1>1. UNCHANGED <<tpc, cur, known, tracee, calls>>
  BY DEF Disturb, Kill, Send, Copy
<1>2. \A q \in Pid : InCall(q)' => InCall(q)
  BY <1>0, <1>1 DEF Disturb, Kill, Send, Copy, Ends, Move, InCall, Stops
<1> QED  BY <1>1, <1>2, CapturedKept DEF Captured

LEMMA CapturedTracing ==
  ASSUME Typing, Places, Captured, Tracing
  PROVE  Captured'
<1> USE DEF handling, tables, lines, command
<1>0. /\ cur \in Pid /\ RootPid \in Pid
      /\ at \in [Pid -> Stops \cup {"unborn", "execed", "running", "inside", "zombie",
                                    "gone", "free"}]
      /\ tracee \in [Pid -> Tracee]
      /\ tpc \in {"stop", "resume"} => cur \in known
      /\ tpc = "stop" /\ at[cur] # "zombie" => at[cur] \in Stops /\ ws = Report(cur)
  BY TracerAssumption
  DEF Typing, TypeOK, HandlingOK, CommandOK, TablesOK, Tracee, Places
<1>1. CASE NoChild \/ TakeOutput
  BY <1>1, CapturedKept DEF NoChild, TakeOutput, InCall, Captured
<1>2. CASE Start \/ InitialWait \/ FirstResume
  <2>1. UNCHANGED <<calls, known, tracee>>
    BY <1>2 DEF Start, InitialWait, FirstResume
  <2>2. \A q \in Pid : InCall(q)' => InCall(q)
    BY <1>0, <1>2 DEF Start, InitialWait, FirstResume, Move, InCall
  <2> QED  BY <2>1, <2>2, CapturedKept DEF Captured
<1>3. CASE SetOptions
  <2>1. \A q \in Pid : ~ InCall(q) /\ ~ InCall(q)'
    BY <1>0, <1>3 DEF SetOptions, Fail, Move, InCall, Places, Early
  <2>2. OldKernel => \A p \in Pid : tracee'[p].name = ""
    <3>1. Fresh.name = ""
      BY DEF Fresh
    <3>2. \/ tracee' = [p \in Pid |-> Fresh]
          \/ tracee' = [tracee EXCEPT ![RootPid] = Fresh]
      BY <1>3 DEF SetOptions, Fail
    <3> QED  BY <1>0, <3>1, <3>2 DEF Captured
  <2> QED  BY <2>1, <2>2, CapturedKept
<1>4. CASE SyscallBlind \/ SignalStop
  <2>1. UNCHANGED <<at, calls, known, tracee, cur>> /\ tpc = "stop"
    BY <1>4 DEF SyscallBlind, SignalStop, Handled
  <2>2. ~ OldKernel => at[cur] # "entry"
    BY <1>0, <1>4 DEF SyscallBlind, SignalStop, InfoFails, Report, Stops
  <2>3. ~ OldKernel => \A q \in Pid : InCall(q)' => InCall(q)
    BY <2>1, <2>2 DEF InCall
  <2>4. CASE OldKernel
    BY <2>1, <2>4 DEF Captured
  <2> QED  BY <2>1, <2>3, <2>4, CapturedKept DEF Captured
<1>5. CASE SyscallEntry
  <2>1. /\ UNCHANGED <<at, calls, known, cur>> /\ tpc = "stop" /\ tpc' = "resume"
        /\ at[cur] = "entry" /\ ~ OldKernel
    BY <1>5 DEF SyscallEntry, Handled, InfoFails
  <2>2. tracee'[cur].name = NameOf(cur) /\ tracee'[cur].operands = Operands(cur, Now(cur))
    BY <1>0, <1>5 DEF SyscallEntry, NameOf, Tracee
  <2>3. \A q \in Pid \ {cur} : tracee'[q] = tracee[q]
    BY <1>0, <1>5 DEF SyscallEntry
  <2>4. \A q \in Pid : NameOf(q)' = NameOf(q) /\ Operands(q, Now(q))' = Operands(q, Now(q))
    BY <2>1 DEF NameOf, Operands, Now
  <2>5. \A q \in Pid \ {cur} : InCall(q)' => InCall(q)
    BY <2>1 DEF InCall
  <2> QED  BY <1>0, <2>1, <2>2, <2>3, <2>4, <2>5 DEF Captured
<1>6. CASE SyscallExit
  <2>1. UNCHANGED <<at, calls, known, tracee, cur>> /\ at[cur] = "exit"
    BY <1>6 DEF SyscallExit, Handled
  <2> QED  BY <2>1, CapturedKept DEF InCall, Captured
<1>7. CASE EventStop
  <2>1. UNCHANGED <<at, calls, cur>> /\ at[cur] # "entry" /\ known \subseteq known'
    BY <1>0, <1>7 DEF EventStop, Handled, Report, Stops
  <2>2. \A q \in Pid : tracee'[q] = tracee[q] \/ (q \notin known /\ tracee'[q].name = "")
    BY <1>0, <1>7 DEF EventStop, Fresh
  <2>3. \A q \in Pid : InCall(q)' => InCall(q)
    BY <2>1 DEF InCall
  <2>4. CASE OldKernel
    BY <2>2, <2>4 DEF Captured
  <2>5. CASE ~ OldKernel
    <3>1. \A q \in Pid : InCall(q) => tracee'[q] = tracee[q]
      BY <2>2, <2>5 DEF Captured
    <3> QED  BY <2>1, <2>3, <2>5, <3>1, CapturedKept
  <2> QED  BY <2>4, <2>5
<1>8. CASE Resume
  <2>1. /\ UNCHANGED <<calls, known>> /\ tpc = "resume" /\ tpc' = "wait"
        /\ \A q \in Pid : tracee'[q].name = tracee[q].name
                            /\ tracee'[q].operands = tracee[q].operands
    BY <1>0, <1>8 DEF Resume, Tracee
  <2>2. \A q \in Pid : InCall(q)' => InCall(q)
    <3>1. CASE at[cur] = "zombie"
      BY <1>8, <2>1, <3>1 DEF Resume, InCall
    <3>2. CASE at[cur] # "zombie"
      <4>1. PICK place \in Onward(cur) : at' = [at EXCEPT ![cur] = place]
        BY <1>8, <3>2 DEF Resume, Move
      <4>2. place \in {"group", "running", "zombie", "inside"}
              /\ (place = "inside" => at[cur] \in {"entry", "event"})
        BY <4>1 DEF Onward
      <4> QED  BY <1>0, <2>1, <4>1, <4>2 DEF InCall
    <3> QED  BY <3>1, <3>2
  <2> QED  BY <2>1, <2>2, CapturedKept DEF Captured
<1>9. ASSUME NEW p \in Pid, WaitEnd(p) PROVE Captured'
  <2>1. UNCHANGED <<calls, tracee>> /\ known' = known \ {p} /\ tpc = "wait"
          /\ at'[p] = "gone" /\ \A q \in Pid : InCall(q)' => InCall(q)
    BY <1>0, <1>9 DEF WaitEnd, Move, InCall
  <2>2. ~ InCall(p)'
    BY <1>9, <2>1 DEF InCall, WaitEnd
  <2> QED  BY <2>1, <2>2, CapturedKept DEF Captured
<1>10. ASSUME NEW p \in Pid, WaitStop(p) PROVE Captured'
  <2>1. UNCHANGED <<at, calls>> /\ known \subseteq known' /\ tpc' = "stop" /\ tpc = "wait"
    BY <1>10 DEF WaitStop
  <2>2. \A q \in Pid : tracee'[q] = tracee[q] \/ (q \notin known /\ tracee'[q].name = "")
    BY <1>0, <1>10 DEF WaitStop, Fresh
  <2>3. \A q \in Pid : InCall(q)' => InCall(q)
    BY <2>1 DEF InCall
  <2>4. CASE OldKernel
    BY <2>2, <2>4 DEF Captured
  <2>5. CASE ~ OldKernel
    <3>1. \A q \in Pid : InCall(q) => tracee'[q] = tracee[q]
      BY <2>2, <2>5 DEF Captured
    <3> QED  BY <2>1, <2>3, <2>5, <3>1, CapturedKept
  <2> QED  BY <2>4, <2>5
<1>11. CASE StartFails \/ Abandoning
  <2>1. tracee' = [p \in Pid |-> Fresh] /\ tpc' # "resume"
    BY <1>11, Abandoned DEF StartFails, Fail
  <2>2. \A q \in Pid : at'[q] \in {"unborn", "free", "zombie", "gone"}
    BY <1>0, <1>11, Abandoned DEF StartFails, Live, Places
  <2>3. \A q \in Pid : ~ InCall(q)'
    BY <2>1, <2>2 DEF InCall
  <2>4. \A q \in Pid : tracee'[q].name = ""
    BY <2>1 DEF Fresh
  <2> QED  BY <2>3, <2>4 DEF Captured
<1> QED
  BY <1>1, <1>2, <1>3, <1>4, <1>5, <1>6, <1>7, <1>8, <1>9, <1>10, <1>11
  DEF Tracing, Working

LEMMA CapturedNext == Typing /\ Places /\ Captured /\ [Next]_vars => Captured'
<1>1. Typing /\ Captured /\ UNCHANGED vars => Captured'
  <2> SUFFICES ASSUME Typing, Captured, UNCHANGED vars PROVE Captured'
    OBVIOUS
  <2>1. UNCHANGED <<at, tpc, cur, calls, known, tracee>>
    BY DEF vars, command, handling, tables
  <2>2. \A q \in Pid : InCall(q)' => InCall(q)
    BY <2>1 DEF InCall
  <2> QED  BY <2>1, <2>2, CapturedKept DEF Captured
<1> QED  BY <1>1, CapturedProcess, CapturedLeftover, CapturedDisturb, CapturedTracing DEF Next

LEMMA CapturedHolds == Spec => []Captured
<1> QED  BY TypingHolds, PlacesHold, CapturedInit, CapturedNext, PTL DEF Spec
-----------------------------------------------------------------------------
(* The calls that failed.                                                  *)

Failing ==
  /\ \A c \in failed : /\ c[2] \in 1 .. Now(c[1])
                       /\ c[2] = Now(c[1]) => at[c[1]] \notin {"entry", "inside", "event"}
  /\ \A p \in killed : at[p] \in {"zombie", "gone"}

LEMMA FailingInit == Init => Failing
BY DEF Init, Failing

LEMMA FailingNext == Typing /\ Places /\ Failing /\ [Next]_vars => Failing'
<1> SUFFICES ASSUME Typing, Places, Failing, [Next]_vars PROVE Failing'
  OBVIOUS
<1> USE DEF Untouched, command, Now
<1>0. /\ cur \in Pid /\ RootPid \in Pid /\ failed \subseteq Pid \X Nat
      /\ at \in [Pid -> Stops \cup {"unborn", "execed", "running", "inside", "zombie",
                                    "gone", "free"}]
      /\ calls \in [Pid -> Seq(Sys)] /\ killed \subseteq Pid
      /\ \A p \in Pid : at[p] \in {"entry", "inside", "event", "exit"} => Len(calls[p]) > 0
  BY TracerAssumption DEF Typing, TypeOK, HandlingOK, CommandOK, Progress
<1>1. ASSUME NEW p \in Pid, Enter(p) PROVE Failing'
  <2>1. PICK s \in Sys : calls' = [calls EXCEPT ![p] = Append(@, s)]
    BY <1>1 DEF Enter
  <2>2. \A q \in Pid \ {p} : Len(calls'[q]) = Len(calls[q])
    BY <1>0, <2>1
  <2>3. Len(calls'[p]) = Len(calls[p]) + 1 /\ Len(calls[p]) \in Nat
    BY <1>0, <2>1
  <2>4. UNCHANGED <<failed, killed>> /\ at[p] = "running" /\ at' = [at EXCEPT ![p] = "entry"]
    BY <1>1 DEF Enter, Move
  <2>5. \A c \in failed : c[1] \in Pid /\ c[2] \in Nat
    BY <1>0
  <2> QED  BY <1>0, <2>2, <2>3, <2>4, <2>5 DEF Failing
<1>2. ASSUME NEW p \in Pid, ReturnError(p) PROVE Failing'
  <2>1. /\ failed' = failed \cup {<<p, Len(calls[p])>>} /\ UNCHANGED <<calls, killed>>
        /\ at[p] = "inside" /\ at' = [at EXCEPT ![p] = "exit"]
    BY <1>2 DEF ReturnError, Doing, Move
  <2>2. Len(calls[p]) \in 1 .. Len(calls[p])
    BY <1>0, <2>1
  <2>3. \A c \in failed : c[1] \in Pid
    BY <1>0
  <2> QED  BY <1>0, <2>1, <2>2, <2>3 DEF Failing
<1>3. ASSUME UNCHANGED <<calls, failed>>, killed \subseteq killed',
             \A p \in Pid : at'[p] \in {"entry", "inside", "event"} =>
                              at[p] \in {"entry", "inside", "event"},
             \A p \in killed' : at'[p] \in {"zombie", "gone"}
      PROVE  Failing'
  <2>1. \A c \in failed : c[1] \in Pid
    BY <1>0
  <2> QED  BY <1>3, <2>1 DEF Failing
<1>4. ASSUME UNCHANGED <<calls, failed, killed, at>> PROVE Failing'
  BY <1>4 DEF Failing
<1>5. ASSUME NEW p \in Pid, Exec(p) \/ ReturnOk(p) \/ Exit(p) PROVE Failing'
  <2>1. UNCHANGED <<calls, failed, killed>> /\ at[p] \in {"inside", "running"}
          /\ \E place \in {"event", "exit", "zombie"} : at' = [at EXCEPT ![p] = place]
          /\ (at'[p] = "event" => at[p] = "inside")
    BY <1>0, <1>5 DEF Exec, ReturnOk, Exit, Ends, Move, Doing
  <2> QED  BY <1>0, <1>3, <2>1 DEF Failing
<1>6. ASSUME NEW p \in Pid, NEW q \in Pid, Fork(p, q) PROVE Failing'
  BY <1>0, <1>3, <1>6 DEF Fork, Doing, Failing
<1>7. ASSUME NEW p \in Pid, Kill(p) PROVE Failing'
  BY <1>0, <1>3, <1>7 DEF Kill, Ends, Move, Failing
<1>8. ASSUME NEW p \in Pid, NEW sig \in Signal, Send(p, sig) PROVE Failing'
  BY <1>0, <1>3, <1>8 DEF Send, Move, Failing
<1>9. CASE Start \/ InitialWait \/ SetOptions \/ FirstResume
  <2>1. UNCHANGED <<calls, failed, killed>>
    BY <1>9 DEF Start, InitialWait, SetOptions, FirstResume
  <2>2. \/ UNCHANGED at
        \/ tpc = "start" /\ at' = [at EXCEPT ![RootPid] = "execed"]
        \/ at' = [at EXCEPT ![RootPid] = "gone"]
        \/ at[RootPid] # "zombie" /\ tpc \in Early /\ at' = [at EXCEPT ![RootPid] = "running"]
    BY <1>9 DEF Start, InitialWait, SetOptions, FirstResume, Move, Early
  <2>3. tpc = "start" => at[RootPid] = "unborn"
    BY <1>0 DEF Places
  <2>4. tpc \in Early => at[RootPid] \in {"execed", "zombie"}
    BY DEF Places
  <2> QED  BY <1>0, <1>3, <2>1, <2>2, <2>3, <2>4 DEF Failing
<1>10. CASE Resume
  <2>1. UNCHANGED <<calls, failed, killed>> /\ tpc = "resume"
    BY <1>10 DEF Resume
  <2>2. CASE at[cur] = "zombie"
    BY <1>4, <1>10, <2>1, <2>2 DEF Resume
  <2>3. CASE at[cur] # "zombie"
    <3>1. PICK place \in Onward(cur) : at' = [at EXCEPT ![cur] = place]
      BY <1>10, <2>3 DEF Resume, Move
    <3>2. place \in {"group", "running", "zombie", "inside"}
            /\ (place = "inside" => at[cur] \in {"entry", "event"})
      BY <3>1 DEF Onward
    <3>3. at[cur] \in Stops
      BY <2>1, <2>3 DEF Places
    <3> QED  BY <1>0, <1>3, <2>1, <3>1, <3>2, <3>3 DEF Failing, Stops
  <2> QED  BY <2>2, <2>3
<1>11. ASSUME NEW p \in Pid, WaitEnd(p) PROVE Failing'
  BY <1>0, <1>3, <1>11 DEF WaitEnd, Move, Failing
<1>12. CASE \/ Copy \/ StartFails \/ NoChild \/ SyscallBlind \/ SyscallEntry
            \/ SyscallExit \/ EventStop \/ SignalStop \/ TakeOutput
            \/ \E p \in Pid : Write(p) \/ WaitStop(p)
  BY <1>4, <1>12
  DEF Copy, StartFails, NoChild, SyscallBlind, SyscallEntry, SyscallExit, EventStop,
      SignalStop, TakeOutput, Write, WaitStop
<1>13. CASE UNCHANGED vars
  BY <1>4, <1>13 DEF vars
<1>14. ASSUME NEW p \in Pid, Leftover(p) PROVE Failing'
  <2>1. UNCHANGED <<calls, failed, killed>>
    BY <1>14 DEF Leftover
  <2>2. \A q \in Pid : at'[q] = at[q] \/ (at'[q] \in {"free", "zombie"} /\ at[q] \in {"free", "unborn"})
    BY <1>0, <1>14 DEF Leftover, Ends, Move
  <2> QED  BY <1>0, <1>3, <2>1, <2>2 DEF Failing
<1>15. CASE Abandoning
  <2>1. UNCHANGED <<calls, failed, killed>>
    BY <1>15, Abandoned
  <2>2. \A q \in Pid : at'[q] = "free" \/ at'[q] = at[q]
    BY <1>15, Abandoned
  <2>3. \A q \in Pid : at[q] \in {"zombie", "gone"} => at'[q] = at[q]
    BY <1>15, Abandoned DEF Live
  <2> QED  BY <1>0, <1>3, <2>1, <2>2, <2>3 DEF Failing
<1> QED
  BY <1>1, <1>2, <1>5, <1>6, <1>7, <1>8, <1>9, <1>10, <1>11, <1>12, <1>13, <1>14, <1>15
  DEF Next, Process, Disturb, Tracing, Working

LEMMA FailingHolds == Spec => []Failing
<1> QED  BY TypingHolds, PlacesHold, FailingInit, FailingNext, PTL DEF Spec
-----------------------------------------------------------------------------
(* The records.                                                            *)

\* A record speaks of a call that failed; and when it is of the last call of its
\* process, the exit stop of that call has been handled.
Recording ==
  /\ RecordsAreReal
  /\ \A i \in DOMAIN failures :
       LET f == failures[i] IN
       f.n = Now(f.pid) /\ at[f.pid] = "exit" => tpc = "resume" /\ cur = f.pid

\* What failed stays as it was.
LEMMA FailedKept ==
  ASSUME Typing, Failing, [Next]_vars, NEW q, NEW n, <<q, n>> \in failed
  PROVE  /\ <<q, n>> \in failed' /\ q \in Pid
         /\ calls'[q][n] = calls[q][n]
         /\ Operands(q, n)' = Operands(q, n)
<1>0. failed \subseteq Pid \X Nat /\ calls \in [Pid -> Seq(Sys)]
  BY DEF Typing, TypeOK, CommandOK
<1>1. q \in Pid /\ n \in 1 .. Len(calls[q])
  <2>1. <<q, n>>[1] = q /\ <<q, n>>[2] = n
    OBVIOUS
  <2> QED  BY <1>0, <2>1 DEF Failing, Now
<1>2. failed \subseteq failed'
  BY DEF Next, Process, Disturb, Tracing, Working, Leftover, Abandoning, InitialWaitFails,
     FirstResumeFails, WaitFails, ResumeFails, Abandon, Fail, vars, Untouched, command, Enter, Exec, ReturnOk,
     ReturnError, Exit, Write, Fork, Kill, Send, Copy, StartFails, Start, InitialWait,
     SetOptions, FirstResume, NoChild, SyscallBlind, SyscallEntry, SyscallExit, EventStop,
     SignalStop, Resume, TakeOutput, WaitEnd, WaitStop
<1>3. \/ UNCHANGED calls
      \/ \E p \in Pid : Enter(p)
  BY DEF Next, Process, Disturb, Tracing, Working, Leftover, Abandoning, InitialWaitFails,
     FirstResumeFails, WaitFails, ResumeFails, Abandon, Fail, vars, Untouched, command, Exec, ReturnOk,
     ReturnError, Exit, Write, Fork, Kill, Send, Copy, StartFails, Start, InitialWait,
     SetOptions, FirstResume, NoChild, SyscallBlind, SyscallEntry, SyscallExit, EventStop,
     SignalStop, Resume, TakeOutput, WaitEnd, WaitStop
<1>4. CASE UNCHANGED calls
  BY <1>1, <1>2, <1>4 DEF Operands
<1>5. ASSUME NEW p \in Pid, Enter(p)
      PROVE  calls'[q][n] = calls[q][n] /\ Operands(q, n)' = Operands(q, n)
  <2>1. PICK s \in Sys : calls' = [calls EXCEPT ![p] = Append(@, s)]
    BY <1>5 DEF Enter
  <2>2. calls'[q][n] = calls[q][n] /\ n \in DOMAIN calls[q] /\ n \in DOMAIN calls'[q]
    BY <1>0, <1>1, <2>1
  <2> QED  BY <2>2 DEF Operands
<1> QED  BY <1>1, <1>2, <1>3, <1>4, <1>5

LEMMA Appended ==
  ASSUME NEW S, NEW seq \in Seq(S), NEW e
  PROVE  /\ DOMAIN Append(seq, e) = DOMAIN seq \cup {Len(seq) + 1}
         /\ Append(seq, e)[Len(seq) + 1] = e
         /\ \A i \in DOMAIN seq : Append(seq, e)[i] = seq[i]
OBVIOUS

\* The list is only added to, except that an error of Run takes it away.
LEMMA ListChanges ==
  ASSUME Typing, [Next]_vars, failures' # failures
  PROVE  SyscallExit \/ (failures' = <<>> /\ tpc' \in Errors)
BY DEF Next, Process, Disturb, Tracing, Working, Leftover, Abandoning, InitialWaitFails,
     FirstResumeFails, WaitFails, ResumeFails, Abandon, Fail, vars, Untouched, tables, Enter,
     Exec, ReturnOk, ReturnError, Exit, Write, Fork, Kill, Send, Copy, StartFails, Start,
     InitialWait, SetOptions, FirstResume, NoChild, SyscallBlind, SyscallEntry, EventStop,
     SignalStop, Resume, TakeOutput, WaitEnd, WaitStop, Errors

\* A step that records, records the call whose exit stop it handles.
LEMMA RecordStep ==
  ASSUME Typing, Captured, [Next]_vars, failures' # failures, failures' # <<>>
  PROVE  /\ ~ OldKernel /\ at[cur] = "exit" /\ tpc = "stop" /\ tpc' = "resume"
         /\ UNCHANGED <<cur, at, calls, failed, killed>>
         /\ <<cur, Now(cur)>> \in failed
         /\ calls[cur][Now(cur)] \in DOMAIN FsCalls
         /\ failures' = Append(failures, [pid |-> cur, n |-> Now(cur),
                                          sys |-> calls[cur][Now(cur)],
                                          paths |-> Operands(cur, Now(cur))])
<1>1. SyscallExit
  BY ListChanges
<1>2. /\ ~ OldKernel /\ at[cur] = "exit" /\ tpc = "stop" /\ tpc' = "resume"
      /\ UNCHANGED <<cur, at, calls, failed, killed>>
      /\ <<cur, Now(cur)>> \in failed /\ tracee[cur].name # ""
      /\ failures' = Append(failures, [pid |-> cur, n |-> Now(cur),
                                       sys |-> tracee[cur].name,
                                       paths |-> tracee[cur].operands])
  BY <1>1 DEF SyscallExit, InfoFails, Handled, command
<1>3. cur \in Pid
  BY DEF Typing, TypeOK, HandlingOK
<1>4. tracee[cur].name = NameOf(cur) /\ tracee[cur].operands = Operands(cur, Now(cur))
  BY <1>2, <1>3 DEF Captured, InCall
<1>5. tracee[cur].name = calls[cur][Now(cur)] /\ calls[cur][Now(cur)] \in DOMAIN FsCalls
  BY <1>2, <1>4 DEF NameOf
<1> QED  BY <1>2, <1>4, <1>5

LEMMA RecordingInit == Init => Recording
<1> SUFFICES ASSUME Init PROVE Recording
  OBVIOUS
<1>1. DOMAIN failures = {}
  BY DEF Init
<1> QED  BY <1>1 DEF Recording, RecordsAreReal

LEMMA RealNext ==
  ASSUME Typing, Captured, Failing, Recording, [Next]_vars
  PROVE  RecordsAreReal'
<1> DEFINE Good(f) == /\ <<f.pid, f.n>> \in failed /\ f.sys = calls[f.pid][f.n]
                      /\ f.paths = Operands(f.pid, f.n)
           Paths(q, n) == IF n \in DOMAIN calls'[q] /\ calls'[q][n] \in DOMAIN FsCalls
                          THEN [k \in 1 .. FsCalls[calls'[q][n]] |-> <<q, n, k>>]
                          ELSE <<>>
           GoodNext(f) == /\ <<f.pid, f.n>> \in failed' /\ f.sys = calls'[f.pid][f.n]
                          /\ f.paths = Paths(f.pid, f.n)
<1>1. ASSUME NEW f, Good(f) PROVE GoodNext(f)
  <2>1. Operands(f.pid, f.n)' = Paths(f.pid, f.n)
    BY DEF Operands
  <2> QED  BY <1>1, <2>1, FailedKept
<1>2. \A i \in DOMAIN failures : GoodNext(failures[i])
  <2>1. \A i \in DOMAIN failures : Good(failures[i])
    BY DEF Recording, RecordsAreReal
  <2> HIDE DEF Good, GoodNext
  <2> QED  BY <1>1, <2>1
<1>3. SUFFICES \A i \in DOMAIN failures' : GoodNext(failures'[i])
  BY DEF RecordsAreReal, Operands
<1> HIDE DEF Good, GoodNext
<1>4. CASE failures' = failures
  BY <1>2, <1>4
<1>5. CASE failures' # failures /\ failures' # <<>>
  <2> DEFINE new == [pid |-> cur, n |-> Now(cur), sys |-> calls[cur][Now(cur)],
                     paths |-> Operands(cur, Now(cur))]
  <2>1. failures \in Seq(Record)
    BY DEF Typing, TypeOK, TablesOK
  <2>2. failures' = Append(failures, new) /\ <<cur, Now(cur)>> \in failed
    BY <1>5, RecordStep
  <2>3. Good(new)
    BY <2>2 DEF Good
  <2>4. GoodNext(new)
    BY <1>1, <2>3
  <2> HIDE DEF new
  <2>5. /\ DOMAIN failures' = DOMAIN failures \cup {Len(failures) + 1}
        /\ failures'[Len(failures) + 1] = new
        /\ \A i \in DOMAIN failures : failures'[i] = failures[i]
    BY <2>1, <2>2, Appended
  <2> QED  BY <1>2, <2>4, <2>5
<1>6. CASE failures' = <<>>
  BY <1>6
<1> QED  BY <1>4, <1>5, <1>6

\* Only a return from a call that has just been made brings a process to an exit
\* stop, and only the tracer, having handled it, resumes it from there.
LEMMA ExitStops ==
  ASSUME Typing, Places, [Next]_vars, NEW p \in Pid, at'[p] = "exit"
  PROVE  /\ calls'[p] = calls[p]
         /\ \/ at[p] = "inside"
            \/ at[p] = "exit" /\ (tpc = "resume" /\ cur = p => tpc' = "resume" /\ cur' = p)
<1> USE DEF Untouched, command, handling
<1>0. /\ cur \in Pid /\ RootPid \in Pid
      /\ at \in [Pid -> Stops \cup {"unborn", "execed", "running", "inside", "zombie",
                                    "gone", "free"}]
      /\ calls \in [Pid -> Seq(Sys)]
  BY TracerAssumption DEF Typing, TypeOK, HandlingOK, CommandOK
<1>1. ASSUME NEW q \in Pid, Process(q) PROVE calls'[p] = calls[p] /\ UNCHANGED <<tpc, cur>>
                                               /\ at[p] \in {"inside", "exit"}
  <2>1. CASE Enter(q)
    BY <1>0, <2>1 DEF Enter, Move
  <2>2. CASE Exec(q) \/ ReturnOk(q) \/ ReturnError(q) \/ Exit(q) \/ Write(q)
    BY <1>0, <2>2 DEF Exec, ReturnOk, ReturnError, Exit, Write, Ends, Move, Doing
  <2>3. ASSUME NEW r \in Pid, Fork(q, r) PROVE calls'[p] = calls[p] /\ UNCHANGED <<tpc, cur>>
                                                 /\ at[p] \in {"inside", "exit"}
    BY <1>0, <2>3 DEF Fork, Doing
  <2> QED  BY <1>1, <2>1, <2>2, <2>3 DEF Process
<1>2. CASE Disturb \/ Copy \/ UNCHANGED vars
  BY <1>0, <1>2 DEF Disturb, Kill, Send, Copy, Ends, Move, vars
<1>3. CASE StartFails \/ NoChild \/ TakeOutput \/ SyscallBlind \/ SyscallEntry
             \/ SyscallExit \/ EventStop \/ SignalStop
  BY <1>0, <1>3
  DEF StartFails, Fail, NoChild, TakeOutput, SyscallBlind, SyscallEntry, SyscallExit,
      EventStop, SignalStop, Handled
<1>4. CASE Start \/ InitialWait \/ SetOptions \/ FirstResume
  BY <1>0, <1>4 DEF Start, InitialWait, SetOptions, FirstResume, Move
<1>5. CASE Resume
  <2>1. UNCHANGED calls /\ tpc = "resume"
    BY <1>5 DEF Resume
  <2>2. CASE at[cur] = "zombie"
    BY <1>5, <2>1, <2>2 DEF Resume
  <2>3. CASE at[cur] # "zombie"
    <3>1. PICK place \in Onward(cur) : at' = [at EXCEPT ![cur] = place]
      BY <1>5, <2>3 DEF Resume, Move
    <3>2. place \in {"group", "running", "zombie", "inside"}
      BY <3>1 DEF Onward
    <3> QED  BY <1>0, <2>1, <3>1, <3>2
  <2> QED  BY <2>2, <2>3
<1>6. ASSUME NEW q \in Pid, WaitEnd(q) \/ WaitStop(q) PROVE calls'[p] = calls[p] /\ tpc = "wait"
                                                           /\ at[p] = "exit"
  BY <1>0, <1>6 DEF WaitEnd, WaitStop, Move
<1>7. ASSUME NEW q \in Pid, Leftover(q) PROVE calls'[p] = calls[p] /\ UNCHANGED <<tpc, cur>>
                                                /\ at[p] = "exit"
  BY <1>0, <1>7 DEF Leftover, Ends, Move
<1>8. CASE Abandoning
  <2>1. at'[p] = "free" \/ (p \notin Live /\ at'[p] = at[p])
    BY <1>8, Abandoned
  <2> QED  BY <2>1 DEF Live
<1> QED  BY <1>1, <1>2, <1>3, <1>4, <1>5, <1>6, <1>7, <1>8 DEF Next, Tracing, Working

LEMMA RecordingNext ==
  ASSUME Typing, Places, Captured, Failing, Recording, [Next]_vars
  PROVE  Recording'
<1>0. RecordsAreReal'
  BY RealNext
<1>1. ASSUME NEW i \in DOMAIN failures', failures'[i] = failures[i], i \in DOMAIN failures,
             failures[i].n = Now(failures[i].pid)', at'[failures[i].pid] = "exit"
      PROVE  tpc' = "resume" /\ cur' = failures[i].pid
  <2> DEFINE f == failures[i]
  <2>1. f.pid \in Pid
    <3>1. failures \in Seq(Record)
      BY DEF Typing, TypeOK, TablesOK
    <3>2. failures[i] \in Record
      BY <1>1, <3>1
    <3> QED  BY <3>2 DEF Record
  <2>2. <<f.pid, f.n>> \in failed
    BY <1>1 DEF Recording, RecordsAreReal
  <2>3. calls'[f.pid] = calls[f.pid]
    BY <1>1, <2>1, ExitStops
  <2>4. f.n = Now(f.pid)
    BY <1>1, <2>3 DEF Now
  <2>5. at[f.pid] # "inside"
    <3>1. <<f.pid, f.n>>[1] = f.pid /\ <<f.pid, f.n>>[2] = f.n
      OBVIOUS
    <3> QED  BY <2>2, <2>4, <3>1 DEF Failing
  <2>6. at[f.pid] = "exit" /\ (tpc = "resume" /\ cur = f.pid => tpc' = "resume" /\ cur' = f.pid)
    BY <1>1, <2>1, <2>5, ExitStops
  <2> QED  BY <1>1, <2>4, <2>6 DEF Recording
<1>2. CASE failures' = failures
  BY <1>0, <1>1, <1>2 DEF Recording
<1>3. CASE failures' # failures /\ failures' # <<>>
  <2>1. failures \in Seq(Record)
    BY DEF Typing, TypeOK, TablesOK
  <2> DEFINE new == [pid |-> cur, n |-> Now(cur), sys |-> calls[cur][Now(cur)],
                     paths |-> Operands(cur, Now(cur))]
  <2>2. tpc' = "resume" /\ UNCHANGED cur /\ failures' = Append(failures, new)
    BY <1>3, RecordStep
  <2>3. new.pid = cur
    OBVIOUS
  <2> HIDE DEF new
  <2>4. /\ DOMAIN failures' = DOMAIN failures \cup {Len(failures) + 1}
        /\ failures'[Len(failures) + 1] = new
        /\ \A i \in DOMAIN failures : failures'[i] = failures[i]
    BY <2>1, <2>2, Appended
  <2> QED  BY <1>0, <1>1, <2>2, <2>3, <2>4 DEF Recording
<1>4. CASE failures' = <<>>
  BY <1>0, <1>4 DEF Recording
<1> QED  BY <1>2, <1>3, <1>4

LEMMA RecordingHolds == Spec => []Recording
<1>1. Recording /\ Typing /\ Places /\ Captured /\ Failing /\ [Next]_vars => Recording'
  BY RecordingNext
<1> QED
  BY <1>1, TypingHolds, PlacesHold, CapturedHolds, FailingHolds, RecordingInit, PTL
  DEF Spec

\* A record is of a call that failed, under its own name and with its own
\* operands, for any number of processes and calls.
THEOREM NothingInvented == Spec => []RecordsAreReal
<1>1. Recording => RecordsAreReal
  BY DEF Recording
<1> QED  BY <1>1, RecordingHolds, PTL
-----------------------------------------------------------------------------
(* What is not recorded.                                                   *)

LEMMA RecordsStay ==
  ASSUME Typing, Captured, [Next]_vars, tpc' \notin Errors
  PROVE  \A i \in DOMAIN failures : i \in DOMAIN failures' /\ failures'[i] = failures[i]
<1>1. CASE failures' = failures
  BY <1>1
<1>2. CASE failures' # failures
  <2>0. failures' # <<>>
    <3>1. SyscallExit
      BY <1>2, ListChanges
    <3>2. PICK e : failures' = Append(failures, e)
      BY <1>2, <3>1 DEF SyscallExit
    <3>3. failures \in Seq(Record)
      BY DEF Typing, TypeOK, TablesOK
    <3> QED  BY <3>2, <3>3, Appended
  <2> DEFINE new == [pid |-> cur, n |-> Now(cur), sys |-> calls[cur][Now(cur)],
                     paths |-> Operands(cur, Now(cur))]
  <2>1. failures \in Seq(Record)
    BY DEF Typing, TypeOK, TablesOK
  <2>2. failures' = Append(failures, new)
    BY <1>2, <2>0, RecordStep
  <2> HIDE DEF new
  <2> QED  BY <2>1, <2>2, Appended
<1> QED  BY <1>1, <1>2

\* A process leaves an exit stop killed or resumed.
LEMMA FromExit ==
  ASSUME Typing, Places, [Next]_vars, NEW p \in Pid, at[p] = "exit",
         tpc' \notin Errors
  PROVE  /\ calls'[p] = calls[p]
         /\ at'[p] = "exit" \/ p \in killed' \/ (tpc = "resume" /\ cur = p)
<1> USE DEF Untouched, command, handling
<1>0. /\ cur \in Pid /\ RootPid \in Pid
      /\ at \in [Pid -> Stops \cup {"unborn", "execed", "running", "inside", "zombie",
                                    "gone", "free"}]
      /\ calls \in [Pid -> Seq(Sys)]
  BY TracerAssumption DEF Typing, TypeOK, HandlingOK, CommandOK
<1>1. ASSUME NEW q \in Pid, Process(q) PROVE calls'[p] = calls[p] /\ at'[p] = "exit"
  <2>1. CASE Enter(q)
    BY <1>0, <2>1 DEF Enter, Move
  <2>2. CASE Exec(q) \/ ReturnOk(q) \/ ReturnError(q) \/ Exit(q) \/ Write(q)
    BY <1>0, <2>2 DEF Exec, ReturnOk, ReturnError, Exit, Write, Ends, Move, Doing
  <2>3. ASSUME NEW r \in Pid, Fork(q, r) PROVE calls'[p] = calls[p] /\ at'[p] = "exit"
    BY <1>0, <2>3 DEF Fork, Doing
  <2> QED  BY <1>1, <2>1, <2>2, <2>3 DEF Process
<1>2. ASSUME NEW q \in Pid, Kill(q) PROVE calls'[p] = calls[p]
                                          /\ (at'[p] = "exit" \/ p \in killed')
  BY <1>0, <1>2 DEF Kill, Ends, Move
<1>3. ASSUME NEW q \in Pid, NEW sig \in Signal, Send(q, sig)
      PROVE  calls'[p] = calls[p] /\ at'[p] = "exit"
  BY <1>0, <1>3 DEF Send, Move
<1>4. CASE NoChild \/ TakeOutput \/ SyscallBlind \/ SyscallEntry
             \/ SyscallExit \/ EventStop \/ SignalStop \/ Copy \/ UNCHANGED vars
  BY <1>4
  DEF NoChild, TakeOutput, SyscallBlind, SyscallEntry,
      SyscallExit, EventStop, SignalStop, Copy, vars
<1>5. CASE Start \/ InitialWait \/ SetOptions \/ FirstResume
  <2>1. p # RootPid
    BY <1>5 DEF Start, InitialWait, SetOptions, FirstResume, Places, Early
  <2> QED
    BY <1>0, <1>5, <2>1 DEF Start, InitialWait, SetOptions, FirstResume, Move
<1>6. CASE Resume
  <2>1. UNCHANGED calls /\ tpc = "resume"
    BY <1>6 DEF Resume
  <2>2. cur # p => at'[p] = at[p]
    BY <1>0, <1>6 DEF Resume, Move
  <2> QED  BY <2>1, <2>2
<1>7. ASSUME NEW q \in Pid, WaitEnd(q) \/ WaitStop(q)
      PROVE  calls'[p] = calls[p] /\ at'[p] = "exit"
  BY <1>0, <1>7 DEF WaitEnd, WaitStop, Move
<1>8. ASSUME NEW q \in Pid, Leftover(q) PROVE calls'[p] = calls[p] /\ at'[p] = "exit"
  BY <1>0, <1>8 DEF Leftover, Ends, Move
<1>9. ~ StartFails /\ ~ Abandoning
  BY Abandoned DEF StartFails, Fail, Errors
<1> QED  BY <1>1, <1>2, <1>3, <1>4, <1>5, <1>6, <1>7, <1>8, <1>9 DEF Next, Tracing, Working, Disturb

\* Of a process that was killed nothing changes any more.
LEMMA FromEnd ==
  ASSUME Typing, [Next]_vars
  PROVE  /\ killed \subseteq killed'
         /\ \A p \in Pid : at[p] \in {"zombie", "gone"} => calls'[p] = calls[p]
<1>0. /\ calls \in [Pid -> Seq(Sys)]
  BY DEF Typing, TypeOK, CommandOK
<1>1. killed \subseteq killed'
  BY DEF Next, Process, Disturb, Tracing, Working, Leftover, Abandoning, InitialWaitFails,
     FirstResumeFails, WaitFails, ResumeFails, Abandon, Fail, vars, Untouched, command, Enter, Exec, ReturnOk,
     ReturnError, Exit, Write, Fork, Kill, Send, Copy, StartFails, Start, InitialWait,
     SetOptions, FirstResume, NoChild, SyscallBlind, SyscallEntry, SyscallExit, EventStop,
     SignalStop, Resume, TakeOutput, WaitEnd, WaitStop
<1>2. \/ UNCHANGED calls
      \/ \E p \in Pid : Enter(p)
  BY DEF Next, Process, Disturb, Tracing, Working, Leftover, Abandoning, InitialWaitFails,
     FirstResumeFails, WaitFails, ResumeFails, Abandon, Fail, vars, Untouched, command, Exec, ReturnOk,
     ReturnError, Exit, Write, Fork, Kill, Send, Copy, StartFails, Start, InitialWait,
     SetOptions, FirstResume, NoChild, SyscallBlind, SyscallEntry, SyscallExit, EventStop,
     SignalStop, Resume, TakeOutput, WaitEnd, WaitStop
<1> QED  BY <1>0, <1>1, <1>2 DEF Enter

\* A step that comes to resume a process from an exit stop is SyscallExit, unless
\* the kernel is old.
LEMMA ToResume ==
  ASSUME Typing, Places, [Next]_vars, ~ OldKernel, tpc' = "resume",
         at[cur'] = "exit", ~ (tpc = "resume" /\ cur = cur')
  PROVE  SyscallExit /\ cur' = cur
<1>1. SyscallBlind \/ SyscallEntry \/ SyscallExit \/ EventStop \/ SignalStop
  BY DEF Next, Process, Disturb, Tracing, Working, Leftover, Abandoning, InitialWaitFails,
     FirstResumeFails, WaitFails, ResumeFails, Abandon, Fail, vars, Untouched, handling, Enter, Exec, ReturnOk,
     ReturnError, Exit, Write, Fork, Kill, Send, Copy, StartFails, Start, InitialWait,
     SetOptions, FirstResume, NoChild, Resume, TakeOutput, WaitEnd, WaitStop
<1>2. cur' = cur /\ tpc = "stop"
  BY <1>1 DEF SyscallBlind, SyscallEntry, SyscallExit, EventStop, SignalStop, Handled
<1>3. ws.kind = "syscall"
  BY <1>2 DEF Places, Report
<1> QED  BY <1>1, <1>2, <1>3 DEF SyscallBlind, SyscallEntry, EventStop, SignalStop, InfoFails

\* A step that adds a failed call is its return.
LEMMA ToFailed ==
  ASSUME Typing, [Next]_vars, NEW q, NEW n, <<q, n>> \in failed', <<q, n>> \notin failed
  PROVE  /\ q \in Pid /\ n = Now(q)' /\ at[q] = "inside" /\ at'[q] = "exit"
         /\ UNCHANGED <<tpc, cur>>
<1>0. /\ at \in [Pid -> Stops \cup {"unborn", "execed", "running", "inside", "zombie",
                                    "gone", "free"}]
  BY DEF Typing, TypeOK, CommandOK
<1>1. \E p \in Pid : ReturnError(p)
  BY DEF Next, Process, Disturb, Tracing, Working, Leftover, Abandoning, InitialWaitFails,
     FirstResumeFails, WaitFails, ResumeFails, Abandon, Fail, vars, Untouched, command, Enter, Exec, ReturnOk,
     Exit, Write, Fork, Kill, Send, Copy, StartFails, Start, InitialWait,
     SetOptions, FirstResume, NoChild, SyscallBlind, SyscallEntry, SyscallExit, EventStop,
     SignalStop, Resume, TakeOutput, WaitEnd, WaitStop
<1>2. PICK p \in Pid : ReturnError(p)
  BY <1>1
<1>3. /\ failed' = failed \cup {<<p, Now(p)>>} /\ UNCHANGED <<calls, tpc, cur>>
      /\ at[p] = "inside" /\ at' = [at EXCEPT ![p] = "exit"]
  BY <1>2 DEF ReturnError, Doing, Move, Untouched, handling
<1> QED  BY <1>0, <1>3 DEF Now

LEMMA MissedInit == Init => NothingMissed
<1> SUFFICES ASSUME Init PROVE NothingMissed
  OBVIOUS
<1>1. failed = {}
  BY DEF Init
<1> QED  BY <1>1 DEF NothingMissed, FsFailed

\* Run returns once.
LEMMA ErrorsLast ==
  ASSUME [Next]_vars, tpc \in Errors
  PROVE  tpc' \in Errors
BY DEF Errors, Next, Process, Disturb, Tracing, Working, Leftover, Abandoning, InitialWaitFails,
   FirstResumeFails, WaitFails, ResumeFails, vars, Untouched, command, Enter, Exec, ReturnOk,
   ReturnError, Exit, Write, Fork, Kill, Send, Copy, StartFails, Start, InitialWait,
   SetOptions, FirstResume, NoChild, SyscallBlind, SyscallEntry, SyscallExit, EventStop,
   SignalStop, Resume, TakeOutput, WaitEnd, WaitStop

LEMMA MissedNext ==
  ASSUME Typing, Places, Captured, Failing, NothingMissed, [Next]_vars
  PROVE  NothingMissed'
<1> SUFFICES ASSUME ~ OldKernel, tpc' \notin Errors, NEW q \in Pid, NEW n \in Nat, <<q, n>> \in failed',
                    calls'[q][n] \in DOMAIN FsCalls, <<q, n>> \notin Recorded'
             PROVE  /\ n = Now(q)'
                    /\ \/ at'[q] = "exit" /\ ~ (tpc' = "resume" /\ cur' = q)
                       \/ q \in killed'
  <2>1. failed' \subseteq Pid \X Nat
    BY TypingNext DEF Typing, TypeOK, CommandOK
  <2> QED  BY <2>1 DEF NothingMissed, FsFailed
<1>0. tpc \notin Errors
  BY ErrorsLast
<1>1. CASE <<q, n>> \notin failed
  <2>1. n = Now(q)' /\ at[q] = "inside" /\ at'[q] = "exit" /\ UNCHANGED <<tpc, cur>>
    BY <1>1, ToFailed
  <2>2. ~ (tpc = "resume" /\ cur = q)
    BY <2>1 DEF Places, Stops
  <2> QED  BY <2>1, <2>2
<1>2. CASE <<q, n>> \in failed
  <2>1. calls'[q][n] = calls[q][n]
    BY <1>2, FailedKept
  <2>2. <<q, n>> \notin Recorded
    <3>1. \A i \in DOMAIN failures : i \in DOMAIN failures' /\ failures'[i] = failures[i]
      BY RecordsStay
    <3> QED  BY <3>1 DEF Recorded, Calls
  <2>3. <<q, n>> \in FsFailed \ Recorded
    BY <1>2, <2>1, <2>2 DEF FsFailed
  <2>4. <<q, n>>[1] = q /\ <<q, n>>[2] = n
    OBVIOUS
  <2>5. /\ n = Now(q)
        /\ (at[q] = "exit" /\ ~ (tpc = "resume" /\ cur = q)) \/ q \in killed
    BY <1>0, <2>3, <2>4 DEF NothingMissed
  <2>6. CASE q \in killed
    <3>1. at[q] \in {"zombie", "gone"}
      BY <2>6 DEF Failing
    <3> QED  BY <2>5, <2>6, <3>1, FromEnd DEF Now
  <2>7. CASE at[q] = "exit" /\ ~ (tpc = "resume" /\ cur = q)
    <3>1. calls'[q] = calls[q] /\ (at'[q] = "exit" \/ q \in killed')
      BY <2>7, FromExit
    <3>2. ASSUME tpc' = "resume", cur' = q PROVE FALSE
      <4>1. SyscallExit /\ cur = q
        BY <2>7, <3>2, ToResume
      <4>2. tracee[q].name = calls[q][n]
        BY <2>1, <2>5, <2>7 DEF Captured, InCall, NameOf
      <4>3. calls[q][n] # ""
        BY <2>1, TracerAssumption
      <4>4. failures' = Append(failures, [pid |-> q, n |-> n, sys |-> tracee[q].name,
                                          paths |-> tracee[q].operands])
        BY <1>2, <2>5, <4>1, <4>2, <4>3 DEF SyscallExit
      <4> DEFINE new == [pid |-> q, n |-> n, sys |-> tracee[q].name,
                         paths |-> tracee[q].operands]
      <4>5. failures \in Seq(Record)
        BY DEF Typing, TypeOK, TablesOK
      <4>6. failures' = Append(failures, new) /\ new.pid = q /\ new.n = n
        BY <4>4
      <4> HIDE DEF new
      <4>7. Len(failures) + 1 \in DOMAIN failures' /\ failures'[Len(failures) + 1] = new
        BY <4>5, <4>6, Appended
      <4> QED  BY <4>6, <4>7 DEF Recorded, Calls
    <3> QED  BY <2>5, <3>1, <3>2 DEF Now
  <2> QED  BY <2>5, <2>6, <2>7
<1> QED  BY <1>1, <1>2

\* A failed call that is not recorded is the last of its process and its exit stop
\* is still to be handled, or the process was killed in it: no order of births,
\* events and first stops makes the loop lose one.
THEOREM NothingLost == Spec => []NothingMissed
<1>1. Typing /\ Places /\ Captured /\ Failing /\ NothingMissed /\ [Next]_vars
        => NothingMissed'
  BY MissedNext
<1> QED
  BY <1>1, TypingHolds, PlacesHold, CapturedHolds, FailingHolds, MissedInit, PTL
  DEF Spec

\* What Detection assumes of a traced command, and runShellPtrace takes from the
\* result: once Run has returned, every failed call of the set is in it, except
\* the last call of a process that was killed in that call.
ResultComplete ==
  tpc \in {"returned", "done"} /\ ~ OldKernel =>
    \A c \in FsFailed \ Recorded : c[1] \in killed /\ c[2] = Now(c[1])

\* When Run returns, each failure of the command's processes is in its result,
\* unless the process was killed in the failing call: nothing is still to be
\* handled then.
THEOREM ResultIsComplete == Spec => []ResultComplete
<1>1. Typing /\ Places /\ NothingMissed => ResultComplete
  <2> SUFFICES ASSUME Typing, Places, NothingMissed, ~ OldKernel,
                      tpc \in {"returned", "done"}, NEW c \in FsFailed \ Recorded
               PROVE  c[1] \in killed /\ c[2] = Now(c[1])
    BY DEF ResultComplete
  <2>1. c[1] \in Pid
    BY DEF Typing, TypeOK, CommandOK, FsFailed
  <2>2. at[c[1]] # "exit"
    BY <2>1 DEF Places
  <2> QED  BY <2>2 DEF NothingMissed, Errors
<1> QED
  BY <1>1, TypingHolds, PlacesHold, NothingLost, PTL
-----------------------------------------------------------------------------
(* Tracer implements Trace.                                                *)

LEMMA PromiseInit == Init => Promise!Init
<1> SUFFICES ASSUME Init PROVE Promise!Init
  OBVIOUS
<1>1. Live = {}
  BY DEF Init, Live
<1>2. Calls(failures) = <<>>
  BY DEF Init, Calls
<1> QED  BY <1>1, <1>2 DEF Init, Errors, Promise!Init

\* The abstract step that a move of one process is.
LEMMA PromiseProcess ==
  ASSUME Typing, Places, NEW p \in Pid, Process(p)
  PROVE  [Promise!Next]_(Promise!vars)
<1> USE DEF Untouched, handling, tables, command
<1>0. at \in [Pid -> Stops \cup {"unborn", "execed", "running", "inside", "zombie", "gone", "free"}]
  BY DEF Typing, TypeOK, CommandOK
<1>1. UNCHANGED <<tpc, failures>>
  BY DEF Process, Enter, Exec, ReturnOk, ReturnError, Exit, Write, Fork
<1>2. Calls(failures)' = Calls(failures)
  BY <1>1 DEF Calls
<1>3. CASE Enter(p) \/ Exec(p) \/ ReturnOk(p) \/ ReturnError(p) \/ Write(p)
  <2>1. Live' = Live
    BY <1>0, <1>3 DEF Enter, Exec, ReturnOk, ReturnError, Write, Doing, Move, Live
  <2> QED  BY <1>1, <1>2, <2>1 DEF Promise!vars
<1>4. CASE Exit(p)
  <2>1. Live' = Live \ {p}
    BY <1>0, <1>4 DEF Exit, Ends, Move, Live
  <2>2. Promise!End(p)
    BY <1>1, <1>2, <2>1 DEF Promise!End
  <2> QED  BY <2>2 DEF Promise!Next
<1>5. ASSUME NEW q \in Pid, Fork(p, q) PROVE Promise!Spawn(q)
  <2>1. Live' = Live \cup {q} /\ p \in Live /\ q \notin Live
    BY <1>0, <1>5 DEF Fork, Doing, Live
  <2>2. tpc \notin Errors \cup {"returned", "done"}
    BY <1>0, <1>5 DEF Fork, Doing, Places
  <2> QED  BY <1>1, <1>2, <2>1, <2>2 DEF Promise!Spawn
<1> QED  BY <1>3, <1>4, <1>5 DEF Process, Promise!Next

LEMMA PromiseLeftover ==
  ASSUME Typing, Places, NEW p \in Pid, Leftover(p)
  PROVE  [Promise!Next]_(Promise!vars)
<1> USE DEF Untouched, handling, tables
<1>0. /\ at \in [Pid -> Stops \cup {"unborn", "execed", "running", "inside", "zombie",
                                    "gone", "free"}]
      /\ at[p] = "free" /\ UNCHANGED <<tpc, failures>>
  BY DEF Typing, TypeOK, CommandOK, Leftover
<1>1. Calls(failures)' = Calls(failures)
  BY <1>0 DEF Calls
<1>2. tpc \notin {"returned", "done"}
  BY <1>0 DEF Places
<1>3. CASE Ends(p, "exited")
  <2>1. Live' = Live \ {p}
    BY <1>0, <1>3 DEF Ends, Move, Live
  <2>2. Promise!End(p)
    BY <1>0, <1>1, <2>1 DEF Promise!End
  <2> QED  BY <2>2 DEF Promise!Next
<1>4. ASSUME NEW q \in Pid, at[q] = "unborn", Move(q, "free") PROVE Promise!Spawn(q)
  <2>1. Live' = Live \cup {q} /\ p \in Live /\ q \notin Live
    BY <1>0, <1>4 DEF Move, Live
  <2> QED  BY <1>0, <1>1, <1>2, <2>1 DEF Promise!Spawn
<1>5. CASE UNCHANGED at
  <2>1. Live' = Live
    BY <1>5 DEF Live
  <2> QED  BY <1>0, <1>1, <2>1 DEF Promise!vars
<1> QED  BY <1>3, <1>4, <1>5 DEF Leftover, Promise!Next

LEMMA PromiseNext ==
  ASSUME Typing, Places, Captured, Recording, Bounded, [Next]_vars
  PROVE  [Promise!Next]_(Promise!vars)
<1> USE DEF handling, tables, lines, command, Errors
<1>0. /\ at \in [Pid -> Stops \cup {"unborn", "execed", "running", "inside", "zombie",
                                    "gone", "free"}]
      /\ cur \in Pid /\ RootPid \in Pid /\ failures \in Seq(Record)
  BY TracerAssumption DEF Typing, TypeOK, CommandOK, HandlingOK, TablesOK
<1>1. ASSUME UNCHANGED <<failures, Live>>,
             \/ UNCHANGED tpc
             \/ {tpc, tpc'} \cap (Errors \cup {"returned", "done"}) = {}
             \/ {tpc, tpc'} \subseteq {"returned", "done"}
      PROVE  UNCHANGED Promise!vars
  <2>1. Calls(failures)' = Calls(failures)
    BY <1>1 DEF Calls
  <2> QED  BY <1>1, <2>1 DEF Promise!vars
<1>2. CASE UNCHANGED vars \/ Copy
  <2>1. UNCHANGED <<tpc, at, failures>>
    BY <1>2 DEF vars, Copy, Untouched
  <2> QED  BY <1>1, <2>1 DEF Live
<1>3. ASSUME NEW p \in Pid, Kill(p) PROVE Promise!End(p)
  <2>1. Live' = Live \ {p} /\ UNCHANGED <<tpc, failures>>
    BY <1>0, <1>3 DEF Kill, Ends, Move, Live, Untouched
  <2>2. Calls(failures)' = Calls(failures)
    BY <2>1 DEF Calls
  <2> QED  BY <2>1, <2>2 DEF Promise!End
<1>4. ASSUME NEW p \in Pid, NEW sig \in Signal, Send(p, sig) PROVE UNCHANGED Promise!vars
  <2>1. UNCHANGED <<Live, tpc, failures>>
    BY <1>0, <1>4 DEF Send, Move, Live, Untouched
  <2> QED  BY <1>1, <2>1
<1>5. ASSUME Fail("startError") \/ Fail("setoptionsError"), tpc \in {"start", "options"},
             Live' = {}
      PROVE  Promise!Fail
  <2>1. tpc' \in Errors /\ failures' = <<>>
    BY <1>5 DEF Fail
  <2>2. Calls(failures)' = <<>>
    BY <2>1 DEF Calls
  <2> QED  BY <1>5, <2>1, <2>2 DEF Promise!Fail
<1>16. CASE StartFails
  <2>1. Live' = {}
    BY <1>16 DEF StartFails, Live, Places
  <2> QED  BY <1>5, <1>16, <2>1 DEF StartFails, Promise!Next
<1>17. CASE Abandoning
  <2>1. /\ tpc \in {"initial", "first", "wait", "resume"} /\ tpc' \in Errors
        /\ failures' = <<>>
    BY <1>17, Abandoned
  <2>2. Live' = Live
    BY <1>17, Abandoned DEF Live
  <2>3. Calls(failures)' = <<>>
    BY <2>1 DEF Calls
  <2>4. Promise!Fail
    BY <2>1, <2>2, <2>3 DEF Promise!Fail
  <2> QED  BY <2>4 DEF Promise!Next
<1>6. CASE Start
  <2>1. tpc = "start" /\ tpc' = "initial" /\ UNCHANGED failures
          /\ at' = [at EXCEPT ![RootPid] = "execed"]
    BY <1>6 DEF Start, Move
  <2>2. Live = {} /\ Live' = {RootPid}
    BY <1>0, <2>1 DEF Live, Places
  <2>3. Calls(failures)' = Calls(failures)
    BY <2>1 DEF Calls
  <2>4. Promise!Start
    BY <2>1, <2>2, <2>3 DEF Promise!Start
  <2> QED  BY <2>4 DEF Promise!Next
<1>7. CASE InitialWait
  <2>1. CASE at[RootPid] = "zombie"
    <3>1. tpc = "initial" /\ tpc' = "returned" /\ UNCHANGED failures
            /\ at' = [at EXCEPT ![RootPid] = "gone"]
      BY <1>7, <2>1 DEF InitialWait, Move
    <3>2. Live = {} /\ Live' = {}
      BY <1>0, <2>1, <3>1 DEF Live, Places, Early
    <3>3. Calls(failures)' = Calls(failures)
      BY <3>1 DEF Calls
    <3>4. Promise!Return
      BY <3>1, <3>2, <3>3 DEF Promise!Return
    <3> QED  BY <3>4 DEF Promise!Next
  <2>2. CASE at[RootPid] # "zombie"
    <3>1. tpc = "initial" /\ tpc' = "options" /\ UNCHANGED <<at, failures>>
      BY <1>7, <2>2 DEF InitialWait
    <3> QED  BY <1>1, <3>1 DEF Live
  <2> QED  BY <2>1, <2>2
<1>8. CASE SetOptions
  <2>1. tpc = "options" /\ \A p \in Pid \ {RootPid} : at[p] = "unborn"
    BY <1>8 DEF SetOptions, Places, Early
  <2>2. CASE tpc' = "first"
    <3>1. UNCHANGED <<at, failures>>
      BY <1>8, <2>2 DEF SetOptions, Fail
    <3> QED  BY <1>1, <2>1, <2>2, <3>1 DEF Live
  <2>3. CASE tpc' # "first"
    <3>1. Fail("setoptionsError") /\ at' = [at EXCEPT ![RootPid] = "gone"]
      BY <1>8, <2>3 DEF SetOptions, Move
    <3>2. Live' = {}
      BY <1>0, <2>1, <3>1 DEF Live
    <3> QED  BY <1>5, <2>1, <3>1, <3>2 DEF Promise!Next
  <2> QED  BY <2>2, <2>3
<1>9. CASE FirstResume
  <2>1. tpc = "first" /\ UNCHANGED failures
          /\ \A p \in Pid \ {RootPid} : at[p] = "unborn"
    BY <1>9 DEF FirstResume, Places, Early
  <2>2. tpc' = "wait" /\ at[RootPid] # "zombie" /\ at' = [at EXCEPT ![RootPid] = "running"]
    BY <1>9 DEF FirstResume, Move
  <2>3. Live' = Live
    BY <1>0, <2>1, <2>2 DEF Live, Places, Early
  <2> QED  BY <1>1, <2>1, <2>2, <2>3
<1>10. CASE NoChild
  <2>1. tpc = "wait" /\ tpc' = "returned" /\ UNCHANGED <<at, failures>>
    BY <1>10 DEF NoChild
  <2>2. Live = {} /\ Live' = {}
    BY <1>10, <2>1 DEF Live, NoChild
  <2>3. Calls(failures)' = Calls(failures)
    BY <2>1 DEF Calls
  <2>4. Promise!Return
    BY <2>1, <2>2, <2>3 DEF Promise!Return
  <2> QED  BY <2>4 DEF Promise!Next
<1>11. CASE \/ SyscallBlind \/ SyscallEntry \/ EventStop \/ SignalStop
            \/ \E p \in Pid : WaitStop(p)
  <2>1. UNCHANGED <<at, failures>>
          /\ {tpc, tpc'} \cap (Errors \cup {"returned", "done"}) = {}
    BY <1>11 DEF SyscallBlind, SyscallEntry, EventStop, SignalStop, Handled, WaitStop
  <2> QED  BY <1>1, <2>1 DEF Live
<1>12. CASE SyscallExit
  <2>1. UNCHANGED at /\ tpc = "stop" /\ tpc' = "resume" /\ at[cur] = "exit"
    BY <1>12 DEF SyscallExit, Handled
  <2>2. CASE failures' = failures
    BY <1>1, <2>1, <2>2 DEF Live
  <2>3. CASE failures' # failures
    <3> DEFINE new == [pid |-> cur, n |-> Now(cur), sys |-> calls[cur][Now(cur)],
                       paths |-> Operands(cur, Now(cur))]
    <3>1. failures' = Append(failures, new) /\ new.pid = cur /\ new.n = Now(cur)
      <4>1. failures' # <<>>
        <5>1. PICK e : failures' = Append(failures, e)
          BY <1>12, <2>3 DEF SyscallExit
        <5> QED  BY <1>0, <5>1, Appended
      <4> QED  BY <2>3, <4>1, RecordStep
    <3>2. Now(cur) \in 1 .. MaxCalls[cur]
      <4>1. calls \in [Pid -> Seq(Sys)] /\ MaxCalls \in [Pid -> Nat]
        BY TracerAssumption DEF Typing, TypeOK, CommandOK
      <4>2. calls[cur] \in Seq(Sys) /\ MaxCalls[cur] \in Nat
        BY <1>0, <4>1
      <4>3. Now(cur) \in Nat
        BY <4>2 DEF Now
      <4> QED  BY <1>0, <2>1, <4>2, <4>3 DEF Bounded, Typing, Progress
    <3>3. \A i \in DOMAIN failures : Calls(failures)[i] # <<cur, Now(cur)>>
      <4>1. \A i \in DOMAIN failures :
              ~ (failures[i].pid = cur /\ failures[i].n = Now(cur))
        BY <2>1 DEF Recording
      <4> QED  BY <4>1 DEF Calls
    <3>4. DOMAIN Calls(failures) = DOMAIN failures
      BY DEF Calls
    <3> HIDE DEF new
    <3>5. /\ Len(failures) \in Nat /\ DOMAIN failures = 1 .. Len(failures)
          /\ DOMAIN failures' = 1 .. Len(failures) + 1
          /\ failures'[Len(failures) + 1] = new
          /\ \A i \in DOMAIN failures : failures'[i] = failures[i]
      BY <1>0, <3>1, Appended
    <3>6. Calls(failures)' = Append(Calls(failures), <<cur, Now(cur)>>)
      <4>1. Calls(failures) \in Seq(Pid \X Nat) /\ Len(Calls(failures)) = Len(failures)
        <5>1. \A i \in DOMAIN failures : failures[i] \in Record
          BY <1>0
        <5>2. \A i \in DOMAIN failures : failures[i].pid \in Pid /\ failures[i].n \in Nat
          BY <5>1 DEF Record
        <5> QED  BY <3>5, <5>2 DEF Calls
      <4>2. Calls(failures)' = [i \in 1 .. Len(failures) + 1 |->
                                  <<failures'[i].pid, failures'[i].n>>]
        BY <3>5 DEF Calls
      <4>3. Append(Calls(failures), <<cur, Now(cur)>>) =
              [i \in 1 .. Len(failures) + 1 |->
                 IF i = Len(failures) + 1 THEN <<cur, Now(cur)>> ELSE Calls(failures)[i]]
        BY <3>5, <4>1
      <4>4. ASSUME NEW i \in 1 .. Len(failures) + 1
            PROVE  <<failures'[i].pid, failures'[i].n>> =
                     IF i = Len(failures) + 1 THEN <<cur, Now(cur)>>
                     ELSE Calls(failures)[i]
        BY <3>1, <3>5 DEF Calls
      <4> QED  BY <4>2, <4>3, <4>4
    <3>7. cur \in Live /\ Live' = Live
      BY <1>0, <2>1 DEF Live
    <3>8. Promise!Record(cur, Now(cur))
      BY <2>1, <3>3, <3>4, <3>6, <3>7 DEF Promise!Record
    <3>9. Now(cur) \in UNION {1 .. MaxCalls[p] : p \in Pid}
      BY <1>0, <3>2
    <3> QED  BY <1>0, <3>8, <3>9 DEF Promise!Next
  <2> QED  BY <2>2, <2>3
<1>13. CASE Resume
  <2>1. UNCHANGED failures /\ tpc = "resume" /\ tpc' = "wait"
    BY <1>13 DEF Resume
  <2>2. CASE at[cur] = "zombie"
    <3>1. UNCHANGED at
      BY <1>13, <2>2 DEF Resume
    <3> QED  BY <1>1, <2>1, <3>1 DEF Live
  <2>3. CASE at[cur] # "zombie"
    <3>1. PICK place \in Onward(cur) : at' = [at EXCEPT ![cur] = place]
      BY <1>13, <2>3 DEF Resume, Move
    <3>2. place \in {"group", "running", "zombie", "inside"}
      BY <3>1 DEF Onward
    <3>3. at[cur] \in Stops
      BY <2>1, <2>3 DEF Places
    <3>4. CASE place = "zombie"
      <4>1. Live' = Live \ {cur}
        BY <1>0, <3>1, <3>4 DEF Live
      <4>2. Calls(failures)' = Calls(failures)
        BY <2>1 DEF Calls
      <4>3. Promise!End(cur)
        BY <2>1, <4>1, <4>2 DEF Promise!End
      <4> QED  BY <1>0, <4>3 DEF Promise!Next
    <3>5. CASE place # "zombie"
      <4>1. Live' = Live
        BY <1>0, <3>1, <3>2, <3>3, <3>5 DEF Live, Stops
      <4> QED  BY <1>1, <2>1, <4>1
    <3> QED  BY <3>4, <3>5
  <2> QED  BY <2>2, <2>3
<1>14. CASE TakeOutput
  <2>1. UNCHANGED <<at, failures>> /\ {tpc, tpc'} \subseteq {"returned", "done"}
    BY <1>14 DEF TakeOutput
  <2> QED  BY <1>1, <2>1 DEF Live
<1>15. ASSUME NEW p \in Pid, WaitEnd(p) PROVE UNCHANGED Promise!vars
  <2>1. UNCHANGED <<tpc, failures>> /\ Live' = Live
    BY <1>0, <1>15 DEF WaitEnd, Move, Live
  <2> QED  BY <1>1, <2>1
<1> QED
  BY <1>2, <1>3, <1>4, <1>5, <1>6, <1>7, <1>8, <1>9, <1>10, <1>11, <1>12, <1>13, <1>14,
     <1>15, <1>16, <1>17, PromiseProcess, PromiseLeftover
  DEF Next, Tracing, Working, Disturb, Promise!Next

\* ptrace.Run, with all its stops and signals, does to the set of live processes,
\* the list of recorded failures and the outcome only what Trace allows.
THEOREM TracerImplementsTrace == Spec => ImplementsTrace
<1>1. Spec => Promise!Spec
  BY PromiseInit, PromiseNext, TypingHolds, PlacesHold, CapturedHolds, RecordingHolds,
     BoundedHolds, PTL DEF Spec, Promise!Spec
<1> QED  BY <1>1 DEF ImplementsTrace
=============================================================================
