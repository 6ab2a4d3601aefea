----------------------------- MODULE TracerProofs -----------------------------
(***************************************************************************)
(* What Tracer promises, for every set of processes and calls.             *)
(***************************************************************************)
EXTENDS Tracer, FiniteSetTheorems, TLAPS

\* Why the steps keep the types: a process in a call has made one, and one that
\* has ended has ended somehow.
Progress ==
  /\ \A p \in Pid : at[p] \in {"entry", "inside", "event", "exit"} => Now(p) > 0
  /\ \A p \in Pid : at[p] = "zombie" => note[p] \in {"exited", "signaled"}
  /\ \A p \in Pid : at[p] = "signal" => note[p] \in Signal

Typing == TypeOK /\ Progress

Tracee == [name : DOMAIN FsCalls \cup {""}, operands : Seq(Pid \X Nat \X Nat),
           started : BOOLEAN]

LEMMA AppendType ==
  ASSUME NEW S, NEW s \in Seq(S), NEW e \in S
  PROVE  Append(s, e) \in Seq(S)
OBVIOUS

LEMMA FreshType == Fresh \in Tracee
BY DEF Fresh, Tracee

LEMMA OperandsType ==
  ASSUME CommandOK, NEW p \in Pid, NEW n \in Nat
  PROVE  Operands(p, n) \in Seq(Pid \X Nat \X Nat)
<1>1. CASE n \in DOMAIN calls[p] /\ calls[p][n] \in DOMAIN FsCalls
  <2> DEFINE m == FsCalls[calls[p][n]]
  <2>1. m \in Nat
    BY <1>1, TracerAssumption
  <2>2. [k \in 1 .. m |-> <<p, n, k>>] \in Seq(Pid \X Nat \X Nat)
    BY <2>1
  <2> QED  BY <1>1, <2>2 DEF Operands
<1>2. CASE ~ (n \in DOMAIN calls[p] /\ calls[p][n] \in DOMAIN FsCalls)
  BY <1>2 DEF Operands
<1> QED  BY <1>1, <1>2

\* A step that leaves a group of variables alone keeps its types.
LEMMA Kept ==
  ASSUME Typing
  PROVE  /\ UNCHANGED <<at, note, calls, failed, sent, killed>>
              => CommandOK' /\ Progress'
         /\ UNCHANGED <<cur, ws, inject, tpc>> => HandlingOK'
         /\ UNCHANGED <<known, tracee, failures, rootStatus>> => TablesOK'
         /\ UNCHANGED <<written, piped, buf, output>> => LinesOK'
BY DEF Typing, TypeOK, CommandOK, Progress, Now, HandlingOK, TablesOK, LinesOK

LEMMA TypingInit == Init => Typing
<1> SUFFICES ASSUME Init PROVE Typing
  OBVIOUS
<1>1. CommandOK
  <2>1. <<>> \in Seq(Sys)
    OBVIOUS
  <2> QED  BY <2>1 DEF Init, CommandOK
<1>2. HandlingOK
  <2>1. NoStop \in [kind : {"none", "syscall", "event", "signal"},
                    sig : Signal \cup {"none"}]
    BY DEF NoStop
  <2> QED  BY <2>1, TracerAssumption DEF Init, HandlingOK
<1>3. TablesOK
  <2>1. <<>> \in Seq(Record)
    OBVIOUS
  <2> QED  BY <2>1, FreshType DEF Init, TablesOK, Tracee
<1>4. LinesOK /\ Progress
  BY DEF Init, LinesOK, Progress
<1> QED  BY <1>1, <1>2, <1>3, <1>4 DEF Typing, TypeOK

\* An error returned while processes may be alive: they are left where nobody sees
\* them, and the locals are gone.
LEMMA Abandoned ==
  ASSUME Typing, Abandoning
  PROVE  /\ tpc \in {"initial", "first", "wait", "resume"}
         /\ tpc' \in {"initialWaitError", "initialSyscallError", "wait4Error",
                      "syscallError"}
         /\ UNCHANGED <<calls, failed, sent, killed, lines>>
         /\ cur' = RootPid /\ ws' = NoStop /\ inject' = "none"
         /\ known' = {} /\ tracee' = [p \in Pid |-> Fresh]
         /\ failures' = <<>> /\ rootStatus' = "none"
         /\ \A p \in Pid : IF p \in Live THEN at'[p] = "free" /\ note'[p] = "none"
                           ELSE at'[p] = at[p] /\ note'[p] = note[p]
         /\ DOMAIN at' = Pid /\ DOMAIN note' = Pid
         /\ at' = [p \in Pid |-> at'[p]] /\ note' = [p \in Pid |-> note'[p]]
BY DEF Abandoning, InitialWaitFails, FirstResumeFails, WaitFails, ResumeFails, Abandon,
       Fail

\* Without the locals of runLocked the types are kept.
LEMMA Cleared ==
  ASSUME cur' = RootPid, ws' = NoStop, inject' = "none", tpc' \in Errors,
         known' = {}, tracee' = [p \in Pid |-> Fresh], failures' = <<>>,
         rootStatus' = "none"
  PROVE  HandlingOK' /\ TablesOK'
<1>1. NoStop \in [kind : {"none", "syscall", "event", "signal"},
                 sig : Signal \cup {"none"}]
  BY DEF NoStop
<1>2. HandlingOK'
  BY <1>1, TracerAssumption DEF HandlingOK
<1>3. <<>> \in Seq(Record)
  OBVIOUS
<1>4. TablesOK'
  BY <1>3, FreshType DEF TablesOK, Tracee
<1> QED  BY <1>2, <1>4

\* The steps of the command.
LEMMA TypingProcess ==
  ASSUME Typing, NEW p \in Pid, Process(p)
  PROVE  Typing'
<1> USE DEF Typing, TypeOK
<1>1. CASE Enter(p)
  <2>1. /\ \A q \in Pid : Now(q) \in Nat /\ Now(q)' \in Nat /\ Now(q)' >= Now(q)
        /\ Now(p)' > 0
    BY <1>1 DEF Enter, CommandOK, Now
  <2>2. CommandOK'
    BY <1>1 DEF Enter, CommandOK, Move, Stops
  <2>3. Progress'
    BY <1>1, <2>1 DEF Enter, CommandOK, Progress, Move
  <2> QED  BY <1>1, <2>2, <2>3, Kept DEF Enter, Untouched, handling, tables, lines
<1>2. CASE Exec(p)
  <2>1. CommandOK' /\ Progress'
    BY <1>2 DEF Exec, Doing, CommandOK, Progress, Move, Stops, Now
  <2> QED  BY <1>2, <2>1, Kept DEF Exec, Untouched, handling, tables, lines
<1>3. CASE ReturnOk(p)
  <2>1. CommandOK' /\ Progress'
    BY <1>3 DEF ReturnOk, CommandOK, Progress, Move, Stops, Now
  <2> QED  BY <1>3, <2>1, Kept DEF ReturnOk, Untouched, handling, tables, lines
<1>4. CASE ReturnError(p)
  <2>1. CommandOK' /\ Progress'
    BY <1>4 DEF ReturnError, Doing, CommandOK, Progress, Move, Stops, Now
  <2> QED  BY <1>4, <2>1, Kept DEF ReturnError, Untouched, handling, tables, lines
<1>5. CASE Exit(p)
  <2>1. CommandOK' /\ Progress'
    BY <1>5 DEF Exit, Ends, CommandOK, Progress, Move, Stops, Now
  <2> QED  BY <1>5, <2>1, Kept DEF Exit, Untouched, handling, tables, lines
<1>6. CASE Write(p)
  <2>1. LinesOK'
    BY <1>6 DEF Write, LinesOK
  <2> QED  BY <1>6, <2>1, Kept DEF Write, Untouched, command, handling, tables
<1>7. ASSUME NEW q \in Pid, Fork(p, q) PROVE Typing'
  <2>1. CommandOK' /\ Progress'
    BY <1>7 DEF Fork, Doing, CommandOK, Progress, Stops, Now
  <2> QED  BY <1>7, <2>1, Kept DEF Fork, Untouched, handling, tables, lines
<1> QED  BY <1>1, <1>2, <1>3, <1>4, <1>5, <1>6, <1>7 DEF Process

LEMMA TypingLeftover ==
  ASSUME Typing, NEW p \in Pid, Leftover(p)
  PROVE  Typing'
<1> USE DEF Typing, TypeOK
<1>1. CASE Ends(p, "exited") /\ UNCHANGED lines
  <2>1. CommandOK' /\ Progress'
    BY <1>1 DEF Leftover, Ends, CommandOK, Progress, Move, Stops, Now
  <2> QED  BY <1>1, <2>1, Kept DEF Leftover, Untouched, handling, tables, lines
<1>2. ASSUME NEW q \in Pid, at[q] = "unborn", Move(q, "free"), UNCHANGED <<note, lines>>
      PROVE  Typing'
  <2>1. CommandOK' /\ Progress'
    BY <1>2 DEF Leftover, CommandOK, Progress, Move, Stops, Now
  <2> QED  BY <1>2, <2>1, Kept DEF Leftover, Untouched, handling, tables, lines
<1>3. CASE /\ written' = written + 1 /\ piped' = piped + 1
           /\ UNCHANGED <<at, note, buf, output>>
  <2>1. LinesOK'
    BY <1>3 DEF LinesOK
  <2> QED  BY <1>3, <2>1, Kept DEF Leftover, Untouched, handling, tables
<1> QED  BY <1>1, <1>2, <1>3 DEF Leftover

LEMMA TypingDisturb ==
  ASSUME Typing, Disturb \/ Copy
  PROVE  Typing'
<1> USE DEF Typing, TypeOK
<1>1. ASSUME NEW p \in Pid, Kill(p) PROVE Typing'
  <2>1. CommandOK' /\ Progress'
    BY <1>1 DEF Kill, Ends, CommandOK, Progress, Move, Stops, Now
  <2> QED  BY <1>1, <2>1, Kept DEF Kill, Untouched, handling, tables, lines
<1>2. ASSUME NEW p \in Pid, NEW sig \in Signal, Send(p, sig) PROVE Typing'
  <2>1. CommandOK' /\ Progress'
    BY <1>2 DEF Send, CommandOK, Progress, Move, Stops, Now
  <2> QED  BY <1>2, <2>1, Kept DEF Send, Untouched, handling, tables, lines
<1>3. CASE Copy
  <2>1. LinesOK'
    BY <1>3 DEF Copy, LinesOK
  <2> QED  BY <1>3, <2>1, Kept DEF Copy, Untouched, command, handling, tables
<1> QED  BY <1>1, <1>2, <1>3 DEF Disturb

\* The steps of the tracer.
LEMMA TypingTracing ==
  ASSUME Typing, Tracing
  PROVE  Typing'
<1> USE DEF Typing, TypeOK
<1>0. cur \in Pid /\ Now(cur) \in Nat /\ RootPid \in Pid
  <2>1. RootPid \in Pid
    BY TracerAssumption
  <2>2. cur \in Pid
    BY DEF HandlingOK
  <2> QED  BY <2>1, <2>2 DEF CommandOK, Now
<1>1. CASE StartFails
  BY <1>1, Kept, Cleared DEF StartFails, Fail, Errors, command, lines
<1>2. CASE Start
  <2>1. CommandOK' /\ Progress'
    BY <1>0, <1>2 DEF Start, CommandOK, Progress, Move, Stops, Now
  <2> QED  BY <1>2, <2>1, Kept DEF Start, HandlingOK, handling, tables, lines
<1>3. CASE InitialWait
  <2>1. CommandOK' /\ Progress'
    BY <1>0, <1>3 DEF InitialWait, CommandOK, Progress, Move, Stops, Now
  <2>2. TablesOK'
    BY <1>0, <1>3 DEF InitialWait, TablesOK, Progress
  <2> QED  BY <1>3, <2>1, <2>2, Kept DEF InitialWait, HandlingOK, handling, lines
<1>4. CASE SetOptions
  <2>1. CommandOK' /\ Progress'
    BY <1>0, <1>4 DEF SetOptions, CommandOK, Progress, Move, Stops, Now
  <2>2. HandlingOK' /\ TablesOK'
    <3>1. CASE Fail("setoptionsError")
      BY <3>1, Cleared DEF Fail, Errors
    <3>2. CASE ~ Fail("setoptionsError")
      <4>1. /\ tpc' = "first" /\ UNCHANGED <<cur, ws, inject, failures, rootStatus>>
            /\ known' = {RootPid} /\ tracee' = [tracee EXCEPT ![RootPid] = Fresh]
        BY <1>4, <3>2 DEF SetOptions, handling
      <4>2. HandlingOK'
        BY <4>1 DEF HandlingOK
      <4>3. TablesOK'
        BY <1>0, <4>1, FreshType DEF TablesOK, Tracee
      <4> QED  BY <4>2, <4>3
    <3> QED  BY <3>1, <3>2
  <2> QED  BY <1>4, <2>1, <2>2, Kept DEF SetOptions, lines
<1>5. CASE FirstResume
  <2>1. CommandOK' /\ Progress'
    BY <1>0, <1>5 DEF FirstResume, CommandOK, Progress, Move, Stops, Now
  <2> QED  BY <1>5, <2>1, Kept DEF FirstResume, HandlingOK, handling, tables, lines
<1>6. CASE NoChild
  BY <1>6, Kept DEF NoChild, HandlingOK, command, handling, tables, lines
<1>7. CASE SyscallBlind
  BY <1>7, Kept DEF SyscallBlind, Handled, HandlingOK, command, handling, tables, lines
<1>8. CASE SyscallEntry
  <2>1. Operands(cur, Now(cur)) \in Seq(Pid \X Nat \X Nat)
    BY <1>0, OperandsType
  <2>2. TablesOK'
    BY <1>0, <1>8, <2>1 DEF SyscallEntry, TablesOK
  <2> QED
    BY <1>8, <2>2, Kept DEF SyscallEntry, Handled, HandlingOK, command, handling, lines
<1>9. CASE SyscallExit
  <2> DEFINE record == [pid |-> cur, n |-> Now(cur), sys |-> tracee[cur].name,
                        paths |-> tracee[cur].operands]
  <2>1. failures \in Seq(Record)
    BY DEF TablesOK
  <2>2. tracee[cur].name # "" => record \in Record
    BY <1>0 DEF TablesOK, Record
  <2>3. failures' \in Seq(Record)
    <3>1. CASE tracee[cur].name # "" /\ <<cur, Now(cur)>> \in failed
      <4>1. failures' = Append(failures, record)
        BY <1>9, <3>1 DEF SyscallExit
      <4>2. record \in Record
        BY <2>2, <3>1
      <4>3. Append(failures, record) \in Seq(Record)
        BY <2>1, <4>2, AppendType
      <4> QED  BY <4>1, <4>3
    <3>2. CASE ~ (tracee[cur].name # "" /\ <<cur, Now(cur)>> \in failed)
      BY <1>9, <2>1, <3>2 DEF SyscallExit
    <3> QED  BY <3>1, <3>2
  <2>4. TablesOK'
    BY <1>9, <2>3 DEF SyscallExit, TablesOK
  <2> QED
    BY <1>9, <2>4, Kept DEF SyscallExit, Handled, HandlingOK, command, handling, lines
<1>10. CASE EventStop
  <2>1. TablesOK'
    BY <1>10, FreshType DEF EventStop, TablesOK, Tracee
  <2> QED
    BY <1>10, <2>1, Kept DEF EventStop, Handled, HandlingOK, command, handling, lines
<1>11. CASE SignalStop
  <2>1. ws.sig \in Signal \cup {"none"}
    BY DEF HandlingOK
  <2> QED
    BY <1>11, <2>1, Kept DEF SignalStop, Handled, HandlingOK, command, handling,
                             tables, lines
<1>12. CASE Resume
  <2>1. CommandOK' /\ Progress'
    <3>1. CASE at[cur] = "zombie"
      BY <1>12, <3>1, Kept DEF Resume
    <3>2. CASE at[cur] # "zombie"
      <4>1. PICK place \in Onward(cur) : Move(cur, place)
              /\ note' = [note EXCEPT ![cur] =
                            IF place = "zombie" THEN "signaled"
                            ELSE IF place = "inside" THEN @ ELSE "none"]
        BY <1>12, <3>2 DEF Resume
      <4>2. place \in {"group", "running", "zombie", "inside"}
        BY <4>1 DEF Onward
      <4>3. place = "inside" => at[cur] \in {"entry", "event"}
        BY <4>1 DEF Onward
      <4>4. UNCHANGED <<calls, failed, sent, killed>>
        BY <1>12 DEF Resume
      <4>5. CommandOK'
        BY <1>0, <4>1, <4>2, <4>4 DEF CommandOK, Move, Stops
      <4> QED
        BY <1>0, <4>1, <4>2, <4>3, <4>4, <4>5 DEF CommandOK, Progress, Move, Now
    <3> QED  BY <3>1, <3>2
  <2>3. TablesOK'
    BY <1>0, <1>12 DEF Resume, TablesOK
  <2> QED  BY <1>12, <2>1, <2>3, Kept DEF Resume, HandlingOK, lines
<1>13. CASE TakeOutput
  <2>1. LinesOK'
    BY <1>13 DEF TakeOutput, LinesOK
  <2> QED  BY <1>13, <2>1, Kept DEF TakeOutput, HandlingOK, command, handling, tables
<1>14. ASSUME NEW p \in Pid, WaitEnd(p) PROVE Typing'
  <2>1. CommandOK' /\ Progress'
    BY <1>14 DEF WaitEnd, CommandOK, Progress, Move, Stops, Now
  <2>2. TablesOK'
    BY <1>14 DEF WaitEnd, TablesOK, Progress
  <2> QED  BY <1>14, <2>1, <2>2, Kept DEF WaitEnd, handling, lines
<1>15. ASSUME NEW p \in Pid, WaitStop(p) PROVE Typing'
  <2>1. Report(p) \in [kind : {"none", "syscall", "event", "signal"},
                       sig : Signal \cup {"none"}]
    <3>1. at[p] \in Stops
      BY <1>15 DEF WaitStop
    <3>2. at[p] = "signal" => note[p] \in Signal
      BY DEF Progress
    <3> QED  BY <3>1, <3>2 DEF Report, Signal, Stops
  <2>2. TablesOK'
    BY <1>15, FreshType DEF WaitStop, TablesOK, Tracee
  <2> QED  BY <1>15, <2>1, <2>2, Kept DEF WaitStop, HandlingOK, command, lines
<1>16. CASE Abandoning
  <2>1. at' \in [Pid -> Stops \cup {"unborn", "execed", "running", "inside", "zombie",
                                   "gone", "free"}]
          /\ note' \in [Pid -> Pid \cup Signal \cup {"none", "exec", "exited", "signaled"}]
    BY <1>16, Abandoned DEF CommandOK
  <2>2. CommandOK'
    BY <1>16, <2>1, Abandoned DEF CommandOK
  <2>3. Progress'
    <3>1. UNCHANGED calls
      BY <1>16, Abandoned
    <3>2. \A p \in Pid : at'[p] # "free" => at'[p] = at[p] /\ note'[p] = note[p]
                            /\ at[p] \in {"unborn", "zombie", "gone"}
      BY <1>16, Abandoned DEF Live
    <3> QED  BY <3>1, <3>2 DEF Progress, Now
  <2>4. HandlingOK' /\ TablesOK'
    BY <1>16, Abandoned, Cleared DEF Errors
  <2>5. LinesOK'
    BY <1>16, Abandoned, Kept DEF lines
  <2> QED  BY <2>2, <2>3, <2>4, <2>5
<1> QED
  BY <1>1, <1>2, <1>3, <1>4, <1>5, <1>6, <1>7, <1>8, <1>9, <1>10, <1>11, <1>12,
     <1>13, <1>14, <1>15, <1>16
  DEF Tracing, Working

LEMMA TypingNext == Typing /\ [Next]_vars => Typing'
<1>1. Typing /\ UNCHANGED vars => Typing'
  BY Kept DEF vars, command, handling, tables, lines, Typing, TypeOK
<1> QED  BY <1>1, TypingProcess, TypingLeftover, TypingDisturb, TypingTracing DEF Next

LEMMA TypingHolds == Spec => []Typing
<1> QED  BY TypingInit, TypingNext, PTL DEF Spec
-----------------------------------------------------------------------------
(* Where the processes can be while the tracer is where it is.             *)

Early == {"initial", "options", "first"}
Loop == {"wait", "stop", "resume"}

Places ==
  /\ tpc = "start" => \A p \in Pid : at[p] = "unborn"
  /\ tpc \in Early =>
       /\ at[RootPid] \in {"execed", "zombie"}
       /\ \A p \in Pid \ {RootPid} : at[p] = "unborn"
  /\ tpc \in Loop =>
       /\ at[RootPid] # "unborn"
       /\ \A p \in Pid : at[p] \notin {"execed", "free"}
  /\ tpc \in Errors => \A p \in Pid : at[p] \in {"unborn", "free", "zombie", "gone"}
  /\ FallbackAlone
  /\ tpc \in {"returned", "done"} =>
       /\ at[RootPid] = "gone"
       /\ \A p \in Pid : at[p] \in {"unborn", "gone"}
  /\ tpc \in {"stop", "resume"} => cur \in known /\ at[cur] \in Stops \cup {"zombie"}
  /\ tpc = "stop" /\ at[cur] # "zombie" => ws = Report(cur)
  /\ tpc \notin Errors /\ at[RootPid] = "gone" => rootStatus = note[RootPid]

LEMMA PlacesInit == Init => Places
BY TracerAssumption DEF Init, Places, Early, Loop, FallbackAlone, Errors

\* Nothing moves by itself before the loop or after it, and what moves is not
\* the process whose stop is being handled.
LEMMA PlacesProcess ==
  ASSUME Typing, Places, NEW p \in Pid, Process(p)
  PROVE  Places'
<1> USE DEF Untouched, handling, tables, lines, command, FallbackAlone, Errors
<1>0. RootPid \in Pid /\ cur \in Pid /\ at \in [Pid -> Stops \cup {"unborn", "execed",
                       "running", "inside", "zombie", "gone", "free"}]
  BY TracerAssumption DEF Typing, TypeOK, HandlingOK, CommandOK
<1>1. UNCHANGED <<tpc, cur, ws, known, rootStatus>>
  BY DEF Process, Enter, Exec, ReturnOk, ReturnError, Exit, Write, Fork
<1>2. CASE at[p] \in {"running", "inside"} /\ \E place \in Stops \cup {"zombie"} :
             at' = [at EXCEPT ![p] = place]
  <2>1. tpc \in Loop /\ (tpc \in {"stop", "resume"} => cur # p)
    BY <1>0, <1>2 DEF Places, Early, Loop, Typing, TypeOK, HandlingOK, Stops
  <2>2. \A r \in Pid \ {p} : at'[r] = at[r] /\ note'[r] = note[r]
    BY <1>0, <1>2
    DEF Process, Enter, Exec, ReturnOk, ReturnError, Exit, Write, Fork, Ends,
       Typing, TypeOK, CommandOK
  <2>3. at'[p] \in Stops \cup {"zombie"}
    BY <1>0, <1>2
  <2>4. tpc = "stop" => Report(cur)' = Report(cur)
    <3> SUFFICES ASSUME tpc = "stop" PROVE Report(cur)' = Report(cur)
      OBVIOUS
    <3>1. at'[cur] = at[cur] /\ note'[cur] = note[cur] /\ cur' = cur
      BY <1>0, <1>1, <2>1, <2>2 DEF Loop
    <3> QED  BY <3>1 DEF Report
  <2>5. at[RootPid] \notin {"unborn", "gone"} \/ RootPid # p
    BY <1>2
  <2> QED
    BY <1>0, <1>1, <1>2, <2>1, <2>2, <2>3, <2>4, <2>5 DEF Places, Early, Loop, Stops
<1>3. CASE UNCHANGED <<at, note>>
  BY <1>0, <1>1, <1>3 DEF Places, Report
<1>4. ASSUME NEW q \in Pid, Fork(p, q) PROVE Places'
  <2>1. tpc \in Loop /\ (tpc \in {"stop", "resume"} => cur \notin {p, q})
    BY <1>0, <1>4 DEF Fork, Doing, Places, Early, Loop, Typing, TypeOK, HandlingOK, Stops
  <2>2. /\ at[p] = "inside" /\ at[q] = "unborn"
        /\ at' = [at EXCEPT ![p] = "event", ![q] = "attach"]
        /\ note' = [note EXCEPT ![p] = q]
    BY <1>4 DEF Fork, Doing
  <2>3. /\ at'[p] = "event" /\ at'[q] = "attach"
        /\ \A r \in Pid \ {p, q} : at'[r] = at[r] /\ note'[r] = note[r]
    BY <1>0, <2>2 DEF Typing, TypeOK, CommandOK
  <2>4. tpc \in {"stop", "resume"} => at'[cur] = at[cur] /\ note'[cur] = note[cur]
    BY <1>0, <2>1, <2>3
  <2>5. tpc = "stop" => Report(cur)' = Report(cur)
    <3> SUFFICES ASSUME tpc = "stop" PROVE Report(cur)' = Report(cur)
      OBVIOUS
    <3>1. cur' = cur /\ at'[cur] = at[cur] /\ note'[cur] = note[cur]
      BY <1>1, <2>4
    <3> QED  BY <3>1 DEF Report
  <2>6. at'[RootPid] \notin {"unborn", "gone"} \/ at'[RootPid] = at[RootPid]
    BY <1>0, <2>3
  <2>7. \A r \in Pid : at'[r] \notin {"execed", "free"}
    BY <1>0, <2>1, <2>3 DEF Places
  <2> QED
    BY <1>0, <1>1, <2>1, <2>2, <2>3, <2>4, <2>5, <2>6, <2>7
    DEF Places, Early, Loop
<1>5. Enter(p) \/ Exec(p) \/ ReturnOk(p) \/ ReturnError(p) \/ Exit(p) =>
        at[p] \in {"running", "inside"} /\ \E place \in Stops \cup {"zombie"} :
             at' = [at EXCEPT ![p] = place]
  BY DEF Enter, Exec, ReturnOk, ReturnError, Exit, Ends, Move, Doing, Stops
<1>6. Write(p) => UNCHANGED <<at, note>>
  BY DEF Write
<1> QED  BY <1>2, <1>3, <1>4, <1>5, <1>6 DEF Process

LEMMA PlacesLeftover ==
  ASSUME Typing, Places, NEW p \in Pid, Leftover(p)
  PROVE  Places'
<1> USE DEF Untouched, handling, FallbackAlone, Errors
<1>0. /\ at \in [Pid -> Stops \cup {"unborn", "execed", "running", "inside", "zombie",
                                    "gone", "free"}]
      /\ at[p] = "free" /\ UNCHANGED <<tpc, cur, ws, known, rootStatus>>
      /\ RootPid \in Pid
  BY TracerAssumption DEF Typing, TypeOK, CommandOK, Leftover, tables
<1>1. tpc \in Errors \ {"startError", "setoptionsError"}
  BY <1>0 DEF Places, Early, Loop, Typing, TypeOK, HandlingOK
<1>2. \A q \in Pid : at'[q] \in {"unborn", "free", "zombie", "gone"}
  BY <1>0, <1>1 DEF Leftover, Ends, Move, Places
<1> QED  BY <1>0, <1>1, <1>2 DEF Places, Early, Loop

LEMMA PlacesDisturb ==
  ASSUME Typing, Places, Disturb \/ Copy
  PROVE  Places'
<1> USE DEF Untouched, handling, tables, lines, command, FallbackAlone, Errors
<1>0. RootPid \in Pid /\ cur \in Pid /\ at \in [Pid -> Stops \cup {"unborn", "execed",
                       "running", "inside", "zombie", "gone", "free"}]
        /\ note \in [Pid -> Pid \cup Signal \cup {"none", "exec", "exited", "signaled"}]
  BY TracerAssumption DEF Typing, TypeOK, HandlingOK, CommandOK
<1>1. ASSUME NEW p \in Pid, Kill(p) PROVE Places'
  BY <1>0, <1>1 DEF Kill, Live, Ends, Move, Places, Early, Loop, Report, Stops
<1>2. ASSUME NEW p \in Pid, NEW sig \in Signal, Send(p, sig) PROVE Places'
  <2>1. tpc \in Loop /\ (tpc \in {"stop", "resume"} => cur # p)
    BY <1>0, <1>2 DEF Send, Places, Early, Loop, Typing, TypeOK, HandlingOK, Stops
  <2> QED  BY <1>0, <1>2, <2>1 DEF Send, Move, Places, Early, Loop, Report, Stops
<1>3. CASE Copy
  BY <1>3 DEF Copy, Places, Report
<1> QED  BY <1>1, <1>2, <1>3 DEF Disturb

LEMMA PlacesTracing ==
  ASSUME Typing, Places, Tracing
  PROVE  Places'
<1> USE DEF handling, tables, lines, command, FallbackAlone, Errors
<1>0. RootPid \in Pid /\ cur \in Pid /\ at \in [Pid -> Stops \cup {"unborn", "execed",
                       "running", "inside", "zombie", "gone", "free"}]
        /\ note \in [Pid -> Pid \cup Signal \cup {"none", "exec", "exited", "signaled"}]
  BY TracerAssumption DEF Typing, TypeOK, HandlingOK, CommandOK
<1>1. CASE StartFails
  BY <1>0, <1>1 DEF StartFails, Fail, Places, Early, Loop, Report
<1>2. CASE Start
  BY <1>0, <1>2 DEF Start, Move, Places, Early, Loop, Report
<1>3. CASE InitialWait
  BY <1>0, <1>3 DEF InitialWait, Move, Places, Early, Loop
<1>4. CASE SetOptions
  BY <1>0, <1>4 DEF SetOptions, Fail, Move, Places, Early, Loop
<1>5. CASE FirstResume
  BY <1>0, <1>5 DEF FirstResume, Move, Places, Early, Loop
<1>6. CASE NoChild
  BY <1>0, <1>6 DEF NoChild, Places, Early, Loop
<1>7. CASE SyscallBlind \/ SyscallEntry \/ SyscallExit \/ EventStop \/ SignalStop
  <2>1. tpc = "stop" /\ tpc' = "resume" /\ known \subseteq known'
          /\ UNCHANGED <<at, note, cur, rootStatus>>
    BY <1>7 DEF SyscallBlind, SyscallEntry, SyscallExit, EventStop, SignalStop, Handled
  <2> QED  BY <1>0, <2>1 DEF Places, Early, Loop
<1>8. CASE Resume
  <2>1. tpc = "resume" /\ tpc' = "wait" /\ UNCHANGED <<cur, rootStatus>>
    BY <1>8 DEF Resume
  <2>2. at[cur] = "zombie" => UNCHANGED <<at, note>>
    BY <1>8 DEF Resume
  <2>3. at[cur] # "zombie" =>
          /\ \E place \in {"group", "running", "zombie", "inside"} :
               at' = [at EXCEPT ![cur] = place]
          /\ \A p \in Pid \ {cur} : note'[p] = note[p]
    BY <1>0, <1>8 DEF Resume, Onward, Move
  <2> QED  BY <1>0, <2>1, <2>2, <2>3 DEF Places, Early, Loop, Stops
<1>9. CASE TakeOutput
  BY <1>0, <1>9 DEF TakeOutput, Places, Early, Loop
<1>10. ASSUME NEW p \in Pid, WaitEnd(p) PROVE Places'
  BY <1>0, <1>10 DEF WaitEnd, Move, Places, Early, Loop
<1>11. ASSUME NEW p \in Pid, WaitStop(p) PROVE Places'
  <2>1. Report(p)' = Report(p)
    BY <1>11 DEF WaitStop, Report
  <2> QED  BY <1>0, <1>11, <2>1 DEF WaitStop, Places, Early, Loop
<1>12. CASE Abandoning
  <2>1. tpc' \in {"initialWaitError", "initialSyscallError", "wait4Error",
                 "syscallError"}
    BY <1>12, Abandoned
  <2>2. \A p \in Pid : at'[p] \in {"unborn", "free", "zombie", "gone"}
    BY <1>0, <1>12, Abandoned DEF Live
  <2> QED  BY <2>1, <2>2 DEF Places, Early, Loop
<1> QED
  BY <1>1, <1>2, <1>3, <1>4, <1>5, <1>6, <1>7, <1>8, <1>9, <1>10, <1>11, <1>12
  DEF Tracing, Working

LEMMA PlacesNext == Typing /\ Places /\ [Next]_vars => Places'
<1>1. Places /\ UNCHANGED vars => Places'
  <2> SUFFICES ASSUME Places, UNCHANGED vars PROVE Places'
    OBVIOUS
  <2>1. Report(cur)' = Report(cur)
    BY DEF vars, command, handling, Report
  <2> QED  BY <2>1 DEF vars, command, handling, tables, Places, FallbackAlone
<1> QED  BY <1>1, PlacesProcess, PlacesLeftover, PlacesDisturb, PlacesTracing DEF Next

LEMMA PlacesHold == Spec => []Places
<1> QED  BY TypingHolds, PlacesInit, PlacesNext, PTL DEF Spec
-----------------------------------------------------------------------------
(* SIGSTOP.                                                                *)

\* A new process is known, if at all, as one that has not been resumed, until
\* its attach stop has been handled; and a SIGSTOP on its way to a process, or
\* about to be injected into one, was sent.
Swallowing ==
  /\ \A p \in Pid : at[p] = "unborn" => p \notin known
  /\ \A p \in Pid : at[p] = "event" /\ note[p] \in Pid => at[note[p]] # "unborn"
  /\ \A p \in Pid : at[p] = "attach" /\ p \in known => ~ tracee[p].started
  /\ \A p \in Pid : at[p] = "signal" /\ note[p] = "STOP" => <<p, "STOP">> \in sent
  /\ AttachStopSwallowed
  /\ tpc = "resume" /\ inject = "STOP" /\ at[cur] # "zombie" =>
       at[cur] \in {"signal", "group"} /\ <<cur, "STOP">> \in sent

LEMMA SwallowingInit == Init => Swallowing
BY DEF Init, Swallowing, AttachStopSwallowed

LEMMA SwallowingProcess ==
  ASSUME Typing, Places, Swallowing, NEW p \in Pid, Process(p)
  PROVE  Swallowing'
<1> USE DEF Untouched, handling, tables, lines, command, Swallowing, AttachStopSwallowed
<1>0. /\ cur \in Pid /\ at \in [Pid -> Stops \cup {"unborn", "execed", "running",
                                          "inside", "zombie", "gone", "free"}]
      /\ note \in [Pid -> Pid \cup Signal \cup {"none", "exec", "exited", "signaled"}]
      /\ tpc = "resume" => at[cur] \in Stops \cup {"zombie"}
  BY DEF Typing, TypeOK, HandlingOK, CommandOK, Places
<1>1. CASE Enter(p)
  BY <1>0, <1>1 DEF Enter, Move, Stops
<1>2. CASE Exec(p)
  BY <1>0, <1>2, TracerAssumption DEF Exec, Doing, Move, Stops
<1>3. CASE ReturnOk(p)
  BY <1>0, <1>3 DEF ReturnOk, Move, Stops
<1>4. CASE ReturnError(p)
  BY <1>0, <1>4 DEF ReturnError, Doing, Move, Stops
<1>5. CASE Exit(p)
  BY <1>0, <1>5 DEF Exit, Ends, Move, Stops
<1>6. CASE Write(p)
  BY <1>6 DEF Write
<1>7. ASSUME NEW q \in Pid, Fork(p, q) PROVE Swallowing'
  BY <1>0, <1>7 DEF Fork, Doing, Stops
<1> QED  BY <1>1, <1>2, <1>3, <1>4, <1>5, <1>6, <1>7 DEF Process

LEMMA SwallowingLeftover ==
  ASSUME Typing, Places, Swallowing, NEW p \in Pid, Leftover(p)
  PROVE  Swallowing'
<1> USE DEF Untouched, handling, tables, Swallowing, AttachStopSwallowed
<1>0. /\ at \in [Pid -> Stops \cup {"unborn", "execed", "running", "inside", "zombie",
                                    "gone", "free"}]
      /\ note \in [Pid -> Pid \cup Signal \cup {"none", "exec", "exited", "signaled"}]
      /\ at[p] = "free" /\ UNCHANGED <<tpc, cur, inject, known, tracee, sent>>
  BY DEF Typing, TypeOK, CommandOK, Leftover
<1>1. tpc # "resume"
  BY <1>0 DEF Places, Loop
<1>2. \A q \in Pid : \/ at'[q] = at[q] /\ note'[q] = note[q]
                     \/ at'[q] \in {"free", "zombie"}
  BY <1>0 DEF Leftover, Ends, Move
<1>3. \A q \in Pid : at'[q] = "unborn" => at[q] = "unborn"
  BY <1>2
<1> QED  BY <1>0, <1>1, <1>2, <1>3

LEMMA SwallowingDisturb ==
  ASSUME Typing, Places, Swallowing, Disturb \/ Copy
  PROVE  Swallowing'
<1> USE DEF Untouched, handling, tables, lines, command, Swallowing, AttachStopSwallowed
<1>0. /\ cur \in Pid /\ at \in [Pid -> Stops \cup {"unborn", "execed", "running",
                                          "inside", "zombie", "gone", "free"}]
      /\ note \in [Pid -> Pid \cup Signal \cup {"none", "exec", "exited", "signaled"}]
      /\ tpc = "resume" => at[cur] \in Stops \cup {"zombie"}
  BY DEF Typing, TypeOK, HandlingOK, CommandOK, Places
<1>1. ASSUME NEW p \in Pid, Kill(p) PROVE Swallowing'
  BY <1>0, <1>1 DEF Kill, Live, Ends, Move
<1>2. ASSUME NEW p \in Pid, NEW sig \in Signal, Send(p, sig) PROVE Swallowing'
  BY <1>0, <1>2 DEF Send, Move, Stops
<1>3. CASE Copy
  BY <1>3 DEF Copy
<1> QED  BY <1>1, <1>2, <1>3 DEF Disturb

LEMMA SwallowingTracing ==
  ASSUME Typing, Places, Swallowing, Tracing
  PROVE  Swallowing'
<1> USE DEF handling, tables, lines, command, Swallowing, AttachStopSwallowed
<1>0. /\ cur \in Pid /\ RootPid \in Pid
      /\ at \in [Pid -> Stops \cup {"unborn", "execed", "running", "inside", "zombie",
                                    "gone", "free"}]
      /\ note \in [Pid -> Pid \cup Signal \cup {"none", "exec", "exited", "signaled"}]
      /\ tracee \in [Pid -> Tracee]
      /\ tpc \in {"stop", "resume"} => cur \in known
      /\ tpc = "stop" /\ at[cur] # "zombie" => at[cur] \in Stops /\ ws = Report(cur)
  BY TracerAssumption
  DEF Typing, TypeOK, HandlingOK, CommandOK, TablesOK, Tracee, Places
<1>1. CASE StartFails
  BY <1>1 DEF StartFails, Fail, Errors
<1>2. CASE Start
  BY <1>0, <1>2 DEF Start, Move
<1>3. CASE InitialWait
  BY <1>0, <1>3 DEF InitialWait, Move
<1>4. CASE SetOptions
  BY <1>0, <1>4 DEF SetOptions, Fail, Errors, Move, Fresh, Places, Early
<1>5. CASE FirstResume
  BY <1>0, <1>5 DEF FirstResume, Move
<1>6. CASE NoChild
  BY <1>6 DEF NoChild
<1>7. CASE SyscallBlind
  BY <1>7 DEF SyscallBlind, Handled
<1>8. CASE SyscallEntry
  BY <1>0, <1>8 DEF SyscallEntry, Handled, Tracee
<1>9. CASE SyscallExit
  BY <1>9 DEF SyscallExit, Handled
<1>10. CASE EventStop
  <2>1. at[cur] = "zombie" \/ at[cur] = "event"
    BY <1>0, <1>10 DEF EventStop, Report, Stops
  <2> QED  BY <1>0, <1>10, <2>1 DEF EventStop, Handled, Fresh
<1>11. CASE SignalStop
  <2>1. inject' = "STOP" => ws.sig = "STOP" /\ tracee[cur].started
    BY <1>11 DEF SignalStop, Handled
  <2>2. ws.sig = "STOP" /\ at[cur] # "zombie" =>
          at[cur] \in {"attach", "group"} \/ (at[cur] = "signal" /\ note[cur] = "STOP")
    BY <1>0, <1>11 DEF SignalStop, Report, Stops
  <2> QED  BY <1>0, <1>11, <2>1, <2>2 DEF SignalStop, Handled
<1>12. CASE Resume
  <2>1. tpc = "resume" /\ inject' = "none" /\ UNCHANGED <<sent, known>>
          /\ tracee' = [tracee EXCEPT ![cur].started = TRUE]
    BY <1>12 DEF Resume
  <2>2. CASE at[cur] = "zombie"
    BY <1>0, <1>12, <2>1, <2>2 DEF Resume, Tracee
  <2>3. CASE at[cur] # "zombie"
    <3>1. PICK place \in Onward(cur) : at' = [at EXCEPT ![cur] = place]
      BY <1>12, <2>3 DEF Resume, Move
    <3>2. place \in {"group", "running", "zombie", "inside"}
            /\ (place = "group" => inject = "STOP")
      BY <3>1 DEF Onward
    <3>3. \A p \in Pid \ {cur} : note'[p] = note[p]
      BY <1>0, <1>12, <2>3 DEF Resume
    <3> QED  BY <1>0, <2>1, <2>3, <3>1, <3>2, <3>3 DEF Tracee
  <2> QED  BY <2>2, <2>3
<1>13. CASE TakeOutput
  BY <1>13 DEF TakeOutput
<1>14. ASSUME NEW p \in Pid, WaitEnd(p) PROVE Swallowing'
  BY <1>0, <1>14 DEF WaitEnd, Move
<1>15. ASSUME NEW p \in Pid, WaitStop(p) PROVE Swallowing'
  BY <1>0, <1>15 DEF WaitStop, Fresh, Stops
<1>16. CASE Abandoning
  <2>1. tpc' # "resume" /\ known' = {} /\ UNCHANGED sent
    BY <1>16, Abandoned
  <2>2. \A p \in Pid : at'[p] \in {"unborn", "free", "zombie", "gone"}
    BY <1>0, <1>16, Abandoned DEF Live
  <2> QED  BY <2>1, <2>2
<1> QED
  BY <1>1, <1>2, <1>3, <1>4, <1>5, <1>6, <1>7, <1>8, <1>9, <1>10, <1>11, <1>12,
     <1>13, <1>14, <1>15, <1>16
  DEF Tracing, Working

LEMMA SwallowingNext == Typing /\ Places /\ Swallowing /\ [Next]_vars => Swallowing'
<1>1. Swallowing /\ UNCHANGED vars => Swallowing'
  BY DEF vars, command, handling, tables, lines, Swallowing, AttachStopSwallowed
<1> QED  BY <1>1, SwallowingProcess, SwallowingLeftover, SwallowingDisturb, SwallowingTracing DEF Next

\* Under the trace no process is ever stopped by a SIGSTOP that nobody sent it.
THEOREM NoStrayStop == Spec => []AttachStopSwallowed
<1>1. Swallowing => AttachStopSwallowed
  BY DEF Swallowing
<1> QED
  BY <1>1, TypingHolds, PlacesHold, SwallowingInit, SwallowingNext, PTL DEF Spec

\* Every variable of the tracer and of the traced command keeps its type.
THEOREM TypeCorrect == Spec => []TypeOK
<1>1. Typing => TypeOK
  BY DEF Typing
<1> QED  BY <1>1, TypingHolds, PTL

\* When Run fails to start the command or to set the options of the trace, every
\* process of the command is gone: no leftover can run beside the fallback.
THEOREM NothingBesideFallback == Spec => []FallbackAlone
<1>1. Places => FallbackAlone
  BY DEF Places
<1> QED  BY <1>1, PlacesHold, PTL

\* The wait status in the result is the shell's.
THEOREM StatusIsTheShells == Spec => []RootStatusReported
<1>1. Places => RootStatusReported
  BY DEF Places, RootStatusReported, Errors
<1> QED  BY <1>1, PlacesHold, PTL
-----------------------------------------------------------------------------
(* The trace gets shorter with every step.                                 *)

\* MaxCalls bounds the calls, and MaxLines the lines.
Bounded == \A p \in Pid : Now(p) <= MaxCalls[p]

LEMMA BoundedHolds == Spec => []Bounded
<1>1. Init => Bounded
  <2> SUFFICES ASSUME Init, NEW p \in Pid PROVE Len(calls[p]) <= MaxCalls[p]
    BY DEF Bounded, Now
  <2>1. calls[p] = <<>>
    BY DEF Init
  <2>2. Len(calls[p]) = 0 /\ MaxCalls[p] \in Nat
    BY <2>1, TracerAssumption
  <2> QED  BY <2>2
<1>2. Typing /\ Bounded /\ [Next]_vars => Bounded'
  <2> SUFFICES ASSUME Typing, Bounded, [Next]_vars PROVE Bounded'
    OBVIOUS
  <2>1. calls \in [Pid -> Seq(Sys)] /\ MaxCalls \in [Pid -> Nat]
    BY TracerAssumption DEF Typing, TypeOK, CommandOK
  <2>2. \/ UNCHANGED calls
        \/ \E p \in Pid : Enter(p)
    BY DEF Next, Process, Disturb, Tracing, Working, Leftover, Abandoning, InitialWaitFails,
       FirstResumeFails, WaitFails, ResumeFails, Abandon, Fail, vars, Untouched, command, Exec, ReturnOk,
       ReturnError, Exit, Write, Fork, Kill, Send, Copy, StartFails, Start, InitialWait,
       SetOptions, FirstResume, NoChild, SyscallBlind, SyscallEntry, SyscallExit,
       EventStop, SignalStop, Resume, TakeOutput, WaitEnd, WaitStop
  <2>3. ASSUME NEW p \in Pid, Enter(p) PROVE Bounded'
    <3>1. PICK s \in Sys : calls' = [calls EXCEPT ![p] = Append(@, s)]
      BY <2>3 DEF Enter
    <3>2. Len(calls[p]) \in Nat /\ Len(calls[p]) < MaxCalls[p]
      BY <2>1, <2>3 DEF Enter, Now
    <3>3. Len(calls'[p]) = Len(calls[p]) + 1
            /\ \A q \in Pid \ {p} : calls'[q] = calls[q]
      BY <2>1, <3>1
    <3>4. MaxCalls[p] \in Nat /\ Len(calls'[p]) <= MaxCalls[p]
      BY <2>1, <3>2, <3>3
    <3>5. \A q \in Pid : Len(calls[q]) <= MaxCalls[q]
      BY DEF Bounded, Now
    <3>6. \A q \in Pid : Len(calls'[q]) <= MaxCalls[q]
      BY <3>3, <3>4, <3>5
    <3> QED  BY <3>6 DEF Bounded, Now
  <2> QED  BY <2>2, <2>3 DEF Bounded, Now
<1> QED  BY <1>1, <1>2, TypingHolds, PTL DEF Spec

\* What the measure needs of the states: the bounds hold, and a process in the stop
\* for an event has one to report.
Limits ==
  /\ written <= MaxLines
  /\ \A p \in Pid : at[p] = "event" => note[p] # "none"

LEMMA LimitsHold == Spec => []Limits
<1>1. Init => Limits
  <2> SUFFICES ASSUME Init PROVE Limits
    OBVIOUS
  <2>1. written = 0 /\ MaxLines \in Nat
    BY TracerAssumption DEF Init
  <2>2. \A p \in Pid : at[p] = "unborn"
    BY DEF Init
  <2> QED  BY <2>1, <2>2 DEF Limits
<1>2. Typing /\ Limits /\ [Next]_vars => Limits'
  <2> SUFFICES ASSUME Typing, Limits, [Next]_vars PROVE Limits'
    OBVIOUS
  <2>1. written' <= MaxLines
    <3>1. \/ UNCHANGED written
          \/ \E p \in Pid : Write(p) \/ Leftover(p)
      BY DEF Next, Process, Disturb, Tracing, Working, Leftover, Abandoning, InitialWaitFails,
       FirstResumeFails, WaitFails, ResumeFails, Abandon, Fail, vars, lines, Untouched, command, Exec,
         Enter, ReturnOk, ReturnError, Exit, Fork, Kill, Send, Copy, StartFails, Start,
         InitialWait, SetOptions, FirstResume, NoChild, SyscallBlind, SyscallEntry,
         SyscallExit, EventStop, SignalStop, Resume, TakeOutput, WaitEnd, WaitStop
    <3>2. MaxLines \in Nat /\ written \in Nat
      BY TracerAssumption DEF Typing, TypeOK, LinesOK
    <3>3. UNCHANGED written \/ (written < MaxLines /\ written' = written + 1)
      BY <3>1 DEF Write, Leftover, lines
    <3> QED  BY <3>2, <3>3 DEF Limits
  <2>2. ASSUME NEW p \in Pid, at'[p] = "event" PROVE note'[p] # "none"
    <3>1. at[p] = "event" => note[p] # "none"
      BY DEF Limits
    <3>2. /\ at \in [Pid -> Stops \cup {"unborn", "execed", "running", "inside",
                                        "zombie", "gone", "free"}]
          /\ note \in [Pid -> Pid \cup Signal \cup {"none", "exec", "exited", "signaled"}]
          /\ cur \in Pid /\ RootPid \in Pid /\ "none" \notin Pid
      BY TracerAssumption DEF Typing, TypeOK, CommandOK, HandlingOK
    <3>3. CASE UNCHANGED <<at, note>>
      BY <2>2, <3>1, <3>3
    <3>4. ASSUME NEW q \in Pid, Process(q) PROVE note'[p] # "none"
      BY <2>2, <3>1, <3>2, <3>4
      DEF Process, Enter, Exec, ReturnOk, ReturnError, Exit, Write, Fork, Doing, Move, Ends,
          command
    <3>5. CASE Disturb
      BY <2>2, <3>1, <3>2, <3>5 DEF Disturb, Kill, Send, Move, Ends
    <3>6. CASE Start \/ InitialWait \/ SetOptions \/ FirstResume
      BY <2>2, <3>1, <3>2, <3>6
      DEF Start, InitialWait, SetOptions, FirstResume, Move
    <3>7. CASE Resume
      <4>1. \/ UNCHANGED <<at, note>>
            \/ /\ \E place \in {"group", "running", "zombie", "inside"} :
                     at' = [at EXCEPT ![cur] = place]
               /\ \A q \in Pid \ {cur} : note'[q] = note[q]
        BY <3>2, <3>7 DEF Resume, Move, Onward
      <4> QED  BY <2>2, <3>1, <3>2, <4>1
    <3>8. ASSUME NEW q \in Pid, WaitEnd(q) PROVE note'[p] # "none"
      BY <2>2, <3>1, <3>2, <3>8 DEF WaitEnd, Move
    <3>9. ASSUME NEW q \in Pid, Leftover(q) PROVE note'[p] # "none"
      BY <2>2, <3>1, <3>2, <3>9 DEF Leftover, Move, Ends
    <3>10. CASE Abandoning
      <4>1. at'[p] = "free" \/ (at'[p] = at[p] /\ note'[p] = note[p])
        BY <3>10, Abandoned
      <4> QED  BY <2>2, <3>1, <4>1
    <3> QED
      BY <3>3, <3>4, <3>5, <3>6, <3>7, <3>8, <3>9, <3>10
      DEF Next, Tracing, Working, vars, command, Copy, StartFails, NoChild, SyscallBlind,
          SyscallEntry, SyscallExit, EventStop, SignalStop, TakeOutput, WaitStop
  <2> QED  BY <2>1, <2>2 DEF Limits
<1> QED  BY <1>1, <1>2, TypingHolds, PTL DEF Spec

LEMMA SignalsToCome ==
  ASSUME NEW p \in Pid
  PROVE  IsFiniteSet(ToCome(p)) /\ Cardinality(ToCome(p)) \in Nat
<1>1. IsFiniteSet({"STOP"})
  BY FS_Singleton
<1>2. IsFiniteSet({"STOP"} \cup {"TRAP"})
  BY <1>1, FS_AddElement
<1>3. IsFiniteSet(({"STOP"} \cup {"TRAP"}) \cup {"TERM"})
  BY <1>2, FS_AddElement
<1>4. Signal = ({"STOP"} \cup {"TRAP"}) \cup {"TERM"}
  BY DEF Signal
<1>5. IsFiniteSet(ToCome(p))
  BY <1>3, <1>4, FS_Subset DEF ToCome
<1> QED  BY <1>5, FS_CardinalityType

Natural ==
  /\ \A p \in Pid : /\ MaxCalls[p] - Now(p) \in Nat
                    /\ Cardinality(ToCome(p)) \in Nat /\ Ahead(p) \in Nat
  /\ Stage \in Nat /\ MaxLines - written \in Nat /\ piped \in Nat

LEMMA MeasureType == Typing /\ Bounded /\ Limits => Natural
<1> SUFFICES ASSUME Typing, Bounded, Limits PROVE Natural
  OBVIOUS
<1>1. ASSUME NEW p \in Pid
      PROVE  /\ MaxCalls[p] - Now(p) \in Nat
             /\ Cardinality(ToCome(p)) \in Nat /\ Ahead(p) \in Nat
  <2>1. MaxCalls[p] - Now(p) \in Nat
    <3>1. MaxCalls[p] \in Nat
      BY TracerAssumption
    <3>2. calls[p] \in Seq(Sys)
      BY DEF Typing, TypeOK, CommandOK
    <3>3. Now(p) \in Nat /\ Now(p) <= MaxCalls[p]
      BY <3>2 DEF Bounded, Now
    <3> QED  BY <3>1, <3>3
  <2>2. at[p] \in Stops \cup {"unborn", "execed", "running", "inside", "zombie", "gone",
                          "free"}
    BY DEF Typing, TypeOK, CommandOK
  <2>3. Ahead(p) \in Nat
    BY <2>2 DEF Ahead, Stops
  <2> QED  BY <2>1, <2>3, SignalsToCome
<1>2. Stage \in Nat
  BY DEF Stage, Errors, Typing, TypeOK, HandlingOK
<1>3. MaxLines - written \in Nat /\ piped \in Nat
  <2>1. MaxLines \in Nat /\ written \in Nat /\ piped \in Nat
    BY TracerAssumption DEF Typing, TypeOK, LinesOK
  <2>2. written <= MaxLines
    BY DEF Limits
  <2> QED  BY <2>1, <2>2
<1> QED  BY <1>1, <1>2, <1>3 DEF Natural

LEMMA BelowTriple ==
  ASSUME NEW a1 \in Nat, NEW a2 \in Nat, NEW a3 \in Nat,
         NEW b1 \in Nat, NEW b2 \in Nat, NEW b3 \in Nat,
         \/ a1 < b1
         \/ a1 = b1 /\ a2 < b2
         \/ a1 = b1 /\ a2 = b2 /\ a3 < b3
  PROVE  Below(<<a1, a2, a3>>, <<b1, b2, b3>>)
<1>1. 1 .. 3 = {1, 2, 3}
  OBVIOUS
<1>2. CASE a1 < b1
  BY <1>1, <1>2 DEF Below
<1>3. CASE a1 = b1 /\ a2 < b2
  BY <1>1, <1>3 DEF Below
<1>4. CASE a1 = b1 /\ a2 = b2 /\ a3 < b3
  BY <1>1, <1>4 DEF Below
<1> QED  BY <1>2, <1>3, <1>4

\* How a process comes closer to its end, and how the rest does.
Closer(p) ==
  \/ Now(p)' = Now(p) + 1
  \/ Now(p)' = Now(p) /\ Cardinality(ToCome(p)') < Cardinality(ToCome(p))
  \/ Now(p)' = Now(p) /\ ToCome(p)' = ToCome(p) /\ Ahead(p)' < Ahead(p)
RestCloser ==
  \/ Stage' < Stage
  \/ Stage' = Stage /\ written' = written + 1
  \/ Stage' = Stage /\ written' = written /\ piped' < piped
Stays(p) == Left(p)' = Left(p)

\* Nothing of a process that takes no part in a step changes.
LEMMA Bystander ==
  ASSUME NEW p \in Pid, at'[p] = at[p], note'[p] = note[p], calls'[p] = calls[p],
         ToCome(p)' = ToCome(p)
  PROVE  Stays(p)
BY DEF Stays, Left, Now, Ahead

\* One process passes a place, and no call or signal is spent.
LEMMA PassesPlace ==
  ASSUME NEW p \in Pid, UNCHANGED <<calls, sent>>, Ahead(p)' < Ahead(p),
         \A q \in Pid \ {p} : at'[q] = at[q] /\ note'[q] = note[q]
  PROVE  Closer(p) /\ \A q \in Pid \ {p} : Stays(q)
<1>1. \A q \in Pid : ToCome(q)' = ToCome(q)
  BY DEF ToCome
<1>2. \A q \in Pid \ {p} : Stays(q)
  BY <1>1, Bystander
<1> QED  BY <1>1, <1>2 DEF Closer, Now

\* The steps of the command bring one process closer (a fork two) or write a line.
LEMMA ProcessCloser ==
  ASSUME Typing, NEW p \in Pid, Process(p)
  PROVE  /\ \A q \in Pid : Stays(q) \/ Closer(q)
         /\ (\E q \in Pid : Closer(q)) \/ RestCloser
<1>0. /\ at \in [Pid -> Stops \cup {"unborn", "execed", "running", "inside",
                                    "zombie", "gone", "free"}]
      /\ note \in [Pid -> Pid \cup Signal \cup {"none", "exec", "exited", "signaled"}]
      /\ calls \in [Pid -> Seq(Sys)]
  BY DEF Typing, TypeOK, CommandOK
<1>1. CASE Enter(p)
  <2>1. PICK s \in Sys : calls' = [calls EXCEPT ![p] = Append(@, s)]
    BY <1>1 DEF Enter
  <2>2. Now(p)' = Now(p) + 1
    BY <1>0, <2>1 DEF Now
  <2>3. \A q \in Pid \ {p} : at'[q] = at[q] /\ note'[q] = note[q] /\ calls'[q] = calls[q]
    BY <1>0, <1>1, <2>1 DEF Enter, Move
  <2>4. \A q \in Pid : ToCome(q)' = ToCome(q)
    BY <1>1 DEF Enter, ToCome
  <2>5. \A q \in Pid \ {p} : Stays(q)
    BY <2>3, <2>4, Bystander
  <2>6. Closer(p)
    BY <2>2 DEF Closer
  <2> QED  BY <2>5, <2>6
<1>2. CASE Exec(p) \/ ReturnOk(p) \/ ReturnError(p) \/ Exit(p)
  <2>1. /\ UNCHANGED <<calls, sent>>
        /\ \A q \in Pid \ {p} : at'[q] = at[q] /\ note'[q] = note[q]
    BY <1>0, <1>2 DEF Exec, ReturnOk, ReturnError, Exit, Move, Ends
  <2>2. \/ at[p] = "inside" /\ note[p] = "none" /\ at'[p] = "event"
        \/ at[p] = "inside" /\ at'[p] = "exit"
        \/ at[p] = "running" /\ at'[p] = "zombie"
    BY <1>0, <1>2 DEF Exec, ReturnOk, ReturnError, Exit, Move, Ends, Doing
  <2>3. Ahead(p)' < Ahead(p)
    BY <2>2 DEF Ahead
  <2> QED  BY <2>1, <2>3, PassesPlace
<1>3. ASSUME NEW c \in Pid, Fork(p, c)
      PROVE  Closer(p) /\ \A q \in Pid : Stays(q) \/ Closer(q)
  <2>1. /\ at[p] = "inside" /\ note[p] = "none" /\ at'[p] = "event"
        /\ at[c] = "unborn" /\ at'[c] = "attach"
        /\ \A q \in Pid \ {p, c} : at'[q] = at[q] /\ note'[q] = note[q]
    BY <1>0, <1>3 DEF Fork, Doing
  <2>2. UNCHANGED <<calls, sent>>
    BY <1>3 DEF Fork
  <2>3. \A q \in Pid : ToCome(q)' = ToCome(q) /\ Now(q)' = Now(q)
    BY <2>2 DEF ToCome, Now
  <2>4. Ahead(p)' < Ahead(p) /\ Ahead(c)' < Ahead(c)
    BY <2>1 DEF Ahead
  <2>5. \A q \in Pid \ {p, c} : Stays(q)
    BY <2>1, <2>2, <2>3, Bystander
  <2> QED  BY <2>3, <2>4, <2>5 DEF Closer
<1>4. CASE Write(p)
  <2>1. UNCHANGED <<command, tpc, handling>> /\ written' = written + 1
    BY <1>4 DEF Write, Untouched
  <2>2. Stage' = Stage
    BY <2>1 DEF Stage, Errors, command, handling
  <2>3. \A q \in Pid : Stays(q)
    BY <2>1 DEF command, Stays, Left, Now, ToCome, Ahead
  <2> QED  BY <2>1, <2>2, <2>3 DEF RestCloser
<1> QED  BY <1>1, <1>2, <1>3, <1>4 DEF Process

LEMMA LeftoverCloser ==
  ASSUME Typing, NEW p \in Pid, Leftover(p)
  PROVE  /\ \A q \in Pid : Stays(q) \/ Closer(q)
         /\ (\E q \in Pid : Closer(q)) \/ RestCloser
<1>0. /\ at \in [Pid -> Stops \cup {"unborn", "execed", "running", "inside",
                                    "zombie", "gone", "free"}]
      /\ note \in [Pid -> Pid \cup Signal \cup {"none", "exec", "exited", "signaled"}]
      /\ UNCHANGED <<calls, sent, tpc, cur>>
  BY DEF Typing, TypeOK, CommandOK, Leftover, Untouched, handling
<1>1. ASSUME NEW q \in Pid, \/ at[q] = "free" /\ at'[q] = "zombie"
                            \/ at[q] = "unborn" /\ at'[q] = "free",
             \A r \in Pid \ {q} : at'[r] = at[r] /\ note'[r] = note[r]
      PROVE  Closer(q) /\ \A r \in Pid \ {q} : Stays(r)
  <2>1. Ahead(q)' < Ahead(q)
    BY <1>1 DEF Ahead
  <2> QED  BY <1>0, <1>1, <2>1, PassesPlace
<1>2. CASE Ends(p, "exited")
  <2>1. /\ at[p] = "free" /\ at'[p] = "zombie"
        /\ \A r \in Pid \ {p} : at'[r] = at[r] /\ note'[r] = note[r]
    BY <1>0, <1>2 DEF Leftover, Ends, Move
  <2> QED  BY <1>1, <2>1
<1>3. ASSUME NEW q \in Pid, at[q] = "unborn", Move(q, "free"), UNCHANGED note
      PROVE  Closer(q) /\ \A r \in Pid \ {q} : Stays(r)
  <2>1. at'[q] = "free" /\ \A r \in Pid \ {q} : at'[r] = at[r] /\ note'[r] = note[r]
    BY <1>0, <1>3 DEF Move
  <2> QED  BY <1>1, <1>3, <2>1
<1>4. CASE UNCHANGED <<at, note>> /\ written' = written + 1
  <2>1. Stage' = Stage
    BY <1>0, <1>4 DEF Stage, Errors
  <2>2. \A q \in Pid : Stays(q)
    BY <1>0, <1>4 DEF Stays, Left, Now, ToCome, Ahead
  <2> QED  BY <1>4, <2>1, <2>2 DEF RestCloser
<1> QED  BY <1>2, <1>3, <1>4 DEF Leftover

\* So do those who disturb it, and the copier.
LEMMA DisturbCloser ==
  ASSUME Typing, Disturb \/ Copy
  PROVE  /\ \A q \in Pid : Stays(q) \/ Closer(q)
         /\ (\E q \in Pid : Closer(q)) \/ RestCloser
<1>0. /\ at \in [Pid -> Stops \cup {"unborn", "execed", "running", "inside",
                                    "zombie", "gone", "free"}]
      /\ note \in [Pid -> Pid \cup Signal \cup {"none", "exec", "exited", "signaled"}]
      /\ piped \in Nat
  BY DEF Typing, TypeOK, CommandOK, LinesOK
<1>1. ASSUME NEW p \in Pid, Kill(p) PROVE Closer(p) /\ \A q \in Pid \ {p} : Stays(q)
  <2>1. /\ UNCHANGED <<calls, sent>> /\ at'[p] = "zombie"
        /\ at[p] \in Stops \cup {"execed", "running", "inside", "free"}
        /\ \A q \in Pid \ {p} : at'[q] = at[q] /\ note'[q] = note[q]
    BY <1>0, <1>1 DEF Kill, Live, Move, Ends
  <2>2. Ahead(p)' < Ahead(p)
    BY <2>1 DEF Ahead, Stops
  <2> QED  BY <2>1, <2>2, PassesPlace
<1>2. ASSUME NEW p \in Pid, NEW sig \in Signal, Send(p, sig)
      PROVE  Closer(p) /\ \A q \in Pid \ {p} : Stays(q)
  <2>1. /\ UNCHANGED calls /\ sent' = sent \cup {<<p, sig>>}
        /\ \A q \in Pid \ {p} : at'[q] = at[q] /\ note'[q] = note[q]
    BY <1>0, <1>2 DEF Send, Move
  <2>2. \A q \in Pid \ {p} : ToCome(q)' = ToCome(q)
    BY <2>1 DEF ToCome
  <2>3. sig \in ToCome(p) /\ ToCome(p)' = ToCome(p) \ {sig}
    BY <1>2, <2>1 DEF Send, ToCome
  <2>4. Cardinality(ToCome(p)') = Cardinality(ToCome(p)) - 1
    BY <2>3, SignalsToCome, FS_RemoveElement
  <2>5. Cardinality(ToCome(p)') < Cardinality(ToCome(p))
    BY <2>4, SignalsToCome
  <2>6. Now(p)' = Now(p)
    BY <2>1 DEF Now
  <2> QED  BY <2>1, <2>2, <2>5, <2>6, Bystander DEF Closer
<1>3. CASE Copy
  <2>1. UNCHANGED <<command, tpc, handling, written>> /\ piped' < piped
    BY <1>0, <1>3 DEF Copy, Untouched
  <2>2. Stage' = Stage
    BY <2>1 DEF Stage, Errors, command, handling
  <2>3. \A q \in Pid : Stays(q)
    BY <2>1 DEF command, Stays, Left, Now, ToCome, Ahead
  <2> QED  BY <2>1, <2>2, <2>3 DEF RestCloser
<1> QED  BY <1>1, <1>2, <1>3 DEF Disturb

\* A step of the tracer lets one process pass a place, or no process moves and the
\* tracer passes a stage.
LEMMA TracingCloser ==
  ASSUME Typing, Places, Limits, Tracing
  PROVE  /\ \A q \in Pid : Stays(q) \/ Closer(q)
         /\ (\E q \in Pid : Closer(q)) \/ RestCloser
<1>0. /\ at \in [Pid -> Stops \cup {"unborn", "execed", "running", "inside",
                                    "zombie", "gone", "free"}]
      /\ note \in [Pid -> Pid \cup Signal \cup {"none", "exec", "exited", "signaled"}]
      /\ cur \in Pid /\ RootPid \in Pid
  BY TracerAssumption DEF Typing, TypeOK, CommandOK, HandlingOK
<1>1. ASSUME UNCHANGED command, Stage' < Stage
      PROVE  RestCloser /\ \A q \in Pid : Stays(q)
  BY <1>1 DEF RestCloser, command, Stays, Left, Now, ToCome, Ahead
<1>2. CASE StartFails \/ NoChild \/ TakeOutput
  <2>1. /\ UNCHANGED command
        /\ \/ tpc = "start" /\ tpc' = "startError"
           \/ tpc = "wait" /\ tpc' = "returned"
           \/ tpc = "returned" /\ tpc' = "done"
    BY <1>2 DEF StartFails, Fail, NoChild, TakeOutput
  <2>2. CASE tpc = "start" /\ tpc' = "startError"
    BY <1>1, <2>1, <2>2 DEF Stage, Errors
  <2>3. CASE tpc = "wait" /\ tpc' = "returned"
    BY <1>1, <2>1, <2>3 DEF Stage, Errors
  <2>4. CASE tpc = "returned" /\ tpc' = "done"
    BY <1>1, <2>1, <2>4 DEF Stage, Errors
  <2> QED  BY <2>1, <2>2, <2>3, <2>4
<1>3. CASE SyscallBlind \/ SyscallEntry \/ SyscallExit \/ EventStop \/ SignalStop
  <2>1. UNCHANGED <<command, cur>> /\ tpc = "stop" /\ tpc' = "resume"
    BY <1>3 DEF SyscallBlind, SyscallEntry, SyscallExit, EventStop, SignalStop, Handled
  <2>2. Stage' < Stage
    BY <2>1 DEF Stage, Errors, command
  <2> QED  BY <1>1, <2>1, <2>2
<1>4. CASE Start \/ InitialWait \/ SetOptions \/ FirstResume
  <2>1. /\ UNCHANGED <<calls, sent>>
        /\ \A q \in Pid \ {RootPid} : at'[q] = at[q] /\ note'[q] = note[q]
    BY <1>0, <1>4 DEF Start, InitialWait, SetOptions, FirstResume, Move
  <2>2. \/ at[RootPid] = "unborn" /\ at'[RootPid] = "execed"
        \/ at[RootPid] \in {"execed", "zombie"} /\ at'[RootPid] = "gone"
        \/ at[RootPid] = "execed" /\ at'[RootPid] = "running"
        \/ /\ UNCHANGED command
           /\ \/ tpc = "initial" /\ tpc' = "options"
              \/ tpc = "options" /\ tpc' = "first"
    BY <1>0, <1>4
    DEF Start, InitialWait, SetOptions, FirstResume, Fail, Move, Places, Early, command
  <2>3. CASE UNCHANGED command /\ \/ tpc = "initial" /\ tpc' = "options"
                                  \/ tpc = "options" /\ tpc' = "first"
    <3>1. Stage' < Stage
      BY <2>3 DEF Stage, Errors
    <3> QED  BY <1>1, <2>3, <3>1
  <2>4. CASE \/ at[RootPid] = "unborn" /\ at'[RootPid] = "execed"
             \/ at[RootPid] \in {"execed", "zombie"} /\ at'[RootPid] = "gone"
             \/ at[RootPid] = "execed" /\ at'[RootPid] = "running"
    <3>1. Ahead(RootPid)' < Ahead(RootPid)
      BY <2>4 DEF Ahead
    <3> QED  BY <1>0, <2>1, <3>1, PassesPlace
  <2> QED  BY <2>2, <2>3, <2>4
<1>5. ASSUME NEW p \in Pid, WaitEnd(p) PROVE Closer(p) /\ \A q \in Pid \ {p} : Stays(q)
  <2>1. /\ UNCHANGED <<calls, sent>> /\ at[p] = "zombie" /\ at'[p] = "gone"
        /\ \A q \in Pid \ {p} : at'[q] = at[q] /\ note'[q] = note[q]
    BY <1>0, <1>5 DEF WaitEnd, Move
  <2>2. Ahead(p)' < Ahead(p)
    BY <2>1 DEF Ahead
  <2> QED  BY <2>1, <2>2, PassesPlace
<1>6. ASSUME NEW p \in Pid, WaitStop(p) PROVE RestCloser /\ \A q \in Pid : Stays(q)
  <2>1. UNCHANGED command /\ tpc = "wait" /\ tpc' = "stop" /\ cur' = p /\ at[p] \in Stops
    BY <1>6 DEF WaitStop
  <2>2. at'[cur'] # "zombie"
    BY <2>1 DEF command, Stops
  <2>3. Stage' < Stage
    BY <2>1, <2>2 DEF Stage, Errors
  <2> QED  BY <1>1, <2>1, <2>3
<1>7. CASE Resume /\ at[cur] = "zombie"
  <2>1. UNCHANGED <<command, cur>> /\ tpc = "resume" /\ tpc' = "wait"
    BY <1>7 DEF Resume, command
  <2>2. Stage' < Stage
    BY <1>7, <2>1 DEF Stage, Errors, command
  <2> QED  BY <1>1, <2>1, <2>2
<1>8. CASE Resume /\ at[cur] # "zombie"
  <2>0. PICK p \in Pid : p = cur
    BY <1>0
  <2>1. PICK place \in Onward(p) :
          /\ at' = [at EXCEPT ![p] = place]
          /\ note' = [note EXCEPT ![p] = IF place = "zombie" THEN "signaled"
                                         ELSE IF place = "inside" THEN @ ELSE "none"]
    BY <1>8, <2>0 DEF Resume, Move
  <2>2. /\ UNCHANGED <<calls, sent>> /\ at'[p] = place
        /\ \A q \in Pid \ {p} : at'[q] = at[q] /\ note'[q] = note[q]
    BY <1>0, <1>8, <2>1 DEF Resume
  <2>3. at[p] \in Stops
    BY <1>8, <2>0 DEF Resume, Places
  <2>4. \/ at[p] \in {"signal", "attach"} /\ place = "group"
        \/ at[p] = "signal" /\ place = "zombie"
        \/ at[p] \in {"entry", "event"} /\ place = "inside"
        \/ at[p] \in {"exit", "group", "attach", "signal"} /\ place = "running"
    BY <2>1, <2>3 DEF Onward, Stops
  <2>5. at[p] = "event" => note[p] # "none"
    BY DEF Limits
  <2>6. place = "inside" => note'[p] = note[p]
    BY <1>0, <2>1
  <2>7. Ahead(p)' < Ahead(p)
    <3>1. CASE place = "inside"
      <4>1. Ahead(p)' = IF note[p] = "none" THEN 7 ELSE 5
        BY <2>2, <2>6, <3>1 DEF Ahead
      <4>2. at[p] = "entry" => Ahead(p) = 8
        BY DEF Ahead
      <4>3. at[p] = "event" => Ahead(p) = 6
        BY DEF Ahead
      <4> QED  BY <2>4, <2>5, <3>1, <4>1, <4>2, <4>3
    <3>2. CASE place # "inside"
      BY <2>2, <2>4, <3>2 DEF Ahead
    <3> QED  BY <3>1, <3>2
  <2> QED  BY <2>2, <2>7, PassesPlace
<1>9. CASE Abandoning
  <2>1. UNCHANGED <<calls, sent>>
    BY <1>9, Abandoned
  <2>2. ASSUME NEW p \in Pid PROVE Stays(p) \/ Closer(p)
    <3>1. Now(p)' = Now(p) /\ ToCome(p)' = ToCome(p)
      BY <2>1 DEF Now, ToCome
    <3>2. CASE p \notin Live
      BY <1>9, <2>1, <3>1, <3>2, Abandoned, Bystander
    <3>3. CASE p \in Live
      <4>1. Ahead(p)' = 2
        BY <1>9, <3>3, Abandoned DEF Ahead
      <4>2. at[p] \in Stops \cup {"execed", "running", "inside", "free"}
        BY <1>0, <3>3 DEF Live
      <4>3. CASE Ahead(p) = 2
        BY <3>1, <4>1, <4>3 DEF Stays, Left
      <4>4. CASE Ahead(p) # 2
        <5>1. Ahead(p) > 2
          BY <4>2, <4>4 DEF Ahead, Stops
        <5> QED  BY <3>1, <4>1, <5>1 DEF Closer
      <4> QED  BY <4>3, <4>4
    <3> QED  BY <3>2, <3>3
  <2>3. Stage' < Stage
    <3>1. Stage' = 0
      BY <1>9, Abandoned DEF Stage, Errors
    <3>2. Stage > 0
      BY <1>9, Abandoned DEF Stage, Errors
    <3> QED  BY <3>1, <3>2
  <2> QED  BY <2>2, <2>3 DEF RestCloser
<1> QED  BY <1>2, <1>3, <1>4, <1>5, <1>6, <1>7, <1>8, <1>9 DEF Tracing, Working

LEMMA FewerLeft ==
  ASSUME NEW n \in Nat, NEW a, NEW b, a = b + 1, n - a \in Nat, n - b \in Nat, b \in Nat
  PROVE  n - a < n - b
OBVIOUS

\* The shell and whatever it starts, the tracer and the copier have a number of calls,
\* signals, places, stages and lines left that every step makes less: under no
\* order of stops, ends, signals and kills does the loop go round.
THEOREM TracesGetShorter == Spec => TraceGetsShorter
<1>1. ASSUME Typing, Places, Limits, Natural, Natural', Next
      PROVE  /\ \A p \in Pid :
                  /\ Left(p)' \in Nat \X Nat \X Nat
                  /\ Left(p)' = Left(p) \/ Below(Left(p)', Left(p))
             /\ Rest' \in Nat \X Nat \X Nat
             /\ (\E p \in Pid : Below(Left(p)', Left(p))) \/ Below(Rest', Rest)
  <2>1. /\ \A q \in Pid : Stays(q) \/ Closer(q)
        /\ (\E q \in Pid : Closer(q)) \/ RestCloser
    BY <1>1, ProcessCloser, LeftoverCloser, DisturbCloser, TracingCloser DEF Next
  <2>2. ASSUME NEW p \in Pid
        PROVE  Left(p)' \in Nat \X Nat \X Nat /\ (Closer(p) => Below(Left(p)', Left(p)))
    <3>1. /\ MaxCalls[p] - Now(p) \in Nat /\ Cardinality(ToCome(p)) \in Nat
          /\ Ahead(p) \in Nat
          /\ MaxCalls[p] - Now(p)' \in Nat /\ Cardinality(ToCome(p)') \in Nat
          /\ Ahead(p)' \in Nat
      BY <1>1 DEF Natural
    <3>2. CASE Now(p)' = Now(p) + 1
      <4>1. calls[p] \in Seq(Sys)
        BY <1>1 DEF Typing, TypeOK, CommandOK
      <4>2. Now(p) \in Nat /\ MaxCalls[p] \in Nat
        <5>1. MaxCalls[p] \in Nat
          BY TracerAssumption
        <5>2. Len(calls[p]) \in Nat
          BY <4>1
        <5> QED  BY <5>1, <5>2 DEF Now
      <4>3. MaxCalls[p] - Now(p)' < MaxCalls[p] - Now(p)
        BY <3>1, <3>2, <4>2, FewerLeft
      <4> QED  BY <3>1, <4>3, BelowTriple DEF Left
    <3>3. CASE Now(p)' = Now(p) /\ Cardinality(ToCome(p)') < Cardinality(ToCome(p))
      BY <3>1, <3>3, BelowTriple DEF Left
    <3>4. CASE Now(p)' = Now(p) /\ ToCome(p)' = ToCome(p) /\ Ahead(p)' < Ahead(p)
      BY <3>1, <3>4, BelowTriple DEF Left
    <3>5. Left(p)' \in Nat \X Nat \X Nat
      BY <3>1 DEF Left
    <3> QED  BY <3>2, <3>3, <3>4, <3>5 DEF Closer
  <2>3. Rest' \in Nat \X Nat \X Nat /\ (RestCloser => Below(Rest', Rest))
    <3>1. /\ Stage \in Nat /\ MaxLines - written \in Nat /\ piped \in Nat
          /\ Stage' \in Nat /\ MaxLines - written' \in Nat /\ piped' \in Nat
      BY <1>1 DEF Natural
    <3>2. CASE Stage' < Stage
      BY <3>1, <3>2, BelowTriple DEF Rest
    <3>3. CASE Stage' = Stage /\ written' = written + 1
      <4>1. written \in Nat /\ MaxLines \in Nat
        BY <1>1, TracerAssumption DEF Typing, TypeOK, LinesOK
      <4>2. MaxLines - written' < MaxLines - written
        BY <3>1, <3>3, <4>1, FewerLeft
      <4> QED  BY <3>1, <3>3, <4>2, BelowTriple DEF Rest
    <3>4. CASE Stage' = Stage /\ written' = written /\ piped' < piped
      BY <3>1, <3>4, BelowTriple DEF Rest
    <3>5. Rest' \in Nat \X Nat \X Nat
      BY <3>1 DEF Rest
    <3> QED  BY <3>2, <3>3, <3>4, <3>5 DEF RestCloser
  <2> QED  BY <2>1, <2>2, <2>3 DEF Stays
<1>2. Typing /\ Places /\ Limits /\ Natural /\ Natural' /\ [Next]_vars =>
        [/\ \A p \in Pid :
              /\ Left(p)' \in Nat \X Nat \X Nat
              /\ Left(p)' = Left(p) \/ Below(Left(p)', Left(p))
         /\ Rest' \in Nat \X Nat \X Nat
         /\ (\E p \in Pid : Below(Left(p)', Left(p))) \/ Below(Rest', Rest)]_vars
  BY <1>1
<1> QED
  BY <1>2, TypingHolds, PlacesHold, BoundedHolds, LimitsHold, MeasureType, PTL
     DEF Spec, TraceGetsShorter
=============================================================================
