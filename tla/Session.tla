------------------------------- MODULE Session --------------------------------
(***************************************************************************)
(* run (cmd/minai/main.go) and Agent.Turn: the input loop, the one-shot    *)
(* modes, the ReAct loop with its history, the context that Ctrl-C         *)
(* cancels, and the one standard input that the loop and the permission    *)
(* prompts read from.                                                      *)
(*                                                                         *)
(* A tool call is the abstract one of PermissionLoop, which dispatch       *)
(* implements (ReplyProofs): its rights, runs and judgements are here, and *)
(* the session decides when a call begins, who answers a prompt and what   *)
(* becomes of the call when the context is cancelled.                      *)
(*                                                                         *)
(* A line of input is "enter" (empty), "grant" (r or w), "text" (any other *)
(* word), "/quit" or "/other".  What it means depends on who reads it.     *)
(***************************************************************************)
EXTENDS Integers, Sequences, FiniteSets

CONSTANTS
  Right, MaxRuns,   \* of PermissionLoop
  Modes,            \* "repl", "once" (-p PROMPT) and "dash" (-p -)
  MaxSteps,         \* maxSteps
  MaxCalls,         \* bound on the tool calls of one answer of the model
  MaxDenials,       \* bound on the new denials of one run
  Line,             \* the lines that are typed
  MaxTyped          \* and a bound on their number

ASSUME SessionAssumption ==
  /\ MaxRuns \in Nat \ {0} /\ MaxSteps \in Nat \ {0}
  /\ MaxCalls \in Nat /\ MaxDenials \in Nat /\ MaxTyped \in Nat
  /\ Modes \subseteq {"repl", "once", "dash"}
  /\ Line \subseteq {"enter", "grant", "text", "/quit", "/other"}

VARIABLES
  mode, autoYes,            \* the command line and MINAI_YES
  pc,                       \* start, read, chat, sent, tools, exited
  lines, typed, eof,        \* standard input
  cancelled,                \* the context is done
  history,                  \* Agent.history
  step, msg, answered,      \* Turn: its step, the place of the model's answer in
                            \* the history, and how many of its calls are done
  asks,                     \* denials of the run being judged, not yet asked about
  rights, phase, runs, inForce, consented   \* of PermissionLoop

input == <<lines, typed, eof>>
turn == <<history, step, msg, answered>>
call == <<rights, phase, runs, inForce, consented>>
vars == <<mode, autoYes, pc, input, cancelled, turn, asks, call>>

Loop == INSTANCE PermissionLoop

\* Messages.  `late' says whether the context was done when the user spoke,
\* `of' which call of which message a tool message answers.
System == [role |-> "system", late |-> FALSE, calls |-> 0, of |-> <<0, 0>>]
User(late) == [System EXCEPT !.role = "user", !.late = late]
Assistant(k) == [System EXCEPT !.role = "assistant", !.calls = k]
Tool(n, k) == [System EXCEPT !.role = "tool", !.of = <<n, k>>]

Init ==
  /\ mode \in Modes /\ autoYes \in BOOLEAN
  /\ pc = "start"
  /\ lines = <<>> /\ typed = 0 /\ eof = FALSE
  /\ cancelled = FALSE
  /\ history = <<System>>
  /\ step = 0 /\ msg = 0 /\ answered = 0 /\ asks = 0
  /\ Loop!Init

-----------------------------------------------------------------------------
(* The world: what is typed, the end of input, Ctrl-C.                     *)

Type ==
  /\ pc # "exited" /\ ~ eof /\ typed < MaxTyped
  /\ \E l \in Line : lines' = Append(lines, l)
  /\ typed' = typed + 1
  /\ UNCHANGED <<mode, autoYes, pc, eof, cancelled, turn, asks, call>>

Close ==
  /\ pc # "exited" /\ ~ eof
  /\ eof' = TRUE
  /\ UNCHANGED <<mode, autoYes, pc, lines, typed, cancelled, turn, asks, call>>

\* signal.NotifyContext: once and for all.
CtrlC ==
  /\ pc # "exited" /\ ~ cancelled
  /\ cancelled' = TRUE
  /\ UNCHANGED <<mode, autoYes, pc, input, turn, asks, call>>

-----------------------------------------------------------------------------
(* run.                                                                    *)

Standing == UNCHANGED <<mode, autoYes, cancelled, asks, call>>

\* Turn, up to its loop.
BeginTurn ==
  /\ history' = Append(history, User(cancelled))
  /\ step' = 0
  /\ pc' = "chat"
  /\ UNCHANGED <<msg, answered>>

\* Turn returns: to the loop of run, or from the process.
AfterTurn == IF mode = "repl" THEN "read" ELSE "exited"

Repl ==
  /\ pc = "start" /\ mode = "repl"
  /\ pc' = "read"
  /\ UNCHANGED <<input, turn>> /\ Standing

Once ==
  /\ pc = "start" /\ mode = "once"
  /\ BeginTurn
  /\ UNCHANGED input /\ Standing

\* io.ReadAll: the whole input is the prompt.
Dash ==
  /\ pc = "start" /\ mode = "dash" /\ eof
  /\ lines' = <<>>
  /\ IF \A k \in DOMAIN lines : lines[k] = "enter"
     THEN pc' = "exited" /\ UNCHANGED turn
     ELSE BeginTurn
  /\ UNCHANGED <<typed, eof>> /\ Standing

ReadLine ==
  /\ pc = "read" /\ lines # <<>>
  /\ lines' = Tail(lines)
  /\ CASE Head(lines) \in {"enter", "/other"} -> UNCHANGED <<pc, turn>>
       [] Head(lines) = "/quit" -> pc' = "exited" /\ UNCHANGED turn
       [] Head(lines) \in {"grant", "text"} -> BeginTurn
  /\ UNCHANGED <<typed, eof>> /\ Standing

\* Mutant of ReadEnd: the error is taken for an empty line.
ReadEndSkipped ==
  /\ pc = "read" /\ lines = <<>> /\ eof
  /\ UNCHANGED vars

ReadEnd ==
  /\ pc = "read" /\ lines = <<>> /\ eof
  /\ pc' = "exited"
  /\ UNCHANGED <<input, turn>> /\ Standing

-----------------------------------------------------------------------------
(* Turn.                                                                   *)

\* Mutant of Chat: the request is made without the context.
ChatAnyway ==
  /\ pc = "chat"
  /\ pc' = "sent"
  /\ UNCHANGED <<input, turn>> /\ Standing

\* A request with a context that is done is not made.
Chat ==
  /\ pc = "chat" /\ ~ cancelled
  /\ pc' = "sent"
  /\ UNCHANGED <<input, turn>> /\ Standing

\* Mutant of ChatFails: Chat does not notice that the context is done.
ChatFailsInFlight ==
  /\ pc = "sent"
  /\ pc' = AfterTurn
  /\ UNCHANGED <<input, turn>> /\ Standing

\* No connection, a status other than 200, an answer that cannot be decoded, or
\* the context is done.
ChatFails ==
  /\ pc = "sent" \/ (pc = "chat" /\ cancelled)
  /\ pc' = AfterTurn
  /\ UNCHANGED <<input, turn>> /\ Standing

Answer ==
  /\ pc = "sent"
  /\ \E k \in 0 .. MaxCalls :
       /\ history' = Append(history, Assistant(k))
       /\ pc' = IF k = 0 THEN AfterTurn ELSE "tools"
  /\ msg' = Len(history) + 1 /\ answered' = 0
  /\ UNCHANGED <<input, step>> /\ Standing

InCall == pc = "tools" /\ UNCHANGED <<mode, autoYes, pc, cancelled, turn>>

BeginCall == InCall /\ Loop!Begin /\ UNCHANGED <<input, asks>>

\* sandbox.Exec does not start a child when the context is done.
StartRun == InCall /\ ~ cancelled /\ Loop!StartRun /\ UNCHANGED <<input, asks>>

EndRun ==
  /\ InCall /\ Loop!EndRun
  /\ asks' \in 0 .. MaxDenials
  /\ UNCHANGED input

\* An unknown tool, a child that cannot be started, or one that is lost.
CallFails == InCall /\ Loop!Fail /\ UNCHANGED <<input, asks>>

ApproveAll ==
  /\ InCall /\ asks > 0 /\ autoYes
  /\ Loop!Consent
  /\ asks' = asks - 1
  /\ UNCHANGED input

\* promptAccess reads the next line, whenever it was typed.
AnswerPrompt ==
  /\ InCall /\ asks > 0 /\ ~ autoYes /\ lines # <<>>
  /\ IF Head(lines) \in {"enter", "grant"} THEN Loop!Consent ELSE UNCHANGED call
  /\ lines' = Tail(lines)
  /\ asks' = asks - 1
  /\ UNCHANGED <<typed, eof>>

\* Mutant of PromptAtEnd: the empty line read at the end of input is an answer.
PromptAtEndGrants ==
  /\ InCall /\ asks > 0 /\ ~ autoYes /\ lines = <<>> /\ eof
  /\ Loop!Consent
  /\ asks' = asks - 1
  /\ UNCHANGED input

\* At the end of input a prompt is a refusal.
PromptAtEnd ==
  /\ InCall /\ asks > 0 /\ ~ autoYes /\ lines = <<>> /\ eof
  /\ asks' = asks - 1
  /\ UNCHANGED <<input, call>>

RunAgain == InCall /\ asks = 0 /\ Loop!RunAgain /\ UNCHANGED <<input, asks>>
Surface == InCall /\ asks = 0 /\ Loop!Surface /\ UNCHANGED <<input, asks>>
GiveUp == InCall /\ Loop!GiveUp /\ UNCHANGED <<input, asks>>

\* Mutant of Reply: once the context is done the calls left are dropped.
ReplyUnlessCancelled ==
  /\ pc = "tools" /\ Loop!End
  /\ history' = Append(history, Tool(msg, answered + 1))
  /\ answered' = answered + 1
  /\ IF answered' = history[msg].calls \/ cancelled
     THEN /\ step' = step + 1
          /\ pc' = IF step' = MaxSteps THEN AfterTurn ELSE "chat"
     ELSE UNCHANGED <<step, pc>>
  /\ UNCHANGED <<mode, autoYes, input, cancelled, msg, asks>>

\* Mutants of Reply: the loop has no bound; one step too many.
ReplyUncounted ==
  /\ pc = "tools" /\ Loop!End
  /\ history' = Append(history, Tool(msg, answered + 1))
  /\ answered' = answered + 1
  /\ pc' = IF answered' = history[msg].calls THEN "chat" ELSE pc
  /\ UNCHANGED <<mode, autoYes, input, cancelled, step, msg, asks>>
ReplyOneStepMore ==
  /\ pc = "tools" /\ Loop!End
  /\ history' = Append(history, Tool(msg, answered + 1))
  /\ answered' = answered + 1
  /\ IF answered' = history[msg].calls
     THEN /\ step' = step + 1
          /\ pc' = IF step' > MaxSteps THEN AfterTurn ELSE "chat"
     ELSE UNCHANGED <<step, pc>>
  /\ UNCHANGED <<mode, autoYes, input, cancelled, msg, asks>>

\* The reply of a call joins the history; after the last one of this answer the
\* model is asked again, up to MaxSteps times.
Reply ==
  /\ pc = "tools" /\ Loop!End
  /\ history' = Append(history, Tool(msg, answered + 1))
  /\ answered' = answered + 1
  /\ IF answered' = history[msg].calls
     THEN /\ step' = step + 1
          /\ pc' = IF step' = MaxSteps THEN AfterTurn ELSE "chat"
     ELSE UNCHANGED <<step, pc>>
  /\ UNCHANGED <<mode, autoYes, input, cancelled, msg, asks>>

-----------------------------------------------------------------------------
Program ==
  \/ Repl \/ Once \/ Dash \/ ReadLine \/ ReadEnd \/ Chat \/ ChatFails \/ Answer
  \/ BeginCall \/ StartRun \/ EndRun \/ CallFails \/ ApproveAll \/ AnswerPrompt
  \/ PromptAtEnd \/ RunAgain \/ Surface \/ GiveUp \/ Reply

Next == Program \/ Type \/ Close \/ CtrlC

Spec == Init /\ [][Next]_vars

\* The program runs, its children end and the server answers or fails.  Nothing
\* is assumed of the user.
FairSpec == Spec /\ WF_vars(Program)

-----------------------------------------------------------------------------
ControlOK ==
  /\ mode \in Modes /\ autoYes \in BOOLEAN /\ cancelled \in BOOLEAN
  /\ pc \in {"start", "read", "chat", "sent", "tools", "exited"}
InputOK == lines \in Seq(Line) /\ typed \in 0 .. MaxTyped /\ eof \in BOOLEAN
Message == [role : {"system", "user", "assistant", "tool"}, late : BOOLEAN,
            calls : 0 .. MaxCalls, of : Nat \X (0 .. MaxCalls)]
TurnOK ==
  /\ history \in Seq(Message)
  /\ step \in 0 .. MaxSteps /\ msg \in 0 .. Len(history)
  /\ answered \in 0 .. MaxCalls
CallOK ==
  /\ asks \in 0 .. MaxDenials
  /\ rights \subseteq Right /\ inForce \subseteq Right
  /\ phase \in {"idle", "due", "running", "judging", "done"}
  /\ runs \in 0 .. MaxRuns /\ consented \in BOOLEAN

\* What each variable holds; with it, that no turn takes more than MaxSteps steps
\* and no answer of the model gets more replies than it can have calls.
TypeOK == ControlOK /\ InputOK /\ TurnOK /\ CallOK

\* The service rejects a history in which a tool call has no reply.  Whenever
\* Turn sends the history, and whenever it returns, each answer of the model is
\* followed by the replies to its calls, one each and in order, and there is no
\* other tool message: also after a cancelled call, a failed request or a turn
\* that ran out of steps.
RepliesOf(n) ==
  /\ n + history[n].calls <= Len(history)
  /\ \A k \in 1 .. history[n].calls : history[n + k] = Tool(n, k)
SentHistoryComplete ==
  pc # "tools" =>
    \A n \in DOMAIN history :
      /\ history[n].role = "assistant" => RepliesOf(n)
      /\ history[n].role = "tool" =>
           LET a == history[n].of[1] IN
           /\ a \in 1 .. n - 1 /\ history[a].role = "assistant"
           /\ n - a \in 1 .. history[a].calls

\* main.go:131: the context stays done.  A prompt entered after Ctrl-C gets no
\* answer, runs no tool and leaves nothing but itself in the history.
LateTurnsGetNothing ==
  \A n \in DOMAIN history :
    history[n].late /\ n < Len(history) => history[n + 1].role = "user"

\* main.go:137: `-p -' uses up the input, so that no prompt can be answered: such
\* a session grants nothing, unless MINAI_YES does.
PipedPromptGrantsNothing ==
  mode = "dash" /\ ~ autoYes => rights = {}

\* maxSteps: the model is heard at most MaxSteps times between two prompts of the
\* user, whatever fails or is cancelled on the way.
Answers(m, n) == {k \in m .. n : history[k].role = "assistant"}
StepsBounded ==
  \A m, n \in DOMAIN history :
    (\A k \in m .. n : history[k].role # "user")
      => Cardinality(Answers(m, n)) <= MaxSteps

InTurn == pc \in {"chat", "sent", "tools"}
WaitsForUser ==
  pc = "tools" /\ phase = "judging" /\ asks > 0 /\ lines = <<>> /\ ~ eof

\* How far a turn is from its end: the steps it may still take, how far it is in this
\* one, the calls of this answer that have no reply, the runs and judgements that
\* the call may still come to, and the prompts of this judgement.
PlaceInStep == CASE pc = "chat" -> 2 [] pc = "sent" -> 1 [] OTHER -> 0
CallsLeft == IF pc = "tools" THEN history[msg].calls - answered ELSE 0
StagesLeft ==
  CASE phase = "idle" -> 3 * MaxRuns + 4
    [] phase = "due" -> 3 * (MaxRuns - runs) + 1
    [] phase = "running" -> 3 * (MaxRuns - runs) + 3
    [] phase = "judging" -> 3 * (MaxRuns - runs) + 2
    [] phase = "done" -> 0
Left == <<MaxSteps - step, PlaceInStep, CallsLeft, StagesLeft, asks>>
Below(a, b) ==
  \E i \in 1 .. 5 : a[i] < b[i] /\ \A j \in 1 .. 5 : j < i => a[j] = b[j]

\* Every step of the program brings the turn closer to its end, whatever the model
\* answers and however its calls go, and neither typing nor Ctrl-C takes it
\* further away.
TurnGetsShorter ==
  [][InTurn /\ InTurn' =>
       /\ Left' \in Nat \X Nat \X Nat \X Nat \X Nat
       /\ IF Program THEN Below(Left', Left) ELSE Left' = Left]_vars

\* A turn ends, or it waits for the user to answer a prompt; nothing else, not
\* even Ctrl-C, keeps it from returning.
TurnEnds == <>[]InTurn => <>[]WaitsForUser

\* When the input ends, the program comes to its end in every mode: the lines
\* typed ahead are used up, the remaining prompts are refusals.
EndOfInputExits == eof ~> (pc = "exited")
=============================================================================
