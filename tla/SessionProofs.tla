----------------------------- MODULE SessionProofs ----------------------------
(***************************************************************************)
(* What Session promises, for every number of steps, calls, denials and    *)
(* lines.                                                                  *)
(***************************************************************************)
EXTENDS Session, FiniteSetTheorems, TLAPS

LEMMA Appended ==
  ASSUME NEW S, NEW seq \in Seq(S), NEW e \in S
  PROVE  /\ Append(seq, e) \in Seq(S)
         /\ Len(seq) \in Nat /\ Len(Append(seq, e)) = Len(seq) + 1
         /\ DOMAIN seq = 1 .. Len(seq) /\ DOMAIN Append(seq, e) = 1 .. Len(seq) + 1
         /\ Append(seq, e)[Len(seq) + 1] = e
         /\ \A i \in DOMAIN seq : Append(seq, e)[i] = seq[i]
OBVIOUS

LEMMA TailType ==
  ASSUME NEW S, NEW seq \in Seq(S), seq # <<>>
  PROVE  Tail(seq) \in Seq(S)
OBVIOUS

LEMMA Messages ==
  /\ System \in Message
  /\ \A late \in BOOLEAN : User(late) \in Message
  /\ \A k \in 0 .. MaxCalls : Assistant(k) \in Message
  /\ \A n \in Nat, k \in 0 .. MaxCalls : Tool(n, k) \in Message
<1>1. System \in Message
  <2>1. 0 \in 0 .. MaxCalls
    BY SessionAssumption
  <2> QED  BY <2>1 DEF Message, System
<1>2. ASSUME NEW late \in BOOLEAN PROVE User(late) \in Message
  BY <1>1, <1>2 DEF Message, User
<1>3. ASSUME NEW k \in 0 .. MaxCalls PROVE Assistant(k) \in Message
  BY <1>1, <1>3 DEF Message, Assistant
<1>4. ASSUME NEW n \in Nat, NEW k \in 0 .. MaxCalls PROVE Tool(n, k) \in Message
  BY <1>1, <1>4 DEF Message, Tool
<1> QED  BY <1>1, <1>2, <1>3, <1>4

\* In a turn there is a step left; while calls are answered, the history ends with
\* the model's answer and the replies given so far.
Shape ==
  /\ pc \in {"chat", "sent", "tools"} => step < MaxSteps
  /\ pc = "tools" =>
       /\ msg \in DOMAIN history /\ history[msg].role = "assistant"
       /\ answered < history[msg].calls
       /\ Len(history) = msg + answered
       /\ \A k \in 1 .. answered : history[msg + k] = Tool(msg, k)

Typing == TypeOK /\ Shape

LEMMA TypingInit == Init => Typing
<1> SUFFICES ASSUME Init PROVE Typing
  OBVIOUS
<1>1. history \in Seq(Message) /\ Len(history) = 1
  BY Messages DEF Init
<1>2. lines \in Seq(Line)
  BY DEF Init
<1>3. TurnOK /\ ControlOK /\ Shape
  <2>1. MaxSteps \in Nat \ {0} /\ MaxCalls \in Nat
    BY SessionAssumption
  <2>2. step = 0 /\ msg = 0 /\ answered = 0 /\ pc = "start"
    BY DEF Init
  <2>3. TurnOK
    BY <1>1, <2>1, <2>2 DEF TurnOK
  <2>4. Shape
    BY <2>2 DEF Shape
  <2>5. ControlOK
    BY DEF Init, ControlOK
  <2> QED  BY <2>3, <2>4, <2>5
<1>4. InputOK /\ CallOK
  <2>1. MaxRuns \in Nat /\ MaxDenials \in Nat /\ MaxTyped \in Nat
    BY SessionAssumption
  <2>2. asks = 0 /\ rights = {} /\ phase = "idle" /\ runs = 0 /\ inForce = {} /\ typed = 0
    BY DEF Init, Loop!Init
  <2>3. asks \in 0 .. MaxDenials /\ runs \in 0 .. MaxRuns /\ typed \in 0 .. MaxTyped
    BY <2>1, <2>2
  <2>4. consented \in BOOLEAN /\ eof \in BOOLEAN
    BY DEF Init, Loop!Init
  <2>5. CallOK
    BY <2>2, <2>3, <2>4 DEF CallOK
  <2>6. InputOK
    BY <1>2, <2>3, <2>4 DEF InputOK
  <2> QED  BY <2>5, <2>6
<1> QED  BY <1>3, <1>4 DEF Typing, TypeOK

\* What a step does to the history: nothing, or it appends a message.
BeginsTurn == \/ (Once \/ Dash \/ ReadLine) /\ BeginTurn

\* The line that the loop reads is empty, a command or a prompt.
LEMMA ReadLineCases ==
  ASSUME Typing, ReadLine
  PROVE  /\ pc = "read"
         /\ \/ UNCHANGED <<pc, turn>>
            \/ pc' = "exited" /\ UNCHANGED turn
            \/ BeginTurn
<1>1. Head(lines) \in Line
  BY DEF Typing, TypeOK, InputOK, ReadLine
<1>2. Head(lines) \in {"enter", "grant", "text", "/quit", "/other"}
  BY <1>1, SessionAssumption
<1>3. Head(lines) \in {"enter", "/other"} => UNCHANGED <<pc, turn>>
  BY DEF ReadLine
<1>4. Head(lines) = "/quit" => pc' = "exited" /\ UNCHANGED turn
  BY DEF ReadLine
<1>5. Head(lines) \in {"grant", "text"} => BeginTurn
  BY DEF ReadLine
<1>6. pc = "read"
  BY DEF ReadLine
<1> QED  BY <1>2, <1>3, <1>4, <1>5, <1>6

LEMMA HistorySteps ==
  ASSUME Typing, [Next]_vars
  PROVE  \/ BeginsTurn
         \/ Answer
         \/ Reply
         \/ /\ UNCHANGED turn
            /\ \/ pc' = pc
               \/ pc # "tools" /\ pc' \in {"read", "exited"}
               \/ pc = "chat" /\ pc' = "sent" /\ ~ cancelled
<1>1. CASE Once \/ Dash
  BY <1>1 DEF Once, Dash, BeginsTurn
<1>2. CASE ReadLine
  BY <1>2, ReadLineCases DEF BeginsTurn
<1>3. CASE Repl \/ ReadEnd \/ Chat \/ ChatFails
  BY <1>3 DEF Repl, ReadEnd, Chat, ChatFails, AfterTurn
<1>4. CASE Type \/ Close \/ CtrlC \/ UNCHANGED vars
  BY <1>4 DEF Type, Close, CtrlC, vars
<1>5. CASE BeginCall \/ StartRun \/ EndRun \/ CallFails \/ ApproveAll \/ AnswerPrompt
             \/ PromptAtEnd \/ RunAgain \/ Surface \/ GiveUp
  BY <1>5 DEF InCall, BeginCall, StartRun, EndRun, CallFails, ApproveAll, AnswerPrompt,
     PromptAtEnd, RunAgain, Surface, GiveUp
<1> QED  BY <1>1, <1>2, <1>3, <1>4, <1>5 DEF Next, Program

\* The steps between two answers of the model.
LEMMA TurnStep ==
  ASSUME Typing, [Next]_vars
  PROVE  TurnOK' /\ Shape'
<1>0. /\ history \in Seq(Message) /\ Len(history) \in Nat /\ MaxSteps \in Nat \ {0}
      /\ MaxCalls \in Nat /\ step \in 0 .. MaxSteps /\ msg \in 0 .. Len(history)
      /\ answered \in 0 .. MaxCalls /\ cancelled \in BOOLEAN
      /\ DOMAIN history = 1 .. Len(history)
  BY SessionAssumption DEF Typing, TypeOK, TurnOK, ControlOK
<1>1. CASE BeginsTurn
  <2>1. history' = Append(history, User(cancelled)) /\ step' = 0 /\ pc' = "chat"
          /\ UNCHANGED <<msg, answered>>
    BY <1>1 DEF BeginsTurn, BeginTurn
  <2>2. User(cancelled) \in Message
    BY <1>0, Messages
  <2>3. history' \in Seq(Message) /\ Len(history') = Len(history) + 1
    BY <1>0, <2>1, <2>2, Appended
  <2> QED  BY <1>0, <2>1, <2>3 DEF TurnOK, Shape
<1>2. CASE Answer
  <2>1. PICK k \in 0 .. MaxCalls : /\ history' = Append(history, Assistant(k))
                                   /\ pc' = IF k = 0 THEN AfterTurn ELSE "tools"
    BY <1>2 DEF Answer
  <2>2. msg' = Len(history) + 1 /\ answered' = 0 /\ step' = step /\ pc = "sent"
    BY <1>2 DEF Answer
  <2>3. Assistant(k) \in Message /\ Assistant(k).role = "assistant"
          /\ Assistant(k).calls = k
    BY Messages DEF Assistant, System
  <2>4. /\ history' \in Seq(Message) /\ Len(history') = Len(history) + 1
        /\ DOMAIN history' = 1 .. Len(history) + 1
        /\ history'[Len(history) + 1] = Assistant(k)
    BY <1>0, <2>1, <2>3, Appended
  <2>5. step < MaxSteps
    BY <2>2 DEF Typing, Shape
  <2>6. TurnOK'
    BY <1>0, <2>2, <2>4 DEF TurnOK
  <2>7. Shape'
    BY <1>0, <2>1, <2>2, <2>3, <2>4, <2>5 DEF Shape, AfterTurn
  <2> QED  BY <2>6, <2>7
<1>3. CASE Reply
  <2>1. /\ pc = "tools" /\ history' = Append(history, Tool(msg, answered + 1))
        /\ answered' = answered + 1 /\ UNCHANGED msg
        /\ IF answered' = history[msg].calls
           THEN step' = step + 1 /\ pc' = IF step' = MaxSteps THEN AfterTurn ELSE "chat"
           ELSE UNCHANGED <<step, pc>>
    BY <1>3 DEF Reply
  <2>2. /\ step < MaxSteps /\ msg \in DOMAIN history /\ history[msg].role = "assistant"
        /\ answered < history[msg].calls /\ Len(history) = msg + answered
        /\ \A k \in 1 .. answered : history[msg + k] = Tool(msg, k)
    BY <2>1 DEF Typing, Shape
  <2>3. history[msg].calls \in 0 .. MaxCalls
    <3>1. history[msg] \in Message
      BY <1>0, <2>2
    <3> QED  BY <3>1 DEF Message
  <2>4. Tool(msg, answered + 1) \in Message
    <3>1. answered + 1 \in 0 .. MaxCalls /\ msg \in Nat
      BY <1>0, <2>2, <2>3
    <3> QED  BY <3>1, Messages
  <2>5. /\ history' \in Seq(Message) /\ Len(history') = Len(history) + 1
        /\ DOMAIN history' = 1 .. Len(history) + 1
        /\ history'[Len(history) + 1] = Tool(msg, answered + 1)
        /\ \A i \in DOMAIN history : history'[i] = history[i]
    BY <1>0, <2>1, <2>4, Appended
  <2>6. TurnOK'
    BY <1>0, <2>1, <2>2, <2>3, <2>5 DEF TurnOK
  <2>7. \A k \in 1 .. answered + 1 : history'[msg + k] = Tool(msg, k)
    <3>1. ASSUME NEW k \in 1 .. answered PROVE history'[msg + k] = Tool(msg, k)
      <4>1. msg + k \in DOMAIN history
        BY <1>0, <2>2
      <4> QED  BY <2>2, <2>5, <4>1
    <3>2. history'[msg + (answered + 1)] = Tool(msg, answered + 1)
      BY <1>0, <2>2, <2>5
    <3>3. \A k \in 1 .. answered + 1 : k \in 1 .. answered \/ k = answered + 1
      BY <1>0
    <3> QED  BY <3>1, <3>2, <3>3
  <2>8. history'[msg] = history[msg] /\ msg \in DOMAIN history'
    BY <1>0, <2>2, <2>5
  <2>9. CASE answered + 1 = history[msg].calls
    <3>1. step' = step + 1 /\ pc' = IF step' = MaxSteps THEN AfterTurn ELSE "chat"
      BY <2>1, <2>9
    <3> QED  BY <1>0, <2>2, <2>6, <3>1 DEF Shape, AfterTurn
  <2>10. CASE answered + 1 # history[msg].calls
    <3>1. UNCHANGED <<step, pc>>
      BY <2>1, <2>10
    <3>2. answered' < history'[msg].calls /\ Len(history') = msg + answered'
      BY <1>0, <2>1, <2>2, <2>3, <2>5, <2>8, <2>10
    <3> QED  BY <2>1, <2>2, <2>6, <2>7, <2>8, <3>1, <3>2 DEF Shape
  <2> QED  BY <2>9, <2>10
<1>4. CASE /\ UNCHANGED turn
           /\ \/ pc' \in {pc, "read", "exited"}
              \/ pc = "chat" /\ pc' = "sent"
  BY <1>4 DEF turn, TurnOK, Shape, Typing, TypeOK
<1> QED  BY <1>1, <1>2, <1>3, <1>4, HistorySteps

\* The reply of a call is a message.
LEMMA ReplyMessage ==
  ASSUME Typing, pc = "tools"
  PROVE  Tool(msg, answered + 1) \in Message /\ Tool(msg, answered + 1).role = "tool"
<1>0. /\ history \in Seq(Message) /\ DOMAIN history = 1 .. Len(history)
      /\ msg \in Nat /\ answered \in Nat /\ MaxCalls \in Nat
  BY SessionAssumption DEF Typing, TypeOK, TurnOK
<1>1. answered < history[msg].calls /\ msg \in DOMAIN history
  BY DEF Typing, Shape
<1>2. history[msg] \in Message
  BY <1>0, <1>1
<1>3. answered + 1 \in 0 .. MaxCalls
  BY <1>0, <1>1, <1>2 DEF Message
<1> QED  BY <1>0, <1>3, Messages DEF Tool, System

LEMMA InputStep ==
  ASSUME Typing, [Next]_vars
  PROVE  InputOK'
<1>0. /\ lines \in Seq(Line) /\ typed \in 0 .. MaxTyped /\ eof \in BOOLEAN
      /\ MaxTyped \in Nat
  BY SessionAssumption DEF Typing, TypeOK, InputOK
<1>1. CASE Type
  <2>1. PICK l \in Line : lines' = Append(lines, l)
    BY <1>1 DEF Type
  <2>2. lines' \in Seq(Line)
    BY <1>0, <2>1, Appended
  <2>3. typed' \in 0 .. MaxTyped /\ UNCHANGED eof
    BY <1>0, <1>1 DEF Type
  <2> QED  BY <1>0, <2>2, <2>3 DEF InputOK
<1>2. CASE Close
  BY <1>0, <1>2 DEF Close, InputOK
<1>3. CASE Dash
  <2>1. lines' = <<>> /\ UNCHANGED <<typed, eof>>
    BY <1>3 DEF Dash
  <2>2. lines' \in Seq(Line)
    BY <2>1
  <2> QED  BY <1>0, <2>1, <2>2 DEF InputOK
<1>4. CASE ReadLine \/ AnswerPrompt
  <2>1. lines # <<>> /\ lines' = Tail(lines) /\ UNCHANGED <<typed, eof>>
    BY <1>4 DEF ReadLine, AnswerPrompt
  <2> QED  BY <1>0, <2>1, TailType DEF InputOK
<1>5. CASE UNCHANGED input
  BY <1>0, <1>5 DEF input, InputOK
<1> QED
  BY <1>1, <1>2, <1>3, <1>4, <1>5 DEF Next, Program, CtrlC, Repl, Once, ReadEnd, Chat, ChatFails,
     Answer, Reply, BeginCall, StartRun, EndRun, CallFails, ApproveAll, PromptAtEnd,
     RunAgain, Surface, GiveUp, vars

LEMMA ControlStep ==
  ASSUME Typing, [Next]_vars
  PROVE  ControlOK'
<1>1. UNCHANGED <<mode, autoYes>> /\ (UNCHANGED cancelled \/ cancelled' = TRUE)
  BY DEF Next, Program, Type, Close, CtrlC, Repl, Once, Dash, ReadLine, ReadEnd, Chat,
     ChatFails, Answer, Reply, InCall, BeginCall, StartRun, EndRun, CallFails, ApproveAll,
     AnswerPrompt, PromptAtEnd, RunAgain, Surface, GiveUp, Standing, vars
<1>2. pc' \in {pc, "read", "chat", "sent", "tools", "exited"}
  <2>1. CASE BeginsTurn
    BY <2>1 DEF BeginsTurn, BeginTurn
  <2>2. CASE Answer \/ Reply
    BY <2>2 DEF Answer, Reply, AfterTurn
  <2> QED  BY <2>1, <2>2, HistorySteps
<1>3. mode \in Modes /\ autoYes \in BOOLEAN /\ cancelled \in BOOLEAN
        /\ pc \in {"start", "read", "chat", "sent", "tools", "exited"}
  BY DEF Typing, TypeOK, ControlOK
<1>4. cancelled' \in BOOLEAN /\ autoYes' \in BOOLEAN
  BY <1>1, <1>3
<1> QED  BY <1>1, <1>2, <1>3, <1>4 DEF ControlOK

\* What a step does to the tool call.
LEMMA CallSteps ==
  ASSUME [Next]_vars
  PROVE  \/ UNCHANGED call \/ Loop!Begin \/ Loop!StartRun \/ Loop!EndRun \/ Loop!Fail
         \/ (ApproveAll \/ AnswerPrompt) /\ Loop!Consent
         \/ Loop!RunAgain \/ Loop!Surface \/ Loop!GiveUp \/ Loop!End
BY DEF Next, Program, Type, Close, CtrlC, Repl, Once, Dash, ReadLine, ReadEnd, Chat,
     ChatFails, Answer, Reply, InCall, BeginCall, StartRun, EndRun, CallFails, ApproveAll,
     AnswerPrompt, PromptAtEnd, RunAgain, Surface, GiveUp, Standing, vars

LEMMA CallStep ==
  ASSUME Typing, [Next]_vars
  PROVE  CallOK'
<1>0. /\ rights \subseteq Right /\ inForce \subseteq Right /\ consented \in BOOLEAN
      /\ phase \in {"idle", "due", "running", "judging", "done"}
      /\ runs \in 0 .. MaxRuns /\ asks \in 0 .. MaxDenials
      /\ MaxRuns \in Nat \ {0} /\ MaxDenials \in Nat
  BY SessionAssumption DEF Typing, TypeOK, CallOK
<1>1. asks' \in 0 .. MaxDenials
  <2>1. CASE EndRun
    BY <2>1 DEF EndRun
  <2>2. CASE ApproveAll \/ AnswerPrompt \/ PromptAtEnd
    <3>1. asks > 0 /\ asks' = asks - 1
      BY <2>2 DEF ApproveAll, AnswerPrompt, PromptAtEnd
    <3> QED  BY <1>0, <3>1
  <2>3. CASE UNCHANGED asks
    BY <1>0, <2>3
  <2> QED
    BY <2>1, <2>2, <2>3
    DEF Next, Program, Type, Close, CtrlC, Repl, Once, Dash, ReadLine, ReadEnd, Chat,
        ChatFails, Answer, Reply, BeginCall, StartRun, CallFails, RunAgain, Surface,
        GiveUp, Standing, vars
<1>2. rights' \subseteq Right /\ inForce' \subseteq Right
  BY <1>0, CallSteps
  DEF call, Loop!Begin, Loop!StartRun, Loop!EndRun, Loop!Fail, Loop!Consent, Loop!RunAgain,
      Loop!Surface, Loop!GiveUp, Loop!End, Loop!Stop
<1>3. runs' \in 0 .. MaxRuns
  <2>1. runs' \in {runs, 0} \/ (runs < MaxRuns /\ runs' = runs + 1)
    BY CallSteps
    DEF call, Loop!Begin, Loop!StartRun, Loop!EndRun, Loop!Fail, Loop!Consent, Loop!RunAgain,
        Loop!Surface, Loop!GiveUp, Loop!End, Loop!Stop
  <2> QED  BY <1>0, <2>1
<1>4. consented' \in BOOLEAN /\ phase' \in {"idle", "due", "running", "judging", "done"}
  BY <1>0, CallSteps
  DEF call, Loop!Begin, Loop!StartRun, Loop!EndRun, Loop!Fail, Loop!Consent, Loop!RunAgain,
      Loop!Surface, Loop!GiveUp, Loop!End, Loop!Stop
<1> QED  BY <1>1, <1>2, <1>3, <1>4 DEF CallOK

LEMMA TypingNext == Typing /\ [Next]_vars => Typing'
BY TurnStep, InputStep, ControlStep, CallStep DEF Typing, TypeOK

LEMMA TypingHolds == Spec => []Typing
<1> QED  BY TypingInit, TypingNext, PTL DEF Spec

\* Every variable of the session keeps its type; a turn takes at most MaxSteps
\* steps, and an answer of the model gets at most as many replies as it has calls.
THEOREM TypeCorrect == Spec => []TypeOK
<1>1. Typing => TypeOK
  BY DEF Typing
<1> QED  BY <1>1, TypingHolds, PTL
-----------------------------------------------------------------------------
(* -p - : the prompts find the input at its end.                           *)

Drained ==
  /\ mode = "dash" /\ pc # "start" => eof /\ lines = <<>>
  /\ pc = "start" => rights = {}
  /\ PipedPromptGrantsNothing

LEMMA DrainedNext ==
  ASSUME Typing, Drained, [Next]_vars
  PROVE  Drained'
<1>1. UNCHANGED <<mode, autoYes>>
  BY DEF Next, Program, Type, Close, CtrlC, Repl, Once, Dash, ReadLine, ReadEnd, Chat,
     ChatFails, Answer, Reply, InCall, BeginCall, StartRun, EndRun, CallFails,
     ApproveAll, AnswerPrompt, PromptAtEnd, RunAgain, Surface, GiveUp, Standing, vars
<1>2. mode = "dash" /\ pc' # "start" => eof' /\ lines' = <<>>
  <2>1. CASE Dash
    BY <2>1 DEF Dash
  <2>2. CASE Type \/ Close
    BY <2>2 DEF Type, Close, Drained
  <2>3. CASE Repl \/ Once
    BY <2>3 DEF Repl, Once
  <2>4. CASE ReadLine \/ AnswerPrompt
    BY <2>4 DEF ReadLine, AnswerPrompt, InCall, Drained
  <2>5. CASE \/ ReadEnd \/ Chat \/ ChatFails \/ Answer \/ Reply \/ CtrlC \/ BeginCall
             \/ StartRun \/ EndRun \/ CallFails \/ ApproveAll \/ PromptAtEnd \/ RunAgain
             \/ Surface \/ GiveUp
    <3>1. UNCHANGED input /\ (pc # "start" \/ UNCHANGED pc)
      BY <2>5 DEF ReadEnd, Chat, ChatFails, Answer, Reply, CtrlC, InCall, BeginCall,
         StartRun, EndRun, CallFails, ApproveAll, PromptAtEnd, RunAgain, Surface, GiveUp
    <3> QED  BY <3>1 DEF Drained, input
  <2>6. CASE UNCHANGED vars
    BY <2>6 DEF Drained, vars, input
  <2> QED  BY <2>1, <2>2, <2>3, <2>4, <2>5, <2>6 DEF Next, Program
<1>3. \/ UNCHANGED rights
      \/ pc' = "tools" /\ (ApproveAll \/ AnswerPrompt)
  <2>1. ApproveAll \/ AnswerPrompt => pc' = "tools"
    BY DEF ApproveAll, AnswerPrompt, InCall
  <2> QED
    BY <2>1, CallSteps
    DEF call, Loop!Begin, Loop!StartRun, Loop!EndRun, Loop!Fail, Loop!RunAgain,
        Loop!Surface, Loop!GiveUp, Loop!End, Loop!Stop
<1>4. ApproveAll \/ AnswerPrompt => autoYes \/ (pc = "tools" /\ lines # <<>>)
  BY DEF ApproveAll, AnswerPrompt, InCall
<1>5. pc' = "start" => pc = "start"
  <2>1. BeginsTurn => pc' = "chat"
    BY DEF BeginsTurn, BeginTurn
  <2>2. Answer => pc' # "start"
    BY DEF Answer, AfterTurn
  <2>3. Reply => pc' # "start"
    BY DEF Reply, AfterTurn
  <2> QED  BY <2>1, <2>2, <2>3, HistorySteps
<1> QED  BY <1>1, <1>2, <1>3, <1>4, <1>5 DEF Drained, PipedPromptGrantsNothing

\* `-p -' grants nothing, whatever the piped text says and however often a denial
\* is asked about.
THEOREM PipedGrantsNothing == Spec => []PipedPromptGrantsNothing
<1>1. Init => Drained
  BY DEF Init, Loop!Init, Drained, PipedPromptGrantsNothing
<1>2. Typing /\ Drained /\ [Next]_vars => Drained'
  BY DrainedNext
<1>3. Drained => PipedPromptGrantsNothing
  BY DEF Drained
<1> QED  BY <1>1, <1>2, <1>3, TypingHolds, PTL DEF Spec
-----------------------------------------------------------------------------
(* Turns that begin after Ctrl-C.                                          *)

Late ==
  /\ Len(history) > 0
  /\ LateTurnsGetNothing
  /\ \A n \in DOMAIN history : history[n].late => cancelled
  /\ pc \in {"sent", "tools"} => ~ history[Len(history)].late

\* Appending a message that is not late after one that is not late, or a user's.
LEMMA LateAppend ==
  ASSUME Typing, Late, NEW m \in Message, history' = Append(history, m),
         m.late => cancelled, cancelled => cancelled',
         m.role = "user" \/ (~ history[Len(history)].late),
         m.late => pc' \notin {"sent", "tools"}
  PROVE  Late'
<1>1. history \in Seq(Message)
  BY DEF Typing, TypeOK, TurnOK
<1>2. /\ Len(history) \in Nat /\ Len(history') = Len(history) + 1
      /\ DOMAIN history = 1 .. Len(history) /\ DOMAIN history' = 1 .. Len(history) + 1
      /\ history'[Len(history) + 1] = m
      /\ \A i \in DOMAIN history : history'[i] = history[i]
  BY <1>1, Appended
<1>3. ASSUME NEW n \in DOMAIN history', history'[n].late, n < Len(history')
      PROVE  history'[n + 1].role = "user"
  <2>1. n \in DOMAIN history /\ history[n].late
    BY <1>2, <1>3
  <2>2. CASE n < Len(history)
    <3>1. history[n + 1].role = "user" /\ n + 1 \in DOMAIN history
      BY <1>2, <2>1, <2>2 DEF Late, LateTurnsGetNothing
    <3> QED  BY <1>2, <3>1
  <2>3. CASE n = Len(history)
    BY <1>2, <2>1, <2>3
  <2> QED  BY <1>2, <2>1, <2>2, <2>3
<1>4. ASSUME NEW n \in DOMAIN history', history'[n].late PROVE cancelled'
  <2>1. CASE n \in DOMAIN history
    BY <1>2, <1>4, <2>1 DEF Late
  <2>2. CASE n = Len(history) + 1
    BY <1>2, <1>4, <2>2
  <2> QED  BY <1>2, <2>1, <2>2
<1>5. Len(history') > 0 /\ (pc' \in {"sent", "tools"} => ~ history'[Len(history')].late)
  BY <1>2
<1> QED  BY <1>3, <1>4, <1>5 DEF Late, LateTurnsGetNothing

LEMMA LateNext ==
  ASSUME Typing, Late, [Next]_vars
  PROVE  Late'
<1>0. /\ history \in Seq(Message) /\ Len(history) \in Nat /\ cancelled \in BOOLEAN
      /\ DOMAIN history = 1 .. Len(history) /\ msg \in Nat
  BY DEF Typing, TypeOK, TurnOK, ControlOK
<1>1. cancelled => cancelled'
  BY DEF Next, Program, Type, Close, CtrlC, Repl, Once, Dash, ReadLine, ReadEnd, Chat,
     ChatFails, Answer, Reply, InCall, BeginCall, StartRun, EndRun, CallFails, ApproveAll,
     AnswerPrompt, PromptAtEnd, RunAgain, Surface, GiveUp, Standing, vars
<1>2. CASE BeginsTurn
  <2>1. history' = Append(history, User(cancelled)) /\ pc' = "chat"
    BY <1>2 DEF BeginsTurn, BeginTurn
  <2>2. User(cancelled) \in Message /\ User(cancelled).late = cancelled
          /\ User(cancelled).role = "user"
    BY <1>0, Messages DEF User, System
  <2> QED  BY <1>1, <2>1, <2>2, LateAppend
<1>3. CASE Answer
  <2>1. PICK k \in 0 .. MaxCalls : history' = Append(history, Assistant(k))
    BY <1>3 DEF Answer
  <2>2. Assistant(k) \in Message /\ Assistant(k).late = FALSE
    BY Messages DEF Assistant, System
  <2>3. ~ history[Len(history)].late
    BY <1>3 DEF Answer, Late
  <2> QED  BY <1>1, <2>1, <2>2, <2>3, LateAppend
<1>4. CASE Reply
  <2>1. history' = Append(history, Tool(msg, answered + 1)) /\ pc = "tools"
    BY <1>4 DEF Reply
  <2>2. Tool(msg, answered + 1) \in Message
    BY <2>1, ReplyMessage
  <2>3. Tool(msg, answered + 1).late = FALSE
    BY DEF Tool, System
  <2>4. ~ history[Len(history)].late
    BY <2>1 DEF Late
  <2> QED  BY <1>1, <2>1, <2>2, <2>3, <2>4, LateAppend
<1>5. CASE /\ UNCHANGED turn
           /\ \/ pc' = pc
              \/ pc # "tools" /\ pc' \in {"read", "exited"}
              \/ pc = "chat" /\ pc' = "sent" /\ ~ cancelled
  <2>1. history' = history
    BY <1>5 DEF turn
  <2>2. \A n \in DOMAIN history' : history'[n].late => cancelled'
    BY <1>1, <2>1 DEF Late
  <2>3. Len(history) \in DOMAIN history
    BY <1>0 DEF Late
  <2>4. ~ cancelled => ~ history[Len(history)].late
    BY <2>3 DEF Late
  <2> QED  BY <1>5, <2>1, <2>2, <2>4 DEF Late, LateTurnsGetNothing
<1> QED  BY <1>2, <1>3, <1>4, <1>5, HistorySteps

\* A prompt entered when the context is done gets no answer and runs no tool.
THEOREM LateTurnsStayEmpty == Spec => []LateTurnsGetNothing
<1>1. Init => Late
  <2> SUFFICES ASSUME Init PROVE Late
    OBVIOUS
  <2>1. Len(history) = 1 /\ DOMAIN history = {1} /\ history[1].late = FALSE /\ pc = "start"
    BY DEF Init, System
  <2> QED  BY <2>1 DEF Late, LateTurnsGetNothing
<1>2. Late /\ Typing /\ [Next]_vars => Late'
  BY LateNext
<1>3. Late => LateTurnsGetNothing
  BY DEF Late
<1> QED  BY <1>1, <1>2, <1>3, TypingHolds, PTL DEF Spec
-----------------------------------------------------------------------------
(* The history that is sent.                                               *)

\* Of each answer of the model all replies follow it, except of the one whose
\* calls are being answered; and a reply follows the answer it belongs to.
FollowsAnswer(n) ==
  LET a == history[n].of[1] IN
  a \in 1 .. n - 1 /\ history[a].role = "assistant" /\ n - a \in 1 .. history[a].calls

Complete ==
  \A n \in DOMAIN history :
    /\ history[n].role = "assistant" => RepliesOf(n) \/ (pc = "tools" /\ n = msg)
    /\ history[n].role = "tool" => FollowsAnswer(n)

\* What has been said stays as it was when a message is appended.
LEMMA SaidStays ==
  ASSUME Typing, NEW m \in Message, history' = Append(history, m), NEW n \in DOMAIN history
  PROVE  /\ history'[n] = history[n]
         /\ RepliesOf(n) => RepliesOf(n)'
         /\ FollowsAnswer(n) => FollowsAnswer(n)'
<1>1. history \in Seq(Message)
  BY DEF Typing, TypeOK, TurnOK
<1>2. /\ Len(history) \in Nat /\ Len(history') = Len(history) + 1
      /\ DOMAIN history = 1 .. Len(history)
      /\ \A i \in DOMAIN history : history'[i] = history[i]
  BY <1>1, Appended
<1>3. history[n].calls \in 0 .. MaxCalls /\ MaxCalls \in Nat /\ n \in Nat
  <2>1. history[n] \in Message
    BY <1>1
  <2> QED  BY <1>2, <2>1, SessionAssumption DEF Message
<1>4. ASSUME RepliesOf(n) PROVE RepliesOf(n)'
  <2>1. n + history[n].calls <= Len(history')
    BY <1>2, <1>3, <1>4 DEF RepliesOf
  <2>2. ASSUME NEW k \in 1 .. history[n].calls PROVE history'[n + k] = Tool(n, k)
    <3>1. n + k \in DOMAIN history
      BY <1>2, <1>3, <1>4 DEF RepliesOf
    <3> QED  BY <1>2, <1>4, <3>1 DEF RepliesOf
  <2> QED  BY <1>2, <2>1, <2>2 DEF RepliesOf
<1>5. ASSUME FollowsAnswer(n) PROVE FollowsAnswer(n)'
  <2> DEFINE a == history[n].of[1]
  <2>1. a \in 1 .. n - 1 /\ history[a].role = "assistant" /\ n - a \in 1 .. history[a].calls
    BY <1>5 DEF FollowsAnswer
  <2>2. a \in DOMAIN history
    BY <1>2, <1>3, <2>1
  <2> QED  BY <1>2, <2>1, <2>2 DEF FollowsAnswer
<1> QED  BY <1>2, <1>4, <1>5

LEMMA CompleteNext ==
  ASSUME Typing, Complete, [Next]_vars
  PROVE  Complete'
<1>0. /\ history \in Seq(Message) /\ Len(history) \in Nat /\ cancelled \in BOOLEAN
      /\ DOMAIN history = 1 .. Len(history) /\ msg \in Nat /\ answered \in Nat
      /\ MaxCalls \in Nat
  BY SessionAssumption DEF Typing, TypeOK, TurnOK, ControlOK
<1>1. CASE BeginsTurn
  <2>1. history' = Append(history, User(cancelled)) /\ pc # "tools"
    BY <1>1 DEF BeginsTurn, BeginTurn, Once, Dash, ReadLine
  <2>2. User(cancelled) \in Message /\ User(cancelled).role = "user"
    BY <1>0, Messages DEF User, System
  <2>3. DOMAIN history' = DOMAIN history \cup {Len(history) + 1}
          /\ history'[Len(history) + 1] = User(cancelled)
    BY <1>0, <2>1, <2>2, Appended
  <2>4. \A n \in DOMAIN history : /\ history'[n] = history[n]
                                  /\ RepliesOf(n) => RepliesOf(n)'
                                  /\ FollowsAnswer(n) => FollowsAnswer(n)'
    BY <2>1, <2>2, SaidStays
  <2> QED  BY <2>1, <2>2, <2>3, <2>4 DEF Complete
<1>2. CASE Answer
  <2>1. PICK k \in 0 .. MaxCalls : /\ history' = Append(history, Assistant(k))
                                   /\ pc' = IF k = 0 THEN AfterTurn ELSE "tools"
    BY <1>2 DEF Answer
  <2>2. msg' = Len(history) + 1 /\ pc = "sent"
    BY <1>2 DEF Answer
  <2>3. /\ Assistant(k) \in Message /\ Assistant(k).role = "assistant"
        /\ Assistant(k).calls = k
    BY Messages DEF Assistant, System
  <2>4. /\ DOMAIN history' = DOMAIN history \cup {Len(history) + 1}
        /\ history'[Len(history) + 1] = Assistant(k)
        /\ Len(history') = Len(history) + 1
    BY <1>0, <2>1, <2>3, Appended
  <2>5. \A n \in DOMAIN history : /\ history'[n] = history[n]
                                  /\ RepliesOf(n) => RepliesOf(n)'
                                  /\ FollowsAnswer(n) => FollowsAnswer(n)'
    BY <2>1, <2>3, SaidStays
  <2>6. ASSUME NEW n, n = Len(history) + 1
        PROVE  RepliesOf(n)' \/ (pc' = "tools" /\ n = msg')
    <3>1. CASE k = 0
      <4>1. history'[n].calls = 0 /\ n <= Len(history')
        BY <1>0, <2>3, <2>4, <2>6, <3>1
      <4> QED  BY <1>0, <2>6, <4>1 DEF RepliesOf
    <3>2. CASE k # 0
      BY <2>1, <2>2, <2>6, <3>2
    <3> QED  BY <3>1, <3>2
  <2> QED  BY <2>2, <2>3, <2>4, <2>5, <2>6 DEF Complete
<1>3. CASE Reply
  <2>1. /\ pc = "tools" /\ history' = Append(history, Tool(msg, answered + 1))
        /\ UNCHANGED msg
        /\ answered + 1 = history[msg].calls \/ pc' = pc
    BY <1>3 DEF Reply
  <2>2. /\ msg \in DOMAIN history /\ history[msg].role = "assistant"
        /\ answered < history[msg].calls /\ Len(history) = msg + answered
        /\ \A k \in 1 .. answered : history[msg + k] = Tool(msg, k)
    BY <2>1 DEF Typing, Shape
  <2>3. history[msg].calls \in 0 .. MaxCalls
    <3>1. history[msg] \in Message
      BY <1>0, <2>2
    <3> QED  BY <3>1 DEF Message
  <2>4. Tool(msg, answered + 1) \in Message
    <3>1. answered + 1 \in 0 .. MaxCalls
      BY <1>0, <2>2, <2>3
    <3> QED  BY <1>0, <3>1, Messages
  <2>5. Tool(msg, answered + 1).role = "tool" /\ Tool(msg, answered + 1).of[1] = msg
    BY DEF Tool, System
  <2>6. /\ DOMAIN history' = DOMAIN history \cup {Len(history) + 1}
        /\ history'[Len(history) + 1] = Tool(msg, answered + 1)
        /\ Len(history') = Len(history) + 1
    BY <1>0, <2>1, <2>4, Appended
  <2>7. \A n \in DOMAIN history : /\ history'[n] = history[n]
                                  /\ RepliesOf(n) => RepliesOf(n)'
                                  /\ FollowsAnswer(n) => FollowsAnswer(n)'
    BY <2>1, <2>4, SaidStays
  <2>8. ASSUME NEW n, n = Len(history) + 1
        PROVE  history'[n].role = "tool" /\ FollowsAnswer(n)'
    <3>1. history'[n].of[1] = msg /\ history'[n].role = "tool"
      BY <2>5, <2>6, <2>8
    <3>2. msg \in 1 .. n - 1 /\ n - msg \in 1 .. history[msg].calls
      BY <1>0, <2>2, <2>3, <2>8
    <3>3. history'[msg] = history[msg]
      BY <2>2, <2>7
    <3> QED  BY <2>2, <3>1, <3>2, <3>3 DEF FollowsAnswer
  <2>9. answered + 1 = history[msg].calls => RepliesOf(msg)'
    <3> SUFFICES ASSUME answered + 1 = history[msg].calls PROVE RepliesOf(msg)'
      OBVIOUS
    <3>1. history'[msg] = history[msg]
      BY <2>2, <2>7
    <3>2. msg + history[msg].calls <= Len(history')
      BY <1>0, <2>2, <2>6
    <3>3. ASSUME NEW k \in 1 .. history[msg].calls PROVE history'[msg + k] = Tool(msg, k)
      <4>1. CASE k \in 1 .. answered
        <5>1. msg + k \in DOMAIN history
          BY <1>0, <2>2, <4>1
        <5> QED  BY <2>2, <2>7, <4>1, <5>1
      <4>2. CASE k = answered + 1
        <5>1. msg + k = Len(history) + 1
          BY <1>0, <2>2, <4>2
        <5> QED  BY <2>6, <4>2, <5>1
      <4> QED  BY <1>0, <4>1, <4>2
    <3> QED  BY <2>1, <3>1, <3>2, <3>3 DEF RepliesOf
  <2> QED  BY <2>1, <2>6, <2>7, <2>8, <2>9 DEF Complete
<1>4. CASE /\ UNCHANGED turn
           /\ \/ pc' = pc
              \/ pc # "tools" /\ pc' \in {"read", "exited"}
              \/ pc = "chat" /\ pc' = "sent" /\ ~ cancelled
  <2>1. UNCHANGED <<history, msg>>
    BY <1>4 DEF turn
  <2> QED  BY <1>4, <2>1 DEF Complete, RepliesOf, FollowsAnswer
<1> QED  BY <1>1, <1>2, <1>3, <1>4, HistorySteps

\* Whatever fails, is cancelled or runs out of steps: outside the answering of one
\* message's calls, every call of the model has its reply, in order.
THEOREM HistoryComplete == Spec => []SentHistoryComplete
<1>1. Init => Complete
  <2> SUFFICES ASSUME Init PROVE Complete
    OBVIOUS
  <2>1. DOMAIN history = {1} /\ history[1].role = "system"
    BY DEF Init, System
  <2> QED  BY <2>1 DEF Complete
<1>2. Complete /\ Typing /\ [Next]_vars => Complete'
  BY CompleteNext
<1>3. Complete => SentHistoryComplete
  BY DEF Complete, SentHistoryComplete, FollowsAnswer
<1> QED  BY <1>1, <1>2, <1>3, TypingHolds, PTL DEF Spec
-----------------------------------------------------------------------------
(* How often the model is heard in a turn.                                 *)

Unbroken(m, n) == \A k \in m .. n : history[k].role # "user"

\* The steps that the turn has begun and in which the model has been heard; after
\* a turn there may have been MaxSteps of them.
Heard == IF pc \in {"chat", "sent"} THEN step
         ELSE IF pc = "tools" THEN step + 1 ELSE MaxSteps

\* The messages since the last prompt of the user have at most one answer of the
\* model for each step.
Counted ==
  /\ StepsBounded
  /\ \A m \in DOMAIN history :
       Unbroken(m, Len(history)) => Cardinality(Answers(m, Len(history))) <= Heard

LEMMA AnswersFinite ==
  ASSUME NEW m \in Nat, NEW n \in Nat
  PROVE  IsFiniteSet(Answers(m, n)) /\ Cardinality(Answers(m, n)) \in Nat
<1>1. IsFiniteSet(m .. n)
  BY FS_Interval
<1>2. Answers(m, n) \in SUBSET (m .. n)
  BY DEF Answers
<1>3. IsFiniteSet(Answers(m, n))
  BY <1>1, <1>2, FS_Subset
<1> QED  BY <1>3, FS_CardinalityType

\* What a message adds to the messages before it.
LEMMA OneMoreMessage ==
  ASSUME Typing, NEW x \in Message, history' = Append(history, x),
         NEW L \in Nat, L = Len(history)
  PROVE  /\ \A m, n \in DOMAIN history :
              Unbroken(m, n)' = Unbroken(m, n) /\ Answers(m, n)' = Answers(m, n)
         /\ \A m \in DOMAIN history' :
              /\ Unbroken(m, L + 1)' <=> (Unbroken(m, L) /\ x.role # "user")
              /\ Answers(m, L + 1)' = Answers(m, L) \cup
                   (IF x.role = "assistant" THEN {L + 1} ELSE {})
<1>1. history \in Seq(Message)
  BY DEF Typing, TypeOK, TurnOK
<1>2. /\ L \in Nat /\ Len(history') = L + 1
      /\ DOMAIN history = 1 .. L /\ DOMAIN history' = 1 .. L + 1
      /\ history'[L + 1] = x
      /\ \A i \in DOMAIN history : history'[i] = history[i]
  BY <1>1, Appended
<1>3. ASSUME NEW m \in DOMAIN history, NEW n \in DOMAIN history
      PROVE  Unbroken(m, n)' = Unbroken(m, n) /\ Answers(m, n)' = Answers(m, n)
  <2>1. \A k \in m .. n : history'[k] = history[k]
    BY <1>2
  <2> QED  BY <2>1 DEF Unbroken, Answers
<1>4. ASSUME NEW m \in DOMAIN history'
      PROVE  /\ Unbroken(m, L + 1)' <=> (Unbroken(m, L) /\ x.role # "user")
             /\ Answers(m, L + 1)' = Answers(m, L) \cup
                  (IF x.role = "assistant" THEN {L + 1} ELSE {})
  <2>1. m .. L + 1 = (m .. L) \cup {L + 1}
    BY <1>2
  <2>2. \A k \in m .. L : history'[k] = history[k]
    BY <1>2
  <2>3. Unbroken(m, L + 1)' <=> \A k \in m .. L + 1 : history'[k].role # "user"
    BY DEF Unbroken
  <2>4. Answers(m, L + 1)' = {k \in m .. L + 1 : history'[k].role = "assistant"}
    BY DEF Answers
  <2> QED  BY <1>2, <2>1, <2>2, <2>3, <2>4 DEF Unbroken, Answers
<1> QED  BY <1>2, <1>3, <1>4

LEMMA CountedAppend ==
  ASSUME Typing, Counted, NEW x \in Message, history' = Append(history, x),
         Heard \in Nat, Heard' \in 0 .. MaxSteps, MaxSteps \in Nat,
         \/ x.role = "user"
         \/ x.role = "assistant" /\ Heard' > Heard
         \/ x.role \notin {"user", "assistant"} /\ Heard' >= Heard
  PROVE  Counted'
<1>1. history \in Seq(Message)
  BY DEF Typing, TypeOK, TurnOK
<1>. PICK L \in Nat : L = Len(history)
  BY <1>1
<1>2. /\ L = Len(history) /\ Len(history') = L + 1
      /\ DOMAIN history = 1 .. L /\ DOMAIN history' = 1 .. L + 1
  BY <1>1, Appended
<1>3. ASSUME NEW m \in DOMAIN history', Unbroken(m, L + 1)'
      PROVE  Cardinality(Answers(m, L + 1)') <= Heard'
  <2>1. /\ Unbroken(m, L) /\ x.role # "user"
        /\ Answers(m, L + 1)' = Answers(m, L) \cup
             (IF x.role = "assistant" THEN {L + 1} ELSE {})
    BY <1>2, <1>3, OneMoreMessage
  <2>0. m \in Nat
    BY <1>2
  <2>2. IsFiniteSet(Answers(m, L)) /\ Cardinality(Answers(m, L)) \in Nat
    BY <2>0, AnswersFinite
  <2>3. Cardinality(Answers(m, L)) <= Heard
    <3>1. CASE m \in DOMAIN history
      BY <2>1, <3>1 DEF Counted
    <3>2. CASE m = L + 1
      <4>1. Answers(m, L) = {}
        BY <1>2, <3>2 DEF Answers
      <4> QED  BY <4>1, FS_EmptySet
    <3> QED  BY <1>2, <3>1, <3>2
  <2>4. CASE x.role = "assistant"
    <3>1. Answers(m, L + 1)' = Answers(m, L) \cup {L + 1} /\ Heard < Heard'
      BY <2>1, <2>4
    <3>2. \/ Cardinality(Answers(m, L) \cup {L + 1}) = Cardinality(Answers(m, L))
          \/ Cardinality(Answers(m, L) \cup {L + 1}) = Cardinality(Answers(m, L)) + 1
      BY <2>2, FS_AddElement
    <3>3. Cardinality(Answers(m, L + 1)') = Cardinality(Answers(m, L) \cup {L + 1})
      BY <3>1, Zenon
    <3>4. /\ Cardinality(Answers(m, L + 1)') <= Cardinality(Answers(m, L)) + 1
          /\ Cardinality(Answers(m, L + 1)') \in Nat
      BY <2>2, <3>2, <3>3
    <3> QED  BY <2>2, <2>3, <3>1, <3>4
  <2>5. CASE x.role # "assistant"
    <3>1. Answers(m, L + 1)' = Answers(m, L) /\ Heard <= Heard'
      BY <2>1, <2>5
    <3> QED  BY <2>2, <2>3, <3>1
  <2> QED  BY <2>4, <2>5
<1>4. ASSUME NEW m \in DOMAIN history', NEW n \in DOMAIN history', Unbroken(m, n)'
      PROVE  Cardinality(Answers(m, n)') <= MaxSteps
  <2>1. CASE n = L + 1
    <3>1. Cardinality(Answers(m, L + 1)') <= Heard'
      BY <1>3, <1>4, <2>1
    <3>2. Cardinality(Answers(m, L + 1)') \in Nat
      <4>1. IsFiniteSet(Answers(m, L)) /\ IsFiniteSet({L + 1}) /\ IsFiniteSet({})
        <5>1. m \in Nat
          BY <1>2
        <5> QED  BY <5>1, AnswersFinite, FS_Singleton, FS_EmptySet
      <4>2. IsFiniteSet(Answers(m, L) \cup (IF x.role = "assistant" THEN {L + 1} ELSE {}))
        BY <4>1, FS_Union
      <4> QED  BY <1>2, <4>2, OneMoreMessage, FS_CardinalityType
    <3> QED  BY <2>1, <3>1, <3>2
  <2>2. CASE m \in DOMAIN history /\ n \in DOMAIN history
    <3>1. Unbroken(m, n) /\ Answers(m, n)' = Answers(m, n)
      BY <1>4, <2>2, OneMoreMessage
    <3> QED  BY <2>2, <3>1 DEF Counted, StepsBounded, Unbroken
  <2>3. CASE m = L + 1 /\ n \in DOMAIN history
    <3>1. Answers(m, n)' = {}
      BY <1>2, <2>3 DEF Answers
    <3> QED  BY <3>1, FS_EmptySet
  <2> QED  BY <1>2, <2>1, <2>2, <2>3
<1> QED  BY <1>2, <1>3, <1>4 DEF Counted, StepsBounded, Unbroken

LEMMA CountedNext ==
  ASSUME Typing, Counted, [Next]_vars
  PROVE  Counted'
<1>0. /\ history \in Seq(Message) /\ Len(history) \in Nat /\ MaxSteps \in Nat \ {0}
      /\ MaxCalls \in Nat /\ step \in 0 .. MaxSteps /\ answered \in Nat /\ msg \in Nat
      /\ DOMAIN history = 1 .. Len(history) /\ cancelled \in BOOLEAN
      /\ pc \in {"chat", "sent", "tools"} => step < MaxSteps
      /\ pc \in {"start", "read", "chat", "sent", "tools", "exited"}
  BY SessionAssumption DEF Typing, TypeOK, TurnOK, ControlOK, Shape
<1>1. Heard \in 0 .. MaxSteps
  BY <1>0 DEF Heard
<1>2. CASE BeginsTurn
  <2>1. history' = Append(history, User(cancelled)) /\ step' = 0 /\ pc' = "chat"
    BY <1>2 DEF BeginsTurn, BeginTurn
  <2>2. User(cancelled) \in Message /\ User(cancelled).role = "user"
    BY <1>0, Messages DEF User, System
  <2>3. Heard' \in 0 .. MaxSteps
    BY <1>0, <2>1 DEF Heard
  <2> QED  BY <1>0, <1>1, <2>1, <2>2, <2>3, CountedAppend
<1>3. CASE Answer
  <2>1. PICK k \in 0 .. MaxCalls : /\ history' = Append(history, Assistant(k))
                                   /\ pc' = IF k = 0 THEN AfterTurn ELSE "tools"
    BY <1>3 DEF Answer
  <2>2. pc = "sent" /\ step' = step
    BY <1>3 DEF Answer
  <2>3. Assistant(k) \in Message /\ Assistant(k).role = "assistant"
    BY Messages DEF Assistant, System
  <2>4. Heard' = Heard + 1 \/ (Heard' = MaxSteps /\ Heard < MaxSteps)
    BY <1>0, <2>1, <2>2 DEF Heard, AfterTurn
  <2>5. Heard \in Nat /\ Heard' \in 0 .. MaxSteps /\ Heard' > Heard
    BY <1>0, <2>1, <2>2 DEF Heard, AfterTurn
  <2> QED  BY <1>0, <2>1, <2>3, <2>5, CountedAppend
<1>4. CASE Reply
  <2>1. /\ pc = "tools" /\ history' = Append(history, Tool(msg, answered + 1))
        /\ \/ step' = step + 1 /\ pc' = IF step' = MaxSteps THEN AfterTurn ELSE "chat"
           \/ UNCHANGED <<step, pc>>
    BY <1>4 DEF Reply
  <2>2. Tool(msg, answered + 1) \in Message /\ Tool(msg, answered + 1).role = "tool"
    BY <2>1, ReplyMessage
  <2>3. Heard' \in 0 .. MaxSteps /\ Heard' >= Heard
    BY <1>0, <2>1 DEF Heard, AfterTurn
  <2> QED  BY <1>0, <1>1, <2>1, <2>2, <2>3, CountedAppend
<1>5. CASE /\ UNCHANGED turn
           /\ \/ pc' = pc
              \/ pc # "tools" /\ pc' \in {"read", "exited"}
              \/ pc = "chat" /\ pc' = "sent" /\ ~ cancelled
  <2>1. history' = history /\ step' = step
    BY <1>5 DEF turn
  <2>2. Heard' \in Nat /\ Heard <= Heard'
    BY <1>0, <1>5, <2>1 DEF Heard
  <2>3. \A m, n : Answers(m, n)' = Answers(m, n) /\ Unbroken(m, n)' = Unbroken(m, n)
    BY <2>1 DEF Answers, Unbroken
  <2>4. \A m \in DOMAIN history : Cardinality(Answers(m, Len(history))) \in Nat
    BY <1>0, AnswersFinite
  <2> QED  BY <1>1, <2>1, <2>2, <2>3, <2>4 DEF Counted, StepsBounded, Unbroken
<1> QED  BY <1>2, <1>3, <1>4, <1>5, HistorySteps

\* maxSteps bounds every turn: between two prompts of the user the model answers at
\* most MaxSteps times, whatever fails or is cancelled on the way.
THEOREM TurnsAreBounded == Spec => []StepsBounded
<1>1. Init => Counted
  <2> SUFFICES ASSUME Init PROVE Counted
    OBVIOUS
  <2>1. DOMAIN history = {1} /\ Len(history) = 1 /\ history[1].role = "system" /\ pc = "start"
    BY DEF Init, System
  <2>2. Answers(1, 1) = {}
    BY <2>1 DEF Answers
  <2>3. Cardinality(Answers(1, 1)) = 0 /\ MaxSteps \in Nat
    BY <2>2, FS_EmptySet, SessionAssumption
  <2> QED  BY <2>1, <2>3 DEF Counted, StepsBounded, Heard
<1>2. Counted /\ Typing /\ [Next]_vars => Counted'
  BY CountedNext
<1>3. Counted => StepsBounded
  BY DEF Counted
<1> QED  BY <1>1, <1>2, <1>3, TypingHolds, PTL DEF Spec

-----------------------------------------------------------------------------
(* A turn gets shorter with every step of the program.                     *)

LeftIsNatural ==
  /\ MaxSteps - step \in Nat /\ PlaceInStep \in Nat /\ CallsLeft \in Nat
  /\ StagesLeft \in Nat /\ asks \in Nat

LEMMA LeftType == Typing => LeftIsNatural
<1> SUFFICES ASSUME Typing PROVE LeftIsNatural
  OBVIOUS
<1>1. /\ step \in 0 .. MaxSteps /\ MaxSteps \in Nat /\ runs \in 0 .. MaxRuns
      /\ MaxRuns \in Nat /\ asks \in Nat
      /\ phase \in {"idle", "due", "running", "judging", "done"}
  BY SessionAssumption DEF Typing, TypeOK, TurnOK, CallOK
<1>2. CallsLeft \in Nat
  <2>1. CASE pc = "tools"
    <3>1. history[msg] \in Message /\ answered \in Nat /\ answered < history[msg].calls
      <4>1. history \in Seq(Message) /\ msg \in DOMAIN history /\ answered \in Nat
        BY <2>1 DEF Typing, TypeOK, TurnOK, Shape
      <4> QED  BY <2>1, <4>1 DEF Typing, Shape
    <3>2. history[msg].calls \in Nat
      BY <3>1, SessionAssumption DEF Message
    <3> QED  BY <2>1, <3>1, <3>2 DEF CallsLeft
  <2>2. CASE pc # "tools"
    BY <2>2 DEF CallsLeft
  <2> QED  BY <2>1, <2>2
<1>3. PlaceInStep \in Nat
  BY DEF PlaceInStep
<1>4. StagesLeft \in Nat
  BY <1>1 DEF StagesLeft
<1> QED  BY <1>1, <1>2, <1>3, <1>4 DEF LeftIsNatural

LEMMA BelowQuintuple ==
  ASSUME NEW a1 \in Nat, NEW a2 \in Nat, NEW a3 \in Nat, NEW a4 \in Nat, NEW a5 \in Nat,
         NEW b1 \in Nat, NEW b2 \in Nat, NEW b3 \in Nat, NEW b4 \in Nat, NEW b5 \in Nat,
         \/ a1 < b1
         \/ a1 = b1 /\ a2 < b2
         \/ a1 = b1 /\ a2 = b2 /\ a3 < b3
         \/ a1 = b1 /\ a2 = b2 /\ a3 = b3 /\ a4 < b4
         \/ a1 = b1 /\ a2 = b2 /\ a3 = b3 /\ a4 = b4 /\ a5 < b5
  PROVE  Below(<<a1, a2, a3, a4, a5>>, <<b1, b2, b3, b4, b5>>)
<1>1. 1 .. 5 = {1, 2, 3, 4, 5}
  OBVIOUS
<1>2. CASE a1 < b1
  BY <1>1, <1>2 DEF Below
<1>3. CASE a1 = b1 /\ a2 < b2
  BY <1>1, <1>3 DEF Below
<1>4. CASE a1 = b1 /\ a2 = b2 /\ a3 < b3
  BY <1>1, <1>4 DEF Below
<1>5. CASE a1 = b1 /\ a2 = b2 /\ a3 = b3 /\ a4 < b4
  BY <1>1, <1>5 DEF Below
<1>6. CASE a1 = b1 /\ a2 = b2 /\ a3 = b3 /\ a4 = b4 /\ a5 < b5
  BY <1>1, <1>6 DEF Below
<1> QED  BY <1>2, <1>3, <1>4, <1>5, <1>6

\* What a step of the program does within a turn.
LEMMA StepsShorten ==
  ASSUME Typing, Program, InTurn, InTurn'
  PROVE  \/ step < step'
         \/ step' = step /\ PlaceInStep' < PlaceInStep
         \/ step' = step /\ PlaceInStep' = PlaceInStep /\ CallsLeft' < CallsLeft
         \/ step' = step /\ PlaceInStep' = PlaceInStep /\ CallsLeft' = CallsLeft
              /\ StagesLeft' < StagesLeft
         \/ step' = step /\ PlaceInStep' = PlaceInStep /\ CallsLeft' = CallsLeft
              /\ StagesLeft' = StagesLeft /\ asks' < asks
<1>0. /\ step \in 0 .. MaxSteps /\ MaxSteps \in Nat /\ runs \in 0 .. MaxRuns
      /\ MaxRuns \in Nat /\ asks \in Nat /\ answered \in Nat
      /\ history \in Seq(Message) /\ MaxCalls \in Nat
  BY SessionAssumption DEF Typing, TypeOK, TurnOK, CallOK
<1>1. CASE Chat \/ ChatFails \/ Answer
  <2>1. step' = step
    BY <1>1 DEF Chat, ChatFails, Answer, turn
  <2>2. \/ pc = "chat" /\ pc' = "sent"
        \/ pc = "sent" /\ pc' = "tools"
    BY <1>1 DEF Chat, ChatFails, Answer, AfterTurn, InTurn
  <2> QED  BY <2>1, <2>2 DEF PlaceInStep
<1>2. CASE BeginCall \/ StartRun \/ EndRun \/ CallFails \/ RunAgain \/ Surface \/ GiveUp
  <2>1. pc = "tools" /\ pc' = pc /\ UNCHANGED turn
    BY <1>2 DEF InCall, BeginCall, StartRun, EndRun, CallFails, RunAgain, Surface, GiveUp
  <2>2. step' = step /\ PlaceInStep' = PlaceInStep /\ CallsLeft' = CallsLeft
    BY <2>1 DEF turn, PlaceInStep, CallsLeft
  <2>3. \/ phase = "idle" /\ phase' = "due" /\ runs' = runs
        \/ phase = "due" /\ phase' = "running" /\ runs' = runs + 1
        \/ phase = "running" /\ phase' = "judging" /\ runs' = runs
        \/ phase = "judging" /\ phase' = "due" /\ runs' = runs
        \/ phase \in {"idle", "due", "running", "judging"} /\ phase' = "done"
    BY <1>2
    DEF BeginCall, StartRun, EndRun, CallFails, RunAgain, Surface, GiveUp, Loop!Begin,
        Loop!StartRun, Loop!EndRun, Loop!Fail, Loop!RunAgain, Loop!Surface, Loop!GiveUp,
        Loop!Stop
  <2>4. StagesLeft' < StagesLeft
    <3>1. CASE phase = "idle" /\ phase' = "due" /\ runs' = runs
      BY <1>0, <3>1 DEF StagesLeft
    <3>2. CASE phase = "due" /\ phase' = "running" /\ runs' = runs + 1
      BY <1>0, <3>2 DEF StagesLeft
    <3>3. CASE phase = "running" /\ phase' = "judging" /\ runs' = runs
      BY <1>0, <3>3 DEF StagesLeft
    <3>4. CASE phase = "judging" /\ phase' = "due" /\ runs' = runs
      BY <1>0, <3>4 DEF StagesLeft
    <3>5. CASE phase \in {"idle", "due", "running", "judging"} /\ phase' = "done"
      <4>1. StagesLeft' = 0
        BY <3>5 DEF StagesLeft
      <4>2. 3 * MaxRuns \in Nat /\ 3 * (MaxRuns - runs) \in Nat
        BY <1>0
      <4>3. StagesLeft > 0
        BY <3>5, <4>2 DEF StagesLeft
      <4> QED  BY <4>1, <4>3
    <3> QED  BY <2>3, <3>1, <3>2, <3>3, <3>4, <3>5
  <2> QED  BY <2>2, <2>4
<1>3. CASE ApproveAll \/ AnswerPrompt \/ PromptAtEnd
  <2>1. pc = "tools" /\ pc' = pc /\ UNCHANGED turn /\ asks > 0 /\ asks' = asks - 1
    BY <1>3 DEF InCall, ApproveAll, AnswerPrompt, PromptAtEnd
  <2>2. phase' = phase /\ runs' = runs
    BY <1>3 DEF ApproveAll, AnswerPrompt, PromptAtEnd, Loop!Consent, call
  <2>3. /\ step' = step /\ PlaceInStep' = PlaceInStep /\ CallsLeft' = CallsLeft
        /\ StagesLeft' = StagesLeft
    BY <2>1, <2>2 DEF turn, PlaceInStep, CallsLeft, StagesLeft
  <2> QED  BY <1>0, <2>1, <2>3
<1>4. CASE Reply
  <2>1. CASE answered' = history[msg].calls
    BY <1>0, <1>4, <2>1 DEF Reply
  <2>2. CASE answered' # history[msg].calls
    <3>1. /\ pc = "tools" /\ pc' = pc /\ step' = step /\ msg' = msg
          /\ answered' = answered + 1 /\ history' = Append(history, Tool(msg, answered + 1))
      BY <1>4, <2>2 DEF Reply
    <3>2. msg \in DOMAIN history /\ history[msg].calls \in Nat
      <4>1. msg \in DOMAIN history
        BY <3>1 DEF Typing, Shape
      <4>2. history[msg] \in Message
        BY <1>0, <4>1
      <4> QED  BY <1>0, <4>1, <4>2 DEF Message
    <3>3. history'[msg] = history[msg]
      BY <1>0, <3>1, <3>2, ReplyMessage, Appended
    <3>4. CallsLeft' < CallsLeft
      BY <1>0, <3>1, <3>2, <3>3 DEF CallsLeft
    <3> QED  BY <3>1, <3>4 DEF PlaceInStep
  <2> QED  BY <2>1, <2>2
<1> QED
  BY <1>1, <1>2, <1>3, <1>4
  DEF Program, InTurn, Repl, Once, Dash, ReadLine, ReadEnd

LEMMA WorldKeeps ==
  ASSUME [Next]_vars, ~ Program
  PROVE  Left' = Left
<1>1. pc' = pc /\ asks' = asks /\ UNCHANGED turn /\ UNCHANGED call
  BY DEF Next, vars, Type, Close, CtrlC
<1> QED
  BY <1>1 DEF Left, PlaceInStep, CallsLeft, StagesLeft, turn, call

LEMMA FewerLeft ==
  ASSUME NEW a \in Nat, NEW b \in Nat, NEW n \in Nat, a < b
  PROVE  n - b < n - a
OBVIOUS

\* For every bound on steps, calls, runs and denials: each step of the program leaves
\* less of the turn to do, and nothing the user does leaves more.
THEOREM TurnsGetShorter == Spec => TurnGetsShorter
<1>1. ASSUME Typing, LeftIsNatural, LeftIsNatural', Typing', [Next]_vars, InTurn, InTurn'
      PROVE  /\ Left' \in Nat \X Nat \X Nat \X Nat \X Nat
             /\ IF Program THEN Below(Left', Left) ELSE Left' = Left
  <2>1. /\ MaxSteps - step \in Nat /\ PlaceInStep \in Nat /\ CallsLeft \in Nat
        /\ StagesLeft \in Nat /\ asks \in Nat
        /\ MaxSteps - step' \in Nat /\ PlaceInStep' \in Nat /\ CallsLeft' \in Nat
        /\ StagesLeft' \in Nat /\ asks' \in Nat
    BY <1>1 DEF LeftIsNatural
  <2>2. Left' \in Nat \X Nat \X Nat \X Nat \X Nat
    BY <2>1 DEF Left
  <2>3. CASE Program
    <3>1. step \in Nat /\ step' \in Nat /\ MaxSteps \in Nat
      BY <1>1, SessionAssumption DEF Typing, TypeOK, TurnOK
    <3>2. CASE step < step'
      <4>1. MaxSteps - step' < MaxSteps - step
        BY <3>1, <3>2, FewerLeft
      <4>2. Below(<<MaxSteps - step', PlaceInStep', CallsLeft', StagesLeft', asks'>>,
                  <<MaxSteps - step, PlaceInStep, CallsLeft, StagesLeft, asks>>)
        BY <2>1, <4>1, BelowQuintuple
      <4> QED  BY <2>2, <2>3, <4>2 DEF Left
    <3>3. CASE step' = step
      <4>1. MaxSteps - step' = MaxSteps - step /\ ~ (step < step')
        BY <3>1, <3>3
      <4>2. \/ PlaceInStep' < PlaceInStep
            \/ PlaceInStep' = PlaceInStep /\ CallsLeft' < CallsLeft
            \/ PlaceInStep' = PlaceInStep /\ CallsLeft' = CallsLeft
                 /\ StagesLeft' < StagesLeft
            \/ PlaceInStep' = PlaceInStep /\ CallsLeft' = CallsLeft
                 /\ StagesLeft' = StagesLeft /\ asks' < asks
        BY <1>1, <2>3, <4>1, StepsShorten, Zenon
      <4>3. Below(<<MaxSteps - step', PlaceInStep', CallsLeft', StagesLeft', asks'>>,
                  <<MaxSteps - step, PlaceInStep, CallsLeft, StagesLeft, asks>>)
        BY <2>1, <4>1, <4>2, BelowQuintuple
      <4> QED  BY <2>2, <2>3, <4>3 DEF Left
    <3> QED  BY <1>1, <2>3, <3>2, <3>3, StepsShorten
  <2>4. CASE ~ Program
    BY <1>1, <2>2, <2>4, WorldKeeps
  <2> QED  BY <2>2, <2>3, <2>4
<1>2. Typing /\ LeftIsNatural /\ LeftIsNatural' /\ Typing' /\ [Next]_vars =>
        [InTurn /\ InTurn' =>
           /\ Left' \in Nat \X Nat \X Nat \X Nat \X Nat
           /\ IF Program THEN Below(Left', Left) ELSE Left' = Left]_vars
  BY <1>1
<1> QED
  BY <1>2, TypingHolds, LeftType, PTL DEF Spec, TurnGetsShorter
=============================================================================
