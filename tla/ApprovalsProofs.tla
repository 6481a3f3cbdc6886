--------------------------- MODULE ApprovalsProofs ---------------------------
(***************************************************************************)
(* Theorems of Approvals: the prompt stays locked while a turn runs, no     *)
(* call runs that asked for approval and did not get it from the user,      *)
(* every request is decided once, and the status line tells the truth.      *)
(***************************************************************************)
EXTENDS Approvals, TLAPS

Unseen(type) == {i \in seen + 1..Len(log) : log[i].type = type}

\* The end of a turn that the user interface has not read yet: then the turn is over, the prompt
\* still locked, and no other end is on its way.
LockInv ==
  /\ InputLocked
  /\ Unseen("turn_finished") # {} => turn = "none" /\ ~prompt
  /\ \A i, j \in Unseen("turn_finished") : i = j

IInv == TypeOK /\ LockInv

\* Calls are numbered as they come: none in the log, in a dialog or answered is later than call.
CallsSoFar ==
  /\ \A i \in 1..Len(log) : log[i].call <= call
  /\ \A c \in call + 1..MaxCalls : clicks[c] = "none"
  /\ request <= call

\* A call asks once, and nobody has answered before its dialog is shown.
Asked(i) == log[i].type = "approval_requested"
AskedOnce ==
  /\ \A i \in 1..Len(log) : Asked(i) => log[i].call >= 1
  /\ \A i, j \in 1..Len(log) : Asked(i) /\ Asked(j) /\ log[i].call = log[j].call => i = j
  /\ \A i \in Unseen("approval_requested") : clicks[log[i].call] = "none"

\* The dialog and what became of it.
Dialog ==
  /\ worker \in {"asking", "approved", "rejected"} =>
       request >= 1 /\ \A i \in Unseen("approval_requested") : log[i].call # request
  /\ worker = "asking" => clicks[request] = "none"
  /\ worker \in {"approved", "rejected"} => clicks[request] = worker
  /\ future = "approved" => clicks[call] = "approved"
  /\ turn = "review" => call >= 1

ApprovedInv == CallsSoFar /\ AskedOnce /\ Dialog /\ OnlyApprovedRun

\* The turn is in review while the last event is the request, and only then; a refusal is never
\* the last event.
LatestIs(type) == log # <<>> /\ log[Len(log)].type = type
ReviewInv ==
  /\ turn = "review" <=> LatestIs("approval_requested")
  /\ turn = "review" => log[Len(log)].call = call
  /\ LatestIs("approval_decided") => log[Len(log)].approved

DecidedInv == ReviewInv /\ RequestsDecided

\* Until the shutdown: an abort is the last thing the log tells, so is the end of a turn the
\* worker has not seen, and a turn is over if and only if the log ends with its end.
Closing(i) == log[i].type \in {"turn_finished", "turn_aborted"}
TurnLog ==
  /\ \A i \in 1..Len(log) : log[i].type # "session_closed"
  /\ \A i \in 1..Len(log) : log[i].type = "turn_aborted" => i = Len(log) /\ ~prompt
  /\ \A i \in Unseen("turn_finished") : i = Len(log)
  /\ turn = "none" <=> (log = <<>> \/ Closing(Len(log)))

StatusInv ==
  /\ app = "running" => TurnLog
  /\ app = "running" /\ worker = "reading" /\ turn # "none" => status = "running"
  /\ StatusFollowsLog

-----------------------------------------------------------------------------
(* Types *)

LEMMA EventsTyped ==
  ASSUME NEW type \in EventTypes, NEW c \in 0..MaxCalls, NEW approved \in BOOLEAN
  PROVE  Event(type, c, approved) \in Events
  BY DEF Event, Events

\* Appending one event, or the two of a refusal, leaves what was logged in place.
LEMMA AppendOne ==
  ASSUME NEW s \in Seq(Events), NEW e \in Events
  PROVE  /\ Append(s, e) \in Seq(Events) /\ Len(Append(s, e)) = Len(s) + 1
         /\ \A i \in 1..Len(s) : Append(s, e)[i] = s[i]
         /\ Append(s, e)[Len(s) + 1] = e
  OBVIOUS

LEMMA AppendTwo ==
  ASSUME NEW s \in Seq(Events), NEW e \in Events, NEW f \in Events
  PROVE  /\ s \o <<e, f>> \in Seq(Events) /\ Len(s \o <<e, f>>) = Len(s) + 2
         /\ \A i \in 1..Len(s) : (s \o <<e, f>>)[i] = s[i]
         /\ (s \o <<e, f>>)[Len(s) + 1] = e /\ (s \o <<e, f>>)[Len(s) + 2] = f
  <1>1. <<e, f>> \in Seq(Events) /\ Len(<<e, f>>) = 2
    OBVIOUS
  <1> QED
    BY <1>1

\* log' is log with the new event e behind it.
Extends(e) ==
  /\ log' \in Seq(Events) /\ seen \in 0..Len(log') /\ Len(log') = Len(log) + 1
  /\ \A i \in 1..Len(log) : log'[i] = log[i]
  /\ log'[Len(log) + 1] = e

LEMMA Extended ==
  ASSUME TypeOK, NEW type \in EventTypes, NEW c \in 0..MaxCalls, NEW approved \in BOOLEAN,
         log' = Append(log, Event(type, c, approved))
  PROVE  Extends(Event(type, c, approved))
  <1>1. Event(type, c, approved) \in Events
    BY EventsTyped
  <1>2. log \in Seq(Events) /\ seen \in 0..Len(log)
    BY DEF TypeOK
  <1> HIDE DEF Event
  <1> QED
    BY <1>1, <1>2, AppendOne DEF Extends

LEMMA EmitTyped ==
  ASSUME TypeOK, NEW type \in EventTypes, Emit(type)
  PROVE  log' \in Seq(Events) /\ seen \in 0..Len(log')
  <1>1. call \in 0..MaxCalls
    BY DEF TypeOK
  <1> QED
    BY <1>1, Extended DEF Emit, Extends

LEMMA Refused ==
  ASSUME TypeOK, log' = log \o Refusal
  PROVE  /\ log' \in Seq(Events) /\ seen \in 0..Len(log') /\ Len(log') = Len(log) + 2
         /\ \A i \in 1..Len(log) : log'[i] = log[i]
         /\ log'[Len(log) + 1] = Event("approval_decided", call, FALSE)
         /\ log'[Len(log) + 2] = Event("tool_call_finished", call, FALSE)
  <1> DEFINE decided == Event("approval_decided", call, FALSE)
             finished == Event("tool_call_finished", call, FALSE)
  <1>1. call \in 0..MaxCalls /\ log \in Seq(Events) /\ seen \in 0..Len(log)
    BY DEF TypeOK
  <1>2. decided \in Events /\ finished \in Events
    BY <1>1, EventsTyped DEF EventTypes
  <1>3. log' = log \o <<decided, finished>>
    BY DEF Refusal
  <1> HIDE DEF decided, finished
  <1>4. /\ log' \in Seq(Events) /\ Len(log') = Len(log) + 2
        /\ \A i \in 1..Len(log) : log'[i] = log[i]
        /\ log'[Len(log) + 1] = decided /\ log'[Len(log) + 2] = finished
    BY <1>1, <1>2, <1>3, AppendTwo
  <1> QED
    BY <1>1, <1>4 DEF decided, finished

LEMMA EndTurnTyped ==
  ASSUME TypeOK, NEW type \in EventTypes, EndTurn(type), UNCHANGED <<uiVars, clicks, app, turns>>
  PROVE  TypeOK'
  <1>1. log' \in Seq(Events) /\ seen \in 0..Len(log')
    BY EmitTyped DEF EndTurn
  <1> QED
    BY <1>1 DEF TypeOK, EndTurn, uiVars

LEMMA TypeStep ==
  ASSUME TypeOK, InputLocked, [Next]_vars
  PROVE  TypeOK'
  <1> USE ApprovalsAssumption
  <1>1. CASE ModelEnds
    BY <1>1, EndTurnTyped DEF ModelEnds, EventTypes
  <1>2. CASE RunTool
    <2>1. call' \in 0..MaxCalls
      BY <1>2 DEF RunTool, TypeOK
    <2>2. log' \in Seq(Events) /\ seen \in 0..Len(log')
      BY <1>2, <2>1, Extended DEF RunTool, EventTypes, Extends, TypeOK
    <2> QED
      BY <1>2, <2>1, <2>2 DEF RunTool, TypeOK, uiVars
  <1>3. CASE ReviewEnds
    <2>1. CASE EndTurn("turn_aborted")
      BY <1>3, <2>1, EndTurnTyped DEF ReviewEnds, EventTypes
    <2>2. CASE log' = Append(log, Event("approval_decided", call, TRUE)) /\ turn' = "tool"
               /\ future' = "none" /\ cancels' = {} /\ call' = call
      <3>1. log' \in Seq(Events) /\ seen \in 0..Len(log')
        BY <2>2, Extended DEF EventTypes, Extends, TypeOK
      <3> QED
        BY <1>3, <2>2, <3>1 DEF ReviewEnds, TypeOK, uiVars
    <2>3. CASE log' = log \o Refusal /\ turn' = "model"
               /\ future' = "none" /\ cancels' = {} /\ call' = call
      <3>1. log' \in Seq(Events) /\ seen \in 0..Len(log')
        BY <2>3, Refused
      <3> QED
        BY <1>3, <2>3, <3>1 DEF ReviewEnds, TypeOK, uiVars
    <2> QED
      BY <1>3, <2>1, <2>2, <2>3 DEF ReviewEnds
  <1>4. CASE ToolEnds
    <2>1. log' \in Seq(Events) /\ seen \in 0..Len(log')
      BY <1>4, EmitTyped DEF ToolEnds, EventTypes, TypeOK
    <2> QED
      BY <1>4, <2>1 DEF ToolEnds, TypeOK, uiVars
  <1>5. CASE ObserversEnd
    <2>1. log' \in Seq(Events) /\ seen \in 0..Len(log')
      BY <1>5, EmitTyped DEF ObserversEnd, EventTypes, TypeOK
    <2> QED
      BY <1>5, <2>1 DEF ObserversEnd, TypeOK, uiVars
  <1>6. CASE CancelEnds
    BY <1>6, EndTurnTyped DEF CancelEnds, EventTypes
  <1>7. CASE ApprovalDeadline
    BY <1>7 DEF ApprovalDeadline, Cancel, TypeOK, uiVars
  <1>8. CASE TurnDeadline
    BY <1>8 DEF TurnDeadline, Cancel, TypeOK, uiVars
  <1>9. CASE SubmitMessage
    <2>1. log' \in Seq(Events) /\ seen \in 0..Len(log')
      BY <1>9, EmitTyped DEF SubmitMessage, EventTypes
    <2>2. prompt = TRUE
      BY <1>9 DEF SubmitMessage, TypeOK
    <2>3. turn = "none"
      BY <2>2 DEF InputLocked
    <2>4. turns' \in 0..MaxTurns
      BY <1>9 DEF SubmitMessage, TypeOK
    <2>5. future' = "none" <=> turn' # "review"
      BY <1>9, <2>3 DEF SubmitMessage, TypeOK
    <2> QED
      BY <1>9, <2>1, <2>4, <2>5 DEF SubmitMessage, TypeOK
  <1>10. CASE HandleEvent
    <2> DEFINE event == log[seen + 1]
    <2>1. event \in Events /\ seen' \in 0..Len(log)
      BY <1>10 DEF HandleEvent, TypeOK
    <2>2. event.call \in 0..MaxCalls
      BY <2>1 DEF Events
    <2>3. prompt' \in BOOLEAN
      BY <1>10 DEF HandleEvent
    <2>4. status' \in {"idle", "running", "approval", "aborted", "closed"}
      BY <1>10 DEF HandleEvent, TypeOK
    <2>5. worker' \in {"asking", "ended", "reading"}
      BY <1>10 DEF HandleEvent
    <2>6. request' \in 0..MaxCalls
      BY <1>10, <2>2 DEF HandleEvent
    <2> QED
      BY <1>10, <2>1, <2>3, <2>4, <2>5, <2>6 DEF HandleEvent, TypeOK, runnerVars
  <1>11. CASE UserAnswers
    BY <1>11 DEF UserAnswers, TypeOK, runnerVars
  <1>12. CASE SubmitDecision
    BY <1>12 DEF SubmitDecision, Accepts, StatusAfterDecision, TypeOK
  <1>13. CASE Shutdown
    BY <1>13 DEF Shutdown, TypeOK, uiVars
  <1>14. CASE SessionCloses
    <2>1. log' \in Seq(Events) /\ seen \in 0..Len(log')
      BY <1>14, EmitTyped DEF SessionCloses, EventTypes
    <2> QED
      BY <1>14, <2>1 DEF SessionCloses, TypeOK, uiVars
  <1>15. CASE Exit
    BY <1>15 DEF Exit, Cancel, TypeOK, uiVars
  <1>16. CASE UNCHANGED vars
    BY <1>16 DEF vars, TypeOK
  <1> QED
    BY <1>1, <1>2, <1>3, <1>4, <1>5, <1>6, <1>7, <1>8, <1>9, <1>10, <1>11, <1>12, <1>13,
       <1>14, <1>15, <1>16 DEF Next

-----------------------------------------------------------------------------
(* The prompt *)

\* A step that adds to the log keeps the lock if it neither ends a turn nor starts one.
LEMMA LockKept ==
  ASSUME IInv, log' \in Seq(Events), Len(log) <= Len(log'),
         \A i \in 1..Len(log) : log'[i] = log[i],
         \A i \in Len(log) + 1..Len(log') : log'[i].type # "turn_finished",
         seen' = seen, prompt' = prompt, turn = "none" => turn' = "none"
  PROVE  LockInv'
  <1>1. Unseen("turn_finished")' = Unseen("turn_finished")
    BY DEF Unseen, IInv, TypeOK
  <1> QED
    BY <1>1 DEF IInv, LockInv, InputLocked

LEMMA LockKeptByEvent ==
  ASSUME IInv, NEW type \in EventTypes \ {"turn_finished"}, NEW c \in 0..MaxCalls,
         NEW approved \in BOOLEAN, log' = Append(log, Event(type, c, approved)),
         seen' = seen, prompt' = prompt, turn = "none" => turn' = "none"
  PROVE  LockInv'
  <1>1. Extends(Event(type, c, approved))
    BY Extended DEF IInv
  <1>2. \A i \in Len(log) + 1..Len(log') : log'[i].type # "turn_finished"
    BY <1>1 DEF Extends, Event, IInv, TypeOK
  <1> QED
    BY <1>1, <1>2, LockKept DEF Extends, IInv, TypeOK

LEMMA LockStep ==
  ASSUME IInv, [Next]_vars
  PROVE  LockInv'
  <1> USE ApprovalsAssumption
  <1>1. CASE ModelEnds
    <2>1. CASE EndTurn("turn_finished")
      <3>1. Extends(Event("turn_finished", call, FALSE))
        BY <2>1, Extended DEF EndTurn, Emit, EventTypes, IInv, TypeOK
      <3>2. Unseen("turn_finished") = {}
        BY <1>1 DEF ModelEnds, IInv, LockInv
      <3>3. \A i \in Unseen("turn_finished")' : i = Len(log) + 1
        BY <1>1, <3>1, <3>2 DEF Unseen, Extends, ModelEnds, uiVars, IInv, TypeOK
      <3>4. prompt' = FALSE
        BY <1>1 DEF ModelEnds, uiVars, IInv, LockInv, InputLocked, TypeOK
      <3> QED
        BY <2>1, <3>3, <3>4 DEF EndTurn, LockInv, InputLocked
    <2>2. CASE EndTurn("turn_aborted")
      BY <1>1, <2>2, LockKeptByEvent DEF EndTurn, Emit, ModelEnds, uiVars, EventTypes, IInv, TypeOK
    <2> QED
      BY <1>1, <2>1, <2>2 DEF ModelEnds
  <1>2. CASE RunTool
    <2>1. call' \in 0..MaxCalls
      BY <1>2 DEF RunTool, IInv, TypeOK
    <2>2. CASE log' = log
      BY <1>2, <2>2, LockKept DEF RunTool, uiVars, IInv, TypeOK
    <2>3. CASE log' = Append(log, Event("tool_call_finished", call', FALSE))
      BY <1>2, <2>1, <2>3, LockKeptByEvent DEF RunTool, uiVars, EventTypes
    <2>4. CASE log' = Append(log, Event("approval_requested", call', FALSE))
      BY <1>2, <2>1, <2>4, LockKeptByEvent DEF RunTool, uiVars, EventTypes
    <2> QED
      BY <1>2, <2>2, <2>3, <2>4 DEF RunTool
  <1>3. CASE ReviewEnds
    <2>1. turn # "none" /\ seen' = seen /\ prompt' = prompt
      BY <1>3 DEF ReviewEnds, uiVars
    <2>2. CASE EndTurn("turn_aborted")
      BY <2>1, <2>2, LockKeptByEvent DEF EndTurn, Emit, EventTypes, IInv, TypeOK
    <2>3. CASE log' = Append(log, Event("approval_decided", call, TRUE))
      BY <2>1, <2>3, LockKeptByEvent DEF EventTypes, IInv, TypeOK
    <2>4. CASE log' = log \o Refusal
      <3>1. /\ log' \in Seq(Events) /\ Len(log') = Len(log) + 2 /\ Len(log) \in Nat
            /\ \A i \in 1..Len(log) : log'[i] = log[i]
            /\ log'[Len(log) + 1].type = "approval_decided"
            /\ log'[Len(log) + 2].type = "tool_call_finished"
        BY <2>4, Refused DEF Event, IInv, TypeOK
      <3>2. \A i \in Len(log) + 1..Len(log') : log'[i].type # "turn_finished"
        BY <3>1
      <3> QED
        BY <2>1, <3>1, <3>2, LockKept
    <2> QED
      BY <1>3, <2>2, <2>3, <2>4 DEF ReviewEnds
  <1>4. CASE ToolEnds
    <2>1. CASE log' = log
      BY <1>4, <2>1, LockKept DEF ToolEnds, uiVars, IInv, TypeOK
    <2>2. CASE Emit("tool_call_finished")
      BY <1>4, <2>2, LockKeptByEvent DEF ToolEnds, Emit, uiVars, EventTypes, IInv, TypeOK
    <2> QED
      BY <1>4, <2>1, <2>2 DEF ToolEnds
  <1>5. CASE ObserversEnd
    BY <1>5, LockKeptByEvent DEF ObserversEnd, Emit, uiVars, EventTypes, IInv, TypeOK
  <1>6. CASE CancelEnds
    BY <1>6, LockKeptByEvent DEF CancelEnds, EndTurn, Emit, uiVars, EventTypes, IInv, TypeOK
  <1>7. CASE ApprovalDeadline
    BY <1>7, LockKept DEF ApprovalDeadline, uiVars, IInv, TypeOK
  <1>8. CASE TurnDeadline
    BY <1>8, LockKept DEF TurnDeadline, uiVars, IInv, TypeOK
  <1>9. CASE SubmitMessage
    <2>1. Extends(Event("turn_started", call, FALSE))
      BY <1>9, Extended DEF SubmitMessage, Emit, EventTypes, IInv, TypeOK
    <2>2. prompt = TRUE
      BY <1>9 DEF SubmitMessage, IInv, TypeOK
    <2>3. Unseen("turn_finished") = {}
      BY <2>2 DEF IInv, LockInv
    <2>4. Unseen("turn_finished")' = {}
      BY <1>9, <2>1, <2>3 DEF Unseen, Extends, Event, SubmitMessage, IInv, TypeOK
    <2> QED
      BY <1>9, <2>4 DEF SubmitMessage, LockInv, InputLocked
  <1>10. CASE HandleEvent
    <2>1. Unseen("turn_finished")' \subseteq Unseen("turn_finished")
          /\ turn' = turn /\ seen + 1 \notin Unseen("turn_finished")'
      BY <1>10 DEF HandleEvent, runnerVars, Unseen, IInv, TypeOK
    <2>2. CASE log[seen + 1].type = "turn_finished"
      <3>1. seen + 1 \in Unseen("turn_finished")
        BY <1>10, <2>2 DEF HandleEvent, Unseen, IInv, TypeOK
      <3>2. turn = "none" /\ Unseen("turn_finished")' = {}
        BY <2>1, <3>1 DEF IInv, LockInv
      <3> QED
        BY <2>1, <3>2 DEF LockInv, InputLocked
    <2>3. CASE log[seen + 1].type # "turn_finished"
      <3>1. prompt' => prompt
        BY <1>10, <2>3 DEF HandleEvent, Unlocks
      <3> QED
        BY <2>1, <3>1 DEF IInv, LockInv, InputLocked
    <2> QED
      BY <2>2, <2>3
  <1>11. CASE UserAnswers
    BY <1>11, LockKept DEF UserAnswers, runnerVars, IInv, TypeOK
  <1>12. CASE SubmitDecision
    BY <1>12, LockKept DEF SubmitDecision, IInv, TypeOK
  <1>13. CASE Shutdown
    BY <1>13, LockKept DEF Shutdown, uiVars, IInv, TypeOK
  <1>14. CASE SessionCloses
    BY <1>14, LockKeptByEvent DEF SessionCloses, Emit, uiVars, EventTypes, IInv, TypeOK
  <1>15. CASE Exit
    BY <1>15, LockKept DEF Exit, uiVars, IInv, TypeOK
  <1>16. CASE UNCHANGED vars
    BY <1>16, LockKept DEF vars, IInv, TypeOK
  <1> QED
    BY <1>1, <1>2, <1>3, <1>4, <1>5, <1>6, <1>7, <1>8, <1>9, <1>10, <1>11, <1>12, <1>13,
       <1>14, <1>15, <1>16 DEF Next

\* Every reachable state is typed, and the lock invariant holds in it.
LEMMA Invariant == Spec => []IInv
  <1>1. Init => IInv
    <2> SUFFICES ASSUME Init PROVE IInv
      OBVIOUS
    <2> USE ApprovalsAssumption
    <2>1. TypeOK
      BY DEF Init, TypeOK
    <2>2. LockInv
      BY DEF Init, LockInv, InputLocked, Unseen
    <2> QED
      BY <2>1, <2>2 DEF IInv
  <1>2. IInv /\ [Next]_vars => IInv'
    BY TypeStep, LockStep DEF IInv, LockInv
  <1> QED
    BY <1>1, <1>2, PTL DEF Spec

\* Every reachable state is well typed, for any number of turns and calls; in particular a request
\* is pending exactly while the turn waits for its decision.
THEOREM TypeCorrect == Spec => []TypeOK
  BY Invariant, PTL DEF IInv

\* The prompt of the terminal UI is never open while a turn runs.
THEOREM PromptLocked == Spec => []InputLocked
  <1>1. IInv => InputLocked
    BY DEF IInv, LockInv
  <1> QED
    BY <1>1, Invariant, PTL

-----------------------------------------------------------------------------
(* Approval *)

\* Events that neither ask nor approve change nothing as long as no call starts to run.
LEMMA ApprovedKept ==
  ASSUME TypeOK, ApprovedInv, log' \in Seq(Events), Len(log) <= Len(log'),
         \A i \in 1..Len(log) : log'[i] = log[i],
         \A i \in Len(log) + 1..Len(log') :
           log'[i].call <= call /\ log'[i].type # "approval_requested"
           /\ log'[i] # Event("approval_decided", log'[i].call, TRUE),
         UNCHANGED <<seen, call, clicks, request, worker>>,
         future' = "approved" => future = "approved",
         turn' = "review" => turn = "review",
         turn' \in {"tool", "observe"} => turn \in {"tool", "observe"}
  PROVE  ApprovedInv'
  <1>0. /\ Len(log) \in Nat /\ Len(log') \in Nat /\ seen \in 0..Len(log) /\ seen' = seen
        /\ call' = call /\ clicks' = clicks /\ request' = request /\ worker' = worker
        /\ call \in Nat
        /\ \A i \in 1..Len(log') : i \in 1..Len(log) \/ i \in Len(log) + 1..Len(log')
        /\ \A i \in 1..Len(log) : i \in 1..Len(log') /\ log'[i] = log[i]
    BY DEF TypeOK
  <1>3. \A i \in 1..Len(log') : Asked(i)' => i \in 1..Len(log) /\ Asked(i) /\ log'[i] = log[i]
    BY <1>0 DEF Asked
  <1>1. Unseen("approval_requested")' = Unseen("approval_requested")
    <2>1. \A i \in Unseen("approval_requested") : i \in Unseen("approval_requested")'
      BY <1>0 DEF Unseen
    <2>2. \A i \in Unseen("approval_requested")' : i \in 1..Len(log') /\ Asked(i)'
      BY <1>0 DEF Unseen, Asked
    <2>3. \A i \in Unseen("approval_requested")' : i \in Unseen("approval_requested")
      BY <1>0, <1>3, <2>2 DEF Unseen, Asked
    <2> QED
      BY <2>1, <2>3
  <1>2. \A i \in Unseen("approval_requested") : log'[i] = log[i]
    BY <1>0 DEF Unseen
  <1>4. \A c \in 1..MaxCalls : Decided(c, TRUE)' <=> Decided(c, TRUE)
    <2> TAKE c \in 1..MaxCalls
    <2>1. ASSUME NEW i \in 1..Len(log'), log'[i] = Event("approval_decided", c, TRUE)
          PROVE  log[i] = Event("approval_decided", c, TRUE) /\ i \in 1..Len(log)
      <3>1. log'[i].call = c
        BY <2>1 DEF Event
      <3> QED
        BY <1>0, <2>1, <3>1
    <2>2. Decided(c, TRUE)' => Decided(c, TRUE)
      BY <2>1 DEF Decided
    <2>3. Decided(c, TRUE) => Decided(c, TRUE)'
      BY <1>0 DEF Decided
    <2> QED
      BY <2>2, <2>3
  <1>5. Logged("approval_requested", call)' => Logged("approval_requested", call)
    BY <1>0, <1>3 DEF Logged, Asked
  <1>6. CallsSoFar'
    BY <1>0 DEF ApprovedInv, CallsSoFar
  <1>7. AskedOnce'
    <2>1. \A i \in 1..Len(log') : Asked(i)' => log'[i].call >= 1
      BY <1>3 DEF ApprovedInv, AskedOnce
    <2>2. \A i, j \in 1..Len(log') :
            Asked(i)' /\ Asked(j)' /\ log'[i].call = log'[j].call => i = j
      BY <1>3 DEF ApprovedInv, AskedOnce
    <2>3. \A i \in Unseen("approval_requested")' : clicks'[log'[i].call] = "none"
      BY <1>1, <1>2 DEF ApprovedInv, AskedOnce
    <2> QED
      BY <2>1, <2>2, <2>3 DEF AskedOnce
  <1>8. Dialog'
    BY <1>1, <1>2 DEF ApprovedInv, Dialog
  <1>9. OnlyApprovedRun'
    <2>1. Decided(call, TRUE) => Decided(call, TRUE)'
      BY <1>0 DEF Decided
    <2>2. \A c \in 1..MaxCalls : Decided(c, TRUE)' => clicks'[c] = "approved"
      BY <1>0, <1>4 DEF ApprovedInv, OnlyApprovedRun
    <2> QED
      BY <1>0, <1>5, <2>1, <2>2 DEF ApprovedInv, OnlyApprovedRun
  <1> QED
    BY <1>6, <1>7, <1>8, <1>9 DEF ApprovedInv

LEMMA ApprovedKeptByEvent ==
  ASSUME TypeOK, ApprovedInv, NEW type \in EventTypes \ {"approval_requested", "approval_decided"},
         Emit(type), UNCHANGED <<seen, call, clicks, request, worker>>,
         future' = "approved" => future = "approved",
         turn' = "review" => turn = "review",
         turn' \in {"tool", "observe"} => turn \in {"tool", "observe"}
  PROVE  ApprovedInv'
  <1>1. Extends(Event(type, call, FALSE))
    BY Extended DEF Emit, TypeOK
  <1>2. \A i \in Len(log) + 1..Len(log') : log'[i] = Event(type, call, FALSE)
    <2>1. Len(log) \in Nat /\ Len(log') = Len(log) + 1
          /\ log'[Len(log) + 1] = Event(type, call, FALSE)
      BY <1>1 DEF Extends, TypeOK
    <2>2. \A i \in Len(log) + 1..Len(log') : i = Len(log) + 1
      BY <2>1
    <2> QED
      BY <2>1, <2>2
  <1>3. \A i \in Len(log) + 1..Len(log') :
          log'[i].call <= call /\ log'[i].type # "approval_requested"
          /\ log'[i] # Event("approval_decided", log'[i].call, TRUE)
    BY <1>2 DEF Event, TypeOK
  <1>4. log' \in Seq(Events) /\ Len(log) <= Len(log') /\ \A i \in 1..Len(log) : log'[i] = log[i]
    BY <1>1 DEF Extends, TypeOK
  <1> QED
    BY <1>3, <1>4, ApprovedKept

LEMMA ApprovedKeptByEnd ==
  ASSUME TypeOK, ApprovedInv, NEW type \in {"turn_finished", "turn_aborted"}, EndTurn(type),
         UNCHANGED <<uiVars, clicks>>
  PROVE  ApprovedInv'
  BY ApprovedKeptByEvent DEF EndTurn, EventTypes, uiVars

LEMMA ApprovedKeptSilently ==
  ASSUME TypeOK, ApprovedInv, UNCHANGED <<log, seen, call, clicks, request, worker>>,
         future' = "approved" => future = "approved",
         turn' = "review" => turn = "review",
         turn' \in {"tool", "observe"} => turn \in {"tool", "observe"}
  PROVE  ApprovedInv'
  <1>1. /\ log' \in Seq(Events) /\ Len(log) <= Len(log') /\ log' = log
        /\ \A i \in Len(log) + 1..Len(log') : FALSE
    BY DEF TypeOK
  <1> QED
    BY <1>1, ApprovedKept

\* A new call: nothing in the log, the dialog or the answers is about it.
LEMMA ApprovedByRunTool ==
  ASSUME TypeOK, ApprovedInv, RunTool
  PROVE  ApprovedInv'
  <1>0. /\ call' = call + 1 /\ call' \in 1..MaxCalls /\ call \in Nat /\ seen' = seen
        /\ Len(log) \in Nat /\ seen \in 0..Len(log) /\ turn = "model" /\ future = "none"
        /\ clicks' = clicks /\ request' = request /\ worker' = worker
        /\ request \in Nat /\ MaxCalls \in Nat
        /\ \A i \in 1..Len(log) : log[i].call \in Nat
    <2>1. \A i \in 1..Len(log) : log[i] \in Events
      BY DEF TypeOK
    <2>2. turn = "model" /\ future = "none"
      BY DEF RunTool, TypeOK
    <2> QED
      BY <2>1, <2>2, ApprovalsAssumption DEF RunTool, TypeOK, uiVars, Events
  <1>1. clicks[call'] = "none" /\ \A c \in call' + 1..MaxCalls : clicks[c] = "none"
    BY <1>0 DEF ApprovedInv, CallsSoFar
  <1>2. \A i \in 1..Len(log) : log[i].call < call'
    BY <1>0 DEF ApprovedInv, CallsSoFar
  <1>3. CASE log' = log
    <2>1. CallsSoFar'
      BY <1>0, <1>1, <1>2, <1>3 DEF ApprovedInv, CallsSoFar
    <2>2. AskedOnce'
      BY <1>0, <1>3 DEF ApprovedInv, AskedOnce, Asked, Unseen
    <2>3. turn' = "tool" /\ future' = "none"
      <3>1. ASSUME NEW e, log' = Append(log, e) PROVE FALSE
        <4>1. Len(Append(log, e)) = Len(log) + 1
          BY DEF TypeOK
        <4> QED
          BY <1>0, <1>3, <3>1, <4>1
      <3> QED
        BY <1>0, <3>1 DEF RunTool
    <2>4. Dialog'
      BY <1>0, <1>3, <2>3 DEF ApprovedInv, Dialog, Unseen
    <2>5. OnlyApprovedRun'
      <3>1. ~Logged("approval_requested", call)'
        BY <1>0, <1>2, <1>3 DEF Logged
      <3>2. \A c \in 1..MaxCalls : Decided(c, TRUE)' => Decided(c, TRUE)
        BY <1>3 DEF Decided
      <3> QED
        BY <1>0, <3>1, <3>2 DEF ApprovedInv, OnlyApprovedRun
    <2> QED
      BY <2>1, <2>2, <2>4, <2>5 DEF ApprovedInv
  <1>4. ASSUME NEW type \in {"tool_call_finished", "approval_requested"},
               log' = Append(log, Event(type, call', FALSE)),
               turn' \notin {"tool", "observe"}, future' # "approved"
        PROVE  ApprovedInv'
    <2>1. Extends(Event(type, call', FALSE))
      <3>1. type \in EventTypes /\ call' \in 0..MaxCalls /\ FALSE \in BOOLEAN
        BY <1>0 DEF EventTypes
      <3> QED
        BY <1>4, <3>1, Extended
    <2>2. /\ Len(log') = Len(log) + 1
          /\ \A i \in 1..Len(log) : log'[i] = log[i]
          /\ log'[Len(log')].type = type /\ log'[Len(log')].call = call'
      BY <1>0, <2>1 DEF Extends, Event
    <2>3. \A i \in 1..Len(log') : i \in 1..Len(log) \/ i = Len(log')
      BY <1>0, <2>2
    <2>4. CallsSoFar'
      BY <1>0, <1>1, <1>2, <2>2, <2>3 DEF ApprovedInv, CallsSoFar
    <2>5. AskedOnce'
      <3>1. \A i \in 1..Len(log') : Asked(i)' => log'[i].call >= 1
        BY <1>0, <2>2, <2>3 DEF ApprovedInv, AskedOnce, Asked
      <3>2. \A i, j \in 1..Len(log') :
              Asked(i)' /\ Asked(j)' /\ log'[i].call = log'[j].call => i = j
        BY <1>0, <1>2, <2>2, <2>3 DEF ApprovedInv, AskedOnce, Asked
      <3>3. \A i \in Unseen("approval_requested")' : clicks'[log'[i].call] = "none"
        BY <1>0, <1>1, <2>2, <2>3 DEF ApprovedInv, AskedOnce, Unseen
      <3> QED
        BY <3>1, <3>2, <3>3 DEF AskedOnce
    <2>6. Dialog'
      <3>1. request < call'
        BY <1>0 DEF ApprovedInv, CallsSoFar
      <3>2. \A i \in Unseen("approval_requested")' :
              i \in Unseen("approval_requested") \/ log'[i].call = call'
        BY <1>0, <2>2, <2>3 DEF Unseen
      <3>3. \A i \in Unseen("approval_requested") : log'[i] = log[i]
        BY <1>0, <2>2 DEF Unseen
      <3>4. worker \in {"asking", "approved", "rejected"} =>
              request >= 1 /\ \A i \in Unseen("approval_requested")' : log'[i].call # request
        BY <1>0, <3>1, <3>2, <3>3 DEF ApprovedInv, Dialog
      <3>5. /\ worker = "asking" => clicks[request] = "none"
            /\ worker \in {"approved", "rejected"} => clicks[request] = worker
        BY DEF ApprovedInv, Dialog
      <3>6. call' >= 1
        BY <1>0
      <3> QED
        BY <1>0, <1>4, <3>4, <3>5, <3>6 DEF Dialog
    <2>7. OnlyApprovedRun'
      <3>1. \A c \in 1..MaxCalls : Decided(c, TRUE)' => Decided(c, TRUE)
        <4>1. \A c \in 1..MaxCalls : log'[Len(log')] # Event("approval_decided", c, TRUE)
          BY <1>4, <2>2 DEF Event
        <4> QED
          BY <2>2, <2>3, <4>1 DEF Decided
      <3> QED
        BY <1>0, <1>4, <3>1 DEF ApprovedInv, OnlyApprovedRun
    <2> QED
      BY <2>4, <2>5, <2>6, <2>7 DEF ApprovedInv
  <1> QED
    BY <1>0, <1>3, <1>4 DEF RunTool

\* The decision of the user reaches the log.
LEMMA ApprovedByReviewEnds ==
  ASSUME TypeOK, ApprovedInv, ReviewEnds
  PROVE  ApprovedInv'
  <1>0. /\ turn = "review" /\ Len(log) \in Nat /\ seen \in 0..Len(log) /\ call \in 0..MaxCalls
        /\ seen' = seen /\ call' = call /\ clicks' = clicks /\ request' = request
        /\ worker' = worker
    <2>1. seen' = seen /\ clicks' = clicks /\ request' = request /\ worker' = worker
      BY DEF ReviewEnds, uiVars
    <2>2. call' = call
      BY DEF ReviewEnds, EndTurn
    <2> QED
      BY <2>1, <2>2 DEF ReviewEnds, TypeOK
  <1>1. CASE EndTurn("turn_aborted")
    BY <1>0, <1>1, ApprovedKeptByEnd DEF ReviewEnds
  <1>2. CASE Outcome = "rejected" /\ log' = log \o Refusal /\ turn' = "model" /\ future' = "none"
    <2>1. /\ log' \in Seq(Events) /\ Len(log') = Len(log) + 2
          /\ \A i \in 1..Len(log) : log'[i] = log[i]
          /\ log'[Len(log) + 1] = Event("approval_decided", call, FALSE)
          /\ log'[Len(log) + 2] = Event("tool_call_finished", call, FALSE)
      BY <1>2, Refused
    <2>2. \A i \in Len(log) + 1..Len(log') : i = Len(log) + 1 \/ i = Len(log) + 2
      BY <1>0, <2>1
    <2>3. \A e \in {Event("approval_decided", call, FALSE),
                   Event("tool_call_finished", call, FALSE)} :
            e.call <= call /\ e.type # "approval_requested"
            /\ e # Event("approval_decided", e.call, TRUE)
      BY <1>0 DEF Event
    <2>4. \A i \in Len(log) + 1..Len(log') :
            log'[i].call <= call /\ log'[i].type # "approval_requested"
            /\ log'[i] # Event("approval_decided", log'[i].call, TRUE)
      BY <2>1, <2>2, <2>3
    <2>5. Len(log) <= Len(log')
      BY <1>0, <2>1
    <2> QED
      BY <1>0, <1>2, <2>1, <2>4, <2>5, ApprovedKept
  <1>3. CASE /\ Outcome = "approved" /\ log' = Append(log, Event("approval_decided", call, TRUE))
             /\ turn' = "tool" /\ future' = "none"
    <2>1. future = "approved" /\ clicks[call] = "approved"
      BY <1>3 DEF Outcome, ApprovedInv, Dialog
    <2>2. Extends(Event("approval_decided", call, TRUE))
      BY <1>0, <1>3, Extended DEF EventTypes
    <2>3. /\ Len(log') = Len(log) + 1
          /\ \A i \in 1..Len(log) : log'[i] = log[i]
          /\ log'[Len(log')] = Event("approval_decided", call, TRUE)
          /\ \A i \in 1..Len(log') : i \in 1..Len(log) \/ i = Len(log')
      BY <1>0, <2>2 DEF Extends
    <2>4. /\ log'[Len(log')].call = call /\ log'[Len(log')].type = "approval_decided"
          /\ Len(log') \in 1..Len(log')
      BY <1>0, <2>3 DEF Event
    <2>5. CallsSoFar'
      <3>1. \A i \in 1..Len(log') : log'[i].call <= call
        <4>1. \A i \in 1..Len(log) : log[i].call <= call
          BY DEF ApprovedInv, CallsSoFar
        <4>2. call <= call
          BY <1>0, ApprovalsAssumption
        <4> QED
          BY <2>3, <2>4, <4>1, <4>2
      <3> QED
        BY <1>0, <3>1 DEF ApprovedInv, CallsSoFar
    <2>9. /\ \A i \in seen + 1..Len(log') : i \in 1..Len(log')
          /\ \A i \in 1..Len(log) : i \in seen + 1..Len(log') => i \in seen + 1..Len(log)
      BY <1>0, <2>3
    <2>6. AskedOnce'
      <3>1. \A i \in 1..Len(log') : Asked(i)' => i \in 1..Len(log) /\ Asked(i) /\ log'[i] = log[i]
        BY <2>3, <2>4 DEF Asked
      <3>2. \A i \in Unseen("approval_requested")' :
              i \in Unseen("approval_requested") /\ log'[i] = log[i]
        BY <1>0, <2>3, <2>4, <2>9 DEF Unseen
      <3> QED
        BY <1>0, <3>1, <3>2 DEF ApprovedInv, AskedOnce
    <2>7. Dialog'
      <3>1. \A i \in Unseen("approval_requested")' :
              i \in Unseen("approval_requested") /\ log'[i] = log[i]
        BY <1>0, <2>3, <2>4, <2>9 DEF Unseen
      <3> QED
        BY <1>0, <1>3, <3>1 DEF ApprovedInv, Dialog
    <2>8. OnlyApprovedRun'
      <3>1. Decided(call, TRUE)'
        BY <1>0, <2>3, <2>4 DEF Decided
      <3>2. \A c \in 1..MaxCalls : Decided(c, TRUE)' => Decided(c, TRUE) \/ c = call
        <4>1. ASSUME NEW c \in 1..MaxCalls, NEW i \in 1..Len(log'),
                     log'[i] = Event("approval_decided", c, TRUE), c # call
              PROVE  i \in 1..Len(log) /\ log[i] = Event("approval_decided", c, TRUE)
          <5>1. log'[i].call = c
            BY <4>1 DEF Event
          <5> QED
            BY <2>3, <2>4, <4>1, <5>1
        <4> QED
          BY <4>1 DEF Decided
      <3> QED
        BY <1>0, <2>1, <3>1, <3>2 DEF ApprovedInv, OnlyApprovedRun
    <2> QED
      BY <2>5, <2>6, <2>7, <2>8 DEF ApprovedInv
  <1> QED
    BY <1>1, <1>2, <1>3 DEF ReviewEnds

\* The worker takes an event; if it is a request, nobody has answered it yet.
LEMMA ApprovedByHandleEvent ==
  ASSUME TypeOK, ApprovedInv, HandleEvent
  PROVE  ApprovedInv'
  <1>0. /\ Len(log) \in Nat /\ seen \in 0..Len(log) /\ seen < Len(log) /\ seen' = seen + 1
        /\ call \in Nat /\ UNCHANGED <<log, call, clicks, turn, future>>
        /\ seen + 1 \in 1..Len(log)
    BY DEF HandleEvent, TypeOK, runnerVars
  <1>1. Unseen("approval_requested")' \subseteq Unseen("approval_requested")
        /\ seen + 1 \notin Unseen("approval_requested")'
    BY <1>0 DEF Unseen
  <1>2. request' <= call
    BY <1>0 DEF HandleEvent, ApprovedInv, CallsSoFar
  <1>3. CallsSoFar' /\ AskedOnce' /\ OnlyApprovedRun'
    <2>1. CallsSoFar'
      BY <1>0, <1>2 DEF ApprovedInv, CallsSoFar
    <2>2. AskedOnce'
      BY <1>0, <1>1 DEF ApprovedInv, AskedOnce, Asked
    <2>3. OnlyApprovedRun'
      BY <1>0 DEF ApprovedInv, OnlyApprovedRun, Logged, Decided
    <2> QED
      BY <2>1, <2>2, <2>3
  <1>4. Dialog'
    <2>1. CASE log[seen + 1].type = "approval_requested"
      <3>1. worker' = "asking" /\ request' = log[seen + 1].call
        BY <2>1 DEF HandleEvent
      <3>2. request' >= 1 /\ clicks[request'] = "none"
        BY <1>0, <2>1, <3>1 DEF ApprovedInv, AskedOnce, Asked, Unseen
      <3>3. \A i \in Unseen("approval_requested")' : log[i].call # request'
        BY <1>0, <1>1, <2>1, <3>1 DEF ApprovedInv, AskedOnce, Asked, Unseen
      <3> QED
        BY <1>0, <3>1, <3>2, <3>3 DEF ApprovedInv, Dialog
    <2>2. CASE log[seen + 1].type # "approval_requested"
      <3>1. worker' \notin {"asking", "approved", "rejected"}
        BY <2>2 DEF HandleEvent
      <3> QED
        BY <1>0, <3>1 DEF ApprovedInv, Dialog
    <2> QED
      BY <2>1, <2>2
  <1> QED
    BY <1>3, <1>4 DEF ApprovedInv

\* The first and only answer about this call.
LEMMA ApprovedByUserAnswers ==
  ASSUME TypeOK, ApprovedInv, UserAnswers
  PROVE  ApprovedInv'
  <1>0. /\ Len(log) \in Nat /\ call \in 0..MaxCalls /\ MaxCalls \in Nat /\ request \in 1..MaxCalls
        /\ UNCHANGED <<log, seen, call, turn, future, request>>
        /\ worker = "asking" /\ clicks[request] = "none"
        /\ \A i \in 1..Len(log) : log[i].call \in 0..MaxCalls
        /\ seen \in Nat
    <2>1. \A i \in 1..Len(log) : log[i] \in Events
      BY DEF TypeOK
    <2> QED
      BY <2>1, ApprovalsAssumption DEF UserAnswers, TypeOK, runnerVars, ApprovedInv, Dialog, Events
  <1>1. PICK answer \in {"approved", "rejected"} :
          worker' = answer /\ clicks' = [clicks EXCEPT ![request] = answer]
    BY DEF UserAnswers
  <1>2. clicks'[request] = answer /\ \A c \in 1..MaxCalls \ {request} : clicks'[c] = clicks[c]
    BY <1>0, <1>1 DEF TypeOK
  <1>3. CallsSoFar'
    BY <1>0, <1>2 DEF ApprovedInv, CallsSoFar
  <1>4. AskedOnce'
    <2>1. \A i \in Unseen("approval_requested") :
            log[i].call \in 1..MaxCalls \ {request} /\ clicks[log[i].call] = "none"
      BY <1>0 DEF ApprovedInv, AskedOnce, Asked, Dialog, Unseen
    <2> QED
      BY <1>0, <1>2, <2>1 DEF ApprovedInv, AskedOnce, Asked, Unseen
  <1>5. Dialog'
    <2>1. future = "approved" => call \in 1..MaxCalls \ {request}
      BY <1>0 DEF ApprovedInv, Dialog, TypeOK
    <2> QED
      BY <1>0, <1>1, <1>2, <2>1 DEF ApprovedInv, Dialog, Unseen
  <1>6. OnlyApprovedRun'
    BY <1>0, <1>2 DEF ApprovedInv, OnlyApprovedRun, Logged, Decided
  <1> QED
    BY <1>3, <1>4, <1>5, <1>6 DEF ApprovedInv

LEMMA ApprovedBySubmitDecision ==
  ASSUME TypeOK, ApprovedInv, SubmitDecision
  PROVE  ApprovedInv'
  <1>0. UNCHANGED <<turn, call, log, seen, clicks>> /\ call \in Nat
        /\ worker \in {"approved", "rejected"} /\ clicks[request] = worker
    BY DEF SubmitDecision, TypeOK, ApprovedInv, Dialog
  <1>1. /\ worker' \in {"reading", "failed"} /\ request' \in {0, request}
        /\ future' = "approved" => future = "approved" \/ clicks[call] = "approved"
    BY <1>0 DEF SubmitDecision, Accepts
  <1>2. CallsSoFar'
    BY <1>0, <1>1 DEF ApprovedInv, CallsSoFar
  <1>3. AskedOnce'
    BY <1>0 DEF ApprovedInv, AskedOnce, Asked, Unseen
  <1>4. Dialog'
    BY <1>0, <1>1 DEF ApprovedInv, Dialog
  <1>5. OnlyApprovedRun'
    BY <1>0 DEF ApprovedInv, OnlyApprovedRun, Logged, Decided
  <1> QED
    BY <1>2, <1>3, <1>4, <1>5 DEF ApprovedInv

LEMMA ApprovedStep ==
  ASSUME IInv, ApprovedInv, [Next]_vars
  PROVE  ApprovedInv'
  <1> USE DEF IInv
  <1>1. CASE ModelEnds
    BY <1>1, ApprovedKeptByEnd DEF ModelEnds
  <1>2. CASE RunTool
    BY <1>2, ApprovedByRunTool
  <1>3. CASE ReviewEnds
    BY <1>3, ApprovedByReviewEnds
  <1>4. CASE ToolEnds
    <2>1. CASE log' = log /\ turn' = "observe"
      BY <1>4, <2>1, ApprovedKeptSilently DEF ToolEnds, uiVars
    <2>2. CASE Emit("tool_call_finished") /\ turn' = "model"
      BY <1>4, <2>2, ApprovedKeptByEvent DEF ToolEnds, uiVars, EventTypes
    <2> QED
      BY <1>4, <2>1, <2>2 DEF ToolEnds
  <1>5. CASE ObserversEnd
    BY <1>5, ApprovedKeptByEvent DEF ObserversEnd, uiVars, EventTypes
  <1>6. CASE CancelEnds
    BY <1>6, ApprovedKeptByEnd DEF CancelEnds
  <1>7. CASE ApprovalDeadline
    BY <1>7, ApprovedKeptSilently DEF ApprovalDeadline, Cancel, uiVars
  <1>8. CASE TurnDeadline
    BY <1>8, ApprovedKeptSilently DEF TurnDeadline, Cancel, uiVars
  <1>9. CASE SubmitMessage
    BY <1>9, ApprovedKeptByEvent DEF SubmitMessage, EventTypes
  <1>10. CASE HandleEvent
    BY <1>10, ApprovedByHandleEvent
  <1>11. CASE UserAnswers
    BY <1>11, ApprovedByUserAnswers
  <1>12. CASE SubmitDecision
    BY <1>12, ApprovedBySubmitDecision
  <1>13. CASE Shutdown
    BY <1>13, ApprovedKeptSilently DEF Shutdown, uiVars
  <1>14. CASE SessionCloses
    BY <1>14, ApprovedKeptByEvent DEF SessionCloses, uiVars, EventTypes
  <1>15. CASE Exit
    BY <1>15, ApprovedKeptSilently DEF Exit, Cancel, uiVars
  <1>16. CASE UNCHANGED vars
    BY <1>16, ApprovedKeptSilently DEF vars
  <1> QED
    BY <1>1, <1>2, <1>3, <1>4, <1>5, <1>6, <1>7, <1>8, <1>9, <1>10, <1>11, <1>12, <1>13,
       <1>14, <1>15, <1>16 DEF Next

\* No call that asked for approval runs unless the user approved this very call, for any number of
\* turns and calls and any order of answers, deadlines and cancellations.
THEOREM ApprovalRespected == Spec => []OnlyApprovedRun
  <1>1. Init => ApprovedInv
    BY ApprovalsAssumption
       DEF Init, ApprovedInv, CallsSoFar, AskedOnce, Dialog, OnlyApprovedRun, Unseen, Asked,
           Logged, Decided
  <1>2. IInv /\ ApprovedInv /\ [Next]_vars => ApprovedInv'
    BY ApprovedStep
  <1>3. ApprovedInv => OnlyApprovedRun
    BY DEF ApprovedInv
  <1> QED
    BY <1>1, <1>2, <1>3, Invariant, PTL DEF Spec

-----------------------------------------------------------------------------
(* Decisions *)

\* The part of RequestsDecided about two events in a row.
Answers(previous, e) ==
  /\ previous.type = "approval_requested" => e.type \in {"approval_decided", "turn_aborted"}
  /\ e.type = "approval_decided" =>
       previous.type = "approval_requested" /\ previous.call = e.call
  /\ (previous.type = "approval_decided" /\ ~previous.approved) =>
       e = Event("tool_call_finished", previous.call, FALSE)

LEMMA DecidedPairs == RequestsDecided <=> \A i \in 2..Len(log) : Answers(log[i - 1], log[i])
  BY DEF RequestsDecided, Answers

LEMMA DecidedPairsThen ==
  RequestsDecided' <=> \A i \in 2..Len(log') : Answers(log'[i - 1], log'[i])
  BY DEF RequestsDecided, Answers

LEMMA DecidedSilently ==
  ASSUME DecidedInv, log' = log, turn' = "review" <=> turn = "review",
         turn = "review" => call' = call
  PROVE  DecidedInv'
  <1>1. ReviewInv'
    BY DEF DecidedInv, ReviewInv, LatestIs
  <1> QED
    BY <1>1, DecidedPairs, DecidedPairsThen DEF DecidedInv

\* One more event, which answers the last one.
LEMMA DecidedByEvent ==
  ASSUME TypeOK, DecidedInv, NEW e, Extends(e),
         turn = "review" => e.type \in {"approval_decided", "turn_aborted"},
         e.type = "approval_decided" => turn = "review" /\ e.call = call /\ e.approved,
         turn' = "review" <=> e.type = "approval_requested",
         turn' = "review" => e.call = call'
  PROVE  DecidedInv'
  <1>1. /\ Len(log) \in Nat /\ Len(log') = Len(log) + 1 /\ log'[Len(log')] = e
        /\ \A i \in 1..Len(log) : log'[i] = log[i]
        /\ log' # <<>>
    BY DEF Extends, TypeOK
  <1>2. ReviewInv'
    BY <1>1 DEF ReviewInv, LatestIs
  <1>3. ASSUME NEW i \in 2..Len(log')
        PROVE  Answers(log'[i - 1], log'[i])
    <2>1. CASE i \in 2..Len(log)
      <3>1. log'[i - 1] = log[i - 1] /\ log'[i] = log[i]
        BY <1>1, <2>1
      <3>2. Answers(log[i - 1], log[i])
        BY <2>1, DecidedPairs DEF DecidedInv
      <3> QED
        BY <3>1, <3>2
    <2>2. CASE i \notin 2..Len(log)
      <3>1. i = Len(log) + 1 /\ Len(log) \in 1..Len(log) /\ log # <<>>
        BY <1>1, <1>3, <2>2 DEF TypeOK
      <3>2. log'[i] = e /\ log'[i - 1] = log[Len(log)]
        BY <1>1, <3>1
      <3>3. Answers(log[Len(log)], e)
        BY <3>1 DEF DecidedInv, ReviewInv, LatestIs, Answers
      <3> QED
        BY <3>2, <3>3
    <2> QED
      BY <2>1, <2>2
  <1> QED
    BY <1>2, <1>3, DecidedPairsThen DEF DecidedInv

\* The decision against a call and the end of the call.
LEMMA DecidedByRefusal ==
  ASSUME TypeOK, DecidedInv, log' = log \o Refusal, turn = "review", turn' = "model"
  PROVE  DecidedInv'
  <1>0. PICK decided, finished : /\ decided = Event("approval_decided", call, FALSE)
                                 /\ finished = Event("tool_call_finished", call, FALSE)
    OBVIOUS
  <1>1. /\ Len(log) \in Nat /\ Len(log') = Len(log) + 2
        /\ \A i \in 1..Len(log) : log'[i] = log[i]
        /\ log'[Len(log) + 1] = decided /\ log'[Len(log) + 2] = finished
    <2>1. Len(log) \in Nat
      BY DEF TypeOK
    <2> QED
      BY <1>0, <2>1, Refused
  <1>2. decided.type = "approval_decided" /\ decided.call = call /\ ~decided.approved
        /\ finished.type = "tool_call_finished"
    BY <1>0 DEF Event
  <1>3. /\ log # <<>> /\ Len(log) \in 1..Len(log)
        /\ log[Len(log)].type = "approval_requested" /\ log[Len(log)].call = call
    <2>1. log # <<>> /\ log[Len(log)].type = "approval_requested" /\ log[Len(log)].call = call
      BY DEF DecidedInv, ReviewInv, LatestIs
    <2> QED
      BY <2>1 DEF TypeOK
  <1>4. ReviewInv'
    <2>1. log'[Len(log')] = finished
      BY <1>1
    <2> QED
      BY <1>2, <2>1 DEF ReviewInv, LatestIs
  <1>5. Answers(log[Len(log)], decided) /\ Answers(decided, finished)
    BY <1>0, <1>2, <1>3 DEF Answers
  <1>6. ASSUME NEW i \in 2..Len(log')
        PROVE  Answers(log'[i - 1], log'[i])
    <2>1. CASE i \in 2..Len(log)
      <3>1. log'[i - 1] = log[i - 1] /\ log'[i] = log[i]
        BY <1>1, <2>1
      <3>2. Answers(log[i - 1], log[i])
        BY <2>1, DecidedPairs DEF DecidedInv
      <3> QED
        BY <3>1, <3>2
    <2>2. CASE i = Len(log) + 1
      <3>1. log'[i - 1] = log[Len(log)] /\ log'[i] = decided
        BY <1>1, <1>3, <2>2
      <3> QED
        BY <1>5, <3>1
    <2>3. CASE i = Len(log) + 2
      <3>1. log'[i - 1] = decided /\ log'[i] = finished
        BY <1>1, <2>3
      <3> QED
        BY <1>5, <3>1
    <2> QED
      BY <1>1, <1>6, <2>1, <2>2, <2>3
  <1> QED
    BY <1>4, <1>6, DecidedPairsThen DEF DecidedInv

LEMMA DecidedByEmit ==
  ASSUME TypeOK, DecidedInv, turn' # "review",
         NEW type \in EventTypes \ {"approval_decided", "approval_requested"}, Emit(type),
         turn = "review" => type = "turn_aborted"
  PROVE  DecidedInv'
  <1>1. PICK e : e = Event(type, call, FALSE)
    OBVIOUS
  <1>2. e.type = type
    BY <1>1 DEF Event
  <1>3. Extends(e)
    BY <1>1, Extended DEF Emit, TypeOK
  <1> QED
    BY <1>2, <1>3, DecidedByEvent

LEMMA DecidedStep ==
  ASSUME IInv, DecidedInv, [Next]_vars
  PROVE  DecidedInv'
  <1> USE DEF IInv
  <1>1. CASE ModelEnds
    BY <1>1, DecidedByEmit DEF ModelEnds, EndTurn, EventTypes
  <1>2. CASE RunTool
    <2>1. call' \in 0..MaxCalls /\ turn = "model" /\ turn # "review"
      BY <1>2, ApprovalsAssumption DEF RunTool, TypeOK
    <2>2. ASSUME NEW type \in {"tool_call_finished", "approval_requested"},
                 log' = Append(log, Event(type, call', FALSE)),
                 turn' = "review" <=> type = "approval_requested"
          PROVE  DecidedInv'
      <3>1. PICK e : e = Event(type, call', FALSE)
        OBVIOUS
      <3>2. e.type = type /\ e.call = call'
        BY <3>1 DEF Event
      <3>3. Extends(e)
        BY <2>1, <2>2, <3>1, Extended DEF EventTypes
      <3> QED
        BY <2>1, <2>2, <3>2, <3>3, DecidedByEvent
    <2>3. CASE log' = log /\ turn' = "tool"
      BY <2>1, <2>3, DecidedSilently
    <2>4. CASE log' = Append(log, Event("tool_call_finished", call', FALSE)) /\ turn' = turn
      BY <2>1, <2>2, <2>4
    <2>5. CASE log' = Append(log, Event("approval_requested", call', FALSE)) /\ turn' = "review"
      BY <2>1, <2>2, <2>5
    <2> QED
      BY <1>2, <2>3, <2>4, <2>5 DEF RunTool
  <1>3. CASE ReviewEnds
    <2>1. CASE EndTurn("turn_aborted")
      BY <2>1, DecidedByEmit DEF EndTurn, EventTypes
    <2>2. CASE log' = Append(log, Event("approval_decided", call, TRUE)) /\ turn' = "tool"
      <3>1. PICK e : e = Event("approval_decided", call, TRUE)
        OBVIOUS
      <3>2. e.type = "approval_decided" /\ e.call = call /\ e.approved
        BY <3>1 DEF Event
      <3>3. Extends(e)
        BY <2>2, <3>1, Extended DEF EventTypes, TypeOK
      <3>4. turn = "review"
        BY <1>3 DEF ReviewEnds
      <3> QED
        BY <2>2, <3>2, <3>3, <3>4, DecidedByEvent
    <2>3. CASE log' = log \o Refusal /\ turn' = "model"
      BY <1>3, <2>3, DecidedByRefusal DEF ReviewEnds
    <2> QED
      BY <1>3, <2>1, <2>2, <2>3 DEF ReviewEnds
  <1>4. CASE ToolEnds
    <2>1. turn = "tool" /\ turn' \in {"observe", "model"}
      BY <1>4 DEF ToolEnds
    <2>2. CASE log' = log
      BY <2>1, <2>2, DecidedSilently
    <2>3. CASE Emit("tool_call_finished")
      BY <2>1, <2>3, DecidedByEmit DEF EventTypes
    <2> QED
      BY <1>4, <2>2, <2>3 DEF ToolEnds
  <1>5. CASE ObserversEnd
    BY <1>5, DecidedByEmit DEF ObserversEnd, EventTypes
  <1>6. CASE CancelEnds
    BY <1>6, DecidedByEmit DEF CancelEnds, EndTurn, EventTypes
  <1>7. CASE ApprovalDeadline \/ TurnDeadline \/ Exit
    BY <1>7, DecidedSilently DEF ApprovalDeadline, TurnDeadline, Exit
  <1>8. CASE SubmitMessage
    <2>1. turn = "none"
      BY <1>8 DEF SubmitMessage, LockInv, InputLocked
    <2> QED
      BY <1>8, <2>1, DecidedByEmit DEF SubmitMessage, EventTypes
  <1>9. CASE HandleEvent \/ UserAnswers
    BY <1>9, DecidedSilently DEF HandleEvent, UserAnswers, runnerVars
  <1>10. CASE SubmitDecision \/ Shutdown
    BY <1>10, DecidedSilently DEF SubmitDecision, Shutdown
  <1>11. CASE SessionCloses
    BY <1>11, DecidedByEmit DEF SessionCloses, EventTypes
  <1>12. CASE UNCHANGED vars
    BY <1>12, DecidedSilently DEF vars
  <1> QED
    BY <1>1, <1>2, <1>3, <1>4, <1>5, <1>6, <1>7, <1>8, <1>9, <1>10, <1>11, <1>12 DEF Next

\* Each request (`ToolRunner.run`) is decided once: what follows it in the log is its decision or
\* the end of the turn, a decision follows the request it is about, and a refusal ends the call
\* before anything else happens; for any number of turns and calls.
THEOREM EachRequestDecided == Spec => []RequestsDecided
  <1>1. Init => DecidedInv
    BY DEF Init, DecidedInv, ReviewInv, LatestIs, RequestsDecided
  <1>2. IInv /\ DecidedInv /\ [Next]_vars => DecidedInv'
    BY DecidedStep
  <1>3. DecidedInv => RequestsDecided
    BY DEF DecidedInv
  <1> QED
    BY <1>1, <1>2, <1>3, Invariant, PTL DEF Spec

-----------------------------------------------------------------------------
(* The status line *)

LEMMA StatusAfterShutdown == ASSUME app' # "running" PROVE StatusInv'
  BY DEF StatusInv, StatusFollowsLog

LEMMA StatusSilently ==
  ASSUME TypeOK, StatusInv, UNCHANGED <<log, seen, prompt, status, worker, app>>,
         turn' = "none" <=> turn = "none"
  PROVE  StatusInv'
  BY DEF StatusInv, StatusFollowsLog, TurnLog, Unseen, Closing

\* New events, none of them the end of a turn but the last.
Continues ==
  /\ log' \in Seq(Events) /\ Len(log) < Len(log') /\ seen' = seen
  /\ \A i \in 1..Len(log) : log'[i] = log[i]
  /\ \A i \in Len(log) + 1..Len(log') :
       log'[i].type # "session_closed" /\ (Closing(i)' => i = Len(log'))
  /\ turn' = "none" <=> Closing(Len(log))'

LEMMA TurnLogContinues ==
  ASSUME TypeOK, TurnLog, Continues, prompt' = FALSE,
         \A i \in 1..Len(log) : log[i].type # "turn_aborted",
         Unseen("turn_finished") = {}
  PROVE  TurnLog'
  <1>1. /\ Len(log) \in Nat /\ Len(log') \in Nat /\ Len(log) < Len(log') /\ seen \in 0..Len(log)
        /\ \A i \in 1..Len(log') : i \in 1..Len(log) \/ i \in Len(log) + 1..Len(log')
        /\ log' # <<>>
    BY DEF Continues, TypeOK
  <1>2. \A i \in 1..Len(log') : log'[i].type # "session_closed"
    BY <1>1 DEF Continues, TurnLog
  <1>3. \A i \in 1..Len(log') : log'[i].type = "turn_aborted" => i = Len(log')
    BY <1>1 DEF Continues, Closing
  <1>4. ASSUME NEW i \in Unseen("turn_finished")'
        PROVE  i = Len(log')
    <2>1. i \in 1..Len(log') /\ log'[i].type = "turn_finished" /\ i \in seen + 1..Len(log')
      BY <1>1, <1>4 DEF Unseen, Continues
    <2>2. i \notin 1..Len(log)
      BY <1>1, <2>1 DEF Unseen, Continues
    <2> QED
      BY <1>1, <2>1, <2>2 DEF Continues, Closing
  <1> QED
    BY <1>1, <1>2, <1>3, <1>4 DEF TurnLog, Continues

\* What a turn adds to the log.
LEMMA StatusByTurn ==
  ASSUME IInv, StatusInv, Continues, turn # "none", UNCHANGED <<prompt, status, worker, app>>
  PROVE  StatusInv'
  <1>1. CASE app # "running"
    BY <1>1, StatusAfterShutdown
  <1>2. CASE app = "running"
    <2>1. TurnLog /\ TypeOK /\ ~prompt
      BY <1>2 DEF StatusInv, IInv, LockInv, InputLocked
    <2>2. \A i \in 1..Len(log) : log[i].type # "turn_aborted"
      BY <2>1 DEF TurnLog, Closing, TypeOK
    <2>3. Unseen("turn_finished") = {}
      BY DEF IInv, LockInv
    <2>4. TurnLog'
      BY <2>1, <2>2, <2>3, TurnLogContinues DEF TypeOK
    <2>5. seen' < Len(log')
      BY <2>1 DEF Continues, TypeOK
    <2>6. StatusFollowsLog'
      BY <2>1, <2>5 DEF StatusFollowsLog, TypeOK
    <2> QED
      BY <1>2, <2>4, <2>6 DEF StatusInv
  <1> QED
    BY <1>1, <1>2

LEMMA StatusByEvent ==
  ASSUME IInv, StatusInv, turn # "none", UNCHANGED <<seen, prompt, status, worker, app>>,
         NEW type \in EventTypes \ {"session_closed"}, NEW c \in 0..MaxCalls,
         NEW approved \in BOOLEAN, log' = Append(log, Event(type, c, approved)),
         turn' = "none" <=> type \in {"turn_finished", "turn_aborted"}
  PROVE  StatusInv'
  <1>1. Extends(Event(type, c, approved)) /\ Len(log) \in Nat
    BY Extended DEF IInv, TypeOK
  <1>2. /\ Len(log') = Len(log) + 1 /\ log'[Len(log')].type = type
        /\ \A i \in Len(log) + 1..Len(log') : i = Len(log')
    BY <1>1 DEF Extends, Event
  <1>3. Continues
    BY <1>1, <1>2 DEF Extends, Continues, Closing
  <1> QED
    BY <1>3, StatusByTurn

LEMMA StatusByRefusal ==
  ASSUME IInv, StatusInv, turn # "none", turn' = "model", log' = log \o Refusal,
         UNCHANGED <<seen, prompt, status, worker, app>>
  PROVE  StatusInv'
  <1>1. Len(log) \in Nat
    BY DEF IInv, TypeOK
  <1>2. /\ log' \in Seq(Events) /\ Len(log') = Len(log) + 2
        /\ \A i \in 1..Len(log) : log'[i] = log[i]
        /\ log'[Len(log) + 1].type = "approval_decided"
        /\ log'[Len(log) + 2].type = "tool_call_finished"
    BY Refused DEF IInv, Event
  <1>3. \A i \in Len(log) + 1..Len(log') : i = Len(log) + 1 \/ i = Len(log) + 2
    BY <1>1, <1>2
  <1>4. Continues
    BY <1>1, <1>2, <1>3 DEF Continues, Closing
  <1> QED
    BY <1>4, StatusByTurn

\* A message can only be submitted when the log ends with the end of a turn that did not abort,
\* or is empty.
LEMMA StatusBySubmit ==
  ASSUME IInv, StatusInv, SubmitMessage
  PROVE  StatusInv'
  <1>1. /\ app = "running" /\ app' = "running" /\ prompt /\ prompt' = FALSE /\ status' = "running"
        /\ turn' = "model" /\ seen' = seen
    BY DEF SubmitMessage
  <1>2. TurnLog /\ TypeOK
    BY <1>1 DEF StatusInv, IInv
  <1>3. \A i \in 1..Len(log) : log[i].type # "turn_aborted"
    BY <1>1, <1>2 DEF TurnLog
  <1>4. Unseen("turn_finished") = {}
    BY <1>1 DEF IInv, LockInv
  <1>5. Continues
    <2>1. call \in 0..MaxCalls /\ Len(log) \in Nat
      BY <1>2 DEF TypeOK
    <2>2. Extends(Event("turn_started", call, FALSE))
      BY <1>2, <2>1, Extended DEF SubmitMessage, Emit, EventTypes
    <2>3. /\ Len(log') = Len(log) + 1 /\ log'[Len(log')].type = "turn_started"
          /\ \A i \in Len(log) + 1..Len(log') : i = Len(log')
      BY <2>1, <2>2 DEF Extends, Event
    <2>4. \A i \in Len(log) + 1..Len(log') : log'[i].type = "turn_started"
      BY <2>3
    <2>5. ~Closing(Len(log))' /\ \A i \in Len(log) + 1..Len(log') : ~Closing(i)'
      BY <2>3, <2>4 DEF Closing
    <2>6. /\ log' \in Seq(Events) /\ Len(log) < Len(log')
          /\ \A i \in 1..Len(log) : log'[i] = log[i]
      BY <2>1, <2>2 DEF Extends
    <2> QED
      BY <1>1, <2>4, <2>5, <2>6 DEF Continues
  <1>6. TurnLog'
    BY <1>1, <1>2, <1>3, <1>4, <1>5, TurnLogContinues
  <1>7. StatusFollowsLog'
    BY <1>1 DEF StatusFollowsLog
  <1> QED
    BY <1>1, <1>6, <1>7 DEF StatusInv

LEMMA StatusByHandleEvent ==
  ASSUME IInv, StatusInv, HandleEvent
  PROVE  StatusInv'
  <1>1. CASE app # "running"
    BY <1>1, StatusAfterShutdown DEF HandleEvent
  <1>2. CASE app = "running"
    <2>1. /\ worker = "reading" /\ seen \in 0..Len(log) /\ seen < Len(log) /\ seen' = seen + 1
          /\ UNCHANGED <<log, turn, app>> /\ Len(log) \in Nat /\ seen + 1 \in 1..Len(log)
      BY DEF HandleEvent, runnerVars, IInv, TypeOK
    <2>2. PICK event : event = log[seen + 1]
      OBVIOUS
    <2>3. /\ prompt' = ((prompt /\ event.type # "turn_aborted") \/ Unlocks(event.type))
          /\ status' = CASE Unlocks(event.type) -> "idle"
                         [] event.type = "turn_aborted" -> "aborted"
                         [] event.type = "approval_requested" -> "approval"
                         [] event.type = "session_closed" -> "closed"
                         [] OTHER -> status
          /\ worker' = CASE event.type = "approval_requested" -> "asking"
                         [] event.type = "session_closed" -> "ended"
                         [] OTHER -> "reading"
      BY <2>2 DEF HandleEvent
    <2>4. TurnLog /\ event.type # "session_closed"
      BY <1>2, <2>1, <2>2 DEF StatusInv, TurnLog
    <2>5. event.type = "turn_finished" => seen + 1 = Len(log)
      BY <2>1, <2>2, <2>4 DEF TurnLog, Unseen
    <2>6. \A i \in 1..Len(log) : log[i].type = "turn_aborted" => ~prompt'
      BY <2>1, <2>2, <2>3, <2>4, <2>5 DEF TurnLog, Unlocks
    <2>7. TurnLog'
      <3>1. Unseen("turn_finished")' \subseteq Unseen("turn_finished")
        BY <2>1 DEF Unseen
      <3> QED
        BY <2>1, <2>4, <2>6, <3>1 DEF TurnLog, Closing
    <2>8. CASE turn # "none"
      <3>1. event.type \notin {"turn_finished", "turn_aborted"}
        BY <2>1, <2>2, <2>4, <2>5, <2>8 DEF TurnLog, Closing
      <3>2. status = "running"
        BY <1>2, <2>1, <2>8 DEF StatusInv
      <3>3. worker' = "reading" => status' = "running"
        BY <2>3, <3>1, <3>2, <2>4 DEF Unlocks
      <3> QED
        BY <2>1, <2>7, <2>8, <3>3 DEF StatusInv, StatusFollowsLog
    <2>9. CASE turn = "none"
      <3>1. ASSUME seen' = Len(log)
            PROVE  status' = IF log # <<>> /\ Last(log).type = "turn_aborted"
                             THEN "aborted" ELSE "idle"
        <4>1. event = log[Len(log)] /\ log # <<>> /\ Last(log) = log[Len(log)]
          BY <2>1, <2>2, <3>1 DEF Last
        <4>2. event.type \in {"turn_finished", "turn_aborted"}
          BY <2>4, <2>9, <4>1 DEF TurnLog, Closing
        <4> QED
          BY <2>3, <4>1, <4>2 DEF Unlocks
      <3> QED
        BY <2>1, <2>7, <2>9, <3>1 DEF StatusInv, StatusFollowsLog
    <2> QED
      BY <2>8, <2>9
  <1> QED
    BY <1>1, <1>2

\* A decision is accepted only of a turn in review.
LEMMA StatusBySubmitDecision ==
  ASSUME IInv, StatusInv, SubmitDecision
  PROVE  StatusInv'
  <1>1. UNCHANGED <<log, seen, prompt, app, turn>>
    BY DEF SubmitDecision
  <1>2. app' = "running" => TurnLog'
    BY <1>1 DEF StatusInv, TurnLog, Unseen, Closing
  <1>3. worker' = "reading" => turn # "none" /\ status' = "running"
    BY DEF SubmitDecision, Accepts, StatusAfterDecision
  <1> QED
    BY <1>1, <1>2, <1>3 DEF StatusInv, StatusFollowsLog

LEMMA StatusStep ==
  ASSUME IInv, StatusInv, [Next]_vars
  PROVE  StatusInv'
  <1> USE DEF IInv
  <1>0. call \in 0..MaxCalls /\ TypeOK
    BY DEF TypeOK
  <1>1. CASE ModelEnds
    BY <1>0, <1>1, StatusByEvent DEF ModelEnds, EndTurn, Emit, EventTypes, uiVars
  <1>2. CASE RunTool
    <2>1. /\ call' \in 0..MaxCalls /\ turn = "model"
          /\ UNCHANGED <<seen, prompt, status, worker, app>>
      BY <1>2, ApprovalsAssumption DEF RunTool, TypeOK, uiVars
    <2>2. CASE log' = log /\ turn' = "tool"
      BY <1>0, <2>1, <2>2, StatusSilently
    <2>3. CASE log' = Append(log, Event("tool_call_finished", call', FALSE)) /\ turn' = turn
      BY <2>1, <2>3, StatusByEvent DEF EventTypes
    <2>4. CASE log' = Append(log, Event("approval_requested", call', FALSE)) /\ turn' = "review"
      BY <2>1, <2>4, StatusByEvent DEF EventTypes
    <2> QED
      BY <1>2, <2>2, <2>3, <2>4 DEF RunTool
  <1>3. CASE ReviewEnds
    <2>1. turn = "review" /\ UNCHANGED <<seen, prompt, status, worker, app>>
      BY <1>3 DEF ReviewEnds, uiVars
    <2>2. CASE EndTurn("turn_aborted")
      BY <1>0, <2>1, <2>2, StatusByEvent DEF EndTurn, Emit, EventTypes
    <2>3. CASE log' = Append(log, Event("approval_decided", call, TRUE)) /\ turn' = "tool"
      BY <1>0, <2>1, <2>3, StatusByEvent DEF EventTypes
    <2>4. CASE log' = log \o Refusal /\ turn' = "model"
      BY <2>1, <2>4, StatusByRefusal
    <2> QED
      BY <1>3, <2>2, <2>3, <2>4 DEF ReviewEnds
  <1>4. CASE ToolEnds
    <2>1. turn = "tool" /\ UNCHANGED <<seen, prompt, status, worker, app>>
      BY <1>4 DEF ToolEnds, uiVars
    <2>2. CASE log' = log /\ turn' = "observe"
      BY <1>0, <2>1, <2>2, StatusSilently
    <2>3. CASE Emit("tool_call_finished") /\ turn' = "model"
      BY <1>0, <2>1, <2>3, StatusByEvent DEF Emit, EventTypes
    <2> QED
      BY <1>4, <2>2, <2>3 DEF ToolEnds
  <1>5. CASE ObserversEnd
    BY <1>0, <1>5, StatusByEvent DEF ObserversEnd, Emit, EventTypes, uiVars
  <1>6. CASE CancelEnds
    BY <1>0, <1>6, StatusByEvent DEF CancelEnds, EndTurn, Emit, EventTypes, uiVars
  <1>7. CASE ApprovalDeadline \/ TurnDeadline
    BY <1>0, <1>7, StatusSilently DEF ApprovalDeadline, TurnDeadline, uiVars
  <1>8. CASE SubmitMessage
    BY <1>8, StatusBySubmit
  <1>9. CASE HandleEvent
    BY <1>9, StatusByHandleEvent
  <1>10. CASE UserAnswers
    <2>1. UNCHANGED <<log, seen, prompt, status, app, turn>> /\ worker' # "reading"
      BY <1>10 DEF UserAnswers, runnerVars
    <2> QED
      BY <2>1 DEF StatusInv, StatusFollowsLog, TurnLog, Unseen, Closing
  <1>11. CASE SubmitDecision
    BY <1>11, StatusBySubmitDecision
  <1>12. CASE Shutdown \/ SessionCloses \/ Exit
    BY <1>12, StatusAfterShutdown DEF Shutdown, SessionCloses, Exit
  <1>13. CASE UNCHANGED vars
    BY <1>0, <1>13, StatusSilently DEF vars
  <1> QED
    BY <1>1, <1>2, <1>3, <1>4, <1>5, <1>6, <1>7, <1>8, <1>9, <1>10, <1>11, <1>12, <1>13 DEF Next

\* When the worker (`_consume_events`) has read all there is and no dialog is open, the status line
\* tells where the session is, for any number of turns, calls, deadlines and late answers.
THEOREM StatusTrue == Spec => []StatusFollowsLog
  <1>1. Init => StatusInv
    BY DEF Init, StatusInv, StatusFollowsLog, TurnLog, Unseen
  <1>2. IInv /\ StatusInv /\ [Next]_vars => StatusInv'
    BY StatusStep
  <1>3. StatusInv => StatusFollowsLog
    BY DEF StatusInv
  <1> QED
    BY <1>1, <1>2, <1>3, Invariant, PTL DEF Spec

=============================================================================
