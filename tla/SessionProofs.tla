---------------------------- MODULE SessionProofs ----------------------------
(***************************************************************************)
(* What Session guarantees for every set of messages, callers and batches   *)
(* and every value of the limits. Whatever appends fail: the order in which *)
(* turns run and what they leave in the log, the limits on their tool calls *)
(* and who a cancellation belongs to. As long as the storage takes every    *)
(* event: a turn that is cancelled stops, with its calls, and the session   *)
(* keeps the promises of SessionLog.                                        *)
(***************************************************************************)
EXTENDS Session, FiniteSetTheorems, TLAPS

\* The control states a turn's code moves to and the events it writes.
LEMMA Names ==
  /\ "created" \in Pcs /\ "model" \in Pcs /\ "batch" \in Pcs /\ "echo" \in Pcs
  /\ "prepare" \in Pcs /\ "flush" \in Pcs /\ "record" \in Pcs /\ "answer" \in Pcs
  /\ "finish" \in Pcs /\ "abort" \in Pcs /\ "raise" \in Pcs /\ "handle" \in Pcs
  /\ "unwind" \in Pcs /\ "crash" \in Pcs
  /\ "turn_started" \in EventTypes /\ "user_message" \in EventTypes /\ "context_compacted" \in EventTypes /\ "assistant_message" \in EventTypes
  /\ "model_tool_call" \in EventTypes /\ "tool_call_started" \in EventTypes /\ "tool_call_finished" \in EventTypes /\ "error" \in EventTypes
  /\ "turn_finished" \in EventTypes /\ "turn_aborted" \in EventTypes
  /\ "none" \in Reasons
  BY DEF Pcs, LivePcs, HoldingPcs, EventTypes, Reasons

\* One append by a turn's own code keeps the log, the control states and the fault count typed.
LEMMA EmitType ==
  ASSUME TypeOK, NEW t \in Inputs, NEW type \in EventTypes, NEW reason \in Reasons,
         NEW n \in Int, NEW ok \in Pcs, NEW ko \in Pcs,
         Emit(t, Event(type, t, n, reason), ok, ko)
  PROVE  log' \in Seq(Events) /\ pc' \in [Inputs -> Pcs] /\ faults' \in 0..MaxFaults
<1>1. Event(type, t, n, reason) \in Events
  BY DEF Event, Events
<1>2. log \in Seq(Events)
  BY DEF TypeOK
<1>5. log' \in Seq(Events)
  BY <1>1, <1>2 DEF Emit
<1>3. pc' \in [Inputs -> Pcs]
  BY DEF Emit, TypeOK
<1>4. faults' \in 0..MaxFaults
  BY SessionAssumption DEF Emit, TypeOK
<1> QED
  BY <1>5, <1>3, <1>4

\* The same for an append from inside a call.
LEMMA EmitFromCallType ==
  ASSUME TypeOK, NEW t \in Inputs, NEW k \in 1..Len(calls[t]), NEW type \in EventTypes,
         NEW next \in CallStates, EmitFromCall(t, k, type, next)
  PROVE  /\ log' \in Seq(Events) /\ pc' \in [Inputs -> Pcs] /\ faults' \in 0..MaxFaults
         /\ calls' \in [Inputs -> Seq(CallStates)]
<1>1. CallNo(t, k) \in Int
  BY SessionAssumption DEF CallNo, TypeOK
<1>2. Event(type, t, CallNo(t, k), "none") \in Events
  BY <1>1 DEF Event, Events, Reasons
<1>3. ASSUME NEW st \in CallStates
      PROVE  [calls EXCEPT ![t][k] = st] \in [Inputs -> Seq(CallStates)]
  BY DEF TypeOK
<1>4. "failed" \in CallStates /\ "raise" \in Pcs
  BY DEF CallStates, Pcs, LivePcs, HoldingPcs
<1>5. log \in Seq(Events) /\ faults \in 0..MaxFaults
  BY DEF TypeOK
<1>6. pc \in [Inputs -> Pcs]
  BY DEF TypeOK
<1>7. log' \in Seq(Events)
  BY <1>2, <1>5 DEF EmitFromCall
<1>8. pc' \in [Inputs -> Pcs]
  BY <1>4, <1>6 DEF EmitFromCall
<1>9. faults' \in 0..MaxFaults
  BY <1>5, SessionAssumption DEF EmitFromCall
<1>10. calls' \in [Inputs -> Seq(CallStates)]
  BY <1>3, <1>4 DEF EmitFromCall
<1> QED
  BY <1>7, <1>8, <1>9, <1>10

\* Actions of a turn that write one event and change nothing else of the turn.
LEMMA PlainEmitType ==
  ASSUME TypeOK, NEW t \in Inputs,
         \/ FirstStep(t) \/ EmitUserMessage(t) \/ FlushStreamedMessage(t) \/ EmitAnswer(t)
         \/ Finish(t) \/ Abort(t) \/ HandlerAbort(t)
  PROVE  TypeOK'
<1>1. why[t] \in Reasons
  BY DEF TypeOK
<1>2. /\ log' \in Seq(Events) /\ pc' \in [Inputs -> Pcs] /\ faults' \in 0..MaxFaults
      /\ UNCHANGED <<sessionVars, turnVars, cancels>>
  <2>1. CASE FirstStep(t)
    BY <2>1, EmitType, Names DEF FirstStep
  <2>2. CASE EmitUserMessage(t)
    BY <2>2, EmitType, Names DEF EmitUserMessage
  <2>3. CASE FlushStreamedMessage(t)
    BY <2>3, EmitType, Names DEF FlushStreamedMessage
  <2>4. CASE EmitAnswer(t)
    BY <2>4, EmitType, Names DEF EmitAnswer
  <2>5. CASE Finish(t)
    BY <2>5, EmitType, Names DEF Finish
  <2>6. CASE Abort(t)
    BY <1>1, <2>6, EmitType, Names DEF Abort
  <2>7. CASE HandlerAbort(t)
    BY <1>1, <2>7, EmitType, Names DEF HandlerAbort
  <2> QED
    BY <2>1, <2>2, <2>3, <2>4, <2>5, <2>6, <2>7
<1> QED
  BY <1>2 DEF TypeOK, sessionVars, turnVars

\* Actions of a turn that write no event and touch no call.
LEMMA SilentType ==
  ASSUME TypeOK, NEW t \in Inputs,
         \/ LoseTask(t) \/ ModelAnswer(t) \/ ModelRaises(t) \/ BatchDone(t) \/ BatchFails(t)
  PROVE  TypeOK'
<1>1. pc' \in [Inputs -> Pcs]
  BY DEF LoseTask, ModelAnswer, ModelRaises, BatchDone, BatchFails, TypeOK,
         Pcs, LivePcs, EndedPcs, HoldingPcs
<1>2. UNCHANGED <<sessionVars, turnVars, cancels, log, faults>>
  BY DEF LoseTask, ModelAnswer, ModelRaises, BatchDone, BatchFails
<1> QED
  BY <1>1, <1>2 DEF TypeOK, sessionVars, turnVars

\* Actions of a turn that set the abort reason or the completed-message flag.
LEMMA ModelType ==
  ASSUME TypeOK, NEW t \in Inputs,
         \/ PrepareModelMessages(t) \/ ModelMessageCompleted(t) \/ ModelError(t)
         \/ AbortFromException(t)
  PROVE  TypeOK'
<1>1. /\ why' \in [Inputs -> Reasons] /\ said' \in [Inputs -> BOOLEAN]
      /\ UNCHANGED <<sessionVars, cancels, batch, calls, due, toolCallCount>>
  BY DEF PrepareModelMessages, ModelMessageCompleted, ModelError, AbortFromException,
         TypeOK, Reasons
<1>2. log' \in Seq(Events) /\ pc' \in [Inputs -> Pcs] /\ faults' \in 0..MaxFaults
  <2>1. CASE PrepareModelMessages(t)
    <3>1. pc' = [pc EXCEPT ![t] = "model"] \/ pc' = [pc EXCEPT ![t] = "abort"]
            => pc' \in [Inputs -> Pcs]
      BY DEF TypeOK, Pcs, LivePcs, HoldingPcs
    <3>2. log \in Seq(Events) /\ faults \in 0..MaxFaults
      BY DEF TypeOK
    <3>3. CASE Emit(t, Event("context_compacted", t, 0, "none"), "model", "raise")
      BY <3>3, EmitType, Names
    <3>4. CASE /\ pc' = [pc EXCEPT ![t] = "model"] \/ pc' = [pc EXCEPT ![t] = "abort"]
               /\ UNCHANGED <<log, faults>>
      BY <3>1, <3>2, <3>4
    <3> QED
      BY <2>1, <3>3, <3>4 DEF PrepareModelMessages
  <2>2. CASE ModelMessageCompleted(t)
    BY <2>2, EmitType, Names DEF ModelMessageCompleted
  <2>3. CASE ModelError(t)
    BY <2>3, EmitType, Names DEF ModelError
  <2>4. CASE AbortFromException(t)
    BY <2>4, EmitType, Names DEF AbortFromException
  <2> QED
    BY <2>1, <2>2, <2>3, <2>4
<1> QED
  BY <1>1, <1>2 DEF TypeOK, sessionVars

\* The recording of a batch.
LEMMA RecordType ==
  ASSUME TypeOK, NEW t \in Inputs
  PROVE  /\ \A b \in Batches : ModelToolCalls(t, b) => TypeOK'
         /\ RecordToolCalls(t) => TypeOK'
<1>1. ASSUME NEW b \in Batches, ModelToolCalls(t, b)
      PROVE  TypeOK'
  <2>1. pc' \in [Inputs -> Pcs]
    BY <1>1 DEF ModelToolCalls, TypeOK, Pcs, LivePcs, HoldingPcs
  <2>2. batch' \in [Inputs -> Batches \cup {<<>>}]
    BY <1>1 DEF ModelToolCalls, TypeOK
  <2>3. calls' \in [Inputs -> Seq(CallStates)]
    BY <1>1 DEF ModelToolCalls, TypeOK
  <2> QED
    BY <1>1, <2>1, <2>2, <2>3 DEF ModelToolCalls, TypeOK, sessionVars
<1>2. ASSUME RecordToolCalls(t)
      PROVE  TypeOK'
  <2>1. Len(batch[t]) \in Nat /\ toolCallCount[t] \in 0..MaxToolCalls
    BY SessionAssumption DEF TypeOK
  <2>2. calls[t] \in Seq(CallStates)
    BY DEF TypeOK
  <2>3. toolCallCount' \in [Inputs -> 0..MaxToolCalls]
    <3>1. toolCallCount \in [Inputs -> 0..MaxToolCalls] /\ MaxToolCalls \in Nat
      BY SessionAssumption DEF TypeOK
    <3>2. ~BudgetExceeded(t) => toolCallCount[t] + Len(batch[t]) \in 0..MaxToolCalls
      BY <2>1, <3>1 DEF BudgetExceeded
    <3>3. ASSUME NEW n \in 0..MaxToolCalls
          PROVE  [toolCallCount EXCEPT ![t] = n] \in [Inputs -> 0..MaxToolCalls]
      BY <3>1
    <3> QED
      BY <1>2, <3>1, <3>2, <3>3 DEF RecordToolCalls
  <2>4. calls' \in [Inputs -> Seq(CallStates)]
    <3>1. Append(calls[t], "recorded") \in Seq(CallStates)
      BY <2>2 DEF CallStates
    <3>2. [j \in 1..Len(calls[t]) |-> "todo"] \in Seq(CallStates)
      <4>1. Len(calls[t]) \in Nat /\ "todo" \in CallStates
        BY <2>2 DEF CallStates
      <4>2. \A n \in Nat : [j \in 1..n |-> "todo"] \in Seq(CallStates)
        BY <4>1
      <4> QED
        BY <4>1, <4>2
    <3>3. ASSUME NEW s \in Seq(CallStates)
          PROVE  [calls EXCEPT ![t] = s] \in [Inputs -> Seq(CallStates)]
      BY DEF TypeOK
    <3> QED
      BY <1>2, <3>1, <3>2, <3>3 DEF RecordToolCalls, TypeOK
  <2>5. why' \in [Inputs -> Reasons]
    BY <1>2 DEF RecordToolCalls, TypeOK, Reasons
  <2>6. log' \in Seq(Events) /\ pc' \in [Inputs -> Pcs] /\ faults' \in 0..MaxFaults
    <3>1. Len(calls[t]) \in Nat
      BY <2>2
    <3>2. toolCallCount[t] + (Len(calls[t]) + 1) \in Int
      BY <2>1, <3>1, SessionAssumption
    <3>3. pc' = [pc EXCEPT ![t] = "batch"] \/ pc' = [pc EXCEPT ![t] = "abort"]
            => pc' \in [Inputs -> Pcs]
      BY DEF TypeOK, Pcs, LivePcs, HoldingPcs
    <3>4. log \in Seq(Events) /\ faults \in 0..MaxFaults
      BY DEF TypeOK
    <3> QED
      BY <1>2, <3>2, <3>3, <3>4, EmitType, Names DEF RecordToolCalls
  <2> QED
    BY <1>2, <2>3, <2>4, <2>5, <2>6 DEF RecordToolCalls, TypeOK, sessionVars
<1> QED
  BY <1>1, <1>2

\* The steps of the calls of a batch.
LEMMA CallType ==
  ASSUME TypeOK, NEW t \in Inputs, NEW k \in CallIndices,
         \/ StartCall(t, k) \/ Approve(t, k) \/ CallReturns(t, k) \/ CallRefused(t, k)
         \/ CallDeadline(t, k) \/ CallTimesOut(t, k)
  PROVE  TypeOK'
<1>1. k \in 1..Len(calls[t])
  BY DEF StartCall, Approve, CallReturns, CallRefused, CallDeadline, CallTimesOut, Runs
<1>2. calls[t] \in Seq(CallStates) /\ k \in Nat
  BY <1>1 DEF TypeOK
<1>3. /\ UNCHANGED <<status, queue, runner, caller, closedEventEmitted, cancels, why, said,
                     batch, toolCallCount>>
      /\ due' \in [Inputs -> SUBSET Nat]
  BY <1>2 DEF StartCall, Approve, CallReturns, CallRefused, CallDeadline, CallTimesOut,
              sessionVars, TypeOK
<1>4. /\ log' \in Seq(Events) /\ pc' \in [Inputs -> Pcs] /\ faults' \in 0..MaxFaults
      /\ calls' \in [Inputs -> Seq(CallStates)]
  <2>1. CASE StartCall(t, k)
    <3>1. PICK st \in CallStates : EmitFromCall(t, k, "tool_call_started", st)
      BY <2>1 DEF StartCall, CallStates
    <3> QED
      BY <1>1, <3>1, EmitFromCallType DEF EventTypes
  <2>2. CASE CallReturns(t, k) \/ CallRefused(t, k) \/ CallTimesOut(t, k)
    <3>1. EmitFromCall(t, k, "tool_call_finished", "done")
      BY <2>2 DEF CallReturns, CallRefused, CallTimesOut
    <3> QED
      BY <1>1, <3>1, EmitFromCallType DEF EventTypes, CallStates
  <2>3. CASE Approve(t, k) \/ CallDeadline(t, k)
    <3>1. UNCHANGED <<log, pc, faults>>
      BY <2>3 DEF Approve, CallDeadline
    <3>2. calls' = [calls EXCEPT ![t][k] = "exec"] \/ calls' = calls
      BY <2>3 DEF Approve, CallDeadline
    <3>3. [calls EXCEPT ![t][k] = "exec"] \in [Inputs -> Seq(CallStates)]
      BY <1>1 DEF TypeOK, CallStates
    <3> QED
      BY <3>1, <3>2, <3>3 DEF TypeOK
  <2> QED
    BY <2>1, <2>2, <2>3
<1> QED
  BY <1>3, <1>4 DEF TypeOK

\* The deadline and the cancellation of the turn.
LEMMA CancelType ==
  ASSUME TypeOK, NEW t \in Inputs, TurnDeadline(t) \/ CancelTurn(t)
  PROVE  TypeOK'
<1>1. CASE TurnDeadline(t)
  <2>1. cancels' \in [Inputs -> SUBSET Requests]
    BY <1>1 DEF TurnDeadline, TypeOK, Requests
  <2> QED
    BY <1>1, <2>1 DEF TurnDeadline, TypeOK, sessionVars, turnVars
<1>2. CASE CancelTurn(t)
  <2>1. why' \in [Inputs -> Reasons] /\ pc' \in [Inputs -> Pcs]
    BY <1>2 DEF CancelTurn, CancelReason, TypeOK, Reasons, Requests, Pcs, LivePcs, HoldingPcs
  <2>2. due' \in [Inputs -> SUBSET Nat]
    BY <1>2 DEF CancelTurn, CancelCalls, TypeOK
  <2>3. calls' \in [Inputs -> Seq(CallStates)]
    <3>1. calls \in [Inputs -> Seq(CallStates)]
      BY DEF TypeOK
    <3>2. calls[t] \in Seq(CallStates) /\ Len(calls[t]) \in Nat
      BY <3>1
    <3>3. ASSUME NEW s \in Seq(CallStates)
          PROVE  [calls EXCEPT ![t] = s] \in [Inputs -> Seq(CallStates)]
      BY <3>1
    <3>4. [k \in 1..Len(calls[t]) |-> IF calls[t][k] = "done" THEN "done" ELSE "cancelled"]
            \in Seq(CallStates)
      <4>1. "done" \in CallStates /\ "cancelled" \in CallStates
        BY DEF CallStates
      <4> QED
        BY <3>2, <4>1
    <3> QED
      BY <1>2, <3>1, <3>3, <3>4 DEF CancelTurn, CancelCalls
  <2> QED
    BY <1>2, <2>1, <2>2, <2>3 DEF CancelTurn, TypeOK, sessionVars
<1> QED
  BY <1>1, <1>2

\* Starting a queued turn, from any state of the session's fields.
LEMMA StartType ==
  ASSUME NEW s \in Statuses, NEW q \in Seq(Inputs), NEW r \in Inputs \cup {NoTurn},
         NEW p \in [Inputs -> Pcs], StartTurnIfIdle(s, q, r, p)
  PROVE  /\ status' \in Statuses /\ queue' \in Seq(Inputs)
         /\ runner' \in Inputs \cup {NoTurn} /\ pc' \in [Inputs -> Pcs]
<1>1. CASE s = "idle" /\ r = NoTurn /\ q # <<>>
  <2>1. Tail(q) \in Seq(Inputs) /\ Head(q) \in Inputs
    BY <1>1
  <2>2. [p EXCEPT ![Head(q)] = "created"] \in [Inputs -> Pcs]
    BY <2>1 DEF Pcs, LivePcs
  <2>3. "running" \in Statuses
    BY DEF Statuses
  <2> QED
    BY <1>1, <2>1, <2>2, <2>3 DEF StartTurnIfIdle
<1>2. CASE ~(s = "idle" /\ r = NoTurn /\ q # <<>>)
  BY <1>2 DEF StartTurnIfIdle
<1> QED
  BY <1>1, <1>2

\* The finally block of a turn.
LEMMA UnwindType ==
  ASSUME TypeOK, NEW t \in Inputs, Unwind(t)
  PROVE  TypeOK'
<1> DEFINE ended == [pc EXCEPT ![t] = IF pc[t] = "unwind" THEN "done" ELSE "failed"]
<1>1. ended \in [Inputs -> Pcs]
  BY DEF TypeOK, Pcs, EndedPcs
<1>2. ReleasedBy(t) \in Inputs \cup {NoTurn}
  BY DEF ReleasedBy, TypeOK
<1>3. "idle" \in Statuses /\ queue \in Seq(Inputs) /\ status \in Statuses
  BY DEF Statuses, TypeOK
<1>4. /\ status' \in Statuses /\ queue' \in Seq(Inputs)
      /\ runner' \in Inputs \cup {NoTurn} /\ pc' \in [Inputs -> Pcs]
  <2>1. CASE ShouldContinue
    <3>1. StartTurnIfIdle("idle", queue, ReleasedBy(t), ended)
      BY <2>1 DEF Unwind
    <3> HIDE DEF ended
    <3> QED
      BY <1>1, <1>2, <1>3, <3>1, StartType
  <2>2. CASE ~ShouldContinue
    BY <1>1, <1>2, <1>3, <2>2 DEF Unwind
  <2> QED
    BY <2>1, <2>2
<1>5. UNCHANGED <<turnVars, cancels, log, caller, closedEventEmitted, faults>>
  BY DEF Unwind
<1> QED
  BY <1>4, <1>5 DEF TypeOK, turnVars

\* A submitted message, whether it waits or starts a turn.
LEMMA SubmitType ==
  ASSUME TypeOK, NEW i \in Inputs, Submit(i)
  PROVE  TypeOK'
<1>1. [pc EXCEPT ![i] = "queued"] \in [Inputs -> Pcs]
  BY DEF TypeOK, Pcs
<1>2. queue \in Seq(Inputs) /\ status \in Statuses /\ runner \in Inputs \cup {NoTurn}
  BY DEF TypeOK
<1>3. Append(queue, i) \in Seq(Inputs)
  BY <1>2
<1>4. StartTurnIfIdle(status, Append(queue, i), runner, [pc EXCEPT ![i] = "queued"])
  BY DEF Submit
<1>5. /\ status' \in Statuses /\ queue' \in Seq(Inputs)
      /\ runner' \in Inputs \cup {NoTurn} /\ pc' \in [Inputs -> Pcs]
  BY <1>1, <1>2, <1>3, <1>4, StartType
<1>6. UNCHANGED <<turnVars, cancels, log, caller, closedEventEmitted, faults>>
  BY DEF Submit
<1> QED
  BY <1>5, <1>6 DEF TypeOK, turnVars

\* The callers of interrupt() and close().
LEMMA CallerType ==
  ASSUME TypeOK, NEW c \in Callers,
         Interrupt(c) \/ InterruptEnds(c) \/ Close(c) \/ CloseEnds(c)
  PROVE  TypeOK'
<1>1. UNCHANGED <<queue, runner, pc, turnVars>>
  BY DEF Interrupt, InterruptEnds, Close, CloseEnds
<1>2. status' \in Statuses
  BY DEF Interrupt, InterruptEnds, Close, CloseEnds, TypeOK, Statuses
<1>3. cancels' \in [Inputs -> SUBSET Requests]
  <2>1. cancels \in [Inputs -> SUBSET Requests]
    BY DEF TypeOK
  <2>2. [cancels EXCEPT ![runner] = {"interrupt"}] \in [Inputs -> SUBSET Requests]
    BY <2>1 DEF Requests
  <2>3. [cancels EXCEPT ![runner] = {"session_closed"}] \in [Inputs -> SUBSET Requests]
    BY <2>1 DEF Requests
  <2> QED
    BY <2>1, <2>2, <2>3 DEF Interrupt, InterruptEnds, Close, CloseEnds, RequestCancel
<1>4. caller' \in [Callers -> CallerStates]
  <2>1. caller \in [Callers -> CallerStates] /\ runner \in Inputs \cup {NoTurn}
    BY DEF TypeOK
  <2>2. CASE Interrupt(c)
    BY <2>1, <2>2 DEF Interrupt, CallerStates
  <2>3. CASE InterruptEnds(c)
    BY <2>1, <2>3 DEF InterruptEnds, CallerStates
  <2>4. CASE Close(c)
    BY <2>1, <2>4 DEF Close, EmitClosed, CallerStates
  <2>5. CASE CloseEnds(c)
    BY <2>1, <2>5 DEF CloseEnds, EmitClosed, CallerStates
  <2> QED
    BY <2>2, <2>3, <2>4, <2>5
<1>5. log' \in Seq(Events) /\ closedEventEmitted' \in BOOLEAN /\ faults' \in 0..MaxFaults
  <2>1. log \in Seq(Events) /\ closedEventEmitted \in BOOLEAN /\ faults \in 0..MaxFaults
    BY DEF TypeOK
  <2>2. Event("session_closed", NoTurn, 0, "none") \in Events
    BY DEF Event, Events, EventTypes, Reasons
  <2>3. UNCHANGED <<log, closedEventEmitted, faults>> \/ EmitClosed(c)
    BY DEF Interrupt, InterruptEnds, Close, CloseEnds
  <2>4. CASE EmitClosed(c)
    <3>1. log' \in Seq(Events)
      BY <2>1, <2>2, <2>4 DEF EmitClosed
    <3>2. closedEventEmitted' \in BOOLEAN
      BY <2>1, <2>4 DEF EmitClosed
    <3>3. faults' \in 0..MaxFaults
      BY <2>1, <2>4, SessionAssumption DEF EmitClosed
    <3> QED
      BY <3>1, <3>2, <3>3
  <2> QED
    BY <2>1, <2>3, <2>4
<1> QED
  BY <1>1, <1>2, <1>3, <1>4, <1>5 DEF TypeOK, turnVars

\* A new session is well typed.
LEMMA InitType == Init => TypeOK
<1> SUFFICES ASSUME Init PROVE TypeOK
  OBVIOUS
<1>1. queue \in Seq(Inputs) /\ log \in Seq(Events)
  BY DEF Init
<1>2. calls \in [Inputs -> Seq(CallStates)]
  BY DEF Init
<1>3. toolCallCount \in [Inputs -> 0..MaxToolCalls] /\ faults \in 0..MaxFaults
  BY SessionAssumption DEF Init
<1>4. caller \in [Callers -> CallerStates]
  BY DEF Init, Idle, CallerStates
<1> QED
  BY <1>1, <1>2, <1>3, <1>4 DEF Init, TypeOK, Statuses, Pcs, Reasons

\* Every step keeps the session well typed.
LEMMA TypeStep == TypeOK /\ [Next]_vars => TypeOK'
<1> SUFFICES ASSUME TypeOK, [Next]_vars PROVE TypeOK'
  OBVIOUS
<1>1. ASSUME NEW t \in Inputs, RunTurn(t)
      PROVE  TypeOK'
  BY <1>1, PlainEmitType, SilentType, ModelType, RecordType, CallType, CancelType, UnwindType
     DEF RunTurn
<1>2. ASSUME NEW t \in Inputs, Environment(t)
      PROVE  TypeOK'
  BY <1>2, SilentType, ModelType, RecordType, CallType DEF Environment
<1>3. ASSUME NEW t \in Inputs, TurnDeadline(t)
      PROVE  TypeOK'
  BY <1>3, CancelType
<1>4. CASE Client
  BY <1>4, SubmitType, CallerType DEF Client
<1>5. ASSUME NEW c \in Callers, InterruptEnds(c) \/ CloseEnds(c)
      PROVE  TypeOK'
  BY <1>5, CallerType
<1>6. CASE UNCHANGED vars
  BY <1>6 DEF vars, TypeOK
<1> QED
  BY <1>1, <1>2, <1>3, <1>4, <1>5, <1>6 DEF Next

\* Every reachable state is well typed; in particular the tool call counter of a turn never
\* passes max_tool_calls (the check before the batch is recorded, turn.py).
THEOREM TypeCorrect == Spec => []TypeOK
<1>1. Init => TypeOK
  BY InitType
<1>2. TypeOK /\ [Next]_vars => TypeOK'
  BY TypeStep
<1> QED
  BY <1>1, <1>2, PTL DEF Spec

-----------------------------------------------------------------------------
(* One runner *)

\* Every step of a turn but its last leaves the session's own fields alone, and keeps the
\* task of a live turn alive (or loses it before its first step).
LEMMA TurnKeepsSlot ==
  ASSUME TypeOK, NEW t \in Inputs,
         RunTurn(t) \/ Environment(t) \/ TurnDeadline(t), ~Unwind(t)
  PROVE  /\ UNCHANGED <<status, queue, runner, caller>>
         /\ \/ pc' = pc
            \/ /\ pc[t] \in LivePcs
               /\ \E x \in LivePcs \cup {"lost"} : pc' = [pc EXCEPT ![t] = x]
<1>1. ASSUME NEW k \in CallIndices,
             \/ StartCall(t, k) \/ Approve(t, k) \/ CallReturns(t, k) \/ CallRefused(t, k)
             \/ CallDeadline(t, k) \/ CallTimesOut(t, k)
      PROVE  /\ UNCHANGED <<status, queue, runner, caller>>
             /\ \/ pc' = pc
                \/ /\ pc[t] \in LivePcs
                   /\ \E x \in LivePcs \cup {"lost"} : pc' = [pc EXCEPT ![t] = x]
  BY <1>1 DEF StartCall, Approve, CallReturns, CallRefused, CallDeadline, CallTimesOut, Runs,
              EmitFromCall, sessionVars, LivePcs, HoldingPcs
<1>2. CASE \/ FirstStep(t) \/ LoseTask(t) \/ EmitUserMessage(t) \/ PrepareModelMessages(t)
           \/ FlushStreamedMessage(t) \/ RecordToolCalls(t) \/ EmitAnswer(t) \/ Finish(t)
  BY <1>2 DEF FirstStep, LoseTask, EmitUserMessage, PrepareModelMessages, FlushStreamedMessage,
              RecordToolCalls, EmitAnswer, Finish, Emit, sessionVars, LivePcs, HoldingPcs
<1>3. CASE \/ BatchDone(t) \/ BatchFails(t) \/ CancelTurn(t) \/ Abort(t)
           \/ AbortFromException(t) \/ HandlerAbort(t) \/ TurnDeadline(t)
  BY <1>3 DEF BatchDone, BatchFails, CancelTurn, Abort, AbortFromException, HandlerAbort,
              TurnDeadline, Emit, sessionVars, LivePcs, HoldingPcs
<1>4. CASE \/ ModelMessageCompleted(t) \/ ModelAnswer(t) \/ ModelError(t) \/ ModelRaises(t)
           \/ \E b \in Batches : ModelToolCalls(t, b)
  BY <1>4 DEF ModelMessageCompleted, ModelAnswer, ModelError, ModelRaises, ModelToolCalls,
              Streaming, Emit, sessionVars, LivePcs, HoldingPcs
<1> QED
  BY <1>1, <1>2, <1>3, <1>4 DEF RunTurn, Environment

\* Handing the free slot to the queue, as submit() and the finally block of _run_turn do it.
LEMMA StartKeepsSlot ==
  ASSUME NEW q \in Seq(Inputs), NEW p \in [Inputs -> Pcs],
         \A t \in Inputs : p[t] \notin LivePcs \cup {"lost"},
         \A t \in Inputs : p[t] = "queued" => \E i \in 1..Len(q) : q[i] = t,
         StartTurnIfIdle("idle", q, NoTurn, p)
  PROVE  SingleRunner'
<1>1. CASE q = <<>>
  <2>1. queue' = q /\ runner' = NoTurn /\ status' = "idle" /\ pc' = p
    BY <1>1 DEF StartTurnIfIdle
  <2> QED
    BY <1>1, <2>1, SessionAssumption DEF SingleRunner
<1>2. CASE q # <<>>
  <2> DEFINE h == Head(q)
  <2>1. h \in Inputs /\ Len(q) \in Nat \ {0} /\ Len(Tail(q)) = Len(q) - 1
    BY <1>2
  <2>2. \A i \in 1..Len(q) : i # 1 => i - 1 \in 1..Len(Tail(q)) /\ Tail(q)[i - 1] = q[i]
    BY <1>2
  <2>3. queue' = Tail(q) /\ runner' = h /\ status' = "running" /\ pc' = [p EXCEPT ![h] = "created"]
    BY <1>2 DEF StartTurnIfIdle
  <2>4. q[1] = h
    BY <1>2
  <2> HIDE DEF h
  <2>5. h # NoTurn
    BY <2>1, SessionAssumption
  <2>6. \A t \in Inputs : pc'[t] \in LivePcs \cup {"lost"} <=> runner' = t
    BY <2>1, <2>3 DEF LivePcs
  <2>7. ASSUME NEW t \in Inputs, pc'[t] = "queued"
        PROVE  \E i \in 1..Len(queue') : queue'[i] = t
    <3>1. t # h /\ p[t] = "queued"
      BY <2>1, <2>3, <2>7
    <3>2. PICK i \in 1..Len(q) : q[i] = t
      BY <3>1
    <3>3. i # 1
      BY <2>4, <3>1, <3>2
    <3> QED
      BY <2>2, <2>3, <3>2, <3>3
  <2> QED
    BY <2>3, <2>5, <2>6, <2>7 DEF SingleRunner
<1> QED
  BY <1>1, <1>2

\* Every step keeps the slot and the tasks in agreement.
LEMMA SingleRunnerStep == TypeOK /\ SingleRunner /\ [Next]_vars => SingleRunner'
<1> SUFFICES ASSUME TypeOK, SingleRunner, [Next]_vars PROVE SingleRunner'
  OBVIOUS
<1> USE SessionAssumption
<1>1. ASSUME NEW t \in Inputs, RunTurn(t) \/ Environment(t) \/ TurnDeadline(t), ~Unwind(t)
      PROVE  SingleRunner'
  <2>1. /\ UNCHANGED <<status, queue, runner>>
        /\ \/ pc' = pc
           \/ /\ pc[t] \in LivePcs
              /\ \E x \in LivePcs \cup {"lost"} : pc' = [pc EXCEPT ![t] = x]
    BY <1>1, TurnKeepsSlot
  <2>2. \A u \in Inputs : pc'[u] \in LivePcs \cup {"lost"} <=> pc[u] \in LivePcs \cup {"lost"}
    BY <2>1 DEF TypeOK
  <2>3. \A u \in Inputs : pc'[u] = "queued" => pc[u] = "queued"
    BY <2>1 DEF TypeOK, LivePcs, HoldingPcs
  <2> QED
    BY <2>1, <2>2, <2>3 DEF SingleRunner
<1>2. ASSUME NEW t \in Inputs, Unwind(t)
      PROVE  SingleRunner'
  <2> DEFINE ended == [pc EXCEPT ![t] = IF pc[t] = "unwind" THEN "done" ELSE "failed"]
  <2>1. runner = t /\ ReleasedBy(t) = NoTurn
    BY <1>2 DEF Unwind, SingleRunner, ReleasedBy, LivePcs, HoldingPcs
  <2>2. ended \in [Inputs -> Pcs] /\ queue \in Seq(Inputs)
    BY DEF TypeOK, Pcs, EndedPcs
  <2>3. \A u \in Inputs : ended[u] \notin LivePcs \cup {"lost"}
    BY <2>1 DEF SingleRunner, LivePcs, HoldingPcs, TypeOK
  <2>4. \A u \in Inputs : ended[u] = "queued" => \E i \in 1..Len(queue) : queue[i] = u
    BY DEF SingleRunner, TypeOK
  <2>5. CASE ShouldContinue
    <3>1. StartTurnIfIdle("idle", queue, NoTurn, ended)
      BY <1>2, <2>1, <2>5 DEF Unwind
    <3> HIDE DEF ended
    <3> QED
      BY <2>2, <2>3, <2>4, <3>1, StartKeepsSlot
  <2>6. CASE ~ShouldContinue
    <3>1. runner' = NoTurn /\ pc' = ended /\ status' = "closed" /\ queue' = queue
      BY <1>2, <2>1, <2>6 DEF Unwind, ShouldContinue
    <3> HIDE DEF ended
    <3> QED
      BY <2>3, <2>4, <3>1 DEF SingleRunner
  <2> QED
    BY <2>5, <2>6
<1>3. ASSUME NEW i \in Inputs, Submit(i)
      PROVE  SingleRunner'
  <2> DEFINE p == [pc EXCEPT ![i] = "queued"]
             q == Append(queue, i)
  <2>1. queue \in Seq(Inputs) /\ pc \in [Inputs -> Pcs]
    BY DEF TypeOK
  <2>2. q \in Seq(Inputs) /\ Len(q) = Len(queue) + 1 /\ Len(queue) \in Nat /\ q[Len(q)] = i
    BY <2>1
  <2>3. \A j \in 1..Len(queue) : j \in 1..Len(q) /\ q[j] = queue[j]
    BY <2>1
  <2>4. p \in [Inputs -> Pcs]
    BY <2>1 DEF Pcs
  <2>5. \A u \in Inputs : p[u] \in LivePcs \cup {"lost"} <=> runner = u
    BY <1>3, <2>1 DEF SingleRunner, Submit, LivePcs, HoldingPcs
  <2>6. \A u \in Inputs : p[u] = "queued" => \E j \in 1..Len(q) : q[j] = u
    <3> SUFFICES ASSUME NEW u \in Inputs, p[u] = "queued" PROVE \E j \in 1..Len(q) : q[j] = u
      OBVIOUS
    <3>1. CASE u = i
      BY <2>2, <3>1
    <3>2. CASE u # i
      <4>1. pc[u] = "queued"
        BY <2>1, <3>2
      <4>2. PICK j \in 1..Len(queue) : queue[j] = u
        BY <4>1 DEF SingleRunner
      <4> QED
        BY <2>3, <4>2
    <3> QED
      BY <3>1, <3>2
  <2>7. StartTurnIfIdle(status, q, runner, p) /\ status # "closed"
    BY <1>3 DEF Submit
  <2> HIDE DEF p, q
  <2>8. CASE status = "idle"
    <3>1. runner = NoTurn
      BY <2>8 DEF SingleRunner
    <3>2. \A u \in Inputs : p[u] \notin LivePcs \cup {"lost"}
      BY <2>5, <3>1
    <3> QED
      BY <2>2, <2>4, <2>6, <2>7, <2>8, <3>1, <3>2, StartKeepsSlot
  <2>9. CASE status # "idle"
    <3>1. queue' = q /\ runner' = runner /\ status' = status /\ pc' = p
      BY <2>7, <2>9 DEF StartTurnIfIdle
    <3> QED
      BY <2>5, <2>6, <2>9, <3>1 DEF SingleRunner
  <2> QED
    BY <2>8, <2>9
<1>4. ASSUME NEW c \in Callers, Interrupt(c) \/ InterruptEnds(c) \/ Close(c) \/ CloseEnds(c)
      PROVE  SingleRunner'
  <2>1. UNCHANGED <<queue, runner, pc>>
    BY <1>4 DEF Interrupt, InterruptEnds, Close, CloseEnds
  <2>2. \/ status' = status
        \/ status' = "interrupted" /\ status # "closed" /\ runner # NoTurn
        \/ status' = "closed"
    BY <1>4 DEF Interrupt, InterruptEnds, Close, CloseEnds
  <2> QED
    BY <2>1, <2>2 DEF SingleRunner
<1>5. CASE UNCHANGED vars
  BY <1>5 DEF vars, SingleRunner
<1> QED
  BY <1>1, <1>2, <1>3, <1>4, <1>5 DEF Next, Client, RunTurn

\* Whatever clients submit, interrupt and close, and whatever appends fail, the session never
\* runs two turns, never loses a queued message while idle, and its runner slot names the
\* live task (core/session.py, start_turn_if_idle and the finally block of _run_turn).
THEOREM OneRunner == Spec => []SingleRunner
<1>1. Init => SingleRunner
  BY SessionAssumption DEF Init, SingleRunner, LivePcs, HoldingPcs
<1>2. TypeOK /\ SingleRunner /\ [Next]_vars => SingleRunner'
  BY SingleRunnerStep
<1> QED
  BY <1>1, <1>2, TypeCorrect, PTL DEF Spec

\* Once close() has begun, no step opens the session again, takes a message from the queue or
\* puts another task into the slot (submit() refuses; _run_turn skips start_turn_if_idle).
THEOREM ClosedForGood == Spec => NothingStartsAfterClose
<1> DEFINE Stays == status' = "closed" /\ queue' = queue
                    /\ (runner' = runner \/ runner' = NoTurn)
<1>1. TypeOK /\ [Next]_vars => (status = "closed" => Stays)
  <2> SUFFICES ASSUME TypeOK, [Next]_vars, status = "closed" PROVE Stays
    OBVIOUS
  <2>1. ASSUME NEW t \in Inputs, RunTurn(t) \/ Environment(t) \/ TurnDeadline(t), ~Unwind(t)
        PROVE  Stays
    BY <2>1, TurnKeepsSlot
  <2>2. ASSUME NEW t \in Inputs, Unwind(t)
        PROVE  Stays
    BY <2>2 DEF Unwind, ShouldContinue, ReleasedBy
  <2>3. CASE Client
    BY <2>3 DEF Client, Submit, Interrupt, Close
  <2>4. ASSUME NEW c \in Callers, InterruptEnds(c) \/ CloseEnds(c)
        PROVE  Stays
    BY <2>4 DEF InterruptEnds, CloseEnds
  <2>5. CASE UNCHANGED vars
    BY <2>5 DEF vars
  <2> QED
    BY <2>1, <2>2, <2>3, <2>4, <2>5 DEF Next, RunTurn
<1> QED
  BY <1>1, TypeCorrect, PTL DEF Spec, NothingStartsAfterClose

-----------------------------------------------------------------------------
(* Completion barriers *)

\* The log only grows by appends.
LogGrows == log' = log \/ \E e \in Events : log' = Append(log, e)

\* What was logged stays logged.
LEMMA LoggedStays ==
  ASSUME TypeOK, LogGrows, NEW t, NEW type, Logged(type, t)
  PROVE  Logged(type, t)'
<1>1. log \in Seq(Events)
  BY DEF TypeOK
<1>2. CASE log' = log
  BY <1>2 DEF Logged
<1>3. ASSUME NEW e \in Events, log' = Append(log, e)
      PROVE  Logged(type, t)'
  <2>1. PICK i \in 1..Len(log) : log[i].type = type /\ log[i].turn = t
    BY DEF Logged
  <2>2. i \in 1..Len(log') /\ log'[i] = log[i]
    BY <1>1, <1>3, <2>1
  <2> QED
    BY <2>1, <2>2 DEF Logged
<1> QED
  BY <1>2, <1>3 DEF LogGrows

\* What is appended is logged.
LEMMA AppendLogs ==
  ASSUME TypeOK, NEW t, NEW type, NEW n, NEW reason, log' = Append(log, Event(type, t, n, reason))
  PROVE  Logged(type, t)'
<1>1. log \in Seq(Events)
  BY DEF TypeOK
<1>2. Len(log') \in 1..Len(log') /\ log'[Len(log')] = Event(type, t, n, reason)
  BY <1>1
<1> QED
  BY <1>2 DEF Logged, Event

\* The inductive form: a turn in its finally block after a normal end, or ended normally, has
\* its terminal event; a caller that returned waited for exactly such a turn.
BarrierInv ==
  /\ \A t \in Inputs : pc[t] \in {"unwind", "done"} => Terminal(t)
  /\ BarrierReturns

\* A step that ends a turn normally writes its terminal event.
EndsAreLogged ==
  /\ LogGrows
  /\ \A u \in Inputs : pc'[u] \in {"unwind", "done"} =>
       pc[u] \in {"unwind", "done"} \/ Terminal(u)'

\* A turn's step leaves the turns alone that already ended, and the finally block is entered
\* normally only by writing a terminal event.
LEMMA TurnStepBarrier ==
  ASSUME TypeOK, NEW t \in Inputs,
         RunTurn(t) \/ Environment(t) \/ TurnDeadline(t), ~Unwind(t)
  PROVE  EndsAreLogged
<1>1. ASSUME NEW k \in CallIndices,
             \/ StartCall(t, k) \/ Approve(t, k) \/ CallReturns(t, k) \/ CallRefused(t, k)
             \/ CallDeadline(t, k) \/ CallTimesOut(t, k)
      PROVE  EndsAreLogged
  <2>1. pc' = pc \/ pc' = [pc EXCEPT ![t] = "raise"]
    BY <1>1 DEF StartCall, Approve, CallReturns, CallRefused, CallDeadline, CallTimesOut,
                EmitFromCall
  <2>2. \/ log' = log
        \/ \E type \in EventTypes : log' = Append(log, Event(type, t, CallNo(t, k), "none"))
    BY <1>1 DEF StartCall, Approve, CallReturns, CallRefused, CallDeadline, CallTimesOut,
                EmitFromCall, EventTypes
  <2>3. CallNo(t, k) \in Int
    <3>1. k \in 1..Len(calls[t]) /\ calls[t] \in Seq(CallStates)
      BY <1>1 DEF StartCall, Approve, CallReturns, CallRefused, CallDeadline, CallTimesOut,
                  Runs, TypeOK
    <3>2. toolCallCount[t] \in Int /\ Len(batch[t]) \in Nat
      BY SessionAssumption DEF TypeOK
    <3> QED
      BY <3>1, <3>2 DEF CallNo
  <2>4. \A type \in EventTypes : Event(type, t, CallNo(t, k), "none") \in Events
    BY <2>3 DEF Event, Events, Reasons
  <2>5. LogGrows
    BY <2>2, <2>4 DEF LogGrows
  <2> QED
    BY <2>1, <2>5 DEF EndsAreLogged, TypeOK
<1>2. ASSUME NEW type \in EventTypes, NEW reason \in Reasons, NEW n \in Int,
             NEW ok \in Pcs, NEW ko \in Pcs \ {"unwind", "done"},
             Emit(t, Event(type, t, n, reason), ok, ko),
             ok \in {"unwind", "done"} => type \in {"turn_finished", "turn_aborted"}
      PROVE  EndsAreLogged
  <2>1. Event(type, t, n, reason) \in Events
    BY DEF Event, Events
  <2>2. LogGrows
    BY <1>2, <2>1 DEF Emit, LogGrows
  <2>3. CASE log' = Append(log, Event(type, t, n, reason)) /\ pc' = [pc EXCEPT ![t] = ok]
    BY <1>2, <2>2, <2>3, AppendLogs DEF EndsAreLogged, Terminal, TypeOK
  <2>4. CASE pc' = [pc EXCEPT ![t] = ko]
    BY <2>2, <2>4 DEF EndsAreLogged, TypeOK
  <2> QED
    BY <1>2, <2>3, <2>4 DEF Emit
<1>3. ASSUME NEW x \in Pcs \ {"unwind", "done"}, UNCHANGED log,
             pc' = [pc EXCEPT ![t] = x] \/ pc' = pc
      PROVE  EndsAreLogged
  BY <1>3 DEF EndsAreLogged, LogGrows, TypeOK
<1>4. why[t] \in Reasons /\ toolCallCount[t] \in Int /\ Len(calls[t]) \in Nat
  BY SessionAssumption DEF TypeOK
<1>5. CASE FirstStep(t) \/ EmitUserMessage(t) \/ FlushStreamedMessage(t) \/ EmitAnswer(t)
  BY <1>5, <1>2, Names DEF FirstStep, EmitUserMessage, FlushStreamedMessage, EmitAnswer
<1>6. CASE Finish(t) \/ Abort(t) \/ HandlerAbort(t)
  BY <1>6, <1>2, <1>4, Names DEF Finish, Abort, HandlerAbort
<1>7. CASE PrepareModelMessages(t)
  BY <1>7, <1>2, <1>3, Names DEF PrepareModelMessages
<1>8. CASE ModelMessageCompleted(t) \/ ModelError(t) \/ AbortFromException(t)
  BY <1>8, <1>2, Names DEF ModelMessageCompleted, ModelError, AbortFromException
<1>9. CASE RecordToolCalls(t)
  <2>1. toolCallCount[t] + (Len(calls[t]) + 1) \in Int
    BY <1>4
  <2>2. CASE Emit(t, Event("model_tool_call", t, toolCallCount[t] + (Len(calls[t]) + 1), "none"),
                  "record", "raise")
    BY <1>2, <2>1, <2>2, Names
  <2>3. CASE UNCHANGED log /\ (pc' = [pc EXCEPT ![t] = "abort"] \/ pc' = [pc EXCEPT ![t] = "batch"])
    BY <1>3, <2>3 DEF Pcs, LivePcs, HoldingPcs
  <2> QED
    BY <1>9, <2>2, <2>3 DEF RecordToolCalls
<1>10. CASE LoseTask(t) \/ ModelAnswer(t) \/ ModelRaises(t) \/ BatchDone(t) \/ BatchFails(t)
  BY <1>10, <1>3 DEF LoseTask, ModelAnswer, ModelRaises, BatchDone, BatchFails,
                     Pcs, LivePcs, HoldingPcs, EndedPcs
<1>11. CASE \/ TurnDeadline(t) \/ CancelTurn(t) \/ \E b \in Batches : ModelToolCalls(t, b)
  BY <1>11, <1>3 DEF TurnDeadline, CancelTurn, ModelToolCalls, Pcs, LivePcs, HoldingPcs
<1> QED
  BY <1>1, <1>5, <1>6, <1>7, <1>8, <1>9, <1>10, <1>11 DEF RunTurn, Environment

\* Every step keeps the barrier invariant: a caller that returns now waited for a turn that is done.
LEMMA BarrierStep == TypeOK /\ BarrierInv /\ [Next]_vars => BarrierInv'
<1> SUFFICES ASSUME TypeOK, BarrierInv, [Next]_vars PROVE BarrierInv'
  OBVIOUS
<1>1. ASSUME LogGrows, UNCHANGED caller,
             \A u \in Inputs : pc'[u] \in {"unwind", "done"} =>
               pc[u] \in {"unwind", "done"} \/ Terminal(u)'
      PROVE  BarrierInv'
  <2>1. \A u \in Inputs : Terminal(u) => Terminal(u)'
    BY <1>1, LoggedStays DEF Terminal
  <2>2. \A c \in Callers : caller[c].turn \in Inputs \cup {NoTurn}
    BY DEF TypeOK, CallerStates
  <2>3. BarrierReturns'
    BY <1>1, <2>1, <2>2 DEF BarrierInv, BarrierReturns
  <2> QED
    BY <1>1, <2>1, <2>3 DEF BarrierInv
<1>2. ASSUME NEW t \in Inputs, RunTurn(t) \/ Environment(t) \/ TurnDeadline(t), ~Unwind(t)
      PROVE  BarrierInv'
  BY <1>1, <1>2, TurnStepBarrier, TurnKeepsSlot DEF EndsAreLogged
<1>3. ASSUME NEW s, NEW q \in Seq(Inputs), NEW r, NEW p \in [Inputs -> Pcs],
             StartTurnIfIdle(s, q, r, p), UNCHANGED <<log, caller>>,
             \A u \in Inputs : p[u] \in {"unwind", "done"} => pc[u] \in {"unwind", "done"}
      PROVE  BarrierInv'
  <2>1. CASE q # <<>>
    <3>1. Head(q) \in Inputs
      BY <2>1
    <3>2. pc' = [p EXCEPT ![Head(q)] = "created"] \/ pc' = p
      BY <1>3 DEF StartTurnIfIdle
    <3>3. \A u \in Inputs : pc'[u] \in {"unwind", "done"} => pc[u] \in {"unwind", "done"}
      BY <1>3, <3>1, <3>2
    <3> QED
      BY <1>1, <1>3, <3>3 DEF LogGrows
  <2>2. CASE q = <<>>
    BY <1>1, <1>3, <2>2 DEF LogGrows, StartTurnIfIdle
  <2> QED
    BY <2>1, <2>2
<1>4. queue \in Seq(Inputs) /\ pc \in [Inputs -> Pcs]
  BY DEF TypeOK
<1>5. ASSUME NEW t \in Inputs, Unwind(t)
      PROVE  BarrierInv'
  <2> DEFINE ended == [pc EXCEPT ![t] = IF pc[t] = "unwind" THEN "done" ELSE "failed"]
  <2>1. ended \in [Inputs -> Pcs]
    BY <1>4 DEF Pcs, EndedPcs
  <2>2. \A u \in Inputs : ended[u] \in {"unwind", "done"} => pc[u] \in {"unwind", "done"}
    BY <1>4
  <2>3. UNCHANGED <<log, caller>>
    BY <1>5 DEF Unwind
  <2>4. CASE ShouldContinue
    <3>1. StartTurnIfIdle("idle", queue, ReleasedBy(t), ended)
      BY <1>5, <2>4 DEF Unwind
    <3> HIDE DEF ended
    <3> QED
      BY <1>3, <1>4, <2>1, <2>2, <2>3, <3>1
  <2>5. CASE ~ShouldContinue
    <3>1. pc' = ended
      BY <1>5, <2>5 DEF Unwind
    <3> HIDE DEF ended
    <3> QED
      BY <1>1, <2>2, <2>3, <3>1 DEF LogGrows
  <2> QED
    BY <2>4, <2>5
<1>6. ASSUME NEW i \in Inputs, Submit(i)
      PROVE  BarrierInv'
  <2>1. StartTurnIfIdle(status, Append(queue, i), runner, [pc EXCEPT ![i] = "queued"])
    BY <1>6 DEF Submit
  <2>2. UNCHANGED <<log, caller>>
    BY <1>6 DEF Submit
  <2>3. Append(queue, i) \in Seq(Inputs) /\ [pc EXCEPT ![i] = "queued"] \in [Inputs -> Pcs]
    BY <1>4 DEF Pcs
  <2>4. \A u \in Inputs : [pc EXCEPT ![i] = "queued"][u] \in {"unwind", "done"} =>
          pc[u] \in {"unwind", "done"}
    BY <1>4
  <2> QED
    BY <1>3, <2>1, <2>2, <2>3, <2>4
<1>7. ASSUME NEW c \in Callers, Interrupt(c) \/ InterruptEnds(c) \/ Close(c) \/ CloseEnds(c)
      PROVE  BarrierInv'
  <2>1. LogGrows
    <3>1. log' = log \/ log' = Append(log, Event("session_closed", NoTurn, 0, "none"))
      BY <1>7 DEF Interrupt, InterruptEnds, Close, CloseEnds, EmitClosed
    <3>2. Event("session_closed", NoTurn, 0, "none") \in Events
      BY DEF Event, Events, EventTypes, Reasons
    <3> QED
      BY <3>1, <3>2 DEF LogGrows
  <2>2. \A u \in Inputs : Terminal(u) => Terminal(u)'
    BY <2>1, LoggedStays DEF Terminal
  <2>3. pc' = pc
    BY <1>7 DEF Interrupt, InterruptEnds, Close, CloseEnds
  <2>4. caller \in [Callers -> CallerStates]
    BY DEF TypeOK
  <2>5. \A d \in Callers : caller[d].turn \in Inputs \cup {NoTurn}
    BY <2>4 DEF CallerStates
  <2>6. \A d \in Callers : d # c => caller'[d] = caller[d]
    BY <1>7, <2>4 DEF Interrupt, InterruptEnds, Close, CloseEnds, EmitClosed
  <2>7. caller'[c].st = "returned" /\ caller'[c].turn # NoTurn =>
          pc[caller'[c].turn] = "done" /\ caller'[c].turn = caller[c].turn
    <3>1. CASE Interrupt(c)
      BY <2>4, <3>1 DEF Interrupt
    <3>2. CASE InterruptEnds(c)
      BY <2>4, <3>2 DEF InterruptEnds, TaskEnded, EndedPcs, CallerStates
    <3>3. CASE Close(c)
      BY <2>4, <3>3 DEF Close, EmitClosed, Idle, CallerStates
    <3>4. CASE CloseEnds(c)
      BY <2>4, <3>4 DEF CloseEnds, EmitClosed, CallerStates
    <3> QED
      BY <1>7, <3>1, <3>2, <3>3, <3>4
  <2>8. ASSUME NEW d \in Callers, caller'[d].st = "returned", NEW u \in Inputs,
               caller'[d].turn = u
        PROVE  Terminal(u)'
    <3>1. CASE d = c
      <4>1. Terminal(caller[c].turn) /\ caller[c].turn \in Inputs
        BY <2>5, <2>7, <2>8, <3>1, SessionAssumption DEF BarrierInv
      <4> QED
        BY <2>2, <2>7, <2>8, <3>1, <4>1, SessionAssumption
    <3>2. CASE d # c
      <4>1. Terminal(caller[d].turn) /\ caller[d].turn \in Inputs
        BY <2>5, <2>6, <2>8, <3>2, SessionAssumption DEF BarrierInv, BarrierReturns
      <4> QED
        BY <2>2, <2>6, <2>8, <3>2, <4>1
    <3> QED
      BY <3>1, <3>2
  <2>9. BarrierReturns'
    <3>1. \A d \in Callers : caller'[d].turn \in Inputs \cup {NoTurn}
      BY CallerType, <1>7 DEF TypeOK, CallerStates
    <3> QED
      BY <2>8, <3>1 DEF BarrierReturns, Terminal, Logged
  <2> QED
    BY <2>2, <2>3, <2>9 DEF BarrierInv
<1>8. CASE UNCHANGED vars
  <2>1. LogGrows /\ UNCHANGED caller /\ pc' = pc
    BY <1>8 DEF vars, LogGrows
  <2> QED
    BY <1>1, <2>1
<1> QED
  BY <1>2, <1>5, <1>6, <1>7, <1>8 DEF Next, Client

\* interrupt() and close() that met a turn and returned normally have seen its terminal event
\* in the log, whatever appends failed on the way (asyncio.shield on the runner task).
THEOREM Barrier == Spec => []BarrierReturns
<1>1. Init => BarrierInv
  BY DEF Init, BarrierInv, BarrierReturns, Idle
<1>2. TypeOK /\ BarrierInv /\ [Next]_vars => BarrierInv'
  BY BarrierStep
<1>3. BarrierInv => BarrierReturns
  BY DEF BarrierInv
<1> QED
  BY <1>1, <1>2, <1>3, TypeCorrect, PTL DEF Spec

-----------------------------------------------------------------------------
(* The limits on tool calls: the invariant *)

Places(type, t) == {i \in 1..Len(log) : log[i].type = type /\ log[i].turn = t}
Count(type, t) == Cardinality(Places(type, t))

\* A message waits in the queue once, and its turn has not begun.
QueueInv ==
  /\ \A i \in 1..Len(queue) : pc[queue[i]] = "queued"
  /\ \A i, j \in 1..Len(queue) : queue[i] = queue[j] => i = j

\* The places from which a turn can get to record another batch.
Fresh == {"absent", "queued", "created", "echo", "prepare", "model", "flush", "batch",
          "answer", "finish"}

\* A parallel batch has as many calls waiting as there are permits at most; in a serial one
\* all calls before a waiting one have ended.
BatchInv(t) ==
  /\ Len(calls[t]) <= Len(batch[t])
  /\ pc[t] = "flush" => calls[t] = <<>>
  /\ CanParallelize(batch[t]) => Cardinality(InState(t, Waiting)) <= MaxParallel
  /\ ~CanParallelize(batch[t]) =>
       \A k \in InState(t, Waiting) : \A j \in 1..(k - 1) : calls[t][j] = "done"

\* The counter runs behind the records of the present batch, and ahead of the starts by the
\* calls that are still to start.
CountInv(t) ==
  /\ Count("model_tool_call", t) <= MaxToolCalls
  /\ pc[t] \in Fresh => Count("model_tool_call", t) <= toolCallCount[t]
  /\ pc[t] = "record" => Count("model_tool_call", t) <= toolCallCount[t] + Len(calls[t])
  /\ Count("tool_call_started", t) + Cardinality(InState(t, {"todo"})) <= toolCallCount[t]

LimitsInv == QueueInv /\ \A t \in Inputs : BatchInv(t) /\ CountInv(t)

-----------------------------------------------------------------------------
(* Counting events *)

\* Events are counted by numbers.
LEMMA PlacesFinite ==
  ASSUME TypeOK, NEW type, NEW t
  PROVE  IsFiniteSet(Places(type, t)) /\ Count(type, t) \in Nat
<1>1. Len(log) \in Nat
  BY DEF TypeOK
<1>2. IsFiniteSet(1..Len(log))
  BY <1>1, FS_Interval
<1>3. Places(type, t) \in SUBSET (1..Len(log))
  BY DEF Places
<1> QED
  BY <1>2, <1>3, FS_Subset, FS_CardinalityType DEF Count

\* An append adds one to its own count and to no other.
LEMMA CountAppend ==
  ASSUME TypeOK, NEW type, NEW t, NEW event \in Events, log' = Append(log, event)
  PROVE  Count(type, t)' = Count(type, t) + IF event.type = type /\ event.turn = t THEN 1 ELSE 0
<1>1. log \in Seq(Events) /\ Len(log) \in Nat
  BY DEF TypeOK
<1>2. Len(log') = Len(log) + 1 /\ log'[Len(log) + 1] = event
  BY <1>1
<1>3. \A i \in 1..Len(log) : log'[i] = log[i]
  BY <1>1
<1>4. Len(log) + 1 \notin Places(type, t)
  BY <1>1 DEF Places
<1>5. CASE event.type = type /\ event.turn = t
  <2>1. Places(type, t)' = Places(type, t) \cup {Len(log) + 1}
    BY <1>1, <1>2, <1>3, <1>5 DEF Places
  <2> QED
    BY <1>4, <1>5, <2>1, PlacesFinite, FS_AddElement DEF Count
<1>6. CASE ~(event.type = type /\ event.turn = t)
  <2>1. Places(type, t)' = Places(type, t)
    BY <1>1, <1>2, <1>3, <1>6 DEF Places
  <2> QED
    BY <1>6, <2>1, PlacesFinite DEF Count
<1> QED
  BY <1>5, <1>6

\* The calls of a batch in given states, too.
LEMMA CallsFinite ==
  ASSUME TypeOK, NEW t \in Inputs, NEW S
  PROVE  /\ IsFiniteSet(InState(t, S)) /\ Cardinality(InState(t, S)) \in Nat
         /\ Cardinality(InState(t, S)) <= Len(calls[t])
<1>1. Len(calls[t]) \in Nat
  BY DEF TypeOK
<1>2. IsFiniteSet(1..Len(calls[t])) /\ Cardinality(1..Len(calls[t])) = Len(calls[t])
  BY <1>1, FS_Interval
<1>3. InState(t, S) \in SUBSET (1..Len(calls[t]))
  BY DEF InState
<1> QED
  BY <1>2, <1>3, FS_Subset, FS_CardinalityType

-----------------------------------------------------------------------------
(* Steps that record and start no call *)

\* Neither the batch of turn u nor its counts change, and the turn does not come from a place
\* where it had stopped recording.
Plain(u) ==
  /\ calls'[u] = calls[u] /\ batch'[u] = batch[u] /\ toolCallCount'[u] = toolCallCount[u]
  /\ \A type \in {"model_tool_call", "tool_call_started"} : Count(type, u)' = Count(type, u)
  /\ \/ pc'[u] = pc[u]
     \/ pc'[u] \notin {"flush", "record"} /\ (pc'[u] \in Fresh => pc[u] \in Fresh)
     \/ pc[u] = "flush" /\ pc'[u] = "record"

LEMMA PlainKeeps ==
  ASSUME TypeOK, NEW u \in Inputs, BatchInv(u), CountInv(u), Plain(u)
  PROVE  BatchInv(u)' /\ CountInv(u)'
<1>1. \A S : InState(u, S)' = InState(u, S)
  BY DEF InState, Plain
<1>2. CanParallelize(batch'[u]) <=> CanParallelize(batch[u])
  BY DEF CanParallelize, Plain
<1>3. BatchInv(u)'
  BY <1>1, <1>2 DEF BatchInv, Plain, InState, Fresh
<1>4. toolCallCount[u] \in Nat /\ Len(calls[u]) \in Nat
  BY SessionAssumption DEF TypeOK
<1>5. pc[u] = "flush" => calls[u] = <<>> /\ pc[u] \in Fresh
  BY DEF BatchInv, Fresh
<1>6. Count("model_tool_call", u) \in Nat
  BY PlacesFinite
<1>7. CountInv(u)'
  BY <1>1, <1>4, <1>5, <1>6 DEF CountInv, Plain
<1> QED
  BY <1>3, <1>7

\* A step of turn t leaves all other turns alone, and writes of turn t only.
StepOf(t) ==
  /\ \A u \in Inputs \ {t} : /\ calls'[u] = calls[u] /\ batch'[u] = batch[u] /\ pc'[u] = pc[u]
                            /\ toolCallCount'[u] = toolCallCount[u]
  /\ log' = log \/ \E e \in Events : e.turn = t /\ log' = Append(log, e)

LEMMA OthersPlain ==
  ASSUME TypeOK, NEW t \in Inputs, StepOf(t), NEW u \in Inputs \ {t}
  PROVE  Plain(u)
<1>1. \A type : Count(type, u)' = Count(type, u)
  <2>1. CASE log' = log
    BY <2>1 DEF Count, Places
  <2>2. ASSUME NEW e \in Events, e.turn = t, log' = Append(log, e)
        PROVE  \A type : Count(type, u)' = Count(type, u)
    BY <2>2, CountAppend, PlacesFinite
  <2> QED
    BY <2>1, <2>2 DEF StepOf
<1> QED
  BY <1>1 DEF Plain, StepOf

\* A turn may go on at x without coming back from a place where it had stopped recording.
MayGoTo(t, x) ==
  \/ x \notin {"flush", "record"} /\ (x \in Fresh => pc[t] \in Fresh)
  \/ pc[t] = "flush" /\ x = "record"

LEMMA Ways ==
  ASSUME NEW t
  PROVE  /\ \A x \in {"raise", "crash", "handle", "abort", "unwind", "lost"} : MayGoTo(t, x)
         /\ pc[t] \in Fresh => \A x \in {"echo", "prepare", "model", "answer", "finish"} : MayGoTo(t, x)
         /\ pc[t] = "flush" => MayGoTo(t, "record")
  BY DEF MayGoTo, Fresh

\* The events that are counted.
Counted == {"model_tool_call", "tool_call_started"}

\* An append of any other event.
LEMMA EmitPlain ==
  ASSUME TypeOK, NEW t \in Inputs, NEW type \in EventTypes \ Counted, NEW reason \in Reasons,
         NEW n \in Int, NEW ok, NEW ko, Emit(t, Event(type, t, n, reason), ok, ko),
         UNCHANGED <<calls, batch, toolCallCount>>,
         MayGoTo(t, ok), MayGoTo(t, ko)
  PROVE  \A u \in Inputs : Plain(u)
<1>1. Event(type, t, n, reason) \in Events /\ Event(type, t, n, reason).turn = t
      /\ Event(type, t, n, reason).type = type
  BY DEF Event, Events
<1>2. StepOf(t)
  BY <1>1 DEF StepOf, Emit, TypeOK
<1>3. \A other \in Counted : Count(other, t)' = Count(other, t)
  <2>1. CASE log' = log
    BY <2>1 DEF Count, Places
  <2>2. CASE log' = Append(log, Event(type, t, n, reason))
    BY <1>1, <2>2, CountAppend, PlacesFinite
  <2> QED
    BY <2>1, <2>2 DEF Emit
<1>4. pc'[t] \in {ok, ko}
  BY DEF Emit, TypeOK
<1>5. Plain(t)
  BY <1>3, <1>4 DEF Plain, Counted, MayGoTo
<1> QED
  BY <1>2, <1>5, OthersPlain

\* A step without an append.
LEMMA SilentPlain ==
  ASSUME TypeOK, NEW t \in Inputs, UNCHANGED <<calls, batch, toolCallCount, log>>,
         NEW x, MayGoTo(t, x), pc' = [pc EXCEPT ![t] = x]
  PROVE  \A u \in Inputs : Plain(u)
<1>1. StepOf(t)
  BY DEF StepOf, TypeOK
<1>2. Plain(t)
  BY DEF Plain, TypeOK, Count, Places, MayGoTo
<1> QED
  BY <1>1, <1>2, OthersPlain

\* The steps of a turn outside its batches.
LEMMA TurnPlain ==
  ASSUME TypeOK, NEW t \in Inputs,
         \/ FirstStep(t) \/ LoseTask(t) \/ EmitUserMessage(t) \/ PrepareModelMessages(t)
         \/ FlushStreamedMessage(t) \/ EmitAnswer(t) \/ Finish(t) \/ BatchDone(t) \/ BatchFails(t)
         \/ Abort(t) \/ AbortFromException(t) \/ HandlerAbort(t)
         \/ ModelMessageCompleted(t) \/ ModelAnswer(t) \/ ModelError(t) \/ ModelRaises(t)
         \/ TurnDeadline(t)
  PROVE  \A u \in Inputs : Plain(u)
<1> DEFINE Uncounted == EventTypes \ Counted
<1>1. why[t] \in Reasons /\ "none" \in Reasons /\ 0 \in Int
  BY DEF TypeOK, Reasons
<1>2. /\ "turn_started" \in Uncounted /\ "user_message" \in Uncounted
      /\ "context_compacted" \in Uncounted /\ "assistant_message" \in Uncounted
      /\ "error" \in Uncounted /\ "turn_finished" \in Uncounted /\ "turn_aborted" \in Uncounted
  BY DEF EventTypes, Counted
<1> HIDE DEF Uncounted
<1>3. ASSUME NEW type \in Uncounted, NEW reason \in Reasons, NEW ok, NEW ko,
             Emit(t, Event(type, t, 0, reason), ok, ko), UNCHANGED <<calls, batch, toolCallCount>>,
             MayGoTo(t, ok), MayGoTo(t, ko)
      PROVE  \A u \in Inputs : Plain(u)
  BY <1>3, EmitPlain DEF Uncounted
<1>4. CASE FirstStep(t)
  <2>1. MayGoTo(t, "echo") /\ MayGoTo(t, "raise")
    BY <1>4, Ways DEF FirstStep, Fresh
  <2> QED
    BY <1>1, <1>2, <1>3, <1>4, <2>1 DEF FirstStep, turnVars
<1>5. CASE EmitUserMessage(t)
  <2>1. MayGoTo(t, "prepare") /\ MayGoTo(t, "raise")
    BY <1>5, Ways DEF EmitUserMessage, Fresh
  <2> QED
    BY <1>1, <1>2, <1>3, <1>5, <2>1 DEF EmitUserMessage, turnVars
<1>6. CASE FlushStreamedMessage(t)
  <2>1. MayGoTo(t, "record") /\ MayGoTo(t, "raise")
    BY <1>6, Ways DEF FlushStreamedMessage
  <2> QED
    BY <1>1, <1>2, <1>3, <1>6, <2>1 DEF FlushStreamedMessage, turnVars
<1>7. CASE EmitAnswer(t)
  <2>1. MayGoTo(t, "finish") /\ MayGoTo(t, "raise")
    BY <1>7, Ways DEF EmitAnswer, Fresh
  <2> QED
    BY <1>1, <1>2, <1>3, <1>7, <2>1 DEF EmitAnswer, turnVars
<1>8. CASE Finish(t)
  <2>1. MayGoTo(t, "unwind") /\ MayGoTo(t, "raise")
    BY Ways
  <2> QED
    BY <1>1, <1>2, <1>3, <1>8, <2>1 DEF Finish, turnVars
<1>9. CASE Abort(t)
  <2>1. MayGoTo(t, "unwind") /\ MayGoTo(t, "raise")
    BY Ways
  <2> QED
    BY <1>1, <1>2, <1>3, <1>9, <2>1 DEF Abort, turnVars
<1>10. CASE HandlerAbort(t)
  <2>1. MayGoTo(t, "unwind") /\ MayGoTo(t, "crash")
    BY Ways
  <2> QED
    BY <1>1, <1>2, <1>3, <1>10, <2>1 DEF HandlerAbort, turnVars
<1>11. CASE AbortFromException(t)
  <2>1. MayGoTo(t, "handle") /\ MayGoTo(t, "crash")
    BY Ways
  <2> QED
    BY <1>1, <1>2, <1>3, <1>11, <2>1 DEF AbortFromException
<1>12. CASE ModelMessageCompleted(t) \/ ModelError(t)
  <2>1. MayGoTo(t, "model") /\ MayGoTo(t, "abort") /\ MayGoTo(t, "raise")
    BY <1>12, Ways DEF ModelMessageCompleted, ModelError, Streaming, Fresh
  <2> QED
    BY <1>1, <1>2, <1>3, <1>12, <2>1 DEF ModelMessageCompleted, ModelError
<1>13. CASE PrepareModelMessages(t)
  <2>1. MayGoTo(t, "model") /\ MayGoTo(t, "abort") /\ MayGoTo(t, "raise")
    BY <1>13, Ways DEF PrepareModelMessages, Fresh
  <2>2. CASE Emit(t, Event("context_compacted", t, 0, "none"), "model", "raise")
    BY <1>1, <1>2, <1>3, <1>13, <2>1, <2>2 DEF PrepareModelMessages
  <2>3. CASE UNCHANGED log /\ (pc' = [pc EXCEPT ![t] = "model"] \/ pc' = [pc EXCEPT ![t] = "abort"])
    BY <1>13, <2>1, <2>3, SilentPlain DEF PrepareModelMessages
  <2> QED
    BY <1>13, <2>2, <2>3 DEF PrepareModelMessages
<1>14. CASE LoseTask(t) \/ ModelRaises(t) \/ BatchFails(t)
  <2>1. MayGoTo(t, "lost") /\ MayGoTo(t, "raise")
    BY Ways
  <2> QED
    BY <1>14, <2>1, SilentPlain DEF LoseTask, ModelRaises, BatchFails, turnVars
<1>15. CASE ModelAnswer(t) \/ BatchDone(t)
  <2>1. MayGoTo(t, "finish") /\ MayGoTo(t, "answer") /\ MayGoTo(t, "prepare")
    BY <1>15, Ways DEF ModelAnswer, Streaming, BatchDone, Fresh
  <2> QED
    BY <1>15, <2>1, SilentPlain DEF ModelAnswer, BatchDone, turnVars
<1>16. CASE TurnDeadline(t)
  BY <1>16 DEF TurnDeadline, Plain, turnVars, Count, Places
<1> QED
  BY <1>4, <1>5, <1>6, <1>7, <1>8, <1>9, <1>10, <1>11, <1>12, <1>13, <1>14, <1>15, <1>16

-----------------------------------------------------------------------------
(* The calls of a batch *)

\* A call that has started goes on or ends.
LEMMA StartedCallKeeps ==
  ASSUME TypeOK, NEW t \in Inputs, BatchInv(t), CountInv(t), NEW k \in 1..Len(calls[t]),
         NEW s \in {"exec", "done", "failed"}, calls' = [calls EXCEPT ![t][k] = s],
         calls[t][k] \in Waiting \/ (calls[t][k] = "denied" /\ s # "exec"),
         UNCHANGED <<batch, toolCallCount>>,
         pc' = pc \/ pc' = [pc EXCEPT ![t] = "raise"],
         \A type \in Counted : Count(type, t)' = Count(type, t)
  PROVE  BatchInv(t)' /\ CountInv(t)'
<1>1. calls[t] \in Seq(CallStates) /\ Len(calls[t]) \in Nat
  BY DEF TypeOK
<1>2. /\ Len(calls'[t]) = Len(calls[t]) /\ calls'[t][k] = s
      /\ \A j \in 1..Len(calls[t]) : j # k => calls'[t][j] = calls[t][j]
  BY <1>1 DEF TypeOK
<1>3. InState(t, Waiting)' \in SUBSET InState(t, Waiting)
  BY <1>2 DEF InState, Waiting
<1>4. Cardinality(InState(t, Waiting)') <= Cardinality(InState(t, Waiting))
  BY <1>3, CallsFinite, FS_Subset
<1>5. InState(t, {"todo"})' = InState(t, {"todo"})
  BY <1>2 DEF InState, Waiting
<1>6. CanParallelize(batch'[t]) <=> CanParallelize(batch[t])
  BY DEF CanParallelize
<1>7. pc'[t] = pc[t] \/ pc'[t] = "raise"
  BY DEF TypeOK
<1>8. k \in InState(t, Waiting) \/ calls[t][k] = "denied"
  BY DEF InState
<1>9. BatchInv(t)'
  <2>1. Len(calls'[t]) <= Len(batch'[t])
    BY <1>2 DEF BatchInv
  <2>2. pc'[t] = "flush" => calls'[t] = <<>>
    BY <1>1, <1>7 DEF BatchInv
  <2>3. CanParallelize(batch'[t]) => Cardinality(InState(t, Waiting)') <= MaxParallel
    <3>1. InState(t, Waiting)' \in SUBSET InState(t, Waiting) /\ IsFiniteSet(InState(t, Waiting)')
      BY <1>3, CallsFinite, FS_Subset
    <3> QED
      BY <1>4, <1>6, <3>1, CallsFinite, FS_CardinalityType, SessionAssumption DEF BatchInv
  <2>4. ASSUME ~CanParallelize(batch'[t]), NEW i \in InState(t, Waiting)', NEW j \in 1..(i - 1)
        PROVE  calls'[t][j] = "done"
    <3>1. i \in InState(t, Waiting) /\ i \in 1..Len(calls[t])
      BY <1>3 DEF InState
    <3>2. calls[t][j] = "done" /\ j \in 1..Len(calls[t])
      BY <1>1, <1>6, <2>4, <3>1 DEF BatchInv
    <3>3. j # k
      BY <3>2 DEF Waiting
    <3> QED
      BY <1>2, <3>2, <3>3
  <2> QED
    BY <2>1, <2>2, <2>3, <2>4 DEF BatchInv
<1>10. CountInv(t)'
  BY <1>2, <1>5, <1>7 DEF CountInv, Counted, Fresh
<1> QED
  BY <1>9, <1>10

\* A call starts.
LEMMA StartingCallKeeps ==
  ASSUME TypeOK, NEW t \in Inputs, BatchInv(t), CountInv(t), NEW k \in 1..Len(calls[t]),
         NEW s \in {"approval", "exec", "denied", "failed"}, calls' = [calls EXCEPT ![t][k] = s],
         calls[t][k] = "todo", UNCHANGED <<batch, toolCallCount>>,
         IF CanParallelize(batch[t]) THEN Cardinality(InState(t, Waiting)) < MaxParallel
                                     ELSE \A j \in 1..(k - 1) : calls[t][j] = "done",
         pc' = pc \/ pc' = [pc EXCEPT ![t] = "raise"],
         Count("model_tool_call", t)' = Count("model_tool_call", t),
         Count("tool_call_started", t)' \in {Count("tool_call_started", t), Count("tool_call_started", t) + 1}
  PROVE  BatchInv(t)' /\ CountInv(t)'
<1>1. calls[t] \in Seq(CallStates) /\ Len(calls[t]) \in Nat
  BY DEF TypeOK
<1>2. /\ Len(calls'[t]) = Len(calls[t]) /\ calls'[t][k] = s
      /\ \A j \in 1..Len(calls[t]) : j # k => calls'[t][j] = calls[t][j]
  BY <1>1 DEF TypeOK
<1>3. CanParallelize(batch'[t]) <=> CanParallelize(batch[t])
  BY DEF CanParallelize
<1>4. pc'[t] = pc[t] \/ pc'[t] = "raise"
  BY DEF TypeOK
<1>5. InState(t, Waiting)' \in SUBSET (InState(t, Waiting) \cup {k})
  BY <1>2 DEF InState
<1>6. BatchInv(t)'
  <2>1. Len(calls'[t]) <= Len(batch'[t])
    BY <1>2 DEF BatchInv
  <2>2. pc'[t] = "flush" => calls'[t] = <<>>
    BY <1>1, <1>4 DEF BatchInv
  <2>3. CanParallelize(batch'[t]) => Cardinality(InState(t, Waiting)') <= MaxParallel
    <3> DEFINE W == InState(t, Waiting)
    <3>4. IsFiniteSet(W) /\ Cardinality(W) \in Nat
      BY CallsFinite
    <3> HIDE DEF W
    <3>6. /\ IsFiniteSet(W \cup {k})
          /\ Cardinality(W \cup {k}) = IF k \in W THEN Cardinality(W) ELSE Cardinality(W) + 1
      BY <3>4, FS_AddElement
    <3>5. /\ IsFiniteSet(W \cup {k})
          /\ Cardinality(W \cup {k}) <= Cardinality(W) + 1
      BY <3>4, <3>6
    <3>1. /\ IsFiniteSet(InState(t, Waiting) \cup {k})
          /\ Cardinality(InState(t, Waiting) \cup {k}) <= Cardinality(InState(t, Waiting)) + 1
      BY <3>5 DEF W
    <3>2. /\ IsFiniteSet(InState(t, Waiting)')
          /\ Cardinality(InState(t, Waiting)') <= Cardinality(InState(t, Waiting) \cup {k})
      BY <1>5, <3>1, FS_Subset
    <3>3. /\ Cardinality(InState(t, Waiting)') \in Nat /\ Cardinality(InState(t, Waiting)) \in Nat
          /\ Cardinality(InState(t, Waiting) \cup {k}) \in Nat
      BY <3>1, <3>2, CallsFinite, FS_CardinalityType
    <3> QED
      BY <1>3, <3>1, <3>2, <3>3, SessionAssumption
  <2>4. ASSUME ~CanParallelize(batch'[t]), NEW i \in InState(t, Waiting)', NEW j \in 1..(i - 1)
        PROVE  calls'[t][j] = "done"
    <3>1. i \in 1..Len(calls[t])
      BY <1>2 DEF InState
    <3>2. CASE i = k
      BY <1>2, <1>3, <2>4, <3>2
    <3>3. CASE i # k
      <4>1. i \in InState(t, Waiting)
        BY <1>5, <3>3
      <4>2. calls[t][j] = "done" /\ j \in 1..Len(calls[t])
        BY <1>1, <1>3, <2>4, <3>1, <4>1 DEF BatchInv
      <4> QED
        BY <1>2, <4>2
    <3> QED
      BY <3>2, <3>3
  <2> QED
    BY <2>1, <2>2, <2>3, <2>4 DEF BatchInv
<1>7. CountInv(t)'
  <2>1. InState(t, {"todo"})' = InState(t, {"todo"}) \ {k} /\ k \in InState(t, {"todo"})
    BY <1>2 DEF InState
  <2>2. Cardinality(InState(t, {"todo"})') = Cardinality(InState(t, {"todo"})) - 1
    BY <2>1, CallsFinite, FS_RemoveElement
  <2>3. Cardinality(InState(t, {"todo"})) \in Nat /\ Count("tool_call_started", t) \in Nat
    BY CallsFinite, PlacesFinite
  <2>4. Count("tool_call_started", t)' + Cardinality(InState(t, {"todo"})') <= toolCallCount'[t]
    BY <2>2, <2>3, SessionAssumption DEF CountInv, TypeOK
  <2> QED
    BY <1>2, <1>4, <2>4 DEF CountInv, Fresh
<1> QED
  BY <1>6, <1>7

\* An append from inside a call.
LEMMA EmitFromCallCounts ==
  ASSUME TypeOK, NEW t \in Inputs, NEW k \in 1..Len(calls[t]), NEW type \in EventTypes,
         NEW next \in CallStates, EmitFromCall(t, k, type, next), UNCHANGED <<batch, toolCallCount>>
  PROVE  /\ StepOf(t)
         /\ pc' = pc \/ pc' = [pc EXCEPT ![t] = "raise"]
         /\ \E s \in {next, "failed"} : calls' = [calls EXCEPT ![t][k] = s]
         /\ \A other \in Counted \ {type} : Count(other, t)' = Count(other, t)
         /\ Count(type, t)' \in {Count(type, t), Count(type, t) + 1}
<1>1. CallNo(t, k) \in Int
  BY SessionAssumption DEF CallNo, TypeOK
<1>2. /\ Event(type, t, CallNo(t, k), "none") \in Events
      /\ Event(type, t, CallNo(t, k), "none").type = type
      /\ Event(type, t, CallNo(t, k), "none").turn = t
  BY <1>1 DEF Event, Events, Reasons
<1>3. pc' = pc \/ pc' = [pc EXCEPT ![t] = "raise"]
  BY DEF EmitFromCall
<1>4. \E s \in {next, "failed"} : calls' = [calls EXCEPT ![t][k] = s]
  BY DEF EmitFromCall
<1>5. log' = log \/ log' = Append(log, Event(type, t, CallNo(t, k), "none"))
  BY DEF EmitFromCall
<1>6. StepOf(t)
  <2>1. \A u \in Inputs \ {t} : calls'[u] = calls[u]
    BY <1>4 DEF TypeOK
  <2>2. \A u \in Inputs \ {t} : pc'[u] = pc[u]
    BY <1>3 DEF TypeOK
  <2> QED
    BY <1>2, <1>5, <2>1, <2>2 DEF StepOf
<1>7. CASE log' = log
  BY <1>3, <1>4, <1>6, <1>7 DEF Count, Places
<1>8. CASE log' = Append(log, Event(type, t, CallNo(t, k), "none"))
  <2>1. \A other : Count(other, t)' = Count(other, t) + IF type = other THEN 1 ELSE 0
    BY <1>2, <1>8, CountAppend
  <2>2. \A other : Count(other, t) \in Nat
    BY PlacesFinite
  <2>3. \A other \in Counted \ {type} : Count(other, t)' = Count(other, t)
    BY <2>1, <2>2
  <2>4. Count(type, t)' = Count(type, t) + 1
    BY <2>1
  <2> QED
    BY <1>3, <1>4, <1>6, <2>3, <2>4
<1> QED
  BY <1>5, <1>7, <1>8

\* The steps of one call.
LEMMA CallKeeps ==
  ASSUME TypeOK, NEW t \in Inputs, NEW k, BatchInv(t), CountInv(t),
         StartCall(t, k) \/ Approve(t, k) \/ CallReturns(t, k) \/ CallRefused(t, k)
           \/ CallDeadline(t, k) \/ CallTimesOut(t, k)
  PROVE  BatchInv(t)' /\ CountInv(t)' /\ \A u \in Inputs \ {t} : Plain(u)
<1>1. k \in 1..Len(calls[t])
  BY DEF StartCall, Approve, CallReturns, CallRefused, CallDeadline, CallTimesOut, Runs
<1>2. CASE StartCall(t, k)
  <2>1. PICK st \in {"exec", "denied", "approval"} : EmitFromCall(t, k, "tool_call_started", st)
    BY <1>2 DEF StartCall
  <2>2. UNCHANGED <<batch, toolCallCount>> /\ calls[t][k] = "todo"
    BY <1>2 DEF StartCall
  <2>3. "tool_call_started" \in EventTypes /\ st \in CallStates
    BY DEF EventTypes, CallStates
  <2>4. /\ StepOf(t)
        /\ pc' = pc \/ pc' = [pc EXCEPT ![t] = "raise"]
        /\ \E s \in {st, "failed"} : calls' = [calls EXCEPT ![t][k] = s]
        /\ \A other \in Counted \ {"tool_call_started"} : Count(other, t)' = Count(other, t)
        /\ Count("tool_call_started", t)' \in {Count("tool_call_started", t), Count("tool_call_started", t) + 1}
    BY <1>1, <2>1, <2>2, <2>3, EmitFromCallCounts
  <2>5. Count("model_tool_call", t)' = Count("model_tool_call", t)
    BY <2>4 DEF Counted
  <2>6. IF CanParallelize(batch[t]) THEN Cardinality(InState(t, Waiting)) < MaxParallel
                                    ELSE \A j \in 1..(k - 1) : calls[t][j] = "done"
    BY <1>2 DEF StartCall
  <2>7. BatchInv(t)' /\ CountInv(t)'
    BY <1>1, <2>2, <2>4, <2>5, <2>6, StartingCallKeeps
  <2> QED
    BY <2>4, <2>7, OthersPlain
<1>3. CASE CallReturns(t, k) \/ CallRefused(t, k) \/ CallTimesOut(t, k)
  <2>1. /\ EmitFromCall(t, k, "tool_call_finished", "done")
        /\ UNCHANGED <<batch, toolCallCount>>
        /\ calls[t][k] \in Waiting \/ calls[t][k] = "denied"
    BY <1>3 DEF CallReturns, CallRefused, CallTimesOut
  <2>2. "tool_call_finished" \in EventTypes \ Counted /\ "done" \in CallStates
    BY DEF EventTypes, Counted, CallStates
  <2>3. /\ StepOf(t)
        /\ pc' = pc \/ pc' = [pc EXCEPT ![t] = "raise"]
        /\ \E s \in {"done", "failed"} : calls' = [calls EXCEPT ![t][k] = s]
        /\ \A other \in Counted \ {"tool_call_finished"} : Count(other, t)' = Count(other, t)
    BY <1>1, <2>1, <2>2, EmitFromCallCounts
  <2>4. \A type \in Counted : Count(type, t)' = Count(type, t)
    BY <2>2, <2>3
  <2>5. BatchInv(t)' /\ CountInv(t)'
    BY <1>1, <2>1, <2>3, <2>4, StartedCallKeeps
  <2> QED
    BY <2>3, <2>5, OthersPlain
<1>4. CASE Approve(t, k)
  <2>1. /\ calls' = [calls EXCEPT ![t][k] = "exec"] /\ calls[t][k] \in Waiting
        /\ UNCHANGED <<batch, toolCallCount, pc, log>>
    BY <1>4 DEF Approve, Waiting
  <2>2. \A type \in Counted : Count(type, t)' = Count(type, t)
    BY <2>1 DEF Count, Places
  <2>3. BatchInv(t)' /\ CountInv(t)'
    BY <1>1, <2>1, <2>2, StartedCallKeeps
  <2>4. StepOf(t)
    BY <2>1 DEF StepOf, TypeOK
  <2> QED
    BY <2>3, <2>4, OthersPlain
<1>5. CASE CallDeadline(t, k)
  <2>1. \A u \in Inputs : Plain(u)
    BY <1>5 DEF CallDeadline, Plain, Count, Places
  <2> QED
    BY <2>1, PlainKeeps
<1> QED
  BY <1>2, <1>3, <1>4, <1>5

\* A response with tool calls begins a new batch.
LEMMA NewBatchKeeps ==
  ASSUME TypeOK, NEW t \in Inputs, NEW b \in Batches, BatchInv(t), CountInv(t), ModelToolCalls(t, b)
  PROVE  BatchInv(t)' /\ CountInv(t)' /\ \A u \in Inputs \ {t} : Plain(u)
<1>1. /\ batch'[t] = b /\ calls'[t] = <<>> /\ pc'[t] \in {"record", "flush"}
      /\ UNCHANGED <<log, toolCallCount>> /\ pc[t] = "model"
  BY DEF ModelToolCalls, Streaming, TypeOK
<1>2. b \in Seq(Kinds) /\ Len(b) \in Nat
  BY SessionAssumption
<1>3. \A S : InState(t, S)' = {}
  BY <1>1 DEF InState
<1>9. \A S : Cardinality(InState(t, S)') = 0
  BY <1>3, FS_EmptySet
<1>4. BatchInv(t)'
  <2>1. Len(calls'[t]) = 0
    BY <1>1
  <2> QED
    BY <1>1, <1>2, <1>3, <1>9, <2>1, SessionAssumption DEF BatchInv
<1>5. \A type : Count(type, t)' = Count(type, t)
  BY <1>1 DEF Count, Places
<1>6. Count("tool_call_started", t) \in Nat /\ Count("model_tool_call", t) \in Nat
      /\ Cardinality(InState(t, {"todo"})) \in Nat /\ toolCallCount[t] \in Nat
  BY PlacesFinite, CallsFinite, SessionAssumption DEF TypeOK
<1>7. CountInv(t)'
  <2>1. Count("model_tool_call", t) <= toolCallCount[t] /\ Len(calls'[t]) = 0
    BY <1>1 DEF CountInv, Fresh
  <2>2. Count("tool_call_started", t)' + Cardinality(InState(t, {"todo"})') <= toolCallCount'[t]
    BY <1>1, <1>5, <1>6, <1>9 DEF CountInv
  <2> QED
    BY <1>1, <1>5, <1>6, <2>1, <2>2 DEF CountInv
<1>8. StepOf(t)
  BY DEF StepOf, ModelToolCalls, TypeOK
<1> QED
  BY <1>4, <1>7, <1>8, OthersPlain

\* Within the budget the calls are recorded one after the other, and then all are to start.
LEMMA RecordKeeps ==
  ASSUME TypeOK, NEW t \in Inputs, BatchInv(t), CountInv(t), RecordToolCalls(t)
  PROVE  BatchInv(t)' /\ CountInv(t)' /\ \A u \in Inputs \ {t} : Plain(u)
<1> DEFINE k == Len(calls[t]) + 1
<1>1. /\ calls[t] \in Seq(CallStates) /\ Len(calls[t]) \in Nat /\ toolCallCount[t] \in Nat
      /\ pc[t] = "record" /\ UNCHANGED batch
  BY SessionAssumption DEF TypeOK, RecordToolCalls
<1>2. Len(batch[t]) \in Nat
  <2>1. batch[t] = <<>> \/ batch[t] \in Seq(Kinds)
    BY SessionAssumption DEF TypeOK
  <2> QED
    BY <2>1
<1>3. Count("tool_call_started", t) \in Nat /\ Count("model_tool_call", t) \in Nat
  BY PlacesFinite
<1>4. CanParallelize(batch'[t]) <=> CanParallelize(batch[t])
  BY <1>1 DEF CanParallelize
<1>5. CASE BudgetExceeded(t)
  <2>1. UNCHANGED <<calls, batch, toolCallCount, log>> /\ pc' = [pc EXCEPT ![t] = "abort"]
    BY <1>1, <1>5 DEF RecordToolCalls
  <2>2. MayGoTo(t, "abort")
    BY Ways
  <2>3. \A u \in Inputs : Plain(u)
    BY <2>1, <2>2, SilentPlain
  <2> QED
    BY <2>3, PlainKeeps
<1>6. CASE ~BudgetExceeded(t) /\ k <= Len(batch[t])
  <2>1. /\ Emit(t, Event("model_tool_call", t, toolCallCount[t] + k, "none"), "record", "raise")
        /\ calls' = [calls EXCEPT ![t] = Append(@, "recorded")]
        /\ UNCHANGED <<batch, toolCallCount>>
    BY <1>6 DEF RecordToolCalls
  <2>2. /\ Len(calls'[t]) = k /\ calls'[t][k] = "recorded"
        /\ \A j \in 1..Len(calls[t]) : calls'[t][j] = calls[t][j]
    BY <1>1, <2>1 DEF TypeOK
  <2>3. InState(t, Waiting)' = InState(t, Waiting) /\ InState(t, {"todo"})' = InState(t, {"todo"})
    BY <1>1, <2>2 DEF InState, Waiting
  <2>4. pc'[t] \in {"record", "raise"}
    BY <2>1 DEF Emit, TypeOK
  <2> DEFINE event == Event("model_tool_call", t, toolCallCount[t] + k, "none")
  <2>5. event \in Events /\ event.turn = t /\ event.type = "model_tool_call"
    BY <1>1 DEF Event, Events, EventTypes, Reasons
  <2>6. log' = log \/ log' = Append(log, event)
    BY <2>1 DEF Emit
  <2> HIDE DEF event
  <2>7. /\ Count("tool_call_started", t)' = Count("tool_call_started", t)
        /\ Count("model_tool_call", t)' \in {Count("model_tool_call", t), Count("model_tool_call", t) + 1}
    <3>1. CASE log' = log
      BY <3>1 DEF Count, Places
    <3>2. CASE log' = Append(log, event)
      BY <1>3, <2>5, <3>2, CountAppend
    <3> QED
      BY <2>6, <3>1, <3>2
  <2>8. StepOf(t)
    BY <2>1, <2>5, <2>6 DEF StepOf, Emit, TypeOK
  <2>9. BatchInv(t)'
    <3>1. /\ Len(calls'[t]) <= Len(batch'[t])
          /\ pc'[t] = "flush" => calls'[t] = <<>>
          /\ CanParallelize(batch'[t]) => Cardinality(InState(t, Waiting)') <= MaxParallel
      BY <1>1, <1>4, <1>6, <2>2, <2>3, <2>4 DEF BatchInv
    <3>2. ASSUME ~CanParallelize(batch'[t]), NEW i \in InState(t, Waiting)', NEW j \in 1..(i - 1)
          PROVE  calls'[t][j] = "done"
      <4>1. i \in InState(t, Waiting) /\ i \in 1..Len(calls[t])
        BY <2>3 DEF InState
      <4>2. calls[t][j] = "done" /\ j \in 1..Len(calls[t])
        BY <1>1, <1>4, <3>2, <4>1 DEF BatchInv
      <4> QED
        BY <2>2, <4>2
    <3> QED
      BY <3>1, <3>2 DEF BatchInv
  <2>10. CountInv(t)'
    <3>1. /\ Count("model_tool_call", t) <= toolCallCount[t] + Len(calls[t])
          /\ toolCallCount[t] + Len(batch[t]) <= MaxToolCalls
      BY <1>1, <1>2, <1>6, SessionAssumption DEF CountInv, BudgetExceeded
    <3>2. /\ Count("model_tool_call", t)' <= toolCallCount'[t] + Len(calls'[t])
          /\ Count("model_tool_call", t)' <= MaxToolCalls
      BY <1>1, <1>2, <1>3, <1>6, <2>1, <2>2, <2>7, <3>1, SessionAssumption
    <3>3. Count("tool_call_started", t)' + Cardinality(InState(t, {"todo"})') <= toolCallCount'[t]
      BY <2>1, <2>3, <2>7 DEF CountInv
    <3> QED
      BY <2>4, <3>2, <3>3 DEF CountInv, Fresh
  <2> QED
    BY <2>8, <2>9, <2>10, OthersPlain
<1>7. CASE ~BudgetExceeded(t) /\ ~(k <= Len(batch[t]))
  <2>1. /\ pc' = [pc EXCEPT ![t] = "batch"]
        /\ toolCallCount' = [toolCallCount EXCEPT ![t] = @ + Len(batch[t])]
        /\ calls' = [calls EXCEPT ![t] = [j \in 1..Len(@) |-> "todo"]]
        /\ UNCHANGED <<log, batch>>
    BY <1>7 DEF RecordToolCalls
  <2>2. /\ Len(calls'[t]) = Len(calls[t]) /\ \A j \in 1..Len(calls[t]) : calls'[t][j] = "todo"
        /\ pc'[t] = "batch" /\ toolCallCount'[t] = toolCallCount[t] + Len(batch[t])
    BY <1>1, <2>1 DEF TypeOK
  <2>3. Len(calls[t]) = Len(batch[t])
    BY <1>1, <1>2, <1>7 DEF BatchInv
  <2>4. InState(t, Waiting)' = {} /\ InState(t, {"todo"})' = 1..Len(calls[t])
    BY <1>1, <2>2 DEF InState, Waiting
  <2>5. /\ Cardinality(InState(t, Waiting)') = 0
        /\ Cardinality(InState(t, {"todo"})') = Len(batch[t])
    <3>1. \A n \in Nat : Cardinality(1..n) = n
      BY FS_Interval
    <3> QED
      BY <1>1, <2>3, <2>4, <3>1, FS_EmptySet
  <2>6. BatchInv(t)'
    BY <1>1, <1>2, <2>2, <2>3, <2>4, <2>5, SessionAssumption DEF BatchInv
  <2>7. \A type : Count(type, t)' = Count(type, t)
    BY <2>1 DEF Count, Places
  <2>8. Cardinality(InState(t, {"todo"})) \in Nat
    BY CallsFinite
  <2>9. CountInv(t)'
    BY <1>1, <1>2, <1>3, <2>2, <2>3, <2>5, <2>7, <2>8 DEF CountInv
  <2>10. StepOf(t)
    BY <2>1 DEF StepOf, TypeOK
  <2> QED
    BY <2>6, <2>9, <2>10, OthersPlain
<1> QED
  BY <1>5, <1>6, <1>7

\* A cancelled turn ends its calls, or leaves them to themselves.
LEMMA CancelKeeps ==
  ASSUME TypeOK, NEW t \in Inputs, BatchInv(t), CountInv(t), CancelTurn(t)
  PROVE  BatchInv(t)' /\ CountInv(t)' /\ \A u \in Inputs \ {t} : Plain(u)
<1>1. UNCHANGED <<batch, toolCallCount, log>> /\ pc' = [pc EXCEPT ![t] = "handle"] /\ CancelCalls(t)
  BY DEF CancelTurn
<1>2. CASE UNCHANGED calls
  <2>1. MayGoTo(t, "handle")
    BY Ways
  <2>2. \A u \in Inputs : Plain(u)
    BY <1>1, <1>2, <2>1, SilentPlain
  <2> QED
    BY <2>2, PlainKeeps
<1>3. CASE calls' = [calls EXCEPT ![t] =
                       [k \in 1..Len(@) |-> IF @[k] = "done" THEN "done" ELSE "cancelled"]]
  <2>1. calls[t] \in Seq(CallStates) /\ Len(calls[t]) \in Nat
    BY DEF TypeOK
  <2>2. /\ Len(calls'[t]) = Len(calls[t])
        /\ \A k \in 1..Len(calls[t]) : calls'[t][k] \in {"done", "cancelled"}
    BY <1>3, <2>1 DEF TypeOK
  <2>3. InState(t, Waiting)' = {} /\ InState(t, {"todo"})' = {}
    BY <2>2 DEF InState, Waiting
  <2>4. pc'[t] = "handle" /\ UNCHANGED <<batch, toolCallCount>>
    BY <1>1 DEF TypeOK
  <2>5. BatchInv(t)'
    BY <2>1, <2>2, <2>3, <2>4, FS_EmptySet, SessionAssumption DEF BatchInv
  <2>6. \A type : Count(type, t)' = Count(type, t)
    BY <1>1 DEF Count, Places
  <2>7. /\ Cardinality(InState(t, {"todo"})) \in Nat /\ Count("tool_call_started", t) \in Nat
        /\ toolCallCount[t] \in Nat
    BY CallsFinite, PlacesFinite, SessionAssumption DEF TypeOK
  <2>10. Cardinality(InState(t, {"todo"})') = 0
    BY <2>3, FS_EmptySet
  <2>8. CountInv(t)'
    BY <2>4, <2>6, <2>7, <2>10 DEF CountInv, Fresh
  <2>9. StepOf(t)
    BY <1>1, <1>3 DEF StepOf, TypeOK
  <2> QED
    BY <2>5, <2>8, <2>9, OthersPlain
<1> QED
  BY <1>1, <1>2, <1>3 DEF CancelCalls

-----------------------------------------------------------------------------
(* The queue *)

\* The queue is as good as before when it stays and its turns do.
LEMMA QueueKept ==
  ASSUME TypeOK, QueueInv, UNCHANGED queue,
         \A u \in Inputs : pc[u] = "queued" => pc'[u] = "queued"
  PROVE  QueueInv'
<1>1. \A i \in 1..Len(queue) : queue[i] \in Inputs
  BY DEF TypeOK
<1> QED
  BY <1>1 DEF QueueInv

\* Taking the next message makes a turn of it, once.
LEMMA StartPlain ==
  ASSUME NEW s, NEW q \in Seq(Inputs), NEW r, NEW p \in [Inputs -> Pcs],
         \A i \in 1..Len(q) : p[q[i]] = "queued",
         \A i, j \in 1..Len(q) : q[i] = q[j] => i = j,
         StartTurnIfIdle(s, q, r, p)
  PROVE  /\ QueueInv'
         /\ \A u \in Inputs : pc'[u] = p[u] \/ (pc'[u] = "created" /\ p[u] = "queued")
<1>1. CASE queue' = q /\ pc' = p
  BY <1>1 DEF QueueInv
<1>2. CASE q # <<>> /\ queue' = Tail(q) /\ pc' = [p EXCEPT ![Head(q)] = "created"]
  <2>1. /\ Head(q) = q[1] /\ Head(q) \in Inputs /\ Len(q) \in Nat /\ 1 \in 1..Len(q)
        /\ Len(Tail(q)) = Len(q) - 1
        /\ \A i \in 1..Len(Tail(q)) : Tail(q)[i] = q[i + 1] /\ i + 1 \in 1..Len(q)
    BY <1>2
  <2>2. \A i \in 1..Len(Tail(q)) : Tail(q)[i] # Head(q)
    BY <2>1
  <2>3. \A i \in 1..Len(Tail(q)) : Tail(q)[i] \in Inputs /\ p[Tail(q)[i]] = "queued"
    BY <2>1
  <2>4. \A i, j \in 1..Len(Tail(q)) : Tail(q)[i] = Tail(q)[j] => i = j
    <3> SUFFICES ASSUME NEW i \in 1..Len(Tail(q)), NEW j \in 1..Len(Tail(q)), Tail(q)[i] = Tail(q)[j]
                 PROVE  i = j
      OBVIOUS
    <3>1. i + 1 = j + 1
      BY <2>1
    <3> QED
      BY <2>1, <3>1
  <2>5. \A i \in 1..Len(Tail(q)) : pc'[Tail(q)[i]] = "queued"
    BY <1>2, <2>2, <2>3
  <2> QED
    BY <1>2, <2>1, <2>4, <2>5 DEF QueueInv
<1> QED
  BY <1>1, <1>2 DEF StartTurnIfIdle

\* A message enters the queue or leaves it for its turn, and a turn ends.
QueueMove(u) ==
  \/ pc'[u] = pc[u]
  \/ pc[u] \in {"absent", "queued"} /\ pc'[u] \in {"queued", "created"}
  \/ pc[u] \in {"unwind", "crash"} /\ pc'[u] \in {"done", "failed"}

\* The steps of the queue, of Submit and of the finally block.
LEMMA QueueSteps ==
  ASSUME TypeOK, QueueInv,
         \/ \E i \in Inputs : Submit(i)
         \/ \E t \in Inputs : Unwind(t)
  PROVE  QueueInv' /\ \A u \in Inputs : Plain(u) /\ QueueMove(u)
<1>1. ASSUME NEW p \in [Inputs -> Pcs], UNCHANGED <<calls, batch, toolCallCount, log>>,
             \A u \in Inputs : \/ p[u] = pc[u]
                               \/ pc[u] = "absent" /\ p[u] = "queued"
                               \/ pc[u] \in {"unwind", "crash"} /\ p[u] \in {"done", "failed"},
             \A u \in Inputs : pc'[u] = p[u] \/ (pc'[u] = "created" /\ p[u] = "queued")
      PROVE  \A u \in Inputs : Plain(u) /\ QueueMove(u)
  BY <1>1 DEF Plain, Count, Places, Fresh, QueueMove
<1>2. queue \in Seq(Inputs) /\ Len(queue) \in Nat /\ \A i \in 1..Len(queue) : queue[i] \in Inputs
  BY DEF TypeOK
<1>3. ASSUME NEW i \in Inputs, Submit(i)
      PROVE  QueueInv' /\ \A u \in Inputs : Plain(u) /\ QueueMove(u)
  <2> DEFINE q == Append(queue, i)
             p == [pc EXCEPT ![i] = "queued"]
  <2>1. StartTurnIfIdle(status, q, runner, p) /\ pc[i] = "absent"
        /\ UNCHANGED <<calls, batch, toolCallCount, log>>
    BY <1>3 DEF Submit, turnVars
  <2>2. p \in [Inputs -> Pcs] /\ p[i] = "queued" /\ \A u \in Inputs : u # i => p[u] = pc[u]
    BY DEF TypeOK, Pcs
  <2>3. q \in Seq(Inputs) /\ Len(q) = Len(queue) + 1 /\ q[Len(queue) + 1] = i
        /\ \A j \in 1..Len(queue) : q[j] = queue[j]
    BY <1>2
  <2>4. \A j \in 1..Len(queue) : pc[queue[j]] = "queued" /\ queue[j] # i
    BY <2>1 DEF QueueInv
  <2>5. \A j \in 1..Len(q) : p[q[j]] = "queued"
    BY <1>2, <2>2, <2>3, <2>4
  <2>6. \A j, k \in 1..Len(q) : q[j] = q[k] => j = k
    <3> SUFFICES ASSUME NEW j \in 1..Len(q), NEW k \in 1..Len(q), q[j] = q[k]
                 PROVE  j = k
      OBVIOUS
    <3>1. j \in 1..Len(queue) \/ j = Len(queue) + 1
      BY <1>2, <2>3
    <3>2. k \in 1..Len(queue) \/ k = Len(queue) + 1
      BY <1>2, <2>3
    <3> QED
      BY <2>3, <2>4, <3>1, <3>2 DEF QueueInv
  <2> HIDE DEF q, p
  <2>7. /\ QueueInv'
        /\ \A u \in Inputs : pc'[u] = p[u] \/ (pc'[u] = "created" /\ p[u] = "queued")
    BY <2>1, <2>2, <2>3, <2>5, <2>6, StartPlain
  <2>8. \A u \in Inputs : p[u] = pc[u] \/ (pc[u] = "absent" /\ p[u] = "queued")
    BY <2>1, <2>2
  <2> QED
    BY <1>1, <2>1, <2>2, <2>7, <2>8
<1>4. ASSUME NEW t \in Inputs, Unwind(t)
      PROVE  QueueInv' /\ \A u \in Inputs : Plain(u) /\ QueueMove(u)
  <2> DEFINE p == [pc EXCEPT ![t] = IF pc[t] = "unwind" THEN "done" ELSE "failed"]
  <2>1. /\ StartTurnIfIdle("idle", queue, ReleasedBy(t), p) \/ (pc' = p /\ UNCHANGED queue)
        /\ pc[t] \in {"unwind", "crash"} /\ UNCHANGED <<calls, batch, toolCallCount, log>>
    BY <1>4 DEF Unwind, turnVars
  <2>2. p \in [Inputs -> Pcs] /\ p[t] \in {"done", "failed"} /\ \A u \in Inputs : u # t => p[u] = pc[u]
    BY DEF TypeOK, Pcs, EndedPcs
  <2> HIDE DEF p
  <2>3. \A j \in 1..Len(queue) : p[queue[j]] = "queued"
    BY <1>2, <2>1, <2>2 DEF QueueInv
  <2>4. /\ QueueInv'
        /\ \A u \in Inputs : pc'[u] = p[u] \/ (pc'[u] = "created" /\ p[u] = "queued")
    <3>1. CASE StartTurnIfIdle("idle", queue, ReleasedBy(t), p)
      BY <1>2, <2>2, <2>3, <3>1, StartPlain DEF QueueInv
    <3>2. CASE pc' = p /\ UNCHANGED queue
      BY <2>3, <3>2 DEF QueueInv
    <3> QED
      BY <2>1, <3>1, <3>2
  <2> QED
    BY <1>1, <2>1, <2>2, <2>4
<1> QED
  BY <1>3, <1>4

\* A step of a turn but its last leaves the queue and the waiting turns alone.
LEMMA TurnKeepsQueue ==
  ASSUME TypeOK, QueueInv, NEW t \in Inputs,
         UNCHANGED sessionVars, pc[t] # "queued",
         \A u \in Inputs \ {t} : pc'[u] = pc[u]
  PROVE  QueueInv'
  BY QueueKept DEF sessionVars

LEMMA LimitsStep == TypeOK /\ LimitsInv /\ [Next]_vars => LimitsInv'
<1> SUFFICES ASSUME TypeOK, LimitsInv, [Next]_vars
             PROVE  LimitsInv'
  OBVIOUS
<1>1. QueueInv /\ \A t \in Inputs : BatchInv(t) /\ CountInv(t)
  BY DEF LimitsInv
<1>2. ASSUME QueueInv', \A u \in Inputs : Plain(u)
      PROVE  LimitsInv'
  BY <1>1, <1>2, PlainKeeps DEF LimitsInv
<1>3. ASSUME NEW t \in Inputs, UNCHANGED sessionVars, pc[t] # "queued",
             BatchInv(t)', CountInv(t)', \A u \in Inputs \ {t} : Plain(u) /\ pc'[u] = pc[u]
      PROVE  LimitsInv'
  <2>1. QueueInv'
    BY <1>1, <1>3, TurnKeepsQueue
  <2>2. \A u \in Inputs : BatchInv(u)' /\ CountInv(u)'
    BY <1>1, <1>3, PlainKeeps
  <2> QED
    BY <2>1, <2>2 DEF LimitsInv
<1>4. ASSUME UNCHANGED <<queue, pc, calls, batch, toolCallCount>>,
             log' = log \/ \E n \in Int : log' = Append(log, Event("session_closed", NoTurn, n, "none"))
      PROVE  LimitsInv'
  <2>1. QueueInv'
    BY <1>1, <1>4, QueueKept
  <2>2. \A u \in Inputs : \A type : Count(type, u)' = Count(type, u)
    <3>1. CASE log' = log
      BY <3>1 DEF Count, Places
    <3>2. ASSUME NEW n \in Int, log' = Append(log, Event("session_closed", NoTurn, n, "none"))
          PROVE  \A u \in Inputs : \A type : Count(type, u)' = Count(type, u)
      <4>1. Event("session_closed", NoTurn, n, "none") \in Events
            /\ Event("session_closed", NoTurn, n, "none").turn = NoTurn
        BY DEF Event, Events, EventTypes, Reasons
      <4> QED
        BY <3>2, <4>1, CountAppend, PlacesFinite, SessionAssumption
    <3> QED
      BY <1>4, <3>1, <3>2
  <2>3. \A u \in Inputs : Plain(u)
    BY <1>4, <2>2 DEF Plain
  <2> QED
    BY <1>2, <2>1, <2>3
<1>5. CASE \E i \in Inputs : Submit(i)
  BY <1>1, <1>2, <1>5, QueueSteps
<1>6. CASE \E c \in Callers : Interrupt(c) \/ InterruptEnds(c)
  BY <1>4, <1>6 DEF Interrupt, InterruptEnds, turnVars
<1>7. CASE \E c \in Callers : Close(c) \/ CloseEnds(c)
  BY <1>4, <1>7 DEF Close, CloseEnds, EmitClosed, turnVars
<1>8. ASSUME NEW t \in Inputs, RunTurn(t) \/ Environment(t) \/ TurnDeadline(t)
      PROVE  LimitsInv'
  <2>1. CASE Unwind(t)
    BY <1>1, <1>2, <2>1, QueueSteps
  <2>2. CASE RecordToolCalls(t)
    <3>1. UNCHANGED sessionVars /\ pc[t] = "record" /\ \A u \in Inputs \ {t} : pc'[u] = pc[u]
      BY <2>2 DEF RecordToolCalls, Emit, TypeOK
    <3> QED
      BY <1>1, <1>3, <2>2, <3>1, RecordKeeps
  <2>3. CASE CancelTurn(t)
    <3>1. UNCHANGED sessionVars /\ pc[t] # "queued" /\ \A u \in Inputs \ {t} : pc'[u] = pc[u]
      BY <2>3 DEF CancelTurn, TypeOK
    <3> QED
      BY <1>1, <1>3, <2>3, <3>1, CancelKeeps
  <2>4. CASE \E b \in Batches : ModelToolCalls(t, b)
    <3>1. UNCHANGED sessionVars /\ pc[t] # "queued" /\ \A u \in Inputs \ {t} : pc'[u] = pc[u]
      BY <2>4 DEF ModelToolCalls, Streaming, TypeOK
    <3> QED
      BY <1>1, <1>3, <2>4, <3>1, NewBatchKeeps
  <2>5. CASE \E k \in CallIndices :
               \/ StartCall(t, k) \/ CallRefused(t, k) \/ CallTimesOut(t, k)
               \/ Approve(t, k) \/ CallReturns(t, k) \/ CallDeadline(t, k)
    <3>1. PICK k \in CallIndices :
               \/ StartCall(t, k) \/ CallRefused(t, k) \/ CallTimesOut(t, k)
               \/ Approve(t, k) \/ CallReturns(t, k) \/ CallDeadline(t, k)
      BY <2>5
    <3>2. BatchInv(t)' /\ CountInv(t)' /\ \A u \in Inputs \ {t} : Plain(u)
      BY <1>1, <3>1, CallKeeps
    <3>3. UNCHANGED sessionVars
      BY <3>1 DEF StartCall, CallRefused, CallTimesOut, Approve, CallReturns, CallDeadline
    <3>4. pc' = pc \/ (pc[t] = "batch" /\ pc' = [pc EXCEPT ![t] = "raise"])
      BY <3>1 DEF StartCall, CallRefused, CallTimesOut, Approve, CallReturns, CallDeadline,
                  EmitFromCall, Runs
    <3>5. \A u \in Inputs \ {t} : pc'[u] = pc[u]
      BY <3>4 DEF TypeOK
    <3>6. CASE pc[t] # "queued"
      BY <1>3, <3>2, <3>3, <3>5, <3>6
    <3>7. CASE pc' = pc
      <4>1. QueueInv'
        BY <1>1, <3>3, <3>7, QueueKept DEF sessionVars
      <4>2. \A u \in Inputs : BatchInv(u)' /\ CountInv(u)'
        BY <1>1, <3>2, PlainKeeps
      <4> QED
        BY <4>1, <4>2 DEF LimitsInv
    <3> QED
      BY <3>4, <3>6, <3>7
  <2>6. CASE \/ FirstStep(t) \/ LoseTask(t) \/ EmitUserMessage(t) \/ PrepareModelMessages(t)
             \/ FlushStreamedMessage(t) \/ EmitAnswer(t) \/ Finish(t) \/ BatchDone(t) \/ BatchFails(t)
             \/ Abort(t) \/ AbortFromException(t) \/ HandlerAbort(t)
             \/ ModelMessageCompleted(t) \/ ModelAnswer(t) \/ ModelError(t) \/ ModelRaises(t)
             \/ TurnDeadline(t)
    <3>1. \A u \in Inputs : Plain(u)
      BY <2>6, TurnPlain
    <3>2. UNCHANGED sessionVars
      BY <2>6 DEF FirstStep, LoseTask, EmitUserMessage, PrepareModelMessages,
         FlushStreamedMessage, EmitAnswer, Finish, BatchDone, BatchFails, Abort, AbortFromException,
         HandlerAbort, ModelMessageCompleted, ModelAnswer, ModelError, ModelRaises, TurnDeadline
    <3>3. pc[t] # "queued"
      BY <2>6 DEF FirstStep, LoseTask, EmitUserMessage, PrepareModelMessages,
         FlushStreamedMessage, EmitAnswer, Finish, BatchDone, BatchFails, Abort, AbortFromException,
         HandlerAbort, ModelMessageCompleted, ModelAnswer, ModelError, ModelRaises, TurnDeadline,
         Streaming, Suspended
    <3>4. pc' = pc \/ \E x : pc' = [pc EXCEPT ![t] = x]
      BY <2>6 DEF FirstStep, LoseTask, EmitUserMessage, PrepareModelMessages,
         FlushStreamedMessage, EmitAnswer, Finish, BatchDone, BatchFails, Abort, AbortFromException,
         HandlerAbort, ModelMessageCompleted, ModelAnswer, ModelError, ModelRaises, TurnDeadline,
         Emit
    <3>5. \A u \in Inputs \ {t} : pc'[u] = pc[u]
      BY <3>4 DEF TypeOK
    <3> QED
      BY <1>1, <1>2, <3>1, <3>2, <3>3, <3>5, TurnKeepsQueue
  <2> QED
    BY <1>8, <2>1, <2>2, <2>3, <2>4, <2>5, <2>6 DEF RunTurn, Environment
<1>9. CASE UNCHANGED vars
  BY <1>4, <1>9 DEF vars
<1> QED
  BY <1>5, <1>6, <1>7, <1>8, <1>9 DEF Next, Client

\* The invariant bounds what the settings bound.
LEMMA LimitsImplied == TypeOK /\ LimitsInv => LimitsRespected
<1> SUFFICES ASSUME TypeOK, LimitsInv
             PROVE  LimitsRespected
  OBVIOUS
<1>1. ASSUME NEW t \in Inputs
      PROVE  /\ Cardinality(InState(t, Waiting)) <= MaxParallel
             /\ Cardinality(InState(t, Waiting)) > 1 =>
                  \A k \in InState(t, Waiting) : batch[t][k] = "read"
  <2>1. BatchInv(t) /\ Len(calls[t]) \in Nat
    BY DEF LimitsInv, TypeOK
  <2>2. CASE CanParallelize(batch[t])
    <3>1. Len(batch[t]) \in Nat
      <4>1. batch[t] = <<>> \/ batch[t] \in Seq(Kinds)
        BY SessionAssumption DEF TypeOK
      <4> QED
        BY <4>1
    <3>2. \A k \in InState(t, Waiting) : k \in 1..Len(batch[t])
      BY <2>1, <3>1 DEF InState, BatchInv
    <3> QED
      BY <2>1, <2>2, <3>2 DEF BatchInv, CanParallelize
  <2>3. CASE ~CanParallelize(batch[t])
    <3>1. \A j, k \in InState(t, Waiting) : j = k
      <4> SUFFICES ASSUME NEW j \in InState(t, Waiting), NEW k \in InState(t, Waiting), j < k
                   PROVE  FALSE
        BY <2>1 DEF InState
      <4>1. j \in 1..(k - 1) /\ calls[t][j] \in Waiting
        BY <2>1 DEF InState
      <4> QED
        BY <2>1, <2>3, <4>1 DEF BatchInv, Waiting
    <3>2. InState(t, Waiting) = {} \/ \E k : InState(t, Waiting) = {k}
      BY <3>1
    <3>3. Cardinality(InState(t, Waiting)) = 0 \/ Cardinality(InState(t, Waiting)) = 1
      BY <3>2, FS_EmptySet, FS_Singleton
    <3> QED
      BY <3>3, SessionAssumption
  <2> QED
    BY <2>2, <2>3
<1>2. ToolConcurrency
  BY <1>1 DEF ToolConcurrency
<1>3. ASSUME NEW t \in Inputs
      PROVE  /\ Count("model_tool_call", t) <= MaxToolCalls
             /\ Count("tool_call_started", t) <= MaxToolCalls
  <2>1. /\ Count("tool_call_started", t) \in Nat /\ Cardinality(InState(t, {"todo"})) \in Nat
        /\ toolCallCount[t] \in Nat /\ toolCallCount[t] <= MaxToolCalls /\ MaxToolCalls \in Nat
    BY PlacesFinite, CallsFinite, SessionAssumption DEF TypeOK
  <2> QED
    BY <2>1 DEF LimitsInv, CountInv
<1>4. BudgetRespected
  BY <1>3 DEF BudgetRespected, Count, Places
<1> QED
  BY <1>2, <1>4 DEF LimitsRespected

LEMMA LimitsInit == Init => LimitsInv
<1> SUFFICES ASSUME Init
             PROVE  LimitsInv
  OBVIOUS
<1>1. TypeOK
  BY InitType
<1>2. Len(log) = 0 /\ Len(queue) = 0
  BY DEF Init
<1>3. \A type, t : Count(type, t) = 0
  <2>1. \A type, t : Places(type, t) = {}
    BY <1>2 DEF Places
  <2> QED
    BY <2>1, FS_EmptySet DEF Count
<1>4. \A t \in Inputs : \A S : InState(t, S) = {} /\ Cardinality(InState(t, S)) = 0
  <2>1. \A t \in Inputs : Len(calls[t]) = 0
    BY DEF Init
  <2>2. \A t \in Inputs : \A S : InState(t, S) = {}
    BY <2>1 DEF InState
  <2> QED
    BY <2>2, FS_EmptySet
<1>5. \A t \in Inputs : BatchInv(t)
  BY <1>4, SessionAssumption DEF BatchInv, Init
<1>6. \A t \in Inputs : CountInv(t)
  BY <1>3, <1>4, SessionAssumption DEF CountInv, Init
<1> QED
  BY <1>2, <1>5, <1>6 DEF LimitsInv, QueueInv

LEMMA LimitsAlways == Spec => []LimitsInv
<1>1. Init => LimitsInv
  BY LimitsInit
<1>2. TypeOK /\ LimitsInv /\ [Next]_vars => LimitsInv'
  BY LimitsStep
<1> QED
  BY <1>1, <1>2, TypeCorrect, PTL DEF Spec

\* No turn ever has more calls waiting for their tools than max_parallel_read_tools, more than
\* one only when all of them are reads, and none records or starts more calls than
\* max_tool_calls over all its rounds (Turn._run_tool_batch, Turn._record_tool_calls).
THEOREM Limits == Spec => []LimitsRespected
  BY LimitsAlways, LimitsImplied, TypeCorrect, PTL

-----------------------------------------------------------------------------
(* Whose cancellation it is *)

\* The reasons a caller can give, and the operation that gives each.
CallerReasons == {"interrupt", "session_closed"}
OpOf(reason) == IF reason = "interrupt" THEN "interrupt" ELSE "close"

Asked(t, reason) == \E c \in Callers : caller[c].op = OpOf(reason) /\ caller[c].turn = t

\* Every reason a caller can give, pending, about to be logged or logged, was given.
PendingOwn == \A t \in Inputs : \A r \in cancels[t] \cap CallerReasons : Asked(t, r)
ReasonOwn  == \A t \in Inputs : why[t] \in CallerReasons => Asked(t, why[t])
LoggedOwn  ==
  \A i \in 1..Len(log) : log[i].type = "turn_aborted" =>
    log[i].turn \in Inputs /\ (log[i].why \in CallerReasons => Asked(log[i].turn, log[i].why))

OwnInv == PendingOwn /\ ReasonOwn /\ LoggedOwn

\* A caller that met a turn stays the caller that met it.
LEMMA AskedStays ==
  ASSUME TypeOK, [Next]_vars, NEW t \in Inputs, NEW reason, Asked(t, reason)
  PROVE  Asked(t, reason)'
<1>1. PICK c \in Callers : caller[c].op = OpOf(reason) /\ caller[c].turn = t
  BY DEF Asked
<1>2. caller[c] # Idle
  BY <1>1, SessionAssumption DEF Idle
<1>3. caller \in [Callers -> CallerStates]
  BY DEF TypeOK
<1>4. caller'[c].op = caller[c].op /\ caller'[c].turn = caller[c].turn
  <2>1. ASSUME NEW d \in Callers, Interrupt(d) \/ Close(d)
        PROVE  caller'[c] = caller[c]
    BY <1>2, <1>3, <2>1 DEF Interrupt, Close, EmitClosed
  <2>2. ASSUME NEW d \in Callers, InterruptEnds(d)
        PROVE  caller'[c].op = caller[c].op /\ caller'[c].turn = caller[c].turn
    BY <1>3, <2>2 DEF InterruptEnds, CallerStates
  <2>3. ASSUME NEW d \in Callers, CloseEnds(d)
        PROVE  caller'[c].op = caller[c].op /\ caller'[c].turn = caller[c].turn
    BY <1>3, <2>3 DEF CloseEnds, EmitClosed, CallerStates
  <2>4. ASSUME NEW i \in Inputs, Submit(i)
        PROVE  caller' = caller
    BY <2>4 DEF Submit
  <2>5. ASSUME NEW u \in Inputs, RunTurn(u) \/ Environment(u) \/ TurnDeadline(u)
        PROVE  caller' = caller
    BY <2>5 DEF RunTurn, Environment, TurnDeadline, sessionVars, FirstStep, LoseTask,
       EmitUserMessage, PrepareModelMessages, FlushStreamedMessage, RecordToolCalls, EmitAnswer,
       Finish, BatchDone, BatchFails, CancelTurn, Abort, AbortFromException, HandlerAbort, Unwind,
       StartCall, CallRefused, CallTimesOut, ModelMessageCompleted, ModelAnswer, ModelError,
       ModelRaises, ModelToolCalls, Approve, CallReturns, CallDeadline
  <2> QED
    BY <2>1, <2>2, <2>3, <2>4, <2>5 DEF Next, Client, vars
<1> QED
  BY <1>1, <1>4 DEF Asked

\* A step that makes no request, gives a turn no caller's reason and logs no turn_aborted, or
\* logs it with the turn's own reason.
LEMMA OwnKept ==
  ASSUME TypeOK, OwnInv, [Next]_vars, UNCHANGED cancels,
         \A t \in Inputs : \/ why'[t] = why[t] \/ why'[t] \notin CallerReasons
                           \/ why'[t] \in cancels[t],
         \/ log' = log
         \/ \E e \in Events : log' = Append(log, e) /\ e.type # "turn_aborted"
         \/ \E t \in Inputs : log' = Append(log, Event("turn_aborted", t, 0, why[t]))
  PROVE  OwnInv'
<1>1. PendingOwn'
  BY AskedStays DEF OwnInv, PendingOwn
<1>2. ReasonOwn'
  BY AskedStays DEF OwnInv, PendingOwn, ReasonOwn
<1>3. log \in Seq(Events) /\ Len(log) \in Nat
  BY DEF TypeOK
<1>4. \A i \in 1..Len(log) : \A r : log[i].type = "turn_aborted" =>
        /\ log[i].turn \in Inputs
        /\ log[i].why = r /\ r \in CallerReasons => \A t : log[i].turn = t => Asked(t, r)'
  BY AskedStays DEF OwnInv, LoggedOwn
<1>5. LoggedOwn'
  <2>1. CASE log' = log
    BY <1>4, <2>1 DEF LoggedOwn, Asked
  <2>2. ASSUME NEW e \in Events, log' = Append(log, e),
               e.type = "turn_aborted" =>
                 e.turn \in Inputs /\ (e.why \in CallerReasons => Asked(e.turn, e.why)')
        PROVE  LoggedOwn'
    <3>1. /\ Len(log') = Len(log) + 1 /\ log'[Len(log) + 1] = e
          /\ \A i \in 1..Len(log) : log'[i] = log[i]
      BY <1>3, <2>2
    <3>2. \A i \in 1..Len(log') : i \in 1..Len(log) \/ i = Len(log) + 1
      BY <1>3, <3>1
    <3> QED
      BY <1>4, <2>2, <3>1, <3>2 DEF LoggedOwn, Asked
  <2>3. ASSUME NEW t \in Inputs, log' = Append(log, Event("turn_aborted", t, 0, why[t]))
        PROVE  LoggedOwn'
    <3>1. PICK e \in Events : e = Event("turn_aborted", t, 0, why[t]) /\ log' = Append(log, e)
      BY <2>3 DEF Event, Events, EventTypes, TypeOK
    <3>2. e.turn = t /\ e.why = why[t]
      BY <3>1 DEF Event
    <3>3. e.why \in CallerReasons => Asked(e.turn, e.why)
      BY <3>2 DEF OwnInv, ReasonOwn
    <3>4. e.why \in CallerReasons => Asked(e.turn, e.why)'
      BY <3>2, <3>3, AskedStays
    <3> QED
      BY <2>2, <3>1, <3>2, <3>4
  <2> QED
    BY <2>1, <2>2, <2>3
<1> QED
  BY <1>1, <1>2, <1>5 DEF OwnInv

\* A step that requests a cancellation of turn t and writes nothing of a turn.
LEMMA RequestKept ==
  ASSUME TypeOK, OwnInv, [Next]_vars, NEW t \in Inputs, NEW reason \in Requests,
         cancels' = [cancels EXCEPT ![t] = @ \cup {reason}] \/ cancels' = [cancels EXCEPT ![t] = {reason}],
         reason \in CallerReasons => Asked(t, reason)',
         UNCHANGED <<why, log>>
  PROVE  OwnInv'
<1>1. cancels'[t] \subseteq cancels[t] \cup {reason} /\ \A u \in Inputs \ {t} : cancels'[u] = cancels[u]
  BY DEF TypeOK
<1>2. PendingOwn'
  BY <1>1, AskedStays DEF OwnInv, PendingOwn
<1>3. ReasonOwn'
  BY AskedStays DEF OwnInv, ReasonOwn
<1>4. LoggedOwn'
  BY AskedStays DEF OwnInv, LoggedOwn
<1> QED
  BY <1>2, <1>3, <1>4 DEF OwnInv

LEMMA OwnStep == TypeOK /\ SingleRunner /\ OwnInv /\ [Next]_vars => OwnInv'
<1> SUFFICES ASSUME TypeOK, SingleRunner, OwnInv, [Next]_vars
             PROVE  OwnInv'
  OBVIOUS
<1> DEFINE Writes(e) == log' = Append(log, e) /\ e \in Events /\ e.type # "turn_aborted"
<1>1. ASSUME UNCHANGED <<cancels, why>>, log' = log \/ \E e : Writes(e)
      PROVE  OwnInv'
  BY <1>1, OwnKept
<1>2. ASSUME NEW type \in EventTypes \ {"turn_aborted"}, NEW t \in Inputs \cup {NoTurn}, NEW n \in Int
      PROVE  Event(type, t, n, "none") \in Events /\ Event(type, t, n, "none").type # "turn_aborted"
  BY DEF Event, Events, Reasons
<1>3. /\ \A u \in Inputs \cup {NoTurn} :
           Event("session_closed", u, 0, "none").type = "session_closed"
           /\ Event("session_closed", u, 0, "none") \in Events
  BY DEF Event, Events, Reasons, EventTypes
<1>4. CASE \E i \in Inputs : Submit(i)
  BY <1>1, <1>4 DEF Submit, turnVars
<1>5. ASSUME NEW c \in Callers, Interrupt(c)
      PROVE  OwnInv'
  <2>1. CASE UNCHANGED cancels
    BY <1>1, <1>5, <2>1 DEF Interrupt, turnVars
  <2>2. CASE ~UNCHANGED cancels
    <3>1. /\ runner \in Inputs /\ cancels' = [cancels EXCEPT ![runner] = {"interrupt"}]
          /\ caller' = [caller EXCEPT ![c] = [op |-> "interrupt", st |-> "waiting", turn |-> runner]]
          /\ UNCHANGED <<why, log>>
      BY <1>5, <2>2 DEF Interrupt, RequestCancel, TypeOK, turnVars
    <3>2. \A t \in Inputs : t = runner => Asked(t, "interrupt")'
      BY <3>1 DEF Asked, OpOf, TypeOK
    <3>3. PICK t \in Inputs : t = runner
      BY <3>1
    <3>4. cancels' = [cancels EXCEPT ![t] = {"interrupt"}] /\ Asked(t, "interrupt")'
      BY <3>1, <3>2, <3>3
    <3> QED
      BY <3>1, <3>4, RequestKept DEF Requests
  <2> QED
    BY <2>1, <2>2
<1>6. ASSUME NEW c \in Callers, Close(c)
      PROVE  OwnInv'
  <2>1. CASE UNCHANGED cancels
    BY <1>1, <1>3, <1>6, <2>1 DEF Close, EmitClosed, turnVars
  <2>2. CASE ~UNCHANGED cancels
    <3>1. /\ runner \in Inputs /\ cancels' = [cancels EXCEPT ![runner] = {"session_closed"}]
          /\ caller' = [caller EXCEPT ![c] = [op |-> "close", st |-> "waiting", turn |-> runner]]
          /\ UNCHANGED <<why, log>>
      BY <1>6, <2>2 DEF Close, RequestCancel, TypeOK, turnVars
    <3>2. \A t \in Inputs : t = runner => Asked(t, "session_closed")'
      BY <3>1 DEF Asked, OpOf, TypeOK
    <3>3. PICK t \in Inputs : t = runner
      BY <3>1
    <3>4. cancels' = [cancels EXCEPT ![t] = {"session_closed"}] /\ Asked(t, "session_closed")'
      BY <3>1, <3>2, <3>3
    <3> QED
      BY <3>1, <3>4, RequestKept DEF Requests
  <2> QED
    BY <2>1, <2>2
<1>7. CASE \E c \in Callers : InterruptEnds(c) \/ CloseEnds(c)
  BY <1>1, <1>3, <1>7 DEF InterruptEnds, CloseEnds, EmitClosed, turnVars
<1>8. ASSUME NEW t \in Inputs, TurnDeadline(t)
      PROVE  OwnInv'
  <2>1. cancels' = [cancels EXCEPT ![t] = @ \cup {"turn_timeout"}] /\ UNCHANGED <<why, log>>
    BY <1>8 DEF TurnDeadline, turnVars
  <2>2. "turn_timeout" \in Requests /\ "turn_timeout" \notin CallerReasons
    BY DEF Requests, CallerReasons
  <2> QED
    BY <2>1, <2>2, RequestKept
<1>9. ASSUME NEW t \in Inputs, RunTurn(t) \/ Environment(t)
      PROVE  OwnInv'
  <2>1. ASSUME UNCHANGED cancels, log' = log \/ \E e : Writes(e),
               why' = why \/ \E r \in Reasons : why' = [why EXCEPT ![t] = r] /\ (r \notin CallerReasons \/ r \in cancels[t])
        PROVE  OwnInv'
    <3>1. \A u \in Inputs : why'[u] = why[u] \/ why'[u] \notin CallerReasons \/ why'[u] \in cancels[u]
      BY <2>1 DEF TypeOK
    <3> QED
      BY <2>1, <3>1, OwnKept
  <2>2. ASSUME NEW type \in EventTypes \ {"turn_aborted"}, NEW n \in Int,
               log' = log \/ log' = Append(log, Event(type, t, n, "none"))
        PROVE  log' = log \/ \E e : Writes(e)
    BY <1>2, <2>2
  <2> DEFINE Quiet == EventTypes \ {"turn_aborted"}
  <2>3. /\ "turn_started" \in Quiet /\ "user_message" \in Quiet /\ "context_compacted" \in Quiet
        /\ "assistant_message" \in Quiet /\ "error" \in Quiet /\ "turn_finished" \in Quiet
        /\ "model_tool_call" \in Quiet /\ "tool_call_started" \in Quiet
        /\ "tool_call_finished" \in Quiet /\ 0 \in Int
    BY DEF EventTypes
  <2>4. /\ "error" \in Reasons \ CallerReasons /\ "model_error" \in Reasons \ CallerReasons
        /\ "context_limit_exceeded" \in Reasons \ CallerReasons
        /\ "max_tool_calls_exceeded" \in Reasons \ CallerReasons
    BY DEF Reasons, CallerReasons
  <2> HIDE DEF Quiet, Writes
  <2>5. ASSUME NEW type \in Quiet, NEW n \in Int, log' = log \/ log' = Append(log, Event(type, t, n, "none"))
        PROVE  log' = log \/ \E e : Writes(e)
    BY <2>2, <2>5 DEF Quiet
  <2>6. CASE \/ FirstStep(t) \/ LoseTask(t) \/ EmitUserMessage(t) \/ FlushStreamedMessage(t)
             \/ EmitAnswer(t) \/ Finish(t) \/ BatchDone(t) \/ BatchFails(t) \/ Unwind(t)
             \/ ModelAnswer(t) \/ ModelRaises(t) \/ ModelMessageCompleted(t)
             \/ \E b \in Batches : ModelToolCalls(t, b)
    <3>1. UNCHANGED <<cancels, why>>
      BY <2>6 DEF FirstStep, LoseTask, EmitUserMessage, FlushStreamedMessage, EmitAnswer, Finish,
         BatchDone, BatchFails, Unwind, ModelAnswer, ModelRaises, ModelMessageCompleted,
         ModelToolCalls, turnVars
    <3>2. log' = log \/ \E type \in Quiet : log' = Append(log, Event(type, t, 0, "none"))
      BY <2>3, <2>6 DEF FirstStep, LoseTask, EmitUserMessage, FlushStreamedMessage, EmitAnswer, Finish,
         BatchDone, BatchFails, Unwind, ModelAnswer, ModelRaises, ModelMessageCompleted,
         ModelToolCalls, Emit
    <3> QED
      BY <2>1, <2>3, <2>5, <3>1, <3>2
  <2>7. CASE PrepareModelMessages(t) \/ ModelError(t) \/ AbortFromException(t)
    <3>1. /\ UNCHANGED cancels
          /\ why' = why \/ \E r \in Reasons \ CallerReasons : why' = [why EXCEPT ![t] = r]
      BY <2>4, <2>7 DEF PrepareModelMessages, ModelError, AbortFromException
    <3>2. log' = log \/ \E type \in Quiet : log' = Append(log, Event(type, t, 0, "none"))
      BY <2>3, <2>7 DEF PrepareModelMessages, ModelError, AbortFromException, Emit
    <3> QED
      BY <2>1, <2>3, <2>5, <3>1, <3>2
  <2>8. CASE RecordToolCalls(t)
    <3>1. /\ UNCHANGED cancels
          /\ why' = why \/ \E r \in Reasons \ CallerReasons : why' = [why EXCEPT ![t] = r]
      BY <2>4, <2>8 DEF RecordToolCalls
    <3>2. toolCallCount[t] + (Len(calls[t]) + 1) \in Int
      BY SessionAssumption DEF TypeOK
    <3>3. \/ log' = log
          \/ log' = Append(log, Event("model_tool_call", t, toolCallCount[t] + (Len(calls[t]) + 1), "none"))
      BY <2>8 DEF RecordToolCalls, Emit
    <3> QED
      BY <2>1, <2>3, <2>5, <3>1, <3>2, <3>3
  <2>9. CASE \E k \in CallIndices :
               \/ StartCall(t, k) \/ CallRefused(t, k) \/ CallTimesOut(t, k)
               \/ Approve(t, k) \/ CallReturns(t, k) \/ CallDeadline(t, k)
    <3>1. PICK k \in CallIndices :
               \/ StartCall(t, k) \/ CallRefused(t, k) \/ CallTimesOut(t, k)
               \/ Approve(t, k) \/ CallReturns(t, k) \/ CallDeadline(t, k)
      BY <2>9
    <3>2. UNCHANGED <<cancels, why>> /\ k \in 1..Len(calls[t])
      BY <3>1 DEF StartCall, CallRefused, CallTimesOut, Approve, CallReturns, CallDeadline, Runs
    <3>3. CallNo(t, k) \in Int
      BY <3>2, SessionAssumption DEF CallNo, TypeOK
    <3>4. log' = log \/ \E type \in Quiet : log' = Append(log, Event(type, t, CallNo(t, k), "none"))
      BY <2>3, <3>1 DEF StartCall, CallRefused, CallTimesOut, Approve, CallReturns, CallDeadline, EmitFromCall
    <3> QED
      BY <2>1, <2>5, <3>2, <3>3, <3>4
  <2>10. CASE CancelTurn(t)
    <3>1. UNCHANGED <<cancels, log>> /\ why' = [why EXCEPT ![t] = CancelReason(t)] /\ cancels[t] # {}
      BY <2>10 DEF CancelTurn
    <3>2. CancelReason(t) \in Reasons /\ (CancelReason(t) \notin CallerReasons \/ CancelReason(t) \in cancels[t])
      BY DEF CancelReason, Reasons, Requests, CallerReasons
    <3> QED
      BY <2>1, <3>1, <3>2
  <2>11. CASE Abort(t) \/ HandlerAbort(t)
    <3>1. UNCHANGED <<cancels, why>> /\ (log' = log \/ log' = Append(log, Event("turn_aborted", t, 0, why[t])))
      BY <2>11 DEF Abort, HandlerAbort, Emit, turnVars
    <3> QED
      BY <3>1, OwnKept
  <2> QED
    BY <1>9, <2>6, <2>7, <2>8, <2>9, <2>10, <2>11 DEF RunTurn, Environment
<1>10. CASE UNCHANGED vars
  BY <1>1, <1>10 DEF vars
<1> QED
  BY <1>4, <1>5, <1>6, <1>7, <1>8, <1>9, <1>10 DEF Next, Client

LEMMA OwnImplied == OwnInv => AbortReasonIsOwn
  BY DEF OwnInv, LoggedOwn, AbortReasonIsOwn, CallerReasons, Asked, OpOf

\* A turn is logged as interrupted, or as ended by the close of the session, only when a caller
\* of that operation met this very turn (Session._cancel_active_task, Session._run_turn).
THEOREM OwnReason == Spec => []AbortReasonIsOwn
<1>1. Init => OwnInv
  BY DEF Init, OwnInv, PendingOwn, ReasonOwn, LoggedOwn, CallerReasons
<1>2. TypeOK /\ SingleRunner /\ OwnInv /\ [Next]_vars => OwnInv'
  BY OwnStep
<1> QED
  BY <1>1, <1>2, OwnImplied, TypeCorrect, OneRunner, PTL DEF Spec

-----------------------------------------------------------------------------
(* That it stops *)

\* Where a turn with a request pending can be: it has not seen the request yet, or it is on
\* its way out.
StopPcs == {"created", "model", "batch", "handle", "unwind", "crash"} \cup EndedPcs

\* Calls that are still to end.
Open == {"todo", "denied"} \cup Waiting

\* While no append fails no call does, the calls that are still to end belong to a batch the
\* turn is waiting for, and a turn does not come far with a request pending.
QuietAt(t) ==
  /\ InState(t, {"failed"}) = {}
  /\ InState(t, Open) # {} => pc[t] = "batch"
  /\ cancels[t] # {} => pc[t] \in StopPcs

QuietInv == \A t \in Inputs : QuietAt(t)

\* No append fails.
LEMMA NoFault ==
  ASSUME TypeOK, MaxFaults = 0
  PROVE  ~(faults < MaxFaults)
  BY DEF TypeOK

LEMMA QuietStays ==
  ASSUME NEW u \in Inputs, QuietAt(u), calls'[u] = calls[u], cancels'[u] = cancels[u],
         pc'[u] = pc[u] \/ (pc[u] # "batch" /\ (cancels[u] # {} => pc'[u] \in StopPcs))
  PROVE  QuietAt(u)'
<1>1. \A S : InState(u, S)' = InState(u, S)
  BY DEF InState
<1> QED
  BY <1>1 DEF QuietAt

\* A step of one call.
LEMMA CallQuiet ==
  ASSUME TypeOK, MaxFaults = 0, QuietInv, NEW t \in Inputs, NEW k,
         StartCall(t, k) \/ Approve(t, k) \/ CallReturns(t, k) \/ CallRefused(t, k)
           \/ CallDeadline(t, k) \/ CallTimesOut(t, k)
  PROVE  /\ QuietInv' /\ cancels[t] = {}
         /\ log' = log \/ \E n, type : log' = Append(log, Event(type, t, n, "none"))
<1>1. k \in 1..Len(calls[t]) /\ calls[t][k] \in Open /\ UNCHANGED cancels /\ Runs(t, k)
  BY DEF StartCall, Approve, CallReturns, CallRefused, CallDeadline, CallTimesOut, Runs, Open, Waiting
<1>2. pc[t] = "batch"
  BY <1>1 DEF QuietInv, QuietAt, InState
<1>3. cancels[t] = {}
  BY <1>1, <1>2 DEF Runs
<1>4. ~(faults < MaxFaults)
  BY NoFault
<1>5. /\ pc' = pc
      /\ calls' = calls \/ \E s \in Open \cup {"done"} : calls' = [calls EXCEPT ![t][k] = s]
      /\ log' = log \/ \E n, type : log' = Append(log, Event(type, t, n, "none"))
  BY <1>4 DEF StartCall, Approve, CallReturns, CallRefused, CallDeadline, CallTimesOut,
              EmitFromCall, Open, Waiting
<1>6. calls[t] \in Seq(CallStates)
  BY DEF TypeOK
<1>7. \A u \in Inputs \ {t} : QuietAt(u)'
  <2>1. \A u \in Inputs \ {t} : calls'[u] = calls[u]
    BY <1>5 DEF TypeOK
  <2> QED
    BY <1>1, <1>5, <2>1, QuietStays DEF QuietInv
<1>8. QuietAt(t)'
  <2>1. Len(calls'[t]) = Len(calls[t])
        /\ \A j \in 1..Len(calls[t]) : calls'[t][j] = calls[t][j] \/ calls'[t][j] # "failed"
    BY <1>1, <1>5, <1>6 DEF TypeOK, Open, Waiting
  <2>2. InState(t, {"failed"})' = {}
    BY <2>1 DEF InState, QuietInv, QuietAt
  <2> QED
    BY <1>1, <1>2, <1>3, <1>5, <2>2 DEF QuietAt
<1> QED
  BY <1>3, <1>5, <1>7, <1>8 DEF QuietInv

\* Any other step of turn t.
LEMMA TurnQuiet ==
  ASSUME TypeOK, LimitsInv, MaxFaults = 0, QuietInv, NEW t \in Inputs,
         \/ FirstStep(t) \/ LoseTask(t) \/ EmitUserMessage(t) \/ PrepareModelMessages(t)
         \/ FlushStreamedMessage(t) \/ RecordToolCalls(t) \/ EmitAnswer(t) \/ Finish(t)
         \/ BatchDone(t) \/ BatchFails(t) \/ CancelTurn(t)
         \/ Abort(t) \/ AbortFromException(t) \/ HandlerAbort(t)
         \/ ModelMessageCompleted(t) \/ ModelAnswer(t) \/ ModelError(t) \/ ModelRaises(t)
         \/ \E b \in Batches : ModelToolCalls(t, b)
  PROVE  QuietInv'
<1>1. QuietAt(t) /\ BatchInv(t)
  BY DEF QuietInv, LimitsInv
<1>2. ~(faults < MaxFaults)
  BY NoFault
<1>3. ASSUME UNCHANGED cancels, \A u \in Inputs \ {t} : calls'[u] = calls[u] /\ pc'[u] = pc[u],
             QuietAt(t)'
      PROVE  QuietInv'
  BY <1>3, QuietStays DEF QuietInv
<1>4. ASSUME UNCHANGED <<calls, cancels>>, pc[t] # "batch",
             NEW x, pc' = [pc EXCEPT ![t] = x], x \in StopPcs \/ cancels[t] = {}
      PROVE  QuietInv'
  <2>1. QuietAt(t)'
    BY <1>1, <1>4, QuietStays DEF TypeOK
  <2> QED
    BY <1>3, <1>4, <2>1 DEF TypeOK
<1>5. pc[t] \notin StopPcs => cancels[t] = {}
  BY <1>1 DEF QuietAt
<1>6. CASE FirstStep(t) \/ LoseTask(t)
  <2>1. /\ UNCHANGED <<calls, cancels>> /\ pc[t] # "batch"
        /\ \E x : pc' = [pc EXCEPT ![t] = x] /\ (x \in StopPcs \/ cancels[t] = {})
    BY <1>2, <1>6 DEF FirstStep, LoseTask, Emit, turnVars, StopPcs, EndedPcs
  <2> QED
    BY <1>4, <2>1
<1>7. CASE \/ EmitUserMessage(t) \/ PrepareModelMessages(t) \/ FlushStreamedMessage(t)
           \/ EmitAnswer(t) \/ Finish(t) \/ Abort(t) \/ AbortFromException(t)
  <2>1. UNCHANGED <<calls, cancels>> /\ \E x : pc' = [pc EXCEPT ![t] = x]
    BY <1>2, <1>7 DEF EmitUserMessage, PrepareModelMessages, FlushStreamedMessage, EmitAnswer,
                      Finish, Abort, AbortFromException, Emit, turnVars
  <2>2. pc[t] \notin StopPcs
    BY <1>7 DEF EmitUserMessage, PrepareModelMessages, FlushStreamedMessage, EmitAnswer,
                Finish, Abort, AbortFromException, StopPcs, EndedPcs
  <2>3. pc[t] # "batch"
    BY <2>2 DEF StopPcs
  <2> QED
    BY <1>4, <1>5, <2>1, <2>2, <2>3
<1>8. CASE HandlerAbort(t)
  <2>1. UNCHANGED <<calls, cancels>> /\ pc[t] # "batch" /\ pc' = [pc EXCEPT ![t] = "unwind"]
    BY <1>2, <1>8 DEF HandlerAbort, Emit, turnVars
  <2> QED
    BY <1>4, <2>1 DEF StopPcs
<1>9. CASE ModelMessageCompleted(t) \/ ModelAnswer(t) \/ ModelError(t) \/ ModelRaises(t)
  <2>1. /\ UNCHANGED <<calls, cancels>> /\ pc[t] # "batch" /\ cancels[t] = {}
        /\ \E x : pc' = [pc EXCEPT ![t] = x]
    BY <1>2, <1>9 DEF ModelMessageCompleted, ModelAnswer, ModelError, ModelRaises, Streaming,
                      Emit, turnVars
  <2> QED
    BY <1>4, <2>1
<1>10. CASE \E b \in Batches : ModelToolCalls(t, b)
  <2>1. /\ calls' = [calls EXCEPT ![t] = <<>>] /\ UNCHANGED cancels /\ cancels[t] = {}
        /\ \E x : pc' = [pc EXCEPT ![t] = x]
    BY <1>10 DEF ModelToolCalls, Streaming
  <2>2. calls'[t] = <<>>
    BY <2>1 DEF TypeOK
  <2>3. \A S : InState(t, S)' = {}
    BY <2>2 DEF InState
  <2>4. QuietAt(t)'
    BY <2>1, <2>3 DEF QuietAt
  <2> QED
    BY <1>3, <2>1, <2>4 DEF TypeOK
<1>11. CASE RecordToolCalls(t)
  <2>1. pc[t] = "record" /\ cancels[t] = {} /\ UNCHANGED cancels
    BY <1>5, <1>11 DEF RecordToolCalls, StopPcs, EndedPcs
  <2>2. InState(t, Open) = {} /\ InState(t, {"failed"}) = {}
    BY <1>1, <2>1 DEF QuietAt
  <2>3. calls[t] \in Seq(CallStates) /\ Len(calls[t]) \in Nat
    BY DEF TypeOK
  <2>4. \A u \in Inputs \ {t} : calls'[u] = calls[u] /\ pc'[u] = pc[u]
    BY <1>11 DEF RecordToolCalls, Emit, TypeOK
  <2>5. CASE UNCHANGED calls
    <3>1. \E x : pc' = [pc EXCEPT ![t] = x]
      BY <1>2, <1>11 DEF RecordToolCalls, Emit
    <3> QED
      BY <1>4, <2>1, <2>5, <3>1
  <2>6. CASE calls' = [calls EXCEPT ![t] = Append(@, "recorded")]
    <3>1. /\ Len(calls'[t]) = Len(calls[t]) + 1 /\ calls'[t][Len(calls[t]) + 1] = "recorded"
          /\ \A j \in 1..Len(calls[t]) : calls'[t][j] = calls[t][j]
      BY <2>3, <2>6 DEF TypeOK
    <3>2. InState(t, Open)' = {} /\ InState(t, {"failed"})' = {}
      BY <2>2, <2>3, <3>1 DEF InState, Open, Waiting
    <3>3. QuietAt(t)'
      BY <2>1, <3>2 DEF QuietAt
    <3> QED
      BY <1>3, <2>1, <2>4, <3>3
  <2>7. CASE /\ calls' = [calls EXCEPT ![t] = [j \in 1..Len(@) |-> "todo"]]
             /\ pc' = [pc EXCEPT ![t] = "batch"]
    <3>1. Len(calls'[t]) = Len(calls[t]) /\ \A j \in 1..Len(calls[t]) : calls'[t][j] = "todo"
      BY <2>3, <2>7 DEF TypeOK
    <3>2. InState(t, {"failed"})' = {} /\ pc'[t] = "batch"
      BY <2>7, <3>1 DEF InState, TypeOK
    <3>3. QuietAt(t)'
      BY <2>1, <3>2 DEF QuietAt, StopPcs
    <3> QED
      BY <1>3, <2>1, <2>4, <3>3
  <2> QED
    BY <1>11, <2>5, <2>6, <2>7 DEF RecordToolCalls
<1>12. CASE BatchDone(t)
  <2>1. /\ UNCHANGED <<calls, cancels>> /\ cancels[t] = {}
        /\ pc' = [pc EXCEPT ![t] = "prepare"] /\ InState(t, {"done"}) = 1..Len(batch[t])
    BY <1>12 DEF BatchDone, BatchHasAllResults, turnVars
  <2>2. Len(calls[t]) <= Len(batch[t]) /\ Len(calls[t]) \in Nat /\ Len(batch[t]) \in Nat
    <3>1. batch[t] = <<>> \/ batch[t] \in Seq(Kinds)
      BY SessionAssumption DEF TypeOK
    <3>2. Len(batch[t]) \in Nat
      BY <3>1
    <3> QED
      BY <1>1, <3>2 DEF BatchInv, TypeOK
  <2>3. \A j \in 1..Len(calls[t]) : calls[t][j] = "done"
    <3>1. \A j \in 1..Len(calls[t]) : j \in InState(t, {"done"})
      BY <2>1, <2>2
    <3> QED
      BY <3>1 DEF InState
  <2>4. InState(t, Open)' = {} /\ InState(t, {"failed"})' = {}
    BY <2>1, <2>3 DEF InState, Open, Waiting
  <2>5. QuietAt(t)'
    BY <2>1, <2>4 DEF QuietAt
  <2> QED
    BY <1>3, <2>1, <2>5 DEF TypeOK
<1>13. CASE BatchFails(t)
  BY <1>1, <1>13 DEF BatchFails, QuietAt
<1>14. CASE CancelTurn(t)
  <2>1. /\ UNCHANGED cancels /\ pc' = [pc EXCEPT ![t] = "handle"] /\ pc[t] \in {"model", "batch"}
        /\ CancelCalls(t)
    BY <1>14 DEF CancelTurn
  <2>2. CASE pc[t] = "model"
    <3>1. UNCHANGED calls
      BY <2>1, <2>2 DEF CancelCalls
    <3> QED
      BY <1>4, <2>1, <2>2, <3>1 DEF StopPcs
  <2>3. CASE pc[t] = "batch"
    <3>1. calls' = [calls EXCEPT ![t] =
                      [k \in 1..Len(@) |-> IF @[k] = "done" THEN "done" ELSE "cancelled"]]
      BY <1>1, <2>1, <2>3 DEF CancelCalls, QuietAt
    <3>2. calls[t] \in Seq(CallStates) /\ Len(calls[t]) \in Nat
      BY DEF TypeOK
    <3>3. /\ Len(calls'[t]) = Len(calls[t])
          /\ \A k \in 1..Len(calls[t]) : calls'[t][k] \in {"done", "cancelled"}
      BY <3>1, <3>2 DEF TypeOK
    <3>4. InState(t, Open)' = {} /\ InState(t, {"failed"})' = {}
      BY <3>3 DEF InState, Open, Waiting
    <3>5. QuietAt(t)'
      BY <2>1, <3>4 DEF QuietAt, StopPcs, TypeOK
    <3> QED
      BY <1>3, <2>1, <3>1, <3>5 DEF TypeOK
  <2> QED
    BY <2>1, <2>2, <2>3
<1> QED
  BY <1>6, <1>7, <1>8, <1>9, <1>10, <1>11, <1>12, <1>13, <1>14

\* A request of a caller reaches a turn that is suspended, or whose task has not begun.
LEMMA RequestQuiet ==
  ASSUME TypeOK, SingleRunner, QuietInv, LoopFree, runner # NoTurn, NEW reason,
         RequestCancel(runner, reason), UNCHANGED <<pc, calls>>
  PROVE  QuietInv'
<1>1. runner \in Inputs /\ pc[runner] \in LivePcs \cup {"lost"} /\ pc[runner] \notin HoldingPcs
  BY DEF TypeOK, SingleRunner, LoopFree, Holds
<1>2. pc[runner] \in StopPcs
  BY <1>1 DEF LivePcs, StopPcs, EndedPcs
<1>3. \A u \in Inputs \ {runner} : cancels'[u] = cancels[u]
  BY DEF RequestCancel, TypeOK
<1>4. \A u \in Inputs : \A S : InState(u, S)' = InState(u, S)
  BY DEF InState
<1>5. \A u \in Inputs : QuietAt(u)'
  BY <1>2, <1>3, <1>4 DEF QuietInv, QuietAt
<1> QED
  BY <1>5 DEF QuietInv

LEMMA QuietStep ==
  ASSUME MaxFaults = 0
  PROVE  TypeOK /\ SingleRunner /\ LimitsInv /\ QuietInv /\ [Next]_vars => QuietInv'
<1> SUFFICES ASSUME TypeOK, SingleRunner, LimitsInv, QuietInv, [Next]_vars
             PROVE  QuietInv'
  OBVIOUS
<1>1. ASSUME UNCHANGED <<pc, calls, cancels>>
      PROVE  QuietInv'
  BY <1>1, QuietStays DEF QuietInv
<1>2. CASE (\E i \in Inputs : Submit(i)) \/ (\E t \in Inputs : Unwind(t))
  <2>1. UNCHANGED <<calls, cancels>>
    BY <1>2 DEF Submit, Unwind, turnVars
  <2>2. \A u \in Inputs : QueueMove(u)
    BY <1>2, QueueSteps DEF LimitsInv
  <2>3. \A u \in Inputs : QuietAt(u)'
    <3> SUFFICES ASSUME NEW u \in Inputs
                 PROVE  QuietAt(u)'
      OBVIOUS
    <3>1. QuietAt(u) /\ QueueMove(u)
      BY <2>2 DEF QuietInv
    <3>2. pc'[u] = pc[u] \/ (pc[u] # "batch" /\ (cancels[u] # {} => pc'[u] \in StopPcs))
      BY <3>1 DEF QueueMove, QuietAt, StopPcs, EndedPcs
    <3> QED
      BY <2>1, <3>1, <3>2, QuietStays
  <2> QED
    BY <2>3 DEF QuietInv
<1>3. ASSUME NEW c \in Callers, Interrupt(c)
      PROVE  QuietInv'
  <2>1. UNCHANGED <<pc, calls>> /\ LoopFree
        /\ (UNCHANGED cancels \/ (runner # NoTurn /\ RequestCancel(runner, "interrupt")))
    BY <1>3 DEF Interrupt, turnVars
  <2> QED
    BY <1>1, <2>1, RequestQuiet
<1>4. ASSUME NEW c \in Callers, Close(c)
      PROVE  QuietInv'
  <2>1. UNCHANGED <<pc, calls>> /\ LoopFree
        /\ (UNCHANGED cancels \/ (runner # NoTurn /\ RequestCancel(runner, "session_closed")))
    BY <1>4 DEF Close, turnVars
  <2> QED
    BY <1>1, <2>1, RequestQuiet
<1>5. CASE \E c \in Callers : InterruptEnds(c) \/ CloseEnds(c)
  BY <1>1, <1>5 DEF InterruptEnds, CloseEnds, turnVars
<1>6. ASSUME NEW t \in Inputs, RunTurn(t) \/ Environment(t), ~Unwind(t)
      PROVE  QuietInv'
  BY <1>6, CallQuiet, TurnQuiet DEF RunTurn, Environment
<1>7. ASSUME NEW t \in Inputs, TurnDeadline(t)
      PROVE  QuietInv'
  <2>1. /\ UNCHANGED <<pc, calls>> /\ pc[t] \in StopPcs
        /\ cancels' = [cancels EXCEPT ![t] = @ \cup {"turn_timeout"}]
    BY <1>7 DEF TurnDeadline, Suspended, StopPcs, turnVars
  <2>2. \A u \in Inputs : \A S : InState(u, S)' = InState(u, S)
    BY <2>1 DEF InState
  <2>3. \A u \in Inputs : QuietAt(u)'
    BY <2>1, <2>2 DEF QuietInv, QuietAt, TypeOK
  <2> QED
    BY <2>3 DEF QuietInv
<1>8. CASE UNCHANGED vars
  BY <1>1, <1>8 DEF vars
<1> QED
  BY <1>2, <1>3, <1>4, <1>5, <1>6, <1>7, <1>8 DEF Next, Client

LEMMA QuietAlways ==
  ASSUME MaxFaults = 0
  PROVE  Spec => [](TypeOK /\ SingleRunner /\ LimitsInv /\ QuietInv)
<1>1. Init => QuietInv
  <2> SUFFICES ASSUME Init
               PROVE  QuietInv
    OBVIOUS
  <2>1. \A t \in Inputs : Len(calls[t]) = 0 /\ cancels[t] = {}
    BY DEF Init
  <2>2. \A t \in Inputs : \A S : InState(t, S) = {}
    BY <2>1 DEF InState
  <2> QED
    BY <2>1, <2>2 DEF QuietInv, QuietAt
<1>2. TypeOK /\ SingleRunner /\ LimitsInv /\ QuietInv /\ [Next]_vars => QuietInv'
  BY QuietStep
<1> QED
  BY <1>1, <1>2, TypeCorrect, OneRunner, LimitsAlways, PTL DEF Spec

\* As long as the storage takes every event, no call of a turn waits for a reviewer, a tool or
\* a permit once the session no longer owns the turn: the cancellation of gather's children
\* and of the serial loop (Turn._run_tool_batch) leaves nothing behind.
THEOREM NothingLeftRunning ==
  ASSUME MaxFaults = 0
  PROVE  Spec => []QuietWhenReleased
<1>1. TypeOK /\ SingleRunner /\ LimitsInv /\ QuietInv => QuietWhenReleased
  <2> SUFFICES ASSUME SingleRunner, QuietInv, NEW t \in Inputs, InState(t, {"todo"} \cup Waiting) # {}
               PROVE  runner = t
    BY DEF QuietWhenReleased
  <2>1. pc[t] = "batch"
    BY DEF QuietInv, QuietAt, InState, Open
  <2> QED
    BY <2>1 DEF SingleRunner, LivePcs
<1> QED
  BY <1>1, QuietAlways, PTL

\* A step that writes for turn t while a request is pending on it writes its turn_aborted.
LEMMA StoppedStep ==
  ASSUME MaxFaults = 0, TypeOK, QuietInv, [Next]_vars, NEW t \in Inputs, cancels[t] # {},
         NEW type \in EventTypes \ {"turn_aborted"}
  PROVE  ~Appends(t, type)
<1>1. log \in Seq(Events) /\ Len(log) \in Nat
  BY DEF TypeOK
<1>2. ASSUME UNCHANGED log
      PROVE  ~Appends(t, type)
  BY <1>1, <1>2 DEF Appends
<1>3. ASSUME NEW e, log' = Append(log, e), e.turn # t \/ e.type = "turn_aborted"
      PROVE  ~Appends(t, type)
  BY <1>1, <1>3 DEF Appends
<1>4. ASSUME NEW u \in Inputs, u # t, NEW any, NEW n, NEW reason,
             log' = Append(log, Event(any, u, n, reason))
      PROVE  ~Appends(t, type)
  <2>1. Event(any, u, n, reason).turn = u
    BY DEF Event
  <2> QED
    BY <1>3, <1>4, <2>1
<1>5. pc[t] \in StopPcs
  BY DEF QuietInv, QuietAt
<1>6. CASE Client
  BY <1>1, <1>2, <1>3, <1>6, SessionAssumption
     DEF Client, Submit, Interrupt, Close, EmitClosed, Event
<1>7. CASE \E c \in Callers : InterruptEnds(c) \/ CloseEnds(c)
  BY <1>1, <1>2, <1>3, <1>7, SessionAssumption DEF InterruptEnds, CloseEnds, EmitClosed, Event
<1>8. ASSUME NEW u \in Inputs, NEW k \in CallIndices,
             \/ StartCall(u, k) \/ CallRefused(u, k) \/ CallTimesOut(u, k)
             \/ Approve(u, k) \/ CallReturns(u, k) \/ CallDeadline(u, k)
      PROVE  ~Appends(t, type)
  <2>1. cancels[u] = {} /\ (log' = log \/ \E n, any : log' = Append(log, Event(any, u, n, "none")))
    BY <1>8, CallQuiet
  <2> QED
    BY <1>2, <1>4, <2>1
<1>9. ASSUME NEW u \in Inputs, u # t,
             \/ FirstStep(u) \/ EmitUserMessage(u) \/ PrepareModelMessages(u)
             \/ FlushStreamedMessage(u) \/ RecordToolCalls(u) \/ EmitAnswer(u) \/ Finish(u)
             \/ Abort(u) \/ AbortFromException(u) \/ HandlerAbort(u)
             \/ ModelMessageCompleted(u) \/ ModelError(u)
      PROVE  ~Appends(t, type)
  <2>1. log' = log \/ \E any, n, reason : log' = Append(log, Event(any, u, n, reason))
    BY <1>9 DEF FirstStep, EmitUserMessage, PrepareModelMessages, FlushStreamedMessage,
       RecordToolCalls, EmitAnswer, Finish, Abort, AbortFromException, HandlerAbort,
       ModelMessageCompleted, ModelError, Emit
  <2> QED
    BY <1>2, <1>4, <1>9, <2>1
<1>10. CASE \/ FirstStep(t) \/ EmitUserMessage(t) \/ PrepareModelMessages(t)
            \/ FlushStreamedMessage(t) \/ RecordToolCalls(t) \/ EmitAnswer(t) \/ Finish(t)
            \/ Abort(t) \/ AbortFromException(t)
            \/ ModelMessageCompleted(t) \/ ModelError(t)
  BY <1>5, <1>10 DEF FirstStep, EmitUserMessage, PrepareModelMessages, FlushStreamedMessage,
     RecordToolCalls, EmitAnswer, Finish, Abort, AbortFromException,
     ModelMessageCompleted, ModelError, Streaming, StopPcs, EndedPcs
<1>11. CASE HandlerAbort(t)
  <2>1. log' = log \/ log' = Append(log, Event("turn_aborted", t, 0, why[t]))
    BY <1>11 DEF HandlerAbort, Emit
  <2>2. Event("turn_aborted", t, 0, why[t]).type = "turn_aborted"
    BY DEF Event
  <2> QED
    BY <1>2, <1>3, <2>1, <2>2
<1>12. ASSUME NEW u \in Inputs,
             \/ LoseTask(u) \/ BatchDone(u) \/ BatchFails(u) \/ CancelTurn(u) \/ Unwind(u)
             \/ ModelAnswer(u) \/ ModelRaises(u) \/ (\E b \in Batches : ModelToolCalls(u, b))
             \/ TurnDeadline(u)
      PROVE  ~Appends(t, type)
  BY <1>2, <1>12 DEF LoseTask, BatchDone, BatchFails, CancelTurn, Unwind, ModelAnswer,
     ModelRaises, ModelToolCalls, TurnDeadline
<1>13. ASSUME NEW u \in Inputs, RunTurn(u) \/ Environment(u) \/ TurnDeadline(u)
       PROVE  ~Appends(t, type)
  BY <1>8, <1>9, <1>10, <1>11, <1>12, <1>13 DEF RunTurn, Environment
<1>14. CASE UNCHANGED vars
  BY <1>2, <1>14 DEF vars
<1> QED
  BY <1>6, <1>7, <1>13, <1>14 DEF Next

\* As long as the storage takes every event, a turn that is being cancelled, by a caller or by
\* its own deadline, writes nothing any more but its turn_aborted.
THEOREM CancelledStops ==
  ASSUME MaxFaults = 0
  PROVE  Spec => CancelledTurnStops
<1>1. TypeOK /\ QuietInv /\ [Next]_vars
        => [\A t \in Inputs : cancels[t] # {} =>
              \A type \in EventTypes \ {"turn_aborted"} : ~Appends(t, type)]_vars
  BY StoppedStep
<1> QED
  BY <1>1, QuietAlways, PTL DEF Spec, CancelledTurnStops

-----------------------------------------------------------------------------
(* What an event adds *)

\* The numbers of the calls with an event of this type.
CallsIn(type, t) == {log[i].call : i \in Places(type, t)}

\* An append adds one event.
LEMMA LogAppend ==
  ASSUME TypeOK, NEW e \in Events, log' = Append(log, e)
  PROVE  /\ \A type, t : Logged(type, t)' <=> Logged(type, t) \/ (e.type = type /\ e.turn = t)
         /\ \A type, t : CallsIn(type, t)' =
              CallsIn(type, t) \cup IF e.type = type /\ e.turn = t THEN {e.call} ELSE {}
<1>1. log \in Seq(Events) /\ Len(log) \in Nat
  BY DEF TypeOK
<1>2. /\ Len(log') = Len(log) + 1 /\ log'[Len(log) + 1] = e
      /\ \A i \in 1..Len(log) : log'[i] = log[i]
  BY <1>1
<1>3. \A i \in 1..Len(log') : i \in 1..Len(log) \/ i = Len(log) + 1
  BY <1>1, <1>2
<1>4. \A i \in 1..Len(log) : i \in 1..Len(log')
  BY <1>1, <1>2
<1>5. Len(log) + 1 \in 1..Len(log')
  BY <1>1, <1>2
<1>6. \A type, t : Logged(type, t)' <=> Logged(type, t) \/ (e.type = type /\ e.turn = t)
  BY <1>2, <1>3, <1>4, <1>5 DEF Logged
<1>7. ASSUME NEW type, NEW t
      PROVE  CallsIn(type, t)' =
               CallsIn(type, t) \cup IF e.type = type /\ e.turn = t THEN {e.call} ELSE {}
  <2>1. \A i \in 1..Len(log) : i \in Places(type, t)' <=> i \in Places(type, t)
    BY <1>2, <1>4 DEF Places
  <2>2. Len(log) + 1 \in Places(type, t)' <=> e.type = type /\ e.turn = t
    BY <1>2, <1>5 DEF Places
  <2>3. Places(type, t) \subseteq 1..Len(log) /\ Places(type, t)' \subseteq 1..Len(log')
    BY DEF Places
  <2>4. CASE e.type = type /\ e.turn = t
    <3>1. Places(type, t)' = Places(type, t) \cup {Len(log) + 1}
      BY <1>3, <2>1, <2>2, <2>3, <2>4
    <3> QED
      BY <1>2, <2>3, <2>4, <3>1 DEF CallsIn
  <2>5. CASE ~(e.type = type /\ e.turn = t)
    <3>1. Places(type, t)' = Places(type, t)
      BY <1>3, <2>1, <2>2, <2>3, <2>5
    <3> QED
      BY <1>2, <2>3, <2>5, <3>1 DEF CallsIn
  <2> QED
    BY <2>4, <2>5
<1> QED
  BY <1>6, <1>7

\* An append is a write of the abstract log.
LEMMA AppendWrites ==
  ASSUME TypeOK, NEW e \in Events, log' = Append(log, e)
  PROVE  Log!Write(e.type, e.turn, e.call) /\ log'[Len(log')].call = e.call
<1>1. log \in Seq(Events) /\ Len(log) \in Nat
  BY DEF TypeOK
<1>2. /\ Len(log') = Len(log) + 1 /\ log'[Len(log')] = e
  BY <1>1
<1>3. SubSeq(log', 1, Len(log)) = log
  BY <1>1
<1> QED
  BY <1>2, <1>3 DEF Log!Write

-----------------------------------------------------------------------------
(* The log and the state of the turns: the invariant *)

\* A turn that has not taken its first step, or never will; one that is over.
Before == {"absent", "queued", "created", "lost"}
After  == {"unwind", "done"}

Frames == {"turn_started", "turn_finished", "turn_aborted"}
Steps  == {"model_tool_call", "tool_call_started", "tool_call_finished"}

\* The log frames a turn as far as the turn has got, and no task has crashed.
Framed(t) ==
  /\ Logged("turn_started", t) <=> pc[t] \notin Before
  /\ Terminal(t) <=> pc[t] \in After
  /\ pc[t] \notin {"crash", "failed"}

\* The calls of the present batch come after those of the earlier ones, which all have results.
Between == {"echo", "prepare", "model", "flush", "answer", "finish"}
Earlier(t) == toolCallCount[t] - Len(batch[t])
Calls(t, S) ==
  {n \in 1..toolCallCount[t] : n <= Earlier(t) \/ calls[t][n - Earlier(t)] \in S}

Ledger(t) ==
  /\ pc[t] \in Before =>
       toolCallCount[t] = 0 /\ \A type \in Steps : CallsIn(type, t) = {}
  /\ pc[t] \in Between => \A type \in Steps : CallsIn(type, t) = 1..toolCallCount[t]
  /\ pc[t] = "record" =>
       /\ CallsIn("model_tool_call", t) = 1..(toolCallCount[t] + Len(calls[t]))
       /\ CallsIn("tool_call_started", t) = 1..toolCallCount[t]
       /\ CallsIn("tool_call_finished", t) = 1..toolCallCount[t]
  /\ pc[t] = "batch" =>
       /\ Len(calls[t]) = Len(batch[t]) /\ Len(batch[t]) <= toolCallCount[t]
       /\ CallsIn("model_tool_call", t) = 1..toolCallCount[t]
       /\ CallsIn("tool_call_started", t) = Calls(t, CallStates \ {"todo"})
       /\ CallsIn("tool_call_finished", t) = Calls(t, {"done"})

\* One close() at a time waits for the turn it met; its event comes once, and when no turn runs.
Closing(c) == caller[c].op = "close" /\ caller[c].st = "waiting"
CloseInv ==
  /\ \A c \in Callers : Closing(c) =>
       /\ caller[c].turn \in Inputs /\ runner \in {caller[c].turn, NoTurn}
       /\ status = "closed" /\ ~closedEventEmitted
  /\ \A c, d \in Callers : Closing(c) /\ Closing(d) => c = d
  /\ Logged("session_closed", NoTurn) <=> closedEventEmitted
  /\ closedEventEmitted => status = "closed" /\ runner = NoTurn

LogBookInv == CloseInv /\ \A t \in Inputs : Framed(t) /\ Ledger(t)

-----------------------------------------------------------------------------
(* What a write does to the invariant *)

\* The log got one more event, and it is a write of the abstract log.
Added(type, t, n) ==
  /\ \A ty, u : Logged(ty, u)' <=> Logged(ty, u) \/ (ty = type /\ u = t)
  /\ \A ty, u : CallsIn(ty, u)' = CallsIn(ty, u) \cup IF ty = type /\ u = t THEN {n} ELSE {}
  /\ Log!Write(type, t, n) /\ log'[Len(log')].call = n

LEMMA Writing ==
  ASSUME TypeOK, NEW type \in EventTypes, NEW t \in Inputs \cup {NoTurn}, NEW n \in Int,
         NEW reason \in Reasons, log' = Append(log, Event(type, t, n, reason))
  PROVE  Added(type, t, n)
<1>1. PICK e \in Events : e = Event(type, t, n, reason)
  BY DEF Event, Events
<1>2. e.type = type /\ e.turn = t /\ e.call = n /\ log' = Append(log, e)
  BY <1>1 DEF Event
<1>3. /\ \A ty, u : Logged(ty, u)' <=> Logged(ty, u) \/ (type = ty /\ t = u)
      /\ \A ty, u : CallsIn(ty, u)' =
           CallsIn(ty, u) \cup IF type = ty /\ t = u THEN {n} ELSE {}
  BY <1>2, LogAppend
<1>4. Log!Write(type, t, n) /\ log'[Len(log')].call = n
  BY <1>2, AppendWrites
<1> QED
  BY <1>3, <1>4 DEF Added

\* While no append fails, an event of a turn's own code is written and the turn goes on.
LEMMA EmitAdds ==
  ASSUME TypeOK, MaxFaults = 0, NEW t \in Inputs, NEW type \in EventTypes, NEW n \in Int,
         NEW reason \in Reasons, NEW ok, NEW ko, Emit(t, Event(type, t, n, reason), ok, ko)
  PROVE  /\ Added(type, t, n)
         /\ pc'[t] = ok /\ \A u \in Inputs \ {t} : pc'[u] = pc[u]
<1>1. ~(faults < MaxFaults)
  BY NoFault
<1>2. log' = Append(log, Event(type, t, n, reason)) /\ pc' = [pc EXCEPT ![t] = ok]
  BY <1>1 DEF Emit
<1>3. Added(type, t, n)
  BY <1>2, Writing
<1> QED
  BY <1>2, <1>3 DEF TypeOK

\* Where a turn is between its first step and its terminal event, and where it is once it has
\* given up its batch.
Running == {"echo", "prepare", "model", "flush", "record", "batch", "answer", "finish",
            "abort", "raise", "handle"}
Leaving == {"abort", "raise", "handle"}

LEMMA Where ==
  ASSUME TypeOK, NEW t \in Inputs, Framed(t)
  PROVE  /\ pc[t] \in Before \cup Running \cup After
         /\ Logged("turn_started", t) /\ ~Terminal(t) <=> pc[t] \in Running
  BY DEF Framed, TypeOK, Pcs, LivePcs, EndedPcs, HoldingPcs, Before, Running, After

\* The frame and the calls of turn u are logged as before.
SameLog(u) ==
  /\ \A type \in Frames : Logged(type, u)' <=> Logged(type, u)
  /\ \A type \in Steps : CallsIn(type, u)' = CallsIn(type, u)

\* A move that needs no other event.
Moves(u) ==
  \/ pc'[u] = pc[u]
  \/ pc[u] \in Before /\ pc'[u] \in Before
  \/ pc[u] \in Between /\ pc'[u] \in Between
  \/ pc[u] \in After /\ pc'[u] \in After
  \/ pc[u] \in Running /\ pc'[u] \in Leaving

LEMMA FrameKept ==
  ASSUME NEW u \in Inputs, Framed(u), SameLog(u), Moves(u)
  PROVE  Framed(u)'
<1>1. /\ pc'[u] \in Before <=> pc[u] \in Before
      /\ pc'[u] \in After <=> pc[u] \in After
      /\ pc'[u] \notin {"crash", "failed"}
  BY DEF Framed, Moves, Before, Between, After, Running, Leaving
<1> QED
  BY <1>1 DEF Framed, SameLog, Terminal, Frames

LEMMA LedgerKept ==
  ASSUME NEW u \in Inputs, Ledger(u), SameLog(u), Moves(u),
         pc'[u] \in Leaving \/ (/\ calls'[u] = calls[u] /\ batch'[u] = batch[u]
                                /\ toolCallCount'[u] = toolCallCount[u])
  PROVE  Ledger(u)'
<1>1. CASE pc'[u] \in Leaving
  BY <1>1 DEF Ledger, Leaving, Before, Between
<1>2. CASE calls'[u] = calls[u] /\ batch'[u] = batch[u] /\ toolCallCount'[u] = toolCallCount[u]
  <2>1. \A S : Calls(u, S)' = Calls(u, S)
    BY <1>2 DEF Calls, Earlier
  <2>2. CASE pc'[u] = pc[u]
    BY <1>2, <2>1, <2>2 DEF Ledger, SameLog, Steps
  <2>3. CASE pc[u] \in Before /\ pc'[u] \in Before
    BY <1>2, <2>3 DEF Ledger, SameLog, Steps, Before, Between
  <2>4. CASE pc[u] \in Between /\ pc'[u] \in Between
    BY <1>2, <2>4 DEF Ledger, SameLog, Steps, Before, Between
  <2>5. CASE pc[u] \in After /\ pc'[u] \in After
    BY <2>5 DEF Ledger, After, Before, Between
  <2> QED
    BY <1>1, <2>2, <2>3, <2>4, <2>5 DEF Moves
<1> QED
  BY <1>1, <1>2

\* A step of turn t, and its one event, leave the other turns and close() as they were.
TurnStep(t) ==
  /\ UNCHANGED sessionVars
  /\ \A u \in Inputs \ {t} : /\ pc'[u] = pc[u] /\ calls'[u] = calls[u] /\ batch'[u] = batch[u]
                            /\ toolCallCount'[u] = toolCallCount[u]

Writes(t) == UNCHANGED log \/ \E type \in EventTypes \ {"session_closed"} : \E n : Added(type, t, n)

LEMMA SameUnwritten == ASSUME NEW u, UNCHANGED log PROVE SameLog(u)
  BY DEF SameLog, Logged, CallsIn, Places

LEMMA TurnKept ==
  ASSUME TypeOK, LogBookInv, NEW t \in Inputs, TurnStep(t), Writes(t), Framed(t)', Ledger(t)'
  PROVE  LogBookInv'
<1>1. ASSUME NEW u \in Inputs \ {t}
      PROVE  SameLog(u)
  <2>1. ASSUME NEW type, NEW n, Added(type, t, n)
        PROVE  SameLog(u)
    BY <2>1 DEF Added, SameLog
  <2> QED
    BY <2>1, SameUnwritten DEF Writes
<1>2. ASSUME NEW u \in Inputs \ {t}
      PROVE  Framed(u)' /\ Ledger(u)'
  <2>1. Framed(u) /\ Ledger(u) /\ Moves(u)
    BY DEF LogBookInv, TurnStep, Moves
  <2> QED
    BY <1>1, <2>1, FrameKept, LedgerKept DEF TurnStep
<1>3. Logged("session_closed", NoTurn)' <=> Logged("session_closed", NoTurn)
  BY SessionAssumption DEF Writes, Added, Logged
<1>4. CloseInv'
  BY <1>3 DEF LogBookInv, CloseInv, Closing, TurnStep, sessionVars
<1> QED
  BY <1>2, <1>4 DEF LogBookInv

\* A turn that runs is open in the abstract log.
LEMMA OpenLog ==
  ASSUME TypeOK, LogBookInv, NEW t \in Inputs
  PROVE  /\ Log!Open(t) <=> pc[t] \in Running
         /\ Log!Closed <=> closedEventEmitted
         /\ Log!Recorded(t) = CallsIn("model_tool_call", t)
         /\ Log!Started(t) = CallsIn("tool_call_started", t)
         /\ Log!Finished(t) = CallsIn("tool_call_finished", t)
<1>1. Framed(t) /\ CloseInv
  BY DEF LogBookInv
<1>2. \A type, u : Log!Logged(type, u) <=> Logged(type, u)
  BY DEF Log!Logged, Logged
<1>3. \A type, u : Log!CallsIn(type, u) = CallsIn(type, u)
  BY DEF Log!CallsIn, CallsIn, Places
<1>4. Log!Open(t) <=> pc[t] \in Running
  BY <1>1, <1>2, Where DEF Log!Open, Log!Ended, Terminal
<1>5. Log!Closed <=> closedEventEmitted
  BY <1>1, <1>2 DEF Log!Closed, CloseInv
<1> QED
  BY <1>3, <1>4, <1>5 DEF Log!Recorded, Log!Started, Log!Finished

\* The log is written only as the abstract log allows, and the invariant is kept.
Allowed == LogBookInv' /\ (Log!Next \/ UNCHANGED log)

Activity == {"user_message", "context_compacted", "assistant_message", "error"}

\* The steps inside a turn that write nothing, or an event with no promise of its own.
LEMMA WorkAllowed ==
  ASSUME TypeOK, LogBookInv, NEW t \in Inputs, TurnStep(t), Moves(t),
         \/ pc'[t] \in Leaving
         \/ calls'[t] = calls[t] /\ batch'[t] = batch[t] /\ toolCallCount'[t] = toolCallCount[t],
         UNCHANGED log \/ (pc[t] \in Running /\ \E type \in Activity : Added(type, t, 0))
  PROVE  Allowed
<1>1. SameLog(t)
  <2>1. CASE UNCHANGED log
    BY <2>1, SameUnwritten
  <2>2. ASSUME NEW type \in Activity, Added(type, t, 0)
        PROVE  SameLog(t)
    BY <2>2 DEF Added, SameLog, Activity, Frames, Steps
  <2> QED
    BY <2>1, <2>2
<1>2. Framed(t) /\ Ledger(t)
  BY DEF LogBookInv
<1>3. Framed(t)' /\ Ledger(t)'
  BY <1>1, <1>2, FrameKept, LedgerKept
<1>4. Writes(t)
  BY DEF Writes, Activity, EventTypes
<1>5. LogBookInv'
  BY <1>3, <1>4, TurnKept
<1>6. Log!Next \/ UNCHANGED log
  <2>1. ASSUME NEW type \in Activity, Added(type, t, 0), pc[t] \in Running
        PROVE  Log!Next
    <3>1. Log!Open(t) /\ Log!Write(type, t, 0)
      BY <2>1, OpenLog DEF Added
    <3>2. Log!Work(t)
      BY <3>1 DEF Log!Work, Activity
    <3> QED
      BY <3>2 DEF Log!Next
  <2> QED
    BY <2>1
<1> QED
  BY <1>5, <1>6 DEF Allowed

\* All steps of a turn's own code but those on the calls of its batch, its first, its last two
\* and its finally block.
LEMMA PlainAllowed ==
  ASSUME TypeOK, LogBookInv, QuietInv, MaxFaults = 0, NEW t \in Inputs,
         \/ LoseTask(t) \/ EmitUserMessage(t) \/ PrepareModelMessages(t) \/ EmitAnswer(t)
         \/ BatchFails(t) \/ CancelTurn(t) \/ AbortFromException(t) \/ TurnDeadline(t)
         \/ ModelMessageCompleted(t) \/ ModelAnswer(t) \/ ModelError(t) \/ ModelRaises(t)
  PROVE  Allowed
<1>1. "none" \in Reasons /\ Activity \subseteq EventTypes
  BY DEF Reasons, Activity, EventTypes
<1>2. ASSUME NEW type \in Activity, NEW ok, NEW ko,
             UNCHANGED <<sessionVars, batch, calls, toolCallCount>>,
             Emit(t, Event(type, t, 0, "none"), ok, ko), pc[t] \in Running,
             ok = pc[t] \/ (pc[t] \in Between /\ ok \in Between) \/ ok \in Leaving
      PROVE  Allowed
  <2>1. Added(type, t, 0) /\ pc'[t] = ok /\ \A u \in Inputs \ {t} : pc'[u] = pc[u]
    BY <1>1, <1>2, EmitAdds
  <2>2. TurnStep(t) /\ Moves(t)
    BY <1>2, <2>1 DEF TurnStep, Moves
  <2> QED
    BY <1>2, <2>1, <2>2, WorkAllowed
<1>3. ASSUME NEW x, UNCHANGED <<sessionVars, batch, toolCallCount, log>>,
             pc' = pc \/ pc' = [pc EXCEPT ![t] = x],
             calls' = calls \/ \E c : calls' = [calls EXCEPT ![t] = c] /\ x \in Leaving /\ pc' # pc,
             \/ x = pc[t] \/ (pc[t] \in Before /\ x \in Before)
             \/ (pc[t] \in Between /\ x \in Between) \/ (pc[t] \in Running /\ x \in Leaving)
      PROVE  Allowed
  <2>1. TurnStep(t) /\ Moves(t)
    BY <1>3 DEF TurnStep, Moves, TypeOK
  <2>2. pc'[t] \in Leaving \/ calls'[t] = calls[t]
    BY <1>3 DEF TypeOK
  <2> QED
    BY <1>3, <2>1, <2>2, WorkAllowed
<1>4. CASE EmitUserMessage(t)
  BY <1>2, <1>4 DEF EmitUserMessage, turnVars, Activity, Running, Between
<1>5. CASE PrepareModelMessages(t)
  <2>1. CASE Emit(t, Event("context_compacted", t, 0, "none"), "model", "raise")
    BY <1>2, <1>5, <2>1 DEF PrepareModelMessages, Activity, Running, Between
  <2>2. CASE UNCHANGED log /\ pc' = [pc EXCEPT ![t] = "model"]
    BY <1>3, <1>5, <2>2 DEF PrepareModelMessages, Between
  <2>3. CASE UNCHANGED log /\ pc' = [pc EXCEPT ![t] = "abort"]
    BY <1>3, <1>5, <2>3 DEF PrepareModelMessages, Running, Leaving
  <2> QED
    BY <1>5, <2>1, <2>2, <2>3 DEF PrepareModelMessages
<1>6. CASE EmitAnswer(t)
  BY <1>2, <1>6 DEF EmitAnswer, turnVars, Activity, Running, Between
<1>7. CASE AbortFromException(t)
  BY <1>2, <1>7 DEF AbortFromException, Activity, Running, Leaving
<1>8. CASE ModelMessageCompleted(t)
  BY <1>2, <1>8 DEF ModelMessageCompleted, Streaming, Activity, Running
<1>9. CASE ModelError(t)
  BY <1>2, <1>9 DEF ModelError, Streaming, Activity, Running, Leaving
<1>10. CASE LoseTask(t)
  BY <1>3, <1>10 DEF LoseTask, turnVars, Before
<1>11. CASE BatchFails(t)
  BY <1>11 DEF BatchFails, QuietInv, QuietAt
<1>12. CASE CancelTurn(t)
  <2>1. /\ pc' = [pc EXCEPT ![t] = "handle"] /\ pc[t] \in Running /\ "handle" \in Leaving
        /\ UNCHANGED <<sessionVars, batch, toolCallCount, log>>
    BY <1>12 DEF CancelTurn, Running, Leaving
  <2>2. pc' # pc
    BY <1>12, <2>1 DEF CancelTurn, TypeOK
  <2>3. calls' = calls \/ \E c : calls' = [calls EXCEPT ![t] = c]
    BY <1>12 DEF CancelTurn, CancelCalls
  <2> QED
    BY <1>3, <2>1, <2>2, <2>3
<1>13. CASE TurnDeadline(t)
  BY <1>3, <1>13 DEF TurnDeadline, turnVars
<1>14. CASE ModelAnswer(t)
  <2>1. CASE pc' = [pc EXCEPT ![t] = "finish"]
    BY <1>3, <1>14, <2>1 DEF ModelAnswer, Streaming, turnVars, Between
  <2>2. CASE pc' = [pc EXCEPT ![t] = "answer"]
    BY <1>3, <1>14, <2>2 DEF ModelAnswer, Streaming, turnVars, Between
  <2> QED
    BY <1>14, <2>1, <2>2 DEF ModelAnswer
<1>15. CASE ModelRaises(t)
  BY <1>3, <1>15 DEF ModelRaises, Streaming, turnVars, Running, Leaving
<1> QED
  BY <1>4, <1>5, <1>6, <1>7, <1>8, <1>9, <1>10, <1>11, <1>12, <1>13, <1>14, <1>15

\* The first step of a turn: no other turn is open, and the session has not been closed.
LEMMA FirstAllowed ==
  ASSUME TypeOK, SingleRunner, LogBookInv, MaxFaults = 0, NEW t \in Inputs, FirstStep(t)
  PROVE  Allowed
<1>1. pc[t] = "created" /\ UNCHANGED <<sessionVars, batch, calls, toolCallCount>>
      /\ Emit(t, Event("turn_started", t, 0, "none"), "echo", "raise")
  BY DEF FirstStep, turnVars
<1>2. /\ Added("turn_started", t, 0) /\ pc'[t] = "echo"
      /\ \A u \in Inputs \ {t} : pc'[u] = pc[u]
  BY <1>1, EmitAdds DEF EventTypes, Reasons
<1>3. TurnStep(t) /\ Writes(t)
  BY <1>1, <1>2 DEF TurnStep, Writes, EventTypes
<1>4. Framed(t) /\ Ledger(t)
  BY DEF LogBookInv
<1>5. Framed(t)'
  BY <1>1, <1>2, <1>4 DEF Framed, Added, Terminal, Before, After
<1>6. Ledger(t)'
  <2>1. \A type \in Steps : CallsIn(type, t)' = {} /\ toolCallCount'[t] = 0
    BY <1>1, <1>2, <1>4 DEF Ledger, Added, Steps, Before
  <2> QED
    BY <1>2, <2>1 DEF Ledger, Before, Between
<1>7. LogBookInv'
  BY <1>3, <1>5, <1>6, TurnKept
<1>8. runner = t
  BY <1>1 DEF SingleRunner, LivePcs
<1>9. ~Log!Closed
  BY <1>8, OpenLog, SessionAssumption DEF LogBookInv, CloseInv
<1>10. \A u \in Inputs : ~Log!Open(u)
  BY <1>1, <1>8, OpenLog DEF SingleRunner, Running, LivePcs, HoldingPcs
<1>11. ~Log!Logged("turn_started", t)
  BY <1>1, <1>4 DEF Framed, Before, Log!Logged, Logged
<1>12. Log!StartTurn(t)
  BY <1>2, <1>9, <1>10, <1>11 DEF Log!StartTurn, Added
<1> QED
  BY <1>7, <1>12 DEF Allowed, Log!Next

\* The last event of a turn: one that finished has a result for every call it recorded.
LEMMA LastAllowed ==
  ASSUME TypeOK, LogBookInv, MaxFaults = 0, NEW t \in Inputs,
         Finish(t) \/ Abort(t) \/ HandlerAbort(t)
  PROVE  Allowed
<1>1. /\ UNCHANGED <<sessionVars, batch, calls, toolCallCount>> /\ why[t] \in Reasons
      /\ pc[t] \in Running /\ (Finish(t) => pc[t] \in Between)
  BY DEF Finish, Abort, HandlerAbort, turnVars, TypeOK, Running, Between
<1>2. PICK type \in {"turn_finished", "turn_aborted"} :
        /\ Added(type, t, 0) /\ pc'[t] = "unwind"
        /\ \A u \in Inputs \ {t} : pc'[u] = pc[u]
        /\ type = "turn_finished" => Finish(t)
  <2>1. CASE Finish(t)
    BY <2>1, EmitAdds DEF Finish, EventTypes, Reasons
  <2>2. CASE Abort(t) \/ HandlerAbort(t)
    BY <1>1, <2>2, EmitAdds DEF Abort, HandlerAbort, EventTypes
  <2> QED
    BY <2>1, <2>2
<1>3. TurnStep(t) /\ Writes(t)
  BY <1>1, <1>2 DEF TurnStep, Writes, EventTypes
<1>4. Framed(t) /\ Ledger(t)
  BY DEF LogBookInv
<1>5. Framed(t)'
  BY <1>1, <1>2, <1>4 DEF Framed, Added, Terminal, Before, After, Running
<1>6. Ledger(t)'
  BY <1>2 DEF Ledger, Before, Between
<1>7. LogBookInv'
  BY <1>3, <1>5, <1>6, TurnKept
<1>8. Log!Open(t) /\ Log!Write(type, t, 0)
  BY <1>1, <1>2, OpenLog DEF Added
<1>9. Finish(t) => Log!Finished(t) = Log!Recorded(t)
  BY <1>1, <1>4, OpenLog DEF Ledger, Steps
<1>10. Log!FinishTurn(t) \/ Log!AbortTurn(t)
  BY <1>2, <1>8, <1>9 DEF Log!FinishTurn, Log!AbortTurn
<1> QED
  BY <1>7, <1>10 DEF Allowed, Log!Next

\* A new batch: streamed text is flushed first.
LEMMA NewBatchAllowed ==
  ASSUME TypeOK, LogBookInv, LimitsInv, MaxFaults = 0, NEW t \in Inputs,
         FlushStreamedMessage(t) \/ \E b \in Batches : ModelToolCalls(t, b)
  PROVE  Allowed
<1>1. Framed(t) /\ Ledger(t) /\ BatchInv(t) /\ toolCallCount[t] \in Nat
  BY SessionAssumption DEF LogBookInv, LimitsInv, TypeOK
<1>2. pc[t] \in Between /\ UNCHANGED <<sessionVars, toolCallCount>>
  BY DEF FlushStreamedMessage, ModelToolCalls, Streaming, Between, turnVars
<1>3. /\ UNCHANGED log \/ Added("assistant_message", t, 0)
      /\ (pc'[t] = "record" /\ calls'[t] = <<>>) \/ pc'[t] \in Between
      /\ \A u \in Inputs \ {t} : /\ pc'[u] = pc[u] /\ calls'[u] = calls[u]
                                /\ batch'[u] = batch[u]
  <2>1. CASE FlushStreamedMessage(t)
    BY <1>1, <2>1, EmitAdds DEF FlushStreamedMessage, BatchInv, turnVars, EventTypes, Reasons
  <2>2. ASSUME NEW b \in Batches, ModelToolCalls(t, b)
        PROVE  <1>3!1 /\ <1>3!2 /\ <1>3!3
    BY <2>2 DEF ModelToolCalls, TypeOK, Between
  <2> QED
    BY <2>1, <2>2
<1>4. SameLog(t) /\ Writes(t)
  <2>1. CASE UNCHANGED log
    BY <2>1, SameUnwritten DEF Writes
  <2>2. CASE Added("assistant_message", t, 0)
    BY <2>2 DEF Added, SameLog, Frames, Steps, Writes, EventTypes
  <2> QED
    BY <1>3, <2>1, <2>2
<1>5. TurnStep(t)
  BY <1>2, <1>3 DEF TurnStep
<1>6. Framed(t)'
  BY <1>1, <1>2, <1>3, <1>4 DEF Framed, SameLog, Frames, Terminal, Before, Between, After
<1>7. Ledger(t)'
  <2>1. \A type \in Steps : CallsIn(type, t)' = 1..toolCallCount'[t]
    BY <1>1, <1>2, <1>4 DEF Ledger, SameLog
  <2>2. CASE pc'[t] \in Between
    BY <2>1, <2>2 DEF Ledger, Before, Between
  <2>3. CASE pc'[t] = "record" /\ calls'[t] = <<>>
    <3>1. toolCallCount'[t] + Len(calls'[t]) = toolCallCount'[t]
      BY <1>1, <1>2, <2>3
    <3> QED
      BY <2>1, <2>3, <3>1 DEF Ledger, Before, Between, Steps
  <2> QED
    BY <1>3, <2>2, <2>3
<1>8. LogBookInv'
  BY <1>4, <1>5, <1>6, <1>7, TurnKept
<1>9. Log!Next \/ UNCHANGED log
  <2>1. CASE Added("assistant_message", t, 0)
    <3>1. pc[t] \in Running
      BY <1>2 DEF Between, Running
    <3>2. Log!Work(t)
      BY <2>1, <3>1, OpenLog DEF Added, Log!Work
    <3> QED
      BY <3>2 DEF Log!Next
  <2> QED
    BY <1>3, <2>1
<1> QED
  BY <1>8, <1>9 DEF Allowed

-----------------------------------------------------------------------------
(* The log and the calls of a batch *)

\* The batch is recorded call by call, and then it starts.
LEMMA RecordAllowed ==
  ASSUME TypeOK, LogBookInv, LimitsInv, MaxFaults = 0, NEW t \in Inputs, RecordToolCalls(t)
  PROVE  Allowed
<1>1. Framed(t) /\ Ledger(t) /\ BatchInv(t)
  BY DEF LogBookInv, LimitsInv
<1>2. pc[t] = "record" /\ UNCHANGED <<sessionVars, batch>> /\ pc[t] \in Running
  BY DEF RecordToolCalls, Running
<1>3. /\ toolCallCount[t] \in Nat /\ calls[t] \in Seq(CallStates) /\ Len(calls[t]) \in Nat
      /\ Len(batch[t]) \in Nat /\ Len(calls[t]) <= Len(batch[t])
  BY <1>1, SessionAssumption DEF TypeOK, BatchInv
<1>4. ASSUME Framed(t)', Ledger(t)', TurnStep(t), Writes(t), UNCHANGED log \/ Log!Next
      PROVE  Allowed
  BY <1>4, TurnKept DEF Allowed
<1>5. CASE BudgetExceeded(t)
  <2>1. UNCHANGED <<calls, toolCallCount, log>> /\ pc' = [pc EXCEPT ![t] = "abort"]
    BY <1>5 DEF RecordToolCalls
  <2>2. TurnStep(t) /\ Moves(t)
    BY <1>2, <2>1 DEF TurnStep, Moves, TypeOK, Leaving
  <2> QED
    BY <1>2, <2>1, <2>2, WorkAllowed
<1>6. CASE ~BudgetExceeded(t) /\ Len(calls[t]) + 1 <= Len(batch[t])
  <2> DEFINE n == toolCallCount[t] + (Len(calls[t]) + 1)
  <2>1. /\ Emit(t, Event("model_tool_call", t, n, "none"), "record", "raise")
        /\ calls' = [calls EXCEPT ![t] = Append(@, "recorded")] /\ UNCHANGED toolCallCount
    BY <1>6 DEF RecordToolCalls
  <2>2. n \in Int
    BY <1>3
  <2>3. /\ Added("model_tool_call", t, n) /\ pc'[t] = "record"
        /\ \A u \in Inputs \ {t} : pc'[u] = pc[u]
    BY <2>1, <2>2, EmitAdds DEF EventTypes, Reasons
  <2>4. calls'[t] = Append(calls[t], "recorded") /\ \A u \in Inputs \ {t} : calls'[u] = calls[u]
    BY <2>1 DEF TypeOK
  <2>5. Len(calls'[t]) = Len(calls[t]) + 1
    BY <1>3, <2>4
  <2>6. TurnStep(t) /\ Writes(t)
    BY <1>2, <2>1, <2>3, <2>4 DEF TurnStep, Writes, EventTypes
  <2>7. Framed(t)'
    BY <1>1, <1>2, <2>3 DEF Framed, Added, Terminal
  <2>8. Ledger(t)'
    <3>1. CallsIn("model_tool_call", t)' = 1..(toolCallCount[t] + Len(calls[t])) \cup {n}
      BY <1>1, <1>2, <2>3 DEF Ledger, Added
    <3>2. 1..(toolCallCount[t] + Len(calls[t])) \cup {n} = 1..n
      BY <1>3
    <3>3. n = toolCallCount'[t] + Len(calls'[t])
      BY <2>1, <2>5
    <3>4. \A type \in {"tool_call_started", "tool_call_finished"} :
            CallsIn(type, t)' = 1..toolCallCount'[t]
      BY <1>1, <1>2, <2>1, <2>3 DEF Ledger, Added
    <3> QED
      BY <2>3, <3>1, <3>2, <3>3, <3>4 DEF Ledger, Before, Between
  <2>9. Log!RecordCall(t, n)
    <3>1. n \notin CallsIn("model_tool_call", t)
      BY <1>1, <1>2, <1>3 DEF Ledger
    <3> QED
      BY <1>2, <2>3, <3>1, OpenLog DEF Log!RecordCall, Added
  <2>10. Log!Next
    BY <2>3, <2>9 DEF Log!Next, Added
  <2> QED
    BY <1>4, <2>6, <2>7, <2>8, <2>10
<1>7. CASE ~BudgetExceeded(t) /\ ~(Len(calls[t]) + 1 <= Len(batch[t]))
  <2>1. /\ pc' = [pc EXCEPT ![t] = "batch"] /\ UNCHANGED log
        /\ toolCallCount' = [toolCallCount EXCEPT ![t] = @ + Len(batch[t])]
        /\ calls' = [calls EXCEPT ![t] = [j \in 1..Len(@) |-> "todo"]]
    BY <1>7 DEF RecordToolCalls
  <2>2. TurnStep(t) /\ Writes(t)
    BY <1>2, <2>1 DEF TurnStep, Writes, TypeOK
  <2>3. /\ pc'[t] = "batch" /\ toolCallCount'[t] = toolCallCount[t] + Len(batch[t])
        /\ calls'[t] = [j \in 1..Len(calls[t]) |-> "todo"] /\ batch'[t] = batch[t]
    BY <1>2, <2>1 DEF TypeOK
  <2>4. Len(calls[t]) = Len(batch[t])
    BY <1>3, <1>7
  <2>5. SameLog(t)
    BY <2>1, SameUnwritten
  <2>6. Framed(t)'
    BY <1>1, <1>2, <2>3, <2>5 DEF Framed, SameLog, Frames, Terminal, Before, After
  <2>7. Earlier(t)' = toolCallCount[t]
    BY <1>3, <2>3 DEF Earlier
  <2>8. ASSUME NEW S, "todo" \notin S
        PROVE  Calls(t, S)' = 1..toolCallCount[t]
    <3>1. \A j \in 1..Len(batch[t]) : calls'[t][j] \notin S
      BY <2>3, <2>4, <2>8
    <3>2. \A n \in 1..toolCallCount'[t] :
            n <= toolCallCount[t] \/ n - toolCallCount[t] \in 1..Len(batch[t])
      BY <1>3, <2>3
    <3>3. Calls(t, S)' =
            {n \in 1..toolCallCount'[t] :
               n <= toolCallCount[t] \/ calls'[t][n - toolCallCount[t]] \in S}
      BY <2>7 DEF Calls
    <3>4. Calls(t, S)' = {n \in 1..toolCallCount'[t] : n <= toolCallCount[t]}
      BY <3>1, <3>2, <3>3
    <3> QED
      BY <1>3, <2>3, <3>4
  <2>9. Len(calls'[t]) = Len(batch'[t]) /\ Len(batch'[t]) <= toolCallCount'[t]
    BY <1>3, <2>3, <2>4
  <2>10. Ledger(t)'
    <3>1. /\ CallsIn("model_tool_call", t)' = 1..toolCallCount'[t]
          /\ CallsIn("tool_call_started", t)' = 1..toolCallCount[t]
          /\ CallsIn("tool_call_finished", t)' = 1..toolCallCount[t]
      BY <1>1, <1>2, <2>3, <2>4, <2>5 DEF Ledger, SameLog, Steps
    <3>2. /\ Calls(t, CallStates \ {"todo"})' = 1..toolCallCount[t]
          /\ Calls(t, {"done"})' = 1..toolCallCount[t]
      BY <2>8
    <3> QED
      BY <2>3, <2>9, <3>1, <3>2 DEF Ledger, Before, Between
  <2> QED
    BY <1>4, <2>1, <2>2, <2>6, <2>10
<1> QED
  BY <1>5, <1>6, <1>7

\* All calls have results.
LEMMA BatchDoneAllowed ==
  ASSUME TypeOK, LogBookInv, NEW t \in Inputs, BatchDone(t)
  PROVE  Allowed
<1>1. Framed(t) /\ Ledger(t)
  BY DEF LogBookInv
<1>2. /\ pc[t] = "batch" /\ pc' = [pc EXCEPT ![t] = "prepare"]
      /\ InState(t, {"done"}) = 1..Len(batch[t])
      /\ UNCHANGED <<sessionVars, batch, calls, toolCallCount, log>>
  BY DEF BatchDone, BatchHasAllResults, turnVars
<1>3. pc'[t] = "prepare" /\ TurnStep(t) /\ Writes(t)
  BY <1>2 DEF TurnStep, Writes, TypeOK
<1>4. toolCallCount[t] \in Nat /\ Len(batch[t]) \in Nat /\ Len(calls[t]) = Len(batch[t])
  BY <1>1, <1>2, SessionAssumption DEF TypeOK, Ledger
<1>5. \A j \in 1..Len(batch[t]) : calls[t][j] = "done"
  BY <1>2 DEF InState
<1>6. ASSUME NEW S, "done" \in S
      PROVE  Calls(t, S) = 1..toolCallCount[t]
  <2>1. \A n \in 1..toolCallCount[t] : n <= Earlier(t) \/ n - Earlier(t) \in 1..Len(batch[t])
    BY <1>4 DEF Earlier
  <2> QED
    BY <1>5, <1>6, <2>1 DEF Calls
<1>7. SameLog(t)
  BY <1>2, SameUnwritten
<1>8. Framed(t)'
  BY <1>1, <1>2, <1>3, <1>7 DEF Framed, SameLog, Frames, Terminal, Before, After
<1>9. Ledger(t)'
  <2>1. \A type \in Steps : CallsIn(type, t) = 1..toolCallCount[t]
    BY <1>1, <1>2, <1>6 DEF Ledger, Steps, CallStates
  <2>2. \A type \in Steps : CallsIn(type, t)' = 1..toolCallCount'[t]
    BY <1>2, <1>7, <2>1 DEF SameLog
  <2> QED
    BY <1>3, <2>2 DEF Ledger, Before, Between
<1> QED
  BY <1>2, <1>3, <1>8, <1>9, TurnKept DEF Allowed

\* Call k of the batch has moved to state s.
LEMMA CallMoves ==
  ASSUME TypeOK, NEW t \in Inputs, NEW k \in 1..Len(calls[t]), NEW s,
         calls' = [calls EXCEPT ![t][k] = s], UNCHANGED <<batch, toolCallCount>>,
         Len(calls[t]) = Len(batch[t]), Len(batch[t]) <= toolCallCount[t]
  PROVE  /\ CallNo(t, k) \in 1..toolCallCount[t] /\ CallNo(t, k) \in Int
         /\ \A S : CallNo(t, k) \in Calls(t, S) <=> calls[t][k] \in S
         /\ \A S : Calls(t, S)' = IF s \in S THEN Calls(t, S) \cup {CallNo(t, k)}
                                             ELSE Calls(t, S) \ {CallNo(t, k)}
<1>1. /\ toolCallCount[t] \in Nat /\ calls[t] \in Seq(CallStates) /\ Len(calls[t]) \in Nat
      /\ Len(batch[t]) \in Nat
  BY SessionAssumption DEF TypeOK
<1>2. /\ CallNo(t, k) = Earlier(t) + k /\ Earlier(t) \in Nat
      /\ CallNo(t, k) \in 1..toolCallCount[t]
  BY <1>1 DEF CallNo, Earlier
<1>3. calls'[t][k] = s /\ \A j \in 1..Len(calls[t]) \ {k} : calls'[t][j] = calls[t][j]
  BY <1>1 DEF TypeOK
<1>4. Earlier(t)' = Earlier(t)
  BY DEF Earlier
<1>5. \A n \in 1..toolCallCount[t] : n <= Earlier(t) \/ n - Earlier(t) \in 1..Len(calls[t])
  BY <1>1 DEF Earlier
<1>6. \A S : CallNo(t, k) \in Calls(t, S) <=> calls[t][k] \in S
  BY <1>1, <1>2 DEF Calls
<1>7. ASSUME NEW S
      PROVE  Calls(t, S)' = IF s \in S THEN Calls(t, S) \cup {CallNo(t, k)}
                                       ELSE Calls(t, S) \ {CallNo(t, k)}
  <2>1. Calls(t, S)' =
          {n \in 1..toolCallCount[t] : n <= Earlier(t) \/ calls'[t][n - Earlier(t)] \in S}
    BY <1>4 DEF Calls
  <2>2. ASSUME NEW n \in 1..toolCallCount[t], n # CallNo(t, k)
        PROVE  n \in Calls(t, S)' <=> n \in Calls(t, S)
    <3>1. n - Earlier(t) # k
      BY <1>2, <2>2
    <3>2. n <= Earlier(t) \/ calls'[t][n - Earlier(t)] = calls[t][n - Earlier(t)]
      BY <1>3, <1>5, <3>1
    <3> QED
      BY <2>1, <3>2 DEF Calls
  <2>3. CallNo(t, k) \in Calls(t, S)' <=> s \in S
    BY <1>1, <1>2, <1>3, <2>1
  <2>4. Calls(t, S) \subseteq 1..toolCallCount[t] /\ Calls(t, S)' \subseteq 1..toolCallCount[t]
    BY <2>1 DEF Calls
  <2> QED
    BY <1>2, <2>2, <2>3, <2>4
<1> QED
  BY <1>2, <1>6, <1>7

\* A call starts after it was recorded and finishes after it started, each once.
LEMMA CallAllowed ==
  ASSUME TypeOK, LogBookInv, QuietInv, MaxFaults = 0, NEW t \in Inputs, NEW k,
         StartCall(t, k) \/ Approve(t, k) \/ CallReturns(t, k) \/ CallRefused(t, k)
           \/ CallDeadline(t, k) \/ CallTimesOut(t, k)
  PROVE  Allowed
<1>1. /\ k \in 1..Len(calls[t]) /\ calls[t][k] \in Open /\ Runs(t, k)
      /\ UNCHANGED <<sessionVars, batch, toolCallCount>>
  BY DEF StartCall, Approve, CallReturns, CallRefused, CallDeadline, CallTimesOut, Runs, Open,
         Waiting
<1>2. pc[t] = "batch" /\ Framed(t) /\ Ledger(t)
  BY <1>1 DEF QuietInv, QuietAt, InState, LogBookInv
<1>3. ~(faults < MaxFaults)
  BY NoFault
<1>4. Len(calls[t]) = Len(batch[t]) /\ Len(batch[t]) <= toolCallCount[t]
  BY <1>2 DEF Ledger
<1>5. calls[t] \in Seq(CallStates) /\ calls \in [Inputs -> Seq(CallStates)]
  BY DEF TypeOK
<1>6. ASSUME NEW s, calls' = [calls EXCEPT ![t][k] = s] \/ calls' = calls, pc' = pc
      PROVE  TurnStep(t) /\ Len(calls'[t]) = Len(calls[t])
  BY <1>1, <1>5, <1>6 DEF TurnStep
<1>7. ASSUME Framed(t)', Ledger(t)', TurnStep(t), Writes(t), UNCHANGED log \/ Log!Next
      PROVE  Allowed
  BY <1>7, TurnKept DEF Allowed
<1>8. ASSUME NEW s \in {"approval", "exec", "denied", "done"},
             NEW type \in Steps \ {"model_tool_call"},
             EmitFromCall(t, k, type, s),
             IF type = "tool_call_started" THEN calls[t][k] = "todo" /\ s # "done"
                                           ELSE calls[t][k] # "todo" /\ s = "done"
      PROVE  Allowed
  <2>1. /\ log' = Append(log, Event(type, t, CallNo(t, k), "none"))
        /\ calls' = [calls EXCEPT ![t][k] = s] /\ pc' = pc
    BY <1>3, <1>8 DEF EmitFromCall
  <2>2. /\ CallNo(t, k) \in 1..toolCallCount[t] /\ CallNo(t, k) \in Int
        /\ \A S : CallNo(t, k) \in Calls(t, S) <=> calls[t][k] \in S
        /\ \A S : Calls(t, S)' = IF s \in S THEN Calls(t, S) \cup {CallNo(t, k)}
                                            ELSE Calls(t, S) \ {CallNo(t, k)}
    BY <1>1, <1>4, <2>1, CallMoves
  <2>3. PICK n \in 1..toolCallCount[t] : n = CallNo(t, k)
    BY <2>2
  <2>4. Added(type, t, n)
    BY <2>1, <2>2, <2>3, Writing DEF Steps, EventTypes, Reasons
  <2>5. TurnStep(t) /\ Writes(t) /\ Len(calls'[t]) = Len(calls[t])
    BY <1>6, <2>1, <2>4 DEF Writes, Steps, EventTypes
  <2>6. Framed(t)'
    BY <1>2, <2>1, <2>4 DEF Framed, Added, Terminal, Steps
  <2>7. /\ CallsIn("model_tool_call", t) = 1..toolCallCount[t]
        /\ CallsIn("tool_call_started", t) = Calls(t, CallStates \ {"todo"})
        /\ CallsIn("tool_call_finished", t) = Calls(t, {"done"})
    BY <1>2 DEF Ledger
  <2>8. s \in CallStates \ {"todo"} /\ calls[t][k] \in CallStates \ {"done"}
    BY <1>1 DEF CallStates, Open, Waiting
  <2>9. /\ CallsIn("model_tool_call", t)' = 1..toolCallCount[t]
        /\ CallsIn("tool_call_started", t)' = Calls(t, CallStates \ {"todo"})'
        /\ CallsIn("tool_call_finished", t)' = Calls(t, {"done"})'
    <3>1. n \in Calls(t, CallStates \ {"todo"}) <=> calls[t][k] # "todo"
      BY <2>2, <2>3, <2>8
    <3>2. n \notin Calls(t, {"done"})
      BY <2>2, <2>3, <2>8
    <3>3. Calls(t, CallStates \ {"todo"})' = Calls(t, CallStates \ {"todo"}) \cup {n}
      BY <2>2, <2>3, <2>8
    <3>4. Calls(t, {"done"})' =
            IF s = "done" THEN Calls(t, {"done"}) \cup {n} ELSE Calls(t, {"done"})
      BY <2>2, <2>3, <3>2
    <3>5. \A ty \in Steps : CallsIn(ty, t)' = CallsIn(ty, t) \cup IF ty = type THEN {n} ELSE {}
      BY <2>4 DEF Added
    <3>6. CASE type = "tool_call_started"
      BY <1>8, <2>7, <3>3, <3>4, <3>5, <3>6 DEF Steps
    <3>7. CASE type = "tool_call_finished"
      BY <1>8, <2>7, <3>1, <3>3, <3>4, <3>5, <3>7 DEF Steps
    <3> QED
      BY <3>6, <3>7 DEF Steps
  <2>10. Ledger(t)'
    <3>1. /\ pc'[t] = "batch" /\ toolCallCount'[t] = toolCallCount[t] /\ batch'[t] = batch[t]
      BY <1>1, <1>2, <2>1
    <3> QED
      BY <1>4, <2>5, <2>9, <3>1 DEF Ledger, Before, Between
  <2>11. Log!StartCall(t, n) \/ Log!FinishCall(t, n)
    <3>1. Log!Open(t) /\ Log!Write(type, t, n)
      BY <1>2, <2>4, OpenLog DEF Running, Added
    <3>2. CASE type = "tool_call_started"
      <4>1. n \in CallsIn("model_tool_call", t) \ CallsIn("tool_call_started", t)
        <5>1. calls[t][k] \notin CallStates \ {"todo"}
          BY <1>8, <3>2
        <5>2. n \notin Calls(t, CallStates \ {"todo"})
          BY <2>2, <2>3, <5>1
        <5> QED
          BY <2>7, <5>2
      <4> QED
        BY <3>1, <3>2, <4>1, OpenLog DEF Log!StartCall
    <3>3. CASE type = "tool_call_finished"
      <4>1. n \in CallsIn("tool_call_started", t) \ CallsIn("tool_call_finished", t)
        BY <1>8, <2>2, <2>3, <2>7, <2>8, <3>3
      <4> QED
        BY <3>1, <3>3, <4>1, OpenLog DEF Log!FinishCall
    <3> QED
      BY <3>2, <3>3 DEF Steps
  <2>12. Log!Next
    BY <2>4, <2>11 DEF Log!Next, Added
  <2> QED
    BY <1>7, <2>5, <2>6, <2>10, <2>12
<1>9. CASE StartCall(t, k)
  <2>1. PICK s \in {"approval", "exec", "denied"} : EmitFromCall(t, k, "tool_call_started", s)
    BY <1>9 DEF StartCall
  <2>2. calls[t][k] = "todo"
    BY <1>9 DEF StartCall
  <2> QED
    BY <1>8, <2>1, <2>2 DEF Steps
<1>10. CASE CallReturns(t, k) \/ CallRefused(t, k) \/ CallTimesOut(t, k)
  <2>1. EmitFromCall(t, k, "tool_call_finished", "done") /\ calls[t][k] # "todo"
    BY <1>10 DEF CallReturns, CallRefused, CallTimesOut, Waiting
  <2> QED
    BY <1>8, <2>1 DEF Steps
<1>11. CASE Approve(t, k) \/ CallDeadline(t, k)
  <2>1. UNCHANGED <<log, pc>>
        /\ \/ calls' = calls
           \/ calls' = [calls EXCEPT ![t][k] = "exec"] /\ calls[t][k] = "approval"
    BY <1>11 DEF Approve, CallDeadline
  <2>2. TurnStep(t) /\ Len(calls'[t]) = Len(calls[t]) /\ Writes(t) /\ Moves(t) /\ SameLog(t)
    BY <1>6, <2>1, SameUnwritten DEF Writes, Moves
  <2>3. Framed(t)'
    BY <1>2, <2>2, FrameKept
  <2>4. \A S \in {CallStates \ {"todo"}, {"done"}} : Calls(t, S)' = Calls(t, S)
    <3>1. CASE calls' = calls
      BY <1>1, <3>1 DEF Calls, Earlier
    <3>2. CASE calls' = [calls EXCEPT ![t][k] = "exec"] /\ calls[t][k] = "approval"
      <4>1. /\ \A S : CallNo(t, k) \in Calls(t, S) <=> calls[t][k] \in S
            /\ \A S : Calls(t, S)' = IF "exec" \in S THEN Calls(t, S) \cup {CallNo(t, k)}
                                                     ELSE Calls(t, S) \ {CallNo(t, k)}
        BY <1>1, <1>4, <3>2, CallMoves
      <4> QED
        BY <3>2, <4>1 DEF CallStates
    <3> QED
      BY <2>1, <3>1, <3>2
  <2>5. Ledger(t)'
    <3>1. pc'[t] = "batch" /\ toolCallCount'[t] = toolCallCount[t] /\ batch'[t] = batch[t]
      BY <1>1, <1>2, <2>1
    <3>2. \A type \in Steps : CallsIn(type, t)' = CallsIn(type, t)
      BY <2>2 DEF SameLog
    <3> QED
      BY <1>2, <2>2, <2>4, <3>1, <3>2 DEF Ledger, Before, Between, Steps
  <2> QED
    BY <1>7, <2>1, <2>2, <2>3, <2>5
<1> QED
  BY <1>9, <1>10, <1>11

-----------------------------------------------------------------------------
(* The queue and the callers *)

\* A message enters the queue or leaves it, and a turn ends: nothing is written.
LEMMA QueueAllowed ==
  ASSUME TypeOK, SingleRunner, LimitsInv, LogBookInv,
         \/ \E i \in Inputs : Submit(i)
         \/ \E t \in Inputs : Unwind(t)
  PROVE  Allowed
<1>1. UNCHANGED <<calls, batch, toolCallCount, log, caller, closedEventEmitted>>
  BY DEF Submit, Unwind, turnVars
<1>2. ASSUME NEW u \in Inputs
      PROVE  Framed(u)' /\ Ledger(u)'
  <2>1. Framed(u) /\ Ledger(u)
    BY DEF LogBookInv
  <2>2. QueueMove(u)
    BY QueueSteps DEF LimitsInv
  <2>3. Moves(u) /\ SameLog(u)
    <3>1. CASE \E t \in Inputs : Unwind(t)
      <4>1. PICK t \in Inputs : Unwind(t)
        BY <3>1
      <4>2. pc[t] = "unwind"
        BY <4>1 DEF Unwind, LogBookInv, Framed
      <4>3. pc[u] = "unwind" /\ u # t => FALSE
        BY <4>2 DEF SingleRunner, LivePcs, HoldingPcs
      <4>4. pc[u] = "unwind" => pc'[u] \in {"unwind", "done"}
        <5> SUFFICES ASSUME pc[u] = "unwind"
                     PROVE  pc'[u] \in {"unwind", "done"}
          OBVIOUS
        <5>1. u = t /\ pc[t] # "queued"
          BY <4>2, <4>3
        <5>2. PICK p : p = [pc EXCEPT ![t] = IF pc[t] = "unwind" THEN "done" ELSE "failed"]
          OBVIOUS
        <5>3. p[t] = "done"
          BY <4>2, <5>2 DEF TypeOK
        <5>4. queue # <<>> => pc[Head(queue)] = "queued"
          <6>1. queue # <<>> => 1 \in 1..Len(queue) /\ Head(queue) = queue[1]
            BY DEF TypeOK
          <6> QED
            BY <6>1 DEF LimitsInv, QueueInv
        <5>5. pc' = p \/ (queue # <<>> /\ pc' = [p EXCEPT ![Head(queue)] = "created"])
          BY <4>1, <5>2 DEF Unwind, StartTurnIfIdle
        <5> QED
          BY <5>1, <5>2, <5>3, <5>4, <5>5 DEF TypeOK
      <4> QED
        BY <1>1, <2>1, <2>2, <4>4, SameUnwritten
           DEF QueueMove, Moves, Before, After, Framed
    <3>2. CASE \E i \in Inputs : Submit(i)
      <4>1. pc[u] \in {"unwind", "crash"} => pc'[u] = pc[u]
        <5>1. PICK i \in Inputs : Submit(i)
          BY <3>2
        <5> SUFFICES ASSUME pc[u] \in {"unwind", "crash"}
                     PROVE  pc'[u] = pc[u]
          OBVIOUS
        <5> QED
          BY <5>1 DEF Submit, LoopFree, Holds, HoldingPcs
      <4> QED
        BY <1>1, <2>2, <4>1, SameUnwritten DEF QueueMove, Moves, Before
    <3> QED
      BY <3>1, <3>2
  <2> QED
    BY <1>1, <2>1, <2>3, FrameKept, LedgerKept
<1>3. CloseInv'
  <2>1. CloseInv
    BY DEF LogBookInv
  <2>2. Logged("session_closed", NoTurn)' <=> Logged("session_closed", NoTurn)
    BY <1>1 DEF Logged
  <2>3. CASE status # "closed"
    <3>1. ~closedEventEmitted /\ \A c \in Callers : ~Closing(c)
      BY <2>1, <2>3 DEF CloseInv
    <3> QED
      BY <1>1, <2>1, <2>2, <3>1 DEF CloseInv, Closing
  <2>4. CASE status = "closed"
    <3>1. PICK t \in Inputs : Unwind(t)
      BY <2>4 DEF Submit
    <3>2. runner = t /\ runner' = NoTurn /\ status' = status
      BY <2>4, <3>1 DEF Unwind, ShouldContinue, ReleasedBy, SingleRunner, LivePcs, HoldingPcs
    <3> QED
      BY <1>1, <2>1, <2>2, <3>2 DEF CloseInv, Closing
  <2> QED
    BY <2>3, <2>4
<1> QED
  BY <1>1, <1>2, <1>3 DEF Allowed, LogBookInv

\* session_closed is written once, when no turn is open.
LEMMA ClosingAllowed ==
  ASSUME TypeOK, SingleRunner, LogBookInv, MaxFaults = 0, NEW c \in Callers,
         EmitClosed(c), runner = NoTurn, ~closedEventEmitted, status' = "closed",
         UNCHANGED <<runner, pc, calls, batch, toolCallCount>>,
         \A d \in Callers \ {c} : ~Closing(d)
  PROVE  Allowed
<1>1. ~(faults < MaxFaults)
  BY NoFault
<1>2. /\ log' = Append(log, Event("session_closed", NoTurn, 0, "none"))
      /\ closedEventEmitted' = TRUE
      /\ caller' = [caller EXCEPT ![c].op = "close", ![c].st = "returned"]
  BY <1>1 DEF EmitClosed
<1>3. Added("session_closed", NoTurn, 0)
  <2>1. "session_closed" \in EventTypes /\ "none" \in Reasons /\ 0 \in Int
    BY DEF EventTypes, Reasons
  <2> QED
    BY <1>2, <2>1, Writing
<1>4. ASSUME NEW u \in Inputs
      PROVE  Framed(u)' /\ Ledger(u)'
  <2>1. SameLog(u) /\ Moves(u) /\ Framed(u) /\ Ledger(u)
    BY <1>3 DEF Added, SameLog, Frames, Steps, Moves, LogBookInv
  <2> QED
    BY <2>1, FrameKept, LedgerKept
<1>5. CloseInv'
  <2>1. caller \in [Callers -> CallerStates]
    BY DEF TypeOK
  <2>2. \A d \in Callers : ~Closing(d)'
    BY <1>2, <2>1 DEF Closing, CallerStates
  <2>3. Logged("session_closed", NoTurn)'
    BY <1>3 DEF Added
  <2> QED
    BY <1>2, <2>2, <2>3 DEF CloseInv
<1>6. Log!CloseSession
  <2>1. ~Log!Closed
    BY DEF LogBookInv, CloseInv, Log!Closed, Log!Logged, Logged
  <2>2. \A u \in Inputs : ~Log!Open(u)
    BY OpenLog, SessionAssumption DEF SingleRunner, Running, LivePcs, HoldingPcs
  <2> QED
    BY <1>3, <2>1, <2>2 DEF Added, Log!CloseSession
<1> QED
  BY <1>4, <1>5, <1>6 DEF Allowed, LogBookInv, Log!Next

LEMMA CallersAllowed ==
  ASSUME TypeOK, SingleRunner, LogBookInv, MaxFaults = 0, NEW c \in Callers,
         Interrupt(c) \/ InterruptEnds(c) \/ Close(c) \/ CloseEnds(c)
  PROVE  Allowed
<1>1. UNCHANGED <<queue, runner, pc, calls, batch, toolCallCount>>
  BY DEF Interrupt, InterruptEnds, Close, CloseEnds, turnVars
<1>2. caller \in [Callers -> CallerStates] /\ CloseInv
  BY DEF TypeOK, LogBookInv
<1>3. ASSUME UNCHANGED log, CloseInv'
      PROVE  Allowed
  <2>1. ASSUME NEW u \in Inputs
        PROVE  Framed(u)' /\ Ledger(u)'
    <3>1. SameLog(u) /\ Moves(u) /\ Framed(u) /\ Ledger(u)
      BY <1>1, <1>3, SameUnwritten DEF Moves, LogBookInv
    <3> QED
      BY <1>1, <3>1, FrameKept, LedgerKept
  <2> QED
    BY <1>3, <2>1 DEF Allowed, LogBookInv
<1>4. ASSUME UNCHANGED <<log, closedEventEmitted>>,
             status' = status \/ (status # "closed" /\ ~closedEventEmitted),
             \A d \in Callers : Closing(d)' => Closing(d) /\ caller'[d].turn = caller[d].turn
      PROVE  Allowed
  <2>1. Logged("session_closed", NoTurn)' <=> Logged("session_closed", NoTurn)
    BY <1>4 DEF Logged
  <2>2. CASE status' = status
    BY <1>1, <1>2, <1>3, <1>4, <2>1, <2>2 DEF CloseInv
  <2>3. CASE status # "closed" /\ ~closedEventEmitted
    <3>1. \A d \in Callers : ~Closing(d)
      BY <1>2, <2>3 DEF CloseInv
    <3>2. \A d \in Callers : ~Closing(d)'
      BY <1>4, <3>1
    <3> QED
      BY <1>1, <1>2, <1>3, <1>4, <2>1, <2>3, <3>2 DEF CloseInv
  <2> QED
    BY <1>4, <2>2, <2>3
<1>5. CASE Interrupt(c)
  <2>1. status' = status \/ (status # "closed" /\ ~closedEventEmitted)
    BY <1>2, <1>5 DEF Interrupt, CloseInv
  <2>2. \A d \in Callers : Closing(d)' => Closing(d) /\ caller'[d].turn = caller[d].turn
    BY <1>2, <1>5 DEF Interrupt, Closing
  <2>3. UNCHANGED <<log, closedEventEmitted>>
    BY <1>5 DEF Interrupt
  <2> QED
    BY <1>4, <2>1, <2>2, <2>3
<1>6. CASE InterruptEnds(c)
  <2>1. \A d \in Callers : Closing(d)' => Closing(d) /\ caller'[d].turn = caller[d].turn
    BY <1>2, <1>6 DEF InterruptEnds, Closing, CallerStates
  <2> QED
    BY <1>4, <1>6, <2>1 DEF InterruptEnds
<1>7. CASE Close(c)
  <2>1. \A d \in Callers : ~Closing(d)
    BY <1>7 DEF Close, CloseLockFree, Closing
  <2>2. CASE closedEventEmitted
    <3>1. \A d \in Callers : Closing(d)' => Closing(d) /\ caller'[d].turn = caller[d].turn
      BY <1>2, <1>7, <2>2 DEF Close, Closing, CallerStates
    <3> QED
      BY <1>4, <1>7, <2>2, <3>1 DEF Close
  <2>3. CASE ~closedEventEmitted /\ runner = NoTurn
    <3>1. EmitClosed(c) /\ status' = "closed"
      BY <1>7, <2>3 DEF Close
    <3> QED
      BY <1>1, <2>1, <2>3, <3>1, ClosingAllowed
  <2>4. CASE ~closedEventEmitted /\ runner # NoTurn
    <3>1. /\ status' = "closed" /\ UNCHANGED <<log, closedEventEmitted>>
          /\ caller' = [caller EXCEPT ![c] = [op |-> "close", st |-> "waiting", turn |-> runner]]
      BY <1>7, <2>4 DEF Close
    <3>2. \A d \in Callers : Closing(d)' => d = c /\ caller'[d].turn = runner
      BY <1>2, <2>1, <3>1 DEF Closing
    <3>3. Logged("session_closed", NoTurn)' <=> Logged("session_closed", NoTurn)
      BY <3>1 DEF Logged
    <3>4. runner \in Inputs
      BY <2>4 DEF TypeOK
    <3>5. CloseInv'
      BY <1>1, <1>2, <2>4, <3>1, <3>2, <3>3, <3>4 DEF CloseInv
    <3> QED
      BY <1>3, <3>1, <3>5
  <2> QED
    BY <2>2, <2>3, <2>4
<1>8. CASE CloseEnds(c)
  <2>1. Closing(c) /\ status' = status
    BY <1>8 DEF CloseEnds, Closing
  <2>2. CASE pc[caller[c].turn] = "done" /\ EmitClosed(c)
    <3>1. /\ caller[c].turn \in Inputs /\ runner \in {caller[c].turn, NoTurn}
          /\ status = "closed" /\ ~closedEventEmitted
      BY <1>2, <2>1 DEF CloseInv
    <3>2. runner = NoTurn
      BY <2>2, <3>1 DEF SingleRunner, LivePcs, HoldingPcs
    <3>3. \A d \in Callers \ {c} : ~Closing(d)
      BY <1>2, <2>1 DEF CloseInv
    <3> QED
      BY <1>1, <2>1, <2>2, <3>1, <3>2, <3>3, ClosingAllowed
  <2>3. CASE caller' = [caller EXCEPT ![c].st = "raised"] /\ UNCHANGED <<log, closedEventEmitted>>
    <3>1. \A d \in Callers : Closing(d)' => Closing(d) /\ caller'[d].turn = caller[d].turn
      BY <1>2, <2>3 DEF Closing, CallerStates
    <3> QED
      BY <1>4, <2>1, <2>3, <3>1
  <2> QED
    BY <1>8, <2>2, <2>3 DEF CloseEnds
<1> QED
  BY <1>5, <1>6, <1>7, <1>8

-----------------------------------------------------------------------------
(* The refinement *)

LEMMA LogBookStep ==
  ASSUME MaxFaults = 0
  PROVE  TypeOK /\ SingleRunner /\ LimitsInv /\ QuietInv /\ LogBookInv /\ [Next]_vars => Allowed
<1> SUFFICES ASSUME TypeOK, SingleRunner, LimitsInv, QuietInv, LogBookInv, [Next]_vars
             PROVE  Allowed
  OBVIOUS
<1>1. ASSUME NEW t \in Inputs, RunTurn(t) \/ Environment(t) \/ TurnDeadline(t), ~Unwind(t)
      PROVE  Allowed
  <2>1. CASE \/ LoseTask(t) \/ EmitUserMessage(t) \/ PrepareModelMessages(t) \/ EmitAnswer(t)
             \/ BatchFails(t) \/ CancelTurn(t) \/ AbortFromException(t) \/ TurnDeadline(t)
             \/ ModelMessageCompleted(t) \/ ModelAnswer(t) \/ ModelError(t) \/ ModelRaises(t)
    BY <2>1, PlainAllowed
  <2>2. CASE FirstStep(t)
    BY <2>2, FirstAllowed
  <2>3. CASE Finish(t) \/ Abort(t) \/ HandlerAbort(t)
    BY <2>3, LastAllowed
  <2>4. CASE FlushStreamedMessage(t) \/ \E b \in Batches : ModelToolCalls(t, b)
    BY <2>4, NewBatchAllowed
  <2>5. CASE RecordToolCalls(t)
    BY <2>5, RecordAllowed
  <2>6. CASE BatchDone(t)
    BY <2>6, BatchDoneAllowed
  <2>7. ASSUME NEW k,
               StartCall(t, k) \/ Approve(t, k) \/ CallReturns(t, k) \/ CallRefused(t, k)
                 \/ CallDeadline(t, k) \/ CallTimesOut(t, k)
        PROVE  Allowed
    BY <2>7, CallAllowed
  <2> QED
    BY <1>1, <2>1, <2>2, <2>3, <2>4, <2>5, <2>6, <2>7 DEF RunTurn, Environment
<1>2. CASE \/ \E i \in Inputs : Submit(i)
           \/ \E t \in Inputs : Unwind(t)
  BY <1>2, QueueAllowed
<1>3. ASSUME NEW c \in Callers, Interrupt(c) \/ InterruptEnds(c) \/ Close(c) \/ CloseEnds(c)
      PROVE  Allowed
  BY <1>3, CallersAllowed
<1>4. CASE UNCHANGED vars
  <2>1. ASSUME NEW u \in Inputs
        PROVE  Framed(u)' /\ Ledger(u)'
    <3>1. SameLog(u) /\ Moves(u) /\ Framed(u) /\ Ledger(u)
      BY <1>4, SameUnwritten DEF Moves, LogBookInv, vars
    <3> QED
      BY <1>4, <3>1, FrameKept, LedgerKept DEF vars
  <2>2. CloseInv'
    BY <1>4 DEF vars, LogBookInv, CloseInv, Closing, Logged
  <2> QED
    BY <1>4, <2>1, <2>2 DEF Allowed, LogBookInv, vars
<1> QED
  BY <1>1, <1>2, <1>3, <1>4 DEF Next, Client, RunTurn

LEMMA LogBookInit == Init => LogBookInv
<1> SUFFICES ASSUME Init
             PROVE  LogBookInv
  OBVIOUS
<1>1. Len(log) = 0
  BY DEF Init
<1>2. \A type, t : ~Logged(type, t) /\ CallsIn(type, t) = {}
  BY <1>1 DEF Logged, CallsIn, Places
<1>3. \A t \in Inputs : pc[t] = "absent" /\ toolCallCount[t] = 0
  BY DEF Init
<1>4. \A t \in Inputs : Framed(t)
  BY <1>2, <1>3 DEF Framed, Terminal, Before, After
<1>5. \A t \in Inputs : Ledger(t)
  BY <1>2, <1>3 DEF Ledger, Before, Between
<1>6. CloseInv
  BY <1>2 DEF Init, CloseInv, Closing, Idle
<1> QED
  BY <1>4, <1>5, <1>6 DEF LogBookInv

\* As long as the storage takes every event, the log of a session is one that SessionLog
\* allows: turns never overlap, each is framed by its first and its terminal event, calls are
\* recorded, started and finished once and in this order, a turn that finished owes no result,
\* and session_closed comes when no turn is open (Session._run_turn, Turn._run_tool_batch,
\* Session.close).
THEOREM LogImplements ==
  ASSUME MaxFaults = 0
  PROVE  Spec => ImplementsSessionLog
<1>1. Init => Log!Init
  BY DEF Init, Log!Init
<1>2. TypeOK /\ SingleRunner /\ LimitsInv /\ QuietInv /\ LogBookInv /\ [Next]_vars
        => LogBookInv' /\ [Log!Next]_log
  BY LogBookStep DEF Allowed
<1> QED
  BY <1>1, <1>2, LogBookInit, QuietAlways, PTL DEF Spec, ImplementsSessionLog, Log!Spec

=============================================================================
