------------------------------ MODULE Session ------------------------------
(***************************************************************************)
(* A codecraft session: the queue of user messages, the one background     *)
(* task that runs the active turn (Session._run_turn around Turn.run), the  *)
(* callers of interrupt() and close(), and the persisted event log.        *)
(*                                                                         *)
(* Everything runs on one asyncio event loop, so a coroutine runs without   *)
(* interruption from one suspension point to the next. A turn that is       *)
(* between two suspension points holds the loop (Holds below) and nothing   *)
(* else can move; each action emits at most one event, because every event  *)
(* is a storage append that may fail on its own.                            *)
(*                                                                         *)
(* Cancellation is asyncio's: cancel() only records a request; the task     *)
(* sees CancelledError at its next step. While the request is pending       *)
(* Task.cancelling() is non-zero, whoever made it: interrupt(), close(), or *)
(* one of the asyncio.timeout deadlines around the turn, an approval wait   *)
(* or a tool execution.                                                     *)
(***************************************************************************)
EXTENDS Integers, Sequences, FiniteSets

CONSTANTS
  Inputs,        \* the user messages clients may submit; a turn is named by its message
  Callers,       \* tasks that call interrupt() or close(), each at most once
  Batches,       \* the batches of tool calls a model response may request
  MaxToolCalls,  \* config.max_tool_calls
  MaxParallel,   \* config.max_parallel_read_tools
  ContextMayOverflow, \* conversations may outgrow config.max_context_chars
  MaxFaults,     \* bound: how many storage appends may fail
  NoTurn         \* None, for _runner_task

\* "read": effects within READ_ONLY and no approval; "gated": requires_approval;
\* "write": any other tool, including a name the registry does not know.
Kinds == {"read", "write", "gated"}

ASSUME SessionAssumption ==
  /\ NoTurn \notin Inputs
  /\ \A b \in Batches : b \in Seq(Kinds) /\ b # <<>>
  /\ MaxToolCalls \in Nat \ {0}
  /\ MaxParallel \in Nat \ {0}
  /\ ContextMayOverflow \in BOOLEAN
  /\ MaxFaults \in Nat

VARIABLES
  status,         \* Session.status
  queue,          \* Session.input_queue
  runner,         \* the turn whose task is Session._runner_task, or NoTurn
  pc,             \* where each turn's task is
  why,            \* the reason the turn is about to abort with
  cancels,        \* cancellation requests pending on the turn's task, call deadlines aside
  said,           \* the current response already carried a completed message
  batch,          \* the tool calls of the current response
  calls,          \* how far each call of the batch has got
  due,            \* calls whose own approval or tool deadline fired, not yet handled
  toolCallCount,  \* Turn.tool_call_count
  log,            \* the persisted event log
  caller,         \* what each caller is doing
  closedEventEmitted,  \* Session._closed_event_emitted
  faults          \* appends that failed so far

turnVars == <<why, said, batch, calls, due, toolCallCount>>
vars == <<status, queue, runner, pc, why, cancels, said, batch, calls, due,
          toolCallCount, log, caller, closedEventEmitted, faults>>

Statuses == {"idle", "running", "interrupted", "closed"}

\* A suspended task waits for the model stream ("model") or for its tool batch ("batch").
\* "lost" is a task cancelled before its first step: its coroutine body never ran.
HoldingPcs == {"echo", "prepare", "flush", "record", "answer", "finish",
               "abort", "raise", "handle", "unwind", "crash"}
EndedPcs   == {"done", "failed", "lost"}
LivePcs    == {"created", "model", "batch"} \cup HoldingPcs
Pcs        == {"absent", "queued"} \cup LivePcs \cup EndedPcs

CallStates == {"recorded", "todo", "approval", "exec", "denied", "done", "cancelled", "failed"}
Waiting    == {"approval", "exec"}
Requests   == {"interrupt", "session_closed", "turn_timeout"}
Reasons    == Requests \cup
  {"none", "error", "model_error", "context_limit_exceeded", "max_tool_calls_exceeded"}

EventTypes == {"turn_started", "user_message", "context_compacted", "assistant_message",
               "model_tool_call", "tool_call_started", "tool_call_finished", "error",
               "turn_finished", "turn_aborted", "session_closed"}
Event(type, t, n, reason) == [type |-> type, turn |-> t, call |-> n, why |-> reason]
Events == [type : EventTypes, turn : Inputs \cup {NoTurn}, call : Int, why : Reasons]

Idle == [op |-> "none", st |-> "ready", turn |-> NoTurn]
CallerStates == [op : {"none", "interrupt", "close"},
                 st : {"ready", "waiting", "returned", "raised"},
                 turn : Inputs \cup {NoTurn}]

-----------------------------------------------------------------------------
(* The event loop *)

CanParallelizeAny(b) == Len(b) >= 2 /\ MaxParallel >= 2  \* mutant: effects not checked

CanParallelize(b) ==
  Len(b) >= 2 /\ MaxParallel >= 2 /\ \A k \in 1..Len(b) : b[k] = "read"

InState(t, S) == {k \in 1..Len(calls[t]) : calls[t][k] \in S}

\* A serial batch with no call waiting is between two awaits of the turn's own task.
Holds(t) ==
  \/ pc[t] \in HoldingPcs
  \/ InState(t, {"denied"}) # {}
  \/ pc[t] = "batch" /\ ~CanParallelize(batch[t]) /\ InState(t, Waiting) = {}

LoopFree == \A t \in Inputs : ~Holds(t)

\* Task.cancelling() # 0: in a serial batch the deadline of a call is the turn task's own.
Cancelling(t) ==
  \/ cancels[t] # {}
  \/ pc[t] = "batch" /\ ~CanParallelize(batch[t]) /\ due[t] # {}

\* Session.emit from the turn's own code: the append succeeds and the turn goes on at ok,
\* or it fails and the exception takes the turn to ko.
Emit(t, event, ok, ko) ==
  \/ /\ log' = Append(log, event)
     /\ pc' = [pc EXCEPT ![t] = ok]
     /\ UNCHANGED faults
  \/ /\ faults < MaxFaults
     /\ faults' = faults + 1
     /\ pc' = [pc EXCEPT ![t] = ko]
     /\ UNCHANGED log

\* The number of call k of the current batch among all calls of its turn.
CallNo(t, k) == (toolCallCount[t] + k) - Len(batch[t])

\* Session.emit from inside call k: a failed append ends a serial batch with the exception,
\* and only the child task of the call in a parallel one.
EmitFromCall(t, k, type, next) ==
  \/ /\ log' = Append(log, Event(type, t, CallNo(t, k), "none"))
     /\ calls' = [calls EXCEPT ![t][k] = next]
     /\ UNCHANGED <<pc, faults>>
  \/ /\ faults < MaxFaults
     /\ faults' = faults + 1
     /\ calls' = [calls EXCEPT ![t][k] = "failed"]
     /\ pc' = IF CanParallelize(batch[t]) THEN pc ELSE [pc EXCEPT ![t] = "raise"]
     /\ UNCHANGED log

-----------------------------------------------------------------------------
(* Session: inputs, interrupt, close *)

\* start_turn_if_idle, given the session's fields at that point of the caller.
StartTurnIfQueued(s, q, r, p) ==  \* mutant: neither the status nor the task is looked at
  IF q # <<>>
  THEN /\ queue'  = Tail(q)
       /\ runner' = Head(q)
       /\ status' = "running"
       /\ pc'     = [p EXCEPT ![Head(q)] = "created"]
  ELSE /\ queue' = q /\ runner' = r /\ status' = s /\ pc' = p

StartTurnIfIdle(s, q, r, p) ==
  IF s = "idle" /\ r = NoTurn /\ q # <<>>
  THEN /\ queue'  = Tail(q)
       /\ runner' = Head(q)
       /\ status' = "running"
       /\ pc'     = [p EXCEPT ![Head(q)] = "created"]
  ELSE /\ queue' = q /\ runner' = r /\ status' = s /\ pc' = p

Submit(i) ==
  /\ LoopFree
  /\ pc[i] = "absent"
  /\ status # "closed"
  /\ StartTurnIfIdle(status, Append(queue, i), runner, [pc EXCEPT ![i] = "queued"])
  /\ UNCHANGED <<turnVars, cancels, log, caller, closedEventEmitted, faults>>

\* task.cancel(reason), skipped when a cancellation is already pending.
RequestCancel(t, reason) ==
  cancels' = IF Cancelling(t) THEN cancels ELSE [cancels EXCEPT ![t] = {reason}]

Interrupt(c) ==
  /\ LoopFree
  /\ caller[c] = Idle
  /\ IF status = "closed" \/ runner = NoTurn
     THEN /\ caller' = [caller EXCEPT ![c] = [op |-> "interrupt", st |-> "returned", turn |-> NoTurn]]
          /\ UNCHANGED <<status, cancels>>
     ELSE /\ status' = "interrupted"
          /\ RequestCancel(runner, "interrupt")
          /\ caller' = [caller EXCEPT ![c] = [op |-> "interrupt", st |-> "waiting", turn |-> runner]]
  /\ UNCHANGED <<queue, runner, pc, turnVars, log, closedEventEmitted, faults>>

TaskStopping(t) == pc[t] \in EndedPcs \/ cancels[t] # {}  \* mutant: no wait for the cleanup

\* asyncio.shield(task) waits for the end of the task.
TaskEnded(t) == pc[t] \in EndedPcs

\* ... and passes on how it ended; a lost task raises CancelledError here.
InterruptEnds(c) ==
  /\ LoopFree
  /\ caller[c].op = "interrupt" /\ caller[c].st = "waiting"
  /\ TaskEnded(caller[c].turn)
  /\ caller' = [caller EXCEPT ![c].st =
                  IF pc[caller[c].turn] \in {"failed", "lost"} THEN "raised" ELSE "returned"]
  /\ UNCHANGED <<status, queue, runner, pc, turnVars, cancels, log, closedEventEmitted, faults>>

CloseLockFree == \A c \in Callers : ~(caller[c].op = "close" /\ caller[c].st = "waiting")

\* emit(SESSION_CLOSED), the last step of close().
EmitClosed(c) ==
  \/ /\ log' = Append(log, Event("session_closed", NoTurn, 0, "none"))
     /\ closedEventEmitted' = TRUE
     /\ caller' = [caller EXCEPT ![c].op = "close", ![c].st = "returned"]
     /\ UNCHANGED faults
  \/ /\ faults < MaxFaults
     /\ faults' = faults + 1
     /\ caller' = [caller EXCEPT ![c].op = "close", ![c].st = "raised"]
     /\ UNCHANGED <<log, closedEventEmitted>>

Close(c) ==
  /\ LoopFree
  /\ caller[c] = Idle
  /\ CloseLockFree
  /\ IF closedEventEmitted
     THEN /\ caller' = [caller EXCEPT ![c].op = "close", ![c].st = "returned"]
          /\ UNCHANGED <<status, cancels, log, closedEventEmitted, faults>>
     ELSE /\ status' = "closed"
          /\ IF runner = NoTurn
             THEN EmitClosed(c) /\ UNCHANGED cancels
             ELSE /\ RequestCancel(runner, "session_closed")
                  /\ caller' = [caller EXCEPT ![c] =
                                  [op |-> "close", st |-> "waiting", turn |-> runner]]
                  /\ UNCHANGED <<log, closedEventEmitted, faults>>
  /\ UNCHANGED <<queue, runner, pc, turnVars>>

CloseEnds(c) ==
  /\ LoopFree
  /\ caller[c].op = "close" /\ caller[c].st = "waiting"
  /\ \/ pc[caller[c].turn] = "done" /\ EmitClosed(c)
     \/ /\ pc[caller[c].turn] \in {"failed", "lost"}
        /\ caller' = [caller EXCEPT ![c].st = "raised"]
        /\ UNCHANGED <<log, closedEventEmitted, faults>>
  /\ UNCHANGED <<status, queue, runner, pc, turnVars, cancels>>

-----------------------------------------------------------------------------
(* Turn.run *)

sessionVars == <<status, queue, runner, caller, closedEventEmitted>>

FirstStep(t) ==
  /\ LoopFree
  /\ pc[t] = "created" /\ cancels[t] = {}
  /\ Emit(t, Event("turn_started", t, 0, "none"), "echo", "raise")
  /\ UNCHANGED <<sessionVars, turnVars, cancels>>

\* Cancelled before its first step: CancelledError is thrown into a coroutine that has not
\* started, so neither Turn.run nor the finally block of _run_turn is entered.
LoseTask(t) ==
  /\ LoopFree
  /\ pc[t] = "created" /\ cancels[t] # {}
  /\ pc' = [pc EXCEPT ![t] = "lost"]
  /\ UNCHANGED <<sessionVars, turnVars, cancels, log, faults>>

EmitUserMessage(t) ==
  /\ pc[t] = "echo"
  /\ Emit(t, Event("user_message", t, 0, "none"), "prepare", "raise")
  /\ UNCHANGED <<sessionVars, turnVars, cancels>>

\* _prepare_model_messages: the input fits, fits after compaction, or does not fit at all.
\* A compaction that succeeds always makes it fit: its budget is exactly what the fixed
\* messages leave over.
PrepareModelMessages(t) ==
  /\ pc[t] = "prepare"
  /\ said' = [said EXCEPT ![t] = FALSE]
  /\ \/ /\ pc' = [pc EXCEPT ![t] = "model"]
        /\ UNCHANGED <<log, faults, why>>
     \/ /\ ContextMayOverflow
        /\ Emit(t, Event("context_compacted", t, 0, "none"), "model", "raise")
        /\ UNCHANGED why
     \/ /\ ContextMayOverflow
        /\ pc' = [pc EXCEPT ![t] = "abort"]
        /\ why' = [why EXCEPT ![t] = "context_limit_exceeded"]
        /\ UNCHANGED <<log, faults>>
  /\ UNCHANGED <<sessionVars, cancels, batch, calls, due, toolCallCount>>

StreamingOn(t) == LoopFree /\ pc[t] = "model"  \* mutant: the stream outlives a cancellation

\* The stream can deliver something only while no cancellation is pending.
Streaming(t) == LoopFree /\ pc[t] = "model" /\ cancels[t] = {}

ModelMessageCompleted(t) ==
  /\ Streaming(t) /\ ~said[t]
  /\ said' = [said EXCEPT ![t] = TRUE]
  /\ Emit(t, Event("assistant_message", t, 0, "none"), "model", "raise")
  /\ UNCHANGED <<sessionVars, cancels, why, batch, calls, due, toolCallCount>>

\* A response without tool calls: the message was sent already, or was streamed in parts.
ModelAnswer(t) ==
  /\ Streaming(t)
  /\ pc' = [pc EXCEPT ![t] = IF said[t] THEN "finish" ELSE "answer"]
  /\ UNCHANGED <<sessionVars, turnVars, cancels, log, faults>>

\* A response with tool calls; streamed parts are flushed first.
ModelToolCalls(t, b) ==
  /\ Streaming(t)
  /\ batch' = [batch EXCEPT ![t] = b]
  /\ calls' = [calls EXCEPT ![t] = <<>>]
  /\ \/ pc' = [pc EXCEPT ![t] = "record"]
     \/ ~said[t] /\ pc' = [pc EXCEPT ![t] = "flush"]
  /\ UNCHANGED <<sessionVars, cancels, why, said, due, toolCallCount, log, faults>>

ModelError(t) ==
  /\ Streaming(t)
  /\ why' = [why EXCEPT ![t] = "model_error"]
  /\ Emit(t, Event("error", t, 0, "none"), "abort", "raise")
  /\ UNCHANGED <<sessionVars, cancels, said, batch, calls, due, toolCallCount>>

\* The provider raises, violates the stream protocol, or completes with nothing.
ModelRaises(t) ==
  /\ Streaming(t)
  /\ pc' = [pc EXCEPT ![t] = "raise"]
  /\ UNCHANGED <<sessionVars, turnVars, cancels, log, faults>>

FlushStreamedMessage(t) ==
  /\ pc[t] = "flush"
  /\ Emit(t, Event("assistant_message", t, 0, "none"), "record", "raise")
  /\ UNCHANGED <<sessionVars, turnVars, cancels>>

BudgetExceededByCount(t) == toolCallCount[t] + 1 > MaxToolCalls  \* mutant: batch counted as one

BudgetExceeded(t) == toolCallCount[t] + Len(batch[t]) > MaxToolCalls

\* The budget check, then _record_tool_calls call by call, then the start of the batch.
RecordToolCalls(t) ==
  LET k == Len(calls[t]) + 1 IN
  /\ pc[t] = "record"
  /\ IF BudgetExceeded(t)
     THEN /\ pc' = [pc EXCEPT ![t] = "abort"]
          /\ why' = [why EXCEPT ![t] = "max_tool_calls_exceeded"]
          /\ UNCHANGED <<calls, toolCallCount, log, faults>>
     ELSE /\ UNCHANGED why
          /\ IF k <= Len(batch[t])
             THEN /\ Emit(t, Event("model_tool_call", t, toolCallCount[t] + k, "none"),
                          "record", "raise")
                  /\ calls' = [calls EXCEPT ![t] = Append(@, "recorded")]
                  /\ UNCHANGED toolCallCount
             ELSE /\ pc' = [pc EXCEPT ![t] = "batch"]
                  /\ toolCallCount' = [toolCallCount EXCEPT ![t] = @ + Len(batch[t])]
                  /\ calls' = [calls EXCEPT ![t] = [j \in 1..Len(@) |-> "todo"]]
                  /\ UNCHANGED <<log, faults>>
  /\ UNCHANGED <<sessionVars, cancels, said, batch, due>>

EmitAnswer(t) ==
  /\ pc[t] = "answer"
  /\ Emit(t, Event("assistant_message", t, 0, "none"), "finish", "raise")
  /\ UNCHANGED <<sessionVars, turnVars, cancels>>

Finish(t) ==
  /\ pc[t] = "finish"
  /\ Emit(t, Event("turn_finished", t, 0, "none"), "unwind", "raise")
  /\ UNCHANGED <<sessionVars, turnVars, cancels>>

-----------------------------------------------------------------------------
(* The tool batch: _run_tool_batch, one _run_tool_call per call *)

\* Call k can take a step of its own: the serial loop or the child task of gather is alive
\* and no cancellation of the turn is on its way to it. The children of a batch that was
\* given up after a failed sibling run on.
Runs(t, k) ==
  /\ k \in 1..Len(calls[t])
  /\ IF CanParallelize(batch[t]) THEN pc[t] = "batch" => cancels[t] = {}
                               ELSE pc[t] = "batch" /\ cancels[t] = {}

\* A serial loop starts call k when it holds the loop and all earlier calls are done; a
\* parallel one when the event loop is free and the semaphore has a permit. The call ends up
\* waiting for an approval, waiting for its tool, or refused (sandbox, arguments, registry).
StartCall(t, k) ==
  /\ Runs(t, k)
  /\ calls[t][k] = "todo"
  /\ IF CanParallelize(batch[t])
     THEN LoopFree /\ Cardinality(InState(t, Waiting)) < MaxParallel
     ELSE \A j \in 1..(k - 1) : calls[t][j] = "done"
  /\ \E st \in {"exec", "denied"} \cup (IF batch[t][k] = "gated" THEN {"approval"} ELSE {}) :
        EmitFromCall(t, k, "tool_call_started", st)
  /\ UNCHANGED <<sessionVars, cancels, why, said, batch, due, toolCallCount>>

\* The reviewer approves; the tool starts in the same step.
Approve(t, k) ==
  /\ LoopFree /\ Runs(t, k) /\ k \notin due[t]
  /\ calls[t][k] = "approval"
  /\ calls' = [calls EXCEPT ![t][k] = "exec"]
  /\ UNCHANGED <<sessionVars, cancels, pc, why, said, batch, due, toolCallCount, log, faults>>

\* The call ends: its tool returned or raised, or its approval was refused.
CallReturns(t, k) ==
  /\ LoopFree /\ Runs(t, k) /\ k \notin due[t]
  /\ calls[t][k] \in Waiting
  /\ EmitFromCall(t, k, "tool_call_finished", "done")
  /\ UNCHANGED <<sessionVars, cancels, why, said, batch, due, toolCallCount>>

CallRefused(t, k) ==
  /\ Runs(t, k)
  /\ calls[t][k] = "denied"
  /\ EmitFromCall(t, k, "tool_call_finished", "done")
  /\ UNCHANGED <<sessionVars, cancels, why, said, batch, due, toolCallCount>>

\* The approval or tool deadline of the call fires: it cancels the task the call runs in.
CallDeadline(t, k) ==
  /\ LoopFree /\ Runs(t, k) /\ k \notin due[t]
  /\ calls[t][k] \in Waiting
  /\ due' = [due EXCEPT ![t] = @ \cup {k}]
  /\ UNCHANGED <<sessionVars, cancels, pc, why, said, batch, calls, toolCallCount, log, faults>>

\* ... and the deadline turns that cancellation into a timeout result, unless another request
\* (CancelTurn below) is pending beside it.
CallTimesOut(t, k) ==
  /\ LoopFree /\ Runs(t, k) /\ k \in due[t]
  /\ calls[t][k] \in Waiting
  /\ due' = [due EXCEPT ![t] = @ \ {k}]
  /\ EmitFromCall(t, k, "tool_call_finished", "done")
  /\ UNCHANGED <<sessionVars, cancels, why, said, batch, toolCallCount>>

BatchHasResult(t) == InState(t, {"done"}) # {}  \* mutant: gives up after the first result

BatchHasAllResults(t) == InState(t, {"done"}) = 1..Len(batch[t])

\* All calls have results: they are appended to the conversation and the next model request
\* is prepared. After gather the turn's task has to be scheduled first.
BatchDone(t) ==
  /\ pc[t] = "batch" /\ cancels[t] = {}
  /\ BatchHasAllResults(t)
  /\ CanParallelize(batch[t]) => LoopFree
  /\ pc' = [pc EXCEPT ![t] = "prepare"]
  /\ UNCHANGED <<sessionVars, turnVars, cancels, log, faults>>

\* gather passes on the first failure of a child; the other children are left running.
BatchFails(t) ==
  /\ LoopFree
  /\ pc[t] = "batch" /\ InState(t, {"failed"}) # {}
  /\ pc' = [pc EXCEPT ![t] = "raise"]
  /\ UNCHANGED <<sessionVars, turnVars, cancels, log, faults>>

-----------------------------------------------------------------------------
(* Session._run_turn: deadline, cancellation, exceptions, finally *)

ModelWait(t) == pc[t] = "model"  \* mutant: the deadline does not cover tool calls

Suspended(t) == pc[t] \in {"model", "batch"}

TurnDeadline(t) ==
  /\ LoopFree
  /\ Suspended(t)
  /\ "turn_timeout" \notin cancels[t]
  /\ cancels' = [cancels EXCEPT ![t] = @ \cup {"turn_timeout"}]
  /\ UNCHANGED <<sessionVars, pc, turnVars, log, faults>>

CancelReasonDefault(t) ==  \* mutant: the turn deadline reported as an interrupt
  IF "session_closed" \in cancels[t] THEN "session_closed" ELSE "interrupt"

\* A request made by interrupt() or close() outlives the deadline's own one.
CancelReason(t) ==
  IF "interrupt" \in cancels[t] THEN "interrupt"
  ELSE IF "session_closed" \in cancels[t] THEN "session_closed" ELSE "turn_timeout"

LeaveCalls(t) == UNCHANGED <<calls, due>>  \* mutant: child tasks are not cancelled

\* gather has cancelled its children and waited for them, unless it had already passed on the
\* failure of one; a serial loop leaves the call it was in.
CancelCalls(t) ==
  IF pc[t] = "batch" /\ InState(t, {"failed"}) = {}
  THEN /\ calls' = [calls EXCEPT ![t] =
                      [k \in 1..Len(@) |-> IF @[k] = "done" THEN "done" ELSE "cancelled"]]
       /\ due' = [due EXCEPT ![t] = {}]
  ELSE UNCHANGED <<calls, due>>

\* The task steps with CancelledError pending.
CancelTurn(t) ==
  /\ LoopFree
  /\ pc[t] \in {"model", "batch"} /\ cancels[t] # {}
  /\ why' = [why EXCEPT ![t] = CancelReason(t)]
  /\ pc' = [pc EXCEPT ![t] = "handle"]
  /\ CancelCalls(t)
  /\ UNCHANGED <<sessionVars, cancels, said, batch, toolCallCount, log, faults>>

\* Turn.abort inside Turn.run; a failed append is an exception like any other there.
Abort(t) ==
  /\ pc[t] = "abort"
  /\ Emit(t, Event("turn_aborted", t, 0, why[t]), "unwind", "raise")
  /\ UNCHANGED <<sessionVars, turnVars, cancels>>

\* _abort_from_exception: the error event first ...
AbortFromException(t) ==
  /\ pc[t] = "raise"
  /\ why' = [why EXCEPT ![t] = "error"]
  /\ Emit(t, Event("error", t, 0, "none"), "handle", "crash")
  /\ UNCHANGED <<sessionVars, cancels, said, batch, calls, due, toolCallCount>>

\* ... then Turn.abort, as for a cancellation or the turn deadline. An append that fails in
\* these handlers leaves _run_turn with the exception.
HandlerAbort(t) ==
  /\ pc[t] = "handle"
  /\ Emit(t, Event("turn_aborted", t, 0, why[t]), "unwind", "crash")
  /\ UNCHANGED <<sessionVars, turnVars, cancels>>

ContinueIfRunning == status = "running"  \* mutant: an interrupted turn hands nothing on
AlwaysContinue == TRUE                   \* mutant: a closed session goes on
ShouldContinue == status # "closed"

ReleasedBy(t) == IF runner = t THEN NoTurn ELSE runner

\* The finally block: release the session, and start the next queued turn unless it is closed.
Unwind(t) ==
  LET ended == [pc EXCEPT ![t] = IF pc[t] = "unwind" THEN "done" ELSE "failed"]
  IN
  /\ pc[t] \in {"unwind", "crash"}
  /\ IF ShouldContinue
     THEN StartTurnIfIdle("idle", queue, ReleasedBy(t), ended)
     ELSE runner' = ReleasedBy(t) /\ pc' = ended /\ UNCHANGED <<status, queue>>
  /\ UNCHANGED <<turnVars, cancels, log, caller, closedEventEmitted, faults>>

-----------------------------------------------------------------------------
Init ==
  /\ status = "idle" /\ queue = <<>> /\ runner = NoTurn
  /\ pc = [t \in Inputs |-> "absent"]
  /\ why = [t \in Inputs |-> "none"]
  /\ cancels = [t \in Inputs |-> {}]
  /\ said = [t \in Inputs |-> FALSE]
  /\ batch = [t \in Inputs |-> <<>>]
  /\ calls = [t \in Inputs |-> <<>>]
  /\ due = [t \in Inputs |-> {}]
  /\ toolCallCount = [t \in Inputs |-> 0]
  /\ log = <<>> /\ caller = [c \in Callers |-> Idle]
  /\ closedEventEmitted = FALSE /\ faults = 0

CallIndices == UNION {1..Len(b) : b \in Batches}

\* Code of the turn's task that is ready to run: it takes its next step without waiting.
RunTurn(t) ==
  \/ FirstStep(t) \/ LoseTask(t) \/ EmitUserMessage(t) \/ PrepareModelMessages(t)
  \/ FlushStreamedMessage(t) \/ RecordToolCalls(t) \/ EmitAnswer(t) \/ Finish(t)
  \/ BatchDone(t) \/ BatchFails(t) \/ CancelTurn(t)
  \/ Abort(t) \/ AbortFromException(t) \/ HandlerAbort(t) \/ Unwind(t)
  \/ \E k \in CallIndices : StartCall(t, k) \/ CallRefused(t, k) \/ CallTimesOut(t, k)

\* What the provider, the tools and the reviewer may do, or never do.
Environment(t) ==
  \/ ModelMessageCompleted(t) \/ ModelAnswer(t) \/ ModelError(t) \/ ModelRaises(t)
  \/ \E b \in Batches : ModelToolCalls(t, b)
  \/ \E k \in CallIndices : Approve(t, k) \/ CallReturns(t, k) \/ CallDeadline(t, k)

Client ==
  \/ \E i \in Inputs : Submit(i)
  \/ \E c \in Callers : Interrupt(c) \/ Close(c)

Next ==
  \/ Client
  \/ \E c \in Callers : InterruptEnds(c) \/ CloseEnds(c)
  \/ \E t \in Inputs : RunTurn(t) \/ Environment(t) \/ TurnDeadline(t)

Spec == Init /\ [][Next]_vars

\* The event loop runs what is ready and fires the timer of the turn deadline; nothing is
\* assumed of clients, providers, tools, reviewers or the other deadlines.
Fairness ==
  /\ \A t \in Inputs : WF_vars(RunTurn(t)) /\ WF_vars(TurnDeadline(t))
  /\ \A c \in Callers : WF_vars(InterruptEnds(c) \/ CloseEnds(c))

FairSpec == Spec /\ Fairness

TypeOK ==
  /\ status \in Statuses /\ queue \in Seq(Inputs) /\ runner \in Inputs \cup {NoTurn}
  /\ pc \in [Inputs -> Pcs] /\ why \in [Inputs -> Reasons]
  /\ cancels \in [Inputs -> SUBSET Requests] /\ said \in [Inputs -> BOOLEAN]
  /\ batch \in [Inputs -> Batches \cup {<<>>}] /\ calls \in [Inputs -> Seq(CallStates)]
  /\ due \in [Inputs -> SUBSET Nat] /\ toolCallCount \in [Inputs -> 0..MaxToolCalls]
  /\ log \in Seq(Events) /\ caller \in [Callers -> CallerStates]
  /\ closedEventEmitted \in BOOLEAN /\ faults \in 0..MaxFaults

-----------------------------------------------------------------------------
(* Properties *)

Logged(type, t) == \E i \in 1..Len(log) : log[i].type = type /\ log[i].turn = t
Terminal(t) == Logged("turn_finished", t) \/ Logged("turn_aborted", t)
Appends(t, type) ==
  Len(log') > Len(log) /\ log'[Len(log')].turn = t /\ log'[Len(log')].type = type

\* Session.status, _runner_task and the tasks agree: at most one turn has a task, it is the
\* one the session would cancel and wait for, and an idle session with an empty slot never
\* keeps a message waiting. A task lost before its first step keeps the slot for good.
SingleRunner ==
  /\ \A t \in Inputs : pc[t] \in LivePcs \cup {"lost"} <=> runner = t
  /\ status = "idle" <=> runner = NoTurn /\ status # "closed"
  /\ status = "idle" => queue = <<>>
  /\ \A t \in Inputs : pc[t] = "queued" => \E i \in 1..Len(queue) : queue[i] = t

\* No tool call is waiting for an approval, for its tool or for a semaphore permit unless its
\* turn is the one the session still owns: interrupt() and close() leave nothing running.
QuietWhenReleased ==
  \A t \in Inputs : InState(t, {"todo"} \cup Waiting) # {} => runner = t

\* A call is awaiting approval only alone, calls run side by side only when the batch is all
\* reads, and never more of them than max_parallel_read_tools.
ToolConcurrency ==
  \A t \in Inputs :
    LET active == InState(t, Waiting) IN
    /\ Cardinality(active) <= MaxParallel
    /\ Cardinality(active) > 1 => \A k \in active : batch[t][k] = "read"

\* max_tool_calls bounds the calls a turn records and the calls it starts, over all its rounds.
BudgetRespected ==
  \A t \in Inputs : \A type \in {"model_tool_call", "tool_call_started"} :
    Cardinality({i \in 1..Len(log) : log[i].type = type /\ log[i].turn = t}) <= MaxToolCalls

\* The two limits the settings put on the tool calls of a turn, max_parallel_read_tools at any
\* moment and max_tool_calls over all its rounds, hold together.
LimitsRespected == ToolConcurrency /\ BudgetRespected

\* interrupt() and close() are completion barriers: when one that met a running turn returns
\* normally, the terminal event of that turn is in the log, whatever appends failed.
BarrierReturns ==
  \A c \in Callers :
    caller[c].st = "returned" /\ caller[c].turn # NoTurn => Terminal(caller[c].turn)

\* A turn is aborted as interrupted or as closed only if some caller did that to this turn:
\* a cancellation never spills over to the next one.
AbortReasonIsOwn ==
  \A i \in 1..Len(log) : log[i].type = "turn_aborted" =>
    /\ log[i].why = "interrupt" =>
         \E c \in Callers : caller[c].op = "interrupt" /\ caller[c].turn = log[i].turn
    /\ log[i].why = "session_closed" =>
         \E c \in Callers : caller[c].op = "close" /\ caller[c].turn = log[i].turn

\* Once close() has begun the session stays closed, takes no message from the queue and
\* creates no task; the task it has can only go away.
NothingStartsAfterClose ==
  [][status = "closed" =>
       status' = "closed" /\ queue' = queue /\ (runner' = runner \/ runner' = NoTurn)]_vars

\* While a request by interrupt(), close() or the turn deadline is pending on a turn, the only
\* event the turn can still write is its turn_aborted: no further model text, no tool call
\* started, none reported as finished, no answer.
CancelledTurnStops ==
  [][\A t \in Inputs : cancels[t] # {} =>
       \A type \in EventTypes \ {"turn_aborted"} : ~Appends(t, type)]_vars

\* The log is one that SessionLog allows (no failing appends: a terminal event that cannot
\* be written is missing from the log).
Log == INSTANCE SessionLog WITH
         Turns <- Inputs,
         Activity <- {"user_message", "context_compacted", "assistant_message", "error"}
ImplementsSessionLog == Log!Spec

\* A turn that started ends with a terminal event, although providers, tools and reviewers
\* may hang: the turn deadline ends it.
StartedTurnEnds == \A t \in Inputs : Logged("turn_started", t) ~> Terminal(t)

\* close() ends in session_closed, except when it cancelled a task that never took a step.
CloseCompletes ==
  status = "closed" ~> \/ Logged("session_closed", NoTurn)
                       \/ \E t \in Inputs : pc[t] = "lost"

\* A queued message gets its turn, unless the session is closed or its task was lost.
QueueServed ==
  \A i \in Inputs : pc[i] = "queued" ~>
    pc[i] # "queued" \/ status = "closed" \/ \E t \in Inputs : pc[t] = "lost"

\* Whatever appends fail, a turn that took its first step gives the session back, and callers of
\* interrupt() and close() do not wait for ever, on the task or on each other's lock.
SessionReleased ==
  /\ \A t \in Inputs : pc[t] \in LivePcs ~> pc[t] \in EndedPcs
  /\ \A c \in Callers : caller[c].st = "waiting" ~> caller[c].st # "waiting"

\* docs/ARCHITECTURE.md: interrupt() and close() cancel the active turn's task; a turn that
\* either of them met does not go on to its answer.
StoppedTurnNeverFinishes ==
  \A c \in Callers : caller[c].turn # NoTurn => ~Logged("turn_finished", caller[c].turn)

=============================================================================
