----------------------------- MODULE Approvals -----------------------------
(***************************************************************************)
(* A tool call that needs the user's approval, from ToolRunner.run to the   *)
(* modal dialog of the terminal UI and back: the runner's task waits for a  *)
(* future of ThreadApprovalReviewer, the event travels through the queue of *)
(* AgentThread, the UI's worker shows the dialog and submits the decision.  *)
(* Meanwhile deadlines fire, the user quits, and the worker reads on.       *)
(*                                                                         *)
(* One session, whose turns run one at a time and whose approval-bearing    *)
(* batches are serial (module Session). Failures of the log and the first   *)
(* step of a turn's task are Session's subject and left out here.           *)
(***************************************************************************)
EXTENDS Integers, SequencesExt, FiniteSetsExt

CONSTANTS
  MaxTurns,  \* bound: messages the user submits
  MaxCalls   \* bound: tool calls over all turns

ASSUME ApprovalsAssumption == MaxTurns \in Nat /\ MaxCalls \in Nat

VARIABLES
  turn,     \* where the session's turn is suspended, "none" without a turn
  call,     \* the latest tool call; approval ids are the calls'
  future,   \* ThreadApprovalReviewer.pending[call], while the turn is in review
  cancels,  \* who has cancelled the turn's task since its last step
  log,      \* the events emitted; those not yet seen are in AgentThread._events
  seen,     \* how many of them the UI's worker has taken
  status,   \* CodeCraftTUI.turn_status
  prompt,   \* whether the prompt accepts input
  worker,   \* CodeCraftTUI._consume_events
  request,  \* the call whose approval the worker is at
  clicks,   \* what the user answered, per call
  app,      \* the application and its shutdown
  turns     \* counter for the bound

runnerVars == <<turn, call, future, cancels, log>>
uiVars == <<seen, status, prompt, worker, request>>
vars == <<turn, call, future, cancels, log, seen, status, prompt, worker, request, clicks, app, turns>>

Event(type, c, approved) == [type |-> type, call |-> c, approved |-> approved]
EventTypes == {"turn_started", "approval_requested", "approval_decided", "tool_call_finished",
               "turn_finished", "turn_aborted", "session_closed"}
Events == [type : EventTypes, call : 0..MaxCalls, approved : BOOLEAN]

Running == app # "exited"

Emit(type) == log' = Append(log, Event(type, call, FALSE))

-----------------------------------------------------------------------------
(* Turn and ToolRunner.run *)

EndTurn(type) ==
  /\ Emit(type)
  /\ turn' = "none" /\ future' = "none" /\ cancels' = {}
  /\ UNCHANGED call

\* The model ends the turn with an answer, or fails.
ModelEnds ==
  /\ Running /\ turn = "model" /\ cancels = {}
  /\ \E type \in {"turn_finished", "turn_aborted"} : EndTurn(type)
  /\ UNCHANGED <<uiVars, clicks, app, turns>>

\* A call with unknown tool, invalid arguments or an effect outside the sandbox is refused; one
\* that needs no approval runs; for any other the request is emitted and, without a suspension
\* in between, its future registered.
RunTool ==
  /\ Running /\ turn = "model" /\ cancels = {} /\ call < MaxCalls
  /\ call' = call + 1
  /\ \/ /\ log' = Append(log, Event("tool_call_finished", call', FALSE))
        /\ UNCHANGED <<turn, future>>
     \/ /\ turn' = "tool"
        /\ UNCHANGED <<log, future>>
     \/ /\ log' = Append(log, Event("approval_requested", call', FALSE))
        /\ turn' = "review" /\ future' = "open"
  /\ UNCHANGED <<cancels, uiVars, clicks, app, turns>>

\* What the task finds when it runs again after the wait for the decision: a cancellation beats
\* the deadline, and the deadline beats a decision that came before it in the same iteration of
\* the event loop.
Outcome ==
  IF "turn" \in cancels THEN "cancelled"
  ELSE IF "approval" \in cancels THEN "rejected" ELSE future

RefusalUnlogged == <<Event("tool_call_finished", call, FALSE)>>  \* mutant: no decision event

Refusal == <<Event("approval_decided", call, FALSE), Event("tool_call_finished", call, FALSE)>>

ReviewEnds ==
  /\ turn = "review" /\ (future # "open" \/ cancels # {})
  /\ \/ Outcome = "cancelled" /\ EndTurn("turn_aborted")
     \/ /\ Outcome = "approved"
        /\ log' = Append(log, Event("approval_decided", call, TRUE))
        /\ turn' = "tool" /\ future' = "none" /\ cancels' = {}
        /\ UNCHANGED call
     \/ /\ Outcome = "rejected"
        /\ log' = log \o Refusal
        /\ turn' = "model" /\ future' = "none" /\ cancels' = {}
        /\ UNCHANGED call
  /\ UNCHANGED <<uiVars, clicks, app, turns>>

\* The tool returns, fails or hits its own deadline; only a success has observers to run.
ToolEnds ==
  /\ Running /\ turn = "tool" /\ cancels = {}
  /\ \/ turn' = "observe" /\ UNCHANGED log
     \/ turn' = "model" /\ Emit("tool_call_finished")
  /\ UNCHANGED <<call, future, cancels, uiVars, clicks, app, turns>>

ObserversEnd ==
  /\ Running /\ turn = "observe" /\ cancels = {}
  /\ turn' = "model" /\ Emit("tool_call_finished")
  /\ UNCHANGED <<call, future, cancels, uiVars, clicks, app, turns>>

CancelEndsUnobserved ==  \* mutant: the observers' wait swallows the cancellation
  /\ turn \in {"model", "tool"} /\ cancels # {}
  /\ EndTurn("turn_aborted")
  /\ UNCHANGED <<uiVars, clicks, app, turns>>

\* Session._run_turn: the cancelled task ends its turn.
CancelEnds ==
  /\ turn \in {"model", "tool", "observe"} /\ cancels # {}
  /\ EndTurn("turn_aborted")
  /\ UNCHANGED <<uiVars, clicks, app, turns>>

CancelSwallowed(who) == UNCHANGED <<cancels, future>>  \* mutant: the wait goes on

Cancel(who) ==
  /\ cancels' = cancels \cup {who}
  /\ future' = IF future = "open" THEN "cancelled" ELSE future

ApprovalDeadline ==
  /\ Running /\ turn = "review" /\ "approval" \notin cancels
  /\ Cancel("approval")
  /\ UNCHANGED <<turn, call, log, uiVars, clicks, app, turns>>

TurnDeadline ==
  /\ Running /\ turn # "none" /\ "turn" \notin cancels
  /\ Cancel("turn")
  /\ UNCHANGED <<turn, call, log, uiVars, clicks, app, turns>>

-----------------------------------------------------------------------------
(* CodeCraftTUI *)

SubmitMessage ==
  /\ app = "running" /\ prompt /\ status = "idle"
  /\ turns < MaxTurns /\ turns' = turns + 1
  /\ prompt' = FALSE /\ status' = "running"
  /\ turn' = "model" /\ Emit("turn_started")
  /\ UNCHANGED <<call, future, cancels, seen, worker, request, clicks, app>>

UnlocksEarly(type) == type \in {"turn_finished", "tool_call_finished"}  \* mutant: too early
Unlocks(type) == type = "turn_finished"

\* _handle_event.
HandleEvent ==
  /\ Running /\ worker = "reading" /\ seen < Len(log)
  /\ seen' = seen + 1
  /\ LET event == log[seen + 1] IN
     /\ prompt' = ((prompt /\ event.type # "turn_aborted") \/ Unlocks(event.type))
     /\ status' = CASE Unlocks(event.type) -> "idle"
                    [] event.type = "turn_aborted" -> "aborted"
                    [] event.type = "approval_requested" -> "approval"
                    [] event.type = "session_closed" -> "closed"
                    [] OTHER -> status
     /\ worker' = CASE event.type = "approval_requested" -> "asking"
                    [] event.type = "session_closed" -> "ended"
                    [] OTHER -> "reading"
     /\ request' = IF event.type = "approval_requested" THEN event.call ELSE 0
  /\ UNCHANGED <<runnerVars, clicks, app, turns>>

\* The user presses a button of the dialog; the worker's task is woken.
UserAnswers ==
  /\ Running /\ worker = "asking"
  /\ \E answer \in {"approved", "rejected"} :
       worker' = answer /\ clicks' = [clicks EXCEPT ![request] = answer]
  /\ UNCHANGED <<runnerVars, seen, status, prompt, request, app, turns>>

AcceptsAny(c) == turn = "review" /\ future = "open"  \* mutant: the approval id is ignored

\* ThreadApprovalReviewer.decide: the request is pending and undecided.
Accepts(c) == turn = "review" /\ call = c /\ future = "open"

StatusAfterDecisionKept == status  \* mutant: the status is not reset
StatusAfterDecision == "running"

\* Session.submit of the decision; an exception ends the worker.
SubmitDecision ==
  /\ Running /\ worker \in {"approved", "rejected"}
  /\ \/ /\ Accepts(request)
        /\ future' = worker
        /\ worker' = "reading" /\ request' = 0 /\ status' = StatusAfterDecision
     \/ /\ ~Accepts(request)
        /\ worker' = "failed"
        /\ UNCHANGED <<future, request, status>>
  /\ UNCHANGED <<turn, call, cancels, log, seen, prompt, clicks, app, turns>>

\* _shutdown_runtime, after ctrl+q or because Textual ends an application whose worker failed:
\* pending approvals are rejected, and the session is interrupted and closed. A pending approval
\* that was decided or cancelled and whose task has not run since raises, and the rest is skipped.
Shutdown ==
  /\ app = "running"
  /\ IF turn = "review" /\ future # "open"
     THEN app' = "releasing" /\ UNCHANGED <<future, cancels>>
     ELSE /\ app' = "interrupting"
          /\ future' = IF future = "open" THEN "rejected" ELSE future
          /\ cancels' = IF turn # "none" /\ cancels = {} THEN {"turn"} ELSE cancels
  /\ UNCHANGED <<turn, call, log, uiVars, clicks, turns>>

\* interrupt() waits for the turn's task, close() logs its event.
SessionCloses ==
  /\ app = "interrupting" /\ turn = "none"
  /\ Emit("session_closed")
  /\ app' = "releasing"
  /\ UNCHANGED <<turn, call, future, cancels, uiVars, clicks, turns>>

\* runtime.close() and the end of the event loop, which cancels the tasks that are left.
Exit ==
  /\ app = "releasing"
  /\ app' = "exited"
  /\ IF turn = "none" THEN UNCHANGED <<cancels, future>> ELSE Cancel("turn")
  /\ UNCHANGED <<turn, call, log, uiVars, clicks, turns>>

-----------------------------------------------------------------------------
Init ==
  /\ turn = "none" /\ call = 0 /\ future = "none" /\ cancels = {} /\ log = <<>>
  /\ seen = 0 /\ status = "idle" /\ prompt = TRUE /\ worker = "reading" /\ request = 0
  /\ clicks = [c \in 1..MaxCalls |-> "none"]
  /\ app = "running" /\ turns = 0

Next ==
  \/ ModelEnds \/ RunTool \/ ReviewEnds \/ ToolEnds \/ ObserversEnd
  \/ CancelEnds \/ ApprovalDeadline \/ TurnDeadline
  \/ SubmitMessage \/ HandleEvent \/ UserAnswers \/ SubmitDecision
  \/ Shutdown \/ SessionCloses \/ Exit

Spec == Init /\ [][Next]_vars

\* The event loop runs ready tasks and expired timers. Models, tools, observers and the user
\* may take for ever; a worker's failure ends the application.
FairSpec ==
  /\ Spec
  /\ WF_vars(ReviewEnds) /\ WF_vars(CancelEnds)
  /\ WF_vars(ApprovalDeadline) /\ WF_vars(TurnDeadline)
  /\ WF_vars(HandleEvent) /\ WF_vars(SubmitDecision)
  /\ WF_vars(worker = "failed" /\ Shutdown) /\ WF_vars(SessionCloses) /\ WF_vars(Exit)

-----------------------------------------------------------------------------
(* Properties *)

TypeOK ==
  /\ turn \in {"none", "model", "review", "tool", "observe"}
  /\ call \in 0..MaxCalls
  /\ future \in {"none", "open", "approved", "rejected", "cancelled"}
  /\ (future = "none") <=> (turn # "review")
  /\ cancels \subseteq {"approval", "turn"}
  /\ log \in Seq(Events)
  /\ seen \in 0..Len(log)
  /\ status \in {"idle", "running", "approval", "aborted", "closed"} /\ prompt \in BOOLEAN
  /\ worker \in {"reading", "asking", "approved", "rejected", "failed", "ended"}
  /\ request \in 0..MaxCalls
  /\ clicks \in [1..MaxCalls -> {"none", "approved", "rejected"}]
  /\ app \in {"running", "interrupting", "releasing", "exited"} /\ turns \in 0..MaxTurns

Logged(type, c) == \E i \in 1..Len(log) : log[i].type = type /\ log[i].call = c
Decided(c, approved) == \E i \in 1..Len(log) : log[i] = Event("approval_decided", c, approved)

\* A call that asked for approval runs only after the user approved this very call, and the log
\* says so, whatever deadlines, late answers and earlier dialogs there were.
OnlyApprovedRun ==
  /\ (turn \in {"tool", "observe"} /\ Logged("approval_requested", call)) => Decided(call, TRUE)
  /\ \A c \in 1..MaxCalls : Decided(c, TRUE) => clicks[c] = "approved"

\* Each request is decided once: what follows it in the log is its decision or the end of the
\* turn, and a refusal ends the call before anything else happens.
RequestsDecided ==
  \A i \in 2..Len(log) :
    LET previous == log[i - 1] IN
    /\ previous.type = "approval_requested" => log[i].type \in {"approval_decided", "turn_aborted"}
    /\ log[i].type = "approval_decided" =>
         previous.type = "approval_requested" /\ previous.call = log[i].call
    /\ (previous.type = "approval_decided" /\ ~previous.approved) =>
         log[i] = Event("tool_call_finished", previous.call, FALSE)

\* README.md: the input remains locked until the active turn finishes. It is never open while a
\* turn runs, seen by the UI or not yet.
InputLocked == prompt => turn = "none"

\* When the worker has read all there is and no dialog is open, the status is that of the session.
StatusFollowsLog ==
  (app = "running" /\ worker = "reading" /\ seen = Len(log)) =>
    status = IF turn # "none" THEN "running"
             ELSE IF log # <<>> /\ Last(log).type = "turn_aborted" THEN "aborted" ELSE "idle"

\* A request does not wait for ever for a user who does not answer.
RequestsEnd == (turn = "review") ~> (turn # "review")

\* Shutdown comes to its end, whatever the session is at.
ShutdownEnds == (app \in {"interrupting", "releasing"} \/ worker = "failed") ~> app = "exited"

=============================================================================
