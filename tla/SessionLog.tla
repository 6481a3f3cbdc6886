----------------------------- MODULE SessionLog -----------------------------
(***************************************************************************)
(* What a session promises to the readers of its event log (the CLI, the    *)
(* TUI, conversation reconstruction, trace reports): turns do not overlap,  *)
(* each turn is framed by turn_started and one terminal event, a tool call  *)
(* is recorded before it starts and starts before it finishes, a turn that  *)
(* finished owes no tool result, and session_closed comes last.             *)
(***************************************************************************)
EXTENDS Naturals, Sequences

CONSTANTS Turns,      \* the turns the session may run
          NoTurn,     \* the turn of an event that belongs to none
          Activity    \* the event types inside a turn that carry no promise of their own

VARIABLE log

Logged(type, t) == \E i \in 1..Len(log) : log[i].type = type /\ log[i].turn = t
Ended(t)  == Logged("turn_finished", t) \/ Logged("turn_aborted", t)
Open(t)   == Logged("turn_started", t) /\ ~Ended(t)
Closed    == Logged("session_closed", NoTurn)
CallsIn(type, t) ==
  {log[i].call : i \in {j \in 1..Len(log) : log[j].type = type /\ log[j].turn = t}}

Recorded(t) == CallsIn("model_tool_call", t)
Started(t)  == CallsIn("tool_call_started", t)
Finished(t) == CallsIn("tool_call_finished", t)

\* One event is appended; its reason, if any, is free.
Write(type, t, n) ==
  /\ Len(log') = Len(log) + 1
  /\ SubSeq(log', 1, Len(log)) = log
  /\ log'[Len(log')].type = type
  /\ log'[Len(log')].turn = t
  /\ log'[Len(log')].call = n

StartTurn(t) ==
  /\ ~Closed /\ ~Logged("turn_started", t)
  /\ \A u \in Turns : ~Open(u)
  /\ Write("turn_started", t, 0)

Work(t) == Open(t) /\ \E type \in Activity : Write(type, t, 0)

RecordCall(t, n) == Open(t) /\ n \notin Recorded(t) /\ Write("model_tool_call", t, n)

StartCall(t, n) ==
  Open(t) /\ n \in Recorded(t) \ Started(t) /\ Write("tool_call_started", t, n)

FinishCall(t, n) ==
  Open(t) /\ n \in Started(t) \ Finished(t) /\ Write("tool_call_finished", t, n)

FinishTurn(t) == Open(t) /\ Finished(t) = Recorded(t) /\ Write("turn_finished", t, 0)

AbortTurn(t) == Open(t) /\ Write("turn_aborted", t, 0)

CloseSession ==
  /\ ~Closed
  /\ \A u \in Turns : ~Open(u)
  /\ Write("session_closed", NoTurn, 0)

Init == log = <<>>

Next ==
  \/ \E t \in Turns :
       \/ StartTurn(t) \/ Work(t) \/ FinishTurn(t) \/ AbortTurn(t)
       \/ LET n == log'[Len(log')].call IN
            RecordCall(t, n) \/ StartCall(t, n) \/ FinishCall(t, n)
  \/ CloseSession

Spec == Init /\ [][Next]_log

=============================================================================
