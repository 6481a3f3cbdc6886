-------------------------------- MODULE Host --------------------------------
(***************************************************************************)
(* One CodeCraft process, from the start of its runtime to its end: who     *)
(* starts and closes the registry of tools (ToolRegistry) and what becomes  *)
(* of the commands of its turn (Commands).                                  *)
(*                                                                         *)
(* `codecraft exec` does it all in one task, which Ctrl-C cancels once, at  *)
(* any suspension, without the session being told. The terminal UI starts   *)
(* its runtime in a worker; quitting shuts the thread down if there is one, *)
(* closes the runtime and then lets the workers be cancelled. The turn is   *)
(* an actor that calls the bash tool; Session models it.                    *)
(***************************************************************************)
EXTENDS Commands, ToolRegistry

CONSTANTS Modes  \* ways to run: "exec", "tui"

Boot == "boot"   \* create_thread or resume_thread, which start the registry
Quit == "quit"   \* runtime.close()

ASSUME HostAssumption ==
  /\ Modes \subseteq {"exec", "tui"}
  /\ Starters = {Boot} /\ Closers = {Quit}

VARIABLES
  mode,   \* how the process was started
  phase,  \* how far it is
  turn    \* whether the turn's task is running, so that it may call bash

hostVars == <<mode, phase, turn>>
vars == <<commandVars, registryVars, hostVars>>

TypeOK ==
  /\ CommandsTypeOK /\ RegistryTypeOK
  /\ mode \in Modes
  /\ phase \in {"open", "stopping", "closing", "leaving", "ended"}
  /\ turn \in {"none", "running", "over"}

Init ==
  /\ CommandsInit /\ RegistryInit
  /\ mode \in Modes /\ phase = "open" /\ turn = "none"

Idle == \A c \in Calls : call[c] \notin Running

-----------------------------------------------------------------------------
(* The runtime starts *)

\* The registry starts before there is a session; the terminal UI may still be
\* on its way there when the user quits.
BootCalls ==
  /\ phase # "ended" /\ (mode = "exec" => phase = "open")
  /\ Call(Boot)
  /\ UNCHANGED <<commandVars, hostVars>>

\* The session is there, and the user's input starts a turn.
TurnStarts ==
  /\ phase = "open" /\ task[Boot] = "done" /\ turn = "none"
  /\ turn' = "running"
  /\ UNCHANGED <<commandVars, registryVars, mode, phase>>

TurnCalls(c) ==
  /\ turn = "running" /\ phase # "ended"
  /\ CallStep(c)
  /\ UNCHANGED <<registryVars, hostVars>>

\* The turn ends, or is cancelled with the call it waits for.
TurnStops ==
  /\ turn = "running"
  /\ turn' = "over"
  /\ \/ Idle /\ UNCHANGED commandVars
     \/ \E c \in Calls : CancelCall(c)
  /\ UNCHANGED <<registryVars, mode, phase>>

Outside(c) == ProcessStep(c) /\ UNCHANGED <<registryVars, hostVars>>

BootStep == (TaskStep(Boot) \/ ServerDies) /\ task[Boot] # "idle" /\ UNCHANGED <<commandVars, hostVars>>

-----------------------------------------------------------------------------
(* It closes *)

\* exec: the turn has ended, or the runtime could not start.
ExecFinishes ==
  /\ mode = "exec" /\ phase = "open"
  /\ turn = "over" \/ task[Boot] \in {"failed", "cancelled"}
  /\ phase' = "closing"
  /\ UNCHANGED <<commandVars, registryVars, mode, turn>>

\* exec: Ctrl-C cancels the main task; the `finally` of run_exec closes the
\* runtime, whatever the turn is doing.
ExecInterrupted ==
  /\ mode = "exec" /\ phase = "open" /\ task[Boot] \notin {"idle", "failed", "cancelled"}
  /\ \/ CancelTask(Boot)
     \/ task[Boot] = "done" /\ UNCHANGED registryVars
  /\ phase' = "closing"
  /\ UNCHANGED <<commandVars, mode, turn>>

\* tui: _shutdown_runtime shuts down the thread it has, if it has one.
TuiQuits ==
  /\ mode = "tui" /\ phase = "open"
  /\ phase' = IF task[Boot] = "done" THEN "stopping" ELSE "closing"
  /\ UNCHANGED <<commandVars, registryVars, mode, turn>>

\* shutdown_thread cancels the turn; if it raises, or takes too long, the turn
\* may still be running.
ThreadShutDown ==
  /\ phase = "stopping"
  /\ phase' = "closing"
  /\ UNCHANGED <<commandVars, registryVars, mode, turn>>

CloseRuntime ==
  /\ phase = "closing"
  /\ TaskStep(Quit)
  /\ UNCHANGED <<commandVars, hostVars>>

\* The event loop ends: it cancels what is left of the turn and the start.
Leave ==
  /\ phase = "closing" /\ task[Quit] \in Stopped
  /\ phase' = "leaving"
  /\ UNCHANGED <<commandVars, registryVars, mode, turn>>

BootCancelled ==
  /\ phase = "leaving"
  /\ CancelTask(Boot)
  /\ UNCHANGED <<commandVars, hostVars>>

\* bwrap dies with its parent; nothing else does.
Exit ==
  /\ phase = "leaving" /\ turn # "running" /\ task[Boot] \in Stopped \cup {"idle"}
  /\ phase' = "ended"
  /\ IF backend = "bubblewrap"
       THEN alive' = [c \in Calls |-> {}] /\ pipe' = [c \in Calls |-> {}]
       ELSE UNCHANGED <<alive, pipe>>
  /\ UNCHANGED <<backend, call, result, exit, timedOut, container, registryVars, mode, turn>>

Ended == phase = "ended" /\ UNCHANGED vars

Next ==
  \/ BootCalls \/ BootStep \/ TurnStarts \/ TurnStops
  \/ \E c \in Calls : TurnCalls(c) \/ Outside(c)
  \/ ExecFinishes \/ ExecInterrupted \/ TuiQuits \/ ThreadShutDown
  \/ CloseRuntime \/ Leave \/ BootCancelled \/ Exit \/ Ended

\* The loop resumes what can go on and calls its timeouts back: the tool's
\* deadline ends a call, the server's timeout a connection that is not answered.
\* Neither a user, a model, a server nor a command owes anything.
Fairness ==
  /\ \A c \in Calls : WF_vars(ToolDeadline(c) /\ UNCHANGED <<registryVars, hostVars>>)
  /\ WF_vars(BootStep /\ task'[Boot] # task[Boot]) /\ WF_vars(CloseRuntime)
  /\ WF_vars(ThreadShutDown) /\ WF_vars(Leave)
  /\ WF_vars(phase = "leaving" /\ (TurnStops \/ BootCancelled)) /\ WF_vars(Exit)

Spec == Init /\ [][Next]_vars /\ Fairness

-----------------------------------------------------------------------------
(* What holds *)

\* A call that was answered as timed out by its own timeout has left neither its
\* leader nor its group, and a container only if docker did not remove it
\* (sandbox/_execution.py communicate, docker.py _force_remove).
TimedOutIsGone ==
  \A c \in Calls : result[c] = "timed_out" =>
    /\ alive[c] \cap {"leader", "group"} = {}
    /\ "container" \in alive[c] => container[c] = "kept"

\* Under bwrap and docker nothing of a command is left once the call has its
\* result, whatever the command put in the background (process.py promises no
\* such thing).
SandboxIsEmpty ==
  \A c \in Calls : backend \in {"bubblewrap", "docker"} /\ result[c] \in {"ok", "failed"}
    => alive[c] = {}

\* A result that is not a timeout carries all the output: nobody can add to it
\* (communicate waits for the end of the output, not only of the shell).
OutputComplete ==
  \A c \in Calls : result[c] \in {"ok", "failed"} => pipe[c] = {} /\ exit[c] # "none"

\* A result is final: what the call promises of its processes and its output is so
\* from the moment the model has it (backends' execute, communicate).
ResultIsFinal == TimedOutIsGone /\ SandboxIsEmpty /\ OutputComplete

\* At any time, in the middle of a start, a close or their failures, a tool in
\* the registry has a provider with an open session (registry.py start, close).
ToolsHaveServers == tools \subseteq link

\* A start is all or nothing, at every step of it, of its failures and of the
\* close: nobody sees a part of the tools, a registry that has started has every
\* server and all their tools, and a start that has failed leaves no session that
\* would keep it from starting again, and no server, but those below one whose own
\* close() raised and so ended the rollback (registry.py 56-84): in the code these
\* stay connected, though docs/ARCHITECTURE.md:182 promises that they are closed.
StartIsWhole ==
  /\ tools \in {{}, Servers} /\ (~started => tools = {})
  /\ started /\ task[Quit] \notin InClose => tools = Servers /\ link = Servers
  /\ task[Boot] = "failed" => \A s \in link \cup server : \E r \in torn : s < r

\* close() ends with every server closed, also when one of them raises; only
\* the one that raised may still be running (registry.py 86-104).
ClosedMeansClosed ==
  [][task[Quit] \in InClose /\ task'[Quit] \in Stopped
       => ~started' /\ link' = {} /\ server' = {} /\ stray' \subseteq torn']_vars

\* Every call of bash ends, even when a process outside the group keeps its
\* output open: the tool's deadline covers the second communicate too.
CallsEnd == \A c \in Calls : call[c] \in Running ~> call[c] \notin Running

\* However the process is left, during a start that waits for a silent server or
\* with a command running, it ends (tui/app.py _shutdown_runtime, exec_cmd.py).
ProcessEndsWhenLeft == phase = "closing" ~> phase = "ended"

\* Neither a command nor a server can hold the process up for ever.
NothingHangs == CallsEnd /\ ProcessEndsWhenLeft

-----------------------------------------------------------------------------
(* What the documentation says and does not hold *)

\* docs/ARCHITECTURE.md:87: no tool work outlives the deadline of its turn.
NothingOutlivesItsTurn ==
  \A c \in Calls : call[c] = "cancelled" => alive[c] = {}

=============================================================================
