------------------------------ MODULE Commands ------------------------------
(***************************************************************************)
(* The commands of the bash tool and the processes they leave: BashTool,    *)
(* the four sandbox backends and the helpers they share.                    *)
(*                                                                         *)
(* A call starts a leader (the shell, bwrap, sandbox-exec, or the docker    *)
(* client), waits for the end of its output and of the leader, kills its    *)
(* process group when the command's own timeout expires, and answers.  The  *)
(* processes are external: the leader may put others in its group or in a   *)
(* session of their own, with or without the output pipe, and each ends     *)
(* when it likes.  The runner may give the call up at any suspension (the   *)
(* tool's deadline), and so may the turn (its deadline, an interrupt).      *)
(***************************************************************************)
EXTENDS Naturals, FiniteSets

CONSTANTS
  Calls,     \* calls of the bash tool; they run one at a time
  Backends   \* the backends a configuration may have built

AllBackends == {"process", "seatbelt", "bubblewrap", "docker"}

ASSUME CommandsAssumption == Backends \subseteq AllBackends

VARIABLES
  backend,  \* the backend of the runtime
  call,     \* where a call is
  result,   \* its result, once it has one
  alive,    \* the processes of a call that are running
  pipe,     \* those of them that hold its output open
  exit,     \* the status its leader ended with
  timedOut, \* whether its own timeout has expired
  container \* what docker has done with its container

commandVars == <<backend, call, result, alive, pipe, exit, timedOut, container>>

Processes == {"leader", "group", "escaped", "container"}
Running == {"starting", "running", "killing", "removing"}
Results == {"refused", "backend_error", "ok", "failed", "timed_out", "tool_timeout", "tool_error"}

CommandsTypeOK ==
  /\ backend \in Backends
  /\ call \in [Calls -> Running \cup {"idle", "done", "cancelled"}]
  /\ result \in [Calls -> Results \cup {"none"}]
  /\ alive \in [Calls -> SUBSET Processes]
  /\ pipe \in [Calls -> SUBSET Processes]
  /\ exit \in [Calls -> {"none", "zero", "nonzero", "engine"}]
  /\ timedOut \in [Calls -> BOOLEAN]
  /\ container \in [Calls -> {"none", "started", "removed", "kept"}]

CommandsInit ==
  /\ backend \in Backends
  /\ call = [c \in Calls |-> "idle"]
  /\ result = [c \in Calls |-> "none"]
  /\ alive = [c \in Calls |-> {}]
  /\ pipe = [c \in Calls |-> {}]
  /\ exit = [c \in Calls |-> "none"]
  /\ timedOut = [c \in Calls |-> FALSE]
  /\ container = [c \in Calls |-> "none"]

-----------------------------------------------------------------------------
(* Helpers *)

\* The temporary home is removed before the result is built; what still runs may
\* be writing to it, and the removal then fails with an OSError.
CleanUpFails(c) == backend # "docker" /\ alive[c] # {}

Answer(c, r) == /\ call' = [call EXCEPT ![c] = "done"]
                /\ result' = [result EXCEPT ![c] = r]

\* The processes ps of a call end, and let go of its output.
Gone(c, ps) == /\ alive' = [alive EXCEPT ![c] = @ \ ps]
               /\ pipe' = [pipe EXCEPT ![c] = @ \ ps]

LeaderAlone == {"leader"}  \* mutant: bwrap without --die-with-parent

\* What ends with a leader: bwrap takes its pid namespace with it.
WithLeader == IF backend = "bubblewrap" THEN Processes ELSE {"leader"}

KilledLeaderOnly == WithLeader  \* mutant: process.kill() instead of os.killpg()

\* What kill_process_group reaches: a container is not in the client's group.
Killed == WithLeader \cup {"group"}

\* What a call answers once its output and its leader have ended.
Verdict(c) ==
  IF timedOut[c] THEN "timed_out"
  ELSE IF exit[c] = "engine" /\ backend = "docker" THEN "backend_error"
  ELSE IF exit[c] = "zero" THEN "ok" ELSE "failed"

LeaderGone(c) == "leader" \notin alive[c]  \* mutant: wait() instead of communicate()

Finished(c) == "leader" \notin alive[c] /\ pipe[c] = {}

-----------------------------------------------------------------------------
(* The call *)

\* Serial tools run one at a time; a denied command, or one that needs an
\* approval it does not have (approval policy "never"), is not started, and a
\* leader that cannot be started is an error of the backend.
Start(c) ==
  /\ call[c] = "idle" /\ \A d \in Calls : call[d] \notin Running
  /\ \/ \E r \in {"refused", "backend_error"} : Answer(c, r) /\ UNCHANGED <<alive, pipe>>
     \/ /\ call' = [call EXCEPT ![c] = "starting"]
        /\ alive' = [alive EXCEPT ![c] = {"leader"}]
        /\ pipe' = [pipe EXCEPT ![c] = {"leader"}]
        /\ UNCHANGED result
  /\ UNCHANGED <<backend, exit, timedOut, container>>

\* The event loop has connected the pipes of the new process.
Connected(c) ==
  /\ call[c] = "starting"
  /\ call' = [call EXCEPT ![c] = "running"]
  /\ UNCHANGED <<backend, result, alive, pipe, exit, timedOut, container>>

CommunicateReturns(c) ==
  /\ call[c] = "running" /\ Finished(c)
  /\ \/ Answer(c, Verdict(c))
     \/ CleanUpFails(c) /\ Answer(c, "tool_error")
  /\ UNCHANGED <<backend, alive, pipe, exit, timedOut, container>>

\* The command's own timeout: the group is killed, also when its leader has
\* ended already.
Timeout(c) ==
  /\ call[c] = "running"
  /\ call' = [call EXCEPT ![c] = "killing"]
  /\ timedOut' = [timedOut EXCEPT ![c] = TRUE]
  /\ exit' = IF "leader" \in alive[c] THEN [exit EXCEPT ![c] = "nonzero"] ELSE exit
  /\ Gone(c, Killed)
  /\ UNCHANGED <<backend, result, container>>

\* _force_remove follows a timeout under docker only.
Collect(c) == IF backend = "docker"
              THEN call' = [call EXCEPT ![c] = "removing"] /\ UNCHANGED result
              ELSE \/ Answer(c, Verdict(c))
                   \/ CleanUpFails(c) /\ Answer(c, "tool_error")

\* The second communicate has no timeout of its own.
KilledReturns(c) ==
  /\ call[c] = "killing" /\ Finished(c)
  /\ Collect(c)
  /\ UNCHANGED <<backend, alive, pipe, exit, timedOut, container>>

\* docker rm --force: it removes the container, or fails or takes longer than
\* five seconds, which nobody is told.
ForceRemove(c) ==
  /\ call[c] = "removing"
  /\ \/ container' = [container EXCEPT ![c] = "removed"] /\ Gone(c, {"container"})
     \/ container' = [container EXCEPT ![c] = "kept"] /\ UNCHANGED <<alive, pipe>>
  /\ Answer(c, Verdict(c))
  /\ UNCHANGED <<backend, exit, timedOut>>

-----------------------------------------------------------------------------
(* The call is given up: execute() is cancelled where it waits, and only a   *)
(* process whose pipes are not connected yet is killed, by asyncio.          *)

Abandon(c) ==
  /\ call[c] \in Running
  /\ IF call[c] = "starting" /\ "leader" \in alive[c]
       THEN exit' = [exit EXCEPT ![c] = "nonzero"] /\ Gone(c, WithLeader)
       ELSE UNCHANGED <<alive, pipe, exit>>
  /\ UNCHANGED <<backend, timedOut, container>>

\* mutant: the second communicate shields itself from the deadline
ToolDeadlineUnlessKilling(c) == call[c] = "running" /\ Abandon(c) /\ Answer(c, "tool_timeout")

\* The removal of the temporary home raises in place of the cancellation, and the
\* runner answers that error: the turn goes on, whoever cancelled.
CancellationLost(c) == Abandon(c) /\ CleanUpFails(c)' /\ Answer(c, "tool_error")

\* The deadline the runner puts on every tool: the turn goes on.
ToolDeadline(c) == CancellationLost(c) \/ (Abandon(c) /\ Answer(c, "tool_timeout"))

\* An interrupt, a close or the turn's deadline.
CancelCall(c) ==
  /\ Abandon(c)
  /\ call' = [call EXCEPT ![c] = "cancelled"]
  /\ UNCHANGED result

-----------------------------------------------------------------------------
(* The processes *)

\* A background process: in the group of the leader, or in its own session.
Fork(c) ==
  /\ "leader" \in alive[c] /\ backend # "docker"
  /\ \E p \in {"group", "escaped"} \ alive[c] :
       /\ alive' = [alive EXCEPT ![c] = @ \cup {p}]
       /\ \/ pipe' = [pipe EXCEPT ![c] = @ \cup {p}]
          \/ UNCHANGED pipe
  /\ UNCHANGED <<backend, call, result, exit, timedOut, container>>

\* The docker client has the engine start a container, once.
ContainerStarts(c) ==
  /\ backend = "docker" /\ "leader" \in alive[c] /\ container[c] = "none"
  /\ alive' = [alive EXCEPT ![c] = @ \cup {"container"}]
  /\ container' = [container EXCEPT ![c] = "started"]
  /\ UNCHANGED <<backend, call, result, pipe, exit, timedOut>>

\* The client waits for the container it has started; an engine that cannot
\* run one makes it end with 125.
LeaderEnds(c) ==
  /\ "leader" \in alive[c] /\ "container" \notin alive[c]
  /\ \E status \in {"zero", "nonzero", "engine"} : exit' = [exit EXCEPT ![c] = status]
  /\ Gone(c, WithLeader)
  /\ UNCHANGED <<backend, call, result, timedOut, container>>

ProcessEnds(c) ==
  /\ \E p \in alive[c] \ {"leader"} : Gone(c, {p})
  /\ UNCHANGED <<backend, call, result, exit, timedOut, container>>

CallStep(c) ==
  \/ Start(c) \/ Connected(c) \/ CommunicateReturns(c) \/ Timeout(c)
  \/ KilledReturns(c) \/ ForceRemove(c) \/ ToolDeadline(c)
ProcessStep(c) == Fork(c) \/ ContainerStarts(c) \/ LeaderEnds(c) \/ ProcessEnds(c)
=============================================================================
