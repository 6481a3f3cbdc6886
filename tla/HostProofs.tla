----------------------------- MODULE HostProofs -----------------------------
(***************************************************************************)
(* Theorems of Host: what a command leaves behind it, and the registry of   *)
(* tools, for any number of calls and servers.                             *)
(***************************************************************************)
EXTENDS Host, TLAPS

-----------------------------------------------------------------------------
(* The invariants *)

\* A call has its result exactly when it is done; the leader cannot end without
\* a status; the command's own timeout leaves nothing of the group.
CallInv(c) ==
  /\ result[c] # "none" <=> call[c] = "done"
  /\ call[c] = "idle" => alive[c] = {} /\ ~timedOut[c]
  /\ call[c] \in Running /\ "leader" \notin alive[c] => exit[c] # "none"
  /\ call[c] \in {"starting", "running"} => ~timedOut[c]
  /\ call[c] \in {"killing", "removing"} => timedOut[c]
  /\ timedOut[c] => alive[c] \cap {"leader", "group"} = {}
  /\ call[c] = "removing" => backend = "docker" /\ pipe[c] = {} /\ exit[c] # "none"

\* What each backend lets live.
BackendInv(c) ==
  /\ pipe[c] \subseteq alive[c] \ {"container"}
  /\ backend = "docker" => alive[c] \subseteq {"leader", "container"}
  /\ backend # "docker" => "container" \notin alive[c]
  /\ backend = "bubblewrap" /\ alive[c] # {} => "leader" \in alive[c]
  /\ "container" \in alive[c] => container[c] \in {"started", "kept"}
  /\ "container" \in alive[c] /\ "leader" \notin alive[c] =>
       timedOut[c] \/ result[c] = "tool_timeout" \/ call[c] = "cancelled"

ResultInv(c) ==
  /\ result[c] = "timed_out" => timedOut[c] /\ ("container" \in alive[c] => container[c] = "kept")
  /\ result[c] \in {"ok", "failed"} =>
       /\ "leader" \notin alive[c] /\ pipe[c] = {} /\ exit[c] # "none"
       /\ "container" \notin alive[c]

CommandsInv == \A c \in Calls : CallInv(c) /\ BackendInv(c) /\ ResultInv(c)

\* One call at a time, and only while the turn runs.
TurnInv ==
  /\ turn # "running" => Idle
  /\ \A c, d \in Calls : call[c] \in Running /\ call[d] \in Running => c = d

\* The registry while its start is on its way, and when it has ended.
StartInv ==
  /\ task[Boot] \notin InClose
  /\ task[Boot] \in {"idle", "waiting", "launch", "handshake", "list"} =>
       stray = {} /\ torn = {}
  /\ task[Boot] \in {"idle", "waiting"} => link = {} /\ server = {}
  /\ task[Boot] \in {"launch", "handshake", "list"} =>
       /\ at[Boot] \in 1..ServerCount + 1
       /\ link = 1..(at[Boot] - 1)
  /\ task[Boot] = "launch" => server \subseteq 1..(at[Boot] - 1)
  /\ task[Boot] \in {"handshake", "list"} =>
       at[Boot] \in Servers /\ server \subseteq 1..at[Boot]
  /\ task[Boot] = "rollback" =>
       at[Boot] \in Servers /\ link \subseteq 1..at[Boot] /\ server \subseteq 1..at[Boot]
  /\ task[Boot] = "failed" => \A s \in link \cup server : \E r \in torn : s < r

\* A start that has ended well, and the close that undoes it.
StartedInv ==
  /\ started => task[Boot] = "done"
  /\ ~started => tools = {}
  /\ started /\ task[Quit] \notin InClose =>
       tools = Servers /\ link = Servers /\ stray = {} /\ torn = {}

CloseInv ==
  /\ task[Quit] \notin {"launch", "handshake", "list", "rollback", "cancelled"}
  /\ task[Quit] \in InClose =>
       /\ started /\ tools = {}
       /\ at[Quit] \in 0..ServerCount
       /\ link \subseteq 1..at[Quit] /\ server \subseteq 1..at[Quit] /\ stray \subseteq torn

RegistryInv == StartInv /\ StartedInv /\ CloseInv

IInv == TypeOK /\ CommandsInv /\ TurnInv /\ RegistryInv

-----------------------------------------------------------------------------
(* The commands *)

\* Nothing of call d changes.
Untouched(d) ==
  /\ backend' = backend /\ call'[d] = call[d] /\ result'[d] = result[d]
  /\ alive'[d] = alive[d] /\ pipe'[d] = pipe[d] /\ exit'[d] = exit[d]
  /\ timedOut'[d] = timedOut[d] /\ container'[d] = container[d]

\* What a step of call c does to the types, to c, and to the others.
Kept(c) ==
  /\ CommandsTypeOK'
  /\ CallInv(c)' /\ BackendInv(c)' /\ ResultInv(c)'
  /\ \A d \in Calls \ {c} : Untouched(d)

CallFacts(c) == CommandsTypeOK /\ CallInv(c) /\ BackendInv(c) /\ ResultInv(c)

LEMMA OthersKept ==
  ASSUME CommandsInv, NEW c \in Calls, Kept(c)
  PROVE  CommandsInv'
  BY DEF CommandsInv, Kept, Untouched, CallInv, BackendInv, ResultInv

LEMMA StartKeeps ==
  ASSUME NEW c \in Calls, CallFacts(c), Start(c)
  PROVE  Kept(c)
  BY DEF CallFacts, CommandsTypeOK, CallInv, BackendInv, ResultInv, Kept, Untouched, Start, Answer,
         Running, Results, Processes

LEMMA ConnectedKeeps ==
  ASSUME NEW c \in Calls, CallFacts(c), Connected(c)
  PROVE  Kept(c)
  BY DEF CallFacts, CommandsTypeOK, CallInv, BackendInv, ResultInv, Kept, Untouched, Connected,
         Running, Results, Processes

LEMMA CommunicateKeeps ==
  ASSUME NEW c \in Calls, CallFacts(c), CommunicateReturns(c)
  PROVE  Kept(c)
  BY DEF CallFacts, CommandsTypeOK, CallInv, BackendInv, ResultInv, Kept, Untouched,
         CommunicateReturns, Answer, Verdict, Finished, Running, Results, Processes

LEMMA TimeoutKeeps ==
  ASSUME NEW c \in Calls, CallFacts(c), Timeout(c)
  PROVE  Kept(c)
  BY DEF CallFacts, CommandsTypeOK, CallInv, BackendInv, ResultInv, Kept, Untouched, Timeout, Gone,
         Killed, WithLeader, Running, Results, Processes

LEMMA KilledKeeps ==
  ASSUME NEW c \in Calls, CallFacts(c), KilledReturns(c)
  PROVE  Kept(c)
  BY DEF CallFacts, CommandsTypeOK, CallInv, BackendInv, ResultInv, Kept, Untouched, KilledReturns,
         Collect, Answer, Verdict, Finished, Running, Results, Processes

LEMMA RemoveKeeps ==
  ASSUME NEW c \in Calls, CallFacts(c), ForceRemove(c)
  PROVE  Kept(c)
  <1>1. timedOut[c] /\ call[c] = "removing"
    BY DEF ForceRemove, CallFacts, CallInv
  <1>2. Verdict(c) = "timed_out"
    BY <1>1 DEF Verdict
  <1>3. Answer(c, "timed_out")
    BY <1>2 DEF ForceRemove
  <1>4. /\ \/ container' = [container EXCEPT ![c] = "removed"] /\ Gone(c, {"container"})
           \/ container' = [container EXCEPT ![c] = "kept"] /\ UNCHANGED <<alive, pipe>>
        /\ UNCHANGED <<backend, exit, timedOut>>
    BY DEF ForceRemove
  <1>5. CASE container' = [container EXCEPT ![c] = "removed"] /\ Gone(c, {"container"})
    BY <1>1, <1>3, <1>4, <1>5 DEF CallFacts, CommandsTypeOK, CallInv, BackendInv, ResultInv, Kept,
       Untouched, Gone, Answer, Running, Results, Processes
  <1>6. CASE container' = [container EXCEPT ![c] = "kept"] /\ UNCHANGED <<alive, pipe>>
    BY <1>1, <1>3, <1>4, <1>6 DEF CallFacts, CommandsTypeOK, CallInv, BackendInv, ResultInv, Kept,
       Untouched, Answer, Running, Results, Processes
  <1> QED
    BY <1>4, <1>5, <1>6

LEMMA DeadlineKeeps ==
  ASSUME NEW c \in Calls, CallFacts(c), ToolDeadline(c)
  PROVE  Kept(c)
  BY DEF CallFacts, CommandsTypeOK, CallInv, BackendInv, ResultInv, Kept, Untouched, ToolDeadline,
         CancellationLost, CleanUpFails, Abandon, Gone, Answer, WithLeader, Running, Results, Processes

LEMMA CancelKeeps ==
  ASSUME NEW c \in Calls, CallFacts(c), CancelCall(c)
  PROVE  Kept(c)
  BY DEF CallFacts, CommandsTypeOK, CallInv, BackendInv, ResultInv, Kept, Untouched, CancelCall,
         Abandon, Gone, WithLeader, Running, Results, Processes

LEMMA ProcessKeeps ==
  ASSUME NEW c \in Calls, CallFacts(c), ProcessStep(c)
  PROVE  Kept(c)
  <1>1. CASE Fork(c)
    BY <1>1 DEF CallFacts, CommandsTypeOK, CallInv, BackendInv, ResultInv, Kept, Untouched, Fork,
                Running, Results, Processes
  <1>2. CASE ContainerStarts(c)
    BY <1>2 DEF CallFacts, CommandsTypeOK, CallInv, BackendInv, ResultInv, Kept, Untouched,
                ContainerStarts, Running, Results, Processes
  <1>3. CASE LeaderEnds(c)
    BY <1>3 DEF CallFacts, CommandsTypeOK, CallInv, BackendInv, ResultInv, Kept, Untouched,
                LeaderEnds, Gone, WithLeader, Running, Results, Processes
  <1>4. CASE ProcessEnds(c)
    BY <1>4 DEF CallFacts, CommandsTypeOK, CallInv, BackendInv, ResultInv, Kept, Untouched,
                ProcessEnds, Gone, Running, Results, Processes
  <1> QED
    BY <1>1, <1>2, <1>3, <1>4 DEF ProcessStep

\* A step of the turn's calls, of the processes, or the end of a turn with its call.
LEMMA CallStepKeeps ==
  ASSUME CommandsTypeOK, CommandsInv, NEW c \in Calls,
         CallStep(c) \/ CancelCall(c) \/ ProcessStep(c)
  PROVE  CommandsTypeOK' /\ CommandsInv'
  <1>1. CallFacts(c)
    BY DEF CallFacts, CommandsInv
  <1>2. Kept(c)
    BY <1>1, StartKeeps, ConnectedKeeps, CommunicateKeeps, TimeoutKeeps, KilledKeeps, RemoveKeeps,
       DeadlineKeeps, CancelKeeps, ProcessKeeps DEF CallStep
  <1> QED
    BY <1>2, OthersKept DEF Kept

LEMMA CommandsUntouched ==
  ASSUME CommandsTypeOK, CommandsInv, UNCHANGED commandVars
  PROVE  CommandsTypeOK' /\ CommandsInv'
  BY DEF CommandsTypeOK, CommandsInv, CallInv, BackendInv, ResultInv, commandVars

LEMMA ExitKeeps ==
  ASSUME TypeOK, CommandsInv, TurnInv, Exit
  PROVE  CommandsTypeOK' /\ CommandsInv'
  <1>1. \A c \in Calls : call[c] \notin Running
    BY DEF Exit, TurnInv, Idle
  <1>2. UNCHANGED <<backend, call, result, exit, timedOut, container>>
    BY DEF Exit
  <1>3. CASE UNCHANGED <<alive, pipe>>
    BY <1>2, <1>3, CommandsUntouched DEF TypeOK, commandVars
  <1>4. CASE /\ backend = "bubblewrap"
             /\ alive' = [c \in Calls |-> {}] /\ pipe' = [c \in Calls |-> {}]
    <2>1. CommandsTypeOK'
      BY <1>2, <1>4 DEF TypeOK, CommandsTypeOK
    <2>2. ASSUME NEW c \in Calls
          PROVE  CallInv(c)' /\ BackendInv(c)' /\ ResultInv(c)'
      BY <1>1, <1>2, <1>4 DEF CommandsInv, CallInv, BackendInv, ResultInv, Running
    <2> QED
      BY <2>1, <2>2 DEF CommandsInv
  <1> QED
    BY <1>3, <1>4 DEF Exit

LEMMA CommandsKeep ==
  ASSUME IInv, [Next]_vars
  PROVE  CommandsTypeOK' /\ CommandsInv'
  <1> USE DEF IInv, TypeOK
  <1>1. CASE UNCHANGED commandVars
    BY <1>1, CommandsUntouched
  <1>2. CASE \E c \in Calls : CallStep(c) \/ CancelCall(c) \/ ProcessStep(c)
    BY <1>2, CallStepKeeps
  <1>3. CASE Exit
    BY <1>3, ExitKeeps
  <1>4. UNCHANGED commandVars \/ Exit \/ \E c \in Calls : CallStep(c) \/ CancelCall(c) \/ ProcessStep(c)
    BY DEF Next, vars, BootCalls, BootStep, TurnStarts, TurnStops, TurnCalls, Outside, ExecFinishes,
       ExecInterrupted, TuiQuits, ThreadShutDown, CloseRuntime, Leave, BootCancelled, Ended
  <1> QED
    BY <1>1, <1>2, <1>3, <1>4

\* One call runs at a time, and none when the turn is over.
LEMMA TurnKeeps ==
  ASSUME IInv, [Next]_vars
  PROVE  TurnInv'
  <1> USE DEF IInv, TypeOK
  <1>1. CASE \E c \in Calls : TurnCalls(c)
    <2>1. PICK c \in Calls : turn = "running" /\ turn' = turn /\ CallStep(c)
      BY <1>1 DEF TurnCalls, hostVars
    <2>2. /\ \A d \in Calls \ {c} : call'[d] = call[d]
          /\ call[c] \in Running \/ \A d \in Calls : call[d] \notin Running
      BY <2>1 DEF CallStep, Start, Connected, CommunicateReturns, Timeout, KilledReturns, Collect,
         ForceRemove, ToolDeadline, CancellationLost, Abandon, Answer, Running, CommandsTypeOK
    <2> QED
      BY <2>1, <2>2 DEF TurnInv
  <1>2. CASE TurnStops
    <2>1. CASE Idle /\ UNCHANGED commandVars
      BY <1>2, <2>1 DEF TurnInv, Idle, commandVars
    <2>2. ASSUME NEW c \in Calls, CancelCall(c)
          PROVE  TurnInv'
      <3>1. call[c] \in Running /\ call' = [call EXCEPT ![c] = "cancelled"]
        BY <2>2 DEF CancelCall, Abandon
      <3>2. \A d \in Calls : call'[d] \notin Running
        BY <3>1 DEF TurnInv, CommandsTypeOK, Running
      <3> QED
        BY <3>2 DEF TurnInv, Idle
    <2> QED
      BY <1>2, <2>1, <2>2 DEF TurnStops
  <1>3. CASE call' = call /\ (turn' = turn \/ turn' = "running")
    BY <1>3 DEF TurnInv, Idle
  <1>4. (\E c \in Calls : TurnCalls(c)) \/ TurnStops \/ (call' = call /\ (turn' = turn \/ turn' = "running"))
    BY DEF Next, vars, commandVars, hostVars, BootCalls, BootStep, TurnStarts, Outside, ProcessStep,
       Fork, ContainerStarts, LeaderEnds, ProcessEnds, ExecFinishes, ExecInterrupted, TuiQuits,
       ThreadShutDown, CloseRuntime, Leave, BootCancelled, Exit, Ended
  <1> QED
    BY <1>1, <1>2, <1>3, <1>4

-----------------------------------------------------------------------------
(* The registry *)

LEMMA TwoTasks == Tasks = {Boot, Quit} /\ Boot # Quit
  BY HostAssumption DEF Tasks, Boot, Quit

\* The servers before s, and those up to s.
LEMMA Below ==
  ASSUME NEW s \in Servers
  PROVE  /\ 1..s \subseteq Servers /\ 1..(s - 1) \subseteq Servers /\ s - 1 \in 0..ServerCount
         /\ \A S \in SUBSET (1..s) : S \ {s} \subseteq 1..(s - 1)
         /\ \A S \in SUBSET (1..(s - 1)) : S \cup {s} \subseteq 1..s
  BY RegistryAssumption DEF Servers

LEMMA ClosesOne ==
  ASSUME NEW s \in Servers, link \subseteq 1..s, server \subseteq 1..s,
         stray \subseteq Servers, torn \subseteq Servers,
         (CloseServer(s) /\ UNCHANGED <<stray, torn>>) \/ CloseRaises(s)
  PROVE  /\ link' \subseteq 1..(s - 1) /\ server' \subseteq 1..(s - 1)
         /\ stray' \subseteq Servers /\ torn' \subseteq Servers
         /\ stray \subseteq torn => stray' \subseteq torn'
  <1>1. link' = link \ {s} /\ server' = server \ {s}
    BY DEF CloseServer, CloseRaises
  <1>2. stray' \subseteq stray \cup {s} /\ torn \subseteq torn' /\ torn' \subseteq torn \cup {s}
    BY DEF CloseServer, CloseRaises
  <1>3. stray' # stray => s \in torn'
    BY DEF CloseRaises
  <1> QED
    BY <1>1, <1>2, <1>3, Below

LEMMA CancelledLeaves ==
  ASSUME RegistryTypeOK, NEW t \in Tasks, CancelTask(t)
  PROVE  /\ link' \subseteq Servers /\ server' \subseteq Servers
         /\ stray' \subseteq Servers /\ torn' \subseteq Servers
  <1>1. CASE at[t] \in Servers
    <2>1. 1..at[t] \subseteq Servers /\ 1..(at[t] - 1) \subseteq Servers
      BY <1>1, Below
    <2>2. /\ link' \subseteq link /\ server' \subseteq server /\ stray' \subseteq stray \cup server
          /\ torn' \subseteq torn \cup 1..at[t] \/ torn' \subseteq torn \cup 1..(at[t] - 1)
      BY DEF CancelTask, CloseServer
    <2> QED
      BY <2>1, <2>2 DEF RegistryTypeOK
  <1>2. CASE at[t] \notin Servers
    BY <1>2 DEF CancelTask, RegistryTypeOK, Inside, InClose
  <1> QED
    BY <1>1, <1>2

RegistryFacts == RegistryTypeOK /\ RegistryInv
RegistryKept == RegistryTypeOK' /\ RegistryInv'

LEMMA RegistryUntouched ==
  ASSUME RegistryFacts, UNCHANGED registryVars
  PROVE  RegistryKept
  BY DEF RegistryFacts, RegistryKept, RegistryTypeOK, RegistryInv, StartInv, StartedInv, CloseInv,
     registryVars

LEMMA CallKeeps ==
  ASSUME RegistryFacts, NEW t \in Tasks, Call(t)
  PROVE  RegistryKept
  BY TwoTasks DEF RegistryFacts, RegistryKept, RegistryTypeOK, RegistryInv, StartInv, StartedInv,
     CloseInv, Call, Goto, Inside, InClose, Stopped, Servers

LEMMA EnterKeeps ==
  ASSUME RegistryFacts, NEW t \in Tasks, Enter(t)
  PROVE  RegistryKept
  <1> USE DEF RegistryFacts, RegistryTypeOK, RegistryInv, StartInv, StartedInv, CloseInv, Enter, Move,
              Goto, Inside, InClose, Stopped, Servers
  <1> USE TwoTasks, HostAssumption, RegistryAssumption
  <1>1. CASE (t \in Starters <=> started) /\ Goto(t, "done") /\ UNCHANGED <<at, tools>>
    <2>1. t = Quit => ~started
      BY <1>1
    <2>2. t = Boot => started
      BY <1>1
    <2> QED
      BY <1>1, <2>1, <2>2 DEF RegistryKept
  <1>2. CASE t \in Starters /\ ~started /\ Opened(t)
    <2>1. t = Boot /\ task' = [task EXCEPT ![Boot] = "launch"] /\ at' = [at EXCEPT ![Boot] = 1]
      BY <1>2 DEF Opened
    <2>2. 1..(at'[Boot] - 1) = {} /\ link' = {} /\ server' = {} /\ stray' = {} /\ torn' = {}
      BY <1>2, <2>1
    <2> QED
      BY <1>2, <2>1, <2>2 DEF Opened, RegistryKept
  <1>3. CASE t \in Closers /\ started /\ Closing(t)
    <2>1. t = Quit /\ task' = [task EXCEPT ![Quit] = "close"] /\ at' = [at EXCEPT ![Quit] = ServerCount]
      BY <1>3 DEF Closing
    <2>2. tools' = {} /\ task[Boot] = "done" /\ stray = {}
      BY <1>3 DEF Closing
    <2> QED
      BY <1>3, <2>1, <2>2 DEF RegistryKept
  <1> QED
    BY <1>1, <1>2, <1>3

LEMMA RegisterKeeps ==
  ASSUME RegistryFacts, NEW t \in Tasks, Register(t)
  PROVE  RegistryKept
  BY TwoTasks, HostAssumption, RegistryAssumption
  DEF RegistryFacts, RegistryKept, RegistryTypeOK, RegistryInv, StartInv, StartedInv, CloseInv,
      Register, Goto, Inside, InClose, Stopped, Servers

LEMMA LaunchKeeps ==
  ASSUME RegistryFacts, NEW t \in Tasks, Launch(t)
  PROVE  RegistryKept
  <1> USE DEF RegistryFacts, RegistryTypeOK, RegistryInv, StartInv, StartedInv, CloseInv, Move, Goto,
              Inside, InClose, Stopped, Servers
  <1> USE TwoTasks, HostAssumption, RegistryAssumption
  <1>1. t = Boot /\ ~started /\ tools = {} /\ task[Quit] \notin InClose
    BY DEF Launch
  <1>2. /\ task[Boot] = "launch" /\ at[Boot] \in Servers /\ stray = {} /\ torn = {}
        /\ link = 1..(at[Boot] - 1) /\ server \subseteq 1..(at[Boot] - 1)
        /\ UNCHANGED <<started, tools, link, stray, torn>>
    BY <1>1 DEF Launch
  <1>3. CASE RollBack(t, at[Boot] - 1) /\ UNCHANGED <<server, pages>>
    <2>1. CASE at[Boot] = 1
      BY <1>1, <1>2, <1>3, <2>1 DEF RollBack, RegistryKept
    <2>2. CASE at[Boot] # 1
      BY <1>1, <1>2, <1>3, <2>2 DEF RollBack, RegistryKept
    <2> QED
      BY <2>1, <2>2
  <1>4. CASE /\ server' = server \cup {at[Boot]} /\ pages' = [pages EXCEPT ![Boot] = 0]
             /\ Goto(Boot, "handshake") /\ UNCHANGED at
    <2>1. server' \subseteq 1..at[Boot]
      BY <1>2, <1>4, Below
    <2> QED
      BY <1>1, <1>2, <1>4, <2>1 DEF RegistryKept
  <1> QED
    BY <1>1, <1>3, <1>4 DEF Launch

LEMMA DisconnectKeeps ==
  ASSUME RegistryFacts, NEW t \in Tasks, task[t] \in {"handshake", "list"}, Disconnect(t)
  PROVE  RegistryKept
  <1> USE DEF RegistryFacts, RegistryTypeOK, RegistryInv, StartInv, StartedInv, CloseInv, Move, Goto,
              Inside, InClose, Stopped, Servers
  <1> USE TwoTasks, HostAssumption, RegistryAssumption
  <1>1. t = Boot /\ ~started /\ tools = {} /\ task[Quit] \notin InClose
    OBVIOUS
  <1>2. /\ at[Boot] \in Servers /\ stray = {} /\ torn = {}
        /\ link = 1..(at[Boot] - 1) /\ server \subseteq 1..at[Boot]
        /\ server' = server \ {at[Boot]} /\ RollBack(Boot, at[Boot] - 1)
        /\ stray' \subseteq Servers
        /\ UNCHANGED <<started, tools, link, pages, torn>>
    BY <1>1 DEF Disconnect
  <1>3. server' \subseteq 1..(at[Boot] - 1)
    BY <1>2, Below
  <1>4. CASE at[Boot] = 1
    BY <1>1, <1>2, <1>4, <1>3 DEF RollBack, RegistryKept
  <1>5. CASE at[Boot] # 1
    BY <1>1, <1>2, <1>5, <1>3 DEF RollBack, RegistryKept
  <1> QED
    BY <1>4, <1>5

LEMMA HandshakeKeeps ==
  ASSUME RegistryFacts, NEW t \in Tasks, Initialized(t) \/ ListPage(t)
  PROVE  RegistryKept
  <1> USE DEF RegistryFacts, RegistryTypeOK, RegistryInv, StartInv, StartedInv, CloseInv, Move, Goto,
              Inside, InClose, Stopped, Servers
  <1> USE TwoTasks, HostAssumption, RegistryAssumption
  <1>1. t = Boot /\ ~started /\ tools = {} /\ task[Quit] \notin InClose
    BY DEF Initialized, ListPage
  <1>2. CASE Initialized(t)
    BY <1>1, <1>2 DEF Initialized, RegistryKept
  <1>3. CASE ListPage(t)
    BY <1>1, <1>3 DEF ListPage, RegistryKept
  <1> QED
    BY <1>2, <1>3

LEMMA ListedKeeps ==
  ASSUME RegistryFacts, NEW t \in Tasks, Listed(t)
  PROVE  RegistryKept
  <1> USE DEF RegistryFacts, RegistryTypeOK, RegistryInv, StartInv, StartedInv, CloseInv, Move, Goto,
              Inside, InClose, Stopped, Servers
  <1> USE TwoTasks, HostAssumption, RegistryAssumption
  <1>1. t = Boot /\ ~started /\ tools = {} /\ task[Quit] \notin InClose
    BY DEF Listed
  <1>2. /\ at[Boot] \in Servers /\ stray = {} /\ torn = {}
        /\ link' = 1..at[Boot] /\ server \subseteq 1..at[Boot]
        /\ UNCHANGED <<started, tools, server, stray, pages, torn>>
    BY <1>1 DEF Listed
  <1>3. CASE Move(Boot, "launch", at[Boot] + 1)
    BY <1>1, <1>2, <1>3 DEF RegistryKept
  <1>4. CASE RollBack(Boot, at[Boot])
    BY <1>1, <1>2, <1>4 DEF RollBack, RegistryKept
  <1> QED
    BY <1>1, <1>3, <1>4 DEF Listed, NameClash

LEMMA RollbackKeeps ==
  ASSUME RegistryFacts, NEW t \in Tasks, RollbackStep(t)
  PROVE  RegistryKept
  <1> USE DEF RegistryFacts, RegistryTypeOK, RegistryInv, StartInv, StartedInv, CloseInv, Move, Goto,
              Inside, InClose, Stopped, Servers
  <1> USE TwoTasks, HostAssumption, RegistryAssumption
  <1>1. t = Boot /\ ~started /\ tools = {} /\ task[Quit] \notin InClose
    BY DEF RollbackStep
  <1>2. /\ at[Boot] \in Servers /\ link \subseteq 1..at[Boot] /\ server \subseteq 1..at[Boot]
        /\ UNCHANGED <<started, tools, pages>>
    BY <1>1 DEF RollbackStep
  <1>3. CASE CloseServer(at[Boot]) /\ RollBack(Boot, at[Boot] - 1) /\ UNCHANGED <<stray, torn>>
    <2>1. link' \subseteq 1..(at[Boot] - 1) /\ server' \subseteq 1..(at[Boot] - 1)
      BY <1>2, <1>3, ClosesOne
    <2>2. CASE at[Boot] = 1
      BY <1>1, <1>2, <1>3, <2>1, <2>2 DEF RollBack, RegistryKept
    <2>3. CASE at[Boot] # 1
      BY <1>1, <1>2, <1>3, <2>1, <2>3 DEF RollBack, RegistryKept
    <2> QED
      BY <2>2, <2>3
  <1>4. CASE CloseRaises(at[Boot]) /\ Goto(Boot, "failed") /\ UNCHANGED at
    <2>1. /\ link' \subseteq Servers /\ server' \subseteq Servers /\ stray' \subseteq Servers
          /\ torn' \subseteq Servers /\ at[Boot] \in torn'
      BY <1>2, <1>4 DEF CloseRaises, CloseServer
    <2>2. \A s \in link' \cup server' : s < at[Boot]
      BY <1>2, <1>4 DEF CloseRaises, CloseServer
    <2> QED
      BY <1>1, <1>2, <1>4, <2>1, <2>2 DEF RegistryKept
  <1> QED
    BY <1>1, <1>3, <1>4 DEF RollbackStep

LEMMA CloseKeeps ==
  ASSUME RegistryFacts, NEW t \in Tasks, CloseStep(t)
  PROVE  RegistryKept
  <1> USE DEF RegistryFacts, RegistryTypeOK, RegistryInv, StartInv, StartedInv, CloseInv, Move, Goto,
              Inside, InClose, Stopped, Servers
  <1> USE TwoTasks, HostAssumption, RegistryAssumption
  <1>1. t = Quit /\ started /\ tools = {} /\ task[Boot] = "done"
    BY DEF CloseStep
  <1>2. /\ task[Quit] \in InClose /\ at[Quit] \in Servers
        /\ link \subseteq 1..at[Quit] /\ server \subseteq 1..at[Quit] /\ stray \subseteq torn
        /\ UNCHANGED <<started, tools, pages>>
    BY <1>1 DEF CloseStep
  <1>3. \E label \in InClose : Move(Quit, label, at[Quit] - 1)
    BY <1>1, <1>2 DEF CloseStep, AfterError
  <1>4. /\ link' \subseteq 1..(at[Quit] - 1) /\ server' \subseteq 1..(at[Quit] - 1)
        /\ stray' \subseteq torn' /\ torn' \subseteq Servers
    <2>1. (CloseServer(at[Quit]) /\ UNCHANGED <<stray, torn>>) \/ CloseRaises(at[Quit])
      BY <1>1 DEF CloseStep
    <2> QED
      BY <1>2, <2>1, ClosesOne
  <1> QED
    BY <1>1, <1>2, <1>3, <1>4 DEF RegistryKept

LEMMA ClosedKeeps ==
  ASSUME RegistryFacts, NEW t \in Tasks, Closed(t)
  PROVE  RegistryKept
  BY TwoTasks, HostAssumption, RegistryAssumption
  DEF RegistryFacts, RegistryKept, RegistryTypeOK, RegistryInv, StartInv, StartedInv, CloseInv,
      Closed, Goto, Inside, InClose, Stopped, Servers

LEMMA CancelBootKeeps ==
  ASSUME RegistryFacts, CancelTask(Boot)
  PROVE  RegistryKept
  <1> USE DEF RegistryFacts, RegistryTypeOK, RegistryInv, StartInv, StartedInv, CloseInv, Move, Goto,
              Inside, InClose, Stopped, Servers
  <1> USE TwoTasks, HostAssumption, RegistryAssumption
  <1>1. ~started /\ tools = {} /\ task[Quit] \notin InClose /\ task[Boot] \notin InClose
    BY DEF CancelTask
  <1>2. task' = [task EXCEPT ![Boot] = "cancelled"] /\ UNCHANGED <<started, tools, at, pages>>
    BY DEF CancelTask
  <1>3. /\ link' \subseteq Servers /\ server' \subseteq Servers
        /\ stray' \subseteq Servers /\ torn' \subseteq Servers
    BY CancelledLeaves
  <1> QED
    BY <1>1, <1>2, <1>3 DEF RegistryKept

LEMMA ServerDeathKeeps ==
  ASSUME RegistryFacts, ServerDies
  PROVE  RegistryKept
  BY DEF RegistryFacts, RegistryKept, RegistryTypeOK, RegistryInv, StartInv, StartedInv, CloseInv,
      ServerDies

LEMMA TaskStepKeeps ==
  ASSUME RegistryFacts, NEW t \in Tasks, TaskStep(t)
  PROVE  RegistryKept
  <1>1. CASE ConnectionFails(t)
    BY <1>1, DisconnectKeeps DEF ConnectionFails
  <1>2. CASE AdaptFails(t)
    BY <1>2, DisconnectKeeps DEF AdaptFails
  <1> QED
    BY <1>1, <1>2, CallKeeps, EnterKeeps, RegisterKeeps, LaunchKeeps, HandshakeKeeps, ListedKeeps,
       RollbackKeeps, CloseKeeps, ClosedKeeps DEF TaskStep

LEMMA RegistryKeeps ==
  ASSUME IInv, [Next]_vars
  PROVE  RegistryTypeOK' /\ RegistryInv'
  <1>1. RegistryFacts
    BY DEF IInv, TypeOK, RegistryFacts
  <1>2. \/ UNCHANGED registryVars \/ ServerDies \/ CancelTask(Boot)
        \/ \E t \in Tasks : TaskStep(t)
    BY TwoTasks DEF Next, vars, BootCalls, BootStep, TurnStarts, TurnStops, TurnCalls, Outside,
       ExecFinishes, ExecInterrupted, TuiQuits, ThreadShutDown, CloseRuntime, Leave, BootCancelled,
       Exit, Ended, TaskStep, registryVars
  <1> QED
    BY <1>1, <1>2, RegistryUntouched, ServerDeathKeeps, CancelBootKeeps, TaskStepKeeps
    DEF RegistryKept

-----------------------------------------------------------------------------
(* The process *)

LEMMA InitInv == Init => IInv
  <1> SUFFICES ASSUME Init PROVE IInv
    OBVIOUS
  <1>1. TypeOK
    <2>1. CommandsTypeOK
      BY DEF Init, CommandsInit, CommandsTypeOK, Running, Results, Processes
    <2>2. RegistryTypeOK
      <3>1. 0 \in 0..ServerCount + 1 /\ 0 \in 0..MaxPages
        BY RegistryAssumption
      <3>2. task \in [Tasks -> Inside \cup Stopped \cup {"idle", "waiting"}]
        BY DEF Init, RegistryInit
      <3>3. at \in [Tasks -> 0..ServerCount + 1] /\ pages \in [Tasks -> 0..MaxPages]
        BY <3>1 DEF Init, RegistryInit
      <3> QED
        BY <3>2, <3>3 DEF Init, RegistryInit, RegistryTypeOK
    <2> QED
      BY <2>1, <2>2 DEF Init, TypeOK
  <1>2. CommandsInv
    BY DEF Init, CommandsInit, CommandsInv, CallInv, BackendInv, ResultInv, Running
  <1>3. TurnInv
    BY DEF Init, CommandsInit, TurnInv, Idle, Running
  <1>4. RegistryInv
    BY TwoTasks DEF Init, RegistryInit, RegistryInv, StartInv, StartedInv, CloseInv, InClose
  <1> QED
    BY <1>1, <1>2, <1>3, <1>4 DEF IInv

LEMMA StepInv == IInv /\ [Next]_vars => IInv'
  <1> SUFFICES ASSUME IInv, [Next]_vars PROVE IInv'
    OBVIOUS
  <1>1. /\ mode' \in Modes
        /\ phase' \in {"open", "stopping", "closing", "leaving", "ended"}
        /\ turn' \in {"none", "running", "over"}
    BY DEF IInv, TypeOK, Next, vars, hostVars, BootCalls, BootStep, TurnStarts, TurnStops, TurnCalls,
       Outside, ExecFinishes, ExecInterrupted, TuiQuits, ThreadShutDown, CloseRuntime, Leave,
       BootCancelled, Exit, Ended
  <1> QED
    BY <1>1, CommandsKeep, TurnKeeps, RegistryKeeps DEF IInv, TypeOK

THEOREM Inductive == Spec => []IInv
  BY InitInv, StepInv, PTL DEF Spec

\* Every reachable state is well typed, for any number of calls, servers and pages (all modules).
THEOREM TypeCorrect == Spec => []TypeOK
  BY Inductive, PTL DEF IInv

\* A call that was answered as timed out leaves no process of its group behind, whenever its leader
\* ended and whatever it had started (sandbox/_execution.py communicate, docker.py _force_remove).
THEOREM TimeoutsKill == Spec => []TimedOutIsGone
  <1>1. IInv => TimedOutIsGone
    BY DEF IInv, CommandsInv, CallInv, ResultInv, TimedOutIsGone
  <1> QED
    BY <1>1, Inductive, PTL

\* bwrap and docker leave no process of a command that has its result (bubblewrap.py, docker.py).
THEOREM SandboxEmpties == Spec => []SandboxIsEmpty
  <1>1. ASSUME IInv, NEW c \in Calls, backend \in {"bubblewrap", "docker"}, result[c] \in {"ok", "failed"}
        PROVE  alive[c] = {}
    <2>1. "leader" \notin alive[c] /\ "container" \notin alive[c]
      BY <1>1 DEF IInv, CommandsInv, ResultInv
    <2> QED
      BY <1>1, <2>1 DEF IInv, CommandsInv, BackendInv
  <1>2. IInv => SandboxIsEmpty
    BY <1>1 DEF SandboxIsEmpty
  <1> QED
    BY <1>2, Inductive, PTL

\* No process can add to an output that has been handed to the model (communicate).
THEOREM OutputsComplete == Spec => []OutputComplete
  <1>1. IInv => OutputComplete
    BY DEF IInv, CommandsInv, ResultInv, OutputComplete
  <1> QED
    BY <1>1, Inductive, PTL

\* A result is final once the model has it: the three statements above together (communicate and
\* the execute methods of the backends).
THEOREM ResultsAreFinal == Spec => []ResultIsFinal
  BY TimeoutsKill, SandboxEmpties, OutputsComplete, PTL DEF ResultIsFinal

\* A tool that can be looked up has a provider with an open session, in the middle of any start,
\* rollback or close too (registry.py 56-104).
THEOREM ToolsServed == Spec => []ToolsHaveServers
  <1>1. IInv => ToolsHaveServers
    BY DEF IInv, RegistryInv, StartedInv, CloseInv, ToolsHaveServers
  <1> QED
    BY <1>1, Inductive, PTL

\* At every step no part of the tools is exposed, a registry that has started is whole, and a start
\* that has failed leaves sessions and servers only below one whose own close raised in the rollback
\* (registry.py 56-84).
THEOREM StartsWhole == Spec => []StartIsWhole
  <1>1. ASSUME IInv PROVE tools \in {{}, Servers} /\ (~started => tools = {})
    BY <1>1 DEF IInv, RegistryInv, StartedInv, CloseInv
  <1>2. ASSUME IInv, started, task[Quit] \notin InClose PROVE tools = Servers /\ link = Servers
    BY <1>2 DEF IInv, RegistryInv, StartedInv
  <1>3. ASSUME IInv, task[Boot] = "failed" PROVE \A s \in link \cup server : \E r \in torn : s < r
    BY <1>3 DEF IInv, RegistryInv, StartInv
  <1>4. IInv => StartIsWhole
    BY <1>1, <1>2, <1>3 DEF StartIsWhole
  <1> QED
    BY <1>4, Inductive, PTL

\* close() ends with every server closed but those whose own close raised (registry.py 86-104).
THEOREM ClosesAll == Spec => ClosedMeansClosed
  <1>1. ASSUME IInv, [Next]_vars, task[Quit] \in InClose, task'[Quit] \in Stopped
        PROVE  ~started' /\ link' = {} /\ server' = {} /\ stray' \subseteq torn'
    <2>1. task[Boot] = "done" /\ Boot # Quit
      BY <1>1, TwoTasks DEF IInv, RegistryInv, StartedInv, CloseInv
    <2>2. task \in [Tasks -> Inside \cup Stopped \cup {"idle", "waiting"}] /\ Quit \in Tasks
      BY <1>1, TwoTasks DEF IInv, TypeOK, RegistryTypeOK
    <2>3. task'[Quit] # task[Quit]
      BY <1>1 DEF InClose, Stopped
    <2>4. TaskStep(Quit)
      BY <1>1, <2>1, <2>2, <2>3 DEF Next, vars, registryVars, BootCalls, BootStep, TurnStarts,
         TurnStops, TurnCalls, Outside, ExecFinishes, ExecInterrupted, TuiQuits, ThreadShutDown,
         CloseRuntime, Leave, BootCancelled, Exit, Ended, TaskStep, Call, Enter, Register, Launch,
         ConnectionFails, AdaptFails, Disconnect, Initialized, ListPage, Listed, NameClash, RollBack,
         RollbackStep, CloseStep, AfterError, Closed, CancelTask, ServerDies, Opened, Closing, Move, Goto
    <2>5. Closed(Quit)
      BY <1>1, <2>2, <2>4 DEF TaskStep, Call, Enter, Register, Launch, ConnectionFails, AdaptFails,
         Initialized, ListPage, Listed, RollbackStep, CloseStep, AfterError, Move, Goto, InClose, Stopped
    <2>6. /\ link \subseteq 1..at[Quit] /\ server \subseteq 1..at[Quit] /\ stray \subseteq torn
          /\ at[Quit] = 0
      BY <1>1, <2>5 DEF IInv, RegistryInv, CloseInv, Closed
    <2> QED
      BY <2>5, <2>6 DEF Closed
  <1>2. IInv /\ [Next]_vars =>
          [task[Quit] \in InClose /\ task'[Quit] \in Stopped
             => ~started' /\ link' = {} /\ server' = {} /\ stray' \subseteq torn']_vars
    BY <1>1
  <1> QED
    BY <1>2, Inductive, PTL DEF Spec, ClosedMeansClosed
=============================================================================
