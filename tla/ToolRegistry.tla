---------------------------- MODULE ToolRegistry ----------------------------
(***************************************************************************)
(* The registry of tools and the MCP servers behind some of them: start(),  *)
(* which connects one server after the other and registers their tools when *)
(* all are connected, and close(), under one lock; MCPStdioProvider's own   *)
(* start and close; servers that are slow, fail, or die.                    *)
(*                                                                         *)
(* The mcp package and the server processes are external. A cancelled task  *)
(* stops where it waits: no `except Exception` sees the cancellation.       *)
(***************************************************************************)
EXTENDS Integers, FiniteSets

CONSTANTS
  ServerCount,  \* configured servers, in their order
  Starters,     \* tasks that call start()
  Closers,      \* tasks that call close()
  MaxPages      \* bound: pages of a tools/list

Servers == 1..ServerCount
Tasks == Starters \cup Closers

ASSUME RegistryAssumption ==
  /\ ServerCount \in Nat /\ MaxPages \in Nat
  /\ Starters \cap Closers = {}

VARIABLES
  started,  \* ToolRegistry._started
  tools,    \* the servers whose tools are registered
  link,     \* the servers whose provider holds a session
  server,   \* the servers that are running, as that session's or a starting one's
  stray,    \* servers running without a provider that knows them
  task,     \* where a task is
  at,       \* the server it is at
  pages,    \* the pages it has listed of it
  torn      \* history: the servers a cancelled task or a failing close has left

registryVars == <<started, tools, link, server, stray, task, at, pages, torn>>

InClose == {"close", "close_error"}
Inside == {"launch", "handshake", "list", "rollback"} \cup InClose
Stopped == {"done", "failed", "cancelled"}

RegistryTypeOK ==
  /\ started \in BOOLEAN
  /\ tools \subseteq Servers /\ link \subseteq Servers
  /\ server \subseteq Servers /\ stray \subseteq Servers /\ torn \subseteq Servers
  /\ task \in [Tasks -> Inside \cup Stopped \cup {"idle", "waiting"}]
  /\ at \in [Tasks -> 0..ServerCount + 1]
  /\ pages \in [Tasks -> 0..MaxPages]

RegistryInit ==
  /\ started = FALSE
  /\ tools = {} /\ link = {} /\ server = {} /\ stray = {} /\ torn = {}
  /\ task = [t \in Tasks |-> "idle"]
  /\ at = [t \in Tasks |-> 0]
  /\ pages = [t \in Tasks |-> 0]

-----------------------------------------------------------------------------
(* Helpers *)

LockFree == \A t \in Tasks : task[t] \notin Inside

Goto(t, label) == task' = [task EXCEPT ![t] = label]
Move(t, label, s) == Goto(t, label) /\ at' = [at EXCEPT ![t] = s]

Opened(t) == Move(t, "launch", 1) /\ UNCHANGED tools
ClosingKeepsTools(t) == Move(t, "close", ServerCount) /\ UNCHANGED tools  \* mutant: tools go last
\* close() takes the tools out before it closes their servers.
Closing(t) == Move(t, "close", ServerCount) /\ tools' = {}

\* An exception of server s: those before it, or it too, are closed in reverse.
RollBack(t, last) == IF last = 0 THEN Goto(t, "failed") /\ UNCHANGED at
                     ELSE Move(t, "rollback", last)

-----------------------------------------------------------------------------
(* The lock *)

Call(t) == task[t] = "idle" /\ Goto(t, "waiting")
           /\ UNCHANGED <<started, tools, link, server, stray, at, pages, torn>>

Enter(t) ==
  /\ task[t] = "waiting" /\ LockFree
  /\ \/ (t \in Starters <=> started) /\ Goto(t, "done") /\ UNCHANGED <<at, tools>>
     \/ t \in Starters /\ ~started /\ Opened(t)
     \/ t \in Closers /\ started /\ Closing(t)
  /\ UNCHANGED <<started, link, server, stray, pages, torn>>

-----------------------------------------------------------------------------
(* start() *)

\* No more servers: what was discovered is registered in one go.
Register(t) ==
  /\ task[t] = "launch" /\ at[t] = ServerCount + 1
  /\ tools' = Servers /\ started' = TRUE
  /\ Goto(t, "done")
  /\ UNCHANGED <<link, server, stray, at, pages, torn>>

\* A provider that holds a session refuses to start; a server may not start.
Launch(t) ==
  LET s == at[t] IN
  /\ task[t] = "launch" /\ s \in Servers
  /\ \/ RollBack(t, s - 1) /\ UNCHANGED <<server, pages>>
     \/ /\ s \notin link
        /\ server' = server \cup {s} /\ pages' = [pages EXCEPT ![t] = 0]
        /\ Goto(t, "handshake") /\ UNCHANGED at
  /\ UNCHANGED <<started, tools, link, stray, torn>>

Reconnect(t) ==  \* mutant: a failed connection is tried again
  /\ server' = server \ {at[t]} /\ Goto(t, "launch")
  /\ UNCHANGED <<started, tools, link, stray, at, pages, torn>>

\* The stack is closed, and with it the server; if that raises, the server may go
\* on. One exception or the other reaches the registry.
Disconnect(t) ==
  /\ server' = server \ {at[t]}
  /\ stray' \in {stray, stray \cup ({at[t]} \cap server)}
  /\ RollBack(t, at[t] - 1)
  /\ UNCHANGED <<started, tools, link, pages, torn>>

\* No answer in time, an error, too many tools, or a cursor seen before.
ConnectionFails(t) == task[t] \in {"handshake", "list"} /\ Disconnect(t)

Initialized(t) ==
  /\ task[t] = "handshake" /\ at[t] \in server
  /\ Goto(t, "list")
  /\ UNCHANGED <<started, tools, link, server, stray, at, pages, torn>>

\* A page with a cursor that is new, below max_tools.
ListPage(t) ==
  /\ task[t] = "list" /\ at[t] \in server /\ pages[t] < MaxPages
  /\ pages' = [pages EXCEPT ![t] = @ + 1]
  /\ UNCHANGED <<started, tools, link, server, stray, task, at, torn>>

\* Two remote names with one local name, or a schema that is none.
AdaptFails(t) == task[t] = "list" /\ at[t] \in server /\ Disconnect(t)

AppendAfterNames(t, s) == RollBack(t, s - 1)  \* mutant: started.append after the names are checked

\* A tool that has the name of another: this server is among the started ones.
NameClash(t, s) == RollBack(t, s)

\* The last page: the provider keeps the session and hands over its tools.
Listed(t) ==
  LET s == at[t] IN
  /\ task[t] = "list" /\ s \in server
  /\ link' = link \cup {s}
  /\ Move(t, "launch", s + 1) \/ NameClash(t, s)
  /\ UNCHANGED <<started, tools, server, stray, pages, torn>>

-----------------------------------------------------------------------------
(* provider.close(): the session is forgotten, then the stack is closed,     *)
(* which may raise with the server ended or not.                             *)

CloseServer(s) == link' = link \ {s} /\ server' = server \ {s}

CloseRaises(s) ==
  /\ s \in link
  /\ CloseServer(s)
  /\ stray' \in {stray, stray \cup ({s} \cap server)} /\ torn' = torn \cup {s}

\* The first exception of a rollback replaces the other and ends it.
RollbackStep(t) ==
  LET s == at[t] IN
  /\ task[t] = "rollback"
  /\ \/ CloseServer(s) /\ RollBack(t, s - 1) /\ UNCHANGED <<stray, torn>>
     \/ CloseRaises(s) /\ Goto(t, "failed") /\ UNCHANGED at
  /\ UNCHANGED <<started, tools, pages>>

StopAtError(t, s) == Move(t, "failed", s)  \* mutant: the first error ends close()

\* close() goes on after an exception, and raises in the end.
AfterError(t, s) == Move(t, "close_error", s - 1)

CloseStep(t) ==
  LET s == at[t] IN
  /\ task[t] \in InClose /\ s # 0
  /\ \/ CloseServer(s) /\ Move(t, task[t], s - 1) /\ UNCHANGED <<stray, torn>>
     \/ CloseRaises(s) /\ AfterError(t, s)
  /\ UNCHANGED <<started, tools, pages>>

Closed(t) ==
  /\ task[t] \in InClose /\ at[t] = 0
  /\ started' = FALSE
  /\ Goto(t, IF task[t] = "close" THEN "done" ELSE "failed")
  /\ UNCHANGED <<tools, link, server, stray, at, pages, torn>>

-----------------------------------------------------------------------------
(* Cancellation, and the servers *)

\* Whoever waits for the lock leaves the queue; inside, the server at hand goes
\* on without its stack, or is what a half-run close has left of it.
CancelTask(t) ==
  LET s == at[t] IN
  /\ task[t] = "waiting" \/ (task[t] \in Inside /\ s \in Servers)
  /\ \/ /\ task[t] \in {"handshake", "list"}
        /\ server' = server \ {s} /\ stray' = stray \cup ({s} \cap server)
        /\ torn' = torn \cup 1..s /\ UNCHANGED link
     \/ /\ task[t] \in {"rollback"} \cup InClose
        /\ CloseServer(s)
        /\ stray' \in {stray, stray \cup ({s} \cap server)} /\ torn' = torn \cup 1..s
     \/ task[t] = "launch" /\ torn' = torn \cup 1..(s - 1) /\ UNCHANGED <<link, server, stray>>
     \/ task[t] = "waiting" /\ UNCHANGED <<link, server, stray, torn>>
  /\ Goto(t, "cancelled")
  /\ UNCHANGED <<started, tools, at, pages>>

\* A server ends by itself; its session stays, and its tools answer with errors.
ServerDies ==
  /\ \/ \E s \in server : server' = server \ {s} /\ UNCHANGED stray
     \/ \E s \in stray : stray' = stray \ {s} /\ UNCHANGED server
  /\ UNCHANGED <<started, tools, link, task, at, pages, torn>>

TaskStep(t) ==
  \/ Call(t) \/ Enter(t) \/ Register(t) \/ Launch(t) \/ ConnectionFails(t) \/ Initialized(t)
  \/ ListPage(t) \/ AdaptFails(t) \/ Listed(t) \/ RollbackStep(t) \/ CloseStep(t) \/ Closed(t)
=============================================================================
