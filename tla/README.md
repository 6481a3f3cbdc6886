# CodeCraft in TLA+

A verification development for CodeCraft, the local coding agent of this
repository (`src/codecraft`, Python on asyncio). It models the parts of the
runtime in which order, cancellation and failure decide what happens, and the
sequential parts whose result a test would hardly pin down; it checks them with
TLC on small instances and proves the most important properties with TLAPS for
every instance. Paths below are relative to `src/codecraft` unless they start
with `docs/` or `README.md`.

Running it, from this directory:

    tlc -config Session_turn.cfg SessionMC      # and the other Session_*.cfg
    tlc -config History_resume.cfg History      # and History_faults.cfg
    tlc -config Approvals_pass.cfg Approvals
    tlc -config Index_pass.cfg RepositoryIndex  # and Index_stale.cfg
    tlc -config Host_pass.cfg Host              # and Host_outlives.cfg
    tlc -config Algorithms_pass.cfg Algorithms
    tlapm SessionProofs.tla     # and HistoryProofs, ApprovalsProofs, RepositoryIndexProofs,
                                # HostProofs, Folding, AlgorithmsProofs, AnswersProofs

## 1. The system

One process holds one or more *sessions*. A client (command line or terminal
UI) talks to a session through an `AgentThread`; the session runs one *turn* at
a time in a background task; a turn alternates between the model provider and
batches of tool calls, which may need the user's approval; everything that
happens is appended as an event to a JSONL log, which is also the only thing a
later process has when it resumes the session.

| Component | State | Operations | Interacts by |
|---|---|---|---|
| **Session** `core/session.py` | `status`, `input_queue`, `_runner_task`, `active_turn`, `seq`, `_closed_event_emitted`, three locks | `submit`, `start_turn_if_idle`, `emit`, `interrupt`, `close`, `wait_until_idle`, `_run_turn` | creates the turn's task, cancels it, waits for it under `shield` |
| **Turn** `core/turn.py` | budget counter, streamed text, the batch | `run`, `_record_tool_calls`, `_run_tool_batch` (serial, or `gather` under a semaphore), `_prepare_model_messages`, `finish`, `abort` | awaits the provider's stream and the tool runner; writes the conversation |
| **SessionStore** `core/session_store.py` | one `.jsonl` file per session | `append_event`, `load_events`, `resume`, listing | file appends that may fail or be cut by a crash |
| **Conversation**, **reconstruction** `core/conversation.py`, `core/reconstruction.py` | list of items | append user / assistant / calls / result, `compact`, `reconstruct_conversation` | live copy for the provider; rebuilt from the log |
| **Runtime, thread, event bus** `core/runtime.py`, `core/thread.py`, `core/event_bus.py` | subscribers, per-thread queue | `create_thread`, `resume_thread`, `submit`, `next_event`, `emit` | queue from session to one client |
| **ToolRunner, approval** `tool/runner.py`, `approval/*` | `pending` futures by approval id | `run` (validate, sandbox, approval, execution, observers), `review`, `decide` | future resolved by a decision that arrives through `Session.submit` |
| **Terminal UI, CLI** `tui/app.py`, `cli/*` | `turn_status`, prompt enabled, dialog, event worker | submit a message, handle an event, show and answer a dialog, `shutdown_thread` | consumes the thread's queue, submits inputs |
| **Tool registry, MCP** `tool/registry.py`, `mcp/client.py` | started flag, tools, providers with their sessions | `start` with rollback, `close`, under one lock | child processes, sessions of MCP servers |
| **Sandbox, command policy** `sandbox/*` | child process or container of a command | run with timeout and output limit; classify a command | operating system, docker |
| **Built-in tools** `tool/builtin/*`, `tool/workspace.py` | the workspace | read, list, search, write, patch, bash | file system |
| **Retrieval** `retrieval/*` | SQLite index, stamps of files | `sync`, `refresh_paths`, searches, routing and fallback, observer after a write | file system, database |
| **Providers** `llm/*` | stream parser | requests, streams to events, usage | network |
| **Evaluation, trace report, config** `eval/*`, `core/trace_report.py`, `config/*` | none kept | batch computations | files |

What is hard here:

* **Cancellation.** One asyncio task per turn, and up to five parties that may
  cancel it: `interrupt`, `close`, the turn deadline, and the approval and tool
  deadlines (`asyncio.timeout` in the same task). A cancellation is only a
  request until the task runs next; it may hit a task that has not started, or
  one that is just delivering another cancellation; and it leaves behind
  whatever the cancelled code had started outside the process.
* **Barriers.** `interrupt` and `close` promise that nothing runs any more when
  they return, and the next queued message starts from the `finally` block of
  the turn that ended.
* **Partial failure.** Every event is a file append that may fail, in the
  middle of a parallel batch, in an exception handler, or after part of the
  line reached the file. A crash may come between any two of them. A start of
  several servers, or a patch of several files, may fail at any of them.
* **Three copies of the history.** Log, sequence number and live conversation
  are written at different points of the code; compaction rewrites one of them.
* **Several actors around one approval.** The runner waits on a future with a
  deadline; the UI reads its events late; the user answers later still, or
  quits; the turn may be gone by then.
* **Files under the reader.** The index stats, reads and stores a file in three
  steps, without a lock on the file and partly without one on the database.

The full list, each at its line and with the properties that cover it, is the
`hazards` list of `PROJECT.json`.

What makes each component correct:

* Session, Turn: one task per session at most; exactly one terminal event for
  each turn that started; `interrupt` and `close` are barriers; nothing starts
  after `close`; queued messages are served; limits on tool calls and on
  concurrency; a cancelled turn goes silent.
* Store, Conversation, Reconstruction: a log can be resumed after any crash or
  failed append that leaves it undamaged; numbering without gaps; what the
  model was shown can be rebuilt; each result follows its call.
* ToolRunner, approval, UI: no call runs without the approval it asked for; one
  decision for each request; the prompt is open only between turns; shutdown
  comes to an end.
* Registry, MCP: a start is all or nothing; a close closes every server; a tool
  that can be called has a session behind it.
* Sandbox, policy: no process of a timed-out command is left, an answer carries
  the whole output, calls end; what is executed has passed every gate.
* Retrieval: no text is taken for fresh that the file does not have; an indexer
  that completes leaves the rows as the files are; a search hides nothing.
* Tools, providers, reports, configuration: a patch applies as written or not
  at all; an answer means the same in every dialect; sums agree with the log.

## 2. Modules

| Module | Models | Role |
|---|---|---|
| `SessionLog` | the promise to readers of the log | abstract specification |
| `Session` | `Session`, `Turn`, `ToolRunner`'s outcomes | detailed specification, implements `SessionLog` |
| `SessionMC` | batches for TLC | instance |
| `SessionProofs` | | theorems about `Session`: the runner slot, closing, the barrier, the limits on tool calls, cancelled turns; it implements `SessionLog` |
| `History` | `SessionStore`, `Session.emit`, `Conversation`, reconstruction, runtime create/resume | specification |
| `HistoryProofs` | | theorems about `History` |
| `Approvals` | `ToolRunner.run`, `ThreadApprovalReviewer`, event queue, `CodeCraftTUI`, `shutdown_thread` | specification of several actors |
| `ApprovalsProofs` | | theorems about `Approvals` |
| `Commands` | `BashTool`'s execution, the sandbox backends, `_execution.py` | actions over its own variables, without a specification |
| `ToolRegistry` | `ToolRegistry.start/close`, `MCPStdioProvider` | the same |
| `Host` | one process: `run_exec`, the UI's runtime worker and `_shutdown_runtime` | composition of `Commands` and `ToolRegistry` |
| `HostProofs` | | theorems about `Host` |
| `RepositoryIndex` | `retrieval/index.py` sync, refresh, search; the observer | specification of several actors |
| `RepositoryIndexProofs` | | theorems about `RepositoryIndex` |
| `ModelStream` | stream and response parsers, usage, chat messages, the turn's loop over events | functions |
| `WorkspaceTools` | unified diff, `apply_patch`, `write_file`, `list_files` | functions |
| `Retrieval` | router, engine, scan, chunker, observer's paths | functions |
| `Governance` | command policy, sandbox effects, approval policy, guard of bash | functions |
| `Reports` | trace report, verdicts, suite, benchmark scores, configuration layers | functions |
| `Algorithms` | | inputs and reference definitions of the five above |
| `Folding` | | lemmas about a loop over a sequence, for any round of it |
| `AlgorithmsProofs` | | theorems about the functions for inputs of every size, and about `Algorithms` |
| `AnswersProofs` | | the same for the streams of the provider |

Definitions whose comment says `mutant` are plausible bugs: each takes the
place of one definition of the same parameters, and some property of a run must
then fail (`mutants` in `PROJECT.json`). They show that the property depends on
the code it is about.

### Session

*State.* `status`, `queue`, `runner`, `closedEventEmitted` are the fields of
`Session` (`input_queue`, `_runner_task`, `_closed_event_emitted`). A turn is
named by its user message. `pc[t]` is where the turn's task is: `created` (the
task is scheduled and has not run), `model` and `batch` (suspended), the
*holding* states between two suspensions, and the ends `done`, `failed` (an
exception left `_run_turn`) and `lost` (cancelled before its first step).
`cancels[t]` are the cancellation requests pending on the task, `due[t]` the
calls whose own deadline fired. `caller[c]` is a task inside `interrupt()` or
`close()`. `log` is the sequence of events.

*Steps.* A coroutine runs undisturbed between two suspension points, so a turn
in a holding state (`Holds`) has the event loop and nobody else moves
(`LoopFree`). Each append is an action of its own all the same, since each can
fail by itself; with `emit`'s lock and a local file an append does not give the
loop away. `StartTurnIfIdle` is one operator used by `Submit` and by `Unwind`,
the finally block. A serial batch runs in the turn's task, a parallel one in
child tasks under the semaphore (`Runs`, `StartCall`); therefore a call's deadline
counts in `Cancelling(t)` only in a serial batch, which is what `interrupt` and
`close` look at before they cancel.

*Environment.* The provider answers, requests a batch of `Batches`, fails,
raises or never answers; approvals and tools the same.

*Abstractions.* Text and arguments are gone; `kind` of a call is what
`_run_tool_batch` distinguishes (read-only without approval, approval needed,
other). Events between `tool_call_started` and `tool_call_finished` are left to
`Approvals`. `wait_until_idle` only reads.

### SessionLog

Turns do not overlap; each is framed by `turn_started` and one terminal event;
a call is recorded before it starts and starts before it finishes; a turn that
finished owes no result; `session_closed` is last. `Session` implements it
(`ImplementsSessionLog`) with the log itself as the refinement mapping, when no
append fails: a terminal event that cannot be written is missing from the log.

### History

*State.* `disk` is the file, line by line; a line is parsed (type, number, item,
snapshot), `torn` (without its end) or `garbage` (text appended to a torn
line). `seq` and `conv` are the running process' copies. `phase` says where the
session is, `down` without a process. `batch`, `recorded`, `answered`,
`orphans` are the tool batch, its results in completion order and the calls
that still run after a sibling failed.

*Steps.* `EmitAs` is `Session.emit`: increment, append, and on failure roll
back; `Landed` is what the append leaves in the file (nothing, half a line, the
whole line, chosen from `Landings`). `AppendIfLogged` puts an item into the
conversation after its event. `Compact` replaces older turns by a summary before
`context_compacted` is appended, as the code does. `ResumeThread` loads the
log with all the checks of `load_events`, takes the last number and rebuilds
the conversation with `Reconstruct`, a recursive function over the lines. `Crash` may come at
any point, also within an append.

*Abstractions.* An item is its role and identity. Events without a
conversation item are left out, so numbers count fewer lines than in the file.
How long a conversation is is a free choice (`ContextMayOverflow`), where the
cut falls is computed as in the code.

### Approvals

*State.* `turn` says where the turn is suspended (model, review, tool,
observers), `future` is the pending future, `cancels` the deadlines and
cancellations since the task's last step. `log` with the index `seen` is the
thread's queue. `status`, `prompt`, `worker`, `request` are the UI; `clicks`
remembers what the user really answered, for the properties; `app` is the
application and its shutdown.

*Steps.* `RunTool` emits the request and registers the future without a
suspension in between. `ReviewEnds` is the task running again after the wait;
`Outcome` is the precedence of asyncio: a cancellation beats the deadline, and
the deadline beats an answer of the same iteration. `HandleEvent` is one turn of
the worker; while it shows a dialog it reads nothing. `SubmitDecision` may find
the request gone: the reviewer raises, the worker fails and Textual ends the
application. `Shutdown`, `SessionCloses`, `Exit` are `_shutdown_runtime`.

*Abstractions.* Whether a call needs approval, is refused or runs at once is a
free choice (`Governance` has the rule). Turns run one at a time and calls in
review are alone, which `Session` shows (`SingleRunner`, `ToolConcurrency`).
Failing appends and tasks lost before their first step are `Session`'s subject.

### Host, Commands, ToolRegistry

*Commands.* A call of bash starts a leader (shell, bwrap, sandbox-exec or the
docker client), whose descendants are one process in its group, one in a session
of its own, or a container; `alive[c]` are those that run, `pipe[c]` those that
hold the output open. `communicate` is `CommunicateReturns` (output and leader
ended), `Timeout` and `KilledReturns` (the group killed, the rest of the output
awaited), `ForceRemove` under docker. The whole is under the runner's deadline
and may be cancelled by the turn (`CancelCall`): then only a process whose pipes
are not connected yet is killed, by asyncio (`Abandon`). On the way out the removal
of the temporary home may raise in place of the cancellation (`CancellationLost`),
and the runner answers that error. What the processes do is external and free.

*ToolRegistry.* `start()` takes the servers in their order: launch, handshake,
pages of tools, then a check of names; an exception rolls back in reverse order.
`close()` takes the tools out first and goes on after an exception. Both hold
the lock across their suspensions (`Inside`). `link` is what the providers
believe, `server` what runs, `stray` a process nobody knows any more; `torn`
records the servers whose disconnection was cancelled or raised. `StartIsWhole`
excuses, after a failed start, the servers below one in `torn` and no others: the
rollback goes downwards and ends at the close that raises (section 4).

*Host.* The process starts the registry with its session, runs a turn that may
call bash, and is left in one of two ways: `exec` by the end of its turn or one
Ctrl-C, which cancels the main task at any suspension and runs the `finally` that
closes the runtime; the UI by quitting, which shuts the thread down if there is
one, closes the runtime and lets the event loop cancel what is left. The
composition matters: the close may meet a start that waits for a silent server,
and the end of the loop meets a call that still runs.

### RepositoryIndex

*State.* `file` is the workspace (kind, stamp, text of each path); `rows` what is
committed, `work` what the open transaction sees, `lock` who has it open.
`pc`, `todo`, `seen` are a run of `codecraft index` (sync) or a refresh by the
observer of a session; `search` is a search between its query and the
validation of its hits. `built` says whether the database has its schema.

*Steps.* An indexer's `Select`, `Stat`, `Read`, `Store` are the four moments at
which it looks at the database or at the file, and files change between any
two of them (`Edit`). A sync holds the write lock from its beginning; a refresh
takes it at its first write and reads rows before that. SQLite is external: one
writer, readers see what is committed, a closed connection rolls back.
`LockTimeout` and `Fail` end an indexer and its transaction.

*Abstractions.* A stamp stands for modification time and size, a text for a
content and its digest, a row for the file's row with chunks and symbols. Every
change gives a new stamp: two changes within the clock's resolution that keep
the size are not seen by the code.

### The sequential parts

`ModelStream`, `WorkspaceTools`, `Retrieval`, `Governance` and `Reports` hold the
functions as folds over their input, in the order of the code, with its early
returns and error paths. `Algorithms` picks one of nineteen subjects and one of
its inputs, evaluates it, and compares with a definition that looks at the
input as a whole. Tokens, paths, contents, ids and arguments are members of
small sets; a command is an executable with flags; a syntax tree is a list of
nodes with their first and last place; a time is a number.

### Composition

The modules about a session meet in the event log. `Session` has the full
interleaving of one session with abstract calls; `Approvals` opens one call up
and adds the user; `History` takes the same events to the disk and back; `Host`
has the process around them and opens up the execution of bash. They share no
variables: what one takes for granted of another is stated above and is a
property of that other module. `Host` is a composition in the narrow sense:
`Commands` and `ToolRegistry` are extended, and its actions are theirs with the
conditions of the process.

## 3. Runs

| Run | Bounds | Shows |
|---|---|---|
| `session_turn` | 1 message, 1 caller, up to 3 calls in the batches {gated}, {read, read, read}, {read, write}, 2 permits, overflow | `LimitsRespected` (budget and concurrency), `QuietWhenReleased`, `CancelledTurnStops`, `ImplementsSessionLog`, `StartedTurnEnds`, `CloseCompletes` |
| `session_two_turns` | 2 messages, 1 caller, 1 gated call each | `SingleRunner`, `AbortReasonIsOwn`, `BarrierReturns`, `NothingStartsAfterClose`, `QueueServed` |
| `session_faults` | 1 message, 2 callers, 2 parallel reads, 1 failed append | `SessionReleased` |
| `session_lost_cancel` | 1 message, 1 caller, 1 gated call | finding 1 |
| `history_resume` | 2 turns, 2 calls, batch of 2, compaction, cancellation, 1 restart or crash | `SameUpToBatchOrder`, `CallsKeepResults` |
| `history_faults` | the same with 2 failed appends that leave nothing or half a line, no compaction | `Resumable`, `SeqFollowsLog`, `LogKnowsConversation` |
| `approvals` | 2 turns, 3 calls, all deadlines, quit at any time | `OnlyApprovedRun`, `RequestsDecided`, `InputLocked`, `StatusFollowsLog`, `RequestsEnd`, `ShutdownEnds` |
| `index` | 2 files, one of them ignored, 1 sync, 1 refresh, 1 search, 2 changes: new text, binary, too large, deletion, touch | `FreshRowsAreCurrent`, `MatchesAreCurrent`, `SyncAgrees`, `RefreshIsExact`, `IndexersEnd` |
| `index_stale` | 1 file, 1 sync, 1 refresh, 1 search, 2 changes, changed back | finding 2 |
| `host` | both ways to run, 4 backends, 1 call of bash, 2 servers, 1 further page | `ResultIsFinal`, `ToolsHaveServers`, `StartIsWhole`, `ClosedMeansClosed`, `NothingHangs` |
| `host_outlives` | the same | finding 3 |
| `algorithms` | streams of 5 chunks, 5 messages, diffs of 4 lines, 3 files of a scan, 4 entries of a directory, files of 5 lines cut into chunks of 3, command lines of 2 pieces, logs of 6 events after the first, 3 layers of tables two deep | `AnswersReachTheTurn`, `ConversationSurvives`, `ChangesAreExact`, `SearchesHideNothing`, `ExecutedMeansGoverned`, `ReportsTellTheRun`, `LastLayerWins` |

A property of a run that is a conjunction (`LimitsRespected`, `CallsKeepResults`,
`ResultIsFinal`, `NothingHangs`, `RefreshIsExact` and four of `Algorithms`) is
made of parts that are named and explained one by one in the module.

Why the bounds are enough for the questions asked. *Session:* three reads on two
permits is the smallest batch in which one call waits for a permit; two messages
give one hand-over, one caller that meets either turn, and a cancellation that
could spill over; two callers are needed only for the close lock and are in the
run with faults. *History:* two turns and two calls give a compaction that drops
a turn with a batch, a restart before, inside or after it; two faults a second
append on a torn line. *Approvals:* three calls give a late answer to an earlier
request while another one is pending, across turns. *Index:* one file that is
indexed shows every interleaving of two indexers and a search over one row, and
the ignored file is the one only a refresh writes and a sync deletes; the second
change comes after the first was noticed. *Host:* the second server is the one
whose failure rolls back the first; a single call has every state a command can
leave, and calls of bash are serial. *Algorithms:* five chunks interleave the
pieces of two calls with text or usage; four lines of a diff give two hunks, or
one with context on both sides; six events hold two turns of which one reuses a
call id; three layers of a section with a key and a table of its own, each a scalar or
a table or missing, give every order in which one covers, merges with or
brings back what another gave.

Deadlock is checked only for `Host`, whose end is a stuttering step. A session
that is idle or closed, a history whose process is down for good, an application
that has ended, an index nobody writes to and an evaluated function stop on
purpose, and so do the counters of the bounds.

### Fairness

`Session` and `Approvals` assume weak fairness of what the event loop runs by
itself: ready tasks, and the timers of deadlines. A call of `interrupt` or
`close` that has started goes on when it can. Nothing is assumed of users,
clients, providers, tools, observers, or of the tool and approval deadlines in
`Session` (`StartedTurnEnds` needs the turn deadline only). In `Approvals` the
approval timer is fair, since it is a timer as well; a worker that failed ends
the application, which Textual does by itself. `RepositoryIndex` is fair to each
indexer, which runs in a thread and waits for the database with SQLite's
timeout; nothing is owed by searches or by those who edit files. `Host` is fair
to the tool's deadline (a timer), to the task of the start as far as it moves
(the server's timeout included, so a silent server ends), to the close of the
runtime and the end of the loop; a command, a server, the model and the user owe
nothing: a call of bash ends by its deadline alone, also when a process outside
the group holds its output open. `History` and `Algorithms` have no liveness
property and no fairness. That `Host` lets a turn stop while the loop is left is
fair because its task has been cancelled by then, or, where that cancellation was
lost in a temporary home, because the turn has its own deadline.

## 4. Findings

Each is a counterexample TLC finds in a run of its own; the code lines and the
sentence they contradict are in `PROJECT.json`.

1. `session_lost_cancel`: `interrupt()`/`close()` while a call's own deadline is
   being delivered. They see `cancelling() != 0`, do not cancel, and the turn
   goes on to its answer.
2. `index_stale`: a refresh reads a file's row before it holds the write lock and
   moves the stamp of whatever row there is later. With a sync in between and a
   file that is changed back, a text the file does not have is taken for fresh,
   and nobody re-reads the file.
   A third indexer does in place of the change back (two refreshes, a sync and
   the edits "text" and "touch"); with two, and texts that do not come back, the
   run `index` shows that rows and matches are current.
3. `host_outlives`: a turn that is interrupted or times out leaves the processes
   of its command running; only the command's own timeout kills them.

Limits of the code met while modelling. The properties respect them, by their
wording or by the instance, and no run is spent on them:

* `close()` or `interrupt()` on a task that has not taken its first step
  (`core/session.py:194`): `_run_turn` never runs, nor does its `finally`; the
  slot stays occupied and `session_closed` is never logged. `pc` = `lost` in
  `Session`; `QueueServed` and `CloseCompletes` say what they exclude.
* One failed append in a parallel batch (`core/turn.py:265`) leaves the sibling
  running in a session that is idle or closed: `QuietWhenReleased` is checked
  without failing appends.
* A cancelled batch leaves calls without results in the conversation, which the
  next turn sends (`core/turn.py:253`, `docs/ARCHITECTURE.md:103`).
* A number that is rolled back although the whole line landed is used twice
  (`core/session.py:167`): excluded by `Landings` of the theorems and runs. A torn line
  that is not the last one makes the log unloadable, which the store documents.
  A failed append of `context_compacted` leaves a compacted conversation that
  the log does not have (`core/turn.py:340`); no run combines the two. The
  rebuilt order of a parallel batch is that of completion
  (`SameUpToBatchOrder`).
* After `turn_aborted` the prompt stays disabled although the session is idle
  (`tui/app.py:291`, `README.md:88`). Quitting while a pending request has just
  been decided makes the rejection raise, and interrupt and close of the session
  are skipped (`cli/runtime_runner.py:46`, `approval/thread_reviewer.py:42`).
* A start that fails closes the servers before the one at fault in reverse order, and
  a close that raises ends that loop: those below keep session and server, close()
  does nothing in a registry that has not started, and a second start() raises
  "MCP server is already started" (`tool/registry.py:77`, `mcp/client.py:52`).
  `docs/ARCHITECTURE.md:182` says that a startup failure closes the providers already
  started. With `task[Boot] = "failed" => link = {}` as the invariant, TLC shows it in
  ten steps: two servers, a clash of names at the second, whose close raises.
* A cancelled start leaves the servers it had connected, and the one at hand,
  for the system to end (`tool/registry.py:62`, `README.md:411`): `torn`. One
  server has no deadline over all the pages of its tools (`mcp/client.py:110`);
  the instance bounds them.
* The output of a timed-out command is awaited without a timeout
  (`sandbox/_execution.py`); only the tool's deadline ends that wait. The removal
  of the temporary home may fail while a process writes to it, and the result is
  lost (`tool_error`). If the call was cancelled, so is the cancellation lost
  (`sandbox/process.py:30`, `tool/runner.py:238`): the turn goes on, and since
  `task.cancelling()` stays non-zero a later `interrupt()` does not cancel it again
  (`core/session.py:182`); it ends by itself or by its deadline. `Host` has this,
  `Session`, where a call has no temporary home, has not.
* Ctrl-C of `exec` cancels the main task and closes the runtime while the turn
  may still run (`cli/runtime_runner.py:40`).
* A sync that commits while a refresh runs may undo it (`retrieval/index.py`): the
  sync has listed the files before a new one was there and waits for the database;
  another sync indexes the file, the refresh finds its row and skips it, and the
  first sync deletes the row of a file it has not listed. `RefreshIsExact` holds with
  one sync, as in the run, and under `SyncsApart` in its theorem. `SyncAgrees` and
  `RefreshKeepsOthers` (part of it) are not affected.
* A patch that fails half-way has changed files the index is not told of
  (`retrieval/observer.py:61`). An insertion into an empty
  file is refused, a hunk without old lines lands one line early, and a removed line
  that starts with `-- ` is taken for a header (`tool/builtin/patch.py:134-187`):
  the diffs of `Algorithms` have an old line in each hunk and no such text.
* A chat stream that is cut off gives its calls the arguments `{}`
  (`llm/providers/compatible/base.py:118-169`); `AnswersReachTheTurn` speaks of
  calls that came in full. A search that finds nothing names the last retriever it
  attempted (`retrieval/engine.py:89`). A quoted separator cuts a command line in
  pieces that do not parse (`sandbox/command_policy.py`); such a piece is
  `Broken`, and is passed over.
* A file that is gone between the listing of a scan and its `stat()` ends the whole
  search with an error (`retrieval/retrievers/scan.py:58`): `Gone`, and
  `SearchesHideNothing` allows an error only then. One that cannot be read after that
  is passed over and counted nowhere (`scan.py:65`), which is not modelled.
* A file that grows over the size limit between `stat()` and `read_bytes()` is indexed
  with its whole text (`retrieval/index.py:114`, `:232`), under its old stamp: `Taken`.

## 5. Proofs

For every value of the constants, from the assumptions named in the modules:

| Theorem | Statement | Argument |
|---|---|---|
| `SessionProofs!TypeCorrect` | `Spec => []TypeOK` | inductive as it stands; the lemmas `EmitType`, `EmitFromCallType` carry the appends. It bounds the tool counter: a batch over budget is refused before it is recorded |
| `SessionProofs!OneRunner` | `Spec => []SingleRunner` | inductive with `TypeOK`; `TurnKeepsSlot` for steps of a task that keep it alive, `StartKeepsSlot` for the hand-over |
| `SessionProofs!ClosedForGood` | `Spec => NothingStartsAfterClose` | an action property, from `SingleRunner`: a closed session's slot can only be emptied |
| `SessionProofs!Barrier` | `Spec => []BarrierReturns` | `BarrierInv` adds that a task that ended as `done` has its terminal event in the log, and that the log only grows. Failing appends are included, which the run of the property leaves out |
| `SessionProofs!Limits` | `Spec => []LimitsRespected` | `LimitsInv`, below |
| `SessionProofs!OwnReason` | `Spec => []AbortReasonIsOwn` | `OwnInv`: every caller's reason that is pending on a turn, set as its reason or logged was given by a caller that met this turn, and callers do not forget |
| `SessionProofs!NothingLeftRunning` | `MaxFaults = 0` implies `Spec => []QuietWhenReleased` | `QuietInv`: no call has failed, calls that are still to end belong to a turn that waits for its batch, and a turn with a request pending is suspended or on its way out |
| `SessionProofs!CancelledStops` | `MaxFaults = 0` implies `Spec => CancelledTurnStops` | an action property, from `QuietInv` |
| `SessionProofs!LogImplements` | `MaxFaults = 0` implies `Spec => ImplementsSessionLog` | a refinement: each step that writes the log is a step of `SessionLog`, the others stutter; `LogBookInv`, below |
| `HistoryProofs!TypeCorrect` | `Spec => []TypeOK` | `TypeInv`: a turn that has its message has it in the conversation, so a compaction finds a place to cut |
| `HistoryProofs!AlwaysResumable` | `NoWholeLine` implies `Spec => []Resumable` | `LogInv`: an intact log is numbered by place, starts with `session_started`, and a running process holds the number of its last line |
| `HistoryProofs!SeqIsLog` | `NoWholeLine` implies `Spec => []SeqFollowsLog` | the same invariant |
| `HistoryProofs!LogKnows` | `Spec /\ [][SummaryIsWritten]_vars => []LogKnowsConversation` | `KnowInv`: the items of the live conversation, and those a batch is still to put there, are in the rebuilt one |
| `HistoryProofs!CallsAnswered` | `MaxFaults = 0` implies `Spec => []CallsKeepResults` | `CallInv` and `TurnInv`, below |
| `HistoryProofs!ResumesTheSame` | `MaxFaults = 0` implies `Spec => []SameUpToBatchOrder` | `MatchInv`, below |
| `ApprovalsProofs!TypeCorrect` | `Spec => []TypeOK` | inductive as it stands |
| `ApprovalsProofs!PromptLocked` | `Spec => []InputLocked` | `LockInv`: while the UI has not read a `turn_finished`, no turn runs, the prompt is locked, and there is no second one |
| `ApprovalsProofs!ApprovalRespected` | `Spec => []OnlyApprovedRun` | `ApprovedInv`: calls are numbered as they come, each asks once, nobody answers before its dialog is shown, and an approved future means a click on this call |
| `ApprovalsProofs!EachRequestDecided` | `Spec => []RequestsDecided` | `ReviewInv`: the turn is in review exactly while the request of its call is the last event, and a refusal is never the last event |
| `ApprovalsProofs!StatusTrue` | `Spec => []StatusFollowsLog` | `StatusInv` with `TurnLog`: an abort is the last event and leaves the prompt locked, so what the worker has not read yet cannot belong to two turns |
| `RepositoryIndexProofs!IndexTypes` | `Spec => []TypeOK` | inductive with `PlaceInv`: an indexer at a path has one, and works on what it was given |
| `RepositoryIndexProofs!FreshRows` | `NoReverts` implies `Spec /\ []OneRefresh => []FreshRowsAreCurrent` | `HonestInv`, below |
| `RepositoryIndexProofs!FreshMatches` | the same, `MatchesAreCurrent` | what a search has read is honest as well |
| `RepositoryIndexProofs!SyncsAgree` | the same, `SyncAgrees` | `SyncInv`: the paths a sync is through with hold the exact row in its transaction |
| `RepositoryIndexProofs!RefreshesExact` | the same with `[][SyncsApart]_vars`, `RefreshIsExact` | `RefreshInv`, the same of the paths of a refresh, and the next theorem |
| `RepositoryIndexProofs!RefreshesKeepOthers` | `Spec => RefreshKeepsOthers` | `OthersKept`: the transaction of a refresh differs from the committed rows in its own paths only |
| `HostProofs!TypeCorrect` | `Spec => []TypeOK` | part of `IInv` |
| `HostProofs!ResultsAreFinal` | `Spec => []ResultIsFinal` | `CommandsInv` |
| `HostProofs!ToolsServed` | `Spec => []ToolsHaveServers` | `RegistryInv` |
| `HostProofs!StartsWhole` | `Spec => []StartIsWhole` | `RegistryInv` |
| `HostProofs!ClosesAll` | `Spec => ClosedMeansClosed` | an action property, from `RegistryInv`: what is open below the place of the close |
| `AnswersProofs!Reaches` | `Spec => []AnswersReachTheTurn` | `CallsAreAssembled`, `CallsComeOnce`, `ResponsesMeanWhatTheySay`, `WholeAnswersMeanTheSame`, below |
| `AlgorithmsProofs!Survives` | `Spec => []ConversationSurvives` | `RequestsSayEverything`, `ResultsFollowTheirCalls` |
| `AlgorithmsProofs!NothingHidden` | `Spec => []SearchesHideNothing` | `PlanFindsFirst`, `ScanHidesNothing`, `ListHidesNothing`, `EveryLineIsInAChunk` |
| `AlgorithmsProofs!Governed` | `Spec => []ExecutedMeansGoverned` | `CommandsPassEveryGate`, `ToolsPassEveryGate` |
| `AlgorithmsProofs!Layered` | `Spec => []LastLayerWins` | `LastGiverWins` |

`LimitsInv` relates the three places where a turn counts its calls. While a batch
is being recorded, `tool_call_count` is behind the log by the calls recorded so
far; when it has been raised, it is ahead of the log by the calls that are still
to start; and only a turn that got through its recording comes back to record
another batch. `BudgetRespected` alone says nothing of the counter and is not
inductive. For the concurrency it says that a parallel batch has at most as many
calls waiting as permits, and that in a serial one every call before a waiting
one has ended. The queue is part of it (`QueueInv`): a message that waited twice
could restart a turn in the middle of its batch.

`NothingLeftRunning` and `CancelledStops` assume that no append fails
(`MaxFaults = 0`), as their run does: a failed append in one call of a parallel
batch leaves its siblings running (section 4).

The invariant of `Host` is `IInv`, the conjunction of four parts. `CommandsInv`
says of each call what its state owes (a leader cannot end without a status, the
timeout has emptied the group) and what each backend lets live (nothing without
the leader under bwrap, no group under docker); without it a background process
could appear after the answer. `TurnInv` says that one call runs at a time and
only while the turn does, which `Leave` and `Exit` need. `RegistryInv` says which
servers are linked at each place of a start, a rollback and a close, in the order
they are taken; the properties speak of the ends of these loops only and are not
inductive by themselves. The lemma names end in `Keeps`, one for each action, and
`CommandsKeep`, `TurnKeeps`, `RegistryKeeps` put them together.

`LogBookInv` is what connects the program counters of `Session` with the log
`SessionLog` speaks about. `Framed` says of each turn which frame events the log has
at each place of its task; `Ledger` that the calls recorded, started and finished in
the log are those the states of the batch say; `CloseInv` that one caller of
`close()` at a time waits and that `session_closed` is written once, with no turn
in the slot. It builds on the invariants before it (`TypeOK`,
`SingleRunner`, `QuietInv`). With failing appends the refinement is false: a
terminal event can be missing.

*History.* The hypotheses name what the code does not handle. `NoWholeLine`: a failed or
crashed append leaves nothing or half a line; with a whole line left behind a number
is used twice (section 4). `SummaryIsWritten`: the append of a compaction does not
fail, since a compaction rewrites the conversation before it is logged (section 4);
all other appends may, and leave what they like.
`CallsAnswered` and `ResumesTheSame` need `MaxFaults = 0`: a failed append in a
parallel batch leaves siblings that write results into the turn after it, and a
call whose line was lost has a result in the log all the same. Crashes at any
point, cancellations, compactions and resumes are covered by all six.

`CallInv` says of the log and of the live conversation that each result follows
its call within the turn and that numbers of calls are fresh; it needs to know
where the calls of a running batch are (`BatchInv`, `BatchAtEnd`). `TurnInv` adds
that a turn owes results for the calls of its batch at most. `MatchInv` compares the
two conversations: unless a call was left over, the log is ahead of the live one by
exactly what the batch has not yet put there, in the order of completion. When the
results go to the conversation all calls of the batch are answered, once each, which
an injection between the two orders shows. The steps of `History` fall into eleven kinds by what they do to the two conversations (`Moves`), and each
invariant is proved for the kinds. What these proofs need of `Reconstruct` is stated
as lemmas about one more line: it is a recursive function on the length of the log,
and facts about all lengths are proved by the least counterexample, since the
library's induction rules take an operator.

*RepositoryIndex.* A row is `Honest` if its text is no newer than the file's, and
is the file's whenever its stamp is the file's. `HonestInv` says this of the
committed rows, of the open transaction (`RowsHonest`), of what the indexers and searches hold in
memory (`ReadHonest`), and that a row read before the lock was taken is the one
that is written to, or an older one (`SeenInv`). The last part is what finding 2
breaks, hence `NoReverts` (no file gets an old text back) and `OneRefresh` (one
refresh at a time; any number of syncs and searches). `OneRefresh` is what a
session does: a refresh follows the result of `write_file` or `apply_patch`
(`retrieval/observer.py`), and tools that write run one after the other; a
cancelled turn alone can leave the thread of a refresh behind. Both hypotheses are
needed: TLC finds the counterexamples of section 4 without them. `OneRefresh` and
`SyncsApart` are premises of the theorems and not constraints of the model, which
leaves all of these behaviours in.

*The functions.* A theorem of `AlgorithmsProofs` or `AnswersProofs` that states an invariant speaks of the
behaviours of `Algorithms`, whose inputs are bounded by constants; the theorems it rests on
speak of one function and of inputs of every size: streams of any length with any number of
calls at once, conversations of any messages, files of any length and any tree of definitions,
patches of any hunks and sections, any plan of retrievers, any layers with tables inside
tables to any depth. Between the two, `Evaluation` says that the input of a behaviour is one of its cases (`InputInv`) and that its output is what
the function makes of it (`OutputInv`).

The functions are loops, written as recursive functions on the length of the input. `Folding`
takes the round of a loop as a constant operator and shows that such a function exists
(`RoundsExist`, by the least length at which it would not), that it starts with what was there
(`FoldedNone`), and that one more element is one more round (`FoldedAppend`). The proofs
take an instance of it for each loop. What a loop keeps is then proved by rounds (`EveryRound`)
or by the length of the input (`Lengthened`), each with an invariant of its own:

* *Chat streams* (`ChatSoFar`): the part of a call holds the pieces of the chunks of its index,
  joined in their order, and its name once the piece that opens it has come. There is a part
  for each index that has come and for no other, and a delta for each chunk with text.
* *Responses streams* (`RawsWait`): until the last event the calls of the items wait, and
  nothing the turn has been told is a call. So a call can only come at the end, by the items or
  by the last event, and one that both announce comes once. `ProseIsTold` adds what the turn
  has heard of the text: deltas, or the whole text if no delta came before it.
* *Turns* (`Listens`, `HasListened`): the turn that reads the events is a loop as well, and what
  it has gathered is put next to what the parser has told it. The outcome of an answer is read
  off both.
* *Requests* (`Building`, `Sendable`): the items sent, and the calls still collected behind them,
  stand for the messages so far; a result comes behind the item with its call if the calls of a
  batch come together and their results next.
* *Searches*: the retrievers asked so far are the beginning of the plan and found nothing; a
  scan has what matches in the files so far, up to its limit, and stops there with `truncated`.
* *Chunks*: the lines before the next one to be cut are covered, whatever nodes come.
* *Governance*: the pieces of a line are classified one by one; the verdict is the most severe
  so far, so no piece is forgotten behind a harmless one.
* *Hunks* (`HunksFit`, `InTurn`): as long as the hunks so far fit, the result is the file up to the
  end of the last one, put together again: what lies between two hunks, and what a hunk has
  instead of its old lines (`Rebuilt`). Within a hunk (`Does`) the cursor has passed the old lines
  that were compared. The first line that differs sets the error, which no later hunk clears.
* *Sections of a patch* (`AppliedFirst`, `StoppedAt`): the sections before one that cannot be
  applied have changed their files, and no other file differs. The theorem asks that a patch
  names no file twice; a second section would be compared with what the first has left.
* *Configuration* (`LaidOver`, `Stands`, `LastOfAll`): a config is the set of paths of its tables
  and scalars, of any depth, and `_deep_merge` a walk down a path (`Side`): it goes on in both
  as long as both have a table there. After each layer a path is there exactly if a layer so far
  gives it and none behind that one has a scalar on the way to it, and it is as the last layer
  that gives it has it.

All invariants and hypotheses were model-checked before they were proved.

Only model-checked:

* liveness, which is out of the prover's reach: `StartedTurnEnds`,
  `CloseCompletes`, `QueueServed`, `SessionReleased`, `RequestsEnd`,
  `ShutdownEnds`, `NothingHangs`, `IndexersEnd`;
* `ChangesAreExact` and `ReportsTellTheRun`. Of the first, what `apply_patch` does with hunks and
  sections is proved in general (`HunksReplaceWhatTheyName`, `PatchesStopAtAFailure`, which no run
  states); that the parser and a unified diff of any script lead back to the new file is not.
  `Reports` loops over a log and its turns and calls at once, partly with folds over sets whose
  order does not matter, which the lemmas about loops do not cover.

## 6. Not modelled

* Transport and retries of the provider SDKs, prompts and schemas: external, or
  data without state.
* Calls of a remote MCP tool and the mapping of their results; CodeCraft's own
  MCP server (`mcp/server.py`), which forwards single requests.
* `read_file`, the glue around `search_code`, and the resolution of paths against
  the workspace roots, which is an input (inside or outside) of the tools.
* Ranking, tokenisation and parsing of the retrieval: external libraries or data. The
  LIMIT of the index queries (`retrieval/index.py`), which belongs to the ranking: an
  index that answers is taken to give what it has. Chunks of blank lines only, which
  the chunker drops (`retrieval/chunking.py:153`); `Chunks` keeps them.
* The values `_set_nested` puts into the last configuration layer, from the command
  line; the layer itself is one like the others.
* The non-interactive consumer of the CLI; several subscribers of one bus and
  the limits of its queues; the session browser and the trace screen of the UI;
  layout and HTML.
* The tasks of the evaluation suite and their checks.
* Several sessions of one process: they share no state but the tool registry.

## 7. Plan

Done, in this order: `SessionLog`, `Session` and its proofs, the refinement
included; `History` and its proofs; `Approvals` and its proofs; `Commands`,
`ToolRegistry`, `Host` and its proofs; `RepositoryIndex` and its proofs; the
sequential parts with `Algorithms` and its proofs.

Left, in order of importance:

1. `consume_turn` and the event bus with several subscribers and full queues, as
   actors of `Approvals`.
2. Remote MCP calls, with a server that dies during a call, in `Host`.
3. Path resolution and `read_file` in `WorkspaceTools`.
4. Proofs: `ChangesAreExact`, where the parser is left, and `ReportsTellTheRun`.
