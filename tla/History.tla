------------------------------ MODULE History ------------------------------
(***************************************************************************)
(* The history of one codecraft session, in its three copies: the JSONL     *)
(* event log on disk (SessionStore), the sequence number of the running     *)
(* Session, and the live Conversation that is sent to the model. A process  *)
(* may end or crash at any time; a later one resumes the session from the   *)
(* log alone (SessionStore.resume, reconstruct_conversation).               *)
(*                                                                         *)
(* Session.emit and the change of the conversation next to it happen        *)
(* without a suspension in between, so they are one step. Events that carry *)
(* no conversation item (deltas, token counts, tool_call_started, the       *)
(* approval events) are left out: the events kept already number the log.   *)
(***************************************************************************)
EXTENDS Integers, SequencesExt, FiniteSetsExt

CONSTANTS
  MaxTurns,       \* bound: user messages over all processes
  MaxCalls,       \* bound: tool calls over all processes
  MaxBatch,       \* bound: calls in one model response
  KeepRecent,     \* config.context_keep_recent_items
  ContextMayOverflow, \* conversations may outgrow config.max_context_chars
  Interrupts,     \* turns may be cancelled (interrupt, close, turn deadline)
  MaxRestarts,    \* bound: how often the process may end
  MaxFaults,      \* bound: how many appends may fail
  Landings        \* what a failed or crashed append may leave in the file

\* "none": nothing; "part": a line without its end; "all": the whole line.
ASSUME HistoryAssumption ==
  /\ MaxTurns \in Nat /\ MaxCalls \in Nat /\ MaxBatch \in Nat \ {0}
  /\ KeepRecent \in Nat \ {0}
  /\ ContextMayOverflow \in BOOLEAN /\ Interrupts \in BOOLEAN
  /\ MaxRestarts \in Nat /\ MaxFaults \in Nat
  /\ "none" \in Landings /\ Landings \subseteq {"none", "part", "all"}

VARIABLES
  disk,      \* the lines of the session's .jsonl file
  seq,       \* Session.seq of the running process
  conv,      \* Session.conversation.items
  phase,     \* where the session is
  batch,     \* the tool calls of the current model response
  parallel,  \* whether the batch runs concurrently
  recorded,  \* how many calls of the batch are logged
  answered,  \* the calls of the batch with a logged result, in completion order
  orphans,   \* calls that still run after a failed sibling ended their batch
  turns, used, restarts, faults  \* counters for the bounds

turnVars == <<batch, parallel, recorded, answered>>
bounds == <<turns, used, restarts>>
vars == <<disk, seq, conv, phase, batch, parallel, recorded, answered, orphans, turns, used, restarts, faults>>

Roles == {"user", "assistant", "call", "result", "summary"}
Item(role, id) == [role |-> role, id |-> id]
Items == [role : Roles, id : Nat]

\* A parsed line carries its number, the item it stands for and, for context_compacted, the
\* compacted conversation. "torn" is a line without its end, "garbage" one that does not parse.
Line(type, n, id, snapshot) == [type |-> type, seq |-> n, id |-> id, snapshot |-> snapshot]
Torn == Line("torn", 0, 0, <<>>)
Garbage == Line("garbage", 0, 0, <<>>)
EventTypes == {"session_started", "session_restored", "session_closed", "turn_started", "user",
               "assistant", "call", "result", "compacted", "error", "turn_finished",
               "turn_aborted"}

Phases == {"none", "down", "idle", "echo", "prepare", "request", "called", "record", "batch", "finish",
           "abort", "raise", "handle"}
Up == phase \notin {"none", "down"}

-----------------------------------------------------------------------------
(* The store *)

\* append_event opens the file for appending: after a torn line, the new text continues it.
AppendLine(line) ==
  IF disk # <<>> /\ Last(disk).type = "torn"
  THEN [disk EXCEPT ![Len(disk)] = Garbage]
  ELSE Append(disk, line)

Landed(line) ==
  {IF l = "none" THEN disk ELSE AppendLine(IF l = "part" THEN Torn ELSE line) : l \in Landings}

EmitKeepsSeq(n, type, id, snapshot, ok, ko) ==  \* mutant: the number is not rolled back
  LET line == Line(type, n, id, snapshot) IN
  \/ /\ disk' = AppendLine(line)
     /\ seq' = n /\ phase' = ok
     /\ UNCHANGED faults
  \/ /\ faults < MaxFaults
     /\ faults' = faults + 1
     /\ disk' \in Landed(line)
     /\ seq' = n /\ phase' = ko

\* Session.emit with sequence number n: the line is written, or the append fails, the number
\* is rolled back and the exception takes the session to phase ko.
EmitAs(n, type, id, snapshot, ok, ko) ==
  LET line == Line(type, n, id, snapshot) IN
  \/ /\ disk' = AppendLine(line)
     /\ seq' = n /\ phase' = ok
     /\ UNCHANGED faults
  \/ /\ faults < MaxFaults
     /\ faults' = faults + 1
     /\ disk' \in Landed(line)
     /\ seq' = n - 1 /\ phase' = ko

Emit(type, id, ok, ko) == EmitAs(seq + 1, type, id, <<>>, ok, ko)

\* load_events and resume: every line parses, the numbers run from 1, the first event is
\* session_started.
Loads(lines) ==
  /\ lines # <<>>
  /\ \A i \in 1..Len(lines) : lines[i].type \notin {"torn", "garbage"} /\ lines[i].seq = i
  /\ lines[1].type = "session_started"

ApplyWithoutSnapshot(c, line) ==  \* mutant: context_compacted is not replayed
  IF line.type \in Roles THEN Append(c, Item(line.type, line.id)) ELSE c

\* reconstruct_conversation, event by event.
Apply(c, line) ==
  IF line.type \in Roles THEN Append(c, Item(line.type, line.id))
  ELSE IF line.type = "compacted" THEN line.snapshot ELSE c

Reconstruct(lines) ==
  LET items[i \in 0..Len(lines)] == IF i = 0 THEN <<>> ELSE Apply(items[i - 1], lines[i])
  IN items[Len(lines)]

-----------------------------------------------------------------------------
(* Processes: create_thread, resume_thread, their end *)

CreateThread ==
  /\ phase = "none"
  /\ EmitAs(1, "session_started", 0, <<>>, "idle", "down")
  /\ UNCHANGED <<conv, turnVars, orphans, bounds>>

ResumeFromZero(lines) == 0  \* mutant: the sequence number starts over
LastSeq(lines) == Last(lines).seq

ResumeThread ==
  /\ phase = "down" /\ Loads(disk)
  /\ EmitAs(LastSeq(disk) + 1, "session_restored", 0, <<>>, "idle", "down")
  /\ conv' = IF phase' = "idle" THEN Reconstruct(disk) ELSE <<>>
  /\ UNCHANGED <<turnVars, orphans, bounds>>

Stop ==
  /\ restarts < MaxRestarts
  /\ restarts' = restarts + 1
  /\ phase' = "down" /\ seq' = 0 /\ conv' = <<>>
  /\ batch' = <<>> /\ parallel' = FALSE /\ recorded' = 0 /\ answered' = <<>> /\ orphans' = {}
  /\ UNCHANGED <<turns, used, faults>>

\* The process dies, at worst in the middle of an append.
Crash ==
  /\ Up
  /\ disk' \in {disk} \cup (IF "part" \in Landings THEN {AppendLine(Torn)} ELSE {})
  /\ Stop

\* close() of an idle session and the end of the process. When its append fails, the session
\* leaves what a crash leaves.
CloseThread ==
  /\ phase = "idle"
  /\ disk' = AppendLine(Line("session_closed", seq + 1, 0, <<>>))
  /\ Stop

-----------------------------------------------------------------------------
(* One turn *)

StartTurn ==
  /\ phase = "idle" /\ turns < MaxTurns
  /\ turns' = turns + 1
  /\ Emit("turn_started", 0, "echo", "raise")
  /\ UNCHANGED <<conv, turnVars, orphans, used, restarts>>

AppendFirst(item) == conv' = Append(conv, item)  \* mutant: also when the append failed

AppendIfLogged(item) == conv' = IF faults' = faults THEN Append(conv, item) ELSE conv

EmitUserMessage ==
  /\ phase = "echo"
  /\ Emit("user", turns, "prepare", "raise")
  /\ AppendIfLogged(Item("user", turns))
  /\ UNCHANGED <<turnVars, orphans, bounds>>

LastUser(c) == SelectLastInSeq(c, LAMBDA item : item.role = "user")

RecentStart(c) == Max({1, (Len(c) - KeepRecent) + 1})  \* mutant: may cut inside a turn

\* Conversation.compact keeps whole turns: it cuts at the first user message among the items
\* to keep, and never behind the current turn's one.
CompactionStart(c) ==
  LET latest == LastUser(c)
      target == Min({latest, Max({1, (Len(c) - KeepRecent) + 1})})
  IN Min({k \in target..latest : c[k].role = "user"})

Compact(c) ==
  <<Item("summary", Len(disk) + 1)>> \o SubSeq(c, CompactionStart(c), Len(c))

\* _prepare_model_messages: the history fits; or older turns are replaced by a summary, in
\* memory first and in the log next; or it cannot be made to fit.
PrepareModelMessages ==
  /\ phase = "prepare"
  /\ \/ /\ phase' = "request"
        /\ UNCHANGED <<disk, seq, conv, faults>>
     \/ /\ ContextMayOverflow /\ CompactionStart(conv) > 1
        /\ conv' = Compact(conv)
        /\ EmitAs(seq + 1, "compacted", 0, Compact(conv), "request", "raise")
     \/ /\ ContextMayOverflow
        /\ phase' = "abort"
        /\ UNCHANGED <<disk, seq, conv, faults>>
  /\ UNCHANGED <<turnVars, orphans, bounds>>

\* The text of a response: all of it, or what precedes its tool calls.
ModelText ==
  /\ phase = "request"
  /\ \E next \in {"finish", "called"} : Emit("assistant", seq + 1, next, "raise")
  /\ AppendIfLogged(Item("assistant", seq + 1))
  /\ UNCHANGED <<turnVars, orphans, bounds>>

NewBatch(ids) == batch' = ids /\ recorded' = 0 /\ answered' = <<>>

\* A response with tool calls: approval-free reads run concurrently, other batches serially.
ModelToolCalls ==
  /\ phase \in {"request", "called"}
  /\ \E n \in 1..MaxBatch :
       /\ used + n <= MaxCalls
       /\ used' = used + n
       /\ NewBatch([k \in 1..n |-> used + k])
       /\ parallel' \in (IF n = 1 THEN {FALSE} ELSE BOOLEAN)
  /\ phase' = "record"
  /\ UNCHANGED <<disk, seq, conv, orphans, turns, restarts, faults>>

\* The provider reports an error; or raises; or asks for more calls than max_tool_calls.
ModelFails ==
  /\ phase \in {"request", "called"}
  /\ \/ Emit("error", 0, "abort", "raise")
     \/ phase' \in {"raise", "abort"} /\ UNCHANGED <<disk, seq, faults>>
  /\ UNCHANGED <<conv, turnVars, orphans, bounds>>

Calls(role, ids) == [k \in 1..Len(ids) |-> Item(role, ids[k])]

\* _record_tool_calls logs the calls one by one and then adds all of them to the conversation.
RecordToolCall ==
  /\ phase = "record"
  /\ recorded' = recorded + 1
  /\ Emit("call", batch[recorded + 1], IF recorded + 1 = Len(batch) THEN "batch" ELSE "record",
          "raise")
  /\ conv' = IF phase' = "batch" THEN conv \o Calls("call", batch) ELSE conv
  /\ UNCHANGED <<batch, parallel, answered, orphans, bounds>>

Unanswered == ToSet(batch) \ ToSet(answered)

\* tool_call_finished: of any call of a parallel batch, of the next one of a serial batch. A
\* failed append ends the batch with the exception; parallel siblings run on.
FinishCall ==
  /\ phase = "batch"
  /\ \E c \in Unanswered :
       /\ parallel \/ c = Min(Unanswered)
       /\ Emit("result", c, "batch", "raise")
       /\ answered' = IF phase' = "batch" THEN Append(answered, c) ELSE answered
       /\ orphans' = IF phase' = "raise" /\ parallel THEN orphans \cup (Unanswered \ {c})
                                                     ELSE orphans
  /\ UNCHANGED <<conv, batch, parallel, recorded, bounds>>

CompletionOrder(ids) == answered  \* mutant: results as they came in
ProviderOrder(ids) == ids

\* The results go to the conversation together, in the order of the calls.
BatchDone ==
  /\ phase = "batch" /\ Unanswered = {}
  /\ conv' = conv \o Calls("result", ProviderOrder(batch))
  /\ phase' = "prepare"
  /\ UNCHANGED <<disk, seq, turnVars, orphans, bounds, faults>>

\* A call left behind reports whenever the event loop is free.
OrphanFinishes ==
  /\ phase \in {"idle", "request", "called", "batch"}
  /\ \E c \in orphans :
       /\ orphans' = orphans \ {c}
       /\ Emit("result", c, phase, phase)
  /\ UNCHANGED <<conv, turnVars, bounds>>

\* Cancellation at a suspension point; after the last call of a serial batch there is none.
CancelTurn ==
  /\ Interrupts
  /\ \/ phase \in {"request", "called"}
     \/ phase = "batch" /\ (parallel \/ Unanswered # {})
  /\ phase' = "handle"
  /\ UNCHANGED <<disk, seq, conv, turnVars, orphans, bounds, faults>>

FinishTurn ==
  /\ phase = "finish"
  /\ Emit("turn_finished", 0, "idle", "raise")
  /\ UNCHANGED <<conv, turnVars, orphans, bounds>>

\* turn_aborted from Turn.run itself, or from the handlers of _run_turn, whose failure leaves
\* the turn without a terminal event.
AbortTurn ==
  /\ phase \in {"abort", "handle"}
  /\ Emit("turn_aborted", 0, "idle", IF phase = "abort" THEN "raise" ELSE "idle")
  /\ UNCHANGED <<conv, turnVars, orphans, bounds>>

AbortFromException ==
  /\ phase = "raise"
  /\ Emit("error", 0, "handle", "idle")
  /\ UNCHANGED <<conv, turnVars, orphans, bounds>>

-----------------------------------------------------------------------------
Init ==
  /\ disk = <<>> /\ seq = 0 /\ conv = <<>> /\ phase = "none"
  /\ batch = <<>> /\ parallel = FALSE /\ recorded = 0 /\ answered = <<>> /\ orphans = {}
  /\ turns = 0 /\ used = 0 /\ restarts = 0 /\ faults = 0

Next ==
  \/ CreateThread \/ ResumeThread \/ Crash \/ CloseThread
  \/ StartTurn \/ EmitUserMessage \/ PrepareModelMessages
  \/ ModelText \/ ModelToolCalls \/ ModelFails
  \/ RecordToolCall \/ FinishCall \/ BatchDone \/ OrphanFinishes
  \/ CancelTurn \/ FinishTurn \/ AbortTurn \/ AbortFromException

Spec == Init /\ [][Next]_vars

-----------------------------------------------------------------------------
(* Properties *)

TypeOK ==
  /\ \A i \in 1..Len(disk) :
       /\ disk[i].type \in EventTypes \cup {"torn", "garbage"}
       /\ disk[i].seq \in Nat /\ disk[i].id \in Nat /\ ToSet(disk[i].snapshot) \subseteq Items
  /\ seq \in Nat /\ ToSet(conv) \subseteq Items /\ phase \in Phases
  /\ ToSet(batch) \subseteq 1..MaxCalls /\ parallel \in BOOLEAN
  /\ recorded \in 0..MaxBatch /\ ToSet(answered) \subseteq ToSet(batch)
  /\ orphans \subseteq 1..MaxCalls
  /\ turns \in 0..MaxTurns /\ used \in 0..MaxCalls
  /\ restarts \in 0..MaxRestarts /\ faults \in 0..MaxFaults

\* No line of the log is damaged.
Intact == \A i \in 1..Len(disk) : disk[i].type \notin {"torn", "garbage"}

\* The log of a session that was created can be loaded again unless an append left half a line:
\* no crash, no cancellation and no failed append disturbs its numbering.
Resumable == Intact /\ disk # <<>> => Loads(disk)

\* A running session continues the numbering of its log.
SeqFollowsLog == Up /\ Intact => seq = Len(disk)

HasItem(c, role, id) == \E i \in 1..Len(c) : c[i] = Item(role, id)
Pending(c) == {c[i].id : i \in {j \in 1..Len(c) : c[j].role = "call" /\ ~HasItem(c, "result", c[j].id)}}

\* The conversation is complete when no message is being added to it.
Settled == phase \in {"idle", "request"}

\* The log knows everything the model was shown: each item of the live conversation is in the
\* one that resume would rebuild.
LogKnowsConversation == Settled /\ Intact => ToSet(conv) \subseteq ToSet(Reconstruct(disk))

\* While every call has its result, the rebuilt conversation is the live one, except for the
\* order of the results of one parallel batch.
SameUpToBatchOrder ==
  LET rebuilt == Reconstruct(disk) IN
  Settled /\ Pending(rebuilt) = {} /\ Pending(conv) = {} =>
    /\ Len(conv) = Len(rebuilt)
    /\ \A i \in 1..Len(conv) :
         i = Len(conv) \/ conv[i + 1].role # "result" =>
           ToSet(SubSeq(conv, 1, i)) = ToSet(SubSeq(rebuilt, 1, i))

\* In the live conversation and in the rebuilt one, at every moment, a result follows its call
\* and no call has two results.
ResultsFollowCalls ==
  \A c \in {conv, Reconstruct(disk)} :
    \A i \in 1..Len(c) : c[i].role = "result" =>
      /\ \E j \in 1..(i - 1) : c[j] = Item("call", c[i].id)
      /\ \A j \in 1..(i - 1) : c[j] # c[i]

\* The calls of the last turn of conversation c that are not in open have a result in this turn,
\* its results have their calls in it, and they come in the order of the calls, one for each.
TurnAnswered(c, open) ==
  LET Turn(role) == {i \in LastUser(c)..Len(c) : c[i].role = role} IN
  /\ LastUser(c) # 0
  /\ \A i \in Turn("call") : c[i].id \in open \/ \E j \in Turn("result") : c[j].id = c[i].id
  /\ \A j \in Turn("result") : \E i \in Turn("call") : c[j].id = c[i].id /\ i < j
  /\ \A i, k \in Turn("call") : \A j, l \in Turn("result") :
       c[j].id = c[i].id /\ c[l].id = c[k].id => (i < k <=> j < l)

\* What is sent to the model: the calls of the current turn, all answered, in provider order.
CurrentTurnAnswered == phase = "request" => TurnAnswered(conv, {})

\* Calls and results stay in step: in every copy of the conversation at every moment, and in
\* full in what a turn sends (Turn.run appends them, compact and reconstruct must not part them).
CallsKeepResults == ResultsFollowCalls /\ CurrentTurnAnswered

=============================================================================
