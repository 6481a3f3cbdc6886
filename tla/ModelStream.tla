----------------------------- MODULE ModelStream -----------------------------
(***************************************************************************)
(* What a provider sends and what a turn makes of it: the two dialects of   *)
(* OpenAICompatibleProvider (Chat Completions and Responses), streamed or   *)
(* in one piece, the events they give, and the loop of Turn that consumes   *)
(* the events; and the way back, the messages of the next request.          *)
(*                                                                         *)
(* A call is its number; the arguments of a streamed call come in pieces,   *)
(* "open" and "close", and are "given" when they parse and "empty" when     *)
(* they do not. A text is whether there is one.                             *)
(***************************************************************************)
EXTENDS Integers, SequencesExt, FiniteSets

Event(type) == [type |-> type, call |-> -1, arguments |-> "none"]
CallEvent(k, arguments) == [type |-> "call", call |-> k, arguments |-> arguments]
Completed == <<Event("completed")>>

\* json.loads of what was joined: the tolerant parser gives {} for the rest.
ParseArguments(pieces) == IF pieces = <<"open", "close">> THEN "given" ELSE "empty"

If(condition, s) == IF condition THEN s ELSE <<>>
Calls(ks) == [i \in DOMAIN ks |-> CallEvent(ks[i], "given")]

-----------------------------------------------------------------------------
(* The token usage of a request, in the names of the internal event. A field   *)
(* the provider leaves out is -1; the chat dialect has names of its own for     *)
(* two of them, and says the total itself.                                     *)

OrZero(x) == IF x = -1 THEN 0 ELSE x

WithCached(u) == u.input + u.output + u.reasoning + u.cached  \* mutant: cached tokens are input too
TokenSum(u) == u.input + u.output + u.reasoning

Usage(raw) ==
  LET u == [input |-> OrZero(raw.input), output |-> OrZero(raw.output),
            reasoning |-> OrZero(raw.reasoning), cached |-> OrZero(raw.cached), total |-> 0]
  IN [u EXCEPT !.total = TokenSum(u)]

ChatUsage(raw) ==
  LET named == [raw EXCEPT !.input = IF @ # -1 THEN @ ELSE raw.prompt,
                           !.output = IF @ # -1 THEN @ ELSE raw.completion]
      u == Usage(named)
  IN IF raw.total # -1 THEN [u EXCEPT !.total = raw.total] ELSE u

-----------------------------------------------------------------------------
(* Chat Completions, streamed. A chunk is [text, usage, index, id, pieces],   *)
(* with index -1 for one without a tool call and id -1 for a piece without.   *)

\* The numbers of a finite set in their order.
Ascending(ks) ==
  CHOOSE f \in [1..Cardinality(ks) -> ks] : \A i, j \in DOMAIN f : i < j => f[i] < f[j]

NoPart == [id |-> -1, pieces |-> <<>>]

FirstPart(chunk) == 0  \* mutant: the pieces of all calls are joined
PartOf(chunk) == chunk.index

ChatChunk(s, chunk) ==
  LET i == PartOf(chunk)
      part == IF i \in DOMAIN s.parts THEN s.parts[i] ELSE NoPart
      joined == [id |-> IF chunk.id # -1 THEN chunk.id ELSE part.id,
                 pieces |-> part.pieces \o chunk.pieces]
  IN [out |-> s.out \o If(chunk.text, <<Event("delta")>>),
      usage |-> s.usage \/ chunk.usage,
      parts |-> IF chunk.index = -1 THEN s.parts
                ELSE [j \in DOMAIN s.parts \cup {i} |-> IF j = i THEN joined ELSE s.parts[j]]]

ChatStream(chunks) ==
  LET read[i \in 0..Len(chunks)] ==
        IF i = 0 THEN [out |-> <<>>, usage |-> FALSE, parts |-> [j \in {} |-> NoPart]]
        ELSE ChatChunk(read[i - 1], chunks[i])
      s == read[Len(chunks)]
      order == Ascending(DOMAIN s.parts)
  IN s.out \o If(s.usage, <<Event("usage")>>)
     \o [j \in DOMAIN order |-> CallEvent(s.parts[order[j]].id, ParseArguments(s.parts[order[j]].pieces))]
     \o Completed

-----------------------------------------------------------------------------
(* Responses, streamed: raw events [type, calls], the calls of an item that   *)
(* is done or of the whole response.                                          *)

TextAlways(s) == TRUE  \* mutant: the text of the item is emitted after its deltas too
ItemText(s) == ~s.delta

AllCalls(s, raw) == s.pending \o raw.calls  \* mutant: the response's calls are added
FinalCalls(s, raw) == IF s.pending = <<>> THEN raw.calls ELSE s.pending

RawEvent(s, raw) ==
  CASE raw.type = "delta"     -> [s EXCEPT !.out = Append(@, Event("delta")), !.delta = TRUE]
    [] raw.type = "text"      -> [s EXCEPT !.out = @ \o If(ItemText(s), <<Event("message")>>)]
    [] raw.type = "item"      -> [s EXCEPT !.pending = @ \o raw.calls]
    [] raw.type = "completed" -> [s EXCEPT !.out = @ \o <<Event("usage")>> \o Calls(FinalCalls(s, raw)) \o Completed,
                                           !.pending = <<>>, !.completed = TRUE]
    [] raw.type = "error"     -> [s EXCEPT !.out = Append(@, Event("error"))]
    [] OTHER                  -> s

ResponseStream(raws) ==
  LET read[i \in 0..Len(raws)] ==
        IF i = 0 THEN [out |-> <<>>, delta |-> FALSE, pending |-> <<>>, completed |-> FALSE]
        ELSE RawEvent(read[i - 1], raws[i])
      s == read[Len(raws)]
  IN s.out \o If(~s.completed, Calls(s.pending) \o Completed)

-----------------------------------------------------------------------------
(* In one piece: a text or none, and calls. A chat response has the texts of  *)
(* its choices first and their calls last.                                    *)

Response(text, calls) ==
  If(text, <<Event("message")>>) \o <<Event("usage")>> \o Calls(calls) \o Completed

ChatResponse(choices) ==
  LET texts == [i \in DOMAIN choices |-> If(choices[i].text, <<Event("message")>>)]
      calls == [i \in DOMAIN choices |-> Calls(choices[i].calls)]
  IN FlattenSeq(texts) \o <<Event("usage")>> \o FlattenSeq(calls) \o Completed

-----------------------------------------------------------------------------
(* Turn.run: what the turn takes from the events of one request.              *)

Listening == [deltas |-> FALSE, message |-> FALSE, calls |-> <<>>, end |-> "none"]

Consume(t, e) ==
  IF t.end # "none" THEN t ELSE
  CASE e.type = "delta"     -> IF t.message THEN [t EXCEPT !.end = "protocol"] ELSE [t EXCEPT !.deltas = TRUE]
    [] e.type = "message"   -> IF t.deltas \/ t.message THEN [t EXCEPT !.end = "protocol"]
                               ELSE [t EXCEPT !.message = TRUE]
    [] e.type = "call"      -> [t EXCEPT !.calls = Append(@, <<e.call, e.arguments>>)]
    [] e.type = "error"     -> [t EXCEPT !.end = "error"]
    [] e.type = "completed" -> [t EXCEPT !.end = "completed"]
    [] OTHER                -> t

\* A text is an answer, and what precedes calls when there are some; neither is
\* a protocol error, as is a stream without an end.
Outcome(events) ==
  LET heard[i \in 0..Len(events)] == IF i = 0 THEN Listening ELSE Consume(heard[i - 1], events[i])
      t == heard[Len(events)]
      text == t.deltas \/ t.message
  IN IF t.end = "error" THEN [kind |-> "error", text |-> FALSE, calls |-> <<>>]
     ELSE IF t.end = "completed" /\ t.calls # <<>> THEN [kind |-> "tools", text |-> text, calls |-> t.calls]
     ELSE IF t.end = "completed" /\ text THEN [kind |-> "answer", text |-> TRUE, calls |-> <<>>]
     ELSE [kind |-> "protocol", text |-> FALSE, calls |-> <<>>]

-----------------------------------------------------------------------------
(* The next request: a message is [type, id], with type "user", "assistant",  *)
(* "call" or "output"; a chat item is [role, text, calls].                    *)

Item(role, text, calls) == [role |-> role, text |-> text, calls |-> calls]

FlushCalls(s) ==
  LET merge == s.items # <<>> /\ Last(s.items).role = "assistant" /\ Last(s.items).calls = <<>>
      kept == IF merge THEN Front(s.items) ELSE s.items
      text == IF merge THEN Last(s.items).text ELSE -1
  IN IF s.calls = <<>> THEN s
     ELSE [items |-> Append(kept, Item("assistant", text, s.calls)), calls |-> <<>>]

ChatMessage(s, message) ==
  IF message.type = "call" THEN [s EXCEPT !.calls = Append(@, message.id)]
  ELSE LET f == FlushCalls(s)
           role == IF message.type = "output" THEN "tool" ELSE message.type
       IN [f EXCEPT !.items = Append(@, Item(role, message.id, <<>>))]

ForgetLastCalls(s) == s  \* mutant: no flush after the last message
LastFlush(s) == FlushCalls(s)

MessagesToChat(messages) ==
  LET sent[i \in 0..Len(messages)] ==
        IF i = 0 THEN [items |-> <<>>, calls |-> <<>>] ELSE ChatMessage(sent[i - 1], messages[i])
  IN LastFlush(sent[Len(messages)]).items
=============================================================================
