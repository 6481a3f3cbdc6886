----------------------------- MODULE AnswersProofs -----------------------------
(***************************************************************************)
(* What reaches the turn of a provider's answer, for streams of any length  *)
(* and any number of calls: the parsers of both dialects, and the turn that *)
(* reads their events, are loops like those of AlgorithmsProofs.            *)
(***************************************************************************)
EXTENDS AlgorithmsProofs

\* The loops, each with its round.
Picked(type, picked, event) == IF event.type = type THEN Append(picked, event) ELSE picked
Hearing(none, turn, event) == S!Consume(turn, event)
Reading(none, read, chunk) == S!ChatChunk(read, chunk)
RawReading(none, read, raw) == S!RawEvent(read, raw)

Picks == INSTANCE Folding WITH Step <- Picked
Turning == INSTANCE Folding WITH Step <- Hearing
Chatting == INSTANCE Folding WITH Step <- Reading
Responding == INSTANCE Folding WITH Step <- RawReading

-----------------------------------------------------------------------------
(* The events of a type                                                        *)

\* Going on by one event is a round more.
LEMMA PickedOfNone ==
  ASSUME NEW type
  PROVE  OfType(<<>>, type) = <<>>
<1>1. Len(<<>>) = 0
  OBVIOUS
<1> DEFINE None == <<>>
<1>2. Picks!Folded(type, None, None) = None
  <2>1. Len(None) = 0
    BY <1>1
  <2> HIDE DEF None
  <2> QED BY <2>1, Picks!FoldedNone
<1> QED
  BY <1>2 DEF OfType, Picks!Folded, Picked

LEMMA PickOneMore ==
  ASSUME NEW A, NEW events \in Seq(A), NEW e \in A, NEW type
  PROVE  OfType(Append(events, e), type) = Picked(type, OfType(events, type), e)
<1> DEFINE None == <<>>
<1>1. \A c : OfType(c, type) = Picks!Folded(type, None, c)
  BY DEF OfType, Picks!Folded, Picked
<1>2. Picks!Folded(type, None, Append(events, e)) = Picked(type, Picks!Folded(type, None, events), e)
  <2> HIDE DEF None
  <2> QED BY Picks!FoldedAppend
<1> QED
  BY <1>1, <1>2

LEMMA PickedIsSeq ==
  ASSUME NEW A, NEW type
  PROVE  \A events \in Seq(A) : OfType(events, type) \in Seq(A)
<1> DEFINE T == {c \in Seq(A) : OfType(c, type) \in Seq(A)}
<1>1. ASSUME NEW c \in Seq(A), Len(c) = 0 PROVE c \in T
  <2>1. c = <<>>
    BY <1>1
  <2> QED BY <2>1, PickedOfNone
<1>2. ASSUME NEW c \in Seq(A), NEW e \in A, c \in T PROVE Append(c, e) \in T
  <2>1. PICK p \in Seq(A) : p = OfType(c, type)
    BY <1>2
  <2>2. OfType(Append(c, e), type) = Picked(type, p, e)
    BY <2>1, PickOneMore
  <2>3. Picked(type, p, e) \in Seq(A)
    BY DEF Picked
  <2>4. Append(c, e) \in Seq(A)
    OBVIOUS
  <2> QED BY <2>2, <2>3, <2>4
<1>3. \A c \in Seq(A) : c \in T
  <2> HIDE DEF T
  <2> QED BY <1>1, <1>2, Lengthened
<1> QED
  BY <1>3

\* All of them, or none.
LEMMA PickedAll ==
  ASSUME NEW A, NEW type, \A e \in A : e.type = type
  PROVE  \A events \in Seq(A) : OfType(events, type) = events
<1> DEFINE T == {c \in Seq(A) : OfType(c, type) = c}
<1>1. ASSUME NEW c \in Seq(A), Len(c) = 0 PROVE c \in T
  <2>1. c = <<>>
    BY <1>1
  <2> QED BY <2>1, PickedOfNone
<1>2. ASSUME NEW c \in Seq(A), NEW e \in A, c \in T PROVE Append(c, e) \in T
  <2>1. PICK d \in Seq(A) : d = Append(c, e)
    <3>1. Append(c, e) \in Seq(A)
      OBVIOUS
    <3> QED BY <3>1
  <2>2. OfType(d, type) = Picked(type, OfType(c, type), e)
    BY <2>1, PickOneMore
  <2>3. OfType(c, type) = c
    BY <1>2
  <2>4. OfType(d, type) = d
    BY <2>1, <2>2, <2>3 DEF Picked
  <2> QED BY <2>1, <2>4
<1>3. \A c \in Seq(A) : c \in T
  <2> HIDE DEF T
  <2> QED BY <1>1, <1>2, Lengthened
<1> QED
  BY <1>3

LEMMA PickedNone ==
  ASSUME NEW A, NEW type, \A e \in A : e.type # type
  PROVE  \A events \in Seq(A) : OfType(events, type) = <<>>
<1> DEFINE T == {c \in Seq(A) : OfType(c, type) = <<>>}
<1>1. ASSUME NEW c \in Seq(A), Len(c) = 0 PROVE c \in T
  <2>1. c = <<>>
    BY <1>1
  <2> QED BY <2>1, PickedOfNone
<1>2. ASSUME NEW c \in Seq(A), NEW e \in A, c \in T PROVE Append(c, e) \in T
  <2>1. PICK d \in Seq(A) : d = Append(c, e)
    <3>1. Append(c, e) \in Seq(A)
      OBVIOUS
    <3> QED BY <3>1
  <2>2. OfType(d, type) = Picked(type, OfType(c, type), e)
    BY <2>1, PickOneMore
  <2>3. OfType(c, type) = <<>>
    BY <1>2
  <2>4. OfType(d, type) = <<>>
    BY <2>2, <2>3 DEF Picked
  <2> QED BY <2>1, <2>4
<1>3. \A c \in Seq(A) : c \in T
  <2> HIDE DEF T
  <2> QED BY <1>1, <1>2, Lengthened
<1> QED
  BY <1>3

\* Of two logs one behind the other.
LEMMA PickedOfBoth ==
  ASSUME NEW A, NEW a \in Seq(A), NEW b \in Seq(A), NEW type
  PROVE  OfType(a, type) \in Seq(A) /\ OfType(b, type) \in Seq(A)
         /\ OfType(Join(0, a, b), type) = Join(0, OfType(a, type), OfType(b, type))
<1>0. \A c \in Seq(A) : OfType(c, type) \in Seq(A)
  BY PickedIsSeq
<1>2. PICK p \in Seq(A) : p = OfType(a, type)
  BY <1>0
<1> DEFINE T == {c \in Seq(A) : OfType(a \o c, type) = p \o OfType(c, type)}
<1>3. ASSUME NEW c \in Seq(A), Len(c) = 0 PROVE c \in T
  <2>1. c = <<>>
    BY <1>3
  <2>2. a \o <<>> = a /\ p \o <<>> = p
    OBVIOUS
  <2> QED BY <1>2, <2>1, <2>2, PickedOfNone
<1>4. ASSUME NEW c \in Seq(A), NEW e \in A, c \in T PROVE Append(c, e) \in T
  <2>1. OfType(a \o c, type) = p \o OfType(c, type)
    BY <1>4
  <2>2. a \o Append(c, e) = Append(a \o c, e) /\ a \o c \in Seq(A) /\ Append(c, e) \in Seq(A)
    OBVIOUS
  <2>3. PICK ac \in Seq(A) : ac = a \o c
    BY <2>2
  <2>4. OfType(Append(ac, e), type) = Picked(type, OfType(ac, type), e)
    BY PickOneMore
  <2>5. PICK q \in Seq(A) : q = OfType(c, type) /\ OfType(Append(c, e), type) = Picked(type, q, e)
    BY <1>0, PickOneMore
  <2>6. Picked(type, p \o q, e) = p \o Picked(type, q, e)
    <3>1. p \o Append(q, e) = Append(p \o q, e)
      OBVIOUS
    <3> QED BY <3>1 DEF Picked
  <2>7. OfType(a \o Append(c, e), type) = p \o OfType(Append(c, e), type)
    BY <2>1, <2>2, <2>3, <2>4, <2>5, <2>6
  <2> QED BY <2>2, <2>7
<1>5. \A c \in Seq(A) : c \in T
  <2> HIDE DEF T
  <2> QED BY <1>3, <1>4, Lengthened
<1>6. OfType(a \o b, type) = p \o OfType(b, type)
  BY <1>5
<1> QED
  BY <1>0, <1>2, <1>6 DEF Join

-----------------------------------------------------------------------------
(* What a turn makes of the events                                             *)

EventTypes == {"delta", "message", "usage", "call", "completed", "error"}
Arguments == {"none", "given", "empty"}
AnyEvents == [type : EventTypes, call : Int, arguments : Arguments]
CallEvents == {e \in AnyEvents : e.type = "call"}
OtherEvents == {e \in AnyEvents : e.type # "call"}

TurnOf(events) == Turning!Folded(0, S!Listening, events)
Concluded(t) ==
  LET text == t.deltas \/ t.message
  IN IF t.end = "error" THEN [kind |-> "error", text |-> FALSE, calls |-> <<>>]
     ELSE IF t.end = "completed" /\ t.calls # <<>> THEN [kind |-> "tools", text |-> text, calls |-> t.calls]
     ELSE IF t.end = "completed" /\ text THEN [kind |-> "answer", text |-> TRUE, calls |-> <<>>]
     ELSE [kind |-> "protocol", text |-> FALSE, calls |-> <<>>]

LEMMA OutcomeIs ==
  ASSUME NEW events
  PROVE  S!Outcome(events) = Concluded(TurnOf(events))
  BY DEF S!Outcome, Concluded, TurnOf, Turning!Folded, Hearing

\* The turn still listens; it has heard deltas or not, a message or not, and calls.
Listens(events, deltas, message, calls) ==
  /\ events \in Seq(AnyEvents)
  /\ TurnOf(events) = [deltas |-> deltas, message |-> message, calls |-> calls, end |-> "none"]

HasListened(events, deltas, message, calls) ==
  TurnOf(events) = [deltas |-> deltas, message |-> message, calls |-> calls, end |-> "completed"]

LEMMA ListensFirst == Listens(<<>>, FALSE, FALSE, <<>>)
<1> DEFINE None == <<>>
<1>1. Len(None) = 0 /\ None \in Seq(AnyEvents)
  OBVIOUS
<1>2. Turning!Folded(0, S!Listening, None) = S!Listening
  <2> HIDE DEF None
  <2> QED BY <1>1, Turning!FoldedNone
<1> QED
  BY <1>1, <1>2 DEF Listens, TurnOf, S!Listening

LEMMA TurnNext ==
  ASSUME NEW events \in Seq(AnyEvents), NEW e \in AnyEvents
  PROVE  TurnOf(Append(events, e)) = S!Consume(TurnOf(events), e)
  BY Turning!FoldedAppend DEF TurnOf, Hearing

LEMMA ListensOn ==
  ASSUME NEW events, NEW deltas \in BOOLEAN, NEW message \in BOOLEAN, NEW calls, NEW e \in AnyEvents,
         Listens(events, deltas, message, calls)
  PROVE  /\ e.type = "delta" /\ ~message => Listens(Append(events, e), TRUE, message, calls)
         /\ e.type = "message" /\ ~deltas /\ ~message => Listens(Append(events, e), deltas, TRUE, calls)
         /\ e.type = "usage" => Listens(Append(events, e), deltas, message, calls)
         /\ e.type = "call" => Listens(Append(events, e), deltas, message, Append(calls, <<e.call, e.arguments>>))
         /\ e.type = "completed" => HasListened(Append(events, e), deltas, message, calls)
<1>1. events \in Seq(AnyEvents)
  BY DEF Listens
<1>2. Append(events, e) \in Seq(AnyEvents)
  BY <1>1
<1> DEFINE old == [deltas |-> deltas, message |-> message, calls |-> calls, end |-> "none"]
<1>3. TurnOf(Append(events, e)) = S!Consume(old, e)
  BY <1>1, TurnNext DEF Listens
<1>4. /\ e.type = "delta" /\ ~message => S!Consume(old, e) = [old EXCEPT !.deltas = TRUE]
      /\ e.type = "message" /\ ~deltas /\ ~message => S!Consume(old, e) = [old EXCEPT !.message = TRUE]
      /\ e.type = "usage" => S!Consume(old, e) = old
      /\ e.type = "call" => S!Consume(old, e) = [old EXCEPT !.calls = Append(calls, <<e.call, e.arguments>>)]
      /\ e.type = "completed" => S!Consume(old, e) = [old EXCEPT !.end = "completed"]
  BY DEF S!Consume
<1> QED
  BY <1>2, <1>3, <1>4 DEF Listens, HasListened

Pairs(calls) == [i \in DOMAIN calls |-> <<calls[i].call, calls[i].arguments>>]

LEMMA PairsGrow ==
  ASSUME NEW c \in Seq(CallEvents), NEW e \in CallEvents
  PROVE  Pairs(Append(c, e)) = Append(Pairs(c), <<e.call, e.arguments>>)
<1>1. PICK n \in Nat : n = Len(c) /\ DOMAIN c = 1..n
  <2>1. Len(c) \in Nat /\ DOMAIN c = 1..Len(c)
    OBVIOUS
  <2> QED BY <2>1, Zenon
<1>2. PICK d \in Seq(CallEvents) : d = Append(c, e)
  <2>1. Append(c, e) \in Seq(CallEvents)
    OBVIOUS
  <2> QED BY <2>1
<1>3. Len(d) = n + 1 /\ DOMAIN d = 1..(n + 1) /\ d[n + 1] = e /\ \A i \in 1..n : d[i] = c[i]
  BY <1>1, <1>2
<1> DEFINE pair(x) == <<x.call, x.arguments>>
<1>4. PICK Q : \A x \in CallEvents : pair(x) \in Q
  <2> DEFINE Q == {pair(x) : x \in CallEvents}
  <2>1. \A x \in CallEvents : pair(x) \in Q
    OBVIOUS
  <2> QED BY <2>1
<1>5. Pairs(c) = [i \in 1..n |-> pair(c[i])]
  BY <1>1 DEF Pairs
<1>6. Pairs(d) = [i \in 1..(n + 1) |-> pair(d[i])]
  BY <1>3 DEF Pairs
<1>7. \A i \in 1..n : c[i] \in CallEvents
  BY <1>1
<1>8. \A i \in 1..(n + 1) : d[i] \in CallEvents
  BY <1>3
<1>9. PICK a : a = Pairs(c)
  OBVIOUS
<1>10. PICK b : b = Pairs(d)
  OBVIOUS
<1>11. PICK x \in Q : x = pair(e)
  BY <1>4
<1> HIDE DEF pair
<1>12. a \in Seq(Q) /\ Len(a) = n
  BY <1>4, <1>5, <1>7, <1>9
<1>13. b \in Seq(Q) /\ Len(b) = n + 1
  BY <1>4, <1>6, <1>8, <1>10
<1>14. \A i \in 1..(n + 1) : b[i] = IF i = n + 1 THEN x ELSE a[i]
  BY <1>3, <1>5, <1>6, <1>9, <1>10, <1>11
<1>15. b = Append(a, x)
  BY <1>12, <1>13, <1>14, SameSeq
<1> QED
  BY <1>2, <1>9, <1>10, <1>11, <1>15 DEF pair

LEMMA ListensToCalls ==
  ASSUME NEW events, NEW deltas \in BOOLEAN, NEW message \in BOOLEAN,
         Listens(events, deltas, message, <<>>)
  PROVE  \A calls \in Seq(CallEvents) : Listens(events \o calls, deltas, message, Pairs(calls))
<1> DEFINE T == {c \in Seq(CallEvents) : Listens(events \o c, deltas, message, Pairs(c))}
<1>1. events \in Seq(AnyEvents)
  BY DEF Listens
<1>2. ASSUME NEW c \in Seq(CallEvents), Len(c) = 0 PROVE c \in T
  <2>1. c = <<>> /\ events \o <<>> = events /\ Pairs(<<>>) = <<>>
    BY <1>1, <1>2 DEF Pairs
  <2> QED BY <2>1
<1>3. ASSUME NEW c \in Seq(CallEvents), NEW e \in CallEvents, c \in T PROVE Append(c, e) \in T
  <2>1. Listens(events \o c, deltas, message, Pairs(c)) /\ e \in AnyEvents /\ e.type = "call"
    BY <1>3 DEF CallEvents
  <2>2. Listens(Append(events \o c, e), deltas, message, Append(Pairs(c), <<e.call, e.arguments>>))
    BY <2>1, ListensOn
  <2>3. c \in Seq(AnyEvents)
    BY DEF CallEvents
  <2>4. Append(events \o c, e) = events \o Append(c, e)
    BY <1>1, <2>1, <2>3
  <2>5. Append(Pairs(c), <<e.call, e.arguments>>) = Pairs(Append(c, e))
    BY PairsGrow
  <2>6. Append(c, e) \in Seq(CallEvents)
    OBVIOUS
  <2> QED BY <2>2, <2>4, <2>5, <2>6
<1>4. \A c \in Seq(CallEvents) : c \in T
  <2> HIDE DEF T
  <2> QED BY <1>2, <1>3, Lengthened
<1> QED
  BY <1>4

\* What a stream ends with.
Ended(events, usage, calls) == events \o S!If(usage, <<S!Event("usage")>>) \o calls \o S!Completed

LEMMA EventsAre ==
  /\ \A type \in EventTypes \ {"call"} : S!Event(type) \in OtherEvents /\ S!Event(type).type = type
  /\ \A k \in Int, a \in Arguments : S!CallEvent(k, a) \in CallEvents
  /\ \A k, a : S!CallEvent(k, a) = [type |-> "call", call |-> k, arguments |-> a]
  /\ CallEvents \subseteq AnyEvents /\ OtherEvents \subseteq AnyEvents
<1>1. ASSUME NEW type \in EventTypes \ {"call"}
      PROVE  S!Event(type) \in OtherEvents /\ S!Event(type).type = type
  BY DEF S!Event, AnyEvents, OtherEvents, Arguments
<1>2. ASSUME NEW k \in Int, NEW a \in Arguments PROVE S!CallEvent(k, a) \in CallEvents
  BY DEF S!CallEvent, AnyEvents, CallEvents, EventTypes
<1>3. CallEvents \subseteq AnyEvents /\ OtherEvents \subseteq AnyEvents
  BY DEF CallEvents, OtherEvents
<1> QED
  BY <1>1, <1>2, <1>3 DEF S!CallEvent

\* The calls and the deltas of a log.
Speaks(events, calls, deltas) ==
  events \in Seq(AnyEvents) /\ OfType(events, "call") = calls /\ OfType(events, "delta") = deltas

LEMMA SpeaksOn ==
  ASSUME NEW x, NEW y, NEW c, NEW d, NEW more, NEW none, none = <<>>, Speaks(x, c, d)
  PROVE  /\ Speaks(y, none, none) => Speaks(Join(0, x, y), c, d)
         /\ c = none /\ Speaks(y, more, none) => Speaks(Join(0, x, y), more, d)
<1>1. SUFFICES ASSUME NEW e, Speaks(y, e, none), e = none \/ c = none
               PROVE  Speaks(Join(0, x, y), IF e = none THEN c ELSE e, d)
  <2>1. \A e : Speaks(y, e, none) /\ (e = none \/ c = none) => Speaks(Join(0, x, y), IF e = none THEN c ELSE e, d)
    BY <1>1
  <2>2. c = none /\ more = none => c = more
    OBVIOUS
  <2> QED BY <2>1, <2>2
<1>2. x \in Seq(AnyEvents) /\ y \in Seq(AnyEvents)
  BY <1>1 DEF Speaks
<1>3. PICK z \in Seq(AnyEvents) : z = Join(0, x, y)
  <2>1. Join(0, x, y) \in Seq(AnyEvents)
    BY <1>2, JoinIsSeq
  <2> QED BY <2>1
<1>4. \A type : /\ OfType(z, type) = Join(0, OfType(x, type), OfType(y, type))
                /\ OfType(x, type) \in Seq(AnyEvents) /\ OfType(y, type) \in Seq(AnyEvents)
  <2>1. SUFFICES ASSUME NEW type
                 PROVE  /\ OfType(z, type) = Join(0, OfType(x, type), OfType(y, type))
                        /\ OfType(x, type) \in Seq(AnyEvents) /\ OfType(y, type) \in Seq(AnyEvents)
    OBVIOUS
  <2> QED BY <1>2, <1>3, PickedOfBoth
<1>5. OfType(z, "call") = c \o e /\ OfType(z, "delta") = d \o none /\ c \in Seq(AnyEvents)
      /\ d \in Seq(AnyEvents) /\ e \in Seq(AnyEvents)
  BY <1>1, <1>4 DEF Speaks, Join
<1>6. \A q \in Seq(AnyEvents) : q \o none = q /\ none \o q = q
  OBVIOUS
<1>7. c \o e = (IF e = none THEN c ELSE e) /\ d \o none = d
  BY <1>1, <1>5, <1>6
<1> QED
  BY <1>3, <1>5, <1>7 DEF Speaks

LEMMA SpeaksOfNeither ==
  ASSUME NEW type \in EventTypes \ {"call", "delta"}
  PROVE  Speaks(<<S!Event(type)>>, <<>>, <<>>)
<1> DEFINE Q == {e \in AnyEvents : e.type # "call" /\ e.type # "delta"}
<1>1. PICK e \in Q : e = S!Event(type)
  BY EventsAre
<1>2. <<e>> \in Seq(Q)
  <2> HIDE DEF Q
  <2> QED OBVIOUS
<1>3. \A q \in Seq(Q) : OfType(q, "call") = <<>> /\ OfType(q, "delta") = <<>>
  <2>1. \A x \in Q : x.type # "call" /\ x.type # "delta"
    OBVIOUS
  <2> HIDE DEF Q
  <2> QED BY <2>1, PickedNone
<1>4. <<e>> \in Seq(AnyEvents)
  BY <1>1
<1> QED
  BY <1>1, <1>2, <1>3, <1>4 DEF Speaks

LEMMA EndedCalls ==
  ASSUME NEW events, NEW deltas, NEW usage \in BOOLEAN, NEW calls \in Seq(CallEvents),
         Speaks(events, <<>>, deltas)
  PROVE  Speaks(Ended(events, usage, calls), calls, deltas)
<1>1. PICK none : none = <<>>
  OBVIOUS
<1>2. PICK u : u = S!If(usage, <<S!Event("usage")>>) /\ Speaks(u, none, none)
  <2>1. Speaks(<<S!Event("usage")>>, none, none)
    BY <1>1, SpeaksOfNeither DEF EventTypes
  <2>2. Speaks(<<>>, none, none)
    BY <1>1, PickedOfNone DEF Speaks
  <2> QED BY <2>1, <2>2 DEF S!If
<1>3. PICK v : v = S!Completed /\ Speaks(v, none, none)
  <2>1. Speaks(<<S!Event("completed")>>, none, none)
    BY <1>1, SpeaksOfNeither DEF EventTypes
  <2> QED BY <2>1 DEF S!Completed
<1>4. Speaks(calls, calls, none)
  <2>1. \A e \in CallEvents : e.type = "call" /\ e.type # "delta"
    BY DEF CallEvents
  <2>2. OfType(calls, "call") = calls /\ OfType(calls, "delta") = <<>>
    BY <2>1, PickedAll, PickedNone
  <2>3. calls \in Seq(AnyEvents)
    BY DEF CallEvents
  <2> QED BY <1>1, <2>2, <2>3 DEF Speaks
<1>5. PICK w : w = Join(0, events, u) /\ Speaks(w, none, deltas)
  BY <1>1, <1>2, SpeaksOn
<1>6. PICK x : x = Join(0, w, calls) /\ Speaks(x, calls, deltas)
  BY <1>1, <1>4, <1>5, SpeaksOn
<1>7. Speaks(Join(0, x, v), calls, deltas)
  BY <1>1, <1>3, <1>6, SpeaksOn
<1>8. Ended(events, usage, calls) = Join(0, x, v)
  BY <1>2, <1>3, <1>5, <1>6 DEF Ended, Join
<1> QED
  BY <1>7, <1>8

LEMMA EndedMeans ==
  ASSUME NEW events, NEW deltas \in BOOLEAN, NEW message \in BOOLEAN, NEW usage \in BOOLEAN,
         NEW calls \in Seq(CallEvents), Listens(events, deltas, message, <<>>)
  PROVE  S!Outcome(Ended(events, usage, calls)) =
           Concluded([deltas |-> deltas, message |-> message, calls |-> Pairs(calls), end |-> "completed"])
<1>1. events \in Seq(AnyEvents)
  BY DEF Listens
<1>2. PICK w : w = events \o S!If(usage, <<S!Event("usage")>>) /\ Listens(w, deltas, message, <<>>)
  <2> DEFINE e == S!Event("usage")
  <2>1. e \in AnyEvents /\ e.type = "usage"
    BY EventsAre DEF EventTypes
  <2>2. Listens(Append(events, e), deltas, message, <<>>)
    BY <2>1, ListensOn
  <2>3. events \o <<e>> = Append(events, e) /\ events \o <<>> = events
    BY <1>1, <2>1
  <2> QED BY <2>2, <2>3 DEF S!If
<1>3. Listens(w \o calls, deltas, message, Pairs(calls))
  BY <1>2, ListensToCalls
<1>4. PICK x : x = w \o calls
  OBVIOUS
<1> DEFINE e == S!Event("completed")
<1>5. e \in AnyEvents /\ e.type = "completed"
  BY EventsAre DEF EventTypes
<1>6. PICK d : d = Pairs(calls)
  OBVIOUS
<1>9. HasListened(Append(x, e), deltas, message, d)
  <2>1. Listens(x, deltas, message, d)
    BY <1>3, <1>4, <1>6
  <2> HIDE DEF e
  <2> QED BY <2>1, <1>5, ListensOn
<1>7. x \o <<e>> = Append(x, e)
  BY <1>3, <1>4, <1>5 DEF Listens
<1>8. Ended(events, usage, calls) = Append(x, e)
  BY <1>2, <1>4, <1>7 DEF Ended, S!Completed
<1> QED
  BY <1>6, <1>8, <1>9, OutcomeIs DEF HasListened

\* Calls with what the model gave for each of them are what was expected.
LEMMA EndedAsExpected ==
  ASSUME NEW events, NEW deltas \in BOOLEAN, NEW message \in BOOLEAN, NEW usage \in BOOLEAN,
         NEW ks \in Seq(Int), Listens(events, deltas, message, <<>>)
  PROVE  S!Outcome(Ended(events, usage, S!Calls(ks))) = Expected(deltas \/ message, ks)
<1>1. PICK n \in Nat : n = Len(ks) /\ DOMAIN ks = 1..n
  <2>1. Len(ks) \in Nat /\ DOMAIN ks = 1..Len(ks)
    OBVIOUS
  <2> QED BY <2>1, Zenon
<1>2. PICK c \in Seq(CallEvents) : c = S!Calls(ks)
  <2>1. \A i \in 1..n : S!CallEvent(ks[i], "given") \in CallEvents
    BY <1>1, EventsAre DEF Arguments
  <2>2. [i \in 1..n |-> S!CallEvent(ks[i], "given")] \in Seq(CallEvents)
    BY <2>1
  <2> QED BY <1>1, <2>2 DEF S!Calls
<1>3. c = [i \in 1..n |-> S!CallEvent(ks[i], "given")]
  BY <1>1, <1>2 DEF S!Calls
<1>4. Pairs(c) = [i \in 1..n |-> <<ks[i], "given">>]
  <2>1. \A i \in 1..n : c[i].call = ks[i] /\ c[i].arguments = "given"
    BY <1>3 DEF S!CallEvent
  <2>2. DOMAIN c = 1..n
    BY <1>3
  <2> QED BY <2>1, <2>2 DEF Pairs
<1>5. Pairs(c) = Given(ks)
  BY <1>1, <1>4 DEF Given
<1>6. Given(ks) # <<>> <=> ks # <<>>
  <2>1. PICK g : g = Given(ks)
    OBVIOUS
  <2>2. DOMAIN g = 1..n
    BY <1>1, <2>1 DEF Given
  <2>3. ks = <<>> <=> n = 0
    BY <1>1
  <2>4. CASE n = 0
    <3>1. g = <<>>
      BY <1>1, <2>1, <2>3, <2>4 DEF Given
    <3> QED BY <2>1, <2>3, <2>4, <3>1
  <2>5. CASE n # 0
    <3>1. 1 \in DOMAIN g /\ 1 \notin DOMAIN <<>>
      BY <2>2, <2>5
    <3> QED BY <2>1, <2>3, <2>5, <3>1
  <2> QED BY <2>4, <2>5
<1>7. S!Outcome(Ended(events, usage, c)) =
        Concluded([deltas |-> deltas, message |-> message, calls |-> Given(ks), end |-> "completed"])
  BY <1>5, EndedMeans
<1>8. Concluded([deltas |-> deltas, message |-> message, calls |-> Given(ks), end |-> "completed"])
        = Expected(deltas \/ message, ks)
  BY <1>6 DEF Concluded, Expected
<1> QED
  BY <1>2, <1>7, <1>8, SMTT(30)

-----------------------------------------------------------------------------
(* A chat stream                                                               *)

\* What a function gives for each element of a sequence.
Mapped(g, s) == [i \in DOMAIN s |-> g[s[i]]]

Mappable(A, B, g, s, e) == g \in [A -> B] /\ s \in Seq(A) /\ e \in A

LEMMA MappedAppend ==
  ASSUME NEW A, NEW B, NEW g, NEW s, NEW e, Mappable(A, B, g, s, e)
  PROVE  /\ Mapped(g, s) \in Seq(B) /\ Len(Mapped(g, s)) = Len(s)
         /\ Mapped(g, Append(s, e)) = Append(Mapped(g, s), g[e])
<1>a. g \in [A -> B] /\ s \in Seq(A) /\ e \in A
  BY SMTT(30) DEF Mappable
<1>1. PICK n \in Nat : n = Len(s) /\ DOMAIN s = 1..n
  <2>1. Len(s) \in Nat /\ DOMAIN s = 1..Len(s)
    BY <1>a
  <2> QED BY <2>1, Zenon
<1>2. PICK d \in Seq(A) : d = Append(s, e)
  <2>1. Append(s, e) \in Seq(A)
    BY <1>a
  <2> QED BY <2>1
<1>3. Len(d) = n + 1 /\ DOMAIN d = 1..(n + 1) /\ d[n + 1] = e /\ \A i \in 1..n : d[i] = s[i]
  BY <1>1, <1>2, <1>a
<1>4. PICK a : a = Mapped(g, s)
  OBVIOUS
<1>5. PICK b : b = Mapped(g, d)
  OBVIOUS
<1>6. a = [i \in 1..n |-> g[s[i]]] /\ b = [i \in 1..(n + 1) |-> g[d[i]]]
  BY <1>1, <1>3, <1>4, <1>5 DEF Mapped
<1>7. \A i \in 1..n : g[s[i]] \in B
  <2>1. \A i \in 1..n : s[i] \in A
    BY <1>1, <1>a
  <2> QED BY <1>a, <2>1
<1>8. \A i \in 1..(n + 1) : g[d[i]] \in B
  <2>1. \A i \in 1..(n + 1) : d[i] \in A
    BY <1>3
  <2> QED BY <1>a, <2>1
<1>9. a \in Seq(B) /\ Len(a) = n
  BY <1>6, <1>7
<1>10. b \in Seq(B) /\ Len(b) = n + 1
  BY <1>6, <1>8
<1>11. PICK x \in B : x = g[e]
  BY <1>a
<1>12. \A i \in 1..(n + 1) : b[i] = IF i = n + 1 THEN x ELSE a[i]
  BY <1>3, <1>6, <1>11
<1>13. b = Append(a, x)
  BY <1>9, <1>10, <1>12, SameSeq
<1> QED
  BY <1>1, <1>2, <1>4, <1>5, <1>9, <1>11, <1>13

\* As many calls at once as one likes; the piece that opens one has its name.
SomePieces == {"open", "close"}
AnyChunks(n) ==
  {c \in [text : BOOLEAN, usage : BOOLEAN, index : -1..n, id : -1..n, pieces : Seq(SomePieces)] :
     c.index # -1 => c.id = c.index \/ (c.id = -1 /\ \A i \in 1..Len(c.pieces) : c.pieces[i] # "open")}

PiecesFor(chunk, k) == IF chunk.index = k THEN chunk.pieces ELSE <<>>

LEMMA PiecesAppend ==
  ASSUME NEW n \in Nat, NEW chunks \in Seq(AnyChunks(n)), NEW c \in AnyChunks(n), NEW k
  PROVE  /\ PiecesOf(chunks, k) \in Seq(SomePieces)
         /\ PiecesOf(Append(chunks, c), k) = Join(0, PiecesOf(chunks, k), PiecesFor(c, k))
<1>1. PICK B : B = Seq(SomePieces)
  OBVIOUS
<1>2. PICK C : C = AnyChunks(n)
  OBVIOUS
<1>3. \A x \in C : PiecesFor(x, k) \in B
  <2>1. \A x \in C : x.pieces \in Seq(SomePieces)
    BY <1>2 DEF AnyChunks
  <2>2. <<>> \in Seq(SomePieces)
    OBVIOUS
  <2> QED BY <1>1, <2>1, <2>2 DEF PiecesFor
<1>4. PICK g \in [C -> B] : \A x \in C : g[x] = PiecesFor(x, k)
  <2>1. [x \in C |-> PiecesFor(x, k)] \in [C -> B]
    BY <1>3
  <2> QED BY <2>1
<1>5. ASSUME NEW s \in Seq(C) PROVE PiecesOf(s, k) = FlattenSeq(Mapped(g, s))
  <2>1. \A i \in DOMAIN s : s[i] \in C
    OBVIOUS
  <2>2. \A i \in DOMAIN s : g[s[i]] = IF s[i].index = k THEN s[i].pieces ELSE <<>>
    BY <1>4, <2>1 DEF PiecesFor
  <2>3. Mapped(g, s) = [i \in DOMAIN s |-> IF s[i].index = k THEN s[i].pieces ELSE <<>>]
    BY <2>2 DEF Mapped
  <2> QED BY <2>3 DEF PiecesOf
<1>6. PICK a \in Seq(B), x \in B : a = Mapped(g, chunks) /\ x = g[c] /\ Mapped(g, Append(chunks, c)) = Append(a, x)
  <2>1. Mappable(C, B, g, chunks, c)
    BY <1>2 DEF Mappable
  <2>2. Mapped(g, chunks) \in Seq(B) /\ Mapped(g, Append(chunks, c)) = Append(Mapped(g, chunks), g[c])
    BY <2>1, MappedAppend
  <2>3. g[c] \in B
    BY <2>1 DEF Mappable
  <2> QED BY <2>2, <2>3
<1>7. Joinable(SomePieces, B, a, x)
  BY <1>1 DEF Joinable
<1>8. FlattenSeq(a) \in Seq(SomePieces) /\ FlattenSeq(Append(a, x)) = FlattenSeq(a) \o x
  BY <1>7, FlattenAppend
<1>9. Append(chunks, c) \in Seq(C) /\ chunks \in Seq(C)
  BY <1>2
<1> QED
  BY <1>2, <1>4, <1>5, <1>6, <1>8, <1>9 DEF Join

LEMMA NoPieces ==
  ASSUME NEW k
  PROVE  PiecesOf(<<>>, k) = <<>>
  BY DEF PiecesOf, FlattenSeq

\* How many of the chunks have a text.
Texting(chunks) == {i \in DOMAIN chunks : chunks[i].text}

LEMMA TextsOneMore ==
  ASSUME NEW A, \A c \in A : c.text \in BOOLEAN, NEW chunks \in Seq(A), NEW c \in A
  PROVE  /\ Cardinality(Texting(chunks)) \in Nat
         /\ Cardinality(Texting(Append(chunks, c))) = Cardinality(Texting(chunks)) + (IF c.text THEN 1 ELSE 0)
<1>1. PICK n \in Nat : n = Len(chunks) /\ DOMAIN chunks = 1..n
  <2>1. Len(chunks) \in Nat /\ DOMAIN chunks = 1..Len(chunks)
    OBVIOUS
  <2> QED BY <2>1, Zenon
<1>2. PICK d : d = Append(chunks, c)
  OBVIOUS
<1>3. DOMAIN d = 1..(n + 1) /\ d[n + 1] = c /\ \A i \in 1..n : d[i] = chunks[i]
  BY <1>1, <1>2
<1>4. PICK N : N = Texting(chunks)
  OBVIOUS
<1>5. N \subseteq 1..n
  BY <1>1, <1>4 DEF Texting
<1>6. IsFiniteSet(1..n)
  BY FS_Interval
<1>7. IsFiniteSet(N) /\ Cardinality(N) \in Nat
  BY <1>5, <1>6, FS_Subset, FS_CardinalityType
<1>8. Texting(d) = IF c.text THEN N \cup {n + 1} ELSE N
  BY <1>1, <1>3, <1>4 DEF Texting
<1>9. n + 1 \notin N
  BY <1>5
<1>10. Cardinality(N \cup {n + 1}) = Cardinality(N) + 1
  BY <1>7, <1>9, FS_AddElement
<1> QED
  BY <1>2, <1>4, <1>7, <1>8, <1>10

LEMMA NoTexts == Cardinality(Texting(<<>>)) = 0
<1>1. Texting(<<>>) = {}
  BY DEF Texting
<1> QED
  BY <1>1, FS_EmptySet

Deltas == {S!Event("delta")}
ChatRead(chunks) ==
  Chatting!Folded(0, [out |-> <<>>, usage |-> FALSE, parts |-> [j \in {} |-> S!NoPart]], chunks)

\* A part has the pieces of its call, and its name once it has been opened.
Assembled(part, pieces, k) ==
  part.pieces = pieces /\ part.id \in Int /\ (part.id = k \/ \A i \in 1..Len(pieces) : pieces[i] # "open")

ChatSoFar(n, chunks, s) ==
  /\ s.out \in Seq(Deltas) /\ Len(s.out) = Cardinality(Texting(chunks))
  /\ s.usage \in BOOLEAN
  /\ DOMAIN s.parts = Indices(chunks)
  /\ \A k \in Indices(chunks) : Assembled(s.parts[k], PiecesOf(chunks, k), k)
  /\ \A k \in (0..n) \ Indices(chunks) : PiecesOf(chunks, k) = <<>>

LEMMA IndicesAppend ==
  ASSUME NEW A, NEW chunks \in Seq(A), NEW c \in A
  PROVE  Indices(Append(chunks, c)) = Indices(chunks) \cup ({c.index} \ {-1})
<1>1. PICK n \in Nat : n = Len(chunks) /\ DOMAIN chunks = 1..n
  <2>1. Len(chunks) \in Nat /\ DOMAIN chunks = 1..Len(chunks)
    OBVIOUS
  <2> QED BY <2>1, Zenon
<1>2. PICK d : d = Append(chunks, c)
  OBVIOUS
<1>3. DOMAIN d = 1..(n + 1) /\ d[n + 1] = c /\ \A i \in 1..n : d[i] = chunks[i]
  BY <1>1, <1>2
<1>4. {d[i].index : i \in 1..(n + 1)} = {chunks[i].index : i \in 1..n} \cup {c.index}
  <2>1. ASSUME NEW i \in 1..n PROVE chunks[i].index \in {d[j].index : j \in 1..(n + 1)}
    <3>1. i \in 1..(n + 1)
      OBVIOUS
    <3> QED BY <1>3, <3>1
  <2>2. c.index \in {d[j].index : j \in 1..(n + 1)}
    <3>1. n + 1 \in 1..(n + 1)
      OBVIOUS
    <3> QED BY <1>3, <3>1
  <2>3. ASSUME NEW i \in 1..(n + 1) PROVE d[i].index \in {chunks[j].index : j \in 1..n} \cup {c.index}
    <3>1. i \in 1..n \/ i = n + 1
      OBVIOUS
    <3> QED BY <1>3, <3>1
  <2> QED BY <2>1, <2>2, <2>3
<1> QED
  BY <1>1, <1>2, <1>3, <1>4, SMTT(30) DEF Indices

LEMMA PartIsAssembled ==
  ASSUME NEW n \in Nat, NEW c \in AnyChunks(n), NEW k \in 0..n, c.index = k,
         NEW part, NEW pieces \in Seq(SomePieces), Assembled(part, pieces, k)
  PROVE  Assembled([id |-> IF c.id # -1 THEN c.id ELSE part.id, pieces |-> Join(0, part.pieces, c.pieces)],
                   Join(0, pieces, c.pieces), k)
<1>1. PICK more \in Seq(SomePieces) : /\ more = c.pieces
                                      /\ c.id = k \/ (c.id = -1 /\ \A i \in 1..Len(more) : more[i] # "open")
  BY DEF AnyChunks
<1>2. part.pieces = pieces /\ part.id \in Int /\ (part.id = k \/ \A i \in 1..Len(pieces) : pieces[i] # "open")
  BY DEF Assembled
<1>3. ASSUME \A i \in 1..Len(pieces) : pieces[i] # "open", \A i \in 1..Len(more) : more[i] # "open"
      PROVE  \A i \in 1..Len(pieces \o more) : (pieces \o more)[i] # "open"
  <2>1. \A i \in 1..Len(pieces \o more) : IF i <= Len(pieces) THEN (pieces \o more)[i] = pieces[i]
                                         ELSE i - Len(pieces) \in 1..Len(more) /\ (pieces \o more)[i] = more[i - Len(pieces)]
    OBVIOUS
  <2>2. Len(pieces) \in Nat
    OBVIOUS
  <2> QED BY <1>3, <2>1, <2>2
<1>4. c.id \in Int
  BY DEF AnyChunks
<1> QED
  BY <1>1, <1>2, <1>3, <1>4 DEF Assembled, Join

LEMMA ChatOfNoChunks ==
  ASSUME NEW n \in Nat
  PROVE  ChatSoFar(n, <<>>, ChatRead(<<>>))
<1> DEFINE None == <<>>
           first == [out |-> <<>>, usage |-> FALSE, parts |-> [j \in {} |-> S!NoPart]]
<1>1. Len(None) = 0
  OBVIOUS
<1>2. Chatting!Folded(0, first, None) = first
  <2> HIDE DEF None, first
  <2> QED BY <1>1, Chatting!FoldedNone
<1>3. ChatRead(<<>>) = first
  BY <1>2 DEF ChatRead
<1>4. first.out = <<>> /\ first.usage = FALSE /\ DOMAIN first.parts = {}
  OBVIOUS
<1>5. Indices(<<>>) = {}
  BY DEF Indices
<1>6. <<>> \in Seq(Deltas) /\ Len(<<>>) = 0
  OBVIOUS
<1> HIDE DEF first
<1> QED
  BY <1>3, <1>4, <1>5, <1>6, NoPieces, NoTexts DEF ChatSoFar

LEMMA ChatNextChunk ==
  ASSUME NEW n \in Nat, NEW chunks \in Seq(AnyChunks(n)), NEW c \in AnyChunks(n), NEW s,
         ChatSoFar(n, chunks, s)
  PROVE  ChatSoFar(n, Append(chunks, c), S!ChatChunk(s, c))
<1>1. PICK more : more = Append(chunks, c)
  OBVIOUS
<1>2. c.text \in BOOLEAN /\ c.usage \in BOOLEAN /\ c.index \in -1..n /\ c.pieces \in Seq(SomePieces)
  BY DEF AnyChunks
<1>3. PICK next : next = S!ChatChunk(s, c)
  OBVIOUS
<1>4. next.out \in Seq(Deltas) /\ Len(next.out) = Cardinality(Texting(more))
  <2>1. PICK out \in Seq(Deltas) : out = s.out /\ Len(out) = Cardinality(Texting(chunks))
    BY DEF ChatSoFar
  <2>2. Cardinality(Texting(more)) = Len(out) + (IF c.text THEN 1 ELSE 0)
    <3>1. \A x \in AnyChunks(n) : x.text \in BOOLEAN
      BY DEF AnyChunks
    <3> QED BY <1>1, <2>1, <3>1, TextsOneMore
  <2>3. PICK e \in Deltas : e = S!Event("delta")
    BY DEF Deltas
  <2>4. next.out = out \o IF c.text THEN <<e>> ELSE <<>>
    BY <1>3, <2>1, <2>3 DEF S!ChatChunk, S!If
  <2>5. /\ out \o <<e>> \in Seq(Deltas) /\ Len(out \o <<e>>) = Len(out) + 1
        /\ out \o <<>> = out
    OBVIOUS
  <2> QED BY <1>2, <2>2, <2>4, <2>5
<1>5. next.usage \in BOOLEAN
  BY <1>2, <1>3 DEF S!ChatChunk, ChatSoFar
<1>6. Indices(more) = Indices(chunks) \cup ({c.index} \ {-1})
  BY <1>1, IndicesAppend
<1>7. DOMAIN s.parts = Indices(chunks)
  BY DEF ChatSoFar
<1>8. \A k : PiecesOf(chunks, k) \in Seq(SomePieces) /\ PiecesOf(more, k) = Join(0, PiecesOf(chunks, k), PiecesFor(c, k))
  BY <1>1, PiecesAppend
<1>9. \A k : k # c.index => PiecesOf(more, k) = PiecesOf(chunks, k)
  <2>1. SUFFICES ASSUME NEW k, k # c.index PROVE PiecesOf(more, k) = PiecesOf(chunks, k)
    OBVIOUS
  <2>2. PICK p \in Seq(SomePieces) : p = PiecesOf(chunks, k) /\ PiecesOf(more, k) = Join(0, p, PiecesFor(c, k))
    BY <1>8
  <2>3. p \o <<>> = p
    OBVIOUS
  <2> QED BY <2>1, <2>2, <2>3 DEF Join, PiecesFor
<1>10. CASE c.index = -1
  <2>1. next.parts = s.parts /\ Indices(more) = Indices(chunks)
    BY <1>3, <1>6, <1>10 DEF S!ChatChunk
  <2>2. \A k \in 0..n : PiecesOf(more, k) = PiecesOf(chunks, k)
    BY <1>9, <1>10
  <2>3. \A k \in Indices(chunks) : PiecesOf(more, k) = PiecesOf(chunks, k)
    BY <1>9, <1>10 DEF Indices
  <2> QED BY <1>1, <1>3, <1>4, <1>5, <2>1, <2>2, <2>3 DEF ChatSoFar
<1>11. CASE c.index # -1
  <2>1. PICK i \in 0..n : i = c.index
    BY <1>2, <1>11
  <2>2. PICK part : part = IF i \in DOMAIN s.parts THEN s.parts[i] ELSE S!NoPart
    OBVIOUS
  <2>3. PICK joined : joined = [id |-> IF c.id # -1 THEN c.id ELSE part.id, pieces |-> Join(0, part.pieces, c.pieces)]
    OBVIOUS
  <2>4. next.parts = [j \in DOMAIN s.parts \cup {i} |-> IF j = i THEN joined ELSE s.parts[j]]
    BY <1>3, <1>11, <2>1, <2>2, <2>3 DEF S!ChatChunk, S!PartOf, Join
  <2>5. Indices(more) = Indices(chunks) \cup {i}
    BY <1>6, <1>11, <2>1
  <2>6. PICK pieces \in Seq(SomePieces) : pieces = PiecesOf(chunks, i) /\ PiecesOf(more, i) = Join(0, pieces, c.pieces)
    BY <1>8, <2>1 DEF PiecesFor
  <2>7. Assembled(part, pieces, i)
    <3>1. CASE i \in Indices(chunks)
      BY <1>7, <2>2, <2>6, <3>1 DEF ChatSoFar
    <3>2. CASE i \notin Indices(chunks)
      <4>1. pieces = <<>>
        BY <2>6, <3>2 DEF ChatSoFar
      <4>2. part = S!NoPart
        BY <1>7, <2>2, <3>2
      <4> QED BY <4>1, <4>2 DEF S!NoPart, Assembled
    <3> QED BY <3>1, <3>2
  <2>8. Assembled(joined, PiecesOf(more, i), i)
    BY <2>1, <2>3, <2>6, <2>7, PartIsAssembled
  <2>9. ASSUME NEW k \in Indices(more) PROVE Assembled(next.parts[k], PiecesOf(more, k), k)
    <3>1. CASE k = i
      BY <1>7, <2>4, <2>5, <2>8, <3>1
    <3>2. CASE k # i
      <4>1. k \in Indices(chunks) /\ next.parts[k] = s.parts[k]
        BY <1>7, <2>4, <2>5, <2>9, <3>2
      <4>2. PiecesOf(more, k) = PiecesOf(chunks, k)
        BY <1>9, <2>1, <3>2
      <4> QED BY <4>1, <4>2 DEF ChatSoFar
    <3> QED BY <3>1, <3>2
  <2>10. ASSUME NEW k \in (0..n) \ Indices(more) PROVE PiecesOf(more, k) = <<>>
    <3>1. k # i /\ k \in (0..n) \ Indices(chunks)
      BY <2>5, <2>10
    <3> QED BY <1>9, <2>1, <3>1 DEF ChatSoFar
  <2>11. DOMAIN next.parts = Indices(more)
    BY <1>7, <2>4, <2>5
  <2> QED BY <1>1, <1>3, <1>4, <1>5, <2>9, <2>10, <2>11 DEF ChatSoFar
<1> QED
  BY <1>10, <1>11

LEMMA ChatIsRead ==
  ASSUME NEW n \in Nat, NEW chunks \in Seq(AnyChunks(n))
  PROVE  ChatSoFar(n, chunks, ChatRead(chunks))
<1> DEFINE C == AnyChunks(n)
           T == {x \in Seq(C) : ChatSoFar(n, x, ChatRead(x))}
<1>1. ASSUME NEW x \in Seq(C), Len(x) = 0 PROVE x \in T
  <2>1. x = <<>>
    BY <1>1
  <2> QED BY <2>1, ChatOfNoChunks
<1>2. ASSUME NEW x \in Seq(C), NEW c \in C, x \in T PROVE Append(x, c) \in T
  <2>1. ChatRead(Append(x, c)) = S!ChatChunk(ChatRead(x), c)
    BY Chatting!FoldedAppend DEF ChatRead, Reading
  <2>2. ChatSoFar(n, Append(x, c), S!ChatChunk(ChatRead(x), c))
    BY <1>2, ChatNextChunk
  <2>3. Append(x, c) \in Seq(C)
    <3> HIDE DEF C
    <3> QED OBVIOUS
  <2> QED BY <2>1, <2>2, <2>3
<1>3. \A x \in Seq(C) : x \in T
  <2> HIDE DEF T, C
  <2> QED BY <1>1, <1>2, Lengthened
<1> QED
  BY <1>3

\* The numbers of a finite set in their order, each once.
LEMMA AscendingIs ==
  ASSUME NEW n \in Nat, NEW N, N \subseteq 0..n
  PROVE  /\ S!Ascending(N) \in [1..Cardinality(N) -> N] /\ Cardinality(N) \in Nat
         /\ \A i, j \in 1..Cardinality(N) : i < j => S!Ascending(N)[i] < S!Ascending(N)[j]
<1>1. IsFiniteSet(N) /\ Cardinality(N) \in Nat
  <2>1. IsFiniteSet(0..n) /\ N \in SUBSET (0..n)
    BY FS_Interval
  <2>2. IsFiniteSet(N)
    BY <2>1, FS_Subset
  <2> QED BY <2>2, FS_CardinalityType
<1>2. PICK key \in [N -> 0..n] : \A x \in N : key[x] = x
  <2>1. [x \in N |-> x] \in [N -> 0..n]
    OBVIOUS
  <2> QED BY <2>1
<1>3. \A x, y \in N : key[x] = key[y] => x = y
  BY <1>2
<1>4. PICK s \in [1..Cardinality(N) -> N] : \A i, j \in 1..Cardinality(N) : i < j => key[s[i]] < key[s[j]]
  BY <1>1, <1>3, InOrder
<1>5. \A i, j \in 1..Cardinality(N) : i < j => s[i] < s[j]
  BY <1>2, <1>4
<1>6. S!Cardinality(N) = Cardinality(N)
  BY DEF S!Cardinality, Cardinality
<1>7. \E f \in [1..S!Cardinality(N) -> N] : \A i, j \in DOMAIN f : i < j => f[i] < f[j]
  BY <1>5, <1>6
<1>8. /\ S!Ascending(N) \in [1..S!Cardinality(N) -> N]
      /\ \A i, j \in DOMAIN S!Ascending(N) : i < j => S!Ascending(N)[i] < S!Ascending(N)[j]
  BY <1>7 DEF S!Ascending
<1> QED
  BY <1>1, <1>6, <1>8

LEMMA DeltasAre ==
  ASSUME NEW out \in Seq(Deltas)
  PROVE  Speaks(out, <<>>, out) /\ \E some \in BOOLEAN : (some <=> Len(out) > 0) /\ Listens(out, some, FALSE, <<>>)
<1>1. \A e \in Deltas : e \in AnyEvents /\ e.type = "delta" /\ e.type # "call"
  BY EventsAre DEF Deltas, EventTypes
<1>2. Speaks(out, <<>>, out)
  <2>1. OfType(out, "call") = <<>> /\ OfType(out, "delta") = out
    BY <1>1, PickedAll, PickedNone
  <2>2. out \in Seq(AnyEvents)
    BY <1>1
  <2> QED BY <2>1, <2>2 DEF Speaks
<1> DEFINE T == {x \in Seq(Deltas) : \E some \in BOOLEAN : (some <=> Len(x) > 0) /\ Listens(x, some, FALSE, <<>>)}
<1>3. ASSUME NEW x \in Seq(Deltas), Len(x) = 0 PROVE x \in T
  <2>1. x = <<>> /\ ~(Len(x) > 0)
    BY <1>3
  <2> QED BY <2>1, ListensFirst
<1>4. ASSUME NEW x \in Seq(Deltas), NEW e \in Deltas, x \in T PROVE Append(x, e) \in T
  <2>1. PICK some \in BOOLEAN : (some <=> Len(x) > 0) /\ Listens(x, some, FALSE, <<>>)
    BY <1>4
  <2>2. Listens(Append(x, e), TRUE, FALSE, <<>>)
    BY <1>1, <2>1, ListensOn
  <2>3. Append(x, e) \in Seq(Deltas) /\ Len(Append(x, e)) > 0
    OBVIOUS
  <2> QED BY <2>2, <2>3
<1>5. \A x \in Seq(Deltas) : x \in T
  <2> HIDE DEF T
  <2> QED BY <1>3, <1>4, Lengthened
<1> QED
  BY <1>2, <1>5

PartCall(part) == S!CallEvent(part.id, S!ParseArguments(part.pieces))

LEMMA ChatStreamIs ==
  ASSUME NEW chunks, NEW s, s = ChatRead(chunks), NEW order, order = S!Ascending(DOMAIN s.parts)
  PROVE  S!ChatStream(chunks) = Ended(s.out, s.usage, [j \in DOMAIN order |-> PartCall(s.parts[order[j]])])
  BY DEF S!ChatStream, ChatRead, Chatting!Folded, Reading, Ended, PartCall

\* What the turn hears of a chat stream.
ChatHeard(chunks, events, ks) ==
  LET calls == OfType(events, "call") IN
  /\ Len(ks) = Cardinality(Indices(chunks))
  /\ \A i, j \in DOMAIN ks : ks[i] \in Indices(chunks) /\ (i < j => ks[i] < ks[j])
  /\ Len(calls) = Len(ks)
  /\ \A i \in DOMAIN ks : PiecesOf(chunks, ks[i]) = <<"open", "close">> => calls[i] = S!CallEvent(ks[i], "given")
  /\ Len(OfType(events, "delta")) = Cardinality({i \in DOMAIN chunks : chunks[i].text})
  /\ Whole(chunks) => S!Outcome(events) = Expected(\E i \in DOMAIN chunks : chunks[i].text, ks)

\* However the pieces of any number of calls are interleaved in a chat stream.
THEOREM CallsAreAssembled ==
  ASSUME NEW n \in Nat, NEW chunks \in Seq(AnyChunks(n))
  PROVE  ChatHeard(chunks, S!ChatStream(chunks), S!Ascending(Indices(chunks)))
<1>1. PICK s, order : /\ s = ChatRead(chunks) /\ order = S!Ascending(DOMAIN s.parts)
                      /\ S!ChatStream(chunks) =
                           Ended(s.out, s.usage, [j \in DOMAIN order |-> PartCall(s.parts[order[j]])])
  BY ChatStreamIs
<1>2. ChatSoFar(n, chunks, s)
  BY <1>1, ChatIsRead
<1>3. PICK N : N = Indices(chunks) /\ N \subseteq 0..n
  <2>3. \A i \in -1..n : i # -1 => i \in 0..n
    OBVIOUS
  <2>1. \A i \in DOMAIN chunks : chunks[i] \in AnyChunks(n)
    OBVIOUS
  <2>2. \A i \in DOMAIN chunks : chunks[i].index \in -1..n
    BY <2>1 DEF AnyChunks
  <2> QED BY <2>2, <2>3 DEF Indices
<1>4. order = S!Ascending(N)
  BY <1>1, <1>2, <1>3 DEF ChatSoFar
<1>5. PICK m \in Nat : m = Cardinality(N) /\ order \in [1..m -> N] /\ \A i, j \in 1..m : i < j => order[i] < order[j]
  BY <1>3, <1>4, AscendingIs
<1>6. order \in Seq(Int) /\ Len(order) = m /\ DOMAIN order = 1..m
  BY <1>3, <1>5
<1>7. ASSUME NEW k \in N
      PROVE  /\ PartCall(s.parts[k]) \in CallEvents
             /\ PiecesOf(chunks, k) = <<"open", "close">> => PartCall(s.parts[k]) = S!CallEvent(k, "given")
  <2>1. PICK pieces : pieces = PiecesOf(chunks, k) /\ Assembled(s.parts[k], pieces, k)
    BY <1>2, <1>3 DEF ChatSoFar
  <2>2. PartCall(s.parts[k]) \in CallEvents
    <3>1. S!ParseArguments(pieces) \in Arguments
      BY DEF S!ParseArguments, Arguments
    <3> QED BY <2>1, <3>1, EventsAre DEF PartCall, Assembled
  <2>3. ASSUME pieces = <<"open", "close">> PROVE PartCall(s.parts[k]) = S!CallEvent(k, "given")
    <3>1. 1 \in 1..Len(pieces) /\ pieces[1] = "open"
      BY <2>3
    <3>2. s.parts[k].id = k
      BY <2>1, <3>1 DEF Assembled
    <3>3. S!ParseArguments(s.parts[k].pieces) = "given"
      BY <2>1, <2>3 DEF Assembled, S!ParseArguments
    <3> QED BY <3>2, <3>3 DEF PartCall
  <2> QED BY <2>1, <2>2, <2>3
<1>8. PICK c : c = [j \in 1..m |-> PartCall(s.parts[order[j]])]
  OBVIOUS
<1>9. \A j \in 1..m : order[j] \in N /\ PartCall(s.parts[order[j]]) \in CallEvents
  BY <1>5, <1>7
<1>10. c \in Seq(CallEvents) /\ Len(c) = m
  BY <1>8, <1>9
<1>11. PICK out \in Seq(Deltas), usage \in BOOLEAN : out = s.out /\ usage = s.usage /\ Len(out) = Cardinality(Texting(chunks))
  BY <1>2 DEF ChatSoFar
<1>12. S!ChatStream(chunks) = Ended(out, usage, c)
  BY <1>1, <1>6, <1>8, <1>11
<1>13. Speaks(Ended(out, usage, c), c, out)
  BY <1>10, DeltasAre, EndedCalls
<1>14. ASSUME Whole(chunks)
       PROVE  S!Outcome(Ended(out, usage, c)) = Expected(\E i \in DOMAIN chunks : chunks[i].text, order)
  <2>1. \A j \in 1..m : PartCall(s.parts[order[j]]) = S!CallEvent(order[j], "given")
    BY <1>3, <1>7, <1>9, <1>14 DEF Whole
  <2>2. c = S!Calls(order)
    BY <1>6, <1>8, <2>1 DEF S!Calls
  <2>3. PICK some \in BOOLEAN : (some <=> Len(out) > 0) /\ Listens(out, some, FALSE, <<>>)
    BY DeltasAre
  <2>4. S!Outcome(Ended(out, usage, c)) = Expected(some \/ FALSE, order)
    BY <1>6, <2>2, <2>3, EndedAsExpected
  <2>5. some = (\E i \in DOMAIN chunks : chunks[i].text)
    <3>1. IsFiniteSet(Texting(chunks))
      <4>1. DOMAIN chunks = 1..Len(chunks) /\ Len(chunks) \in Nat
        OBVIOUS
      <4>2. IsFiniteSet(1..Len(chunks)) /\ Texting(chunks) \in SUBSET (1..Len(chunks))
        BY <4>1, FS_Interval DEF Texting
      <4> QED BY <4>2, FS_Subset
    <3>2. Cardinality(Texting(chunks)) = 0 <=> Texting(chunks) = {}
      BY <3>1, FS_EmptySet
    <3>3. Len(out) \in Nat
      OBVIOUS
    <3>4. some <=> Texting(chunks) # {}
      BY <1>11, <2>3, <3>2, <3>3
    <3>5. Texting(chunks) # {} <=> \E i \in DOMAIN chunks : chunks[i].text
      BY DEF Texting
    <3> QED BY <3>4, <3>5
  <2>6. (some \/ FALSE) = some
    OBVIOUS
  <2> QED BY <2>4, <2>5, <2>6
<1>15. \A i \in 1..m : PiecesOf(chunks, order[i]) = <<"open", "close">> => c[i] = S!CallEvent(order[i], "given")
  BY <1>7, <1>8, <1>9
<1>16. OfType(S!ChatStream(chunks), "call") = c /\ OfType(S!ChatStream(chunks), "delta") = out
  BY <1>12, <1>13 DEF Speaks
<1>17. Len(out) = Cardinality({i \in DOMAIN chunks : chunks[i].text})
  BY <1>11 DEF Texting
<1>18. \A i, j \in 1..m : order[i] \in N /\ (i < j => order[i] < order[j])
  BY <1>5
<1> QED
  BY <1>3, <1>4, <1>5, <1>6, <1>10, <1>12, <1>14, <1>15, <1>16, <1>17, <1>18 DEF ChatHeard

-----------------------------------------------------------------------------
(* A stream of the Responses dialect                                           *)

AnyRaws == [type : {"delta", "text", "item", "completed", "error", "other"}, calls : Seq(Int)]
Unfinished == {r \in AnyRaws : r.type # "completed"}

ResponseRead(raws) ==
  Responding!Folded(0, [out |-> <<>>, delta |-> FALSE, pending |-> <<>>, completed |-> FALSE], raws)

LEMMA ResponseStreamIs ==
  ASSUME NEW raws, NEW s, s = ResponseRead(raws)
  PROVE  S!ResponseStream(raws) = s.out \o S!If(~s.completed, S!Calls(s.pending) \o S!Completed)
  BY DEF S!ResponseStream, ResponseRead, Responding!Folded, RawReading

LEMMA ResponseReadNext ==
  ASSUME NEW raws \in Seq(AnyRaws), NEW r \in AnyRaws
  PROVE  ResponseRead(Append(raws, r)) = S!RawEvent(ResponseRead(raws), r)
  BY Responding!FoldedAppend DEF ResponseRead, RawReading

LEMMA ResponseOfNone ==
  ResponseRead(<<>>) = [out |-> <<>>, delta |-> FALSE, pending |-> <<>>, completed |-> FALSE]
<1> DEFINE None == <<>>
           first == [out |-> <<>>, delta |-> FALSE, pending |-> <<>>, completed |-> FALSE]
<1>1. Len(None) = 0
  OBVIOUS
<1>2. Responding!Folded(0, first, None) = first
  <2> HIDE DEF None, first
  <2> QED BY <1>1, Responding!FoldedNone
<1> QED
  BY <1>2 DEF ResponseRead

CallsOfItem(raw) == IF raw.type = "item" THEN raw.calls ELSE <<>>

LEMMA ItemsAppend ==
  ASSUME NEW raws \in Seq(AnyRaws), NEW r \in AnyRaws
  PROVE  /\ ItemCalls(raws) \in Seq(Int)
         /\ ItemCalls(Append(raws, r)) = Join(0, ItemCalls(raws), CallsOfItem(r))
<1>1. PICK B : B = Seq(Int)
  OBVIOUS
<1>2. PICK C : C = AnyRaws
  OBVIOUS
<1>3. \A x \in C : CallsOfItem(x) \in B
  <2>1. \A x \in C : x.calls \in Seq(Int)
    BY <1>2 DEF AnyRaws
  <2>2. <<>> \in Seq(Int)
    OBVIOUS
  <2> QED BY <1>1, <2>1, <2>2 DEF CallsOfItem
<1>4. PICK g \in [C -> B] : \A x \in C : g[x] = CallsOfItem(x)
  <2>1. [x \in C |-> CallsOfItem(x)] \in [C -> B]
    BY <1>3
  <2> QED BY <2>1
<1>5. ASSUME NEW s \in Seq(C) PROVE ItemCalls(s) = FlattenSeq(Mapped(g, s))
  <2>1. \A i \in DOMAIN s : s[i] \in C
    OBVIOUS
  <2>2. \A i \in DOMAIN s : g[s[i]] = IF s[i].type = "item" THEN s[i].calls ELSE <<>>
    BY <1>4, <2>1 DEF CallsOfItem
  <2>3. Mapped(g, s) = [i \in DOMAIN s |-> IF s[i].type = "item" THEN s[i].calls ELSE <<>>]
    BY <2>2 DEF Mapped
  <2> QED BY <2>3 DEF ItemCalls
<1>6. PICK a \in Seq(B), x \in B : a = Mapped(g, raws) /\ x = g[r] /\ Mapped(g, Append(raws, r)) = Append(a, x)
  <2>1. Mappable(C, B, g, raws, r)
    BY <1>2 DEF Mappable
  <2>2. Mapped(g, raws) \in Seq(B) /\ Mapped(g, Append(raws, r)) = Append(Mapped(g, raws), g[r])
    BY <2>1, MappedAppend
  <2>3. g[r] \in B
    BY <2>1 DEF Mappable
  <2> QED BY <2>2, <2>3
<1>7. Joinable(Int, B, a, x)
  BY <1>1 DEF Joinable
<1>8. FlattenSeq(a) \in Seq(Int) /\ FlattenSeq(Append(a, x)) = FlattenSeq(a) \o x
  BY <1>7, FlattenAppend
<1>9. Append(raws, r) \in Seq(C) /\ raws \in Seq(C)
  BY <1>2
<1> QED
  BY <1>2, <1>4, <1>5, <1>6, <1>8, <1>9 DEF Join

LEMMA NoItems == ItemCalls(<<>>) = <<>>
  BY DEF ItemCalls, FlattenSeq

Got(out, delta, pending) == [out |-> out, delta |-> delta, pending |-> pending, completed |-> FALSE]

\* What an event of the provider adds.
EventGives(next, out, delta, pending, r) ==
  /\ r.type = "delta" => next = Got(Append(out, S!Event("delta")), TRUE, pending)
  /\ r.type = "text" => next = Got(out \o (IF delta THEN <<>> ELSE <<S!Event("message")>>), delta, pending)
  /\ r.type = "item" => next = Got(out, delta, pending \o r.calls)
  /\ r.type = "error" => next = Got(Append(out, S!Event("error")), delta, pending)
  /\ r.type = "other" => next = Got(out, delta, pending)
  /\ r.type = "completed" =>
       /\ next.completed
       /\ next.out = out \o <<S!Event("usage")>> \o S!Calls(IF pending = <<>> THEN r.calls ELSE pending) \o S!Completed

LEMMA RawEventIs ==
  ASSUME NEW out, NEW delta \in BOOLEAN, NEW pending, NEW r \in AnyRaws
  PROVE  EventGives(S!RawEvent(Got(out, delta, pending), r), out, delta, pending, r)
<1>2. CASE r.type = "delta"
  BY <1>2 DEF EventGives, S!RawEvent, Got
<1>3. CASE r.type = "text"
  BY <1>3 DEF EventGives, S!RawEvent, Got, S!If, S!ItemText
<1>4. CASE r.type = "item"
  BY <1>4 DEF EventGives, S!RawEvent, Got
<1>5. CASE r.type = "error"
  BY <1>5 DEF EventGives, S!RawEvent, Got
<1>6. CASE r.type = "other"
  BY <1>6 DEF EventGives, S!RawEvent, Got
<1>7. CASE r.type = "completed"
  BY <1>7 DEF EventGives, S!RawEvent, Got, S!FinalCalls
<1> QED
  BY <1>2, <1>3, <1>4, <1>5, <1>6, <1>7 DEF AnyRaws

\* Before the last event the calls of the items wait, and no call has been told.
LEMMA RawsWait ==
  ASSUME NEW raws \in Seq(Unfinished)
  PROVE  \E out \in Seq(OtherEvents), delta \in BOOLEAN : ResponseRead(raws) = Got(out, delta, ItemCalls(raws))
<1> DEFINE T == {x \in Seq(Unfinished) :
                   \E out \in Seq(OtherEvents), delta \in BOOLEAN : ResponseRead(x) = Got(out, delta, ItemCalls(x))}
<1>1. ASSUME NEW x \in Seq(Unfinished), Len(x) = 0 PROVE x \in T
  <2>1. x = <<>>
    BY <1>1
  <2>2. PICK out \in Seq(OtherEvents) : out = <<>>
    <3>1. <<>> \in Seq(OtherEvents)
      OBVIOUS
    <3> QED BY <3>1
  <2>3. ResponseRead(x) = Got(out, FALSE, ItemCalls(x))
    BY <2>1, <2>2, ResponseOfNone, NoItems DEF Got
  <2> QED BY <2>3
<1>2. ASSUME NEW x \in Seq(Unfinished), NEW r \in Unfinished, x \in T PROVE Append(x, r) \in T
  <2>1. x \in Seq(AnyRaws) /\ r \in AnyRaws
    BY DEF Unfinished
  <2>2. PICK out \in Seq(OtherEvents), delta \in BOOLEAN : ResponseRead(x) = Got(out, delta, ItemCalls(x))
    BY <1>2
  <2>3. PICK p \in Seq(Int) : p = ItemCalls(x) /\ ItemCalls(Append(x, r)) = Join(0, p, CallsOfItem(r))
    BY <2>1, ItemsAppend
  <2>4. PICK next : next = S!RawEvent(Got(out, delta, p), r) /\ next = ResponseRead(Append(x, r))
    BY <2>1, <2>2, <2>3, ResponseReadNext
  <2>12. EventGives(next, out, delta, p, r)
    BY <2>1, <2>4, RawEventIs
  <2>5. r.type # "completed" /\ r.type \in {"delta", "text", "item", "error", "other"}
    BY DEF Unfinished, AnyRaws
  <2>6. PICK d, m, e \in OtherEvents : d = S!Event("delta") /\ m = S!Event("message") /\ e = S!Event("error")
    BY EventsAre DEF EventTypes
  <2>7. /\ Append(out, d) \in Seq(OtherEvents) /\ Append(out, e) \in Seq(OtherEvents)
        /\ out \o <<m>> \in Seq(OtherEvents) /\ out \o <<>> = out
    OBVIOUS
  <2>8. p \o <<>> = p
    OBVIOUS
  <2>9. ItemCalls(Append(x, r)) = IF r.type = "item" THEN p \o r.calls ELSE p
    BY <2>3, <2>8 DEF Join, CallsOfItem
  <2>10. \E more \in Seq(OtherEvents), b \in BOOLEAN : next = Got(more, b, ItemCalls(Append(x, r)))
    <3>1. CASE r.type = "delta"
      <4>1. next = Got(Append(out, d), TRUE, p)
        BY <2>6, <3>1, <2>12 DEF EventGives
      <4> QED BY <2>7, <2>9, <3>1, <4>1
    <3>2. CASE r.type = "text"
      <4>1. next = Got(out \o (IF delta THEN <<>> ELSE <<m>>), delta, p)
        BY <2>6, <3>2, <2>12 DEF EventGives
      <4> QED BY <2>7, <2>9, <3>2, <4>1
    <3>3. CASE r.type = "item"
      <4>1. next = Got(out, delta, p \o r.calls)
        BY <3>3, <2>12 DEF EventGives
      <4> QED BY <2>9, <3>3, <4>1
    <3>4. CASE r.type = "error"
      <4>1. next = Got(Append(out, e), delta, p)
        BY <2>6, <3>4, <2>12 DEF EventGives
      <4> QED BY <2>7, <2>9, <3>4, <4>1
    <3>5. CASE r.type = "other"
      <4>1. next = Got(out, delta, p)
        BY <3>5, <2>12 DEF EventGives
      <4> QED BY <2>9, <3>5, <4>1
    <3> QED BY <2>5, <3>1, <3>2, <3>3, <3>4, <3>5
  <2>11. Append(x, r) \in Seq(Unfinished)
    OBVIOUS
  <2> QED BY <2>4, <2>10, <2>11
<1>3. \A x \in Seq(Unfinished) : x \in T
  <2> HIDE DEF T
  <2> QED BY <1>1, <1>2, Lengthened
<1> QED
  BY <1>3

LEMMA CallsAre ==
  ASSUME NEW ks \in Seq(Int)
  PROVE  /\ S!Calls(ks) \in Seq(CallEvents) /\ Len(S!Calls(ks)) = Len(ks)
         /\ \A i \in 1..Len(ks) : S!Calls(ks)[i].call = ks[i]
<1>1. PICK n \in Nat : n = Len(ks) /\ DOMAIN ks = 1..n
  <2>1. Len(ks) \in Nat /\ DOMAIN ks = 1..Len(ks)
    OBVIOUS
  <2> QED BY <2>1, Zenon
<1>2. PICK c : c = S!Calls(ks)
  OBVIOUS
<1>3. c = [i \in 1..n |-> S!CallEvent(ks[i], "given")]
  BY <1>1, <1>2 DEF S!Calls
<1>4. \A i \in 1..n : S!CallEvent(ks[i], "given") \in CallEvents /\ S!CallEvent(ks[i], "given").call = ks[i]
  <2>1. \A i \in 1..n : ks[i] \in Int
    BY <1>1
  <2> QED BY <2>1, EventsAre DEF Arguments
<1>5. c \in Seq(CallEvents) /\ Len(c) = n
  BY <1>3, <1>4
<1>6. \A i \in 1..n : c[i].call = ks[i]
  BY <1>3, <1>4
<1> QED
  BY <1>1, <1>2, <1>5, <1>6, SMTT(30)

LEMMA ResponseBreaksOff ==
  ASSUME NEW raws, NEW out \in Seq(AnyEvents), NEW delta, NEW ks \in Seq(Int), ResponseRead(raws) = Got(out, delta, ks)
  PROVE  S!ResponseStream(raws) = Ended(out, FALSE, S!Calls(ks))
<1>1. PICK v \in Seq(AnyEvents) : v = S!Completed
  <2>1. S!Event("completed") \in AnyEvents
    BY EventsAre DEF EventTypes
  <2>2. <<S!Event("completed")>> \in Seq(AnyEvents)
    BY <2>1
  <2> QED BY <2>2 DEF S!Completed
<1>2. PICK c \in Seq(AnyEvents) : c = S!Calls(ks)
  <2>1. S!Calls(ks) \in Seq(CallEvents)
    BY CallsAre
  <2>2. S!Calls(ks) \in Seq(AnyEvents)
    BY <2>1 DEF CallEvents
  <2> QED BY <2>2
<1>3. S!ResponseStream(raws) = out \o (c \o v)
  <2>1. PICK s : s = ResponseRead(raws) /\ s = Got(out, delta, ks)
    OBVIOUS
  <2>2. S!ResponseStream(raws) = s.out \o S!If(~s.completed, S!Calls(s.pending) \o S!Completed)
    BY <2>1, ResponseStreamIs
  <2>3. s.out = out /\ s.pending = ks /\ s.completed = FALSE
    BY <2>1 DEF Got
  <2> QED BY <1>1, <1>2, <2>2, <2>3 DEF S!If
<1>4. Ended(out, FALSE, c) = out \o <<>> \o c \o v
  BY <1>1 DEF Ended, S!If
<1>5. out \o <<>> = out /\ out \o (c \o v) = (out \o c) \o v
  OBVIOUS
<1> QED
  BY <1>2, <1>3, <1>4, <1>5

LEMMA ResponseCompletes ==
  ASSUME NEW front \in Seq(AnyRaws), NEW last \in AnyRaws, last.type = "completed",
         NEW out \in Seq(AnyEvents), NEW delta \in BOOLEAN, NEW ks \in Seq(Int),
         ResponseRead(front) = Got(out, delta, ks)
  PROVE  S!ResponseStream(Append(front, last)) = Ended(out, TRUE, S!Calls(IF ks = <<>> THEN last.calls ELSE ks))
<1>1. PICK s : s = ResponseRead(Append(front, last)) /\ EventGives(s, out, delta, ks, last)
  BY ResponseReadNext, RawEventIs
<1>2. PICK c : c = S!Calls(IF ks = <<>> THEN last.calls ELSE ks)
  OBVIOUS
<1>3. s.completed /\ s.out = out \o <<S!Event("usage")>> \o c \o S!Completed
  BY <1>1, <1>2 DEF EventGives
<1>4. PICK final \in Seq(CallEvents) : final = c
  <2>1. last.calls \in Seq(Int)
    BY DEF AnyRaws
  <2>2. S!Calls(last.calls) \in Seq(CallEvents) /\ S!Calls(ks) \in Seq(CallEvents)
    BY <2>1, CallsAre
  <2> QED BY <1>2, <2>2
<1>5. PICK u, v \in AnyEvents : u = S!Event("usage") /\ v = S!Event("completed")
  BY EventsAre DEF EventTypes
<1>6. s.out = out \o <<u>> \o final \o <<v>> /\ final \in Seq(AnyEvents)
  BY <1>3, <1>4, <1>5 DEF S!Completed, CallEvents
<1>7. s.out \in Seq(AnyEvents)
  BY <1>6
<1>8. s.out \o <<>> = s.out
  BY <1>7
<1>9. S!ResponseStream(Append(front, last)) = s.out
  BY <1>1, <1>3, <1>8, ResponseStreamIs DEF S!If
<1>10. Ended(out, TRUE, c) = s.out
  BY <1>3 DEF Ended, S!If
<1> QED
  BY <1>2, <1>9, <1>10

LEMMA OthersSpeak ==
  ASSUME NEW out \in Seq(OtherEvents)
  PROVE  \A usage \in BOOLEAN, ks \in Seq(Int) : OfType(Ended(out, usage, S!Calls(ks)), "call") = S!Calls(ks)
<1>1. \A e \in OtherEvents : e.type # "call"
  BY DEF OtherEvents
<1>2. OfType(out, "call") = <<>>
  BY <1>1, PickedNone
<1>3. out \in Seq(AnyEvents)
  BY DEF OtherEvents
<1>4. PICK deltas : Speaks(out, <<>>, deltas)
  BY <1>2, <1>3 DEF Speaks
<1>5. SUFFICES ASSUME NEW usage \in BOOLEAN, NEW ks \in Seq(Int)
               PROVE  OfType(Ended(out, usage, S!Calls(ks)), "call") = S!Calls(ks)
  OBVIOUS
<1>6. PICK calls \in Seq(CallEvents) : calls = S!Calls(ks)
  BY CallsAre
<1>7. Speaks(Ended(out, usage, calls), calls, deltas)
  BY <1>4, EndedCalls
<1> QED
  BY <1>6, <1>7 DEF Speaks

\* Calls of items are calls of one of the events.
Origins(raws) == UNION {ToSet(raws[i].calls) : i \in DOMAIN raws}

LEMMA OriginsAppend ==
  ASSUME NEW A, NEW raws \in Seq(A), NEW r \in A
  PROVE  Origins(Append(raws, r)) = Origins(raws) \cup ToSet(r.calls)
<1>1. PICK n \in Nat : n = Len(raws) /\ DOMAIN raws = 1..n
  <2>1. Len(raws) \in Nat /\ DOMAIN raws = 1..Len(raws)
    OBVIOUS
  <2> QED BY <2>1, Zenon
<1>2. PICK d : d = Append(raws, r)
  OBVIOUS
<1>3. DOMAIN d = 1..(n + 1) /\ d[n + 1] = r /\ \A i \in 1..n : d[i] = raws[i]
  BY <1>1, <1>2
<1>4. ASSUME NEW k, k \in Origins(d) PROVE k \in Origins(raws) \/ k \in ToSet(r.calls)
  <2>1. PICK i \in 1..(n + 1) : k \in ToSet(d[i].calls)
    BY <1>3, <1>4 DEF Origins
  <2>2. i \in 1..n \/ i = n + 1
    OBVIOUS
  <2> QED BY <1>1, <1>3, <2>1, <2>2 DEF Origins
<1>5. ASSUME NEW k, k \in Origins(raws) PROVE k \in Origins(d)
  <2>1. PICK i \in 1..n : k \in ToSet(raws[i].calls)
    BY <1>1, <1>5 DEF Origins
  <2>2. i \in 1..(n + 1)
    OBVIOUS
  <2> QED BY <1>3, <2>1, <2>2 DEF Origins
<1>6. ASSUME NEW k, k \in ToSet(r.calls) PROVE k \in Origins(d)
  <2>1. n + 1 \in 1..(n + 1)
    OBVIOUS
  <2> QED BY <1>3, <1>6, <2>1 DEF Origins
<1> QED
  BY <1>2, <1>4, <1>5, <1>6, SMTT(30)

LEMMA ItemsHaveOrigins ==
  ASSUME NEW raws \in Seq(AnyRaws)
  PROVE  ToSet(ItemCalls(raws)) \subseteq Origins(raws)
<1> DEFINE T == {x \in Seq(AnyRaws) : ToSet(ItemCalls(x)) \subseteq Origins(x)}
<1>1. ASSUME NEW x \in Seq(AnyRaws), Len(x) = 0 PROVE x \in T
  <2>1. x = <<>>
    BY <1>1
  <2>2. ToSet(<<>>) = {}
    BY DEF ToSet
  <2> QED BY <2>1, <2>2, NoItems
<1>2. ASSUME NEW x \in Seq(AnyRaws), NEW r \in AnyRaws, x \in T PROVE Append(x, r) \in T
  <2>1. PICK p \in Seq(Int) : p = ItemCalls(x) /\ ItemCalls(Append(x, r)) = Join(0, p, CallsOfItem(r))
    BY ItemsAppend
  <2>2. PICK q \in Seq(Int) : q = CallsOfItem(r) /\ ToSet(q) \subseteq ToSet(r.calls)
    <3>1. r.calls \in Seq(Int) /\ <<>> \in Seq(Int)
      BY DEF AnyRaws
    <3>2. ToSet(<<>>) = {}
      BY DEF ToSet
    <3> QED BY <3>1, <3>2 DEF CallsOfItem
  <2>3. ToSet(p \o q) \subseteq ToSet(p) \cup ToSet(q)
    <3>1. \A i \in DOMAIN (p \o q) : IF i <= Len(p) THEN i \in DOMAIN p /\ (p \o q)[i] = p[i]
                                     ELSE i - Len(p) \in DOMAIN q /\ (p \o q)[i] = q[i - Len(p)]
      OBVIOUS
    <3> QED BY <3>1 DEF ToSet
  <2>4. Origins(Append(x, r)) = Origins(x) \cup ToSet(r.calls)
    BY OriginsAppend
  <2>5. Append(x, r) \in Seq(AnyRaws)
    OBVIOUS
  <2> QED BY <1>2, <2>1, <2>2, <2>3, <2>4, <2>5 DEF Join
<1>3. \A x \in Seq(AnyRaws) : x \in T
  <2> HIDE DEF T
  <2> QED BY <1>1, <1>2, Lengthened
<1> QED
  BY <1>3

\* What the turn hears of a stream of the Responses dialect.
RawsHeard(raws, events) ==
  LET calls == OfType(events, "call") IN
  /\ \A i \in DOMAIN calls : calls[i].call \in Origins(raws)
  /\ IsInjective(ItemCalls(raws)) /\ (\A i \in DOMAIN raws : IsInjective(raws[i].calls)) => IsInjective(calls)
  /\ \A k \in ToSet(ItemCalls(raws)) : \E i \in DOMAIN calls : calls[i].call = k

LEMMA HeardAs ==
  ASSUME NEW raws, NEW events, NEW ks \in Seq(Int), OfType(events, "call") = S!Calls(ks),
         ToSet(ks) \subseteq Origins(raws),
         \/ ks = ItemCalls(raws)
         \/ ItemCalls(raws) = <<>> /\ \E i \in DOMAIN raws : ks = raws[i].calls
  PROVE  RawsHeard(raws, events)
<1>1. PICK calls \in Seq(CallEvents) : calls = OfType(events, "call") /\ Len(calls) = Len(ks) /\ \A i \in 1..Len(ks) : calls[i].call = ks[i]
  BY CallsAre
<1>2. DOMAIN calls = 1..Len(ks) /\ DOMAIN ks = 1..Len(ks)
  BY <1>1
<1>3. \A i \in DOMAIN calls : calls[i].call \in ToSet(ks)
  BY <1>1, <1>2 DEF ToSet
<1>4. IsInjective(ks) => IsInjective(calls)
  BY <1>1, <1>2 DEF IsInjective
<1>5. \A k \in ToSet(ks) : \E i \in DOMAIN calls : calls[i].call = k
  BY <1>1, <1>2 DEF ToSet
<1>6. ToSet(<<>>) = {}
  BY DEF ToSet
<1>7. CASE ks = ItemCalls(raws)
  BY <1>1, <1>3, <1>4, <1>5, <1>7 DEF RawsHeard
<1>8. CASE ItemCalls(raws) = <<>> /\ \E i \in DOMAIN raws : ks = raws[i].calls
  BY <1>1, <1>3, <1>4, <1>6, <1>8 DEF RawsHeard
<1> QED
  BY <1>7, <1>8

Finishes(raws) == \A i \in DOMAIN raws : raws[i].type = "completed" => i = Len(raws)

\* Responses, streamed, of any length and with any calls: each comes once, also when it is
\* announced twice, and when the stream breaks off.
THEOREM CallsComeOnce ==
  ASSUME NEW raws \in Seq(AnyRaws), Finishes(raws)
  PROVE  RawsHeard(raws, S!ResponseStream(raws))
<1>1. ToSet(ItemCalls(raws)) \subseteq Origins(raws) /\ ItemCalls(raws) \in Seq(Int)
  <2>1. PICK r \in AnyRaws : TRUE
    <3>1. <<>> \in Seq(Int)
      OBVIOUS
    <3>2. [type |-> "delta", calls |-> <<>>] \in AnyRaws
      BY <3>1 DEF AnyRaws
    <3> QED BY <3>2
  <2> QED BY <2>1, ItemsHaveOrigins, ItemsAppend
<1>2. CASE raws \in Seq(Unfinished)
  <2>1. PICK out \in Seq(OtherEvents), delta \in BOOLEAN : ResponseRead(raws) = Got(out, delta, ItemCalls(raws))
    BY <1>2, RawsWait
  <2>2. out \in Seq(AnyEvents)
    BY DEF OtherEvents
  <2>3. PICK events : events = S!ResponseStream(raws) /\ events = Ended(out, FALSE, S!Calls(ItemCalls(raws)))
    BY <1>1, <2>1, <2>2, ResponseBreaksOff
  <2>4. OfType(events, "call") = S!Calls(ItemCalls(raws))
    BY <1>1, <2>3, OthersSpeak
  <2> QED BY <1>1, <2>3, <2>4, HeardAs
<1>3. CASE raws \notin Seq(Unfinished)
  <2>1. raws # <<>>
    <3>1. <<>> \in Seq(Unfinished)
      OBVIOUS
    <3> QED BY <1>3, <3>1
  <2>2. PICK front \in Seq(AnyRaws), last \in AnyRaws : raws = Append(front, last)
    BY <2>1, LastOfMany
  <2>3. PICK n \in Nat : /\ n = Len(front) /\ Len(raws) = n + 1 /\ raws[n + 1] = last
                         /\ DOMAIN raws = 1..(n + 1) /\ \A i \in 1..n : raws[i] = front[i]
    <3>1. Len(front) \in Nat
      OBVIOUS
    <3> QED BY <2>2, <3>1
  <2>4. front \in Seq(Unfinished)
    <3>1. \A i \in 1..n : front[i].type # "completed" /\ front[i] \in AnyRaws
      BY <2>3 DEF Finishes
    <3>2. \A i \in 1..n : front[i] \in Unfinished
      BY <3>1 DEF Unfinished
    <3>3. front = [i \in 1..n |-> front[i]]
      BY <2>3
    <3>4. [i \in 1..n |-> front[i]] \in Seq(Unfinished)
      BY <3>2
    <3> QED BY <3>3, <3>4
  <2>5. last.type = "completed"
    <3>1. ASSUME last.type # "completed" PROVE FALSE
      <4>1. last \in Unfinished
        BY <3>1 DEF Unfinished
      <4>2. Append(front, last) \in Seq(Unfinished)
        BY <2>4, <4>1
      <4> QED BY <1>3, <2>2, <4>2
    <3> QED BY <3>1
  <2>6. PICK p \in Seq(Int) : p = ItemCalls(front) /\ ItemCalls(raws) = p
    <3>1. ItemCalls(front) \in Seq(Int) /\ ItemCalls(raws) = Join(0, ItemCalls(front), CallsOfItem(last))
      BY <2>2, ItemsAppend
    <3>2. ItemCalls(front) \o <<>> = ItemCalls(front)
      BY <3>1
    <3> QED BY <2>5, <3>1, <3>2 DEF Join, CallsOfItem
  <2>7. PICK out \in Seq(OtherEvents), delta \in BOOLEAN : ResponseRead(front) = Got(out, delta, p)
    BY <2>4, <2>6, RawsWait
  <2>8. out \in Seq(AnyEvents)
    BY DEF OtherEvents
  <2>9. PICK ks \in Seq(Int) : ks = IF p = <<>> THEN last.calls ELSE p
    BY DEF AnyRaws
  <2>10. PICK events : events = S!ResponseStream(raws) /\ events = Ended(out, TRUE, S!Calls(ks))
    <3>1. S!ResponseStream(Append(front, last)) = Ended(out, TRUE, S!Calls(IF p = <<>> THEN last.calls ELSE p))
      BY <2>5, <2>7, <2>8, ResponseCompletes, ZenonT(60)
    <3> QED BY <2>2, <2>9, <3>1
  <2>11. OfType(events, "call") = S!Calls(ks)
    BY <2>10, OthersSpeak
  <2>12. CASE p = <<>>
    <3>1. n + 1 \in DOMAIN raws /\ ks = raws[n + 1].calls
      BY <2>3, <2>9, <2>12
    <3>2. ToSet(ks) \subseteq Origins(raws)
      BY <3>1 DEF Origins
    <3> QED BY <2>6, <2>10, <2>11, <2>12, <3>1, <3>2, HeardAs
  <2>13. CASE p # <<>>
    BY <1>1, <2>6, <2>9, <2>10, <2>11, <2>13, HeardAs
  <2> QED BY <2>12, <2>13
<1> QED
  BY <1>2, <1>3

\* An answer of the Responses dialect in full, with its text behind its deltas.
Prose == {r \in AnyRaws : r.type \in {"delta", "text", "item"}}
Has(raws, type) == \E i \in DOMAIN raws : raws[i].type = type
Orderly(raws) ==
  \A i, j \in DOMAIN raws : raws[i].type = "text" =>
    /\ raws[j].type = "text" => i = j
    /\ raws[j].type = "delta" => j < i

LEMMA OrderlySoFar ==
  ASSUME NEW x \in Seq(Prose), NEW r \in Prose
  PROVE  /\ \A type : Has(Append(x, r), type) <=> Has(x, type) \/ r.type = type
         /\ Orderly(Append(x, r)) => Orderly(x) /\ (r.type \in {"text", "delta"} => ~Has(x, "text"))
<1>1. PICK n \in Nat : n = Len(x) /\ DOMAIN x = 1..n
  <2>1. Len(x) \in Nat /\ DOMAIN x = 1..Len(x)
    OBVIOUS
  <2> QED BY <2>1, Zenon
<1>2. PICK d : d = Append(x, r)
  OBVIOUS
<1>3. DOMAIN d = 1..(n + 1) /\ d[n + 1] = r /\ \A i \in 1..n : d[i] = x[i]
  BY <1>1, <1>2
<1>4. \A i : i \in 1..(n + 1) <=> i \in 1..n \/ i = n + 1
  OBVIOUS
<1>5. \A type : Has(d, type) <=> Has(x, type) \/ r.type = type
  BY <1>1, <1>3, <1>4 DEF Has
<1>6. ASSUME Orderly(d) PROVE Orderly(x)
  BY <1>1, <1>3, <1>4, <1>6 DEF Orderly
<1>7. ASSUME Orderly(d), r.type \in {"text", "delta"}, Has(x, "text") PROVE FALSE
  <2>1. PICK i \in 1..n : x[i].type = "text"
    BY <1>1, <1>7 DEF Has
  <2>2. /\ i \in DOMAIN d /\ n + 1 \in DOMAIN d /\ d[i].type = "text" /\ d[n + 1].type = r.type
        /\ i # n + 1 /\ ~(n + 1 < i)
    BY <1>3, <1>4, <2>1
  <2> QED BY <1>7, <2>2 DEF Orderly
<1> QED
  BY <1>2, <1>5, <1>6, <1>7, SMTT(30)

\* What has been conveyed of it.
Conveyed(x, out, delta, message) ==
  /\ ResponseRead(x) = Got(out, delta, ItemCalls(x))
  /\ Listens(out, delta, message, <<>>)
  /\ delta <=> Has(x, "delta")
  /\ message => Has(x, "text")
  /\ Has(x, "text") => delta \/ message

LEMMA ProseIsTold ==
  ASSUME NEW raws \in Seq(Prose), Orderly(raws)
  PROVE  \E out \in Seq(AnyEvents), delta, message \in BOOLEAN : Conveyed(raws, out, delta, message)
<1> DEFINE Tellable(x) == \E out \in Seq(AnyEvents), delta, message \in BOOLEAN : Conveyed(x, out, delta, message)
           T == {x \in Seq(Prose) : Orderly(x) => Tellable(x)}
<1>1. ASSUME NEW x \in Seq(Prose), Len(x) = 0 PROVE x \in T
  <2>1. x = <<>>
    BY <1>1
  <2>2. PICK out \in Seq(AnyEvents) : out = <<>>
    <3>1. <<>> \in Seq(AnyEvents)
      OBVIOUS
    <3> QED BY <3>1
  <2>3. ResponseRead(x) = Got(out, FALSE, ItemCalls(x))
    BY <2>1, <2>2, ResponseOfNone, NoItems DEF Got
  <2>4. \A type : ~Has(x, type)
    BY <2>1 DEF Has
  <2>5. Conveyed(x, out, FALSE, FALSE)
    BY <2>2, <2>3, <2>4, ListensFirst DEF Conveyed
  <2> QED BY <2>5
<1>2. ASSUME NEW x \in Seq(Prose), NEW r \in Prose, x \in T PROVE Append(x, r) \in T
  <2>1. SUFFICES ASSUME Orderly(Append(x, r)) PROVE Tellable(Append(x, r))
    <3>1. Append(x, r) \in Seq(Prose)
      OBVIOUS
    <3> QED BY <2>1, <3>1
  <2>2. Orderly(x) /\ (r.type \in {"text", "delta"} => ~Has(x, "text"))
    BY <2>1, OrderlySoFar
  <2>3. PICK out \in Seq(AnyEvents), delta, message \in BOOLEAN : Conveyed(x, out, delta, message)
    BY <1>2, <2>2
  <2>4. x \in Seq(AnyRaws) /\ r \in AnyRaws /\ r.type \in {"delta", "text", "item"}
    BY DEF Prose
  <2>5. PICK p, more : /\ p = ItemCalls(x) /\ more = ItemCalls(Append(x, r)) /\ more = Join(0, p, CallsOfItem(r))
                       /\ p \in Seq(Int)
    BY <2>4, ItemsAppend
  <2>6. PICK next : next = ResponseRead(Append(x, r)) /\ EventGives(next, out, delta, p, r)
    <3>1. ResponseRead(Append(x, r)) = S!RawEvent(Got(out, delta, p), r)
      BY <2>3, <2>4, <2>5, ResponseReadNext DEF Conveyed
    <3> QED BY <2>4, <3>1, RawEventIs
  <2>7. p \o <<>> = p /\ out \o <<>> = out
    OBVIOUS
  <2>8. more = IF r.type = "item" THEN p \o r.calls ELSE p
    BY <2>5, <2>7 DEF Join, CallsOfItem
  <2>9. \A type : Has(Append(x, r), type) <=> Has(x, type) \/ r.type = type
    BY OrderlySoFar
  <2>10. PICK d, m \in AnyEvents : d = S!Event("delta") /\ d.type = "delta" /\ m = S!Event("message") /\ m.type = "message"
    BY EventsAre DEF EventTypes
  <2>11. Listens(out, delta, message, <<>>)
    BY <2>3 DEF Conveyed
  <2>12. CASE r.type = "delta"
    <3>1. ~message
      BY <2>2, <2>3, <2>12 DEF Conveyed
    <3>2. PICK spoken \in Seq(AnyEvents) : spoken = Append(out, d)
      <4>1. Append(out, d) \in Seq(AnyEvents)
        OBVIOUS
      <4> QED BY <4>1
    <3>3. Listens(spoken, TRUE, message, <<>>)
      BY <2>10, <2>11, <3>1, <3>2, ListensOn
    <3>4. next = Got(spoken, TRUE, more)
      BY <2>6, <2>8, <2>10, <2>12, <3>2 DEF EventGives
    <3>5. Conveyed(Append(x, r), spoken, TRUE, message)
      BY <2>2, <2>3, <2>5, <2>6, <2>9, <2>12, <3>1, <3>3, <3>4 DEF Conveyed
    <3> QED BY <3>5
  <2>13. CASE r.type = "item"
    <3>1. next = Got(out, delta, more)
      BY <2>6, <2>8, <2>13 DEF EventGives
    <3>2. Conveyed(Append(x, r), out, delta, message)
      BY <2>3, <2>5, <2>6, <2>9, <2>13, <3>1 DEF Conveyed
    <3> QED BY <3>2
  <2>14. CASE r.type = "text" /\ delta
    <3>1. next = Got(out, delta, more)
      BY <2>6, <2>7, <2>8, <2>14 DEF EventGives
    <3>2. Conveyed(Append(x, r), out, delta, message)
      BY <2>3, <2>5, <2>6, <2>9, <2>14, <3>1 DEF Conveyed
    <3> QED BY <3>2
  <2>15. CASE r.type = "text" /\ ~delta
    <3>1. ~message
      BY <2>2, <2>3, <2>15 DEF Conveyed
    <3>2. PICK spoken \in Seq(AnyEvents) : spoken = Append(out, m)
      <4>1. Append(out, m) \in Seq(AnyEvents)
        OBVIOUS
      <4> QED BY <4>1
    <3>3. Listens(spoken, delta, TRUE, <<>>)
      BY <2>10, <2>11, <2>15, <3>1, <3>2, ListensOn
    <3>4. out \o <<m>> = Append(out, m)
      OBVIOUS
    <3>5. next = Got(spoken, delta, more)
      BY <2>6, <2>8, <2>10, <2>15, <3>2, <3>4 DEF EventGives
    <3>6. Conveyed(Append(x, r), spoken, delta, TRUE)
      BY <2>3, <2>5, <2>6, <2>9, <2>15, <3>3, <3>5 DEF Conveyed
    <3> QED BY <3>6
  <2> QED BY <2>4, <2>12, <2>13, <2>14, <2>15
<1>3. \A x \in Seq(Prose) : x \in T
  <2> HIDE DEF T
  <2> QED BY <1>1, <1>2, Lengthened
<1> QED
  BY <1>3

Complete(raws) ==
  /\ Len(raws) > 0 /\ raws[Len(raws)].type = "completed"
  /\ \A i \in 1..(Len(raws) - 1) : raws[i].type \in {"delta", "text", "item"}
  /\ Orderly(raws)

\* An answer of the Responses dialect means to the turn what the model said: its calls, from
\* the items or else from the last event, with or without a text, be that in deltas or whole.
THEOREM ResponsesMeanWhatTheySay ==
  ASSUME NEW raws \in Seq(AnyRaws), Complete(raws)
  PROVE  S!Outcome(S!ResponseStream(raws)) = Expected(HasText(raws), CallsInFull(raws))
<1>1. raws # <<>>
  BY DEF Complete
<1>2. PICK front \in Seq(AnyRaws), last \in AnyRaws : raws = Append(front, last)
  BY <1>1, LastOfMany
<1>3. PICK n \in Nat : /\ n = Len(front) /\ Len(raws) = n + 1 /\ raws[n + 1] = last
                       /\ DOMAIN raws = 1..(n + 1) /\ DOMAIN front = 1..n /\ \A i \in 1..n : raws[i] = front[i]
  <2>1. Len(front) \in Nat
    OBVIOUS
  <2> QED BY <1>2, <2>1
<1>4. last.type = "completed"
  BY <1>3 DEF Complete
<1>5. front \in Seq(Prose)
  <2>1. \A i \in 1..n : front[i].type \in {"delta", "text", "item"} /\ front[i] \in AnyRaws
    BY <1>3 DEF Complete
  <2>2. \A i \in 1..n : front[i] \in Prose
    BY <2>1 DEF Prose
  <2>3. front = [i \in 1..n |-> front[i]]
    BY <1>3
  <2>4. [i \in 1..n |-> front[i]] \in Seq(Prose)
    BY <2>2
  <2> QED BY <2>3, <2>4
<1>6. Orderly(front)
  <2>1. \A i \in 1..n : i \in 1..(n + 1)
    OBVIOUS
  <2>2. Orderly(raws)
    BY DEF Complete
  <2> QED BY <1>3, <2>1, <2>2 DEF Orderly
<1>7. PICK out \in Seq(AnyEvents), delta, message \in BOOLEAN : Conveyed(front, out, delta, message)
  BY <1>5, <1>6, ProseIsTold
<1>8. PICK p \in Seq(Int) : p = ItemCalls(front) /\ ItemCalls(raws) = p
  <2>1. ItemCalls(front) \in Seq(Int) /\ ItemCalls(raws) = Join(0, ItemCalls(front), CallsOfItem(last))
    BY <1>2, ItemsAppend
  <2>2. ItemCalls(front) \o <<>> = ItemCalls(front)
    BY <2>1
  <2> QED BY <1>4, <2>1, <2>2 DEF Join, CallsOfItem
<1>9. PICK ks \in Seq(Int) : ks = IF p = <<>> THEN last.calls ELSE p
  BY DEF AnyRaws
<1>10. S!ResponseStream(raws) = Ended(out, TRUE, S!Calls(ks))
  <2>1. ResponseRead(front) = Got(out, delta, p)
    BY <1>7, <1>8 DEF Conveyed
  <2>2. S!ResponseStream(Append(front, last)) = Ended(out, TRUE, S!Calls(IF p = <<>> THEN last.calls ELSE p))
    BY <1>4, <2>1, ResponseCompletes, ZenonT(60)
  <2> QED BY <1>2, <1>9, <2>2
<1>11. S!Outcome(Ended(out, TRUE, S!Calls(ks))) = Expected(delta \/ message, ks)
  <2>1. PICK usage \in BOOLEAN : usage = TRUE
    OBVIOUS
  <2>2. Listens(out, delta, message, <<>>)
    BY <1>7 DEF Conveyed
  <2>3. S!Outcome(Ended(out, usage, S!Calls(ks))) = Expected(delta \/ message, ks)
    BY <2>2, EndedAsExpected
  <2> QED BY <2>1, <2>3
<1>12. (delta \/ message) = HasText(raws)
  <2>1. HasText(raws) <=> Has(front, "delta") \/ Has(front, "text")
    <3>1. \A i : i \in 1..(n + 1) <=> i \in 1..n \/ i = n + 1
      OBVIOUS
    <3> QED BY <1>3, <1>4, <3>1 DEF HasText, Has
  <2>2. delta \/ message <=> HasText(raws)
    BY <1>7, <2>1 DEF Conveyed
  <2>3. HasText(raws) \in BOOLEAN
    BY DEF HasText
  <2> QED BY <2>2, <2>3
<1>13. CallsInFull(raws) = ks
  <2>1. Last(raws) = last
    BY <1>3 DEF Last
  <2> QED BY <1>8, <1>9, <2>1 DEF CallsInFull
<1> QED
  BY <1>10, <1>11, <1>12, <1>13

-----------------------------------------------------------------------------
(* Answers in one piece, and the tokens they cost                              *)

LEMMA FlattenOne ==
  ASSUME NEW A, NEW x \in Seq(A)
  PROVE  S!FlattenSeq(<<x>>) = x
<1>1. PICK B : B = Seq(A)
  OBVIOUS
<1>2. PICK none \in Seq(B) : none = <<>>
  <2>1. <<>> \in Seq(B)
    OBVIOUS
  <2> QED BY <2>1
<1>3. Joinable(A, B, none, x)
  BY <1>1 DEF Joinable
<1>4. FlattenSeq(Append(none, x)) = FlattenSeq(none) \o x /\ FlattenSeq(none) \in Seq(A)
  BY <1>3, FlattenAppend
<1>5. FlattenSeq(none) = <<>>
  BY <1>2 DEF FlattenSeq
<1>6. Append(none, x) = <<x>>
  BY <1>2
<1>7. <<>> \o x = x
  OBVIOUS
<1>8. S!FlattenSeq(<<x>>) = FlattenSeq(<<x>>)
  BY DEF S!FlattenSeq, FlattenSeq
<1> QED
  BY <1>4, <1>5, <1>6, <1>7, <1>8

\* An answer in one piece means the same in both dialects, whatever its calls.
THEOREM WholeAnswersMeanTheSame ==
  ASSUME NEW text \in BOOLEAN, NEW ks \in Seq(Int)
  PROVE  /\ S!ChatResponse(<<[text |-> text, calls |-> ks]>>) = S!Response(text, ks)
         /\ S!Outcome(S!Response(text, ks)) = Expected(text, ks)
<1>1. PICK m \in AnyEvents : m = S!Event("message") /\ m.type = "message"
  BY EventsAre DEF EventTypes
<1>2. PICK said \in Seq(AnyEvents) : said = S!If(text, <<m>>)
  <2>1. <<m>> \in Seq(AnyEvents) /\ <<>> \in Seq(AnyEvents)
    OBVIOUS
  <2> QED BY <2>1 DEF S!If
<1>3. PICK calls \in Seq(CallEvents) : calls = S!Calls(ks)
  BY CallsAre
<1>4. S!ChatResponse(<<[text |-> text, calls |-> ks]>>) = S!Response(text, ks)
  <2>1. PICK choices : choices = <<[text |-> text, calls |-> ks]>>
    OBVIOUS
  <2>2. DOMAIN choices = {1} /\ choices[1].text = text /\ choices[1].calls = ks
    BY <2>1
  <2>3. [i \in DOMAIN choices |-> S!If(choices[i].text, <<S!Event("message")>>)] = <<said>>
    <3>1. [i \in DOMAIN choices |-> S!If(choices[i].text, <<S!Event("message")>>)] = [i \in {1} |-> said]
      BY <1>1, <1>2, <2>2
    <3> QED BY <3>1
  <2>4. [i \in DOMAIN choices |-> S!Calls(choices[i].calls)] = <<calls>>
    <3>1. [i \in DOMAIN choices |-> S!Calls(choices[i].calls)] = [i \in {1} |-> calls]
      BY <1>3, <2>2
    <3> QED BY <3>1
  <2>5. S!FlattenSeq(<<said>>) = said /\ S!FlattenSeq(<<calls>>) = calls
    BY FlattenOne
  <2>6. S!ChatResponse(choices) = said \o <<S!Event("usage")>> \o calls \o S!Completed
    BY <2>3, <2>4, <2>5 DEF S!ChatResponse
  <2>7. S!Response(text, ks) = said \o <<S!Event("usage")>> \o calls \o S!Completed
    BY <1>1, <1>2, <1>3 DEF S!Response
  <2> QED BY <2>1, <2>6, <2>7
<1>5. S!Outcome(S!Response(text, ks)) = Expected(text, ks)
  <2>1. PICK no \in BOOLEAN, yes \in BOOLEAN : ~no /\ yes /\ no = FALSE /\ yes = TRUE
    OBVIOUS
  <2>2. Listens(said, no, text, <<>>)
    <3>1. Listens(<<>>, no, no, <<>>)
      BY <2>1, ListensFirst
    <3>2. Listens(Append(<<>>, m), no, TRUE, <<>>)
      BY <1>1, <2>1, <3>1, ListensOn
    <3>3. Append(<<>>, m) = <<m>>
      OBVIOUS
    <3> QED BY <1>2, <2>1, <3>1, <3>2, <3>3 DEF S!If
  <2>3. S!Outcome(Ended(said, yes, S!Calls(ks))) = Expected(no \/ text, ks)
    BY <2>2, EndedAsExpected
  <2>4. S!Response(text, ks) = Ended(said, yes, S!Calls(ks))
    BY <1>1, <1>2, <2>1 DEF S!Response, Ended, S!If
  <2>5. (no \/ text) = text
    BY <2>1
  <2> QED BY <2>3, <2>4, <2>5
<1> QED
  BY <1>4, <1>5

\* What a provider says of the tokens, each a number or -1.
Counts == [dialect : {"chat", "responses"}, input : Int, output : Int, reasoning : Int, cached : Int,
           total : Int, prompt : Int, completion : Int]

LEMMA TokensAreSummed ==
  ASSUME NEW raw \in Counts
  PROVE  /\ S!Usage(raw).total = S!OrZero(raw.input) + S!OrZero(raw.output) + S!OrZero(raw.reasoning)
         /\ raw.total # -1 => S!ChatUsage(raw).total = raw.total
         /\ raw.total = -1 /\ raw.input = -1 /\ raw.output = -1 =>
              S!ChatUsage(raw).total = S!OrZero(raw.prompt) + S!OrZero(raw.completion) + S!OrZero(raw.reasoning)
<1>1. ASSUME NEW x \in Counts
      PROVE  S!Usage(x).total = S!OrZero(x.input) + S!OrZero(x.output) + S!OrZero(x.reasoning)
  <2> DEFINE u == [input |-> S!OrZero(x.input), output |-> S!OrZero(x.output),
                   reasoning |-> S!OrZero(x.reasoning), cached |-> S!OrZero(x.cached), total |-> 0]
  <2>1. S!Usage(x) = [u EXCEPT !.total = S!TokenSum(u)]
    BY DEF S!Usage
  <2>2. S!TokenSum(u) = S!OrZero(x.input) + S!OrZero(x.output) + S!OrZero(x.reasoning)
    BY DEF S!TokenSum
  <2> QED BY <2>1, <2>2
<1> DEFINE named == [raw EXCEPT !.input = IF @ # -1 THEN @ ELSE raw.prompt,
                                !.output = IF @ # -1 THEN @ ELSE raw.completion]
<1>2. named \in Counts
  BY DEF Counts
<1>3. PICK u : u = S!Usage(named) /\ S!ChatUsage(raw) = IF raw.total # -1 THEN [u EXCEPT !.total = raw.total] ELSE u
  BY DEF S!ChatUsage
<1>4. "total" \in DOMAIN u
  BY <1>3 DEF S!Usage
<1>5. raw.total # -1 => S!ChatUsage(raw).total = raw.total
  BY <1>3, <1>4
<1>6. ASSUME raw.total = -1, raw.input = -1, raw.output = -1
      PROVE  S!ChatUsage(raw).total = S!OrZero(raw.prompt) + S!OrZero(raw.completion) + S!OrZero(raw.reasoning)
  <2>1. S!ChatUsage(raw) = u
    BY <1>3, <1>6
  <2>2. named.input = raw.prompt /\ named.output = raw.completion /\ named.reasoning = raw.reasoning
    BY <1>6 DEF Counts
  <2>3. u.total = S!OrZero(named.input) + S!OrZero(named.output) + S!OrZero(named.reasoning)
    BY <1>1, <1>2, <1>3
  <2> QED BY <2>1, <2>2, <2>3
<1> QED
  BY <1>1, <1>5, <1>6

-----------------------------------------------------------------------------
(* What the run checks                                                         *)

LEMMA OnceOfEach ==
  ASSUME NEW raws \in Seq(AnyRaws), InFull(raws)
  PROVE  Complete(raws)
<1>1. PICK n \in Nat : n = Len(raws) /\ DOMAIN raws = 1..n
  <2>1. Len(raws) \in Nat /\ DOMAIN raws = 1..Len(raws)
    OBVIOUS
  <2> QED BY <2>1, Zenon
<1> DEFINE Spoken == {i \in 1..n : raws[i].type = "text"}
<1>2. Cardinality(Spoken) <= 1
  BY <1>1 DEF InFull
<1>3. IsFiniteSet(Spoken)
  <2>1. IsFiniteSet(1..n)
    BY FS_Interval
  <2>2. Spoken \in SUBSET (1..n)
    OBVIOUS
  <2> QED BY <2>1, <2>2, FS_Subset
<1>4. ASSUME NEW i \in Spoken, NEW j \in Spoken, i # j PROVE FALSE
  <2> HIDE DEF Spoken
  <2>1. IsFiniteSet({i}) /\ Cardinality({i}) = 1
    BY FS_Singleton
  <2>2. Cardinality({i} \cup {j}) = 2
    <3>1. j \notin {i}
      BY <1>4
    <3>2. Cardinality({i} \cup {j}) = IF j \in {i} THEN Cardinality({i}) ELSE Cardinality({i}) + 1
      BY <2>1, FS_AddElement
    <3>3. PICK one, both : one = Cardinality({i}) /\ both = Cardinality({i} \cup {j})
      OBVIOUS
    <3>4. both = one + 1
      BY <3>1, <3>2, <3>3, Zenon
    <3>5. one = 1
      BY <2>1, <3>3, Zenon
    <3>6. both = 2
      BY <3>4, <3>5
    <3> QED BY <3>3, <3>6, Zenon
  <2>3. {i} \cup {j} \in SUBSET Spoken
    OBVIOUS
  <2>4. Cardinality({i} \cup {j}) <= Cardinality(Spoken)
    BY <1>3, <2>3, FS_Subset
  <2>5. Cardinality(Spoken) \in Nat
    BY <1>3, FS_CardinalityType
  <2>6. PICK two, all : two = Cardinality({i} \cup {j}) /\ all = Cardinality(Spoken)
    OBVIOUS
  <2>7. two = 2 /\ two <= all /\ all <= 1 /\ all \in Nat
    BY <1>2, <2>2, <2>4, <2>5, <2>6
  <2> QED BY <2>7
<1>5. Orderly(raws)
  BY <1>1, <1>4 DEF InFull, Orderly
<1> QED
  BY <1>1, <1>5, SMTT(30) DEF InFull, Complete

LEMMA ChunkIs ==
  ASSUME NEW n \in Nat, NEW text \in BOOLEAN, NEW usage \in BOOLEAN, NEW index \in -1..n, NEW id \in -1..n,
         NEW pieces \in Seq(SomePieces),
         index # -1 => id = index \/ (id = -1 /\ \A i \in 1..Len(pieces) : pieces[i] # "open")
  PROVE  [text |-> text, usage |-> usage, index |-> index, id |-> id, pieces |-> pieces] \in AnyChunks(n)
  BY DEF AnyChunks

LEMMA InputsAreStreams ==
  /\ Chunks \subseteq AnyChunks(1)
  /\ Raws \subseteq AnyRaws /\ \A r \in Raws : IsInjective(r.calls)
  /\ \A a \in Answers : a[1] \in BOOLEAN /\ a[2] \in Seq(Int)
  /\ Usages \subseteq Counts
<1>1. <<>> \in Seq(SomePieces) /\ <<"open">> \in Seq(SomePieces) /\ <<"close">> \in Seq(SomePieces)
  <2>1. PICK o, c \in SomePieces : o = "open" /\ c = "close"
    BY DEF SomePieces
  <2>2. <<>> \in Seq(SomePieces) /\ <<o>> \in Seq(SomePieces) /\ <<c>> \in Seq(SomePieces)
    OBVIOUS
  <2> QED BY <2>1, <2>2
<1>2. Chunks \subseteq AnyChunks(1)
  <2>1. PICK none, open, close : /\ none = <<>> /\ open = <<"open">> /\ close = <<"close">>
                                 /\ none \in Seq(SomePieces) /\ open \in Seq(SomePieces) /\ close \in Seq(SomePieces)
                                 /\ \A i \in 1..Len(close) : close[i] # "open"
    <3>1. \A i \in 1..Len(<<"close">>) : <<"close">>[i] # "open"
      OBVIOUS
    <3> QED BY <1>1, <3>1
  <2>2. PICK minus : minus = -1 /\ minus \in -1..1 /\ \A i \in {0, 1} : i \in -1..1 /\ i # -1
    OBVIOUS
  <2>3. PICK yes, no \in BOOLEAN : yes = TRUE /\ no = FALSE
    OBVIOUS
  <2>4. [text |-> yes, usage |-> no, index |-> minus, id |-> minus, pieces |-> none] \in AnyChunks(1)
    BY <2>1, <2>2, ChunkIs
  <2>5. [text |-> no, usage |-> yes, index |-> minus, id |-> minus, pieces |-> none] \in AnyChunks(1)
    BY <2>1, <2>2, ChunkIs
  <2>6. \A i \in {0, 1} : [text |-> no, usage |-> no, index |-> i, id |-> i, pieces |-> open] \in AnyChunks(1)
    <3>1. SUFFICES ASSUME NEW i \in {0, 1}
                   PROVE  [text |-> no, usage |-> no, index |-> i, id |-> i, pieces |-> open] \in AnyChunks(1)
      OBVIOUS
    <3>2. i \in -1..1
      OBVIOUS
    <3> QED BY <2>1, <3>2, ChunkIs
  <2>7. \A i \in {0, 1} : [text |-> no, usage |-> no, index |-> i, id |-> minus, pieces |-> close] \in AnyChunks(1)
    <3>1. SUFFICES ASSUME NEW i \in {0, 1}
                   PROVE  [text |-> no, usage |-> no, index |-> i, id |-> minus, pieces |-> close] \in AnyChunks(1)
      OBVIOUS
    <3>2. i \in -1..1
      OBVIOUS
    <3> QED BY <2>1, <2>2, <3>2, ChunkIs
  <2>8. /\ [Chunk(minus, minus, none) EXCEPT !.text = yes] = [text |-> yes, usage |-> no, index |-> minus, id |-> minus, pieces |-> none]
        /\ [Chunk(minus, minus, none) EXCEPT !.usage = yes] = [text |-> no, usage |-> yes, index |-> minus, id |-> minus, pieces |-> none]
        /\ \A i, j, q : Chunk(i, j, q) = [text |-> no, usage |-> no, index |-> i, id |-> j, pieces |-> q]
    <3>1. \A i, j, q : Chunk(i, j, q) = [text |-> no, usage |-> no, index |-> i, id |-> j, pieces |-> q]
      BY <2>3, Zenon DEF Chunk
    <3>2. Chunk(minus, minus, none) = [text |-> no, usage |-> no, index |-> minus, id |-> minus, pieces |-> none]
      BY <3>1
    <3>3. /\ [[text |-> no, usage |-> no, index |-> minus, id |-> minus, pieces |-> none] EXCEPT !.text = yes]
               = [text |-> yes, usage |-> no, index |-> minus, id |-> minus, pieces |-> none]
          /\ [[text |-> no, usage |-> no, index |-> minus, id |-> minus, pieces |-> none] EXCEPT !.usage = yes]
               = [text |-> no, usage |-> yes, index |-> minus, id |-> minus, pieces |-> none]
      OBVIOUS
    <3> QED BY <3>1, <3>2, <3>3
  <2>9. Chunks = {[Chunk(minus, minus, none) EXCEPT !.text = yes], [Chunk(minus, minus, none) EXCEPT !.usage = yes]}
                 \cup {Chunk(i, i, open) : i \in {0, 1}} \cup {Chunk(i, minus, close) : i \in {0, 1}}
    BY <2>1, <2>2, <2>3 DEF Chunks
  <2> QED BY <2>4, <2>5, <2>6, <2>7, <2>8, <2>9
<1>3. /\ <<>> \in Seq(Int) /\ IsInjective(<<>>)
      /\ \A k \in Int : <<k>> \in Seq(Int) /\ IsInjective(<<k>>)
      /\ <<0, 1>> \in Seq(Int) /\ IsInjective(<<0, 1>>)
  <2>1. <<>> \in Seq(Int) /\ IsInjective(<<>>)
    BY DEF IsInjective
  <2>2. ASSUME NEW k \in Int PROVE <<k>> \in Seq(Int) /\ IsInjective(<<k>>)
    BY DEF IsInjective
  <2>3. <<0, 1>> \in Seq(Int)
    OBVIOUS
  <2>4. IsInjective(<<0, 1>>)
    <3>1. PICK s : s = <<0, 1>>
      OBVIOUS
    <3>2. DOMAIN s = {1, 2} /\ s[1] = 0 /\ s[2] = 1
      BY <3>1
    <3> QED BY <3>1, <3>2 DEF IsInjective
  <2> QED BY <2>1, <2>2, <2>3, <2>4
<1>4. Raws \subseteq AnyRaws /\ \A r \in Raws : IsInjective(r.calls)
  <2>1. ASSUME NEW r \in Raws PROVE r \in AnyRaws /\ IsInjective(r.calls)
    <3>1. \/ \E t \in {"delta", "text", "completed", "error"} : r = Raw(t, <<>>)
          \/ \E k \in {0, 1} : r = Raw("item", <<k>>)
          \/ r = Raw("completed", <<0, 1>>)
      BY DEF Raws
    <3>2. CASE \E t \in {"delta", "text", "completed", "error"} : r = Raw(t, <<>>)
      BY <1>3, <3>2 DEF Raw, AnyRaws
    <3>3. CASE \E k \in {0, 1} : r = Raw("item", <<k>>)
      <4>1. PICK k \in {0, 1} : r = Raw("item", <<k>>)
        BY <3>3
      <4>2. PICK s : s = <<k>>
        OBVIOUS
      <4>3. s \in Seq(Int) /\ IsInjective(s)
        BY <1>3, <4>2
      <4>4. r = [type |-> "item", calls |-> s]
        BY <4>1, <4>2 DEF Raw
      <4> QED BY <4>3, <4>4 DEF AnyRaws
    <3>4. CASE r = Raw("completed", <<0, 1>>)
      <4>1. PICK s \in Seq(Int) : s = <<0, 1>> /\ IsInjective(s)
        BY <1>3
      <4> QED BY <3>4, <4>1 DEF Raw, AnyRaws
    <3> QED BY <3>1, <3>2, <3>3, <3>4
  <2> QED BY <2>1
<1>5. ASSUME NEW a \in Answers PROVE a[1] \in BOOLEAN /\ a[2] \in Seq(Int)
  <2>1. a \in BOOLEAN \X {<<>>, <<0>>, <<0, 1>>}
    BY DEF Answers
  <2>2. a[1] \in BOOLEAN /\ a[2] \in {<<>>, <<0>>, <<0, 1>>}
    BY <2>1
  <2>3. 0 \in Int /\ <<0>> \in Seq(Int)
    BY <1>3
  <2> QED BY <1>3, <2>2, <2>3
<1>6. Usages \subseteq Counts
  BY DEF Usages, Counts
<1> QED
  BY <1>2, <1>4, <1>5, <1>6

\* A provider's answer reaches the turn as it was meant: in either dialect, streamed or whole,
\* each call comes once and with what the model gave for it, texts are heard, and tokens are
\* counted once.
THEOREM Reaches == Spec => []AnswersReachTheTurn
<1>1. ASSUME InputInv, OutputInv, Done("chat")
      PROVE  ChatHeard(input, output, S!Ascending(Indices(input)))
  <2>1. input \in UpTo(MaxChunks, Chunks) /\ output = S!ChatStream(input)
    BY <1>1 DEF InputInv, OutputInv, Result, Proved, Done
  <2>2. input \in Seq(Chunks)
    BY <2>1, UpToIsSeq, AlgorithmsAssumption
  <2>3. input \in Seq(AnyChunks(1))
    <3>1. \A i \in DOMAIN input : input[i] \in Chunks
      BY <2>2
    <3>2. \A i \in 1..Len(input) : input[i] \in AnyChunks(1)
      BY <2>2, <3>1, InputsAreStreams
    <3>3. input = [i \in 1..Len(input) |-> input[i]] /\ Len(input) \in Nat
      BY <2>2
    <3>4. [i \in 1..Len(input) |-> input[i]] \in Seq(AnyChunks(1))
      BY <3>2, <3>3
    <3> QED BY <3>3, <3>4
  <2> QED BY <2>1, <2>3, CallsAreAssembled
<1>2. ASSUME InputInv, OutputInv, Done("responses")
      PROVE  /\ Finishes(input) => RawsHeard(input, output) /\ \A i \in DOMAIN input : IsInjective(input[i].calls)
             /\ InFull(input) => S!Outcome(output) = Expected(HasText(input), CallsInFull(input))
  <2>1. input \in UpTo(MaxChunks, Raws) /\ output = S!ResponseStream(input)
    BY <1>2 DEF InputInv, OutputInv, Result, Proved, Done
  <2>2. input \in Seq(Raws)
    BY <2>1, UpToIsSeq, AlgorithmsAssumption
  <2>3. \A i \in DOMAIN input : input[i] \in Raws
    BY <2>2
  <2>4. input \in Seq(AnyRaws)
    <3>1. \A i \in 1..Len(input) : input[i] \in AnyRaws
      BY <2>2, <2>3, InputsAreStreams
    <3>2. input = [i \in 1..Len(input) |-> input[i]] /\ Len(input) \in Nat
      BY <2>2
    <3>3. [i \in 1..Len(input) |-> input[i]] \in Seq(AnyRaws)
      BY <3>1, <3>2
    <3> QED BY <3>2, <3>3
  <2>5. \A i \in DOMAIN input : IsInjective(input[i].calls)
    BY <2>3, InputsAreStreams
  <2> QED BY <2>1, <2>4, <2>5, CallsComeOnce, OnceOfEach, ResponsesMeanWhatTheySay
<1>3. ASSUME InputInv, OutputInv, Done("whole"), NEW i \in {1, 2}
      PROVE  S!Outcome(output[i]) = Expected(input[1], input[2])
  <2>1. /\ input \in Answers
        /\ output = <<S!Response(input[1], input[2]), S!ChatResponse(<<[text |-> input[1], calls |-> input[2]]>>)>>
    BY <1>3 DEF InputInv, OutputInv, Result, Proved, Done
  <2>2. input[1] \in BOOLEAN /\ input[2] \in Seq(Int)
    BY <2>1, InputsAreStreams
  <2>3. /\ S!ChatResponse(<<[text |-> input[1], calls |-> input[2]]>>) = S!Response(input[1], input[2])
        /\ S!Outcome(S!Response(input[1], input[2])) = Expected(input[1], input[2])
    BY <2>2, WholeAnswersMeanTheSame
  <2> QED BY <2>1, <2>3
<1>4. InputInv /\ OutputInv => TokensCountedOnce
  <2>1. SUFFICES ASSUME InputInv, OutputInv, Done("usage") PROVE TokensCountedOnce
    BY DEF TokensCountedOnce
  <2>2. input \in Usages /\ output = IF input.dialect = "chat" THEN S!ChatUsage(input) ELSE S!Usage(input)
    BY <2>1 DEF InputInv, OutputInv, Result, Proved, Done
  <2>3. input \in Counts
    BY <2>2, InputsAreStreams
  <2>4. /\ input.dialect = "chat" => input.input = -1 /\ input.output = -1
        /\ input.dialect # "chat" => input.total = -1
    BY <2>2 DEF Usages
  <2> QED BY <2>2, <2>3, <2>4, TokensAreSummed DEF TokensCountedOnce, S!OrZero
<1>5. InputInv /\ OutputInv => AnswersReachTheTurn
  <2>1. SUFFICES ASSUME InputInv, OutputInv PROVE AnswersReachTheTurn
    OBVIOUS
  <2>2. ChatCallsAssembled
    BY <1>1, <2>1 DEF ChatCallsAssembled, ChatHeard
  <2>3. ResponseCallsOnce
    BY <1>2, <2>1 DEF ResponseCallsOnce, RawsHeard, Finishes, Origins
  <2>4. SameAnswerInAnyDialect
    BY <1>1, <1>2, <1>3, <2>1 DEF SameAnswerInAnyDialect, ChatHeard
  <2> QED BY <1>4, <2>1, <2>2, <2>3, <2>4 DEF AnswersReachTheTurn
<1> QED
  BY <1>5, Evaluation, PTL
================================================================================
