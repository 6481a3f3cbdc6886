------------------------------- MODULE Reports -------------------------------
(***************************************************************************)
(* What is read out of an event log afterwards: the trace report (its       *)
(* turns, its tool calls, its counts), the grading of an evaluation and of a *)
(* benchmark, and the layers of configuration a session starts from.        *)
(*                                                                         *)
(* An event is [type, turn, call, arguments, success, reason]; turn 0 is    *)
(* none. A call id is chosen by the model and may come back in a later      *)
(* turn.                                                                    *)
(***************************************************************************)
EXTENDS Integers, SequencesExt, FiniteSetsExt

OfType(events, type) == SelectSeq(events, LAMBDA e : e.type = type)
OfTurn(events, turn) == SelectSeq(events, LAMBDA e : e.turn = turn)

EndTypes == {"turn_finished", "turn_aborted", "error"}

StatusOf(event) ==
  CASE event.type = "turn_aborted" -> "aborted" [] event.type = "error" -> "error" [] OTHER -> event.reason

FirstEnd(ends) == ends[1]  \* mutant: the log is read from its beginning
LatestEnd(ends) == Last(ends)

LastStatus(events, none) ==
  LET ends == SelectSeq(events, LAMBDA e : e.type \in EndTypes)
  IN IF ends = <<>> THEN none ELSE StatusOf(LatestEnd(ends))

-----------------------------------------------------------------------------
(* build_trace_report                                                         *)

Metrics(events) ==
  LET finishes == OfType(events, "tool_call_finished")
      failures == SelectSeq(finishes, LAMBDA e : ~e.success)
  IN [turns |-> Cardinality({events[i].turn : i \in DOMAIN events} \ {0}),
      calls |-> Len(finishes),
      failures |-> Len(failures),
      errors |-> Len(OfType(events, "error")) + Len(OfType(events, "turn_aborted")),
      status |-> LastStatus(events, "unknown")]

TurnRow(events, turn) ==
  [turn |-> turn, calls |-> Len(OfType(OfTurn(events, turn), "tool_call_finished")),
   status |-> LastStatus(OfTurn(events, turn), "running")]

\* In the order in which the turns first occur.
Turns(events) ==
  LET firsts == SelectSeq([i \in DOMAIN events |-> [at |-> i, turn |-> events[i].turn]],
                  LAMBDA f : f.turn # 0 /\ \A j \in 1..(f.at - 1) : events[j].turn # f.turn)
  IN [i \in DOMAIN firsts |-> TurnRow(events, firsts[i].turn)]

KeepRequest(requested, event) ==  \* mutant: setdefault
  IF event.call \in DOMAIN requested THEN requested[event.call] ELSE event.arguments
LatestRequest(requested, event) == event.arguments

CallRow(s, event) ==
  CASE event.type = "model_tool_call" ->
         [s EXCEPT !.requested = [c \in DOMAIN @ \cup {event.call} |->
                                   IF c = event.call THEN LatestRequest(@, event) ELSE @[c]]]
    [] event.type = "tool_call_finished" ->
         [s EXCEPT !.rows = Append(@, [turn |-> event.turn, call |-> event.call, success |-> event.success,
            arguments |-> IF event.call \in DOMAIN s.requested THEN s.requested[event.call] ELSE "none"])]
    [] OTHER -> s

ToolCalls(events) == FoldLeft(CallRow, [requested |-> [c \in {} |-> "none"], rows |-> <<>>], events).rows

-----------------------------------------------------------------------------
(* run_eval_suite: the verdict on one attempt, and percentiles over all.      *)

SummarizeEvents(events) ==
  LET results == OfType(events, "tool_call_finished")
  IN [calls |-> Len(results), failures |-> Len(SelectSeq(results, LAMBDA e : ~e.success)),
      errors |-> Len(SelectSeq(events, LAMBDA e : e.type \in {"error", "turn_aborted"}))]

ClassifyFailure(events, runtimeError, checksPass) ==
  LET status == LastStatus(events, "error")
      aborts == OfType(events, "turn_aborted")
      reason == IF aborts = <<>> THEN "none" ELSE Last(aborts).reason
  IN IF ~runtimeError /\ status = "success" /\ checksPass THEN "none"
     ELSE IF runtimeError THEN "runtime_error"
     ELSE IF reason = "model_error" \/ (status = "error" /\ OfType(events, "error") # <<>>) THEN "model_error"
     ELSE IF status # "success" THEN "turn_aborted"
     ELSE IF SummarizeEvents(events).failures > 0 THEN "tool_failure"
     ELSE "grader_failure"

CeilDiv(a, b) == (a + b - 1) \div b

RankOf(percent, n) == (percent * n) \div 100 + 1  \* mutant: rounded down, then up
NearestRank(percent, n) == IF n = 0 \/ percent = 0 THEN 1 ELSE CeilDiv(percent * n, 100)

Percentile(values, percent) ==
  IF values = <<>> THEN 0 ELSE SortSeq(values, <)[NearestRank(percent, Len(values))]

-----------------------------------------------------------------------------
(* The suite: each task as often as it is to be repeated, one attempt after    *)
(* the other; an attempt is given by its log, what the runtime raised and what  *)
(* the checks of its workspace say.                                            *)

Schedule(tasks, repeat) == FlattenSeq([t \in DOMAIN tasks |-> [k \in 1..repeat |-> [task |-> tasks[t], attempt |-> k]]])

Attempted(run, events, runtimeError, checksPass, tokens) ==
  LET failure == ClassifyFailure(events, runtimeError, checksPass)
  IN run @@ SummarizeEvents(events) @@ [passed |-> failure = "none", failure |-> failure, tokens |-> tokens]

Total(field, results) == FoldLeft(LAMBDA n, r : n + r[field], 0, results)
Passed(results) == Len(SelectSeq(results, LAMBDA r : r.passed))

Aggregate(results) ==
  [evaluations |-> Len(results), passed |-> Passed(results), failed |-> Len(results) - Passed(results),
   calls |-> Total("calls", results), toolFailures |-> Total("failures", results),
   errors |-> Total("errors", results), tokens |-> Total("tokens", results),
   failures |-> [f \in {results[i].failure : i \in DOMAIN results} \ {"none"} |->
                  Len(SelectSeq(results, LAMBDA r : r.failure = f))]]

ByAttempt(r) == r.attempt  \* mutant: the results are grouped by attempt
GroupOf(r) == r.task

TaskRow(results, group) ==
  LET selected == SelectSeq(results, LAMBDA r : GroupOf(r) = group)
  IN [task |-> selected[1].task, attempts |-> Len(selected), passed |-> Passed(selected),
      tokens |-> Total("tokens", selected)]

Summaries(results) == {TaskRow(results, g) : g \in {GroupOf(results[i]) : i \in DOMAIN results}}

-----------------------------------------------------------------------------
(* run_retrieval_benchmark: how good the files of a search are. A score is     *)
(* [of, all]: so many of so many.                                              *)

Repeated(paths) == paths  \* mutant: a file counts as often as it matches
UniquePaths(paths) == FoldLeft(LAMBDA s, p : IF p \in ToSet(s) THEN s ELSE Append(s, p), <<>>, paths)

Visible(paths, k) == SubSeq(paths, 1, IF k < Len(paths) THEN k ELSE Len(paths))
Score(n, m) == IF m = 0 THEN [of |-> 0, all |-> 1] ELSE [of |-> n, all |-> m]

Scores(matches, relevant, k) ==
  LET paths == UniquePaths(matches)
      hits == Cardinality(relevant \cap ToSet(Visible(paths, k)))
      ranks == {i \in DOMAIN paths : paths[i] \in relevant}
  IN [recall |-> Score(hits, Cardinality(relevant)),
      precision |-> Score(hits, Len(Visible(paths, k))),
      rank |-> IF ranks = {} THEN 0 ELSE Min(ranks),
      irrelevant |-> Cardinality(ToSet(Visible(paths, k)) \ relevant)]

-----------------------------------------------------------------------------
(* ConfigLoader.load: tables are merged key by key at every depth, and a later *)
(* layer goes first; a layer that is not there changes nothing. A config is a  *)
(* tree: it has the path (of keys, from the top) of each table and each scalar *)
(* in it.                                                                     *)

Table == [table |-> TRUE, value |-> "none"]
Scalar(v) == [table |-> FALSE, value |-> v]

\* The paths on the way to p, p the last of them.
Way(p) == [i \in 1..Len(p) |-> SubSeq(p, 1, i)]

SectionsAlone(base, layer, q) ==  \* mutant: a table in a table is replaced
  Len(q) = 1 /\ q \in DOMAIN base \cap DOMAIN layer /\ base[q].table /\ layer[q].table

\* _deep_merge calls itself for what both have as a table.
TableInBoth(base, layer, q) ==
  q \in DOMAIN base \cap DOMAIN layer /\ base[q].table /\ layer[q].table

\* One step down, to q: below what was taken from one of the two all is that one's.
Descend(base, layer, side, q) ==
  IF side # "both" THEN side
  ELSE IF q \notin DOMAIN layer THEN "base"
  ELSE IF TableInBoth(base, layer, q) THEN "both" ELSE "layer"

Side(base, layer, p) ==
  LET side[i \in 0..Len(p)] == IF i = 0 THEN "both" ELSE Descend(base, layer, side[i - 1], Way(p)[i])
  IN side[Len(p)]

Giver(base, layer, p) == IF Side(base, layer, p) = "base" THEN base ELSE layer

DeepMerge(base, layer) ==
  [p \in {q \in DOMAIN base \cup DOMAIN layer : q \in DOMAIN Giver(base, layer, q)} |->
     Giver(base, layer, p)[p]]

Load(defaults, layers) ==
  LET config[i \in 0..Len(layers)] ==
        IF i = 0 THEN defaults ELSE DeepMerge(config[i - 1], layers[i])
  IN config[Len(layers)]
=============================================================================
