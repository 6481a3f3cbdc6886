----------------------------- MODULE Algorithms -----------------------------
(***************************************************************************)
(* The functions of ModelStream, WorkspaceTools, Retrieval, Governance and  *)
(* Reports against what they are for. A behaviour picks one of them, one of *)
(* its inputs, and evaluates it; the properties compare the output with a   *)
(* definition of its own, which looks at the input as a whole where the     *)
(* code goes through it step by step.                                       *)
(***************************************************************************)
EXTENDS Integers, SequencesExt, FiniteSetsExt

CONSTANTS
  MaxChunks,   \* bound: length of a stream of the provider
  MaxMessages, \* bound: messages of a conversation
  MaxScript,   \* bound: lines of a diff
  MaxFiles,    \* bound: files of a scan, and matches it may give
  MaxEntries,  \* bound: entries of a directory, and how many may be listed
  MaxLines,    \* bound: lines of a file that is indexed
  MaxWindow,   \* bound: lines of a chunk
  MaxPieces,   \* bound: pieces of a command line
  MaxEvents,   \* bound: events of a log after its first
  MaxLayers    \* bound: layers of configuration

ASSUME AlgorithmsAssumption ==
  {MaxChunks, MaxMessages, MaxScript, MaxFiles, MaxEntries, MaxLines, MaxWindow, MaxPieces,
   MaxEvents, MaxLayers} \subseteq Nat

S == INSTANCE ModelStream
W == INSTANCE WorkspaceTools
R == INSTANCE Retrieval
G == INSTANCE Governance
L == INSTANCE Reports

VARIABLES
  subject,  \* the function that is looked at
  input,
  evaluated,
  output    \* what it gives, once it is evaluated

vars == <<subject, input, evaluated, output>>
Done(name) == subject = name /\ evaluated

UpTo(n, A) == UNION {[1..k -> A] : k \in 0..n}
Take(s, n) == SubSeq(s, 1, IF n < Len(s) THEN n ELSE Len(s))

-----------------------------------------------------------------------------
(* Streams of the provider                                                    *)

Chunk(index, id, pieces) == [text |-> FALSE, usage |-> FALSE, index |-> index, id |-> id, pieces |-> pieces]
Chunks == {[Chunk(-1, -1, <<>>) EXCEPT !.text = TRUE], [Chunk(-1, -1, <<>>) EXCEPT !.usage = TRUE]}
          \cup {Chunk(i, i, <<"open">>) : i \in {0, 1}} \cup {Chunk(i, -1, <<"close">>) : i \in {0, 1}}

Raw(type, calls) == [type |-> type, calls |-> calls]
Raws == {Raw("delta", <<>>), Raw("text", <<>>), Raw("item", <<0>>), Raw("item", <<1>>),
         Raw("completed", <<>>), Raw("completed", <<0, 1>>), Raw("error", <<>>)}

Given(ks) == [i \in DOMAIN ks |-> <<ks[i], "given">>]
Expected(text, ks) ==
  IF ks # <<>> THEN [kind |-> "tools", text |-> text, calls |-> Given(ks)]
  ELSE IF text THEN [kind |-> "answer", text |-> TRUE, calls |-> <<>>]
  ELSE [kind |-> "protocol", text |-> FALSE, calls |-> <<>>]

\* The calls of a chat stream, and whether each has come in full.
Indices(chunks) == {chunks[i].index : i \in DOMAIN chunks} \ {-1}
PiecesOf(chunks, k) == FlattenSeq([i \in DOMAIN chunks |-> IF chunks[i].index = k THEN chunks[i].pieces ELSE <<>>])
Whole(chunks) == \A k \in Indices(chunks) : PiecesOf(chunks, k) = <<"open", "close">>

\* The events of a type, in their order.
OfType(events, type) ==
  LET of[i \in 0..Len(events)] ==
        IF i = 0 THEN <<>>
        ELSE IF events[i].type = type THEN Append(of[i - 1], events[i]) ELSE of[i - 1]
  IN of[Len(events)]

\* An answer of the Responses dialect, in full: each call in an item of its own,
\* and all of them or none in the last event; a text after its deltas.
ItemCalls(raws) == FlattenSeq([i \in DOMAIN raws |-> IF raws[i].type = "item" THEN raws[i].calls ELSE <<>>])
Types(raws) == [i \in DOMAIN raws |-> raws[i].type]
InFull(raws) ==
  LET n == Len(raws) IN
  /\ n > 0 /\ raws[n].type = "completed"
  /\ \A i \in 1..(n - 1) : raws[i].type \in {"delta", "text", "item"}
  /\ Cardinality({i \in 1..n : raws[i].type = "text"}) <= 1
  /\ \A i, j \in 1..n : raws[i].type = "text" /\ raws[j].type = "delta" => j < i
  /\ ItemCalls(raws) \in {<<>>, <<0>>, <<0, 1>>}
  /\ raws[n].calls # <<>> => ItemCalls(raws) \in {<<>>, raws[n].calls}
CallsInFull(raws) == IF ItemCalls(raws) # <<>> THEN ItemCalls(raws) ELSE Last(raws).calls
HasText(raws) == \E i \in DOMAIN raws : raws[i].type \in {"delta", "text"}

Answers == BOOLEAN \X {<<>>, <<0>>, <<0, 1>>}

-----------------------------------------------------------------------------
(* Conversations                                                              *)

Message(type, id) == [type |-> type, id |-> id]
Messages == {Message("user", 0), Message("assistant", 0)} \cup {Message(t, k) : t \in {"call", "output"}, k \in {1, 2}}

\* The messages an item stands for.
Unfold(item) ==
  LET calls == [i \in DOMAIN item.calls |-> Message("call", item.calls[i])] IN
  CASE item.role = "tool"                        -> <<Message("output", item.text)>>
    [] item.role = "assistant" /\ item.text = -1 -> calls
    [] OTHER                                     -> <<Message(item.role, item.text)>> \o calls

\* As the turns write it: batches of calls, each with its outputs behind it.
Batched(messages) ==
  \A i \in DOMAIN messages : messages[i].type = "output" =>
    \E j \in 1..(i - 1) : /\ messages[j] = Message("call", messages[i].id)
                          /\ \E m \in j..(i - 1) : /\ \A k \in j..m : messages[k].type = "call"
                                                   /\ \A k \in (m + 1)..i : messages[k].type = "output"

-----------------------------------------------------------------------------
(* Diffs. A script is the lines of a diff with full context; how a file ends   *)
(* is said by the two flags of the input.                                     *)

Texts == {"a", "-- x", "++ x"}
ScriptLines == {[prefix |-> p, text |-> t] : p \in {" ", "-", "+"}, t \in Texts}
OldSide == {" ", "-"}
NewSide == {" ", "+"}

LastOf(script, side) == Max({0} \cup {i \in DOMAIN script : script[i].prefix \in side})
Marked(case, i) ==
  \/ case.oldUnended /\ i = LastOf(case.script, OldSide)
  \/ case.newUnended /\ i = LastOf(case.script, NewSide)
SideOf(case, side) ==
  LET at == SetToSortSeq({i \in DOMAIN case.script : case.script[i].prefix \in side}, <)
      line(i) == W!Line(case.script[i].text)
  IN [j \in DOMAIN at |-> IF Marked(case, at[j]) THEN W!Unended(line(at[j])) ELSE line(at[j])]

\* A line both sides share ends the same way on both.
Possible(case) ==
  /\ case.script # <<>>
  /\ \A i \in DOMAIN case.script : case.script[i].prefix = " " /\ Marked(case, i) =>
       i = LastOf(case.script, OldSide) /\ i = LastOf(case.script, NewSide) /\ case.oldUnended /\ case.newUnended
  /\ case.oldUnended => LastOf(case.script, OldSide) > 0
  /\ case.newUnended => LastOf(case.script, NewSide) > 0

\* A hunk for each run of lines within the context of a change.
Shown(case) == {i \in DOMAIN case.script : \E j \in DOMAIN case.script :
                  case.script[j].prefix # " " /\ i - j \in (-case.context)..case.context}
Runs(case) == {run \in Shown(case) \X Shown(case) :
                 /\ run[1] <= run[2] /\ (run[1]..run[2]) \subseteq Shown(case)
                 /\ run[1] - 1 \notin Shown(case) /\ run[2] + 1 \notin Shown(case)}
OldBefore(case, a) == Cardinality({i \in 1..(a - 1) : case.script[i].prefix \in OldSide})
HasOld(case, run) == \E i \in run[1]..run[2] : case.script[i].prefix \in OldSide

HunkText(case, run) ==
  <<W!PatchLine("@@", IF HasOld(case, run) THEN OldBefore(case, run[1]) + 1 ELSE OldBefore(case, run[1]))>>
  \o FlattenSeq([i \in 1..(run[2] - run[1] + 1) |->
       LET k == run[1] + i - 1 IN
       <<W!Recognised(case.script[k].prefix, case.script[k].text)>>
         \o (IF Marked(case, k) THEN <<W!PatchLine("\\", "")>> ELSE <<>>)])

UnifiedDiff(case) ==
  LET runs == SetToSortSeq(Runs(case), LAMBDA q, r : q[1] < r[1])
  IN <<W!PatchLine("---", "f"), W!PatchLine("+++", "f")>>
     \o FlattenSeq([i \in DOMAIN runs |-> HunkText(case, runs[i])])

\* What the parser and the positions it takes are made for.
Plain(case) ==
  /\ Shown(case) # {}
  /\ \A run \in Runs(case) : HasOld(case, run)
  /\ \A i \in DOMAIN case.script : case.script[i] # [prefix |-> "-", text |-> "-- x"]

Diffs == {case \in [script : UpTo(MaxScript, ScriptLines), context : {0, 1}, oldUnended : BOOLEAN, newUnended : BOOLEAN] :
            Possible(case) /\ Plain(case)}

\* The file as it was, or with another line in the place of one.
Sources(case) ==
  LET before == SideOf(case, OldSide)
      other(line) == IF line.nl THEN W!Unended(line) ELSE W!Line(line.text)
  IN {before} \cup {[before EXCEPT ![Len(before)] = other(@)]}

-----------------------------------------------------------------------------
(* Patches of several files: what each section does to its file.              *)

OneLine == <<W!Line("a")>>
Section(path, effect) ==
  <<W!PatchLine("---", path), W!PatchLine("+++", path)>> \o
  CASE effect = "change"   -> <<W!PatchLine("@@", 1), W!PatchLine("+", "new")>>
    [] effect = "conflict" -> <<W!PatchLine("@@", 1), W!PatchLine("-", "other")>>
    [] effect = "nothing"  -> <<W!PatchLine("@@", 1), W!PatchLine(" ", "a")>>
    [] effect = "empty"    -> <<>>

FileKinds == {"text", "directory", "missing", "outside"}
PatchCases ==
  {case \in [sections : UpTo(3, {"p", "q", "r"} \X {"change", "conflict", "nothing", "empty"}),
             odd : FileKinds] :
     IsInjective([i \in DOMAIN case.sections |-> case.sections[i][1]])}
WorkspaceOf(case) ==
  [p \in {"p", "q", "r"} |-> [kind |-> IF p = "q" THEN case.odd ELSE "text", lines |-> OneLine]]
PatchOf(case) == FlattenSeq([i \in DOMAIN case.sections |-> Section(case.sections[i][1], case.sections[i][2])])
Fails(case, i) ==
  case.sections[i][2] = "conflict" \/ (case.sections[i][1] = "q" /\ case.odd # "text")

-----------------------------------------------------------------------------
(* Searches                                                                   *)

Hits == [missing : BOOLEAN, fresh : SUBSET {1}, stale : SUBSET {2}]
Requests == [mode : {"both", "path"}, shape : R!Shapes, caseSensitive : BOOLEAN]
Worlds == UNION {{[n \in {"scan"} \cup names |-> IF n = "scan" THEN m ELSE h[n]] :
                    m \in SUBSET {3}, h \in [names -> Hits]} : names \in {{}, {"symbol", "lexical"}}}
SearchCases == [strategy : {"auto", "scan", "lexical", "symbol"}, request : Requests, world : Worlds]

AskIn(case, name) == R!Ask(name, case.request, case.world)

ScanFiles == [escaped : BOOLEAN, inPath : BOOLEAN, content : {0, 2}]
                \cup [escaped : {FALSE}, inPath : BOOLEAN, content : {-1, R!Gone}]
ScanCases == [mode : {"both", "path", "content"}, max : 1..MaxFiles, files : UpTo(MaxFiles, ScanFiles)]
MatchesOf(case, f) ==
  IF f.escaped THEN 0
  ELSE (IF f.inPath /\ case.mode # "content" THEN 1 ELSE 0)
       + (IF case.mode = "path" THEN 0 ELSE R!ScanLines(f))
AllMatches(case) ==
  LET sum[i \in 0..Len(case.files)] ==
        IF i = 0 THEN 0 ELSE sum[i - 1] + MatchesOf(case, case.files[i])
  IN sum[Len(case.files)]

ListCases == [entries : UpTo(MaxEntries, [skipped : BOOLEAN]), max : 1..MaxEntries]

\* Trees of definitions: two nodes lie apart or one in the other.
Nodes(lines) == {n \in [from : 0..(2 * lines - 1), to : 0..(2 * lines - 1)] : n.from <= n.to}
Nested(a, b) == a.to < b.from \/ b.to < a.from \/ (a.from <= b.from /\ b.to <= a.to) \/ (b.from <= a.from /\ a.to <= b.to)
Trees(lines) == {{}} \cup {{t[1], t[2]} : t \in {u \in Nodes(lines) \X Nodes(lines) : Nested(u[1], u[2])}}
ChunkCases == UNION {[lines : {n}, nodes : Trees(n), size : {s}, overlap : 0..(s - 1)] :
                       n \in 0..MaxLines, s \in 1..MaxWindow}

-----------------------------------------------------------------------------
(* Tool calls to be decided on                                                *)

Command(exe, args) == [exe |-> exe, args |-> args]
Commands == {Command("ls", <<>>), Command("git", <<"status">>), Command("git", <<"push">>), Command("git", <<>>),
             Command("curl", <<>>), Command("rm", <<"-rf", "/">>), Command("rm", <<"-r", "/">>), Command("sudo", <<"ls">>),
             Command("sed", <<"-i">>), Command("sed", <<>>), Command("uv", <<"run", "pytest">>), Command("npm", <<"test">>),
             Command("python", <<"-m", "pytest">>), Command("python", <<"-V">>), Command("make", <<>>)}
CommandLines == [closed : BOOLEAN, pieces : UpTo(MaxPieces, Commands \cup {G!Broken})]
Tool(name, effects, asks) == [name |-> name, effects |-> effects, asks |-> asks]
Bash == Tool("bash", {"process_exec"}, TRUE)
OtherTools == {Tool("write_file", {"workspace_write"}, TRUE), Tool("read_file", {"read_only"}, FALSE),
               Tool("mcp", {"network", "external"}, TRUE), Tool("mcp", {"external"}, FALSE)}
Settings == [mode : {"read_only", "workspace_write", "danger_full_access"}, network : BOOLEAN,
             policy : {"never", "on_request", "untrusted"}]
NoLine == [closed |-> TRUE, pieces |-> <<>>]
GovernCases == [tool : {Bash}, line : CommandLines, settings : Settings, consent : BOOLEAN]
                 \cup [tool : OtherTools, line : {NoLine}, settings : Settings, consent : BOOLEAN]

-----------------------------------------------------------------------------
(* Logs: two turns one after the other, whose calls all have the same id. A    *)
(* log may end anywhere.                                                      *)

Entry(type, turn, arguments, success, reason) ==
  [type |-> type, turn |-> turn, call |-> "c", arguments |-> arguments, success |-> success, reason |-> reason]
Entries(t) ==
  {Entry("user_message", t, "none", FALSE, "none"), Entry("error", t, "none", FALSE, "none"),
   Entry("turn_finished", t, "none", FALSE, "success")}
  \cup {Entry("model_tool_call", t, a, FALSE, "none") : a \in {"x", "y"}}
  \cup {Entry("tool_call_finished", t, "none", b, "none") : b \in BOOLEAN}
  \cup {Entry("turn_aborted", t, "none", FALSE, r) : r \in {"interrupted", "model_error"}}

Terminal(e) == e.type \in {"turn_finished", "turn_aborted"}
CallOpen(log) == \E i \in DOMAIN log : log[i].type = "model_tool_call" /\ log[i].turn = Last(log).turn
                   /\ \A j \in i..Len(log) : log[j].type # "tool_call_finished"
MayFollow(log, e) ==
  LET end == Last(log) IN
  IF Terminal(end) THEN e.type = "user_message" /\ e.turn = end.turn + 1
  ELSE /\ e.turn = end.turn
       /\ IF e.type = "user_message" THEN FALSE
          ELSE IF end.type = "error" THEN e.type = "turn_aborted" /\ e.reason = "model_error"
          ELSE IF e.type = "model_tool_call" THEN ~CallOpen(log)
          ELSE IF e.type = "tool_call_finished" THEN CallOpen(log)
          ELSE IF e.type = "turn_aborted" THEN e.reason = "interrupted"
          ELSE IF e.type = "turn_finished" THEN ~CallOpen(log)
          ELSE TRUE

Logs == LET grow[n \in 0..MaxEvents] ==
              IF n = 0 THEN {<<Entry("user_message", 1, "none", FALSE, "none")>>}
              ELSE grow[n - 1] \cup
                   {Append(x[1], x[2]) : x \in {y \in grow[n - 1] \X (Entries(1) \cup Entries(2)) : MayFollow(y[1], y[2])}}
        IN grow[MaxEvents]

EvalCases == [log : Logs, runtimeError : BOOLEAN, checksPass : BOOLEAN]

\* Attempts of two tasks, twice each.
Outcomes == {[log |-> <<Entry("user_message", 1, "none", FALSE, "none")>> \o ends, runtimeError |-> error, checksPass |-> pass] :
               ends \in {<<Entry("turn_finished", 1, "none", FALSE, "success")>>,
                        <<Entry("model_tool_call", 1, "x", FALSE, "none"), Entry("tool_call_finished", 1, "none", FALSE, "none"),
                          Entry("turn_finished", 1, "none", FALSE, "success")>>},
               error \in BOOLEAN, pass \in BOOLEAN}
SuiteTasks == <<"t1", "t2">>
SuiteCases == [1..4 -> Outcomes]

\* What a provider says of a request, in either dialect.
Usages == [dialect : {"responses"}, input : {-1, 3}, output : {0, 2}, reasoning : {-1, 1}, cached : {-1, 3},
           prompt : {-1}, completion : {-1}, total : {-1}]
     \cup [dialect : {"chat"}, input : {-1}, output : {-1}, reasoning : {-1, 1}, cached : {-1, 3},
           prompt : {-1, 3}, completion : {-1, 2}, total : {-1, 0, 5}]

BenchmarkCases == [matches : UpTo(5, {"p", "q", "r"}), relevant : SUBSET {"p", "q"}, k : {1, 2}]

PercentCases == [values : UpTo(4, 0..2), percent : {50, 95}] \cup [values : {[i \in 1..n |-> i] : n \in {19, 20, 21, 40}}, percent : {50, 95}]

\* Configs: what is on the way to a path is a table. A layer may give a key, a
\* section, or a table inside a section as one or as the other.
IsConfig(config) ==
  \A p \in DOMAIN config : \A i \in 1..(Len(p) - 1) :
    L!Way(p)[i] \in DOMAIN config /\ config[L!Way(p)[i]].table
LayerPaths == {<<"s">>, <<"s", "j">>, <<"s", "d">>, <<"s", "d", "x">>}
Layers == {c \in UNION {[ps -> {L!Table, L!Scalar("u"), L!Scalar("v")}] : ps \in SUBSET LayerPaths} : IsConfig(c)}
ConfigPaths == LayerPaths \cup {<<"s", "d", "y">>, <<"t">>}
Defaults == [p \in ConfigPaths |-> IF p \in {<<"s">>, <<"s", "d">>} THEN L!Table ELSE L!Scalar("d")]

\* Layer 0 is what there is without any. A layer that has a scalar on the way to a
\* path takes away what was below.
LayerAt(defaults, layers, i) == IF i = 0 THEN defaults ELSE layers[i]
CutsOff(config, p) ==
  \E i \in 1..(Len(p) - 1) : L!Way(p)[i] \in DOMAIN config /\ ~config[L!Way(p)[i]].table

-----------------------------------------------------------------------------
(* The functions                                                              *)

Subjects == {"chat", "responses", "whole", "messages", "diff", "patch", "write", "search", "scan", "list",
             "chunks", "govern", "report", "verdict", "percentile", "config", "suite", "usage", "benchmark"}

Init ==
  /\ evaluated = FALSE /\ output = <<>>
  /\ \/ subject = "chat"       /\ input \in UpTo(MaxChunks, Chunks)
     \/ subject = "responses"  /\ input \in UpTo(MaxChunks, Raws)
     \/ subject = "whole"      /\ input \in Answers
     \/ subject = "messages"   /\ input \in UpTo(MaxMessages, Messages)
     \/ subject = "diff"       /\ \E case \in Diffs : \E source \in Sources(case) : input = [case |-> case, source |-> source]
     \/ subject = "patch"      /\ input \in PatchCases
     \/ subject = "write"      /\ input \in [kind : FileKinds, parent : BOOLEAN, create : BOOLEAN,
                                             content : {<<>>, OneLine, <<W!Unended(OneLine[1])>>}]
     \/ subject = "search"     /\ input \in SearchCases
     \/ subject = "scan"       /\ input \in ScanCases
     \/ subject = "list"       /\ input \in ListCases
     \/ subject = "chunks"     /\ input \in ChunkCases
     \/ subject = "govern"     /\ input \in GovernCases
     \/ subject = "report"     /\ input \in Logs
     \/ subject = "verdict"    /\ input \in EvalCases
     \/ subject = "percentile" /\ input \in PercentCases
     \/ subject = "config"     /\ input \in UpTo(MaxLayers, Layers)
     \/ subject = "suite"      /\ input \in SuiteCases
     \/ subject = "usage"      /\ input \in Usages
     \/ subject = "benchmark"  /\ input \in BenchmarkCases

Ready(name) == subject = name /\ ~evaluated /\ evaluated' = TRUE /\ UNCHANGED <<subject, input>>
WriteTo(case) == [WorkspaceOf([odd |-> case.kind]) EXCEPT !["q"].lines = IF case.kind = "text" THEN OneLine ELSE <<>>]
WithRefresh(result) ==
  [workspace |-> result.workspace, changed |-> result.changed, error |-> result.error,
   refreshed |-> R!ChangedPaths(result)]

ReadChat == Ready("chat") /\ output' = S!ChatStream(input)
ReadResponses == Ready("responses") /\ output' = S!ResponseStream(input)
ReadWhole == Ready("whole") /\ output' = <<S!Response(input[1], input[2]), S!ChatResponse(<<[text |-> input[1], calls |-> input[2]]>>)>>
SendMessages == Ready("messages") /\ output' = S!MessagesToChat(input)
ApplyDiff == Ready("diff") /\ LET p == W!ParsePatch(UnifiedDiff(input.case)) IN
  output' = IF p.error = "none" THEN W!ApplyHunks(input.source, p.files[1].hunks) ELSE [error |-> TRUE, lines |-> <<>>]
ApplyFiles == Ready("patch") /\ output' = WithRefresh(W!ApplyPatch(WorkspaceOf(input), PatchOf(input)))
WriteOne == Ready("write") /\ output' = WithRefresh(W!WriteFile(WriteTo(input), "q", input.parent, input.create, input.content))
Search == Ready("search") /\ output' = R!Retrieve(input.strategy, input.request, input.world)
ScanAll == Ready("scan") /\ output' = R!Scan(input, input.files)
ListAll == Ready("list") /\ output' = W!ListFiles(input.entries, input.max)
ChunkFile == Ready("chunks") /\ output' = R!Chunks(input.lines, input.nodes, input.size, input.overlap)
Decide == Ready("govern") /\ output' = G!Govern(input.tool, input.line, input.settings, input.consent)
Report == Ready("report") /\ output' = [metrics |-> L!Metrics(input), turns |-> L!Turns(input), calls |-> L!ToolCalls(input)]
Grade == Ready("verdict") /\ output' = L!ClassifyFailure(input.log, input.runtimeError, input.checksPass)
Rank == Ready("percentile") /\ output' = L!Percentile(input.values, input.percent)
LoadConfig == Ready("config") /\ output' = L!Load(Defaults, input)
RunSuite == Ready("suite") /\
  LET runs == L!Schedule(SuiteTasks, 2)
      results == [i \in DOMAIN runs |-> L!Attempted(runs[i], input[i].log, input[i].runtimeError, input[i].checksPass, i)]
  IN output' = [results |-> results, total |-> L!Aggregate(results), rows |-> L!Summaries(results)]
CountTokens == Ready("usage") /\ output' = IF input.dialect = "chat" THEN S!ChatUsage(input) ELSE S!Usage(input)
Benchmark == Ready("benchmark") /\ output' = L!Scores(input.matches, input.relevant, input.k)

Next ==
  \/ ReadChat \/ ReadResponses \/ ReadWhole \/ SendMessages \/ ApplyDiff \/ ApplyFiles \/ WriteOne
  \/ Search \/ ScanAll \/ ListAll \/ ChunkFile \/ Decide \/ Report \/ Grade \/ Rank \/ LoadConfig
  \/ RunSuite \/ CountTokens \/ Benchmark

Spec == Init /\ [][Next]_vars

-----------------------------------------------------------------------------
(* Properties                                                                 *)

\* The loop of a turn gets each call of a chat stream once, in the order of the
\* indices, however their pieces are interleaved, with the arguments the model
\* gave if they came in full; and as many deltas as there were texts.
ChatCallsAssembled ==
  Done("chat") =>
    LET calls == OfType(output, "call")
        deltas == OfType(output, "delta")
        ks == S!Ascending(Indices(input))
    IN /\ Len(calls) = Len(ks)
       /\ \A i \in DOMAIN ks : PiecesOf(input, ks[i]) = <<"open", "close">> =>
            calls[i] = S!CallEvent(ks[i], "given")
       /\ Len(deltas) = Cardinality({i \in DOMAIN input : input[i].text})

\* A call of the Responses dialect reaches the turn once, be it announced by its
\* item, by the last event or by both, also when the stream breaks off; a call
\* that has not been announced in full never does.
ResponseCallsOnce ==
  Done("responses") /\ (\A i \in DOMAIN input : input[i].type = "completed" => i = Len(input)) =>
    LET calls == OfType(output, "call")
        announced == UNION {ToSet(input[i].calls) : i \in DOMAIN input}
    IN /\ \A i \in DOMAIN calls : calls[i].call \in announced
       /\ IsInjective(ItemCalls(input)) => IsInjective(calls)
       /\ \A k \in ToSet(ItemCalls(input)) : \E i \in DOMAIN calls : calls[i].call = k

\* The same answer means the same to the turn in whichever dialect it comes, in
\* one piece or in many.
SameAnswerInAnyDialect ==
  /\ Done("chat") /\ Whole(input) =>
       S!Outcome(output) = Expected(\E i \in DOMAIN input : input[i].text, S!Ascending(Indices(input)))
  /\ Done("responses") /\ InFull(input) => S!Outcome(output) = Expected(HasText(input), CallsInFull(input))
  /\ Done("whole") => \A i \in {1, 2} : S!Outcome(output[i]) = Expected(input[1], input[2])

\* Chat items stand for all messages in their order, and in a conversation as the
\* turns write it each tool item comes in the run behind the item with its call.
ConversationSurvives ==
  Done("messages") =>
    /\ FlattenSeq([i \in DOMAIN output |-> Unfold(output[i])]) = input
    /\ Batched(input) =>
         \A i \in DOMAIN output : output[i].role = "tool" =>
           \E j \in 1..(i - 1) : /\ output[i].text \in ToSet(output[j].calls)
                                 /\ \A k \in (j + 1)..i : output[k].role = "tool"

\* A diff with old lines in each hunk turns the file it was made from into the
\* other one, whatever its lines look like and however the two files end.
DiffGivesTheNewFile ==
  Done("diff") /\ input.source = SideOf(input.case, OldSide) =>
    ~output.error /\ output.lines = SideOf(input.case, NewSide)

\* A file whose last line, which the diff shows, ends another way is refused.
DiffNeverGuesses ==
  Done("diff") /\ input.source # SideOf(input.case, OldSide)
    /\ LastOf(input.case.script, OldSide) \in Shown(input.case) => output.error

\* Up to the first section that cannot be applied all are, behind it none is; a
\* patch that cannot be read changes nothing, and one that succeeds says which
\* files it has changed.
PatchIsAPrefix ==
  Done("patch") =>
    LET n == Len(input.sections)
        unreadable == n = 0 \/ \E i \in 1..n : input.sections[i][2] = "empty"
        failing == {i \in 1..n : Fails(input, i)}
        applied == IF unreadable THEN {} ELSE {i \in 1..n : \A f \in failing : i < f}
        differing == {p \in DOMAIN output.workspace : output.workspace[p] # WorkspaceOf(input)[p]}
    IN /\ differing = {input.sections[i][1] : i \in {j \in applied : input.sections[j][2] = "change"}}
       /\ output.error = "none" <=> ~unreadable /\ failing = {}
       /\ ToSet(output.changed) = differing

\* The index hears of each file a successful call has changed, or made, and of
\* no other.
RefreshFollowsWrites ==
  (Done("patch") \/ Done("write")) /\ output.error = "none" =>
    LET before == IF subject = "write" THEN WriteTo(input) ELSE WorkspaceOf(input)
    IN output.refreshed = {p \in DOMAIN before : output.workspace[p] # before[p]}

\* A search by plan gives the matches of the first retriever of the plan that has
\* some, says which one that was, and gives up only when it has asked them all.
SearchFinds ==
  Done("search") /\ input.strategy = "auto" =>
    LET plan == IF DOMAIN input.world = {"scan"} THEN <<"scan">> ELSE R!Route(input.request)
        finders == {i \in DOMAIN plan : AskIn(input, plan[i]).matches # {}}
    IN /\ output.error = "none"
       /\ IF finders = {} THEN output.matches = {} /\ output.attempted = plan
          ELSE /\ output.retriever = plan[Min(finders)]
               /\ output.matches = AskIn(input, plan[Min(finders)]).matches
               /\ output.attempted = Take(plan, Min(finders))

\* A search by name is answered by the scan, which reads the files, rather than
\* by an index that is not there or knows only of what the files were.
StaleNeverHides ==
  Done("search") /\ input.strategy # "auto" /\ output.matches = {} /\ input.world.scan # {} =>
    LET hits == input.world[input.strategy] IN ~hits.missing /\ hits.stale = {}

\* A scan or a listing that does not say it was cut short has left nothing out; a
\* scan fails only because of a file that has gone.
NothingHiddenSilently ==
  /\ Done("scan") =>
       IF output.error THEN \E i \in DOMAIN input.files : input.files[i].content = R!Gone
       ELSE output.matches = AllMatches(input) \/ (output.truncated /\ output.matches = input.max)
  /\ Done("list") =>
       /\ \A i \in DOMAIN output.shown : ~output.shown[i].skipped
       /\ \/ Len(output.shown) = Cardinality({i \in DOMAIN input.entries : ~input.entries[i].skipped})
          \/ output.truncated /\ Len(output.shown) = input.max

\* Every line of a file can be found: it lies in a chunk, and no chunk is longer
\* than the bound or reaches over the end of the file.
ChunksCoverTheFile ==
  Done("chunks") =>
    /\ \A line \in 0..(input.lines - 1) : \E i \in DOMAIN output : line \in output[i].first..output[i].last
    /\ \A i \in DOMAIN output : /\ output[i].first <= output[i].last /\ output[i].last < input.lines
                               /\ output[i].last - output[i].first < input.size

\* What is executed has passed every gate: the sandbox's, the command policy's
\* for each piece of the line, and the user's where the policy asks for it.
ExecutedMeansGoverned ==
  Done("govern") /\ output = "executed" =>
    LET s == input.settings
        risks == {G!ClassifySingle(c, s.network) : c \in ToSet(input.line.pieces) \ {G!Broken}}
    IN /\ s.mode = "read_only" => input.tool.effects = {"read_only"}
       /\ "network" \in input.tool.effects => s.network
       /\ input.tool = Bash => input.line.closed /\ "deny" \notin risks
                                /\ ("prompt" \in risks => s.policy # "never" /\ input.consent)
       /\ input.tool \in OtherTools /\ input.tool.effects # {"read_only"} =>
            \/ input.consent \/ s.policy = "never" \/ (s.policy = "on_request" /\ ~input.tool.asks)

\* In a report each result stands next to the arguments of the request it answers,
\* also when the model uses an id again.
ReportPairsCalls ==
  Done("report") =>
    LET at == SetToSortSeq({i \in DOMAIN input : input[i].type = "tool_call_finished"}, <)
        request(i) == Max({j \in 1..(i - 1) : input[j].type = "model_tool_call"})
    IN /\ Len(output.calls) = Len(at)
       /\ \A k \in DOMAIN at : output.calls[k].arguments = input[request(at[k])].arguments
                               /\ output.calls[k].turn = input[request(at[k])].turn

\* The report's turns and its totals agree, and its status is that of the last
\* turn that has ended.
ReportAddsUp ==
  Done("report") =>
    LET ended == {i \in DOMAIN output.turns : output.turns[i].status # "running"} IN
    /\ output.metrics.turns = Len(output.turns)
    /\ output.metrics.calls = FoldLeft(+, 0, [i \in DOMAIN output.turns |-> output.turns[i].calls])
    /\ IF ended = {} THEN output.metrics.status = "unknown"
       ELSE output.metrics.status = output.turns[Max(ended)].status

\* An attempt passes only if its last event ends a turn with success; one that the
\* model has broken is laid at its door.
VerdictFits ==
  Done("verdict") =>
    LET ends == {i \in DOMAIN input.log : Terminal(input.log[i])}
        last == input.log[Max(ends)]
    IN /\ output = "none" => /\ ~input.runtimeError /\ input.checksPass
                             /\ ends # {} /\ last.type = "turn_finished"
       /\ ~input.runtimeError /\ ends # {} /\ last.reason = "model_error" /\ Terminal(Last(input.log)) => output = "model_error"

\* At least the given share of the values is as small as the percentile, and less
\* than that share is smaller.
PercentileIsNearestRank ==
  Done("percentile") /\ input.values # <<>> =>
    LET n == Len(input.values)
        count(Test(_)) == Cardinality({i \in 1..n : Test(input.values[i])})
    IN /\ 100 * count(LAMBDA v : v <= output) >= input.percent * n
       /\ 100 * count(LAMBDA v : v < output) < input.percent * n

\* Each setting, at whatever depth, has the value of the last layer that gives it,
\* and none is lost because a later layer gives another one of its table: only a
\* layer that gives a scalar for a table around it takes it away.
LastLayerWins ==
  Done("config") =>
    LET layer(i) == LayerAt(Defaults, input, i)
        givers(p) == {i \in 0..Len(input) : p \in DOMAIN layer(i)}
    IN /\ IsConfig(output)
       /\ DOMAIN output = {p \in ConfigPaths : \E i \in givers(p) :
                             \A j \in (i + 1)..Len(input) : ~CutsOff(layer(j), p)}
       /\ \A p \in DOMAIN output : output[p] = layer(Max(givers(p)))[p]

\* Each task of a suite is attempted as often as asked, and what is said of the
\* tasks adds up to what is said of the run: attempts, passes, tokens, failures.
SuiteAddsUp ==
  Done("suite") =>
    LET sum(value(_)) == FoldSet(LAMBDA r, n : n + value(r), 0, output.rows)
        total == output.total
    IN /\ {r.task : r \in output.rows} = ToSet(SuiteTasks) /\ \A r \in output.rows : r.attempts = 2
       /\ sum(LAMBDA r : r.attempts) = total.evaluations
       /\ sum(LAMBDA r : r.passed) = total.passed
       /\ sum(LAMBDA r : r.tokens) = total.tokens
       /\ total.failed = FoldSet(LAMBDA f, n : n + total.failures[f], 0, DOMAIN total.failures)
       /\ \A i \in DOMAIN input : output.results[i].passed <=> input[i].checksPass /\ ~input[i].runtimeError

\* In the chat dialect the total is the provider's own, also when it is 0; without
\* one, and always in the responses dialect, it is what went in, what came out and
\* what was reasoned, each once; cached tokens are among those that went in.
TokensCountedOnce ==
  Done("usage") =>
    LET said(k) == IF input[k] = -1 THEN 0 ELSE input[k]
        went == IF input.dialect = "chat" THEN said("prompt") + said("completion") ELSE said("input") + said("output")
    IN output.total = IF input.total # -1 THEN input.total ELSE went + said("reasoning")

\* A file that matches on several lines takes one place: the first k places hold
\* k files if so many were found, and a score is never more than the whole.
ScoresCountFiles ==
  Done("benchmark") =>
    LET files == ToSet(input.matches)
        firstAt(p) == Min({i \in DOMAIN input.matches : input.matches[i] = p})
        before(p) == {f \in files : firstAt(f) < firstAt(p)}
        top == {p \in files : Cardinality(before(p)) < input.k}
    IN /\ output.recall.of <= output.recall.all /\ output.precision.of <= output.precision.all
       /\ input.relevant # {} => output.recall = [of |-> Cardinality(top \cap input.relevant), all |-> Cardinality(input.relevant)]
       /\ top # {} => output.precision.all = Cardinality(top)
       /\ output.irrelevant = Cardinality(top \ input.relevant)
       /\ output.rank # 0 <=> files \cap input.relevant # {}

-----------------------------------------------------------------------------
(* The same by component                                                      *)

\* What a provider says reaches the turn as it was meant, in every dialect: its
\* calls, its text and its count of tokens (llm/providers/compatible/base.py).
AnswersReachTheTurn ==
  ChatCallsAssembled /\ ResponseCallsOnce /\ SameAnswerInAnyDialect /\ TokensCountedOnce

\* A change of files is the one that was asked for or none, it is reported as far
\* as it was made, and the index hears of it (patch.py, filesystem.py, observer.py).
ChangesAreExact ==
  DiffGivesTheNewFile /\ DiffNeverGuesses /\ PatchIsAPrefix /\ RefreshFollowsWrites

\* A search that finds nothing, or less than there is, says so: no retriever, no
\* limit and no border between chunks hides a match (retrieval/, filesystem.py).
SearchesHideNothing ==
  SearchFinds /\ StaleNeverHides /\ NothingHiddenSilently /\ ChunksCoverTheFile

\* Reports, verdicts and scores say what is in the logs they were made from
\* (core/trace_report.py, eval/, retrieval/benchmark.py).
ReportsTellTheRun ==
  /\ ReportPairsCalls /\ ReportAddsUp /\ VerdictFits /\ SuiteAddsUp
  /\ PercentileIsNearestRank /\ ScoresCountFiles
=============================================================================
