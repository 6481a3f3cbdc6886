------------------------------ MODULE Retrieval ------------------------------
(***************************************************************************)
(* A workspace search as functions: the plan QueryRouter makes from the     *)
(* shape of a query, the retrievers ContextEngine asks in turn, the scan of *)
(* the files; what the index makes of a file (TreeSitterChunker), and which *)
(* paths the observer refreshes after a tool call.                          *)
(*                                                                         *)
(* The answer of a retriever is its matches or "unavailable". A shape is    *)
(* what the router tells queries apart by.                                  *)
(***************************************************************************)
EXTENDS Integers, SequencesExt, FiniteSetsExt

Shapes == {"path", "identifier", "question", "phrase"}

Route(request) ==
  IF request.mode = "path" THEN <<"lexical", "scan">>
  ELSE IF request.shape = "path" THEN <<"scan", "lexical">>
  ELSE IF request.shape = "identifier" THEN IF request.caseSensitive THEN <<"symbol", "scan">>
                                         ELSE <<"symbol", "lexical", "scan">>
  ELSE IF request.caseSensitive THEN <<"scan">>
  ELSE IF request.shape = "question" THEN <<"lexical", "scan">>
  ELSE <<"scan", "lexical">>

-----------------------------------------------------------------------------
(* The indexed retrievers: "missing" is an index that is not there or does    *)
(* not serve the request; stale hits are dropped, and when nothing else was   *)
(* found the retriever steps aside for the next one. An error of the scan      *)
(* (below) ends the search; these are the searches without one.               *)

Answer(matches) == [available |-> TRUE, matches |-> matches]
Unavailable == [available |-> FALSE, matches |-> {}]

StaleAsEmpty(hits) == FALSE  \* mutant: nothing but stale hits counts as nothing found
OnlyStale(hits) == hits.stale # {} /\ hits.fresh = {}

Indexed(request, hits) ==
  IF hits.missing \/ OnlyStale(hits) THEN Unavailable ELSE Answer(hits.fresh)

Ask(name, request, world) ==
  IF name = "scan" THEN Answer(world.scan)
  ELSE IF name = "symbol" /\ request.mode = "path" THEN Unavailable
  ELSE Indexed(request, world[name])

-----------------------------------------------------------------------------
(* ContextEngine *)

FirstAnswer(answer) == TRUE  \* mutant: an answer without matches ends the search
Satisfies(answer) == answer.matches # {}

NoResponse == [retriever |-> "none", matches |-> {}, attempted |-> <<>>, done |-> FALSE, error |-> "unavailable"]

AskNext(s, name, request, world) ==
  LET answer == Ask(name, request, world)
      attempted == Append(s.attempted, name)
  IN IF s.done \/ name \notin DOMAIN world THEN s
     ELSE IF ~answer.available THEN [s EXCEPT !.attempted = attempted]
     ELSE [retriever |-> name, matches |-> answer.matches, attempted |-> attempted,
           done |-> Satisfies(answer), error |-> "none"]

AskInTurn(plan, request, world) ==
  LET asked[i \in 0..Len(plan)] ==
        IF i = 0 THEN NoResponse ELSE AskNext(asked[i - 1], plan[i], request, world)
  IN asked[Len(plan)]

\* A search that found nothing is labelled with the last retriever it has tried.
RetrieveAuto(request, world) ==
  LET s == AskInTurn(Route(request), request, world) IN
  IF s.done \/ s.error # "none" THEN [s EXCEPT !.retriever = Last(s.attempted)] ELSE s

\* A strategy of its own, with "scan" to fall back on.
Fallback(name, world) ==
  [retriever |-> "scan", matches |-> world.scan, attempted |-> <<name, "scan">>, done |-> TRUE, error |-> "none"]

RetrieveBy(name, request, world) ==
  LET answer == IF name \in DOMAIN world THEN Ask(name, request, world) ELSE Unavailable
  IN IF answer.available
     THEN [retriever |-> name, matches |-> answer.matches, attempted |-> <<name>>, done |-> TRUE, error |-> "none"]
     ELSE Fallback(name, world)

Retrieve(strategy, request, world) ==
  IF strategy = "auto" THEN RetrieveAuto(request, world) ELSE RetrieveBy(strategy, request, world)

-----------------------------------------------------------------------------
(* ScanRetriever: a file is [escaped, inPath, content], with content the lines  *)
(* that match, -1 for a file that is too large, binary or unreadable, or Gone  *)
(* for one that was listed and is no longer there when it is to be opened: the *)
(* whole scan, and with it the search, then ends with an error.               *)

Gone == -2

FullBeyond(s, max) == s.matches > max  \* mutant: > for >=
Full(s, max) == s.matches >= max

ScanLines(file) == IF file.content >= 0 THEN file.content ELSE 0

ScanFile(s, file, request) ==
  LET room == request.max - s.matches
      path == IF file.inPath /\ request.mode # "content" THEN 1 ELSE 0
      opened == request.mode # "path" /\ path # room
      lines == IF opened THEN ScanLines(file) ELSE 0
      found == IF path + lines < room THEN path + lines ELSE room
  IN IF s.error \/ Full(s, request.max) \/ file.escaped THEN s
     ELSE [matches |-> s.matches + found, scanned |-> s.scanned + 1,
           error |-> opened /\ file.content = Gone]

Scan(request, files) ==
  LET scan[i \in 0..Len(files)] ==
        IF i = 0 THEN [matches |-> 0, scanned |-> 0, error |-> FALSE]
        ELSE ScanFile(scan[i - 1], files[i], request)
      s == scan[Len(files)]
  IN [matches |-> s.matches, scanned |-> s.scanned, truncated |-> Full(s, request.max), error |-> s.error]

-----------------------------------------------------------------------------
(* TreeSitterChunker: a node is [from, to], two places to a row; lines are    *)
(* numbered from 0 and a chunk is [first, last] of them. The code drops a      *)
(* window of blank lines only, and cuts a file of which nothing is left into   *)
(* windows once more: there is nothing to be found in these, and they are kept *)
(* here.                                                                      *)

Row(place) == place \div 2
Min2(a, b) == IF a < b THEN a ELSE b
Max2(a, b) == IF a > b THEN a ELSE b

\* Only one that another of the nodes has around it is left out.
Outermost(nodes) ==
  LET outer == {n \in nodes : ~\E m \in nodes \ {n} : m.from <= n.from /\ m.to >= n.to}
  IN CHOOSE s \in [1..Cardinality(outer) -> outer] :
       \A i, j \in DOMAIN s : i < j => s[i].from < s[j].from

\* Windows of maxLines that overlap, up to the one that reaches the end.
Windows(first, end, size, overlap) ==
  LET step == size - overlap
      reached(k) == first + k * step + size >= end
      last == CHOOSE k \in 0..end : reached(k) /\ \A j \in 0..(k - 1) : ~reached(j)
  IN IF first >= end THEN <<>>
     ELSE [k \in 1..(last + 1) |->
            [first |-> first + (k - 1) * step, last |-> Min2(first + (k - 1) * step + size, end) - 1]]

GapFrom(cursor) == cursor + 1  \* mutant: a single line between two nodes is left out
Between(cursor) == cursor

ChunkNode(s, node, lineCount, size, overlap) ==
  LET first == Row(node.from)
      end == Min2(lineCount, Row(node.to) + 1)
  IN [chunks |-> s.chunks \o (IF first > Between(s.cursor) THEN Windows(s.cursor, first, size, overlap) ELSE <<>>)
                          \o Windows(first, end, size, overlap),
      cursor |-> Max2(s.cursor, end)]

Chunks(lineCount, nodes, size, overlap) ==
  LET outer == Outermost(nodes)
      read[i \in 0..Len(outer)] ==
        IF i = 0 THEN [chunks |-> <<>>, cursor |-> 0]
        ELSE ChunkNode(read[i - 1], outer[i], lineCount, size, overlap)
      s == read[Len(outer)]
  IN s.chunks \o Windows(s.cursor, lineCount, size, overlap)

-----------------------------------------------------------------------------
(* WorkspaceIndexObserver: what is refreshed after a call that succeeded.      *)

ChangedPaths(result) == IF result.error = "none" THEN ToSet(result.changed) ELSE {}
=============================================================================
