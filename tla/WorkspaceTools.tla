--------------------------- MODULE WorkspaceTools ---------------------------
(***************************************************************************)
(* The file tools as functions: apply_patch (parsing a unified diff, the    *)
(* hunks of a file, one file after the other), write_file and list_files.   *)
(*                                                                         *)
(* A line of a file is [text, nl]; only a last line may lack its newline.   *)
(* A line of a patch is [kind, text] with kind the prefix it is recognised  *)
(* by, and for a header the path or the start of the old range. A removed   *)
(* line whose text begins with "-- " has the prefix of a file header, and   *)
(* an added one that begins with "++ " that of the second.                  *)
(***************************************************************************)
EXTENDS Integers, SequencesExt

Line(text) == [text |-> text, nl |-> TRUE]
Unended(line) == [line EXCEPT !.nl = FALSE]

PatchLine(kind, text) == [kind |-> kind, text |-> text]

\* What startswith makes of a record with this prefix and text.
Recognised(prefix, text) ==
  CASE prefix = "-" /\ text = "-- x" -> PatchLine("---", "x")
    [] prefix = "+" /\ text = "++ x" -> PatchLine("+++", "x")
    [] OTHER                         -> PatchLine(prefix, text)

-----------------------------------------------------------------------------
(* _parse_patch: mode says which loop of the parser is reading.               *)

Parsing == [mode |-> "scan", files |-> <<>>, error |-> "none"]
Stop(s, error) == [s EXCEPT !.error = error]

\* A file section ends: at the next header or at the end of the patch.
Unclosed(s) == s  \* mutant: a file without hunks is let through
EndFile(s) == IF s.mode \in {"file", "hunk"} /\ Last(s.files).hunks = <<>> THEN Stop(s, "no hunks") ELSE s

ToLastFile(s, Op(_)) == [s EXCEPT !.files[Len(s.files)].hunks = Op(@)]
NewHunk(s, start) ==
  [ToLastFile(s, LAMBDA hunks : Append(hunks, [start |-> start, lines |-> <<>>])) EXCEPT !.mode = "hunk"]
ToLastHunk(s, line) ==
  ToLastFile(s, LAMBDA hunks : Append(Front(hunks), [Last(hunks) EXCEPT !.lines = Append(@, line)]))

ParseLine(s, line) ==
  IF s.error # "none" THEN s
  ELSE IF s.mode = "plus" THEN
    CASE line.kind # "+++"       -> Stop(s, "missing +++")
      [] line.text = "/dev/null" -> Stop(s, "no creation")
      [] OTHER -> [s EXCEPT !.mode = "file", !.files = Append(@, [path |-> line.text, hunks |-> <<>>])]
  ELSE IF line.kind = "---" THEN [EndFile(s) EXCEPT !.mode = "plus"]
  ELSE IF line.kind = "@@" /\ s.mode # "scan" THEN NewHunk(s, line.text)
  ELSE IF s.mode # "hunk" THEN s
  ELSE IF line.kind \in {"+", "-", " ", "\\", "+++"} THEN ToLastHunk(s, line)
  ELSE Stop(s, "unsupported line")

ParsePatch(lines) ==
  LET s == EndFile(FoldLeft(ParseLine, Parsing, lines)) IN
  IF s.error # "none" THEN [error |-> s.error, files |-> <<>>]
  ELSE IF s.mode = "plus" THEN [error |-> "missing +++", files |-> <<>>]
  ELSE IF s.files = <<>> THEN [error |-> "no changes", files |-> <<>>]
  ELSE [error |-> "none", files |-> s.files]

-----------------------------------------------------------------------------
(* _hunk_records and _apply_hunks                                             *)

\* "+++" is a "+" of a text that begins with "++ ".
RecordOf(line) ==
  IF line.kind = "+++" THEN [prefix |-> "+", line |-> Line("++ x")]
  ELSE [prefix |-> line.kind, line |-> Line(line.text)]

\* The marker takes the newline from the record before it.
WithLine(records, line) ==
  IF line.kind # "\\" THEN Append(records, RecordOf(line))
  ELSE [j \in DOMAIN records |->
         IF j = Len(records) THEN [records[j] EXCEPT !.line = Unended(@)] ELSE records[j]]

Records(lines) ==
  LET records[i \in 0..Len(lines)] ==
        IF i = 0 THEN <<>> ELSE WithLine(records[i - 1], lines[i])
  IN records[Len(lines)]

StrayMarker(lines) ==
  \E i \in DOMAIN lines : lines[i].kind = "\\" /\ (i = 1 \/ lines[i - 1].kind = "\\")

ApplyingTo(source) == [source |-> source, cursor |-> 0, result |-> <<>>, error |-> FALSE]

MatchesText(s, line) ==  \* mutant: the newline of the line is not compared
  s.cursor < Len(s.source) /\ s.source[s.cursor + 1].text = line.text
Matches(s, line) == s.cursor < Len(s.source) /\ s.source[s.cursor + 1] = line

ApplyRecord(s, record) ==
  IF record.prefix = "+" THEN [s EXCEPT !.result = Append(@, record.line)]
  ELSE IF ~Matches(s, record.line) THEN [s EXCEPT !.error = TRUE]
  ELSE IF record.prefix = "-" THEN [s EXCEPT !.cursor = @ + 1]
  ELSE [s EXCEPT !.cursor = @ + 1, !.result = Append(@, record.line)]

ApplyRecords(s, records) ==
  LET after[i \in 0..Len(records)] ==
        IF i = 0 THEN s
        ELSE IF after[i - 1].error THEN after[i - 1] ELSE ApplyRecord(after[i - 1], records[i])
  IN after[Len(records)]

TargetLate(hunk) == hunk.start  \* mutant: the line number is taken for an index
TargetIndex(hunk) == hunk.start - 1

\* Python slices end at the end of the source.
ApplyHunk(s, hunk) ==
  LET target == TargetIndex(hunk)
      copied == SubSeq(s.source, s.cursor + 1, IF target < Len(s.source) THEN target ELSE Len(s.source))
      placed == [s EXCEPT !.result = @ \o copied, !.cursor = target]
  IN IF s.error \/ target < s.cursor \/ StrayMarker(hunk.lines) THEN [s EXCEPT !.error = TRUE]
     ELSE ApplyRecords(placed, Records(hunk.lines))

ApplyHunks(source, hunks) ==
  LET after[i \in 0..Len(hunks)] ==
        IF i = 0 THEN ApplyingTo(source) ELSE ApplyHunk(after[i - 1], hunks[i])
      s == after[Len(hunks)]
  IN [error |-> s.error, lines |-> s.result \o SubSeq(s.source, s.cursor + 1, Len(s.source))]

-----------------------------------------------------------------------------
(* The files of a patch: each is written before the next is looked at. The    *)
(* workspace gives each path "missing", "directory", "outside" or its lines.  *)

Applying(workspace) == [workspace |-> workspace, changed |-> <<>>, error |-> "none"]

KeepGoing(s, error) == s  \* mutant: a file that fails is passed over
FileFails(s, error) == [s EXCEPT !.error = error]

ApplyFile(s, section) ==
  LET file == s.workspace[section.path]
      after == ApplyHunks(file.lines, section.hunks)
  IN IF s.error # "none" THEN s
     ELSE IF file.kind # "text" THEN FileFails(s, file.kind)
     ELSE IF after.error THEN FileFails(s, "conflict")
     ELSE IF after.lines = file.lines THEN s
     ELSE [s EXCEPT !.workspace[section.path].lines = after.lines,
                             !.changed = Append(@, section.path)]

ApplySections(workspace, sections) ==
  LET after[i \in 0..Len(sections)] ==
        IF i = 0 THEN Applying(workspace) ELSE ApplyFile(after[i - 1], sections[i])
  IN after[Len(sections)]

ApplyPatch(workspace, lines) ==
  LET parsed == ParsePatch(lines)
  IN IF parsed.error # "none" THEN [Applying(workspace) EXCEPT !.error = "invalid"]
     ELSE ApplySections(workspace, parsed.files)

-----------------------------------------------------------------------------
(* write_file: a parent that is missing is made if the call says so; what was *)
(* there before is read, to tell "created" from "modified" and to compare.    *)

Lines(file) == IF file.kind = "text" THEN file.lines ELSE <<>>
DiffersFromText(file, content) == Lines(file) # content  \* mutant: a missing file is compared as an empty one
Differs(file, content) == file.kind # "text" \/ file.lines # content

WriteFile(workspace, path, parent, create, content) ==
  IF workspace[path].kind = "outside" THEN [Applying(workspace) EXCEPT !.error = "outside"]
  ELSE IF workspace[path].kind = "directory" THEN [Applying(workspace) EXCEPT !.error = "directory"]
  ELSE IF ~parent /\ ~create THEN [Applying(workspace) EXCEPT !.error = "no parent"]
  ELSE [workspace |-> [workspace EXCEPT ![path] = [kind |-> "text", lines |-> content]],
                 changed |-> IF Differs(workspace[path], content) THEN <<path>> ELSE <<>>, error |-> "none"]

-----------------------------------------------------------------------------
(* list_files: entries in order, each skipped or not, up to max_entries.      *)

TruncatedBeyond(shown, max) == shown > max  \* mutant: > for >=
TruncatedAt(shown, max) == shown >= max

ListFiles(entries, max) ==
  LET keep[i \in 0..Len(entries)] ==
        IF i = 0 THEN <<>>
        ELSE IF entries[i].skipped THEN keep[i - 1] ELSE Append(keep[i - 1], entries[i])
      kept == keep[Len(entries)]
      shown == SubSeq(kept, 1, IF max < Len(kept) THEN max ELSE Len(kept))
  IN [shown |-> shown, truncated |-> TruncatedAt(Len(shown), max)]
=============================================================================
