--------------------------- MODULE HistoryProofs ---------------------------
(***************************************************************************)
(* The history of a session, for any bounds. The log stays loadable and     *)
(* numbered unless an append left half a line in it; it knows what the      *)
(* model was shown; calls and results stay in step in both copies of the    *)
(* conversation; and the copies agree. The replay of the log is a recursive *)
(* function of its length: its equations are proved by taking the least     *)
(* length at which they would fail.                                         *)
(***************************************************************************)
EXTENDS History, FiniteSetTheorems, NaturalsInduction, WellFoundedInduction, TLAPS

Sound(line) == line.type \notin {"torn", "garbage"}

\* A sequence; stated with its own elements, since the properties are about the lines' numbers.
IsLog(lines) == lines \in Seq({lines[i] : i \in 1..Len(lines)})

\* A log that parses, is numbered by place and starts with session_started.
SoundLog(lines) ==
  /\ IsLog(lines)
  /\ \A i \in 1..Len(lines) : Sound(lines[i]) /\ lines[i].seq = i
  /\ lines # <<>> => lines[1].type = "session_started"

\* The log is sound and a running process holds the number of its last line.
Numbering ==
  /\ SoundLog(disk)
  /\ Up => disk # <<>> /\ seq = Len(disk)

\* The inductive invariant: nothing is written before the session is created; while
\* the log is intact, it is sound and numbered as the process counts.
LogInv ==
  /\ IsLog(disk)
  /\ phase = "none" => disk = <<>>
  /\ Intact => Numbering

\* A failed append leaves the file as it was or with half a line.
NoWholeLine == Landings \subseteq {"none", "part"}

\* Appending the next line keeps a log sound.
LEMMA AppendSound ==
  ASSUME NEW lines, SoundLog(lines), NEW type, NEW id, NEW snapshot,
         type \notin {"torn", "garbage"}, lines = <<>> => type = "session_started"
  PROVE  LET longer == Append(lines, Line(type, Len(lines) + 1, id, snapshot)) IN
         SoundLog(longer) /\ longer # <<>> /\ Len(longer) = Len(lines) + 1
<1> DEFINE line == Line(type, Len(lines) + 1, id, snapshot)
           longer == Append(lines, line)
           S == {lines[i] : i \in 1..Len(lines)} \cup {line}
<1>1. lines \in Seq(S) /\ line \in S
  BY DEF SoundLog, IsLog
<1>2. longer \in Seq(S) /\ Len(longer) = Len(lines) + 1
  BY <1>1
<1>3. \A i \in 1..Len(longer) :
        longer[i] = IF i = Len(lines) + 1 THEN line ELSE lines[i]
  BY <1>1
<1>4. longer \in Seq({longer[i] : i \in 1..Len(longer)})
  <2> DEFINE R == {longer[i] : i \in 1..Len(longer)}
  <2>1. \A i \in 1..Len(longer) : longer[i] \in R
    OBVIOUS
  <2> HIDE DEF R, longer
  <2> QED BY <1>2, <2>1
<1>5. line.type = type /\ line.seq = Len(lines) + 1
  BY DEF Line
<1>6. Len(lines) \in Nat
  BY <1>1
<1> HIDE DEF longer, line
<1>7. \A i \in 1..Len(longer) : Sound(longer[i]) /\ longer[i].seq = i
  BY <1>2, <1>3, <1>5, <1>6 DEF SoundLog, Sound
<1>8. longer[1].type = "session_started"
  <2>1. CASE lines = <<>>
    BY <2>1, <1>2, <1>3, <1>5
  <2>2. CASE lines # <<>>
    BY <2>2, <1>1, <1>2, <1>3, <1>6 DEF SoundLog
  <2> QED BY <2>1, <2>2
<1>9. longer # <<>>
  BY <1>2, <1>6
<1> QED
  BY <1>2, <1>4, <1>7, <1>8, <1>9 DEF SoundLog, IsLog, longer, line

\* Any sequence is one.
LEMMA SequenceIsLog ==
  ASSUME NEW S, NEW lines \in Seq(S)
  PROVE  IsLog(lines)
<1>1. lines = [i \in 1..Len(lines) |-> lines[i]] /\ Len(lines) \in Nat
  OBVIOUS
<1>2. [i \in 1..Len(lines) |-> lines[i]] \in Seq({lines[i] : i \in 1..Len(lines)})
  BY <1>1
<1> QED
  BY <1>1, <1>2 DEF IsLog

\* What any append may do to the file: it is a sequence again, and damage stays.
LEMMA Damage ==
  ASSUME IsLog(disk), NEW line, disk' = AppendLine(line)
  PROVE  IsLog(disk') /\ (~Intact => ~Intact') /\ (line = Torn => ~Intact')
<1> DEFINE S == {disk[i] : i \in 1..Len(disk)} \cup {line, Garbage}
           n == Len(disk)
<1>1. disk \in Seq(S) /\ line \in S /\ Garbage \in S /\ n \in Nat
  BY DEF IsLog
<1>2. CASE disk' = Append(disk, line)
  <2>1. disk' \in Seq(S) /\ Len(disk') = n + 1
    BY <1>1, <1>2
  <2>2. \A i \in 1..(n + 1) : disk'[i] = IF i = n + 1 THEN line ELSE disk[i]
    BY <1>1, <1>2
  <2> HIDE DEF S, n
  <2>3. IsLog(disk')
    BY <2>1, SequenceIsLog
  <2>4. ~Intact => ~Intact'
    BY <1>1, <2>1, <2>2 DEF Intact, n
  <2>5. line = Torn => ~Intact'
    BY <1>1, <2>1, <2>2 DEF Intact, n, Torn, Line
  <2> QED BY <2>3, <2>4, <2>5
<1>3. CASE disk # <<>> /\ disk' = [disk EXCEPT ![n] = Garbage]
  <2>1. disk' \in Seq(S) /\ Len(disk') = n /\ n \in 1..n
    BY <1>1, <1>3
  <2>2. disk'[n] = Garbage
    BY <1>1, <1>3, <2>1
  <2> HIDE DEF S, n
  <2>3. IsLog(disk')
    BY <2>1, SequenceIsLog
  <2>4. ~Intact'
    BY <2>1, <2>2 DEF Intact, Garbage, Line
  <2> QED BY <2>3, <2>4
<1> QED
  BY <1>2, <1>3 DEF AppendLine


\* emit touches the file only by an append and goes to one of its two continuations.
LEMMA EmitFile ==
  ASSUME NEW n, NEW type, NEW id, NEW snapshot, NEW ok, NEW ko,
         EmitAs(n, type, id, snapshot, ok, ko)
  PROVE  /\ disk' = disk \/ \E line : disk' = AppendLine(line)
         /\ phase' = ok \/ phase' = ko
  BY DEF EmitAs, Landed

\* So does every step; and no step goes back before the creation of the session.
LEMMA FileStep ==
  ASSUME [Next]_vars
  PROVE  /\ disk' = disk \/ \E line : disk' = AppendLine(line)
         /\ phase' = "none" => UNCHANGED vars
<1> USE DEF Up, Emit
<1>1. CASE CreateThread
  BY <1>1, EmitFile DEF CreateThread
<1>2. CASE ResumeThread
  BY <1>2, EmitFile DEF ResumeThread
<1>3. CASE Crash
  BY <1>3 DEF Crash, Stop
<1>4. CASE CloseThread
  BY <1>4 DEF CloseThread, Stop
<1>5. CASE StartTurn
  BY <1>5, EmitFile DEF StartTurn
<1>6. CASE EmitUserMessage
  BY <1>6, EmitFile DEF EmitUserMessage
<1>7. CASE PrepareModelMessages
  BY <1>7, EmitFile DEF PrepareModelMessages
<1>8. CASE ModelText
  BY <1>8, EmitFile DEF ModelText
<1>9. CASE ModelToolCalls
  BY <1>9 DEF ModelToolCalls
<1>10. CASE ModelFails
  BY <1>10, EmitFile DEF ModelFails
<1>11. CASE RecordToolCall
  BY <1>11, EmitFile DEF RecordToolCall
<1>12. CASE FinishCall
  BY <1>12, EmitFile DEF FinishCall
<1>13. CASE BatchDone
  BY <1>13 DEF BatchDone
<1>14. CASE OrphanFinishes
  BY <1>14, EmitFile DEF OrphanFinishes
<1>15. CASE CancelTurn
  BY <1>15 DEF CancelTurn
<1>16. CASE FinishTurn
  BY <1>16, EmitFile DEF FinishTurn
<1>17. CASE AbortTurn
  BY <1>17, EmitFile DEF AbortTurn
<1>18. CASE AbortFromException
  BY <1>18, EmitFile DEF AbortFromException
<1>19. CASE UNCHANGED vars
  BY <1>19 DEF vars
<1> QED
  BY <1>1, <1>2, <1>3, <1>4, <1>5, <1>6, <1>7, <1>8, <1>9, <1>10, <1>11, <1>12, <1>13, <1>14,
     <1>15, <1>16, <1>17, <1>18, <1>19 DEF Next

\* emit with the next number, which leaves no damage: the line is the log's last and the session
\* goes to ok, or nothing is written, the number is the old one and the exception goes to ko.
LEMMA EmitSound ==
  ASSUME NoWholeLine, IsLog(disk), SoundLog(disk), Intact', NEW n, n = Len(disk) + 1,
         NEW type, NEW id, NEW snapshot, NEW ok, NEW ko,
         type \notin {"torn", "garbage"}, disk = <<>> => type = "session_started",
         EmitAs(n, type, id, snapshot, ok, ko)
  PROVE  /\ SoundLog(disk')
         /\ \/ phase' = ok /\ disk' # <<>> /\ seq' = Len(disk')
            \/ phase' = ko /\ disk' = disk /\ seq' = Len(disk)
<1> DEFINE line == Line(type, n, id, snapshot)
<1>1. disk = <<>> \/ Last(disk).type # "torn"
  BY DEF SoundLog, Sound, Last
<1>2. AppendLine(line) = Append(disk, line)
  BY <1>1 DEF AppendLine
<1>3. SoundLog(Append(disk, line)) /\ Append(disk, line) # <<>> /\ Len(Append(disk, line)) = n
  BY AppendSound
<1>4. \A new \in Landed(line) : new = disk \/ new = AppendLine(Torn)
  BY DEF Landed, NoWholeLine
<1>9. disk' # AppendLine(Torn)
  BY Damage
<1>5. Len(disk) \in Nat
  BY DEF IsLog
<1> HIDE DEF line
<1>6. \/ disk' = AppendLine(line) /\ seq' = n /\ phase' = ok
      \/ disk' \in Landed(line) /\ seq' = n - 1 /\ phase' = ko
  BY DEF EmitAs, line
<1>7. CASE disk' = AppendLine(line) /\ seq' = n /\ phase' = ok
  <2>1. disk' = Append(disk, line)
    BY <1>7, <1>2
  <2> QED BY <2>1, <1>7, <1>3
<1>8. CASE disk' \in Landed(line) /\ seq' = n - 1 /\ phase' = ko
  <2>1. disk' = disk /\ seq' = Len(disk)
    BY <1>8, <1>4, <1>5, <1>9
  <2> QED BY <2>1, <1>8
<1> QED
  BY <1>6, <1>7, <1>8

\* The same for an event of a running session.
LEMMA EmitStep ==
  ASSUME NoWholeLine, LogInv, Intact, Intact', Up, NEW type, NEW id, NEW ok, NEW ko,
         type \notin {"torn", "garbage"}, ok \notin {"none", "down"}, ko \notin {"none", "down"},
         Emit(type, id, ok, ko)
  PROVE  Numbering'
<1>1. seq = Len(disk) /\ disk # <<>> /\ SoundLog(disk) /\ IsLog(disk)
  BY DEF LogInv, Numbering
<1>2. EmitAs(seq + 1, type, id, <<>>, ok, ko)
  BY DEF Emit
<1>3. /\ SoundLog(disk')
      /\ \/ phase' = ok /\ disk' # <<>> /\ seq' = Len(disk')
         \/ phase' = ko /\ disk' = disk /\ seq' = Len(disk)
  BY <1>1, <1>2, EmitSound
<1> QED
  BY <1>1, <1>3 DEF Numbering, Up

\* A step that writes nothing and neither starts nor ends a process.
LEMMA SilentStep ==
  ASSUME LogInv, Intact, Up, phase' \notin {"none", "down"}, UNCHANGED <<disk, seq>>
  PROVE  Numbering'
  BY DEF LogInv, Numbering, Up, SoundLog, IsLog, Sound

\* The inductive step while the log is intact, one case per action.
LEMMA NumberingStep ==
  ASSUME NoWholeLine, LogInv, Intact, Intact', [Next]_vars
  PROVE  Numbering'
<1> USE DEF Up
<1>0. IsLog(disk) /\ SoundLog(disk)
  BY DEF LogInv, Numbering
<1>1. CASE CreateThread
  <2>1. disk = <<>> /\ 1 = Len(disk) + 1
    BY <1>1 DEF CreateThread, LogInv
  <2>2. /\ SoundLog(disk')
        /\ \/ phase' = "idle" /\ disk' # <<>> /\ seq' = Len(disk')
           \/ phase' = "down" /\ disk' = disk /\ seq' = Len(disk)
    BY <1>0, <1>1, <2>1, EmitSound DEF CreateThread
  <2> QED BY <2>2 DEF Numbering
<1>2. CASE ResumeThread
  <2>1. disk # <<>> /\ LastSeq(disk) + 1 = Len(disk) + 1
    BY <1>0, <1>2 DEF ResumeThread, Loads, LastSeq, Last, SoundLog, IsLog
  <2>2. /\ SoundLog(disk')
        /\ \/ phase' = "idle" /\ disk' # <<>> /\ seq' = Len(disk')
           \/ phase' = "down" /\ disk' = disk /\ seq' = Len(disk)
    BY <1>0, <1>2, <2>1, EmitSound DEF ResumeThread
  <2> QED BY <2>1, <2>2 DEF Numbering
<1>3. CASE Crash
  <2>1. disk' = disk /\ phase' = "down"
    BY <1>0, <1>3, Damage DEF Crash, Stop
  <2> QED BY <1>0, <2>1 DEF Numbering, SoundLog, IsLog, Sound
<1>4. CASE CloseThread
  <2>1. disk # <<>> /\ seq = Len(disk) /\ phase' = "down"
    BY <1>4 DEF CloseThread, LogInv, Numbering, Stop
  <2>2. Last(disk).type # "torn"
    BY <1>0, <2>1 DEF SoundLog, IsLog, Sound, Last
  <2>3. disk' = Append(disk, Line("session_closed", Len(disk) + 1, 0, <<>>))
    BY <1>4, <2>1, <2>2 DEF CloseThread, AppendLine
  <2>4. SoundLog(disk')
    BY <1>0, <2>1, <2>3, AppendSound
  <2> QED BY <2>1, <2>4 DEF Numbering
<1>5. CASE StartTurn
  BY <1>5, EmitStep DEF StartTurn
<1>6. CASE EmitUserMessage
  BY <1>6, EmitStep DEF EmitUserMessage
<1>7. CASE PrepareModelMessages
  <2>1. CASE EmitAs(seq + 1, "compacted", 0, Compact(conv), "request", "raise")
    <3>1. seq = Len(disk) /\ disk # <<>>
      BY <1>7 DEF PrepareModelMessages, LogInv, Numbering
    <3>2. /\ SoundLog(disk')
          /\ \/ phase' = "request" /\ disk' # <<>> /\ seq' = Len(disk')
             \/ phase' = "raise" /\ disk' = disk /\ seq' = Len(disk)
      BY <1>0, <2>1, <3>1, EmitSound
    <3> QED BY <3>1, <3>2 DEF Numbering
  <2>2. CASE UNCHANGED <<disk, seq>> /\ phase' \in {"request", "abort"}
    BY <1>7, <2>2, SilentStep DEF PrepareModelMessages
  <2> QED BY <1>7, <2>1, <2>2 DEF PrepareModelMessages
<1>8. CASE ModelText
  BY <1>8, EmitStep DEF ModelText
<1>9. CASE ModelToolCalls
  BY <1>9, SilentStep DEF ModelToolCalls
<1>10. CASE ModelFails
  <2>1. CASE Emit("error", 0, "abort", "raise")
    BY <1>10, <2>1, EmitStep DEF ModelFails
  <2>2. CASE phase' \in {"raise", "abort"} /\ UNCHANGED <<disk, seq>>
    BY <1>10, <2>2, SilentStep DEF ModelFails
  <2> QED BY <1>10, <2>1, <2>2 DEF ModelFails
<1>11. CASE RecordToolCall
  BY <1>11, EmitStep DEF RecordToolCall
<1>12. CASE FinishCall
  BY <1>12, EmitStep DEF FinishCall
<1>13. CASE BatchDone
  BY <1>13, SilentStep DEF BatchDone
<1>14. CASE OrphanFinishes
  BY <1>14, EmitStep DEF OrphanFinishes
<1>15. CASE CancelTurn
  BY <1>15, SilentStep DEF CancelTurn
<1>16. CASE FinishTurn
  BY <1>16, EmitStep DEF FinishTurn
<1>17. CASE AbortTurn
  BY <1>17, EmitStep DEF AbortTurn
<1>18. CASE AbortFromException
  BY <1>18, EmitStep DEF AbortFromException
<1>19. CASE UNCHANGED vars
  BY <1>19 DEF vars, LogInv, Numbering, SoundLog, IsLog, Sound
<1> QED
  BY <1>1, <1>2, <1>3, <1>4, <1>5, <1>6, <1>7, <1>8, <1>9, <1>10, <1>11, <1>12, <1>13, <1>14,
     <1>15, <1>16, <1>17, <1>18, <1>19 DEF Next

LEMMA LogInvStep == ASSUME NoWholeLine, LogInv, [Next]_vars PROVE LogInv'
<1>1. IsLog(disk') /\ (~Intact => ~Intact') /\ (phase' = "none" => disk' = <<>>)
  <2>1. IsLog(disk) /\ (phase' = "none" => disk' = <<>>)
    BY FileStep DEF LogInv, vars
  <2>2. CASE disk' = disk
    BY <2>1, <2>2 DEF Intact
  <2>3. CASE \E line : disk' = AppendLine(line)
    BY <2>1, <2>3, Damage
  <2> QED BY <2>1, <2>2, <2>3, FileStep
<1>2. Intact' => Numbering'
  BY <1>1, NumberingStep
<1> QED
  BY <1>1, <1>2 DEF LogInv, IsLog

LEMMA LogInvHolds == ASSUME NoWholeLine PROVE Spec => []LogInv
<1>1. Init => LogInv
  BY DEF Init, LogInv, Numbering, Up, SoundLog, IsLog
<1>2. LogInv /\ [Next]_vars => LogInv'
  BY LogInvStep
<1> QED
  BY <1>1, <1>2, PTL DEF Spec

\* SessionStore.resume accepts the log of every session that was created, after any crash, any
\* cancellation and any number of failed appends, as long as none left half a line.
THEOREM AlwaysResumable == ASSUME NoWholeLine PROVE Spec => []Resumable
<1>1. LogInv => Resumable
  BY DEF LogInv, Numbering, SoundLog, IsLog, Sound, Resumable, Loads
<1> QED
  BY <1>1, LogInvHolds, PTL

\* Session.seq of a running process is the number of the last line: an append never reuses a
\* number and never leaves a gap, in one process or across a resume.
THEOREM SeqIsLog == ASSUME NoWholeLine PROVE Spec => []SeqFollowsLog
<1>1. LogInv => SeqFollowsLog
  BY DEF LogInv, Numbering, SeqFollowsLog
<1> QED
  BY <1>1, LogInvHolds, PTL

-----------------------------------------------------------------------------
(* The rebuilt conversation, line by line *)

\* A set of numbers that is not empty has a least one.
LEMMA Least ==
  ASSUME NEW S, S \subseteq Nat, S # {}
  PROVE  \E x \in S : \A y \in S : x <= y
<1>1. PICK x \in S : \A y \in S : ~(<<y, x>> \in OpToRel(<, Nat))
  BY NatLessThanWellFounded, WFMin
<1>2. \A y \in S : ~(y < x)
  BY <1>1 DEF OpToRel
<1> QED
  BY <1>2

\* The conversations after each of the first n lines.
Replays(lines, n, items) ==
  items = [i \in 0..n |-> IF i = 0 THEN <<>> ELSE Apply(items[i - 1], lines[i])]

LEMMA ReplayExists ==
  ASSUME NEW lines, NEW n \in Nat
  PROVE  \E items : Replays(lines, n, items)
<1> DEFINE Bad == {m \in Nat : ~\E items : Replays(lines, m, items)}
<1>1. SUFFICES ASSUME Bad # {} PROVE FALSE
  OBVIOUS
<1>2. PICK m \in Bad : \A k \in Bad : m <= k
  BY <1>1, Least
<1>3. CASE m = 0
  <2>1. Replays(lines, 0, [i \in 0..0 |-> <<>>])
    BY DEF Replays
  <2> QED BY <1>3, <2>1
<1>4. CASE m # 0
  <2>1. m - 1 \in Nat /\ m - 1 \notin Bad
    BY <1>2, <1>4
  <2>2. PICK old : Replays(lines, m - 1, old)
    BY <2>1
  <2>3. PICK new : new = [i \in 0..m |-> IF i = m THEN Apply(old[m - 1], lines[m]) ELSE old[i]]
    OBVIOUS
  <2>4. \A i \in 0..(m - 1) : new[i] = old[i]
    BY <2>1, <2>3
  <2>5. \A i \in 0..(m - 1) : old[i] = IF i = 0 THEN <<>> ELSE Apply(old[i - 1], lines[i])
    BY <2>2 DEF Replays
  <2>6. \A i \in 0..m : new[i] = IF i = 0 THEN <<>> ELSE Apply(new[i - 1], lines[i])
    <3>1. TAKE i \in 0..m
    <3>2. CASE i = m
      BY <3>2, <2>1, <2>3, <2>4
    <3>3. CASE i # m
      <4>1. i \in 0..(m - 1) /\ (i # 0 => i - 1 \in 0..(m - 1))
        BY <3>3, <2>1
      <4> QED BY <4>1, <2>4, <2>5
    <3> QED BY <3>2, <3>3
  <2>7. Replays(lines, m, new)
    BY <2>3, <2>6 DEF Replays
  <2> QED BY <2>7
<1> QED
  BY <1>3, <1>4

\* Logs that agree in their first n lines have the same conversations there.
LEMMA ReplayUnique ==
  ASSUME NEW one, NEW two, NEW m \in Nat, NEW n \in Nat, n <= m,
         \A i \in 1..n : one[i] = two[i],
         NEW f, Replays(one, n, f), NEW g, Replays(two, m, g)
  PROVE  \A i \in 0..n : f[i] = g[i]
<1> DEFINE Bad == {i \in 0..n : f[i] # g[i]}
<1>1. SUFFICES ASSUME Bad # {} PROVE FALSE
  OBVIOUS
<1>2. PICK i \in Bad : \A k \in Bad : i <= k
  <2>1. Bad \subseteq Nat
    OBVIOUS
  <2> HIDE DEF Bad
  <2> QED BY <1>1, <2>1, Least
<1>3. /\ f[i] = IF i = 0 THEN <<>> ELSE Apply(f[i - 1], one[i])
      /\ g[i] = IF i = 0 THEN <<>> ELSE Apply(g[i - 1], two[i])
  BY <1>2 DEF Replays
<1>4. CASE i = 0
  BY <1>2, <1>3, <1>4
<1>5. CASE i # 0
  <2>1. i - 1 \in 0..n /\ i \in 1..n /\ i - 1 \notin Bad
    BY <1>2, <1>5
  <2>2. f[i - 1] = g[i - 1] /\ one[i] = two[i]
    BY <2>1
  <2> QED BY <1>2, <1>3, <1>5, <2>2
<1> QED
  BY <1>4, <1>5

LEMMA Replayed ==
  ASSUME NEW lines, Len(lines) \in Nat
  PROVE  \E items : Replays(lines, Len(lines), items) /\ Reconstruct(lines) = items[Len(lines)]
<1>1. \E items : Replays(lines, Len(lines), items)
  BY ReplayExists
<1> QED
  BY <1>1 DEF Replays, Reconstruct

\* reconstruct_conversation goes through the events in their order.
LEMMA ReplayLine ==
  ASSUME NEW lines, IsLog(lines), NEW line
  PROVE  Reconstruct(Append(lines, line)) = Apply(Reconstruct(lines), line)
<1> DEFINE n == Len(lines)
           S == {lines[i] : i \in 1..Len(lines)} \cup {line}
<1>1. lines \in Seq(S) /\ line \in S /\ n \in Nat
  BY DEF IsLog
<1>2. PICK longer : longer = Append(lines, line)
  OBVIOUS
<1>3. Len(longer) = n + 1 /\ longer[n + 1] = line /\ \A i \in 1..n : lines[i] = longer[i]
  BY <1>1, <1>2
<1>4. PICK f : Replays(lines, n, f) /\ Reconstruct(lines) = f[n]
  BY <1>1, Replayed
<1>5. PICK g : Replays(longer, n + 1, g) /\ Reconstruct(longer) = g[n + 1]
  BY <1>1, <1>3, Replayed
<1> HIDE DEF n
<1>6. f[n] = g[n]
  <2>1. n + 1 \in Nat /\ n <= n + 1 /\ n \in 0..n
    BY <1>1
  <2> QED BY <1>1, <1>3, <1>4, <1>5, <2>1, ReplayUnique
<1>7. g[n + 1] = Apply(g[n], longer[n + 1])
  <2>1. n + 1 \in 0..(n + 1) /\ n + 1 # 0 /\ (n + 1) - 1 = n
    BY <1>1
  <2> QED BY <1>5, <2>1 DEF Replays
<1> QED
  BY <1>2, <1>3, <1>4, <1>5, <1>6, <1>7

LEMMA ReplayNothing == Reconstruct(<<>>) = <<>>
<1>1. Len(<<>>) = 0
  OBVIOUS
<1>2. PICK f : Replays(<<>>, 0, f) /\ Reconstruct(<<>>) = f[0]
  BY <1>1, Replayed
<1> QED
  BY <1>2 DEF Replays

-----------------------------------------------------------------------------
(* Types *)

Lines == [type : EventTypes \cup {"torn", "garbage"}, seq : Nat, id : Nat, snapshot : Seq(Items)]

HasUser(c) == \E i \in 1..Len(c) : c[i].role = "user"

InTurn == phase \in {"prepare", "request", "called", "record", "batch"}

FileType == disk \in Seq(Lines) /\ seq \in Nat /\ phase \in Phases

ConvType == conv \in Seq(Items) /\ (InTurn => HasUser(conv))

BatchType ==
  /\ batch \in Seq(1..MaxCalls) /\ Len(batch) <= MaxBatch /\ parallel \in BOOLEAN
  /\ recorded \in 0..Len(batch) /\ (phase = "record" => recorded < Len(batch) /\ answered = <<>>)
  /\ answered \in Seq(ToSet(batch)) /\ orphans \subseteq 1..MaxCalls

CountType ==
  /\ turns \in 0..MaxTurns /\ used \in 0..MaxCalls
  /\ restarts \in 0..MaxRestarts /\ faults \in 0..MaxFaults

\* The inductive invariant: the types, with sequences for what TypeOK says of their elements; a
\* turn that has its message has it in the conversation, so a compaction finds a place to cut.
TypeInv == FileType /\ ConvType /\ BatchType /\ CountType

LEMMA Elements ==
  ASSUME NEW S, NEW s \in Seq(S)
  PROVE  /\ ToSet(s) \subseteq S /\ Len(s) \in Nat
         /\ \A x : x \in ToSet(s) <=> \E i \in 1..Len(s) : s[i] = x
  BY DEF ToSet

\* Numbers below a bound have a greatest one.
LEMMA Greatest ==
  ASSUME NEW n \in Nat, NEW S, S \subseteq 0..n, S # {}
  PROVE  \E x \in S : \A y \in S : x >= y
<1> DEFINE T == {n - x : x \in S}
<1>1. T \subseteq Nat /\ T # {}
  <2>1. \A x \in S : n - x \in Nat
    OBVIOUS
  <2>2. \A t \in T : \E x \in S : t = n - x
    OBVIOUS
  <2>3. \A x \in S : n - x \in T
    OBVIOUS
  <2> HIDE DEF T
  <2> QED BY <2>1, <2>2, <2>3
<1> HIDE DEF T
<1>2. PICK t \in T : \A u \in T : t <= u
  BY <1>1, Least
<1>3. PICK x \in S : t = n - x
  BY <1>2 DEF T
<1>4. \A y \in S : n - y \in T
  BY DEF T
<1>5. \A y \in S : x >= y
  <2>1. TAKE y \in S
  <2>2. n - x <= n - y
    BY <1>2, <1>3, <1>4
  <2>3. x \in Int /\ y \in Int
    OBVIOUS
  <2> QED BY <2>2, <2>3
<1> QED
  BY <1>5

\* The last message of the user.
LEMMA LastUserIs ==
  ASSUME NEW c, Len(c) \in Nat
  PROVE  /\ HasUser(c) => /\ LastUser(c) \in 1..Len(c) /\ c[LastUser(c)].role = "user"
                          /\ \A i \in 1..Len(c) : c[i].role = "user" => i <= LastUser(c)
         /\ ~HasUser(c) => LastUser(c) = 0
<1> DEFINE I == {i \in 1..Len(c) : c[i].role = "user"}
<1>1. LastUser(c) = IF I # {} THEN Max(I) ELSE 0
  BY DEF LastUser, SelectLastInSeq
<1>2. I # {} <=> HasUser(c)
  BY DEF HasUser
<1>3. CASE I # {}
  <2>1. I \subseteq 0..Len(c)
    OBVIOUS
  <2> HIDE DEF I
  <2>2. \E x \in I : \A y \in I : x >= y
    BY <1>3, <2>1, Greatest
  <2>3. Max(I) \in I /\ \A y \in I : Max(I) >= y
    BY <2>2 DEF Max
  <2>4. LastUser(c) \in I /\ \A y \in I : LastUser(c) >= y
    BY <1>1, <1>3, <2>3
  <2>5. LastUser(c) \in 1..Len(c) /\ c[LastUser(c)].role = "user"
    BY <2>4 DEF I
  <2>6. ASSUME NEW i \in 1..Len(c), c[i].role = "user" PROVE i <= LastUser(c)
    <3>1. i \in I
      BY <2>6 DEF I
    <3> QED BY <2>4, <2>5, <3>1
  <2> QED BY <1>2, <1>3, <2>5, <2>6
<1>4. CASE I = {}
  BY <1>1, <1>2, <1>4
<1> QED
  BY <1>3, <1>4

\* It is the same one in any conversation that goes on with other items.
LEMMA SameLastUser ==
  ASSUME NEW c, Len(c) \in Nat, NEW u \in 1..Len(c), c[u].role = "user",
         \A i \in 1..Len(c) : c[i].role = "user" => i <= u
  PROVE  HasUser(c) /\ LastUser(c) = u
<1>1. HasUser(c)
  BY DEF HasUser
<1>2. LastUser(c) \in 1..Len(c) /\ u <= LastUser(c) /\ LastUser(c) <= u
  BY <1>1, LastUserIs
<1> QED
  BY <1>1, <1>2

\* A compaction cuts before a user message, at most before the last one.
LEMMA CutsAtUser ==
  ASSUME NEW c, Len(c) \in Nat, HasUser(c)
  PROVE  CompactionStart(c) \in 1..LastUser(c) /\ c[CompactionStart(c)].role = "user"
<1> DEFINE latest == LastUser(c)
           wanted == Max({1, (Len(c) - KeepRecent) + 1})
           target == Min({latest, wanted})
           Cuts == {k \in target..latest : c[k].role = "user"}
<1>1. latest \in 1..Len(c) /\ c[latest].role = "user"
  BY LastUserIs
<1>2. KeepRecent \in Nat
  BY HistoryAssumption
<1>3. wanted \in Int /\ wanted >= 1
  <2>1. (Len(c) - KeepRecent) + 1 \in Int
    BY <1>2
  <2>2. \E x \in {1, (Len(c) - KeepRecent) + 1} : \A y \in {1, (Len(c) - KeepRecent) + 1} : x >= y
    BY <2>1
  <2> QED BY <2>1, <2>2 DEF Max
<1> HIDE DEF wanted, latest
<1>4. target \in Int /\ target >= 1 /\ target <= latest
  <2>1. \E x \in {latest, wanted} : \A y \in {latest, wanted} : x <= y
    BY <1>1, <1>3
  <2>2. Min({latest, wanted}) \in {latest, wanted}
    BY <2>1 DEF Min
  <2>3. \A y \in {latest, wanted} : Min({latest, wanted}) <= y
    BY <2>1 DEF Min
  <2>4. target \in {latest, wanted} /\ target <= latest
    BY <2>2, <2>3
  <2> HIDE DEF target
  <2> QED BY <1>1, <1>3, <2>4
<1> HIDE DEF target
<1>5. Cuts \subseteq Nat /\ latest \in Cuts
  BY <1>1, <1>4
<1>6. CompactionStart(c) = Min(Cuts)
  BY DEF CompactionStart, target, latest, wanted
<1>7. Min(Cuts) \in Cuts
  <2> HIDE DEF Cuts
  <2>1. \E x \in Cuts : \A y \in Cuts : x <= y
    BY <1>5, Least
  <2> QED BY <2>1 DEF Min
<1>8. Min(Cuts) \in target..latest /\ c[Min(Cuts)].role = "user"
  BY <1>7
<1> QED
  BY <1>1, <1>4, <1>6, <1>8 DEF latest

\* What it keeps: a summary and the conversation from the cut on.
LEMMA CompactIs ==
  ASSUME NEW c \in Seq(Items), HasUser(c), Len(disk) \in Nat
  PROVE  \E s \in 1..LastUser(c) :
           /\ s = CompactionStart(c) /\ c[s].role = "user"
           /\ Compact(c) \in Seq(Items) /\ Len(Compact(c)) = (Len(c) - s) + 2
           /\ Compact(c)[1] = Item("summary", Len(disk) + 1)
           /\ \A i \in 2..((Len(c) - s) + 2) : Compact(c)[i] = c[(i + s) - 2]
<1>1. PICK s : s = CompactionStart(c)
  OBVIOUS
<1>2. s \in 1..LastUser(c) /\ c[s].role = "user" /\ LastUser(c) \in 1..Len(c)
  BY <1>1, CutsAtUser, LastUserIs
<1>3. s \in 1..Len(c)
  BY <1>2
<1>4. PICK head : head = Item("summary", Len(disk) + 1)
  OBVIOUS
<1>5. head \in Items
  BY <1>4 DEF Item, Items, Roles
<1>6. PICK tail : tail = SubSeq(c, s, Len(c))
  OBVIOUS
<1>7. /\ tail \in Seq(Items) /\ Len(tail) = (Len(c) - s) + 1
      /\ \A i \in 1..((Len(c) - s) + 1) : tail[i] = c[(i + s) - 1]
  BY <1>3, <1>6
<1>8. Compact(c) = <<head>> \o tail
  BY <1>1, <1>4, <1>6 DEF Compact
<1>9. PICK n \in Nat : n = Len(tail)
  BY <1>7
<1>10. <<head>> \o tail \in Seq(Items) /\ Len(<<head>> \o tail) = n + 1
  BY <1>5, <1>7, <1>9
<1>11. /\ (<<head>> \o tail)[1] = head
       /\ \A i \in 2..(n + 1) : (<<head>> \o tail)[i] = tail[i - 1]
  BY <1>5, <1>7, <1>9
<1>12. ASSUME NEW i \in 2..((Len(c) - s) + 2) PROVE Compact(c)[i] = c[(i + s) - 2]
  <2>1. i - 1 \in 1..((Len(c) - s) + 1) /\ ((i - 1) + s) - 1 = (i + s) - 2
    BY <1>3
  <2>2. i \in 2..(n + 1)
    BY <1>3, <1>7, <1>9
  <2> QED BY <1>7, <1>8, <1>11, <2>1, <2>2
<1>13. Len(Compact(c)) = (Len(c) - s) + 2
  BY <1>3, <1>7, <1>8, <1>9, <1>10
<1> QED
  BY <1>1, <1>2, <1>4, <1>8, <1>10, <1>11, <1>12, <1>13

LEMMA UserStays ==
  ASSUME NEW c \in Seq(Items), HasUser(c), NEW more \in Seq(Items)
  PROVE  HasUser(c \o more)
<1>1. PICK i \in 1..Len(c) : c[i].role = "user"
  BY DEF HasUser
<1>2. i \in 1..Len(c \o more) /\ (c \o more)[i] = c[i]
  BY <1>1
<1> QED
  BY <1>1, <1>2 DEF HasUser

LEMMA CallsType ==
  ASSUME NEW role \in Roles, NEW ids \in Seq(Nat)
  PROVE  /\ Calls(role, ids) \in Seq(Items) /\ Len(Calls(role, ids)) = Len(ids)
         /\ \A k \in 1..Len(ids) : Calls(role, ids)[k] = Item(role, ids[k])
<1>1. \A k \in 1..Len(ids) : Item(role, ids[k]) \in Items
  BY DEF Item, Items
<1>2. PICK n \in Nat : n = Len(ids)
  OBVIOUS
<1>3. \A k \in 1..n : Item(role, ids[k]) \in Items
  BY <1>1, <1>2
<1>4. [k \in 1..n |-> Item(role, ids[k])] \in Seq(Items)
  BY <1>3
<1>5. Calls(role, ids) = [k \in 1..n |-> Item(role, ids[k])]
  BY <1>2 DEF Calls
<1> QED
  BY <1>2, <1>4, <1>5

LEMMA AppendLineType ==
  ASSUME disk \in Seq(Lines), NEW line \in Lines
  PROVE  AppendLine(line) \in Seq(Lines)
<1>1. Garbage \in Lines
  BY DEF Garbage, Line, Lines
<1>2. CASE disk # <<>> /\ Last(disk).type = "torn"
  <2>1. [disk EXCEPT ![Len(disk)] = Garbage] \in Seq(Lines)
    BY <1>1, <1>2
  <2> QED BY <1>2, <2>1 DEF AppendLine
<1>3. CASE ~(disk # <<>> /\ Last(disk).type = "torn")
  BY <1>3 DEF AppendLine
<1> QED
  BY <1>2, <1>3

LEMMA LineType ==
  ASSUME NEW type \in EventTypes, NEW n \in Nat, NEW id \in Nat, NEW snapshot \in Seq(Items)
  PROVE  Line(type, n, id, snapshot) \in Lines
  BY DEF Line, Lines

LEMMA TornType == Torn \in Lines
  BY DEF Torn, Line, Lines

\* emit writes a line of its type and counts on, or counts back and takes its exception.
LEMMA EmitTypes ==
  ASSUME FileType, CountType, NEW n \in Nat, n # 0, NEW type \in EventTypes, NEW id \in Nat,
         NEW snapshot \in Seq(Items), NEW ok \in Phases, NEW ko \in Phases,
         EmitAs(n, type, id, snapshot, ok, ko)
  PROVE  /\ FileType' /\ faults' \in 0..MaxFaults
         /\ \/ phase' = ok /\ faults' = faults
            \/ phase' = ko /\ faults' = faults + 1
<1>1. PICK line \in Lines : line = Line(type, n, id, snapshot)
  BY LineType
<1>2. disk \in Seq(Lines) /\ faults \in 0..MaxFaults /\ MaxFaults \in Nat
  BY HistoryAssumption DEF FileType, CountType
<1>3. AppendLine(line) \in Seq(Lines) /\ AppendLine(Torn) \in Seq(Lines)
  BY <1>2, TornType, AppendLineType
<1>4. \A new \in Landed(line) : new \in Seq(Lines)
  BY <1>2, <1>3 DEF Landed
<1>5. CASE disk' = AppendLine(line) /\ seq' = n /\ phase' = ok /\ faults' = faults
  BY <1>2, <1>3, <1>5 DEF FileType
<1>6. CASE /\ faults < MaxFaults /\ faults' = faults + 1 /\ disk' \in Landed(line)
           /\ seq' = n - 1 /\ phase' = ko
  BY <1>2, <1>4, <1>6 DEF FileType
<1> QED
  BY <1>1, <1>5, <1>6 DEF EmitAs

LEMMA EmitNextTypes ==
  ASSUME FileType, CountType, NEW type \in EventTypes, NEW id \in Nat,
         NEW ok \in Phases, NEW ko \in Phases, Emit(type, id, ok, ko)
  PROVE  /\ FileType' /\ faults' \in 0..MaxFaults
         /\ \/ phase' = ok /\ faults' = faults
            \/ phase' = ko /\ faults' = faults + 1
<1>1. seq + 1 \in Nat /\ seq + 1 # 0 /\ <<>> \in Seq(Items)
  BY DEF FileType
<1> QED
  BY <1>1, EmitTypes DEF Emit

\* An item at the end of the conversation.
LEMMA ConvGrows ==
  ASSUME conv \in Seq(Items), NEW item \in Items, conv' = Append(conv, item)
  PROVE  conv' \in Seq(Items) /\ (HasUser(conv) \/ item.role = "user" => HasUser(conv'))
<1>1. /\ conv' \in Seq(Items) /\ Len(conv') = Len(conv) + 1 /\ conv'[Len(conv) + 1] = item
      /\ \A i \in 1..Len(conv) : conv'[i] = conv[i]
  OBVIOUS
<1>2. Len(conv) \in Nat
  OBVIOUS
<1>3. HasUser(conv) => HasUser(conv')
  BY <1>1, <1>2 DEF HasUser
<1>4. item.role = "user" => HasUser(conv')
  BY <1>1, <1>2 DEF HasUser
<1> QED
  BY <1>1, <1>3, <1>4

\* The rebuilt conversation is one.
LEMMA ReplayType ==
  ASSUME NEW lines \in Seq(Lines)
  PROVE  Reconstruct(lines) \in Seq(Items)
<1>1. PICK n \in Nat : n = Len(lines)
  OBVIOUS
<1>2. PICK f : Replays(lines, n, f) /\ Reconstruct(lines) = f[n]
  BY <1>1, Replayed
<1> DEFINE Bad == {i \in 0..n : f[i] \notin Seq(Items)}
<1>3. Bad = {}
  <2>1. SUFFICES ASSUME Bad # {} PROVE FALSE
    OBVIOUS
  <2>2. Bad \subseteq Nat
    OBVIOUS
  <2>3. PICK i \in Bad : \A k \in Bad : i <= k
    <3> HIDE DEF Bad
    <3> QED BY <2>1, <2>2, Least
  <2>4. f[i] = IF i = 0 THEN <<>> ELSE Apply(f[i - 1], lines[i])
    BY <2>3, <1>2 DEF Replays
  <2>5. CASE i = 0
    <3>1. f[i] = <<>> /\ <<>> \in Seq(Items)
      BY <2>4, <2>5
    <3> QED BY <2>3, <3>1
  <2>6. CASE i # 0
    <3>1. i - 1 \in 0..n /\ i \in 1..n /\ i - 1 \notin Bad
      BY <2>3, <2>6
    <3>2. PICK before \in Seq(Items) : before = f[i - 1]
      BY <3>1
    <3>3. PICK line \in Lines : line = lines[i]
      BY <1>1, <3>1
    <3>4. line.id \in Nat /\ line.snapshot \in Seq(Items)
      BY DEF Lines
    <3>5. Apply(before, line) \in Seq(Items)
      <4>1. CASE line.type \in Roles
        <5>1. Item(line.type, line.id) \in Items
          BY <3>4, <4>1 DEF Item, Items
        <5> QED BY <4>1, <5>1 DEF Apply
      <4>2. CASE line.type \notin Roles
        BY <3>4, <4>2 DEF Apply
      <4> QED BY <4>1, <4>2
    <3> QED BY <2>3, <2>4, <2>6, <3>2, <3>3, <3>5
  <2> QED BY <2>5, <2>6
<1> QED
  BY <1>2, <1>3

LEMMA BatchNumbers == ASSUME BatchType PROVE batch \in Seq(Nat)
<1>1. batch \in Seq(1..MaxCalls) /\ MaxCalls \in Nat
  BY HistoryAssumption DEF BatchType
<1>2. \A i \in 1..Len(batch) : batch[i] \in 1..MaxCalls
  BY <1>1
<1>3. \A i \in 1..Len(batch) : batch[i] \in Nat
  BY <1>1, <1>2
<1>4. batch = [i \in 1..Len(batch) |-> batch[i]] /\ Len(batch) \in Nat
  BY <1>1
<1>5. [i \in 1..Len(batch) |-> batch[i]] \in Seq(Nat)
  BY <1>3, <1>4
<1> QED
  BY <1>4, <1>5

\* The batch of a step that does not touch it.
LEMMA BatchRests ==
  ASSUME BatchType, UNCHANGED <<turnVars, orphans>>, phase' # "record"
  PROVE  BatchType'
  BY DEF BatchType, turnVars

\* A process that ends takes its batch and its conversation along.
LEMMA StopTypes ==
  ASSUME TypeInv, disk' \in Seq(Lines), Stop
  PROVE  TypeInv'
<1>1. FileType' /\ CountType'
  BY HistoryAssumption DEF TypeInv, FileType, CountType, Stop, Phases
<1>2. ConvType'
  BY DEF ConvType, Stop, InTurn
<1>3. BatchType'
  <2>1. batch' = <<>> /\ answered' = <<>> /\ recorded' = 0 /\ orphans' = {} /\ parallel' = FALSE
    BY DEF Stop
  <2>2. <<>> \in Seq(1..MaxCalls) /\ Len(<<>>) = 0 /\ <<>> \in Seq(ToSet(batch'))
    BY HistoryAssumption
  <2>3. MaxBatch \in Nat /\ phase' # "record"
    BY HistoryAssumption DEF Stop
  <2>4. batch' \in Seq(1..MaxCalls) /\ Len(batch') <= MaxBatch /\ answered' \in Seq(ToSet(batch'))
    <3> HIDE DEF ToSet
    <3> QED BY <2>1, <2>2, <2>3
  <2>5. recorded' \in 0..Len(batch')
    BY <2>1, <2>2
  <2> QED BY <2>1, <2>3, <2>4, <2>5 DEF BatchType
<1> QED
  BY <1>1, <1>2, <1>3 DEF TypeInv

LEMMA TypeStep ==
  ASSUME TypeInv, [Next]_vars
  PROVE  TypeInv'
<1> USE HistoryAssumption DEF Phases
<1>0. /\ FileType /\ ConvType /\ BatchType /\ CountType
      /\ disk \in Seq(Lines) /\ conv \in Seq(Items) /\ seq \in Nat /\ turns \in Nat
  BY DEF TypeInv, FileType, ConvType, CountType
<1>1. CASE CreateThread
  <2>1. EmitAs(1, "session_started", 0, <<>>, "idle", "down") /\ <<>> \in Seq(Items)
    BY <1>1 DEF CreateThread
  <2>2. FileType' /\ faults' \in 0..MaxFaults /\ phase' \in {"idle", "down"}
    <3>1. 1 \in Nat /\ 1 # 0 /\ 0 \in Nat /\ "session_started" \in EventTypes
      BY DEF EventTypes
    <3> QED BY <1>0, <2>1, <3>1, EmitTypes
  <2>3. ConvType'
    BY <1>0, <1>1, <2>2 DEF ConvType, CreateThread, InTurn
  <2>4. BatchType'
    BY <1>0, <1>1, <2>2, BatchRests DEF CreateThread
  <2>5. CountType'
    BY <1>0, <1>1, <2>2 DEF CountType, CreateThread, bounds
  <2> QED BY <2>2, <2>3, <2>4, <2>5 DEF TypeInv
<1>2. CASE ResumeThread
  <2>1. disk # <<>> /\ LastSeq(disk) \in Nat
    BY <1>0, <1>2 DEF ResumeThread, Loads, LastSeq, Last, Lines
  <2>2. EmitAs(LastSeq(disk) + 1, "session_restored", 0, <<>>, "idle", "down")
    BY <1>2 DEF ResumeThread
  <2>3. LastSeq(disk) + 1 \in Nat /\ LastSeq(disk) + 1 # 0 /\ <<>> \in Seq(Items)
    BY <2>1
  <2>4. FileType' /\ faults' \in 0..MaxFaults /\ phase' \in {"idle", "down"}
    BY <1>0, <2>2, <2>3, EmitTypes DEF EventTypes
  <2>5. ConvType'
    BY <1>0, <1>2, <2>3, <2>4, ReplayType DEF ConvType, ResumeThread, InTurn
  <2>6. BatchType'
    BY <1>0, <1>2, <2>4, BatchRests DEF ResumeThread
  <2>7. CountType'
    BY <1>0, <1>2, <2>4 DEF CountType, ResumeThread, bounds
  <2> QED BY <2>4, <2>5, <2>6, <2>7 DEF TypeInv
<1>3. CASE Crash
  BY <1>0, <1>3, TornType, AppendLineType, StopTypes DEF Crash
<1>4. CASE CloseThread
  <2>1. Line("session_closed", seq + 1, 0, <<>>) \in Lines
    <3>1. seq + 1 \in Nat /\ <<>> \in Seq(Items) /\ "session_closed" \in EventTypes
      BY <1>0 DEF EventTypes
    <3> QED BY <3>1, LineType
  <2> QED BY <1>0, <1>4, <2>1, AppendLineType, StopTypes DEF CloseThread
<1>5. CASE StartTurn
  <2>1. FileType' /\ faults' \in 0..MaxFaults /\ phase' \in {"echo", "raise"}
    BY <1>0, <1>5, EmitNextTypes DEF EventTypes, StartTurn
  <2>2. ConvType'
    BY <1>0, <1>5, <2>1 DEF ConvType, StartTurn, InTurn
  <2>3. BatchType'
    BY <1>0, <1>5, <2>1, BatchRests DEF StartTurn
  <2>4. CountType'
    BY <1>0, <1>5, <2>1 DEF CountType, StartTurn
  <2> QED BY <2>1, <2>2, <2>3, <2>4 DEF TypeInv
<1>6. CASE EmitUserMessage
  <2>1. /\ FileType' /\ faults' \in 0..MaxFaults /\ faults \in Nat
        /\ \/ phase' = "prepare" /\ faults' = faults
           \/ phase' = "raise" /\ faults' = faults + 1
    <3>1. faults \in Nat
      BY <1>0 DEF CountType
    <3> QED BY <1>0, <1>6, <3>1, EmitNextTypes DEF EventTypes, EmitUserMessage
  <2>2. PICK item \in Items : item = Item("user", turns)
    BY <1>0 DEF Item, Items, Roles
  <2>3. IF faults' = faults THEN conv' = Append(conv, item) ELSE conv' = conv
    BY <1>6, <2>2 DEF EmitUserMessage, AppendIfLogged
  <2>4. ConvType'
    <3>1. CASE faults' = faults
      <4>1. item.role = "user"
        BY <2>2 DEF Item
      <4> QED BY <1>0, <2>3, <3>1, <4>1, ConvGrows DEF ConvType
    <3>2. CASE faults' # faults
      BY <1>0, <2>1, <2>3, <3>2 DEF ConvType, InTurn
    <3> QED BY <3>1, <3>2
  <2>5. BatchType'
    BY <1>0, <1>6, <2>1, BatchRests DEF EmitUserMessage
  <2>6. CountType'
    BY <1>0, <1>6, <2>1 DEF CountType, EmitUserMessage, bounds
  <2> QED BY <2>1, <2>4, <2>5, <2>6 DEF TypeInv
<1>7. CASE PrepareModelMessages
  <2>1. HasUser(conv) /\ UNCHANGED <<turnVars, orphans, bounds>>
    BY <1>0, <1>7 DEF PrepareModelMessages, ConvType, InTurn
  <2>2. CASE /\ conv' = Compact(conv)
             /\ EmitAs(seq + 1, "compacted", 0, Compact(conv), "request", "raise")
    <3>1. Len(disk) \in Nat
      BY <1>0
    <3>2. PICK s \in 1..LastUser(conv) :
            /\ s = CompactionStart(conv) /\ conv[s].role = "user"
            /\ Compact(conv) \in Seq(Items) /\ Len(Compact(conv)) = (Len(conv) - s) + 2
            /\ \A i \in 2..((Len(conv) - s) + 2) : Compact(conv)[i] = conv[(i + s) - 2]
      BY <1>0, <2>1, <3>1, CompactIs
    <3>3. seq + 1 \in Nat /\ seq + 1 # 0
      BY <1>0
    <3>4. FileType' /\ faults' \in 0..MaxFaults /\ phase' \in {"request", "raise"}
      BY <1>0, <2>2, <3>2, <3>3, EmitTypes DEF EventTypes
    <3>5. HasUser(conv')
      <4>1. s \in 1..Len(conv) /\ Len(conv) \in Nat
        BY <1>0, <2>1, LastUserIs
      <4>2. 2 \in 2..((Len(conv) - s) + 2) /\ (2 + s) - 2 = s
        BY <4>1
      <4>3. conv'[2].role = "user" /\ 2 \in 1..Len(conv')
        BY <2>2, <3>2, <4>1, <4>2
      <4> QED BY <4>3 DEF HasUser
    <3>6. ConvType' /\ BatchType' /\ CountType'
      BY <1>0, <2>1, <2>2, <3>2, <3>4, <3>5, BatchRests DEF ConvType, CountType, bounds
    <3> QED BY <3>4, <3>6 DEF TypeInv
  <2>3. CASE phase' \in {"request", "abort"} /\ UNCHANGED <<disk, seq, conv, faults>>
    <3>1. FileType' /\ ConvType' /\ BatchType' /\ CountType'
      BY <1>0, <2>1, <2>3, BatchRests DEF FileType, ConvType, CountType, bounds
    <3> QED BY <3>1 DEF TypeInv
  <2> QED BY <1>7, <2>2, <2>3 DEF PrepareModelMessages
<1>8. CASE ModelText
  <2>1. PICK next \in {"finish", "called"} : Emit("assistant", seq + 1, next, "raise")
    BY <1>8 DEF ModelText
  <2>2. FileType' /\ faults' \in 0..MaxFaults /\ phase' \in {next, "raise"}
    BY <1>0, <2>1, EmitNextTypes DEF EventTypes
  <2>3. PICK item \in Items : item = Item("assistant", seq + 1)
    <3>1. seq + 1 \in Nat
      BY <1>0
    <3> QED BY <3>1 DEF Item, Items, Roles
  <2>4. conv' \in {conv, Append(conv, item)} /\ HasUser(conv)
    BY <1>0, <1>8, <2>3 DEF ModelText, AppendIfLogged, ConvType, InTurn
  <2>5. conv' \in Seq(Items) /\ HasUser(conv')
    BY <1>0, <2>4, ConvGrows
  <2>6. BatchType' /\ CountType'
    BY <1>0, <1>8, <2>2, BatchRests DEF CountType, ModelText, bounds
  <2> QED BY <2>2, <2>5, <2>6 DEF TypeInv, ConvType
<1>9. CASE ModelToolCalls
  <2>1. PICK n \in 1..MaxBatch :
          used + n <= MaxCalls /\ used' = used + n /\ NewBatch([k \in 1..n |-> used + k])
    BY <1>9 DEF ModelToolCalls
  <2>2. /\ phase' = "record" /\ UNCHANGED <<disk, seq, conv, orphans, turns, restarts, faults>>
        /\ parallel' \in BOOLEAN
    BY <1>9 DEF ModelToolCalls
  <2>3. FileType' /\ CountType'
    BY <1>0, <2>1, <2>2 DEF FileType, CountType
  <2>4. ConvType'
    BY <1>0, <1>9, <2>2 DEF ConvType, InTurn, ModelToolCalls
  <2>5. BatchType'
    <3>1. \A k \in 1..n : used + k \in 1..MaxCalls
      BY <1>0, <2>1 DEF CountType
    <3>2. n \in Nat /\ n >= 1 /\ n <= MaxBatch
      BY <2>1
    <3>3. [k \in 1..n |-> used + k] \in Seq(1..MaxCalls) /\ Len([k \in 1..n |-> used + k]) = n
      BY <3>1, <3>2
    <3>4. /\ batch' = [k \in 1..n |-> used + k] /\ recorded' = 0 /\ answered' = <<>>
      BY <2>1 DEF NewBatch
    <3>5. answered' \in Seq(ToSet(batch'))
      BY <3>4
    <3>6. batch' \in Seq(1..MaxCalls) /\ Len(batch') = n
      BY <3>3, <3>4
    <3> QED BY <1>0, <2>2, <3>2, <3>4, <3>5, <3>6 DEF BatchType
  <2> QED BY <2>3, <2>4, <2>5 DEF TypeInv
<1>10. CASE ModelFails
  <2>1. FileType' /\ faults' \in 0..MaxFaults /\ phase' \in {"abort", "raise"}
    <3>1. CASE Emit("error", 0, "abort", "raise")
      BY <1>0, <3>1, EmitNextTypes DEF EventTypes
    <3>2. CASE phase' \in {"raise", "abort"} /\ UNCHANGED <<disk, seq, faults>>
      BY <1>0, <3>2 DEF FileType, CountType
    <3> QED BY <1>10, <3>1, <3>2 DEF ModelFails
  <2>2. ConvType' /\ BatchType' /\ CountType'
    BY <1>0, <1>10, <2>1, BatchRests DEF ModelFails, ConvType, CountType, InTurn, bounds
  <2> QED BY <2>1, <2>2 DEF TypeInv
<1>11. CASE RecordToolCall
  <2>1. /\ recorded \in Nat /\ recorded + 1 <= Len(batch) /\ Len(batch) \in Nat
        /\ batch \in Seq(1..MaxCalls)
    BY <1>0, <1>11 DEF RecordToolCall, BatchType
  <2>2. batch[recorded + 1] \in 1..MaxCalls
    BY <2>1
  <2>3. PICK ok : /\ ok = (IF recorded + 1 = Len(batch) THEN "batch" ELSE "record")
                  /\ Emit("call", batch[recorded + 1], ok, "raise")
    BY <1>11 DEF RecordToolCall
  <2>4. FileType' /\ faults' \in 0..MaxFaults /\ phase' \in {ok, "raise"}
    BY <1>0, <2>2, <2>3, EmitNextTypes DEF EventTypes
  <2>5. batch \in Seq(Nat)
    BY <2>1
  <2>6. Calls("call", batch) \in Seq(Items)
    BY <2>5, CallsType DEF Roles
  <2>7. HasUser(conv) /\ conv' \in {conv, conv \o Calls("call", batch)}
    BY <1>0, <1>11 DEF RecordToolCall, ConvType, InTurn
  <2>8. conv' \in Seq(Items) /\ HasUser(conv')
    <3>1. PICK more \in Seq(Items) : more = Calls("call", batch)
      BY <2>6
    <3>2. conv \o more \in Seq(Items) /\ HasUser(conv \o more)
      BY <1>0, <2>7, <3>1, UserStays
    <3> QED BY <1>0, <2>7, <3>1, <3>2
  <2>9. BatchType'
    BY <1>0, <1>11, <2>1, <2>3, <2>4 DEF RecordToolCall, BatchType
  <2>10. CountType'
    BY <1>0, <1>11, <2>4 DEF RecordToolCall, CountType, bounds
  <2> QED BY <2>4, <2>8, <2>9, <2>10 DEF TypeInv, ConvType
<1>12. CASE FinishCall
  <2>1. PICK c \in Unanswered :
          /\ Emit("result", c, "batch", "raise")
          /\ answered' = IF phase' = "batch" THEN Append(answered, c) ELSE answered
          /\ orphans' = IF phase' = "raise" /\ parallel THEN orphans \cup (Unanswered \ {c})
                                                        ELSE orphans
    BY <1>12 DEF FinishCall
  <2>2. ToSet(batch) \subseteq 1..MaxCalls
    BY <1>0, Elements DEF BatchType
  <2>3. c \in ToSet(batch) /\ Unanswered \subseteq 1..MaxCalls
    BY <2>2 DEF Unanswered
  <2>4. FileType' /\ faults' \in 0..MaxFaults /\ phase' \in {"batch", "raise"}
    BY <1>0, <2>1, <2>2, <2>3, EmitNextTypes DEF EventTypes
  <2>5. answered \in Seq(ToSet(batch)) /\ batch' = batch
    BY <1>0, <1>12 DEF BatchType, FinishCall
  <2>6. answered' \in Seq(ToSet(batch'))
    BY <2>1, <2>3, <2>5
  <2>7. orphans' \subseteq 1..MaxCalls
    BY <1>0, <2>1, <2>3 DEF BatchType
  <2>8. BatchType'
    BY <1>0, <1>12, <2>4, <2>6, <2>7 DEF BatchType, FinishCall
  <2>9. ConvType' /\ CountType'
    BY <1>0, <1>12, <2>4 DEF ConvType, CountType, FinishCall, InTurn, bounds
  <2> QED BY <2>4, <2>8, <2>9 DEF TypeInv
<1>13. CASE BatchDone
  <2>1. batch \in Seq(Nat)
    BY <1>0 DEF BatchType
  <2>2. Calls("result", batch) \in Seq(Items)
    BY <2>1, CallsType DEF Roles
  <2>3. HasUser(conv) /\ conv' = conv \o Calls("result", batch)
    BY <1>0, <1>13 DEF BatchDone, ProviderOrder, ConvType, InTurn
  <2>4. conv' \in Seq(Items) /\ HasUser(conv')
    BY <1>0, <2>2, <2>3, UserStays
  <2>5. FileType' /\ BatchType' /\ CountType'
    BY <1>0, <1>13, BatchRests DEF BatchDone, FileType, CountType, bounds
  <2> QED BY <2>4, <2>5 DEF TypeInv, ConvType
<1>14. CASE OrphanFinishes
  <2>1. PICK c \in orphans : orphans' = orphans \ {c} /\ Emit("result", c, phase, phase)
    BY <1>14 DEF OrphanFinishes
  <2>2. c \in Nat /\ orphans' \subseteq 1..MaxCalls
    BY <1>0, <2>1 DEF BatchType
  <2>3. FileType' /\ faults' \in 0..MaxFaults /\ phase' = phase
    BY <1>0, <2>1, <2>2, EmitNextTypes DEF EventTypes, FileType
  <2>4. ConvType' /\ CountType'
    BY <1>0, <1>14, <2>3 DEF OrphanFinishes, ConvType, CountType, InTurn, bounds
  <2>5. BatchType'
    BY <1>0, <1>14, <2>2, <2>3 DEF OrphanFinishes, BatchType, turnVars
  <2> QED BY <2>3, <2>4, <2>5 DEF TypeInv
<1>15. CASE CancelTurn
  <2>1. FileType' /\ ConvType' /\ BatchType' /\ CountType'
    BY <1>0, <1>15, BatchRests DEF CancelTurn, FileType, ConvType, CountType, InTurn, bounds
  <2> QED BY <2>1 DEF TypeInv
<1>16. CASE FinishTurn
  <2>1. FileType' /\ faults' \in 0..MaxFaults /\ phase' \in {"idle", "raise"}
    BY <1>0, <1>16, EmitNextTypes DEF EventTypes, FinishTurn
  <2>2. ConvType' /\ BatchType' /\ CountType'
    BY <1>0, <1>16, <2>1, BatchRests DEF FinishTurn, ConvType, CountType, InTurn, bounds
  <2> QED BY <2>1, <2>2 DEF TypeInv
<1>17. CASE AbortTurn
  <2>1. FileType' /\ faults' \in 0..MaxFaults /\ phase' \in {"idle", "raise"}
    BY <1>0, <1>17, EmitNextTypes DEF EventTypes, AbortTurn
  <2>2. ConvType' /\ BatchType' /\ CountType'
    BY <1>0, <1>17, <2>1, BatchRests DEF AbortTurn, ConvType, CountType, InTurn, bounds
  <2> QED BY <2>1, <2>2 DEF TypeInv
<1>18. CASE AbortFromException
  <2>1. FileType' /\ faults' \in 0..MaxFaults /\ phase' \in {"handle", "idle"}
    BY <1>0, <1>18, EmitNextTypes DEF EventTypes, AbortFromException
  <2>2. ConvType' /\ BatchType' /\ CountType'
    BY <1>0, <1>18, <2>1, BatchRests DEF AbortFromException, ConvType, CountType, InTurn, bounds
  <2> QED BY <2>1, <2>2 DEF TypeInv
<1>19. CASE UNCHANGED vars
  BY <1>0, <1>19 DEF vars, TypeInv, FileType, ConvType, BatchType, CountType, InTurn
<1> QED
  BY <1>1, <1>2, <1>3, <1>4, <1>5, <1>6, <1>7, <1>8, <1>9, <1>10, <1>11, <1>12, <1>13, <1>14,
     <1>15, <1>16, <1>17, <1>18, <1>19 DEF Next

LEMMA TypeInvHolds == Spec => []TypeInv
<1>1. Init => TypeInv
  <2>1. SUFFICES ASSUME Init PROVE TypeInv
    OBVIOUS
  <2>2. FileType /\ ConvType /\ CountType
    BY <2>1, HistoryAssumption DEF Init, FileType, ConvType, CountType, Phases, InTurn
  <2>3. BatchType
    <3>1. batch = <<>> /\ answered = <<>> /\ recorded = 0 /\ orphans = {} /\ parallel = FALSE
      BY <2>1 DEF Init
    <3>2. batch \in Seq(1..MaxCalls) /\ Len(batch) = 0 /\ answered \in Seq(ToSet(batch))
      BY <3>1
    <3>3. phase # "record"
      BY <2>1 DEF Init
    <3>4. recorded \in 0..Len(batch) /\ Len(batch) <= MaxBatch /\ orphans \subseteq 1..MaxCalls
      BY <3>1, <3>2, HistoryAssumption
    <3> QED BY <3>1, <3>2, <3>3, <3>4 DEF BatchType
  <2> QED BY <2>2, <2>3 DEF TypeInv
<1>2. TypeInv /\ [Next]_vars => TypeInv'
  BY TypeStep
<1> QED
  BY <1>1, <1>2, PTL DEF Spec

\* Every line of the log, the conversation and the batch are what the code takes them for, for any
\* bounds; nobody records or answers a call the batch does not have.
THEOREM TypeCorrect == Spec => []TypeOK
<1>1. TypeInv => TypeOK
  <2>1. SUFFICES ASSUME TypeInv PROVE TypeOK
    OBVIOUS
  <2>2. \A i \in 1..Len(disk) : disk[i] \in Lines
    BY <2>1 DEF TypeInv, FileType
  <2>3. ASSUME NEW i \in 1..Len(disk)
        PROVE  /\ disk[i].type \in EventTypes \cup {"torn", "garbage"}
               /\ disk[i].seq \in Nat /\ disk[i].id \in Nat
               /\ ToSet(disk[i].snapshot) \subseteq Items
    <3>1. disk[i].snapshot \in Seq(Items)
      BY <2>2 DEF Lines
    <3>2. ToSet(disk[i].snapshot) \subseteq Items
      BY <3>1, Elements
    <3> QED BY <2>2, <3>2 DEF Lines
  <2>4. ToSet(conv) \subseteq Items /\ ToSet(batch) \subseteq 1..MaxCalls
    <3>1. conv \in Seq(Items) /\ batch \in Seq(1..MaxCalls)
      BY <2>1 DEF TypeInv, ConvType, BatchType
    <3> QED BY <3>1, Elements
  <2>5. ToSet(answered) \subseteq ToSet(batch)
    <3>1. answered \in Seq(ToSet(batch))
      BY <2>1 DEF TypeInv, BatchType
    <3> QED BY <3>1, Elements
  <2>6. recorded \in 0..MaxBatch
    <3>1. recorded \in 0..Len(batch) /\ Len(batch) \in Nat /\ Len(batch) <= MaxBatch
      BY <2>1 DEF TypeInv, BatchType
    <3> QED BY <3>1, HistoryAssumption
  <2> QED BY <2>1, <2>3, <2>4, <2>5, <2>6
          DEF TypeInv, FileType, ConvType, BatchType, CountType, TypeOK
<1> QED
  BY <1>1, TypeInvHolds, PTL

-----------------------------------------------------------------------------
(* The log knows the conversation *)

\* The append of context_compacted, the one event of _prepare_model_messages, does not fail.
SummaryIsWritten == phase = "prepare" => faults' = faults

Logged == ToSet(Reconstruct(disk))

\* The inductive invariant: what is in the conversation is in the log, and so is what goes to the
\* conversation later: the calls recorded so far, and the results of the calls answered.
KnowInv ==
  /\ phase = "none" => disk = <<>> /\ conv = <<>>
  /\ Up /\ Intact =>
    /\ \A i \in 1..Len(conv) : conv[i] \in Logged
    /\ phase = "record" => \A k \in 1..recorded : Item("call", batch[k]) \in Logged
    /\ phase = "batch" => \A k \in 1..Len(answered) : Item("result", answered[k]) \in Logged

\* Damage stays, and an undamaged log has been one before.
LEMMA IntactBefore ==
  ASSUME TypeInv, [Next]_vars, Intact'
  PROVE  Intact
<1>1. IsLog(disk)
  BY SequenceIsLog DEF TypeInv, FileType
<1> QED
  BY <1>1, FileStep, Damage DEF Intact

\* An append to an undamaged file that leaves no damage is one line more.
LEMMA AppendReplays ==
  ASSUME disk \in Seq(Lines), Intact, NEW line \in Lines
  PROVE  Reconstruct(AppendLine(line)) = Apply(Reconstruct(disk), line)
<1>1. IsLog(disk)
  BY SequenceIsLog
<1>2. disk = <<>> \/ Last(disk).type # "torn"
  BY DEF Intact, Last
<1>3. AppendLine(line) = Append(disk, line)
  BY <1>2 DEF AppendLine
<1> QED
  BY <1>1, <1>3, ReplayLine

LEMMA EmitReplays ==
  ASSUME disk \in Seq(Lines), Intact, Intact', NEW n \in Nat, NEW type \in EventTypes,
         NEW id \in Nat, NEW snapshot \in Seq(Items), NEW ok, NEW ko,
         EmitAs(n, type, id, snapshot, ok, ko)
  PROVE  LET after == Apply(Reconstruct(disk), Line(type, n, id, snapshot)) IN
         \/ phase' = ok /\ faults' = faults /\ Reconstruct(disk') = after
         \/ /\ phase' = ko /\ faults' = faults + 1 /\ faults < MaxFaults
            /\ Reconstruct(disk') \in {Reconstruct(disk), after}
<1>1. PICK line \in Lines : line = Line(type, n, id, snapshot)
  BY LineType
<1>2. Reconstruct(AppendLine(line)) = Apply(Reconstruct(disk), line)
  BY AppendReplays
<1>3. IsLog(disk)
  BY SequenceIsLog
<1>4. disk' # AppendLine(Torn)
  BY <1>3, Damage
<1>5. ASSUME disk' \in Landed(line) PROVE disk' = disk \/ disk' = AppendLine(line)
  BY <1>4, <1>5 DEF Landed
<1>6. \/ disk' = AppendLine(line) /\ phase' = ok /\ faults' = faults
      \/ disk' \in Landed(line) /\ phase' = ko /\ faults' = faults + 1 /\ faults < MaxFaults
  BY <1>1 DEF EmitAs
<1> QED
  BY <1>1, <1>2, <1>5, <1>6

LEMMA ApplyGrows ==
  ASSUME NEW c \in Seq(Items), NEW line \in Lines, line.type # "compacted"
  PROVE  /\ ToSet(c) \subseteq ToSet(Apply(c, line))
         /\ line.type \in Roles => Item(line.type, line.id) \in ToSet(Apply(c, line))
<1>1. CASE line.type \in Roles
  <2>1. PICK item \in Items : item = Item(line.type, line.id)
    BY <1>1 DEF Item, Items, Lines
  <2>2. PICK longer : longer = Append(c, item)
    OBVIOUS
  <2>3. /\ longer \in Seq(Items) /\ Len(longer) = Len(c) + 1 /\ longer[Len(c) + 1] = item
        /\ \A i \in 1..Len(c) : longer[i] = c[i]
    BY <2>2
  <2>4. Len(c) \in Nat /\ Apply(c, line) = longer
    BY <1>1, <2>1, <2>2 DEF Apply
  <2>5. \A i \in 1..Len(c) : c[i] \in ToSet(longer)
    <3>1. \A i \in 1..Len(c) : i \in 1..Len(longer)
      BY <2>3, <2>4
    <3> QED BY <2>3, <3>1, Elements
  <2>6. item \in ToSet(longer)
    <3>1. Len(c) + 1 \in 1..Len(longer)
      BY <2>3, <2>4
    <3> QED BY <2>3, <3>1, Elements
  <2>7. ToSet(c) \subseteq ToSet(longer)
    BY <2>5, Elements
  <2> QED BY <2>1, <2>4, <2>6, <2>7
<1>2. CASE line.type \notin Roles
  BY <1>2 DEF Apply
<1> QED
  BY <1>1, <1>2

\* What an event other than context_compacted does to what the log knows.
LEMMA EmitKnown ==
  ASSUME TypeInv, Intact, Intact', NEW n \in Nat, NEW type \in EventTypes \ {"compacted"},
         NEW id \in Nat, NEW ok, NEW ko, EmitAs(n, type, id, <<>>, ok, ko)
  PROVE  /\ Logged \subseteq Logged'
         /\ \/ phase' = ok /\ faults' = faults /\ (type \in Roles => Item(type, id) \in Logged')
            \/ phase' = ko /\ faults' = faults + 1
<1>1. <<>> \in Seq(Items) /\ disk \in Seq(Lines)
  BY DEF TypeInv, FileType
<1>2. PICK line \in Lines : line = Line(type, n, id, <<>>)
  BY <1>1, LineType
<1>3. line.type = type /\ line.id = id
  BY <1>2 DEF Line
<1>4. PICK after : after = Apply(Reconstruct(disk), line)
  OBVIOUS
<1>5. Reconstruct(disk) \in Seq(Items)
  BY <1>1, ReplayType
<1>6. /\ ToSet(Reconstruct(disk)) \subseteq ToSet(after)
      /\ type \in Roles => Item(type, id) \in ToSet(after)
  BY <1>3, <1>4, <1>5, ApplyGrows
<1>7. \/ phase' = ok /\ faults' = faults /\ Reconstruct(disk') = after
      \/ phase' = ko /\ faults' = faults + 1 /\ Reconstruct(disk') \in {Reconstruct(disk), after}
  BY <1>1, <1>2, <1>4, EmitReplays
<1> QED
  BY <1>6, <1>7 DEF Logged

LEMMA EmitNextKnown ==
  ASSUME TypeInv, Intact, Intact', NEW type \in EventTypes \ {"compacted"},
         NEW id \in Nat, NEW ok, NEW ko, Emit(type, id, ok, ko)
  PROVE  /\ Logged \subseteq Logged'
         /\ \/ phase' = ok /\ faults' = faults /\ (type \in Roles => Item(type, id) \in Logged')
            \/ phase' = ko /\ faults' = faults + 1
<1>1. seq + 1 \in Nat
  BY DEF TypeInv, FileType
<1> QED
  BY <1>1, EmitKnown DEF Emit

\* The same conversation, or one with an item that was logged, and no batch in the making.
LEMMA StillKnown ==
  ASSUME TypeInv, KnowInv, Up, Intact, Logged \subseteq Logged',
         conv' = conv \/ \E item \in Logged' : conv' = Append(conv, item),
         phase' \notin {"none", "record", "batch"}
  PROVE  KnowInv'
<1>1. \A i \in 1..Len(conv) : conv[i] \in Logged'
  BY DEF KnowInv
<1>2. CASE conv' = conv
  BY <1>1, <1>2 DEF KnowInv
<1>3. ASSUME NEW item \in Logged', conv' = Append(conv, item) PROVE KnowInv'
  <2>1. conv \in Seq(Items)
    BY DEF TypeInv, ConvType
  <2>2. \A i \in 1..Len(conv') : conv'[i] = item \/ \E j \in 1..Len(conv) : conv'[i] = conv[j]
    BY <1>3, <2>1
  <2>3. \A i \in 1..Len(conv') : conv'[i] \in Logged'
    BY <1>1, <1>3, <2>2
  <2> QED BY <2>3 DEF KnowInv
<1> QED
  BY <1>2, <1>3

LEMMA KnowStep ==
  ASSUME TypeInv, KnowInv, [Next]_vars, [SummaryIsWritten]_vars
  PROVE  KnowInv'
<1>0. SUFFICES ASSUME phase' # "none", Up', Intact' PROVE KnowInv'
  BY FileStep DEF KnowInv, vars
<1>a. /\ Intact /\ disk \in Seq(Lines) /\ conv \in Seq(Items) /\ Len(conv) \in Nat
      /\ faults \in Nat /\ turns \in Nat /\ seq \in Nat /\ faults # faults + 1
  <2>1. faults \in Nat /\ turns \in Nat
    BY DEF TypeInv, CountType
  <2> QED BY <1>0, <2>1, IntactBefore DEF TypeInv, FileType, ConvType
<1>b. ASSUME Up PROVE \A i \in 1..Len(conv) : conv[i] \in Logged
  BY <1>a, <1>b DEF KnowInv
<1>1. CASE CreateThread
  <2>1. phase' = "idle" /\ conv' = <<>>
    BY <1>0, <1>1, EmitFile DEF CreateThread, Up, KnowInv
  <2> QED BY <2>1 DEF KnowInv
<1>2. CASE ResumeThread
  <2>1. phase' = "idle" /\ conv' = Reconstruct(disk)
    BY <1>0, <1>2, EmitFile DEF ResumeThread, Up
  <2>2. LastSeq(disk) + 1 \in Nat /\ 0 \in Nat /\ "session_restored" \in EventTypes \ {"compacted"}
    BY <1>a, <1>2 DEF EventTypes, ResumeThread, Loads, LastSeq, Last, Lines
  <2>3. Logged \subseteq Logged'
    BY <1>0, <1>2, <1>a, <2>2, EmitKnown DEF ResumeThread
  <2>4. \A i \in 1..Len(Reconstruct(disk)) : Reconstruct(disk)[i] \in Logged
    BY <1>a, ReplayType, Elements DEF Logged
  <2> QED BY <2>1, <2>3, <2>4 DEF KnowInv
<1>3. CASE Crash
  BY <1>0, <1>3 DEF Crash, Stop, Up
<1>4. CASE CloseThread
  BY <1>0, <1>4 DEF CloseThread, Stop, Up
<1>5. CASE StartTurn
  <2>1. Logged \subseteq Logged' /\ phase' \in {"echo", "raise"}
    BY <1>0, <1>a, <1>5, EmitNextKnown DEF StartTurn, EventTypes
  <2> QED BY <1>a, <1>5, <2>1, StillKnown DEF StartTurn, Up
<1>6. CASE EmitUserMessage
  <2>1. /\ Logged \subseteq Logged' /\ phase' \in {"prepare", "raise"}
        /\ faults' = faults => Item("user", turns) \in Logged'
    BY <1>0, <1>a, <1>6, EmitNextKnown DEF EmitUserMessage, EventTypes, Roles
  <2> QED BY <1>a, <1>6, <2>1, StillKnown DEF EmitUserMessage, AppendIfLogged, Up
<1>7. CASE PrepareModelMessages
  <2>1. CASE /\ ContextMayOverflow /\ conv' = Compact(conv)
             /\ EmitAs(seq + 1, "compacted", 0, Compact(conv), "request", "raise")
    <3>1. HasUser(conv)
      BY <1>7 DEF PrepareModelMessages, TypeInv, ConvType, InTurn
    <3>2. Compact(conv) \in Seq(Items)
      BY <1>a, <3>1, CompactIs DEF TypeInv, FileType
    <3>3. seq + 1 \in Nat /\ 0 \in Nat /\ "compacted" \in EventTypes /\ "compacted" \notin Roles
      BY <1>a DEF EventTypes, Roles
    <3>4. PICK line : line = Line("compacted", seq + 1, 0, Compact(conv))
      OBVIOUS
    <3>5. \/ phase' = "request" /\ Reconstruct(disk') = Apply(Reconstruct(disk), line)
          \/ faults' = faults + 1
      BY <1>0, <1>a, <2>1, <3>2, <3>3, <3>4, EmitReplays
    <3>6. faults' # faults + 1
      BY <1>7, <1>a DEF PrepareModelMessages, SummaryIsWritten, vars
    <3>7. Apply(Reconstruct(disk), line) = Compact(conv)
      BY <3>3, <3>4 DEF Apply, Line
    <3>8. phase' = "request" /\ Logged' = ToSet(conv')
      BY <2>1, <3>5, <3>6, <3>7 DEF Logged
    <3>9. \A i \in 1..Len(conv') : conv'[i] \in ToSet(conv')
      BY <2>1, <3>2, Elements
    <3> QED BY <3>8, <3>9 DEF KnowInv
  <2>2. CASE phase' \in {"request", "abort"} /\ UNCHANGED <<disk, conv>>
    BY <1>a, <1>7, <2>2, StillKnown DEF Logged, PrepareModelMessages, Up
  <2> QED BY <1>7, <2>1, <2>2 DEF PrepareModelMessages
<1>8. CASE ModelText
  <2>1. PICK next \in {"finish", "called"} : Emit("assistant", seq + 1, next, "raise")
    BY <1>8 DEF ModelText
  <2>2. seq + 1 \in Nat
    BY <1>a
  <2>3. /\ Logged \subseteq Logged' /\ phase' \in {next, "raise"}
        /\ faults' = faults => Item("assistant", seq + 1) \in Logged'
    BY <1>0, <1>a, <2>1, <2>2, EmitNextKnown DEF EventTypes, Roles
  <2> QED BY <1>a, <1>8, <2>3, StillKnown DEF ModelText, AppendIfLogged, Up
<1>9. CASE ModelToolCalls
  <2>1. phase' = "record" /\ conv' = conv /\ recorded' = 0 /\ Logged' = Logged /\ Up
    BY <1>9 DEF ModelToolCalls, NewBatch, Logged, Up
  <2> QED BY <1>b, <2>1 DEF KnowInv
<1>10. CASE ModelFails
  <2>1. Logged \subseteq Logged' /\ phase' \in {"abort", "raise"}
    <3>1. CASE Emit("error", 0, "abort", "raise")
      BY <1>0, <1>a, <3>1, EmitNextKnown DEF EventTypes
    <3>2. CASE phase' \in {"raise", "abort"} /\ UNCHANGED <<disk, seq, faults>>
      BY <3>2 DEF Logged
    <3> QED BY <1>10, <3>1, <3>2 DEF ModelFails
  <2> QED BY <1>a, <1>10, <2>1, StillKnown DEF ModelFails, Up
<1>11. CASE RecordToolCall
  <2>1. /\ recorded \in Nat /\ recorded + 1 <= Len(batch) /\ Len(batch) \in Nat
        /\ batch \in Seq(Nat)
    BY <1>11, BatchNumbers DEF RecordToolCall, TypeInv, BatchType
  <2>2. batch[recorded + 1] \in Nat
    BY <2>1
  <2>3. PICK ok : /\ ok = (IF recorded + 1 = Len(batch) THEN "batch" ELSE "record")
                  /\ Emit("call", batch[recorded + 1], ok, "raise")
    BY <1>11 DEF RecordToolCall
  <2>4. /\ Logged \subseteq Logged'
        /\ \/ phase' = ok /\ Item("call", batch[recorded + 1]) \in Logged'
           \/ phase' = "raise"
    BY <1>0, <1>a, <2>2, <2>3, EmitNextKnown DEF EventTypes, Roles
  <2>5. (\A i \in 1..Len(conv) : conv[i] \in Logged') /\ Up
    BY <1>11, <1>b, <2>4 DEF RecordToolCall, Up
  <2>6. \A k \in 1..recorded : Item("call", batch[k]) \in Logged'
    BY <1>11, <1>a, <2>4, <2>5 DEF RecordToolCall, KnowInv
  <2>7. batch' = batch /\ answered' = answered /\ recorded' = recorded + 1
    BY <1>11 DEF RecordToolCall
  <2>8. CASE phase' = "raise"
    <3>1. conv' = conv
      BY <1>11, <2>8 DEF RecordToolCall
    <3> QED BY <2>5, <2>8, <3>1 DEF KnowInv
  <2>9. CASE phase' = ok /\ ok = "record"
    <3>1. conv' = conv
      BY <1>11, <2>9 DEF RecordToolCall
    <3>2. Item("call", batch[recorded + 1]) \in Logged'
      BY <2>4, <2>9
    <3>3. \A k \in 1..(recorded + 1) : Item("call", batch[k]) \in Logged'
      BY <2>1, <2>6, <3>2
    <3> QED BY <2>5, <2>7, <2>9, <3>1, <3>3 DEF KnowInv
  <2>10. CASE phase' = ok /\ ok = "batch"
    <3>1. recorded + 1 = Len(batch) /\ Item("call", batch[recorded + 1]) \in Logged'
      BY <2>3, <2>4, <2>10
    <3>2. \A k \in 1..Len(batch) : Item("call", batch[k]) \in Logged'
      BY <2>1, <2>6, <3>1
    <3>3. batch \in Seq(Nat)
      BY <2>1
    <3>4. PICK more \in Seq(Items) : more = Calls("call", batch)
      BY <3>3, CallsType DEF Roles
    <3>5. Len(more) = Len(batch) /\ \A k \in 1..Len(batch) : more[k] = Item("call", batch[k])
      BY <3>3, <3>4, CallsType DEF Roles
    <3>6. conv' = conv \o more
      BY <1>11, <2>10, <3>4 DEF RecordToolCall
    <3>7. \A i \in 1..Len(conv') : \/ \E j \in 1..Len(conv) : conv'[i] = conv[j]
                                  \/ \E k \in 1..Len(more) : conv'[i] = more[k]
      BY <1>a, <3>4, <3>6
    <3>8. \A i \in 1..Len(conv') : conv'[i] \in Logged'
      BY <2>5, <3>2, <3>5, <3>7
    <3>9. answered = <<>>
      BY <1>11 DEF RecordToolCall, TypeInv, BatchType
    <3> QED BY <2>7, <2>10, <3>8, <3>9 DEF KnowInv
  <2> QED BY <2>3, <2>4, <2>8, <2>9, <2>10
<1>12. CASE FinishCall
  <2>1. PICK c \in Unanswered :
          /\ Emit("result", c, "batch", "raise")
          /\ answered' = IF phase' = "batch" THEN Append(answered, c) ELSE answered
    BY <1>12 DEF FinishCall
  <2>2. /\ answered \in Seq(ToSet(batch)) /\ ToSet(batch) \subseteq Nat /\ c \in ToSet(batch)
    <3>1. batch \in Seq(Nat)
      BY BatchNumbers DEF TypeInv
    <3> QED BY <3>1, Elements DEF TypeInv, BatchType, Unanswered
  <2>3. c \in Nat
    BY <2>2
  <2>4. /\ Logged \subseteq Logged'
        /\ \/ phase' = "batch" /\ Item("result", c) \in Logged'
           \/ phase' = "raise"
    BY <1>0, <1>a, <2>1, <2>3, EmitNextKnown DEF EventTypes, Roles
  <2>5. (\A i \in 1..Len(conv) : conv[i] \in Logged') /\ conv' = conv
    BY <1>12, <1>b, <2>4 DEF FinishCall, Up
  <2>6. \A k \in 1..Len(answered) : Item("result", answered[k]) \in Logged'
    BY <1>12, <1>a, <2>4 DEF FinishCall, KnowInv, Up
  <2>7. CASE phase' = "raise"
    BY <2>5, <2>7 DEF KnowInv
  <2>8. CASE phase' = "batch" /\ Item("result", c) \in Logged'
    <3>1. answered' = Append(answered, c)
      BY <2>1, <2>8
    <3>2. \A k \in 1..Len(answered') :
            answered'[k] = c \/ \E j \in 1..Len(answered) : answered'[k] = answered[j]
      BY <2>2, <3>1
    <3>3. \A k \in 1..Len(answered') : Item("result", answered'[k]) \in Logged'
      BY <2>6, <2>8, <3>2
    <3> QED BY <2>5, <2>8, <3>3 DEF KnowInv
  <2> QED BY <2>4, <2>7, <2>8
<1>13. CASE BatchDone
  <2>1. Logged' = Logged /\ phase' = "prepare" /\ Unanswered = {} /\ phase = "batch" /\ Up
    BY <1>13 DEF BatchDone, Logged, Up
  <2>2. batch \in Seq(Nat) /\ answered \in Seq(ToSet(batch))
    BY BatchNumbers DEF TypeInv, BatchType
  <2>3. \A k \in 1..Len(batch) : \E j \in 1..Len(answered) : answered[j] = batch[k]
    BY <2>1, <2>2, Elements DEF Unanswered
  <2>4. \A k \in 1..Len(batch) : Item("result", batch[k]) \in Logged
    BY <1>a, <2>1, <2>3 DEF KnowInv
  <2>5. PICK more \in Seq(Items) : more = Calls("result", batch)
    BY <2>2, CallsType DEF Roles
  <2>6. Len(more) = Len(batch) /\ \A k \in 1..Len(batch) : more[k] = Item("result", batch[k])
    BY <2>2, <2>5, CallsType DEF Roles
  <2>7. conv' = conv \o more
    BY <1>13, <2>5 DEF BatchDone, ProviderOrder
  <2>8. \A i \in 1..Len(conv') : \/ \E j \in 1..Len(conv) : conv'[i] = conv[j]
                                \/ \E k \in 1..Len(more) : conv'[i] = more[k]
    BY <1>a, <2>5, <2>7
  <2>9. \A i \in 1..Len(conv') : conv'[i] \in Logged
    BY <1>b, <2>1, <2>4, <2>6, <2>8
  <2> QED BY <2>1, <2>9 DEF KnowInv
<1>14. CASE OrphanFinishes
  <2>1. PICK c \in orphans : Emit("result", c, phase, phase)
    BY <1>14 DEF OrphanFinishes
  <2>2. c \in Nat
    BY <2>1 DEF TypeInv, BatchType
  <2>3. Logged \subseteq Logged' /\ phase' = phase /\ Up
    BY <1>0, <1>14, <1>a, <2>1, <2>2, EmitNextKnown DEF EventTypes, OrphanFinishes, Up
  <2> QED BY <1>14, <1>a, <2>3 DEF KnowInv, OrphanFinishes, turnVars
<1>15. CASE CancelTurn
  BY <1>a, <1>15, StillKnown DEF CancelTurn, Logged, Up
<1>16. CASE FinishTurn
  <2>1. Logged \subseteq Logged' /\ phase' \in {"idle", "raise"}
    BY <1>0, <1>a, <1>16, EmitNextKnown DEF FinishTurn, EventTypes
  <2> QED BY <1>a, <1>16, <2>1, StillKnown DEF FinishTurn, Up
<1>17. CASE AbortTurn
  <2>1. Logged \subseteq Logged' /\ phase' \in {"idle", "raise"}
    BY <1>0, <1>a, <1>17, EmitNextKnown DEF AbortTurn, EventTypes
  <2> QED BY <1>a, <1>17, <2>1, StillKnown DEF AbortTurn, Up
<1>18. CASE AbortFromException
  <2>1. Logged \subseteq Logged' /\ phase' \in {"handle", "idle"}
    BY <1>0, <1>a, <1>18, EmitNextKnown DEF AbortFromException, EventTypes
  <2> QED BY <1>a, <1>18, <2>1, StillKnown DEF AbortFromException, Up
<1>19. CASE UNCHANGED vars
  BY <1>19 DEF vars, KnowInv, Logged, Up, Intact
<1> QED
  BY <1>1, <1>2, <1>3, <1>4, <1>5, <1>6, <1>7, <1>8, <1>9, <1>10, <1>11, <1>12, <1>13, <1>14,
     <1>15, <1>16, <1>17, <1>18, <1>19 DEF Next

\* Every item of the live conversation is in the one a later process rebuilds from the log,
\* whatever appends fail and whatever they leave, for any number of turns, calls, compactions and
\* restarts; except when the append of a compaction itself fails.
THEOREM LogKnows == Spec /\ [][SummaryIsWritten]_vars => []LogKnowsConversation
<1>1. Init => KnowInv
  BY DEF Init, KnowInv, Up
<1>2. TypeInv /\ KnowInv /\ [Next]_vars /\ [SummaryIsWritten]_vars => KnowInv'
  BY KnowStep
<1>3. TypeInv /\ KnowInv => LogKnowsConversation
  <2>1. SUFFICES ASSUME TypeInv, KnowInv, Settled, Intact
                 PROVE  ToSet(conv) \subseteq ToSet(Reconstruct(disk))
    BY DEF LogKnowsConversation
  <2>2. conv \in Seq(Items) /\ \A i \in 1..Len(conv) : conv[i] \in Logged
    BY <2>1 DEF TypeInv, ConvType, KnowInv, Settled, Up
  <2> QED BY <2>2, Elements DEF Logged
<1> QED
  BY <1>1, <1>2, <1>3, TypeInvHolds, PTL DEF Spec

-----------------------------------------------------------------------------
(* What a step does to the two conversations when no append fails *)

Rebuilt == Reconstruct(disk)

\* A running process has an undamaged log, and no call is left behind.
QuietInv ==
  /\ faults = 0 /\ orphans = {}
  /\ Up => Intact
  /\ phase = "none" => disk = <<>> /\ conv = <<>>

\* emit without failure: one line more.
LEMMA EmitAlone ==
  ASSUME MaxFaults = 0, disk \in Seq(Lines), Intact, faults = 0, NEW n \in Nat,
         NEW type \in EventTypes, NEW id \in Nat, NEW snapshot \in Seq(Items), NEW ok, NEW ko,
         EmitAs(n, type, id, snapshot, ok, ko)
  PROVE  /\ phase' = ok /\ faults' = faults /\ Intact'
         /\ type \in Roles => Rebuilt' = Rebuilt \o <<Item(type, id)>>
         /\ type = "compacted" => Rebuilt' = snapshot
         /\ type \notin Roles \cup {"compacted"} => Rebuilt' = Rebuilt
<1>1. PICK line \in Lines : line = Line(type, n, id, snapshot)
  BY LineType
<1>2. disk' = AppendLine(line) /\ phase' = ok /\ faults' = faults
  BY <1>1 DEF EmitAs
<1>3. Rebuilt' = Apply(Rebuilt, line)
  BY <1>2, AppendReplays DEF Rebuilt
<1>4. line.type = type /\ line.id = id /\ line.snapshot = snapshot
  BY <1>1 DEF Line
<1>5. Rebuilt \in Seq(Items)
  BY ReplayType DEF Rebuilt
<1>6. type \in Roles => Rebuilt' = Rebuilt \o <<Item(type, id)>>
  <2>1. SUFFICES ASSUME type \in Roles PROVE Rebuilt' = Rebuilt \o <<Item(type, id)>>
    OBVIOUS
  <2>2. PICK item \in Items : item = Item(type, id)
    BY <2>1 DEF Item, Items
  <2>3. Append(Rebuilt, item) = Rebuilt \o <<item>>
    BY <1>5
  <2> QED BY <1>3, <1>4, <2>1, <2>2, <2>3 DEF Apply
<1>7. "compacted" \notin Roles
  BY DEF Roles
<1>8. Intact'
  <2>1. disk = <<>> \/ Last(disk).type # "torn"
    BY DEF Intact, Last
  <2>2. disk' = Append(disk, line)
    BY <1>2, <2>1 DEF AppendLine
  <2>3. type \notin {"torn", "garbage"}
    BY DEF EventTypes
  <2>4. \A i \in 1..Len(disk') : disk'[i] = line \/ \E j \in 1..Len(disk) : disk'[i] = disk[j]
    BY <2>2
  <2> QED BY <1>4, <2>3, <2>4 DEF Intact
<1> QED
  BY <1>2, <1>3, <1>4, <1>6, <1>7, <1>8 DEF Apply

LEMMA EmitNextAlone ==
  ASSUME MaxFaults = 0, TypeInv, QuietInv, Up, NEW type \in EventTypes \ {"compacted"},
         NEW id \in Nat, NEW ok, NEW ko, Emit(type, id, ok, ko)
  PROVE  /\ phase' = ok /\ faults' = 0 /\ Intact'
         /\ type \in Roles => Rebuilt' = Rebuilt \o <<Item(type, id)>>
         /\ type \notin Roles => Rebuilt' = Rebuilt
<1>1. seq + 1 \in Nat /\ <<>> \in Seq(Items) /\ disk \in Seq(Lines) /\ Intact /\ faults = 0
  BY DEF TypeInv, FileType, QuietInv
<1> QED
  BY <1>1, EmitAlone DEF Emit

Working == {"record", "batch"}

\* The steps, by what they do: nothing to either conversation,
Rest ==
  /\ UNCHANGED <<conv, used>> /\ Rebuilt' = Rebuilt
  /\ phase \notin Working /\ phase' \notin Working
  /\ phase' \in {"prepare", "request", "called"} => phase \in {"prepare", "request", "called"}
  /\ Up /\ Up'

\* the end of a process, or its begin with the conversation of the log;
Halt ==
  /\ phase' = "down" /\ conv' = <<>> /\ Rebuilt' = Rebuilt /\ used' = used

Begin ==
  /\ phase' = "idle" /\ conv' = Rebuilt /\ Rebuilt' = Rebuilt /\ used' = used

\* a message of the user or of the model, in both;
Say ==
  /\ Up /\ phase \notin Working /\ phase' \in {"prepare", "finish", "called"} /\ used' = used
  /\ \E item \in Items :
       /\ item.role = "user" \/ (item.role = "assistant" /\ phase = "request")
       /\ conv' = conv \o <<item>> /\ Rebuilt' = Rebuilt \o <<item>>

\* a compaction, of the live one, which the log takes over;
Shorten ==
  /\ phase = "prepare" /\ phase' = "request" /\ used' = used /\ HasUser(conv)
  /\ conv' = Compact(conv) /\ Rebuilt' = Compact(conv)

\* calls of the model, with numbers that are new,
Ask ==
  /\ phase \in {"request", "called"} /\ phase' = "record"
  /\ UNCHANGED conv /\ Rebuilt' = Rebuilt
  /\ \E n \in Nat \ {0} :
       /\ used' = used + n /\ batch' = [k \in 1..n |-> used + k]
       /\ recorded' = 0 /\ answered' = <<>>

\* recorded one by one in the log and at the end together in the conversation,
Record ==
  /\ phase = "record" /\ UNCHANGED <<used, batch, answered>> /\ recorded' = recorded + 1
  /\ Rebuilt' = Rebuilt \o <<Item("call", batch[recorded + 1])>>
  /\ IF recorded + 1 = Len(batch) THEN phase' = "batch" /\ conv' = conv \o Calls("call", batch)
                                  ELSE phase' = "record" /\ conv' = conv

\* answered one by one in the log, in any order, and together in the conversation, in theirs;
Answer ==
  /\ phase = "batch" /\ phase' = "batch" /\ UNCHANGED <<conv, used, batch>>
  /\ \E c \in Unanswered : /\ answered' = answered \o <<c>>
                           /\ Rebuilt' = Rebuilt \o <<Item("result", c)>>

Collect ==
  /\ phase = "batch" /\ phase' = "prepare" /\ UNCHANGED <<used, batch, answered>>
  /\ Unanswered = {} /\ conv' = conv \o Calls("result", batch) /\ Rebuilt' = Rebuilt

\* or left alone by a cancellation.
Leave ==
  /\ phase = "batch" /\ phase' = "handle" /\ UNCHANGED <<conv, used, batch>>
  /\ Rebuilt' = Rebuilt

Stay == UNCHANGED <<phase, conv, used, batch, recorded, answered>> /\ Rebuilt' = Rebuilt

Moves ==
  \/ Rest \/ Halt \/ Begin \/ Say \/ Shorten \/ Ask \/ Record \/ Answer \/ Collect \/ Leave
  \/ Stay

\* Every step is one of them and leaves the log undamaged while a process runs.
LEMMA StepMoves ==
  ASSUME MaxFaults = 0, TypeInv, QuietInv, [Next]_vars
  PROVE  Moves /\ QuietInv'
<1> USE DEF Moves
<1>0. /\ disk \in Seq(Lines) /\ conv \in Seq(Items) /\ faults = 0 /\ orphans = {}
      /\ turns \in Nat /\ seq \in Nat /\ <<>> \in Seq(Items) /\ Rebuilt \in Seq(Items)
  BY ReplayType DEF TypeInv, FileType, ConvType, CountType, QuietInv, Rebuilt
<1>e. /\ 0 \in Nat
      /\ \A type \in {"turn_started", "turn_finished", "turn_aborted", "error"} :
           type \in EventTypes \ {"compacted"} /\ type \notin Roles
  BY DEF EventTypes, Roles
<1>1. CASE CreateThread
  <2>1. 1 \in Nat /\ 0 \in Nat /\ "session_started" \in EventTypes \ (Roles \cup {"compacted"})
    BY DEF EventTypes, Roles
  <2>2. disk = <<>> /\ conv = <<>> /\ Intact
    BY <1>1 DEF CreateThread, QuietInv, Intact
  <2>3. phase' = "idle" /\ faults' = 0 /\ Intact' /\ Rebuilt' = Rebuilt
    BY <1>0, <1>1, <2>1, <2>2, EmitAlone DEF CreateThread
  <2>4. Rebuilt = <<>>
    BY <2>2, ReplayNothing DEF Rebuilt
  <2>5. Begin
    BY <1>1, <2>2, <2>3, <2>4 DEF Begin, CreateThread, bounds
  <2>6. QuietInv'
    BY <1>0, <1>1, <2>3 DEF QuietInv, CreateThread
  <2> QED BY <2>5, <2>6
<1>2. CASE ResumeThread
  <2>1. LastSeq(disk) + 1 \in Nat /\ 0 \in Nat
    <3>1. disk # <<>>
      BY <1>2 DEF ResumeThread, Loads
    <3>2. disk[Len(disk)] \in Lines
      BY <1>0, <3>1
    <3>3. LastSeq(disk) \in Nat
      BY <3>2 DEF LastSeq, Last, Lines
    <3> QED BY <3>3
  <2>2. "session_restored" \in EventTypes \ (Roles \cup {"compacted"})
    BY DEF EventTypes, Roles
  <2>3. Intact
    BY <1>2 DEF ResumeThread, Loads, Intact
  <2>4. phase' = "idle" /\ faults' = 0 /\ Intact' /\ Rebuilt' = Rebuilt
    BY <1>0, <1>2, <2>1, <2>2, <2>3, EmitAlone DEF ResumeThread
  <2>5. Begin
    BY <1>2, <2>4 DEF Begin, ResumeThread, Rebuilt, bounds
  <2>6. QuietInv'
    BY <1>0, <1>2, <2>4 DEF QuietInv, ResumeThread
  <2> QED BY <2>5, <2>6
<1>3. CASE Crash
  <2>1. Up /\ Intact /\ (disk' = disk \/ disk' = AppendLine(Torn)) /\ Stop
    BY <1>3 DEF Crash, QuietInv
  <2>2. Rebuilt' = Rebuilt
    <3>1. Apply(Rebuilt, Torn) = Rebuilt
      BY DEF Apply, Torn, Line, Roles
    <3> QED BY <1>0, <2>1, <3>1, TornType, AppendReplays DEF Rebuilt
  <2>3. Halt
    BY <2>1, <2>2 DEF Halt, Stop
  <2>4. QuietInv'
    BY <1>0, <2>1 DEF QuietInv, Stop, Up
  <2> QED BY <2>3, <2>4
<1>4. CASE CloseThread
  <2>1. seq + 1 \in Nat /\ "session_closed" \in EventTypes
    BY <1>0 DEF EventTypes
  <2>2. PICK line \in Lines : line = Line("session_closed", seq + 1, 0, <<>>)
    BY <1>0, <2>1, LineType
  <2>3. Apply(Rebuilt, line) = Rebuilt
    BY <2>2 DEF Apply, Line, Roles
  <2>4. Rebuilt' = Rebuilt
    BY <1>0, <1>4, <2>2, <2>3, AppendReplays DEF CloseThread, Rebuilt, QuietInv, Up
  <2>5. Halt
    BY <1>4, <2>4 DEF Halt, Stop, CloseThread
  <2>6. QuietInv'
    BY <1>0, <1>4 DEF QuietInv, Stop, Up, CloseThread
  <2> QED BY <2>5, <2>6
<1>5. CASE StartTurn
  <2>1. phase' = "echo" /\ faults' = 0 /\ Intact' /\ Rebuilt' = Rebuilt
    BY <1>5, <1>e, EmitNextAlone DEF StartTurn, Up
  <2>2. Rest
    BY <1>5, <2>1 DEF Rest, StartTurn, Up, Working
  <2> QED BY <1>0, <1>5, <2>1, <2>2 DEF QuietInv, StartTurn
<1>6. CASE EmitUserMessage
  <2>1. /\ phase' = "prepare" /\ faults' = 0 /\ Intact'
        /\ Rebuilt' = Rebuilt \o <<Item("user", turns)>>
    BY <1>0, <1>6, EmitNextAlone DEF EmitUserMessage, EventTypes, Roles, Up
  <2>2. PICK item \in Items : item = Item("user", turns)
    BY <1>0 DEF Item, Items, Roles
  <2>3. conv' = Append(conv, item)
    BY <1>0, <1>6, <2>1, <2>2 DEF EmitUserMessage, AppendIfLogged
  <2>4. Append(conv, item) = conv \o <<item>>
    BY <1>0
  <2>5. item.role = "user"
    BY <2>2 DEF Item
  <2>6. Say
    BY <1>6, <2>1, <2>2, <2>3, <2>4, <2>5 DEF Say, EmitUserMessage, Up, bounds, Working
  <2> QED BY <1>0, <1>6, <2>1, <2>6 DEF QuietInv, EmitUserMessage
<1>7. CASE PrepareModelMessages
  <2>1. HasUser(conv) /\ phase = "prepare" /\ Intact /\ UNCHANGED <<orphans, used>>
    BY <1>7 DEF PrepareModelMessages, TypeInv, ConvType, InTurn, QuietInv, Up, bounds
  <2>2. CASE /\ conv' = Compact(conv)
             /\ EmitAs(seq + 1, "compacted", 0, Compact(conv), "request", "raise")
    <3>1. Compact(conv) \in Seq(Items)
      BY <1>0, <2>1, CompactIs
    <3>2. seq + 1 \in Nat /\ 0 \in Nat /\ "compacted" \in EventTypes
      BY <1>0 DEF EventTypes
    <3>3. phase' = "request" /\ faults' = 0 /\ Intact' /\ Rebuilt' = Compact(conv)
      BY <1>0, <2>1, <2>2, <3>1, <3>2, EmitAlone
    <3>4. Shorten
      BY <2>1, <2>2, <3>3 DEF Shorten
    <3> QED BY <1>0, <2>1, <3>3, <3>4 DEF QuietInv
  <2>3. CASE phase' \in {"request", "abort"} /\ UNCHANGED <<disk, conv, faults>>
    <3>1. Rest
      BY <2>1, <2>3 DEF Rest, Rebuilt, Up, Working
    <3> QED BY <1>0, <2>1, <2>3, <3>1 DEF QuietInv, Intact
  <2> QED BY <1>7, <2>2, <2>3 DEF PrepareModelMessages
<1>8. CASE ModelText
  <2>1. PICK next \in {"finish", "called"} : Emit("assistant", seq + 1, next, "raise")
    BY <1>8 DEF ModelText
  <2>2. seq + 1 \in Nat
    BY <1>0
  <2>3. /\ phase' = next /\ faults' = 0 /\ Intact'
        /\ Rebuilt' = Rebuilt \o <<Item("assistant", seq + 1)>>
    BY <1>8, <2>1, <2>2, EmitNextAlone DEF ModelText, EventTypes, Roles, Up
  <2>4. PICK item \in Items : item = Item("assistant", seq + 1)
    BY <2>2 DEF Item, Items, Roles
  <2>5. conv' = Append(conv, item)
    BY <1>0, <1>8, <2>3, <2>4 DEF ModelText, AppendIfLogged
  <2>6. Append(conv, item) = conv \o <<item>>
    BY <1>0
  <2>7. item.role = "assistant"
    BY <2>4 DEF Item
  <2>8. Say
    BY <1>8, <2>3, <2>4, <2>5, <2>6, <2>7 DEF Say, ModelText, Up, bounds, Working
  <2> QED BY <1>0, <1>8, <2>3, <2>8 DEF QuietInv, ModelText
<1>9. CASE ModelToolCalls
  <2>1. Ask
    <3>1. MaxBatch \in Nat
      BY HistoryAssumption
    <3>2. PICK n \in 1..MaxBatch : used' = used + n /\ NewBatch([k \in 1..n |-> used + k])
      BY <1>9 DEF ModelToolCalls
    <3>3. n \in Nat \ {0}
      BY <3>1
    <3> QED BY <1>9, <3>2, <3>3 DEF Ask, ModelToolCalls, NewBatch, Rebuilt
  <2> QED BY <1>0, <1>9, <2>1 DEF QuietInv, ModelToolCalls, Intact, Up
<1>10. CASE ModelFails
  <2>1. phase' \in {"abort", "raise"} /\ faults' = 0 /\ Intact' /\ Rebuilt' = Rebuilt
    <3>1. CASE Emit("error", 0, "abort", "raise")
      BY <1>10, <3>1, <1>e, EmitNextAlone DEF ModelFails, Up
    <3>2. CASE phase' \in {"raise", "abort"} /\ UNCHANGED <<disk, seq, faults>>
      BY <1>0, <1>10, <3>2 DEF ModelFails, QuietInv, Up, Intact, Rebuilt
    <3> QED BY <1>10, <3>1, <3>2 DEF ModelFails
  <2>2. Rest
    BY <1>10, <2>1 DEF Rest, ModelFails, Up, bounds, Working
  <2> QED BY <1>0, <1>10, <2>1, <2>2 DEF QuietInv, ModelFails
<1>11. CASE RecordToolCall
  <2>1. /\ recorded \in Nat /\ recorded + 1 <= Len(batch) /\ batch \in Seq(Nat)
    BY <1>11, BatchNumbers DEF RecordToolCall, TypeInv, BatchType
  <2>2. batch[recorded + 1] \in Nat
    BY <2>1
  <2>3. PICK ok : /\ ok = (IF recorded + 1 = Len(batch) THEN "batch" ELSE "record")
                  /\ Emit("call", batch[recorded + 1], ok, "raise")
    BY <1>11 DEF RecordToolCall
  <2>4. /\ phase' = ok /\ faults' = 0 /\ Intact'
        /\ Rebuilt' = Rebuilt \o <<Item("call", batch[recorded + 1])>>
    BY <1>11, <2>2, <2>3, EmitNextAlone DEF RecordToolCall, EventTypes, Roles, Up
  <2>5. Record
    BY <1>11, <2>3, <2>4 DEF Record, RecordToolCall, bounds
  <2> QED BY <1>0, <1>11, <2>3, <2>4, <2>5 DEF QuietInv, RecordToolCall
<1>12. CASE FinishCall
  <2>1. PICK c \in Unanswered :
          /\ Emit("result", c, "batch", "raise")
          /\ answered' = IF phase' = "batch" THEN Append(answered, c) ELSE answered
          /\ orphans' = IF phase' = "raise" /\ parallel THEN orphans \cup (Unanswered \ {c})
                                                        ELSE orphans
    BY <1>12 DEF FinishCall
  <2>2. batch \in Seq(Nat) /\ answered \in Seq(ToSet(batch)) /\ c \in ToSet(batch)
    BY BatchNumbers DEF TypeInv, BatchType, Unanswered
  <2>3. c \in Nat
    BY <2>2, Elements
  <2>4. /\ phase' = "batch" /\ faults' = 0 /\ Intact'
        /\ Rebuilt' = Rebuilt \o <<Item("result", c)>>
    BY <1>12, <2>1, <2>3, EmitNextAlone DEF FinishCall, EventTypes, Roles, Up
  <2>5. answered' = answered \o <<c>>
    BY <2>1, <2>2, <2>4
  <2>6. Answer
    BY <1>12, <2>4, <2>5 DEF Answer, FinishCall, bounds
  <2> QED BY <1>0, <2>1, <2>4, <2>6 DEF QuietInv
<1>13. CASE BatchDone
  <2>1. Collect
    BY <1>13 DEF Collect, BatchDone, ProviderOrder, Rebuilt, turnVars, bounds
  <2> QED BY <1>13, <2>1 DEF QuietInv, BatchDone, Intact, Up
<1>14. CASE OrphanFinishes
  BY <1>0, <1>14 DEF OrphanFinishes
<1>15. CASE CancelTurn
  <2>1. CASE phase = "batch"
    <3>1. Leave
      BY <1>15, <2>1 DEF Leave, CancelTurn, Rebuilt, turnVars, bounds
    <3> QED BY <1>15, <3>1 DEF QuietInv, CancelTurn, Intact, Up
  <2>2. CASE phase # "batch"
    <3>1. Rest
      BY <1>15, <2>2 DEF Rest, CancelTurn, Rebuilt, Up, bounds, Working
    <3> QED BY <1>15, <3>1 DEF QuietInv, CancelTurn, Intact, Up
  <2> QED BY <2>1, <2>2
<1>16. CASE FinishTurn
  <2>1. phase' = "idle" /\ faults' = 0 /\ Intact' /\ Rebuilt' = Rebuilt
    BY <1>16, <1>e, EmitNextAlone DEF FinishTurn, Up
  <2>2. Rest
    BY <1>16, <2>1 DEF Rest, FinishTurn, Up, bounds, Working
  <2> QED BY <1>0, <1>16, <2>1, <2>2 DEF QuietInv, FinishTurn
<1>17. CASE AbortTurn
  <2>1. phase' = "idle" /\ faults' = 0 /\ Intact' /\ Rebuilt' = Rebuilt
    BY <1>17, <1>e, EmitNextAlone DEF AbortTurn, Up
  <2>2. Rest
    BY <1>17, <2>1 DEF Rest, AbortTurn, Up, bounds, Working
  <2> QED BY <1>0, <1>17, <2>1, <2>2 DEF QuietInv, AbortTurn
<1>18. CASE AbortFromException
  <2>1. phase' = "handle" /\ faults' = 0 /\ Intact' /\ Rebuilt' = Rebuilt
    BY <1>18, <1>e, EmitNextAlone DEF AbortFromException, Up
  <2>2. Rest
    BY <1>18, <2>1 DEF Rest, AbortFromException, Up, bounds, Working
  <2> QED BY <1>0, <1>18, <2>1, <2>2 DEF QuietInv, AbortFromException
<1>19. CASE UNCHANGED vars
  BY <1>19 DEF vars, Stay, QuietInv, Rebuilt, Up, Intact
<1> QED
  BY <1>1, <1>2, <1>3, <1>4, <1>5, <1>6, <1>7, <1>8, <1>9, <1>10, <1>11, <1>12, <1>13, <1>14,
     <1>15, <1>16, <1>17, <1>18, <1>19 DEF Next

LEMMA QuietHolds == ASSUME MaxFaults = 0 PROVE Spec => []QuietInv
<1>1. Init => QuietInv
  BY DEF Init, QuietInv, Up
<1>2. TypeInv /\ QuietInv /\ [Next]_vars => QuietInv'
  BY StepMoves
<1> QED
  BY <1>1, <1>2, TypeInvHolds, PTL DEF Spec

-----------------------------------------------------------------------------
(* Calls and results *)

IsCall(item) == item.role \in {"call", "result"}

\* A call of the turn at the end of conversation c.
Open(c, id) ==
  \E j \in 1..Len(c) : c[j] = Item("call", id) /\ \A k \in j..Len(c) : c[k].role # "user"

\* Each result follows its call in the same turn and comes once.
ResultInTurn(c, i) ==
  /\ \E j \in 1..(i - 1) : c[j] = Item("call", c[i].id) /\ \A k \in j..i : c[k].role # "user"
  /\ \A j \in 1..(i - 1) : c[j] # c[i]

ResultsInTurn(c) == \A i \in 1..Len(c) : c[i].role = "result" => ResultInTurn(c, i)

NumberedTo(c, n) == \A i \in 1..Len(c) : IsCall(c[i]) => c[i].id <= n

LEMMA Concat ==
  ASSUME NEW c \in Seq(Items), NEW d \in Seq(Items)
  PROVE  /\ c \o d \in Seq(Items) /\ Len(c) \in Nat /\ Len(d) \in Nat
         /\ Len(c \o d) = Len(c) + Len(d)
         /\ \A i \in 1..Len(c) : (c \o d)[i] = c[i]
         /\ \A k \in 1..Len(d) : (c \o d)[Len(c) + k] = d[k]
         /\ \A i \in 1..Len(c \o d) :
              i \in 1..Len(c) \/ (i - Len(c) \in 1..Len(d) /\ (c \o d)[i] = d[i - Len(c)])
<1>1. c \o d \in Seq(Items) /\ Len(c) \in Nat /\ Len(d) \in Nat /\ Len(c \o d) = Len(c) + Len(d)
  OBVIOUS
<1>2. \A i \in 1..Len(c) : (c \o d)[i] = c[i]
  OBVIOUS
<1>3. \A k \in 1..Len(d) : (c \o d)[Len(c) + k] = d[k]
  <2>1. TAKE k \in 1..Len(d)
  <2>2. Len(c) + k \in 1..(Len(c) + Len(d)) /\ ~(Len(c) + k <= Len(c)) /\ (Len(c) + k) - Len(c) = k
    BY <1>1
  <2> QED BY <1>1, <2>2
<1>4. ASSUME NEW i \in 1..Len(c \o d), i \notin 1..Len(c)
      PROVE  i - Len(c) \in 1..Len(d) /\ (c \o d)[i] = d[i - Len(c)]
  <2>1. i - Len(c) \in 1..Len(d) /\ Len(c) + (i - Len(c)) = i
    BY <1>1, <1>4
  <2> QED BY <1>3, <2>1
<1> QED
  BY <1>1, <1>2, <1>3, <1>4

LEMMA Single ==
  ASSUME NEW item \in Items
  PROVE  /\ <<item>> \in Seq(Items) /\ Len(<<item>>) = 1
         /\ \A k \in 1..Len(<<item>>) : k = 1 /\ <<item>>[k] = item
<1>1. <<item>> \in Seq(Items) /\ Len(<<item>>) = 1 /\ <<item>>[1] = item
  OBVIOUS
<1>2. \A k \in 1..1 : k = 1
  OBVIOUS
<1> QED
  BY <1>1, <1>2

LEMMA Fields == \A role, id : Item(role, id).role = role /\ Item(role, id).id = id
  BY DEF Item

LEMMA ItemType ==
  ASSUME NEW role \in Roles, NEW id \in Nat
  PROVE  /\ Item(role, id) \in Items
         /\ Item(role, id).role = role /\ Item(role, id).id = id
  BY DEF Item, Items

\* Results are added for open calls that have none.
LEMMA GrowResults ==
  ASSUME NEW c \in Seq(Items), NEW d \in Seq(Items), ResultsInTurn(c),
         \A k \in 1..Len(d) : d[k].role = "result" =>
           /\ Open(c, d[k].id) /\ \A i \in 1..Len(c) : c[i] # d[k]
           /\ \A j \in 1..k : d[j].role # "user"
           /\ \A j \in 1..(k - 1) : d[j] # d[k]
  PROVE  ResultsInTurn(c \o d)
<1>1. PICK e : e = c \o d
  OBVIOUS
<1>2. PICK m \in Nat : m = Len(c)
  BY Concat
<1>3. /\ Len(d) \in Nat /\ Len(e) = m + Len(d)
      /\ \A i \in 1..m : e[i] = c[i]
      /\ \A k \in 1..Len(d) : e[m + k] = d[k]
      /\ \A i \in 1..Len(e) : i \in 1..m \/ (i - m \in 1..Len(d) /\ e[i] = d[i - m])
  BY <1>1, <1>2, Concat
<1>4. SUFFICES ASSUME NEW i \in 1..Len(e), e[i].role = "result"
               PROVE  ResultInTurn(e, i)
  BY <1>1 DEF ResultsInTurn
<1>5. CASE i \in 1..m
  <2>1. c[i].role = "result" /\ e[i] = c[i]
    BY <1>3, <1>4, <1>5
  <2>2. PICK j \in 1..(i - 1) : c[j] = Item("call", c[i].id) /\ \A k \in j..i : c[k].role # "user"
    BY <1>2, <1>5, <2>1 DEF ResultsInTurn, ResultInTurn
  <2>3. \A k \in j..i : k \in 1..m
    BY <1>5, <2>2
  <2>4. e[j] = Item("call", e[i].id) /\ \A k \in j..i : e[k].role # "user"
    BY <1>3, <1>5, <2>1, <2>2, <2>3
  <2>5. \A l \in 1..(i - 1) : e[l] # e[i]
    <3>1. \A l \in 1..(i - 1) : c[l] # c[i]
      BY <1>2, <1>5, <2>1 DEF ResultsInTurn, ResultInTurn
    <3> QED BY <1>2, <1>3, <1>5, <2>1, <3>1
  <2> QED BY <2>4, <2>5 DEF ResultInTurn
<1>6. CASE i \notin 1..m
  <2>1. PICK k \in 1..Len(d) : k = i - m /\ e[i] = d[k]
    BY <1>3, <1>6
  <2>2. /\ Open(c, d[k].id) /\ \A l \in 1..m : c[l] # d[k]
        /\ \A j \in 1..k : d[j].role # "user"
        /\ \A j \in 1..(k - 1) : d[j] # d[k]
    BY <1>2, <1>4, <2>1
  <2>3. PICK j \in 1..m : c[j] = Item("call", d[k].id) /\ \A l \in j..m : c[l].role # "user"
    BY <1>2, <2>2 DEF Open
  <2>4. j \in 1..(i - 1) /\ e[j] = Item("call", e[i].id)
    BY <1>2, <1>3, <2>1, <2>3
  <2>5. \A l \in j..i : e[l].role # "user"
    <3>1. TAKE l \in j..i
    <3>2. CASE l <= m
      <4>1. l \in j..m /\ l \in 1..m
        BY <1>2, <2>3, <3>2
      <4> QED BY <1>3, <2>3, <4>1
    <3>3. CASE ~(l <= m)
      <4>1. l - m \in 1..k /\ l \in 1..Len(e) /\ l \notin 1..m
        BY <1>2, <1>3, <2>1, <2>3, <3>3
      <4> QED BY <1>3, <2>2, <4>1
    <3> QED BY <3>2, <3>3
  <2>6. \A l \in 1..(i - 1) : e[l] # e[i]
    <3>1. TAKE l \in 1..(i - 1)
    <3>2. CASE l <= m
      <4>1. l \in 1..m
        BY <1>2, <3>2
      <4> QED BY <1>3, <2>1, <2>2, <4>1
    <3>3. CASE ~(l <= m)
      <4>1. l - m \in 1..(k - 1) /\ l \in 1..Len(e) /\ l \notin 1..m
        BY <1>2, <1>3, <2>1, <3>3
      <4> QED BY <1>3, <2>1, <2>2, <4>1
    <3> QED BY <3>2, <3>3
  <2> QED BY <2>4, <2>5, <2>6 DEF ResultInTurn
<1> QED
  BY <1>5, <1>6

LEMMA OpenStays ==
  ASSUME NEW c \in Seq(Items), NEW d \in Seq(Items), NEW id, Open(c, id),
         \A k \in 1..Len(d) : d[k].role # "user"
  PROVE  Open(c \o d, id)
<1>1. PICK e : e = c \o d
  OBVIOUS
<1>2. PICK m \in Nat : m = Len(c)
  BY Concat
<1>3. /\ Len(d) \in Nat /\ Len(e) = m + Len(d)
      /\ \A i \in 1..m : e[i] = c[i]
      /\ \A i \in 1..Len(e) : i \in 1..m \/ (i - m \in 1..Len(d) /\ e[i] = d[i - m])
  BY <1>1, <1>2, Concat
<1>4. PICK j \in 1..m : c[j] = Item("call", id) /\ \A k \in j..m : c[k].role # "user"
  BY <1>2 DEF Open
<1>5. j \in 1..Len(e) /\ e[j] = Item("call", id)
  BY <1>2, <1>3, <1>4
<1>6. ASSUME NEW k \in j..Len(e) PROVE e[k].role # "user"
  <2>1. k \in 1..Len(e)
    BY <1>2, <1>3, <1>4
  <2>2. CASE k \in 1..m
    BY <1>2, <1>3, <1>4, <2>2
  <2>3. CASE k \notin 1..m
    BY <1>3, <2>1, <2>3
  <2> QED BY <2>2, <2>3
<1> QED
  BY <1>1, <1>5, <1>6 DEF Open

LEMMA OpenNow ==
  ASSUME NEW c \in Seq(Items), NEW id \in Nat
  PROVE  Open(c \o <<Item("call", id)>>, id)
<1>1. PICK item \in Items : item = Item("call", id)
  BY DEF Item, Items, Roles
<1>2. PICK e : e = c \o <<item>>
  OBVIOUS
<1>3. /\ e \in Seq(Items) /\ Len(c) \in Nat /\ Len(e) = Len(c) + 1 /\ e[Len(c) + 1] = item
  BY <1>1, <1>2
<1>4. item.role # "user"
  BY <1>1 DEF Item
<1>5. Len(e) \in 1..Len(e) /\ e[Len(e)] = item /\ \A k \in Len(e)..Len(e) : e[k].role # "user"
  BY <1>3, <1>4
<1> QED
  BY <1>1, <1>2, <1>5 DEF Open

\* A compaction keeps whole turns.
LEMMA CompactResults ==
  ASSUME NEW c \in Seq(Items), HasUser(c), Len(disk) \in Nat, ResultsInTurn(c)
  PROVE  ResultsInTurn(Compact(c))
<1>1. PICK s \in 1..LastUser(c) :
        /\ s = CompactionStart(c) /\ c[s].role = "user"
        /\ Compact(c) \in Seq(Items) /\ Len(Compact(c)) = (Len(c) - s) + 2
        /\ Compact(c)[1] = Item("summary", Len(disk) + 1)
        /\ \A i \in 2..((Len(c) - s) + 2) : Compact(c)[i] = c[(i + s) - 2]
  BY CompactIs
<1>2. PICK e : e = Compact(c)
  OBVIOUS
<1>3. PICK n \in Nat : n = Len(c)
  OBVIOUS
<1>4. s \in 1..n
  BY <1>3, LastUserIs
<1>5. Len(e) = (n - s) + 2 /\ \A i \in 2..Len(e) : e[i] = c[(i + s) - 2] /\ (i + s) - 2 \in s..n
  BY <1>1, <1>2, <1>3, <1>4
<1>6. SUFFICES ASSUME NEW i \in 1..Len(e), e[i].role = "result"
               PROVE  ResultInTurn(e, i)
  BY <1>2 DEF ResultsInTurn
<1>7. i \in 2..Len(e)
  <2>1. i # 1
    BY <1>1, <1>2, <1>6 DEF Item
  <2> QED BY <2>1, <1>5
<1>8. PICK at \in s..n : at = (i + s) - 2 /\ e[i] = c[at]
  BY <1>5, <1>7
<1>9. PICK j \in 1..(at - 1) : c[j] = Item("call", c[at].id) /\ \A k \in j..at : c[k].role # "user"
  <2>1. at \in 1..Len(c) /\ c[at].role = "result"
    BY <1>3, <1>4, <1>6, <1>8
  <2> QED BY <2>1 DEF ResultsInTurn, ResultInTurn
<1>10. j > s
  <2>1. SUFFICES ASSUME j <= s PROVE FALSE
    BY <1>4, <1>9
  <2>2. s \in j..at
    BY <1>4, <1>8, <1>9, <2>1
  <2> QED BY <1>1, <1>9, <2>2
<1>11. PICK l \in 2..(i - 1) : l = (j - s) + 2
  BY <1>4, <1>7, <1>8, <1>9, <1>10
<1>12. l \in 2..Len(e) /\ (l + s) - 2 = j
  BY <1>4, <1>5, <1>7, <1>9, <1>11
<1>13. e[l] = Item("call", e[i].id) /\ l \in 1..(i - 1)
  BY <1>5, <1>8, <1>9, <1>11, <1>12
<1>14. \A k \in l..i : e[k].role # "user"
  <2>1. TAKE k \in l..i
  <2>2. k \in 2..Len(e) /\ (k + s) - 2 \in j..at
    BY <1>4, <1>5, <1>7, <1>8, <1>9, <1>11
  <2> QED BY <1>5, <1>9, <2>2
<1>15. \A k \in 1..(i - 1) : e[k] # e[i]
  <2>1. TAKE k \in 1..(i - 1)
  <2>2. CASE k = 1
    BY <1>1, <1>2, <1>6, <2>2 DEF Item
  <2>3. CASE k # 1
    <3>1. k \in 2..Len(e) /\ (k + s) - 2 \in 1..(at - 1)
      <4>1. k \in Nat /\ i \in Nat /\ s \in Nat /\ s >= 1 /\ Len(e) \in Nat /\ k >= 2 /\ k <= i - 1
        BY <1>4, <1>5, <1>7, <2>3
      <4>2. i <= Len(e) /\ at = (i + s) - 2
        BY <1>7, <1>8
      <4> QED BY <4>1, <4>2
    <3>2. at \in 1..Len(c) /\ c[at].role = "result"
      BY <1>3, <1>4, <1>6, <1>8
    <3>3. \A m \in 1..(at - 1) : c[m] # c[at]
      BY <3>2 DEF ResultsInTurn, ResultInTurn
    <3> QED BY <1>5, <1>8, <3>1, <3>3
  <2> QED BY <2>2, <2>3
<1> QED
  BY <1>13, <1>14, <1>15 DEF ResultInTurn

LEMMA CompactNumbers ==
  ASSUME NEW c \in Seq(Items), HasUser(c), Len(disk) \in Nat, NEW n, NumberedTo(c, n)
  PROVE  NumberedTo(Compact(c), n)
<1>1. PICK s \in 1..LastUser(c) :
        /\ Compact(c) \in Seq(Items) /\ Len(Compact(c)) = (Len(c) - s) + 2
        /\ Compact(c)[1] = Item("summary", Len(disk) + 1)
        /\ \A i \in 2..((Len(c) - s) + 2) : Compact(c)[i] = c[(i + s) - 2]
  BY CompactIs
<1>2. s \in 1..Len(c) /\ Len(c) \in Nat
  BY LastUserIs
<1>3. SUFFICES ASSUME NEW i \in 1..Len(Compact(c)), IsCall(Compact(c)[i])
               PROVE  Compact(c)[i].id <= n
  BY DEF NumberedTo
<1>4. i # 1
  BY <1>1, <1>3 DEF Item, IsCall
<1>5. i \in 2..((Len(c) - s) + 2) /\ (i + s) - 2 \in 1..Len(c)
  BY <1>1, <1>2, <1>3, <1>4
<1> QED
  BY <1>1, <1>3, <1>5 DEF NumberedTo

LEMMA GrowNumbers ==
  ASSUME NEW c \in Seq(Items), NEW d \in Seq(Items), NEW n \in Nat, NEW m \in Nat, n <= m,
         NumberedTo(c, n), \A k \in 1..Len(d) : IsCall(d[k]) => d[k].id <= m
  PROVE  NumberedTo(c \o d, m)
<1>1. PICK e : e = c \o d
  OBVIOUS
<1>2. \A i \in 1..Len(e) : \/ i \in 1..Len(c) /\ e[i] = c[i]
                           \/ \E k \in 1..Len(d) : e[i] = d[k]
  BY <1>1, Concat
<1>3. ASSUME NEW i \in 1..Len(e), IsCall(e[i]) PROVE e[i].id <= m
  <2>1. CASE i \in 1..Len(c) /\ e[i] = c[i]
    <3>1. c[i] \in Items /\ c[i].id <= n
      BY <1>3, <2>1 DEF NumberedTo
    <3> QED BY <2>1, <3>1 DEF Items
  <2>2. CASE \E k \in 1..Len(d) : e[i] = d[k]
    BY <1>3, <2>2
  <2> QED BY <1>2, <2>1, <2>2
<1> QED
  BY <1>1, <1>3 DEF NumberedTo

\* The calls of a batch have numbers of their own.
BatchInv ==
  phase \in Working =>
    /\ Len(batch) >= 1
    /\ \A k \in 1..Len(batch) : batch[k] <= used
    /\ \A k, l \in 1..Len(batch) : batch[k] = batch[l] => k = l

\* The rebuilt conversation: results follow their calls, and those of the batch are open there as
\* far as they are recorded; only calls that were answered have a result.
LogCalls ==
  /\ ResultsInTurn(Rebuilt) /\ NumberedTo(Rebuilt, used)
  /\ phase = "record" =>
       /\ \A k \in 1..recorded : Open(Rebuilt, batch[k])
       /\ \A i \in 1..Len(Rebuilt) :
            Rebuilt[i].role = "result" => Rebuilt[i].id \notin ToSet(batch)
  /\ phase = "batch" =>
       /\ \A k \in 1..Len(batch) : Open(Rebuilt, batch[k])
       /\ \A i \in 1..Len(Rebuilt) :
            Rebuilt[i].role = "result" /\ Rebuilt[i].id \in ToSet(batch) =>
              Rebuilt[i].id \in ToSet(answered)

\* Conversation c ends with the calls ids, which it holds nowhere else.
BatchAtEnd(c, ids) ==
  /\ Len(ids) <= Len(c)
  /\ \A k \in 1..Len(ids) : c[(Len(c) - Len(ids)) + k] = Item("call", ids[k])
  /\ \A i \in 1..(Len(c) - Len(ids)) : IsCall(c[i]) => c[i].id \notin ToSet(ids)

\* The live one: the batch comes into it as a whole, at its end.
LiveCalls ==
  /\ ResultsInTurn(conv) /\ NumberedTo(conv, used)
  /\ phase = "record" =>
       \A i \in 1..Len(conv) : IsCall(conv[i]) => conv[i].id \notin ToSet(batch)
  /\ phase = "batch" => BatchAtEnd(conv, batch)

CallInv == BatchInv /\ LogCalls /\ LiveCalls

LEMMA Typed ==
  ASSUME TypeInv
  PROVE  /\ conv \in Seq(Items) /\ Rebuilt \in Seq(Items) /\ batch \in Seq(Nat)
         /\ answered \in Seq(ToSet(batch)) /\ answered \in Seq(Nat)
         /\ used \in Nat /\ recorded \in Nat
         /\ Len(disk) \in Nat /\ Len(conv) \in Nat /\ Len(Rebuilt) \in Nat /\ Len(batch) \in Nat
         /\ Len(answered) \in Nat
<1>1. conv \in Seq(Items) /\ disk \in Seq(Lines) /\ recorded \in Nat /\ used \in Nat
  BY DEF TypeInv, FileType, ConvType, BatchType, CountType
<1>2. Rebuilt \in Seq(Items)
  BY <1>1, ReplayType DEF Rebuilt
<1>3. batch \in Seq(Nat) /\ answered \in Seq(ToSet(batch))
  BY BatchNumbers DEF TypeInv, BatchType
<1>4. answered \in Seq(Nat)
  <2>1. \A k \in 1..Len(answered) : answered[k] \in Nat
    <3>1. \A k \in 1..Len(answered) : answered[k] \in ToSet(batch)
      BY <1>3
    <3> QED BY <1>3, <3>1, Elements
  <2>2. answered = [k \in 1..Len(answered) |-> answered[k]] /\ Len(answered) \in Nat
    BY <1>3
  <2>3. [k \in 1..Len(answered) |-> answered[k]] \in Seq(Nat)
    BY <2>1, <2>2
  <2> QED BY <2>2, <2>3
<1> QED
  BY <1>1, <1>2, <1>3, <1>4

LEMMA BatchStep ==
  ASSUME TypeInv, BatchInv, Moves
  PROVE  BatchInv'
<1> USE DEF BatchInv, Working
<1>1. CASE Ask
  <2>1. PICK n \in Nat \ {0} : used' = used + n /\ batch' = [k \in 1..n |-> used + k]
    BY <1>1 DEF Ask
  <2>2. used \in Nat /\ Len(batch') = n
    BY <2>1, Typed
  <2>3. \A k \in 1..n : batch'[k] = used + k
    BY <2>1
  <2> QED BY <2>1, <2>2, <2>3
<1>2. CASE Record
  BY <1>2 DEF Record
<1>3. CASE Answer
  BY <1>3 DEF Answer
<1>4. CASE Stay
  BY <1>4 DEF Stay
<1>5. CASE Rest \/ Halt \/ Begin \/ Say \/ Shorten \/ Collect \/ Leave
  BY <1>5 DEF Rest, Halt, Begin, Say, Shorten, Collect, Leave
<1> QED
  BY <1>1, <1>2, <1>3, <1>4, <1>5 DEF Moves

\* A message changes nothing about the calls,
LEMMA SayKeeps ==
  ASSUME NEW c \in Seq(Items), NEW item \in Items, item.role \in {"user", "assistant"},
         NEW n \in Nat, ResultsInTurn(c), NumberedTo(c, n)
  PROVE  ResultsInTurn(c \o <<item>>) /\ NumberedTo(c \o <<item>>, n)
<1>1. PICK d \in Seq(Items) : d = <<item>> /\ \A k \in 1..Len(d) : k = 1 /\ d[k] = item
  BY Single
<1>2. \A k \in 1..Len(d) : d[k].role \notin {"call", "result"}
  BY <1>1
<1>3. ResultsInTurn(c \o d)
  BY <1>2, GrowResults
<1>4. NumberedTo(c \o d, n)
  <2>1. \A k \in 1..Len(d) : IsCall(d[k]) => d[k].id <= n
    BY <1>2 DEF IsCall
  <2>2. n <= n
    OBVIOUS
  <2> QED BY <2>1, <2>2, GrowNumbers
<1> QED
  BY <1>1, <1>3, <1>4

\* and new numbers are not those of earlier calls.
LEMMA AskKeeps ==
  ASSUME NEW c \in Seq(Items), NEW u \in Nat, NEW n \in Nat \ {0}, NumberedTo(c, u),
         NEW ids, ids = [k \in 1..n |-> u + k]
  PROVE  /\ NumberedTo(c, u + n)
         /\ \A i \in 1..Len(c) : IsCall(c[i]) => c[i].id \notin ToSet(ids)
<1>1. \A x \in ToSet(ids) : x > u
  <2>1. \A k \in 1..n : u + k > u
    OBVIOUS
  <2>2. ToSet(ids) = {u + k : k \in 1..n}
    BY DEF ToSet
  <2> QED BY <2>1, <2>2
<1>2. ASSUME NEW i \in 1..Len(c), IsCall(c[i])
      PROVE  c[i].id <= u + n /\ c[i].id \notin ToSet(ids)
  <2>1. c[i] \in Items /\ c[i].id <= u
    BY <1>2 DEF NumberedTo
  <2>2. PICK x \in Nat : x = c[i].id
    BY <2>1 DEF Items
  <2>3. x <= u + n /\ ~(x > u)
    BY <2>1, <2>2
  <2> QED BY <1>1, <2>2, <2>3
<1> QED
  BY <1>2 DEF NumberedTo

LEMMA LogCallsStep ==
  ASSUME TypeInv, CallInv, Moves
  PROVE  LogCalls'
<1>0. /\ conv \in Seq(Items) /\ Rebuilt \in Seq(Items) /\ batch \in Seq(Nat)
      /\ answered \in Seq(Nat) /\ used \in Nat /\ recorded \in Nat
      /\ Len(disk) \in Nat /\ Len(Rebuilt) \in Nat /\ Len(batch) \in Nat
  BY Typed
<1>a. LogCalls /\ LiveCalls /\ BatchInv
  BY DEF CallInv
<1>1. CASE Rest \/ Halt \/ Begin \/ Collect \/ Leave
  <2>1. Rebuilt' = Rebuilt /\ used' = used /\ phase' \notin Working
    BY <1>1 DEF Rest, Halt, Begin, Collect, Leave, Working
  <2> QED BY <1>a, <2>1 DEF LogCalls, Working
<1>2. CASE Say
  <2>1. PICK item \in Items :
          item.role \in {"user", "assistant"} /\ Rebuilt' = Rebuilt \o <<item>>
    BY <1>2 DEF Say
  <2>2. ResultsInTurn(Rebuilt \o <<item>>) /\ NumberedTo(Rebuilt \o <<item>>, used)
    BY <1>0, <1>a, <2>1, SayKeeps DEF LogCalls
  <2>3. used' = used /\ phase' \notin Working
    BY <1>2 DEF Say, Working
  <2> QED BY <2>1, <2>2, <2>3 DEF LogCalls, Working
<1>3. CASE Shorten
  <2>1. ResultsInTurn(Compact(conv)) /\ NumberedTo(Compact(conv), used)
    BY <1>0, <1>3, <1>a, CompactResults, CompactNumbers DEF Shorten, LiveCalls
  <2> QED BY <1>3, <2>1 DEF Shorten, LogCalls
<1>4. CASE Ask
  <2>1. PICK n \in Nat \ {0} : used' = used + n /\ batch' = [k \in 1..n |-> used + k]
    BY <1>4 DEF Ask
  <2>2. phase' = "record" /\ Rebuilt' = Rebuilt /\ recorded' = 0
    BY <1>4 DEF Ask
  <2>3. /\ NumberedTo(Rebuilt, used + n)
        /\ \A i \in 1..Len(Rebuilt) : IsCall(Rebuilt[i]) => Rebuilt[i].id \notin ToSet(batch')
    BY <1>0, <1>a, <2>1, AskKeeps DEF LogCalls
  <2> QED BY <1>a, <2>1, <2>2, <2>3 DEF LogCalls, IsCall
<1>5. CASE Record
  <2>1. recorded + 1 \in 1..Len(batch) /\ phase = "record"
    BY <1>5 DEF Record, TypeInv, BatchType
  <2>2. PICK id \in Nat : id = batch[recorded + 1]
    BY <1>0, <2>1
  <2>3. PICK d \in Seq(Items) : /\ d = <<Item("call", id)>>
                               /\ \A k \in 1..Len(d) : k = 1 /\ d[k] = Item("call", id)
    <3>1. "call" \in Roles
      BY DEF Roles
    <3>2. PICK item \in Items : item = Item("call", id)
      BY <2>2, <3>1, ItemType
    <3> QED BY <3>2, Single
  <2>4. Rebuilt' = Rebuilt \o d /\ used' = used /\ batch' = batch /\ recorded' = recorded + 1
    BY <1>5, <2>2, <2>3 DEF Record
  <2>5. \A k \in 1..Len(d) : d[k].role = "call" /\ d[k].id = id
    BY <2>3 DEF Item
  <2>6. id <= used
    BY <1>a, <2>1, <2>2 DEF BatchInv, Working
  <2>7. ResultsInTurn(Rebuilt \o d) /\ NumberedTo(Rebuilt \o d, used)
    <3>1. ResultsInTurn(Rebuilt \o d)
      BY <1>0, <1>a, <2>5, GrowResults DEF LogCalls
    <3>2. NumberedTo(Rebuilt \o d, used)
      <4>1. \A k \in 1..Len(d) : IsCall(d[k]) => d[k].id <= used
        BY <2>5, <2>6
      <4>2. used <= used
        BY <1>0
      <4> QED BY <1>0, <1>a, <2>3, <4>1, <4>2, GrowNumbers DEF LogCalls
    <3> QED BY <3>1, <3>2
  <2>8. \A k \in 1..(recorded + 1) : Open(Rebuilt \o d, batch[k])
    <3>1. Open(Rebuilt \o d, id)
      BY <1>0, <2>2, <2>3, OpenNow
    <3>2. \A k \in 1..recorded : Open(Rebuilt \o d, batch[k])
      <4>1. \A k \in 1..Len(d) : d[k].role # "user"
        BY <2>5
      <4>2. \A k \in 1..recorded : Open(Rebuilt, batch[k])
        BY <1>a, <2>1 DEF LogCalls
      <4> QED BY <1>0, <4>1, <4>2, OpenStays
    <3>3. \A k \in 1..(recorded + 1) : k \in 1..recorded \/ k = recorded + 1
      BY <1>0
    <3> QED BY <2>2, <3>1, <3>2, <3>3
  <2>9. PICK e : e = Rebuilt \o d
    OBVIOUS
  <2>10. \A i \in 1..Len(e) : e[i].role = "result" => e[i].id \notin ToSet(batch)
    <3>1. \A i \in 1..Len(e) : \/ i \in 1..Len(Rebuilt) /\ e[i] = Rebuilt[i]
                               \/ \E k \in 1..Len(d) : e[i] = d[k]
      BY <1>0, <2>9, Concat
    <3> QED BY <1>a, <2>1, <2>5, <3>1 DEF LogCalls
  <2>11. CASE phase' = "record"
    BY <2>4, <2>7, <2>8, <2>9, <2>10, <2>11 DEF LogCalls
  <2>12. CASE phase' = "batch" /\ recorded + 1 = Len(batch)
    BY <2>4, <2>7, <2>8, <2>9, <2>10, <2>12 DEF LogCalls
  <2> QED BY <1>5, <2>11, <2>12 DEF Record
<1>6. CASE Answer
  <2>1. PICK c \in Unanswered : /\ answered' = answered \o <<c>>
                                /\ Rebuilt' = Rebuilt \o <<Item("result", c)>>
    BY <1>6 DEF Answer
  <2>2. phase = "batch" /\ phase' = "batch" /\ used' = used /\ batch' = batch
    BY <1>6 DEF Answer
  <2>3. c \in ToSet(batch) /\ c \notin ToSet(answered)
    BY <2>1 DEF Unanswered
  <2>4. PICK at \in 1..Len(batch) : c = batch[at]
    BY <1>0, <2>3, Elements
  <2>5. c \in Nat /\ c <= used
    BY <1>0, <1>a, <2>2, <2>4 DEF BatchInv, Working
  <2>6. PICK d \in Seq(Items) : /\ d = <<Item("result", c)>> /\ Len(d) = 1
                               /\ \A k \in 1..Len(d) : k = 1 /\ d[k] = Item("result", c)
    <3>1. "result" \in Roles
      BY DEF Roles
    <3>2. PICK item \in Items : item = Item("result", c)
      BY <2>5, <3>1, ItemType
    <3> QED BY <3>2, Single
  <2>7. \A k \in 1..Len(d) : k = 1 /\ d[k].role = "result" /\ d[k].id = c
    BY <2>6 DEF Item
  <2>8. \A i \in 1..Len(Rebuilt) : Rebuilt[i] # d[1]
    BY <1>a, <2>2, <2>3, <2>6, <2>7 DEF LogCalls
  <2>9. \A k \in 1..Len(batch) : Open(Rebuilt, batch[k])
    BY <1>a, <2>2 DEF LogCalls
  <2>10. ResultsInTurn(Rebuilt \o d)
    <3>1. \A k \in 1..Len(d) : /\ Open(Rebuilt, d[k].id)
                               /\ \A i \in 1..Len(Rebuilt) : Rebuilt[i] # d[k]
                               /\ \A j \in 1..k : d[j].role # "user"
                               /\ \A j \in 1..(k - 1) : d[j] # d[k]
      BY <2>4, <2>7, <2>8, <2>9
    <3> QED BY <1>0, <1>a, <3>1, GrowResults DEF LogCalls
  <2>11. NumberedTo(Rebuilt \o d, used)
    <3>1. \A k \in 1..Len(d) : IsCall(d[k]) => d[k].id <= used
      BY <2>5, <2>7
    <3>2. used <= used
      BY <1>0
    <3> QED BY <1>0, <1>a, <2>6, <3>1, <3>2, GrowNumbers DEF LogCalls
  <2>12. \A k \in 1..Len(batch) : Open(Rebuilt \o d, batch[k])
    <3>1. \A k \in 1..Len(d) : d[k].role # "user"
      BY <2>7
    <3> QED BY <1>0, <2>9, <3>1, OpenStays
  <2>13. PICK e : e = Rebuilt \o d
    OBVIOUS
  <2>14. \A x : x \in ToSet(answered') <=> x \in ToSet(answered) \/ x = c
    <3>1. PICK more : more = answered \o <<c>>
      OBVIOUS
    <3>2. more \in Seq(Nat)
      BY <1>0, <2>5, <3>1
    <3>3. /\ Len(more) = Len(answered) + 1 /\ more[Len(answered) + 1] = c /\ Len(answered) \in Nat
          /\ \A i \in 1..Len(answered) : more[i] = answered[i]
      BY <1>0, <2>5, <3>1
    <3>4. \A x : x \in ToSet(more) <=> \E i \in 1..Len(more) : more[i] = x
      BY <3>2, Elements
    <3>5. \A x : x \in ToSet(answered) <=> \E i \in 1..Len(answered) : answered[i] = x
      BY <1>0, Elements
    <3>6. \A i \in 1..Len(more) : i \in 1..Len(answered) \/ i = Len(answered) + 1
      BY <3>3
    <3>7. Len(answered) + 1 \in 1..Len(more) /\ \A i \in 1..Len(answered) : i \in 1..Len(more)
      BY <3>3
    <3> QED BY <2>1, <3>1, <3>3, <3>4, <3>5, <3>6, <3>7
  <2>15. \A i \in 1..Len(e) : e[i].role = "result" /\ e[i].id \in ToSet(batch) =>
                                e[i].id \in ToSet(answered')
    <3>1. \A i \in 1..Len(e) : \/ i \in 1..Len(Rebuilt) /\ e[i] = Rebuilt[i]
                               \/ \E k \in 1..Len(d) : e[i] = d[k]
      BY <1>0, <2>6, <2>13, Concat
    <3>2. ASSUME NEW i \in 1..Len(e), e[i].role = "result", e[i].id \in ToSet(batch)
          PROVE  e[i].id \in ToSet(answered')
      <4>1. CASE i \in 1..Len(Rebuilt) /\ e[i] = Rebuilt[i]
        BY <1>a, <2>2, <2>14, <3>2, <4>1 DEF LogCalls
      <4>2. CASE \E k \in 1..Len(d) : e[i] = d[k]
        BY <2>7, <2>14, <4>2
      <4> QED BY <3>1, <4>1, <4>2
    <3> QED BY <3>2
  <2> QED BY <2>1, <2>2, <2>6, <2>10, <2>11, <2>12, <2>13, <2>15 DEF LogCalls
<1>7. CASE Stay
  BY <1>7, <1>a DEF Stay, LogCalls
<1> QED
  BY <1>1, <1>2, <1>3, <1>4, <1>5, <1>6, <1>7 DEF Moves

\* The calls at the end of a conversation are open,
LEMMA BatchOpen ==
  ASSUME NEW c \in Seq(Items), NEW ids \in Seq(Nat), BatchAtEnd(c, ids)
  PROVE  /\ \A k \in 1..Len(ids) : Open(c, ids[k])
         /\ \A i \in 1..Len(c) : c[i].role = "result" => c[i].id \notin ToSet(ids)
<1>1. PICK n \in Nat : n = Len(ids)
  OBVIOUS
<1>2. PICK m \in Nat : m = Len(c) - n
  <2>1. Len(c) \in Nat /\ n <= Len(c)
    BY <1>1 DEF BatchAtEnd
  <2> QED BY <2>1
<1>3. /\ Len(c) = m + n
      /\ \A k \in 1..n : c[m + k] = Item("call", ids[k])
      /\ \A i \in 1..m : IsCall(c[i]) => c[i].id \notin ToSet(ids)
  BY <1>1, <1>2 DEF BatchAtEnd
<1>4. \A l \in 1..Len(c) : l \in 1..m \/ (l - m \in 1..n /\ m + (l - m) = l)
  BY <1>3
<1>5. \A l \in 1..Len(c) : l \notin 1..m => c[l].role = "call"
  <2>1. \A k \in 1..n : c[m + k].role = "call"
    BY <1>3, Fields
  <2> QED BY <1>4, <2>1
<1>6. ASSUME NEW k \in 1..n PROVE Open(c, ids[k])
  <2>1. m + k \in 1..Len(c)
    BY <1>3
  <2>2. \A l \in (m + k)..Len(c) : l \in 1..Len(c) /\ l \notin 1..m
    BY <1>3
  <2>3. PICK j \in 1..Len(c) : j = m + k
    BY <2>1
  <2>4. c[j] = Item("call", ids[k]) /\ \A l \in j..Len(c) : c[l].role # "user"
    BY <1>3, <1>5, <2>2, <2>3
  <2> QED BY <2>4 DEF Open
<1>7. \A i \in 1..Len(c) : c[i].role = "result" => c[i].id \notin ToSet(ids)
  BY <1>3, <1>5 DEF IsCall
<1> QED
  BY <1>1, <1>6, <1>7

\* and get there together.
LEMMA BatchJoins ==
  ASSUME NEW c \in Seq(Items), NEW ids \in Seq(Nat),
         \A i \in 1..Len(c) : IsCall(c[i]) => c[i].id \notin ToSet(ids)
  PROVE  BatchAtEnd(c \o Calls("call", ids), ids)
<1>1. PICK d \in Seq(Items) : /\ d = Calls("call", ids) /\ Len(d) = Len(ids)
                             /\ \A k \in 1..Len(ids) : d[k] = Item("call", ids[k])
  <2>1. "call" \in Roles
    BY DEF Roles
  <2> QED BY <2>1, CallsType
<1>2. PICK e : e = c \o d
  OBVIOUS
<1>3. PICK m \in Nat : m = Len(c)
  OBVIOUS
<1>4. PICK n \in Nat : n = Len(ids)
  OBVIOUS
<1>5. /\ Len(e) = m + n /\ \A i \in 1..m : e[i] = c[i]
      /\ \A k \in 1..n : e[m + k] = d[k]
  <2>1. /\ Len(e) = Len(c) + Len(d) /\ \A i \in 1..Len(c) : e[i] = c[i]
        /\ \A k \in 1..Len(d) : e[Len(c) + k] = d[k]
    BY <1>2, Concat
  <2> QED BY <1>1, <1>3, <1>4, <2>1
<1>6. Len(e) - n = m /\ n <= Len(e)
  BY <1>5
<1> QED
  BY <1>1, <1>2, <1>3, <1>4, <1>5, <1>6 DEF BatchAtEnd

LEMMA LiveCallsStep ==
  ASSUME TypeInv, CallInv, Moves
  PROVE  LiveCalls'
<1>0. /\ conv \in Seq(Items) /\ Rebuilt \in Seq(Items) /\ batch \in Seq(Nat)
      /\ used \in Nat /\ recorded \in Nat /\ Len(disk) \in Nat /\ Len(batch) \in Nat
  BY Typed
<1>a. LogCalls /\ LiveCalls /\ BatchInv
  BY DEF CallInv
<1>1. CASE Rest \/ Leave
  <2>1. conv' = conv /\ used' = used /\ phase' \notin Working
    BY <1>1 DEF Rest, Leave, Working
  <2> QED BY <1>a, <2>1 DEF LiveCalls, Working
<1>2. CASE Answer \/ Stay
  <2>1. UNCHANGED <<phase, conv, used, batch>>
    BY <1>2 DEF Answer, Stay
  <2> QED BY <1>a, <2>1 DEF LiveCalls
<1>3. CASE Halt
  <2>1. conv' = <<>> /\ phase' \notin Working
    BY <1>3 DEF Halt, Working
  <2> QED BY <2>1 DEF LiveCalls, Working, ResultsInTurn, NumberedTo
<1>4. CASE Begin
  <2>1. conv' = Rebuilt /\ used' = used /\ phase' \notin Working
    BY <1>4 DEF Begin, Working
  <2> QED BY <1>a, <2>1 DEF LogCalls, LiveCalls, Working
<1>5. CASE Say
  <2>1. PICK item \in Items : item.role \in {"user", "assistant"} /\ conv' = conv \o <<item>>
    BY <1>5 DEF Say
  <2>2. ResultsInTurn(conv \o <<item>>) /\ NumberedTo(conv \o <<item>>, used)
    BY <1>0, <1>a, <2>1, SayKeeps DEF LiveCalls
  <2>3. used' = used /\ phase' \notin Working
    BY <1>5 DEF Say, Working
  <2> QED BY <2>1, <2>2, <2>3 DEF LiveCalls, Working
<1>6. CASE Shorten
  <2>1. ResultsInTurn(Compact(conv)) /\ NumberedTo(Compact(conv), used)
    BY <1>0, <1>6, <1>a, CompactResults, CompactNumbers DEF Shorten, LiveCalls
  <2> QED BY <1>6, <2>1 DEF Shorten, LiveCalls
<1>7. CASE Ask
  <2>1. PICK n \in Nat \ {0} : used' = used + n /\ batch' = [k \in 1..n |-> used + k]
    BY <1>7 DEF Ask
  <2>2. phase' = "record" /\ conv' = conv
    BY <1>7 DEF Ask
  <2>3. /\ NumberedTo(conv, used + n)
        /\ \A i \in 1..Len(conv) : IsCall(conv[i]) => conv[i].id \notin ToSet(batch')
    BY <1>0, <1>a, <2>1, AskKeeps DEF LiveCalls
  <2> QED BY <1>a, <2>1, <2>2, <2>3 DEF LiveCalls
<1>8. CASE Record /\ phase' = "record"
  <2>1. UNCHANGED <<phase, conv, used, batch>>
    BY <1>8 DEF Record
  <2> QED BY <1>a, <2>1 DEF LiveCalls
<1>9. CASE Record /\ phase' = "batch"
  <2>1. conv' = conv \o Calls("call", batch) /\ used' = used /\ batch' = batch /\ phase = "record"
    BY <1>9 DEF Record
  <2>2. PICK d \in Seq(Items) : /\ d = Calls("call", batch) /\ Len(d) = Len(batch)
                               /\ \A k \in 1..Len(batch) : d[k] = Item("call", batch[k])
    <3>1. "call" \in Roles
      BY DEF Roles
    <3> QED BY <1>0, <3>1, CallsType
  <2>3. \A k \in 1..Len(d) : d[k].role = "call" /\ d[k].id = batch[k]
    BY <2>2, Fields
  <2>4. \A k \in 1..Len(d) : d[k].id <= used
    BY <1>a, <2>1, <2>2, <2>3 DEF BatchInv, Working
  <2>5. ResultsInTurn(conv \o d)
    BY <1>0, <1>a, <2>3, GrowResults DEF LiveCalls
  <2>6. NumberedTo(conv \o d, used)
    <3>1. \A k \in 1..Len(d) : IsCall(d[k]) => d[k].id <= used
      BY <2>4
    <3>2. used <= used
      BY <1>0
    <3> QED BY <1>0, <1>a, <3>1, <3>2, GrowNumbers DEF LiveCalls
  <2>7. BatchAtEnd(conv \o d, batch)
    <3>1. \A i \in 1..Len(conv) : IsCall(conv[i]) => conv[i].id \notin ToSet(batch)
      BY <1>a, <2>1 DEF LiveCalls
    <3> QED BY <1>0, <2>2, <3>1, BatchJoins
  <2> QED BY <1>9, <2>1, <2>2, <2>5, <2>6, <2>7 DEF LiveCalls
<1>10. CASE Collect
  <2>1. /\ phase = "batch" /\ phase' \notin Working /\ used' = used
        /\ conv' = conv \o Calls("result", batch)
    BY <1>10 DEF Collect, Working
  <2>2. PICK d \in Seq(Items) : /\ d = Calls("result", batch) /\ Len(d) = Len(batch)
                               /\ \A k \in 1..Len(batch) : d[k] = Item("result", batch[k])
    <3>1. "result" \in Roles
      BY DEF Roles
    <3> QED BY <1>0, <3>1, CallsType
  <2>3. \A k \in 1..Len(d) : d[k].role = "result" /\ d[k].id = batch[k]
    BY <2>2, Fields
  <2>4. \A k \in 1..Len(d) : d[k].id <= used /\ batch[k] \in ToSet(batch)
    BY <1>0, <1>a, <2>1, <2>2, <2>3, Elements DEF BatchInv, Working
  <2>5. /\ \A k \in 1..Len(batch) : Open(conv, batch[k])
        /\ \A i \in 1..Len(conv) : conv[i].role = "result" => conv[i].id \notin ToSet(batch)
    BY <1>0, <1>a, <2>1, BatchOpen DEF LiveCalls
  <2>6. ResultsInTurn(conv \o d)
    <3>1. ASSUME NEW k \in 1..Len(d)
          PROVE  /\ Open(conv, d[k].id) /\ \A i \in 1..Len(conv) : conv[i] # d[k]
                 /\ \A j \in 1..k : d[j].role # "user"
                 /\ \A j \in 1..(k - 1) : d[j] # d[k]
      <4>1. \A j \in 1..k : j \in 1..Len(d) /\ j \in 1..Len(batch)
        BY <2>2
      <4>2. Open(conv, d[k].id) /\ \A i \in 1..Len(conv) : conv[i] # d[k]
        BY <2>2, <2>3, <2>4, <2>5
      <4>3. \A j \in 1..(k - 1) : d[j] # d[k]
        <5>1. TAKE j \in 1..(k - 1)
        <5>2. j \in 1..Len(batch) /\ k \in 1..Len(batch) /\ j # k
          BY <2>2
        <5>3. batch[j] # batch[k]
          BY <1>a, <2>1, <5>2 DEF BatchInv, Working
        <5> QED BY <2>2, <2>3, <5>2, <5>3
      <4> QED BY <2>3, <4>1, <4>2, <4>3
    <3> QED BY <1>0, <1>a, <3>1, GrowResults DEF LiveCalls
  <2>7. NumberedTo(conv \o d, used)
    <3>1. \A k \in 1..Len(d) : IsCall(d[k]) => d[k].id <= used
      BY <2>4
    <3>2. used <= used
      BY <1>0
    <3> QED BY <1>0, <1>a, <3>1, <3>2, GrowNumbers DEF LiveCalls
  <2> QED BY <2>1, <2>2, <2>6, <2>7 DEF LiveCalls, Working
<1>11. Record => phase' = "record" \/ phase' = "batch"
  BY DEF Record
<1> QED
  BY <1>1, <1>2, <1>3, <1>4, <1>5, <1>6, <1>7, <1>8, <1>9, <1>10, <1>11 DEF Moves

LEMMA CallInvHolds == ASSUME MaxFaults = 0 PROVE Spec => []CallInv
<1>1. Init => CallInv
  <2>1. SUFFICES ASSUME Init PROVE CallInv
    OBVIOUS
  <2>2. conv = <<>> /\ Rebuilt = <<>> /\ phase \notin Working /\ phase # "record" /\ phase # "batch"
    BY <2>1, ReplayNothing DEF Init, Rebuilt, Working
  <2>3. ResultsInTurn(<<>>) /\ NumberedTo(<<>>, used)
    BY DEF ResultsInTurn, NumberedTo
  <2> QED BY <2>2, <2>3 DEF CallInv, BatchInv, LogCalls, LiveCalls
<1>2. TypeInv /\ QuietInv /\ CallInv /\ [Next]_vars => CallInv'
  <2>1. SUFFICES ASSUME TypeInv, QuietInv, CallInv, [Next]_vars PROVE CallInv'
    OBVIOUS
  <2>2. Moves /\ BatchInv
    BY <2>1, StepMoves DEF CallInv
  <2> QED BY <2>1, <2>2, BatchStep, LogCallsStep, LiveCallsStep DEF CallInv
<1> QED
  BY <1>1, <1>2, TypeInvHolds, QuietHolds, PTL DEF Spec

\* In both conversations, at every moment.
LEMMA ResultsFollow == ASSUME CallInv PROVE ResultsFollowCalls
<1>1. \A c : ResultsInTurn(c) =>
        \A i \in 1..Len(c) : c[i].role = "result" =>
          /\ \E j \in 1..(i - 1) : c[j] = Item("call", c[i].id)
          /\ \A j \in 1..(i - 1) : c[j] # c[i]
  BY DEF ResultsInTurn, ResultInTurn
<1>2. ResultsInTurn(conv) /\ ResultsInTurn(Rebuilt)
  BY DEF CallInv, LiveCalls, LogCalls
<1> QED
  BY <1>1, <1>2 DEF ResultsFollowCalls, Rebuilt

-----------------------------------------------------------------------------
(* The turn that is sent to the model *)

\* TurnAnswered for the items of conversation c from u on.
AnsweredFrom(c, u, open) ==
  /\ \A i \in u..Len(c) : c[i].role = "call" =>
       c[i].id \in open \/ \E j \in u..Len(c) : c[j].role = "result" /\ c[j].id = c[i].id
  /\ \A j \in u..Len(c) : c[j].role = "result" =>
       \E i \in u..Len(c) : c[i].role = "call" /\ c[j].id = c[i].id /\ i < j
  /\ \A i, k, j, l \in u..Len(c) :
       /\ c[i].role = "call" /\ c[k].role = "call" /\ c[j].role = "result" /\ c[l].role = "result"
       /\ c[j].id = c[i].id /\ c[l].id = c[k].id
       => (i < k <=> j < l)

LEMMA TurnIs ==
  ASSUME NEW c, Len(c) \in Nat, NEW open
  PROVE  TurnAnswered(c, open) <=> HasUser(c) /\ AnsweredFrom(c, LastUser(c), open)
<1>1. LastUser(c) # 0 <=> HasUser(c)
  BY LastUserIs
<1> QED
  BY <1>1 DEF TurnAnswered, AnsweredFrom

LEMMA LastUserStays ==
  ASSUME NEW c \in Seq(Items), NEW d \in Seq(Items), HasUser(c),
         \A k \in 1..Len(d) : d[k].role # "user"
  PROVE  HasUser(c \o d) /\ LastUser(c \o d) = LastUser(c)
<1>1. PICK e : e = c \o d
  OBVIOUS
<1>2. PICK u \in 1..Len(c) :
        u = LastUser(c) /\ c[u].role = "user" /\ \A i \in 1..Len(c) : c[i].role = "user" => i <= u
  BY LastUserIs
<1>3. /\ Len(e) = Len(c) + Len(d) /\ Len(c) \in Nat /\ Len(d) \in Nat
      /\ \A i \in 1..Len(c) : e[i] = c[i]
      /\ \A i \in 1..Len(e) : \/ i \in 1..Len(c) /\ e[i] = c[i]
                              \/ \E k \in 1..Len(d) : e[i] = d[k]
  BY <1>1, Concat
<1>4. u \in 1..Len(e) /\ e[u].role = "user"
  BY <1>2, <1>3
<1>5. \A i \in 1..Len(e) : e[i].role = "user" => i <= u
  BY <1>2, <1>3
<1>6. Len(e) \in Nat
  BY <1>3
<1> QED
  BY <1>1, <1>2, <1>4, <1>5, <1>6, SameLastUser

\* A new message of the user begins a turn without calls.
LEMMA TurnBegins ==
  ASSUME NEW c \in Seq(Items), NEW item \in Items, item.role = "user", NEW open
  PROVE  TurnAnswered(c \o <<item>>, open)
<1>1. PICK e : e = c \o <<item>>
  OBVIOUS
<1>2. PICK n \in Nat : n = Len(e) /\ n \in 1..n /\ e[n] = item
  BY <1>1
<1>3. \A i \in n..n : i = n /\ e[i].role = "user"
  BY <1>2
<1>4. \A i \in 1..Len(e) : e[i].role = "user" => i <= n
  BY <1>2
<1>5. HasUser(e) /\ LastUser(e) = n
  BY <1>2, <1>3, <1>4, SameLastUser
<1>6. AnsweredFrom(e, n, open)
  BY <1>2, <1>3 DEF AnsweredFrom
<1> QED
  BY <1>1, <1>2, <1>5, <1>6, TurnIs

\* A text, or calls that are new, leave the rest of the turn answered.
LEMMA TurnGrows ==
  ASSUME NEW c \in Seq(Items), NEW d \in Seq(Items), NEW open, TurnAnswered(c, {}),
         \A k \in 1..Len(d) : d[k].role \notin {"user", "result"},
         \A k \in 1..Len(d) : d[k].role = "call" =>
           d[k].id \in open /\ \A i \in 1..Len(c) : IsCall(c[i]) => c[i].id # d[k].id
  PROVE  TurnAnswered(c \o d, open)
<1>1. PICK e : e = c \o d
  OBVIOUS
<1>2. HasUser(c) /\ AnsweredFrom(c, LastUser(c), {})
  BY TurnIs
<1>3. PICK u \in 1..Len(c) : u = LastUser(c)
  BY <1>2, LastUserIs
<1>4. /\ e \in Seq(Items) /\ Len(e) = Len(c) + Len(d) /\ Len(c) \in Nat /\ Len(d) \in Nat
      /\ \A i \in 1..Len(c) : e[i] = c[i]
      /\ \A i \in 1..Len(e) : \/ i \in 1..Len(c) /\ e[i] = c[i]
                              \/ \E k \in 1..Len(d) : e[i] = d[k]
  BY <1>1, Concat
<1>5. HasUser(e) /\ LastUser(e) = u
  BY <1>1, <1>2, <1>3, LastUserStays
<1>6. \A i \in u..Len(e) : /\ i \in 1..Len(e)
                           /\ i \in 1..Len(c) => i \in u..Len(c) /\ e[i] = c[i]
  BY <1>3, <1>4
<1>7. \A i \in u..Len(c) : i \in u..Len(e) /\ e[i] = c[i]
  BY <1>3, <1>4
<1>8. ASSUME NEW j \in u..Len(e), e[j].role = "result"
      PROVE  j \in u..Len(c) /\ e[j] = c[j]
  BY <1>4, <1>6, <1>8
<1>9. ASSUME NEW i \in u..Len(e), e[i].role = "call",
             NEW j \in u..Len(e), e[j].role = "result", e[j].id = e[i].id
      PROVE  i \in u..Len(c) /\ e[i] = c[i]
  <2>1. SUFFICES ASSUME NEW k \in 1..Len(d), e[i] = d[k] PROVE FALSE
    BY <1>4, <1>6
  <2>2. j \in 1..Len(c) /\ IsCall(c[j]) /\ c[j].id = d[k].id
    BY <1>3, <1>6, <1>8, <1>9, <2>1 DEF IsCall
  <2> QED BY <1>9, <2>1, <2>2
<1>10. ASSUME NEW i \in u..Len(e), e[i].role = "call"
       PROVE  e[i].id \in open \/ \E j \in u..Len(e) : e[j].role = "result" /\ e[j].id = e[i].id
  <2>1. CASE i \in 1..Len(c)
    <3>1. i \in u..Len(c) /\ e[i] = c[i]
      BY <1>6, <2>1
    <3>2. PICK j \in u..Len(c) : c[j].role = "result" /\ c[j].id = c[i].id
      BY <1>2, <1>3, <1>10, <3>1 DEF AnsweredFrom
    <3> QED BY <1>7, <3>1, <3>2
  <2>2. CASE i \notin 1..Len(c)
    BY <1>4, <1>6, <1>10, <2>2
  <2> QED BY <2>1, <2>2
<1>11. ASSUME NEW j \in u..Len(e), e[j].role = "result"
       PROVE  \E i \in u..Len(e) : e[i].role = "call" /\ e[j].id = e[i].id /\ i < j
  <2>1. j \in u..Len(c) /\ e[j] = c[j]
    BY <1>8, <1>11
  <2>2. PICK i \in u..Len(c) : c[i].role = "call" /\ c[j].id = c[i].id /\ i < j
    BY <1>2, <1>3, <1>11, <2>1 DEF AnsweredFrom
  <2> QED BY <1>7, <2>1, <2>2
<1>12. ASSUME NEW i \in u..Len(e), NEW k \in u..Len(e), NEW j \in u..Len(e), NEW l \in u..Len(e),
              e[i].role = "call", e[k].role = "call", e[j].role = "result", e[l].role = "result",
              e[j].id = e[i].id, e[l].id = e[k].id
       PROVE  i < k <=> j < l
  <2>1. /\ i \in u..Len(c) /\ k \in u..Len(c) /\ j \in u..Len(c) /\ l \in u..Len(c)
        /\ e[i] = c[i] /\ e[k] = c[k] /\ e[j] = c[j] /\ e[l] = c[l]
    BY <1>8, <1>9, <1>12
  <2> QED BY <1>2, <1>3, <1>12, <2>1 DEF AnsweredFrom
<1>13. AnsweredFrom(e, u, open)
  BY <1>10, <1>11, <1>12 DEF AnsweredFrom
<1>14. Len(e) \in Nat
  BY <1>4
<1> QED
  BY <1>1, <1>5, <1>13, <1>14, TurnIs

\* A compaction does not touch the turn.
LEMMA TurnSurvives ==
  ASSUME NEW c \in Seq(Items), Len(disk) \in Nat, TurnAnswered(c, {})
  PROVE  TurnAnswered(Compact(c), {})
<1>1. HasUser(c) /\ AnsweredFrom(c, LastUser(c), {})
  BY TurnIs
<1>2. PICK s \in 1..LastUser(c) :
        /\ Compact(c) \in Seq(Items) /\ Len(Compact(c)) = (Len(c) - s) + 2
        /\ Compact(c)[1] = Item("summary", Len(disk) + 1)
        /\ \A i \in 2..((Len(c) - s) + 2) : Compact(c)[i] = c[(i + s) - 2]
  BY <1>1, CompactIs
<1>3. PICK u \in 1..Len(c) :
        u = LastUser(c) /\ c[u].role = "user" /\ \A i \in 1..Len(c) : c[i].role = "user" => i <= u
  BY <1>1, LastUserIs
<1>4. PICK e : e = Compact(c)
  OBVIOUS
<1>5. PICK n \in Nat : n = Len(c)
  OBVIOUS
<1>6. PICK v \in Nat : v = (u - s) + 2
  BY <1>2, <1>3
<1>7. s \in 1..u /\ u \in 1..n /\ Len(e) = (n - s) + 2 /\ Len(e) \in Nat /\ v \in 2..Len(e)
  BY <1>2, <1>3, <1>4, <1>5, <1>6
<1>8. \A i \in 2..Len(e) : (i + s) - 2 \in 1..n /\ e[i] = c[(i + s) - 2]
  BY <1>2, <1>4, <1>5, <1>7
<1>9. \A i \in v..Len(e) : i \in 2..Len(e) /\ (i + s) - 2 \in u..n /\ e[i] = c[(i + s) - 2]
  <2>1. TAKE i \in v..Len(e)
  <2>2. /\ i \in Nat /\ i >= v /\ i <= Len(e) /\ s \in Nat /\ u \in Nat /\ n \in Nat
        /\ s >= 1 /\ s <= u /\ u <= n
    BY <1>6, <1>7
  <2>3. i >= 2 /\ (i + s) - 2 >= u /\ (i + s) - 2 <= n
    BY <1>6, <1>7, <2>2
  <2>4. i \in 2..Len(e)
    BY <2>2, <2>3, <1>7
  <2>5. (i + s) - 2 \in u..n
    BY <2>2, <2>3
  <2> QED BY <1>8, <2>4, <2>5
<1>10. \A i \in u..n : (i - s) + 2 \in v..Len(e) /\ e[(i - s) + 2] = c[i]
  <2>1. TAKE i \in u..n
  <2>2. (i - s) + 2 \in v..Len(e) /\ (((i - s) + 2) + s) - 2 = i
    BY <1>6, <1>7
  <2> QED BY <1>9, <2>2
<1>11. HasUser(e) /\ LastUser(e) = v
  <2>1. v \in 1..Len(e) /\ e[v].role = "user"
    <3>1. v \in v..Len(e) /\ (v + s) - 2 = u
      BY <1>6, <1>7
    <3> QED BY <1>3, <1>7, <1>9, <3>1
  <2>2. ASSUME NEW i \in 1..Len(e), e[i].role = "user" PROVE i <= v
    <3>1. i # 1
      BY <1>2, <1>4, <2>2, Fields
    <3>2. i \in 2..Len(e)
      BY <1>7, <3>1
    <3>3. (i + s) - 2 <= u
      BY <1>3, <1>5, <1>8, <2>2, <3>2
    <3> QED BY <1>6, <1>7, <3>2, <3>3
  <2> QED BY <1>7, <2>1, <2>2, SameLastUser
<1>12. ASSUME NEW i \in v..Len(e), e[i].role = "call"
       PROVE  \E j \in v..Len(e) : e[j].role = "result" /\ e[j].id = e[i].id
  <2>1. PICK at \in u..n : e[i] = c[at]
    BY <1>9
  <2>2. PICK j \in u..n : c[j].role = "result" /\ c[j].id = c[at].id
    BY <1>1, <1>3, <1>5, <1>12, <2>1 DEF AnsweredFrom
  <2>3. PICK to \in v..Len(e) : e[to] = c[j]
    BY <1>10
  <2> QED BY <2>1, <2>2, <2>3
<1>13. ASSUME NEW j \in v..Len(e), e[j].role = "result"
       PROVE  \E i \in v..Len(e) : e[i].role = "call" /\ e[j].id = e[i].id /\ i < j
  <2>1. PICK i \in u..n : c[i].role = "call" /\ c[(j + s) - 2].id = c[i].id /\ i < (j + s) - 2
    BY <1>1, <1>3, <1>5, <1>9, <1>13 DEF AnsweredFrom
  <2>2. (i - s) + 2 < j
    BY <1>7, <2>1
  <2> QED BY <1>9, <1>10, <2>1, <2>2
<1>14. \A i, k, j, l \in u..n :
         /\ c[i].role = "call" /\ c[k].role = "call" /\ c[j].role = "result" /\ c[l].role = "result"
         /\ c[j].id = c[i].id /\ c[l].id = c[k].id
         => (i < k <=> j < l)
  BY <1>1, <1>3, <1>5 DEF AnsweredFrom
<1>15. ASSUME NEW i \in v..Len(e), NEW k \in v..Len(e), NEW j \in v..Len(e), NEW l \in v..Len(e),
              e[i].role = "call", e[k].role = "call", e[j].role = "result", e[l].role = "result",
              e[j].id = e[i].id, e[l].id = e[k].id
       PROVE  i < k <=> j < l
  <2>1. PICK a \in u..n : a = (i + s) - 2 /\ e[i] = c[a]
    BY <1>9
  <2>2. PICK b \in u..n : b = (k + s) - 2 /\ e[k] = c[b]
    BY <1>9
  <2>3. PICK f \in u..n : f = (j + s) - 2 /\ e[j] = c[f]
    BY <1>9
  <2>4. PICK g \in u..n : g = (l + s) - 2 /\ e[l] = c[g]
    BY <1>9
  <2>5. a < b <=> f < g
    <3>1. /\ c[a].role = "call" /\ c[b].role = "call"
          /\ c[f].role = "result" /\ c[g].role = "result"
          /\ c[f].id = c[a].id /\ c[g].id = c[b].id
      BY <1>15, <2>1, <2>2, <2>3, <2>4
    <3> QED BY <1>14, <3>1
  <2>6. i \in Int /\ j \in Int /\ k \in Int /\ l \in Int /\ s \in Int
    BY <1>7
  <2>7. i < k <=> a < b
    BY <2>1, <2>2, <2>6
  <2>8. j < l <=> f < g
    BY <2>3, <2>4, <2>6
  <2> QED BY <2>5, <2>7, <2>8
<1>16. AnsweredFrom(e, v, {})
  BY <1>12, <1>13, <1>15 DEF AnsweredFrom
<1> QED
  BY <1>4, <1>7, <1>11, <1>16, TurnIs

\* The results of a batch complete the turn it belongs to, in the order of the calls.
LEMMA TurnCompletes ==
  ASSUME NEW c \in Seq(Items), NEW ids \in Seq(Nat), BatchAtEnd(c, ids),
         TurnAnswered(c, ToSet(ids)),
         \A k, l \in 1..Len(ids) : ids[k] = ids[l] => k = l
  PROVE  TurnAnswered(c \o Calls("result", ids), {})
<1>1. PICK d \in Seq(Items) : /\ d = Calls("result", ids) /\ Len(d) = Len(ids)
                             /\ \A k \in 1..Len(ids) : d[k] = Item("result", ids[k])
  <2>1. "result" \in Roles
    BY DEF Roles
  <2> QED BY <2>1, CallsType
<1>2. PICK e : e = c \o d
  OBVIOUS
<1>3. PICK n \in Nat : n = Len(ids)
  OBVIOUS
<1>4. PICK p \in Nat : p = Len(c)
  OBVIOUS
<1>5. PICK m \in Nat : p = m + n
  <2>1. p - n \in Nat /\ p = (p - n) + n
    BY <1>3, <1>4 DEF BatchAtEnd
  <2> QED BY <2>1
<1>6. /\ \A k \in 1..n : c[m + k] = Item("call", ids[k])
      /\ \A i \in 1..m : IsCall(c[i]) => c[i].id \notin ToSet(ids)
  <2>1. p - n = m
    BY <1>5
  <2> QED BY <1>3, <1>4, <2>1 DEF BatchAtEnd
<1>7. \A k \in 1..n : /\ c[m + k].role = "call" /\ c[m + k].id = ids[k] /\ ids[k] \in ToSet(ids)
                      /\ d[k].role = "result" /\ d[k].id = ids[k]
  BY <1>1, <1>3, <1>6, Fields, Elements
<1>8. HasUser(c) /\ AnsweredFrom(c, LastUser(c), ToSet(ids))
  BY TurnIs
<1>9. PICK u \in 1..p : u = LastUser(c) /\ c[u].role = "user"
  BY <1>4, <1>8, LastUserIs
<1>10. u \in 1..m
  <2>1. SUFFICES ASSUME u > m PROVE FALSE
    BY <1>5, <1>9
  <2>2. PICK k \in 1..n : u = m + k
    <3>1. u - m \in 1..n /\ u = m + (u - m)
      BY <1>5, <1>9, <2>1
    <3> QED BY <3>1
  <2> QED BY <1>7, <1>9, <2>2
<1>11. /\ Len(e) = p + n /\ \A i \in 1..p : e[i] = c[i]
       /\ \A k \in 1..n : e[p + k] = d[k]
  <2>1. /\ Len(e) = Len(c) + Len(d) /\ \A i \in 1..Len(c) : e[i] = c[i]
        /\ \A k \in 1..Len(d) : e[Len(c) + k] = d[k]
    BY <1>2, Concat
  <2> QED BY <1>1, <1>3, <1>4, <2>1
<1>12. HasUser(e) /\ LastUser(e) = u
  <2>1. \A k \in 1..Len(d) : d[k].role # "user"
    BY <1>1, <1>3, <1>7
  <2> QED BY <1>2, <1>8, <1>9, <2>1, LastUserStays
\* The items after u: those of c, and the results.
<1>13. \A i \in u..Len(e) : \/ i \in u..p /\ e[i] = c[i]
                            \/ \E k \in 1..n : i = p + k /\ e[i] = d[k]
  <2>1. TAKE i \in u..Len(e)
  <2>2. CASE i <= p
    BY <1>9, <1>11, <2>2
  <2>3. CASE ~(i <= p)
    <3>1. i - p \in 1..n /\ p + (i - p) = i
      BY <1>9, <1>11, <2>3
    <3> QED BY <1>11, <3>1
  <2> QED BY <2>2, <2>3
<1>14. \A i \in u..p : /\ i \in u..Len(e) /\ e[i] = c[i]
                       /\ i \in 1..m \/ \E a \in 1..n : i = m + a
  <2>1. TAKE i \in u..p
  <2>2. i \in 1..m \/ (i - m \in 1..n /\ i = m + (i - m))
    BY <1>5, <1>9
  <2> QED BY <1>9, <1>11, <2>2
<1>15. \A k \in 1..n : p + k \in u..Len(e) /\ m + k \in u..p /\ m + k < p + k
  <2>1. TAKE k \in 1..n
  <2>2. n >= 1
    OBVIOUS
  <2> QED BY <1>5, <1>10, <1>11, <2>2
<1>16. \A i \in u..Len(e) : e[i].role = "call" =>
         \/ i \in u..p /\ i \in 1..m /\ e[i] = c[i] /\ c[i].id \notin ToSet(ids)
         \/ \E a \in 1..n : i = m + a /\ e[i].id = ids[a]
  BY <1>6, <1>7, <1>13, <1>14 DEF IsCall
<1>17. \A j \in u..Len(e) : e[j].role = "result" =>
         \/ j \in u..p /\ e[j] = c[j] /\ c[j].id \notin ToSet(ids)
         \/ \E a \in 1..n : j = p + a /\ e[j].id = ids[a]
  <2>1. \A j \in u..p : c[j].role = "result" => c[j].id \notin ToSet(ids)
    BY <1>6, <1>7, <1>14 DEF IsCall
  <2>2. TAKE j \in u..Len(e)
  <2>3. CASE \E k \in 1..n : j = p + k /\ e[j] = d[k]
    BY <1>7, <2>3
  <2>4. CASE j \in u..p /\ e[j] = c[j]
    BY <2>1, <2>4
  <2> QED BY <1>13, <2>3, <2>4
\* A result and its call are both of the batch, at the same place, or both older.
<1>18. ASSUME NEW i \in u..Len(e), e[i].role = "call",
              NEW j \in u..Len(e), e[j].role = "result", e[j].id = e[i].id
       PROVE  \/ i \in u..p /\ i \in 1..m /\ e[i] = c[i] /\ j \in u..p /\ e[j] = c[j]
              \/ \E a \in 1..n : i = m + a /\ j = p + a
  BY <1>3, <1>7, <1>16, <1>17, <1>18
<1>19. ASSUME NEW i \in u..Len(e), e[i].role = "call"
       PROVE  \E j \in u..Len(e) : e[j].role = "result" /\ e[j].id = e[i].id
  <2>1. CASE i \in u..p /\ e[i] = c[i] /\ c[i].id \notin ToSet(ids)
    <3>1. PICK j \in u..p : c[j].role = "result" /\ c[j].id = c[i].id
      BY <1>4, <1>8, <1>9, <1>19, <2>1 DEF AnsweredFrom
    <3> QED BY <1>14, <2>1, <3>1
  <2>2. CASE \E a \in 1..n : i = m + a /\ e[i].id = ids[a]
    <3>1. PICK a \in 1..n : i = m + a /\ e[i].id = ids[a]
      BY <2>2
    <3>2. PICK j \in u..Len(e) : j = p + a
      BY <1>15
    <3>3. e[j] = d[a]
      BY <1>11, <3>2
    <3> QED BY <1>7, <3>1, <3>3
  <2> QED BY <1>16, <1>19, <2>1, <2>2
<1>20. ASSUME NEW j \in u..Len(e), e[j].role = "result"
       PROVE  \E i \in u..Len(e) : e[i].role = "call" /\ e[j].id = e[i].id /\ i < j
  <2>1. CASE j \in u..p /\ e[j] = c[j]
    <3>1. PICK i \in u..p : c[i].role = "call" /\ c[j].id = c[i].id /\ i < j
      BY <1>4, <1>8, <1>9, <1>20, <2>1 DEF AnsweredFrom
    <3> QED BY <1>14, <2>1, <3>1
  <2>2. CASE \E a \in 1..n : j = p + a /\ e[j].id = ids[a]
    <3>1. PICK a \in 1..n : j = p + a /\ e[j].id = ids[a]
      BY <2>2
    <3>2. PICK i \in u..p : i = m + a /\ i < p + a
      BY <1>15
    <3>3. i \in u..Len(e) /\ e[i] = c[i]
      BY <1>14
    <3> QED BY <1>7, <3>1, <3>2, <3>3
  <2> QED BY <1>17, <1>20, <2>1, <2>2
<1>21. \A i, k, j, l \in u..p :
         /\ c[i].role = "call" /\ c[k].role = "call" /\ c[j].role = "result" /\ c[l].role = "result"
         /\ c[j].id = c[i].id /\ c[l].id = c[k].id
         => (i < k <=> j < l)
  BY <1>4, <1>8, <1>9 DEF AnsweredFrom
<1>22. ASSUME NEW i \in u..Len(e), NEW k \in u..Len(e), NEW j \in u..Len(e), NEW l \in u..Len(e),
              e[i].role = "call", e[k].role = "call", e[j].role = "result", e[l].role = "result",
              e[j].id = e[i].id, e[l].id = e[k].id
       PROVE  i < k <=> j < l
  <2>1. \/ i \in u..p /\ i \in 1..m /\ e[i] = c[i] /\ j \in u..p /\ e[j] = c[j]
        \/ \E a \in 1..n : i = m + a /\ j = p + a
    BY <1>18, <1>22
  <2>2. \/ k \in u..p /\ k \in 1..m /\ e[k] = c[k] /\ l \in u..p /\ e[l] = c[l]
        \/ \E a \in 1..n : k = m + a /\ l = p + a
    BY <1>18, <1>22
  <2>3. CASE i \in 1..m /\ e[i] = c[i] /\ j \in u..p /\ e[j] = c[j] /\ i \in u..p
    <3>1. CASE k \in 1..m /\ e[k] = c[k] /\ l \in u..p /\ e[l] = c[l] /\ k \in u..p
      BY <1>21, <1>22, <2>3, <3>1
    <3>2. CASE \E a \in 1..n : k = m + a /\ l = p + a
      BY <2>3, <3>2
    <3> QED BY <2>2, <3>1, <3>2
  <2>4. CASE \E a \in 1..n : i = m + a /\ j = p + a
    <3>1. CASE k \in 1..m /\ l \in u..p
      BY <2>4, <3>1
    <3>2. CASE \E a \in 1..n : k = m + a /\ l = p + a
      BY <2>4, <3>2
    <3> QED BY <2>2, <3>1, <3>2
  <2> QED BY <2>1, <2>3, <2>4
<1>23. AnsweredFrom(e, u, {})
  BY <1>19, <1>20, <1>22 DEF AnsweredFrom
<1>24. Len(e) \in Nat
  BY <1>11
<1> QED
  BY <1>1, <1>2, <1>12, <1>23, <1>24, TurnIs

\* At any moment of a turn all its calls are answered but those of the batch.
TurnInv == InTurn => TurnAnswered(conv, IF phase = "batch" THEN ToSet(batch) ELSE {})

LEMMA TurnStep ==
  ASSUME TypeInv, CallInv, TurnInv, Moves
  PROVE  TurnInv'
<1>0. /\ conv \in Seq(Items) /\ batch \in Seq(Nat) /\ Len(disk) \in Nat /\ Len(batch) \in Nat
  BY Typed
<1>a. LiveCalls /\ BatchInv
  BY DEF CallInv
<1>1. CASE Rest
  <2>1. /\ conv' = conv /\ phase # "batch" /\ phase' # "batch"
        /\ InTurn' => InTurn
    BY <1>1 DEF Rest, Working, InTurn
  <2> QED BY <2>1 DEF TurnInv
<1>2. CASE Halt \/ Begin \/ Leave
  <2>1. ~InTurn'
    BY <1>2 DEF Halt, Begin, Leave, InTurn
  <2> QED BY <2>1 DEF TurnInv
<1>3. CASE Say
  <2>1. PICK item \in Items :
          /\ item.role = "user" \/ (item.role = "assistant" /\ phase = "request")
          /\ conv' = conv \o <<item>>
    BY <1>3 DEF Say
  <2>2. phase' # "batch"
    BY <1>3 DEF Say
  <2>3. CASE item.role = "user"
    <3>1. TurnAnswered(conv \o <<item>>, {})
      BY <1>0, <2>3, TurnBegins
    <3> QED BY <2>1, <2>2, <3>1 DEF TurnInv
  <2>4. CASE item.role = "assistant" /\ phase = "request"
    <3>1. TurnAnswered(conv, {})
      BY <2>4 DEF TurnInv, InTurn
    <3>2. PICK d \in Seq(Items) : d = <<item>> /\ \A k \in 1..Len(d) : k = 1 /\ d[k] = item
      BY Single
    <3>3. \A k \in 1..Len(d) : d[k].role = "assistant"
      BY <2>4, <3>2
    <3>4. TurnAnswered(conv \o d, {})
      BY <1>0, <3>1, <3>3, TurnGrows
    <3> QED BY <2>1, <2>2, <3>2, <3>4 DEF TurnInv
  <2> QED BY <2>1, <2>3, <2>4
<1>4. CASE Shorten
  <2>1. TurnAnswered(conv, {}) /\ conv' = Compact(conv) /\ phase' = "request"
    BY <1>4 DEF Shorten, TurnInv, InTurn
  <2>2. TurnAnswered(Compact(conv), {})
    BY <1>0, <2>1, TurnSurvives
  <2> QED BY <2>1, <2>2 DEF TurnInv
<1>5. CASE Ask
  <2>1. /\ phase \in {"request", "called"} /\ phase' = "record" /\ conv' = conv
    BY <1>5 DEF Ask
  <2> QED BY <2>1 DEF TurnInv, InTurn
<1>6. CASE Record /\ phase' = "record"
  <2>1. UNCHANGED <<phase, conv>>
    BY <1>6 DEF Record
  <2> QED BY <1>6, <2>1 DEF TurnInv, InTurn
<1>7. CASE Record /\ phase' = "batch"
  <2>1. conv' = conv \o Calls("call", batch) /\ batch' = batch /\ phase = "record"
    BY <1>7 DEF Record
  <2>2. PICK d \in Seq(Items) : /\ d = Calls("call", batch) /\ Len(d) = Len(batch)
                               /\ \A k \in 1..Len(batch) : d[k] = Item("call", batch[k])
    <3>1. "call" \in Roles
      BY DEF Roles
    <3> QED BY <1>0, <3>1, CallsType
  <2>3. \A k \in 1..Len(d) : d[k].role = "call" /\ d[k].id = batch[k] /\ d[k].id \in ToSet(batch)
    BY <1>0, <2>2, Fields, Elements
  <2>4. \A i \in 1..Len(conv) : IsCall(conv[i]) => conv[i].id \notin ToSet(batch)
    BY <1>a, <2>1 DEF LiveCalls
  <2>5. TurnAnswered(conv, {})
    BY <2>1 DEF TurnInv, InTurn
  <2>6. TurnAnswered(conv \o d, ToSet(batch))
    <3>1. \A k \in 1..Len(d) : d[k].role = "call" =>
            /\ d[k].id \in ToSet(batch)
            /\ \A i \in 1..Len(conv) : IsCall(conv[i]) => conv[i].id # d[k].id
      BY <2>3, <2>4
    <3>2. \A k \in 1..Len(d) : d[k].role \notin {"user", "result"}
      BY <2>3
    <3> QED BY <1>0, <2>5, <3>1, <3>2, TurnGrows
  <2> QED BY <1>7, <2>1, <2>2, <2>6 DEF TurnInv
<1>8. CASE Answer \/ Stay
  <2>1. conv' = conv /\ phase' = phase /\ batch' = batch
    BY <1>8 DEF Answer, Stay
  <2> QED BY <2>1 DEF TurnInv, InTurn
<1>9. CASE Collect
  <2>1. phase = "batch" /\ phase' = "prepare" /\ conv' = conv \o Calls("result", batch)
    BY <1>9 DEF Collect
  <2>2. TurnAnswered(conv, ToSet(batch)) /\ BatchAtEnd(conv, batch)
    BY <1>a, <2>1 DEF TurnInv, InTurn, LiveCalls
  <2>3. \A k, l \in 1..Len(batch) : batch[k] = batch[l] => k = l
    BY <1>a, <2>1 DEF BatchInv, Working
  <2>4. TurnAnswered(conv \o Calls("result", batch), {})
    BY <1>0, <2>2, <2>3, TurnCompletes
  <2> QED BY <2>1, <2>4 DEF TurnInv
<1>10. Record => phase' = "record" \/ phase' = "batch"
  BY DEF Record
<1> QED
  BY <1>1, <1>2, <1>3, <1>4, <1>5, <1>6, <1>7, <1>8, <1>9, <1>10 DEF Moves

\* What is sent to the model is a turn with all its calls answered, and calls and results stay
\* in step everywhere else: no failed append, but any crash, cancellation, compaction and resume.
THEOREM CallsAnswered == ASSUME MaxFaults = 0 PROVE Spec => []CallsKeepResults
<1>1. Init => TurnInv
  BY DEF Init, TurnInv, InTurn
<1>2. TypeInv /\ QuietInv /\ CallInv /\ TurnInv /\ [Next]_vars => TurnInv'
  BY StepMoves, TurnStep
<1>3. TurnInv => CurrentTurnAnswered
  BY DEF TurnInv, InTurn, CurrentTurnAnswered
<1>4. CallInv /\ TurnInv => CallsKeepResults
  BY <1>3, ResultsFollow DEF CallsKeepResults
<1> QED
  BY <1>1, <1>2, <1>4, TypeInvHolds, QuietHolds, CallInvHolds, PTL DEF Spec

-----------------------------------------------------------------------------
(* The live conversation and the rebuilt one *)

Upto(c, i) == {c[k] : k \in 1..i}

\* Conversation d has the items of c, in the same order but for the results of a batch,
Same(c, d) ==
  \A i \in 1..Len(c) : i = Len(c) \/ c[i + 1].role # "result" => Upto(c, i) = Upto(d, i)

Level(c, d) == Len(c) = Len(d) /\ Same(c, d)

\* and n items more, of the calls ids.
Ahead(c, d, role, ids, n) ==
  /\ Len(d) = Len(c) + n
  /\ \A k \in 1..n : d[Len(c) + k] = Item(role, ids[k])
  /\ Same(c, d)

\* A call, not one of ids, has no result.
LeftOver(c, ids) ==
  \E i \in 1..Len(c) : c[i].role = "call" /\ ~HasItem(c, "result", c[i].id) /\ c[i].id \notin ids

\* As long as no call was left without a result, the log is ahead by what the batch has not yet
\* put into the live conversation.
MatchInv ==
  /\ phase = "record" => answered = <<>>
  /\ phase = "batch" => \A k, l \in 1..Len(answered) : answered[k] = answered[l] => k = l
  /\ Up => \/ LeftOver(conv, IF phase = "batch" THEN ToSet(batch) ELSE {})
           \/ phase = "record" /\ Ahead(conv, Rebuilt, "call", batch, recorded)
           \/ phase = "batch" /\ Ahead(conv, Rebuilt, "result", answered, Len(answered))
           \/ phase \notin Working /\ Level(conv, Rebuilt)

LEMMA UptoEqual ==
  ASSUME NEW c, NEW d, NEW i \in Nat, \A k \in 1..i : c[k] = d[k]
  PROVE  Upto(c, i) = Upto(d, i)
BY DEF Upto

\* Items that are added to d make no difference to those before.
LEMMA SameGrows ==
  ASSUME NEW c \in Seq(Items), NEW d \in Seq(Items), NEW e \in Seq(Items),
         Len(c) <= Len(d), Same(c, d)
  PROVE  Same(c, d \o e)
<1>1. PICK f : f = d \o e
  OBVIOUS
<1>2. \A i \in 1..Len(d) : f[i] = d[i]
  BY <1>1, Concat
<1>3. ASSUME NEW i \in 1..Len(c) PROVE Upto(d, i) = Upto(f, i)
  <2>1. i \in Nat /\ \A k \in 1..i : k \in 1..Len(d)
    <3>1. Len(c) \in Nat /\ Len(d) \in Nat
      OBVIOUS
    <3> QED BY <3>1
  <2> QED BY <1>2, <2>1, UptoEqual
<1> QED
  BY <1>1, <1>3 DEF Same

LEMMA AheadGrows ==
  ASSUME NEW c \in Seq(Items), NEW d \in Seq(Items), NEW role, NEW ids, NEW more, NEW n \in Nat,
         Ahead(c, d, role, ids, n), \A k \in 1..n : more[k] = ids[k],
         Item(role, more[n + 1]) \in Items
  PROVE  Ahead(c, d \o <<Item(role, more[n + 1])>>, role, more, n + 1)
<1>1. PICK item \in Items : item = Item(role, more[n + 1])
  OBVIOUS
<1>2. PICK e \in Seq(Items) : /\ e = <<item>> /\ Len(e) = 1
                             /\ \A k \in 1..Len(e) : k = 1 /\ e[k] = item
  BY Single
<1>3. PICK f : f = d \o e
  OBVIOUS
<1>4. PICK m \in Nat : m = Len(c)
  OBVIOUS
<1>5. /\ Len(d) = m + n /\ \A k \in 1..n : d[m + k] = Item(role, ids[k])
      /\ Same(c, d)
  BY <1>4 DEF Ahead
<1>6. /\ Len(f) = (m + n) + 1 /\ \A i \in 1..(m + n) : f[i] = d[i]
      /\ f[(m + n) + 1] = item
  <2>1. /\ Len(f) = Len(d) + Len(e) /\ \A i \in 1..Len(d) : f[i] = d[i]
        /\ \A k \in 1..Len(e) : f[Len(d) + k] = e[k]
    BY <1>3, Concat
  <2> QED BY <1>2, <1>5, <2>1
<1>7. ASSUME NEW k \in 1..(n + 1) PROVE f[m + k] = Item(role, more[k])
  <2>1. CASE k = n + 1
    BY <1>1, <1>6, <2>1
  <2>2. CASE k \in 1..n
    <3>1. m + k \in 1..(m + n)
      BY <2>2
    <3> QED BY <1>5, <1>6, <2>2, <3>1
  <2> QED BY <2>1, <2>2
<1>8. Same(c, f)
  <2>1. Len(c) <= Len(d)
    BY <1>4, <1>5
  <2> QED BY <1>3, <1>5, <2>1, SameGrows
<1>9. Len(f) = m + (n + 1)
  BY <1>6
<1> QED
  BY <1>1, <1>2, <1>3, <1>4, <1>7, <1>8, <1>9 DEF Ahead

\* The live conversation takes what the log is ahead.
LEMMA CatchesUp ==
  ASSUME NEW c \in Seq(Items), NEW d \in Seq(Items), NEW e \in Seq(Items), NEW n \in Nat,
         Len(e) = n, Len(d) = Len(c) + n, Same(c, d),
         \/ \A k \in 1..n : d[Len(c) + k] = e[k]
         \/ /\ \A k \in 1..n : e[k].role = "result"
            /\ {d[Len(c) + k] : k \in 1..n} = {e[k] : k \in 1..n}
  PROVE  Level(c \o e, d)
<1>1. PICK f : f = c \o e
  OBVIOUS
<1>2. PICK m \in Nat : m = Len(c)
  OBVIOUS
<1>3. /\ Len(f) = m + n /\ \A i \in 1..m : f[i] = c[i]
      /\ \A k \in 1..n : f[m + k] = e[k]
  <2>1. /\ Len(f) = Len(c) + Len(e) /\ \A i \in 1..Len(c) : f[i] = c[i]
        /\ \A k \in 1..Len(e) : f[Len(c) + k] = e[k]
    BY <1>1, Concat
  <2> QED BY <1>2, <2>1
<1>4. ASSUME NEW i \in 1..(m + n), i = m + n \/ f[i + 1].role # "result"
      PROVE  Upto(f, i) = Upto(d, i)
  <2>1. CASE i < m
    <3>1. i \in 1..Len(c) /\ i + 1 \in 1..m /\ i # m + n
      BY <1>2, <2>1
    <3>2. c[i + 1].role # "result"
      BY <1>3, <1>4, <3>1
    <3>3. Upto(c, i) = Upto(d, i)
      BY <3>1, <3>2 DEF Same
    <3>4. \A k \in 1..i : f[k] = c[k]
      BY <1>3, <2>1
    <3> QED BY <3>3, <3>4, UptoEqual
  <2>2. Upto(f, m) = Upto(d, m)
    <3>1. CASE m = 0
      BY <3>1 DEF Upto
    <3>2. CASE m # 0
      <4>1. m \in 1..Len(c) /\ m = Len(c)
        BY <1>2, <3>2
      <4>2. Upto(c, m) = Upto(d, m)
        BY <4>1 DEF Same
      <4> QED BY <1>3, <4>2, UptoEqual
    <3> QED BY <3>1, <3>2
  <2>3. CASE ~(i < m)
    <3>1. PICK a \in Nat : a <= n /\ i = m + a
      <4>1. i - m \in Nat /\ i - m <= n /\ i = m + (i - m)
        BY <2>3
      <4> QED BY <4>1
    <3>2. /\ \A x : x \in Upto(f, i) <=> x \in Upto(f, m) \/ \E k \in 1..a : x = f[m + k]
          /\ \A x : x \in Upto(d, i) <=> x \in Upto(d, m) \/ \E k \in 1..a : x = d[m + k]
      <4>1. \A j \in 1..i : j \in 1..m \/ (j - m \in 1..a /\ j = m + (j - m))
        BY <3>1
      <4>2. \A j \in 1..i : j \in 1..m \/ \E k \in 1..a : j = m + k
        BY <4>1
      <4>3. (\A j \in 1..m : j \in 1..i) /\ \A k \in 1..a : m + k \in 1..i
        BY <3>1
      <4> QED BY <4>2, <4>3 DEF Upto
    <3>3. \A x : (\E k \in 1..a : x = f[m + k]) <=> (\E k \in 1..a : x = d[m + k])
      <4>1. \A k \in 1..a : k \in 1..n
        BY <3>1
      <4>2. CASE \A k \in 1..n : d[Len(c) + k] = e[k]
        <5>1. \A k \in 1..a : f[m + k] = d[m + k]
          BY <1>2, <1>3, <4>1, <4>2
        <5> QED BY <5>1
      <4>3. CASE /\ \A k \in 1..n : e[k].role = "result"
                 /\ {d[Len(c) + k] : k \in 1..n} = {e[k] : k \in 1..n}
        <5>1. CASE a = 0
          BY <5>1
        <5>2. CASE a = n
          <6>1. \A x : (\E k \in 1..n : x = d[m + k]) <=> (\E k \in 1..n : x = e[k])
            BY <1>2, <4>3
          <6>2. \A x : (\E k \in 1..n : x = f[m + k]) <=> (\E k \in 1..n : x = e[k])
            BY <1>3
          <6>3. ASSUME NEW x
                PROVE  (\E k \in 1..n : x = f[m + k]) <=> (\E k \in 1..n : x = d[m + k])
            <7>1. (\E k \in 1..n : x = d[m + k]) <=> (\E k \in 1..n : x = e[k])
              BY <6>1
            <7>2. (\E k \in 1..n : x = f[m + k]) <=> (\E k \in 1..n : x = e[k])
              BY <6>2
            <7> QED BY <7>1, <7>2
          <6> QED BY <5>2, <6>3
        <5>3. CASE a # 0 /\ a # n
          <6>1. a + 1 \in 1..n /\ m + (a + 1) = i + 1
            BY <3>1, <5>3
          <6>2. f[i + 1].role = "result"
            BY <1>3, <4>3, <6>1
          <6> QED BY <1>4, <3>1, <5>3, <6>2
        <5> QED BY <5>1, <5>2, <5>3
      <4> QED BY <4>2, <4>3
    <3>4. \A x : x \in Upto(f, i) <=> x \in Upto(d, i)
      BY <2>2, <3>2, <3>3
    <3>5. Upto(f, i) = {f[k] : k \in 1..i} /\ Upto(d, i) = {d[k] : k \in 1..i}
      BY DEF Upto
    <3> QED BY <3>4, <3>5
  <2> QED BY <2>1, <2>3
<1> QED
  BY <1>1, <1>2, <1>3, <1>4 DEF Level, Same

LEMMA LevelGrows ==
  ASSUME NEW c \in Seq(Items), NEW d \in Seq(Items), NEW item \in Items, Level(c, d)
  PROVE  Level(c \o <<item>>, d \o <<item>>)
<1>1. PICK e \in Seq(Items) : /\ e = <<item>> /\ Len(e) = 1
                             /\ \A k \in 1..Len(e) : k = 1 /\ e[k] = item
  BY Single
<1>2. PICK f : f = d \o e
  OBVIOUS
<1>3. /\ f \in Seq(Items) /\ Len(f) = Len(c) + 1
      /\ \A k \in 1..1 : f[Len(c) + k] = e[k]
  <2>1. /\ f \in Seq(Items) /\ Len(f) = Len(d) + Len(e)
        /\ \A k \in 1..Len(e) : f[Len(d) + k] = e[k]
    BY <1>2, Concat
  <2> QED BY <1>1, <2>1 DEF Level
<1>4. Same(c, f)
  <2>1. Len(c) <= Len(d) /\ Same(c, d)
    <3>1. Len(c) \in Nat
      OBVIOUS
    <3> QED BY <3>1 DEF Level
  <2> QED BY <1>2, <2>1, SameGrows
<1>5. Level(c \o e, f)
  BY <1>1, <1>3, <1>4, CatchesUp
<1> QED
  BY <1>1, <1>2, <1>5

\* What has no result keeps having none.
LEMMA LeftStays ==
  ASSUME NEW c \in Seq(Items), NEW d \in Seq(Items), NEW ids, NEW others, LeftOver(c, ids),
         \A k \in 1..Len(d) : d[k].role = "result" => d[k].id \in ids,
         \A i \in 1..Len(c) : c[i].role = "call" /\ c[i].id \notin ids => c[i].id \notin others
  PROVE  LeftOver(c \o d, others)
<1>1. PICK e : e = c \o d
  OBVIOUS
<1>2. /\ Len(e) = Len(c) + Len(d) /\ Len(c) \in Nat /\ Len(d) \in Nat
      /\ \A i \in 1..Len(c) : e[i] = c[i]
      /\ \A i \in 1..Len(e) : \/ i \in 1..Len(c) /\ e[i] = c[i]
                              \/ \E k \in 1..Len(d) : e[i] = d[k]
  BY <1>1, Concat
<1>3. PICK i \in 1..Len(c) :
        c[i].role = "call" /\ ~HasItem(c, "result", c[i].id) /\ c[i].id \notin ids
  BY DEF LeftOver
<1>4. i \in 1..Len(e) /\ e[i] = c[i]
  BY <1>2
<1>5. ~HasItem(e, "result", c[i].id)
  <2>1. \A k \in 1..Len(c) : c[k] # Item("result", c[i].id)
    BY <1>3 DEF HasItem
  <2>2. \A k \in 1..Len(d) : d[k] # Item("result", c[i].id)
    BY <1>3, Fields
  <2> QED BY <1>2, <2>1, <2>2 DEF HasItem
<1> QED
  BY <1>1, <1>3, <1>4, <1>5 DEF LeftOver

\* A sequence without repetition is not longer than one with at least its elements.
LEMMA NotLonger ==
  ASSUME NEW s \in Seq(Nat), NEW t \in Seq(Nat),
         \A k, l \in 1..Len(s) : s[k] = s[l] => k = l,
         \A k \in 1..Len(s) : \E l \in 1..Len(t) : t[l] = s[k]
  PROVE  Len(s) <= Len(t)
<1>1. PICK m \in Nat : m = Len(s)
  OBVIOUS
<1>2. PICK n \in Nat : n = Len(t)
  OBVIOUS
<1>3. PICK f : f = [k \in 1..m |-> CHOOSE l \in 1..n : t[l] = s[k]]
  OBVIOUS
<1>4. \A k \in 1..m : f[k] \in 1..n /\ t[f[k]] = s[k]
  BY <1>1, <1>2, <1>3
<1>5. f \in Injection(1..m, 1..n)
  <2>1. f \in [1..m -> 1..n]
    BY <1>3, <1>4
  <2>2. \A k, l \in 1..m : f[k] = f[l] => k = l
    <3>1. \A k, l \in 1..m : f[k] = f[l] => s[k] = s[l]
      BY <1>4
    <3>2. \A k, l \in 1..m : s[k] = s[l] => k = l
      BY <1>1
    <3> QED BY <3>1, <3>2
  <2> QED BY <2>1, <2>2 DEF Injection, IsInjective
<1>6. /\ IsFiniteSet(1..n) /\ Cardinality(1..n) = n /\ Cardinality(1..m) = m
  BY FS_Interval
<1> QED
  BY <1>1, <1>2, <1>5, <1>6, FS_Injection

\* The calls that were answered, each once, are as many as the batch has.
LEMMA AllAnswered ==
  ASSUME TypeInv, BatchInv, MatchInv, phase = "batch", Unanswered = {}
  PROVE  Len(answered) = Len(batch) /\ ToSet(answered) = ToSet(batch)
<1>1. /\ batch \in Seq(Nat) /\ answered \in Seq(Nat) /\ answered \in Seq(ToSet(batch))
      /\ Len(batch) \in Nat /\ Len(answered) \in Nat
  BY Typed
<1>2. ToSet(answered) = ToSet(batch)
  <2>1. ToSet(answered) \subseteq ToSet(batch)
    BY <1>1, Elements
  <2> QED BY <2>1 DEF Unanswered
<1>3. /\ \A x : x \in ToSet(batch) <=> \E k \in 1..Len(batch) : batch[k] = x
      /\ \A x : x \in ToSet(answered) <=> \E k \in 1..Len(answered) : answered[k] = x
  BY <1>1, Elements
<1>4. Len(batch) <= Len(answered)
  <2>1. \A k \in 1..Len(batch) : \E l \in 1..Len(answered) : answered[l] = batch[k]
    BY <1>2, <1>3
  <2>2. \A k, l \in 1..Len(batch) : batch[k] = batch[l] => k = l
    BY DEF BatchInv, Working
  <2> QED BY <1>1, <2>1, <2>2, NotLonger
<1>5. Len(answered) <= Len(batch)
  <2>1. \A k \in 1..Len(answered) : \E l \in 1..Len(batch) : batch[l] = answered[k]
    BY <1>2, <1>3
  <2>2. \A k, l \in 1..Len(answered) : answered[k] = answered[l] => k = l
    BY DEF MatchInv
  <2> QED BY <1>1, <2>1, <2>2, NotLonger
<1> QED
  BY <1>1, <1>2, <1>4, <1>5

LEMMA MatchStep ==
  ASSUME TypeInv, CallInv, MatchInv, Moves
  PROVE  MatchInv'
<1>0. /\ conv \in Seq(Items) /\ Rebuilt \in Seq(Items) /\ batch \in Seq(Nat)
      /\ answered \in Seq(Nat) /\ used \in Nat /\ recorded \in Nat
      /\ Len(conv) \in Nat /\ Len(Rebuilt) \in Nat /\ Len(batch) \in Nat /\ Len(answered) \in Nat
  BY Typed
<1>a. LogCalls /\ LiveCalls /\ BatchInv
  BY DEF CallInv
<1>b. \A c : Level(c, c)
  BY DEF Level, Same
<1>1. CASE Rest
  <2>1. /\ conv' = conv /\ Rebuilt' = Rebuilt /\ Up
        /\ phase \notin {"record", "batch"} /\ phase' \notin {"record", "batch"}
    BY <1>1 DEF Rest, Working
  <2> QED BY <2>1 DEF MatchInv, Working
<1>2. CASE Halt
  BY <1>2 DEF Halt, MatchInv, Up
<1>3. CASE Begin
  <2>1. conv' = Rebuilt' /\ phase' \notin {"record", "batch"}
    BY <1>3 DEF Begin
  <2> QED BY <1>b, <2>1 DEF MatchInv, Working
<1>4. CASE Say
  <2>1. PICK item \in Items :
          /\ item.role \in {"user", "assistant"}
          /\ conv' = conv \o <<item>> /\ Rebuilt' = Rebuilt \o <<item>>
    BY <1>4 DEF Say
  <2>2. Up /\ phase \notin {"record", "batch"} /\ phase' \notin {"record", "batch"}
    BY <1>4 DEF Say, Working
  <2>3. CASE LeftOver(conv, {})
    <3>1. PICK d \in Seq(Items) : d = <<item>> /\ \A k \in 1..Len(d) : k = 1 /\ d[k] = item
      BY Single
    <3>2. \A k \in 1..Len(d) : d[k].role # "result"
      BY <2>1, <3>1
    <3>3. /\ \A k \in 1..Len(d) : d[k].role = "result" => d[k].id \in {}
          /\ \A i \in 1..Len(conv) :
               conv[i].role = "call" /\ conv[i].id \notin {} => conv[i].id \notin {}
      BY <3>2
    <3>4. LeftOver(conv \o d, {})
      BY <1>0, <2>3, <3>3, LeftStays
    <3> QED BY <2>1, <2>2, <3>1, <3>4 DEF MatchInv
  <2>4. CASE Level(conv, Rebuilt)
    <3>1. Level(conv \o <<item>>, Rebuilt \o <<item>>)
      BY <1>0, <2>4, LevelGrows
    <3> QED BY <2>1, <2>2, <3>1 DEF MatchInv, Working
  <2> QED BY <2>2, <2>3, <2>4 DEF MatchInv
<1>5. CASE Shorten
  <2>1. conv' = Rebuilt' /\ phase' \notin {"record", "batch"}
    BY <1>5 DEF Shorten
  <2> QED BY <1>b, <2>1 DEF MatchInv, Working
<1>6. CASE Ask
  <2>1. /\ phase \in {"request", "called"} /\ phase' = "record" /\ conv' = conv
        /\ Rebuilt' = Rebuilt /\ recorded' = 0 /\ answered' = <<>>
    BY <1>6 DEF Ask
  <2>2. LeftOver(conv, {}) \/ Level(conv, Rebuilt)
    BY <2>1 DEF MatchInv, Up
  <2>3. Level(conv, Rebuilt) => Ahead(conv, Rebuilt, "call", batch', 0)
    BY <1>0 DEF Level, Ahead
  <2> QED BY <2>1, <2>2, <2>3 DEF MatchInv
<1>7. CASE Record
  <2>1. /\ phase = "record" /\ batch' = batch /\ answered' = answered /\ recorded' = recorded + 1
        /\ Rebuilt' = Rebuilt \o <<Item("call", batch[recorded + 1])>>
        /\ \/ phase' = "record" /\ conv' = conv
           \/ /\ phase' = "batch" /\ conv' = conv \o Calls("call", batch)
              /\ recorded + 1 = Len(batch)
    BY <1>7 DEF Record
  <2>2. answered = <<>> /\ (LeftOver(conv, {}) \/ Ahead(conv, Rebuilt, "call", batch, recorded))
    BY <2>1 DEF MatchInv, Up, Working
  <2>3. Item("call", batch[recorded + 1]) \in Items
    <3>1. recorded + 1 \in 1..Len(batch)
      BY <2>1 DEF TypeInv, BatchType
    <3>2. "call" \in Roles /\ batch[recorded + 1] \in Nat
      BY <1>0, <3>1 DEF Roles
    <3> QED BY <3>2, ItemType
  <2>4. ASSUME Ahead(conv, Rebuilt, "call", batch, recorded)
        PROVE  Ahead(conv, Rebuilt', "call", batch, recorded + 1)
    <3>1. \A k \in 1..recorded : batch[k] = batch[k]
      OBVIOUS
    <3> QED BY <1>0, <2>1, <2>3, <2>4, <3>1, AheadGrows
  <2>5. CASE phase' = "record" /\ conv' = conv
    BY <2>1, <2>2, <2>4, <2>5 DEF MatchInv
  <2>6. CASE /\ phase' = "batch" /\ conv' = conv \o Calls("call", batch)
             /\ recorded + 1 = Len(batch)
    <3>1. PICK d \in Seq(Items) : /\ d = Calls("call", batch) /\ Len(d) = Len(batch)
                                 /\ \A k \in 1..Len(batch) : d[k] = Item("call", batch[k])
      <4>1. "call" \in Roles
        BY DEF Roles
      <4> QED BY <1>0, <4>1, CallsType
    <3>2. CASE LeftOver(conv, {})
      <4>1. \A k \in 1..Len(d) : d[k].role # "result"
        BY <3>1, Fields
      <4>2. \A i \in 1..Len(conv) : conv[i].role = "call" => conv[i].id \notin ToSet(batch)
        BY <1>a, <2>1 DEF LiveCalls, IsCall
      <4>3. LeftOver(conv \o d, ToSet(batch))
        BY <1>0, <3>2, <4>1, <4>2, LeftStays
      <4> QED BY <2>1, <2>2, <2>6, <3>1, <4>3 DEF MatchInv
    <3>3. CASE Ahead(conv, Rebuilt, "call", batch, recorded)
      <4>1. PICK e : e = Rebuilt'
        OBVIOUS
      <4>2. /\ Len(e) = Len(conv) + Len(batch) /\ Same(conv, e)
            /\ \A k \in 1..Len(batch) : e[Len(conv) + k] = Item("call", batch[k])
        BY <2>4, <2>6, <3>3, <4>1 DEF Ahead
      <4>3. e \in Seq(Items)
        <5>1. PICK item \in Items : item = Item("call", batch[recorded + 1])
          BY <2>3
        <5> QED BY <1>0, <2>1, <4>1, <5>1
      <4>4. Level(conv \o d, e)
        BY <1>0, <3>1, <4>2, <4>3, CatchesUp
      <4>5. Ahead(conv \o d, e, "result", <<>>, 0)
        <5>1. Len(conv \o d) \in Nat
          BY <1>0, Concat
        <5> QED BY <4>4, <5>1 DEF Level, Ahead
      <4>6. Len(<<>>) = 0
        OBVIOUS
      <4> QED BY <2>1, <2>2, <2>6, <3>1, <4>1, <4>5, <4>6 DEF MatchInv
    <3> QED BY <2>2, <3>2, <3>3
  <2> QED BY <2>1, <2>5, <2>6
<1>8. CASE Answer
  <2>1. PICK c \in Unanswered : /\ answered' = answered \o <<c>>
                                /\ Rebuilt' = Rebuilt \o <<Item("result", c)>>
    BY <1>8 DEF Answer
  <2>2. phase = "batch" /\ phase' = "batch" /\ conv' = conv /\ batch' = batch
    BY <1>8 DEF Answer
  <2>3. c \in Nat /\ c \notin ToSet(answered)
    <3>1. c \in ToSet(batch) /\ c \notin ToSet(answered)
      BY <2>1 DEF Unanswered
    <3> QED BY <1>0, <3>1, Elements
  <2>4. PICK n \in Nat : n = Len(answered)
    BY <1>0
  <2>5. PICK more : more = answered'
    OBVIOUS
  <2>6. /\ Len(more) = n + 1 /\ more[n + 1] = c
        /\ \A k \in 1..n : more[k] = answered[k]
    BY <1>0, <2>1, <2>3, <2>4, <2>5
  <2>7. \A k \in 1..n : answered[k] # c
    BY <1>0, <2>3, <2>4, Elements
  <2>8. \A k, l \in 1..Len(more) : more[k] = more[l] => k = l
    <3>1. \A k, l \in 1..n : answered[k] = answered[l] => k = l
      BY <2>2, <2>4 DEF MatchInv
    <3>2. \A k \in 1..Len(more) : k \in 1..n \/ k = n + 1
      BY <2>6
    <3> QED BY <2>6, <2>7, <3>1, <3>2
  <2>9. ASSUME Ahead(conv, Rebuilt, "result", answered, Len(answered))
        PROVE  Ahead(conv, Rebuilt', "result", more, Len(more))
    <3>1. "result" \in Roles
      BY DEF Roles
    <3>2. Item("result", more[n + 1]) \in Items
      BY <2>3, <2>6, <3>1, ItemType
    <3>3. Ahead(conv, Rebuilt, "result", answered, n)
      BY <2>4, <2>9
    <3>4. Ahead(conv, Rebuilt \o <<Item("result", more[n + 1])>>, "result", more, n + 1)
      BY <1>0, <2>6, <3>2, <3>3, AheadGrows
    <3> QED BY <2>1, <2>6, <3>4
  <2> QED BY <2>2, <2>5, <2>8, <2>9 DEF MatchInv, Up, Working
<1>9. CASE Leave
  <2>1. phase = "batch" /\ phase' = "handle" /\ conv' = conv
    BY <1>9 DEF Leave
  <2>2. BatchAtEnd(conv, batch) /\ Len(batch) >= 1
    BY <1>a, <2>1 DEF LiveCalls, BatchInv, Working
  <2>3. /\ \A k \in 1..Len(batch) : Open(conv, batch[k])
        /\ \A i \in 1..Len(conv) : conv[i].role = "result" => conv[i].id \notin ToSet(batch)
    BY <1>0, <2>2, BatchOpen
  <2>4. 1 \in 1..Len(batch)
    BY <1>0, <2>2
  <2>5. PICK i \in 1..Len(conv) : conv[i] = Item("call", batch[1])
    BY <2>3, <2>4 DEF Open
  <2>6. batch[1] \in ToSet(batch)
    BY <1>0, <2>4, Elements
  <2>7. ~HasItem(conv, "result", batch[1])
    BY <2>3, <2>6, Fields DEF HasItem
  <2>8. LeftOver(conv, {})
    BY <2>5, <2>7, Fields DEF LeftOver
  <2> QED BY <2>1, <2>8 DEF MatchInv
<1>10. CASE Collect
  <2>1. /\ phase = "batch" /\ phase' = "prepare" /\ Unanswered = {}
        /\ conv' = conv \o Calls("result", batch) /\ Rebuilt' = Rebuilt
    BY <1>10 DEF Collect
  <2>2. PICK d \in Seq(Items) : /\ d = Calls("result", batch) /\ Len(d) = Len(batch)
                               /\ \A k \in 1..Len(batch) : d[k] = Item("result", batch[k])
    <3>1. "result" \in Roles
      BY DEF Roles
    <3> QED BY <1>0, <3>1, CallsType
  <2>3. Len(answered) = Len(batch) /\ ToSet(answered) = ToSet(batch)
    BY <1>a, <2>1, AllAnswered
  <2>4. CASE LeftOver(conv, ToSet(batch))
    <3>1. \A k \in 1..Len(d) : d[k].role = "result" => d[k].id \in ToSet(batch)
      BY <1>0, <2>2, Fields, Elements
    <3>2. LeftOver(conv \o d, {})
      BY <1>0, <2>4, <3>1, LeftStays
    <3> QED BY <2>1, <2>2, <3>2 DEF MatchInv
  <2>5. CASE Ahead(conv, Rebuilt, "result", answered, Len(answered))
    <3>1. PICK n \in Nat : n = Len(batch) /\ n = Len(answered)
      BY <1>0, <2>3
    <3>2. /\ Len(Rebuilt) = Len(conv) + n /\ Same(conv, Rebuilt)
          /\ \A k \in 1..n : Rebuilt[Len(conv) + k] = Item("result", answered[k])
      BY <2>5, <3>1 DEF Ahead
    <3>3. {answered[k] : k \in 1..n} = {batch[k] : k \in 1..n}
      BY <1>0, <2>3, <3>1, Elements
    <3>4. {Rebuilt[Len(conv) + k] : k \in 1..n} =
            {Item("result", x) : x \in {answered[k] : k \in 1..n}}
      BY <3>2
    <3>5. {d[k] : k \in 1..n} = {Item("result", x) : x \in {batch[k] : k \in 1..n}}
      BY <2>2, <3>1
    <3>6. {Rebuilt[Len(conv) + k] : k \in 1..n} = {d[k] : k \in 1..n}
      BY <3>3, <3>4, <3>5
    <3>7. \A k \in 1..n : d[k].role = "result"
      BY <2>2, <3>1, Fields
    <3>8. Level(conv \o d, Rebuilt)
      BY <1>0, <2>2, <3>1, <3>2, <3>6, <3>7, CatchesUp
    <3> QED BY <2>1, <2>2, <3>8 DEF MatchInv, Working
  <2>6. LeftOver(conv, ToSet(batch)) \/ Ahead(conv, Rebuilt, "result", answered, Len(answered))
    BY <2>1 DEF MatchInv, Up, Working
  <2> QED BY <2>4, <2>5, <2>6
<1>11. CASE Stay
  <2>1. /\ UNCHANGED <<phase, conv, used, batch, recorded, answered>> /\ Rebuilt' = Rebuilt
        /\ Up' <=> Up
    BY <1>11 DEF Stay, Up
  <2> QED BY <2>1 DEF MatchInv
<1> QED
  BY <1>1, <1>2, <1>3, <1>4, <1>5, <1>6, <1>7, <1>8, <1>9, <1>10, <1>11 DEF Moves

\* A conversation that is resumed is the one that was left, up to the order of the results of a
\* batch, if every call has its result: no failed append, but any crash, cancellation, compaction
\* and number of resumes before.
THEOREM ResumesTheSame == ASSUME MaxFaults = 0 PROVE Spec => []SameUpToBatchOrder
<1>1. Init => MatchInv
  BY DEF Init, MatchInv, Up
<1>2. TypeInv /\ QuietInv /\ CallInv /\ MatchInv /\ [Next]_vars => MatchInv'
  BY StepMoves, MatchStep
<1>3. ASSUME TypeInv, MatchInv PROVE SameUpToBatchOrder
  <2>1. SUFFICES ASSUME Settled, Pending(conv) = {}
                 PROVE  /\ Len(conv) = Len(Rebuilt)
                        /\ \A i \in 1..Len(conv) :
                             i = Len(conv) \/ conv[i + 1].role # "result" =>
                               ToSet(SubSeq(conv, 1, i)) = ToSet(SubSeq(Rebuilt, 1, i))
    BY DEF SameUpToBatchOrder, Rebuilt
  <2>2. Up /\ phase \notin {"record", "batch"}
    BY <2>1 DEF Settled, Up
  <2>3. ~LeftOver(conv, {})
    BY <2>1 DEF LeftOver, Pending
  <2>4. Level(conv, Rebuilt)
    BY <1>3, <2>2, <2>3 DEF MatchInv
  <2>5. conv \in Seq(Items) /\ Rebuilt \in Seq(Items) /\ Len(conv) \in Nat
    BY <1>3, Typed
  <2>6. ASSUME NEW c \in Seq(Items), NEW i \in 1..Len(c)
        PROVE  ToSet(SubSeq(c, 1, i)) = Upto(c, i)
    <3>1. /\ SubSeq(c, 1, i) \in Seq(Items) /\ Len(SubSeq(c, 1, i)) = i
          /\ \A k \in 1..i : SubSeq(c, 1, i)[k] = c[k]
      OBVIOUS
    <3>2. PICK s \in Seq(Items) : s = SubSeq(c, 1, i) /\ Len(s) = i /\ \A k \in 1..i : s[k] = c[k]
      BY <3>1
    <3>3. ToSet(s) = {s[k] : k \in 1..Len(s)}
      BY DEF ToSet
    <3> QED BY <3>2, <3>3 DEF Upto
  <2> QED BY <2>4, <2>5, <2>6 DEF Level, Same
<1> QED
  BY <1>1, <1>2, <1>3, TypeInvHolds, QuietHolds, CallInvHolds, PTL DEF Spec

=============================================================================
