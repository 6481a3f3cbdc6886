-------------------------- MODULE AlgorithmsProofs --------------------------
(***************************************************************************)
(* Proofs about the pure functions of Algorithms, for inputs of every size. *)
(* A loop is a recursive function; what it does follows from an instance of *)
(* Folding, which gives its rounds, and an assertion that every round keeps *)
(* (EveryRound). The first sections have a function each, the last one says *)
(* of each behaviour of Algorithms that it looks at one such function, and  *)
(* draws the invariants that the run of Algorithms checks.                  *)
(***************************************************************************)
EXTENDS Algorithms, FiniteSetTheorems, TLAPS

\* The loops, each with its round.
Merged(none, config, layer) == L!DeepMerge(config, layer)
Descending(pair, side, q) == L!Descend(pair[1], pair[2], side, q)

Asked(case, answer, name) == R!AskNext(answer, name, case.request, case.world)
Scanned(request, found, file) == R!ScanFile(found, file, request)
Summed(case, sum, file) == sum + MatchesOf(case, file)
Kept(none, kept, entry) == IF entry.skipped THEN kept ELSE Append(kept, entry)
Cut(bounds, chunks, node) == R!ChunkNode(chunks, node, bounds.lines, bounds.size, bounds.overlap)
Join(none, joined, s) == joined \o s
Sending(none, sent, message) == S!ChatMessage(sent, message)

Pieces == INSTANCE Folding WITH Step <- G!WithPiece
Config == INSTANCE Folding WITH Step <- Merged
Descent == INSTANCE Folding WITH Step <- Descending
Plan == INSTANCE Folding WITH Step <- Asked
Files == INSTANCE Folding WITH Step <- Scanned
Sums == INSTANCE Folding WITH Step <- Summed
Listed == INSTANCE Folding WITH Step <- Kept
Nodewise == INSTANCE Folding WITH Step <- Cut
Joins == INSTANCE Folding WITH Step <- Join
Sent == INSTANCE Folding WITH Step <- Sending

\* An assertion about every round of a loop, round by round.
LEMMA EveryRound ==
  ASSUME NEW n \in Nat, NEW T, 0 \in T, \A i \in 1..n : i - 1 \in T => i \in T
  PROVE  \A i \in 0..n : i \in T
<1> DEFINE Bad == {i \in 0..n : i \notin T}
<1>1. SUFFICES ASSUME Bad # {} PROVE FALSE
  OBVIOUS
<1>2. PICK i \in Bad : \A k \in Bad : i <= k
  <2>1. Bad \subseteq Nat
    OBVIOUS
  <2> HIDE DEF Bad
  <2> QED BY <1>1, <2>1, Pieces!LeastNumber
<1>3. i \in 1..n /\ i - 1 \in 0..n
  BY <1>2
<1>4. i - 1 \notin Bad
  BY <1>2, <1>3
<1> QED
  BY <1>2, <1>3, <1>4

\* The least and the greatest of some of the numbers up to n.
LEMMA MinIsLeast ==
  ASSUME NEW U, U \subseteq Nat, U # {}
  PROVE  Min(U) \in U /\ \A x \in U : Min(U) <= x
  BY Pieces!LeastNumber DEF Min

LEMMA MaxIsGreatest ==
  ASSUME NEW n \in Nat, NEW U, U \subseteq 0..n, U # {}
  PROVE  Max(U) \in U /\ \A x \in U : Max(U) >= x
<1> DEFINE Rest == {r \in Nat : \E x \in U : r = n - x}
<1>1. Rest \subseteq Nat /\ Rest # {}
  <2>1. PICK x \in U : x \in 0..n
    OBVIOUS
  <2>2. n - x \in Rest
    BY <2>1
  <2> QED BY <2>2
<1>2. PICK r \in Rest : \A q \in Rest : r <= q
  <2> HIDE DEF Rest
  <2> QED BY <1>1, Pieces!LeastNumber
<1>3. PICK x \in U : r = n - x
  BY <1>2
<1>4. \A y \in U : x >= y
  BY <1>2, <1>3
<1> QED
  BY <1>4 DEF Max

\* With one more number a set has what it had, or that one.
LEMMA OneMore ==
  ASSUME NEW U, U \subseteq Nat, NEW i \in Nat, i # 0
  PROVE  /\ U \cap (1..(i - 1)) = {} => U \cap (1..i) = {} \/ U \cap (1..i) = {i}
         /\ U \cap (1..(i - 1)) # {} => U \cap (1..i) # {}
  OBVIOUS

LEMMA UpToIsSeq ==
  ASSUME NEW n \in Nat, NEW A, NEW x \in UpTo(n, A)
  PROVE  x \in Seq(A) /\ Len(x) \in 0..n
  BY DEF UpTo

-----------------------------------------------------------------------------
(* The decision on a tool call                                                *)

\* The loop of CommandPolicy._classify_compound.
LEMMA CompoundRounds ==
  ASSUME NEW network, NEW pieces, Len(pieces) \in Nat
  PROVE  \E f : /\ f[0] = "none"
                /\ \A i \in 1..Len(pieces) : f[i] = G!WithPiece(network, f[i - 1], pieces[i])
                /\ G!ClassifyCompound(pieces, network)
                     = IF f[Len(pieces)] = "none" THEN "deny" ELSE f[Len(pieces)]
<1>1. \E f : Pieces!Rounds(network, "none", pieces, Len(pieces), f)
  BY Pieces!RoundsExist
<1>2. \E f : /\ Pieces!Rounds(network, "none", pieces, Len(pieces), f)
             /\ G!ClassifyCompound(pieces, network)
                  = IF f[Len(pieces)] = "none" THEN "deny" ELSE f[Len(pieces)]
  BY <1>1 DEF Pieces!Rounds, G!ClassifyCompound
<1> QED
  BY <1>2 DEF Pieces!Rounds

Risks == {"safe", "prompt", "deny"}

LEMMA SingleRisk ==
  ASSUME NEW c, NEW network PROVE G!ClassifySingle(c, network) \in Risks
  BY DEF G!ClassifySingle, Risks

\* Of two risks the one that is higher, however they come.
LEMMA HigherOfTwo ==
  ASSUME NEW h \in Risks \cup {"none"}, NEW r \in Risks
  PROVE  /\ G!HigherRisk(h, r) \in Risks
         /\ "deny" \in {h, r} => G!HigherRisk(h, r) = "deny"
         /\ "prompt" \in {h, r} => G!HigherRisk(h, r) # "safe"
  BY DEF G!HigherRisk, G!Rank, Risks

\* The risk of a line is no lower than that of any of its pieces.
LEMMA CompoundIsHighest ==
  ASSUME NEW network, NEW C, NEW pieces \in Seq(C), NEW j \in 1..Len(pieces), pieces[j] # G!Broken
  PROVE  LET risk == G!ClassifySingle(pieces[j], network)
             line == G!ClassifyCompound(pieces, network)
         IN /\ risk = "deny" => line = "deny"
            /\ risk = "prompt" => line # "safe"
            /\ line \in Risks
<1> DEFINE n == Len(pieces)
           risk(i) == G!ClassifySingle(pieces[i], network)
<1>1. n \in Nat
  OBVIOUS
<1>2. PICK f : /\ f[0] = "none"
               /\ \A i \in 1..n : f[i] = G!WithPiece(network, f[i - 1], pieces[i])
               /\ G!ClassifyCompound(pieces, network) = IF f[n] = "none" THEN "deny" ELSE f[n]
  BY <1>1, CompoundRounds
<1> DEFINE T == {i \in 0..n : /\ f[i] \in Risks \cup {"none"}
                              /\ i >= j => /\ f[i] # "none"
                                           /\ risk(j) = "deny" => f[i] = "deny"
                                           /\ risk(j) = "prompt" => f[i] # "safe"}
<1>3. 0 \in T
  BY <1>1, <1>2
<1>4. ASSUME NEW i \in 1..n, i - 1 \in T PROVE i \in T
  <2>1. f[i] = IF pieces[i] = G!Broken THEN f[i - 1] ELSE G!HigherRisk(f[i - 1], risk(i))
    BY <1>2 DEF G!WithPiece
  <2>2. risk(i) \in Risks
    BY SingleRisk
  <2>3. f[i - 1] \in Risks \cup {"none"}
    BY <1>4
  <2>4. CASE pieces[i] = G!Broken
    BY <1>4, <2>1, <2>4
  <2>5. CASE pieces[i] # G!Broken
    <3>1. /\ f[i] \in Risks
          /\ "deny" \in {f[i - 1], risk(i)} => f[i] = "deny"
          /\ "prompt" \in {f[i - 1], risk(i)} => f[i] # "safe"
      BY <2>1, <2>2, <2>3, <2>5, HigherOfTwo
    <3>2. CASE i = j
      BY <3>1, <3>2 DEF Risks
    <3>3. CASE i # j
      <4>1. i >= j => i - 1 >= j
        BY <3>3
      <4>2. f[i - 1] = "deny" => f[i] = "deny"
        BY <3>1
      <4>3. f[i - 1] \notin {"none", "safe"} => f[i] # "safe"
        BY <3>1, <2>3 DEF Risks
      <4> QED BY <1>4, <3>1, <4>1, <4>2, <4>3 DEF Risks
    <3> QED BY <3>2, <3>3
  <2> QED BY <2>4, <2>5
<1>5. \A i \in 0..n : i \in T
  <2> HIDE DEF T
  <2> QED BY <1>1, <1>3, <1>4, EveryRound
<1> QED
  BY <1>1, <1>2, <1>5 DEF Risks

\* A line with a piece that is denied is denied, be it the only one or one of many; a line
\* with a piece that needs consent is not safe.
LEMMA LineIsHighest ==
  ASSUME NEW network, NEW C, NEW line, line.pieces \in Seq(C),
         NEW c \in ToSet(line.pieces), c # G!Broken
  PROVE  /\ G!ClassifySingle(c, network) = "deny" => G!Classify(line, network) = "deny"
         /\ G!ClassifySingle(c, network) = "prompt" => G!Classify(line, network) \in {"prompt", "deny"}
<1>1. PICK j \in 1..Len(line.pieces) : line.pieces[j] = c
  BY DEF ToSet
<1>2. CASE ~line.closed \/ line.pieces = <<>>
  BY <1>2 DEF G!Classify
<1>3. CASE line.closed /\ line.pieces # <<>> /\ Len(line.pieces) > 1
  BY <1>1, <1>3, CompoundIsHighest DEF G!Classify, Risks
<1>4. CASE line.closed /\ line.pieces # <<>> /\ ~(Len(line.pieces) > 1)
  <2>1. j = 1
    BY <1>1, <1>4
  <2> QED BY <1>1, <1>4, <2>1 DEF G!Classify
<1> QED
  BY <1>2, <1>3, <1>4

\* A call of bash is executed only if its line could be read, no piece of it is denied, and, if
\* a piece needs consent, the policy asks for it and the user gave it: for every line, every
\* network setting, every policy (ToolRunner.run, CommandPolicy, ApprovalManager, BashTool).
THEOREM CommandsPassEveryGate ==
  ASSUME NEW tool, tool.name = "bash", NEW C, NEW line, line.pieces \in Seq(C),
         NEW settings, NEW consent \in BOOLEAN,
         G!Govern(tool, line, settings, consent) = "executed"
  PROVE  /\ G!SandboxAllows(tool, settings)
         /\ line.closed
         /\ \A c \in ToSet(line.pieces) \ {G!Broken} :
              /\ G!ClassifySingle(c, settings.network) # "deny"
              /\ G!ClassifySingle(c, settings.network) = "prompt" => settings.policy # "never" /\ consent
<1> DEFINE whole == G!Classify(line, settings.network)
<1>1. /\ G!SandboxAllows(tool, settings)
      /\ G!CommandAsks(line, settings) => consent
      /\ G!BashGuard(line, settings, G!CommandAsks(line, settings)) = "executed"
  BY DEF G!Govern, G!NeedsApproval
<1>2. whole # "deny" /\ (whole = "prompt" => G!CommandAsks(line, settings))
  BY <1>1 DEF G!BashGuard
<1>3. whole = "prompt" => settings.policy # "never" /\ consent
  BY <1>1, <1>2 DEF G!CommandAsks
<1>4. line.closed
  BY <1>2 DEF G!Classify
<1> HIDE DEF whole
<1>5. ASSUME NEW c \in ToSet(line.pieces) \ {G!Broken}
      PROVE  LET risk == G!ClassifySingle(c, settings.network) IN
             risk # "deny" /\ (risk = "prompt" => whole = "prompt")
  BY <1>2, LineIsHighest DEF whole
<1> QED
  BY <1>1, <1>3, <1>4, <1>5

\* A call of another tool is executed only if the sandbox admits its effects and the user
\* agreed where the policy asks.
THEOREM ToolsPassEveryGate ==
  ASSUME NEW tool, tool.name # "bash", NEW line, NEW settings, NEW consent \in BOOLEAN,
         G!Govern(tool, line, settings, consent) = "executed"
  PROVE  G!SandboxAllows(tool, settings) /\ (G!ToolAsks(tool, settings) => consent)
  BY DEF G!Govern, G!NeedsApproval

-----------------------------------------------------------------------------
(* Layers of configuration                                                    *)

Keyed(config, K) == IsConfig(config) /\ \A p \in DOMAIN config : p \in Seq(K) /\ p # <<>>

\* The paths on the way to a path, and those on the way to one of them.
LEMMA OnTheWay ==
  ASSUME NEW K, NEW p \in Seq(K), NEW i \in 1..Len(p)
  PROVE  /\ L!Way(p)[i] \in Seq(K) /\ L!Way(p)[i] # <<>> /\ Len(L!Way(p)[i]) = i
         /\ \A j \in 1..i : L!Way(L!Way(p)[i])[j] = L!Way(p)[j]
         /\ i = Len(p) => L!Way(p)[i] = p
<1>1. PICK q : q = SubSeq(p, 1, i)
  OBVIOUS
<1>2. q \in Seq(K) /\ Len(q) = i /\ q # <<>>
  BY <1>1
<1>3. L!Way(p)[i] = q
  BY <1>1 DEF L!Way
<1>4. ASSUME NEW j \in 1..i PROVE L!Way(q)[j] = L!Way(p)[j]
  <2>1. L!Way(q)[j] = SubSeq(q, 1, j) /\ L!Way(p)[j] = SubSeq(p, 1, j)
    BY <1>2 DEF L!Way
  <2>2. SubSeq(SubSeq(p, 1, i), 1, j) = SubSeq(p, 1, j)
    OBVIOUS
  <2> QED BY <1>1, <2>1, <2>2
<1>5. i = Len(p) => q = p
  BY <1>1
<1> QED
  BY <1>2, <1>3, <1>4, <1>5

\* The walk down a path.
Deep(base, layer, p, i) == \A j \in 1..i : L!TableInBoth(base, layer, L!Way(p)[j])
Parted(base, layer, p, j) ==
  /\ Deep(base, layer, p, j - 1)
  /\ L!Way(p)[j] \in DOMAIN layer /\ ~L!TableInBoth(base, layer, L!Way(p)[j])
Left(base, layer, p, j) == Deep(base, layer, p, j - 1) /\ L!Way(p)[j] \notin DOMAIN layer
Walked(base, layer, p, side, i) ==
  \/ side = "both" /\ Deep(base, layer, p, i)
  \/ side = "base" /\ \E j \in 1..i : Left(base, layer, p, j)
  \/ side = "layer" /\ \E j \in 1..i : Parted(base, layer, p, j)

LEMMA SideIsWalked ==
  ASSUME NEW base, NEW layer, NEW p, Len(p) \in Nat
  PROVE  Walked(base, layer, p, L!Side(base, layer, p), Len(p))
<1>1. PICK c, s : c = <<base, layer>> /\ s = L!Way(p)
  OBVIOUS
<1>2. PICK f : Descent!Rounds(c, "both", s, Len(p), f)
  BY Descent!RoundsExist
<1>3. f = [i \in 0..Len(p) |-> IF i = 0 THEN "both" ELSE L!Descend(base, layer, f[i - 1], L!Way(p)[i])]
  BY <1>1, <1>2 DEF Descent!Rounds, Descending
<1>4. \E g : /\ g = [i \in 0..Len(p) |-> IF i = 0 THEN "both" ELSE L!Descend(base, layer, g[i - 1], L!Way(p)[i])]
             /\ L!Side(base, layer, p) = g[Len(p)]
  BY <1>3 DEF L!Side
<1>5. PICK g : /\ g = [i \in 0..Len(p) |-> IF i = 0 THEN "both" ELSE L!Descend(base, layer, g[i - 1], L!Way(p)[i])]
               /\ L!Side(base, layer, p) = g[Len(p)]
  BY <1>4
<1>6. g[0] = "both" /\ \A i \in 1..Len(p) : g[i] = L!Descend(base, layer, g[i - 1], L!Way(p)[i])
  BY <1>5
<1> DEFINE T == {i \in 0..Len(p) : Walked(base, layer, p, g[i], i)}
<1>7. 0 \in T
  BY <1>6 DEF Walked, Deep
<1>8. ASSUME NEW i \in 1..Len(p), i - 1 \in T PROVE i \in T
  <2>1. Walked(base, layer, p, g[i - 1], i - 1) /\ g[i] = L!Descend(base, layer, g[i - 1], L!Way(p)[i])
    BY <1>6, <1>8
  <2>2. CASE g[i - 1] = "both" /\ Deep(base, layer, p, i - 1)
    <3>1. CASE L!Way(p)[i] \notin DOMAIN layer
      BY <2>1, <2>2, <3>1 DEF L!Descend, Walked, Left
    <3>2. CASE L!TableInBoth(base, layer, L!Way(p)[i])
      <4>1. L!Way(p)[i] \in DOMAIN layer
        BY <3>2 DEF L!TableInBoth
      <4>2. Deep(base, layer, p, i)
        <5>1. \A j \in 1..i : j \in 1..(i - 1) \/ j = i
          OBVIOUS
        <5> QED BY <2>2, <3>2, <5>1 DEF Deep
      <4> QED BY <2>1, <2>2, <3>2, <4>1, <4>2 DEF L!Descend, Walked
    <3>3. CASE L!Way(p)[i] \in DOMAIN layer /\ ~L!TableInBoth(base, layer, L!Way(p)[i])
      BY <2>1, <2>2, <3>3 DEF L!Descend, Walked, Parted
    <3> QED BY <3>1, <3>2, <3>3
  <2>3. CASE g[i - 1] = "base" /\ \E j \in 1..(i - 1) : Left(base, layer, p, j)
    <3>1. g[i] = "base"
      BY <2>1, <2>3 DEF L!Descend
    <3> QED BY <2>3, <3>1 DEF Walked
  <2>4. CASE g[i - 1] = "layer" /\ \E j \in 1..(i - 1) : Parted(base, layer, p, j)
    <3>1. g[i] = "layer"
      BY <2>1, <2>4 DEF L!Descend
    <3> QED BY <2>4, <3>1 DEF Walked
  <2> QED BY <2>1, <2>2, <2>3, <2>4 DEF Walked
<1>9. Len(p) \in T
  <2> HIDE DEF T
  <2>1. \A i \in 0..Len(p) : i \in T
    BY <1>7, <1>8, EveryRound
  <2> QED BY <2>1
<1> QED
  BY <1>5, <1>9

\* What a layer over a base is: all of the layer, and all of the base that the layer does not
\* cut off, with the layer's value where both have one.
LaidOver(both, base, layer) ==
  /\ \A p : p \in DOMAIN both <=> p \in DOMAIN layer \/ (p \in DOMAIN base /\ ~CutsOff(layer, p))
  /\ \A p \in DOMAIN layer : both[p] = layer[p]
  /\ \A p \in DOMAIN both \ DOMAIN layer : both[p] = base[p]

LEMMA GiverIsRight ==
  ASSUME NEW K, NEW base, NEW layer, Keyed(base, K), Keyed(layer, K), NEW p \in Seq(K), p # <<>>,
         NEW giver, giver = L!Giver(base, layer, p)
  PROVE  /\ p \in DOMAIN layer => p \in DOMAIN giver /\ giver[p] = layer[p]
         /\ p \notin DOMAIN layer =>
              /\ p \in DOMAIN giver <=> p \in DOMAIN base /\ ~CutsOff(layer, p)
              /\ p \in DOMAIN giver => giver[p] = base[p]
<1>1. PICK n \in Nat \ {0} : n = Len(p)
  OBVIOUS
<1>2. PICK side : side = L!Side(base, layer, p)
  OBVIOUS
<1>3. Walked(base, layer, p, side, n) /\ giver = IF side = "base" THEN base ELSE layer
  BY <1>1, <1>2, SideIsWalked DEF L!Giver
<1>4. /\ L!Way(p)[n] = p
      /\ \A i \in 1..n : Len(L!Way(p)[i]) = i /\ \A j \in 1..i : L!Way(L!Way(p)[i])[j] = L!Way(p)[j]
  BY <1>1, OnTheWay
<1>5. ASSUME NEW config, IsConfig(config), NEW i \in 1..n, NEW j \in 1..(i - 1), L!Way(p)[i] \in DOMAIN config
      PROVE  L!Way(p)[j] \in DOMAIN config /\ config[L!Way(p)[j]].table
  BY <1>4, <1>5 DEF IsConfig
<1>6. IsConfig(base) /\ IsConfig(layer)
  BY DEF Keyed
<1>7. CASE side = "both" /\ Deep(base, layer, p, n)
  <2>1. L!TableInBoth(base, layer, p)
    BY <1>4, <1>7 DEF Deep
  <2> QED BY <1>3, <1>7, <2>1 DEF L!TableInBoth
<1>8. CASE side = "base" /\ \E j \in 1..n : Left(base, layer, p, j)
  <2>1. PICK j \in 1..n : Deep(base, layer, p, j - 1) /\ L!Way(p)[j] \notin DOMAIN layer
    BY <1>8 DEF Left
  <2>2. \A i \in j..n : L!Way(p)[i] \notin DOMAIN layer
    <3>1. SUFFICES ASSUME NEW i \in j..n, L!Way(p)[i] \in DOMAIN layer PROVE FALSE
      OBVIOUS
    <3>2. CASE i = j
      BY <2>1, <3>1, <3>2
    <3>3. CASE i # j
      BY <1>5, <1>6, <2>1, <3>1, <3>3
    <3> QED BY <3>2, <3>3
  <2>3. p \notin DOMAIN layer
    BY <1>4, <2>2
  <2>4. ~CutsOff(layer, p)
    <3>1. SUFFICES ASSUME NEW i \in 1..(n - 1), L!Way(p)[i] \in DOMAIN layer, ~layer[L!Way(p)[i]].table
                   PROVE  FALSE
      BY <1>1 DEF CutsOff
    <3>2. i \in 1..(j - 1)
      BY <2>2, <3>1
    <3> QED BY <2>1, <3>1, <3>2 DEF Deep, L!TableInBoth
  <2> QED BY <1>3, <1>8, <2>3, <2>4
<1>9. CASE side = "layer" /\ \E j \in 1..n : Parted(base, layer, p, j)
  <2>1. PICK j \in 1..n : /\ L!Way(p)[j] \in DOMAIN layer
                          /\ ~L!TableInBoth(base, layer, L!Way(p)[j])
    BY <1>9 DEF Parted
  <2>2. ASSUME p \notin DOMAIN layer, p \in DOMAIN base PROVE CutsOff(layer, p)
    <3>1. j \in 1..(n - 1)
      BY <1>4, <2>1, <2>2
    <3>2. L!Way(p)[j] \in DOMAIN base /\ base[L!Way(p)[j]].table
      BY <1>4, <1>5, <1>6, <2>2, <3>1
    <3>3. ~layer[L!Way(p)[j]].table
      BY <2>1, <3>2 DEF L!TableInBoth
    <3> QED BY <1>1, <2>1, <3>1, <3>3 DEF CutsOff
  <2> QED BY <1>3, <1>9, <2>2
<1> QED
  BY <1>3, <1>7, <1>8, <1>9 DEF Walked

LEMMA MergeIsLaidOver ==
  ASSUME NEW K, NEW base, NEW layer, Keyed(base, K), Keyed(layer, K),
         NEW both, both = L!DeepMerge(base, layer)
  PROVE  LaidOver(both, base, layer) /\ Keyed(both, K)
<1>1. /\ \A p : p \in DOMAIN both <=> /\ p \in DOMAIN base \cup DOMAIN layer
                                      /\ p \in DOMAIN L!Giver(base, layer, p)
      /\ \A p \in DOMAIN both : both[p] = L!Giver(base, layer, p)[p]
  BY DEF L!DeepMerge
<1>2. \A p \in DOMAIN base \cup DOMAIN layer : p \in Seq(K) /\ p # <<>>
  BY DEF Keyed
<1>3. LaidOver(both, base, layer)
  <2>1. ASSUME NEW p \in DOMAIN layer PROVE p \in DOMAIN both /\ both[p] = layer[p]
    <3>1. PICK giver : giver = L!Giver(base, layer, p)
      OBVIOUS
    <3>2. p \in DOMAIN giver /\ giver[p] = layer[p]
      BY <1>2, <3>1, GiverIsRight
    <3> QED BY <1>1, <3>1, <3>2
  <2>2. ASSUME NEW p, p \notin DOMAIN layer
        PROVE  /\ p \in DOMAIN both <=> p \in DOMAIN base /\ ~CutsOff(layer, p)
               /\ p \in DOMAIN both => both[p] = base[p]
    <3>1. CASE p \in DOMAIN base
      <4>1. PICK giver : giver = L!Giver(base, layer, p)
        OBVIOUS
      <4>2. /\ p \in DOMAIN giver <=> p \in DOMAIN base /\ ~CutsOff(layer, p)
            /\ p \in DOMAIN giver => giver[p] = base[p]
        BY <1>2, <2>2, <3>1, <4>1, GiverIsRight
      <4> QED BY <1>1, <3>1, <4>1, <4>2
    <3>2. CASE p \notin DOMAIN base
      BY <1>1, <2>2, <3>2
    <3> QED BY <3>1, <3>2
  <2> QED BY <2>1, <2>2 DEF LaidOver
<1>4. IsConfig(both)
  <2>1. SUFFICES ASSUME NEW p \in DOMAIN both, NEW i \in 1..(Len(p) - 1)
                 PROVE  L!Way(p)[i] \in DOMAIN both /\ both[L!Way(p)[i]].table
    BY DEF IsConfig
  <2>2. p \in DOMAIN layer \/ (p \in DOMAIN base /\ ~CutsOff(layer, p))
    BY <1>3 DEF LaidOver
  <2>3. PICK q : q = L!Way(p)[i]
    OBVIOUS
  <2>4. p \in Seq(K) /\ i \in 1..Len(p) /\ i \in Nat
    BY <1>2, <2>2
  <2>5. Len(q) = i /\ \A j \in 1..i : L!Way(q)[j] = L!Way(p)[j]
    BY <2>3, <2>4, OnTheWay
  <2>6. CASE p \in DOMAIN layer
    <3>1. q \in DOMAIN layer /\ layer[q].table
      BY <2>3, <2>6 DEF Keyed, IsConfig
    <3> QED BY <1>3, <2>3, <3>1 DEF LaidOver
  <2>7. CASE p \notin DOMAIN layer
    <3>1. p \in DOMAIN base /\ ~CutsOff(layer, p)
      BY <2>2, <2>7
    <3>2. q \in DOMAIN base /\ base[q].table
      BY <2>3, <3>1 DEF Keyed, IsConfig
    <3>3. CASE q \in DOMAIN layer
      <4>1. layer[q].table
        BY <2>3, <3>1, <3>3 DEF CutsOff
      <4> QED BY <1>3, <2>3, <3>3, <4>1 DEF LaidOver
    <3>4. CASE q \notin DOMAIN layer
      <4>1. ~CutsOff(layer, q)
        <5>1. \A j \in 1..(i - 1) : j \in 1..(Len(p) - 1) /\ j \in 1..i
          BY <2>4
        <5> QED BY <2>5, <3>1, <5>1 DEF CutsOff
      <4>2. q \in DOMAIN both /\ both[q] = base[q]
        BY <1>3, <3>2, <3>4, <4>1 DEF LaidOver
      <4> QED BY <2>3, <3>2, <4>2
    <3> QED BY <3>3, <3>4
  <2> QED BY <2>6, <2>7
<1> QED
  BY <1>1, <1>2, <1>3, <1>4 DEF Keyed

\* The loop of ConfigLoader.load.
LEMMA LoadRounds ==
  ASSUME NEW defaults, NEW layers, Len(layers) \in Nat
  PROVE  \E f : /\ f[0] = defaults
                /\ \A i \in 1..Len(layers) : f[i] = L!DeepMerge(f[i - 1], layers[i])
                /\ L!Load(defaults, layers) = f[Len(layers)]
<1>1. \E f : Config!Rounds(0, defaults, layers, Len(layers), f)
  BY Config!RoundsExist
<1>2. \E f : /\ Config!Rounds(0, defaults, layers, Len(layers), f)
             /\ L!Load(defaults, layers) = f[Len(layers)]
  BY <1>1 DEF Config!Rounds, L!Load, Merged
<1> QED
  BY <1>2 DEF Config!Rounds, Merged

\* Layer i gives p, and none of the layers behind it up to m cuts p off.
Stands(defaults, layers, i, m, p) ==
  /\ p \in DOMAIN LayerAt(defaults, layers, i)
  /\ \A j \in (i + 1)..m : ~CutsOff(LayerAt(defaults, layers, j), p)

\* It is the last of them that gives p.
LastOfAll(defaults, layers, i, m, p) ==
  /\ p \in DOMAIN LayerAt(defaults, layers, i)
  /\ \A j \in (i + 1)..m : p \notin DOMAIN LayerAt(defaults, layers, j)

\* ConfigLoader.load, for any number of layers, keys and tables inside tables: there is a setting
\* exactly where a layer, or the defaults, gives it and no later layer has a scalar for a table
\* around it, and its value is the one of the last layer that gives it. So a layer takes nothing
\* away that it does not mention.
THEOREM LastGiverWins ==
  ASSUME NEW K, NEW C, NEW defaults, NEW layers \in Seq(C), NEW config, config = L!Load(defaults, layers),
         Keyed(defaults, K), \A i \in 1..Len(layers) : Keyed(layers[i], K)
  PROVE  /\ IsConfig(config)
         /\ \A p : p \in DOMAIN config <=> \E i \in 0..Len(layers) : Stands(defaults, layers, i, Len(layers), p)
         /\ \A p \in DOMAIN config : \A i \in 0..Len(layers) :
              LastOfAll(defaults, layers, i, Len(layers), p) => config[p] = LayerAt(defaults, layers, i)[p]
<1> DEFINE n == Len(layers)
           at(i) == LayerAt(defaults, layers, i)
<1>1. n \in Nat
  OBVIOUS
<1>2. PICK f : /\ f[0] = defaults
               /\ \A i \in 1..n : f[i] = L!DeepMerge(f[i - 1], layers[i])
               /\ config = f[n]
  BY <1>1, LoadRounds, SMTT(30)
<1> DEFINE Known(m) == \A p : p \in DOMAIN f[m] <=> \E i \in 0..m : Stands(defaults, layers, i, m, p)
           Latest(m) == \A p \in DOMAIN f[m] : \A i \in 0..m :
                          LastOfAll(defaults, layers, i, m, p) => f[m][p] = at(i)[p]
           T == {m \in 0..n : Keyed(f[m], K) /\ Known(m) /\ Latest(m)}
<1>3. 0 \in T
  <2>1. at(0) = defaults /\ 0..0 = {0} /\ \A j \in (0 + 1)..0 : FALSE
    BY DEF LayerAt
  <2>2. Known(0)
    BY <1>2, <2>1 DEF Stands
  <2>3. Latest(0)
    BY <1>2, <2>1
  <2> QED BY <1>1, <1>2, <2>2, <2>3
<1>4. ASSUME NEW m \in 1..n, m - 1 \in T PROVE m \in T
  <2>1. Keyed(f[m - 1], K) /\ Known(m - 1) /\ Latest(m - 1)
    BY <1>4
  <2>2. at(m) = layers[m] /\ Keyed(at(m), K) /\ f[m] = L!DeepMerge(f[m - 1], at(m))
    BY <1>2 DEF LayerAt
  <2>3. LaidOver(f[m], f[m - 1], at(m)) /\ Keyed(f[m], K)
    BY <2>1, <2>2, MergeIsLaidOver
  <2>4. 0..m = (0..(m - 1)) \cup {m} /\ \A i \in 0..(m - 1) : (i + 1)..m = ((i + 1)..(m - 1)) \cup {m}
    OBVIOUS
  <2>5. (m + 1)..m = {}
    OBVIOUS
  <2> HIDE DEF at
  <2>6. Known(m)
    <3>1. \A p : Stands(defaults, layers, m, m, p) <=> p \in DOMAIN at(m)
      BY <2>5 DEF Stands, at
    <3>2. \A p : \A i \in 0..(m - 1) :
            Stands(defaults, layers, i, m, p) <=> Stands(defaults, layers, i, m - 1, p) /\ ~CutsOff(at(m), p)
      BY <2>4 DEF Stands, at
    <3>3. \A p : p \in DOMAIN f[m] <=> p \in DOMAIN at(m) \/ (p \in DOMAIN f[m - 1] /\ ~CutsOff(at(m), p))
      BY <2>3 DEF LaidOver
    <3>4. \A p : p \in DOMAIN f[m - 1] <=> \E i \in 0..(m - 1) : Stands(defaults, layers, i, m - 1, p)
      BY <2>1
    <3> QED BY <2>4, <3>1, <3>2, <3>3, <3>4
  <2>7. Latest(m)
    <3>1. SUFFICES ASSUME NEW p \in DOMAIN f[m], NEW i \in 0..m, LastOfAll(defaults, layers, i, m, p)
                   PROVE  f[m][p] = at(i)[p]
      OBVIOUS
    <3>2. CASE i = m
      <4>1. p \in DOMAIN at(m)
        BY <3>1, <3>2 DEF LastOfAll, at
      <4> QED BY <2>3, <3>2, <4>1 DEF LaidOver
    <3>3. CASE i # m
      <4>1. i \in 0..(m - 1)
        BY <3>3
      <4>2. p \notin DOMAIN at(m) /\ LastOfAll(defaults, layers, i, m - 1, p)
        BY <2>4, <3>1, <4>1 DEF LastOfAll, at
      <4>3. p \in DOMAIN f[m - 1] /\ f[m][p] = f[m - 1][p]
        BY <2>3, <3>1, <4>2 DEF LaidOver
      <4> QED BY <2>1, <4>1, <4>2, <4>3
    <3> QED BY <3>2, <3>3
  <2> QED BY <2>3, <2>6, <2>7
<1>5. n \in T
  <2> HIDE DEF T
  <2>1. \A i \in 0..n : i \in T
    BY <1>1, <1>3, <1>4, EveryRound
  <2> QED BY <1>1, <2>1
<1> QED
  BY <1>2, <1>5 DEF Keyed

-----------------------------------------------------------------------------
(* Searches                                                                   *)

\* ContextEngine with a strategy of its own: if the scan would find something and the search
\* gives nothing, an index has answered that is there and has nothing stale.
THEOREM NamedSearchHidesNothing ==
  ASSUME NEW name, name # "auto", NEW request, NEW world, world["scan"] # {},
         R!Retrieve(name, request, world).matches = {}
  PROVE  /\ name \in DOMAIN world /\ name # "scan"
         /\ ~world[name].missing /\ world[name].stale = {}
<1>1. R!RetrieveBy(name, request, world).matches = {}
  BY DEF R!Retrieve
<1>2. R!Fallback(name, world).matches # {}
  BY DEF R!Fallback
<1>3. /\ name \in DOMAIN world /\ R!Ask(name, request, world).available
      /\ R!Ask(name, request, world).matches = {}
  BY <1>1, <1>2 DEF R!RetrieveBy, R!Unavailable
<1>4. name # "scan"
  BY <1>3 DEF R!Ask, R!Answer
<1>5. /\ R!Indexed(request, world[name]).available
      /\ R!Indexed(request, world[name]).matches = {}
  BY <1>3, <1>4 DEF R!Ask, R!Unavailable
<1>6. /\ ~world[name].missing /\ ~R!OnlyStale(world[name])
      /\ world[name].fresh = {}
  BY <1>5 DEF R!Indexed, R!Unavailable, R!Answer
<1> QED
  BY <1>3, <1>4, <1>6 DEF R!OnlyStale

\* The loop of ContextEngine._retrieve_auto.
LEMMA PlanRounds ==
  ASSUME NEW request, NEW world, NEW plan, Len(plan) \in Nat
  PROVE  \E f : /\ f[0] = R!NoResponse
                /\ \A i \in 1..Len(plan) : f[i] = R!AskNext(f[i - 1], plan[i], request, world)
                /\ R!AskInTurn(plan, request, world) = f[Len(plan)]
<1> DEFINE case == [request |-> request, world |-> world]
<1>1. \E f : Plan!Rounds(case, R!NoResponse, plan, Len(plan), f)
  BY Plan!RoundsExist
<1>2. case.request = request /\ case.world = world
  OBVIOUS
<1> HIDE DEF case
<1>3. \E f : /\ Plan!Rounds(case, R!NoResponse, plan, Len(plan), f)
             /\ R!AskInTurn(plan, request, world) = f[Len(plan)]
  BY <1>1, <1>2 DEF Plan!Rounds, R!AskInTurn, Asked
<1> QED
  BY <1>2, <1>3 DEF Plan!Rounds, Asked

\* What the engine has when it has asked some retrievers.
State(retriever, matches, attempted, done, error) ==
  [retriever |-> retriever, matches |-> matches, attempted |-> attempted, done |-> done, error |-> error]

\* One retriever that is there, asked by an engine that has nothing yet.
Asking(request, world, name, s, r, tried, d, e, answer, next) ==
  /\ name \in DOMAIN world /\ s = State(r, {}, tried, d, e) /\ d = FALSE
  /\ answer = R!Ask(name, request, world) /\ next = R!AskNext(s, name, request, world)
Told(name, longer, d, e, answer, next) ==
  /\ answer.matches # {} => \E t : t = TRUE /\ next = State(name, answer.matches, longer, t, "none")
  /\ answer.matches = {} => \E q : \E y \in {e, "none"} : next = State(q, {}, longer, d, y)
  /\ answer.matches = {} /\ name = "scan" => next = State(name, {}, longer, d, "none")

LEMMA AskOne ==
  ASSUME NEW request, NEW world, NEW name, NEW s, NEW r, NEW tried, NEW d, NEW e, NEW answer, NEW next,
         Asking(request, world, name, s, r, tried, d, e, answer, next)
  PROVE  Told(name, Append(tried, name), d, e, answer, next)
<1>0. PICK longer : longer = Append(tried, name)
  OBVIOUS
<1>9. Asking(request, world, name, s, r, tried, d, e, answer, next)
  OBVIOUS
<1>1. s.done = d /\ s.attempted = tried /\ [s EXCEPT !.attempted = longer] = State(r, {}, longer, d, e)
  BY <1>9 DEF State, Asking
<1>2. PICK t : t = R!Satisfies(answer)
  OBVIOUS
<1>3. next = IF ~answer.available THEN State(r, {}, longer, d, e)
             ELSE State(name, answer.matches, longer, t, "none")
  BY <1>0, <1>9, <1>1, <1>2 DEF R!AskNext, State, Asking
<1>4. t = (answer.matches # {})
  BY <1>2 DEF R!Satisfies
<1>5. ~answer.available => answer.matches = {}
  BY <1>9 DEF R!Ask, R!Indexed, R!Answer, R!Unavailable, Asking
<1>6. name = "scan" => answer.available
  BY <1>9 DEF R!Ask, R!Answer, Asking
<1>7. CASE answer.matches # {}
  BY <1>0, <1>3, <1>4, <1>5, <1>7 DEF Told
<1>8. CASE answer.matches = {}
  <2>1. t = d
    BY <1>9, <1>4, <1>8 DEF Asking
  <2> QED BY <1>0, <1>3, <1>6, <1>8, <2>1 DEF Told
<1> QED
  BY <1>7, <1>8

\* What an engine has found that went through a plan; finders are the places of the plan whose
\* retrievers have something.
FoundFirst(s, plan, request, world, finders) ==
  /\ finders = {} => \E r, d : d = FALSE /\ s = State(r, {}, plan, d, "none")
  /\ \A m \in finders : (\A i \in finders : m <= i) =>
       \E t : /\ t = TRUE
              /\ s = State(plan[m], R!Ask(plan[m], request, world).matches, SubSeq(plan, 1, m), t, "none")

\* ContextEngine goes through a plan of retrievers that are all there, in their order: it stops
\* at the first that finds something, and if none does it has asked them all.
THEOREM PlanFindsFirst ==
  ASSUME NEW C, NEW plan \in Seq(C), NEW request, NEW world,
         \A i \in 1..Len(plan) : plan[i] \in DOMAIN world,
         \E i \in 1..Len(plan) : plan[i] = "scan",
         NEW finders \in SUBSET (1..Len(plan)),
         \A i \in 1..Len(plan) : i \in finders <=> R!Ask(plan[i], request, world).matches # {}
  PROVE  FoundFirst(R!AskInTurn(plan, request, world), plan, request, world, finders)
<1> DEFINE n == Len(plan)
           ask(i) == R!Ask(plan[i], request, world)
<1>1. n \in Nat
  OBVIOUS
<1>2. PICK f : /\ f[0] = R!NoResponse
               /\ \A i \in 1..n : f[i] = R!AskNext(f[i - 1], plan[i], request, world)
               /\ R!AskInTurn(plan, request, world) = f[n]
  BY <1>1, PlanRounds
<1> DEFINE Nothing(i) == finders \cap (1..i) = {} =>
             \E r, d, e : /\ d = FALSE /\ f[i] = State(r, {}, SubSeq(plan, 1, i), d, e)
                          /\ (\E j \in 1..i : plan[j] = "scan") => e = "none"
           First(i) == \A m \in finders \cap (1..i) : (\A j \in finders : m <= j) =>
             \E t : t = TRUE /\ f[i] = State(plan[m], ask(m).matches, SubSeq(plan, 1, m), t, "none")
           T == {i \in 0..n : Nothing(i) /\ First(i)}
<1>3. 0 \in T
  <2>1. PICK d : d = FALSE
    OBVIOUS
  <2>2. SubSeq(plan, 1, 0) = <<>>
    OBVIOUS
  <2>3. f[0] = State("none", {}, SubSeq(plan, 1, 0), d, "unavailable")
    BY <1>2, <2>1, <2>2 DEF R!NoResponse, State
  <2>4. Nothing(0)
    BY <2>1, <2>3
  <2>5. First(0)
    OBVIOUS
  <2> QED BY <1>1, <2>4, <2>5
<1>4. ASSUME NEW i \in 1..n, i - 1 \in T PROVE i \in T
  <2>1. Nothing(i - 1) /\ First(i - 1)
    BY <1>4
  <2>2. f[i] = R!AskNext(f[i - 1], plan[i], request, world) /\ plan[i] \in DOMAIN world
    BY <1>2
  <2>6. /\ finders \cap (1..(i - 1)) = {} => finders \cap (1..i) = {} \/ finders \cap (1..i) = {i}
        /\ finders \cap (1..(i - 1)) # {} => finders \cap (1..i) # {}
    <3>1. finders \subseteq Nat /\ i \in Nat /\ i # 0
      BY <1>1
    <3> QED BY <3>1, OneMore
  <2> HIDE DEF T, Nothing, First
  <2>3. Append(SubSeq(plan, 1, i - 1), plan[i]) = SubSeq(plan, 1, i)
    OBVIOUS
  <2>4. CASE finders \cap (1..(i - 1)) = {}
    <3>1. PICK r, d, e : /\ d = FALSE /\ f[i - 1] = State(r, {}, SubSeq(plan, 1, i - 1), d, e)
                         /\ (\E j \in 1..(i - 1) : plan[j] = "scan") => e = "none"
      BY <2>1, <2>4 DEF Nothing
    <3>2. PICK answer : answer = ask(i)
      OBVIOUS
    <3>3. Told(plan[i], SubSeq(plan, 1, i), d, e, answer, f[i])
      <4>1. Asking(request, world, plan[i], f[i - 1], r, SubSeq(plan, 1, i - 1), d, e, answer, f[i])
        BY <2>2, <3>1, <3>2 DEF Asking
      <4> QED BY <2>3, <4>1, AskOne
    <3>4. i \in finders <=> answer.matches # {}
      BY <3>2
    <3>5. finders \cap (1..i) = {} \/ finders \cap (1..i) = {i}
      BY <2>4, <2>6
    <3>6. First(i)
      BY <3>2, <3>3, <3>4, <3>5 DEF First, Told
    <3>7. Nothing(i)
      <4>1. SUFFICES ASSUME finders \cap (1..i) = {}
                     PROVE  \E q, b, y : /\ b = FALSE /\ f[i] = State(q, {}, SubSeq(plan, 1, i), b, y)
                                         /\ (\E j \in 1..i : plan[j] = "scan") => y = "none"
        BY DEF Nothing
      <4>2. answer.matches = {}
        <5>1. i \notin finders
          BY <4>1
        <5> QED BY <3>4, <5>1
      <4>3. CASE plan[i] = "scan"
        BY <3>1, <3>3, <4>2, <4>3 DEF Told
      <4>4. CASE plan[i] # "scan"
        <5>1. (\E j \in 1..i : plan[j] = "scan") => e = "none"
          BY <3>1, <4>4
        <5>2. PICK q, y : y \in {e, "none"} /\ f[i] = State(q, {}, SubSeq(plan, 1, i), d, y)
          BY <3>3, <4>2 DEF Told
        <5> QED BY <3>1, <5>1, <5>2
      <4> QED BY <4>3, <4>4
    <3> QED BY <3>6, <3>7 DEF T
  <2>5. CASE finders \cap (1..(i - 1)) # {}
    <3>1. finders \cap (1..i) # {}
      BY <2>5, <2>6
    <3>2. ASSUME NEW m \in finders \cap (1..i), \A j \in finders : m <= j
          PROVE  \E t : t = TRUE /\ f[i] = State(plan[m], ask(m).matches, SubSeq(plan, 1, m), t, "none")
      <4>1. m \in finders \cap (1..(i - 1))
        <5>1. PICK j \in finders : j \in 1..(i - 1)
          BY <2>5
        <5>2. m <= j /\ m \in 1..i /\ m \in finders
          BY <3>2
        <5>3. m \in 1..(i - 1)
          BY <5>1, <5>2
        <5> QED BY <5>2, <5>3
      <4>2. PICK t : t = TRUE /\ f[i - 1] = State(plan[m], ask(m).matches, SubSeq(plan, 1, m), t, "none")
        BY <2>1, <3>2, <4>1 DEF First
      <4>3. PICK s, name, found, tried :
              s = f[i - 1] /\ name = plan[m] /\ found = ask(m).matches /\ tried = SubSeq(plan, 1, m)
        OBVIOUS
      <4>4. s = State(name, found, tried, t, "none")
        BY <4>2, <4>3
      <4>5. s.done = t
        BY <4>4 DEF State
      <4>6. f[i] = f[i - 1]
        BY <2>2, <4>2, <4>3, <4>5 DEF R!AskNext
      <4> QED BY <4>2, <4>6
    <3>3. First(i)
      BY <3>2 DEF First
    <3>4. Nothing(i)
      BY <3>1 DEF Nothing
    <3> QED BY <3>3, <3>4 DEF T
  <2> QED BY <2>4, <2>5
<1>5. \A i \in 0..n : i \in T
  <2> HIDE DEF T
  <2> QED BY <1>1, <1>3, <1>4, EveryRound
<1>6. n \in T
  <2> HIDE DEF T
  <2> QED BY <1>1, <1>5
<1>7. Nothing(n) /\ First(n)
  BY <1>6
<1>8. SubSeq(plan, 1, n) = plan /\ finders \subseteq 1..n
  OBVIOUS
<1>9. FoundFirst(f[n], plan, request, world, finders)
  BY <1>7, <1>8 DEF FoundFirst
<1> QED
  BY <1>2, <1>9

\* A plan asks for the files themselves once, and for nothing but the three retrievers.
LEMMA RouteScansOnce ==
  ASSUME NEW request
  PROVE  /\ R!Route(request) \in Seq({"symbol", "lexical", "scan"})
         /\ \E p \in 1..Len(R!Route(request)) : \A i \in 1..Len(R!Route(request)) :
              R!Route(request)[i] = "scan" <=> i = p
<1>1. PICK plan : plan = R!Route(request)
  OBVIOUS
<1>2. plan \in {<<"lexical", "scan">>, <<"scan", "lexical">>, <<"symbol", "scan">>,
                <<"symbol", "lexical", "scan">>, <<"scan">>}
  BY <1>1 DEF R!Route
<1>3. plan \in Seq({"symbol", "lexical", "scan"})
  <2>1. <<"scan">> \in Seq({"symbol", "lexical", "scan"})
    OBVIOUS
  <2>2. \A a, b \in {"symbol", "lexical", "scan"} : <<a, b>> \in Seq({"symbol", "lexical", "scan"})
    OBVIOUS
  <2>3. <<"symbol", "lexical", "scan">> \in Seq({"symbol", "lexical", "scan"})
    OBVIOUS
  <2>4. CASE plan \in {<<"lexical", "scan">>, <<"scan", "lexical">>, <<"symbol", "scan">>}
    BY <2>2, <2>4
  <2> QED BY <1>2, <2>1, <2>3, <2>4
<1>4. \E p \in 1..Len(plan) : \A i \in 1..Len(plan) : plan[i] = "scan" <=> i = p
  <2>1. CASE plan \in {<<"lexical", "scan">>, <<"symbol", "scan">>}
    <3>1. \A i \in 1..Len(plan) : plan[i] = "scan" <=> i = 2
      BY <2>1
    <3> QED BY <2>1, <3>1
  <2>2. CASE plan \in {<<"scan", "lexical">>, <<"scan">>}
    <3>1. \A i \in 1..Len(plan) : plan[i] = "scan" <=> i = 1
      BY <2>2
    <3> QED BY <2>2, <3>1
  <2>3. CASE plan = <<"symbol", "lexical", "scan">>
    <3>1. \A i \in 1..Len(plan) : plan[i] = "scan" <=> i = 3
      BY <2>3
    <3> QED BY <2>3, <3>1
  <2> QED BY <1>2, <2>1, <2>2, <2>3
<1> QED
  BY <1>1, <1>3, <1>4

\* Where there is no index the plan comes down to the scan.
LEMMA ScanAlone ==
  ASSUME NEW C, NEW plan \in Seq(C), NEW request, NEW world, DOMAIN world = {"scan"},
         NEW p \in 1..Len(plan), \A i \in 1..Len(plan) : plan[i] = "scan" <=> i = p
  PROVE  \E t : /\ t = (world["scan"] # {})
                /\ R!AskInTurn(plan, request, world)
                     = State("scan", world["scan"], <<"scan">>, t, "none")
<1> DEFINE n == Len(plan)
<1>1. n \in Nat
  OBVIOUS
<1>2. PICK f : /\ f[0] = R!NoResponse
               /\ \A i \in 1..n : f[i] = R!AskNext(f[i - 1], plan[i], request, world)
               /\ R!AskInTurn(plan, request, world) = f[n]
  BY <1>1, PlanRounds
<1>3. PICK t : t = (world["scan"] # {})
  OBVIOUS
<1>4. PICK first : first = State("scan", world["scan"], <<"scan">>, t, "none")
  OBVIOUS
<1> DEFINE T == {i \in 0..n : f[i] = IF i < p THEN R!NoResponse ELSE first}
<1>5. 0 \in T
  BY <1>1, <1>2
<1>6. ASSUME NEW i \in 1..n, i - 1 \in T PROVE i \in T
  <2>1. f[i] = R!AskNext(f[i - 1], plan[i], request, world)
    BY <1>2
  <2>2. f[i - 1] = IF i - 1 < p THEN R!NoResponse ELSE first
    BY <1>6
  <2> HIDE DEF T
  <2>3. CASE i # p
    <3>1. f[i] = f[i - 1]
      BY <2>1, <2>3 DEF R!AskNext
    <3>2. i - 1 < p <=> i < p
      BY <2>3
    <3> QED BY <2>2, <3>1, <3>2 DEF T
  <2>4. CASE i = p
    <3>1. f[i - 1] = R!NoResponse /\ plan[i] = "scan" /\ "scan" \in DOMAIN world
      BY <2>2, <2>4
    <3>2. PICK answer : answer = R!Ask("scan", request, world)
      OBVIOUS
    <3>3. answer.available /\ answer.matches = world["scan"]
      BY <3>2 DEF R!Ask, R!Answer
    <3>4. R!Satisfies(answer) = t
      BY <1>3, <3>3 DEF R!Satisfies
    <3>5. R!NoResponse.attempted = <<>> /\ ~R!NoResponse.done /\ Append(<<>>, "scan") = <<"scan">>
      BY DEF R!NoResponse
    <3>6. f[i] = [retriever |-> "scan", matches |-> answer.matches, attempted |-> <<"scan">>,
                  done |-> R!Satisfies(answer), error |-> "none"]
      BY <2>1, <3>1, <3>2, <3>3, <3>5 DEF R!AskNext
    <3>7. f[i] = first
      BY <1>4, <3>3, <3>4, <3>6 DEF State
    <3> QED BY <2>4, <3>7 DEF T
  <2> QED BY <2>3, <2>4
<1>7. \A i \in 0..n : i \in T
  <2> HIDE DEF T
  <2> QED BY <1>1, <1>5, <1>6, EveryRound
<1>8. n \in T
  <2> HIDE DEF T
  <2> QED BY <1>1, <1>7
<1>9. f[n] = first
  BY <1>8
<1> QED
  BY <1>2, <1>3, <1>4, <1>9

\* The loops of ScanRetriever, of the sum over all files, and of the listing.
Unscanned == [matches |-> 0, scanned |-> 0, error |-> FALSE]

LEMMA ScanRounds ==
  ASSUME NEW request, NEW files, Len(files) \in Nat
  PROVE  \E f : /\ f[0] = Unscanned
                /\ \A i \in 1..Len(files) : f[i] = R!ScanFile(f[i - 1], files[i], request)
                /\ R!Scan(request, files).matches = f[Len(files)].matches
                /\ R!Scan(request, files).error = f[Len(files)].error
                /\ R!Scan(request, files).truncated <=> f[Len(files)].matches >= request.max
<1>1. \E f : Files!Rounds(request, Unscanned, files, Len(files), f)
  BY Files!RoundsExist
<1>2. \E f : /\ Files!Rounds(request, Unscanned, files, Len(files), f)
             /\ R!Scan(request, files) = [matches |-> f[Len(files)].matches, scanned |-> f[Len(files)].scanned,
                                          truncated |-> R!Full(f[Len(files)], request.max),
                                          error |-> f[Len(files)].error]
  BY <1>1 DEF Files!Rounds, R!Scan, Scanned, Unscanned
<1>3. PICK f : /\ Files!Rounds(request, Unscanned, files, Len(files), f)
               /\ R!Scan(request, files) = [matches |-> f[Len(files)].matches, scanned |-> f[Len(files)].scanned,
                                            truncated |-> R!Full(f[Len(files)], request.max),
                                            error |-> f[Len(files)].error]
  BY <1>2
<1>4. f[0] = Unscanned
  BY <1>3 DEF Files!Rounds
<1>5. \A i \in 1..Len(files) : f[i] = R!ScanFile(f[i - 1], files[i], request)
  BY <1>3 DEF Files!Rounds, Scanned
<1>6. /\ R!Scan(request, files).matches = f[Len(files)].matches
      /\ R!Scan(request, files).error = f[Len(files)].error
      /\ R!Scan(request, files).truncated <=> R!Full(f[Len(files)], request.max)
  BY <1>3
<1> QED
  BY <1>4, <1>5, <1>6 DEF R!Full

LEMMA SumRounds ==
  ASSUME NEW case, Len(case.files) \in Nat
  PROVE  \E f : /\ f[0] = 0
                /\ \A i \in 1..Len(case.files) : f[i] = f[i - 1] + MatchesOf(case, case.files[i])
                /\ AllMatches(case) = f[Len(case.files)]
<1>1. \E f : Sums!Rounds(case, 0, case.files, Len(case.files), f)
  BY Sums!RoundsExist
<1>2. \E f : Sums!Rounds(case, 0, case.files, Len(case.files), f) /\ AllMatches(case) = f[Len(case.files)]
  BY <1>1 DEF Sums!Rounds, AllMatches, Summed
<1>3. PICK f : Sums!Rounds(case, 0, case.files, Len(case.files), f) /\ AllMatches(case) = f[Len(case.files)]
  BY <1>2
<1>4. f[0] = 0
  BY <1>3 DEF Sums!Rounds
<1>5. \A i \in 1..Len(case.files) : f[i] = f[i - 1] + MatchesOf(case, case.files[i])
  BY <1>3, SMTT(30) DEF Sums!Rounds, Summed
<1> QED
  BY <1>3, <1>4, <1>5

LEMMA ListRounds ==
  ASSUME NEW entries, Len(entries) \in Nat, NEW max
  PROVE  \E f, shown :
           /\ f[0] = <<>>
           /\ \A i \in 1..Len(entries) :
                f[i] = IF entries[i].skipped THEN f[i - 1] ELSE Append(f[i - 1], entries[i])
           /\ shown = SubSeq(f[Len(entries)], 1, IF max < Len(f[Len(entries)]) THEN max ELSE Len(f[Len(entries)]))
           /\ W!ListFiles(entries, max) = [shown |-> shown, truncated |-> W!TruncatedAt(Len(shown), max)]
<1>1. \E f : Listed!Rounds(0, <<>>, entries, Len(entries), f)
  BY Listed!RoundsExist
<1>2. PICK f : /\ Listed!Rounds(0, <<>>, entries, Len(entries), f)
               /\ LET kept == f[Len(entries)]
                      shown == SubSeq(kept, 1, IF max < Len(kept) THEN max ELSE Len(kept))
                  IN W!ListFiles(entries, max) = [shown |-> shown, truncated |-> W!TruncatedAt(Len(shown), max)]
  BY <1>1 DEF Listed!Rounds, W!ListFiles, Kept
<1>3. f[0] = <<>> /\ \A i \in 1..Len(entries) : f[i] = Kept(0, f[i - 1], entries[i])
  <2>1. Listed!Rounds(0, <<>>, entries, Len(entries), f)
    BY <1>2
  <2> QED BY <2>1 DEF Listed!Rounds
<1>4. \A i \in 1..Len(entries) :
        f[i] = IF entries[i].skipped THEN f[i - 1] ELSE Append(f[i - 1], entries[i])
  BY <1>3 DEF Kept
<1> QED
  BY <1>2, <1>3, <1>4

\* What a scan has found up to some file, with the sum of what there is up to it.
Scanning(s, max, sum) ==
  /\ s \in [matches : Nat, scanned : Nat, error : BOOLEAN] /\ s.matches <= max /\ sum \in Nat
  /\ s.error = TRUE \/ s.matches = sum \/ s.matches = max

\* A file of a scan: no more than the room there is, and all it has if that is less.
LEMMA ScanOne ==
  ASSUME NEW request, request.max \in Nat, NEW file, file.content \in Int,
         NEW s, NEW sum, Scanning(s, request.max, sum),
         NEW next, next = R!ScanFile(s, file, request)
  PROVE  /\ Scanning(next, request.max, sum + MatchesOf(request, file))
         /\ next.error = TRUE => s.error = TRUE \/ file.content = R!Gone
<1>1. PICK path, all :
        /\ path = IF file.inPath /\ request.mode # "content" THEN 1 ELSE 0
        /\ all = IF request.mode = "path" THEN 0 ELSE R!ScanLines(file)
  OBVIOUS
<1>2. PICK room, lines :
        /\ room = request.max - s.matches
        /\ lines = IF request.mode # "path" /\ path # room THEN R!ScanLines(file) ELSE 0
  OBVIOUS
<1>3. PICK found : found = IF path + lines < room THEN path + lines ELSE room
  OBVIOUS
<1>4. PICK vanished \in BOOLEAN :
        vanished = (request.mode # "path" /\ path # room /\ file.content = R!Gone)
  OBVIOUS
<1>5. R!ScanLines(file) \in Nat
  BY DEF R!ScanLines
<1>6. /\ s \in [matches : Nat, scanned : Nat, error : BOOLEAN] /\ s.matches <= request.max /\ sum \in Nat
      /\ s.matches \in Nat /\ s.scanned \in Nat /\ s.error \in BOOLEAN
      /\ s.error = TRUE \/ s.matches = sum \/ s.matches = request.max
  BY DEF Scanning
<1>7. path \in Nat /\ all \in Nat /\ room \in Nat /\ lines \in Nat /\ (lines = all \/ path = room)
  BY <1>1, <1>2, <1>5, <1>6
<1>8. MatchesOf(request, file) = IF file.escaped THEN 0 ELSE path + all
  BY <1>1 DEF MatchesOf
<1>9. CASE s.error = TRUE \/ s.matches >= request.max \/ file.escaped
  <2>1. next = s
    BY <1>9 DEF R!ScanFile, R!Full
  <2> QED BY <1>6, <1>7, <1>8, <1>9, <2>1 DEF Scanning
<1>10. CASE s.error = FALSE /\ ~(s.matches >= request.max) /\ ~file.escaped
  <2>1. next = [matches |-> s.matches + found, scanned |-> s.scanned + 1, error |-> vanished]
    BY <1>1, <1>2, <1>3, <1>4, <1>10 DEF R!ScanFile, R!Full
  <2>2. found \in Nat /\ found <= room /\ (found = room \/ found = path + all)
    BY <1>3, <1>7
  <2>3. /\ next.matches = s.matches + found /\ next.error = vanished
        /\ next \in [matches : Nat, scanned : Nat, error : BOOLEAN]
    BY <1>6, <2>1, <2>2
  <2>4. next.matches <= request.max /\ (next.matches = sum + path + all \/ next.matches = request.max)
    BY <1>2, <1>6, <1>7, <1>10, <2>2, <2>3
  <2> QED BY <1>4, <1>6, <1>7, <1>8, <1>10, <2>3, <2>4 DEF Scanning
<1> QED
  BY <1>6, <1>9, <1>10

\* ScanRetriever, for any number of files and any limit: what it gives is all there is, or as
\* many as the limit allows, and then it says so, or it fails, and then a file has gone.
THEOREM ScanHidesNothing ==
  ASSUME NEW case, case.max \in Nat, NEW F, case.files \in Seq(F), \A file \in F : file.content \in Int
  PROVE  LET found == R!Scan(case, case.files) IN
         IF found.error THEN \E i \in 1..Len(case.files) : case.files[i].content = R!Gone
         ELSE found.matches = AllMatches(case) \/ (found.truncated /\ found.matches = case.max)
<1>1. PICK n \in Nat : n = Len(case.files)
  OBVIOUS
<1>2. PICK f : /\ f[0] = Unscanned
               /\ \A i \in 1..n : f[i] = R!ScanFile(f[i - 1], case.files[i], case)
               /\ R!Scan(case, case.files).matches = f[n].matches
               /\ R!Scan(case, case.files).error = f[n].error
               /\ R!Scan(case, case.files).truncated <=> f[n].matches >= case.max
  BY <1>1, ScanRounds
<1>3. PICK g : /\ g[0] = 0
               /\ \A i \in 1..n : g[i] = g[i - 1] + MatchesOf(case, case.files[i])
               /\ AllMatches(case) = g[n]
  BY <1>1, SumRounds
<1> DEFINE T == {i \in 0..n : /\ Scanning(f[i], case.max, g[i])
                              /\ f[i].error = TRUE => \E j \in 1..i : case.files[j].content = R!Gone}
<1>4. 0 \in T
  <2>1. f[0].error = FALSE /\ f[0].matches = 0 /\ f[0] \in [matches : Nat, scanned : Nat, error : BOOLEAN]
    BY <1>2 DEF Unscanned
  <2>2. Scanning(f[0], case.max, g[0])
    BY <1>3, <2>1 DEF Scanning
  <2>3. 0 \in 0..n
    OBVIOUS
  <2>4. f[0].error = TRUE => \E j \in 1..0 : case.files[j].content = R!Gone
    BY <2>1, Zenon
  <2> QED BY <2>2, <2>3, <2>4
<1>5. ASSUME NEW i \in 1..n, i - 1 \in T PROVE i \in T
  <2>1. case.files[i] \in F
    BY <1>1
  <2>2. PICK file : file = case.files[i] /\ file.content \in Int
    BY <2>1
  <2>3. f[i] = R!ScanFile(f[i - 1], file, case) /\ g[i] = g[i - 1] + MatchesOf(case, file)
    BY <1>2, <1>3, <2>2
  <2>4. /\ Scanning(f[i - 1], case.max, g[i - 1])
        /\ f[i - 1].error = TRUE => \E j \in 1..(i - 1) : case.files[j].content = R!Gone
    BY <1>5
  <2> HIDE DEF T
  <2>5. /\ Scanning(f[i], case.max, g[i - 1] + MatchesOf(case, file))
        /\ f[i].error = TRUE => f[i - 1].error = TRUE \/ file.content = R!Gone
    <3>1. PICK s, next, sum : s = f[i - 1] /\ next = f[i] /\ sum = g[i - 1]
      OBVIOUS
    <3>2. Scanning(s, case.max, sum) /\ next = R!ScanFile(s, file, case)
      BY <2>3, <2>4, <3>1, Zenon
    <3>3. /\ Scanning(next, case.max, sum + MatchesOf(case, file))
          /\ next.error = TRUE => s.error = TRUE \/ file.content = R!Gone
      BY <2>2, <3>2, ScanOne, Zenon
    <3> QED BY <3>1, <3>3, Zenon
  <2>6. i \in 1..i /\ i \in 0..n /\ \A j \in 1..(i - 1) : j \in 1..i
    OBVIOUS
  <2>7. f[i].error = TRUE => \E j \in 1..i : case.files[j].content = R!Gone
    BY <2>2, <2>4, <2>5, <2>6, Zenon
  <2>8. Scanning(f[i], case.max, g[i])
    BY <2>3, <2>5
  <2> QED BY <2>6, <2>7, <2>8 DEF T
<1>6. \A i \in 0..n : i \in T
  <2> HIDE DEF T
  <2> QED BY <1>4, <1>5, EveryRound
<1>7. n \in T
  <2> HIDE DEF T
  <2> QED BY <1>6
<1>8. /\ Scanning(f[n], case.max, g[n])
      /\ f[n].error = TRUE => \E j \in 1..n : case.files[j].content = R!Gone
  BY <1>7
<1> HIDE DEF T
<1>9. PICK found : found = R!Scan(case, case.files)
  OBVIOUS
<1>10. CASE found.error
  BY <1>1, <1>2, <1>8, <1>9, <1>10
<1>11. CASE ~found.error
  <2>1. f[n].error # TRUE
    BY <1>2, <1>9, <1>11
  <2> QED BY <1>2, <1>3, <1>8, <1>9, <1>11, <2>1 DEF Scanning
<1> QED
  BY <1>9, <1>10, <1>11

\* list_files, for any number of entries and any limit: nothing that is to be skipped is shown,
\* and all the others are, or as many as the limit allows, and then it says so.
THEOREM ListHidesNothing ==
  ASSUME NEW E, NEW entries \in Seq(E), NEW max \in Nat
  PROVE  LET listed == W!ListFiles(entries, max) IN
         /\ listed.shown \in Seq(E)
         /\ \A i \in 1..Len(listed.shown) : ~listed.shown[i].skipped
         /\ \/ Len(listed.shown) = Cardinality({i \in 1..Len(entries) : ~entries[i].skipped})
            \/ listed.truncated /\ Len(listed.shown) = max
<1>1. PICK n \in Nat : n = Len(entries)
  OBVIOUS
<1> DEFINE Open(i) == {j \in 1..i : ~entries[j].skipped}
<1>2. PICK f, shown :
        /\ f[0] = <<>>
        /\ \A i \in 1..n : f[i] = IF entries[i].skipped THEN f[i - 1] ELSE Append(f[i - 1], entries[i])
        /\ shown = SubSeq(f[n], 1, IF max < Len(f[n]) THEN max ELSE Len(f[n]))
        /\ W!ListFiles(entries, max) = [shown |-> shown, truncated |-> W!TruncatedAt(Len(shown), max)]
  <2>1. Len(entries) \in Nat
    OBVIOUS
  <2>2. \E f, shown :
          /\ f[0] = <<>>
          /\ \A i \in 1..Len(entries) : f[i] = IF entries[i].skipped THEN f[i - 1] ELSE Append(f[i - 1], entries[i])
          /\ shown = SubSeq(f[Len(entries)], 1, IF max < Len(f[Len(entries)]) THEN max ELSE Len(f[Len(entries)]))
          /\ W!ListFiles(entries, max) = [shown |-> shown, truncated |-> W!TruncatedAt(Len(shown), max)]
    BY ONLY <2>1, ListRounds
  <2> QED BY <1>1, <2>2
<1> DEFINE T == {i \in 0..n : /\ f[i] \in Seq(E) /\ \A j \in 1..Len(f[i]) : ~f[i][j].skipped
                              /\ IsFiniteSet(Open(i)) /\ Len(f[i]) = Cardinality(Open(i))}
<1>3. 0 \in T
  <2>1. Open(0) = {}
    OBVIOUS
  <2> HIDE DEF Open
  <2>2. IsFiniteSet(Open(0)) /\ Cardinality(Open(0)) = 0
    BY <2>1, FS_EmptySet
  <2>3. f[0] \in Seq(E) /\ Len(f[0]) = 0
    BY <1>2
  <2> QED BY <2>2, <2>3
<1>4. ASSUME NEW i \in 1..n, i - 1 \in T PROVE i \in T
  <2>1. /\ f[i - 1] \in Seq(E) /\ \A j \in 1..Len(f[i - 1]) : ~f[i - 1][j].skipped
        /\ IsFiniteSet(Open(i - 1)) /\ Len(f[i - 1]) = Cardinality(Open(i - 1))
    BY <1>4
  <2>2. f[i] = (IF entries[i].skipped THEN f[i - 1] ELSE Append(f[i - 1], entries[i])) /\ entries[i] \in E
    BY <1>1, <1>2
  <2>3. CASE entries[i].skipped
    <3>1. Open(i) = Open(i - 1)
      BY <2>3
    <3> HIDE DEF Open
    <3> QED BY <2>1, <2>2, <2>3, <3>1
  <2>4. CASE ~entries[i].skipped
    <3>1. Open(i) = Open(i - 1) \cup {i} /\ i \notin Open(i - 1)
      BY <2>4
    <3> HIDE DEF Open
    <3>2. IsFiniteSet(Open(i)) /\ Cardinality(Open(i)) = Cardinality(Open(i - 1)) + 1
      BY <2>1, <3>1, FS_AddElement
    <3>3. PICK old : old = f[i - 1] /\ old \in Seq(E)
      BY <2>1
    <3>4. f[i] = Append(old, entries[i])
      BY <2>2, <2>4, <3>3
    <3>5. f[i] \in Seq(E) /\ Len(f[i]) = Len(old) + 1
      BY <2>2, <3>3, <3>4
    <3>6. ASSUME NEW j \in 1..Len(f[i]) PROVE ~f[i][j].skipped
      <4>1. f[i][j] = IF j = Len(old) + 1 THEN entries[i] ELSE old[j]
        BY <3>3, <3>4, <3>5
      <4>2. j # Len(old) + 1 => j \in 1..Len(old)
        BY <3>3, <3>5
      <4> QED BY <2>1, <2>4, <3>3, <4>1, <4>2
    <3> QED BY <2>1, <3>2, <3>3, <3>5, <3>6
  <2> QED BY <2>3, <2>4
<1>5. \A i \in 0..n : i \in T
  <2> HIDE DEF T
  <2> QED BY <1>3, <1>4, EveryRound
<1>6. n \in T
  <2> HIDE DEF T
  <2> QED BY <1>5
<1>7. PICK kept \in Seq(E) : /\ kept = f[n] /\ \A j \in 1..Len(kept) : ~kept[j].skipped
                             /\ Len(kept) = Cardinality(Open(n))
  BY <1>6
<1> HIDE DEF T, Open
<1>8. PICK m \in 0..Len(kept) : m = (IF max < Len(kept) THEN max ELSE Len(kept)) /\ shown = SubSeq(kept, 1, m)
  <2>1. PICK m : m = IF max < Len(kept) THEN max ELSE Len(kept)
    OBVIOUS
  <2>2. m \in 0..Len(kept)
    BY <2>1
  <2>3. shown = SubSeq(kept, 1, m)
    BY <1>2, <1>7, <2>1
  <2> QED BY <2>1, <2>2, <2>3
<1>9. shown \in Seq(E) /\ Len(shown) = m /\ \A j \in 1..m : shown[j] = kept[j]
  BY <1>8
<1>10. m = Cardinality(Open(n)) \/ m = max
  BY <1>7, <1>8
<1>11. Open(n) = {i \in 1..Len(entries) : ~entries[i].skipped}
  BY <1>1 DEF Open
<1>12. \A j \in 1..m : ~shown[j].skipped
  BY <1>7, <1>9
<1>13. W!ListFiles(entries, max).shown = shown /\ (W!ListFiles(entries, max).truncated <=> m >= max)
  <2>1. PICK t : t = W!TruncatedAt(m, max)
    OBVIOUS
  <2>2. W!ListFiles(entries, max) = [shown |-> shown, truncated |-> t]
    BY <1>2, <1>9, <2>1
  <2>3. t <=> m >= max
    BY <2>1 DEF W!TruncatedAt
  <2> QED BY <2>2, <2>3
<1>14. m = Cardinality({i \in 1..Len(entries) : ~entries[i].skipped}) \/ (m >= max /\ m = max)
  BY <1>10, <1>11
<1> QED
  BY <1>9, <1>12, <1>13, <1>14

-----------------------------------------------------------------------------
(* The chunks of a file                                                       *)

\* Things with different numbers can be put in the order of their numbers.
LEMMA InOrder ==
  ASSUME NEW n \in Nat, NEW N, IsFiniteSet(N), NEW key \in [N -> 0..n],
         \A x, y \in N : key[x] = key[y] => x = y
  PROVE  \E s \in [1..Cardinality(N) -> N] : \A i, j \in 1..Cardinality(N) : i < j => key[s[i]] < key[s[j]]
<1> DEFINE Sorted(T, s) == /\ s \in [1..Cardinality(T) -> T]
                           /\ \A i, j \in 1..Cardinality(T) : i < j => key[s[i]] < key[s[j]]
           Bad == {k \in Nat : \E T \in SUBSET N : Cardinality(T) = k /\ ~\E s : Sorted(T, s)}
<1>1. ASSUME Bad # {} PROVE FALSE
  <2>1. PICK k \in Bad : \A j \in Bad : k <= j
    <3>1. Bad \subseteq Nat
      OBVIOUS
    <3> HIDE DEF Bad
    <3> QED BY <1>1, <3>1, Pieces!LeastNumber
  <2>2. PICK T \in SUBSET N : Cardinality(T) = k /\ ~\E s : Sorted(T, s)
    BY <2>1
  <2>3. k \in Nat /\ IsFiniteSet(T)
    BY <2>1, FS_Subset
  <2>4. CASE T = {}
    <3>1. k = 0
      BY <2>2, <2>4, FS_EmptySet
    <3>2. Sorted(T, [i \in {} |-> 0])
      BY <2>2, <3>1
    <3> QED BY <2>2, <3>2
  <2>5. CASE T # {}
    <3> DEFINE K == {key[x] : x \in T}
    <3>1. K \subseteq 0..n /\ K # {}
      BY <2>5
    <3>2. PICK m \in T : \A x \in T : key[m] >= key[x]
      <4> HIDE DEF K
      <4>1. Max(K) \in K /\ \A v \in K : Max(K) >= v
        BY <3>1, MaxIsGreatest
      <4> QED BY <4>1 DEF K
    <3>3. PICK U \in SUBSET N : U = T \ {m}
      OBVIOUS
    <3>4. Cardinality(U) = k - 1 /\ k - 1 \in Nat
      <4>1. Cardinality(T \ {m}) = Cardinality(T) - 1 /\ Cardinality(T \ {m}) \in Nat
        BY <2>3, FS_RemoveElement, FS_CardinalityType
      <4> QED BY <2>2, <3>3, <4>1
    <3>5. k - 1 \notin Bad
      BY <2>1, <3>4
    <3>6. PICK old : Sorted(U, old)
      BY <3>4, <3>5
    <3>7. /\ old \in [1..(k - 1) -> U]
          /\ \A i, j \in 1..(k - 1) : i < j => key[old[i]] < key[old[j]]
      BY <3>4, <3>6
    <3>8. PICK s : s = [i \in 1..k |-> IF i = k THEN m ELSE old[i]]
      OBVIOUS
    <3>9. \A i \in 1..k : IF i = k THEN s[i] = m ELSE i \in 1..(k - 1) /\ s[i] = old[i] /\ s[i] \in U
      BY <2>3, <3>7, <3>8
    <3>10. s \in [1..k -> T]
      BY <3>3, <3>8, <3>9
    <3>11. ASSUME NEW i \in 1..k, NEW j \in 1..k, i < j PROVE key[s[i]] < key[s[j]]
      <4>1. i # k /\ i \in 1..(k - 1) /\ s[i] = old[i] /\ s[i] \in U
        BY <2>3, <3>9, <3>11
      <4>2. CASE j = k
        <5>1. s[i] \in T /\ s[i] # m /\ s[j] = m
          BY <3>3, <3>9, <4>1, <4>2
        <5>2. key[s[i]] # key[m] /\ key[s[i]] <= key[m]
          BY <3>2, <5>1
        <5>3. key[s[i]] \in 0..n /\ key[m] \in 0..n
          BY <5>1
        <5> QED BY <5>1, <5>2, <5>3
      <4>3. CASE j # k
        BY <3>7, <3>9, <3>11, <4>1, <4>3
      <4> QED BY <4>2, <4>3
    <3>12. Sorted(T, s)
      BY <2>2, <3>10, <3>11
    <3> QED BY <2>2, <3>12
  <2> QED BY <2>4, <2>5
<1>2. Cardinality(N) \in Nat /\ Cardinality(N) \notin Bad
  BY <1>1, FS_CardinalityType
<1> QED
  BY <1>2

LEMMA Concatenated ==
  ASSUME NEW C, NEW a \in Seq(C), NEW b \in Seq(C), NEW X,
         (\E i \in 1..Len(a) : a[i] \in X) \/ (\E i \in 1..Len(b) : b[i] \in X)
  PROVE  \E i \in 1..Len(a \o b) : (a \o b)[i] \in X
<1>1. CASE \E i \in 1..Len(a) : a[i] \in X
  <2>1. PICK i \in 1..Len(a) : a[i] \in X
    BY <1>1
  <2>2. i \in 1..Len(a \o b) /\ (a \o b)[i] = a[i]
    OBVIOUS
  <2> QED BY <2>1, <2>2
<1>2. CASE \E i \in 1..Len(b) : b[i] \in X
  <2>1. PICK i \in 1..Len(b) : b[i] \in X
    BY <1>2
  <2>2. Len(a) + i \in 1..Len(a \o b) /\ (a \o b)[Len(a) + i] = b[i]
    OBVIOUS
  <2> QED BY <2>1, <2>2
<1> QED
  BY <1>1, <1>2

\* A chunk within a file, and the chunks a line is in.
Span(lines, size) == {c \in [first : Nat, last : Nat] :
                        c.first <= c.last /\ c.last < lines /\ c.last - c.first < size}
Around(line) == {c \in [first : Nat, last : Nat] : c.first <= line /\ line <= c.last}

LEMMA StepsGrow ==
  ASSUME NEW step \in Nat, step >= 1, NEW k \in Nat
  PROVE  k * step \in Nat /\ k * step >= k /\ (k + 1) * step = k * step + step
<1>1. PICK t \in Nat : step = t + 1
  <2>1. step - 1 \in Nat /\ step = (step - 1) + 1
    OBVIOUS
  <2> QED BY <2>1
<1>2. k * step = k * t + k
  BY <1>1
<1>3. k * t \in Nat
  OBVIOUS
<1> QED
  BY <1>2, <1>3

\* Windows that overlap: each line is in one, and none is too long or reaches over the end.
LEMMA WindowsCover ==
  ASSUME NEW first \in Nat, NEW end \in Nat, NEW lines \in Nat, end <= lines,
         NEW size \in Nat, NEW overlap \in Nat, overlap < size
  PROVE  LET w == R!Windows(first, end, size, overlap) IN
         /\ w \in Seq(Span(lines, size))
         /\ \A line \in first..(end - 1) : \E i \in 1..Len(w) : w[i] \in Around(line)
<1> DEFINE w == R!Windows(first, end, size, overlap)
<1>1. CASE first >= end
  <2>1. w = <<>>
    BY <1>1 DEF R!Windows
  <2>2. first..(end - 1) = {}
    BY <1>1
  <2> QED BY <2>1, <2>2
<1>2. CASE ~(first >= end)
  <2>1. PICK step \in Nat : step = size - overlap /\ step >= 1 /\ step <= size
    <3>1. size - overlap \in Nat /\ size - overlap >= 1 /\ size - overlap <= size
      OBVIOUS
    <3> QED BY <3>1
  <2>2. PICK at : at = [k \in Nat |-> first + k * step]
    OBVIOUS
  <2>3. /\ at[0] = first
        /\ \A k \in Nat : at[k] \in Nat /\ at[k] >= first /\ at[k] >= k /\ at[k + 1] = at[k] + step
    <3>1. at[0] = first
      BY <2>1, <2>2
    <3>2. ASSUME NEW k \in Nat PROVE at[k] \in Nat /\ at[k] >= first /\ at[k] >= k /\ at[k + 1] = at[k] + step
      <4>1. k * step \in Nat /\ k * step >= k /\ (k + 1) * step = k * step + step
        BY <2>1, StepsGrow
      <4>2. at[k] = first + k * step /\ at[k + 1] = first + (k + 1) * step
        BY <2>2
      <4> QED BY <4>1, <4>2
    <3> QED BY <3>1, <3>2
  <2> DEFINE Reached == {k \in 0..end : at[k] + size >= end}
             reached(k) == first + k * (size - overlap) + size >= end
             Final == CHOOSE k \in 0..end : reached(k) /\ \A j \in 0..(k - 1) : ~reached(j)
  <2>4. Reached \subseteq Nat /\ end \in Reached
    BY <2>3
  <2>5. \E k \in 0..end : at[k] + size >= end /\ \A j \in 0..(k - 1) : ~(at[j] + size >= end)
    <3>1. PICK k \in Reached : \A j \in Reached : k <= j
      <4> HIDE DEF Reached
      <4> QED BY <2>4, Pieces!LeastNumber
    <3>2. ASSUME NEW j \in 0..(k - 1) PROVE ~(at[j] + size >= end)
      BY <3>1
    <3> QED BY <3>1, <3>2
  <2>6. PICK last \in 0..end : last = Final /\ at[last] + size >= end /\ \A j \in 0..(last - 1) : ~(at[j] + size >= end)
    <3>1. \A k \in Nat : reached(k) <=> at[k] + size >= end
      BY <2>1, <2>2
    <3>2. \E k \in 0..end : reached(k) /\ \A j \in 0..(k - 1) : ~reached(j)
      <4> HIDE DEF reached
      <4> QED BY <2>5, <3>1
    <3>3. Final \in 0..end /\ reached(Final) /\ \A j \in 0..(Final - 1) : ~reached(j)
      BY <3>2
    <3> HIDE DEF Final, reached
    <3> QED BY <3>1, <3>3
  <2>7. w = [k \in 1..(last + 1) |->
              [first |-> at[k - 1], last |-> R!Min2(at[k - 1] + size, end) - 1]]
    <3>1. w = [k \in 1..(Final + 1) |->
                [first |-> first + (k - 1) * (size - overlap),
                 last |-> R!Min2(first + (k - 1) * (size - overlap) + size, end) - 1]]
      BY <1>2 DEF R!Windows
    <3> HIDE DEF Final
    <3>2. \A k \in 1..(last + 1) : first + (k - 1) * (size - overlap) = at[k - 1]
      BY <2>1, <2>2
    <3> QED BY <2>6, <3>1, <3>2
  <2> HIDE DEF w, Reached, Final, reached
  <2>8. ASSUME NEW k \in 0..last
        PROVE  /\ [first |-> at[k], last |-> R!Min2(at[k] + size, end) - 1] \in Span(lines, size)
               /\ \A line \in at[k]..(at[k] + size - 1) : line < end =>
                    [first |-> at[k], last |-> R!Min2(at[k] + size, end) - 1] \in Around(line)
    <3>1. at[k] \in Nat
      BY <2>3
    <3>2. at[k] < end
      <4>1. CASE k = 0
        BY <1>2, <2>3, <4>1
      <4>2. CASE k # 0
        <5>1. k - 1 \in Nat /\ k - 1 \in 0..(last - 1)
          BY <4>2
        <5>2. at[k - 1] + size < end /\ at[k] = at[k - 1] + step /\ at[k - 1] \in Nat
          BY <2>3, <2>6, <5>1
        <5> QED BY <2>1, <5>2
      <4> QED BY <4>1, <4>2
    <3>3. PICK e \in Nat : e = R!Min2(at[k] + size, end) - 1 /\ at[k] <= e /\ e < end /\ e < at[k] + size
                           /\ (e = end - 1 \/ e = at[k] + size - 1)
      BY <3>1, <3>2 DEF R!Min2
    <3>4. [first |-> at[k], last |-> e] \in Span(lines, size)
      BY <3>1, <3>3 DEF Span
    <3>5. \A line \in at[k]..(at[k] + size - 1) : line < end => [first |-> at[k], last |-> e] \in Around(line)
      BY <3>1, <3>3 DEF Around
    <3> QED BY <3>3, <3>4, <3>5
  <2>9. w \in Seq(Span(lines, size)) /\ Len(w) = last + 1
    <3>1. \A k \in 1..(last + 1) : k - 1 \in 0..last
      OBVIOUS
    <3>2. w \in [1..(last + 1) -> Span(lines, size)]
      BY <2>7, <2>8, <3>1
    <3> QED BY <3>2
  <2>10. ASSUME NEW line \in first..(end - 1) PROVE \E i \in 1..Len(w) : w[i] \in Around(line)
    <3> DEFINE Behind == {k \in 0..last : line < at[k] + size}
    <3>1. Behind \subseteq Nat /\ last \in Behind
      BY <2>3, <2>6
    <3>2. PICK k \in Behind : \A j \in Behind : k <= j
      <4> HIDE DEF Behind
      <4> QED BY <3>1, Pieces!LeastNumber
    <3>3. k \in 0..last /\ at[k] \in Nat /\ line < at[k] + size
      BY <2>3, <3>2
    <3>4. at[k] <= line
      <4>1. CASE k = 0
        BY <2>3, <4>1
      <4>2. CASE k # 0
        <5>1. k - 1 \in 0..last /\ k - 1 \notin Behind
          BY <3>2, <4>2
        <5>2. line >= at[k - 1] + size /\ at[k] = at[k - 1] + step /\ at[k - 1] \in Nat
          BY <2>3, <5>1
        <5> QED BY <2>1, <5>2
      <4> QED BY <4>1, <4>2
    <3>5. w[k + 1] = [first |-> at[k], last |-> R!Min2(at[k] + size, end) - 1] /\ k + 1 \in 1..Len(w)
      BY <2>7, <2>9, <3>3
    <3>6. line \in at[k]..(at[k] + size - 1) /\ line < end
      BY <3>3, <3>4
    <3> QED BY <2>8, <3>3, <3>5, <3>6
  <2> QED BY <2>9, <2>10 DEF w
<1> QED
  BY <1>1, <1>2

\* The nodes that no other one has around it, one after the other.
LEMMA OutermostOrdered ==
  ASSUME NEW n \in Nat, NEW nodes, IsFiniteSet(nodes), \A x \in nodes : x.from \in 0..n /\ x.to \in Int
  PROVE  R!Outermost(nodes) \in Seq(nodes)
<1>1. PICK outer : outer = {x \in nodes : ~\E y \in nodes \ {x} : y.from <= x.from /\ y.to >= x.to}
  OBVIOUS
<1>2. IsFiniteSet(outer) /\ outer \subseteq nodes
  <2>1. outer \in SUBSET nodes
    BY <1>1
  <2> QED BY <2>1, FS_Subset
<1>3. ASSUME NEW x \in outer, NEW y \in outer, x.from = y.from PROVE x = y
  <2>1. x.from \in Int /\ x.to \in Int /\ y.to \in Int
    BY <1>2
  <2>2. y.from <= x.from /\ x.from <= y.from /\ (y.to >= x.to \/ x.to >= y.to)
    BY <1>3, <2>1
  <2>3. x \in nodes /\ y \in nodes
    BY <1>2
  <2> QED BY <1>1, <2>2, <2>3
<1>4. PICK key : key = [x \in outer |-> x.from]
  OBVIOUS
<1>5. key \in [outer -> 0..n] /\ \A x, y \in outer : key[x] = key[y] => x = y
  BY <1>2, <1>3, <1>4
<1>6. \E s \in [1..Cardinality(outer) -> outer] : \A i, j \in 1..Cardinality(outer) : i < j => key[s[i]] < key[s[j]]
  BY <1>2, <1>5, InOrder
<1>7. R!Cardinality(outer) = Cardinality(outer)
  BY DEF R!Cardinality, Cardinality
<1>8. \E s \in [1..R!Cardinality(outer) -> outer] : \A i, j \in DOMAIN s : i < j => s[i].from < s[j].from
  BY <1>4, <1>6, <1>7
<1>9. R!Outermost(nodes) \in [1..R!Cardinality(outer) -> outer]
  <2> DEFINE O == {x \in nodes : ~\E y \in nodes \ {x} : y.from <= x.from /\ y.to >= x.to}
             inOrder == CHOOSE s \in [1..R!Cardinality(O) -> O] :
                          \A i, j \in DOMAIN s : i < j => s[i].from < s[j].from
  <2>1. R!Outermost(nodes) = inOrder
    BY DEF R!Outermost
  <2>2. outer = O
    BY <1>1
  <2> HIDE DEF O
  <2>3. inOrder \in [1..R!Cardinality(O) -> O]
    BY <1>8, <2>2
  <2> HIDE DEF inOrder
  <2> QED BY <2>1, <2>2, <2>3
<1> QED
  BY <1>2, <1>7, <1>9, FS_CardinalityType

\* The loop of TreeSitterChunker.
Chunking(f, lines, nodes, size, overlap) ==
  LET last == f[Len(R!Outermost(nodes))] IN
  /\ f[0] = [chunks |-> <<>>, cursor |-> 0]
  /\ \A i \in 1..Len(R!Outermost(nodes)) :
       f[i] = R!ChunkNode(f[i - 1], R!Outermost(nodes)[i], lines, size, overlap)
  /\ R!Chunks(lines, nodes, size, overlap) = last.chunks \o R!Windows(last.cursor, lines, size, overlap)

LEMMA ChunkRounds ==
  ASSUME NEW lines, NEW nodes, NEW size, NEW overlap, Len(R!Outermost(nodes)) \in Nat
  PROVE  \E f : Chunking(f, lines, nodes, size, overlap)
<1>1. PICK bounds : bounds = [lines |-> lines, size |-> size, overlap |-> overlap]
  OBVIOUS
<1>2. bounds.lines = lines /\ bounds.size = size /\ bounds.overlap = overlap
  BY <1>1
<1>3. PICK base : base = [chunks |-> <<>>, cursor |-> 0]
  OBVIOUS
<1>4. \E f : Nodewise!Rounds(bounds, base, R!Outermost(nodes), Len(R!Outermost(nodes)), f)
  BY Nodewise!RoundsExist
<1>5. PICK f : /\ Nodewise!Rounds(bounds, base, R!Outermost(nodes), Len(R!Outermost(nodes)), f)
               /\ LET last == f[Len(R!Outermost(nodes))] IN
                  R!Chunks(lines, nodes, size, overlap) = last.chunks \o R!Windows(last.cursor, lines, size, overlap)
  BY <1>2, <1>3, <1>4 DEF Nodewise!Rounds, R!Chunks, Cut
<1>6. f[0] = base
  BY <1>5 DEF Nodewise!Rounds
<1>7. \A i \in 1..Len(R!Outermost(nodes)) : f[i] = Cut(bounds, f[i - 1], R!Outermost(nodes)[i])
  BY <1>5 DEF Nodewise!Rounds
<1>8. \A i \in 1..Len(R!Outermost(nodes)) :
        f[i] = R!ChunkNode(f[i - 1], R!Outermost(nodes)[i], lines, size, overlap)
  BY <1>2, <1>7 DEF Cut
<1> QED
  BY <1>3, <1>5, <1>6, <1>8 DEF Chunking

\* What the chunker has behind a node: chunks that are well-formed and leave out no line
\* before the cursor.
CutTo(s, lines, size) ==
  /\ s.chunks \in Seq(Span(lines, size)) /\ s.cursor \in 0..lines
  /\ \A line \in 0..(s.cursor - 1) : \E i \in 1..Len(s.chunks) : s.chunks[i] \in Around(line)

LEMMA CutOne ==
  ASSUME NEW lines \in Nat, NEW size \in Nat, NEW overlap \in Nat, overlap < size,
         NEW s, CutTo(s, lines, size), NEW node, node.from \in Nat, node.to \in Nat,
         node.from <= node.to, node.to < 2 * lines
  PROVE  CutTo(R!ChunkNode(s, node, lines, size, overlap), lines, size)
<1>1. PICK first, end : first = R!Row(node.from) /\ end = R!Min2(lines, R!Row(node.to) + 1)
  OBVIOUS
<1>2. first \in Nat /\ end \in Nat /\ first < end /\ end <= lines
  <2>1. R!Row(node.from) \in Nat /\ R!Row(node.to) \in Nat /\ R!Row(node.from) <= R!Row(node.to)
        /\ R!Row(node.from) < lines
    BY DEF R!Row
  <2> QED BY <1>1, <2>1 DEF R!Min2
<1>3. PICK C, old, cursor : C = Span(lines, size) /\ old = s.chunks /\ cursor = s.cursor
  OBVIOUS
<1>4. /\ old \in Seq(C) /\ cursor \in 0..lines
      /\ \A line \in 0..(cursor - 1) : \E i \in 1..Len(old) : old[i] \in Around(line)
  BY <1>3 DEF CutTo
<1>5. PICK gap : gap = IF first > cursor THEN R!Windows(cursor, first, size, overlap) ELSE <<>>
  OBVIOUS
<1>6. gap \in Seq(C) /\ \A line \in cursor..(first - 1) : \E i \in 1..Len(gap) : gap[i] \in Around(line)
  <2>1. CASE first > cursor
    <3>1. first <= lines /\ cursor \in Nat
      BY <1>2, <1>4
    <3> QED BY <1>2, <1>3, <1>5, <2>1, <3>1, WindowsCover
  <2>2. CASE ~(first > cursor)
    BY <1>2, <1>4, <1>5, <2>2
  <2> QED BY <2>1, <2>2
<1>7. PICK own : own = R!Windows(first, end, size, overlap)
  OBVIOUS
<1>8. own \in Seq(C) /\ \A line \in first..(end - 1) : \E i \in 1..Len(own) : own[i] \in Around(line)
  BY <1>2, <1>3, <1>7, WindowsCover
<1>9. PICK next : next = R!ChunkNode(s, node, lines, size, overlap)
  OBVIOUS
<1>10. next.chunks = old \o gap \o own /\ next.cursor = R!Max2(cursor, end)
  BY <1>1, <1>3, <1>5, <1>7, <1>9 DEF R!ChunkNode, R!Between
<1>11. old \o gap \in Seq(C) /\ old \o gap \o own \in Seq(C)
  BY <1>4, <1>6, <1>8
<1>12. next.cursor \in 0..lines
  BY <1>2, <1>4, <1>10 DEF R!Max2
<1>13. ASSUME NEW line \in 0..(next.cursor - 1)
       PROVE  \E i \in 1..Len(old \o gap \o own) : (old \o gap \o own)[i] \in Around(line)
  <2>1. line \in 0..(cursor - 1) \/ line \in cursor..(first - 1) \/ line \in first..(end - 1)
    BY <1>2, <1>4, <1>10 DEF R!Max2
  <2>2. CASE line \in first..(end - 1)
    <3>1. \E i \in 1..Len(own) : own[i] \in Around(line)
      BY <1>8, <2>2
    <3> QED BY <1>8, <1>11, <3>1, Concatenated
  <2>3. CASE line \in 0..(cursor - 1) \/ line \in cursor..(first - 1)
    <3>1. (\E i \in 1..Len(old) : old[i] \in Around(line)) \/ (\E i \in 1..Len(gap) : gap[i] \in Around(line))
      BY <1>4, <1>6, <2>3
    <3>2. \E i \in 1..Len(old \o gap) : (old \o gap)[i] \in Around(line)
      BY <1>4, <1>6, <3>1, Concatenated
    <3> QED BY <1>8, <1>11, <3>2, Concatenated
  <2> QED BY <2>1, <2>2, <2>3
<1> QED
  BY <1>3, <1>9, <1>10, <1>11, <1>12, <1>13 DEF CutTo

\* TreeSitterChunker, for any file, any nodes in it and any size of a chunk: each line lies in
\* a chunk, and no chunk is longer than the bound or reaches over the end of the file.
THEOREM EveryLineIsInAChunk ==
  ASSUME NEW lines \in Nat, NEW size \in Nat, NEW overlap \in Nat, overlap < size,
         NEW nodes, IsFiniteSet(nodes),
         \A x \in nodes : x.from \in Nat /\ x.to \in Nat /\ x.from <= x.to /\ x.to < 2 * lines
  PROVE  LET chunks == R!Chunks(lines, nodes, size, overlap) IN
         /\ chunks \in Seq(Span(lines, size))
         /\ \A line \in 0..(lines - 1) : \E i \in 1..Len(chunks) : chunks[i] \in Around(line)
<1>1. PICK outer \in Seq(nodes) : outer = R!Outermost(nodes)
  <2>1. 2 * lines \in Nat /\ \A x \in nodes : x.from \in 0..(2 * lines) /\ x.to \in Int
    OBVIOUS
  <2> QED BY <2>1, OutermostOrdered
<1>2. PICK n \in Nat : n = Len(outer)
  OBVIOUS
<1>3. PICK f : /\ f[0] = [chunks |-> <<>>, cursor |-> 0]
               /\ \A i \in 1..n : f[i] = R!ChunkNode(f[i - 1], outer[i], lines, size, overlap)
               /\ R!Chunks(lines, nodes, size, overlap) = f[n].chunks \o R!Windows(f[n].cursor, lines, size, overlap)
  <2>1. Len(R!Outermost(nodes)) \in Nat
    BY <1>1
  <2>2. PICK f : Chunking(f, lines, nodes, size, overlap)
    BY <2>1, ChunkRounds
  <2> QED BY <1>1, <1>2, <2>2 DEF Chunking
<1> DEFINE T == {i \in 0..n : CutTo(f[i], lines, size)}
<1>4. 0 \in T
  <2>1. CutTo(f[0], lines, size)
    BY <1>3 DEF CutTo
  <2> QED BY <2>1
<1>5. ASSUME NEW i \in 1..n, i - 1 \in T PROVE i \in T
  <2>1. outer[i] \in nodes
    BY <1>1, <1>2
  <2>2. PICK node : node = outer[i] /\ node.from \in Nat /\ node.to \in Nat /\ node.from <= node.to /\ node.to < 2 * lines
    BY <2>1
  <2>3. f[i] = R!ChunkNode(f[i - 1], node, lines, size, overlap) /\ CutTo(f[i - 1], lines, size)
    BY <1>3, <1>5, <2>2
  <2>4. CutTo(f[i], lines, size)
    BY <2>2, <2>3, CutOne
  <2> QED BY <2>4
<1>6. \A i \in 0..n : i \in T
  <2> HIDE DEF T
  <2> QED BY <1>4, <1>5, EveryRound
<1>7. n \in T
  <2> HIDE DEF T
  <2> QED BY <1>6
<1>8. PICK C, old, cursor : C = Span(lines, size) /\ old = f[n].chunks /\ cursor = f[n].cursor
  OBVIOUS
<1>9. /\ old \in Seq(C) /\ cursor \in 0..lines
      /\ \A line \in 0..(cursor - 1) : \E i \in 1..Len(old) : old[i] \in Around(line)
  BY <1>7, <1>8 DEF CutTo
<1>10. PICK rest : rest = R!Windows(cursor, lines, size, overlap)
  OBVIOUS
<1>11. rest \in Seq(C) /\ \A line \in cursor..(lines - 1) : \E i \in 1..Len(rest) : rest[i] \in Around(line)
  <2>1. cursor \in Nat /\ lines <= lines
    BY <1>9
  <2> QED BY <1>8, <1>10, <2>1, WindowsCover
<1>12. R!Chunks(lines, nodes, size, overlap) = old \o rest
  BY <1>3, <1>8, <1>10
<1>13. old \o rest \in Seq(C)
  BY <1>9, <1>11
<1>14. ASSUME NEW line \in 0..(lines - 1) PROVE \E i \in 1..Len(old \o rest) : (old \o rest)[i] \in Around(line)
  <2>1. (\E i \in 1..Len(old) : old[i] \in Around(line)) \/ (\E i \in 1..Len(rest) : rest[i] \in Around(line))
    <3>1. line \in 0..(cursor - 1) \/ line \in cursor..(lines - 1)
      BY <1>9
    <3> QED BY <1>9, <1>11, <3>1
  <2> QED BY <1>9, <1>11, <2>1, Concatenated
<1> QED
  BY <1>8, <1>12, <1>13, <1>14

-----------------------------------------------------------------------------
(* Sequences that are put one behind the other                                *)

LEMMA JoinIsSeq ==
  ASSUME NEW A, NEW a \in Seq(A), NEW b \in Seq(A)
  PROVE  Join(0, a, b) \in Seq(A)
  BY DEF Join

LEMMA JoinEmpty ==
  ASSUME NEW A, NEW a \in Seq(A)
  PROVE  Join(0, <<>>, a) = a
  BY DEF Join

Joining(f, s) ==
  /\ f[0] = <<>>
  /\ \A i \in 1..Len(s) : f[i] = Join(0, f[i - 1], s[i])
  /\ FlattenSeq(s) = f[Len(s)]

LEMMA FlattenRounds ==
  ASSUME NEW A, NEW B, B \subseteq Seq(A), NEW s \in Seq(B)
  PROVE  \E f : Joining(f, s) /\ \A i \in 0..Len(s) : f[i] \in Seq(A)
<1>1. PICK n \in Nat : n = Len(s) /\ DOMAIN s = 1..n
  <2>1. Len(s) \in Nat /\ DOMAIN s = 1..Len(s)
    OBVIOUS
  <2> QED BY <2>1, Zenon
<1> DEFINE Empty == <<>>
<1>e. Empty \in Seq(A)
  OBVIOUS
<1> HIDE DEF Empty
<1>2. PICK f : f[0] = Empty /\ \A i \in 1..n : f[i] = Join(0, f[i - 1], s[i])
  <2>1. PICK f : Joins!Rounds(0, Empty, s, n, f)
    BY Joins!RoundsExist
  <2>2. f = [i \in 0..n |-> IF i = 0 THEN Empty ELSE Join(0, f[i - 1], s[i])]
    BY <2>1 DEF Joins!Rounds
  <2>3. f[0] = Empty
    BY <2>2
  <2>4. \A i \in 1..n : f[i] = Join(0, f[i - 1], s[i])
    BY <2>2
  <2> QED BY <2>3, <2>4
<1>3. ASSUME NEW i \in 1..n PROVE s[i] \in Seq(A)
  <2>1. s[i] \in B
    BY <1>1
  <2> QED BY <2>1
<1> DEFINE T == {i \in 0..n : f[i] \in Seq(A)}
<1>4. 0 \in T
  BY <1>e, <1>2
<1>5. ASSUME NEW i \in 1..n, i - 1 \in T PROVE i \in T
  <2>1. f[i - 1] \in Seq(A) /\ s[i] \in Seq(A)
    BY <1>3, <1>5
  <2>2. Join(0, f[i - 1], s[i]) \in Seq(A)
    BY <2>1, JoinIsSeq
  <2> QED BY <1>2, <2>2
<1>6. \A i \in 0..n : i \in T
  <2> HIDE DEF T
  <2> QED BY <1>4, <1>5, EveryRound
<1>7. \A i \in 0..n : f[i] \in Seq(A)
  BY <1>6
<1>8. FlattenSeq(s) = f[n]
  <2>1. CASE n = 0
    <3>1. s = <<>>
      BY <1>1, <2>1
    <3>2. FlattenSeq(s) = s
      BY <1>1, <2>1 DEF FlattenSeq
    <3> QED BY <1>2, <2>1, <3>1, <3>2 DEF Empty
  <2>2. CASE n # 0
    <3> DEFINE Flat(h) == h = [i \in 1..Len(s) |-> IF i = 1 THEN s[i] ELSE h[i - 1] \o s[i]]
               Chosen == CHOOSE h : Flat(h)
    <3>1. f[1] = s[1]
      <4>1. 1 \in 1..n /\ 1 - 1 = 0
        BY <2>2
      <4>2. s[1] \in Seq(A) /\ f[1] = Join(0, Empty, s[1])
        BY <1>2, <1>3, <4>1
      <4> QED BY <4>2, JoinEmpty DEF Empty
    <3>2. PICK g : g = [i \in 1..n |-> f[i]]
      OBVIOUS
    <3>3. \A i \in 1..n : g[i] = IF i = 1 THEN s[i] ELSE Join(0, g[i - 1], s[i])
      BY <1>2, <3>1, <3>2
    <3>4. g = [i \in 1..Len(s) |-> IF i = 1 THEN s[i] ELSE Join(0, g[i - 1], s[i])]
      BY <1>1, <3>2, <3>3
    <3>5. Flat(g)
      BY <3>4 DEF Join
    <3>6. Flat(Chosen)
      <4> HIDE DEF Flat
      <4> QED BY <3>5
    <3>7. FlattenSeq(s) = Chosen[Len(s)]
      BY <1>1, <2>2 DEF FlattenSeq
    <3>8. PICK h : Flat(h) /\ FlattenSeq(s) = h[n]
      <4> HIDE DEF Flat, Chosen
      <4> QED BY <1>1, <3>6, <3>7
    <3>9. h = [i \in 1..Len(s) |-> IF i = 1 THEN s[i] ELSE Join(0, h[i - 1], s[i])]
      BY <3>8 DEF Join
    <3>10. \A i \in 1..n : h[i] = IF i = 1 THEN s[i] ELSE Join(0, h[i - 1], s[i])
      BY <1>1, <3>9
    <3> HIDE DEF Flat
    <3> DEFINE U == {i \in 0..n : i # 0 => h[i] = f[i]}
    <3>11. 0 \in U
      OBVIOUS
    <3>12. ASSUME NEW i \in 1..n, i - 1 \in U PROVE i \in U
      BY <1>2, <3>1, <3>10, <3>12
    <3>13. \A i \in 0..n : i \in U
      <4> HIDE DEF U
      <4> QED BY <3>11, <3>12, EveryRound
    <3>14. n \in U
      BY <3>13
    <3> QED BY <2>2, <3>8, <3>14
  <2> QED BY <2>1, <2>2
<1> QED
  <2>1. Joining(f, s)
    BY <1>1, <1>2, <1>8, SMTT(30) DEF Joining, Empty
  <2> QED BY <1>1, <1>7, <2>1

Joinable(A, B, s, x) == B \subseteq Seq(A) /\ s \in Seq(B) /\ x \in B

\* One more comes behind what there was.
LEMMA FlattenAppend ==
  ASSUME NEW A, NEW B, NEW s, NEW x, Joinable(A, B, s, x)
  PROVE  /\ FlattenSeq(s) \in Seq(A)
         /\ FlattenSeq(Append(s, x)) = FlattenSeq(s) \o x
<1>a. B \subseteq Seq(A) /\ s \in Seq(B) /\ x \in B
  BY SMTT(30) DEF Joinable
<1>1. PICK n \in Nat : n = Len(s) /\ DOMAIN s = 1..n
  <2>1. Len(s) \in Nat /\ DOMAIN s = 1..Len(s)
    BY <1>a
  <2> QED BY <2>1, Zenon
<1>2. PICK t \in Seq(B) : t = Append(s, x)
  <2>1. Append(s, x) \in Seq(B)
    BY <1>a
  <2> QED BY <2>1
<1>3. Len(t) = n + 1 /\ t[n + 1] = x /\ \A i \in 1..n : t[i] = s[i]
  BY <1>1, <1>2, <1>a
<1>4. PICK f : Joining(f, s) /\ \A i \in 0..Len(s) : f[i] \in Seq(A)
  BY <1>a, FlattenRounds
<1>5. PICK g : Joining(g, t)
  BY <1>a, FlattenRounds
<1> DEFINE T == {i \in 0..n : g[i] = f[i]}
<1>6. 0 \in T
  BY <1>4, <1>5 DEF Joining
<1>7. ASSUME NEW i \in 1..n, i - 1 \in T PROVE i \in T
  <2>1. i \in 1..Len(s) /\ i \in 1..Len(t)
    BY <1>1, <1>3
  <2>2. f[i] = Join(0, f[i - 1], s[i]) /\ g[i] = Join(0, g[i - 1], t[i])
    BY <1>4, <1>5, <2>1 DEF Joining
  <2> QED BY <1>3, <1>7, <2>2
<1>8. \A i \in 0..n : i \in T
  <2> HIDE DEF T
  <2> QED BY <1>6, <1>7, EveryRound
<1>9. g[n] = f[n]
  BY <1>8
<1>10. g[n + 1] = Join(0, g[n], x)
  <2>1. n + 1 \in 1..Len(t) /\ (n + 1) - 1 = n
    BY <1>3
  <2>2. g[n + 1] = Join(0, g[(n + 1) - 1], t[n + 1])
    BY <1>5, <2>1 DEF Joining
  <2> QED BY <1>3, <2>1, <2>2
<1>11. FlattenSeq(s) = f[n] /\ f[n] \in Seq(A)
  BY <1>1, <1>4 DEF Joining
<1>12. FlattenSeq(t) = g[n + 1]
  BY <1>3, <1>5 DEF Joining
<1>13. FlattenSeq(t) = Join(0, FlattenSeq(s), x)
  BY <1>9, <1>10, <1>11, <1>12
<1> QED
  BY <1>2, <1>11, <1>13 DEF Join

-----------------------------------------------------------------------------
(* The next request: what the items of a chat stand for                       *)

AnyMessages == [type : {"user", "assistant", "call", "output"}, id : Int]
Items == {x \in [role : {"user", "assistant", "tool"}, text : Int, calls : Seq(Int)] :
            /\ x.role # "assistant" => x.calls = <<>>
            /\ x.calls = <<>> => x.text # -1}

\* What calls that wait, and items, stand for.
Asks(calls) == [i \in DOMAIN calls |-> Message("call", calls[i])]
Chat(items) == FlattenSeq([i \in DOMAIN items |-> Unfold(items[i])])

LEMMA SameSeq ==
  ASSUME NEW A, NEW a \in Seq(A), NEW x \in A, NEW b \in Seq(A), Len(b) = Len(a) + 1,
         \A i \in 1..(Len(a) + 1) : b[i] = IF i = Len(a) + 1 THEN x ELSE a[i]
  PROVE  b = Append(a, x)
  OBVIOUS

LEMMA AsksGrow ==
  /\ Asks(<<>>) = <<>>
  /\ \A calls \in Seq(Int), k \in Int :
       /\ Asks(calls) \in Seq(AnyMessages)
       /\ Asks(Append(calls, k)) = Append(Asks(calls), Message("call", k))
<1>1. Asks(<<>>) = <<>>
  BY DEF Asks
<1>2. ASSUME NEW calls \in Seq(Int), NEW k \in Int
      PROVE  /\ Asks(calls) \in Seq(AnyMessages)
             /\ Asks(Append(calls, k)) = Append(Asks(calls), Message("call", k))
  <2>1. \A i \in Int : Message("call", i) \in AnyMessages
    BY SMTT(30) DEF AnyMessages, Message
  <2>2. PICK n \in Nat : n = Len(calls) /\ DOMAIN calls = 1..n
    <3>1. Len(calls) \in Nat /\ DOMAIN calls = 1..Len(calls)
      OBVIOUS
    <3> QED BY <3>1, Zenon
  <2>3. \A i \in 1..n : calls[i] \in Int
    BY <2>2
  <2>4. Asks(calls) = [i \in 1..n |-> Message("call", calls[i])]
    BY <2>2 DEF Asks
  <2>5. Asks(calls) \in Seq(AnyMessages) /\ Len(Asks(calls)) = n
    BY <2>1, <2>3, <2>4
  <2>6. PICK more \in Seq(Int) : /\ more = Append(calls, k) /\ DOMAIN more = 1..(n + 1)
                                 /\ more[n + 1] = k /\ \A i \in 1..n : more[i] = calls[i]
    <3>1. /\ Append(calls, k) \in Seq(Int) /\ DOMAIN Append(calls, k) = 1..(n + 1)
          /\ Append(calls, k)[n + 1] = k /\ \A i \in 1..n : Append(calls, k)[i] = calls[i]
      BY <2>2
    <3> QED BY <3>1
  <2>7. Asks(more) = [i \in 1..(n + 1) |-> Message("call", more[i])]
    BY <2>6 DEF Asks
  <2>8. PICK old \in Seq(AnyMessages), last \in AnyMessages : old = Asks(calls) /\ last = Message("call", k)
    BY <2>1, <2>5
  <2>9. Asks(more) \in Seq(AnyMessages) /\ Len(Asks(more)) = n + 1
        /\ \A i \in 1..(n + 1) : Asks(more)[i] = IF i = n + 1 THEN last ELSE old[i]
    <3>1. \A i \in 1..(n + 1) : more[i] \in Int
      BY <2>3, <2>6
    <3>2. \A i \in 1..n : old[i] = Message("call", calls[i])
      BY <2>4, <2>8
    <3>3. \A i \in 1..(n + 1) : Message("call", more[i]) \in AnyMessages
      BY <2>1, <3>1
    <3> HIDE DEF Asks
    <3> QED BY <2>6, <2>7, <2>8, <3>2, <3>3
  <2>10. Asks(more) = Append(Asks(calls), Message("call", k))
    <3>1. PICK new \in Seq(AnyMessages) : new = Asks(more)
      BY <2>9
    <3>2. Len(old) = n
      BY <2>5, <2>8
    <3>3. new = Append(old, last)
      BY <2>9, <3>1, <3>2, SameSeq
    <3> QED BY <2>8, <3>1, <3>3
  <2> QED BY <2>5, <2>6, <2>10
<1> QED
  BY <1>1, <1>2

Sayable(text, type) == Message(type, text) \in AnyMessages /\ <<Message(type, text)>> \in Seq(AnyMessages)

LEMMA OneMessage ==
  ASSUME NEW text \in Int, NEW type \in {"user", "assistant", "call", "output"}
  PROVE  Sayable(text, type) /\ <<Message(type, text)>> \o Asks(<<>>) = <<Message(type, text)>>
<1>1. Message(type, text) \in AnyMessages
  BY DEF AnyMessages, Message
<1>2. PICK a \in AnyMessages : a = Message(type, text)
  BY <1>1
<1>3. <<a>> \in Seq(AnyMessages) /\ <<a>> \o <<>> = <<a>>
  OBVIOUS
<1> QED
  BY <1>1, <1>2, <1>3, AsksGrow DEF Sayable

LEMMA UnfoldIsSeq ==
  ASSUME NEW x \in Items
  PROVE  Unfold(x) \in Seq(AnyMessages)
<1>1. x.role \in {"user", "assistant", "tool"} /\ x.text \in Int /\ x.calls \in Seq(Int)
  BY DEF Items
<1>2. CASE x.role = "tool"
  <2>1. Unfold(x) = <<Message("output", x.text)>>
    BY <1>2 DEF Unfold
  <2> QED BY <1>1, <2>1, OneMessage DEF Sayable
<1>3. CASE x.role = "assistant" /\ x.text = -1
  <2>1. Unfold(x) = Asks(x.calls)
    BY <1>3 DEF Unfold, Asks
  <2> QED BY <1>1, <2>1, AsksGrow
<1>4. CASE x.role # "tool" /\ ~(x.role = "assistant" /\ x.text = -1)
  <2>1. Unfold(x) = <<Message(x.role, x.text)>> \o Asks(x.calls)
    BY <1>4 DEF Unfold, Asks
  <2>2. x.role \in {"user", "assistant", "call", "output"}
    BY <1>1, <1>4
  <2>3. PICK m \in Seq(AnyMessages), c \in Seq(AnyMessages) : m = <<Message(x.role, x.text)>> /\ c = Asks(x.calls)
    BY <1>1, <2>2, OneMessage, AsksGrow DEF Sayable
  <2>4. m \o c \in Seq(AnyMessages)
    OBVIOUS
  <2> QED BY <2>1, <2>3, <2>4
<1> QED
  BY <1>2, <1>3, <1>4

LEMMA ChatGrows ==
  ASSUME NEW items \in Seq(Items), NEW x \in Items
  PROVE  /\ Chat(items) \in Seq(AnyMessages)
         /\ Chat(Append(items, x)) = Chat(items) \o Unfold(x)
<1>1. PICK B : B = {Unfold(y) : y \in Items}
  OBVIOUS
<1>2. B \subseteq Seq(AnyMessages) /\ Unfold(x) \in B
  BY <1>1, UnfoldIsSeq
<1>3. PICK n \in Nat : n = Len(items) /\ DOMAIN items = 1..n
  <2>1. Len(items) \in Nat /\ DOMAIN items = 1..Len(items)
    OBVIOUS
  <2> QED BY <2>1, Zenon
<1>4. PICK s : s = [i \in DOMAIN items |-> Unfold(items[i])]
  OBVIOUS
<1>5. s \in Seq(B) /\ Len(s) = n /\ \A i \in 1..n : s[i] = Unfold(items[i])
  <2>1. \A i \in 1..n : items[i] \in Items
    BY <1>3
  <2>2. s = [i \in 1..n |-> Unfold(items[i])]
    BY <1>3, <1>4
  <2>3. \A i \in 1..n : Unfold(items[i]) \in B
    BY <1>1, <2>1
  <2> QED BY <2>2, <2>3
<1>6. PICK more \in Seq(Items) : /\ more = Append(items, x) /\ DOMAIN more = 1..(n + 1)
                                 /\ more[n + 1] = x /\ \A i \in 1..n : more[i] = items[i]
  <2>1. /\ Append(items, x) \in Seq(Items) /\ DOMAIN Append(items, x) = 1..(n + 1)
        /\ Append(items, x)[n + 1] = x /\ \A i \in 1..n : Append(items, x)[i] = items[i]
    BY <1>3
  <2> QED BY <2>1
<1>7. PICK t : t = [i \in DOMAIN more |-> Unfold(more[i])]
  OBVIOUS
<1>8. t \in Seq(B) /\ Len(t) = n + 1 /\ \A i \in 1..(n + 1) : t[i] = Unfold(more[i])
  <2>1. \A i \in 1..(n + 1) : more[i] \in Items
    BY <1>6
  <2>2. t = [i \in 1..(n + 1) |-> Unfold(more[i])]
    BY <1>6, <1>7
  <2>3. \A i \in 1..(n + 1) : Unfold(more[i]) \in B
    BY <1>1, <2>1
  <2> QED BY <2>2, <2>3
<1>9. t = Append(s, Unfold(x))
  <2>1. PICK y \in B : y = Unfold(x)
    BY <1>2
  <2>2. \A i \in 1..(Len(s) + 1) : t[i] = IF i = Len(s) + 1 THEN y ELSE s[i]
    BY <1>5, <1>6, <1>8, <2>1
  <2>3. Len(t) = Len(s) + 1
    BY <1>5, <1>8
  <2> QED BY <1>5, <1>8, <2>1, <2>2, <2>3, SameSeq
<1>10. Chat(items) = FlattenSeq(s) /\ Chat(more) = FlattenSeq(t)
  BY <1>4, <1>7 DEF Chat
<1>11. FlattenSeq(s) \in Seq(AnyMessages) /\ FlattenSeq(Append(s, Unfold(x))) = FlattenSeq(s) \o Unfold(x)
  <2>1. PICK y \in B : y = Unfold(x)
    BY <1>2
  <2>2. FlattenSeq(s) \in Seq(AnyMessages) /\ FlattenSeq(Append(s, y)) = FlattenSeq(s) \o y
    <3>1. Joinable(AnyMessages, B, s, y)
      BY <1>2, <1>5 DEF Joinable
    <3> QED BY <3>1, FlattenAppend
  <2> QED BY <2>1, <2>2
<1> QED
  BY <1>6, <1>9, <1>10, <1>11

LEMMA ChatOfNone == Chat(<<>>) = <<>>
<1>1. [i \in DOMAIN <<>> |-> Unfold(<<>>[i])] = <<>>
  OBVIOUS
<1>2. FlattenSeq(<<>>) = <<>>
  BY DEF FlattenSeq
<1> QED
  BY <1>1, <1>2 DEF Chat

\* Three sequences one behind the other.
LEMMA JoinTwice ==
  ASSUME NEW A, NEW a \in Seq(A), NEW b \in Seq(A), NEW c \in Seq(A)
  PROVE  /\ (a \o b) \o c = a \o (b \o c) /\ a \o b \in Seq(A) /\ a \o <<>> = a
         /\ \A x \in A : a \o <<x>> = Append(a, x) /\ a \o Append(b, x) = Append(a \o b, x)
  BY SMTT(30)

\* What has been sent or waits.
Building(s) == s = [items |-> s.items, calls |-> s.calls] /\ s.items \in Seq(Items) /\ s.calls \in Seq(Int)
Said(s) == Chat(s.items) \o Asks(s.calls)

\* The calls that wait become part of the last item, or one of their own.
Own(s) == /\ S!FlushCalls(s).items = Append(s.items, S!Item("assistant", -1, s.calls))
          /\ S!FlushCalls(s).calls = <<>>
          /\ S!Item("assistant", -1, s.calls) \in Items
Part(s, last) ==
  /\ last \in Items /\ last.role = "assistant" /\ last.calls = <<>>
  /\ S!Item("assistant", last.text, s.calls) \in Items
  /\ S!FlushCalls(s).calls = <<>>
  /\ \E front \in Seq(Items) :
       /\ s.items = Append(front, last)
       /\ S!FlushCalls(s).items = Append(front, S!Item("assistant", last.text, s.calls))

LEMMA LastOfMany ==
  ASSUME NEW A, NEW s \in Seq(A), s # <<>>
  PROVE  S!Last(s) \in A /\ S!Front(s) \in Seq(A) /\ s = Append(S!Front(s), S!Last(s))
<1>1. PICK n \in Nat : n + 1 = Len(s)
  <2>1. Len(s) \in Nat /\ Len(s) # 0
    OBVIOUS
  <2>2. Len(s) - 1 \in Nat /\ (Len(s) - 1) + 1 = Len(s)
    BY <2>1
  <2> QED BY <2>2, Zenon
<1>2. S!Last(s) = s[n + 1]
  BY <1>1 DEF S!Last
<1>3. S!Front(s) = SubSeq(s, 1, n)
  BY <1>1 DEF S!Front
<1>4. s[n + 1] \in A /\ SubSeq(s, 1, n) \in Seq(A) /\ Len(SubSeq(s, 1, n)) = n
      /\ \A i \in 1..n : SubSeq(s, 1, n)[i] = s[i]
  BY <1>1
<1>5. s = Append(SubSeq(s, 1, n), s[n + 1])
  <2>1. PICK front \in Seq(A) : front = SubSeq(s, 1, n)
    BY <1>4
  <2>2. \A i \in 1..(Len(front) + 1) : s[i] = IF i = Len(front) + 1 THEN s[n + 1] ELSE front[i]
    BY <1>4, <2>1
  <2> QED BY <1>1, <1>4, <2>1, <2>2, SameSeq
<1> QED
  BY <1>2, <1>3, <1>4, <1>5

\* What holds of the empty sequence, and of one with another element.
LEMMA Lengthened ==
  ASSUME NEW A, NEW T, \A c \in Seq(A) : Len(c) = 0 => c \in T,
         \A c \in Seq(A), e \in A : c \in T => Append(c, e) \in T
  PROVE  \A c \in Seq(A) : c \in T
<1>1. SUFFICES ASSUME NEW c \in Seq(A) PROVE c \in T
  OBVIOUS
<1>2. PICK n \in Nat : n = Len(c)
  <2>1. Len(c) \in Nat
    OBVIOUS
  <2> QED BY <2>1
<1> DEFINE U == {i \in 0..n : \A d \in Seq(A) : Len(d) = i => d \in T}
<1>3. 0 \in U
  OBVIOUS
<1>4. ASSUME NEW i \in 1..n, i - 1 \in U PROVE i \in U
  <2>1. ASSUME NEW d \in Seq(A), Len(d) = i PROVE d \in T
    <3>1. d # <<>>
      BY <2>1
    <3>2. PICK front \in Seq(A), e \in A : d = Append(front, e)
      BY <3>1, LastOfMany
    <3>3. Len(Append(front, e)) = Len(front) + 1 /\ Len(front) \in Nat
      OBVIOUS
    <3>4. Len(front) = i - 1
      BY <2>1, <3>2, <3>3
    <3> QED BY <1>4, <3>2, <3>4
  <2> QED BY <2>1
<1>5. \A i \in 0..n : i \in U
  <2> HIDE DEF U
  <2> QED BY <1>3, <1>4, EveryRound
<1>6. n \in U
  BY <1>5
<1> QED
  BY <1>2, <1>6

LEMMA FlushIs ==
  ASSUME NEW s, Building(s), s.calls # <<>>
  PROVE  Own(s) \/ \E last : Part(s, last)
<1>1. s.items \in Seq(Items) /\ s.calls \in Seq(Int)
  BY DEF Building
<1>2. CASE s.items # <<>> /\ S!Last(s.items).role = "assistant" /\ S!Last(s.items).calls = <<>>
  <2>1. PICK last \in Items : last = S!Last(s.items)
    BY <1>1, <1>2, LastOfMany
  <2>2. PICK front \in Seq(Items) : front = S!Front(s.items) /\ s.items = Append(front, last)
    BY <1>1, <1>2, <2>1, LastOfMany
  <2>3. S!FlushCalls(s) = [items |-> Append(front, S!Item("assistant", last.text, s.calls)), calls |-> <<>>]
    BY <1>2, <2>1, <2>2 DEF S!FlushCalls
  <2>4. S!Item("assistant", last.text, s.calls) \in Items
    BY <1>1, <2>1 DEF S!Item, Items
  <2>5. Part(s, last)
    BY <1>2, <2>1, <2>2, <2>3, <2>4 DEF Part
  <2> QED BY <2>5
<1>3. CASE ~(s.items # <<>> /\ S!Last(s.items).role = "assistant" /\ S!Last(s.items).calls = <<>>)
  <2>1. S!FlushCalls(s) = [items |-> Append(s.items, S!Item("assistant", -1, s.calls)), calls |-> <<>>]
    BY <1>3 DEF S!FlushCalls
  <2>2. S!Item("assistant", -1, s.calls) \in Items
    BY <1>1 DEF S!Item, Items
  <2> QED BY <2>1, <2>2 DEF Own
<1> QED
  BY <1>2, <1>3

LEMMA SaidIsSeq ==
  ASSUME NEW s, Building(s)
  PROVE  Chat(s.items) \in Seq(AnyMessages) /\ Asks(s.calls) \in Seq(AnyMessages) /\ Said(s) \in Seq(AnyMessages)
<1>1. s.items \in Seq(Items) /\ s.calls \in Seq(Int)
  BY DEF Building
<1>2. S!Item("user", 0, <<>>) \in Items
  BY DEF S!Item, Items
<1>3. PICK a \in Seq(AnyMessages), b \in Seq(AnyMessages) : a = Chat(s.items) /\ b = Asks(s.calls)
  BY <1>1, <1>2, ChatGrows, AsksGrow
<1>4. a \o b \in Seq(AnyMessages)
  BY JoinTwice
<1> QED
  BY <1>3, <1>4 DEF Said

\* Handing over the calls that wait changes nothing in what is said.
LEMMA FlushSays ==
  ASSUME NEW s, Building(s)
  PROVE  /\ Building(S!FlushCalls(s)) /\ S!FlushCalls(s).calls = <<>>
         /\ Chat(S!FlushCalls(s).items) = Said(s)
<1>1. s.items \in Seq(Items) /\ s.calls \in Seq(Int)
  BY DEF Building
<1>2. PICK f : f = S!FlushCalls(s)
  OBVIOUS
<1>3. PICK a \in Seq(AnyMessages), c \in Seq(AnyMessages) : a = Chat(s.items) /\ c = Asks(s.calls)
  BY SaidIsSeq
<1>4. Said(s) = a \o c
  BY <1>3 DEF Said
<1>5. CASE s.calls = <<>>
  <2>1. f = s
    BY <1>2, <1>5 DEF S!FlushCalls
  <2>2. c = <<>>
    BY <1>3, <1>5, AsksGrow
  <2>3. a \o c = a
    BY <2>2, JoinTwice
  <2> QED BY <1>2, <1>3, <1>4, <1>5, <2>1, <2>3
<1>6. CASE s.calls # <<>>
  <2>0. f = [items |-> f.items, calls |-> f.calls]
    BY <1>2, <1>6 DEF S!FlushCalls
  <2>1. CASE Own(s)
    <3>1. PICK x \in Items : x = S!Item("assistant", -1, s.calls)
      BY <2>1 DEF Own
    <3>2. f.items = Append(s.items, x) /\ f.calls = <<>>
      BY <1>2, <2>1, <3>1 DEF Own
    <3>3. Unfold(x) = c
      BY <1>3, <3>1 DEF Unfold, S!Item, Asks
    <3>4. Chat(f.items) = a \o c
      BY <1>1, <1>3, <3>2, <3>3, ChatGrows
    <3>5. f.items \in Seq(Items) /\ f.calls \in Seq(Int)
      BY <1>1, <3>2
    <3> QED BY <1>2, <1>4, <2>0, <3>2, <3>4, <3>5 DEF Building
  <2>2. ASSUME NEW last, Part(s, last) PROVE Building(f) /\ f.calls = <<>> /\ Chat(f.items) = a \o c
    <3>1. last \in Items /\ last.role = "assistant" /\ last.calls = <<>>
      BY <2>2 DEF Part
    <3>2. PICK x \in Items : x = S!Item("assistant", last.text, s.calls)
      BY <2>2 DEF Part
    <3>3. PICK front \in Seq(Items) : s.items = Append(front, last) /\ f.items = Append(front, x)
      BY <1>2, <2>2, <3>2 DEF Part
    <3>4. f.calls = <<>>
      BY <1>2, <2>2 DEF Part
    <3>5. last.text \in Int /\ last.text # -1
      BY <3>1 DEF Items
    <3>6. PICK m \in Seq(AnyMessages) : m = <<Message("assistant", last.text)>>
      BY <3>5, OneMessage DEF Sayable
    <3>7. Unfold(x) = m \o c
      BY <1>3, <3>2, <3>5, <3>6 DEF Unfold, S!Item, Asks
    <3>8. Unfold(last) = m
      <4>1. Unfold(last) = <<Message("assistant", last.text)>> \o Asks(<<>>)
        BY <3>1, <3>5 DEF Unfold, Asks
      <4> QED BY <3>5, <3>6, <4>1, OneMessage
    <3>9. PICK b \in Seq(AnyMessages) : b = Chat(front)
      BY <3>1, <3>3, ChatGrows
    <3>10. a = b \o m
      BY <1>3, <3>1, <3>3, <3>8, <3>9, ChatGrows
    <3>11. Chat(f.items) = b \o (m \o c)
      BY <3>2, <3>3, <3>7, <3>9, ChatGrows
    <3>12. (b \o m) \o c = b \o (m \o c)
      BY JoinTwice
    <3>13. f.items \in Seq(Items) /\ f.calls \in Seq(Int)
      BY <3>2, <3>3, <3>4
    <3> QED BY <2>0, <3>4, <3>10, <3>11, <3>12, <3>13 DEF Building
  <2> QED BY <1>2, <1>4, <1>6, <2>1, <2>2, FlushIs
<1> QED
  BY <1>5, <1>6

LEMMA MessageSays ==
  ASSUME NEW s, Building(s), NEW m \in Messages
  PROVE  /\ Building(S!ChatMessage(s, m))
         /\ Said(S!ChatMessage(s, m)) = Append(Said(s), m)
<1>1. s.items \in Seq(Items) /\ s.calls \in Seq(Int)
  BY DEF Building
<1>2. PICK n : n = S!ChatMessage(s, m)
  OBVIOUS
<1>3. PICK a \in Seq(AnyMessages), c \in Seq(AnyMessages) : a = Chat(s.items) /\ c = Asks(s.calls)
  BY SaidIsSeq
<1>4. Said(s) = a \o c
  BY <1>3 DEF Said
<1>5. /\ m.type \in {"user", "assistant", "call", "output"} /\ m.id \in Int /\ m.id # -1
      /\ m = Message(m.type, m.id)
  BY DEF Messages, Message
<1>6. m \in AnyMessages
  BY <1>5, OneMessage DEF Sayable
<1>7. CASE m.type = "call"
  <2>1. n = [s EXCEPT !.calls = Append(@, m.id)]
    BY <1>2, <1>7 DEF S!ChatMessage
  <2>2. n = [items |-> s.items, calls |-> Append(s.calls, m.id)]
    BY <2>1 DEF Building
  <2>3. Append(s.calls, m.id) \in Seq(Int)
    BY <1>1, <1>5
  <2>4. Asks(n.calls) = Append(c, m)
    BY <1>1, <1>3, <1>5, <1>7, <2>2, AsksGrow
  <2>5. Said(n) = a \o Append(c, m)
    BY <1>3, <2>2, <2>4 DEF Said
  <2>6. a \o Append(c, m) = Append(a \o c, m)
    BY <1>6, JoinTwice
  <2>7. Building(n)
    BY <1>1, <2>2, <2>3 DEF Building
  <2> QED BY <1>2, <1>4, <2>5, <2>6, <2>7
<1>8. CASE m.type # "call"
  <2>1. PICK f : f = S!FlushCalls(s)
    OBVIOUS
  <2>2. Building(f) /\ f.calls = <<>> /\ Chat(f.items) = a \o c
    BY <1>4, <2>1, FlushSays
  <2> DEFINE role == IF m.type = "output" THEN "tool" ELSE m.type
  <2>3. PICK x : x = S!Item(role, m.id, <<>>)
    OBVIOUS
  <2>4. x \in Items
    BY <1>5, <1>8, <2>3 DEF S!Item, Items
  <2>5. n = [f EXCEPT !.items = Append(@, x)]
    BY <1>2, <1>8, <2>1, <2>3 DEF S!ChatMessage
  <2>6. n = [items |-> Append(f.items, x), calls |-> <<>>]
    BY <2>2, <2>5 DEF Building
  <2>7. Unfold(x) = <<m>>
    <3>1. CASE m.type = "output"
      BY <1>5, <2>3, <3>1 DEF Unfold, S!Item
    <3>2. CASE m.type # "output"
      <4>1. Unfold(x) = <<Message(m.type, m.id)>> \o Asks(<<>>)
        BY <1>5, <1>8, <2>3, <3>2 DEF Unfold, S!Item, Asks
      <4>2. <<Message(m.type, m.id)>> \o Asks(<<>>) = <<Message(m.type, m.id)>>
        BY <1>5, OneMessage
      <4> QED BY <1>5, <4>1, <4>2
    <3> QED BY <3>1, <3>2
  <2>8. f.items \in Seq(Items)
    BY <2>2 DEF Building
  <2>9. Chat(n.items) = (a \o c) \o <<m>>
    BY <2>2, <2>4, <2>6, <2>7, <2>8, ChatGrows
  <2>10. (a \o c) \o <<m>> = Append(a \o c, m) /\ (a \o c) \o <<m>> \in Seq(AnyMessages)
    <3>1. a \o c \in Seq(AnyMessages)
      BY JoinTwice
    <3>2. <<m>> \in Seq(AnyMessages)
      BY <1>6
    <3> QED BY <1>6, <3>1, <3>2, JoinTwice
  <2>11. Said(n) = (a \o c) \o <<m>>
    <3>1. Said(n) = Chat(n.items) \o Asks(<<>>)
      BY <2>6 DEF Said
    <3>2. PICK all \in Seq(AnyMessages) : all = (a \o c) \o <<m>>
      BY <2>10
    <3>3. all \o <<>> = all
      BY JoinTwice
    <3> QED BY <2>9, <3>1, <3>2, <3>3, AsksGrow
  <2>12. Append(f.items, x) \in Seq(Items)
    BY <2>4, <2>8
  <2>13. Building(n)
    <3>1. <<>> \in Seq(Int)
      OBVIOUS
    <3> QED BY <2>6, <2>12, <3>1 DEF Building
  <2> QED BY <1>2, <1>4, <2>10, <2>11, <2>13
<1> QED
  BY <1>7, <1>8

\* The loop of _messages_to_chat.
LEMMA SentRounds ==
  ASSUME NEW messages, Len(messages) \in Nat
  PROVE  \E f : /\ f[0] = [items |-> <<>>, calls |-> <<>>]
                /\ \A i \in 1..Len(messages) : f[i] = S!ChatMessage(f[i - 1], messages[i])
                /\ S!MessagesToChat(messages) = S!FlushCalls(f[Len(messages)]).items
<1> DEFINE none == [items |-> <<>>, calls |-> <<>>]
<1>1. \E f : Sent!Rounds(0, none, messages, Len(messages), f)
  BY Sent!RoundsExist
<1>2. \E f : /\ Sent!Rounds(0, none, messages, Len(messages), f)
             /\ S!MessagesToChat(messages) = S!FlushCalls(f[Len(messages)]).items
  BY <1>1 DEF Sent!Rounds, S!MessagesToChat, S!LastFlush, Sending
<1>3. PICK f : /\ Sent!Rounds(0, none, messages, Len(messages), f)
               /\ S!MessagesToChat(messages) = S!FlushCalls(f[Len(messages)]).items
  BY <1>2
<1>4. f[0] = none
  BY <1>3 DEF Sent!Rounds
<1>5. \A i \in 1..Len(messages) : f[i] = S!ChatMessage(f[i - 1], messages[i])
  BY <1>3 DEF Sent!Rounds, Sending
<1> QED
  BY <1>3, <1>4, <1>5

\* What has been said after some of the messages is these messages.
Heard(messages, i, s) ==
  /\ Building(s) /\ Len(Said(s)) = i
  /\ \A k \in 1..i : Said(s)[k] = messages[k]

LEMMA NothingHeard ==
  ASSUME NEW messages
  PROVE  Heard(messages, 0, [items |-> <<>>, calls |-> <<>>])
<1>1. Building([items |-> <<>>, calls |-> <<>>])
  BY DEF Building
<1>2. Said([items |-> <<>>, calls |-> <<>>]) = <<>>
  BY ChatOfNone, AsksGrow DEF Said
<1> QED
  BY <1>1, <1>2 DEF Heard

LEMMA HeardNext ==
  ASSUME NEW messages \in Seq(Messages), NEW i \in 1..Len(messages), NEW s, Heard(messages, i - 1, s)
  PROVE  Heard(messages, i, S!ChatMessage(s, messages[i]))
<1>1. PICK m \in Messages : m = messages[i]
  OBVIOUS
<1>2. PICK n : n = S!ChatMessage(s, m)
  OBVIOUS
<1>3. Building(s) /\ Len(Said(s)) = i - 1 /\ \A k \in 1..(i - 1) : Said(s)[k] = messages[k]
  BY DEF Heard
<1>4. Building(n) /\ Said(n) = Append(Said(s), m)
  BY <1>2, <1>3, MessageSays
<1>5. PICK a \in Seq(AnyMessages) : a = Said(s)
  BY <1>3, SaidIsSeq
<1>6. Len(Append(a, m)) = i /\ Append(a, m)[i] = m /\ \A k \in 1..(i - 1) : Append(a, m)[k] = a[k]
  <2>1. Len(a) = i - 1
    BY <1>3, <1>5
  <2> QED BY <2>1
<1>7. \A k \in 1..i : Append(a, m)[k] = messages[k]
  BY <1>1, <1>3, <1>5, <1>6
<1>8. Said(n) = Append(a, m)
  BY <1>4, <1>5
<1>9. Len(Said(n)) = i /\ \A k \in 1..i : Said(n)[k] = messages[k]
  BY <1>6, <1>7, <1>8
<1> QED
  BY <1>1, <1>2, <1>4, <1>9 DEF Heard

LEMMA EqualSeqs ==
  ASSUME NEW A, NEW a \in Seq(A), NEW C, NEW b \in Seq(C), Len(a) = Len(b), \A i \in 1..Len(b) : a[i] = b[i]
  PROVE  a = b
  OBVIOUS

\* _messages_to_chat, for any conversation: whichever calls and results it has and in
\* whichever order, the items stand for all of its messages, each once and in their order.
THEOREM RequestsSayEverything ==
  ASSUME NEW messages \in Seq(Messages)
  PROVE  Chat(S!MessagesToChat(messages)) = messages
<1>1. PICK n \in Nat : n = Len(messages)
  OBVIOUS
<1>2. PICK f : /\ f[0] = [items |-> <<>>, calls |-> <<>>]
               /\ \A i \in 1..n : f[i] = S!ChatMessage(f[i - 1], messages[i])
               /\ S!MessagesToChat(messages) = S!FlushCalls(f[n]).items
  BY <1>1, SentRounds
<1> DEFINE T == {i \in 0..n : Heard(messages, i, f[i])}
<1>3. 0 \in T
  BY <1>2, NothingHeard
<1>4. ASSUME NEW i \in 1..n, i - 1 \in T PROVE i \in T
  <2>1. Heard(messages, i - 1, f[i - 1])
    BY <1>4
  <2>2. Heard(messages, i, S!ChatMessage(f[i - 1], messages[i]))
    BY <1>1, <2>1, HeardNext
  <2> QED BY <1>2, <2>2
<1>5. \A i \in 0..n : i \in T
  <2> HIDE DEF T
  <2> QED BY <1>3, <1>4, EveryRound
<1>6. Heard(messages, n, f[n])
  BY <1>5
<1>7. PICK a \in Seq(AnyMessages) : a = Said(f[n])
  BY <1>6, SaidIsSeq DEF Heard
<1>8. Chat(S!MessagesToChat(messages)) = a
  BY <1>2, <1>6, <1>7, FlushSays DEF Heard
<1>9. Len(a) = Len(messages) /\ \A i \in 1..Len(messages) : a[i] = messages[i]
  BY <1>1, <1>6, <1>7 DEF Heard
<1>10. a = messages
  BY <1>9, EqualSeqs
<1> QED
  BY <1>8, <1>10

-----------------------------------------------------------------------------
(* The next request: a result comes behind its call                            *)

Behind(items, id) ==
  \E q \in 1..Len(items) : /\ id \in ToSet(items[q].calls)
                           /\ \A r \in (q + 1)..Len(items) : items[r].role = "tool"
Follows(items, k) ==
  \E q \in 1..(k - 1) : /\ items[k].text \in ToSet(items[q].calls)
                        /\ \A r \in (q + 1)..k : items[r].role = "tool"
AllFollow(items) == \A k \in 1..Len(items) : items[k].role = "tool" => Follows(items, k)

LEMMA OneItemMore ==
  ASSUME NEW items \in Seq(Items), NEW x \in Items
  PROVE  \E n \in Nat : /\ n = Len(items) /\ Len(Append(items, x)) = n + 1 /\ Append(items, x)[n + 1] = x
                        /\ \A i \in 1..n : Append(items, x)[i] = items[i]
<1>1. Len(items) \in Nat
  OBVIOUS
<1> QED
  BY <1>1

LEMMA FollowsInBoth ==
  ASSUME NEW items \in Seq(Items), NEW x \in Items, NEW k \in 1..Len(items)
  PROVE  Follows(items, k) <=> Follows(Append(items, x), k)
<1>1. PICK n \in Nat : /\ n = Len(items) /\ Len(Append(items, x)) = n + 1 /\ Append(items, x)[n + 1] = x
                       /\ \A i \in 1..n : Append(items, x)[i] = items[i]
  BY OneItemMore
<1>2. PICK more : more = Append(items, x)
  OBVIOUS
<1>3. \A i \in 1..k : more[i] = items[i]
  BY <1>1, <1>2
<1>4. Follows(items, k) <=> Follows(more, k)
  BY <1>1, <1>3 DEF Follows
<1> QED
  BY <1>2, <1>4

LEMMA FollowAppended ==
  ASSUME NEW items \in Seq(Items), NEW x \in Items
  PROVE  /\ AllFollow(Append(items, x)) => AllFollow(items)
         /\ AllFollow(items) /\ (x.role = "tool" => Behind(items, x.text)) => AllFollow(Append(items, x))
         /\ \A id \in ToSet(x.calls) : Behind(Append(items, x), id)
         /\ x.role = "tool" => \A id : Behind(items, id) => Behind(Append(items, x), id)
<1>1. PICK n \in Nat : /\ n = Len(items) /\ Len(Append(items, x)) = n + 1 /\ Append(items, x)[n + 1] = x
                       /\ \A i \in 1..n : Append(items, x)[i] = items[i]
  BY OneItemMore
<1>2. PICK more : more = Append(items, x)
  OBVIOUS
<1>3. Len(more) = n + 1 /\ more[n + 1] = x /\ \A i \in 1..n : more[i] = items[i]
  BY <1>1, <1>2
<1>4. \A k \in 1..n : Follows(items, k) <=> Follows(more, k)
  BY <1>1, <1>2, FollowsInBoth
<1>5. AllFollow(more) => AllFollow(items)
  BY <1>1, <1>3, <1>4 DEF AllFollow
<1>6. ASSUME AllFollow(items), x.role = "tool" => Behind(items, x.text)
      PROVE  AllFollow(more)
  <2>1. ASSUME NEW k \in 1..(n + 1), more[k].role = "tool"
        PROVE  Follows(more, k)
    <3>1. CASE k \in 1..n
      BY <1>1, <1>3, <1>4, <1>6, <2>1, <3>1 DEF AllFollow
    <3>2. CASE k = n + 1
      <4>1. PICK q \in 1..n : /\ x.text \in ToSet(items[q].calls)
                              /\ \A r \in (q + 1)..n : items[r].role = "tool"
        BY <1>1, <1>3, <1>6, <2>1, <3>2 DEF Behind
      <4>2. more[q] = items[q] /\ more[k] = x
        BY <1>3, <3>2, <4>1
      <4>3. \A r \in (q + 1)..k : more[r].role = "tool"
        BY <1>3, <2>1, <3>2, <4>1
      <4>4. q \in 1..(k - 1)
        BY <3>2, <4>1
      <4> QED BY <4>1, <4>2, <4>3, <4>4 DEF Follows
    <3> QED BY <3>1, <3>2
  <2> QED BY <1>3, <2>1 DEF AllFollow
<1>7. ASSUME NEW id \in ToSet(x.calls) PROVE Behind(more, id)
  <2>1. n + 1 \in 1..Len(more) /\ \A r \in (n + 1 + 1)..Len(more) : more[r].role = "tool"
    BY <1>3
  <2> QED BY <1>3, <1>7, <2>1 DEF Behind
<1>8. ASSUME x.role = "tool", NEW id, Behind(items, id) PROVE Behind(more, id)
  <2>1. PICK q \in 1..n : /\ id \in ToSet(items[q].calls)
                          /\ \A r \in (q + 1)..n : items[r].role = "tool"
    BY <1>1, <1>8 DEF Behind
  <2>2. more[q] = items[q] /\ q \in 1..Len(more)
    BY <1>3, <2>1
  <2>3. \A r \in (q + 1)..Len(more) : more[r].role = "tool"
    BY <1>3, <1>8, <2>1
  <2> QED BY <2>1, <2>2, <2>3 DEF Behind
<1> QED
  BY <1>2, <1>5, <1>6, <1>7, <1>8

\* The calls that wait are all handed over, behind what was sent.
LEMMA FlushFollows ==
  ASSUME NEW s, Building(s), AllFollow(s.items)
  PROVE  /\ AllFollow(S!FlushCalls(s).items)
         /\ \A id \in ToSet(s.calls) : Behind(S!FlushCalls(s).items, id)
<1>1. s.items \in Seq(Items) /\ s.calls \in Seq(Int)
  BY DEF Building
<1>2. PICK f : f = S!FlushCalls(s)
  OBVIOUS
<1>3. CASE s.calls = <<>>
  <2>1. f = s /\ ToSet(s.calls) = {}
    BY <1>2, <1>3 DEF S!FlushCalls, ToSet
  <2> QED BY <1>2, <2>1
<1>4. CASE Own(s)
  <2>1. PICK x \in Items : x = S!Item("assistant", -1, s.calls)
    BY <1>4 DEF Own
  <2>2. x.role = "assistant" /\ x.calls = s.calls
    BY <2>1 DEF S!Item
  <2>3. f.items = Append(s.items, x)
    BY <1>2, <1>4, <2>1 DEF Own
  <2>4. AllFollow(Append(s.items, x)) /\ \A id \in ToSet(x.calls) : Behind(Append(s.items, x), id)
    BY <1>1, <2>2, FollowAppended
  <2> QED BY <1>2, <2>2, <2>3, <2>4
<1>5. ASSUME NEW last, Part(s, last)
      PROVE  AllFollow(f.items) /\ \A id \in ToSet(s.calls) : Behind(f.items, id)
  <2>1. PICK x \in Items : x = S!Item("assistant", last.text, s.calls)
    BY <1>5 DEF Part
  <2>2. x.role = "assistant" /\ x.calls = s.calls
    BY <2>1 DEF S!Item
  <2>3. PICK front \in Seq(Items) : s.items = Append(front, last) /\ f.items = Append(front, x)
    BY <1>2, <1>5, <2>1 DEF Part
  <2>4. last \in Items
    BY <1>5 DEF Part
  <2>5. AllFollow(front)
    BY <2>3, <2>4, FollowAppended
  <2>6. AllFollow(Append(front, x)) /\ \A id \in ToSet(x.calls) : Behind(Append(front, x), id)
    BY <2>2, <2>5, FollowAppended
  <2> QED BY <2>2, <2>3, <2>6
<1> QED
  BY <1>2, <1>3, <1>4, <1>5, FlushIs

\* Calls from j to m, results from there to i.
Batch(messages, j, m, i) ==
  /\ \A k \in j..m : messages[k].type = "call"
  /\ \A k \in (m + 1)..i : messages[k].type = "output"

\* What is true of what has been sent after some of the messages.
Sendable(messages, i, s) ==
  /\ Building(s) /\ AllFollow(s.items)
  /\ \A j \in 1..i : Batch(messages, j, i, i) => messages[j].id \in ToSet(s.calls)
  /\ \A j, m \in 1..(i - 1) : j <= m /\ Batch(messages, j, m, i) => Behind(s.items, messages[j].id)
  /\ i # 0 /\ messages[i].type # "call" => s.calls = <<>>

LEMMA NothingSent ==
  ASSUME NEW messages
  PROVE  Sendable(messages, 0, [items |-> <<>>, calls |-> <<>>])
<1>1. Building([items |-> <<>>, calls |-> <<>>])
  BY DEF Building
<1>2. AllFollow(<<>>)
  BY DEF AllFollow
<1>3. 1..0 = {} /\ 1..(0 - 1) = {}
  OBVIOUS
<1> QED
  BY <1>1, <1>2, <1>3 DEF Sendable

LEMMA CallSent ==
  ASSUME NEW messages \in Seq(Messages), NEW i \in 1..Len(messages), NEW s, Sendable(messages, i - 1, s),
         messages[i].type = "call"
  PROVE  Sendable(messages, i, S!ChatMessage(s, messages[i]))
<1>1. PICK m \in Messages : m = messages[i]
  OBVIOUS
<1>2. PICK n : n = S!ChatMessage(s, m)
  OBVIOUS
<1>3. Building(s) /\ AllFollow(s.items)
  BY DEF Sendable
<1>4. Building(n)
  BY <1>2, <1>3, MessageSays
<1>5. n.items = s.items /\ n.calls = Append(s.calls, m.id)
  <2>1. n = [s EXCEPT !.calls = Append(@, m.id)]
    BY <1>1, <1>2 DEF S!ChatMessage
  <2> QED BY <1>3, <2>1 DEF Building
<1>6. ToSet(n.calls) = ToSet(s.calls) \cup {m.id}
  <2>1. m.id \in Int /\ s.calls \in Seq(Int)
    BY <1>3 DEF Building, Messages, Message
  <2>2. PICK k \in Int : k = m.id
    BY <2>1
  <2>3. PICK calls \in Seq(Int) : calls = s.calls
    BY <2>1
  <2>4. ToSet(Append(calls, k)) = ToSet(calls) \cup {k}
    <3>1. PICK l \in Nat : l = Len(calls) /\ DOMAIN calls = 1..l
      <4>1. Len(calls) \in Nat /\ DOMAIN calls = 1..Len(calls)
        OBVIOUS
      <4> QED BY <4>1, Zenon
    <3>2. PICK more : more = Append(calls, k)
      OBVIOUS
    <3>3. DOMAIN more = 1..(l + 1) /\ more[l + 1] = k /\ \A h \in 1..l : more[h] = calls[h]
      BY <3>1, <3>2
    <3>4. {more[h] : h \in 1..(l + 1)} = {calls[h] : h \in 1..l} \cup {k}
      BY <3>1, <3>3
    <3> QED BY <3>1, <3>2, <3>3, <3>4, SMTT(30) DEF ToSet
  <2> QED BY <1>5, <2>2, <2>3, <2>4
<1>7. ASSUME NEW j \in 1..i, Batch(messages, j, i, i) PROVE messages[j].id \in ToSet(n.calls)
  <2>1. CASE j = i
    BY <1>1, <1>6, <2>1
  <2>2. CASE j # i
    <3>1. j \in 1..(i - 1)
      BY <2>2
    <3>2. Batch(messages, j, i - 1, i - 1)
      BY <1>7 DEF Batch
    <3> QED BY <1>6, <3>1, <3>2 DEF Sendable
  <2> QED BY <2>1, <2>2
<1>8. ASSUME NEW j \in 1..(i - 1), NEW k \in 1..(i - 1), j <= k PROVE ~Batch(messages, j, k, i)
  <2>1. i \in (k + 1)..i
    OBVIOUS
  <2> QED BY <2>1 DEF Batch
<1>9. Sendable(messages, i, n)
  BY <1>3, <1>4, <1>5, <1>7, <1>8 DEF Sendable
<1> QED
  BY <1>1, <1>2, <1>9

LEMMA OtherSent ==
  ASSUME NEW messages \in Seq(Messages), NEW i \in 1..Len(messages), NEW s, Sendable(messages, i - 1, s),
         messages[i].type # "call",
         messages[i].type = "output" =>
           \E j, m \in 1..(i - 1) : j <= m /\ Batch(messages, j, m, i) /\ messages[j].id = messages[i].id
  PROVE  Sendable(messages, i, S!ChatMessage(s, messages[i]))
<1>1. PICK m \in Messages : m = messages[i]
  OBVIOUS
<1>2. PICK n : n = S!ChatMessage(s, m)
  OBVIOUS
<1>3. Building(s) /\ AllFollow(s.items)
  BY DEF Sendable
<1>4. Building(n)
  BY <1>2, <1>3, MessageSays
<1>5. PICK f : f = S!FlushCalls(s)
  OBVIOUS
<1>6. Building(f) /\ f.calls = <<>> /\ AllFollow(f.items) /\ \A id \in ToSet(s.calls) : Behind(f.items, id)
  BY <1>3, <1>5, FlushSays, FlushFollows
<1>7. /\ m.type \in {"user", "assistant", "output"} /\ m.id \in Int /\ m.id # -1
  BY <1>1 DEF Messages, Message
<1> DEFINE role == IF m.type = "output" THEN "tool" ELSE m.type
<1>8. PICK x \in Items : x = S!Item(role, m.id, <<>>)
  <2>1. PICK x : x = S!Item(role, m.id, <<>>)
    OBVIOUS
  <2>2. x \in Items
    BY <1>7, <2>1 DEF S!Item, Items
  <2> QED BY <2>1, <2>2
<1>9. n.items = Append(f.items, x) /\ n.calls = <<>>
  <2>1. n = [f EXCEPT !.items = Append(@, x)]
    BY <1>1, <1>2, <1>5, <1>8 DEF S!ChatMessage
  <2> QED BY <1>6, <2>1 DEF Building
<1>10. x.text = m.id /\ (x.role = "tool" <=> m.type = "output")
  BY <1>7, <1>8 DEF S!Item
<1>11. ASSUME NEW j \in 1..(i - 1), NEW k \in 1..(i - 1), j <= k, Batch(messages, j, k, i)
       PROVE  Behind(f.items, messages[j].id) /\ m.type = "output"
  <2>0. m.type = "output"
    <3>1. i \in (k + 1)..i
      OBVIOUS
    <3> QED BY <1>1, <1>11, <3>1 DEF Batch
  <2>1. CASE k = i - 1
    <3>1. Batch(messages, j, i - 1, i - 1)
      BY <1>11, <2>1 DEF Batch
    <3>2. messages[j].id \in ToSet(s.calls)
      BY <3>1 DEF Sendable
    <3> QED BY <1>6, <2>0, <3>2
  <2>2. CASE k # i - 1
    <3>1. i - 1 \in (k + 1)..i /\ i - 1 # 0 /\ j \in 1..((i - 1) - 1) /\ k \in 1..((i - 1) - 1)
      BY <1>11, <2>2
    <3>2. messages[i - 1].type = "output"
      BY <1>11, <3>1 DEF Batch
    <3>3. s.calls = <<>>
      BY <3>1, <3>2 DEF Sendable
    <3>4. f = s
      BY <1>5, <3>3 DEF S!FlushCalls
    <3>5. Batch(messages, j, k, i - 1)
      BY <1>11 DEF Batch
    <3>6. Behind(s.items, messages[j].id)
      BY <1>11, <3>1, <3>5 DEF Sendable
    <3> QED BY <2>0, <3>4, <3>6
  <2> QED BY <2>1, <2>2
<1>12. f.items \in Seq(Items)
  BY <1>6 DEF Building
<1>13. AllFollow(n.items)
  <2>1. x.role = "tool" => Behind(f.items, x.text)
    BY <1>1, <1>10, <1>11
  <2> QED BY <1>6, <1>9, <1>12, <2>1, FollowAppended
<1>14. ASSUME NEW j \in 1..(i - 1), NEW k \in 1..(i - 1), j <= k, Batch(messages, j, k, i)
       PROVE  Behind(n.items, messages[j].id)
  <2>1. Behind(f.items, messages[j].id) /\ x.role = "tool"
    BY <1>10, <1>11, <1>14
  <2> QED BY <1>9, <1>12, <2>1, FollowAppended
<1>15. ASSUME NEW j \in 1..i PROVE ~Batch(messages, j, i, i)
  <2>1. i \in j..i
    OBVIOUS
  <2> QED BY <2>1 DEF Batch
<1>16. Sendable(messages, i, n)
  BY <1>4, <1>9, <1>13, <1>14, <1>15 DEF Sendable
<1> QED
  BY <1>1, <1>2, <1>16

\* _messages_to_chat again: if the calls of each batch come together and their results next, the
\* result of a call comes behind the item that asked for it, and only other results between.
THEOREM ResultsFollowTheirCalls ==
  ASSUME NEW messages \in Seq(Messages), Batched(messages)
  PROVE  AllFollow(S!MessagesToChat(messages)) /\ S!MessagesToChat(messages) \in Seq(Items)
<1>1. PICK n \in Nat : n = Len(messages) /\ DOMAIN messages = 1..n
  <2>1. Len(messages) \in Nat /\ DOMAIN messages = 1..Len(messages)
    OBVIOUS
  <2> QED BY <2>1, Zenon
<1>2. PICK f : /\ f[0] = [items |-> <<>>, calls |-> <<>>]
               /\ \A i \in 1..n : f[i] = S!ChatMessage(f[i - 1], messages[i])
               /\ S!MessagesToChat(messages) = S!FlushCalls(f[n]).items
  BY <1>1, SentRounds
<1> DEFINE T == {i \in 0..n : Sendable(messages, i, f[i])}
<1>3. 0 \in T
  BY <1>2, NothingSent
<1>4. ASSUME NEW i \in 1..n, i - 1 \in T PROVE i \in T
  <2>1. Sendable(messages, i - 1, f[i - 1])
    BY <1>4
  <2>2. ASSUME messages[i].type = "output"
        PROVE  \E j, m \in 1..(i - 1) : j <= m /\ Batch(messages, j, m, i) /\ messages[j].id = messages[i].id
    <3>1. PICK j \in 1..(i - 1) :
            /\ messages[j] = Message("call", messages[i].id)
            /\ \E m \in j..(i - 1) : /\ \A k \in j..m : messages[k].type = "call"
                                     /\ \A k \in (m + 1)..i : messages[k].type = "output"
      BY <1>1, <2>2 DEF Batched
    <3>2. PICK m \in j..(i - 1) : /\ \A k \in j..m : messages[k].type = "call"
                                  /\ \A k \in (m + 1)..i : messages[k].type = "output"
      BY <3>1
    <3>3. m \in 1..(i - 1) /\ j <= m
      BY <3>1, <3>2
    <3>4. Batch(messages, j, m, i)
      BY <3>2 DEF Batch
    <3>5. messages[j].id = messages[i].id
      BY <3>1 DEF Message
    <3> QED BY <3>3, <3>4, <3>5
  <2>3. Sendable(messages, i, S!ChatMessage(f[i - 1], messages[i]))
    BY <1>1, <2>1, <2>2, CallSent, OtherSent
  <2> QED BY <1>2, <2>3
<1>5. \A i \in 0..n : i \in T
  <2> HIDE DEF T
  <2> QED BY <1>3, <1>4, EveryRound
<1>6. Building(f[n]) /\ AllFollow(f[n].items)
  BY <1>5 DEF Sendable
<1> QED
  BY <1>2, <1>6, FlushFollows, FlushSays, SMTT(30) DEF Building

-----------------------------------------------------------------------------
(* A patch: the hunks of a file, and the sections of the patch                 *)

Signs == {"+", "-", " "}
Kinds == {"+", "-", " ", "\\", "+++"}
AnyLines(T) == [text : T \cup {"++ x"}, nl : BOOLEAN]
AnyRecords(T) == [prefix : Signs, line : AnyLines(T)]
AnyHunks(T) == [start : Int, lines : Seq([kind : Kinds, text : T])]

\* The loops, each with its round.
Recorded(none, records, line) == W!WithLine(records, line)
Replaced(none, s, record) == IF s.error THEN s ELSE W!ApplyRecord(s, record)
Hunkwise(none, s, hunk) == W!ApplyHunk(s, hunk)

Recording == INSTANCE Folding WITH Step <- Recorded
Replacing == INSTANCE Folding WITH Step <- Replaced
Hunking == INSTANCE Folding WITH Step <- Hunkwise

\* The lines of some records without those of a prefix: without the added ones, what
\* the file had; without the removed ones, what it will have.
Side(records, dropped) ==
  FlattenSeq([j \in DOMAIN records |-> IF records[j].prefix = dropped THEN <<>> ELSE <<records[j].line>>])
Before(hunk) == Side(W!Records(hunk.lines), "+")
After(hunk) == Side(W!Records(hunk.lines), "-")

LEMMA SideOfNone ==
  ASSUME NEW dropped
  PROVE  Side(<<>>, dropped) = <<>>
<1>1. [j \in DOMAIN <<>> |-> IF <<>>[j].prefix = dropped THEN <<>> ELSE << <<>>[j].line>>] = <<>>
  OBVIOUS
<1>2. FlattenSeq(<<>>) = <<>>
  <2> DEFINE None == <<>>
  <2>1. Len(None) = 0
    OBVIOUS
  <2> QED BY <2>1 DEF FlattenSeq
<1> QED
  BY <1>1, <1>2 DEF Side

LEMMA SideGrows ==
  ASSUME NEW T, NEW records \in Seq(AnyRecords(T)), NEW record \in AnyRecords(T), NEW dropped \in Signs
  PROVE  /\ Side(records, dropped) \in Seq(AnyLines(T))
         /\ Side(Append(records, record), dropped) =
              IF record.prefix = dropped THEN Side(records, dropped) ELSE Append(Side(records, dropped), record.line)
<1> DEFINE A == AnyLines(T)
           One(r) == IF r.prefix = dropped THEN <<>> ELSE <<r.line>>
<1>1. ASSUME NEW r \in AnyRecords(T) PROVE One(r) \in Seq(A)
  <2>1. r.line \in A
    BY DEF AnyRecords
  <2> HIDE DEF A
  <2> QED BY <2>1
<1>2. PICK n \in Nat : n = Len(records) /\ DOMAIN records = 1..n
  <2>1. Len(records) \in Nat /\ DOMAIN records = 1..Len(records)
    OBVIOUS
  <2> QED BY <2>1, Zenon
<1>3. PICK more \in Seq(AnyRecords(T)) :
         /\ more = Append(records, record) /\ DOMAIN more = 1..(n + 1)
         /\ more[n + 1] = record /\ \A i \in 1..n : more[i] = records[i]
  <2>1. /\ Append(records, record) \in Seq(AnyRecords(T)) /\ DOMAIN Append(records, record) = 1..(n + 1)
        /\ Append(records, record)[n + 1] = record /\ \A i \in 1..n : Append(records, record)[i] = records[i]
    BY <1>2
  <2> QED BY <2>1
<1>4. \A i \in 1..n : records[i] \in AnyRecords(T)
  BY <1>2
<1> HIDE DEF One, A
<1>5. PICK B : B = Seq(A)
  OBVIOUS
<1>6. PICK parts : parts = [i \in 1..n |-> One(records[i])]
  OBVIOUS
<1>7. parts \in Seq(B) /\ Len(parts) = n
  BY <1>1, <1>4, <1>5, <1>6
<1>8. PICK last \in B : last = One(record)
  BY <1>1, <1>5
<1>9. PICK longer : longer = [i \in 1..(n + 1) |-> One(more[i])]
  OBVIOUS
<1>10. longer = Append(parts, last)
  <2>1. \A i \in 1..n : more[i] \in AnyRecords(T)
    BY <1>3, <1>4
  <2>2. \A i \in 1..(n + 1) : longer[i] = IF i = n + 1 THEN last ELSE parts[i]
    BY <1>3, <1>6, <1>8, <1>9
  <2>3. longer \in Seq(B) /\ Len(longer) = n + 1
    <3>1. \A i \in 1..(n + 1) : longer[i] \in B
      <4>1. \A i \in 1..(n + 1) : more[i] \in AnyRecords(T)
        BY <1>3, <2>1
      <4> QED BY <1>1, <1>5, <1>9, <4>1
    <3> QED BY <1>9, <3>1
  <2> QED BY <1>7, <1>8, <2>2, <2>3, SameSeq
<1>11. Joinable(A, B, parts, last)
  BY <1>5, <1>7, <1>8 DEF Joinable
<1>12. PICK old \in Seq(A) : old = FlattenSeq(parts) /\ FlattenSeq(longer) = old \o last
  BY <1>10, <1>11, FlattenAppend
<1>13. Side(records, dropped) = old
  <2>1. [j \in DOMAIN records |-> IF records[j].prefix = dropped THEN <<>> ELSE <<records[j].line>>] = parts
    BY <1>2, <1>6 DEF One
  <2> QED BY <1>12, <2>1 DEF Side
<1>14. Side(more, dropped) = old \o last
  <2>1. [j \in DOMAIN more |-> IF more[j].prefix = dropped THEN <<>> ELSE <<more[j].line>>] = longer
    BY <1>3, <1>9 DEF One
  <2> QED BY <1>12, <2>1 DEF Side
<1>15. old \o last = IF record.prefix = dropped THEN old ELSE Append(old, record.line)
  <2>1. record.line \in A
    BY DEF AnyRecords, A
  <2>2. \A l \in A : old \o <<l>> = Append(old, l)
    OBVIOUS
  <2>3. old \o <<>> = old
    OBVIOUS
  <2> QED BY <1>8, <2>1, <2>2, <2>3 DEF One
<1> QED
  BY <1>3, <1>12, <1>13, <1>14, <1>15 DEF A

-----------------------------------------------------------------------------

\* The lines are those of the file from a cursor on.
MatchesAt(source, cursor, lines) ==
  \A k \in 1..Len(lines) : cursor + k <= Len(source) /\ source[cursor + k] = lines[k]

LEMMA MatchGrows ==
  ASSUME NEW A, NEW source \in Seq(A), NEW cursor \in Nat, NEW lines \in Seq(A), NEW line \in A
  PROVE  MatchesAt(source, cursor, Append(lines, line)) <=>
           /\ MatchesAt(source, cursor, lines)
           /\ cursor + Len(lines) < Len(source) /\ source[cursor + Len(lines) + 1] = line
<1>1. PICK n \in Nat, m \in Nat : n = Len(lines) /\ m = Len(source)
  <2>1. Len(lines) \in Nat /\ Len(source) \in Nat
    OBVIOUS
  <2> QED BY <2>1, Zenon
<1>2. PICK more : more = Append(lines, line)
  OBVIOUS
<1>3. Len(more) = n + 1 /\ more[n + 1] = line /\ \A i \in 1..n : more[i] = lines[i]
  BY <1>1, <1>2
<1>4. ASSUME MatchesAt(source, cursor, more)
      PROVE  MatchesAt(source, cursor, lines) /\ cursor + n < m /\ source[cursor + n + 1] = line
  <2>1. \A k \in 1..(n + 1) : cursor + k <= m /\ source[cursor + k] = more[k]
    BY <1>1, <1>3, <1>4 DEF MatchesAt
  <2>2. n + 1 \in 1..(n + 1) /\ cursor + (n + 1) = cursor + n + 1 /\ \A k \in 1..n : k \in 1..(n + 1)
    OBVIOUS
  <2>3. cursor + (n + 1) <= m /\ source[cursor + (n + 1)] = more[n + 1]
    BY <2>1, <2>2
  <2>4. \A k \in 1..n : cursor + k <= m /\ source[cursor + k] = lines[k]
    BY <1>3, <2>1, <2>2
  <2> QED BY <1>1, <1>3, <2>2, <2>3, <2>4 DEF MatchesAt
<1>5. ASSUME MatchesAt(source, cursor, lines), cursor + n < m, source[cursor + n + 1] = line
      PROVE  MatchesAt(source, cursor, more)
  <2>1. \A k \in 1..n : cursor + k <= m /\ source[cursor + k] = lines[k]
    BY <1>1, <1>5 DEF MatchesAt
  <2>2. \A k \in 1..(n + 1) : cursor + k <= m /\ source[cursor + k] = more[k]
    <3>1. TAKE k \in 1..(n + 1)
    <3>2. CASE k = n + 1
      <4>1. cursor + k = cursor + n + 1
        BY <3>2
      <4> QED BY <1>3, <1>5, <3>2, <4>1
    <3>3. CASE k # n + 1
      <4>1. k \in 1..n
        BY <3>3
      <4> QED BY <1>3, <2>1, <4>1
    <3> QED BY <3>2, <3>3
  <2> QED BY <1>1, <1>3, <2>2 DEF MatchesAt
<1> QED
  BY <1>1, <1>2, <1>4, <1>5

\* What a loop over records leaves: it has taken the lines it matched, or there is an error.
Standing(source, cursor, result) ==
  [source |-> source, cursor |-> cursor, result |-> result, error |-> FALSE]

\* One more record is one more round.
LEMMA ReplaceNone ==
  ASSUME NEW s
  PROVE  W!ApplyRecords(s, <<>>) = s
<1> DEFINE None == <<>>
<1>1. Len(None) = 0
  OBVIOUS
<1>2. Replacing!Folded(0, s, None) = s
  <2> HIDE DEF None
  <2> QED BY <1>1, Replacing!FoldedNone
<1> QED
  BY <1>2 DEF W!ApplyRecords, Replacing!Folded, Replaced

LEMMA ReplaceNext ==
  ASSUME NEW B, NEW records \in Seq(B), NEW record \in B, NEW s
  PROVE  W!ApplyRecords(s, Append(records, record)) = Replaced(0, W!ApplyRecords(s, records), record)
<1>1. \A c : W!ApplyRecords(s, c) = Replacing!Folded(0, s, c)
  BY DEF W!ApplyRecords, Replacing!Folded, Replaced
<1> QED
  BY <1>1, Replacing!FoldedAppend

\* Where a record stands at the file's next line, the loop goes on; elsewhere it ends.
Goes(s, source, cursor, result, record) ==
  LET met == cursor < Len(source) /\ source[cursor + 1] = record.line
  IN /\ record.prefix = "+" => s = Standing(source, cursor, Append(result, record.line))
     /\ record.prefix = "-" /\ met => s = Standing(source, cursor + 1, result)
     /\ record.prefix = " " /\ met => s = Standing(source, cursor + 1, Append(result, record.line))
     /\ record.prefix # "+" /\ ~met => s.error = TRUE

Still(old, source, cursor, result, c, r) ==
  /\ [old EXCEPT !.result = r] = Standing(source, cursor, r)
  /\ [old EXCEPT !.cursor = c] = Standing(source, c, result)
  /\ [old EXCEPT !.cursor = c, !.result = r] = Standing(source, c, r)
  /\ [old EXCEPT !.result = r, !.cursor = c] = Standing(source, c, r)
  /\ [old EXCEPT !.error = TRUE].error = TRUE

LEMMA StandsStill ==
  ASSUME NEW old, NEW source, NEW cursor, NEW result, old = Standing(source, cursor, result), NEW c, NEW r
  PROVE  Still(old, source, cursor, result, c, r)
<1>1. DOMAIN old = {"source", "cursor", "result", "error"}
  BY DEF Standing
<1>2. old.source = source /\ old.cursor = cursor /\ old.result = result /\ old.error = FALSE
  BY DEF Standing
<1>4. PICK p : p = [old EXCEPT !.result = r]
  OBVIOUS
<1>5. p = Standing(source, cursor, r)
  <2>1. p.source = source /\ p.cursor = cursor /\ p.result = r /\ p.error = FALSE
    BY <1>1, <1>2, <1>4
  <2>2. p = [x \in DOMAIN old |-> p[x]]
    BY <1>4
  <2>3. p = [x \in {"source", "cursor", "result", "error"} |-> p[x]]
    BY <1>1, <2>2
  <2> QED BY <2>1, <2>3 DEF Standing
<1>6. PICK q : q = [old EXCEPT !.cursor = c]
  OBVIOUS
<1>7. q = Standing(source, c, result)
  <2>1. q.source = source /\ q.cursor = c /\ q.result = result /\ q.error = FALSE
    BY <1>1, <1>2, <1>6
  <2>2. q = [x \in DOMAIN old |-> q[x]]
    BY <1>6
  <2>3. q = [x \in {"source", "cursor", "result", "error"} |-> q[x]]
    BY <1>1, <2>2
  <2> QED BY <2>1, <2>3 DEF Standing
<1>8. PICK b : b = [old EXCEPT !.cursor = c, !.result = r]
  OBVIOUS
<1>9. b = Standing(source, c, r)
  <2>1. b.source = source /\ b.cursor = c /\ b.result = r /\ b.error = FALSE
    BY <1>1, <1>2, <1>8
  <2>2. b = [x \in DOMAIN old |-> b[x]]
    BY <1>8
  <2>3. b = [x \in {"source", "cursor", "result", "error"} |-> b[x]]
    BY <1>1, <2>2
  <2> QED BY <2>1, <2>3 DEF Standing
<1>10. PICK d : d = [old EXCEPT !.result = r, !.cursor = c]
  OBVIOUS
<1>11. d = Standing(source, c, r)
  <2>1. d.source = source /\ d.cursor = c /\ d.result = r /\ d.error = FALSE
    BY <1>1, <1>2, <1>10
  <2>2. d = [x \in DOMAIN old |-> d[x]]
    BY <1>10
  <2>3. d = [x \in {"source", "cursor", "result", "error"} |-> d[x]]
    BY <1>1, <2>2
  <2> QED BY <2>1, <2>3 DEF Standing
<1>12. [old EXCEPT !.error = TRUE].error = TRUE
  BY <1>1
<1> QED
  BY <1>4, <1>5, <1>6, <1>7, <1>8, <1>9, <1>10, <1>11, <1>12, Zenon DEF Still

LEMMA ReplaceOne ==
  ASSUME NEW source, NEW cursor, NEW result, NEW record, record.prefix \in Signs
  PROVE  Goes(W!ApplyRecord(Standing(source, cursor, result), record), source, cursor, result, record)
<1>1. PICK old : old = Standing(source, cursor, result)
  OBVIOUS
<1>2. old = [source |-> source, cursor |-> cursor, result |-> result, error |-> FALSE]
  BY <1>1 DEF Standing
<1>3. /\ old.source = source /\ old.cursor = cursor /\ old.result = result /\ old.error = FALSE
      /\ W!Matches(old, record.line) <=> cursor < Len(source) /\ source[cursor + 1] = record.line
  BY <1>2 DEF W!Matches
<1>4. PICK next : next = cursor + 1
  OBVIOUS
<1>5. PICK more : more = Append(result, record.line)
  OBVIOUS
<1>6. Still(old, source, cursor, result, next, more)
  BY <1>1, StandsStill
<1>7. PICK met \in BOOLEAN : met <=> W!Matches(old, record.line)
  BY DEF W!Matches
<1>8. PICK s : s = W!ApplyRecord(old, record)
  OBVIOUS
<1>9. record.prefix = "+" => s = [old EXCEPT !.result = more]
  BY <1>3, <1>5, <1>8 DEF W!ApplyRecord
<1>10. record.prefix = "-" /\ met => s = [old EXCEPT !.cursor = next]
  BY <1>3, <1>4, <1>7, <1>8 DEF W!ApplyRecord
<1>11. record.prefix = " " /\ met => s = [old EXCEPT !.cursor = next, !.result = more]
  BY <1>3, <1>4, <1>5, <1>7, <1>8 DEF W!ApplyRecord
<1>12. record.prefix # "+" /\ ~met => s = [old EXCEPT !.error = TRUE]
  BY <1>7, <1>8 DEF W!ApplyRecord
<1>13. /\ record.prefix = "+" => s = Standing(source, cursor, more)
       /\ record.prefix = "-" /\ met => s = Standing(source, next, result)
       /\ record.prefix = " " /\ met => s = Standing(source, next, more)
       /\ record.prefix # "+" /\ ~met => s.error = TRUE
  BY <1>6, <1>9, <1>10, <1>11, <1>12, Zenon DEF Still
<1>14. Goes(s, source, cursor, result, record)
  BY <1>3, <1>4, <1>5, <1>7, <1>13 DEF Goes
<1> QED
  BY <1>1, <1>8, <1>14

\* The records of a hunk replace what they name, if that is what is there.
Does(T, source, cursor, result, records) ==
  LET s == W!ApplyRecords(Standing(source, cursor, result), records)
      old == Side(records, "+")
  IN IF MatchesAt(source, cursor, old)
     THEN s = Standing(source, cursor + Len(old), result \o Side(records, "-"))
     ELSE s.error = TRUE

LEMMA RecordsReplace ==
  ASSUME NEW T, NEW source \in Seq(AnyLines(T)), NEW cursor \in Nat, NEW result \in Seq(AnyLines(T))
  PROVE  \A records \in Seq(AnyRecords(T)) : Does(T, source, cursor, result, records)
<1> DEFINE A == AnyLines(T)
           B == AnyRecords(T)
           Holds == {c \in Seq(B) : Does(T, source, cursor, result, c)}
<1>1. ASSUME NEW c \in Seq(B), Len(c) = 0 PROVE c \in Holds
  <2>1. c = <<>>
    BY <1>1
  <2>2. Side(c, "+") = <<>> /\ Side(c, "-") = <<>> /\ Len(Side(c, "+")) = 0
    BY <2>1, SideOfNone
  <2>3. MatchesAt(source, cursor, Side(c, "+"))
    BY <2>2 DEF MatchesAt
  <2>4. W!ApplyRecords(Standing(source, cursor, result), c) = Standing(source, cursor, result)
    BY <2>1, ReplaceNone
  <2>5. result \o Side(c, "-") = result /\ cursor + Len(Side(c, "+")) = cursor
    BY <2>2
  <2>6. Does(T, source, cursor, result, c)
    BY <2>3, <2>4, <2>5 DEF Does
  <2> QED BY <2>6
<1>2. ASSUME NEW c \in Seq(B), NEW e \in B, c \in Holds PROVE Append(c, e) \in Holds
  <2>1. PICK d \in Seq(B) : d = Append(c, e)
    <3>1. Append(c, e) \in Seq(B)
      OBVIOUS
    <3> QED BY <3>1
  <2>2. PICK old \in Seq(A), new \in Seq(A) : old = Side(c, "+") /\ new = Side(c, "-")
    BY SideGrows DEF Signs
  <2>3. PICK n \in Nat : n = Len(old)
    <3>1. Len(old) \in Nat
      OBVIOUS
    <3> QED BY <3>1
  <2>4. e.line \in A /\ e.prefix \in Signs
    BY DEF AnyRecords
  <2>5. Side(d, "+") = IF e.prefix = "+" THEN old ELSE Append(old, e.line)
    BY <2>1, <2>2, SideGrows DEF Signs
  <2>6. Side(d, "-") = IF e.prefix = "-" THEN new ELSE Append(new, e.line)
    BY <2>1, <2>2, SideGrows DEF Signs
  <2>7. PICK s : s = W!ApplyRecords(Standing(source, cursor, result), c)
    OBVIOUS
  <2>8. IF MatchesAt(source, cursor, old) THEN s = Standing(source, cursor + n, result \o new) ELSE s.error = TRUE
    BY <1>2, <2>2, <2>3, <2>7 DEF Does
  <2>9. W!ApplyRecords(Standing(source, cursor, result), d) = IF s.error THEN s ELSE W!ApplyRecord(s, e)
    BY <2>1, <2>7, ReplaceNext DEF Replaced
  <2>10. PICK u : u = W!ApplyRecords(Standing(source, cursor, result), d)
    OBVIOUS
  <2>11. MatchesAt(source, cursor, Append(old, e.line)) <=>
           MatchesAt(source, cursor, old) /\ cursor + n < Len(source) /\ source[cursor + n + 1] = e.line
    <3> HIDE DEF A
    <3> QED BY <2>3, <2>4, MatchGrows DEF A
  <2>12. Len(Append(old, e.line)) = n + 1 /\ cursor + (n + 1) = cursor + n + 1
    BY <2>3, <2>4
  <2>13. result \o Append(new, e.line) = Append(result \o new, e.line) /\ result \o new \in Seq(A)
    <3> HIDE DEF A
    <3> QED BY <2>4, JoinTwice DEF A
  <2>14. CASE ~MatchesAt(source, cursor, old)
    <3>1. u.error = TRUE
      BY <2>8, <2>9, <2>10, <2>14
    <3>2. ~MatchesAt(source, cursor, Side(d, "+"))
      BY <2>5, <2>11, <2>14
    <3> QED BY <2>1, <2>10, <3>1, <3>2 DEF Does
  <2>15. CASE MatchesAt(source, cursor, old)
    <3>1. s = Standing(source, cursor + n, result \o new) /\ s.error = FALSE
      BY <2>8, <2>15 DEF Standing
    <3>2. u = W!ApplyRecord(Standing(source, cursor + n, result \o new), e)
      BY <2>9, <2>10, <3>1
    <3>3. PICK at \in Nat, given \in Seq(A) : at = cursor + n /\ given = result \o new
      <4>1. cursor + n \in Nat
        OBVIOUS
      <4> QED BY <2>13, <4>1
    <3>4. Goes(u, source, at, given, e)
      BY <2>4, <3>2, <3>3, ReplaceOne
    <3>5. CASE e.prefix = "+"
      <4>1. Side(d, "+") = old /\ Side(d, "-") = Append(new, e.line)
        BY <2>5, <2>6, <3>5
      <4>2. u = Standing(source, cursor + n, result \o Append(new, e.line))
        BY <2>13, <3>3, <3>4, <3>5 DEF Goes
      <4> QED BY <2>1, <2>3, <2>10, <2>15, <4>1, <4>2 DEF Does
    <3>6. CASE e.prefix # "+" /\ ~(at < Len(source) /\ source[at + 1] = e.line)
      <4>1. Side(d, "+") = Append(old, e.line) /\ ~MatchesAt(source, cursor, Append(old, e.line))
        BY <2>5, <2>11, <3>3, <3>6
      <4>2. u.error = TRUE
        BY <3>4, <3>6 DEF Goes
      <4> QED BY <2>1, <2>10, <4>1, <4>2 DEF Does
    <3>7. CASE e.prefix # "+" /\ at < Len(source) /\ source[at + 1] = e.line
      <4>1. Side(d, "+") = Append(old, e.line) /\ MatchesAt(source, cursor, Append(old, e.line))
        BY <2>5, <2>11, <2>15, <3>3, <3>7
      <4>2. at + 1 = cursor + Len(Side(d, "+"))
        BY <2>12, <3>3, <4>1
      <4>3. u = Standing(source, at + 1, result \o Side(d, "-"))
        <5>1. CASE e.prefix = "-"
          BY <2>6, <3>3, <3>4, <3>7, <5>1 DEF Goes
        <5>2. CASE e.prefix = " "
          BY <2>6, <2>13, <3>3, <3>4, <3>7, <5>2 DEF Goes
        <5> QED BY <2>4, <3>7, <5>1, <5>2 DEF Signs
      <4> QED BY <2>1, <2>10, <4>1, <4>2, <4>3 DEF Does
    <3> QED BY <3>5, <3>6, <3>7
  <2> QED BY <2>14, <2>15
<1>3. \A c \in Seq(B) : c \in Holds
  <2> HIDE DEF Holds
  <2> QED BY <1>1, <1>2, Lengthened
<1> QED
  BY <1>3

\* The lines of a hunk are read as records.
LEMMA RecordsAreSeq ==
  ASSUME NEW T
  PROVE  \A lines \in Seq([kind : Kinds, text : T]) : W!Records(lines) \in Seq(AnyRecords(T))
<1> DEFINE L1 == [kind : Kinds, text : T]
           B == AnyRecords(T)
           Holds == {c \in Seq(L1) : W!Records(c) \in Seq(B)}
           None == <<>>
<1>1. \A c : W!Records(c) = Recording!Folded(0, None, c)
  BY DEF W!Records, Recording!Folded, Recorded
<1>2. ASSUME NEW c \in Seq(L1), Len(c) = 0 PROVE c \in Holds
  <2>1. Recording!Folded(0, None, c) = None
    <3> HIDE DEF None
    <3> QED BY <1>2, Recording!FoldedNone
  <2>2. None \in Seq(B)
    OBVIOUS
  <2> QED BY <1>1, <2>1, <2>2
<1>3. ASSUME NEW c \in Seq(L1), NEW e \in L1, c \in Holds PROVE Append(c, e) \in Holds
  <2>1. Append(c, e) \in Seq(L1)
    OBVIOUS
  <2>2. PICK old \in Seq(B) : old = W!Records(c)
    BY <1>3
  <2>3. W!Records(Append(c, e)) = W!WithLine(old, e)
    <3>1. Recording!Folded(0, None, Append(c, e)) = Recorded(0, Recording!Folded(0, None, c), e)
      <4> HIDE DEF None, L1
      <4> QED BY Recording!FoldedAppend
    <3> QED BY <1>1, <2>2, <3>1 DEF Recorded
  <2>4. W!WithLine(old, e) \in Seq(B)
    <3>1. CASE e.kind # "\\"
      <4>1. e.kind \in {"+", "-", " ", "+++"} /\ e.text \in T
        BY <3>1 DEF Kinds
      <4>2. W!RecordOf(e) \in B
        BY <4>1 DEF W!RecordOf, W!Line, AnyRecords, AnyLines, Signs
      <4>3. \A r \in B : Append(old, r) \in Seq(B)
        OBVIOUS
      <4> HIDE DEF B
      <4> QED BY <3>1, <4>2, <4>3 DEF W!WithLine
    <3>2. CASE e.kind = "\\"
      <4>1. PICK n \in Nat : n = Len(old) /\ DOMAIN old = 1..n
        <5>1. Len(old) \in Nat /\ DOMAIN old = 1..Len(old)
          OBVIOUS
        <5> QED BY <5>1, Zenon
      <4>2. PICK last : last = [old[n] EXCEPT !.line = W!Unended(@)]
        OBVIOUS
      <4>3. W!WithLine(old, e) = [j \in 1..n |-> IF j = n THEN last ELSE old[j]]
        <5>1. \A j \in 1..n : (IF j = n THEN [old[j] EXCEPT !.line = W!Unended(@)] ELSE old[j]) = IF j = n THEN last ELSE old[j]
          BY <4>2
        <5> QED BY <3>2, <4>1, <5>1 DEF W!WithLine
      <4>4. \A j \in 1..n : old[j] \in B
        BY <4>1
      <4>5. n # 0 => last \in B
        <5>1. ASSUME n # 0 PROVE last \in B
          <6>1. PICK r \in B : r = old[n]
            BY <4>4, <5>1
          <6>2. r.line \in AnyLines(T) /\ r.prefix \in Signs /\ r = [prefix |-> r.prefix, line |-> r.line]
            BY DEF AnyRecords
          <6>3. W!Unended(r.line) \in AnyLines(T)
            BY <6>2 DEF W!Unended, AnyLines
          <6>4. last = [prefix |-> r.prefix, line |-> W!Unended(r.line)]
            BY <4>2, <6>1, <6>2
          <6> QED BY <6>2, <6>3, <6>4 DEF AnyRecords
        <5> QED BY <5>1
      <4>6. \A j \in 1..n : (IF j = n THEN last ELSE old[j]) \in B
        BY <4>4, <4>5
      <4> HIDE DEF B
      <4> QED BY <4>3, <4>6
    <3> QED BY <3>1, <3>2
  <2> QED BY <2>1, <2>3, <2>4
<1>4. \A c \in Seq(L1) : c \in Holds
  <2> HIDE DEF Holds
  <2> QED BY <1>2, <1>3, Lengthened
<1> QED
  BY <1>4

\* What a hunk leaves alone before it, and whether it can be applied behind a line.
Gap(source, end, hunk) ==
  SubSeq(source, end + 1, IF hunk.start - 1 < Len(source) THEN hunk.start - 1 ELSE Len(source))
FitsBehind(source, end, hunk) ==
  /\ hunk.start - 1 >= end
  /\ ~W!StrayMarker(hunk.lines)
  /\ MatchesAt(source, hunk.start - 1, Before(hunk))

LEMMA GapIsSeq ==
  ASSUME NEW A, NEW source \in Seq(A), NEW end \in Nat, NEW hunk, hunk.start \in Int
  PROVE  Gap(source, end, hunk) \in Seq(A)
<1>1. PICK to \in Int : to = (IF hunk.start - 1 < Len(source) THEN hunk.start - 1 ELSE Len(source)) /\ to <= Len(source)
  <2>1. PICK m \in Nat, t \in Int : m = Len(source) /\ t = hunk.start
    <3>1. Len(source) \in Nat
      OBVIOUS
    <3> QED BY <3>1
  <2> QED BY <2>1
<1>2. SubSeq(source, end + 1, to) \in Seq(A)
  <2>1. \A i \in (end + 1)..to : source[i] \in A
    BY <1>1
  <2> QED BY <1>1, <2>1
<1> QED
  BY <1>1, <1>2 DEF Gap

LEMMA HunkOne ==
  ASSUME NEW T, NEW source \in Seq(AnyLines(T)), NEW cursor \in Nat, NEW result \in Seq(AnyLines(T)),
         NEW hunk \in AnyHunks(T)
  PROVE  LET s == W!ApplyHunk(Standing(source, cursor, result), hunk)
         IN IF FitsBehind(source, cursor, hunk)
            THEN s = Standing(source, hunk.start - 1 + Len(Before(hunk)),
                              (result \o Gap(source, cursor, hunk)) \o After(hunk))
            ELSE s.error = TRUE
<1>1. hunk.start \in Int /\ hunk.lines \in Seq([kind : Kinds, text : T])
  BY DEF AnyHunks
<1>2. PICK target \in Int : target = hunk.start - 1
  BY <1>1
<1>3. PICK old : old = Standing(source, cursor, result)
  OBVIOUS
<1>4. old.source = source /\ old.cursor = cursor /\ old.result = result /\ old.error = FALSE
  BY <1>3 DEF Standing
<1>5. PICK given \in Seq(AnyLines(T)) : given = result \o Gap(source, cursor, hunk)
  <2>1. Gap(source, cursor, hunk) \in Seq(AnyLines(T))
    BY <1>1, GapIsSeq
  <2> QED BY <2>1, JoinTwice
<1>6. PICK records \in Seq(AnyRecords(T)) : records = W!Records(hunk.lines)
  BY <1>1, RecordsAreSeq
<1>s. PICK stray \in BOOLEAN : stray <=> W!StrayMarker(hunk.lines)
  BY DEF W!StrayMarker
<1>7. PICK bad \in BOOLEAN : bad <=> target < cursor \/ stray
  OBVIOUS
<1>8. PICK s : s = W!ApplyHunk(old, hunk)
  OBVIOUS
<1>9. Still(old, source, cursor, result, target, given)
  BY <1>3, StandsStill
<1>10. s = IF bad THEN [old EXCEPT !.error = TRUE]
           ELSE W!ApplyRecords([old EXCEPT !.result = given, !.cursor = target], records)
  BY <1>2, <1>4, <1>5, <1>6, <1>7, <1>s, <1>8 DEF W!ApplyHunk, W!TargetIndex, Gap
<1>11. CASE bad
  <2>1. s.error = TRUE
    BY <1>9, <1>10, <1>11, Zenon DEF Still
  <2>2. ~FitsBehind(source, cursor, hunk)
    BY <1>2, <1>7, <1>s, <1>11 DEF FitsBehind
  <2> QED BY <1>3, <1>8, <2>1, <2>2
<1>12. CASE ~bad
  <2>1. s = W!ApplyRecords(Standing(source, target, given), records)
    BY <1>9, <1>10, <1>12, Zenon DEF Still
  <2>2. target \in Nat /\ target >= cursor /\ ~stray
    BY <1>7, <1>12
  <2>3. Does(T, source, target, given, records)
    BY <2>2, RecordsReplace
  <2>4. FitsBehind(source, cursor, hunk) <=> MatchesAt(source, target, Side(records, "+"))
    BY <1>2, <1>6, <1>s, <2>2 DEF FitsBehind, Before
  <2>5. IF MatchesAt(source, target, Side(records, "+"))
        THEN s = Standing(source, target + Len(Side(records, "+")), given \o Side(records, "-")) ELSE s.error = TRUE
    BY <2>1, <2>3 DEF Does
  <2> QED BY <1>2, <1>3, <1>5, <1>6, <1>8, <2>4, <2>5 DEF Before, After
<1> QED
  BY <1>11, <1>12

LEMMA SideIsSeq ==
  ASSUME NEW T, NEW hunk \in AnyHunks(T)
  PROVE  /\ Before(hunk) \in Seq(AnyLines(T)) /\ After(hunk) \in Seq(AnyLines(T))
         /\ hunk.start \in Int
<1>1. hunk.start \in Int /\ hunk.lines \in Seq([kind : Kinds, text : T])
  BY DEF AnyHunks
<1>2. PICK records \in Seq(AnyRecords(T)) : records = W!Records(hunk.lines)
  BY <1>1, RecordsAreSeq
<1>3. PICK record \in AnyRecords(T) : TRUE
  <2>1. [prefix |-> "+", line |-> [text |-> "++ x", nl |-> TRUE]] \in AnyRecords(T)
    BY DEF AnyRecords, AnyLines, Signs
  <2> QED BY <2>1
<1>4. Side(records, "+") \in Seq(AnyLines(T)) /\ Side(records, "-") \in Seq(AnyLines(T))
  BY SideGrows DEF Signs
<1> QED
  BY <1>1, <1>2, <1>4 DEF Before, After

\* The line a hunk's old lines end at, and the file put together again: what is between
\* two hunks, and what a hunk has instead of its old lines.
End(hunks, i) == IF i = 0 THEN 0 ELSE hunks[i].start - 1 + Len(Before(hunks[i]))
HunksFit(source, hunks) == \A i \in DOMAIN hunks : FitsBehind(source, End(hunks, i - 1), hunks[i])
Rebuilt(source, hunks) ==
  FlattenSeq([i \in DOMAIN hunks |-> Gap(source, End(hunks, i - 1), hunks[i]) \o After(hunks[i])])

HunkedTo(source, hunks) == Hunking!Folded(0, W!ApplyingTo(source), hunks)
InTurn(source, hunks) ==
  /\ HunksFit(source, hunks) =>
       /\ HunkedTo(source, hunks) = Standing(source, End(hunks, Len(hunks)), Rebuilt(source, hunks))
       /\ \A i \in 0..Len(hunks) : End(hunks, i) \in Nat
  /\ ~HunksFit(source, hunks) => HunkedTo(source, hunks).error = TRUE

OneHunkMore(T, source, c, e, d, n) ==
  /\ HunksFit(source, d) <=> HunksFit(source, c) /\ FitsBehind(source, End(c, n), e)
  /\ \A i \in 0..n : End(d, i) = End(c, i)
  /\ End(d, n + 1) = e.start - 1 + Len(Before(e))
  /\ (\A i \in 0..n : End(c, i) \in Nat) =>
       /\ Rebuilt(source, c) \in Seq(AnyLines(T))
       /\ Rebuilt(source, d) = Rebuilt(source, c) \o (Gap(source, End(c, n), e) \o After(e))

LEMMA HunkAppended ==
  ASSUME NEW T, NEW source \in Seq(AnyLines(T)), NEW c \in Seq(AnyHunks(T)), NEW e \in AnyHunks(T)
  PROVE  OneHunkMore(T, source, c, e, Append(c, e), Len(c))
<1>1. PICK n \in Nat : n = Len(c) /\ DOMAIN c = 1..n
  <2>1. Len(c) \in Nat /\ DOMAIN c = 1..Len(c)
    OBVIOUS
  <2> QED BY <2>1, Zenon
<1>2. PICK d \in Seq(AnyHunks(T)) : /\ d = Append(c, e) /\ Len(d) = n + 1 /\ DOMAIN d = 1..(n + 1)
                                    /\ d[n + 1] = e /\ \A i \in 1..n : d[i] = c[i]
  <2>1. /\ Append(c, e) \in Seq(AnyHunks(T)) /\ Len(Append(c, e)) = n + 1 /\ DOMAIN Append(c, e) = 1..(n + 1)
        /\ Append(c, e)[n + 1] = e /\ \A i \in 1..n : Append(c, e)[i] = c[i]
    BY <1>1
  <2> QED BY <2>1
<1>3. \A i \in 1..n : c[i] \in AnyHunks(T)
  BY <1>1
<1>4. \A i \in 0..n : End(d, i) = End(c, i)
  <2>1. TAKE i \in 0..n
  <2>2. i # 0 => d[i] = c[i]
    BY <1>2
  <2> QED BY <2>2 DEF End
<1>5. End(d, n + 1) = e.start - 1 + Len(Before(e))
  BY <1>2 DEF End
<1>6. HunksFit(source, d) <=> HunksFit(source, c) /\ FitsBehind(source, End(c, n), e)
  <2>1. \A i \in 1..n : i - 1 \in 0..n /\ End(d, i - 1) = End(c, i - 1) /\ d[i] = c[i]
    BY <1>2, <1>4
  <2>2. n \in 0..n /\ n + 1 - 1 = n /\ End(d, n + 1 - 1) = End(c, n)
    BY <1>4
  <2>3. PICK fit : fit = {i \in 1..(n + 1) : FitsBehind(source, End(d, i - 1), d[i])}
    OBVIOUS
  <2>4. HunksFit(source, d) <=> \A i \in 1..(n + 1) : i \in fit
    BY <1>2, <2>3 DEF HunksFit
  <2>5. HunksFit(source, c) <=> \A i \in 1..n : i \in fit
    <3>1. \A i \in 1..n : i \in 1..(n + 1)
      OBVIOUS
    <3>2. \A i \in 1..n : i \in fit <=> FitsBehind(source, End(c, i - 1), c[i])
      BY <2>1, <2>3, <3>1
    <3>3. HunksFit(source, c) <=> \A i \in 1..n : FitsBehind(source, End(c, i - 1), c[i])
      BY <1>1 DEF HunksFit
    <3> QED BY <3>2, <3>3
  <2>6. FitsBehind(source, End(c, n), e) <=> n + 1 \in fit
    <3>1. n + 1 \in 1..(n + 1)
      OBVIOUS
    <3>2. n + 1 \in fit <=> FitsBehind(source, End(d, n + 1 - 1), d[n + 1])
      BY <2>3, <3>1
    <3> QED BY <1>2, <2>2, <3>2
  <2>7. (\A i \in 1..(n + 1) : i \in fit) <=> (\A i \in 1..n : i \in fit) /\ n + 1 \in fit
    OBVIOUS
  <2> QED BY <2>4, <2>5, <2>6, <2>7
<1>7. ASSUME \A i \in 0..n : End(c, i) \in Nat
      PROVE  /\ Rebuilt(source, c) \in Seq(AnyLines(T))
             /\ Rebuilt(source, d) = Rebuilt(source, c) \o (Gap(source, End(c, n), e) \o After(e))
  <2> DEFINE A == AnyLines(T)
             Piece(h, i) == Gap(source, End(h, i - 1), h[i]) \o After(h[i])
  <2>1. ASSUME NEW end \in Nat, NEW h \in AnyHunks(T) PROVE Gap(source, end, h) \o After(h) \in Seq(A)
    <3>1. Gap(source, end, h) \in Seq(A) /\ After(h) \in Seq(A)
      BY SideIsSeq, GapIsSeq
    <3> HIDE DEF A
    <3> QED BY <3>1
  <2>2. PICK B : B = Seq(A)
    OBVIOUS
  <2>3. PICK parts : parts = [i \in 1..n |-> Piece(c, i)]
    OBVIOUS
  <2>4. PICK longer : longer = [i \in 1..(n + 1) |-> Piece(d, i)]
    OBVIOUS
  <2>5. PICK last \in B : last = Gap(source, End(c, n), e) \o After(e)
    <3>1. End(c, n) \in Nat
      BY <1>7
    <3> HIDE DEF A
    <3> QED BY <2>1, <2>2, <3>1
  <2>6. \A i \in 1..n : Piece(c, i) \in B /\ Piece(d, i) = Piece(c, i)
    <3>1. TAKE i \in 1..n
    <3>2. i - 1 \in 0..n /\ c[i] \in AnyHunks(T) /\ d[i] = c[i]
      BY <1>2, <1>3
    <3>3. End(c, i - 1) \in Nat /\ End(d, i - 1) = End(c, i - 1)
      BY <1>4, <1>7, <3>2
    <3>4. Gap(source, End(c, i - 1), c[i]) \o After(c[i]) \in B
      <4> HIDE DEF A
      <4> QED BY <2>1, <2>2, <3>2, <3>3
    <3> HIDE DEF A
    <3> QED BY <3>2, <3>3, <3>4
  <2>7. Piece(d, n + 1) = last
    <3>1. End(d, n + 1 - 1) = End(c, n)
      <4>1. n + 1 - 1 = n /\ n \in 0..n
        OBVIOUS
      <4> QED BY <1>4, <4>1
    <3>2. Piece(d, n + 1) = Gap(source, End(d, n + 1 - 1), d[n + 1]) \o After(d[n + 1])
      OBVIOUS
    <3> HIDE DEF Piece
    <3> QED BY <1>2, <2>5, <3>1, <3>2
  <2>8. FlattenSeq(parts) = Rebuilt(source, c) /\ FlattenSeq(longer) = Rebuilt(source, d)
    BY <1>1, <1>2, <2>3, <2>4 DEF Rebuilt
  <2> HIDE DEF A, Piece
  <2>9. parts \in Seq(B) /\ Len(parts) = n
    BY <2>3, <2>6
  <2>10. longer = Append(parts, last)
    <3>1. \A i \in 1..(n + 1) : longer[i] = IF i = n + 1 THEN last ELSE parts[i]
      BY <2>3, <2>4, <2>6, <2>7
    <3>2. \A i \in 1..(n + 1) : longer[i] \in B
      <4>1. \A i \in 1..n : parts[i] \in B
        BY <2>3, <2>6
      <4> QED BY <2>5, <3>1, <4>1
    <3>3. longer \in Seq(B) /\ Len(longer) = n + 1
      BY <2>4, <3>2
    <3> QED BY <2>5, <2>9, <3>1, <3>3, SameSeq
  <2>11. Joinable(A, B, parts, last)
    BY <2>2, <2>5, <2>9 DEF Joinable
  <2>12. FlattenSeq(parts) \in Seq(A) /\ FlattenSeq(longer) = FlattenSeq(parts) \o last
    BY <2>10, <2>11, FlattenAppend
  <2> QED BY <2>5, <2>8, <2>12 DEF A
<1> QED
  BY <1>1, <1>2, <1>4, <1>5, <1>6, <1>7 DEF OneHunkMore

LEMMA HunksInTurn ==
  ASSUME NEW T, NEW source \in Seq(AnyLines(T))
  PROVE  \A hunks \in Seq(AnyHunks(T)) : InTurn(source, hunks)
<1> DEFINE A == AnyLines(T)
           H == AnyHunks(T)
           Holds == {c \in Seq(H) : InTurn(source, c)}
<1>1. ASSUME NEW c \in Seq(H), Len(c) = 0 PROVE c \in Holds
  <2>1. DOMAIN c = 1..0 /\ c = <<>>
    BY <1>1
  <2>2. HunkedTo(source, c) = W!ApplyingTo(source)
    BY <1>1, Hunking!FoldedNone DEF HunkedTo
  <2>3. W!ApplyingTo(source) = Standing(source, 0, <<>>)
    BY DEF W!ApplyingTo, Standing
  <2>4. Rebuilt(source, c) = <<>>
    <3>1. [i \in DOMAIN c |-> Gap(source, End(c, i - 1), c[i]) \o After(c[i])] = <<>>
      BY <2>1
    <3> DEFINE None == <<>>
    <3>2. FlattenSeq(None) = None
      <4>1. Len(None) = 0
        OBVIOUS
      <4> QED BY <4>1 DEF FlattenSeq
    <3> QED BY <3>1, <3>2 DEF Rebuilt
  <2>5. HunksFit(source, c)
    BY <2>1 DEF HunksFit
  <2>6. \A i \in 0..0 : End(c, i) = 0
    BY DEF End
  <2>7. End(c, Len(c)) = 0 /\ \A i \in 0..Len(c) : End(c, i) \in Nat
    BY <1>1, <2>6
  <2>8. HunkedTo(source, c) = Standing(source, End(c, Len(c)), Rebuilt(source, c))
    BY <2>2, <2>3, <2>4, <2>7
  <2>9. InTurn(source, c)
    BY <2>5, <2>7, <2>8 DEF InTurn
  <2> QED BY <2>9
<1>2. ASSUME NEW c \in Seq(H), NEW e \in H, c \in Holds PROVE Append(c, e) \in Holds
  <2>1. PICK n \in Nat : n = Len(c)
    <3>1. Len(c) \in Nat
      OBVIOUS
    <3> QED BY <3>1
  <2>2. PICK d \in Seq(H) : d = Append(c, e) /\ Len(d) = n + 1
    <3>1. Append(c, e) \in Seq(H) /\ Len(Append(c, e)) = n + 1
      BY <2>1
    <3> QED BY <3>1
  <2>3. InTurn(source, c)
    BY <1>2
  <2>4. PICK s : s = HunkedTo(source, c)
    OBVIOUS
  <2>5. HunkedTo(source, d) = W!ApplyHunk(s, e)
    <3> HIDE DEF H
    <3> QED BY <2>2, <2>4, Hunking!FoldedAppend DEF HunkedTo, Hunkwise
  <2>6. /\ HunksFit(source, d) <=> HunksFit(source, c) /\ FitsBehind(source, End(c, n), e)
        /\ \A i \in 0..n : End(d, i) = End(c, i)
        /\ End(d, n + 1) = e.start - 1 + Len(Before(e))
        /\ (\A i \in 0..n : End(c, i) \in Nat) =>
             /\ Rebuilt(source, c) \in Seq(A)
             /\ Rebuilt(source, d) = Rebuilt(source, c) \o (Gap(source, End(c, n), e) \o After(e))
    <3>1. OneHunkMore(T, source, c, e, d, n)
      BY <2>1, <2>2, HunkAppended
    <3> QED BY <3>1 DEF OneHunkMore
  <2> HIDE DEF A, H
  <2>7. CASE ~HunksFit(source, c)
    <3>1. s.error = TRUE /\ ~HunksFit(source, d)
      BY <2>3, <2>4, <2>6, <2>7 DEF InTurn
    <3>2. W!ApplyHunk(s, e) = [s EXCEPT !.error = TRUE]
      BY <3>1 DEF W!ApplyHunk
    <3>3. [s EXCEPT !.error = TRUE].error = TRUE
      BY <3>1
    <3>4. HunkedTo(source, d).error = TRUE
      BY <2>5, <3>2, <3>3
    <3>5. InTurn(source, d)
      BY <3>1, <3>4 DEF InTurn
    <3> QED BY <2>2, <3>5 DEF H
  <2>8. CASE HunksFit(source, c)
    <3>1. /\ s = Standing(source, End(c, n), Rebuilt(source, c))
          /\ \A i \in 0..n : End(c, i) \in Nat
      BY <2>1, <2>3, <2>4, <2>8 DEF InTurn
    <3>2. PICK end \in Nat, old \in Seq(A) : end = End(c, n) /\ old = Rebuilt(source, c)
      <4>1. End(c, n) \in Nat /\ Rebuilt(source, c) \in Seq(A)
        BY <2>6, <3>1
      <4> QED BY <4>1
    <3>3. IF FitsBehind(source, end, e)
          THEN W!ApplyHunk(s, e) = Standing(source, e.start - 1 + Len(Before(e)), (old \o Gap(source, end, e)) \o After(e))
          ELSE W!ApplyHunk(s, e).error = TRUE
      BY <3>1, <3>2, HunkOne DEF A, H
    <3>4. CASE ~FitsBehind(source, end, e)
      <4>1. HunkedTo(source, d).error = TRUE /\ ~HunksFit(source, d)
        BY <2>5, <2>6, <3>2, <3>3, <3>4
      <4>2. InTurn(source, d)
        BY <4>1 DEF InTurn
      <4> QED BY <2>2, <4>2 DEF H
    <3>5. CASE FitsBehind(source, end, e)
      <4>1. e.start \in Int /\ Before(e) \in Seq(A) /\ After(e) \in Seq(A) /\ Gap(source, end, e) \in Seq(A)
        <5>1. e.start \in Int /\ Before(e) \in Seq(A) /\ After(e) \in Seq(A)
          BY SideIsSeq DEF A, H
        <5> QED BY <5>1, GapIsSeq DEF A
      <4>2. (old \o Gap(source, end, e)) \o After(e) = old \o (Gap(source, end, e) \o After(e))
        BY <4>1, JoinTwice
      <4>3. PICK to \in Nat : to = e.start - 1 + Len(Before(e))
        <5>1. Len(Before(e)) \in Nat
          BY <4>1
        <5>2. e.start - 1 >= end
          BY <3>5 DEF FitsBehind
        <5> QED BY <4>1, <5>1, <5>2
      <4>4. HunkedTo(source, d) = Standing(source, to, Rebuilt(source, d))
        BY <2>5, <2>6, <3>1, <3>2, <3>3, <3>5, <4>2, <4>3
      <4>5. End(d, Len(d)) = to /\ \A i \in 0..Len(d) : End(d, i) \in Nat
        <5>1. End(d, n + 1) = to
          BY <2>6, <4>3
        <5>2. \A i \in 0..n : End(d, i) \in Nat
          BY <2>6, <3>1
        <5>3. \A i \in 0..(n + 1) : i \in 0..n \/ i = n + 1
          OBVIOUS
        <5>4. \A i \in 0..(n + 1) : End(d, i) \in Nat
          BY <5>1, <5>2, <5>3
        <5> QED BY <2>2, <5>1, <5>4
      <4>6. HunksFit(source, d)
        BY <2>6, <2>8, <3>2, <3>5
      <4>7. InTurn(source, d)
        BY <4>4, <4>5, <4>6 DEF InTurn
      <4> QED BY <2>2, <4>7 DEF H
    <3> QED BY <3>4, <3>5
  <2> QED BY <2>7, <2>8
<1>3. \A c \in Seq(H) : c \in Holds
  <2> HIDE DEF Holds
  <2> QED BY <1>1, <1>2, Lengthened
<1> QED
  BY <1>3

\* _apply_hunks, for any file and any hunks: it fails exactly when some hunk names lines
\* that are not there, begins before the one before it ends, or has a newline marker behind
\* no line; otherwise every line that no hunk names is kept, and the lines a hunk names
\* give way to those it has instead.
THEOREM HunksReplaceWhatTheyName ==
  ASSUME NEW T, NEW source \in Seq(AnyLines(T)), NEW hunks \in Seq(AnyHunks(T))
  PROVE  LET applied == W!ApplyHunks(source, hunks)
         IN /\ applied.error <=> ~HunksFit(source, hunks)
            /\ ~applied.error =>
                 applied.lines = Rebuilt(source, hunks)
                                 \o SubSeq(source, End(hunks, Len(hunks)) + 1, Len(source))
<1>1. PICK s : s = HunkedTo(source, hunks)
  OBVIOUS
<1>2. InTurn(source, hunks)
  BY HunksInTurn
<1>3. W!ApplyHunks(source, hunks)
        = [error |-> s.error, lines |-> s.result \o SubSeq(s.source, s.cursor + 1, Len(s.source))]
  BY <1>1 DEF W!ApplyHunks, HunkedTo, Hunking!Folded, Hunkwise
<1>4. PICK applied : applied = W!ApplyHunks(source, hunks)
  OBVIOUS
<1>5. applied.error = s.error /\ applied.lines = s.result \o SubSeq(s.source, s.cursor + 1, Len(s.source))
  <2>1. PICK lines : lines = s.result \o SubSeq(s.source, s.cursor + 1, Len(s.source))
    OBVIOUS
  <2>2. applied = [error |-> s.error, lines |-> lines]
    BY <1>3, <1>4, <2>1
  <2> QED BY <2>1, <2>2
<1>6. CASE HunksFit(source, hunks)
  <2>1. s = Standing(source, End(hunks, Len(hunks)), Rebuilt(source, hunks))
    BY <1>1, <1>2, <1>6 DEF InTurn
  <2>2. /\ s.error = FALSE /\ s.source = source
        /\ s.cursor = End(hunks, Len(hunks)) /\ s.result = Rebuilt(source, hunks)
    BY <2>1 DEF Standing
  <2> QED BY <1>4, <1>5, <1>6, <2>2
<1>7. CASE ~HunksFit(source, hunks)
  BY <1>1, <1>2, <1>4, <1>5, <1>7 DEF InTurn
<1> QED
  BY <1>6, <1>7

\* A section of a patch, and what it would do to its file in the workspace as it is found.
AnySections(P, T) == [path : P, hunks : Seq(AnyHunks(T))]
Applicable(workspace, section) ==
  /\ workspace[section.path].kind = "text"
  /\ ~W!ApplyHunks(workspace[section.path].lines, section.hunks).error
NewLines(workspace, section) == W!ApplyHunks(workspace[section.path].lines, section.hunks).lines
Distinct(sections) ==
  \A i, j \in 1..Len(sections) : sections[i].path = sections[j].path => i = j

\* The first k sections have been applied, and nothing else has.
AppliedFirst(workspace, sections, k, s) ==
  /\ \A i \in 1..k :
       /\ Applicable(workspace, sections[i])
       /\ s.workspace[sections[i].path].kind = "text"
       /\ s.workspace[sections[i].path].lines = NewLines(workspace, sections[i])
  /\ \A p \in DOMAIN workspace : (\A i \in 1..k : sections[i].path # p) => s.workspace[p] = workspace[p]
  /\ \A p \in DOMAIN workspace : p \in ToSet(s.changed) <=>
       \E i \in 1..k : sections[i].path = p /\ NewLines(workspace, sections[i]) # workspace[p].lines
StoppedAt(workspace, sections, k, s) ==
  IF k = Len(sections) THEN s.error = "none"
  ELSE /\ ~Applicable(workspace, sections[k + 1])
       /\ s.error = IF workspace[sections[k + 1].path].kind # "text"
                    THEN workspace[sections[k + 1].path].kind ELSE "conflict"

\* Files as records, whatever else they hold.
IsWorkspace(P, workspace) ==
  /\ workspace = [p \in P |-> workspace[p]]
  /\ \A p \in P : /\ DOMAIN workspace[p] = {"kind", "lines"}
                  /\ workspace[p].kind # "none"
IsApplying(P, s) ==
  /\ s = [workspace |-> s.workspace, changed |-> s.changed, error |-> s.error]
  /\ s.changed \in Seq(P)
  /\ IsWorkspace(P, s.workspace)

Stepping(none, s, section) == W!ApplyFile(s, section)
Sections == INSTANCE Folding WITH Step <- Stepping

\* One section more, where there has been no error.
Doing(workspace, changed, error) == [workspace |-> workspace, changed |-> changed, error |-> error]

DoesNext(old, w, c, e, x, v, b) ==
  /\ [old EXCEPT !.error = x] = Doing(w, c, x)
  /\ [old EXCEPT !.workspace = v, !.changed = b] = Doing(v, b, e)

LEMMA DoesOn ==
  ASSUME NEW old, NEW w, NEW c, NEW e, old = Doing(w, c, e), NEW x, NEW v, NEW b
  PROVE  DoesNext(old, w, c, e, x, v, b)
<1>1. DOMAIN old = {"workspace", "changed", "error"} /\ old.workspace = w /\ old.changed = c /\ old.error = e
  BY DEF Doing
<1>2. PICK p : p = [old EXCEPT !.error = x]
  OBVIOUS
<1>3. p = Doing(w, c, x)
  <2>1. p.workspace = w /\ p.changed = c /\ p.error = x
    BY <1>1, <1>2
  <2>2. p = [f \in DOMAIN old |-> p[f]]
    BY <1>2
  <2>3. p = [f \in {"workspace", "changed", "error"} |-> p[f]]
    BY <1>1, <2>2
  <2> QED BY <2>1, <2>3 DEF Doing
<1>4. PICK q : q = [old EXCEPT !.workspace = v, !.changed = b]
  OBVIOUS
<1>5. q = Doing(v, b, e)
  <2>1. q.workspace = v /\ q.changed = b /\ q.error = e
    BY <1>1, <1>4
  <2>2. q = [f \in DOMAIN old |-> q[f]]
    BY <1>4
  <2>3. q = [f \in {"workspace", "changed", "error"} |-> q[f]]
    BY <1>1, <2>2
  <2> QED BY <2>1, <2>3 DEF Doing
<1> QED
  BY <1>2, <1>3, <1>4, <1>5 DEF DoesNext

\* One file has other lines now.
Written(P, w, path, l, v) ==
  /\ v = [w EXCEPT ![path].lines = l]
  /\ IsWorkspace(P, v) /\ v[path].kind = w[path].kind /\ v[path].lines = l
  /\ \A p \in P : p # path => v[p] = w[p]

LEMMA FileWritten ==
  ASSUME NEW P, NEW w, IsWorkspace(P, w), NEW path \in P, NEW l
  PROVE  \E v : Written(P, w, path, l, v)
<1>1. w = [p \in P |-> w[p]] /\ DOMAIN w = P
  BY DEF IsWorkspace
<1>2. \A p \in P : DOMAIN w[p] = {"kind", "lines"} /\ w[p].kind # "none"
  BY DEF IsWorkspace
<1>3. PICK new : new = [w[path] EXCEPT !.lines = l]
  OBVIOUS
<1>4. DOMAIN new = {"kind", "lines"} /\ new.kind = w[path].kind /\ new.lines = l
  BY <1>2, <1>3
<1>5. PICK v : v = [w EXCEPT ![path].lines = l]
  OBVIOUS
<1>6. v = [w EXCEPT ![path] = new]
  BY <1>3, <1>5
<1>7. v = [p \in P |-> IF p = path THEN new ELSE w[p]]
  BY <1>1, <1>6
<1>8. v[path] = new /\ \A p \in P : p # path => v[p] = w[p]
  BY <1>7
<1>9. IsWorkspace(P, v)
  <2>1. v = [p \in P |-> v[p]]
    BY <1>7
  <2>2. \A p \in P : DOMAIN v[p] = {"kind", "lines"} /\ v[p].kind # "none"
    BY <1>2, <1>4, <1>8
  <2> QED BY <2>1, <2>2 DEF IsWorkspace
<1> QED
  BY <1>4, <1>5, <1>8, <1>9 DEF Written

LEMMA OneMoreIn ==
  ASSUME NEW A, NEW c \in Seq(A), NEW e \in A
  PROVE  Append(c, e) \in Seq(A) /\ \A x : x \in ToSet(Append(c, e)) <=> x \in ToSet(c) \/ x = e
<1>1. PICK n \in Nat : n = Len(c) /\ DOMAIN c = 1..n
  <2>1. Len(c) \in Nat /\ DOMAIN c = 1..Len(c)
    OBVIOUS
  <2> QED BY <2>1, Zenon
<1>2. PICK d \in Seq(A) : d = Append(c, e) /\ DOMAIN d = 1..(n + 1) /\ d[n + 1] = e /\ \A i \in 1..n : d[i] = c[i]
  <2>1. /\ Append(c, e) \in Seq(A) /\ DOMAIN Append(c, e) = 1..(n + 1)
        /\ Append(c, e)[n + 1] = e /\ \A i \in 1..n : Append(c, e)[i] = c[i]
    BY <1>1
  <2> QED BY <2>1
<1>3. ASSUME NEW x \in ToSet(d) PROVE x \in ToSet(c) \/ x = e
  BY <1>1, <1>2, <1>3 DEF ToSet
<1>4. ASSUME NEW x \in ToSet(c) PROVE x \in ToSet(d)
  <2>1. PICK i \in 1..n : x = c[i]
    BY <1>1, <1>4 DEF ToSet
  <2>2. i \in DOMAIN d /\ d[i] = x
    BY <1>2, <2>1
  <2> QED BY <2>2 DEF ToSet
<1>5. e \in ToSet(d)
  BY <1>2 DEF ToSet
<1> QED
  BY <1>2, <1>3, <1>4, <1>5

\* One section more, where there has been no error.
SectionDone(P, s, e, u) ==
  /\ IsApplying(P, u)
  /\ Applicable(s.workspace, e) =>
       /\ u.error = "none"
       /\ u.workspace[e.path].kind = "text"
       /\ u.workspace[e.path].lines = NewLines(s.workspace, e)
       /\ \A p \in P : p # e.path => u.workspace[p] = s.workspace[p]
       /\ \A p : p \in ToSet(u.changed) <=>
            \/ p \in ToSet(s.changed)
            \/ p = e.path /\ NewLines(s.workspace, e) # s.workspace[e.path].lines
  /\ ~Applicable(s.workspace, e) =>
       /\ u.workspace = s.workspace /\ u.changed = s.changed
       /\ u.error = IF s.workspace[e.path].kind # "text" THEN s.workspace[e.path].kind ELSE "conflict"

LEMMA SectionOne ==
  ASSUME NEW P, NEW T, NEW s, IsApplying(P, s), s.error = "none", NEW e \in AnySections(P, T)
  PROVE  SectionDone(P, s, e, W!ApplyFile(s, e))
<1>1. e.path \in P
  BY DEF AnySections
<1>w. PICK w : w = s.workspace
  OBVIOUS
<1>c. PICK c \in Seq(P) : c = s.changed
  BY DEF IsApplying
<1>2. s = Doing(w, c, "none") /\ w = s.workspace /\ c = s.changed /\ IsWorkspace(P, w)
  BY <1>w, <1>c DEF IsApplying, Doing
<1>3. PICK file : file = w[e.path]
  OBVIOUS
<1>4. PICK after : after = W!ApplyHunks(file.lines, e.hunks)
  OBVIOUS
<1>5. PICK u : u = W!ApplyFile(s, e)
  OBVIOUS
<1>6. Applicable(w, e) <=> file.kind = "text" /\ ~after.error
  BY <1>3, <1>4 DEF Applicable
<1>7. NewLines(w, e) = after.lines
  BY <1>3, <1>4 DEF NewLines
<1>8. CASE ~Applicable(w, e)
  <2>1. PICK error : error = IF file.kind # "text" THEN file.kind ELSE "conflict"
    OBVIOUS
  <2>2. u = [s EXCEPT !.error = error]
    BY <1>2, <1>3, <1>4, <1>5, <1>6, <1>8, <2>1 DEF W!ApplyFile, W!FileFails
  <2>3. u = Doing(w, c, error)
    <3>1. DoesNext(s, w, c, "none", error, w, c)
      BY <1>2, DoesOn
    <3> QED BY <2>2, <3>1 DEF DoesNext
  <2>4. u.workspace = w /\ u.changed = c /\ u.error = error
    BY <2>3 DEF Doing
  <2>5. IsApplying(P, u)
    BY <1>2, <2>3, <2>4 DEF IsApplying, Doing
  <2> QED BY <1>2, <1>3, <1>5, <1>8, <2>1, <2>4, <2>5 DEF SectionDone
<1>9. CASE Applicable(w, e) /\ after.lines = file.lines
  <2>1. u = s
    BY <1>2, <1>3, <1>4, <1>5, <1>6, <1>9 DEF W!ApplyFile
  <2> QED BY <1>2, <1>3, <1>5, <1>6, <1>7, <1>9, <2>1 DEF SectionDone
<1>10. CASE Applicable(w, e) /\ after.lines # file.lines
  <2>0. PICK v : Written(P, w, e.path, after.lines, v)
    BY <1>1, <1>2, FileWritten
  <2>1. /\ v = [w EXCEPT ![e.path].lines = after.lines]
        /\ IsWorkspace(P, v) /\ v[e.path].kind = file.kind /\ v[e.path].lines = after.lines
        /\ \A p \in P : p # e.path => v[p] = w[p]
    BY <1>3, <2>0 DEF Written
  <2>2. PICK b : b = Append(c, e.path)
    OBVIOUS
  <2>3. u = [s EXCEPT !.workspace = v, !.changed = b]
    <3>1. u = [s EXCEPT !.workspace[e.path].lines = after.lines, !.changed = Append(@, e.path)]
      BY <1>2, <1>3, <1>4, <1>5, <1>6, <1>10 DEF W!ApplyFile
    <3> QED BY <1>2, <2>1, <2>2, <3>1
  <2>4. u = Doing(v, b, "none")
    <3>1. DoesNext(s, w, c, "none", "none", v, b)
      BY <1>2, DoesOn
    <3> QED BY <2>3, <3>1 DEF DoesNext
  <2>5. u.workspace = v /\ u.changed = b /\ u.error = "none"
    BY <2>4 DEF Doing
  <2>6. b \in Seq(P) /\ \A x : x \in ToSet(b) <=> x \in ToSet(c) \/ x = e.path
    BY <1>1, <2>2, OneMoreIn
  <2>7. IsApplying(P, u)
    BY <2>1, <2>4, <2>5, <2>6 DEF IsApplying, Doing
  <2> QED BY <1>2, <1>3, <1>5, <1>6, <1>7, <1>10, <2>1, <2>5, <2>6, <2>7 DEF SectionDone
<1> QED
  BY <1>8, <1>9, <1>10

\* The sections one after the other: each is applied, until one cannot be.
Stops(P, workspace, sections, s) ==
  /\ IsApplying(P, s)
  /\ \E k \in 0..Len(sections) : AppliedFirst(workspace, sections, k, s) /\ StoppedAt(workspace, sections, k, s)

LEMMA SectionsInTurn ==
  ASSUME NEW P, NEW T, NEW workspace, IsWorkspace(P, workspace)
  PROVE  \A sections \in Seq(AnySections(P, T)) :
           Distinct(sections) => Stops(P, workspace, sections, W!ApplySections(workspace, sections))
<1> DEFINE E == AnySections(P, T)
           Holds == {c \in Seq(E) : Distinct(c) => Stops(P, workspace, c, W!ApplySections(workspace, c))}
<1>0. \A c : W!ApplySections(workspace, c) = Sections!Folded(0, W!Applying(workspace), c)
  BY DEF W!ApplySections, Sections!Folded, Stepping
<1>d. DOMAIN workspace = P /\ \A p \in P : workspace[p].kind # "none"
  BY DEF IsWorkspace
<1>1. ASSUME NEW c \in Seq(E), Len(c) = 0 PROVE c \in Holds
  <2>1. PICK s : s = W!ApplySections(workspace, c)
    OBVIOUS
  <2>2. s = W!Applying(workspace)
    BY <1>0, <1>1, <2>1, Sections!FoldedNone
  <2>3. s.workspace = workspace /\ s.changed = <<>> /\ s.error = "none" /\ s = [workspace |-> workspace, changed |-> <<>>, error |-> "none"]
    BY <2>2 DEF W!Applying
  <2>4. IsApplying(P, s)
    BY <2>3 DEF IsApplying
  <2>5. \A p \in P : p \notin ToSet(s.changed)
    <3>1. DOMAIN <<>> = {}
      OBVIOUS
    <3> QED BY <2>3, <3>1 DEF ToSet
  <2>6. 1..0 = {}
    OBVIOUS
  <2>7. AppliedFirst(workspace, c, 0, s)
    BY <1>d, <2>3, <2>5, <2>6 DEF AppliedFirst
  <2>8. StoppedAt(workspace, c, 0, s)
    BY <1>1, <2>3 DEF StoppedAt
  <2>9. 0 \in 0..Len(c)
    BY <1>1
  <2> QED BY <2>1, <2>4, <2>7, <2>8, <2>9 DEF Stops
<1>2. ASSUME NEW c \in Seq(E), NEW e \in E, c \in Holds PROVE Append(c, e) \in Holds
  <2>1. PICK n \in Nat : n = Len(c) /\ \A i \in 1..n : c[i] \in E
    <3>1. Len(c) \in Nat /\ \A i \in 1..Len(c) : c[i] \in E
      OBVIOUS
    <3> QED BY <3>1
  <2>2. PICK d \in Seq(E) : d = Append(c, e) /\ Len(d) = n + 1 /\ d[n + 1] = e /\ \A i \in 1..n : d[i] = c[i]
    <3>1. /\ Append(c, e) \in Seq(E) /\ Len(Append(c, e)) = n + 1
          /\ Append(c, e)[n + 1] = e /\ \A i \in 1..n : Append(c, e)[i] = c[i]
      BY <2>1
    <3> QED BY <3>1
  <2>3. PICK s : s = W!ApplySections(workspace, c)
    OBVIOUS
  <2>4. PICK u : u = W!ApplySections(workspace, d)
    OBVIOUS
  <2>5. u = W!ApplyFile(s, e)
    <3> HIDE DEF E
    <3> QED BY <1>0, <2>2, <2>3, <2>4, Sections!FoldedAppend DEF Stepping
  <2>6. SUFFICES ASSUME Distinct(d) PROVE Stops(P, workspace, d, u)
    BY <2>2, <2>4
  <2>7. /\ \A i \in 1..n : c[i].path # e.path
        /\ Distinct(c)
    <3>1. \A i, j \in 1..(n + 1) : d[i].path = d[j].path => i = j
      BY <2>2, <2>6 DEF Distinct
    <3>2. n + 1 \in 1..(n + 1) /\ \A i \in 1..n : i \in 1..(n + 1) /\ i # n + 1
      OBVIOUS
    <3>3. \A i \in 1..n : c[i].path # e.path
      BY <2>2, <3>1, <3>2
    <3>4. \A i, j \in 1..n : c[i].path = c[j].path => i = j
      BY <2>2, <3>1, <3>2
    <3> QED BY <2>1, <3>3, <3>4 DEF Distinct
  <2>8. IsApplying(P, s) /\ \E k \in 0..n : AppliedFirst(workspace, c, k, s) /\ StoppedAt(workspace, c, k, s)
    BY <1>2, <2>1, <2>3, <2>7 DEF Stops
  <2>9. PICK k \in 0..n : AppliedFirst(workspace, c, k, s) /\ StoppedAt(workspace, c, k, s)
    BY <2>8
  <2>10. \A i \in 1..k : i \in 1..n /\ d[i] = c[i]
    BY <2>2, <2>9
  <2>11. AppliedFirst(workspace, d, k, s)
    BY <2>9, <2>10 DEF AppliedFirst
  <2>12. e.path \in P
    BY DEF AnySections
  <2> HIDE DEF E
  <2>13. CASE k # n
    <3>1. k + 1 \in 1..n /\ d[k + 1] = c[k + 1] /\ k \in 0..(n + 1) /\ k # n + 1
      BY <2>2, <2>9, <2>13
    <3>2. /\ ~Applicable(workspace, c[k + 1])
          /\ s.error = IF workspace[c[k + 1].path].kind # "text" THEN workspace[c[k + 1].path].kind ELSE "conflict"
      BY <2>1, <2>9, <2>13 DEF StoppedAt
    <3>3. s.error # "none"
      <4>1. c[k + 1].path \in P
        BY <2>1, <3>1 DEF E, AnySections
      <4> QED BY <1>d, <3>2, <4>1
    <3>4. u = s
      BY <2>5, <3>3 DEF W!ApplyFile
    <3>5. StoppedAt(workspace, d, k, u)
      BY <2>2, <3>1, <3>2, <3>4 DEF StoppedAt
    <3> QED BY <2>2, <2>8, <2>11, <3>1, <3>4, <3>5 DEF Stops
  <2>14. CASE k = n
    <3>1. s.error = "none"
      BY <2>1, <2>9, <2>14 DEF StoppedAt
    <3>2. SectionDone(P, s, e, u)
      BY <2>5, <2>8, <3>1, SectionOne DEF E
    <3>3. s.workspace[e.path] = workspace[e.path]
      BY <1>d, <2>7, <2>9, <2>12, <2>14 DEF AppliedFirst
    <3>4. (Applicable(s.workspace, e) <=> Applicable(workspace, e)) /\ NewLines(s.workspace, e) = NewLines(workspace, e)
      BY <3>3 DEF Applicable, NewLines
    <3>5. IsApplying(P, u)
      BY <3>2 DEF SectionDone
    <3>6. CASE ~Applicable(workspace, e)
      <4>1. u.workspace = s.workspace /\ u.changed = s.changed
            /\ u.error = IF workspace[e.path].kind # "text" THEN workspace[e.path].kind ELSE "conflict"
        BY <3>2, <3>3, <3>4, <3>6 DEF SectionDone
      <4>2. AppliedFirst(workspace, d, n, u)
        BY <2>11, <2>14, <4>1 DEF AppliedFirst
      <4>3. StoppedAt(workspace, d, n, u)
        BY <2>2, <3>6, <4>1 DEF StoppedAt
      <4>4. n \in 0..Len(d)
        BY <2>2
      <4> QED BY <3>5, <4>2, <4>3, <4>4 DEF Stops
    <3>7. CASE Applicable(workspace, e)
      <4>1. /\ u.error = "none"
            /\ u.workspace[e.path].kind = "text"
            /\ u.workspace[e.path].lines = NewLines(workspace, e)
            /\ \A p \in P : p # e.path => u.workspace[p] = s.workspace[p]
            /\ \A p : p \in ToSet(u.changed) <=>
                 \/ p \in ToSet(s.changed)
                 \/ p = e.path /\ NewLines(workspace, e) # workspace[e.path].lines
        BY <3>2, <3>3, <3>4, <3>7 DEF SectionDone
      <4>2. \A i : i \in 1..(n + 1) <=> i \in 1..n \/ i = n + 1
        OBVIOUS
      <4>3. ASSUME NEW i \in 1..(n + 1)
            PROVE  /\ Applicable(workspace, d[i])
                   /\ u.workspace[d[i].path].kind = "text"
                   /\ u.workspace[d[i].path].lines = NewLines(workspace, d[i])
        <5>1. CASE i = n + 1
          BY <2>2, <3>7, <4>1, <5>1
        <5>2. CASE i # n + 1
          <6>1. i \in 1..n
            BY <5>2
          <6>2. d[i] = c[i] /\ c[i].path \in P /\ c[i].path # e.path
            BY <2>1, <2>2, <2>7, <6>1 DEF E, AnySections
          <6>3. u.workspace[d[i].path] = s.workspace[d[i].path]
            BY <4>1, <6>2
          <6>4. Applicable(workspace, d[i]) /\ s.workspace[d[i].path].kind = "text"
                /\ s.workspace[d[i].path].lines = NewLines(workspace, d[i])
            BY <2>11, <2>14, <6>1 DEF AppliedFirst
          <6> QED BY <6>3, <6>4
        <5> QED BY <5>1, <5>2
      <4>4. ASSUME NEW p \in P, \A i \in 1..(n + 1) : d[i].path # p PROVE u.workspace[p] = workspace[p]
        <5>1. p # e.path /\ \A i \in 1..n : d[i].path # p
          BY <2>2, <4>2, <4>4
        <5>2. s.workspace[p] = workspace[p]
          BY <1>d, <2>11, <2>14, <5>1 DEF AppliedFirst
        <5> QED BY <4>1, <5>1, <5>2
      <4>5. ASSUME NEW p \in P
            PROVE  p \in ToSet(u.changed) <=>
                     \E i \in 1..(n + 1) : d[i].path = p /\ NewLines(workspace, d[i]) # workspace[p].lines
        <5>1. p \in ToSet(s.changed) <=>
                \E i \in 1..n : d[i].path = p /\ NewLines(workspace, d[i]) # workspace[p].lines
          BY <1>d, <2>11, <2>14 DEF AppliedFirst
        <5>2. p \in ToSet(u.changed) <=>
                p \in ToSet(s.changed) \/ (p = e.path /\ NewLines(workspace, e) # workspace[p].lines)
          BY <4>1
        <5> QED BY <2>2, <4>2, <5>1, <5>2
      <4>6. AppliedFirst(workspace, d, n + 1, u)
        BY <1>d, <4>3, <4>4, <4>5 DEF AppliedFirst
      <4>7. StoppedAt(workspace, d, n + 1, u)
        BY <2>2, <4>1 DEF StoppedAt
      <4>8. n + 1 \in 0..Len(d)
        BY <2>2
      <4> QED BY <3>5, <4>6, <4>7, <4>8 DEF Stops
    <3> QED BY <3>6, <3>7
  <2> QED BY <2>13, <2>14
<1>3. \A c \in Seq(E) : c \in Holds
  <2> HIDE DEF Holds
  <2> QED BY <1>1, <1>2, Lengthened
<1> QED
  BY <1>3

\* ApplyPatchTool.arun, for any workspace and any patch that names no file twice: the
\* sections before one that fails are applied and stay so, those behind it are not
\* looked at, no other file is touched, and the files reported are those that differ.
THEOREM PatchesStopAtAFailure ==
  ASSUME NEW P, NEW T, NEW workspace, IsWorkspace(P, workspace),
         NEW sections \in Seq(AnySections(P, T)), Distinct(sections)
  PROVE  LET s == W!ApplySections(workspace, sections)
         IN /\ s.changed \in Seq(P)
            /\ \E k \in 0..Len(sections) :
                 AppliedFirst(workspace, sections, k, s) /\ StoppedAt(workspace, sections, k, s)
  BY SectionsInTurn DEF Stops, IsApplying

-----------------------------------------------------------------------------
(* What a behaviour looks at and what it gets                                  *)

\* The input is one of the cases of its function.
InputInv ==
  /\ evaluated \in BOOLEAN
  /\ subject = "chat"      => input \in UpTo(MaxChunks, Chunks)
  /\ subject = "responses" => input \in UpTo(MaxChunks, Raws)
  /\ subject = "whole"     => input \in Answers
  /\ subject = "messages"  => input \in UpTo(MaxMessages, Messages)
  /\ subject = "search"    => input \in SearchCases
  /\ subject = "scan"      => input \in ScanCases
  /\ subject = "list"      => input \in ListCases
  /\ subject = "chunks"    => input \in ChunkCases
  /\ subject = "govern"    => input \in GovernCases
  /\ subject = "config"    => input \in UpTo(MaxLayers, Layers)
  /\ subject = "usage"     => input \in Usages

\* The output is what the function makes of the input.
Result ==
  CASE subject = "chat"      -> S!ChatStream(input)
    [] subject = "responses" -> S!ResponseStream(input)
    [] subject = "whole"     -> <<S!Response(input[1], input[2]),
                                  S!ChatResponse(<<[text |-> input[1], calls |-> input[2]]>>)>>
    [] subject = "messages"  -> S!MessagesToChat(input)
    [] subject = "search"    -> R!Retrieve(input.strategy, input.request, input.world)
    [] subject = "scan"      -> R!Scan(input, input.files)
    [] subject = "list"      -> W!ListFiles(input.entries, input.max)
    [] subject = "chunks"    -> R!Chunks(input.lines, input.nodes, input.size, input.overlap)
    [] subject = "govern"    -> G!Govern(input.tool, input.line, input.settings, input.consent)
    [] subject = "config"    -> L!Load(Defaults, input)
    [] subject = "usage"     -> IF input.dialect = "chat" THEN S!ChatUsage(input) ELSE S!Usage(input)

Proved == {"chat", "responses", "whole", "messages", "search", "scan", "list", "chunks", "govern",
           "config", "usage"}
OutputInv == subject \in Proved /\ evaluated => output = Result

\* Each action evaluates the function it is named for, and only once.
LEMMA StepEvaluates ==
  ASSUME [Next]_vars
  PROVE  /\ UNCHANGED <<subject, input>>
         /\ UNCHANGED <<evaluated, output>> \/ (~evaluated /\ evaluated' = TRUE)
         /\ UNCHANGED <<evaluated, output>> \/ (subject \in Proved => output' = Result)
<1>1. CASE UNCHANGED vars
  BY <1>1 DEF vars
<1>2. CASE Next
  BY <1>2 DEF Next, Ready, ReadChat, ReadResponses, ReadWhole, SendMessages, ApplyDiff, ApplyFiles, WriteOne,
      Search, ScanAll, ListAll, ChunkFile, Decide, Report, Grade, Rank, LoadConfig,
      RunSuite, CountTokens, Benchmark, Result, Proved
<1> QED
  BY <1>1, <1>2

LEMMA Evaluation == Spec => [](InputInv /\ OutputInv)
<1>1. Init => InputInv /\ OutputInv
  BY DEF Init, InputInv, OutputInv
<1>2. InputInv /\ OutputInv /\ [Next]_vars => (InputInv /\ OutputInv)'
  <2>1. SUFFICES ASSUME InputInv, OutputInv, [Next]_vars PROVE InputInv' /\ OutputInv'
    OBVIOUS
  <2>2. UNCHANGED <<subject, input>> /\ evaluated' \in BOOLEAN
    BY <2>1, StepEvaluates DEF InputInv
  <2>3. InputInv'
    BY <2>1, <2>2 DEF InputInv
  <2>4. Result' = Result
    BY <2>2 DEF Result
  <2>5. OutputInv'
    BY <2>1, <2>2, <2>4, StepEvaluates DEF OutputInv
  <2> QED BY <2>3, <2>5
<1> QED
  BY <1>1, <1>2, PTL DEF Spec

\* The worlds the searches are tried in: with both indexes or with none.
LEMMA WorldsHaveTheScan ==
  ASSUME NEW world \in Worlds
  PROVE  DOMAIN world = {"scan"} \/ DOMAIN world = {"symbol", "lexical", "scan"}
<1>1. PICK names \in {{}, {"symbol", "lexical"}} : DOMAIN world = {"scan"} \cup names
  BY DEF Worlds
<1> QED
  BY <1>1

\* What ContextEngine.retrieve makes of the answers it got.
LEMMA Labelled ==
  ASSUME NEW request, NEW world
  PROVE  \E s : /\ s = R!AskInTurn(R!Route(request), request, world)
                /\ R!Retrieve("auto", request, world)
                     = IF s.done \/ s.error # "none" THEN [s EXCEPT !.retriever = Last(s.attempted)] ELSE s
<1> WITNESS R!AskInTurn(R!Route(request), request, world)
<1> QED
  BY DEF R!Retrieve, R!RetrieveAuto, R!Last, Last

\* Without an index a search by plan is a scan.
LEMMA SearchedAlone ==
  ASSUME NEW request, NEW world, DOMAIN world = {"scan"}
  PROVE  LET found == R!Retrieve("auto", request, world) IN
         /\ found.error = "none" /\ found.retriever = "scan"
         /\ found.matches = world["scan"] /\ found.attempted = <<"scan">>
<1>1. PICK s : /\ s = R!AskInTurn(R!Route(request), request, world)
               /\ R!Retrieve("auto", request, world)
                    = IF s.done \/ s.error # "none" THEN [s EXCEPT !.retriever = Last(s.attempted)] ELSE s
  BY Labelled
<1>2. R!Retrieve("auto", request, world)
        = IF s.done \/ s.error # "none" THEN [s EXCEPT !.retriever = Last(s.attempted)] ELSE s
  BY <1>1
<1>3. PICK t : t = (world["scan"] # {}) /\ s = State("scan", world["scan"], <<"scan">>, t, "none")
  BY <1>1, RouteScansOnce, ScanAlone
<1>4. /\ s.done = t /\ s.error = "none" /\ s.attempted = <<"scan">> /\ s.matches = world["scan"]
      /\ s.retriever = "scan" /\ [s EXCEPT !.retriever = "scan"] = s
  BY <1>3 DEF State
<1>5. Last(<<"scan">>) = "scan"
  BY DEF Last
<1> QED
  BY <1>2, <1>4, <1>5

PlanFound(found, plan, request, world, finders) ==
  /\ found.error = "none"
  /\ finders = {} => found.matches = {} /\ found.attempted = plan
  /\ finders # {} => /\ found.retriever = plan[Min(finders)]
                     /\ found.matches = R!Ask(plan[Min(finders)], request, world).matches
                     /\ found.attempted = Take(plan, Min(finders))

\* With both, it gives what the first retriever of its plan that finds something gives.
LEMMA SearchedByPlan ==
  ASSUME NEW request, NEW world, \A name \in {"symbol", "lexical", "scan"} : name \in DOMAIN world,
         NEW plan, plan = R!Route(request),
         NEW finders \in SUBSET (1..Len(plan)),
         \A i \in 1..Len(plan) : i \in finders <=> R!Ask(plan[i], request, world).matches # {},
         NEW found, found = R!Retrieve("auto", request, world)
  PROVE  PlanFound(found, plan, request, world, finders)
<1>1. PICK s : /\ s = R!AskInTurn(plan, request, world)
               /\ found = IF s.done \/ s.error # "none" THEN [s EXCEPT !.retriever = Last(s.attempted)] ELSE s
  BY Labelled
<1>2. found = IF s.done \/ s.error # "none" THEN [s EXCEPT !.retriever = Last(s.attempted)] ELSE s
  BY <1>1
<1>3. PICK C : C = {"symbol", "lexical", "scan"}
  OBVIOUS
<1>4. plan \in Seq(C) /\ \E i \in 1..Len(plan) : plan[i] = "scan"
  BY <1>3, RouteScansOnce
<1>5. \A i \in 1..Len(plan) : plan[i] \in DOMAIN world
  BY <1>3, <1>4
<1>6. /\ finders = {} => \E r, d : d = FALSE /\ s = State(r, {}, plan, d, "none")
      /\ \A m \in finders : (\A i \in finders : m <= i) =>
           \E t : t = TRUE /\ s = State(plan[m], R!Ask(plan[m], request, world).matches, SubSeq(plan, 1, m), t, "none")
  <2>1. FoundFirst(R!AskInTurn(plan, request, world), plan, request, world, finders)
    BY <1>4, <1>5, PlanFindsFirst
  <2> QED BY <1>1, <2>1 DEF FoundFirst
<1>7. CASE finders = {}
  <2>1. PICK r, d : d = FALSE /\ s = State(r, {}, plan, d, "none")
    BY <1>6, <1>7
  <2>2. s.done = d /\ s.error = "none" /\ s.matches = {} /\ s.attempted = plan
    BY <2>1 DEF State
  <2>3. found = s
    BY <1>2, <2>1, <2>2
  <2> QED BY <1>7, <2>2, <2>3 DEF PlanFound
<1>8. CASE finders # {}
  <2>1. PICK m : m = Min(finders)
    OBVIOUS
  <2>2. m \in finders /\ \A i \in finders : m <= i
    <3>1. finders \subseteq Nat
      BY <1>4
    <3> QED BY <1>8, <2>1, <3>1, MinIsLeast
  <2>3. PICK matches, tried, name :
          matches = R!Ask(plan[m], request, world).matches /\ tried = SubSeq(plan, 1, m) /\ name = plan[m]
    OBVIOUS
  <2>4. PICK t : t = TRUE /\ s = State(name, matches, tried, t, "none")
    BY <1>6, <2>2, <2>3
  <2>5. s.done = t /\ s.error = "none" /\ s.attempted = tried
    BY <2>4 DEF State
  <2>6. m \in 1..Len(plan)
    BY <2>2
  <2>7. Last(tried) = name
    BY <1>4, <2>3, <2>6 DEF Last
  <2>8. found = State(name, matches, tried, t, "none")
    BY <1>2, <2>4, <2>5, <2>7 DEF State
  <2>9. found.error = "none" /\ found.retriever = name /\ found.matches = matches /\ found.attempted = tried
    BY <2>8 DEF State
  <2>10. Take(plan, m) = SubSeq(plan, 1, m)
    BY <1>4, <2>6 DEF Take
  <2> QED BY <1>8, <2>1, <2>3, <2>9, <2>10 DEF PlanFound
<1> QED
  BY <1>7, <1>8

\* A call is executed only after every gate, for lines of any number of pieces.
THEOREM Governed == Spec => []ExecutedMeansGoverned
<1>1. InputInv /\ OutputInv => ExecutedMeansGoverned
  <2>1. SUFFICES ASSUME InputInv, OutputInv, Done("govern"), output = "executed"
                 PROVE  ExecutedMeansGoverned
    BY DEF ExecutedMeansGoverned
  <2> DEFINE s == input.settings
             risks == {G!ClassifySingle(c, s.network) : c \in ToSet(input.line.pieces) \ {G!Broken}}
  <2>2. /\ input \in GovernCases
        /\ G!Govern(input.tool, input.line, s, input.consent) = "executed"
    BY <2>1 DEF InputInv, OutputInv, Result, Proved, Done
  <2>3. CASE input.tool = Bash
    <3>1. input.line \in CommandLines /\ input.tool.name = "bash" /\ input.tool.effects = {"process_exec"}
      BY <2>2, <2>3 DEF GovernCases, OtherTools, Bash, Tool
    <3>2. input.line.pieces \in Seq(Commands \cup {G!Broken})
      BY <3>1, AlgorithmsAssumption, UpToIsSeq DEF CommandLines
    <3>3. /\ G!SandboxAllows(input.tool, s) /\ input.line.closed
          /\ \A r \in risks : r # "deny" /\ (r = "prompt" => s.policy # "never" /\ input.consent)
      <4>1. /\ G!SandboxAllows(input.tool, s) /\ input.line.closed
            /\ \A c \in ToSet(input.line.pieces) \ {G!Broken} :
                 /\ G!ClassifySingle(c, s.network) # "deny"
                 /\ G!ClassifySingle(c, s.network) = "prompt" => s.policy # "never" /\ input.consent
        <5>1. PICK C : C = Commands \cup {G!Broken}
          OBVIOUS
        <5>2. input.line.pieces \in Seq(C)
          BY <3>2, <5>1
        <5> HIDE DEF s
        <5>3. /\ G!Govern(input.tool, input.line, s, input.consent) = "executed"
              /\ input.tool.name = "bash" /\ input.consent \in BOOLEAN
          BY <2>2, <3>1 DEF GovernCases
        <5> QED BY <5>3, <5>2, CommandsPassEveryGate
      <4> QED BY <4>1
    <3> HIDE DEF risks
    <3>4. s.mode # "read_only" /\ input.tool \notin OtherTools
      BY <2>3, <3>1, <3>3 DEF G!SandboxAllows, OtherTools, Bash, Tool
    <3> QED
      BY <2>3, <3>1, <3>3, <3>4 DEF ExecutedMeansGoverned, risks
  <2>4. CASE input.tool # Bash
    <3>1. input.tool \in OtherTools /\ input.tool.name # "bash" /\ s \in Settings
      BY <2>2, <2>4 DEF GovernCases, OtherTools, Tool
    <3>2. G!SandboxAllows(input.tool, s) /\ (G!ToolAsks(input.tool, s) => input.consent)
      <4>1. input.consent \in BOOLEAN
        BY <2>2 DEF GovernCases
      <4> QED BY <2>2, <3>1, <4>1, ToolsPassEveryGate
    <3>3. /\ s.mode = "read_only" => input.tool.effects = {"read_only"}
          /\ "network" \in input.tool.effects => s.network
      BY <3>1, <3>2 DEF G!SandboxAllows, OtherTools, Tool
    <3>4. input.tool.effects # {"read_only"} =>
            \/ input.consent \/ s.policy = "never" \/ (s.policy = "on_request" /\ ~input.tool.asks)
      <4>1. s.policy \in {"never", "on_request", "untrusted"}
        BY <3>1 DEF Settings
      <4>2. /\ s.policy = "untrusted" /\ input.tool.effects # {"read_only"} => G!ToolAsks(input.tool, s)
            /\ s.policy = "on_request" /\ input.tool.asks => G!ToolAsks(input.tool, s)
        <5>1. /\ input.tool.asks \in BOOLEAN
              /\ input.tool.effects # {"read_only"} =>
                   \E e \in {"workspace_write", "process_exec", "network", "external"} : e \in input.tool.effects
          <6>1. PICK t \in OtherTools : t = input.tool
            BY <3>1
          <6>2. /\ t.asks \in BOOLEAN
                /\ t.effects # {"read_only"} => t.effects \cap {"workspace_write", "process_exec", "network", "external"} # {}
            <7>1. \/ t.effects = {"workspace_write"} /\ t.asks = TRUE
                  \/ t.effects = {"read_only"} /\ t.asks = FALSE
                  \/ t.effects = {"network", "external"} /\ t.asks = TRUE
                  \/ t.effects = {"external"} /\ t.asks = FALSE
              BY DEF OtherTools, Tool
            <7> QED BY <7>1
          <6> QED BY <6>1, <6>2
        <5> QED BY <5>1 DEF G!ToolAsks
      <4> QED BY <3>2, <4>1, <4>2
    <3> QED
      BY <2>4, <3>1, <3>3, <3>4 DEF ExecutedMeansGoverned
  <2> QED BY <2>3, <2>4
<1> QED
  BY <1>1, Evaluation, PTL

\* The path of one key, and the path of two.
LEMMA OneKey == ASSUME NEW K, NEW q \in Seq(K), NEW a \in K, Len(q) = 1, q[1] = a PROVE q = <<a>>
  OBVIOUS

LEMMA TwoKeys ==
  ASSUME NEW K, NEW q \in Seq(K), NEW a \in K, NEW b \in K, Len(q) = 2, q[1] = a, q[2] = b
  PROVE  q = <<a, b>>
  OBVIOUS

\* Each setting has the value of the last layer that gives it, for any number of layers.
THEOREM Layered == Spec => []LastLayerWins
<1> DEFINE Keys == {"s", "j", "d", "x", "y", "t"}
<1>1. /\ ConfigPaths \subseteq Seq(Keys) /\ <<>> \notin ConfigPaths
      /\ LayerPaths \subseteq ConfigPaths
  BY DEF ConfigPaths, LayerPaths
<1>2. ASSUME NEW layer \in Layers PROVE Keyed(layer, Keys) /\ DOMAIN layer \subseteq ConfigPaths
  <2>1. PICK ps \in SUBSET LayerPaths : layer \in [ps -> {L!Table, L!Scalar("u"), L!Scalar("v")}]
    BY DEF Layers
  <2>2. DOMAIN layer = ps
    BY <2>1
  <2>3. IsConfig(layer)
    BY DEF Layers
  <2> QED BY <1>1, <2>2, <2>3 DEF Keyed
<1>3. Keyed(Defaults, Keys) /\ DOMAIN Defaults = ConfigPaths
  <2>1. DOMAIN Defaults = ConfigPaths
    BY DEF Defaults
  <2>2. \A p \in {<<"s">>, <<"s", "d">>} : p \in ConfigPaths /\ Defaults[p].table
    BY DEF Defaults, ConfigPaths, LayerPaths, L!Table
  <2>3. \A p \in ConfigPaths : \A i \in 1..(Len(p) - 1) : L!Way(p)[i] \in {<<"s">>, <<"s", "d">>}
    <3>1. SUFFICES ASSUME NEW p \in ConfigPaths, NEW i \in 1..(Len(p) - 1)
                   PROVE  SubSeq(p, 1, i) \in {<<"s">>, <<"s", "d">>}
      BY <1>1 DEF L!Way
    <3>2. PICK q : q = SubSeq(p, 1, i)
      OBVIOUS
    <3>3. q \in Seq(Keys) /\ Len(q) = i /\ \A j \in 1..i : q[j] = p[j]
      <4>1. p \in Seq(Keys)
        BY <1>1
      <4> HIDE DEF Keys
      <4> QED BY <3>2, <4>1
    <3>4. CASE p \in {<<"s">>, <<"t">>}
      <4>1. Len(p) = 1
        BY <3>4
      <4> QED BY <4>1
    <3> "s" \in Keys /\ "d" \in Keys
      OBVIOUS
    <3> HIDE DEF Keys
    <3>5. CASE p \in {<<"s", "j">>, <<"s", "d">>}
      <4>1. Len(p) = 2 /\ p[1] = "s"
        BY <3>5
      <4>2. i = 1
        BY <4>1
      <4>3. q = <<"s">>
        BY <3>3, <4>1, <4>2, OneKey
      <4> QED BY <3>2, <4>3
    <3>6. CASE p \in {<<"s", "d", "x">>, <<"s", "d", "y">>}
      <4>1. Len(p) = 3 /\ p[1] = "s" /\ p[2] = "d"
        BY <3>6
      <4>2. i = 1 \/ i = 2
        BY <4>1
      <4>3. i = 1 => q = <<"s">>
        BY <3>3, <4>1, OneKey
      <4>4. i = 2 => q = <<"s", "d">>
        BY <3>3, <4>1, TwoKeys
      <4> QED BY <3>2, <4>2, <4>3, <4>4
    <3> QED BY <3>4, <3>5, <3>6 DEF ConfigPaths, LayerPaths
  <2> QED BY <1>1, <2>1, <2>2, <2>3 DEF Keyed, IsConfig
<1>4. InputInv /\ OutputInv => LastLayerWins
  <2>1. SUFFICES ASSUME InputInv, OutputInv, Done("config") PROVE LastLayerWins
    BY DEF LastLayerWins
  <2>2. input \in Seq(Layers) /\ output = L!Load(Defaults, input)
    BY <2>1, UpToIsSeq, AlgorithmsAssumption DEF InputInv, OutputInv, Result, Proved, Done
  <2>3. \A i \in 1..Len(input) : input[i] \in Layers
    BY <2>2
  <2>4. PICK n \in Nat : n = Len(input)
    BY <2>2
  <2> DEFINE at(i) == LayerAt(Defaults, input, i)
  <2>5. /\ IsConfig(output)
        /\ \A p : p \in DOMAIN output <=> \E i \in 0..n : Stands(Defaults, input, i, n, p)
        /\ \A p \in DOMAIN output : \A i \in 0..n : LastOfAll(Defaults, input, i, n, p) => output[p] = at(i)[p]
    BY <1>2, <1>3, <2>2, <2>3, <2>4, LastGiverWins
  <2>6. \A i \in 0..n : DOMAIN at(i) \subseteq ConfigPaths
    BY <1>2, <1>3, <2>3, <2>4 DEF LayerAt
  <2> HIDE DEF at
  <2>7. ASSUME NEW p, NEW givers, givers = {i \in 0..n : p \in DOMAIN at(i)}
        PROVE  /\ p \in DOMAIN output <=> \E i \in givers : \A j \in (i + 1)..n : ~CutsOff(at(j), p)
               /\ p \in DOMAIN output => p \in ConfigPaths /\ output[p] = at(Max(givers))[p]
    <3>1. \A i \in 0..n : Stands(Defaults, input, i, n, p) <=>
            i \in givers /\ \A j \in (i + 1)..n : ~CutsOff(at(j), p)
      BY <2>7 DEF Stands, at
    <3>2. p \in DOMAIN output <=> \E i \in givers : \A j \in (i + 1)..n : ~CutsOff(at(j), p)
      BY <2>5, <2>7, <3>1
    <3>3. ASSUME p \in DOMAIN output PROVE p \in ConfigPaths /\ output[p] = at(Max(givers))[p]
      <4>1. givers # {} /\ givers \subseteq 0..n
        BY <2>7, <3>2, <3>3
      <4>2. PICK m \in givers : m = Max(givers) /\ \A i \in givers : m >= i
        BY <4>1, <2>4, MaxIsGreatest
      <4>3. m \in 0..n /\ \A j \in (m + 1)..n : p \notin DOMAIN at(j)
        <5>1. \A j \in (m + 1)..n : j \in 0..n /\ ~(m >= j)
          BY <4>1, <2>4
        <5> QED BY <2>7, <4>1, <4>2, <5>1
      <4>4. LastOfAll(Defaults, input, m, n, p)
        BY <2>7, <4>3 DEF LastOfAll, at
      <4> QED BY <2>5, <2>6, <2>7, <3>3, <4>2, <4>3, <4>4
    <3> QED BY <3>2, <3>3
  <2>8. DOMAIN output = {p \in ConfigPaths : \E i \in {i \in 0..n : p \in DOMAIN at(i)} :
                            \A j \in (i + 1)..n : ~CutsOff(at(j), p)}
    BY <2>7
  <2>9. \A p \in DOMAIN output : output[p] = at(Max({i \in 0..n : p \in DOMAIN at(i)}))[p]
    BY <2>7
  <2> QED BY <2>1, <2>4, <2>5, <2>8, <2>9 DEF LastLayerWins, at
<1> QED
  BY <1>4, Evaluation, PTL

\* A search, a scan, a listing or the chunks of a file hide nothing, whatever the bounds.
LEMMA SearchesFind == InputInv /\ OutputInv => SearchFinds /\ StaleNeverHides
<1>1. SUFFICES ASSUME InputInv, OutputInv, Done("search") PROVE SearchFinds /\ StaleNeverHides
  BY DEF SearchFinds, StaleNeverHides
<1>2. /\ input \in SearchCases
      /\ output = R!Retrieve(input.strategy, input.request, input.world)
  BY <1>1 DEF InputInv, OutputInv, Result, Proved, Done
<1>3. PICK request, world : request = input.request /\ world = input.world
  OBVIOUS
<1>4. DOMAIN world = {"scan"} \/ DOMAIN world = {"symbol", "lexical", "scan"}
  <2>1. world \in Worlds
    BY <1>2, <1>3 DEF SearchCases
  <2> QED BY <2>1, WorldsHaveTheScan
<1>5. SearchFinds
  <2>1. SUFFICES ASSUME input.strategy = "auto" PROVE SearchFinds
    BY DEF SearchFinds
  <2>2. PICK plan : plan = IF DOMAIN world = {"scan"} THEN <<"scan">> ELSE R!Route(request)
    OBVIOUS
  <2>3. PICK finders : finders = {i \in DOMAIN plan : AskIn(input, plan[i]).matches # {}}
    OBVIOUS
  <2>4. PICK found : found = R!Retrieve("auto", request, world) /\ output = found
    BY <1>2, <1>3, <2>1
  <2>5. /\ found.error = "none"
        /\ finders = {} => found.matches = {} /\ found.attempted = plan
        /\ finders # {} => /\ found.retriever = plan[Min(finders)]
                           /\ found.matches = AskIn(input, plan[Min(finders)]).matches
                           /\ found.attempted = Take(plan, Min(finders))
    <3>1. CASE DOMAIN world = {"scan"}
      <4>1. /\ found.error = "none" /\ found.retriever = "scan"
            /\ found.matches = world["scan"] /\ found.attempted = <<"scan">>
        BY <2>4, <3>1, SearchedAlone
      <4>2. plan = <<"scan">> /\ DOMAIN plan = {1} /\ plan[1] = "scan"
        BY <2>2, <3>1
      <4>3. AskIn(input, "scan").matches = world["scan"]
        BY <1>3 DEF AskIn, R!Ask, R!Answer
      <4>4. finders = {} \/ finders = {1}
        BY <2>3, <4>2
      <4>5. Min({1}) = 1
        <5>1. {1} \subseteq Nat /\ {1} # {}
          OBVIOUS
        <5> QED BY <5>1, MinIsLeast
      <4>6. Take(plan, 1) = plan
        <5>1. PICK C : C = {"scan"}
          BY Zenon
        <5>2. plan \in Seq(C) /\ Len(plan) = 1
          BY <4>2, <5>1
        <5>3. SubSeq(plan, 1, Len(plan)) = plan
          BY <5>2
        <5> QED BY <5>2, <5>3 DEF Take
      <4>7. 1 \in finders <=> world["scan"] # {}
        BY <2>3, <4>2, <4>3
      <4> QED BY <4>1, <4>2, <4>3, <4>4, <4>5, <4>6, <4>7
    <3>2. CASE DOMAIN world = {"symbol", "lexical", "scan"}
      <4>1. plan = R!Route(request) /\ \A name \in {"symbol", "lexical", "scan"} : name \in DOMAIN world
        BY <2>2, <3>2
      <4>2. plan \in Seq({"symbol", "lexical", "scan"})
        BY <4>1, RouteScansOnce
      <4>3. /\ finders \in SUBSET (1..Len(plan))
            /\ \A i \in 1..Len(plan) : i \in finders <=> R!Ask(plan[i], request, world).matches # {}
        BY <1>3, <2>3, <4>2 DEF AskIn
      <4>4. PlanFound(found, plan, request, world, finders)
        BY <2>4, <4>1, <4>3, SearchedByPlan
      <4> QED BY <1>3, <4>4 DEF AskIn, PlanFound
    <3> QED BY <1>4, <3>1, <3>2
  <2> QED BY <1>3, <2>2, <2>3, <2>4, <2>5 DEF SearchFinds
<1>6. StaleNeverHides
  <2>1. SUFFICES ASSUME input.strategy # "auto", output.matches = {}, input.world.scan # {}
                 PROVE  ~input.world[input.strategy].missing /\ input.world[input.strategy].stale = {}
    BY DEF StaleNeverHides
  <2> QED BY <1>2, <2>1, NamedSearchHidesNothing
<1> QED
  BY <1>5, <1>6

LEMMA LimitsAreTold == InputInv /\ OutputInv => NothingHiddenSilently
<1>1. ASSUME InputInv, OutputInv, Done("scan")
      PROVE  IF output.error THEN \E i \in DOMAIN input.files : input.files[i].content = R!Gone
             ELSE output.matches = AllMatches(input) \/ (output.truncated /\ output.matches = input.max)
  <2>1. input \in ScanCases /\ output = R!Scan(input, input.files)
    BY <1>1 DEF InputInv, OutputInv, Result, Proved, Done
  <2>2. input.max \in Nat /\ input.files \in Seq(ScanFiles)
    BY <2>1, AlgorithmsAssumption, UpToIsSeq DEF ScanCases
  <2>3. \A file \in ScanFiles : file.content \in Int
    <3>1. \A c \in {0, 2} \cup {-1, R!Gone} : c \in Int
      BY DEF R!Gone
    <3>2. \A file \in ScanFiles : file.content \in {0, 2} \cup {-1, R!Gone}
      BY DEF ScanFiles
    <3> QED BY <3>1, <3>2
  <2>4. DOMAIN input.files = 1..Len(input.files)
    BY <2>2
  <2> QED BY <2>1, <2>2, <2>3, <2>4, ScanHidesNothing
<1>2. ASSUME InputInv, OutputInv, Done("list")
      PROVE  /\ \A i \in DOMAIN output.shown : ~output.shown[i].skipped
             /\ \/ Len(output.shown) = Cardinality({i \in DOMAIN input.entries : ~input.entries[i].skipped})
                \/ output.truncated /\ Len(output.shown) = input.max
  <2>1. input \in ListCases /\ output = W!ListFiles(input.entries, input.max)
    BY <1>2 DEF InputInv, OutputInv, Result, Proved, Done
  <2>2. PICK E : E = [skipped : BOOLEAN]
    OBVIOUS
  <2>3. input.max \in Nat /\ input.entries \in Seq(E)
    BY <2>1, <2>2, AlgorithmsAssumption, UpToIsSeq DEF ListCases
  <2>4. /\ output.shown \in Seq(E)
        /\ \A i \in 1..Len(output.shown) : ~output.shown[i].skipped
        /\ \/ Len(output.shown) = Cardinality({i \in 1..Len(input.entries) : ~input.entries[i].skipped})
           \/ output.truncated /\ Len(output.shown) = input.max
    BY <2>1, <2>3, ListHidesNothing
  <2>5. DOMAIN output.shown = 1..Len(output.shown) /\ DOMAIN input.entries = 1..Len(input.entries)
    BY <2>3, <2>4
  <2> QED BY <2>4, <2>5
<1> QED
  BY <1>1, <1>2 DEF NothingHiddenSilently

LEMMA LinesAreCovered == InputInv /\ OutputInv => ChunksCoverTheFile
<1>1. SUFFICES ASSUME InputInv, OutputInv, Done("chunks") PROVE ChunksCoverTheFile
  BY DEF ChunksCoverTheFile
<1>2. input \in ChunkCases /\ output = R!Chunks(input.lines, input.nodes, input.size, input.overlap)
  BY <1>1 DEF InputInv, OutputInv, Result, Proved, Done
<1>3. PICK n \in 0..MaxLines, s \in 1..MaxWindow :
        input \in [lines : {n}, nodes : Trees(n), size : {s}, overlap : 0..(s - 1)]
  <2> DEFINE Of(n, s) == [lines : {n}, nodes : Trees(n), size : {s}, overlap : 0..(s - 1)]
  <2>1. input \in UNION {Of(n, s) : n \in 0..MaxLines, s \in 1..MaxWindow}
    BY <1>2 DEF ChunkCases
  <2> HIDE DEF Of
  <2>2. \E n \in 0..MaxLines, s \in 1..MaxWindow : input \in Of(n, s)
    BY <2>1
  <2> QED BY <2>2 DEF Of
<1>4. /\ input.lines = n /\ input.nodes \in Trees(n) /\ input.size = s /\ input.overlap \in 0..(s - 1)
      /\ n \in Nat /\ s \in Nat
  BY <1>3, AlgorithmsAssumption
<1>5. input.overlap \in Nat /\ input.overlap < input.size
  BY <1>4
<1>6. IsFiniteSet(input.nodes) /\ input.nodes \subseteq Nodes(n)
  <2>1. input.nodes = {} \/ \E u \in Nodes(n) \X Nodes(n) : input.nodes = {u[1], u[2]}
    BY <1>4 DEF Trees
  <2>2. CASE input.nodes = {}
    BY <2>2, FS_EmptySet
  <2>3. CASE \E u \in Nodes(n) \X Nodes(n) : input.nodes = {u[1], u[2]}
    <3>1. PICK a \in Nodes(n), b \in Nodes(n) : input.nodes = {a, b}
      BY <2>3
    <3>2. {a, b} = ({} \cup {a}) \cup {b}
      OBVIOUS
    <3>3. IsFiniteSet({} \cup {a})
      BY FS_EmptySet, FS_AddElement
    <3>4. IsFiniteSet(({} \cup {a}) \cup {b})
      BY <3>3, FS_AddElement
    <3> QED BY <3>1, <3>2, <3>4
  <2> QED BY <2>1, <2>2, <2>3
<1>7. \A x \in input.nodes : x.from \in Nat /\ x.to \in Nat /\ x.from <= x.to /\ x.to < 2 * n
  BY <1>4, <1>6 DEF Nodes
<1>8. /\ output \in Seq(Span(n, s))
      /\ \A line \in 0..(n - 1) : \E i \in 1..Len(output) : output[i] \in Around(line)
  BY <1>2, <1>4, <1>5, <1>6, <1>7, EveryLineIsInAChunk
<1>9. DOMAIN output = 1..Len(output) /\ \A i \in 1..Len(output) : output[i] \in Span(n, s)
  BY <1>8
<1>10. \A line \in 0..(n - 1) : \E i \in DOMAIN output : line \in output[i].first..output[i].last
  <2>1. TAKE line \in 0..(n - 1)
  <2>2. PICK i \in 1..Len(output) : output[i] \in Around(line)
    BY <1>8
  <2>3. /\ output[i].first \in Nat /\ output[i].last \in Nat
        /\ output[i].first <= line /\ line <= output[i].last
    BY <2>2 DEF Around
  <2>4. line \in output[i].first..output[i].last
    BY <2>3
  <2> QED BY <1>9, <2>2, <2>4
<1>11. \A i \in DOMAIN output : /\ output[i].first <= output[i].last /\ output[i].last < n
                                /\ output[i].last - output[i].first < s
  BY <1>9 DEF Span
<1> QED
  BY <1>4, <1>10, <1>11 DEF ChunksCoverTheFile

\* No retriever, no limit and no border between chunks hides a match.
THEOREM NothingHidden == Spec => []SearchesHideNothing
<1>1. InputInv /\ OutputInv => SearchesHideNothing
  BY SearchesFind, LimitsAreTold, LinesAreCovered DEF SearchesHideNothing
<1> QED
  BY <1>1, Evaluation, PTL

\* A conversation reaches the chat dialect whole, in its order, and with each result behind
\* the item that asked for it.
THEOREM Survives == Spec => []ConversationSurvives
<1>1. ASSUME InputInv, OutputInv PROVE ConversationSurvives
  <2>1. SUFFICES ASSUME Done("messages") PROVE ConversationSurvives
    BY DEF ConversationSurvives
  <2>2. input \in UpTo(MaxMessages, Messages) /\ output = S!MessagesToChat(input)
    BY <1>1, <2>1 DEF InputInv, OutputInv, Result, Proved, Done
  <2>3. input \in Seq(Messages)
    BY <2>2, UpToIsSeq, AlgorithmsAssumption
  <2>4. Chat(output) = input
    BY <2>2, <2>3, RequestsSayEverything
  <2>5. ASSUME Batched(input), NEW i \in DOMAIN output, output[i].role = "tool"
        PROVE  \E j \in 1..(i - 1) : /\ output[i].text \in ToSet(output[j].calls)
                                     /\ \A k \in (j + 1)..i : output[k].role = "tool"
    <3>1. AllFollow(output) /\ output \in Seq(Items)
      BY <2>2, <2>3, <2>5, ResultsFollowTheirCalls
    <3>2. i \in 1..Len(output)
      BY <2>5, <3>1
    <3> QED BY <2>5, <3>1, <3>2 DEF AllFollow, Follows
  <2> QED BY <2>4, <2>5 DEF ConversationSurvives, Chat
<1> QED
  BY <1>1, Evaluation, PTL
=============================================================================
