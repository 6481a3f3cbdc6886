----------------------------- MODULE Governance -----------------------------
(***************************************************************************)
(* What decides whether a tool call is executed, as functions: the effects  *)
(* SandboxPolicy admits, the risk CommandPolicy gives a command line, what  *)
(* ApprovalManager asks the user, and the last look BashTool takes.         *)
(*                                                                         *)
(* A command line is [closed, pieces]: whether shlex can split it, and what *)
(* lies between the raw separators && || ; and |. A piece is [exe, args],   *)
(* or Broken where a separator inside quotes has cut it.                    *)
(***************************************************************************)
EXTENDS Integers, SequencesExt, FiniteSetsExt

Broken == [exe |-> "", args |-> <<>>]

BroadTargets == {"/", "*", ".."}
RecursiveFlags == {"-r", "-rf"}
ForceFlags == {"-f", "-rf"}
InPlaceFlags == {"-i", "-ni"}
NetworkCommands == {"curl", "ssh"}
GitNetwork == {"push", "fetch"}

IsFlag(arg) == arg \in RecursiveFlags \cup ForceFlags \cup InPlaceFlags \cup {"-m", "-V"}

\* The last argument that is not a flag is the target.
DestructiveRm(c) ==
  LET targets == SelectSeq(c.args, LAMBDA a : ~IsFlag(a)) IN
  /\ c.exe = "rm"
  /\ ToSet(c.args) \cap RecursiveFlags # {} /\ ToSet(c.args) \cap ForceFlags # {}
  /\ targets # <<>> /\ Last(targets) \in BroadTargets

KnownSafe(c) ==
  LET n == Len(c.args) IN
  CASE c.exe = "sed"               -> ToSet(c.args) \cap InPlaceFlags = {}
    [] c.exe = "git" /\ n >= 1     -> c.args[1] \in {"status", "diff", "log"}
    [] c.exe = "uv" /\ n >= 2      -> SubSeq(c.args, 1, 2) = <<"run", "pytest">>
    [] c.exe = "npm" /\ n >= 1     -> c.args[1] \in {"test", "run"}
    [] c.exe = "python" /\ n >= 2  -> SubSeq(c.args, 1, 2) = <<"-m", "pytest">>
    [] c.exe = "python" /\ n = 1   -> c.args[1] = "-V"
    [] OTHER                       -> c.exe \in {"ls", "cat", "pytest"}

ClassifySingle(c, network) ==
  IF DestructiveRm(c) \/ c.exe = "sudo" THEN "deny"
  ELSE IF c.exe \in NetworkCommands /\ ~network THEN "deny"
  ELSE IF c.exe = "git" /\ c.args # <<>> /\ c.args[1] \in GitNetwork THEN IF network THEN "prompt" ELSE "deny"
  ELSE IF c.exe \in NetworkCommands \cup {"rm", "pip"} THEN "prompt"
  ELSE IF KnownSafe(c) THEN "safe"
  ELSE "prompt"

Rank(risk) == CASE risk = "none" -> -1 [] risk = "safe" -> 0 [] risk = "prompt" -> 1 [] risk = "deny" -> 2

LatestRisk(highest, risk) == risk  \* mutant: the last piece decides
HigherRisk(highest, risk) == IF Rank(risk) > Rank(highest) THEN risk ELSE highest

WithPiece(network, highest, c) ==
  IF c = Broken THEN highest ELSE HigherRisk(highest, ClassifySingle(c, network))

ClassifyCompound(pieces, network) ==
  LET highest[i \in 0..Len(pieces)] ==
        IF i = 0 THEN "none" ELSE WithPiece(network, highest[i - 1], pieces[i])
      risk == highest[Len(pieces)]
  IN IF risk = "none" THEN "deny" ELSE risk

Classify(line, network) ==
  IF ~line.closed \/ line.pieces = <<>> THEN "deny"
  ELSE IF Len(line.pieces) > 1 THEN ClassifyCompound(line.pieces, network)
  ELSE ClassifySingle(line.pieces[1], network)

-----------------------------------------------------------------------------
(* The settings of a turn are [mode, network, policy]; a tool is [name,        *)
(* effects, asks].                                                            *)

SandboxAllows(tool, settings) ==
  /\ "network" \in tool.effects => settings.network
  /\ settings.mode = "read_only" => tool.effects \subseteq {"read_only"}

CommandAsks(line, settings) == settings.policy # "never" /\ Classify(line, settings.network) = "prompt"

ToolAsks(tool, settings) ==
  CASE settings.policy = "never"      -> FALSE
    [] settings.policy = "untrusted"  -> tool.effects \cap {"workspace_write", "process_exec", "network", "external"} # {}
    [] settings.policy = "on_request" -> tool.asks

NeedsApproval(tool, line, settings) ==
  IF tool.name = "bash" THEN CommandAsks(line, settings) ELSE ToolAsks(tool, settings)

\* BashTool.arun looks at the risk again.
TrustsTheRunner(line, settings, approved) ==  \* mutant: what the runner let through runs
  IF Classify(line, settings.network) = "deny" THEN "command_denied" ELSE "executed"
BashGuard(line, settings, approved) ==
  CASE Classify(line, settings.network) = "deny" -> "command_denied"
    [] Classify(line, settings.network) = "prompt" /\ ~approved -> "command_requires_approval"
    [] OTHER -> "executed"

Govern(tool, line, settings, consent) ==
  LET asked == NeedsApproval(tool, line, settings) IN
  IF ~SandboxAllows(tool, settings) THEN "sandbox_denied"
  ELSE IF asked /\ ~consent THEN "approval_denied"
  ELSE IF tool.name = "bash" THEN BashGuard(line, settings, asked)
  ELSE "executed"

=============================================================================
