--------------------------- MODULE MCGovernedCall ---------------------------
(* GovernedCall.cfg: two calls, on two threads of an MCP server or as a      *)
(* command of the CLI, about a Prism Central's own VM and any other, while   *)
(* that VM takes the address its Prism Central is reached at.                *)
(* UndoTarget.cfg, CommandExit.cfg: three calls on a thread of the server    *)
(* or as commands, a write, its replay and the call that makes; in the first *)
(* the setup wizard runs meanwhile.                                          *)
EXTENDS GovernedCall, TLC

CONSTANTS c1, c2, c3, s1, s2, cli, Server, Cli, n1, n2, h1, h2, w1

TwoCalls == {c1, c2}
ThreeCalls == {c1, c2, c3}
OfBoth == {s1, cli}
OfThree == {s1, s2, cli}
MCProcs == {Server, Cli}
MCClis == {Cli}
MCNames == {n1, n2}
MCHosts == {h1, h2}
MCLiterals == {h1}
OneWizard == {w1}

One == [name |-> n1, host |-> h1]
Two == [name |-> n2, host |-> h2]
\* No config.yaml yet, one target, or two.
UpToTwo == {<<>>, <<One>>, <<One, Two>>}
BothTargets == {<<One, Two>>}

MCProcOf == [t \in Threads |-> IF t = cli THEN Cli ELSE Server]

Asked(tool, vm, target, dry, of) ==
    [tool |-> tool, vm |-> vm, target |-> target, dry |-> dry, of |-> of]

\* Of the own VM of either Prism Central, what the guard is about and its
\* previews; what it leaves alone; a power action on another VM; a read.
PlainAsks ==
    {Asked(tool, "pc", t, dry, NoCall) :
        tool \in {"delete", "power"}, t \in {n1, n2}, dry \in BOOLEAN}
      \cup {Asked("on", "pc", n1, FALSE, NoCall), Asked("power", "work", n1, FALSE, NoCall),
            Asked("read", "work", Omitted, FALSE, NoCall)}

\* Writes on a named target and on the default, and replays that leave the
\* target to the record.
ReplayAsks ==
    {Asked("power", "work", t, FALSE, NoCall) : t \in {n2, Omitted}}
      \cup {Asked("apply", "work", Omitted, FALSE, c) : c \in Calls}

AllLost == {"error", "unknown", "interrupted"}
BothStops == {"budget_exceeded", "error"}

CallSymmetry == Permutations(Calls)
ThreadSymmetry == Permutations(Calls) \cup Permutations({s1, s2})
=============================================================================
