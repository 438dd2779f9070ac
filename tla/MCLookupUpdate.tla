--------------------------- MODULE MCLookupUpdate ---------------------------
(* Command lines for the model checker. *)
EXTENDS LookupUpdateScripts

Command(tool, n, percent, dim) ==
  [tool |-> tool, n |-> n, percent |-> percent, dim |-> dim]

\* Where results are compared, no core has a tail behind another tile: six keys
\* are a tile and a tail.
MCCommands ==
  LET tests == {Command("test", n, 50, dim) : n \in {4, 8}, dim \in {1, 3}}
                 \cup {Command("test", 6, percent, 4) : percent \in {10, 50, 100}}
      Mode(c, m)  == c @@ [mode |-> m]
      Modes(c, m) == c @@ [modes |-> m]
      Runs(c, p)  == c @@ [patterns |-> p]
  IN tests
     \cup {Mode(Command("bench", 6, 50, 4), m) : m \in {"lookup", "update", "both"}}
     \cup {Mode(Command("bench", 4, percent, 0), "both") : percent \in {0, 100}}
     \cup {Mode(Command("bench", 0, 50, 1), "both")}
     \cup {Modes(Command("profile", 4, 75, 2), <<"lookup", "update">>)}
     \cup {Runs(Command("memory", 3, 0, 2), p) :
             p \in {<<"fixed", "hotset">>, <<"random">>, <<"block", "other">>}}
     \cup {Runs(Command("memory", 6, 0, 2), <<"block", "sequential">>)}

\* Two tiles for each of two requests, on three cores.
TailCommands == {Command("test", 6, 50, 3)}

MCHashes == {[a |-> 0, b |-> 0], [a |-> 2, b |-> 3], [a |-> 4, b |-> 1]}

MCDraws == {[r \in Reqs |-> 1], [r \in Reqs |-> 5 + r]}

MCHotsets == <<2, 4>>
=============================================================================
