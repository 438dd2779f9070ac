---------------------------- MODULE MCHbmScripts ----------------------------
(* Command lines for the model checker. *)
EXTENDS HbmScripts

\* Of an answer that is overwritten while it is copied, nothing or one position
\* is lost.
MCLostParts == {{}, {1}}

Command(tool, target, pattern, evict, runner) ==
  [tool |-> tool, target |-> target, pattern |-> pattern, evict |-> evict,
   runner |-> runner, returns |-> FALSE, strict |-> FALSE, reset |-> FALSE,
   chained |-> FALSE]

\* Every pattern and eviction is validated, every loop of the benchmark runs,
\* every way of finding the operator is tried once, and wrappers of both kinds.
MCCommands ==
  LET both == {Command("validate", "both", p, None, "direct") : p \in Patterns}
      made == {[Command("validate", "maintain", "hit", n, "python") EXCEPT !.returns = (n # 0)] :
                 n \in EvictSlots}
      finds == {[Command("validate", "maintain", "miss", None, e) EXCEPT !.strict = s] :
                  e \in Runners \ {"direct", "python"}, s \in BOOLEAN}
      looks == {[Command("bench", "lookup", p, None, "direct") EXCEPT !.reset = s] :
                  p \in {"miss", "mixed"}, s \in BOOLEAN}
      refills == {[Command("bench", "maintain", "hit", n, "python") EXCEPT
                     !.chained = s, !.returns = TRUE] :
                    n \in EvictSlots, s \in BOOLEAN}
  IN both \cup made \cup finds \cup looks \cup refills
       \cup {Command("bench", "both", "hit", None, e) : e \in {"none", "direct"}}
=============================================================================
