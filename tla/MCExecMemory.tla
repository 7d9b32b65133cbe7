--------------------------- MODULE MCExecMemory ---------------------------
(* Values of the constants of ExecMemory. *)
EXTENDS ExecMemory

CONSTANTS h1, h2, h3

\* Two handlers of the same priority and one behind them.
TwoEqual == (h1 :> 1) @@ (h2 :> 1) @@ (h3 :> 0)
\* Who allocates from the end of memory does without the handlers.
Combinations == {{}, {"reverse", "noexpunge"}}
\* In the middle: what is left has no room for the bigger size.
Placed == {<<7, 4>>}

\* The bound of the run: any number of blocks while no handler has ever been added, and four
\* blocks and handlers together from then on.  The walk sees of the memory only whether a try
\* succeeds.
BlocksOrHandlers ==
  LET added == {h \in Handlers : succ[h] # None}
  IN added = {} \/ Cardinality(blocks) + Cardinality(added) <= 4
=============================================================================
