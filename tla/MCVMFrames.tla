---------------------------- MODULE MCVMFrames ----------------------------
(***************************************************************************)
(* A small program for VMFrames: main in module m1 and f in module m2,     *)
(* each with one local register, which may call each other and themselves. *)
(* m1 has one global register, m2 has none, so that the frames of the two  *)
(* differ in layout.                                                       *)
(***************************************************************************)
EXTENDS VMFrames, FiniteSetsExt, Sequences, TLC

CONSTANTS m1, m2, main, f, Cells

MCModule == {m1, m2}
MCProc == {main, f}
MCModuleOf == (main :> m1) @@ (f :> m2)
MCLocals == (main :> 1) @@ (f :> 1)
MCGlobals == (m1 :> 1) @@ (m2 :> 0)
MCGlobalCell == [m \in MCModule |-> [k \in 0 .. MCGlobals[m] - 1 |-> 1]]
MCGlobalOwner == [v \in {1} |-> m1]
MCValue == 1 .. Cells

(* Every allocator: a cell that was freed may be the next one that is      *)
(* handed out, which is when a stale pointer does most harm.               *)
MCFresh(k, live) ==
  {cells \in [0 .. k - 1 -> MCValue \ live] : \A i, j \in 0 .. k - 1 : cells[i] = cells[j] => i = j}

(* Bound: where the stack is as high as it gets, no step is taken from a   *)
(* state in which a frame has mapped a value of its own.                   *)
MapsBelowTop == depth < MaxDepth \/ mapped = {}

(* States that differ only in which cell holds which value are the same: a *)
(* cell is named by the first register that denotes it, and of the cells   *)
(* no register denotes only the number counts.                             *)
Places(v) == UNION {{10 * i + s : s \in {t \in DOMAIN reg[i] : reg[i][t] = v}} : i \in 1 .. depth}
Denoted == (UNION {{reg[i][s] : s \in DOMAIN reg[i]} : i \in 1 .. depth}) \ {NULL}
MCView ==
  LET name == [v \in Denoted |-> Min(Places(v))] @@ (NULL :> 0)
  IN  <<depth, call, [i \in 1 .. depth |-> [s \in DOMAIN reg[i] |-> name[reg[i][s]]]],
        {<<name[v], owner[v]>> : v \in Denoted}, {name[v] : v \in mapped},
        Cardinality(Live \ Denoted)>>
=============================================================================
