------------------------------- MODULE VMLink -------------------------------
(***************************************************************************)
(* Linking the modules of a program, and freeing their global registers    *)
(* when it ends (run() of interpreter/rxvmintp.c).                         *)
(*                                                                         *)
(* The linker walks the constant pools of the modules, in the order they   *)
(* were loaded, once to build the symbols and once to resolve them.  What  *)
(* the pools hold is in LinkerInput.                                       *)
(* VMFrames takes the result as its constants GlobalCell, GlobalOwner and  *)
(* ModuleOf.                                                               *)
(***************************************************************************)
EXTENDS LinkerInput, FiniteSets

CONSTANTS
  Programs,    \* the programs [pool, globals] the assembler can write
  NONE         \* a null pointer, SIZE_MAX, or nothing found

ASSUME LinkAssumption ==
  /\ NumModules \in Nat \ {0}
  /\ \A p \in Programs : IsProgram(p) /\ NONE \notin CellsOf(p)

VARIABLES
  program,       \* the loaded program
  phase,         \* how far run() is
  at,            \* the entry, or the module, that its loop is at
  exposed_reg,   \* exposed_reg_tree: index -> cell
  exposed_proc,  \* exposed_proc_tree: index -> procedure
  entry,         \* entry[k]: the fields of procedure k that linking sets
  globals,       \* globals[m][g]: a cell, named after its first register
  freed          \* freed[c]: how often cell c was freed
vars == <<program, phase, at, exposed_reg, exposed_proc, entry, globals, freed>>

Pool == program.pool
Registers(m) == 0 .. program.globals[m] - 1
Cells == CellsOf(program)
Owner(cell) == cell[1]

Extend(f, key, x) == [k \in DOMAIN f \cup {key} |-> IF k = key THEN x ELSE f[k]]

(* rxas: a procedure that is declared only has neither start nor locals;   *)
(* both are named after the procedure they come from.                      *)
Init ==
  /\ program \in Programs
  /\ phase = "symbols" /\ at = 1
  /\ exposed_reg = [x \in {} |-> NONE]
  /\ exposed_proc = [x \in {} |-> NONE]
  /\ entry = [k \in {k \in 1 .. Len(Pool) : Pool[k].type = "proc"} |->
                LET code == IF Pool[k].defined THEN k ELSE NONE
                IN  [start |-> code, locals |-> code, module |-> NONE]]
  /\ globals = [m \in Modules |-> [g \in Registers(m) |-> NONE]]
  /\ freed = [c \in Cells |-> 0]

Goto(p) == phase' = p /\ at' = 1
Reject == Goto("rejected") /\ UNCHANGED <<program, exposed_reg, exposed_proc, entry, globals, freed>>
Step(p, next) == IF at < Len(Pool) THEN phase' = p /\ at' = at + 1 ELSE Goto(next)

-----------------------------------------------------------------------------
(* Build Symbols *)

BuildStep == phase = "symbols" /\ Step("symbols", "resolve") /\ UNCHANGED <<program, freed>>

(* PROC_CONST: mark the owning module.                                     *)
BuildProc ==
  /\ BuildStep /\ Pool[at].type = "proc"
  /\ entry' = IF Pool[at].defined THEN [entry EXCEPT ![at].module = Pool[at].module] ELSE entry
  /\ UNCHANGED <<exposed_reg, exposed_proc, globals>>

(* EXPOSE_REG_CONST: the first register exposed under an index creates the *)
(* value, the others share it.                                             *)
BuildRegAlwaysNew ==
  LET e == Pool[at] IN
  /\ BuildStep /\ e.type = "reg"
  /\ globals' = [globals EXCEPT ![e.module][e.global] = <<e.module, e.global>>]
  /\ exposed_reg' = Extend(exposed_reg, e.index, <<e.module, e.global>>)
  /\ UNCHANGED <<exposed_proc, entry>>
BuildRegOffByOne ==
  LET e == Pool[at] IN
  /\ BuildStep /\ e.type = "reg"
  /\ globals' = [globals EXCEPT ![e.module][e.global] =
                   IF e.index \in DOMAIN exposed_reg THEN exposed_reg[e.index]
                   ELSE <<e.module, e.global + 1>>]
  /\ exposed_reg' = Extend(exposed_reg, e.index, globals'[e.module][e.global])
  /\ UNCHANGED <<exposed_proc, entry>>
BuildReg ==
  LET e == Pool[at] IN
  /\ BuildStep /\ e.type = "reg"
  /\ IF e.index \in DOMAIN exposed_reg
       THEN /\ globals' = [globals EXCEPT ![e.module][e.global] = exposed_reg[e.index]]
            /\ UNCHANGED exposed_reg
       ELSE LET cell == <<e.module, e.global>> IN
            /\ globals' = [globals EXCEPT ![e.module][e.global] = cell]
            /\ exposed_reg' = Extend(exposed_reg, e.index, cell)
  /\ UNCHANGED <<exposed_proc, entry>>

(* EXPOSE_PROC_CONST: a second procedure under an index is an error.       *)
BuildExpose ==
  LET e == Pool[at] IN
  /\ BuildStep /\ e.type = "expose"
  /\ e.imported \/ e.index \notin DOMAIN exposed_proc
  /\ exposed_proc' = IF e.imported THEN exposed_proc
                     ELSE Extend(exposed_proc, e.index, e.procedure)
  /\ UNCHANGED <<exposed_reg, entry, globals>>

DuplicateSymbolOrImport ==
  /\ phase = "symbols"
  /\ Pool[at].type = "expose"
  /\ Pool[at].index \in DOMAIN exposed_proc
  /\ Reject
DuplicateSymbol ==
  /\ phase = "symbols"
  /\ Pool[at].type = "expose" /\ ~ Pool[at].imported
  /\ Pool[at].index \in DOMAIN exposed_proc
  /\ Reject

-----------------------------------------------------------------------------
(* Resolve Symbols *)

Imports(k) == Pool[k].type = "expose" /\ Pool[k].imported

ResolveStartOnly ==
  /\ phase = "resolve"
  /\ Imports(at) => Pool[at].index \in DOMAIN exposed_proc
  /\ entry' = IF Imports(at)
                THEN LET linked == entry[exposed_proc[Pool[at].index]]
                     IN  [entry EXCEPT ![Pool[at].procedure] =
                            [@ EXCEPT !.start = linked.start, !.locals = linked.locals]]
                ELSE entry
  /\ Step("resolve", "allocate")
  /\ UNCHANGED <<program, exposed_reg, exposed_proc, globals, freed>>
Resolve ==
  /\ phase = "resolve"
  /\ Imports(at) => Pool[at].index \in DOMAIN exposed_proc
  /\ entry' = IF Imports(at)
                THEN [entry EXCEPT ![Pool[at].procedure] = entry[exposed_proc[Pool[at].index]]]
                ELSE entry
  /\ Step("resolve", "allocate")
  /\ UNCHANGED <<program, exposed_reg, exposed_proc, globals, freed>>

Unimplemented ==
  /\ phase = "resolve"
  /\ Imports(at) /\ Pool[at].index \notin DOMAIN exposed_proc
  /\ Reject

-----------------------------------------------------------------------------
(* Globals *)

(* The registers that are not exposed.                                     *)
AllocateGlobals ==
  /\ phase = "allocate"
  /\ globals' = [globals EXCEPT ![at] =
                   [g \in Registers(at) |-> IF @[g] = NONE THEN <<at, g>> ELSE @[g]]]
  /\ IF at < NumModules THEN phase' = "allocate" /\ at' = at + 1 ELSE Goto("run")
  /\ UNCHANGED <<program, exposed_reg, exposed_proc, entry, freed>>

(* The program runs (VMFrames), unless no procedure is named main, and ends. *)
Finish ==
  /\ phase = "run" /\ Goto("free")
  /\ UNCHANGED <<program, exposed_reg, exposed_proc, entry, globals, freed>>

(* Each module frees the values it owns.                                   *)
FreeGlobalsAll ==
  /\ phase = "free"
  /\ freed' = [c \in Cells |->
                 freed[c] + Cardinality({g \in Registers(at) : globals[at][g] = c})]
  /\ IF at < NumModules THEN phase' = "free" /\ at' = at + 1 ELSE Goto("done")
  /\ UNCHANGED <<program, exposed_reg, exposed_proc, entry, globals>>
FreeGlobals ==
  /\ phase = "free"
  /\ freed' = [c \in Cells |->
                 freed[c] + Cardinality({g \in Registers(at) : globals[at][g] = c /\ Owner(c) = at})]
  /\ IF at < NumModules THEN phase' = "free" /\ at' = at + 1 ELSE Goto("done")
  /\ UNCHANGED <<program, exposed_reg, exposed_proc, entry, globals>>

Ended == phase \in {"rejected", "done"} /\ UNCHANGED vars

Next ==
  \/ BuildProc \/ BuildReg \/ BuildExpose \/ DuplicateSymbol
  \/ Resolve \/ Unimplemented
  \/ AllocateGlobals \/ Finish \/ FreeGlobals
  \/ Ended

Spec == Init /\ [][Next]_vars

-----------------------------------------------------------------------------
(* Properties *)

TypeOK ==
  /\ phase \in {"symbols", "resolve", "allocate", "run", "free", "done", "rejected"}
  /\ at \in Nat \ {0}
  /\ \A x \in DOMAIN exposed_reg : exposed_reg[x] \in Cells
  /\ \A x \in DOMAIN exposed_proc : exposed_proc[x] \in DOMAIN entry
  /\ \A m \in Modules : globals[m] \in [Registers(m) -> Cells \cup {NONE}]
  /\ freed \in [Cells -> Nat]

Exports(x) == {k \in 1 .. Len(Pool) :
                 Pool[k].type = "expose" /\ ~ Pool[k].imported /\ Pool[k].index = x}
Linkable ==
  /\ \A k \in 1 .. Len(Pool) : Pool[k].type = "expose" =>
       IF Pool[k].imported THEN Exports(Pool[k].index) # {} ELSE Exports(Pool[k].index) = {k}

(* The order of the modules does not decide whether a program links: it is *)
(* rejected only if an index is exposed twice or not at all.               *)
RejectedIfUnlinkable ==
  /\ phase = "rejected" => ~ Linkable
  /\ phase \in {"allocate", "run"} => Linkable

(* docs/assembler.md, Global Procedures: a declared procedure is the one   *)
(* another file provides under its index: its code, its locals, and the    *)
(* module whose globals and constants that code uses.                      *)
CallsWhatIsExposed ==
  phase = "run" =>
    \A k \in 1 .. Len(Pool) : Imports(k) =>
      \E x \in Exports(Pool[k].index) :
        LET provided == Pool[x].procedure
        IN  entry[Pool[k].procedure] =
              [start |-> provided, locals |-> provided, module |-> Pool[x].module]

(* docs/assembler.md, Global Registers: registers share a value just when  *)
(* they are exposed under the same index.                                  *)
ExposedAs(m, g) ==
  {Pool[k].index : k \in {k \in 1 .. Len(Pool) :
                            Pool[k].type = "reg" /\ Pool[k].module = m /\ Pool[k].global = g}}
SharedByIndex ==
  phase = "run" =>
    \A m, n \in Modules : \A g \in Registers(m), h \in Registers(n) :
      globals[m][g] = globals[n][h] <=>
        <<m, g>> = <<n, h>> \/ ExposedAs(m, g) \cap ExposedAs(n, h) # {}

(* Every global value is freed once.                                       *)
Used == UNION {{globals[m][g] : g \in Registers(m)} : m \in Modules}
FreedOnce ==
  /\ \A c \in Cells : freed[c] <= 1
  /\ phase = "done" => \A c \in Used : freed[c] = 1

=============================================================================
