--------------------------- MODULE VMLink_proofs ---------------------------
(***************************************************************************)
(* Proofs about VMLink: that linking resolves what the modules expose, and *)
(* that the globals it shares are freed once, for every number of modules  *)
(* and every program.                                                      *)
(*                                                                         *)
(* The inductive invariant says what the trees, the procedures and the     *)
(* globals hold after a part of the constant pools has been visited.       *)
(***************************************************************************)
EXTENDS VMLink, FiniteSetTheorems, TLAPS

Entries == 1 .. Len(Pool)

(* The entries that the first pass, and those that the second one, has     *)
(* behind it; the modules whose globals are allocated, and those whose     *)
(* globals are freed.                                                      *)
Built(k) == k \in Entries /\ (phase = "symbols" => k < at)
Resolved(k) == k \in Entries /\ phase # "symbols" /\ (phase = "resolve" => k < at)
Allocated(m) ==
  \/ phase \in {"run", "free", "done"}
  \/ phase = "allocate" /\ m < at
Freed(m) == phase = "done" \/ (phase = "free" /\ m < at)

Exposes(k) == Pool[k].type = "expose" /\ ~ Pool[k].imported
Shares(k) == Pool[k].type = "reg"

(* Types, and where the loops are.                                         *)
Position ==
  /\ program \in Programs
  /\ phase \in {"symbols", "resolve", "allocate", "run", "free", "done", "rejected"}
  /\ phase \in {"symbols", "resolve"} => at \in Entries
  /\ phase \in {"allocate", "free"} => at \in Modules
  /\ phase \in {"run", "done", "rejected"} => at = 1
Shape ==
  /\ DOMAIN entry = {k \in Entries : Pool[k].type = "proc"}
  /\ DOMAIN globals = Modules
  /\ \A m \in Modules : globals[m] \in [Registers(m) -> Cells \cup {NONE}]
  /\ freed \in [Cells -> Nat]
  /\ \A x \in DOMAIN exposed_reg : exposed_reg[x] \in Cells
  /\ \A x \in DOMAIN exposed_proc : exposed_proc[x] \in DOMAIN entry

(* The tree of the exposed procedures: each index has one provider.        *)
ProcedureTree ==
  /\ \A k \in Entries : Built(k) /\ Exposes(k) =>
       /\ Pool[k].index \in DOMAIN exposed_proc
       /\ exposed_proc[Pool[k].index] = Pool[k].procedure
       /\ \A j \in Entries : Built(j) /\ Exposes(j) /\ Pool[j].index = Pool[k].index => j = k
  /\ \A x \in DOMAIN exposed_proc :
       \E k \in Entries : Built(k) /\ Exposes(k) /\ Pool[k].index = x

(* The tree of the exposed registers: each index has the cell named after  *)
(* one register that is exposed under it, and all of them denote it.       *)
RegisterTree ==
  /\ \A k \in Entries : Built(k) /\ Shares(k) =>
       /\ Pool[k].index \in DOMAIN exposed_reg
       /\ globals[Pool[k].module][Pool[k].global] = exposed_reg[Pool[k].index]
  /\ \A x \in DOMAIN exposed_reg :
       \E k \in Entries :
         /\ Built(k) /\ Shares(k) /\ Pool[k].index = x
         /\ exposed_reg[x] = <<Pool[k].module, Pool[k].global>>

(* The other registers have a cell of their own, from when they are        *)
(* allocated.                                                              *)
Private(m, g) ==
  \A k \in Entries : Built(k) /\ Shares(k) => <<Pool[k].module, Pool[k].global>> # <<m, g>>
PrivateCells ==
  \A m \in Modules : \A g \in Registers(m) :
    Private(m, g) => globals[m][g] = IF Allocated(m) THEN <<m, g>> ELSE NONE

(* A procedure that has code is complete, but for its module before the    *)
(* first pass comes to it; a declared one is what its provider is, from    *)
(* when the second pass has come to its import.                            *)
Linked(k) == [start |-> k, locals |-> k, module |-> Pool[k].module]
CodeEntries ==
  \A k \in DOMAIN entry : Pool[k].defined =>
    entry[k] = [start |-> k, locals |-> k, module |-> IF Built(k) THEN Pool[k].module ELSE NONE]
ImportEntries ==
  \A k \in Entries : Resolved(k) /\ Imports(k) =>
    /\ Pool[k].index \in DOMAIN exposed_proc
    /\ entry[Pool[k].procedure] = Linked(exposed_proc[Pool[k].index])

(* A cell is freed when the module it is named after is visited, if some   *)
(* register denotes it.                                                    *)
FreedCells ==
  \A c \in Cells : freed[c] = IF Freed(Owner(c)) /\ c \in Used THEN 1 ELSE 0

IInv ==
  /\ Position /\ Shape
  /\ phase # "rejected" =>
       /\ ProcedureTree /\ RegisterTree /\ PrivateCells
       /\ CodeEntries /\ ImportEntries
  /\ FreedCells
  /\ phase = "rejected" => ~ Linkable

-----------------------------------------------------------------------------
(* Facts about programs                                                    *)

LEMMA ProgramFacts ==
  ASSUME program \in Programs
  PROVE  /\ NumModules \in Nat \ {0} /\ Len(Pool) \in Nat \ {0}
         /\ \A m \in Modules : program.globals[m] \in Nat
         /\ NONE \notin Cells
         /\ \A k \in Entries :
              /\ Pool[k].module \in Modules /\ Pool[k].type \in {"proc", "reg", "expose"}
              /\ Pool[k].type = "proc" => Pool[k].defined \in BOOLEAN
              /\ Shares(k) => <<Pool[k].module, Pool[k].global>> \in Cells
              /\ Pool[k].type = "expose" =>
                   /\ Pool[k].imported \in BOOLEAN /\ Pool[k].procedure \in Entries
                   /\ Pool[Pool[k].procedure].type = "proc"
                   /\ Pool[Pool[k].procedure].module = Pool[k].module
                   /\ Pool[Pool[k].procedure].defined = ~ Pool[k].imported
              /\ Pool[k].type = "proc" /\ ~ Pool[k].defined =>
                   \E x \in Entries : Pool[x].type = "expose" /\ Pool[x].procedure = k
<1> SUFFICES ASSUME IsProgram(program) PROVE ProgramFacts!2
  BY LinkAssumption
<1>1. \A k \in Entries : IsEntry(program, Pool[k])
  BY DEF IsProgram, Pool, Entries
<1>. QED
  BY <1>1, LinkAssumption DEF IsProgram, IsEntry, Pool, Entries, Cells, Shares

(* A register is exposed once, an index names one register of a module,    *)
(* and a procedure is exposed or declared under one index.                 *)
LEMMA Apart ==
  ASSUME program \in Programs, NEW j \in Entries, NEW k \in Entries
  PROVE  /\ Shares(j) /\ Shares(k) /\ Pool[j].module = Pool[k].module
              /\ (Pool[j].index = Pool[k].index \/ Pool[j].global = Pool[k].global) => j = k
         /\ Pool[j].type = "expose" /\ Pool[k].type = "expose" /\ Pool[j].procedure = Pool[k].procedure =>
              j = k
BY LinkAssumption DEF IsProgram, ExposedApart, Pool, Entries, Shares

LEMMA CellFacts ==
  /\ \A c \in Cells : c[1] \in Modules /\ c[2] \in Registers(c[1]) /\ c = <<c[1], c[2]>>
  /\ \A m, g : <<m, g>> \in Cells <=> m \in Modules /\ g \in Registers(m)
BY DEF Cells, CellsOf, Registers

-----------------------------------------------------------------------------
(* The first pass                                                          *)

LEMMA BuildStepFacts ==
  ASSUME IInv, BuildStep
  PROVE  /\ phase = "symbols" /\ at \in Entries /\ phase' \in {"symbols", "resolve"}
         /\ Position' /\ program' = program /\ freed' = freed
         /\ \A k \in Entries : Built(k)' <=> Built(k) \/ k = at
         /\ ~ Built(at)
         /\ \A k : ~ Resolved(k)'
         /\ \A m : ~ Allocated(m) /\ ~ Allocated(m)' /\ ~ Freed(m) /\ ~ Freed(m)'
<1>1. /\ phase = "symbols" /\ at \in 1 .. Len(Pool) /\ Len(Pool) \in Nat \ {0}
      /\ program' = program /\ freed' = freed
      /\ program \in Programs
  BY ProgramFacts DEF IInv, Position, BuildStep, Entries
<1>2. \/ at < Len(Pool) /\ phase' = "symbols" /\ at' = at + 1
      \/ at = Len(Pool) /\ phase' = "resolve" /\ at' = 1
  BY <1>1 DEF BuildStep, Step, Goto
<1>3. Pool' = Pool /\ Entries' = Entries
  BY <1>1 DEF Pool, Entries
<1>4. Position'
  BY <1>1, <1>2, <1>3 DEF Position, Entries
<1>5. \A k \in Entries : Built(k)' <=> Built(k) \/ k = at
  BY <1>1, <1>2, <1>3 DEF Built, Entries
<1>. QED
  BY <1>1, <1>2, <1>3, <1>4, <1>5 DEF Built, Resolved, Allocated, Freed, Entries

(* What does not change as long as the program is the same.                *)
LEMMA SameProgram ==
  ASSUME program' = program
  PROVE  /\ Pool' = Pool /\ Entries' = Entries /\ Cells' = Cells
         /\ \A m : Registers(m)' = Registers(m)
         /\ \A k : Exposes(k)' = Exposes(k) /\ Shares(k)' = Shares(k) /\ Imports(k)' = Imports(k)
         /\ \A k : Linked(k)' = Linked(k)
         /\ \A x : Exports(x)' = Exports(x)
         /\ Linkable' = Linkable
BY DEF Pool, Entries, Cells, CellsOf, Registers, Exposes, Shares, Imports, Linked, Exports, Linkable

LEMMA BuildProcSafe == IInv /\ BuildProc => IInv'
<1> SUFFICES ASSUME IInv, BuildProc PROVE IInv'
  OBVIOUS
<1>1. BuildStep /\ Pool[at].type = "proc" /\ globals' = globals
      /\ exposed_reg' = exposed_reg /\ exposed_proc' = exposed_proc
  BY DEF BuildProc
<1>2. /\ phase = "symbols" /\ at \in Entries /\ phase' \in {"symbols", "resolve"}
      /\ Position' /\ program' = program /\ freed' = freed
      /\ \A k \in Entries : Built(k)' <=> Built(k) \/ k = at
      /\ ~ Built(at)
      /\ \A k : ~ Resolved(k)'
      /\ \A m : ~ Allocated(m) /\ ~ Allocated(m)' /\ ~ Freed(m) /\ ~ Freed(m)'
  BY <1>1, BuildStepFacts
<1>3. /\ Shape /\ ProcedureTree /\ RegisterTree /\ PrivateCells /\ CodeEntries /\ FreedCells
      /\ program \in Programs
  BY <1>2 DEF IInv, Position
<1> USE <1>1, <1>2, <1>3
<1>a. /\ Pool' = Pool /\ Entries' = Entries /\ Cells' = Cells
      /\ \A m : Registers(m)' = Registers(m)
      /\ \A k : Exposes(k)' = Exposes(k) /\ Shares(k)' = Shares(k) /\ Imports(k)' = Imports(k)
  BY SameProgram
<1>4. /\ at \in DOMAIN entry /\ DOMAIN entry' = DOMAIN entry
      /\ \A k \in DOMAIN entry : k # at => entry'[k] = entry[k]
      /\ Pool[at].defined => entry'[at] = [entry[at] EXCEPT !.module = Pool[at].module]
  BY DEF BuildProc, Shape
<1>5. Shape'
  BY <1>4, <1>a DEF Shape
<1>6. ProcedureTree' /\ RegisterTree'
  BY <1>a DEF ProcedureTree, RegisterTree, Exposes, Shares
<1>7. PrivateCells'
  BY <1>a DEF PrivateCells, Private, Shares
<1>8. CodeEntries'
  <2> SUFFICES ASSUME NEW k \in DOMAIN entry, Pool[k].defined
               PROVE  entry'[k] = [start |-> k, locals |-> k,
                                   module |-> IF Built(k)' THEN Pool[k].module ELSE NONE]
    BY <1>4, <1>a DEF CodeEntries
  <2>1. k \in Entries /\ entry[k] = [start |-> k, locals |-> k,
                                     module |-> IF Built(k) THEN Pool[k].module ELSE NONE]
    BY DEF CodeEntries, Shape
  <2>. QED
    BY <2>1, <1>4
<1>9. ImportEntries'
  BY DEF ImportEntries
<1>10. FreedCells'
  BY <1>a DEF FreedCells
<1>. QED
  BY <1>5, <1>6, <1>7, <1>8, <1>9, <1>10 DEF IInv

LEMMA BuildRegSafe == IInv /\ BuildReg => IInv'
<1> SUFFICES ASSUME IInv, BuildReg PROVE IInv'
  OBVIOUS
<1> DEFINE m == Pool[at].module
           g == Pool[at].global
           x == Pool[at].index
<1>1. BuildStep /\ Shares(at) /\ entry' = entry /\ exposed_proc' = exposed_proc
  BY DEF BuildReg, Shares
<1>2. /\ phase = "symbols" /\ at \in Entries /\ phase' \in {"symbols", "resolve"}
      /\ Position' /\ program' = program /\ freed' = freed
      /\ \A k \in Entries : Built(k)' <=> Built(k) \/ k = at
      /\ ~ Built(at)
      /\ \A k : ~ Resolved(k)'
      /\ \A n : ~ Allocated(n) /\ ~ Allocated(n)' /\ ~ Freed(n) /\ ~ Freed(n)'
  BY <1>1, BuildStepFacts
<1>3. /\ Shape /\ ProcedureTree /\ RegisterTree /\ PrivateCells /\ CodeEntries /\ FreedCells
      /\ program \in Programs
  BY <1>2 DEF IInv, Position
<1>a. /\ Pool' = Pool /\ Entries' = Entries /\ Cells' = Cells
      /\ \A n : Registers(n)' = Registers(n)
      /\ \A k : Exposes(k)' = Exposes(k) /\ Shares(k)' = Shares(k) /\ Imports(k)' = Imports(k)
  BY <1>2, SameProgram
<1>4. m \in Modules /\ g \in Registers(m) /\ <<m, g>> \in Cells
  BY <1>1, <1>2, <1>3, ProgramFacts, CellFacts
<1> DEFINE cell == IF x \in DOMAIN exposed_reg THEN exposed_reg[x] ELSE <<m, g>>
<1>5. /\ globals' = [globals EXCEPT ![m][g] = cell]
      /\ exposed_reg' = IF x \in DOMAIN exposed_reg THEN exposed_reg ELSE Extend(exposed_reg, x, cell)
      /\ cell \in Cells
  BY <1>3, <1>4 DEF BuildReg, Shape
<1>6. /\ DOMAIN globals' = Modules /\ globals'[m][g] = cell
      /\ \A n \in Modules : globals'[n] \in [Registers(n) -> Cells \cup {NONE}]
      /\ \A n \in Modules : \A h \in Registers(n) :
           <<n, h>> # <<m, g>> => globals'[n][h] = globals[n][h]
  BY <1>3, <1>4, <1>5 DEF Shape
<1>7. /\ x \in DOMAIN exposed_reg' /\ exposed_reg'[x] = cell
      /\ \A y : y \in DOMAIN exposed_reg => y \in DOMAIN exposed_reg' /\ exposed_reg'[y] = exposed_reg[y]
      /\ \A y \in DOMAIN exposed_reg' : y \in DOMAIN exposed_reg \/ (y = x /\ cell = <<m, g>>)
  BY <1>5 DEF Extend
<1> HIDE DEF cell
<1>8. Shape'
  <2>1. \A y \in DOMAIN exposed_reg' : exposed_reg'[y] \in Cells
    BY <1>3, <1>5, <1>7 DEF Shape
  <2>. QED
    BY <1>1, <1>2, <1>3, <1>6, <1>a, <2>1 DEF Shape
<1>9. ProcedureTree'
  BY <1>1, <1>2, <1>3, <1>a DEF ProcedureTree, Exposes, Shares
<1>10. RegisterTree'
  <2>1. ASSUME NEW k \in Entries, Built(k)', Shares(k)
        PROVE  /\ Pool[k].index \in DOMAIN exposed_reg'
               /\ globals'[Pool[k].module][Pool[k].global] = exposed_reg'[Pool[k].index]
    <3>1. CASE k = at
      BY <3>1, <1>6, <1>7
    <3>2. CASE k # at
      <4>1. /\ Pool[k].index \in DOMAIN exposed_reg
            /\ globals[Pool[k].module][Pool[k].global] = exposed_reg[Pool[k].index]
        BY <3>2, <2>1, <1>2, <1>3 DEF RegisterTree
      <4>2. <<Pool[k].module, Pool[k].global>> # <<m, g>>
        BY <3>2, <2>1, <1>1, <1>2, <1>3, Apart
      <4>3. Pool[k].module \in Modules /\ Pool[k].global \in Registers(Pool[k].module)
        BY <2>1, <1>3, ProgramFacts, CellFacts
      <4>. QED
        BY <4>1, <4>2, <4>3, <1>6, <1>7
    <3>. QED
      BY <3>1, <3>2
  <2>2. ASSUME NEW y \in DOMAIN exposed_reg'
        PROVE  \E k \in Entries :
                 /\ Built(k)' /\ Shares(k) /\ Pool[k].index = y
                 /\ exposed_reg'[y] = <<Pool[k].module, Pool[k].global>>
    <3>1. CASE y \in DOMAIN exposed_reg
      BY <3>1, <1>2, <1>3, <1>7 DEF RegisterTree
    <3>2. CASE y = x /\ cell = <<m, g>>
      BY <3>2, <1>1, <1>2, <1>7
    <3>. QED
      BY <3>1, <3>2, <1>7
  <2>. QED
    BY <2>1, <2>2, <1>a DEF RegisterTree
<1>11. PrivateCells'
  <2> SUFFICES ASSUME NEW n \in Modules, NEW h \in Registers(n), Private(n, h)'
               PROVE  globals'[n][h] = NONE
    BY <1>2, <1>a DEF PrivateCells
  <2>1. <<m, g>> # <<n, h>> /\ Private(n, h)
    BY <1>1, <1>2, <1>a DEF Private
  <2>. QED
    BY <2>1, <1>2, <1>3, <1>6 DEF PrivateCells
<1>12. CodeEntries'
  <2> SUFFICES ASSUME NEW k \in DOMAIN entry, Pool[k].defined
               PROVE  Built(k)' <=> Built(k)
    BY <1>1, <1>3, <1>a DEF CodeEntries
  <2>. QED
    BY <1>1, <1>2, <1>3 DEF Shape, Shares
<1>13. ImportEntries' /\ FreedCells'
  BY <1>2, <1>3, <1>a DEF ImportEntries, FreedCells
<1>. QED
  BY <1>2, <1>8, <1>9, <1>10, <1>11, <1>12, <1>13 DEF IInv

LEMMA BuildExposeSafe == IInv /\ BuildExpose => IInv'
<1> SUFFICES ASSUME IInv, BuildExpose PROVE IInv'
  OBVIOUS
<1> DEFINE x == Pool[at].index
<1>1. /\ BuildStep /\ Pool[at].type = "expose" /\ entry' = entry
      /\ exposed_reg' = exposed_reg /\ globals' = globals
      /\ Exposes(at) => x \notin DOMAIN exposed_proc
      /\ exposed_proc' = IF Exposes(at) THEN Extend(exposed_proc, x, Pool[at].procedure) ELSE exposed_proc
  BY DEF BuildExpose, Exposes
<1>2. /\ phase = "symbols" /\ at \in Entries /\ phase' \in {"symbols", "resolve"}
      /\ Position' /\ program' = program /\ freed' = freed
      /\ \A k \in Entries : Built(k)' <=> Built(k) \/ k = at
      /\ ~ Built(at)
      /\ \A k : ~ Resolved(k)'
      /\ \A n : ~ Allocated(n) /\ ~ Allocated(n)' /\ ~ Freed(n) /\ ~ Freed(n)'
  BY <1>1, BuildStepFacts
<1>3. /\ Shape /\ ProcedureTree /\ RegisterTree /\ PrivateCells /\ CodeEntries /\ FreedCells
      /\ program \in Programs
  BY <1>2 DEF IInv, Position
<1>a. /\ Pool' = Pool /\ Entries' = Entries /\ Cells' = Cells
      /\ \A n : Registers(n)' = Registers(n)
      /\ \A k : Exposes(k)' = Exposes(k) /\ Shares(k)' = Shares(k) /\ Imports(k)' = Imports(k)
  BY <1>2, SameProgram
<1>4. /\ \A y \in DOMAIN exposed_proc : y \in DOMAIN exposed_proc' /\ exposed_proc'[y] = exposed_proc[y]
      /\ \A y \in DOMAIN exposed_proc' : y \in DOMAIN exposed_proc \/ (y = x /\ Exposes(at))
      /\ Exposes(at) => x \in DOMAIN exposed_proc' /\ exposed_proc'[x] = Pool[at].procedure
  BY <1>1 DEF Extend
<1>5. Pool[at].procedure \in DOMAIN entry
  <2>1. Pool[at].procedure \in Entries /\ Pool[Pool[at].procedure].type = "proc"
    BY <1>1, <1>2, <1>3, ProgramFacts
  <2>. QED
    BY <2>1, <1>3 DEF Shape
<1>6. Shape'
  BY <1>1, <1>2, <1>3, <1>a, <1>4, <1>5 DEF Shape
<1>7. ProcedureTree'
  <2>1. ASSUME NEW k \in Entries, Built(k)', Exposes(k)
        PROVE  /\ Pool[k].index \in DOMAIN exposed_proc'
               /\ exposed_proc'[Pool[k].index] = Pool[k].procedure
    <3>1. CASE k = at
      BY <3>1, <2>1, <1>4
    <3>2. CASE k # at
      BY <3>2, <2>1, <1>2, <1>3, <1>4 DEF ProcedureTree
    <3>. QED
      BY <3>1, <3>2
  <2>2. ASSUME NEW j \in Entries, NEW k \in Entries, Built(j)', Built(k)', Exposes(j), Exposes(k),
               Pool[j].index = Pool[k].index
        PROVE  j = k
    <3>1. \A i \in Entries : Built(i) /\ Exposes(i) => Pool[i].index \in DOMAIN exposed_proc
      BY <1>3 DEF ProcedureTree
    <3>. QED
      BY <3>1, <2>2, <1>1, <1>2, <1>3 DEF ProcedureTree
  <2>3. ASSUME NEW y \in DOMAIN exposed_proc'
        PROVE  \E k \in Entries : Built(k)' /\ Exposes(k) /\ Pool[k].index = y
    BY <1>2, <1>3, <1>4 DEF ProcedureTree
  <2>. QED
    BY <2>1, <2>2, <2>3, <1>a DEF ProcedureTree
<1>8. RegisterTree' /\ PrivateCells'
  <2>1. \A k \in Entries : Shares(k) => (Built(k)' <=> Built(k))
    BY <1>1, <1>2 DEF Shares
  <2>. QED
    BY <2>1, <1>1, <1>2, <1>3, <1>a DEF RegisterTree, PrivateCells, Private
<1>9. CodeEntries'
  <2> SUFFICES ASSUME NEW k \in DOMAIN entry, Pool[k].defined
               PROVE  Built(k)' <=> Built(k)
    BY <1>1, <1>3, <1>a DEF CodeEntries
  <2>. QED
    BY <1>1, <1>2, <1>3 DEF Shape
<1>10. ImportEntries' /\ FreedCells'
  BY <1>1, <1>2, <1>3, <1>a DEF ImportEntries, FreedCells, Used
<1>. QED
  BY <1>2, <1>6, <1>7, <1>8, <1>9, <1>10 DEF IInv

(* An error ends the linker; nothing has been freed.                       *)
LEMMA RejectSafe ==
  ASSUME IInv, Reject, phase \in {"symbols", "resolve"}, ~ Linkable
  PROVE  IInv'
<1>1. /\ Position /\ Shape /\ FreedCells /\ phase' = "rejected" /\ at' = 1
      /\ UNCHANGED <<program, exposed_reg, exposed_proc, entry, globals, freed>>
  BY DEF IInv, Reject, Goto
<1>2. /\ Pool' = Pool /\ Entries' = Entries /\ Cells' = Cells
      /\ \A n : Registers(n)' = Registers(n)
      /\ Linkable' = Linkable
  BY <1>1, SameProgram
<1>3. Position' /\ Shape'
  BY <1>1, <1>2 DEF Position, Shape
<1>4. FreedCells'
  BY <1>1, <1>2 DEF FreedCells, Freed
<1>. QED
  BY <1>1, <1>2, <1>3, <1>4 DEF IInv

(* Two entries expose the index that is reported as a duplicate.           *)
LEMMA DuplicateSymbolSafe == IInv /\ DuplicateSymbol => IInv'
<1> SUFFICES ASSUME IInv, DuplicateSymbol PROVE IInv'
  OBVIOUS
<1>1. /\ phase = "symbols" /\ Exposes(at) /\ Pool[at].index \in DOMAIN exposed_proc /\ Reject
      /\ at \in Entries /\ ProcedureTree
  BY DEF DuplicateSymbol, Exposes, IInv, Position
<1>2. PICK k \in Entries : k # at /\ Exposes(k) /\ Pool[k].index = Pool[at].index
  BY <1>1 DEF ProcedureTree, Built, Entries
<1>3. ~ Linkable
  <2>1. {at, k} \subseteq Exports(Pool[at].index)
    BY <1>1, <1>2 DEF Exports, Exposes, Entries
  <2>. QED
    BY <2>1, <1>1, <1>2 DEF Linkable, Exposes, Entries
<1>. QED
  BY <1>1, <1>3, RejectSafe

-----------------------------------------------------------------------------
(* The second pass                                                         *)

LEMMA ResolveStepFacts ==
  ASSUME IInv, phase = "resolve", Step("resolve", "allocate"), program' = program
  PROVE  /\ at \in Entries /\ phase' \in {"resolve", "allocate"} /\ Position'
         /\ \A k \in Entries : Built(k) /\ Built(k)'
         /\ \A k \in Entries : Resolved(k)' <=> Resolved(k) \/ k = at
         /\ ~ Resolved(at)
         /\ \A m \in Modules : ~ Allocated(m) /\ ~ Allocated(m)' /\ ~ Freed(m) /\ ~ Freed(m)'
<1>1. /\ at \in 1 .. Len(Pool) /\ Len(Pool) \in Nat \ {0} /\ program \in Programs
      /\ NumModules \in Nat \ {0}
  BY ProgramFacts DEF IInv, Position, Entries
<1>2. \/ at < Len(Pool) /\ phase' = "resolve" /\ at' = at + 1
      \/ at = Len(Pool) /\ phase' = "allocate" /\ at' = 1
  BY <1>1 DEF Step, Goto
<1>3. Pool' = Pool /\ Entries' = Entries
  BY DEF Pool, Entries
<1>4. Position'
  BY <1>1, <1>2, <1>3 DEF Position, Entries, Modules
<1>5. \A k \in Entries : Resolved(k)' <=> Resolved(k) \/ k = at
  BY <1>1, <1>2, <1>3 DEF Resolved, Entries
<1>. QED
  BY <1>1, <1>2, <1>3, <1>4, <1>5 DEF Built, Resolved, Allocated, Freed, Entries, Modules

LEMMA ResolveSafe == IInv /\ Resolve => IInv'
<1> SUFFICES ASSUME IInv, Resolve PROVE IInv'
  OBVIOUS
<1>1. /\ phase = "resolve" /\ Step("resolve", "allocate")
      /\ UNCHANGED <<program, exposed_reg, exposed_proc, globals, freed>>
      /\ Imports(at) => Pool[at].index \in DOMAIN exposed_proc
      /\ entry' = IF Imports(at)
                    THEN [entry EXCEPT ![Pool[at].procedure] = entry[exposed_proc[Pool[at].index]]]
                    ELSE entry
  BY DEF Resolve
<1>2. /\ at \in Entries /\ phase' \in {"resolve", "allocate"} /\ Position'
      /\ \A k \in Entries : Built(k) /\ Built(k)'
      /\ \A k \in Entries : Resolved(k)' <=> Resolved(k) \/ k = at
      /\ ~ Resolved(at)
      /\ \A m \in Modules : ~ Allocated(m) /\ ~ Allocated(m)' /\ ~ Freed(m) /\ ~ Freed(m)'
  BY <1>1, ResolveStepFacts
<1>3. /\ Shape /\ ProcedureTree /\ RegisterTree /\ PrivateCells /\ CodeEntries /\ ImportEntries
      /\ FreedCells /\ program \in Programs
  BY <1>1 DEF IInv, Position
<1>a. /\ Pool' = Pool /\ Entries' = Entries /\ Cells' = Cells
      /\ \A n : Registers(n)' = Registers(n)
      /\ \A k : Exposes(k)' = Exposes(k) /\ Shares(k)' = Shares(k) /\ Imports(k)' = Imports(k)
      /\ \A k : Linked(k)' = Linked(k)
  BY <1>1, SameProgram
<1>4. Shape' /\ ProcedureTree' /\ RegisterTree' /\ PrivateCells'
  <2>1. DOMAIN entry' = DOMAIN entry
    BY <1>1
  <2>. QED
    BY <2>1, <1>1, <1>2, <1>3, <1>a DEF Shape, ProcedureTree, RegisterTree, PrivateCells, Private
(* A procedure that some index exposes has code.                           *)
<1>5. \A x \in DOMAIN exposed_proc : entry[exposed_proc[x]] = Linked(exposed_proc[x])
  <2> SUFFICES ASSUME NEW x \in DOMAIN exposed_proc
               PROVE  entry[exposed_proc[x]] = Linked(exposed_proc[x])
    OBVIOUS
  <2>1. PICK k \in Entries : Exposes(k) /\ exposed_proc[x] = Pool[k].procedure
    BY <1>2, <1>3 DEF ProcedureTree
  <2>2. /\ Pool[k].procedure \in Entries /\ Pool[Pool[k].procedure].defined
        /\ Pool[k].procedure \in DOMAIN entry
    BY <2>1, <1>3, ProgramFacts DEF Exposes, Shape
  <2>. QED
    BY <2>1, <2>2, <1>2, <1>3 DEF CodeEntries, Linked
<1>6. ASSUME Imports(at)
      PROVE  /\ Pool[at].procedure \in DOMAIN entry /\ ~ Pool[Pool[at].procedure].defined
             /\ entry'[Pool[at].procedure] = Linked(exposed_proc[Pool[at].index])
             /\ \A k \in DOMAIN entry : k # Pool[at].procedure => entry'[k] = entry[k]
  <2>1. Pool[at].procedure \in DOMAIN entry /\ ~ Pool[Pool[at].procedure].defined
    BY <1>2, <1>3, <1>6, ProgramFacts DEF Imports, Shape
  <2>. QED
    BY <2>1, <1>1, <1>5, <1>6
<1>7. CodeEntries'
  <2> SUFFICES ASSUME NEW k \in DOMAIN entry, Pool[k].defined
               PROVE  entry'[k] = entry[k] /\ (Built(k)' <=> Built(k))
    BY <1>1, <1>3, <1>a DEF CodeEntries
  <2>. QED
    BY <1>1, <1>2, <1>3, <1>6 DEF Shape
<1>8. ImportEntries'
  <2> SUFFICES ASSUME NEW k \in Entries, Resolved(k)', Imports(k)
               PROVE  /\ Pool[k].index \in DOMAIN exposed_proc
                      /\ entry'[Pool[k].procedure] = Linked(exposed_proc[Pool[k].index])
    BY <1>1, <1>a DEF ImportEntries
  <2>1. CASE k = at
    BY <2>1, <1>1, <1>6
  <2>2. CASE k # at
    <3>1. /\ Pool[k].index \in DOMAIN exposed_proc
          /\ entry[Pool[k].procedure] = Linked(exposed_proc[Pool[k].index])
      BY <2>2, <1>2, <1>3 DEF ImportEntries
    <3>2. Imports(at) => Pool[k].procedure # Pool[at].procedure
      BY <2>2, <1>2, <1>3, Apart DEF Imports
    <3>3. Pool[k].procedure \in DOMAIN entry
      <4>1. Pool[k].procedure \in Entries /\ Pool[Pool[k].procedure].type = "proc"
        BY <1>3, ProgramFacts DEF Imports
      <4>. QED
        BY <4>1, <1>3 DEF Shape
    <3>. QED
      BY <3>1, <3>2, <3>3, <1>1, <1>6
  <2>. QED
    BY <2>1, <2>2
<1>9. FreedCells'
  <2>1. \A c \in Cells : ~ Freed(Owner(c)) /\ ~ Freed(Owner(c))'
    BY <1>2, <1>3, CellFacts DEF Owner
  <2>. QED
    BY <2>1, <1>1, <1>3, <1>a DEF FreedCells, Owner
<1>. QED
  BY <1>2, <1>4, <1>7, <1>8, <1>9 DEF IInv

(* No entry exposes the index that is reported as unimplemented.           *)
LEMMA UnimplementedSafe == IInv /\ Unimplemented => IInv'
<1> SUFFICES ASSUME IInv, Unimplemented PROVE IInv'
  OBVIOUS
<1>1. /\ phase = "resolve" /\ Imports(at) /\ Pool[at].index \notin DOMAIN exposed_proc /\ Reject
      /\ at \in Entries /\ ProcedureTree
  BY DEF Unimplemented, IInv, Position
<1>2. Exports(Pool[at].index) = {}
  BY <1>1 DEF ProcedureTree, Built, Exposes, Exports, Entries
<1>3. ~ Linkable
  BY <1>1, <1>2 DEF Linkable, Imports, Entries
<1>. QED
  BY <1>1, <1>3, RejectSafe

-----------------------------------------------------------------------------
(* Globals                                                                 *)

(* What the passes over the modules leave as it is.                        *)
LEMMA Afterwards ==
  ASSUME IInv, phase \in {"allocate", "run", "free"}, phase' \in {"allocate", "run", "free", "done"},
         UNCHANGED <<program, exposed_reg, exposed_proc, entry>>
  PROVE  /\ Pool' = Pool /\ Entries' = Entries /\ Cells' = Cells /\ Modules' = Modules
         /\ \A m : Registers(m)' = Registers(m)
         /\ \A k : Shares(k)' = Shares(k)
         /\ \A k \in Entries : Built(k) /\ Built(k)'
         /\ ProcedureTree' /\ CodeEntries' /\ ImportEntries'
<1>1. phase # "rejected" /\ ProcedureTree /\ CodeEntries /\ ImportEntries /\ Shape
  BY DEF IInv
<1>2. /\ Pool' = Pool /\ Entries' = Entries /\ Cells' = Cells
      /\ \A m : Registers(m)' = Registers(m)
      /\ \A k : Exposes(k)' = Exposes(k) /\ Shares(k)' = Shares(k) /\ Imports(k)' = Imports(k)
      /\ \A k : Linked(k)' = Linked(k)
  BY SameProgram
<1>3. \A k \in Entries : Built(k) /\ Built(k)' /\ Resolved(k) /\ Resolved(k)'
  BY <1>2 DEF Built, Resolved
<1>4. ProcedureTree' /\ ImportEntries'
  BY <1>1, <1>2, <1>3 DEF ProcedureTree, ImportEntries
<1>5. CodeEntries'
  BY <1>1, <1>2, <1>3 DEF CodeEntries, Shape
<1>. QED
  BY <1>2, <1>3, <1>4, <1>5 DEF Modules

LEMMA AllocateGlobalsSafe == IInv /\ AllocateGlobals => IInv'
<1> SUFFICES ASSUME IInv, AllocateGlobals PROVE IInv'
  OBVIOUS
<1>1. /\ phase = "allocate" /\ at \in Modules /\ program \in Programs
      /\ NumModules \in Nat \ {0} /\ NONE \notin Cells
      /\ UNCHANGED <<program, exposed_reg, exposed_proc, entry, freed>>
  BY ProgramFacts DEF AllocateGlobals, IInv, Position
<1>2. \/ at < NumModules /\ phase' = "allocate" /\ at' = at + 1
      \/ at = NumModules /\ phase' = "run" /\ at' = 1
  BY <1>1 DEF AllocateGlobals, Goto, Modules
<1>3. /\ Pool' = Pool /\ Entries' = Entries /\ Cells' = Cells /\ Modules' = Modules
      /\ \A m : Registers(m)' = Registers(m)
      /\ \A k : Shares(k)' = Shares(k)
      /\ \A k \in Entries : Built(k) /\ Built(k)'
      /\ ProcedureTree' /\ CodeEntries' /\ ImportEntries'
  BY <1>1, <1>2, Afterwards
<1>4. Shape /\ RegisterTree /\ PrivateCells /\ FreedCells
  BY <1>1 DEF IInv
<1>5. Position'
  BY <1>1, <1>2, <1>3 DEF Position, Modules
<1>6. \A m \in Modules : Allocated(m)' <=> Allocated(m) \/ m = at
  BY <1>1, <1>2 DEF Allocated, Modules
<1>7. /\ DOMAIN globals' = Modules
      /\ globals'[at] = [g \in Registers(at) |-> IF globals[at][g] = NONE THEN <<at, g>> ELSE globals[at][g]]
      /\ \A m \in Modules \ {at} : globals'[m] = globals[m]
  BY <1>1, <1>4 DEF AllocateGlobals, Shape
<1>8. Shape'
  <2>1. globals'[at] \in [Registers(at) -> Cells \cup {NONE}]
    BY <1>1, <1>4, <1>7, CellFacts DEF Shape
  <2>. QED
    BY <2>1, <1>1, <1>3, <1>4, <1>7 DEF Shape
(* A register that is exposed has its cell already.                        *)
<1>9. RegisterTree'
  <2>1. ASSUME NEW k \in Entries, Shares(k)
        PROVE  globals'[Pool[k].module][Pool[k].global] = globals[Pool[k].module][Pool[k].global]
    <3>1. /\ Pool[k].module \in Modules /\ Pool[k].global \in Registers(Pool[k].module)
      BY <2>1, <1>1, ProgramFacts, CellFacts
    <3>2. globals[Pool[k].module][Pool[k].global] \in Cells
      BY <2>1, <1>3, <1>4 DEF RegisterTree, Shape
    <3>. QED
      BY <3>1, <3>2, <1>1, <1>7
  <2>. QED
    BY <2>1, <1>1, <1>3, <1>4 DEF RegisterTree
<1>10. PrivateCells'
  <2> SUFFICES ASSUME NEW m \in Modules, NEW g \in Registers(m), Private(m, g)'
               PROVE  globals'[m][g] = IF Allocated(m)' THEN <<m, g>> ELSE NONE
    BY <1>3 DEF PrivateCells
  <2>1. globals[m][g] = IF Allocated(m) THEN <<m, g>> ELSE NONE
    BY <1>3, <1>4 DEF PrivateCells, Private
  <2>2. ~ Allocated(at)
    BY <1>1 DEF Allocated, Modules
  <2>. QED
    BY <2>1, <2>2, <1>6, <1>7
<1>11. FreedCells'
  <2>1. \A c \in Cells : ~ Freed(Owner(c)) /\ ~ Freed(Owner(c))'
    BY <1>1, <1>2 DEF Freed
  <2>. QED
    BY <2>1, <1>1, <1>3, <1>4 DEF FreedCells, Owner
<1>. QED
  BY <1>2, <1>3, <1>5, <1>8, <1>9, <1>10, <1>11 DEF IInv

LEMMA FinishSafe == IInv /\ Finish => IInv'
<1> SUFFICES ASSUME IInv, Finish PROVE IInv'
  OBVIOUS
<1>1. /\ phase = "run" /\ phase' = "free" /\ at' = 1 /\ program \in Programs
      /\ NumModules \in Nat \ {0}
      /\ UNCHANGED <<program, exposed_reg, exposed_proc, entry, globals, freed>>
  BY ProgramFacts DEF Finish, Goto, IInv, Position
<1>3. /\ Pool' = Pool /\ Entries' = Entries /\ Cells' = Cells /\ Modules' = Modules
      /\ \A m : Registers(m)' = Registers(m)
      /\ \A k : Shares(k)' = Shares(k)
      /\ \A k \in Entries : Built(k) /\ Built(k)'
      /\ ProcedureTree' /\ CodeEntries' /\ ImportEntries'
  BY <1>1, Afterwards
<1>4. Shape /\ RegisterTree /\ PrivateCells /\ FreedCells
  BY <1>1 DEF IInv
<1>5. Position' /\ Shape' /\ RegisterTree'
  BY <1>1, <1>3, <1>4 DEF Position, Shape, RegisterTree, Modules
<1>6. PrivateCells'
  BY <1>1, <1>3, <1>4 DEF PrivateCells, Private, Allocated
<1>7. FreedCells'
  <2>1. \A c \in Cells : ~ Freed(Owner(c)) /\ ~ Freed(Owner(c))'
    BY <1>1, CellFacts DEF Freed, Owner, Modules
  <2>. QED
    BY <2>1, <1>1, <1>3, <1>4 DEF FreedCells, Owner
<1>. QED
  BY <1>1, <1>3, <1>5, <1>6, <1>7 DEF IInv

(* Once the program runs, a cell that is used is denoted by the register   *)
(* it is named after, and by no other of that module.                      *)
LEMMA OwnRegister ==
  ASSUME IInv, phase \in {"run", "free", "done"}
  PROVE  /\ \A c \in Used : c \in Cells /\ globals[c[1]][c[2]] = c
         /\ \A m \in Modules : \A g, h \in Registers(m) : globals[m][g] = <<m, h>> => g = h
<1>1. /\ program \in Programs /\ Shape /\ RegisterTree /\ PrivateCells
      /\ \A k \in Entries : Built(k)
      /\ \A m : Allocated(m)
  BY DEF IInv, Position, Built, Allocated
<1>2. \A k \in Entries : Shares(k) => Pool[k].module \in Modules /\ Pool[k].global \in Registers(Pool[k].module)
  BY <1>1, ProgramFacts, CellFacts
<1>3. ASSUME NEW m \in Modules, NEW g \in Registers(m)
      PROVE  LET c == globals[m][g] IN
             /\ c \in Cells /\ globals[c[1]][c[2]] = c
             /\ \A h \in Registers(m) : c = <<m, h>> => g = h
  <2>1. CASE Private(m, g)
    <3>1. globals[m][g] = <<m, g>>
      BY <2>1, <1>1, <1>3 DEF PrivateCells
    <3>. QED
      BY <3>1, <1>3, CellFacts
  <2>2. CASE ~ Private(m, g)
    <3>1. PICK k \in Entries : Shares(k) /\ Pool[k].module = m /\ Pool[k].global = g
      BY <2>2 DEF Private
    <3>2. Pool[k].index \in DOMAIN exposed_reg /\ globals[m][g] = exposed_reg[Pool[k].index]
      BY <3>1, <1>1 DEF RegisterTree
    <3>3. PICK j \in Entries :
            /\ Shares(j) /\ Pool[j].index = Pool[k].index
            /\ exposed_reg[Pool[k].index] = <<Pool[j].module, Pool[j].global>>
      BY <3>2, <1>1 DEF RegisterTree
    <3>4. globals[Pool[j].module][Pool[j].global] = exposed_reg[Pool[k].index]
      BY <3>3, <1>1 DEF RegisterTree
    <3>5. ASSUME NEW h \in Registers(m), globals[m][g] = <<m, h>>
          PROVE  g = h
      <4>1. Pool[j].module = m /\ Pool[j].global = h
        BY <3>2, <3>3, <3>5
      <4>. QED
        BY <4>1, <3>1, <3>3, <1>1, Apart
    <3>6. globals[m][g] \in Cells
      BY <3>2, <1>1 DEF Shape
    <3>. QED
      BY <3>2, <3>3, <3>4, <3>5, <3>6
  <2>. QED
    BY <2>1, <2>2
<1>. QED
  BY <1>3 DEF Used

LEMMA FreeGlobalsSafe == IInv /\ FreeGlobals => IInv'
<1> SUFFICES ASSUME IInv, FreeGlobals PROVE IInv'
  OBVIOUS
<1>1. /\ phase = "free" /\ at \in Modules /\ program \in Programs /\ NumModules \in Nat \ {0}
      /\ UNCHANGED <<program, exposed_reg, exposed_proc, entry, globals>>
  BY ProgramFacts DEF FreeGlobals, IInv, Position
<1>2. \/ at < NumModules /\ phase' = "free" /\ at' = at + 1
      \/ at = NumModules /\ phase' = "done" /\ at' = 1
  BY <1>1 DEF FreeGlobals, Goto, Modules
<1>3. /\ Pool' = Pool /\ Entries' = Entries /\ Cells' = Cells /\ Modules' = Modules
      /\ \A m : Registers(m)' = Registers(m)
      /\ \A k : Shares(k)' = Shares(k)
      /\ \A k \in Entries : Built(k) /\ Built(k)'
      /\ ProcedureTree' /\ CodeEntries' /\ ImportEntries'
  BY <1>1, <1>2, Afterwards
<1>4. Shape /\ RegisterTree /\ PrivateCells /\ FreedCells
  BY <1>1 DEF IInv
<1>5. Position' /\ RegisterTree'
  BY <1>1, <1>2, <1>3, <1>4 DEF Position, RegisterTree, Modules
<1>6. PrivateCells'
  BY <1>1, <1>2, <1>3, <1>4 DEF PrivateCells, Private, Allocated
<1>7. \A m \in Modules : (Freed(m)' <=> Freed(m) \/ m = at) /\ ~ Freed(at)
  BY <1>1, <1>2 DEF Freed, Modules
<1> DEFINE Denoting(c) == {g \in Registers(at) : globals[at][g] = c /\ Owner(c) = at}
<1>8. \A c \in Cells : freed'[c] = freed[c] + Cardinality(Denoting(c))
  BY DEF FreeGlobals
<1>9. \A c \in Cells : Cardinality(Denoting(c)) = IF Owner(c) = at /\ c \in Used THEN 1 ELSE 0
  <2> SUFFICES ASSUME NEW c \in Cells
               PROVE  Cardinality(Denoting(c)) = IF Owner(c) = at /\ c \in Used THEN 1 ELSE 0
    OBVIOUS
  <2>1. c = <<c[1], c[2]>> /\ c[2] \in Registers(c[1])
    BY CellFacts
  <2>2. CASE Owner(c) = at /\ c \in Used
    <3>1. globals[at][c[2]] = c /\ \A g \in Registers(at) : globals[at][g] = c => g = c[2]
      BY <2>1, <2>2, <1>1, OwnRegister DEF Owner
    <3>2. Denoting(c) = {c[2]}
      BY <2>1, <2>2, <3>1 DEF Owner
    <3>. QED
      BY <2>2, <3>2, FS_Singleton
  <2>3. CASE ~ (Owner(c) = at /\ c \in Used)
    <3>1. Denoting(c) = {}
      BY <2>3, <1>1 DEF Used
    <3>. QED
      BY <2>3, <3>1, FS_EmptySet
  <2>. QED
    BY <2>2, <2>3
<1> HIDE DEF Denoting
<1>10. FreedCells'
  <2> SUFFICES ASSUME NEW c \in Cells
               PROVE  freed'[c] = IF Freed(Owner(c))' /\ c \in Used THEN 1 ELSE 0
    BY <1>1, <1>3 DEF FreedCells, Owner, Used
  <2>1. freed[c] = IF Freed(Owner(c)) /\ c \in Used THEN 1 ELSE 0
    BY <1>4 DEF FreedCells
  <2>2. Owner(c) \in Modules
    BY CellFacts DEF Owner
  <2>3. CASE Owner(c) = at
    BY <2>1, <2>3, <1>1, <1>2, <1>8, <1>9 DEF Freed, Modules
  <2>4. CASE Owner(c) # at
    <3>1. freed'[c] = freed[c]
      BY <2>1, <2>4, <1>8, <1>9
    <3>. QED
      BY <2>1, <2>2, <2>4, <3>1, <1>1, <1>2 DEF Freed, Modules
  <2>. QED
    BY <2>3, <2>4
<1>11. Shape'
  <2>1. freed' \in [Cells -> Nat]
    <3>1. freed' = [c \in Cells |-> freed'[c]]
      BY DEF FreeGlobals
    <3>2. \A c \in Cells : freed'[c] \in Nat
      BY <1>10, <1>3 DEF FreedCells
    <3>. QED
      BY <3>1, <3>2
  <2>. QED
    BY <2>1, <1>1, <1>3, <1>4 DEF Shape
<1>. QED
  BY <1>2, <1>3, <1>5, <1>6, <1>10, <1>11 DEF IInv

-----------------------------------------------------------------------------
(* The invariant                                                           *)

LEMMA InitSafe == Init => IInv
<1> SUFFICES ASSUME Init PROVE IInv
  OBVIOUS
<1>1. /\ program \in Programs /\ phase = "symbols" /\ at = 1 /\ Len(Pool) \in Nat \ {0}
      /\ DOMAIN exposed_reg = {} /\ DOMAIN exposed_proc = {}
      /\ globals = [m \in Modules |-> [g \in Registers(m) |-> NONE]]
      /\ freed = [c \in Cells |-> 0]
  BY ProgramFacts DEF Init
<1>2. /\ \A k \in Entries : ~ Built(k)
      /\ \A k : ~ Resolved(k)
      /\ \A m : ~ Allocated(m) /\ ~ Freed(m)
  BY <1>1 DEF Built, Resolved, Allocated, Freed, Entries
<1>3. /\ DOMAIN entry = {k \in Entries : Pool[k].type = "proc"}
      /\ \A k \in DOMAIN entry : Pool[k].defined =>
           entry[k] = [start |-> k, locals |-> k, module |-> NONE]
  BY DEF Init, Entries
<1>4. Position /\ Shape
  BY <1>1, <1>3 DEF Position, Shape, Entries
<1>5. ProcedureTree /\ RegisterTree /\ ImportEntries
  BY <1>1, <1>2 DEF ProcedureTree, RegisterTree, ImportEntries
<1>6. PrivateCells /\ FreedCells
  BY <1>1, <1>2 DEF PrivateCells, FreedCells
<1>7. CodeEntries
  BY <1>2, <1>3 DEF CodeEntries
<1>. QED
  BY <1>1, <1>4, <1>5, <1>6, <1>7 DEF IInv

LEMMA NextSafe == IInv /\ [Next]_vars => IInv'
<1>1. ASSUME IInv, UNCHANGED vars PROVE IInv'
  <2>1. /\ UNCHANGED <<program, phase, at, exposed_reg, exposed_proc, entry, globals, freed>>
        /\ Pool' = Pool /\ Entries' = Entries /\ Cells' = Cells
        /\ \A m : Registers(m)' = Registers(m)
        /\ \A k : Exposes(k)' = Exposes(k) /\ Shares(k)' = Shares(k) /\ Imports(k)' = Imports(k)
        /\ \A k : Linked(k)' = Linked(k)
        /\ Linkable' = Linkable
    BY <1>1, SameProgram DEF vars
  <2>2. /\ \A k : Built(k)' = Built(k) /\ Resolved(k)' = Resolved(k)
        /\ \A m : Allocated(m)' = Allocated(m)
    BY <2>1 DEF Built, Resolved, Allocated
  <2>3. Position' = Position /\ Shape' = Shape /\ RegisterTree' = RegisterTree
    BY <2>1, <2>2 DEF Position, Shape, RegisterTree
  <2>4. ProcedureTree' = ProcedureTree /\ PrivateCells' = PrivateCells
    BY <2>1, <2>2 DEF ProcedureTree, PrivateCells, Private
  <2>5. CodeEntries' = CodeEntries /\ ImportEntries' = ImportEntries
    BY <2>1, <2>2 DEF CodeEntries, ImportEntries
  <2>6. FreedCells' = FreedCells
    BY <2>1 DEF FreedCells, Freed, Used, Owner
  <2>. QED
    BY <1>1, <2>1, <2>3, <2>4, <2>5, <2>6 DEF IInv
<1>. QED
  BY <1>1, BuildProcSafe, BuildRegSafe, BuildExposeSafe, DuplicateSymbolSafe, ResolveSafe,
     UnimplementedSafe, AllocateGlobalsSafe, FinishSafe, FreeGlobalsSafe
     DEF Next, Ended

(* The trees, the procedures and the globals hold what the entries that    *)
(* were visited say, at every point of the linker.                         *)
THEOREM Invariant == Spec => []IInv
<1>. QED
  BY InitSafe, NextSafe, PTL DEF Spec

-----------------------------------------------------------------------------
(* The properties                                                          *)

(* The trees hold procedures and cells, and every pointer of a module's    *)
(* globals is a cell or null.                                              *)
THEOREM TypeCorrect == Spec => []TypeOK
<1>1. IInv => TypeOK
  BY ProgramFacts DEF IInv, Position, Shape, TypeOK, Entries, Modules
<1>. QED
  BY <1>1, Invariant, PTL

(* Linking fails only for programs that expose an index twice or not at    *)
(* all, whatever the order of the modules, and only others are run.        *)
THEOREM RejectsOnlyUnlinkable == Spec => []RejectedIfUnlinkable
<1>1. IInv => RejectedIfUnlinkable
  <2> SUFFICES ASSUME IInv, phase \in {"allocate", "run"} PROVE Linkable
    BY DEF RejectedIfUnlinkable, IInv
  <2>1. /\ program \in Programs /\ ProcedureTree /\ ImportEntries
        /\ \A k \in Entries : Built(k) /\ Resolved(k)
    BY DEF IInv, Position, Built, Resolved
  <2>2. ASSUME NEW k \in Entries, Imports(k)
        PROVE  Exports(Pool[k].index) # {}
    <3>1. Pool[k].index \in DOMAIN exposed_proc
      BY <2>1, <2>2 DEF ImportEntries
    <3>2. PICK j \in Entries : Exposes(j) /\ Pool[j].index = Pool[k].index
      BY <2>1, <3>1 DEF ProcedureTree
    <3>. QED
      BY <3>2 DEF Exports, Exposes, Entries
  <2>3. ASSUME NEW k \in Entries, Exposes(k)
        PROVE  Exports(Pool[k].index) = {k}
    BY <2>1, <2>3 DEF ProcedureTree, Exports, Exposes, Entries
  <2>. QED
    BY <2>1, <2>2, <2>3, ProgramFacts DEF Linkable, Imports, Exposes, Entries
<1>. QED
  BY <1>1, Invariant, PTL

(* A declared procedure runs the code that another module exposes under    *)
(* its index, with that procedure's locals and that module's globals.      *)
THEOREM DeclaredIsProvided == Spec => []CallsWhatIsExposed
<1>1. IInv => CallsWhatIsExposed
  <2> SUFFICES ASSUME IInv, phase = "run", NEW k \in Entries, Imports(k)
               PROVE  \E x \in Exports(Pool[k].index) :
                        LET provided == Pool[x].procedure
                        IN  entry[Pool[k].procedure] =
                              [start |-> provided, locals |-> provided, module |-> Pool[x].module]
    BY DEF CallsWhatIsExposed, Entries
  <2>1. /\ program \in Programs /\ ProcedureTree /\ ImportEntries
        /\ \A j \in Entries : Built(j) /\ Resolved(j)
    BY DEF IInv, Position, Built, Resolved
  <2>2. /\ Pool[k].index \in DOMAIN exposed_proc
        /\ entry[Pool[k].procedure] = Linked(exposed_proc[Pool[k].index])
    BY <2>1 DEF ImportEntries
  <2>3. PICK x \in Entries : Exposes(x) /\ Pool[x].index = Pool[k].index
    BY <2>1, <2>2 DEF ProcedureTree
  <2>4. exposed_proc[Pool[k].index] = Pool[x].procedure
    BY <2>1, <2>3 DEF ProcedureTree
  <2>5. Pool[Pool[x].procedure].module = Pool[x].module
    BY <2>1, <2>3, ProgramFacts DEF Exposes
  <2>6. x \in Exports(Pool[k].index)
    BY <2>3 DEF Exports, Exposes, Entries
  <2>. QED
    BY <2>2, <2>4, <2>5, <2>6 DEF Linked
<1>. QED
  BY <1>1, Invariant, PTL

(* Two registers denote one value just when they are exposed under one     *)
(* index.                                                                  *)
THEOREM SharedWhenExposedAlike == Spec => []SharedByIndex
<1>1. IInv => SharedByIndex
  <2> SUFFICES ASSUME IInv, phase = "run",
                      NEW m \in Modules, NEW n \in Modules, NEW g \in Registers(m), NEW h \in Registers(n)
               PROVE  globals[m][g] = globals[n][h] <=>
                        <<m, g>> = <<n, h>> \/ ExposedAs(m, g) \cap ExposedAs(n, h) # {}
    BY DEF SharedByIndex
  <2>1. /\ program \in Programs /\ Shape /\ RegisterTree /\ PrivateCells
        /\ \A k \in Entries : Built(k)
        /\ \A i : Allocated(i)
    BY DEF IInv, Position, Built, Allocated
  <2> DEFINE At(k, i, f) == Shares(k) /\ Pool[k].module = i /\ Pool[k].global = f
  <2>2. \A i, f : \A x : x \in ExposedAs(i, f) <=> \E k \in Entries : At(k, i, f) /\ Pool[k].index = x
    BY DEF ExposedAs, Shares, Entries
  <2>3. \A i, f : Private(i, f) <=> ~ \E k \in Entries : At(k, i, f)
    BY <2>1 DEF Private
  <2>4. \A i, f : \A k \in Entries : At(k, i, f) =>
          Pool[k].index \in DOMAIN exposed_reg /\ globals[i][f] = exposed_reg[Pool[k].index]
    BY <2>1 DEF RegisterTree
  <2>5. \A x \in DOMAIN exposed_reg :
          \E k \in Entries : \E i, f : /\ At(k, i, f) /\ Pool[k].index = x /\ exposed_reg[x] = <<i, f>>
    BY <2>1 DEF RegisterTree
  <2>6. \A i, f : \A j, k \in Entries : At(j, i, f) /\ At(k, i, f) => j = k
    BY <2>1, Apart
  <2>7. /\ Private(m, g) => globals[m][g] = <<m, g>>
        /\ Private(n, h) => globals[n][h] = <<n, h>>
    BY <2>1 DEF PrivateCells
  <2> HIDE DEF At
  <2>8. ASSUME globals[m][g] = globals[n][h], <<m, g>> # <<n, h>>
        PROVE  ExposedAs(m, g) \cap ExposedAs(n, h) # {}
    <3>1. CASE Private(m, g) /\ Private(n, h)
      BY <3>1, <2>7, <2>8
    <3>2. CASE Private(m, g) /\ ~ Private(n, h)
      <4>1. PICK k \in Entries : At(k, n, h)
        BY <3>2, <2>3
      <4>2. PICK j \in Entries : \E i, f : At(j, i, f) /\ <<m, g>> = <<i, f>>
        BY <4>1, <3>2, <2>4, <2>5, <2>7, <2>8
      <4>. QED
        BY <4>2, <3>2, <2>3
    <3>3. CASE ~ Private(m, g) /\ Private(n, h)
      <4>1. PICK k \in Entries : At(k, m, g)
        BY <3>3, <2>3
      <4>2. PICK j \in Entries : \E i, f : At(j, i, f) /\ <<n, h>> = <<i, f>>
        BY <4>1, <3>3, <2>4, <2>5, <2>7, <2>8
      <4>. QED
        BY <4>2, <3>3, <2>3
    <3>4. CASE ~ Private(m, g) /\ ~ Private(n, h)
      <4>1. PICK k \in Entries : At(k, m, g)
        BY <3>4, <2>3
      <4>2. PICK j \in Entries : At(j, n, h)
        BY <3>4, <2>3
      <4>3. exposed_reg[Pool[k].index] = exposed_reg[Pool[j].index]
        BY <4>1, <4>2, <2>4, <2>8
      <4>4. Pool[k].index = Pool[j].index
        BY <4>1, <4>2, <4>3, <2>4, <2>5, <2>6
      <4>. QED
        BY <4>1, <4>2, <4>4, <2>2
    <3>. QED
      BY <3>1, <3>2, <3>3, <3>4
  <2>9. ASSUME NEW x \in ExposedAs(m, g) \cap ExposedAs(n, h)
        PROVE  globals[m][g] = globals[n][h]
    BY <2>2, <2>4, <2>9
  <2>. QED
    BY <2>8, <2>9
<1>. QED
  BY <1>1, Invariant, PTL

(* No cell is freed twice, and in the end every cell that a register       *)
(* denotes was freed.                                                      *)
THEOREM AlwaysFreedOnce == Spec => []FreedOnce
<1>1. IInv => FreedOnce
  <2>1. IInv => \A c \in Cells : freed[c] <= 1
    BY DEF IInv, FreedCells
  <2>2. ASSUME IInv, phase = "done" PROVE \A c \in Used : freed[c] = 1
    BY <2>2, OwnRegister DEF IInv, FreedCells, Freed
  <2>. QED
    BY <2>1, <2>2 DEF FreedOnce
<1>. QED
  BY <1>1, Invariant, PTL

(* When a program runs, its modules, procedures and globals are what       *)
(* VMFrames assumes of them (ProgramAssumption): every procedure has code  *)
(* and a module, every global is a value, and a value belongs to a module  *)
(* that has it among its globals.                                          *)
Runnable ==
  phase = "run" =>
    /\ \A k \in DOMAIN entry : entry[k].start \in DOMAIN entry /\ entry[k].locals \in DOMAIN entry
                               /\ entry[k].module \in Modules
    /\ \A m \in Modules : globals[m] \in [Registers(m) -> Cells]
    /\ \A c \in Used : Owner(c) \in Modules /\ c \in {globals[Owner(c)][g] : g \in Registers(Owner(c))}
THEOREM LinkedIsRunnable == Spec => []Runnable
<1>1. IInv => Runnable
  <2> SUFFICES ASSUME IInv, phase = "run" PROVE Runnable
    BY DEF Runnable
  <2>1. /\ program \in Programs /\ Shape /\ RegisterTree /\ PrivateCells /\ ProcedureTree
        /\ CodeEntries /\ ImportEntries
        /\ \A k \in Entries : Built(k) /\ Resolved(k)
        /\ \A m : Allocated(m)
    BY DEF IInv, Position, Built, Resolved, Allocated
  <2>2. ASSUME NEW k \in DOMAIN entry
        PROVE  /\ entry[k].start \in DOMAIN entry /\ entry[k].locals \in DOMAIN entry
               /\ entry[k].module \in Modules
    <3>0. k \in Entries /\ Pool[k].type = "proc" /\ Pool[k].module \in Modules
      BY <2>1, ProgramFacts DEF Shape
    <3>1. CASE Pool[k].defined
      BY <3>0, <3>1, <2>1 DEF CodeEntries
    <3>2. CASE ~ Pool[k].defined
      <4>1. PICK x \in Entries : Pool[x].type = "expose" /\ Pool[x].procedure = k
        BY <3>0, <3>2, <2>1, ProgramFacts
      <4>2. Imports(x)
        BY <4>1, <3>2, <2>1, ProgramFacts DEF Imports
      <4>3. /\ Pool[x].index \in DOMAIN exposed_proc
            /\ entry[k] = Linked(exposed_proc[Pool[x].index])
        BY <4>1, <4>2, <2>1 DEF ImportEntries
      <4>4. exposed_proc[Pool[x].index] \in DOMAIN entry
        BY <4>3, <2>1 DEF Shape
      <4>5. Pool[exposed_proc[Pool[x].index]].module \in Modules
        BY <4>4, <2>1, ProgramFacts DEF Shape
      <4>. QED
        BY <4>3, <4>4, <4>5 DEF Linked
    <3>. QED
      BY <3>1, <3>2
  <2>3. ASSUME NEW m \in Modules PROVE globals[m] \in [Registers(m) -> Cells]
    <3>1. ASSUME NEW g \in Registers(m) PROVE globals[m][g] \in Cells
      BY <3>1, OwnRegister DEF Used
    <3>. QED
      BY <3>1, <2>1 DEF Shape
  <2>4. ASSUME NEW c \in Used
        PROVE  Owner(c) \in Modules /\ c \in {globals[Owner(c)][g] : g \in Registers(Owner(c))}
    BY OwnRegister, CellFacts DEF Owner
  <2>. QED
    BY <2>2, <2>3, <2>4 DEF Runnable
<1>. QED
  BY <1>1, Invariant, PTL

=============================================================================
