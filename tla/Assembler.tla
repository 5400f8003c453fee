----------------------------- MODULE Assembler ------------------------------
(***************************************************************************)
(* The assembler's back end (assembler/rxasassm.c): the binary, the symbol *)
(* trees and the constant pool it builds from the lines of a module, and   *)
(* the backpatching of the branches once all lines are read.               *)
(*                                                                         *)
(* A line is an instruction or a label of RxasCode, or a directive:        *)
(*   [op |-> ".globals", n]                     .globals = n               *)
(*   [op |-> ".exposereg", n, index]            gn .expose = index         *)
(*   [op |-> ".proc", name, n]                  name() .locals = n         *)
(*   [op |-> ".expproc", name, n, index]        ... .expose = index        *)
(*   [op |-> ".declare", name, index]           name() .expose = index     *)
(* The lines come here after the keyhole optimiser, in the order they were *)
(* read: every directive flushes its queue first.                          *)
(***************************************************************************)
EXTENDS RxasCode, Functions

CONSTANTS
  Dialect,     \* Dialect[d]: the lines that a module may be made of
  MaxLines,    \* MaxLines[d]: how many
  PoolRoom,    \* how many entries the pool has room for at first
  NONE         \* SIZE_MAX, a null pointer

(* What the parser hands over (rxasgrmr.y): the operands of a directive    *)
(* are checked there, those of an instruction by its signature; a call has *)
(* the result, the procedure and the first argument, a branch its label.   *)
AnyRegister == [type : {"r", "g", "a"}, num : Nat]
IsInstruction(i) ==
  /\ i.op \in STRING /\ i.to \in Seq(STRING) /\ i.regs \in Seq(AnyRegister)
  /\ i.op = "call" => Len(i.to) = 1 /\ Len(i.regs) = 2
  /\ i.op = "br" => Len(i.to) = 1
IsLine(line) ==
  CASE line.op \in {".globals", ".exposereg", ".proc", ".expproc"} -> line.n \in Nat
    [] line.op = ".declare" -> TRUE
    [] line.op = "label"    -> line.to[1] \in STRING /\ line = Label(line.to[1])
    [] OTHER                -> IsInstruction(line)

ASSUME AssemblerAssumption ==
  /\ PoolRoom \in Nat \ {0} /\ NONE \notin Nat
  /\ \A d \in DOMAIN Dialect : \A line \in Dialect[d] : IsLine(line)

VARIABLES
  dialect,     \* the kind of this module
  optimise,    \* the optimiser is on
  phase,       \* "headers", "functions", "declared", "labels",
               \* "backpatch", "done", "crashed"
  source,      \* the lines read, with the place where each put its code
  binary,      \* binary[i + 1]: cell i, an opcode or an operand
  labels,      \* label_constants_tree: name -> [defined, index, refs]
  procs,       \* proc_constants_tree: name -> [defined, index, refs]
  pool,        \* the constant pool, a sequence of entries
  externs,     \* extern_constants_tree: the exposed indices
  globals,     \* the number of global registers
  extern_regs, \* the global registers that are exposed
  locals,      \* current_locals
  errors,      \* the kinds of the errors reported: each sets severity
  todo,        \* the labels that optimise_labels has yet to visit in this round
  changed      \* a label was changed in this round
read == <<dialect, optimise, source>>
symbols == <<procs, pool, externs, globals, extern_regs, locals>>
vars == <<read, symbols, phase, binary, labels, errors, todo, changed>>

Cells == Len(binary)
Cell(i) == binary[i + 1]
Extend(f, key, x) == [k \in DOMAIN f \cup {key} |-> IF k = key THEN x ELSE f[k]]

Init ==
  /\ dialect \in DOMAIN Dialect /\ optimise \in BOOLEAN
  /\ phase = "headers" /\ source = << >> /\ binary = << >>
  /\ labels = << >> /\ procs = << >> /\ pool = << >> /\ externs = {}
  /\ globals = 0 /\ extern_regs = {} /\ locals = 0
  /\ errors = {} /\ todo = {} /\ changed = FALSE

Directives == {".globals", ".exposereg", ".proc", ".expproc", ".declare"}
Report(kinds) == errors' = errors \cup kinds
If(condition, kind) == IF condition THEN {kind} ELSE {}

-----------------------------------------------------------------------------
(* Directives *)

(* A symbol that is exposed: add_extern_index.                             *)
DuplicateIndex(index) == If(index \in externs, "duplicate exposed index")
ExposeForgotten(index) == UNCHANGED externs
Expose(index) == externs' = externs \cup {index}

(* rxassetg: a second directive is noticed if the first was not zero.      *)
SetGlobals(n) ==
  /\ phase = "headers"
  /\ Report(If(globals # 0, "duplicate .globals"))
  /\ IF globals # 0 THEN UNCHANGED <<globals, extern_regs>>
     ELSE globals' = n /\ extern_regs' = {}
  /\ UNCHANGED <<phase, binary, labels, procs, pool, externs, locals>>

(* rxasexre: the check of the register number does not return, and what    *)
(* the array holds for a register it does not have is anything.            *)
ExposeReg(n, index) ==
  /\ phase = "headers"
  /\ \E duplicate \in SUBSET {"duplicate exposed register"} :
       /\ n < globals => duplicate = If(n \in extern_regs, "duplicate exposed register")
       /\ Report(If(n >= globals, "no such global") \cup DuplicateIndex(index) \cup duplicate)
  /\ Expose(index)
  /\ extern_regs' = extern_regs \cup {n}
  /\ pool' = Append(pool, [type |-> "reg", index |-> index, global |-> n])
  /\ UNCHANGED <<phase, binary, labels, procs, globals, locals>>
ExposeNoReg(n) ==
  /\ phase = "headers" /\ n >= globals
  /\ phase' = "crashed"
  /\ UNCHANGED <<binary, labels, errors, symbols>>

(* define_proc: the entry of a procedure, which a call may have made.  The *)
(* entry that a duplicate definition goes on with is the first of the pool.*)
Known(name) == name \in DOMAIN procs
Duplicate(name) == Known(name) /\ procs[name].defined
EntryOf(name) == IF Duplicate(name) THEN 1 ELSE IF Known(name) THEN procs[name].index ELSE Len(pool) + 1
RefsOf(name) == IF Known(name) THEN procs[name].refs ELSE {}
ProcEntry(name, n, start) ==
  [type |-> "proc", name |-> name, locals |-> n, start |-> start, exposed |-> NONE]

NoteDefinition(name) ==
  procs' = IF Duplicate(name) THEN procs
           ELSE Extend(procs, name, [defined |-> TRUE, index |-> EntryOf(name), refs |-> RefsOf(name)])

(* The fields are written over whatever entry is there.                    *)
Over(entry, fields) ==
  [f \in DOMAIN entry \cup DOMAIN fields |-> IF f \in DOMAIN fields THEN fields[f] ELSE entry[f]]
Write(entries, e, fields) == [entries EXCEPT ![e] = Over(@, fields)]
DefinedAgain(name, n, start) ==
  IF Duplicate(name) THEN Write(pool, 1, [locals |-> n, start |-> start])
  ELSE Append(pool, ProcEntry(name, n, start))
Defined(name, n, start) ==
  IF Duplicate(name) THEN Write(pool, 1, [locals |-> n, start |-> start])
  ELSE IF Known(name) THEN Write(pool, EntryOf(name), ProcEntry(name, n, start))
  ELSE Append(pool, ProcEntry(name, n, start))

(* The entry of the exposed symbol goes on top, and the procedure's one is *)
(* told where: through a pointer taken before the pool may have grown, and *)
(* moved, to make room for it.                                             *)
Grows(entries) == \E k \in 0 .. Len(entries) : Len(entries) = PoolRoom * 2 ^ k
Exposed(entries, e, index, imported, moved) ==
  Append(IF moved THEN entries ELSE Write(entries, e, [exposed |-> Len(entries) + 1]),
         [type |-> "expose", index |-> index, procedure |-> e, imported |-> imported])
ExposeEntry(entries, e, index, imported) ==
  \E moved \in IF Grows(entries) THEN BOOLEAN ELSE {FALSE} :
    pool' = Exposed(entries, e, index, imported, moved)

DuplicateProc(name) == If(Duplicate(name), "duplicate procedure")
Directive(next) ==
  /\ phase \in {"headers", "functions", "declared"} /\ phase' = next
  /\ UNCHANGED <<binary, labels, globals, extern_regs>>

(* rxasproc                                                                *)
Proc(name, n) ==
  /\ Directive("functions")
  /\ NoteDefinition(name) /\ pool' = Defined(name, n, Cells)
  /\ locals' = n /\ Report(DuplicateProc(name))
  /\ UNCHANGED externs

(* rxasexpc                                                                *)
ExposedProc(name, n, index) ==
  /\ Directive("functions")
  /\ NoteDefinition(name)
  /\ ExposeEntry(Defined(name, n, Cells), EntryOf(name), index, FALSE)
  /\ locals' = n /\ Expose(index)
  /\ Report(DuplicateProc(name) \cup DuplicateIndex(index))

(* rxasdecl: the definition is in another module.                          *)
Declare(name, index) ==
  /\ Directive("declared")
  /\ NoteDefinition(name)
  /\ ExposeEntry(Defined(name, NONE, NONE), EntryOf(name), index, TRUE)
  /\ Expose(index)
  /\ Report(DuplicateProc(name) \cup DuplicateIndex(index))
  /\ UNCHANGED locals

-----------------------------------------------------------------------------
(* Instructions and labels *)

Code == phase = "functions" /\ UNCHANGED <<phase, externs, globals, extern_regs, locals>>

(* rxaslabl                                                                *)
LabelDefined(l) == l \in DOMAIN labels /\ labels[l].defined
DefineLabel(l) ==
  /\ Code /\ UNCHANGED <<binary, procs, pool>>
  /\ Report(If(LabelDefined(l), "duplicate label"))
  /\ labels' = IF LabelDefined(l) THEN labels
               ELSE Extend(labels, l, [defined |-> TRUE, index |-> Cells,
                                       refs |-> IF l \in DOMAIN labels THEN labels[l].refs ELSE {}])

(* The operands of an instruction in the order of its cells.               *)
LabelsOf(i) == IF i.op = "call" THEN << >> ELSE i.to
ProcsOf(i) == IF i.op = "call" THEN {i.to[1]} ELSE {}
Operands(i) == IF i.op = "call" THEN <<i.regs[1], i.to[1], i.regs[2]>> ELSE i.to \o i.regs
IsRegister(i, k) == IF i.op = "call" THEN k # 2 ELSE k > Len(i.to)
OperandAtBehind(i, k) == Cells + k + 1
OperandAt(i, k) == Cells + k

RegisterCellFlat(r) ==
  CASE r.type = "r" -> r.num
    [] r.type = "g" -> r.num
    [] OTHER        -> r.num + locals + globals
RegisterCell(r) ==
  CASE r.type = "r" -> r.num
    [] r.type = "g" -> r.num + locals
    [] OTHER        -> r.num + locals + globals
RegisterErrors(i) ==
  If(\E r \in Range(i.regs) : r.type = "r" /\ r.num >= locals, "no such local")
  \cup If(\E r \in Range(i.regs) : r.type = "g" /\ r.num >= globals, "no such global")

(* gen_operand for a name: the reference is kept for backpatching.         *)
References(i, l) == {OperandAt(i, k) : k \in {k \in DOMAIN LabelsOf(i) : LabelsOf(i)[k] = l}}
ReferLabels(i) ==
  labels' = [l \in DOMAIN labels \cup Range(LabelsOf(i)) |->
               IF l \in DOMAIN labels THEN [labels[l] EXCEPT !.refs = @ \cup References(i, l)]
               ELSE [defined |-> FALSE, index |-> 0, refs |-> References(i, l)]]

(* gen_operand for a procedure: it gets its entry when it is first met.    *)
(* The reference is the cell behind the operand: only an error uses it.    *)
Refer(name, reference) ==
  /\ pool' = IF Known(name) THEN pool ELSE Append(pool, ProcEntry(name, NONE, NONE))
  /\ procs' = IF Duplicate(name) THEN procs
              ELSE Extend(procs, name, [defined |-> FALSE, index |-> EntryOf(name),
                                        refs |-> RefsOf(name) \cup {reference}])
ReferProcs(i) ==
  IF i.op = "call" THEN Refer(i.to[1], OperandAt(i, 2) + 1) ELSE UNCHANGED <<pool, procs>>

OperandCell(i, k) ==
  LET o == Operands(i)[k] IN
  IF IsRegister(i, k) THEN RegisterCell(o)
  ELSE IF i.op = "call" THEN procs'[o].index
  ELSE 0

(* rxasgen: an instruction that the machine does not have leaves no code.  *)
Valid(i) == i.op # "invalid"
Generate(i) ==
  /\ Code /\ Valid(i)
  /\ ReferLabels(i) /\ ReferProcs(i)
  /\ binary' = binary \o <<[op |-> i.op]>> \o [k \in DOMAIN Operands(i) |-> [value |-> OperandCell(i, k)]]
  /\ Report(RegisterErrors(i))
Refuse(i) ==
  /\ Code /\ ~ Valid(i)
  /\ Report({"invalid instruction"})
  /\ UNCHANGED <<binary, labels, procs, pool>>

ReadLine(line) ==
  CASE line.op = ".globals"   -> SetGlobals(line.n)
    [] line.op = ".exposereg" -> ExposeReg(line.n, line.index)
    [] line.op = ".proc"      -> Proc(line.name, line.n)
    [] line.op = ".expproc"   -> ExposedProc(line.name, line.n, line.index)
    [] line.op = ".declare"   -> Declare(line.name, line.index)
    [] line.op = "label"      -> DefineLabel(line.to[1])
    [] OTHER                  -> Generate(line) \/ Refuse(line)

-----------------------------------------------------------------------------
(* backptch *)

IsAnyBranch(i) == i < Cells /\ Cell(i) \in {[op |-> "br"], [op |-> "brt"]}
IsBr(i) == i < Cells /\ Cell(i) = [op |-> "br"]

(* find_patch_index: the label that the branch at cell i goes to.          *)
PatchOfOpcode(i) == {l \in DOMAIN labels : i \in labels[l].refs}
PatchOf(i) == {l \in DOMAIN labels : i + 1 \in labels[l].refs}

LeadsTo(l) == IF labels[l].defined /\ IsBr(labels[l].index) THEN PatchOf(labels[l].index) ELSE {}

End ==
  /\ phase \in {"functions", "declared"}
  /\ phase' = IF optimise THEN "labels" ELSE "backpatch"
  /\ todo' = DOMAIN labels /\ changed' = FALSE
  /\ UNCHANGED <<read, symbols, binary, labels, errors>>

(* optimise_labels, at one label: go on to where the branch there goes,    *)
(* unless it goes here.                                                    *)
OptimiseLabelItself(l) ==
  /\ phase = "labels" /\ l \in todo
  /\ todo' = todo \ {l}
  /\ LET next == {p \in LeadsTo(l) : labels[p].defined} IN
     IF next = {} THEN UNCHANGED <<labels, changed>>
     ELSE /\ \E p \in next : labels' = [labels EXCEPT ![l].index = labels[p].index]
          /\ changed' = TRUE
  /\ UNCHANGED <<read, symbols, phase, binary, errors>>
OptimiseLabel(l) ==
  /\ phase = "labels" /\ l \in todo
  /\ todo' = todo \ {l}
  /\ LET next == {p \in LeadsTo(l) : p # l /\ labels[p].defined} IN
     IF next = {} THEN UNCHANGED <<labels, changed>>
     ELSE /\ \E p \in next : labels' = [labels EXCEPT ![l].index = labels[p].index]
          /\ changed' = TRUE
  /\ UNCHANGED <<read, symbols, phase, binary, errors>>
EndRound ==
  /\ phase = "labels" /\ todo = {}
  /\ IF changed THEN todo' = DOMAIN labels /\ UNCHANGED phase
     ELSE phase' = "backpatch" /\ UNCHANGED todo
  /\ changed' = FALSE
  /\ UNCHANGED <<read, symbols, binary, labels, errors>>

Unknown(tree) == \E x \in DOMAIN tree : ~ tree[x].defined /\ tree[x].refs # {}
Backpatch ==
  /\ phase = "backpatch" /\ phase' = "done"
  /\ Report(If(Unknown(procs), "unknown procedure") \cup If(Unknown(labels), "unknown label"))
  /\ binary' = [i \in DOMAIN binary |->
                  IF \E l \in DOMAIN labels : labels[l].defined /\ i - 1 \in labels[l].refs
                  THEN [value |-> labels[CHOOSE l \in DOMAIN labels : i - 1 \in labels[l].refs].index]
                  ELSE binary[i]]
  /\ UNCHANGED <<read, symbols, labels, todo, changed>>

ReadStep ==
  /\ Len(source) < MaxLines[dialect]
  /\ \E line \in Dialect[dialect] :
       /\ ReadLine(line)
       /\ source' = Append(source, [at |-> Cells, line |-> line, locals |-> locals'])
       /\ UNCHANGED <<dialect, optimise, todo, changed>>
Crash ==
  /\ \E line \in Dialect[dialect] : line.op = ".exposereg" /\ ExposeNoReg(line.n)
  /\ UNCHANGED <<read, todo, changed>>
BackpatchStep == (\E l \in todo : OptimiseLabel(l)) \/ EndRound \/ Backpatch
Next == ReadStep \/ Crash \/ End \/ BackpatchStep

(* The assembler is one thread: once the lines are read, it goes on.       *)
Spec == Init /\ [][Next]_vars /\ WF_vars(BackpatchStep)

-----------------------------------------------------------------------------
(* Properties *)

Lines(ops) == {k \in DOMAIN source : source[k].line.op \in ops}
Instructions == {k \in DOMAIN source : source[k].line.op \notin Directives \cup {"label", "invalid"}}
Text(k) == source[k].line
Procedures == {".proc", ".expproc", ".declare"}
Assembled == phase = "done" /\ errors = {}

(* The trees point into the binary and the pool.                           *)
TypeOK ==
  /\ phase \in {"headers", "functions", "declared", "labels", "backpatch", "done", "crashed"}
  /\ \A l \in DOMAIN labels :
       /\ labels[l].defined \in BOOLEAN /\ labels[l].index \in 0 .. Cells
       /\ labels[l].refs \subseteq {i \in 0 .. Cells - 1 : DOMAIN Cell(i) = {"value"}}
  /\ \A name \in DOMAIN procs :
       /\ procs[name].index \in DOMAIN pool
       /\ pool[procs[name].index].type = "proc"
  /\ globals \in Nat /\ locals \in Nat /\ extern_regs \subseteq Nat
  /\ todo \subseteq DOMAIN labels /\ changed \in BOOLEAN

(* A module is assembled exactly if it is right: what is used is defined,  *)
(* and defined once, whichever comes first.  Most checks are made at the   *)
(* line, some at the end, and some lines are read after an error.          *)
SameName(j, k) == Text(j).name = Text(k).name
LabelsRight ==
  /\ \A j, k \in Lines({"label"}) : Text(j) = Text(k) => j = k
  /\ \A k \in Instructions : \A l \in Range(LabelsOf(Text(k))) :
       \E j \in Lines({"label"}) : Text(j) = Label(l)
ProceduresRight ==
  /\ \A j, k \in Lines(Procedures) : SameName(j, k) => j = k
  /\ \A k \in Instructions : \A name \in ProcsOf(Text(k)) :
       \E j \in Lines(Procedures) : Text(j).name = name
ExposedRight ==
  /\ \A j, k \in Lines({".expproc", ".declare", ".exposereg"}) : Text(j).index = Text(k).index => j = k
  /\ \A j, k \in Lines({".exposereg"}) : Text(j).n = Text(k).n => j = k
RegistersRight ==
  /\ \A j, k \in Lines({".globals"}) : j < k => Text(j).n = 0
  /\ \A k \in Lines({".exposereg"}) : \E j \in Lines({".globals"}) : j < k /\ Text(k).n < Text(j).n
  /\ \A k \in Instructions : \A r \in Range(Text(k).regs) :
       /\ r.type = "r" => r.num < source[k].locals
       /\ r.type = "g" => r.num < globals
ReportsErrors ==
  phase = "done" =>
    (errors = {} <=> /\ LabelsRight /\ ProceduresRight /\ ExposedRight /\ RegistersRight
                     /\ Lines({"invalid"}) = {})

(* In what was assembled a branch goes where the program says: to the line *)
(* of its label, or on to where the branches that stand there lead.        *)
DefinedAt(l) == source[CHOOSE k \in Lines({"label"}) : Text(k) = Label(l)].at
BranchLine(i) == {k \in Lines({"br"}) : source[k].at = i}
Named(i) == Text(CHOOSE k \in BranchLine(i) : TRUE).to[1]
Onward(i) == IF BranchLine(i) = {} THEN i ELSE DefinedAt(Named(i))
Destination(i) ==
  LET on[n \in 0 .. Cells] == IF n = 0 THEN i ELSE Onward(on[n - 1])
  IN  on[Cells]
Target(k, p) == Cell(source[k].at + p).value
BranchesReach ==
  Assembled => \A k \in Instructions : \A p \in DOMAIN LabelsOf(Text(k)) :
    Destination(Target(k, p)) = Destination(DefinedAt(LabelsOf(Text(k))[p]))

(* The optimiser leaves no branch to another unconditional branch.         *)
NoBranchToBranch ==
  Assembled /\ optimise => \A k \in Instructions : \A p \in DOMAIN LabelsOf(Text(k)) :
    LET i == Target(k, p) IN IsBr(i) => Cell(i + 1).value = i

(* The registers of an instruction are in the part of the frame that their *)
(* type names: locals, globals, arguments, as run() lays frames out.       *)
OperandsInFrame ==
  Assembled => \A k \in Instructions : \A p \in DOMAIN Operands(Text(k)) :
    IsRegister(Text(k), p) =>
      LET r == Operands(Text(k))[p]
          v == Cell(source[k].at + p).value
          top == source[k].locals + globals
      IN  CASE r.type = "r" -> v = r.num /\ v < source[k].locals
            [] r.type = "g" -> v \in source[k].locals .. top - 1
            [] OTHER        -> v >= top

(* The constant pool is what the linker expects: one entry a procedure,    *)
(* with its code or imported, an index exposed once, an exposed entry that *)
(* points to its procedure, and calls to the procedure they name.          *)
Entries(types) == {e \in DOMAIN pool : pool[e].type \in types}
PoolLinked ==
  Assembled =>
    /\ \A d, e \in Entries({"proc"}) : pool[d].name = pool[e].name => d = e
    /\ \A d, e \in Entries({"reg", "expose"}) : pool[d].index = pool[e].index => d = e
    /\ \A e \in Entries({"expose"}) :
         LET d == pool[e].procedure IN
         /\ pool[d].type = "proc" /\ pool[e].imported = (pool[d].start = NONE)
         /\ \E k \in Lines({".expproc", ".declare"}) :
              Text(k).name = pool[d].name /\ Text(k).index = pool[e].index
    /\ \A e \in Entries({"proc"}) :
         pool[e].exposed # NONE => pool[pool[e].exposed].procedure = e
    /\ \A k \in Lines({".proc", ".expproc"}) :
         \E e \in Entries({"proc"}) : pool[e].name = Text(k).name /\ pool[e].start = source[k].at
                                      /\ pool[e].locals = Text(k).n
    /\ \A k \in Lines({"call"}) : pool[Target(k, 2)].name = Text(k).to[1]

(* A label leads into a ring of branches, or to another label that has a   *)
(* branch to itself.                                                       *)
InRing ==
  \E ls \in SUBSET DOMAIN labels :
    /\ \A l \in ls : LeadsTo(l) # {} /\ LeadsTo(l) \subseteq ls
    /\ \E l \in ls : LeadsTo(l) # {l}

(* Once the lines are read the assembler comes to an end just if there is  *)
(* no such ring: optimise_labels finds no more label to move on, and in a  *)
(* ring it always finds one.  "The optimiser should duck out", says its    *)
(* comment, but it does so only for a branch to itself.                    *)
LabelsSettle ==
  /\ phase = "labels" /\ ~ InRing ~> phase = "done"
  /\ [][phase = "labels" /\ InRing => (phase = "labels" /\ InRing)']_vars

=============================================================================
