---------------------------- MODULE LinkerInput ----------------------------
(***************************************************************************)
(* What the linker finds in the constant pools of the modules, as the      *)
(* assembler writes them.  The pools are one sequence here, whose entries  *)
(* carry their module:                                                     *)
(*                                                                         *)
(*   [type |-> "proc", module, name, defined]             PROC_CONST       *)
(*   [type |-> "reg", module, index, global]              EXPOSE_REG_CONST *)
(*   [type |-> "expose", module, index, procedure, imported]               *)
(*                                                        EXPOSE_PROC_CONST*)
(*                                                                         *)
(* where procedure is the position of a "proc" entry of the same module.   *)
(* A program is a record of the pool and, for each module, its number of   *)
(* globals.                                                                *)
(***************************************************************************)
EXTENDS Naturals, Sequences

CONSTANT NumModules    \* num_modules
Modules == 1 .. NumModules

(* A global register of a module: the place of a value.                    *)
CellsOf(p) == UNION {{m} \X (0 .. p.globals[m] - 1) : m \in Modules}

IsEntry(p, e) ==
  /\ e.module \in Modules
  /\ e.type \in {"proc", "reg", "expose"}
  /\ e.type = "proc" => e.defined \in BOOLEAN
  /\ e.type = "reg" => <<e.module, e.global>> \in CellsOf(p)
  /\ e.type = "expose" =>
       /\ e.imported \in BOOLEAN
       /\ e.procedure \in 1 .. Len(p.pool)
       /\ LET procedure == p.pool[e.procedure] IN
          procedure.type = "proc" /\ procedure.module = e.module /\ procedure.defined = ~ e.imported

(* A pool names an index at most once, and exposes a register, or a        *)
(* procedure, once.                                                        *)
ExposedApart(e, f) ==
  /\ e.type = "reg" /\ f.type = "reg" /\ e.module = f.module =>
       e.index # f.index /\ e.global # f.global
  /\ e.type = "expose" /\ f.type = "expose" => e.procedure # f.procedure

(* A procedure has its code here, or is declared under an index.           *)
IsProgram(p) ==
  /\ p.globals \in [Modules -> Nat]
  /\ Len(p.pool) \in Nat \ {0} /\ DOMAIN p.pool = 1 .. Len(p.pool)
  /\ \A k \in 1 .. Len(p.pool) :
       /\ IsEntry(p, p.pool[k])
       /\ p.pool[k].type = "proc" /\ ~ p.pool[k].defined =>
            \E x \in 1 .. Len(p.pool) : p.pool[x].type = "expose" /\ p.pool[x].procedure = k
       /\ \A j \in 1 .. Len(p.pool) \ {k} : ExposedApart(p.pool[j], p.pool[k])

=============================================================================
