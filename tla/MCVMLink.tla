------------------------------ MODULE MCVMLink ------------------------------
(***************************************************************************)
(* The programs of three modules over two indices: what each module does   *)
(* with each index, in every combination the assembler accepts.            *)
(***************************************************************************)
EXTENDS VMLink, SequencesExt

Index == {"x", "y"}

(* An index is exposed by at most one line of a module, and a register     *)
(* under at most one index.                                                *)
Uses == {"none", "export", "import", "g0", "g1"}
ModuleUses ==
  {u \in [Index -> Uses] : u["x"] \in {"g0", "g1"} => u["x"] # u["y"]}

(* The constant pool of module m, behind the n entries of the ones before: *)
(* main, then two entries for each procedure and one for each register.    *)
Procedure(m, x, use, n) ==
  << [type |-> "proc", module |-> m, name |-> x, defined |-> use = "export"],
     [type |-> "expose", module |-> m, index |-> x, procedure |-> n + 1,
      imported |-> use = "import"] >>
Entries(m, x, use, n) ==
  IF use = "none" THEN << >>
  ELSE IF use \in {"export", "import"} THEN Procedure(m, x, use, n)
  ELSE << [type |-> "reg", module |-> m, index |-> x, global |-> IF use = "g0" THEN 0 ELSE 1] >>
ModulePool(m, u, n) ==
  LET main == IF m = 1 THEN << [type |-> "proc", module |-> m, name |-> "main", defined |-> TRUE] >>
              ELSE << >>
      first == main \o Entries(m, "x", u["x"], n + Len(main))
  IN  first \o Entries(m, "y", u["y"], n + Len(first))

ProgramOf(us) ==
  [pool |-> LET p1 == ModulePool(1, us[1], 0)
                p2 == p1 \o ModulePool(2, us[2], Len(p1))
            IN  p2 \o ModulePool(3, us[3], Len(p2)),
   globals |-> [m \in 1 .. 3 |-> 2]]

MCPrograms == {ProgramOf(us) : us \in [1 .. 3 -> ModuleUses]}

=============================================================================
