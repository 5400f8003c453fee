---------------------------- MODULE MCAssembler -----------------------------
(***************************************************************************)
(* Small modules for the assembler: one kind is about labels and branches  *)
(* in a single procedure, the other about procedures, exposed symbols and  *)
(* registers.                                                              *)
(***************************************************************************)
EXTENDS Assembler

R(n) == [type |-> "r", num |-> n]
G(n) == [type |-> "g", num |-> n]
A(n) == [type |-> "a", num |-> n]

Globals(n) == [op |-> ".globals", n |-> n]
ExposeG(n, index) == [op |-> ".exposereg", n |-> n, index |-> index]
Function(name, n) == [op |-> ".proc", name |-> name, n |-> n]
Exporting(name, n, index) == [op |-> ".expproc", name |-> name, n |-> n, index |-> index]
Importing(name, index) == [op |-> ".declare", name |-> name, index |-> index]

BranchLines ==
  {Function("main", 1), Label("A"), Label("B"), Label("C"),
   Line("br", <<"A">>, << >>), Line("br", <<"B">>, << >>), Line("br", <<"C">>, << >>),
   Line("brtf", <<"A", "B">>, <<R(0)>>), Line("brt", <<"C">>, <<R(0)>>)}

SymbolLines ==
  {Globals(0), Globals(1), ExposeG(0, "x"), ExposeG(0, "y"),
   Function("f", 1), Function("g", 2), Exporting("f", 1, "x"), Importing("g", "x"), Importing("g", "y"),
   Line("call", <<"g">>, <<R(0), R(1)>>), Line("call", <<"f">>, <<G(0), A(0)>>),
   Line("invalid", << >>, << >>)}

MCDialect == [branches |-> BranchLines, symbols |-> SymbolLines]
MCMaxLines == [branches |-> 6, symbols |-> 5]

=============================================================================
