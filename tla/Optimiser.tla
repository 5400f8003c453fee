----------------------------- MODULE Optimiser -----------------------------
(***************************************************************************)
(* The optimiser of the REXX compiler (compiler/rxcp_opt.c).  It folds     *)
(* constants bottom up, replaces a symbol that is assigned one constant    *)
(* and nothing else by that constant, and repeats both until neither       *)
(* changes the tree; then it makes arguments by value that are only read   *)
(* arguments by reference.  Control flow is not looked at.                 *)
(*                                                                         *)
(* One step is one call of the folding handler, or the look at one symbol. *)
(* The last pass is one step.                                              *)
(***************************************************************************)
EXTENDS RexxTree, TreeWalk

CONSTANT Symbols   \* the symbols of a procedure in the order of its scope

VARIABLES
  phase,       \* "fold", "byref", then "registers", "emit" and "done"
  changed,     \* payload.changed
  constants,   \* the symbols marked is_constant
  scan         \* the symbols of the scope that the round has yet to look at

optimiserVars == <<phase, changed, constants, scan>>

-----------------------------------------------------------------------------
(* Constants *)

(* string_to_type after the value was set: a constant takes the type that  *)
(* its parent wants.                                                       *)
string_to_type(node) ==
  [node EXCEPT !.value_type = node.target_type,
               !.value = Stored(node.target_type, Promoted(node, Constant(node)))]

(* rewrite_to_..._constant                                                 *)
rewrite_to_constant(t, n, type, v) ==
  [t EXCEPT ![n] = string_to_type([@ EXCEPT !.node_type = "CONSTANT", !.value_type = type,
                                            !.value = Stored(type, v), !.child = << >>])]

IsConstant(k) == Kid(k).node_type = "CONSTANT"

(* compare_nodes: strings are tokens here, of which only equality counts.  *)
compare_nodes(one, two) ==
  IF Constant(one) = Constant(two) THEN 0
  ELSE IF one.value_type = "s" THEN 1
  ELSE IF Constant(one) > Constant(two) THEN 1 ELSE -1

(* The value of an operator on constants.                                  *)
Folded ==
  LET one == Constant(Kid(1))
      two == Constant(Kid(2))
      compare == compare_nodes(Kid(1), Kid(2)) IN
  CASE Kind = "OP_COMPARE_EQUAL" -> Truth(compare = 0)
    [] Kind = "OP_COMPARE_NEQ" -> Truth(compare # 0)
    [] Kind = "OP_COMPARE_GT" -> Truth(compare > 0)
    [] Kind = "OP_COMPARE_LT" -> Truth(compare < 0)
    [] Kind = "OP_COMPARE_GTE" -> Truth(compare >= 0)
    [] Kind = "OP_COMPARE_LTE" -> Truth(compare <= 0)
    [] Kind = "OP_SCONCAT" -> one \o <<" ">> \o two
    [] Kind = "OP_CONCAT" -> one \o two
    [] Kind = "OP_ADD" -> one + two
    [] Kind = "OP_MINUS" -> one - two
    [] Kind = "OP_MULT" -> one * two
    [] Kind = "OP_IDIV" -> Quotient(one, two)
    [] Kind = "OP_MOD" -> Remainder(one, two)
    [] Kind = "OP_NOT" -> Truth(one = 0)
    [] Kind = "OP_NEG" -> -one
Operators == Operators2 \cup {"OP_NOT", "OP_NEG"}

-----------------------------------------------------------------------------
(* opt1_walker *)

Folding == phase = "fold" /\ Leaving
Rewrite(t) ==
  /\ ast' = t
  /\ changed' = TRUE
  /\ Leave(t)
  /\ UNCHANGED <<phase, constants, scan>>

FoldIn ==
  /\ phase = "fold" /\ Entering
  /\ Enter(ast)
  /\ UNCHANGED <<ast, optimiserVars>>

(* An IF on a constant becomes the branch it takes, or nothing.            *)
FoldableIf == Kind = "IF" /\ IsConstant(1)
FoldIf ==
  /\ Folding /\ FoldableIf
  /\ LET kept == IF Constant(Kid(1)) # 0 THEN 2 ELSE 3 IN
     Rewrite(IF kept <= Len(Kids) /\ Kid(kept).node_type # "NOP" THEN ast_rpl(ast, Node, Kids[kept])
             ELSE ast_del(ast, Node))

(* An AND or OR with a constant becomes a constant or the other operand.   *)
FoldableLogic == Kind \in {"OP_AND", "OP_OR"} /\ (IsConstant(1) \/ IsConstant(2))
FoldLogic ==
  /\ Folding /\ FoldableLogic
  /\ LET decisive == IF Kind = "OP_AND" THEN 0 ELSE 1
         Decides(k) == IsConstant(k) /\ Truth(Constant(Kid(k)) # 0) = decisive IN
     \/ /\ Decides(1) \/ Decides(2)
        /\ Rewrite(rewrite_to_constant(ast, Node, "b", decisive))
     \/ /\ ~Decides(1) /\ ~Decides(2)
        /\ Rewrite(IF IsConstant(1) /\ IsConstant(2) THEN rewrite_to_constant(ast, Node, "b", 1 - decisive)
                   ELSE ast_rpl(ast, Node, Kids[IF IsConstant(1) THEN 2 ELSE 1]))

FoldableOperator == Kind \in Operators /\ \A k \in DOMAIN Kids : IsConstant(k)
FoldOperator ==
  /\ Folding /\ FoldableOperator
  /\ Rewrite(rewrite_to_constant(ast, Node, ast[Node].value_type, Folded))

AnyLiteral == Kind \in {"STRING", "INTEGER", "CONSTANT"}
Literal == Kind \in {"STRING", "INTEGER"}
FoldLiteral ==
  /\ Folding /\ Literal
  /\ Rewrite([ast EXCEPT ![Node] = string_to_type([@ EXCEPT !.node_type = "CONSTANT"])])

FoldNothing ==
  /\ Folding /\ ~FoldableIf /\ ~FoldableLogic /\ ~FoldableOperator /\ ~Literal
  /\ Leave(ast)
  /\ UNCHANGED <<ast, optimiserVars>>

-----------------------------------------------------------------------------
(* Symbols *)

(* The nodes of a symbol, in the order of the source, also those that are  *)
(* no longer in the tree.                                                  *)
NodesOf(t, x) == SelectSeq([n \in 1 .. Len(t) |-> n], LAMBDA n : t[n].symbol = x)

writeUsageTarget(node) == node.node_type \in {"VAR_TARGET", "BY"}
writeUsage(node) ==
  node.node_type \in {"VAR_TARGET", "BY"} \/ (node.node_type = "VAR_SYMBOL" /\ node.is_ref_arg)
WrittenLater(t, x) == \E n \in Range(Tail(NodesOf(t, x))) : writeUsage(t[n])

(* The declaration of a symbol is the assignment of a constant.            *)
Declares(x) ==
  /\ NodesOf(ast, x) # << >>
  /\ LET first == NodesOf(ast, x)[1]
         assign == ast[first].parent IN
     /\ ast[first].node_type = "VAR_TARGET" /\ ast[assign].node_type = "ASSIGN"
     /\ ast[ast[assign].child[2]].node_type = "CONSTANT"
IsConstantSymbol(x) == x \notin constants /\ Declares(x) /\ ~WrittenLater(ast, x)

(* constant_symbols_in_scope, for one symbol: every other use becomes the  *)
(* constant, and the assignment is taken from the tree.                    *)
Inlined(x) ==
  LET first == NodesOf(ast, x)[1]
      from == ast[ast[ast[first].parent].child[2]] IN
  [n \in DOMAIN ast |->
     IF ast[n].symbol # x \/ n = first THEN ast[n]
     ELSE string_to_type([ast[n] EXCEPT !.node_type = "CONSTANT", !.value_type = from.value_type,
                                        !.value = from.value])]
constant_symbols_in_scope ==
  /\ phase = "fold" /\ Walked /\ scan # << >>
  /\ LET x == scan[1] IN
     IF IsConstantSymbol(x)
     THEN /\ ast' = ast_del(Inlined(x), ast[NodesOf(ast, x)[1]].parent)
          /\ constants' = constants \cup {x}
          /\ changed' = TRUE
     ELSE UNCHANGED <<ast, constants, changed>>
  /\ scan' = Tail(scan)
  /\ UNCHANGED <<phase, path, direction>>

(* The end of a round of optimise.                                         *)
Round ==
  /\ phase = "fold" /\ Walked /\ scan = << >>
  /\ phase' = IF changed THEN "fold" ELSE "byref"
  /\ changed' = FALSE
  /\ scan' = Symbols
  /\ Restart
  /\ UNCHANGED <<ast, constants>>

(* opt2_walker: an argument by value that is never written after its       *)
(* declaration is passed by reference.                                     *)
ReadOnly(x) == ~WrittenLater(ast, x)
ByReference ==
  /\ phase = "byref"
  /\ ast' = [n \in DOMAIN ast |->
               IF ast[n].node_type = "ARG" /\ ~ast[n].is_ref_arg /\ ReadOnly(ast[ast[n].child[1]].symbol)
               THEN [ast[n] EXCEPT !.is_ref_arg = TRUE] ELSE ast[n]]
  /\ phase' = "registers"
  /\ UNCHANGED <<path, direction, changed, constants, scan>>

Optimise ==
  \/ FoldIn \/ FoldIf \/ FoldLogic \/ FoldOperator \/ FoldLiteral \/ FoldNothing
  \/ constant_symbols_in_scope \/ Round
  \/ ByReference

=============================================================================
