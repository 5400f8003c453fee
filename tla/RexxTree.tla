------------------------------ MODULE RexxTree ------------------------------
(***************************************************************************)
(* The tree of a REXX procedure in the compiler (compiler/rxcpast.c), and  *)
(* what the procedure means.  The tree is as the validator (rxcpbval.c)    *)
(* leaves it: a node has a type of value and the type its parent wants,    *)
(* and arguments carry the flags of the parameter they are for.            *)
(*                                                                         *)
(* Nodes are numbered in the order of the source, 1 is the procedure.  A   *)
(* string is a sequence of tokens, a boolean is 0 or 1.  Floats, ASSEMBLER *)
(* and ADDRESS are left out.                                               *)
(***************************************************************************)
EXTENDS Integers, Sequences, FiniteSets, SequencesExt, TLC

CONSTANTS
  SymbolType,  \* variable -> "s", "i" or "b": string, integer or boolean
  Params       \* external procedure -> its parameters' [type, ref, opt]

-----------------------------------------------------------------------------
(* Building trees *)

(* The value of a constant node.                                           *)
NoValue == [none |-> TRUE]
Stored(type, v) == IF type = "s" THEN [string |-> v] ELSE [int |-> v]
Constant(node) == IF "string" \in DOMAIN node.value THEN node.value.string ELSE node.value.int

Tree(kind, type, trees) ==
  [node |-> [node_type |-> kind, value_type |-> type, target_type |-> type, symbol |-> "",
             value |-> NoValue, name |-> "", is_ref_arg |-> FALSE, is_opt_arg |-> FALSE,
             parent |-> 0, child |-> << >>, association |-> 0],
   trees |-> trees]

(* The parent wants a value of this type.                                  *)
As(type, tree) == [tree EXCEPT !.node.target_type = type]

Text(s) == [Tree("STRING", "s", << >>) EXCEPT !.node.value = Stored("s", <<s>>)]
Number(i) == [Tree("INTEGER", "i", << >>) EXCEPT !.node.value = Stored("i", i)]
Symbol(kind, x) == [Tree(kind, SymbolType[x], << >>) EXCEPT !.node.symbol = x]
Var(x) == Symbol("VAR_SYMBOL", x)
Noval == Tree("NOVAL", "s", << >>)

TypeOfNode(tree) == tree.node.value_type
Joined(op, t, u) == Tree(op, "s", <<As("s", t), As("s", u)>>)
Concat(t, u) == Joined("OP_CONCAT", t, u)
Arithmetic(op, t, u) == Tree(op, "i", <<As("i", t), As("i", u)>>)
Add(t, u) == Arithmetic("OP_ADD", t, u)
Minus(t, u) == Arithmetic("OP_MINUS", t, u)
Compare(op, t, u) ==
  LET type == IF "s" \in {TypeOfNode(t), TypeOfNode(u)} THEN "s" ELSE "i" IN
  Tree(op, "b", <<As(type, t), As(type, u)>>)
Logic(op, t, u) == Tree(op, "b", <<As("b", t), As("b", u)>>)
Not(t) == Tree("OP_NOT", "b", <<As("b", t)>>)
Negate(t) == Tree("OP_NEG", "i", <<As("i", t)>>)

Argument(param, t) ==
  [As(param.type, t) EXCEPT !.node.is_ref_arg = param.ref, !.node.is_opt_arg = param.opt]
Function(f, args) ==
  [Tree("FUNCTION", "s", [k \in 1 .. Len(args) |-> Argument(Params[f][k], args[k])])
     EXCEPT !.node.name = f]

Assign(x, t) == Tree("ASSIGN", SymbolType[x], <<Symbol("VAR_TARGET", x), As(SymbolType[x], t)>>)
Say(t) == Tree("SAY", "s", <<As("s", t)>>)
Call(t) == Tree("CALL", "s", <<t>>)
Return(t) == Tree("RETURN", "s", <<As("s", t)>>)
Nop == Tree("NOP", "s", << >>)
Do(trees) == Tree("INSTRUCTIONS", "s", trees)
If(t, branches) == Tree("IF", "b", <<As("b", t)>> \o branches)
Loop(controls, body) == Tree("DO", "i", <<Tree("REPEAT", "i", controls), Do(body)>>)
To(t) == Tree("TO", "i", <<As("i", t)>>)
By(x, trees) == [Tree("BY", "i", trees) EXCEPT !.node.symbol = x]
For(t) == Tree("FOR", "i", <<As("i", t)>>)
(* LEAVE and ITERATE, with or without the variable of the loop they mean.  *)
LeaveLoop(vars) == Tree("LEAVE", "i", vars)
IterateLoop(vars) == Tree("ITERATE", "i", vars)
While(t) == Tree("WHILE", "b", <<As("b", t)>>)
Until(t) == Tree("UNTIL", "b", <<As("b", t)>>)

(* A parameter: by reference or by value, with a default if it is optional. *)
Arg(x, ref, default) ==
  [Tree("ARG", SymbolType[x],
        <<Symbol("VAR_TARGET", x),
          IF default = << >> THEN Tree("CLASS", SymbolType[x], << >>) ELSE As(SymbolType[x], default[1])>>)
     EXCEPT !.node.is_ref_arg = ref, !.node.is_opt_arg = default # << >>]
Procedure(args, body) == Tree("PROCEDURE", "s", <<Tree("ARGS", "s", args), Do(body)>>)

RECURSIVE Size(_)
Size(tree) == 1 + FoldLeft(LAMBDA sum, t : sum + Size(t), 0, tree.trees)

RECURSIVE Nodes(_, _, _)
Nodes(tree, id, parent) ==
  LET first == [k \in 1 .. Len(tree.trees) |->
                  FoldLeft(LAMBDA sum, t : sum + Size(t), id + 1, SubSeq(tree.trees, 1, k - 1))] IN
  <<[tree.node EXCEPT !.parent = parent, !.child = first]>>
    \o FlattenSeq([k \in 1 .. Len(first) |-> Nodes(tree.trees[k], first[k], id)])

(* The loop around node n that LEAVE and ITERATE mean: the innermost one,  *)
(* or the innermost one that counts x.                                     *)
RECURSIVE LoopAround(_, _, _)
LoopAround(t, n, x) ==
  LET counts == {t[t[c].child[1]].symbol : c \in {c \in Range(t[t[n].child[1]].child) : t[c].node_type = "ASSIGN"}} IN
  IF t[n].node_type = "DO" /\ (x = "" \/ x \in counts) THEN n ELSE LoopAround(t, t[n].parent, x)
Linked(t) ==
  [n \in DOMAIN t |->
     IF t[n].node_type \notin {"LEAVE", "ITERATE"} THEN t[n]
     ELSE [t[n] EXCEPT !.association =
             LoopAround(t, t[n].parent, IF t[n].child = << >> THEN "" ELSE t[t[n].child[1]].symbol)]]
Numbered(tree) == Linked(Nodes(tree, 1, 0))

-----------------------------------------------------------------------------
(* What the compiler asks of a node *)

IsConstantKind(node) == node.node_type \in {"CONSTANT", "STRING", "INTEGER"}
(* The operators of two operands but AND and OR.                           *)
Comparisons == {"OP_COMPARE_EQUAL", "OP_COMPARE_NEQ", "OP_COMPARE_GT", "OP_COMPARE_LT", "OP_COMPARE_GTE", "OP_COMPARE_LTE"}
Operators2 == Comparisons \cup {"OP_ADD", "OP_MINUS", "OP_MULT", "OP_IDIV", "OP_MOD", "OP_CONCAT", "OP_SCONCAT"}
is_constant(node) == IsConstantKind(node) /\ node.value_type = node.target_type
is_var_symbol(node) == node.symbol # "" /\ node.node_type # "FUNCTION"

Promotes(node) == node.target_type = "s" /\ node.value_type # "s"
StringOf(i) == <<ToString(i)>>
Promoted(node, v) == IF Promotes(node) THEN StringOf(v) ELSE v

-----------------------------------------------------------------------------
(* The meaning of a procedure *)

(* What an external procedure returns, and what it does to an argument by  *)
(* reference: something that tells which call it was.                      *)
ResultOf(f, views) == <<ToString(<<f, views>>)>>
Changed(f, type, v) == IF type = "s" THEN <<f>> \o v ELSE v + 1

(* Division rounds towards zero.                                           *)
Abs(i) == IF i < 0 THEN -i ELSE i
Quotient(v, w) == LET q == Abs(v) \div Abs(w) IN IF (v < 0) = (w < 0) THEN q ELSE -q
Remainder(v, w) == v - w * Quotient(v, w)
Truth(b) == IF b THEN 1 ELSE 0
Operated(op, v, w) ==
  CASE op = "OP_CONCAT" -> v \o w
    [] op = "OP_SCONCAT" -> v \o <<" ">> \o w
    [] op = "OP_ADD" -> v + w
    [] op = "OP_MINUS" -> v - w
    [] op = "OP_MULT" -> v * w
    [] op = "OP_IDIV" -> Quotient(v, w)
    [] op = "OP_MOD" -> Remainder(v, w)
    [] op = "OP_COMPARE_EQUAL" -> Truth(v = w)
    [] op = "OP_COMPARE_NEQ" -> Truth(v # w)
    [] op = "OP_COMPARE_GT" -> Truth(v > w)
    [] op = "OP_COMPARE_LT" -> Truth(v < w)
    [] op = "OP_COMPARE_GTE" -> Truth(v >= w)
    [] op = "OP_COMPARE_LTE" -> Truth(v <= w)

RECURSIVE Eval(_, _, _), Arguments(_, _, _, _)
(* An expression's value, in the type its parent wants, and the variables  *)
(* and the output after it.                                                *)
Eval(t, n, st) ==
  LET node == t[n]
      one == Eval(t, node.child[1], st)
      two == Eval(t, node.child[2], one.st)
      Value(v, s) == [value |-> Promoted(node, v), st |-> s] IN
  CASE IsConstantKind(node) -> Value(Constant(node), st)
    [] node.node_type = "VAR_SYMBOL" -> Value(st.vars[node.symbol], st)
    [] node.node_type \in Operators2 -> Value(Operated(node.node_type, one.value, two.value), two.st)
    [] node.node_type = "OP_NOT" -> Value(1 - one.value, one.st)
    [] node.node_type = "OP_NEG" -> Value(-one.value, one.st)
    [] node.node_type = "OP_AND" -> IF one.value = 0 THEN Value(0, one.st) ELSE Value(two.value, two.st)
    [] node.node_type = "OP_OR" -> IF one.value = 1 THEN Value(1, one.st) ELSE Value(two.value, two.st)
    [] node.node_type = "FUNCTION" ->
         LET args == Arguments(t, n, 1, [views |-> << >>, st |-> st])
             refs == {k \in DOMAIN node.child : t[node.child[k]].is_ref_arg}
             After(x) == \E k \in refs : t[node.child[k]].symbol = x
             vars == [x \in DOMAIN st.vars |->
                        IF After(x) THEN Changed(node.name, SymbolType[x], args.st.vars[x])
                        ELSE args.st.vars[x]] IN
         Value(ResultOf(node.name, args.views),
               [args.st EXCEPT !.vars = vars, !.out = Append(@, <<"call", node.name, args.views>>)])

(* An argument as the called procedure sees it; a missing one is "none".   *)
Arguments(t, n, k, so) ==
  IF k > Len(t[n].child) THEN so
  ELSE LET c == t[n].child[k]
           e == Eval(t, c, so.st)
           missing == t[c].node_type = "NOVAL" IN
       Arguments(t, n, k + 1,
                 [views |-> Append(so.views, IF missing THEN "none" ELSE ToString(e.value)),
                  st |-> IF missing THEN so.st ELSE e.st])

RECURSIVE Exec(_, _, _), ExecAll(_, _, _), Iterate(_, _, _, _)
(* st.jump is the LEAVE or ITERATE that is on the way to its loop, or 0.   *)
Stopped(st) == st.result # "none" \/ st.fuel = 0 \/ st.jump # 0
ExecAll(t, ns, st) == IF ns = << >> \/ Stopped(st) THEN st ELSE ExecAll(t, Tail(ns), Exec(t, ns[1], st))
Exec(t, n, st) ==
  LET node == t[n]
      Kid(k) == node.child[k]
      one == Eval(t, Kid(1), st) IN
  CASE node.node_type = "ASSIGN" ->
         LET e == Eval(t, Kid(2), st) IN [e.st EXCEPT !.vars[t[Kid(1)].symbol] = e.value]
    [] node.node_type = "SAY" -> [one.st EXCEPT !.out = Append(@, <<"say", ToString(one.value)>>)]
    [] node.node_type = "CALL" -> one.st
    [] node.node_type = "RETURN" -> [one.st EXCEPT !.result = ToString(one.value)]
    [] node.node_type = "NOP" -> st
    [] node.node_type \in {"LEAVE", "ITERATE"} -> [st EXCEPT !.jump = n]
    [] node.node_type = "INSTRUCTIONS" -> ExecAll(t, node.child, st)
    [] node.node_type = "IF" ->
         IF one.value = 1 THEN Exec(t, Kid(2), one.st)
         ELSE IF Len(node.child) = 3 THEN Exec(t, Kid(3), one.st) ELSE one.st
    [] node.node_type = "DO" ->
         (* The limits of a loop are evaluated once, in their order.       *)
         LET Init(so, c) ==
               IF t[c].node_type = "ASSIGN" THEN [so EXCEPT !.st = Exec(t, c, so.st)]
               ELSE IF t[c].node_type \in {"TO", "BY", "FOR"} /\ t[c].child # << >>
               THEN LET e == Eval(t, t[c].child[1], so.st) IN [limits |-> (c :> e.value) @@ so.limits, st |-> e.st]
               ELSE so
             start == FoldLeft(Init, [limits |-> (0 :> 0), st |-> st], t[Kid(1)].child) IN
         Iterate(t, n, start.limits, start.st)

(* One round of a loop after the other; FOR counts down in limits.         *)
Iterate(t, n, limits, st) ==
  LET controls == t[t[n].child[1]].child
      Find(kind) == SelectSeq(controls, LAMBDA c : t[c].node_type = kind)
      by == IF Find("BY") = << >> THEN 1
            ELSE IF Find("BY")[1] \in DOMAIN limits THEN limits[Find("BY")[1]] ELSE 1
      var == IF Find("ASSIGN") = << >> THEN "" ELSE t[t[Find("ASSIGN")[1]].child[1]].symbol
      Check(so, c) ==
        IF ~so.go THEN so
        ELSE CASE t[c].node_type = "TO" ->
                    [so EXCEPT !.go = IF by >= 0 THEN so.st.vars[var] <= limits[c] ELSE so.st.vars[var] >= limits[c]]
               [] t[c].node_type = "FOR" -> [so EXCEPT !.go = limits[c] > 0]
               [] t[c].node_type = "WHILE" ->
                    LET e == Eval(t, t[c].child[1], so.st) IN [st |-> e.st, go |-> e.value = 1]
               [] OTHER -> so
      Done(so, c) ==
        IF ~so.go \/ t[c].node_type # "UNTIL" THEN so
        ELSE LET e == Eval(t, t[c].child[1], so.st) IN [st |-> e.st, go |-> e.value = 0]
      begin == FoldLeft(Check, [st |-> st, go |-> TRUE], controls)
      body == Exec(t, t[n].child[2], begin.st)
      ends == body.jump # 0 /\ t[body.jump].association = n
      left == ends /\ t[body.jump].node_type = "LEAVE"
      round == IF ends THEN [body EXCEPT !.jump = 0] ELSE body
      end == FoldLeft(Done, [st |-> round, go |-> TRUE], controls)
      next == IF Find("BY") = << >> THEN end.st ELSE [end.st EXCEPT !.vars[var] = @ + by]
      lower == [c \in DOMAIN limits |-> IF c # 0 /\ t[c].node_type = "FOR" THEN limits[c] - 1 ELSE limits[c]] IN
  IF ~begin.go THEN begin.st
  ELSE IF left \/ Stopped(round) THEN round
  ELSE IF ~end.go THEN end.st
  ELSE Iterate(t, n, lower, [next EXCEPT !.fuel = @ - 1])

=============================================================================
