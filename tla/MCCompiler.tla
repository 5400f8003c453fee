----------------------------- MODULE MCCompiler -----------------------------
(***************************************************************************)
(* Small procedures for the compiler.                                      *)
(***************************************************************************)
EXTENDS Compiler

(* s, r, t and u are strings, i, q and c integers; r and q are parameters  *)
(* by reference, o and n optional ones.                                    *)
MCSymbols == <<"c", "i", "n", "o", "q", "r", "s", "t", "u">>
MCSymbolType == [x \in Range(MCSymbols) |-> IF x \in {"c", "i", "n", "q"} THEN "i" ELSE "s"]
MCInputs == [s |-> {<<"x">>}, i |-> {1, 3}]

Param(type, ref, opt) == [type |-> type, ref |-> ref, opt |-> opt]
MCParams ==
  [f |-> <<Param("s", FALSE, FALSE), Param("s", TRUE, FALSE)>>,
   g |-> <<Param("i", FALSE, FALSE), Param("s", FALSE, TRUE)>>,
   h |-> <<Param("s", FALSE, FALSE)>>,
   k |-> <<Param("i", TRUE, FALSE), Param("s", FALSE, FALSE)>>]

Each(Of(_), seq) == [k \in DOMAIN seq |-> Of(seq[k])]
Pairs(Of(_, _), left, right) == FlattenSeq(Each(LAMBDA l : Each(LAMBDA r : Of(l, r), right), left))

(* Strings, numbers and truth values.                                      *)
Strings ==
  <<Var("s"), Concat(Var("s"), Text("y")), Concat(Text("y"), Text("z")), Concat(Var("i"), Concat(Var("s"), Var("i"))),
    Function("h", <<Var("s")>>), Function("h", <<Concat(Var("i"), Text("y"))>>),
    Function("f", <<Var("s"), Var("r")>>), Function("f", <<Function("h", <<Text("y")>>), Var("r")>>),
    Function("g", <<Var("i"), Noval>>), Function("g", <<Add(Number(1), Var("i")), Var("s")>>),
    Function("k", <<Var("q"), Function("g", <<Var("i"), Var("s")>>)>>),
    Concat(Function("h", <<Var("s")>>), Var("i"))>>
Ints ==
  <<Var("i"), Add(Var("i"), Number(2)), Minus(Number(3), Add(Number(1), Number(1))), Minus(Var("i"), Var("q")),
    Negate(Var("i")), Add(Minus(Var("i"), Number(1)), Negate(Var("q"))),
    Arithmetic("OP_MULT", Number(2), Add(Number(2), Var("q"))), Arithmetic("OP_IDIV", Minus(Var("q"), Number(6)), Var("i")),
    Arithmetic("OP_MOD", Number(7), Add(Var("i"), Var("q"))),
    Minus(Arithmetic("OP_IDIV", Negate(Number(7)), Number(2)), Arithmetic("OP_MOD", Negate(Number(7)), Number(2))),
    Arithmetic("OP_MULT", Arithmetic("OP_MULT", Number(2), Number(3)), Var("i"))>>
Truths ==
  <<Compare("OP_COMPARE_EQUAL", Number(1), Var("i")), Compare("OP_COMPARE_GT", Var("i"), Number(2)),
    Compare("OP_COMPARE_EQUAL", Function("h", <<Var("s")>>), Var("r")),
    Compare("OP_COMPARE_EQUAL", Number(1), Number(2))>>
Both(op, left, right) == Pairs(LAMBDA t, u : Logic(op, t, u), left, right)
Conditions == Both("OP_AND", Truths, Each(Not, Truths)) \o Both("OP_OR", Truths, Truths)
(* AND and OR as values: a truth value that is said.                       *)
Values == Both("OP_AND", SubSeq(Truths, 1, 3), SubSeq(Truths, 1, 2))
            \o <<Not(Truths[2]), Truths[1], Truths[3], Concat(Truths[2], Truths[3]), Logic("OP_OR", Truths[3], Truths[2])>>

(* Every comparison of two constants and of one with a variable.           *)
Compared ==
  Each(LAMBDA op : Concat(Compare(op, Number(2), Var("i")), Compare(op, Number(3), Number(1))),
       <<"OP_COMPARE_NEQ", "OP_COMPARE_LT", "OP_COMPARE_GTE", "OP_COMPARE_LTE">>)
    \o <<Compare("OP_COMPARE_NEQ", Text("x"), Var("s")), Compare("OP_COMPARE_NEQ", Text("x"), Text("y")),
         Joined("OP_SCONCAT", Text("x"), Joined("OP_SCONCAT", Var("i"), Text("y"))),
         Joined("OP_SCONCAT", Text("x"), Text("y"))>>

(* A procedure with parameters of each type, by value and by reference.    *)
Mixed(body) ==
  Procedure(<<Arg("r", TRUE, << >>), Arg("q", TRUE, << >>), Arg("s", FALSE, << >>), Arg("i", FALSE, << >>)>>,
            body \o <<Say(Var("s")), Return(Var("r"))>>)
(* The same with optional ones.                                            *)
Optional(body) ==
  Procedure(<<Arg("i", FALSE, << >>), Arg("o", FALSE, <<Text("d")>>), Arg("n", TRUE, <<Number(7)>>),
              Arg("s", FALSE, <<Text("e")>>)>>,
            body \o <<Say(Var("o")), Return(Var("n"))>>)

Statements ==
  Each(LAMBDA e : <<Assign("t", e), Say(Concat(Var("t"), Var("t")))>>, Strings \o Pairs(Concat, Strings, Strings))
    \o Each(LAMBDA e : <<Say(e)>>, Pairs(LAMBDA t, u : Function("g", <<t, u>>), SubSeq(Ints, 2, 5), SubSeq(Strings, 3, 9)))
    \o Each(LAMBDA e : <<Assign("c", e), Say(Var("c"))>>, Ints)
    \o Each(LAMBDA e : <<Say(e)>>, Values \o Compared)
    \o Each(LAMBDA e : <<If(e, <<Say(Var("i")), Do(<<Say(Text("no")), Assign("q", Var("i"))>>)>>)>>, Conditions)
    \o <<<<Call(Function("f", <<Var("s"), Var("r")>>))>>,
         <<If(Truths[2], <<Say(Text("yes"))>>), If(Truths[4], <<Nop, Nop>>)>>,
         <<Assign("s", Concat(Var("s"), Text("y"))), Assign("i", Add(Var("i"), Var("q"))), Assign("r", Var("s"))>>,
         <<Assign("c", Number(5)), Say(Add(Var("c"), Var("i"))), If(Compare("OP_COMPARE_GT", Var("c"), Number(4)), <<Say(Var("c"))>>)>>,
         <<Assign("t", Text("y")), Assign("c", Number(1)), Say(Function("f", <<Concat(Var("t"), Var("c")), Var("r")>>)), Say(Function("h", <<Var("t")>>))>>,
         <<Assign("u", Text("y")), Call(Function("f", <<Var("s"), Var("u")>>)), Say(Var("u"))>>,
         <<Assign("c", Number(5)), Assign("c", Add(Var("c"), Number(1))), Say(Var("c"))>> >>

Counting(x, controls) == <<Loop(<<Assign(x, Number(1))>> \o controls, <<Say(Var(x))>>)>>
Loops ==
  <<Counting("c", <<To(Var("i")), By("c", << >>)>>),
    Counting("c", <<To(Add(Var("i"), Number(1))), By("c", <<Number(2)>>)>>),
    Counting("c", <<To(Negate(Var("i"))), By("c", <<Negate(Number(1))>>)>>),
    Counting("c", <<To(Number(3)), By("c", <<Var("i")>>)>>),
    Counting("c", <<To(Negate(Number(3))), By("c", <<Negate(Var("i"))>>)>>),
    Counting("c", <<By("c", <<Minus(Var("i"), Number(2))>>), For(Number(3))>>),
    Counting("c", <<By("c", << >>), While(Compare("OP_COMPARE_GT", Add(Var("i"), Number(1)), Var("c")))>>),
    Counting("c", <<By("c", << >>), For(Var("i")), Until(Compare("OP_COMPARE_EQUAL", Var("c"), Number(2)))>>),
    <<Loop(<<For(Var("i"))>>, <<Say(Function("h", <<Var("s")>>))>>), Say(Add(Var("i"), Number(1)))>>,
    <<Loop(<<For(Add(Var("i"), Number(1)))>>, <<Assign("s", Concat(Var("s"), Text("y")))>>)>>,
    <<Loop(<<While(Compare("OP_COMPARE_GT", Number(3), Var("i")))>>, <<Assign("i", Add(Var("i"), Number(1)))>>)>>,
    <<Loop(<<Until(Logic("OP_OR", Compare("OP_COMPARE_GT", Var("i"), Number(2)), Compare("OP_COMPARE_EQUAL", Var("s"), Text("x"))))>>,
           <<Assign("i", Add(Var("i"), Number(1)))>>)>> >>

(* LEAVE and ITERATE, of a loop and of the one around it.                  *)
Twice(body) == Loop(<<For(Number(2))>>, <<Say(Var("s"))>> \o body \o <<Say(Text("no"))>>)
Jumps ==
  LET Two == Compare("OP_COMPARE_EQUAL", Var("c"), Number(2))
      Count(controls, body) == <<Loop(<<Assign("c", Number(1))>> \o controls, body \o <<Say(Var("c"))>>), Say(Var("c"))>>
      Each3(body) == Count(<<To(Number(3)), By("c", << >>)>>, body) IN
  <<Each3(<<If(Two, <<LeaveLoop(<< >>)>>)>>),
    Each3(<<If(Compare("OP_COMPARE_GT", Var("i"), Var("c")), <<IterateLoop(<< >>)>>)>>),
    Count(<<By("c", <<Number(2)>>), Until(Compare("OP_COMPARE_GT", Var("c"), Var("i")))>>,
          <<If(Two, <<LeaveLoop(<< >>), IterateLoop(<< >>)>>)>>),
    Each3(<<Twice(<<If(Two, <<LeaveLoop(<<Var("c")>>)>>)>>)>>),
    Each3(<<Twice(<<If(Two, <<LeaveLoop(<< >>), IterateLoop(<<Var("c")>>)>>)>>)>>),
    Each3(<<Twice(<<If(Compare("OP_COMPARE_EQUAL", Number(1), Number(2)), <<LeaveLoop(<< >>), IterateLoop(<< >>)>>)>>)>>)>>

Options ==
  <<<<Say(Var("s"))>>,
    <<Assign("o", Concat(Var("o"), Var("s"))), Assign("n", Add(Var("n"), Var("i")))>>,
    <<Say(Function("g", <<Var("n"), Var("o")>>)), Assign("s", Text("y")), Say(Var("s"))>>,
    <<Say(Function("k", <<Var("n"), Function("g", <<Var("i"), Noval>>)>>))>> >>

(* Calls whose arguments are swapped into place in vain: a variable that   *)
(* is used again in a later argument, and the parameter a2 that is passed  *)
(* as the first argument of a call, in r2.                                 *)
Swaps ==
  <<Mixed(<<Assign("t", Function("g", <<Var("i"), Concat(Var("i"), Text("y"))>>))>>),
    Mixed(<<Call(Function("k", <<Var("q"), Text("y")>>)), Say(Var("q"))>>)>>
(* A variable is assigned once, in a branch.                               *)
Branch ==
  <<Mixed(<<If(Truths[2], <<Assign("c", Number(5)), Say(Text("no"))>>)>>)>>

MCPrograms == Each(Mixed, Statements \o Loops \o Jumps) \o Each(Optional, Options)

=============================================================================
