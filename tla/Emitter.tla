------------------------------ MODULE Emitter ------------------------------
(***************************************************************************)
(* The code of a procedure (emit_walker of compiler/rxcpemit.c), from the  *)
(* tree and the registers that the register walk gave its nodes.           *)
(*                                                                         *)
(* An instruction is a tuple of its name and operands, an operand a        *)
(* register <<"r", 1>>, <<"a", 1>> or a constant <<"c", value>>.  A label  *)
(* is the number of the node it is for and a name.  The output of a node   *)
(* is put together on the way out: out is node->output; what controls a    *)
(* loop also has begin, inc and end (output2 to output4).                  *)
(***************************************************************************)
EXTENDS RegisterWalk

VARIABLE output   \* node -> its code

REGTP_VAL == 1
REGTP_NOTSYM == 2

R(n) == <<reg[n].type, reg[n].num>>
Operand(n) == IF Deferred(n) THEN <<"c", Constant(ast[n])>> ELSE R(n)
SameRegister(n, m) == R(n) = R(m)
Label(n, name) == <<"label", <<n, name>> >>
Jump(op, n, name, r) == <<op, <<n, name>>, r>>
Br(n, name) == <<"br", <<n, name>> >>

(* type_promotion                                                          *)
Promotion(n) == IF Promotes(ast[n]) THEN << <<"itos", R(n)>> >> ELSE << >>

CopyTo(op, n, m) == IF SameRegister(n, m) THEN << >> ELSE << <<op, R(n), R(m)>> >>

-----------------------------------------------------------------------------
(* Arguments *)

(* The declaration of a parameter: its default if no argument was given,   *)
(* and by value the copy of the argument, or, if that is a string that its *)
(* caller does not need any more, the argument itself.                     *)
TakeArgumentItself(n, x) == << <<"swap", R(x), R(n)>> >>
TakeArgument(n, x) ==
  IF ast[n].value_type = "s"
  THEN <<Jump("brtpandt", x, "c", R(n)) \o <<REGTP_NOTSYM>>,
         <<"scopy", R(x), R(n)>>,
         Br(x, "d"),
         Label(x, "c"),
         <<"swap", R(x), R(n)>> >>
  ELSE << <<"icopy", R(x), R(n)>> >>

Declaration(n, default) ==
  LET x == ast[n].child[1]
      take == TakeArgument(n, x)
      given == IF ast[n].is_ref_arg THEN <<Label(x, "a")>>
               ELSE <<Br(x, "d"), Label(x, "a")>> \o take \o <<Label(x, "d")>> IN
  IF ast[n].is_opt_arg
  THEN <<Jump("brtpandt", x, "a", R(n)) \o <<REGTP_VAL>> >>
         \o default \o CopyTo("copy", x, ast[n].child[2]) \o given
  ELSE IF ast[n].is_ref_arg THEN << >> ELSE take \o <<Label(x, "d")>>

(* The flags of an argument: it is no variable, it is given.               *)
Flags(c) ==
  LET big == ~ast[c].is_ref_arg /\ ast[c].target_type = "s"
      symbol == ast[c].symbol # "" \/ ast[c].node_type = "FUNCTION"
      value == (IF big /\ ~symbol THEN REGTP_NOTSYM ELSE 0)
                 + (IF ast[c].is_opt_arg /\ ast[c].node_type # "NOVAL" THEN REGTP_VAL ELSE 0) IN
  IF big \/ ast[c].is_opt_arg THEN << <<"settp", R(c), value>> >> ELSE << >>

(* A call: the arguments are computed one after the other and swapped into *)
(* the row of registers behind their number, and swapped back afterwards.  *)
CallSequence(n, outs) ==
  LET args == ast[n].child
      base == additional[n]
      Slotted(k) == <<"r", base + k>>
      Away(k) == R(args[k]) # Slotted(k)
      Argument1(k) == outs[k] \o Flags(args[k])
                        \o (IF Away(k) THEN << <<"swap", Slotted(k), R(args[k])>> >> ELSE << >>)
      into == {k \in DOMAIN args : Away(k) /\ SameRegister(args[k], n)}
      result == IF into = {} THEN R(n) ELSE Slotted(CHOOSE k \in into : \A j \in into : j <= k)
      Back(k) == IF reg[args[k]].num # base + k THEN << <<"swap", R(args[k]), Slotted(k)>> >> ELSE << >> IN
  << <<"load", <<"r", base>>, "i", Len(args)>> >>
    \o FlattenSeq([k \in DOMAIN args |-> Argument1(k)])
    \o << <<"call", result, ast[n].name, base>> >>
    \o FlattenSeq([k \in DOMAIN args |-> Back(k)])
    \o Promotion(n)

-----------------------------------------------------------------------------
(* Expressions *)

Operation(n, outs) ==
  LET one == ast[n].child[1]
      two == ast[n].child[2] IN
  (IF Deferred(one) THEN << >> ELSE outs[1])
    \o (IF Deferred(two) THEN << >> ELSE outs[2])
    \o << <<ast[n].node_type, ast[one].target_type, R(n), Operand(one), Operand(two)>> >>
    \o Promotion(n)

(* The second operand is computed only if the first one does not decide.   *)
Logic2(n, outs) ==
  LET one == ast[n].child[1]
      two == ast[n].child[2]
      decided == IF ast[n].node_type = "OP_AND" THEN 0 ELSE 1
      branch == IF decided = 0 THEN "brf" ELSE "brt" IN
  outs[1]
    \o (IF SameRegister(n, one)
        THEN <<Jump(branch, n, "end", R(one))>> \o outs[2] \o CopyTo("icopy", n, two)
        ELSE <<Jump(branch, n, "decided", R(one))>> \o outs[2] \o CopyTo("icopy", n, two)
               \o <<Br(n, "end"), Label(n, "decided"), <<"load", R(n), "i", decided>> >>)
    \o <<Label(n, "end")>>
    \o Promotion(n)

-----------------------------------------------------------------------------
(* Loops *)

(* The end of a loop over a variable, by the sign of its step.             *)
ToCheck(n) ==
  LET repeat == ast[n].parent
      done == <<ast[repeat].parent, "doend">>
      siblings == ast[repeat].child
      by == SelectSeq(siblings, LAMBDA c : ast[c].node_type = "BY")
      step == IF by = << >> THEN << >> ELSE ast[by[1]].child
      Passed(op) == <<op, "i", <<"r", 0>>, R(repeat), R(ast[n].child[1])>>
      BrtEnd == <<"brt", done, <<"r", 0>> >> IN
  IF step = << >> \/ (is_constant(ast[step[1]]) /\ Constant(ast[step[1]]) >= 0)
  THEN <<Passed("OP_COMPARE_GT"), BrtEnd>>
  ELSE IF is_constant(ast[step[1]]) THEN <<Passed("OP_COMPARE_LT"), BrtEnd>>
  ELSE <<<<"OP_COMPARE_LT", "i", <<"r", 0>>, R(step[1]), <<"c", 0>> >>,
         <<"brt", <<ast[repeat].parent, "doneg1">>, <<"r", 0>> >>,
         Passed("OP_COMPARE_GT"),
         <<"brtf", done, <<ast[repeat].parent, "doneg2">>, <<"r", 0>> >>,
         Label(ast[repeat].parent, "doneg1"),
         Passed("OP_COMPARE_LT"), BrtEnd,
         Label(ast[repeat].parent, "doneg2")>>

Empty == [out |-> << >>, begin |-> << >>, inc |-> << >>, end |-> << >>]
Out(code) == [Empty EXCEPT !.out = code]

(* A node that controls a loop.                                            *)
Control(n, outs) ==
  LET repeat == ast[n].parent
      loop == ast[repeat].parent IN
  CASE ast[n].node_type = "FOR" ->
         [Empty EXCEPT !.out = outs[1] \o CopyTo("icopy", n, ast[n].child[1]),
                       !.begin = <<Jump("bcf", loop, "doend", R(n))>>]
    [] ast[n].node_type = "TO" -> [Empty EXCEPT !.out = outs[1], !.begin = ToCheck(n)]
    [] ast[n].node_type = "BY" ->
         IF ast[n].child = << >> THEN [Empty EXCEPT !.inc = << <<"inc", R(repeat)>> >>]
         ELSE [Empty EXCEPT !.out = outs[1],
                            !.inc = << <<"OP_ADD", "i", R(repeat), R(ast[n].child[1]), R(repeat)>> >>]
    [] ast[n].node_type = "WHILE" ->
         [Empty EXCEPT !.begin = outs[1] \o <<Jump("brf", loop, "doend", R(n))>>]
    [] ast[n].node_type = "UNTIL" ->
         [Empty EXCEPT !.end = outs[1] \o <<Jump("brt", loop, "doend", R(n))>>]

(* A loop: its limits, then round after round the checks at the beginning, *)
(* the body, the checks at the end and the step.                           *)
LoopCode(n, repeat, body) ==
  repeat.out
    \o <<Label(n, "dostart")>> \o repeat.begin
    \o body.out
    \o <<Label(n, "doinc")>> \o repeat.end
    \o repeat.inc
    \o <<Br(n, "dostart"), Label(n, "doend")>>

(* LEAVE and ITERATE                                                       *)
LoopJump(n) == <<Br(ast[n].association, IF ast[n].node_type = "LEAVE" THEN "doend" ELSE "doinc")>>

-----------------------------------------------------------------------------
(* emit_walker on the way out, bottom up                                   *)

Conditional(n, outs) ==
  outs[1] \o <<Jump("brf", n, "iffalse", R(n))>> \o outs[2]
    \o (IF Len(outs) = 3
        THEN <<Br(n, "ifend"), Label(n, "iffalse")>> \o outs[3] \o <<Label(n, "ifend")>>
        ELSE <<Label(n, "iffalse")>>)

Emitted(n) ==
  LET node == ast[n]
      kids == [k \in DOMAIN node.child |-> output[node.child[k]]]
      outs == [k \in DOMAIN kids |-> kids[k].out]
      one == node.child[1] IN
  CASE node.node_type \in {"PROCEDURE", "ARGS", "INSTRUCTIONS", "CALL"} -> Out(FlattenSeq(outs))
    [] node.node_type = "ARG" -> Out(Declaration(n, outs[2]))
    [] node.node_type = "FUNCTION" -> Out(CallSequence(n, outs))
    [] node.node_type \in Commutative \cup Ordered -> Out(Operation(n, outs))
    [] node.node_type \in Logical -> Out(Logic2(n, outs))
    [] node.node_type \in {"OP_NOT", "OP_NEG"} ->
         Out(outs[1] \o << <<node.node_type, R(n), R(one)>> >> \o Promotion(n))
    [] node.node_type = "VAR_SYMBOL" -> Out(Promotion(n))
    [] node.node_type \in {"STRING", "INTEGER", "CONSTANT"} ->
         Out(IF Deferred(n) THEN << >>
             ELSE << <<"load", R(n), node.value_type, Constant(node)>> >> \o Promotion(n))
    [] node.node_type = "ASSIGN" -> Out(outs[2] \o CopyTo("copy", one, node.child[2]))
    [] node.node_type \in {"SAY", "RETURN"} ->
         Out((IF Deferred(one) THEN << >> ELSE outs[1]) \o << <<node.node_type, Operand(one)>> >>)
    [] node.node_type = "IF" -> Out(Conditional(n, outs))
    [] node.node_type = "DO" -> Out(LoopCode(n, kids[1], kids[2]))
    [] node.node_type \in {"LEAVE", "ITERATE"} -> Out(LoopJump(n))
    [] node.node_type = "REPEAT" ->
         FoldLeft(LAMBDA all, k : [out |-> all.out \o k.out, begin |-> all.begin \o k.begin,
                                   inc |-> all.inc \o k.inc, end |-> all.end \o k.end],
                  Empty, kids)
    [] node.node_type \in {"TO", "BY", "FOR", "WHILE", "UNTIL"} -> Control(n, outs)
    [] OTHER -> Empty   \* NOP, NOVAL, VAR_TARGET, CLASS

EmitIn ==
  /\ Entering
  /\ Enter(ast)
  /\ UNCHANGED <<ast, registerVars, output>>
EmitOut ==
  /\ Leaving
  /\ output' = [output EXCEPT ![Node] = Emitted(Node)]
  /\ Leave(ast)
  /\ UNCHANGED <<ast, registerVars>>

Emit == EmitIn \/ EmitOut

=============================================================================
