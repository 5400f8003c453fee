------------------------------ MODULE Compiler ------------------------------
(***************************************************************************)
(* A procedure goes through the REXX compiler: the optimiser (rxcp_opt.c), *)
(* if it is on, the register walk and the emitter (rxcpemit.c).  The code  *)
(* is then run, by the rules of the interpreter's handlers (rxvmintp.c),   *)
(* and must do what the source says.                                       *)
(*                                                                         *)
(* Registers are pointers to values here: swap exchanges pointers, a call  *)
(* copies the pointers of its arguments, and its result replaces the       *)
(* pointer of the result register by one to a new value.                   *)
(***************************************************************************)
EXTENDS Optimiser, Emitter

CONSTANTS
  Programs,   \* sequence of the procedures to compile, as trees
  Inputs,     \* type -> the values a caller may pass
  Coincidences, \* also procedures that pass the register aN in slot N of a call
  MaxRounds,  \* bound: rounds of the loops of a procedure
  MaxSteps    \* bound: instructions that its code may run

ASSUME ProgramsAssumption == Len(Programs) > 0

VARIABLES
  source,     \* the tree of the procedure before any pass
  optimising  \* context->optimise

vars == <<ast, path, direction, optimiserVars, registerVars, output, source, optimising>>

Init ==
  /\ \E p \in DOMAIN Programs : source = Numbered(Programs[p])
  /\ optimising \in BOOLEAN
  /\ Started(source)
  /\ phase = IF optimising THEN "fold" ELSE "registers"
  /\ changed = FALSE
  /\ constants = {} /\ scan = Symbols
  /\ RegistersInit(DOMAIN source, Range(Symbols))
  /\ output = [n \in DOMAIN source |-> Empty]

OptimiseStep == Optimise /\ UNCHANGED <<registerVars, output, source, optimising>>

Next ==
  \/ OptimiseStep
  \/ phase = "registers" /\ Register /\ UNCHANGED <<optimiserVars, output, source, optimising>>
  \/ /\ phase = "registers" /\ Registered
     /\ phase' = "emit" /\ Restart
     /\ UNCHANGED <<ast, changed, constants, scan, registerVars, output, source, optimising>>
  \/ phase = "emit" /\ Emit /\ UNCHANGED <<optimiserVars, source, optimising>>
  \/ /\ phase = "emit" /\ Walked
     /\ phase' = "done"
     /\ UNCHANGED <<ast, path, direction, changed, constants, scan, registerVars, output, source, optimising>>

Spec == Init /\ [][Next]_vars /\ WF_vars(OptimiseStep)

-----------------------------------------------------------------------------
(* Callers *)

Parameters(t) == [k \in DOMAIN t[2].child |-> t[t[2].child[k]]]
Variable(t, k) == t[t[t[2].child[k]].child[1]].symbol

(* What a caller may pass for a parameter: a value with the flags that the *)
(* emitter sets, see Flags, or nothing for an optional one.                *)
Passed(param) ==
  LET big == param.value_type = "s" /\ ~param.is_ref_arg
      own == IF big THEN {0, REGTP_NOTSYM} ELSE {0}
      given == IF param.is_opt_arg THEN REGTP_VAL ELSE 0
      missing == [given |-> FALSE, value |-> << >>, flags |-> IF big THEN REGTP_NOTSYM ELSE 0] IN
  {[given |-> TRUE, value |-> v, flags |-> given + f] : v \in Inputs[param.value_type], f \in own}
    \cup (IF param.is_opt_arg THEN {missing} ELSE {})

RECURSIVE Arguments1(_, _)
ArgumentLists(t) == Arguments1(t, Len(Parameters(t)))
Arguments1(t, k) ==
  IF k = 0 THEN {<< >>}
  ELSE {Append(rest, a) : rest \in Arguments1(t, k - 1), a \in Passed(Parameters(t)[k])}

-----------------------------------------------------------------------------
(* What the source says *)

Junk == <<"junk">>
Outcome(out, result, after) == [out |-> out, result |-> result, after |-> after]
Said(args, k) == Parameters(source)[k].is_ref_arg /\ args[k].given

Meaning(args) ==
  LET t == source
      Given(x) == {k \in DOMAIN args : Variable(t, k) = x}
      Start(x) ==
        LET k == CHOOSE j \in Given(x) : TRUE
            default == t[2].child[k] IN
        IF Given(x) = {} THEN Junk
        ELSE IF args[k].given THEN args[k].value ELSE Constant(t[t[default].child[2]])
      end == Exec(t, t[1].child[2],
                  [vars |-> [x \in Range(Symbols) |-> Start(x)], out |-> << >>, result |-> "none", jump |-> 0,
                   fuel |-> MaxRounds]) IN
  Outcome(end.out, end.result, [k \in DOMAIN args |-> IF Said(args, k) THEN ToString(end.vars[Variable(t, k)]) ELSE "none"])

-----------------------------------------------------------------------------
(* What the code does *)

Code == output[1].out

(* A value has an integer i, a string s and flags f; a machine has the     *)
(* values and the pointers of the registers to them.                       *)
Value(i, s, f) == [i |-> i, s |-> s, f |-> f]
ValueOf(arg, type) ==
  IF ~arg.given THEN Value(9, Junk, arg.flags)
  ELSE IF type = "s" THEN Value(9, arg.value, arg.flags) ELSE Value(arg.value, Junk, arg.flags)

Machine(args) ==
  LET params == Parameters(source)
      n == Len(args) IN
  [pc |-> 1, out |-> << >>, result |-> "none",
   obj |-> [k \in 1 .. n |-> ValueOf(args[k], params[k].value_type)]
             \o [k \in 1 .. num_registers |-> Value(9, Junk, 0)],
   ptr |-> [r \in {"a"} \X (1 .. n) |-> r[2]] @@ [r \in {"r"} \X (0 .. num_registers - 1) |-> n + 1 + r[2]]]

Field(type) == IF type = "s" THEN "s" ELSE "i"
Read(m, type, operand) ==
  IF operand[1] = "c" THEN operand[2] ELSE m.obj[m.ptr[operand]][Field(type)]
Write(m, type, r, v) == [m EXCEPT !.obj[m.ptr[r]][Field(type)] = v]
Goto(m, code, label) == [m EXCEPT !.pc = CHOOSE k \in DOMAIN code : code[k] = <<"label", label>>]
GotoIf(m, code, label, b) == IF b THEN Goto(m, code, label) ELSE m
HasFlag(m, r, flag) == (m.obj[m.ptr[r]].f \div flag) % 2 = 1

(* A call: the callee sees the values behind the row of registers; it may  *)
(* change what is passed by reference and what is not needed any more, and *)
(* its result is a new value.                                              *)
CallOn(m, result, f, base) ==
  LET params == Params[f]
      Slotted(k) == <<"r", base + k>>
      At(k) == m.obj[m.ptr[Slotted(k)]]
      Given(k) == params[k].opt => HasFlag(m, Slotted(k), REGTP_VAL)
      views == [k \in DOMAIN params |-> IF Given(k) THEN ToString(At(k)[Field(params[k].type)]) ELSE "none"]
      After(k) ==
        LET v == At(k)
            field == Field(params[k].type) IN
        IF params[k].ref THEN (IF Given(k) THEN [v EXCEPT ![field] = Changed(f, params[k].type, @)] ELSE v)
        ELSE IF params[k].type = "s" /\ HasFlag(m, Slotted(k), REGTP_NOTSYM) THEN [v EXCEPT !.s = <<"used">>]
        ELSE v
      called == FoldLeft(LAMBDA obj, k : [obj EXCEPT ![m.ptr[Slotted(k)]] = After(k)],
                         m.obj, [k \in DOMAIN params |-> k]) IN
  [m EXCEPT !.obj = Append(called, Value(9, ResultOf(f, views), 0)),
            !.ptr[result] = Len(m.obj) + 1,
            !.out = Append(@, <<"call", f, views>>)]

(* The handlers of the operators, by the names that Emitter gives them.    *)
Concatenation(op, v, w) == v \o (IF op = "OP_SCONCAT" THEN <<" ">> ELSE << >>) \o w
Comparison(op, v, w) ==
  CASE op = "OP_COMPARE_EQUAL" -> v = w
    [] op = "OP_COMPARE_NEQ" -> v # w
    [] op = "OP_COMPARE_GT" -> v > w
    [] op = "OP_COMPARE_LT" -> v < w
    [] op = "OP_COMPARE_GTE" -> v >= w
    [] op = "OP_COMPARE_LTE" -> v <= w
Computation(op, v, w) ==
  CASE op = "OP_ADD" -> v + w [] op = "OP_MINUS" -> v - w [] op = "OP_MULT" -> v * w
    [] op = "OP_IDIV" -> Quotient(v, w) [] op = "OP_MOD" -> Remainder(v, w)

(* The operands that the machine has an instruction for (rxvminst.c): at   *)
(* most one constant, and the last one if the order does not matter.       *)
IsInstruction(c) ==
  c[1] \in Operators2 =>
    /\ c[4][1] # "c" \/ c[5][1] # "c"
    /\ c[4][1] = "c" => c[1] \notin Commutative

Instruction(m, code) ==
  LET c == code[m.pc]
      n == [m EXCEPT !.pc = @ + 1]
      Operand1(type, k) == Read(m, type, c[k]) IN
  CASE c[1] = "label" -> n
    [] c[1] = "br" -> Goto(n, code, c[2])
    [] c[1] = "brt" -> GotoIf(n, code, c[2], Operand1("i", 3) # 0)
    [] c[1] = "brf" -> GotoIf(n, code, c[2], Operand1("i", 3) = 0)
    [] c[1] = "brtf" -> Goto(n, code, IF Operand1("i", 4) # 0 THEN c[2] ELSE c[3])
    [] c[1] = "bcf" -> IF Operand1("i", 3) = 0 THEN Goto(n, code, c[2]) ELSE Write(n, "i", c[3], Operand1("i", 3) - 1)
    [] c[1] = "brtpandt" -> GotoIf(n, code, c[2], HasFlag(m, c[3], c[4]))
    [] c[1] = "settp" -> [n EXCEPT !.obj[m.ptr[c[2]]].f = c[3]]
    [] c[1] = "swap" -> [n EXCEPT !.ptr[c[2]] = m.ptr[c[3]], !.ptr[c[3]] = m.ptr[c[2]]]
    [] c[1] = "copy" -> [n EXCEPT !.obj[m.ptr[c[2]]] = m.obj[m.ptr[c[3]]]]
    [] c[1] = "scopy" -> Write(n, "s", c[2], Operand1("s", 3))
    [] c[1] = "icopy" -> Write(n, "i", c[2], Operand1("i", 3))
    [] c[1] = "load" -> Write(n, c[3], c[2], c[4])
    [] c[1] = "itos" -> Write(n, "s", c[2], StringOf(Operand1("i", 2)))
    [] c[1] = "inc" -> Write(n, "i", c[2], Operand1("i", 2) + 1)
    [] c[1] \in {"OP_CONCAT", "OP_SCONCAT"} -> Write(n, "s", c[3], Concatenation(c[1], Operand1("s", 4), Operand1("s", 5)))
    [] c[1] \in Comparisons -> Write(n, "i", c[3], Truth(Comparison(c[1], Operand1(c[2], 4), Operand1(c[2], 5))))
    [] c[1] \in Operators2 -> Write(n, "i", c[3], Computation(c[1], Operand1("i", 4), Operand1("i", 5)))
    [] c[1] = "OP_NOT" -> Write(n, "i", c[2], Truth(Operand1("i", 3) = 0))
    [] c[1] = "OP_NEG" -> Write(n, "i", c[2], -Operand1("i", 3))
    [] c[1] = "call" -> CallOn(n, c[2], c[3], c[4])
    [] c[1] = "SAY" -> [n EXCEPT !.out = Append(@, <<"say", ToString(Operand1("s", 2))>>)]
    [] c[1] = "RETURN" -> [n EXCEPT !.result = ToString(Operand1("s", 2))]

RECURSIVE Execute(_, _, _)
Execute(m, code, steps) ==
  IF m.result # "none" \/ steps = 0 THEN m ELSE Execute(Instruction(m, code), code, steps - 1)
Ran(args) == Execute(Machine(args), Code, MaxSteps)

(* The result, the output, and the arguments by reference when it returns. *)
Behaviour(args, m) ==
  Outcome(m.out, m.result,
          [k \in DOMAIN args |-> IF Said(args, k) THEN ToString(m.obj[k][Field(Parameters(source)[k].value_type)])
                                 ELSE "none"])

-----------------------------------------------------------------------------
(* Properties *)

TypeOK ==
  /\ optimising \in BOOLEAN
  /\ phase \in {"fold", "byref", "registers", "emit", "done"} /\ direction \in {"in", "out"}
  /\ changed \in BOOLEAN /\ constants \subseteq Range(Symbols)
  /\ Range(path) \subseteq DOMAIN ast
  /\ Alloc!TypeOK
  /\ \A k \in DOMAIN Code : IsInstruction(Code[k])
  /\ phase = "done" => \A x \in Range(Symbols) :
       symbol_reg[x].num = UNSET_REGISTER
         \/ (IF symbol_reg[x].type = "a" THEN symbol_reg[x].num <= Len(Parameters(source))
             ELSE symbol_reg[x].num \in held)

(* A call is passed a variable in the register aN as the Nth register rN.  *)
Coincident ==
  \E n \in DOMAIN ast : additional[n] > 0 /\
    \E k \in DOMAIN ast[n].child : R(ast[n].child[k]) = <<"a", additional[n] + k>>
Compiled == phase = "done" /\ (Coincidences \/ ~Coincident)

(* Optimised or not, the code returns, says, calls and passes back what    *)
(* the source does, for every caller.                                      *)
CompiledMeaning ==
  Compiled => \A args \in ArgumentLists(source) : Behaviour(args, Ran(args)) = Meaning(args)

(* What a caller passes by value, and did not give away, it finds          *)
(* unchanged: also where the optimiser saved the copy.                     *)
CalleeKeepsArguments ==
  Compiled => \A args \in ArgumentLists(source) :
    LET end == Ran(args) IN
    \A k \in DOMAIN args :
      LET param == Parameters(source)[k]
          field == Field(param.value_type) IN
      args[k].given /\ ~param.is_ref_arg /\ args[k].flags < REGTP_NOTSYM => end.obj[k][field] = args[k].value

(* The passes of the optimiser come to an end.                             *)
OptimiserSettles == <>(phase # "fold")

=============================================================================
