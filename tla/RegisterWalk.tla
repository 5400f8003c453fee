---------------------------- MODULE RegisterWalk ----------------------------
(***************************************************************************)
(* register_walker of the emitter (compiler/rxcpemit.c) gives every node   *)
(* the register of its value.  It asks the allocator for them on the way   *)
(* out, after the registers of the operands were returned; a node whose    *)
(* parent gives it a register later, or needs none, is marked on the way   *)
(* in with DONT_ASSIGN_REGISTER.                                           *)
(*                                                                         *)
(* A handler is one step that leaves its calls of the allocator in calls,  *)
(* and each of those calls is one step.                                    *)
(***************************************************************************)
EXTENDS RexxTree, TreeWalk

CONSTANTS
  Counts,       \* RegAlloc: the registers a call may ask for
  MaxRegister   \* RegAlloc: bound

VARIABLES
  reg,          \* node -> its register [type, num]
  symbol_reg,   \* symbol -> its register [type, num]
  additional,   \* FUNCTION node -> the first of its additional_registers
  calls,        \* what the running handler still asks of the allocator
  free, num_registers, held   \* the allocator's

Alloc == INSTANCE RegAlloc WITH Counts <- Counts, MaxRegister <- MaxRegister,
           free <- free, num_registers <- num_registers, held <- held

registerVars == <<reg, symbol_reg, additional, calls, free, num_registers, held>>

UNSET_REGISTER == -1
DONT_ASSIGN_REGISTER == -2
Unset == [type |-> "r", num |-> UNSET_REGISTER]
Deferred(c) == reg[c].num = DONT_ASSIGN_REGISTER

Commutative == {"OP_COMPARE_EQUAL", "OP_COMPARE_NEQ", "OP_ADD", "OP_MULT"}
Ordered == Operators2 \ Commutative
Logical == {"OP_AND", "OP_OR"}

RegistersInit(nodes, symbols) ==
  /\ reg = [n \in nodes |-> Unset]
  /\ symbol_reg = [x \in symbols |-> Unset]
  /\ additional = [n \in nodes |-> 0]
  /\ calls = << >>
  /\ Alloc!Init

-----------------------------------------------------------------------------
(* The way in *)

KidsWith(P(_)) == {c \in Range(Kids) : P(ast[c])}
NotSymbol(node) == ~is_var_symbol(node) \/ is_constant(node)
FirstConstant(order) ==
  LET k == SelectInSeq(order, LAMBDA c : is_constant(ast[c])) IN IF k = 0 THEN {} ELSE {order[k]}

(* The children whose register is given later, or that need none because   *)
(* the instruction takes a constant: one operand of an operator may be.    *)
Marked ==
  CASE Kind = "ASSIGN" -> {Kids[2]} \cap KidsWith(NotSymbol)
    [] Kind = "ARG" -> {c \in {Kids[2]} \cap KidsWith(NotSymbol) : ast[c].node_type # "CLASS"}
    [] Kind \in {"SAY", "RETURN"} -> KidsWith(is_constant)
    [] Kind \in Commutative -> FirstConstant(Reverse(Kids))
    [] Kind \in Ordered -> FirstConstant(Kids)
    [] Kind \in Logical -> {c \in Range(Kids) : ~is_var_symbol(ast[c])}
    [] OTHER -> {}

(* The constant operand of a commutative operator comes last.              *)
Swapped ==
  IF Kind \in Commutative /\ Marked = {Kids[1]} THEN [ast EXCEPT ![Node].child = Reverse(@)] ELSE ast

Position(n) == SelectInSeq(Kids, LAMBDA c : c = n)
ArgumentRegister(k) == [type |-> "a", num |-> k]
WalkIn ==
  /\ Entering /\ calls = << >>
  /\ ast' = Swapped
  /\ Enter(Swapped)
  /\ reg' = [n \in DOMAIN reg |->
               IF n \in Marked THEN [reg[n] EXCEPT !.num = DONT_ASSIGN_REGISTER]
               ELSE IF Kind = "ARGS" /\ ast[n].parent = Node THEN ArgumentRegister(Position(n))
               ELSE reg[n]]
  /\ symbol_reg' = [x \in DOMAIN symbol_reg |->
               LET mine == {k \in DOMAIN Kids : Kid(k).is_ref_arg /\ ast[Kid(k).child[1]].symbol = x} IN
               IF Kind = "ARGS" /\ mine # {} THEN ArgumentRegister(CHOOSE k \in mine : TRUE) ELSE symbol_reg[x]]
  /\ calls' = IF Kind = "FUNCTION" THEN <<[op |-> "gets", node |-> Node]>> ELSE << >>
  /\ UNCHANGED <<additional, free, num_registers, held>>

-----------------------------------------------------------------------------
(* The way out *)

Ret(num) == [op |-> "ret", num |-> num]
RetAll(nodes) == [k \in DOMAIN nodes |-> Ret(reg[nodes[k]].num)]
GetFor(nodes, x) == <<[op |-> "get", nodes |-> nodes, symbol |-> x]>>
GetOwn == IF Deferred(Node) THEN << >> ELSE GetFor({Node}, "")

Temporaries(nodes) == SelectSeq(nodes, LAMBDA c : ~is_var_symbol(ast[c]))
Assigned(nodes) == SelectSeq(nodes, LAMBDA c : ~Deferred(c))
Slot(k) == additional[Node] + k

(* What a handler asks of the allocator, in its order.                     *)
OperatorCallsAll == RetAll(Assigned(Kids)) \o GetOwn
OperatorCalls == RetAll(Assigned(Temporaries(Kids))) \o GetOwn
(* The operands of AND and OR share their register with it.                *)
LogicalCalls ==
  LET shared == {c \in Range(Kids) : Deferred(c)} IN
  IF shared = {} THEN GetOwn ELSE GetFor(shared \cup {Node}, "")
SymbolCalls ==
  IF symbol_reg[ast[Node].symbol].num = UNSET_REGISTER THEN GetFor({Node}, ast[Node].symbol) ELSE << >>
(* The registers of the arguments, except one that a symbol was given.     *)
FunctionCallsAll ==
  GetOwn \o [k \in 1 .. Len(Kids) + 1 |-> Ret(Slot(k - 1))] \o RetAll(Temporaries(Kids))
FunctionCalls ==
  LET OfSymbol(k) == is_var_symbol(Kid(k)) /\ symbol_reg[Kid(k).symbol] = [type |-> "r", num |-> Slot(k)]
      slots == SelectSeq([k \in 1 .. Len(Kids) |-> k], LAMBDA k : ~OfSymbol(k)) IN
  GetOwn \o <<Ret(Slot(0))>> \o [k \in DOMAIN slots |-> Ret(Slot(slots[k]))]
ForCalls == IF is_var_symbol(Kid(1)) THEN GetFor({Node}, "") ELSE << >>
(* The registers of a loop's limits are kept until the loop is done.       *)
LoopCalls ==
  LET Kept(c) == \/ ast[c].node_type = "FOR"
                 \/ /\ ast[c].node_type # "ASSIGN"
                    /\ ast[c].child # << >> /\ ~is_var_symbol(ast[ast[c].child[1]]) IN
  RetAll(SelectSeq(Kid(1).child, Kept))

Calls ==
  CASE Kind \in Commutative \cup Ordered -> OperatorCalls
    [] Kind \in Logical -> LogicalCalls
    [] Kind \in {"OP_NOT", "OP_NEG"} -> RetAll(Temporaries(Kids)) \o GetOwn
    [] Kind \in {"VAR_SYMBOL", "VAR_TARGET"} -> SymbolCalls
    [] Kind \in {"STRING", "INTEGER", "CONSTANT"} -> GetOwn
    [] Kind = "FUNCTION" -> FunctionCalls
    [] Kind \in {"SAY", "RETURN"} -> RetAll(Assigned(Temporaries(Kids)))
    [] Kind = "IF" -> RetAll(Temporaries(<<Kids[1]>>))
    [] Kind = "FOR" -> ForCalls
    [] Kind = "DO" -> LoopCalls
    [] OTHER -> << >>

(* The nodes that take the register of another one, and that register.     *)
Copied ==
  LET FromFirst == [n \in {Node} |-> reg[Kids[1]]]
      Given(n) == IF Deferred(n) THEN n :> reg[Kids[1]] ELSE << >> IN
  CASE Kind \in {"VAR_SYMBOL", "VAR_TARGET"} -> [n \in {Node} |-> symbol_reg[ast[Node].symbol]]
    [] Kind = "FUNCTION" ->
         [n \in {c \in Range(Kids) : Deferred(c)} |-> [reg[n] EXCEPT !.num = Slot(Position(n))]]
    [] Kind = "ASSIGN" -> FromFirst @@ Given(Kids[2])
    [] Kind = "ARG" -> Given(Kids[2])
    [] Kind \in {"SAY", "RETURN", "IF"} -> FromFirst
    [] Kind \in {"TO", "BY", "UNTIL", "WHILE"} -> IF Kids = << >> THEN << >> ELSE FromFirst
    [] Kind = "FOR" -> IF is_var_symbol(Kid(1)) THEN << >> ELSE FromFirst
    [] Kind = "REPEAT" ->
         LET assigns == SelectSeq(Kids, LAMBDA c : ast[c].node_type = "ASSIGN") IN
         IF assigns = << >> THEN << >> ELSE [n \in {Node} |-> reg[assigns[1]]]
    [] OTHER -> << >>

WalkOut ==
  /\ Leaving /\ calls = << >>
  /\ calls' = Calls
  /\ reg' = Copied @@ reg
  /\ Leave(ast)
  /\ UNCHANGED <<ast, symbol_reg, additional, free, num_registers, held>>

-----------------------------------------------------------------------------
(* The calls of the allocator *)

CallOf(op) == calls # << >> /\ calls[1].op = op /\ calls' = Tail(calls)

GetReg ==
  /\ CallOf("get")
  /\ LET num == IF free # << >> THEN Last(free) ELSE num_registers
         x == calls[1].symbol IN
     /\ reg' = [n \in DOMAIN reg |-> IF n \in calls[1].nodes THEN [reg[n] EXCEPT !.num = num] ELSE reg[n]]
     /\ symbol_reg' = IF x = "" THEN symbol_reg ELSE [symbol_reg EXCEPT ![x].num = num]
  /\ Alloc!GetReg
  /\ UNCHANGED <<ast, path, direction, additional>>

(* get_regs for a call, and the marking of its arguments.  A symbol that   *)
(* is passed by reference and has no register yet gets that of the slot.   *)
GetRegs ==
  /\ CallOf("gets")
  /\ LET f == calls[1].node
         args == ast[f].child
         ByRef(c) == ast[c].is_ref_arg /\ (ast[c].symbol # "" \/ ast[c].node_type = "FUNCTION") IN
     /\ Alloc!GetRegs(Len(args) + 1)
     /\ additional' = [additional EXCEPT ![f] = CHOOSE r \in held' \ held : \A s \in held' \ held : r <= s]
     /\ reg' = [n \in DOMAIN reg |->
                  IF n \in Range(args) /\ ~ByRef(n) /\ NotSymbol(ast[n])
                  THEN [reg[n] EXCEPT !.num = DONT_ASSIGN_REGISTER] ELSE reg[n]]
     /\ symbol_reg' = [x \in DOMAIN symbol_reg |->
                  LET mine == {k \in DOMAIN args : ByRef(args[k]) /\ ast[args[k]].symbol = x} IN
                  IF mine # {} /\ symbol_reg[x].num = UNSET_REGISTER
                  THEN [symbol_reg[x] EXCEPT !.num = additional'[f] + (CHOOSE k \in mine : \A j \in mine : k <= j)]
                  ELSE symbol_reg[x]]
  /\ UNCHANGED <<ast, path, direction>>

RetReg ==
  /\ CallOf("ret")
  /\ Alloc!RetReg(calls[1].num)
  /\ UNCHANGED <<ast, path, direction, reg, symbol_reg, additional>>

Register == WalkIn \/ WalkOut \/ GetReg \/ GetRegs \/ RetReg
Registered == Walked /\ calls = << >>

(* The walk uses the allocator as its specification allows.                *)
CompilerIsClient == Alloc!Spec

=============================================================================
