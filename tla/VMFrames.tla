------------------------------ MODULE VMFrames ------------------------------
(***************************************************************************)
(* Stack frames and register ownership of the REXX virtual machine         *)
(* (interpreter/rxvmintp.c, rxvmintp.h, rxvmvars.h).                       *)
(*                                                                         *)
(* A frame is an array of pointers to values, laid out as                  *)
(*                                                                         *)
(*     locals (r0 ..) | module globals (g0 ..) | a0 (count) | arguments    *)
(*                                                                         *)
(* The globals and the arguments are aliases of values that belong to the  *)
(* module or to a caller.  Every value therefore carries an owner, and     *)
(* free_value frees a value only on behalf of its owner (the "paternity    *)
(* test" of rxvmintp.h).  The module models every instruction that         *)
(* changes which value a register denotes or which values are allocated.   *)
(* What a value contains is left out: instructions that write a value in   *)
(* place change nothing here.                                              *)
(*                                                                         *)
(* A frame is identified by its depth, so a frame that is pushed after     *)
(* another was popped has the address of the popped one: the worst case    *)
(* of what calloc may do.                                                  *)
(***************************************************************************)
EXTENDS Naturals

CONSTANTS
  Module,       \* the linked modules (the address of module.globals is the owner)
  Proc,         \* the procedures
  Main,         \* the entry point
  ModuleOf,     \* ModuleOf[p]: proc_constant.module
  Locals,       \* Locals[p]: proc_constant.locals
  Globals,      \* Globals[m]: bin_space.globals
  GlobalCell,   \* GlobalCell[m][k]: module.globals[k], as linked
  GlobalOwner,  \* GlobalOwner[v]: the module that allocated the global v
  Value,        \* the heap cells a value can occupy
  Fresh(_, _),  \* Fresh(n, live): what n calls of calloc may return
  NULL,         \* the null pointer
  FREE,         \* the owner of a cell that is not allocated
  Operand,      \* bound: the registers the program's instructions name
  MaxArgs,      \* bound: arguments of a call, and of the program
  MaxCells,     \* at least the number of values any frame allocates
  MaxDepth      \* bound: frames on the stack

GlobalValues == UNION {{GlobalCell[m][k] : k \in 0 .. Globals[m] - 1} : m \in Module}

ASSUME ProgramAssumption ==
  /\ Main \in Proc
  /\ ModuleOf \in [Proc -> Module]
  /\ Locals \in [Proc -> Nat]
  /\ Globals \in [Module -> Nat]
  /\ \A m \in Module : GlobalCell[m] \in [0 .. Globals[m] - 1 -> Value]
  /\ GlobalOwner \in [GlobalValues -> Module]
  /\ Operand \subseteq Nat
  /\ MaxArgs \in Nat
  /\ MaxDepth \in Nat \ {0}

ASSUME AddressAssumption ==
  /\ NULL \notin Value /\ NULL \notin Nat
  /\ FREE \notin Nat /\ FREE \notin Module
  /\ \A m \in Module : m \notin Nat

(* External: calloc returns distinct blocks that are not in use.           *)
ASSUME FreshAssumption ==
  /\ MaxCells \in Nat
  /\ \A p \in Proc : Locals[p] + MaxArgs + 1 <= MaxCells
  /\ \A k \in 0 .. MaxCells, live \in SUBSET Value : \A cells \in Fresh(k, live) :
       /\ cells \in [0 .. k - 1 -> Value \ live]
       /\ \A i, j \in 0 .. k - 1 : cells[i] = cells[j] => i = j

VARIABLES
  depth,  \* number of frames; 0 once the interpreter has finished
  call,   \* call[i]: the fixed part of frame i
  reg,    \* reg[i]: stack_frame.locals of frame i
  owner,  \* owner[v]: a frame, a module, or FREE
  mapped  \* history: the denoted values whose own frame once mapped them (OwnMap)

vars == <<depth, call, reg, owner, mapped>>

-----------------------------------------------------------------------------
(* Frame layout *)

GBase(p) == Locals[p]
ABase(p) == Locals[p] + Globals[ModuleOf[p]]
Slots(p, n) == 0 .. ABase(p) + n

(* "base" is the third operand of the call, which the saved return_pc      *)
(* identifies: the caller's register that became a0.                       *)
Activation == [proc : Proc, nargs : Nat, ret : Nat \cup {NULL}, base : Nat \cup {NULL}]

Running == depth > 0
Live == {v \in Value : owner[v] # FREE}

(* The registers frame_f and the call handlers set up: new locals, the     *)
(* module's globals, then a0 and the arguments.                            *)
FrameRegisters(p, n, cells, args) ==
  [s \in Slots(p, n) |->
     IF s < GBase(p) THEN cells[s]
     ELSE IF s < ABase(p) THEN GlobalCell[ModuleOf[p]][s - GBase(p)]
     ELSE args[s - ABase(p)]]

(* The values of the caller's registers base, base+1 .. base+n.            *)
ArgsOffByOne(regs, base, n) ==
  [i \in 0 .. n |-> regs[IF base + n + 1 \in DOMAIN regs THEN base + i + 1 ELSE base + i]]
ArgsFrom(regs, base, n) == [i \in 0 .. n |-> regs[base + i]]

-----------------------------------------------------------------------------
(* Memory: o is an ownership map, f a frame, regs the registers of f.      *)

Owned(o, cells, f) ==
  [v \in Value |-> IF \E i \in DOMAIN cells : cells[i] = v THEN f ELSE o[v]]

FreeValue(o, f, v) ==
  IF v # NULL /\ o[v] = f THEN [o EXCEPT ![v] = FREE] ELSE o

FreeFrameNoPaternityTest(o, f, regs) ==
  [v \in Value |-> IF \E s \in DOMAIN regs : regs[s] = v THEN FREE ELSE o[v]]
FreeFrame(o, f, regs) ==
  [v \in Value |->
     IF o[v] = f /\ \E s \in DOMAIN regs : regs[s] = v THEN FREE ELSE o[v]]

FreeGlobals(o) ==
  [v \in Value |-> IF v \in GlobalValues /\ o[v] = GlobalOwner[v] THEN FREE ELSE o[v]]

-----------------------------------------------------------------------------
(* Calls.  The callee's frame is pushed on regs, the caller's registers as *)
(* the handler left them; o is the ownership map before the allocation.    *)

Push(p, n, r, b, regs, o, cells, args) ==
  /\ depth < MaxDepth
  /\ depth' = depth + 1
  /\ call' = [i \in 1 .. depth + 1 |->
                IF i <= depth THEN call[i]
                ELSE [proc |-> p, nargs |-> n, ret |-> r, base |-> b]]
  /\ reg' = [i \in 1 .. depth + 1 |->
               IF i < depth THEN reg[i]
               ELSE IF i = depth THEN regs
               ELSE FrameRegisters(p, n, cells, args)]
  /\ owner' = Owned(o, cells, depth + 1)

(* CALL_FUNC: call f() - the result, if any, is dropped.                   *)
CallFunc(p) ==
  Running /\ \E cells \in Fresh(Locals[p] + 1, Live) :
       Push(p, 0, NULL, NULL, reg[depth], owner, cells, [i \in {0} |-> cells[Locals[p]]])

(* CALL_REG_FUNC: call r,f() - the target register is freed and cleared.   *)
CallRegFunc(r, p) ==
  /\ LET o == FreeValue(owner, depth, reg[depth][r]) IN
     \E cells \in Fresh(Locals[p] + 1, {v \in Value : o[v] # FREE}) :
       Push(p, 0, r, NULL, [reg[depth] EXCEPT ![r] = NULL], o, cells,
            [i \in {0} |-> cells[Locals[p]]])

(* CALL_REG_FUNC_REG: call r,f(),b - register b holds the number of        *)
(* arguments n and the n registers after it are the arguments.  The target *)
(* register keeps its value, which may be one of the arguments.            *)
CallRegFuncReg(r, p, b, n) ==
  /\ b \in DOMAIN reg[depth] /\ b + n \in DOMAIN reg[depth]
  /\ reg[depth][b] # NULL
  /\ \E cells \in Fresh(Locals[p], Live) :
       Push(p, n, r, b, reg[depth], owner, cells, ArgsFrom(reg[depth], b, n))

-----------------------------------------------------------------------------
(* Returns.  o is the ownership map once the result was placed in the      *)
(* return register, v that result (NULL when there is none).               *)

Drop(regs) == [i \in 1 .. depth - 1 |-> regs[i]]

PopKeepsFrame(o, regs) ==
  /\ depth' = depth - 1
  /\ call' = Drop(call)
  /\ reg' = regs
  /\ owner' = FreeFrame(o, depth, reg[depth])
Pop(o, regs) ==
  /\ depth' = depth - 1
  /\ call' = Drop(call)
  /\ reg' = Drop(regs)
  /\ LET freed == FreeFrame(o, depth, reg[depth])
     IN  owner' = IF depth = 1 THEN FreeGlobals(freed) ELSE freed

HasReturnRegister == call[depth].ret # NULL

PlaceResult(v) == [reg EXCEPT ![depth - 1][call[depth].ret] = v]

(* A value made for the caller: value_f(current_frame->parent) and the     *)
(* like.                                                                   *)
ReturnNewValue ==
  IF HasReturnRegister
    THEN \E cells \in Fresh(1, Live) :
           Pop(Owned(owner, cells, depth - 1), PlaceResult(cells[0]))
    ELSE Pop(owner, reg)

(* RET: the return register is left as the call left it.                   *)
Ret == Running /\ Pop(owner, reg)

(* RET_INT, RET_FLOAT, RET_STRING                                          *)
RetConst == Running /\ ReturnNewValue

(* RET_REG: a register of this frame is handed over to the caller, any     *)
(* other value (an argument, a global) is copied.                          *)
RetRegNoCopy(r) ==
  /\ reg[depth][r] # NULL
  /\ IF HasReturnRegister
       THEN Pop(IF owner[reg[depth][r]] = depth
                  THEN [owner EXCEPT ![reg[depth][r]] = depth - 1] ELSE owner,
                PlaceResult(reg[depth][r]))
       ELSE Pop(owner, reg)
RetRegAlwaysAdopt(r) ==
  /\ reg[depth][r] # NULL
  /\ IF HasReturnRegister
       THEN Pop([owner EXCEPT ![reg[depth][r]] = depth - 1], PlaceResult(reg[depth][r]))
       ELSE Pop(owner, reg)
RetReg(r) ==
  /\ LET v == reg[depth][r] IN
     /\ v # NULL
     /\ IF HasReturnRegister /\ owner[v] = depth
          THEN Pop([owner EXCEPT ![v] = depth - 1], PlaceResult(v))
          ELSE ReturnNewValue

-----------------------------------------------------------------------------
(* Register moves within the current frame                                 *)

SetRegisters(regs) == reg' = [reg EXCEPT ![depth] = regs]

(* MOVE_REG_REG: frees the target, moves the source, clears the source.    *)
MoveForgetsSource(r1, r2) ==
  /\ owner' = FreeValue(owner, depth, reg[depth][r1])
  /\ SetRegisters([reg[depth] EXCEPT ![r1] = reg[depth][r2]])
  /\ UNCHANGED <<depth, call>>
MoveWithoutFree(r1, r2) ==
  /\ SetRegisters([[reg[depth] EXCEPT ![r1] = reg[depth][r2]] EXCEPT ![r2] = NULL])
  /\ UNCHANGED <<depth, call, owner>>
Move(r1, r2) ==
  /\ owner' = FreeValue(owner, depth, reg[depth][r1])
  /\ SetRegisters([[reg[depth] EXCEPT ![r1] = reg[depth][r2]] EXCEPT ![r2] = NULL])
  /\ UNCHANGED <<depth, call>>

(* SWAP_REG_REG                                                            *)
Swap(r1, r2) ==
  /\ SetRegisters([reg[depth] EXCEPT ![r1] = reg[depth][r2], ![r2] = reg[depth][r1]])
  /\ UNCHANGED <<depth, call, owner>>

(* AMAP_REG_REG and AMAP_REG_INT: register r1 becomes another name of the  *)
(* value of r2, a register the program computes (an argument, as a rule).  *)
(* Nothing asks who owns the value: see OwnMap.                            *)
Amap(r1, r2) ==
  /\ owner' = FreeValue(owner, depth, reg[depth][r1])
  /\ SetRegisters([reg[depth] EXCEPT ![r1] = reg[depth][r2]])
  /\ UNCHANGED <<depth, call>>

-----------------------------------------------------------------------------
(* EXIT and SIGNAL: every frame is freed, then the globals.                *)
Exit ==
  /\ Running
  /\ depth' = 0
  /\ call' = [i \in 1 .. 0 |-> call[i]]
  /\ reg' = [i \in 1 .. 0 |-> reg[i]]
  /\ owner' = FreeGlobals(
       [v \in Value |->
          IF \E i \in 1 .. depth : owner[v] = i /\ \E s \in DOMAIN reg[i] : reg[i][s] = v
            THEN FREE ELSE owner[v]])

Finished == ~ Running /\ UNCHANGED vars

(* The first frame: main's a0 and arguments are new values of that frame.  *)
Init ==
  \E argc \in 0 .. MaxArgs :
    \E cells \in Fresh(Locals[Main] + argc + 1, GlobalValues) :
      /\ depth = 1
      /\ call = [i \in {1} |-> [proc |-> Main, nargs |-> argc, ret |-> NULL, base |-> NULL]]
      /\ reg = [i \in {1} |->
                  FrameRegisters(Main, argc, cells,
                                 [a \in 0 .. argc |-> cells[Locals[Main] + a]])]
      /\ owner = Owned([v \in Value |-> IF v \in GlobalValues THEN GlobalOwner[v] ELSE FREE],
                       cells, 1)
      /\ mapped = {}

(* The value of r2 when an amap of it gives the current frame a value of   *)
(* its own under a second name, or frees it and goes on denoting it.       *)
OwnMap(r2) == {v \in Value : v = reg[depth][r2] /\ owner[v] = depth}

(* The history: such values, until no register denotes them any more.  No  *)
(* instruction reads it.                                                   *)
Remember(new) ==
  mapped' = {v \in mapped \cup new : \E i \in DOMAIN reg' : \E s \in DOMAIN reg'[i] : reg'[i][s] = v}

(* The registers of the current frame that the program names.              *)
Named == IF depth = 0 THEN {} ELSE Operand \cap DOMAIN reg[depth]

Instruction ==
  \/ \E p \in Proc : CallFunc(p)
  \/ \E p \in Proc, r \in Named : CallRegFunc(r, p)
  \/ \E p \in Proc, r, b \in Named, n \in 0 .. MaxArgs : CallRegFuncReg(r, p, b, n)
  \/ Ret
  \/ RetConst
  \/ \E r \in Named : RetReg(r)
  \/ \E r1, r2 \in Named : Move(r1, r2)
  \/ \E r1, r2 \in Named : Swap(r1, r2)
  \/ Exit

Next ==
  \/ Instruction /\ Remember({})
  \/ \E r1, r2 \in Named : Amap(r1, r2) /\ Remember(OwnMap(r2))
  \/ Finished

Spec == Init /\ [][Next]_vars

-----------------------------------------------------------------------------
(* Properties *)

(* Types: every frame has the registers its procedure and its argument     *)
(* count call for, a call returns to a register its caller has, and every  *)
(* cell belongs to a frame, a module or nobody.                            *)
FramesOK ==
  /\ depth \in Nat
  /\ call \in [1 .. depth -> Activation]
  /\ DOMAIN reg = 1 .. depth
  /\ \A i \in 1 .. depth :
       /\ reg[i] \in [Slots(call[i].proc, call[i].nargs) -> Value \cup {NULL}]
       /\ call[i].ret # NULL => i > 1 /\ call[i].ret \in DOMAIN reg[i - 1]
  /\ owner \in [Value -> (Nat \ {0}) \cup Module \cup {FREE}]
TypeOK == FramesOK /\ mapped \in SUBSET Value

(* What the memory management is to give a program: a frame has each of    *)
(* its values in one register, so that free_frame frees it once.           *)
FreedOnce ==
  \A i \in 1 .. depth : \A s, t \in DOMAIN reg[i] :
    s # t /\ reg[i][s] # NULL /\ reg[i][s] = reg[i][t] => owner[reg[i][s]] # i

(* amap breaks it.  The values of a running program that it has not      *)
(* touched keep what the paternity test is for, whatever becomes of those  *)
(* it has:                                                                 *)
Sound(v) == v # NULL /\ v \notin mapped

(* No register of any frame, and no global of a running program, points to *)
(* a freed value: free_value never frees what another register still uses, *)
(* unless the value's own frame has mapped it.                             *)
NoDangling ==
  /\ \A i \in 1 .. depth : \A s \in DOMAIN reg[i] :
       Sound(reg[i][s]) => owner[reg[i][s]] # FREE
  /\ depth > 0 => \A v \in GlobalValues : owner[v] = GlobalOwner[v]

(* free_frame frees no value twice: two registers of a frame may share a   *)
(* value only if the frame does not own it, or has mapped it.              *)
NoDoubleFree ==
  \A i \in 1 .. depth : \A s, t \in DOMAIN reg[i] :
    s # t /\ Sound(reg[i][s]) /\ reg[i][s] = reg[i][t] => owner[reg[i][s]] # i

(* A frame reaches its own values, those of its callers and those of       *)
(* modules, never those of a frame above it, which is freed before it: the *)
(* order in which return and exit free the frames depends on it.  (A       *)
(* freed value that a register still denotes may become anybody's.)        *)
OwnersBelow ==
  \A i \in 1 .. depth : \A s \in DOMAIN reg[i] :
    Sound(reg[i][s]) => owner[reg[i][s]] \in (1 .. i) \cup Module \cup {FREE}

(* What a callee can reach of its callers' values is what the call passed: *)
(* the caller's registers from the operand on.  Nothing else of the caller *)
(* is exposed, however long the callee swaps and calls on (but for values  *)
(* that were mapped by their own frame).                                   *)
Passed(i) ==
  IF call[i].base = NULL THEN {}
  ELSE {reg[i - 1][k] : k \in call[i].base .. call[i].base + call[i].nargs}
ArgumentWindow ==
  \A i \in 2 .. depth : \A s \in DOMAIN reg[i] :
    LET v == reg[i][s] IN
    Sound(v) /\ owner[v] # i => v \in Passed(i) \cup GlobalValues

(* An instruction changes no register of a suspended frame but the         *)
(* register its call returns to, and frees or adopts no value of one.      *)
CallersUntouched ==
  [][depth' > 0 =>
       \A i \in 1 .. depth - 1 :
         /\ \A s \in DOMAIN reg[i] :
              reg'[i][s] = reg[i][s] \/ (i = depth - 1 /\ s = call[depth].ret)
         /\ \A v \in Value : owner[v] = i => owner'[v] = i]_vars

(* A result arrives in the return register as a value of the caller that   *)
(* no other register of any frame denotes, unless it is, or was allocated  *)
(* over, a value its own frame has mapped.                                 *)
ResultIsPrivate ==
  [][0 < depth' /\ depth' < depth /\ call[depth].ret # NULL =>
       LET r == call[depth].ret
           v == reg'[depth'][r]
       IN  \/ v = reg[depth'][r] \/ v \in mapped
           \/ /\ owner'[v] = depth'
              /\ \A i \in 1 .. depth' : \A s \in DOMAIN reg'[i] :
                   reg'[i][s] = v => i = depth' /\ s = r]_vars

(* A value that belongs to a frame and that none of its registers denotes. *)
Lost(v) ==
  /\ owner[v] \in Nat
  /\ ~ (owner[v] <= depth /\ \E s \in DOMAIN reg[owner[v]] : reg[owner[v]][s] = v)

(* The only way to lose a value is to return a result over it: the old     *)
(* value of a return register.                                             *)
LostOnlyUnderResult ==
  [][\A v \in Value :
       ~ Lost(v) /\ Lost(v)' =>
         /\ 0 < depth' /\ depth' < depth
         /\ call[depth].ret # NULL /\ v = reg[depth'][call[depth].ret]]_vars

(* docs/assembler.md: the globals of a file "can be used within any        *)
(* procedure in the file": g<k> denotes the same value in every frame.     *)
GlobalsShared ==
  \A i \in 1 .. depth :
    LET p == call[i].proc IN
    \A k \in 0 .. Globals[ModuleOf[p]] - 1 :
      reg[i][GBase(p) + k] = GlobalCell[ModuleOf[p]][k]

=============================================================================
