-------------------------- MODULE VMFrames_proofs --------------------------
(***************************************************************************)
(* Proofs about VMFrames: types and memory safety of frames, for every     *)
(* program, every allocator and every bound.                               *)
(*                                                                         *)
(* The inductive invariant says of each register of each frame that its    *)
(* value belongs to that frame, to one below it or to a module, and that a *)
(* frame holds its own values once, unless the value's own frame has       *)
(* mapped it.  The parts are stated for a depth, the registers, an         *)
(* ownership map and a set M of values to leave out, so that the lemmas    *)
(* can speak of the states in the middle of a handler.                     *)
(***************************************************************************)
EXTENDS VMFrames, TLAPS

Ownership == [Value -> (Nat \ {0}) \cup Module \cup {FREE}]

GlobalsOwned(o) == \A v \in GlobalValues : o[v] = GlobalOwner[v]

Safe(d, regs, o, M) ==
  \A i \in 1 .. d : \A s \in DOMAIN regs[i] :
    regs[i][s] # NULL /\ regs[i][s] \notin M =>
      /\ o[regs[i][s]] \in (1 .. i) \cup Module
      /\ \A t \in DOMAIN regs[i] :
           t # s /\ regs[i][t] = regs[i][s] => o[regs[i][s]] # i

IInv ==
  /\ FramesOK /\ mapped \in SUBSET Value
  /\ depth > 0 => GlobalsOwned(owner)
  /\ Safe(depth, reg, owner, mapped)

(* What a handler leaves behind, the history apart.                        *)
After(M) ==
  /\ FramesOK'
  /\ depth' > 0 => GlobalsOwned(owner')
  /\ Safe(depth', reg', owner', M)

-----------------------------------------------------------------------------
(* Facts about the operators                                               *)

(* A module's globals are values, and belong to modules.                   *)
LEMMA GlobalCellFacts ==
  ASSUME NEW m \in Module, NEW k \in 0 .. Globals[m] - 1
  PROVE  /\ GlobalCell[m][k] \in Value
         /\ GlobalCell[m][k] \in GlobalValues
         /\ GlobalOwner[GlobalCell[m][k]] \in Module
<1>1. GlobalCell[m][k] \in Value
  BY ProgramAssumption
<1>2. GlobalCell[m][k] \in GlobalValues
  BY DEF GlobalValues
<1>. QED
  BY <1>1, <1>2, ProgramAssumption

(* Every global is a value.                                                *)
LEMMA GlobalsAreValues == GlobalValues \subseteq Value
BY ProgramAssumption DEF GlobalValues

(* Layout: the parts of a frame follow each other.                         *)
LEMMA LayoutFacts ==
  ASSUME NEW p \in Proc, NEW n \in Nat
  PROVE  /\ GBase(p) \in Nat /\ ABase(p) \in Nat
         /\ ModuleOf[p] \in Module
         /\ Globals[ModuleOf[p]] \in Nat
         /\ ABase(p) = GBase(p) + Globals[ModuleOf[p]]
         /\ GBase(p) = Locals[p]
BY ProgramAssumption DEF GBase, ABase

(* What an allocation returns.                                             *)
LEMMA FreshFacts ==
  ASSUME NEW k \in 0 .. MaxCells, NEW live \in SUBSET Value, NEW cells \in Fresh(k, live)
  PROVE  /\ cells \in [0 .. k - 1 -> Value \ live]
         /\ \A i, j \in 0 .. k - 1 : cells[i] = cells[j] => i = j
BY FreshAssumption

(* The sizes of all allocations are within what FreshAssumption covers.    *)
LEMMA CellCounts ==
  /\ \A p \in Proc : Locals[p] \in 0 .. MaxCells /\ Locals[p] + 1 \in 0 .. MaxCells
  /\ \A argc \in 0 .. MaxArgs : Locals[Main] + argc + 1 \in 0 .. MaxCells
  /\ 1 \in 0 .. MaxCells
BY FreshAssumption, ProgramAssumption

(* new is the ownership map o with the given cells handed to frame f.       *)
Assigned(o, cells, f, new) ==
  /\ new \in Ownership
  /\ \A v \in Value : (\E i \in DOMAIN cells : cells[i] = v) => new[v] = f
  /\ \A v \in Value : ~ (\E i \in DOMAIN cells : cells[i] = v) => new[v] = o[v]

(* Handing out cells to a frame keeps the ownership map well typed and     *)
(* changes the owner of those cells only.                                  *)
LEMMA OwnedFacts ==
  ASSUME NEW o \in Ownership, NEW cells, NEW f \in Nat \ {0}
  PROVE  Assigned(o, cells, f, Owned(o, cells, f))
BY DEF Assigned, Owned, Ownership

(* free_value frees at most one value, and only on behalf of its owner.    *)
LEMMA FreeValueFacts ==
  ASSUME NEW o \in Ownership, NEW f, NEW x \in Value \cup {NULL}
  PROVE  /\ FreeValue(o, f, x) \in Ownership
         /\ \A v \in Value : v # x \/ o[v] # f => FreeValue(o, f, x)[v] = o[v]
BY AddressAssumption DEF FreeValue, Ownership

(* free_frame leaves every value of another owner alone.                   *)
LEMMA FreeFrameFacts ==
  ASSUME NEW o \in Ownership, NEW f, NEW regs
  PROVE  /\ FreeFrame(o, f, regs) \in Ownership
         /\ FreeGlobals(FreeFrame(o, f, regs)) \in Ownership
         /\ \A v \in Value : o[v] # f => FreeFrame(o, f, regs)[v] = o[v]
BY DEF FreeFrame, FreeGlobals, Ownership

-----------------------------------------------------------------------------
(* Pushing and popping a frame                                             *)

(* What the call handlers guarantee when they push a frame: the allocation *)
(* of k cells is fresh, and the arguments are registers of the caller, or  *)
(* a0 is the cell allocated after the locals.                              *)
CanPush(p, n, r, b, regs, o, k, cells, args) ==
  /\ p \in Proc /\ n \in Nat /\ r \in Nat \cup {NULL} /\ b \in Nat \cup {NULL}
  /\ regs \in [DOMAIN reg[depth] -> Value \cup {NULL}]
  /\ r # NULL => r \in DOMAIN reg[depth]
  /\ o \in Ownership /\ GlobalsOwned(o) /\ Safe(depth, [reg EXCEPT ![depth] = regs], o, mapped)
  /\ k \in Nat /\ k >= Locals[p]
  /\ cells \in [0 .. k - 1 -> {v \in Value : o[v] = FREE}]
  /\ \A i, j \in 0 .. k - 1 : cells[i] = cells[j] => i = j
  /\ args \in [0 .. n -> Value \cup {NULL}]
  /\ \A a \in 0 .. n :
       \/ args[a] = NULL
       \/ \E s \in DOMAIN regs : regs[s] = args[a]
       \/ n = 0 /\ k = Locals[p] + 1 /\ args[a] = cells[Locals[p]]

(* A call pushes a frame, with the caller's registers and the ownership as *)
(* they were or one register freed and cleared, and with arguments that    *)
(* are the caller's, or a new a0.                                          *)
Called(p, n, r, b, regs, o, k, cells, args) ==
  /\ CanPush(p, n, r, b, regs, o, k, cells, args)
  /\ Push(p, n, r, b, regs, o, cells, args)
  /\ \/ regs = reg[depth] /\ o = owner
     \/ \E x \in DOMAIN reg[depth] :
          /\ regs = [reg[depth] EXCEPT ![x] = NULL]
          /\ o = FreeValue(owner, depth, reg[depth][x])
  /\ \/ n = 0 /\ k = Locals[p] + 1 /\ b = NULL /\ args[0] = cells[Locals[p]]
     \/ k = Locals[p] /\ b \in Nat /\ args = ArgsFrom(regs, b, n)

(* A new frame on top of a safe stack is safe: its locals are fresh, its   *)
(* globals belong to modules, and its arguments are fresh or the caller's. *)
LEMMA PushSafe ==
  ASSUME FramesOK, depth > 0,
         NEW p, NEW n, NEW r, NEW b, NEW regs, NEW o, NEW k, NEW cells, NEW args,
         CanPush(p, n, r, b, regs, o, k, cells, args),
         Push(p, n, r, b, regs, o, cells, args)
  PROVE  After(mapped)
<1> USE DEF CanPush
<1> DEFINE new == FrameRegisters(p, n, cells, args)
<1>1. /\ depth \in Nat /\ depth' = depth + 1
      /\ owner' = Owned(o, cells, depth + 1)
      /\ reg' = [i \in 1 .. depth + 1 |-> IF i < depth THEN reg[i] ELSE IF i = depth THEN regs ELSE new]
      /\ call' = [i \in 1 .. depth + 1 |->
                    IF i <= depth THEN call[i]
                    ELSE [proc |-> p, nargs |-> n, ret |-> r, base |-> b]]
  BY DEF Push, FramesOK
<1>2. /\ owner' \in Ownership
      /\ \A v \in Value : (\E i \in DOMAIN cells : cells[i] = v) => owner'[v] = depth + 1
      /\ \A v \in Value : o[v] # FREE => owner'[v] = o[v]
  <2>1. depth + 1 \in Nat \ {0}
    BY <1>1
  <2>2. \A i \in DOMAIN cells : cells[i] \in Value /\ o[cells[i]] = FREE
    OBVIOUS
  <2>0. o \in Ownership
    OBVIOUS
  <2>3. Assigned(o, cells, depth + 1, Owned(o, cells, depth + 1))
    BY <2>0, <2>1, OwnedFacts
  <2>4. ASSUME NEW v \in Value, o[v] # FREE
        PROVE  owner'[v] = o[v]
    <3>1. ~ (\E i \in DOMAIN cells : cells[i] = v)
      BY <2>2, <2>4
    <3>. QED
      BY <1>1, <2>3, <3>1 DEF Assigned
  <2>. QED
    BY <1>1, <2>3, <2>4 DEF Assigned
<1>3. /\ new \in [Slots(p, n) -> Value \cup {NULL}]
      /\ \A s \in Slots(p, n) :
           \/ s < GBase(p) /\ new[s] = cells[s]
           \/ GBase(p) <= s /\ s < ABase(p) /\ new[s] = GlobalCell[ModuleOf[p]][s - GBase(p)]
           \/ ABase(p) <= s /\ s - ABase(p) \in 0 .. n /\ new[s] = args[s - ABase(p)]
  <2> SUFFICES ASSUME NEW s \in Slots(p, n)
               PROVE  /\ new[s] \in Value \cup {NULL}
                      /\ \/ s < GBase(p) /\ new[s] = cells[s]
                         \/ GBase(p) <= s /\ s < ABase(p) /\ new[s] = GlobalCell[ModuleOf[p]][s - GBase(p)]
                         \/ ABase(p) <= s /\ s - ABase(p) \in 0 .. n /\ new[s] = args[s - ABase(p)]
    BY DEF FrameRegisters
  <2>1. CASE s < GBase(p)
    BY <2>1, LayoutFacts DEF FrameRegisters, Slots
  <2>2. CASE GBase(p) <= s /\ s < ABase(p)
    <3>1. s - GBase(p) \in 0 .. Globals[ModuleOf[p]] - 1
      BY <2>2, LayoutFacts DEF Slots
    <3>. QED
      BY <2>2, <3>1, LayoutFacts, GlobalCellFacts DEF FrameRegisters, Slots
  <2>3. CASE ABase(p) <= s
    BY <2>3, LayoutFacts DEF FrameRegisters, Slots
  <2>. QED
    BY <2>1, <2>2, <2>3, LayoutFacts DEF Slots
<1>4. FramesOK'
  <2>1. call' \in [1 .. depth' -> Activation]
    BY <1>1 DEF FramesOK, Activation
  <2>2. ASSUME NEW i \in 1 .. depth'
        PROVE  /\ reg'[i] \in [Slots(call'[i].proc, call'[i].nargs) -> Value \cup {NULL}]
               /\ call'[i].ret # NULL => i > 1 /\ call'[i].ret \in DOMAIN reg'[i - 1]
    <3>1. CASE i < depth
      BY <1>1, <3>1 DEF FramesOK
    <3>2. CASE i = depth
      BY <1>1, <3>2 DEF FramesOK
    <3>3. CASE i = depth + 1
      BY <1>1, <1>3, <3>3 DEF FramesOK
    <3>. QED
      BY <1>1, <3>1, <3>2, <3>3
  <2>. QED
    <3>1. depth' \in Nat /\ DOMAIN reg' = 1 .. depth'
      BY <1>1
    <3>. QED
      BY <1>2, <2>1, <2>2, <3>1 DEF FramesOK, Ownership
<1>5. GlobalsOwned(owner')
  <2>1. \A v \in GlobalValues : v \in Value /\ o[v] = GlobalOwner[v] /\ GlobalOwner[v] \in Module
    BY GlobalsAreValues, ProgramAssumption DEF GlobalsOwned
  <2>. QED
    BY <1>2, <2>1, AddressAssumption DEF GlobalsOwned
<1>6. Safe(depth', reg', owner', mapped)
  <2> SUFFICES ASSUME NEW i \in 1 .. depth', NEW s \in DOMAIN reg'[i], reg'[i][s] # NULL, reg'[i][s] \notin mapped
               PROVE  /\ owner'[reg'[i][s]] \in (1 .. i) \cup Module
                      /\ \A t \in DOMAIN reg'[i] :
                           t # s /\ reg'[i][t] = reg'[i][s] => owner'[reg'[i][s]] # i
    BY DEF Safe
  <2>0. \A j \in 1 .. depth : \A u \in DOMAIN [reg EXCEPT ![depth] = regs][j] :
          LET x == [reg EXCEPT ![depth] = regs][j][u] IN
          x # NULL /\ x \notin mapped => x \in Value /\ o[x] \in (1 .. j) \cup Module /\ owner'[x] = o[x]
    <3> SUFFICES ASSUME NEW j \in 1 .. depth, NEW u \in DOMAIN [reg EXCEPT ![depth] = regs][j],
                        [reg EXCEPT ![depth] = regs][j][u] # NULL,
                        [reg EXCEPT ![depth] = regs][j][u] \notin mapped
                 PROVE  LET x == [reg EXCEPT ![depth] = regs][j][u] IN
                        x \in Value /\ o[x] \in (1 .. j) \cup Module /\ owner'[x] = o[x]
      OBVIOUS
    <3>1. [reg EXCEPT ![depth] = regs][j][u] \in Value
      BY DEF FramesOK
    <3>2. o[[reg EXCEPT ![depth] = regs][j][u]] \in (1 .. j) \cup Module
      BY DEF Safe
    <3>. QED
      BY <1>2, <3>1, <3>2, AddressAssumption
  <2>1. CASE i <= depth
    <3>1. reg'[i] = [reg EXCEPT ![depth] = regs][i]
      BY <1>1, <2>1 DEF FramesOK
    <3>2. i \in 1 .. depth
      BY <1>1, <2>1
    <3>3. /\ owner'[reg'[i][s]] = o[reg'[i][s]]
          /\ o[reg'[i][s]] \in (1 .. i) \cup Module
      BY <2>0, <3>1, <3>2
    <3>4. \A t \in DOMAIN reg'[i] :
            t # s /\ reg'[i][t] = reg'[i][s] => o[reg'[i][s]] # i
      BY <3>1, <3>2 DEF Safe
    <3>. QED
      BY <3>3, <3>4
  <2>2. CASE i = depth + 1
    <3>1. reg'[i] = new /\ DOMAIN reg'[i] = Slots(p, n)
      BY <1>1, <1>3, <2>2
    <3>2. \A u \in DOMAIN regs :
            regs[u] # NULL /\ regs[u] \notin mapped =>
              regs[u] \in Value /\ owner'[regs[u]] \in (1 .. depth) \cup Module
      <4>1. /\ depth \in 1 .. depth
            /\ [reg EXCEPT ![depth] = regs][depth] = regs
        BY <1>1 DEF FramesOK
      <4>2. \A u \in DOMAIN [reg EXCEPT ![depth] = regs][depth] :
              LET x == [reg EXCEPT ![depth] = regs][depth][u] IN
              x # NULL /\ x \notin mapped =>
                x \in Value /\ o[x] \in (1 .. depth) \cup Module /\ owner'[x] = o[x]
        BY <2>0, <4>1
      <4> HIDE DEF CanPush, new
      <4>. QED
        BY <4>1, <4>2
    <3>3. \A u \in Slots(p, n) :
            \/ new[u] = NULL \/ new[u] \in mapped
            \/ owner'[new[u]] \in (1 .. depth) \cup Module
            \/ /\ owner'[new[u]] = depth + 1
               /\ \/ u < GBase(p) /\ new[u] = cells[u]
                  \/ u = ABase(p) /\ k = Locals[p] + 1 /\ new[u] = cells[Locals[p]]
      <4> SUFFICES ASSUME NEW u \in Slots(p, n), new[u] # NULL, new[u] \notin mapped
                   PROVE  \/ owner'[new[u]] \in (1 .. depth) \cup Module
                          \/ /\ owner'[new[u]] = depth + 1
                             /\ \/ u < GBase(p) /\ new[u] = cells[u]
                                \/ u = ABase(p) /\ k = Locals[p] + 1 /\ new[u] = cells[Locals[p]]
        OBVIOUS
      <4>1. CASE u < GBase(p) /\ new[u] = cells[u]
        <5>1. u \in Nat /\ Locals[p] \in Nat /\ GBase(p) = Locals[p]
          BY LayoutFacts, ProgramAssumption DEF Slots, GBase
        <5>2. u \in 0 .. k - 1
          BY <4>1, <5>1
        <5>3. u \in DOMAIN cells /\ cells[u] \in Value
          BY <5>2
        <5> HIDE DEF new, CanPush
        <5>. QED
          BY <1>2, <4>1, <5>3
      <4>2. CASE GBase(p) <= u /\ u < ABase(p) /\ new[u] = GlobalCell[ModuleOf[p]][u - GBase(p)]
        <5>1. u - GBase(p) \in 0 .. Globals[ModuleOf[p]] - 1
          BY <4>2, LayoutFacts DEF Slots
        <5>2. ModuleOf[p] \in Module
          BY LayoutFacts
        <5> HIDE DEF new, CanPush
        <5>3. /\ GlobalCell[ModuleOf[p]][u - GBase(p)] \in GlobalValues
              /\ GlobalOwner[GlobalCell[ModuleOf[p]][u - GBase(p)]] \in Module
          BY <5>1, <5>2, GlobalCellFacts
        <5>4. new[u] \in GlobalValues /\ GlobalOwner[new[u]] \in Module
          BY <4>2, <5>3
        <5>. QED
          BY <1>5, <5>4 DEF GlobalsOwned
      <4>3. CASE ABase(p) <= u /\ u - ABase(p) \in 0 .. n /\ new[u] = args[u - ABase(p)]
        <5>1. CASE \E t \in DOMAIN regs : regs[t] = new[u]
          BY <3>2, <5>1
        <5>2. CASE n = 0 /\ k = Locals[p] + 1 /\ new[u] = cells[Locals[p]]
          <6>1. Locals[p] \in DOMAIN cells /\ cells[Locals[p]] \in Value
            BY <5>2, ProgramAssumption
          <6>2. u = ABase(p)
            BY <4>3, <5>2, LayoutFacts DEF Slots
          <6>. QED
            BY <1>2, <5>2, <6>1, <6>2
        <5>. QED
          BY <4>3, <5>1, <5>2
      <4>. QED
        BY <1>3, <4>1, <4>2, <4>3
    <3>4. \A u, t \in Slots(p, n) :
            u # t /\ new[u] # NULL /\ new[u] \notin mapped /\ new[u] = new[t] => owner'[new[u]] # depth + 1
      <4> SUFFICES ASSUME NEW u \in Slots(p, n), NEW t \in Slots(p, n), u # t,
                          new[u] # NULL, new[u] \notin mapped, new[u] = new[t], owner'[new[u]] = depth + 1
                   PROVE  FALSE
        OBVIOUS
      <4>1. owner'[new[u]] \notin (1 .. depth) \cup Module
        BY AddressAssumption, <1>1
      <4>2. /\ \/ u < GBase(p) /\ new[u] = cells[u]
               \/ u = ABase(p) /\ k = Locals[p] + 1 /\ new[u] = cells[Locals[p]]
            /\ \/ t < GBase(p) /\ new[t] = cells[t]
               \/ t = ABase(p) /\ k = Locals[p] + 1 /\ new[t] = cells[Locals[p]]
        BY <3>3, <4>1
      <4>. QED
        BY <4>2, LayoutFacts DEF Slots
    <3>. QED
      BY <1>1, <2>2, <3>1, <3>3, <3>4
  <2>. QED
    BY <1>1, <2>1, <2>2
<1>. QED
  BY <1>4, <1>5, <1>6 DEF After

(* Popping a frame frees values of that frame only, so the frames below it *)
(* stay safe.                                                              *)
LEMMA PopSafe ==
  ASSUME FramesOK, depth > 0,
         NEW o \in Ownership, GlobalsOwned(o),
         NEW regs, DOMAIN regs = 1 .. depth,
         \A i \in 1 .. depth : regs[i] \in [DOMAIN reg[i] -> Value \cup {NULL}],
         Safe(depth - 1, regs, o, mapped),
         Pop(o, regs)
  PROVE  After(mapped)
<1>1. /\ depth \in Nat /\ depth' = depth - 1 /\ depth' \in Nat
      /\ call' = [i \in 1 .. depth - 1 |-> call[i]]
      /\ reg' = [i \in 1 .. depth - 1 |-> regs[i]]
  BY DEF Pop, Drop, FramesOK
<1>2. /\ owner' \in Ownership
      /\ depth > 1 => \A v \in Value : o[v] # depth => owner'[v] = o[v]
  <2>1. /\ FreeFrame(o, depth, reg[depth]) \in Ownership
        /\ FreeGlobals(FreeFrame(o, depth, reg[depth])) \in Ownership
        /\ \A v \in Value : o[v] # depth => FreeFrame(o, depth, reg[depth])[v] = o[v]
    BY FreeFrameFacts
  <2>. QED
    BY <2>1 DEF Pop
<1>3. FramesOK'
  <2>1. call' \in [1 .. depth' -> Activation] /\ DOMAIN reg' = 1 .. depth'
    BY <1>1 DEF FramesOK
  <2>2. ASSUME NEW i \in 1 .. depth'
        PROVE  /\ reg'[i] \in [Slots(call'[i].proc, call'[i].nargs) -> Value \cup {NULL}]
               /\ call'[i].ret # NULL => i > 1 /\ call'[i].ret \in DOMAIN reg'[i - 1]
    <3>1. i \in 1 .. depth /\ reg'[i] = regs[i] /\ call'[i] = call[i]
      BY <1>1
    <3>2. DOMAIN reg[i] = Slots(call[i].proc, call[i].nargs)
      BY <3>1 DEF FramesOK
    <3>3. ASSUME call[i].ret # NULL
          PROVE  i > 1 /\ call[i].ret \in DOMAIN reg'[i - 1]
      <4>1. i > 1 /\ call[i].ret \in DOMAIN reg[i - 1]
        BY <3>1, <3>3 DEF FramesOK
      <4>2. i - 1 \in 1 .. depth - 1 /\ i - 1 \in 1 .. depth
        BY <1>1, <3>1, <4>1
      <4>. QED
        BY <1>1, <4>1, <4>2
    <3>. QED
      BY <3>1, <3>2, <3>3
  <2>. QED
    BY <1>1, <1>2, <2>1, <2>2 DEF FramesOK, Ownership
<1>4. CASE depth = 1
  BY <1>1, <1>3, <1>4 DEF After, Safe
<1>5. CASE depth > 1
  <2>1. GlobalsOwned(owner')
    <3>1. \A v \in GlobalValues : v \in Value /\ o[v] = GlobalOwner[v] /\ GlobalOwner[v] \in Module
      BY GlobalsAreValues, ProgramAssumption DEF GlobalsOwned
    <3>2. \A v \in GlobalValues : o[v] # depth
      BY <1>1, <3>1, AddressAssumption
    <3>. QED
      BY <1>2, <1>5, <3>1, <3>2 DEF GlobalsOwned
  <2>2. Safe(depth', reg', owner', mapped)
    <3> SUFFICES ASSUME NEW i \in 1 .. depth', NEW s \in DOMAIN reg'[i], reg'[i][s] # NULL, reg'[i][s] \notin mapped
                 PROVE  /\ owner'[reg'[i][s]] \in (1 .. i) \cup Module
                        /\ \A t \in DOMAIN reg'[i] :
                             t # s /\ reg'[i][t] = reg'[i][s] => owner'[reg'[i][s]] # i
      BY DEF Safe
    <3>1. i \in 1 .. depth - 1 /\ i \in 1 .. depth /\ reg'[i] = regs[i]
      BY <1>1
    <3>2. /\ regs[i][s] \in Value
          /\ o[regs[i][s]] \in (1 .. i) \cup Module
          /\ \A t \in DOMAIN regs[i] :
               t # s /\ regs[i][t] = regs[i][s] => o[regs[i][s]] # i
      BY <3>1 DEF Safe
    <3>3. o[regs[i][s]] # depth
      <4>1. depth \in Nat /\ i < depth /\ i \in Nat
        BY <1>1, <3>1
      <4>2. depth \notin Module /\ depth \notin 1 .. i
        BY <4>1, AddressAssumption
      <4>. QED
        BY <3>2, <4>2
    <3>. QED
      BY <1>2, <1>5, <3>1, <3>2, <3>3
  <2>. QED
    BY <1>3, <2>1, <2>2 DEF After
<1>. QED
  BY <1>1, <1>4, <1>5

-----------------------------------------------------------------------------
(* Results                                                                 *)

(* Popping without a result.                                               *)
LEMMA PopPlain ==
  ASSUME IInv, depth > 0, Pop(owner, reg)
  PROVE  After(mapped)
<1>1. /\ owner \in Ownership /\ GlobalsOwned(owner) /\ DOMAIN reg = 1 .. depth /\ depth \in Nat
      /\ \A i \in 1 .. depth : reg[i] \in [DOMAIN reg[i] -> Value \cup {NULL}]
  BY DEF IInv, FramesOK, Ownership
<1>2. Safe(depth - 1, reg, owner, mapped)
  BY <1>1 DEF IInv, Safe
<1>. QED
  BY <1>1, <1>2, PopSafe DEF IInv

(* A result that belongs to the caller and that no frame below the current *)
(* one holds yet can be placed in the return register.                     *)
LEMMA PopResult ==
  ASSUME IInv, depth > 0, HasReturnRegister,
         NEW v \in Value, NEW o \in Ownership,
         o[v] = depth - 1,
         \A x \in Value : x # v => o[x] = owner[x],
         owner[v] \notin (1 .. depth - 1) \cup Module,
         Pop(o, PlaceResult(v))
  PROVE  After(mapped)
<1> DEFINE regs == PlaceResult(v)
           r == call[depth].ret
<1>1. /\ depth \in Nat /\ depth > 1 /\ r \in DOMAIN reg[depth - 1] /\ r # NULL
      /\ depth - 1 \in 1 .. depth
  BY DEF IInv, FramesOK, HasReturnRegister
<1>2. /\ DOMAIN regs = 1 .. depth
      /\ \A i \in 1 .. depth : i # depth - 1 => regs[i] = reg[i]
      /\ regs[depth - 1] = [reg[depth - 1] EXCEPT ![r] = v]
  BY <1>1 DEF PlaceResult, IInv, FramesOK
<1>3. \A i \in 1 .. depth : regs[i] \in [DOMAIN reg[i] -> Value \cup {NULL}]
  <2>1. \A i \in 1 .. depth : reg[i] \in [DOMAIN reg[i] -> Value \cup {NULL}]
    BY DEF IInv, FramesOK
  <2>. QED
    BY <1>1, <1>2, <2>1
<1>4. \A g \in GlobalValues : g \in Value /\ owner[g] = GlobalOwner[g] /\ GlobalOwner[g] \in Module
  BY GlobalsAreValues, ProgramAssumption DEF IInv, GlobalsOwned
<1>5. GlobalsOwned(o)
  BY <1>4 DEF GlobalsOwned
<1>6. \A i \in 1 .. depth - 1 : \A s \in DOMAIN reg[i] :
        reg[i][s] # NULL /\ reg[i][s] \notin mapped =>
                           /\ reg[i][s] \in Value
                           /\ reg[i][s] # v
                           /\ owner[reg[i][s]] \in (1 .. i) \cup Module
                           /\ o[reg[i][s]] = owner[reg[i][s]]
  <2> SUFFICES ASSUME NEW i \in 1 .. depth - 1, NEW s \in DOMAIN reg[i],
                      reg[i][s] # NULL, reg[i][s] \notin mapped
               PROVE  /\ reg[i][s] \in Value
                      /\ reg[i][s] # v
                      /\ owner[reg[i][s]] \in (1 .. i) \cup Module
                      /\ o[reg[i][s]] = owner[reg[i][s]]
    OBVIOUS
  <2>1. i \in 1 .. depth
    BY <1>1
  <2>2. reg[i][s] \in Value
    BY <2>1 DEF IInv, FramesOK
  <2>3. owner[reg[i][s]] \in (1 .. i) \cup Module
    BY <2>1 DEF IInv, Safe
  <2>4. reg[i][s] # v
    BY <1>1, <2>3
  <2>. QED
    BY <2>2, <2>3, <2>4
<1>7. Safe(depth - 1, regs, o, mapped)
  <2> SUFFICES ASSUME NEW i \in 1 .. depth - 1, NEW s \in DOMAIN regs[i],
                      regs[i][s] # NULL, regs[i][s] \notin mapped
               PROVE  /\ o[regs[i][s]] \in (1 .. i) \cup Module
                      /\ \A t \in DOMAIN regs[i] :
                           t # s /\ regs[i][t] = regs[i][s] => o[regs[i][s]] # i
    BY DEF Safe
  <2>0. i \in 1 .. depth /\ DOMAIN regs[i] = DOMAIN reg[i]
    BY <1>1, <1>3
  <2>1. \A t \in DOMAIN reg[i] :
          \/ regs[i][t] = reg[i][t]
          \/ i = depth - 1 /\ t = r /\ regs[i][t] = v
    BY <1>1, <1>2, <2>0
  <2>2. \A t \in DOMAIN reg[i] :
          t # s /\ reg[i][t] = reg[i][s] /\ reg[i][s] # NULL /\ reg[i][s] \notin mapped =>
            owner[reg[i][s]] # i
    BY <2>0 DEF IInv, Safe
  <2>3. CASE regs[i][s] = reg[i][s]
    BY <1>6, <2>0, <2>1, <2>2, <2>3
  <2>4. CASE i = depth - 1 /\ s = r /\ regs[i][s] = v
    <3>1. o[regs[i][s]] \in 1 .. i
      BY <1>1, <2>4
    <3>2. \A t \in DOMAIN regs[i] : t # s => regs[i][t] # v
      BY <1>6, <2>0, <2>1, <2>4
    <3>. QED
      BY <3>1, <3>2, <2>4
  <2>. QED
    BY <2>0, <2>1, <2>3, <2>4
<1>. QED
  BY <1>2, <1>3, <1>5, <1>7, PopSafe DEF IInv

-----------------------------------------------------------------------------
(* Registers of the current frame                                          *)

(* Freeing a register of the current frame and clearing it.                *)
LEMMA ClearRegister ==
  ASSUME IInv, depth > 0, NEW r \in DOMAIN reg[depth]
  PROVE  LET o == FreeValue(owner, depth, reg[depth][r])
             regs == [reg[depth] EXCEPT ![r] = NULL]
         IN  /\ o \in Ownership
             /\ GlobalsOwned(o)
             /\ regs \in [DOMAIN reg[depth] -> Value \cup {NULL}]
             /\ Safe(depth, [reg EXCEPT ![depth] = regs], o, mapped)
<1> DEFINE o == FreeValue(owner, depth, reg[depth][r])
           regs == [reg[depth] EXCEPT ![r] = NULL]
           all == [reg EXCEPT ![depth] = regs]
<1>1. /\ depth \in Nat /\ depth \in 1 .. depth /\ owner \in Ownership
      /\ reg[depth] \in [DOMAIN reg[depth] -> Value \cup {NULL}]
      /\ reg[depth][r] \in Value \cup {NULL}
  BY DEF IInv, FramesOK, Ownership
<1>2. /\ o \in Ownership
      /\ \A v \in Value : v # reg[depth][r] \/ owner[v] # depth => o[v] = owner[v]
  BY <1>1, FreeValueFacts
<1>3. regs \in [DOMAIN reg[depth] -> Value \cup {NULL}]
  BY <1>1
<1>4. GlobalsOwned(o)
  <2>1. \A g \in GlobalValues : g \in Value /\ owner[g] = GlobalOwner[g] /\ GlobalOwner[g] \in Module
    BY GlobalsAreValues, ProgramAssumption DEF IInv, GlobalsOwned
  <2>2. depth \notin Module
    BY <1>1, AddressAssumption
  <2>. QED
    BY <1>2, <2>1, <2>2 DEF GlobalsOwned
<1>5. Safe(depth, all, o, mapped)
  <2> SUFFICES ASSUME NEW i \in 1 .. depth, NEW s \in DOMAIN all[i],
                      all[i][s] # NULL, all[i][s] \notin mapped
               PROVE  /\ o[all[i][s]] \in (1 .. i) \cup Module
                      /\ \A t \in DOMAIN all[i] :
                           t # s /\ all[i][t] = all[i][s] => o[all[i][s]] # i
    BY DEF Safe
  <2>1. /\ s \in DOMAIN reg[i] /\ DOMAIN all[i] = DOMAIN reg[i]
        /\ all[i][s] = reg[i][s]
        /\ i = depth => s # r
        /\ \A t \in DOMAIN reg[i] : all[i][t] # NULL => all[i][t] = reg[i][t]
    BY <1>1 DEF IInv, FramesOK
  <2>2. /\ reg[i][s] \in Value
        /\ owner[reg[i][s]] \in (1 .. i) \cup Module
        /\ \A t \in DOMAIN reg[i] :
             t # s /\ reg[i][t] = reg[i][s] => owner[reg[i][s]] # i
    BY <2>1 DEF IInv, Safe, FramesOK
  <2>3. o[reg[i][s]] = owner[reg[i][s]]
    <3>1. CASE i = depth
      BY <1>2, <2>1, <2>2, <3>1
    <3>2. CASE i # depth
      <4>1. depth \notin Module /\ depth \notin 1 .. i
        BY <1>1, <3>2, AddressAssumption
      <4>. QED
        BY <1>2, <2>2, <4>1
    <3>. QED
      BY <3>1, <3>2
  <2>. QED
    BY <2>1, <2>2, <2>3
<1>. QED
  BY <1>2, <1>3, <1>4, <1>5

(* Exchanging two registers of the topmost of d frames.                    *)
LEMMA SwapSafe ==
  ASSUME NEW d \in Nat \ {0}, NEW M, NEW R, DOMAIN R = 1 .. d, NEW o,
         NEW X, R[d] \in [DOMAIN R[d] -> X],
         NEW r1 \in DOMAIN R[d], NEW r2 \in DOMAIN R[d],
         NEW R2, DOMAIN R2 = 1 .. d,
         \A i \in 1 .. d : i # d => R2[i] = R[i],
         R2[d] = [R[d] EXCEPT ![r1] = R[d][r2], ![r2] = R[d][r1]],
         Safe(d, R, o, M)
  PROVE  Safe(d, R2, o, M)
<1> SUFFICES ASSUME NEW i \in 1 .. d, NEW s \in DOMAIN R2[i], R2[i][s] # NULL, R2[i][s] \notin M
             PROVE  /\ o[R2[i][s]] \in (1 .. i) \cup Module
                    /\ \A t \in DOMAIN R2[i] :
                         t # s /\ R2[i][t] = R2[i][s] => o[R2[i][s]] # i
  BY DEF Safe
<1>1. CASE i # d
  BY <1>1 DEF Safe
<1>2. CASE i = d
  <2> DEFINE from(t) == IF t = r1 THEN r2 ELSE IF t = r2 THEN r1 ELSE t
  <2>1. \A t \in DOMAIN R2[d] : from(t) \in DOMAIN R[d] /\ R2[d][t] = R[d][from(t)]
    OBVIOUS
  <2>2. \A t \in DOMAIN R2[d] : t # s => from(t) # from(s)
    OBVIOUS
  <2> HIDE DEF from
  <2>3. /\ o[R[d][from(s)]] \in (1 .. d) \cup Module
        /\ \A t \in DOMAIN R[d] :
             t # from(s) /\ R[d][t] = R[d][from(s)] => o[R[d][from(s)]] # d
    BY <1>2, <2>1 DEF Safe
  <2>. QED
    BY <1>2, <2>1, <2>2, <2>3
<1>. QED
  BY <1>1, <1>2

-----------------------------------------------------------------------------
(* One lemma per instruction                                               *)

(* The cells of an allocation belong to nobody.                            *)
LEMMA FreshCells ==
  ASSUME NEW o \in Ownership, NEW k \in 0 .. MaxCells,
         NEW cells \in Fresh(k, {v \in Value : o[v] # FREE})
  PROVE  /\ cells \in [0 .. k - 1 -> {v \in Value : o[v] = FREE}]
         /\ \A i, j \in 0 .. k - 1 : cells[i] = cells[j] => i = j
<1>1. /\ cells \in [0 .. k - 1 -> Value \ {v \in Value : o[v] # FREE}]
      /\ \A i, j \in 0 .. k - 1 : cells[i] = cells[j] => i = j
  BY FreshFacts
<1>. QED
  BY <1>1

(* What the invariant says of the current frame.                           *)
LEMMA CurrentFrame ==
  ASSUME IInv, depth > 0
  PROVE  /\ depth \in Nat \ {0} /\ depth \in 1 .. depth /\ DOMAIN reg = 1 .. depth
         /\ reg[depth] \in [DOMAIN reg[depth] -> Value \cup {NULL}]
         /\ DOMAIN reg[depth] \in SUBSET Nat
         /\ owner \in Ownership /\ GlobalsOwned(owner)
         /\ Safe(depth, [reg EXCEPT ![depth] = reg[depth]], owner, mapped)
<1>1. /\ depth \in Nat \ {0} /\ depth \in 1 .. depth /\ DOMAIN reg = 1 .. depth
      /\ reg[depth] \in [DOMAIN reg[depth] -> Value \cup {NULL}]
      /\ owner \in Ownership /\ GlobalsOwned(owner)
  BY DEF IInv, FramesOK, Ownership
<1>4. DOMAIN reg[depth] \in SUBSET Nat
  <2>1. DOMAIN reg[depth] = Slots(call[depth].proc, call[depth].nargs)
    BY <1>1 DEF IInv, FramesOK
  <2>2. \A q, n : Slots(q, n) \in SUBSET Nat
    BY DEF Slots
  <2>. QED
    BY <2>1, <2>2
<1>2. \A i \in 1 .. depth : [reg EXCEPT ![depth] = reg[depth]][i] = reg[i]
  BY <1>1
<1>3. Safe(depth, [reg EXCEPT ![depth] = reg[depth]], owner, mapped)
  BY <1>2 DEF IInv, Safe
<1>. QED
  BY <1>1, <1>3, <1>4

(* CALL_FUNC pushes a frame with a new a0.                                 *)
LEMMA CallFuncCalls ==
  ASSUME IInv, NEW p \in Proc, CallFunc(p)
  PROVE  \E k, cells, args : Called(p, 0, NULL, NULL, reg[depth], owner, k, cells, args)
<1>1. depth > 0
  BY DEF CallFunc, Running
<1>2. PICK cells \in Fresh(Locals[p] + 1, {v \in Value : owner[v] # FREE}) :
        Push(p, 0, NULL, NULL, reg[depth], owner, cells, [i \in {0} |-> cells[Locals[p]]])
  BY DEF CallFunc, Live
<1> DEFINE k == Locals[p] + 1
<1>3. Locals[p] \in Nat /\ k \in 0 .. MaxCells /\ k \in Nat /\ k >= Locals[p] /\ Locals[p] \in 0 .. k - 1
  BY CellCounts, ProgramAssumption
<1>4. /\ cells \in [0 .. k - 1 -> {v \in Value : owner[v] = FREE}]
      /\ \A i, j \in 0 .. k - 1 : cells[i] = cells[j] => i = j
  BY <1>1, <1>3, CurrentFrame, FreshCells
<1> DEFINE args == [i \in {0} |-> cells[Locals[p]]]
<1>5. args \in [0 .. 0 -> Value \cup {NULL}]
  BY <1>3, <1>4
<1>6. \A a \in 0 .. 0 :
        \/ args[a] = NULL
        \/ \E s \in DOMAIN reg[depth] : reg[depth][s] = args[a]
        \/ 0 = 0 /\ k = Locals[p] + 1 /\ args[a] = cells[Locals[p]]
  OBVIOUS
<1>7. /\ FramesOK /\ 0 \in Nat
      /\ NULL \in Nat \cup {NULL} /\ (NULL # NULL => NULL \in DOMAIN reg[depth])
  BY <1>3 DEF IInv
<1> HIDE DEF args, k
<1>8. Push(p, 0, NULL, NULL, reg[depth], owner, cells, args)
  BY <1>2 DEF args
<1>9. /\ owner \in Ownership /\ GlobalsOwned(owner)
      /\ reg[depth] \in [DOMAIN reg[depth] -> Value \cup {NULL}]
      /\ Safe(depth, [reg EXCEPT ![depth] = reg[depth]], owner, mapped)
  BY <1>1, CurrentFrame
<1>10. CanPush(p, 0, NULL, NULL, reg[depth], owner, k, cells, args)
  BY <1>3, <1>4, <1>5, <1>6, <1>7, <1>9 DEF CanPush
<1>11. k = Locals[p] + 1 /\ args[0] = cells[Locals[p]]
  BY DEF args, k
<1>12. Called(p, 0, NULL, NULL, reg[depth], owner, k, cells, args)
  BY <1>8, <1>10, <1>11 DEF Called
<1>. QED
  BY <1>12

(* CALL_REG_FUNC clears its target and pushes a frame with a new a0.       *)
LEMMA CallRegFuncCalls ==
  ASSUME IInv, depth > 0, NEW p \in Proc, NEW r \in DOMAIN reg[depth], CallRegFunc(r, p)
  PROVE  \E regs, o, k, cells, args : Called(p, 0, r, NULL, regs, o, k, cells, args)
<1> DEFINE o == FreeValue(owner, depth, reg[depth][r])
           regs == [reg[depth] EXCEPT ![r] = NULL]
<1>1. /\ o \in Ownership
      /\ GlobalsOwned(o)
      /\ regs \in [DOMAIN reg[depth] -> Value \cup {NULL}]
      /\ Safe(depth, [reg EXCEPT ![depth] = regs], o, mapped)
  BY ClearRegister
<1>2. PICK cells \in Fresh(Locals[p] + 1, {v \in Value : o[v] # FREE}) :
        Push(p, 0, r, NULL, regs, o, cells, [i \in {0} |-> cells[Locals[p]]])
  BY DEF CallRegFunc
<1>10. \E x \in DOMAIN reg[depth] :
         regs = [reg[depth] EXCEPT ![x] = NULL] /\ o = FreeValue(owner, depth, reg[depth][x])
  OBVIOUS
<1> HIDE DEF o, regs
<1> DEFINE k == Locals[p] + 1
<1>3. Locals[p] \in Nat /\ k \in 0 .. MaxCells /\ k \in Nat /\ k >= Locals[p] /\ Locals[p] \in 0 .. k - 1
  BY CellCounts, ProgramAssumption
<1>4. /\ cells \in [0 .. k - 1 -> {v \in Value : o[v] = FREE}]
      /\ \A i, j \in 0 .. k - 1 : cells[i] = cells[j] => i = j
  BY <1>1, <1>3, FreshCells
<1> DEFINE args == [i \in {0} |-> cells[Locals[p]]]
<1>5. args \in [0 .. 0 -> Value \cup {NULL}]
  BY <1>3, <1>4
<1>6. \A a \in 0 .. 0 :
        \/ args[a] = NULL
        \/ \E s \in DOMAIN regs : regs[s] = args[a]
        \/ 0 = 0 /\ k = Locals[p] + 1 /\ args[a] = cells[Locals[p]]
  OBVIOUS
<1>7. /\ FramesOK /\ 0 \in Nat
      /\ r \in Nat \cup {NULL} /\ NULL \in Nat \cup {NULL}
      /\ (r # NULL => r \in DOMAIN reg[depth])
  BY <1>3, CurrentFrame DEF IInv
<1> HIDE DEF args, k
<1>8. Push(p, 0, r, NULL, regs, o, cells, args)
  BY <1>2 DEF args
<1>9. CanPush(p, 0, r, NULL, regs, o, k, cells, args)
  BY <1>1, <1>3, <1>4, <1>5, <1>6, <1>7 DEF CanPush
<1>11. k = Locals[p] + 1 /\ args[0] = cells[Locals[p]]
  BY DEF args, k
<1>12. Called(p, 0, r, NULL, regs, o, k, cells, args)
  BY <1>8, <1>9, <1>10, <1>11 DEF Called
<1>. QED
  BY <1>12

(* CALL_REG_FUNC_REG pushes a frame whose arguments are the caller's.      *)
LEMMA CallRegFuncRegCalls ==
  ASSUME IInv, depth > 0, NEW p \in Proc, NEW r \in DOMAIN reg[depth],
         NEW b \in DOMAIN reg[depth], NEW n \in Nat, CallRegFuncReg(r, p, b, n)
  PROVE  \E k, cells, args : Called(p, n, r, b, reg[depth], owner, k, cells, args)
<1>1. PICK cells \in Fresh(Locals[p], {v \in Value : owner[v] # FREE}) :
        Push(p, n, r, b, reg[depth], owner, cells, ArgsFrom(reg[depth], b, n))
  BY DEF CallRegFuncReg, Live
<1>2. Locals[p] \in Nat /\ Locals[p] \in 0 .. MaxCells
  BY CellCounts, ProgramAssumption
<1>3. /\ cells \in [0 .. Locals[p] - 1 -> {v \in Value : owner[v] = FREE}]
      /\ \A i, j \in 0 .. Locals[p] - 1 : cells[i] = cells[j] => i = j
  BY <1>2, CurrentFrame, FreshCells
<1>4. /\ b \in Nat \cup {NULL} /\ r \in Nat \cup {NULL} /\ b \in Nat
      /\ FramesOK /\ Locals[p] >= Locals[p]
      /\ (r # NULL => r \in DOMAIN reg[depth])
  BY <1>2, CurrentFrame DEF IInv
<1>5. \A a \in 0 .. n : b + a \in DOMAIN reg[depth]
  <2>1. b + n \in DOMAIN reg[depth]
    BY DEF CallRegFuncReg
  <2>2. /\ DOMAIN reg[depth] = 0 .. ABase(call[depth].proc) + call[depth].nargs
        /\ ABase(call[depth].proc) + call[depth].nargs \in Nat
    BY CurrentFrame, LayoutFacts DEF IInv, FramesOK, Activation, Slots
  <2>. QED
    BY <1>4, <2>1, <2>2
<1> DEFINE args == ArgsFrom(reg[depth], b, n)
<1>6. /\ args \in [0 .. n -> Value \cup {NULL}]
      /\ \A a \in 0 .. n :
           \/ args[a] = NULL
           \/ \E s \in DOMAIN reg[depth] : reg[depth][s] = args[a]
           \/ n = 0 /\ Locals[p] = Locals[p] + 1 /\ args[a] = cells[Locals[p]]
  BY <1>5, CurrentFrame DEF ArgsFrom
<1> HIDE DEF args
<1>7. Push(p, n, r, b, reg[depth], owner, cells, args)
  BY <1>1 DEF args
<1>8. CanPush(p, n, r, b, reg[depth], owner, Locals[p], cells, args)
  BY <1>2, <1>3, <1>4, <1>6, CurrentFrame DEF CanPush
<1>9. args = ArgsFrom(reg[depth], b, n)
  BY DEF args
<1>10. Called(p, n, r, b, reg[depth], owner, Locals[p], cells, args)
  BY <1>4, <1>7, <1>8, <1>9 DEF Called
<1>. QED
  BY <1>10

(* RET_INT, RET_FLOAT, RET_STRING and the copying RET_REG keep it.         *)
LEMMA ReturnNewValueSafe ==
  ASSUME IInv, depth > 0, ReturnNewValue
  PROVE  After(mapped)
<1>1. CASE ~ HasReturnRegister
  BY <1>1, PopPlain DEF ReturnNewValue
<1>2. CASE HasReturnRegister
  <2>1. PICK cells \in Fresh(1, {v \in Value : owner[v] # FREE}) :
          Pop(Owned(owner, cells, depth - 1), PlaceResult(cells[0]))
    BY <1>2 DEF ReturnNewValue, Live
  <2>2. cells \in [0 .. 1 - 1 -> {v \in Value : owner[v] = FREE}]
    BY CellCounts, CurrentFrame, FreshCells
  <2>3. cells[0] \in Value /\ owner[cells[0]] = FREE /\ DOMAIN cells = {0}
    BY <2>2
  <2>4. depth - 1 \in Nat \ {0}
    BY <1>2 DEF IInv, FramesOK, HasReturnRegister
  <2>9. owner \in Ownership
    BY CurrentFrame
  <2>5. Assigned(owner, cells, depth - 1, Owned(owner, cells, depth - 1))
    BY <2>4, <2>9, OwnedFacts
  <2>8. Owned(owner, cells, depth - 1) \in Ownership
    BY <2>5 DEF Assigned
  <2>6. /\ Owned(owner, cells, depth - 1)[cells[0]] = depth - 1
        /\ \A x \in Value : x # cells[0] => Owned(owner, cells, depth - 1)[x] = owner[x]
    BY <2>3, <2>5 DEF Assigned
  <2>7. owner[cells[0]] \notin (1 .. depth - 1) \cup Module
    BY <2>3, AddressAssumption
  <2>. QED
    BY <1>2, <2>1, <2>3, <2>6, <2>7, <2>8, PopResult
<1>. QED
  BY <1>1, <1>2

(* RET_REG keeps it: the value it hands over is in no frame below.         *)
LEMMA RetRegSafe ==
  ASSUME IInv, depth > 0, NEW r \in DOMAIN reg[depth], RetReg(r)
  PROVE  After(mapped)
<1> DEFINE v == reg[depth][r]
           o == [owner EXCEPT ![v] = depth - 1]
<1>1. v \in Value
  BY CurrentFrame DEF RetReg
<1>2. CASE HasReturnRegister /\ owner[v] = depth
  <2>1. Pop(o, PlaceResult(v))
    BY <1>2 DEF RetReg
  <2>2. depth - 1 \in Nat \ {0}
    BY <1>2 DEF IInv, FramesOK, HasReturnRegister
  <2>3. /\ o \in Ownership /\ o[v] = depth - 1
        /\ \A x \in Value : x # v => o[x] = owner[x]
    BY <1>1, <2>2, CurrentFrame DEF Ownership
  <2>4. owner[v] \notin (1 .. depth - 1) \cup Module
    BY <1>2, <2>2, CurrentFrame, AddressAssumption
  <2> HIDE DEF v, o
  <2>. QED
    BY <1>1, <1>2, <2>1, <2>3, <2>4, PopResult
<1>3. CASE ~ (HasReturnRegister /\ owner[v] = depth)
  BY <1>3, ReturnNewValueSafe DEF RetReg
<1>. QED
  BY <1>2, <1>3

(* MOVE_REG_REG keeps it: clearing the target, then exchanging the two.    *)
LEMMA MoveSafe ==
  ASSUME IInv, depth > 0, NEW r1 \in DOMAIN reg[depth], NEW r2 \in DOMAIN reg[depth],
         Move(r1, r2)
  PROVE  After(mapped)
<1> DEFINE cleared == [reg[depth] EXCEPT ![r1] = NULL]
           moved == [[reg[depth] EXCEPT ![r1] = reg[depth][r2]] EXCEPT ![r2] = NULL]
<1>1. /\ depth \in Nat \ {0} /\ depth \in 1 .. depth /\ DOMAIN reg = 1 .. depth
      /\ reg[depth] \in [DOMAIN reg[depth] -> Value \cup {NULL}]
  BY CurrentFrame
<1>2. /\ owner' \in Ownership
      /\ GlobalsOwned(owner')
      /\ Safe(depth, [reg EXCEPT ![depth] = cleared], owner', mapped)
  BY ClearRegister DEF Move
<1>3. /\ reg' = [reg EXCEPT ![depth] = moved] /\ depth' = depth /\ call' = call
  BY DEF Move, SetRegisters
<1>4. moved \in [DOMAIN reg[depth] -> Value \cup {NULL}]
  BY <1>1
<1>5. FramesOK'
  BY <1>1, <1>2, <1>3, <1>4 DEF IInv, FramesOK, Ownership
<1>6. Safe(depth, reg', owner', mapped)
  <2>1. CASE r1 = r2
    <3>1. moved = cleared
      BY <1>1, <2>1
    <3>. QED
      BY <1>2, <1>3, <3>1
  <2>2. CASE r1 # r2
    <3> DEFINE R == [reg EXCEPT ![depth] = cleared]
    <3>1. /\ DOMAIN R = 1 .. depth /\ R[depth] = cleared
          /\ cleared \in [DOMAIN cleared -> Value \cup {NULL}]
          /\ r1 \in DOMAIN cleared /\ r2 \in DOMAIN cleared
          /\ DOMAIN reg' = 1 .. depth /\ reg'[depth] = moved
          /\ \A i \in 1 .. depth : i # depth => reg'[i] = R[i]
      BY <1>1, <1>3
    <3>2. moved = [cleared EXCEPT ![r1] = cleared[r2], ![r2] = cleared[r1]]
      BY <1>1, <2>2
    <3> HIDE DEF cleared, moved, R
    <3>3. Safe(depth, R, owner', mapped)
      BY <1>2 DEF R
    <3>. QED
      BY <1>1, <3>1, <3>2, <3>3, SwapSafe
  <2>. QED
    BY <2>1, <2>2
<1>. QED
  BY <1>2, <1>3, <1>5, <1>6 DEF After

(* SWAP_REG_REG keeps it.                                                  *)
LEMMA SwapRegistersSafe ==
  ASSUME IInv, depth > 0, NEW r1 \in DOMAIN reg[depth], NEW r2 \in DOMAIN reg[depth],
         Swap(r1, r2)
  PROVE  After(mapped)
<1> DEFINE swapped == [reg[depth] EXCEPT ![r1] = reg[depth][r2], ![r2] = reg[depth][r1]]
<1>1. /\ depth \in Nat \ {0} /\ depth \in 1 .. depth /\ DOMAIN reg = 1 .. depth
      /\ reg[depth] \in [DOMAIN reg[depth] -> Value \cup {NULL}]
  BY CurrentFrame
<1>2. /\ reg' = [reg EXCEPT ![depth] = swapped] /\ depth' = depth /\ call' = call
      /\ owner' = owner
  BY DEF Swap, SetRegisters
<1>3. swapped \in [DOMAIN reg[depth] -> Value \cup {NULL}]
  BY <1>1
<1>4. FramesOK'
  BY <1>1, <1>2, <1>3 DEF IInv, FramesOK
<1>5. /\ DOMAIN reg' = 1 .. depth /\ reg'[depth] = swapped
      /\ \A i \in 1 .. depth : i # depth => reg'[i] = reg[i]
  BY <1>1, <1>2
<1>6. Safe(depth, reg', owner, mapped)
  <2>1. Safe(depth, reg, owner, mapped)
    BY DEF IInv
  <2>. QED
    BY <1>1, <1>5, <2>1, SwapSafe
<1>. QED
  BY <1>2, <1>4, <1>6 DEF IInv, After

(* AMAP keeps it for every value but one of the frame's own: the target is *)
(* cleared, then takes a value that another register of the frame denotes. *)
LEMMA AmapSafe ==
  ASSUME IInv, depth > 0, NEW r1 \in DOMAIN reg[depth], NEW r2 \in DOMAIN reg[depth],
         Amap(r1, r2)
  PROVE  After(mapped \cup OwnMap(r2))
<1> DEFINE x == reg[depth][r2]
           cleared == [reg[depth] EXCEPT ![r1] = NULL]
           aliased == [reg[depth] EXCEPT ![r1] = x]
<1>1. /\ depth \in Nat \ {0} /\ depth \in 1 .. depth /\ DOMAIN reg = 1 .. depth
      /\ reg[depth] \in [DOMAIN reg[depth] -> Value \cup {NULL}]
      /\ owner \in Ownership
  BY CurrentFrame
<1>2. /\ owner' \in Ownership
      /\ GlobalsOwned(owner')
      /\ Safe(depth, [reg EXCEPT ![depth] = cleared], owner', mapped)
  BY ClearRegister DEF Amap
<1>3. /\ reg' = [reg EXCEPT ![depth] = aliased] /\ depth' = depth /\ call' = call
  BY DEF Amap, SetRegisters
<1>4. aliased \in [DOMAIN reg[depth] -> Value \cup {NULL}]
  BY <1>1
<1>5. FramesOK'
  BY <1>1, <1>2, <1>3, <1>4 DEF IInv, FramesOK, Ownership
<1>6. x # NULL /\ x \notin mapped \cup OwnMap(r2) => owner'[x] \in ((1 .. depth) \cup Module) \ {depth}
  <2> SUFFICES ASSUME x # NULL, x \notin mapped \cup OwnMap(r2) PROVE owner'[x] \in ((1 .. depth) \cup Module) \ {depth}
    OBVIOUS
  <2>1. x \in Value /\ owner[x] \in (1 .. depth) \cup Module
    BY <1>1 DEF IInv, Safe
  <2>2. owner[x] # depth
    BY <2>1 DEF OwnMap
  <2>3. reg[depth][r1] \in Value \cup {NULL}
    BY <1>1
  <2>4. FreeValue(owner, depth, reg[depth][r1])[x] = owner[x]
    BY <1>1, <2>1, <2>2, <2>3, FreeValueFacts
  <2>. QED
    BY <2>1, <2>2, <2>4 DEF Amap
<1>7. Safe(depth, reg', owner', mapped \cup OwnMap(r2))
  <2> DEFINE R == [reg EXCEPT ![depth] = cleared]
  <2>1. /\ DOMAIN R = 1 .. depth /\ R[depth] = cleared
        /\ DOMAIN cleared = DOMAIN reg[depth]
        /\ \A s \in DOMAIN cleared : cleared[s] = IF s = r1 THEN NULL ELSE reg[depth][s]
        /\ reg'[depth] = aliased /\ DOMAIN aliased = DOMAIN reg[depth]
        /\ \A s \in DOMAIN aliased : aliased[s] = IF s = r1 THEN x ELSE reg[depth][s]
        /\ \A i \in 1 .. depth : i # depth => reg'[i] = R[i]
    BY <1>1, <1>3
  <2>2. Safe(depth, R, owner', mapped)
    BY <1>2
  <2> HIDE DEF cleared, aliased, R, x
  <2> SUFFICES ASSUME NEW i \in 1 .. depth, NEW s \in DOMAIN reg'[i], reg'[i][s] # NULL,
                      reg'[i][s] \notin mapped \cup OwnMap(r2)
               PROVE  /\ owner'[reg'[i][s]] \in (1 .. i) \cup Module
                      /\ \A t \in DOMAIN reg'[i] :
                           t # s /\ reg'[i][t] = reg'[i][s] => owner'[reg'[i][s]] # i
    BY <1>3 DEF Safe
  <2>3. CASE i # depth
    BY <2>1, <2>2, <2>3 DEF Safe
  <2>4. CASE i = depth /\ reg'[depth][s] = x
    BY <1>6, <2>4
  <2>5. CASE i = depth /\ reg'[depth][s] # x
    <3>1. s # r1 /\ s \in DOMAIN cleared /\ aliased[s] = cleared[s]
      BY <2>1, <2>5
    <3>2. /\ owner'[cleared[s]] \in (1 .. depth) \cup Module
          /\ \A t \in DOMAIN cleared :
               t # s /\ cleared[t] = cleared[s] => owner'[cleared[s]] # depth
      BY <1>1, <2>1, <2>2, <2>5, <3>1 DEF Safe
    <3>3. \A t \in DOMAIN aliased : aliased[t] = aliased[s] => t # r1 /\ aliased[t] = cleared[t]
      BY <2>1, <2>5
    <3>. QED
      BY <2>1, <2>5, <3>1, <3>2, <3>3
  <2>. QED
    BY <2>3, <2>4, <2>5
<1>. QED
  BY <1>2, <1>3, <1>5, <1>7 DEF After

(* EXIT leaves no frame.                                                   *)
LEMMA ExitSafe ==
  ASSUME IInv, Exit
  PROVE  After(mapped)
<1>1. /\ depth' = 0 /\ DOMAIN reg' = 1 .. 0 /\ call' = [i \in 1 .. 0 |-> call[i]]
  BY DEF Exit
<1>2. owner' \in Ownership
  BY DEF Exit, FreeGlobals, IInv, FramesOK, Ownership
<1>3. call' \in [1 .. depth' -> Activation]
  BY <1>1
<1>. QED
  BY <1>1, <1>2, <1>3 DEF After, FramesOK, Safe, Ownership

-----------------------------------------------------------------------------
(* The invariant and what follows from it                                  *)

(* main's frame is safe: its locals, a0 and arguments are fresh cells.     *)
LEMMA InitSafe == Init => IInv
<1> SUFFICES ASSUME Init PROVE IInv
  OBVIOUS
<1>1. PICK argc \in 0 .. MaxArgs : \E cells \in Fresh(Locals[Main] + argc + 1, GlobalValues) :
        /\ depth = 1
        /\ call = [i \in {1} |-> [proc |-> Main, nargs |-> argc, ret |-> NULL, base |-> NULL]]
        /\ reg = [i \in {1} |->
                    FrameRegisters(Main, argc, cells,
                                   [a \in 0 .. argc |-> cells[Locals[Main] + a]])]
        /\ owner = Owned([v \in Value |-> IF v \in GlobalValues THEN GlobalOwner[v] ELSE FREE],
                         cells, 1)
        /\ mapped = {}
  BY DEF Init
<1> DEFINE k == Locals[Main] + argc + 1
           o == [v \in Value |-> IF v \in GlobalValues THEN GlobalOwner[v] ELSE FREE]
<1>2. PICK cells \in Fresh(k, GlobalValues) :
        /\ depth = 1
        /\ call = [i \in {1} |-> [proc |-> Main, nargs |-> argc, ret |-> NULL, base |-> NULL]]
        /\ reg = [i \in {1} |->
                    FrameRegisters(Main, argc, cells,
                                   [a \in 0 .. argc |-> cells[Locals[Main] + a]])]
        /\ owner = Owned(o, cells, 1) /\ mapped = {}
  BY <1>1
<1>3. /\ Main \in Proc /\ argc \in Nat /\ Locals[Main] \in Nat /\ k \in 0 .. MaxCells
      /\ k = Locals[Main] + argc + 1
  BY CellCounts, ProgramAssumption
<1> HIDE DEF k
<1>0. /\ GBase(Main) = Locals[Main] /\ GBase(Main) \in Nat /\ ABase(Main) \in Nat
      /\ GBase(Main) <= ABase(Main)
      /\ Slots(Main, argc) = 0 .. ABase(Main) + argc
  BY <1>3, LayoutFacts DEF Slots
<1>4. /\ cells \in [0 .. k - 1 -> Value \ GlobalValues]
      /\ \A i, j \in 0 .. k - 1 : cells[i] = cells[j] => i = j
  BY <1>3, GlobalsAreValues, FreshFacts
<1>5. o \in Ownership
  BY ProgramAssumption DEF Ownership
<1> HIDE DEF o
<1>6. /\ owner \in Ownership
      /\ \A i \in 0 .. k - 1 : owner[cells[i]] = 1
      /\ \A v \in GlobalValues : owner[v] = GlobalOwner[v]
  <2>1. /\ Owned(o, cells, 1) \in Ownership
        /\ \A v \in Value : (\E i \in DOMAIN cells : cells[i] = v) => Owned(o, cells, 1)[v] = 1
        /\ \A v \in Value : ~ (\E i \in DOMAIN cells : cells[i] = v) => Owned(o, cells, 1)[v] = o[v]
    BY <1>5 DEF Owned, Ownership
  <2>2. \A v \in GlobalValues : v \in Value /\ o[v] = GlobalOwner[v]
    BY GlobalsAreValues DEF o
  <2>3. \A i \in DOMAIN cells : cells[i] \in Value \ GlobalValues
    BY <1>4
  <2>. QED
    BY <1>2, <1>4, <2>1, <2>2, <2>3
<1> DEFINE new == reg[1]
<1>7. /\ depth = 1 /\ DOMAIN reg = 1 .. depth
      /\ \A s \in Slots(Main, argc) :
           \/ s < GBase(Main) /\ new[s] = cells[s]
           \/ GBase(Main) <= s /\ s < ABase(Main) /\ new[s] = GlobalCell[ModuleOf[Main]][s - GBase(Main)]
           \/ ABase(Main) <= s /\ new[s] = cells[Locals[Main] + (s - ABase(Main))]
      /\ new = [s \in Slots(Main, argc) |-> new[s]]
  <2>1. /\ depth = 1 /\ DOMAIN reg = 1 .. depth
        /\ new = FrameRegisters(Main, argc, cells, [a \in 0 .. argc |-> cells[Locals[Main] + a]])
    BY <1>2
  <2>2. ASSUME NEW s \in Slots(Main, argc)
        PROVE  \/ s < GBase(Main) /\ new[s] = cells[s]
               \/ GBase(Main) <= s /\ s < ABase(Main) /\ new[s] = GlobalCell[ModuleOf[Main]][s - GBase(Main)]
               \/ ABase(Main) <= s /\ new[s] = cells[Locals[Main] + (s - ABase(Main))]
    <3>1. CASE s < GBase(Main)
      BY <2>1, <3>1 DEF FrameRegisters
    <3>2. CASE GBase(Main) <= s /\ s < ABase(Main)
      BY <1>0, <2>1, <3>2 DEF FrameRegisters
    <3>3. CASE ABase(Main) <= s
      <4>1. s - ABase(Main) \in 0 .. argc
        BY <1>0, <1>3, <3>3
      <4>. QED
        BY <1>0, <2>1, <3>3, <4>1 DEF FrameRegisters
    <3>. QED
      BY <1>0, <3>1, <3>2, <3>3
  <2>3. new = [s \in Slots(Main, argc) |-> new[s]]
    BY <2>1 DEF FrameRegisters
  <2>. QED
    BY <2>1, <2>2, <2>3, Zenon
<1> HIDE DEF new
<1>8. \A s \in Slots(Main, argc) :
        /\ new[s] \in Value
        /\ \/ owner[new[s]] \in Module
           \/ /\ owner[new[s]] = 1
              /\ \/ s < GBase(Main) /\ s \in 0 .. k - 1 /\ new[s] = cells[s]
                 \/ /\ ABase(Main) <= s /\ Locals[Main] + (s - ABase(Main)) \in 0 .. k - 1
                    /\ new[s] = cells[Locals[Main] + (s - ABase(Main))]
  <2> SUFFICES ASSUME NEW s \in Slots(Main, argc)
               PROVE  /\ new[s] \in Value
                      /\ \/ owner[new[s]] \in Module
                         \/ /\ owner[new[s]] = 1
                            /\ \/ s < GBase(Main) /\ s \in 0 .. k - 1 /\ new[s] = cells[s]
                               \/ /\ ABase(Main) <= s /\ Locals[Main] + (s - ABase(Main)) \in 0 .. k - 1
                                  /\ new[s] = cells[Locals[Main] + (s - ABase(Main))]
    OBVIOUS
  <2>1. CASE s < GBase(Main) /\ new[s] = cells[s]
    <3>1. s \in 0 .. k - 1
      BY <1>0, <1>3, <2>1
    <3>2. new[s] \in Value /\ owner[new[s]] = 1
      BY <1>4, <1>6, <2>1, <3>1
    <3>. QED
      BY <2>1, <3>1, <3>2
  <2>2. CASE GBase(Main) <= s /\ s < ABase(Main) /\ new[s] = GlobalCell[ModuleOf[Main]][s - GBase(Main)]
    <3>1. s - GBase(Main) \in 0 .. Globals[ModuleOf[Main]] - 1 /\ ModuleOf[Main] \in Module
      BY <1>3, <2>2, LayoutFacts DEF Slots
    <3>. QED
      BY <1>6, <2>2, <3>1, GlobalCellFacts
  <2>3. CASE ABase(Main) <= s /\ new[s] = cells[Locals[Main] + (s - ABase(Main))]
    <3>1. Locals[Main] + (s - ABase(Main)) \in 0 .. k - 1
      BY <1>3, <2>3, LayoutFacts DEF Slots
    <3>. QED
      BY <1>4, <1>6, <2>3, <3>1
  <2>. QED
    BY <1>7, <2>1, <2>2, <2>3
<1>9. FramesOK
  <2>1. new \in [Slots(Main, argc) -> Value \cup {NULL}]
    BY <1>7, <1>8
  <2>2. call[1].proc = Main /\ call[1].nargs = argc /\ call[1].ret = NULL /\ call \in [1 .. depth -> Activation]
    BY <1>2, <1>3 DEF Activation
  <2>. QED
    BY <1>6, <1>7, <2>1, <2>2 DEF FramesOK, Ownership, new
<1>10. Safe(depth, reg, owner, mapped)
  <2>1. \A s \in Slots(Main, argc) : \A t \in Slots(Main, argc) :
          t # s /\ new[t] = new[s] => owner[new[s]] # 1
    <3> SUFFICES ASSUME NEW s \in Slots(Main, argc), NEW t \in Slots(Main, argc),
                        t # s, new[t] = new[s], owner[new[s]] = 1
                 PROVE  FALSE
      OBVIOUS
    <3>1. 1 \notin Module
      BY AddressAssumption
    <3>2. \/ s < GBase(Main) /\ s \in 0 .. k - 1 /\ new[s] = cells[s]
          \/ /\ ABase(Main) <= s /\ Locals[Main] + (s - ABase(Main)) \in 0 .. k - 1
             /\ new[s] = cells[Locals[Main] + (s - ABase(Main))]
      BY <1>8, <3>1
    <3>3. \/ t < GBase(Main) /\ t \in 0 .. k - 1 /\ new[t] = cells[t]
          \/ /\ ABase(Main) <= t /\ Locals[Main] + (t - ABase(Main)) \in 0 .. k - 1
             /\ new[t] = cells[Locals[Main] + (t - ABase(Main))]
      BY <1>8, <3>1
    <3>4. PICK i \in 0 .. k - 1 :
            /\ new[s] = cells[i]
            /\ (s < GBase(Main) /\ i = s) \/ (ABase(Main) <= s /\ i = Locals[Main] + (s - ABase(Main)))
      BY <3>2
    <3>5. PICK j \in 0 .. k - 1 :
            /\ new[t] = cells[j]
            /\ (t < GBase(Main) /\ j = t) \/ (ABase(Main) <= t /\ j = Locals[Main] + (t - ABase(Main)))
      BY <3>3
    <3>6. i = j
      BY <1>4, <3>4, <3>5
    <3>7. s \in Nat /\ t \in Nat
      BY <1>0
    <3>. QED
      BY <1>0, <1>3, <3>4, <3>5, <3>6, <3>7
  <2>2. DOMAIN new = Slots(Main, argc)
    BY <1>7
  <2>. QED
    BY <1>7, <1>8, <2>1, <2>2 DEF Safe, new
<1>. QED
  BY <1>2, <1>6, <1>9, <1>10 DEF IInv, GlobalsOwned

(* The history drops only values that no register denotes, so that what    *)
(* holds of all but the remembered values holds of all but the history.    *)
LEMMA RememberSafe ==
  ASSUME IInv, NEW new \in SUBSET Value, Remember(new), After(mapped \cup new)
  PROVE  IInv'
<1>1. mapped' \in SUBSET Value
  BY DEF Remember, IInv
<1>2. FramesOK' /\ DOMAIN reg' = 1 .. depth'
  BY DEF After, FramesOK
<1>3. ASSUME NEW i \in 1 .. depth', NEW s \in DOMAIN reg'[i],
             reg'[i][s] # NULL, reg'[i][s] \notin mapped'
      PROVE  reg'[i][s] \notin mapped \cup new
  BY <1>2, <1>3 DEF Remember, IInv
<1>4. Safe(depth', reg', owner', mapped \cup new)
  BY DEF After
<1>5. Safe(depth', reg', owner', mapped')
  BY <1>3, <1>4 DEF Safe
<1>. QED
  BY <1>1, <1>2, <1>5 DEF After, IInv

(* Every instruction but amap keeps the invariant.                         *)
LEMMA InstructionSafe ==
  ASSUME IInv, Instruction
  PROVE  After(mapped)
<1>0. \A r \in Named : depth > 0 /\ r \in DOMAIN reg[depth]
  BY DEF Named, IInv, FramesOK
<1>12. ASSUME NEW p, NEW n, NEW r, NEW b, NEW regs, NEW o, NEW k, NEW cells, NEW args,
              depth > 0, Called(p, n, r, b, regs, o, k, cells, args)
       PROVE  After(mapped)
  BY <1>12, PushSafe DEF Called, IInv
<1>1. ASSUME NEW p \in Proc, CallFunc(p) PROVE After(mapped)
  <2>1. depth > 0
    BY <1>1 DEF CallFunc, Running
  <2>. QED
    BY <1>1, <1>12, <2>1, CallFuncCalls
<1>2. ASSUME NEW p \in Proc, NEW r \in Named, CallRegFunc(r, p) PROVE After(mapped)
  BY <1>0, <1>2, <1>12, CallRegFuncCalls
<1>3. ASSUME NEW p \in Proc, NEW r \in Named, NEW b \in Named, NEW n \in 0 .. MaxArgs,
             CallRegFuncReg(r, p, b, n)
      PROVE  After(mapped)
  <2>1. n \in Nat
    BY ProgramAssumption
  <2>. QED
    BY <1>0, <1>3, <1>12, <2>1, CallRegFuncRegCalls
<1>4. CASE Ret
  BY <1>4, PopPlain DEF Ret, Running
<1>5. CASE RetConst
  BY <1>5, ReturnNewValueSafe DEF RetConst, Running
<1>6. ASSUME NEW r \in Named, RetReg(r) PROVE After(mapped)
  BY <1>0, <1>6, RetRegSafe
<1>7. ASSUME NEW r1 \in Named, NEW r2 \in Named, Move(r1, r2) PROVE After(mapped)
  BY <1>0, <1>7, MoveSafe
<1>8. ASSUME NEW r1 \in Named, NEW r2 \in Named, Swap(r1, r2) PROVE After(mapped)
  BY <1>0, <1>8, SwapRegistersSafe
<1>9. CASE Exit
  BY <1>9, ExitSafe
<1>. QED
  BY <1>1, <1>2, <1>3, <1>4, <1>5, <1>6, <1>7, <1>8, <1>9 DEF Instruction

(* Every step keeps the invariant.                                         *)
LEMMA NextSafe == IInv /\ [Next]_vars => IInv'
<1> SUFFICES ASSUME IInv, [Next]_vars PROVE IInv'
  OBVIOUS
<1>1. CASE Instruction /\ Remember({})
  <2>1. After(mapped \cup {})
    BY <1>1, InstructionSafe
  <2>. QED
    BY <1>1, <2>1, RememberSafe
<1>2. ASSUME NEW r1 \in Named, NEW r2 \in Named, Amap(r1, r2), Remember(OwnMap(r2)) PROVE IInv'
  <2>1. depth > 0 /\ r1 \in DOMAIN reg[depth] /\ r2 \in DOMAIN reg[depth]
    BY DEF Named, IInv, FramesOK
  <2>2. After(mapped \cup OwnMap(r2))
    BY <1>2, <2>1, AmapSafe
  <2>3. OwnMap(r2) \in SUBSET Value
    BY DEF OwnMap
  <2>. QED
    BY <1>2, <2>2, <2>3, RememberSafe
<1>3. CASE Finished \/ UNCHANGED vars
  BY <1>3 DEF Finished, vars, IInv, FramesOK, GlobalsOwned, Safe
<1>. QED
  BY <1>1, <1>2, <1>3 DEF Next

(* The inductive invariant holds in every reachable state.                 *)
THEOREM Invariant == Spec => []IInv
BY InitSafe, NextSafe, PTL DEF Spec

(* Types: every frame has the registers its procedure calls for, and every *)
(* cell has an owner (the layout code of frame_f and the call handlers).   *)
THEOREM TypeCorrect == Spec => []TypeOK
<1>1. IInv => TypeOK
  BY DEF IInv, TypeOK
<1>. QED
  BY <1>1, Invariant, PTL

(* free_value and free_frame never free a value a register still denotes,  *)
(* unless the value's own frame has mapped it, nor a global of the running *)
(* program.                                                                *)
THEOREM NeverDangling == Spec => []NoDangling
<1>1. IInv => NoDangling
  BY AddressAssumption DEF IInv, Safe, NoDangling, Sound, GlobalsOwned
<1>. QED
  BY <1>1, Invariant, PTL

(* free_frame frees no value twice but one its frame has mapped.           *)
THEOREM NeverDoubleFree == Spec => []NoDoubleFree
<1>1. IInv => NoDoubleFree
  BY DEF IInv, Safe, NoDoubleFree, Sound
<1>. QED
  BY <1>1, Invariant, PTL

(* No frame reaches a value of a frame above it.                           *)
THEOREM AlwaysOwnersBelow == Spec => []OwnersBelow
<1>1. IInv => OwnersBelow
  BY DEF IInv, Safe, OwnersBelow, Sound
<1>. QED
  BY <1>1, Invariant, PTL

=============================================================================
