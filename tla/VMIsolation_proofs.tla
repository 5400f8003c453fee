------------------------- MODULE VMIsolation_proofs -------------------------
(***************************************************************************)
(* Proofs about VMFrames: what an instruction may do to the frames that    *)
(* wait for it.  Every instruction rearranges the registers of the current *)
(* frame, pushes a frame, pops one, or ends the program; the four kinds of *)
(* step are stated below without the registers and cells an instruction    *)
(* names, each instruction is shown to be of one of them, and the          *)
(* properties follow from the kinds and the invariant of VMFrames_proofs.  *)
(***************************************************************************)
EXTENDS VMFrames_proofs

(* The registers of the current frame denote what they denoted, in another *)
(* order, and only values of the frame are freed.                          *)
Rearranged ==
  /\ depth > 0 /\ depth' = depth /\ call' = call
  /\ \A i \in 1 .. depth - 1 : reg'[i] = reg[i]
  /\ \A s \in DOMAIN reg'[depth] :
       reg'[depth][s] = NULL \/ \E t \in DOMAIN reg[depth] : reg'[depth][s] = reg[depth][t]
  /\ \A v \in Value : owner'[v] = owner[v] \/ (owner[v] = depth /\ owner'[v] = FREE)
  /\ \A s \in DOMAIN reg[depth] :
       reg[depth][s] # NULL /\ owner'[reg[depth][s]] = depth =>
         \E t \in DOMAIN reg'[depth] : reg'[depth][t] = reg[depth][s]

(* A new frame has its own values, globals and what it was passed, and all *)
(* values that were allocated; the caller may have lost one register.      *)
Pushed ==
  /\ depth > 0 /\ depth' = depth + 1
  /\ \A i \in 1 .. depth : call'[i] = call[i]
  /\ \A i \in 1 .. depth - 1 : reg'[i] = reg[i]
  /\ DOMAIN reg'[depth] = DOMAIN reg[depth]
  /\ \A s \in DOMAIN reg[depth] :
       \/ reg'[depth][s] = reg[depth][s]
       \/ reg'[depth][s] = NULL /\ (reg[depth][s] # NULL => owner'[reg[depth][s]] # depth)
  /\ \A s \in DOMAIN reg'[depth + 1] :
       LET v == reg'[depth + 1][s] IN
       v = NULL \/ owner'[v] = depth + 1 \/ v \in GlobalValues \/ v \in Passed(depth)'
  /\ \A v \in Value :
       \/ owner'[v] = owner[v]
       \/ owner[v] \in {FREE, depth} /\ owner'[v] = FREE
       \/ /\ owner[v] \in {FREE, depth} /\ owner'[v] = depth + 1
          /\ \E s \in DOMAIN reg'[depth + 1] : reg'[depth + 1][s] = v

(* The frame's values are freed but for a result, which the return         *)
(* register of the caller denotes then.                                    *)
Received(v) ==
  /\ HasReturnRegister
  /\ v \in Value /\ owner[v] \in {FREE, depth} /\ owner'[v] = depth - 1
  /\ reg'[depth - 1] = [reg[depth - 1] EXCEPT ![call[depth].ret] = v]
Popped ==
  /\ depth > 1 /\ depth' = depth - 1
  /\ \A i \in 1 .. depth - 1 : call'[i] = call[i]
  /\ \A i \in 1 .. depth - 2 : reg'[i] = reg[i]
  /\ reg'[depth - 1] = reg[depth - 1] \/ \E v \in Value : Received(v)
  /\ \A v \in Value :
       \/ owner'[v] = owner[v] /\ (owner[v] = depth => \A s \in DOMAIN reg[depth] : reg[depth][s] # v)
       \/ owner[v] = depth /\ owner'[v] = FREE
       \/ Received(v)

(* Nothing of the program is left but what it had lost before.             *)
Ended == depth' = 0 /\ \A v \in Value : Lost(v)' => Lost(v)

-----------------------------------------------------------------------------
(* Every instruction is one of the four                                    *)

(* free_value frees the value if it has that owner, and nothing else.      *)
LEMMA FreeValueStep ==
  ASSUME NEW o \in Ownership, NEW f, NEW x \in Value \cup {NULL}, NEW v \in Value
  PROVE  \/ FreeValue(o, f, x)[v] = o[v] /\ (v # x \/ o[v] # f)
         \/ FreeValue(o, f, x)[v] = FREE /\ v = x /\ o[v] = f
BY AddressAssumption DEF FreeValue, Ownership

(* MOVE_REG_REG                                                            *)
LEMMA MoveStep ==
  ASSUME IInv, depth > 0, NEW r1 \in DOMAIN reg[depth], NEW r2 \in DOMAIN reg[depth],
         Move(r1, r2)
  PROVE  Rearranged
<1> DEFINE regs == reg[depth]
           moved == [[regs EXCEPT ![r1] = regs[r2]] EXCEPT ![r2] = NULL]
<1>1. /\ depth \in Nat \ {0} /\ depth \in 1 .. depth /\ DOMAIN reg = 1 .. depth
      /\ regs \in [DOMAIN regs -> Value \cup {NULL}] /\ owner \in Ownership
  BY CurrentFrame
<1>2. /\ depth' = depth /\ call' = call /\ reg'[depth] = moved
      /\ \A i \in 1 .. depth - 1 : reg'[i] = reg[i]
  BY <1>1 DEF Move, SetRegisters
<1>3. \A v \in Value :
        \/ owner'[v] = owner[v] /\ (v # regs[r1] \/ owner[v] # depth)
        \/ owner'[v] = FREE /\ v = regs[r1] /\ owner[v] = depth
  BY <1>1, FreeValueStep DEF Move
<1>4. \A s \in DOMAIN regs :
        regs[s] # NULL /\ owner'[regs[s]] = depth => regs[s] # regs[r1]
  BY <1>1, <1>3, AddressAssumption
<1>5. /\ DOMAIN moved = DOMAIN regs /\ moved[r2] = NULL /\ (r1 # r2 => moved[r1] = regs[r2])
      /\ \A s \in DOMAIN regs : s # r1 /\ s # r2 => moved[s] = regs[s]
  BY <1>1
<1> HIDE DEF regs, moved
<1>6. \A s \in DOMAIN moved : moved[s] = NULL \/ \E t \in DOMAIN regs : moved[s] = regs[t]
  BY <1>5 DEF regs
<1>7. \A s \in DOMAIN regs :
        regs[s] # NULL /\ owner'[regs[s]] = depth => \E t \in DOMAIN moved : moved[t] = regs[s]
  BY <1>4, <1>5 DEF regs
<1>. QED
  BY <1>1, <1>2, <1>3, <1>6, <1>7 DEF Rearranged, regs

(* SWAP_REG_REG                                                            *)
LEMMA SwapStep ==
  ASSUME IInv, depth > 0, NEW r1 \in DOMAIN reg[depth], NEW r2 \in DOMAIN reg[depth],
         Swap(r1, r2)
  PROVE  Rearranged
<1> DEFINE regs == reg[depth]
           swapped == [regs EXCEPT ![r1] = regs[r2], ![r2] = regs[r1]]
<1>1. /\ depth \in Nat \ {0} /\ depth \in 1 .. depth /\ DOMAIN reg = 1 .. depth
      /\ regs \in [DOMAIN regs -> Value \cup {NULL}]
  BY CurrentFrame
<1>2. /\ depth' = depth /\ call' = call /\ owner' = owner /\ reg'[depth] = swapped
      /\ \A i \in 1 .. depth - 1 : reg'[i] = reg[i]
  BY <1>1 DEF Swap, SetRegisters
<1>3. /\ DOMAIN swapped = DOMAIN regs /\ swapped[r1] = regs[r2] /\ swapped[r2] = regs[r1]
      /\ \A s \in DOMAIN regs : s # r1 /\ s # r2 => swapped[s] = regs[s]
  BY <1>1
<1> HIDE DEF regs, swapped
<1>4. \A s \in DOMAIN swapped : \E t \in DOMAIN regs : swapped[s] = regs[t]
  BY <1>3 DEF regs
<1>5. \A s \in DOMAIN regs : \E t \in DOMAIN swapped : swapped[t] = regs[s]
  BY <1>3 DEF regs
<1>. QED
  BY <1>1, <1>2, <1>4, <1>5 DEF Rearranged, regs

(* AMAP_REG_REG, AMAP_REG_INT                                              *)
LEMMA AmapStep ==
  ASSUME IInv, depth > 0, NEW r1 \in DOMAIN reg[depth], NEW r2 \in DOMAIN reg[depth],
         Amap(r1, r2)
  PROVE  Rearranged
<1> DEFINE regs == reg[depth]
           aliased == [regs EXCEPT ![r1] = regs[r2]]
<1>1. /\ depth \in Nat \ {0} /\ depth \in 1 .. depth /\ DOMAIN reg = 1 .. depth
      /\ regs \in [DOMAIN regs -> Value \cup {NULL}] /\ owner \in Ownership
  BY CurrentFrame
<1>2. /\ depth' = depth /\ call' = call /\ reg'[depth] = aliased
      /\ \A i \in 1 .. depth - 1 : reg'[i] = reg[i]
  BY <1>1 DEF Amap, SetRegisters
<1>3. \A v \in Value :
        \/ owner'[v] = owner[v] /\ (v # regs[r1] \/ owner[v] # depth)
        \/ owner'[v] = FREE /\ v = regs[r1] /\ owner[v] = depth
  BY <1>1, FreeValueStep DEF Amap
<1>4. \A s \in DOMAIN regs :
        regs[s] # NULL /\ owner'[regs[s]] = depth => regs[s] # regs[r1]
  BY <1>1, <1>3, AddressAssumption
<1>5. /\ DOMAIN aliased = DOMAIN regs /\ aliased[r1] = regs[r2]
      /\ \A s \in DOMAIN regs : s # r1 => aliased[s] = regs[s]
  BY <1>1
<1> HIDE DEF regs, aliased
<1>6. \A s \in DOMAIN aliased : \E t \in DOMAIN regs : aliased[s] = regs[t]
  BY <1>5 DEF regs
<1>7. \A s \in DOMAIN regs :
        regs[s] # NULL /\ owner'[regs[s]] = depth => \E t \in DOMAIN aliased : aliased[t] = regs[s]
  BY <1>4, <1>5 DEF regs
<1>. QED
  BY <1>1, <1>2, <1>3, <1>6, <1>7 DEF Rearranged, regs

(* The three calls                                                         *)
LEMMA PushStep ==
  ASSUME IInv, depth > 0,
         NEW p, NEW n, NEW r, NEW b, NEW regs, NEW o, NEW k, NEW cells, NEW args,
         Called(p, n, r, b, regs, o, k, cells, args)
  PROVE  Pushed
<1> DEFINE new == FrameRegisters(p, n, cells, args)
<1>0. /\ CanPush(p, n, r, b, regs, o, k, cells, args)
      /\ Push(p, n, r, b, regs, o, cells, args)
      /\ \/ regs = reg[depth] /\ o = owner
         \/ \E x \in DOMAIN reg[depth] :
              /\ regs = [reg[depth] EXCEPT ![x] = NULL]
              /\ o = FreeValue(owner, depth, reg[depth][x])
      /\ \/ n = 0 /\ k = Locals[p] + 1 /\ b = NULL /\ args[0] = cells[Locals[p]]
         \/ k = Locals[p] /\ b \in Nat /\ args = ArgsFrom(regs, b, n)
  BY DEF Called
<1>1. /\ depth \in Nat \ {0} /\ depth' = depth + 1
      /\ owner' = Owned(o, cells, depth + 1)
      /\ reg' = [i \in 1 .. depth + 1 |-> IF i < depth THEN reg[i] ELSE IF i = depth THEN regs ELSE new]
      /\ call' = [i \in 1 .. depth + 1 |->
                    IF i <= depth THEN call[i]
                    ELSE [proc |-> p, nargs |-> n, ret |-> r, base |-> b]]
  BY <1>0, CurrentFrame DEF Push
<1>2. /\ reg'[depth] = regs /\ reg'[depth + 1] = new
      /\ \A i \in 1 .. depth - 1 : reg'[i] = reg[i]
      /\ \A i \in 1 .. depth : call'[i] = call[i]
      /\ call'[depth + 1].base = b /\ call'[depth + 1].nargs = n
  BY <1>1
<1>3. /\ p \in Proc /\ n \in Nat /\ Locals[p] \in Nat /\ k \in Nat /\ k >= Locals[p]
      /\ GBase(p) = Locals[p] /\ ABase(p) \in Nat /\ GBase(p) <= ABase(p)
      /\ ABase(p) = GBase(p) + Globals[ModuleOf[p]] /\ ModuleOf[p] \in Module
      /\ Globals[ModuleOf[p]] \in Nat
      /\ Slots(p, n) = 0 .. ABase(p) + n
      /\ o \in Ownership
      /\ cells \in [0 .. k - 1 -> {v \in Value : o[v] = FREE}]
      /\ args \in [0 .. n -> Value \cup {NULL}]
      /\ DOMAIN regs = DOMAIN reg[depth]
  BY <1>0, LayoutFacts DEF CanPush, Slots
<1>11. /\ n \in Nat /\ Locals[p] \in Nat /\ ABase(p) \in Nat /\ Globals[ModuleOf[p]] \in Nat
       /\ ABase(p) = Locals[p] + Globals[ModuleOf[p]]
  BY <1>3
<1>4. /\ DOMAIN new = 0 .. ABase(p) + n
      /\ \A s \in 0 .. ABase(p) + n :
           new[s] = IF s < Locals[p] THEN cells[s]
                    ELSE IF s < ABase(p) THEN GlobalCell[ModuleOf[p]][s - Locals[p]]
                    ELSE args[s - ABase(p)]
  BY <1>3 DEF FrameRegisters
<1>5. \A v \in Value :
        \/ o[v] = owner[v]
        \/ o[v] = FREE /\ owner[v] = depth /\ \E x \in DOMAIN reg[depth] : v = reg[depth][x]
  <2>1. owner \in Ownership /\ \A x \in DOMAIN reg[depth] : reg[depth][x] \in Value \cup {NULL}
    BY CurrentFrame
  <2>. QED
    BY <1>0, <2>1, FreeValueStep
<1>6. Assigned(o, cells, depth + 1, owner')
  <2>1. depth + 1 \in Nat \ {0}
    BY <1>1
  <2>. QED
    BY <1>1, <1>3, <2>1, OwnedFacts
<1> HIDE DEF new
<1>7. \A i \in 0 .. k - 1 : owner'[cells[i]] = depth + 1 /\ \E s \in DOMAIN new : new[s] = cells[i]
  <2> SUFFICES ASSUME NEW i \in 0 .. k - 1
               PROVE  owner'[cells[i]] = depth + 1 /\ \E s \in DOMAIN new : new[s] = cells[i]
    OBVIOUS
  <2>1. owner'[cells[i]] = depth + 1
    BY <1>3, <1>6 DEF Assigned
  <2>2. CASE i < Locals[p]
    <3>1. i \in 0 .. ABase(p) + n
      BY <1>3, <2>2
    <3>. QED
      BY <1>4, <2>1, <2>2, <3>1
  <2>3. CASE i >= Locals[p]
    <3>1. k = Locals[p] + 1 /\ n = 0 /\ args[0] = cells[Locals[p]] /\ i = Locals[p]
      BY <1>0, <1>3, <2>3
    <3>2. new[ABase(p)] = args[0] /\ ABase(p) \in 0 .. ABase(p) + n
      <4>1. ABase(p) \in 0 .. ABase(p) + n /\ ~ (ABase(p) < Locals[p]) /\ ABase(p) - ABase(p) = 0
        BY <1>11
      <4>. QED
        BY <1>4, <4>1
    <3>. QED
      BY <1>4, <2>1, <3>1, <3>2
  <2>. QED
    BY <1>3, <2>2, <2>3
<1>8. ASSUME NEW s \in DOMAIN new
      PROVE  \/ new[s] = NULL \/ owner'[new[s]] = depth + 1
             \/ new[s] \in GlobalValues \/ new[s] \in Passed(depth)'
  <2>0. s \in 0 .. ABase(p) + n
    BY <1>4
  <2>1. CASE s < Locals[p]
    <3>1. s \in 0 .. k - 1 /\ new[s] = cells[s]
      BY <1>3, <1>4, <2>0, <2>1
    <3>. QED
      BY <1>7, <3>1
  <2>2. CASE Locals[p] <= s /\ s < ABase(p)
    <3>1. s - Locals[p] \in 0 .. Globals[ModuleOf[p]] - 1
      BY <1>11, <2>0, <2>2
    <3>2. new[s] = GlobalCell[ModuleOf[p]][s - Locals[p]]
      BY <1>3, <1>4, <2>0, <2>2
    <3>3. GlobalCell[ModuleOf[p]][s - Locals[p]] \in GlobalValues
      BY <1>3, <3>1, GlobalCellFacts
    <3>. QED
      BY <3>2, <3>3
  <2>3. CASE ABase(p) <= s
    <3>1. s - ABase(p) \in 0 .. n /\ new[s] = args[s - ABase(p)]
      <4>1. s - ABase(p) \in 0 .. n /\ ~ (s < Locals[p]) /\ ~ (s < ABase(p))
        BY <1>11, <2>0, <2>3
      <4>. QED
        BY <1>4, <2>0, <4>1
    <3>2. CASE n = 0 /\ k = Locals[p] + 1 /\ args[0] = cells[Locals[p]]
      <4>1. Locals[p] \in 0 .. k - 1 /\ new[s] = cells[Locals[p]]
        BY <1>3, <3>1, <3>2
      <4>. QED
        BY <1>7, <4>1
    <3>3. CASE b \in Nat /\ args = ArgsFrom(regs, b, n)
      <4>1. new[s] = regs[b + (s - ABase(p))] /\ b + (s - ABase(p)) \in b .. b + n
        BY <1>3, <3>1, <3>3 DEF ArgsFrom
      <4>2. Passed(depth)' = {reg'[depth][j] : j \in b .. b + n}
        <5>1. call'[depth + 1].base # NULL
          BY <1>2, <3>3, AddressAssumption
        <5>2. depth' = depth + 1 /\ depth' - 1 = depth
          BY <1>1
        <5>. QED
          BY <1>2, <5>1, <5>2 DEF Passed
      <4>. QED
        BY <1>2, <4>1, <4>2
    <3>. QED
      BY <1>0, <3>2, <3>3
  <2>. QED
    BY <1>3, <2>0, <2>1, <2>2, <2>3
<1>9. ASSUME NEW v \in Value
      PROVE  \/ owner'[v] = owner[v]
             \/ owner[v] \in {FREE, depth} /\ owner'[v] = FREE
             \/ /\ owner[v] \in {FREE, depth} /\ owner'[v] = depth + 1
                /\ \E s \in DOMAIN new : new[s] = v
  <2>1. CASE \E i \in DOMAIN cells : cells[i] = v
    <3>1. PICK i \in 0 .. k - 1 : cells[i] = v
      BY <1>3, <2>1
    <3>2. o[v] = FREE
      BY <1>3, <3>1
    <3>. QED
      BY <1>5, <1>7, <3>1, <3>2
  <2>2. CASE ~ \E i \in DOMAIN cells : cells[i] = v
    BY <1>5, <1>6, <2>2 DEF Assigned
  <2>. QED
    BY <2>1, <2>2
<1>10. ASSUME NEW s \in DOMAIN reg[depth]
       PROVE  \/ regs[s] = reg[depth][s]
              \/ regs[s] = NULL /\ (reg[depth][s] # NULL => owner'[reg[depth][s]] # depth)
  <2>1. CASE regs = reg[depth]
    BY <2>1
  <2>2. ASSUME NEW x \in DOMAIN reg[depth], regs = [reg[depth] EXCEPT ![x] = NULL],
               o = FreeValue(owner, depth, reg[depth][x])
        PROVE  \/ regs[s] = reg[depth][s]
               \/ regs[s] = NULL /\ (reg[depth][s] # NULL => owner'[reg[depth][s]] # depth)
    <3>1. CASE s # x
      BY <2>2, <3>1
    <3>2. CASE s = x /\ reg[depth][x] # NULL
      <4> DEFINE v == reg[depth][x]
      <4>1. v \in Value /\ owner \in Ownership /\ regs[s] = NULL
        BY <2>2, <3>2, CurrentFrame
      <4>2. o[v] # depth
        BY <1>1, <2>2, <4>1, FreeValueStep, AddressAssumption
      <4>3. owner'[v] = depth + 1 \/ owner'[v] = o[v]
        BY <1>6, <4>1 DEF Assigned
      <4>. QED
        BY <1>1, <3>2, <4>1, <4>2, <4>3
    <3>3. CASE s = x /\ reg[depth][x] = NULL
      BY <2>2, <3>3
    <3>. QED
      BY <3>1, <3>2, <3>3
  <2>. QED
    BY <1>0, <2>1, <2>2
<1>. QED
  BY <1>1, <1>2, <1>3, <1>8, <1>9, <1>10 DEF Pushed

(* Popping the frame of a caller's callee.                                 *)
LEMMA PopFacts ==
  ASSUME IInv, depth > 1, NEW o \in Ownership, NEW regs, Pop(o, regs)
  PROVE  /\ depth' = depth - 1 /\ depth \in Nat
         /\ \A i \in 1 .. depth - 1 : call'[i] = call[i] /\ reg'[i] = regs[i]
         /\ \A v \in Value :
              owner'[v] = IF o[v] = depth /\ \E s \in DOMAIN reg[depth] : reg[depth][s] = v
                            THEN FREE ELSE o[v]
<1>1. depth \in Nat /\ depth # 1
  BY DEF IInv, FramesOK
<1>2. /\ depth' = depth - 1
      /\ call' = [i \in 1 .. depth - 1 |-> call[i]]
      /\ reg' = [i \in 1 .. depth - 1 |-> regs[i]]
      /\ owner' = FreeFrame(o, depth, reg[depth])
  BY <1>1 DEF Pop, Drop
<1>3. \A v \in Value :
        owner'[v] = IF o[v] = depth /\ \E s \in DOMAIN reg[depth] : reg[depth][s] = v
                      THEN FREE ELSE o[v]
  BY <1>2 DEF FreeFrame
<1>. QED
  BY <1>1, <1>2, <1>3

(* Popping without a result.                                               *)
LEMMA PlainPopStep ==
  ASSUME IInv, depth > 0, Pop(owner, reg)
  PROVE  Popped \/ Ended
<1>1. depth \in Nat \ {0} /\ owner \in Ownership
  BY CurrentFrame
<1>2. CASE depth > 1
  BY <1>1, <1>2, PopFacts DEF Popped
<1>3. CASE depth = 1
  <2>1. /\ depth' = 0
        /\ owner' = FreeGlobals(FreeFrame(owner, 1, reg[1]))
    BY <1>3 DEF Pop
  <2>2. ASSUME NEW v \in Value, owner'[v] \in Nat
        PROVE  owner'[v] = owner[v] /\ ~ (owner[v] = 1 /\ \E s \in DOMAIN reg[1] : reg[1][s] = v)
    BY <2>1, <2>2, AddressAssumption DEF FreeGlobals, FreeFrame
  <2>3. ASSUME NEW v \in Value, Lost(v)'
        PROVE  Lost(v)
    <3>1. owner'[v] \in Nat
      BY <2>3 DEF Lost
    <3>2. owner[v] \in Nat \ {0}
      BY <1>1, <2>2, <3>1, AddressAssumption DEF Ownership
    <3>. QED
      BY <1>3, <2>2, <3>1, <3>2 DEF Lost
  <2>. QED
    BY <2>1, <2>3 DEF Ended
<1>. QED
  BY <1>1, <1>2, <1>3

(* Popping with a result that was free or belonged to the frame.           *)
LEMMA ResultPopStep ==
  ASSUME IInv, depth > 0, HasReturnRegister,
         NEW x \in Value, NEW o \in Ownership,
         o[x] = depth - 1, owner[x] \in {FREE, depth},
         \A v \in Value : v # x => o[v] = owner[v],
         Pop(o, PlaceResult(x))
  PROVE  Popped
<1>1. /\ depth \in Nat /\ depth > 1 /\ depth - 1 \in 1 .. depth
      /\ DOMAIN reg = 1 .. depth
  BY DEF IInv, FramesOK, HasReturnRegister
<1>2. /\ depth' = depth - 1
      /\ \A i \in 1 .. depth - 1 : call'[i] = call[i] /\ reg'[i] = PlaceResult(x)[i]
      /\ \A v \in Value :
           owner'[v] = IF o[v] = depth /\ \E s \in DOMAIN reg[depth] : reg[depth][s] = v
                         THEN FREE ELSE o[v]
  BY <1>1, PopFacts
<1>3. /\ \A i \in 1 .. depth - 2 : reg'[i] = reg[i]
      /\ reg'[depth - 1] = [reg[depth - 1] EXCEPT ![call[depth].ret] = x]
  BY <1>1, <1>2 DEF PlaceResult
<1>4. owner'[x] = depth - 1
  BY <1>1, <1>2
<1>5. Received(x)
  BY <1>3, <1>4 DEF Received
<1>6. ASSUME NEW v \in Value, v # x
      PROVE  \/ owner'[v] = owner[v] /\ (owner[v] = depth => \A s \in DOMAIN reg[depth] : reg[depth][s] # v)
             \/ owner[v] = depth /\ owner'[v] = FREE
  BY <1>2, <1>6
<1>. QED
  BY <1>1, <1>2, <1>3, <1>5, <1>6 DEF Popped

(* RET_INT and the like, and the copying RET_REG                           *)
LEMMA ReturnNewValueStep ==
  ASSUME IInv, depth > 0, ReturnNewValue
  PROVE  Popped \/ Ended
<1>1. CASE ~ HasReturnRegister
  BY <1>1, PlainPopStep DEF ReturnNewValue
<1>2. CASE HasReturnRegister
  <2>1. PICK cells \in Fresh(1, {v \in Value : owner[v] # FREE}) :
          Pop(Owned(owner, cells, depth - 1), PlaceResult(cells[0]))
    BY <1>2 DEF ReturnNewValue, Live
  <2>2. cells \in [0 .. 1 - 1 -> {v \in Value : owner[v] = FREE}]
    BY CellCounts, CurrentFrame, FreshCells
  <2>3. cells[0] \in Value /\ owner[cells[0]] = FREE /\ DOMAIN cells = {0}
    BY <2>2
  <2>4. depth - 1 \in Nat \ {0} /\ owner \in Ownership
    BY <1>2, CurrentFrame DEF IInv, FramesOK, HasReturnRegister
  <2>5. Assigned(owner, cells, depth - 1, Owned(owner, cells, depth - 1))
    BY <2>4, OwnedFacts
  <2>6. /\ Owned(owner, cells, depth - 1) \in Ownership
        /\ Owned(owner, cells, depth - 1)[cells[0]] = depth - 1
        /\ \A x \in Value : x # cells[0] => Owned(owner, cells, depth - 1)[x] = owner[x]
    BY <2>3, <2>5 DEF Assigned
  <2>. QED
    BY <1>2, <2>1, <2>3, <2>6, ResultPopStep
<1>. QED
  BY <1>1, <1>2

(* RET_REG                                                                 *)
LEMMA RetRegStep ==
  ASSUME IInv, depth > 0, NEW r \in DOMAIN reg[depth], RetReg(r)
  PROVE  Popped \/ Ended
<1> DEFINE v == reg[depth][r]
           o == [owner EXCEPT ![v] = depth - 1]
<1>1. v \in Value
  BY CurrentFrame DEF RetReg
<1>2. CASE HasReturnRegister /\ owner[v] = depth
  <2>1. Pop(o, PlaceResult(v))
    BY <1>2 DEF RetReg
  <2>2. depth - 1 \in Nat \ {0}
    BY <1>2 DEF IInv, FramesOK, HasReturnRegister
  <2>3. /\ o \in Ownership /\ o[v] = depth - 1
        /\ \A x \in Value : x # v => o[x] = owner[x]
    BY <1>1, <2>2, CurrentFrame DEF Ownership
  <2> HIDE DEF v, o
  <2>. QED
    BY <1>1, <1>2, <2>1, <2>3, ResultPopStep
<1>3. CASE ~ (HasReturnRegister /\ owner[v] = depth)
  BY <1>3, ReturnNewValueStep DEF RetReg
<1>. QED
  BY <1>2, <1>3

(* EXIT                                                                    *)
LEMMA ExitStep ==
  ASSUME IInv, Exit
  PROVE  Ended
<1>1. depth' = 0 /\ depth \in Nat /\ owner \in Ownership
  BY CurrentFrame DEF Exit, Running
<1>2. ASSUME NEW v \in Value, owner'[v] \in Nat
      PROVE  /\ owner'[v] = owner[v]
             /\ ~ \E i \in 1 .. depth : owner[v] = i /\ \E s \in DOMAIN reg[i] : reg[i][s] = v
  BY <1>2, AddressAssumption DEF Exit, FreeGlobals
<1>3. ASSUME NEW v \in Value, Lost(v)'
      PROVE  Lost(v)
  <2>1. owner'[v] \in Nat
    BY <1>3 DEF Lost
  <2>2. owner[v] \in Nat \ {0}
    BY <1>1, <1>2, <2>1, AddressAssumption DEF Ownership
  <2>3. owner[v] <= depth => owner[v] \in 1 .. depth
    BY <1>1, <2>2
  <2>. QED
    BY <1>2, <2>1, <2>2, <2>3 DEF Lost
<1>. QED
  BY <1>1, <1>3 DEF Ended

(* Every step is of one of the four kinds, or changes nothing.             *)
LEMMA Steps == IInv /\ [Next]_vars => Rearranged \/ Pushed \/ Popped \/ Ended \/ UNCHANGED vars
<1> SUFFICES ASSUME IInv, [Next]_vars
             PROVE  Rearranged \/ Pushed \/ Popped \/ Ended \/ UNCHANGED vars
  OBVIOUS
<1>0. \A r \in Named : depth > 0 /\ r \in DOMAIN reg[depth]
  BY DEF Named, IInv, FramesOK
<1>1. ASSUME NEW p \in Proc, CallFunc(p) PROVE Pushed
  <2>1. depth > 0
    BY <1>1 DEF CallFunc, Running
  <2>. QED
    BY <1>1, <2>1, CallFuncCalls, PushStep
<1>2. ASSUME NEW p \in Proc, NEW r \in Named, CallRegFunc(r, p) PROVE Pushed
  BY <1>0, <1>2, CallRegFuncCalls, PushStep
<1>3. ASSUME NEW p \in Proc, NEW r \in Named, NEW b \in Named, NEW n \in 0 .. MaxArgs,
             CallRegFuncReg(r, p, b, n)
      PROVE  Pushed
  <2>1. n \in Nat
    BY ProgramAssumption
  <2>. QED
    BY <1>0, <1>3, <2>1, CallRegFuncRegCalls, PushStep
<1>4. CASE Ret
  BY <1>4, PlainPopStep DEF Ret, Running
<1>5. CASE RetConst
  BY <1>5, ReturnNewValueStep DEF RetConst, Running
<1>6. ASSUME NEW r \in Named, RetReg(r) PROVE Popped \/ Ended
  BY <1>0, <1>6, RetRegStep
<1>7. ASSUME NEW r1 \in Named, NEW r2 \in Named, Move(r1, r2) PROVE Rearranged
  BY <1>0, <1>7, MoveStep
<1>8. ASSUME NEW r1 \in Named, NEW r2 \in Named, Swap(r1, r2) PROVE Rearranged
  BY <1>0, <1>8, SwapStep
<1>9. ASSUME NEW r1 \in Named, NEW r2 \in Named, Amap(r1, r2) PROVE Rearranged
  BY <1>0, <1>9, AmapStep
<1>10. CASE Exit
  BY <1>10, ExitStep
<1>11. CASE Finished \/ UNCHANGED vars
  BY <1>11 DEF Finished
<1>. QED
  BY <1>1, <1>2, <1>3, <1>4, <1>5, <1>6, <1>7, <1>8, <1>9, <1>10, <1>11 DEF Next, Instruction

(* A denoted value that is not in the history was not in it before.        *)
LEMMA Forgetting ==
  ASSUME IInv, IInv', [Next]_vars,
         NEW i \in 1 .. depth', NEW s \in DOMAIN reg'[i], reg'[i][s] \notin mapped'
  PROVE  reg'[i][s] \notin mapped
<1>1. DOMAIN reg' = 1 .. depth'
  BY DEF IInv, FramesOK
<1>2. ASSUME NEW new, Remember(new) PROVE reg'[i][s] \notin mapped
  BY <1>1, <1>2 DEF Remember
<1>3. CASE mapped' = mapped
  BY <1>3
<1>. QED
  BY <1>2, <1>3 DEF Next, Finished, vars

(* A call or a return maps nothing.                                        *)
LEMMA OnlyAmapMaps ==
  ASSUME [Next]_vars, depth' # depth
  PROVE  mapped' \subseteq mapped
<1>1. CASE Remember({})
  BY <1>1 DEF Remember
<1>. QED
  BY <1>1 DEF Next, Amap, Finished, vars

-----------------------------------------------------------------------------
(* What the kinds of step leave alone                                      *)

(* A value that a register of a frame denotes before and after a step has  *)
(* the same owner: values are freed and adopted in the current frame only. *)
LEMMA SameOwner ==
  ASSUME IInv, IInv', Rearranged \/ Pushed \/ Popped,
         NEW i \in 1 .. depth, i \in 1 .. depth',
         NEW s \in DOMAIN reg[i], NEW t \in DOMAIN reg'[i],
         reg[i][s] # NULL, reg'[i][t] = reg[i][s],
         reg[i][s] \notin mapped, reg[i][s] \notin mapped'
  PROVE  owner'[reg[i][s]] = owner[reg[i][s]]
<1> DEFINE v == reg[i][s]
<1>1. /\ depth \in Nat /\ v \in Value /\ v # NULL
      /\ owner[v] \in (1 .. i) \cup Module
  BY DEF IInv, FramesOK, Safe
<1>2. owner'[v] \in (1 .. i) \cup Module
  BY DEF IInv, Safe
<1>3. /\ owner[v] # FREE /\ owner'[v] # FREE
      /\ owner'[v] # depth + 1
      /\ i < depth => owner[v] # depth
  BY <1>1, <1>2, AddressAssumption
<1> HIDE DEF v
<1>4. CASE Rearranged
  BY <1>1, <1>3, <1>4 DEF Rearranged, v
<1>5. CASE Pushed
  BY <1>1, <1>3, <1>5 DEF Pushed, v
<1>6. CASE Popped
  <2>1. i < depth
    BY <1>1, <1>6 DEF Popped
  <2>. QED
    BY <1>1, <1>3, <1>6, <2>1 DEF Popped, Received, v
<1>. QED
  BY <1>4, <1>5, <1>6

(* No instruction changes a register of a frame that waits for a call, but *)
(* the one its call returns to, and none frees or adopts a value of such a *)
(* frame: free_value's test of the owner protects the callers.             *)
THEOREM CallersAreUntouched == Spec => CallersUntouched
<1> DEFINE A == depth' > 0 =>
                  \A i \in 1 .. depth - 1 :
                    /\ \A s \in DOMAIN reg[i] :
                         reg'[i][s] = reg[i][s] \/ (i = depth - 1 /\ s = call[depth].ret)
                    /\ \A v \in Value : owner[v] = i => owner'[v] = i
<1>1. IInv /\ [Next]_vars => [A]_vars
  <2> SUFFICES ASSUME IInv, [Next]_vars, ~ UNCHANGED vars, depth' > 0,
                      NEW i \in 1 .. depth - 1
               PROVE  /\ \A s \in DOMAIN reg[i] :
                           reg'[i][s] = reg[i][s] \/ (i = depth - 1 /\ s = call[depth].ret)
                      /\ \A v \in Value : owner[v] = i => owner'[v] = i
    OBVIOUS
  <2>1. depth \in Nat /\ i < depth /\ i # FREE
    BY AddressAssumption DEF IInv, FramesOK
  <2>2. CASE Rearranged
    BY <2>1, <2>2 DEF Rearranged
  <2>3. CASE Pushed
    BY <2>1, <2>3 DEF Pushed
  <2>4. CASE Popped
    <3>1. \A v \in Value : owner[v] = i => owner'[v] = i
      <4>1. \A v \in Value : Received(v) => owner[v] \in {FREE, depth}
        BY DEF Received
      <4>2. \A v \in Value : owner'[v] = owner[v] \/ owner[v] = depth \/ Received(v)
        BY <2>4 DEF Popped
      <4>. QED
        BY <2>1, <4>1, <4>2
    <3>2. CASE i = depth - 1
      <4>1. ASSUME NEW v \in Value, Received(v), NEW s \in DOMAIN reg[i], s # call[depth].ret
            PROVE  reg'[i][s] = reg[i][s]
        BY <3>2, <4>1 DEF Received
      <4>. QED
        BY <2>4, <3>1, <3>2, <4>1 DEF Popped
    <3>3. CASE i # depth - 1
      <4>1. i \in 1 .. depth - 2
        BY <2>1, <3>3
      <4>. QED
        BY <2>4, <3>1, <4>1 DEF Popped
    <3>. QED
      BY <3>1, <3>2, <3>3
  <2>5. CASE Ended
    BY <2>5 DEF Ended
  <2>. QED
    BY <2>2, <2>3, <2>4, <2>5, Steps
<1>. QED
  BY <1>1, Invariant, PTL DEF Spec, CallersUntouched

(* A result arrives in the return register as a value of the caller that   *)
(* no other register denotes: RET_REG hands over values of its own frame,  *)
(* and copies any other.                                                   *)
THEOREM ResultsArePrivate == Spec => ResultIsPrivate
<1> DEFINE A == 0 < depth' /\ depth' < depth /\ call[depth].ret # NULL =>
                  LET r == call[depth].ret
                      v == reg'[depth'][r]
                  IN  \/ v = reg[depth'][r] \/ v \in mapped
                      \/ /\ owner'[v] = depth'
                         /\ \A i \in 1 .. depth' : \A s \in DOMAIN reg'[i] :
                              reg'[i][s] = v => i = depth' /\ s = r
<1>1. IInv /\ IInv' /\ [Next]_vars => [A]_vars
  <2> SUFFICES ASSUME IInv, IInv', [Next]_vars, ~ UNCHANGED vars,
                      0 < depth', depth' < depth, call[depth].ret # NULL
               PROVE  A
    OBVIOUS
  <2>1. depth \in Nat /\ depth \in 1 .. depth
    BY DEF IInv, FramesOK
  <2>0. depth' \in Nat
    BY DEF IInv, FramesOK
  <2>2. Popped
    BY <2>0, <2>1, Steps DEF Rearranged, Pushed, Ended
  <2>3. depth' = depth - 1 /\ depth' \in Nat
    BY <2>0, <2>2 DEF Popped
  <2>4. CASE reg'[depth - 1] = reg[depth - 1]
    BY <2>3, <2>4
  <2>6. ASSUME NEW x \in Value, Received(x), x \in mapped
        PROVE  A
    BY <2>1, <2>3, <2>6 DEF IInv, FramesOK, Received
  <2>5. ASSUME NEW x \in Value, Received(x), x \notin mapped
        PROVE  A
    <3>0. call[depth].ret \in DOMAIN reg[depth - 1]
      BY <2>1 DEF IInv, FramesOK
    <3>1. reg'[depth'][call[depth].ret] = x /\ owner'[x] = depth'
      BY <2>3, <2>5, <3>0 DEF Received
    <3>2. ASSUME NEW i \in 1 .. depth', NEW s \in DOMAIN reg'[i], reg'[i][s] = x
          PROVE  i = depth' /\ s = call[depth].ret
      <4>1. x # NULL /\ depth' \notin Module /\ x \notin mapped'
        BY <2>1, <2>3, <2>5, AddressAssumption, OnlyAmapMaps
      <4>2. owner'[x] \in (1 .. i) \cup Module
        BY <3>2, <4>1 DEF IInv, Safe
      <4>3. i = depth'
        BY <2>3, <3>1, <4>1, <4>2
      <4>4. call[depth].ret \in DOMAIN reg'[depth']
        BY <2>3, <2>5, <3>0 DEF Received
      <4>5. s = call[depth].ret
        BY <3>1, <3>2, <4>1, <4>3, <4>4 DEF IInv, Safe
      <4>. QED
        BY <4>3, <4>5
    <3>. QED
      BY <3>1, <3>2
  <2>. QED
    BY <2>2, <2>4, <2>5, <2>6 DEF Popped
<1>. QED
  BY <1>1, Invariant, PTL DEF Spec, ResultIsPrivate

(* A value is lost, that is, belongs to a frame of which no register       *)
(* denotes it, only when a result is returned over it.                     *)
THEOREM LostOnlyWhenReplaced == Spec => LostOnlyUnderResult
<1> DEFINE A == \A v \in Value :
                  ~ Lost(v) /\ Lost(v)' =>
                    /\ 0 < depth' /\ depth' < depth
                    /\ call[depth].ret # NULL /\ v = reg[depth'][call[depth].ret]
<1>1. IInv /\ [Next]_vars => [A]_vars
  <2> SUFFICES ASSUME IInv, [Next]_vars, ~ UNCHANGED vars,
                      NEW v \in Value, ~ Lost(v), Lost(v)'
               PROVE  /\ 0 < depth' /\ depth' < depth
                      /\ call[depth].ret # NULL /\ v = reg[depth'][call[depth].ret]
    OBVIOUS
  <2>1. /\ depth \in Nat /\ owner[v] \in (Nat \ {0}) \cup Module \cup {FREE}
        /\ v # NULL
    BY AddressAssumption DEF IInv, FramesOK
  <2>2. /\ owner'[v] \in Nat /\ owner'[v] # FREE
        /\ ~ (owner'[v] <= depth' /\ \E s \in DOMAIN reg'[owner'[v]] : reg'[owner'[v]][s] = v)
    BY AddressAssumption DEF Lost
  <2>3. ASSUME owner'[v] = owner[v]
        PROVE  /\ owner[v] \in 1 .. depth
               /\ \E s \in DOMAIN reg[owner[v]] : reg[owner[v]][s] = v
    <3>1. owner[v] \in Nat \ {0}
      BY <2>1, <2>2, <2>3, AddressAssumption
    <3>. QED
      BY <2>1, <3>1 DEF Lost
  <2>4. CASE Rearranged
    <3>1. owner'[v] = owner[v] /\ depth' = depth
      BY <2>2, <2>4 DEF Rearranged
    <3>2. PICK s \in DOMAIN reg[owner[v]] : reg[owner[v]][s] = v
      BY <2>3, <3>1
    <3>3. CASE owner[v] = depth
      BY <2>1, <2>2, <2>4, <3>1, <3>2, <3>3 DEF Rearranged
    <3>4. CASE owner[v] # depth
      <4>1. owner[v] \in 1 .. depth - 1
        BY <2>1, <2>3, <3>1, <3>4
      <4>. QED
        BY <2>1, <2>2, <2>4, <3>1, <3>2, <4>1 DEF Rearranged
    <3>. QED
      BY <3>3, <3>4
  <2>5. CASE Pushed
    <3>1. CASE owner'[v] = depth + 1 /\ \E s \in DOMAIN reg'[depth + 1] : reg'[depth + 1][s] = v
      BY <2>1, <2>2, <2>5, <3>1 DEF Pushed
    <3>2. CASE owner'[v] = owner[v]
      <4>1. PICK s \in DOMAIN reg[owner[v]] : reg[owner[v]][s] = v
        BY <2>3, <3>2
      <4>2. CASE owner[v] = depth
        <5>1. s \in DOMAIN reg'[depth] /\ reg'[depth][s] = v
          BY <2>1, <2>5, <3>2, <4>1, <4>2 DEF Pushed
        <5>. QED
          BY <2>1, <2>2, <2>5, <3>2, <4>2, <5>1 DEF Pushed
      <4>3. CASE owner[v] # depth
        <5>1. owner[v] \in 1 .. depth - 1
          BY <2>1, <2>3, <3>2, <4>3
        <5>2. reg'[owner[v]] = reg[owner[v]] /\ owner[v] <= depth'
          BY <2>1, <2>5, <5>1 DEF Pushed
        <5>. QED
          BY <2>2, <3>2, <4>1, <5>2
      <4>. QED
        BY <4>2, <4>3
    <3>. QED
      BY <2>2, <2>5, <3>1, <3>2 DEF Pushed
  <2>6. CASE Popped
    <3>0. /\ depth' = depth - 1 /\ depth > 1
          /\ call[depth].ret # NULL => call[depth].ret \in DOMAIN reg[depth - 1]
      BY <2>1, <2>6 DEF Popped, IInv, FramesOK
    <3>1. ~ Received(v)
      <4> SUFFICES ASSUME Received(v) PROVE FALSE
        OBVIOUS
      <4>1. /\ owner'[v] = depth' /\ call[depth].ret \in DOMAIN reg'[depth']
            /\ reg'[depth'][call[depth].ret] = v
        BY <3>0 DEF Received, HasReturnRegister
      <4>. QED
        BY <2>1, <2>2, <3>0, <4>1
    <3>2. owner'[v] = owner[v] /\ (owner[v] = depth => \A s \in DOMAIN reg[depth] : reg[depth][s] # v)
      BY <2>2, <2>6, <3>1 DEF Popped
    <3>3. PICK s \in DOMAIN reg[owner[v]] : reg[owner[v]][s] = v
      BY <2>3, <3>2
    <3>4. owner[v] \in 1 .. depth - 1
      BY <2>1, <2>3, <3>2, <3>3
    <3>5. ~ (\E u \in DOMAIN reg'[owner[v]] : reg'[owner[v]][u] = v)
      BY <2>1, <2>2, <3>0, <3>2, <3>4
    <3>6. owner[v] = depth - 1
      <4>1. owner[v] \in 1 .. depth - 2 \/ owner[v] = depth - 1
        BY <2>1, <3>4
      <4>. QED
        BY <2>6, <3>3, <3>5, <4>1 DEF Popped
    <3>7. PICK x \in Value : Received(x)
      BY <2>6, <3>3, <3>5, <3>6 DEF Popped
    <3>8. s = call[depth].ret /\ call[depth].ret # NULL
      BY <3>3, <3>5, <3>6, <3>7 DEF Received, HasReturnRegister
    <3>. QED
      BY <2>1, <3>0, <3>3, <3>6, <3>8
  <2>7. CASE Ended
    BY <2>7 DEF Ended
  <2>. QED
    BY <2>4, <2>5, <2>6, <2>7, Steps
<1>. QED
  BY <1>1, Invariant, PTL DEF Spec, LostOnlyUnderResult

(* What a frame was passed stays what it was as long as its caller's       *)
(* registers do.                                                           *)
LEMMA SamePassed ==
  ASSUME NEW i, call'[i] = call[i], reg'[i - 1] = reg[i - 1]
  PROVE  Passed(i)' = Passed(i)
BY DEF Passed

(* A callee reaches, of what it does not own, only the globals and what    *)
(* its call passed, however it swaps, maps and calls on.  (Of a value that *)
(* its own frame has mapped nothing is said, here and above.)              *)
THEOREM AlwaysArgumentWindow == Spec => []ArgumentWindow
<1>1. Init => ArgumentWindow
  BY DEF Init, ArgumentWindow
<1>2. IInv /\ IInv' /\ ArgumentWindow /\ [Next]_vars => ArgumentWindow'
  <2> SUFFICES ASSUME IInv, IInv', ArgumentWindow, [Next]_vars
               PROVE  ArgumentWindow'
    OBVIOUS
  <2>0. [Next]_vars
    OBVIOUS
  <2>1. CASE UNCHANGED vars
    BY <2>1 DEF vars, ArgumentWindow, Passed, Sound
  <2>2. CASE Ended
    BY <2>2 DEF Ended, ArgumentWindow
  <2>3. ASSUME Rearranged \/ Pushed \/ Popped,
               NEW i \in 2 .. depth', NEW s \in DOMAIN reg'[i],
               reg'[i][s] # NULL, reg'[i][s] \notin mapped', owner'[reg'[i][s]] # i
        PROVE  reg'[i][s] \in Passed(i)' \cup GlobalValues
    <3> DEFINE v == reg'[i][s]
    <3>1. depth \in Nat /\ depth' \in Nat /\ i \in Nat /\ i > 1 /\ i <= depth'
      BY DEF IInv, FramesOK
    <3>0. v # NULL /\ v \notin mapped' /\ v \notin mapped
      <4>1. v # NULL /\ v \notin mapped' /\ i \in 1 .. depth'
        BY <2>3, <3>1
      <4>. QED
        BY <2>0, <4>1, Forgetting
    <3>2. ASSUME i <= depth, NEW t \in DOMAIN reg[i], reg[i][t] = v,
                 call'[i] = call[i], reg'[i - 1] = reg[i - 1]
          PROVE  v \in Passed(i)' \cup GlobalValues
      <4>1. i \in 2 .. depth /\ i \in 1 .. depth /\ i \in 1 .. depth'
        BY <3>1, <3>2
      <4>2. owner[v] # i
        BY <2>3, <3>0, <3>2, <4>1, SameOwner
      <4>3. v \in Passed(i) \cup GlobalValues
        BY <2>3, <3>0, <3>2, <4>1, <4>2 DEF ArgumentWindow, Sound
      <4>. QED
        BY <3>2, <4>3, SamePassed
    <3>3. CASE Rearranged
      <4>1. i <= depth /\ call'[i] = call[i] /\ reg'[i - 1] = reg[i - 1]
        BY <3>1, <3>3 DEF Rearranged
      <4>2. \E t \in DOMAIN reg[i] : reg[i][t] = v
        <5>1. CASE i = depth
          BY <2>3, <3>3, <5>1 DEF Rearranged
        <5>2. CASE i # depth
          <6>1. i \in 1 .. depth - 1
            BY <3>1, <4>1, <5>2
          <6>. QED
            BY <3>3, <6>1 DEF Rearranged
        <5>. QED
          BY <5>1, <5>2
      <4>. QED
        BY <3>2, <4>1, <4>2
    <3>4. CASE Pushed
      <4>1. CASE i = depth + 1
        <5>1. depth' = depth + 1 /\ Passed(depth)' = Passed(i)'
          BY <3>4, <4>1 DEF Pushed, Passed
        <5>. QED
          BY <2>3, <3>4, <4>1, <5>1 DEF Pushed
      <4>2. CASE i # depth + 1
        <5>1. i <= depth /\ i \in 1 .. depth /\ i - 1 \in 1 .. depth - 1
          BY <3>1, <3>4, <4>2 DEF Pushed
        <5>2. call'[i] = call[i] /\ reg'[i - 1] = reg[i - 1]
          BY <3>4, <5>1 DEF Pushed
        <5>3. s \in DOMAIN reg[i] /\ reg[i][s] = v
          <6>1. CASE i = depth
            BY <2>3, <3>4, <6>1 DEF Pushed
          <6>2. CASE i # depth
            <7>1. i \in 1 .. depth - 1
              BY <3>1, <5>1, <6>2
            <7>. QED
              BY <3>4, <7>1 DEF Pushed
          <6>. QED
            BY <6>1, <6>2
        <5>. QED
          BY <3>2, <5>1, <5>2, <5>3
      <4>. QED
        BY <4>1, <4>2
    <3>5. CASE Popped
      <4>1. /\ depth' = depth - 1 /\ i \in 1 .. depth - 1 /\ i <= depth
            /\ i - 1 \in 1 .. depth - 2
        BY <3>1, <3>5 DEF Popped
      <4>2. call'[i] = call[i] /\ reg'[i - 1] = reg[i - 1]
        BY <3>5, <4>1 DEF Popped
      <4>3. s \in DOMAIN reg[i] /\ reg[i][s] = v
        <5>1. CASE reg'[i] = reg[i]
          BY <5>1
        <5>2. CASE reg'[i] # reg[i]
          <6>1. i = depth - 1
            <7>1. i \in 1 .. depth - 2 \/ i = depth - 1
              BY <3>1, <4>1
            <7>. QED
              BY <3>5, <5>2, <7>1 DEF Popped
          <6>2. PICK x \in Value : Received(x)
            BY <3>5, <5>2, <6>1 DEF Popped
          <6>3. v # x
            BY <2>3, <6>1, <6>2 DEF Received
          <6>. QED
            BY <6>1, <6>2, <6>3 DEF Received
        <5>. QED
          BY <5>1, <5>2
      <4>. QED
        BY <3>2, <4>1, <4>2, <4>3
    <3>. QED
      BY <2>3, <3>3, <3>4, <3>5
  <2>. QED
    BY <2>1, <2>2, <2>3, Steps DEF ArgumentWindow, Sound
<1>. QED
  BY <1>1, <1>2, Invariant, PTL DEF Spec

=============================================================================
