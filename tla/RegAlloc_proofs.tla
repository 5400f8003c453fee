-------------------------- MODULE RegAlloc_proofs --------------------------
(***************************************************************************)
(* Proofs about RegAlloc, for any counts and any bound: its types and the  *)
(* order of its free list always hold, get_regs(1) on a row of registers   *)
(* is the only step that goes wrong, and without it the allocator is a     *)
(* pool of registers.                                                      *)
(***************************************************************************)
EXTENDS RegAlloc, TLAPS

\* Whatever is asked for.
Ordered == TypeOK /\ FreeAscends

\* As long as nobody asked for one register of a row.
IInv == Ordered /\ HeldNotFree /\ NothingLost

-----------------------------------------------------------------------------

(* Removing the last elements of a sequence.                               *)
LEMMA DropLastFacts ==
  ASSUME NEW s \in Seq(Nat), NEW d \in 0 .. Len(s)
  PROVE  /\ DropLast(s, d) \in Seq(Nat)
         /\ Len(DropLast(s, d)) = Len(s) - d
         /\ \A i \in 1 .. Len(s) - d : DropLast(s, d)[i] = s[i]
BY DEF DropLast

(* The last n elements of a run of k are a row of registers.               *)
LEMMA RunIsRow ==
  ASSUME NEW s \in Seq(Nat), NEW k \in 1 .. Len(s), Run(s, k), NEW n \in 1 .. k
  PROVE  {s[i] : i \in Len(s) - n + 1 .. Len(s)} = Last(s) - (n - 1) .. Last(s)
<1>1. Len(s) \in Nat /\ Last(s) \in Nat
  BY DEF Last
<1>2. \A j \in 0 .. n - 1 : s[Len(s) - j] = Last(s) - j
  BY DEF Run
<1>3. ASSUME NEW i \in Len(s) - n + 1 .. Len(s)
      PROVE  s[i] \in Last(s) - (n - 1) .. Last(s)
  <2>1. Len(s) - i \in 0 .. n - 1 /\ Len(s) - (Len(s) - i) = i
    BY <1>1
  <2>2. s[i] = Last(s) - (Len(s) - i)
    BY <1>2, <2>1
  <2>. QED
    BY <1>1, <2>1, <2>2
<1>4. ASSUME NEW x \in Last(s) - (n - 1) .. Last(s)
      PROVE  \E i \in Len(s) - n + 1 .. Len(s) : s[i] = x
  <2>1. Last(s) - x \in 0 .. n - 1 /\ Last(s) - (Last(s) - x) = x
    BY <1>1
  <2>2. s[Len(s) - (Last(s) - x)] = x
    BY <1>2, <2>1
  <2>3. Len(s) - (Last(s) - x) \in Len(s) - n + 1 .. Len(s)
    BY <1>1, <2>1
  <2>. QED
    BY <2>2, <2>3
<1>. QED
  BY <1>3, <1>4

(* A shorter free list and more held registers keep the types and the      *)
(* order.                                                                  *)
LEMMA TakeOrdered ==
  ASSUME Ordered, NEW d \in 0 .. Len(free),
         free' \in Seq(Nat), Len(free') = Len(free) - d,
         \A i \in 1 .. Len(free) - d : free'[i] = free[i],
         num_registers' \in Nat, num_registers' >= num_registers,
         held' \in SUBSET Nat
  PROVE  Ordered'
<1>1. Len(free) \in Nat /\ num_registers \in Nat \ {0} /\ d \in Nat
  BY DEF Ordered, TypeOK
<1>2. TypeOK'
  BY <1>1 DEF TypeOK
<1>3. FreeAscends'
  <2> SUFFICES ASSUME NEW i \in 1 .. Len(free'), NEW j \in 1 .. Len(free'), i < j
               PROVE  free'[i] < free'[j]
    BY DEF FreeAscends
  <2>1. i \in 1 .. Len(free) - d /\ j \in 1 .. Len(free) - d
    BY <1>1
  <2>2. i \in 1 .. Len(free) /\ j \in 1 .. Len(free)
    BY <1>1
  <2>3. free[i] < free[j]
    BY <2>2 DEF Ordered, FreeAscends
  <2>. QED
    BY <2>1, <2>3
<1>. QED
  BY <1>2, <1>3 DEF Ordered

(* Handing out the end of the free list and new registers keeps the        *)
(* invariant, and what is handed out was unused.                           *)
LEMMA Take ==
  ASSUME IInv, NEW d \in 0 .. Len(free), NEW row,
         free' \in Seq(Nat), Len(free') = Len(free) - d,
         \A i \in 1 .. Len(free) - d : free'[i] = free[i],
         num_registers' \in Nat, num_registers' >= num_registers,
         held' = held \cup row,
         row = {free[i] : i \in Len(free) - d + 1 .. Len(free)}
                 \cup (num_registers .. num_registers' - 1)
  PROVE  IInv' /\ row \cap held = {}
<1>1. /\ Len(free) \in Nat /\ num_registers \in Nat \ {0} /\ held \in SUBSET Nat
      /\ free \in Seq(Nat) /\ d \in Nat /\ d <= Len(free)
      /\ \A i \in 1 .. Len(free) : free[i] \in Nat
  BY DEF IInv, Ordered, TypeOK
<1>2. \A x \in held : x \in 1 .. num_registers - 1
  BY DEF IInv, NothingLost
<1>3. \A i \in 1 .. Len(free) : free[i] \in 1 .. num_registers - 1 /\ free[i] \notin held
  <2>1. ASSUME NEW i \in 1 .. Len(free)
        PROVE  free[i] \in 1 .. num_registers - 1
    <3>1. free[i] \in {free[j] : j \in 1 .. Len(free)}
      OBVIOUS
    <3>. QED
      BY <3>1 DEF IInv, NothingLost
  <2>. QED
    BY <2>1 DEF IInv, HeldNotFree
<1>4. row \in SUBSET Nat /\ row \cap held = {}
  <2>1. ASSUME NEW x \in row
        PROVE  x \in Nat /\ x \notin held
    <3>1. CASE x \in num_registers .. num_registers' - 1
      BY <1>1, <1>2, <3>1
    <3>2. CASE x \in {free[i] : i \in Len(free) - d + 1 .. Len(free)}
      <4>1. PICK i \in Len(free) - d + 1 .. Len(free) : x = free[i]
        BY <3>2
      <4>2. i \in 1 .. Len(free)
        BY <1>1
      <4>. QED
        BY <1>1, <1>3, <4>1, <4>2
    <3>. QED
      BY <3>1, <3>2
  <2>. QED
    BY <2>1
<1>5. Ordered'
  <2>1. held' \in SUBSET Nat
    BY <1>1, <1>4
  <2>. QED
    BY <2>1, TakeOrdered DEF IInv
<1>7. HeldNotFree'
  <2> SUFFICES ASSUME NEW i \in 1 .. Len(free')
               PROVE  free'[i] \notin held \cup row
    BY DEF HeldNotFree
  <2>0. i \in 1 .. Len(free) - d /\ i \in 1 .. Len(free)
    BY <1>1
  <2>1. free[i] \notin held /\ free[i] \in 1 .. num_registers - 1
    BY <1>3, <2>0
  <2>2. ASSUME NEW j \in Len(free) - d + 1 .. Len(free)
        PROVE  free[i] # free[j]
    <3>1. j \in 1 .. Len(free) /\ i < j
      BY <1>1, <2>0
    <3>2. free[i] < free[j]
      BY <2>0, <3>1 DEF IInv, Ordered, FreeAscends
    <3>. QED
      BY <1>1, <2>0, <3>1, <3>2
  <2>3. free[i] \notin num_registers .. num_registers' - 1
    BY <1>1, <2>1
  <2>. QED
    BY <2>0, <2>1, <2>2, <2>3
<1>8. NothingLost'
  <2>1. {free'[i] : i \in 1 .. Len(free')} \cup {free[i] : i \in Len(free) - d + 1 .. Len(free)}
          = {free[i] : i \in 1 .. Len(free)}
    <3>1. \A i : i \in 1 .. Len(free') => i \in 1 .. Len(free) - d /\ i \in 1 .. Len(free)
      BY <1>1
    <3>2. \A i : i \in Len(free) - d + 1 .. Len(free) => i \in 1 .. Len(free)
      BY <1>1
    <3>3. \A i : i \in 1 .. Len(free) =>
            i \in 1 .. Len(free') \/ i \in Len(free) - d + 1 .. Len(free)
      BY <1>1
    <3>4. \A i \in 1 .. Len(free') : free'[i] = free[i]
      BY <3>1
    <3>. QED
      BY <3>1, <3>2, <3>3, <3>4
  <2>2. held \cup {free[i] : i \in 1 .. Len(free)} = 1 .. num_registers - 1
    BY DEF IInv, NothingLost
  <2>3. (1 .. num_registers - 1) \cup (num_registers .. num_registers' - 1) = 1 .. num_registers' - 1
    BY <1>1
  <2>4. held' \cup {free'[i] : i \in 1 .. Len(free')}
          = held \cup ({free'[i] : i \in 1 .. Len(free')} \cup {free[i] : i \in Len(free) - d + 1 .. Len(free)})
              \cup (num_registers .. num_registers' - 1)
    OBVIOUS
  <2>. QED
    BY <2>1, <2>2, <2>3, <2>4 DEF NothingLost
<1>. QED
  BY <1>4, <1>5, <1>7, <1>8 DEF IInv

(* The row of n registers from "first" on is the last d elements of the    *)
(* free list and the new registers.                                        *)
Grants(d, first, n) ==
  /\ d \in 0 .. Len(free) /\ first \in Int
  /\ free' \in Seq(Nat) /\ Len(free') = Len(free) - d
  /\ \A i \in 1 .. Len(free) - d : free'[i] = free[i]
  /\ num_registers' \in Nat /\ num_registers' >= num_registers
  /\ HandOut(first, n)
  /\ first .. first + n - 1 = {free[i] : i \in Len(free) - d + 1 .. Len(free)}
                                \cup (num_registers .. num_registers' - 1)

(* Such a row is granted as the pool grants it.                            *)
LEMMA Grant ==
  ASSUME IInv, NEW d, NEW first, NEW n \in Nat \ {0}, Grants(d, first, n)
  PROVE  IInv' /\ Pool!Acquire(n)
<1> USE DEF Grants
<1> DEFINE row == first .. first + n - 1
<1>1. held' = held \cup row
  BY DEF HandOut
<1>2. row = {free[i] : i \in Len(free) - d + 1 .. Len(free)} \cup (num_registers .. num_registers' - 1)
  OBVIOUS
<1>3. first \in row
  OBVIOUS
<1> HIDE DEF row
<1>4. IInv' /\ row \cap held = {}
  BY <1>1, <1>2, Take
<1>5. held' \ held = row /\ held \subseteq held'
  BY <1>1, <1>4
<1>6. first > 0
  <2>1. held' = 1 .. num_registers' - 1 \/ held' \subseteq 1 .. num_registers' - 1
    BY <1>4 DEF IInv, NothingLost
  <2>. QED
    BY <1>1, <1>3, <2>1
<1>. QED
  BY <1>3, <1>4, <1>5, <1>6 DEF Pool!Acquire, row

-----------------------------------------------------------------------------
(* One lemma per operation                                                 *)

(* get_reg hands out one unused register.                                  *)
LEMMA GetRegSafe ==
  ASSUME IInv, GetReg
  PROVE  IInv' /\ Pool!Acquire(1)
<1>1. Len(free) \in Nat /\ num_registers \in Nat \ {0} /\ free \in Seq(Nat)
  BY DEF IInv, Ordered, TypeOK
<1>2. CASE free # <<>>
  <2>1. 1 \in 0 .. Len(free) /\ Len(free) \in 1 .. Len(free)
    BY <1>1, <1>2
  <2>2. HandOut(Last(free), 1) /\ free' = DropLast(free, 1) /\ num_registers' = num_registers
    BY <1>2 DEF GetReg
  <2>3. Last(free) \in Nat /\ Last(free) = free[Len(free)]
    BY <1>1, <2>1 DEF Last
  <2>4. Last(free) .. Last(free) + 1 - 1 = {free[i] : i \in Len(free) - 1 + 1 .. Len(free)}
                                            \cup (num_registers .. num_registers' - 1)
    <3>1. Last(free) .. Last(free) + 1 - 1 = {free[Len(free)]}
      BY <2>3
    <3>2. num_registers .. num_registers' - 1 = {}
      BY <1>1, <2>2
    <3>3. Len(free) - 1 + 1 .. Len(free) = {Len(free)}
      BY <1>1
    <3>. QED
      BY <3>1, <3>2, <3>3
  <2>5. /\ free' \in Seq(Nat) /\ Len(free') = Len(free) - 1
        /\ \A i \in 1 .. Len(free) - 1 : free'[i] = free[i]
    BY <1>1, <2>1, <2>2, DropLastFacts
  <2>6. Grants(1, Last(free), 1)
    BY <1>1, <2>1, <2>2, <2>3, <2>4, <2>5 DEF Grants
  <2>. QED
    BY <2>6, Grant
<1>3. CASE free = <<>>
  <2>1. HandOut(num_registers, 1) /\ num_registers' = num_registers + 1 /\ free' = free
    BY <1>3 DEF GetReg
  <2>2. Len(free) = 0 /\ 0 \in 0 .. Len(free)
    BY <1>3
  <2>3. num_registers .. num_registers + 1 - 1 = {free[i] : i \in Len(free) - 0 + 1 .. Len(free)}
                                                  \cup (num_registers .. num_registers' - 1)
    BY <1>1, <2>1, <2>2
  <2>4. /\ free' \in Seq(Nat) /\ Len(free') = Len(free) - 0
        /\ \A i \in 1 .. Len(free) - 0 : free'[i] = free[i]
    BY <1>1, <2>1, <2>2
  <2>5. Grants(0, num_registers, 1)
    BY <1>1, <2>1, <2>2, <2>3, <2>4 DEF Grants
  <2>. QED
    BY <2>5, Grant
<1>. QED
  BY <1>2, <1>3

(* get_regs hands out as many registers as it is asked for in a row,       *)
(* unless that is one of a row.                                            *)
LEMMA GetRegsSafe ==
  ASSUME IInv, NEW n \in Nat \ {0}, GetRegs(n),
         n = 1 => ~ \E k \in 2 .. Len(free) : Run(free, k) /\ Reuse(1, k)
  PROVE  IInv' /\ Pool!Acquire(n)
<1>1. Len(free) \in Nat /\ num_registers \in Nat \ {0} /\ free \in Seq(Nat) /\ n \in Nat \ {0}
  BY DEF IInv, Ordered, TypeOK
<1>2. CASE AllNew(n)
  <2>1. HandOut(num_registers, n) /\ num_registers' = num_registers + n /\ free' = free
    BY <1>2 DEF AllNew
  <2>2. 0 \in 0 .. Len(free) /\ Len(free) - 0 + 1 .. Len(free) = {}
    BY <1>1
  <2>3. num_registers .. num_registers + n - 1 = {free[i] : i \in Len(free) - 0 + 1 .. Len(free)}
                                                  \cup (num_registers .. num_registers' - 1)
    BY <1>1, <2>1, <2>2
  <2>4. /\ free' \in Seq(Nat) /\ Len(free') = Len(free) - 0
        /\ \A i \in 1 .. Len(free) - 0 : free'[i] = free[i]
    BY <1>1, <2>1
  <2>5. Grants(0, num_registers, n)
    BY <1>1, <2>1, <2>2, <2>3, <2>4 DEF Grants
  <2>. QED
    BY <2>5, Grant
<1>3. ASSUME NEW k \in 1 .. Len(free), Run(free, k), Reuse(n, k)
      PROVE  IInv' /\ Pool!Acquire(n)
  <2>0. n >= 2
    <3>1. k \in 2 .. Len(free)
      BY <1>1, <1>3 DEF Reuse
    <3>. QED
      BY <1>3, <3>1
  <2>1. k >= n /\ HandOut(Last(free) - (n - 1), n) /\ free' = DropLast(free, n)
        /\ num_registers' = num_registers
    BY <1>3, <2>0 DEF Reuse
  <2>2. n \in 1 .. k /\ n \in 0 .. Len(free) /\ Last(free) \in Nat
    BY <1>1, <2>1 DEF Last
  <2>3. Last(free) - (n - 1) .. Last(free) - (n - 1) + n - 1
          = {free[i] : i \in Len(free) - n + 1 .. Len(free)} \cup (num_registers .. num_registers' - 1)
    <3>1. {free[i] : i \in Len(free) - n + 1 .. Len(free)} = Last(free) - (n - 1) .. Last(free)
      BY <1>1, <1>3, <2>2, RunIsRow
    <3>2. num_registers .. num_registers' - 1 = {}
      BY <1>1, <2>1
    <3>3. Last(free) - (n - 1) + n - 1 = Last(free)
      BY <2>2
    <3>. QED
      BY <3>1, <3>2, <3>3
  <2>4. /\ free' \in Seq(Nat) /\ Len(free') = Len(free) - n
        /\ \A i \in 1 .. Len(free) - n : free'[i] = free[i]
    BY <1>1, <2>1, <2>2, DropLastFacts
  <2>5. Last(free) - (n - 1) \in Int /\ num_registers' \in Nat /\ num_registers' >= num_registers
    BY <1>1, <2>1, <2>2
  <2>6. Grants(n, Last(free) - (n - 1), n)
    BY <1>1, <2>1, <2>2, <2>3, <2>4, <2>5 DEF Grants
  <2>. QED
    BY <2>6, Grant
<1>4. ASSUME NEW k \in 1 .. Len(free), Run(free, k), Extend(n, k)
      PROVE  IInv' /\ Pool!Acquire(n)
  <2>1. /\ HandOut(Last(free) - (k - 1), n) /\ free' = DropLast(free, k)
        /\ num_registers' = num_registers + (n - k) /\ k <= n
        /\ Last(free) + 1 = num_registers
    BY <1>1 , <1>4 DEF Extend
  <2>2. k \in 1 .. k /\ k \in 0 .. Len(free) /\ Last(free) \in Nat
    BY <1>1 DEF Last
  <2>3. Last(free) - (k - 1) .. Last(free) - (k - 1) + n - 1
          = {free[i] : i \in Len(free) - k + 1 .. Len(free)} \cup (num_registers .. num_registers' - 1)
    <3>1. {free[i] : i \in Len(free) - k + 1 .. Len(free)} = Last(free) - (k - 1) .. Last(free)
      BY <1>1, <1>4, <2>2, RunIsRow
    <3>2. Last(free) - (k - 1) + n - 1 = num_registers' - 1
      <4>1. k \in Nat /\ n \in Nat
        BY <1>1
      <4>. QED
        BY <2>1, <2>2, <4>1
    <3>3. (Last(free) - (k - 1) .. Last(free)) \cup (Last(free) + 1 .. num_registers' - 1)
            = Last(free) - (k - 1) .. num_registers' - 1
      BY <1>1, <2>1, <2>2
    <3>. QED
      BY <2>1, <3>1, <3>2, <3>3
  <2>4. /\ free' \in Seq(Nat) /\ Len(free') = Len(free) - k
        /\ \A i \in 1 .. Len(free) - k : free'[i] = free[i]
    BY <1>1, <2>1, <2>2, DropLastFacts
  <2>5. Last(free) - (k - 1) \in Int /\ num_registers' \in Nat /\ num_registers' >= num_registers
    BY <1>1, <2>1, <2>2
  <2>6. Grants(k, Last(free) - (k - 1), n)
    BY <1>1, <2>1, <2>2, <2>3, <2>4, <2>5 DEF Grants
  <2>. QED
    BY <2>6, Grant
<1>. QED
  BY <1>2, <1>3, <1>4 DEF GetRegs

(* Where a register belongs in the free list, and what the list is then.   *)
LEMMA InsertFacts ==
  ASSUME NEW s \in Seq(Nat), NEW p \in 0 .. Len(s), NEW r \in Nat
  PROVE  /\ InsertAfter(s, p, r) \in Seq(Nat)
         /\ Len(InsertAfter(s, p, r)) = Len(s) + 1
         /\ \A i \in 1 .. p : InsertAfter(s, p, r)[i] = s[i]
         /\ InsertAfter(s, p, r)[p + 1] = r
         /\ \A i \in p + 2 .. Len(s) + 1 : InsertAfter(s, p, r)[i] = s[i - 1]
<1> DEFINE t == InsertAfter(s, p, r)
<1>1. Len(s) \in Nat /\ \A i \in 1 .. Len(s) : s[i] \in Nat
  OBVIOUS
<1>2. t \in [1 .. Len(s) + 1 -> Nat]
  BY <1>1 DEF InsertAfter
<1>3. t \in Seq(Nat) /\ Len(t) = Len(s) + 1
  BY <1>1, <1>2
<1>4. /\ \A i \in 1 .. p : t[i] = s[i]
      /\ t[p + 1] = r
      /\ \A i \in p + 2 .. Len(s) + 1 : t[i] = s[i - 1]
  BY <1>1 DEF InsertAfter
<1>. QED
  BY <1>3, <1>4

\* free' is the free list with r in its place.
Inserted(p, r) ==
  /\ p \in 0 .. Len(free)
  /\ p > 0 => free[p] <= r
  /\ \A i \in p + 1 .. Len(free) : free[i] > r
  /\ free' \in Seq(Nat) /\ Len(free') = Len(free) + 1
  /\ \A i \in 1 .. p : free'[i] = free[i]
  /\ free'[p + 1] = r
  /\ \A i \in p + 2 .. Len(free) + 1 : free'[i] = free[i - 1]

LEMMA AddOrderedFacts ==
  ASSUME free \in Seq(Nat), NEW r \in Nat, AddOrdered(free, r)
  PROVE  \E p : Inserted(p, r)
<1>1. PICK p \in 0 .. Len(free) :
        /\ p > 0 => free[p] <= r
        /\ \A i \in p + 1 .. Len(free) : free[i] > r
        /\ free' = InsertAfter(free, p, r)
  BY DEF AddOrdered
<1>2. /\ InsertAfter(free, p, r) \in Seq(Nat)
      /\ Len(InsertAfter(free, p, r)) = Len(free) + 1
      /\ \A i \in 1 .. p : InsertAfter(free, p, r)[i] = free[i]
      /\ InsertAfter(free, p, r)[p + 1] = r
      /\ \A i \in p + 2 .. Len(free) + 1 : InsertAfter(free, p, r)[i] = free[i - 1]
  BY InsertFacts
<1>3. Inserted(p, r)
  BY <1>1, <1>2 DEF Inserted
<1>. QED
  BY <1>3

(* What the places of the new list hold.                                   *)
LEMMA InsertedPlaces ==
  ASSUME free \in Seq(Nat), NEW p, NEW r \in Nat, Inserted(p, r)
  PROVE  \A i \in 1 .. Len(free') :
           \/ i \in 1 .. p /\ i \in 1 .. Len(free) /\ free'[i] = free[i]
           \/ i = p + 1 /\ free'[i] = r
           \/ i \in p + 2 .. Len(free) + 1 /\ i - 1 \in 1 .. Len(free) /\ free'[i] = free[i - 1]
<1>1. Len(free) \in Nat /\ p \in Nat /\ p <= Len(free)
  BY DEF Inserted
<1>2. /\ Len(free') = Len(free) + 1
      /\ \A i \in 1 .. p : free'[i] = free[i]
      /\ free'[p + 1] = r
      /\ \A i \in p + 2 .. Len(free) + 1 : free'[i] = free[i - 1]
  BY DEF Inserted
<1> SUFFICES ASSUME NEW i \in 1 .. Len(free')
             PROVE  \/ i \in 1 .. p /\ i \in 1 .. Len(free) /\ free'[i] = free[i]
                    \/ i = p + 1 /\ free'[i] = r
                    \/ i \in p + 2 .. Len(free) + 1 /\ i - 1 \in 1 .. Len(free) /\ free'[i] = free[i - 1]
  OBVIOUS
<1>3. CASE i <= p
  BY <1>1, <1>2, <1>3
<1>4. CASE i = p + 1
  BY <1>2, <1>4
<1>5. CASE i > p + 1
  <2>1. i \in p + 2 .. Len(free) + 1 /\ i - 1 \in 1 .. Len(free)
    BY <1>1, <1>2, <1>5
  <2>. QED
    BY <1>2, <2>1
<1>. QED
  BY <1>1, <1>2, <1>3, <1>4, <1>5

(* A list that ascends and does not hold r ascends with r in its place.    *)
LEMMA InsertedAscends ==
  ASSUME free \in Seq(Nat), FreeAscends, NEW p, NEW r \in Nat, Inserted(p, r),
         \A i \in 1 .. Len(free) : free[i] # r
  PROVE  FreeAscends'
<1>1. /\ Len(free) \in Nat /\ p \in Nat /\ p <= Len(free) /\ p \in 0 .. Len(free)
      /\ \A i \in 1 .. Len(free) : free[i] \in Nat /\ free[i] # r
  BY DEF Inserted
<1>2. /\ p > 0 => free[p] <= r
      /\ \A i \in p + 1 .. Len(free) : free[i] > r
  BY DEF Inserted
<1>4. /\ Len(free') = Len(free) + 1
      /\ \A i \in 1 .. p : free'[i] = free[i]
      /\ free'[p + 1] = r
      /\ \A i \in p + 2 .. Len(free) + 1 : free'[i] = free[i - 1]
  BY DEF Inserted
<1>5. \A i \in 1 .. Len(free') :
        \/ i \in 1 .. p /\ i \in 1 .. Len(free) /\ free'[i] = free[i]
        \/ i = p + 1 /\ free'[i] = r
        \/ i \in p + 2 .. Len(free) + 1 /\ i - 1 \in 1 .. Len(free) /\ free'[i] = free[i - 1]
  BY InsertedPlaces
<1> SUFFICES ASSUME NEW i \in 1 .. Len(free'), NEW j \in 1 .. Len(free'), i < j
             PROVE  free'[i] < free'[j]
  BY DEF FreeAscends
<1>6. \A x, y \in 1 .. Len(free) : x < y => free[x] < free[y]
  BY DEF FreeAscends
<1>7. \A x \in 1 .. p : free[x] < r
  <2> SUFFICES ASSUME NEW x \in 1 .. p PROVE free[x] < r
    OBVIOUS
  <2>1. p \in 1 .. Len(free) /\ x \in 1 .. Len(free)
    BY <1>1
  <2>2. free[p] < r
    BY <1>1, <1>2, <2>1
  <2>3. x = p \/ free[x] < free[p]
    BY <1>6, <2>1
  <2>. QED
    BY <1>1, <2>1, <2>2, <2>3
<1>8. \A x \in p + 1 .. Len(free) : r < free[x]
  BY <1>1, <1>2
<1>9. CASE i \in 1 .. p
  <2>1. i \in 1 .. Len(free) /\ free'[i] = free[i] /\ free[i] < r
    BY <1>1, <1>4, <1>7, <1>9
  <2>2. CASE j \in 1 .. p
    <3>1. j \in 1 .. Len(free)
      BY <1>1, <2>2
    <3>. QED
      BY <1>4, <1>6, <2>1, <2>2, <3>1
  <2>3. CASE j = p + 1
    BY <1>4, <2>1, <2>3
  <2>4. CASE j \in p + 2 .. Len(free) + 1
    <3>1. j - 1 \in 1 .. Len(free) /\ i < j - 1
      BY <1>1, <1>9, <2>4
    <3>. QED
      BY <1>4, <1>6, <2>1, <2>4, <3>1
  <2>5. j \in 1 .. p \/ j = p + 1 \/ j \in p + 2 .. Len(free) + 1
    BY <1>5
  <2>. QED
    BY <2>2, <2>3, <2>4, <2>5
<1>10. CASE i = p + 1
  <2>1. j \in p + 2 .. Len(free) + 1 /\ j - 1 \in p + 1 .. Len(free)
    BY <1>1, <1>4, <1>10
  <2>. QED
    BY <1>4, <1>8, <1>10, <2>1
<1>11. CASE i \in p + 2 .. Len(free) + 1
  <2>1. /\ j \in p + 2 .. Len(free) + 1
        /\ i - 1 \in 1 .. Len(free) /\ j - 1 \in 1 .. Len(free) /\ i - 1 < j - 1
    BY <1>1, <1>4, <1>11
  <2>. QED
    BY <1>4, <1>6, <1>11, <2>1
<1>. QED
  BY <1>5, <1>9, <1>10, <1>11

(* ret_reg keeps the types and the order, whatever the list holds.         *)
LEMMA RetRegOrdered ==
  ASSUME Ordered, NEW r \in held, RetReg(r)
  PROVE  Ordered'
<1>1. /\ Len(free) \in Nat /\ num_registers \in Nat \ {0} /\ free \in Seq(Nat)
      /\ held \in SUBSET Nat /\ r \in Nat
      /\ \A i \in 1 .. Len(free) : free[i] \in Nat
  BY DEF Ordered, TypeOK
<1>2. held' \in SUBSET Nat /\ num_registers' = num_registers
  BY <1>1 DEF RetReg
<1>3. CASE \E i \in 1 .. Len(free) : free[i] = r
  <2>1. free' = free
    BY <1>3 DEF RetReg
  <2>. QED
    BY <1>1, <1>2, <2>1 DEF Ordered, TypeOK, FreeAscends
<1>4. ASSUME \A i \in 1 .. Len(free) : free[i] # r PROVE Ordered'
  <2>1. AddOrdered(free, r)
    BY <1>4 DEF RetReg
  <2>2. PICK p : Inserted(p, r)
    BY <1>1, <2>1, AddOrderedFacts
  <2>3. TypeOK'
    BY <1>1, <1>2, <2>2 DEF TypeOK, Inserted
  <2>4. FreeAscends'
    BY <1>1, <1>4, <2>2, InsertedAscends DEF Ordered
  <2>. QED
    BY <2>3, <2>4 DEF Ordered
<1>. QED
  BY <1>3, <1>4

(* ret_reg puts a held register back in its place.                         *)
LEMMA RetRegSafe ==
  ASSUME IInv, NEW r \in held, RetReg(r)
  PROVE  IInv' /\ Pool!Release
<1>1. /\ Len(free) \in Nat /\ num_registers \in Nat \ {0} /\ free \in Seq(Nat)
      /\ held \in SUBSET Nat /\ r \in Nat
      /\ \A i \in 1 .. Len(free) : free[i] \in Nat /\ free[i] # r
  BY DEF IInv, Ordered, TypeOK, HeldNotFree
<1>2. held' = held \ {r} /\ num_registers' = num_registers /\ AddOrdered(free, r)
  BY <1>1 DEF RetReg
<1>3. PICK p : Inserted(p, r)
  BY <1>1, <1>2, AddOrderedFacts
<1>4. /\ p \in 0 .. Len(free)
      /\ free' \in Seq(Nat) /\ Len(free') = Len(free) + 1
      /\ \A i \in 1 .. p : free'[i] = free[i]
      /\ free'[p + 1] = r
      /\ \A i \in p + 2 .. Len(free) + 1 : free'[i] = free[i - 1]
  BY <1>3 DEF Inserted
<1>5. \A i \in 1 .. Len(free') :
        \/ i \in 1 .. p /\ i \in 1 .. Len(free) /\ free'[i] = free[i]
        \/ i = p + 1 /\ free'[i] = r
        \/ i \in p + 2 .. Len(free) + 1 /\ i - 1 \in 1 .. Len(free) /\ free'[i] = free[i - 1]
  BY <1>1, <1>3, InsertedPlaces
<1>6. Ordered'
  BY RetRegOrdered DEF IInv
<1>7. HeldNotFree'
  <2>1. \A i \in 1 .. Len(free) : free[i] \notin held
    BY DEF IInv, HeldNotFree
  <2>. QED
    BY <1>2, <1>5, <2>1 DEF HeldNotFree
<1>9. NothingLost'
  <2>1. {free'[i] : i \in 1 .. Len(free')} = {free[i] : i \in 1 .. Len(free)} \cup {r}
    <3>1. ASSUME NEW i \in 1 .. Len(free)
          PROVE  \E j \in 1 .. Len(free') : free'[j] = free[i]
      <4>1. CASE i \in 1 .. p
        BY <1>1, <1>4, <4>1
      <4>2. CASE i \in p + 1 .. Len(free)
        <5>1. i + 1 \in p + 2 .. Len(free) + 1 /\ i + 1 \in 1 .. Len(free') /\ (i + 1) - 1 = i
          BY <1>1, <1>4, <4>2
        <5>. QED
          BY <1>4, <5>1
      <4>. QED
        BY <1>1, <1>4, <4>1, <4>2
    <3>2. p + 1 \in 1 .. Len(free')
      BY <1>1, <1>4
    <3>3. ASSUME NEW i \in 1 .. Len(free')
          PROVE  free'[i] = r \/ \E j \in 1 .. Len(free) : free[j] = free'[i]
      BY <1>5
    <3>4. \E j \in 1 .. Len(free') : free'[j] = r
      BY <1>4, <3>2
    <3>5. \A x \in {free'[i] : i \in 1 .. Len(free')} : x \in {free[i] : i \in 1 .. Len(free)} \cup {r}
      BY <3>3
    <3>6. \A x \in {free[i] : i \in 1 .. Len(free)} : x \in {free'[i] : i \in 1 .. Len(free')}
      BY <3>1
    <3>7. r \in {free'[i] : i \in 1 .. Len(free')}
      BY <3>4
    <3>. QED
      BY <3>5, <3>6, <3>7
  <2>2. held' \cup {free'[i] : i \in 1 .. Len(free')} = held \cup {free[i] : i \in 1 .. Len(free)}
    BY <1>2, <2>1
  <2>. QED
    BY <1>2, <2>2 DEF IInv, NothingLost
<1>. QED
  BY <1>2, <1>6, <1>7, <1>9 DEF IInv, Pool!Release

(* get_reg and get_regs take registers from the end of the free list, even *)
(* where they hand out the wrong one.                                      *)
LEMMA GetRegOrdered ==
  ASSUME Ordered, GetReg
  PROVE  Ordered'
<1>1. /\ Len(free) \in Nat /\ num_registers \in Nat \ {0} /\ free \in Seq(Nat)
      /\ held \in SUBSET Nat
  BY DEF Ordered, TypeOK
<1>2. CASE free # <<>>
  <2>1. 1 \in 0 .. Len(free) /\ Len(free) \in 1 .. Len(free)
    BY <1>1, <1>2
  <2>2. HandOut(Last(free), 1) /\ free' = DropLast(free, 1) /\ num_registers' = num_registers
    BY <1>2 DEF GetReg
  <2>3. held' \in SUBSET Nat
    <3>1. Last(free) \in Nat
      BY <1>1, <2>1 DEF Last
    <3>2. held' = held \cup (Last(free) .. Last(free) + 1 - 1)
      BY <2>2 DEF HandOut
    <3>3. \A x \in Last(free) .. Last(free) + 1 - 1 : x \in Nat
      BY <3>1
    <3>. QED
      BY <1>1, <3>2, <3>3
  <2>4. /\ free' \in Seq(Nat) /\ Len(free') = Len(free) - 1
        /\ \A i \in 1 .. Len(free) - 1 : free'[i] = free[i]
    BY <1>1, <2>1, <2>2, DropLastFacts
  <2>. QED
    BY <1>1, <2>1, <2>2, <2>3, <2>4, TakeOrdered
<1>3. CASE free = <<>>
  <2>1. HandOut(num_registers, 1) /\ num_registers' = num_registers + 1 /\ free' = free
    BY <1>3 DEF GetReg
  <2>2. held' \in SUBSET Nat
    BY <1>1, <2>1 DEF HandOut
  <2>. QED
    BY <1>1, <2>1, <2>2 DEF Ordered, TypeOK, FreeAscends
<1>. QED
  BY <1>2, <1>3

LEMMA GetRegsOrdered ==
  ASSUME Ordered, NEW n \in Nat \ {0}, GetRegs(n)
  PROVE  Ordered'
<1>1. /\ Len(free) \in Nat /\ num_registers \in Nat \ {0} /\ free \in Seq(Nat)
      /\ held \in SUBSET Nat /\ n \in Nat \ {0}
  BY DEF Ordered, TypeOK
<1>2. CASE AllNew(n)
  <2>1. HandOut(num_registers, n) /\ num_registers' = num_registers + n /\ free' = free
    BY <1>2 DEF AllNew
  <2>2. held' \in SUBSET Nat
    BY <1>1, <2>1 DEF HandOut
  <2>3. num_registers' \in Nat \ {0}
    BY <1>1, <2>1
  <2>. QED
    BY <1>1, <2>1, <2>2, <2>3 DEF Ordered, TypeOK, FreeAscends
<1>3. ASSUME NEW k \in 1 .. Len(free), Run(free, k), Reuse(n, k)
      PROVE  Ordered'
  <2> DEFINE seq == IF n < 2 THEN 2 ELSE n
  <2>1. /\ k >= 2 /\ k >= n /\ HandOut(Last(free) - (seq - 1), n)
        /\ free' = DropLast(free, n) /\ num_registers' = num_registers
    BY <1>3 DEF Reuse
  <2>2. seq \in 1 .. k /\ n \in 0 .. Len(free)
    BY <1>1, <2>1
  <2>3. Last(free) - (seq - 1) \in Nat
    <3>1. seq - 1 \in 0 .. k - 1 /\ Len(free) - (seq - 1) \in 1 .. Len(free)
      BY <1>1, <2>2
    <3>2. free[Len(free) - (seq - 1)] = Last(free) - (seq - 1)
      BY <1>3, <3>1 DEF Run
    <3>. QED
      BY <1>1, <3>1, <3>2
  <2> HIDE DEF seq
  <2>4. held' \in SUBSET Nat
    <3> DEFINE first == Last(free) - (seq - 1)
    <3>1. held' = held \cup (first .. first + n - 1) /\ first \in Nat
      BY <2>1, <2>3 DEF HandOut
    <3> HIDE DEF first
    <3>. QED
      BY <1>1, <3>1
  <2>5. /\ free' \in Seq(Nat) /\ Len(free') = Len(free) - n
        /\ \A i \in 1 .. Len(free) - n : free'[i] = free[i]
    BY <1>1, <2>1, <2>2, DropLastFacts
  <2>6. num_registers' \in Nat /\ num_registers' >= num_registers
    BY <1>1, <2>1
  <2>. QED
    BY <2>2, <2>4, <2>5, <2>6, TakeOrdered
<1>4. ASSUME NEW k \in 1 .. Len(free), Run(free, k), Extend(n, k)
      PROVE  Ordered'
  <2>1. /\ HandOut(Last(free) - (k - 1), n) /\ free' = DropLast(free, k)
        /\ num_registers' = num_registers + (n - k) /\ k <= n
    BY <1>1, <1>4 DEF Extend
  <2>2. k \in 0 .. Len(free)
    BY <1>1
  <2>3. Last(free) - (k - 1) \in Nat
    <3>1. k - 1 \in 0 .. k - 1 /\ Len(free) - (k - 1) \in 1 .. Len(free)
      BY <1>1
    <3>2. free[Len(free) - (k - 1)] = Last(free) - (k - 1)
      BY <1>4, <3>1 DEF Run
    <3>. QED
      BY <1>1, <3>1, <3>2
  <2>4. held' \in SUBSET Nat
    <3> DEFINE first == Last(free) - (k - 1)
    <3>1. held' = held \cup (first .. first + n - 1) /\ first \in Nat
      BY <2>1, <2>3 DEF HandOut
    <3> HIDE DEF first
    <3>. QED
      BY <1>1, <3>1
  <2>5. /\ free' \in Seq(Nat) /\ Len(free') = Len(free) - k
        /\ \A i \in 1 .. Len(free) - k : free'[i] = free[i]
    BY <1>1, <2>1, <2>2, DropLastFacts
  <2>6. num_registers' \in Nat /\ num_registers' >= num_registers
    BY <1>1, <2>1
  <2>. QED
    BY <2>2, <2>4, <2>5, <2>6, TakeOrdered
<1>. QED
  BY <1>2, <1>3, <1>4 DEF GetRegs

(* One register of a row: the one handed out is still in the free list.    *)
LEMMA SingleFaults ==
  ASSUME Ordered, SingleFromRow
  PROVE  ~HeldNotFree'
<1>1. PICK k \in 2 .. Len(free) : Run(free, k) /\ Reuse(1, k)
  BY DEF SingleFromRow
<1>2. Len(free) \in Nat /\ free \in Seq(Nat) /\ 1 \in 0 .. Len(free) /\ k \in 1 .. Len(free)
  BY DEF Ordered, TypeOK
<1>3. HandOut(Last(free) - 1, 1) /\ free' = DropLast(free, 1)
  BY <1>1 DEF Reuse
<1>4. 1 \in 0 .. k - 1 /\ Len(free) - 1 \in 1 .. Len(free) - 1
  BY <1>1, <1>2
<1>5. free[Len(free) - 1] = Last(free) - 1
  BY <1>1, <1>4 DEF Run
<1>6. Last(free) - 1 \in held'
  <2>1. free[Len(free) - 1] \in Nat
    BY <1>2, <1>4
  <2>. QED
    BY <1>3, <1>5, <2>1 DEF HandOut
<1>7. Len(free') = Len(free) - 1 /\ free'[Len(free) - 1] = free[Len(free) - 1]
  BY <1>2, <1>3, <1>4, DropLastFacts
<1>. QED
  BY <1>4, <1>5, <1>6, <1>7 DEF HeldNotFree

-----------------------------------------------------------------------------
(* Theorems                                                                *)

LEMMA InitOrdered == Init => Ordered
BY DEF Init, Ordered, TypeOK, FreeAscends

LEMMA NextOrdered ==
  ASSUME Ordered, [Next]_vars
  PROVE  Ordered'
<1>1. CASE GetReg
  BY <1>1, GetRegOrdered
<1>2. ASSUME NEW n \in Counts, GetRegs(n) PROVE Ordered'
  BY <1>2, CountsAssumption, GetRegsOrdered
<1>3. ASSUME NEW r \in held, RetReg(r) PROVE Ordered'
  BY <1>3, RetRegOrdered
<1>4. CASE UNCHANGED vars
  BY <1>4 DEF vars, Ordered, TypeOK, FreeAscends
<1>. QED
  BY <1>1, <1>2, <1>3, <1>4 DEF Next

(* The invariant holds at first.                                           *)
LEMMA InitSafe == Init => IInv
BY DEF Init, IInv, Ordered, TypeOK, HeldNotFree, FreeAscends, NothingLost

(* Every step but the one that takes one register of a row keeps it and is *)
(* a step of the pool.                                                     *)
LEMMA NextSafe ==
  ASSUME IInv, [Next]_vars, [~SingleFromRow]_vars
  PROVE  IInv' /\ [Pool!Next]_held
<1>1. CASE GetReg
  BY <1>1, GetRegSafe DEF Pool!Next
<1>2. ASSUME ~SingleFromRow, NEW n \in Counts, GetRegs(n) PROVE IInv' /\ [Pool!Next]_held
  <2>1. n \in Nat \ {0}
    BY CountsAssumption
  <2>2. n = 1 => ~ \E k \in 2 .. Len(free) : Run(free, k) /\ Reuse(1, k)
    BY <1>2 DEF SingleFromRow
  <2>. QED
    BY <1>2, <2>1, <2>2, GetRegsSafe DEF Pool!Next
<1>3. ASSUME NEW r \in held, RetReg(r) PROVE IInv' /\ [Pool!Next]_held
  BY <1>3, RetRegSafe DEF Pool!Next
<1>4. CASE UNCHANGED vars
  BY <1>4 DEF vars, IInv, Ordered, TypeOK, HeldNotFree, FreeAscends, NothingLost
<1>. QED
  BY <1>1, <1>2, <1>3, <1>4 DEF Next

(* Types and order hold in every reachable state.                          *)
LEMMA OrderedInvariant == Spec => []Ordered
BY InitOrdered, NextOrdered, PTL DEF Spec

(* The allocator keeps its types, whatever it is asked for: no register    *)
(* below r0 is in the list or handed out, and num_registers counts r0.     *)
THEOREM TypeCorrect == Spec => []TypeOK
<1>1. Ordered => TypeOK
  BY DEF Ordered
<1>. QED
  BY <1>1, OrderedInvariant, PTL

(* The free list ascends strictly, whatever the allocator is asked for,    *)
(* also after it handed out a register that is still in the list.          *)
THEOREM ListAscends == Spec => []FreeAscends
<1>1. Ordered => FreeAscends
  BY DEF Ordered
<1>. QED
  BY <1>1, OrderedInvariant, PTL

(* Of all steps, those that take one register of a row, and only those,    *)
(* hand out a register that stays free, lose one or leave the pool.        *)
THEOREM FaultsOnlyInSingle == Spec => FaultsExactly
<1> DEFINE Step == HeldNotFree /\ NothingLost =>
                     IF SingleFromRow THEN ~HeldNotFree'
                                      ELSE HeldNotFree' /\ NothingLost' /\ [Pool!Next]_held
<1>1. Ordered /\ [Next]_vars => [Step]_vars
  <2> SUFFICES ASSUME Ordered, [Next]_vars, HeldNotFree, NothingLost
               PROVE  IF SingleFromRow THEN ~HeldNotFree'
                                       ELSE HeldNotFree' /\ NothingLost' /\ [Pool!Next]_held
    OBVIOUS
  <2>1. CASE SingleFromRow
    BY <2>1, SingleFaults
  <2>2. CASE ~SingleFromRow
    BY <2>2, NextSafe DEF IInv
  <2>. QED
    BY <2>1, <2>2
<1> HIDE DEF Step
<1>2. Spec => [][Step]_vars
  BY <1>1, OrderedInvariant, PTL DEF Spec
<1>. QED
  BY <1>2 DEF FaultsExactly, Step

\* Every request for one register found no row of two or more at the end of
\* the free list.
NoSingleFromRow == [][~SingleFromRow]_vars

(* The invariant holds as long as no register is taken alone from a row.   *)
THEOREM Invariant == Spec /\ NoSingleFromRow => []IInv
BY InitSafe, NextSafe, PTL DEF Spec, NoSingleFromRow

(* Until then a register that get_reg or get_regs hands out is in nobody's *)
(* hands.                                                                  *)
THEOREM NeverHeldAndFree == Spec /\ NoSingleFromRow => []HeldNotFree
<1>1. IInv => HeldNotFree
  BY DEF IInv
<1>. QED
  BY <1>1, Invariant, PTL

(* Until then no register is lost: each one used so far is held or can be  *)
(* reused.                                                                 *)
THEOREM NeverLost == Spec /\ NoSingleFromRow => []NothingLost
<1>1. IInv => NothingLost
  BY DEF IInv
<1>. QED
  BY <1>1, Invariant, PTL

(* Until then the allocator implements the pool of registers.              *)
THEOREM ImplementsPool == Spec /\ NoSingleFromRow => PoolSpec
<1>1. Init => Pool!Init
  BY DEF Init, Pool!Init
<1>. QED
  BY <1>1, Invariant, NextSafe, PTL DEF Spec, NoSingleFromRow, PoolSpec, Pool!Spec

=============================================================================
