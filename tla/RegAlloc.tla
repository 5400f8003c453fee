------------------------------ MODULE RegAlloc ------------------------------
(***************************************************************************)
(* The register allocator of the REXX compiler (compiler/rxcpsymb.c): each *)
(* procedure scope keeps an ascending list of released registers and the   *)
(* number of registers used so far, which becomes the ".locals" of the     *)
(* procedure.                                                              *)
(*                                                                         *)
(* The client is register_walker of compiler/rxcpemit.c: get_reg for a     *)
(* symbol or a temporary, get_regs for a call's argument count and         *)
(* arguments, ret_reg for each register when its last use was walked.      *)
(***************************************************************************)
EXTENDS Integers, Sequences

CONSTANTS
  Counts,       \* the "number" of get_regs: one more than the arguments of a call
  MaxRegister   \* bound: registers of a procedure

ASSUME CountsAssumption == Counts \subseteq Nat \ {0}

VARIABLES
  free,           \* free_registers_array
  num_registers,  \* scope->num_registers
  held            \* the registers handed out and not returned

vars == <<free, num_registers, held>>

(* scp_f: "r0 is always available as a temp register".                     *)
InitWithoutScratch == free = <<>> /\ num_registers = 0 /\ held = {}
Init == free = <<>> /\ num_registers = 1 /\ held = {}

(* dpa_ado: the new last element moves down past every greater one.        *)
InsertAfter(s, p, r) ==
  [i \in 1 .. Len(s) + 1 |-> IF i <= p THEN s[i] ELSE IF i = p + 1 THEN r ELSE s[i - 1]]

AddLast(s, r) == free' = Append(s, r)
AddOrdered(s, r) ==
  \E p \in 0 .. Len(s) :
    /\ p > 0 => s[p] <= r
    /\ \A i \in p + 1 .. Len(s) : s[i] > r
    /\ free' = InsertAfter(s, p, r)

Last(s) == s[Len(s)]
DropLast(s, n) == SubSeq(s, 1, Len(s) - n)

HandOut(first, n) == held' = held \cup (first .. first + n - 1)

(* get_reg: the highest released register, or the next new one.            *)
GetRegKeepsFree ==
  /\ IF free # <<>>
       THEN HandOut(Last(free), 1) /\ UNCHANGED <<free, num_registers>>
       ELSE HandOut(num_registers, 1) /\ num_registers' = num_registers + 1 /\ UNCHANGED free
GetReg ==
  /\ IF free # <<>>
       THEN HandOut(Last(free), 1) /\ free' = DropLast(free, 1) /\ UNCHANGED num_registers
       ELSE HandOut(num_registers, 1) /\ num_registers' = num_registers + 1 /\ UNCHANGED free

(* get_regs: the loop over the end of the free list finds the k last       *)
(* elements in a row.                                                      *)
Run(s, k) ==
  /\ k \in 1 .. Len(s)
  /\ \A j \in 0 .. k - 1 : s[Len(s) - j] = Last(s) - j
  /\ k < Len(s) => s[Len(s) - k] # Last(s) - k

(* The loop returns once it extended the row to n registers: by then the   *)
(* row has at least two, whatever n is.                                    *)
Reuse(n, k) ==
  /\ k >= 2 /\ k >= n
  /\ LET seq == IF n < 2 THEN 2 ELSE n IN HandOut(Last(free) - (seq - 1), n)
  /\ free' = DropLast(free, n)
  /\ UNCHANGED num_registers

(* The row ends at the next new register: it is completed with new ones.   *)
ExtendByAll(n, k) ==
  /\ k = 1 \/ k < n
  /\ Last(free) + 1 = num_registers
  /\ HandOut(Last(free) - (k - 1), n)
  /\ free' = DropLast(free, k)
  /\ num_registers' = num_registers + n
Extend(n, k) ==
  /\ k = 1 \/ k < n
  /\ Last(free) + 1 = num_registers
  /\ HandOut(Last(free) - (k - 1), n)
  /\ free' = DropLast(free, k)
  /\ num_registers' = num_registers + (n - k)

AllNew(n) ==
  /\ HandOut(num_registers, n)
  /\ num_registers' = num_registers + n
  /\ UNCHANGED free

GetRegs(n) ==
  \/ free = <<>> /\ AllNew(n)
  \/ \E k \in 1 .. Len(free) :
       /\ Run(free, k)
       /\ \/ Reuse(n, k)
          \/ Extend(n, k)
          \/ (k = 1 \/ k < n) /\ Last(free) + 1 # num_registers /\ AllNew(n)

(* ret_reg: a register that is in the list already is not added again.     *)
RetReg(r) ==
  /\ IF \E i \in 1 .. Len(free) : free[i] = r THEN UNCHANGED free ELSE AddOrdered(free, r)
  /\ held' = held \ {r}
  /\ UNCHANGED num_registers

Next ==
  \/ GetReg /\ num_registers' <= MaxRegister + 1
  \/ \E n \in Counts : GetRegs(n) /\ num_registers' <= MaxRegister + 1
  \/ \E r \in held : RetReg(r)

Spec == Init /\ [][Next]_vars

-----------------------------------------------------------------------------
(* Properties *)

TypeOK ==
  /\ free \in Seq(Nat)
  /\ num_registers \in Nat \ {0}
  /\ held \in SUBSET Nat

(* A register in the free list is in nobody's hands: what get_reg and      *)
(* get_regs hand out next is unused.                                       *)
HeldNotFree == \A i \in 1 .. Len(free) : free[i] \notin held

(* The free list ascends strictly, so get_regs sees a row of registers as  *)
(* a run at its end, and never twice the same.                             *)
FreeAscends == \A i, j \in 1 .. Len(free) : i < j => free[i] < free[j]

(* No register is lost: every one the procedure ever used, r0 apart, is    *)
(* held or can be reused, and ".locals" covers it.                         *)
NothingLost == held \cup {free[i] : i \in 1 .. Len(free)} = 1 .. num_registers - 1

(* The allocator is a pool of registers: whatever it hands out was free.   *)
Pool == INSTANCE RegisterPool WITH held <- held
PoolSpec == Pool!Spec

(* get_regs is asked for one register while the free list ends in a row of *)
(* two or more.                                                            *)
SingleFromRow == 1 \in Counts /\ \E k \in 2 .. Len(free) : Run(free, k) /\ Reuse(1, k)

(* Asking for one register of a row is what goes wrong in get_regs, and    *)
(* all that goes wrong: as long as the held registers and the free list    *)
(* are the procedure's registers, such a request hands out one that stays  *)
(* in the free list, and every other step, whatever the counts, is a step  *)
(* of the pool that loses nothing.                                         *)
FaultsExactly ==
  [][HeldNotFree /\ NothingLost =>
       IF SingleFromRow THEN ~HeldNotFree'
                        ELSE HeldNotFree' /\ NothingLost' /\ [Pool!Next]_held]_vars

=============================================================================
