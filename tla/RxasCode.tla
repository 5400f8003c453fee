------------------------------ MODULE RxasCode ------------------------------
(***************************************************************************)
(* The instructions the keyhole optimiser rewrites, and what they do.      *)
(*                                                                         *)
(* An assembler line is a record                                           *)
(*   [op |-> mnemonic, to |-> names, regs |-> registers]                   *)
(* whose operands are split by kind: the names (labels and procedures) in  *)
(* their order, and the registers in theirs.  A label is a line of its     *)
(* own, with op "label" and the name it defines.  A register is            *)
(*   [type |-> "r", "g" or "a", num |-> its number].                       *)
(*                                                                         *)
(* The effects are those of the handlers of interpreter/rxvmintp.c.  A     *)
(* register holds an integer, of which a branch only sees the truth, and a *)
(* string, which is the sequence of the values it was concatenated from.   *)
(***************************************************************************)
EXTENDS Naturals, Sequences, SequencesExt, TLC

CONSTANTS
  Register,   \* the registers the program uses
  Fuel        \* how many instructions a run is followed for

Line(op, to, regs) == [op |-> op, to |-> to, regs |-> regs]
Label(l) == Line("label", <<l>>, << >>)

Labels(code) == {code[i].to[1] : i \in {i \in DOMAIN code : code[i].op = "label"}}

(* The exit at the end of the code; a space in a string.                   *)
END == "end"
SPACE == "space"

-----------------------------------------------------------------------------
(* A machine [at, exit, reg, out, steps]: the next line, the way it leaves *)
(* the code if it does, the registers, what was said, and how many         *)
(* instructions were executed.  It leaves the code at its end, or by a     *)
(* branch to a label that is not there.                                    *)

LineOf(code, l) ==
  IF l \in Labels(code)
  THEN CHOOSE i \in DOMAIN code : code[i].op = "label" /\ code[i].to[1] = l
  ELSE 0

Running(code, m) == m.at \in DOMAIN code

(* string_append extends the target in place.  The string of a register    *)
(* that is appended to itself is the right one too: what is copied from it *)
(* is before what is written (StringValue has the bytes behind its end).   *)
Appended(m, i, separator) ==
  [m.reg EXCEPT ![i.regs[1]].str = @ \o separator \o m.reg[i.regs[2]].str]

(* string_concat builds the result in a buffer of its own.                 *)
Concatenated(m, i, separator) ==
  [m.reg EXCEPT ![i.regs[1]].str = m.reg[i.regs[2]].str \o separator \o m.reg[i.regs[3]].str]

Swapped(m, i) ==
  [m.reg EXCEPT ![i.regs[1]] = m.reg[i.regs[2]], ![i.regs[2]] = m.reg[i.regs[1]]]

Registers(m, i) ==
  CASE i.op = "swap"    -> Swapped(m, i)
    [] i.op = "concat"  -> Concatenated(m, i, << >>)
    [] i.op = "sconcat" -> Concatenated(m, i, <<SPACE>>)
    [] i.op = "append"  -> Appended(m, i, << >>)
    [] i.op = "sappend" -> Appended(m, i, <<SPACE>>)
    [] OTHER            -> m.reg

(* CALL passes the registers that follow its last operand, which no        *)
(* operand names: the procedure sees them all.                             *)
Argument(i, r) == r.type = i.regs[2].type /\ r.num >= i.regs[2].num
Output(m, i) ==
  CASE i.op = "say"  -> <<m.reg[i.regs[1]].str>>
    [] i.op = "call" -> <<[r \in {r \in Register : Argument(i, r)} |-> m.reg[r].str]>>
    [] OTHER         -> << >>

(* The label an instruction goes on at, if it does not go on behind itself.*)
BranchesTo(m, i) ==
  LET int == i.regs # << >> /\ m.reg[i.regs[1]].int IN
  CASE i.op = "br"            -> {i.to[1]}
    [] i.op = "brt" /\ int    -> {i.to[1]}
    [] i.op = "brf" /\ ~ int  -> {i.to[1]}
    [] i.op = "brtf"          -> {i.to[IF int THEN 1 ELSE 2]}
    [] OTHER                  -> {}

Execute(code, m) ==
  LET i == code[m.at]
      next == [at |-> m.at + 1, exit |-> m.exit, reg |-> Registers(m, i),
               out |-> m.out \o Output(m, i),
               steps |-> m.steps + IF i.op = "label" THEN 0 ELSE 1]
  IN  IF BranchesTo(m, i) = {} THEN next
      ELSE LET l == CHOOSE l \in BranchesTo(m, i) : TRUE IN
           [next EXCEPT !.at = LineOf(code, l), !.exit = IF l \in Labels(code) THEN @ ELSE l]

-----------------------------------------------------------------------------
(* What the code does when it is entered at a line with these registers.   *)

Run(code, entry, reg) ==
  LET after[n \in 0 .. Fuel] ==
        IF n = 0 THEN [at |-> entry, exit |-> END, reg |-> reg, out |-> << >>, steps |-> 0]
        ELSE LET m == after[n - 1] IN IF Running(code, m) THEN Execute(code, m) ELSE m
  IN  after[Fuel]

Stops(code, m) == ~ Running(code, m)

(* Its meaning: where it leaves, with which registers, having said what;   *)
(* or that it loops.                                                       *)
Meaning(code, m) ==
  IF Stops(code, m) THEN <<m.exit, m.reg, m.out>> ELSE <<"loops">>

=============================================================================
