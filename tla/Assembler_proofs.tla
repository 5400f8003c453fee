--------------------------- MODULE Assembler_proofs ---------------------------
(***************************************************************************)
(* Proofs about Assembler, for every dialect of lines, length of module,   *)
(* and room in the pool that satisfy AssemblerAssumption.                  *)
(***************************************************************************)
EXTENDS Assembler, TLAPS, FiniteSets, FiniteSetTheorems, WellFoundedInduction

(* Sequences whose elements are of no particular kind.                     *)
IsList(s) == s \in Seq(Range(s))

LEMMA ListOf == ASSUME NEW S, NEW s \in Seq(S) PROVE IsList(s)
<1>1. \A k \in 1 .. Len(s) : s[k] \in Range(s)
  BY DEF Range
<1>. QED
  BY <1>1 DEF IsList

LEMMA AppendList ==
  ASSUME NEW s, IsList(s), NEW x
  PROVE  /\ IsList(Append(s, x)) /\ Len(Append(s, x)) = Len(s) + 1 /\ Len(s) \in Nat
         /\ DOMAIN Append(s, x) = 1 .. Len(s) + 1 /\ DOMAIN s = 1 .. Len(s)
         /\ \A k \in DOMAIN s : Append(s, x)[k] = s[k]
         /\ Append(s, x)[Len(s) + 1] = x
<1> DEFINE S == Range(s) \cup {x}
<1>1. s \in Seq(S)
  BY DEF IsList
<1>2. /\ Append(s, x) \in Seq(S) /\ Len(Append(s, x)) = Len(s) + 1 /\ Len(s) \in Nat
      /\ DOMAIN Append(s, x) = 1 .. Len(s) + 1 /\ DOMAIN s = 1 .. Len(s)
      /\ \A k \in DOMAIN s : Append(s, x)[k] = s[k]
      /\ Append(s, x)[Len(s) + 1] = x
  BY <1>1
<1>3. IsList(Append(s, x))
  BY <1>2, ListOf
<1>. QED
  BY <1>2, <1>3

LEMMA WriteList ==
  ASSUME NEW s, IsList(s), NEW e \in DOMAIN s, NEW fields
  PROVE  /\ IsList(Write(s, e, fields)) /\ Len(Write(s, e, fields)) = Len(s)
         /\ DOMAIN Write(s, e, fields) = DOMAIN s
         /\ \A d \in DOMAIN s \ {e} : Write(s, e, fields)[d] = s[d]
         /\ Write(s, e, fields)[e] = Over(s[e], fields)
<1> DEFINE w == Write(s, e, fields)
           x == Over(s[e], fields)
           S == Range(s) \cup {x}
<1>1. s \in Seq(S) /\ DOMAIN s = 1 .. Len(s)
  BY DEF IsList
<1>2. w = [s EXCEPT ![e] = x]
  BY DEF Write
<1> HIDE DEF x, w
<1>3. w \in Seq(S) /\ Len(w) = Len(s) /\ DOMAIN w = DOMAIN s /\ w[e] = x /\ \A d \in DOMAIN s \ {e} : w[d] = s[d]
  BY <1>1, <1>2
<1>4. IsList(w)
  BY <1>3, ListOf
<1>. QED
  BY <1>3, <1>4 DEF w, x

IsJoin(j, s, t) == j = s \o t
LEMMA JoinLists ==
  ASSUME NEW s, IsList(s), NEW t, IsList(t), NEW j, IsJoin(j, s, t)
  PROVE  /\ IsList(j) /\ Len(j) = Len(s) + Len(t) /\ Len(s) \in Nat /\ Len(t) \in Nat
         /\ DOMAIN s = 1 .. Len(s) /\ DOMAIN t = 1 .. Len(t) /\ DOMAIN j = 1 .. Len(s) + Len(t)
         /\ \A k \in DOMAIN s : j[k] = s[k]
         /\ \A k \in DOMAIN t : j[Len(s) + k] = t[k]
<1> DEFINE S == Range(s) \cup Range(t)
<1>1. s \in Seq(S) /\ t \in Seq(S)
  BY DEF IsList
<1>2. /\ j \in Seq(S) /\ Len(j) = Len(s) + Len(t) /\ Len(s) \in Nat /\ Len(t) \in Nat
      /\ DOMAIN s = 1 .. Len(s) /\ DOMAIN t = 1 .. Len(t) /\ DOMAIN j = 1 .. Len(s) + Len(t)
      /\ \A k \in DOMAIN s : j[k] = s[k]
      /\ \A k \in DOMAIN t : j[Len(s) + k] = t[k]
  BY <1>1 DEF IsJoin
<1>3. IsList(j)
  BY <1>2, ListOf
<1>. QED
  BY <1>2, <1>3

-----------------------------------------------------------------------------
(* Lines                                                                   *)

IsCode(line) == line.op \notin Directives \cup {"label", "invalid"}
Size(line) == IF IsCode(line) THEN Len(Operands(line)) + 1 ELSE 0

(* What IsLine says of the operands of an instruction.                     *)
LEMMA CodeLine ==
  ASSUME NEW line, IsLine(line), IsCode(line)
  PROVE  /\ line.op \in STRING
         /\ IsList(Operands(line)) /\ Len(Operands(line)) \in Nat
         /\ DOMAIN Operands(line) = 1 .. Len(Operands(line))
         /\ DOMAIN LabelsOf(line) = 1 .. Len(LabelsOf(line)) /\ Len(LabelsOf(line)) \in Nat
         /\ \A p \in DOMAIN LabelsOf(line) :
              p \in DOMAIN Operands(line) /\ ~ IsRegister(line, p) /\ line.op # "call"
         /\ \A p \in DOMAIN Operands(line) :
              IF IsRegister(line, p)
              THEN Operands(line)[p] \in AnyRegister /\ Operands(line)[p] \in Range(line.regs)
              ELSE \/ line.op # "call" /\ p \in DOMAIN LabelsOf(line)
                   \/ line.op = "call" /\ p = 2 /\ Operands(line)[p] = line.to[1]
         /\ line.op = "call" => 2 \in DOMAIN Operands(line)
<1>1. IsInstruction(line)
  BY DEF IsLine, IsCode, Directives
<1>2. line.to \in Seq(STRING) /\ line.regs \in Seq(AnyRegister)
  BY <1>1 DEF IsInstruction
<1>3. CASE line.op = "call"
  <2>1. Operands(line) = <<line.regs[1], line.to[1], line.regs[2]>> /\ LabelsOf(line) = << >>
    BY <1>3 DEF Operands, LabelsOf
  <2>2. line.regs[1] \in AnyRegister /\ line.regs[2] \in AnyRegister
        /\ line.regs[1] \in Range(line.regs) /\ line.regs[2] \in Range(line.regs)
    BY <1>1, <1>2, <1>3 DEF IsInstruction, Range
  <2> DEFINE a == line.regs[1]
             b == line.to[1]
             c == line.regs[2]
  <2>3. Operands(line) \in Seq({a, b, c}) /\ DOMAIN Operands(line) = 1 .. 3 /\ Len(Operands(line)) = 3
        /\ Operands(line)[1] = a /\ Operands(line)[2] = b /\ Operands(line)[3] = c
    BY <2>1
  <2>4. IsList(Operands(line))
    BY <2>3, ListOf
  <2>5. Len(LabelsOf(line)) = 0 /\ DOMAIN LabelsOf(line) = 1 .. 0
    BY <2>1
  <2>. QED
    BY <1>1, <1>3, <2>2, <2>3, <2>4, <2>5 DEF IsRegister, IsInstruction
<1>4. CASE line.op # "call"
  <2>1. Operands(line) = line.to \o line.regs /\ LabelsOf(line) = line.to
    BY <1>4 DEF Operands, LabelsOf
  <2>2. IsList(line.to) /\ IsList(line.regs)
    BY <1>2, ListOf
  <2> DEFINE t == line.to
             r == line.regs
             o == Operands(line)
  <2>3. t \in Seq(STRING) /\ r \in Seq(AnyRegister) /\ o = t \o r
    BY <1>2, <2>1
  <2> HIDE DEF t, r, o
  <2>4. IsList(t) /\ IsList(r)
    BY <2>2 DEF t, r
  <2>5. /\ IsList(o) /\ Len(o) = Len(t) + Len(r) /\ Len(t) \in Nat /\ Len(r) \in Nat
        /\ DOMAIN t = 1 .. Len(t) /\ DOMAIN r = 1 .. Len(r) /\ DOMAIN o = 1 .. Len(t) + Len(r)
        /\ \A k \in DOMAIN r : o[Len(t) + k] = r[k]
    <3>1. IsJoin(o, t, r)
      BY <2>3 DEF IsJoin
    <3>. QED
      BY <3>1, <2>4, JoinLists
  <2>6. ASSUME NEW p \in DOMAIN o, p > Len(t)
        PROVE  o[p] \in AnyRegister /\ o[p] \in Range(r)
    <3> DEFINE q == p - Len(t)
    <3>1. q \in DOMAIN r /\ p = Len(t) + q
      BY <2>5, <2>6
    <3> HIDE DEF q
    <3>2. o[p] = r[q] /\ r[q] \in AnyRegister
      BY <2>3, <2>5, <3>1
    <3>. QED
      BY <3>1, <3>2 DEF Range
  <2>7. LabelsOf(line) = t /\ Operands(line) = o /\ \A p : IsRegister(line, p) = (p > Len(t))
    BY <1>4, <2>1 DEF IsRegister, t, o
  <2>8. \A p \in DOMAIN t : p \in DOMAIN o /\ ~ (p > Len(t))
    BY <2>5
  <2>9. \A p \in DOMAIN o : ~ (p > Len(t)) => p \in DOMAIN t
    BY <2>5
  <2>10. IsList(Operands(line)) /\ Len(Operands(line)) \in Nat /\ DOMAIN Operands(line) = 1 .. Len(Operands(line))
    BY <2>5, <2>7
  <2>11. /\ DOMAIN LabelsOf(line) = 1 .. Len(LabelsOf(line)) /\ Len(LabelsOf(line)) \in Nat
         /\ \A p \in DOMAIN LabelsOf(line) :
              p \in DOMAIN Operands(line) /\ ~ IsRegister(line, p) /\ line.op # "call"
    BY <1>4, <2>5, <2>7, <2>8
  <2>12. ASSUME NEW p \in DOMAIN Operands(line)
         PROVE  IF IsRegister(line, p)
                THEN Operands(line)[p] \in AnyRegister /\ Operands(line)[p] \in Range(line.regs)
                ELSE line.op # "call" /\ p \in DOMAIN LabelsOf(line)
    BY <1>4, <2>6, <2>7, <2>9 DEF r
  <2>. QED
    BY <1>1, <1>4, <2>10, <2>11, <2>12 DEF IsInstruction
<1>. QED
  BY <1>3, <1>4

-----------------------------------------------------------------------------
(* The inductive invariant                                                 *)

Shape ==
  /\ dialect \in DOMAIN Dialect
  /\ phase \in {"headers", "functions", "declared", "labels", "backpatch", "done", "crashed"}
  /\ IsList(source) /\ IsList(binary)
  /\ \A k \in DOMAIN source :
       source[k].line \in Dialect[dialect] /\ source[k].at \in Nat /\ source[k].locals \in Nat
  /\ globals \in Nat /\ locals \in Nat /\ extern_regs \subseteq Nat
  /\ changed \in BOOLEAN /\ todo \subseteq DOMAIN labels
  /\ \A l \in DOMAIN labels : labels[l] \in [defined : BOOLEAN, index : 0 .. Cells, refs : SUBSET Nat]
  /\ phase = "headers" => \A k \in DOMAIN source : Text(k).op \in {".globals", ".exposereg"}

(* The code of the lines follows in their order, without gaps.             *)
Layout ==
  \A k \in DOMAIN source :
    /\ source[k].at + Size(Text(k)) <= Cells
    /\ \A j \in DOMAIN source : j < k => source[j].at + Size(Text(j)) <= source[k].at
Covered ==
  \A i \in 0 .. Cells - 1 : \E k \in Instructions :
    i \in source[k].at .. source[k].at + Len(Operands(Text(k)))
Coded == \A k \in Instructions : Cell(source[k].at) = [op |-> Text(k).op]

(* The references of a label are the cells of the operands that name it.   *)
LabelCell(l, i) ==
  \E k \in Instructions : \E p \in DOMAIN LabelsOf(Text(k)) :
    i = source[k].at + p /\ LabelsOf(Text(k))[p] = l
Referred ==
  /\ \A l \in DOMAIN labels : \A i : i \in labels[l].refs <=> LabelCell(l, i)
  /\ \A k \in Instructions : Range(LabelsOf(Text(k))) \subseteq DOMAIN labels

(* A register's cell holds its place in a frame with n locals.             *)
Place(r, n) ==
  CASE r.type = "r" -> r.num
    [] r.type = "g" -> r.num + n
    [] OTHER        -> r.num + n + globals
Operated ==
  \A k \in Instructions : \A p \in DOMAIN Operands(Text(k)) :
    LET cell == Cell(source[k].at + p) IN
    /\ DOMAIN cell = {"value"}
    /\ IsRegister(Text(k), p) => cell.value = Place(Operands(Text(k))[p], source[k].locals)

Placed == Layout /\ Covered /\ Coded /\ Referred /\ Operated

ReadsLine(line) ==
  /\ source' = Append(source, [at |-> Cells, line |-> line, locals |-> locals'])
  /\ UNCHANGED <<dialect, optimise, todo, changed>>

(* What a line adds to the text.                                           *)
LEMMA Grown ==
  ASSUME Shape, NEW line, ReadsLine(line)
  PROVE  /\ Len(source) \in Nat /\ DOMAIN source = 1 .. Len(source) /\ IsList(source')
         /\ DOMAIN source' = 1 .. Len(source) + 1
         /\ \A k \in DOMAIN source : source'[k] = source[k] /\ k < Len(source) + 1
         /\ source'[Len(source) + 1].at = Cells /\ source'[Len(source) + 1].line = line
         /\ source'[Len(source) + 1].locals = locals'
         /\ Instructions' = Instructions \cup IF IsCode(line) THEN {Len(source) + 1} ELSE {}
         /\ \A ops : Lines(ops)' = Lines(ops) \cup IF line.op \in ops THEN {Len(source) + 1} ELSE {}
<1> DEFINE new == [at |-> Cells, line |-> line, locals |-> locals']
<1>1. source' = Append(source, new)
  BY DEF ReadsLine
<1>2. new.at = Cells /\ new.line = line /\ new.locals = locals'
  OBVIOUS
<1> HIDE DEF new
<1>3. /\ Len(source) \in Nat /\ DOMAIN source = 1 .. Len(source) /\ IsList(source')
      /\ DOMAIN source' = 1 .. Len(source) + 1
      /\ \A k \in DOMAIN source : source'[k] = source[k] /\ k < Len(source) + 1
      /\ source'[Len(source) + 1] = new
  BY <1>1, AppendList DEF Shape
<1>4. DOMAIN source' = DOMAIN source \cup {Len(source) + 1}
  BY <1>3
<1>5. Instructions' = Instructions \cup IF IsCode(line) THEN {Len(source) + 1} ELSE {}
  BY <1>2, <1>3, <1>4 DEF Instructions, IsCode
<1>6. \A ops : Lines(ops)' = Lines(ops) \cup IF line.op \in ops THEN {Len(source) + 1} ELSE {}
  BY <1>2, <1>3, <1>4 DEF Lines
<1>. QED
  BY <1>2, <1>3, <1>5, <1>6

(* A line without code leaves the code and the references as they are.     *)
Quiet(line) ==
  /\ ReadsLine(line) /\ ~ IsCode(line) /\ UNCHANGED binary
  /\ phase = "headers" \/ UNCHANGED globals
  /\ DOMAIN labels \subseteq DOMAIN labels'
  /\ \A l \in DOMAIN labels' : labels'[l].refs = IF l \in DOMAIN labels THEN labels[l].refs ELSE {}

LEMMA QuietPlaced ==
  ASSUME Shape, Placed, NEW line, Quiet(line)
  PROVE  Placed'
<1> DEFINE n == Len(source)
<1>1. /\ n \in Nat /\ DOMAIN source = 1 .. n /\ DOMAIN source' = 1 .. n + 1
      /\ \A k \in DOMAIN source : source'[k] = source[k] /\ k < n + 1
      /\ source'[n + 1].at = Cells /\ source'[n + 1].line = line
      /\ Instructions' = Instructions
  <2>1. ReadsLine(line) /\ ~ IsCode(line)
    BY DEF Quiet
  <2>. QED
    BY <2>1, Grown
<1>2. Instructions \subseteq DOMAIN source
  BY DEF Instructions
<1>3. \A k \in Instructions : source'[k] = source[k] /\ Text(k)' = Text(k)
  BY <1>1, <1>2 DEF Text
<1>4. binary' = binary /\ Cells' = Cells /\ Cells \in Nat
  BY DEF Quiet, Cells, Shape, IsList
<1> HIDE DEF n
<1>5. Layout'
  <2>1. Size(line) = 0 /\ \A k \in DOMAIN source : source[k].at \in Nat /\ Size(Text(k)) \in Nat
    <3>1. \A k \in DOMAIN source : IsLine(Text(k))
      BY AssemblerAssumption DEF Shape, Text
    <3>2. \A k \in DOMAIN source : Size(Text(k)) \in Nat
      BY <3>1, CodeLine DEF Size
    <3>. QED
      BY <3>2 DEF Quiet, Size, Shape
  <2>2. \A k \in DOMAIN source : source'[k].at = source[k].at /\ Size(source'[k].line) = Size(Text(k))
    BY <1>1 DEF Text
  <2>3. source'[n + 1].at = Cells /\ Size(source'[n + 1].line) = 0
    BY <1>1, <2>1
  <2>4. ASSUME NEW k \in DOMAIN source'
        PROVE  /\ source'[k].at + Size(source'[k].line) <= Cells
               /\ \A j \in DOMAIN source' : j < k => source'[j].at + Size(source'[j].line) <= source'[k].at
    <3>1. CASE k = n + 1
      <4>1. \A j \in DOMAIN source' : j < k => j \in DOMAIN source
        BY <1>1, <3>1
      <4>. QED
        BY <1>1, <1>4, <2>1, <2>2, <2>3, <3>1, <4>1 DEF Placed, Layout
    <3>2. CASE k \in DOMAIN source
      <4>1. \A j \in DOMAIN source' : j < k => j \in DOMAIN source
        BY <1>1, <3>2
      <4>. QED
        BY <1>1, <2>2, <3>2, <4>1 DEF Placed, Layout
    <3>. QED
      BY <1>1, <3>1, <3>2
  <2>. QED
    BY <1>4, <2>4 DEF Layout, Text, Size, IsCode, Operands
<1>6. Covered'
  BY <1>1, <1>3, <1>4 DEF Placed, Covered
<1>7. Coded'
  BY <1>1, <1>3, <1>4 DEF Placed, Coded, Cell
<1>8. \A l, i : LabelCell(l, i)' = LabelCell(l, i)
  BY <1>1, <1>3 DEF LabelCell
<1>9. Referred'
  <2>1. \A k \in Instructions : Range(LabelsOf(Text(k)')) \subseteq DOMAIN labels
    BY <1>3 DEF Placed, Referred
  <2>2. \A l, i : LabelCell(l, i) => l \in DOMAIN labels
    BY DEF Placed, Referred, LabelCell, Range
  <2>3. \A l \in DOMAIN labels' : \A i : i \in labels'[l].refs <=> LabelCell(l, i)
    BY <2>2 DEF Placed, Referred, Quiet
  <2>. QED
    BY <1>1, <1>8, <2>1, <2>3 DEF Quiet, Referred
<1>10. Operated'
  <2>1. CASE phase = "headers"
    <3>1. Instructions = {}
      BY <2>1 DEF Shape, Instructions, Directives, Text
    <3>. QED
      BY <1>1, <3>1 DEF Operated
  <2>2. CASE UNCHANGED globals
    <3>1. \A r, k : Place(r, k)' = Place(r, k)
      BY <2>2 DEF Place
    <3>. QED
      BY <1>1, <1>3, <1>4, <3>1 DEF Placed, Operated, Cell
  <2>. QED
    BY <2>1, <2>2 DEF Quiet
<1>. QED
  BY <1>5, <1>6, <1>7, <1>9, <1>10 DEF Placed

(* The cells that an instruction appends.                                  *)
LEMMA GeneratedCells ==
  ASSUME Shape, NEW line, IsLine(line), IsCode(line), Generate(line)
  PROVE  /\ IsList(binary') /\ Cells' = Cells + Size(line) /\ Cells \in Nat
         /\ \A i \in 0 .. Cells - 1 : Cell(i)' = Cell(i)
         /\ binary'[Cells + 1] = [op |-> line.op]
         /\ \A p \in DOMAIN Operands(line) : binary'[Cells + p + 1] = [value |-> OperandCell(line, p)]
<1> DEFINE n == Len(Operands(line))
           opcode == <<[op |-> line.op]>>
           rest == [k \in DOMAIN Operands(line) |-> [value |-> OperandCell(line, k)]]
           first == binary \o opcode
<1>1. binary' = first \o rest
  BY DEF Generate
<1>2. n \in Nat /\ DOMAIN Operands(line) = 1 .. n /\ Size(line) = n + 1
  BY CodeLine DEF Size
<1>3. IsList(rest) /\ Len(rest) = n /\ DOMAIN rest = 1 .. n
      /\ \A p \in 1 .. n : rest[p] = [value |-> OperandCell(line, p)]
  <2>1. DOMAIN rest = 1 .. n /\ \A p \in 1 .. n : rest[p] = [value |-> OperandCell(line, p)]
    BY <1>2
  <2> DEFINE S == {[value |-> OperandCell(line, p)] : p \in 1 .. n}
  <2>2. rest \in [1 .. n -> S]
    BY <1>2
  <2>3. rest \in Seq(S) /\ Len(rest) = n
    BY <1>2, <2>2
  <2>4. IsList(rest)
    BY <2>3, ListOf
  <2>. QED
    BY <2>1, <2>3, <2>4
<1>4. opcode \in Seq({[op |-> line.op]}) /\ Len(opcode) = 1 /\ opcode[1] = [op |-> line.op]
  OBVIOUS
<1>5. IsList(opcode)
  BY <1>4, ListOf
<1>6. IsJoin(first, binary, opcode) /\ IsJoin(binary', first, rest)
  BY <1>1 DEF IsJoin
<1> HIDE DEF first, opcode, rest, n
<1>7. /\ IsList(first) /\ Len(first) = Cells + 1 /\ Cells \in Nat
      /\ DOMAIN binary = 1 .. Cells /\ DOMAIN first = 1 .. Cells + 1
      /\ \A k \in DOMAIN binary : first[k] = binary[k]
      /\ first[Cells + 1] = [op |-> line.op]
  <2>1. IsList(binary) /\ Cells = Len(binary) /\ 1 \in 1 .. 1
    BY DEF Shape, Cells
  <2>2. /\ IsList(first) /\ Len(first) = Cells + Len(opcode) /\ Cells \in Nat /\ DOMAIN opcode = 1 .. Len(opcode)
        /\ DOMAIN binary = 1 .. Cells /\ DOMAIN first = 1 .. Cells + Len(opcode)
        /\ \A k \in DOMAIN binary : first[k] = binary[k]
        /\ \A k \in DOMAIN opcode : first[Cells + k] = opcode[k]
    BY <1>5, <1>6, <2>1, JoinLists
  <2>. QED
    BY <1>4, <2>1, <2>2
<1>8. /\ IsList(binary') /\ Len(binary') = Cells + 1 + n
      /\ \A k \in DOMAIN first : binary'[k] = first[k]
      /\ \A p \in 1 .. n : binary'[Cells + 1 + p] = rest[p]
  BY <1>3, <1>6, <1>7, JoinLists
<1>9. Cells' = Cells + Size(line)
  BY <1>2, <1>7, <1>8 DEF Cells
<1>10. \A i \in 0 .. Cells - 1 : Cell(i)' = Cell(i)
  <2>1. \A i \in 0 .. Cells - 1 : i + 1 \in DOMAIN binary /\ i + 1 \in DOMAIN first
    BY <1>7
  <2>. QED
    BY <1>7, <1>8, <2>1 DEF Cell
<1>11. binary'[Cells + 1] = [op |-> line.op]
  BY <1>7, <1>8
<1>12. ASSUME NEW p \in DOMAIN Operands(line)
       PROVE  binary'[Cells + p + 1] = [value |-> OperandCell(line, p)]
  <2>1. p \in 1 .. n /\ Cells + p + 1 = Cells + 1 + p
    BY <1>2, <1>7
  <2>. QED
    BY <1>3, <1>8, <2>1
<1>. QED
  BY <1>7, <1>8, <1>9, <1>10, <1>11, <1>12

LEMMA GeneratePlaced ==
  ASSUME Shape, Placed, NEW line, IsLine(line), IsCode(line), Generate(line), ReadsLine(line)
  PROVE  Placed'
<1> DEFINE n == Len(source)
           m == Len(Operands(line))
<1>1. /\ n \in Nat /\ DOMAIN source = 1 .. n /\ DOMAIN source' = 1 .. n + 1
      /\ \A k \in DOMAIN source : source'[k] = source[k] /\ k < n + 1
      /\ source'[n + 1].at = Cells /\ source'[n + 1].line = line /\ source'[n + 1].locals = locals'
      /\ Instructions' = Instructions \cup {n + 1}
  BY Grown
<1>2. /\ Instructions \subseteq DOMAIN source
      /\ \A k \in Instructions : IsLine(Text(k)) /\ IsCode(Text(k)) /\ Size(Text(k)) = Len(Operands(Text(k))) + 1
  BY AssemblerAssumption DEF Shape, Text, Instructions, IsCode, Size
<1>3. \A k \in Instructions : source'[k] = source[k] /\ k # n + 1
  BY <1>1, <1>2
<1>4. /\ IsList(binary') /\ Cells' = Cells + m + 1 /\ Cells \in Nat /\ m \in Nat /\ Size(line) = m + 1
      /\ \A i \in 0 .. Cells - 1 : binary'[i + 1] = binary[i + 1]
      /\ binary'[Cells + 1] = [op |-> line.op]
      /\ \A p \in DOMAIN Operands(line) : binary'[Cells + p + 1] = [value |-> OperandCell(line, p)]
      /\ DOMAIN Operands(line) = 1 .. m
  <2>1. Size(line) = m + 1 /\ m \in Nat /\ DOMAIN Operands(line) = 1 .. m
    BY CodeLine DEF Size
  <2>2. /\ IsList(binary') /\ Cells' = Cells + Size(line) /\ Cells \in Nat
        /\ \A i \in 0 .. Cells - 1 : Cell(i)' = Cell(i)
        /\ binary'[Cells + 1] = [op |-> line.op]
        /\ \A p \in DOMAIN Operands(line) : binary'[Cells + p + 1] = [value |-> OperandCell(line, p)]
    BY GeneratedCells
  <2>. QED
    BY <2>1, <2>2 DEF Cell
<1>5. UNCHANGED <<globals, locals>>
  BY DEF Generate, Code
<1>6. \A k \in Instructions : \A p \in 0 .. Len(Operands(Text(k))) :
        source[k].at + p \in 0 .. Cells - 1 /\ source[k].at \in Nat /\ Len(Operands(Text(k))) \in Nat
  <2>1. \A k \in Instructions : Len(Operands(Text(k))) \in Nat /\ source[k].at \in Nat
    BY <1>2, CodeLine DEF Shape
  <2>2. \A k \in Instructions : source[k].at + Len(Operands(Text(k))) + 1 <= Cells
    BY <1>2, <2>1 DEF Placed, Layout
  <2>3. ASSUME NEW k \in Instructions, NEW p \in 0 .. Len(Operands(Text(k)))
        PROVE  source[k].at + p \in 0 .. Cells - 1
    <3> DEFINE a == source[k].at
               z == Len(Operands(Text(k)))
    <3>1. a \in Nat /\ z \in Nat /\ p \in 0 .. z /\ a + z + 1 <= Cells /\ Cells \in Nat
      BY <1>4, <2>1, <2>2
    <3> HIDE DEF a, z
    <3>2. a + p \in 0 .. Cells - 1
      BY <3>1
    <3>. QED
      BY <3>2 DEF a
  <2>. QED
    BY <2>1, <2>3
<1> HIDE DEF n, m
<1>7. Layout'
  <2>1. \A k \in DOMAIN source : source[k].at \in Nat /\ Size(Text(k)) \in Nat
    <3>1. \A k \in DOMAIN source : IsLine(Text(k))
      BY AssemblerAssumption DEF Shape, Text
    <3>2. \A k \in DOMAIN source : Size(Text(k)) \in Nat
      BY <3>1, CodeLine DEF Size
    <3>. QED
      BY <3>2 DEF Shape
  <2>2. \A k \in DOMAIN source : source'[k].at = source[k].at /\ Size(source'[k].line) = Size(Text(k))
    BY <1>1 DEF Text
  <2>3. source'[n + 1].at = Cells /\ Size(source'[n + 1].line) = m + 1
    BY <1>1, <1>4
  <2>4. ASSUME NEW k \in DOMAIN source'
        PROVE  /\ source'[k].at + Size(source'[k].line) <= Cells'
               /\ \A j \in DOMAIN source' : j < k => source'[j].at + Size(source'[j].line) <= source'[k].at
    <3>1. CASE k = n + 1
      <4>1. \A j \in DOMAIN source' : j < k => j \in DOMAIN source
        BY <1>1, <3>1
      <4>. QED
        BY <1>1, <1>4, <2>1, <2>2, <2>3, <3>1, <4>1 DEF Placed, Layout
    <3>2. CASE k \in DOMAIN source
      <4>1. \A j \in DOMAIN source' : j < k => j \in DOMAIN source
        BY <1>1, <3>2
      <4>. QED
        BY <1>1, <1>4, <2>1, <2>2, <3>2, <4>1 DEF Placed, Layout
    <3>. QED
      BY <1>1, <3>1, <3>2
  <2>. QED
    BY <2>4 DEF Layout, Text, Size, IsCode, Operands
<1>8. Covered'
  <2> SUFFICES ASSUME NEW i \in 0 .. Cells' - 1
               PROVE  \E k \in Instructions' :
                        i \in source'[k].at .. source'[k].at + Len(Operands(source'[k].line))
    BY DEF Covered, Text, Operands
  <2>1. CASE i < Cells
    <3>1. PICK k \in Instructions : i \in source[k].at .. source[k].at + Len(Operands(Text(k)))
      BY <1>4, <2>1 DEF Placed, Covered
    <3>. QED
      BY <1>1, <1>3, <3>1 DEF Text
  <2>2. CASE i >= Cells
    <3>1. i \in Cells .. Cells + m
      BY <1>4, <2>2
    <3>. QED
      BY <1>1, <3>1 DEF m
  <2>. QED
    BY <1>4, <2>1, <2>2
<1>9. Coded'
  <2> SUFFICES ASSUME NEW k \in Instructions'
               PROVE  binary'[source'[k].at + 1] = [op |-> source'[k].line.op]
    BY DEF Coded, Cell, Text
  <2>1. CASE k \in Instructions
    <3>1. source[k].at \in 0 .. Cells - 1
      BY <1>6, <2>1
    <3>2. binary[source[k].at + 1] = [op |-> source[k].line.op]
      BY <2>1 DEF Placed, Coded, Cell, Text
    <3>. QED
      BY <1>3, <1>4, <2>1, <3>1, <3>2
  <2>2. CASE k = n + 1
    BY <1>1, <1>4, <2>2
  <2>. QED
    BY <1>1, <2>1, <2>2
<1>10. Referred'
  <2>1. \A k \in Instructions : source'[k].at = source[k].at /\ source'[k].line = Text(k)
    BY <1>3 DEF Text
  <2>2. \A l, i : LabelCell(l, i)' <=> LabelCell(l, i) \/ i \in References(line, l)
    <3>1. ASSUME NEW l, NEW i, LabelCell(l, i)'
          PROVE  LabelCell(l, i) \/ i \in References(line, l)
      <4>1. PICK k \in Instructions' : \E p \in DOMAIN LabelsOf(source'[k].line) :
              i = source'[k].at + p /\ LabelsOf(source'[k].line)[p] = l
        BY <3>1 DEF LabelCell, Text, LabelsOf
      <4>2. CASE k \in Instructions
        BY <2>1, <4>1, <4>2 DEF LabelCell
      <4>3. CASE k = n + 1
        BY <1>1, <4>1, <4>3 DEF References, OperandAt
      <4>. QED
        BY <1>1, <4>2, <4>3
    <3>2. ASSUME NEW l, NEW i, LabelCell(l, i)
          PROVE  LabelCell(l, i)'
      <4>1. PICK k \in Instructions : \E p \in DOMAIN LabelsOf(Text(k)) :
              i = source[k].at + p /\ LabelsOf(Text(k))[p] = l
        BY <3>2 DEF LabelCell
      <4>. QED
        BY <1>1, <2>1, <4>1 DEF LabelCell, Text, LabelsOf
    <3>3. ASSUME NEW l, NEW i, i \in References(line, l)
          PROVE  LabelCell(l, i)'
      BY <1>1, <3>3 DEF LabelCell, References, OperandAt, Text, LabelsOf
    <3>. QED
      BY <3>1, <3>2, <3>3
  <2>3. /\ DOMAIN labels' = DOMAIN labels \cup Range(LabelsOf(line))
        /\ \A l \in DOMAIN labels' :
             labels'[l].refs = References(line, l) \cup IF l \in DOMAIN labels THEN labels[l].refs ELSE {}
    BY DEF Generate, ReferLabels, Shape
  <2>4. \A l, i : LabelCell(l, i) => l \in DOMAIN labels
    BY DEF Placed, Referred, LabelCell, Range
  <2>5. \A l \in DOMAIN labels' : \A i : i \in labels'[l].refs <=> LabelCell(l, i)'
    BY <2>2, <2>3, <2>4 DEF Placed, Referred
  <2>6. \A k \in Instructions' : Range(LabelsOf(source'[k].line)) \subseteq DOMAIN labels'
    BY <1>1, <2>1, <2>3 DEF Placed, Referred
  <2>. QED
    BY <2>5, <2>6 DEF Referred, Text, LabelsOf
<1>11. Operated'
  <2>1. \A r, k : Place(r, k)' = Place(r, k)
    BY <1>5 DEF Place
  <2>2. ASSUME NEW k \in Instructions', NEW p \in DOMAIN Operands(source'[k].line)
        PROVE  /\ DOMAIN binary'[source'[k].at + p + 1] = {"value"}
               /\ IsRegister(source'[k].line, p) =>
                    binary'[source'[k].at + p + 1].value = Place(Operands(source'[k].line)[p], source'[k].locals)
    <3>1. CASE k \in Instructions
      <4>1. source'[k] = source[k] /\ p \in DOMAIN Operands(Text(k)) /\ source'[k].line = Text(k)
        BY <1>3, <3>1 DEF Text
      <4>2. p \in 0 .. Len(Operands(Text(k)))
        <5>1. DOMAIN Operands(Text(k)) = 1 .. Len(Operands(Text(k))) /\ Len(Operands(Text(k))) \in Nat
          BY <1>2, <3>1, CodeLine
        <5>. QED
          BY <4>1, <5>1
      <4>3. source[k].at + p \in 0 .. Cells - 1
        BY <1>6, <3>1, <4>2
      <4>4. binary'[source[k].at + p + 1] = binary[source[k].at + p + 1]
        BY <1>4, <4>3
      <4>. QED
        BY <3>1, <4>1, <4>4 DEF Placed, Operated, Cell
    <3>2. CASE k = n + 1
      <4>1. binary'[source'[k].at + p + 1] = [value |-> OperandCell(line, p)] /\ source'[k].line = line
            /\ source'[k].locals = locals
        BY <1>1, <1>4, <1>5, <3>2
      <4>2. IsRegister(line, p) => OperandCell(line, p) = RegisterCell(Operands(line)[p])
        BY DEF OperandCell
      <4>3. \A r : RegisterCell(r) = Place(r, locals)
        BY DEF RegisterCell, Place
      <4>. QED
        BY <4>1, <4>2, <4>3
    <3>. QED
      BY <1>1, <3>1, <3>2
  <2>. QED
    BY <2>1, <2>2 DEF Operated, Cell, Text, Operands, IsRegister
<1>. QED
  BY <1>7, <1>8, <1>9, <1>10, <1>11 DEF Placed

(* A cell belongs to one instruction, and is one of its cells.             *)
LEMMA Instruction ==
  ASSUME Shape, NEW k \in Instructions
  PROVE  /\ k \in DOMAIN source /\ k \in Nat /\ IsLine(Text(k)) /\ IsCode(Text(k))
         /\ Size(Text(k)) = Len(Operands(Text(k))) + 1 /\ Len(Operands(Text(k))) \in Nat
         /\ DOMAIN Operands(Text(k)) = 1 .. Len(Operands(Text(k)))
         /\ source[k].at \in Nat
<1>1. k \in DOMAIN source /\ IsLine(Text(k)) /\ IsCode(Text(k)) /\ source[k].at \in Nat
      /\ Size(Text(k)) = Len(Operands(Text(k))) + 1
  BY AssemblerAssumption DEF Shape, Text, Instructions, IsCode, Size
<1>2. DOMAIN source = 1 .. Len(source) /\ Len(source) \in Nat
  BY DEF Shape, IsList
<1>. QED
  BY <1>1, <1>2, CodeLine

LEMMA Apart ==
  ASSUME Shape, Placed, NEW k \in Instructions, NEW j \in Instructions,
         NEW p \in 0 .. Len(Operands(Text(k))), NEW q \in 0 .. Len(Operands(Text(j)))
  PROVE  /\ source[k].at + p = source[j].at + q => k = j /\ p = q
         /\ source[k].at + p \in 0 .. Cells - 1
<1> DEFINE a == source[k].at
           b == source[j].at
           x == Len(Operands(Text(k)))
           y == Len(Operands(Text(j)))
<1>1. /\ k \in Nat /\ j \in Nat /\ a \in Nat /\ b \in Nat /\ x \in Nat /\ y \in Nat
      /\ p \in 0 .. x /\ q \in 0 .. y
  BY Instruction
<1>2. k < j => a + x + 1 <= b
  BY Instruction DEF Placed, Layout
<1>3. j < k => b + y + 1 <= a
  BY Instruction DEF Placed, Layout
<1>4. a + x + 1 <= Cells /\ Cells \in Nat
  BY Instruction DEF Placed, Layout, Shape, IsList, Cells
<1>5. k = j => a = b
  OBVIOUS
<1> HIDE DEF a, b, x, y
<1>6. (a + p = b + q => k = j /\ p = q) /\ a + p \in 0 .. Cells - 1
  BY <1>1, <1>2, <1>3, <1>4, <1>5
<1>. QED
  BY <1>6 DEF a, b

(* Neither optimise_labels nor a crash touches the text or the references. *)
LEMMA KeptPlaced ==
  ASSUME Shape, Placed, UNCHANGED <<binary, source, globals>>, DOMAIN labels' = DOMAIN labels,
         \A l \in DOMAIN labels : labels'[l].refs = labels[l].refs
  PROVE  Placed'
<1>1. Instructions' = Instructions /\ \A k : Text(k)' = Text(k) /\ source'[k] = source[k]
  BY DEF Instructions, Text
<1>2. Cells' = Cells /\ \A i : Cell(i)' = Cell(i)
  BY DEF Cells, Cell
<1>3. \A r, n : Place(r, n)' = Place(r, n)
  BY DEF Place
<1>4. Layout' /\ Covered' /\ Coded'
  BY <1>1, <1>2 DEF Placed, Layout, Covered, Coded
<1>5. Referred'
  <2>1. \A l, i : LabelCell(l, i)' <=> LabelCell(l, i)
    BY <1>1 DEF LabelCell
  <2>. QED
    BY <1>1, <2>1 DEF Placed, Referred
<1>6. Operated'
  BY <1>1, <1>2, <1>3 DEF Placed, Operated
<1>. QED
  BY <1>4, <1>5, <1>6 DEF Placed

(* Backpatching writes to the cells of labels, and to no other.            *)
LEMMA Patched ==
  ASSUME Shape, Placed, Backpatch
  PROVE  /\ IsList(binary') /\ Cells' = Cells
         /\ \A k \in Instructions : Cell(source[k].at)' = Cell(source[k].at)
         /\ \A k \in Instructions : \A p \in DOMAIN Operands(Text(k)) :
              \/ /\ p \in DOMAIN LabelsOf(Text(k)) /\ labels[LabelsOf(Text(k))[p]].defined
                 /\ Cell(source[k].at + p)' = [value |-> labels[LabelsOf(Text(k))[p]].index]
              \/ /\ p \in DOMAIN LabelsOf(Text(k)) => ~ labels[LabelsOf(Text(k))[p]].defined
                 /\ Cell(source[k].at + p)' = Cell(source[k].at + p)
<1>1. binary' = [i \in DOMAIN binary |->
                  IF \E l \in DOMAIN labels : labels[l].defined /\ i - 1 \in labels[l].refs
                  THEN [value |-> labels[CHOOSE l \in DOMAIN labels : i - 1 \in labels[l].refs].index]
                  ELSE binary[i]]
  BY DEF Backpatch
<1>2. Cells \in Nat /\ DOMAIN binary = 1 .. Cells
  BY DEF Shape, IsList, Cells
<1>3. IsList(binary') /\ Cells' = Cells
  <2>1. DOMAIN binary' = 1 .. Cells
    BY <1>1, <1>2
  <2>2. binary' \in [1 .. Cells -> Range(binary')]
    BY <1>1, <2>1 DEF Range
  <2>. QED
    BY <1>2, <2>1, <2>2 DEF IsList, Cells
<1>4. ASSUME NEW k \in Instructions, NEW p \in 0 .. Len(Operands(Text(k))), NEW l \in DOMAIN labels
      PROVE  source[k].at + p \in labels[l].refs <=> p \in DOMAIN LabelsOf(Text(k)) /\ LabelsOf(Text(k))[p] = l
  <2>1. source[k].at + p \in labels[l].refs <=> LabelCell(l, source[k].at + p)
    BY DEF Placed, Referred
  <2>2. ASSUME LabelCell(l, source[k].at + p)
        PROVE  p \in DOMAIN LabelsOf(Text(k)) /\ LabelsOf(Text(k))[p] = l
    <3>1. PICK j \in Instructions : \E q \in DOMAIN LabelsOf(Text(j)) :
            source[k].at + p = source[j].at + q /\ LabelsOf(Text(j))[q] = l
      BY <2>2 DEF LabelCell
    <3>2. PICK q \in DOMAIN LabelsOf(Text(j)) :
            source[k].at + p = source[j].at + q /\ LabelsOf(Text(j))[q] = l
      BY <3>1
    <3>3. q \in 0 .. Len(Operands(Text(j)))
      BY Instruction, CodeLine
    <3>4. k = j /\ p = q
      BY <3>2, <3>3, Apart
    <3>. QED
      BY <3>2, <3>4
  <2>. QED
    BY <2>1, <2>2 DEF LabelCell
<1>5. ASSUME NEW k \in Instructions, NEW p \in 0 .. Len(Operands(Text(k)))
      PROVE  Cell(source[k].at + p)' =
               IF p \in DOMAIN LabelsOf(Text(k)) /\ labels[LabelsOf(Text(k))[p]].defined
               THEN [value |-> labels[LabelsOf(Text(k))[p]].index] ELSE Cell(source[k].at + p)
  <2> DEFINE i == source[k].at + p
             l == LabelsOf(Text(k))[p]
  <2>1. i \in 0 .. Cells - 1
    BY Apart
  <2>2. i + 1 \in DOMAIN binary /\ (i + 1) - 1 = i
    BY <1>2, <2>1
  <2>3. binary'[i + 1] = IF \E x \in DOMAIN labels : labels[x].defined /\ i \in labels[x].refs
                         THEN [value |-> labels[CHOOSE x \in DOMAIN labels : i \in labels[x].refs].index]
                         ELSE binary[i + 1]
    BY <1>1, <2>2
  <2>4. \A x \in DOMAIN labels : i \in labels[x].refs <=> p \in DOMAIN LabelsOf(Text(k)) /\ l = x
    BY <1>4
  <2>5. p \in DOMAIN LabelsOf(Text(k)) => l \in DOMAIN labels
    BY DEF Placed, Referred, Range
  <2> HIDE DEF l, i
  <2>6. p \in DOMAIN LabelsOf(Text(k)) => (CHOOSE x \in DOMAIN labels : i \in labels[x].refs) = l
    BY <2>4, <2>5
  <2>7. binary'[i + 1] = IF p \in DOMAIN LabelsOf(Text(k)) /\ labels[l].defined
                         THEN [value |-> labels[l].index] ELSE binary[i + 1]
    BY <2>3, <2>4, <2>5, <2>6
  <2>8. source' = source
    BY DEF Backpatch, read
  <2>9. Cell(source[k].at + p)' = binary'[i + 1]
    BY <2>8 DEF Cell, i
  <2>. QED
    BY <2>7, <2>9 DEF Cell, l, i
<1>6. ASSUME NEW k \in Instructions
      PROVE  Cell(source[k].at)' = Cell(source[k].at)
  <2>1. 0 \in 0 .. Len(Operands(Text(k))) /\ source[k].at + 0 = source[k].at /\ 0 \notin DOMAIN LabelsOf(Text(k))
    BY Instruction, CodeLine
  <2>2. Cell(source[k].at + 0)' = Cell(source[k].at + 0)
    BY <1>5, <2>1
  <2>3. source' = source
    BY DEF Backpatch, read
  <2>. QED
    BY <2>1, <2>2, <2>3 DEF Cell
<1>7. \A k \in Instructions : \A p \in DOMAIN Operands(Text(k)) : p \in 0 .. Len(Operands(Text(k)))
  BY Instruction
<1>. QED
  BY <1>3, <1>5, <1>6, <1>7

LEMMA BackpatchPlaced ==
  ASSUME Shape, Placed, Backpatch
  PROVE  Placed'
<1>1. UNCHANGED <<source, globals, labels>>
  BY DEF Backpatch, read, symbols
<1>2. Instructions' = Instructions /\ \A k : Text(k)' = Text(k) /\ source'[k] = source[k]
  BY <1>1 DEF Instructions, Text
<1>3. Cells' = Cells
  BY Patched
<1>4. Layout' /\ Covered'
  BY <1>1, <1>2, <1>3 DEF Placed, Layout, Covered
<1>5. Coded'
  <2>1. ASSUME NEW k \in Instructions
        PROVE  Cell(source[k].at)' = [op |-> Text(k).op]
    BY Patched DEF Placed, Coded
  <2>. QED
    BY <1>2, <2>1 DEF Coded
<1>6. Referred'
  <2>1. \A l, i : LabelCell(l, i)' <=> LabelCell(l, i)
    BY <1>2 DEF LabelCell
  <2>. QED
    BY <1>1, <1>2, <2>1 DEF Placed, Referred
<1>7. Operated'
  <2>1. \A r, n : Place(r, n)' = Place(r, n)
    BY <1>1 DEF Place
  <2>2. ASSUME NEW k \in Instructions, NEW p \in DOMAIN Operands(Text(k))
        PROVE  LET cell == Cell(source[k].at + p)' IN
               /\ DOMAIN cell = {"value"}
               /\ IsRegister(Text(k), p) => cell.value = Place(Operands(Text(k))[p], source[k].locals)
    <3>1. CASE p \in DOMAIN LabelsOf(Text(k))
      <4>1. ~ IsRegister(Text(k), p)
        BY <3>1, Instruction, CodeLine
      <4>2. DOMAIN Cell(source[k].at + p)' = {"value"}
        BY Patched DEF Placed, Operated
      <4>. QED
        BY <4>1, <4>2
    <3>2. CASE p \notin DOMAIN LabelsOf(Text(k))
      <4>1. Cell(source[k].at + p)' = Cell(source[k].at + p)
        BY <3>2, Patched
      <4>. QED
        BY <4>1 DEF Placed, Operated
    <3>. QED
      BY <3>1, <3>2
  <2>. QED
    BY <1>2, <2>1, <2>2 DEF Operated
<1>. QED
  BY <1>4, <1>5, <1>6, <1>7 DEF Placed

LEMMA ReadShape ==
  ASSUME Shape, NEW line \in Dialect[dialect], ReadsLine(line), IsList(binary'), Cells' \in Nat, Cells' >= Cells,
         globals' \in Nat, locals' \in Nat, extern_regs' \subseteq Nat, DOMAIN labels \subseteq DOMAIN labels',
         \A l \in DOMAIN labels' : labels'[l] \in [defined : BOOLEAN, index : 0 .. Cells', refs : SUBSET Nat],
         phase' \in {"headers", "functions", "declared"},
         phase' = "headers" => phase = "headers" /\ line.op \in {".globals", ".exposereg"}
  PROVE  Shape'
<1>1. /\ Len(source) \in Nat /\ DOMAIN source = 1 .. Len(source) /\ IsList(source')
      /\ DOMAIN source' = 1 .. Len(source) + 1
      /\ \A k \in DOMAIN source : source'[k] = source[k]
      /\ source'[Len(source) + 1].at = Cells /\ source'[Len(source) + 1].line = line
      /\ source'[Len(source) + 1].locals = locals'
  BY Grown
<1>2. Cells \in Nat
  BY DEF Shape, IsList, Cells
<1>3. \A k \in DOMAIN source' : k \in DOMAIN source \/ k = Len(source) + 1
  BY <1>1
<1>4. \A k \in DOMAIN source' :
        source'[k].line \in Dialect[dialect] /\ source'[k].at \in Nat /\ source'[k].locals \in Nat
  BY <1>1, <1>2, <1>3 DEF Shape
<1>5. phase' = "headers" => \A k \in DOMAIN source' : source'[k].line.op \in {".globals", ".exposereg"}
  BY <1>1, <1>3 DEF Shape, Text
<1>6. UNCHANGED <<dialect, optimise, todo, changed>>
  BY DEF ReadsLine
<1>. QED
  BY <1>1, <1>4, <1>5, <1>6 DEF Shape, Text

Base == Shape /\ Placed

(* A directive, or an instruction the machine does not have.               *)
LEMMA DirectiveBase ==
  ASSUME Base, NEW line \in Dialect[dialect], ReadsLine(line), ~ IsCode(line), UNCHANGED <<binary, labels>>,
         phase = "headers" \/ UNCHANGED globals,
         globals' \in Nat, locals' \in Nat, extern_regs' \subseteq Nat,
         phase' \in {"headers", "functions", "declared"},
         phase' = "headers" => phase = "headers" /\ line.op \in {".globals", ".exposereg"}
  PROVE  Base'
<1>1. Cells' = Cells /\ Cells \in Nat /\ IsList(binary')
  BY DEF Base, Shape, IsList, Cells
<1>2. Shape'
  <2>1. \A l \in DOMAIN labels' : labels'[l] \in [defined : BOOLEAN, index : 0 .. Cells', refs : SUBSET Nat]
    BY <1>1 DEF Base, Shape
  <2>. QED
    BY <1>1, <2>1, ReadShape DEF Base
<1>3. Quiet(line)
  BY DEF Quiet
<1>. QED
  BY <1>2, <1>3, QuietPlaced DEF Base

LEMMA DefineLabelBase ==
  ASSUME Base, NEW line \in Dialect[dialect], ReadsLine(line), line.op = "label", DefineLabel(line.to[1])
  PROVE  Base'
<1> DEFINE name == line.to[1]
<1>1. Cells' = Cells /\ Cells \in Nat /\ IsList(binary') /\ UNCHANGED binary
  <2>1. binary' = binary
    BY DEF DefineLabel
  <2>. QED
    BY <2>1 DEF Base, Shape, IsList, Cells
<1>2. phase' = "functions" /\ phase = "functions" /\ UNCHANGED <<globals, extern_regs, locals>>
  BY DEF DefineLabel, Code
<1>3. /\ DOMAIN labels \subseteq DOMAIN labels'
      /\ \A l \in DOMAIN labels' : labels'[l].refs = IF l \in DOMAIN labels THEN labels[l].refs ELSE {}
      /\ \A l \in DOMAIN labels' : labels'[l] \in [defined : BOOLEAN, index : 0 .. Cells, refs : SUBSET Nat]
  <2>1. \A l \in DOMAIN labels : labels[l] \in [defined : BOOLEAN, index : 0 .. Cells, refs : SUBSET Nat]
    BY DEF Base, Shape
  <2>2. CASE LabelDefined(name)
    BY <2>1, <2>2 DEF DefineLabel
  <2>3. CASE ~ LabelDefined(name)
    <3> DEFINE refs == IF name \in DOMAIN labels THEN labels[name].refs ELSE {}
               new == [defined |-> TRUE, index |-> Cells, refs |-> refs]
    <3>1. refs \in SUBSET Nat
      BY <2>1
    <3>2. new \in [defined : BOOLEAN, index : 0 .. Cells, refs : SUBSET Nat] /\ new.refs = refs
      BY <1>1, <3>1
    <3>3. labels' = Extend(labels, name, new)
      BY <2>3 DEF DefineLabel
    <3> HIDE DEF new
    <3>. QED
      BY <2>1, <3>2, <3>3 DEF Extend
  <2>. QED
    BY <2>2, <2>3
<1>4. Shape'
  <2>1. globals' \in Nat /\ locals' \in Nat /\ extern_regs' \subseteq Nat
    BY <1>2 DEF Base, Shape
  <2>2. Cells' \in Nat /\ Cells' >= Cells
        /\ \A l \in DOMAIN labels' : labels'[l] \in [defined : BOOLEAN, index : 0 .. Cells', refs : SUBSET Nat]
    BY <1>1, <1>3
  <2>. QED
    BY <1>1, <1>2, <1>3, <2>1, <2>2, ReadShape DEF Base
<1>5. Quiet(line)
  BY <1>1, <1>2, <1>3 DEF Quiet, IsCode
<1>. QED
  BY <1>4, <1>5, QuietPlaced DEF Base

LEMMA GenerateBase ==
  ASSUME Base, NEW line \in Dialect[dialect], ReadsLine(line), IsLine(line), IsCode(line), Generate(line)
  PROVE  Base'
<1>1. /\ IsList(binary') /\ Cells' = Cells + Size(line) /\ Cells \in Nat /\ Size(line) \in Nat
      /\ Size(line) = Len(Operands(line)) + 1 /\ Len(Operands(line)) \in Nat
  <2>1. Size(line) = Len(Operands(line)) + 1 /\ Len(Operands(line)) \in Nat
    BY CodeLine DEF Size
  <2>2. IsList(binary') /\ Cells' = Cells + Size(line) /\ Cells \in Nat
    BY GeneratedCells DEF Base
  <2>. QED
    BY <2>1, <2>2
<1>2. phase' = "functions" /\ UNCHANGED <<globals, extern_regs, locals>>
  BY DEF Generate, Code
<1>3. /\ DOMAIN labels \subseteq DOMAIN labels'
      /\ \A l \in DOMAIN labels' : labels'[l] \in [defined : BOOLEAN, index : 0 .. Cells', refs : SUBSET Nat]
  <2>1. \A l \in DOMAIN labels : labels[l] \in [defined : BOOLEAN, index : 0 .. Cells, refs : SUBSET Nat]
    BY DEF Base, Shape
  <2>2. \A l : References(line, l) \subseteq Nat
    BY <1>1, CodeLine DEF References, OperandAt
  <2>3. /\ DOMAIN labels' = DOMAIN labels \cup Range(LabelsOf(line))
        /\ \A l \in DOMAIN labels' :
             labels'[l] = IF l \in DOMAIN labels THEN [labels[l] EXCEPT !.refs = @ \cup References(line, l)]
                          ELSE [defined |-> FALSE, index |-> 0, refs |-> References(line, l)]
    BY DEF Generate, ReferLabels
  <2>4. 0 .. Cells \subseteq 0 .. Cells' /\ 0 \in 0 .. Cells'
    BY <1>1
  <2>5. ASSUME NEW l \in DOMAIN labels
        PROVE  labels'[l] \in [defined : BOOLEAN, index : 0 .. Cells', refs : SUBSET Nat]
    <3> DEFINE old == labels[l]
               refs == old.refs \cup References(line, l)
    <3>1. labels'[l] = [old EXCEPT !.refs = refs] /\ old \in [defined : BOOLEAN, index : 0 .. Cells, refs : SUBSET Nat]
      BY <2>1, <2>3
    <3>2. refs \in SUBSET Nat
      BY <2>2, <3>1
    <3> HIDE DEF refs, old
    <3>. QED
      BY <2>4, <3>1, <3>2
  <2>6. ASSUME NEW l \in DOMAIN labels' \ DOMAIN labels
        PROVE  labels'[l] \in [defined : BOOLEAN, index : 0 .. Cells', refs : SUBSET Nat]
    <3> DEFINE refs == References(line, l)
    <3>1. labels'[l] = [defined |-> FALSE, index |-> 0, refs |-> refs] /\ refs \in SUBSET Nat
      BY <2>2, <2>3
    <3> HIDE DEF refs
    <3>. QED
      BY <2>4, <3>1
  <2>. QED
    BY <2>3, <2>5, <2>6
<1>4. Cells' \in Nat /\ Cells' >= Cells
  BY <1>1
<1>5. Shape'
  BY <1>1, <1>2, <1>3, <1>4, ReadShape DEF Base, Shape
<1>. QED
  BY <1>5, GeneratePlaced DEF Base

LEMMA ReadBase ==
  ASSUME Base, NEW line \in Dialect[dialect], ReadLine(line), ReadsLine(line)
  PROVE  Base'
<1>1. IsLine(line) /\ globals \in Nat /\ locals \in Nat /\ extern_regs \subseteq Nat
  BY AssemblerAssumption DEF Base, Shape
<1>2. CASE line.op = ".globals"
  <2>1. SetGlobals(line.n) /\ line.n \in Nat
    BY <1>1, <1>2 DEF ReadLine, IsLine
  <2>2. ~ IsCode(line)
    BY <1>2 DEF IsCode, Directives
  <2>3. /\ UNCHANGED <<binary, labels, phase, locals>> /\ phase = "headers"
        /\ globals' \in Nat /\ extern_regs' \subseteq Nat
    BY <1>1, <2>1 DEF SetGlobals
  <2>. QED
    BY <1>1, <1>2, <2>2, <2>3, DirectiveBase
<1>3. CASE line.op = ".exposereg"
  <2>1. ExposeReg(line.n, line.index) /\ line.n \in Nat
    BY <1>1, <1>3 DEF ReadLine, IsLine
  <2>2. ~ IsCode(line)
    BY <1>3 DEF IsCode, Directives
  <2>3. /\ UNCHANGED <<binary, labels, phase, globals, locals>> /\ phase = "headers"
        /\ extern_regs' = extern_regs \cup {line.n}
    BY <2>1 DEF ExposeReg
  <2>. QED
    BY <1>1, <1>3, <2>1, <2>2, <2>3, DirectiveBase
<1>4. CASE line.op \in {".proc", ".expproc", ".declare"}
  <2>1. ~ IsCode(line)
    BY <1>4 DEF IsCode, Directives
  <2>2. /\ \/ Proc(line.name, line.n) /\ line.n \in Nat
           \/ ExposedProc(line.name, line.n, line.index) /\ line.n \in Nat
           \/ Declare(line.name, line.index)
    BY <1>1, <1>4 DEF ReadLine, IsLine
  <2>3. UNCHANGED <<binary, labels, globals, extern_regs>> /\ locals' \in Nat
        /\ phase' \in {"functions", "declared"}
    BY <1>1, <2>2 DEF Proc, ExposedProc, Declare, Directive
  <2>. QED
    BY <1>1, <1>4, <2>1, <2>3, DirectiveBase
<1>5. CASE line.op = "label"
  BY <1>5, DefineLabelBase DEF ReadLine
<1>6. CASE line.op \notin Directives \cup {"label"}
  <2>1. Generate(line) \/ Refuse(line)
    BY <1>6 DEF ReadLine, Directives
  <2>2. CASE Generate(line)
    <3>1. IsCode(line)
      BY <1>6, <2>2 DEF Generate, Valid, IsCode
    <3>. QED
      BY <1>1, <2>2, <3>1, GenerateBase
  <2>3. CASE Refuse(line)
    <3>1. ~ IsCode(line)
      BY <2>3 DEF Refuse, Valid, IsCode
    <3>2. UNCHANGED <<binary, labels, globals, extern_regs, locals>> /\ phase' = "functions"
      BY <2>3 DEF Refuse, Code
    <3>. QED
      BY <1>1, <3>1, <3>2, DirectiveBase
  <2>. QED
    BY <2>1, <2>2, <2>3
<1>. QED
  BY <1>2, <1>3, <1>4, <1>5, <1>6 DEF Directives

LEMMA InitBase == Init => Base
<1> SUFFICES ASSUME Init PROVE Base
  OBVIOUS
<1>1. IsList(<< >>) /\ Len(<< >>) = 0 /\ DOMAIN << >> = {}
  <2> DEFINE s == << >>
  <2>1. s \in Seq(Nat) /\ Len(s) = 0 /\ DOMAIN s = {}
    OBVIOUS
  <2> HIDE DEF s
  <2>2. IsList(s)
    BY <2>1, ListOf
  <2>. QED
    BY <2>1, <2>2 DEF s
<1>2. source = << >> /\ binary = << >> /\ labels = << >> /\ Cells = 0
  BY <1>1 DEF Init, Cells
<1>3. DOMAIN source = {} /\ Instructions = {} /\ DOMAIN labels = {}
  BY <1>1, <1>2 DEF Instructions
<1>4. Shape
  BY <1>1, <1>2, <1>3 DEF Init, Shape
<1>5. Placed
  BY <1>2, <1>3 DEF Placed, Layout, Covered, Coded, Referred, Operated
<1>. QED
  BY <1>4, <1>5 DEF Base

LEMMA KeptBase ==
  ASSUME Base, UNCHANGED <<read, binary, globals, locals, extern_regs>>, DOMAIN labels' = DOMAIN labels,
         \A l \in DOMAIN labels :
           labels'[l].refs = labels[l].refs
           /\ labels'[l] \in [defined : BOOLEAN, index : 0 .. Cells, refs : SUBSET Nat],
         changed' \in BOOLEAN, todo' \subseteq DOMAIN labels,
         phase' \in {"labels", "backpatch", "done", "crashed"} \/ UNCHANGED phase
  PROVE  Base'
<1>1. UNCHANGED <<dialect, optimise, source, binary>> /\ Cells' = Cells
  BY DEF read, Cells
<1>2. Placed'
  BY <1>1, KeptPlaced DEF Base
<1>3. Shape'
  BY <1>1 DEF Base, Shape, Text
<1>. QED
  BY <1>2, <1>3 DEF Base

LEMMA OptimiseLabelKeeps ==
  ASSUME Base, NEW l \in todo, OptimiseLabel(l)
  PROVE  /\ DOMAIN labels' = DOMAIN labels /\ changed' \in BOOLEAN /\ todo' \subseteq DOMAIN labels
         /\ \A x \in DOMAIN labels :
              labels'[x].refs = labels[x].refs /\ labels'[x].defined = labels[x].defined
              /\ labels'[x] \in [defined : BOOLEAN, index : 0 .. Cells, refs : SUBSET Nat]
<1> DEFINE next == {p \in LeadsTo(l) : p # l /\ labels[p].defined}
<1>1. \A x \in DOMAIN labels : labels[x] \in [defined : BOOLEAN, index : 0 .. Cells, refs : SUBSET Nat]
  BY DEF Base, Shape
<1>2. l \in DOMAIN labels /\ changed \in BOOLEAN /\ todo' \subseteq DOMAIN labels
  BY DEF Base, Shape, OptimiseLabel
<1>3. next \subseteq DOMAIN labels
  BY DEF LeadsTo, PatchOf
<1>4. \/ UNCHANGED <<labels, changed>>
      \/ (\E p \in next : labels' = [labels EXCEPT ![l].index = labels[p].index]) /\ changed' = TRUE
  BY DEF OptimiseLabel
<1> HIDE DEF next
<1>5. CASE UNCHANGED <<labels, changed>>
  BY <1>1, <1>2, <1>5
<1>6. CASE (\E p \in next : labels' = [labels EXCEPT ![l].index = labels[p].index]) /\ changed' = TRUE
  <2>1. PICK p \in next : labels' = [labels EXCEPT ![l].index = labels[p].index]
    BY <1>6
  <2>2. labels[p].index \in 0 .. Cells
    BY <1>1, <1>3
  <2>. QED
    BY <1>1, <1>2, <1>6, <2>1, <2>2
<1>. QED
  BY <1>4, <1>5, <1>6

LEMMA NextBase == Base /\ [Next]_vars => Base'
<1> SUFFICES ASSUME Base, [Next]_vars PROVE Base'
  OBVIOUS
<1>1. /\ \A l \in DOMAIN labels : labels[l] \in [defined : BOOLEAN, index : 0 .. Cells, refs : SUBSET Nat]
      /\ todo \subseteq DOMAIN labels /\ changed \in BOOLEAN
  BY DEF Base, Shape
<1>2. CASE ReadStep
  <2>1. PICK line \in Dialect[dialect] : ReadLine(line) /\ ReadsLine(line)
    BY <1>2 DEF ReadStep, ReadsLine
  <2>. QED
    BY <2>1, ReadBase
<1>3. CASE Crash
  BY <1>1, <1>3, KeptBase DEF Crash, ExposeNoReg, symbols
<1>4. CASE End
  BY <1>1, <1>4, KeptBase DEF End, symbols
<1>5. CASE \E l \in todo : OptimiseLabel(l)
  <2>1. PICK l \in todo : OptimiseLabel(l)
    BY <1>5
  <2>2. UNCHANGED <<read, binary, globals, locals, extern_regs, phase>>
    BY <2>1 DEF OptimiseLabel, symbols
  <2>. QED
    BY <2>1, <2>2, OptimiseLabelKeeps, KeptBase
<1>6. CASE EndRound
  BY <1>1, <1>6, KeptBase DEF EndRound, symbols
<1>7. CASE Backpatch
  <2>1. Placed' /\ IsList(binary') /\ Cells' = Cells
    BY <1>7, BackpatchPlaced, Patched DEF Base
  <2>2. UNCHANGED <<dialect, source, globals, locals, extern_regs, labels, todo, changed>> /\ phase' = "done"
    BY <1>7 DEF Backpatch, read, symbols
  <2>3. Shape'
    BY <2>1, <2>2 DEF Base, Shape, Text
  <2>. QED
    BY <2>1, <2>3 DEF Base
<1>8. CASE UNCHANGED vars
  BY <1>1, <1>8, KeptBase DEF vars, symbols
<1>. QED
  BY <1>2, <1>3, <1>4, <1>5, <1>6, <1>7, <1>8 DEF Next, BackpatchStep

(* The code that was read is in the binary without gaps, each operand in   *)
(* its cell, and a label refers to the cells of the operands that name it. *)
THEOREM Placement == Spec => []Base
<1>. QED
  BY InitBase, NextBase, PTL DEF Spec

-----------------------------------------------------------------------------
(* optimise_labels                                                         *)

(* There is nothing left to do at this label.                              *)
Settled(l) == {p \in LeadsTo(l) : p # l /\ labels[p].defined} = {}
Redirected ==
  /\ phase = "labels" /\ ~ changed => \A l \in DOMAIN labels \ todo : Settled(l)
  /\ phase \in {"backpatch", "done"} /\ optimise => \A l \in DOMAIN labels : Settled(l)
  /\ phase = "done" =>
       /\ errors = {} => ~ Unknown(labels)
       /\ \A k \in Instructions : \A p \in DOMAIN LabelsOf(Text(k)) :
            LET label == labels[LabelsOf(Text(k))[p]] IN
            label.defined => Cell(source[k].at + p) = [value |-> label.index]

(* A cell with the opcode of a branch is one of an instruction.            *)
LEMMA BranchAt ==
  ASSUME Base, NEW i \in Nat, IsBr(i)
  PROVE  \E k \in Instructions : /\ source[k].at = i /\ 1 \in DOMAIN LabelsOf(Text(k))
                                 /\ LabelsOf(Text(k))[1] \in DOMAIN labels
                                 /\ i + 1 \in labels[LabelsOf(Text(k))[1]].refs
<1>1. i \in 0 .. Cells - 1 /\ Cell(i) = [op |-> "br"]
  BY DEF IsBr, Base, Shape, IsList, Cells
<1>2. PICK k \in Instructions : i \in source[k].at .. source[k].at + Len(Operands(Text(k)))
  BY <1>1 DEF Base, Placed, Covered
<1>3. /\ source[k].at \in Nat /\ Len(Operands(Text(k))) \in Nat /\ IsLine(Text(k)) /\ IsCode(Text(k))
      /\ DOMAIN Operands(Text(k)) = 1 .. Len(Operands(Text(k)))
  BY Instruction DEF Base
<1>4. CASE i # source[k].at
  <2> DEFINE p == i - source[k].at
  <2>1. p \in DOMAIN Operands(Text(k)) /\ source[k].at + p = i
    BY <1>2, <1>3, <1>4
  <2> HIDE DEF p
  <2>2. DOMAIN Cell(i) = {"value"}
    BY <2>1 DEF Base, Placed, Operated
  <2>. QED
    BY <1>1, <2>2
<1>5. CASE i = source[k].at
  <2>1. Cell(i) = [op |-> Text(k).op]
    BY <1>5 DEF Base, Placed, Coded
  <2>2. Text(k).op = "br"
    BY <1>1, <2>1
  <2>3. IsInstruction(Text(k))
    BY <1>3 DEF IsLine, IsCode, Directives
  <2>4. LabelsOf(Text(k)) = Text(k).to /\ 1 \in DOMAIN LabelsOf(Text(k))
    BY <2>2, <2>3 DEF IsInstruction, LabelsOf
  <2>5. LabelsOf(Text(k))[1] \in DOMAIN labels
    BY <2>4 DEF Base, Placed, Referred, Range
  <2>6. LabelCell(LabelsOf(Text(k))[1], i + 1)
    BY <1>5, <2>4 DEF LabelCell
  <2>. QED
    BY <1>5, <2>4, <2>5, <2>6 DEF Base, Placed, Referred
<1>. QED
  BY <1>4, <1>5

(* The properties of lines read belong to the phases of reading.           *)
LEMMA ReadPhase ==
  ASSUME Base, NEW line \in Dialect[dialect], ReadLine(line)
  PROVE  phase \in {"headers", "functions", "declared"} /\ phase' \in {"headers", "functions", "declared"}
<1>1. \/ SetGlobals(line.n) \/ ExposeReg(line.n, line.index) \/ Proc(line.name, line.n)
      \/ ExposedProc(line.name, line.n, line.index) \/ Declare(line.name, line.index)
      \/ DefineLabel(line.to[1]) \/ Generate(line) \/ Refuse(line)
  BY DEF ReadLine
<1>. QED
  BY <1>1 DEF SetGlobals, ExposeReg, Proc, ExposedProc, Declare, DefineLabel, Generate, Refuse, Directive, Code

LEMMA BackpatchBranches ==
  ASSUME Base, Backpatch
  PROVE  \A l \in DOMAIN labels : Settled(l)' <=> Settled(l)
<1>1. UNCHANGED <<source, labels>> /\ Cells' = Cells
  BY Patched DEF Backpatch, read, Base
<1>2. ASSUME NEW i \in Nat
      PROVE  IsBr(i)' <=> IsBr(i)
  <2>1. CASE i >= Cells
    BY <1>1, <2>1 DEF IsBr, Base, Shape, IsList, Cells
  <2>2. CASE i < Cells
    <3>1. i \in 0 .. Cells - 1
      BY <2>2 DEF Base, Shape, IsList, Cells
    <3>2. PICK k \in Instructions : i \in source[k].at .. source[k].at + Len(Operands(Text(k)))
      BY <3>1 DEF Base, Placed, Covered
    <3>3. /\ source[k].at \in Nat /\ Len(Operands(Text(k))) \in Nat
          /\ DOMAIN Operands(Text(k)) = 1 .. Len(Operands(Text(k)))
      BY Instruction DEF Base
    <3>4. CASE i = source[k].at
      <4>1. Cell(i)' = Cell(i)
        BY <1>1, <3>4, Patched DEF Base, Cell
      <4>. QED
        BY <1>1, <4>1 DEF IsBr
    <3>5. CASE i # source[k].at
      <4>1. PICK p \in DOMAIN Operands(Text(k)) : source[k].at + p = i
        <5> DEFINE p == i - source[k].at
        <5>1. p \in DOMAIN Operands(Text(k)) /\ source[k].at + p = i
          BY <3>2, <3>3, <3>5
        <5>. QED
          BY <5>1
      <4>2. DOMAIN Cell(i) = {"value"}
        BY <4>1 DEF Base, Placed, Operated
      <4>3. DOMAIN Cell(source[k].at + p)' = {"value"}
        BY <4>1, <4>2, Patched DEF Base
      <4>4. Cell(source[k].at + p)' = binary'[i + 1]
        BY <1>1, <4>1 DEF Cell
      <4>. QED
        BY <4>2, <4>3, <4>4 DEF IsBr, Cell
    <3>. QED
      BY <3>4, <3>5
  <2>. QED
    BY <2>1, <2>2 DEF Base, Shape, IsList, Cells
<1>3. \A l \in DOMAIN labels : labels[l].index \in Nat
  BY DEF Base, Shape
<1>4. \A l \in DOMAIN labels : LeadsTo(l)' = LeadsTo(l)
  BY <1>1, <1>2, <1>3 DEF LeadsTo, PatchOf
<1>. QED
  BY <1>1, <1>4 DEF Settled

LEMMA KeptSettled ==
  ASSUME UNCHANGED <<binary, labels>>
  PROVE  \A l : Settled(l)' <=> Settled(l)
BY DEF Settled, LeadsTo, PatchOf, IsBr, Cell, Cells

LEMMA BackpatchRedirected == ASSUME Base, Redirected, Backpatch PROVE Redirected'
<1>1. UNCHANGED <<source, labels, optimise>> /\ phase = "backpatch" /\ phase' = "done"
  BY DEF Backpatch, read
<1>2. optimise => \A l \in DOMAIN labels : Settled(l)'
  BY <1>1, BackpatchBranches DEF Redirected
<1>3. errors' = {} => ~ Unknown(labels)'
  BY <1>1 DEF Backpatch, Report, If, Unknown
<1>4. ASSUME NEW k \in Instructions, NEW p \in DOMAIN LabelsOf(Text(k)), labels[LabelsOf(Text(k))[p]].defined
      PROVE  Cell(source[k].at + p)' = [value |-> labels[LabelsOf(Text(k))[p]].index]
  <2>1. p \in DOMAIN Operands(Text(k))
    BY Instruction, CodeLine DEF Base
  <2>. QED
    BY <1>4, <2>1, Patched DEF Base
<1>5. Instructions' = Instructions /\ \A k : Text(k)' = Text(k) /\ source'[k] = source[k]
  BY <1>1 DEF Instructions, Text
<1>6. \A k \in Instructions' : \A p \in DOMAIN LabelsOf(Text(k)') :
        labels'[LabelsOf(Text(k)')[p]].defined =>
          binary'[source'[k].at + p + 1] = [value |-> labels'[LabelsOf(Text(k)')[p]].index]
  BY <1>1, <1>4, <1>5 DEF Cell
<1>. QED
  BY <1>1, <1>2, <1>3, <1>6 DEF Redirected, Cell, LabelsOf

LEMMA NextRedirected == Base /\ Redirected /\ [Next]_vars => Redirected'
<1> SUFFICES ASSUME Base, Redirected, [Next]_vars PROVE Redirected'
  OBVIOUS
<1>1. CASE ReadStep
  <2>1. PICK line \in Dialect[dialect] : ReadLine(line)
    BY <1>1 DEF ReadStep
  <2>2. phase' \in {"headers", "functions", "declared"}
    BY <2>1, ReadPhase
  <2>. QED
    BY <2>2 DEF Redirected
<1>2. CASE Crash
  BY <1>2 DEF Crash, ExposeNoReg, Redirected
<1>3. CASE End
  <2>1. /\ phase' \in {"labels", "backpatch"} /\ (phase' = "backpatch" => ~ optimise') /\ UNCHANGED labels
        /\ phase' = "labels" => todo' = DOMAIN labels
    BY <1>3 DEF End, read
  <2>. QED
    BY <2>1 DEF Redirected
<1>4. CASE \E l \in todo : OptimiseLabel(l)
  <2>1. PICK l \in todo : OptimiseLabel(l)
    BY <1>4
  <2>2. phase = "labels" /\ phase' = "labels" /\ todo' = todo \ {l}
    BY <2>1 DEF OptimiseLabel
  <2>3. CASE {p \in LeadsTo(l) : p # l /\ labels[p].defined} = {}
    <3>1. UNCHANGED <<binary, labels, changed>>
      BY <2>1, <2>3 DEF OptimiseLabel
    <3>2. Settled(l)
      BY <2>3 DEF Settled
    <3>. QED
      BY <2>2, <3>1, <3>2, KeptSettled DEF Redirected
  <2>4. CASE {p \in LeadsTo(l) : p # l /\ labels[p].defined} # {}
    <3>1. changed' = TRUE
      BY <2>1, <2>4 DEF OptimiseLabel
    <3>. QED
      BY <2>2, <3>1 DEF Redirected
  <2>. QED
    BY <2>3, <2>4
<1>5. CASE EndRound
  <2>1. UNCHANGED <<binary, labels>> /\ phase = "labels" /\ todo = {}
    BY <1>5 DEF EndRound
  <2>2. CASE changed
    <3>1. todo' = DOMAIN labels' /\ phase' = "labels"
      BY <1>5, <2>1, <2>2 DEF EndRound
    <3>. QED
      BY <3>1 DEF Redirected
  <2>3. CASE ~ changed
    <3>1. phase' = "backpatch"
      BY <1>5, <2>3 DEF EndRound
    <3>2. \A l \in DOMAIN labels : Settled(l)
      BY <2>1, <2>3 DEF Redirected
    <3>. QED
      BY <2>1, <3>1, <3>2, KeptSettled DEF Redirected
  <2>. QED
    BY <2>2, <2>3
<1>6. CASE Backpatch
  BY <1>6, BackpatchRedirected
<1>7. CASE UNCHANGED vars
  <2>1. UNCHANGED <<phase, changed, labels, todo, optimise, errors, source, binary>>
    BY <1>7 DEF vars, read
  <2>2. Instructions' = Instructions /\ \A k : Text(k)' = Text(k)
    BY <2>1 DEF Instructions, Text
  <2>3. Unknown(labels)' = Unknown(labels)
    BY <2>1 DEF Unknown
  <2>. QED
    BY <2>1, <2>2, <2>3, KeptSettled DEF Redirected, Cell
<1>. QED
  BY <1>1, <1>2, <1>3, <1>4, <1>5, <1>6, <1>7 DEF Next, BackpatchStep

LEMMA InitRedirected == Init => Redirected
BY DEF Init, Redirected

(* The optimiser leaves no branch to an unconditional branch, except to    *)
(* one that goes to itself.                                                *)
THEOREM BranchesShortened == Spec => []NoBranchToBranch
<1>1. Base /\ Redirected => NoBranchToBranch
  <2> SUFFICES ASSUME Base, Redirected, phase = "done", errors = {}, optimise,
                      NEW k \in Instructions, NEW p \in DOMAIN LabelsOf(Text(k)), IsBr(Target(k, p))
               PROVE  Cell(Target(k, p) + 1).value = Target(k, p)
    BY DEF NoBranchToBranch, Assembled
  <2> DEFINE l == LabelsOf(Text(k))[p]
             i == Target(k, p)
  <2>1. l \in DOMAIN labels
    BY DEF Base, Placed, Referred, Range
  <2>2. source[k].at + p \in labels[l].refs
    BY <2>1 DEF Base, Placed, Referred, LabelCell
  <2>3. labels[l].defined /\ labels[l].index \in Nat
    BY <2>1, <2>2 DEF Redirected, Unknown, Base, Shape
  <2>4. i = labels[l].index
    <3>1. Cell(source[k].at + p) = [value |-> labels[l].index]
      BY <2>3 DEF Redirected
    <3>. QED
      BY <3>1 DEF Target
  <2>5. PICK m \in Instructions : /\ source[m].at = i /\ 1 \in DOMAIN LabelsOf(Text(m))
                                   /\ LabelsOf(Text(m))[1] \in DOMAIN labels
                                   /\ i + 1 \in labels[LabelsOf(Text(m))[1]].refs
    BY <2>3, <2>4, BranchAt
  <2> DEFINE q == LabelsOf(Text(m))[1]
  <2>6. q \in LeadsTo(l)
    BY <2>3, <2>4, <2>5 DEF LeadsTo, PatchOf
  <2>7. labels[q].defined
    BY <2>5 DEF Redirected, Unknown
  <2>8. q = l
    BY <2>1, <2>6, <2>7 DEF Redirected, Settled
  <2>9. Cell(i + 1) = [value |-> labels[q].index]
    BY <2>5, <2>7 DEF Redirected
  <2>. QED
    BY <2>4, <2>8, <2>9
<1>. QED
  BY <1>1, InitRedirected, NextRedirected, Placement, PTL DEF Spec

-----------------------------------------------------------------------------
(* What is reported                                                        *)

Exposing == {".expproc", ".declare", ".exposereg"}

(* What is right about the lines that were read, whatever follows.         *)
LabelsOnce == \A j, k \in Lines({"label"}) : Text(j) = Text(k) => j = k
ProceduresOnce == \A j, k \in Lines(Procedures) : SameName(j, k) => j = k
IndicesOnce == \A j, k \in Lines(Exposing) : Text(j).index = Text(k).index => j = k
GlobalsExposedOnce == \A j, k \in Lines({".exposereg"}) : Text(j).n = Text(k).n => j = k
GlobalsOnce == \A j, k \in Lines({".globals"}) : j < k => Text(j).n = 0
GlobalsThere == \A k \in Lines({".exposereg"}) : \E j \in Lines({".globals"}) : j < k /\ Text(k).n < Text(j).n
InRange(r, n) == (r.type = "r" => r.num < n) /\ (r.type = "g" => r.num < globals)
RegistersThere == \A k \in Instructions : \A r \in Range(Text(k).regs) : InRange(r, source[k].locals)
AllValid == Lines({"invalid"}) = {}
RightSoFar ==
  /\ LabelsOnce /\ ProceduresOnce /\ IndicesOnce /\ GlobalsExposedOnce
  /\ GlobalsOnce /\ GlobalsThere /\ RegistersThere /\ AllValid

(* What must be right about the next line.                                 *)
RightLine(line) ==
  /\ line.op = "label" => \A j \in Lines({"label"}) : Text(j) # line
  /\ line.op \in Procedures => \A j \in Lines(Procedures) : Text(j).name # line.name
  /\ line.op \in Exposing => \A j \in Lines(Exposing) : Text(j).index # line.index
  /\ line.op = ".exposereg" => \A j \in Lines({".exposereg"}) : Text(j).n # line.n
  /\ line.op = ".globals" => \A j \in Lines({".globals"}) : Text(j).n = 0
  /\ line.op = ".exposereg" => \E j \in Lines({".globals"}) : line.n < Text(j).n
  /\ IsCode(line) => \A r \in Range(line.regs) : InRange(r, locals)
  /\ line.op # "invalid"

LEMMA RightGrows ==
  ASSUME Base, NEW line, ReadsLine(line), (phase = "headers" /\ ~ IsCode(line)) \/ UNCHANGED globals,
         IsCode(line) => UNCHANGED locals
  PROVE  RightSoFar' <=> RightSoFar /\ RightLine(line)
<1> DEFINE new == Len(source) + 1
<1>1. /\ new \in Nat /\ DOMAIN source = 1 .. Len(source) /\ Len(source) \in Nat
      /\ \A k \in DOMAIN source : source'[k] = source[k] /\ k < new
      /\ source'[new].line = line /\ source'[new].locals = locals'
      /\ Instructions' = Instructions \cup IF IsCode(line) THEN {new} ELSE {}
      /\ \A ops : Lines(ops)' = Lines(ops) \cup IF line.op \in ops THEN {new} ELSE {}
  BY Grown DEF Base
<1>2. Instructions \subseteq DOMAIN source /\ \A ops : Lines(ops) \subseteq DOMAIN source
  BY DEF Instructions, Lines
<1> HIDE DEF new
<1>3. \A k \in DOMAIN source : source'[k].line = Text(k) /\ source'[k].locals = source[k].locals /\ k # new
                             /\ k < new /\ ~ (new < k)
  BY <1>1 DEF Text
<1>4. LabelsOnce' <=> LabelsOnce /\ (line.op = "label" => \A j \in Lines({"label"}) : Text(j) # line)
  <2>1. Lines({"label"})' = Lines({"label"}) \cup IF line.op = "label" THEN {new} ELSE {}
    BY <1>1
  <2>. QED
    BY <1>1, <1>2, <1>3, <2>1 DEF LabelsOnce, Text
<1>5. ProceduresOnce' <=>
        ProceduresOnce /\ (line.op \in Procedures => \A j \in Lines(Procedures) : Text(j).name # line.name)
  <2>1. Lines(Procedures)' = Lines(Procedures) \cup IF line.op \in Procedures THEN {new} ELSE {}
    BY <1>1
  <2>. QED
    BY <1>1, <1>2, <1>3, <2>1 DEF ProceduresOnce, SameName, Text, Procedures
<1>6. IndicesOnce' <=>
        IndicesOnce /\ (line.op \in Exposing => \A j \in Lines(Exposing) : Text(j).index # line.index)
  <2>1. Lines(Exposing)' = Lines(Exposing) \cup IF line.op \in Exposing THEN {new} ELSE {}
    BY <1>1
  <2>. QED
    BY <1>1, <1>2, <1>3, <2>1 DEF IndicesOnce, Text, Exposing
<1>7. GlobalsExposedOnce' <=>
        GlobalsExposedOnce /\ (line.op = ".exposereg" => \A j \in Lines({".exposereg"}) : Text(j).n # line.n)
  <2>1. Lines({".exposereg"})' = Lines({".exposereg"}) \cup IF line.op = ".exposereg" THEN {new} ELSE {}
    BY <1>1
  <2>. QED
    BY <1>1, <1>2, <1>3, <2>1 DEF GlobalsExposedOnce, Text
<1>8. GlobalsOnce' <=> GlobalsOnce /\ (line.op = ".globals" => \A j \in Lines({".globals"}) : Text(j).n = 0)
  <2>1. Lines({".globals"})' = Lines({".globals"}) \cup IF line.op = ".globals" THEN {new} ELSE {}
    BY <1>1
  <2>. QED
    BY <1>1, <1>2, <1>3, <2>1 DEF GlobalsOnce, Text
<1>9. GlobalsThere' <=>
        GlobalsThere /\ (line.op = ".exposereg" => \E j \in Lines({".globals"}) : line.n < Text(j).n)
  <2>1. /\ Lines({".globals"})' = Lines({".globals"}) \cup IF line.op = ".globals" THEN {new} ELSE {}
        /\ Lines({".exposereg"})' = Lines({".exposereg"}) \cup IF line.op = ".exposereg" THEN {new} ELSE {}
    BY <1>1
  <2>. QED
    BY <1>1, <1>2, <1>3, <2>1 DEF GlobalsThere, Text
<1>10. RegistersThere' <=>
         RegistersThere /\ (IsCode(line) => \A r \in Range(line.regs) : InRange(r, locals))
  <2>1. CASE Instructions = {} /\ ~ IsCode(line)
    BY <1>1, <2>1 DEF RegistersThere
  <2>2. CASE UNCHANGED globals
    <3>1. \A r, n : InRange(r, n)' <=> InRange(r, n)
      BY <2>2 DEF InRange
    <3>2. \A k \in Instructions : source'[k].line = Text(k) /\ source'[k].locals = source[k].locals
      BY <1>2, <1>3
    <3>. QED
      BY <1>1, <3>1, <3>2 DEF RegistersThere, Text
  <2>3. phase = "headers" => Instructions = {}
    BY DEF Base, Shape, Instructions, Directives, Text
  <2>. QED
    BY <2>1, <2>2, <2>3
<1>11. AllValid' <=> AllValid /\ line.op # "invalid"
  BY <1>1 DEF AllValid
<1>. QED
  BY <1>4, <1>5, <1>6, <1>7, <1>8, <1>9, <1>10, <1>11 DEF RightSoFar, RightLine

(* The lines that were read, without their place.                          *)
Read(ops) == {Text(k) : k \in Lines(ops)}

LEMMA ReadGrows ==
  ASSUME Base, NEW line, ReadsLine(line)
  PROVE  \A ops : Read(ops)' = Read(ops) \cup IF line.op \in ops THEN {line} ELSE {}
<1> DEFINE new == Len(source) + 1
<1>1. /\ \A k \in DOMAIN source : source'[k] = source[k]
      /\ source'[new].line = line
      /\ \A ops : Lines(ops)' = Lines(ops) \cup IF line.op \in ops THEN {new} ELSE {}
  BY Grown DEF Base
<1>2. \A ops : Lines(ops) \subseteq DOMAIN source
  BY DEF Lines
<1> HIDE DEF new
<1>3. \A k \in DOMAIN source : source'[k].line = Text(k)
  BY <1>1 DEF Text
<1>4. ASSUME NEW ops
      PROVE  {source'[k].line : k \in Lines(ops)'} = Read(ops) \cup IF line.op \in ops THEN {line} ELSE {}
  <2>1. \A k \in Lines(ops) : source'[k].line = Text(k)
    BY <1>2, <1>3
  <2>2. Lines(ops)' = Lines(ops) \cup IF line.op \in ops THEN {new} ELSE {}
    BY <1>1
  <2>. QED
    BY <1>1, <2>1, <2>2 DEF Read
<1>. QED
  BY <1>4 DEF Read, Text

LEMMA ReadSame ==
  ASSUME Base, NEW line, ReadsLine(line), NEW ops, line.op \notin ops
  PROVE  Read(ops)' = Read(ops)
<1>1. Read(ops)' = Read(ops) \cup IF line.op \in ops THEN {line} ELSE {}
  BY ReadGrows
<1>. QED
  BY <1>1

LabelsTracked == \A l : LabelDefined(l) <=> Label(l) \in Read({"label"})
ProcsTracked ==
  /\ \A name : Duplicate(name) <=> \E t \in Read(Procedures) : t.name = name
  /\ \A name \in DOMAIN procs : ~ procs[name].defined =>
       procs[name].refs # {} /\ \E t \in Read({"call"}) : t.to[1] = name
  /\ \A t \in Read({"call"}) : t.to[1] \in DOMAIN procs
ExternsTracked == externs = {t.index : t \in Read(Exposing)}
GlobalsTracked ==
  /\ globals # 0 => \E t \in Read({".globals"}) : t.n = globals
  /\ errors = {} =>
       /\ \A t \in Read({".globals"}) : t.n # 0 => t.n = globals
       /\ extern_regs = {t.n : t \in Read({".exposereg"})}
Tracked == LabelsTracked /\ ProcsTracked /\ ExternsTracked /\ GlobalsTracked

LEMMA RightLineText ==
  ASSUME NEW line
  PROVE  RightLine(line) <=>
           /\ line.op = "label" => line \notin Read({"label"})
           /\ line.op \in Procedures => \A t \in Read(Procedures) : t.name # line.name
           /\ line.op \in Exposing => \A t \in Read(Exposing) : t.index # line.index
           /\ line.op = ".exposereg" => \A t \in Read({".exposereg"}) : t.n # line.n
           /\ line.op = ".globals" => \A t \in Read({".globals"}) : t.n = 0
           /\ line.op = ".exposereg" => \E t \in Read({".globals"}) : line.n < t.n
           /\ IsCode(line) => \A r \in Range(line.regs) : InRange(r, locals)
           /\ line.op # "invalid"
BY DEF RightLine, Read

(* What a line leaves alone.                                               *)
LEMMA SameLabels ==
  ASSUME Base, Tracked, NEW line, ReadsLine(line), line.op # "label", \A l : LabelDefined(l)' <=> LabelDefined(l)
  PROVE  LabelsTracked'
<1>1. Read({"label"})' = Read({"label"})
  BY ReadGrows
<1>. QED
  BY <1>1 DEF Tracked, LabelsTracked

LEMMA SameProcs ==
  ASSUME Base, Tracked, NEW line, ReadsLine(line), line.op \notin Procedures \cup {"call"}, UNCHANGED procs
  PROVE  ProcsTracked'
<1>1. Read(Procedures)' = Read(Procedures) /\ Read({"call"})' = Read({"call"})
  <2>1. Read(Procedures)' = Read(Procedures)
    <3>1. line.op \notin Procedures
      OBVIOUS
    <3>. QED
      BY <3>1, ReadSame
  <2>2. Read({"call"})' = Read({"call"})
    <3>1. line.op \notin {"call"}
      OBVIOUS
    <3>. QED
      BY <3>1, ReadSame
  <2>. QED
    BY <2>1, <2>2
<1>2. \A name : Duplicate(name)' <=> Duplicate(name)
  BY DEF Duplicate, Known
<1>. QED
  BY <1>1, <1>2 DEF Tracked, ProcsTracked, Procedures

LEMMA SameExterns ==
  ASSUME Base, Tracked, NEW line, ReadsLine(line), line.op \notin Exposing, UNCHANGED externs
  PROVE  ExternsTracked'
<1>1. Read(Exposing)' = Read(Exposing)
  BY ReadGrows
<1>. QED
  BY <1>1 DEF Tracked, ExternsTracked, Exposing

LEMMA SameGlobals ==
  ASSUME Base, Tracked, NEW line, ReadsLine(line), line.op \notin {".globals", ".exposereg"},
         UNCHANGED <<globals, extern_regs>>, errors \subseteq errors'
  PROVE  GlobalsTracked'
<1>1. Read({".globals"})' = Read({".globals"}) /\ Read({".exposereg"})' = Read({".exposereg"})
  <2>1. Read({".globals"})' = Read({".globals"})
    <3>1. line.op \notin {".globals"}
      OBVIOUS
    <3>. QED
      BY <3>1, ReadSame
  <2>2. Read({".exposereg"})' = Read({".exposereg"})
    <3>1. line.op \notin {".exposereg"}
      OBVIOUS
    <3>. QED
      BY <3>1, ReadSame
  <2>. QED
    BY <2>1, <2>2
<1>2. errors' = {} => errors = {}
  OBVIOUS
<1>. QED
  BY <1>1, <1>2 DEF Tracked, GlobalsTracked

LEMMA MoreExterns ==
  ASSUME Base, Tracked, NEW line, ReadsLine(line), line.op \in Exposing, externs' = externs \cup {line.index}
  PROVE  ExternsTracked'
<1>1. Read(Exposing)' = Read(Exposing) \cup {line}
  BY ReadGrows
<1>. QED
  BY <1>1 DEF Tracked, ExternsTracked, Exposing

LEMMA DefinedProcs ==
  ASSUME Base, Tracked, NEW line, ReadsLine(line), line.op \in Procedures, NoteDefinition(line.name)
  PROVE  ProcsTracked'
<1> DEFINE name == line.name
<1>1. Read(Procedures)' = Read(Procedures) \cup {line}
  BY ReadGrows
<1>2. Read({"call"})' = Read({"call"})
  <2>1. line.op \notin {"call"}
    BY DEF Procedures
  <2>. QED
    BY <2>1, ReadSame
<1>3. /\ DOMAIN procs' = DOMAIN procs \cup {name} /\ procs'[name].defined
      /\ \A x \in DOMAIN procs \ {name} : procs'[x] = procs[x]
  <2>1. CASE Duplicate(name)
    BY <2>1 DEF NoteDefinition, Duplicate, Known
  <2>2. CASE ~ Duplicate(name)
    BY <2>2 DEF NoteDefinition, Extend
  <2>. QED
    BY <2>1, <2>2
<1>4. \A x : Duplicate(x)' <=> Duplicate(x) \/ x = name
  BY <1>3 DEF Duplicate, Known
<1>. QED
  BY <1>1, <1>2, <1>3, <1>4 DEF Tracked, ProcsTracked, Procedures

LEMMA ReferredProcs ==
  ASSUME Base, Tracked, NEW line, ReadsLine(line), IsCode(line), ReferProcs(line)
  PROVE  ProcsTracked'
<1>1. line.op \notin Procedures
  BY DEF IsCode, Directives, Procedures
<1>2. CASE line.op # "call"
  BY <1>1, <1>2, SameProcs DEF ReferProcs
<1>3. CASE line.op = "call"
  <2> DEFINE name == line.to[1]
  <2>1. Read(Procedures)' = Read(Procedures)
    BY <1>1, ReadSame
  <2>2. Read({"call"})' = Read({"call"}) \cup {line}
    BY <1>3, ReadGrows
  <2>3. /\ DOMAIN procs' = DOMAIN procs \cup {name}
        /\ Duplicate(name) => procs' = procs
        /\ ~ Duplicate(name) => ~ procs'[name].defined /\ procs'[name].refs # {}
        /\ \A x \in DOMAIN procs \ {name} : procs'[x] = procs[x]
    <3>1. CASE Duplicate(name)
      BY <1>3, <3>1 DEF ReferProcs, Refer, Duplicate, Known
    <3>2. CASE ~ Duplicate(name)
      <4> DEFINE new == [defined |-> FALSE, index |-> EntryOf(name), refs |-> RefsOf(name) \cup {OperandAt(line, 2) + 1}]
      <4>1. procs' = Extend(procs, name, new)
        BY <1>3, <3>2 DEF ReferProcs, Refer
      <4>2. ~ new.defined /\ new.refs # {}
        OBVIOUS
      <4> HIDE DEF new
      <4>. QED
        BY <3>2, <4>1, <4>2 DEF Extend
    <3>. QED
      BY <3>1, <3>2
  <2>4. \A x : Duplicate(x)' <=> Duplicate(x)
    BY <2>3 DEF Duplicate, Known
  <2> HIDE DEF name
  <2>5. \A x \in DOMAIN procs' : ~ procs'[x].defined =>
          procs'[x].refs # {} /\ \E t \in Read({"call"})' : t.to[1] = x
    <3>1. CASE Duplicate(name)
      BY <2>2, <2>3, <3>1 DEF Tracked, ProcsTracked
    <3>2. CASE ~ Duplicate(name)
      BY <2>2, <2>3, <3>2 DEF Tracked, ProcsTracked, name
    <3>. QED
      BY <3>1, <3>2
  <2>. QED
    BY <2>1, <2>2, <2>3, <2>4, <2>5 DEF Tracked, ProcsTracked, Procedures, name
<1>. QED
  BY <1>2, <1>3

Reported(line) == Tracked' /\ (errors' = {} <=> errors = {} /\ RightLine(line))

LEMMA ReadTyped ==
  ASSUME Base
  PROVE  /\ \A ops : \A t \in Read(ops) : IsLine(t) /\ t.op \in ops
         /\ \A t \in Read({".globals"}) \cup Read({".exposereg"}) : t.n \in Nat
<1>1. \A ops : \A t \in Read(ops) : IsLine(t) /\ t.op \in ops
  BY AssemblerAssumption DEF Base, Shape, Read, Lines, Text
<1>2. \A t \in Read({".globals"}) : t.n \in Nat
  BY <1>1 DEF IsLine
<1>3. \A t \in Read({".exposereg"}) : t.n \in Nat
  BY <1>1 DEF IsLine
<1>. QED
  BY <1>1, <1>2, <1>3

LEMMA SetGlobalsReported ==
  ASSUME Base, Tracked, errors = {} => RightSoFar, NEW line, IsLine(line), ReadsLine(line),
         line.op = ".globals", SetGlobals(line.n)
  PROVE  Reported(line)
<1>1. line.n \in Nat /\ globals \in Nat
  BY DEF IsLine, Base, Shape
<1>2. UNCHANGED <<labels, procs, externs>>
  BY DEF SetGlobals
<1>3. errors' = {} <=> errors = {} /\ globals = 0
  BY DEF SetGlobals, Report, If
<1>4. errors = {} => (RightLine(line) <=> globals = 0)
  <2>1. RightLine(line) <=> \A t \in Read({".globals"}) : t.n = 0
    BY RightLineText DEF Procedures, Exposing, IsCode, Directives
  <2>. QED
    BY <2>1 DEF Tracked, GlobalsTracked
<1>5. LabelsTracked' /\ ProcsTracked' /\ ExternsTracked'
  <2>1. LabelsTracked'
    BY <1>2, SameLabels DEF LabelDefined
  <2>2. ProcsTracked'
    BY <1>2, SameProcs DEF Procedures
  <2>3. ExternsTracked'
    BY <1>2, SameExterns DEF Exposing
  <2>. QED
    BY <2>1, <2>2, <2>3
<1>6. GlobalsTracked'
  <2>1. Read({".globals"})' = Read({".globals"}) \cup {line}
    BY ReadGrows
  <2>2. Read({".exposereg"})' = Read({".exposereg"})
    BY ReadSame
  <2>3. CASE globals # 0
    BY <1>3, <2>1, <2>3 DEF SetGlobals, Tracked, GlobalsTracked
  <2>4. CASE globals = 0
    <3>1. globals' = line.n /\ extern_regs' = {}
      BY <2>4 DEF SetGlobals
    <3>2. ASSUME errors = {}
          PROVE  Read({".exposereg"}) = {} /\ \A t \in Read({".globals"}) : t.n = 0
      <4>1. \A t \in Read({".globals"}) : t.n = 0
        BY <2>4, <3>2 DEF Tracked, GlobalsTracked
      <4>2. \A t \in Read({".exposereg"}) : \E u \in Read({".globals"}) : t.n < u.n
        BY <3>2 DEF RightSoFar, GlobalsThere, Read
      <4>3. Read({".exposereg"}) = {}
        BY <4>1, <4>2, ReadTyped
      <4>. QED
        BY <4>1, <4>3
    <3>. QED
      BY <1>3, <2>1, <2>2, <3>1, <3>2 DEF GlobalsTracked
  <2>. QED
    BY <2>3, <2>4
<1>. QED
  BY <1>3, <1>4, <1>5, <1>6 DEF Reported, Tracked

LEMMA ExposeRegReported ==
  ASSUME Base, Tracked, NEW line, IsLine(line), ReadsLine(line),
         line.op = ".exposereg", ExposeReg(line.n, line.index)
  PROVE  Reported(line)
<1>1. line.n \in Nat /\ globals \in Nat
  BY DEF IsLine, Base, Shape
<1>2. UNCHANGED <<labels, procs, globals>> /\ externs' = externs \cup {line.index}
      /\ extern_regs' = extern_regs \cup {line.n}
  BY DEF ExposeReg, Expose
<1>3. errors' = {} <=> errors = {} /\ line.n < globals /\ line.n \notin extern_regs /\ line.index \notin externs
  <2>1. PICK duplicate :
          /\ duplicate \subseteq {"duplicate exposed register"}
          /\ line.n < globals => duplicate = IF line.n \in extern_regs THEN {"duplicate exposed register"} ELSE {}
          /\ errors' = errors \cup ((IF line.n >= globals THEN {"no such global"} ELSE {})
                                   \cup (IF line.index \in externs THEN {"duplicate exposed index"} ELSE {})
                                   \cup duplicate)
    BY DEF ExposeReg, If, Report, DuplicateIndex
  <2>2. CASE line.n < globals
    <3>1. ~ (line.n >= globals)
      BY <1>1, <2>2
    <3>. QED
      BY <2>1, <2>2, <3>1
  <2>3. CASE ~ (line.n < globals)
    <3>1. line.n >= globals
      BY <1>1, <2>3
    <3>. QED
      BY <2>1, <2>3, <3>1
  <2>. QED
    BY <2>2, <2>3
<1>4. errors = {} => (RightLine(line) <=> line.n < globals /\ line.n \notin extern_regs /\ line.index \notin externs)
  <2>1. RightLine(line) <=> /\ \A t \in Read(Exposing) : t.index # line.index
                            /\ \A t \in Read({".exposereg"}) : t.n # line.n
                            /\ \E t \in Read({".globals"}) : line.n < t.n
    BY RightLineText DEF Procedures, Exposing, IsCode, Directives
  <2>2. line.index \notin externs <=> \A t \in Read(Exposing) : t.index # line.index
    BY DEF Tracked, ExternsTracked
  <2>3. ASSUME errors = {}
        PROVE  line.n \notin extern_regs <=> \A t \in Read({".exposereg"}) : t.n # line.n
    BY <2>3 DEF Tracked, GlobalsTracked
  <2>4. ASSUME errors = {}
        PROVE  line.n < globals <=> \E t \in Read({".globals"}) : line.n < t.n
    <3>1. ASSUME NEW t \in Read({".globals"}), line.n < t.n
          PROVE  line.n < globals
      <4>1. t.n \in Nat /\ t.n # 0
        BY <1>1, <3>1, ReadTyped
      <4>. QED
        BY <2>4, <3>1, <4>1 DEF Tracked, GlobalsTracked
    <3>2. ASSUME line.n < globals
          PROVE  \E t \in Read({".globals"}) : line.n < t.n
      BY <1>1, <3>2 DEF Tracked, GlobalsTracked
    <3>. QED
      BY <3>1, <3>2
  <2>. QED
    BY <2>1, <2>2, <2>3, <2>4
<1>5. LabelsTracked' /\ ProcsTracked' /\ ExternsTracked'
  <2>1. LabelsTracked'
    BY <1>2, SameLabels DEF LabelDefined
  <2>2. ProcsTracked'
    BY <1>2, SameProcs DEF Procedures
  <2>3. ExternsTracked'
    BY <1>2, MoreExterns DEF Exposing
  <2>. QED
    BY <2>1, <2>2, <2>3
<1>6. GlobalsTracked'
  <2>1. Read({".exposereg"})' = Read({".exposereg"}) \cup {line}
    BY ReadGrows
  <2>2. Read({".globals"})' = Read({".globals"})
    BY ReadSame
  <2>. QED
    BY <1>2, <1>3, <2>1, <2>2 DEF Tracked, GlobalsTracked
<1>. QED
  BY <1>3, <1>4, <1>5, <1>6 DEF Reported, Tracked

LEMMA ProcReported ==
  ASSUME Base, Tracked, NEW line, ReadsLine(line),
         \/ line.op = ".proc" /\ Proc(line.name, line.n)
         \/ line.op = ".expproc" /\ ExposedProc(line.name, line.n, line.index)
         \/ line.op = ".declare" /\ Declare(line.name, line.index)
  PROVE  Reported(line)
<1>1. line.op \in Procedures
  BY DEF Procedures
<1>2. NoteDefinition(line.name) /\ UNCHANGED <<labels, globals, extern_regs>> /\ errors \subseteq errors'
  BY DEF Proc, ExposedProc, Declare, Directive, Report
<1>3. /\ line.op \in Exposing => externs' = externs \cup {line.index}
      /\ line.op \notin Exposing => externs' = externs
  BY DEF Proc, ExposedProc, Declare, Expose, Exposing
<1>4. errors' = {} <=> errors = {} /\ ~ Duplicate(line.name) /\ (line.op \in Exposing => line.index \notin externs)
  <2>1. errors' = errors \cup (DuplicateProc(line.name)
                              \cup IF line.op \in Exposing THEN DuplicateIndex(line.index) ELSE {})
    BY DEF Proc, ExposedProc, Declare, Report, Exposing
  <2>. QED
    BY <2>1 DEF DuplicateProc, DuplicateIndex, If
<1>5. RightLine(line) <=> ~ Duplicate(line.name) /\ (line.op \in Exposing => line.index \notin externs)
  <2>1. RightLine(line) <=> /\ \A t \in Read(Procedures) : t.name # line.name
                            /\ line.op \in Exposing => \A t \in Read(Exposing) : t.index # line.index
    BY <1>1, RightLineText DEF Procedures, Exposing, IsCode, Directives
  <2>. QED
    BY <2>1 DEF Tracked, ProcsTracked, ExternsTracked
<1>6. LabelsTracked'
  BY <1>1, <1>2, SameLabels DEF LabelDefined, Procedures
<1>7. ProcsTracked'
  BY <1>1, <1>2, DefinedProcs
<1>8. ExternsTracked'
  BY <1>3, SameExterns, MoreExterns
<1>9. GlobalsTracked'
  BY <1>1, <1>2, SameGlobals DEF Procedures
<1>. QED
  BY <1>4, <1>5, <1>6, <1>7, <1>8, <1>9 DEF Reported, Tracked

LEMMA DefineLabelReported ==
  ASSUME Base, Tracked, NEW line, IsLine(line), ReadsLine(line), line.op = "label", DefineLabel(line.to[1])
  PROVE  Reported(line)
<1> DEFINE name == line.to[1]
<1>1. line = Label(name)
  BY DEF IsLine
<1>2. UNCHANGED <<procs, externs, globals, extern_regs>> /\ errors \subseteq errors'
  BY DEF DefineLabel, Code, Report
<1>3. errors' = {} <=> errors = {} /\ ~ LabelDefined(name)
  BY DEF DefineLabel, Report, If
<1>4. RightLine(line) <=> ~ LabelDefined(name)
  <2>1. RightLine(line) <=> line \notin Read({"label"})
    BY RightLineText DEF Procedures, Exposing, IsCode, Directives
  <2>. QED
    BY <1>1, <2>1 DEF Tracked, LabelsTracked
<1>5. LabelsTracked'
  <2>1. Read({"label"})' = Read({"label"}) \cup {line}
    BY ReadGrows
  <2>2. \A l : LabelDefined(l)' <=> LabelDefined(l) \/ l = name
    <3>1. CASE LabelDefined(name)
      BY <3>1 DEF DefineLabel, LabelDefined
    <3>2. CASE ~ LabelDefined(name)
      BY <3>2 DEF DefineLabel, LabelDefined, Extend
    <3>. QED
      BY <3>1, <3>2
  <2>3. \A l : Label(l) = line <=> l = name
    <3>1. \A l : Label(l).to[1] = l
      BY DEF Label, Line
    <3>. QED
      BY <1>1, <3>1
  <2>. QED
    BY <2>1, <2>2, <2>3 DEF Tracked, LabelsTracked
<1>6. ProcsTracked'
  BY <1>2, SameProcs DEF Procedures
<1>7. ExternsTracked'
  BY <1>2, SameExterns DEF Exposing
<1>8. GlobalsTracked'
  BY <1>2, SameGlobals
<1>. QED
  BY <1>3, <1>4, <1>5, <1>6, <1>7, <1>8 DEF Reported, Tracked

LEMMA GenerateReported ==
  ASSUME Base, Tracked, NEW line, IsLine(line), ReadsLine(line), IsCode(line), Generate(line)
  PROVE  Reported(line)
<1>1. line.op \notin Procedures \cup Exposing \cup {"label", ".globals", ".exposereg", "invalid"}
  BY DEF IsCode, Directives, Procedures, Exposing
<1>2. UNCHANGED <<externs, globals, extern_regs>> /\ errors' = errors \cup RegisterErrors(line)
  BY DEF Generate, Code, Report
<1>3. RegisterErrors(line) = {} <=> \A r \in Range(line.regs) : InRange(r, locals)
  <2>1. Range(line.regs) \subseteq AnyRegister
    <3>1. line.regs \in Seq(AnyRegister)
      BY DEF IsLine, IsCode, Directives, IsInstruction
    <3>. QED
      BY <3>1 DEF Range
  <2>2. locals \in Nat /\ globals \in Nat
    BY DEF Base, Shape
  <2>3. \A r \in Range(line.regs) :
          InRange(r, locals) <=> ~ (r.type = "r" /\ r.num >= locals) /\ ~ (r.type = "g" /\ r.num >= globals)
    BY <2>1, <2>2 DEF InRange, AnyRegister
  <2>4. RegisterErrors(line) = {} <=> /\ ~ \E r \in Range(line.regs) : r.type = "r" /\ r.num >= locals
                                     /\ ~ \E r \in Range(line.regs) : r.type = "g" /\ r.num >= globals
    BY DEF RegisterErrors, If
  <2>. QED
    BY <2>3, <2>4
<1>4. RightLine(line) <=> \A r \in Range(line.regs) : InRange(r, locals)
  BY <1>1, RightLineText
<1>5. \A l : LabelDefined(l)' <=> LabelDefined(l)
  <2>1. \A l \in DOMAIN labels : labels[l] \in [defined : BOOLEAN, index : 0 .. Cells, refs : SUBSET Nat]
    BY DEF Base, Shape
  <2>2. /\ DOMAIN labels' = DOMAIN labels \cup Range(LabelsOf(line))
        /\ \A l \in DOMAIN labels' :
             labels'[l] = IF l \in DOMAIN labels THEN [labels[l] EXCEPT !.refs = @ \cup References(line, l)]
                          ELSE [defined |-> FALSE, index |-> 0, refs |-> References(line, l)]
    BY DEF Generate, ReferLabels
  <2>3. ASSUME NEW l \in DOMAIN labels
        PROVE  labels'[l].defined = labels[l].defined
    <3> DEFINE refs == labels[l].refs \cup References(line, l)
    <3>1. labels'[l] = [labels[l] EXCEPT !.refs = refs]
      BY <2>2
    <3> HIDE DEF refs
    <3>. QED
      BY <2>1, <3>1
  <2>4. ASSUME NEW l \in DOMAIN labels' \ DOMAIN labels
        PROVE  ~ labels'[l].defined
    <3> DEFINE refs == References(line, l)
    <3>1. labels'[l] = [defined |-> FALSE, index |-> 0, refs |-> refs]
      BY <2>2
    <3> HIDE DEF refs
    <3>. QED
      BY <3>1
  <2>. QED
    BY <2>2, <2>3, <2>4 DEF LabelDefined
<1>6. LabelsTracked'
  BY <1>1, <1>5, SameLabels
<1>7. ProcsTracked'
  BY ReferredProcs DEF Generate
<1>8. ExternsTracked'
  BY <1>1, <1>2, SameExterns
<1>9. GlobalsTracked'
  BY <1>1, <1>2, SameGlobals
<1>. QED
  BY <1>2, <1>3, <1>4, <1>6, <1>7, <1>8, <1>9 DEF Reported, Tracked

LEMMA RefuseReported ==
  ASSUME Base, Tracked, NEW line, ReadsLine(line), Refuse(line)
  PROVE  Reported(line)
<1>1. line.op = "invalid"
  BY DEF Refuse, Valid
<1>2. UNCHANGED <<labels, procs, externs, globals, extern_regs>> /\ errors' = errors \cup {"invalid instruction"}
  BY DEF Refuse, Code, Report
<1>3. ~ RightLine(line)
  BY <1>1 DEF RightLine
<1>4. LabelsTracked'
  BY <1>1, <1>2, SameLabels DEF LabelDefined
<1>5. ProcsTracked'
  BY <1>1, <1>2, SameProcs DEF Procedures
<1>6. ExternsTracked'
  BY <1>1, <1>2, SameExterns DEF Exposing
<1>7. GlobalsTracked'
  BY <1>1, <1>2, SameGlobals
<1>. QED
  BY <1>2, <1>3, <1>4, <1>5, <1>6, <1>7 DEF Reported, Tracked

LEMMA LineReported ==
  ASSUME Base, Tracked, errors = {} => RightSoFar, NEW line \in Dialect[dialect], ReadLine(line), ReadsLine(line)
  PROVE  Reported(line)
<1>1. IsLine(line)
  BY AssemblerAssumption DEF Base, Shape
<1>2. CASE line.op = ".globals"
  BY <1>1, <1>2, SetGlobalsReported DEF ReadLine
<1>3. CASE line.op = ".exposereg"
  BY <1>1, <1>3, ExposeRegReported DEF ReadLine
<1>4. CASE line.op \in {".proc", ".expproc", ".declare"}
  <2>1. \/ line.op = ".proc" /\ Proc(line.name, line.n)
        \/ line.op = ".expproc" /\ ExposedProc(line.name, line.n, line.index)
        \/ line.op = ".declare" /\ Declare(line.name, line.index)
    BY <1>4 DEF ReadLine
  <2>. QED
    BY <2>1, ProcReported
<1>5. CASE line.op = "label"
  BY <1>1, <1>5, DefineLabelReported DEF ReadLine
<1>6. CASE line.op \notin Directives \cup {"label"}
  <2>1. Generate(line) \/ Refuse(line)
    BY <1>6 DEF ReadLine, Directives
  <2>2. Generate(line) => IsCode(line)
    BY <1>6 DEF Generate, Valid, IsCode
  <2>. QED
    BY <1>1, <2>1, <2>2, GenerateReported, RefuseReported
<1>. QED
  BY <1>2, <1>3, <1>4, <1>5, <1>6 DEF Directives

(* What is used is there in the end.                                       *)
UsesDefined ==
  /\ \A k \in Instructions : \A l \in Range(LabelsOf(Text(k))) : \E j \in Lines({"label"}) : Text(j) = Label(l)
  /\ \A k \in Instructions : \A name \in ProcsOf(Text(k)) : \E j \in Lines(Procedures) : Text(j).name = name
Errors ==
  /\ Tracked
  /\ errors = {} <=> RightSoFar /\ (phase = "done" => UsesDefined)

LEMMA UnknownUses ==
  ASSUME Base, Tracked
  PROVE  ~ Unknown(labels) /\ ~ Unknown(procs) <=> UsesDefined
<1>1. ~ Unknown(labels) <=>
        \A k \in Instructions : \A l \in Range(LabelsOf(Text(k))) : \E j \in Lines({"label"}) : Text(j) = Label(l)
  <2>1. ASSUME NEW l
        PROVE  (\E k \in Instructions : l \in Range(LabelsOf(Text(k)))) <=> l \in DOMAIN labels /\ labels[l].refs # {}
    <3>1. ASSUME NEW k \in Instructions, l \in Range(LabelsOf(Text(k)))
          PROVE  l \in DOMAIN labels /\ labels[l].refs # {}
      <4>1. l \in DOMAIN labels
        BY <3>1 DEF Base, Placed, Referred
      <4>2. PICK p \in DOMAIN LabelsOf(Text(k)) : LabelsOf(Text(k))[p] = l
        BY <3>1 DEF Range
      <4>3. LabelCell(l, source[k].at + p)
        BY <4>2 DEF LabelCell
      <4>. QED
        BY <4>1, <4>3 DEF Base, Placed, Referred
    <3>2. ASSUME l \in DOMAIN labels, labels[l].refs # {}
          PROVE  \E k \in Instructions : l \in Range(LabelsOf(Text(k)))
      <4>1. PICK i : i \in labels[l].refs
        BY <3>2
      <4>2. LabelCell(l, i)
        BY <3>2, <4>1 DEF Base, Placed, Referred
      <4>. QED
        BY <4>2 DEF LabelCell, Range
    <3>. QED
      BY <3>1, <3>2
  <2>2. \A l \in DOMAIN labels : labels[l].defined <=> \E j \in Lines({"label"}) : Text(j) = Label(l)
    BY DEF Tracked, LabelsTracked, LabelDefined, Read
  <2>3. \A l : (\E j \in Lines({"label"}) : Text(j) = Label(l)) => l \in DOMAIN labels
    BY DEF Tracked, LabelsTracked, LabelDefined, Read
  <2>. QED
    BY <2>1, <2>2, <2>3 DEF Unknown
<1>2. ~ Unknown(procs) <=>
        \A k \in Instructions : \A name \in ProcsOf(Text(k)) : \E j \in Lines(Procedures) : Text(j).name = name
  <2>1. \A name : (\E t \in Read(Procedures) : t.name = name) <=> \E j \in Lines(Procedures) : Text(j).name = name
    BY DEF Read
  <2>2. \A name : (\E t \in Read({"call"}) : t.to[1] = name) <=> \E k \in Instructions : name \in ProcsOf(Text(k))
    BY DEF Read, Instructions, Lines, ProcsOf, Text, Directives
  <2>3. \A name \in DOMAIN procs : procs[name].defined <=> \E j \in Lines(Procedures) : Text(j).name = name
    BY <2>1 DEF Tracked, ProcsTracked, Duplicate, Known
  <2>4. \A name : (\E k \in Instructions : name \in ProcsOf(Text(k))) => name \in DOMAIN procs
    BY <2>2 DEF Tracked, ProcsTracked
  <2>5. \A name \in DOMAIN procs : ~ procs[name].defined =>
          procs[name].refs # {} /\ \E k \in Instructions : name \in ProcsOf(Text(k))
    BY <2>2 DEF Tracked, ProcsTracked
  <2>. QED
    BY <2>3, <2>4, <2>5 DEF Unknown
<1>. QED
  BY <1>1, <1>2 DEF UsesDefined

LEMMA LineGlobals ==
  ASSUME Base, NEW line \in Dialect[dialect], ReadLine(line)
  PROVE  /\ (phase = "headers" /\ ~ IsCode(line)) \/ UNCHANGED globals
         /\ IsCode(line) => UNCHANGED locals
<1>1. \/ line.op = ".globals" /\ SetGlobals(line.n)
      \/ line.op \in Directives /\ UNCHANGED globals
      \/ UNCHANGED <<globals, locals>>
  BY DEF ReadLine, ExposeReg, Proc, ExposedProc, Declare, DefineLabel, Generate, Refuse, Directive, Code, Directives
<1>. QED
  BY <1>1 DEF SetGlobals, IsCode, Directives

(* The rest of the assembler leaves the lines and the trees as they are.   *)
LEMMA KeptTracked ==
  ASSUME Base, Tracked, UNCHANGED <<read, procs, externs, globals, extern_regs>>,
         \A l : LabelDefined(l)' <=> LabelDefined(l), errors \subseteq errors'
  PROVE  Tracked' /\ (RightSoFar' <=> RightSoFar) /\ (UsesDefined' <=> UsesDefined)
<1>1. source' = source
  BY DEF read
<1>2. (\A ops : Lines(ops)' = Lines(ops) /\ Read(ops)' = Read(ops)) /\ (\A k : Text(k)' = Text(k))
      /\ Instructions' = Instructions
  BY <1>1 DEF Lines, Read, Text, Instructions
<1>3. RightSoFar' <=> RightSoFar
  BY <1>1, <1>2 DEF RightSoFar, LabelsOnce, ProceduresOnce, SameName, IndicesOnce, GlobalsExposedOnce, GlobalsOnce,
     GlobalsThere, RegistersThere, InRange, AllValid, Exposing, Procedures
<1>4. UsesDefined' <=> UsesDefined
  BY <1>2 DEF UsesDefined, Procedures
<1>5. LabelsTracked'
  BY <1>2 DEF Tracked, LabelsTracked
<1>6. ProcsTracked'
  BY <1>2 DEF Tracked, ProcsTracked, Duplicate, Known, Procedures
<1>7. errors' = {} => errors = {}
  OBVIOUS
<1>8. ExternsTracked' /\ GlobalsTracked'
  BY <1>2, <1>7 DEF Tracked, ExternsTracked, GlobalsTracked, Exposing
<1>. QED
  BY <1>3, <1>4, <1>5, <1>6, <1>8 DEF Tracked

LEMMA KeptErrors ==
  ASSUME Base, Errors, UNCHANGED <<read, procs, externs, globals, extern_regs, errors>>,
         \A l : LabelDefined(l)' <=> LabelDefined(l), phase' = "done" <=> phase = "done"
  PROVE  Errors'
<1>1. Tracked' /\ (RightSoFar' <=> RightSoFar) /\ (UsesDefined' <=> UsesDefined)
  BY KeptTracked DEF Errors
<1>. QED
  BY <1>1, SMT DEF Errors

LEMMA BackpatchErrors ==
  ASSUME Base, Errors, Backpatch
  PROVE  Errors'
<1>1. /\ UNCHANGED <<read, procs, externs, globals, extern_regs, labels>>
      /\ phase = "backpatch" /\ phase' = "done"
      /\ errors' = errors \cup If(Unknown(procs), "unknown procedure") \cup If(Unknown(labels), "unknown label")
  BY DEF Backpatch, symbols, Report
<1>2. errors \subseteq errors' /\ (errors' = {} <=> errors = {} /\ ~ Unknown(procs) /\ ~ Unknown(labels))
  BY <1>1 DEF If
<1>3. \A l : LabelDefined(l)' <=> LabelDefined(l)
  BY <1>1 DEF LabelDefined
<1>4. Tracked' /\ (RightSoFar' <=> RightSoFar) /\ (UsesDefined' <=> UsesDefined)
  BY <1>1, <1>2, <1>3, KeptTracked DEF Errors
<1>5. ~ Unknown(labels) /\ ~ Unknown(procs) <=> UsesDefined
  BY UnknownUses DEF Errors
<1>6. errors = {} <=> RightSoFar
  BY <1>1 DEF Errors
<1>7. errors' = {} <=> RightSoFar' /\ UsesDefined'
  BY <1>2, <1>4, <1>5, <1>6
<1>. QED
  BY <1>1, <1>4, <1>7 DEF Errors

LEMMA NextErrors == Base /\ Errors /\ [Next]_vars => Errors'
<1> SUFFICES ASSUME Base, Errors, [Next]_vars PROVE Errors'
  OBVIOUS
<1>1. CASE ReadStep
  <2>1. PICK line \in Dialect[dialect] : ReadLine(line) /\ ReadsLine(line)
    BY <1>1 DEF ReadStep, ReadsLine
  <2>2. phase # "done" /\ phase' # "done"
    BY <2>1, ReadPhase
  <2>3. Tracked /\ (errors = {} <=> RightSoFar)
    BY <2>2 DEF Errors
  <2>4. Reported(line)
    BY <2>1, <2>3, LineReported
  <2>5. RightSoFar' <=> RightSoFar /\ RightLine(line)
    <3>1. /\ (phase = "headers" /\ ~ IsCode(line)) \/ UNCHANGED globals
          /\ IsCode(line) => UNCHANGED locals
      BY <2>1, LineGlobals
    <3>. QED
      BY <2>1, <3>1, RightGrows
  <2>6. errors' = {} <=> RightSoFar'
    BY <2>3, <2>4, <2>5 DEF Reported
  <2>. QED
    BY <2>2, <2>4, <2>6 DEF Errors, Reported
<1>2. CASE Crash
  <2>1. UNCHANGED <<read, procs, externs, globals, extern_regs, errors, labels>> /\ phase' # "done" /\ phase # "done"
    BY <1>2 DEF Crash, ExposeNoReg, symbols
  <2>. QED
    BY <2>1, KeptErrors DEF LabelDefined
<1>3. CASE End
  <2>1. UNCHANGED <<read, procs, externs, globals, extern_regs, errors, labels>> /\ phase' # "done" /\ phase # "done"
    BY <1>3 DEF End, symbols
  <2>. QED
    BY <2>1, KeptErrors DEF LabelDefined
<1>4. CASE \E l \in todo : OptimiseLabel(l)
  <2>1. PICK l \in todo : OptimiseLabel(l)
    BY <1>4
  <2>2. UNCHANGED <<read, procs, externs, globals, extern_regs, errors, phase>>
    BY <2>1 DEF OptimiseLabel, symbols
  <2>3. \A x : LabelDefined(x)' <=> LabelDefined(x)
    BY <2>1, OptimiseLabelKeeps DEF LabelDefined
  <2>. QED
    BY <2>2, <2>3, KeptErrors
<1>5. CASE EndRound
  <2>1. UNCHANGED <<read, procs, externs, globals, extern_regs, errors, labels>> /\ phase' # "done" /\ phase # "done"
    BY <1>5 DEF EndRound, symbols
  <2>. QED
    BY <2>1, KeptErrors DEF LabelDefined
<1>6. CASE Backpatch
  BY <1>6, BackpatchErrors
<1>7. CASE UNCHANGED vars
  <2>1. UNCHANGED <<read, procs, externs, globals, extern_regs, errors, labels, phase>>
    BY <1>7 DEF vars, symbols
  <2>. QED
    BY <2>1, KeptErrors DEF LabelDefined
<1>. QED
  BY <1>1, <1>2, <1>3, <1>4, <1>5, <1>6, <1>7 DEF Next, BackpatchStep

LEMMA InitErrors == Init => Errors
<1> SUFFICES ASSUME Init PROVE Errors
  OBVIOUS
<1>1. source = << >> /\ DOMAIN source = {} /\ labels = << >> /\ DOMAIN labels = {} /\ procs = << >>
      /\ DOMAIN procs = {} /\ externs = {} /\ globals = 0 /\ extern_regs = {} /\ errors = {} /\ phase = "headers"
  BY DEF Init
<1>2. Instructions = {} /\ \A ops : Lines(ops) = {} /\ Read(ops) = {}
  BY <1>1 DEF Instructions, Lines, Read
<1>3. RightSoFar
  BY <1>2 DEF RightSoFar, LabelsOnce, ProceduresOnce, IndicesOnce, GlobalsExposedOnce, GlobalsOnce,
     GlobalsThere, RegistersThere, AllValid
<1>4. Tracked
  BY <1>1, <1>2 DEF Tracked, LabelsTracked, ProcsTracked, ExternsTracked, GlobalsTracked, LabelDefined, Duplicate, Known
<1>. QED
  BY <1>1, <1>3, <1>4 DEF Errors

LEMMA ErrorsAlways == Spec => [](Base /\ Errors)
<1>. QED
  BY InitErrors, NextErrors, Placement, PTL DEF Spec

(* A module is assembled without an error exactly if each label, procedure *)
(* and register that its lines use is there, and is there once, whatever   *)
(* their order: no check at a line or at the end misses or adds an error.  *)
THEOREM ErrorsAreReported == Spec => []ReportsErrors
<1>1. Errors => ReportsErrors
  <2> SUFFICES ASSUME Errors, phase = "done"
               PROVE  errors = {} <=> /\ LabelsRight /\ ProceduresRight /\ ExposedRight /\ RegistersRight
                                      /\ Lines({"invalid"}) = {}
    BY DEF ReportsErrors
  <2>1. errors = {} <=> RightSoFar /\ UsesDefined
    BY DEF Errors
  <2>2. LabelsRight /\ ProceduresRight <=> LabelsOnce /\ ProceduresOnce /\ UsesDefined
    BY DEF LabelsRight, ProceduresRight, LabelsOnce, ProceduresOnce, UsesDefined
  <2>3. ExposedRight <=> IndicesOnce /\ GlobalsExposedOnce
    BY DEF ExposedRight, IndicesOnce, GlobalsExposedOnce, Exposing
  <2>4. RegistersRight <=> GlobalsOnce /\ GlobalsThere /\ RegistersThere
    BY DEF RegistersRight, GlobalsOnce, GlobalsThere, RegistersThere, InRange
  <2>. QED
    BY <2>1, <2>2, <2>3, <2>4 DEF RightSoFar, AllValid
<1>. QED
  BY <1>1, ErrorsAlways, PTL

(* The cell of a register operand is in the part of the frame that its     *)
(* type names, as it was when its procedure was read.                      *)
THEOREM OperandsPlaced == Spec => []OperandsInFrame
<1>1. Base /\ Errors => OperandsInFrame
  <2> SUFFICES ASSUME Base, Errors, Assembled, NEW k \in Instructions, NEW p \in DOMAIN Operands(Text(k)),
                      IsRegister(Text(k), p)
               PROVE  LET r == Operands(Text(k))[p]
                          v == Cell(source[k].at + p).value
                          top == source[k].locals + globals
                      IN  CASE r.type = "r" -> v = r.num /\ v < source[k].locals
                            [] r.type = "g" -> v \in source[k].locals .. top - 1
                            [] OTHER        -> v >= top
    BY DEF OperandsInFrame
  <2> DEFINE r == Operands(Text(k))[p]
             v == Cell(source[k].at + p).value
             n == source[k].locals
  <2>1. r \in AnyRegister /\ r \in Range(Text(k).regs)
    BY Instruction, CodeLine DEF Base
  <2>2. n \in Nat /\ globals \in Nat
    BY Instruction DEF Base, Shape
  <2>3. v = Place(r, n)
    BY DEF Base, Placed, Operated
  <2>4. InRange(r, n)
    BY <2>1 DEF Errors, Assembled, RightSoFar, RegistersThere
  <2>5. r.num \in Nat /\ r.type \in {"r", "g", "a"}
    BY <2>1 DEF AnyRegister
  <2> HIDE DEF r, v, n
  <2>6. CASE r.type = "r"
    <3>1. v = r.num /\ v < n
      BY <2>3, <2>4, <2>6 DEF Place, InRange
    <3>. QED
      BY <2>6, <3>1 DEF r, v, n
  <2>7. CASE r.type = "g"
    <3>1. v = r.num + n /\ r.num < globals
      BY <2>3, <2>4, <2>7 DEF Place, InRange
    <3>2. v \in n .. (n + globals) - 1 /\ r.type # "r"
      BY <2>2, <2>5, <2>7, <3>1
    <3>. QED
      BY <2>2, <2>7, <3>2 DEF r, v, n
  <2>8. CASE r.type = "a"
    <3>1. v = r.num + n + globals
      BY <2>3, <2>8 DEF Place
    <3>2. v >= n + globals
      BY <2>2, <2>5, <3>1
    <3>. QED
      BY <2>8, <3>2 DEF r, v, n
  <2>. QED
    BY <2>5, <2>6, <2>7, <2>8
<1>. QED
  BY <1>1, ErrorsAlways, PTL

-----------------------------------------------------------------------------
(* Where a branch arrives.  This needs the orbit of a point under a        *)
(* function; a predicate over the numbers is the set of the numbers that   *)
(* satisfy it, so that an induction over them is a statement about sets.   *)

LEMMA SetInduction ==
  ASSUME NEW T, 0 \in T, \A n \in T \cap Nat : n + 1 \in T
  PROVE  Nat \subseteq T
<1> SUFFICES ASSUME NEW m \in Nat, m \notin T PROVE FALSE
  OBVIOUS
<1> DEFINE U == Nat \ T
<1>1. IsWellFoundedOn(OpToRel(<, Nat), Nat)
  BY NatLessThanWellFounded
<1>2. U \subseteq Nat /\ U # {}
  OBVIOUS
<1>3. \E x \in U : \A y \in U : ~ (<<y, x>> \in OpToRel(<, Nat))
  BY <1>1, <1>2, WFMin
<1>4. PICK x \in U : \A y \in U : ~ (<<y, x>> \in OpToRel(<, Nat))
  BY <1>3
<1>5. \A y \in U : ~ (y < x)
  BY <1>2, <1>4 DEF OpToRel
<1>6. x \in Nat /\ x # 0
  OBVIOUS
<1>7. x - 1 \in Nat /\ x - 1 < x /\ (x - 1) + 1 = x
  BY <1>6
<1>8. x - 1 \in T
  BY <1>5, <1>7
<1>9. (x - 1) + 1 \in T
  BY <1>7, <1>8
<1>. QED
  BY <1>7, <1>9

(* On from n to N: what holds at n, and goes over to the next.             *)
LEMMA Upwards ==
  ASSUME NEW T, NEW n \in Nat, NEW N \in Nat, n <= N, n \in T,
         \A m \in n .. N - 1 : m \in T => m + 1 \in T
  PROVE  N \in T
<1> DEFINE U == {m \in Nat : n + m <= N => n + m \in T}
<1>1. 0 \in U
  OBVIOUS
<1>2. ASSUME NEW m \in U \cap Nat
      PROVE  m + 1 \in U
  <2>1. CASE n + (m + 1) <= N
    <3>1. n + m \in n .. N - 1 /\ n + m \in T
      BY <2>1
    <3>2. (n + m) + 1 \in T /\ (n + m) + 1 = n + (m + 1)
      BY <3>1
    <3>. QED
      BY <3>2
  <2>2. CASE ~ (n + (m + 1) <= N)
    BY <2>2
  <2>. QED
    BY <2>1, <2>2
<1> HIDE DEF U
<1>3. Nat \subseteq U
  BY <1>1, <1>2, SetInduction
<1>4. N - n \in Nat /\ n + (N - n) = N
  OBVIOUS
<1>5. N - n \in U
  BY <1>3, <1>4
<1>. QED
  BY <1>4, <1>5 DEF U

IsPath(on, f, N) == \A n \in 1 .. N : on[n] = f[on[n - 1]]

(* A path can be followed as far as one likes.                             *)
LEMMA Iterates ==
  ASSUME NEW S, NEW f \in [S -> S], NEW s \in S, NEW N \in Nat
  PROVE  \E on \in [0 .. N -> S] : on[0] = s /\ IsPath(on, f, N)
<1> DEFINE T == {n \in Nat : \E on \in [0 .. n -> S] : on[0] = s /\ IsPath(on, f, n)}
<1>1. 0 \in T
  <2>1. [k \in 0 .. 0 |-> s] \in [0 .. 0 -> S] /\ [k \in 0 .. 0 |-> s][0] = s
    OBVIOUS
  <2>2. IsPath([k \in 0 .. 0 |-> s], f, 0)
    BY DEF IsPath
  <2>. QED
    BY <2>1, <2>2
<1>2. ASSUME NEW n \in T \cap Nat
      PROVE  n + 1 \in T
  <2>1. PICK on \in [0 .. n -> S] : on[0] = s /\ IsPath(on, f, n)
    OBVIOUS
  <2> DEFINE more == [k \in 0 .. n + 1 |-> IF k = n + 1 THEN f[on[n]] ELSE on[k]]
  <2>2. on[n] \in S /\ f[on[n]] \in S
    OBVIOUS
  <2>3. more \in [0 .. n + 1 -> S]
    BY <2>2
  <2>4. more[0] = s /\ more[n + 1] = f[on[n]] /\ \A k \in 0 .. n : more[k] = on[k]
    BY <2>1
  <2> HIDE DEF more
  <2>5. ASSUME NEW k \in 1 .. n + 1
        PROVE  more[k] = f[more[k - 1]]
    <3>1. k - 1 \in 0 .. n /\ more[k - 1] = on[k - 1]
      BY <2>4
    <3>2. CASE k = n + 1
      BY <2>4, <3>1, <3>2
    <3>3. CASE k # n + 1
      <4>1. k \in 1 .. n /\ k \in 0 .. n
        BY <3>3
      <4>. QED
        BY <2>1, <2>4, <3>1, <4>1 DEF IsPath
    <3>. QED
      BY <3>2, <3>3
  <2>. QED
    BY <2>3, <2>4, <2>5 DEF IsPath
<1> HIDE DEF T
<1>3. N \in T
  BY <1>1, <1>2, SetInduction
<1>. QED
  BY <1>3 DEF T

(* A path that meets a fixed point stays there.                            *)
LEMMA StaysThere ==
  ASSUME NEW S, NEW f \in [S -> S], NEW N \in Nat, NEW on \in [0 .. N -> S], IsPath(on, f, N),
         NEW n \in 0 .. N, f[on[n]] = on[n]
  PROVE  on[N] = on[n]
<1> DEFINE T == {m \in Nat : m <= N /\ on[m] = on[n]}
<1>1. n \in T /\ n <= N
  OBVIOUS
<1>2. ASSUME NEW m \in n .. N - 1, m \in T
      PROVE  m + 1 \in T
  <2>1. m + 1 \in 1 .. N /\ (m + 1) - 1 = m /\ on[m] = on[n]
    BY <1>2
  <2>2. on[m + 1] = f[on[m]]
    BY <2>1 DEF IsPath
  <2>. QED
    BY <2>1, <2>2
<1> HIDE DEF T
<1>3. N \in T
  BY <1>1, <1>2, Upwards
<1>. QED
  BY <1>3 DEF T

(* More steps than points: one point is met twice.                         *)
LEMMA Repeats ==
  ASSUME NEW N \in Nat, NEW S, IsFiniteSet(S), Cardinality(S) <= N, NEW on \in [0 .. N -> S]
  PROVE  \E i, j \in 0 .. N : i < j /\ on[i] = on[j]
<1> DEFINE D == 0 .. N
<1>1. IsFiniteSet(D) /\ Cardinality(D) = N + 1
  BY FS_Interval
<1>2. Cardinality(S) \in Nat
  BY FS_CardinalityType
<1>3. Cardinality(S) < Cardinality(D)
  BY <1>1, <1>2
<1>4. on \in [D -> S]
  OBVIOUS
<1> HIDE DEF D
<1>5. \E i, j \in D : i # j /\ on[i] = on[j]
  BY <1>1, <1>3, <1>4, FS_PigeonHole
<1>6. PICK i \in D, j \in D : i # j /\ on[i] = on[j]
  BY <1>5
<1>7. i \in 0 .. N /\ j \in 0 .. N /\ (i < j \/ j < i)
  BY <1>6 DEF D
<1>. QED
  BY <1>6, <1>7

(* What a path meets if it goes on for ever, it meets within as many steps *)
(* as there are points: it repeats itself behind them.  A fixed point is   *)
(* met at the end.                                                         *)
Meets(i, x, f, S) == \A O \in SUBSET S : i \in O /\ (\A j \in O : f[j] \in O) => x \in O
LEMMA Arrives ==
  ASSUME NEW N \in Nat, NEW S, IsFiniteSet(S), Cardinality(S) = N + 1, NEW f \in [S -> S],
         NEW on \in [0 .. N -> S], IsPath(on, f, N), NEW x \in S, f[x] = x, Meets(on[0], x, f, S)
  PROVE  on[N] = x
<1>1. CASE \E k \in 0 .. N : on[k] = x
  <2>1. PICK k \in 0 .. N : on[k] = x
    BY <1>1
  <2>2. f[on[k]] = on[k]
    BY <2>1
  <2>. QED
    BY <2>1, <2>2, StaysThere
<1>2. CASE \A k \in 0 .. N : on[k] # x
  <2> DEFINE R == S \ {x}
  <2>1. IsFiniteSet(R) /\ Cardinality(R) = N
    <3>1. Cardinality(R) = Cardinality(S) - 1 /\ IsFiniteSet(R)
      BY FS_RemoveElement
    <3>. QED
      BY <3>1
  <2>2. on \in [0 .. N -> R]
    BY <1>2
  <2> HIDE DEF R
  <2>3. \E i, j \in 0 .. N : i < j /\ on[i] = on[j]
    BY <2>1, <2>2, Repeats
  <2>4. PICK i \in 0 .. N, j \in 0 .. N : i < j /\ on[i] = on[j]
    BY <2>3
  <2> DEFINE O == {on[k] : k \in 0 .. j - 1}
  <2>5. \A k \in 0 .. j - 1 : k \in 0 .. N /\ k + 1 \in 1 .. N /\ k + 1 \in 0 .. N /\ (k + 1) - 1 = k
    BY <2>4
  <2>6. 0 \in 0 .. j - 1 /\ i \in 0 .. j - 1
    BY <2>4
  <2>7. O \in SUBSET S
    BY <2>5
  <2>8. ASSUME NEW y \in O PROVE f[y] \in O
    <3>1. PICK k \in 0 .. j - 1 : y = on[k]
      OBVIOUS
    <3>2. on[k + 1] = f[y]
      BY <2>5, <3>1 DEF IsPath
    <3>3. CASE k + 1 = j
      BY <2>4, <2>6, <3>2, <3>3
    <3>4. CASE k + 1 # j
      <4>1. k + 1 \in 0 .. j - 1
        BY <2>4, <3>4
      <4>. QED
        BY <3>2, <4>1
    <3>. QED
      BY <3>3, <3>4
  <2>9. on[0] \in O
    BY <2>6
  <2>10. x \notin O
    BY <1>2, <2>5
  <2> HIDE DEF O
  <2>. QED
    BY <2>7, <2>8, <2>9, <2>10 DEF Meets
<1>. QED
  BY <1>1, <1>2

-----------------------------------------------------------------------------
(* The destination of a cell                                               *)

GoesOn(f, S) == f \in [S -> S] /\ \A j \in S : f[j] = Onward(j)
PathTo(i, f, S, N) == \E on \in [0 .. N -> S] : on[0] = i /\ IsPath(on, f, N) /\ Destination(i) = on[N]

LEMMA DestinationIsPath ==
  ASSUME NEW N \in Nat, N = Cells, NEW S, NEW f, GoesOn(f, S), NEW i \in S
  PROVE  PathTo(i, f, S, N)
<1> DEFINE Follows(p) == p = [n \in 0 .. N |-> IF n = 0 THEN i ELSE Onward(p[n - 1])]
<1>1. f \in [S -> S] /\ \A j \in S : f[j] = Onward(j)
  BY DEF GoesOn
<1>2. PICK on \in [0 .. N -> S] : on[0] = i /\ IsPath(on, f, N)
  BY <1>1, Iterates
<1>3. Destination(i) = (CHOOSE p : Follows(p))[N]
  BY DEF Destination
<1>4. Follows(on)
  BY <1>1, <1>2 DEF IsPath
<1> DEFINE p == CHOOSE p : Follows(p)
<1>5. p = [n \in 0 .. N |-> IF n = 0 THEN i ELSE Onward(p[n - 1])]
  BY <1>4
<1> HIDE DEF p
<1>6. p[0] = i /\ \A n \in 1 .. N : p[n] = Onward(p[n - 1])
  BY <1>5
<1> DEFINE T == {n \in Nat : n <= N => p[n] \in S}
<1>7. 0 \in T
  BY <1>6
<1>8. ASSUME NEW n \in T \cap Nat PROVE n + 1 \in T
  <2>1. CASE n + 1 <= N
    <3>1. n + 1 \in 1 .. N /\ (n + 1) - 1 = n /\ p[n] \in S
      BY <2>1
    <3>2. p[n + 1] = Onward(p[n])
      BY <1>6, <3>1
    <3>. QED
      BY <1>1, <3>1, <3>2
  <2>2. CASE ~ (n + 1 <= N)
    BY <2>2
  <2>. QED
    BY <2>1, <2>2
<1> HIDE DEF T
<1>9. Nat \subseteq T
  BY <1>7, <1>8, SetInduction
<1>10. \A n \in 0 .. N : p[n] \in S
  BY <1>9 DEF T
<1>11. p \in [0 .. N -> S]
  BY <1>5, <1>10
<1>12. IsPath(p, f, N)
  <2>1. ASSUME NEW n \in 1 .. N PROVE p[n] = f[p[n - 1]]
    <3>1. n - 1 \in 0 .. N
      OBVIOUS
    <3>. QED
      BY <1>1, <1>6, <1>10, <3>1
  <2>. QED
    BY <2>1 DEF IsPath
<1>13. Destination(i) = p[N]
  BY <1>3 DEF p
<1>. QED
  BY <1>6, <1>11, <1>12, <1>13 DEF PathTo

(* The cells that a branch to i comes along have closed sets around them.  *)
Closed(O) == O \subseteq 0 .. Cells /\ \A j \in O : Onward(j) \in O

LEMMA SameDestination ==
  ASSUME Cells \in Nat, Closed(0 .. Cells), NEW i \in 0 .. Cells, NEW y \in 0 .. Cells, Onward(y) = y,
         \A O \in SUBSET (0 .. Cells) : Closed(O) /\ i \in O => y \in O
  PROVE  Destination(i) = y
<1>1. PICK N, S, f : /\ N \in Nat /\ N = Cells /\ S = 0 .. N /\ f \in [S -> S]
                     /\ \A j \in S : f[j] = Onward(j)
  <2> DEFINE S == 0 .. Cells
             f == [j \in S |-> Onward(j)]
  <2>1. f \in [S -> S] /\ \A j \in S : f[j] = Onward(j)
    BY DEF Closed
  <2> HIDE DEF f
  <2>. QED
    BY <2>1
<1>2. IsFiniteSet(0 .. N) /\ Cardinality(0 .. N) = N + 1
  BY <1>1, FS_Interval
<1>3. i \in S /\ y \in S /\ f[y] = y /\ \A O \in SUBSET S : Closed(O) /\ i \in O => y \in O
  BY <1>1
<1>4. \A O \in SUBSET S : (\A j \in O : f[j] \in O) => Closed(O)
  BY <1>1 DEF Closed
<1>5. PathTo(i, f, S, N)
  <2>1. N \in Nat /\ N = Cells /\ GoesOn(f, S) /\ i \in S
    BY <1>1, <1>3 DEF GoesOn
  <2>. QED
    BY <2>1, DestinationIsPath
<1>6. PICK on \in [0 .. N -> S] : on[0] = i /\ IsPath(on, f, N) /\ Destination(i) = on[N]
  BY <1>5 DEF PathTo
<1>7. Meets(on[0], y, f, S)
  BY <1>3, <1>4, <1>6 DEF Meets
<1>8. IsFiniteSet(S) /\ Cardinality(S) = N + 1
  BY <1>1, <1>2
<1>9. on[N] = y
  <2>1. /\ N \in Nat /\ f \in [S -> S] /\ on \in [0 .. N -> S] /\ IsPath(on, f, N) /\ y \in S /\ f[y] = y
    BY <1>1, <1>3, <1>6
  <2>. QED
    BY <1>7, <1>8, <2>1, Arrives
<1>. QED
  BY <1>6, <1>9

-----------------------------------------------------------------------------
(* Branches and labels                                                     *)

(* There is a branch at a cell exactly if the line of a branch put it      *)
(* there, and it refers to one label.                                      *)
LEMMA BranchNames ==
  ASSUME Base, NEW i \in Nat
  PROVE  /\ IsBr(i) <=> BranchLine(i) # {}
         /\ BranchLine(i) # {} => Named(i) \in DOMAIN labels /\ PatchOf(i) = {Named(i)}
<1>1. Shape /\ Placed
  BY DEF Base
<1>2. ASSUME NEW k \in BranchLine(i)
      PROVE  /\ k \in Instructions /\ source[k].at = i /\ Text(k).op = "br"
             /\ LabelsOf(Text(k)) = Text(k).to /\ DOMAIN LabelsOf(Text(k)) = {1}
             /\ i \in 0 .. Cells - 1 /\ BranchLine(i) = {k}
  <2>1. k \in Instructions /\ source[k].at = i /\ Text(k).op = "br"
    BY DEF BranchLine, Lines, Instructions, Text, Directives
  <2>2. IsInstruction(Text(k)) /\ DOMAIN LabelsOf(Text(k)) = 1 .. Len(LabelsOf(Text(k)))
    <3>1. IsLine(Text(k)) /\ IsCode(Text(k))
      BY <1>1, <2>1, Instruction
    <3>. QED
      BY <3>1, CodeLine DEF IsLine, IsCode, Directives
  <2>3. LabelsOf(Text(k)) = Text(k).to /\ DOMAIN LabelsOf(Text(k)) = {1}
    BY <2>1, <2>2 DEF LabelsOf, IsInstruction
  <2>4. \A j \in Instructions : 0 \in 0 .. Len(Operands(Text(j))) /\ source[j].at + 0 = source[j].at
    BY <1>1, Instruction
  <2>5. i \in 0 .. Cells - 1
    BY <1>1, <2>1, <2>4, Apart
  <2>6. ASSUME NEW j \in BranchLine(i) PROVE j = k
    <3>1. j \in Instructions /\ source[j].at = i
      BY DEF BranchLine, Lines, Instructions, Text, Directives
    <3>. QED
      BY <1>1, <2>1, <2>4, <3>1, Apart
  <2>. QED
    BY <2>1, <2>3, <2>5, <2>6
<1>3. ASSUME NEW k \in BranchLine(i)
      PROVE  IsBr(i) /\ Named(i) \in DOMAIN labels /\ PatchOf(i) = {Named(i)}
  <2>1. /\ k \in Instructions /\ source[k].at = i /\ Text(k).op = "br"
        /\ LabelsOf(Text(k)) = Text(k).to /\ DOMAIN LabelsOf(Text(k)) = {1}
        /\ i \in 0 .. Cells - 1 /\ BranchLine(i) = {k}
    BY <1>2
  <2>2. IsBr(i)
    <3>1. Cell(i) = [op |-> "br"]
      BY <1>1, <2>1 DEF Placed, Coded
    <3>2. i < Cells
      BY <1>1, <2>1 DEF Shape, IsList, Cells
    <3>. QED
      BY <3>1, <3>2 DEF IsBr
  <2>3. Named(i) = LabelsOf(Text(k))[1]
    BY <2>1 DEF Named
  <2>4. Named(i) \in DOMAIN labels
    BY <1>1, <2>1, <2>3 DEF Placed, Referred, Range
  <2>5. ASSUME NEW l \in DOMAIN labels
        PROVE  i + 1 \in labels[l].refs <=> l = Named(i)
    <3>1. i + 1 \in labels[l].refs <=> LabelCell(l, i + 1)
      BY <1>1 DEF Placed, Referred
    <3>2. ASSUME LabelCell(l, i + 1) PROVE l = Named(i)
      <4>1. PICK j \in Instructions : \E p \in DOMAIN LabelsOf(Text(j)) :
              i + 1 = source[j].at + p /\ LabelsOf(Text(j))[p] = l
        BY <3>2 DEF LabelCell
      <4>2. PICK p \in DOMAIN LabelsOf(Text(j)) : i + 1 = source[j].at + p /\ LabelsOf(Text(j))[p] = l
        BY <4>1
      <4>3. p \in 0 .. Len(Operands(Text(j)))
        BY <1>1, Instruction, CodeLine
      <4>4. 1 \in 0 .. Len(Operands(Text(k)))
        <5>1. IsLine(Text(k)) /\ IsCode(Text(k)) /\ 1 \in DOMAIN LabelsOf(Text(k))
          BY <1>1, <2>1, Instruction
        <5>2. 1 \in DOMAIN Operands(Text(k))
          BY <5>1, CodeLine
        <5>3. DOMAIN Operands(Text(k)) = 1 .. Len(Operands(Text(k))) /\ Len(Operands(Text(k))) \in Nat
          BY <1>1, <2>1, Instruction
        <5>. QED
          BY <5>2, <5>3
      <4>5. j = k /\ p = 1
        BY <1>1, <2>1, <4>2, <4>3, <4>4, Apart
      <4>. QED
        BY <2>3, <4>2, <4>5
    <3>3. LabelCell(Named(i), i + 1)
      BY <2>1, <2>3 DEF LabelCell
    <3>. QED
      BY <3>1, <3>2, <3>3
  <2>. QED
    BY <2>2, <2>4, <2>5 DEF PatchOf
<1>4. ASSUME IsBr(i) PROVE BranchLine(i) # {}
  <2>1. i \in 0 .. Cells - 1 /\ Cell(i) = [op |-> "br"]
    BY <1>1, <1>4 DEF IsBr, Shape, IsList, Cells
  <2>2. PICK k \in Instructions : i \in source[k].at .. source[k].at + Len(Operands(Text(k)))
    BY <1>1, <2>1 DEF Placed, Covered
  <2>3. /\ source[k].at \in Nat /\ Len(Operands(Text(k))) \in Nat
        /\ DOMAIN Operands(Text(k)) = 1 .. Len(Operands(Text(k)))
    BY <1>1, Instruction
  <2>4. CASE i # source[k].at
    <3> DEFINE p == i - source[k].at
    <3>1. p \in DOMAIN Operands(Text(k)) /\ source[k].at + p = i
      BY <2>2, <2>3, <2>4
    <3> HIDE DEF p
    <3>2. DOMAIN Cell(i) = {"value"}
      BY <1>1, <3>1 DEF Placed, Operated
    <3>. QED
      BY <2>1, <3>2
  <2>5. CASE i = source[k].at
    <3>1. Cell(i) = [op |-> Text(k).op]
      BY <1>1, <2>5 DEF Placed, Coded
    <3>2. Text(k).op = "br"
      BY <2>1, <3>1
    <3>. QED
      BY <2>5, <3>2 DEF BranchLine, Lines, Instructions, Text
  <2>. QED
    BY <2>4, <2>5
<1>. QED
  BY <1>3, <1>4

(* A label that is defined once has its line.                              *)
LEMMA DefinedThere ==
  ASSUME Base, Tracked, LabelsOnce, NEW l, LabelDefined(l)
  PROVE  \E k \in Lines({"label"}) :
           Text(k) = Label(l) /\ DefinedAt(l) = source[k].at /\ DefinedAt(l) \in 0 .. Cells
<1>1. PICK k \in Lines({"label"}) : Text(k) = Label(l)
  BY DEF Tracked, LabelsTracked, Read
<1>2. \A j \in Lines({"label"}) : Text(j) = Label(l) => j = k
  BY <1>1 DEF LabelsOnce
<1>3. (CHOOSE j \in Lines({"label"}) : Text(j) = Label(l)) = k
  BY <1>1, <1>2
<1>4. k \in DOMAIN source /\ source[k].at \in Nat /\ source[k].at + Size(Text(k)) <= Cells /\ Cells \in Nat
  BY DEF Lines, Base, Shape, Placed, Layout, IsList, Cells
<1>5. Size(Text(k)) = 0
  BY DEF Size, IsCode, Lines, Text
<1>6. source[k].at \in 0 .. Cells
  BY <1>4, <1>5
<1>. QED
  BY <1>1, <1>3, <1>6 DEF DefinedAt

-----------------------------------------------------------------------------
(* The inductive invariant                                                 *)

(* Before optimise_labels a label has the cell of its line.  A move takes  *)
(* it on along the branches, and never off a closed set.  In a ring of     *)
(* branches a move puts one label where another one is.                    *)
Straight ==
  \A l \in DOMAIN labels : labels[l].defined =>
    \A k \in Lines({"label"}) : Text(k) = Label(l) => labels[l].index = source[k].at
Along(O) == \A l \in DOMAIN labels : labels[l].defined /\ DefinedAt(l) \in O => labels[l].index \in O
Ring(O) == Closed(O) /\ \A j \in O : BranchLine(j) # {} /\ LabelDefined(Named(j))
InPlace(O) == \A j \in O : labels[Named(j)].index = DefinedAt(Named(j))
Tangled(O) == \E i, j \in O : Named(i) # Named(j) /\ labels[Named(i)].index = labels[Named(j)].index
Moved ==
  /\ \A O : Closed(O) => Along(O)
  /\ \A O : Ring(O) => InPlace(O) \/ Tangled(O)
Paths ==
  /\ phase = "labels" => optimise
  /\ LabelsOnce => Straight \/ (phase \in {"labels", "backpatch", "done"} /\ optimise /\ Moved)

LEMMA StraightMoved ==
  ASSUME Base, Tracked, LabelsOnce, Straight
  PROVE  Moved
<1>1. ASSUME NEW l, LabelDefined(l)
      PROVE  labels[l].index = DefinedAt(l)
  BY <1>1, DefinedThere DEF Straight, LabelDefined
<1>2. ASSUME NEW O, Closed(O) PROVE Along(O)
  BY <1>1 DEF Along, LabelDefined
<1>3. ASSUME NEW O, Ring(O) PROVE InPlace(O)
  BY <1>1, <1>3 DEF Ring, InPlace
<1>. QED
  BY <1>2, <1>3 DEF Moved

(* What a line does to the labels that are defined.                        *)
LEMMA ReadLabels ==
  ASSUME Base, NEW line \in Dialect[dialect], ReadLine(line), NEW l \in DOMAIN labels', labels'[l].defined
  PROVE  \/ LabelDefined(l) /\ labels'[l].index = labels[l].index
         \/ ~ LabelDefined(l) /\ line = Label(l) /\ labels'[l].index = Cells
<1>1. IsLine(line)
  BY AssemblerAssumption DEF Base, Shape
<1>2. \A x \in DOMAIN labels : labels[x] \in [defined : BOOLEAN, index : 0 .. Cells, refs : SUBSET Nat]
  BY DEF Base, Shape
<1>3. CASE UNCHANGED labels
  BY <1>3 DEF LabelDefined
<1>4. CASE line.op = "label" /\ DefineLabel(line.to[1])
  <2> DEFINE name == line.to[1]
             refs == IF name \in DOMAIN labels THEN labels[name].refs ELSE {}
  <2>1. line = Label(name)
    BY <1>1, <1>4 DEF IsLine
  <2>2. labels' = IF LabelDefined(name) THEN labels
                  ELSE Extend(labels, name, [defined |-> TRUE, index |-> Cells, refs |-> refs])
    BY <1>4 DEF DefineLabel
  <2> HIDE DEF name, refs
  <2>3. CASE LabelDefined(name)
    BY <2>2, <2>3, <1>3
  <2>4. CASE ~ LabelDefined(name)
    <3>1. labels' = Extend(labels, name, [defined |-> TRUE, index |-> Cells, refs |-> refs])
      BY <2>2, <2>4
    <3>2. CASE l = name
      <4>1. labels'[l].index = Cells
        BY <3>1, <3>2 DEF Extend
      <4>. QED
        BY <2>1, <2>4, <3>2, <4>1
    <3>3. CASE l # name
      <4>1. l \in DOMAIN labels /\ labels'[l] = labels[l]
        BY <3>1, <3>3 DEF Extend
      <4>. QED
        BY <4>1 DEF LabelDefined
    <3>. QED
      BY <3>2, <3>3
  <2>. QED
    BY <2>3, <2>4
<1>5. CASE Generate(line)
  <2>1. labels' = [x \in DOMAIN labels \cup Range(LabelsOf(line)) |->
               IF x \in DOMAIN labels THEN [labels[x] EXCEPT !.refs = @ \cup References(line, x)]
               ELSE [defined |-> FALSE, index |-> 0, refs |-> References(line, x)]]
    BY <1>5 DEF Generate, ReferLabels
  <2> DEFINE refs == References(line, l)
  <2>2. labels'[l] = IF l \in DOMAIN labels THEN [labels[l] EXCEPT !.refs = @ \cup refs]
                     ELSE [defined |-> FALSE, index |-> 0, refs |-> refs]
    BY <2>1
  <2> HIDE DEF refs
  <2>3. l \in DOMAIN labels
    BY <2>2
  <2>4. labels'[l].defined = labels[l].defined /\ labels'[l].index = labels[l].index
    BY <1>2, <2>2, <2>3
  <2>. QED
    BY <2>3, <2>4 DEF LabelDefined
<1>6. UNCHANGED labels \/ (line.op = "label" /\ DefineLabel(line.to[1])) \/ Generate(line)
  BY DEF ReadLine, SetGlobals, ExposeReg, Proc, ExposedProc, Declare, Directive, Refuse
<1>. QED
  BY <1>3, <1>4, <1>5, <1>6

LEMMA ReadPaths ==
  ASSUME Base, Tracked, Paths, NEW line \in Dialect[dialect], ReadLine(line), ReadsLine(line)
  PROVE  Paths'
<1> SUFFICES ASSUME LabelsOnce' PROVE Straight'
  BY ReadPhase DEF Paths
<1> DEFINE new == Len(source) + 1
<1>1. /\ DOMAIN source = 1 .. Len(source) /\ Len(source) \in Nat
      /\ \A k \in DOMAIN source : source'[k] = source[k] /\ k < new
      /\ source'[new].line = line /\ source'[new].at = Cells
      /\ \A ops : Lines(ops)' = Lines(ops) \cup IF line.op \in ops THEN {new} ELSE {}
  BY Grown DEF Base
<1>2. Lines({"label"}) \subseteq DOMAIN source
  BY DEF Lines
<1>3. Lines({"label"})' = Lines({"label"}) \cup IF line.op = "label" THEN {new} ELSE {}
  BY <1>1
<1> HIDE DEF new
<1>4. \A k \in Lines({"label"}) : source'[k] = source[k] /\ Text(k)' = Text(k) /\ k # new
  BY <1>1, <1>2 DEF Text, new
<1>5. LabelsOnce
  BY <1>3, <1>4 DEF LabelsOnce
<1>6. Straight
  <2>1. phase \in {"headers", "functions", "declared"}
    BY ReadPhase
  <2>. QED
    BY <1>5, <2>1 DEF Paths
<1>7. ASSUME NEW l \in DOMAIN labels', labels'[l].defined, NEW k \in Lines({"label"})', Text(k)' = Label(l)
      PROVE  labels'[l].index = source'[k].at
  <2>1. CASE LabelDefined(l) /\ labels'[l].index = labels[l].index
    <3>1. PICK j \in Lines({"label"}) : Text(j) = Label(l)
      BY <2>1 DEF Tracked, LabelsTracked, Read
    <3>2. k = j
      BY <1>3, <1>4, <1>7, <3>1 DEF LabelsOnce
    <3>. QED
      BY <1>4, <1>6, <2>1, <3>1, <3>2 DEF Straight, LabelDefined
  <2>2. CASE ~ LabelDefined(l) /\ line = Label(l) /\ labels'[l].index = Cells
    <3>1. k \notin Lines({"label"})
      <4>1. \A j \in Lines({"label"}) : Text(j) # Label(l)
        BY <2>2 DEF Tracked, LabelsTracked, Read
      <4>. QED
        BY <1>4, <1>7, <4>1
    <3>2. k = new
      BY <1>3, <3>1
    <3>. QED
      BY <1>1, <2>2, <3>2
  <2>. QED
    BY <1>7, <2>1, <2>2, ReadLabels
<1>. QED
  BY <1>7 DEF Straight

(* Nothing but a line and a move changes where a label is.                 *)
LEMMA KeptPaths ==
  ASSUME Paths, UNCHANGED <<source, labels>>, Cells' = Cells,
         phase \in {"labels", "backpatch", "done"} /\ optimise =>
           phase' \in {"labels", "backpatch", "done"} /\ optimise',
         phase' = "labels" => optimise'
  PROVE  Paths'
<1>1. /\ \A ops : Lines(ops)' = Lines(ops)
      /\ \A k : Text(k)' = Text(k)
  BY DEF Lines, Text
<1>2. \A l : DefinedAt(l)' = DefinedAt(l)
  BY <1>1 DEF DefinedAt
<1>3. \A i : BranchLine(i)' = BranchLine(i)
  BY <1>1 DEF BranchLine
<1>4. \A i : Named(i)' = Named(i) /\ Onward(i)' = Onward(i)
  <2>1. \A i : Named(i)' = Named(i)
    BY <1>3 DEF Named, Text
  <2>. QED
    BY  <1>2, <1>3, <2>1 DEF Onward
<1>5. \A O : Closed(O)' <=> Closed(O)
  BY <1>4 DEF Closed
<1>6. \A O : Ring(O)' <=> Ring(O)
  BY <1>3, <1>4, <1>5 DEF Ring, LabelDefined
<1>7. \A O : Along(O)' <=> Along(O)
  BY <1>2 DEF Along
<1>8. \A O : (InPlace(O)' <=> InPlace(O)) /\ (Tangled(O)' <=> Tangled(O))
  BY <1>2, <1>4 DEF InPlace, Tangled
<1>9. Moved' <=> Moved
  BY <1>5, <1>6, <1>7, <1>8 DEF Moved
<1>10. (LabelsOnce' <=> LabelsOnce) /\ (Straight' <=> Straight)
  BY <1>1 DEF LabelsOnce, Straight
<1>. QED
  BY <1>9, <1>10 DEF Paths

(* A label moves to where another one is: the one that the branch names.   *)
LEMMA OptimiseLabelMoves ==
  ASSUME Base, LabelsOnce, Tracked, Moved, NEW l \in DOMAIN labels, NEW p \in LeadsTo(l),
         p # l, labels[p].defined,
         UNCHANGED <<source, binary>>, labels' = [labels EXCEPT ![l].index = labels[p].index]
  PROVE  Moved'
<1> DEFINE i == labels[l].index
<1>1. \A x \in DOMAIN labels : labels[x] \in [defined : BOOLEAN, index : 0 .. Cells, refs : SUBSET Nat]
  BY DEF Base, Shape
<1>2. i \in 0 .. Cells /\ Cells \in Nat
  BY <1>1 DEF Base, Shape, IsList, Cells
<1>3. labels[l].defined /\ IsBr(i) /\ p \in PatchOf(i)
  BY DEF LeadsTo
<1>4. BranchLine(i) # {} /\ p = Named(i) /\ p \in DOMAIN labels
  BY <1>2, <1>3, BranchNames
<1>5. Onward(i) = DefinedAt(p)
  BY <1>4 DEF Onward
<1>6. /\ DOMAIN labels' = DOMAIN labels
      /\ labels'[l].index = labels[p].index /\ labels'[p].index = labels[p].index
      /\ \A x \in DOMAIN labels : labels'[x].defined = labels[x].defined
      /\ \A x \in DOMAIN labels : x # l => labels'[x].index = labels[x].index
  BY <1>1, <1>4
<1> HIDE DEF i
<1>7. Cells' = Cells /\ (\A ops : Lines(ops)' = Lines(ops)) /\ \A k : Text(k)' = Text(k)
  BY DEF Cells, Lines, Text
<1>8. \A x : DefinedAt(x)' = DefinedAt(x)
  BY <1>7 DEF DefinedAt
<1>9. \A j : BranchLine(j)' = BranchLine(j)
  BY <1>7 DEF BranchLine
<1>10. \A j : Named(j)' = Named(j) /\ Onward(j)' = Onward(j)
  <2>1. \A j : Named(j)' = Named(j)
    BY <1>9 DEF Named, Text
  <2>. QED
    BY  <1>8, <1>9, <2>1 DEF Onward
<1>11. \A O : Closed(O)' <=> Closed(O)
  BY <1>7, <1>10 DEF Closed
<1>12. \A O : Ring(O)' <=> Ring(O)
  BY <1>6, <1>9, <1>10, <1>11 DEF Ring, LabelDefined
<1>13. ASSUME NEW O, Closed(O)
       PROVE  Along(O)'
  <2>1. Along(O)
    BY <1>13 DEF Moved
  <2>2. ASSUME DefinedAt(l) \in O PROVE labels[p].index \in O
    <3>1. i \in O
      BY <1>3, <2>1, <2>2 DEF Along, i
    <3>2. DefinedAt(p) \in O
      BY <1>5, <1>13, <3>1 DEF Closed
    <3>. QED
      BY <1>4, <2>1, <3>2 DEF Along
  <2>3. ASSUME NEW x \in DOMAIN labels, labels[x].defined, DefinedAt(x) \in O
        PROVE  labels'[x].index \in O
    BY <1>6, <2>1, <2>2, <2>3 DEF Along
  <2>. QED
    BY <1>6, <1>8, <2>3 DEF Along
<1>14. ASSUME NEW O, Ring(O)
       PROVE  InPlace(O)' \/ Tangled(O)'
  <2>1. \A j \in O : j \in Nat /\ Named(j) \in DOMAIN labels /\ LabelDefined(Named(j)) /\ Onward(j) = DefinedAt(Named(j))
                     /\ Onward(j) \in O
    BY <1>14 DEF Ring, Closed, LabelDefined, Onward
  <2>2. CASE \E j \in O : Named(j) = l
    <3>1. PICK j \in O : Named(j) = l
      BY <2>2
    <3>2. i \in O
      <4>1. DefinedAt(l) \in O /\ Along(O)
        BY <1>14, <2>1, <3>1 DEF Moved, Ring
      <4>. QED
        BY <1>3, <4>1 DEF Along, i
    <3>3. Named(j) # Named(i) /\ labels'[Named(j)].index = labels'[Named(i)].index
      BY <1>4, <1>6, <3>1
    <3>. QED
      BY <1>10, <3>1, <3>2, <3>3 DEF Tangled
  <2>3. CASE \A j \in O : Named(j) # l
    <3>1. \A j \in O : labels'[Named(j)].index = labels[Named(j)].index
      BY <1>6, <2>1, <2>3
    <3>2. InPlace(O) \/ Tangled(O)
      BY <1>14 DEF Moved
    <3>. QED
      BY <1>8, <1>10, <3>1, <3>2 DEF InPlace, Tangled
  <2>. QED
    BY <2>2, <2>3
<1>. QED
  BY <1>11, <1>12, <1>13, <1>14 DEF Moved

LEMMA NextPaths == Base /\ Errors /\ Paths /\ [Next]_vars => Paths'
<1> SUFFICES ASSUME Base, Errors, Paths, [Next]_vars PROVE Paths'
  OBVIOUS
<1>1. Tracked
  BY DEF Errors
<1>2. CASE ReadStep
  <2>1. PICK line \in Dialect[dialect] : ReadLine(line) /\ ReadsLine(line)
    BY <1>2 DEF ReadStep, ReadsLine
  <2>. QED
    BY <1>1, <2>1, ReadPaths
<1>3. CASE Crash
  <2>1. UNCHANGED <<source, labels, binary>> /\ phase = "headers" /\ phase' = "crashed"
    BY <1>3 DEF Crash, ExposeNoReg, read
  <2>. QED
    BY <2>1, KeptPaths DEF Cells
<1>4. CASE End
  <2>1. /\ UNCHANGED <<source, labels, binary, optimise>> /\ phase \in {"functions", "declared"}
        /\ phase' = "labels" => optimise
    BY <1>4 DEF End, read
  <2>. QED
    BY <2>1, KeptPaths DEF Cells
<1>5. CASE \E l \in todo : OptimiseLabel(l)
  <2>1. PICK l \in todo : OptimiseLabel(l)
    BY <1>5
  <2>2. UNCHANGED <<source, binary, phase, optimise>> /\ phase = "labels" /\ l \in DOMAIN labels
    BY <2>1 DEF OptimiseLabel, read, Base, Shape
  <2>3. CASE UNCHANGED labels
    BY <2>2, <2>3, KeptPaths DEF Cells, Paths
  <2>4. CASE \E p \in LeadsTo(l) : p # l /\ labels[p].defined /\ labels' = [labels EXCEPT ![l].index = labels[p].index]
    <3> SUFFICES ASSUME LabelsOnce PROVE Moved'
      <4>1. LabelsOnce' <=> LabelsOnce
        BY <2>2 DEF LabelsOnce, Lines, Text
      <4>. QED
        BY <2>2, <4>1 DEF Paths
    <3>1. Moved
      BY <1>1, StraightMoved DEF Paths
    <3>2. PICK p \in LeadsTo(l) : p # l /\ labels[p].defined /\ labels' = [labels EXCEPT ![l].index = labels[p].index]
      BY <2>4
    <3>. QED
      BY <1>1, <2>2, <3>1, <3>2, OptimiseLabelMoves
  <2>. QED
    BY <2>1, <2>3, <2>4 DEF OptimiseLabel
<1>6. CASE EndRound
  <2>1. UNCHANGED <<source, labels, binary, optimise>> /\ phase = "labels" /\ phase' \in {"labels", "backpatch"}
    BY <1>6 DEF EndRound, read
  <2>. QED
    BY <2>1, KeptPaths DEF Cells, Paths
<1>7. CASE Backpatch
  <2>1. UNCHANGED <<source, labels, optimise>> /\ Cells' = Cells /\ phase' = "done"
    BY <1>7, Patched DEF Backpatch, read, Base
  <2>. QED
    BY <2>1, KeptPaths
<1>8. CASE UNCHANGED vars
  <2>1. UNCHANGED <<source, labels, binary, optimise, phase>>
    BY <1>8 DEF vars, read
  <2>. QED
    BY <2>1, KeptPaths DEF Cells, Paths
<1>. QED
  BY <1>2, <1>3, <1>4, <1>5, <1>6, <1>7, <1>8 DEF Next, BackpatchStep

LEMMA InitPaths == Init => Paths
<1> SUFFICES ASSUME Init PROVE Paths
  OBVIOUS
<1>1. labels = << >> /\ phase = "headers"
  BY DEF Init
<1>. QED
  BY <1>1 DEF Paths, Straight

(* A branch of an assembled module goes to the line of its label, or on to *)
(* where the unconditional branches that stand there lead: optimise_labels *)
(* takes a label round a ring of branches at most.                         *)
THEOREM BranchesArrive == Spec => []BranchesReach
<1>1. Base /\ Redirected /\ Errors /\ Paths => BranchesReach
  <2> SUFFICES ASSUME Base, Redirected, Errors, Paths, Assembled,
                      NEW k \in Instructions, NEW q \in DOMAIN LabelsOf(Text(k))
               PROVE  Destination(Target(k, q)) = Destination(DefinedAt(LabelsOf(Text(k))[q]))
    BY DEF BranchesReach
  <2> DEFINE l == LabelsOf(Text(k))[q]
             x == labels[l].index
             a == DefinedAt(l)
  <2>1. Tracked /\ LabelsOnce /\ ~ Unknown(labels) /\ Cells \in Nat
    BY DEF Errors, Assembled, RightSoFar, Redirected, Base, Shape, IsList, Cells
  <2>2. l \in DOMAIN labels /\ source[k].at + q \in labels[l].refs
    BY DEF Base, Placed, Referred, LabelCell, Range
  <2>3. LabelDefined(l) /\ x \in 0 .. Cells
    BY <2>1, <2>2 DEF Unknown, LabelDefined, Base, Shape
  <2>4. Target(k, q) = x
    <3>1. Cell(source[k].at + q) = [value |-> x]
      BY <2>3 DEF Redirected, LabelDefined, Assembled
    <3>. QED
      BY <3>1 DEF Target
  <2>5. a \in 0 .. Cells
    BY <2>1, <2>3, DefinedThere
  <2>6. \A i \in 0 .. Cells : BranchLine(i) # {} =>
          LabelDefined(Named(i)) /\ Onward(i) = DefinedAt(Named(i)) /\ PatchOf(i) = {Named(i)} /\ IsBr(i)
    <3>1. ASSUME NEW i \in 0 .. Cells, BranchLine(i) # {}
          PROVE  LabelDefined(Named(i)) /\ PatchOf(i) = {Named(i)} /\ IsBr(i)
      <4>1. Named(i) \in DOMAIN labels /\ PatchOf(i) = {Named(i)} /\ IsBr(i)
        BY <2>1, <3>1, BranchNames
      <4>2. labels[Named(i)].refs # {}
        BY <4>1 DEF PatchOf
      <4>. QED
        BY <2>1, <4>1, <4>2 DEF Unknown, LabelDefined
    <3>. QED
      BY <3>1 DEF Onward
  <2>7. Closed(0 .. Cells)
    <3>1. ASSUME NEW i \in 0 .. Cells PROVE Onward(i) \in 0 .. Cells
      BY <2>1, <2>6, DefinedThere DEF Onward
    <3>. QED
      BY <3>1 DEF Closed
  <2> HIDE DEF l, x, a
  <2>8. x = a \/ (optimise /\ Moved)
    <3>1. ASSUME Straight PROVE x = a
      BY <2>1, <2>3, <3>1, DefinedThere DEF Straight, LabelDefined, x, a
    <3>. QED
      BY <2>1, <3>1 DEF Paths
  <2>9. ASSUME x # a, optimise, Moved
        PROVE  Destination(x) = Destination(a)
    <3> DEFINE O == {y \in 0 .. Cells : \A P \in SUBSET (0 .. Cells) : Closed(P) /\ a \in P => y \in P}
    <3>1. a \in O /\ O \subseteq 0 .. Cells
      BY <2>5
    <3>2. Closed(O)
      BY <2>7 DEF Closed
    <3>3. \A P \in SUBSET (0 .. Cells) : Closed(P) /\ a \in P => O \subseteq P
      OBVIOUS
    <3> HIDE DEF O
    <3>4. x \in O
      <4>1. Along(O)
        BY <2>9, <3>2 DEF Moved
      <4>. QED
        BY <2>2, <2>3, <3>1, <4>1 DEF Along, LabelDefined, x, a
    <3>5. \A j \in DOMAIN labels : labels[j].defined /\ IsBr(labels[j].index) =>
            \A p \in PatchOf(labels[j].index) : labels[p].defined => p = j
      BY <2>9 DEF Redirected, Settled, LeadsTo, Assembled
    <3>6. Onward(x) = x \/ Onward(x) = a
      <4>1. CASE BranchLine(x) = {}
        BY <4>1 DEF Onward
      <4>2. CASE BranchLine(x) # {}
        <5>1. Named(x) = l
          BY <2>2, <2>3, <2>6, <3>5, <4>2 DEF LabelDefined, x
        <5>. QED
          BY <2>3, <2>6, <4>2, <5>1 DEF a
      <4>. QED
        BY <4>1, <4>2
    <3>7. CASE \E y \in O : Onward(y) = y
      <4>1. PICK y \in O : Onward(y) = y
        BY <3>7
      <4>2. y \in 0 .. Cells
        BY <3>1
      <4>3. \A P \in SUBSET (0 .. Cells) : Closed(P) /\ a \in P => y \in P
        BY <3>3
      <4>4. Destination(a) = y
        BY <2>1, <2>5, <2>7, <4>1, <4>2, <4>3, SameDestination
      <4>5. CASE Onward(x) = x
        <5>1. Destination(x) = x
          BY <2>1, <2>3, <2>7, <4>5, SameDestination
        <5>2. \A P \in SUBSET (0 .. Cells) : Closed(P) /\ a \in P => x \in P
          BY <3>3, <3>4
        <5>3. Destination(a) = x
          BY <2>1, <2>3, <2>5, <2>7, <4>5, <5>2, SameDestination
        <5>. QED
          BY <5>1, <5>3
      <4>6. CASE Onward(x) = a
        <5>1. \A P \in SUBSET (0 .. Cells) : Closed(P) /\ x \in P => y \in P
          BY <4>3, <4>6 DEF Closed
        <5>2. Destination(x) = y
          BY <2>1, <2>3, <2>7, <4>1, <4>2, <5>1, SameDestination
        <5>. QED
          BY <4>4, <5>2
      <4>. QED
        BY <3>6, <4>5, <4>6
    <3>8. CASE \A y \in O : Onward(y) # y
      <4>1. \A y \in O : BranchLine(y) # {}
        BY <3>8 DEF Onward
      <4>2. Ring(O)
        BY <2>6, <3>1, <3>2, <4>1 DEF Ring
      <4>3. BranchLine(x) # {} /\ Named(x) = l
        BY <2>2, <2>3, <2>6, <3>4, <3>5, <4>1 DEF LabelDefined, x
      <4>4. ~ InPlace(O)
        BY <2>9, <3>4, <4>3 DEF InPlace, x, a
      <4>5. Tangled(O)
        BY <2>9, <4>2, <4>4 DEF Moved
      <4>6. PICK i \in O, j \in O : Named(i) # Named(j) /\ labels[Named(i)].index = labels[Named(j)].index
        BY <4>5 DEF Tangled
      <4>7. \A y \in O : Named(y) \in DOMAIN labels /\ labels[Named(y)].defined /\ DefinedAt(Named(y)) \in O
        BY <2>6, <3>1, <3>2, <4>1 DEF Closed, LabelDefined
      <4>8. ASSUME NEW y \in O
            PROVE  labels[Named(y)].index \in O /\ Named(labels[Named(y)].index) = Named(y)
        <5>1. labels[Named(y)].index \in O
          BY <2>9, <3>2, <4>7 DEF Moved, Along
        <5>. QED
          BY <2>6, <3>1, <3>5, <4>1, <4>7, <5>1 DEF LabelDefined
      <4>. QED
        BY <4>6, <4>8
    <3>. QED
      BY <3>7, <3>8
  <2>. QED
    BY <2>4, <2>8, <2>9 DEF l, a
<1>. QED
  BY <1>1, InitPaths, NextPaths, InitRedirected, NextRedirected, ErrorsAlways, PTL DEF Spec
=============================================================================
