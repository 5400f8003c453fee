------------------------------ MODULE Keyhole -------------------------------
(***************************************************************************)
(* The keyhole optimiser of the assembler (assembler/rxas_opt.c).          *)
(*                                                                         *)
(* The parser hands over one line at a time.  The optimiser keeps the last *)
(* ones in a queue, writes the oldest ones to the binary when the queue is *)
(* full, and applies its rules to the queue until none changes it.         *)
(***************************************************************************)
EXTENDS RxasCode, Functions

CONSTANTS
  Name,        \* the identifiers of the source: labels and procedures
  Dialect,     \* Dialect[d]: a set of lines that a program may be made of
  MaxLines,    \* MaxLines[d]: how long such a program may be
  Tested,      \* the registers its branches test
  Rings,       \* may a program have a ring of branches?
  TargetMaxQueueSize,     \* OPTIMISER_TARGET_MAX_QUEUE_SIZE, for each dialect
  QueueExtraBufferSize    \* OPTIMISER_QUEUE_EXTRA_BUFFER_SIZE

(* A unique label is the optimiser_counter in digits: it does not start    *)
(* with a letter, so that it is no identifier of the source.               *)
Unique(n) == [unique |-> n]
UniqueLabels == [unique : Nat]

(* A line with the operands of its instruction, and names of this set.     *)
KeyholeLine(i, names) ==
  /\ i.to \in Seq(names)
  /\ i.op = "label" => i = Label(i.to[1])
  /\ i.op \in {"br", "brt", "brf"} => Len(i.to) = 1
  /\ i.op = "brtf" => Len(i.to) = 2

ASSUME KeyholeAssumption ==
  /\ Name \cap UniqueLabels = {}
  /\ \A d \in DOMAIN Dialect : \A i \in Dialect[d] : KeyholeLine(i, Name)
  /\ TargetMaxQueueSize \in [DOMAIN Dialect -> Nat \ {0}]
  /\ MaxLines \in [DOMAIN Dialect -> Nat]

VARIABLES
  dialect,     \* the lines this program is made of
  source,      \* the lines the parser has read
  code,        \* the lines written by rxasgen and rxaslabl
  queue,       \* optimiser_queue
  optimising,  \* the queue may still match a rule
  counter,     \* optimiser_counter: the next unique label
  turns        \* how many turns the loop of optimise took for the last line
vars == <<dialect, source, code, queue, optimising, counter, turns>>

-----------------------------------------------------------------------------
(* The rules.  A rule set is a sequence of rules; a rule is a flag, a      *)
(* pattern, and the patterns to put in the place of the line it matches.   *)
(* The operands of a pattern are the numbers of the rule's own variables.  *)

Rule(flag, in, out) == [flag |-> flag, in |-> in, out |-> out]

CancelledSwaps(second) ==
  << Rule("NO_HAZARD", Line("swap", << >>, <<0, 1>>), << >>),
     Rule("NO_HAZARD", Line("swap", << >>, second), << >>) >>
Appending(concat, append) ==
  << Rule("NO_HAZARD", Line(concat, << >>, <<0, 0, 1>>), <<Line(append, << >>, <<0, 1>>)>>) >>

(* A branch to label 0, and what the line after that label is: it stays    *)
(* what it is, and a label is put behind it when the branch needs one.     *)
BranchToUnchanged(branch, becomes, target, label) ==
  << Rule("ANY_GAP", branch, <<branch>>),
     Rule("ANY_GAP", Label(0), <<Label(0)>>),
     Rule("NO_GAP", target, <<target>> \o label) >>
BranchTo(branch, becomes, target, label) ==
  << Rule("ANY_GAP", branch, <<becomes>>),
     Rule("ANY_GAP", Label(0), <<Label(0)>>),
     Rule("NO_GAP", target, <<target>> \o label) >>

Br == Line("br", <<0>>, << >>)
Brt(l) == Line("brt", <<l>>, <<0>>)
Brf(l) == Line("brf", <<l>>, <<0>>)
BrtfSwapped(l, m) == Line("brtf", <<m, l>>, <<0>>)
Brtf(l, m) == Line("brtf", <<l, m>>, <<0>>)

Rules ==
  << CancelledSwaps(<<0, 1>>),
     CancelledSwaps(<<1, 0>>),
     Appending("sconcat", "sappend"),
     Appending("concat", "append"),
     BranchTo(Br, Brtf(1, 2), Brt(1), <<Label(2)>>),
     BranchTo(Br, Brtf(2, 1), Brf(1), <<Label(2)>>),
     BranchTo(Br, Brtf(1, 2), Brtf(1, 2), << >>),
     BranchTo(Brt(0), Brt(1), Brt(1), << >>),
     BranchTo(Brf(0), Brf(1), Brf(1), << >>),
     BranchTo(Brt(0), Brt(2), Brf(1), <<Label(2)>>),
     BranchTo(Brf(0), Brf(2), Brt(1), <<Label(2)>>) >>

-----------------------------------------------------------------------------
(* Matching.  An op_map binds the numbers of a rule set to the operands    *)
(* they matched: reg to registers, lab to the names of labels and of the   *)
(* branches to them.                                                       *)

EmptyMap == [reg |-> << >>, lab |-> << >>]

(* An operand that is bound already must be the same: a register is        *)
(* compared by its number.                                                 *)
CanMap(map, pattern, i) ==
  /\ i.op = pattern.op
  /\ \A k \in DOMAIN pattern.regs :
       pattern.regs[k] \in DOMAIN map.reg => map.reg[pattern.regs[k]].num = i.regs[k].num
  /\ \A k \in DOMAIN pattern.to :
       pattern.to[k] \in DOMAIN map.lab => map.lab[pattern.to[k]] = i.to[k]

(* Operands are bound one by one, so that two operands of one pattern may  *)
(* be the same variable.                                                   *)
MapsFirst(pattern, i) ==
  /\ CanMap(EmptyMap, pattern, i)
  /\ \A j, k \in DOMAIN pattern.regs :
       pattern.regs[j] = pattern.regs[k] => i.regs[j].num = i.regs[k].num

Bind(bound, numbers, operands) ==
  [n \in DOMAIN bound \cup Range(numbers) |->
     IF n \in DOMAIN bound THEN bound[n]
     ELSE operands[CHOOSE k \in DOMAIN numbers :
                     numbers[k] = n /\ \A j \in 1 .. k - 1 : numbers[j] # n]]
MapOperands(map, pattern, i) ==
  [reg |-> Bind(map.reg, pattern.regs, i.regs), lab |-> Bind(map.lab, pattern.to, i.to)]

(* An operand that is a label or a procedure makes a line hazardous.       *)
IsHazardous(i) == i.to # << >>

(* A line is relevant if it uses a mapped register.  The type recorded     *)
(* with a mapped register is the one of the pattern, which is always "r".  *)
IsRelevant(map, i) ==
  \E r \in Range(i.regs) : \E n \in DOMAIN map.reg : r.type = "r" /\ map.reg[n].num = r.num

MayBeSkippedIfIrrelevant(map, rule, i) ==
  CASE rule.flag = "NO_GAP"    -> FALSE
    [] rule.flag = "NO_HAZARD" -> ~ IsRelevant(map, i)
    [] rule.flag = "ANY_GAP"   -> TRUE
MayBeSkipped(map, rule, i) ==
  CASE rule.flag = "NO_GAP"    -> FALSE
    [] rule.flag = "NO_HAZARD" -> ~ IsHazardous(i) /\ ~ IsRelevant(map, i)
    [] rule.flag = "ANY_GAP"   -> TRUE

(* The search for the rest of a rule set, from line start of the queue on: *)
(* inst_mapped[i] is the rule that line i matched, 0 if it matched none.   *)
MatchLine(ruleset, lines, search, i) ==
  IF search.failed \/ search.r > Len(ruleset) THEN search
  ELSE IF CanMap(search.map, ruleset[search.r].in, lines[i])
  THEN [search EXCEPT !.map = MapOperands(@, ruleset[search.r].in, lines[i]),
                      !.inst_mapped[i] = search.r, !.r = @ + 1]
  ELSE [search EXCEPT !.failed = ~ MayBeSkipped(search.map, ruleset[search.r], lines[i])]

FirstLine(ruleset, lines, start) ==
  [map |-> MapOperands(EmptyMap, ruleset[1].in, lines[start]),
   inst_mapped |-> [i \in DOMAIN lines |-> IF i = start THEN 1 ELSE 0],
   r |-> 2, failed |-> FALSE]
Search(ruleset, lines, start) ==
  LET after[i \in start .. Len(lines)] ==
        IF i = start THEN FirstLine(ruleset, lines, start)
        ELSE MatchLine(ruleset, lines, after[i - 1], i)
  IN  after[Len(lines)]
Found(ruleset, search) == ~ search.failed /\ search.r > Len(ruleset)

Matches(ruleset, lines, start) ==
  /\ MapsFirst(ruleset[1].in, lines[start])
  /\ Found(ruleset, Search(ruleset, lines, start))

-----------------------------------------------------------------------------
(* Rewriting *)

(* A label that no input rule bound is a new one, named by the counter.    *)
OutputNames(ruleset) ==
  UNION {UNION {Range(o.to) : o \in Range(rule.out)} : rule \in Range(ruleset)}
NewLabels(ruleset, map) == OutputNames(ruleset) \ DOMAIN map.lab

Fill(map, pattern) ==
  Line(pattern.op, [k \in DOMAIN pattern.to |-> map.lab[pattern.to[k]]],
       [k \in DOMAIN pattern.regs |-> map.reg[pattern.regs[k]]])

(* optimise_rule: the lines that matched are replaced by the outputs of    *)
(* their rules, the others stay.                                           *)
MappedLabels(ruleset, map, unique) ==
  [n \in DOMAIN map.lab \cup NewLabels(ruleset, map) |->
     IF n \in DOMAIN map.lab THEN map.lab[n] ELSE Unique(unique)]
Rewritten(ruleset, search, lines, unique) ==
  LET map == [reg |-> search.map.reg, lab |-> MappedLabels(ruleset, search.map, unique)]
      Replacement(i) ==
        LET r == search.inst_mapped[i] IN
        IF r = 0 THEN <<lines[i]>>
        ELSE [k \in DOMAIN ruleset[r].out |-> Fill(map, ruleset[r].out[k])]
  IN  FlattenSeq([i \in DOMAIN lines |-> Replacement(i)])

(* optimise_rule_in_queue: at the first line where the rule set matches.   *)
OptimiseRuleSameLabel(state, ruleset) ==
  LET starts == {i \in DOMAIN state.queue : Matches(ruleset, state.queue, i)} IN
  IF starts = {} THEN state
  ELSE [queue |-> Rewritten(ruleset, Search(ruleset, state.queue, Min(starts)),
                            state.queue, state.counter),
        counter |-> state.counter, changed |-> TRUE]
OptimiseRuleInQueue(state, ruleset) ==
  LET starts == {i \in DOMAIN state.queue : Matches(ruleset, state.queue, i)} IN
  IF starts = {} THEN state
  ELSE LET search == Search(ruleset, state.queue, Min(starts)) IN
       [queue |-> Rewritten(ruleset, search, state.queue, state.counter),
        counter |-> state.counter + Cardinality(NewLabels(ruleset, search.map)),
        changed |-> TRUE]

-----------------------------------------------------------------------------
Init ==
  /\ dialect \in DOMAIN Dialect
  /\ source = << >> /\ code = << >> /\ queue = << >>
  /\ optimising = FALSE /\ counter = 0 /\ turns = 0

(* A ring of branches: labels that each stand directly before a branch to  *)
(* one of them.  The rules replace a branch to such a label by a branch to *)
(* the next one, and so on round the ring.                                 *)
LeadsTo(lines, l) ==
  LET i == LineOf(lines, l) + 1 IN
  IF i \in DOMAIN lines /\ lines[i].op # "label" THEN Range(lines[i].to) ELSE {}
InRing(lines) ==
  \E ring \in SUBSET Labels(lines) \ {{}} :
    \A l \in ring : LeadsTo(lines, l) \cap ring # {}

(* A program defines a label once.                                         *)
Legal(i) ==
  /\ i.op = "label" => i.to[1] \notin Labels(source)
  /\ Rings \/ ~ InRing(Append(source, i))

(* queue_instruction: the oldest lines make room for the new one.          *)
Target == TargetMaxQueueSize[dialect]
ExcessForgotten == 0
Excess == IF Len(queue) < Target THEN 0 ELSE Len(queue) - (Target - 1)
QueueInstruction(i) ==
  /\ ~ optimising
  /\ source' = Append(source, i)
  /\ code' = code \o SubSeq(queue, 1, Excess)
  /\ queue' = Append(SubSeq(queue, Excess + 1, Len(queue)), i)
  /\ optimising' = TRUE /\ turns' = 0
  /\ UNCHANGED <<dialect, counter>>

(* optimise: one turn of its loop, in which each rule set is applied once. *)
ApplyRules(state) ==
  LET after[n \in 0 .. Len(Rules)] ==
        IF n = 0 THEN state ELSE OptimiseRuleInQueue(after[n - 1], Rules[n])
  IN  after[Len(Rules)]
Optimise ==
  /\ optimising
  /\ LET state == ApplyRules([queue |-> queue, counter |-> counter, changed |-> FALSE])
     IN  queue' = state.queue /\ counter' = state.counter /\ optimising' = state.changed
  /\ turns' = turns + 1
  /\ UNCHANGED <<dialect, source, code>>

(* flushopt: at a procedure, a declaration or a directive, and at the end. *)
FlushOpt ==
  /\ ~ optimising /\ queue # << >>
  /\ code' = code \o queue /\ queue' = << >>
  /\ UNCHANGED <<dialect, source, optimising, counter, turns>>

Next ==
  \/ /\ Len(source) < MaxLines[dialect]
     /\ \E i \in Dialect[dialect] : Legal(i) /\ QueueInstruction(i)
  \/ Optimise
  \/ FlushOpt

Spec == Init /\ [][Next]_vars

-----------------------------------------------------------------------------
(* Properties *)

Optimised == code \o queue

(* The code fits its variables, and the lines wait their turn: nothing is  *)
(* in the queue that no rule has been tried on.                            *)
TypeOK ==
  /\ dialect \in DOMAIN Dialect
  /\ source \in Seq(Dialect[dialect]) /\ Len(source) <= MaxLines[dialect]
  /\ optimising \in BOOLEAN /\ counter \in Nat
  /\ \A i \in DOMAIN Optimised :
       Range(Optimised[i].to) \subseteq
         (UNION {Range(l.to) : l \in Dialect[dialect]}) \cup {Unique(n) : n \in 0 .. counter - 1}

(* The optimised program does what the program that was written does,      *)
(* wherever it is entered, with whatever registers: it leaves by the same  *)
(* exit, with the same registers, having said the same, or loops as well.  *)
(* The rules look at the lines one by one, and do not know what is skipped *)
(* or has left the queue.                                                  *)
Initially(true) == [r \in Register |-> [int |-> r \in true, str |-> <<r>>]]
RunFrom(lines, l, true) ==
  Run(lines, IF l = END THEN 1 ELSE LineOf(lines, l), Initially(true))
SameMeaning == Optimised # source =>
  \A true \in SUBSET Tested, l \in Labels(source) \cup {END} :
    Meaning(Optimised, RunFrom(Optimised, l, true)) = Meaning(source, RunFrom(source, l, true))

(* It is never slower: it executes at most as many instructions.           *)
NotSlower == Optimised # source =>
  \A true \in SUBSET Tested, l \in Labels(source) \cup {END} :
    Stops(source, RunFrom(source, l, true)) =>
      RunFrom(Optimised, l, true).steps <= RunFrom(source, l, true).steps

(* The labels the rules add never overflow the array of the queue.         *)
QueueFits == Len(queue) <= Target + QueueExtraBufferSize

(* Every label of the program, and every new one, is defined exactly once: *)
(* rxaslabl would report a duplicate, and backptch an unknown label.       *)
LabelsOnce ==
  /\ Labels(Optimised) = Labels(source) \cup {Unique(n) : n \in 0 .. counter - 1}
  /\ \A i, j \in DOMAIN Optimised :
       Optimised[i].op = "label" /\ Optimised[j] = Optimised[i] => i = j

(* The loop of optimise ends, as the rules do not undo each other: after   *)
(* at most a turn for each line of a full queue, one changes nothing.      *)
Settles == turns <= Target + 1

=============================================================================
