# A TLA+ model of CREXX

CREXX compiles REXX Level B to RXAS assembler (`rxc`, in `src/compiler`), assembles RXAS to
rxbin files (`rxas`, in `src/assembler`), and runs one or more of them (`rxvm`, in
`src/interpreter`). This directory models its core in TLA+: TLC checks the modules on small
instances, TLAPS proves the invariants that matter most for every instance.

All three programs are sequential. What makes them hard is not concurrency but long sequences
of small operations on shared pointers and shared counters: registers that alias one another
through calls, values whose owner changes on return, register numbers that are handed out and
taken back in an order the source program decides, rewriting that must stop and must preserve
meaning.

## Inventory

| Component | State | Operations | Interacts with | What makes it correct |
|---|---|---|---|---|
| VM frames and registers, `rxvmintp.c`, `rxvmvars.h` | chain of stack frames, each an array of pointers to values; the owner of every value | three calls, five returns, move, swap, amap, exit, signal | linker (procedures, globals), value factories | a value is freed by its owner, once, when nobody denotes it; a callee leaves its callers' registers alone |
| VM linker, `rxvmintp.c` `run` | constant pools of the modules, two search trees, module globals | build symbols, resolve, allocate globals, free globals | assembler (constant pool), AVL tree, frames | declared procedures become the provided ones; registers share a value just when they share an index; independent of the order of the modules |
| VM values, `rxvmvars.h` | string buffer, its length in bytes and characters, cached position, numbers, type flags | set, copy, append, concatenate, position, convert | instructions | position and lengths agree with the bytes; buffers are large enough |
| VM instructions, `rxvmintp.c` | the values | about 200 handlers that write a value in place | values | arithmetic at the edges, termination of the loops |
| Register allocator, `rxcpsymb.c`, `rxcpdary.h` | free list and number of registers of a procedure | `get_reg`, `get_regs`, `ret_reg` | register walker of the emitter | no two live values share a register; rows are consecutive; none is lost |
| Emitter, `rxcpemit.c` | register and output of every AST node | register walk, emit walk | allocator, keyhole optimiser (its input) | the code of an expression computes it, above all the argument registers of calls |
| Compiler optimiser, `rxcp_opt.c` | the AST, constant symbols | folding, propagation, until nothing changes | validation, emitter | terminates; preserves meaning |
| Compiler AST, symbols, validation | the AST, scopes, symbols | walks that rewrite the tree | all of the compiler | types and references resolved |
| Keyhole optimiser, `rxas_opt.c` | queue of instructions, counter of new labels | queue, match, rewrite, flush | parser, code generator | terminates; stays in its queue; preserves meaning |
| Assembler back end, `rxasassm.c` | code, constant pool, label and procedure backpatches | define, declare, generate, redirect labels, backpatch | keyhole optimiser, rxbin files, linker | every reference patched; redirecting ends and preserves control flow |
| Instruction database, AVL tree, UTF-8, platform, disassembler | tables; a tree; none | lookups; insert and search; pure functions | everything | |

Calls are the only way the components interact: there is no concurrency, no persistence beyond
the files that one stage writes and the next reads, and no timeout. The hazards are listed one
by one in `PROJECT.json`.

## Modules

### VMFrames - frames and register ownership

The state is `depth` (the chain of frames), `call` (the fixed part of every frame), `reg` (its
pointers) and `owner` (the owner of every heap cell, `FREE` if it is not allocated). One action
models one instruction handler, including everything it calls:

| Action | Code |
|---|---|
| `CallFunc`, `CallRegFunc`, `CallRegFuncReg` | the three `call` instructions with `frame_f` and the copying of the arguments |
| `Ret`, `RetConst`, `RetReg` | the five `ret` instructions with `free_frame`; `RetConst` stands for the integer, float and string variants, which differ in the value only |
| `Move`, `Swap` | the two instructions that move pointers |
| `Amap` | the two `amap` instructions, which make a register denote what another one does, without a look at the owner |
| `Exit` | `exit`, `signal` and every error: the frames are unwound, then the globals freed |
| `Init` | `run` up to the first instruction |

Instructions that write a value in place change none of these variables and are left out.
Frames are identified by their depth, so a new frame always has the address of the frame that
was popped last. `Fresh` is the allocator, a parameter: the proofs hold for every allocator
that returns distinct unused cells. The free of a return from `main` is one step with the
freeing of the globals, since nothing runs in between. A second free of a value has no further
effect in the model, where the C library leaves it undefined.

`amap` does not look at the owner, so a frame can map a value of its own. Two registers then
denote it, and `free_frame` frees it once for each; or, if it was mapped onto the register it is
in, it is freed at once and stays in the register. The run `own_map_twice` shows the first
(`FreedOnce`, violated). What else such a program may do depends on the value that
was mapped and on no other, which is what the properties below say: `mapped` remembers the values
that a frame mapped although it owned them (`OwnMap`), and the properties hold in every program
for all values but these (`Sound`). `mapped` is a history variable that
no action reads; a value leaves it when no register denotes it any more.

**Properties.** `NoDangling`: no register denotes a freed value, and `NoDoubleFree`: no frame has
one of its own values in two registers, which is when `free_frame` would free it twice; both for
all values but those in `mapped`.
`OwnersBelow`: no register denotes a value of a frame above, which is freed first.
`ArgumentWindow`: what a callee reaches of its callers is what the call passed, however it swaps,
maps and calls on. `CallersUntouched`: a step changes no register of a suspended frame but the
return register and frees or adopts none of its values, mapped or not. `ResultIsPrivate`: a result arrives as a
value of the caller that no other register denotes. `LostOnlyUnderResult`: the only way to lose
a value is to return a result over it.

### LinkerInput, VMLink - linking and global registers

One step per constant-pool entry in the two linker passes and per module in the passes over the
globals. The pools are concatenated: the code visits them in that order. A program is one of
`Programs`, what the assembler can write; `define_proc` leaves a declared procedure without
code, locals or module, and linking copies all three from the provider. `exit(-1)` is the phase
`rejected`. `RejectedIfUnlinkable` says that the order of the modules decides nothing,
`CallsWhatIsExposed` and `SharedByIndex` what docs/assembler.md promises of global procedures
and registers, `FreedOnce` that the owner test frees a shared value exactly once.

What `Programs` may hold is in `LinkerInput`, a module of its own because both sides use it: it is
an assumption of VMLink and a theorem about Assembler. The result of linking is what VMFrames
takes as constants (`GlobalCell`, `GlobalOwner`, `ModuleOf`).

### StringSpec, StringValue - strings

`StringSpec` is what the string instructions promise a program: a string is a sequence of
characters with a position in it. `StringValue` is the code in the build with UTF-8: a buffer
of bytes, its length in bytes and in characters, and a position in bytes and in characters that
is cached and moved character by character from wherever it is, or from the end if that is
nearer. What lies behind a string in its buffer is never read; of it the model has only where the
last write ended (`written`). An action is an instruction (`LOAD`, `COPY`, `APPEND`, `CONCAT`, `APPENDCHAR`,
`CONCCHAR`, `SETSTRPOS`, `STRCHAR`, `STRLEN`, `GETSTRPOS`, `FNDBLNK`, `SEQ` and their variants);
the functions of `rxvmvars.h` and `utf.h` are operators with their names.

**Properties.** `StringsAsSpecified`: every instruction does to the characters, the position and
the result what `StringSpec` says, so no caller can tell that there are bytes. `CursorAtCharacter`: the position
in bytes is the beginning of the character at the position in characters. `StringInBuffer`: a
string has all of its bytes and a buffer that they fit in; it is proved, for strings of any
length, and no run lists it.

`BufferHolds`, that no write ends behind a buffer, fails (`self_append`). The append of a
string to itself (`string_append_itself`) reads the length of its operand when it is the new one:
it puts the right string together, but copies as many bytes again behind it.
`OverrunsOnlyItself` says that no other instruction ever does that, also on a string that is in
that state. The keyhole optimiser makes such an append of `a = a || a`.

### RegAlloc, RegisterPool - the compiler's registers

`RegisterPool` says what the compiler relies on: a request for n registers yields n consecutive
registers that nobody holds, never r0. `RegAlloc` is the code: the ordered free list with its
three ways to satisfy `get_regs` (reuse a row, complete a row that touches the next new
register, take new ones). The loop that looks for the row is not stepped through: `Run` is the
row it finds, and `Reuse` keeps the one peculiarity of its early return, that the row has at
least two registers when the loop compares it with the request. That is wrong for a request of
one, which the compiler makes for a call without arguments, if the free list ends in a row of two
or more (`SingleFromRow`; the run `regalloc_no_args`).

**Properties.** `HeldNotFree`: no register in use is in the free list. `FreeAscends`: the list
ascends strictly. `NothingLost`: all registers but r0 are in use or free. `PoolSpec`: the
refinement of the pool. `FaultsExactly` says how far these hold: of all steps, whatever the
counts, `SingleFromRow` alone leads out of them, and it always does. It is proved, for counts with
one included, and no run lists it.

### RexxTree, TreeWalk, Optimiser, RegisterWalk, Emitter, Compiler - from tree to code

`RexxTree` is the tree of a procedure as the validator leaves it, with the types of every node,
and, beside what the compiler asks of a node, the meaning of a procedure: what it says, which
calls it makes with which arguments, what it returns and what it leaves in the arguments by
reference (`Eval`, `Exec`). External procedures are known by name; their result tells which call
it was, and they change what they get by reference. `TreeWalk` is `ast_wlkr`: a handler is
called for a node before and after its children, and may rewrite the tree under the walk.

| Module | Code | A step is |
|---|---|---|
| `Optimiser` | `rxcp_opt.c`: folding, constant symbols, arguments by reference | a call of the folding handler, or the look at one symbol |
| `RegisterWalk` | `register_walker` | a call of the handler, or one of the calls it makes of the allocator |
| `Emitter` | `emit_walker` | a call of the handler |
| `Compiler` | `optimise` and `emit`, one after the other | a step of a pass |

`Compiler` also runs the code that comes out, by the rules of the handlers in `rxvmintp.c`:
registers are pointers to values, `swap` exchanges them, a call copies those of its arguments,
and the callee changes what it was passed by reference or was told that nobody needs.
`RegisterWalk` uses `RegAlloc` as it is, with its variables.

**Properties.** `CompiledMeaning`: optimised or not, the code does what the source means, for
every caller. `CalleeKeepsArguments`: what a caller passes by value, and did not give away, is
unchanged when the procedure returns, also where the optimiser saved the copy.
`CompilerIsClient`: every step of the compiler is one of `RegAlloc` or leaves it alone: it asks
only for rows of 2, 3 or 4, returns only what it holds, and returns it once. The proofs about
`RegAlloc` are thereby about the compiler. `OptimiserSettles`: the passes end. `TypeOK` also
says that every operator that is emitted has an instruction for its operands, and that a
symbol's register is held as long as the procedure is compiled.

### RxasCode, Keyhole - the keyhole optimiser

`RxasCode` gives the instructions that the optimiser rewrites their meaning, from their handlers
in `rxvmintp.c`: swaps, concats, appends, `say`, the call (as an exit of what a procedure can see
of the registers), and the four branches. A register holds a truth value and a string, which is
the sequence of the values it was built from. `Run` follows a program for `Fuel` instructions.

`Keyhole` is `rxas_opt.c`: the rule table, the matcher with its map of operands, hazards and
relevance, the rewriting, and the queue. One step queues a line (writing out what the queue has
no room for), one step is a turn of the loop of `optimise`, in which every rule set is applied
once, and one step flushes. A rule's operands are split by kind, names and registers. The loops
over the lines of the queue and over the rule sets are recursive functions, one value for each
turn of the loop. A unique label, which the code writes as the digits of a counter, is the
record `[unique |-> n]`; `KeyholeAssumption` says that no identifier of the source is one (they
start with a letter), that the lines have the operands the grammar demands, and that the queue
has room for a line.

**Properties.** `SameMeaning`: entered at any label, with any registers, the optimised program
does what the source does. `NotSlower`: and executes no more instructions. `QueueFits`: the array
does not overflow. `LabelsOnce`: old and new labels are defined exactly once. `Settles`: the
rules come to an end.

Two sorts of programs are left out of the run, since the code fails for them: those that use
argument registers in swaps, and those with a ring of branches (labels that each stand directly
before a branch to one of them), for which `optimise` goes round for ever; `Rings = TRUE` shows
it. A concat of a register with itself becomes an append to itself, which has the same meaning:
what it writes behind its string is the matter of `StringValue`.

### Assembler - labels, procedures, constant pool

`Assembler` is `rxasassm.c`, from the line the parser or the optimiser hands over to the end of
`backptch`. Every directive is an action, an instruction is `Generate` (or `Refuse`, if the
machine has no such instruction), a label `DefineLabel`; the grammar's order of headers and
procedures is `phase`. Errors are collected and reading goes on, as in the code, so the actions
model what they do after an error too: a duplicate procedure writes to the first entry of the
pool, an exposed register that does not exist is looked up in an array that has none (the
outcomes: the array holds anything, or the assembler crashes). `optimise_labels` is a step for
every label, in any order, and a step for the end of a round; the code's order is that of the
tree. The pool is a sequence of entries, which moves when it outgrows `PoolRoom` times a power
of two; the write to an entry through the old pointer is then lost.

**Properties.** `ReportsErrors`: a module is accepted exactly if what it uses is defined once,
before or after the use. `BranchesReach`: redirected or not, branches end up where the source
says. `NoBranchToBranch`: with the optimiser, no branch leads to another unconditional branch
but one to itself. `OperandsInFrame`: registers are in the part of the frame of their type.
`PoolLinked`: the pool is what `VMLink` starts from. `LabelsSettle`: the assembler ends, unless
labels stand in a ring of branches or before one (`InRing`); a branch to itself is a ring for
every other label that leads there. For those `optimise_labels` goes on for ever, although its
comment says that it "should duck out" (`rxasassm.c:108-109`), and `LabelsSettle` says that too:
from a module with a ring no step leads out of the optimiser. The run `assembler` has both kinds
of modules; the least with a ring is `A: br B`, `B: br B`.

## Runs

| Run | Instance | Result |
|---|---|---|
| `frames` | two procedures in two modules, one local each, one global, operands r0 and r1, at most one argument, three frames, five cells, every allocator | all properties hold |
| `own_map_twice` | the same, two frames | violated: a value in two registers of the frame that owns it |
| `link` | three modules, two indices, two globals each, all 12167 combinations | all properties hold |
| `strings` | two registers of at most six characters and one, a blank and a character of three bytes, the smallest buffer 16 bytes | all properties hold |
| `self_append` | one register of at most eight characters, the smallest buffer 32 bytes | violated: twelve bytes appended to themselves end at 36 |
| `regalloc` | nine registers, requests of 2, 3 and 4 | all properties hold |
| `regalloc_no_args` | six registers, requests of 1, 2 and 3 | violated: a register handed out and still free |
| `compiler` | 275 procedures, optimised or not, every caller that differs | all properties hold |
| `call_args` | a variable that is an argument and is used in a later one; a parameter passed in the register of its own number | violated: the code computes something else |
| `optimise_if` | a constant assigned as a branch of an IF | violated: the other branch is taken |
| `keyhole` | five lines of branches over two labels, in a queue of five and of three; four lines of swaps, concats, output, a call, in a queue of three | all properties hold |
| `assembler` | six lines of labels and branches (three labels); five lines of directives, calls and an invalid line; the optimiser on and off | all properties hold |

**Bounds.** *Frames:* three frames are the least at which a result passes through a frame that
received it as an argument from another; operands 0 and 1 name a local, a global or an argument
register, a0 or a1, according to the procedure. `MaxDepth` bounds the calls; a call at the bound
is not modelled as an error, because the code has no limit of its own. Memory exhaustion is not
modelled: a call that needs more than the five cells is left out. Five hold the registers of
main, one of another procedure with an argument, and two values that were lost or mapped, or a
third frame; every kind of call leads to a third frame. `MapsBelowTop`: with three frames no
step is taken while a value is mapped by its own frame (the proofs have no such bound). `frames` uses a
`VIEW`: a cell is named by the first register that denotes it, and of allocated cells that no
register denotes only the number counts. No property tells two cells apart by name, `MCFresh`
takes any free cells, and every action treats cells alike, so states that the view identifies
have the same futures up to renaming.

*Linker and allocator:* three modules are needed for an importer before, between and after
exporters. Nine registers let two rows of four and a gap exist at once.

*Strings:* six characters of three bytes exceed a buffer of 16 bytes, so it grows; positions can
be moved forward, backward and from the end over characters of one byte and of three. The
smallest buffer is 32 bytes in the code, and in `self_append`.

*Compiler:* the procedures combine every kind of expression with every other one level deep, as
value, argument and condition, every comparison and integer operator with a constant on either
side, every loop control, LEAVE and ITERATE of a loop and of the one around it, and parameters by
value, by reference and optional, given and missing. `MaxRounds` (12) and `MaxSteps` (200) exceed
what any of them executes, `MaxRegister` (30) what any needs, and `Counts` are the rows that
calls of one to three arguments ask for.

*Keyhole and assembler:* the longest rule set has three lines and rewrites at most one of them,
so five lines hold a rule match with a gap, two matches that share a target, and a match that
another one makes possible. A queue of three lets each part of a match leave before the next
arrives. The queue's spare room is 40 for 20 lines in the code and 3 for 5 (or 3) here, which is
less in proportion. `Fuel` is more instructions than such a program executes without looping.
In the assembler six lines hold two branches in a row behind a label and a branch that leads to
them, five a procedure with an exposed register, a declaration and a call before it.
`PoolRoom = 3` makes the pool grow within them.

**What the procedures of `compiler` leave out.** The code fails for procedures outside these
limits, see "Known divergences": a symbol passed as an argument is not used in a later argument
of the same call; a parameter is not passed in the register of its own number
(`Coincidences = FALSE` excludes eight compilations); a constant is not assigned as a branch of
an IF; a constant is an operand of AND or OR only where a truth value is wanted; the variables in
the limits of a loop are not assigned in its body; FOR is not negative; the result of a call is
not assigned to a parameter by reference; every call has an argument. Divisors are not zero and
only integers are ordered.

**Mutants.** Every property of a passing run fails for a mutated operator that a plausible bug
could produce (a missing paternity test, a result not copied, a move that keeps its source, an
off-by-one in the arguments, an unsorted free list, an import that copies the start address
only, a position that goes back by bytes, a variable that counts as constant although it is
assigned again, a temporary returned twice, a rule with its targets swapped, a queue that is
never drained, a label redirected to itself). The mutants are the definitions that stand
directly before the one they mutate.

**Fairness.** `Assembler` assumes weak fairness of the steps of `backptch`, `Compiler` that of
the optimiser. Both are one thread in a loop, so a step that can be taken is taken; that the
input comes to an end is not assumed, the properties start when it has. The termination of the
keyhole rules is stated as an invariant instead, a bound on the turns of the loop for one line
(`turns` counts them).

**Refinements.** `StringValue` implements `StringSpec` (`StringsAsSpecified`), `RegAlloc`
implements `RegisterPool` (`PoolSpec`; both are also proved), and the compiler is a client of `RegAlloc`
(`CompilerIsClient`).

## Proofs

`VMFrames_proofs` proves `Spec => []IInv` for every program, number of registers, stack depth
and allocator satisfying `ProgramAssumption`, `AddressAssumption` and `FreshAssumption`, and
from it `TypeOK`, `NoDangling`, `NoDoubleFree` and `OwnersBelow`. Programs that map their own
values are among them; the invariant speaks of the values that were not (`Safe`), and
`RememberSafe` is why that is inductive: what happens to a value that was mapped makes no other
one unsound. The four are inductive only together: freeing a frame is harmless to the frames below because they reach no value of it
(`OwnersBelow`) and to the frame itself because its own values are in one register each
(`NoDoubleFree`); adopting a result keeps `OwnersBelow` because the result was in the frame that
disappears. The steps are organised by what a handler does:
`Called` is what the three call handlers have in common and `PushSafe` shows it safe; `PopSafe`
with `PopPlain` and `PopResult` serve the returns, `ClearRegister` and `SwapSafe` the moves,
`AmapSafe` amap.

`VMIsolation_proofs` proves the other four properties of the run `frames`. It first forgets the
operands: every instruction rearranges the registers of the current frame (`Rearranged`), pushes
a frame (`Pushed`), pops one (`Popped`) or ends the program (`Ended`), which `Steps` shows from
one lemma per handler. `CallersUntouched` and `LostOnlyUnderResult` follow from the kind of the
step and the invariant before it, `ResultIsPrivate` from the invariant after it as well: no
register but the return register can denote a value that has just become the caller's.
`ArgumentWindow` is inductive relative to that invariant. Its key is `SameOwner`: a value that a
register denotes before and after a step has the same owner, so what a callee may reach changes
only with what its caller's registers denote, and those are untouched while it runs.

`RegAlloc_proofs` is about any counts, one included. It proves without a condition that the types
hold and that the free list ascends strictly (`Ordered`), and on that ground `FaultsExactly`: as
long as the free list is disjoint from the registers in use and together with them is all of
1 .. num_registers - 1, a step that takes one register from a row of two or more hands out one
that stays free, and every other step keeps both and is a step of `RegisterPool` or changes
nothing of it. So `HeldNotFree`, `NothingLost` and the refinement hold of every behaviour without
such a step (`NoSingleFromRow`), and of no other: the condition is as weak as it can be.
`regalloc_no_args` shows a behaviour that has one.

`VMLink_proofs` proves all five invariants of the run `link`, for any number of modules, indices,
procedures and registers, from `LinkAssumption`: the pools are what the assembler can write
(`IsProgram`), and `NONE` is no register. The inductive invariant says of each structure what the
entries visited so far have made of it, which is why it needs the position of the loop
(`Built`, `Resolved`, `Allocated`, `Freed`): a tree holds an index just if a visited entry
exposes it, and the procedure or the register of such an entry (`ProcedureTree`,
`RegisterTree`); a procedure visited has the code of its provider (`CodeEntries`,
`ImportEntries`); a global is the register of its index, or a value of its own (`PrivateCells`).
`SharedByIndex` needs both directions of `RegisterTree`: two globals are alike only if some entry
has exposed both under one index. `FreedOnce` rests on `OwnRegister`: among the globals that
denote a value there is exactly one in the module that owns it, which is the one the owner test
of the last loop frees. `LinkedIsRunnable` is the step to the next component: what is left when
linking ends satisfies what VMFrames assumes of a program.

`Assembler_proofs` and `AssemblerPool_proofs` prove all six invariants of the run `assembler`, for
modules of any lines and length, with rings of branches or without, from `AssemblerAssumption`:
what the parser hands over has the operands its grammar demands. The
argument has five layers, each inductive only with those before it that it builds on:

| Invariant | Says | Gives |
|---|---|---|
| `Base` | the code of the lines follows without gaps in their order; an instruction's cells hold what its operands say; the references of a label are exactly the operand cells that name it | `OperandsInFrame` |
| `Redirected` | after `optimise_labels` no defined label stands before a branch to another one; after backpatching the operands hold what the labels say | `NoBranchToBranch` |
| `Errors` | the trees mirror the lines that were read (`Tracked`); there is no error just if the lines are right so far, and in the end if what they use is there | `ReportsErrors` |
| `Paths` | a label is on the way from its line along the branches, and a label that was taken round a ring of them has left another label of the ring where it is | `BranchesReach` |
| `Linked` | procedures have an entry, also after errors; as long as there is no error, each procedure has one and no other, and each exposed index one that leads to its procedure | `TypeOK`, `PoolLinked` |

`Linked` is conditional because the code's error paths break it: a duplicate definition is
written over the first entry of the pool, whatever that is. `Errors` needs the
trees rather than the lines alone, since the code decides by looking at them; and it has to know
that a procedure that is only called has a reference (the end-of-file check tests that).
`AssembledIsLinkable` closes the chain: a module that assembles satisfies `IsProgram`. So what
the assembler writes may be linked, and what linking leaves may be run.

`BranchesReach` is about `Destination`, a recursive function that follows the branches. What is
needed of it is proved by induction all the same, as a statement about sets: `SetInduction` takes
the set of the numbers a claim holds for, and rests on the well-founded order of the naturals. So
`Arrives` shows that a path over n points that ever reaches a fixed point is there after n steps
(by the pigeonhole principle, as it could only repeat itself). "On the way" is then a matter of
closed sets, and `Paths` needs no path: every set of cells that holds the line of a label, and
with a branch also the line of the label it names, holds the cell where the first label is. That
leaves rings of branches, which have no end to arrive at. There `Paths` says that either no label
of the ring was moved or two of them are in one place, and `Redirected` excludes the latter once
`optimise_labels` is through.

`StringValue_proofs` proves the two invariants of the run `strings`, `StringInBuffer`, the
refinement of `StringSpec` and `OverrunsOnlyItself`, for any registers, constants and characters of Unicode and for texts of any length
(`StringAssumption`). The invariant is that every value is sound (`Sound`): there is a text whose
UTF-8 is in its buffer, its lengths are those of the text, its position is at a character of it,
and the buffer is large enough. The proof climbs from bytes to instructions:

| Level | Facts |
|---|---|
| one character | the four spellings of UTF-8 (`Spelt1` to `Spelt4`), from the ranges and the div and mod of `utf8catcodepoint`: the first byte tells the length and is no continuation, the others are, and the character is found again (`Decoded`, `SteppedBack`) |
| a text | the encoding of a sequence is a homomorphism (`EncodeJoin`) and injective (`EncodeInjective`: from the end, the last character is recognised by the bytes alone); a character stands at the length of the encoding of those before it (`Place`) |
| a position | one character on or back (`ForwardMoves`, `BackwardMoves`), n of them (`ForwardRepeated`, `BackwardRepeated`), and so each of the six ways of `string_set_byte_pos` ends where it should (`SetBytePos`), also during a search (`VisitedPlace`) |
| a buffer | the shifts of `buffer_size` never give less than what was asked for (`BufferLarge`) |
| a function, an instruction | each function of `rxvmvars.h` makes a sound value of sound ones; each instruction is a step of `StringSpec` between the texts |
| a write | each function but the append to itself ends its writes at the length that it asked the buffer for (`ExtendedFits`), and a position that is moved changes nothing of that (`Fits`) |

`EncodeInjective` is what makes the refinement work in both directions: the text of a value is
determined by its bytes, and `SEQ`, which compares bytes, compares texts. `CONCCHAR` is the
step that needs care, as it moves the position of its source first, which may be its target.

`Keyhole_proofs` proves `TypeOK` and `LabelsOnce` of the run `keyhole`, for every dialect of
lines, length of program and length of queue (`KeyholeAssumption`). The inductive invariant
`Kept` divides the labels of the source and the unique labels made so far between the code that
has been written and the queue: each is defined by one line (`Once`), and every line has the
operands of its instruction (`AllLines`). The second part is needed for the first, since a rule
binds its variables to the operands it finds: without them it would write a label of no name.
The argument has three parts:

| Part | Facts |
|---|---|
| the rule table | each of the eleven rule sets keeps the label it matches, uses in its outputs only what an input binds or the one new label 2, and defines that label behind its last line and nowhere else (`EveryRuleSet`) |
| the search | wherever it starts and whatever it skips, each rule up to the one reached was matched by exactly one line, and its names are bound to operands of such lines (`Searched`; `SearchSearched` by induction over the lines) |
| the rewriting | a line that no rule matched is unchanged; what replaces the others defines the labels they did, and the line of the last rule the new one (`RulePiece`); so the queue defines each label once again, and the counter moves past the new one (`RewrittenOnce`, `RuleInQueue`) |

`Searched` has to say that each rule is matched by one line only: were the last rule matched by
two, its output, with the new label, would be written twice. That the lines which
leave the queue are a prefix of it (`Cut`) divides the labels anew when a line is queued.

**Only model-checked.** `LabelsSettle`, `OptimiserSettles` and the other temporal properties under
fairness are liveness, which is out of the prover's reach. The trees and machines of Compiler
(RexxTree, Compiler) are RECURSIVE operators, which the prover cannot be given; so its `TypeOK`,
`CompiledMeaning` and `CalleeKeepsArguments` stay with TLC. Of Keyhole, `SameMeaning` and
`NotSlower` compare two runs of a machine, step by step through a program that one line may have
changed everywhere: an induction over the length of the run, for each of eleven rule sets, that
has not been attempted. `QueueFits` and `Settles` depend on how many matches one more line can
make possible, for which the table of rules gives no bound that could be read off it: they are
claims about the sizes in the instance, and TLC's.

## Known divergences

Those with a run are the findings of `PROJECT.json`. The others were met while modelling; the
instances of the runs leave them out, and none is hidden by an assumption that is not listed.

- *Interpreter.* A result returned over an old value loses it (`rxvmintp.c:464`). `amap` of a
  value of the frame itself has it freed twice or at once (`own_map_twice`), and
  `amap` computes the place of an argument from the locals of the entry point
  (`rxvmintp.c:1751-1770`). The loop that frees globals reads the
  owner of a global that an earlier module has freed (`rxvmintp.c:2333`). A copy of an empty
  string leaves the copy without a buffer to extend; counting the characters of a string ends at
  a NUL; `string_cmp` assigns the truth value of `memcmp(...) != 0` (`rxvmvars.h:301`), so of two
  strings that differ in a byte each is greater than the other; appending a string to itself copies beyond its end (`rxvmvars.h:322`, the run
  `self_append`). `trimr` and
  `triml` leave the length in characters and the position as they were (`rxvmintp.c:709-749`).
- *Optimiser of the compiler.* A constant is propagated into and out of branches without regard
  to control flow. AND and OR with one constant operand lose the conversion of the other, and
  drop a call in their first operand if the second one is false (`rxcp_opt.c:311-378`).
  `compare_nodes` orders strings as `string_cmp` does (`rxcp_opt.c:258`). A division by a constant zero divides by
  zero in the compiler (`rxcp_opt.c:547-568`).
- *Emitter.* TO and BY read the register of a symbol again in every round, and a negative FOR
  runs on. The result of a call that is assigned directly to a parameter by reference replaces
  its register. The registers of a CALL's result, of the temporaries of AND and OR, and of a FOR
  that counts a constant symbol are not given back. Strict comparisons, and powers of a constant
  base, are emitted as instructions that the machine does not have (`rxcpemit.c:1181-1203`).
- *Assembler.* The keyhole rules match a1 and g1 as r1 (`rxas_opt.c:416`); a ring of branches
  keeps the keyhole optimiser (`rxas_opt.c:991`) and `optimise_labels` (`rxasassm.c:107`,
  `LabelsSettle`) going for ever.

## Not modelled

Scanners and parsers (generated by re2c and lemon from grammars), the validator's rewriting of
the parser's tree, the command lines, the loader and the disassembler (input and output), the
instruction table beside the operands of the operators, the AVL tree (a finite map here), the
S/370 packaging, the REXX library (programs in the language). re2c and lemon themselves are
vendored build tools, by far the largest part of the files in `src`; they are no part of the
system's own logic.

Of the instructions of the machine, floating point, conversions, powers, and the time and random
instructions are left out; of the compiler, floats, powers, strict comparisons, unary plus,
ASSEMBLER and ADDRESS. What Keyhole and Assembler leave out: rule operands of
the kinds that no rule uses, string constants and their escapes, the growth of the code buffer,
error messages. Instructions that use a register no operand names (`inc0`, `dec0`) are not in
the dialects of Keyhole; the compiler does not emit them. Memory exhaustion and malformed rxbin
files are outside the model.

## Plan

1. Proofs: the keyhole rules, one at a time, as lemmas about `Run`.
2. The numeric instructions with loops and edges (power, conversions).
3. Floats, and the validator's passes before the optimiser.
