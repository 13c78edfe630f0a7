# Verification of the Evomorph runtime

Evomorph (易衍) runs programs written in a set of 64 instructions named after
the hexagrams, and evolves such programs by a genetic search. This directory
holds TLA+ modules that model the C runtime, TLC configurations that check them
on small instances, and proofs that TLAPS checks for every value of the
constants. `PROJECT.json` ties every definition to the lines it models.

    tlc -workers 2 -config VM2Control_any.cfg MCVM2Control     # one run
    tlapm VM2Control_proofs.tla                                # one proof module

## 1. The system

The repository has 873 files; most are declarative `.evo` descriptions, assembly
programs, generated reports and debug symbols. The logic that runs is in C:

| Component | Files (under `src/`) | State | Operations | What is hard |
|---|---|---|---|---|
| IChingVM2, control flow | `evomorph/native/runtime/ichingvm2.c` | pc, state, call stack of fixed size, link register R30, cycle counter | create, reset, load (4 ways), run with a budget, step; 64+64 instructions | three kinds of return address; a call stack that fills up silently; loads that keep half of the machine |
| IChingVM2, heap and stack | same | one array of 1 MiB, `heap_ptr`, SP | two allocators, stores, pushes, pops, PUSHA/POPA | the stack lives in the heap; 32-bit sums; SP saved while it moves |
| IChingVM2, files | same | `g_open_files`, one table per process | open, read, write, seek, size, close | shared by all VMs, outlives them |
| IChingVM2, assembler | same | label table, program memory | two passes | the passes count sizes by different rules |
| EvoVM | `evomorph/native/runtime/evomorph_runtime.c` | pc, state, byte stack, locks, registers | create, reset, load, run, step | spin locks in a machine of one thread; runs in pieces; one-byte addresses; SP is a register that programs write |
| Evolution engine | same | population, `best_ever`, config | initialize, one generation, evolve | allocation failures half way; individuals copied bit by bit |
| IChingVM2, arithmetic and system calls | `evomorph/native/runtime/ichingvm2.c` | registers, flags, bytes of the heap | arithmetic, branches, loads and stores in two dialects; pack, unpack, copy, fill, hash, compare | everything is written twice; sums of 32 bits; branches named after signed orders |
| First bootstrap VM | `bootstrap/runtime/ichingvm.c` | program, byte stack and heap in three arrays, locks | load, run, 64 instructions, assemble | spins on locks; jumps of one byte |
| Bootstrap VM | `bootstrap/runtime/ichingvm_bootstrap.c` | text, stack, heap and locks in one memory, table of files | load, run, 64 instructions, 22 system calls, free, assemble | the stack grows into the text; zero bytes are system calls; nothing checks lengths |
| Metacircular VM, compiler and assembler | `evomorph/bootstrap/*.evoasm` | in VM memory | interpreter loop, passes | not modelled yet |
| Python assembler | `bootstrap/full/evoasm_assembler.py` | labels | two passes | not modelled yet |
| MCP server | `ai/mcp/evomorph_mcp_server.py` | none between requests | request loop | not modelled yet |
| Linker, loader, image, stdlib, hub, SDK, CLI, editors | `*.evo` | - | - | lists of hexagrams per locus; nothing to model |

How they interact: `evb_runner.c` and the tests are hosts that call the API of
`ichingvm2.h`; the evolution engine keeps its population and `best_ever` inside
an EvoVM and judges programs by their shape, without running them; the VMs of a
process share only the table of open files. The two bootstrap VMs never meet,
but the second replaces the first: it is given the same files, by assemblers of
the same text. Everything is sequential C. The
concurrency is that of callers: several VMs in a process, a host that calls in
any order, memory that runs out anywhere.

## 2. Modules

| Module | Models | State and actions |
|---|---|---|
| `VM2Control` | control flow of an IChingVM2 and its host | the machine variables are the fields of `IChingVM2`; one action per kind of instruction and per API call; `frames`, `inherited`, `dropped` are history |
| `ProgramWalk` | the abstract specification of running a program: a walk over its control-flow graph | refined by `VM2Control` under a careful host |
| `VM2Memory` | the array `vm->heap` with both allocators and the stack | one action per allocator, store, push and pop of a word or byte |
| `VM2Registers` | PUSHA, POPA, PUSH, POP when SP is among the registers | the stack in words; `saved` is the history of what was pushed |
| `VM2Files` | the handle table of a process and the VMs on it | one action per file syscall, and the end of a VM; `held` is what each program believes |
| `VM2Stores` | the last three, one subject per behaviour | `subject` says which of them moves |
| `VM2Assembler` | `ichingvm2_assemble`, line by line, and what the steps read back | one action per kind of line and pass |
| `EvoVM` | the machine of `evomorph_runtime.c` and its host, with loads that fail for want of memory | one action per kind of instruction and per API call; `taken`, `foreign`, `pushed`, `moved`, `failed` are history; `fault` is a fetch through NULL or a write past `vm->stack` |
| `VM2Dialects` | the instructions of `step_iching` and `step_native` that correspond, on two machines side by side | one action: both machines execute the same instruction; `compared`, `outside` are history |
| `VM2Library` | system calls 10 to 20 | one action per call; `fields` is the history of what was packed and copied |
| `BitOps` | `&`, `\|` and `^` of C on words of any width | no state |
| `Hexagrams` | the instructions the two bootstrap machines have in common | operators on a machine, no state |
| `SeedVM` | the first bootstrap machine and its process | one action per turn of the loop of `vm_run`, its end, and its return; what one turn does is an operator per instruction |
| `BootVM` | the second, with its system calls, and its process | likewise; a system call is the set of machines it can leave |
| `BootAssembler` | `assemble_file` of both, over parsed lines | a function from lines to bytes |
| `Succession` | both machines on one file, compared | they advance together until one is done; `hist` is history |
| `Selection`, `Crossover` | the genetic operators as functions of what the random generator draws | no state |
| `Evolution` | population, generations, `evo_evolve`, `best_ever` | one action per API call; `evo_evolve` is split at its generations; `top`, `seed`, `did` are history |
| `EvoOwnership` | which memory the engine holds, allocates, copies and frees | blocks of a heap; one action per API call |
| `EvoEngine` | the last two, one subject per behaviour | `subject`, as in `VM2Stores` |
| `MC...` | instances for TLC | programs, sources, seeds; `MCOperators` also checks the selections, the crossovers, `VM2Dialects` and `VM2Library`, one subject per behaviour |
| `Lemmas` | what several proofs need of numbers, sequences and iteration | |
| `..._proofs` | theorems | |

`VM2Stores` and `EvoEngine` compose parts that share nothing: in a behaviour of
the composite one part moves and the others stand still. The assumptions on the
constants of a part are then a definition (`SavingAssumption`, `BlocksAssumption`,
...) that the composite assumes.

A definition whose comment begins with "Slip" is not part of a model: it is the
operator that follows it with a plausible mistake, used to see that a property
notices (`mutants` in `PROJECT.json`).

### What the abstractions leave out

* Contents of registers and heap, where a property does not speak of them: a
  condition is a free choice, an address found in a register is any of the set
  `to` of the instruction.
* Instruction lengths in `VM2Control` and `EvoVM`: addresses count instructions
  and no jump goes into the middle of one. What length an instruction has is the
  subject of `VM2Assembler`. In `EvoVM`, `ByteSize` is the number of addresses one
  byte can tell apart: 64 instructions for 256 bytes.
* In `EvoVM`, an instruction that names SP (register 13) is a kind of its own:
  "pushsp" and "popsp" for PUSH_UP and WELL, "move" for every other one that
  writes its register (RECV, MICRO, ABOUND, THRUST, FOLLOWING, ADVANCE, ...).
  What "move" leaves in SP is any value of the set `to`. A WAIT, a BRANCH or a
  target that reads SP is a free choice like those that read any register. A
  write past `vm->stack` is undefined in C: the behaviour ends there.
* `VM2Dialects` covers the instructions both dialects have; those of one alone
  (LEA, the average, the shift by one bit) are left out, and so is where
  instructions lie. `VM2Library` has words of four bytes as the code, but a byte
  has `Byte` values. The bootstrap machines are modelled byte by byte, with
  registers of 24 bits; a conversion of text to instructions starts from tokens,
  energy is counted in whole units, and what goes to standard output is a sequence
  with one element for each call that prints, SYSCALL_WRITE among them.
  `assemble_file` has a set of outcomes: the code, or a failure, because either
  file may fail to open or the code fills the buffer; that malloc returns this
  buffer is assumed.
* `VM2Memory`, `VM2Registers` and `VM2Files` follow a well-behaved program: it
  stores inside its blocks, pops what it pushed, uses handles it holds. A program
  that does otherwise can overwrite anything it can address, by design.
* `Evolution`: modifiers and operands of genes, which do not enter the fitness;
  rates and random numbers become choices; fitness is an integer. `EvoOwnership`
  leaves out what is in genes, and structs that nobody keeps.
* Not modelled at all: the output buffer and printing of IChingVM2, its clock,
  splitting text into tokens, the registers (but for SP) and heap of the EvoVM, its
  counters of SYNC and FUTU, `config`, `env_targets`, `platform_scores`. Of the
  components: the compiler and the VM written in assembly (programs over strings
  in a memory that `VM2Memory` and `VM2Library` describe; the interpreter loop
  could refine `ProgramWalk`), the Python assembler, the MCP server (answers one
  line after the other and keeps nothing), the `.evo` descriptions (data that
  nothing executes), `evb_runner.c` (a host that loads once and runs once: a
  behaviour of `vm2_control_careful`).

## 3. Runs

| Run | Bounds | Shows |
|---|---|---|
| `vm2_control_any` | six programs, call stack of 2, budgets 0, 3, 7, steps below 7 cycles | any host: `CallsMatched`, `RunReturns` |
| `vm2_control_careful` | all 343 programs of three instructions over a menu of seven, call stack of 2 | `WalkRefined` |
| `vm2_stores` | heap of 6 bytes, stack of 4, words of 2 bytes, 3 requests, 13 for 2^32; 3 registers, SP in the middle, stack of 6 words; 2 VMs, 3 handles, 5 opens, 2 positions | `BlocksApart`, `ZeroNamesOne`, `StackKept`; `Restored`; `OpenIsListed`, `HandlesKept` |
| `vm2_assembler` | all sources of up to 4 lines over two menus, 2 labels, 26 bytes | `References`, `BackwardReferences`, `ReadAsWritten` |
| `evo_vm` | six programs, two locks, stack of 2, byte of 6, budgets 1 and 5; one of them sets SP to 0, 1, 2 and 3 and pushes, pops into SP and returns | `LocksAccounted`, `FaultsExplained`, `RunReturns`, `ReturnToPushed` |
| `operators` | populations of up to 4 with 3 levels of fitness, parents of up to 5 genes; programs of 3 instructions over words of 8 bits with the values 0, 1, 128, 255 and a heap of 5; library calls with bytes of one bit, words of four of them, any order until an error | `FitterIsLikelier`, `TournamentIsWon`, `NoGeneLost`; `DialectsAgree`, `BranchOrders`; `FieldsKept`, `StringsAgree` |
| `evolution` | 3 individuals, 1 elite, opcodes of 1 bit, two seeds of different length, up to 3 generations a call, memory running out at all four points; 20 blocks (two populations and two generations) | `BestIsTop`, `LengthOfSeed`, `ElitesSurvive`; `NothingDangles`, `BreaksOnlyWithArray` |
| `succession` | registers of 24 bits (3 bytes), stack of 48 bytes, heap of 56, memory of 112, 8 locks, 2 files, budgets of 3 cycles and of the default, here 40; every instruction after each of a set of first ones, system calls with arguments inside, at the end and outside of the memory | `Agree`, `WordsKept`, `Contained`, `NoFileLost`, `BlocksApart`, `Ends` |
| `evolution_final` | as `evolution`, with enough memory | violation of `ReturnsBest` |

Why the bounds are enough to be interesting: each limit of the code is reached
and passed. The call stack is overfull (`Recursive`, `Countdown`), budgets end
runs in the middle of calls and are used up before a run starts, requests are
refused, granted and wrapped, blocks meet the stack, the handle table is full
with handles nobody holds any more, label table and program memory overflow,
the byte stack is pushed when full, popped when empty and pushed with SP past
its end, populations have
holes, and generations fail half way. `OpSizes` and `Requests` of `vm2_stores`
include a request that goes around the modulus. In `operators`, 128 is the sign
bit, 255 overflows with anything, and the heap ends in the middle of a word; the
addresses of the library calls include one whose sum with a length wraps. In
`succession`, stack, heap and text are so small that a program of a dozen
instructions is overrun by its own stack, that the stack meets the bottom of the
memory, and that a block, a lock and a string reach the end of the heap; the
menus reach every opcode of the assembler, and each entry of `Parts`, the list of
differences, is needed: without it `Agree` fails in this run.

Deadlock is checked except where the system may stop: the assembler returns,
the processes of the bootstrap machines end, a step through NULL or a push past
the stack ends the process of an EvoVM (`fault`), an invalid free may end the process of an
evolution (`did = "abort"`, `running = FALSE`), the bound on blocks is reached,
and in `operators` a program has its three instructions or an error.

### Fairness

`RunReturns` assumes `WF_vars(inRun /\ (Step \/ RunEnd))` in `VM2Control`, and in
`EvoVM` the same while there is no `fault`. The loop of `ichingvm2_run` and
`evo_vm_run` is sequential code that waits for nothing, so once entered it takes
its next step. Nothing is assumed of the host, and nothing of the program: a
`LOCK` or a `WAIT` that is tried again for ever is a step like any other, which
is why the budget has to end it. A fetch through NULL, or a push past the stack,
ends the process in the middle of a run; `RunReturns` of `EvoVM` excepts both. `Ends` of `Succession`
assumes `WF_vars(Next)`: `main` is one sequence of calls, from loading the file to
`vm_free`, and each process goes on as long as it can. The safety properties
depend on neither.

### Disagreements seen while modelling

The run `evolution_final` expects a violation: `evo_evolve` never evaluates the
children of its last generation (`evomorph_runtime.c:1453-1475`), so it may
return something worse than what lies in the population, against "输出最优个体"
(`docs/architecture.md:272`, the last box of a flowchart that otherwise draws the
loop as the code has it). The counterexample calls `evo_population_destroy`, which
a C library that checks its pointers does not survive (below); the order of the
evaluations it shows is that of the loop and does not depend on it.

Others, which the models reproduce and properties are stated around:

* `evo_population_destroy` frees pointers into the middle of an array
  (`evomorph_runtime.c:916-924` with `:951-956`). The model, and a build with the C
  library of Linux, end in `free(): invalid pointer` where `test_runtime.c:98`
  prints success. `BreaksOnlyWithArray` says that nothing else in the engine does
  such a thing.
* A call on a full call stack is lost without a sign (`ichingvm2.c:557`). Until
  then the stack is exactly the open calls over what earlier programs left (first
  part of `CallsMatched`); after it, that with some calls left out (second part,
  `Embeds`). In the walk a RETURN goes behind the innermost open call until a call
  was lost, then behind some call of the program (`LeaveAstray`).
* The stack and the blocks share an array (`:614`) that `docs/architecture.md:47`
  draws as two. `StackKept` says that no pushed byte is lost except inside of a
  granted block. `vm->stack` is never used.
* A last instruction without an immediate is refused and halts the machine
  (`:471`, `:706`): the exception in `ReadAsWritten`.
* The assembler's first pass does not count a decimal operand of an ICHING
  instruction or a bare label, and the second emits them (`:1052` against
  `:1139`); a native instruction that needs a value and has none is emitted
  without (`:1196`): the conditions `AllClear` and `Clear`.
* RETURN of the EvoVM takes a one-byte address (`evomorph_runtime.c:177`): the
  condition in `ReturnToPushed`. SP is `registers[13]`, which any instruction with
  a destination register can write (`operands[0] & 0x0F`, `:169`, `:273`, `:280`,
  `:293`, `:349`): a RETURN can then take a byte nobody pushed, the condition
  `moved` of `ReturnToPushed`, and a PUSH_UP, which asks only whether SP is above
  0 (`:229`), writes past `vm->stack`, as `FaultsExplained` says.
* Loads of the EvoVM keep locks and stack (`:740`): `foreign`.
* A halted, failed or trapped EvoVM is set running by the next `evo_vm_run`
  (`:761`); `docs/architecture.md:140-143` draws an arrow back from PAUSED only.
* Rank selection compares with `>=` (`:1176`), which gives the first rank one
  draw more than its weight and the last none: comment at `FitterIsLikelier`.
* `evo_evolve` stops when `best_ever` stays the same for 20 generations
  (`:1460-1472`), not by the variance that `docs/architecture.md:156` names.
* `best_ever` survives a new seed population (`:1206`), and is lost when the copy
  of its successor fails (`:1315`): the second sentence of `BestIsTop`.
* Immediates are little-endian, `docs/architecture.md:119` says big-endian.
* A load that finds no memory has freed the old program and leaves its length
  (`evomorph_runtime.c:747`); the next step reads through NULL: the condition of
  `failed` of `FaultsExplained`.
* 0 is the answer of an allocator that refuses and the address of its first block
  (`ichingvm2.c:70`): `ZeroNamesOne` says how far a program can rely on it.
* A byte loaded from outside of the heap is 0 in one dialect and leaves the
  register alone in the other: the condition `~ outside` of `DialectsAgree`. The
  branches JL to JGE, named after orders of signed numbers, follow the unsigned
  one (`BranchOrders`). INT of the native dialect does nothing
  (`ichingvm2.c:851`), so only ICHING instructions make system calls.
* The header of `ichingvm_bootstrap.c` (`:20`) places the program at 0x00110000;
  `main` loads it at 0, below the stack, which grows down over it (`WordsKept`,
  and the entry of `Parts` about pushes).
* `vm_run` of `ichingvm_bootstrap.c` writes back copies of its counters, over what
  CREA added to the energy meanwhile (`:962`), and CONTEMPLATE reads a counter that
  stands still: the last lines of `Agree` and of `Parts`.
* A file opened while the table of the bootstrap VM is full has no handle and is
  never closed (`:201`): the condition `~ hist.filled` of `NoFileLost`, whose first
  part holds afterwards too.
* The bootstrap VM checks neither the addresses of system calls nor, near the top
  of the address space, the `pc` of a RETURN (`:967`, where `pc + 3` wraps). These
  are `AddressCalls` and the second cause of `hist.wild`; `Contained` says that
  nothing else makes it fault, a program that writes SP included.
* A bump pointer that wraps (`ichingvm2.c:69`, `ichingvm_bootstrap.c:252`) goes back
  over live blocks: the condition of both `BlocksApart`. Locks of the bootstrap VM
  are bytes of its heap (`:429`), and no property keeps them apart from blocks.
* A VM that ends with open files leaves their slots in use for good
  (`ichingvm2.c:395`); `HandlesKept` allows it.

## 4. Proofs

Proved with TLAPS, for every value of the constants under the assumptions named
in the modules (`ASSUME ...Assumption`), which the runs evaluate.

| Theorem | States |
|---|---|
| `VM2Control_proofs!TypeCorrect` | `Spec => []TypeOK` |
| `VM2Control_proofs!CallsAreMatched` | `Spec => []CallsMatched` |
| `VM2Control_proofs!CarefulRefinesWalk` | `CarefulSpec => WalkRefined` |
| `VM2Stores_proofs!EachStore` | `StoresSpec => Spec /\ R!Spec /\ F!Spec`: `VM2Memory`, `VM2Registers` as `R`, `VM2Files` as `F` |
| `VM2Stores_proofs!TypeCorrect` | `Spec => []TypeOK` |
| `VM2Stores_proofs!BlocksStayApart` | `Spec => []BlocksApart` |
| `VM2Stores_proofs!StackIsKept` | `Spec => []StackKept` |
| `VM2Stores_proofs!ZeroNamesOneBlock` | `Spec => []ZeroNamesOne` |
| `VM2Stores_proofs!RegistersTyped` | `R!Spec => []R!TypeOK` |
| `VM2Stores_proofs!SavedIsRestored` | `R!Spec => Restored` |
| `VM2Stores_proofs!NoFileIsLost` | `F!Spec => []OpenIsListed` |
| `VM2Stores_proofs!HandlesAreKept` | `F!Spec => []HandlesKept` |
| `VM2Assembler_proofs!TypeCorrect` | `Spec => []TypeOK` |
| `VM2Assembler_proofs!BackwardReferencesHold` | `Spec => []BackwardReferences` |
| `VM2Assembler_proofs!ReferencesHold` | `Spec => []References` |
| `VM2Assembler_proofs!ReadAsWrittenHolds` | `Spec => []ReadAsWritten` |
| `EvoVM_proofs!TypeCorrect` | `Spec => []TypeOK` |
| `EvoVM_proofs!LocksAreAccounted` | `Spec => []LocksAccounted` |
| `EvoVM_proofs!FaultsAreExplained` | `Spec => []FaultsExplained` |
| `EvoVM_proofs!ReturnsGoToPushed` | `Spec => ReturnToPushed` |
| `Evolution_proofs!EachView` | `EngineSpec => Spec /\ O!Spec`: `Evolution`, and `EvoOwnership` as `O` |
| `Evolution_proofs!TypeCorrect` | `Spec => []TypeOK`, for a fitness that is an integer |
| `Evolution_proofs!BestIsTopOfAll` | `Spec => []BestIsTop`, likewise |
| `Evolution_proofs!LengthIsKept` | `Spec => []LengthOfSeed`, likewise |
| `Evolution_proofs!ElitesAreKept` | `Spec => ElitesSurvive`, likewise |
| `Evolution_proofs!OwnershipTyped` | `O!Spec => []OwnershipTypeOK` |
| `Evolution_proofs!NothingHeldDangles` | `O!Spec => []NothingDangles` |
| `Evolution_proofs!OnlyTheArrayBreaks` | `O!Spec => BreaksOnlyWithArray` |
| `Operators_proofs!TournamentsAreWon` | `Spec => []TournamentIsWon` |
| `Operators_proofs!FitterAreLikelier` | `Spec => []FitterIsLikelier` |
| `Operators_proofs!GenesAreKept` | `Spec => []NoGeneLost` |
| `Operators_proofs!DialectsMeanTheSame` | `Spec => []DialectsAgree` |
| `Operators_proofs!BranchesFollowOrder` | `Spec => []BranchOrders` |
| `Operators_proofs!PackedFieldsAreKept` | `Spec => []FieldsKept` |
| `Operators_proofs!EqualStringsHashAlike` | `Spec => []StringsAgree` |
| `Succession_proofs!FilesAreKept` | `Spec => []NoFileLost` |
| `Succession_proofs!BlocksStayApart` | `Spec => []BlocksApart` |
| `Succession_proofs!WordsStay` | `Spec => []WordsKept` |
| `Succession_proofs!StaysInside` | `Spec => []Contained` |
| `Succession_proofs!TypesAreKept` | `Spec => []TypeOK` |
| `Succession_proofs!MachinesAgree` | `Spec => []Agree` |

The arguments:

* **Calls.** `CallsMatched` is inductive together with `TypeOK`. The lemmas
  `PushAbove` and `PopAbove` say that appending to and removing from
  `inherited \o frames` touches `frames` alone while it is not empty. For the part
  about lost calls a position map into `inherited \o frames` is extended by a call
  that fits, kept by one that is lost, and cut by a RETURN.
* **The walk.** The open calls of the walk are `frames`, its `lost` is `dropped`.
  Under a careful host nothing is inherited, so until a call is lost the top of
  the call stack is the innermost open call, by `CallsMatched`. After that a step
  is one of the walk if the address it takes lies behind some call of the program:
  the invariant `Sites` says so of every entry of the call stack and of the link
  register. Budgets, pauses and resumptions are stuttering steps.
* **Blocks.** `BlocksApart` is strengthened with "all blocks end at or below
  `heap_ptr` (one more for ALLOC.0)"; a grant goes at or above it.
* **The stack.** `StackKept` is inductive as it stands: a store changes bytes of a
  block only, a block granted exempts its bytes, and a push writes the bytes that
  it then remembers.
* **best_ever.** `BestIsTop` is inductive by itself once types are known; the
  work is in the types, that is in showing that crossover, mutation and
  selection of genomes give genomes, for populations of every size.
* **Address 0.** `heap_ptr` leaves 0 with the first block that is not empty and
  does not come back before a request wraps.
* **Handles.** `OpenIsListed` and `HandlesKept` are inductive together with the fact
  (`UnusedFiles`) that no slot holds, and nobody has moved, a FILE that `fopen` has not
  returned yet. That `alloc_fd` finds a free slot if there is one is the least
  element of a set of numbers (`FirstIsFree`).
* **Registers.** What has been saved is a chain of frames: the last ends at SP,
  each begins where the next ends, and each lies in memory as it was stored, with
  SP itself lowered by what had been pushed before it. A push writes below all
  frames, a pop reads exactly the last.
* **EvoVM.** On the stack lies the low byte of what was pushed, at the same place
  (`Stored`), and while SP was not written otherwise that is all there is on it:
  then RETURN goes where it should whenever that byte is the address, and a push
  stays in the array. Locks and failed loads need no more than the types.
* **Lengths.** Copies, the three crossovers and mutation give children of the
  longer parent's length (`Litter`); so does selection from a population whose
  members are holes or as long as the seed (`Sized`).
* **Elites.** Sorting is an injection of the places of a finite population into
  themselves, hence onto, so no individual of a level is lost (`SortedKeeps`); in
  the sorted one those that reach a level are the first (`ClosedDownwards`), and
  the next population begins with them.

* **The assembler.** What a line reads as depends only on which labels are known.
  The first pass knows those above a line and the second all of them, so a
  position function, the sum of the sizes the first pass counts, says where a
  label is put (`FirstInv`), and another where the second pass emits each line
  (`SecondInv`); under `AllClear` both count the same sizes (`ClearSizes`), so the
  two functions agree. For `BackwardReferences` the second pass alone is enough
  (`BackInv`): what it resolved lies above, where it stays.
* **Selections and crossovers.** A tournament is won by the first of the greatest
  (`FirstOfGreatest`). Every draw of the rank selection hits one rank (`OneHit`); the
  draws of a later rank, moved down, are draws of an earlier one, the misplaced
  `>=` included (`LaterRanksHaveFewer`); and a fitter individual has the earlier
  rank. The three crossovers put every gene of both parents into a child, at its
  place, by cases over the cuts.
* **Dialects.** The two machines are equal until `outside`, by one comparison per
  shared instruction; the operators on bits agree because both are `BitOps`. For
  the branches the invariant (`Ordered`) says that the flags are those of the last
  comparison.
* **Library.** A word is the sum of its bytes at their `Place`s, so `Number` and its
  digits are inverse, for words of any number of bytes; a field survives a call
  that writes elsewhere. A string is what lies before the first zero, which two
  equal strings have at the same distance.
* **Ownership.** What the VM holds is live and held once (`Owned`). A destruction
  can free only blocks that its argument points to (`Heaps`); the fold that
  releases a population is an iteration over its places, and after each of them
  what remains is still owned.

* **The bootstrap machines, one at a time.** What an instruction does is said once
  for all theorems: `Effect` (of `BootVM`) and `SeedEffect` list what happens to
  types, memory, stack, pointers and control flow, and `HandlerEffect` and
  `SeedHandlerEffect` show it of all 64 instructions, `SyscallCalled` of the 22
  system calls. An invariant then has to survive an effect, not 64 handlers. For
  files it is the types; for blocks that they lie below `heap_ptr`; for
  containment that SP and `pc` are inside (`Inside`).
* **Words on the stack.** `Joined` is the word whose bytes begin at an address,
  `ReadIsWord` and `WriteEffect` say that `vm_read_u32` and `vm_write_u32` read and
  write it, for any number of bytes (`Horner`, `Digits`). Then what lies on the
  stack is `Stacked`: a push adds a word below, a pop takes the lowest, and other
  writes do not touch it while `sure`.
* **One machine for the other.** `Agree` is inductive with more said (`Sync`):
  both are in the same phase, with the same budget left, and `Linked` ties their
  memories: the bytes on one stack are the words on the other, the window below
  `low` is the heap of the predecessor, and the text is still what was loaded, so
  both fetch the same instruction (`SameInstr`). For every instruction there is
  one lemma that it keeps `Same` and `Linked` unless `Parts` lists it, and
  `HandlersAgree` puts them together; each condition of `Parts` is used in one of
  them.

What a recursive function computes is shown by the lemma `IntervalInduction` (an
induction over 0..n whose predicate is a set, which the prover can instantiate)
and the lemmas about `Iterates`, in `Lemmas`.

What the proofs changed in the models: guards of a `CASE` that overlapped (TLC
takes the first arm, TLA+ leaves open which) in `Succession`, `BootVM` and
`SeedVM`, now disjoint or an `IF`; a definition (`Active`) for "the machine can
take a step", where `ENABLED` was out of the prover's reach; what the assumptions
on the layout and the programs of `Succession` left unsaid (that programs are
sequences of bytes, that sums of addresses do not wrap); and bitwise operators by
recursive functions (`BitOps`) instead of a library module that the prover cannot
take.

Every safety property of every passing run is proved, the action properties and
the refinement included. Only model-checked are `RunReturns` and `Ends` (liveness
under fairness is out of the prover's reach) and the violation of `ReturnsBest`.

## 5. Plan

Order of the plan, most important first: the control flow of IChingVM2 with its
abstract walk; its memory; the evolution engine with its operators and its
ownership; the assembler; files and registers; the EvoVM; arithmetic in both
dialects and the library calls; the two bootstrap machines and the succession of
one by the other; the proofs about all of them. These are done. What could follow:

1. Models: the interpreter loop of `vm_core.evoasm` as a second refinement of
   `ProgramWalk`; the Python assembler (long jumps, labels cut to 8 bits); the
   request loop of the MCP server.
