----------------------------- MODULE Succession -----------------------------
(***************************************************************************)
(* The two bootstrap machines side by side on the same file: what may be   *)
(* expected of ichingvm_bootstrap.c by a program that ran on ichingvm.c.   *)
(* Each is a process of its own; they advance together, which loses no     *)
(* behaviour since they share nothing but the file.                        *)
(***************************************************************************)
EXTENDS Integers, Sequences, FiniteSets

CONSTANTS Programs, Budgets, Bits, WordBytes, StackSize, HeapSize, MemorySize,
          MaxLocks, MaxFiles, FileBytes, DefaultCycles

VARIABLES program,
          seed, seedLeft, seedPhase,
          boot, bootCycles, bootEnergy, bootLeft, bootPhase,
          hist

seedVars == <<seed, seedLeft, seedPhase>>
bootVars == <<boot, bootCycles, bootEnergy, bootLeft, bootPhase>>
vars == <<program, seedVars, bootVars, hist>>

S == INSTANCE SeedVM WITH vm <- seed, left <- seedLeft, phase <- seedPhase
B == INSTANCE BootVM WITH vm <- boot, cycle_count <- bootCycles,
                          energy_cost <- bootEnergy, left <- bootLeft, phase <- bootPhase

ASSUME LayoutAssumption == B!LayoutAssumption

(* Files whose length, with an instruction more, is a word. *)
ASSUME ProgramsAssumption ==
  \A p \in Programs : p \in Seq(0..255) /\ Len(p) + 4 <= 2 ^ Bits

SP == 13

-----------------------------------------------------------------------------
(* The instruction a machine is about to execute, and its register fields. *)

Decoded(bytes(_)) ==
  [op |-> bytes(0) \div 4, md |-> 16 * (bytes(0) % 4) + (bytes(1) % 16),
   o |-> <<bytes(2), bytes(3)>>]

SeedActs == S!InLoop /\ seed.pc + 3 < Len(program)
BootActs == B!InLoop /\ ~ B!PastEnd /\ boot.pc < MemorySize

SeedInstr == LET At(i) == program[seed.pc + i + 1] IN Decoded(At)
BootInstr == LET At(i) == boot.memory[boot.pc + i] IN Decoded(At)

WithoutRegister == {1, 4, 8, 9, 10, 11, 14, 18, 19, 20, 21, 26, 27, 28, 30, 31,
                    33, 36, 39, 44, 51, 56, 58, 60}
WithFirst == {0, 6, 12, 13, 17, 22, 23, 34, 38, 40, 42, 45, 48, 52, 59, 63}

Named(i) ==
  CASE i.op \in WithoutRegister         -> {}
    [] i.op \in WithFirst               -> {i.o[1] % 16}
    [] i.op = 2 /\ i.md = 0             -> {i.o[1] % 16}
    [] i.op = 41                        -> {i.o[2] % 16}
    [] OTHER                            -> {i.o[1] % 16, i.o[2] % 16}

IsSyscall(i) == i.op = 0 /\ i.o[2] % 16 = 0
IsStore(i)   == i.op \in {47, 50}
IsPush(i)    == i.op = 6
IsPop(i)     == i.op \in {1, 22}

(* The system calls that follow an address or index a table of characters. *)
AddressCalls == {0, 1, 2, 12, 13, 14, 20, 21, 22, 30, 31, 32, 33, 36, 40, 41}

-----------------------------------------------------------------------------
(* Where the two machines part (no entry of this list is idle: without any *)
(* one of them Agree fails).  low is the lowest address the bootstrap   *)
(* machine has pushed to: between the text and low its memory answers to   *)
(* the heap of the other.                                                  *)

Window(low) == {a \in Len(program)..(low - 1) : a < HeapSize}

Parts(i) ==
  LET x == seed.reg[i.o[1] % 16]
      y == seed.reg[i.o[2] % 16]
  IN  \/ IsSyscall(i)
      \/ Named(i) \cap {12, SP} # {}
      \* words against bytes on the stack, which now can reach the text
      \/ IsPush(i) /\ x >= 256
      \/ IsPush(i) /\ boot.reg[SP] - WordBytes < Len(program)
      \* one memory instead of a heap
      \/ i.op \in {47, 50, 54} /\ x < MemorySize /\ x \notin Window(hist.low)
      \/ i.op = 17
      \/ i.op = 33 /\ \E a \in Window(hist.low) : seed.heap[a] # 0
      \* control
      \/ i.op = 2 /\ x # 0 /\ i.md \notin {0} \cup 16..31 \cup 48..63
      \/ i.op = 2 /\ x # 0 /\ (IF i.md = 0 THEN i.o[2] ELSE y) >= Len(program)
      \/ i.op = 58 /\ i.o[1] \in seed.locks
      \/ i.op = 41 /\ y >= 256 /\ y % 256 = i.o[1]
      \* the counter that is written back late
      \/ i.op = 48 /\ seed.cycle_count # 0

PartsNow == \/ SeedActs /\ Parts(SeedInstr)
            \/ S!InLoop /\ ~ SeedActs

(* What the properties remember: apart, the machines have parted; low;     *)
(* words, what the program has on the stack of the bootstrap machine, and  *)
(* sure, that it did nothing else to it; moved, that either was told to    *)
(* work on SP; wild, that a system call was made that takes an address or  *)
(* a character, or a word popped into pc so high that pc + 3 wraps;        *)
(* filled, that all slots for files were in use;                           *)
(* blocks, those granted since the last NOURISH, and wrapped, that one of  *)
(* them took heap_ptr beyond 2^32.                                         *)
HistInit ==
  hist = [apart |-> Len(program) > StackSize, low |-> StackSize - 1,
          words |-> << >>, sure |-> TRUE, moved |-> FALSE, wild |-> FALSE,
          filled |-> FALSE, blocks |-> {}, wrapped |-> FALSE]

Pushed(i) == IsPush(i) /\ boot.reg[SP] > WordBytes
Popped(i) == IsPop(i) /\ boot.reg[SP] < StackSize - WordBytes
Granted   == boot'.heap_ptr # boot.heap_ptr

WritesStack(i) ==
  \/ SP \in Named(i)
  \/ IsStore(i) /\ boot.reg[i.o[1] % 16] \in boot.reg[SP]..(StackSize - 1)
  \/ IsSyscall(i) /\ boot.reg[0] \in {1, 12, 13, 22}

BootHist(i) ==
  [hist EXCEPT
     !.low = IF Pushed(i) /\ boot.reg[SP] - WordBytes < @ THEN boot.reg[SP] - WordBytes ELSE @,
     !.words = CASE Pushed(i) -> <<boot.reg[i.o[1] % 16]>> \o @
                 [] Popped(i) -> IF @ = << >> THEN @ ELSE Tail(@)
                 [] OTHER     -> @,
     !.sure = @ /\ ~ WritesStack(i),
     !.moved = @ \/ SP \in Named(i),
     !.wild = \/ @
              \/ IsSyscall(i) /\ boot.reg[0] \in AddressCalls
              \/ i.op = 1 /\ boot'.pc + 3 >= 2 ^ Bits,
     !.filled = @ \/ Cardinality(boot.files) = MaxFiles,
     !.wrapped = @ \/ (IsSyscall(i) /\ boot.reg[0] = 10
                         /\ boot.heap_ptr + boot.reg[1] >= 2 ^ Bits),
     !.blocks = IF i.op = 33 THEN {}
                ELSE IF Granted THEN @ \cup {boot.heap_ptr..(boot'.heap_ptr - 1)}
                ELSE @]

HistNext ==
  LET base == IF BootActs THEN BootHist(BootInstr) ELSE hist
  IN  hist' = [base EXCEPT !.apart = @ \/ PartsNow,
                           !.moved = @ \/ (SeedActs /\ SP \in Named(SeedInstr))]

-----------------------------------------------------------------------------
Init == S!Init /\ B!Begin /\ HistInit

Start(max_cycles) == S!Run(max_cycles) /\ B!Run(max_cycles) /\ UNCHANGED hist

Together == S!Step /\ B!Step /\ HistNext

SeedAlone == S!Step /\ ~ B!Active /\ HistNext /\ UNCHANGED bootVars

BootAlone == ~ S!Active /\ B!Step /\ HistNext /\ UNCHANGED seedVars

Next == \/ \E max_cycles \in Budgets : Start(max_cycles)
        \/ Together
        \/ SeedAlone
        \/ BootAlone

(* Each process goes on as long as it can. *)
Spec == Init /\ [][Next]_vars /\ WF_vars(Next)

-----------------------------------------------------------------------------
Machine(m) ==
  /\ m.reg \in [0..15 -> 0..(2 ^ Bits - 1)]
  /\ m.pc \in 0..(2 ^ Bits - 1)
  /\ m.state \in {"INIT", "RUNNING", "PAUSED", "HALTED", "ERROR", "TRAPPED", "FAULT"}
  /\ {m.zero, m.negative, m.overflow} \subseteq BOOLEAN

(* Registers stay words and the cells of all memories bytes; heap_ptr of   *)
(* the bootstrap machine stays below the end of the heap even when a       *)
(* request wraps.                                                          *)
TypeOK ==
  /\ Machine(seed) /\ Machine(boot)
  /\ seed.stack \in [0..(StackSize - 1) -> 0..255]
  /\ seed.heap \in [0..(HeapSize - 1) -> 0..255]
  /\ seed.heap_ptr \in 0..HeapSize
  /\ boot.memory \in [0..(MemorySize - 1) -> 0..255]
  /\ boot.heap_ptr \in 0..(StackSize + HeapSize - 1)
  /\ boot.files \subseteq 1..MaxFiles
  /\ {seedPhase, bootPhase} \subseteq {"loaded", "running", "returned", "freed"}

(* Until the program meets one of the differences that Parts lists, the    *)
(* bootstrap machine does what its predecessor does: it reaches the same   *)
(* instruction in the same state with the same registers, flags and        *)
(* output, the same stack, element for element, and the same data; and     *)
(* vm_run gives back the same number of cycles.  Only the energy that CREA *)
(* charges is lost when the locals of vm_run are written back.             *)
Agree ==
  ~ hist.apart =>
    LET depth == StackSize - seed.reg[SP] IN
    /\ \A f \in {"pc", "state", "zero", "negative", "overflow", "threads", "futures", "out"} :
         seed[f] = boot[f]
    /\ \A r \in (0..15) \ {12, SP} : seed.reg[r] = boot.reg[r]
    /\ depth * WordBytes = StackSize - 1 - boot.reg[SP]
    /\ \A k \in 0..(depth - 1) :
         seed.stack[seed.reg[SP] + k] = B!vm_read_u32(boot, boot.reg[SP] + k * WordBytes)
    /\ \A a \in Window(hist.low) : seed.heap[a] = boot.memory[a]
    /\ seedLeft = bootLeft /\ seed.cycle_count = bootCycles
    /\ seedPhase = "returned" =>
         /\ boot.cycle_count = seed.cycle_count
         /\ boot.energy = 0 /\ seed.energy = 10 * (boot.threads - 1)

(* The stack of the bootstrap machine holds the words that were pushed and *)
(* not popped, in their order, however deep it grows into the text, unless *)
(* the program moves SP, stores into the stack, or lets a system call do.  *)
(* A push that finds no room is dropped.                                   *)
WordsKept ==
  hist.sure =>
    /\ Len(hist.words) * WordBytes = StackSize - 1 - boot.reg[SP]
    /\ \A k \in 1..Len(hist.words) :
         B!vm_read_u32(boot, boot.reg[SP] + (k - 1) * WordBytes) = hist.words[k]

(* As long as no instruction names SP both stack pointers stay in their    *)
(* arrays and the predecessor never faults.  The bootstrap machine faults  *)
(* in a system call that takes an address or a character, and on a RETURN  *)
(* to one of the three highest addresses, where pc + 3 wraps to below the  *)
(* size of the memory; in nothing else, whatever the program does with SP, *)
(* pc and the addresses it loads and stores at.                            *)
Contained ==
  /\ ~ hist.moved => /\ seed.reg[SP] \in 0..StackSize /\ seed.state # "FAULT"
                     /\ boot.reg[SP] \in 0..(StackSize - 1)
  /\ ~ hist.wild => boot.state # "FAULT"

(* What the table lists is open, however often it was full.  Until it was  *)
(* full once (an OPEN then leaves a FILE that nobody can close) it lists   *)
(* all that is open, and the process ends with none.                       *)
NoFileLost ==
  /\ boot.open >= Cardinality(boot.files)
  /\ ~ hist.filled => /\ boot.open = Cardinality(boot.files)
                      /\ bootPhase = "freed" => boot.open = 0

(* ALLOC and SYSCALL_MALLOC take from one heap: what they grant lies in it *)
(* and does not overlap, until a size wraps heap_ptr around.               *)
BlocksApart ==
  ~ hist.wrapped =>
    /\ \A b \in hist.blocks : b \subseteq StackSize..(StackSize + HeapSize - 1)
    /\ \A b, c \in hist.blocks : b = c \/ b \cap c = {}

(* Whatever the program, its process ends: the budget of vm_run counts a   *)
(* WAIT or LOCK that is tried again, and zero memory behind the text.      *)
Ends == <>(/\ seedPhase = "returned" \/ seed.state = "FAULT"
           /\ bootPhase = "freed" \/ boot.state = "FAULT")
=============================================================================
