------------------------------- MODULE BootVM -------------------------------
(***************************************************************************)
(* ichingvm_bootstrap.c, the machine that replaced ichingvm.c: text, stack *)
(* and heap in one memory, words on the stack, and system calls.  The text *)
(* is loaded at address 0, where the stack, which grows down from          *)
(* StackSize - 1, can reach it; the heap begins at StackSize, where the    *)
(* locks lie too; what is behind the text is zero, and zero is an          *)
(* instruction: RECV of port 0, a system call.                             *)
(*                                                                         *)
(* vm        struct IChingVM, the two static counters, and "open", the     *)
(*           number of FILEs that are open whether or not the table knows  *)
(*           them; state FAULT stands for an access outside of the memory  *)
(*           or through NULL                                               *)
(* program   the bytes of the file                                         *)
(* cycle_count, energy_cost, left   the locals of vm_run; the machine's    *)
(*           own fields are written when it returns                        *)
(* phase     where main is: before, in or behind vm_run, or behind vm_free *)
(***************************************************************************)
EXTENDS Hexagrams, FiniteSets

CONSTANTS Programs, StackSize, HeapSize, MemorySize, MaxLocks, MaxFiles,
          DefaultCycles,
          WordBytes,      \* bytes per word on the stack, 4 in the code
          FileBytes       \* how many bytes, all FileByte, a read can find
FileByte == 65

(* Assumed by the module that gives these constants their values. *)
LayoutAssumption ==
  /\ WordBytes \in 1..4 /\ Bits = 8 * WordBytes
  /\ {StackSize, HeapSize} \subseteq Nat \ {0} /\ {MemorySize, MaxLocks} \subseteq Nat
  /\ StackSize + HeapSize <= MemorySize /\ MemorySize + 4 <= Word
  /\ MaxLocks <= HeapSize
  /\ MaxFiles \in Nat /\ FileBytes \in Nat

VARIABLES vm, program, cycle_count, energy_cost, left, phase

vars == <<vm, program, cycle_count, energy_cost, left, phase>>

Addresses == 0..(MemorySize - 1)

vm_init ==
  [reg      |-> [r \in 0..15 |-> IF r \in {12, 13} THEN StackSize - 1 ELSE 0],
   memory   |-> [a \in Addresses |-> 0],
   heap_ptr |-> StackSize, pc |-> 0, state |-> "INIT",
   zero |-> FALSE, negative |-> FALSE, overflow |-> FALSE,
   files    |-> {}, open |-> 0,
   threads |-> 1, futures |-> 0, cycle_count |-> 0, energy |-> 0, out |-> << >>]

(* Words are stored with the highest byte first. *)
vm_read_u32(m, a) ==
  LET bytes[n \in 0..WordBytes] ==
        IF n = 0 THEN 0 ELSE bytes[n - 1] * Byte + m.memory[a + n - 1]
  IN  IF a + WordBytes - 1 >= MemorySize THEN 0 ELSE bytes[WordBytes]

(* Slip: the lowest byte first. *)
write_reversed(m, a, v) ==
  IF a + WordBytes - 1 >= MemorySize THEN m
  ELSE [m EXCEPT !.memory = [b \in Addresses |->
          IF b \in a..(a + WordBytes - 1) THEN (v \div Byte ^ (b - a)) % Byte ELSE @[b]]]

vm_write_u32(m, a, v) ==
  IF a + WordBytes - 1 >= MemorySize THEN m
  ELSE [m EXCEPT !.memory = [b \in Addresses |->
          IF b \in a..(a + WordBytes - 1)
          THEN (v \div Byte ^ (WordBytes - 1 - (b - a))) % Byte
          ELSE @[b]]]

-----------------------------------------------------------------------------
(* vm_syscall: R0 is the number, R1 to R3 are the arguments, and R0 gets   *)
(* the result.  Each operator is the set of machines its case can leave.   *)

Fault(m)     == {End(m, "FAULT")}
Answer(m, v) == {Put(m, 0, v)}

(* vm_ptr gives NULL outside of the memory, and checks one address only.   *)
InMemory(a)    == a < MemorySize
Region(a, len) == len = 0 \/ a + len <= MemorySize

(* Writing bytes[i] to a + i, for i from 0 to len - 1.                     *)
Filled(m, a, len, bytes(_)) ==
  [m EXCEPT !.memory = [b \in Addresses |->
     IF b >= a /\ b < a + len THEN bytes(b - a) ELSE @[b]]]

(* The addresses of the zero bytes from a on; without one a string runs    *)
(* out of the memory.                                                      *)
Zeros(m, a)  == {b \in a..(MemorySize - 1) : m.memory[b] = 0}
StrLen(m, a) == (CHOOSE b \in Zeros(m, a) : \A c \in Zeros(m, a) : b <= c) - a
Str(m, a)    == [i \in 1..StrLen(m, a) |-> m.memory[a + i - 1]]
IsString(m, a) == Zeros(m, a) # {}

(* How memcmp and strcmp compare: by the first byte that differs.  Of what *)
(* they return only the sign is certain; 1 and -1 stand for it.            *)
Sign(s, t) ==
  LET differ == {i \in DOMAIN s \cap DOMAIN t : s[i] # t[i]}
      first  == CHOOSE i \in differ : \A j \in differ : i <= j
  IN  IF differ = {} THEN 0
      ELSE IF s[first] < t[first] THEN Word - 1
      ELSE 1

(* SYSCALL_OPEN: modes 0, 1 and 2 try to open, with NULL too; a FILE for   *)
(* which no slot is left stays open although R0 says 0.                    *)
FreeSlots(m) == {i \in 1..MaxFiles : i \notin m.files}

Opened(m) ==
  LET slot == CHOOSE i \in FreeSlots(m) : \A j \in FreeSlots(m) : i <= j
      more == [m EXCEPT !.open = @ + 1]
  IN  IF FreeSlots(m) = {} THEN Answer(more, 0)
      ELSE Answer([more EXCEPT !.files = @ \cup {slot}], slot)

sys_open(m, name, mode) ==
  IF InMemory(name) /\ ~ IsString(m, name) THEN Fault(m)
  ELSE IF mode \notin 0..2 THEN Answer(m, 0)
  ELSE IF ~ InMemory(name) THEN Answer(m, 0) \cup Fault(m)
  ELSE Answer(m, 0) \cup Opened(m)

(* SYSCALL_READ: fread stores at most count bytes; nobody looks whether    *)
(* they fit in the memory.                                                 *)
sys_read(m, fd, buf, count) ==
  IF fd \notin m.files THEN Answer(m, 0)
  ELSE UNION {IF got = 0 THEN Answer(m, 0)
              ELSE IF InMemory(buf) /\ Region(buf, got)
              THEN LET Constant(i) == FileByte
                   IN  Answer(Filled(m, buf, got, Constant), got)
              ELSE Fault(m) :
              got \in 0..(IF count < FileBytes THEN count ELSE FileBytes)}

Block(m, a, len) == [i \in 1..len |-> m.memory[a + i - 1]]

(* SYSCALL_WRITE: a handle of 0 is standard output; a FILE may take        *)
(* nothing.                                                                *)
sys_write(m, fd, buf, count) ==
  IF fd # 0 /\ fd \notin m.files THEN Answer(m, 0)
  ELSE IF count > 0 /\ ~ (InMemory(buf) /\ Region(buf, count)) THEN Fault(m)
  ELSE IF fd = 0 THEN Answer([m EXCEPT !.out = Append(@, Block(m, buf, count))], count)
  ELSE Answer(m, count) \cup Answer(m, 0)

(* Slip: the slot is not cleared. *)
sys_close_keeps(m, fd) ==
  IF fd \in m.files THEN Answer([m EXCEPT !.open = @ - 1], 1) ELSE Answer(m, 0)

sys_close(m, fd) ==
  IF fd \in m.files
  THEN Answer([m EXCEPT !.files = @ \ {fd}, !.open = @ - 1], 1)
  ELSE Answer(m, 0)

(* SYSCALL_MALLOC: the sum is a word and wraps.                            *)
sys_malloc(m, size) ==
  IF (m.heap_ptr + size) % Word < StackSize + HeapSize
  THEN Answer([m EXCEPT !.heap_ptr = (@ + size) % Word], m.heap_ptr)
  ELSE Answer(m, 0)

(* SYSCALL_MEMCPY: where the blocks overlap, memcpy may take the bytes one *)
(* by one or all at once.                                                  *)
sys_memcpy(m, dst, src, len) ==
  LET Moved(i)   == m.memory[src + i]
      Chained(i) == m.memory[src + (IF dst > src THEN i % (dst - src) ELSE i)]
  IN  IF ~ InMemory(dst) \/ ~ InMemory(src) THEN Answer(m, 0)
      ELSE IF ~ Region(dst, len) \/ ~ Region(src, len) THEN Fault(m)
      ELSE Answer(Filled(m, dst, len, Moved), dst)
                      \cup Answer(Filled(m, dst, len, Chained), dst)

sys_memset(m, dst, val, len) ==
  LET Constant(i) == val % Byte
  IN  IF ~ InMemory(dst) THEN Answer(m, 0)
      ELSE IF ~ Region(dst, len) THEN Fault(m)
      ELSE Answer(Filled(m, dst, len, Constant), dst)

sys_memcmp(m, p, q, len) ==
  IF ~ InMemory(p) \/ ~ InMemory(q) THEN Answer(m, 0)
  ELSE IF ~ Region(p, len) \/ ~ Region(q, len) THEN Fault(m)
  ELSE Answer(m, Sign(Block(m, p, len), Block(m, q, len)))

sys_strlen(m, a) ==
  IF ~ InMemory(a) THEN Answer(m, 0)
  ELSE IF ~ IsString(m, a) THEN Fault(m)
  ELSE Answer(m, StrLen(m, a))

sys_strcmp(m, p, q) ==
  IF ~ InMemory(p) \/ ~ InMemory(q) THEN Answer(m, 0)
  ELSE IF ~ IsString(m, p) \/ ~ IsString(m, q) THEN Fault(m)
  ELSE Answer(m, Sign(Append(Str(m, p), 0), Append(Str(m, q), 0)))

(* SYSCALL_STRCPY: a copy into the string itself may lose the terminator.  *)
sys_strcpy(m, dst, src) ==
  LET Moved(i) == m.memory[src + i]
      len      == StrLen(m, src) + 1
  IN  IF ~ InMemory(dst) \/ ~ InMemory(src) THEN Answer(m, 0)
      ELSE IF ~ IsString(m, src) \/ ~ Region(dst, len) THEN Fault(m)
      ELSE IF src < dst /\ dst < src + len THEN Fault(m) \cup Answer(Filled(m, dst, len, Moved), dst)
      ELSE Answer(Filled(m, dst, len, Moved), dst)

Digits == 48..57
Upper  == 65..90
Lower  == 97..122
Blanks == 9..13 \cup {32}

(* isdigit and the others index a table that ends at 255 and has entries   *)
(* for the 128 numbers below 0 too; behind it anything can lie.            *)
Class(m, c, class) ==
  IF c < 256 THEN Answer(m, IF c \in class THEN 1 ELSE 0)
  ELSE IF c >= Word - 128 THEN Answer(m, 0)
  ELSE Answer(m, 0) \cup Answer(m, 1) \cup Fault(m)

sys_toupper(m, c) == Answer(m, IF c \in Lower THEN c - 32 ELSE c)
sys_tolower(m, c) == Answer(m, IF c \in Upper THEN c + 32 ELSE c)

(* SYSCALL_ATOI: blanks, a sign, and the digits up to the first other.     *)
sys_atoi(m, a) ==
  LET s      == Str(m, a)
      start  == CHOOSE i \in 1..(Len(s) + 1) :
                  /\ \A j \in 1..(i - 1) : s[j] \in Blanks
                  /\ i <= Len(s) => s[i] \notin Blanks
      signed == start <= Len(s) /\ s[start] \in {43, 45}
      first  == IF signed THEN start + 1 ELSE start
      value[i \in 0..Len(s)] ==
        IF i < first THEN 0 ELSE (value[i - 1] * 10 + s[i] - 48) % Word
      number == value[CHOOSE i \in (first - 1)..Len(s) :
                        /\ \A j \in first..i : s[j] \in Digits
                        /\ i < Len(s) => s[i + 1] \notin Digits]
  IN  IF ~ InMemory(a) THEN Answer(m, 0)
      ELSE IF ~ IsString(m, a) THEN Fault(m)
      ELSE Answer(m, IF signed /\ s[start] = 45 THEN Word - number ELSE number)

sys_print(m, a) ==
  IF ~ InMemory(a) THEN Answer(m, 0)
  ELSE IF ~ IsString(m, a) THEN Fault(m)
  ELSE Answer([m EXCEPT !.out = Append(@, Str(m, a))], 0)

sys_println(m, a) ==
  IF ~ InMemory(a) THEN Answer([m EXCEPT !.out = Append(@, << >>)], 0)
  ELSE IF ~ IsString(m, a) THEN Fault(m)
  ELSE Answer([m EXCEPT !.out = Append(@, Str(m, a))], 0)

sys_exit(m, code) == {Put(End(m, "HALTED"), 15, code)}

(* Numbers the enumeration names and the switch has no case for (SEEK,     *)
(* TELL, STRCAT, STRCHR, SCAN) end as unknown ones do.                     *)
vm_syscall(m) ==
  LET n == m.reg[0]
      a == m.reg[1]
      b == m.reg[2]
      c == m.reg[3]
  IN  CASE n = 0  -> sys_open(m, a, b)      [] n = 1  -> sys_read(m, a, b, c)
        [] n = 2  -> sys_write(m, a, b, c)  [] n = 3  -> sys_close(m, a)
        [] n = 10 -> sys_malloc(m, a)       [] n = 11 -> Answer(m, 1)
        [] n = 12 -> sys_memcpy(m, a, b, c) [] n = 13 -> sys_memset(m, a, b, c)
        [] n = 14 -> sys_memcmp(m, a, b, c) [] n = 20 -> sys_strlen(m, a)
        [] n = 21 -> sys_strcmp(m, a, b)    [] n = 22 -> sys_strcpy(m, a, b)
        [] n = 30 -> Class(m, a, Digits)    [] n = 31 -> Class(m, a, Upper \cup Lower)
        [] n = 32 -> Class(m, a, Digits \cup Upper \cup Lower)
        [] n = 33 -> Class(m, a, Blanks)    [] n = 34 -> sys_toupper(m, a)
        [] n = 35 -> sys_tolower(m, a)      [] n = 36 -> sys_atoi(m, a)
        [] n = 40 -> sys_print(m, a)        [] n = 41 -> sys_println(m, a)
        [] n = 255 -> sys_exit(m, a)
        [] OTHER  -> {Put(End(m, "ERROR"), 15, n)}

-----------------------------------------------------------------------------
(* The instructions this machine has for itself. *)

op_recv(m, o) == IF Src(o) = 0 THEN vm_syscall(m) ELSE {Put(m, Dst(o), 0)}

(* Slip: one word is taken from an empty stack. *)
op_return_late(m, o) ==
  IF m.reg[13] < StackSize
  THEN [Put(m, 13, m.reg[13] + WordBytes) EXCEPT !.pc = vm_read_u32(m, m.reg[13])]
  ELSE End(m, "HALTED")

op_return(m, o) ==
  IF m.reg[13] < StackSize - WordBytes
  THEN [Put(m, 13, m.reg[13] + WordBytes) EXCEPT !.pc = vm_read_u32(m, m.reg[13])]
  ELSE End(m, "HALTED")

op_push_up(m, o) ==
  LET sp == m.reg[13] - WordBytes
  IN  IF m.reg[13] > WordBytes THEN Put(vm_write_u32(m, sp, X(m, o)), 13, sp) ELSE m

op_well(m, o) ==
  IF m.reg[13] < StackSize - WordBytes
  THEN Put(Put(m, Dst(o), vm_read_u32(m, m.reg[13])), 13, m.reg[13] + WordBytes)
  ELSE m

op_branch(m, md, o) ==
  LET target == IF md # 0 THEN Y(m, o) ELSE o[2]
  IN  IF X(m, o) # 0 /\ target < MemorySize THEN [m EXCEPT !.pc = target] ELSE m

(* A lock is a byte of the heap: LOCK sets it and waits for nobody.        *)
op_lock(m, o) ==
  IF o[1] < MaxLocks THEN [m EXCEPT !.memory[StackSize + o[1]] = 1] ELSE m

op_unlock(m, o) ==
  IF o[1] < MaxLocks THEN [m EXCEPT !.memory[StackSize + o[1]] = 0] ELSE m

op_sync(m, o) == m

(* Slip: only the beginning of the block is compared with the limit. *)
op_alloc_start(m, o) ==
  LET size == IF o[2] > 0 THEN o[2] ELSE 256
  IN  IF m.heap_ptr < StackSize + HeapSize
      THEN [Put(m, Dst(o), m.heap_ptr) EXCEPT !.heap_ptr = @ + size]
      ELSE [Put(m, Dst(o), 0) EXCEPT !.overflow = TRUE]

op_alloc(m, o) ==
  LET size == IF o[2] > 0 THEN o[2] ELSE 256
  IN  IF m.heap_ptr + size < StackSize + HeapSize
      THEN [Put(m, Dst(o), m.heap_ptr) EXCEPT !.heap_ptr = @ + size]
      ELSE [Put(m, Dst(o), 0) EXCEPT !.overflow = TRUE]

op_nourish(m, o) ==
  LET Zero(i) == 0
  IN  [Filled(m, StackSize, HeapSize, Zero) EXCEPT !.heap_ptr = StackSize]

op_abundance(m, o) ==
  IF InMemory(X(m, o)) THEN [m EXCEPT !.memory[X(m, o)] = Y(m, o) % Byte] ELSE m

(* Slip: the value is not cut to a byte. *)
op_disperse_wide(m, o) ==
  IF InMemory(X(m, o)) THEN [m EXCEPT !.memory[X(m, o)] = Y(m, o)] ELSE m

op_disperse(m, o) ==
  IF InMemory(X(m, o)) THEN [m EXCEPT !.memory[X(m, o)] = Y(m, o) % Byte] ELSE m

op_penetrate(m, o) ==
  IF InMemory(X(m, o)) THEN Put(m, Src(o), m.memory[X(m, o)]) ELSE m

(* The machine's own counter, which vm_run leaves alone until it returns.  *)
op_contemplate(m, o) == Put(m, Dst(o), m.cycle_count)

op_bite(m, o) == IF Y(m, o) % Byte = o[1] THEN m ELSE End(m, "TRAPPED")

opcode_handlers(op, m, md, o) ==
  CASE op = 0 -> op_recv(m, o)
    [] op \notin OwnOps -> {Common(op, m, o)}
    [] OTHER ->
         {CASE op = 1  -> op_return(m, o)    [] op = 2  -> op_branch(m, md, o)
            [] op = 6  -> op_push_up(m, o)   [] op = 10 -> op_unlock(m, o)
            [] op = 17 -> op_alloc(m, o)     [] op = 21 -> op_sync(m, o)
            [] op = 22 -> op_well(m, o)      [] op = 33 -> op_nourish(m, o)
            [] op = 41 -> op_bite(m, o)      [] op = 47 -> op_abundance(m, o)
            [] op = 48 -> op_contemplate(m, o) [] op = 50 -> op_disperse(m, o)
            [] op = 54 -> op_penetrate(m, o) [] op = 58 -> op_lock(m, o)}

(* One instruction, read from wherever pc is.  The check of the loop adds  *)
(* 3 in 32 bits: the three highest addresses pass it.                      *)
Executed ==
  LET pc == vm.pc
      At(i) == vm.memory[pc + i]
      md == 16 * (At(0) % 4) + (At(1) % 16)
  IN  IF pc >= MemorySize THEN Fault(vm)
      ELSE opcode_handlers(At(0) \div 4, [vm EXCEPT !.pc = pc + 4], md, <<At(2), At(3)>>)

-----------------------------------------------------------------------------
(* main: at most StackSize bytes of the file are loaded, at address 0.     *)
Loaded(p) ==
  [vm_init EXCEPT !.memory = [a \in Addresses |->
     IF a < Len(p) /\ a < StackSize THEN p[a + 1] ELSE 0]]

Begin == /\ vm = Loaded(program)
         /\ cycle_count = 0 /\ energy_cost = 0 /\ left = 0 /\ phase = "loaded"

Init == program \in Programs /\ Begin

Run(max_cycles) ==
  /\ phase = "loaded"
  /\ vm' = [vm EXCEPT !.state = "RUNNING"]
  /\ left' = IF max_cycles = 0 THEN DefaultCycles ELSE max_cycles
  /\ cycle_count' = vm.cycle_count /\ energy_cost' = vm.energy
  /\ phase' = "running"
  /\ UNCHANGED program

InLoop == phase = "running" /\ vm.state = "RUNNING" /\ left > 0

PastEnd == (vm.pc + 3) % Word >= MemorySize

(* Slip: an instruction that will be tried again costs nothing. *)
CycleFree == /\ InLoop /\ ~ PastEnd
             /\ vm' \in Executed
             /\ IF vm'.pc = vm.pc THEN UNCHANGED <<left, cycle_count>>
                ELSE left' = left - 1 /\ cycle_count' = cycle_count + 1
             /\ UNCHANGED <<program, energy_cost, phase>>

Cycle == /\ InLoop /\ ~ PastEnd
         /\ vm' \in Executed
         /\ left' = left - 1 /\ cycle_count' = cycle_count + 1
         /\ UNCHANGED <<program, energy_cost, phase>>

EndOfMemory == /\ InLoop /\ PastEnd
               /\ vm' = End(vm, "HALTED")
               /\ UNCHANGED <<program, cycle_count, energy_cost, left, phase>>

(* Slip: the count stays in the local. *)
ReturnStale == /\ phase = "running" /\ vm.state # "FAULT"
               /\ vm.state # "RUNNING" \/ left = 0
               /\ phase' = "returned"
               /\ UNCHANGED <<vm, program, cycle_count, energy_cost, left>>

(* vm_run writes its locals back, over what CREA has added meanwhile.      *)
Return == /\ phase = "running" /\ vm.state # "FAULT"
          /\ vm.state # "RUNNING" \/ left = 0
          /\ vm' = [vm EXCEPT !.cycle_count = cycle_count, !.energy = energy_cost]
          /\ phase' = "returned"
          /\ UNCHANGED <<program, cycle_count, energy_cost, left>>

(* vm_free closes the FILEs of the table.                                  *)
Free == /\ phase = "returned"
        /\ vm' = [vm EXCEPT !.open = @ - Cardinality(vm.files), !.files = {}]
        /\ phase' = "freed"
        /\ UNCHANGED <<program, cycle_count, energy_cost, left>>

Step == Cycle \/ EndOfMemory \/ Return \/ Free

(* From vm_run on there is a next step, until vm_free or a fault.          *)
Active == phase = "returned" \/ (phase = "running" /\ vm.state # "FAULT")
=============================================================================
