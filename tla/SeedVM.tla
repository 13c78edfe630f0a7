------------------------------- MODULE SeedVM -------------------------------
(***************************************************************************)
(* ichingvm.c, the first bootstrap machine, from loading a file of         *)
(* bytecode to the end of the one vm_run of its process: a program, a      *)
(* stack of bytes and a heap in arrays of their own, locks and barriers.   *)
(*                                                                         *)
(* program   the bytes of the file, at addresses from 0                    *)
(* vm        struct IChingVM; state FAULT stands for an access outside of  *)
(*           the arrays                                                    *)
(* left      cycles_remaining of vm_run                                    *)
(* phase     where main is: before, in or behind vm_run                    *)
(***************************************************************************)
EXTENDS Hexagrams

CONSTANTS Programs, StackSize, HeapSize, MaxLocks, DefaultCycles

VARIABLES vm, program, left, phase

vars == <<vm, program, left, phase>>

At(a) == program[a + 1]

vm_init ==
  [reg      |-> [r \in 0..15 |-> IF r \in {12, 13} THEN StackSize ELSE 0],
   stack    |-> [a \in 0..(StackSize - 1) |-> 0],
   heap     |-> [a \in 0..(HeapSize - 1) |-> 0],
   heap_ptr |-> 0, pc |-> 0, state |-> "INIT",
   zero |-> FALSE, negative |-> FALSE, overflow |-> FALSE,
   locks    |-> {}, barriers |-> [b \in 0..255 |-> 0],
   threads |-> 1, futures |-> 0, cycle_count |-> 0, energy |-> 0, out |-> << >>]

op_recv(m, o) == Put(m, Dst(o), 0)

(* RETURN and WELL take one byte from the stack, PUSH_UP puts one there.   *)
op_return(m, o) ==
  IF m.reg[13] < StackSize
  THEN [Put(m, 13, m.reg[13] + 1) EXCEPT !.pc = m.stack[m.reg[13]]]
  ELSE End(m, "HALTED")

op_well(m, o) ==
  IF m.reg[13] < StackSize
  THEN LET read == Put(m, Dst(o), m.stack[m.reg[13]])
       IN  Put(read, 13, read.reg[13] + 1)
  ELSE m

op_push_up(m, o) ==
  LET moved == Put(m, 13, m.reg[13] - 1)
      sp    == moved.reg[13]
  IN  IF m.reg[13] = 0 THEN m
      ELSE IF sp < StackSize THEN [moved EXCEPT !.stack[sp] = moved.reg[Dst(o)] % Byte]
      ELSE End(moved, "FAULT")

op_branch(m, md, o) ==
  LET target == IF (md \div 16) % 2 = 1 THEN Y(m, o) ELSE o[2]
  IN  IF X(m, o) # 0 /\ target < Len(program) THEN [m EXCEPT !.pc = target] ELSE m

op_lock(m, o) ==
  IF o[1] >= MaxLocks THEN m
  ELSE IF o[1] \in m.locks THEN [m EXCEPT !.pc = @ - 4]
  ELSE [m EXCEPT !.locks = @ \cup {o[1]}]

op_unlock(m, o) == [m EXCEPT !.locks = @ \ {o[1]}]
op_sync(m, o)   == [m EXCEPT !.barriers[o[1]] = (@ + 1) % Word]

op_alloc(m, o) ==
  LET size == IF o[2] > 0 THEN o[2] ELSE 256
  IN  IF m.heap_ptr + size <= HeapSize
      THEN [Put(m, Dst(o), m.heap_ptr + 1) EXCEPT !.heap_ptr = @ + size]
      ELSE [Put(m, Dst(o), 0) EXCEPT !.overflow = TRUE]

op_nourish(m, o) == [m EXCEPT !.heap_ptr = 0, !.heap = vm_init.heap]

op_abundance(m, o) ==
  IF X(m, o) < HeapSize THEN [m EXCEPT !.heap[X(m, o)] = Y(m, o) % Byte] ELSE m

op_disperse(m, o) ==
  IF X(m, o) < HeapSize THEN [m EXCEPT !.heap[X(m, o)] = Y(m, o) % Byte] ELSE m

op_penetrate(m, o) ==
  IF X(m, o) < HeapSize THEN Put(m, Src(o), m.heap[X(m, o)]) ELSE m

op_contemplate(m, o) == Put(m, Dst(o), m.cycle_count)

op_bite(m, o) == IF Y(m, o) = o[1] THEN m ELSE End(m, "TRAPPED")

opcode_handlers(op, m, md, o) ==
  CASE op \notin OwnOps -> Common(op, m, o)
    [] op = 0  -> op_recv(m, o)      [] op = 1  -> op_return(m, o)
    [] op = 2  -> op_branch(m, md, o) [] op = 6  -> op_push_up(m, o)
    [] op = 10 -> op_unlock(m, o)    [] op = 17 -> op_alloc(m, o)
    [] op = 21 -> op_sync(m, o)      [] op = 22 -> op_well(m, o)
    [] op = 33 -> op_nourish(m, o)   [] op = 41 -> op_bite(m, o)
    [] op = 47 -> op_abundance(m, o) [] op = 48 -> op_contemplate(m, o)
    [] op = 50 -> op_disperse(m, o)  [] op = 54 -> op_penetrate(m, o)
    [] op = 58 -> op_lock(m, o)

(* One instruction: decode_opcode and decode_modifier of its first bytes,  *)
(* then its handler with pc already behind it.                             *)
Executed ==
  LET pc == vm.pc
      md == 16 * (At(pc) % 4) + (At(pc + 1) % 16)
  IN  opcode_handlers(At(pc) \div 4, [vm EXCEPT !.pc = pc + 4], md, <<At(pc + 2), At(pc + 3)>>)

Init == /\ program \in Programs
        /\ vm = vm_init
        /\ left = 0 /\ phase = "loaded"

(* vm_run: 0 stands for a default, and the loop ends at the first of three *)
(* things: a state other than RUNNING, the budget, the end of the program. *)
Run(max_cycles) ==
  /\ phase = "loaded"
  /\ vm' = [vm EXCEPT !.state = "RUNNING"]
  /\ left' = IF max_cycles = 0 THEN DefaultCycles ELSE max_cycles
  /\ phase' = "running"
  /\ UNCHANGED program

InLoop == phase = "running" /\ vm.state = "RUNNING" /\ left > 0

Cycle == /\ InLoop
         /\ vm.pc + 3 < Len(program)
         /\ vm' = [Executed EXCEPT !.cycle_count = @ + 1]
         /\ left' = left - 1
         /\ UNCHANGED <<program, phase>>

EndOfProgram == /\ InLoop
                /\ vm.pc + 3 >= Len(program)
                /\ vm' = End(vm, "HALTED")
                /\ UNCHANGED <<program, left, phase>>

Return == /\ phase = "running" /\ vm.state # "FAULT"
          /\ vm.state # "RUNNING" \/ left = 0
          /\ phase' = "returned"
          /\ UNCHANGED <<vm, program, left>>

Step == Cycle \/ EndOfProgram \/ Return

(* In vm_run there is a next step, until it returns or faults.             *)
Active == phase = "running" /\ vm.state # "FAULT"
=============================================================================
