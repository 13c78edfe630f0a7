-------------------------------- MODULE EvoVM --------------------------------
(***************************************************************************)
(* Control flow of one EvoVM (evomorph_runtime.c) and the host that drives *)
(* it: the state machine, the budget of a run, single steps, locks, WAIT   *)
(* and the stack of bytes that RETURN takes addresses from, whose pointer  *)
(* is the register SP that every instruction may write.                    *)
(*                                                                         *)
(* A program is a sequence of instructions [op, to, id]; address a holds   *)
(* program[a + 1].  "to" is the set of addresses or values an instruction  *)
(* can find in its operand register, id the number of a lock.  Register    *)
(* and heap contents are left out: a condition is a free choice.  Kinds:   *)
(* "plain"; "branch"; "push" PUSH_UP, "pop" WELL, "ret" RETURN; "lock",    *)
(* "unlock", "wait"; "pause" YIELD and STILL; "halt" HALT, RETREAT and     *)
(* BREAK; "error" MISMATCH, TRAPPED and OVERLOAD; "trap" TRAP; "bite".     *)
(* With SP for their register: "move" what would be plain, "pushsp"        *)
(* PUSH_UP, "popsp" WELL.                                                  *)
(***************************************************************************)
EXTENDS Integers, Sequences

CONSTANTS
  Programs,
  Locks,       \* the numbers of locks
  StackSize,   \* EVO_STACK_SIZE
  ByteSize,    \* 256, as many addresses as a byte can tell apart
  Budgets      \* the max_cycles of a run, 1000000 standing for 0

Ops   == {"plain", "branch", "push", "pop", "ret", "lock", "unlock", "wait",
          "pause", "halt", "error", "trap", "bite",
          "move", "pushsp", "popsp"}
Instr == [op : Ops, to : SUBSET Nat, id : Locks]

ASSUME ProgramsAssumption == Programs \subseteq Seq(Instr)
ASSUME SizesAssumption    == StackSize \in Nat /\ ByteSize \in Nat \ {0}
ASSUME BudgetsAssumption  == Budgets \subseteq Nat \ {0}

VARIABLES
  program,  \* as program_len says, whatever vm->program points to
  loaded,   \* vm->program is not NULL
  pc,
  state,
  stack,    \* the cells of vm->stack
  sp,       \* registers[EVO_R_SP]
  locks,    \* the locks that are 1
  inRun,    \* the host is inside evo_vm_run
  left,     \* cycles_remaining
  taken,    \* history: the locks this program took and has not unlocked
  foreign,  \* history: the locks earlier programs left, not unlocked since
  pushed,   \* history: the values pushed since SP was moved, still to be popped
  moved,    \* history: SP was written other than by a push or a pop
  failed,   \* history: the last load failed, and no reset followed
  fault     \* what ends the process: a read through NULL, a write past vm->stack

machine == <<program, loaded, pc, state, stack, sp, locks>>
history == <<taken, foreign, pushed, moved, failed>>
vars    == <<machine, inRun, left, history, fault>>

States == {"INIT", "RUNNING", "HALTED", "PAUSED", "ERROR", "TRAPPED"}

Cells == 0..(StackSize - 1)
Bytes == 0..(ByteSize - 1)

Front(s) == SubSeq(s, 1, Len(s) - 1)
Last(s)  == s[Len(s)]

-----------------------------------------------------------------------------
(* evo_vm_create; evo_vm_init *)
Init == /\ program = << >> /\ pc = 0 /\ state = "INIT"
        /\ stack = [c \in Cells |-> 0] /\ sp = StackSize /\ locks = {}
        /\ inRun = FALSE /\ left = 0
        /\ taken = {} /\ foreign = {} /\ pushed = << >> /\ moved = FALSE
        /\ loaded = FALSE /\ failed = FALSE /\ fault = "none"

ClearStack == stack' = [c \in Cells |-> 0] /\ sp' = StackSize /\ pushed' = << >> /\ moved' = FALSE

(* Slip: the locks are not cleared. *)
ResetKeepsLocks ==
  /\ ~inRun
  /\ program' = << >> /\ pc' = 0 /\ state' = "INIT"
  /\ ClearStack /\ taken' = {} /\ foreign' = {}
  /\ failed' = FALSE
  /\ UNCHANGED <<locks, loaded, inRun, left, fault>>

(* Slip: program_len is not cleared. *)
ResetKeepsLength ==
  /\ ~inRun
  /\ pc' = 0 /\ state' = "INIT"
  /\ ClearStack /\ locks' = {}
  /\ taken' = {} /\ foreign' = {}
  /\ failed' = FALSE
  /\ UNCHANGED <<program, loaded, inRun, left, fault>>

Reset ==
  /\ ~inRun
  /\ program' = << >> /\ pc' = 0 /\ state' = "INIT"
  /\ ClearStack /\ locks' = {}
  /\ taken' = {} /\ foreign' = {}
  /\ failed' = FALSE
  /\ UNCHANGED <<loaded, inRun, left, fault>>

(* evo_vm_load_program: locks, stack and registers stay. *)
Load(p) ==
  /\ ~inRun
  /\ program' = p /\ pc' = 0 /\ state' = "INIT"
  /\ loaded' = TRUE /\ failed' = FALSE
  /\ taken' = {} /\ foreign' = locks
  /\ UNCHANGED <<stack, sp, locks, inRun, left, pushed, moved, fault>>

(* The old program has been freed when malloc fails; program_len, pc and   *)
(* state still describe it.                                                *)
LoadFails ==
  /\ ~inRun
  /\ loaded' = FALSE /\ failed' = TRUE
  /\ UNCHANGED <<program, pc, state, stack, sp, locks, inRun, left,
                 taken, foreign, pushed, moved, fault>>

(* evo_vm_run, from any state; its loop *)
RunBegin(b) ==
  /\ ~inRun
  /\ inRun' = TRUE /\ left' = b
  /\ state' = "RUNNING"
  /\ UNCHANGED <<program, loaded, pc, stack, sp, locks, history, fault>>

RunEnd ==
  /\ inRun
  /\ state # "RUNNING" \/ left = 0
  /\ inRun' = FALSE
  /\ UNCHANGED <<machine, left, history, fault>>

-----------------------------------------------------------------------------
(* One instruction, in the loop of a run or by evo_vm_step, which refuses  *)
(* a machine that has halted or failed, and no other.                      *)
MayStep == IF inRun THEN state = "RUNNING" /\ left > 0
                    ELSE state \notin {"HALTED", "ERROR"}

RunOffEnd ==
  /\ MayStep
  /\ pc >= Len(program)
  /\ state' = "HALTED"
  /\ UNCHANGED <<program, loaded, pc, stack, sp, locks, inRun, left, history, fault>>

Crash ==
  /\ MayStep
  /\ pc < Len(program) /\ ~loaded
  /\ fault' = "null"
  /\ UNCHANGED <<machine, inRun, left, history>>

Fetch(op) == /\ MayStep /\ loaded
             /\ pc < Len(program)
             /\ program[pc + 1].op = op

Operand == program[pc + 1].to
Lock    == program[pc + 1].id

Retire == /\ left' = IF inRun THEN left - 1 ELSE left
          /\ UNCHANGED <<program, loaded, inRun, failed, fault>>

Continue == /\ state' = "RUNNING"
            /\ Retire

SameStack == UNCHANGED <<stack, sp, pushed, moved>>
SameLocks == UNCHANGED <<locks, taken, foreign>>

Plain == /\ Fetch("plain")
         /\ pc' = pc + 1
         /\ Continue /\ SameStack /\ SameLocks

(* A target outside of the program is not taken. *)
Branch == /\ Fetch("branch")
          /\ pc' \in {a \in Operand : a < Len(program)} \cup {pc + 1}
          /\ Continue /\ SameStack /\ SameLocks

(* SP points at the byte on top. *)
Store(v) == /\ sp' = sp - 1
            /\ stack'  = [stack EXCEPT ![sp - 1] = v % ByteSize]
            /\ pushed' = Append(pushed, v)
            /\ moved'  = moved

DropTop == /\ sp' = sp + 1
           /\ pushed' = IF pushed = << >> THEN << >> ELSE Front(pushed)
           /\ UNCHANGED <<stack, moved>>

MoveTo(a) == /\ sp' = a
             /\ moved' = TRUE /\ pushed' = << >>
             /\ stack' = stack

(* The low byte is pushed; when SP is 0 nothing is. *)
Push ==
  /\ Fetch("push")
  /\ sp <= StackSize
  /\ IF sp > 0 THEN \E v \in Operand : Store(v) ELSE SameStack
  /\ pc' = pc + 1
  /\ Continue /\ SameLocks

(* SP is decremented before it is read. *)
PushPointer ==
  /\ Fetch("pushsp")
  /\ sp <= StackSize
  /\ IF sp > 0 THEN Store(sp - 1) ELSE SameStack
  /\ pc' = pc + 1
  /\ Continue /\ SameLocks

(* Only SP > 0 is asked for. *)
PushOutside ==
  /\ Fetch("push") \/ Fetch("pushsp")
  /\ sp > StackSize
  /\ fault' = "stack"
  /\ UNCHANGED <<machine, inRun, left, history>>

Pop ==
  /\ Fetch("pop")
  /\ IF sp < StackSize THEN DropTop ELSE SameStack
  /\ pc' = pc + 1
  /\ Continue /\ SameLocks

(* The byte is SP when SP is incremented. *)
PopPointer ==
  /\ Fetch("popsp")
  /\ IF sp < StackSize THEN MoveTo(stack[sp] + 1) ELSE SameStack
  /\ pc' = pc + 1
  /\ Continue /\ SameLocks

(* Whatever an instruction leaves in its register, which is SP. *)
Move ==
  /\ Fetch("move")
  /\ \E a \in Operand : MoveTo(a)
  /\ pc' = pc + 1
  /\ Continue /\ SameLocks

(* Slip: SP stays where it is. *)
ReturnPeek ==
  /\ Fetch("ret")
  /\ sp < StackSize
  /\ pc' = stack[sp]
  /\ pushed' = IF pushed = << >> THEN << >> ELSE Front(pushed)
  /\ UNCHANGED <<stack, sp, moved>>
  /\ Continue /\ SameLocks

(* One byte is the address. *)
Return ==
  /\ Fetch("ret")
  /\ sp < StackSize
  /\ pc' = stack[sp]
  /\ DropTop
  /\ Continue /\ SameLocks

ReturnHalt ==
  /\ Fetch("ret")
  /\ sp >= StackSize
  /\ state' = "HALTED" /\ pc' = pc + 1
  /\ Retire /\ SameStack /\ SameLocks

LockTake ==
  /\ Fetch("lock")
  /\ Lock \notin locks
  /\ locks' = locks \cup {Lock} /\ taken' = taken \cup {Lock} /\ foreign' = foreign
  /\ pc' = pc + 1
  /\ Continue /\ SameStack

(* Slip: an instruction that is tried again costs nothing. *)
LockSpinFree ==
  /\ Fetch("lock")
  /\ Lock \in locks
  /\ state' = "RUNNING"
  /\ UNCHANGED <<pc, left, program, loaded, inRun, stack, sp, locks, history, fault>>

(* The lock is 1: the instruction is tried again. *)
LockSpin ==
  /\ Fetch("lock")
  /\ Lock \in locks
  /\ pc' = pc
  /\ Continue /\ SameStack /\ SameLocks

Unlock ==
  /\ Fetch("unlock")
  /\ locks' = locks \ {Lock}
  /\ taken' = taken \ {Lock} /\ foreign' = foreign \ {Lock}
  /\ pc' = pc + 1
  /\ Continue /\ SameStack

(* The register is zero or not. *)
Wait == /\ Fetch("wait")
        /\ pc' \in {pc, pc + 1}
        /\ Continue /\ SameStack /\ SameLocks

Stop(op, states) ==
  /\ Fetch(op)
  /\ state' \in states
  /\ pc' = pc + 1
  /\ Retire /\ SameStack /\ SameLocks

Pause == Stop("pause", {"PAUSED"})
Halt  == Stop("halt", {"HALTED"})
Fail  == Stop("error", {"ERROR"})
Trap  == Stop("trap", {"TRAPPED"})
Bite  == Stop("bite", {"RUNNING", "TRAPPED"})

Step == \/ RunOffEnd \/ Crash \/ Plain \/ Branch
        \/ Push \/ PushPointer \/ PushOutside \/ Pop \/ PopPointer \/ Move
        \/ Return \/ ReturnHalt
        \/ LockTake \/ LockSpin \/ Unlock \/ Wait
        \/ Pause \/ Halt \/ Fail \/ Trap \/ Bite

-----------------------------------------------------------------------------
Next == /\ fault = "none"
        /\ \/ Reset
           \/ \E p \in Programs : Load(p)
           \/ LoadFails
           \/ \E b \in Budgets : RunBegin(b)
           \/ RunEnd
           \/ Step

(* The loop of evo_vm_run is sequential code; nothing obliges the host.    *)
Fairness == WF_vars(inRun /\ fault = "none" /\ (Step \/ RunEnd))

Spec == Init /\ [][Next]_vars /\ Fairness

-----------------------------------------------------------------------------
TypeOK ==
  /\ program \in Programs \cup {<< >>}
  /\ pc \in Nat /\ state \in States
  /\ stack \in [Cells -> Bytes] /\ sp \in Nat
  /\ pushed \in Seq(Nat)
  /\ locks \subseteq Locks /\ taken \subseteq Locks /\ foreign \subseteq Locks
  /\ inRun \in BOOLEAN /\ left \in Nat
  /\ {loaded, moved, failed} \subseteq BOOLEAN
  /\ fault \in {"none", "null", "stack"}

(* Every run comes back, or ends with the process, even when a LOCK or a   *)
(* WAIT is tried again for ever: each try counts against max_cycles.       *)
RunReturns == inRun ~> (~inRun \/ fault # "none")

(* program_len speaks of a program that is not there only after a load     *)
(* that failed; a reset or the next load that succeeds mends it, and a     *)
(* machine on which neither a run nor a step follows the failure never     *)
(* reads through NULL.  op_push_up asks only whether SP is above 0: it     *)
(* writes past vm->stack only in a program that has written SP itself.     *)
FaultsExplained ==
  /\ ~loaded /\ program # << >> => failed
  /\ fault = "null" => failed
  /\ fault = "stack" => moved

(* op_lock waits for nobody but the programs of this machine: a lock that  *)
(* is held was taken by this program, in whatever pieces it was run, or    *)
(* left by one loaded before it since the last reset, and by one of them   *)
(* only.                                                                   *)
LocksAccounted ==
  /\ locks = taken \cup foreign
  /\ taken \cap foreign = {}

(* As long as it fits a byte, the address that a RETURN goes to is the one *)
(* pushed last that is still on the stack: a push when SP is 0 and a pop   *)
(* at the end of vm->stack do nothing, and a load keeps the stack.  A      *)
(* RETURN can find what was not pushed only once SP has been written.      *)
ReturnToPushed ==
  [][ Return => /\ moved \/ pushed # << >>
                /\ pushed # << >> /\ Last(pushed) < ByteSize => pc' = Last(pushed) ]_vars
=============================================================================
