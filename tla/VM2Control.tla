----------------------------- MODULE VM2Control ------------------------------
(***************************************************************************)
(* Control flow of one IChingVM2 (evomorph/native/runtime/ichingvm2.c) and *)
(* the C host that drives it through the public API of ichingvm2.h.        *)
(*                                                                         *)
(* Kept: the VM state, pc, the call stack and its limit, the link          *)
(* register, the cumulative cycle counter, the run loop with its budget,   *)
(* every way an instruction can move pc or change the state.               *)
(* Abstracted: register and heap contents (a condition or a divisor is a   *)
(* free choice, an address taken from a register or the memory stack is    *)
(* any member of the instruction's "to"), and instruction lengths (one     *)
(* address per instruction, none in the middle of one).                    *)
(*                                                                         *)
(* Instruction kinds: "plain" falls through; "link" writes R30; "jump" is  *)
(* BRANCH.1, JMP, native CALL, RET and IRET, SYNC.1; "branch" the          *)
(* conditional ones; "call" ABUNDANCE.1; "ret" RETURN.0; "halt" HALT,      *)
(* RETURN.1, HLT and sys_exit; "pause" STILL; "divide" DIV, MOD, GATHER.3  *)
(* and .4; "undef" an unassigned native opcode; "illegal" a byte of        *)
(* neither instruction type; "cut" an instruction the bounds checks of the *)
(* step functions refuse: cut short by the end of the program, or without  *)
(* an immediate and ending exactly there (the checks want a byte more).    *)
(***************************************************************************)
EXTENDS Integers, Sequences

CONSTANTS
  Programs,   \* what a host may load
  MaxCalls,   \* ICHINGVM2_MAX_CALLS
  Budgets,    \* the max_cycles arguments a host may pass
  CycleCap    \* bound of the model: hosts single-step only below it

W == INSTANCE ProgramWalk WITH prog <- << >>, at <- 0, status <- "live",
                               open <- << >>, lost <- FALSE, Depth <- MaxCalls

ASSUME ProgramsAssumption == Programs \subseteq Seq(W!Instr)
ASSUME MaxCallsAssumption == MaxCalls \in Nat
ASSUME BudgetsAssumption  == Budgets \subseteq Nat
ASSUME CycleCapAssumption == CycleCap \in Nat

VARIABLES
  program,    \* vm->program, program_size
  pc,
  state,
  callStack,  \* vm->call_stack[0 .. call_stack_top-1]
  lr,         \* vm->regs[30]
  cycles,     \* vm->cycle_count: never cleared by a load or a run
  inRun,      \* the host is inside ichingvm2_run
  budget,     \* max_cycles of the current (or last) run
  frames,     \* history: return addresses of the unreturned calls of this
              \*   program, without the limit of the array
  inherited,  \* history: what the call stack still holds from programs
              \*   loaded before this one
  dropped     \* history: this program made a call the full array lost

machine == <<program, pc, state, callStack, lr, cycles>>
history == <<frames, inherited, dropped>>
vars    == <<machine, inRun, budget, history>>

States == {"INIT", "RUNNING", "PAUSED", "HALTED", "ERROR"}

LastOf(s)  == s[Len(s)]
FrontOf(s) == SubSeq(s, 1, Len(s) - 1)

TypeOK ==
  /\ program \in Seq(W!Instr)
  /\ pc \in Nat
  /\ state \in States
  /\ callStack \in Seq(Nat) /\ Len(callStack) <= MaxCalls
  /\ lr \in Nat
  /\ cycles \in Nat
  /\ inRun \in BOOLEAN
  /\ budget \in Nat
  /\ frames \in Seq(Nat)
  /\ inherited \in Seq(Nat)
  /\ dropped \in BOOLEAN

-----------------------------------------------------------------------------
(* ichingvm2_create, and ichingvm2_reset, which leaves the same control    *)
(* state behind.                                                           *)

Init ==
  /\ program = << >> /\ pc = 0 /\ state = "INIT"
  /\ callStack = << >> /\ lr = 0 /\ cycles = 0
  /\ inRun = FALSE /\ budget = 0
  /\ frames = << >> /\ inherited = << >> /\ dropped = FALSE

(* Slip: a reset that leaves call_stack_top alone, as the loads do.        *)
ResetKeepsCalls ==
  /\ ~inRun
  /\ program' = << >> /\ pc' = 0 /\ state' = "INIT" /\ lr' = 0 /\ cycles' = 0
  /\ frames' = << >> /\ inherited' = << >> /\ dropped' = FALSE
  /\ UNCHANGED <<callStack, inRun, budget>>

Reset ==
  /\ ~inRun
  /\ program' = << >> /\ pc' = 0 /\ state' = "INIT"
  /\ callStack' = << >> /\ lr' = 0 /\ cycles' = 0
  /\ frames' = << >> /\ inherited' = << >> /\ dropped' = FALSE
  /\ UNCHANGED <<inRun, budget>>

(* ichingvm2_assemble writes a program under the machine as it is.         *)
Assemble(p) ==
  /\ ~inRun
  /\ program' = p
  /\ frames' = << >> /\ inherited' = callStack /\ dropped' = FALSE
  /\ UNCHANGED <<pc, state, callStack, lr, cycles, inRun, budget>>

(* ichingvm2_load_program, _load_evob, _load_assembled: the call stack,    *)
(* the link register and the cycle counter stay as they are.               *)
Load(p) ==
  /\ ~inRun
  /\ program' = p /\ pc' = 0 /\ state' = "INIT"
  /\ frames' = << >> /\ inherited' = callStack /\ dropped' = FALSE
  /\ UNCHANGED <<callStack, lr, cycles, inRun, budget>>

(* ichingvm2_run: RUNNING is set whatever the state was. *)
RunBegin(b) ==
  /\ ~inRun
  /\ inRun' = TRUE /\ budget' = b
  /\ state' = "RUNNING"
  /\ UNCHANGED <<program, pc, callStack, lr, cycles, history>>

RunEnd ==
  /\ inRun
  /\ state # "RUNNING" \/ cycles >= budget
  /\ inRun' = FALSE
  /\ UNCHANGED <<machine, budget, history>>

-----------------------------------------------------------------------------
(* ichingvm2_step, called by the loop of ichingvm2_run or by the host on a *)
(* VM that a run left RUNNING when its budget was used up.                 *)

MayStep ==
  /\ state = "RUNNING"
  /\ cycles < IF inRun THEN budget ELSE CycleCap

Fetch(op) ==
  /\ MayStep
  /\ pc < Len(program)
  /\ program[pc + 1].op = op

Targets == program[pc + 1].to

(* Slip: cycle_count++ forgotten. *)
RetireUncounted == UNCHANGED <<cycles, program, inRun, budget>>

(* The instruction completed: cycle_count++, and what no action changes.   *)
Retire == /\ cycles' = cycles + 1
          /\ UNCHANGED <<program, inRun, budget>>

SameFrames == UNCHANGED <<callStack, history>>

RunOffEnd ==
  /\ MayStep
  /\ pc >= Len(program)
  /\ state' = "HALTED"
  /\ UNCHANGED <<program, pc, callStack, lr, cycles, inRun, budget, history>>

Plain == /\ Fetch("plain")
         /\ pc' = pc + 1
         /\ Retire /\ SameFrames /\ UNCHANGED <<state, lr>>

Link == /\ Fetch("link")
        /\ lr' \in Targets
        /\ pc' = pc + 1
        /\ Retire /\ SameFrames /\ UNCHANGED state

Jump == /\ Fetch("jump")
        /\ pc' \in Targets
        /\ Retire /\ SameFrames /\ UNCHANGED <<state, lr>>

Branch == /\ Fetch("branch")
          /\ pc' \in Targets \cup {pc + 1}
          /\ Retire /\ SameFrames /\ UNCHANGED <<state, lr>>

(* Slip: call_stack_top compared with <= instead of <. *)
CallOneTooMany ==
  /\ Fetch("call")
  /\ IF Len(callStack) <= MaxCalls
     THEN callStack' = Append(callStack, pc + 1) /\ dropped' = dropped
     ELSE callStack' = callStack /\ dropped' = TRUE
  /\ lr' = pc + 1
  /\ pc' \in Targets
  /\ frames' = Append(frames, pc + 1)
  /\ Retire /\ UNCHANGED <<state, inherited>>

(* ABUNDANCE.1: a full call stack loses the return address, silently. *)
Call ==
  /\ Fetch("call")
  /\ IF Len(callStack) < MaxCalls
     THEN callStack' = Append(callStack, pc + 1) /\ dropped' = dropped
     ELSE callStack' = callStack /\ dropped' = TRUE
  /\ lr' = pc + 1
  /\ pc' \in Targets
  /\ frames' = Append(frames, pc + 1)
  /\ Retire /\ UNCHANGED <<state, inherited>>

(* History of a RETURN.0: it ends the innermost call of this program, or,  *)
(* when there is none, uses up a frame an earlier program left.            *)
ForgetFrame ==
  IF frames # << >>
  THEN frames' = FrontOf(frames) /\ UNCHANGED <<inherited, dropped>>
  ELSE /\ inherited' = IF inherited = << >> THEN << >> ELSE FrontOf(inherited)
       /\ UNCHANGED <<frames, dropped>>

(* Slip: the return address is read but not popped. *)
ReturnPeek ==
  /\ Fetch("ret")
  /\ callStack # << >>
  /\ pc' = LastOf(callStack)
  /\ ForgetFrame
  /\ Retire /\ UNCHANGED <<state, lr, callStack>>

ReturnPop ==
  /\ Fetch("ret")
  /\ callStack # << >>
  /\ pc' = LastOf(callStack)
  /\ callStack' = FrontOf(callStack)
  /\ ForgetFrame
  /\ Retire /\ UNCHANGED <<state, lr>>

ReturnLink ==
  /\ Fetch("ret")
  /\ callStack = << >> /\ lr > 0
  /\ pc' = lr
  /\ lr' = 0
  /\ ForgetFrame
  /\ Retire /\ UNCHANGED <<state, callStack>>

ReturnHalt ==
  /\ Fetch("ret")
  /\ callStack = << >> /\ lr = 0
  /\ state' = "HALTED"
  /\ pc' = pc + 1
  /\ ForgetFrame
  /\ Retire /\ UNCHANGED <<callStack, lr>>

HaltOp == /\ Fetch("halt")
          /\ state' = "HALTED"
          /\ pc' = pc + 1
          /\ Retire /\ SameFrames /\ UNCHANGED lr

Pause == /\ Fetch("pause")
         /\ state' = "PAUSED"
         /\ pc' = pc + 1
         /\ Retire /\ SameFrames /\ UNCHANGED lr

(* The divisor is data: zero or not. *)
Divide == /\ Fetch("divide")
          /\ state' \in {"RUNNING", "ERROR"}
          /\ pc' = pc + 1
          /\ Retire /\ SameFrames /\ UNCHANGED lr

Undefined == /\ Fetch("undef")
             /\ state' = "ERROR"
             /\ pc' = pc + 1
             /\ Retire /\ SameFrames /\ UNCHANGED lr

(* A byte of no instruction type: step returns before cycle_count++. *)
Illegal == /\ Fetch("illegal")
           /\ state' = "ERROR"
           /\ pc' = pc + 1
           /\ SameFrames /\ UNCHANGED <<program, lr, cycles, inRun, budget>>

(* The bounds check of step_iching or step_native fails. *)
Truncated == /\ Fetch("cut")
             /\ state' = "HALTED"
             /\ pc' = pc + 1
             /\ Retire /\ SameFrames /\ UNCHANGED lr

Step == \/ RunOffEnd \/ Plain \/ Link \/ Jump \/ Branch \/ Call
        \/ ReturnPop \/ ReturnLink \/ ReturnHalt
        \/ HaltOp \/ Pause \/ Divide \/ Undefined \/ Illegal \/ Truncated

-----------------------------------------------------------------------------
(* Any host: the API in any order. *)

Next == \/ Reset
        \/ \E p \in Programs : Load(p)
        \/ \E p \in Programs : Assemble(p)
        \/ \E b \in Budgets : RunBegin(b)
        \/ RunEnd
        \/ Step

(* The loop of ichingvm2_run is sequential C code: once entered it keeps   *)
(* going.  Nothing obliges the host to call anything.                      *)
Fairness == WF_vars(inRun /\ (Step \/ RunEnd))

Spec == Init /\ [][Next]_vars /\ Fairness

(* A careful host, like evb_runner.c and test_ichingvm2.c: a VM created or *)
(* reset for every program, and no run on a VM that has halted or failed.  *)
Fresh == program = << >> /\ state = "INIT"

CarefulLoad(p) == Fresh /\ Load(p)

CarefulRun(b) == state \notin {"HALTED", "ERROR"} /\ RunBegin(b)

CarefulNext == \/ Reset
               \/ \E p \in Programs : CarefulLoad(p)
               \/ \E b \in Budgets : CarefulRun(b)
               \/ RunEnd
               \/ Step

CarefulSpec == Init /\ [][CarefulNext]_vars

-----------------------------------------------------------------------------
(* s is t with some of its elements left out. *)
Embeds(s, t) ==
  \E f \in [1..Len(s) -> 1..Len(t)] :
     /\ \A i, j \in 1..Len(s) : i < j => f[i] < f[j]
     /\ \A i \in 1..Len(s) : s[i] = t[f[i]]

(* Any host.  As long as no call was lost to a full call stack, the stack  *)
(* is exactly what earlier programs left, below the return addresses of    *)
(* this program's open calls: each RETURN ends the innermost open call and *)
(* leftovers are reached only by a RETURN without a call (ABUNDANCE.1 and  *)
(* RETURN.0 of step_iching, the loads that keep call_stack_top).  After a  *)
(* lost call a RETURN may end another call than the innermost, but what it *)
(* takes from the stack is still the address of one that is open, and the  *)
(* open calls are met in their order.                                      *)
CallsMatched ==
  /\ ~dropped => callStack = inherited \o frames
  /\ Embeds(callStack, inherited \o frames)

(* Any host.  Every run comes back, even of a program that loops for ever: *)
(* the budget of ichingvm2_run is enough because each completed step       *)
(* counts and each other step ends the loop.                               *)
RunReturns == inRun ~> ~inRun

(* Careful host.  The walk over the control-flow graph that the author of  *)
(* a program sees, each RETURN behind its own call as long as the calls    *)
(* fit the call stack; where budgets and pauses cut it makes no difference.*)
Status == CASE state = "HALTED" -> "halted"
            [] state = "ERROR"  -> "failed"
            [] OTHER            -> "live"

Walk == INSTANCE ProgramWalk WITH prog <- program, at <- pc, status <- Status,
                                  open <- frames, lost <- dropped, Depth <- MaxCalls

WalkRefined == Walk!WalkSpec
=============================================================================
