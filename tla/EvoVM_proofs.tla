----------------------------- MODULE EvoVM_proofs ----------------------------
(***************************************************************************)
(* Proofs about EvoVM for any programs, locks and budgets, any size of the *)
(* stack and of a byte, and any host.                                      *)
(***************************************************************************)
EXTENDS EvoVM, Lemmas

(* The values pushed since SP was moved lie under SP as their low bytes,   *)
(* the last of them on top; they are all there is above the end of the     *)
(* stack while SP was not moved at all.                                    *)
Stored ==
  /\ pushed # << >> => sp + Len(pushed) <= StackSize
  /\ \A k \in 1..Len(pushed) : stack[sp + Len(pushed) - k] = pushed[k] % ByteSize
  /\ ~moved => sp + Len(pushed) = StackSize

Inv == TypeOK /\ LocksAccounted /\ FaultsExplained /\ Stored

-----------------------------------------------------------------------------
(* What is below the top of the stack. *)
LEMMA FrontOfStack ==
  ASSUME NEW T, NEW s \in Seq(T), s # << >>
  PROVE  /\ Front(s) \in Seq(T) /\ Len(Front(s)) = Len(s) - 1 /\ Len(s) \in Nat \ {0}
         /\ \A k \in 1..(Len(s) - 1) : Front(s)[k] = s[k]
         /\ Last(s) \in T
  BY FrontElements, Zenon DEF Front, Last

LEMMA LowByte ==
  ASSUME NEW v \in Nat
  PROVE  v % ByteSize \in Bytes /\ (v < ByteSize => v % ByteSize = v)
  BY SizesAssumption DEF Bytes

-----------------------------------------------------------------------------
(* What a value pushed, a value taken, a move of SP and nothing at all     *)
(* leave of the stack.                                                     *)
StackType == /\ stack \in [Cells -> Bytes] /\ sp \in Nat
             /\ pushed \in Seq(Nat) /\ moved \in BOOLEAN

LEMMA StoreStores ==
  ASSUME StackType, Stored, NEW v \in Nat, sp > 0, sp <= StackSize, Store(v)
  PROVE  StackType' /\ Stored'
<1>0. v % ByteSize \in Bytes
  BY LowByte
<1>1. sp - 1 \in Cells /\ sp' = sp - 1 /\ sp' \in Nat
  BY SizesAssumption DEF StackType, Cells, Store
<1>2. /\ stack' \in [Cells -> Bytes]
      /\ stack'[sp - 1] = v % ByteSize
      /\ \A c \in Cells : c # sp - 1 => stack'[c] = stack[c]
  BY <1>0, <1>1 DEF StackType, Store
<1>3. /\ pushed' \in Seq(Nat) /\ Len(pushed') = Len(pushed) + 1 /\ Len(pushed) \in Nat
      /\ \A k \in 1..Len(pushed) : pushed'[k] = pushed[k]
      /\ pushed'[Len(pushed) + 1] = v
  BY AppendElements DEF StackType, Store
<1>4. sp + Len(pushed) <= StackSize
  BY <1>3, EmptySeq, SizesAssumption DEF Stored, StackType
<1>5. ASSUME NEW k \in 1..Len(pushed')
      PROVE  stack'[sp' + Len(pushed') - k] = pushed'[k] % ByteSize
  <2>1. CASE k = Len(pushed) + 1
    <3>1. sp' + Len(pushed') - k = sp - 1
      BY <1>1, <1>3, <2>1 DEF StackType
    <3>2. QED  BY <1>2, <1>3, <2>1, <3>1
  <2>2. CASE k # Len(pushed) + 1
    <3>1. k \in 1..Len(pushed)
      BY <1>3, <2>2
    <3>2. /\ sp' + Len(pushed') - k = sp + Len(pushed) - k
          /\ sp + Len(pushed) - k \in Cells /\ sp + Len(pushed) - k # sp - 1
      BY <1>1, <1>3, <1>4, <3>1, SizesAssumption DEF StackType, Cells
    <3>3. stack'[sp' + Len(pushed') - k] = stack[sp + Len(pushed) - k]
      BY <1>2, <3>2
    <3>4. QED  BY <1>3, <3>1, <3>3 DEF Stored
  <2>3. QED  BY <2>1, <2>2
<1>6. sp' + Len(pushed') = sp + Len(pushed)
  BY <1>1, <1>3 DEF StackType
<1>7. moved' = moved
  BY DEF Store
<1>8. Stored'
  BY <1>4, <1>5, <1>6, <1>7 DEF Stored
<1>9. QED  BY <1>1, <1>2, <1>3, <1>7, <1>8 DEF StackType

LEMMA TopIsPushed ==
  ASSUME StackType, Stored, sp < StackSize
  PROVE  /\ stack[sp] \in Bytes
         /\ moved \/ pushed # << >>
         /\ pushed # << >> /\ Last(pushed) < ByteSize => stack[sp] = Last(pushed)
<1>1. stack[sp] \in Bytes
  BY SizesAssumption DEF StackType, Cells
<1>2. moved \/ pushed # << >>
  BY EmptySeq, SizesAssumption DEF StackType, Stored
<1>3. ASSUME pushed # << >>, Last(pushed) < ByteSize
      PROVE  stack[sp] = Last(pushed)
  <2>1. Len(pushed) \in Nat \ {0} /\ Last(pushed) \in Nat
    BY <1>3, FrontOfStack DEF StackType
  <2>2. stack[sp + Len(pushed) - Len(pushed)] = Last(pushed) % ByteSize
    BY <2>1 DEF Stored, Last
  <2>3. sp + Len(pushed) - Len(pushed) = sp
    BY <2>1 DEF StackType
  <2>4. QED  BY <1>3, <2>1, <2>2, <2>3, LowByte
<1>4. QED  BY <1>1, <1>2, <1>3

LEMMA DropTopDrops ==
  ASSUME StackType, Stored, sp < StackSize, DropTop
  PROVE  StackType' /\ Stored'
<1>1. sp' = sp + 1 /\ stack' = stack /\ moved' = moved /\ sp' \in Nat
  BY DEF StackType, DropTop
<1>2. CASE pushed = << >>
  <2>1. pushed' = << >> /\ moved
    BY <1>2, TopIsPushed, Zenon DEF DropTop
  <2>2. Stored'
    BY <1>1, <2>1, EmptySeq DEF Stored
  <2>3. QED  BY <1>1, <2>1, <2>2, EmptySeq DEF StackType
<1>3. CASE pushed # << >>
  <2>1. /\ pushed' \in Seq(Nat) /\ Len(pushed') = Len(pushed) - 1 /\ Len(pushed) \in Nat \ {0}
        /\ \A k \in 1..(Len(pushed) - 1) : pushed'[k] = pushed[k]
    BY <1>3, FrontOfStack DEF StackType, DropTop
  <2>2. sp' + Len(pushed') = sp + Len(pushed)
    BY <1>1, <2>1 DEF StackType
  <2>3. \A k \in 1..Len(pushed') : k \in 1..Len(pushed) /\ pushed'[k] = pushed[k]
    BY <2>1
  <2>4. ASSUME NEW k \in 1..Len(pushed')
        PROVE  stack'[sp' + Len(pushed') - k] = pushed'[k] % ByteSize
    <3>1. sp' + Len(pushed') - k = sp + Len(pushed) - k
      BY <1>1, <2>1 DEF StackType
    <3>2. stack[sp + Len(pushed) - k] = pushed[k] % ByteSize
      BY <2>3 DEF Stored
    <3>3. QED  BY <1>1, <2>3, <3>1, <3>2
  <2>5. sp' + Len(pushed') <= StackSize /\ (~moved' => sp' + Len(pushed') = StackSize)
    BY <1>1, <1>3, <2>2 DEF Stored
  <2>6. Stored'
    BY <2>4, <2>5 DEF Stored
  <2>7. QED  BY <1>1, <2>1, <2>6 DEF StackType
<1>4. QED  BY <1>2, <1>3

LEMMA MoveLeaves ==
  ASSUME StackType, NEW a \in Nat, MoveTo(a)
  PROVE  StackType' /\ Stored'
  BY EmptySeq DEF StackType, Stored, MoveTo

(* evo_vm_init leaves an empty stack. *)
LEMMA ClearStackClears == ClearStack => StackType' /\ Stored'
<1> SUFFICES ASSUME ClearStack  PROVE StackType' /\ Stored'
  OBVIOUS
<1>1. 0 \in Bytes
  BY SizesAssumption DEF Bytes
<1>2. stack' \in [Cells -> Bytes]
  BY <1>1 DEF ClearStack
<1>3. sp' = StackSize /\ pushed' = << >> /\ moved' = FALSE
  BY DEF ClearStack
<1>4. StackType'
  BY <1>2, <1>3, EmptySeq, SizesAssumption DEF StackType
<1>5. Stored'
  BY <1>3, EmptySeq, SizesAssumption DEF Stored
<1>6. QED  BY <1>4, <1>5

(* Every instruction of a program that is loaded has an operand. *)
LEMMA FetchedInstruction ==
  ASSUME TypeOK, NEW op, Fetch(op)
  PROVE  program[pc + 1] \in Instr /\ Operand \subseteq Nat /\ Lock \in Locks
<1>1. program \in Seq(Instr)
  BY ProgramsAssumption, EmptySeq DEF TypeOK
<1>2. pc + 1 \in 1..Len(program)
  BY <1>1, LenProperties DEF Fetch, TypeOK
<1>3. program[pc + 1] \in Instr
  BY <1>1, <1>2, ElementOfSeq
<1>4. QED  BY <1>3 DEF Instr, Operand, Lock

LEMMA RetireType ==
  ASSUME TypeOK, MayStep, Retire
  PROVE  left' \in Nat
  BY DEF TypeOK, MayStep, Retire

-----------------------------------------------------------------------------
(* An instruction that retires: what remains to be shown of it.            *)
LEMMA Retired ==
  ASSUME Inv, fault = "none", MayStep, Retire,
         pc' \in Nat, state' \in States,
         StackType' /\ Stored',
         locks' \subseteq Locks, taken' \subseteq Locks, foreign' \subseteq Locks,
         LocksAccounted'
  PROVE  Inv'
<1>1. UNCHANGED <<program, loaded, inRun, failed, fault>> /\ left' \in Nat
  BY RetireType DEF Inv, Retire
<1>2. TypeOK'
  BY <1>1 DEF Inv, TypeOK, StackType
<1>3. FaultsExplained'
  BY <1>1 DEF Inv, FaultsExplained
<1>4. QED  BY <1>2, <1>3 DEF Inv

LEMMA SameStackKeeps ==
  ASSUME StackType, Stored, SameStack
  PROVE  StackType' /\ Stored'
  BY DEF StackType, Stored, SameStack

LEMMA InvStack == Inv => StackType /\ Stored
  BY DEF Inv, TypeOK, StackType

LEMMA SameLocksKeeps ==
  ASSUME Inv, SameLocks
  PROVE  /\ locks' \subseteq Locks /\ taken' \subseteq Locks /\ foreign' \subseteq Locks
         /\ LocksAccounted'
  BY DEF Inv, TypeOK, LocksAccounted, SameLocks

LEMMA ContinueRuns == Continue => Retire /\ state' \in States
  BY DEF Continue, States

LEMMA InitInv == Init => Inv
<1> SUFFICES ASSUME Init  PROVE Inv
  OBVIOUS
<1>1. 0 \in Bytes
  BY SizesAssumption DEF Bytes
<1>2. TypeOK
  BY <1>1, EmptySeq, SizesAssumption DEF Init, TypeOK, States
<1>3. LocksAccounted /\ FaultsExplained
  BY DEF Init, LocksAccounted, FaultsExplained
<1>4. Stored
  BY EmptySeq, SizesAssumption DEF Init, Stored
<1>5. QED  BY <1>2, <1>3, <1>4 DEF Inv

(* The calls of the host. *)
LEMMA HostInv ==
  ASSUME Inv, fault = "none",
         \/ Reset
         \/ \E p \in Programs : Load(p)
         \/ LoadFails
         \/ \E b \in Budgets : RunBegin(b)
         \/ RunEnd
  PROVE  Inv'
<1>1. CASE Reset
  <2>1. StackType' /\ Stored'
    BY <1>1, ClearStackClears DEF Reset
  <2>2. TypeOK'
    BY <1>1, <2>1 DEF Reset, Inv, TypeOK, StackType, States
  <2>3. LocksAccounted'
    BY <1>1 DEF Reset, LocksAccounted
  <2>4. program' = << >> /\ fault' = "none"
    BY <1>1 DEF Reset
  <2>5. FaultsExplained'
    BY <2>4 DEF FaultsExplained
  <2>6. QED  BY <2>1, <2>2, <2>3, <2>5 DEF Inv
<1>2. CASE \E p \in Programs : Load(p)
  <2>1. PICK p \in Programs : Load(p)
    BY <1>2
  <2>2. loaded' /\ fault' = "none"
    BY <2>1, Zenon DEF Load
  <2>3. {loaded', moved', failed'} \subseteq BOOLEAN
    BY <2>1 DEF Load, Inv, TypeOK
  <2>4. TypeOK'
    BY <2>1, <2>3 DEF Load, Inv, TypeOK, States
  <2>5. LocksAccounted'
    BY <2>1 DEF Load, LocksAccounted
  <2>6. FaultsExplained'
    BY <2>2 DEF FaultsExplained
  <2>7. Stored'
    BY <2>1 DEF Load, Inv, Stored
  <2>8. QED  BY <2>4, <2>5, <2>6, <2>7 DEF Inv
<1>3. CASE LoadFails
  BY <1>3 DEF LoadFails, Inv, TypeOK, LocksAccounted, FaultsExplained, Stored
<1>4. CASE \E b \in Budgets : RunBegin(b)
  BY <1>4, BudgetsAssumption
  DEF RunBegin, history, Inv, TypeOK, LocksAccounted, FaultsExplained, Stored, States
<1>5. CASE RunEnd
  BY <1>5 DEF RunEnd, machine, history, Inv, TypeOK, LocksAccounted,
              FaultsExplained, Stored
<1>6. QED  BY <1>1, <1>2, <1>3, <1>4, <1>5

LEMMA RunOffEndInv == Inv /\ RunOffEnd => Inv'
  BY DEF RunOffEnd, history, Inv, TypeOK, LocksAccounted, FaultsExplained,
         Stored, States

(* A step reads through NULL only where program_len is stale. *)
LEMMA CrashInv == Inv /\ Crash => Inv'
<1> SUFFICES ASSUME Inv, Crash  PROVE Inv'
  OBVIOUS
<1>1. program # << >>
  BY DEF Crash, Inv, TypeOK
<1>2. failed
  BY <1>1 DEF Crash, Inv, FaultsExplained
<1>3. QED
  BY <1>2 DEF Crash, machine, history, Inv, TypeOK, LocksAccounted,
              FaultsExplained, Stored

(* A push writes outside of the stack only where SP was moved. *)
LEMMA PushOutsideInv == Inv /\ PushOutside => Inv'
<1> SUFFICES ASSUME Inv, PushOutside  PROVE Inv'
  OBVIOUS
<1>1. moved
  <2>1. Len(pushed) \in Nat
    BY EmptySeq DEF Inv, TypeOK
  <2>2. QED  BY <2>1, SizesAssumption DEF PushOutside, Inv, TypeOK, Stored
<1>2. QED
  BY <1>1 DEF PushOutside, machine, history, Inv, TypeOK, LocksAccounted,
              FaultsExplained, Stored

(* Instructions that touch neither the stack nor the locks. *)
LEMMA ControlInv == Inv /\ fault = "none" /\ (Plain \/ Branch \/ ReturnHalt \/ Wait) => Inv'
<1> SUFFICES ASSUME Inv, fault = "none", Plain \/ Branch \/ ReturnHalt \/ Wait  PROVE Inv'
  OBVIOUS
<1>1. /\ MayStep /\ Retire /\ state' \in States /\ SameStack /\ SameLocks
  BY ContinueRuns DEF Plain, Branch, ReturnHalt, Wait, Fetch, States
<1>2. pc' \in Nat
  BY FetchedInstruction DEF Plain, Branch, ReturnHalt, Wait, Inv, TypeOK
<1>3. QED  BY <1>1, <1>2, Retired, InvStack, SameStackKeeps, SameLocksKeeps

LEMMA StopInv == Inv /\ fault = "none" /\ (Pause \/ Halt \/ Fail \/ Trap \/ Bite) => Inv'
<1> SUFFICES ASSUME Inv, fault = "none", Pause \/ Halt \/ Fail \/ Trap \/ Bite  PROVE Inv'
  OBVIOUS
<1>1. /\ MayStep /\ Retire /\ state' \in States /\ SameStack /\ SameLocks /\ pc' = pc + 1
  BY DEF Pause, Halt, Fail, Trap, Bite, Stop, Fetch, States
<1>2. pc' \in Nat
  BY <1>1 DEF Inv, TypeOK
<1>3. QED  BY <1>1, <1>2, Retired, InvStack, SameStackKeeps, SameLocksKeeps

LEMMA StackInv ==
  ASSUME Inv, fault = "none",
         Push \/ PushPointer \/ Pop \/ PopPointer \/ Move \/ Return
  PROVE  Inv'
<1>1. MayStep /\ Retire /\ state' \in States /\ SameLocks
  BY ContinueRuns DEF Push, PushPointer, Pop, PopPointer, Move, Return, Fetch
<1>2. StackType /\ Stored
  BY InvStack
<1>3. pc' \in Nat
  <2>1. pc + 1 \in Nat
    BY DEF Inv, TypeOK
  <2>2. CASE Return
    <3>1. pc' \in Bytes
      BY <1>2, <2>2, TopIsPushed DEF Return
    <3>2. QED  BY <3>1, SizesAssumption DEF Bytes
  <2>3. CASE ~ Return
    BY <2>1, <2>3 DEF Push, PushPointer, Pop, PopPointer, Move
  <2>4. QED  BY <2>2, <2>3
<1>4. StackType' /\ Stored'
  <2>1. CASE SameStack
    BY <1>2, <2>1, SameStackKeeps
  <2>2. CASE Push /\ ~ SameStack
    <3>1. sp <= StackSize /\ sp > 0 /\ Fetch("push")
      BY <2>2 DEF Push
    <3>2. PICK v \in Operand : Store(v)
      BY <2>2, <3>1 DEF Push
    <3>3. v \in Nat
      BY <3>1, FetchedInstruction DEF Inv
    <3>4. QED  BY <1>2, <3>1, <3>2, <3>3, StoreStores
  <2>3. CASE PushPointer /\ ~ SameStack
    <3>1. sp <= StackSize /\ sp > 0 /\ Store(sp - 1)
      BY <2>3 DEF PushPointer
    <3>2. sp - 1 \in Nat
      BY <1>2, <3>1 DEF StackType
    <3>3. QED  BY <1>2, <3>1, <3>2, StoreStores
  <2>4. CASE Pop /\ ~ SameStack
    BY <1>2, <2>4, DropTopDrops DEF Pop
  <2>5. CASE PopPointer /\ ~ SameStack
    <3>1. sp < StackSize /\ MoveTo(stack[sp] + 1)
      BY <2>5 DEF PopPointer
    <3>2. stack[sp] + 1 \in Nat
      BY <1>2, <3>1, TopIsPushed, SizesAssumption DEF Bytes
    <3>3. QED  BY <1>2, <3>1, <3>2, MoveLeaves
  <2>6. CASE Move
    <3>1. PICK a \in Operand : MoveTo(a)
      BY <2>6 DEF Move
    <3>2. a \in Nat
      BY <2>6, FetchedInstruction DEF Move, Inv
    <3>3. QED  BY <1>2, <3>1, <3>2, MoveLeaves
  <2>7. CASE Return
    BY <1>2, <2>7, DropTopDrops DEF Return
  <2>8. QED  BY <2>1, <2>2, <2>3, <2>4, <2>5, <2>6, <2>7
<1>5. QED  BY <1>1, <1>3, <1>4, Retired, SameLocksKeeps

LEMMA LockInv == Inv /\ fault = "none" /\ (LockTake \/ LockSpin \/ Unlock) => Inv'
<1> SUFFICES ASSUME Inv, fault = "none", LockTake \/ LockSpin \/ Unlock  PROVE Inv'
  OBVIOUS
<1>1. MayStep /\ Retire /\ state' \in States /\ SameStack
  BY ContinueRuns DEF LockTake, LockSpin, Unlock, Fetch
<1>2. pc' \in Nat /\ Lock \in Locks
  BY FetchedInstruction DEF LockTake, LockSpin, Unlock, Inv, TypeOK
<1>3. /\ locks' \subseteq Locks /\ taken' \subseteq Locks /\ foreign' \subseteq Locks
      /\ LocksAccounted'
  <2>1. CASE LockTake
    BY <1>2, <2>1 DEF LockTake, Inv, TypeOK, LocksAccounted
  <2>2. CASE LockSpin
    BY <2>2, SameLocksKeeps DEF LockSpin
  <2>3. CASE Unlock
    BY <2>3 DEF Unlock, Inv, TypeOK, LocksAccounted
  <2>4. QED  BY <2>1, <2>2, <2>3
<1>4. QED  BY <1>1, <1>2, <1>3, Retired, InvStack, SameStackKeeps

(* Inv is inductive. *)
LEMMA NextInv == Inv /\ [Next]_vars => Inv'
<1> SUFFICES ASSUME Inv, [Next]_vars  PROVE Inv'
  OBVIOUS
<1>1. CASE UNCHANGED vars
  BY <1>1 DEF vars, machine, history, Inv, TypeOK, LocksAccounted,
              FaultsExplained, Stored
<1>2. CASE Next /\ Step
  <2>1. fault = "none"
    BY <1>2 DEF Next
  <2>2. QED
    BY <1>2, <2>1, RunOffEndInv, CrashInv, PushOutsideInv, ControlInv, StackInv, LockInv, StopInv
    DEF Step
<1>3. CASE Next /\ ~ Step
  BY <1>3, HostInv DEF Next
<1>4. QED  BY <1>1, <1>2, <1>3

-----------------------------------------------------------------------------
(* Every variable keeps its type, wherever SP is moved. *)
THEOREM TypeCorrect == Spec => []TypeOK
<1>1. Inv => TypeOK
  BY DEF Inv
<1>2. QED  BY <1>1, InitInv, NextInv, PTL DEF Spec

(* A lock that op_lock waits for was taken by a program of this machine.   *)
THEOREM LocksAreAccounted == Spec => []LocksAccounted
<1>1. Inv => LocksAccounted
  BY DEF Inv
<1>2. QED  BY <1>1, InitInv, NextInv, PTL DEF Spec

(* A step reads through NULL only when a load has failed and nothing       *)
(* mended it, and op_push_up writes past vm->stack only when the program   *)
(* has written SP.                                                         *)
THEOREM FaultsAreExplained == Spec => []FaultsExplained
<1>1. Inv => FaultsExplained
  BY DEF Inv
<1>2. QED  BY <1>1, InitInv, NextInv, PTL DEF Spec

ReturnsRight ==
  Return => /\ moved \/ pushed # << >>
            /\ pushed # << >> /\ Last(pushed) < ByteSize => pc' = Last(pushed)

LEMMA StepReturnsRight == Inv /\ [Next]_vars => [ReturnsRight]_vars
<1>1. Inv /\ Return => ReturnsRight
  BY InvStack, TopIsPushed DEF ReturnsRight, Return
<1>2. QED  BY <1>1 DEF ReturnsRight

(* op_return goes to the address that op_push_up was given last, of those  *)
(* not popped since, if it fits a byte; only after an instruction has      *)
(* written SP can there be none.                                           *)
THEOREM ReturnsGoToPushed == Spec => ReturnToPushed
<1>1. Spec => [][ReturnsRight]_vars
  BY InitInv, NextInv, StepReturnsRight, PTL DEF Spec
<1>2. QED  BY <1>1 DEF ReturnToPushed, ReturnsRight
=============================================================================
