----------------------------- MODULE VM2Registers ----------------------------
(***************************************************************************)
(* Saving and restoring registers on the stack in ichingvm2.c: PUSHA and   *)
(* POPA (ABOUND.1 and .2 do the same), PUSH and POP, when the stack        *)
(* pointer is one of the registers saved.  The instructions walk over the  *)
(* register file and move SP as they go, so SP is saved half way and       *)
(* restored half way.                                                      *)
(*                                                                         *)
(* The stack is taken word by word.  The program is well behaved: it pops  *)
(* what it pushed in the order of a stack, does not push below address 0,  *)
(* and moves SP by pushing and popping only.                               *)
(***************************************************************************)
EXTENDS Integers, Sequences

CONSTANTS
  NumRegs,    \* ICHINGVM2_NUM_REGS
  SP,         \* ICHINGVM2_SP_REG
  StackTop,   \* the initial SP, in words
  Values      \* what a program moves into registers

(* Assumed by the module that gives these constants their values. *)
SavingAssumption ==
  /\ NumRegs \in Nat /\ SP \in 0..(NumRegs - 1)
  /\ StackTop \in Nat
  /\ Values \subseteq Nat

VARIABLES
  regs,
  mem,     \* the words of the heap that the stack uses
  saved    \* history: what is pushed, with all registers as they were

vars == <<regs, mem, saved>>

Regs  == 0..(NumRegs - 1)
Addr  == 0..(StackTop - 1)
Entry == [what : {"all", "one"}, reg : Regs, regs : [Regs -> Nat]]

Top == saved[Len(saved)]

Init == /\ regs = [r \in Regs |-> IF r = SP THEN StackTop ELSE 0]
        /\ mem = [a \in Addr |-> 0]
        /\ saved = << >>

-----------------------------------------------------------------------------
Load(a) == IF a \in Addr THEN mem[a] ELSE 0

Remember(what, r) ==
  saved' = Append(saved, [what |-> what, reg |-> r, regs |-> regs])

Forget == saved' = SubSeq(saved, 1, Len(saved) - 1)

(* What PUSHA stores of a register; SP has moved SP + 1 times by then. *)
Saved(r) == IF r = SP THEN regs[SP] - (SP + 1) ELSE regs[r]

(* PUSHA: registers 0, 1, 2, ... *)
PushAll ==
  /\ regs[SP] >= NumRegs
  /\ mem'  = [a \in Addr |-> IF a \in (regs[SP] - NumRegs)..(regs[SP] - 1)
                             THEN Saved(regs[SP] - 1 - a) ELSE mem[a]]
  /\ regs' = [regs EXCEPT ![SP] = @ - NumRegs]
  /\ Remember("all", SP)

(* POPA: the registers from the last one down.  Once SP itself has been    *)
(* restored (and stepped) the rest comes from where it points now.         *)
PopAll ==
  /\ saved # << >> /\ Top.what = "all"
  /\ LET above == [r \in Regs |-> Load(regs[SP] + NumRegs - 1 - r)]
         sp    == above[SP] + 1
     IN  regs' = [r \in Regs |-> IF r > SP THEN above[r]
                                 ELSE IF r = SP THEN sp + SP
                                 ELSE Load(sp + SP - 1 - r)]
  /\ Forget /\ UNCHANGED mem

(* PUSH: SP moves first. *)
Push(r) ==
  /\ regs[SP] >= 1
  /\ mem'  = [mem EXCEPT ![regs[SP] - 1] = IF r = SP THEN regs[SP] - 1 ELSE regs[r]]
  /\ regs' = [regs EXCEPT ![SP] = @ - 1]
  /\ Remember("one", r)

(* Slip: SP is stepped before the word is read. *)
PopAfter(r) ==
  /\ saved # << >> /\ Top.what = "one" /\ (Top.reg = SP <=> r = SP)
  /\ regs' = [regs EXCEPT ![SP] = @ + 1, ![r] = Load(regs[SP] + 1)]
  /\ Forget /\ UNCHANGED mem

(* POP: of SP itself, the word is stepped.                                 *)
Pop(r) ==
  /\ saved # << >> /\ Top.what = "one" /\ (Top.reg = SP <=> r = SP)
  /\ regs' = IF r = SP THEN [regs EXCEPT ![SP] = Load(@) + 1]
             ELSE [regs EXCEPT ![r] = Load(regs[SP]), ![SP] = @ + 1]
  /\ Forget /\ UNCHANGED mem

(* Any instruction that moves a value into a register. *)
Write(r, v) == /\ r # SP
               /\ regs' = [regs EXCEPT ![r] = v]
               /\ UNCHANGED <<mem, saved>>

Next == \/ PushAll \/ PopAll
        \/ \E r \in Regs : Push(r) \/ Pop(r) \/ \E v \in Values : Write(r, v)

Spec == Init /\ [][Next]_vars

-----------------------------------------------------------------------------
TypeOK ==
  /\ regs \in [Regs -> Nat] /\ regs[SP] <= StackTop
  /\ mem \in [Addr -> Nat]
  /\ saved \in Seq(Entry)

(* A pop gives back what the push it belongs to saved, whatever has been   *)
(* pushed and popped in between: POPA every register as it was, POP the    *)
(* value pushed and SP as it was, SP being saved among the others or not.  *)
Restored ==
  [][ Len(saved') < Len(saved) =>
        \/ Top.what = "all" /\ regs' = Top.regs
        \/ /\ Top.what = "one" /\ regs'[SP] = Top.regs[SP]
           /\ \E r \in Regs : /\ regs'[r] = Top.regs[Top.reg]
                              /\ \A q \in Regs \ {r, SP} : regs'[q] = regs[q] ]_vars
=============================================================================
