------------------------------ MODULE VM2Stores ------------------------------
(* What ichingvm2.c keeps for its programs, each kind of store with a well *)
(* behaved program of its own, one subject per behaviour: the heap with    *)
(* its blocks and the stack, byte by byte (VM2Memory); the registers saved *)
(* on the stack, word by word (VM2Registers); the handles of files, of all *)
(* the VMs of a process (VM2Files).                                        *)
EXTENDS VM2Memory

CONSTANTS
  NumRegs, SP, StackWords, Values,            \* of VM2Registers
  None, VMs, MaxFiles, MaxOpens, Positions    \* of VM2Files

VARIABLES subject,
          regs, words, saved,
          table, opens, open, position, held

R == INSTANCE VM2Registers WITH mem <- words, StackTop <- StackWords
F == INSTANCE VM2Files

ASSUME SavingAssumption  == R!SavingAssumption
ASSUME HandlesAssumption == F!HandlesAssumption

registers  == <<regs, words, saved>>
files      == <<table, opens, open, position, held>>
storesVars == <<subject, vars, registers, files>>

StoresInit == /\ subject \in {"memory", "registers", "files"}
              /\ Init /\ R!Init /\ F!Init

Program    == subject = "memory" /\ Next /\ UNCHANGED <<subject, registers, files>>
Savings    == subject = "registers" /\ R!Next /\ UNCHANGED <<subject, vars, files>>
HandleUses == subject = "files" /\ F!Next /\ UNCHANGED <<subject, vars, registers>>

StoresNext == Program \/ Savings \/ HandleUses

StoresSpec == StoresInit /\ [][StoresNext]_storesVars

-----------------------------------------------------------------------------
(* See VM2Registers: a pop gives back what the push it belongs to saved.   *)
Restored == R!Restored

(* See VM2Files: what fopen opened and fclose has not closed is listed.    *)
OpenIsListed == F!OpenIsListed

(* See VM2Files: a handle stays what it was for the program that holds it. *)
HandlesKept == F!HandlesKept
=============================================================================
