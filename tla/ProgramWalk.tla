----------------------------- MODULE ProgramWalk -----------------------------
(***************************************************************************)
(* What ichingvm2.c promises the author of a program, whatever the host    *)
(* does around it: execution walks the program's control-flow graph from   *)
(* address 0, a RETURN lands behind the innermost call that is still open  *)
(* as long as no call found Depth others open, and a program that halted   *)
(* or failed stays so until another one is loaded.  A RETURN without an    *)
(* open call, and every one after a call too many, still lands behind some *)
(* call of the SAME program, on an address the program put into the link   *)
(* register, or halts.  Budgets, runs, single steps, pauses and the array  *)
(* of return addresses are not visible here.                               *)
(*                                                                         *)
(* A program is a sequence of instructions [op, to]: "to" is the set of    *)
(* addresses (or, for "link", of values) the instruction's operands can    *)
(* denote, a singleton for an immediate.  Address a holds program[a + 1].  *)
(***************************************************************************)
EXTENDS Integers, Sequences

CONSTANTS
  Programs,
  Depth     \* as many calls may be open

VARIABLES
  prog, at, status,
  open,     \* the return addresses of the open calls, the innermost last
  lost      \* a call was one too many

walkVars == <<prog, at, status, open, lost>>

Ops == {"plain", "link", "jump", "branch", "call", "ret", "halt", "pause",
        "divide", "undef", "illegal", "cut"}

Instr == [op : Ops, to : SUBSET Nat]

(* The addresses behind the calls of p. *)
ReturnSites(p) == {i \in 1..Len(p) : p[i].op = "call"}

(* The values p itself moves into the link register. *)
LinkValues(p) == UNION {p[i].to : i \in {j \in 1..Len(p) : p[j].op = "link"}}

Successors(p, a) ==
  LET ins == p[a + 1]
  IN  CASE ins.op = "jump"   -> ins.to
        [] ins.op = "branch" -> ins.to \cup {a + 1}
        [] OTHER             -> {a + 1}

WalkInit == prog = << >> /\ at = 0 /\ status = "live" /\ open = << >> /\ lost = FALSE

Start(p) == prog' = p /\ at' = 0 /\ status' = "live" /\ open' = << >> /\ lost' = FALSE

At(ops) == /\ status = "live"
           /\ at < Len(prog)
           /\ prog[at + 1].op \in ops

Advance == /\ At({"plain", "link", "jump", "branch", "pause", "divide"})
           /\ at' \in Successors(prog, at)
           /\ UNCHANGED <<prog, status, open, lost>>

EnterCall == /\ At({"call"})
             /\ at' \in prog[at + 1].to
             /\ open' = Append(open, at + 1)
             /\ lost' = (lost \/ Len(open) >= Depth)
             /\ UNCHANGED <<prog, status>>

(* The innermost call is over, wherever the RETURN goes. *)
CloseCall == open' = IF open = << >> THEN << >> ELSE SubSeq(open, 1, Len(open) - 1)

Astray == lost \/ open = << >>

LeaveCall == /\ At({"ret"})
             /\ ~Astray
             /\ at' = open[Len(open)]
             /\ CloseCall
             /\ UNCHANGED <<prog, status, lost>>

LeaveAstray == /\ At({"ret"})
               /\ Astray
               /\ at' \in ReturnSites(prog) \cup LinkValues(prog)
               /\ CloseCall
               /\ UNCHANGED <<prog, status, lost>>

HaltAstray == /\ At({"ret"})
              /\ Astray
              /\ at' = at + 1
              /\ status' = "halted"
              /\ CloseCall
              /\ UNCHANGED <<prog, lost>>

Halt == /\ \/ status = "live" /\ at >= Len(prog)
           \/ At({"halt", "cut"})
        /\ at' \in {at, at + 1}
        /\ status' = "halted"
        /\ UNCHANGED <<prog, open, lost>>

Fail == /\ At({"divide", "undef", "illegal"})
        /\ at' = at + 1
        /\ status' = "failed"
        /\ UNCHANGED <<prog, open, lost>>

WalkNext == \/ \E p \in Programs \cup {<< >>} : Start(p)
            \/ Advance
            \/ EnterCall
            \/ LeaveCall
            \/ LeaveAstray
            \/ HaltAstray
            \/ Halt
            \/ Fail

WalkSpec == WalkInit /\ [][WalkNext]_walkVars
=============================================================================
