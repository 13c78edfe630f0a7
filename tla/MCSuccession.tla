---------------------------- MODULE MCSuccession ----------------------------
(* Two instructions over registers that hold a small number, a number with *)
(* a place in the common memory and a word wider than a byte; programs     *)
(* that end without a HALT, loops, deep stacks, branches of both kinds,    *)
(* and each system call with arguments inside and outside of the memory.   *)
EXTENDS Succession, BootAssembler

L(mnemonic, tokens) == [mnemonic |-> mnemonic, tokens |-> tokens]

Prelude == <<L("ABOUND", <<Reg(1), Num(30)>>), L("ABOUND", <<Reg(2), Num(5)>>),
             L("OBSCURE", <<Reg(3), Reg(2)>>)>>
Halt == <<L("HALT", << >>)>>

OfTwo == {"AND", "FLUSH", "OBSCURE", "THRUST", "OR", "GATHER", "FOLLOWING", "REPLACE",
          "STRIP", "REDUCE", "XOR", "CONVERT", "CAST", "ABUNDANCE", "INCREASE",
          "DISPERSE", "BIND", "PENETRATE", "SHL", "INTRINSIC", "FELLOWSHIP", "MATE"}
OfWord == {"FLUSH", "SHL", "OBSCURE", "STRIP", "REDUCE", "INCREASE", "MATE", "FELLOWSHIP",
           "PENETRATE", "DISPERSE"}
OfOne == {"WAIT", "STEP", "ADVANCE", "GRADUAL", "SPRT", "CONTEMPLATE", "ILLUMINATE",
          "CREA", "FUTU", "PUSH_UP", "WELL"}
OfNone == {"RETURN", "YIELD", "SPECULATE", "SHOCK", "MISMATCH", "PERSIST", "TRAP",
           "THROTTLE", "LAME", "TRAPPED", "JOY", "SENSE", "OVERLOAD", "BREAK", "NOURISH",
           "STILL", "BARRIER", "TRAVEL", "TRUST", "HALT", "RETREAT"}

Menu ==
  {L(mn, <<Reg(1), Reg(2)>>) : mn \in OfTwo} \cup {L(mn, <<Reg(3), Reg(2)>>) : mn \in OfWord}
  \cup {L(mn, <<Reg(r)>>) : mn \in OfOne, r \in {1, 4}} \cup {L(mn, << >>) : mn \in OfNone}
  \cup {L("PUSH_UP", <<Reg(3)>>), L("DISPERSE", <<Reg(1), Reg(3)>>), L("PUSH_UP", <<Reg(13)>>), L("WELL", <<Reg(13)>>),
        L("STEP", <<Reg(13)>>), L("RECV", <<Reg(1), Num(1)>>), L("RECV", <<Reg(0), Num(0)>>),
        L("BITE", <<Num(5), Reg(2)>>), L("BITE", <<Num(250), Reg(3)>>),
        L("BITE", <<Num(6), Reg(2)>>), L("LOCK", <<Num(0)>>), L("UNLOCK", <<Num(0)>>),
        L("LOCK", <<Num(200)>>), L("SYNC", <<Num(1)>>), L("ALLOC", <<Reg(1), Num(6)>>),
        L("ALLOC", <<Reg(4), Num(0)>>), L("MICRO", <<Reg(1), Num(255)>>),
        L("MUT", <<Reg(1), Num(7)>>), L("MUT", <<Reg(2), Num(31)>>),
        L("BRANCH", <<Reg(1), Num(16)>>), L("BRANCH", <<Reg(0), Num(0)>>),
        L("BRANCH", <<Reg(1), Num(60)>>)}

First == {l \in Menu : l.mnemonic \in
            {"REDUCE", "SHL", "ABUNDANCE", "DISPERSE", "PENETRATE", "PUSH_UP", "WELL",
             "LOCK", "BRANCH", "WAIT", "CREA", "ALLOC", "MICRO", "RECV", "OBSCURE"}}

Pairs == {Prelude \o <<a, b>> \o Halt : a \in First, b \in Menu}
Open  == {Prelude \o <<a>> : a \in Menu}

(* Loops: a stack that grows into the text, and a lock that waits for itself. *)
Loops ==
  {<<L("ABOUND", <<Reg(1), Num(v)>>), L("PUSH_UP", <<Reg(1)>>),
     L("BRANCH", <<Reg(1), Num(4)>>)>> : v \in {4, 13, 100}}
  \cup {<<L("SPRT", <<Reg(1)>>), L("ALLOC", <<Reg(2), Num(size)>>),
          L("BRANCH", <<Reg(1), Num(4)>>)>> : size \in {7, 20}}
  \cup {<<L("LOCK", <<Num(1)>>), L("LOCK", <<Num(1)>>)>> \o Halt}

Set(r, v) == L("ABOUND", <<Reg(r), Num(v)>>)
Call(n, a, b, c) == <<Set(0, n), Set(1, a), Set(2, b), Set(3, c),
                      L("RECV", <<Reg(0), Num(0)>>)>>

(* One system call on the text, on the end of the memory and beyond it. *)
Calls == {Call(n, a, b, c) \o Halt :
            n \in {0, 1, 2, 3, 4, 10, 11, 12, 13, 14, 20, 21, 22, 30, 31, 32, 33, 34, 35,
                   36, 40, 41, 255},
            a \in {0, 1, MemorySize - 1, MemorySize + 4}, b \in {0, 2, MemorySize + 4},
            c \in {0, 3}}

(* Strings: the copies of a number in letters that MEMSET and stores leave. *)
Text(n, a) == <<Set(1, 40), Set(2, 45), L("DISPERSE", <<Reg(1), Reg(2)>>),
                L("STEP", <<Reg(1)>>), Set(2, 55), L("DISPERSE", <<Reg(1), Reg(2)>>),
                Set(0, n), Set(1, a), Set(2, 40), L("RECV", <<Reg(0), Num(0)>>)>>
Strings == {Text(n, a) \o Halt : n \in {12, 14, 20, 21, 22, 36, 40, 41}, a \in {40, 41, 46}}

Ctypes == {<<Set(0, n), Set(1, c), L("RECV", <<Reg(0), Num(0)>>)>> \o Halt :
             n \in {30, 31, 32, 33, 34, 35}, c \in {32, 55, 70, 110}}

(* Wide arguments: R1 becomes the complement of a small number. *)
Wide == {<<Set(1, v), L("OBSCURE", <<Reg(1), Reg(1)>>), Set(0, n), Set(2, 1), Set(3, 1),
           L("RECV", <<Reg(0), Num(0)>>), Set(0, 10), L("RECV", <<Reg(0), Num(0)>>),
           L("ALLOC", <<Reg(4), Num(9)>>)>> \o Halt :
           v \in {2, 20, StackSize + 3}, n \in {1, 10, 12, 30}}
  \cup {<<Set(1, 200), L("OBSCURE", <<Reg(1), Reg(1)>>), Set(0, n), L("RECV", <<Reg(0), Num(0)>>)>>
           \o Halt : n \in {30, 31, 32, 33, 34, 35}}

(* Opening until the table is full, and closing. *)
Again == L("RECV", <<Reg(0), Num(0)>>)
Files == {<<Again, Set(0, 0), Again, Set(0, 0), Again, Set(1, fd), Set(0, 3), Again>> \o Halt :
            fd \in {1, 2, 3}}
  \cup {<<Again, Set(0, n), Set(1, 1), Set(2, buf), Set(3, 2), Again>> \o Halt :
            n \in {1, 2}, buf \in {60, MemorySize - 1}}

(* A string that runs out of the memory. *)
Endless == {<<Set(0, 13), Set(1, 100), Set(2, 55), Set(3, 12), Again,
              Set(0, n), Set(1, 105), Set(2, 105), Again>> \o Halt :
              n \in {0, 20, 21, 22, 36, 40, 41}}

(* RETURN to a word that was pushed, inside, outside and around the edge.  *)
Returns == {<<Set(1, v), L(mn, <<Reg(2), Reg(1)>>), L("PUSH_UP", <<Reg(2)>>),
              L("RETURN", << >>)>> \o Halt :
              v \in {0, 2, 16, 20}, mn \in {"OBSCURE", "FELLOWSHIP"}}

(* Branches to registers have no notation: their modifiers are patched in. *)
Branching(r) == Prelude \o <<L("BRANCH", <<Reg(2), Reg(r)>>)>> \o Halt \o Halt
Patched == {[code EXCEPT ![13] = 8 + md \div 16, ![14] = md % 16] :
              code \in UNION {Written(Branching(r)) : r \in {0, 1, 2, 3}},
              md \in {1, 15, 16, 32, 48}}

(* Longer than the stack, with a line no assembler knows, and too long for *)
(* the buffer.                                                             *)
Long == {[i \in 1..(StackSize \div 4 + 2) |-> L("STEP", <<Reg(1)>>)] \o Halt,
         Prelude \o <<L("CALL", <<Num(4)>>), L("STEP", <<Reg(16), Reg(1), Reg(2)>>)>> \o Halt,
         [i \in 1..(CodeLimit \div 4) |-> L("HALT", << >>)]}

MCPrograms ==
  UNION {Written(p) : p \in Pairs \cup Open \cup Loops \cup Calls \cup Strings \cup Ctypes
                              \cup Wide \cup Files \cup Endless \cup Returns \cup Long}
  \cup Patched
=============================================================================
