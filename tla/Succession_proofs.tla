-------------------------- MODULE Succession_proofs -------------------------
(***************************************************************************)
(* Proofs about Succession, the bootstrap machine boot beside its          *)
(* predecessor seed, for arrays of any sizes, words of one to four bytes   *)
(* and any programs, under LayoutAssumption and ProgramsAssumption.        *)
(*                                                                         *)
(* The first half says what each instruction and system call does to one   *)
(* machine: Effect and SeedEffect list its types, its stack, its pointers  *)
(* and its control flow, once for all theorems.  Then come the theorems    *)
(* about one machine (files, blocks, words on the stack, containment), and *)
(* last what relates both: Sync is kept by every instruction that Parts    *)
(* does not list.                                                          *)
(***************************************************************************)
EXTENDS Succession, Lemmas, FiniteSetTheorems

-----------------------------------------------------------------------------
(* What both kinds of machine have. *)

Words == 0..(B!Word - 1)
States == {"INIT", "RUNNING", "PAUSED", "HALTED", "ERROR", "TRAPPED", "FAULT"}
CoreFields == {"reg", "pc", "state", "zero", "negative", "overflow", "threads", "futures",
               "energy", "cycle_count", "out"}

(* m is a machine as far as both kinds of machine are alike. *)
Core(m) ==
  /\ m = [f \in DOMAIN m |-> m[f]] /\ CoreFields \subseteq DOMAIN m
  /\ m.reg \in [0..15 -> Words] /\ m.pc \in Words /\ m.state \in States
  /\ m.zero \in BOOLEAN /\ m.negative \in BOOLEAN /\ m.overflow \in BOOLEAN
  /\ m.threads \in Nat /\ m.futures \in Nat /\ m.cycle_count \in Nat /\ m.energy \in Int

(* n differs from m at most in the fields F.                                *)
Keeps(m, n, F) == DOMAIN n = DOMAIN m /\ \A f \in DOMAIN m \ F : n[f] = m[f]

(* The constants as LayoutAssumption has them.                              *)
LEMMA Sizes ==
  /\ WordBytes \in 1..4 /\ Bits = 8 * WordBytes /\ Bits \in {8, 16, 24, 32}
  /\ StackSize \in Nat /\ StackSize > 0 /\ HeapSize \in Nat /\ HeapSize > 0
  /\ MemorySize \in Nat /\ MaxLocks \in Nat /\ MaxFiles \in Nat /\ FileBytes \in Nat
  /\ StackSize + HeapSize <= MemorySize /\ MemorySize + 4 <= B!Word /\ MaxLocks <= HeapSize
  /\ B!Word \in Nat /\ B!Word >= 256
<1>1. /\ WordBytes \in 1..4 /\ Bits = 8 * WordBytes
      /\ {StackSize, HeapSize} \subseteq Nat \ {0} /\ {MemorySize, MaxLocks} \subseteq Nat
      /\ StackSize + HeapSize <= MemorySize /\ MemorySize + 4 <= B!Word
      /\ MaxLocks <= HeapSize
      /\ MaxFiles \in Nat /\ FileBytes \in Nat
  BY LayoutAssumption, Zenon DEF B!LayoutAssumption
<1>2. WordBytes = 1 \/ WordBytes = 2 \/ WordBytes = 3 \/ WordBytes = 4
  BY <1>1
<1>3. Bits = 8 \/ Bits = 16 \/ Bits = 24 \/ Bits = 32
  BY <1>1, <1>2
<1>4. 2 ^ 8 >= 256 /\ 2 ^ 16 >= 256 /\ 2 ^ 24 >= 256 /\ 2 ^ 32 >= 256
  OBVIOUS
<1>5. B!Word >= 256
  BY <1>3, <1>4, Zenon DEF B!Word
<1>6. B!Word \in Int
  BY <1>3 DEF B!Word
<1> QED  BY <1>1, <1>3, <1>5, <1>6

(* Put writes one register.                                                 *)
LEMMA PutEffect ==
  ASSUME NEW m, Core(m), NEW r \in 0..15, NEW v \in Int
  PROVE  /\ Core(B!Put(m, r, v)) /\ Keeps(m, B!Put(m, r, v), {"reg"})
         /\ B!Put(m, r, v).reg = [m.reg EXCEPT ![r] = v % B!Word]
<1>1. v % B!Word \in Words
  BY Sizes DEF Words
<1> HIDE DEF Words
<1> QED  BY <1>1 DEF Core, CoreFields, Keeps, B!Put

(* The instructions that both machines have, by what they do. *)
CopyOps   == {15, 25, 29, 43, 46, 53, 57, 61}
BumpOps   == {40, 52, 59}
PutOps    == CopyOps \cup BumpOps \cup {5, 12, 13, 24, 32, 34, 38, 62}
ResultOps == {3, 7, 16, 35, 37, 49, 55}
EndOps    == {4, 11, 18, 26, 30, 31, 36, 56, 60}
IdleOps   == {8, 9, 14, 19, 20, 27, 28, 39, 44, 51}

(* What is put, from the operand bytes o and the two registers. *)
Calc(op, o, x, y) ==
  CASE op \in CopyOps -> y
    [] op \in BumpOps -> x + 1
    [] op = 5  -> B!Word - 1 - y
    [] op = 12 -> x + o[2]
    [] op = 13 -> o[2]
    [] op = 24 -> x + y
    [] op = 32 -> y % B!Byte
    [] op = 34 -> 1
    [] op = 38 -> IF o[2] % 32 >= Bits THEN x ELSE B!Xor(Bits, x, 2 ^ (o[2] % 32))
    [] op = 62 -> ((x + y) % B!Word) \div 2
    [] op = 3  -> B!And(Bits, x, y)
    [] op = 7  -> IF y % 32 >= Bits THEN 0 ELSE x \div 2 ^ (y % 32)
    [] op = 16 -> B!Or(Bits, x, y)
    [] op = 35 -> B!Word + x - y
    [] op = 37 -> B!Xor(Bits, x, y)
    [] op = 49 -> x + y
    [] op = 55 -> IF y % 32 >= Bits THEN 0 ELSE (x % 2 ^ (Bits - (y % 32))) * 2 ^ (y % 32)

StateAfter(op) ==
  CASE op \in {31, 56, 60} -> "HALTED"
    [] op \in {4, 36}      -> "PAUSED"
    [] op = 18             -> "TRAPPED"
    [] op \in {11, 26, 30} -> "ERROR"

(* Those that touch more than a register: CREA, FUTU, WAIT and ILLUMINATE.  *)
LEMMA OwnForms ==
  ASSUME NEW m, NEW op, NEW o
  PROVE  /\ op = 63 => B!Common(op, m, o) = B!op_crea(m, o)
         /\ op = 42 => B!Common(op, m, o) = B!op_futu(m, o)
         /\ op = 23 => B!Common(op, m, o) = B!op_wait(m, o)
         /\ op = 45 => B!Common(op, m, o) = B!op_illuminate(m, o)
<1>1. op = 63 => B!Common(op, m, o) = B!op_crea(m, o)
  BY DEF B!Common
<1>2. op = 42 => B!Common(op, m, o) = B!op_futu(m, o)
  BY DEF B!Common
<1>3. op = 23 => B!Common(op, m, o) = B!op_wait(m, o)
  BY DEF B!Common
<1>4. op = 45 => B!Common(op, m, o) = B!op_illuminate(m, o)
  BY DEF B!Common
<1> QED  BY <1>1, <1>2, <1>3, <1>4

LEMMA CommonForms ==
  ASSUME NEW m, NEW op, NEW o
  PROVE  LET value == Calc(op, o, B!X(m, o), B!Y(m, o)) IN
         /\ op \in PutOps    => B!Common(op, m, o) = B!Put(m, B!Dst(o), value)
         /\ op \in ResultOps => B!Common(op, m, o) = B!Result(m, o, value)
         /\ op \in EndOps    => B!Common(op, m, o) = B!End(m, StateAfter(op))
         /\ op \in IdleOps   => B!Common(op, m, o) = m
         /\ op = 63 => B!Common(op, m, o) = B!op_crea(m, o)
         /\ op = 42 => B!Common(op, m, o) = B!op_futu(m, o)
         /\ op = 23 => B!Common(op, m, o) = B!op_wait(m, o)
         /\ op = 45 => B!Common(op, m, o) = B!op_illuminate(m, o)
<1>1. ASSUME op \in CopyOps
      PROVE  B!Common(op, m, o) = B!Put(m, B!Dst(o), B!Y(m, o))
  BY <1>1 DEF CopyOps, B!Common, B!Copy, B!op_fellowship, B!op_following, B!op_intrinsic,
     B!op_thrust,
              B!op_bind, B!op_convert, B!op_replace, B!op_cast
<1>2. ASSUME op \in BumpOps
      PROVE  B!Common(op, m, o) = B!Put(m, B!Dst(o), B!X(m, o) + 1)
  BY <1>2 DEF BumpOps, B!Common, B!Bump, B!op_step, B!op_advance, B!op_gradual
<1>3. ASSUME op \in {5, 12, 13, 24, 32, 34, 38, 62}
      PROVE  B!Common(op, m, o) = B!Put(m, B!Dst(o), Calc(op, o, B!X(m, o), B!Y(m, o)))
  BY <1>3 DEF CopyOps, BumpOps, Calc, B!Common, B!op_obscure, B!op_micro, B!op_abound, B!op_gather,
              B!op_strip, B!op_sprt, B!op_mut, B!op_mate
<1>4. ASSUME op \in ResultOps
      PROVE  B!Common(op, m, o) = B!Result(m, o, Calc(op, o, B!X(m, o), B!Y(m, o)))
  BY <1>4 DEF CopyOps, BumpOps, ResultOps, Calc, B!Common, B!op_approach, B!op_flush, B!op_merge,
              B!op_reduce, B!op_adorn, B!op_increase, B!op_prefetch
<1>5. ASSUME op \in EndOps
      PROVE  B!Common(op, m, o) = B!End(m, StateAfter(op))
  BY <1>5 DEF EndOps, StateAfter, B!Common, B!op_halt, B!op_break, B!op_retreat, B!op_yield,
     B!op_still,
              B!op_trap, B!op_overload, B!op_trapped, B!op_mismatch
<1>6. ASSUME op \in IdleOps
      PROVE  B!Common(op, m, o) = m
  BY <1>6 DEF IdleOps, B!Common, B!Nothing, B!op_speculate, B!op_shock, B!op_persist, B!op_throttle,
              B!op_lame, B!op_joy, B!op_sense, B!op_barrier, B!op_travel, B!op_trust
<1>7. /\ op = 63 => B!Common(op, m, o) = B!op_crea(m, o)
      /\ op = 42 => B!Common(op, m, o) = B!op_futu(m, o)
      /\ op = 23 => B!Common(op, m, o) = B!op_wait(m, o)
      /\ op = 45 => B!Common(op, m, o) = B!op_illuminate(m, o)
  BY OwnForms
<1>8. /\ op \in CopyOps => Calc(op, o, B!X(m, o), B!Y(m, o)) = B!Y(m, o)
      /\ op \in BumpOps => Calc(op, o, B!X(m, o), B!Y(m, o)) = B!X(m, o) + 1
  BY DEF Calc, CopyOps, BumpOps
<1>9. op \in PutOps => op \in CopyOps \/ op \in BumpOps \/ op \in {5, 12, 13, 24, 32, 34, 38, 62}
  BY Zenon DEF PutOps
<1> QED  BY <1>1, <1>2, <1>3, <1>4, <1>5, <1>6, <1>7, <1>8, <1>9, Zenon

LEMMA SameOps ==
  ASSUME NEW m, NEW op, NEW o
  PROVE  S!Common(op, m, o) = B!Common(op, m, o)
  BY DEF S!Byte, S!Word, S!Dst, S!Src, S!X, S!Y, S!Put, S!Result, S!Copy, S!Bump, S!End,
              S!Nothing, S!op_fellowship, S!op_following, S!op_intrinsic, S!op_thrust, S!op_bind,
              S!op_convert, S!op_replace, S!op_cast, S!op_step, S!op_advance, S!op_gradual,
              S!op_approach, S!op_merge, S!op_adorn, S!op_reduce, S!op_increase, S!op_prefetch,
              S!op_flush, S!op_gather, S!op_mate, S!op_micro, S!op_abound, S!op_obscure,
              S!op_strip, S!op_sprt, S!op_mut, S!op_crea, S!op_futu, S!op_wait, S!op_illuminate,
              S!op_halt, S!op_break, S!op_retreat, S!op_yield, S!op_still, S!op_trap,
              S!op_overload, S!op_trapped, S!op_mismatch, S!op_speculate, S!op_shock,
              S!op_persist, S!op_throttle, S!op_lame, S!op_joy, S!op_sense, S!op_barrier,
              S!op_travel, S!op_trust, S!Common, S!Bit, S!Combine, S!And, S!Or, S!Xor, B!Byte,
              B!Word, B!Dst, B!Src, B!X, B!Y, B!Put, B!Result, B!Copy, B!Bump, B!End, B!Nothing,
              B!op_fellowship, B!op_following, B!op_intrinsic, B!op_thrust, B!op_bind,
              B!op_convert, B!op_replace, B!op_cast, B!op_step, B!op_advance, B!op_gradual,
              B!op_approach, B!op_merge, B!op_adorn, B!op_reduce, B!op_increase, B!op_prefetch,
              B!op_flush, B!op_gather, B!op_mate, B!op_micro, B!op_abound, B!op_obscure,
              B!op_strip, B!op_sprt, B!op_mut, B!op_crea, B!op_futu, B!op_wait, B!op_illuminate,
              B!op_halt, B!op_break, B!op_retreat, B!op_yield, B!op_still, B!op_trap,
              B!op_overload, B!op_trapped, B!op_mismatch, B!op_speculate, B!op_shock,
              B!op_persist, B!op_throttle, B!op_lame, B!op_joy, B!op_sense, B!op_barrier,
              B!op_travel, B!op_trust, B!Common, B!Bit, B!Combine, B!And, B!Or, B!Xor

-----------------------------------------------------------------------------
LEMMA PowersOfTwo == \A k \in 0..32 : 2 ^ k \in Nat /\ 2 ^ k > 0
<1>1. /\ 2 ^ 0 > 0 /\ 2 ^ 1 > 0 /\ 2 ^ 2 > 0 /\ 2 ^ 3 > 0 /\ 2 ^ 4 > 0 /\ 2 ^ 5 > 0
      /\ 2 ^ 6 > 0 /\ 2 ^ 7 > 0 /\ 2 ^ 8 > 0 /\ 2 ^ 9 > 0 /\ 2 ^ 10 > 0 /\ 2 ^ 11 > 0
      /\ 2 ^ 12 > 0 /\ 2 ^ 13 > 0 /\ 2 ^ 14 > 0 /\ 2 ^ 15 > 0 /\ 2 ^ 16 > 0 /\ 2 ^ 17 > 0
      /\ 2 ^ 18 > 0 /\ 2 ^ 19 > 0 /\ 2 ^ 20 > 0 /\ 2 ^ 21 > 0 /\ 2 ^ 22 > 0 /\ 2 ^ 23 > 0
      /\ 2 ^ 24 > 0 /\ 2 ^ 25 > 0 /\ 2 ^ 26 > 0 /\ 2 ^ 27 > 0 /\ 2 ^ 28 > 0 /\ 2 ^ 29 > 0
      /\ 2 ^ 30 > 0 /\ 2 ^ 31 > 0 /\ 2 ^ 32 > 0
  OBVIOUS
<1>2. ASSUME NEW k \in 0..32
      PROVE  2 ^ k \in Nat /\ 2 ^ k > 0
  <2>1. \/ k = 0 \/ k = 1 \/ k = 2 \/ k = 3 \/ k = 4 \/ k = 5 \/ k = 6 \/ k = 7
        \/ k = 8 \/ k = 9 \/ k = 10 \/ k = 11 \/ k = 12 \/ k = 13 \/ k = 14 \/ k = 15
        \/ k = 16 \/ k = 17 \/ k = 18 \/ k = 19 \/ k = 20 \/ k = 21 \/ k = 22 \/ k = 23
        \/ k = 24 \/ k = 25 \/ k = 26 \/ k = 27 \/ k = 28 \/ k = 29 \/ k = 30 \/ k = 31
        \/ k = 32
    OBVIOUS
  <2>2. 2 ^ k > 0
    BY <1>1, <2>1, Zenon
  <2>3. 2 ^ k \in Int
    OBVIOUS
  <2> QED  BY <2>2, <2>3
<1> QED  BY <1>2

(* What the bitwise operators compute is a number.                         *)
LEMMA CombineIsNumber ==
  ASSUME NEW w \in Nat, NEW pairs, NEW a, NEW b
  PROVE  B!Combine(w, pairs, a, b) \in Int
<1> DEFINE Add(n) == IF <<B!Bit(a, n - 1), B!Bit(b, n - 1)>> \in pairs THEN 2 ^ (n - 1) ELSE 0
           step == [n \in Nat |-> [v \in Int |-> v + (IF n = 0 THEN 0 ELSE Add(n))]]
           Sums(f) == f = [n \in 0..w |-> IF n = 0 THEN 0 ELSE f[n - 1] + Add(n)]
<1>1. ASSUME NEW n \in Nat, n # 0
      PROVE  Add(n) \in Int
  <2>1. 2 ^ (n - 1) \in Int
    <3>1. n - 1 \in Nat
      BY <1>1
    <3> QED  BY <3>1
  <2> QED  BY <2>1
<1> HIDE DEF Add
<1>2. step \in [Nat -> [Int -> Int]]
  BY <1>1
<1>3. ASSUME NEW n \in 1..w, NEW v \in Int
      PROVE  step[n][v] = v + Add(n)
  <2>1. n \in Nat /\ n # 0
    OBVIOUS
  <2> QED  BY <2>1
<1> HIDE DEF step
<1>4. PICK f \in [0..w -> Int] : Iterates(f, w, 0, step)
  <2>1. 0 \in Int /\ step \in Steps(Int)
    BY <1>2 DEF Steps
  <2> QED  BY <2>1, Iteration, Zenon
<1>5. \A n \in 0..w : f[n] = IF n = 0 THEN 0 ELSE f[n - 1] + Add(n)
  BY <1>3, <1>4 DEF Iterates
<1>6. \E g : Sums(g)
  BY <1>5
<1>7. ASSUME NEW g, Sums(g)
      PROVE  g[w] \in Int
  <2> DEFINE P == {n \in 0..w : g[n] \in Int}
  <2>1. 0 \in P
    BY <1>7
  <2>2. ASSUME NEW n \in 1..w, n - 1 \in P
        PROVE  n \in P
    <3>1. n \in Nat /\ n # 0 /\ n \in 0..w
      OBVIOUS
    <3>2. g[n] = g[n - 1] + Add(n)
      BY <1>7, <3>1
    <3>3. Add(n) \in Int /\ g[n - 1] \in Int
      BY <1>1, <2>2, <3>1
    <3> QED  BY <3>1, <3>2, <3>3
  <2> HIDE DEF P
  <2>3. 0..w \subseteq P
    BY <2>1, <2>2, IntervalInduction, Zenon
  <2>4. w \in 0..w
    OBVIOUS
  <2> QED  BY <2>3, <2>4 DEF P
<1>8. B!Combine(w, pairs, a, b) = (CHOOSE g : Sums(g))[w]
  BY Zenon DEF B!Combine, Add
<1> HIDE DEF Sums
<1>9. Sums(CHOOSE g : Sums(g))
  BY <1>6, Zenon
<1> QED  BY <1>7, <1>8, <1>9

Octets == 0..255

Instr(i) == i.op \in 0..63 /\ i.md \in 0..63 /\ i.o[1] \in Octets /\ i.o[2] \in Octets

(* From m to n nothing changes but what Changing lists, and of the          *)
(* registers those in R only.                                               *)
Changing == CoreFields \ {"cycle_count"}

Calm(m, n, R) ==
  /\ Core(n) /\ Keeps(m, n, Changing)
  /\ \A r \in 0..15 : r \notin R => n.reg[r] = m.reg[r]
  /\ n.pc <= m.pc
  /\ n.state = "FAULT" => m.state = "FAULT"

(* What the common instructions compute is a number.                        *)
LEMMA CalcIsNumber ==
  ASSUME NEW op \in PutOps \cup ResultOps, NEW o, o[2] \in Octets,
         NEW x \in Words, NEW y \in Words
  PROVE  Calc(op, o, x, y) \in Int
<1>1. /\ x \in Int /\ y \in Int /\ o[2] \in Int /\ B!Word \in Nat /\ B!Word > 0 /\ Bits \in Nat
      /\ Bits <= 32
  BY Sizes DEF Words, Octets
<1>2. /\ y % 32 \in 0..32 /\ o[2] % 32 \in 0..32
      /\ y % 32 < Bits => Bits - (y % 32) \in 0..32
  BY <1>1
<1>3. /\ 2 ^ (y % 32) \in Nat /\ 2 ^ (y % 32) > 0 /\ 2 ^ (o[2] % 32) \in Nat
      /\ y % 32 < Bits => 2 ^ (Bits - (y % 32)) \in Nat /\ 2 ^ (Bits - (y % 32)) > 0
  BY <1>2, PowersOfTwo
<1>4. /\ B!And(Bits, x, y) \in Int /\ B!Or(Bits, x, y) \in Int /\ B!Xor(Bits, x, y) \in Int
      /\ B!Xor(Bits, x, 2 ^ (o[2] % 32)) \in Int
  BY <1>1, CombineIsNumber DEF B!And, B!Or, B!Xor
<1>5. CASE op = 7
  <2> DEFINE p == 2 ^ (y % 32)
  <2>1. p \in Nat /\ p > 0
    BY <1>3
  <2> HIDE DEF p
  <2>2. x \div p \in Int
    BY <1>1, <2>1
  <2> QED  BY <1>5, <2>2 DEF Calc, CopyOps, BumpOps, p
<1>6. CASE op = 55
  <2> DEFINE p == 2 ^ (y % 32)
             q == 2 ^ (Bits - (y % 32))
  <2>1. CASE y % 32 >= Bits
    BY <1>6, <2>1 DEF Calc, CopyOps, BumpOps
  <2>2. CASE y % 32 < Bits
    <3>1. p \in Nat /\ q \in Nat /\ q > 0
      BY <1>3, <2>2
    <3>2. ~ (y % 32 >= Bits)
      BY <1>1, <1>2, <2>2
    <3>3. Calc(op, o, x, y) = (x % q) * p
      BY <1>6, <3>2 DEF Calc, CopyOps, BumpOps
    <3> HIDE DEF p, q
    <3>4. x % q \in Int
      BY <1>1, <3>1
    <3> QED  BY <3>1, <3>3, <3>4
  <2> QED  BY <1>1, <1>2, <2>1, <2>2
<1>7. CASE op \in {3, 16, 37, 38}
  BY <1>1, <1>4, <1>7 DEF Calc, CopyOps, BumpOps
<1>8. CASE op \in CopyOps \cup BumpOps \cup {5, 12, 13, 24, 34, 35, 49}
  BY <1>1, <1>8 DEF Calc, CopyOps, BumpOps
<1>9. CASE op = 32
  BY <1>1, <1>9 DEF Calc, CopyOps, BumpOps, B!Byte
<1>10. CASE op = 62
  <2>1. (x + y) % B!Word \in Int
    BY <1>1
  <2>2. Calc(op, o, x, y) = ((x + y) % B!Word) \div 2
    BY <1>10 DEF Calc, CopyOps, BumpOps
  <2> QED  BY <2>1, <2>2
<1> QED  BY <1>5, <1>6, <1>7, <1>8, <1>9, <1>10 DEF PutOps, ResultOps

LEMMA OperandsAreWords ==
  ASSUME NEW m, Core(m), NEW o, o[1] \in Octets, o[2] \in Octets
  PROVE  /\ B!Dst(o) = o[1] % 16 /\ B!Src(o) = o[2] % 16
         /\ B!Dst(o) \in 0..15 /\ B!Src(o) \in 0..15
         /\ B!X(m, o) \in Words /\ B!Y(m, o) \in Words
         /\ B!X(m, o) \in Int /\ B!Y(m, o) \in Int
         /\ B!X(m, o) = m.reg[o[1] % 16] /\ B!Y(m, o) = m.reg[o[2] % 16]
<1>1. B!Dst(o) \in 0..15 /\ B!Src(o) \in 0..15
  BY DEF Octets, B!Dst, B!Src
<1>2. B!X(m, o) \in Words /\ B!Y(m, o) \in Words
  BY <1>1 DEF Core, B!X, B!Y
<1> QED  BY <1>1, <1>2, Sizes DEF Words, B!X, B!Y, B!Dst, B!Src

(* The common instructions change nothing but what Changing lists.          *)
LEMMA PutCalm ==
  ASSUME NEW m, Core(m), NEW r \in 0..15, NEW v \in Int
  PROVE  Calm(m, B!Put(m, r, v), {r})
<1>1. m.pc \in Int /\ DOMAIN m.reg = 0..15
  BY Sizes DEF Core, Words
<1>2. /\ Core(B!Put(m, r, v)) /\ Keeps(m, B!Put(m, r, v), {"reg"})
      /\ B!Put(m, r, v).reg = [m.reg EXCEPT ![r] = v % B!Word]
  BY PutEffect
<1>3. B!Put(m, r, v).pc = m.pc /\ B!Put(m, r, v).state = m.state
  BY <1>2 DEF Core, CoreFields, Keeps
<1> QED  BY <1>1, <1>2, <1>3 DEF Calm, Keeps, Changing, CoreFields

LEMMA ResultCalm ==
  ASSUME NEW m, Core(m), NEW o, o[1] \in Octets, NEW v \in Int
  PROVE  Calm(m, B!Result(m, o, v), {o[1] % 16})
<1> DEFINE r == o[1] % 16
           p == B!Put(m, r, v)
           z == (v % B!Word = 0)
           n == (v % B!Word >= B!Word \div 2)
<1>1. r \in 0..15 /\ B!Dst(o) = r
  BY DEF Octets, B!Dst
<1>2. B!Result(m, o, v) = [p EXCEPT !.zero = z, !.negative = n]
  BY <1>1 DEF B!Result
<1>3. Calm(m, p, {r})
  <2> HIDE DEF r
  <2> QED  BY <1>1, PutCalm
<1>4. z \in BOOLEAN /\ n \in BOOLEAN
  OBVIOUS
<1> HIDE DEF r, p, z, n
<1>5. Core([p EXCEPT !.zero = z, !.negative = n])
  BY <1>3, <1>4 DEF Calm, Core, CoreFields
<1>6. /\ Keeps(m, [p EXCEPT !.zero = z, !.negative = n], Changing)
      /\ [p EXCEPT !.zero = z, !.negative = n].reg = p.reg
      /\ [p EXCEPT !.zero = z, !.negative = n].pc = p.pc
      /\ [p EXCEPT !.zero = z, !.negative = n].state = p.state
  BY <1>3 DEF Calm, Core, CoreFields, Keeps, Changing
<1> QED  BY <1>2, <1>3, <1>5, <1>6 DEF Calm, r

LEMMA CommonCalm ==
  ASSUME NEW m, Core(m), m.pc >= 4, NEW i, Instr(i), i.op \notin B!OwnOps
  PROVE  Calm(m, B!Common(i.op, m, i.o), Named(i))
<1> DEFINE op == i.op
           o  == i.o
           n  == B!Common(op, m, o)
           value == Calc(op, o, B!X(m, o), B!Y(m, o))
<1>0. /\ op \in 0..63 /\ o[1] \in Octets /\ o[2] \in Octets /\ m.pc \in Int
      /\ B!Dst(o) = o[1] % 16 /\ o[1] % 16 \in 0..15
      /\ B!X(m, o) \in Words /\ B!Y(m, o) \in Words
  BY OperandsAreWords, Sizes DEF Instr, Core, Words
<1>1. op \in PutOps \cup ResultOps \cup {42, 63} => o[1] % 16 \in Named(i)
  BY DEF PutOps, CopyOps, BumpOps, ResultOps, Named, WithoutRegister, WithFirst
<1>2. op \in PutOps \cup ResultOps \cup EndOps \cup IdleOps \cup {23, 42, 45, 63}
  BY <1>0 DEF B!OwnOps, PutOps, CopyOps, BumpOps, ResultOps, EndOps, IdleOps
<1> HIDE DEF op, o
<1>3. CASE op \in PutOps
  <2>1. n = B!Put(m, o[1] % 16, value)
    BY <1>0, <1>3, CommonForms
  <2>2. value \in Int
    BY <1>0, <1>3, CalcIsNumber
  <2> HIDE DEF n, value
  <2>3. Calm(m, n, {o[1] % 16})
    BY <1>0, <2>1, <2>2, PutCalm
  <2> QED  BY <1>1, <1>3, <2>3 DEF Calm, n, op, o
<1>4. CASE op \in ResultOps
  <2>1. n = B!Result(m, o, value)
    BY <1>0, <1>4, CommonForms
  <2>2. value \in Int
    BY <1>0, <1>4, CalcIsNumber
  <2> HIDE DEF n, value
  <2>3. Calm(m, n, {o[1] % 16})
    BY <1>0, <2>1, <2>2, ResultCalm
  <2> QED  BY <1>1, <1>4, <2>3 DEF Calm, n, op, o
<1>5. CASE op \in EndOps
  <2>1. n = B!End(m, StateAfter(op))
    BY <1>5, CommonForms
  <2>2. StateAfter(op) \in States /\ StateAfter(op) # "FAULT"
    BY <1>5 DEF EndOps, StateAfter, States
  <2> QED  BY <1>0, <2>1, <2>2 DEF B!End, Calm, Core, CoreFields, Keeps, Changing, op, o
<1>6. CASE op \in IdleOps
  <2>1. n = m
    BY <1>6, CommonForms
  <2> QED  BY <1>0, <2>1 DEF Calm, Keeps, op, o
<1>7. CASE op = 63
  <2> DEFINE p == B!Put(m, o[1] % 16, m.threads)
  <2>0. n = B!op_crea(m, o)
    BY <1>7, OwnForms
  <2>1. n = [p EXCEPT !.threads = @ + 1, !.energy = @ + 10]
    BY <1>0, <2>0, Zenon DEF B!op_crea
  <2>2. Calm(m, p, {o[1] % 16})
    <3>1. m.threads \in Int
      BY DEF Core
    <3> QED  BY <1>0, <3>1, PutCalm
  <2> HIDE DEF p, n
  <2>3. Core(n)
    <3>1. Core(p) /\ p.threads + 1 \in Nat /\ p.energy + 10 \in Int
      BY <2>2 DEF Calm, Core
    <3>2. n = [p EXCEPT !.threads = p.threads + 1, !.energy = p.energy + 10]
      BY <2>1, <3>1 DEF Core, CoreFields
    <3> QED  BY <3>1, <3>2 DEF Core, CoreFields
  <2>4. Keeps(m, n, Changing) /\ n.reg = p.reg /\ n.pc = p.pc /\ n.state = p.state
    BY <2>1, <2>2 DEF Calm, Core, CoreFields, Keeps, Changing
  <2> QED  BY <1>1, <1>7, <2>2, <2>3, <2>4 DEF Calm, n, op, o
<1>8. CASE op = 42
  <2> DEFINE p == B!Put(m, o[1] % 16, m.futures)
  <2>0. n = B!op_futu(m, o)
    BY <1>8, OwnForms
  <2>1. n = [p EXCEPT !.futures = @ + 1]
    BY <1>0, <2>0, Zenon DEF B!op_futu
  <2>2. Calm(m, p, {o[1] % 16})
    <3>1. m.futures \in Int
      BY DEF Core
    <3> QED  BY <1>0, <3>1, PutCalm
  <2> HIDE DEF p, n
  <2>3. Core(n)
    BY <2>1, <2>2 DEF Calm, Core, CoreFields
  <2>4. Keeps(m, n, Changing) /\ n.reg = p.reg /\ n.pc = p.pc /\ n.state = p.state
    BY <2>1, <2>2 DEF Calm, Core, CoreFields, Keeps, Changing
  <2> QED  BY <1>1, <1>8, <2>2, <2>3, <2>4 DEF Calm, n, op, o
<1>9. CASE op = 23
  <2>1. n = IF B!X(m, o) = 0 THEN [m EXCEPT !.pc = @ - 4] ELSE m
    BY <1>9, CommonForms DEF B!op_wait
  <2>2. m.pc - 4 \in Words /\ m.pc - 4 <= m.pc
    BY Sizes DEF Core, Words
  <2> QED  BY <1>0, <2>1, <2>2 DEF Calm, Core, CoreFields, Keeps, Changing, op, o
<1>10. CASE op = 45
  <2> DEFINE more == Append(m.out, B!X(m, o))
  <2>1. n = [m EXCEPT !.out = more]
    BY <1>10, CommonForms DEF B!op_illuminate
  <2> HIDE DEF more
  <2> QED  BY <1>0, <2>1 DEF Calm, Core, CoreFields, Keeps, Changing, op, o
<1> QED  BY <1>2, <1>3, <1>4, <1>5, <1>6, <1>7, <1>8, <1>9, <1>10

-----------------------------------------------------------------------------
(* The system calls of the bootstrap machine. *)

BootTyped(m) ==
  /\ Core(m) /\ {"memory", "heap_ptr", "files", "open"} \subseteq DOMAIN m
  /\ m.memory \in [B!Addresses -> Octets]
  /\ m.heap_ptr \in 0..(StackSize + HeapSize - 1)
  /\ m.files \subseteq 1..MaxFiles /\ m.open \in Int

(* A system call gives its answer in registers and leaves pc alone.        *)
Answering(m, n) ==
  /\ BootTyped(n) /\ DOMAIN n = DOMAIN m
  /\ n.pc = m.pc /\ n.cycle_count = m.cycle_count
  /\ \A r \in 1..14 : n.reg[r] = m.reg[r]

(* A simple one does nothing else.                                         *)
Simple(m, n) ==
  /\ Answering(m, n)
  /\ n.memory = m.memory /\ n.heap_ptr = m.heap_ptr /\ n.files = m.files /\ n.open = m.open

(* The system calls that only answer.                                       *)
LEMMA PutSimple ==
  ASSUME NEW m, BootTyped(m), NEW r \in {0, 15}, NEW v \in Int
  PROVE  Simple(m, B!Put(m, r, v))
<1> DEFINE n == B!Put(m, r, v)
<1>1. Core(n) /\ Keeps(m, n, {"reg"}) /\ n.reg = [m.reg EXCEPT ![r] = v % B!Word]
  BY PutEffect DEF BootTyped
<1> HIDE DEF n
<1>2. /\ n.memory = m.memory /\ n.heap_ptr = m.heap_ptr /\ n.files = m.files /\ n.open = m.open
      /\ n.pc = m.pc /\ n.cycle_count = m.cycle_count /\ DOMAIN n = DOMAIN m
  BY <1>1 DEF Keeps, BootTyped, Core, CoreFields
<1>3. \A s \in 1..14 : n.reg[s] = m.reg[s]
  BY <1>1 DEF BootTyped, Core
<1>4. BootTyped(n)
  BY <1>1, <1>2 DEF BootTyped
<1> QED  BY <1>2, <1>3, <1>4 DEF Simple, Answering, n

LEMMA AnswerSimple ==
  ASSUME NEW m, BootTyped(m), NEW v \in Int, NEW n \in B!Answer(m, v)
  PROVE  Simple(m, n)
  BY PutSimple DEF B!Answer

LEMMA AnswerState ==
  ASSUME NEW m, BootTyped(m), NEW v \in Int, NEW n \in B!Answer(m, v)
  PROVE  n.state = m.state
<1> DEFINE p == B!Put(m, 0, v)
<1>0. Core(m) /\ 0 \in 0..15
  BY DEF BootTyped
<1>1. Keeps(m, p, {"reg"})
  BY <1>0, PutEffect, Zenon
<1> HIDE DEF p
<1>2. p.state = m.state
  BY <1>1 DEF Keeps, BootTyped, Core, CoreFields
<1>3. n = p
  BY Zenon DEF B!Answer, p
<1> QED  BY <1>2, <1>3

LEMMA EndSimple ==
  ASSUME NEW m, BootTyped(m), NEW state \in States
  PROVE  Simple(m, B!End(m, state))
<1> DEFINE n == B!End(m, state)
<1>1. Core(n)
  BY DEF B!End, BootTyped, Core, CoreFields
<1>2. /\ n.memory = m.memory /\ n.heap_ptr = m.heap_ptr /\ n.files = m.files /\ n.open = m.open
      /\ n.pc = m.pc /\ n.cycle_count = m.cycle_count /\ DOMAIN n = DOMAIN m
      /\ n.reg = m.reg
  BY DEF B!End, BootTyped, Core, CoreFields
<1> HIDE DEF n
<1>3. BootTyped(n)
  BY <1>1, <1>2 DEF BootTyped
<1> QED  BY <1>2, <1>3 DEF Simple, Answering, n

LEMMA FaultSimple ==
  ASSUME NEW m, BootTyped(m), NEW n \in B!Fault(m)
  PROVE  Simple(m, n)
  BY EndSimple DEF B!Fault, States

LEMMA SimpleAgain ==
  ASSUME NEW m, NEW n, NEW q, Simple(m, n), Simple(n, q)
  PROVE  Simple(m, q)
  BY DEF Simple, Answering

LEMMA PrintSimple ==
  ASSUME NEW m, BootTyped(m), NEW entry
  PROVE  Simple(m, [m EXCEPT !.out = Append(@, entry)])
<1> DEFINE more == Append(m.out, entry)
           n == [m EXCEPT !.out = more]
<1>0. n = [m EXCEPT !.out = Append(@, entry)]
  BY DEF BootTyped, Core, CoreFields
<1> HIDE DEF more
<1>1. Core(n)
  BY DEF BootTyped, Core, CoreFields
<1>2. /\ n.memory = m.memory /\ n.heap_ptr = m.heap_ptr /\ n.files = m.files /\ n.open = m.open
      /\ n.pc = m.pc /\ n.cycle_count = m.cycle_count /\ DOMAIN n = DOMAIN m
      /\ n.reg = m.reg
  BY DEF BootTyped, Core, CoreFields
<1> HIDE DEF n
<1>3. BootTyped(n)
  BY <1>1, <1>2 DEF BootTyped
<1> QED  BY <1>0, <1>2, <1>3 DEF Simple, Answering

(* Strings. *)
LEMMA StringsEnd ==
  ASSUME NEW m, BootTyped(m), NEW a \in Nat, B!IsString(m, a)
  PROVE  /\ B!StrLen(m, a) \in Nat /\ a + B!StrLen(m, a) < MemorySize
         /\ m.memory[a + B!StrLen(m, a)] = 0
<1> DEFINE Z == B!Zeros(m, a)
<1>1. Z \in SUBSET Nat /\ Z # {}
  BY Sizes DEF B!Zeros, B!IsString
<1> HIDE DEF Z
<1>2. PICK b \in Z : \A c \in Z : b <= c
  BY <1>1, LeastExists
<1>3. PICK d : d = CHOOSE e \in Z : \A c \in Z : e <= c
  OBVIOUS
<1>4. d \in Z
  BY <1>2, <1>3
<1>5. d \in a..(MemorySize - 1) /\ m.memory[d] = 0
  BY <1>4 DEF Z, B!Zeros
<1>6. B!StrLen(m, a) = d - a
  BY <1>3 DEF B!StrLen, Z
<1>7. d \in Nat /\ d - a \in Nat /\ a + (d - a) = d
  BY <1>5, Sizes
<1> QED  BY <1>5, <1>6, <1>7, Sizes

LEMMA SignIsNumber ==
  ASSUME NEW s, NEW t
  PROVE  B!Sign(s, t) \in Int
  BY Sizes DEF B!Sign

LEMMA RegistersAreNumbers ==
  ASSUME NEW m, BootTyped(m)
  PROVE  \A r \in 0..15 : m.reg[r] \in Nat /\ m.reg[r] < B!Word
<1>1. m.reg \in [0..15 -> Words] /\ \A w \in Words : w \in Nat /\ w < B!Word
  BY Sizes DEF BootTyped, Core, Words
<1> QED  BY <1>1

LEMMA WriteSimple ==
  ASSUME NEW m, BootTyped(m), NEW fd \in Nat, NEW buf \in Nat, NEW count \in Nat,
         NEW n \in B!sys_write(m, fd, buf, count)
  PROVE  Simple(m, n)
<1> DEFINE p == [m EXCEPT !.out = Append(@, B!Block(m, buf, count))]
<1>1. \/ n \in B!Answer(m, 0) \cup B!Fault(m) \cup B!Answer(m, count)
      \/ n \in B!Answer(p, count)
  BY Zenon DEF B!sys_write
<1>2. Simple(m, p)
  BY PrintSimple
<1> HIDE DEF p
<1>3. CASE n \in B!Answer(p, count)
  <2>1. BootTyped(p) /\ count \in Int
    BY <1>2 DEF Simple, Answering
  <2> QED  BY <1>2, <1>3, <2>1, AnswerSimple, SimpleAgain
<1>4. CASE n \in B!Answer(m, 0) \cup B!Fault(m) \cup B!Answer(m, count)
  BY <1>4, AnswerSimple, FaultSimple
<1> QED  BY <1>1, <1>3, <1>4

LEMMA MemcmpSimple ==
  ASSUME NEW m, BootTyped(m), NEW p, NEW q, NEW len, NEW n \in B!sys_memcmp(m, p, q, len)
  PROVE  Simple(m, n)
<1>1. PICK s, t : n \in B!Answer(m, 0) \cup B!Fault(m) \cup B!Answer(m, B!Sign(s, t))
  BY Zenon DEF B!sys_memcmp
<1>2. B!Sign(s, t) \in Int
  BY SignIsNumber
<1> QED  BY <1>1, <1>2, AnswerSimple, FaultSimple

LEMMA StrlenSimple ==
  ASSUME NEW m, BootTyped(m), NEW a \in Nat, NEW n \in B!sys_strlen(m, a)
  PROVE  Simple(m, n)
<1>1. CASE B!IsString(m, a)
  <2>1. n \in B!Answer(m, 0) \cup B!Answer(m, B!StrLen(m, a))
    BY <1>1, Zenon DEF B!sys_strlen
  <2>2. B!StrLen(m, a) \in Int
    BY <1>1, StringsEnd
  <2> QED  BY <2>1, <2>2, AnswerSimple
<1>2. CASE ~ B!IsString(m, a)
  <2>1. n \in B!Answer(m, 0) \cup B!Fault(m)
    BY <1>2, Zenon DEF B!sys_strlen
  <2> QED  BY <2>1, AnswerSimple, FaultSimple
<1> QED  BY <1>1, <1>2

LEMMA StrcmpSimple ==
  ASSUME NEW m, BootTyped(m), NEW p, NEW q, NEW n \in B!sys_strcmp(m, p, q)
  PROVE  Simple(m, n)
<1>1. PICK s, t : n \in B!Answer(m, 0) \cup B!Fault(m) \cup B!Answer(m, B!Sign(s, t))
  BY Zenon DEF B!sys_strcmp
<1>2. B!Sign(s, t) \in Int
  BY SignIsNumber
<1> QED  BY <1>1, <1>2, AnswerSimple, FaultSimple

LEMMA ClassSimple ==
  ASSUME NEW m, BootTyped(m), NEW c, NEW class, NEW n \in B!Class(m, c, class)
  PROVE  Simple(m, n)
<1>1. n \in B!Answer(m, 0) \cup B!Fault(m) \cup B!Answer(m, 1)
  BY Zenon DEF B!Class
<1> QED  BY <1>1, AnswerSimple, FaultSimple

LEMMA LettersSimple ==
  ASSUME NEW m, BootTyped(m), NEW c \in Nat, NEW n \in B!sys_toupper(m, c) \cup B!sys_tolower(m, c)
  PROVE  Simple(m, n) /\ n.state = m.state
<1>1. \/ n \in B!Answer(m, IF c \in B!Lower THEN c - 32 ELSE c)
      \/ n \in B!Answer(m, IF c \in B!Upper THEN c + 32 ELSE c)
  BY Zenon DEF B!sys_toupper, B!sys_tolower
<1>2. \A set : /\ (IF c \in set THEN c - 32 ELSE c) \in Int
               /\ (IF c \in set THEN c + 32 ELSE c) \in Int
  OBVIOUS
<1> QED  BY <1>1, <1>2, AnswerSimple, AnswerState

LEMMA PrintingSimple ==
  ASSUME NEW m, BootTyped(m), NEW a, NEW n \in B!sys_print(m, a) \cup B!sys_println(m, a)
  PROVE  Simple(m, n)
<1>1. ASSUME NEW entry, n \in B!Answer([m EXCEPT !.out = Append(@, entry)], 0)
      PROVE  Simple(m, n)
  <2> DEFINE p == [m EXCEPT !.out = Append(@, entry)]
  <2>1. Simple(m, p)
    BY PrintSimple
  <2> HIDE DEF p
  <2>2. BootTyped(p)
    BY <2>1 DEF Simple, Answering
  <2>3. n \in B!Answer(p, 0)
    BY <1>1 DEF p
  <2> QED  BY <2>1, <2>2, <2>3, AnswerSimple, SimpleAgain
<1>2. \/ n \in B!Answer(m, 0) \cup B!Fault(m)
      \/ n \in B!Answer([m EXCEPT !.out = Append(@, << >>)], 0)
      \/ n \in B!Answer([m EXCEPT !.out = Append(@, B!Str(m, a))], 0)
  BY Zenon DEF B!sys_print, B!sys_println
<1>3. n \in B!Answer(m, 0) \cup B!Fault(m) => Simple(m, n)
  BY AnswerSimple, FaultSimple
<1> QED  BY <1>1, <1>2, <1>3, Zenon

LEMMA EndingSimple ==
  ASSUME NEW m, BootTyped(m), NEW state \in States, NEW code \in Int
  PROVE  /\ Simple(m, B!Put(B!End(m, state), 15, code))
         /\ B!Put(B!End(m, state), 15, code).state = state
<1> DEFINE p == B!End(m, state)
           n == B!Put(p, 15, code)
<1>1. Simple(m, p) /\ p.state = state
  BY EndSimple DEF B!End, BootTyped, Core, CoreFields
<1> HIDE DEF p
<1>2. BootTyped(p)
  BY <1>1 DEF Simple, Answering
<1>0. Core(p) /\ 15 \in 0..15 /\ 15 \in {0, 15}
  BY <1>2 DEF BootTyped
<1>3. Simple(p, n) /\ Keeps(p, n, {"reg"})
  BY <1>0, <1>2, PutSimple, PutEffect, Zenon
<1> HIDE DEF n
<1>4. n.state = p.state
  BY <1>2, <1>3 DEF Keeps, BootTyped, Core, CoreFields
<1> QED  BY <1>1, <1>3, <1>4, SimpleAgain DEF p, n


LEMMA StringIsSequence ==
  ASSUME NEW m, BootTyped(m), NEW a \in Nat, B!IsString(m, a)
  PROVE  /\ B!Str(m, a) \in Seq(Octets) /\ Len(B!Str(m, a)) = B!StrLen(m, a)
         /\ \A i \in 1..B!StrLen(m, a) : B!Str(m, a)[i] \in Octets
<1> DEFINE L == B!StrLen(m, a)
<1>1. L \in Nat /\ a + L < MemorySize
  BY StringsEnd
<1> HIDE DEF L
<1>2. ASSUME NEW i \in 1..L
      PROVE  m.memory[a + i - 1] \in Octets
  <2>1. a + i - 1 \in B!Addresses
    BY <1>1, Sizes DEF B!Addresses
  <2> QED  BY <2>1 DEF BootTyped
<1>3. [i \in 1..L |-> m.memory[a + i - 1]] \in [1..L -> Octets]
  BY <1>2
<1>4. B!Str(m, a) = [i \in 1..L |-> m.memory[a + i - 1]]
  BY Zenon DEF B!Str, L
<1>5. B!Str(m, a) \in [1..L -> Octets]
  BY <1>3, <1>4
<1> QED  BY <1>1, <1>5, SequenceByIndex DEF L

(* The digits from first on make a number.                                 *)
Sums10(g, L, s, first) ==
  g = [i \in 0..L |-> IF i < first THEN 0 ELSE (g[i - 1] * 10 + s[i] - 48) % B!Word]

LEMMA DigitsAreNumber ==
  ASSUME NEW L \in Nat, NEW s, \A i \in 1..L : s[i] \in Octets, NEW first \in 1..(L + 1),
         NEW g, Sums10(g, L, s, first)
  PROVE  \A i \in 0..L : g[i] \in Int
<1> DEFINE P == {i \in 0..L : g[i] \in Int}
<1>1. 0 \in P
  BY DEF Sums10
<1>2. ASSUME NEW n \in 1..L, n - 1 \in P
      PROVE  n \in P
  <2>1. n \in 0..L /\ s[n] \in Int /\ g[n - 1] \in Int
    BY <1>2 DEF Octets
  <2>2. (g[n - 1] * 10 + s[n] - 48) % B!Word \in Int
    BY <2>1, Sizes
  <2>3. g[n] = IF n < first THEN 0 ELSE (g[n - 1] * 10 + s[n] - 48) % B!Word
    BY <2>1 DEF Sums10
  <2> QED  BY <2>1, <2>2, <2>3
<1> HIDE DEF P
<1>3. 0..L \subseteq P
  BY <1>1, <1>2, IntervalInduction, Zenon
<1> QED  BY <1>3 DEF P

LEMMA DigitsExist ==
  ASSUME NEW L \in Nat, NEW s, \A i \in 1..L : s[i] \in Octets, NEW first \in 1..(L + 1)
  PROVE  \E g : Sums10(g, L, s, first)
<1> DEFINE digit(n) == IF n \in 1..L THEN s[n] ELSE 0
           step == [n \in Nat |-> [v \in Int |-> IF n < first THEN 0
                   ELSE (v * 10 + digit(n) - 48) % B!Word]]
<1>1. \A n \in Nat : digit(n) \in Int
  BY DEF Octets
<1> HIDE DEF digit
<1>2. step \in [Nat -> [Int -> Int]]
  BY <1>1, Sizes
<1>3. ASSUME NEW n \in 1..L, NEW v \in Int
      PROVE  step[n][v] = IF n < first THEN 0 ELSE (v * 10 + s[n] - 48) % B!Word
  <2>1. n \in Nat /\ digit(n) = s[n]
    BY DEF digit
  <2> QED  BY <2>1
<1> HIDE DEF step
<1>4. PICK f \in [0..L -> Int] : Iterates(f, L, 0, step)
  <2>1. 0 \in Int /\ step \in Steps(Int)
    BY <1>2 DEF Steps
  <2> QED  BY <2>1, Iteration, Zenon
<1>5. \A n \in 0..L : f[n] = IF n < first THEN 0 ELSE (f[n - 1] * 10 + s[n] - 48) % B!Word
  <2>1. ASSUME NEW n \in 1..L
        PROVE  f[n] = IF n < first THEN 0 ELSE (f[n - 1] * 10 + s[n] - 48) % B!Word
    <3>1. f[n - 1] \in Int /\ f[n] = step[n][f[n - 1]]
      BY <1>4 DEF Iterates
    <3> QED  BY <1>3, <3>1
  <2>2. f[0] = 0 /\ 0 < first
    BY <1>4 DEF Iterates
  <2>3. \A n \in 0..L : n = 0 \/ n \in 1..L
    OBVIOUS
  <2> QED  BY <2>1, <2>2, <2>3
<1>6. f = [n \in 0..L |-> IF n < first THEN 0 ELSE (f[n - 1] * 10 + s[n] - 48) % B!Word]
  BY <1>5
<1> QED  BY <1>6, Zenon DEF Sums10

(* SYSCALL_ATOI answers with the digits it read, or their negative.         *)
LEMMA AtoiSimple ==
  ASSUME NEW m, BootTyped(m), NEW a \in Nat, NEW n \in B!sys_atoi(m, a)
  PROVE  Simple(m, n)
<1> DEFINE s == B!Str(m, a)
           Starts(i) == /\ \A j \in 1..(i - 1) : s[j] \in B!Blanks
                        /\ i <= Len(s) => s[i] \notin B!Blanks
           start == CHOOSE i \in 1..(Len(s) + 1) : Starts(i)
           signed == start <= Len(s) /\ s[start] \in {43, 45}
           first == IF signed THEN start + 1 ELSE start
           value == CHOOSE g : g = [i \in 0..Len(s) |-> IF i < first THEN 0
                                                        ELSE (g[i - 1] * 10 + s[i] - 48) % B!Word]
           Stops(i) == /\ \A j \in first..i : s[j] \in B!Digits
                       /\ i < Len(s) => s[i + 1] \notin B!Digits
           stop == CHOOSE i \in (first - 1)..Len(s) : Stops(i)
           number == value[stop]
<1>1. CASE ~ B!IsString(m, a)
  <2>1. n \in B!Answer(m, 0) \cup B!Fault(m)
    BY <1>1, Zenon DEF B!sys_atoi
  <2> QED  BY <2>1, AnswerSimple, FaultSimple
<1>2. CASE B!IsString(m, a)
  <2>1. \/ n \in B!Answer(m, 0)
        \/ n \in B!Answer(m, IF signed /\ s[start] = 45 THEN B!Word - number ELSE number)
    BY <1>2, Zenon DEF B!sys_atoi
  <2>2. Len(s) \in Nat /\ \A i \in 1..Len(s) : s[i] \in Octets
    BY <1>2, StringIsSequence, StringsEnd
  <2> HIDE DEF s
  <2>3. start \in 1..(Len(s) + 1)
    <3> DEFINE Z == {i \in 1..(Len(s) + 1) : i <= Len(s) => s[i] \notin B!Blanks}
    <3>1. Z \in SUBSET Nat /\ Len(s) + 1 \in Z
      BY <2>2
    <3>2. PICK i \in Z : \A k \in Z : i <= k
      BY <3>1, LeastExists
    <3>3. i \in 1..(Len(s) + 1) /\ Starts(i)
      <4>1. ASSUME NEW j \in 1..(i - 1)
            PROVE  s[j] \in B!Blanks
        <5>1. j \in 1..(Len(s) + 1) /\ ~ (i <= j) /\ j <= Len(s)
          BY <2>2
        <5> QED  BY <3>2, <5>1
      <4> QED  BY <4>1
    <3> HIDE DEF Starts
    <3> QED  BY <3>3
  <2> HIDE DEF start
  <2>4. first \in 1..(Len(s) + 1)
    BY <2>2, <2>3
  <2> HIDE DEF first
  <2>5. stop \in 0..Len(s)
    <3> DEFINE Z == {i \in (first - 1)..Len(s) : i < Len(s) => s[i + 1] \notin B!Digits}
    <3>1. Z \in SUBSET Nat /\ Len(s) \in Z
      BY <2>2, <2>4
    <3>2. PICK i \in Z : \A k \in Z : i <= k
      BY <3>1, LeastExists
    <3>3. i \in (first - 1)..Len(s) /\ Stops(i)
      <4>1. ASSUME NEW j \in first..i
            PROVE  s[j] \in B!Digits
        <5>1. j - 1 \in (first - 1)..Len(s) /\ ~ (i <= j - 1) /\ j - 1 < Len(s) /\ (j - 1) + 1 = j
          BY <2>2, <2>4
        <5>2. j - 1 \notin Z
          BY <3>2, <5>1
        <5> QED  BY <5>1, <5>2
      <4> QED  BY <4>1
    <3> HIDE DEF Stops
    <3>4. stop \in (first - 1)..Len(s)
      BY <3>3
    <3> QED  BY <2>2, <2>4, <3>4
  <2> HIDE DEF stop
  <2>6. Sums10(value, Len(s), s, first)
    <3>1. \E g : Sums10(g, Len(s), s, first)
      BY <2>2, <2>4, DigitsExist
    <3>2. \E g : g = [i \in 0..Len(s) |-> IF i < first THEN 0
          ELSE (g[i - 1] * 10 + s[i] - 48) % B!Word]
      BY <3>1, Zenon DEF Sums10
    <3> QED  BY <3>2, Zenon DEF Sums10
  <2> HIDE DEF value
  <2>7. number \in Int
    BY <2>2, <2>4, <2>5, <2>6, DigitsAreNumber
  <2> HIDE DEF number
  <2>8. (IF signed /\ s[start] = 45 THEN B!Word - number ELSE number) \in Int
    BY <2>7, Sizes
  <2> QED  BY <2>1, <2>8, AnswerSimple
<1> QED  BY <1>1, <1>2


(* The table of files and the FILEs that are open, from m to n: nothing    *)
(* happens, OPEN finds no slot, or one, or CLOSE gives one back.           *)
Filing(m, n) ==
  \/ n.files = m.files /\ n.open = m.open
  \/ n.files = m.files /\ n.open = m.open + 1 /\ B!FreeSlots(m) = {}
  \/ \E slot \in 1..MaxFiles : /\ slot \notin m.files
                               /\ n.files = m.files \cup {slot} /\ n.open = m.open + 1
  \/ \E fd \in m.files : n.files = m.files \ {fd} /\ n.open = m.open - 1

LEMMA SimpleFiling ==
  ASSUME NEW m, NEW n, Simple(m, n)
  PROVE  Filing(m, n)
  BY DEF Simple, Filing

(* SYSCALL_OPEN and SYSCALL_CLOSE.                                          *)
LEMMA OpenFiling ==
  ASSUME NEW m, BootTyped(m), NEW name, NEW mode, NEW n \in B!sys_open(m, name, mode)
  PROVE  Answering(m, n) /\ n.memory = m.memory /\ n.heap_ptr = m.heap_ptr /\ Filing(m, n)
<1> DEFINE slot == CHOOSE i \in B!FreeSlots(m) : \A j \in B!FreeSlots(m) : i <= j
           more == [m EXCEPT !.open = @ + 1]
           held == [more EXCEPT !.files = @ \cup {slot}]
<1>1. \/ n \in B!Answer(m, 0) \cup B!Fault(m)
      \/ B!FreeSlots(m) = {} /\ n \in B!Answer(more, 0)
      \/ B!FreeSlots(m) # {} /\ n \in B!Answer(held, slot)
  BY Zenon DEF B!sys_open, B!Opened
<1>2. ASSUME n \in B!Answer(m, 0) \cup B!Fault(m)
      PROVE  Simple(m, n)
  BY <1>2, AnswerSimple, FaultSimple
<1>3. BootTyped(more) /\ DOMAIN more = DOMAIN m /\ Keeps(m, more, {"open"})
      /\ more.open = m.open + 1
  <2>1. Core(more) /\ DOMAIN more = DOMAIN m /\ Keeps(m, more, {"open"}) /\ more.open = m.open + 1
    BY DEF BootTyped, Core, CoreFields, Keeps
  <2> HIDE DEF more
  <2> QED  BY <2>1 DEF BootTyped, Keeps
<1>4. CASE B!FreeSlots(m) = {} /\ n \in B!Answer(more, 0)
  <2> HIDE DEF more
  <2>1. Simple(more, n)
    BY <1>3, <1>4, AnswerSimple
  <2> QED  BY <1>3, <1>4, <2>1 DEF Simple, Answering, Keeps, Filing, BootTyped, Core, CoreFields
<1>5. CASE B!FreeSlots(m) # {} /\ n \in B!Answer(held, slot)
  <2>1. slot \in 1..MaxFiles /\ slot \notin m.files
    <3>1. B!FreeSlots(m) \in SUBSET Nat
      BY Sizes DEF B!FreeSlots
    <3>2. slot \in B!FreeSlots(m)
      BY <1>5, <3>1, LeastExists
    <3> QED  BY <3>2, Zenon DEF B!FreeSlots
  <2> HIDE DEF slot
  <2>2. BootTyped(held) /\ Keeps(more, held, {"files"}) /\ held.files = m.files \cup {slot}
    <3>0. Core(more) /\ "files" \in DOMAIN more /\ more.files = m.files
      BY <1>3 DEF BootTyped, Keeps
    <3> HIDE DEF more
    <3>1. Core(held) /\ Keeps(more, held, {"files"}) /\ held.files = m.files \cup {slot}
      BY <3>0 DEF Core, CoreFields, Keeps
    <3>2. m.files \subseteq 1..MaxFiles
      BY DEF BootTyped
    <3> HIDE DEF held
    <3> QED  BY <1>3, <2>1, <3>1, <3>2 DEF BootTyped, Keeps
  <2> HIDE DEF held, more
  <2>3. Simple(held, n)
    <3>1. slot \in Int
      BY <2>1, Sizes
    <3> QED  BY <1>5, <2>2, <3>1, AnswerSimple
  <2>4. n.files = m.files \cup {slot} /\ n.open = m.open + 1
    BY <1>3, <2>2, <2>3 DEF Simple, Keeps, BootTyped, Core, CoreFields
  <2>5. /\ n.memory = m.memory /\ n.heap_ptr = m.heap_ptr /\ Answering(m, n)
    BY <1>3, <2>2, <2>3 DEF Simple, Answering, Keeps, BootTyped, Core, CoreFields
  <2> QED  BY <2>1, <2>4, <2>5 DEF Filing
<1> QED  BY <1>1, <1>2, <1>4, <1>5, SimpleFiling DEF Simple

LEMMA CloseFiling ==
  ASSUME NEW m, BootTyped(m), NEW fd, NEW n \in B!sys_close(m, fd)
  PROVE  /\ Answering(m, n) /\ n.memory = m.memory /\ n.heap_ptr = m.heap_ptr
         /\ Filing(m, n) /\ n.state = m.state
<1> DEFINE rest == [m EXCEPT !.files = @ \ {fd}, !.open = @ - 1]
<1>1. CASE fd \notin m.files
  <2>1. n \in B!Answer(m, 0)
    BY <1>1, Zenon DEF B!sys_close
  <2>2. Simple(m, n) /\ n.state = m.state
    BY <2>1, AnswerSimple, AnswerState
  <2> QED  BY <2>2, SimpleFiling DEF Simple
<1>2. CASE fd \in m.files
  <2>1. n \in B!Answer(rest, 1)
    BY <1>2, Zenon DEF B!sys_close
  <2>2. /\ Core(rest) /\ Keeps(m, rest, {"files", "open"})
        /\ rest.files = m.files \ {fd} /\ rest.open = m.open - 1
    BY DEF BootTyped, Core, CoreFields, Keeps
  <2> HIDE DEF rest
  <2>3. BootTyped(rest)
    BY <2>2 DEF BootTyped, Keeps
  <2>4. Simple(rest, n)
    BY <2>1, <2>3, AnswerSimple
  <2>5. n.files = m.files \ {fd} /\ n.open = m.open - 1
    BY <2>2, <2>4 DEF Simple
  <2>6. Answering(m, n) /\ n.memory = m.memory /\ n.heap_ptr = m.heap_ptr
    BY <2>2, <2>4 DEF Simple, Answering, Keeps, BootTyped, Core, CoreFields
  <2>7. n.state = rest.state /\ rest.state = m.state
    BY <2>1, <2>2, <2>3, AnswerState DEF Keeps, BootTyped, Core, CoreFields
  <2> QED  BY <1>2, <2>5, <2>6, <2>7 DEF Filing
<1> QED  BY <1>1, <1>2

(* SYSCALL_MALLOC grants a block or answers 0.                              *)
LEMMA MallocHeap ==
  ASSUME NEW m, BootTyped(m), NEW size \in Nat, NEW n \in B!sys_malloc(m, size)
  PROVE  /\ Answering(m, n) /\ n.memory = m.memory /\ n.files = m.files /\ n.open = m.open
         /\ n.state = m.state
         /\ m.heap_ptr + size < B!Word => n.heap_ptr >= m.heap_ptr
<1> DEFINE next == (m.heap_ptr + size) % B!Word
           rest == [m EXCEPT !.heap_ptr = next]
<1>0. m.heap_ptr \in Nat /\ next \in Nat /\ (m.heap_ptr + size < B!Word => next = m.heap_ptr + size)
  <2>1. m.heap_ptr \in Nat /\ B!Word \in Nat \ {0}
    BY Sizes DEF BootTyped
  <2>2. \A k \in Nat, w \in Nat \ {0} : k % w \in Nat /\ (k < w => k % w = k)
    OBVIOUS
  <2>3. m.heap_ptr + size \in Nat
    BY <2>1
  <2> QED  BY <2>1, <2>2, <2>3
<1>1. CASE next < StackSize + HeapSize
  <2>1. n \in B!Answer([m EXCEPT !.heap_ptr = (@ + size) % B!Word], m.heap_ptr)
    BY <1>1, Zenon DEF B!sys_malloc
  <2>2. [m EXCEPT !.heap_ptr = (@ + size) % B!Word] = rest
    BY DEF BootTyped
  <2>3. n \in B!Answer(rest, m.heap_ptr)
    BY <2>1, <2>2
  <2> HIDE DEF next
  <2>4. /\ Core(rest) /\ Keeps(m, rest, {"heap_ptr"}) /\ rest.heap_ptr = next
    BY DEF BootTyped, Core, CoreFields, Keeps
  <2> HIDE DEF rest
  <2>5. BootTyped(rest)
    BY <1>0, <1>1, <2>4, Sizes DEF BootTyped, Keeps
  <2>6. Simple(rest, n)
    BY <1>0, <2>3, <2>5, AnswerSimple
  <2>7. n.heap_ptr = next /\ n.files = m.files /\ n.open = m.open /\ n.memory = m.memory
    BY <2>4, <2>6 DEF Simple, Keeps, BootTyped
  <2>8. Answering(m, n)
    BY <2>4, <2>6 DEF Simple, Answering, Keeps, BootTyped, Core, CoreFields
  <2>9. n.state = rest.state /\ rest.state = m.state
    BY <1>0, <2>3, <2>4, <2>5, AnswerState DEF Keeps, BootTyped, Core, CoreFields
  <2> QED  BY <1>0, <2>7, <2>8, <2>9
<1>2. CASE ~ (next < StackSize + HeapSize)
  <2>1. n \in B!Answer(m, 0)
    BY <1>2, Zenon DEF B!sys_malloc
  <2>2. Simple(m, n) /\ n.state = m.state
    BY <2>1, AnswerSimple, AnswerState
  <2> QED  BY <1>0, <2>2 DEF Simple
<1> QED  BY <1>1, <1>2


(* A machine whose memory is replaced.                                      *)
LEMMA WithMemory ==
  ASSUME NEW m, BootTyped(m), NEW g \in [B!Addresses -> Octets]
  PROVE  LET n == [m EXCEPT !.memory = g]
         IN  /\ BootTyped(n) /\ Keeps(m, n, {"memory"}) /\ n.memory = g /\ n.reg = m.reg
             /\ n.pc = m.pc /\ n.cycle_count = m.cycle_count /\ n.heap_ptr = m.heap_ptr
             /\ n.files = m.files /\ n.open = m.open /\ n.state = m.state
<1> DEFINE n == [m EXCEPT !.memory = g]
<1>1. Core(n) /\ Keeps(m, n, {"memory"}) /\ n.memory = g
  BY DEF BootTyped, Core, CoreFields, Keeps
<1>2. /\ n.pc = m.pc /\ n.cycle_count = m.cycle_count /\ n.heap_ptr = m.heap_ptr
      /\ n.files = m.files /\ n.open = m.open /\ n.reg = m.reg /\ n.state = m.state
  BY DEF BootTyped, Core, CoreFields
<1> HIDE DEF n
<1>3. BootTyped(n)
  BY <1>1, <1>2 DEF BootTyped, Keeps
<1> QED  BY <1>1, <1>2, <1>3 DEF n

(* An answer after bytes were written. *)
WritesBytes(m, n) ==
  Answering(m, n) /\ n.heap_ptr = m.heap_ptr /\ n.files = m.files /\ n.open = m.open

LEMMA SimpleWrites ==
  ASSUME NEW m, NEW n, Simple(m, n)
  PROVE  WritesBytes(m, n)
  BY DEF Simple, WritesBytes

LEMMA FilledAnswer ==
  ASSUME NEW m, BootTyped(m), NEW g \in [B!Addresses -> Octets], NEW v \in Int,
         NEW n \in B!Answer([m EXCEPT !.memory = g], v)
  PROVE  WritesBytes(m, n)
<1> DEFINE p == [m EXCEPT !.memory = g]
<1>1. /\ BootTyped(p) /\ Keeps(m, p, {"memory"}) /\ p.memory = g /\ p.reg = m.reg
      /\ p.pc = m.pc /\ p.cycle_count = m.cycle_count /\ p.heap_ptr = m.heap_ptr
      /\ p.files = m.files /\ p.open = m.open
  BY WithMemory
<1> HIDE DEF p
<1>2. n \in B!Answer(p, v)
  BY DEF p
<1>3. Simple(p, n)
  BY <1>1, <1>2, AnswerSimple
<1> QED  BY <1>1, <1>3 DEF Simple, Answering, WritesBytes, Keeps

LEMMA ReadWrites ==
  ASSUME NEW m, BootTyped(m), NEW fd, NEW buf \in Nat, NEW count \in Nat,
         NEW n \in B!sys_read(m, fd, buf, count)
  PROVE  WritesBytes(m, n)
<1>1. CASE n \in B!Answer(m, 0) \cup B!Fault(m)
  BY <1>1, AnswerSimple, FaultSimple, SimpleWrites
<1>2. ASSUME NEW got \in 0..(IF count < FileBytes THEN count ELSE FileBytes),
             n \in B!Answer([m EXCEPT !.memory = [b \in B!Addresses |->
                      IF b >= buf /\ b < buf + got THEN B!FileByte ELSE @[b]]], got)
      PROVE  WritesBytes(m, n)
  <2> DEFINE g == [b \in B!Addresses |-> IF b >= buf /\ b < buf + got THEN B!FileByte
                  ELSE m.memory[b]]
  <2>1. g \in [B!Addresses -> Octets]
    BY DEF BootTyped, B!FileByte, Octets
  <2>2. n \in B!Answer([m EXCEPT !.memory = g], got)
    BY <1>2 DEF BootTyped, Core
  <2> HIDE DEF g
  <2>3. got \in Int
    BY Sizes
  <2> QED  BY <2>1, <2>2, <2>3, FilledAnswer
<1>3. \/ n \in B!Answer(m, 0) \cup B!Fault(m)
      \/ \E got \in 0..(IF count < FileBytes THEN count ELSE FileBytes) :
           n \in B!Answer([m EXCEPT !.memory = [b \in B!Addresses |->
                      IF b >= buf /\ b < buf + got THEN B!FileByte ELSE @[b]]], got)
  <2>1. CASE fd \in m.files
    <3>1. PICK got \in 0..(IF count < FileBytes THEN count ELSE FileBytes) :
            n \in IF got = 0 THEN B!Answer(m, 0)
                  ELSE IF B!InMemory(buf) /\ B!Region(buf, got)
                  THEN B!Answer([m EXCEPT !.memory = [b \in B!Addresses |->
                                  IF b >= buf /\ b < buf + got THEN B!FileByte ELSE @[b]]], got)
                  ELSE B!Fault(m)
      BY <2>1, Zenon DEF B!sys_read, B!Filled
    <3> QED  BY <3>1, Zenon
  <2>2. CASE fd \notin m.files
    BY <2>2, Zenon DEF B!sys_read
  <2> QED  BY <2>1, <2>2
<1> QED  BY <1>1, <1>2, <1>3, Zenon

LEMMA MemsetWrites ==
  ASSUME NEW m, BootTyped(m), NEW dst \in Nat, NEW val \in Nat, NEW len \in Nat,
         NEW n \in B!sys_memset(m, dst, val, len)
  PROVE  WritesBytes(m, n)
<1> DEFINE g == [b \in B!Addresses |-> IF b >= dst /\ b < dst + len THEN val % B!Byte
                ELSE m.memory[b]]
<1>1. g \in [B!Addresses -> Octets]
  BY DEF BootTyped, B!Byte, Octets
<1>2. \/ n \in B!Answer(m, 0) \cup B!Fault(m)
      \/ n \in B!Answer([m EXCEPT !.memory = g], dst)
  BY Zenon DEF B!sys_memset, B!Filled
<1> HIDE DEF g
<1>3. CASE n \in B!Answer(m, 0) \cup B!Fault(m)
  BY <1>3, AnswerSimple, FaultSimple, SimpleWrites
<1>4. CASE n \in B!Answer([m EXCEPT !.memory = g], dst)
  BY <1>1, <1>4, FilledAnswer
<1> QED  BY <1>2, <1>3, <1>4

(* Copies that stay inside of the memory. *)
LEMMA CopyInside ==
  ASSUME NEW dst \in Nat, NEW src \in Nat, NEW len \in Nat, NEW size \in Nat,
         len = 0 \/ src + len <= size,
         NEW k \in Nat, NEW b \in 0..(size - 1), b >= dst, b < dst + len
  PROVE  src + (IF k > 0 THEN (b - dst) % k ELSE b - dst) \in 0..(size - 1)
<1>1. b \in Nat /\ b - dst \in Nat /\ b - dst < len /\ src + len <= size
  OBVIOUS
<1>2. \A p \in Nat, q \in Nat : q > 0 => p % q \in 0..p
  OBVIOUS
<1>3. k > 0 => (b - dst) % k \in 0..(b - dst)
  BY <1>1, <1>2
<1> QED  BY <1>1, <1>3

(* m with len bytes from src copied to dst, the same k again and again if  *)
(* k is not 0.                                                             *)
Copied(m, dst, src, len, k) ==
  [m EXCEPT !.memory = [b \in B!Addresses |->
     IF b >= dst /\ b < dst + len
     THEN m.memory[src + (IF k > 0 THEN (b - dst) % k ELSE b - dst)] ELSE m.memory[b]]]

LEMMA CopyWrites ==
  ASSUME NEW m, BootTyped(m), NEW dst \in Nat, NEW src \in Nat, NEW len \in Nat,
         len = 0 \/ src + len <= MemorySize,
         NEW k \in Nat, NEW n \in B!Answer(Copied(m, dst, src, len, k), dst)
  PROVE  WritesBytes(m, n)
<1> DEFINE g == [b \in B!Addresses |-> IF b >= dst /\ b < dst + len
                   THEN m.memory[src + (IF k > 0 THEN (b - dst) % k ELSE b - dst)] ELSE m.memory[b]]
<1>1. ASSUME NEW b \in B!Addresses, b >= dst, b < dst + len
      PROVE  src + (IF k > 0 THEN (b - dst) % k ELSE b - dst) \in B!Addresses
  BY <1>1, CopyInside, Sizes, Zenon DEF B!Addresses
<1>2. g \in [B!Addresses -> Octets]
  BY <1>1 DEF BootTyped
<1>3. n \in B!Answer([m EXCEPT !.memory = g], dst)
  BY Zenon DEF Copied
<1> HIDE DEF g
<1> QED  BY <1>2, <1>3, FilledAnswer


LEMMA MemcpyWrites ==
  ASSUME NEW m, BootTyped(m), NEW dst \in Nat, NEW src \in Nat, NEW len \in Nat,
         NEW n \in B!sys_memcpy(m, dst, src, len)
  PROVE  WritesBytes(m, n)
<1> DEFINE k == IF dst > src THEN dst - src ELSE 0
           moved == [b \in B!Addresses |-> IF b >= dst /\ b < dst + len
                       THEN m.memory[src + (b - dst)] ELSE m.memory[b]]
           chained == [b \in B!Addresses |-> IF b >= dst /\ b < dst + len
                         THEN m.memory[src + (IF dst > src THEN (b - dst) % (dst - src)
                           ELSE b - dst)]
                         ELSE m.memory[b]]
<1>1. CASE n \in B!Answer(m, 0) \cup B!Fault(m)
  BY <1>1, AnswerSimple, FaultSimple, SimpleWrites
<1>2. ASSUME ~ (n \in B!Answer(m, 0) \cup B!Fault(m))
      PROVE  /\ B!Region(src, len)
             /\ \/ n \in B!Answer([m EXCEPT !.memory = moved], dst)
                \/ n \in B!Answer([m EXCEPT !.memory = chained], dst)
  BY <1>2, Zenon DEF B!sys_memcpy, B!Filled
<1>3. [m EXCEPT !.memory = moved] = Copied(m, dst, src, len, 0)
  BY DEF Copied
<1>4. [m EXCEPT !.memory = chained] = Copied(m, dst, src, len, k) /\ k \in Nat
  BY DEF Copied
<1>5. B!Region(src, len) => len = 0 \/ src + len <= MemorySize
  BY Zenon DEF B!Region
<1>6. 0 \in Nat
  OBVIOUS
<1> HIDE DEF moved, chained, k
<1>7. CASE B!Region(src, len) /\ n \in B!Answer(Copied(m, dst, src, len, 0), dst)
  BY <1>5, <1>6, <1>7, CopyWrites, Zenon
<1>8. CASE B!Region(src, len) /\ n \in B!Answer(Copied(m, dst, src, len, k), dst)
  BY <1>4, <1>5, <1>8, CopyWrites, Zenon
<1> QED  BY <1>1, <1>2, <1>3, <1>4, <1>7, <1>8, Zenon

LEMMA StrcpyWrites ==
  ASSUME NEW m, BootTyped(m), NEW dst \in Nat, NEW src \in Nat,
         NEW n \in B!sys_strcpy(m, dst, src)
  PROVE  WritesBytes(m, n)
<1> DEFINE len == B!StrLen(m, src) + 1
           moved == [b \in B!Addresses |-> IF b >= dst /\ b < dst + len
                       THEN m.memory[src + (b - dst)] ELSE m.memory[b]]
<1>1. CASE n \in B!Answer(m, 0) \cup B!Fault(m)
  BY <1>1, AnswerSimple, FaultSimple, SimpleWrites
<1>2. ASSUME ~ (n \in B!Answer(m, 0) \cup B!Fault(m))
      PROVE  B!IsString(m, src) /\ n \in B!Answer([m EXCEPT !.memory = moved], dst)
  BY <1>2, Zenon DEF B!sys_strcpy, B!Filled
<1>3. [m EXCEPT !.memory = moved] = Copied(m, dst, src, len, 0)
  BY DEF Copied
<1>4. ASSUME B!IsString(m, src)
      PROVE  len \in Nat /\ src + len <= MemorySize
  <2>1. B!StrLen(m, src) \in Nat /\ src + B!StrLen(m, src) < MemorySize
    BY <1>4, StringsEnd
  <2> QED  BY <2>1, Sizes
<1>5. 0 \in Nat
  OBVIOUS
<1> HIDE DEF moved, len
<1>6. CASE B!IsString(m, src) /\ n \in B!Answer(Copied(m, dst, src, len, 0), dst)
  BY <1>4, <1>5, <1>6, CopyWrites, Zenon
<1> QED  BY <1>1, <1>2, <1>3, <1>6, Zenon

(* What a system call may do to the machine. *)
Called(m, n) ==
  /\ Answering(m, n) /\ Filing(m, n)
  /\ m.reg[0] \notin {1, 12, 13, 22} => n.memory = m.memory
  /\ m.reg[0] # 10 => n.heap_ptr = m.heap_ptr
  /\ m.heap_ptr + m.reg[1] < B!Word => n.heap_ptr >= m.heap_ptr
  /\ n.state = "FAULT" => m.state = "FAULT" \/ m.reg[0] \in AddressCalls

LEMMA SimpleCalled ==
  ASSUME NEW m, BootTyped(m), NEW n, Simple(m, n),
         n.state = "FAULT" => m.state = "FAULT" \/ m.reg[0] \in AddressCalls
  PROVE  Called(m, n)
<1>1. m.heap_ptr \in Nat
  BY Sizes DEF BootTyped
<1> QED  BY <1>1, SimpleFiling DEF Simple, Called

LEMMA SyscallCalled ==
  ASSUME NEW m, BootTyped(m), NEW n \in B!vm_syscall(m)
  PROVE  Called(m, n)
<1> DEFINE k == m.reg[0]
           a == m.reg[1]
           b == m.reg[2]
           c == m.reg[3]
<1>1. k \in Nat /\ a \in Nat /\ b \in Nat /\ c \in Nat
  BY RegistersAreNumbers
<1>0. m.heap_ptr \in Nat /\ k \in Int /\ a \in Int
  BY <1>1, Sizes DEF BootTyped
<1>2. CASE k \in {0, 3}
  <2>1. (k = 0 /\ n \in B!sys_open(m, a, b)) \/ n \in B!sys_close(m, a)
    BY <1>2 DEF B!vm_syscall
  <2> HIDE DEF a, b, k
  <2>2. /\ Answering(m, n) /\ n.memory = m.memory /\ n.heap_ptr = m.heap_ptr /\ Filing(m, n)
        /\ k = 0 \/ n.state = m.state
    <3>1. CASE k = 0 /\ n \in B!sys_open(m, a, b)
      BY <3>1, OpenFiling
    <3>2. CASE n \in B!sys_close(m, a)
      BY <3>2, CloseFiling
    <3> QED  BY <2>1, <3>1, <3>2
  <2>3. k = 0 => k \in AddressCalls
    BY DEF AddressCalls
  <2> QED  BY <1>0, <2>2, <2>3 DEF Called, k, a
<1>3. CASE k \in {1, 12, 13, 22}
  <2>1. \/ n \in B!sys_read(m, a, b, c) \/ n \in B!sys_memcpy(m, a, b, c)
        \/ n \in B!sys_memset(m, a, b, c) \/ n \in B!sys_strcpy(m, a, b)
    BY <1>3 DEF B!vm_syscall
  <2> HIDE DEF a, b, c
  <2>2. WritesBytes(m, n)
    BY <1>1, <2>1, ReadWrites, MemcpyWrites, MemsetWrites, StrcpyWrites, Zenon
  <2>3. k \in AddressCalls
    BY <1>3 DEF AddressCalls
  <2> QED  BY <1>0, <1>3, <2>2, <2>3 DEF WritesBytes, Called, Filing
<1>4. CASE k = 10
  <2>1. n \in B!sys_malloc(m, a)
    BY <1>4 DEF B!vm_syscall
  <2>2. /\ Answering(m, n) /\ n.memory = m.memory /\ n.files = m.files /\ n.open = m.open
        /\ n.state = m.state
        /\ m.heap_ptr + a < B!Word => n.heap_ptr >= m.heap_ptr
    BY <1>1, <2>1, MallocHeap, Zenon
  <2> QED  BY <1>4, <2>2 DEF Called, Filing
<1>5. CASE k \in {2, 11, 14, 20, 21}
  <2>1. \/ n \in B!Answer(m, 1) \/ n \in B!sys_write(m, a, b, c) \/ n \in B!sys_memcmp(m, a, b, c)
        \/ n \in B!sys_strlen(m, a) \/ n \in B!sys_strcmp(m, a, b)
    BY <1>5 DEF B!vm_syscall
  <2>2. 1 \in Int
    OBVIOUS
  <2>3. k = 11 \/ k \in AddressCalls
    BY <1>5 DEF AddressCalls
  <2>4. k = 11 => n \in B!Answer(m, 1)
    BY DEF B!vm_syscall
  <2>5. k \in AddressCalls \/ n.state = m.state
    BY <2>2, <2>3, <2>4, AnswerState
  <2> HIDE DEF a, b, c
  <2> QED  BY <1>1, <2>1, <2>2, <2>5, WriteSimple, AnswerSimple, MemcmpSimple, StrlenSimple, StrcmpSimple,
              SimpleCalled, Zenon
<1>6. CASE k \in {30, 31, 32, 33, 34, 35, 36, 40, 41}
  <2>1. \/ \E class : n \in B!Class(m, a, class)
        \/ n \in B!sys_toupper(m, a) \cup B!sys_tolower(m, a) \/ n \in B!sys_atoi(m, a)
        \/ n \in B!sys_print(m, a) \cup B!sys_println(m, a)
    BY <1>6 DEF B!vm_syscall
  <2>2. k \in {34, 35} => n \in B!sys_toupper(m, a) \cup B!sys_tolower(m, a)
    BY DEF B!vm_syscall
  <2>3. k \in {34, 35} \/ k \in AddressCalls
    BY <1>6 DEF AddressCalls
  <2> HIDE DEF a
  <2>4. k \in AddressCalls \/ n.state = m.state
    BY <1>1, <2>2, <2>3, LettersSimple, Zenon
  <2> QED  BY <1>1, <2>1, <2>4, ClassSimple, LettersSimple, AtoiSimple, PrintingSimple, SimpleCalled,
              Zenon
<1>7. CASE k \notin {0, 1, 2, 3, 10, 11, 12, 13, 14, 20, 21, 22, 30, 31, 32, 33, 34, 35, 36, 40, 41}
  <2>1. \/ n = B!Put(B!End(m, "HALTED"), 15, a)
        \/ n = B!Put(B!End(m, "ERROR"), 15, k)
    BY <1>7 DEF B!vm_syscall, B!sys_exit
  <2>2. "HALTED" \in States /\ "ERROR" \in States
    BY DEF States
  <2> HIDE DEF a, k
  <2>3. ASSUME NEW state \in {"HALTED", "ERROR"}, NEW code \in Int,
               n = B!Put(B!End(m, state), 15, code)
        PROVE  Simple(m, n) /\ n.state # "FAULT"
    <3>1. state \in States /\ state # "FAULT"
      BY <2>2
    <3> QED  BY <2>3, <3>1, EndingSimple
  <2>4. Simple(m, n) /\ n.state # "FAULT"
    BY <1>0, <2>1, <2>3
  <2> QED  BY <2>4, SimpleCalled
<1> QED  BY <1>2, <1>3, <1>4, <1>5, <1>6, <1>7


-----------------------------------------------------------------------------
(* Words on the stack of the bootstrap machine. *)

(* The word whose bytes begin at a. *)
Joined(m, a) ==
  IF WordBytes = 1 THEN m.memory[a]
  ELSE IF WordBytes = 2 THEN m.memory[a] * 256 + m.memory[a + 1]
  ELSE IF WordBytes = 3 THEN (m.memory[a] * 256 + m.memory[a + 1]) * 256 + m.memory[a + 2]
  ELSE ((m.memory[a] * 256 + m.memory[a + 1]) * 256 + m.memory[a + 2]) * 256 + m.memory[a + 3]

BytesFrom(g, m, a) ==
  g = [n \in 0..WordBytes |-> IF n = 0 THEN 0 ELSE g[n - 1] * B!Byte + m.memory[a + n - 1]]

(* Bytes of the memory, and the word that some of them make.                *)
LEMMA CellsAreOctets ==
  ASSUME NEW m, BootTyped(m), NEW a \in Nat, a < MemorySize
  PROVE  m.memory[a] \in Octets /\ m.memory[a] \in Nat /\ m.memory[a] < 256
<1>1. a \in B!Addresses
  BY Sizes DEF B!Addresses
<1>2. m.memory[a] \in Octets
  BY <1>1 DEF BootTyped
<1> QED  BY <1>2 DEF Octets

LEMMA BytesExist ==
  ASSUME NEW m, BootTyped(m), NEW a \in Nat, a + WordBytes - 1 < MemorySize
  PROVE  \E g : BytesFrom(g, m, a)
<1> DEFINE cell(n) == IF n \in 1..WordBytes THEN m.memory[a + n - 1] ELSE 0
           step == [n \in Nat |-> [v \in Int |-> v * B!Byte + cell(n)]]
<1>0. WordBytes \in Nat /\ MemorySize \in Nat
  BY Sizes
<1>1. \A n \in Nat : cell(n) \in Int
  <2>1. ASSUME NEW n \in 1..WordBytes
        PROVE  m.memory[a + n - 1] \in Int
    <3>1. a + n - 1 \in Nat /\ a + n - 1 < MemorySize
      BY <1>0
    <3> QED  BY <3>1, CellsAreOctets
  <2> QED  BY <2>1
<1> HIDE DEF cell
<1>2. step \in [Nat -> [Int -> Int]]
  BY <1>1 DEF B!Byte
<1>3. ASSUME NEW n \in 1..WordBytes, NEW v \in Int
      PROVE  step[n][v] = v * B!Byte + m.memory[a + n - 1]
  <2>1. n \in Nat /\ cell(n) = m.memory[a + n - 1]
    BY <1>0 DEF cell
  <2> QED  BY <2>1
<1> HIDE DEF step
<1>4. PICK f \in [0..WordBytes -> Int] : Iterates(f, WordBytes, 0, step)
  <2>1. 0 \in Int /\ step \in Steps(Int)
    BY <1>2 DEF Steps
  <2> QED  BY <1>0, <2>1, Iteration, Zenon
<1>5. \A n \in 0..WordBytes : f[n] = IF n = 0 THEN 0 ELSE f[n - 1] * B!Byte + m.memory[a + n - 1]
  <2>1. ASSUME NEW n \in 1..WordBytes
        PROVE  f[n] = f[n - 1] * B!Byte + m.memory[a + n - 1]
    <3>1. f[n - 1] \in Int /\ f[n] = step[n][f[n - 1]]
      BY <1>0, <1>4 DEF Iterates
    <3> QED  BY <1>3, <3>1
  <2>2. f[0] = 0
    BY <1>4 DEF Iterates
  <2>3. \A n \in 0..WordBytes : n = 0 \/ (n # 0 /\ n \in 1..WordBytes)
    BY <1>0
  <2> QED  BY <2>1, <2>2, <2>3
<1>6. f = [n \in 0..WordBytes |-> IF n = 0 THEN 0 ELSE f[n - 1] * B!Byte + m.memory[a + n - 1]]
  BY <1>5
<1> QED  BY <1>6, Zenon DEF BytesFrom

LEMMA ReadJoins ==
  ASSUME NEW m, BootTyped(m), NEW a \in Nat, a + WordBytes - 1 < MemorySize
  PROVE  B!vm_read_u32(m, a) = Joined(m, a)
<1> DEFINE g == CHOOSE f : f = [n \in 0..WordBytes |->
                    IF n = 0 THEN 0 ELSE f[n - 1] * B!Byte + m.memory[a + n - 1]]
<1>0. WordBytes \in 1..4 /\ MemorySize \in Nat
  BY Sizes
<1>1. ~ (a + WordBytes - 1 >= MemorySize)
  BY <1>0
<1>2. B!vm_read_u32(m, a) = g[WordBytes]
  BY <1>1, Zenon DEF B!vm_read_u32
<1>3. BytesFrom(g, m, a)
  <2>1. \E f : f = [n \in 0..WordBytes |-> IF n = 0 THEN 0
        ELSE f[n - 1] * B!Byte + m.memory[a + n - 1]]
    BY BytesExist, Zenon DEF BytesFrom
  <2> QED  BY <2>1, Zenon DEF BytesFrom
<1> HIDE DEF g
<1>4. \A n \in 0..WordBytes : g[n] = IF n = 0 THEN 0 ELSE g[n - 1] * 256 + m.memory[a + n - 1]
  BY <1>3 DEF BytesFrom, B!Byte
<1>5. /\ g[0] = 0 /\ g[1] = 0 * 256 + m.memory[a]
      /\ WordBytes >= 2 => g[2] = g[1] * 256 + m.memory[a + 1]
      /\ WordBytes >= 3 => g[3] = g[2] * 256 + m.memory[a + 2]
      /\ WordBytes = 4 => g[4] = g[3] * 256 + m.memory[a + 3]
  BY <1>0, <1>4
<1>6. m.memory[a] \in Int
  BY <1>0, CellsAreOctets
<1>7. g[1] = m.memory[a]
  BY <1>5, <1>6
<1>8. WordBytes = 1 \/ WordBytes = 2 \/ WordBytes = 3 \/ WordBytes = 4
  BY <1>0
<1> QED  BY <1>2, <1>5, <1>7, <1>8 DEF Joined

(* A byte more. *)
LEMMA Horner ==
  ASSUME NEW k \in Int, NEW p \in Int, 0 <= p, p < k, NEW q \in Int, 0 <= q, q < 256
  PROVE  p * 256 + q \in Int /\ 0 <= p * 256 + q /\ p * 256 + q < k * 256
  OBVIOUS

LEMMA WordIsPower ==
  /\ WordBytes = 1 => B!Word = B!Byte
  /\ WordBytes = 2 => B!Word = B!Byte * B!Byte
  /\ WordBytes = 3 => B!Word = B!Byte * B!Byte * B!Byte
  /\ WordBytes = 4 => B!Word = B!Byte * B!Byte * B!Byte * B!Byte
  /\ WordBytes = 1 \/ WordBytes = 2 \/ WordBytes = 3 \/ WordBytes = 4
<1>1. 2 ^ 8 = B!Byte
  BY DEF B!Byte
<1>2. 2 ^ 16 = B!Byte * B!Byte
  BY DEF B!Byte
<1>3. 2 ^ 24 = 2 ^ 16 * B!Byte
  BY DEF B!Byte
<1>4. 2 ^ 32 = 2 ^ 24 * B!Byte
  BY DEF B!Byte
<1>5. /\ WordBytes = 1 => Bits = 8
      /\ WordBytes = 2 => Bits = 16
      /\ WordBytes = 3 => Bits = 24
      /\ WordBytes = 4 => Bits = 32
      /\ WordBytes = 1 \/ WordBytes = 2 \/ WordBytes = 3 \/ WordBytes = 4
  BY Sizes
<1> QED  BY <1>1, <1>2, <1>3, <1>4, <1>5, Zenon DEF B!Word

LEMMA JoinedIsWord ==
  ASSUME NEW m, BootTyped(m), NEW a \in Nat, a + WordBytes - 1 < MemorySize
  PROVE  Joined(m, a) \in Words
<1> DEFINE Octet(v) == v \in Int /\ 0 <= v /\ v < B!Byte
           Below(k, v) == v \in Int /\ 0 <= v /\ v < k
           c0 == m.memory[a]
           c1 == m.memory[a + 1]
           c2 == m.memory[a + 2]
           c3 == m.memory[a + 3]
<1>1. /\ Octet(c0)
      /\ WordBytes = 2 \/ WordBytes = 3 \/ WordBytes = 4 => Octet(c1)
      /\ WordBytes = 3 \/ WordBytes = 4 => Octet(c2)
      /\ WordBytes = 4 => Octet(c3)
  BY Sizes, CellsAreOctets DEF B!Byte
<1>2. B!Word \in Int /\ \A v : Below(B!Word, v) => v \in Words
  BY Sizes DEF Words
<1>3. ASSUME NEW k \in Int, NEW p, Below(k, p), NEW q, Octet(q)
      PROVE  Below(k * B!Byte, p * B!Byte + q)
  BY <1>3, Horner DEF B!Byte
<1>4. B!Byte \in Int /\ B!Byte * B!Byte \in Int /\ B!Byte * B!Byte * B!Byte \in Int
  BY DEF B!Byte
<1>5. Octet(c0) => Below(B!Byte, c0)
  OBVIOUS
<1> HIDE DEF Octet, Below, c0, c1, c2, c3
<1>6. Below(B!Word, Joined(m, a))
  <2>1. CASE WordBytes = 1
    <3>1. Joined(m, a) = c0
      BY <2>1 DEF Joined, B!Byte, c0
    <3> QED  BY <1>1, <1>5, <2>1, <3>1, WordIsPower
  <2>2. CASE WordBytes = 2
    <3>1. Joined(m, a) = c0 * B!Byte + c1
      BY <2>2 DEF Joined, B!Byte, c0, c1
    <3> QED  BY <1>1, <1>3, <1>4, <1>5, <2>2, <3>1, WordIsPower, Zenon
  <2>3. CASE WordBytes = 3
    <3>1. Joined(m, a) = (c0 * B!Byte + c1) * B!Byte + c2
      BY <2>3 DEF Joined, B!Byte, c0, c1, c2
    <3>2. Below(B!Byte * B!Byte, c0 * B!Byte + c1)
      BY <1>1, <1>3, <1>4, <1>5, <2>3, Zenon
    <3> QED  BY <1>1, <1>3, <1>4, <2>3, <3>1, <3>2, WordIsPower, Zenon
  <2>4. CASE WordBytes = 4
    <3>1. Joined(m, a) = ((c0 * B!Byte + c1) * B!Byte + c2) * B!Byte + c3
      BY <2>4 DEF Joined, B!Byte, c0, c1, c2, c3
    <3>2. Below(B!Byte * B!Byte, c0 * B!Byte + c1)
      BY <1>1, <1>3, <1>4, <1>5, <2>4, Zenon
    <3>3. Below(B!Byte * B!Byte * B!Byte, (c0 * B!Byte + c1) * B!Byte + c2)
      BY <1>1, <1>3, <1>4, <2>4, <3>2, Zenon
    <3> QED  BY <1>1, <1>3, <1>4, <2>4, <3>1, <3>3, WordIsPower, Zenon
  <2> QED  BY <2>1, <2>2, <2>3, <2>4, WordIsPower
<1> QED  BY <1>2, <1>6

LEMMA ReadIsWord ==
  ASSUME NEW m, BootTyped(m), NEW a \in Nat
  PROVE  B!vm_read_u32(m, a) \in Words
<1>1. CASE a + WordBytes - 1 >= MemorySize
  <2>1. B!vm_read_u32(m, a) = 0
    BY <1>1, Zenon DEF B!vm_read_u32
  <2> QED  BY <2>1, Sizes DEF Words
<1>2. CASE a + WordBytes - 1 < MemorySize
  BY <1>2, ReadJoins, JoinedIsWord
<1> QED  BY <1>1, <1>2, Sizes


(* The digits of a number to the base of a byte. *)
LEMMA Digits ==
  ASSUME NEW v \in Nat
  PROVE  LET d == v \div 256 IN
         /\ d \in Nat /\ v % 256 \in Nat /\ v % 256 < 256 /\ v = d * 256 + (v % 256)
         /\ \A k \in Nat : v < k * 256 => d < k
         /\ v < 256 => v % 256 = v
  OBVIOUS

LEMMA Quotients ==
  ASSUME NEW v \in Nat
  PROVE  /\ v \div 65536 = (v \div 256) \div 256
         /\ v \div 16777216 = ((v \div 256) \div 256) \div 256
         /\ v \div 1 = v
  OBVIOUS

LEMMA Powers ==
  256 ^ 0 = 1 /\ 256 ^ 1 = 256 /\ 256 ^ 2 = 65536 /\ 256 ^ 3 = 16777216
  OBVIOUS


LEMMA WriteEffect ==
  ASSUME NEW m, BootTyped(m), NEW a \in Nat, a + WordBytes - 1 < MemorySize, NEW v \in Words
  PROVE  LET n == B!vm_write_u32(m, a, v)
         IN  /\ BootTyped(n) /\ Keeps(m, n, {"memory"}) /\ n.reg = m.reg
             /\ n.pc = m.pc /\ n.cycle_count = m.cycle_count /\ n.heap_ptr = m.heap_ptr
             /\ n.files = m.files /\ n.open = m.open /\ n.state = m.state
             /\ \A b \in B!Addresses : b \notin a..(a + WordBytes - 1) => n.memory[b] = m.memory[b]
             /\ Joined(n, a) = v
<1> DEFINE g == [b \in B!Addresses |->
                  IF b \in a..(a + WordBytes - 1)
                  THEN (v \div B!Byte ^ (WordBytes - 1 - (b - a))) % B!Byte ELSE m.memory[b]]
           n == [m EXCEPT !.memory = g]
<1>0. WordBytes \in Nat /\ MemorySize \in Nat /\ v \in Nat /\ v < B!Word
  BY Sizes DEF Words
<1>1. B!vm_write_u32(m, a, v) = n
  <2>1. ~ (a + WordBytes - 1 >= MemorySize)
    BY <1>0
  <2> QED  BY <2>1 DEF B!vm_write_u32, BootTyped, Core
<1>2. ASSUME NEW e \in Nat, e = 0 \/ e = 1 \/ e = 2 \/ e = 3
      PROVE  (v \div B!Byte ^ e) % B!Byte \in Octets
  <2>1. v \div B!Byte ^ e \in Int
    <3>1. B!Byte ^ e = 1 \/ B!Byte ^ e = 256 \/ B!Byte ^ e = 65536 \/ B!Byte ^ e = 16777216
      <4>1. B!Byte ^ 0 = 1 /\ B!Byte ^ 1 = 256 /\ B!Byte ^ 2 = 65536 /\ B!Byte ^ 3 = 16777216
        BY Powers DEF B!Byte
      <4> DEFINE q == [k \in Nat |-> B!Byte ^ k]
      <4>2. q[0] = 1 /\ q[1] = 256 /\ q[2] = 65536 /\ q[3] = 16777216 /\ q[e] = B!Byte ^ e
        BY <4>1
      <4> HIDE DEF q
      <4> QED  BY <1>2, <4>2
    <3>2. v \div 1 \in Int /\ v \div 256 \in Int /\ v \div 65536 \in Int /\ v \div 16777216 \in Int
      BY <1>0
    <3> DEFINE p == B!Byte ^ e
    <3> HIDE DEF p
    <3>3. p = 1 \/ p = 256 \/ p = 65536 \/ p = 16777216
      BY <3>1 DEF p
    <3>4. v \div p \in Int
      BY <3>2, <3>3
    <3> QED  BY <3>4 DEF p
  <2>2. \A w \in Int : w % B!Byte \in Octets
    BY DEF B!Byte, Octets
  <2> QED  BY <2>1, <2>2
<1>3. g \in [B!Addresses -> Octets]
  <2>1. ASSUME NEW b \in B!Addresses, b \in a..(a + WordBytes - 1)
        PROVE  (v \div B!Byte ^ (WordBytes - 1 - (b - a))) % B!Byte \in Octets
    <3>1. /\ WordBytes - 1 - (b - a) \in Nat
          /\ \/ WordBytes - 1 - (b - a) = 0 \/ WordBytes - 1 - (b - a) = 1
             \/ WordBytes - 1 - (b - a) = 2 \/ WordBytes - 1 - (b - a) = 3
      BY <2>1, Sizes
    <3> QED  BY <1>2, <3>1, Zenon
  <2> QED  BY <2>1 DEF BootTyped
<1>4. /\ \A b \in B!Addresses : b \notin a..(a + WordBytes - 1) => g[b] = m.memory[b]
      /\ \A b \in B!Addresses : b \in a..(a + WordBytes - 1) =>
           g[b] = (v \div B!Byte ^ (WordBytes - 1 - (b - a))) % B!Byte
  OBVIOUS
<1> HIDE DEF g
<1>5. /\ BootTyped(n) /\ Keeps(m, n, {"memory"}) /\ n.memory = g /\ n.reg = m.reg
      /\ n.pc = m.pc /\ n.cycle_count = m.cycle_count /\ n.heap_ptr = m.heap_ptr
      /\ n.files = m.files /\ n.open = m.open /\ n.state = m.state
  BY <1>3, WithMemory
<1> HIDE DEF n
<1> DEFINE d == v \div 256
           dd == d \div 256
           ddd == dd \div 256
<1>6. d \in Nat /\ dd \in Nat /\ ddd \in Nat
  BY <1>0
<1>7. /\ v = d * 256 + (v % 256) /\ d = dd * 256 + (d % 256) /\ dd = ddd * 256 + (dd % 256)
      /\ v % 256 \in Int /\ d % 256 \in Int /\ dd % 256 \in Int
  BY <1>0, <1>6, Digits
<1>8. /\ v \div 65536 = dd /\ v \div 16777216 = ddd /\ v \div 256 = d /\ v \div 1 = v
  BY <1>0, Quotients
<1>9. /\ WordBytes = 1 => v % 256 = v
      /\ WordBytes = 2 => d % 256 = d
      /\ WordBytes = 3 => dd % 256 = dd
      /\ WordBytes = 4 => ddd % 256 = ddd
  <2>1. /\ WordBytes = 1 => v < 256
        /\ WordBytes = 2 => v < 256 * 256
        /\ WordBytes = 3 => v < 256 * 256 * 256
        /\ WordBytes = 4 => v < 256 * 256 * 256 * 256
    BY <1>0, WordIsPower DEF B!Byte
  <2>2. \A w \in Nat : w < 256 => w % 256 = w
    OBVIOUS
  <2>3. /\ v < 256 * 256 => d < 256
        /\ v < 256 * 256 * 256 => d < 256 * 256
        /\ v < 256 * 256 * 256 * 256 => d < 256 * 256 * 256
    BY <1>0
  <2>4. /\ d < 256 * 256 => dd < 256
        /\ d < 256 * 256 * 256 => dd < 256 * 256
        /\ dd < 256 * 256 => ddd < 256
    BY <1>6
  <2> HIDE DEF d, dd, ddd
  <2> QED  BY <1>0, <1>6, <2>1, <2>2, <2>3, <2>4
<1> HIDE DEF d, dd, ddd
<1>10. ASSUME NEW j \in 0..(WordBytes - 1)
       PROVE  g[a + j] = (v \div B!Byte ^ (WordBytes - 1 - j)) % B!Byte
  <2>1. a + j \in B!Addresses /\ a + j \in a..(a + WordBytes - 1) /\ (a + j) - a = j
    BY <1>0 DEF B!Addresses
  <2> QED  BY <1>4, <2>1
<1>11. Joined(n, a) = v
  <2>1. CASE WordBytes = 1
    <3>1. g[a + 0] = (v \div 256 ^ 0) % 256
      BY <1>10, <2>1 DEF B!Byte
    <3>2. Joined(n, a) = g[a + 0]
      BY <1>5, <2>1 DEF Joined
    <3> QED  BY <1>8, <1>9, <2>1, <3>1, <3>2, Powers
  <2>2. CASE WordBytes = 2
    <3>1. g[a + 0] = (v \div 256 ^ 1) % 256 /\ g[a + 1] = (v \div 256 ^ 0) % 256
      BY <1>10, <2>2 DEF B!Byte
    <3>2. Joined(n, a) = g[a + 0] * 256 + g[a + 1]
      BY <1>5, <2>2 DEF Joined
    <3>3. g[a + 0] = d /\ g[a + 1] = v % 256
      BY <1>8, <1>9, <2>2, <3>1, Powers
    <3> QED  BY <1>7, <3>2, <3>3
  <2>3. CASE WordBytes = 3
    <3>1. /\ g[a + 0] = (v \div 256 ^ 2) % 256 /\ g[a + 1] = (v \div 256 ^ 1) % 256
          /\ g[a + 2] = (v \div 256 ^ 0) % 256
      BY <1>10, <2>3 DEF B!Byte
    <3>2. Joined(n, a) = (g[a + 0] * 256 + g[a + 1]) * 256 + g[a + 2]
      BY <1>5, <2>3 DEF Joined
    <3>3. g[a + 0] = dd /\ g[a + 1] = d % 256 /\ g[a + 2] = v % 256
      BY <1>8, <1>9, <2>3, <3>1, Powers
    <3> QED  BY <1>7, <3>2, <3>3
  <2>4. CASE WordBytes = 4
    <3>1. /\ g[a + 0] = (v \div 256 ^ 3) % 256 /\ g[a + 1] = (v \div 256 ^ 2) % 256
          /\ g[a + 2] = (v \div 256 ^ 1) % 256 /\ g[a + 3] = (v \div 256 ^ 0) % 256
      BY <1>10, <2>4 DEF B!Byte
    <3>2. Joined(n, a) = ((g[a + 0] * 256 + g[a + 1]) * 256 + g[a + 2]) * 256 + g[a + 3]
      BY <1>5, <2>4 DEF Joined
    <3>3. g[a + 0] = ddd /\ g[a + 1] = dd % 256 /\ g[a + 2] = d % 256 /\ g[a + 3] = v % 256
      BY <1>8, <1>9, <2>4, <3>1, Powers
    <3> QED  BY <1>7, <3>2, <3>3
  <2> QED  BY <2>1, <2>2, <2>3, <2>4, WordIsPower
<1> QED  BY <1>1, <1>4, <1>5, <1>11


-----------------------------------------------------------------------------
(* What one instruction i does to the bootstrap machine, m before its      *)
(* handler and n after it.                                                 *)

Pushes(m, i) == IsPush(i) /\ m.reg[SP] > WordBytes
Pops(m, i)   == IsPop(i) /\ m.reg[SP] < StackSize - WordBytes

Writes(m, i) ==
  \/ SP \in Named(i)
  \/ IsStore(i) /\ m.reg[i.o[1] % 16] \in m.reg[SP]..(StackSize - 1)
  \/ IsSyscall(i) /\ m.reg[0] \in {1, 12, 13, 22}

HeapEffect(m, n, i) ==
  /\ i.op = 33 => n.heap_ptr = StackSize
  /\ i.op = 17 \/ (IsSyscall(i) /\ m.reg[0] = 10 /\ m.heap_ptr + m.reg[1] < B!Word)
       => n.heap_ptr >= m.heap_ptr
  /\ i.op \notin {17, 33} /\ ~ (IsSyscall(i) /\ m.reg[0] = 10) => n.heap_ptr = m.heap_ptr

PointerEffect(m, n, i) ==
  SP \notin Named(i) =>
    n.reg[SP] = IF Pushes(m, i) THEN m.reg[SP] - WordBytes
                ELSE IF Pops(m, i) THEN m.reg[SP] + WordBytes ELSE m.reg[SP]

StackEffect(m, n, i) ==
  /\ ~ Writes(m, i) => \A a \in m.reg[SP]..(StackSize - 1) : n.memory[a] = m.memory[a]
  /\ Pushes(m, i) /\ SP \notin Named(i) /\ m.reg[SP] <= StackSize =>
       Joined(n, n.reg[SP]) = m.reg[i.o[1] % 16]

ControlEffect(m, n, i) ==
  /\ n.pc <= m.pc \/ i.op = 1 \/ n.pc < MemorySize
  /\ n.state = "FAULT" => m.state = "FAULT" \/ (IsSyscall(i) /\ m.reg[0] \in AddressCalls)

Effect(m, n, i) ==
  /\ BootTyped(n) /\ DOMAIN n = DOMAIN m /\ n.cycle_count = m.cycle_count
  /\ Filing(m, n)
  /\ HeapEffect(m, n, i) /\ PointerEffect(m, n, i) /\ StackEffect(m, n, i)
  /\ ControlEffect(m, n, i)

(* A calm step keeps the types.                                             *)
LEMMA CalmTyped ==
  ASSUME NEW m, BootTyped(m), NEW R, NEW n, Calm(m, n, R)
  PROVE  /\ BootTyped(n) /\ DOMAIN n = DOMAIN m /\ n.cycle_count = m.cycle_count
         /\ n.memory = m.memory /\ n.heap_ptr = m.heap_ptr /\ n.files = m.files /\ n.open = m.open
  BY DEF BootTyped, Core, Calm, Keeps, Changing, CoreFields

LEMMA CalmEffect ==
  ASSUME NEW m, BootTyped(m), NEW i, Instr(i), NEW n, Calm(m, n, Named(i)),
         ~ Pushes(m, i), ~ Pops(m, i), i.op # 33
  PROVE  Effect(m, n, i)
<1>1. /\ BootTyped(n) /\ DOMAIN n = DOMAIN m /\ n.cycle_count = m.cycle_count
      /\ n.memory = m.memory /\ n.heap_ptr = m.heap_ptr /\ n.files = m.files /\ n.open = m.open
  BY CalmTyped
<1>2. m.heap_ptr \in Nat
  BY Sizes DEF BootTyped
<1>3. SP \in 0..15
  BY DEF SP
<1>4. PointerEffect(m, n, i)
  BY <1>3 DEF PointerEffect, Calm
<1>5. Filing(m, n) /\ HeapEffect(m, n, i) /\ StackEffect(m, n, i)
  BY <1>1, <1>2 DEF Filing, HeapEffect, StackEffect
<1>6. ControlEffect(m, n, i)
  BY DEF ControlEffect, Calm
<1> QED  BY <1>1, <1>4, <1>5, <1>6 DEF Effect

LEMMA CalledEffect ==
  ASSUME NEW m, BootTyped(m), NEW i, IsSyscall(i), NEW n, Called(m, n)
  PROVE  Effect(m, n, i)
<1>1. i.op = 0
  BY DEF IsSyscall
<1>2. ~ Pushes(m, i) /\ ~ Pops(m, i) /\ ~ IsStore(i)
  BY <1>1 DEF Pushes, Pops, IsPush, IsPop, IsStore
<1>3. m.heap_ptr \in Int /\ m.pc \in Int /\ SP \in 1..14
  BY Sizes DEF BootTyped, Core, Words, SP
<1>4. /\ BootTyped(n) /\ DOMAIN n = DOMAIN m /\ n.cycle_count = m.cycle_count
      /\ Filing(m, n) /\ n.reg[SP] = m.reg[SP] /\ n.pc = m.pc
  BY <1>3 DEF Called, Answering
<1>5. HeapEffect(m, n, i)
  BY <1>1 DEF HeapEffect, Called
<1>6. StackEffect(m, n, i)
  BY <1>2 DEF StackEffect, Writes, Called
<1>7. PointerEffect(m, n, i) /\ ControlEffect(m, n, i)
  BY <1>2, <1>3, <1>4 DEF PointerEffect, ControlEffect, Called
<1> QED  BY <1>4, <1>5, <1>6, <1>7 DEF Effect


LEMMA WithHeap ==
  ASSUME NEW m, BootTyped(m), NEW p \in 0..(StackSize + HeapSize - 1)
  PROVE  LET n == [m EXCEPT !.heap_ptr = p]
         IN  /\ BootTyped(n) /\ Keeps(m, n, {"heap_ptr"}) /\ n.heap_ptr = p /\ n.reg = m.reg
             /\ n.pc = m.pc /\ n.cycle_count = m.cycle_count /\ n.memory = m.memory
             /\ n.files = m.files /\ n.open = m.open /\ n.state = m.state
<1> DEFINE n == [m EXCEPT !.heap_ptr = p]
<1>1. Core(n) /\ Keeps(m, n, {"heap_ptr"}) /\ n.heap_ptr = p
  BY DEF BootTyped, Core, CoreFields, Keeps
<1>2. /\ n.pc = m.pc /\ n.cycle_count = m.cycle_count /\ n.memory = m.memory
      /\ n.files = m.files /\ n.open = m.open /\ n.reg = m.reg /\ n.state = m.state
  BY DEF BootTyped, Core, CoreFields
<1> HIDE DEF n
<1>3. BootTyped(n)
  BY <1>1, <1>2 DEF BootTyped, Keeps
<1> QED  BY <1>1, <1>2, <1>3 DEF n

LEMMA WithPc ==
  ASSUME NEW m, BootTyped(m), NEW a \in Words
  PROVE  LET n == [m EXCEPT !.pc = a]
         IN  /\ BootTyped(n) /\ Keeps(m, n, {"pc"}) /\ n.heap_ptr = m.heap_ptr /\ n.reg = m.reg
             /\ n.pc = a /\ n.cycle_count = m.cycle_count /\ n.memory = m.memory
             /\ n.files = m.files /\ n.open = m.open /\ n.state = m.state
<1> DEFINE n == [m EXCEPT !.pc = a]
<1>1. Core(n) /\ Keeps(m, n, {"pc"}) /\ n.pc = a
  BY DEF BootTyped, Core, CoreFields, Keeps
<1>2. /\ n.heap_ptr = m.heap_ptr /\ n.cycle_count = m.cycle_count /\ n.memory = m.memory
      /\ n.files = m.files /\ n.open = m.open /\ n.reg = m.reg /\ n.state = m.state
  BY DEF BootTyped, Core, CoreFields
<1> HIDE DEF n
<1>3. BootTyped(n)
  BY <1>1, <1>2 DEF BootTyped, Keeps
<1> QED  BY <1>1, <1>2, <1>3 DEF n

LEMMA PutKeeps ==
  ASSUME NEW m, BootTyped(m), NEW r \in 0..15, NEW v \in Int
  PROVE  LET n == B!Put(m, r, v)
         IN  /\ BootTyped(n) /\ Keeps(m, n, {"reg"}) /\ n.heap_ptr = m.heap_ptr
             /\ n.pc = m.pc /\ n.cycle_count = m.cycle_count /\ n.memory = m.memory
             /\ n.files = m.files /\ n.open = m.open /\ n.state = m.state
             /\ n.reg = [m.reg EXCEPT ![r] = v % B!Word]
<1> DEFINE n == B!Put(m, r, v)
<1>1. Core(n) /\ Keeps(m, n, {"reg"}) /\ n.reg = [m.reg EXCEPT ![r] = v % B!Word]
  BY PutEffect DEF BootTyped
<1> HIDE DEF n
<1>2. /\ n.memory = m.memory /\ n.heap_ptr = m.heap_ptr /\ n.files = m.files /\ n.open = m.open
      /\ n.pc = m.pc /\ n.cycle_count = m.cycle_count /\ n.state = m.state
  BY <1>1 DEF Keeps, BootTyped, Core, CoreFields
<1>3. BootTyped(n)
  BY <1>1, <1>2 DEF BootTyped, Keeps
<1> QED  BY <1>1, <1>2, <1>3 DEF n

(* n is m with v in register r, and nothing else changed.                  *)
Written(m, n, r, v) ==
  /\ BootTyped(n) /\ Keeps(m, n, {"reg"}) /\ n.heap_ptr = m.heap_ptr
  /\ n.pc = m.pc /\ n.cycle_count = m.cycle_count /\ n.memory = m.memory
  /\ n.files = m.files /\ n.open = m.open /\ n.state = m.state
  /\ n.reg = [m.reg EXCEPT ![r] = v % B!Word]

LEMMA PutWrites ==
  ASSUME NEW m, BootTyped(m), NEW r \in 0..15, NEW v \in Int
  PROVE  Written(m, B!Put(m, r, v), r, v)
<1> DEFINE n == B!Put(m, r, v)
<1>1. /\ BootTyped(n) /\ Keeps(m, n, {"reg"}) /\ n.heap_ptr = m.heap_ptr
      /\ n.pc = m.pc /\ n.cycle_count = m.cycle_count /\ n.memory = m.memory
      /\ n.files = m.files /\ n.open = m.open /\ n.state = m.state
      /\ n.reg = [m.reg EXCEPT ![r] = v % B!Word]
  BY PutKeeps
<1> HIDE DEF n
<1>2. Written(m, n, r, v)
  BY <1>1 DEF Written
<1> QED  BY <1>2 DEF n

(* A step that only writes the memory, outside of the stack. *)
LEMMA CellEffect ==
  ASSUME NEW m, BootTyped(m), NEW i, i.op \in {10, 47, 50, 58}, NEW a \in B!Addresses,
         NEW v \in Octets,
         \/ a >= StackSize
         \/ i.op \in {47, 50} /\ a = m.reg[i.o[1] % 16]
  PROVE  Effect(m, [m EXCEPT !.memory[a] = v], i)
<1> DEFINE g == [m.memory EXCEPT ![a] = v]
           n == [m EXCEPT !.memory = g]
<1>1. g \in [B!Addresses -> Octets]
  BY DEF BootTyped
<1>2. \A b \in B!Addresses : b # a => g[b] = m.memory[b]
  BY DEF BootTyped
<1>3. [m EXCEPT !.memory[a] = v] = n
  BY DEF BootTyped, Core
<1> HIDE DEF g
<1>4. /\ BootTyped(n) /\ Keeps(m, n, {"memory"}) /\ n.memory = g /\ n.reg = m.reg
      /\ n.pc = m.pc /\ n.cycle_count = m.cycle_count /\ n.heap_ptr = m.heap_ptr
      /\ n.files = m.files /\ n.open = m.open /\ n.state = m.state
  BY <1>1, WithMemory
<1> HIDE DEF n
<1>5. ~ Pushes(m, i) /\ ~ Pops(m, i) /\ ~ IsSyscall(i) /\ i.op \notin {17, 33}
  BY DEF Pushes, Pops, IsPush, IsPop, IsSyscall
<1>6. SP \in 0..15 /\ m.reg[SP] \in Nat /\ m.pc \in Int
  BY RegistersAreNumbers DEF SP, BootTyped, Core, Words
<1>7. StackEffect(m, n, i)
  <2>1. ASSUME ~ Writes(m, i), NEW b \in m.reg[SP]..(StackSize - 1)
        PROVE  n.memory[b] = m.memory[b]
    <3>1. b \in B!Addresses /\ b < StackSize
      BY <1>6, Sizes DEF B!Addresses
    <3>2. b # a
      BY <2>1, <3>1, Sizes DEF Writes, IsStore, B!Addresses
    <3> QED  BY <1>2, <1>4, <3>1, <3>2
  <2> QED  BY <1>5, <2>1 DEF StackEffect
<1>8. HeapEffect(m, n, i) /\ PointerEffect(m, n, i) /\ ControlEffect(m, n, i) /\ Filing(m, n)
  BY <1>4, <1>5, <1>6, Sizes DEF HeapEffect, PointerEffect, ControlEffect, Filing, Words
<1> QED  BY <1>3, <1>4, <1>7, <1>8 DEF Effect, Keeps


(* The handlers one by one.                                                 *)
LEMMA LockEffect ==
  ASSUME NEW m, BootTyped(m), NEW i, Instr(i), i.op = 58 \/ i.op = 10,
         NEW n, n = IF i.op = 58 THEN B!op_lock(m, i.o) ELSE B!op_unlock(m, i.o)
  PROVE  Effect(m, n, i)
<1> DEFINE a == StackSize + i.o[1]
<1>1. CASE i.o[1] < MaxLocks
  <2>1. n = [m EXCEPT !.memory[a] = 1] \/ n = [m EXCEPT !.memory[a] = 0]
    BY <1>1, Zenon DEF B!op_lock, B!op_unlock
  <2>2. a \in B!Addresses /\ a >= StackSize
    BY <1>1, Sizes DEF B!Addresses, Instr, Octets
  <2>3. 0 \in Octets /\ 1 \in Octets /\ i.op \in {10, 47, 50, 58}
    BY DEF Octets
  <2> HIDE DEF a
  <2>4. Effect(m, [m EXCEPT !.memory[a] = 1], i)
    BY <2>2, <2>3, CellEffect
  <2>5. Effect(m, [m EXCEPT !.memory[a] = 0], i)
    BY <2>2, <2>3, CellEffect
  <2> QED  BY <2>1, <2>4, <2>5
<1>2. CASE ~ (i.o[1] < MaxLocks)
  <2>1. n = m
    BY <1>2, Zenon DEF B!op_lock, B!op_unlock
  <2>2. Calm(m, m, Named(i))
    BY Sizes DEF Calm, BootTyped, Keeps, Core, Words
  <2>3. ~ Pushes(m, i) /\ ~ Pops(m, i) /\ i.op # 33
    BY DEF Pushes, Pops, IsPush, IsPop
  <2> QED  BY <2>1, <2>2, <2>3, CalmEffect
<1> QED  BY <1>1, <1>2

LEMMA StoreEffect ==
  ASSUME NEW m, BootTyped(m), NEW i, Instr(i), i.op = 47 \/ i.op = 50,
         NEW n, n = IF i.op = 47 THEN B!op_abundance(m, i.o) ELSE B!op_disperse(m, i.o)
  PROVE  Effect(m, n, i)
<1> DEFINE x == m.reg[i.o[1] % 16]
           v == B!Y(m, i.o) % B!Byte
<1>1. B!X(m, i.o) = x /\ B!Y(m, i.o) \in Int /\ x \in Nat
  <2>1. i.o[1] \in Octets /\ i.o[2] \in Octets /\ Core(m)
    BY DEF Instr, BootTyped
  <2>2. B!X(m, i.o) \in Words /\ B!X(m, i.o) = x /\ B!Y(m, i.o) \in Int
    BY <2>1, OperandsAreWords
  <2> QED  BY <2>2, Sizes DEF Words
<1>2. CASE x < MemorySize
  <2>1. n = [m EXCEPT !.memory[x] = v]
    BY <1>1, <1>2 DEF B!op_abundance, B!op_disperse, B!InMemory
  <2>2. x \in B!Addresses /\ v \in Octets
    BY <1>1, <1>2, Sizes DEF B!Addresses, B!Byte, Octets
  <2>3. i.op \in {10, 47, 50, 58} /\ i.op \in {47, 50}
    OBVIOUS
  <2> HIDE DEF v
  <2> QED  BY <2>1, <2>2, <2>3, CellEffect
<1>3. CASE ~ (x < MemorySize)
  <2>1. n = m
    BY <1>1, <1>3 DEF B!op_abundance, B!op_disperse, B!InMemory
  <2>2. Calm(m, m, Named(i))
    BY Sizes DEF Calm, BootTyped, Keeps, Core, Words
  <2>3. ~ Pushes(m, i) /\ ~ Pops(m, i) /\ i.op # 33
    BY DEF Pushes, Pops, IsPush, IsPop
  <2> QED  BY <2>1, <2>2, <2>3, CalmEffect
<1> QED  BY <1>2, <1>3

LEMMA NourishEffect ==
  ASSUME NEW m, BootTyped(m), NEW i, Instr(i), i.op = 33
  PROVE  Effect(m, B!op_nourish(m, i.o), i)
<1> DEFINE g == [b \in B!Addresses |-> IF b >= StackSize /\ b < StackSize + HeapSize
                THEN 0 ELSE m.memory[b]]
           p == [m EXCEPT !.memory = g]
           n == [p EXCEPT !.heap_ptr = StackSize]
<1>1. g \in [B!Addresses -> Octets]
  BY DEF BootTyped, Octets
<1>2. B!op_nourish(m, i.o) = n
  BY DEF B!op_nourish, B!Filled, BootTyped, Core
<1>3. \A b \in B!Addresses : b < StackSize => g[b] = m.memory[b]
  BY Sizes DEF B!Addresses
<1> HIDE DEF g
<1>4. /\ BootTyped(p) /\ Keeps(m, p, {"memory"}) /\ p.memory = g /\ p.reg = m.reg
      /\ p.pc = m.pc /\ p.cycle_count = m.cycle_count /\ p.heap_ptr = m.heap_ptr
      /\ p.files = m.files /\ p.open = m.open /\ p.state = m.state
  BY <1>1, WithMemory
<1> HIDE DEF p
<1>5. StackSize \in 0..(StackSize + HeapSize - 1)
  BY Sizes
<1>6. /\ BootTyped(n) /\ Keeps(p, n, {"heap_ptr"}) /\ n.heap_ptr = StackSize /\ n.reg = p.reg
      /\ n.pc = p.pc /\ n.cycle_count = p.cycle_count /\ n.memory = p.memory
      /\ n.files = p.files /\ n.open = p.open /\ n.state = p.state
  BY <1>4, <1>5, WithHeap
<1> HIDE DEF n
<1>7. ~ Pushes(m, i) /\ ~ Pops(m, i) /\ ~ IsSyscall(i) /\ i.op # 17
  BY DEF Pushes, Pops, IsPush, IsPop, IsSyscall
<1>8. SP \in 0..15 /\ m.reg[SP] \in Nat /\ m.pc \in Int
  BY RegistersAreNumbers, Sizes DEF SP, BootTyped, Core, Words
<1>9. StackEffect(m, n, i)
  <2>1. ASSUME NEW b \in m.reg[SP]..(StackSize - 1)
        PROVE  n.memory[b] = m.memory[b]
    <3>1. b \in B!Addresses /\ b < StackSize
      BY <1>8, Sizes DEF B!Addresses
    <3> QED  BY <1>3, <1>4, <1>6, <3>1
  <2> QED  BY <1>7, <2>1 DEF StackEffect
<1>10. HeapEffect(m, n, i) /\ PointerEffect(m, n, i) /\ ControlEffect(m, n, i) /\ Filing(m, n)
  BY <1>4, <1>6, <1>7, <1>8 DEF HeapEffect, PointerEffect, ControlEffect, Filing
<1> QED  BY <1>2, <1>4, <1>6, <1>9, <1>10 DEF Effect, Keeps

(* ALLOC grants a block or answers 0, and clears it (op_alloc).             *)
LEMMA AllocEffect ==
  ASSUME NEW m, BootTyped(m), NEW i, Instr(i), i.op = 17
  PROVE  Effect(m, B!op_alloc(m, i.o), i)
<1> DEFINE size == IF i.o[2] > 0 THEN i.o[2] ELSE 256
           r == i.o[1] % 16
           n == B!op_alloc(m, i.o)
<1>1. /\ m.heap_ptr \in Nat /\ size \in Nat /\ r \in 0..15 /\ B!Dst(i.o) = r
      /\ Core(m)
  BY Sizes DEF BootTyped, Instr, Octets, B!Dst
<1>2. ~ Pushes(m, i) /\ ~ Pops(m, i) /\ ~ IsSyscall(i) /\ i.op # 33
  BY DEF Pushes, Pops, IsPush, IsPop, IsSyscall
<1>3. SP \in 0..15 /\ m.pc \in Int /\ Named(i) = {r}
  BY Sizes DEF SP, BootTyped, Core, Words, Named, WithFirst, WithoutRegister
<1>4. CASE m.heap_ptr + size < StackSize + HeapSize
  <2> DEFINE p == B!Put(m, r, m.heap_ptr)
             q == [p EXCEPT !.heap_ptr = m.heap_ptr + size]
  <2>1. /\ BootTyped(p) /\ Keeps(m, p, {"reg"}) /\ p.heap_ptr = m.heap_ptr
        /\ p.pc = m.pc /\ p.cycle_count = m.cycle_count /\ p.memory = m.memory
        /\ p.files = m.files /\ p.open = m.open /\ p.state = m.state
        /\ p.reg = [m.reg EXCEPT ![r] = m.heap_ptr % B!Word]
    <3>1. m.heap_ptr \in Int
      BY <1>1
    <3>2. r \in 0..15
      BY <1>1
    <3> HIDE DEF r, size, n, q
    <3>3. Written(m, p, r, m.heap_ptr)
      BY <3>1, <3>2, PutWrites
    <3> HIDE DEF p
    <3> QED  BY <3>3 DEF Written
  <2>2. n = [B!Put(m, r, m.heap_ptr) EXCEPT !.heap_ptr = @ + size]
    BY <1>1, <1>4, Zenon DEF B!op_alloc
  <2> HIDE DEF r, size
  <2>3. n = q
    <3> HIDE DEF n, p
    <3>1. n = [p EXCEPT !.heap_ptr = @ + size]
      BY <2>2 DEF p
    <3> QED  BY <2>1, <3>1
  <2>4. m.heap_ptr + size \in 0..(StackSize + HeapSize - 1)
    BY <1>1, <1>4, Sizes
  <2> HIDE DEF n, p
  <2>5. /\ BootTyped(q) /\ Keeps(p, q, {"heap_ptr"}) /\ q.heap_ptr = m.heap_ptr + size
           /\ q.reg = p.reg
        /\ q.pc = p.pc /\ q.cycle_count = p.cycle_count /\ q.memory = p.memory
        /\ q.files = p.files /\ q.open = p.open /\ q.state = p.state
    BY <2>1, <2>4, WithHeap
  <2> HIDE DEF q
  <2>6. SP \notin Named(i) => q.reg[SP] = m.reg[SP]
    BY <1>3, <2>1, <2>5 DEF BootTyped, Core
  <2>7. /\ HeapEffect(m, q, i) /\ PointerEffect(m, q, i) /\ ControlEffect(m, q, i) /\ Filing(m, q)
        /\ StackEffect(m, q, i)
    BY <1>1, <1>2, <1>3, <2>1, <2>5, <2>6
       DEF HeapEffect, PointerEffect, ControlEffect, Filing, StackEffect
  <2> QED  BY <2>1, <2>3, <2>5, <2>7 DEF Effect, Keeps, n
<1>5. CASE ~ (m.heap_ptr + size < StackSize + HeapSize)
  <2> DEFINE p == B!Put(m, r, 0)
  <2>1. n = [p EXCEPT !.overflow = TRUE]
    BY <1>1, <1>5, Zenon DEF B!op_alloc
  <2>2. Calm(m, p, {r})
    <3>1. 0 \in Int
      OBVIOUS
    <3> HIDE DEF r, size, n
    <3> QED  BY <1>1, <3>1, PutCalm
  <2> HIDE DEF p, n, r
  <2>3. Core(n) /\ Keeps(m, n, Changing) /\ n.reg = p.reg /\ n.pc = p.pc /\ n.state = p.state
    BY <2>1, <2>2 DEF Calm, Core, CoreFields, Keeps, Changing
  <2>4. Calm(m, n, Named(i))
    BY <1>3, <2>2, <2>3 DEF Calm
  <2> QED  BY <1>2, <2>4, CalmEffect DEF n
<1> QED  BY <1>4, <1>5


LEMMA EndCalm ==
  ASSUME NEW m, BootTyped(m), NEW R, NEW state \in States \ {"FAULT"}
  PROVE  Calm(m, m, R) /\ Calm(m, B!End(m, state), R)
<1>1. Calm(m, m, R)
  BY Sizes DEF Calm, BootTyped, Keeps, Core, Words
<1> DEFINE n == B!End(m, state)
<1>2. Core(n) /\ Keeps(m, n, Changing) /\ n.reg = m.reg /\ n.pc = m.pc /\ n.state = state
  BY DEF B!End, BootTyped, Core, CoreFields, Keeps, Changing
<1> HIDE DEF n
<1>3. m.pc \in Int /\ state # "FAULT"
  BY Sizes DEF BootTyped, Core, Words
<1>4. Calm(m, n, R)
  BY <1>2, <1>3 DEF Calm
<1> QED  BY <1>1, <1>4 DEF n

LEMMA ModWord ==
  \A k \in Nat : k < B!Word => k % B!Word = k
<1>1. B!Word \in Nat /\ B!Word > 0
  BY Sizes
<1> QED  BY <1>1

(* PUSH_UP writes a word below SP, and moves SP down to it.                 *)
LEMMA PushEffect ==
  ASSUME NEW m, BootTyped(m), NEW i, Instr(i), i.op = 6
  PROVE  Effect(m, B!op_push_up(m, i.o), i)
<1> DEFINE n == B!op_push_up(m, i.o)
           sp == m.reg[13] - WordBytes
           x == m.reg[i.o[1] % 16]
           r == i.o[1] % 16
<1>1. B!X(m, i.o) = x /\ x \in Words /\ m.reg[13] \in Nat /\ m.reg[13] < B!Word
  <2>1. i.o[1] \in Octets /\ i.o[2] \in Octets /\ Core(m)
    BY DEF Instr, BootTyped
  <2> QED  BY <2>1, OperandsAreWords, RegistersAreNumbers
<1>2. ~ Pops(m, i) /\ ~ IsSyscall(i) /\ i.op \notin {17, 33} /\ SP = 13 /\ ~ IsStore(i) /\ IsPush(i)
  BY DEF Pops, IsPop, IsSyscall, SP, IsStore, IsPush
<1>3. m.pc \in Int /\ WordBytes \in Nat /\ 13 \in 0..15 /\ StackSize < MemorySize
      /\ StackSize \in Nat /\ MemorySize \in Nat
  BY Sizes DEF BootTyped, Core, Words
<1>4. CASE ~ (m.reg[13] > WordBytes)
  <2>1. n = m
    BY <1>4, Zenon DEF B!op_push_up
  <2>2. Calm(m, m, Named(i))
    <3>1. "HALTED" \in States \ {"FAULT"}
      BY DEF States
    <3> QED  BY <3>1, EndCalm, Zenon
  <2>3. ~ Pushes(m, i) /\ i.op # 33
    BY <1>2, <1>4 DEF Pushes
  <2> QED  BY <1>2, <2>1, <2>2, <2>3, CalmEffect
<1>5. CASE m.reg[13] > WordBytes
  <2> DEFINE p == B!vm_write_u32(m, sp, x)
             q == B!Put(p, 13, sp)
  <2>1. n = q
    BY <1>1, <1>5, Zenon DEF B!op_push_up
  <2>2. sp \in Nat /\ sp % B!Word = sp /\ sp + WordBytes = m.reg[13]
    <3>1. sp \in Nat /\ sp < B!Word /\ sp + WordBytes = m.reg[13]
      BY <1>1, <1>3, <1>5, Sizes
    <3> HIDE DEF sp
    <3> QED  BY <3>1, ModWord
  <2> HIDE DEF sp, x, n
  <2>3. /\ BootTyped(p) /\ Keeps(m, p, {"memory"}) /\ p.reg = m.reg
        /\ p.pc = m.pc /\ p.cycle_count = m.cycle_count /\ p.heap_ptr = m.heap_ptr
        /\ p.files = m.files /\ p.open = m.open /\ p.state = m.state
        /\ \A a \in m.reg[13]..(StackSize - 1) : p.memory[a] = m.memory[a]
        /\ m.reg[13] <= StackSize => Joined(p, sp) = x
    <3>1. CASE sp + WordBytes - 1 < MemorySize
      <4>1. \A a \in m.reg[13]..(StackSize - 1) : a \in B!Addresses
            /\ a \notin sp..(sp + WordBytes - 1)
        BY <1>1, <1>3, <2>2 DEF B!Addresses
      <4>2. /\ BootTyped(p) /\ Keeps(m, p, {"memory"}) /\ p.reg = m.reg
            /\ p.pc = m.pc /\ p.cycle_count = m.cycle_count /\ p.heap_ptr = m.heap_ptr
            /\ p.files = m.files /\ p.open = m.open /\ p.state = m.state
            /\ \A b \in B!Addresses : b \notin sp..(sp + WordBytes - 1) => p.memory[b] = m.memory[b]
            /\ Joined(p, sp) = x
        BY <1>1, <2>2, <3>1, WriteEffect
      <4> HIDE DEF p
      <4> QED  BY <4>1, <4>2
    <3>2. CASE ~ (sp + WordBytes - 1 < MemorySize)
      <4>1. p = m
        <5>1. sp + WordBytes - 1 >= MemorySize
          BY <1>3, <2>2, <3>2
        <5> QED  BY <5>1, Zenon DEF B!vm_write_u32
      <4>2. ~ (m.reg[13] <= StackSize)
        BY <1>1, <1>3, <2>2, <3>2
      <4> HIDE DEF p
      <4> QED  BY <4>1, <4>2 DEF Keeps
    <3> QED  BY <3>1, <3>2
  <2> HIDE DEF p
  <2>4. /\ BootTyped(q) /\ Keeps(p, q, {"reg"}) /\ q.heap_ptr = p.heap_ptr
        /\ q.pc = p.pc /\ q.cycle_count = p.cycle_count /\ q.memory = p.memory
        /\ q.files = p.files /\ q.open = p.open /\ q.state = p.state
        /\ q.reg = [p.reg EXCEPT ![13] = sp % B!Word]
    <3>1. sp \in Int
      BY <2>2
    <3> QED  BY <1>3, <2>3, <3>1, PutKeeps
  <2> HIDE DEF q
  <2>5. q.reg[13] = sp
    BY <1>3, <2>2, <2>3, <2>4 DEF BootTyped, Core
  <2>6. Joined(q, sp) = Joined(p, sp)
    BY <2>4 DEF Joined
  <2>7. StackEffect(m, q, i)
    BY <1>2, <2>3, <2>4, <2>5, <2>6 DEF StackEffect, x
  <2>8. PointerEffect(m, q, i)
    BY <1>2, <1>5, <2>5 DEF PointerEffect, Pushes, sp
  <2>9. HeapEffect(m, q, i) /\ ControlEffect(m, q, i) /\ Filing(m, q)
    BY <1>2, <1>3, <2>3, <2>4 DEF HeapEffect, ControlEffect, Filing
  <2>10. DOMAIN q = DOMAIN m
    BY <2>3, <2>4 DEF Keeps
  <2> QED  BY <2>1, <2>3, <2>4, <2>7, <2>8, <2>9, <2>10 DEF Effect, n
<1> QED  BY <1>4, <1>5


LEMMA SameCalm ==
  ASSUME NEW m, BootTyped(m), NEW R
  PROVE  Calm(m, m, R)
<1>1. "HALTED" \in States \ {"FAULT"}
  BY DEF States
<1> QED  BY <1>1, EndCalm, Zenon

LEMMA PoppedPointer ==
  ASSUME NEW sp \in Nat, sp < StackSize - WordBytes
  PROVE  sp + WordBytes \in Int /\ (sp + WordBytes) % B!Word = sp + WordBytes
<1>1. WordBytes \in Nat /\ StackSize \in Nat /\ StackSize < B!Word /\ B!Word \in Nat
  BY Sizes
<1>2. sp + WordBytes \in Nat /\ sp + WordBytes < B!Word
  BY <1>1
<1> QED  BY <1>2, ModWord

(* WELL reads the word at SP and moves SP up.                               *)
LEMMA WellEffect ==
  ASSUME NEW m, BootTyped(m), NEW i, Instr(i), i.op = 22
  PROVE  Effect(m, B!op_well(m, i.o), i)
<1> DEFINE n == B!op_well(m, i.o)
           sp == m.reg[13]
           r == i.o[1] % 16
           v == B!vm_read_u32(m, sp)
<1>1. r \in 0..15 /\ B!Dst(i.o) = r /\ sp \in Nat /\ v \in Int /\ Named(i) = {r}
  <2>1. r \in 0..15 /\ B!Dst(i.o) = r /\ sp \in Nat
    BY RegistersAreNumbers DEF Instr, Octets, B!Dst
  <2>2. v \in Words
    BY <2>1, ReadIsWord
  <2> QED  BY <2>1, <2>2, Sizes DEF Words, Named, WithFirst, WithoutRegister
<1>2. ~ Pushes(m, i) /\ ~ IsSyscall(i) /\ i.op \notin {17, 33} /\ SP = 13 /\ ~ IsStore(i)
      /\ IsPop(i)
  BY DEF Pushes, IsPush, IsPop, IsSyscall, SP, IsStore
<1>3. m.pc \in Int /\ WordBytes \in Nat /\ 13 \in 0..15 /\ StackSize < MemorySize
      /\ StackSize < B!Word
      /\ StackSize \in Nat /\ MemorySize \in Nat
  BY Sizes DEF BootTyped, Core, Words
<1> HIDE DEF r, v
<1>4. CASE ~ (sp < StackSize - WordBytes)
  <2>1. n = m
    BY <1>4, Zenon DEF B!op_well
  <2>2. Calm(m, m, Named(i))
    BY SameCalm, Zenon
  <2>3. ~ Pops(m, i)
    BY <1>2, <1>4 DEF Pops
  <2> QED  BY <1>2, <2>1, <2>2, <2>3, CalmEffect
<1>5. CASE sp < StackSize - WordBytes
  <2> DEFINE p == B!Put(m, r, v)
             up == sp + WordBytes
             q == B!Put(p, 13, up)
  <2>1. n = q
    BY <1>1, <1>5, Zenon DEF B!op_well, v
  <2>2. up \in Int /\ up % B!Word = up
    <3> HIDE DEF sp
    <3> QED  BY <1>1, <1>5, PoppedPointer
  <2> HIDE DEF up, n
  <2>3. /\ BootTyped(p) /\ Keeps(m, p, {"reg"}) /\ p.heap_ptr = m.heap_ptr
        /\ p.pc = m.pc /\ p.cycle_count = m.cycle_count /\ p.memory = m.memory
        /\ p.files = m.files /\ p.open = m.open /\ p.state = m.state
    <3>1. r \in 0..15 /\ v \in Int
      BY <1>1
    <3> HIDE DEF q, sp
    <3>2. Written(m, p, r, v)
      BY <3>1, PutWrites
    <3> HIDE DEF p
    <3> QED  BY <3>2 DEF Written
  <2> HIDE DEF p
  <2>4. /\ BootTyped(q) /\ Keeps(p, q, {"reg"}) /\ q.heap_ptr = p.heap_ptr
        /\ q.pc = p.pc /\ q.cycle_count = p.cycle_count /\ q.memory = p.memory
        /\ q.files = p.files /\ q.open = p.open /\ q.state = p.state
        /\ q.reg = [p.reg EXCEPT ![13] = up % B!Word]
    BY <1>3, <2>2, <2>3, PutKeeps
  <2> HIDE DEF q
  <2>5. q.reg[13] = up
    BY <1>3, <2>2, <2>3, <2>4 DEF BootTyped, Core
  <2>6. StackEffect(m, q, i)
    BY <1>2, <2>3, <2>4 DEF StackEffect
  <2>7. PointerEffect(m, q, i)
    BY <1>2, <1>5, <2>5 DEF PointerEffect, Pops, up
  <2>8. HeapEffect(m, q, i) /\ ControlEffect(m, q, i) /\ Filing(m, q)
    BY <1>2, <1>3, <2>3, <2>4 DEF HeapEffect, ControlEffect, Filing
  <2>9. DOMAIN q = DOMAIN m
    BY <2>3, <2>4 DEF Keeps
  <2> QED  BY <2>1, <2>3, <2>4, <2>6, <2>7, <2>8, <2>9 DEF Effect, n
<1> QED  BY <1>4, <1>5

(* RETURN goes to the word at SP, if there is one.                          *)
LEMMA ReturnEffect ==
  ASSUME NEW m, BootTyped(m), NEW i, Instr(i), i.op = 1
  PROVE  Effect(m, B!op_return(m, i.o), i)
<1> DEFINE n == B!op_return(m, i.o)
           sp == m.reg[13]
           v == B!vm_read_u32(m, sp)
<1>1. sp \in Nat /\ v \in Words
  <2>1. sp \in Nat
    BY RegistersAreNumbers
  <2> QED  BY <2>1, ReadIsWord
<1>2. ~ Pushes(m, i) /\ ~ IsSyscall(i) /\ i.op \notin {17, 33} /\ SP = 13 /\ ~ IsStore(i)
      /\ IsPop(i)
  BY DEF Pushes, IsPush, IsPop, IsSyscall, SP, IsStore
<1>3. WordBytes \in Nat /\ 13 \in 0..15 /\ StackSize < B!Word /\ StackSize \in Nat
  BY Sizes
<1> HIDE DEF v
<1>4. CASE ~ (sp < StackSize - WordBytes)
  <2>1. n = B!End(m, "HALTED")
    BY <1>4, Zenon DEF B!op_return
  <2>2. Calm(m, n, Named(i))
    <3>1. "HALTED" \in States \ {"FAULT"}
      BY DEF States
    <3> QED  BY <2>1, <3>1, EndCalm, Zenon
  <2>3. ~ Pops(m, i)
    BY <1>2, <1>4 DEF Pops
  <2> QED  BY <1>2, <2>2, <2>3, CalmEffect
<1>5. CASE sp < StackSize - WordBytes
  <2> DEFINE up == sp + WordBytes
             p == B!Put(m, 13, up)
             q == [p EXCEPT !.pc = v]
  <2>1. n = q
    BY <1>1, <1>5, Zenon DEF B!op_return, v
  <2>2. up \in Int /\ up % B!Word = up
    <3> HIDE DEF sp
    <3> QED  BY <1>1, <1>5, PoppedPointer
  <2> HIDE DEF up, n
  <2>3. /\ BootTyped(p) /\ Keeps(m, p, {"reg"}) /\ p.heap_ptr = m.heap_ptr
        /\ p.pc = m.pc /\ p.cycle_count = m.cycle_count /\ p.memory = m.memory
        /\ p.files = m.files /\ p.open = m.open /\ p.state = m.state
        /\ p.reg = [m.reg EXCEPT ![13] = up % B!Word]
    BY <1>3, <2>2, PutKeeps
  <2> HIDE DEF p
  <2>4. /\ BootTyped(q) /\ Keeps(p, q, {"pc"}) /\ q.heap_ptr = p.heap_ptr /\ q.reg = p.reg
        /\ q.pc = v /\ q.cycle_count = p.cycle_count /\ q.memory = p.memory
        /\ q.files = p.files /\ q.open = p.open /\ q.state = p.state
    BY <1>1, <2>3, WithPc
  <2> HIDE DEF q
  <2>5. q.reg[13] = up
    BY <1>3, <2>2, <2>3, <2>4 DEF BootTyped, Core
  <2>6. StackEffect(m, q, i)
    BY <1>2, <2>3, <2>4 DEF StackEffect
  <2>7. PointerEffect(m, q, i)
    BY <1>2, <1>5, <2>5 DEF PointerEffect, Pops, up
  <2>8. HeapEffect(m, q, i) /\ ControlEffect(m, q, i) /\ Filing(m, q)
    BY <1>2, <1>3, <2>3, <2>4 DEF HeapEffect, ControlEffect, Filing
  <2>9. DOMAIN q = DOMAIN m
    BY <2>3, <2>4 DEF Keeps
  <2> QED  BY <2>1, <2>3, <2>4, <2>6, <2>7, <2>8, <2>9 DEF Effect, n
<1> QED  BY <1>4, <1>5

LEMMA BranchEffect ==
  ASSUME NEW m, BootTyped(m), NEW i, Instr(i), i.op = 2
  PROVE  Effect(m, B!op_branch(m, i.md, i.o), i)
<1> DEFINE n == B!op_branch(m, i.md, i.o)
           target == IF i.md # 0 THEN B!Y(m, i.o) ELSE i.o[2]
<1>1. ~ Pushes(m, i) /\ ~ Pops(m, i) /\ ~ IsSyscall(i) /\ i.op \notin {17, 33} /\ ~ IsStore(i)
  BY DEF Pushes, Pops, IsPush, IsPop, IsSyscall, IsStore
<1>2. CASE B!X(m, i.o) # 0 /\ target < MemorySize
  <2>1. n = [m EXCEPT !.pc = target]
    BY <1>2, Zenon DEF B!op_branch
  <2>2. target \in Words
    <3>1. B!Y(m, i.o) \in Int /\ B!Y(m, i.o) >= 0
      <4>1. i.o[1] \in Octets /\ i.o[2] \in Octets /\ Core(m)
        BY DEF Instr, BootTyped
      <4>2. B!Y(m, i.o) \in Words
        BY <4>1, OperandsAreWords
      <4> QED  BY <4>2, Sizes DEF Words
    <3> QED  BY <1>2, <3>1, Sizes DEF Words, Instr, Octets
  <2> HIDE DEF target, n
  <2>3. /\ BootTyped(n) /\ Keeps(m, n, {"pc"}) /\ n.heap_ptr = m.heap_ptr /\ n.reg = m.reg
        /\ n.pc = target /\ n.cycle_count = m.cycle_count /\ n.memory = m.memory
        /\ n.files = m.files /\ n.open = m.open /\ n.state = m.state
    BY <2>1, <2>2, WithPc
  <2>4. /\ HeapEffect(m, n, i) /\ ControlEffect(m, n, i) /\ Filing(m, n) /\ StackEffect(m, n, i)
        /\ PointerEffect(m, n, i)
    BY <1>1, <1>2, <2>3 DEF HeapEffect, ControlEffect, Filing, StackEffect, PointerEffect
  <2> QED  BY <2>3, <2>4 DEF Effect, Keeps, n
<1>3. CASE ~ (B!X(m, i.o) # 0 /\ target < MemorySize)
  <2>1. n = m
    BY <1>3, Zenon DEF B!op_branch
  <2>2. Calm(m, m, Named(i))
    BY SameCalm, Zenon
  <2> QED  BY <1>1, <2>1, <2>2, CalmEffect
<1> QED  BY <1>2, <1>3


LEMMA CommonEffect ==
  ASSUME NEW m, BootTyped(m), m.pc >= 4, NEW i, Instr(i), i.op \notin B!OwnOps
  PROVE  Effect(m, B!Common(i.op, m, i.o), i)
<1>1. Calm(m, B!Common(i.op, m, i.o), Named(i))
  BY CommonCalm DEF BootTyped
<1>2. ~ Pushes(m, i) /\ ~ Pops(m, i) /\ i.op # 33
  BY DEF Pushes, Pops, IsPush, IsPop, B!OwnOps
<1> QED  BY <1>1, <1>2, CalmEffect, Zenon

(* The instructions that put one thing in a register, or end.              *)
LEMMA QuietEffect ==
  ASSUME NEW m, BootTyped(m), NEW i, Instr(i),
         i.op \in {21, 41, 48, 54} \/ (i.op = 0 /\ i.o[2] % 16 # 0),
         NEW n, n = IF i.op = 0 THEN B!Put(m, B!Dst(i.o), 0)
                    ELSE IF i.op = 21 THEN B!op_sync(m, i.o)
                    ELSE IF i.op = 41 THEN B!op_bite(m, i.o)
                    ELSE IF i.op = 48 THEN B!op_contemplate(m, i.o)
                    ELSE B!op_penetrate(m, i.o)
  PROVE  Effect(m, n, i)
<1>1. ~ Pushes(m, i) /\ ~ Pops(m, i) /\ i.op # 33
  BY DEF Pushes, Pops, IsPush, IsPop
<1>2. /\ i.op \in {0, 48} => B!Dst(i.o) \in Named(i)
      /\ i.op = 54 => B!Src(i.o) \in Named(i)
      /\ B!Dst(i.o) \in 0..15 /\ B!Src(i.o) \in 0..15
  BY DEF Instr, Octets, B!Dst, B!Src, Named, WithFirst, WithoutRegister
<1>3. ASSUME NEW r \in 0..15, r \in Named(i), NEW v \in Int, n = B!Put(m, r, v)
      PROVE  Calm(m, n, Named(i))
  <2>1. Calm(m, n, {r})
    BY <1>3, PutCalm DEF BootTyped
  <2> QED  BY <1>3, <2>1 DEF Calm
<1>4. CASE i.op = 0
  <2>1. 0 \in Int
    OBVIOUS
  <2>2. n = B!Put(m, B!Dst(i.o), 0)
    BY <1>4
  <2>3. Calm(m, n, Named(i))
    BY <1>2, <1>3, <1>4, <2>1, <2>2
  <2> QED  BY <1>1, <2>3, CalmEffect, Zenon
<1>5. CASE i.op = 21
  <2>1. n = m
    BY <1>5 DEF B!op_sync
  <2>2. Calm(m, n, Named(i))
    BY <2>1, SameCalm, Zenon
  <2> QED  BY <1>1, <2>2, CalmEffect, Zenon
<1>6. CASE i.op = 41
  <2>1. n = m \/ n = B!End(m, "TRAPPED")
    BY <1>6 DEF B!op_bite
  <2>2. "TRAPPED" \in States \ {"FAULT"}
    BY DEF States
  <2>3. Calm(m, m, Named(i)) /\ Calm(m, B!End(m, "TRAPPED"), Named(i))
    BY <2>2, EndCalm, Zenon
  <2>4. Calm(m, n, Named(i))
    BY <2>1, <2>3
  <2> QED  BY <1>1, <2>4, CalmEffect, Zenon
<1>7. CASE i.op = 48
  <2>1. n = B!Put(m, B!Dst(i.o), m.cycle_count)
    BY <1>7 DEF B!op_contemplate
  <2>2. m.cycle_count \in Int
    BY DEF BootTyped, Core
  <2>3. Calm(m, n, Named(i))
    BY <1>2, <1>3, <1>7, <2>1, <2>2
  <2> QED  BY <1>1, <2>3, CalmEffect, Zenon
<1>8. CASE i.op = 54
  <2> DEFINE x == B!X(m, i.o)
  <2>0. x \in Nat
    <3>1. i.o[1] \in Octets /\ i.o[2] \in Octets /\ Core(m)
      BY DEF Instr, BootTyped
    <3>2. x \in Words
      BY <3>1, OperandsAreWords
    <3> QED  BY <3>2, Sizes DEF Words
  <2>1. CASE x < MemorySize
    <3>1. n = B!Put(m, B!Src(i.o), m.memory[x])
      BY <1>8, <2>1 DEF B!op_penetrate, B!InMemory
    <3> HIDE DEF x
    <3>2. m.memory[x] \in Int
      BY <2>0, <2>1, CellsAreOctets
    <3>3. Calm(m, n, Named(i))
      BY <1>2, <1>3, <1>8, <3>1, <3>2
    <3> QED  BY <1>1, <3>3, CalmEffect, Zenon
  <2>2. CASE ~ (x < MemorySize)
    <3>1. n = m
      BY <1>8, <2>2 DEF B!op_penetrate, B!InMemory
    <3>2. Calm(m, n, Named(i))
      BY <3>1, SameCalm, Zenon
    <3> QED  BY <1>1, <3>2, CalmEffect, Zenon
  <2> QED  BY <2>1, <2>2
<1> QED  BY <1>4, <1>5, <1>6, <1>7, <1>8

(* Every instruction of the bootstrap machine. *)
LEMMA HandlerEffect ==
  ASSUME NEW m, BootTyped(m), m.pc >= 4, NEW i, Instr(i),
         NEW n \in B!opcode_handlers(i.op, m, i.md, i.o)
  PROVE  Effect(m, n, i)
<1> DEFINE op == i.op
           o == i.o
<1>1. CASE op \notin B!OwnOps
  <2>1. n = B!Common(op, m, o)
    BY <1>1 DEF B!opcode_handlers, B!OwnOps
  <2> QED  BY <1>1, <2>1, CommonEffect
<1>2. CASE op = 0 /\ B!Src(o) = 0
  <2>1. n \in B!vm_syscall(m)
    <3>1. i.op = 0 => B!opcode_handlers(i.op, m, i.md, i.o) = B!op_recv(m, i.o)
      BY DEF B!opcode_handlers, B!OwnOps
    <3> QED  BY <1>2, <3>1, Zenon DEF B!op_recv
  <2>2. IsSyscall(i)
    BY <1>2 DEF IsSyscall, B!Src
  <2> QED  BY <2>1, <2>2, SyscallCalled, CalledEffect, Zenon
<1>3. CASE op \in {21, 41, 48, 54} \/ (op = 0 /\ B!Src(o) # 0)
  <2>1. n = IF i.op = 0 THEN B!Put(m, B!Dst(i.o), 0)
            ELSE IF i.op = 21 THEN B!op_sync(m, i.o)
            ELSE IF i.op = 41 THEN B!op_bite(m, i.o)
            ELSE IF i.op = 48 THEN B!op_contemplate(m, i.o)
            ELSE B!op_penetrate(m, i.o)
    BY <1>3 DEF B!opcode_handlers, B!op_recv, B!OwnOps
  <2>2. i.op \in {21, 41, 48, 54} \/ (i.op = 0 /\ i.o[2] % 16 # 0)
    BY <1>3 DEF B!Src
  <2> HIDE DEF op, o
  <2> QED  BY <2>1, <2>2, QuietEffect
<1>4. CASE op \in {10, 58, 47, 50}
  <2>1. /\ op = 10 => n = B!op_unlock(m, o)
        /\ op = 58 => n = B!op_lock(m, o)
        /\ op = 47 => n = B!op_abundance(m, o)
        /\ op = 50 => n = B!op_disperse(m, o)
    BY <1>4 DEF B!opcode_handlers, B!OwnOps
  <2>2. CASE op \in {10, 58}
    <3>1. n = IF i.op = 58 THEN B!op_lock(m, i.o) ELSE B!op_unlock(m, i.o)
      BY <2>1, <2>2
    <3>2. i.op = 58 \/ i.op = 10
      BY <2>2
    <3> QED  BY <3>1, <3>2, LockEffect
  <2>3. CASE op \in {47, 50}
    <3>1. n = IF i.op = 47 THEN B!op_abundance(m, i.o) ELSE B!op_disperse(m, i.o)
      BY <2>1, <2>3
    <3>2. i.op = 47 \/ i.op = 50
      BY <2>3
    <3> QED  BY <3>1, <3>2, StoreEffect
  <2> QED  BY <1>4, <2>2, <2>3
<1>5. CASE op \in {1, 2, 6, 17, 22, 33}
  <2>1. /\ op = 1 => n = B!op_return(m, o)
        /\ op = 2 => n = B!op_branch(m, i.md, o)
        /\ op = 6 => n = B!op_push_up(m, o)
        /\ op = 17 => n = B!op_alloc(m, o)
        /\ op = 22 => n = B!op_well(m, o)
        /\ op = 33 => n = B!op_nourish(m, o)
    BY <1>5 DEF B!opcode_handlers, B!OwnOps
  <2>2. op = 1 \/ op = 2 \/ op = 6 \/ op = 17 \/ op = 22 \/ op = 33
    BY <1>5
  <2> QED  BY <2>1, <2>2, ReturnEffect, BranchEffect, PushEffect, AllocEffect, WellEffect,
              NourishEffect
<1> QED  BY <1>1, <1>2, <1>3, <1>4, <1>5 DEF B!OwnOps

LEMMA CellInstr ==
  ASSUME BootTyped(boot), boot.pc + 3 < MemorySize
  PROVE  Instr(BootInstr) /\ BootInstr.o = <<BootInstr.o[1], BootInstr.o[2]>>
<1> DEFINE c0 == boot.memory[boot.pc + 0]
           c1 == boot.memory[boot.pc + 1]
           c2 == boot.memory[boot.pc + 2]
           c3 == boot.memory[boot.pc + 3]
<1>1. boot.pc \in Nat
  BY Sizes DEF BootTyped, Core, Words
<1>2. c0 \in Octets /\ c1 \in Octets /\ c2 \in Octets /\ c3 \in Octets
  BY <1>1, Sizes, CellsAreOctets
<1>3. BootInstr = [op |-> c0 \div 4, md |-> 16 * (c0 % 4) + (c1 % 16), o |-> <<c2, c3>>]
  BY DEF BootInstr, Decoded
<1> HIDE DEF c0, c1, c2, c3
<1>4. c0 \div 4 \in 0..63 /\ 16 * (c0 % 4) + (c1 % 16) \in 0..63
  BY <1>2 DEF Octets
<1> QED  BY <1>2, <1>3, <1>4 DEF Instr

(* A cycle of the bootstrap machine that fetches inside of the memory.     *)
Fetched == [boot EXCEPT !.pc = boot.pc + 4]

LEMMA ExecutedForm ==
  ASSUME BootTyped(boot), boot.pc < MemorySize, NEW n \in B!Executed
  PROVE  n \in B!opcode_handlers(BootInstr.op, Fetched, BootInstr.md, BootInstr.o)
<1>1. ~ (boot.pc >= MemorySize)
  BY Sizes DEF BootTyped, Core, Words
<1>2. n \in B!opcode_handlers(boot.memory[boot.pc + 0] \div 4, [boot EXCEPT !.pc = boot.pc + 4],
              16 * (boot.memory[boot.pc + 0] % 4) + (boot.memory[boot.pc + 1] % 16),
              <<boot.memory[boot.pc + 2], boot.memory[boot.pc + 3]>>)
  BY <1>1, Zenon DEF B!Executed
<1>3. BootInstr = [op |-> boot.memory[boot.pc + 0] \div 4,
                   md |-> 16 * (boot.memory[boot.pc + 0] % 4) + (boot.memory[boot.pc + 1] % 16),
                   o |-> <<boot.memory[boot.pc + 2], boot.memory[boot.pc + 3]>>]
  BY DEF BootInstr, Decoded
<1> QED  BY <1>2, <1>3 DEF Fetched

LEMMA ExecutedEffect ==
  ASSUME BootTyped(boot), ~ B!PastEnd, boot.pc < MemorySize, NEW n \in B!Executed
  PROVE  /\ BootTyped(Fetched) /\ Keeps(boot, Fetched, {"pc"}) /\ Fetched.pc = boot.pc + 4
         /\ boot.pc + 3 < MemorySize
         /\ Instr(BootInstr) /\ Effect(Fetched, n, BootInstr)
<1>1. boot.pc \in Nat /\ boot.pc + 4 \in Words /\ boot.pc + 3 < MemorySize
  <2>1. boot.pc \in Nat /\ MemorySize \in Nat /\ MemorySize + 4 <= B!Word /\ B!Word \in Nat
    BY Sizes DEF BootTyped, Core, Words
  <2>2. boot.pc + 3 \in Nat /\ boot.pc + 3 < B!Word
    BY <2>1
  <2>3. (boot.pc + 3) % B!Word = boot.pc + 3
    BY <2>2, ModWord
  <2>4. ~ (boot.pc + 3 >= MemorySize)
    BY <2>3, Zenon DEF B!PastEnd
  <2> QED  BY <2>1, <2>4 DEF Words
<1>2. BootTyped(Fetched) /\ Keeps(boot, Fetched, {"pc"}) /\ Fetched.pc = boot.pc + 4
  BY <1>1, WithPc DEF Fetched
<1>3. Instr(BootInstr)
  BY <1>1, CellInstr
<1>4. n \in B!opcode_handlers(BootInstr.op, Fetched, BootInstr.md, BootInstr.o)
  BY <1>1, Sizes, ExecutedForm
<1>5. Fetched.pc >= 4
  BY <1>1, <1>2
<1> QED  BY <1>1, <1>2, <1>3, <1>4, <1>5, HandlerEffect, Zenon


-----------------------------------------------------------------------------
(* The steps of the bootstrap machine, and what is remembered of them.     *)

HistTyped ==
  hist \in [apart : BOOLEAN, low : Int, words : Seq(Words), sure : BOOLEAN, moved : BOOLEAN,
            wild : BOOLEAN, filled : BOOLEAN, blocks : SUBSET SUBSET Int, wrapped : BOOLEAN]

(* hist' as it is when the bootstrap machine executes i.                   *)
Remembers(i) ==
  /\ hist'.low = IF Pushes(boot, i) /\ boot.reg[SP] - WordBytes < hist.low
                 THEN boot.reg[SP] - WordBytes ELSE hist.low
  /\ hist'.words = IF Pushes(boot, i) THEN <<boot.reg[i.o[1] % 16]>> \o hist.words
                   ELSE IF Pops(boot, i) /\ hist.words # << >> THEN Tail(hist.words)
                   ELSE hist.words
  /\ hist'.sure = (hist.sure /\ ~ Writes(boot, i))
  /\ hist'.wild = (hist.wild \/ (IsSyscall(i) /\ boot.reg[0] \in AddressCalls)
                    \/ (i.op = 1 /\ boot'.pc + 3 >= B!Word))
  /\ hist'.filled = (hist.filled \/ Cardinality(boot.files) = MaxFiles)
  /\ hist'.wrapped = (hist.wrapped \/ (IsSyscall(i) /\ boot.reg[0] = 10
                                         /\ boot.heap_ptr + boot.reg[1] >= B!Word))
  /\ hist'.blocks = IF i.op = 33 THEN {}
                    ELSE IF boot'.heap_ptr # boot.heap_ptr
                    THEN hist.blocks \cup {boot.heap_ptr..(boot'.heap_ptr - 1)} ELSE hist.blocks

(* hist' as it is when it does not.                                        *)
Recalls ==
  /\ hist'.low = hist.low /\ hist'.words = hist.words /\ hist'.sure = hist.sure
  /\ hist'.wild = hist.wild /\ hist'.filled = hist.filled /\ hist'.wrapped = hist.wrapped
  /\ hist'.blocks = hist.blocks

(* Of SP both machines are remembered together.                            *)
MovedOf(acts, i) == acts /\ SP \in Named(i)
Moves ==
  /\ hist'.moved = (hist.moved \/ MovedOf(BootActs, BootInstr) \/ MovedOf(SeedActs, SeedInstr))
  /\ hist'.apart = (hist.apart \/ PartsNow)

(* hist changes with what an instruction does, or not at all.               *)
LEMMA HistSteps ==
  ASSUME HistTyped, HistNext
  PROVE  /\ BootActs => Remembers(BootInstr)
         /\ ~ BootActs => Recalls
         /\ Moves
<1> DEFINE i == BootInstr
           base == IF BootActs THEN BootHist(i) ELSE hist
<1>1. hist' = [base EXCEPT !.apart = @ \/ PartsNow,
                          !.moved = @ \/ (SeedActs /\ SP \in Named(SeedInstr))]
  BY Zenon DEF HistNext
<1>2. IsPush(i) => ~ IsPop(i)
  BY DEF IsPush, IsPop
<1>3. B!Word = 2 ^ Bits
  BY Zenon DEF B!Word
<1> DEFINE low == IF Pushes(boot, i) /\ boot.reg[SP] - WordBytes < hist.low
                  THEN boot.reg[SP] - WordBytes ELSE hist.low
           words == IF Pushes(boot, i) THEN <<boot.reg[i.o[1] % 16]>> \o hist.words
                    ELSE IF Pops(boot, i) /\ hist.words # << >> THEN Tail(hist.words)
                    ELSE hist.words
           sure == hist.sure /\ ~ Writes(boot, i)
           moved0 == hist.moved \/ SP \in Named(i)
           wild == \/ hist.wild
                   \/ IsSyscall(i) /\ boot.reg[0] \in AddressCalls
                   \/ i.op = 1 /\ boot'.pc + 3 >= B!Word
           filled == hist.filled \/ Cardinality(boot.files) = MaxFiles
           wrapped == hist.wrapped \/ (IsSyscall(i) /\ boot.reg[0] = 10
                                         /\ boot.heap_ptr + boot.reg[1] >= B!Word)
           blocks == IF i.op = 33 THEN {}
                     ELSE IF boot'.heap_ptr # boot.heap_ptr
                     THEN hist.blocks \cup {boot.heap_ptr..(boot'.heap_ptr - 1)} ELSE hist.blocks
<1>4. BootHist(i) = [hist EXCEPT !.low = low, !.words = words, !.sure = sure, !.moved = moved0,
                                 !.wild = wild, !.filled = filled, !.wrapped = wrapped,
                                 !.blocks = blocks]
  BY <1>2, <1>3 DEF BootHist, Pushed, Popped, Granted, WritesStack, Pushes, Pops, Writes, HistTyped
<1> HIDE DEF low, words, sure, moved0, wild, filled, wrapped, blocks, i
<1>5. /\ BootHist(i).low = low /\ BootHist(i).words = words /\ BootHist(i).sure = sure
      /\ BootHist(i).moved = moved0 /\ BootHist(i).wild = wild /\ BootHist(i).filled = filled
      /\ BootHist(i).wrapped = wrapped /\ BootHist(i).blocks = blocks
      /\ BootHist(i).apart = hist.apart /\ DOMAIN BootHist(i) = DOMAIN hist
  BY <1>4 DEF HistTyped
<1>6. {"apart", "low", "words", "sure", "moved", "wild", "filled", "blocks", "wrapped"}
        \subseteq DOMAIN base
  BY <1>5 DEF HistTyped
<1>7. /\ BootActs =>
           /\ base.low = low /\ base.words = words /\ base.sure = sure /\ base.moved = moved0
           /\ base.wild = wild /\ base.filled = filled /\ base.wrapped = wrapped
           /\ base.blocks = blocks
      /\ ~ BootActs => base = hist
      /\ base.apart = hist.apart
  BY <1>5
<1> DEFINE apart == base.apart \/ PartsNow
           moved == base.moved \/ (SeedActs /\ SP \in Named(SeedInstr))
<1> HIDE DEF base, apart, moved
<1>8. hist' = [base EXCEPT !.apart = apart, !.moved = moved]
  BY <1>1, <1>6 DEF apart, moved
<1>9. /\ hist'.low = base.low /\ hist'.words = base.words /\ hist'.sure = base.sure
      /\ hist'.wild = base.wild /\ hist'.filled = base.filled /\ hist'.wrapped = base.wrapped
      /\ hist'.blocks = base.blocks
      /\ hist'.moved = moved /\ hist'.apart = apart
  BY <1>6, <1>8
<1>10. Moves
  BY <1>7, <1>9 DEF Moves, MovedOf, moved, moved0, apart, i
<1>11. ~ BootActs => Recalls
  BY <1>7, <1>9 DEF Recalls
<1>12. BootActs => Remembers(i)
  BY <1>7, <1>9, Zenon DEF Remembers, low, words, sure, wild, filled, wrapped, blocks
<1> QED  BY <1>10, <1>11, <1>12 DEF i


Phases == {"loaded", "running", "returned", "freed"}

BootOk ==
  /\ BootTyped(boot) /\ HistTyped
  /\ bootCycles \in Nat /\ bootEnergy \in Int /\ bootPhase \in Phases

(* The bootstrap machine executes an instruction.                          *)
Acts ==
  /\ BootActs /\ boot' \in B!Executed /\ Remembers(BootInstr)
  /\ bootCycles' = bootCycles + 1 /\ bootEnergy' = bootEnergy /\ bootPhase' = bootPhase
  /\ bootPhase = "running"

(* It does anything else, or nothing.                                      *)
Rests ==
  /\ BootTyped(boot') /\ boot'.reg = boot.reg /\ boot'.memory = boot.memory
  /\ boot'.heap_ptr = boot.heap_ptr /\ boot'.pc = boot.pc
  /\ \/ /\ boot'.files = boot.files /\ boot'.open = boot.open
        /\ bootPhase' = "freed" => bootPhase = "freed"
     \/ /\ boot'.files = {} /\ boot'.open = boot.open - Cardinality(boot.files)
        /\ bootPhase' = "freed"
  /\ boot'.state = "FAULT" => boot.state = "FAULT" \/ (boot.pc >= MemorySize /\ ~ B!PastEnd)
  /\ Recalls
  /\ bootCycles' \in Nat /\ bootEnergy' \in Int /\ bootPhase' \in Phases

(* A change of state, counters and files only. *)
Settles(m, n) ==
  /\ BootTyped(n) /\ n.reg = m.reg /\ n.memory = m.memory /\ n.heap_ptr = m.heap_ptr /\ n.pc = m.pc

LEMMA EndSettles ==
  ASSUME NEW m, BootTyped(m), NEW state \in States
  PROVE  LET n == [m EXCEPT !.state = state]
         IN  Settles(m, n) /\ n.files = m.files /\ n.open = m.open /\ n.state = state
<1> DEFINE n == [m EXCEPT !.state = state]
<1>1. Core(n) /\ Keeps(m, n, {"state"}) /\ n.state = state
  BY DEF BootTyped, Core, CoreFields, Keeps
<1>2. /\ n.heap_ptr = m.heap_ptr /\ n.memory = m.memory /\ n.pc = m.pc
      /\ n.files = m.files /\ n.open = m.open /\ n.reg = m.reg
  BY DEF BootTyped, Core, CoreFields
<1> HIDE DEF n
<1>3. BootTyped(n)
  BY <1>1, <1>2 DEF BootTyped, Keeps
<1> QED  BY <1>1, <1>2, <1>3 DEF n, Settles

Returned(m, c, e) == [m EXCEPT !.cycle_count = c, !.energy = e]

LEMMA RunSettles ==
  ASSUME NEW m, BootTyped(m), NEW c \in Nat, NEW e \in Int
  PROVE  LET n == Returned(m, c, e)
         IN  Settles(m, n) /\ n.files = m.files /\ n.open = m.open /\ n.state = m.state
             /\ n.cycle_count = c /\ n.energy = e
<1> DEFINE n == Returned(m, c, e)
<1>1. Core(n) /\ Keeps(m, n, {"cycle_count", "energy"}) /\ n.cycle_count = c /\ n.energy = e
  BY DEF Returned, BootTyped, Core, CoreFields, Keeps
<1>2. /\ n.heap_ptr = m.heap_ptr /\ n.memory = m.memory /\ n.pc = m.pc /\ n.state = m.state
      /\ n.files = m.files /\ n.open = m.open /\ n.reg = m.reg
  BY DEF Returned, BootTyped, Core, CoreFields
<1> HIDE DEF n
<1>3. BootTyped(n)
  BY <1>1, <1>2 DEF BootTyped, Keeps
<1> QED  BY <1>1, <1>2, <1>3 DEF n, Settles

LEMMA FreeSettles ==
  ASSUME NEW m, BootTyped(m), NEW k \in Int
  PROVE  LET n == [m EXCEPT !.open = @ - k, !.files = {}]
         IN  Settles(m, n) /\ n.files = {} /\ n.open = m.open - k /\ n.state = m.state
<1> DEFINE n == [m EXCEPT !.open = @ - k, !.files = {}]
<1>1. Core(n) /\ Keeps(m, n, {"open", "files"}) /\ n.files = {} /\ n.open = m.open - k
  BY DEF BootTyped, Core, CoreFields, Keeps
<1>2. /\ n.heap_ptr = m.heap_ptr /\ n.memory = m.memory /\ n.pc = m.pc /\ n.state = m.state
      /\ n.reg = m.reg
  BY DEF BootTyped, Core, CoreFields
<1> HIDE DEF n
<1>3. BootTyped(n)
  BY <1>1, <1>2 DEF BootTyped, Keeps
<1> QED  BY <1>1, <1>2, <1>3 DEF n, Settles

LEMMA FilesAreFinite ==
  ASSUME NEW m, BootTyped(m)
  PROVE  IsFiniteSet(m.files) /\ Cardinality(m.files) \in Nat
<1>1. IsFiniteSet(1..MaxFiles)
  BY Sizes, FS_Interval
<1>2. m.files \subseteq 1..MaxFiles
  BY DEF BootTyped
<1> QED  BY <1>1, <1>2, FS_Subset, FS_CardinalityType, Zenon

LEMMA SameSize == \A f : B!Cardinality(f) = Cardinality(f)
  BY DEF B!Cardinality, Cardinality

(* Each step of the bootstrap machine executes an instruction or rests.     *)
LEMMA CycleMoves ==
  ASSUME BootOk, B!Cycle, BootActs => Remembers(BootInstr), ~ BootActs => Recalls
  PROVE  Acts \/ Rests
<1>1. /\ boot' \in B!Executed /\ bootCycles' = bootCycles + 1 /\ bootEnergy' = bootEnergy
      /\ bootPhase' = bootPhase /\ bootPhase = "running" /\ B!InLoop /\ ~ B!PastEnd
  BY DEF B!Cycle, B!InLoop
<1>2. CASE BootActs
  BY <1>1, <1>2 DEF Acts
<1>3. CASE ~ BootActs
  <2>1. ~ (boot.pc < MemorySize)
    BY <1>1, <1>3, Zenon DEF BootActs
  <2>2. boot.pc >= MemorySize
    BY <2>1, Sizes DEF BootOk, BootTyped, Core, Words
  <2>3. boot' \in {B!End(boot, "FAULT")}
    BY <1>1, <2>2, Zenon DEF B!Executed, B!Fault
  <2>4. boot' = [boot EXCEPT !.state = "FAULT"]
    BY <2>3, Zenon DEF B!End
  <2>5. "FAULT" \in States /\ BootTyped(boot)
    BY DEF States, BootOk
  <2>6. Settles(boot, boot') /\ boot'.files = boot.files /\ boot'.open = boot.open
    BY <2>4, <2>5, EndSettles, Zenon
  <2>7. bootCycles + 1 \in Nat /\ bootEnergy \in Int /\ bootPhase \in Phases
    BY DEF BootOk
  <2>8. Recalls
    BY <1>3
  <2> QED  BY <1>1, <1>3, <2>2, <2>6, <2>7, <2>8 DEF Rests, Settles
<1> QED  BY <1>2, <1>3

LEMMA EndMoves ==
  ASSUME BootOk, B!EndOfMemory \/ B!Return \/ B!Free \/ (\E c \in Budgets : B!Run(c)), Recalls
  PROVE  Rests
<1>0. /\ BootTyped(boot) /\ bootCycles \in Nat /\ bootEnergy \in Int /\ bootPhase \in Phases
      /\ boot.cycle_count \in Nat /\ boot.energy \in Int
  BY DEF BootOk, BootTyped, Core
<1>1. CASE B!EndOfMemory
  <2>1. /\ boot' = [boot EXCEPT !.state = "HALTED"] /\ bootCycles' = bootCycles
        /\ bootEnergy' = bootEnergy /\ bootPhase' = bootPhase /\ ~ BootActs
    BY <1>1 DEF B!EndOfMemory, B!End, BootActs
  <2>2. "HALTED" \in States
    BY DEF States
  <2>3. /\ Settles(boot, boot') /\ boot'.files = boot.files /\ boot'.open = boot.open
        /\ boot'.state = "HALTED"
    BY <1>0, <2>1, <2>2, EndSettles, Zenon
  <2> QED  BY <1>0, <2>1, <2>3 DEF Rests, Settles
<1>2. CASE B!Return
  <2>1. /\ boot' = [boot EXCEPT !.cycle_count = bootCycles, !.energy = bootEnergy]
        /\ bootCycles' = bootCycles /\ bootEnergy' = bootEnergy /\ bootPhase' = "returned"
        /\ ~ BootActs
    <3>1. boot.state # "RUNNING" \/ bootLeft = 0
      BY <1>2 DEF B!Return
    <3>2. ~ B!InLoop
      BY <3>1 DEF B!InLoop
    <3> QED  BY <1>2, <3>2 DEF B!Return, BootActs
  <2>2. /\ Settles(boot, boot') /\ boot'.files = boot.files /\ boot'.open = boot.open
        /\ boot'.state = boot.state
    <3>1. BootTyped(boot) /\ bootCycles \in Nat /\ bootEnergy \in Int
      BY <1>0
    <3>2. boot' = Returned(boot, bootCycles, bootEnergy)
      BY <2>1, Zenon DEF Returned
    <3> QED  BY <3>1, <3>2, RunSettles, Zenon
  <2> QED  BY <1>0, <2>1, <2>2 DEF Rests, Settles, Phases
<1>3. CASE B!Free
  <2> DEFINE k == Cardinality(boot.files)
  <2>0. B!Cardinality(boot.files) = k
    BY SameSize
  <2>1. /\ boot' = [boot EXCEPT !.open = @ - k, !.files = {}]
        /\ bootCycles' = bootCycles /\ bootEnergy' = bootEnergy /\ bootPhase' = "freed"
        /\ ~ BootActs
    BY <1>3, <2>0 DEF B!Free, BootActs, B!InLoop
  <2>2. k \in Int
    BY <1>0, FilesAreFinite
  <2> HIDE DEF k
  <2>3. /\ Settles(boot, boot') /\ boot'.files = {} /\ boot'.open = boot.open - k
        /\ boot'.state = boot.state
    BY <1>0, <2>1, <2>2, FreeSettles, Zenon
  <2> QED  BY <1>0, <2>1, <2>3 DEF Rests, Settles, Phases, k
<1>4. CASE \E c \in Budgets : B!Run(c)
  <2>1. /\ boot' = [boot EXCEPT !.state = "RUNNING"]
        /\ bootCycles' = boot.cycle_count /\ bootEnergy' = boot.energy /\ bootPhase' = "running"
        /\ ~ BootActs
    BY <1>4 DEF B!Run, BootActs, B!InLoop
  <2>2. "RUNNING" \in States
    BY DEF States
  <2>3. /\ Settles(boot, boot') /\ boot'.files = boot.files /\ boot'.open = boot.open
        /\ boot'.state = "RUNNING"
    BY <1>0, <2>1, <2>2, EndSettles, Zenon
  <2> QED  BY <1>0, <2>1, <2>3 DEF Rests, Settles, Phases
<1> QED  BY <1>1, <1>2, <1>3, <1>4

LEMMA IdleMoves ==
  ASSUME BootOk, UNCHANGED bootVars, Recalls
  PROVE  Rests
<1>1. /\ boot' = boot /\ bootCycles' = bootCycles /\ bootEnergy' = bootEnergy
      /\ bootPhase' = bootPhase
  BY DEF bootVars
<1> QED  BY <1>1 DEF Rests, BootOk

(* What is remembered stays what it is said to be.                          *)
LEMMA HistStaysTyped ==
  ASSUME HistTyped, HistNext, BootTyped(boot), BootTyped(boot'), BootActs => Instr(BootInstr)
  PROVE  HistTyped'
<1> DEFINE i == BootInstr
           base == IF BootActs THEN BootHist(i) ELSE hist
           H == [apart : BOOLEAN, low : Int, words : Seq(Words), sure : BOOLEAN, moved : BOOLEAN,
                 wild : BOOLEAN, filled : BOOLEAN, blocks : SUBSET SUBSET Int, wrapped : BOOLEAN]
<1>1. hist' = [base EXCEPT !.apart = @ \/ PartsNow,
                          !.moved = @ \/ (SeedActs /\ SP \in Named(SeedInstr))]
  BY Zenon DEF HistNext
<1> DEFINE low == IF Pushed(i) /\ boot.reg[SP] - WordBytes < hist.low
                  THEN boot.reg[SP] - WordBytes ELSE hist.low
           words == CASE Pushed(i) -> <<boot.reg[i.o[1] % 16]>> \o hist.words
                      [] Popped(i) -> IF hist.words = << >> THEN hist.words ELSE Tail(hist.words)
                      [] OTHER     -> hist.words
           sure == hist.sure /\ ~ WritesStack(i)
           moved0 == hist.moved \/ SP \in Named(i)
           wild == \/ hist.wild
                   \/ IsSyscall(i) /\ boot.reg[0] \in AddressCalls
                   \/ i.op = 1 /\ boot'.pc + 3 >= 2 ^ Bits
           filled == hist.filled \/ Cardinality(boot.files) = MaxFiles
           wrapped == hist.wrapped \/ (IsSyscall(i) /\ boot.reg[0] = 10
                                         /\ boot.heap_ptr + boot.reg[1] >= 2 ^ Bits)
           blocks == IF i.op = 33 THEN {}
                     ELSE IF Granted THEN hist.blocks \cup {boot.heap_ptr..(boot'.heap_ptr - 1)}
                     ELSE hist.blocks
<1>2. BootHist(i) = [hist EXCEPT !.low = low, !.words = words, !.sure = sure, !.moved = moved0,
                                 !.wild = wild, !.filled = filled, !.wrapped = wrapped,
                                 !.blocks = blocks]
  BY Zenon DEF BootHist
<1>3. /\ hist.low \in Int /\ hist.words \in Seq(Words) /\ hist.blocks \in SUBSET SUBSET Int
      /\ {hist.sure, hist.moved, hist.wild, hist.filled, hist.wrapped} \subseteq BOOLEAN
  BY DEF HistTyped
<1>4. /\ SP \in 0..15 /\ boot.reg[SP] \in Int /\ boot.heap_ptr \in Int /\ boot'.heap_ptr \in Int
      /\ WordBytes \in Int
  BY Sizes DEF SP, BootTyped, Core, Words
<1>5. low \in Int /\ blocks \in SUBSET SUBSET Int
  <2>1. boot.heap_ptr..(boot'.heap_ptr - 1) \in SUBSET Int
    BY <1>4
  <2>2. boot.reg[SP] - WordBytes \in Int
    BY <1>4
  <2> QED  BY <1>3, <2>1, <2>2
<1>6. {sure, moved0, wild, filled, wrapped} \subseteq BOOLEAN
  BY <1>3
<1>7. ASSUME BootActs
      PROVE  words \in Seq(Words)
  <2>1. i.o[1] % 16 \in 0..15
    BY <1>7 DEF Instr, Octets
  <2> DEFINE w == boot.reg[i.o[1] % 16]
  <2>2. w \in Words
    BY <2>1 DEF BootTyped, Core
  <2>3. words = IF Pushed(i) THEN <<w>> \o hist.words
                ELSE IF Popped(i) THEN (IF hist.words = << >> THEN hist.words ELSE Tail(hist.words))
                ELSE hist.words
    <3>1. IsPush(i) => ~ IsPop(i)
      BY DEF IsPush, IsPop
    <3>2. Pushed(i) => ~ Popped(i)
      BY <3>1, Zenon DEF Pushed, Popped
    <3> QED  BY <3>2
  <2> HIDE DEF w, words, i
  <2>4. <<w>> \o hist.words \in Seq(Words)
    BY <1>3, <2>2
  <2>5. hist.words # << >> => Tail(hist.words) \in Seq(Words)
    BY <1>3
  <2> QED  BY <1>3, <2>3, <2>4, <2>5
<1> HIDE DEF low, words, sure, moved0, wild, filled, wrapped, blocks, i
<1>8. hist \in H
  BY DEF HistTyped
<1>9. base \in H
  <2>1. CASE BootActs
    <3>1. base = [hist EXCEPT !.low = low, !.words = words, !.sure = sure, !.moved = moved0,
                              !.wild = wild, !.filled = filled, !.wrapped = wrapped,
                              !.blocks = blocks]
      BY <1>2, <2>1
    <3>2. sure \in BOOLEAN /\ moved0 \in BOOLEAN /\ wild \in BOOLEAN /\ filled \in BOOLEAN
          /\ wrapped \in BOOLEAN
      BY <1>6
    <3>3. words \in Seq(Words) /\ low \in Int /\ blocks \in SUBSET SUBSET Int
      BY <1>5, <1>7, <2>1
    <3>4. [hist EXCEPT !.low = low, !.words = words, !.sure = sure, !.moved = moved0,
                       !.wild = wild, !.filled = filled, !.wrapped = wrapped,
                       !.blocks = blocks] \in H
      BY <1>8, <3>2, <3>3
    <3> HIDE DEF base, H
    <3> QED  BY <3>1, <3>4
  <2> QED  BY <1>8, <2>1
<1> DEFINE apart == base.apart \/ PartsNow
           moved == base.moved \/ (SeedActs /\ SP \in Named(SeedInstr))
<1>10. apart \in BOOLEAN /\ moved \in BOOLEAN
  BY <1>9
<1> HIDE DEF base
<1>11. hist' = [base EXCEPT !.apart = apart, !.moved = moved]
  BY <1>1, <1>9
<1> HIDE DEF apart, moved
<1>12. hist' \in H
  BY <1>9, <1>10, <1>11
<1> QED  BY <1>12 DEF HistTyped, Words

LEMMA ActsTyped ==
  ASSUME BootTyped(boot), BootActs, boot' \in B!Executed
  PROVE  BootTyped(boot') /\ Instr(BootInstr)
<1>1. ~ B!PastEnd /\ boot.pc < MemorySize
  BY DEF BootActs
<1>2. Instr(BootInstr) /\ Effect(Fetched, boot', BootInstr)
  BY <1>1, ExecutedEffect
<1> QED  BY <1>2 DEF Effect

LEMMA BootMoves ==
  ASSUME BootOk, [Next]_vars
  PROVE  (Acts \/ Rests) /\ BootOk'
<1>1. ASSUME Acts \/ Rests
      PROVE  BootTyped(boot') /\ bootCycles' \in Nat /\ bootEnergy' \in Int /\ bootPhase' \in Phases
  <2>1. CASE Acts
    <3>1. BootTyped(boot') /\ bootCycles' = bootCycles + 1 /\ bootEnergy' = bootEnergy
          /\ bootPhase' = bootPhase
      BY <2>1, ActsTyped DEF Acts, BootOk
    <3> QED  BY <3>1 DEF BootOk
  <2> QED  BY <1>1, <2>1 DEF Rests
<1>2. ASSUME HistNext, Acts \/ (Rests /\ ~ BootActs)
      PROVE  BootOk'
  <2>1. BootTyped(boot') /\ bootCycles' \in Nat /\ bootEnergy' \in Int /\ bootPhase' \in Phases
    BY <1>1, <1>2
  <2>2. BootActs => Instr(BootInstr)
    BY <1>2, ActsTyped DEF Acts, Rests, BootOk
  <2>3. HistTyped'
    BY <1>2, <2>1, <2>2, HistStaysTyped DEF BootOk
  <2> QED  BY <2>1, <2>3 DEF BootOk, BootTyped, Core, Words, B!Word, B!Addresses
<1>3. ASSUME hist' = hist, Acts \/ Rests
      PROVE  BootOk'
  <2>1. BootTyped(boot') /\ bootCycles' \in Nat /\ bootEnergy' \in Int /\ bootPhase' \in Phases
    BY <1>1, <1>3
  <2>2. HistTyped'
    BY <1>3 DEF BootOk, HistTyped, Words
  <2> QED  BY <2>1, <2>2 DEF BootOk, BootTyped, Core, Words, B!Word, B!Addresses
<1>4. hist' = hist => Recalls
  BY DEF Recalls
<1>5. ASSUME HistNext, BootOk
      PROVE  (BootActs => Remembers(BootInstr)) /\ (~ BootActs => Recalls)
  BY <1>5, HistSteps DEF BootOk
<1>6. CASE \E c \in Budgets : Start(c)
  <2>1. hist' = hist /\ \E c \in Budgets : B!Run(c)
    BY <1>6 DEF Start
  <2>2. Rests
    BY <1>4, <2>1, EndMoves
  <2> QED  BY <1>3, <2>1, <2>2
<1>7. ASSUME B!Step, HistNext
      PROVE  (Acts \/ Rests) /\ BootOk'
  <2>1. CASE B!Cycle
    <3>1. Acts \/ Rests
      BY <1>5, <1>7, <2>1, CycleMoves
    <3>2. BootActs => Acts
      BY <1>5, <1>7, <2>1 DEF Acts, B!Cycle, B!InLoop
    <3> QED  BY <1>2, <1>7, <3>1, <3>2
  <2>2. CASE B!EndOfMemory \/ B!Return \/ B!Free
    <3>1. ~ BootActs
      BY <2>2 DEF B!EndOfMemory, B!Return, B!Free, BootActs, B!InLoop
    <3> QED  BY <1>2, <1>5, <1>7, <2>2, <3>1, EndMoves
  <2> QED  BY <1>7, <2>1, <2>2 DEF B!Step
<1>8. CASE Together \/ BootAlone
  BY <1>7, <1>8 DEF Together, BootAlone
<1>9. CASE SeedAlone
  <2>1. HistNext /\ UNCHANGED bootVars /\ ~ B!Active
    BY <1>9 DEF SeedAlone
  <2>2. ~ BootActs
    BY <2>1 DEF B!Active, BootActs, B!InLoop
  <2> QED  BY <1>2, <1>5, <2>1, <2>2, IdleMoves
<1>10. CASE UNCHANGED vars
  <2>1. hist' = hist /\ UNCHANGED bootVars
    BY <1>10 DEF vars
  <2> QED  BY <1>3, <1>4, <2>1, IdleMoves
<1> QED  BY <1>6, <1>8, <1>9, <1>10 DEF Next

(* The loader leaves a machine of its type.                                 *)
LEMMA LoadedTyped ==
  ASSUME NEW p \in Programs
  PROVE  LET n == B!Loaded(p)
         IN  /\ BootTyped(n) /\ n.heap_ptr = StackSize /\ n.files = {} /\ n.open = 0
             /\ n.pc = 0 /\ n.state = "INIT" /\ n.reg[SP] = StackSize - 1
<1> DEFINE cells == [a \in B!Addresses |-> IF a < Len(p) /\ a < StackSize THEN p[a + 1] ELSE 0]
           zeros == [a \in B!Addresses |-> 0]
           regs  == [r \in 0..15 |-> IF r \in {12, 13} THEN StackSize - 1 ELSE 0]
           v == [reg |-> regs, memory |-> zeros,
                 heap_ptr |-> StackSize, pc |-> 0, state |-> "INIT",
                 zero |-> FALSE, negative |-> FALSE, overflow |-> FALSE,
                 files |-> {}, open |-> 0,
                 threads |-> 1, futures |-> 0, cycle_count |-> 0, energy |-> 0, out |-> << >>]
<1>1. cells \in [B!Addresses -> Octets]
  <2>1. p \in Seq(Octets)
    BY ProgramsAssumption DEF Octets
  <2>2. ASSUME NEW a \in B!Addresses, a < Len(p)
        PROVE  p[a + 1] \in Octets
    <3>1. a + 1 \in 1..Len(p)
      BY <2>1, <2>2, Sizes DEF B!Addresses
    <3> QED  BY <2>1, <3>1
  <2>3. 0 \in Octets
    BY DEF Octets
  <2> QED  BY <2>2, <2>3
<1>2. regs \in [0..15 -> Words] /\ regs[13] = StackSize - 1 /\ 0 \in Words
  <2>1. StackSize - 1 \in Words /\ 0 \in Words
    BY Sizes DEF Words
  <2> QED  BY <2>1
<1>3. v = B!vm_init /\ B!Loaded(p) = [B!vm_init EXCEPT !.memory = cells]
  BY Zenon DEF B!vm_init, B!Loaded
<1>4. StackSize \in 0..(StackSize + HeapSize - 1) /\ zeros \in [B!Addresses -> Octets]
  BY Sizes DEF Octets
<1> HIDE DEF cells, regs, zeros
<1>5. /\ v = [f \in DOMAIN v |-> v[f]] /\ CoreFields \subseteq DOMAIN v
      /\ {"memory", "heap_ptr", "files", "open"} \subseteq DOMAIN v
  BY DEF CoreFields
<1>6. /\ v.reg = regs /\ v.pc = 0 /\ v.state = "INIT" /\ v.memory = zeros
      /\ v.heap_ptr = StackSize /\ v.files = {} /\ v.open = 0
      /\ v.threads = 1 /\ v.futures = 0 /\ v.cycle_count = 0 /\ v.energy = 0
  OBVIOUS
<1>7. v.zero \in BOOLEAN /\ v.negative \in BOOLEAN /\ v.overflow \in BOOLEAN
  OBVIOUS
<1> HIDE DEF v
<1>8. "INIT" \in States /\ 1 \in Nat /\ 0 \in Nat /\ 0 \in Int
  BY DEF States
<1>9. Core(v)
  BY <1>2, <1>5, <1>6, <1>7, <1>8, Zenon DEF Core
<1>10. BootTyped(v)
  BY <1>4, <1>5, <1>6, <1>8, <1>9 DEF BootTyped
<1> QED  BY <1>1, <1>2, <1>3, <1>6, <1>10, WithMemory DEF SP, Keeps, BootTyped, CoreFields, Core

LEMMA BootBegins == Init => BootOk
<1> SUFFICES ASSUME Init PROVE BootOk
  OBVIOUS
<1>1. /\ program \in Programs /\ boot = B!Loaded(program) /\ bootCycles = 0 /\ bootEnergy = 0
      /\ bootPhase = "loaded"
  BY DEF Init, S!Init, B!Begin
<1>2. BootTyped(boot)
  BY <1>1, LoadedTyped
<1>3. HistTyped
  <2>1. StackSize - 1 \in Int /\ << >> \in Seq(Words) /\ {} \in SUBSET SUBSET Int
        /\ (Len(program) > StackSize) \in BOOLEAN
    BY Sizes
  <2> QED  BY <2>1 DEF Init, HistInit, HistTyped
<1> QED  BY <1>1, <1>2, <1>3 DEF BootOk, Phases

(* While a slot is free every open FILE has one.                            *)
LEMMA FilesCounted ==
  ASSUME NEW m, BootTyped(m), NEW n, Filing(m, n), m.open = Cardinality(m.files),
         Cardinality(m.files) # MaxFiles
  PROVE  n.open = Cardinality(n.files)
<1>1. IsFiniteSet(m.files) /\ Cardinality(m.files) \in Nat
  BY FilesAreFinite
<1>2. B!FreeSlots(m) # {}
  <2>1. ASSUME B!FreeSlots(m) = {}
        PROVE  m.files = 1..MaxFiles
    BY <2>1 DEF B!FreeSlots, BootTyped
  <2>2. Cardinality(1..MaxFiles) = MaxFiles
    BY Sizes, FS_Interval
  <2> QED  BY <2>1, <2>2
<1>3. ASSUME NEW slot, slot \notin m.files
      PROVE  Cardinality(m.files \cup {slot}) = Cardinality(m.files) + 1
  BY <1>1, <1>3, FS_AddElement
<1>4. ASSUME NEW fd \in m.files
      PROVE  Cardinality(m.files \ {fd}) = Cardinality(m.files) - 1
  BY <1>1, FS_RemoveElement
<1> QED  BY <1>2, <1>3, <1>4 DEF Filing

(* What the table lists is open, whether or not a slot is free.             *)
LEMMA ListedIsOpen ==
  ASSUME NEW m, BootTyped(m), NEW n, Filing(m, n), m.open >= Cardinality(m.files)
  PROVE  n.open >= Cardinality(n.files)
<1> DEFINE size == Cardinality(m.files)
<1>1. IsFiniteSet(m.files) /\ Cardinality(m.files) \in Nat /\ m.open \in Int
  BY FilesAreFinite DEF BootTyped
<1>2. ASSUME NEW slot, slot \notin m.files
      PROVE  Cardinality(m.files \cup {slot}) = Cardinality(m.files) + 1
  BY <1>1, <1>2, FS_AddElement
<1>3. ASSUME NEW fd \in m.files
      PROVE  Cardinality(m.files \ {fd}) = Cardinality(m.files) - 1
  BY <1>1, FS_RemoveElement
<1>4. CASE n.files = m.files /\ (n.open = m.open \/ n.open = m.open + 1)
  BY <1>1, <1>4
<1>5. ASSUME NEW slot, slot \notin m.files, n.files = m.files \cup {slot}, n.open = m.open + 1
      PROVE  n.open >= Cardinality(n.files)
  <2>1. Cardinality(n.files) = size + 1
    BY <1>2, <1>5
  <2> HIDE DEF size
  <2> QED  BY <1>1, <1>5, <2>1 DEF size
<1>6. ASSUME NEW fd \in m.files, n.files = m.files \ {fd}, n.open = m.open - 1
      PROVE  n.open >= Cardinality(n.files)
  <2>1. Cardinality(n.files) = size - 1
    BY <1>3, <1>6
  <2> HIDE DEF size
  <2> QED  BY <1>1, <1>6, <2>1 DEF size
<1> QED  BY <1>4, <1>5, <1>6 DEF Filing

FilesInv == BootOk /\ NoFileLost

(* A step keeps what the table lists open. *)
LEMMA ListedStaysOpen ==
  ASSUME FilesInv, Acts \/ Rests
  PROVE  boot'.open >= Cardinality(boot'.files)
<1>1. BootTyped(boot) /\ boot.open >= Cardinality(boot.files)
  BY DEF FilesInv, BootOk, NoFileLost
<1>2. CASE Acts
  <2>1. BootTyped(Fetched) /\ Filing(Fetched, boot') /\ Keeps(boot, Fetched, {"pc"})
    <3>1. BootActs /\ boot' \in B!Executed
      BY <1>2 DEF Acts
    <3>2. ~ B!PastEnd /\ boot.pc < MemorySize
      BY <3>1 DEF BootActs
    <3> QED  BY <1>1, <3>1, <3>2, ExecutedEffect DEF Effect
  <2>2. Fetched.files = boot.files /\ Fetched.open = boot.open
    BY <1>1, <2>1 DEF Keeps, BootTyped
  <2> QED  BY <1>1, <2>1, <2>2, ListedIsOpen
<1>3. CASE Rests
  <2>1. Cardinality({}) = 0 /\ boot.open \in Int /\ Cardinality(boot.files) \in Nat
    BY <1>1, FS_EmptySet, FilesAreFinite DEF BootTyped
  <2>2. \/ boot'.files = boot.files /\ boot'.open = boot.open
        \/ boot'.files = {} /\ boot'.open = boot.open - Cardinality(boot.files)
    BY <1>3 DEF Rests
  <2> QED  BY <1>1, <2>1, <2>2
<1> QED  BY <1>2, <1>3

(* The table of files: what it lists is open, and as long as it was never     *)
(* full it lists every FILE that is (SYSCALL_OPEN, SYSCALL_CLOSE and the      *)
(* others), and vm_free leaves none open.                                     *)
THEOREM FilesAreKept == Spec => []NoFileLost
<1>1. Init => FilesInv
  <2> SUFFICES ASSUME Init PROVE FilesInv
    OBVIOUS
  <2>1. boot = B!Loaded(program) /\ program \in Programs /\ bootPhase = "loaded"
    BY DEF Init, S!Init, B!Begin
  <2>2. boot.files = {} /\ boot.open = 0
    BY <2>1, LoadedTyped
  <2>3. Cardinality({}) = 0
    BY FS_EmptySet
  <2>4. 0 >= 0
    OBVIOUS
  <2> QED  BY <2>1, <2>2, <2>3, <2>4, BootBegins DEF FilesInv, NoFileLost
<1>2. FilesInv /\ [Next]_vars => FilesInv'
  <2> SUFFICES ASSUME FilesInv, [Next]_vars, ~ hist'.filled
               PROVE  /\ BootOk'
                      /\ boot'.open = Cardinality(boot'.files)
                      /\ bootPhase' = "freed" => boot'.open = 0
    BY BootMoves, ListedStaysOpen DEF FilesInv, NoFileLost
  <2>1. (Acts \/ Rests) /\ BootOk'
    BY BootMoves DEF FilesInv
  <2>2. BootTyped(boot)
    BY DEF FilesInv, BootOk
  <2>3. CASE Acts
    <3>1. /\ ~ hist.filled /\ Cardinality(boot.files) # MaxFiles
          /\ BootActs /\ boot' \in B!Executed /\ bootPhase' # "freed"
      BY <2>3 DEF Acts, Remembers
    <3>2. ~ B!PastEnd /\ boot.pc < MemorySize
      BY <3>1 DEF BootActs
    <3>3. /\ BootTyped(Fetched) /\ Keeps(boot, Fetched, {"pc"})
          /\ Effect(Fetched, boot', BootInstr)
      BY <2>2, <3>1, <3>2, ExecutedEffect
    <3>4. Fetched.files = boot.files /\ Fetched.open = boot.open
      BY <2>2, <3>3 DEF Keeps, BootTyped
    <3>5. boot'.open = Cardinality(boot'.files)
      <4>1. Filing(Fetched, boot')
        BY <3>3 DEF Effect
      <4>2. boot.open = Cardinality(boot.files)
        BY <3>1 DEF FilesInv, NoFileLost
      <4> QED  BY <3>1, <3>3, <3>4, <4>1, <4>2, FilesCounted
    <3> QED  BY <2>1, <3>1, <3>5
  <2>4. CASE Rests
    <3>1. /\ ~ hist.filled /\ boot.open = Cardinality(boot.files)
          /\ bootPhase = "freed" => boot.open = 0
      BY <2>4 DEF Rests, Recalls, FilesInv, NoFileLost
    <3>2. Cardinality({}) = 0 /\ Cardinality(boot.files) \in Int
      BY <2>2, FS_EmptySet, FilesAreFinite
    <3> QED  BY <2>1, <2>4, <3>1, <3>2 DEF Rests
  <2> QED  BY <2>1, <2>3, <2>4
<1>3. FilesInv => NoFileLost
  BY DEF FilesInv
<1> QED  BY <1>1, <1>2, <1>3, PTL DEF Spec

-----------------------------------------------------------------------------
(* What an executed instruction does, from the machine before the fetch.     *)
LEMMA ActsEffect ==
  ASSUME BootOk, Acts
  PROVE  /\ BootTyped(boot) /\ BootTyped(boot') /\ Instr(BootInstr)
         /\ BootTyped(Fetched) /\ Effect(Fetched, boot', BootInstr) /\ Remembers(BootInstr)
         /\ Fetched.reg = boot.reg /\ Fetched.memory = boot.memory
         /\ Fetched.heap_ptr = boot.heap_ptr /\ Fetched.state = boot.state
         /\ Fetched.pc = boot.pc + 4 /\ boot.pc + 3 < MemorySize
<1>1. BootTyped(boot) /\ ~ B!PastEnd /\ boot.pc < MemorySize /\ boot' \in B!Executed
  BY DEF Acts, BootOk, BootActs
<1>2. /\ BootTyped(Fetched) /\ Keeps(boot, Fetched, {"pc"}) /\ Fetched.pc = boot.pc + 4
      /\ boot.pc + 3 < MemorySize /\ Instr(BootInstr) /\ Effect(Fetched, boot', BootInstr)
  BY <1>1, ExecutedEffect
<1>3. /\ Fetched.reg = boot.reg /\ Fetched.memory = boot.memory
      /\ Fetched.heap_ptr = boot.heap_ptr /\ Fetched.state = boot.state
  BY <1>1, <1>2 DEF Keeps, BootTyped, Core, CoreFields
<1> QED  BY <1>1, <1>2, <1>3 DEF Acts, Effect

BlocksBelow(blocks, top) == \A b \in blocks : b \subseteq StackSize..(top - 1)
BlocksDisjoint(blocks)   == \A b, c \in blocks : b = c \/ b \cap c = {}

BlocksInv ==
  /\ BootOk
  /\ ~ hist.wrapped => /\ boot.heap_ptr >= StackSize
                       /\ BlocksBelow(hist.blocks, boot.heap_ptr) /\ BlocksDisjoint(hist.blocks)

(* Granting what lies between two tops. *)
LEMMA OneMoreBlock ==
  ASSUME NEW blocks, NEW top \in Int, NEW more \in Int, top >= StackSize, more >= top,
         BlocksBelow(blocks, top), BlocksDisjoint(blocks)
  PROVE  LET all == blocks \cup {top..(more - 1)}
         IN  BlocksBelow(all, more) /\ BlocksDisjoint(all)
<1>0. StackSize \in Int
  BY Sizes
<1> DEFINE new == top..(more - 1)
           all == blocks \cup {new}
<1>1. new \subseteq StackSize..(more - 1)
  BY <1>0
<1>2. ASSUME NEW b \in blocks
      PROVE  b \subseteq StackSize..(more - 1) /\ b \cap new = {} /\ new \cap b = {}
  <2>1. b \subseteq StackSize..(top - 1)
    BY DEF BlocksBelow
  <2> QED  BY <1>0, <2>1
<1> HIDE DEF new
<1> QED  BY <1>1, <1>2 DEF BlocksBelow, BlocksDisjoint, new

(* ALLOC and SYSCALL_MALLOC grant blocks of the heap that do not overlap      *)
(* (op_alloc, vm_syscall), until heap_ptr wraps around.                       *)
THEOREM BlocksStayApart == Spec => []BlocksApart
<1>1. Init => BlocksInv
  <2> SUFFICES ASSUME Init PROVE BlocksInv
    OBVIOUS
  <2>1. boot = B!Loaded(program) /\ program \in Programs /\ hist.blocks = {}
    BY DEF Init, S!Init, B!Begin, HistInit
  <2>2. boot.heap_ptr = StackSize
    BY <2>1, LoadedTyped
  <2> QED  BY <2>1, <2>2, BootBegins, Sizes DEF BlocksInv, BlocksBelow, BlocksDisjoint
<1>2. BlocksInv /\ [Next]_vars => BlocksInv'
  <2> SUFFICES ASSUME BlocksInv, [Next]_vars, ~ hist'.wrapped
               PROVE  /\ BootOk' /\ boot'.heap_ptr >= StackSize
                      /\ BlocksBelow(hist'.blocks, boot'.heap_ptr)
                      /\ BlocksDisjoint(hist'.blocks)
    BY BootMoves DEF BlocksInv, BlocksBelow, BlocksDisjoint
  <2>1. BootOk /\ (Acts \/ Rests) /\ BootOk'
    BY BootMoves DEF BlocksInv
  <2>2. CASE Acts
    <3> DEFINE i == BootInstr
    <3>1. /\ BootTyped(boot) /\ BootTyped(boot') /\ HeapEffect(Fetched, boot', i) /\ Remembers(i)
          /\ Fetched.reg = boot.reg /\ Fetched.heap_ptr = boot.heap_ptr
      BY <2>1, <2>2, ActsEffect DEF Effect
    <3>2. /\ ~ hist.wrapped
          /\ ~ (IsSyscall(i) /\ boot.reg[0] = 10 /\ boot.heap_ptr + boot.reg[1] >= B!Word)
      BY <3>1 DEF Remembers
    <3>3. /\ boot.heap_ptr >= StackSize
          /\ BlocksBelow(hist.blocks, boot.heap_ptr) /\ BlocksDisjoint(hist.blocks)
      BY <3>2 DEF BlocksInv
    <3>4. /\ boot.heap_ptr \in Int /\ boot'.heap_ptr \in Int /\ boot.reg[1] \in Int
          /\ StackSize \in Int /\ B!Word \in Int
      BY <3>1, Sizes, RegistersAreNumbers DEF BootTyped
    <3> HIDE DEF i
    <3>5. CASE i.op = 33
      <4>1. hist'.blocks = {} /\ boot'.heap_ptr = StackSize
        BY <3>1, <3>5 DEF Remembers, HeapEffect
      <4> QED  BY <2>1, <3>4, <4>1 DEF BlocksBelow, BlocksDisjoint
    <3>6. CASE i.op # 33 /\ boot'.heap_ptr = boot.heap_ptr
      <4>1. hist'.blocks = hist.blocks
        BY <3>1, <3>6 DEF Remembers
      <4> QED  BY <2>1, <3>3, <3>6, <4>1
    <3>7. CASE i.op # 33 /\ boot'.heap_ptr # boot.heap_ptr
      <4>1. hist'.blocks = hist.blocks \cup {boot.heap_ptr..(boot'.heap_ptr - 1)}
        BY <3>1, <3>7 DEF Remembers
      <4>2. boot'.heap_ptr >= boot.heap_ptr
        BY <3>1, <3>2, <3>4, <3>7 DEF HeapEffect
      <4>3. boot'.heap_ptr >= StackSize
        BY <3>3, <3>4, <4>2
      <4>4. /\ BlocksBelow(hist.blocks \cup {boot.heap_ptr..(boot'.heap_ptr - 1)}, boot'.heap_ptr)
            /\ BlocksDisjoint(hist.blocks \cup {boot.heap_ptr..(boot'.heap_ptr - 1)})
        BY <3>3, <3>4, <4>2, OneMoreBlock, Zenon
      <4> QED  BY <2>1, <4>1, <4>3, <4>4, Zenon
    <3> QED  BY <3>5, <3>6, <3>7
  <2>3. CASE Rests
    <3>1. ~ hist.wrapped /\ hist'.blocks = hist.blocks /\ boot'.heap_ptr = boot.heap_ptr
      BY <2>3 DEF Rests, Recalls
    <3> QED  BY <2>1, <3>1 DEF BlocksInv
  <2> QED  BY <2>1, <2>2, <2>3
<1>3. BlocksInv => BlocksApart
  <2> SUFFICES ASSUME BlocksInv, ~ hist.wrapped
               PROVE  /\ \A b \in hist.blocks : b \subseteq StackSize..(StackSize + HeapSize - 1)
                      /\ \A b, c \in hist.blocks : b = c \/ b \cap c = {}
    BY DEF BlocksApart
  <2>1. boot.heap_ptr \in Int /\ boot.heap_ptr <= StackSize + HeapSize - 1
        /\ StackSize \in Int /\ HeapSize \in Int
    BY Sizes DEF BlocksInv, BootOk, BootTyped
  <2>2. BlocksBelow(hist.blocks, boot.heap_ptr) /\ BlocksDisjoint(hist.blocks)
    BY DEF BlocksInv
  <2>3. StackSize..(boot.heap_ptr - 1) \subseteq StackSize..(StackSize + HeapSize - 1)
    BY <2>1
  <2> QED  BY <2>2, <2>3 DEF BlocksBelow, BlocksDisjoint
<1> QED  BY <1>1, <1>2, <1>3, PTL DEF Spec

-----------------------------------------------------------------------------
(* Words of w bytes on a stack, the k-th from sp on of L.                     *)
LEMMA Offsets ==
  ASSUME NEW w \in 1..4, NEW L \in Nat, NEW k \in 1..L, NEW sp \in Nat, NEW size \in Nat,
         L * w = size - 1 - sp
  PROVE  LET a == sp + (k - 1) * w
         IN  a \in Nat /\ a >= sp /\ a + w <= size - 1
<1>1. CASE w = 1
  BY <1>1
<1>2. CASE w = 2
  BY <1>2
<1>3. CASE w = 3
  BY <1>3
<1>4. CASE w = 4
  BY <1>4
<1> QED  BY <1>1, <1>2, <1>3, <1>4

LEMMA Shifted ==
  ASSUME NEW w \in 1..4, NEW sp \in Int, NEW k \in Int
  PROVE  /\ (sp - w) + (k - 1) * w = sp + ((k - 1) - 1) * w
         /\ (sp + w) + (k - 1) * w = sp + ((k + 1) - 1) * w
         /\ (k + 1) * w = k * w + w /\ (k - 1) * w = k * w - w
         /\ (k * w > w - 1 => k >= 1)
<1>1. CASE w = 1
  BY <1>1
<1>2. CASE w = 2
  BY <1>2
<1>3. CASE w = 3
  BY <1>3
<1>4. CASE w = 4
  BY <1>4
<1> QED  BY <1>1, <1>2, <1>3, <1>4

LEMMA JoinedSame ==
  ASSUME NEW m, NEW n, NEW a \in Nat, \A b \in a..(a + WordBytes - 1) : n.memory[b] = m.memory[b]
  PROVE  Joined(n, a) = Joined(m, a)
<1>1. WordBytes = 1 \/ WordBytes = 2 \/ WordBytes = 3 \/ WordBytes = 4
  BY Sizes
<1>2. /\ n.memory[a] = m.memory[a]
      /\ WordBytes >= 2 => n.memory[a + 1] = m.memory[a + 1]
      /\ WordBytes >= 3 => n.memory[a + 2] = m.memory[a + 2]
      /\ WordBytes >= 4 => n.memory[a + 3] = m.memory[a + 3]
  BY <1>1
<1> QED  BY <1>1, <1>2 DEF Joined

(* words is what m has on its stack, the last word pushed first. *)
Stacked(m, words) ==
  /\ Len(words) * WordBytes = StackSize - 1 - m.reg[SP]
  /\ \A k \in 1..Len(words) : Joined(m, m.reg[SP] + (k - 1) * WordBytes) = words[k]

(* From m to n the stack of m, as it lies there, does not change. *)
StackKept(m, n) == \A a \in m.reg[SP]..(StackSize - 1) : n.memory[a] = m.memory[a]

(* Words above what was written stay; a push adds one, a pop takes the first. *)
LEMMA KeptWord ==
  ASSUME NEW m, BootTyped(m), NEW n, StackKept(m, n), NEW words \in Seq(Words),
         Stacked(m, words), NEW k \in 1..Len(words)
  PROVE  /\ Joined(n, m.reg[SP] + (k - 1) * WordBytes) = words[k]
         /\ m.reg[SP] + (k - 1) * WordBytes \in Nat
         /\ m.reg[SP] + (k - 1) * WordBytes + WordBytes <= StackSize - 1
<1> DEFINE sp == m.reg[SP]
           a  == sp + (k - 1) * WordBytes
           L  == Len(words)
<1>1. sp \in Nat /\ L \in Nat /\ StackSize \in Nat /\ WordBytes \in 1..4
  BY Sizes, RegistersAreNumbers DEF SP
<1>2. L * WordBytes = StackSize - 1 - sp /\ Joined(m, a) = words[k]
  BY DEF Stacked
<1> HIDE DEF sp, L
<1>3. a \in Nat /\ a >= sp /\ a + WordBytes <= StackSize - 1
  <2>1. k \in 1..L
    BY DEF L
  <2> QED  BY <1>1, <1>2, <2>1, Offsets
<1> HIDE DEF a
<1>4. \A b \in a..(a + WordBytes - 1) : n.memory[b] = m.memory[b]
  <2>1. ASSUME NEW b \in a..(a + WordBytes - 1)
        PROVE  b \in sp..(StackSize - 1)
    BY <1>1, <1>3
  <2> QED  BY <2>1 DEF StackKept, sp
<1>5. Joined(n, a) = Joined(m, a)
  BY <1>3, <1>4, JoinedSame
<1> QED  BY <1>2, <1>3, <1>5 DEF a, sp

LEMMA PushedWords ==
  ASSUME NEW m, BootTyped(m), NEW n, StackKept(m, n), NEW words \in Seq(Words),
         Stacked(m, words), NEW w \in Words,
         n.reg[SP] = m.reg[SP] - WordBytes, Joined(n, n.reg[SP]) = w
  PROVE  Stacked(n, <<w>> \o words)
<1> DEFINE more == <<w>> \o words
           sp == m.reg[SP]
           L == Len(words)
<1>1. sp \in Int /\ L \in Nat /\ StackSize \in Nat /\ WordBytes \in 1..4 /\ WordBytes \in Int
  <2>1. sp \in Nat
    BY RegistersAreNumbers DEF SP
  <2> HIDE DEF sp
  <2> QED  BY <2>1, Sizes
<1>2. Len(more) = L + 1 /\ more[1] = w /\ \A k \in 2..(L + 1) : more[k] = words[k - 1]
  OBVIOUS
<1>3. L * WordBytes = StackSize - 1 - sp
  BY DEF Stacked
<1>4. ASSUME NEW k \in 2..(L + 1)
      PROVE  Joined(n, n.reg[SP] + (k - 1) * WordBytes) = words[k - 1]
  <2>1. k - 1 \in 1..Len(words) /\ k \in Int
    BY <1>1
  <2>2. Joined(n, sp + ((k - 1) - 1) * WordBytes) = words[k - 1]
    BY <2>1, KeptWord
  <2>3. (sp - WordBytes) + (k - 1) * WordBytes = sp + ((k - 1) - 1) * WordBytes
    BY <1>1, <2>1, Shifted
  <2> QED  BY <2>2, <2>3
<1>5. (L + 1) * WordBytes = L * WordBytes + WordBytes
  BY <1>1, Shifted
<1>6. n.reg[SP] + (1 - 1) * WordBytes = n.reg[SP]
  BY <1>1
<1> HIDE DEF more, sp, L
<1>7. Len(more) * WordBytes = StackSize - 1 - n.reg[SP]
  <2>1. L * WordBytes \in Int
    BY <1>1
  <2> QED  BY <1>1, <1>2, <1>3, <1>5, <2>1 DEF sp
<1>8. ASSUME NEW k \in 1..Len(more)
      PROVE  Joined(n, n.reg[SP] + (k - 1) * WordBytes) = more[k]
  <2>1. CASE k = 1
    BY <1>2, <1>6, <2>1
  <2>2. CASE k \in 2..(L + 1)
    BY <1>2, <1>4, <2>2
  <2> QED  BY <1>1, <1>2, <2>1, <2>2
<1> QED  BY <1>7, <1>8 DEF Stacked, more

LEMMA PoppedWords ==
  ASSUME NEW m, BootTyped(m), NEW n, StackKept(m, n), NEW words \in Seq(Words),
         Stacked(m, words), m.reg[SP] < StackSize - WordBytes,
         n.reg[SP] = m.reg[SP] + WordBytes
  PROVE  words # << >> /\ Stacked(n, Tail(words))
<1> DEFINE less == Tail(words)
           sp == m.reg[SP]
           L == Len(words)
<1>1. sp \in Int /\ L \in Nat /\ StackSize \in Nat /\ WordBytes \in 1..4 /\ WordBytes \in Int
  <2>1. sp \in Int
    BY RegistersAreNumbers DEF SP
  <2>2. L \in Nat
    OBVIOUS
  <2> QED  BY <2>1, <2>2, Sizes
<1>2. L * WordBytes = StackSize - 1 - sp
  BY DEF Stacked
<1>3. L >= 1
  <2>1. L * WordBytes > WordBytes - 1 /\ L \in Int
    BY <1>1, <1>2
  <2> HIDE DEF L
  <2> QED  BY <1>1, <2>1, Shifted
<1>4. words # << >>
  BY <1>3
<1>5. Len(less) = L - 1 /\ \A k \in 1..(L - 1) : less[k] = words[k + 1]
  BY <1>4
<1>6. ASSUME NEW k \in 1..(L - 1)
      PROVE  Joined(n, n.reg[SP] + (k - 1) * WordBytes) = words[k + 1]
  <2>1. k + 1 \in 1..Len(words) /\ k \in Int
    BY <1>1
  <2>2. Joined(n, sp + ((k + 1) - 1) * WordBytes) = words[k + 1]
    BY <2>1, KeptWord
  <2>3. (sp + WordBytes) + (k - 1) * WordBytes = sp + ((k + 1) - 1) * WordBytes
    BY <1>1, <2>1, Shifted
  <2> QED  BY <2>2, <2>3
<1>7. (L - 1) * WordBytes = L * WordBytes - WordBytes
  BY <1>1, Shifted
<1> HIDE DEF less, sp, L
<1>8. Len(less) * WordBytes = StackSize - 1 - n.reg[SP]
  <2>1. L * WordBytes \in Int
    BY <1>1
  <2>2. L * WordBytes - WordBytes = StackSize - 1 - (sp + WordBytes)
    BY <1>1, <1>2, <2>1
  <2>3. Len(less) * WordBytes = L * WordBytes - WordBytes
    BY <1>5, <1>7
  <2> QED  BY <2>2, <2>3 DEF sp
<1> QED  BY <1>4, <1>5, <1>6, <1>8 DEF Stacked, less

LEMMA SameWords ==
  ASSUME NEW m, BootTyped(m), NEW n, StackKept(m, n), NEW words \in Seq(Words),
         Stacked(m, words), n.reg[SP] = m.reg[SP]
  PROVE  Stacked(n, words)
<1>1. \A k \in 1..Len(words) : Joined(n, n.reg[SP] + (k - 1) * WordBytes) = words[k]
  BY KeptWord
<1> QED  BY <1>1 DEF Stacked

WordsInv == BootOk /\ (hist.sure => Stacked(boot, hist.words))

(* The stack of the bootstrap machine holds what was pushed and not popped,   *)
(* word for word (op_push_up, op_well, op_return), for every program that     *)
(* does nothing else to it.                                                   *)
THEOREM WordsStay == Spec => []WordsKept
<1>1. Init => WordsInv
  <2> SUFFICES ASSUME Init PROVE WordsInv
    OBVIOUS
  <2>1. boot = B!Loaded(program) /\ program \in Programs /\ hist.words = << >>
    BY DEF Init, S!Init, B!Begin, HistInit
  <2>2. boot.reg[SP] = StackSize - 1
    BY <2>1, LoadedTyped
  <2>3. Len(hist.words) = 0 /\ 0 * WordBytes = 0 /\ StackSize - 1 - (StackSize - 1) = 0
    BY <2>1, Sizes
  <2> QED  BY <2>2, <2>3, BootBegins DEF WordsInv, Stacked
<1>2. WordsInv /\ [Next]_vars => WordsInv'
  <2> SUFFICES ASSUME WordsInv, [Next]_vars, hist'.sure
               PROVE  BootOk' /\ Stacked(boot', hist'.words)
    BY BootMoves DEF WordsInv, Stacked, Joined
  <2>1. BootOk /\ (Acts \/ Rests) /\ BootOk'
    BY BootMoves DEF WordsInv
  <2>2. CASE Acts
    <3> DEFINE i == BootInstr
               w == boot.reg[i.o[1] % 16]
    <3>1. /\ BootTyped(Fetched) /\ PointerEffect(Fetched, boot', i)
          /\ StackEffect(Fetched, boot', i)
          /\ Remembers(i) /\ Fetched.reg = boot.reg /\ Fetched.memory = boot.memory
          /\ Instr(i) /\ BootTyped(boot)
      BY <2>1, <2>2, ActsEffect DEF Effect
    <3>2. w \in Words /\ hist.words \in Seq(Words)
      <4>1. i.o[1] % 16 \in 0..15
        BY <3>1 DEF Instr, Octets
      <4> QED  BY <2>1, <3>1, <4>1 DEF BootOk, BootTyped, Core, HistTyped
    <3> HIDE DEF i
    <3>3. hist.sure /\ ~ Writes(Fetched, i) /\ SP \notin Named(i)
      BY <3>1 DEF Remembers, Writes
    <3>4. StackKept(Fetched, boot')
      BY <3>1, <3>3 DEF StackEffect, StackKept
    <3>5. Stacked(Fetched, hist.words)
      BY <3>1, <3>3 DEF WordsInv, Stacked, Joined
    <3>6. /\ Pushes(Fetched, i) = Pushes(boot, i) /\ Pops(Fetched, i) = Pops(boot, i)
          /\ Pushes(boot, i) => ~ Pops(boot, i)
      BY <3>1 DEF Pushes, Pops, IsPush, IsPop
    <3>7. CASE Pushes(boot, i)
      <4>1. Fetched.reg[SP] <= StackSize
        <5>1. Fetched.reg[SP] \in Nat /\ Len(hist.words) \in Nat /\ StackSize \in Nat
          BY <3>1, <3>2, Sizes, RegistersAreNumbers DEF SP
        <5>2. Len(hist.words) * WordBytes = StackSize - 1 - Fetched.reg[SP]
              /\ Len(hist.words) * WordBytes >= 0
          <6>1. WordBytes \in Nat
            BY Sizes
          <6> QED  BY <3>5, <5>1, <6>1 DEF Stacked
        <5> HIDE DEF w
        <5> QED  BY <5>1, <5>2
      <4>2. /\ boot'.reg[SP] = Fetched.reg[SP] - WordBytes
            /\ Joined(boot', boot'.reg[SP]) = w
            /\ hist'.words = <<w>> \o hist.words
        BY <3>1, <3>3, <3>6, <3>7, <4>1 DEF PointerEffect, StackEffect, Remembers
      <4> HIDE DEF w
      <4>3. Stacked(boot', <<w>> \o hist.words)
        BY <3>1, <3>2, <3>4, <3>5, <4>2, PushedWords
      <4> QED  BY <2>1, <4>2, <4>3
    <3>8. CASE Pops(boot, i)
      <4>1. /\ Fetched.reg[SP] < StackSize - WordBytes
            /\ boot'.reg[SP] = Fetched.reg[SP] + WordBytes
        BY <3>1, <3>3, <3>6, <3>8 DEF PointerEffect, Pops
      <4>2. hist.words # << >> /\ Stacked(boot', Tail(hist.words))
        BY <3>1, <3>2, <3>4, <3>5, <4>1, PoppedWords
      <4>3. hist'.words = Tail(hist.words)
        BY <3>1, <3>6, <3>8, <4>2 DEF Remembers
      <4> QED  BY <2>1, <4>2, <4>3
    <3>9. CASE ~ Pushes(boot, i) /\ ~ Pops(boot, i)
      <4>1. boot'.reg[SP] = Fetched.reg[SP] /\ hist'.words = hist.words
        BY <3>1, <3>3, <3>6, <3>9 DEF PointerEffect, Remembers
      <4>2. Stacked(boot', hist.words)
        BY <3>1, <3>2, <3>4, <3>5, <4>1, SameWords
      <4> QED  BY <2>1, <4>1, <4>2
    <3> QED  BY <3>7, <3>8, <3>9
  <2>3. CASE Rests
    <3>1. hist.sure /\ hist'.words = hist.words /\ boot'.reg = boot.reg
          /\ boot'.memory = boot.memory
      BY <2>3 DEF Rests, Recalls
    <3> QED  BY <2>1, <3>1 DEF WordsInv, Stacked, Joined
  <2> QED  BY <2>1, <2>2, <2>3
<1>3. WordsInv => WordsKept
  <2> SUFFICES ASSUME WordsInv, hist.sure
               PROVE  /\ Len(hist.words) * WordBytes = StackSize - 1 - boot.reg[SP]
                      /\ \A k \in 1..Len(hist.words) :
                           B!vm_read_u32(boot, boot.reg[SP] + (k - 1) * WordBytes) = hist.words[k]
    BY DEF WordsKept
  <2>1. Stacked(boot, hist.words) /\ BootTyped(boot) /\ hist.words \in Seq(Words)
        /\ StackKept(boot, boot)
    BY DEF WordsInv, BootOk, HistTyped, StackKept
  <2>2. ASSUME NEW k \in 1..Len(hist.words)
        PROVE  B!vm_read_u32(boot, boot.reg[SP] + (k - 1) * WordBytes) = hist.words[k]
    <3> DEFINE a == boot.reg[SP] + (k - 1) * WordBytes
    <3>1. Joined(boot, a) = hist.words[k] /\ a \in Nat /\ a + WordBytes <= StackSize - 1
      BY <2>1, KeptWord
    <3> HIDE DEF a
    <3>2. a + WordBytes - 1 < MemorySize
      BY <3>1, Sizes
    <3>3. B!vm_read_u32(boot, a) = hist.words[k]
      BY <2>1, <3>1, <3>2, ReadJoins
    <3> QED  BY <3>3 DEF a
  <2> QED  BY <2>1, <2>2 DEF Stacked
<1> QED  BY <1>1, <1>2, <1>3, PTL DEF Spec

-----------------------------------------------------------------------------
(* The predecessor. *)
SeedTyped(m) ==
  /\ Core(m) /\ {"stack", "heap", "heap_ptr", "locks", "barriers"} \subseteq DOMAIN m
  /\ m.stack \in [0..(StackSize - 1) -> Octets]
  /\ m.heap \in [0..(HeapSize - 1) -> Octets]
  /\ m.heap_ptr \in 0..HeapSize
  /\ m.barriers \in [0..255 -> Words]

SeedPushes(m, i) == IsPush(i) /\ m.reg[SP] # 0
SeedPops(m, i)   == IsPop(i) /\ m.reg[SP] < StackSize

SeedEffect(m, n, i) ==
  /\ SeedTyped(n) /\ DOMAIN n = DOMAIN m /\ n.cycle_count = m.cycle_count
  /\ SP \notin Named(i) =>
       n.reg[SP] = IF SeedPushes(m, i) THEN m.reg[SP] - 1
                   ELSE IF SeedPops(m, i) THEN m.reg[SP] + 1 ELSE m.reg[SP]
  /\ n.state = "FAULT" =>
       m.state = "FAULT" \/ (SeedPushes(m, i) /\ m.reg[SP] - 1 >= StackSize)

(* The registers of the predecessor are numbers, and its arrays have octets. *)
LEMMA SeedNumbers ==
  ASSUME NEW m, SeedTyped(m)
  PROVE  /\ \A r \in 0..15 : m.reg[r] \in Nat /\ m.reg[r] < B!Word
         /\ SP \in 0..15 /\ SP = 13 /\ m.reg[SP] \in Nat /\ m.reg[SP] < B!Word
         /\ m.pc \in Nat /\ m.heap_ptr \in Nat /\ m.heap_ptr <= HeapSize
<1>1. m.reg \in [0..15 -> Words] /\ \A w \in Words : w \in Nat /\ w < B!Word
  <2>1. m.reg \in [0..15 -> Words]
    BY DEF SeedTyped, Core
  <2>2. \A w \in Words : w \in Nat /\ w < B!Word
    BY Sizes DEF Words
  <2> QED  BY <2>1, <2>2
<1>2. SP \in 0..15 /\ SP = 13
  BY DEF SP
<1>3. m.pc \in Nat /\ m.heap_ptr \in Nat /\ m.heap_ptr <= HeapSize
  BY Sizes DEF SeedTyped, Core, Words
<1> QED  BY <1>1, <1>2, <1>3

LEMMA SameSmall ==
  /\ \A m, r, v : S!Put(m, r, v) = B!Put(m, r, v)
  /\ \A m, state : S!End(m, state) = B!End(m, state)
  /\ \A m, o : /\ S!X(m, o) = B!X(m, o) /\ S!Y(m, o) = B!Y(m, o)
               /\ S!Dst(o) = B!Dst(o) /\ S!Src(o) = B!Src(o)
  /\ S!OwnOps = B!OwnOps /\ S!Word = B!Word /\ S!Byte = 256
  BY DEF S!Put, B!Put, S!Word, B!Word, S!End, B!End, S!X, B!X, S!Y, B!Y, S!Dst, B!Dst, S!Src,
         B!Src, S!OwnOps, B!OwnOps, S!Byte

(* Its instructions keep its types, by the fields they change.              *)
LEMMA SeedCalmTyped ==
  ASSUME NEW m, SeedTyped(m), NEW R, NEW n, Calm(m, n, R)
  PROVE  /\ SeedTyped(n) /\ DOMAIN n = DOMAIN m /\ n.stack = m.stack /\ n.heap = m.heap
         /\ n.heap_ptr = m.heap_ptr /\ n.locks = m.locks /\ n.barriers = m.barriers
<1>1. Core(n) /\ Keeps(m, n, Changing)
  BY DEF Calm
<1>2. /\ DOMAIN n = DOMAIN m /\ n.stack = m.stack /\ n.heap = m.heap
      /\ n.heap_ptr = m.heap_ptr /\ n.locks = m.locks /\ n.barriers = m.barriers
  BY <1>1 DEF Keeps, Changing, CoreFields, SeedTyped
<1> QED  BY <1>1, <1>2 DEF SeedTyped

LEMMA SeedKeptCount ==
  ASSUME NEW m, SeedTyped(m), NEW n, NEW F, Keeps(m, n, F), "cycle_count" \notin F
  PROVE  n.cycle_count = m.cycle_count
  BY DEF SeedTyped, Core, CoreFields, Keeps

LEMMA SeedCalmEffect ==
  ASSUME NEW m, SeedTyped(m), NEW i, Instr(i), NEW n, Calm(m, n, Named(i)),
         ~ SeedPushes(m, i), ~ SeedPops(m, i)
  PROVE  SeedEffect(m, n, i)
<1>1. SeedTyped(n) /\ DOMAIN n = DOMAIN m
  BY SeedCalmTyped
<1>2. SP \in 0..15
  BY DEF SP
<1>3. n.cycle_count = m.cycle_count
  BY SeedKeptCount DEF Calm, Changing
<1> QED  BY <1>1, <1>2, <1>3 DEF SeedEffect, Calm

(* Other fields than registers and state. *)
LEMMA SeedOther ==
  ASSUME NEW m, SeedTyped(m), NEW n, SeedTyped(n), n.reg = m.reg, n.state = m.state, NEW F,
         Keeps(m, n, F), "cycle_count" \notin F, NEW i, ~ SeedPushes(m, i), ~ SeedPops(m, i)
  PROVE  SeedEffect(m, n, i)
  BY SeedKeptCount DEF SeedEffect, Keeps

LEMMA SeedIdle ==
  ASSUME NEW m, SeedTyped(m), NEW i, ~ SeedPushes(m, i), ~ SeedPops(m, i)
  PROVE  SeedEffect(m, m, i)
  BY DEF SeedEffect

LEMMA SeedPutCalm ==
  ASSUME NEW m, SeedTyped(m), NEW i, Instr(i), NEW r \in 0..15, r \in Named(i), NEW v \in Int,
         ~ SeedPushes(m, i), ~ SeedPops(m, i)
  PROVE  SeedEffect(m, B!Put(m, r, v), i)
<1>1. Calm(m, B!Put(m, r, v), {r})
  BY PutCalm DEF SeedTyped
<1>2. Calm(m, B!Put(m, r, v), Named(i))
  BY <1>1 DEF Calm
<1> QED  BY <1>2, SeedCalmEffect

LEMMA SeedWithPc ==
  ASSUME NEW m, SeedTyped(m), NEW v \in Words
  PROVE  LET n == [m EXCEPT !.pc = v]
         IN  /\ SeedTyped(n) /\ Keeps(m, n, {"pc"}) /\ n.pc = v
             /\ n.reg = m.reg /\ n.state = m.state /\ n.stack = m.stack /\ n.heap = m.heap
             /\ n.heap_ptr = m.heap_ptr /\ n.locks = m.locks /\ n.barriers = m.barriers
<1> DEFINE n == [m EXCEPT !.pc = v]
<1>1. /\ m = [f \in DOMAIN m |-> m[f]]
      /\ CoreFields \cup {"stack", "heap", "heap_ptr", "locks", "barriers"} \subseteq DOMAIN m
  BY DEF SeedTyped, Core
<1>2. Keeps(m, n, {"pc"}) /\ n.pc = v /\ n = [f \in DOMAIN n |-> n[f]]
  BY <1>1 DEF CoreFields, Keeps
<1> HIDE DEF n
<1>3. /\ n.reg = m.reg /\ n.state = m.state /\ n.stack = m.stack /\ n.heap = m.heap
      /\ n.heap_ptr = m.heap_ptr /\ n.locks = m.locks /\ n.barriers = m.barriers
      /\ n.zero = m.zero /\ n.negative = m.negative
      /\ n.overflow = m.overflow /\ n.threads = m.threads
      /\ n.futures = m.futures /\ n.energy = m.energy /\ n.cycle_count = m.cycle_count
  BY <1>1, <1>2 DEF CoreFields, Keeps
<1>4. Core(n)
  BY <1>1, <1>2, <1>3 DEF SeedTyped, Core, Keeps
<1>5. SeedTyped(n)
  BY <1>1, <1>2, <1>3, <1>4 DEF SeedTyped, Keeps
<1> QED  BY <1>2, <1>3, <1>5 DEF n

LEMMA SeedWithHeap ==
  ASSUME NEW m, SeedTyped(m), NEW v \in [0..(HeapSize - 1) -> Octets]
  PROVE  LET n == [m EXCEPT !.heap = v]
         IN  /\ SeedTyped(n) /\ Keeps(m, n, {"heap"}) /\ n.heap = v
             /\ n.reg = m.reg /\ n.state = m.state /\ n.pc = m.pc /\ n.stack = m.stack
             /\ n.heap_ptr = m.heap_ptr /\ n.locks = m.locks /\ n.barriers = m.barriers
<1> DEFINE n == [m EXCEPT !.heap = v]
<1>1. /\ m = [f \in DOMAIN m |-> m[f]]
      /\ CoreFields \cup {"stack", "heap", "heap_ptr", "locks", "barriers"} \subseteq DOMAIN m
  BY DEF SeedTyped, Core
<1>2. Keeps(m, n, {"heap"}) /\ n.heap = v /\ n = [f \in DOMAIN n |-> n[f]]
  BY <1>1 DEF CoreFields, Keeps
<1> HIDE DEF n
<1>3. /\ n.reg = m.reg /\ n.state = m.state /\ n.pc = m.pc /\ n.stack = m.stack
      /\ n.heap_ptr = m.heap_ptr /\ n.locks = m.locks /\ n.barriers = m.barriers
      /\ n.zero = m.zero /\ n.negative = m.negative
      /\ n.overflow = m.overflow /\ n.threads = m.threads
      /\ n.futures = m.futures /\ n.energy = m.energy /\ n.cycle_count = m.cycle_count
  BY <1>1, <1>2 DEF CoreFields, Keeps
<1>4. Core(n)
  BY <1>1, <1>2, <1>3 DEF SeedTyped, Core, Keeps
<1>5. SeedTyped(n)
  BY <1>1, <1>2, <1>3, <1>4 DEF SeedTyped, Keeps
<1> QED  BY <1>2, <1>3, <1>5 DEF n

LEMMA SeedWithStack ==
  ASSUME NEW m, SeedTyped(m), NEW v \in [0..(StackSize - 1) -> Octets]
  PROVE  LET n == [m EXCEPT !.stack = v]
         IN  /\ SeedTyped(n) /\ Keeps(m, n, {"stack"}) /\ n.stack = v
             /\ n.reg = m.reg /\ n.state = m.state /\ n.pc = m.pc /\ n.heap = m.heap
             /\ n.heap_ptr = m.heap_ptr /\ n.locks = m.locks /\ n.barriers = m.barriers
<1> DEFINE n == [m EXCEPT !.stack = v]
<1>1. /\ m = [f \in DOMAIN m |-> m[f]]
      /\ CoreFields \cup {"stack", "heap", "heap_ptr", "locks", "barriers"} \subseteq DOMAIN m
  BY DEF SeedTyped, Core
<1>2. Keeps(m, n, {"stack"}) /\ n.stack = v /\ n = [f \in DOMAIN n |-> n[f]]
  BY <1>1 DEF CoreFields, Keeps
<1> HIDE DEF n
<1>3. /\ n.reg = m.reg /\ n.state = m.state /\ n.pc = m.pc /\ n.heap = m.heap
      /\ n.heap_ptr = m.heap_ptr /\ n.locks = m.locks /\ n.barriers = m.barriers
      /\ n.zero = m.zero /\ n.negative = m.negative
      /\ n.overflow = m.overflow /\ n.threads = m.threads
      /\ n.futures = m.futures /\ n.energy = m.energy /\ n.cycle_count = m.cycle_count
  BY <1>1, <1>2 DEF CoreFields, Keeps
<1>4. Core(n)
  BY <1>1, <1>2, <1>3 DEF SeedTyped, Core, Keeps
<1>5. SeedTyped(n)
  BY <1>1, <1>2, <1>3, <1>4 DEF SeedTyped, Keeps
<1> QED  BY <1>2, <1>3, <1>5 DEF n

LEMMA SeedWithHeapPtr ==
  ASSUME NEW m, SeedTyped(m), NEW v \in 0..HeapSize
  PROVE  LET n == [m EXCEPT !.heap_ptr = v]
         IN  /\ SeedTyped(n) /\ Keeps(m, n, {"heap_ptr"}) /\ n.heap_ptr = v
             /\ n.reg = m.reg /\ n.state = m.state /\ n.pc = m.pc /\ n.stack = m.stack
             /\ n.heap = m.heap /\ n.locks = m.locks /\ n.barriers = m.barriers
<1> DEFINE n == [m EXCEPT !.heap_ptr = v]
<1>1. /\ m = [f \in DOMAIN m |-> m[f]]
      /\ CoreFields \cup {"stack", "heap", "heap_ptr", "locks", "barriers"} \subseteq DOMAIN m
  BY DEF SeedTyped, Core
<1>2. Keeps(m, n, {"heap_ptr"}) /\ n.heap_ptr = v /\ n = [f \in DOMAIN n |-> n[f]]
  BY <1>1 DEF CoreFields, Keeps
<1> HIDE DEF n
<1>3. /\ n.reg = m.reg /\ n.state = m.state /\ n.pc = m.pc /\ n.stack = m.stack
      /\ n.heap = m.heap /\ n.locks = m.locks /\ n.barriers = m.barriers
      /\ n.zero = m.zero /\ n.negative = m.negative
      /\ n.overflow = m.overflow /\ n.threads = m.threads
      /\ n.futures = m.futures /\ n.energy = m.energy /\ n.cycle_count = m.cycle_count
  BY <1>1, <1>2 DEF CoreFields, Keeps
<1>4. Core(n)
  BY <1>1, <1>2, <1>3 DEF SeedTyped, Core, Keeps
<1>5. SeedTyped(n)
  BY <1>1, <1>2, <1>3, <1>4 DEF SeedTyped, Keeps
<1> QED  BY <1>2, <1>3, <1>5 DEF n

LEMMA SeedWithBarriers ==
  ASSUME NEW m, SeedTyped(m), NEW v \in [0..255 -> Words]
  PROVE  LET n == [m EXCEPT !.barriers = v]
         IN  /\ SeedTyped(n) /\ Keeps(m, n, {"barriers"}) /\ n.barriers = v
             /\ n.reg = m.reg /\ n.state = m.state /\ n.pc = m.pc /\ n.stack = m.stack
             /\ n.heap = m.heap /\ n.heap_ptr = m.heap_ptr /\ n.locks = m.locks
<1> DEFINE n == [m EXCEPT !.barriers = v]
<1>1. /\ m = [f \in DOMAIN m |-> m[f]]
      /\ CoreFields \cup {"stack", "heap", "heap_ptr", "locks", "barriers"} \subseteq DOMAIN m
  BY DEF SeedTyped, Core
<1>2. Keeps(m, n, {"barriers"}) /\ n.barriers = v /\ n = [f \in DOMAIN n |-> n[f]]
  BY <1>1 DEF CoreFields, Keeps
<1> HIDE DEF n
<1>3. /\ n.reg = m.reg /\ n.state = m.state /\ n.pc = m.pc /\ n.stack = m.stack
      /\ n.heap = m.heap /\ n.heap_ptr = m.heap_ptr /\ n.locks = m.locks
      /\ n.zero = m.zero /\ n.negative = m.negative
      /\ n.overflow = m.overflow /\ n.threads = m.threads
      /\ n.futures = m.futures /\ n.energy = m.energy /\ n.cycle_count = m.cycle_count
  BY <1>1, <1>2 DEF CoreFields, Keeps
<1>4. Core(n)
  BY <1>1, <1>2, <1>3 DEF SeedTyped, Core, Keeps
<1>5. SeedTyped(n)
  BY <1>1, <1>2, <1>3, <1>4 DEF SeedTyped, Keeps
<1> QED  BY <1>2, <1>3, <1>5 DEF n

LEMMA SeedWithLocks ==
  ASSUME NEW m, SeedTyped(m), NEW v
  PROVE  LET n == [m EXCEPT !.locks = v]
         IN  /\ SeedTyped(n) /\ Keeps(m, n, {"locks"}) /\ n.locks = v
             /\ n.reg = m.reg /\ n.state = m.state /\ n.pc = m.pc /\ n.stack = m.stack
             /\ n.heap = m.heap /\ n.heap_ptr = m.heap_ptr /\ n.barriers = m.barriers
<1> DEFINE n == [m EXCEPT !.locks = v]
<1>1. /\ m = [f \in DOMAIN m |-> m[f]]
      /\ CoreFields \cup {"stack", "heap", "heap_ptr", "locks", "barriers"} \subseteq DOMAIN m
  BY DEF SeedTyped, Core
<1>2. Keeps(m, n, {"locks"}) /\ n.locks = v /\ n = [f \in DOMAIN n |-> n[f]]
  BY <1>1 DEF CoreFields, Keeps
<1> HIDE DEF n
<1>3. /\ n.reg = m.reg /\ n.state = m.state /\ n.pc = m.pc /\ n.stack = m.stack
      /\ n.heap = m.heap /\ n.heap_ptr = m.heap_ptr /\ n.barriers = m.barriers
      /\ n.zero = m.zero /\ n.negative = m.negative
      /\ n.overflow = m.overflow /\ n.threads = m.threads
      /\ n.futures = m.futures /\ n.energy = m.energy /\ n.cycle_count = m.cycle_count
  BY <1>1, <1>2 DEF CoreFields, Keeps
<1>4. Core(n)
  BY <1>1, <1>2, <1>3 DEF SeedTyped, Core, Keeps
<1>5. SeedTyped(n)
  BY <1>1, <1>2, <1>3, <1>4 DEF SeedTyped, Keeps
<1> QED  BY <1>2, <1>3, <1>5 DEF n

LEMMA SeedField ==
  ASSUME NEW m, SeedTyped(m), NEW i, ~ SeedPushes(m, i), ~ SeedPops(m, i)
  PROVE  /\ \A v \in Words : SeedEffect(m, [m EXCEPT !.pc = v], i)
         /\ \A v \in [0..(HeapSize - 1) -> Octets] : SeedEffect(m, [m EXCEPT !.heap = v], i)
         /\ \A v \in [0..255 -> Words] : SeedEffect(m, [m EXCEPT !.barriers = v], i)
         /\ \A v : SeedEffect(m, [m EXCEPT !.locks = v], i)
<1>1. ASSUME NEW v \in Words
      PROVE  SeedEffect(m, [m EXCEPT !.pc = v], i)
  <2> DEFINE n == [m EXCEPT !.pc = v]
  <2>1. SeedTyped(n) /\ Keeps(m, n, {"pc"}) /\ n.reg = m.reg /\ n.state = m.state
    BY SeedWithPc
  <2> HIDE DEF n
  <2>2. SeedEffect(m, n, i)
    BY <2>1, SeedOther
  <2> QED  BY <2>2 DEF n
<1>2. ASSUME NEW v \in [0..(HeapSize - 1) -> Octets]
      PROVE  SeedEffect(m, [m EXCEPT !.heap = v], i)
  <2> DEFINE n == [m EXCEPT !.heap = v]
  <2>1. SeedTyped(n) /\ Keeps(m, n, {"heap"}) /\ n.reg = m.reg /\ n.state = m.state
    BY SeedWithHeap
  <2> HIDE DEF n
  <2>2. SeedEffect(m, n, i)
    BY <2>1, SeedOther
  <2> QED  BY <2>2 DEF n
<1>3. ASSUME NEW v \in [0..255 -> Words]
      PROVE  SeedEffect(m, [m EXCEPT !.barriers = v], i)
  <2> DEFINE n == [m EXCEPT !.barriers = v]
  <2>1. SeedTyped(n) /\ Keeps(m, n, {"barriers"}) /\ n.reg = m.reg /\ n.state = m.state
    BY SeedWithBarriers
  <2> HIDE DEF n
  <2>2. SeedEffect(m, n, i)
    BY <2>1, SeedOther
  <2> QED  BY <2>2 DEF n
<1>4. ASSUME NEW v
      PROVE  SeedEffect(m, [m EXCEPT !.locks = v], i)
  <2> DEFINE n == [m EXCEPT !.locks = v]
  <2>1. SeedTyped(n) /\ Keeps(m, n, {"locks"}) /\ n.reg = m.reg /\ n.state = m.state
    BY SeedWithLocks
  <2> HIDE DEF n
  <2>2. SeedEffect(m, n, i)
    BY <2>1, SeedOther
  <2> QED  BY <2>2 DEF n
<1> QED  BY <1>1, <1>2, <1>3, <1>4

(* Its handlers one by one.                                                 *)
LEMMA SeedStores ==
  ASSUME NEW m, SeedTyped(m), NEW i, Instr(i), i.op \in {47, 50},
         NEW n, n = IF i.op = 47 THEN S!op_abundance(m, i.o) ELSE S!op_disperse(m, i.o)
  PROVE  SeedEffect(m, n, i)
<1> DEFINE x == B!X(m, i.o)
           y == B!Y(m, i.o)
<1>0. x \in Nat /\ y \in Nat
  <2>1. x \in Words /\ y \in Words
    BY OperandsAreWords DEF Instr, SeedTyped
  <2> QED  BY <2>1, Sizes DEF Words
<1>1. ~ SeedPushes(m, i) /\ ~ SeedPops(m, i)
  BY DEF SeedPushes, SeedPops, IsPush, IsPop
<1>2. n = IF x < HeapSize THEN [m EXCEPT !.heap[x] = y % 256] ELSE m
  BY SameSmall DEF S!op_abundance, S!op_disperse
<1> HIDE DEF x, y
<1>3. CASE x < HeapSize
  <2> DEFINE g == [m.heap EXCEPT ![x] = y % 256]
  <2>1. n = [m EXCEPT !.heap = g]
    BY <1>2, <1>3 DEF SeedTyped, Core
  <2>2. g \in [0..(HeapSize - 1) -> Octets]
    <3>1. y % 256 \in Octets
      BY <1>0 DEF Octets
    <3> QED  BY <3>1 DEF SeedTyped
  <2> HIDE DEF g
  <2> QED  BY <1>1, <2>1, <2>2, SeedField
<1>4. CASE ~ (x < HeapSize)
  <2>1. n = m
    BY <1>2, <1>4, Zenon
  <2> QED  BY <1>1, <2>1, SeedIdle
<1> QED  BY <1>3, <1>4

LEMMA SeedBranches ==
  ASSUME NEW m, SeedTyped(m), NEW i, Instr(i), i.op = 2, program \in Programs
  PROVE  SeedEffect(m, S!op_branch(m, i.md, i.o), i)
<1> DEFINE n == S!op_branch(m, i.md, i.o)
           target == IF (i.md \div 16) % 2 = 1 THEN B!Y(m, i.o) ELSE i.o[2]
<1>1. ~ SeedPushes(m, i) /\ ~ SeedPops(m, i)
  BY DEF SeedPushes, SeedPops, IsPush, IsPop
<1>2. n = IF B!X(m, i.o) # 0 /\ target < Len(program) THEN [m EXCEPT !.pc = target] ELSE m
  BY SameSmall DEF S!op_branch
<1>3. target \in Nat
  <2>1. B!Y(m, i.o) \in Words
    BY OperandsAreWords DEF Instr, SeedTyped
  <2> QED  BY <2>1, Sizes DEF Words, Instr, Octets
<1>4. Len(program) \in Nat /\ Len(program) < B!Word
  BY ProgramsAssumption, Sizes DEF B!Word
<1> HIDE DEF n, target
<1>5. CASE n = [m EXCEPT !.pc = target] /\ target < Len(program)
  <2>1. target \in Words
    BY <1>3, <1>4, <1>5, Sizes DEF Words
  <2> QED  BY <1>1, <1>5, <2>1, SeedField DEF n
<1>6. CASE n = m
  BY <1>1, <1>6, SeedIdle DEF n
<1> QED  BY <1>2, <1>5, <1>6

LEMMA BackInWords == ASSUME NEW pc \in Words, pc >= 4 PROVE pc - 4 \in Words
  BY Sizes DEF Words

LEMMA SeedLocks ==
  ASSUME NEW m, SeedTyped(m), m.pc >= 4, NEW i, Instr(i), i.op \in {10, 58, 21}
  PROVE  /\ SeedEffect(m, S!op_lock(m, i.o), i)
         /\ SeedEffect(m, S!op_unlock(m, i.o), i)
         /\ SeedEffect(m, S!op_sync(m, i.o), i)
<1> DEFINE l == i.o[1]
<1>1. ~ SeedPushes(m, i) /\ ~ SeedPops(m, i) /\ l \in 0..255
  BY DEF SeedPushes, SeedPops, IsPush, IsPop, Instr, Octets
<1>2. SeedEffect(m, S!op_lock(m, i.o), i)
  <2>1. m.pc - 4 \in Words
    BY BackInWords DEF SeedTyped, Core
  <2>2. SeedEffect(m, m, i) /\ SeedEffect(m, [m EXCEPT !.pc = m.pc - 4], i)
    BY <1>1, <2>1, SeedField, SeedIdle
  <2>3. SeedEffect(m, [m EXCEPT !.locks = m.locks \cup {l}], i)
    BY <1>1, SeedField
  <2>4. S!op_lock(m, i.o) = IF l >= MaxLocks THEN m
                            ELSE IF l \in m.locks THEN [m EXCEPT !.pc = m.pc - 4]
                            ELSE [m EXCEPT !.locks = m.locks \cup {l}]
    BY DEF S!op_lock, SeedTyped, Core, CoreFields
  <2> QED  BY <2>2, <2>3, <2>4
<1>3. SeedEffect(m, S!op_unlock(m, i.o), i)
  <2>1. SeedEffect(m, [m EXCEPT !.locks = m.locks \ {l}], i)
    BY <1>1, SeedField
  <2>2. S!op_unlock(m, i.o) = [m EXCEPT !.locks = m.locks \ {l}]
    BY DEF S!op_unlock, SeedTyped, Core, CoreFields
  <2> QED  BY <2>1, <2>2
<1>4. SeedEffect(m, S!op_sync(m, i.o), i)
  <2> DEFINE g == [m.barriers EXCEPT ![l] = (@ + 1) % B!Word]
  <2>1. g \in [0..255 -> Words]
    <3>1. ASSUME NEW w \in Words
          PROVE  (w + 1) % B!Word \in Words
      BY Sizes DEF Words
    <3> QED  BY <3>1 DEF SeedTyped
  <2>2. S!op_sync(m, i.o) = [m EXCEPT !.barriers = g]
    <3>1. S!op_sync(m, i.o) = [m EXCEPT !.barriers[l] = (@ + 1) % B!Word]
      BY SameSmall DEF S!op_sync
    <3> QED  BY <3>1 DEF SeedTyped, Core
  <2> HIDE DEF g
  <2>3. SeedEffect(m, [m EXCEPT !.barriers = g], i)
    BY <1>1, <2>1, SeedField
  <2> QED  BY <2>2, <2>3
<1> QED  BY <1>2, <1>3, <1>4

LEMMA SeedNourishes ==
  ASSUME NEW m, SeedTyped(m), NEW i, Instr(i), i.op = 33
  PROVE  SeedEffect(m, S!op_nourish(m, i.o), i)
<1> DEFINE zeros == [a \in 0..(HeapSize - 1) |-> 0]
           p == [m EXCEPT !.heap_ptr = 0]
           n == [p EXCEPT !.heap = zeros]
<1>1. ~ SeedPushes(m, i) /\ ~ SeedPops(m, i)
  BY DEF SeedPushes, SeedPops, IsPush, IsPop
<1>2. S!vm_init.heap = zeros
  BY DEF S!vm_init
<1>3. zeros \in [0..(HeapSize - 1) -> Octets] /\ 0 \in 0..HeapSize
  BY Sizes DEF Octets
<1> HIDE DEF zeros
<1>4. S!op_nourish(m, i.o) = n
  <2>1. S!op_nourish(m, i.o) = [m EXCEPT !.heap_ptr = 0, !.heap = zeros]
    BY <1>2 DEF S!op_nourish
  <2> QED  BY <2>1
<1>5. SeedTyped(p) /\ Keeps(m, p, {"heap_ptr"}) /\ p.reg = m.reg /\ p.state = m.state
  BY <1>3, SeedWithHeapPtr
<1> HIDE DEF p
<1>6. SeedTyped(n) /\ Keeps(p, n, {"heap"}) /\ n.reg = p.reg /\ n.state = p.state
  BY <1>3, <1>5, SeedWithHeap
<1> HIDE DEF n
<1>7. Keeps(m, n, {"heap", "heap_ptr"}) /\ n.reg = m.reg /\ n.state = m.state
  BY <1>5, <1>6 DEF Keeps
<1>8. SeedEffect(m, n, i)
  BY <1>1, <1>6, <1>7, SeedOther
<1> QED  BY <1>4, <1>8 DEF n

LEMMA SeedQuiets ==
  ASSUME NEW m, SeedTyped(m), NEW i, Instr(i)
  PROVE  /\ i.op = 0 => SeedEffect(m, S!op_recv(m, i.o), i)
         /\ i.op = 48 => SeedEffect(m, S!op_contemplate(m, i.o), i)
         /\ i.op = 54 => SeedEffect(m, S!op_penetrate(m, i.o), i)
         /\ i.op = 41 => SeedEffect(m, S!op_bite(m, i.o), i)
<1>1. i.op \in {0, 48, 54, 41} => ~ SeedPushes(m, i) /\ ~ SeedPops(m, i)
  BY DEF SeedPushes, SeedPops, IsPush, IsPop
<1>2. /\ i.op \in {0, 48} => B!Dst(i.o) \in Named(i)
      /\ i.op = 54 => B!Src(i.o) \in Named(i)
      /\ B!Dst(i.o) \in 0..15 /\ B!Src(i.o) \in 0..15
  BY DEF Instr, Octets, B!Dst, B!Src, Named, WithFirst, WithoutRegister
<1>3. CASE i.op = 0
  <2>1. S!op_recv(m, i.o) = B!Put(m, B!Dst(i.o), 0)
    BY SameSmall DEF S!op_recv
  <2>2. B!Dst(i.o) \in Named(i) /\ 0 \in Int /\ ~ SeedPushes(m, i) /\ ~ SeedPops(m, i)
    BY <1>1, <1>2, <1>3
  <2> QED  BY <1>2, <1>3, <2>1, <2>2, SeedPutCalm
<1>4. CASE i.op = 48
  <2>1. S!op_contemplate(m, i.o) = B!Put(m, B!Dst(i.o), m.cycle_count)
    BY SameSmall DEF S!op_contemplate
  <2>2. B!Dst(i.o) \in Named(i) /\ ~ SeedPushes(m, i) /\ ~ SeedPops(m, i)
    BY <1>1, <1>2, <1>4
  <2>3. m.cycle_count \in Int
    <3>1. Core(m)
      BY DEF SeedTyped
    <3>2. m.cycle_count \in Nat
      BY <3>1, Zenon DEF Core
    <3> QED  BY <3>2
  <2> QED  BY <1>2, <1>4, <2>1, <2>2, <2>3, SeedPutCalm
<1>5. CASE i.op = 54
  <2> DEFINE x == B!X(m, i.o)
  <2>1. S!op_penetrate(m, i.o) = IF x < HeapSize THEN B!Put(m, B!Src(i.o), m.heap[x]) ELSE m
    BY SameSmall DEF S!op_penetrate
  <2>2. B!Src(i.o) \in Named(i) /\ ~ SeedPushes(m, i) /\ ~ SeedPops(m, i)
    BY <1>1, <1>2, <1>5
  <2>3. x < HeapSize => m.heap[x] \in Int
    <3>1. x \in Nat
      <4>1. x \in Words
        BY OperandsAreWords DEF Instr, SeedTyped
      <4> QED  BY <4>1, Sizes DEF Words
    <3> HIDE DEF x
    <3>2. x < HeapSize => x \in 0..(HeapSize - 1)
      BY <3>1, Sizes
    <3>3. m.heap \in [0..(HeapSize - 1) -> Octets] /\ Octets \subseteq Int
      BY DEF SeedTyped, Octets
    <3> QED  BY <3>2, <3>3
  <2> HIDE DEF x
  <2>4. x < HeapSize => SeedEffect(m, B!Put(m, B!Src(i.o), m.heap[x]), i)
    BY <1>2, <2>2, <2>3, SeedPutCalm
  <2>5. SeedEffect(m, m, i)
    BY <2>2, SeedIdle
  <2> QED  BY <1>5, <2>1, <2>4, <2>5
<1>6. CASE i.op = 41
  <2> DEFINE n == B!End(m, "TRAPPED")
  <2>1. S!op_bite(m, i.o) = m \/ S!op_bite(m, i.o) = n
    BY SameSmall DEF S!op_bite
  <2>2. ~ SeedPushes(m, i) /\ ~ SeedPops(m, i)
    BY <1>1, <1>6
  <2>3. Core(n) /\ Keeps(m, n, Changing) /\ n.reg = m.reg /\ n.pc = m.pc /\ n.state = "TRAPPED"
    <3>1. Core(m)
      BY DEF SeedTyped
    <3>2. Keeps(m, n, {"state"}) /\ n.state = "TRAPPED" /\ n = [f \in DOMAIN n |-> n[f]]
      BY <3>1 DEF B!End, Core, CoreFields, Keeps
    <3> HIDE DEF n
    <3> QED  BY <3>1, <3>2 DEF Core, CoreFields, Keeps, Changing, States
  <2> HIDE DEF n
  <2>4. Calm(m, n, Named(i))
    BY <2>3, SeedNumbers DEF Calm
  <2> QED  BY <1>6, <2>1, <2>2, <2>4, SeedIdle, SeedCalmEffect
<1> QED  BY <1>3, <1>4, <1>5, <1>6

LEMMA SeedAllocates ==
  ASSUME NEW m, SeedTyped(m), NEW i, Instr(i), i.op = 17
  PROVE  SeedEffect(m, S!op_alloc(m, i.o), i)
<1> DEFINE size == IF i.o[2] > 0 THEN i.o[2] ELSE 256
           r == i.o[1] % 16
           ptr == m.heap_ptr + 1
           p == B!Put(m, r, ptr)
           q == B!Put(m, r, 0)
           top == m.heap_ptr + size
<1>1. ~ SeedPushes(m, i) /\ ~ SeedPops(m, i) /\ r \in 0..15 /\ r \in Named(i) /\ B!Dst(i.o) = r
  BY DEF SeedPushes, SeedPops, IsPush, IsPop, Named, WithFirst, WithoutRegister, Instr, Octets,
     B!Dst
<1>2. ptr \in Int /\ 0 \in Int /\ top \in Nat /\ m.heap_ptr \in Int
  BY SeedNumbers DEF Instr, Octets
<1>3. S!op_alloc(m, i.o) = IF top <= HeapSize THEN [p EXCEPT !.heap_ptr = @ + size]
                           ELSE [q EXCEPT !.overflow = TRUE]
  BY <1>1, SameSmall DEF S!op_alloc
<1> HIDE DEF r, ptr
<1>4. Calm(m, p, {r}) /\ Calm(m, q, {r})
  BY <1>1, <1>2, PutCalm DEF SeedTyped
<1>5. p.heap_ptr = m.heap_ptr
  BY <1>4, SeedCalmTyped
<1> HIDE DEF p, q
<1>6. CASE top <= HeapSize
  <2> DEFINE n == [p EXCEPT !.heap_ptr = top]
  <2>1. S!op_alloc(m, i.o) = n
    <3>1. S!op_alloc(m, i.o) = [p EXCEPT !.heap_ptr = @ + size]
      BY <1>3, <1>6
    <3>2. [p EXCEPT !.heap_ptr = @ + size] = [p EXCEPT !.heap_ptr = p.heap_ptr + size]
      OBVIOUS
    <3> QED  BY <1>5, <3>1, <3>2
  <2>2. top \in 0..HeapSize /\ SeedTyped(p)
    BY <1>2, <1>4, <1>6, Sizes, SeedCalmTyped
  <2> HIDE DEF top
  <2>3. SeedTyped(n) /\ Keeps(p, n, {"heap_ptr"}) /\ n.reg = p.reg /\ n.state = p.state
    BY <2>2, SeedWithHeapPtr
  <2> HIDE DEF n
  <2>4. n.cycle_count = p.cycle_count /\ p.cycle_count = m.cycle_count
    BY <1>4, <2>2, <2>3, SeedKeptCount DEF Calm, Changing
  <2>5. SeedEffect(m, n, i)
    BY <1>1, <1>4, <2>3, <2>4, SeedNumbers DEF SeedEffect, Calm, Keeps
  <2> QED  BY <2>1, <2>5
<1>7. CASE ~ (top <= HeapSize)
  <2> DEFINE n == [q EXCEPT !.overflow = TRUE]
  <2>1. S!op_alloc(m, i.o) = n
    BY <1>3, <1>7
  <2>2. Core(n) /\ Keeps(m, n, Changing) /\ n.reg = q.reg /\ n.pc = q.pc /\ n.state = q.state
    BY <1>4 DEF Calm, Core, CoreFields, Keeps, Changing
  <2> HIDE DEF n
  <2>3. Calm(m, n, Named(i))
    BY <1>1, <1>4, <2>2 DEF Calm
  <2> QED  BY <1>1, <2>1, <2>3, SeedCalmEffect
<1> QED  BY <1>6, <1>7

LEMMA OctetsAreWords == Octets \subseteq Words /\ Octets \subseteq Nat
  BY Sizes DEF Octets, Words

(* SP counts bytes here, one more or one less. *)
LEMMA SeedPointer ==
  ASSUME NEW m, SeedTyped(m)
  PROVE  /\ m.reg[SP] < StackSize =>
              /\ (m.reg[SP] + 1) % B!Word = m.reg[SP] + 1
              /\ m.stack[m.reg[SP]] \in Octets
         /\ m.reg[SP] # 0 => (m.reg[SP] - 1) % B!Word = m.reg[SP] - 1
         /\ m.reg[SP] \in Nat /\ 13 \in 0..15 /\ SP = 13
         /\ m.reg[SP] + 1 \in Int /\ m.reg[SP] - 1 \in Int
<1>1. m.reg[SP] \in Nat /\ m.reg[SP] < B!Word /\ SP = 13
  BY SeedNumbers
<1>2. m.stack \in [0..(StackSize - 1) -> Octets]
  BY DEF SeedTyped
<1> DEFINE sp == m.reg[SP]
<1>3. sp < StackSize => sp \in 0..(StackSize - 1) /\ sp + 1 \in Nat /\ sp + 1 < B!Word
  BY <1>1, Sizes
<1>4. sp # 0 => sp - 1 \in Nat /\ sp - 1 < B!Word
  BY <1>1, Sizes
<1> HIDE DEF sp
<1>5. sp < StackSize => (sp + 1) % B!Word = sp + 1
  BY <1>3, ModWord
<1>6. sp # 0 => (sp - 1) % B!Word = sp - 1
  BY <1>4, ModWord
<1>7. sp < StackSize => m.stack[sp] \in Octets
  BY <1>2, <1>3
<1> QED  BY <1>1, <1>5, <1>6, <1>7 DEF sp

LEMMA SeedMoved ==
  ASSUME NEW m, SeedTyped(m), NEW v \in Int
  PROVE  LET p == B!Put(m, SP, v)
         IN  /\ SeedTyped(p) /\ DOMAIN p = DOMAIN m /\ p.reg[SP] = v % B!Word
             /\ \A r \in 0..15 : r # SP => p.reg[r] = m.reg[r]
             /\ p.state = m.state /\ p.stack = m.stack /\ p.heap = m.heap
             /\ p.heap_ptr = m.heap_ptr /\ p.pc = m.pc /\ p.cycle_count = m.cycle_count
<1> DEFINE p == B!Put(m, SP, v)
<1>1. SP \in 0..15 /\ Core(m)
  BY DEF SP, SeedTyped
<1>2. Core(p) /\ Keeps(m, p, {"reg"}) /\ p.reg = [m.reg EXCEPT ![SP] = v % B!Word]
  BY <1>1, PutEffect
<1>3. Calm(m, p, {SP})
  BY <1>1, PutCalm
<1>4. m.reg \in [0..15 -> Words]
  BY <1>1, Zenon DEF Core
<1> HIDE DEF p
<1>5. SeedTyped(p) /\ DOMAIN p = DOMAIN m
  BY <1>3, SeedCalmTyped
<1>6. /\ p.reg[SP] = v % B!Word
      /\ \A r \in 0..15 : r # SP => p.reg[r] = m.reg[r]
  BY <1>1, <1>2, <1>4
<1>7. p.state = m.state /\ p.stack = m.stack /\ p.heap = m.heap /\ p.heap_ptr = m.heap_ptr
      /\ p.pc = m.pc
  BY <1>2 DEF Keeps, SeedTyped, Core, CoreFields
<1>8. p.cycle_count = m.cycle_count
  BY <1>2, SeedKeptCount
<1> QED  BY <1>5, <1>6, <1>7, <1>8 DEF p

(* RETURN and WELL take a byte, PUSH_UP puts one.                           *)
LEMMA SeedReturns ==
  ASSUME NEW m, SeedTyped(m), NEW i, Instr(i), i.op = 1
  PROVE  SeedEffect(m, S!op_return(m, i.o), i)
<1> DEFINE p == B!Put(m, SP, m.reg[SP] + 1)
           n == [p EXCEPT !.pc = m.stack[m.reg[SP]]]
<1>1. ~ SeedPushes(m, i) /\ (SeedPops(m, i) <=> m.reg[SP] < StackSize)
  BY DEF SeedPushes, SeedPops, IsPush, IsPop
<1>2. CASE m.reg[SP] < StackSize
  <2>1. S!op_return(m, i.o) = n
    BY <1>2, SameSmall DEF S!op_return, SP
  <2>2. /\ SeedTyped(p) /\ DOMAIN p = DOMAIN m /\ p.reg[SP] = m.reg[SP] + 1 /\ p.state = m.state
        /\ p.cycle_count = m.cycle_count
    BY <1>2, SeedPointer, SeedMoved
  <2>3. m.stack[m.reg[SP]] \in Words
    BY <1>2, SeedPointer, OctetsAreWords
  <2> HIDE DEF p
  <2>4. SeedTyped(n) /\ Keeps(p, n, {"pc"}) /\ n.reg = p.reg /\ n.state = p.state
    BY <2>2, <2>3, SeedWithPc
  <2> HIDE DEF n
  <2>5. n.cycle_count = p.cycle_count
    BY <2>2, <2>4, SeedKeptCount
  <2>6. SeedEffect(m, n, i)
    BY <1>1, <1>2, <2>2, <2>4, <2>5 DEF SeedEffect, Keeps
  <2> QED  BY <2>1, <2>6
<1>3. CASE ~ (m.reg[SP] < StackSize)
  <2> DEFINE e == B!End(m, "HALTED")
  <2>1. S!op_return(m, i.o) = e
    BY <1>3, SameSmall DEF S!op_return, SP
  <2>2. Keeps(m, e, {"state"}) /\ e.state = "HALTED" /\ e = [f \in DOMAIN e |-> e[f]]
    BY DEF B!End, SeedTyped, Core, CoreFields, Keeps
  <2> HIDE DEF e
  <2>3. Core(m)
    BY DEF SeedTyped
  <2>4. Core(e) /\ Keeps(m, e, Changing) /\ e.reg = m.reg /\ e.pc = m.pc
    BY <2>2, <2>3 DEF Core, CoreFields, Keeps, Changing, States
  <2>5. Calm(m, e, Named(i))
    BY <2>2, <2>4, SeedNumbers DEF Calm
  <2> QED  BY <1>1, <1>3, <2>1, <2>5, SeedCalmEffect
<1> QED  BY <1>2, <1>3

LEMMA SeedWells ==
  ASSUME NEW m, SeedTyped(m), NEW i, Instr(i), i.op = 22
  PROVE  SeedEffect(m, S!op_well(m, i.o), i)
<1> DEFINE r == i.o[1] % 16
           read == B!Put(m, r, m.stack[m.reg[SP]])
           n == B!Put(read, SP, read.reg[SP] + 1)
<1>1. ~ SeedPushes(m, i) /\ (SeedPops(m, i) <=> m.reg[SP] < StackSize)
  BY DEF SeedPushes, SeedPops, IsPush, IsPop
<1>2. r \in 0..15 /\ Named(i) = {r} /\ B!Dst(i.o) = r
  BY DEF Instr, Octets, Named, WithFirst, WithoutRegister, B!Dst
<1> HIDE DEF r
<1>3. CASE m.reg[SP] < StackSize
  <2>1. S!op_well(m, i.o) = n
    BY <1>2, <1>3, SameSmall DEF S!op_well, SP
  <2>2. m.stack[m.reg[SP]] \in Int
    <3>1. m.stack[m.reg[SP]] \in Octets
      BY <1>3, SeedPointer
    <3> QED  BY <3>1 DEF Octets
  <2>3. Calm(m, read, {r})
    BY <1>2, <2>2, PutCalm DEF SeedTyped
  <2>4. read.state = m.state
    BY DEF B!Put, SeedTyped, Core, CoreFields
  <2> HIDE DEF read
  <2>5. SeedTyped(read) /\ DOMAIN read = DOMAIN m /\ read.cycle_count = m.cycle_count
    <3>1. SeedTyped(read) /\ DOMAIN read = DOMAIN m
      BY <2>3, SeedCalmTyped
    <3>2. Keeps(m, read, Changing)
      BY <2>3 DEF Calm
    <3>3. read.cycle_count = m.cycle_count
      BY <3>2, SeedKeptCount DEF Changing
    <3> QED  BY <3>1, <3>3
  <2>6. SeedTyped(n) /\ DOMAIN n = DOMAIN read /\ n.reg[SP] = (read.reg[SP] + 1) % B!Word
        /\ n.state = read.state /\ n.cycle_count = read.cycle_count
    BY <2>5, SeedPointer, SeedMoved
  <2> HIDE DEF n
  <2>7. SP # r => read.reg[SP] = m.reg[SP]
    BY <2>3, SeedNumbers DEF Calm
  <2>8. SP # r => n.reg[SP] = m.reg[SP] + 1
    BY <1>3, <2>6, <2>7, SeedPointer
  <2>9. SeedEffect(m, n, i)
    BY <1>1, <1>2, <1>3, <2>4, <2>5, <2>6, <2>8 DEF SeedEffect
  <2> QED  BY <2>1, <2>9
<1>4. CASE ~ (m.reg[SP] < StackSize)
  <2>1. S!op_well(m, i.o) = m
    BY <1>4 DEF S!op_well, SP
  <2> QED  BY <1>1, <1>4, <2>1, SeedIdle
<1> QED  BY <1>3, <1>4

LEMMA SeedEnds ==
  ASSUME NEW m, SeedTyped(m), NEW state \in States
  PROVE  LET e == [m EXCEPT !.state = state]
         IN  /\ SeedTyped(e) /\ DOMAIN e = DOMAIN m /\ e.reg = m.reg /\ e.state = state
             /\ e.stack = m.stack /\ e.heap = m.heap /\ e.heap_ptr = m.heap_ptr /\ e.pc = m.pc
             /\ Keeps(m, e, {"state"}) /\ e.cycle_count = m.cycle_count
<1> DEFINE e == [m EXCEPT !.state = state]
<1>0. Core(m)
  BY DEF SeedTyped
<1>1. Core(e) /\ Keeps(m, e, {"state"}) /\ e.reg = m.reg /\ e.state = state /\ e.pc = m.pc
  BY <1>0 DEF Core, CoreFields, Keeps
<1>2. e.stack = m.stack /\ e.heap = m.heap /\ e.heap_ptr = m.heap_ptr /\ e.barriers = m.barriers
  BY DEF SeedTyped
<1> HIDE DEF e
<1>3. SeedTyped(e)
  BY <1>1, <1>2 DEF SeedTyped, Keeps
<1>4. e.cycle_count = m.cycle_count
  BY <1>1, SeedKeptCount
<1> QED  BY <1>1, <1>2, <1>3, <1>4 DEF e, Keeps

LEMMA SeedPushesEffect ==
  ASSUME NEW m, SeedTyped(m), NEW i, Instr(i), i.op = 6
  PROVE  SeedEffect(m, S!op_push_up(m, i.o), i)
<1> DEFINE sp == m.reg[SP] - 1
           moved == B!Put(m, SP, sp)
           v == moved.reg[B!Dst(i.o)] % 256
           g == [moved.stack EXCEPT ![sp] = v]
           n == [moved EXCEPT !.stack[sp] = v]
           e == B!End(moved, "FAULT")
<1>1. (SeedPushes(m, i) <=> m.reg[SP] # 0) /\ ~ SeedPops(m, i)
  BY DEF SeedPushes, SeedPops, IsPush, IsPop
<1>2. CASE m.reg[SP] = 0
  <2>1. S!op_push_up(m, i.o) = m
    BY <1>2 DEF S!op_push_up, SP
  <2> QED  BY <1>1, <1>2, <2>1, SeedIdle
<1>3. CASE m.reg[SP] # 0
  <2>1. SeedTyped(moved) /\ DOMAIN moved = DOMAIN m /\ moved.reg[SP] = sp
        /\ moved.state = m.state /\ moved.cycle_count = m.cycle_count /\ sp \in Nat
    <3>1. sp \in Nat /\ sp \in Int /\ sp % B!Word = sp
      BY <1>3, SeedPointer
    <3> HIDE DEF sp
    <3>2. SeedTyped(moved) /\ DOMAIN moved = DOMAIN m /\ moved.reg[SP] = sp % B!Word
          /\ moved.state = m.state /\ moved.cycle_count = m.cycle_count
      BY <3>1, SeedMoved
    <3> QED  BY <3>1, <3>2
  <2>2. S!op_push_up(m, i.o) = IF sp < StackSize THEN n ELSE e
    BY <1>3, <2>1, SameSmall DEF S!op_push_up, SP
  <2>3. B!Dst(i.o) \in 0..15
    BY DEF Instr, Octets, B!Dst
  <2> HIDE DEF sp, moved
  <2>4. v \in Octets
    <3>1. moved.reg[B!Dst(i.o)] \in Nat
      BY <2>1, <2>3, SeedNumbers
    <3> QED  BY <3>1 DEF Octets
  <2> HIDE DEF v
  <2>5. CASE sp < StackSize
    <3>1. g \in [0..(StackSize - 1) -> Octets]
      BY <2>1, <2>4 DEF SeedTyped
    <3>2. n = [moved EXCEPT !.stack = g]
      BY <2>1 DEF SeedTyped, Core
    <3> HIDE DEF n, g
    <3>3. SeedTyped(n) /\ Keeps(moved, n, {"stack"}) /\ n.reg = moved.reg /\ n.state = moved.state
      BY <2>1, <3>1, <3>2, SeedWithStack
    <3>4. n.cycle_count = moved.cycle_count
      BY <2>1, <3>3, SeedKeptCount
    <3>5. SeedEffect(m, n, i)
      BY <1>1, <1>3, <2>1, <3>3, <3>4 DEF SeedEffect, Keeps, sp
    <3> QED  BY <2>2, <2>5, <3>5
  <2>6. CASE ~ (sp < StackSize)
    <3>1. SeedTyped(e) /\ DOMAIN e = DOMAIN moved /\ e.reg = moved.reg /\ e.state = "FAULT"
          /\ e.cycle_count = moved.cycle_count
      BY <2>1, SeedEnds DEF B!End, States
    <3> HIDE DEF e
    <3>2. SeedEffect(m, e, i)
      BY <1>1, <1>3, <2>1, <2>6, <3>1, Sizes DEF SeedEffect, sp
    <3> QED  BY <2>2, <2>6, <3>2
  <2> QED  BY <2>5, <2>6
<1> QED  BY <1>2, <1>3

(* Every instruction of the predecessor.                                    *)
LEMMA SeedHandlerEffect ==
  ASSUME NEW m, SeedTyped(m), m.pc >= 4, NEW i, Instr(i), program \in Programs
  PROVE  SeedEffect(m, S!opcode_handlers(i.op, m, i.md, i.o), i)
<1> DEFINE n == S!opcode_handlers(i.op, m, i.md, i.o)
<1>1. CASE i.op \notin B!OwnOps
  <2>1. n = S!Common(i.op, m, i.o)
    BY <1>1, SameSmall DEF S!opcode_handlers, B!OwnOps
  <2>2. S!Common(i.op, m, i.o) = B!Common(i.op, m, i.o)
    BY SameOps
  <2>3. Core(m) /\ ~ SeedPushes(m, i) /\ ~ SeedPops(m, i)
    BY <1>1 DEF SeedTyped, SeedPushes, SeedPops, IsPush, IsPop, B!OwnOps
  <2>4. Calm(m, B!Common(i.op, m, i.o), Named(i))
    BY <1>1, <2>3, CommonCalm
  <2>5. SeedEffect(m, B!Common(i.op, m, i.o), i)
    BY <2>3, <2>4, SeedCalmEffect
  <2> QED  BY <2>1, <2>2, <2>5
<1>2. CASE i.op \in {1, 2, 6, 17, 22, 33}
  <2>1. /\ i.op = 1 => n = S!op_return(m, i.o)
        /\ i.op = 2 => n = S!op_branch(m, i.md, i.o)
        /\ i.op = 6 => n = S!op_push_up(m, i.o)
        /\ i.op = 17 => n = S!op_alloc(m, i.o)
        /\ i.op = 22 => n = S!op_well(m, i.o)
        /\ i.op = 33 => n = S!op_nourish(m, i.o)
    BY SameSmall DEF S!opcode_handlers, B!OwnOps
  <2>2. i.op = 1 \/ i.op = 2 \/ i.op = 6 \/ i.op = 17 \/ i.op = 22 \/ i.op = 33
    BY <1>2
  <2> HIDE DEF n
  <2>3. /\ i.op = 1 => SeedEffect(m, S!op_return(m, i.o), i)
        /\ i.op = 2 => SeedEffect(m, S!op_branch(m, i.md, i.o), i)
        /\ i.op = 6 => SeedEffect(m, S!op_push_up(m, i.o), i)
        /\ i.op = 17 => SeedEffect(m, S!op_alloc(m, i.o), i)
        /\ i.op = 22 => SeedEffect(m, S!op_well(m, i.o), i)
        /\ i.op = 33 => SeedEffect(m, S!op_nourish(m, i.o), i)
    BY SeedReturns, SeedBranches, SeedPushesEffect, SeedAllocates, SeedWells, SeedNourishes
  <2> QED  BY <2>1, <2>2, <2>3 DEF n
<1>3. CASE i.op \in {0, 41, 48, 54}
  <2>1. /\ i.op = 0 => n = S!op_recv(m, i.o)
        /\ i.op = 41 => n = S!op_bite(m, i.o)
        /\ i.op = 48 => n = S!op_contemplate(m, i.o)
        /\ i.op = 54 => n = S!op_penetrate(m, i.o)
    BY SameSmall DEF S!opcode_handlers, B!OwnOps
  <2>2. i.op = 0 \/ i.op = 41 \/ i.op = 48 \/ i.op = 54
    BY <1>3
  <2> HIDE DEF n
  <2> QED  BY <2>1, <2>2, SeedQuiets DEF n
<1>4. CASE i.op \in {10, 21, 58, 47, 50}
  <2>1. /\ i.op = 10 => n = S!op_unlock(m, i.o)
        /\ i.op = 21 => n = S!op_sync(m, i.o)
        /\ i.op = 58 => n = S!op_lock(m, i.o)
        /\ i.op = 47 => n = S!op_abundance(m, i.o)
        /\ i.op = 50 => n = S!op_disperse(m, i.o)
    BY SameSmall DEF S!opcode_handlers, B!OwnOps
  <2> HIDE DEF n
  <2>2. CASE i.op \in {10, 21, 58}
    <3>1. i.op = 10 \/ i.op = 21 \/ i.op = 58
      BY <2>2
    <3>2. /\ SeedEffect(m, S!op_lock(m, i.o), i)
          /\ SeedEffect(m, S!op_unlock(m, i.o), i)
          /\ SeedEffect(m, S!op_sync(m, i.o), i)
      BY <2>2, SeedLocks
    <3> QED  BY <2>1, <3>1, <3>2 DEF n
  <2>3. CASE i.op \in {47, 50}
    <3>1. n = IF i.op = 47 THEN S!op_abundance(m, i.o) ELSE S!op_disperse(m, i.o)
      BY <2>1, <2>3
    <3>2. SeedEffect(m, n, i)
      BY <2>3, <3>1, SeedStores
    <3> QED  BY <3>2 DEF n
  <2> QED  BY <1>4, <2>2, <2>3
<1> QED  BY <1>1, <1>2, <1>3, <1>4 DEF B!OwnOps

(* A cycle of the predecessor. *)
SeedFetched == [seed EXCEPT !.pc = seed.pc + 4]

LEMMA SeedInstrTyped ==
  ASSUME SeedTyped(seed), program \in Programs, seed.pc + 3 < Len(program)
  PROVE  Instr(SeedInstr) /\ seed.pc + 4 \in Words /\ seed.pc \in Nat
<1> DEFINE c0 == program[seed.pc + 0 + 1]
           c1 == program[seed.pc + 1 + 1]
           c2 == program[seed.pc + 2 + 1]
           c3 == program[seed.pc + 3 + 1]
<1>1. seed.pc \in Nat /\ program \in Seq(Octets) /\ Len(program) \in Nat
      /\ Len(program) + 4 <= B!Word
  BY SeedNumbers, ProgramsAssumption DEF Octets, B!Word
<1>2. c0 \in Octets /\ c1 \in Octets /\ c2 \in Octets /\ c3 \in Octets
  BY <1>1
<1>3. SeedInstr = [op |-> c0 \div 4, md |-> 16 * (c0 % 4) + (c1 % 16), o |-> <<c2, c3>>]
  BY DEF SeedInstr, Decoded
<1> HIDE DEF c0, c1, c2, c3
<1>4. c0 \div 4 \in 0..63 /\ 16 * (c0 % 4) + (c1 % 16) \in 0..63
  BY <1>2 DEF Octets
<1>5. seed.pc + 4 \in Words
  BY <1>1, Sizes DEF Words
<1> QED  BY <1>1, <1>2, <1>3, <1>4, <1>5 DEF Instr

LEMMA SeedExecutedForm ==
  ASSUME seed.pc \in Nat
  PROVE  S!Executed = S!opcode_handlers(SeedInstr.op, SeedFetched, SeedInstr.md, SeedInstr.o)
<1>1. S!Executed = S!opcode_handlers(program[seed.pc + 1] \div 4, [seed EXCEPT !.pc = seed.pc + 4],
              16 * (program[seed.pc + 1] % 4) + (program[seed.pc + 1 + 1] % 16),
              <<program[seed.pc + 2 + 1], program[seed.pc + 3 + 1]>>)
  BY Zenon DEF S!Executed, S!At
<1>2. SeedInstr = [op |-> program[seed.pc + 0 + 1] \div 4,
                   md |-> 16 * (program[seed.pc + 0 + 1] % 4) + (program[seed.pc + 1 + 1] % 16),
                   o |-> <<program[seed.pc + 2 + 1], program[seed.pc + 3 + 1]>>]
  BY DEF SeedInstr, Decoded
<1>3. seed.pc + 0 + 1 = seed.pc + 1
  OBVIOUS
<1> QED  BY <1>1, <1>2, <1>3 DEF SeedFetched

LEMMA SeedExecutedEffect ==
  ASSUME SeedTyped(seed), program \in Programs, seed.pc + 3 < Len(program)
  PROVE  /\ SeedTyped(SeedFetched) /\ SeedFetched.reg = seed.reg /\ SeedFetched.state = seed.state
         /\ Instr(SeedInstr) /\ SeedEffect(SeedFetched, S!Executed, SeedInstr)
<1>1. Instr(SeedInstr) /\ seed.pc + 4 \in Words /\ seed.pc \in Nat
  BY SeedInstrTyped
<1>2. SeedTyped(SeedFetched) /\ SeedFetched.pc = seed.pc + 4
      /\ SeedFetched.reg = seed.reg /\ SeedFetched.state = seed.state
  BY <1>1, SeedWithPc DEF SeedFetched
<1>3. S!Executed = S!opcode_handlers(SeedInstr.op, SeedFetched, SeedInstr.md, SeedInstr.o)
  BY <1>1, SeedExecutedForm
<1>4. SeedFetched.pc >= 4
  BY <1>1, <1>2
<1> QED  BY <1>1, <1>2, <1>3, <1>4, SeedHandlerEffect, Zenon

-----------------------------------------------------------------------------
(* Both machines. *)

SeedOk == SeedTyped(seed) /\ program \in Programs /\ seedPhase \in Phases

(* The predecessor executes an instruction.                                *)
SeedSteps ==
  /\ SeedActs /\ Moves /\ seed' = [S!Executed EXCEPT !.cycle_count = @ + 1]
  /\ seedPhase' = seedPhase

(* It does anything else, or nothing.                                      *)
SeedRests ==
  /\ SeedTyped(seed') /\ Keeps(seed, seed', {"state"}) /\ seedPhase' \in Phases
  /\ seed'.state \in {seed.state, "RUNNING", "HALTED"}

(* A run moves the pointers only as the instructions say.                  *)
Recorded == Moves \/ (hist' = hist /\ Rests /\ SeedRests)

(* Counting a cycle changes nothing else.                                   *)
LEMMA SeedCounts ==
  ASSUME NEW m, SeedTyped(m)
  PROVE  LET n == [m EXCEPT !.cycle_count = @ + 1]
         IN  /\ SeedTyped(n) /\ Keeps(m, n, {"cycle_count"}) /\ n.reg = m.reg /\ n.state = m.state
             /\ n.cycle_count = m.cycle_count + 1
<1> DEFINE n == [m EXCEPT !.cycle_count = @ + 1]
<1>1. n = [m EXCEPT !.cycle_count = m.cycle_count + 1]
  OBVIOUS
<1>2. Core(m) /\ m.cycle_count + 1 \in Nat
  <2>1. Core(m)
    BY DEF SeedTyped
  <2>2. m.cycle_count \in Nat
    BY <2>1, Zenon DEF Core
  <2> QED  BY <2>1, <2>2
<1> DEFINE c == m.cycle_count + 1
<1>3. n = [m EXCEPT !.cycle_count = c] /\ c \in Nat
  BY <1>1, <1>2
<1> HIDE DEF n, c
<1>4. Keeps(m, n, {"cycle_count"}) /\ n.cycle_count = c
  BY <1>2, <1>3 DEF Keeps, Core, CoreFields
<1>5. n = [f \in DOMAIN n |-> n[f]]
  BY <1>2, <1>3 DEF Core
<1>6. Core(n)
  BY <1>2, <1>3, <1>4, <1>5 DEF Core, CoreFields, Keeps
<1>7. /\ n.reg = m.reg /\ n.state = m.state /\ n.stack = m.stack /\ n.heap = m.heap
      /\ n.heap_ptr = m.heap_ptr /\ n.barriers = m.barriers
  BY <1>2, <1>4 DEF Keeps, SeedTyped, Core, CoreFields
<1>8. {"stack", "heap", "heap_ptr", "locks", "barriers"} \subseteq DOMAIN n
  BY <1>4 DEF Keeps, SeedTyped
<1>9. SeedTyped(n)
  BY <1>6, <1>7, <1>8 DEF SeedTyped
<1> QED  BY <1>4, <1>7, <1>9 DEF n, c

LEMMA SeedStateRests ==
  ASSUME SeedOk, NEW state \in {"RUNNING", "HALTED"}, seed' = [seed EXCEPT !.state = state],
         seedPhase' \in Phases
  PROVE  SeedRests
<1>1. state \in States
  BY DEF States
<1> DEFINE e == [seed EXCEPT !.state = state]
<1>2. SeedTyped(e) /\ Keeps(seed, e, {"state"}) /\ e.state = state
  BY <1>1, SeedEnds DEF SeedOk
<1> HIDE DEF e
<1>3. seed' = e
  BY DEF e
<1> QED  BY <1>2, <1>3 DEF SeedRests

LEMMA SeedIdles ==
  ASSUME SeedOk, seed' = seed, seedPhase' \in Phases
  PROVE  SeedRests
<1>1. seed'.state = seed.state /\ Keeps(seed, seed', {"state"})
  BY DEF Keeps
<1>2. SeedTyped(seed')
  BY DEF SeedOk
<1> QED  BY <1>1, <1>2 DEF SeedRests

LEMMA SeedMoves ==
  ASSUME SeedOk, BootOk, [Next]_vars
  PROVE  (SeedSteps \/ SeedRests) /\ SeedOk' /\ Recorded
<1>1. ASSUME SeedSteps \/ SeedRests, program' = program
      PROVE  SeedOk'
  <2>1. CASE SeedSteps
    <3> DEFINE n == S!Executed
    <3>1. SeedTyped(n)
      BY <2>1, SeedExecutedEffect DEF SeedOk, SeedSteps, SeedActs, SeedEffect
    <3>2. seed' = [n EXCEPT !.cycle_count = @ + 1]
      BY <2>1 DEF SeedSteps
    <3> HIDE DEF n
    <3>3. SeedTyped(seed')
      BY <3>1, <3>2, SeedCounts
    <3>4. seedPhase' \in Phases /\ program' \in Programs
      BY <1>1, <2>1 DEF SeedSteps, SeedOk
    <3> QED  BY <3>3, <3>4 DEF SeedOk, SeedTyped, Core, Words, B!Word
  <2>2. CASE SeedRests
    <3>1. SeedTyped(seed') /\ seedPhase' \in Phases /\ program' \in Programs
      BY <1>1, <2>2 DEF SeedRests, SeedOk
    <3> QED  BY <3>1 DEF SeedOk, SeedTyped, Core, Words, B!Word
  <2> QED  BY <1>1, <2>1, <2>2
<1>2. HistNext => Moves
  BY HistSteps DEF BootOk
<1>3. Acts \/ Rests
  BY BootMoves
<1>4. CASE \E c \in Budgets : Start(c)
  <2>1. /\ seed' = [seed EXCEPT !.state = "RUNNING"] /\ seedPhase' = "running"
        /\ program' = program /\ hist' = hist /\ bootPhase = "loaded"
    BY <1>4 DEF Start, S!Run, B!Run
  <2>2. "running" \in Phases
    BY DEF Phases
  <2>3. SeedRests
    BY <2>1, <2>2, SeedStateRests
  <2>4. ~ Acts
    BY <2>1 DEF Acts
  <2> QED  BY <1>1, <1>3, <2>1, <2>3, <2>4 DEF Recorded
<1>5. ASSUME S!Step, HistNext
      PROVE  (SeedSteps \/ SeedRests) /\ SeedOk' /\ Recorded
  <2>1. CASE S!Cycle
    BY <1>1, <1>2, <1>5, <2>1 DEF S!Cycle, SeedSteps, SeedActs, Recorded
  <2>2. CASE S!EndOfProgram
    <3>1. seed' = [seed EXCEPT !.state = "HALTED"] /\ seedPhase' = seedPhase /\ program' = program
      BY <2>2 DEF S!EndOfProgram, S!End
    <3>2. SeedRests
      BY <3>1, SeedStateRests DEF SeedOk
    <3> QED  BY <1>1, <1>2, <1>5, <3>1, <3>2 DEF Recorded
  <2>3. CASE S!Return
    <3>1. seed' = seed /\ seedPhase' = "returned" /\ program' = program
      BY <2>3 DEF S!Return
    <3>2. SeedRests
      BY <3>1, SeedIdles DEF Phases
    <3> QED  BY <1>1, <1>2, <1>5, <3>1, <3>2 DEF Recorded
  <2> QED  BY <1>5, <2>1, <2>2, <2>3 DEF S!Step
<1>6. CASE Together \/ SeedAlone
  BY <1>5, <1>6 DEF Together, SeedAlone
<1>7. CASE BootAlone
  <2>1. HistNext /\ seed' = seed /\ seedPhase' = seedPhase
    BY <1>7 DEF BootAlone, seedVars
  <2>2. program' = program
    BY <1>7 DEF BootAlone, B!Step, B!Cycle, B!EndOfMemory, B!Return, B!Free
  <2>3. SeedRests
    BY <2>1, SeedIdles DEF SeedOk
  <2> QED  BY <1>1, <1>2, <2>1, <2>2, <2>3 DEF Recorded
<1>8. CASE UNCHANGED vars
  <2>1. hist' = hist /\ UNCHANGED bootVars /\ seed' = seed /\ seedPhase' = seedPhase
        /\ program' = program
    BY <1>8 DEF vars, seedVars
  <2>2. SeedRests
    BY <2>1, SeedIdles DEF SeedOk
  <2>3. Rests
    BY <2>1, IdleMoves DEF Recalls
  <2> QED  BY <1>1, <2>1, <2>2, <2>3 DEF Recorded
<1> QED  BY <1>4, <1>6, <1>7, <1>8 DEF Next

LEMMA SeedInitTyped ==
  /\ SeedTyped(S!vm_init) /\ S!vm_init.reg[SP] = StackSize /\ S!vm_init.state = "INIT"
<1> DEFINE regs  == [r \in 0..15 |-> IF r \in {12, 13} THEN StackSize ELSE 0]
           cells == [a \in 0..(StackSize - 1) |-> 0]
           zeros == [a \in 0..(HeapSize - 1) |-> 0]
           waits == [b \in 0..255 |-> 0]
           v == [reg |-> regs, stack |-> cells, heap |-> zeros,
                 heap_ptr |-> 0, pc |-> 0, state |-> "INIT",
                 zero |-> FALSE, negative |-> FALSE, overflow |-> FALSE,
                 locks |-> {}, barriers |-> waits,
                 threads |-> 1, futures |-> 0, cycle_count |-> 0, energy |-> 0, out |-> << >>]
<1>1. StackSize \in Words /\ 0 \in Words /\ 0 \in Octets /\ 0 \in 0..HeapSize
  BY Sizes DEF Words, Octets
<1>2. /\ regs \in [0..15 -> Words] /\ regs[13] = StackSize
      /\ cells \in [0..(StackSize - 1) -> Octets] /\ zeros \in [0..(HeapSize - 1) -> Octets]
      /\ waits \in [0..255 -> Words]
  BY <1>1
<1>3. v = S!vm_init
  BY Zenon DEF S!vm_init
<1> HIDE DEF regs, cells, zeros, waits
<1>4. /\ v = [f \in DOMAIN v |-> v[f]] /\ CoreFields \subseteq DOMAIN v
      /\ {"stack", "heap", "heap_ptr", "locks", "barriers"} \subseteq DOMAIN v
  BY DEF CoreFields
<1>5. /\ v.reg = regs /\ v.pc = 0 /\ v.state = "INIT" /\ v.stack = cells /\ v.heap = zeros
      /\ v.heap_ptr = 0 /\ v.barriers = waits
      /\ v.threads = 1 /\ v.futures = 0 /\ v.cycle_count = 0 /\ v.energy = 0
  OBVIOUS
<1>6. v.zero \in BOOLEAN /\ v.negative \in BOOLEAN /\ v.overflow \in BOOLEAN
  OBVIOUS
<1> HIDE DEF v
<1>7. "INIT" \in States /\ 1 \in Nat /\ 0 \in Nat /\ 0 \in Int
  BY DEF States
<1>8. Core(v)
  BY <1>1, <1>2, <1>4, <1>5, <1>6, <1>7, Zenon DEF Core
<1>9. SeedTyped(v)
  BY <1>1, <1>2, <1>4, <1>5, <1>8 DEF SeedTyped
<1> QED  BY <1>2, <1>3, <1>5, <1>9 DEF SP

LEMMA SeedBegins ==
  ASSUME Init
  PROVE  SeedOk /\ seed.reg[SP] = StackSize /\ seed.state = "INIT"
<1>1. program \in Programs /\ seed = S!vm_init /\ seedPhase = "loaded"
  BY DEF Init, S!Init
<1> QED  BY <1>1, SeedInitTyped DEF SeedOk, Phases

(* What Contained needs: pc of the bootstrap machine is in its memory, or  *)
(* so far behind it that the loop ends, but not so far that pc + 3 wraps.  *)
Inside ==
  /\ ~ hist.moved => /\ seed.reg[SP] \in 0..StackSize /\ seed.state # "FAULT"
                     /\ boot.reg[SP] \in 0..(StackSize - 1)
  /\ ~ hist.wild => boot.state # "FAULT" /\ boot.pc + 3 < B!Word

ContainedInv == BootOk /\ SeedOk /\ Inside

(* SP and pc stay inside where no instruction names SP.                     *)
LEMMA SeedInside ==
  ASSUME SeedOk, SeedSteps \/ SeedRests, SeedSteps => SP \notin Named(SeedInstr),
         seed.reg[SP] \in 0..StackSize, seed.state # "FAULT"
  PROVE  seed'.reg[SP] \in 0..StackSize /\ seed'.state # "FAULT"
<1>1. CASE SeedRests
  <2>1. seed'.reg = seed.reg
    BY <1>1 DEF SeedRests, Keeps, SeedOk, SeedTyped, Core, CoreFields
  <2> QED  BY <1>1, <2>1 DEF SeedRests
<1>2. CASE SeedSteps
  <2> DEFINE n == S!Executed
             i == SeedInstr
  <2>1. SeedFetched.reg = seed.reg /\ SeedFetched.state = seed.state
        /\ SeedEffect(SeedFetched, n, i)
    BY <1>2, SeedExecutedEffect DEF SeedSteps, SeedActs, SeedOk
  <2>2. seed' = [n EXCEPT !.cycle_count = @ + 1] /\ SP \notin Named(i)
    BY <1>2 DEF SeedSteps
  <2>3. SeedTyped(n)
    BY <2>1 DEF SeedEffect
  <2> HIDE DEF n, i
  <2>4. seed'.reg = n.reg /\ seed'.state = n.state
    BY <2>2, <2>3, SeedCounts
  <2>5. seed.reg[SP] \in Nat /\ seed.reg[SP] <= StackSize
    BY Sizes
  <2>6. n.reg[SP] = IF SeedPushes(SeedFetched, i) THEN seed.reg[SP] - 1
                    ELSE IF SeedPops(SeedFetched, i) THEN seed.reg[SP] + 1 ELSE seed.reg[SP]
    BY <2>1, <2>2 DEF SeedEffect
  <2>7. /\ SeedPushes(SeedFetched, i) => seed.reg[SP] # 0
        /\ SeedPops(SeedFetched, i) => seed.reg[SP] < StackSize
    BY <2>1 DEF SeedPushes, SeedPops
  <2>8. n.reg[SP] \in 0..StackSize
    BY <2>5, <2>6, <2>7, Sizes
  <2>9. n.state # "FAULT"
    BY <2>1, <2>5, <2>7, Sizes DEF SeedEffect
  <2> QED  BY <2>4, <2>8, <2>9
<1> QED  BY <1>1, <1>2

LEMMA BootInside ==
  ASSUME BootOk, Acts \/ Rests, Acts => SP \notin Named(BootInstr),
         boot.reg[SP] \in 0..(StackSize - 1)
  PROVE  boot'.reg[SP] \in 0..(StackSize - 1)
<1>1. CASE Rests
  BY <1>1 DEF Rests
<1>2. CASE Acts
  <2>1. Effect(Fetched, boot', BootInstr) /\ Fetched.reg = boot.reg
    BY <1>2, ActsEffect
  <2>2. boot'.reg[SP] = IF Pushes(Fetched, BootInstr) THEN boot.reg[SP] - WordBytes
                ELSE IF Pops(Fetched, BootInstr) THEN boot.reg[SP] + WordBytes ELSE boot.reg[SP]
    BY <1>2, <2>1 DEF Effect, PointerEffect
  <2>3. /\ Pushes(Fetched, BootInstr) => boot.reg[SP] > WordBytes
        /\ Pops(Fetched, BootInstr) => boot.reg[SP] < StackSize - WordBytes
    BY <2>1 DEF Pushes, Pops
  <2> QED  BY <2>2, <2>3, Sizes
<1> QED  BY <1>1, <1>2

LEMMA BootStaysTame ==
  ASSUME BootOk, Acts \/ Rests, ~ hist'.wild, boot.state # "FAULT", boot.pc + 3 < B!Word
  PROVE  boot'.state # "FAULT" /\ boot'.pc + 3 < B!Word
<1>1. boot.pc \in Nat
  BY Sizes DEF BootOk, BootTyped, Core, Words
<1>2. CASE Rests
  <2>1. boot.pc >= MemorySize => B!PastEnd
    <3>1. boot.pc + 3 \in Nat
      BY <1>1
    <3>2. boot.pc >= MemorySize => (boot.pc + 3) % B!Word = boot.pc + 3
      BY <3>1, ModWord
    <3>3. boot.pc >= MemorySize => (boot.pc + 3) % B!Word >= MemorySize
      BY <1>1, <3>2, Sizes
    <3> QED  BY <3>3, Zenon DEF B!PastEnd
  <2> QED  BY <1>2, <2>1 DEF Rests
<1>3. CASE Acts
  <2>1. /\ Effect(Fetched, boot', BootInstr) /\ Remembers(BootInstr)
        /\ Fetched.pc = boot.pc + 4 /\ boot.pc + 3 < MemorySize /\ Fetched.state = boot.state
        /\ BootTyped(boot') /\ Fetched.reg = boot.reg
    BY <1>3, ActsEffect
  <2>2. /\ ~ (IsSyscall(BootInstr) /\ boot.reg[0] \in AddressCalls)
        /\ BootInstr.op = 1 => ~ (boot'.pc + 3 >= B!Word)
    BY <2>1 DEF Remembers
  <2>3. boot'.pc \in Nat
    BY <2>1, Sizes DEF BootTyped, Core, Words
  <2>4. /\ boot'.pc <= Fetched.pc \/ BootInstr.op = 1 \/ boot'.pc < MemorySize
        /\ boot'.state # "FAULT"
    BY <2>1, <2>2 DEF Effect, ControlEffect
  <2> QED  BY <1>1, <2>1, <2>2, <2>3, <2>4, Sizes
<1> QED  BY <1>2, <1>3

LEMMA MovedOnly ==
  ASSUME Recorded, ~ hist'.moved
  PROVE  /\ ~ hist.moved
         /\ Moves \/ (Rests /\ SeedRests)
         /\ Moves => /\ SeedActs => SP \notin Named(SeedInstr)
                     /\ BootActs => SP \notin Named(BootInstr)
  BY DEF Recorded, Moves, MovedOf

LEMMA InsideStays ==
  ASSUME ContainedInv, [Next]_vars
  PROVE  ContainedInv'
<1>1. BootOk /\ SeedOk /\ Inside
  BY DEF ContainedInv
<1>2. (Acts \/ Rests) /\ BootOk' /\ (SeedSteps \/ SeedRests) /\ SeedOk' /\ Recorded
  BY <1>1, BootMoves, SeedMoves
<1>3. ASSUME ~ hist'.moved
      PROVE  /\ seed'.reg[SP] \in 0..StackSize /\ seed'.state # "FAULT"
             /\ boot'.reg[SP] \in 0..(StackSize - 1)
  <2>1. /\ seed.reg[SP] \in 0..StackSize /\ seed.state # "FAULT"
        /\ boot.reg[SP] \in 0..(StackSize - 1)
    BY <1>1, <1>2, <1>3, MovedOnly DEF Inside
  <2>2. CASE Moves
    <3>1. (SeedSteps => SP \notin Named(SeedInstr)) /\ (Acts => SP \notin Named(BootInstr))
      BY <1>2, <1>3, <2>2, MovedOnly DEF SeedSteps, Acts
    <3> QED  BY <1>1, <1>2, <2>1, <3>1, SeedInside, BootInside
  <2>3. CASE Rests /\ SeedRests
    <3>1. seed'.reg = seed.reg /\ boot'.reg = boot.reg
      BY <1>1, <2>3 DEF Rests, SeedRests, Keeps, SeedOk, SeedTyped, Core, CoreFields
    <3>2. seed'.state # "FAULT"
      BY <2>1, <2>3 DEF SeedRests
    <3> QED  BY <2>1, <3>1, <3>2
  <2> QED  BY <1>2, <1>3, <2>2, <2>3, MovedOnly
<1>4. ASSUME ~ hist'.wild
      PROVE  boot'.state # "FAULT" /\ boot'.pc + 3 < B!Word
  <2>1. ~ hist.wild
    <3>1. CASE Acts
      BY <1>1, <1>4, <3>1 DEF Acts, Remembers
    <3>2. CASE Rests
      BY <1>4, <3>2 DEF Rests, Recalls
    <3> QED  BY <1>2, <3>1, <3>2
  <2> QED  BY <1>1, <1>2, <1>4, <2>1, BootStaysTame DEF Inside
<1>5. Inside'
  BY <1>3, <1>4 DEF Inside, SP
<1> QED  BY <1>2, <1>5 DEF ContainedInv

LEMMA InsideBegins == Init => ContainedInv
<1> SUFFICES ASSUME Init PROVE ContainedInv
  OBVIOUS
<1>1. SeedOk /\ seed.reg[SP] = StackSize /\ seed.state = "INIT" /\ BootOk
  BY SeedBegins, BootBegins
<1>2. program \in Programs /\ boot = B!Loaded(program)
  BY <1>1 DEF Init, B!Begin, SeedOk
<1>3. boot.reg[SP] = StackSize - 1 /\ boot.pc = 0 /\ boot.state = "INIT"
  BY <1>2, LoadedTyped
<1>4. Inside
  BY <1>1, <1>3, Sizes DEF Inside
<1> QED  BY <1>1, <1>4 DEF ContainedInv

(* Contained for every program and every size of the arrays: without an    *)
(* instruction that names SP both stack pointers stay in their arrays and  *)
(* the predecessor never faults; the bootstrap machine faults only after a *)
(* system call that takes an address or a character, or a RETURN so high   *)
(* that pc + 3 wraps.                                                      *)
THEOREM StaysInside == Spec => []Contained
<1>1. Init => ContainedInv
  BY InsideBegins
<1>2. ContainedInv /\ [Next]_vars => ContainedInv'
  BY InsideStays
<1>3. ContainedInv => Contained
  BY DEF ContainedInv, Inside, Contained
<1> QED  BY <1>1, <1>2, <1>3, PTL DEF Spec

LEMMA CoreMachine ==
  ASSUME NEW m, Core(m)
  PROVE  Machine(m)
<1>1. Words = 0..(2 ^ Bits - 1)
  BY Zenon DEF Words, B!Word
<1>2. m.reg \in [0..15 -> Words] /\ m.pc \in Words /\ m.state \in States
  BY Zenon DEF Core
<1>3. m.zero \in BOOLEAN /\ m.negative \in BOOLEAN /\ m.overflow \in BOOLEAN
  BY Zenon DEF Core
<1>4. {m.zero, m.negative, m.overflow} \subseteq BOOLEAN
  BY <1>3, Zenon
<1> QED  BY <1>1, <1>2, <1>4, Zenon DEF Machine, States

(* Registers, memories and counters of both machines stay in their types   *)
(* through every instruction and every system call, for any sizes.         *)
THEOREM TypesAreKept == Spec => []TypeOK
<1>1. Init => BootOk /\ SeedOk
  BY BootBegins, SeedBegins
<1>2. BootOk /\ SeedOk /\ [Next]_vars => (BootOk /\ SeedOk)'
  BY BootMoves, SeedMoves
<1>3. BootOk /\ SeedOk => TypeOK
  <2> SUFFICES ASSUME BootOk, SeedOk PROVE TypeOK
    OBVIOUS
  <2>1. SeedTyped(seed) /\ BootTyped(boot) /\ seedPhase \in Phases /\ bootPhase \in Phases
    BY DEF BootOk, SeedOk
  <2>2. Machine(seed) /\ Machine(boot)
    BY <2>1, CoreMachine DEF SeedTyped, BootTyped
  <2>3. /\ seed.stack \in [0..(StackSize - 1) -> 0..255]
        /\ seed.heap \in [0..(HeapSize - 1) -> 0..255]
        /\ seed.heap_ptr \in 0..HeapSize
    BY <2>1, Zenon DEF SeedTyped, Octets
  <2>4. /\ boot.memory \in [0..(MemorySize - 1) -> 0..255]
        /\ boot.heap_ptr \in 0..(StackSize + HeapSize - 1)
        /\ boot.files \subseteq 1..MaxFiles
    BY <2>1, Zenon DEF BootTyped, Octets, B!Addresses
  <2>5. {seedPhase, bootPhase} \subseteq {"loaded", "running", "returned", "freed"}
    BY <2>1, Zenon DEF Phases
  <2> QED  BY <2>2, <2>3, <2>4, <2>5, Zenon DEF TypeOK
<1> QED  BY <1>1, <1>2, <1>3, PTL DEF Spec

-----------------------------------------------------------------------------
(* The two machines alike: s is the predecessor's, b the bootstrap's.      *)

Shared == {"pc", "state", "zero", "negative", "overflow", "threads", "futures", "out"}

Same(s, b) ==
  /\ \A f \in Shared : s[f] = b[f]
  /\ \A r \in 0..15 : r \notin {12, SP} => s.reg[r] = b.reg[r]
  /\ s.energy = 10 * (s.threads - 1)

(* What the predecessor has on its stack, the last byte pushed first.      *)
Bytes(s) == [k \in 1..(StackSize - s.reg[SP]) |-> s.stack[s.reg[SP] + k - 1]]

TextKept(b) ==
  Len(program) <= StackSize /\ \A a \in 0..(Len(program) - 1) : b.memory[a] = program[a + 1]

(* The bootstrap machine has the bytes as words, the data below low, and   *)
(* the program where it was loaded.                                        *)
Linked(s, b, low) ==
  /\ s.reg[SP] \in 0..StackSize /\ b.reg[SP] \in 0..(StackSize - 1)
  /\ low \in Int /\ low <= b.reg[SP]
  /\ Stacked(b, Bytes(s))
  /\ \A a \in Window(low) : s.heap[a] = b.memory[a]
  /\ TextKept(b)

(* One byte more, and one less, on the stack of the predecessor.            *)
LEMMA Prepended ==
  ASSUME NEW q \in Seq(Words), NEW v \in Words
  PROVE  LET t == <<v>> \o q
         IN  /\ t = [k \in 1..(Len(q) + 1) |-> t[k]] /\ t[1] = v
             /\ \A k \in 2..(Len(q) + 1) : t[k] = q[k - 1]
<1> DEFINE t == <<v>> \o q
<1>1. t \in Seq(Words) /\ Len(t) = Len(q) + 1 /\ t[1] = v
  OBVIOUS
<1>2. \A k \in 2..(Len(q) + 1) : t[k] = q[k - 1]
  OBVIOUS
<1> HIDE DEF t
<1> QED  BY <1>1, <1>2 DEF t

LEMMA Shortened ==
  ASSUME NEW q \in Seq(Words), q # << >>
  PROVE  LET t == Tail(q)
         IN  /\ t = [k \in 1..(Len(q) - 1) |-> t[k]]
             /\ \A k \in 1..(Len(q) - 1) : t[k] = q[k + 1]
<1> DEFINE t == Tail(q)
<1>1. t \in Seq(Words) /\ Len(t) = Len(q) - 1
  OBVIOUS
<1>2. \A k \in 1..(Len(q) - 1) : t[k] = q[k + 1]
  OBVIOUS
<1> HIDE DEF t
<1>3. t = [k \in 1..Len(t) |-> t[k]]
  BY <1>1
<1>4. t = [k \in 1..(Len(q) - 1) |-> t[k]]
  BY <1>1, <1>3
<1> QED  BY <1>2, <1>4, Zenon DEF t

LEMMA BytesTyped ==
  ASSUME NEW s, SeedTyped(s), s.reg[SP] \in 0..StackSize
  PROVE  /\ Bytes(s) \in Seq(Octets) /\ Bytes(s) \in Seq(Words)
         /\ Len(Bytes(s)) = StackSize - s.reg[SP]
         /\ \A k \in 1..(StackSize - s.reg[SP]) : Bytes(s)[k] = s.stack[s.reg[SP] + k - 1]
<1> DEFINE sp == s.reg[SP]
           L == StackSize - sp
<1>1. L \in Nat /\ sp \in Nat /\ StackSize \in Nat
  BY Sizes
<1>2. s.stack \in [0..(StackSize - 1) -> Octets]
  BY DEF SeedTyped
<1>3. Bytes(s) = [k \in 1..L |-> s.stack[sp + k - 1]]
  BY DEF Bytes
<1> HIDE DEF sp
<1>4. ASSUME NEW k \in 1..L
      PROVE  s.stack[sp + k - 1] \in Octets
  <2>1. sp + k - 1 \in 0..(StackSize - 1)
    BY <1>1
  <2> QED  BY <1>2, <2>1
<1> HIDE DEF L
<1>5. Bytes(s) \in [1..L -> Octets] /\ Bytes(s) \in [1..L -> Words]
  BY <1>3, <1>4, OctetsAreWords
<1>6. Bytes(s) \in Seq(Octets) /\ Bytes(s) \in Seq(Words) /\ Len(Bytes(s)) = L
  <2> DEFINE q == Bytes(s)
  <2>1. q \in [1..L -> Octets] /\ q \in [1..L -> Words] /\ L \in Nat
    BY <1>5, <1>1 DEF L
  <2> HIDE DEF q
  <2>2. Len(q) = L /\ q \in Seq(Octets)
    BY <2>1
  <2>3. q \in Seq(Words)
    BY <2>1
  <2> QED  BY <2>2, <2>3 DEF q
<1>7. \A k \in 1..L : Bytes(s)[k] = s.stack[sp + k - 1]
  BY <1>3
<1> QED  BY <1>6, <1>7 DEF L, sp

LEMMA LinkStays ==
  ASSUME NEW s, SeedTyped(s), NEW b, BootTyped(b), NEW low, Linked(s, b, low), NEW ns, NEW nb,
         ns.reg[SP] = s.reg[SP], ns.stack = s.stack,
         nb.reg[SP] = b.reg[SP], StackKept(b, nb),
         \A a \in 0..(Len(program) - 1) : nb.memory[a] = b.memory[a],
         \A a \in Window(low) : ns.heap[a] = nb.memory[a]
  PROVE  Linked(ns, nb, low)
<1>1. Bytes(ns) = Bytes(s) /\ Bytes(s) \in Seq(Words)
  BY BytesTyped DEF Bytes, Linked
<1>2. Stacked(b, Bytes(s))
  BY DEF Linked
<1>3. Stacked(nb, Bytes(s))
  BY <1>1, <1>2, SameWords
<1>4. TextKept(nb)
  BY DEF Linked, TextKept
<1> QED  BY <1>1, <1>3, <1>4 DEF Linked

(* Both have something to pop or neither has, and it is the same.           *)
LEMMA PopsTogether ==
  ASSUME NEW s, SeedTyped(s), NEW b, BootTyped(b), NEW low, Linked(s, b, low)
  PROVE  /\ s.reg[SP] < StackSize <=> b.reg[SP] < StackSize - WordBytes
         /\ s.reg[SP] < StackSize => s.stack[s.reg[SP]] = B!vm_read_u32(b, b.reg[SP])
<1> DEFINE sp == s.reg[SP]
           bp == b.reg[SP]
           L == StackSize - sp
<1>1. /\ sp \in Nat /\ sp <= StackSize /\ bp \in Nat /\ bp <= StackSize - 1 /\ L \in Nat
      /\ StackSize \in Nat /\ WordBytes \in 1..4 /\ WordBytes \in Nat
  BY Sizes DEF Linked
<1>2. /\ Len(Bytes(s)) = L /\ Bytes(s) \in Seq(Words)
      /\ \A k \in 1..L : Bytes(s)[k] = s.stack[sp + k - 1]
  BY BytesTyped DEF Linked
<1>3. /\ L * WordBytes = StackSize - 1 - bp
      /\ \A k \in 1..L : Joined(b, bp + (k - 1) * WordBytes) = Bytes(s)[k]
  BY <1>2 DEF Linked, Stacked
<1> HIDE DEF bp
<1>4. sp < StackSize <=> bp < StackSize - WordBytes
  <2>1. sp < StackSize <=> L >= 1
    BY <1>1
  <2> HIDE DEF L
  <2>2. L >= 1 => L * WordBytes >= WordBytes
    <3>1. (L - 1) * WordBytes = L * WordBytes - WordBytes
      BY <1>1, Shifted
    <3>2. L >= 1 => (L - 1) * WordBytes >= 0
      <4>1. ASSUME NEW j \in Nat, NEW w \in Nat PROVE j * w >= 0
        OBVIOUS
      <4> QED  BY <1>1, <4>1
    <3>3. L * WordBytes \in Int /\ (L - 1) * WordBytes \in Int
      BY <1>1
    <3> QED  BY <1>1, <3>1, <3>2, <3>3
  <2>3. L * WordBytes > WordBytes - 1 => L >= 1
    BY <1>1, Shifted
  <2>4. L * WordBytes \in Int
    BY <1>1
  <2> QED  BY <1>1, <1>3, <2>1, <2>2, <2>3, <2>4
<1>5. ASSUME sp < StackSize
      PROVE  s.stack[sp] = B!vm_read_u32(b, bp)
  <2>1. 1 \in 1..L
    BY <1>1, <1>5
  <2>2. Joined(b, bp + (1 - 1) * WordBytes) = s.stack[sp + 1 - 1]
    BY <1>2, <1>3, <2>1
  <2>3. bp + (1 - 1) * WordBytes = bp /\ sp + 1 - 1 = sp
    BY <1>1
  <2>4. bp + WordBytes - 1 < MemorySize
    BY <1>1, <1>4, <1>5, Sizes
  <2>5. B!vm_read_u32(b, bp) = Joined(b, bp)
    BY <1>1, <2>4, ReadJoins
  <2> QED  BY <2>2, <2>3, <2>5
<1> QED  BY <1>4, <1>5 DEF bp

LEMMA PushRoom ==
  ASSUME NEW s, SeedTyped(s), NEW b, NEW low, Linked(s, b, low)
  PROVE  s.reg[SP] # 0
<1> DEFINE sp == s.reg[SP]
           bp == b.reg[SP]
<1>1. /\ sp \in Nat /\ sp <= StackSize /\ bp \in Nat /\ bp <= StackSize - 1
      /\ StackSize \in Nat /\ WordBytes \in 1..4 /\ StackSize > 0
  BY Sizes DEF Linked
<1>2. (StackSize - sp) * WordBytes = StackSize - 1 - bp
  BY BytesTyped DEF Linked, Stacked
<1> HIDE DEF sp, bp
<1>3. sp = 0 => StackSize * WordBytes = StackSize - 1 - bp
  BY <1>1, <1>2
<1>4. StackSize * WordBytes >= StackSize
  <2>1. WordBytes = 1 \/ WordBytes = 2 \/ WordBytes = 3 \/ WordBytes = 4
    BY <1>1
  <2> QED  BY <1>1, <2>1
<1> QED  BY <1>1, <1>3, <1>4 DEF sp

(* A byte popped here is a word popped there; likewise pushed.              *)
LEMMA LinkPops ==
  ASSUME NEW s, SeedTyped(s), NEW b, BootTyped(b), NEW low, Linked(s, b, low),
         s.reg[SP] < StackSize, NEW ns, NEW nb,
         ns.reg[SP] = s.reg[SP] + 1, ns.stack = s.stack, ns.heap = s.heap,
         nb.reg[SP] = b.reg[SP] + WordBytes, nb.memory = b.memory
  PROVE  Linked(ns, nb, low)
<1> DEFINE sp == s.reg[SP]
           bp == b.reg[SP]
           L == StackSize - sp
<1>1. /\ sp \in Nat /\ sp < StackSize /\ bp \in Nat /\ L \in Nat /\ bp < StackSize - WordBytes
      /\ StackSize \in Nat /\ WordBytes \in 1..4 /\ WordBytes \in Nat
  BY PopsTogether, Sizes DEF Linked
<1>2. /\ Len(Bytes(s)) = L /\ Bytes(s) \in Seq(Words)
      /\ \A k \in 1..L : Bytes(s)[k] = s.stack[sp + k - 1]
  BY BytesTyped DEF Linked
<1>3. StackKept(b, nb)
  BY DEF StackKept
<1>4. Stacked(b, Bytes(s))
  BY DEF Linked
<1>5. Bytes(s) # << >> /\ Stacked(nb, Tail(Bytes(s)))
  <2>1. b.reg[SP] < StackSize - WordBytes
    BY <1>1
  <2> QED  BY <1>2, <1>3, <1>4, <2>1, PoppedWords
<1>6. Bytes(ns) = Tail(Bytes(s))
  <2> DEFINE t == Tail(Bytes(s))
  <2>1. (\A k \in 1..(L - 1) : t[k] = Bytes(s)[k + 1]) /\ t = [k \in 1..(L - 1) |-> t[k]]
    <3> HIDE DEF L
    <3>1. Bytes(s) \in Seq(Words) /\ Len(Bytes(s)) = L
      BY <1>2
    <3> QED  BY <1>5, <3>1, Shortened
  <2>2. Bytes(ns) = [k \in 1..(StackSize - (sp + 1)) |-> s.stack[(sp + 1) + k - 1]]
    BY Zenon DEF Bytes
  <2>3. StackSize - (sp + 1) = L - 1
    BY <1>1
  <2> HIDE DEF t
  <2>4. ASSUME NEW k \in 1..(L - 1)
        PROVE  t[k] = s.stack[(sp + 1) + k - 1]
    <3>1. k + 1 \in 1..L /\ sp + (k + 1) - 1 = (sp + 1) + k - 1
      BY <1>1
    <3> HIDE DEF L
    <3>2. t[k] = s.stack[sp + (k + 1) - 1]
      BY <1>2, <2>1, <3>1
    <3> QED  BY <3>1, <3>2
  <2> HIDE DEF sp, L
  <2>5. t = Bytes(ns)
    BY <2>1, <2>2, <2>3, <2>4
  <2> QED  BY <2>5 DEF t
<1>7. ns.reg[SP] \in 0..StackSize /\ nb.reg[SP] \in 0..(StackSize - 1)
  BY <1>1
<1>8. low \in Int /\ low <= nb.reg[SP]
  <2>1. low \in Int /\ low <= bp
    BY DEF Linked
  <2> QED  BY <1>1, <2>1
<1>9. TextKept(nb) /\ \A a \in Window(low) : ns.heap[a] = nb.memory[a]
  BY DEF Linked, TextKept
<1> QED  BY <1>5, <1>6, <1>7, <1>8, <1>9 DEF Linked

LEMMA LinkPushes ==
  ASSUME program \in Programs,
         NEW s, SeedTyped(s), NEW b, BootTyped(b), NEW low, Linked(s, b, low),
         NEW v \in Octets, NEW ns, NEW nb,
         ns.reg[SP] = s.reg[SP] - 1, ns.stack = [s.stack EXCEPT ![s.reg[SP] - 1] = v],
         ns.heap = s.heap,
         b.reg[SP] - WordBytes >= Len(program), b.reg[SP] - WordBytes >= 0,
         nb.reg[SP] = b.reg[SP] - WordBytes,
         \A a \in B!Addresses : a \notin nb.reg[SP]..(nb.reg[SP] + WordBytes - 1)
                                  => nb.memory[a] = b.memory[a],
         Joined(nb, nb.reg[SP]) = v
  PROVE  Linked(ns, nb, IF b.reg[SP] - WordBytes < low THEN b.reg[SP] - WordBytes ELSE low)
<1> DEFINE sp == s.reg[SP]
           bp == b.reg[SP]
           L == StackSize - sp
           np == nb.reg[SP]
           more == IF b.reg[SP] - WordBytes < low THEN b.reg[SP] - WordBytes ELSE low
<1>1. /\ sp \in Nat /\ sp <= StackSize /\ bp \in Nat /\ L \in Nat /\ bp <= StackSize - 1
      /\ StackSize \in Nat /\ WordBytes \in 1..4 /\ WordBytes \in Nat /\ sp > 0
      /\ MemorySize \in Nat /\ StackSize <= MemorySize /\ L = StackSize - sp
  <2>1. sp \in 0..StackSize /\ bp \in 0..(StackSize - 1)
    BY DEF Linked
  <2>2. sp # 0
    BY PushRoom
  <2> HIDE DEF sp, bp
  <2> QED  BY <2>1, <2>2, Sizes
<1>2. /\ Len(Bytes(s)) = L /\ Bytes(s) \in Seq(Words)
      /\ \A k \in 1..L : Bytes(s)[k] = s.stack[sp + k - 1]
  BY BytesTyped DEF Linked
<1>3. np \in Nat /\ np + WordBytes = bp /\ np = bp - WordBytes
  <2> HIDE DEF sp, L
  <2>1. np = bp - WordBytes /\ bp - WordBytes >= 0
    OBVIOUS
  <2> HIDE DEF bp, np
  <2> QED  BY <1>1, <2>1
<1> HIDE DEF sp, L, np, bp
<1>4. StackKept(b, nb)
  <2>1. ASSUME NEW a \in bp..(StackSize - 1)
        PROVE  a \in B!Addresses /\ a \notin np..(np + WordBytes - 1)
    BY <1>1, <1>3 DEF B!Addresses
  <2> QED  BY <2>1 DEF StackKept, bp, np
<1>5. Stacked(nb, <<v>> \o Bytes(s))
  <2>1. v \in Words
    BY OctetsAreWords
  <2>2. Stacked(b, Bytes(s))
    BY DEF Linked
  <2> QED  BY <1>2, <1>4, <2>1, <2>2, PushedWords DEF np
<1>6. Bytes(ns) = <<v>> \o Bytes(s)
  <2> DEFINE t == <<v>> \o Bytes(s)
  <2>1. /\ t[1] = v /\ \A k \in 2..(L + 1) : t[k] = Bytes(s)[k - 1]
        /\ t = [k \in 1..(L + 1) |-> t[k]]
    <3>1. Bytes(s) \in Seq(Words) /\ Len(Bytes(s)) = L /\ v \in Words
      BY <1>2, OctetsAreWords
    <3> QED  BY <3>1, Prepended
  <2>2. Bytes(ns) = [k \in 1..(StackSize - (sp - 1)) |-> ns.stack[(sp - 1) + k - 1]]
    BY Zenon DEF Bytes, sp
  <2>3. StackSize - (sp - 1) = L + 1
    BY <1>1
  <2> HIDE DEF t
  <2>4. ASSUME NEW k \in 1..(L + 1)
        PROVE  t[k] = ns.stack[(sp - 1) + k - 1]
    <3>1. (sp - 1) + k - 1 \in 0..(StackSize - 1) /\ DOMAIN s.stack = 0..(StackSize - 1)
          /\ sp - 1 \in 0..(StackSize - 1)
      BY <1>1 DEF SeedTyped
    <3>2. CASE k = 1
      <4>1. (sp - 1) + k - 1 = sp - 1
        BY <1>1, <3>2
      <4> QED  BY <2>1, <3>1, <3>2, <4>1 DEF sp
    <3>3. CASE k # 1
      <4>1. k \in 2..(L + 1) /\ k - 1 \in 1..L /\ sp + (k - 1) - 1 = (sp - 1) + k - 1
            /\ (sp - 1) + k - 1 # sp - 1
        BY <1>1, <3>3
      <4>2. t[k] = s.stack[sp + (k - 1) - 1]
        BY <1>2, <2>1, <4>1
      <4>3. ns.stack[(sp - 1) + k - 1] = s.stack[(sp - 1) + k - 1]
        BY <3>1, <4>1 DEF sp
      <4> QED  BY <4>1, <4>2, <4>3
    <3> QED  BY <3>2, <3>3
  <2> HIDE DEF sp, L
  <2>5. t = Bytes(ns)
    BY <2>1, <2>2, <2>3, <2>4
  <2> QED  BY <2>5 DEF t
<1>7. ns.reg[SP] \in 0..StackSize /\ nb.reg[SP] \in 0..(StackSize - 1)
  <2>1. ns.reg[SP] = sp - 1
    BY DEF sp
  <2> QED  BY <1>1, <1>3, <2>1 DEF np
<1>8. more \in Int /\ more <= np /\ low \in Int /\ more <= low
  <2>1. low \in Int /\ more = IF np < low THEN np ELSE low
    BY DEF Linked, np
  <2> HIDE DEF more
  <2> QED  BY <1>1, <1>3, <2>1
<1>12. program \in Seq(Octets) /\ Len(program) \in Nat
  BY ProgramsAssumption DEF Octets
<1>9. TextKept(nb)
  <2>1. TextKept(b)
    BY DEF Linked
  <2>2. ASSUME NEW a \in 0..(Len(program) - 1)
        PROVE  a \in B!Addresses /\ a \notin np..(np + WordBytes - 1)
    <3>1. np >= Len(program) /\ Len(program) <= StackSize
      BY <2>1 DEF TextKept, np
    <3> QED  BY <1>1, <1>3, <1>12, <3>1 DEF B!Addresses
  <2> QED  BY <2>1, <2>2 DEF TextKept, np
<1>10. ASSUME NEW a \in Window(more)
       PROVE  ns.heap[a] = nb.memory[a]
  <2>1. Len(program) \in Int /\ np >= Len(program)
    BY <1>12 DEF np
  <2> HIDE DEF more
  <2>2. a \in Window(low) /\ a \in B!Addresses /\ a \notin np..(np + WordBytes - 1)
    BY <1>1, <1>3, <1>8 DEF Window, B!Addresses
  <2>3. s.heap[a] = b.memory[a]
    BY <2>2 DEF Linked
  <2> QED  BY <2>2, <2>3 DEF np
<1> HIDE DEF more
<1> QED  BY <1>5, <1>6, <1>7, <1>8, <1>9, <1>10 DEF Linked, more

(* Changes that both machines make.                                        *)
LEMMA SameBy ==
  ASSUME NEW s, Core(s), NEW b, Core(b), Same(s, b), NEW F, NEW G, NEW p, NEW q,
         Keeps(s, p, F), Keeps(b, q, G),
         \A f \in Shared : f \in F \cup G => p[f] = q[f],
         "reg" \in F \cup G => \A r \in 0..15 : r \notin {12, SP} => p.reg[r] = q.reg[r],
         {"energy", "threads"} \cap F # {} => p.energy = 10 * (p.threads - 1)
  PROVE  Same(p, q)
<1>1. Shared \subseteq DOMAIN s /\ Shared \subseteq DOMAIN b
      /\ {"reg", "energy", "threads"} \subseteq DOMAIN s /\ "reg" \in DOMAIN b
  BY DEF Core, CoreFields, Shared
<1>2. \A f \in Shared : p[f] = q[f]
  BY <1>1 DEF Same, Keeps
<1>3. \A r \in 0..15 : r \notin {12, SP} => p.reg[r] = q.reg[r]
  BY <1>1 DEF Same, Keeps
<1>4. p.energy = 10 * (p.threads - 1)
  BY <1>1 DEF Same, Keeps
<1> QED  BY <1>2, <1>3, <1>4 DEF Same

LEMMA SamePut ==
  ASSUME NEW s, Core(s), NEW b, Core(b), Same(s, b), NEW r \in 0..15, NEW v \in Int
  PROVE  Same(B!Put(s, r, v), B!Put(b, r, v))
<1> DEFINE p == B!Put(s, r, v)
           q == B!Put(b, r, v)
           w == v % B!Word
<1>1. /\ Keeps(s, p, {"reg"}) /\ p.reg = [s.reg EXCEPT ![r] = w]
      /\ Keeps(b, q, {"reg"}) /\ q.reg = [b.reg EXCEPT ![r] = w]
  BY PutEffect
<1>2. DOMAIN s.reg = 0..15 /\ DOMAIN b.reg = 0..15
  BY DEF Core
<1> HIDE DEF p, q, w
<1>3. \A t \in 0..15 : t \notin {12, SP} => p.reg[t] = q.reg[t]
  BY <1>1, <1>2 DEF Same
<1>4. Same(p, q)
  BY <1>1, <1>3, SameBy DEF Shared
<1> QED  BY <1>4 DEF p, q

LEMMA SameState ==
  ASSUME NEW s, Core(s), NEW b, Core(b), Same(s, b), NEW state
  PROVE  Same(B!End(s, state), B!End(b, state))
<1> DEFINE p == B!End(s, state)
           q == B!End(b, state)
<1>1. Keeps(s, p, {"state"}) /\ Keeps(b, q, {"state"}) /\ p.state = state /\ q.state = state
  BY DEF Keeps, B!End, Core, CoreFields
<1> HIDE DEF p, q
<1>2. Same(p, q)
  BY <1>1, SameBy DEF Shared
<1> QED  BY <1>2 DEF p, q

LEMMA SamePc ==
  ASSUME NEW s, Core(s), NEW b, Core(b), Same(s, b), NEW a
  PROVE  Same([s EXCEPT !.pc = a], [b EXCEPT !.pc = a])
<1> DEFINE p == [s EXCEPT !.pc = a]
           q == [b EXCEPT !.pc = a]
<1>1. Keeps(s, p, {"pc"}) /\ Keeps(b, q, {"pc"}) /\ p.pc = a /\ q.pc = a
  BY DEF Keeps, Core, CoreFields
<1> HIDE DEF p, q
<1>2. Same(p, q)
  BY <1>1, SameBy DEF Shared
<1> QED  BY <1>2 DEF p, q

LEMMA ResultKeeps ==
  ASSUME NEW m, Core(m), NEW o, o[1] \in Octets, NEW v \in Int, NEW z, z = (v % B!Word = 0),
         NEW g, g = (v % B!Word >= B!Word \div 2)
  PROVE  LET p == B!Put(m, o[1] % 16, v)
             n == B!Result(m, o, v)
         IN  Keeps(p, n, {"zero", "negative"}) /\ n.zero = z /\ n.negative = g
<1> DEFINE r == o[1] % 16
           p == B!Put(m, r, v)
           n == B!Result(m, o, v)
<1>1. r \in 0..15 /\ B!Dst(o) = r
  BY DEF Octets, B!Dst
<1>2. n = [p EXCEPT !.zero = z, !.negative = g]
  BY <1>1 DEF B!Result
<1> HIDE DEF r
<1>3. Core(p)
  BY <1>1, PutEffect
<1> HIDE DEF p, n
<1>4. {"zero", "negative"} \subseteq DOMAIN p
  BY <1>3 DEF Core, CoreFields
<1>5. Keeps(p, n, {"zero", "negative"}) /\ n.zero = z /\ n.negative = g
  BY <1>2, <1>4 DEF Keeps
<1> QED  BY <1>5 DEF p, n, r

LEMMA SameResult ==
  ASSUME NEW s, Core(s), NEW b, Core(b), Same(s, b), NEW o, o[1] \in Octets, NEW v \in Int
  PROVE  Same(B!Result(s, o, v), B!Result(b, o, v))
<1> DEFINE r == o[1] % 16
           p == B!Put(s, r, v)
           q == B!Put(b, r, v)
           np == B!Result(s, o, v)
           nq == B!Result(b, o, v)
<1>1. /\ Keeps(p, np, {"zero", "negative"}) /\ Keeps(q, nq, {"zero", "negative"})
      /\ np.zero = nq.zero /\ np.negative = nq.negative
  BY ResultKeeps
<1>2. r \in 0..15
  BY DEF Octets
<1> HIDE DEF r, np, nq
<1>3. Same(p, q) /\ Core(p) /\ Core(q)
  BY <1>2, SamePut, PutEffect
<1> HIDE DEF p, q
<1>4. Same(np, nq)
  BY <1>1, <1>3, SameBy DEF Shared
<1> QED  BY <1>4 DEF np, nq

LEMMA OperandsSame ==
  ASSUME NEW s, Core(s), NEW b, Core(b), Same(s, b), NEW i, Instr(i), Named(i) \cap {12, SP} = {}
  PROVE  /\ i.o[1] % 16 \in Named(i) => B!X(s, i.o) = B!X(b, i.o)
         /\ i.o[2] % 16 \in Named(i) => B!Y(s, i.o) = B!Y(b, i.o)
<1>1. /\ B!X(s, i.o) = s.reg[i.o[1] % 16] /\ B!Y(s, i.o) = s.reg[i.o[2] % 16]
      /\ B!X(b, i.o) = b.reg[i.o[1] % 16] /\ B!Y(b, i.o) = b.reg[i.o[2] % 16]
      /\ i.o[1] % 16 \in 0..15 /\ i.o[2] % 16 \in 0..15
  BY DEF B!X, B!Y, B!Dst, B!Src, Instr, Octets
<1> QED  BY <1>1 DEF Same

LEMMA CalcSame ==
  ASSUME NEW s, Core(s), NEW b, Core(b), Same(s, b), NEW i, Instr(i), Named(i) \cap {12, SP} = {},
         i.op \in PutOps \cup ResultOps
  PROVE  Calc(i.op, i.o, B!X(s, i.o), B!Y(s, i.o)) = Calc(i.op, i.o, B!X(b, i.o), B!Y(b, i.o))
<1>1. CASE i.op \in WithFirst
  <2>1. i.o[1] % 16 \in Named(i)
    <3>1. i.op \notin WithoutRegister /\ i.op # 2 /\ i.op # 41
      BY <1>1 DEF WithFirst, WithoutRegister
    <3>2. Named(i) = {i.o[1] % 16}
      BY <1>1, <3>1 DEF Named
    <3> QED  BY <3>2
  <2>2. B!X(s, i.o) = B!X(b, i.o)
    BY <2>1, OperandsSame
  <2>3. i.op \in BumpOps \/ i.op = 12 \/ i.op = 13 \/ i.op = 34 \/ i.op = 38
    BY <1>1 DEF WithFirst, PutOps, CopyOps, BumpOps, ResultOps
  <2>4. \A x, y, z : Calc(i.op, i.o, x, y) = Calc(i.op, i.o, x, z)
    BY <2>3 DEF Calc, CopyOps, BumpOps
  <2> QED  BY <2>2, <2>4
<1>2. CASE i.op \notin WithFirst
  <2>1. Named(i) = {i.o[1] % 16, i.o[2] % 16}
    <3>1. i.op \notin WithoutRegister /\ i.op # 2 /\ i.op # 41
      BY DEF WithoutRegister, PutOps, CopyOps, BumpOps, ResultOps
    <3> QED  BY <1>2, <3>1 DEF Named
  <2>2. i.o[1] % 16 \in Named(i) /\ i.o[2] % 16 \in Named(i)
    BY <2>1
  <2>3. B!X(s, i.o) = B!X(b, i.o) /\ B!Y(s, i.o) = B!Y(b, i.o)
    BY <2>2, OperandsSame
  <2> QED  BY <2>3
<1> QED  BY <1>1, <1>2

LEMMA FirstNamed ==
  ASSUME NEW i, Instr(i), i.op \in PutOps \cup ResultOps \cup {42, 45, 63, 23}
  PROVE  i.o[1] % 16 \in Named(i) /\ i.o[1] % 16 \in 0..15
<1>1. CASE i.op \in WithFirst
  <2>1. i.op \notin WithoutRegister /\ i.op # 2 /\ i.op # 41
    BY <1>1 DEF WithFirst, WithoutRegister
  <2>2. Named(i) = {i.o[1] % 16}
    BY <1>1, <2>1 DEF Named
  <2> QED  BY <2>2 DEF Instr, Octets
<1>2. CASE i.op \notin WithFirst
  <2>1. i.op \notin WithoutRegister /\ i.op # 2 /\ i.op # 41
    BY <1>2 DEF WithFirst, WithoutRegister, PutOps, CopyOps, BumpOps, ResultOps
  <2>2. Named(i) = {i.o[1] % 16, i.o[2] % 16}
    BY <1>2, <2>1 DEF Named
  <2> QED  BY <2>2 DEF Instr, Octets
<1> QED  BY <1>1, <1>2

(* CREA, FUTU, ILLUMINATE and WAIT read and count the same in both.         *)
LEMMA CreaSame ==
  ASSUME NEW s, Core(s), NEW b, Core(b), Same(s, b), NEW o, o[1] \in Octets
  PROVE  Same(B!op_crea(s, o), B!op_crea(b, o))
<1> DEFINE r == o[1] % 16
           p == B!Put(s, r, s.threads)
           q == B!Put(b, r, b.threads)
           np == B!op_crea(s, o)
           nq == B!op_crea(b, o)
<1>1. r \in 0..15 /\ B!Dst(o) = r /\ s.threads = b.threads /\ s.threads \in Nat /\ s.threads \in Int
  BY DEF Octets, B!Dst, Same, Shared, Core
<1>2. np = [p EXCEPT !.threads = @ + 1, !.energy = @ + 10]
      /\ nq = [q EXCEPT !.threads = @ + 1, !.energy = @ + 10]
  BY <1>1, Zenon DEF B!op_crea
<1> HIDE DEF r, np, nq
<1>3. Same(p, q) /\ Core(p) /\ Core(q)
  BY <1>1, SamePut, PutEffect
<1> HIDE DEF p, q
<1>4. {"threads", "energy"} \subseteq DOMAIN p /\ {"threads", "energy"} \subseteq DOMAIN q
      /\ p.threads \in Nat /\ p.threads = q.threads /\ p.energy = 10 * (p.threads - 1)
  BY <1>3 DEF Core, CoreFields, Same, Shared
<1>5. /\ Keeps(p, np, {"threads", "energy"}) /\ Keeps(q, nq, {"threads", "energy"})
      /\ np.threads = p.threads + 1 /\ nq.threads = q.threads + 1 /\ np.energy = p.energy + 10
  BY <1>2, <1>4 DEF Keeps
<1>6. np.energy = 10 * (np.threads - 1)
  BY <1>4, <1>5
<1>7. Same(np, nq)
  BY <1>3, <1>4, <1>5, <1>6, SameBy DEF Shared
<1> QED  BY <1>7 DEF np, nq

LEMMA FutuSame ==
  ASSUME NEW s, Core(s), NEW b, Core(b), Same(s, b), NEW o, o[1] \in Octets
  PROVE  Same(B!op_futu(s, o), B!op_futu(b, o))
<1> DEFINE r == o[1] % 16
           p == B!Put(s, r, s.futures)
           q == B!Put(b, r, b.futures)
           np == B!op_futu(s, o)
           nq == B!op_futu(b, o)
<1>1. r \in 0..15 /\ B!Dst(o) = r /\ s.futures = b.futures /\ s.futures \in Nat /\ s.futures \in Int
  BY DEF Octets, B!Dst, Same, Shared, Core
<1>2. np = [p EXCEPT !.futures = @ + 1] /\ nq = [q EXCEPT !.futures = @ + 1]
  BY <1>1, Zenon DEF B!op_futu
<1> HIDE DEF r, np, nq
<1>3. Same(p, q) /\ Core(p) /\ Core(q)
  BY <1>1, SamePut, PutEffect
<1> HIDE DEF p, q
<1>4. "futures" \in DOMAIN p /\ "futures" \in DOMAIN q /\ p.futures = q.futures
  BY <1>3 DEF Core, CoreFields, Same, Shared
<1>5. /\ Keeps(p, np, {"futures"}) /\ Keeps(q, nq, {"futures"}) /\ np.futures = nq.futures
  BY <1>2, <1>4 DEF Keeps
<1>7. Same(np, nq)
  BY <1>3, <1>5, SameBy DEF Shared
<1> QED  BY <1>7 DEF np, nq

LEMMA IlluminateSame ==
  ASSUME NEW s, Core(s), NEW b, Core(b), Same(s, b), NEW o, B!X(s, o) = B!X(b, o)
  PROVE  Same(B!op_illuminate(s, o), B!op_illuminate(b, o))
<1> DEFINE more == Append(s.out, B!X(s, o))
           np == B!op_illuminate(s, o)
           nq == B!op_illuminate(b, o)
<1>1. s.out = b.out
  BY DEF Same, Shared
<1>2. np = [s EXCEPT !.out = more] /\ nq = [b EXCEPT !.out = more]
  BY <1>1, Zenon DEF B!op_illuminate
<1> HIDE DEF more, np, nq
<1>3. Keeps(s, np, {"out"}) /\ Keeps(b, nq, {"out"}) /\ np.out = nq.out
  BY <1>2 DEF Keeps, Core, CoreFields
<1>7. Same(np, nq)
  BY <1>3, SameBy DEF Shared
<1> QED  BY <1>7 DEF np, nq

LEMMA WaitSame ==
  ASSUME NEW s, Core(s), NEW b, Core(b), Same(s, b), NEW o, B!X(s, o) = B!X(b, o)
  PROVE  Same(B!op_wait(s, o), B!op_wait(b, o))
<1>1. s.pc = b.pc
  BY DEF Same, Shared
<1>2. B!op_wait(s, o) = IF B!X(s, o) = 0 THEN [s EXCEPT !.pc = s.pc - 4] ELSE s
  BY Zenon DEF B!op_wait
<1>3. B!op_wait(b, o) = IF B!X(s, o) = 0 THEN [b EXCEPT !.pc = s.pc - 4] ELSE b
  BY <1>1, Zenon DEF B!op_wait
<1>4. Same([s EXCEPT !.pc = s.pc - 4], [b EXCEPT !.pc = s.pc - 4])
  BY SamePc
<1> QED  BY <1>2, <1>3, <1>4, Zenon

LEMMA CommonSame ==
  ASSUME NEW s, Core(s), NEW b, Core(b), Same(s, b), NEW i, Instr(i), i.op \notin B!OwnOps,
         Named(i) \cap {12, SP} = {}
  PROVE  Same(S!Common(i.op, s, i.o), B!Common(i.op, b, i.o))
<1> DEFINE op == i.op
           o  == i.o
           p  == B!Common(op, s, o)
           q  == B!Common(op, b, o)
           value == Calc(op, o, B!X(s, o), B!Y(s, o))
<1>0. /\ op \in 0..63 /\ o[1] \in Octets /\ o[2] \in Octets
      /\ B!Dst(o) = o[1] % 16 /\ o[1] % 16 \in 0..15
      /\ B!X(s, o) \in Words /\ B!Y(s, o) \in Words
  BY OperandsAreWords DEF Instr
<1>1. op \in PutOps \cup ResultOps \cup EndOps \cup IdleOps \cup {23, 42, 45, 63}
  BY <1>0 DEF B!OwnOps, PutOps, CopyOps, BumpOps, ResultOps, EndOps, IdleOps
<1>2. op \in PutOps \cup ResultOps => value = Calc(op, o, B!X(b, o), B!Y(b, o))
  BY CalcSame
<1>3. op \in {23, 45} => B!X(s, o) = B!X(b, o)
  BY FirstNamed, OperandsSame
<1>4. S!Common(op, s, o) = p
  BY SameOps
<1>5. op \in PutOps \cup ResultOps => value \in Int
  BY <1>0, CalcIsNumber
<1> HIDE DEF op, o, value
<1>6. CASE op \in PutOps
  <2>1. p = B!Put(s, o[1] % 16, value) /\ q = B!Put(b, o[1] % 16, value)
    BY <1>0, <1>2, <1>6, CommonForms DEF value
  <2> HIDE DEF p, q
  <2>2. Same(p, q)
    BY <1>0, <1>5, <1>6, <2>1, SamePut
  <2> QED  BY <1>4, <2>2 DEF p, q, op, o
<1>7. CASE op \in ResultOps
  <2>1. p = B!Result(s, o, value) /\ q = B!Result(b, o, value)
    BY <1>0, <1>2, <1>7, CommonForms DEF value
  <2> HIDE DEF p, q
  <2>2. Same(p, q)
    BY <1>0, <1>5, <1>7, <2>1, SameResult
  <2> QED  BY <1>4, <2>2 DEF p, q, op, o
<1>8. CASE op \in EndOps
  <2>1. p = B!End(s, StateAfter(op)) /\ q = B!End(b, StateAfter(op))
    BY <1>8, CommonForms
  <2> HIDE DEF p, q
  <2>2. Same(p, q)
    BY <2>1, SameState
  <2> QED  BY <1>4, <2>2 DEF p, q, op, o
<1>9. CASE op \in IdleOps
  <2>1. p = s /\ q = b
    BY <1>9, CommonForms
  <2> QED  BY <1>4, <2>1 DEF p, q, op, o
<1>10. CASE op = 63
  <2>1. p = B!op_crea(s, o) /\ q = B!op_crea(b, o)
    BY <1>10 DEF B!Common
  <2> HIDE DEF p, q
  <2>2. Same(p, q)
    BY <1>0, <2>1, CreaSame
  <2> QED  BY <1>4, <2>2 DEF p, q, op, o
<1>11. CASE op = 42
  <2>1. p = B!op_futu(s, o) /\ q = B!op_futu(b, o)
    BY <1>11 DEF B!Common
  <2> HIDE DEF p, q
  <2>2. Same(p, q)
    BY <1>0, <2>1, FutuSame
  <2> QED  BY <1>4, <2>2 DEF p, q, op, o
<1>12. CASE op = 23
  <2>1. p = B!op_wait(s, o) /\ q = B!op_wait(b, o)
    BY <1>12 DEF B!Common
  <2> HIDE DEF p, q
  <2>2. Same(p, q)
    BY <1>3, <1>12, <2>1, WaitSame
  <2> QED  BY <1>4, <2>2 DEF p, q, op, o
<1>13. CASE op = 45
  <2>1. p = B!op_illuminate(s, o) /\ q = B!op_illuminate(b, o)
    BY <1>13 DEF B!Common
  <2> HIDE DEF p, q
  <2>2. Same(p, q)
    BY <1>3, <1>13, <2>1, IlluminateSame
  <2> QED  BY <1>4, <2>2 DEF p, q, op, o
<1> QED  BY <1>1, <1>6, <1>7, <1>8, <1>9, <1>10, <1>11, <1>12, <1>13

(* Parts, said of any two machines that have fetched i.                    *)
PartsOf(s, b, low, i) ==
  LET x == s.reg[i.o[1] % 16]
      y == s.reg[i.o[2] % 16]
  IN  \/ IsSyscall(i)
      \/ Named(i) \cap {12, SP} # {}
      \/ IsPush(i) /\ x >= 256
      \/ IsPush(i) /\ b.reg[SP] - WordBytes < Len(program)
      \/ i.op \in {47, 50, 54} /\ x < MemorySize /\ x \notin Window(low)
      \/ i.op = 17
      \/ i.op = 33 /\ \E a \in Window(low) : s.heap[a] # 0
      \/ i.op = 2 /\ x # 0 /\ i.md \notin {0} \cup 16..31 \cup 48..63
      \/ i.op = 2 /\ x # 0 /\ (IF i.md = 0 THEN i.o[2] ELSE y) >= Len(program)
      \/ i.op = 58 /\ i.o[1] \in s.locks
      \/ i.op = 41 /\ y >= 256 /\ y % 256 = i.o[1]
      \/ i.op = 48 /\ s.cycle_count # 0

Lower(b, low, i) ==
  IF Pushes(b, i) /\ b.reg[SP] - WordBytes < low THEN b.reg[SP] - WordBytes ELSE low

(* The machines agree and are about to execute i, which does not part them. *)
Near(s, b, low, i) ==
  /\ SeedTyped(s) /\ BootTyped(b) /\ Same(s, b) /\ Linked(s, b, low)
  /\ s.pc >= 4 /\ b.cycle_count = 0 /\ Instr(i) /\ program \in Programs
  /\ ~ PartsOf(s, b, low, i)

LEMMA NearFacts ==
  ASSUME NEW s, NEW b, NEW low, NEW i, Near(s, b, low, i)
  PROVE  /\ SeedTyped(s) /\ BootTyped(b) /\ Core(s) /\ Core(b) /\ Same(s, b) /\ Linked(s, b, low)
         /\ Instr(i) /\ Named(i) \cap {12, SP} = {} /\ ~ IsSyscall(i) /\ i.op # 17
         /\ i.o[1] \in Octets /\ i.o[2] \in Octets /\ s.pc >= 4 /\ b.pc >= 4
         /\ ~ IsPush(i) => Lower(b, low, i) = low
<1>1. SeedTyped(s) /\ BootTyped(b) /\ Same(s, b) /\ Linked(s, b, low) /\ Instr(i) /\ s.pc >= 4
  BY DEF Near
<1>2. Core(s) /\ Core(b)
  BY <1>1 DEF SeedTyped, BootTyped
<1>3. Named(i) \cap {12, SP} = {} /\ ~ IsSyscall(i) /\ i.op # 17
  BY DEF Near, PartsOf
<1>4. i.o[1] \in Octets /\ i.o[2] \in Octets
  BY <1>1 DEF Instr
<1>5. ~ IsPush(i) => Lower(b, low, i) = low
  BY DEF Lower, Pushes
<1>6. s.pc = b.pc
  BY <1>1 DEF Same, Shared
<1> QED  BY <1>1, <1>2, <1>3, <1>4, <1>5, <1>6

LEMMA LinkCalm ==
  ASSUME NEW s, SeedTyped(s), NEW b, BootTyped(b), NEW low, Linked(s, b, low), NEW ns, NEW nb,
         ns.reg[SP] = s.reg[SP], ns.stack = s.stack, ns.heap = s.heap,
         nb.reg[SP] = b.reg[SP], nb.memory = b.memory
  PROVE  Linked(ns, nb, low)
<1>1. StackKept(b, nb)
  BY DEF StackKept
<1>2. \A a \in Window(low) : ns.heap[a] = nb.memory[a]
  BY DEF Linked
<1>3. \A a \in 0..(Len(program) - 1) : nb.memory[a] = b.memory[a]
  OBVIOUS
<1> QED  BY <1>1, <1>2, <1>3, LinkStays

(* The same number put in the same register.                                *)
LEMMA PutsAgree ==
  ASSUME NEW s, SeedTyped(s), NEW b, BootTyped(b), Same(s, b), NEW low, Linked(s, b, low),
         NEW r \in 0..15, r \notin {12, SP}, NEW v \in Int
  PROVE  Same(B!Put(s, r, v), B!Put(b, r, v)) /\ Linked(B!Put(s, r, v), B!Put(b, r, v), low)
<1> DEFINE p == B!Put(s, r, v)
           q == B!Put(b, r, v)
<1>1. Core(s) /\ Core(b)
  BY DEF SeedTyped, BootTyped
<1>2. Same(p, q)
  BY <1>1, SamePut
<1>3. Calm(s, p, {r}) /\ Calm(b, q, {r})
  BY <1>1, PutCalm
<1> HIDE DEF p, q
<1>4. p.stack = s.stack /\ p.heap = s.heap /\ q.memory = b.memory
  BY <1>3, SeedCalmTyped, CalmTyped
<1>5. p.reg[SP] = s.reg[SP] /\ q.reg[SP] = b.reg[SP]
  BY <1>3 DEF Calm, SP
<1>6. Linked(p, q, low)
  BY <1>4, <1>5, LinkCalm
<1> QED  BY <1>2, <1>6 DEF p, q

(* Whatever both machines have.                                            *)
LEMMA CommonAgrees ==
  ASSUME NEW s, NEW b, NEW low, NEW i, Near(s, b, low, i), i.op \notin B!OwnOps
  PROVE  Same(S!Common(i.op, s, i.o), B!Common(i.op, b, i.o))
         /\ Linked(S!Common(i.op, s, i.o), B!Common(i.op, b, i.o), low)
<1> DEFINE p == B!Common(i.op, s, i.o)
           q == B!Common(i.op, b, i.o)
<1>1. S!Common(i.op, s, i.o) = p
  BY SameOps
<1>2. Same(p, q)
  BY <1>1, NearFacts, CommonSame
<1>3. Calm(s, p, Named(i)) /\ Calm(b, q, Named(i))
  BY NearFacts, CommonCalm
<1> HIDE DEF p, q
<1>4. p.stack = s.stack /\ p.heap = s.heap /\ q.memory = b.memory
  BY <1>3, NearFacts, SeedCalmTyped, CalmTyped
<1>5. p.reg[SP] = s.reg[SP] /\ q.reg[SP] = b.reg[SP]
  <2>1. SP \in 0..15 /\ SP \notin Named(i)
    BY NearFacts DEF SP
  <2> QED  BY <1>3, <2>1 DEF Calm
<1>6. Linked(p, q, low)
  BY <1>4, <1>5, LinkCalm, NearFacts
<1> QED  BY <1>1, <1>2, <1>6 DEF p, q

LEMMA NamedOf ==
  ASSUME NEW i, Instr(i), Named(i) \cap {12, SP} = {}
  PROVE  /\ i.op \in {0, 6, 22, 48} => i.o[1] % 16 \notin {12, SP}
         /\ i.op = 41 => i.o[2] % 16 \notin {12, SP}
         /\ i.op = 2 => i.o[1] % 16 \notin {12, SP}
                        /\ (i.md # 0 => i.o[2] % 16 \notin {12, SP})
         /\ i.op \in {47, 50, 54} => i.o[1] % 16 \notin {12, SP} /\ i.o[2] % 16 \notin {12, SP}
         /\ i.o[1] % 16 \in 0..15 /\ i.o[2] % 16 \in 0..15
<1>1. i.o[1] % 16 \in 0..15 /\ i.o[2] % 16 \in 0..15
  BY DEF Instr, Octets
<1>2. i.op \in {0, 6, 22, 48} => Named(i) = {i.o[1] % 16}
  BY DEF Named, WithFirst, WithoutRegister
<1>3. i.op = 41 => Named(i) = {i.o[2] % 16}
  BY DEF Named, WithFirst, WithoutRegister
<1>4. i.op = 2 => Named(i) = IF i.md = 0 THEN {i.o[1] % 16} ELSE {i.o[1] % 16, i.o[2] % 16}
  BY DEF Named, WithFirst, WithoutRegister
<1>5. i.op \in {47, 50, 54} => Named(i) = {i.o[1] % 16, i.o[2] % 16}
  BY DEF Named, WithFirst, WithoutRegister
<1> QED  BY <1>1, <1>2, <1>3, <1>4, <1>5

(* Registers that are not pointers to the stack are the same.              *)
LEMMA NearRegisters ==
  ASSUME NEW s, NEW b, NEW low, NEW i, Near(s, b, low, i)
  PROVE  /\ B!X(s, i.o) = s.reg[i.o[1] % 16] /\ B!Y(s, i.o) = s.reg[i.o[2] % 16]
         /\ B!X(b, i.o) = b.reg[i.o[1] % 16] /\ B!Y(b, i.o) = b.reg[i.o[2] % 16]
         /\ B!X(s, i.o) \in Nat /\ B!Y(s, i.o) \in Nat
         /\ B!X(s, i.o) \in Words /\ B!Y(s, i.o) \in Words
         /\ i.o[1] % 16 \notin {12, SP} => B!X(s, i.o) = B!X(b, i.o)
         /\ i.o[2] % 16 \notin {12, SP} => B!Y(s, i.o) = B!Y(b, i.o)
<1>1. Core(s) /\ Core(b) /\ i.o[1] \in Octets /\ i.o[2] \in Octets
      /\ i.o[1] % 16 \in 0..15 /\ i.o[2] % 16 \in 0..15 /\ Same(s, b)
  BY NearFacts, NamedOf
<1>2. /\ B!X(s, i.o) = s.reg[i.o[1] % 16] /\ B!Y(s, i.o) = s.reg[i.o[2] % 16]
      /\ B!X(b, i.o) = b.reg[i.o[1] % 16] /\ B!Y(b, i.o) = b.reg[i.o[2] % 16]
      /\ B!X(s, i.o) \in Words /\ B!Y(s, i.o) \in Words
  BY <1>1, OperandsAreWords
<1>3. Words \subseteq Nat
  BY Sizes DEF Words
<1> QED  BY <1>1, <1>2, <1>3 DEF Same

(* The instructions that each machine has on its own, one by one.           *)
LEMMA ReceivesAgree ==
  ASSUME NEW s, NEW b, NEW low, NEW i, Near(s, b, low, i), i.op = 0,
         NEW n \in B!op_recv(b, i.o)
  PROVE  Same(S!op_recv(s, i.o), n) /\ Linked(S!op_recv(s, i.o), n, low)
<1>1. B!Src(i.o) # 0
  BY NearFacts DEF IsSyscall, B!Src
<1>2. n = B!Put(b, B!Dst(i.o), 0)
  BY <1>1 DEF B!op_recv
<1>3. S!op_recv(s, i.o) = B!Put(s, B!Dst(i.o), 0)
  BY SameSmall DEF S!op_recv
<1>4. B!Dst(i.o) \in 0..15 /\ B!Dst(i.o) \notin {12, SP} /\ 0 \in Int
  BY NearFacts, NamedOf DEF B!Dst
<1> QED  BY <1>2, <1>3, <1>4, NearFacts, PutsAgree

LEMMA ContemplatesAgree ==
  ASSUME NEW s, NEW b, NEW low, NEW i, Near(s, b, low, i), i.op = 48
  PROVE  Same(S!op_contemplate(s, i.o), B!op_contemplate(b, i.o))
         /\ Linked(S!op_contemplate(s, i.o), B!op_contemplate(b, i.o), low)
<1>1. s.cycle_count = 0 /\ b.cycle_count = 0
  BY DEF Near, PartsOf
<1>2. S!op_contemplate(s, i.o) = B!Put(s, B!Dst(i.o), 0)
  BY <1>1, SameSmall DEF S!op_contemplate
<1>3. B!op_contemplate(b, i.o) = B!Put(b, B!Dst(i.o), 0)
  BY <1>1 DEF B!op_contemplate
<1>4. B!Dst(i.o) \in 0..15 /\ B!Dst(i.o) \notin {12, SP} /\ 0 \in Int
  BY NearFacts, NamedOf DEF B!Dst
<1> QED  BY <1>2, <1>3, <1>4, NearFacts, PutsAgree

LEMMA EndsAgree ==
  ASSUME NEW s, SeedTyped(s), NEW b, BootTyped(b), Same(s, b), NEW low, Linked(s, b, low),
         NEW state \in States \ {"FAULT"}
  PROVE  Same(B!End(s, state), B!End(b, state)) /\ Linked(B!End(s, state), B!End(b, state), low)
<1> DEFINE p == B!End(s, state)
           q == B!End(b, state)
<1>1. Core(s) /\ Core(b)
  BY DEF SeedTyped, BootTyped
<1>2. Same(p, q)
  BY <1>1, SameState
<1>3. /\ p.reg = s.reg /\ p.stack = s.stack /\ p.heap = s.heap
      /\ q.reg = b.reg /\ q.memory = b.memory
  BY DEF B!End, SeedTyped, BootTyped, Core, CoreFields
<1> HIDE DEF p, q
<1>4. Linked(p, q, low)
  BY <1>3, LinkCalm
<1> QED  BY <1>2, <1>4 DEF p, q

LEMMA BitesAgree ==
  ASSUME NEW s, NEW b, NEW low, NEW i, Near(s, b, low, i), i.op = 41
  PROVE  Same(S!op_bite(s, i.o), B!op_bite(b, i.o))
         /\ Linked(S!op_bite(s, i.o), B!op_bite(b, i.o), low)
<1> DEFINE y == B!Y(s, i.o)
<1>1. B!Y(b, i.o) = y /\ y \in Nat /\ y = s.reg[i.o[2] % 16]
  BY NearFacts, NamedOf, NearRegisters
<1>2. ~ (y >= 256 /\ y % 256 = i.o[1])
  <2>1. LET z == s.reg[i.o[2] % 16] IN ~ (z >= 256 /\ z % 256 = i.o[1])
    BY DEF Near, PartsOf
  <2> QED  BY <1>1, <2>1
<1>3. i.o[1] \in Octets
  BY NearFacts
<1>4. S!op_bite(s, i.o) = IF y = i.o[1] THEN s ELSE B!End(s, "TRAPPED")
  BY SameSmall DEF S!op_bite
<1>5. B!op_bite(b, i.o) = IF y % 256 = i.o[1] THEN b ELSE B!End(b, "TRAPPED")
  BY <1>1 DEF B!op_bite, B!Byte
<1> HIDE DEF y
<1>6. y % 256 = i.o[1] <=> y = i.o[1]
  BY <1>1, <1>2, <1>3 DEF Octets
<1>7. "TRAPPED" \in States \ {"FAULT"}
  BY DEF States
<1>8. Same(B!End(s, "TRAPPED"), B!End(b, "TRAPPED"))
      /\ Linked(B!End(s, "TRAPPED"), B!End(b, "TRAPPED"), low)
  BY <1>7, NearFacts, EndsAgree
<1>9. Same(s, b) /\ Linked(s, b, low)
  BY NearFacts
<1>10. CASE y = i.o[1]
  BY <1>4, <1>5, <1>6, <1>9, <1>10, Zenon
<1>11. CASE y # i.o[1]
  BY <1>4, <1>5, <1>6, <1>8, <1>11, Zenon
<1> QED  BY <1>10, <1>11

LEMMA JumpsAgree ==
  ASSUME NEW s, SeedTyped(s), NEW b, BootTyped(b), Same(s, b), NEW low, Linked(s, b, low), NEW a
  PROVE  LET p == [s EXCEPT !.pc = a]
             q == [b EXCEPT !.pc = a]
         IN  Same(p, q) /\ Linked(p, q, low)
<1> DEFINE p == [s EXCEPT !.pc = a]
           q == [b EXCEPT !.pc = a]
<1>1. Core(s) /\ Core(b)
  BY DEF SeedTyped, BootTyped
<1>2. Same(p, q)
  BY <1>1, SamePc
<1>3. /\ p.reg = s.reg /\ p.stack = s.stack /\ p.heap = s.heap
      /\ q.reg = b.reg /\ q.memory = b.memory
  BY DEF SeedTyped, BootTyped, Core, CoreFields
<1> HIDE DEF p, q
<1>4. Linked(p, q, low)
  BY <1>3, LinkCalm
<1> QED  BY <1>2, <1>4 DEF p, q

LEMMA HighBit ==
  ASSUME NEW md \in {0} \cup 16..31 \cup 48..63
  PROVE  (md \div 16) % 2 = 1 <=> md # 0
<1>1. CASE md = 0
  BY <1>1
<1>2. CASE md \in 16..31
  <2>1. md \div 16 = 1
    BY <1>2
  <2> QED  BY <1>2, <2>1
<1>3. CASE md \in 48..63
  <2>1. md \div 16 = 3
    BY <1>3
  <2> QED  BY <1>3, <2>1
<1> QED  BY <1>1, <1>2, <1>3

LEMMA BranchesAgree ==
  ASSUME NEW s, NEW b, NEW low, NEW i, Near(s, b, low, i), i.op = 2
  PROVE  Same(S!op_branch(s, i.md, i.o), B!op_branch(b, i.md, i.o))
         /\ Linked(S!op_branch(s, i.md, i.o), B!op_branch(b, i.md, i.o), low)
<1> DEFINE x == B!X(s, i.o)
           y == B!Y(s, i.o)
           target == IF i.md = 0 THEN i.o[2] ELSE y
           p == [s EXCEPT !.pc = target]
           q == [b EXCEPT !.pc = target]
<1>1. /\ B!X(b, i.o) = x /\ x = s.reg[i.o[1] % 16] /\ y = s.reg[i.o[2] % 16]
      /\ i.md # 0 => B!Y(b, i.o) = y
      /\ i.md \in 0..63 /\ i.o[2] \in Nat /\ y \in Nat
  <2>1. Instr(i) /\ i.o[2] \in Octets
    BY NearFacts
  <2>2. i.md \in 0..63 /\ i.o[2] \in Nat
    BY <2>1 DEF Instr, Octets
  <2> QED  BY <2>1, <2>2, NearFacts, NamedOf, NearRegisters
<1>2. x # 0 => i.md \in {0} \cup 16..31 \cup 48..63 /\ target < Len(program)
  <2>1. x # 0 => i.md \in {0} \cup 16..31 \cup 48..63
    BY <1>1 DEF Near, PartsOf
  <2>2. x # 0 => ~ (target >= Len(program))
    BY <1>1 DEF Near, PartsOf
  <2>3. Len(program) \in Nat
    <3>1. program \in Programs
      BY DEF Near
    <3> QED  BY <3>1, ProgramsAssumption
  <2> HIDE DEF x, y
  <2> QED  BY <1>1, <2>1, <2>2, <2>3
<1>3. Len(program) <= StackSize /\ StackSize <= MemorySize
  <2>1. Len(program) <= StackSize
    BY NearFacts DEF Linked, TextKept
  <2> QED  BY <2>1, Sizes
<1>4. Same(p, q) /\ Linked(p, q, low)
  BY NearFacts, JumpsAgree
<1>5. S!op_branch(s, i.md, i.o) = IF x # 0 /\ target < Len(program) THEN p ELSE s
  <2>1. S!op_branch(s, i.md, i.o) =
          LET to == IF (i.md \div 16) % 2 = 1 THEN y ELSE i.o[2]
          IN  IF x # 0 /\ to < Len(program) THEN [s EXCEPT !.pc = to] ELSE s
    BY SameSmall DEF S!op_branch
  <2>2. x # 0 => (IF (i.md \div 16) % 2 = 1 THEN y ELSE i.o[2]) = target
    BY <1>2, HighBit
  <2> HIDE DEF x, y, target
  <2> QED  BY <2>1, <2>2 DEF p
<1>6. B!op_branch(b, i.md, i.o) = IF x # 0 /\ target < MemorySize THEN q ELSE b
  <2>1. B!op_branch(b, i.md, i.o) =
          LET to == IF i.md # 0 THEN B!Y(b, i.o) ELSE i.o[2]
          IN  IF x # 0 /\ to < MemorySize THEN [b EXCEPT !.pc = to] ELSE b
    BY <1>1 DEF B!op_branch
  <2>2. (IF i.md # 0 THEN B!Y(b, i.o) ELSE i.o[2]) = target
    BY <1>1
  <2> HIDE DEF x, y, target
  <2> QED  BY <2>1, <2>2 DEF q
<1> HIDE DEF p, q, x, y, target
<1>7. x # 0 => target < Len(program) /\ target < MemorySize
  <2>1. target \in Nat /\ Len(program) \in Nat /\ StackSize \in Nat /\ MemorySize \in Nat
    <3>1. program \in Programs
      BY DEF Near
    <3>2. Len(program) \in Nat
      BY <3>1, ProgramsAssumption
    <3> QED  BY <1>1, <3>2, Sizes DEF target
  <2> QED  BY <1>2, <1>3, <2>1
<1>8. Same(s, b) /\ Linked(s, b, low)
  BY NearFacts
<1>9. CASE x = 0
  BY <1>5, <1>6, <1>8, <1>9, Zenon
<1>10. CASE x # 0
  <2>1. S!op_branch(s, i.md, i.o) = p /\ B!op_branch(b, i.md, i.o) = q
    BY <1>5, <1>6, <1>7, <1>10
  <2> QED  BY <1>4, <2>1, Zenon
<1> QED  BY <1>9, <1>10

(* Writing one cell of the memory, or of the heap.                         *)
LEMMA CellWritten ==
  ASSUME NEW b, BootTyped(b), NEW a \in B!Addresses, NEW v \in Octets
  PROVE  LET n == [b EXCEPT !.memory[a] = v]
         IN  /\ BootTyped(n) /\ Keeps(b, n, {"memory"}) /\ n.reg = b.reg
             /\ n.memory[a] = v /\ \A c \in B!Addresses : c # a => n.memory[c] = b.memory[c]
<1> DEFINE g == [b.memory EXCEPT ![a] = v]
           n == [b EXCEPT !.memory = g]
<1>1. b.memory \in [B!Addresses -> Octets]
  BY DEF BootTyped
<1>2. g \in [B!Addresses -> Octets] /\ g[a] = v
      /\ \A c \in B!Addresses : c # a => g[c] = b.memory[c]
  BY <1>1
<1>3. [b EXCEPT !.memory[a] = v] = n
  OBVIOUS
<1> HIDE DEF g
<1>4. BootTyped(n) /\ Keeps(b, n, {"memory"}) /\ n.reg = b.reg /\ n.memory = g
  BY <1>2, WithMemory
<1> HIDE DEF n
<1> QED  BY <1>2, <1>3, <1>4

LEMMA HeapWritten ==
  ASSUME NEW s, SeedTyped(s), NEW a \in 0..(HeapSize - 1), NEW v \in Octets
  PROVE  LET n == [s EXCEPT !.heap[a] = v]
         IN  /\ SeedTyped(n) /\ Keeps(s, n, {"heap"}) /\ n.reg = s.reg /\ n.stack = s.stack
             /\ n.heap[a] = v /\ \A c \in 0..(HeapSize - 1) : c # a => n.heap[c] = s.heap[c]
<1> DEFINE g == [s.heap EXCEPT ![a] = v]
           n == [s EXCEPT !.heap = g]
<1>1. s.heap \in [0..(HeapSize - 1) -> Octets]
  BY DEF SeedTyped
<1>2. g \in [0..(HeapSize - 1) -> Octets] /\ g[a] = v
      /\ \A c \in 0..(HeapSize - 1) : c # a => g[c] = s.heap[c]
  BY <1>1
<1>3. [s EXCEPT !.heap[a] = v] = n
  OBVIOUS
<1> HIDE DEF g
<1>4. SeedTyped(n) /\ Keeps(s, n, {"heap"}) /\ n.reg = s.reg /\ n.stack = s.stack /\ n.heap = g
  BY <1>2, SeedWithHeap
<1> HIDE DEF n
<1> QED  BY <1>2, <1>3, <1>4

(* The window lies between the text and the stack.                         *)
LEMMA WindowPlace ==
  ASSUME program \in Programs, NEW s, NEW b, NEW low, Linked(s, b, low), NEW a \in Window(low)
  PROVE  /\ a \in Nat /\ a >= Len(program) /\ a < b.reg[SP] /\ a < StackSize /\ a < HeapSize
         /\ a \in B!Addresses /\ a \in 0..(HeapSize - 1)
<1>1. Len(program) \in Nat
  BY ProgramsAssumption
<1>2. low \in Int /\ low <= b.reg[SP] /\ b.reg[SP] \in 0..(StackSize - 1)
  BY DEF Linked
<1>3. a \in Len(program)..(low - 1) /\ a < HeapSize
  BY DEF Window
<1>4. StackSize \in Nat /\ HeapSize \in Nat /\ MemorySize \in Nat /\ StackSize <= MemorySize
  BY Sizes
<1> QED  BY <1>1, <1>2, <1>3, <1>4 DEF B!Addresses

(* Neither machine disturbs what links them, beyond the window.            *)
LEMMA BeyondWindow ==
  ASSUME program \in Programs, NEW s, SeedTyped(s), NEW b, BootTyped(b), NEW low, Linked(s, b, low),
         NEW ns, NEW nb, ns.reg[SP] = s.reg[SP], ns.stack = s.stack, ns.heap = s.heap,
         nb.reg[SP] = b.reg[SP],
         \A a \in B!Addresses : a < StackSize => nb.memory[a] = b.memory[a]
  PROVE  Linked(ns, nb, low)
<1>1. /\ b.reg[SP] \in 0..(StackSize - 1) /\ Len(program) <= StackSize /\ Len(program) \in Nat
      /\ StackSize \in Nat /\ MemorySize \in Nat /\ StackSize <= MemorySize
  BY ProgramsAssumption, Sizes DEF Linked, TextKept
<1>2. StackKept(b, nb)
  BY <1>1 DEF StackKept, B!Addresses
<1>3. \A a \in 0..(Len(program) - 1) : nb.memory[a] = b.memory[a]
  BY <1>1 DEF B!Addresses
<1>4. \A a \in Window(low) : ns.heap[a] = nb.memory[a]
  BY WindowPlace DEF Linked
<1> QED  BY <1>2, <1>3, <1>4, LinkStays

LEMMA SyncsAgree ==
  ASSUME NEW s, NEW b, NEW low, NEW i, Near(s, b, low, i), i.op = 21
  PROVE  Same(S!op_sync(s, i.o), B!op_sync(b, i.o))
         /\ Linked(S!op_sync(s, i.o), B!op_sync(b, i.o), low)
<1> DEFINE p == S!op_sync(s, i.o)
<1>1. SeedTyped(s) /\ Core(s) /\ Core(b) /\ Same(s, b) /\ BootTyped(b) /\ Linked(s, b, low)
  BY NearFacts
<1>2. /\ Keeps(s, p, {"barriers"}) /\ p.reg = s.reg /\ p.stack = s.stack /\ p.heap = s.heap
  BY <1>1 DEF S!op_sync, Keeps, SeedTyped, Core, CoreFields
<1>3. B!op_sync(b, i.o) = b /\ Keeps(b, b, {})
  BY DEF B!op_sync, Keeps
<1> HIDE DEF p
<1>4. Same(p, b)
  BY <1>1, <1>2, <1>3, SameBy DEF Shared
<1>5. Linked(p, b, low)
  BY <1>1, <1>2, LinkCalm
<1> QED  BY <1>3, <1>4, <1>5 DEF p

LEMMA LocksAgree ==
  ASSUME NEW s, NEW b, NEW low, NEW i, Near(s, b, low, i), i.op \in {10, 58},
         NEW locks, NEW v \in Octets, NEW ns, ns \in {s, [s EXCEPT !.locks = locks]},
         NEW nb, nb \in {b, [b EXCEPT !.memory[StackSize + i.o[1]] = v]},
         i.o[1] < MaxLocks \/ nb = b
  PROVE  Same(ns, nb) /\ Linked(ns, nb, low)
<1>1. /\ SeedTyped(s) /\ Core(s) /\ Core(b) /\ Same(s, b) /\ BootTyped(b) /\ Linked(s, b, low)
      /\ program \in Programs
  BY NearFacts DEF Near
<1>2. /\ Keeps(s, ns, {"locks"}) /\ ns.reg = s.reg /\ ns.stack = s.stack /\ ns.heap = s.heap
  BY <1>1 DEF Keeps, SeedTyped, Core, CoreFields
<1>3. /\ Keeps(b, nb, {"memory"}) /\ nb.reg = b.reg
      /\ \A a \in B!Addresses : a < StackSize => nb.memory[a] = b.memory[a]
  <2>1. CASE nb = b
    BY <2>1 DEF Keeps
  <2>2. CASE nb # b
    <3> DEFINE c == StackSize + i.o[1]
    <3>1. c \in B!Addresses /\ c \in Nat /\ c >= StackSize /\ StackSize \in Nat
      <4>1. i.o[1] \in Nat /\ i.o[1] < MaxLocks
        BY <2>2, NearFacts DEF Octets
      <4> QED  BY <4>1, Sizes DEF B!Addresses
    <3>2. nb = [b EXCEPT !.memory[c] = v]
      BY <2>2
    <3> HIDE DEF c
    <3>3. /\ Keeps(b, nb, {"memory"}) /\ nb.reg = b.reg
          /\ \A a \in B!Addresses : a # c => nb.memory[a] = b.memory[a]
      BY <1>1, <3>1, <3>2, CellWritten
    <3> QED  BY <3>1, <3>3 DEF B!Addresses
  <2> QED  BY <2>1, <2>2
<1>4. Same(ns, nb)
  BY <1>1, <1>2, <1>3, SameBy DEF Shared
<1>5. Linked(ns, nb, low)
  BY <1>1, <1>2, <1>3, BeyondWindow
<1> QED  BY <1>4, <1>5

LEMMA LockingAgrees ==
  ASSUME NEW s, NEW b, NEW low, NEW i, Near(s, b, low, i), i.op \in {10, 58},
         NEW ns, ns = (IF i.op = 58 THEN S!op_lock(s, i.o) ELSE S!op_unlock(s, i.o)),
         NEW nb, nb = (IF i.op = 58 THEN B!op_lock(b, i.o) ELSE B!op_unlock(b, i.o))
  PROVE  Same(ns, nb) /\ Linked(ns, nb, low)
<1> DEFINE locks == IF i.op = 58 THEN s.locks \cup {i.o[1]} ELSE s.locks \ {i.o[1]}
           v == IF i.op = 58 THEN 1 ELSE 0
<1>1. i.op = 58 => i.o[1] \notin s.locks
  BY DEF Near, PartsOf
<1>2. ns \in {s, [s EXCEPT !.locks = locks]}
  BY <1>1 DEF S!op_lock, S!op_unlock
<1>3. nb \in {b, [b EXCEPT !.memory[StackSize + i.o[1]] = v]} /\ (i.o[1] < MaxLocks \/ nb = b)
  BY DEF B!op_lock, B!op_unlock
<1>4. v \in Octets
  BY DEF Octets
<1> HIDE DEF locks, v
<1> QED  BY <1>2, <1>3, <1>4, LocksAgree

(* ABUNDANCE and DISPERSE do the same.                                     *)
LEMMA StoringAgrees ==
  ASSUME NEW s, NEW b, NEW low, NEW i, Near(s, b, low, i), i.op \in {47, 50},
         NEW ns, ns = S!op_abundance(s, i.o), NEW nb, nb = B!op_abundance(b, i.o)
  PROVE  Same(ns, nb) /\ Linked(ns, nb, low)
<1> DEFINE x == B!X(s, i.o)
           v == B!Y(s, i.o) % 256
<1>1. /\ SeedTyped(s) /\ Core(s) /\ Core(b) /\ Same(s, b) /\ BootTyped(b) /\ Linked(s, b, low)
      /\ program \in Programs
  BY NearFacts DEF Near
<1>2. /\ B!X(b, i.o) = x /\ B!Y(b, i.o) % 256 = v /\ x \in Nat /\ v \in Octets
  <2>1. B!Y(s, i.o) \in Nat /\ B!X(b, i.o) = x /\ B!Y(b, i.o) = B!Y(s, i.o) /\ x \in Nat
    BY NearFacts, NamedOf, NearRegisters
  <2> HIDE DEF x
  <2> QED  BY <2>1 DEF Octets
<1>3. x < MemorySize => x \in Window(low)
  <2>1. x = s.reg[i.o[1] % 16]
    BY NearRegisters
  <2> QED  BY <2>1 DEF Near, PartsOf
<1>4. ns = IF x < HeapSize THEN [s EXCEPT !.heap[x] = v] ELSE s
  BY SameSmall DEF S!op_abundance
<1>5. nb = IF x < MemorySize THEN [b EXCEPT !.memory[x] = v] ELSE b
  BY <1>2 DEF B!op_abundance, B!InMemory, B!Byte
<1> HIDE DEF x, v
<1>6. CASE x < MemorySize
  <2>1. x \in Nat /\ x >= Len(program) /\ x < b.reg[SP] /\ x < StackSize /\ x < HeapSize
        /\ x \in B!Addresses /\ x \in 0..(HeapSize - 1)
    BY <1>1, <1>3, <1>6, WindowPlace
  <2>2. ns = [s EXCEPT !.heap[x] = v] /\ nb = [b EXCEPT !.memory[x] = v]
    BY <1>4, <1>5, <1>6, <2>1
  <2>3. /\ Keeps(s, ns, {"heap"}) /\ ns.reg = s.reg /\ ns.stack = s.stack
        /\ ns.heap[x] = v /\ \A c \in 0..(HeapSize - 1) : c # x => ns.heap[c] = s.heap[c]
    <3>1. SeedTyped(s) /\ x \in 0..(HeapSize - 1) /\ v \in Octets /\ ns = [s EXCEPT !.heap[x] = v]
      BY <1>1, <1>2, <2>1, <2>2
    <3> QED  BY <3>1, HeapWritten
  <2>4. /\ Keeps(b, nb, {"memory"}) /\ nb.reg = b.reg
        /\ nb.memory[x] = v /\ \A c \in B!Addresses : c # x => nb.memory[c] = b.memory[c]
    BY <1>1, <1>2, <2>1, <2>2, CellWritten
  <2>5. Same(ns, nb)
    BY <1>1, <2>3, <2>4, SameBy DEF Shared
  <2>6. StackKept(b, nb)
    <3>1. /\ b.reg[SP] \in 0..(StackSize - 1) /\ StackSize \in Nat /\ MemorySize \in Nat
          /\ StackSize <= MemorySize
      BY <1>1, Sizes DEF Linked
    <3>2. ASSUME NEW a \in b.reg[SP]..(StackSize - 1)
          PROVE  a \in B!Addresses /\ a # x
      BY <2>1, <3>1 DEF B!Addresses
    <3> QED  BY <2>4, <3>2 DEF StackKept
  <2>7. \A a \in 0..(Len(program) - 1) : nb.memory[a] = b.memory[a]
    <3>1. /\ Len(program) <= StackSize /\ Len(program) \in Nat
          /\ StackSize \in Nat /\ MemorySize \in Nat /\ StackSize <= MemorySize
      BY <1>1, ProgramsAssumption, Sizes DEF Linked, TextKept
    <3>2. ASSUME NEW a \in 0..(Len(program) - 1)
          PROVE  a \in B!Addresses /\ a # x
      BY <2>1, <3>1 DEF B!Addresses
    <3> QED  BY <2>4, <3>2
  <2>8. ASSUME NEW a \in Window(low)
        PROVE  ns.heap[a] = nb.memory[a]
    <3>1. s.heap[a] = b.memory[a]
      BY <1>1 DEF Linked
    <3>2. a \in B!Addresses /\ a \in 0..(HeapSize - 1)
      BY <1>1, WindowPlace
    <3> QED  BY <2>3, <2>4, <3>1, <3>2
  <2>9. Linked(ns, nb, low)
    BY <1>1, <2>3, <2>4, <2>6, <2>7, <2>8, LinkStays
  <2> QED  BY <2>5, <2>9
<1>7. CASE ~ (x < MemorySize)
  <2>1. ~ (x < HeapSize)
    BY <1>2, <1>7, Sizes
  <2> QED  BY <1>1, <1>4, <1>5, <1>7, <2>1
<1> QED  BY <1>6, <1>7

LEMMA LoadsAgree ==
  ASSUME NEW s, NEW b, NEW low, NEW i, Near(s, b, low, i), i.op = 54
  PROVE  Same(S!op_penetrate(s, i.o), B!op_penetrate(b, i.o))
         /\ Linked(S!op_penetrate(s, i.o), B!op_penetrate(b, i.o), low)
<1> DEFINE x == B!X(s, i.o)
           r == i.o[2] % 16
           p == S!op_penetrate(s, i.o)
           q == B!op_penetrate(b, i.o)
<1>1. /\ SeedTyped(s) /\ Same(s, b) /\ BootTyped(b) /\ Linked(s, b, low) /\ program \in Programs
  BY NearFacts DEF Near
<1>2. /\ B!X(b, i.o) = x /\ x \in Nat /\ B!Src(i.o) = r /\ r \in 0..15 /\ r \notin {12, SP}
  <2>1. B!Src(i.o) = r
    BY DEF B!Src
  <2> QED  BY <2>1, NearFacts, NamedOf, NearRegisters
<1>3. x < MemorySize => x \in Window(low)
  <2>1. x = s.reg[i.o[1] % 16]
    BY NearRegisters
  <2> QED  BY <2>1 DEF Near, PartsOf
<1>4. p = IF x < HeapSize THEN B!Put(s, r, s.heap[x]) ELSE s
  BY <1>2, SameSmall DEF S!op_penetrate
<1>5. q = IF x < MemorySize THEN B!Put(b, r, b.memory[x]) ELSE b
  BY <1>2 DEF B!op_penetrate, B!InMemory
<1> HIDE DEF x, r, p, q
<1>6. CASE x < MemorySize
  <2>1. x < HeapSize /\ x \in B!Addresses /\ s.heap[x] = b.memory[x]
    <3>1. x \in Window(low)
      BY <1>3, <1>6
    <3>2. s.heap[x] = b.memory[x]
      BY <1>1, <3>1 DEF Linked
    <3> QED  BY <1>1, <3>1, <3>2, WindowPlace
  <2>2. b.memory[x] \in Int
    BY <1>1, <2>1 DEF BootTyped, Octets
  <2>3. p = B!Put(s, r, b.memory[x]) /\ q = B!Put(b, r, b.memory[x])
    BY <1>4, <1>5, <1>6, <2>1
  <2>4. Same(p, q) /\ Linked(p, q, low)
    BY <1>1, <1>2, <2>2, <2>3, PutsAgree
  <2> QED  BY <2>4 DEF p, q
<1>7. CASE ~ (x < MemorySize)
  <2>1. ~ (x < HeapSize)
    BY <1>2, <1>7, Sizes
  <2> QED  BY <1>1, <1>4, <1>5, <1>7, <2>1 DEF p, q
<1> QED  BY <1>6, <1>7

LEMMA NourishesAgree ==
  ASSUME NEW s, NEW b, NEW low, NEW i, Near(s, b, low, i), i.op = 33
  PROVE  Same(S!op_nourish(s, i.o), B!op_nourish(b, i.o))
         /\ Linked(S!op_nourish(s, i.o), B!op_nourish(b, i.o), low)
<1> DEFINE zeros == [a \in 0..(HeapSize - 1) |-> 0]
           g == [a \in B!Addresses |-> IF a >= StackSize /\ a < StackSize + HeapSize
                THEN 0 ELSE b.memory[a]]
           p == S!op_nourish(s, i.o)
           q == B!op_nourish(b, i.o)
<1>1. /\ SeedTyped(s) /\ BootTyped(b) /\ Core(s) /\ Core(b) /\ Same(s, b) /\ Linked(s, b, low)
      /\ program \in Programs
  BY NearFacts DEF Near
<1>2. p = [s EXCEPT !.heap_ptr = 0, !.heap = zeros]
  BY DEF S!op_nourish, S!vm_init
<1>3. q = [[b EXCEPT !.memory = g] EXCEPT !.heap_ptr = StackSize]
  BY <1>1 DEF B!op_nourish, B!Filled, BootTyped, Core
<1>4. \A a \in B!Addresses : a < StackSize => g[a] = b.memory[a]
  BY Sizes DEF B!Addresses
<1>5. \A a \in Window(low) : zeros[a] = 0
  BY <1>1, WindowPlace
<1> HIDE DEF zeros, g, p, q
<1>6. /\ Keeps(s, p, {"heap", "heap_ptr"}) /\ p.reg = s.reg /\ p.stack = s.stack /\ p.heap = zeros
  BY <1>1, <1>2 DEF Keeps, SeedTyped, Core, CoreFields
<1>7. /\ Keeps(b, q, {"memory", "heap_ptr"}) /\ q.reg = b.reg /\ q.memory = g
  BY <1>1, <1>3 DEF Keeps, BootTyped, Core, CoreFields
<1>8. Same(p, q)
  BY <1>1, <1>6, <1>7, SameBy DEF Shared
<1>9. \A a \in Window(low) : p.heap[a] = q.memory[a]
  <2>1. ASSUME NEW a \in Window(low)
        PROVE  p.heap[a] = q.memory[a]
    <3>1. s.heap[a] = 0
      BY DEF Near, PartsOf
    <3>2. b.memory[a] = 0
      BY <1>1, <3>1 DEF Linked
    <3>3. a \in B!Addresses /\ a < StackSize
      BY <1>1, WindowPlace
    <3> QED  BY <1>4, <1>5, <1>6, <1>7, <3>2, <3>3
  <2> QED  BY <2>1
<1>10. /\ b.reg[SP] \in 0..(StackSize - 1) /\ Len(program) <= StackSize /\ Len(program) \in Nat
       /\ StackSize \in Nat /\ MemorySize \in Nat /\ StackSize <= MemorySize
  BY <1>1, ProgramsAssumption, Sizes DEF Linked, TextKept
<1>11. StackKept(b, q)
  BY <1>4, <1>7, <1>10 DEF StackKept, B!Addresses
<1>12. \A a \in 0..(Len(program) - 1) : q.memory[a] = b.memory[a]
  BY <1>4, <1>7, <1>10 DEF B!Addresses
<1>13. Linked(p, q, low)
  BY <1>1, <1>6, <1>7, <1>9, <1>11, <1>12, LinkStays
<1> QED  BY <1>8, <1>13 DEF p, q

(* The pointers to the stack need not be the same.                         *)
LEMMA SamePointers ==
  ASSUME NEW s, Core(s), NEW b, Core(b), Same(s, b), NEW v \in Int, NEW w \in Int
  PROVE  Same(B!Put(s, SP, v), B!Put(b, SP, w))
<1> DEFINE p == B!Put(s, SP, v)
           q == B!Put(b, SP, w)
           vw == v % B!Word
           ww == w % B!Word
<1>0. SP \in 0..15
  BY DEF SP
<1>1. /\ Keeps(s, p, {"reg"}) /\ p.reg = [s.reg EXCEPT ![SP] = vw]
      /\ Keeps(b, q, {"reg"}) /\ q.reg = [b.reg EXCEPT ![SP] = ww]
  BY <1>0, PutEffect
<1>2. DOMAIN s.reg = 0..15 /\ DOMAIN b.reg = 0..15
  BY DEF Core
<1> HIDE DEF p, q, vw, ww
<1>3. \A t \in 0..15 : t \notin {12, SP} => p.reg[t] = q.reg[t]
  BY <1>1, <1>2 DEF Same
<1>4. Same(p, q)
  BY <1>1, <1>3, SameBy DEF Shared
<1> QED  BY <1>4 DEF p, q

LEMMA PopsAgree ==
  ASSUME NEW s, SeedTyped(s), NEW b, BootTyped(b), Same(s, b), NEW low, Linked(s, b, low),
         s.reg[SP] < StackSize
  PROVE  LET p == B!Put(s, SP, s.reg[SP] + 1)
             q == B!Put(b, SP, b.reg[SP] + WordBytes)
         IN  SeedTyped(p) /\ BootTyped(q) /\ Same(p, q) /\ Linked(p, q, low)
<1> DEFINE v == s.reg[SP] + 1
           w == b.reg[SP] + WordBytes
           p == B!Put(s, SP, v)
           q == B!Put(b, SP, w)
<1>1. Core(s) /\ Core(b) /\ SP \in 0..15
  BY DEF SeedTyped, BootTyped, SP
<1>2. v \in Int /\ v % B!Word = v
  BY SeedPointer
<1>3. w \in Int /\ w % B!Word = w
  <2>1. b.reg[SP] < StackSize - WordBytes
    BY PopsTogether
  <2>2. b.reg[SP] \in Nat
    BY Sizes DEF Linked
  <2> QED  BY <2>1, <2>2, PoppedPointer
<1> HIDE DEF v, w
<1>4. Same(p, q)
  BY <1>1, <1>2, <1>3, SamePointers
<1>5. /\ SeedTyped(p) /\ p.reg[SP] = v % B!Word /\ p.stack = s.stack /\ p.heap = s.heap
  BY <1>2, SeedMoved
<1>6. /\ BootTyped(q) /\ q.memory = b.memory /\ q.reg = [b.reg EXCEPT ![SP] = w % B!Word]
  <2>1. SP \in 0..15 /\ w \in Int /\ BootTyped(b)
    BY <1>1, <1>3
  <2>2. Written(b, q, SP, w)
    BY <2>1, PutWrites
  <2> HIDE DEF q
  <2> QED  BY <2>2 DEF Written
<1>7. q.reg[SP] = w
  BY <1>1, <1>3, <1>6 DEF Core
<1> HIDE DEF p, q
<1>8. Linked(p, q, low)
  BY <1>2, <1>5, <1>6, <1>7, LinkPops DEF v, w
<1> QED  BY <1>4, <1>5, <1>6, <1>8 DEF p, q, v, w

LEMMA ReturnsAgree ==
  ASSUME NEW s, NEW b, NEW low, NEW i, Near(s, b, low, i), i.op = 1
  PROVE  Same(S!op_return(s, i.o), B!op_return(b, i.o))
         /\ Linked(S!op_return(s, i.o), B!op_return(b, i.o), low)
<1>1. SeedTyped(s) /\ BootTyped(b) /\ Same(s, b) /\ Linked(s, b, low)
  BY NearFacts
<1>2. s.reg[SP] < StackSize <=> b.reg[SP] < StackSize - WordBytes
  BY <1>1, PopsTogether
<1>3. CASE s.reg[SP] < StackSize
  <2> DEFINE p == B!Put(s, SP, s.reg[SP] + 1)
             q == B!Put(b, SP, b.reg[SP] + WordBytes)
             a == s.stack[s.reg[SP]]
  <2>1. a = B!vm_read_u32(b, b.reg[SP])
    BY <1>1, <1>3, PopsTogether
  <2>2. S!op_return(s, i.o) = [p EXCEPT !.pc = a]
    BY <1>3, SameSmall DEF S!op_return, SP
  <2>3. B!op_return(b, i.o) = [q EXCEPT !.pc = a]
    BY <1>2, <1>3, <2>1 DEF B!op_return, SP
  <2>4. SeedTyped(p) /\ BootTyped(q) /\ Same(p, q) /\ Linked(p, q, low)
    BY <1>1, <1>3, PopsAgree
  <2> HIDE DEF p, q, a
  <2> QED  BY <2>2, <2>3, <2>4, JumpsAgree
<1>4. CASE ~ (s.reg[SP] < StackSize)
  <2>1. S!op_return(s, i.o) = B!End(s, "HALTED")
    BY <1>4, SameSmall DEF S!op_return, SP
  <2>2. B!op_return(b, i.o) = B!End(b, "HALTED")
    BY <1>2, <1>4 DEF B!op_return, SP
  <2>3. "HALTED" \in States \ {"FAULT"}
    BY DEF States
  <2> QED  BY <1>1, <2>1, <2>2, <2>3, EndsAgree
<1> QED  BY <1>3, <1>4

LEMMA WellsAgree ==
  ASSUME NEW s, NEW b, NEW low, NEW i, Near(s, b, low, i), i.op = 22
  PROVE  Same(S!op_well(s, i.o), B!op_well(b, i.o))
         /\ Linked(S!op_well(s, i.o), B!op_well(b, i.o), low)
<1> DEFINE r == i.o[1] % 16
<1>1. SeedTyped(s) /\ BootTyped(b) /\ Core(s) /\ Core(b) /\ Same(s, b) /\ Linked(s, b, low)
  BY NearFacts
<1>2. s.reg[SP] < StackSize <=> b.reg[SP] < StackSize - WordBytes
  BY <1>1, PopsTogether
<1>3. B!Dst(i.o) = r /\ r \in 0..15 /\ r \notin {12, SP}
  BY NearFacts, NamedOf DEF B!Dst
<1> HIDE DEF r
<1>4. CASE s.reg[SP] < StackSize
  <2> DEFINE v == s.stack[s.reg[SP]]
             ps == B!Put(s, r, v)
             pb == B!Put(b, r, v)
             p == B!Put(ps, SP, ps.reg[SP] + 1)
             q == B!Put(pb, SP, pb.reg[SP] + WordBytes)
  <2>1. v = B!vm_read_u32(b, b.reg[SP])
    BY <1>1, <1>4, PopsTogether
  <2>2. v \in Int
    <3>1. v \in Octets
      BY <1>1, <1>4, SeedPointer
    <3> QED  BY <3>1 DEF Octets
  <2>3. S!op_well(s, i.o) = p
    BY <1>3, <1>4, SameSmall DEF S!op_well, SP
  <2>4. B!op_well(b, i.o) = B!Put(pb, SP, b.reg[SP] + WordBytes)
    BY <1>2, <1>3, <1>4, <2>1 DEF B!op_well, SP
  <2> HIDE DEF v
  <2>5. Same(ps, pb) /\ Linked(ps, pb, low)
    BY <1>1, <1>3, <2>2, PutsAgree
  <2>6. Calm(s, ps, {r}) /\ Calm(b, pb, {r})
    BY <1>1, <1>3, <2>2, PutCalm
  <2> HIDE DEF ps, pb
  <2>7. SeedTyped(ps) /\ BootTyped(pb)
    BY <1>1, <2>6, SeedCalmTyped, CalmTyped
  <2>8. ps.reg[SP] = s.reg[SP] /\ pb.reg[SP] = b.reg[SP]
    BY <1>3, <2>6 DEF Calm, SP
  <2>9. Same(p, q) /\ Linked(p, q, low)
    BY <1>4, <2>5, <2>7, <2>8, PopsAgree
  <2> QED  BY <2>3, <2>4, <2>8, <2>9
<1>5. CASE ~ (s.reg[SP] < StackSize)
  <2>1. S!op_well(s, i.o) = s
    BY <1>5 DEF S!op_well, SP
  <2>2. B!op_well(b, i.o) = b
    BY <1>2, <1>5 DEF B!op_well, SP
  <2> QED  BY <1>1, <2>1, <2>2
<1> QED  BY <1>4, <1>5

(* What PUSH_UP leaves, on this machine and on that.                        *)
LEMMA SeedPushed ==
  ASSUME NEW s, SeedTyped(s), NEW o, o[1] \in Octets, o[1] % 16 # SP,
         s.reg[SP] # 0, s.reg[SP] <= StackSize, NEW v \in Octets, s.reg[o[1] % 16] = v
  PROVE  LET p == B!Put(s, SP, s.reg[SP] - 1)
             n == S!op_push_up(s, o)
         IN  /\ SeedTyped(p) /\ Keeps(p, n, {"stack"}) /\ n.reg = p.reg /\ n.heap = s.heap
             /\ n.reg[SP] = s.reg[SP] - 1 /\ n.stack = [s.stack EXCEPT ![s.reg[SP] - 1] = v]
<1> DEFINE sp == s.reg[SP] - 1
           p == B!Put(s, SP, sp)
           g == [s.stack EXCEPT ![sp] = v]
           n == [p EXCEPT !.stack = g]
<1>1. sp \in Nat /\ sp \in Int /\ sp % B!Word = sp /\ sp < StackSize
  <2>1. s.reg[SP] \in Nat /\ sp % B!Word = sp /\ sp \in Int
    BY SeedPointer
  <2>2. StackSize \in Nat
    BY Sizes
  <2> QED  BY <2>1, <2>2
<1>2. sp \in 0..(StackSize - 1) /\ s.stack \in [0..(StackSize - 1) -> Octets]
  <2>1. StackSize \in Nat
    BY Sizes
  <2>2. s.stack \in [0..(StackSize - 1) -> Octets]
    BY DEF SeedTyped
  <2> HIDE DEF sp
  <2> QED  BY <1>1, <2>1, <2>2
<1> HIDE DEF sp
<1>3. SeedTyped(p) /\ p.reg[SP] = sp /\ p.stack = s.stack /\ p.heap = s.heap
      /\ \A r \in 0..15 : r # SP => p.reg[r] = s.reg[r]
  BY <1>1, SeedMoved
<1>4. B!Dst(o) = o[1] % 16 /\ o[1] % 16 \in 0..15
  BY DEF B!Dst, Octets
<1> HIDE DEF p
<1>5. p.reg[B!Dst(o)] % 256 = v
  <2>1. p.reg[B!Dst(o)] = v
    BY <1>3, <1>4
  <2> QED  BY <2>1 DEF Octets
<1>6. S!op_push_up(s, o) = [p EXCEPT !.stack[sp] = v]
  <2>1. S!op_push_up(s, o) = [p EXCEPT !.stack[p.reg[SP]] = p.reg[B!Dst(o)] % 256]
    BY <1>1, <1>3, SameSmall DEF S!op_push_up, SP, p, sp
  <2> QED  BY <1>3, <1>5, <2>1
<1>7. [p EXCEPT !.stack[sp] = v] = n
  BY <1>3
<1>8. g \in [0..(StackSize - 1) -> Octets]
  BY <1>2
<1> HIDE DEF g
<1>9. Keeps(p, n, {"stack"}) /\ n.reg = p.reg /\ n.heap = p.heap /\ n.stack = g
  BY <1>3, <1>8, SeedWithStack
<1> HIDE DEF n
<1> QED  BY <1>3, <1>6, <1>7, <1>9 DEF p, sp, g

LEMMA BootPushed ==
  ASSUME NEW b, BootTyped(b), b.reg[SP] - WordBytes > 0, b.reg[SP] <= StackSize,
         NEW o, NEW v \in Words, B!X(b, o) = v
  PROVE  LET q == B!Put(b, SP, b.reg[SP] - WordBytes)
             n == B!op_push_up(b, o)
         IN  /\ BootTyped(q) /\ Keeps(q, n, {"memory"}) /\ n.reg = q.reg
             /\ n.reg[SP] = b.reg[SP] - WordBytes /\ Joined(n, n.reg[SP]) = v
             /\ \A a \in B!Addresses : a \notin n.reg[SP]..(n.reg[SP] + WordBytes - 1)
                                         => n.memory[a] = b.memory[a]
<1> DEFINE sp == b.reg[SP] - WordBytes
           q == B!Put(b, SP, sp)
           w == B!vm_write_u32(b, sp, v)
           n == B!Put(w, SP, sp)
<1>1. sp \in Nat /\ sp \in Int /\ sp % B!Word = sp /\ sp + WordBytes - 1 < MemorySize
      /\ SP \in 0..15
      /\ b.reg[SP] > WordBytes
  <2>1. /\ b.reg[SP] \in Nat /\ WordBytes \in Nat /\ StackSize \in Nat /\ MemorySize \in Nat
        /\ StackSize < MemorySize /\ StackSize < B!Word /\ B!Word \in Nat /\ SP \in 0..15
    BY RegistersAreNumbers, Sizes DEF SP
  <2>2. sp \in Nat /\ sp < B!Word /\ sp + WordBytes - 1 < MemorySize /\ b.reg[SP] > WordBytes
    BY <2>1
  <2> HIDE DEF sp
  <2> QED  BY <2>1, <2>2, ModWord
<1>2. B!op_push_up(b, o) = n
  BY <1>1 DEF B!op_push_up, SP
<1> HIDE DEF sp
<1>3. /\ BootTyped(w) /\ Keeps(b, w, {"memory"}) /\ w.reg = b.reg
      /\ \A a \in B!Addresses : a \notin sp..(sp + WordBytes - 1) => w.memory[a] = b.memory[a]
      /\ Joined(w, sp) = v
  BY <1>1, WriteEffect
<1> HIDE DEF w
<1>4. BootTyped(q) /\ Keeps(b, q, {"reg"}) /\ q.reg = [b.reg EXCEPT ![SP] = sp % B!Word]
  BY <1>1, PutKeeps
<1>5. BootTyped(n) /\ Keeps(w, n, {"reg"}) /\ n.memory = w.memory
      /\ n.reg = [w.reg EXCEPT ![SP] = sp % B!Word]
  <2>1. Written(w, n, SP, sp)
    BY <1>1, <1>3, PutWrites
  <2> HIDE DEF n
  <2> QED  BY <2>1 DEF Written
<1> HIDE DEF q, n
<1>6. Keeps(q, n, {"memory"}) /\ n.reg = q.reg
  BY <1>3, <1>4, <1>5 DEF Keeps
<1>7. n.reg[SP] = sp
  BY <1>1, <1>3, <1>5 DEF BootTyped, Core
<1>8. Joined(n, sp) = v
  BY <1>3, <1>5 DEF Joined
<1> QED  BY <1>2, <1>3, <1>4, <1>5, <1>6, <1>7, <1>8 DEF q, sp

LEMMA PushesAgree ==
  ASSUME NEW s, NEW b, NEW low, NEW i, Near(s, b, low, i), i.op = 6, Len(program) > 0
  PROVE  Same(S!op_push_up(s, i.o), B!op_push_up(b, i.o))
         /\ Linked(S!op_push_up(s, i.o), B!op_push_up(b, i.o), Lower(b, low, i))
<1> DEFINE v == B!X(s, i.o)
           p == B!Put(s, SP, s.reg[SP] - 1)
           q == B!Put(b, SP, b.reg[SP] - WordBytes)
           np == S!op_push_up(s, i.o)
           nq == B!op_push_up(b, i.o)
<1>1. /\ SeedTyped(s) /\ BootTyped(b) /\ Core(s) /\ Core(b) /\ Same(s, b) /\ Linked(s, b, low)
      /\ program \in Programs /\ i.o[1] \in Octets
  BY NearFacts DEF Near
<1>2. IsPush(i)
  BY DEF IsPush
<1>3. v = s.reg[i.o[1] % 16] /\ B!X(b, i.o) = v /\ v \in Words /\ v \in Nat /\ i.o[1] % 16 # SP
  BY NearFacts, NamedOf, NearRegisters
<1>4. v \in Octets
  <2>1. ~ (v >= 256)
    BY <1>2, <1>3 DEF Near, PartsOf
  <2>2. v \in Nat
    BY <1>3
  <2> HIDE DEF v
  <2> QED  BY <2>1, <2>2 DEF Octets
<1>5. /\ b.reg[SP] \in Nat /\ b.reg[SP] <= StackSize /\ s.reg[SP] \in Nat /\ s.reg[SP] <= StackSize
      /\ WordBytes \in Nat /\ Len(program) \in Nat /\ StackSize \in Nat
  BY <1>1, ProgramsAssumption, Sizes DEF Linked
<1>6. b.reg[SP] - WordBytes >= Len(program)
  <2>1. ~ (b.reg[SP] - WordBytes < Len(program))
    BY <1>2 DEF Near, PartsOf
  <2> QED  BY <1>5, <2>1
<1>7. b.reg[SP] - WordBytes > 0 /\ b.reg[SP] > WordBytes
  BY <1>5, <1>6
<1>8. s.reg[SP] # 0
  BY <1>1, PushRoom
<1> HIDE DEF v
<1>9. /\ SeedTyped(p) /\ Keeps(p, np, {"stack"}) /\ np.reg = p.reg /\ np.heap = s.heap
      /\ np.reg[SP] = s.reg[SP] - 1 /\ np.stack = [s.stack EXCEPT ![s.reg[SP] - 1] = v]
  BY <1>1, <1>3, <1>4, <1>5, <1>8, SeedPushed
<1>10. /\ BootTyped(q) /\ Keeps(q, nq, {"memory"}) /\ nq.reg = q.reg
       /\ nq.reg[SP] = b.reg[SP] - WordBytes /\ Joined(nq, nq.reg[SP]) = v
       /\ \A a \in B!Addresses : a \notin nq.reg[SP]..(nq.reg[SP] + WordBytes - 1)
                                    => nq.memory[a] = b.memory[a]
  BY <1>1, <1>3, <1>5, <1>7, BootPushed
<1>11. Same(p, q)
  BY <1>1, <1>5, SamePointers
<1> HIDE DEF p, q, np, nq
<1>12. Same(np, nq)
  <2>1. Core(p) /\ Core(q)
    BY <1>9, <1>10 DEF SeedTyped, BootTyped
  <2> QED  BY <1>9, <1>10, <1>11, <2>1, SameBy DEF Shared
<1>13. Lower(b, low, i) = IF b.reg[SP] - WordBytes < low THEN b.reg[SP] - WordBytes ELSE low
  BY <1>2, <1>7 DEF Lower, Pushes
<1>14. b.reg[SP] - WordBytes >= 0
  BY <1>5, <1>7
<1>15. Linked(np, nq, Lower(b, low, i))
  BY <1>1, <1>4, <1>6, <1>9, <1>10, <1>13, <1>14, LinkPushes
<1> QED  BY <1>12, <1>15 DEF np, nq

(* One instruction that does not part them leaves them as they were.       *)
LEMMA HandlersAgree ==
  ASSUME NEW s, NEW b, NEW low, NEW i, Near(s, b, low, i), Len(program) > 0,
         NEW nb \in B!opcode_handlers(i.op, b, i.md, i.o)
  PROVE  LET ns == S!opcode_handlers(i.op, s, i.md, i.o)
         IN  Same(ns, nb) /\ Linked(ns, nb, Lower(b, low, i))
<1> DEFINE ns == S!opcode_handlers(i.op, s, i.md, i.o)
           all == B!opcode_handlers(i.op, b, i.md, i.o)
<1>1. /\ i.op \notin B!OwnOps => ns = S!Common(i.op, s, i.o)
      /\ i.op = 0  => ns = S!op_recv(s, i.o)
      /\ i.op = 1  => ns = S!op_return(s, i.o)
      /\ i.op = 2  => ns = S!op_branch(s, i.md, i.o)
      /\ i.op = 6  => ns = S!op_push_up(s, i.o)
      /\ i.op = 10 => ns = S!op_unlock(s, i.o)
      /\ i.op = 21 => ns = S!op_sync(s, i.o)
      /\ i.op = 22 => ns = S!op_well(s, i.o)
  <2>1. /\ i.op \notin B!OwnOps => ns = S!Common(i.op, s, i.o)
        /\ i.op = 0  => ns = S!op_recv(s, i.o)
        /\ i.op = 1  => ns = S!op_return(s, i.o)
    BY DEF S!opcode_handlers, S!OwnOps, B!OwnOps
  <2>2. /\ i.op = 2  => ns = S!op_branch(s, i.md, i.o)
        /\ i.op = 6  => ns = S!op_push_up(s, i.o)
        /\ i.op = 10 => ns = S!op_unlock(s, i.o)
    BY DEF S!opcode_handlers, S!OwnOps, B!OwnOps
  <2>3. /\ i.op = 21 => ns = S!op_sync(s, i.o)
        /\ i.op = 22 => ns = S!op_well(s, i.o)
    BY DEF S!opcode_handlers, S!OwnOps, B!OwnOps
  <2> QED  BY <2>1, <2>2, <2>3
<1>2. /\ i.op = 33 => ns = S!op_nourish(s, i.o)
      /\ i.op = 41 => ns = S!op_bite(s, i.o)
      /\ i.op = 47 => ns = S!op_abundance(s, i.o)
      /\ i.op = 48 => ns = S!op_contemplate(s, i.o)
      /\ i.op = 50 => ns = S!op_disperse(s, i.o)
      /\ i.op = 54 => ns = S!op_penetrate(s, i.o)
      /\ i.op = 58 => ns = S!op_lock(s, i.o)
  <2>1. /\ i.op = 33 => ns = S!op_nourish(s, i.o)
        /\ i.op = 41 => ns = S!op_bite(s, i.o)
        /\ i.op = 47 => ns = S!op_abundance(s, i.o)
    BY DEF S!opcode_handlers, S!OwnOps
  <2>2. /\ i.op = 48 => ns = S!op_contemplate(s, i.o)
        /\ i.op = 50 => ns = S!op_disperse(s, i.o)
        /\ i.op = 54 => ns = S!op_penetrate(s, i.o)
    BY DEF S!opcode_handlers, S!OwnOps
  <2>3. /\ i.op = 58 => ns = S!op_lock(s, i.o)
    BY DEF S!opcode_handlers, S!OwnOps
  <2> QED  BY <2>1, <2>2, <2>3
<1>3. /\ i.op \notin B!OwnOps => all = {B!Common(i.op, b, i.o)}
      /\ i.op = 0  => all = B!op_recv(b, i.o)
      /\ i.op = 1  => all = {B!op_return(b, i.o)}
      /\ i.op = 2  => all = {B!op_branch(b, i.md, i.o)}
      /\ i.op = 6  => all = {B!op_push_up(b, i.o)}
      /\ i.op = 10 => all = {B!op_unlock(b, i.o)}
      /\ i.op = 21 => all = {B!op_sync(b, i.o)}
      /\ i.op = 22 => all = {B!op_well(b, i.o)}
  <2>1. /\ i.op \notin B!OwnOps => all = {B!Common(i.op, b, i.o)}
        /\ i.op = 0  => all = B!op_recv(b, i.o)
        /\ i.op = 1  => all = {B!op_return(b, i.o)}
    BY DEF B!opcode_handlers, B!OwnOps
  <2>2. /\ i.op = 2  => all = {B!op_branch(b, i.md, i.o)}
        /\ i.op = 6  => all = {B!op_push_up(b, i.o)}
        /\ i.op = 10 => all = {B!op_unlock(b, i.o)}
    BY DEF B!opcode_handlers, B!OwnOps
  <2>3. /\ i.op = 21 => all = {B!op_sync(b, i.o)}
        /\ i.op = 22 => all = {B!op_well(b, i.o)}
    BY DEF B!opcode_handlers, B!OwnOps
  <2> QED  BY <2>1, <2>2, <2>3
<1>4. /\ i.op = 33 => all = {B!op_nourish(b, i.o)}
      /\ i.op = 41 => all = {B!op_bite(b, i.o)}
      /\ i.op = 47 => all = {B!op_abundance(b, i.o)}
      /\ i.op = 48 => all = {B!op_contemplate(b, i.o)}
      /\ i.op = 50 => all = {B!op_disperse(b, i.o)}
      /\ i.op = 54 => all = {B!op_penetrate(b, i.o)}
      /\ i.op = 58 => all = {B!op_lock(b, i.o)}
  <2>1. /\ i.op = 33 => all = {B!op_nourish(b, i.o)}
        /\ i.op = 41 => all = {B!op_bite(b, i.o)}
        /\ i.op = 47 => all = {B!op_abundance(b, i.o)}
    BY DEF B!opcode_handlers, B!OwnOps
  <2>2. /\ i.op = 48 => all = {B!op_contemplate(b, i.o)}
        /\ i.op = 50 => all = {B!op_disperse(b, i.o)}
        /\ i.op = 54 => all = {B!op_penetrate(b, i.o)}
    BY DEF B!opcode_handlers, B!OwnOps
  <2>3. /\ i.op = 58 => all = {B!op_lock(b, i.o)}
    BY DEF B!opcode_handlers, B!OwnOps
  <2> QED  BY <2>1, <2>2, <2>3
<1>5. S!op_disperse(s, i.o) = S!op_abundance(s, i.o)
  BY DEF S!op_disperse, S!op_abundance
<1>6. B!op_disperse(b, i.o) = B!op_abundance(b, i.o)
  BY DEF B!op_disperse, B!op_abundance
<1>7. i.op \in {47, 50} => ns = S!op_abundance(s, i.o) /\ all = {B!op_abundance(b, i.o)}
  <2> HIDE DEF ns, all
  <2> QED  BY <1>2, <1>4, <1>5, <1>6
<1>8. /\ nb \in all /\ i.op # 17
      /\ i.op # 6 => Lower(b, low, i) = low
  BY NearFacts DEF IsPush
<1> HIDE DEF ns, all
<1>9. CASE i.op \notin B!OwnOps
  <2>1. ns = S!Common(i.op, s, i.o) /\ nb = B!Common(i.op, b, i.o) /\ i.op # 6
    BY <1>1, <1>3, <1>8, <1>9 DEF B!OwnOps
  <2>2. Same(ns, nb) /\ Linked(ns, nb, low)
    BY <1>9, <2>1, CommonAgrees, Zenon
  <2> QED  BY <1>8, <2>1, <2>2 DEF ns
<1>10. CASE i.op = 6
  <2>1. ns = S!op_push_up(s, i.o) /\ nb = B!op_push_up(b, i.o)
    BY <1>1, <1>3, <1>8, <1>10
  <2> QED  BY <1>10, <2>1, PushesAgree, Zenon DEF ns
<1>11. CASE i.op = 0
  <2>1. ns = S!op_recv(s, i.o) /\ nb \in B!op_recv(b, i.o)
    BY <1>1, <1>3, <1>8, <1>11
  <2>2. Same(ns, nb) /\ Linked(ns, nb, low)
    BY <1>11, <2>1, ReceivesAgree, Zenon
  <2> QED  BY <1>8, <1>11, <2>2 DEF ns
<1>12. CASE i.op = 1
  <2>1. ns = S!op_return(s, i.o) /\ nb = B!op_return(b, i.o)
    BY <1>1, <1>3, <1>8, <1>12
  <2>2. Same(ns, nb) /\ Linked(ns, nb, low)
    BY <1>12, <2>1, ReturnsAgree, Zenon
  <2> QED  BY <1>8, <1>12, <2>2 DEF ns
<1>13. CASE i.op = 2
  <2>1. ns = S!op_branch(s, i.md, i.o) /\ nb = B!op_branch(b, i.md, i.o)
    BY <1>1, <1>3, <1>8, <1>13
  <2>2. Same(ns, nb) /\ Linked(ns, nb, low)
    BY <1>13, <2>1, BranchesAgree, Zenon
  <2> QED  BY <1>8, <1>13, <2>2 DEF ns
<1>14. CASE i.op \in {10, 58}
  <2>1. /\ ns = IF i.op = 58 THEN S!op_lock(s, i.o) ELSE S!op_unlock(s, i.o)
        /\ nb = IF i.op = 58 THEN B!op_lock(b, i.o) ELSE B!op_unlock(b, i.o)
    BY <1>1, <1>2, <1>3, <1>4, <1>8, <1>14
  <2>2. Same(ns, nb) /\ Linked(ns, nb, low)
    BY <1>14, <2>1, LockingAgrees
  <2> QED  BY <1>8, <1>14, <2>2 DEF ns
<1>15. CASE i.op = 21
  <2>1. ns = S!op_sync(s, i.o) /\ nb = B!op_sync(b, i.o)
    BY <1>1, <1>3, <1>8, <1>15
  <2>2. Same(ns, nb) /\ Linked(ns, nb, low)
    BY <1>15, <2>1, SyncsAgree, Zenon
  <2> QED  BY <1>8, <1>15, <2>2 DEF ns
<1>16. CASE i.op = 22
  <2>1. ns = S!op_well(s, i.o) /\ nb = B!op_well(b, i.o)
    BY <1>1, <1>3, <1>8, <1>16
  <2>2. Same(ns, nb) /\ Linked(ns, nb, low)
    BY <1>16, <2>1, WellsAgree, Zenon
  <2> QED  BY <1>8, <1>16, <2>2 DEF ns
<1>17. CASE i.op = 33
  <2>1. ns = S!op_nourish(s, i.o) /\ nb = B!op_nourish(b, i.o)
    BY <1>2, <1>4, <1>8, <1>17
  <2>2. Same(ns, nb) /\ Linked(ns, nb, low)
    BY <1>17, <2>1, NourishesAgree, Zenon
  <2> QED  BY <1>8, <1>17, <2>2 DEF ns
<1>18. CASE i.op = 41
  <2>1. ns = S!op_bite(s, i.o) /\ nb = B!op_bite(b, i.o)
    BY <1>2, <1>4, <1>8, <1>18
  <2>2. Same(ns, nb) /\ Linked(ns, nb, low)
    BY <1>18, <2>1, BitesAgree, Zenon
  <2> QED  BY <1>8, <1>18, <2>2 DEF ns
<1>19. CASE i.op \in {47, 50}
  <2>1. ns = S!op_abundance(s, i.o) /\ nb = B!op_abundance(b, i.o)
    BY <1>7, <1>8, <1>19
  <2>2. Same(ns, nb) /\ Linked(ns, nb, low)
    BY <1>19, <2>1, StoringAgrees
  <2> QED  BY <1>8, <1>19, <2>2 DEF ns
<1>20. CASE i.op = 48
  <2>1. ns = S!op_contemplate(s, i.o) /\ nb = B!op_contemplate(b, i.o)
    BY <1>2, <1>4, <1>8, <1>20
  <2>2. Same(ns, nb) /\ Linked(ns, nb, low)
    BY <1>20, <2>1, ContemplatesAgree, Zenon
  <2> QED  BY <1>8, <1>20, <2>2 DEF ns
<1>21. CASE i.op = 54
  <2>1. ns = S!op_penetrate(s, i.o) /\ nb = B!op_penetrate(b, i.o)
    BY <1>2, <1>4, <1>8, <1>21
  <2>2. Same(ns, nb) /\ Linked(ns, nb, low)
    BY <1>21, <2>1, LoadsAgree, Zenon
  <2> QED  BY <1>8, <1>21, <2>2 DEF ns
<1>22. i.op \in B!OwnOps => i.op \in {0, 1, 2, 6, 10, 21, 22, 33, 41, 47, 48, 50, 54, 58}
  BY <1>8 DEF B!OwnOps
<1> QED  BY <1>9, <1>10, <1>11, <1>12, <1>13, <1>14, <1>15, <1>16, <1>17, <1>18, <1>19, <1>20,
            <1>21, <1>22

(* The machines fetch the same instruction, which lies in the text.        *)
LEMMA SameInstr ==
  ASSUME SeedTyped(seed), BootTyped(boot), program \in Programs, Same(seed, boot),
         TextKept(boot), seed.pc + 3 < Len(program)
  PROVE  SeedInstr = BootInstr
<1> DEFINE pc == seed.pc
<1>1. pc \in Nat /\ boot.pc = pc /\ Len(program) \in Nat
  BY SeedNumbers, ProgramsAssumption DEF Same, Shared
<1>2. \A a \in 0..(Len(program) - 1) : boot.memory[a] = program[a + 1]
  BY DEF TextKept
<1>3. /\ SeedInstr = [op |-> program[pc + 0 + 1] \div 4,
                      md |-> 16 * (program[pc + 0 + 1] % 4) + (program[pc + 1 + 1] % 16),
                      o |-> <<program[pc + 2 + 1], program[pc + 3 + 1]>>]
      /\ BootInstr = [op |-> boot.memory[boot.pc + 0] \div 4,
                      md |-> 16 * (boot.memory[boot.pc + 0] % 4) + (boot.memory[boot.pc + 1] % 16),
                      o |-> <<boot.memory[boot.pc + 2], boot.memory[boot.pc + 3]>>]
  BY DEF SeedInstr, BootInstr, Decoded
<1>4. pc + 3 < Len(program)
  OBVIOUS
<1> HIDE DEF pc
<1>5. /\ pc + 0 \in 0..(Len(program) - 1) /\ pc + 1 \in 0..(Len(program) - 1)
      /\ pc + 2 \in 0..(Len(program) - 1) /\ pc + 3 \in 0..(Len(program) - 1)
  BY <1>1, <1>4
<1>6. /\ boot.memory[boot.pc + 0] = program[pc + 0 + 1]
      /\ boot.memory[boot.pc + 1] = program[pc + 1 + 1]
      /\ boot.memory[boot.pc + 2] = program[pc + 2 + 1]
      /\ boot.memory[boot.pc + 3] = program[pc + 3 + 1]
  BY <1>1, <1>2, <1>5
<1> QED  BY <1>3, <1>6

LEMMA PartsFields ==
  ASSUME NEW s, NEW ns, NEW b, NEW nb, NEW low, NEW i,
         ns.reg = s.reg, ns.heap = s.heap, ns.locks = s.locks,
         ns.cycle_count = s.cycle_count, nb.reg = b.reg
  PROVE  PartsOf(ns, nb, low, i) = PartsOf(s, b, low, i)
BY DEF PartsOf

LEMMA FetchedNear ==
  ASSUME SeedTyped(seed), BootTyped(boot), program \in Programs, Same(seed, boot),
         Linked(seed, boot, hist.low), seed.pc + 3 < Len(program), boot.cycle_count = 0,
         ~ Parts(SeedInstr)
  PROVE  Near(SeedFetched, Fetched, hist.low, SeedInstr)
<1> DEFINE i == SeedInstr
           a == seed.pc + 4
<1>1. Instr(i) /\ a \in Words /\ a >= 4 /\ boot.pc = seed.pc
  <2>1. Instr(i) /\ a \in Words /\ seed.pc \in Nat
    BY SeedInstrTyped
  <2> QED  BY <2>1 DEF Same, Shared
<1>2. SeedFetched = [seed EXCEPT !.pc = a] /\ Fetched = [boot EXCEPT !.pc = a]
  BY <1>1 DEF SeedFetched, Fetched
<1>3. Same(SeedFetched, Fetched) /\ Linked(SeedFetched, Fetched, hist.low)
  BY <1>2, JumpsAgree
<1> HIDE DEF i, a
<1>4. /\ SeedTyped(SeedFetched) /\ Keeps(seed, SeedFetched, {"pc"}) /\ SeedFetched.pc = a
      /\ SeedFetched.reg = seed.reg /\ SeedFetched.heap = seed.heap
         /\ SeedFetched.locks = seed.locks
  BY <1>1, <1>2, SeedWithPc
<1>5. SeedFetched.cycle_count = seed.cycle_count
  BY <1>4 DEF Keeps, SeedTyped, Core, CoreFields
<1>6. BootTyped(Fetched) /\ Fetched.reg = boot.reg /\ Fetched.cycle_count = boot.cycle_count
  BY <1>1, <1>2, WithPc
<1>7. Parts(i) = PartsOf(seed, boot, hist.low, i)
  BY DEF Parts, PartsOf
<1>8. PartsOf(SeedFetched, Fetched, hist.low, i) = PartsOf(seed, boot, hist.low, i)
  BY <1>4, <1>5, <1>6, PartsFields
<1>9. ~ PartsOf(SeedFetched, Fetched, hist.low, i)
  BY <1>7, <1>8 DEF i
<1> QED  BY <1>1, <1>3, <1>4, <1>6, <1>9 DEF Near, i

(* A cycle of both that does not part them.                                *)
LEMMA ExecutionsAgree ==
  ASSUME SeedTyped(seed), BootTyped(boot), program \in Programs, Same(seed, boot),
         Linked(seed, boot, hist.low), seed.pc + 3 < Len(program), boot.cycle_count = 0,
         ~ Parts(SeedInstr), boot.pc < MemorySize, NEW nb \in B!Executed
  PROVE  Same(S!Executed, nb) /\ Linked(S!Executed, nb, Lower(boot, hist.low, SeedInstr))
<1> DEFINE i == SeedInstr
<1>1. SeedInstr = BootInstr
  BY SameInstr DEF Linked
<1>2. nb \in B!opcode_handlers(i.op, Fetched, i.md, i.o)
  BY <1>1, ExecutedForm
<1>3. S!Executed = S!opcode_handlers(i.op, SeedFetched, i.md, i.o)
  BY SeedNumbers, SeedExecutedForm, SeedInstrTyped
<1>4. Near(SeedFetched, Fetched, hist.low, i)
  BY FetchedNear
<1>5. Len(program) > 0
  BY SeedInstrTyped, ProgramsAssumption
<1>6. Fetched.reg = boot.reg
  BY DEF Fetched, BootTyped, Core, CoreFields
<1>7. Lower(Fetched, hist.low, i) = Lower(boot, hist.low, i)
  BY <1>6 DEF Lower, Pushes
<1> HIDE DEF i
<1>8. Same(S!Executed, nb) /\ Linked(S!Executed, nb, Lower(Fetched, hist.low, i))
  BY <1>2, <1>3, <1>4, <1>5, HandlersAgree, Zenon
<1> QED  BY <1>7, <1>8 DEF i

(* Until they part, the machines are in the same phase of the same run,    *)
(* with the same budget left; the counters of the bootstrap machine are    *)
(* those of its locals until vm_run returns.                               *)
Sync ==
  /\ Same(seed, boot) /\ Linked(seed, boot, hist.low)
  /\ seedLeft = bootLeft /\ seed.cycle_count = bootCycles /\ seed.state # "FAULT"
  /\ seedPhase # "freed"
  /\ IF seedPhase = "returned"
     THEN bootPhase \in {"returned", "freed"} /\ boot.cycle_count = seed.cycle_count
       /\ boot.energy = 0
     ELSE bootPhase = seedPhase /\ boot.cycle_count = 0 /\ bootEnergy = 0
  /\ seedPhase = "loaded" => boot.energy = 0 /\ seed.cycle_count = 0

AgreeInv == BootOk /\ SeedOk /\ (~ hist.apart => Sync)

(* Both machines as the loaders leave them. *)
LEMMA BothLoaded ==
  ASSUME NEW s, s = S!vm_init, NEW b, b = B!Loaded(program)
  PROVE  /\ Same(s, b) /\ s.state = "INIT" /\ s.cycle_count = 0 /\ b.cycle_count = 0 /\ b.energy = 0
         /\ s.heap = [a \in 0..(HeapSize - 1) |-> 0]
         /\ b.memory = [a \in B!Addresses |->
                          IF a < Len(program) /\ a < StackSize THEN program[a + 1] ELSE 0]
<1> DEFINE cells == [a \in B!Addresses |->
                       IF a < Len(program) /\ a < StackSize THEN program[a + 1] ELSE 0]
           zeros == [a \in B!Addresses |-> 0]
           heap == [a \in 0..(HeapSize - 1) |-> 0]
           stack == [a \in 0..(StackSize - 1) |-> 0]
           waits == [a \in 0..255 |-> 0]
           sregs == [r \in 0..15 |-> IF r \in {12, 13} THEN StackSize ELSE 0]
           bregs == [r \in 0..15 |-> IF r \in {12, 13} THEN StackSize - 1 ELSE 0]
<1>1. s = [reg |-> sregs, stack |-> stack, heap |-> heap,
           heap_ptr |-> 0, pc |-> 0, state |-> "INIT",
           zero |-> FALSE, negative |-> FALSE, overflow |-> FALSE,
           locks |-> {}, barriers |-> waits,
           threads |-> 1, futures |-> 0, cycle_count |-> 0, energy |-> 0, out |-> << >>]
  BY Zenon DEF S!vm_init
<1>2. b = [[reg |-> bregs, memory |-> zeros,
            heap_ptr |-> StackSize, pc |-> 0, state |-> "INIT",
            zero |-> FALSE, negative |-> FALSE, overflow |-> FALSE,
            files |-> {}, open |-> 0,
            threads |-> 1, futures |-> 0, cycle_count |-> 0, energy |-> 0, out |-> << >>]
              EXCEPT !.memory = cells]
  BY Zenon DEF B!vm_init, B!Loaded
<1>3. \A r \in 0..15 : r \notin {12, SP} => sregs[r] = bregs[r]
  BY DEF SP
<1> HIDE DEF cells, zeros, heap, stack, waits, sregs, bregs
<1>4. /\ s.reg = sregs /\ s.heap = heap /\ s.pc = 0 /\ s.state = "INIT" /\ s.zero = FALSE
      /\ s.negative = FALSE /\ s.overflow = FALSE /\ s.threads = 1 /\ s.futures = 0
      /\ s.cycle_count = 0 /\ s.energy = 0 /\ s.out = << >>
  BY <1>1
<1>5. /\ b.reg = bregs /\ b.memory = cells /\ b.pc = 0 /\ b.state = "INIT" /\ b.zero = FALSE
      /\ b.negative = FALSE /\ b.overflow = FALSE /\ b.threads = 1 /\ b.futures = 0
      /\ b.cycle_count = 0 /\ b.energy = 0 /\ b.out = << >>
  BY <1>2
<1>6. \A f \in Shared : s[f] = b[f]
  BY <1>4, <1>5 DEF Shared
<1>7. Same(s, b)
  BY <1>3, <1>4, <1>5, <1>6 DEF Same
<1> QED  BY <1>4, <1>5, <1>7 DEF heap, cells

LEMMA AgreeBegins == Init => AgreeInv
<1> SUFFICES ASSUME Init, ~ hist.apart PROVE Sync
  BY BootBegins, SeedBegins DEF AgreeInv
<1>1. /\ program \in Programs /\ seed = S!vm_init /\ seedLeft = 0 /\ seedPhase = "loaded"
      /\ boot = B!Loaded(program) /\ bootCycles = 0 /\ bootEnergy = 0 /\ bootLeft = 0
      /\ bootPhase = "loaded"
  BY DEF Init, S!Init, B!Begin
<1>2. hist.low = StackSize - 1 /\ ~ (Len(program) > StackSize)
  BY DEF Init, HistInit
<1>3. /\ SeedTyped(seed) /\ BootTyped(boot) /\ seed.reg[SP] = StackSize
      /\ boot.reg[SP] = StackSize - 1
  BY <1>1, SeedInitTyped, LoadedTyped
<1>4. /\ Same(seed, boot) /\ seed.state = "INIT" /\ seed.cycle_count = 0 /\ boot.cycle_count = 0
      /\ boot.energy = 0 /\ seed.heap = [a \in 0..(HeapSize - 1) |-> 0]
      /\ boot.memory = [a \in B!Addresses |->
                          IF a < Len(program) /\ a < StackSize THEN program[a + 1] ELSE 0]
  BY <1>1, BothLoaded
<1>5. Len(program) \in Nat /\ Len(program) <= StackSize
  BY <1>1, <1>2, Sizes, ProgramsAssumption
<1>6. Stacked(boot, Bytes(seed))
  <2>1. Len(Bytes(seed)) = 0
    BY <1>3, Sizes, BytesTyped
  <2>2. 0 * WordBytes = 0 /\ StackSize - 1 - (StackSize - 1) = 0
    BY Sizes
  <2> QED  BY <1>3, <2>1, <2>2 DEF Stacked
<1>7. \A a \in Window(hist.low) : seed.heap[a] = boot.memory[a]
  <2> SUFFICES ASSUME NEW a \in Window(hist.low) PROVE seed.heap[a] = boot.memory[a]
    OBVIOUS
  <2>1. a \in 0..(HeapSize - 1) /\ a \in B!Addresses /\ ~ (a < Len(program))
    BY <1>2, <1>5, Sizes DEF Window, B!Addresses
  <2> QED  BY <1>4, <2>1
<1>8. TextKept(boot)
  <2>1. ASSUME NEW a \in 0..(Len(program) - 1)
        PROVE  boot.memory[a] = program[a + 1]
    <3>1. a \in B!Addresses /\ a < Len(program) /\ a < StackSize
      BY <1>5, Sizes DEF B!Addresses
    <3> QED  BY <1>4, <3>1
  <2> QED  BY <1>5, <2>1 DEF TextKept
<1>9. Linked(seed, boot, hist.low)
  BY <1>2, <1>3, <1>6, <1>7, <1>8, Sizes DEF Linked
<1> QED  BY <1>1, <1>4, <1>9 DEF Sync

(* They enter the loop of vm_run together and leave it together.           *)
LEMMA StepsTogether ==
  ASSUME BootOk, SeedOk, Sync, S!Step, B!Step, Moves, ~ hist'.apart
  PROVE  \/ /\ S!Cycle /\ B!Cycle /\ BootActs /\ ~ Parts(SeedInstr)
            /\ seed.pc + 3 < Len(program) /\ boot.pc < MemorySize
         \/ S!Return /\ B!Return
<1>1. /\ seed.pc = boot.pc /\ seed.state = boot.state /\ seedLeft = bootLeft
      /\ seedPhase = "running" => bootPhase = "running"
  BY DEF Sync, Same, Shared
<1>2. ~ PartsNow
  BY DEF Moves
<1>3. seedPhase = "running"
  BY DEF S!Step, S!Cycle, S!EndOfProgram, S!Return, S!InLoop
<1>4. CASE S!InLoop
  <2>1. SeedActs /\ ~ Parts(SeedInstr)
    BY <1>2, <1>4 DEF PartsNow
  <2>2. seed.pc + 3 < Len(program) /\ seed.pc \in Nat /\ Len(program) \in Nat
    BY <2>1, SeedNumbers, ProgramsAssumption DEF SeedActs, SeedOk
  <2>3. Len(program) <= StackSize
    BY DEF Sync, Linked, TextKept
  <2>4. boot.pc + 3 \in Nat /\ boot.pc + 3 < B!Word /\ boot.pc + 3 < MemorySize
        /\ boot.pc < MemorySize
    BY <1>1, <2>2, <2>3, Sizes
  <2>5. (boot.pc + 3) % B!Word = boot.pc + 3
    BY <2>4, ModWord
  <2>6. ~ ((boot.pc + 3) % B!Word >= MemorySize)
    BY <2>4, <2>5, Sizes
  <2>7. ~ B!PastEnd
    BY <2>6, Zenon DEF B!PastEnd
  <2>8. B!InLoop
    BY <1>1, <1>4 DEF S!InLoop, B!InLoop
  <2>9. S!Cycle
    <3>1. ~ (seed.pc + 3 >= Len(program))
      BY <2>2
    <3>2. seed.state = "RUNNING" /\ ~ (seedLeft = 0)
      BY <1>4 DEF S!InLoop
    <3> QED  BY <3>1, <3>2 DEF S!Step, S!EndOfProgram, S!Return
  <2>10. B!Cycle
    <3>1. boot.state = "RUNNING" /\ ~ (bootLeft = 0) /\ bootPhase # "returned"
      BY <2>8 DEF B!InLoop
    <3> QED  BY <2>7, <3>1 DEF B!Step, B!EndOfMemory, B!Return, B!Free
  <2> QED  BY <2>1, <2>2, <2>4, <2>7, <2>8, <2>9, <2>10 DEF BootActs
<1>5. CASE ~ S!InLoop
  <2>1. S!Return
    BY <1>5 DEF S!Step, S!Cycle, S!EndOfProgram
  <2>2. ~ B!InLoop /\ bootPhase # "returned"
    BY <1>1, <1>3, <1>5 DEF S!InLoop, B!InLoop
  <2>3. B!Return
    BY <2>2 DEF B!Step, B!Cycle, B!EndOfMemory, B!Free
  <2> QED  BY <2>1, <2>3
<1> QED  BY <1>4, <1>5

(* Fields that the comparison does not read.                               *)
LEMMA SideFields ==
  ASSUME NEW s, SeedTyped(s), NEW b, BootTyped(b), Same(s, b), NEW low, Linked(s, b, low),
         NEW ns, NEW nb, Keeps(s, ns, {"state", "cycle_count"}),
         Keeps(b, nb, {"state", "cycle_count", "energy", "files", "open"}), ns.state = nb.state
  PROVE  Same(ns, nb) /\ Linked(ns, nb, low)
<1>1. Core(s) /\ Core(b)
  BY DEF SeedTyped, BootTyped
<1>2. Same(ns, nb)
  BY <1>1, SameBy DEF Shared
<1>3. /\ ns.reg = s.reg /\ ns.stack = s.stack /\ ns.heap = s.heap
      /\ nb.reg = b.reg /\ nb.memory = b.memory
  BY DEF Keeps, SeedTyped, BootTyped, Core, CoreFields
<1>4. Linked(ns, nb, low)
  BY <1>3, LinkCalm
<1> QED  BY <1>2, <1>4

LEMMA LinkPrimed ==
  ASSUME program' = program, Linked(seed', boot', hist'.low)
  PROVE  Linked(seed, boot, hist.low)'
  BY DEF Linked, TextKept, Window, Bytes, Stacked, Joined, SP

LEMMA SyncPrimed ==
  ASSUME program' = program, Same(seed', boot'), Linked(seed', boot', hist'.low),
         seedLeft' = bootLeft', seed'.cycle_count = bootCycles', seed'.state # "FAULT",
         seedPhase' # "freed",
         \/ /\ seedPhase' = "returned" /\ bootPhase' \in {"returned", "freed"}
            /\ boot'.cycle_count = seed'.cycle_count /\ boot'.energy = 0
         \/ /\ seedPhase' = "running" /\ bootPhase' = "running" /\ boot'.cycle_count = 0
            /\ bootEnergy' = 0
  PROVE  Sync'
<1>1. Same(seed, boot)'
  BY DEF Same, Shared, SP
<1>2. Linked(seed, boot, hist.low)'
  BY LinkPrimed
<1> QED  BY <1>1, <1>2 DEF Sync

LEMMA CyclesAgree ==
  ASSUME BootOk, SeedOk, Sync, S!Cycle, B!Cycle, BootActs, ~ Parts(SeedInstr),
         seed.pc + 3 < Len(program), boot.pc < MemorySize, Remembers(BootInstr)
  PROVE  Sync'
<1>1. /\ SeedTyped(seed) /\ BootTyped(boot) /\ program \in Programs /\ Same(seed, boot)
      /\ Linked(seed, boot, hist.low) /\ seed.cycle_count = bootCycles /\ seedLeft = bootLeft
      /\ seed.state # "FAULT" /\ seed.reg[SP] \in 0..StackSize
  BY DEF BootOk, SeedOk, Sync, Linked
<1>2. /\ boot' \in B!Executed /\ bootCycles' = bootCycles + 1 /\ bootEnergy' = bootEnergy
      /\ bootPhase' = bootPhase /\ bootPhase = "running" /\ bootLeft' = bootLeft - 1
  BY DEF B!Cycle, B!InLoop
<1>3. /\ seed' = [S!Executed EXCEPT !.cycle_count = @ + 1] /\ seedLeft' = seedLeft - 1
      /\ program' = program /\ seedPhase' = seedPhase /\ seedPhase = "running"
  BY DEF S!Cycle, S!InLoop
<1>4. boot.cycle_count = 0 /\ bootEnergy = 0
  BY <1>3 DEF Sync
<1>5. Same(S!Executed, boot') /\ Linked(S!Executed, boot', Lower(boot, hist.low, SeedInstr))
  BY <1>1, <1>2, <1>4, ExecutionsAgree
<1>6. SeedInstr = BootInstr
  BY <1>1, SameInstr DEF Linked
<1>7. hist'.low = Lower(boot, hist.low, SeedInstr)
  BY <1>6 DEF Lower, Remembers
<1>8. BootTyped(boot') /\ boot'.cycle_count = 0
  <2>1. Acts
    BY <1>2 DEF Acts
  <2>2. BootTyped(boot') /\ Effect(Fetched, boot', BootInstr)
    BY <2>1, ActsEffect
  <2>3. Fetched.cycle_count = boot.cycle_count
    BY <1>1 DEF Fetched, BootTyped, Core, CoreFields
  <2> QED  BY <1>4, <2>2, <2>3 DEF Effect
<1> DEFINE n == S!Executed
<1>9. SeedTyped(n) /\ n.cycle_count = seed.cycle_count /\ n.state # "FAULT"
  <2>1. /\ SeedFetched.reg = seed.reg /\ SeedFetched.state = seed.state
        /\ SeedTyped(SeedFetched) /\ SeedEffect(SeedFetched, n, SeedInstr)
    BY <1>1, SeedExecutedEffect
  <2>2. SeedFetched.cycle_count = seed.cycle_count
    BY <1>1 DEF SeedFetched, SeedTyped, Core, CoreFields
  <2>3. SeedPushes(SeedFetched, SeedInstr) => seed.reg[SP] - 1 < StackSize
    BY <1>1, <2>1, Sizes
  <2> QED  BY <1>1, <2>1, <2>2, <2>3, Sizes DEF SeedEffect
<1>10. seed' = [n EXCEPT !.cycle_count = @ + 1]
  BY <1>3
<1>11. Same(n, boot') /\ Linked(n, boot', hist'.low)
  BY <1>5, <1>7
<1> HIDE DEF n
<1>12. /\ Keeps(n, seed', {"cycle_count"}) /\ seed'.state = n.state
       /\ seed'.cycle_count = n.cycle_count + 1
  BY <1>9, <1>10, SeedCounts
<1>13. Keeps(n, seed', {"state", "cycle_count"})
       /\ Keeps(boot', boot', {"state", "cycle_count", "energy", "files", "open"})
       /\ n.state = boot'.state
  BY <1>11, <1>12 DEF Keeps, Same, Shared
<1>14. Same(seed', boot') /\ Linked(seed', boot', hist'.low)
  BY <1>8, <1>9, <1>11, <1>12, <1>13, SideFields
<1>15. seed'.cycle_count = bootCycles' /\ seedLeft' = bootLeft' /\ seed'.state # "FAULT"
  BY <1>1, <1>2, <1>3, <1>9, <1>12
<1> QED  BY <1>2, <1>3, <1>4, <1>8, <1>14, <1>15, SyncPrimed

(* vm_run returns in both, a process starts or ends in both.                *)
LEMMA ReturnsTogether ==
  ASSUME BootOk, SeedOk, Sync, S!Return, B!Return, hist'.low = hist.low
  PROVE  Sync'
<1>1. /\ SeedTyped(seed) /\ BootTyped(boot) /\ Same(seed, boot) /\ bootCycles \in Nat
      /\ bootEnergy \in Int
      /\ Linked(seed, boot, hist.low) /\ seed.cycle_count = bootCycles /\ seedLeft = bootLeft
      /\ seed.state # "FAULT"
  BY DEF BootOk, SeedOk, Sync
<1>2. /\ seed' = seed /\ seedLeft' = seedLeft /\ program' = program /\ seedPhase' = "returned"
      /\ seedPhase = "running"
  BY DEF S!Return
<1>3. /\ boot' = [boot EXCEPT !.cycle_count = bootCycles, !.energy = bootEnergy]
      /\ bootLeft' = bootLeft /\ bootPhase' = "returned" /\ bootCycles' = bootCycles
  BY DEF B!Return
<1>4. bootEnergy = 0
  BY <1>2 DEF Sync
<1>5. /\ Keeps(boot, boot', {"state", "cycle_count", "energy", "files", "open"})
      /\ boot'.state = boot.state /\ boot'.cycle_count = bootCycles /\ boot'.energy = bootEnergy
  BY <1>1, <1>3 DEF BootTyped, Core, CoreFields, Keeps
<1>6. Keeps(seed, seed', {"state", "cycle_count"}) /\ seed'.state = boot'.state
  BY <1>1, <1>2, <1>5 DEF Keeps, Same, Shared
<1>7. Same(seed', boot') /\ Linked(seed', boot', hist'.low)
  BY <1>1, <1>5, <1>6, SideFields
<1> QED  BY <1>1, <1>2, <1>3, <1>4, <1>5, <1>7, SyncPrimed

LEMMA StartsTogether ==
  ASSUME BootOk, SeedOk, Sync, NEW c \in Budgets, Start(c)
  PROVE  Sync'
<1>1. /\ SeedTyped(seed) /\ BootTyped(boot) /\ Same(seed, boot)
      /\ Linked(seed, boot, hist.low)
  BY DEF BootOk, SeedOk, Sync
<1>2. /\ seed' = [seed EXCEPT !.state = "RUNNING"] /\ program' = program
      /\ seedLeft' = (IF c = 0 THEN DefaultCycles ELSE c)
      /\ seedPhase' = "running" /\ seedPhase = "loaded" /\ hist' = hist
  BY DEF Start, S!Run
<1>3. /\ boot' = [boot EXCEPT !.state = "RUNNING"]
      /\ bootLeft' = (IF c = 0 THEN DefaultCycles ELSE c)
      /\ bootPhase' = "running" /\ bootCycles' = boot.cycle_count /\ bootEnergy' = boot.energy
  BY DEF Start, B!Run
<1>4. boot.cycle_count = 0 /\ boot.energy = 0 /\ seed.cycle_count = 0
  BY <1>2 DEF Sync
<1>5. /\ Keeps(boot, boot', {"state", "cycle_count", "energy", "files", "open"})
      /\ boot'.state = "RUNNING" /\ boot'.cycle_count = boot.cycle_count
  BY <1>1, <1>3 DEF BootTyped, Core, CoreFields, Keeps
<1>6. /\ Keeps(seed, seed', {"state", "cycle_count"})
      /\ seed'.state = "RUNNING" /\ seed'.cycle_count = seed.cycle_count
  BY <1>1, <1>2 DEF SeedTyped, Core, CoreFields, Keeps
<1>7. Same(seed', boot') /\ Linked(seed', boot', hist.low)
  BY <1>1, <1>5, <1>6, SideFields
<1> QED  BY <1>2, <1>3, <1>4, <1>5, <1>6, <1>7, SyncPrimed

LEMMA BootFrees ==
  ASSUME BootOk, SeedOk, Sync, B!Free, UNCHANGED seedVars, hist'.low = hist.low
  PROVE  Sync'
<1>1. /\ SeedTyped(seed) /\ BootTyped(boot) /\ Same(seed, boot)
      /\ Linked(seed, boot, hist.low) /\ seed.cycle_count = bootCycles /\ seedLeft = bootLeft
      /\ seed.state # "FAULT" /\ seedPhase # "freed"
  BY DEF BootOk, SeedOk, Sync
<1>2. /\ boot' = [boot EXCEPT !.open = @ - B!Cardinality(boot.files), !.files = {}]
      /\ bootLeft' = bootLeft /\ bootPhase = "returned" /\ bootPhase' = "freed"
      /\ bootCycles' = bootCycles /\ program' = program
  BY DEF B!Free
<1>3. seedPhase = "returned" /\ boot.cycle_count = seed.cycle_count /\ boot.energy = 0
  BY <1>1, <1>2 DEF Sync
<1>4. /\ Keeps(boot, boot', {"state", "cycle_count", "energy", "files", "open"})
      /\ boot'.state = boot.state /\ boot'.cycle_count = boot.cycle_count
      /\ boot'.energy = boot.energy
  BY <1>1, <1>2 DEF BootTyped, Core, CoreFields, Keeps
<1>5. seed' = seed /\ seedLeft' = seedLeft /\ seedPhase' = seedPhase
  BY DEF seedVars
<1>6. Keeps(seed, seed', {"state", "cycle_count"}) /\ seed'.state = boot'.state
  BY <1>1, <1>4, <1>5 DEF Keeps, Same, Shared
<1>7. Same(seed', boot') /\ Linked(seed', boot', hist'.low)
  BY <1>1, <1>4, <1>6, SideFields
<1> QED  BY <1>1, <1>2, <1>3, <1>4, <1>5, <1>7, SyncPrimed

(* Every step keeps AgreeInv.                                               *)
LEMMA AgreeStays ==
  ASSUME AgreeInv, [Next]_vars
  PROVE  AgreeInv'
<1>1. BootOk /\ SeedOk /\ BootOk' /\ SeedOk'
  BY BootMoves, SeedMoves DEF AgreeInv
<1> SUFFICES ASSUME ~ hist'.apart PROVE Sync'
  BY <1>1 DEF AgreeInv
<1>2. HistNext => /\ BootActs => Remembers(BootInstr)
                  /\ ~ BootActs => hist'.low = hist.low
                  /\ Moves
  BY <1>1, HistSteps DEF BootOk, Recalls
<1>3. CASE \E c \in Budgets : Start(c)
  <2>1. PICK c \in Budgets : Start(c)
    BY <1>3
  <2>2. Sync
    BY <2>1 DEF Start, AgreeInv
  <2> QED  BY <1>1, <2>1, <2>2, StartsTogether
<1>4. ASSUME HistNext
      PROVE  Sync
  BY <1>2, <1>4 DEF Moves, AgreeInv
<1>5. CASE Together
  <2>1. HistNext /\ S!Step /\ B!Step /\ Sync
    BY <1>4, <1>5 DEF Together
  <2>2. CASE /\ S!Cycle /\ B!Cycle /\ BootActs /\ ~ Parts(SeedInstr)
             /\ seed.pc + 3 < Len(program) /\ boot.pc < MemorySize
    BY <1>1, <1>2, <2>1, <2>2, CyclesAgree
  <2>3. CASE S!Return /\ B!Return
    <3>1. ~ BootActs
      BY <2>3 DEF B!Return, BootActs, B!InLoop
    <3> QED  BY <1>1, <1>2, <2>1, <2>3, <3>1, ReturnsTogether
  <2> QED  BY <1>1, <1>2, <2>1, <2>2, <2>3, StepsTogether
<1>6. CASE SeedAlone
  <2>1. HistNext /\ S!Step /\ ~ B!Active /\ Sync
    BY <1>4, <1>6 DEF SeedAlone
  <2>2. seedPhase = "running"
    BY <2>1 DEF S!Step, S!Cycle, S!EndOfProgram, S!Return, S!InLoop
  <2>3. bootPhase = "running" /\ boot.state # "FAULT"
    BY <2>1, <2>2 DEF Sync, Same, Shared
  <2> QED  BY <2>1, <2>3 DEF B!Active
<1>7. CASE BootAlone
  <2>1. HistNext /\ B!Step /\ ~ S!Active /\ Sync /\ UNCHANGED seedVars
    BY <1>4, <1>7 DEF BootAlone
  <2>2. seedPhase # "running"
    BY <2>1 DEF S!Active, Sync
  <2>3. bootPhase # "running"
    BY <2>1, <2>2 DEF Sync
  <2>4. B!Free
    BY <2>1, <2>3 DEF B!Step, B!Cycle, B!EndOfMemory, B!Return, B!InLoop
  <2>5. ~ BootActs
    BY <2>3 DEF BootActs, B!InLoop
  <2> QED  BY <1>1, <1>2, <2>1, <2>4, <2>5, BootFrees
<1>8. CASE UNCHANGED vars
  <2>1. /\ program' = program /\ seed' = seed /\ seedLeft' = seedLeft /\ seedPhase' = seedPhase
        /\ boot' = boot /\ bootCycles' = bootCycles /\ bootEnergy' = bootEnergy
        /\ bootLeft' = bootLeft /\ bootPhase' = bootPhase /\ hist' = hist
    BY <1>8 DEF vars, seedVars, bootVars
  <2>2. Sync
    BY <2>1 DEF AgreeInv
  <2>3. Same(seed', boot') /\ Linked(seed', boot', hist'.low)
    BY <2>1, <2>2 DEF Sync
  <2>4. Same(seed, boot)'
    BY <2>3 DEF Same, Shared, SP
  <2>5. Linked(seed, boot, hist.low)'
    BY <2>1, <2>3, LinkPrimed
  <2> QED  BY <2>1, <2>2, <2>4, <2>5 DEF Sync
<1> QED  BY <1>3, <1>5, <1>6, <1>7, <1>8 DEF Next

(* Up to the first instruction that Parts lists, the bootstrap machine     *)
(* (ichingvm_bootstrap.c) does what its predecessor (ichingvm.c) does,     *)
(* instruction by instruction: registers, flags, output, the words on the  *)
(* stack, the data, and the cycles that vm_run counts.                     *)
THEOREM MachinesAgree == Spec => []Agree
<1>1. Init => AgreeInv
  BY AgreeBegins
<1>2. AgreeInv /\ [Next]_vars => AgreeInv'
  BY AgreeStays
<1>3. AgreeInv => Agree
  <2> DEFINE depth == StackSize - seed.reg[SP]
  <2> SUFFICES ASSUME AgreeInv, ~ hist.apart
               PROVE  /\ \A f \in {"pc", "state", "zero", "negative", "overflow", "threads",
                                   "futures", "out"} : seed[f] = boot[f]
                      /\ \A r \in (0..15) \ {12, SP} : seed.reg[r] = boot.reg[r]
                      /\ depth * WordBytes = StackSize - 1 - boot.reg[SP]
                      /\ \A k \in 0..(depth - 1) :
                           seed.stack[seed.reg[SP] + k]
                             = B!vm_read_u32(boot, boot.reg[SP] + k * WordBytes)
                      /\ \A a \in Window(hist.low) : seed.heap[a] = boot.memory[a]
                      /\ seedLeft = bootLeft /\ seed.cycle_count = bootCycles
                      /\ seedPhase = "returned" =>
                           /\ boot.cycle_count = seed.cycle_count
                           /\ boot.energy = 0 /\ seed.energy = 10 * (boot.threads - 1)
    BY DEF Agree
  <2>1. Sync /\ SeedTyped(seed) /\ BootTyped(boot)
    BY DEF AgreeInv, BootOk, SeedOk
  <2>2. /\ seed.reg[SP] \in 0..StackSize /\ boot.reg[SP] \in Nat /\ Stacked(boot, Bytes(seed))
        /\ \A a \in Window(hist.low) : seed.heap[a] = boot.memory[a]
    BY <2>1, Sizes DEF Sync, Linked
  <2>3. /\ Bytes(seed) \in Seq(Words) /\ Len(Bytes(seed)) = depth
        /\ \A k \in 1..depth : Bytes(seed)[k] = seed.stack[seed.reg[SP] + k - 1]
    BY <2>1, <2>2, BytesTyped
  <2>4. depth \in Nat
    BY <2>2, Sizes
  <2>5. depth * WordBytes = StackSize - 1 - boot.reg[SP]
    BY <2>2, <2>3 DEF Stacked
  <2>6. ASSUME NEW k \in 0..(depth - 1)
        PROVE  seed.stack[seed.reg[SP] + k] = B!vm_read_u32(boot, boot.reg[SP] + k * WordBytes)
    <3> DEFINE a == boot.reg[SP] + k * WordBytes
    <3> HIDE DEF depth
    <3>1. k + 1 \in 1..depth /\ (k + 1) - 1 = k
      BY <2>4
    <3>2. StackKept(boot, boot)
      BY DEF StackKept
    <3>3. /\ Joined(boot, boot.reg[SP] + ((k + 1) - 1) * WordBytes) = Bytes(seed)[k + 1]
          /\ boot.reg[SP] + ((k + 1) - 1) * WordBytes \in Nat
          /\ boot.reg[SP] + ((k + 1) - 1) * WordBytes + WordBytes <= StackSize - 1
      BY <2>1, <2>2, <2>3, <3>1, <3>2, KeptWord
    <3>4. Joined(boot, a) = Bytes(seed)[k + 1] /\ a \in Nat /\ a + WordBytes <= StackSize - 1
      BY <3>1, <3>3
    <3> HIDE DEF a
    <3>5. a + WordBytes - 1 < MemorySize
      BY <3>4, Sizes
    <3>6. B!vm_read_u32(boot, a) = Bytes(seed)[k + 1]
      BY <2>1, <3>4, <3>5, ReadJoins
    <3>7. Bytes(seed)[k + 1] = seed.stack[seed.reg[SP] + k]
      <4>1. Bytes(seed)[k + 1] = seed.stack[seed.reg[SP] + (k + 1) - 1]
        BY <2>3, <3>1
      <4>2. seed.reg[SP] + (k + 1) - 1 = seed.reg[SP] + k
        BY <2>2, <2>4
      <4> QED  BY <4>1, <4>2
    <3> QED  BY <3>6, <3>7 DEF a
  <2>7. /\ \A f \in {"pc", "state", "zero", "negative", "overflow", "threads", "futures", "out"} :
             seed[f] = boot[f]
        /\ seed.energy = 10 * (boot.threads - 1)
    BY <2>1 DEF Sync, Same, Shared
  <2>8. \A r \in (0..15) \ {12, SP} : seed.reg[r] = boot.reg[r]
    BY <2>1 DEF Sync, Same
  <2>9. seedLeft = bootLeft /\ seed.cycle_count = bootCycles
        /\ (seedPhase = "returned" => boot.cycle_count = seed.cycle_count /\ boot.energy = 0)
    BY <2>1 DEF Sync
  <2> HIDE DEF depth
  <2> QED  BY <2>2, <2>5, <2>6, <2>7, <2>8, <2>9
<1> QED  BY <1>1, <1>2, <1>3, PTL DEF Spec
==============================================================================
