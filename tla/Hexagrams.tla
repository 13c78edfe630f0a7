------------------------------ MODULE Hexagrams ------------------------------
(***************************************************************************)
(* The instructions that the two bootstrap machines, ichingvm.c and        *)
(* ichingvm_bootstrap.c, have word for word in common (evomorph_runtime.c  *)
(* repeats them a third time).  As in the code an instruction is a         *)
(* function of the machine, here a record m that has at least these fields *)
(* of struct IChingVM:                                                     *)
(*   reg       the registers R0..R15, each below Word                      *)
(*   pc, state, zero, negative, overflow, energy                           *)
(*   threads, futures   the counters that CREA and FUTU hand out           *)
(*   out       what was printed, one entry per number or string            *)
(* and of o, the two operand bytes of the instruction.  Bits, the width of *)
(* a register, is 32 in the code.                                          *)
(***************************************************************************)
EXTENDS Integers, Sequences, BitOps

CONSTANT Bits

Byte == 256
Word == 2 ^ Bits

(* The register numbers operands & 0x0F and what they hold. *)
Dst(o) == o[1] % 16
Src(o) == o[2] % 16
X(m, o) == m.reg[Dst(o)]
Y(m, o) == m.reg[Src(o)]

Put(m, r, v) == [m EXCEPT !.reg[r] = v % Word]

(* The result of a logical or arithmetic instruction, with its two flags. *)
Result(m, o, v) == [Put(m, Dst(o), v) EXCEPT !.zero = v % Word = 0,
                                             !.negative = v % Word >= Word \div 2]

Copy(m, o) == Put(m, Dst(o), Y(m, o))
Bump(m, o) == Put(m, Dst(o), X(m, o) + 1)
End(m, state) == [m EXCEPT !.state = state]
Nothing(m, o) == m

op_fellowship(m, o) == Copy(m, o)
op_following(m, o)  == Copy(m, o)
op_intrinsic(m, o)  == Copy(m, o)
op_thrust(m, o)     == Copy(m, o)
op_bind(m, o)       == Copy(m, o)
op_convert(m, o)    == Copy(m, o)
op_replace(m, o)    == Copy(m, o)
op_cast(m, o)       == Copy(m, o)

op_step(m, o)    == Bump(m, o)
op_advance(m, o) == Bump(m, o)
op_gradual(m, o) == Bump(m, o)

op_approach(m, o) == Result(m, o, And(Bits, X(m, o), Y(m, o)))
op_merge(m, o)    == Result(m, o, Or(Bits, X(m, o), Y(m, o)))
op_adorn(m, o)    == Result(m, o, Xor(Bits, X(m, o), Y(m, o)))
op_reduce(m, o)   == Result(m, o, Word + X(m, o) - Y(m, o))
op_increase(m, o) == Result(m, o, X(m, o) + Y(m, o))

(* Shifts use the low five bits of the second register; what is shifted    *)
(* out is lost before the multiplication, so that it stays below Word.     *)
op_prefetch(m, o) ==
  LET shift == Y(m, o) % 32
  IN  Result(m, o, IF shift >= Bits THEN 0
                   ELSE (X(m, o) % 2 ^ (Bits - shift)) * 2 ^ shift)

op_flush(m, o) ==
  LET shift == Y(m, o) % 32
  IN  Result(m, o, IF shift >= Bits THEN 0 ELSE X(m, o) \div 2 ^ shift)

op_gather(m, o)  == Put(m, Dst(o), X(m, o) + Y(m, o))
op_mate(m, o)    == Put(m, Dst(o), ((X(m, o) + Y(m, o)) % Word) \div 2)
op_micro(m, o)   == Put(m, Dst(o), X(m, o) + o[2])
op_abound(m, o)  == Put(m, Dst(o), o[2])
op_obscure(m, o) == Put(m, Dst(o), Word - 1 - Y(m, o))
op_strip(m, o)   == Put(m, Dst(o), Y(m, o) % Byte)
op_sprt(m, o)    == Put(m, Dst(o), 1)
op_mut(m, o)     == Put(m, Dst(o), IF o[2] % 32 >= Bits THEN X(m, o)
                                   ELSE Xor(Bits, X(m, o), 2 ^ (o[2] % 32)))

op_crea(m, o) == [Put(m, Dst(o), m.threads) EXCEPT !.threads = @ + 1, !.energy = @ + 10]
op_futu(m, o) == [Put(m, Dst(o), m.futures) EXCEPT !.futures = @ + 1]

op_wait(m, o)       == IF X(m, o) = 0 THEN [m EXCEPT !.pc = @ - 4] ELSE m
op_illuminate(m, o) == [m EXCEPT !.out = Append(@, X(m, o))]

op_halt(m, o)     == End(m, "HALTED")
op_break(m, o)    == End(m, "HALTED")
op_retreat(m, o)  == End(m, "HALTED")
op_yield(m, o)    == End(m, "PAUSED")
op_still(m, o)    == End(m, "PAUSED")
op_trap(m, o)     == End(m, "TRAPPED")
op_overload(m, o) == End(m, "ERROR")
op_trapped(m, o)  == End(m, "ERROR")
op_mismatch(m, o) == End(m, "ERROR")

op_speculate(m, o) == Nothing(m, o)
op_shock(m, o)     == Nothing(m, o)
op_persist(m, o)   == Nothing(m, o)
op_throttle(m, o)  == Nothing(m, o)
op_lame(m, o)      == Nothing(m, o)
op_joy(m, o)       == Nothing(m, o)
op_sense(m, o)     == Nothing(m, o)
op_barrier(m, o)   == Nothing(m, o)
op_travel(m, o)    == Nothing(m, o)
op_trust(m, o)     == Nothing(m, o)

(* The opcodes whose handlers each machine has for itself: RECV, RETURN,   *)
(* BRANCH, PUSH_UP, UNLOCK, ALLOC, SYNC, WELL, NOURISH, BITE, ABUNDANCE,   *)
(* CONTEMPLATE, DISPERSE, PENETRATE and LOCK.                              *)
OwnOps == {0, 1, 2, 6, 10, 17, 21, 22, 33, 41, 47, 48, 50, 54, 58}

(* opcode_handlers for all the others. *)
Common(op, m, o) ==
  CASE op = 3 -> op_approach(m, o)    [] op = 4 -> op_yield(m, o)
    [] op = 5 -> op_obscure(m, o)     [] op = 7 -> op_flush(m, o)
    [] op = 8 -> op_speculate(m, o)   [] op = 9 -> op_shock(m, o)
    [] op = 11 -> op_mismatch(m, o)   [] op = 12 -> op_micro(m, o)
    [] op = 13 -> op_abound(m, o)     [] op = 14 -> op_persist(m, o)
    [] op = 15 -> op_thrust(m, o)     [] op = 16 -> op_merge(m, o)
    [] op = 18 -> op_trap(m, o)       [] op = 19 -> op_throttle(m, o)
    [] op = 20 -> op_lame(m, o)       [] op = 23 -> op_wait(m, o)
    [] op = 24 -> op_gather(m, o)     [] op = 25 -> op_following(m, o)
    [] op = 26 -> op_trapped(m, o)    [] op = 27 -> op_joy(m, o)
    [] op = 28 -> op_sense(m, o)      [] op = 29 -> op_replace(m, o)
    [] op = 30 -> op_overload(m, o)   [] op = 31 -> op_break(m, o)
    [] op = 32 -> op_strip(m, o)      [] op = 34 -> op_sprt(m, o)
    [] op = 35 -> op_reduce(m, o)     [] op = 36 -> op_still(m, o)
    [] op = 37 -> op_adorn(m, o)      [] op = 38 -> op_mut(m, o)
    [] op = 39 -> op_barrier(m, o)    [] op = 40 -> op_advance(m, o)
    [] op = 42 -> op_futu(m, o)       [] op = 43 -> op_convert(m, o)
    [] op = 44 -> op_travel(m, o)     [] op = 45 -> op_illuminate(m, o)
    [] op = 46 -> op_cast(m, o)       [] op = 49 -> op_increase(m, o)
    [] op = 51 -> op_trust(m, o)      [] op = 52 -> op_gradual(m, o)
    [] op = 53 -> op_bind(m, o)       [] op = 55 -> op_prefetch(m, o)
    [] op = 56 -> op_halt(m, o)       [] op = 57 -> op_intrinsic(m, o)
    [] op = 59 -> op_step(m, o)       [] op = 60 -> op_retreat(m, o)
    [] op = 61 -> op_fellowship(m, o) [] op = 62 -> op_mate(m, o)
    [] op = 63 -> op_crea(m, o)
=============================================================================
