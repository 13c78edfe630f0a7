--------------------------- MODULE BootAssembler ---------------------------
(***************************************************************************)
(* assemble_file, the same in ichingvm.c and ichingvm_bootstrap.c.  A line *)
(* is a record of a mnemonic and the tokens behind it, each Reg(r) for a   *)
(* token R<r> or Num(n) for a number; blank lines and comments, the case   *)
(* of letters and the notations of numbers are left out.                   *)
(***************************************************************************)
EXTENDS Integers, Sequences
LOCAL INSTANCE SequencesExt

CONSTANT CodeLimit   \* 65536: the bytes of the code buffer

Reg(r) == [kind |-> "register", value |-> r]
Num(n) == [kind |-> "number", value |-> n]

mnemonic_map ==
  [CREA |-> 63, RECV |-> 0, ALLOC |-> 17, SPRT |-> 34, WAIT |-> 23, LOCK |-> 58,
   BRANCH |-> 2, MERGE |-> 16, SHL |-> 55, PREFETCH |-> 55, STEP |-> 59, SHR |-> 7,
   FLUSH |-> 7, HALT |-> 56, FELLOWSHIP |-> 61, ABUNDANCE |-> 47, YIELD |-> 4,
   SPECULATE |-> 8, FOLLOWING |-> 25, MUT |-> 38, AND |-> 3, APPROACH |-> 3,
   CONTEMPLATE |-> 48, BITE |-> 41, XOR |-> 37, ADORN |-> 37, STRIP |-> 32,
   RETURN |-> 1, INTRINSIC |-> 57, BARRIER |-> 39, NOURISH |-> 33, OVERLOAD |-> 30,
   TRAP |-> 18, ILLUMINATE |-> 45, SENSE |-> 28, PERSIST |-> 14, RETREAT |-> 60,
   THRUST |-> 15, ADVANCE |-> 40, OBSCURE |-> 5, BIND |-> 53, CONVERT |-> 43,
   LAME |-> 20, UNLOCK |-> 10, REDUCE |-> 35, INCREASE |-> 49, BREAK |-> 31,
   MATE |-> 62, GATHER |-> 24, PUSH_UP |-> 6, TRAPPED |-> 26, WELL |-> 22,
   REPLACE |-> 29, CAST |-> 46, SHOCK |-> 9, STILL |-> 36, GRADUAL |-> 52,
   MISMATCH |-> 11, ABOUND |-> 13, TRAVEL |-> 44, PENETRATE |-> 54, JOY |-> 27,
   DISPERSE |-> 50, THROTTLE |-> 19, TRUST |-> 51, MICRO |-> 12, SYNC |-> 21,
   FUTU |-> 42, OR |-> 16]

find_opcode(mnemonic) ==
  IF mnemonic \in DOMAIN mnemonic_map THEN mnemonic_map[mnemonic] ELSE 255

(* A token R16 or above is no register, and as a number it is 0.           *)
Operand(token) ==
  CASE token.kind = "number"   -> token.value % 256
    [] token.value \in 0..15   -> token.value
    [] OTHER                   -> 0

(* The first two tokens; missing ones are 0, more are not read.            *)
Operands(tokens) == [k \in 1..2 |-> IF k <= Len(tokens) THEN Operand(tokens[k]) ELSE 0]

Known(line) == find_opcode(line.mnemonic) # 255

(* The modifier is always 0, so a BRANCH to a register has no notation.    *)
Emitted(line) == <<find_opcode(line.mnemonic) * 4, 0>> \o Operands(line.tokens)

(* What comes of it: the result, and the output if one is written.  Either *)
(* file may fail to open.  Unknown mnemonics are skipped with a warning.   *)
(* The buffer is checked after each instruction: a program that fills it   *)
(* to the last byte is refused, and nothing is written.                    *)
Failed          == [result |-> -1]
Assembled(code) == [result |-> 0, code |-> code]

assemble_file(lines) ==
  LET code == FlattenSeq([i \in 1..Len(lines) |->
                            IF Known(lines[i]) THEN Emitted(lines[i]) ELSE << >>])
  IN  {Failed} \cup IF Len(code) < CodeLimit THEN {Assembled(code)} ELSE {}

(* The files it can leave. *)
Written(lines) == {outcome.code : outcome \in assemble_file(lines) \ {Failed}}
=============================================================================
