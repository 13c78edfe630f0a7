------------------------------ MODULE VM2Library -----------------------------
(***************************************************************************)
(* The system calls 10 to 20 of ichingvm2.c, which pack numbers into bytes *)
(* of the heap, take them out again, and copy, fill, hash and compare      *)
(* bytes.  A program calls them in any order with any arguments.  Words    *)
(* have four bytes, as in the code; a byte has Byte values instead of 256. *)
(*                                                                         *)
(* heap, r1   what the calls change; R1 also takes the result              *)
(* state      FAULT after an access outside of the heap                    *)
(* fields     history: the numbers packed and not overwritten since, each  *)
(*            with its address and width; copying copies them              *)
(***************************************************************************)
EXTENDS Integers, Sequences

CONSTANTS
  Byte,       \* 256
  HeapSize,   \* ICHINGVM2_HEAP_SIZE
  Numbers,    \* what is packed
  Addresses,  \* the addresses and
  Lengths     \* the lengths a program passes

(* Byte to the i-th. *)
Place[i \in 0..4] == IF i = 0 THEN 1 ELSE Byte * Place[i - 1]

Word == Place[4]

(* Assumed by the module that gives these constants their values. *)
LibraryAssumption ==
  /\ Byte \in 2..256
  /\ HeapSize \in 1..(Word - 4)
  /\ Numbers \cup Addresses \cup Lengths \subseteq 0..(Word - 1)

VARIABLES heap, r1, state, fields

vars == <<heap, r1, state, fields>>

Heap  == 0..(HeapSize - 1)
Error == Word - 1

Range(a, n) == a..(a + n - 1)

(* What is left of the fields after bytes a to a + n - 1 have been written.*)
Outside(a, n) == {f \in fields : Range(f.at, f.width) \cap Range(a, n) = {}}

Answer(v) == r1' = v % Word /\ UNCHANGED <<heap, state, fields>>
Fault     == state' = "FAULT" /\ UNCHANGED <<heap, r1, fields>>

-----------------------------------------------------------------------------
(* Numbers of 4, 2 or 1 bytes lie in the heap with the highest byte first. *)
(* The bound is checked with a sum that wraps.                             *)
Fits(a, width) == (a + width - 1) % Word < HeapSize

Number(h, a, width) ==
  LET value[n \in 0..width] == IF n = 0 THEN 0 ELSE value[n - 1] * Byte + h[a + n - 1]
  IN  value[width]

(* sys_pack_u32_be, sys_pack_u16_be, sys_pack_u8 *)
Pack(width, v, a) ==
  IF ~ Fits(a, width) THEN Answer(Error)
  ELSE IF a \notin Heap THEN Fault
  ELSE   /\ heap' = [x \in Heap |-> IF x \in Range(a, width)
                                    THEN (v \div Place[a + width - 1 - x]) % Byte
                                    ELSE heap[x]]
         /\ fields' = Outside(a, width)
                        \cup {[at |-> a, width |-> width, value |-> v % Place[width]]}
         /\ r1' = a + width
         /\ UNCHANGED state

(* sys_unpack_u32_be, sys_unpack_u16_be, sys_unpack_u8 *)
Unpack(width, a) ==
  IF ~ Fits(a, width) THEN Answer(0)
  ELSE IF a \notin Heap THEN Fault
  ELSE Answer(Number(heap, a, width))

-----------------------------------------------------------------------------
(* Whether a block is taken to reach behind the heap: the sum wraps. *)
Reaches(a, n) == (a + n) % Word > HeapSize

(* Slip: byte by byte, from the first on. *)
MovedAscending(dst, src, n) ==
  [x \in Heap |-> IF x \notin Range(dst, n) THEN heap[x]
                  ELSE LET i == x - dst
                       IN  heap[src + (IF dst > src THEN i % (dst - src) ELSE i)]]

(* memmove *)
Moved(dst, src, n) ==
  [x \in Heap |-> IF x \in Range(dst, n) THEN heap[src + x - dst] ELSE heap[x]]

sys_memcpy(dst, src, n) ==
  IF Reaches(dst, n) \/ Reaches(src, n) THEN Answer(Error)
  ELSE IF dst + n > HeapSize \/ src + n > HeapSize THEN Fault
  ELSE   /\ heap' = Moved(dst, src, n)
         /\ fields' = Outside(dst, n) \cup
              {[f EXCEPT !.at = dst + f.at - src] :
                 f \in {g \in fields : Range(g.at, g.width) \subseteq Range(src, n)}}
         /\ r1' = dst + n
         /\ UNCHANGED state

sys_memset(dst, v, n) ==
  IF Reaches(dst, n) THEN Answer(Error)
  ELSE IF dst + n > HeapSize THEN Fault
  ELSE   /\ heap' = [x \in Heap |-> IF x \in Range(dst, n) THEN v % Byte ELSE heap[x]]
         /\ fields' = Outside(dst, n)
         /\ r1' = dst + n
         /\ UNCHANGED state

-----------------------------------------------------------------------------
(* Strings end at a zero byte, or at the end of the heap for two of the    *)
(* three calls; strcmp goes on behind it, where anything can lie.          *)
Terminates(a) == \E x \in Heap : x >= a /\ heap[x] = 0

Length(a) ==
  IF a \notin Heap THEN 0
  ELSE CHOOSE n \in 0..(HeapSize - a) :
         /\ \A i \in 0..(n - 1) : heap[a + i] # 0
         /\ a + n < HeapSize => heap[a + n] = 0

String(a) == [i \in 1..Length(a) |-> heap[a + i - 1]]

(* Slip: the hash goes on behind the end of the string. *)
HashToTheEnd(a) ==
  LET hash[n \in 0..HeapSize] ==
        IF n = 0 THEN 5381 % Word ELSE (hash[n - 1] * 33 + heap[a + n - 1]) % Word
  IN  IF a \in Heap THEN hash[HeapSize - a] ELSE hash[0]

(* sys_djb2_hash *)
Hash(a) ==
  LET hash[n \in 0..Length(a)] ==
        IF n = 0 THEN 5381 % Word ELSE (hash[n - 1] * 33 + heap[a + n - 1]) % Word
  IN  hash[Length(a)]

Differ(a, b) ==
  \E i \in 0..HeapSize :
    /\ a + i \in Heap /\ b + i \in Heap /\ heap[a + i] # heap[b + i]
    /\ \A j \in 0..(i - 1) : heap[a + j] # 0 \/ heap[b + j] # 0

(* What strcmp can answer: 1 for equal strings. *)
Compared(a, b) ==
  IF Differ(a, b) THEN {0}
  ELSE IF Terminates(a) /\ Terminates(b) THEN {1}
  ELSE {0, 1}

sys_strcmp(a, b) ==
  IF a \notin Heap \/ b \notin Heap THEN Answer(Error)
  ELSE \/ \E equal \in Compared(a, b) : Answer(equal)
       \/ Compared(a, b) = {0, 1} /\ Fault

-----------------------------------------------------------------------------
Init == /\ heap = [x \in Heap |-> 0] /\ r1 = 0
        /\ state = "RUNNING" /\ fields = {}

Next ==
  /\ state = "RUNNING"
  /\ \E a \in Addresses :
       \/ \E width \in {1, 2, 4}, v \in Numbers : Pack(width, v, a)
       \/ \E width \in {1, 2, 4} : Unpack(width, a)
       \/ \E b \in Addresses, n \in Lengths : sys_memcpy(a, b, n)
       \/ \E v \in Numbers, n \in Lengths : sys_memset(a, v, n)
       \/ Answer(Hash(a))
       \/ Answer(Length(a))
       \/ \E b \in Addresses : sys_strcmp(a, b)

Spec == Init /\ [][Next]_vars

-----------------------------------------------------------------------------
(* A number that was packed is unpacked as it was, at its place and at     *)
(* every place it has been copied to, overlapping or not, until something  *)
(* is written over one of its bytes.                                       *)
FieldsKept == \A f \in fields : Number(heap, f.at, f.width) = f.value

(* The three calls on strings agree on where a string ends: what compares  *)
(* equal has one length and one hash, whatever lies behind it.             *)
StringsAgree ==
  \A a, b \in Heap : Compared(a, b) = {1} => Length(a) = Length(b) /\ Hash(a) = Hash(b)
=============================================================================
