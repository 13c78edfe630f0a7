----------------------------- MODULE VM2Memory -------------------------------
(***************************************************************************)
(* The heap of one IChingVM2 (evomorph/native/runtime/ichingvm2.c), which  *)
(* holds three things at once: the blocks of two bump allocators that      *)
(* share heap_ptr and grow upwards from 0 (the ALLOC.0 instruction and the *)
(* sys_heap_alloc syscall), and the stack, which grows downwards from      *)
(* address STACK_SIZE of the same array (vm->stack is allocated and never  *)
(* used).                                                                  *)
(*                                                                         *)
(* The program is a well-behaved one: it stores only inside blocks it was  *)
(* granted (and no longer once a request of its own went around 2^32),     *)
(* pops only what it pushed, and does not push below address 0.            *)
(* Everything else is the code: sizes wrap at the width of a register,     *)
(* stores beyond the heap are dropped, nobody compares heap_ptr with SP.   *)
(***************************************************************************)
EXTENDS Integers, FiniteSets

CONSTANTS
  Modulus,    \* 2^32
  HeapSize,   \* ICHINGVM2_HEAP_SIZE
  StackTop,   \* ICHINGVM2_STACK_SIZE: the initial SP
  WordBytes,  \* 4
  Byte,       \* the values of a heap byte
  Zero,       \* the byte 0
  OpSizes,    \* the sizes ALLOC.0 can name: the number of a register, 256
  Requests,   \* the sizes the program asks the syscall for
  MaxBlocks   \* bound of the model: how many requests it makes

ASSUME SizesAssumption ==
  /\ Modulus \in Nat /\ HeapSize \in Nat /\ StackTop \in Nat
  /\ WordBytes \in Nat \ {0}
  /\ StackTop <= HeapSize /\ 2 * HeapSize < Modulus
ASSUME ByteAssumption     == Zero \in Byte
ASSUME OpSizesAssumption  == OpSizes \subseteq 1..HeapSize
ASSUME RequestsAssumption == Requests \subseteq 0..(Modulus - 1)
ASSUME BlocksAssumption   == MaxBlocks \in Nat

VARIABLES
  mem,       \* vm->heap
  heapPtr,   \* vm->heap_ptr
  sp,        \* vm->regs[29]
  blocks,    \* history: the blocks granted, [lo, hi) and by which allocator
  kept,      \* history: by address, the bytes pushed and not popped
  wrapped    \* history: a request went around the width of a register

vars == <<mem, heapPtr, sp, blocks, kept, wrapped>>

Addr  == 0..(HeapSize - 1)
Word  == [0..(WordBytes - 1) -> Byte]
Block == [lo : Nat, hi : Nat, by : {"ALLOC", "syscall"}]

TypeOK ==
  /\ mem \in [Addr -> Byte]
  /\ heapPtr \in 0..HeapSize
  /\ sp \in 0..StackTop
  /\ blocks \subseteq Block /\ IsFiniteSet(blocks)
  /\ kept \in [sp..(StackTop - 1) -> Byte]
  /\ wrapped \in BOOLEAN

-----------------------------------------------------------------------------
(* ichingvm2_create; the loads leave all of this alone. *)
Init ==
  /\ mem = [a \in Addr |-> Zero]
  /\ heapPtr = 0 /\ sp = StackTop
  /\ blocks = {} /\ kept = [a \in StackTop..(StackTop - 1) |-> Zero]
  /\ wrapped = FALSE

(* ichingvm2_reset *)
Reset ==
  /\ mem' = [a \in Addr |-> Zero]
  /\ heapPtr' = 0 /\ sp' = StackTop
  /\ blocks' = {} /\ kept' = [a \in StackTop..(StackTop - 1) |-> Zero]
  /\ wrapped' = FALSE

-----------------------------------------------------------------------------
(* Both allocators compare with the sum as a register holds it. *)
Sum(size)     == (heapPtr + size) % Modulus

(* Slip: the heap_ptr before the request is what is compared. *)
GrantedBefore(size) == heapPtr <= HeapSize

Granted(size) == Sum(size) <= HeapSize

(* History of a request for [lo, lo + size). *)
Grant(lo, size, allocator) ==
  /\ blocks'  = blocks \cup {[lo |-> lo, hi |-> lo + size, by |-> allocator]}
  /\ wrapped' = (wrapped \/ heapPtr + size >= Modulus)

MayAsk == Cardinality(blocks) < MaxBlocks

(* Slip: heap_ptr++ without the matching size - 1 afterwards. *)
AllocOpShort(size) ==
  /\ MayAsk
  /\ Granted(size)
  /\ heapPtr' = Sum(size) - 1
  /\ Grant(heapPtr + 1, size, "ALLOC")
  /\ UNCHANGED <<mem, sp, kept>>

(* Slip: heap_ptr is not stepped before it is answered. *)
AllocOpAtPtr(size) ==
  /\ MayAsk
  /\ Granted(size)
  /\ heapPtr' = Sum(size)
  /\ Grant(heapPtr, size, "ALLOC")
  /\ UNCHANGED <<mem, sp, kept>>

(* ALLOC.0: the block starts one byte behind heap_ptr. *)
AllocOp(size) ==
  /\ MayAsk
  /\ Granted(size)
  /\ heapPtr' = Sum(size)
  /\ Grant(heapPtr + 1, size, "ALLOC")
  /\ UNCHANGED <<mem, sp, kept>>

(* sys_heap_alloc: the block starts at heap_ptr. *)
SysHeapAlloc(size) ==
  /\ MayAsk
  /\ Granted(size)
  /\ heapPtr' = Sum(size)
  /\ Grant(heapPtr, size, "syscall")
  /\ UNCHANGED <<mem, sp, kept>>

(* Refused: the program gets 0. *)
AllocRefused(size) ==
  /\ MayAsk
  /\ ~Granted(size)
  /\ UNCHANGED vars

-----------------------------------------------------------------------------
(* A store of the bytes w at a and above is dropped when its last byte is  *)
(* beyond the heap (ichingvm2_store_word, and the byte stores likewise).   *)
Stored(a, w, n) ==
  IF a + n - 1 < HeapSize
  THEN [x \in Addr |-> IF x \in a..(a + n - 1) THEN w[x - a] ELSE mem[x]]
  ELSE mem

(* ALLOC.1 and .2, ABUNDANCE.0, STR, STRB and the syscalls that write.     *)
StoreWord(b, a, w) ==
  /\ ~wrapped
  /\ b \in blocks /\ a \in b.lo..(b.hi - WordBytes)
  /\ mem' = Stored(a, w, WordBytes)
  /\ UNCHANGED <<heapPtr, sp, blocks, kept, wrapped>>

StoreByte(b, a, v) ==
  /\ ~wrapped
  /\ b \in blocks /\ a \in b.lo..(b.hi - 1)
  /\ mem' = Stored(a, [i \in {0} |-> v], 1)
  /\ UNCHANGED <<heapPtr, sp, blocks, kept, wrapped>>

-----------------------------------------------------------------------------
(* Slip: the bytes are stored before SP moves. *)
PushStoreFirst(w, n) ==
  /\ sp >= n
  /\ sp' = sp - n
  /\ mem' = Stored(sp, w, n)
  /\ kept' = [x \in (sp - n)..(StackTop - 1) |->
                IF x < sp THEN w[x - (sp - n)] ELSE kept[x]]
  /\ UNCHANGED <<heapPtr, blocks, wrapped>>

(* The stack instructions; n bytes w go below sp. *)
Push(w, n) ==
  /\ sp >= n
  /\ sp' = sp - n
  /\ mem' = Stored(sp - n, w, n)
  /\ kept' = [x \in (sp - n)..(StackTop - 1) |->
                IF x < sp THEN w[x - (sp - n)] ELSE kept[x]]
  /\ UNCHANGED <<heapPtr, blocks, wrapped>>

Pop(n) ==
  /\ sp + n <= StackTop
  /\ sp' = sp + n
  /\ kept' = [x \in (sp + n)..(StackTop - 1) |-> kept[x]]
  /\ UNCHANGED <<mem, heapPtr, blocks, wrapped>>

(* PUSH_UP.1, PUSH, native CALL; WELL.1, POP, RET, IRET. *)
PushWord == \E w \in Word : Push(w, WordBytes)
PopWord  == Pop(WordBytes)

(* PUSH_UP.0 and WELL.0. *)
PushByte == \E v \in Byte : Push([i \in {0} |-> v], 1)
PopByte  == Pop(1)

-----------------------------------------------------------------------------
Allocate == \/ \E size \in OpSizes : AllocOp(size)
            \/ \E size \in Requests : SysHeapAlloc(size)
            \/ \E size \in OpSizes \cup Requests : AllocRefused(size)

Store == \E b \in blocks :
           \/ \E a \in b.lo..(b.hi - WordBytes), w \in Word : StoreWord(b, a, w)
           \/ \E a \in b.lo..(b.hi - 1), v \in Byte : StoreByte(b, a, v)

Next == Reset \/ Allocate \/ Store \/ PushWord \/ PopWord \/ PushByte \/ PopByte

Spec == Init /\ [][Next]_vars

-----------------------------------------------------------------------------
(* As long as no request went around 2^32: blocks of one allocator never   *)
(* share a byte, and a block of ALLOC.0 shares at most its last byte, with *)
(* the block of the syscall granted next.                                  *)
Apart(b, c, slack) == b.hi <= c.lo + slack \/ c.hi <= b.lo + slack

BlocksApart ==
  ~wrapped => \A b, c \in blocks :
                b # c => Apart(b, c, IF b.by = c.by THEN 0 ELSE 1)

(* The answer 0 also says that a request was refused.  It is the address   *)
(* of at most one block that is not empty, and that one is the syscall's:  *)
(* whoever takes blocks from ALLOC.0, or never a first block from the      *)
(* syscall, can rely on it.                                                *)
ZeroNamesOne ==
  ~wrapped => \A b \in blocks : b.lo = 0 =>
    /\ b.by = "syscall"
    /\ \A c \in blocks : c.lo = 0 => b = c \/ b.hi = 0 \/ c.hi = 0

(* Where allocator and stack meet, nothing is lost but the bytes that both *)
(* own: what was pushed is still there, byte by byte, outside of the       *)
(* granted blocks, through allocations that reach into the stack, stores   *)
(* into those blocks, and pushes that go down into them.                   *)
Granting(a) == \E b \in blocks : a \in b.lo..(b.hi - 1)

StackKept == \A a \in DOMAIN kept : mem[a] = kept[a] \/ Granting(a)
=============================================================================
