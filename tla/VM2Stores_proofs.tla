--------------------------- MODULE VM2Stores_proofs --------------------------
(***************************************************************************)
(* Proofs about what VM2Stores puts together: the heap for every size of   *)
(* the heap, of the stack, of a word and of the requests; the registers    *)
(* saved on the stack for any number of registers, any of them as SP; the  *)
(* handles for any number of VMs, of slots and of files opened.            *)
(***************************************************************************)
EXTENDS VM2Stores, Lemmas, FiniteSetTheorems

(* VM2Stores does what its parts do, so that what is proved of each of     *)
(* them, by its own specification, holds of VM2Stores.                     *)
THEOREM EachStore == StoresSpec => Spec /\ R!Spec /\ F!Spec
<1>1. StoresInit => Init /\ R!Init /\ F!Init
  BY DEF StoresInit
<1>2. [StoresNext]_storesVars => [Next]_vars /\ [R!Next]_(R!vars) /\ [F!Next]_(F!vars)
  BY DEF StoresNext, Program, Savings, HandleUses, storesVars, registers, files,
         vars, R!vars, F!vars
<1> QED  BY <1>1, <1>2, PTL DEF StoresSpec, Spec, R!Spec, F!Spec

-----------------------------------------------------------------------------
(* What a store does to the heap. *)

LEMMA StoredType ==
  ASSUME mem \in [Addr -> Byte], NEW a \in Nat, NEW n \in Nat \ {0},
         NEW w \in [0..(n - 1) -> Byte]
  PROVE  Stored(a, w, n) \in [Addr -> Byte]
<1> USE SizesAssumption DEF Addr
<1>1. ASSUME NEW x \in Addr, x \in a..(a + n - 1) PROVE w[x - a] \in Byte
  <2>1. x - a \in 0..(n - 1)
    BY <1>1
  <2>2. QED  BY <2>1
<1>2. QED  BY <1>1 DEF Stored

LEMMA StoredElsewhere ==
  ASSUME mem \in [Addr -> Byte], NEW a \in Nat, NEW n \in Nat, NEW w,
         NEW x \in Addr, x \notin a..(a + n - 1)
  PROVE  Stored(a, w, n)[x] = mem[x]
  BY DEF Stored

LEMMA StoredHere ==
  ASSUME NEW a \in Nat, NEW n \in Nat, NEW w, a + n <= HeapSize,
         NEW x \in Addr, x \in a..(a + n - 1)
  PROVE  Stored(a, w, n)[x] = w[x - a]
  BY SizesAssumption DEF Stored

LEMMA WordIsBytes ==
  /\ WordBytes \in Nat \ {0}
  /\ \A w \in Word : w \in [0..(WordBytes - 1) -> Byte]
  /\ \A v \in Byte : [i \in {0} |-> v] \in [0..(1 - 1) -> Byte]
<1>1. 0..(1 - 1) = {0}
  OBVIOUS
<1>2. QED  BY <1>1, SizesAssumption DEF Word

-----------------------------------------------------------------------------
(* Types. *)

LEMMA SumType ==
  ASSUME heapPtr \in 0..HeapSize, NEW size \in 0..(Modulus - 1), Granted(size)
  PROVE  Sum(size) \in 0..HeapSize
  BY SizesAssumption DEF Granted, Sum

LEMMA GrantType ==
  ASSUME TypeOK, NEW lo \in Nat, NEW size \in Nat, NEW who \in {"ALLOC", "syscall"},
         Grant(lo, size, who)
  PROVE  /\ blocks' \subseteq Block /\ IsFiniteSet(blocks')
         /\ wrapped' \in BOOLEAN
<1>1. [lo |-> lo, hi |-> lo + size, by |-> who] \in Block
  BY DEF Block
<1>2. IsFiniteSet(blocks')
  BY FS_AddElement DEF Grant, TypeOK
<1>3. QED  BY <1>1, <1>2 DEF Grant, TypeOK

LEMMA PushType ==
  ASSUME TypeOK, NEW n \in Nat \ {0}, NEW w \in [0..(n - 1) -> Byte], Push(w, n)
  PROVE  TypeOK'
<1> USE SizesAssumption
<1>1. sp \in Nat /\ sp - n \in Nat /\ sp' = sp - n /\ sp' \in 0..StackTop
  BY DEF TypeOK, Push
<1>2. mem' \in [Addr -> Byte]
  BY <1>1, StoredType DEF TypeOK, Push
<1>3. ASSUME NEW x \in (sp - n)..(StackTop - 1)
      PROVE  (IF x < sp THEN w[x - (sp - n)] ELSE kept[x]) \in Byte
  <2>1. CASE x < sp
    <3>1. x - (sp - n) \in 0..(n - 1)
      BY <1>1, <2>1
    <3>2. QED  BY <2>1, <3>1
  <2>2. CASE ~(x < sp)
    <3>1. x \in sp..(StackTop - 1)
      BY <1>1, <2>2
    <3>2. QED  BY <2>2, <3>1 DEF TypeOK
  <2>3. QED  BY <2>1, <2>2
<1>4. kept' \in [sp'..(StackTop - 1) -> Byte]
  BY <1>1, <1>3 DEF Push
<1>5. QED  BY <1>1, <1>2, <1>4 DEF TypeOK, Push

LEMMA PopType ==
  ASSUME TypeOK, NEW n \in Nat, Pop(n)
  PROVE  TypeOK'
<1>1. sp' \in 0..StackTop
  BY SizesAssumption DEF TypeOK, Pop
<1>2. kept' \in [sp'..(StackTop - 1) -> Byte]
  <2>1. \A x \in (sp + n)..(StackTop - 1) : x \in sp..(StackTop - 1)
    BY SizesAssumption DEF TypeOK
  <2>2. QED  BY <2>1 DEF TypeOK, Pop
<1>3. QED  BY <1>1, <1>2 DEF TypeOK, Pop

LEMMA EmptyType ==
  /\ [a \in Addr |-> Zero] \in [Addr -> Byte]
  /\ [a \in StackTop..(StackTop - 1) |-> Zero] \in [StackTop..(StackTop - 1) -> Byte]
  /\ 0 \in 0..HeapSize /\ StackTop \in 0..StackTop
  /\ IsFiniteSet({})
  BY SizesAssumption, ByteAssumption, FS_EmptySet

LEMMA InitType == Init => TypeOK
  BY EmptyType DEF Init, TypeOK

LEMMA NextType == TypeOK /\ [Next]_vars => TypeOK'
<1> SUFFICES ASSUME TypeOK, [Next]_vars PROVE TypeOK'
  OBVIOUS
<1>1. CASE Reset
  BY <1>1, EmptyType DEF Reset, TypeOK
<1>2. ASSUME NEW size \in OpSizes, AllocOp(size) PROVE TypeOK'
  <2>1. size \in 0..(Modulus - 1) /\ size \in Nat
    BY SizesAssumption, OpSizesAssumption
  <2>2. heapPtr' \in 0..HeapSize
    BY <1>2, <2>1, SumType DEF AllocOp, TypeOK
  <2>3. heapPtr + 1 \in Nat
    BY SizesAssumption DEF TypeOK
  <2>4. /\ blocks' \subseteq Block /\ IsFiniteSet(blocks')
        /\ wrapped' \in BOOLEAN
    BY <1>2, <2>1, <2>3, GrantType DEF AllocOp
  <2>5. QED  BY <1>2, <2>2, <2>4 DEF AllocOp, TypeOK
<1>3. ASSUME NEW size \in Requests, SysHeapAlloc(size) PROVE TypeOK'
  <2>1. size \in 0..(Modulus - 1) /\ size \in Nat
    BY SizesAssumption, RequestsAssumption
  <2>2. heapPtr' \in 0..HeapSize
    BY <1>3, <2>1, SumType DEF SysHeapAlloc, TypeOK
  <2>3. heapPtr \in Nat
    BY SizesAssumption DEF TypeOK
  <2>4. /\ blocks' \subseteq Block /\ IsFiniteSet(blocks')
        /\ wrapped' \in BOOLEAN
    BY <1>3, <2>1, <2>3, GrantType DEF SysHeapAlloc
  <2>5. QED  BY <1>3, <2>2, <2>4 DEF SysHeapAlloc, TypeOK
<1>4. CASE (\E size \in OpSizes \cup Requests : AllocRefused(size)) \/ UNCHANGED vars
  BY <1>4 DEF AllocRefused, vars, TypeOK
<1>5. CASE Store
  <2>1. PICK b \in blocks :
           \/ \E a \in b.lo..(b.hi - WordBytes), w \in Word : StoreWord(b, a, w)
           \/ \E a \in b.lo..(b.hi - 1), v \in Byte : StoreByte(b, a, v)
    BY <1>5 DEF Store
  <2>2. b.lo \in Nat /\ b.hi \in Nat
    BY DEF TypeOK, Block
  <2>3. mem' \in [Addr -> Byte]
    <3>1. ASSUME NEW a \in b.lo..(b.hi - WordBytes), NEW w \in Word, StoreWord(b, a, w)
          PROVE  mem' \in [Addr -> Byte]
      <4>1. a \in Nat
        BY <2>2
      <4>2. QED  BY <3>1, <4>1, StoredType, WordIsBytes DEF StoreWord, TypeOK
    <3>2. ASSUME NEW a \in b.lo..(b.hi - 1), NEW v \in Byte, StoreByte(b, a, v)
          PROVE  mem' \in [Addr -> Byte]
      <4>1. a \in Nat /\ 1 \in Nat \ {0}
        BY <2>2
      <4>2. QED  BY <3>2, <4>1, StoredType, WordIsBytes DEF StoreByte, TypeOK
    <3>3. QED  BY <2>1, <3>1, <3>2
  <2>4. QED  BY <2>1, <2>3 DEF StoreWord, StoreByte, TypeOK
<1>6. CASE PushWord
  BY <1>6, PushType, WordIsBytes DEF PushWord
<1>7. CASE PushByte
  <2>1. 1 \in Nat \ {0}
    OBVIOUS
  <2>2. QED  BY <1>7, <2>1, PushType, WordIsBytes DEF PushByte
<1>8. CASE PopWord \/ PopByte
  BY <1>8, PopType, SizesAssumption DEF PopWord, PopByte
<1>9. QED
  BY <1>1, <1>2, <1>3, <1>4, <1>5, <1>6, <1>7, <1>8 DEF Next, Allocate

(* The heap pointer stays in the heap whatever is asked for, SP between 0  *)
(* and its start. *)
THEOREM TypeCorrect == Spec => []TypeOK
  BY InitType, NextType, PTL DEF Spec

-----------------------------------------------------------------------------
(* Blocks.  Behind heap_ptr nothing is granted yet, but for the one byte   *)
(* that ALLOC.0 is ahead of it.                                            *)

Bound(b) == IF b.by = "ALLOC" THEN heapPtr + 1 ELSE heapPtr

BelowHeapPtr ==
  ~wrapped => \A b \in blocks : b.lo <= b.hi /\ b.hi <= Bound(b)

LEMMA GrantApart ==
  ASSUME TypeOK, BelowHeapPtr, BlocksApart,
         NEW lo \in Nat, NEW size \in Nat, NEW who \in {"ALLOC", "syscall"},
         lo = (IF who = "ALLOC" THEN heapPtr + 1 ELSE heapPtr),
         heapPtr' = Sum(size), Grant(lo, size, who)
  PROVE  BelowHeapPtr' /\ BlocksApart'
<1> DEFINE new == [lo |-> lo, hi |-> lo + size, by |-> who]
<1>1. heapPtr \in Nat /\ Modulus \in Nat /\ blocks' = blocks \cup {new}
  BY SizesAssumption DEF TypeOK, Grant
<1>2. new.lo = lo /\ new.hi = lo + size /\ new.by = who
  OBVIOUS
<1> HIDE DEF new
<1>3. CASE wrapped'
  BY <1>3 DEF BelowHeapPtr, BlocksApart
<1>4. CASE ~wrapped'
  <2>1. ~wrapped /\ heapPtr + size < Modulus
    <3>1. ~wrapped /\ ~(heapPtr + size >= Modulus)
      BY <1>4, Zenon DEF Grant
    <3>2. QED  BY <1>1, <3>1
  <2>2. heapPtr' = heapPtr + size
    BY <1>1, <2>1 DEF Sum
  <2>3. \A b \in blocks : /\ b.lo \in Nat /\ b.hi \in Nat /\ b.lo <= b.hi
                          /\ b.by \in {"ALLOC", "syscall"}
                          /\ b.hi <= Bound(b)
    BY <2>1 DEF TypeOK, Block, BelowHeapPtr
  <2>4. BelowHeapPtr'
    <3>1. ASSUME NEW b \in blocks PROVE b.lo <= b.hi /\ b.hi <= Bound(b)'
      BY <1>1, <2>2, <2>3 DEF Bound
    <3>2. new.lo <= new.hi /\ new.hi <= Bound(new)'
      BY <1>1, <1>2, <2>2 DEF Bound
    <3>3. QED  BY <1>1, <3>1, <3>2 DEF BelowHeapPtr
  <2>5. ASSUME NEW b \in blocks
        PROVE  b.hi <= new.lo + (IF b.by = new.by THEN 0 ELSE 1)
    BY <1>1, <1>2, <2>3 DEF Bound
  <2>6. ASSUME NEW b \in blocks', NEW c \in blocks', b # c
        PROVE  Apart(b, c, IF b.by = c.by THEN 0 ELSE 1)
    <3>1. CASE b \in blocks /\ c \in blocks
      BY <2>1, <2>6, <3>1 DEF BlocksApart
    <3>2. CASE b \in blocks /\ c = new
      BY <2>5, <3>2 DEF Apart
    <3>3. CASE b = new /\ c \in blocks
      BY <2>5, <3>3 DEF Apart
    <3>4. QED  BY <1>1, <2>6, <3>1, <3>2, <3>3
  <2>7. QED  BY <2>4, <2>6 DEF BlocksApart
<1>5. QED  BY <1>3, <1>4

LEMMA NextApart ==
  TypeOK /\ BelowHeapPtr /\ BlocksApart /\ [Next]_vars
    => BelowHeapPtr' /\ BlocksApart'
<1> SUFFICES ASSUME TypeOK, BelowHeapPtr, BlocksApart, [Next]_vars
             PROVE  BelowHeapPtr' /\ BlocksApart'
  OBVIOUS
<1>1. CASE Reset
  BY <1>1 DEF Reset, BelowHeapPtr, BlocksApart
<1>2. ASSUME NEW size \in OpSizes, AllocOp(size)
      PROVE  BelowHeapPtr' /\ BlocksApart'
  <2>1. size \in Nat /\ heapPtr + 1 \in Nat
    BY SizesAssumption, OpSizesAssumption DEF TypeOK
  <2>2. heapPtr' = Sum(size) /\ Grant(heapPtr + 1, size, "ALLOC")
    BY <1>2 DEF AllocOp
  <2>3. QED  BY <2>1, <2>2, GrantApart
<1>3. ASSUME NEW size \in Requests, SysHeapAlloc(size)
      PROVE  BelowHeapPtr' /\ BlocksApart'
  <2>1. size \in Nat /\ heapPtr \in Nat
    BY SizesAssumption, RequestsAssumption DEF TypeOK
  <2>2. heapPtr' = Sum(size) /\ Grant(heapPtr, size, "syscall")
    BY <1>3 DEF SysHeapAlloc
  <2>3. QED  BY <2>1, <2>2, GrantApart
<1>4. CASE UNCHANGED <<heapPtr, blocks, wrapped>>
  BY <1>4 DEF BelowHeapPtr, BlocksApart, Bound
<1>5. QED
  BY <1>1, <1>2, <1>3, <1>4
  DEF Next, Allocate, AllocRefused, Store, StoreWord, StoreByte, PushWord, PushByte,
      PopWord, PopByte, Push, Pop, vars

(* Two granted blocks never share a byte, but for the last byte of an      *)
(* ALLOC.0 block and the first of a syscall's, unless a size wrapped.      *)
THEOREM BlocksStayApart == Spec => []BlocksApart
<1>1. Init => BelowHeapPtr /\ BlocksApart
  BY DEF Init, BelowHeapPtr, BlocksApart
<1>2. QED  BY InitType, NextType, <1>1, NextApart, PTL DEF Spec

(* ALLOC.0 answers heap_ptr only after it has stepped it. *)
AllocIsAhead == \A b \in blocks : b.by = "ALLOC" => b.lo # 0

LEMMA NextIsAhead == TypeOK /\ AllocIsAhead /\ [Next]_vars => AllocIsAhead'
<1> SUFFICES ASSUME TypeOK, AllocIsAhead, [Next]_vars PROVE AllocIsAhead'
  OBVIOUS
<1>1. CASE Reset
  BY <1>1 DEF Reset, AllocIsAhead
<1>2. ASSUME NEW size \in OpSizes, AllocOp(size) PROVE AllocIsAhead'
  <2>1. heapPtr + 1 # 0
    BY SizesAssumption DEF TypeOK
  <2>2. QED  BY <1>2, <2>1 DEF AllocOp, Grant, AllocIsAhead
<1>3. ASSUME NEW size \in Requests, SysHeapAlloc(size) PROVE AllocIsAhead'
  BY <1>3 DEF SysHeapAlloc, Grant, AllocIsAhead
<1>4. CASE UNCHANGED blocks
  BY <1>4 DEF AllocIsAhead
<1>5. CASE Store \/ PushWord \/ PopWord \/ PushByte \/ PopByte
  BY <1>4, <1>5
  DEF Store, StoreWord, StoreByte, PushWord, PushByte, PopWord, PopByte, Push, Pop
<1>6. QED
  BY <1>1, <1>2, <1>3, <1>4, <1>5 DEF Next, Allocate, AllocRefused, vars

LEMMA ZeroFromApart == TypeOK /\ BlocksApart /\ AllocIsAhead => ZeroNamesOne
<1> SUFFICES ASSUME TypeOK, BlocksApart, AllocIsAhead, ~wrapped,
                    NEW b \in blocks, b.lo = 0
             PROVE  /\ b.by = "syscall"
                    /\ \A c \in blocks : c.lo = 0 => b = c \/ b.hi = 0 \/ c.hi = 0
  BY DEF ZeroNamesOne
<1>1. \A c \in blocks : c.lo = 0 => c.by = "syscall" /\ c.hi \in Nat
  BY DEF TypeOK, Block, AllocIsAhead
<1>2. ASSUME NEW c \in blocks, c.lo = 0, b # c PROVE b.hi = 0 \/ c.hi = 0
  <2>1. Apart(b, c, 0)
    BY <1>1, <1>2 DEF BlocksApart
  <2>2. QED  BY <1>1, <1>2, <2>1 DEF Apart
<1>3. QED  BY <1>1, <1>2

(* As long as no request wraps, 0 is the address of at most one block that *)
(* is not empty, one that the syscall granted.                             *)
THEOREM ZeroNamesOneBlock == Spec => []ZeroNamesOne
<1>1. Init => BelowHeapPtr /\ BlocksApart /\ AllocIsAhead
  BY DEF Init, BelowHeapPtr, BlocksApart, AllocIsAhead
<1>2. QED
  BY InitType, NextType, <1>1, NextApart, NextIsAhead, ZeroFromApart, PTL DEF Spec

-----------------------------------------------------------------------------
(* The stack.  A store inside of a block leaves alone what is in no block. *)

LEMMA StoreKeeps ==
  ASSUME TypeOK, StackKept, NEW b \in blocks,
         NEW a \in Nat, NEW n \in Nat \ {0}, NEW w, b.lo <= a, a + n <= b.hi,
         mem' = Stored(a, w, n), kept' = kept, blocks' = blocks
  PROVE  StackKept'
<1> SUFFICES ASSUME NEW x \in DOMAIN kept
             PROVE  mem'[x] = kept[x] \/ \E c \in blocks : x \in c.lo..(c.hi - 1)
  BY DEF StackKept, Granting
<1>1. x \in Addr /\ b.lo \in Nat /\ b.hi \in Nat
  BY SizesAssumption DEF TypeOK, Addr, Block
<1>2. CASE x \in a..(a + n - 1)
  <2>1. x \in b.lo..(b.hi - 1)
    BY <1>1, <1>2
  <2> QED  BY <2>1
<1>3. CASE x \notin a..(a + n - 1)
  BY <1>1, <1>3, StoredElsewhere DEF TypeOK, StackKept, Granting
<1> QED  BY <1>2, <1>3

LEMMA PushKeeps ==
  ASSUME TypeOK, StackKept, NEW n \in Nat \ {0}, NEW w, Push(w, n)
  PROVE  StackKept'
<1> USE SizesAssumption
<1>1. /\ sp \in Nat /\ sp - n \in Nat /\ (sp - n) + n <= HeapSize
      /\ mem' = Stored(sp - n, w, n) /\ blocks' = blocks
  BY DEF TypeOK, Push
<1>2. DOMAIN kept' = (sp - n)..(StackTop - 1)
  BY DEF Push
<1>3. ASSUME NEW x \in (sp - n)..(StackTop - 1)
      PROVE  mem'[x] = kept'[x] \/ Granting(x)
  <2>1. x \in Addr
    BY <1>1 DEF Addr
  <2>2. CASE x < sp
    <3>1. x \in (sp - n)..((sp - n) + n - 1)
      BY <1>1, <2>2
    <3>2. mem'[x] = w[x - (sp - n)]
      BY <1>1, <2>1, <3>1, StoredHere
    <3>3. kept'[x] = w[x - (sp - n)]
      BY <2>2 DEF Push
    <3>4. QED  BY <3>2, <3>3
  <2>3. CASE ~(x < sp)
    <3>1. x \notin (sp - n)..((sp - n) + n - 1)
      BY <1>1, <2>3
    <3>2. mem'[x] = mem[x]
      BY <1>1, <2>1, <3>1, StoredElsewhere DEF TypeOK
    <3>3. x \in DOMAIN kept
      BY <1>1, <2>3 DEF TypeOK
    <3>4. mem[x] = kept[x] \/ Granting(x)
      BY <3>3 DEF StackKept
    <3>5. kept'[x] = kept[x]
      BY <2>3 DEF Push
    <3>6. QED  BY <3>2, <3>4, <3>5
  <2>4. QED  BY <2>2, <2>3
<1>4. QED  BY <1>1, <1>2, <1>3 DEF StackKept, Granting

LEMMA PopKeeps ==
  ASSUME TypeOK, StackKept, NEW n \in Nat, Pop(n)
  PROVE  StackKept'
<1>1. \A x \in (sp + n)..(StackTop - 1) : x \in DOMAIN kept
  BY SizesAssumption DEF TypeOK
<1>2. QED  BY <1>1 DEF StackKept, Granting, Pop

LEMMA NextKeeps == TypeOK /\ StackKept /\ [Next]_vars => StackKept'
<1> SUFFICES ASSUME TypeOK, StackKept, [Next]_vars PROVE StackKept'
  OBVIOUS
<1>1. CASE Reset
  BY <1>1, SizesAssumption DEF Reset, StackKept
<1>2. CASE Allocate \/ UNCHANGED vars
  BY <1>2 DEF Allocate, AllocOp, SysHeapAlloc, AllocRefused, Grant, vars, StackKept, Granting
<1>3. CASE Store
  <2>1. PICK b \in blocks :
           \/ \E a \in b.lo..(b.hi - WordBytes), w \in Word : StoreWord(b, a, w)
           \/ \E a \in b.lo..(b.hi - 1), v \in Byte : StoreByte(b, a, v)
    BY <1>3 DEF Store
  <2>2. b.lo \in Nat /\ b.hi \in Nat
    BY DEF TypeOK, Block
  <2>3. ASSUME NEW a \in b.lo..(b.hi - WordBytes), NEW w \in Word, StoreWord(b, a, w)
        PROVE  StackKept'
    <3>1. a \in Nat /\ WordBytes \in Nat \ {0} /\ b.lo <= a /\ a + WordBytes <= b.hi
      BY <2>2, SizesAssumption
    <3>2. QED  BY <2>3, <3>1, StoreKeeps DEF StoreWord
  <2>4. ASSUME NEW a \in b.lo..(b.hi - 1), NEW v \in Byte, StoreByte(b, a, v)
        PROVE  StackKept'
    <3>1. a \in Nat /\ 1 \in Nat \ {0} /\ b.lo <= a /\ a + 1 <= b.hi
      BY <2>2
    <3>2. QED  BY <2>4, <3>1, StoreKeeps DEF StoreByte
  <2>5. QED  BY <2>1, <2>3, <2>4
<1>4. CASE PushWord
  BY <1>4, PushKeeps, SizesAssumption DEF PushWord
<1>5. CASE PushByte
  <2>1. 1 \in Nat \ {0}
    OBVIOUS
  <2>2. QED  BY <1>5, <2>1, PushKeeps DEF PushByte
<1>6. CASE PopWord \/ PopByte
  BY <1>6, PopKeeps, SizesAssumption DEF PopWord, PopByte
<1>7. QED  BY <1>1, <1>2, <1>3, <1>4, <1>5, <1>6 DEF Next

(* The stack holds what was pushed, but for bytes of granted blocks.       *)
THEOREM StackIsKept == Spec => []StackKept
<1>1. Init => StackKept
  BY SizesAssumption DEF Init, StackKept
<1>2. QED  BY InitType, NextType, <1>1, NextKeeps, PTL DEF Spec

-----------------------------------------------------------------------------
(* The registers saved: what was saved last is a frame that ends at SP;    *)
(* each frame ends where the next begins, and lies in memory as its push   *)
(* stored it.                                                              *)

Size(e)   == IF e.what = "all" THEN NumRegs ELSE 1
Bottom(e) == e.regs[SP] - Size(e)

Fits(e) == Bottom(e) \in Nat /\ e.regs[SP] <= StackWords

Lies(e, m) ==
  /\ e.what = "all" =>
       \A r \in R!Regs : m[e.regs[SP] - 1 - r]
                         = IF r = SP THEN e.regs[SP] - (SP + 1) ELSE e.regs[r]
  /\ e.what = "one" =>
       m[e.regs[SP] - 1] = IF e.reg = SP THEN e.regs[SP] - 1 ELSE e.regs[e.reg]

Chained(s, at) ==
  /\ \A k \in DOMAIN s : k + 1 \in DOMAIN s => Bottom(s[k]) = s[k + 1].regs[SP]
  /\ \A j, k \in DOMAIN s : j < k => Bottom(s[j]) >= s[k].regs[SP]
  /\ s # << >> => Bottom(s[Len(s)]) = at

Framed(s, m) == \A k \in DOMAIN s : Fits(s[k]) /\ Lies(s[k], m)

RegistersInv == R!TypeOK /\ Chained(saved, regs[SP]) /\ Framed(saved, words)

-----------------------------------------------------------------------------
LEMMA RegistersConstants ==
  /\ NumRegs \in Nat /\ NumRegs >= 1 /\ SP \in R!Regs /\ SP \in Nat /\ SP < NumRegs
  /\ StackWords \in Nat /\ R!Regs \subseteq Nat
  BY SavingAssumption DEF R!SavingAssumption, R!Regs

LEMMA EntryTypes ==
  ASSUME NEW e \in R!Entry
  PROVE  /\ e.what = "all" \/ e.what = "one"
         /\ e.reg \in R!Regs /\ e.regs \in [R!Regs -> Nat] /\ e.regs[SP] \in Nat
         /\ Size(e) \in 1..NumRegs /\ Bottom(e) \in Int /\ Bottom(e) < e.regs[SP]
  BY RegistersConstants DEF R!Entry, Size, Bottom

(* Frames that a push leaves below: it stores under SP, they end at SP or  *)
(* above.                                                                  *)
LEMMA AboveTop ==
  ASSUME NEW s \in Seq(R!Entry), NEW at \in Nat, Chained(s, at), NEW k \in DOMAIN s
  PROVE  Bottom(s[k]) >= at
<1>1. DOMAIN s = 1..Len(s) /\ Len(s) \in Nat /\ s # << >>
  BY LenProperties
<1>2. s[k] \in R!Entry /\ s[Len(s)] \in R!Entry
  BY <1>1, ElementOfSeq
<1>3. k < Len(s) => Bottom(s[k]) >= s[Len(s)].regs[SP]
  BY <1>1 DEF Chained
<1>4. Bottom(s[Len(s)]) = at
  BY <1>1 DEF Chained
<1>5. QED  BY <1>1, <1>2, <1>3, <1>4, EntryTypes

(* A push of a frame e that lies in m2, where everything from SP on is as  *)
(* in m.                                                                   *)
LEMMA PushChains ==
  ASSUME NEW s \in Seq(R!Entry), NEW at \in Nat, NEW m, NEW m2, NEW e \in R!Entry,
         Chained(s, at), Framed(s, m),
         e.regs[SP] = at, Fits(e), Lies(e, m2),
         \A a \in R!Addr : a >= at => m2[a] = m[a]
  PROVE  Chained(Append(s, e), Bottom(e)) /\ Framed(Append(s, e), m2)
<1> DEFINE t == Append(s, e)
           n == Len(s)
<1>1. /\ n \in Nat /\ Len(t) = n + 1 /\ t # << >>
      /\ DOMAIN s = 1..n /\ DOMAIN t = 1..(n + 1)
      /\ \A k \in 1..n : t[k] = s[k]
      /\ t[n + 1] = e
  BY AppendElements
<1>2. \A k \in 1..n : s[k] \in R!Entry /\ Bottom(s[k]) >= at
  BY <1>1, AboveTop, ElementOfSeq
<1>3. n > 0 => Bottom(s[n]) = at
  BY <1>1, EmptySeq DEF Chained
<1> HIDE DEF t, n
<1>4. Chained(t, Bottom(e))
  <2>1. \A k \in DOMAIN t : k + 1 \in DOMAIN t => Bottom(t[k]) = t[k + 1].regs[SP]
    BY <1>1, <1>3 DEF Chained
  <2>2. \A j, k \in DOMAIN t : j < k => Bottom(t[j]) >= t[k].regs[SP]
    BY <1>1, <1>2 DEF Chained
  <2>3. QED  BY <2>1, <2>2, <1>1 DEF Chained
<1>5. \A k \in 1..n : Fits(s[k]) /\ Lies(s[k], m2)
  <2> SUFFICES ASSUME NEW k \in 1..n  PROVE Fits(s[k]) /\ Lies(s[k], m2)
    OBVIOUS
  <2> DEFINE f == s[k]
  <2>1. f \in R!Entry /\ Fits(f) /\ Lies(f, m) /\ Bottom(f) >= at
    BY <1>1, <1>2 DEF Framed
  <2> HIDE DEF f
  <2>2. \A a \in Nat : Bottom(f) <= a /\ a < f.regs[SP] => m2[a] = m[a]
    BY <2>1, EntryTypes, RegistersConstants DEF Fits, R!Addr
  <2>3. f.what = "one" => m2[f.regs[SP] - 1] = m[f.regs[SP] - 1]
    BY <2>1, <2>2, EntryTypes DEF Bottom, Size, Fits
  <2>4. f.what = "all" =>
          \A r \in R!Regs : m2[f.regs[SP] - 1 - r] = m[f.regs[SP] - 1 - r]
    <3> SUFFICES ASSUME f.what = "all", NEW r \in R!Regs
                 PROVE  m2[f.regs[SP] - 1 - r] = m[f.regs[SP] - 1 - r]
      OBVIOUS
    <3>1. f.regs[SP] \in Nat /\ Bottom(f) = f.regs[SP] - NumRegs /\ Bottom(f) \in Nat
      BY <2>1, EntryTypes DEF Bottom, Size, Fits
    <3>2. r \in Nat /\ r < NumRegs
      BY RegistersConstants DEF R!Regs
    <3> DEFINE a == f.regs[SP] - 1 - r
    <3>3. a \in Nat /\ Bottom(f) <= a /\ a < f.regs[SP]
      <4>1. ASSUME NEW end \in Nat, NEW bottom \in Nat, bottom = end - NumRegs
            PROVE  end - 1 - r \in Nat /\ bottom <= end - 1 - r /\ end - 1 - r < end
        BY <3>2, <4>1, RegistersConstants
      <4> QED  BY <3>1, <4>1
    <3> HIDE DEF a
    <3>4. m2[a] = m[a]
      BY <2>2, <3>3
    <3>5. QED  BY <3>4 DEF a
  <2>5. QED  BY <2>1, <2>3, <2>4 DEF Lies, f
<1>6. Framed(t, m2)
  BY <1>1, <1>5 DEF Framed
<1>7. QED  BY <1>4, <1>6 DEF t

(* A pop of the last frame. *)
LEMMA PopChains ==
  ASSUME NEW s \in Seq(R!Entry), s # << >>, NEW at \in Nat, NEW m,
         Chained(s, at), Framed(s, m)
  PROVE  LET front == SubSeq(s, 1, Len(s) - 1)
         IN  Chained(front, s[Len(s)].regs[SP]) /\ Framed(front, m)
<1> DEFINE n == Len(s)
           t == SubSeq(s, 1, n - 1)
<1>1. /\ Len(t) = n - 1 /\ n \in Nat \ {0}
      /\ DOMAIN s = 1..n /\ DOMAIN t = 1..(n - 1)
      /\ \A k \in 1..(n - 1) : t[k] = s[k]
  BY FrontElements
<1>2. Len(t) = n - 1 /\ (t # << >> => n > 1)
  BY FrontElements
<1> HIDE DEF t, n
<1>3. \A k \in DOMAIN t : k + 1 \in DOMAIN t => Bottom(t[k]) = t[k + 1].regs[SP]
  BY <1>1 DEF Chained
<1>4. \A j, k \in DOMAIN t : j < k => Bottom(t[j]) >= t[k].regs[SP]
  BY <1>1 DEF Chained
<1>5. t # << >> => Bottom(t[Len(t)]) = s[n].regs[SP]
  <2> SUFFICES ASSUME t # << >>  PROVE Bottom(t[n - 1]) = s[n].regs[SP]
    BY <1>1
  <2>1. n - 1 \in 1..n /\ n - 1 \in 1..(n - 1) /\ (n - 1) + 1 = n /\ n \in 1..n
    BY <1>1, <1>2
  <2>2. Bottom(s[n - 1]) = s[n].regs[SP]
    BY <1>1, <2>1 DEF Chained
  <2> QED  BY <1>1, <2>1, <2>2
<1>6. Framed(t, m)
  BY <1>1 DEF Framed
<1>7. QED  BY <1>3, <1>4, <1>5, <1>6 DEF Chained, t, n

-----------------------------------------------------------------------------
LEMMA InitRegisters == R!Init => RegistersInv
<1> SUFFICES ASSUME R!Init  PROVE RegistersInv
  OBVIOUS
<1>1. R!TypeOK
  BY RegistersConstants DEF R!Init, R!TypeOK, R!Addr
<1>2. DOMAIN saved = {}
  BY DEF R!Init
<1>3. QED  BY <1>1, <1>2 DEF RegistersInv, Chained, Framed, R!Init

(* What Inv says of the frame saved last. *)
LEMMA TopFrame ==
  ASSUME RegistersInv, saved # << >>
  PROVE  /\ R!Top \in R!Entry /\ Fits(R!Top) /\ Lies(R!Top, words) /\ Bottom(R!Top) = regs[SP]
         /\ Len(saved) \in DOMAIN saved
<1>1. Len(saved) \in DOMAIN saved /\ R!Top \in R!Entry
  BY FrontElements DEF RegistersInv, R!TypeOK, R!Top
<1>2. QED  BY <1>1 DEF RegistersInv, Chained, Framed, R!Top

(* POPA gives back every register, SP saved in the middle of the others.   *)
LEMMA PopAllRestores ==
  ASSUME RegistersInv, R!PopAll
  PROVE  regs' = R!Top.regs
<1> DEFINE base == R!Top.regs[SP]
<1>1. /\ R!Top \in R!Entry /\ R!Top.regs \in [R!Regs -> Nat] /\ base \in Nat
      /\ Bottom(R!Top) = base - NumRegs /\ Bottom(R!Top) = regs[SP] /\ regs[SP] \in Nat
      /\ base <= StackWords
  BY TopFrame, EntryTypes DEF R!PopAll, Bottom, Size, Fits
<1>2. \A r \in R!Regs : /\ base - 1 - r \in R!Addr
                        /\ R!Load(base - 1 - r) = IF r = SP THEN base - (SP + 1) ELSE R!Top.regs[r]
  <2> SUFFICES ASSUME NEW r \in R!Regs
               PROVE  /\ base - 1 - r \in R!Addr
                      /\ R!Load(base - 1 - r) = IF r = SP THEN base - (SP + 1) ELSE R!Top.regs[r]
    OBVIOUS
  <2>1. r \in Nat /\ r < NumRegs
    BY RegistersConstants DEF R!Regs
  <2>2. base - 1 - r \in R!Addr
    BY <1>1, <2>1, RegistersConstants DEF R!Addr
  <2>3. words[base - 1 - r] = IF r = SP THEN base - (SP + 1) ELSE R!Top.regs[r]
    BY TopFrame DEF Lies, R!PopAll
  <2>4. QED  BY <2>2, <2>3 DEF R!Load
<1>3. regs' = [r \in R!Regs |->
        LET above == [q \in R!Regs |-> R!Load(regs[SP] + NumRegs - 1 - q)]
            at    == above[SP] + 1
        IN  IF r > SP THEN above[r] ELSE IF r = SP THEN at + SP ELSE R!Load(at + SP - 1 - r)]
  BY Zenon DEF R!PopAll
<1>4. regs[SP] + NumRegs = base
  BY <1>1, RegistersConstants
<1>5. \A q \in R!Regs : regs[SP] + NumRegs - 1 - q = base - 1 - q
  BY <1>1, <1>4, RegistersConstants
<1>6. R!Load(regs[SP] + NumRegs - 1 - SP) = base - (SP + 1)
  BY <1>1, <1>2, <1>5, RegistersConstants
<1>7. \A r \in R!Regs : regs'[r] = R!Top.regs[r]
  <2> SUFFICES ASSUME NEW r \in R!Regs  PROVE regs'[r] = R!Top.regs[r]
    OBVIOUS
  <2> DEFINE at == R!Load(regs[SP] + NumRegs - 1 - SP) + 1
  <2>1. regs'[r] = IF r > SP THEN R!Load(regs[SP] + NumRegs - 1 - r)
                   ELSE IF r = SP THEN at + SP ELSE R!Load(at + SP - 1 - r)
    BY <1>3, RegistersConstants
  <2>2. at + SP = base /\ at + SP - 1 - r = base - 1 - r
    BY <1>1, <1>6, RegistersConstants
  <2>3. r # SP => R!Load(base - 1 - r) = R!Top.regs[r]
    BY <1>2
  <2> HIDE DEF at
  <2>4. regs'[r] = IF r > SP THEN R!Load(base - 1 - r)
                   ELSE IF r = SP THEN base ELSE R!Load(base - 1 - r)
    BY <1>5, <2>1, <2>2
  <2>5. r > SP => r # SP
    BY RegistersConstants
  <2>6. QED  BY <2>3, <2>4, <2>5
<1>8. regs' = [r \in R!Regs |-> regs'[r]]
  BY <1>3
<1>9. R!Top.regs = [r \in R!Regs |-> R!Top.regs[r]]
  BY <1>1
<1>10. QED  BY <1>7, <1>8, <1>9

(* POP gives back what the PUSH stored, and SP as it was.                  *)
LEMMA PopRestores ==
  ASSUME RegistersInv, NEW r \in R!Regs, R!Pop(r)
  PROVE  /\ R!Top.what = "one" /\ regs' \in [R!Regs -> Nat] /\ regs'[SP] = R!Top.regs[SP]
         /\ regs'[r] = R!Top.regs[R!Top.reg]
         /\ \A q \in R!Regs \ {r, SP} : regs'[q] = regs[q]
<1> DEFINE base == R!Top.regs[SP]
<1>1. /\ R!Top \in R!Entry /\ R!Top.what = "one" /\ R!Top.reg \in R!Regs
      /\ R!Top.regs \in [R!Regs -> Nat] /\ base \in Nat
      /\ regs[SP] = base - 1 /\ regs[SP] \in Nat /\ base <= StackWords
      /\ R!Top.reg = SP <=> r = SP
      /\ regs \in [R!Regs -> Nat] /\ SP \in R!Regs
  BY TopFrame, EntryTypes, RegistersConstants DEF R!Pop, Bottom, Size, Fits, RegistersInv, R!TypeOK
<1>2. regs[SP] \in R!Addr
  BY <1>1, RegistersConstants DEF R!Addr
<1>3. R!Load(regs[SP]) = IF R!Top.reg = SP THEN base - 1 ELSE R!Top.regs[R!Top.reg]
  BY <1>1, <1>2, TopFrame DEF R!Load, Lies, R!Pop
<1> HIDE DEF base
<1>4. CASE r = SP
  <2>1. regs' = [regs EXCEPT ![SP] = R!Load(regs[SP]) + 1]
    BY <1>4 DEF R!Pop
  <2>2. R!Load(regs[SP]) + 1 = base
    BY <1>1, <1>3, <1>4
  <2>3. regs' \in [R!Regs -> Nat] /\ regs'[SP] = base
    BY <1>1, <2>1, <2>2
  <2>4. \A q \in R!Regs \ {r, SP} : regs'[q] = regs[q]
    BY <1>1, <2>1
  <2>5. QED  BY <1>1, <1>4, <2>3, <2>4 DEF base
<1>5. CASE r # SP
  <2>1. regs' = [regs EXCEPT ![r] = R!Load(regs[SP]), ![SP] = regs[SP] + 1]
    BY <1>1, <1>5 DEF R!Pop
  <2>2. R!Load(regs[SP]) = R!Top.regs[R!Top.reg] /\ R!Load(regs[SP]) \in Nat
    BY <1>1, <1>3, <1>5
  <2>3. regs[SP] + 1 = base
    BY <1>1
  <2>4. /\ regs' \in [R!Regs -> Nat] /\ regs'[SP] = base /\ regs'[r] = R!Load(regs[SP])
        /\ \A q \in R!Regs \ {r, SP} : regs'[q] = regs[q]
    BY <1>1, <1>5, <2>1, <2>2, <2>3
  <2>5. QED  BY <1>1, <2>2, <2>4 DEF base
<1>6. QED  BY <1>4, <1>5

-----------------------------------------------------------------------------
(* Inv is inductive. *)

LEMMA PushFrame ==
  ASSUME RegistersInv, NEW e \in R!Entry, e.regs = regs, Fits(e), Lies(e, words'),
         saved' = Append(saved, e),
         words' \in [R!Addr -> Nat], \A a \in R!Addr : a >= regs[SP] => words'[a] = words[a],
         regs' \in [R!Regs -> Nat], regs'[SP] = Bottom(e)
  PROVE  RegistersInv'
<1>1. regs[SP] \in Nat /\ regs[SP] <= StackWords
  BY RegistersConstants DEF RegistersInv, R!TypeOK
<1>2. Chained(saved', regs'[SP]) /\ Framed(saved', words')
  BY <1>1, PushChains DEF RegistersInv, R!TypeOK
<1>3. saved' \in Seq(R!Entry)
  BY AppendElements DEF RegistersInv, R!TypeOK
<1>4. regs'[SP] <= StackWords
  BY <1>1, EntryTypes, RegistersConstants
<1>5. QED  BY <1>2, <1>3, <1>4 DEF RegistersInv, R!TypeOK

LEMMA PopFrame ==
  ASSUME RegistersInv, saved # << >>, R!Forget, words' = words,
         regs' \in [R!Regs -> Nat], regs'[SP] = R!Top.regs[SP]
  PROVE  RegistersInv'
<1>1. saved' \in Seq(R!Entry)
  BY FrontElements DEF RegistersInv, R!TypeOK, R!Forget
<1>2. Chained(saved', regs'[SP]) /\ Framed(saved', words')
  <2>1. regs[SP] \in Nat
    BY RegistersConstants DEF RegistersInv, R!TypeOK
  <2>2. QED  BY <2>1, PopChains DEF RegistersInv, R!TypeOK, R!Forget, R!Top
<1>3. regs'[SP] <= StackWords
  BY TopFrame DEF Fits
<1>4. QED  BY <1>1, <1>2, <1>3 DEF RegistersInv, R!TypeOK

LEMMA PushAllInv == RegistersInv /\ R!PushAll => RegistersInv'
<1> SUFFICES ASSUME RegistersInv, R!PushAll  PROVE RegistersInv'
  OBVIOUS
<1> DEFINE e == [what |-> "all", reg |-> SP, regs |-> regs]
           at == regs[SP]
<1>1. /\ at \in Nat /\ at >= NumRegs /\ at <= StackWords
      /\ regs \in [R!Regs -> Nat] /\ words \in [R!Addr -> Nat]
  BY RegistersConstants DEF R!PushAll, RegistersInv, R!TypeOK
<1>2. e \in R!Entry /\ e.regs = regs /\ e.what = "all" /\ saved' = Append(saved, e)
  BY <1>1, RegistersConstants DEF R!Entry, R!PushAll, R!Remember
<1>3. Bottom(e) = at - NumRegs /\ Fits(e)
  BY <1>1, <1>2, RegistersConstants DEF Bottom, Size, Fits
<1>4. /\ regs' \in [R!Regs -> Nat] /\ regs'[SP] = Bottom(e)
  BY <1>1, <1>3, RegistersConstants DEF R!PushAll
<1>5. \A r \in R!Regs : R!Saved(r) \in Nat /\ R!Saved(r) = IF r = SP THEN at - (SP + 1) ELSE regs[r]
  BY <1>1, RegistersConstants DEF R!Saved
<1>6. words' = [a \in R!Addr |-> IF a \in (at - NumRegs)..(at - 1)
                                 THEN R!Saved(at - 1 - a) ELSE words[a]]
  BY DEF R!PushAll
<1> HIDE DEF at
<1>7. \A a \in R!Addr : a \in (at - NumRegs)..(at - 1) => at - 1 - a \in R!Regs
  BY <1>1, RegistersConstants DEF R!Addr, R!Regs
<1>8. words' \in [R!Addr -> Nat]
  BY <1>1, <1>5, <1>6, <1>7
<1>9. \A r \in R!Regs : words'[at - 1 - r] = R!Saved(r)
  <2> SUFFICES ASSUME NEW r \in R!Regs  PROVE words'[at - 1 - r] = R!Saved(r)
    OBVIOUS
  <2> DEFINE a == at - 1 - r
  <2>1. r \in Nat /\ r < NumRegs
    BY RegistersConstants DEF R!Regs
  <2>2. a \in R!Addr /\ a \in (at - NumRegs)..(at - 1) /\ at - 1 - a = r
    BY <1>1, <2>1, RegistersConstants DEF R!Addr
  <2> HIDE DEF a
  <2>3. words'[a] = R!Saved(r)
    BY <1>6, <2>2
  <2>4. QED  BY <2>3 DEF a
<1>10. Lies(e, words')
  BY <1>2, <1>5, <1>9 DEF Lies, at
<1>11. \A a \in R!Addr : a >= at => words'[a] = words[a]
  BY <1>1, <1>6, RegistersConstants DEF R!Addr
<1> HIDE DEF e
<1>12. QED  BY <1>2, <1>3, <1>4, <1>8, <1>10, <1>11, PushFrame DEF at

LEMMA PushInv ==
  ASSUME RegistersInv, NEW r \in R!Regs, R!Push(r)
  PROVE  RegistersInv'
<1> DEFINE e == [what |-> "one", reg |-> r, regs |-> regs]
           at == regs[SP]
<1>1. /\ at \in Nat /\ at >= 1 /\ at <= StackWords
      /\ regs \in [R!Regs -> Nat] /\ words \in [R!Addr -> Nat]
  BY RegistersConstants DEF R!Push, RegistersInv, R!TypeOK
<1>2. e \in R!Entry /\ e.regs = regs /\ e.what = "one" /\ e.reg = r /\ saved' = Append(saved, e)
  BY <1>1 DEF R!Entry, R!Push, R!Remember
<1>3. Bottom(e) = at - 1 /\ Fits(e)
  BY <1>1, <1>2 DEF Bottom, Size, Fits
<1>4. regs' \in [R!Regs -> Nat] /\ regs'[SP] = Bottom(e)
  BY <1>1, <1>3, RegistersConstants DEF R!Push
<1>5. words' = [words EXCEPT ![at - 1] = IF r = SP THEN at - 1 ELSE regs[r]]
  BY DEF R!Push
<1>6. at - 1 \in R!Addr /\ at - 1 \in Nat
  BY <1>1, RegistersConstants DEF R!Addr
<1> HIDE DEF at
<1>7. words' \in [R!Addr -> Nat] /\ words'[at - 1] = IF r = SP THEN at - 1 ELSE regs[r]
  BY <1>1, <1>5, <1>6
<1>8. Lies(e, words')
  BY <1>2, <1>7 DEF Lies, at
<1>9. \A a \in R!Addr : a >= at => words'[a] = words[a]
  BY <1>1, <1>5, <1>6, RegistersConstants DEF R!Addr
<1> HIDE DEF e
<1>10. QED  BY <1>2, <1>3, <1>4, <1>7, <1>8, <1>9, PushFrame DEF at

LEMMA NextRegisters == RegistersInv /\ [R!Next]_(R!vars) => RegistersInv'
<1> SUFFICES ASSUME RegistersInv, [R!Next]_(R!vars)  PROVE RegistersInv'
  OBVIOUS
<1>1. CASE R!PushAll
  BY <1>1, PushAllInv
<1>2. CASE R!PopAll
  <2>1. regs' = R!Top.regs /\ R!Top.regs \in [R!Regs -> Nat]
    BY <1>2, PopAllRestores, TopFrame, EntryTypes DEF R!PopAll
  <2>2. QED  BY <1>2, <2>1, PopFrame DEF R!PopAll
<1>3. CASE \E r \in R!Regs : R!Push(r)
  BY <1>3, PushInv
<1>4. CASE \E r \in R!Regs : R!Pop(r)
  <2>1. PICK r \in R!Regs : R!Pop(r)
    BY <1>4
  <2>2. QED  BY <2>1, PopRestores, PopFrame DEF R!Pop
<1>5. CASE \E r \in R!Regs, v \in Values : R!Write(r, v)
  <2>1. PICK r \in R!Regs, v \in Values : R!Write(r, v)
    BY <1>5
  <2>2. regs' \in [R!Regs -> Nat] /\ regs'[SP] = regs[SP]
    BY <2>1, RegistersConstants, SavingAssumption
    DEF R!SavingAssumption, R!Write, RegistersInv, R!TypeOK
  <2>3. QED  BY <2>1, <2>2 DEF R!Write, RegistersInv, R!TypeOK
<1>6. CASE UNCHANGED R!vars
  BY <1>6 DEF R!vars, RegistersInv, R!TypeOK
<1>7. QED  BY <1>1, <1>2, <1>3, <1>4, <1>5, <1>6 DEF R!Next

-----------------------------------------------------------------------------
(* Registers stay numbers and SP stays in the stack, for any host program  *)
(* that pops what it pushed.                                               *)
THEOREM RegistersTyped == R!Spec => []R!TypeOK
<1>1. RegistersInv => R!TypeOK
  BY DEF RegistersInv
<1>2. QED  BY <1>1, InitRegisters, NextRegisters, PTL DEF R!Spec

GivesBack ==
  Len(saved') < Len(saved) =>
    \/ R!Top.what = "all" /\ regs' = R!Top.regs
    \/ /\ R!Top.what = "one" /\ regs'[SP] = R!Top.regs[SP]
       /\ \E r \in R!Regs : /\ regs'[r] = R!Top.regs[R!Top.reg]
                            /\ \A q \in R!Regs \ {r, SP} : regs'[q] = regs[q]

(* A step that takes from the stack gives back what was saved: only POPA   *)
(* and POP do.                                                             *)
LEMMA StepGivesBack == RegistersInv /\ [R!Next]_(R!vars) => [GivesBack]_(R!vars)
<1> SUFFICES ASSUME RegistersInv, R!Next, Len(saved') < Len(saved)
             PROVE  GivesBack
  BY DEF GivesBack
<1>1. ASSUME NEW what \in {"all", "one"}, NEW r \in R!Regs, R!Remember(what, r)
      PROVE  FALSE
  <2>1. [what |-> what, reg |-> r, regs |-> regs] \in R!Entry
    BY DEF RegistersInv, R!TypeOK, R!Entry
  <2>2. Len(saved') = Len(saved) + 1 /\ Len(saved) \in Nat
    BY <1>1, <2>1, AppendElements DEF R!Remember, RegistersInv, R!TypeOK
  <2>3. QED  BY <2>2
<1>2. CASE R!PushAll
  BY <1>1, <1>2, RegistersConstants DEF R!PushAll
<1>3. CASE \E r \in R!Regs : R!Push(r)
  BY <1>1, <1>3 DEF R!Push
<1>4. CASE R!PopAll
  BY <1>4, PopAllRestores DEF GivesBack, R!PopAll
<1>5. CASE \E r \in R!Regs : R!Pop(r)
  BY <1>5, PopRestores DEF GivesBack
<1>6. CASE \E r \in R!Regs, v \in Values : R!Write(r, v)
  <2>1. saved' = saved /\ Len(saved) \in Nat
    BY <1>6, LenProperties DEF R!Write, RegistersInv, R!TypeOK
  <2>2. QED  BY <2>1
<1>7. QED  BY <1>2, <1>3, <1>4, <1>5, <1>6 DEF R!Next

(* Whatever is pushed and popped in between, PUSHA and POPA, PUSH and POP  *)
(* give the registers back, for every register file and every SP in it.    *)
THEOREM SavedIsRestored == R!Spec => Restored
<1>1. R!Spec => [][GivesBack]_(R!vars)
  BY InitRegisters, NextRegisters, StepGivesBack, PTL DEF R!Spec
<1>2. R!Restored <=> [][GivesBack]_(R!vars)
  BY DEF R!Restored, GivesBack
<1>3. QED  BY <1>1, <1>2 DEF Restored

-----------------------------------------------------------------------------
(* The file handles.                                                       *)

(* What no VM has been given yet: FILEs above opens are in no slot and at  *)
(* their start.                                                            *)
UnusedFiles ==
  /\ \A i \in F!Slots : table[i] # None => table[i] <= opens
  /\ \A f \in F!File : f > opens => position[f] = 0

FilesInv == F!TypeOK /\ F!OpenIsListed /\ F!HandlesKept /\ UnusedFiles

-----------------------------------------------------------------------------
(* alloc_fd finds a free entry if there is one. *)
LEMMA FirstIsFree ==
  ASSUME NEW S \in SUBSET Nat, S # {}
  PROVE  F!First(S) \in S
<1>1. \E i \in S : \A j \in S : i <= j
  BY LeastExists
<1>2. QED  BY <1>1 DEF F!First

LEMMA FileNumbers ==
  /\ F!Slots \subseteq Nat /\ F!File \subseteq Nat
  /\ None \notin F!File /\ None \notin F!Slots
  /\ MaxOpens \in Nat /\ 0 \in Positions
  BY HandlesAssumption DEF F!HandlesAssumption, F!Slots, F!File

-----------------------------------------------------------------------------
LEMMA InitFiles == F!Init => FilesInv
  BY FileNumbers
  DEF F!Init, FilesInv, F!TypeOK, F!OpenIsListed, F!HandlesKept, UnusedFiles, F!Handle

LEMMA OpenInv ==
  ASSUME FilesInv, NEW vm \in VMs, F!Open(vm)
  PROVE  FilesInv'
<1> DEFINE i == F!First(F!Free)
           n == opens + 1
           h == [fd |-> i, file |-> n, at |-> 0]
<1>1. i \in F!Slots /\ table[i] = None
  BY FirstIsFree, FileNumbers DEF FilesInv, F!Open, F!Free
<1>2. n \in F!File /\ n \in Nat /\ opens \in Nat /\ opens < MaxOpens
  BY FileNumbers DEF F!Open, FilesInv, F!TypeOK, F!File
<1>3. h \in F!Handle
  BY <1>1, <1>2, FileNumbers DEF FilesInv, F!Handle
<1> HIDE DEF i
<1>4. /\ table' = [table EXCEPT ![i] = n] /\ opens' = n
      /\ open' = open \cup {n} /\ position' = position
      /\ held' = [held EXCEPT ![vm] = @ \cup {h}]
  BY DEF F!Open, i
<1> HIDE DEF n, h
<1>5. F!TypeOK'
  BY <1>1, <1>2, <1>3, <1>4, FileNumbers DEF FilesInv, F!TypeOK, n
<1>6. n > opens /\ \A j \in F!Slots : table[j] # n
  BY <1>2, FileNumbers DEF n, FilesInv, UnusedFiles, F!TypeOK
<1>7. F!OpenIsListed'
  <2>1. \A j \in F!Slots : table'[j] = IF j = i THEN n ELSE table[j]
    BY <1>1, <1>4 DEF FilesInv, F!TypeOK
  <2>2. \A j, k \in F!Slots : table'[j] = table'[k] /\ table'[j] # None => j = k
    BY <2>1, <1>6 DEF FilesInv, F!OpenIsListed
  <2>3. {table'[j] : j \in F!Slots} = {table[j] : j \in F!Slots \ {i}} \cup {n}
    BY <2>1, <1>1
  <2>4. {table[j] : j \in F!Slots \ {i}} \ {None} = {table[j] : j \in F!Slots} \ {None}
    BY <1>1
  <2>5. open = {table[j] : j \in F!Slots} \ {None} /\ n # None
    BY <1>2, FileNumbers DEF FilesInv, F!OpenIsListed
  <2>6. QED  BY <2>2, <2>3, <2>4, <2>5, <1>4 DEF F!OpenIsListed
<1>8. F!HandlesKept'
  <2>1. \A v \in VMs : \A g \in held'[v] : g \in held[v] \/ (v = vm /\ g = h)
    BY <1>4 DEF FilesInv, F!TypeOK
  <2>2. \A v \in VMs : \A g \in held[v] :
          /\ g \in F!Handle /\ g.fd # i
          /\ table'[g.fd] = g.file /\ position'[g.file] = g.at
    BY <1>1, <1>4, FileNumbers DEF FilesInv, F!TypeOK, F!HandlesKept, F!Handle
  <2>3. h.fd = i /\ h.file = n /\ table'[i] = n /\ position'[n] = 0 /\ h.at = 0
    BY <1>1, <1>2, <1>4, <1>6 DEF h, FilesInv, F!TypeOK, UnusedFiles
  <2>4. QED  BY <2>1, <2>2, <2>3 DEF FilesInv, F!HandlesKept
<1>9. UnusedFiles'
  BY <1>1, <1>2, <1>4, <1>6, FileNumbers DEF FilesInv, F!TypeOK, UnusedFiles, n, F!File
<1>10. QED  BY <1>5, <1>7, <1>8, <1>9 DEF FilesInv

LEMMA OpenWithoutRoomInv ==
  ASSUME FilesInv, NEW vm \in VMs, F!OpenWithoutRoom(vm)
  PROVE  FilesInv'
<1>1. opens' = opens + 1 /\ opens \in Nat /\ opens' \in 0..MaxOpens
  BY FileNumbers DEF F!OpenWithoutRoom, FilesInv, F!TypeOK
<1>2. UNCHANGED <<table, open, position, held>>
  BY DEF F!OpenWithoutRoom
<1>3. UnusedFiles'
  <2>1. \A i \in F!Slots : table[i] # None => table[i] \in Nat /\ table[i] <= opens
    BY FileNumbers DEF FilesInv, F!TypeOK, UnusedFiles
  <2>2. \A f \in F!File : f \in Nat /\ (f > opens => position[f] = 0)
    BY FileNumbers DEF FilesInv, UnusedFiles
  <2>3. QED  BY <1>1, <1>2, <2>1, <2>2 DEF UnusedFiles
<1>4. QED  BY <1>1, <1>2, <1>3 DEF FilesInv, F!TypeOK, F!OpenIsListed, F!HandlesKept

LEMMA EndInv ==
  ASSUME FilesInv, NEW vm \in VMs, F!End(vm)
  PROVE  FilesInv'
  BY DEF F!End, FilesInv, F!TypeOK, F!OpenIsListed, F!HandlesKept, UnusedFiles

(* What HandlesKept says of one handle. *)
LEMMA HandleNames ==
  ASSUME FilesInv, NEW vm \in VMs, NEW h \in held[vm]
  PROVE  /\ h \in F!Handle /\ table[h.fd] = h.file /\ h.file # None
         /\ position[h.file] = h.at /\ h.file \in open /\ h.file <= opens
<1>1. h \in F!Handle
  BY DEF FilesInv, F!TypeOK
<1>2. h.fd \in F!Slots /\ h.file \in F!File /\ h.file # None
  BY <1>1, FileNumbers DEF FilesInv, F!Handle
<1>3. table[h.fd] = h.file /\ position[h.file] = h.at
  BY DEF FilesInv, F!HandlesKept
<1>4. h.file \in open
  BY <1>2, <1>3 DEF FilesInv, F!OpenIsListed
<1>5. h.file <= opens
  BY <1>2, <1>3 DEF FilesInv, UnusedFiles
<1>6. QED  BY <1>1, <1>2, <1>3, <1>4, <1>5

LEMMA CloseInv ==
  ASSUME FilesInv, NEW vm \in VMs, NEW h \in held[vm], F!Close(vm, h)
  PROVE  FilesInv'
<1>1. /\ h \in F!Handle /\ table[h.fd] = h.file /\ h.fd \in F!Slots
      /\ h.file # None
  BY HandleNames DEF F!Handle
<1>2. /\ table' = [table EXCEPT ![h.fd] = None] /\ open' = open \ {h.file}
      /\ held' = [held EXCEPT ![vm] = @ \ {h}]
      /\ opens' = opens /\ position' = position
  BY <1>1 DEF F!Close
<1>3. \A j \in F!Slots : table'[j] = IF j = h.fd THEN None ELSE table[j]
  BY <1>1, <1>2 DEF FilesInv, F!TypeOK
<1>4. F!TypeOK'
  BY <1>1, <1>2 DEF FilesInv, F!TypeOK
<1>5. F!OpenIsListed'
  <2>1. \A j, k \in F!Slots : table'[j] = table'[k] /\ table'[j] # None => j = k
    BY <1>3 DEF FilesInv, F!OpenIsListed
  <2>2. \A j \in F!Slots : j # h.fd => table[j] # h.file
    BY <1>1 DEF FilesInv, F!OpenIsListed
  <2>3. {table'[j] : j \in F!Slots} \ {None} = ({table[j] : j \in F!Slots} \ {None}) \ {h.file}
    BY <1>1, <1>3, <2>2
  <2>4. QED  BY <2>1, <2>3, <1>2 DEF FilesInv, F!OpenIsListed
<1>6. F!HandlesKept'
  <2>1. \A v \in VMs : \A g \in held'[v] : g \in held[v] /\ ~ (v = vm /\ g = h)
    BY <1>2 DEF FilesInv, F!TypeOK
  <2>2. \A v \in VMs : \A g \in held'[v] : g.fd # h.fd
    BY <2>1 DEF FilesInv, F!HandlesKept
  <2>3. \A v \in VMs : \A g \in held'[v] : table'[g.fd] = g.file /\ position'[g.file] = g.at
    BY <2>1, <2>2, <1>2, <1>3, HandleNames DEF F!Handle
  <2>4. QED  BY <2>1, <2>3 DEF FilesInv, F!HandlesKept
<1>7. UnusedFiles'
  BY <1>2, <1>3 DEF FilesInv, UnusedFiles
<1>8. QED  BY <1>4, <1>5, <1>6, <1>7 DEF FilesInv

LEMMA MoveInv ==
  ASSUME FilesInv, NEW vm \in VMs, NEW h \in held[vm], NEW p \in Positions, F!Move(vm, h, p)
  PROVE  FilesInv'
<1> DEFINE moved == [h EXCEPT !.at = p]
<1>1. /\ h \in F!Handle /\ table[h.fd] = h.file /\ position[h.file] = h.at
      /\ h.file \in F!File /\ h.file <= opens
  BY HandleNames DEF F!Handle
<1>2. moved \in F!Handle /\ moved.fd = h.fd /\ moved.file = h.file /\ moved.at = p
  BY <1>1 DEF F!Handle
<1> HIDE DEF moved
<1>3. /\ position' = [position EXCEPT ![h.file] = p]
      /\ held' = [held EXCEPT ![vm] = (@ \ {h}) \cup {moved}]
      /\ UNCHANGED <<table, opens, open>>
  BY <1>1 DEF F!Move, moved
<1>4. F!TypeOK'
  BY <1>1, <1>2, <1>3 DEF FilesInv, F!TypeOK
<1>5. F!OpenIsListed'
  BY <1>3 DEF FilesInv, F!OpenIsListed
<1>6. F!HandlesKept'
  <2>1. \A v \in VMs : \A g \in held'[v] :
          (g \in held[v] /\ ~ (v = vm /\ g = h)) \/ (v = vm /\ g = moved)
    BY <1>3 DEF FilesInv, F!TypeOK
  <2>2. \A v \in VMs : \A g \in held[v] :
          ~ (v = vm /\ g = h) => g.fd # h.fd
    BY DEF FilesInv, F!HandlesKept
  <2>3. \A v \in VMs : \A g \in held[v] :
          ~ (v = vm /\ g = h) =>
            /\ table'[g.fd] = g.file /\ g.file # h.file /\ position'[g.file] = g.at
    <3> SUFFICES ASSUME NEW v \in VMs, NEW g \in held[v], ~ (v = vm /\ g = h)
                 PROVE  table'[g.fd] = g.file /\ g.file # h.file /\ position'[g.file] = g.at
      OBVIOUS
    <3>1. /\ g \in F!Handle /\ table[g.fd] = g.file /\ g.file # None
          /\ position[g.file] = g.at /\ g.fd # h.fd
      BY <2>2, HandleNames
    <3>2. g.file # h.file
      BY <3>1, <1>1 DEF FilesInv, F!OpenIsListed, F!Handle
    <3>3. QED  BY <3>1, <3>2, <1>3 DEF FilesInv, F!TypeOK, F!Handle
  <2>4. table'[moved.fd] = moved.file /\ position'[moved.file] = moved.at
    BY <1>1, <1>2, <1>3 DEF FilesInv, F!TypeOK
  <2>5. QED  BY <2>1, <2>2, <2>3, <2>4, <1>2 DEF FilesInv, F!HandlesKept
<1>7. UnusedFiles'
  BY <1>1, <1>3, FileNumbers DEF FilesInv, F!TypeOK, UnusedFiles
<1>8. QED  BY <1>4, <1>5, <1>6, <1>7 DEF FilesInv

LEMMA FileSizeInv ==
  ASSUME FilesInv, NEW vm \in VMs, NEW h \in held[vm], NEW p \in Positions, F!FileSize(vm, h, p)
  PROVE  FilesInv'
<1>1. table[h.fd] \in F!File
  BY HandleNames DEF F!Handle
<1>2. position' = position
  BY <1>1 DEF F!FileSize, FilesInv, F!TypeOK
<1>3. UNCHANGED <<table, opens, open, held>>
  BY DEF F!FileSize
<1>4. QED  BY <1>2, <1>3 DEF FilesInv, F!TypeOK, F!OpenIsListed, F!HandlesKept, UnusedFiles

(* FilesInv is inductive. *)
LEMMA NextFiles == FilesInv /\ [F!Next]_(F!vars) => FilesInv'
<1> SUFFICES ASSUME FilesInv, [F!Next]_(F!vars)  PROVE FilesInv'
  OBVIOUS
<1>1. CASE UNCHANGED F!vars
  BY <1>1 DEF F!vars, FilesInv, F!TypeOK, F!OpenIsListed, F!HandlesKept, UnusedFiles
<1>2. CASE F!Next
  <2>1. PICK vm \in VMs :
          \/ F!Open(vm) \/ F!OpenWithoutRoom(vm) \/ F!End(vm)
          \/ \E h \in held[vm] : \/ F!Close(vm, h)
                                 \/ \E p \in Positions : F!Move(vm, h, p) \/ F!FileSize(vm, h, p)
    BY <1>2 DEF F!Next
  <2>2. QED
    BY <2>1, OpenInv, OpenWithoutRoomInv, EndInv, CloseInv, MoveInv, FileSizeInv
<1>3. QED  BY <1>1, <1>2

-----------------------------------------------------------------------------
(* No FILE is lost: what is open is in the table of ichingvm2.c, once,     *)
(* however many VMs end with files open and however full the table gets.   *)
THEOREM NoFileIsLost == F!Spec => []OpenIsListed
<1>1. FilesInv => OpenIsListed
  BY DEF FilesInv, OpenIsListed
<1>2. QED  BY <1>1, InitFiles, NextFiles, PTL DEF F!Spec

(* A handle stays what it was for the program that holds it, whatever the  *)
(* other VMs of the process open, move, close and leave behind.            *)
THEOREM HandlesAreKept == F!Spec => []HandlesKept
<1>1. FilesInv => HandlesKept
  BY DEF FilesInv, HandlesKept
<1>2. QED  BY <1>1, InitFiles, NextFiles, PTL DEF F!Spec
=============================================================================
