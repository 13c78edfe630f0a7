---------------------------- MODULE EvoOwnership -----------------------------
(***************************************************************************)
(* Who owns which memory in the evolution of evomorph_runtime.c: the array *)
(* of a population, the genes its individuals point to, best_ever.         *)
(*                                                                         *)
(* A pointer is a block and an offset in it; &individuals[i] is inside the *)
(* block of the array.  Numbers of blocks are not used again.  Freeing     *)
(* what is no live block, or reading freed memory, is undefined: the       *)
(* process ends there or goes on as if nothing had happened.  The structs  *)
(* that are copied into an array and given up (freed by initialize, leaked *)
(* by a generation) never belong to anybody and are left out.  An elite's  *)
(* copy, which the code takes for granted, is granted.                     *)
(***************************************************************************)
EXTENDS Integers, Sequences, FiniteSets, SequencesExt

CONSTANTS
  None,
  PopSize,      \* config: population_size
  EliteCount,   \* config: elite_count
  MaxBlocks     \* bound of the model: blocks ever allocated

(* Assumed by the module that gives these constants their values. *)
BlocksAssumption ==
  /\ None \notin Int
  /\ PopSize \in Nat \ {0} /\ EliteCount \in Nat
  /\ MaxBlocks \in Nat

Null  == 0
Block == 1..MaxBlocks

VARIABLES
  live,      \* the blocks allocated and not freed
  used,      \* blocks ever allocated
  pop,       \* vm->population: its array and the genes in its places; or None
  best,      \* vm->best_ever: the struct and its genes; or None
  broken,    \* history: something undefined has been done
  running    \* the process

vars == <<live, used, pop, best, broken, running>>

-----------------------------------------------------------------------------
(* free, and what is freed when.  A heap is [live, broken]. *)

Free(h, block, offset) ==
  IF block = Null THEN h
  ELSE IF offset = 0 /\ block \in h.live THEN [h EXCEPT !.live = @ \ {block}]
  ELSE [h EXCEPT !.broken = TRUE]

Read(h, block) == IF block \in h.live THEN h ELSE [h EXCEPT !.broken = TRUE]

(* evo_individual_destroy of the struct at the pointer: its genes first.   *)
DestroyIndividual(h, block, offset, genes) ==
  Free(Free(Read(h, block), genes, 0), block, offset)

(* evo_population_destroy: every individual in its place, then the array.  *)
DestroyPopulation(h, p) ==
  LET after[i \in 0..Len(p.slots)] ==
        IF i = 0 THEN h ELSE DestroyIndividual(after[i - 1], p.array, i - 1, p.slots[i])
  IN  Free(after[Len(p.slots)], p.array, 0)

(* The heap after the destruction of a population or a best_ever, if any.  *)
WithoutPopulation(h, p) == IF p = None THEN h ELSE DestroyPopulation(h, p)
WithoutBest(h, b)       == IF b = None THEN h ELSE DestroyIndividual(h, b.self, 0, b.genes)

Heap == [live |-> live, broken |-> FALSE]

(* A handler leaves the heap h and pointers, some to blocks among the next *)
(* n, which it has allocated; if it did something undefined the process    *)
(* may end.                                                                *)
Leaves(h, pointers, n) ==
  /\ live'    = h.live \cup (pointers \cap ((used + 1)..(used + n)))
  /\ used'    = used + n
  /\ broken'  = (broken \/ h.broken)
  /\ running' \in {TRUE, ~h.broken}

-----------------------------------------------------------------------------
Init == /\ live = {} /\ used = 0
        /\ pop = None /\ best = None
        /\ broken = FALSE /\ running = TRUE

(* evo_initialize_population: the seed and its variants; where there is no *)
(* memory for a variant the place stays empty and the size is one short.   *)
Initialize ==
  \E failed \in SUBSET (2..PopSize) :
    LET array == used + 1
        place == [i \in 1..PopSize |-> IF i \in failed THEN Null ELSE array + i]
    IN  /\ array + PopSize <= MaxBlocks
        /\ Leaves(WithoutPopulation(Heap, pop), {array} \cup Range(place), 1 + PopSize)
        /\ pop' = [array |-> array, slots |-> SubSeq(place, 1, PopSize - Cardinality(failed))]
        /\ UNCHANGED best

(* Without memory for the array, or for the seed, there is no population.  *)
InitializeFails ==
  /\ Leaves(WithoutPopulation(Heap, pop), {}, 0)
  /\ pop' = None
  /\ UNCHANGED best

(* Slip: an elite is the struct in its old place, genes and all. *)
EliteShared(old, fresh) == old

(* evo_individual_clone of an elite: genes of its own, if it has any.      *)
Elite(old, fresh) == IF old = Null THEN Null ELSE fresh

(* Slip: no struct for a winner that has no genes. *)
BestOfGenes(winner, self) ==
  [self |-> IF winner = Null THEN Null ELSE self,
   genes |-> IF winner = Null THEN Null ELSE self + 1]

(* Slip: the struct is copied, and its genes are the winner's. *)
BestShared(winner, self) == [self |-> self, genes |-> winner]

(* evo_individual_clone of the winner to best_ever: the struct, the genes. *)
BestOf(winner, self) ==
  [self |-> self, genes |-> IF winner = Null THEN Null ELSE self + 1]

(* What qsort makes of the places. *)
Orders(slots) ==
  {[i \in DOMAIN slots |-> slots[f[i]]] :
     f \in {g \in [DOMAIN slots -> DOMAIN slots] :
              \A i, j \in DOMAIN slots : g[i] = g[j] => i = j}}

(* The best_ever of a generation: the winner is better or not; the old one *)
(* is destroyed before the new one is copied, and that copy may fail.      *)
BestsAfter(winner, self) ==
  {BestOf(winner, self), None} \cup IF best = None THEN {} ELSE {best}

HeapAfter(next) == IF next = best THEN Heap ELSE WithoutBest(Heap, best)

(* evo_evolve_one_generation.  The blocks: best_ever's struct and genes,   *)
(* the array, the genes of the next population.  A child has no genes if   *)
(* neither of its parents has.                                             *)
Generation ==
  /\ pop # None
  /\ used + 3 + PopSize <= MaxBlocks
  /\ \E sorted \in Orders(pop.slots) :
     \E next \in BestsAfter(sorted[1], used + 1) :
     \E barren \in SUBSET (1..PopSize) :
       LET array  == used + 3
           elites == IF EliteCount < Len(sorted) THEN EliteCount ELSE Len(sorted)
           slots  == [i \in 1..PopSize |->
                        IF i <= elites THEN Elite(sorted[i], array + i)
                        ELSE IF i \in barren THEN Null ELSE array + i]
           made   == {array} \cup {slots[i] : i \in 1..PopSize}
                     \cup IF next \in {best, None} THEN {} ELSE {next.self, next.genes}
       IN  /\ barren # {} => Null \in Range(sorted)
           /\ Leaves(DestroyPopulation(HeapAfter(next), pop), made, 3 + PopSize)
           /\ pop' = [array |-> array, slots |-> slots]
           /\ best' = next

(* No memory for the elites or the next population: the population stays.  *)
GenerationFails ==
  /\ pop # None
  /\ used + 2 <= MaxBlocks
  /\ \E sorted \in Orders(pop.slots) :
     \E next \in BestsAfter(sorted[1], used + 1) :
       /\ Leaves(HeapAfter(next),
                 IF next \in {best, None} THEN {} ELSE {next.self, next.genes}, 2)
       /\ pop' = [pop EXCEPT !.slots = sorted]
       /\ best' = next

(* evo_vm_reset forgets what the VM has. *)
Reset == /\ pop' = None /\ best' = None
         /\ UNCHANGED <<live, used, broken, running>>

(* evo_vm_destroy, and a new VM. *)
DestroyVM == /\ Leaves(WithoutBest(WithoutPopulation(Heap, pop), best), {}, 0)
             /\ pop' = None /\ best' = None

Next == running /\ \/ Initialize
                   \/ InitializeFails
                   \/ Generation
                   \/ GenerationFails
                   \/ Reset
                   \/ DestroyVM

Spec == Init /\ [][Next]_vars

-----------------------------------------------------------------------------
(* A population is an array of 1 to PopSize places with or without genes,  *)
(* best_ever a struct with or without; what is live has been allocated.    *)
TypeOK ==
  /\ live \subseteq 1..used /\ used \in 0..MaxBlocks
  /\ pop = None \/ /\ pop.array \in Block
                   /\ pop.slots \in Seq(Block \cup {Null})
                   /\ Len(pop.slots) \in 1..PopSize
  /\ best = None \/ (best.self \in Block /\ best.genes \in Block \cup {Null})
  /\ broken \in BOOLEAN /\ running \in BOOLEAN

(* The blocks the VM holds, by who holds them. *)
Holders ==
  (IF pop = None THEN {} ELSE {<<"array">>} \cup {<<"place", i>> : i \in DOMAIN pop.slots})
  \cup (IF best = None THEN {} ELSE {<<"best">>, <<"genes">>})

Held(holder) ==
  CASE holder[1] = "array"      -> pop.array
    [] holder[1] = "place"      -> pop.slots[holder[2]]
    [] holder[1] = "best"       -> best.self
    [] holder[1] = "genes"      -> best.genes

(* A generation copies elites and the best before it releases the old      *)
(* population: whatever the VM holds is live, and no block is held twice.  *)
NothingDangles ==
  \A a \in Holders : Held(a) # Null =>
    /\ Held(a) \in live
    /\ \A b \in Holders : Held(a) = Held(b) => a = b

(* Freeing what malloc did not return, freeing twice and reading freed     *)
(* memory all have one cause: the elements of an array are released as if  *)
(* each were a block of its own.  A step that leaves the array of the      *)
(* population where it is does none of that, however often best_ever is    *)
(* replaced, generations fail and resets forget what is held.              *)
BreaksOnlyWithArray ==
  [][broken' # broken => /\ pop # None
                         /\ pop' = None \/ pop'.array # pop.array]_vars
=============================================================================
