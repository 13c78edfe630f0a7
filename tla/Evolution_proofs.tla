-------------------------- MODULE Evolution_proofs ---------------------------
(***************************************************************************)
(* Proofs about Evolution for every size of the opcodes, the population    *)
(* and the elite, every fitness in the integers, and any host; and about   *)
(* EvoOwnership, the blocks behind the same search, for any number of      *)
(* allocations.  EvoEngine puts the two together.                          *)
(***************************************************************************)
EXTENDS EvoEngine, Lemmas, FiniteSetTheorems

(* EvoEngine does what its parts do, so that what is proved of each of     *)
(* them, by its own specification, holds of EvoEngine.                     *)
THEOREM EachView == EngineSpec => Spec /\ O!Spec
<1>1. EngineInit => Init /\ O!Init
  BY DEF EngineInit
<1>2. [EngineNext]_engineVars => [Next]_vars /\ [O!Next]_(O!vars)
  BY DEF EngineNext, Search, Memory, engineVars, memory, vars, O!vars
<1> QED  BY <1>1, <1>2, PTL DEF EngineSpec, Spec, O!Spec

FitnessIsInteger == \A genes \in Genome : Fitness(genes) \in Int

-----------------------------------------------------------------------------
(* Children are genomes. *)

LEMMA FlipType ==
  ASSUME NEW gene \in Gene, NEW line \in Lines
  PROVE  Flip(gene, line) \in Gene
  BY DEF Flip, Gene

LEMMA MutantsType ==
  ASSUME NEW genes \in Genome, NEW mutant \in Mutants(genes)
  PROVE  mutant \in Genome
<1>1. PICK at \in SUBSET DOMAIN genes, line \in [DOMAIN genes -> Lines] :
        mutant = [i \in DOMAIN genes |-> IF i \in at THEN Flip(genes[i], line[i]) ELSE genes[i]]
  BY DEF Mutants
<1>2. DOMAIN genes = 1..Len(genes) /\ Len(genes) \in Nat
  BY LenProperties DEF Genome
<1>3. \A i \in DOMAIN genes : genes[i] \in Gene
  BY <1>2, ElementOfSeq DEF Genome
<1>4. \A i \in DOMAIN genes : Flip(genes[i], line[i]) \in Gene
  BY <1>1, <1>3, FlipType
<1>5. mutant \in [1..Len(genes) -> Gene]
  BY <1>1, <1>2, <1>3, <1>4
<1>6. QED  BY <1>2, <1>5, SequenceByIndex DEF Genome

LEMMA LongerType ==
  ASSUME NEW p \in Genome, NEW q \in Genome
  PROVE  Longer(p, q) \in Nat
  BY LenProperties DEF Longer, Genome

(* A child that takes each gene from p, from q or from a genome as long as *)
(* the longer of them is a genome.                                         *)
LEMMA CopyType ==
  ASSUME NEW p \in Genome, NEW q \in Genome
  PROVE  /\ CopyOf(p, q) \in Genome
         /\ CopyOf(p, q) \in [1..Longer(p, q) -> Gene]
<1> DEFINE n == Longer(p, q)
<1>1. n \in Nat
  BY LongerType
<1>2. DOMAIN p = 1..Len(p)
  BY LenProperties DEF Genome
<1>3. \A i \in 1..n : (IF i \in DOMAIN p THEN p[i] ELSE {}) \in Gene
  BY <1>2, ElementOfSeq DEF Genome, Gene
<1>4. CopyOf(p, q) \in [1..n -> Gene]
  BY <1>3 DEF CopyOf, Padded
<1>5. QED  BY <1>1, <1>4, SequenceByIndex DEF Genome

LEMMA LongerCommutes ==
  ASSUME NEW p \in Genome, NEW q \in Genome
  PROVE  Longer(p, q) = Longer(q, p)
  BY LenProperties DEF Longer, Genome

LEMMA TakeType ==
  ASSUME NEW p \in Genome, NEW n \in Nat, NEW child \in [1..n -> Gene], NEW i \in 1..n
  PROVE  Take(p, child, i) \in Gene
<1>1. DOMAIN p = 1..Len(p)
  BY LenProperties DEF Genome
<1>2. QED  BY <1>1, ElementOfSeq DEF Take, Genome

LEMMA SinglePointType ==
  ASSUME NEW p \in Genome, NEW q \in Genome, NEW k
  PROVE  SinglePoint(p, q, k) \in Genome
<1>1. \A i \in 1..Longer(p, q) : Take(IF i <= k THEN p ELSE q, CopyOf(p, q), i) \in Gene
  BY TakeType, CopyType, LongerType
<1>2. SinglePoint(p, q, k) \in [1..Longer(p, q) -> Gene]
  BY <1>1 DEF SinglePoint
<1>3. QED  BY <1>2, LongerType, SequenceByIndex DEF Genome

LEMMA TwoPointType ==
  ASSUME NEW p \in Genome, NEW q \in Genome, NEW j, NEW k
  PROVE  TwoPoint(p, q, j, k) \in Genome
<1>1. \A i \in 1..Longer(p, q) :
        Take(IF i <= j \/ i > k THEN p ELSE q, CopyOf(p, q), i) \in Gene
  BY TakeType, CopyType, LongerType
<1>2. TwoPoint(p, q, j, k) \in [1..Longer(p, q) -> Gene]
  BY <1>1 DEF TwoPoint
<1>3. QED  BY <1>2, LongerType, SequenceByIndex DEF Genome

LEMMA UniformType ==
  ASSUME NEW p \in Genome, NEW q \in Genome, NEW wantsP,
         NEW child \in [1..Longer(p, q) -> Gene]
  PROVE  UniformChild(p, q, wantsP, child) \in Genome
<1>1. DOMAIN p = 1..Len(p)
  BY LenProperties DEF Genome
<1>2. \A i \in DOMAIN p : p[i] \in Gene
  BY <1>1, ElementOfSeq DEF Genome
<1>3. \A i \in 1..Longer(p, q) : Take(q, child, i) \in Gene
  BY TakeType, LongerType
<1>4. UniformChild(p, q, wantsP, child) \in [1..Longer(p, q) -> Gene]
  BY <1>2, <1>3 DEF UniformChild
<1>5. QED  BY <1>4, LongerType, SequenceByIndex DEF Genome

LEMMA SinglePointPairsType ==
  ASSUME NEW p \in Genome, NEW q \in Genome
  PROVE  SinglePointPairs(p, q) \subseteq Genome \X Genome
  BY CopyType, SinglePointType DEF SinglePointPairs

LEMMA TwoPointPairsType ==
  ASSUME NEW p \in Genome, NEW q \in Genome
  PROVE  TwoPointPairs(p, q) \subseteq Genome \X Genome
  BY SinglePointPairsType, TwoPointType DEF TwoPointPairs

LEMMA UniformPairsType ==
  ASSUME NEW p \in Genome, NEW q \in Genome
  PROVE  UniformPairs(p, q) \subseteq Genome \X Genome
<1>1. CopyOf(p, q) \in [1..Longer(p, q) -> Gene] /\ CopyOf(q, p) \in [1..Longer(p, q) -> Gene]
  BY CopyType, LongerCommutes
<1>2. QED  BY <1>1, UniformType DEF UniformPairs

LEMMA OffspringType ==
  ASSUME NEW p \in Genome, NEW q \in Genome
  PROVE  Offspring(p, q) \subseteq Genome \X Genome
<1>1. \A x \in Crossovers : Crossed(x, p, q) \subseteq Genome \X Genome
  BY SinglePointPairsType, TwoPointPairsType, UniformPairsType DEF Crossed
<1>2. <<CopyOf(p, q), CopyOf(q, p)>> \in Genome \X Genome
  BY CopyType
<1>3. \A pair \in Genome \X Genome :
        Mutants(pair[1]) \subseteq Genome /\ Mutants(pair[2]) \subseteq Genome
  BY MutantsType
<1> DEFINE Pairs == {<<CopyOf(p, q), CopyOf(q, p)>>} \cup UNION {Crossed(x, p, q) : x \in Crossovers}
<1>4. Pairs \subseteq Genome \X Genome
  BY <1>1, <1>2
<1>5. QED  BY <1>3, <1>4 DEF Offspring

-----------------------------------------------------------------------------
(* A generation is a population. *)

Population(p) == p \in Seq(Genome) /\ Len(p) <= PopSize

LEMMA SortedType ==
  ASSUME NEW p \in Seq(Genome), p # << >>, NEW sorted \in Sorted(p)
  PROVE  /\ sorted \in Seq(Genome) /\ Len(sorted) = Len(p)
         /\ sorted[1] \in Genome
<1>1. DOMAIN p = 1..Len(p) /\ Len(p) \in Nat /\ Len(p) # 0
  BY LenProperties, EmptySeq
<1>2. PICK g \in [DOMAIN p -> DOMAIN p] : sorted = [i \in DOMAIN p |-> p[g[i]]]
  BY DEF Sorted
<1>3. \A i \in DOMAIN p : p[i] \in Genome
  BY <1>1, ElementOfSeq
<1>4. sorted \in [1..Len(p) -> Genome]
  BY <1>1, <1>2, <1>3
<1>5. sorted \in Seq(Genome) /\ Len(sorted) = Len(p)
  BY <1>1, <1>4, SequenceByIndex
<1>6. sorted[1] \in Genome
  BY <1>1, <1>4
<1>7. QED  BY <1>5, <1>6

LEMMA ElitesType ==
  ASSUME NEW sorted \in Seq(Genome)
  PROVE  /\ Elites(sorted) \in Seq(Genome)
         /\ Len(Elites(sorted)) \in Nat
         /\ Len(Elites(sorted)) <= Len(sorted)
<1> DEFINE n == S!Lesser(EliteCount, Len(sorted))
<1>1. Len(sorted) \in Nat
  BY LenProperties
<1>2. n \in Nat /\ n <= Len(sorted)
  BY <1>1, PopAssumption DEF S!Lesser
<1>3. \A i \in 1..n : sorted[i] \in Genome
  BY <1>1, <1>2, ElementOfSeq
<1> HIDE DEF n
<1>4. SubSeq(sorted, 1, n) \in Seq(Genome)
  BY <1>2, <1>3, SubSeqProperties
<1>5. Len(SubSeq(sorted, 1, n)) = IF 1 <= n THEN n - 1 + 1 ELSE 0
  BY <1>2, <1>3, SubSeqProperties
<1>6. QED  BY <1>1, <1>2, <1>4, <1>5 DEF Elites, n

LEMMA SelectableType ==
  ASSUME NEW method, NEW size, NEW fits
  PROVE  S!Selectable(method, size, fits) \subseteq 1..Len(fits)
  BY DEF S!Selectable

LEMMA FitsLength ==
  ASSUME FitnessIsInteger, NEW p \in Seq(Genome)
  PROVE  Len(Fits(p)) = Len(p)
<1>1. DOMAIN p = 1..Len(p) /\ Len(p) \in Nat
  BY LenProperties
<1>2. \A i \in DOMAIN p : Fitness(p[i]) \in Int
  BY <1>1, ElementOfSeq DEF FitnessIsInteger
<1>3. Fits(p) \in [1..Len(p) -> Int]
  BY <1>1, <1>2 DEF Fits
<1>4. QED  BY <1>1, <1>3, SequenceByIndex

LEMMA ChildrenType ==
  ASSUME FitnessIsInteger, NEW sorted \in Seq(Genome), NEW n \in Nat,
         NEW children \in Children(sorted, n)
  PROVE  children \in Seq(Genome) /\ Len(children) = n
<1> DEFINE fits    == Fits(sorted)
           index   == UNION {S!Selectable(m, Tournament, fits) \X S!Selectable(m, Tournament, fits) :
                               m \in Methods}
           parents == {<<sorted[ij[1]], sorted[ij[2]]>> : ij \in index}
           pairs   == UNION {Offspring(pq[1], pq[2]) : pq \in parents}
<1>1. index \subseteq (1..Len(sorted)) \X (1..Len(sorted))
  BY SelectableType, FitsLength
<1>2. \A i \in 1..Len(sorted) : sorted[i] \in Genome
  BY ElementOfSeq
<1>3. parents \subseteq Genome \X Genome
  BY <1>1, <1>2
<1>4. pairs \subseteq Genome \X Genome
  BY <1>3, OffspringType
<1>5. PICK litter \in [1..((n + 1) \div 2) -> pairs] :
        children = [i \in 1..n |-> litter[(i + 1) \div 2][((i + 1) % 2) + 1]]
  BY Zenon DEF Children
<1> HIDE DEF pairs
<1>6. ASSUME NEW i \in 1..n
      PROVE  litter[(i + 1) \div 2][((i + 1) % 2) + 1] \in Genome
  <2>1. (i + 1) \div 2 \in 1..((n + 1) \div 2)
    OBVIOUS
  <2>2. litter[(i + 1) \div 2] \in Genome \X Genome
    BY <1>4, <2>1
  <2>3. ((i + 1) % 2) + 1 \in {1, 2}
    OBVIOUS
  <2>4. QED  BY <2>2, <2>3
<1>7. children \in [1..n -> Genome]
  BY <1>5, <1>6
<1>8. QED  BY <1>7, SequenceByIndex

LEMMA NextPopulationType ==
  ASSUME FitnessIsInteger, NEW sorted \in Seq(Genome), Len(sorted) <= PopSize,
         NEW next \in NextPopulations(sorted)
  PROVE  Population(next)
<1> DEFINE elites == Elites(sorted)
<1>1. /\ elites \in Seq(Genome) /\ Len(elites) \in Nat
      /\ Len(elites) <= Len(sorted) /\ Len(sorted) \in Nat
  BY ElitesType, LenProperties
<1> HIDE DEF elites
<1>2. CASE Len(elites) >= PopSize
  <2>1. next = elites
    BY <1>2 DEF NextPopulations, elites
  <2>2. QED  BY <1>1, <2>1, PopAssumption DEF Population
<1>3. CASE ~(Len(elites) >= PopSize)
  <2>1. PopSize - Len(elites) \in Nat
    BY <1>1, <1>3, PopAssumption
  <2>2. PICK children \in Children(sorted, PopSize - Len(elites)) : next = elites \o children
    BY <1>3 DEF NextPopulations, elites
  <2>3. children \in Seq(Genome) /\ Len(children) = PopSize - Len(elites)
    BY <2>1, ChildrenType
  <2>4. next \in Seq(Genome) /\ Len(next) = Len(elites) + Len(children)
    BY <1>1, <2>2, <2>3, ConcatProperties
  <2>5. QED  BY <1>1, <2>3, <2>4, PopAssumption DEF Population
<1>4. QED  BY <1>2, <1>3

LEMMA InitialPopulationType ==
  ASSUME NEW s \in Seeds, NEW failed \in SUBSET (2..PopSize),
         NEW variants \in [2..PopSize -> Mutants(s)]
  PROVE  Population([i \in 1..(PopSize - Cardinality(failed)) |->
                       IF i = 1 THEN s ELSE IF i \in failed THEN Hole ELSE variants[i]])
<1> DEFINE n == PopSize - Cardinality(failed)
           p == [i \in 1..n |-> IF i = 1 THEN s ELSE IF i \in failed THEN Hole ELSE variants[i]]
<1>1. IsFiniteSet(2..PopSize) /\ Cardinality(2..PopSize) = PopSize - 1
  BY FS_Interval, PopAssumption
<1>2. Cardinality(failed) \in Nat /\ Cardinality(failed) <= PopSize - 1
  <2>1. IsFiniteSet(failed) /\ Cardinality(failed) <= Cardinality(2..PopSize)
    BY <1>1, FS_Subset
  <2>2. QED  BY <1>1, <2>1, FS_CardinalityType
<1>3. n \in Nat /\ n <= PopSize
  BY <1>2, PopAssumption
<1>4. s \in Genome /\ Hole \in Genome
  BY SeedsAssumption, EmptySeq DEF Genome, Hole
<1>5. \A i \in 2..PopSize : variants[i] \in Genome
  BY <1>4, MutantsType
<1>6. p \in [1..n -> Genome]
  BY <1>3, <1>4, <1>5, PopAssumption
<1> HIDE DEF n
<1>7. p \in Seq(Genome) /\ Len(p) = n
  BY <1>3, <1>6, SequenceByIndex
<1>8. QED  BY <1>3, <1>7 DEF Population, n

-----------------------------------------------------------------------------
(* What the evaluation of a population does to best_ever. *)

LEMMA NoneIsNone == None \notin Genome /\ None \notin Int /\ None \notin Seeds
  BY NoneAssumption

LEMMA EvaluatedType ==
  ASSUME FitnessIsInteger, TypeOK, NEW sorted, Evaluated(sorted)
  PROVE  /\ sorted \in Seq(Genome) /\ Len(sorted) <= PopSize
         /\ sorted[1] \in Genome /\ Fitness(sorted[1]) \in Int
         /\ best' \in Genome \cup {None}
         /\ top' \in Int \cup {None}
         /\ seed' \in Seeds \cup {None}
<1>1. /\ sorted \in Seq(Genome) /\ Len(sorted) = Len(pop)
      /\ sorted[1] \in Genome
  BY SortedType DEF TypeOK, Evaluated
<1>2. Fitness(sorted[1]) \in Int
  BY <1>1 DEF FitnessIsInteger
<1>3. BetterOf(best, sorted[1]) \in Genome \cup {None}
  BY <1>1, Zenon DEF BetterOf, TypeOK
<1>4. best' \in Genome \cup {None}
  BY <1>3, Zenon DEF Evaluated, TypeOK
<1>5. top' \in Int \cup {None}
  BY <1>2, Zenon DEF Evaluated, TypeOK
<1>6. seed' \in Seeds \cup {None}
  BY DEF Evaluated, TypeOK
<1>7. QED  BY <1>1, <1>2, <1>4, <1>5, <1>6 DEF TypeOK

LEMMA GenerationType ==
  ASSUME FitnessIsInteger, TypeOK, NEW sorted, Generation(sorted) \/ GenerationFails(sorted)
  PROVE  /\ Population(pop')
         /\ best' \in Genome \cup {None}
         /\ top' \in Int \cup {None}
         /\ seed' \in Seeds \cup {None}
         /\ did' \in Deeds
<1>1. Evaluated(sorted)
  BY DEF Generation, GenerationFails
<1>2. Population(pop')
  BY <1>1, EvaluatedType, NextPopulationType DEF Generation, GenerationFails, Population
<1>3. did' \in Deeds
  BY DEF Generation, GenerationFails, Deeds
<1>4. QED  BY <1>1, <1>2, <1>3, EvaluatedType

-----------------------------------------------------------------------------
(* Types. *)

Loop == [left : Nat, last : Int \cup {None}, stagnant : 0..Patience]

LEMMA LoopType ==
  ASSUME FitnessIsInteger, NEW l \in Loop, NEW b \in Genome \cup {None},
         l.left > 0, l.stagnant < Patience
  PROVE  [Checked(l, b) EXCEPT !.left = @ - 1] \in Loop
<1>1. b # None => Fitness(b) \in Int
  BY DEF FitnessIsInteger
<1>2. l.stagnant + 1 \in 0..Patience /\ 0 \in 0..Patience /\ l.left - 1 \in Nat
  BY MaxGensAssumption DEF Loop
<1>3. Checked(l, b) \in Loop /\ Checked(l, b).left = l.left
  <2>1. CASE b = None
    BY <2>1 DEF Checked
  <2>2. CASE b # None /\ (l.last = None \/ Fitness(b) > l.last)
    BY <1>1, <1>2, <2>2 DEF Checked, Loop
  <2>3. CASE b # None /\ ~(l.last = None \/ Fitness(b) > l.last)
    BY <1>2, <2>3 DEF Checked, Loop
  <2>4. QED  BY <2>1, <2>2, <2>3
<1>4. QED  BY <1>2, <1>3 DEF Loop

LEMMA TypeStep ==
  ASSUME FitnessIsInteger, TypeOK, [Next]_vars
  PROVE  TypeOK'
<1> USE DEF Deeds
<1>1. CASE Reset
  BY <1>1, EmptySeq, PopAssumption DEF Reset, TypeOK
<1>2. ASSUME NEW s \in Seeds, Initialize(s) PROVE TypeOK'
  <2>1. PICK failed \in SUBSET (2..PopSize), variants \in [2..PopSize -> Mutants(s)] :
          pop' = [i \in 1..(PopSize - Cardinality(failed)) |->
                    IF i = 1 THEN s ELSE IF i \in failed THEN Hole ELSE variants[i]]
    BY <1>2 DEF Initialize
  <2>2. Population(pop')
    BY <2>1, InitialPopulationType
  <2>3. QED  BY <1>2, <2>2 DEF Initialize, TypeOK, Population
<1>3. CASE InitializeFails
  BY <1>3, EmptySeq, PopAssumption DEF InitializeFails, TypeOK
<1>4. CASE OneGeneration
  BY <1>4, GenerationType DEF OneGeneration, TypeOK, Population
<1>5. ASSUME NEW n \in MaxGens, EvolveBegin(n) PROVE TypeOK'
  <2>1. [left |-> n, last |-> None, stagnant |-> 0] \in Loop
    BY MaxGensAssumption DEF Loop
  <2>2. QED  BY <1>5, <2>1 DEF EvolveBegin, TypeOK, Loop
<1>6. CASE EvolveGeneration
  <2>1. PICK sorted : Generation(sorted)
    BY <1>6 DEF EvolveGeneration
  <2>2. loop \in Loop /\ loop.left > 0 /\ loop.stagnant < Patience
    BY <1>6 DEF EvolveGeneration, TypeOK, Loop
  <2>3. loop' \in Loop
    BY <1>6, <2>1, <2>2, GenerationType, LoopType DEF EvolveGeneration
  <2>4. QED  BY <2>1, <2>3, GenerationType DEF TypeOK, Population, Loop
<1>7. CASE EvolveGivesUp
  BY <1>7, GenerationType DEF EvolveGivesUp, TypeOK, Population
<1>8. CASE EvolveReturn
  BY <1>8 DEF EvolveReturn, TypeOK
<1>9. CASE ReleaseAborts
  BY <1>9 DEF ReleaseAborts, TypeOK
<1>10. CASE UNCHANGED vars
  BY <1>10 DEF vars, TypeOK
<1>11. QED
  BY <1>1, <1>2, <1>3, <1>4, <1>5, <1>6, <1>7, <1>8, <1>9, <1>10 DEF Next

(* Whatever the host asks for, the population is at most PopSize genomes,  *)
(* best_ever one of them or nothing, and the loop within its patience.     *)
THEOREM TypeCorrect ==
  ASSUME FitnessIsInteger
  PROVE  Spec => []TypeOK
<1>1. Init => TypeOK
  BY EmptySeq, PopAssumption DEF Init, TypeOK, Deeds
<1>2. TypeOK /\ [Next]_vars => TypeOK'
  BY TypeStep
<1>3. QED  BY <1>1, <1>2, PTL DEF Spec

-----------------------------------------------------------------------------
(* best_ever. *)

LEMMA BestStep ==
  ASSUME FitnessIsInteger, TypeOK, BestIsTop,
         NEW sorted, Evaluated(sorted)
  PROVE  BestIsTop'
<1>1. /\ sorted[1] \in Genome /\ Fitness(sorted[1]) \in Int
  BY EvaluatedType
<1>2. CASE best' = None /\ top' = None
  BY <1>2 DEF BestIsTop
<1>3. ASSUME /\ best' = BetterOf(best, sorted[1])
             /\ top' = IF top = None \/ Fitness(sorted[1]) > top THEN Fitness(sorted[1]) ELSE top
      PROVE  BestIsTop'
  <2>1. CASE best = None
    <3>1. best' = sorted[1] /\ top' = Fitness(sorted[1])
      BY <1>3, <2>1, Zenon DEF BetterOf, BestIsTop
    <3>2. QED  BY <1>1, <3>1, NoneIsNone DEF BestIsTop
  <2>2. CASE best # None
    <3>1. top # None /\ Fitness(best) = top
      BY <2>2 DEF BestIsTop
    <3>2. CASE Fitness(sorted[1]) > Fitness(best)
      <4>1. best' = sorted[1] /\ top' = Fitness(sorted[1])
        BY <1>3, <3>1, <3>2 DEF BetterOf
      <4>2. QED  BY <1>1, <4>1, NoneIsNone DEF BestIsTop
    <3>3. CASE ~(Fitness(sorted[1]) > Fitness(best))
      <4>1. best' = best /\ top' = top
        BY <1>3, <2>2, <3>1, <3>3 DEF BetterOf
      <4>2. QED  BY <2>2, <3>1, <4>1 DEF BestIsTop
    <3>4. QED  BY <3>2, <3>3
  <2>3. QED  BY <2>1, <2>2
<1>4. QED  BY <1>2, <1>3 DEF Evaluated

(* best_ever is worth as much as the best individual evaluated on this VM  *)
(* since it was created, reset or last without memory for best_ever.       *)
THEOREM BestIsTopOfAll ==
  ASSUME FitnessIsInteger
  PROVE  Spec => []BestIsTop
<1>1. Init => BestIsTop
  BY DEF Init, BestIsTop
<1>2. TypeOK /\ BestIsTop /\ [Next]_vars => BestIsTop'
  <2> SUFFICES ASSUME TypeOK, BestIsTop, [Next]_vars PROVE BestIsTop'
    OBVIOUS
  <2>1. CASE Reset
    BY <2>1 DEF Reset, BestIsTop
  <2>2. ASSUME NEW s \in Seeds, Initialize(s) PROVE BestIsTop'
    BY <2>2 DEF Initialize, BestIsTop
  <2>3. CASE InitializeFails
    BY <2>3 DEF InitializeFails, BestIsTop
  <2>4. CASE OneGeneration
    BY <2>4, BestStep DEF OneGeneration, Generation, GenerationFails
  <2>5. ASSUME NEW n \in MaxGens, EvolveBegin(n) PROVE BestIsTop'
    BY <2>5 DEF EvolveBegin, BestIsTop
  <2>6. CASE EvolveGeneration
    BY <2>6, BestStep DEF EvolveGeneration, Generation
  <2>7. CASE EvolveGivesUp
    BY <2>7, BestStep DEF EvolveGivesUp, GenerationFails
  <2>8. CASE EvolveReturn
    BY <2>8 DEF EvolveReturn, BestIsTop
  <2>9. CASE ReleaseAborts
    BY <2>9 DEF ReleaseAborts, BestIsTop
  <2>10. CASE UNCHANGED vars
    BY <2>10 DEF vars, BestIsTop
  <2>11. QED
    BY <2>1, <2>2, <2>3, <2>4, <2>5, <2>6, <2>7, <2>8, <2>9, <2>10 DEF Next
<1>3. QED  BY <1>1, <1>2, TypeCorrect, PTL DEF Spec

-----------------------------------------------------------------------------
(* The lengths of programs. *)

Litter(p, q) == {child \in Genome : Len(child) = Longer(p, q)}

LEMMA LengthOfDomain ==
  ASSUME NEW genes \in Genome, NEW n \in Nat, DOMAIN genes = 1..n
  PROVE  Len(genes) = n
<1>1. DOMAIN genes = 1..Len(genes) /\ Len(genes) \in Nat
  BY LenProperties DEF Genome
<1>2. QED  BY <1>1

LEMMA MutantsLength ==
  ASSUME NEW genes \in Genome, NEW mutant \in Mutants(genes)
  PROVE  mutant \in Genome /\ Len(mutant) = Len(genes)
<1>1. DOMAIN mutant = DOMAIN genes
  BY DEF Mutants
<1>2. DOMAIN genes = 1..Len(genes) /\ Len(genes) \in Nat
  BY LenProperties DEF Genome
<1>3. QED  BY <1>1, <1>2, MutantsType, LengthOfDomain

LEMMA CopyLength ==
  ASSUME NEW p \in Genome, NEW q \in Genome
  PROVE  <<CopyOf(p, q), CopyOf(q, p)>> \in Litter(p, q) \X Litter(p, q)
<1>1. DOMAIN CopyOf(p, q) = 1..Longer(p, q) /\ DOMAIN CopyOf(q, p) = 1..Longer(p, q)
  BY LongerCommutes DEF CopyOf, Padded
<1>2. QED  BY <1>1, CopyType, LongerType, LengthOfDomain DEF Litter

LEMMA SinglePointPairsLength ==
  ASSUME NEW p \in Genome, NEW q \in Genome
  PROVE  SinglePointPairs(p, q) \subseteq Litter(p, q) \X Litter(p, q)
<1>1. ASSUME NEW k
      PROVE  SinglePoint(p, q, k) \in Litter(p, q) /\ SinglePoint(q, p, k) \in Litter(p, q)
  <2>1. /\ DOMAIN SinglePoint(p, q, k) = 1..Longer(p, q)
        /\ DOMAIN SinglePoint(q, p, k) = 1..Longer(p, q)
    BY LongerCommutes DEF SinglePoint
  <2>2. QED  BY <2>1, SinglePointType, LongerType, LengthOfDomain DEF Litter
<1>2. QED  BY <1>1, CopyLength DEF SinglePointPairs

LEMMA TwoPointPairsLength ==
  ASSUME NEW p \in Genome, NEW q \in Genome
  PROVE  TwoPointPairs(p, q) \subseteq Litter(p, q) \X Litter(p, q)
<1>1. ASSUME NEW j, NEW k
      PROVE  TwoPoint(p, q, j, k) \in Litter(p, q) /\ TwoPoint(q, p, j, k) \in Litter(p, q)
  <2>1. /\ DOMAIN TwoPoint(p, q, j, k) = 1..Longer(p, q)
        /\ DOMAIN TwoPoint(q, p, j, k) = 1..Longer(p, q)
    BY LongerCommutes DEF TwoPoint
  <2>2. QED  BY <2>1, TwoPointType, LongerType, LengthOfDomain DEF Litter
<1>2. QED  BY <1>1, SinglePointPairsLength DEF TwoPointPairs

LEMMA UniformPairsLength ==
  ASSUME NEW p \in Genome, NEW q \in Genome
  PROVE  UniformPairs(p, q) \subseteq Litter(p, q) \X Litter(p, q)
<1>1. CopyOf(p, q) \in [1..Longer(p, q) -> Gene] /\ CopyOf(q, p) \in [1..Longer(q, p) -> Gene]
  BY CopyType
<1>2. ASSUME NEW heads
      PROVE  /\ UniformChild(p, q, heads, CopyOf(p, q)) \in Litter(p, q)
             /\ UniformChild(p, q, heads, CopyOf(q, p)) \in Litter(p, q)
  <2>1. /\ UniformChild(p, q, heads, CopyOf(p, q)) \in Genome
        /\ UniformChild(p, q, heads, CopyOf(q, p)) \in Genome
    BY <1>1, UniformType, LongerCommutes
  <2>2. /\ DOMAIN UniformChild(p, q, heads, CopyOf(p, q)) = 1..Longer(p, q)
        /\ DOMAIN UniformChild(p, q, heads, CopyOf(q, p)) = 1..Longer(p, q)
    BY DEF UniformChild
  <2>3. QED  BY <2>1, <2>2, LongerType, LengthOfDomain DEF Litter
<1>3. QED  BY <1>2 DEF UniformPairs

LEMMA OffspringLength ==
  ASSUME NEW p \in Genome, NEW q \in Genome
  PROVE  Offspring(p, q) \subseteq Litter(p, q) \X Litter(p, q)
<1> DEFINE Pairs == {<<CopyOf(p, q), CopyOf(q, p)>>} \cup UNION {Crossed(x, p, q) : x \in Crossovers}
<1>1. Pairs \subseteq Litter(p, q) \X Litter(p, q)
  BY CopyLength, SinglePointPairsLength, TwoPointPairsLength, UniformPairsLength DEF Crossed
<1>2. \A child \in Litter(p, q) : Mutants(child) \subseteq Litter(p, q)
  BY MutantsLength DEF Litter
<1>3. \A pair \in Pairs : Mutants(pair[1]) \X Mutants(pair[2]) \subseteq Litter(p, q) \X Litter(p, q)
  BY <1>1, <1>2
<1>4. QED  BY <1>3 DEF Offspring

(* Genomes of n genes, and holes. *)
Sized(n) == {genes \in Genome : Len(genes) \in {0, n}}

AllSized(p, n) == \A i \in DOMAIN p : p[i] \in Sized(n)

LEMMA LitterSized ==
  ASSUME NEW n, NEW p \in Sized(n), NEW q \in Sized(n)
  PROVE  Litter(p, q) \subseteq Sized(n)
  BY DEF Litter, Sized, Longer

LEMMA SortedSized ==
  ASSUME NEW n, NEW p \in Seq(Genome), AllSized(p, n), NEW sorted \in Sorted(p)
  PROVE  AllSized(sorted, n)
  BY DEF Sorted, AllSized

LEMMA ElitesSized ==
  ASSUME NEW n, NEW sorted \in Seq(Genome), AllSized(sorted, n)
  PROVE  AllSized(Elites(sorted), n)
<1> DEFINE m == S!Lesser(EliteCount, Len(sorted))
<1>1. Len(sorted) \in Nat /\ DOMAIN sorted = 1..Len(sorted)
  BY LenProperties
<1>2. m \in Nat /\ m <= Len(sorted)
  BY <1>1, PopAssumption DEF S!Lesser
<1>3. \A i \in 1..m : sorted[i] \in Sized(n)
  BY <1>1, <1>2 DEF AllSized
<1> HIDE DEF m
<1>4. SubSeq(sorted, 1, m) = [i \in 1..m |-> sorted[i]]
  BY <1>1, <1>2
<1>5. QED  BY <1>3, <1>4 DEF Elites, m, AllSized

LEMMA ChildrenSized ==
  ASSUME FitnessIsInteger, NEW k, NEW sorted \in Seq(Genome), AllSized(sorted, k),
         NEW n \in Nat, NEW children \in Children(sorted, n)
  PROVE  AllSized(children, k)
<1> DEFINE fits    == Fits(sorted)
           index   == UNION {S!Selectable(m, Tournament, fits) \X S!Selectable(m, Tournament, fits) :
                               m \in Methods}
           parents == {<<sorted[ij[1]], sorted[ij[2]]>> : ij \in index}
           pairs   == UNION {Offspring(pq[1], pq[2]) : pq \in parents}
<1>1. index \subseteq (1..Len(sorted)) \X (1..Len(sorted))
  BY SelectableType, FitsLength
<1>2. DOMAIN sorted = 1..Len(sorted)
  BY LenProperties
<1>3. parents \subseteq Sized(k) \X Sized(k)
  BY <1>1, <1>2 DEF AllSized
<1>4. \A p, q \in Sized(k) : Offspring(p, q) \subseteq Sized(k) \X Sized(k)
  BY OffspringLength, LitterSized DEF Sized
<1>5. pairs \subseteq Sized(k) \X Sized(k)
  BY <1>3, <1>4
<1>6. PICK litter \in [1..((n + 1) \div 2) -> pairs] :
        children = [i \in 1..n |-> litter[(i + 1) \div 2][((i + 1) % 2) + 1]]
  BY Zenon DEF Children
<1> HIDE DEF pairs
<1>7. ASSUME NEW i \in 1..n
      PROVE  litter[(i + 1) \div 2][((i + 1) % 2) + 1] \in Sized(k)
  <2>1. (i + 1) \div 2 \in 1..((n + 1) \div 2)
    OBVIOUS
  <2>2. litter[(i + 1) \div 2] \in Sized(k) \X Sized(k)
    BY <1>5, <2>1
  <2>3. ((i + 1) % 2) + 1 \in {1, 2}
    OBVIOUS
  <2>4. QED  BY <2>2, <2>3
<1>8. QED  BY <1>6, <1>7 DEF AllSized

LEMMA NextPopulationSized ==
  ASSUME FitnessIsInteger, NEW k, NEW sorted \in Seq(Genome), AllSized(sorted, k),
         Len(sorted) <= PopSize, NEW next \in NextPopulations(sorted)
  PROVE  AllSized(next, k)
<1> DEFINE elites == Elites(sorted)
<1>1. elites \in Seq(Genome) /\ Len(elites) \in Nat /\ AllSized(elites, k)
  BY ElitesType, ElitesSized
<1> HIDE DEF elites
<1>2. CASE Len(elites) >= PopSize
  BY <1>1, <1>2 DEF NextPopulations, elites
<1>3. CASE ~(Len(elites) >= PopSize)
  <2>1. PopSize - Len(elites) \in Nat
    BY <1>1, <1>3, PopAssumption
  <2>2. PICK children \in Children(sorted, PopSize - Len(elites)) : next = elites \o children
    BY <1>3 DEF NextPopulations, elites
  <2>3. children \in Seq(Genome) /\ AllSized(children, k)
    BY <2>1, ChildrenType, ChildrenSized
  <2>4. /\ DOMAIN elites = 1..Len(elites) /\ DOMAIN children = 1..Len(children)
        /\ Len(children) \in Nat
    BY <1>1, <2>3, LenProperties
  <2>5. /\ next \in Seq(Genome) /\ Len(next) = Len(elites) + Len(children)
        /\ \A i \in 1..Len(next) :
             next[i] = IF i <= Len(elites) THEN elites[i] ELSE children[i - Len(elites)]
    BY <1>1, <2>2, <2>3, ConcatProperties
  <2>6. ASSUME NEW i \in 1..(Len(elites) + Len(children))
        PROVE  (IF i <= Len(elites) THEN elites[i] ELSE children[i - Len(elites)]) \in Sized(k)
    <3>1. i <= Len(elites) => i \in DOMAIN elites
      BY <1>1, <2>4
    <3>2. ~(i <= Len(elites)) => i - Len(elites) \in DOMAIN children
      BY <1>1, <2>4
    <3>3. QED  BY <1>1, <2>3, <3>1, <3>2 DEF AllSized
  <2>7. DOMAIN next = 1..Len(next)
    BY <2>5, LenProperties
  <2>8. QED  BY <2>5, <2>6, <2>7 DEF AllSized
<1>4. QED  BY <1>2, <1>3

LEMMA InitialPopulationSized ==
  ASSUME NEW s \in Seeds, NEW failed \in SUBSET (2..PopSize),
         NEW variants \in [2..PopSize -> Mutants(s)], NEW n \in Nat, n <= PopSize
  PROVE  AllSized([i \in 1..n |->
                     IF i = 1 THEN s ELSE IF i \in failed THEN Hole ELSE variants[i]], Len(s))
<1>1. s \in Sized(Len(s)) /\ Hole \in Sized(Len(s))
  BY SeedsAssumption, EmptySeq DEF Genome, Hole, Sized
<1>2. \A i \in 2..PopSize : variants[i] \in Sized(Len(s))
  BY <1>1, MutantsLength DEF Sized
<1>3. QED  BY <1>1, <1>2, PopAssumption DEF AllSized

LEMMA GenerationSized ==
  ASSUME FitnessIsInteger, TypeOK, AllSized(pop, Len(seed)), NEW sorted,
         Generation(sorted) \/ GenerationFails(sorted)
  PROVE  AllSized(pop', Len(seed)) /\ UNCHANGED seed
<1>1. Evaluated(sorted)
  BY DEF Generation, GenerationFails
<1>2. sorted \in Seq(Genome) /\ Len(sorted) <= PopSize
  BY <1>1, EvaluatedType
<1>3. AllSized(sorted, Len(seed))
  BY <1>1, SortedSized DEF Evaluated, TypeOK
<1>4. UNCHANGED seed
  BY <1>1 DEF Evaluated
<1>5. QED  BY <1>2, <1>3, <1>4, NextPopulationSized DEF Generation, GenerationFails

LEMMA SizedStep ==
  ASSUME FitnessIsInteger, TypeOK, AllSized(pop, Len(seed)), [Next]_vars
  PROVE  AllSized(pop', Len(seed'))
<1>1. CASE Reset \/ InitializeFails
  BY <1>1, EmptySeq DEF Reset, InitializeFails, AllSized
<1>2. ASSUME NEW s \in Seeds, Initialize(s) PROVE AllSized(pop', Len(seed'))
  <2>1. PICK failed \in SUBSET (2..PopSize), variants \in [2..PopSize -> Mutants(s)] :
          pop' = [i \in 1..(PopSize - Cardinality(failed)) |->
                    IF i = 1 THEN s ELSE IF i \in failed THEN Hole ELSE variants[i]]
    BY <1>2 DEF Initialize
  <2>2. PopSize - Cardinality(failed) \in Nat /\ PopSize - Cardinality(failed) <= PopSize
    <3>1. IsFiniteSet(2..PopSize) /\ Cardinality(2..PopSize) = PopSize - 1
      BY FS_Interval, PopAssumption
    <3>2. IsFiniteSet(failed) /\ Cardinality(failed) <= Cardinality(2..PopSize)
      BY <3>1, FS_Subset
    <3>3. QED  BY <3>1, <3>2, FS_CardinalityType, PopAssumption
  <2>3. QED  BY <1>2, <2>1, <2>2, InitialPopulationSized DEF Initialize
<1>3. CASE OneGeneration
  BY <1>3, GenerationSized DEF OneGeneration
<1>4. CASE EvolveGeneration
  BY <1>4, GenerationSized DEF EvolveGeneration
<1>5. CASE EvolveGivesUp
  BY <1>5, GenerationSized DEF EvolveGivesUp
<1>6. ASSUME NEW n \in MaxGens, EvolveBegin(n) PROVE AllSized(pop', Len(seed'))
  BY <1>6 DEF EvolveBegin
<1>7. CASE EvolveReturn \/ ReleaseAborts \/ UNCHANGED vars
  BY <1>7 DEF EvolveReturn, ReleaseAborts, vars
<1>8. QED
  BY <1>1, <1>2, <1>3, <1>4, <1>5, <1>6, <1>7 DEF Next

(* Selection, crossover and mutation keep the length of the seed through   *)
(* every generation, in populations with holes as well.                    *)
THEOREM LengthIsKept ==
  ASSUME FitnessIsInteger
  PROVE  Spec => []LengthOfSeed
<1> DEFINE Inv == AllSized(pop, Len(seed))
<1>1. Init => Inv
  BY EmptySeq DEF Init, AllSized
<1>2. TypeOK /\ Inv /\ [Next]_vars => Inv'
  BY SizedStep DEF AllSized
<1>3. Inv => LengthOfSeed
  BY DEF AllSized, Sized, LengthOfSeed
<1> HIDE DEF Inv
<1>4. QED  BY <1>1, <1>2, <1>3, TypeCorrect, PTL DEF Spec

-----------------------------------------------------------------------------
(* The elites. *)

Reached(p, level) == {i \in DOMAIN p : Fitness(p[i]) >= level}

LEMMA ReachedFinite ==
  ASSUME NEW p \in Seq(Genome), NEW level
  PROVE  /\ IsFiniteSet(Reached(p, level)) /\ Reached(p, level) \subseteq 1..Len(p)
         /\ AtLeast(p, level) = Cardinality(Reached(p, level))
         /\ AtLeast(p, level) \in Nat /\ AtLeast(p, level) <= Len(p)
<1>1. DOMAIN p = 1..Len(p) /\ Len(p) \in Nat
  BY LenProperties
<1>2. IsFiniteSet(1..Len(p)) /\ Cardinality(1..Len(p)) = Len(p)
  BY <1>1, FS_Interval
<1>3. Reached(p, level) \in SUBSET (1..Len(p))
  BY <1>1 DEF Reached
<1>4. AtLeast(p, level) = Cardinality(Reached(p, level))
  BY DEF AtLeast, Reached
<1>5. IsFiniteSet(Reached(p, level)) /\ Cardinality(Reached(p, level)) <= Len(p)
  BY <1>2, <1>3, FS_Subset
<1>6. QED  BY <1>3, <1>4, <1>5, FS_CardinalityType

(* Sorting permutes, so it loses nobody. *)
LEMMA SortedKeeps ==
  ASSUME NEW p \in Seq(Genome), p # << >>, NEW sorted \in Sorted(p), NEW level
  PROVE  AtLeast(p, level) <= AtLeast(sorted, level)
<1>1. sorted \in Seq(Genome)
  BY SortedType
<1>2. DOMAIN p = 1..Len(p) /\ IsFiniteSet(1..Len(p))
  BY LenProperties, FS_Interval
<1>3. PICK g \in [DOMAIN p -> DOMAIN p] :
        /\ \A i, j \in DOMAIN p : g[i] = g[j] => i = j
        /\ sorted = [i \in DOMAIN p |-> p[g[i]]]
  BY DEF Sorted
<1>4. g \in Injection(DOMAIN p, DOMAIN p)
  BY <1>3 DEF Injection, IsInjective
<1>5. g \in Surjection(DOMAIN p, DOMAIN p)
  BY <1>2, <1>4, FS_Injection
<1> DEFINE before == Reached(p, level)
           after  == Reached(sorted, level)
           h      == [i \in after |-> g[i]]
<1>6. \A i \in after : i \in DOMAIN p /\ g[i] \in before
  BY <1>3 DEF Reached
<1>7. \A k \in before : \E i \in after : g[i] = k
  BY <1>3, <1>5 DEF Reached, Surjection
<1>8. h \in Surjection(after, before)
  BY <1>6, <1>7 DEF Surjection
<1> HIDE DEF h, before, after
<1>9. IsFiniteSet(after) => Cardinality(before) <= Cardinality(after)
  BY <1>8, FS_Surjection
<1>10. QED  BY <1>1, <1>9, ReachedFinite DEF before, after

(* A set of numbers closed downwards begins with as many as it has. *)
LEMMA ClosedDownwards ==
  ASSUME NEW n \in Nat, NEW A \in SUBSET (1..n),
         \A i \in A : \A j \in 1..n : j < i => j \in A,
         NEW m \in Nat, m <= Cardinality(A)
  PROVE  1..m \subseteq A
<1> SUFFICES ASSUME NEW j \in 1..m, j \notin A PROVE FALSE
  OBVIOUS
<1>1. IsFiniteSet(1..n) /\ Cardinality(1..n) = n
  BY FS_Interval
<1>2. IsFiniteSet(A) /\ Cardinality(A) <= n /\ Cardinality(A) \in Nat
  BY <1>1, FS_Subset, FS_CardinalityType
<1>3. j \in 1..n
  BY <1>2
<1>4. A \in SUBSET (1..(j - 1))
  <2> SUFFICES ASSUME NEW i \in A PROVE i \in 1..(j - 1)
    OBVIOUS
  <2>1. ~(j < i) /\ i # j
    BY <1>3
  <2>2. QED  BY <2>1
<1>5. IsFiniteSet(1..(j - 1)) /\ Cardinality(1..(j - 1)) = j - 1
  <2>1. j - 1 \in Nat
    OBVIOUS
  <2>2. QED  BY <2>1, FS_Interval
<1>6. Cardinality(A) <= j - 1
  BY <1>4, <1>5, FS_Subset
<1>7. QED  BY <1>2, <1>6

LEMMA EliteElements ==
  ASSUME NEW sorted \in Seq(Genome)
  PROVE  /\ Len(Elites(sorted)) = S!Lesser(EliteCount, Len(sorted))
         /\ \A i \in 1..Len(Elites(sorted)) : Elites(sorted)[i] = sorted[i]
<1> DEFINE n == S!Lesser(EliteCount, Len(sorted))
<1>1. Len(sorted) \in Nat
  BY LenProperties
<1>2. n \in Nat /\ n <= Len(sorted)
  BY <1>1, PopAssumption DEF S!Lesser
<1>3. \A i \in 1..n : sorted[i] \in Genome
  BY <1>1, <1>2, ElementOfSeq
<1> HIDE DEF n
<1>4. /\ Len(SubSeq(sorted, 1, n)) = IF 1 <= n THEN n - 1 + 1 ELSE 0
      /\ \A i \in 1..(n - 1 + 1) : SubSeq(sorted, 1, n)[i] = sorted[1 + i - 1]
  BY <1>2, <1>3, SubSeqProperties
<1>5. QED  BY <1>2, <1>4 DEF Elites, n

(* The next population begins with the elites. *)
LEMMA NextBeginsWithElites ==
  ASSUME FitnessIsInteger, NEW sorted \in Seq(Genome), NEW next \in NextPopulations(sorted),
         NEW i \in 1..S!Lesser(EliteCount, Len(sorted))
  PROVE  i \in DOMAIN next /\ next[i] = sorted[i]
<1> DEFINE elites == Elites(sorted)
<1>1. /\ elites \in Seq(Genome) /\ Len(elites) \in Nat
      /\ i \in 1..Len(elites) /\ elites[i] = sorted[i]
  BY ElitesType, EliteElements
<1> HIDE DEF elites
<1>2. CASE Len(elites) >= PopSize
  <2>1. next = elites
    BY <1>2 DEF NextPopulations, elites
  <2>2. QED  BY <1>1, <2>1, LenProperties
<1>3. CASE ~(Len(elites) >= PopSize)
  <2>1. PopSize - Len(elites) \in Nat
    BY <1>1, <1>3, PopAssumption
  <2>2. PICK children \in Children(sorted, PopSize - Len(elites)) : next = elites \o children
    BY <1>3 DEF NextPopulations, elites
  <2>3. children \in Seq(Genome) /\ Len(children) \in Nat
    BY <2>1, <2>2, ChildrenType
  <2>4. /\ next \in Seq(Genome) /\ Len(next) = Len(elites) + Len(children)
        /\ \A k \in 1..(Len(elites) + Len(children)) :
             next[k] = IF k <= Len(elites) THEN elites[k] ELSE children[k - Len(elites)]
    BY <1>1, <2>2, <2>3, ConcatProperties
  <2>5. i \in 1..(Len(elites) + Len(children)) /\ i <= Len(elites)
    BY <1>1, <2>3
  <2>6. QED  BY <1>1, <2>4, <2>5, LenProperties
<1>4. QED  BY <1>2, <1>3

LEMMA ElitesReach ==
  ASSUME FitnessIsInteger, NEW p \in Seq(Genome), p # << >>, Len(p) <= PopSize,
         NEW sorted \in Sorted(p), NEW next \in NextPopulations(sorted), NEW level \in Int
  PROVE  AtLeast(next, level) >= S!Lesser(EliteCount, AtLeast(p, level))
<1> DEFINE m == S!Lesser(EliteCount, AtLeast(p, level))
<1>1. sorted \in Seq(Genome) /\ Len(sorted) = Len(p) /\ Len(sorted) \in Nat
      /\ DOMAIN sorted = 1..Len(sorted)
  BY SortedType, LenProperties
<1>2. /\ AtLeast(p, level) \in Nat /\ AtLeast(p, level) <= Len(sorted)
      /\ AtLeast(p, level) <= AtLeast(sorted, level) /\ AtLeast(sorted, level) \in Nat
      /\ AtLeast(sorted, level) = Cardinality(Reached(sorted, level))
      /\ Reached(sorted, level) \subseteq 1..Len(sorted)
  BY <1>1, ReachedFinite, SortedKeeps
<1>3. /\ m \in Nat /\ m <= Cardinality(Reached(sorted, level))
      /\ m <= S!Lesser(EliteCount, Len(sorted))
  BY <1>1, <1>2, PopAssumption DEF S!Lesser
<1>4. ASSUME NEW i \in Reached(sorted, level), NEW j \in 1..Len(sorted), j < i
      PROVE  j \in Reached(sorted, level)
  <2>1. i \in DOMAIN sorted /\ Fitness(sorted[i]) >= level
    BY DEF Reached
  <2>2. PICK g \in [DOMAIN p -> DOMAIN p] :
          /\ \A a, b \in DOMAIN p : a < b => Fitness(p[g[a]]) >= Fitness(p[g[b]])
          /\ sorted = [a \in DOMAIN p |-> p[g[a]]]
    BY DEF Sorted
  <2>3. Fitness(sorted[j]) >= Fitness(sorted[i])
    BY <1>1, <1>4, <2>1, <2>2
  <2>4. Fitness(sorted[j]) \in Int /\ Fitness(sorted[i]) \in Int
    BY <1>1, <2>1, ElementOfSeq DEF FitnessIsInteger
  <2>5. QED  BY <1>1, <2>1, <2>3, <2>4 DEF Reached
<1> HIDE DEF m
<1>5. 1..m \subseteq Reached(sorted, level)
  BY <1>1, <1>2, <1>3, <1>4, ClosedDownwards
<1>6. 1..m \subseteq Reached(next, level)
  <2> SUFFICES ASSUME NEW i \in 1..m PROVE i \in Reached(next, level)
    OBVIOUS
  <2>1. i \in 1..S!Lesser(EliteCount, Len(sorted))
    BY <1>1, <1>3, PopAssumption DEF S!Lesser
  <2>2. i \in DOMAIN next /\ next[i] = sorted[i]
    BY <1>1, <2>1, NextBeginsWithElites
  <2>3. QED  BY <1>5, <2>2 DEF Reached
<1>7. next \in Seq(Genome)
  BY <1>1, NextPopulationType DEF Population
<1>8. Cardinality(1..m) = m
  BY <1>3, FS_Interval
<1>9. Cardinality(1..m) <= AtLeast(next, level) /\ AtLeast(next, level) \in Nat
  <2>1. /\ IsFiniteSet(Reached(next, level)) /\ AtLeast(next, level) \in Nat
        /\ AtLeast(next, level) = Cardinality(Reached(next, level))
    BY <1>7, ReachedFinite
  <2>2. 1..m \in SUBSET Reached(next, level)
    BY <1>6
  <2>3. QED  BY <2>1, <2>2, FS_Subset
<1>10. QED  BY <1>3, <1>8, <1>9 DEF m

LEMMA GenerationKeepsElites ==
  ASSUME FitnessIsInteger, TypeOK, NEW sorted, Generation(sorted), NEW i \in DOMAIN pop
  PROVE  LET level == Fitness(pop[i])
         IN  AtLeast(pop', level) >= S!Lesser(EliteCount, AtLeast(pop, level))
<1>1. /\ pop # << >> /\ sorted \in Sorted(pop) /\ pop' \in NextPopulations(sorted)
      /\ pop \in Seq(Genome) /\ Len(pop) <= PopSize
  BY DEF Generation, Evaluated, TypeOK
<1>2. pop[i] \in Genome
  BY <1>1, LenProperties, ElementOfSeq
<1>3. Fitness(pop[i]) \in Int
  BY <1>2 DEF FitnessIsInteger
<1>4. QED  BY <1>1, <1>3, ElitesReach

(* After a generation there are at every level of fitness as many          *)
(* individuals as before it, up to elite_count: the best of a population   *)
(* are never worse than those of the one before.                           *)
THEOREM ElitesAreKept ==
  ASSUME FitnessIsInteger
  PROVE  Spec => ElitesSurvive
<1> DEFINE Kept == did' = "generation"
                     => \A i \in DOMAIN pop :
                          LET level == Fitness(pop[i])
                          IN  AtLeast(pop', level) >= S!Lesser(EliteCount, AtLeast(pop, level))
<1>1. ASSUME TypeOK, Next PROVE Kept
  <2>1. CASE OneGeneration
    BY <1>1, <2>1, GenerationKeepsElites DEF OneGeneration, GenerationFails
  <2>2. CASE EvolveGeneration
    BY <1>1, <2>2, GenerationKeepsElites DEF EvolveGeneration
  <2>3. CASE ~OneGeneration /\ ~EvolveGeneration
    <3>1. did' # "generation"
      BY <1>1, <2>3 DEF Next, Reset, Initialize, InitializeFails, EvolveBegin,
                        EvolveGivesUp, GenerationFails, EvolveReturn, ReleaseAborts
    <3>2. QED  BY <3>1
  <2>4. QED  BY <2>1, <2>2, <2>3
<1>2. TypeOK /\ [Next]_vars => [Kept]_vars
  BY <1>1
<1> HIDE DEF Kept
<1>3. Spec => [][Kept]_vars
  BY <1>2, TypeCorrect, PTL DEF Spec
<1>4. QED  BY <1>3 DEF ElitesSurvive, Kept

-----------------------------------------------------------------------------
(* The memory behind the search.                                           *)

(* What a destruction makes of the heap h that has only these blocks to    *)
(* free.                                                                   *)
Heaps(h, gone) ==
  {d \in [live : SUBSET h.live, broken : BOOLEAN] : h.live \ gone \subseteq d.live}

LEMMA FreeLeaves ==
  ASSUME NEW h, NEW gone, NEW d \in Heaps(h, gone), NEW block \in gone \cup {O!Null},
         NEW offset
  PROVE  O!Free(d, block, offset) \in Heaps(h, gone)
  BY DEF Heaps, O!Free

LEMMA ReadLeaves ==
  ASSUME NEW h, NEW gone, NEW d \in Heaps(h, gone), NEW block
  PROVE  O!Read(d, block) \in Heaps(h, gone)
  BY DEF Heaps, O!Read

LEMMA IndividualLeaves ==
  ASSUME NEW h, NEW gone, NEW d \in Heaps(h, gone), NEW offset,
         NEW block \in gone \cup {O!Null}, NEW genes \in gone \cup {O!Null}
  PROVE  O!DestroyIndividual(d, block, offset, genes) \in Heaps(h, gone)
  BY FreeLeaves, ReadLeaves, Zenon DEF O!DestroyIndividual

LEMMA PopulationLeaves ==
  ASSUME NEW h \in [live : SUBSET Int, broken : BOOLEAN], NEW p, NEW n \in Nat,
         n = Len(p.slots), NEW gone,
         p.array \in gone, \A i \in 1..n : p.slots[i] \in gone \cup {O!Null}
  PROVE  O!DestroyPopulation(h, p) \in Heaps(h, gone)
<1> DEFINE destroyed == Heaps(h, gone)
           Destroyed(d, i) == O!DestroyIndividual(d, p.array, i - 1, p.slots[i])
           step == [i \in Nat |-> [d \in destroyed |-> IF i \in 1..n THEN Destroyed(d, i) ELSE d]]
           After(g) == g = [i \in 0..n |-> IF i = 0 THEN h ELSE Destroyed(g[i - 1], i)]
<1>1. h \in destroyed
  BY DEF Heaps
<1>2. \A d \in destroyed, i \in 1..n : Destroyed(d, i) \in destroyed
  BY IndividualLeaves, Zenon
<1> HIDE DEF destroyed, Destroyed
<1>3. step \in Steps(destroyed)
  BY <1>2 DEF Steps
<1>4. PICK f \in [0..n -> destroyed] : Iterates(f, n, h, step)
  <2> HIDE DEF step
  <2> QED  BY <1>1, <1>3, Iteration, Zenon
<1>5. \A i \in 0..n : f[i] = IF i = 0 THEN h ELSE Destroyed(f[i - 1], i)
  <2>1. \A i \in 1..n, d \in destroyed : step[i][d] = Destroyed(d, i)
    OBVIOUS
  <2> HIDE DEF step
  <2> QED  BY <1>4, <2>1 DEF Iterates
<1>6. After(f)
  BY <1>5
<1> DEFINE after == CHOOSE g : After(g)
<1>7. O!DestroyPopulation(h, p) = O!Free(after[n], p.array, 0)
  BY Zenon DEF O!DestroyPopulation, Destroyed
<1>8. After(after)
  <2> HIDE DEF After
  <2> QED  BY <1>6, Zenon
<1> HIDE DEF after, step
<1>9. after[0] = h /\ \A i \in 1..n : after[i] = Destroyed(after[i - 1], i)
  <2>1. after = [i \in 0..n |-> IF i = 0 THEN h ELSE Destroyed(after[i - 1], i)]
    BY <1>8
  <2>2. \A i \in 0..n : after[i] = IF i = 0 THEN h ELSE Destroyed(after[i - 1], i)
    BY <2>1
  <2> QED  BY <2>2
<1> DEFINE P == {i \in 0..n : after[i] \in destroyed}
<1>10. 0 \in P /\ \A i \in 1..n : i - 1 \in P => i \in P
  BY <1>1, <1>2, <1>9
<1> HIDE DEF P
<1>11. 0..n \subseteq P
  BY <1>10, IntervalInduction, Zenon
<1>12. after[n] \in destroyed
  BY <1>11 DEF P
<1>13. p.array \in gone \cup {O!Null}
  OBVIOUS
<1>14. O!Free(after[n], p.array, 0) \in destroyed
  BY <1>12, <1>13, FreeLeaves, Zenon DEF destroyed
<1> QED  BY <1>7, <1>14, Zenon DEF destroyed

LEMMA HeapsCompose ==
  ASSUME NEW h, NEW g1, NEW g2, NEW d \in Heaps(h, g1), NEW e \in Heaps(d, g2)
  PROVE  e \in Heaps(h, g1 \cup g2)
  BY DEF Heaps

-----------------------------------------------------------------------------
(* The inductive invariant: the blocks of a population and those of a      *)
(* best_ever are live, and none has two uses.                              *)

PopulationBlocks(p) ==
  IF p = None THEN {}
  ELSE ({p.array} \cup {p.slots[i] : i \in 1..Len(p.slots)}) \ {O!Null}

BestBlocks(b) == IF b = None THEN {} ELSE {b.self, b.genes} \ {O!Null}

PopulationOK(p) ==
  p = None \/ /\ p \in [array : Nat \ {O!Null}, slots : Seq(Nat)]
              /\ Len(p.slots) \in 1..PopSize
              /\ \A i, j \in 1..Len(p.slots) :
                   p.slots[i] = p.slots[j] /\ p.slots[i] # O!Null => i = j
              /\ \A i \in 1..Len(p.slots) : p.slots[i] # p.array

BestOK(b) ==
  b = None \/ (b.self \in Nat \ {O!Null} /\ b.genes \in Nat /\ b.self # b.genes)

Owned ==
  /\ live \subseteq 1..used /\ used \in 0..MaxBlocks
  /\ broken \in BOOLEAN /\ running \in BOOLEAN
  /\ PopulationOK(population) /\ BestOK(bestEver)
  /\ PopulationBlocks(population) \subseteq live /\ BestBlocks(bestEver) \subseteq live
  /\ PopulationBlocks(population) \cap BestBlocks(bestEver) = {}

LEMMA HeapIsHeap ==
  ASSUME Owned, NEW gone
  PROVE  /\ O!Heap \in Heaps(O!Heap, gone) /\ O!Heap.live = live
         /\ O!Heap.broken = FALSE /\ O!Heap \in [live : SUBSET Int, broken : BOOLEAN]
  BY DEF Heaps, O!Heap, Owned

LEMMA WithoutPopulationLeaves ==
  ASSUME NEW h \in [live : SUBSET Int, broken : BOOLEAN], NEW p, PopulationOK(p)
  PROVE  /\ O!WithoutPopulation(h, p) \in Heaps(h, PopulationBlocks(p))
         /\ O!WithoutPopulation(h, p) \in [live : SUBSET Int, broken : BOOLEAN]
         /\ p # None => O!DestroyPopulation(h, p) \in Heaps(h, PopulationBlocks(p))
<1> DEFINE gone == PopulationBlocks(p)
<1>1. CASE p = None
  BY <1>1 DEF O!WithoutPopulation, Heaps
<1>2. CASE p # None
  <2>1. Len(p.slots) \in Nat /\ p.array \in gone
    BY <1>2 DEF PopulationOK, PopulationBlocks
  <2>2. \A i \in 1..Len(p.slots) : p.slots[i] \in gone \cup {O!Null}
    BY <1>2 DEF PopulationBlocks
  <2> HIDE DEF gone
  <2>3. O!DestroyPopulation(h, p) \in Heaps(h, gone)
    BY <2>1, <2>2, PopulationLeaves, Zenon
  <2>4. O!WithoutPopulation(h, p) = O!DestroyPopulation(h, p)
    BY <1>2 DEF O!WithoutPopulation
  <2>5. Heaps(h, gone) \subseteq [live : SUBSET Int, broken : BOOLEAN]
    BY DEF Heaps
  <2> QED  BY <2>3, <2>4, <2>5 DEF gone
<1> QED  BY <1>1, <1>2

LEMMA WithoutBestLeaves ==
  ASSUME NEW h \in [live : SUBSET Int, broken : BOOLEAN], NEW b, BestOK(b)
  PROVE  /\ O!WithoutBest(h, b) \in Heaps(h, BestBlocks(b))
         /\ O!WithoutBest(h, b) \in [live : SUBSET Int, broken : BOOLEAN]
         /\ BestBlocks(b) \subseteq h.live => O!WithoutBest(h, b).broken = h.broken
<1>1. CASE b = None
  BY <1>1 DEF O!WithoutBest, Heaps
<1>2. CASE b # None
  <2>1. /\ b.self \in BestBlocks(b) /\ b.self # O!Null /\ b.self # b.genes
        /\ b.genes \in BestBlocks(b) \cup {O!Null}
    BY <1>2 DEF BestOK, BestBlocks
  <2>2. O!WithoutBest(h, b) = O!DestroyIndividual(h, b.self, 0, b.genes)
    BY <1>2 DEF O!WithoutBest
  <2>3. h \in Heaps(h, BestBlocks(b))
    BY DEF Heaps
  <2>4. O!WithoutBest(h, b) \in Heaps(h, BestBlocks(b))
    BY <2>1, <2>2, <2>3, IndividualLeaves
  <2>5. ASSUME BestBlocks(b) \subseteq h.live
        PROVE  O!WithoutBest(h, b).broken = h.broken
    <3>1. b.self \in h.live /\ (b.genes # O!Null => b.genes \in h.live)
      BY <2>1, <2>5
    <3>2. O!Read(h, b.self) = h
      BY <3>1 DEF O!Read
    <3> DEFINE d == O!Free(h, b.genes, 0)
    <3>3. d.broken = h.broken /\ b.self \in d.live
      BY <2>1, <3>1 DEF O!Free
    <3> HIDE DEF d
    <3>4. O!Free(d, b.self, 0) = [d EXCEPT !.live = @ \ {b.self}]
      BY <2>1, <3>3 DEF O!Free
    <3>5. O!WithoutBest(h, b) = O!Free(d, b.self, 0)
      BY <2>2, <3>2 DEF O!DestroyIndividual, d
    <3>6. d \in [live : SUBSET Int, broken : BOOLEAN]
      BY DEF d, O!Free
    <3> QED  BY <3>3, <3>4, <3>5, <3>6
  <2> QED  BY <2>4, <2>5 DEF Heaps
<1> QED  BY <1>1, <1>2

(* A step keeps Owned if what it leaves to hold is new or was not freed.   *)
LEMMA LeavesOwned ==
  ASSUME Owned, NEW gone, NEW h \in Heaps(O!Heap, gone), NEW pointers, NEW n \in Nat,
         O!Leaves(h, pointers, n), used + n <= MaxBlocks, MaxBlocks \in Nat,
         PopulationOK(population'), BestOK(bestEver'),
         PopulationBlocks(population') \cup BestBlocks(bestEver')
           \subseteq (live \ gone) \cup (pointers \cap ((used + 1)..(used + n))),
         PopulationBlocks(population') \cap BestBlocks(bestEver') = {}
  PROVE  Owned'
<1>0. h.broken \in BOOLEAN
  BY DEF Heaps
<1>1. /\ live' = h.live \cup (pointers \cap ((used + 1)..(used + n)))
      /\ used' = used + n /\ broken' \in BOOLEAN /\ running' \in BOOLEAN
  <2>1. broken' = (broken \/ h.broken) /\ running' \in {TRUE, ~ h.broken}
    BY Zenon DEF O!Leaves
  <2>2. broken' \in BOOLEAN
    <3>1. \A x, y \in BOOLEAN : (x \/ y) \in BOOLEAN
      BY Zenon
    <3> QED  BY <1>0, <2>1, <3>1, Zenon DEF Owned
  <2>3. running' \in BOOLEAN
    <3>1. \A x \in BOOLEAN : (~ x) \in BOOLEAN
      BY Zenon
    <3> QED  BY <1>0, <2>1, <3>1, Zenon
  <2> QED  BY <2>2, <2>3, Zenon DEF O!Leaves
<1>2. h.live \subseteq live /\ live \ gone \subseteq h.live
  BY HeapIsHeap DEF Heaps
<1>3. used' \in 0..MaxBlocks /\ live' \subseteq 1..used'
  <2>1. used \in Nat /\ live \subseteq 1..used
    BY DEF Owned
  <2>2. 1..used \subseteq 1..(used + n) /\ (used + 1)..(used + n) \subseteq 1..(used + n)
    BY <2>1
  <2>3. used' = used + n /\ used' \in 0..MaxBlocks
    BY <1>1, <2>1
  <2>4. live' \subseteq 1..(used + n)
    BY <1>1, <1>2, <2>1, <2>2
  <2> QED  BY <2>3, <2>4
<1>4. /\ PopulationBlocks(population') \subseteq live'
      /\ BestBlocks(bestEver') \subseteq live'
  BY <1>1, <1>2
<1>5. /\ PopulationBlocks(population)' = PopulationBlocks(population')
      /\ BestBlocks(bestEver)' = BestBlocks(bestEver')
      /\ PopulationOK(population)' = PopulationOK(population')
      /\ BestOK(bestEver)' = BestOK(bestEver')
  BY DEF PopulationBlocks, BestBlocks, PopulationOK, BestOK
<1> QED  BY <1>1, <1>3, <1>4, <1>5 DEF Owned

LEMMA HeapLeft ==
  ASSUME Owned
  PROVE  /\ O!WithoutPopulation(O!Heap, population)
              \in Heaps(O!Heap, PopulationBlocks(population))
         /\ O!WithoutBest(O!WithoutPopulation(O!Heap, population), bestEver)
              \in Heaps(O!Heap, PopulationBlocks(population) \cup BestBlocks(bestEver))
<1>1. O!Heap \in [live : SUBSET Int, broken : BOOLEAN]
  BY HeapIsHeap
<1>2. PopulationOK(population) /\ BestOK(bestEver)
  BY DEF Owned
<1>3. /\ O!WithoutPopulation(O!Heap, population)
            \in Heaps(O!Heap, PopulationBlocks(population))
      /\ O!WithoutPopulation(O!Heap, population) \in [live : SUBSET Int, broken : BOOLEAN]
  BY <1>1, <1>2, WithoutPopulationLeaves, Zenon
<1>4. O!WithoutBest(O!WithoutPopulation(O!Heap, population), bestEver)
        \in Heaps(O!WithoutPopulation(O!Heap, population), BestBlocks(bestEver))
  BY <1>2, <1>3, WithoutBestLeaves, Zenon
<1> QED  BY <1>3, <1>4, HeapsCompose, Zenon

LEMMA NothingIsOwned ==
  ASSUME NEW p, NEW b, p = None, b = None
  PROVE  /\ PopulationOK(p) /\ BestOK(b)
         /\ PopulationBlocks(p) = {} /\ BestBlocks(b) = {}
  BY DEF PopulationOK, BestOK, PopulationBlocks, BestBlocks

LEMMA CardinalityIsSame == \A set : O!Cardinality(set) = Cardinality(set)
  BY Zenon DEF O!Cardinality, Cardinality

LEMMA InitializeOwned ==
  ASSUME Owned, O!Initialize, MaxBlocks \in Nat
  PROVE  Owned'
<1> DEFINE array == used + 1
           place(failed) == [i \in 1..PopSize |-> IF i \in failed THEN O!Null ELSE array + i]
           size(failed) == PopSize - Cardinality(failed)
<1>1. PICK failed \in SUBSET (2..PopSize) :
        /\ array + PopSize <= MaxBlocks
        /\ O!Leaves(O!WithoutPopulation(O!Heap, population),
                    {array} \cup O!Range(place(failed)), 1 + PopSize)
        /\ population' = [array |-> array, slots |-> SubSeq(place(failed), 1, size(failed))]
        /\ bestEver' = bestEver
  BY CardinalityIsSame, Zenon DEF O!Initialize
<1> DEFINE pl == place(failed)
           n == size(failed)
           slots == SubSeq(pl, 1, n)
           p == [array |-> array, slots |-> slots]
           new == {array} \cup O!Range(pl)
<1>2. PopSize \in Nat \ {0} /\ used \in Nat
  BY PopAssumption DEF Owned
<1>3. n \in 1..PopSize
  <2>1. IsFiniteSet(2..PopSize) /\ Cardinality(2..PopSize) = PopSize - 1
    BY <1>2, FS_Interval
  <2>2. Cardinality(failed) \in Nat /\ Cardinality(failed) <= PopSize - 1
    BY <2>1, FS_Subset, FS_CardinalityType
  <2> QED  BY <1>2, <2>2
<1> HIDE DEF n
<1>4. /\ slots \in Seq(Nat) /\ Len(slots) = n
      /\ \A i \in 1..n : slots[i] = IF i \in failed THEN O!Null ELSE array + i
  <2>1. \A i \in 1..n : pl[i] = (IF i \in failed THEN O!Null ELSE array + i) /\ pl[i] \in Nat
    BY <1>2, <1>3 DEF O!Null
  <2> HIDE DEF pl
  <2> QED  BY <1>3, <2>1, SubSeqProperties
<1>5. \A i \in 1..n : slots[i] = O!Null \/ slots[i] \in new
  <2>1. \A i \in 1..n : pl[i] \in O!Range(pl) /\ slots[i] = pl[i]
    BY <1>2, <1>3, <1>4 DEF O!Range
  <2> QED  BY <2>1
<1> HIDE DEF slots, new
<1>6. p.array = array /\ p.slots = slots /\ p \in [array : Nat \ {O!Null}, slots : Seq(Nat)]
  <2>1. array \in Nat \ {O!Null}
    BY <1>2 DEF O!Null
  <2> HIDE DEF array, slots
  <2> QED  BY <1>4, <2>1
<1> HIDE DEF p
<1>7. PopulationOK(p)
  BY <1>2, <1>3, <1>4, <1>6 DEF PopulationOK, O!Null
<1>8. PopulationBlocks(p) \subseteq new \cap ((used + 1)..(used + (1 + PopSize)))
  <2>1. \A i \in 1..n : slots[i] = O!Null \/ slots[i] \in (used + 1)..(used + (1 + PopSize))
    BY <1>2, <1>3, <1>4
  <2>2. array \in new /\ array \in (used + 1)..(used + (1 + PopSize))
    BY <1>2 DEF new
  <2> HIDE DEF array
  <2> QED  BY <1>4, <1>5, <1>6, <2>1, <2>2 DEF PopulationBlocks
<1>9. BestBlocks(bestEver) \subseteq live \ PopulationBlocks(population)
  BY DEF Owned
<1>10. PopulationBlocks(p) \cap BestBlocks(bestEver) = {}
  <2>1. \A x \in BestBlocks(bestEver) : x \notin (used + 1)..(used + (1 + PopSize))
    BY <1>2 DEF Owned
  <2> QED  BY <1>8, <2>1
<1>11. population' = p /\ bestEver' = bestEver /\ BestOK(bestEver)
  BY <1>1 DEF Owned, p, slots, n
<1>12. O!Leaves(O!WithoutPopulation(O!Heap, population), new, 1 + PopSize)
  BY <1>1 DEF new
<1>13. 1 + PopSize \in Nat /\ used + (1 + PopSize) <= MaxBlocks
  BY <1>1, <1>2
<1> QED  BY <1>7, <1>8, <1>9, <1>10, <1>11, <1>12, <1>13, HeapLeft, LeavesOwned

LEMMA EndsOwned ==
  ASSUME Owned, MaxBlocks \in Nat, O!InitializeFails \/ O!Reset \/ O!DestroyVM
  PROVE  Owned'
<1>1. used + 0 <= MaxBlocks /\ 0 \in Nat
  BY DEF Owned
<1>2. CASE O!InitializeFails
  <2>1. /\ O!Leaves(O!WithoutPopulation(O!Heap, population), {}, 0)
        /\ population' = None /\ bestEver' = bestEver
    BY <1>2 DEF O!InitializeFails
  <2>2. PopulationOK(population') /\ PopulationBlocks(population') = {} /\ BestOK(bestEver')
    BY <2>1 DEF PopulationOK, PopulationBlocks, Owned
  <2>3. BestBlocks(bestEver') \subseteq live \ PopulationBlocks(population)
    BY <2>1 DEF Owned
  <2> QED  BY <1>1, <2>1, <2>2, <2>3, HeapLeft, LeavesOwned
<1>3. CASE O!Reset
  BY <1>3, NothingIsOwned DEF O!Reset, Owned
<1>4. CASE O!DestroyVM
  <2>1. /\ O!Leaves(O!WithoutBest(O!WithoutPopulation(O!Heap, population), bestEver), {}, 0)
        /\ population' = None /\ bestEver' = None
    BY <1>4 DEF O!DestroyVM
  <2> QED  BY <1>1, <2>1, NothingIsOwned, HeapLeft, LeavesOwned
<1> QED  BY <1>2, <1>3, <1>4

(* What is freed when next becomes the best_ever.                          *)
Replaced(next) == IF next = bestEver THEN {} ELSE BestBlocks(bestEver)

LEMMA BestLeaves ==
  ASSUME Owned, NEW next
  PROVE  /\ O!HeapAfter(next) \in Heaps(O!Heap, Replaced(next))
         /\ O!HeapAfter(next) \in [live : SUBSET Int, broken : BOOLEAN]
         /\ O!HeapAfter(next).broken = FALSE
<1>1. /\ O!Heap \in [live : SUBSET Int, broken : BOOLEAN] /\ O!Heap \in Heaps(O!Heap, {})
      /\ O!Heap.live = live /\ O!Heap.broken = FALSE
  BY HeapIsHeap
<1>2. BestOK(bestEver) /\ BestBlocks(bestEver) \subseteq live
  BY DEF Owned
<1>3. /\ O!WithoutBest(O!Heap, bestEver) \in Heaps(O!Heap, BestBlocks(bestEver))
      /\ O!WithoutBest(O!Heap, bestEver) \in [live : SUBSET Int, broken : BOOLEAN]
      /\ O!WithoutBest(O!Heap, bestEver).broken = FALSE
  BY <1>1, <1>2, WithoutBestLeaves
<1> QED  BY <1>1, <1>3, Zenon DEF O!HeapAfter, Replaced

(* The next best_ever is the one before, or new, or none.                  *)
LEMMA NextBest ==
  ASSUME Owned, NEW winner, NEW next \in O!BestsAfter(winner, used + 1), NEW more
  PROVE  LET made == IF next \in {bestEver, None} THEN {} ELSE {next.self, next.genes}
         IN  /\ BestOK(next)
             /\ BestBlocks(next)
                  \subseteq (live \ Replaced(next)) \cup (made \cap {used + 1, used + 2})
             /\ BestBlocks(next) \subseteq BestBlocks(bestEver) \cup {used + 1, used + 2}
<1>1. used \in Nat
  BY DEF Owned
<1>2. CASE next = bestEver
  BY <1>2 DEF Owned, Replaced
<1>3. CASE next = None
  BY <1>3 DEF BestOK, BestBlocks
<1>4. CASE next \notin {bestEver, None}
  <2>1. next = O!BestOf(winner, used + 1)
    BY <1>4 DEF O!BestsAfter
  <2>2. next.self = used + 1 /\ next.genes \in {O!Null, used + 2}
    BY <1>1, <2>1 DEF O!BestOf
  <2>3. BestOK(next)
    BY <1>1, <2>2 DEF BestOK, O!Null
  <2>4. BestBlocks(next) \subseteq {next.self, next.genes} \cap {used + 1, used + 2}
    BY <1>4, <2>2 DEF BestBlocks
  <2> QED  BY <1>4, <2>3, <2>4
<1> QED  BY <1>2, <1>3, <1>4

LEMMA GenerationOwned ==
  ASSUME Owned, O!Generation, MaxBlocks \in Nat
  PROVE  Owned'
<1> DEFINE array == used + 3
           count(sorted) == IF EliteCount < Len(sorted) THEN EliteCount ELSE Len(sorted)
           place(sorted, barren) ==
             [i \in 1..PopSize |->
                IF i <= count(sorted) THEN O!Elite(sorted[i], array + i)
                ELSE IF i \in barren THEN O!Null ELSE array + i]
           copies(next) == IF next \in {bestEver, None} THEN {} ELSE {next.self, next.genes}
<1>1. PICK sorted \in O!Orders(population.slots) :
        \E next \in O!BestsAfter(sorted[1], used + 1), barren \in SUBSET (1..PopSize) :
        /\ O!Leaves(O!DestroyPopulation(O!HeapAfter(next), population),
                    {array} \cup {place(sorted, barren)[i] : i \in 1..PopSize}
                      \cup copies(next),
                    3 + PopSize)
        /\ population' = [array |-> array, slots |-> place(sorted, barren)]
        /\ bestEver' = next
  BY Zenon DEF O!Generation
<1>2. PICK next \in O!BestsAfter(sorted[1], used + 1), barren \in SUBSET (1..PopSize) :
        /\ O!Leaves(O!DestroyPopulation(O!HeapAfter(next), population),
                    {array} \cup {place(sorted, barren)[i] : i \in 1..PopSize}
                      \cup copies(next),
                    3 + PopSize)
        /\ population' = [array |-> array, slots |-> place(sorted, barren)]
        /\ bestEver' = next
  BY <1>1, Zenon
<1>3. population # None /\ used + 3 + PopSize <= MaxBlocks
  BY DEF O!Generation
<1> DEFINE slots == place(sorted, barren)
           p == [array |-> array, slots |-> slots]
           new == {array} \cup {slots[i] : i \in 1..PopSize} \cup copies(next)
           range == (used + 1)..(used + (3 + PopSize))
           gone == Replaced(next) \cup PopulationBlocks(population)
           h == O!DestroyPopulation(O!HeapAfter(next), population)
<1>4. PopSize \in Nat \ {0} /\ used \in Nat
  BY PopAssumption DEF Owned
<1>5. \A i \in 1..PopSize : slots[i] \in {O!Null, array + i}
  BY DEF O!Elite
<1>6. slots \in Seq(Nat) /\ Len(slots) = PopSize
  <2>1. slots \in [1..PopSize -> Nat]
    <3>1. \A i \in 1..PopSize : slots[i] \in Nat
      BY <1>4, <1>5 DEF O!Null
    <3> HIDE DEF place
    <3>2. slots = [i \in 1..PopSize |-> slots[i]]
      BY DEF place
    <3> HIDE DEF slots
    <3> QED  BY <3>1, <3>2
  <2> HIDE DEF slots
  <2> QED  BY <1>4, <2>1, SequenceByIndex
<1>7. p.array = array /\ p.slots = slots /\ p \in [array : Nat \ {O!Null}, slots : Seq(Nat)]
  <2>1. array \in Nat \ {O!Null}
    BY <1>4 DEF O!Null
  <2> HIDE DEF array, slots
  <2> QED  BY <1>6, <2>1
<1>8. population' = p /\ bestEver' = next /\ O!Leaves(h, new, 3 + PopSize)
  BY <1>2
<1> HIDE DEF slots, p, h
<1>9. PopulationOK(p)
  BY <1>4, <1>5, <1>6, <1>7 DEF PopulationOK, O!Null
<1>10. PopulationBlocks(p) \subseteq new \cap ((used + 3)..(used + (3 + PopSize)))
  <2>1. /\ array \in new /\ array \in (used + 3)..(used + (3 + PopSize))
        /\ \A i \in 1..PopSize : slots[i] \in new
        /\ \A i \in 1..PopSize :
             slots[i] = O!Null \/ slots[i] \in (used + 3)..(used + (3 + PopSize))
    BY <1>4, <1>5
  <2> HIDE DEF array, new
  <2> QED  BY <1>6, <1>7, <2>1 DEF PopulationBlocks
<1>11. /\ BestOK(next)
       /\ BestBlocks(next)
            \subseteq (live \ Replaced(next)) \cup (copies(next) \cap {used + 1, used + 2})
       /\ BestBlocks(next) \subseteq BestBlocks(bestEver) \cup {used + 1, used + 2}
  BY NextBest
<1>12. h \in Heaps(O!Heap, gone)
  <2>1. /\ O!HeapAfter(next) \in Heaps(O!Heap, Replaced(next))
        /\ O!HeapAfter(next) \in [live : SUBSET Int, broken : BOOLEAN]
    BY BestLeaves
  <2>2. h \in Heaps(O!HeapAfter(next), PopulationBlocks(population))
    BY <1>3, <2>1, WithoutPopulationLeaves DEF Owned, h
  <2> QED  BY <2>1, <2>2, HeapsCompose
<1>13. PopulationBlocks(p) \subseteq new \cap range
  BY <1>4, <1>10
<1>14. BestBlocks(next) \subseteq (live \ gone) \cup (new \cap range)
  <2>1. {used + 1, used + 2} \subseteq range /\ range \cap live = {}
    BY <1>4 DEF Owned
  <2>2. PopulationBlocks(population) \cap BestBlocks(bestEver) = {}
    BY DEF Owned
  <2>3. PopulationBlocks(population) \subseteq live
    BY DEF Owned
  <2>4. copies(next) \subseteq new
    OBVIOUS
  <2>5. ASSUME NEW x \in BestBlocks(next), x \notin new \cap range
        PROVE  x \in live \ gone
    <3>1. x \in live \ Replaced(next) /\ x \in BestBlocks(bestEver)
      <4>1. x \notin copies(next) \cap {used + 1, used + 2}
        BY <2>1, <2>4, <2>5
      <4>2. x \in live \ Replaced(next)
        BY <1>11, <4>1, Zenon
      <4>3. x \notin {used + 1, used + 2}
        BY <2>1, <4>2
      <4> QED  BY <1>11, <4>2, <4>3
    <3> QED  BY <2>2, <3>1
  <2> QED  BY <2>5
<1>15. PopulationBlocks(p) \cap BestBlocks(next) = {}
  <2>1. \A x \in BestBlocks(bestEver) \cup {used + 1, used + 2} :
          x \notin (used + 3)..(used + (3 + PopSize))
    BY <1>4 DEF Owned
  <2> QED  BY <1>10, <1>11, <2>1
<1>16. 3 + PopSize \in Nat /\ used + (3 + PopSize) <= MaxBlocks
  BY <1>3, <1>4
<1> HIDE DEF new, gone
<1> QED  BY <1>8, <1>9, <1>11, <1>12, <1>13, <1>14, <1>15, <1>16, LeavesOwned

LEMMA OrderedPlaces ==
  ASSUME NEW p, p # None, PopulationOK(p), NEW sorted \in O!Orders(p.slots), NEW q,
         q = [p EXCEPT !.slots = sorted]
  PROVE  PopulationOK(q) /\ PopulationBlocks(q) \subseteq PopulationBlocks(p)
<1> DEFINE n == Len(p.slots)
<1>1. p.slots \in Seq(Nat) /\ n \in 1..PopSize /\ n \in Nat /\ DOMAIN p.slots = 1..n
  BY LenProperties, PopAssumption DEF PopulationOK
<1>2. PICK f \in [1..n -> 1..n] :
        /\ \A i, j \in 1..n : f[i] = f[j] => i = j
        /\ sorted = [i \in 1..n |-> p.slots[f[i]]]
  <2> DEFINE d == DOMAIN p.slots
  <2>1. PICK f \in [d -> d] : /\ \A i, j \in d : f[i] = f[j] => i = j
                              /\ sorted = [i \in d |-> p.slots[f[i]]]
    BY DEF O!Orders
  <2>2. d = 1..n
    BY <1>1
  <2> HIDE DEF d
  <2> QED  BY <2>1, <2>2
<1> HIDE DEF n
<1>3. sorted \in [1..n -> Nat]
  <2>1. \A i \in 1..n : p.slots[f[i]] \in Nat
    BY <1>1, <1>2, ElementOfSeq
  <2> QED  BY <1>2, <2>1
<1>4. sorted \in Seq(Nat) /\ Len(sorted) = n
  BY <1>1, <1>3, SequenceByIndex
<1>5. \A i \in 1..n : sorted[i] = p.slots[f[i]] /\ f[i] \in 1..n
  BY <1>2
<1>6. /\ q.array = p.array /\ q.slots = sorted
      /\ q \in [array : Nat \ {O!Null}, slots : Seq(Nat)]
  BY <1>4 DEF PopulationOK
<1>7. PopulationOK(q)
  BY <1>6, <1>1, <1>2, <1>4, <1>5 DEF PopulationOK, n
<1>8. PopulationBlocks(q) \subseteq PopulationBlocks(p)
  <2>1. \A i \in 1..n : sorted[i] \in {p.slots[j] : j \in 1..n}
    BY <1>5
  <2>2. PopulationBlocks(p) = ({p.array} \cup {p.slots[j] : j \in 1..n}) \ {O!Null}
    BY DEF PopulationBlocks, n
  <2>3. PopulationBlocks(q) \subseteq ({p.array} \cup {sorted[i] : i \in 1..n}) \ {O!Null}
    <3>1. q.array = p.array /\ q.slots = sorted /\ Len(q.slots) = n
      BY <1>6, <1>4
    <3> HIDE DEF n
    <3> QED  BY <3>1, Zenon DEF PopulationBlocks
  <2> QED  BY <2>1, <2>2, <2>3
<1> QED  BY <1>7, <1>8

LEMMA GenerationFailsOwned ==
  ASSUME Owned, O!GenerationFails, MaxBlocks \in Nat
  PROVE  Owned'
<1> DEFINE copies(next) == IF next \in {bestEver, None} THEN {} ELSE {next.self, next.genes}
           range == (used + 1)..(used + 2)
<1>1. PICK sorted \in O!Orders(population.slots) :
        \E next \in O!BestsAfter(sorted[1], used + 1) :
          /\ O!Leaves(O!HeapAfter(next), copies(next), 2)
          /\ population' = [population EXCEPT !.slots = sorted]
          /\ bestEver' = next
  BY Zenon DEF O!GenerationFails
<1>2. PICK next \in O!BestsAfter(sorted[1], used + 1) :
          /\ O!Leaves(O!HeapAfter(next), copies(next), 2)
          /\ population' = [population EXCEPT !.slots = sorted]
          /\ bestEver' = next
  BY <1>1, Zenon
<1>3. population # None /\ used + 2 <= MaxBlocks /\ used \in Nat
  BY DEF O!GenerationFails, Owned
<1>4. /\ PopulationOK(population')
      /\ PopulationBlocks(population') \subseteq PopulationBlocks(population)
  BY <1>2, <1>3, OrderedPlaces DEF Owned
<1>5. /\ BestOK(next)
      /\ BestBlocks(next)
           \subseteq (live \ Replaced(next)) \cup (copies(next) \cap {used + 1, used + 2})
      /\ BestBlocks(next) \subseteq BestBlocks(bestEver) \cup {used + 1, used + 2}
  BY NextBest
<1>6. O!HeapAfter(next) \in Heaps(O!Heap, Replaced(next))
  BY BestLeaves
<1>7. BestBlocks(next) \subseteq (live \ Replaced(next)) \cup (copies(next) \cap range)
  <2>1. {used + 1, used + 2} = range
    BY <1>3
  <2> HIDE DEF range, copies
  <2> QED  BY <1>5, <2>1
<1>8. PopulationBlocks(population') \subseteq live \ Replaced(next)
  BY <1>4 DEF Owned, Replaced
<1>9. PopulationBlocks(population') \cap BestBlocks(next) = {}
  <2>1. \A x \in PopulationBlocks(population) :
          x \notin {used + 1, used + 2} /\ x \notin BestBlocks(bestEver)
    BY <1>3 DEF Owned
  <2> QED  BY <1>4, <1>5, <2>1
<1> HIDE DEF copies
<1>10. 2 \in Nat /\ used + 2 <= MaxBlocks
  BY <1>3
<1> QED  BY <1>2, <1>4, <1>5, <1>6, <1>7, <1>8, <1>9, <1>10, LeavesOwned

LEMMA InitOwned == MaxBlocks \in Nat /\ O!Init => Owned
<1> SUFFICES ASSUME MaxBlocks \in Nat, O!Init
             PROVE  Owned
  OBVIOUS
<1>1. /\ PopulationOK(population) /\ BestOK(bestEver)
      /\ PopulationBlocks(population) = {} /\ BestBlocks(bestEver) = {}
  BY NothingIsOwned DEF O!Init
<1>2. live = {} /\ used = 0 /\ broken \in BOOLEAN /\ running \in BOOLEAN
  BY Zenon DEF O!Init
<1> QED  BY <1>1, <1>2 DEF Owned

LEMMA NextOwned == MaxBlocks \in Nat /\ Owned /\ [O!Next]_(O!vars) => Owned'
<1> SUFFICES ASSUME MaxBlocks \in Nat, Owned, [O!Next]_(O!vars)
             PROVE  Owned'
  OBVIOUS
<1>1. CASE UNCHANGED O!vars
  <2>1. UNCHANGED <<live, used, population, bestEver, broken, running>>
    BY <1>1 DEF O!vars
  <2>2. /\ PopulationOK(population)' <=> PopulationOK(population)
        /\ PopulationBlocks(population)' = PopulationBlocks(population)
    BY <2>1, Zenon DEF PopulationOK, PopulationBlocks
  <2>3. /\ BestOK(bestEver)' <=> BestOK(bestEver)
        /\ BestBlocks(bestEver)' = BestBlocks(bestEver)
    BY <2>1, Zenon DEF BestOK, BestBlocks
  <2> QED  BY <2>1, <2>2, <2>3 DEF Owned
<1>2. CASE O!Next
  BY <1>2, InitializeOwned, EndsOwned, GenerationOwned, GenerationFailsOwned DEF O!Next
<1> QED  BY <1>1, <1>2

LEMMA OwnedKept == O!Spec => []Owned
<1>1. MaxBlocks \in Nat
  BY BlocksAssumption DEF O!BlocksAssumption
<1> QED  BY <1>1, InitOwned, NextOwned, PTL DEF O!Spec

-----------------------------------------------------------------------------
(* What the invariant says of the blocks, holder by holder.                *)
LEMMA OwnedInWords ==
  ASSUME Owned, MaxBlocks \in Nat
  PROVE  O!TypeOK /\ O!NothingDangles
<1>1. O!TypeOK
  <2>1. live \subseteq O!Block
    BY DEF Owned, O!Block
  <2>2. population = None \/ /\ population.array \in O!Block
                             /\ population.slots \in Seq(O!Block \cup {O!Null})
                             /\ Len(population.slots) \in 1..PopSize
    <3> SUFFICES ASSUME population # None
                 PROVE  /\ population.array \in O!Block
                        /\ population.slots \in Seq(O!Block \cup {O!Null})
                        /\ Len(population.slots) \in 1..PopSize
      OBVIOUS
    <3> DEFINE slots == population.slots
               n == Len(slots)
    <3>1. slots \in Seq(Nat) /\ n \in 1..PopSize /\ population.array \in Nat \ {O!Null}
      BY DEF Owned, PopulationOK
    <3>2. population.array \in live /\ \A i \in 1..n : slots[i] \in live \cup {O!Null}
      BY <3>1 DEF Owned, PopulationBlocks
    <3>3. DOMAIN slots = 1..n /\ n \in Nat /\ slots = [i \in 1..n |-> slots[i]]
      BY <3>1, LenProperties, SeqDef
    <3> HIDE DEF slots, n
    <3>4. slots \in [1..n -> O!Block \cup {O!Null}]
      BY <2>1, <3>2, <3>3
    <3>5. slots \in Seq(O!Block \cup {O!Null})
      BY <3>3, <3>4, SequenceByIndex
    <3> QED  BY <2>1, <3>1, <3>2, <3>5 DEF slots, n
  <2>3. bestEver = None \/ (bestEver.self \in O!Block /\ bestEver.genes \in O!Block \cup {O!Null})
    <3>1. bestEver = None \/ /\ bestEver.self # O!Null
                             /\ {bestEver.self, bestEver.genes} \ {O!Null} \subseteq live
      BY Zenon DEF Owned, BestOK, BestBlocks
    <3> QED  BY <2>1, <3>1
  <2> QED  BY <2>2, <2>3 DEF Owned, O!TypeOK
<1>2. O!NothingDangles
  <2> DEFINE Array(a) == /\ population # None /\ a = <<"array">> /\ O!Held(a) = population.array
             Place(a) == /\ population # None
                         /\ \E i \in 1..Len(population.slots) :
                              a = <<"place", i>> /\ O!Held(a) = population.slots[i]
             Self(a)  == /\ bestEver # None /\ a = <<"best">> /\ O!Held(a) = bestEver.self
             Genes(a) == /\ bestEver # None /\ a = <<"genes">>
                         /\ O!Held(a) = bestEver.genes
  <2>1. ASSUME NEW a \in O!Holders
        PROVE  Array(a) \/ Place(a) \/ Self(a) \/ Genes(a)
    <3>1. CASE population # None /\ a = <<"array">>
      <4>1. a[1] = "array"
        BY <3>1
      <4> QED  BY <3>1, <4>1 DEF O!Held
    <3>2. CASE population # None /\ \E i \in DOMAIN population.slots : a = <<"place", i>>
      <4>1. PICK i \in DOMAIN population.slots : a = <<"place", i>>
        BY <3>2
      <4>2. i \in 1..Len(population.slots)
        BY <3>2, <4>1, LenProperties DEF Owned, PopulationOK
      <4>3. a[1] = "place" /\ a[2] = i
        BY <4>1
      <4>4. O!Held(a) = population.slots[i]
        BY <4>3 DEF O!Held
      <4> QED  BY <3>2, <4>1, <4>2, <4>4
    <3>3. CASE bestEver # None /\ a = <<"best">>
      <4>1. a[1] = "best"
        BY <3>3
      <4> QED  BY <3>3, <4>1 DEF O!Held
    <3>4. CASE bestEver # None /\ a = <<"genes">>
      <4>1. a[1] = "genes"
        BY <3>4
      <4> QED  BY <3>4, <4>1 DEF O!Held
    <3> HIDE DEF Array, Place, Self, Genes
    <3> QED  BY <3>1, <3>2, <3>3, <3>4 DEF O!Holders
  <2>2. ASSUME NEW a \in O!Holders, O!Held(a) # O!Null
        PROVE  /\ Array(a) \/ Place(a) => O!Held(a) \in PopulationBlocks(population)
               /\ Self(a) \/ Genes(a) => O!Held(a) \in BestBlocks(bestEver)
    BY <2>2 DEF PopulationBlocks, BestBlocks
  <2>3. ASSUME NEW a \in O!Holders, NEW b \in O!Holders,
               O!Held(a) # O!Null, O!Held(a) = O!Held(b),
               Array(a) \/ Place(a), Array(b) \/ Place(b)
        PROVE  a = b
    BY <2>3 DEF Owned, PopulationOK
  <2>4. ASSUME NEW a \in O!Holders, NEW b \in O!Holders,
               O!Held(a) # O!Null, O!Held(a) = O!Held(b),
               Self(a) \/ Genes(a), Self(b) \/ Genes(b)
        PROVE  a = b
    <3>1. bestEver.self # bestEver.genes
      BY <2>4, Zenon DEF Owned, BestOK
    <3>2. /\ Self(a) => O!Held(a) = bestEver.self /\ a = <<"best">>
          /\ Self(b) => O!Held(b) = bestEver.self /\ b = <<"best">>
          /\ Genes(a) => O!Held(a) = bestEver.genes /\ a = <<"genes">>
          /\ Genes(b) => O!Held(b) = bestEver.genes /\ b = <<"genes">>
      OBVIOUS
    <3> HIDE DEF Self, Genes
    <3>3. CASE Self(a) /\ Self(b)
      BY <3>2, <3>3
    <3>4. CASE Genes(a) /\ Genes(b)
      BY <3>2, <3>4
    <3>5. CASE Self(a) /\ Genes(b)
      BY <2>4, <3>1, <3>2, <3>5
    <3>6. CASE Genes(a) /\ Self(b)
      BY <2>4, <3>1, <3>2, <3>6
    <3> QED  BY <2>4, <3>3, <3>4, <3>5, <3>6
  <2> HIDE DEF Array, Place, Self, Genes
  <2>5. ASSUME NEW a \in O!Holders, O!Held(a) # O!Null
        PROVE  O!Held(a) \in live
    BY <2>1, <2>2, <2>5 DEF Owned
  <2>6. ASSUME NEW a \in O!Holders, NEW b \in O!Holders,
               O!Held(a) # O!Null, O!Held(a) = O!Held(b)
        PROVE  a = b
    <3>1. PopulationBlocks(population) \cap BestBlocks(bestEver) = {}
      BY DEF Owned
    <3> QED  BY <2>1, <2>2, <2>3, <2>4, <2>6, <3>1
  <2> QED  BY <2>5, <2>6 DEF O!NothingDangles
<1> QED  BY <1>1, <1>2

(* A step that breaks something ends the array it found. *)
LEMMA BreaksWithArray ==
  ASSUME Owned, MaxBlocks \in Nat, [O!Next]_(O!vars), broken' # broken
  PROVE  population # None /\ (population' = None \/ population'.array # population.array)
<1>0. ASSUME population # None
      PROVE  population.array \in 1..used /\ used \in Nat
  BY <1>0 DEF Owned, PopulationOK, PopulationBlocks
<1>1. ASSUME NEW h, NEW pointers, NEW n, O!Leaves(h, pointers, n), h.broken = FALSE
      PROVE  FALSE
  <2>1. broken' = (broken \/ h.broken)
    BY <1>1, Zenon DEF O!Leaves
  <2> QED  BY <1>1, <2>1, Zenon DEF Owned
<1>2. O!Heap.broken = FALSE /\ O!Heap.live = live
      /\ O!Heap \in [live : SUBSET Int, broken : BOOLEAN]
  BY HeapIsHeap
<1>3. CASE O!Initialize
  <2>1. population'.array = used + 1
    <3>1. \E slots : population' = [array |-> used + 1, slots |-> slots]
      BY <1>3, Zenon DEF O!Initialize
    <3> QED  BY <3>1
  <2>2. population # None
    <3>1. ASSUME population = None
          PROVE  FALSE
      <4>1. O!WithoutPopulation(O!Heap, population) = O!Heap
        BY <3>1 DEF O!WithoutPopulation
      <4>2. \E pointers, n : O!Leaves(O!Heap, pointers, n)
        BY <1>3, <4>1, Zenon DEF O!Initialize
      <4> QED  BY <1>1, <1>2, <4>2
    <3> QED  BY <3>1
  <2> QED  BY <1>0, <2>1, <2>2
<1>4. CASE O!InitializeFails
  <2>1. population' = None
    BY <1>4 DEF O!InitializeFails
  <2>2. population # None
    <3>1. ASSUME population = None
          PROVE  FALSE
      <4>1. O!WithoutPopulation(O!Heap, population) = O!Heap
        BY <3>1 DEF O!WithoutPopulation
      <4> QED  BY <1>1, <1>2, <1>4, <4>1 DEF O!InitializeFails
    <3> QED  BY <3>1
  <2> QED  BY <2>1, <2>2
<1>5. CASE O!Generation
  <2>1. population # None
    BY <1>5 DEF O!Generation
  <2>2. population'.array = used + 3
    <3>1. \E slots : population' = [array |-> used + 3, slots |-> slots]
      BY <1>5, Zenon DEF O!Generation
    <3> QED  BY <3>1
  <2> QED  BY <1>0, <2>1, <2>2
<1>6. CASE O!GenerationFails
  <2>1. \E next, pointers : O!Leaves(O!HeapAfter(next), pointers, 2)
    BY <1>6, Zenon DEF O!GenerationFails
  <2> QED  BY <1>1, <2>1, BestLeaves
<1>7. CASE O!Reset
  BY <1>7 DEF O!Reset
<1>8. CASE O!DestroyVM
  <2>1. population' = None
    BY <1>8 DEF O!DestroyVM
  <2>2. population # None
    <3>1. ASSUME population = None
          PROVE  FALSE
      <4>1. O!WithoutPopulation(O!Heap, population) = O!Heap
        BY <3>1 DEF O!WithoutPopulation
      <4>2. O!WithoutBest(O!Heap, bestEver).broken = FALSE
        BY <1>2, WithoutBestLeaves DEF Owned
      <4> QED  BY <1>1, <1>8, <4>1, <4>2 DEF O!DestroyVM
    <3> QED  BY <3>1
  <2> QED  BY <2>1, <2>2
<1>9. CASE UNCHANGED O!vars
  BY <1>9 DEF O!vars
<1> QED  BY <1>3, <1>4, <1>5, <1>6, <1>7, <1>8, <1>9 DEF O!Next

(* The population has 1 to PopSize places, and what it, best_ever and the  *)
(* individuals point to are blocks that calloc has given out (TypeOK).     *)
THEOREM OwnershipTyped == O!Spec => []OwnershipTypeOK
<1>1. Owned => OwnershipTypeOK
  BY OwnedInWords, BlocksAssumption DEF O!BlocksAssumption, OwnershipTypeOK
<1> QED  BY <1>1, OwnedKept, PTL

(* Whatever runs, fails and is repeated in whatever order: what the VM     *)
(* holds is live, and no block is held twice (NothingDangles of            *)
(* EvoOwnership), for every size of population and elite and any number of *)
(* allocations.                                                            *)
THEOREM NothingHeldDangles == O!Spec => []NothingDangles
<1>1. Owned => NothingDangles
  BY OwnedInWords, BlocksAssumption DEF O!BlocksAssumption, NothingDangles
<1> QED  BY <1>1, OwnedKept, PTL

(* What malloc did not return is freed, or freed memory read, only by a    *)
(* step that ends the array of the population it found                     *)
(* (BreaksOnlyWithArray of EvoOwnership).                                  *)
THEOREM OnlyTheArrayBreaks == O!Spec => BreaksOnlyWithArray
<1> DEFINE Kept == broken' # broken => /\ population # None
                                       /\ population' = None \/ population'.array # population.array
<1>1. Owned /\ [O!Next]_(O!vars) => [Kept]_(O!vars)
  BY BreaksWithArray, BlocksAssumption DEF O!BlocksAssumption
<1> HIDE DEF Kept
<1>2. O!Spec => [][Kept]_(O!vars)
  BY <1>1, OwnedKept, PTL DEF O!Spec
<1> QED  BY <1>2 DEF BreaksOnlyWithArray, O!BreaksOnlyWithArray, Kept
=============================================================================
