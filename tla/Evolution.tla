------------------------------ MODULE Evolution ------------------------------
(***************************************************************************)
(* The genetic search of evomorph_runtime.c on one EvoVM: the population,  *)
(* one generation, the loop of evo_evolve and best_ever, under a host that *)
(* calls the API in any order.                                             *)
(*                                                                         *)
(* An individual is its sequence of opcodes, an opcode the set of its yang *)
(* lines; modifiers and operands do not enter the fitness and are left     *)
(* out.  Floating point fitness is an integer.  What a random number       *)
(* decides is a free choice.  Where the code looks for it, memory may run  *)
(* out (Shortages); an elite's copy, which it does not look at, is granted. *)
(* Releasing a population of individuals is an invalid free (EvoOwnership) *)
(* that may end the process; where it does not, the search goes on.        *)
(***************************************************************************)
EXTENDS Integers, Sequences, FiniteSets, Crossover

CONSTANTS
  None,          \* a null pointer, a value not there yet
  Bits,          \* of an opcode: 6
  Seeds,         \* the programs a host evolves
  PopSize,       \* config: population_size
  EliteCount,    \* config: elite_count
  Methods,       \* config: selection_method, any of these
  Tournament,    \* config: tournament_size
  Crossovers,    \* config: crossover_method, any of these
  Fitness(_),    \* evo_evaluate_fitness, for the weights of the config
  MaxGens,       \* the max_generations a host passes (or the config's for 0)
  Patience,      \* 20: generations without a better best_ever
  Shortages,     \* the allocations that may fail, of ShortagePoints
  MaxFlips       \* bound of the model: genes one mutation pass changes

Lines  == 0..(Bits - 1)
Gene   == SUBSET Lines
Genome == Seq(Gene)
Hole   == << >>

(* Of a variant, the population or its seed; of best_ever; of the elites   *)
(* or the next population.                                                 *)
ShortagePoints == {"variant", "population", "best", "elites"}

ASSUME NoneAssumption    == None \notin Genome \cup Int \cup Seeds
ASSUME BitsAssumption    == Bits \in Nat
ASSUME SeedsAssumption   == Seeds \subseteq Genome \ {Hole}
ASSUME PopAssumption     == PopSize \in Nat \ {0} /\ EliteCount \in Nat
ASSUME MaxGensAssumption == MaxGens \subseteq Nat /\ Patience \in Nat
ASSUME FlipsAssumption   == MaxFlips \in Nat /\ Shortages \subseteq ShortagePoints

VARIABLES
  pop,       \* vm->population: << >> when there is none
  seed,      \* history: what the population was initialised with
  best,      \* vm->best_ever
  top,       \* history: the highest fitness evaluated on this VM since its
             \*   creation, reset or last loss of best_ever
  loop,      \* evo_evolve: generations left, last_best, stagnant; or None
  did        \* history: the last thing done

vars == <<pop, seed, best, top, loop, did>>

Deeds == {"reset", "initialize", "generation", "failure", "begin", "return", "abort"}

S == INSTANCE Selection

-----------------------------------------------------------------------------
(* Mutation. *)

(* Slip: the lines counted from one. *)
FlipFromOne(gene, line) ==
  IF line + 1 \in gene THEN gene \ {line + 1} ELSE gene \cup {line + 1}

(* evo_mutation_flip_yao *)
Flip(gene, line) == IF line \in gene THEN gene \ {line} ELSE gene \cup {line}

Mutants(genes) ==
  {[i \in DOMAIN genes |-> IF i \in at THEN Flip(genes[i], line[i]) ELSE genes[i]] :
     at \in {a \in SUBSET DOMAIN genes : Cardinality(a) <= MaxFlips},
     line \in [DOMAIN genes -> Lines]}

(* Crossed or, by crossover_rate, just copied; then each mutated.          *)
Offspring(p, q) ==
  UNION {Mutants(pair[1]) \X Mutants(pair[2]) :
           pair \in {<<CopyOf(p, q), CopyOf(q, p)>>}
                    \cup UNION {Crossed(x, p, q) : x \in Crossovers}}

-----------------------------------------------------------------------------
(* One generation. *)

Fits(p) == [i \in DOMAIN p |-> Fitness(p[i])]

(* Slip: the population is taken as it is, not sorted. *)
Unsorted(p) == {p}

(* The orders qsort can leave p in: by falling fitness. *)
Sorted(p) ==
  {[i \in DOMAIN p |-> p[f[i]]] :
     f \in {g \in [DOMAIN p -> DOMAIN p] :
              /\ \A i, j \in DOMAIN p : g[i] = g[j] => i = j
              /\ \A i, j \in DOMAIN p : i < j => Fitness(p[g[i]]) >= Fitness(p[g[j]])}}

(* Slip: the latest winner replaces the best whatever it is worth. *)
BetterIsLatest(b, candidate) == candidate

BetterOf(b, candidate) ==
  IF b = None \/ Fitness(candidate) > Fitness(b) THEN candidate ELSE b

Elites(sorted) == SubSeq(sorted, 1, S!Lesser(EliteCount, Len(sorted)))

(* The children that fill the places behind the elites, two at a time; of  *)
(* the last pair only what fits.                                           *)
Children(sorted, n) ==
  LET fits    == Fits(sorted)
      index   == UNION {S!Selectable(m, Tournament, fits) \X S!Selectable(m, Tournament, fits) :
                          m \in Methods}
      parents == {<<sorted[ij[1]], sorted[ij[2]]>> : ij \in index}
      pairs   == UNION {Offspring(pq[1], pq[2]) : pq \in parents}
      couples == (n + 1) \div 2
  IN  {[i \in 1..n |-> litter[(i + 1) \div 2][((i + 1) % 2) + 1]] :
         litter \in [1..couples -> pairs]}

NextPopulations(sorted) ==
  LET elites == Elites(sorted)
  IN  IF Len(elites) >= PopSize THEN {elites}
      ELSE {elites \o children : children \in Children(sorted, PopSize - Len(elites))}

(* evo_evolve_one_generation, and how it gives up without memory for the   *)
(* elites or the new population: sorted and with best_ever updated.  The   *)
(* old best_ever is gone before its successor is copied.                   *)
Evaluated(sorted) ==
  /\ pop # << >>
  /\ sorted \in Sorted(pop)
  /\ \/ /\ best' = BetterOf(best, sorted[1])
        /\ top'  = IF top = None \/ Fitness(sorted[1]) > top THEN Fitness(sorted[1]) ELSE top
     \/ /\ "best" \in Shortages
        /\ BetterOf(best, sorted[1]) # best
        /\ best' = None /\ top' = None
  /\ UNCHANGED seed

Generation(sorted) ==
  /\ Evaluated(sorted)
  /\ pop' \in NextPopulations(sorted)
  /\ did' = "generation"

GenerationFails(sorted) ==
  /\ "elites" \in Shortages
  /\ Evaluated(sorted)
  /\ pop' = sorted
  /\ did' = "failure"

-----------------------------------------------------------------------------
(* The host's calls. *)

(* evo_vm_create, and evo_vm_reset, which forgets the population. *)
Init == /\ pop = << >> /\ seed = None /\ best = None /\ top = None
        /\ loop = None /\ did = "reset"

Reset == /\ loop = None
         /\ pop' = << >> /\ seed' = None /\ best' = None /\ top' = None
         /\ did' = "reset" /\ UNCHANGED loop

(* evo_initialize_population: the seed and mutants of it.  A variant for   *)
(* which there is no memory leaves its place empty, and the size one short. *)
Initialize(s) ==
  /\ loop = None
  /\ seed' = s
  /\ \E failed \in {f \in SUBSET (2..PopSize) : f = {} \/ "variant" \in Shortages} :
     \E variants \in [2..PopSize -> Mutants(s)] :
       pop' = [i \in 1..(PopSize - Cardinality(failed)) |->
                 IF i = 1 THEN s ELSE IF i \in failed THEN Hole ELSE variants[i]]
  /\ did' = "initialize"
  /\ UNCHANGED <<best, top, loop>>

(* The old population is gone by then. *)
InitializeFails ==
  /\ loop = None /\ "population" \in Shortages
  /\ pop' = << >> /\ seed' = None
  /\ did' = "failure"
  /\ UNCHANGED <<best, top, loop>>

(* A generation on its own, as test_full_evolution asks for it. *)
OneGeneration ==
  /\ loop = None /\ pop # << >>
  /\ \E sorted \in Sorted(pop) : Generation(sorted) \/ GenerationFails(sorted)
  /\ UNCHANGED loop

EvolveBegin(n) ==
  /\ loop = None /\ pop # << >>
  /\ loop' = [left |-> n, last |-> None, stagnant |-> 0]
  /\ did' = "begin"
  /\ UNCHANGED <<pop, seed, best, top>>

(* The check for convergence in evo_evolve, of best_ever after a           *)
(* generation, if there is one.                                            *)
Checked(l, b) ==
  IF b = None THEN l
  ELSE IF l.last = None \/ Fitness(b) > l.last
       THEN [l EXCEPT !.last = Fitness(b), !.stagnant = 0]
       ELSE [l EXCEPT !.stagnant = @ + 1]

EvolveGeneration ==
  /\ loop # None /\ loop.left > 0 /\ loop.stagnant < Patience
  /\ \E sorted \in Sorted(pop) : Generation(sorted)
  /\ loop' = [Checked(loop, best') EXCEPT !.left = @ - 1]

EvolveGivesUp ==
  /\ loop # None /\ loop.left > 0 /\ loop.stagnant < Patience
  /\ \E sorted \in Sorted(pop) : GenerationFails(sorted)
  /\ loop' = None

(* It returns best_ever. *)
EvolveReturn ==
  /\ loop # None
  /\ loop.left = 0 \/ loop.stagnant >= Patience
  /\ loop' = None /\ did' = "return"
  /\ UNCHANGED <<pop, seed, best, top>>

(* The release of the old population in evo_initialize_population or at    *)
(* the end of a generation ends the process.                               *)
ReleaseAborts ==
  /\ pop # << >>
  /\ did' = "abort"
  /\ UNCHANGED <<pop, seed, best, top, loop>>

Next == did # "abort" /\ \/ Reset
                         \/ \E s \in Seeds : Initialize(s)
                         \/ InitializeFails
                         \/ OneGeneration
                         \/ \E n \in MaxGens : EvolveBegin(n)
                         \/ EvolveGeneration
                         \/ EvolveGivesUp
                         \/ EvolveReturn
                         \/ ReleaseAborts

Spec == Init /\ [][Next]_vars

-----------------------------------------------------------------------------
TypeOK ==
  /\ pop \in Seq(Genome) /\ Len(pop) <= PopSize
  /\ seed \in Seeds \cup {None}
  /\ best \in Genome \cup {None}
  /\ top \in Int \cup {None}
  /\ did \in Deeds
  /\ loop \in [left : Nat, last : Int \cup {None}, stagnant : 0..Patience] \cup {None}

(* best_ever is worth as much as the best of everything evaluated on this  *)
(* VM, across generations given up half way, several calls of evo_evolve   *)
(* and new populations; when the copy of a better individual fails, the    *)
(* old one is gone as well and all starts anew.                            *)
BestIsTop == /\ best = None <=> top = None
             /\ best # None => Fitness(best) = top

(* Every individual has the length of the seed of its population, or is a  *)
(* hole that no memory was left for: crossing and copying neither cuts nor *)
(* extends programs, and nothing of an earlier population comes back.      *)
LengthOfSeed ==
  \A i \in DOMAIN pop : Len(pop[i]) \in {0, Len(seed)}

(* "Every generation keeps the best": for each level of fitness there are  *)
(* after a generation as many individuals at or above it as before, up to  *)
(* the number of elites.                                                   *)
AtLeast(p, level) == Cardinality({i \in DOMAIN p : Fitness(p[i]) >= level})

ElitesSurvive ==
  [][ did' = "generation"
      => \A i \in DOMAIN pop :
           LET level == Fitness(pop[i])
           IN  AtLeast(pop', level) >= S!Lesser(EliteCount, AtLeast(pop, level)) ]_vars

(* evo_evolve returns the best individual: none of the population it       *)
(* leaves is better.                                                       *)
ReturnsBest ==
  did = "return" /\ best # None
    => \A i \in DOMAIN pop : Fitness(pop[i]) <= Fitness(best)
=============================================================================
