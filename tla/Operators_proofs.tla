--------------------------- MODULE Operators_proofs --------------------------
(***************************************************************************)
(* Proofs about the functions of MCOperators: the selections and           *)
(* crossovers, the two dialects and the binary system calls, for any       *)
(* number of individuals, levels of fitness, genes, steps and any width.   *)
(***************************************************************************)
EXTENDS MCOperators, Lemmas, FiniteSetTheorems, TLAPS

-----------------------------------------------------------------------------
(* The crossovers. *)

(* What MCOperators starts with and no step changes: two parents, or none. *)
ParentsOK ==
  \/ parents = << >>
  \/ \E p, q : /\ parents = <<p, q>>
               /\ \E n, m \in Nat : DOMAIN p = 1..n /\ DOMAIN q = 1..m

(* Every gene of p is at its place in c or in d.                           *)
Inherited(p, c, d) == \A i \in DOMAIN p : c[i] = p[i] \/ d[i] = p[i]

LEMMA SinglePointKeeps ==
  ASSUME NEW p, NEW q, NEW n \in Nat, NEW m \in Nat, DOMAIN p = 1..n, DOMAIN q = 1..m,
         NEW pair \in SinglePointPairs(p, q)
  PROVE  Inherited(p, pair[1], pair[2]) /\ Inherited(q, pair[1], pair[2])
<1>1. Len(p) = n /\ Len(q) = m
  OBVIOUS
<1>2. /\ Longer(p, q) \in Nat /\ Longer(q, p) = Longer(p, q)
      /\ \A i \in DOMAIN p : i \in 1..Longer(p, q)
      /\ \A i \in DOMAIN q : i \in 1..Longer(p, q)
  BY <1>1 DEF Longer
<1>3. CASE pair = <<CopyOf(p, q), CopyOf(q, p)>>
  BY <1>2, <1>3 DEF Inherited, CopyOf, Padded
<1>4. CASE \E k \in 1..(Common(p, q) - 1) : pair = <<SinglePoint(p, q, k), SinglePoint(q, p, k)>>
  <2>1. PICK k \in 1..(Common(p, q) - 1) : pair = <<SinglePoint(p, q, k), SinglePoint(q, p, k)>>
    BY <1>4
  <2>2. \A i \in DOMAIN p : i <= k => SinglePoint(p, q, k)[i] = p[i]
    BY <1>2 DEF SinglePoint, Take
  <2>3. \A i \in DOMAIN p : ~(i <= k) => SinglePoint(q, p, k)[i] = p[i]
    BY <1>2 DEF SinglePoint, Take
  <2>4. \A i \in DOMAIN q : i <= k => SinglePoint(q, p, k)[i] = q[i]
    BY <1>2 DEF SinglePoint, Take
  <2>5. \A i \in DOMAIN q : ~(i <= k) => SinglePoint(p, q, k)[i] = q[i]
    BY <1>2 DEF SinglePoint, Take
  <2>6. pair[1] = SinglePoint(p, q, k) /\ pair[2] = SinglePoint(q, p, k)
    BY <2>1
  <2> QED  BY <2>2, <2>3, <2>4, <2>5, <2>6 DEF Inherited
<1> QED  BY <1>3, <1>4 DEF SinglePointPairs

LEMMA TwoPointKeeps ==
  ASSUME NEW p, NEW q, NEW n \in Nat, NEW m \in Nat, DOMAIN p = 1..n, DOMAIN q = 1..m,
         NEW pair \in TwoPointPairs(p, q)
  PROVE  Inherited(p, pair[1], pair[2]) /\ Inherited(q, pair[1], pair[2])
<1>1. Len(p) = n /\ Len(q) = m
  OBVIOUS
<1>2. /\ Longer(p, q) \in Nat /\ Longer(q, p) = Longer(p, q)
      /\ \A i \in DOMAIN p : i \in 1..Longer(p, q)
      /\ \A i \in DOMAIN q : i \in 1..Longer(p, q)
  BY <1>1 DEF Longer
<1>3. CASE pair \in SinglePointPairs(p, q)
  BY <1>3, SinglePointKeeps
<1>4. CASE \E j, k \in Int : pair = <<TwoPoint(p, q, j, k), TwoPoint(q, p, j, k)>>
  <2>1. PICK j \in Int, k \in Int : pair = <<TwoPoint(p, q, j, k), TwoPoint(q, p, j, k)>>
    BY <1>4
  <2>2. \A i \in DOMAIN p : IF i <= j \/ i > k THEN TwoPoint(p, q, j, k)[i] = p[i]
                            ELSE TwoPoint(q, p, j, k)[i] = p[i]
    BY <1>2 DEF TwoPoint, Take
  <2>3. \A i \in DOMAIN q : IF i <= j \/ i > k THEN TwoPoint(q, p, j, k)[i] = q[i]
                            ELSE TwoPoint(p, q, j, k)[i] = q[i]
    BY <1>2 DEF TwoPoint, Take
  <2>4. pair[1] = TwoPoint(p, q, j, k) /\ pair[2] = TwoPoint(q, p, j, k)
    BY <2>1
  <2> QED  BY <2>2, <2>3, <2>4 DEF Inherited
<1>5. pair \in SinglePointPairs(p, q) \/ \E j, k \in Int : pair = <<TwoPoint(p, q, j, k), TwoPoint(q, p, j, k)>>
  <2> DEFINE points == 1..(Common(p, q) - 1)
             sorted == {jk \in points \X points : jk[1] <= jk[2]}
  <2>1. Common(p, q) \in Nat
    BY <1>1 DEF Common
  <2>2. SUFFICES ASSUME ~(Common(p, q) <= 2)
                 PROVE  \E j, k \in Int : pair = <<TwoPoint(p, q, j, k), TwoPoint(q, p, j, k)>>
    BY DEF TwoPointPairs
  <2>3. PICK jk \in sorted : pair = <<TwoPoint(p, q, jk[1], jk[2]), TwoPoint(q, p, jk[1], jk[2])>>
    BY <2>2 DEF TwoPointPairs
  <2>4. jk[1] \in Int /\ jk[2] \in Int
    BY <2>1, <2>3
  <2> QED  BY <2>3, <2>4
<1> QED  BY <1>3, <1>4, <1>5

LEMMA UniformKeeps ==
  ASSUME NEW p, NEW q, NEW n \in Nat, NEW m \in Nat, DOMAIN p = 1..n, DOMAIN q = 1..m,
         NEW pair \in UniformPairs(p, q)
  PROVE  Inherited(p, pair[1], pair[2]) /\ Inherited(q, pair[1], pair[2])
<1>1. Len(p) = n /\ Len(q) = m
  OBVIOUS
<1>2. /\ Longer(p, q) \in Nat
      /\ \A i \in DOMAIN p : i \in 1..Longer(p, q)
      /\ \A i \in DOMAIN q : i \in 1..Longer(p, q)
  BY <1>1 DEF Longer
<1>3. PICK heads \in Coins(Longer(p, q)) :
        pair = <<UniformChild(p, q, heads, CopyOf(p, q)),
                 UniformChild(p, q, Opposite(heads), CopyOf(q, p))>>
  BY DEF UniformPairs
<1>4. \A i \in 1..Longer(p, q) : heads[i] \in BOOLEAN /\ Opposite(heads)[i] = ~heads[i]
  BY <1>3 DEF Coins, Opposite
<1> DEFINE c == UniformChild(p, q, heads, CopyOf(p, q))
           d == UniformChild(p, q, Opposite(heads), CopyOf(q, p))
<1>5. \A i \in DOMAIN p : IF heads[i] THEN c[i] = p[i] ELSE d[i] = p[i]
  BY <1>2, <1>4 DEF UniformChild
<1>6. \A i \in DOMAIN q : IF heads[i] THEN d[i] = q[i] ELSE c[i] = q[i]
  BY <1>2, <1>4 DEF UniformChild, Take
<1>7. pair[1] = c /\ pair[2] = d
  BY <1>3
<1> HIDE DEF c, d
<1> QED  BY <1>5, <1>6, <1>7 DEF Inherited

LEMMA CrossedKeeps ==
  ASSUME NEW p, NEW q, NEW n \in Nat, NEW m \in Nat, DOMAIN p = 1..n, DOMAIN q = 1..m,
         NEW crossover, NEW pair \in Crossed(crossover, p, q)
  PROVE  Inherited(p, pair[1], pair[2]) /\ Inherited(q, pair[1], pair[2])
  BY SinglePointKeeps, TwoPointKeeps, UniformKeeps DEF Crossed

GenesInv == ParentsOK /\ NoGeneLost

LEMMA NoGeneLostInWords ==
  ASSUME NEW p, NEW q, NEW c, NEW d, Inherited(p, c, d), Inherited(q, c, d)
  PROVE  \A n \in DOMAIN <<p, q>> : \A i \in DOMAIN (<<p, q>>[n]) :
           \E child \in {c, d} : child[i] = <<p, q>>[n][i]
  BY DEF Inherited

LEMMA InitGenes == Init => GenesInv
<1> SUFFICES ASSUME Init  PROVE GenesInv
  OBVIOUS
<1>1. CASE parents = << >>
  BY <1>1 DEF GenesInv, ParentsOK, NoGeneLost
<1>2. CASE InitCrossover
  <2>1. PICK n \in 0..MaxGenes, m \in 0..MaxGenes : parents = <<Parent(1, n), Parent(-1, m)>>
    BY <1>2 DEF InitCrossover
  <2> DEFINE p == Parent(1, n)
             q == Parent(-1, m)
  <2>2. n \in Nat /\ m \in Nat /\ DOMAIN p = 1..n /\ DOMAIN q = 1..m
    BY <2>1, SizesAssumption DEF Parent
  <2>3. children = <<CopyOf(p, q), CopyOf(q, p)>> /\ parents = <<p, q>>
    BY <1>2, <2>1 DEF InitCrossover
  <2> HIDE DEF p, q
  <2>4. Len(p) = n /\ Len(q) = m
    BY <2>2
  <2>5. Inherited(p, CopyOf(p, q), CopyOf(q, p)) /\ Inherited(q, CopyOf(p, q), CopyOf(q, p))
    BY <2>2, <2>4 DEF Inherited, CopyOf, Padded, Longer
  <2> QED  BY <2>2, <2>3, <2>5, NoGeneLostInWords DEF GenesInv, ParentsOK, NoGeneLost
<1> QED  BY <1>1, <1>2 DEF Init, InitSelection, InitDialects, InitLibrary, NoGenetic

LEMMA StepGenes == GenesInv /\ [Next]_vars => GenesInv'
<1> SUFFICES ASSUME GenesInv, [Next]_vars  PROVE GenesInv'
  OBVIOUS
<1>1. CASE UNCHANGED <<parents, children>>
  BY <1>1 DEF GenesInv, ParentsOK, NoGeneLost
<1>2. ASSUME NEW crossover, Cross(crossover)
      PROVE  GenesInv'
  <2>1. parents' = parents /\ children' \in Crossed(crossover, parents[1], parents[2])
    BY <1>2 DEF Cross, genetic
  <2>2. CASE parents = << >>
    BY <2>1, <2>2 DEF GenesInv, ParentsOK, NoGeneLost
  <2>3. CASE parents # << >>
    <3>1. PICK p, q : /\ parents = <<p, q>>
                      /\ \E n, m \in Nat : DOMAIN p = 1..n /\ DOMAIN q = 1..m
      BY <2>3 DEF GenesInv, ParentsOK
    <3>2. Inherited(p, children'[1], children'[2]) /\ Inherited(q, children'[1], children'[2])
      BY <2>1, <3>1, CrossedKeeps
    <3>3. NoGeneLost'
      BY <2>1, <3>1, <3>2, NoGeneLostInWords DEF NoGeneLost
    <3> QED  BY <2>1, <3>3 DEF GenesInv, ParentsOK
  <2> QED  BY <2>2, <2>3
<1> QED  BY <1>1, <1>2 DEF Next, SelectByRank, SelectByTournament, Step, Call, vars, genetic

(* No crossover loses a gene of a parent, whatever the lengths: it is at   *)
(* its own place in one of the two children (NoGeneLost).                  *)
THEOREM GenesAreKept == Spec => []NoGeneLost
<1>1. GenesInv => NoGeneLost
  BY DEF GenesInv
<1> QED  BY InitGenes, StepGenes, <1>1, PTL DEF Spec

-----------------------------------------------------------------------------
(* The selections. *)

FitsOK == fits \in UNION {[1..n -> 0..MaxFit] : n \in 0..MaxSize}

(* Among finitely many numbers there is a first of the greatest.           *)
LEMMA FirstOfGreatest ==
  ASSUME NEW n \in Nat, n > 0, NEW bound \in Nat, NEW f \in [1..n -> 0..bound]
  PROVE  \E k \in 1..n : /\ \A j \in 1..n : f[j] <= f[k]
                         /\ \A j \in 1..(k - 1) : f[j] < f[k]
<1>0. \A k \in 1..n : f[k] \in 0..bound
  OBVIOUS
<1> DEFINE Short == {bound - f[k] : k \in 1..n}
<1>1. Short \in SUBSET Nat /\ Short # {}
  <2>1. \A k \in 1..n : bound - f[k] \in Nat
    BY <1>0
  <2>2. 1 \in 1..n
    OBVIOUS
  <2> QED  BY <2>1, <2>2
<1>2. PICK k \in 1..n : \A j \in 1..n : bound - f[k] <= bound - f[j]
  <2> HIDE DEF Short
  <2>1. PICK m \in Short : \A j \in Short : m <= j
    BY <1>1, LeastExists
  <2> QED  BY <2>1 DEF Short
<1>3. \A j \in 1..n : f[j] <= f[k]
  BY <1>0, <1>2
<1> DEFINE Top == {i \in 1..n : f[i] = f[k]}
<1>4. PICK i \in Top : \A j \in Top : i <= j
  <2>1. Top \in SUBSET Nat /\ k \in Top
    OBVIOUS
  <2> HIDE DEF Top
  <2> QED  BY <2>1, LeastExists
<1>5. i \in 1..n /\ f[i] = f[k]
  BY <1>4
<1>6. \A j \in 1..(i - 1) : j \in 1..n /\ ~(i <= j)
  BY <1>5
<1>7. \A j \in 1..(i - 1) : f[j] # f[k]
  BY <1>4, <1>6
<1>8. \A j \in 1..(i - 1) : f[j] < f[i]
  BY <1>0, <1>3, <1>5, <1>6, <1>7
<1> QED  BY <1>3, <1>5, <1>8

LEMMA FitsKept == Spec => []FitsOK
<1>1. Init => FitsOK
  <2>1. InitSelection => FitsOK
    BY SizesAssumption DEF InitSelection, FitsOK
  <2>2. fits = << >> => fits \in [1..0 -> 0..MaxFit] /\ 0 \in 0..MaxSize
    BY SizesAssumption
  <2>3. fits = << >> => FitsOK
    BY <2>2 DEF FitsOK
  <2> QED  BY <2>1, <2>3 DEF Init, InitCrossover, InitDialects, InitLibrary, NoGenetic
<1>2. FitsOK /\ [Next]_vars => FitsOK'
  BY DEF FitsOK, Next, SelectByRank, SelectByTournament, Cross, Step, Call, vars, genetic
<1> QED  BY <1>1, <1>2, PTL DEF Spec

LEMMA FitsInWords ==
  FitsOK => /\ Len(fits) \in Nat /\ Sizes = 1..Len(fits) /\ DOMAIN fits = 1..Len(fits)
            /\ fits \in [1..Len(fits) -> 0..MaxFit]
            /\ \A a \in Sizes : fits[a] \in 0..MaxFit /\ fits[a] \in Int
<1> SUFFICES ASSUME FitsOK
             PROVE  /\ Len(fits) \in Nat /\ Sizes = 1..Len(fits) /\ DOMAIN fits = 1..Len(fits)
                    /\ fits \in [1..Len(fits) -> 0..MaxFit]
                    /\ \A a \in Sizes : fits[a] \in 0..MaxFit /\ fits[a] \in Int
  OBVIOUS
<1>1. PICK n \in 0..MaxSize : fits \in [1..n -> 0..MaxFit]
  BY DEF FitsOK
<1>2. n \in Nat /\ DOMAIN fits = 1..n /\ Len(fits) = n
  BY <1>1, SizesAssumption
<1>3. \A a \in 1..n : fits[a] \in 0..MaxFit
  BY <1>1
<1> QED  BY <1>1, <1>2, <1>3, SizesAssumption DEF Sizes

LEMMA TournamentInWords == FitsOK => TournamentIsWon
<1> SUFFICES ASSUME FitsOK, NEW size \in Sizes, NEW draws \in [1..size -> Sizes]
             PROVE  LET winner == SelectTournament(fits, draws)
                    IN  /\ \E k \in 1..size : draws[k] = winner
                        /\ \A k \in 1..size : fits[draws[k]] <= fits[winner]
  BY DEF TournamentIsWon
<1> DEFINE f    == [k \in 1..size |-> fits[draws[k]]]
           best == {k \in 1..Len(draws) :
                      /\ \A j \in 1..Len(draws) : fits[draws[j]] <= fits[draws[k]]
                      /\ \A j \in 1..(k - 1) : fits[draws[j]] < fits[draws[k]]}
<1>1. size \in Nat /\ size > 0 /\ Len(draws) = size /\ DOMAIN draws = 1..size
  BY FitsInWords
<1>2. f \in [1..size -> 0..MaxFit] /\ \A k \in 1..size : f[k] = fits[draws[k]]
  BY FitsInWords
<1>3. PICK k \in 1..size : /\ \A j \in 1..size : f[j] <= f[k]
                           /\ \A j \in 1..(k - 1) : f[j] < f[k]
  <2> HIDE DEF f
  <2> QED  BY <1>1, <1>2, SizesAssumption, FirstOfGreatest
<1>4. \A j \in 1..(k - 1) : j \in 1..size
  BY <1>1
<1>5. k \in best
  BY <1>1, <1>2, <1>3, <1>4
<1>6. PICK w : w = CHOOSE i \in best : TRUE
  OBVIOUS
<1>7. w \in best
  BY <1>5, <1>6
<1>8. SelectTournament(fits, draws) = draws[w]
  BY <1>5, <1>6 DEF SelectTournament
<1> QED  BY <1>1, <1>7, <1>8

(* A tournament returns one of the individuals it drew, and none of those  *)
(* is fitter (TournamentIsWon).                                            *)
THEOREM TournamentsAreWon == Spec => []TournamentIsWon
  BY FitsKept, TournamentInWords, PTL

-----------------------------------------------------------------------------
(* The rank selection. *)

(* Who comes before a, and how many that is.                               *)
Ahead(f, a) == {b \in 1..Len(f) : Before(f, b, a)}
Rank(f, a)  == Cardinality(Ahead(f, a))

LEMMA RankOrder ==
  ASSUME NEW n \in Nat, NEW f \in [1..n -> Int]
  PROVE  /\ \A a \in 1..n : Rank(f, a) \in 0..(n - 1)
         /\ \A a, b \in 1..n : Before(f, a, b) => Rank(f, a) < Rank(f, b)
         /\ \A a, b \in 1..n : Rank(f, a) = Rank(f, b) => a = b
<1>0. Len(f) = n /\ \A a \in 1..n : f[a] \in Int
  OBVIOUS
<1>1. IsFiniteSet(1..n) /\ Cardinality(1..n) = n
  BY FS_Interval
<1>2. \A a \in 1..n : /\ IsFiniteSet(Ahead(f, a)) /\ Rank(f, a) \in Nat
                      /\ a \notin Ahead(f, a)
  <2> TAKE a \in 1..n
  <2>1. Ahead(f, a) \in SUBSET (1..n)
    BY <1>0 DEF Ahead
  <2>2. IsFiniteSet(Ahead(f, a)) /\ Rank(f, a) \in Nat
    BY <1>1, <2>1, FS_Subset, FS_CardinalityType DEF Rank
  <2>3. a \notin Ahead(f, a)
    BY <1>0 DEF Ahead, Before
  <2> QED  BY <2>2, <2>3
<1>3. \A a \in 1..n : Rank(f, a) \in 0..(n - 1)
  <2> TAKE a \in 1..n
  <2>1. Ahead(f, a) \in SUBSET ((1..n) \ {a})
    BY <1>0, <1>2 DEF Ahead
  <2>2. IsFiniteSet((1..n) \ {a}) /\ Cardinality((1..n) \ {a}) = n - 1
    BY <1>1, FS_RemoveElement
  <2>3. Rank(f, a) <= n - 1
    BY <2>1, <2>2, FS_Subset DEF Rank
  <2> QED  BY <1>2, <2>3
<1>4. \A a, b \in 1..n : Before(f, a, b) => Rank(f, a) < Rank(f, b)
  <2> SUFFICES ASSUME NEW a \in 1..n, NEW b \in 1..n, Before(f, a, b)
               PROVE  Rank(f, a) < Rank(f, b)
    OBVIOUS
  <2>1. a \in Ahead(f, b)
    BY <1>0 DEF Ahead
  <2>2. \A c \in 1..n : Before(f, c, a) => Before(f, c, b)
    BY <1>0 DEF Before
  <2>3. Ahead(f, a) \in SUBSET (Ahead(f, b) \ {a})
    BY <1>0, <1>2, <2>2 DEF Ahead
  <2>4. IsFiniteSet(Ahead(f, b) \ {a}) /\ Cardinality(Ahead(f, b) \ {a}) = Rank(f, b) - 1
    BY <1>2, <2>1, FS_RemoveElement DEF Rank
  <2>5. Rank(f, a) <= Rank(f, b) - 1
    BY <2>3, <2>4, FS_Subset DEF Rank
  <2> QED  BY <1>2, <2>5
<1>5. \A a, b \in 1..n : a = b \/ Before(f, a, b) \/ Before(f, b, a)
  BY <1>0 DEF Before
<1>6. \A a, b \in 1..n : Rank(f, a) = Rank(f, b) => a = b
  BY <1>2, <1>4, <1>5
<1> QED  BY <1>3, <1>4, <1>6

(* The sort leaves everyone at the place of its rank.                      *)
LEMMA SortIsByRank ==
  ASSUME NEW n \in Nat, NEW f \in [1..n -> Int]
  PROVE  \A k \in 1..n : /\ ByRank(f)[k] \in 1..n
                         /\ Rank(f, ByRank(f)[k]) = k - 1
<1> DEFINE R == [a \in 1..n |-> Rank(f, a)]
<1>1. R \in Injection(1..n, 0..(n - 1))
  <2>1. R \in [1..n -> 0..(n - 1)]
    BY RankOrder
  <2>2. \A a, b \in 1..n : R[a] = R[b] => a = b
    BY RankOrder
  <2> HIDE DEF R
  <2> QED  BY <2>1, <2>2 DEF Injection, IsInjective
<1>2. /\ IsFiniteSet(1..n) /\ Cardinality(1..n) = n
      /\ IsFiniteSet(0..(n - 1)) /\ Cardinality(0..(n - 1)) = n
  BY FS_Interval
<1>3. R \in Surjection(1..n, 0..(n - 1))
  <2> HIDE DEF R
  <2> QED  BY <1>1, <1>2, FS_Injection
<1>4. \A k \in 1..n : \E a \in 1..n : Rank(f, a) = k - 1
  <2> TAKE k \in 1..n
  <2>1. k - 1 \in 0..(n - 1)
    OBVIOUS
  <2>2. \E a \in 1..n : R[a] = k - 1
    <3> HIDE DEF R
    <3> QED  BY <1>3, <2>1 DEF Surjection
  <2> QED  BY <2>2
<1>5. Len(f) = n
  OBVIOUS
<1>6. \A k \in 1..n : ByRank(f)[k] = CHOOSE a \in 1..n : Rank(f, a) = k - 1
  BY <1>5 DEF ByRank, Rank, Ahead
<1> QED  BY <1>4, <1>6

LEMMA TriangleSteps ==
  ASSUME NEW m \in Nat
  PROVE  Triangle(m) \in Nat /\ Triangle(m + 1) = Triangle(m) + m + 1
<1>1. m * (m + 1) \in Nat
  OBVIOUS
<1>2. (m + 1) * (m + 1 + 1) = m * (m + 1) + 2 * (m + 1)
  OBVIOUS
<1>3. \A x \in Nat, y \in Nat : (x + 2 * y) \div 2 = (x \div 2) + y /\ x \div 2 \in Nat
  OBVIOUS
<1> DEFINE x == m * (m + 1)
<1> HIDE DEF x
<1>4. x \in Nat /\ Triangle(m) = x \div 2
  BY <1>1 DEF x, Triangle
<1>5. Triangle(m + 1) = (x + 2 * (m + 1)) \div 2
  BY <1>2 DEF x, Triangle
<1>6. (x + 2 * (m + 1)) \div 2 = (x \div 2) + (m + 1)
  BY <1>3, <1>4
<1> QED  BY <1>3, <1>4, <1>5, <1>6

(* The weight of the k-th rank is n - k + 1.                               *)
LEMMA CumulativeSteps ==
  ASSUME NEW n \in Nat
  PROVE  /\ Cumulative(n, 0) = 0 /\ Cumulative(n, n) = Triangle(n)
         /\ \A k \in 1..n : /\ Cumulative(n, k) \in Int /\ Cumulative(n, k - 1) \in Int
                            /\ Cumulative(n, k) = Cumulative(n, k - 1) + n - k + 1
<1>1. Triangle(n) \in Nat /\ Triangle(0) = 0
  BY TriangleSteps DEF Triangle
<1>2. Cumulative(n, 0) = 0 /\ Cumulative(n, n) = Triangle(n)
  <2>1. n - 0 = n /\ n - n = 0
    OBVIOUS
  <2> QED  BY <1>1, <2>1 DEF Cumulative
<1>3. \A k \in 1..n : /\ Cumulative(n, k) \in Int /\ Cumulative(n, k - 1) \in Int
                      /\ Cumulative(n, k) = Cumulative(n, k - 1) + n - k + 1
  <2> TAKE k \in 1..n
  <2> DEFINE m == n - k
  <2>1. m \in Nat /\ m + 1 = n - (k - 1) /\ m = n - k
    OBVIOUS
  <2>2. Triangle(m) \in Nat /\ Triangle(m + 1) = Triangle(m) + m + 1
    BY <2>1, TriangleSteps
  <2>3. Cumulative(n, k) = Triangle(n) - Triangle(m) /\ Cumulative(n, k - 1) = Triangle(n) - Triangle(m + 1)
    BY <2>1 DEF Cumulative
  <2> HIDE DEF m
  <2> QED  BY <1>1, <2>1, <2>2, <2>3
<1> QED  BY <1>2, <1>3

LEMMA CumulativeGrows ==
  ASSUME NEW n \in Nat, NEW i \in 0..n, NEW j \in 0..n, i <= j
  PROVE  0 <= Cumulative(n, i) /\ Cumulative(n, i) <= Cumulative(n, j)
<1>1. ASSUME NEW x \in Nat, NEW y \in Nat, x <= y
      PROVE  Triangle(x) <= Triangle(y)
  <2>1. x * (x + 1) <= x * (y + 1)
    BY <1>1
  <2>2. x * (y + 1) <= y * (y + 1)
    BY <1>1
  <2>3. x * (x + 1) \in Nat /\ x * (y + 1) \in Nat /\ y * (y + 1) \in Nat
    OBVIOUS
  <2>4. \A v, w \in Nat : v <= w => (v \div 2) <= (w \div 2)
    OBVIOUS
  <2> QED  BY <2>1, <2>2, <2>3, <2>4 DEF Triangle
<1>2. n - j \in Nat /\ n - i \in Nat /\ n - j <= n - i /\ n - i <= n
  OBVIOUS
<1>3. Triangle(n - j) <= Triangle(n - i) /\ Triangle(n - i) <= Triangle(n)
  BY <1>1, <1>2
<1>4. Triangle(n - j) \in Nat /\ Triangle(n - i) \in Nat /\ Triangle(n) \in Nat
  BY <1>2, TriangleSteps
<1> QED  BY <1>3, <1>4 DEF Cumulative

(* Every draw hits one rank.                                               *)
LEMMA OneHit ==
  ASSUME NEW n \in Nat, n > 0, NEW r \in RankDraws(n)
  PROVE  \E k \in 1..n : RankHits(n, r) = {k}
<1>0. Triangle(n) \in Nat /\ r \in Int /\ r <= Triangle(n)
  BY TriangleSteps DEF RankDraws
<1> DEFINE S == {k \in 1..n : Cumulative(n, k) >= r}
<1>1. n \in S
  BY <1>0, CumulativeSteps
<1>2. PICK k \in S : \A j \in S : k <= j
  <2>1. S \in SUBSET Nat /\ S # {}
    BY <1>1
  <2> HIDE DEF S
  <2> QED  BY <2>1, LeastExists
<1>3. k \in 1..n /\ Cumulative(n, k) >= r
  BY <1>2
<1>4. \A j \in 1..(k - 1) : j \in 1..n /\ ~(k <= j)
  BY <1>3
<1>5. \A j \in 1..n : Cumulative(n, j) \in Int
  BY CumulativeSteps
<1>6. \A j \in 1..(k - 1) : Cumulative(n, j) < r
  BY <1>0, <1>2, <1>4, <1>5
<1>7. k \in RankHits(n, r)
  BY <1>3, <1>6 DEF RankHits
<1>8. \A j \in RankHits(n, r) : j = k
  <2> TAKE j \in RankHits(n, r)
  <2>1. /\ j \in 1..n /\ Cumulative(n, j) >= r
        /\ \A i \in 1..(j - 1) : Cumulative(n, i) < r
    BY DEF RankHits
  <2>2. k <= j
    BY <1>2, <2>1
  <2>3. CASE k < j
    <3>1. k \in 1..(j - 1)
      BY <1>3, <2>1, <2>3
    <3> QED  BY <1>0, <1>3, <1>5, <2>1, <3>1
  <2> QED  BY <1>3, <2>1, <2>2, <2>3
<1> QED  BY <1>3, <1>7, <1>8

(* The draws of a rank.                                                    *)
Hitting(n, k) == {r \in RankDraws(n) : k \in RankHits(n, r)}

LEMMA LaterRanksHaveFewer ==
  ASSUME NEW n \in Nat, NEW j \in 1..n, NEW k \in 1..n, j < k
  PROVE  /\ Cardinality(Hitting(n, k)) <= Cardinality(Hitting(n, j))
         /\ Cardinality(Hitting(n, j)) \in Nat /\ Cardinality(Hitting(n, k)) \in Nat
<1> DEFINE before == Cumulative(n, k - 1)
           start  == Cumulative(n, j - 1)
           g      == [r \in Hitting(n, k) |-> (r - before) + start]
<1>0. Triangle(n) \in Nat
  BY TriangleSteps
<1>1. /\ before \in Int /\ start \in Int
      /\ Cumulative(n, k) = before + n - k + 1
      /\ Cumulative(n, j) = start + n - j + 1
  BY CumulativeSteps
<1>2. 0 <= start /\ start <= before
  BY CumulativeGrows
<1>3. k - 1 \in 1..(k - 1) /\ k - 1 \in 1..n
  OBVIOUS
<1>4. \A r \in Hitting(n, k) : /\ r \in Int /\ r <= Triangle(n) - 1
                               /\ before < r /\ r <= before + n - k + 1
  BY <1>0, <1>1, <1>3 DEF Hitting, RankHits, RankDraws
<1>5. \A i \in 1..(j - 1) : i \in 1..n /\ Cumulative(n, i) <= start
  <2> TAKE i \in 1..(j - 1)
  <2>1. i \in 0..n /\ j - 1 \in 0..n /\ i <= j - 1
    OBVIOUS
  <2> QED  BY <2>1, CumulativeGrows
<1>6. ASSUME NEW r \in Hitting(n, k)
      PROVE  (r - before) + start \in Hitting(n, j)
  <2> DEFINE t == (r - before) + start
  <2> HIDE DEF before, start
  <2>1. t \in Int /\ start < t /\ t <= start + n - j + 1 /\ t \in 0..(Triangle(n) - 1)
    BY <1>0, <1>1, <1>2, <1>4
  <2> HIDE DEF t
  <2>2. Cumulative(n, j) >= t
    BY <1>1, <2>1
  <2>3. \A i \in 1..(j - 1) : Cumulative(n, i) \in Int
    BY <1>5, CumulativeSteps
  <2>4. \A i \in 1..(j - 1) : Cumulative(n, i) < t
    BY <1>1, <1>5, <2>1, <2>3
  <2>5. t \in Hitting(n, j)
    BY <2>1, <2>2, <2>4 DEF Hitting, RankHits, RankDraws
  <2> QED  BY <2>5 DEF t
<1>7. g \in Injection(Hitting(n, k), Hitting(n, j))
  <2>1. g \in [Hitting(n, k) -> Hitting(n, j)]
    BY <1>6
  <2>2. \A r, t \in Hitting(n, k) : g[r] = g[t] => r = t
    BY <1>1, <1>4
  <2> HIDE DEF g
  <2> QED  BY <2>1, <2>2 DEF Injection, IsInjective
<1>8. IsFiniteSet(RankDraws(n))
  BY <1>0, FS_Interval DEF RankDraws
<1>9. IsFiniteSet(Hitting(n, j)) /\ IsFiniteSet(Hitting(n, k))
  BY <1>8, FS_Subset DEF Hitting
<1> HIDE DEF g
<1> QED  BY <1>7, <1>9, FS_Injection, FS_CardinalityType

LEMMA SelectedIsHit ==
  ASSUME NEW n \in Nat, n > 0, NEW f \in [1..n -> Int], NEW a \in 1..n
  PROVE  {r \in RankDraws(n) : SelectRank(f, r) = a} = Hitting(n, Rank(f, a) + 1)
<1>1. ASSUME NEW r \in RankDraws(n)
      PROVE  SelectRank(f, r) = a <=> Rank(f, a) + 1 \in RankHits(n, r)
  <2>1. PICK k \in 1..n : RankHits(n, r) = {k}
    BY OneHit
  <2>2. Len(f) = n
    OBVIOUS
  <2>3. SelectRank(f, r) = ByRank(f)[k]
    BY <2>1, <2>2 DEF SelectRank
  <2>4. ByRank(f)[k] \in 1..n /\ Rank(f, ByRank(f)[k]) = k - 1
    BY SortIsByRank
  <2>5. Rank(f, a) \in Int /\ (Rank(f, ByRank(f)[k]) = Rank(f, a) => ByRank(f)[k] = a)
    <3>1. \A c \in 1..n : Rank(f, c) \in 0..(n - 1)
      BY RankOrder
    <3>2. \A c, d \in 1..n : Rank(f, c) = Rank(f, d) => c = d
      BY RankOrder
    <3> QED  BY <2>4, <3>1, <3>2
  <2> QED  BY <2>1, <2>3, <2>4, <2>5
<1> QED  BY <1>1 DEF Hitting

LEMMA FitterInWords == FitsOK => FitterIsLikelier
<1> SUFFICES ASSUME FitsOK, NEW a \in Sizes, NEW b \in Sizes, fits[a] > fits[b]
             PROVE  DrawsOf(a) >= DrawsOf(b)
  BY DEF FitterIsLikelier
<1> DEFINE n == Len(fits)
<1>1. n \in Nat /\ n > 0 /\ a \in 1..n /\ b \in 1..n /\ fits \in [1..n -> Int]
  <2>1. \A x \in 0..MaxFit : x \in Int
    BY SizesAssumption
  <2> QED  BY <2>1, FitsInWords
<1> HIDE DEF n
<1>2. Before(fits, a, b)
  BY DEF Before
<1>3. /\ Rank(fits, a) \in 0..(n - 1) /\ Rank(fits, b) \in 0..(n - 1)
      /\ Rank(fits, a) < Rank(fits, b)
  BY <1>1, <1>2, RankOrder
<1>4. /\ Rank(fits, a) + 1 \in 1..n /\ Rank(fits, b) + 1 \in 1..n
      /\ Rank(fits, a) + 1 < Rank(fits, b) + 1
  BY <1>1, <1>3
<1>5. /\ DrawsOf(a) = Cardinality(Hitting(n, Rank(fits, a) + 1))
      /\ DrawsOf(b) = Cardinality(Hitting(n, Rank(fits, b) + 1))
  BY <1>1, SelectedIsHit DEF DrawsOf, n
<1> QED  BY <1>1, <1>4, <1>5, LaterRanksHaveFewer

(* Of the equally likely draws of the rank selection at least as many are  *)
(* for the fitter of two individuals, in populations of any size           *)
(* (FitterIsLikelier).                                                     *)
THEOREM FitterAreLikelier == Spec => []FitterIsLikelier
  BY FitsKept, FitterInWords, PTL

-----------------------------------------------------------------------------
(* The two dialects. *)

LEMMA OctetPowers ==
  ASSUME NEW k \in 0..3, D!Octet \in {4, 16, 256}
  PROVE  D!Octet ^ k \in Int /\ D!Octet ^ k > 0
<1>1. k = 0 \/ k = 1 \/ k = 2 \/ k = 3
  OBVIOUS
<1>2. k \in Nat /\ D!Octet \in Nat /\ D!Octet # 0
  OBVIOUS
<1>3. D!Octet ^ k \in Int
  BY <1>2
<1>4. /\ 4 ^ 0 > 0 /\ 4 ^ 1 > 0 /\ 4 ^ 2 > 0 /\ 4 ^ 3 > 0
      /\ 16 ^ 0 > 0 /\ 16 ^ 1 > 0 /\ 16 ^ 2 > 0 /\ 16 ^ 3 > 0
      /\ 256 ^ 0 > 0 /\ 256 ^ 1 > 0 /\ 256 ^ 2 > 0 /\ 256 ^ 3 > 0
  BY SMT
<1>5. D!Octet ^ k > 0
  BY <1>1, <1>4, Zenon
<1> QED  BY <1>3, <1>5

LEMMA WordSizes ==
  /\ Bits \in Nat /\ Bits > 0 /\ Bits <= 32
  /\ D!Word \in Nat /\ D!Word > 1
  /\ D!Octet \in Nat /\ D!Octet > 0
  /\ \A k \in 0..3 : D!Octet ^ k \in Int /\ D!Octet ^ k > 0
  /\ HeapSize \in Nat /\ HeapSize > 0 /\ HeapSize + 4 <= D!Word
<1>1. Bits \in {8, 16, 32} /\ HeapSize \in 1..(D!Word - 4)
  BY DialectsAssumption, Zenon DEF D!DialectsAssumption, D!Word
<1>2. CASE Bits = 8
  <2>1. D!Word \in Nat /\ D!Word > 1
    BY <1>2, SMT DEF D!Word
  <2>2. D!Octet = 4
    BY <1>2, SMT DEF D!Octet
  <2> QED  BY <1>1, <1>2, <2>1, <2>2, OctetPowers, SMT
<1>3. CASE Bits = 16
  <2>1. D!Word \in Nat /\ D!Word > 1
    BY <1>3, SMT DEF D!Word
  <2>2. D!Octet = 16
    BY <1>3, SMT DEF D!Octet
  <2> QED  BY <1>1, <1>3, <2>1, <2>2, OctetPowers, SMT
<1>4. CASE Bits = 32
  <2>1. D!Word \in Nat /\ D!Word > 1
    BY <1>4, SMT DEF D!Word
  <2>2. D!Octet = 256
    BY <1>4, SMT DEF D!Octet
  <2> QED  BY <1>1, <1>4, <2>1, <2>2, OctetPowers, SMT
<1> QED  BY <1>1, <1>2, <1>3, <1>4

LEMMA ShiftsArePositive ==
  ASSUME NEW b \in Int
  PROVE  2 ^ (b % Bits) \in Nat /\ 2 ^ (b % Bits) > 0
<1> DEFINE k == b % Bits
<1>1. 2 ^ 0 > 0 /\ 2 ^ 1 > 0 /\ 2 ^ 2 > 0 /\ 2 ^ 3 > 0 /\ 2 ^ 4 > 0 /\ 2 ^ 5 > 0
      /\ 2 ^ 6 > 0 /\ 2 ^ 7 > 0 /\ 2 ^ 8 > 0 /\ 2 ^ 9 > 0 /\ 2 ^ 10 > 0 /\ 2 ^ 11 > 0
      /\ 2 ^ 12 > 0 /\ 2 ^ 13 > 0 /\ 2 ^ 14 > 0 /\ 2 ^ 15 > 0 /\ 2 ^ 16 > 0 /\ 2 ^ 17 > 0
      /\ 2 ^ 18 > 0 /\ 2 ^ 19 > 0 /\ 2 ^ 20 > 0 /\ 2 ^ 21 > 0 /\ 2 ^ 22 > 0 /\ 2 ^ 23 > 0
      /\ 2 ^ 24 > 0 /\ 2 ^ 25 > 0 /\ 2 ^ 26 > 0 /\ 2 ^ 27 > 0 /\ 2 ^ 28 > 0 /\ 2 ^ 29 > 0
      /\ 2 ^ 30 > 0 /\ 2 ^ 31 > 0
  OBVIOUS
<1>2. k \in 0..31
  BY WordSizes
<1> HIDE DEF k
<1>3. k = 0 \/ k = 1 \/ k = 2 \/ k = 3 \/ k = 4 \/ k = 5 \/ k = 6 \/ k = 7
      \/ k = 8 \/ k = 9 \/ k = 10 \/ k = 11 \/ k = 12 \/ k = 13 \/ k = 14 \/ k = 15
      \/ k = 16 \/ k = 17 \/ k = 18 \/ k = 19 \/ k = 20 \/ k = 21 \/ k = 22 \/ k = 23
      \/ k = 24 \/ k = 25 \/ k = 26 \/ k = 27 \/ k = 28 \/ k = 29 \/ k = 30 \/ k = 31
  BY <1>2
<1>4. 2 ^ k > 0
  BY <1>1, <1>3, Zenon
<1>5. 2 ^ k \in Int
  BY <1>2
<1>6. 2 ^ k \in Nat
  BY <1>4, <1>5
<1> QED  BY <1>4, <1>6 DEF k

(* What the bitwise operators compute is a number.                         *)
LEMMA CombineIsNumber ==
  ASSUME NEW w \in Nat, NEW pairs, NEW a, NEW b
  PROVE  D!Combine(w, pairs, a, b) \in Int
<1> DEFINE Add(n) == IF <<D!Bit(a, n - 1), D!Bit(b, n - 1)>> \in pairs THEN 2 ^ (n - 1) ELSE 0
           step == [n \in Nat |-> [v \in Int |-> v + (IF n = 0 THEN 0 ELSE Add(n))]]
           Sums(f) == f = [n \in 0..w |-> IF n = 0 THEN 0 ELSE f[n - 1] + Add(n)]
<1>1. ASSUME NEW n \in Nat, n # 0
      PROVE  Add(n) \in Int
  <2>1. 2 ^ (n - 1) \in Int
    <3>1. n - 1 \in Nat
      BY <1>1
    <3> QED  BY <3>1
  <2> QED  BY <2>1
<1> HIDE DEF Add
<1>2. step \in [Nat -> [Int -> Int]]
  BY <1>1
<1>3. ASSUME NEW n \in 1..w, NEW v \in Int
      PROVE  step[n][v] = v + Add(n)
  <2>1. n \in Nat /\ n # 0
    OBVIOUS
  <2> QED  BY <2>1
<1> HIDE DEF step
<1>4. PICK f \in [0..w -> Int] : Iterates(f, w, 0, step)
  <2>1. 0 \in Int /\ step \in Steps(Int)
    BY <1>2 DEF Steps
  <2> QED  BY <2>1, Iteration, Zenon
<1>5. \A n \in 0..w : f[n] = IF n = 0 THEN 0 ELSE f[n - 1] + Add(n)
  BY <1>3, <1>4 DEF Iterates
<1>6. \E g : Sums(g)
  BY <1>5
<1>7. ASSUME NEW g, Sums(g)
      PROVE  g[w] \in Int
  <2> DEFINE P == {n \in 0..w : g[n] \in Int}
  <2>1. 0 \in P
    BY <1>7
  <2>2. ASSUME NEW n \in 1..w, n - 1 \in P
        PROVE  n \in P
    <3>1. n \in Nat /\ n # 0 /\ n \in 0..w
      OBVIOUS
    <3>2. g[n] = g[n - 1] + Add(n)
      BY <1>7, <3>1
    <3>3. Add(n) \in Int /\ g[n - 1] \in Int
      BY <1>1, <2>2, <3>1
    <3> QED  BY <3>1, <3>2, <3>3
  <2> HIDE DEF P
  <2>3. 0..w \subseteq P
    BY <2>1, <2>2, IntervalInduction, Zenon
  <2>4. w \in 0..w
    OBVIOUS
  <2> QED  BY <2>3, <2>4 DEF P
<1>8. D!Combine(w, pairs, a, b) = (CHOOSE g : Sums(g))[w]
  BY Zenon DEF D!Combine, Add
<1> HIDE DEF Sums
<1>9. Sums(CHOOSE g : Sums(g))
  BY <1>6, Zenon
<1> QED  BY <1>7, <1>8, <1>9

-----------------------------------------------------------------------------
(* What an instruction of the native dialect does to a machine. *)

Words == 0..(D!Word - 1)

Machines ==
  [regs : [D!Regs -> Words], zero : BOOLEAN, negative : BOOLEAN, carry : BOOLEAN,
   state : {"RUNNING", "ERROR", "FAULT"}, heap : [D!Heap -> Int], to : SUBSET Int]

(* From m to n the flags that branches look at stay.                       *)
SameFlags(m, n) == n.zero = m.zero /\ n.carry = m.carry

(* A step from m to n that stays among the machines and leaves the flags.  *)
Quiet(m, n) == n \in Machines /\ SameFlags(m, n)

LEMMA SetIsQuiet ==
  ASSUME NEW m \in Machines, NEW r \in D!Regs, NEW v \in Int
  PROVE  Quiet(m, D!Set(m, r, v))
<1>1. v % D!Word \in Words
  BY WordSizes DEF Words
<1> QED  BY <1>1 DEF D!Set, Machines, Quiet, SameFlags

LEMMA FlagsAreSet ==
  ASSUME NEW m \in Machines, NEW z \in BOOLEAN, NEW n \in BOOLEAN, NEW c \in BOOLEAN
  PROVE  /\ D!Flags(m, z, n, c) \in Machines
         /\ D!Flags(m, z, n, c).zero = z /\ D!Flags(m, z, n, c).carry = c
  BY DEF D!Flags, Machines

LEMMA JumpIsQuiet ==
  ASSUME NEW m \in Machines, NEW a \in Int
  PROVE  Quiet(m, D!Jump(m, a))
  BY DEF D!Jump, Machines, Quiet, SameFlags

LEMMA EndsAreQuiet ==
  ASSUME NEW m \in Machines
  PROVE  Quiet(m, m) /\ Quiet(m, D!Fails(m)) /\ Quiet(m, D!Fault(m))
  BY DEF D!Fails, D!Fault, Machines, Quiet, SameFlags

LEMMA LoadIsQuiet ==
  ASSUME NEW m \in Machines, NEW r \in D!Regs, NEW a \in Words
  PROVE  Quiet(m, D!load_word(m, r, a))
<1>1. CASE ~ D!WordFits(a)
  <2>1. D!load_word(m, r, a) = D!Set(m, r, 0)
    BY <1>1 DEF D!load_word, D!WordFits, D!Wraps
  <2> QED  BY <2>1, SetIsQuiet
<1>2. CASE D!WordFits(a) /\ a \notin D!Heap
  <2>1. D!load_word(m, r, a) = D!Fault(m)
    BY <1>2 DEF D!load_word, D!WordFits, D!Wraps
  <2> QED  BY <2>1, EndsAreQuiet
<1>3. CASE D!WordFits(a) /\ a \in D!Heap
  <2> DEFINE v == m.heap[a] + D!Octet * m.heap[a + 1] + D!Octet ^ 2 * m.heap[a + 2]
                    + D!Octet ^ 3 * m.heap[a + 3]
  <2>1. a \in Int /\ a + 3 < D!Word /\ a >= 0 /\ D!Word \in Nat
    BY <1>3, WordSizes DEF D!Heap
  <2>2. (a + 3) % D!Word = a + 3
    BY <2>1
  <2>3. a + 3 < HeapSize
    BY <1>3, <2>2 DEF D!WordFits
  <2>4. a \in D!Heap /\ a + 1 \in D!Heap /\ a + 2 \in D!Heap /\ a + 3 \in D!Heap
    BY <2>1, <2>3, WordSizes DEF D!Heap
  <2>5. /\ m.heap[a] \in Int /\ m.heap[a + 1] \in Int
        /\ m.heap[a + 2] \in Int /\ m.heap[a + 3] \in Int
    BY <2>4 DEF Machines
  <2>6. D!Octet \in Int /\ D!Octet ^ 2 \in Int /\ D!Octet ^ 3 \in Int
    BY WordSizes
  <2>7. /\ D!Octet * m.heap[a + 1] \in Int /\ D!Octet ^ 2 * m.heap[a + 2] \in Int
        /\ D!Octet ^ 3 * m.heap[a + 3] \in Int
    BY <2>5, <2>6
  <2>8. v \in Int
    BY <2>5, <2>7
  <2>9. D!load_word(m, r, a) = D!Set(m, r, v)
    BY <1>3 DEF D!load_word, D!WordFits, D!Wraps
  <2> HIDE DEF v
  <2> QED  BY <2>8, <2>9, SetIsQuiet
<1> QED  BY <1>1, <1>2, <1>3 DEF D!WordFits

LEMMA StoreIsQuiet ==
  ASSUME NEW m \in Machines, NEW a \in Words, NEW v \in Words
  PROVE  Quiet(m, D!store_word(m, a, v)) /\ Quiet(m, D!store_byte(m, a, v))
<1>0. a \in Int /\ v \in Int /\ D!Octet \in Nat /\ D!Octet > 0
  BY WordSizes DEF Words
<1>1. ASSUME ~ D!WordFits(a)
      PROVE  Quiet(m, D!store_word(m, a, v))
  <2>1. D!store_word(m, a, v) = m
    BY <1>1 DEF D!store_word, D!WordFits, D!Wraps
  <2> QED  BY <2>1, EndsAreQuiet
<1>2. ASSUME D!WordFits(a), a \notin D!Heap
      PROVE  Quiet(m, D!store_word(m, a, v))
  <2>1. D!store_word(m, a, v) = D!Fault(m)
    BY <1>2 DEF D!store_word, D!WordFits, D!Wraps
  <2> QED  BY <2>1, EndsAreQuiet
<1>3. ASSUME D!WordFits(a), a \in D!Heap
      PROVE  Quiet(m, D!store_word(m, a, v))
  <2> DEFINE h == [x \in D!Heap |-> IF x \in a..(a + 3)
                                    THEN (v \div D!Octet ^ (x - a)) % D!Octet ELSE m.heap[x]]
  <2>1. ASSUME NEW x \in D!Heap
        PROVE  h[x] \in Int
    <3>1. CASE x \in a..(a + 3)
      <4>1. x - a \in 0..3
        BY <1>0, <3>1
      <4>2. D!Octet ^ (x - a) \in Int /\ D!Octet ^ (x - a) > 0
        BY <4>1, WordSizes
      <4>3. v \div D!Octet ^ (x - a) \in Int
        BY <1>0, <4>2
      <4>4. (v \div D!Octet ^ (x - a)) % D!Octet \in Int
        BY <1>0, <4>3
      <4> QED  BY <3>1, <4>4
    <3>2. CASE x \notin a..(a + 3)
      BY <3>2 DEF Machines
    <3> QED  BY <3>1, <3>2
  <2>2. h \in [D!Heap -> Int]
    BY <2>1
  <2>3. D!store_word(m, a, v) = [m EXCEPT !.heap = h]
    BY <1>3, SMT DEF D!store_word, D!WordFits, D!Wraps
  <2> HIDE DEF h
  <2> QED  BY <2>2, <2>3 DEF Machines, Quiet, SameFlags
<1>4. Quiet(m, D!store_byte(m, a, v))
  <2>1. v % D!Octet \in Int
    BY <1>0
  <2> QED  BY <2>1 DEF D!store_byte, Machines, Quiet, SameFlags
<1> QED  BY <1>1, <1>2, <1>3, <1>4 DEF D!WordFits

LEMMA QuietInstructions ==
  ASSUME NEW m \in Machines, NEW i, i.dst \in D!Regs, i.src \in D!Regs,
         NEW a \in Words, NEW r \in Words, NEW b \in Words,
         i.name \in {"MUL", "DIV", "MOD", "INC", "DEC", "NEG", "AND", "OR", "XOR", "NOT", "SHL",
                     "SHR", "SAR", "MOV", "MOVI", "XCHG", "LDR", "STR", "LDRB", "STRB"}
                      \cup D!Jumps
  PROVE  Quiet(m, D!native_effect(m, i, a, r, b))
<1> DEFINE after == D!native_effect(m, i, a, r, b)
<1>1. /\ a \in Int /\ r \in Int /\ b \in Int /\ a >= 0 /\ b >= 0
      /\ D!Word \in Int /\ Bits \in Nat
  BY WordSizes DEF Words
<1>2. CASE i.name = "MUL"
  <2>1. after = D!Set(m, i.dst, a * b)
    BY <1>2 DEF D!native_effect, D!Jumps
  <2>2. a * b \in Int
    BY <1>1
  <2> QED  BY <2>1, <2>2, SetIsQuiet
<1>3. CASE i.name = "INC"
  <2>1. after = D!Set(m, i.dst, a + 1)
    BY <1>3 DEF D!native_effect, D!Jumps
  <2>2. a + 1 \in Int
    BY <1>1
  <2> QED  BY <2>1, <2>2, SetIsQuiet
<1>4. CASE i.name = "DEC"
  <2>1. after = D!Set(m, i.dst, D!Word + a - 1)
    BY <1>4 DEF D!native_effect, D!Jumps
  <2>2. D!Word + a - 1 \in Int
    BY <1>1
  <2> QED  BY <2>1, <2>2, SetIsQuiet
<1>5. CASE i.name = "NEG"
  <2>1. after = D!Set(m, i.dst, D!Word - a)
    BY <1>5 DEF D!native_effect, D!Jumps
  <2>2. D!Word - a \in Int
    BY <1>1
  <2> QED  BY <2>1, <2>2, SetIsQuiet
<1>6. CASE i.name = "NOT"
  <2>1. after = D!Set(m, i.dst, D!Word - 1 - a)
    BY <1>6 DEF D!native_effect, D!Jumps
  <2>2. D!Word - 1 - a \in Int
    BY <1>1
  <2> QED  BY <2>1, <2>2, SetIsQuiet
<1>7. CASE i.name = "MOV"
  <2>1. after = D!Set(m, i.dst, r)
    BY <1>7 DEF D!native_effect, D!Jumps
  <2>2. r \in Int
    BY <1>1
  <2> QED  BY <2>1, <2>2, SetIsQuiet
<1>8. CASE i.name = "MOVI"
  <2>1. after = D!Set(m, i.dst, b)
    BY <1>8 DEF D!native_effect, D!Jumps
  <2>2. b \in Int
    BY <1>1
  <2> QED  BY <2>1, <2>2, SetIsQuiet
<1>9. CASE i.name = "AND"
  <2>1. after = D!Set(m, i.dst, D!And(Bits, a, b))
    BY <1>9 DEF D!native_effect, D!Jumps
  <2>2. D!And(Bits, a, b) \in Int
    BY <1>1, CombineIsNumber DEF D!And
  <2> QED  BY <2>1, <2>2, SetIsQuiet
<1>10. CASE i.name = "OR"
  <2>1. after = D!Set(m, i.dst, D!Or(Bits, a, b))
    BY <1>10 DEF D!native_effect, D!Jumps
  <2>2. D!Or(Bits, a, b) \in Int
    BY <1>1, CombineIsNumber DEF D!Or
  <2> QED  BY <2>1, <2>2, SetIsQuiet
<1>11. CASE i.name = "XOR"
  <2>1. after = D!Set(m, i.dst, D!Xor(Bits, a, b))
    BY <1>11 DEF D!native_effect, D!Jumps
  <2>2. D!Xor(Bits, a, b) \in Int
    BY <1>1, CombineIsNumber DEF D!Xor
  <2> QED  BY <2>1, <2>2, SetIsQuiet
<1>12. CASE i.name = "SHL"
  <2>1. after = D!Set(m, i.dst, D!Shl(a, b))
    BY <1>12 DEF D!native_effect, D!Jumps
  <2>2. D!Shl(a, b) \in Int
    BY <1>1, ShiftsArePositive DEF D!Shl
  <2> QED  BY <2>1, <2>2, SetIsQuiet
<1>13. CASE i.name = "SHR"
  <2>1. after = D!Set(m, i.dst, D!Shr(a, b))
    BY <1>13 DEF D!native_effect, D!Jumps
  <2>2. D!Shr(a, b) \in Int
    BY <1>1, ShiftsArePositive DEF D!Shr
  <2> QED  BY <2>1, <2>2, SetIsQuiet
<1>14. CASE i.name = "SAR"
  <2>1. after = D!Set(m, i.dst, D!Sar(a, b))
    BY <1>14 DEF D!native_effect, D!Jumps
  <2>2. D!Sar(a, b) \in Int
    BY <1>1, ShiftsArePositive DEF D!Sar, D!Negative
  <2> QED  BY <2>1, <2>2, SetIsQuiet
<1>15. CASE i.name = "DIV"
  <2>1. CASE b = 0
    <3>1. after = D!Fails(m)
      BY <1>15, <2>1 DEF D!native_effect, D!Jumps
    <3> QED  BY <3>1, EndsAreQuiet
  <2>2. CASE b # 0
    <3>1. after = D!Set(m, i.dst, a \div b)
      BY <1>15, <2>2 DEF D!native_effect, D!Jumps
    <3>2. a \div b \in Int
      BY <1>1, <2>2
    <3> QED  BY <3>1, <3>2, SetIsQuiet
  <2> QED  BY <2>1, <2>2
<1>16. CASE i.name = "MOD"
  <2>1. CASE b = 0
    <3>1. after = D!Fails(m)
      BY <1>16, <2>1 DEF D!native_effect, D!Jumps
    <3> QED  BY <3>1, EndsAreQuiet
  <2>2. CASE b # 0
    <3>1. after = D!Set(m, i.dst, a % b)
      BY <1>16, <2>2 DEF D!native_effect, D!Jumps
    <3>2. a % b \in Int
      BY <1>1, <2>2
    <3> QED  BY <3>1, <3>2, SetIsQuiet
  <2> QED  BY <2>1, <2>2
<1>17. CASE i.name = "XCHG"
  <2>1. after = D!Set(D!Set(m, i.dst, r), i.src, a)
    BY <1>17 DEF D!native_effect, D!Jumps
  <2>2. Quiet(m, D!Set(m, i.dst, r))
    BY <1>1, SetIsQuiet
  <2>3. Quiet(D!Set(m, i.dst, r), D!Set(D!Set(m, i.dst, r), i.src, a))
    BY <1>1, <2>2, SetIsQuiet DEF Quiet
  <2> QED  BY <2>1, <2>2, <2>3 DEF Quiet, SameFlags
<1>18. CASE i.name = "LDR"
  <2>1. after = D!load_word(m, i.dst, r)
    BY <1>18 DEF D!native_effect, D!Jumps
  <2> QED  BY <2>1, LoadIsQuiet
<1>19. CASE i.name = "STR"
  <2>1. after = D!store_word(m, a, r)
    BY <1>19 DEF D!native_effect, D!Jumps
  <2> QED  BY <2>1, StoreIsQuiet
<1>20. CASE i.name = "STRB"
  <2>1. after = D!store_byte(m, a, r)
    BY <1>20 DEF D!native_effect, D!Jumps
  <2> QED  BY <2>1, StoreIsQuiet
<1>21. CASE i.name = "LDRB"
  <2>1. CASE r \in D!Heap
    <3>1. after = D!Set(m, i.dst, m.heap[r])
      BY <1>21, <2>1 DEF D!native_effect, D!Jumps
    <3>2. m.heap[r] \in Int
      BY <2>1 DEF Machines
    <3> QED  BY <3>1, <3>2, SetIsQuiet
  <2>2. CASE r \notin D!Heap
    <3>1. after = m
      BY <1>21, <2>2 DEF D!native_effect, D!Jumps
    <3> QED  BY <3>1, EndsAreQuiet
  <2> QED  BY <2>1, <2>2
<1>22. CASE i.name \in D!Jumps
  <2>1. after = D!native_jump(m, i.name, b)
    BY <1>22 DEF D!native_effect, D!Jumps
  <2>2. D!native_jump(m, i.name, b) \in {D!Jump(m, b), m}
    BY DEF D!native_jump
  <2> QED  BY <1>1, <2>1, <2>2, JumpIsQuiet, EndsAreQuiet
<1> QED  BY <1>2, <1>3, <1>4, <1>5, <1>6, <1>7, <1>8, <1>9, <1>10, <1>11,
            <1>12, <1>13, <1>14, <1>15, <1>16, <1>17, <1>18, <1>19, <1>20, <1>21, <1>22

(* Comparisons and subtractions leave the order of their operands in the   *)
(* flags.                                                                  *)
Ordered(m, a, b) == m.zero = (a = b) /\ m.carry = (a < b)

LEMMA OrderingInstructions ==
  ASSUME NEW m \in Machines, NEW i, i.dst \in D!Regs,
         NEW a \in Words, NEW r, NEW b \in Words,
         i.name \in {"CMP", "CMPI", "SUB"}
  PROVE  /\ D!native_effect(m, i, a, r, b) \in Machines
         /\ Ordered(D!native_effect(m, i, a, r, b), a, b)
<1> DEFINE after == D!native_effect(m, i, a, r, b)
           zero == a = b
           negative == D!Negative(a - b)
           carry == a < b
<1>1. a \in Int /\ b \in Int /\ a - b \in Int /\ D!Word \in Nat /\ D!Word > 1
  BY WordSizes DEF Words
<1>2. zero \in BOOLEAN /\ negative \in BOOLEAN /\ carry \in BOOLEAN
  BY DEF D!Negative
<1>3. ASSUME NEW n \in Machines, after = D!Flags(n, zero, negative, carry)
      PROVE  after \in Machines /\ Ordered(after, a, b)
  <2>1. /\ D!Flags(n, zero, negative, carry) \in Machines
        /\ D!Flags(n, zero, negative, carry).zero = zero
        /\ D!Flags(n, zero, negative, carry).carry = carry
    <3> HIDE DEF zero, negative, carry
    <3> QED  BY <1>2, FlagsAreSet
  <2> QED  BY <1>3, <2>1, Zenon DEF Ordered
<1>4. CASE i.name \in {"CMP", "CMPI"}
  <2>1. after = D!Compare(m, a, b)
    BY <1>4 DEF D!native_effect, D!Jumps
  <2>2. after = D!Flags(m, zero, negative, carry)
    BY <2>1, Zenon DEF D!Compare
  <2> QED  BY <1>3, <2>2, Zenon
<1>5. CASE i.name = "SUB"
  <2> DEFINE n == D!Set(m, i.dst, a - b)
             none == (a - b) % D!Word = 0
  <2>1. after = D!set_flags_arith(n, a - b, a < b)
    BY <1>5 DEF D!native_effect, D!Jumps
  <2>2. n \in Machines
    BY <1>1, SetIsQuiet DEF Quiet
  <2>3. after = D!Flags(n, none, negative, carry)
    BY <2>1, Zenon DEF D!set_flags_arith
  <2>4. none = zero
    <3>1. 0 <= a /\ a < D!Word /\ 0 <= b /\ b < D!Word
      BY <1>1 DEF Words
    <3>2. CASE a >= b
      <4>1. (a - b) % D!Word = a - b
        BY <1>1, <3>1, <3>2
      <4> QED  BY <1>1, <4>1
    <3>3. CASE a < b
      <4>1. (a - b) % D!Word = a - b + D!Word
        BY <1>1, <3>1, <3>3
      <4> QED  BY <1>1, <3>1, <3>3, <4>1
    <3> QED  BY <1>1, <3>2, <3>3
  <2>5. after = D!Flags(n, zero, negative, carry)
    BY <2>3, <2>4, Zenon
  <2> QED  BY <1>3, <2>2, <2>5, Zenon
<1> QED  BY <1>4, <1>5

LEMMA SumsAndTests ==
  ASSUME NEW m \in Machines, NEW i, i.dst \in D!Regs,
         NEW a \in Words, NEW r, NEW b \in Words,
         i.name \in {"ADD", "TEST"}
  PROVE  D!native_effect(m, i, a, r, b) \in Machines
<1>1. a + b \in Int
  BY WordSizes DEF Words
<1>2. CASE i.name = "TEST"
  <2> DEFINE zero == D!And(Bits, a, b) = 0
             negative == D!Negative(D!And(Bits, a, b))
  <2>1. D!native_effect(m, i, a, r, b) = D!Test(m, a, b)
    BY <1>2 DEF D!native_effect, D!Jumps
  <2>2. zero \in BOOLEAN /\ negative \in BOOLEAN /\ FALSE \in BOOLEAN
    BY DEF D!Negative
  <2>3. D!Test(m, a, b) = D!Flags(m, zero, negative, FALSE)
    BY Zenon DEF D!Test
  <2> HIDE DEF zero, negative
  <2>4. D!Flags(m, zero, negative, FALSE) \in Machines
    BY <2>2, FlagsAreSet, Zenon
  <2> QED  BY <2>1, <2>3, <2>4
<1>3. CASE i.name = "ADD"
  <2> DEFINE n == D!Set(m, i.dst, a + b)
             zero == (a + b) % D!Word = 0
             negative == D!Negative(a + b)
             carry == a + b >= D!Word
  <2>1. D!native_effect(m, i, a, r, b) = D!set_flags_arith(n, a + b, a + b >= D!Word)
    BY <1>3 DEF D!native_effect, D!Jumps
  <2>2. n \in Machines
    BY <1>1, SetIsQuiet DEF Quiet
  <2>3. zero \in BOOLEAN /\ negative \in BOOLEAN /\ carry \in BOOLEAN
    BY DEF D!Negative
  <2>4. D!native_effect(m, i, a, r, b) = D!Flags(n, zero, negative, carry)
    BY <2>1, Zenon DEF D!set_flags_arith
  <2> HIDE DEF n, zero, negative, carry
  <2>5. D!Flags(n, zero, negative, carry) \in Machines
    BY <2>2, <2>3, FlagsAreSet, Zenon
  <2> QED  BY <2>4, <2>5
<1> QED  BY <1>2, <1>3

-----------------------------------------------------------------------------
(* What the two dialects have in common, instruction by instruction. *)

SameEffect(m, i, a, r, b) == D!iching_effect(m, i, a, r, b) = D!native_effect(m, i, a, r, b)

(* The instruction i is the one that the two dialects write as in pair. *)
Reads(i, pair) == i.name = pair.name /\ i.op = pair.op /\ i.sub = pair.sub

LEMMA EitherKindAgrees ==
  ASSUME NEW m, NEW i, NEW a, NEW r, NEW b,
         NEW pair \in D!EitherKind, Reads(i, pair)
  PROVE  SameEffect(m, i, a, r, b)
<1>1. ASSUME i.name = "ADD", i.op = 24, i.sub = 0
      PROVE  SameEffect(m, i, a, r, b)
  <2>1. D!iching_effect(m, i, a, r, b) = D!set_flags_arith(D!Set(m, i.dst, a + b), a + b, a + b >= D!Word)
    BY <1>1 DEF D!iching_effect, D!iching_gather
  <2>2. D!native_effect(m, i, a, r, b) = D!set_flags_arith(D!Set(m, i.dst, a + b), a + b, a + b >= D!Word)
    BY <1>1 DEF D!native_effect, D!Jumps
  <2> QED  BY <2>1, <2>2 DEF SameEffect
<1>2. ASSUME i.name = "SUB", i.op = 24, i.sub = 1
      PROVE  SameEffect(m, i, a, r, b)
  <2>1. D!iching_effect(m, i, a, r, b) = D!set_flags_arith(D!Set(m, i.dst, a - b), a - b, a < b)
    BY <1>2 DEF D!iching_effect, D!iching_gather
  <2>2. D!native_effect(m, i, a, r, b) = D!set_flags_arith(D!Set(m, i.dst, a - b), a - b, a < b)
    BY <1>2 DEF D!native_effect, D!Jumps
  <2> QED  BY <2>1, <2>2 DEF SameEffect
<1>3. ASSUME i.name = "MUL", i.op = 24, i.sub = 2
      PROVE  SameEffect(m, i, a, r, b)
  <2>1. D!iching_effect(m, i, a, r, b) = D!Set(m, i.dst, a * b)
    BY <1>3 DEF D!iching_effect, D!iching_gather
  <2>2. D!native_effect(m, i, a, r, b) = D!Set(m, i.dst, a * b)
    BY <1>3 DEF D!native_effect, D!Jumps
  <2> QED  BY <2>1, <2>2 DEF SameEffect
<1>4. ASSUME i.name = "DIV", i.op = 24, i.sub = 3
      PROVE  SameEffect(m, i, a, r, b)
  <2>1. CASE b = 0
    <3>1. D!iching_effect(m, i, a, r, b) = D!Fails(m)
      BY <1>4, <2>1 DEF D!iching_effect, D!iching_gather
    <3>2. D!native_effect(m, i, a, r, b) = D!Fails(m)
      BY <1>4, <2>1 DEF D!native_effect, D!Jumps
    <3> QED  BY <3>1, <3>2 DEF SameEffect
  <2>2. CASE b # 0
    <3>1. D!iching_effect(m, i, a, r, b) = D!Set(m, i.dst, a \div b)
      BY <1>4, <2>2 DEF D!iching_effect, D!iching_gather
    <3>2. D!native_effect(m, i, a, r, b) = D!Set(m, i.dst, a \div b)
      BY <1>4, <2>2 DEF D!native_effect, D!Jumps
    <3> QED  BY <3>1, <3>2 DEF SameEffect
  <2> QED  BY <2>1, <2>2
<1>5. ASSUME i.name = "MOD", i.op = 24, i.sub = 4
      PROVE  SameEffect(m, i, a, r, b)
  <2>1. CASE b = 0
    <3>1. D!iching_effect(m, i, a, r, b) = D!Fails(m)
      BY <1>5, <2>1 DEF D!iching_effect, D!iching_gather
    <3>2. D!native_effect(m, i, a, r, b) = D!Fails(m)
      BY <1>5, <2>1 DEF D!native_effect, D!Jumps
    <3> QED  BY <3>1, <3>2 DEF SameEffect
  <2>2. CASE b # 0
    <3>1. D!iching_effect(m, i, a, r, b) = D!Set(m, i.dst, a % b)
      BY <1>5, <2>2 DEF D!iching_effect, D!iching_gather
    <3>2. D!native_effect(m, i, a, r, b) = D!Set(m, i.dst, a % b)
      BY <1>5, <2>2 DEF D!native_effect, D!Jumps
    <3> QED  BY <3>1, <3>2 DEF SameEffect
  <2> QED  BY <2>1, <2>2
<1>6. ASSUME i.name = "AND", i.op = 62, i.sub = 1
      PROVE  SameEffect(m, i, a, r, b)
  <2>1. D!iching_effect(m, i, a, r, b) = D!Set(m, i.dst, D!And(Bits, a, b))
    BY <1>6 DEF D!iching_effect
  <2>2. D!native_effect(m, i, a, r, b) = D!Set(m, i.dst, D!And(Bits, a, b))
    BY <1>6 DEF D!native_effect, D!Jumps
  <2> QED  BY <2>1, <2>2 DEF SameEffect
<1>7. ASSUME i.name = "XOR", i.op = 62, i.sub = 2
      PROVE  SameEffect(m, i, a, r, b)
  <2>1. D!iching_effect(m, i, a, r, b) = D!Set(m, i.dst, D!Xor(Bits, a, b))
    BY <1>7 DEF D!iching_effect
  <2>2. D!native_effect(m, i, a, r, b) = D!Set(m, i.dst, D!Xor(Bits, a, b))
    BY <1>7 DEF D!native_effect, D!Jumps
  <2> QED  BY <2>1, <2>2 DEF SameEffect
<1>8. ASSUME i.name = "OR", i.op = 62, i.sub = 3
      PROVE  SameEffect(m, i, a, r, b)
  <2>1. D!iching_effect(m, i, a, r, b) = D!Set(m, i.dst, D!Or(Bits, a, b))
    BY <1>8 DEF D!iching_effect
  <2>2. D!native_effect(m, i, a, r, b) = D!Set(m, i.dst, D!Or(Bits, a, b))
    BY <1>8 DEF D!native_effect, D!Jumps
  <2> QED  BY <2>1, <2>2 DEF SameEffect
<1>9. ASSUME i.name = "SHL", i.op = 38, i.sub = 1
      PROVE  SameEffect(m, i, a, r, b)
  <2>1. D!iching_effect(m, i, a, r, b) = D!Set(m, i.dst, D!Shl(a, b))
    BY <1>9 DEF D!iching_effect
  <2>2. D!native_effect(m, i, a, r, b) = D!Set(m, i.dst, D!Shl(a, b))
    BY <1>9 DEF D!native_effect, D!Jumps
  <2> QED  BY <2>1, <2>2 DEF SameEffect
<1>10. ASSUME i.name = "SHR", i.op = 38, i.sub = 2
      PROVE  SameEffect(m, i, a, r, b)
  <2>1. D!iching_effect(m, i, a, r, b) = D!Set(m, i.dst, D!Shr(a, b))
    BY <1>10 DEF D!iching_effect
  <2>2. D!native_effect(m, i, a, r, b) = D!Set(m, i.dst, D!Shr(a, b))
    BY <1>10 DEF D!native_effect, D!Jumps
  <2> QED  BY <2>1, <2>2 DEF SameEffect
<1>11. ASSUME i.name = "SAR", i.op = 38, i.sub = 3
      PROVE  SameEffect(m, i, a, r, b)
  <2>1. D!iching_effect(m, i, a, r, b) = D!Set(m, i.dst, D!Sar(a, b))
    BY <1>11 DEF D!iching_effect
  <2>2. D!native_effect(m, i, a, r, b) = D!Set(m, i.dst, D!Sar(a, b))
    BY <1>11 DEF D!native_effect, D!Jumps
  <2> QED  BY <2>1, <2>2 DEF SameEffect
<1>12. ASSUME i.name = "CMP", i.op = 61, i.sub = 1
      PROVE  SameEffect(m, i, a, r, b)
  <2>1. D!iching_effect(m, i, a, r, b) = D!Compare(m, a, b)
    BY <1>12 DEF D!iching_effect
  <2>2. D!native_effect(m, i, a, r, b) = D!Compare(m, a, b)
    BY <1>12 DEF D!native_effect, D!Jumps
  <2> QED  BY <2>1, <2>2 DEF SameEffect
<1>13. ASSUME i.name = "CMP", i.op = 61, i.sub = 2
      PROVE  SameEffect(m, i, a, r, b)
  <2>1. D!iching_effect(m, i, a, r, b) = D!Compare(m, a, b)
    BY <1>13 DEF D!iching_effect
  <2>2. D!native_effect(m, i, a, r, b) = D!Compare(m, a, b)
    BY <1>13 DEF D!native_effect, D!Jumps
  <2> QED  BY <2>1, <2>2 DEF SameEffect
<1>14. ASSUME i.name = "TEST", i.op = 27, i.sub = 1
      PROVE  SameEffect(m, i, a, r, b)
  <2>1. D!iching_effect(m, i, a, r, b) = D!Test(m, a, b)
    BY <1>14 DEF D!iching_effect
  <2>2. D!native_effect(m, i, a, r, b) = D!Test(m, a, b)
    BY <1>14 DEF D!native_effect, D!Jumps
  <2> QED  BY <2>1, <2>2 DEF SameEffect
<1> QED  BY <1>1, <1>2, <1>3, <1>4, <1>5, <1>6, <1>7, <1>8, <1>9, <1>10, <1>11, <1>12, <1>13, <1>14 DEF Reads, D!EitherKind, D!Pair

LEMMA ByImmediateAgrees ==
  ASSUME NEW m, NEW i, NEW a, NEW r, NEW b,
         NEW pair \in D!ByImmediate, Reads(i, pair), i.imm # {}
  PROVE  SameEffect(m, i, a, r, b)
<1>1. ASSUME i.name = "MOVI", i.op = 63, i.sub = 1
      PROVE  SameEffect(m, i, a, r, b)
  <2>1. D!iching_effect(m, i, a, r, b) = D!Set(m, i.dst, b)
    BY <1>1 DEF D!iching_effect
  <2>2. D!native_effect(m, i, a, r, b) = D!Set(m, i.dst, b)
    BY <1>1 DEF D!native_effect, D!Jumps
  <2> QED  BY <2>1, <2>2 DEF SameEffect
<1>2. ASSUME i.name = "MOVI", i.op = 63, i.sub = 0
      PROVE  SameEffect(m, i, a, r, b)
  <2>1. D!iching_effect(m, i, a, r, b) = D!Set(m, i.dst, b)
    BY <1>2 DEF D!iching_effect
  <2>2. D!native_effect(m, i, a, r, b) = D!Set(m, i.dst, b)
    BY <1>2 DEF D!native_effect, D!Jumps
  <2> QED  BY <2>1, <2>2 DEF SameEffect
<1>3. ASSUME i.name = "MOVI", i.op = 48, i.sub = 1
      PROVE  SameEffect(m, i, a, r, b)
  <2>1. D!iching_effect(m, i, a, r, b) = D!Set(m, i.dst, b)
    BY <1>3 DEF D!iching_effect
  <2>2. D!native_effect(m, i, a, r, b) = D!Set(m, i.dst, b)
    BY <1>3 DEF D!native_effect, D!Jumps
  <2> QED  BY <2>1, <2>2 DEF SameEffect
<1>4. ASSUME i.name = "CMPI", i.op = 61, i.sub = 1
      PROVE  SameEffect(m, i, a, r, b)
  <2>1. D!iching_effect(m, i, a, r, b) = D!Compare(m, a, b)
    BY <1>4 DEF D!iching_effect
  <2>2. D!native_effect(m, i, a, r, b) = D!Compare(m, a, b)
    BY <1>4 DEF D!native_effect, D!Jumps
  <2> QED  BY <2>1, <2>2 DEF SameEffect
<1>5. ASSUME i.name = "JMP", i.op = 2, i.sub = 1
      PROVE  SameEffect(m, i, a, r, b)
  <2>1. D!iching_effect(m, i, a, r, b) = D!iching_branch(m, 1, b)
    BY <1>5 DEF D!iching_effect
  <2>2. D!native_effect(m, i, a, r, b) = D!native_jump(m, "JMP", b)
    BY <1>5 DEF D!native_effect, D!Jumps
  <2>3. D!iching_branch(m, 1, b) = D!native_jump(m, "JMP", b)
    BY DEF D!iching_branch, D!native_jump
  <2> QED  BY <2>1, <2>2, <2>3 DEF SameEffect
<1>6. ASSUME i.name = "JE", i.op = 2, i.sub = 2
      PROVE  SameEffect(m, i, a, r, b)
  <2>1. D!iching_effect(m, i, a, r, b) = D!iching_branch(m, 2, b)
    BY <1>6 DEF D!iching_effect
  <2>2. D!native_effect(m, i, a, r, b) = D!native_jump(m, "JE", b)
    BY <1>6 DEF D!native_effect, D!Jumps
  <2>3. D!iching_branch(m, 2, b) = D!native_jump(m, "JE", b)
    BY DEF D!iching_branch, D!native_jump
  <2> QED  BY <2>1, <2>2, <2>3 DEF SameEffect
<1>7. ASSUME i.name = "JNE", i.op = 2, i.sub = 3
      PROVE  SameEffect(m, i, a, r, b)
  <2>1. D!iching_effect(m, i, a, r, b) = D!iching_branch(m, 3, b)
    BY <1>7 DEF D!iching_effect
  <2>2. D!native_effect(m, i, a, r, b) = D!native_jump(m, "JNE", b)
    BY <1>7 DEF D!native_effect, D!Jumps
  <2>3. D!iching_branch(m, 3, b) = D!native_jump(m, "JNE", b)
    BY DEF D!iching_branch, D!native_jump
  <2> QED  BY <2>1, <2>2, <2>3 DEF SameEffect
<1>8. ASSUME i.name = "JL", i.op = 2, i.sub = 4
      PROVE  SameEffect(m, i, a, r, b)
  <2>1. D!iching_effect(m, i, a, r, b) = D!iching_branch(m, 4, b)
    BY <1>8 DEF D!iching_effect
  <2>2. D!native_effect(m, i, a, r, b) = D!native_jump(m, "JL", b)
    BY <1>8 DEF D!native_effect, D!Jumps
  <2>3. D!iching_branch(m, 4, b) = D!native_jump(m, "JL", b)
    BY DEF D!iching_branch, D!native_jump
  <2> QED  BY <2>1, <2>2, <2>3 DEF SameEffect
<1>9. ASSUME i.name = "JLE", i.op = 2, i.sub = 5
      PROVE  SameEffect(m, i, a, r, b)
  <2>1. D!iching_effect(m, i, a, r, b) = D!iching_branch(m, 5, b)
    BY <1>9 DEF D!iching_effect
  <2>2. D!native_effect(m, i, a, r, b) = D!native_jump(m, "JLE", b)
    BY <1>9 DEF D!native_effect, D!Jumps
  <2>3. D!iching_branch(m, 5, b) = D!native_jump(m, "JLE", b)
    BY DEF D!iching_branch, D!native_jump
  <2> QED  BY <2>1, <2>2, <2>3 DEF SameEffect
<1>10. ASSUME i.name = "JG", i.op = 2, i.sub = 6
      PROVE  SameEffect(m, i, a, r, b)
  <2>1. D!iching_effect(m, i, a, r, b) = D!iching_branch(m, 6, b)
    BY <1>10 DEF D!iching_effect
  <2>2. D!native_effect(m, i, a, r, b) = D!native_jump(m, "JG", b)
    BY <1>10 DEF D!native_effect, D!Jumps
  <2>3. D!iching_branch(m, 6, b) = D!native_jump(m, "JG", b)
    BY DEF D!iching_branch, D!native_jump
  <2> QED  BY <2>1, <2>2, <2>3 DEF SameEffect
<1>11. ASSUME i.name = "JGE", i.op = 2, i.sub = 7
      PROVE  SameEffect(m, i, a, r, b)
  <2>1. D!iching_effect(m, i, a, r, b) = D!iching_branch(m, 7, b)
    BY <1>11 DEF D!iching_effect
  <2>2. D!native_effect(m, i, a, r, b) = D!native_jump(m, "JGE", b)
    BY <1>11 DEF D!native_effect, D!Jumps
  <2>3. D!iching_branch(m, 7, b) = D!native_jump(m, "JGE", b)
    BY DEF D!iching_branch, D!native_jump
  <2> QED  BY <2>1, <2>2, <2>3 DEF SameEffect
<1>12. ASSUME i.name = "JC", i.op = 2, i.sub = 4
      PROVE  SameEffect(m, i, a, r, b)
  <2>1. D!iching_effect(m, i, a, r, b) = D!iching_branch(m, 4, b)
    BY <1>12 DEF D!iching_effect
  <2>2. D!native_effect(m, i, a, r, b) = D!native_jump(m, "JC", b)
    BY <1>12 DEF D!native_effect, D!Jumps
  <2>3. D!iching_branch(m, 4, b) = D!native_jump(m, "JC", b)
    BY DEF D!iching_branch, D!native_jump
  <2> QED  BY <2>1, <2>2, <2>3 DEF SameEffect
<1>13. ASSUME i.name = "JNC", i.op = 2, i.sub = 7
      PROVE  SameEffect(m, i, a, r, b)
  <2>1. D!iching_effect(m, i, a, r, b) = D!iching_branch(m, 7, b)
    BY <1>13 DEF D!iching_effect
  <2>2. D!native_effect(m, i, a, r, b) = D!native_jump(m, "JNC", b)
    BY <1>13 DEF D!native_effect, D!Jumps
  <2>3. D!iching_branch(m, 7, b) = D!native_jump(m, "JNC", b)
    BY DEF D!iching_branch, D!native_jump
  <2> QED  BY <2>1, <2>2, <2>3 DEF SameEffect
<1> QED  BY <1>1, <1>2, <1>3, <1>4, <1>5, <1>6, <1>7, <1>8, <1>9, <1>10, <1>11, <1>12, <1>13 DEF Reads, D!ByImmediate, D!Pair

LEMMA ByRegisterAgrees ==
  ASSUME NEW m, NEW i, NEW a, NEW r, NEW b,
         NEW pair \in D!ByRegister, Reads(i, pair),
         i.imm = {}, pair.name = "LDRB" => r \in D!Heap
  PROVE  SameEffect(m, i, a, r, b)
<1>1. ASSUME i.name = "INC", i.op = 52, i.sub = 0
      PROVE  SameEffect(m, i, a, r, b)
  <2>1. D!iching_effect(m, i, a, r, b) = D!Set(m, i.dst, a + 1)
    BY <1>1 DEF D!iching_effect
  <2>2. D!native_effect(m, i, a, r, b) = D!Set(m, i.dst, a + 1)
    BY <1>1 DEF D!native_effect, D!Jumps
  <2> QED  BY <2>1, <2>2 DEF SameEffect
<1>2. ASSUME i.name = "INC", i.op = 12, i.sub = 1
      PROVE  SameEffect(m, i, a, r, b)
  <2>1. D!iching_effect(m, i, a, r, b) = D!Set(m, i.dst, a + 1)
    BY <1>2 DEF D!iching_effect
  <2>2. D!native_effect(m, i, a, r, b) = D!Set(m, i.dst, a + 1)
    BY <1>2 DEF D!native_effect, D!Jumps
  <2> QED  BY <2>1, <2>2 DEF SameEffect
<1>3. ASSUME i.name = "INC", i.op = 12, i.sub = 0
      PROVE  SameEffect(m, i, a, r, b)
  <2>1. D!iching_effect(m, i, a, r, b) = D!Set(m, i.dst, a + 1)
    BY <1>3 DEF D!iching_effect
  <2>2. D!native_effect(m, i, a, r, b) = D!Set(m, i.dst, a + 1)
    BY <1>3 DEF D!native_effect, D!Jumps
  <2> QED  BY <2>1, <2>2 DEF SameEffect
<1>4. ASSUME i.name = "DEC", i.op = 52, i.sub = 1
      PROVE  SameEffect(m, i, a, r, b)
  <2>1. D!iching_effect(m, i, a, r, b) = D!Set(m, i.dst, D!Word + a - 1)
    BY <1>4 DEF D!iching_effect
  <2>2. D!native_effect(m, i, a, r, b) = D!Set(m, i.dst, D!Word + a - 1)
    BY <1>4 DEF D!native_effect, D!Jumps
  <2> QED  BY <2>1, <2>2 DEF SameEffect
<1>5. ASSUME i.name = "NEG", i.op = 46, i.sub = 2
      PROVE  SameEffect(m, i, a, r, b)
  <2>1. D!iching_effect(m, i, a, r, b) = D!Set(m, i.dst, D!Word - a)
    BY <1>5 DEF D!iching_effect
  <2>2. D!native_effect(m, i, a, r, b) = D!Set(m, i.dst, D!Word - a)
    BY <1>5 DEF D!native_effect, D!Jumps
  <2> QED  BY <2>1, <2>2 DEF SameEffect
<1>6. ASSUME i.name = "NOT", i.op = 46, i.sub = 1
      PROVE  SameEffect(m, i, a, r, b)
  <2>1. D!iching_effect(m, i, a, r, b) = D!Set(m, i.dst, D!Word - 1 - a)
    BY <1>6 DEF D!iching_effect
  <2>2. D!native_effect(m, i, a, r, b) = D!Set(m, i.dst, D!Word - 1 - a)
    BY <1>6 DEF D!native_effect, D!Jumps
  <2> QED  BY <2>1, <2>2 DEF SameEffect
<1>7. ASSUME i.name = "MOV", i.op = 61, i.sub = 0
      PROVE  SameEffect(m, i, a, r, b)
  <2>1. D!iching_effect(m, i, a, r, b) = D!Set(m, i.dst, r)
    BY <1>7 DEF D!iching_effect
  <2>2. D!native_effect(m, i, a, r, b) = D!Set(m, i.dst, r)
    BY <1>7 DEF D!native_effect, D!Jumps
  <2> QED  BY <2>1, <2>2 DEF SameEffect
<1>8. ASSUME i.name = "MOV", i.op = 46, i.sub = 0
      PROVE  SameEffect(m, i, a, r, b)
  <2>1. D!iching_effect(m, i, a, r, b) = D!Set(m, i.dst, r)
    BY <1>8 DEF D!iching_effect
  <2>2. D!native_effect(m, i, a, r, b) = D!Set(m, i.dst, r)
    BY <1>8 DEF D!native_effect, D!Jumps
  <2> QED  BY <2>1, <2>2 DEF SameEffect
<1>9. ASSUME i.name = "XCHG", i.op = 50, i.sub = 1
      PROVE  SameEffect(m, i, a, r, b)
  <2>1. D!iching_effect(m, i, a, r, b) = D!Set(D!Set(m, i.dst, r), i.src, a)
    BY <1>9 DEF D!iching_effect
  <2>2. D!native_effect(m, i, a, r, b) = D!Set(D!Set(m, i.dst, r), i.src, a)
    BY <1>9 DEF D!native_effect, D!Jumps
  <2> QED  BY <2>1, <2>2 DEF SameEffect
<1>10. ASSUME i.name = "LDR", i.op = 0, i.sub = 1
      PROVE  SameEffect(m, i, a, r, b)
  <2>1. D!iching_effect(m, i, a, r, b) = IF D!WordFits(r) THEN D!load_word(m, i.dst, r) ELSE D!Set(m, i.dst, 0)
    BY <1>10 DEF D!iching_effect
  <2>2. ~ D!WordFits(r) => D!load_word(m, i.dst, r) = D!Set(m, i.dst, 0)
    BY DEF D!load_word, D!WordFits, D!Wraps
  <2>3. D!native_effect(m, i, a, r, b) = D!load_word(m, i.dst, r)
    BY <1>10 DEF D!native_effect, D!Jumps
  <2> QED  BY <2>1, <2>2, <2>3 DEF SameEffect
<1>11. ASSUME i.name = "STR", i.op = 17, i.sub = 1
      PROVE  SameEffect(m, i, a, r, b)
  <2>1. D!iching_effect(m, i, a, r, b) = IF D!WordFits(a) THEN D!store_word(m, a, r) ELSE m
    BY <1>11 DEF D!iching_effect
  <2>2. ~ D!WordFits(a) => D!store_word(m, a, r) = m
    BY DEF D!store_word, D!WordFits, D!Wraps
  <2>3. D!native_effect(m, i, a, r, b) = D!store_word(m, a, r)
    BY <1>11 DEF D!native_effect, D!Jumps
  <2> QED  BY <2>1, <2>2, <2>3 DEF SameEffect
<1>12. ASSUME i.name = "LDRB", i.op = 0, i.sub = 2, r \in D!Heap
      PROVE  SameEffect(m, i, a, r, b)
  <2>1. D!iching_effect(m, i, a, r, b) = D!Set(m, i.dst, m.heap[r])
    BY <1>12 DEF D!iching_effect
  <2>2. D!native_effect(m, i, a, r, b) = D!Set(m, i.dst, m.heap[r])
    BY <1>12 DEF D!native_effect, D!Jumps
  <2> QED  BY <2>1, <2>2 DEF SameEffect
<1>13. ASSUME i.name = "STRB", i.op = 17, i.sub = 2
      PROVE  SameEffect(m, i, a, r, b)
  <2>1. D!iching_effect(m, i, a, r, b) = D!store_byte(m, a, r)
    BY <1>13 DEF D!iching_effect
  <2>2. D!native_effect(m, i, a, r, b) = D!store_byte(m, a, r)
    BY <1>13 DEF D!native_effect, D!Jumps
  <2> QED  BY <2>1, <2>2 DEF SameEffect
<1>14. ASSUME i.name = "STRB", i.op = 47, i.sub = 0
      PROVE  SameEffect(m, i, a, r, b)
  <2>1. D!iching_effect(m, i, a, r, b) = D!store_byte(m, a, r)
    BY <1>14 DEF D!iching_effect
  <2>2. D!native_effect(m, i, a, r, b) = D!store_byte(m, a, r)
    BY <1>14 DEF D!native_effect, D!Jumps
  <2> QED  BY <2>1, <2>2 DEF SameEffect
<1> QED  BY <1>1, <1>2, <1>3, <1>4, <1>5, <1>6, <1>7, <1>8, <1>9, <1>10, <1>11, <1>12, <1>13, <1>14 DEF Reads, D!ByRegister, D!Pair

Names == {"CMP", "CMPI", "SUB"} \cup {"ADD", "TEST"}
         \cup ({"MUL", "DIV", "MOD", "INC", "DEC", "NEG", "AND", "OR", "XOR", "NOT", "SHL",
                "SHR", "SAR", "MOV", "MOVI", "XCHG", "LDR", "STR", "LDRB", "STRB"} \cup D!Jumps)

(* An instruction that both dialects have. *)
Shared(i) ==
  /\ i.name \in Names /\ i.dst \in D!Regs /\ i.src \in D!Regs
  /\ i.imm = {} \/ \E v \in Words : i.imm = {v}
  /\ \A m, a, r, b : (i.name = "LDRB" => r \in D!Heap) => SameEffect(m, i, a, r, b)

(* Two machines that went the same way, and whose flags are those of the   *)
(* last comparison.                                                        *)
DialectsOK ==
  ~ outside =>
    /\ native \in Machines /\ iching = native
    /\ compared # << >> =>
         \E a, b \in Words : compared = <<a, b>> /\ Ordered(native, a, b)

LEMMA ValuesAreWords == \A v \in Values : v \in Words
  BY DialectsAssumption, Zenon DEF D!DialectsAssumption, Words, D!Word

LEMMA InstructionsAreShared ==
  ASSUME NEW dst \in D!Regs, NEW src \in D!Regs, NEW pair, NEW imm,
         \/ pair \in D!EitherKind /\ imm \in D!Immediates \cup {{}}
         \/ pair \in D!ByImmediate /\ imm \in D!Immediates
         \/ pair \in D!ByRegister /\ imm = {}
  PROVE  Shared(D!Instruction(pair, dst, src, imm))
<1> DEFINE i == D!Instruction(pair, dst, src, imm)
<1>1. /\ i.name = pair.name /\ i.op = pair.op /\ i.sub = pair.sub
      /\ i.dst = dst /\ i.src = src /\ i.imm = imm
  BY DEF D!Instruction
<1> HIDE DEF i
<1>2. Reads(i, pair)
  BY <1>1 DEF Reads
<1>3. pair.name \in Names
  <2>1. pair \in D!EitherKind => pair.name \in Names
    BY DEF D!EitherKind, D!Pair, Names
  <2>2. pair \in D!ByImmediate => pair.name \in Names
    BY DEF D!ByImmediate, D!Pair, Names, D!Jumps
  <2>3. pair \in D!ByRegister => pair.name \in Names
    BY DEF D!ByRegister, D!Pair, Names
  <2> QED  BY <2>1, <2>2, <2>3
<1>4. imm = {} \/ \E v \in Words : imm = {v}
  BY ValuesAreWords DEF D!Immediates
<1>5. pair \in D!ByImmediate => imm # {}
  <2>1. pair \in D!ByImmediate /\ pair \in D!ByRegister => FALSE
    BY DEF D!ByImmediate, D!ByRegister, D!Pair
  <2>2. pair \in D!ByImmediate /\ pair \in D!EitherKind => FALSE
    BY DEF D!ByImmediate, D!EitherKind, D!Pair
  <2> QED  BY <2>1, <2>2 DEF D!Immediates
<1>6. ASSUME NEW m, NEW a, NEW r, NEW b, i.name = "LDRB" => r \in D!Heap
      PROVE  SameEffect(m, i, a, r, b)
  <2>1. CASE pair \in D!EitherKind
    BY <1>2, <2>1, EitherKindAgrees
  <2>2. CASE pair \in D!ByImmediate
    BY <1>1, <1>2, <1>5, <2>2, ByImmediateAgrees
  <2>3. CASE pair \in D!ByRegister /\ imm = {}
    BY <1>1, <1>2, <1>6, <2>3, ByRegisterAgrees
  <2> QED  BY <2>1, <2>2, <2>3
<1> QED  BY <1>1, <1>3, <1>4, <1>6 DEF Shared, i

LEMMA ExecuteKeepsOrder ==
  ASSUME DialectsOK, NEW i, Shared(i), D!Execute(i)
  PROVE  DialectsOK'
<1> SUFFICES ASSUME ~ outside'
             PROVE  /\ native' \in Machines /\ iching' = native'
                    /\ compared' # << >> =>
                         \E a, b \in Words : compared' = <<a, b>> /\ Ordered(native', a, b)
  BY DEF DialectsOK, Machines, Words, Ordered
<1>1. ~ outside /\ (i.name = "LDRB" => native.regs[i.src] \in D!Heap)
  BY DEF D!Execute
<1>2. /\ native \in Machines /\ iching = native
      /\ compared # << >> => \E a, b \in Words : compared = <<a, b>> /\ Ordered(native, a, b)
  BY <1>1 DEF DialectsOK
<1> DEFINE m == [native EXCEPT !.to = {}]
           a == m.regs[i.dst]
           r == m.regs[i.src]
           b == D!Second(m, i)
<1>3. /\ m \in Machines /\ m.regs = native.regs
      /\ m.zero = native.zero /\ m.carry = native.carry
  BY <1>2 DEF Machines
<1>4. /\ iching' = D!iching_effect(m, i, a, r, b)
      /\ native' = D!native_effect(m, i, a, r, b)
  BY <1>2 DEF D!Execute, D!step_iching, D!step_native
<1>5. b = D!Second(native, i)
  BY <1>3 DEF D!Second
<1>6. i.dst \in D!Regs /\ i.src \in D!Regs /\ i.name \in Names
  BY DEF Shared
<1> HIDE DEF m
<1>7. a \in Words /\ r \in Words
  BY <1>3, <1>6 DEF Machines
<1>8. b \in Words
  BY <1>7 DEF Shared, D!Second
<1> HIDE DEF b
<1>9. iching' = native'
  BY <1>1, <1>3, <1>4 DEF Shared, SameEffect
<1>10. CASE i.name \in {"CMP", "CMPI", "SUB"}
  <2>1. native' \in Machines /\ Ordered(native', a, b)
    BY <1>3, <1>4, <1>6, <1>7, <1>8, <1>10, OrderingInstructions
  <2>2. compared' = <<a, b>>
    BY <1>3, <1>5, <1>10 DEF D!Execute
  <2> QED  BY <1>7, <1>8, <1>9, <2>1, <2>2
<1>11. CASE i.name \in {"ADD", "TEST"}
  <2>1. native' \in Machines
    BY <1>3, <1>4, <1>6, <1>7, <1>8, <1>11, SumsAndTests
  <2>2. compared' = << >>
    BY <1>11 DEF D!Execute
  <2> QED  BY <1>9, <2>1, <2>2
<1>12. CASE i.name \notin {"CMP", "CMPI", "SUB", "ADD", "TEST"}
  <2>1. Quiet(m, native')
    BY <1>3, <1>4, <1>6, <1>7, <1>8, <1>12, QuietInstructions DEF Names
  <2>2. compared' = compared
    BY <1>12 DEF D!Execute
  <2>3. native' \in Machines /\ native'.zero = native.zero /\ native'.carry = native.carry
    BY <1>3, <2>1 DEF Quiet, SameFlags
  <2> QED  BY <1>2, <1>9, <2>2, <2>3 DEF Ordered
<1> QED  BY <1>10, <1>11, <1>12

LEMMA DialectsKept == Spec => []DialectsOK
<1>1. ASSUME NEW regs \in [D!Regs -> Values \cup {0}]
      PROVE  D!Machine(regs) \in Machines
  <2>1. 0 \in Words
    BY WordSizes DEF Words
  <2>2. regs \in [D!Regs -> Words]
    BY <2>1, ValuesAreWords
  <2> QED  BY <2>2 DEF D!Machine, Machines
<1>2. Init => DialectsOK
  <2>1. CASE NoDialects
    <3>1. [r \in D!Regs |-> 0] \in [D!Regs -> Values \cup {0}]
      OBVIOUS
    <3> QED  BY <1>1, <2>1, <3>1 DEF NoDialects, DialectsOK
  <2>2. CASE D!Init
    <3>1. PICK regs \in [D!Regs -> Values] : iching = D!Machine(regs) /\ native = D!Machine(regs)
      BY <2>2 DEF D!Init
    <3>2. regs \in [D!Regs -> Values \cup {0}]
      OBVIOUS
    <3>3. compared = << >>
      BY <2>2 DEF D!Init
    <3> QED  BY <1>1, <3>1, <3>2, <3>3 DEF DialectsOK
  <2> QED  BY <2>1, <2>2 DEF Init, InitSelection, InitCrossover, InitDialects, InitLibrary
<1>3. DialectsOK /\ [Next]_vars => DialectsOK'
  <2> SUFFICES ASSUME DialectsOK, [Next]_vars
               PROVE  DialectsOK'
    OBVIOUS
  <2>1. CASE UNCHANGED dialects
    BY <2>1 DEF dialects, DialectsOK, Machines, Words, Ordered
  <2>2. CASE Step
    <3>1. D!Next
      BY <2>2 DEF Step
    <3>2. PICK dst \in D!Regs, src \in D!Regs :
            \/ \E pair \in D!EitherKind, imm \in D!Immediates \cup {{}} :
                 D!Execute(D!Instruction(pair, dst, src, imm))
            \/ \E pair \in D!ByImmediate, imm \in D!Immediates :
                 D!Execute(D!Instruction(pair, dst, src, imm))
            \/ \E pair \in D!ByRegister : D!Execute(D!Instruction(pair, dst, src, {}))
      BY <3>1, Zenon DEF D!Next
    <3>3. PICK i : Shared(i) /\ D!Execute(i)
      BY <3>2, InstructionsAreShared, Zenon
    <3> QED  BY <3>3, ExecuteKeepsOrder
  <2> QED  BY <2>1, <2>2 DEF Next, vars, SelectByRank, SelectByTournament, Cross, Call
<1> QED  BY <1>2, <1>3, PTL DEF Spec

LEMMA OrderedBranches == DialectsOK => BranchOrders
<1> SUFFICES ASSUME DialectsOK, ~ outside, compared # << >>
             PROVE  D!BranchOrders
  BY DEF BranchOrders, D!BranchOrders
<1>1. PICK a \in Words, b \in Words : compared = <<a, b>> /\ Ordered(native, a, b)
  BY DEF DialectsOK
<1>2. native \in Machines /\ iching = native
  BY DEF DialectsOK
<1> DEFINE m == [native EXCEPT !.to = {}]
<1>3. m.to = {} /\ m.zero = (a = b) /\ m.carry = (a < b) /\ D!Jump(m, 0).to = {0}
  BY <1>1, <1>2 DEF Machines, Ordered, D!Jump
<1> HIDE DEF m
<1> DEFINE Order == [JE |-> a = b, JNE |-> a # b, JL |-> a < b,
                     JLE |-> a <= b, JG |-> a > b, JGE |-> a >= b]
<1>4. (m.zero <=> a = b) /\ (m.carry <=> a < b)
  BY <1>3
<1>5. /\ a <= b <=> a < b \/ a = b
      /\ a > b <=> ~ (a < b) /\ a # b
      /\ a >= b <=> ~ (a < b)
  BY WordSizes DEF Words
<1>6. ASSUME NEW pair \in D!ByImmediate, pair.name \in DOMAIN Order
      PROVE  /\ (D!native_jump(m, pair.name, 0).to # {}) = Order[pair.name]
             /\ (D!iching_branch(m, pair.sub, 0).to # {}) = Order[pair.name]
  <2>1. \/ pair = D!Pair("JE", 2, 2) \/ pair = D!Pair("JNE", 2, 3) \/ pair = D!Pair("JL", 2, 4)
        \/ pair = D!Pair("JLE", 2, 5) \/ pair = D!Pair("JG", 2, 6) \/ pair = D!Pair("JGE", 2, 7)
    BY <1>6 DEF D!ByImmediate, D!Pair
  <2>2. CASE pair = D!Pair("JE", 2, 2)
    <3>1. pair.name = "JE" /\ pair.sub = 2
      BY <2>2 DEF D!Pair
    <3>2. /\ D!native_jump(m, "JE", 0) = IF m.zero THEN D!Jump(m, 0) ELSE m
          /\ D!iching_branch(m, 2, 0) = IF m.zero THEN D!Jump(m, 0) ELSE m
      BY DEF D!native_jump, D!iching_branch
    <3>3. Order["JE"] = (a = b)
      OBVIOUS
    <3>4. (a = b) <=> (m.zero)
      BY <1>4, <1>5
    <3>5. /\ D!native_jump(m, "JE", 0).to # {} <=> a = b
          /\ D!iching_branch(m, 2, 0).to # {} <=> a = b
      BY <1>3, <3>2, <3>4
    <3> QED  BY <3>1, <3>3, <3>5
  <2>3. CASE pair = D!Pair("JNE", 2, 3)
    <3>1. pair.name = "JNE" /\ pair.sub = 3
      BY <2>3 DEF D!Pair
    <3>2. /\ D!native_jump(m, "JNE", 0) = IF ~ m.zero THEN D!Jump(m, 0) ELSE m
          /\ D!iching_branch(m, 3, 0) = IF ~ m.zero THEN D!Jump(m, 0) ELSE m
      BY DEF D!native_jump, D!iching_branch
    <3>3. Order["JNE"] = (a # b)
      OBVIOUS
    <3>4. (a # b) <=> (~ m.zero)
      BY <1>4, <1>5
    <3>5. /\ D!native_jump(m, "JNE", 0).to # {} <=> a # b
          /\ D!iching_branch(m, 3, 0).to # {} <=> a # b
      BY <1>3, <3>2, <3>4
    <3> QED  BY <3>1, <3>3, <3>5
  <2>4. CASE pair = D!Pair("JL", 2, 4)
    <3>1. pair.name = "JL" /\ pair.sub = 4
      BY <2>4 DEF D!Pair
    <3>2. /\ D!native_jump(m, "JL", 0) = IF m.carry THEN D!Jump(m, 0) ELSE m
          /\ D!iching_branch(m, 4, 0) = IF m.carry THEN D!Jump(m, 0) ELSE m
      BY DEF D!native_jump, D!iching_branch
    <3>3. Order["JL"] = (a < b)
      OBVIOUS
    <3>4. (a < b) <=> (m.carry)
      BY <1>4, <1>5
    <3>5. /\ D!native_jump(m, "JL", 0).to # {} <=> a < b
          /\ D!iching_branch(m, 4, 0).to # {} <=> a < b
      BY <1>3, <3>2, <3>4
    <3> QED  BY <3>1, <3>3, <3>5
  <2>5. CASE pair = D!Pair("JLE", 2, 5)
    <3>1. pair.name = "JLE" /\ pair.sub = 5
      BY <2>5 DEF D!Pair
    <3>2. /\ D!native_jump(m, "JLE", 0) = IF m.carry \/ m.zero THEN D!Jump(m, 0) ELSE m
          /\ D!iching_branch(m, 5, 0) = IF m.carry \/ m.zero THEN D!Jump(m, 0) ELSE m
      BY DEF D!native_jump, D!iching_branch
    <3>3. Order["JLE"] = (a <= b)
      OBVIOUS
    <3>4. (a <= b) <=> (m.carry \/ m.zero)
      BY <1>4, <1>5
    <3>5. /\ D!native_jump(m, "JLE", 0).to # {} <=> a <= b
          /\ D!iching_branch(m, 5, 0).to # {} <=> a <= b
      BY <1>3, <3>2, <3>4
    <3> QED  BY <3>1, <3>3, <3>5
  <2>6. CASE pair = D!Pair("JG", 2, 6)
    <3>1. pair.name = "JG" /\ pair.sub = 6
      BY <2>6 DEF D!Pair
    <3>2. /\ D!native_jump(m, "JG", 0) = IF ~ m.carry /\ ~ m.zero THEN D!Jump(m, 0) ELSE m
          /\ D!iching_branch(m, 6, 0) = IF ~ m.carry /\ ~ m.zero THEN D!Jump(m, 0) ELSE m
      BY DEF D!native_jump, D!iching_branch
    <3>3. Order["JG"] = (a > b)
      OBVIOUS
    <3>4. (a > b) <=> (~ m.carry /\ ~ m.zero)
      BY <1>4, <1>5
    <3>5. /\ D!native_jump(m, "JG", 0).to # {} <=> a > b
          /\ D!iching_branch(m, 6, 0).to # {} <=> a > b
      BY <1>3, <3>2, <3>4
    <3> QED  BY <3>1, <3>3, <3>5
  <2>7. CASE pair = D!Pair("JGE", 2, 7)
    <3>1. pair.name = "JGE" /\ pair.sub = 7
      BY <2>7 DEF D!Pair
    <3>2. /\ D!native_jump(m, "JGE", 0) = IF ~ m.carry THEN D!Jump(m, 0) ELSE m
          /\ D!iching_branch(m, 7, 0) = IF ~ m.carry THEN D!Jump(m, 0) ELSE m
      BY DEF D!native_jump, D!iching_branch
    <3>3. Order["JGE"] = (a >= b)
      OBVIOUS
    <3>4. (a >= b) <=> (~ m.carry)
      BY <1>4, <1>5
    <3>5. /\ D!native_jump(m, "JGE", 0).to # {} <=> a >= b
          /\ D!iching_branch(m, 7, 0).to # {} <=> a >= b
      BY <1>3, <3>2, <3>4
    <3> QED  BY <3>1, <3>3, <3>5
  <2> QED  BY <2>1, <2>2, <2>3, <2>4, <2>5, <2>6, <2>7
<1> QED  BY <1>1, <1>2, <1>6 DEF D!BranchOrders, m

(* Whatever program the two machines go through, in words of 8, 16 or 32   *)
(* bits and of any length: they stay equal until a byte is loaded from     *)
(* outside of the heap (DialectsAgree).                                    *)
THEOREM DialectsMeanTheSame == Spec => []DialectsAgree
<1>1. DialectsOK => DialectsAgree
  BY DEF DialectsOK, DialectsAgree, D!DialectsAgree
<1> QED  BY <1>1, DialectsKept, PTL

(* And their branches decide by the order of the last operands compared,   *)
(* as numbers without a sign (BranchOrders).                               *)
THEOREM BranchesFollowOrder == Spec => []BranchOrders
  BY DialectsKept, OrderedBranches, PTL

-----------------------------------------------------------------------------
(* The binary system calls. *)

LEMMA HeapIsInterval ==
  /\ HeapSize \in Nat
  /\ \A x : x \in L!Heap <=> x \in Int /\ 0 <= x /\ x < HeapSize
<1>1. HeapSize \in Nat
  BY WordSizes
<1> QED  BY <1>1 DEF L!Heap

(* The length of a string that ends is the distance to its first zero.     *)
LEMMA LengthIsFirstZero ==
  ASSUME NEW a \in L!Heap, L!Terminates(a)
  PROVE  /\ L!Length(a) \in Nat /\ a + L!Length(a) \in L!Heap
         /\ heap[a + L!Length(a)] = 0
         /\ \A i \in 0..(L!Length(a) - 1) : heap[a + i] # 0
<1> DEFINE Zeros == {n \in 0..(HeapSize - a - 1) : heap[a + n] = 0}
           IsLength(n) == /\ \A i \in 0..(n - 1) : heap[a + i] # 0
                          /\ a + n < HeapSize => heap[a + n] = 0
<1>0. HeapSize \in Nat /\ a \in Nat /\ a < HeapSize
  BY HeapIsInterval
<1>1. Zeros \in SUBSET Nat /\ Zeros # {}
  <2>1. PICK x \in L!Heap : x >= a /\ heap[x] = 0
    BY DEF L!Terminates
  <2>2. x - a \in 0..(HeapSize - a - 1) /\ a + (x - a) = x
    BY <1>0, <2>1, HeapIsInterval
  <2>3. x - a \in Zeros
    BY <2>1, <2>2
  <2> QED  BY <2>3
<1>2. PICK n \in Zeros : \A k \in Zeros : n <= k
  <2> HIDE DEF Zeros
  <2> QED  BY <1>1, LeastExists
<1>3. n \in 0..(HeapSize - a) /\ IsLength(n) /\ a + n \in L!Heap
  <2>1. n \in Nat /\ a + n < HeapSize /\ heap[a + n] = 0
    BY <1>0, <1>2
  <2>2. ASSUME NEW i \in 0..(n - 1), heap[a + i] = 0
        PROVE  FALSE
    <3>1. i \in Zeros /\ ~ (n <= i)
      BY <1>0, <2>1, <2>2
    <3> QED  BY <1>2, <3>1
  <2> QED  BY <1>0, <2>1, <2>2, HeapIsInterval
<1>4. L!Length(a) = CHOOSE k \in 0..(HeapSize - a) : IsLength(k)
  BY Zenon DEF L!Length
<1> DEFINE k == L!Length(a)
<1> HIDE DEF IsLength, k
<1>5. k \in 0..(HeapSize - a) /\ IsLength(k)
  BY <1>3, <1>4, Zenon DEF k
<1>6. k <= n
  <2>1. CASE k > n
    <3>1. n \in 0..(k - 1) /\ heap[a + n] = 0
      BY <1>0, <1>2, <1>5, <2>1
    <3> QED  BY <1>5, <3>1 DEF IsLength
  <2> QED  BY <1>0, <1>2, <1>5, <2>1
<1>7. k \in Nat /\ a + k < HeapSize /\ a + k \in L!Heap
  BY <1>0, <1>2, <1>5, <1>6, HeapIsInterval
<1> QED  BY <1>5, <1>7 DEF IsLength, k

(* Strings in which no byte is found to differ end at the same place. *)
LEMMA SameBytes ==
  ASSUME NEW a \in L!Heap, NEW b \in L!Heap,
         L!Terminates(a), L!Terminates(b), ~ L!Differ(a, b)
  PROVE  /\ ~ (L!Length(a) < L!Length(b))
         /\ L!Length(a) = L!Length(b) =>
              \A i \in 0..(L!Length(a) - 1) : heap[a + i] = heap[b + i]
<1> DEFINE n == L!Length(a)
           m == L!Length(b)
<1>0. HeapSize \in Nat /\ a \in Nat /\ b \in Nat
  BY HeapIsInterval
<1>1. /\ n \in Nat /\ a + n \in L!Heap /\ heap[a + n] = 0
      /\ \A i \in 0..(n - 1) : heap[a + i] # 0
  BY LengthIsFirstZero
<1>2. /\ m \in Nat /\ b + m \in L!Heap /\ heap[b + m] = 0
      /\ \A i \in 0..(m - 1) : heap[b + i] # 0
  BY LengthIsFirstZero
<1> HIDE DEF n, m
<1>3. ASSUME NEW i \in 0..n, b + i \in L!Heap
      PROVE  heap[a + i] = heap[b + i]
  <2>1. i \in 0..HeapSize /\ a + i \in L!Heap
    BY <1>0, <1>1, HeapIsInterval
  <2>2. \A j \in 0..(i - 1) : heap[a + j] # 0
    BY <1>1
  <2> QED  BY <1>3, <2>1, <2>2 DEF L!Differ
<1>4. ~ (n < m)
  <2> SUFFICES ASSUME n < m
               PROVE  FALSE
    OBVIOUS
  <2>1. n \in 0..n /\ n \in 0..(m - 1) /\ b + n \in L!Heap
    BY <1>0, <1>1, <1>2, HeapIsInterval
  <2> QED  BY <1>1, <1>2, <1>3, <2>1
<1>5. ASSUME n = m, NEW i \in 0..(n - 1)
      PROVE  heap[a + i] = heap[b + i]
  <2>1. i \in 0..n /\ b + i \in L!Heap
    BY <1>0, <1>1, <1>2, <1>5, HeapIsInterval
  <2> QED  BY <1>3, <2>1
<1> QED  BY <1>4, <1>5 DEF n, m

LEMMA EqualStringsAgree == StringsAgree
<1> SUFFICES ASSUME NEW a \in L!Heap, NEW b \in L!Heap, L!Compared(a, b) = {1}
             PROVE  L!Length(a) = L!Length(b) /\ L!Hash(a) = L!Hash(b)
  BY DEF StringsAgree, L!StringsAgree
<1>1. ~ L!Differ(a, b) /\ L!Terminates(a) /\ L!Terminates(b)
  <2>1. {0} # {1} /\ {0, 1} # {1}
    OBVIOUS
  <2> QED  BY <2>1, Zenon DEF L!Compared
<1>2. ~ L!Differ(b, a)
  BY <1>1 DEF L!Differ
<1>3. L!Length(a) \in Nat /\ L!Length(b) \in Nat
  BY <1>1, LengthIsFirstZero
<1>4. L!Length(a) = L!Length(b)
  BY <1>1, <1>2, <1>3, SameBytes
<1> DEFINE n == L!Length(a)
           Hashing(c, h) == [k \in 0..n |-> IF k = 0 THEN 5381 % L!Word
                                         ELSE (h[k - 1] * 33 + heap[c + k - 1]) % L!Word]
<1>5. ASSUME NEW h
      PROVE  Hashing(a, h) = Hashing(b, h)
  <2>1. ASSUME NEW k \in 0..n, k # 0
        PROVE  heap[a + k - 1] = heap[b + k - 1]
    <3>1. k - 1 \in 0..(n - 1) /\ a + k - 1 = a + (k - 1) /\ b + k - 1 = b + (k - 1)
      BY <1>3, <2>1, HeapIsInterval
    <3> QED  BY <1>1, <1>4, <3>1, SameBytes
  <2> QED  BY <2>1
<1>6. /\ L!Hash(a) = (CHOOSE h : h = Hashing(a, h))[n]
      /\ L!Hash(b) = (CHOOSE h : h = Hashing(b, h))[n]
  BY <1>4, Zenon DEF L!Hash
<1> HIDE DEF Hashing
<1> QED  BY <1>4, <1>5, <1>6, Zenon

(* Whatever the heap holds, two strings that sys_strcmp finds equal have    *)
(* one length for sys_strlen and one hash for sys_hash_djb2               *)
(* (StringsAgree).                                                         *)
THEOREM EqualStringsHashAlike == Spec => []StringsAgree
  BY EqualStringsAgree, PTL

(* Division by products, which takes a number apart into bytes.            *)
LEMMA QuotientIsUnique ==
  ASSUME NEW v \in Int, NEW m \in Int, m > 0, NEW y \in Int, NEW r \in Int,
         v = m * y + r, 0 <= r, r < m
  PROVE  v \div m = y /\ v % m = r
<1> DEFINE z == v \div m
           t == v % m
<1>1. z \in Int /\ t \in Int /\ v = m * z + t /\ 0 <= t /\ t < m
  OBVIOUS
<1> HIDE DEF z, t
<1>2. ~ (z > y)
  <2> SUFFICES ASSUME z >= y + 1 PROVE FALSE
    BY <1>1
  <2>1. m * z >= m * (y + 1)
    BY <1>1
  <2>2. m * (y + 1) = m * y + m
    OBVIOUS
  <2> QED  BY <1>1, <2>1, <2>2
<1>3. ~ (y > z)
  <2> SUFFICES ASSUME y >= z + 1 PROVE FALSE
    BY <1>1
  <2>1. m * y >= m * (z + 1)
    BY <1>1
  <2>2. m * (z + 1) = m * z + m
    BY <1>1
  <2> QED  BY <1>1, <2>1, <2>2
<1>4. z = y
  BY <1>1, <1>2, <1>3
<1>5. t = r
  BY <1>1, <1>4
<1> QED  BY <1>4, <1>5 DEF z, t

LEMMA ProductIsPositive ==
  ASSUME NEW p \in Nat, NEW q \in Nat, p > 0, q > 0
  PROVE  q * p \in Nat /\ q * p > 0 /\ q * p = p * q
<1>1. q * p >= 1 * p
  OBVIOUS
<1> QED  BY <1>1

(* A number below q times p, by its remainders. *)
LEMMA Digits ==
  ASSUME NEW p \in Nat, NEW q \in Nat, p > 0, q > 0,
         NEW r \in 0..(p - 1), NEW s \in 0..(q - 1)
  PROVE  p * s \in Nat /\ 0 <= p * s + r /\ p * s + r < q * p
<1>1. p * s <= p * (q - 1)
  OBVIOUS
<1>2. p * (q - 1) = p * q - p /\ p * q = q * p
  OBVIOUS
<1>3. p * s \in Nat /\ q * p \in Nat
  BY ProductIsPositive
<1> QED  BY <1>1, <1>2, <1>3

LEMMA QuotientOfProduct ==
  ASSUME NEW v \in Nat, NEW p \in Nat, NEW q \in Nat, p > 0, q > 0
  PROVE  v \div (q * p) = (v \div p) \div q
<1> DEFINE x == v \div p
           r == v % p
           y == x \div q
           s == x % q
           m == q * p
<1>1. x \in Nat /\ r \in 0..(p - 1) /\ v = p * x + r
  OBVIOUS
<1> HIDE DEF x, r
<1>2. y \in Nat /\ s \in 0..(q - 1) /\ x = q * y + s
  BY <1>1
<1> HIDE DEF y, s
<1>3. p * x = m * y + p * s
  <2>1. p * (q * y + s) = (q * p) * y + p * s
    BY <1>2
  <2> QED  BY <1>2, <2>1
<1>4. m \in Nat /\ m > 0
  BY ProductIsPositive
<1>5. p * s \in Nat /\ 0 <= p * s + r /\ p * s + r < m
  BY <1>1, <1>2, Digits
<1> HIDE DEF m
<1>6. p * s + r \in Int /\ v = m * y + (p * s + r)
  <2>1. m * y \in Int
    BY <1>2, <1>4
  <2> QED  BY <1>1, <1>3, <1>5, <2>1
<1>7. v \div m = y
  BY <1>2, <1>4, <1>5, <1>6, QuotientIsUnique
<1> QED  BY <1>7 DEF m, x, y

LEMMA RemainderOfProduct ==
  ASSUME NEW u \in Nat, NEW p \in Nat, NEW q \in Nat, p > 0, q > 0
  PROVE  u % (q * p) = ((u \div q) % p) * q + (u % q)
<1> DEFINE x == u \div q
           r == u % q
           y == x \div p
           s == x % p
           m == p * q
<1>1. x \in Nat /\ r \in 0..(q - 1) /\ u = q * x + r
  OBVIOUS
<1> HIDE DEF x, r
<1>2. y \in Nat /\ s \in 0..(p - 1) /\ x = p * y + s
  BY <1>1
<1> HIDE DEF y, s
<1>3. q * x = m * y + q * s
  <2>1. q * (p * y + s) = (p * q) * y + q * s
    BY <1>2
  <2> QED  BY <1>2, <2>1
<1>4. m \in Nat /\ m > 0 /\ m = q * p
  BY ProductIsPositive
<1>5. q * s \in Nat /\ 0 <= q * s + r /\ q * s + r < m
  BY <1>1, <1>2, Digits
<1> HIDE DEF m
<1>6. q * s + r \in Int /\ u = m * y + (q * s + r)
  <2>1. m * y \in Int
    BY <1>2, <1>4
  <2> QED  BY <1>1, <1>3, <1>5, <2>1
<1>7. u % m = q * s + r
  <2> DEFINE w == q * s + r
  <2>1. w \in Int /\ u = m * y + w /\ 0 <= w /\ w < m
    BY <1>5, <1>6
  <2> HIDE DEF w
  <2>2. u % m = w
    BY <1>2, <1>4, <2>1, QuotientIsUnique
  <2> QED  BY <2>2 DEF w
<1>8. q * s = s * q
  <2>1. \A j, k \in Int : j * k = k * j
    OBVIOUS
  <2>2. s \in Int /\ q \in Int
    BY <1>2
  <2> QED  BY <2>1, <2>2
<1>9. u % (q * p) = s * q + r
  BY <1>4, <1>7, <1>8
<1> QED  BY <1>9, Zenon DEF x, s, r

(* The powers of Byte. *)
LEMMA Places ==
  /\ Byte \in Nat /\ Byte > 0
  /\ L!Place[0] = 1
  /\ \A i \in 1..4 : L!Place[i] = Byte * L!Place[i - 1]
  /\ \A i \in 0..4 : L!Place[i] \in Nat /\ L!Place[i] > 0
<1> DEFINE step == [n \in Nat |-> [v \in Nat |-> Byte * v]]
           Powers(p) == p = [i \in 0..4 |-> IF i = 0 THEN 1 ELSE Byte * p[i - 1]]
<1>1. Byte \in Nat /\ Byte > 0
  BY LibraryAssumption DEF L!LibraryAssumption
<1>2. step \in Steps(Nat) /\ 1 \in Nat /\ 4 \in Nat
  <2>1. \A v \in Nat : Byte * v \in Nat
    BY <1>1
  <2> QED  BY <2>1 DEF Steps
<1>3. \A n \in 1..4, v \in Nat : step[n][v] = Byte * v
  OBVIOUS
<1> HIDE DEF step
<1>4. PICK f \in [0..4 -> Nat] : Iterates(f, 4, 1, step)
  BY <1>2, Iteration, Zenon
<1>5. \A i \in 0..4 : f[i] = IF i = 0 THEN 1 ELSE Byte * f[i - 1]
  BY <1>3, <1>4 DEF Iterates
<1>6. Powers(f)
  BY <1>5
<1>7. L!Place = CHOOSE p : Powers(p)
  BY Zenon DEF L!Place
<1> DEFINE q == L!Place
<1>8. Powers(q)
  <2> HIDE DEF Powers
  <2> QED  BY <1>6, <1>7, Zenon
<1> HIDE DEF q
<1>9. q[0] = 1 /\ \A i \in 1..4 : q[i] = Byte * q[i - 1]
  BY <1>8
<1> DEFINE P == {i \in 0..4 : q[i] \in Nat /\ q[i] > 0}
<1>10. 0 \in P
  BY <1>9
<1>11. \A i \in 1..4 : i - 1 \in P => i \in P
  BY <1>1, <1>9, ProductIsPositive
<1> HIDE DEF P
<1>12. 0..4 \subseteq P
  BY <1>10, <1>11, <1>2, IntervalInduction, Zenon
<1> QED  BY <1>1, <1>9, <1>12 DEF P, q

LEMMA LibrarySizes ==
  /\ HeapSize \in Nat /\ L!Word \in Nat /\ HeapSize + 4 <= L!Word
  /\ \A v \in Numbers \cup Addresses \cup Lengths : v \in Nat /\ v < L!Word
<1>1. L!Word \in Nat
  BY Places DEF L!Word
<1> QED  BY <1>1, LibraryAssumption DEF L!LibraryAssumption

(* The same bytes are the same number, and how a number grows by its bytes. *)
LEMMA NumberOfBytes ==
  ASSUME NEW h, NEW g, NEW a \in Int, NEW b \in Int, NEW w \in Nat,
         \A i \in 0..(w - 1) : h[a + i] = g[b + i]
  PROVE  L!Number(h, a, w) = L!Number(g, b, w)
<1> DEFINE Value(k, c, v) ==
             [n \in 0..w |-> IF n = 0 THEN 0 ELSE v[n - 1] * Byte + k[c + n - 1]]
<1>1. ASSUME NEW v
      PROVE  Value(h, a, v) = Value(g, b, v)
  <2>1. ASSUME NEW n \in 0..w, n # 0
        PROVE  h[a + n - 1] = g[b + n - 1]
    <3>1. n - 1 \in 0..(w - 1) /\ a + n - 1 = a + (n - 1) /\ b + n - 1 = b + (n - 1)
      BY <2>1
    <3> QED  BY <3>1
  <2> QED  BY <2>1
<1>2. /\ L!Number(h, a, w) = (CHOOSE v : v = Value(h, a, v))[w]
      /\ L!Number(g, b, w) = (CHOOSE v : v = Value(g, b, v))[w]
  BY Zenon DEF L!Number
<1> HIDE DEF Value
<1> QED  BY <1>1, <1>2, Zenon

LEMMA NumberSteps ==
  ASSUME NEW h, NEW a \in Int, NEW w \in Nat, \A n \in 1..w : h[a + n - 1] \in Int
  PROVE  \E v : /\ v[0] = 0 /\ \A n \in 1..w : v[n] = v[n - 1] * Byte + h[a + n - 1]
                /\ L!Number(h, a, w) = v[w]
<1> DEFINE Digit(n) == IF n \in 1..w THEN h[a + n - 1] ELSE 0
           step == [n \in Nat |-> [v \in Int |-> v * Byte + Digit(n)]]
           Value(v) == v = [n \in 0..w |-> IF n = 0 THEN 0 ELSE v[n - 1] * Byte + h[a + n - 1]]
<1>1. \A n \in Nat : Digit(n) \in Int
  OBVIOUS
<1>2. \A n \in 1..w : Digit(n) = h[a + n - 1]
  OBVIOUS
<1> HIDE DEF Digit
<1>3. step \in Steps(Int) /\ 0 \in Int
  <2>1. \A n \in Nat, v \in Int : v * Byte + Digit(n) \in Int
    BY <1>1, Places
  <2> QED  BY <2>1 DEF Steps
<1>4. \A n \in 1..w, v \in Int : step[n][v] = v * Byte + h[a + n - 1]
  <2> TAKE n \in 1..w, v \in Int
  <2>1. n \in Nat
    OBVIOUS
  <2> QED  BY <1>2, <2>1
<1> HIDE DEF step
<1>5. PICK f \in [0..w -> Int] : Iterates(f, w, 0, step)
  BY <1>3, Iteration, Zenon
<1>6. \A n \in 0..w : f[n] = IF n = 0 THEN 0 ELSE f[n - 1] * Byte + h[a + n - 1]
  BY <1>4, <1>5 DEF Iterates
<1>7. Value(f)
  BY <1>6
<1> DEFINE number == CHOOSE v : Value(v)
<1>8. L!Number(h, a, w) = number[w]
  BY Zenon DEF L!Number
<1>9. Value(number)
  <2> HIDE DEF Value
  <2> QED  BY <1>7, Zenon
<1> HIDE DEF number
<1>10. number[0] = 0 /\ \A n \in 1..w : number[n] = number[n - 1] * Byte + h[a + n - 1]
  BY <1>9
<1> QED  BY <1>8, <1>10

(* Bytes written with the highest first are read as the number they came   *)
(* from.                                                                   *)
LEMMA PackedIsRead ==
  ASSUME NEW h, NEW a \in Int, NEW w \in 1..4, NEW x \in Nat,
         \A n \in 1..w : h[a + n - 1] = (x \div L!Place[w - n]) % Byte
  PROVE  L!Number(h, a, w) = x % L!Place[w]
<1> DEFINE Higher(n) == x \div L!Place[w - n]
<1>0. w \in Nat /\ Byte \in Nat /\ Byte > 0
  BY Places
<1>1. \A n \in 0..w : w - n \in 0..4
  OBVIOUS
<1>2. \A n \in 0..w : Higher(n) \in Nat
  <2> TAKE n \in 0..w
  <2>1. L!Place[w - n] \in Nat /\ L!Place[w - n] > 0
    BY <1>1, Places
  <2> QED  BY <2>1
<1> HIDE DEF Higher
<1>3. \A n \in 1..w : h[a + n - 1] = Higher(n) % Byte
  BY DEF Higher
<1>4. \A n \in 1..w : h[a + n - 1] \in Int
  <2> TAKE n \in 1..w
  <2>1. Higher(n) \in Nat
    BY <1>2
  <2> QED  BY <1>0, <1>3, <2>1
<1>5. PICK v : /\ v[0] = 0 /\ \A n \in 1..w : v[n] = v[n - 1] * Byte + h[a + n - 1]
               /\ L!Number(h, a, w) = v[w]
  BY <1>0, <1>4, NumberSteps, Zenon
<1> DEFINE P == {n \in 0..w : v[n] = Higher(n) % L!Place[n]}
<1>6. 0 \in P
  BY <1>2, <1>5, Places
<1>7. ASSUME NEW n \in 1..w, n - 1 \in P
      PROVE  n \in P
  <2> DEFINE u == Higher(n)
             p == L!Place[n - 1]
  <2>0. n \in 0..w /\ n \in 1..4 /\ n - 1 \in 0..4
    OBVIOUS
  <2>1. u \in Nat /\ p \in Nat /\ p > 0 /\ Byte \in Nat /\ Byte > 0
    BY <1>0, <1>2, <2>0, Places
  <2>2. L!Place[n] = Byte * p
    BY <2>0, Places
  <2>3. Higher(n - 1) = u \div Byte
    <3>1. w - n \in 0..4 /\ w - (n - 1) \in 1..4 /\ w - (n - 1) - 1 = w - n
      OBVIOUS
    <3>2. /\ L!Place[w - (n - 1)] = Byte * L!Place[w - n]
          /\ L!Place[w - n] \in Nat /\ L!Place[w - n] > 0
      BY <3>1, Places
    <3>3. x \div (Byte * L!Place[w - n]) = (x \div L!Place[w - n]) \div Byte
      BY <2>1, <3>2, QuotientOfProduct
    <3> QED  BY <3>2, <3>3, Zenon DEF Higher
  <2>4. v[n - 1] = (u \div Byte) % p
    BY <1>7, <2>3
  <2>5. v[n] = v[n - 1] * Byte + (u % Byte)
    BY <1>3, <1>5
  <2>6. u % (Byte * p) = ((u \div Byte) % p) * Byte + (u % Byte)
    BY <2>1, RemainderOfProduct
  <2>7. v[n] = u % L!Place[n]
    BY <2>2, <2>4, <2>5, <2>6, Zenon
  <2> QED  BY <2>0, <2>7
<1> HIDE DEF P
<1>8. w \in P
  <2>1. w \in Nat /\ w \in 0..w
    OBVIOUS
  <2>2. 0..w \subseteq P
    BY <1>6, <1>7, <2>1, IntervalInduction, Zenon
  <2> QED  BY <2>1, <2>2
<1>9. Higher(w) = x
  <2>1. w - w = 0
    OBVIOUS
  <2> QED  BY <2>1, Places DEF Higher
<1> QED  BY <1>5, <1>8, <1>9 DEF P

(* A field lies in the heap and is read as it was packed. *)
Kept(f, h) ==
  /\ f \in [at : Nat, width : 1..4, value : Nat]
  /\ f.at + f.width <= HeapSize
  /\ L!Number(h, f.at, f.width) = f.value

FieldsOK == \A f \in fields : Kept(f, heap)

LEMMA FitsAreInside ==
  ASSUME NEW a \in L!Heap, NEW width \in 1..4, L!Fits(a, width)
  PROVE  a \in Nat /\ a + width <= HeapSize
<1>1. a \in Nat /\ a < HeapSize /\ HeapSize \in Nat /\ L!Word \in Nat /\ HeapSize + 4 <= L!Word
  BY LibrarySizes DEF L!Heap
<1>2. a + width - 1 \in Nat /\ a + width - 1 < L!Word
  BY <1>1
<1>3. (a + width - 1) % L!Word = a + width - 1
  BY <1>1, <1>2
<1> QED  BY <1>1, <1>3 DEF L!Fits

(* What is written elsewhere leaves a field as it is. *)
LEMMA FieldsOutsideStay ==
  ASSUME FieldsOK, NEW a \in Nat, NEW n \in Nat, NEW h,
         \A x \in L!Heap : x \notin L!Range(a, n) => h[x] = heap[x],
         NEW f \in L!Outside(a, n)
  PROVE  Kept(f, h)
<1>1. f \in fields /\ L!Range(f.at, f.width) \cap L!Range(a, n) = {}
  BY DEF L!Outside
<1>2. Kept(f, heap)
  BY <1>1 DEF FieldsOK
<1>3. f.at \in Nat /\ f.width \in Nat /\ f.at + f.width <= HeapSize /\ HeapSize \in Nat
  BY <1>2, LibrarySizes DEF Kept
<1>4. ASSUME NEW i \in 0..(f.width - 1)
      PROVE  h[f.at + i] = heap[f.at + i]
  <2>1. f.at + i \in L!Heap /\ f.at + i \in L!Range(f.at, f.width)
    BY <1>3 DEF L!Heap, L!Range
  <2> QED  BY <1>1, <2>1
<1>5. L!Number(h, f.at, f.width) = L!Number(heap, f.at, f.width)
  <2> DEFINE at == f.at
             w == f.width
  <2>1. at \in Int /\ w \in Nat /\ \A i \in 0..(w - 1) : h[at + i] = heap[at + i]
    BY <1>3, <1>4
  <2> HIDE DEF at, w
  <2>2. L!Number(h, at, w) = L!Number(heap, at, w)
    BY <2>1, NumberOfBytes
  <2> QED  BY <2>2 DEF at, w
<1> QED  BY <1>2, <1>5 DEF Kept

LEMMA PackKeepsFields ==
  ASSUME FieldsOK, NEW width \in {1, 2, 4}, NEW v \in Numbers, NEW a \in Addresses,
         L!Pack(width, v, a)
  PROVE  FieldsOK'
<1>1. CASE UNCHANGED <<heap, fields>>
  BY <1>1 DEF FieldsOK
<1>2. CASE ~ UNCHANGED <<heap, fields>>
  <2>1. /\ L!Fits(a, width) /\ a \in L!Heap
        /\ heap' = [x \in L!Heap |-> IF x \in L!Range(a, width)
                                     THEN (v \div L!Place[a + width - 1 - x]) % Byte
                                     ELSE heap[x]]
        /\ fields' = L!Outside(a, width)
                       \cup {[at |-> a, width |-> width, value |-> v % L!Place[width]]}
    BY <1>2 DEF L!Pack, L!Answer, L!Fault
  <2>2. width \in 1..4 /\ v \in Nat
    BY LibrarySizes
  <2>3. a \in Nat /\ a + width <= HeapSize /\ HeapSize \in Nat
    BY <2>1, <2>2, FitsAreInside, LibrarySizes
  <2>4. \A x \in L!Heap : x \notin L!Range(a, width) => heap'[x] = heap[x]
    BY <2>1
  <2>5. \A f \in L!Outside(a, width) : Kept(f, heap')
    BY <2>2, <2>3, <2>4, FieldsOutsideStay
  <2>6. ASSUME NEW n \in 1..width
        PROVE  heap'[a + n - 1] = (v \div L!Place[width - n]) % Byte
    <3>1. /\ a + n - 1 \in L!Heap /\ a + n - 1 \in L!Range(a, width)
          /\ a + width - 1 - (a + n - 1) = width - n
      BY <2>2, <2>3 DEF L!Heap, L!Range
    <3> QED  BY <2>1, <3>1
  <2>7. L!Number(heap', a, width) = v % L!Place[width]
    <3>1. a \in Int
      BY <2>3
    <3> QED  BY <2>2, <2>6, <3>1, PackedIsRead, Zenon
  <2> DEFINE f == [at |-> a, width |-> width, value |-> v % L!Place[width]]
  <2>8. v % L!Place[width] \in Nat
    BY <2>2, Places
  <2>9. Kept(f, heap')
    BY <2>2, <2>3, <2>7, <2>8 DEF Kept
  <2> HIDE DEF f
  <2>10. fields' = L!Outside(a, width) \cup {f}
    BY <2>1 DEF f
  <2> QED  BY <2>5, <2>9, <2>10 DEF FieldsOK
<1> QED  BY <1>1, <1>2

LEMMA CopyKeepsFields ==
  ASSUME FieldsOK, NEW dst \in Addresses, NEW src \in Addresses, NEW n \in Lengths,
         L!sys_memcpy(dst, src, n)
  PROVE  FieldsOK'
<1>1. CASE UNCHANGED <<heap, fields>>
  BY <1>1 DEF FieldsOK
<1>2. CASE ~ UNCHANGED <<heap, fields>>
  <2> DEFINE Inner == {g \in fields : L!Range(g.at, g.width) \subseteq L!Range(src, n)}
             Copy(f) == [f EXCEPT !.at = dst + f.at - src]
  <2>1. /\ dst + n <= HeapSize /\ src + n <= HeapSize
        /\ heap' = L!Moved(dst, src, n)
        /\ fields' = L!Outside(dst, n) \cup {Copy(f) : f \in Inner}
    <3>1. HeapSize \in Nat /\ dst \in Nat /\ src \in Nat /\ n \in Nat
      BY LibrarySizes
    <3> QED  BY <1>2, <3>1 DEF L!sys_memcpy, L!Answer, L!Fault
  <2>2. dst \in Nat /\ src \in Nat /\ n \in Nat /\ HeapSize \in Nat
    BY LibrarySizes
  <2>3. \A x \in L!Heap : x \notin L!Range(dst, n) => heap'[x] = heap[x]
    BY <2>1 DEF L!Moved
  <2>4. \A f \in L!Outside(dst, n) : Kept(f, heap')
    BY <2>2, <2>3, FieldsOutsideStay
  <2>5. ASSUME NEW f \in Inner
        PROVE  Kept(Copy(f), heap')
    <3>1. Kept(f, heap) /\ L!Range(f.at, f.width) \subseteq L!Range(src, n)
      BY DEF FieldsOK
    <3>2. /\ f \in [at : Nat, width : 1..4, value : Nat]
          /\ f.at \in Nat /\ f.width \in 1..4 /\ f.value \in Nat
          /\ L!Number(heap, f.at, f.width) = f.value
      BY <3>1 DEF Kept
    <3>3. f.at >= src /\ f.at + f.width <= src + n
      <4>1. f.at \in L!Range(f.at, f.width) /\ f.at + f.width - 1 \in L!Range(f.at, f.width)
        BY <3>2 DEF L!Range
      <4>2. f.at \in L!Range(src, n) /\ f.at + f.width - 1 \in L!Range(src, n)
        BY <3>1, <4>1
      <4> QED  BY <2>2, <3>2, <4>2 DEF L!Range
    <3> DEFINE at == dst + f.at - src
    <3>4. at \in Nat /\ at + f.width <= dst + n
      BY <2>2, <3>2, <3>3
    <3>5. /\ Copy(f) \in [at : Nat, width : 1..4, value : Nat]
          /\ Copy(f).at = at /\ Copy(f).width = f.width /\ Copy(f).value = f.value
      BY <3>2, <3>4
    <3>6. ASSUME NEW i \in 0..(f.width - 1)
          PROVE  heap'[at + i] = heap[f.at + i]
      <4>1. /\ at + i \in L!Heap /\ at + i \in L!Range(dst, n)
            /\ src + (at + i) - dst = f.at + i
        BY <2>1, <2>2, <3>2, <3>3, <3>4 DEF L!Heap, L!Range
      <4> HIDE DEF at
      <4> QED  BY <2>1, <4>1 DEF L!Moved
    <3>7. L!Number(heap', at, f.width) = L!Number(heap, f.at, f.width)
      <4>1. at \in Int /\ f.at \in Int /\ f.width \in Nat
        BY <3>2, <3>4
      <4> HIDE DEF at
      <4> QED  BY <3>6, <4>1, NumberOfBytes
    <3>8. Copy(f).at + Copy(f).width <= HeapSize
      <4> HIDE DEF at, Copy
      <4> QED  BY <2>1, <2>2, <3>2, <3>4, <3>5
    <3> HIDE DEF at, Copy
    <3> QED  BY <3>2, <3>5, <3>7, <3>8 DEF Kept
  <2> HIDE DEF Inner, Copy
  <2> QED  BY <2>1, <2>4, <2>5 DEF FieldsOK
<1> QED  BY <1>1, <1>2

LEMMA FillKeepsFields ==
  ASSUME FieldsOK, NEW dst \in Addresses, NEW v \in Numbers, NEW n \in Lengths,
         L!sys_memset(dst, v, n)
  PROVE  FieldsOK'
<1>1. CASE UNCHANGED <<heap, fields>>
  BY <1>1 DEF FieldsOK
<1>2. CASE ~ UNCHANGED <<heap, fields>>
  <2>1. /\ heap' = [x \in L!Heap |-> IF x \in L!Range(dst, n) THEN v % Byte ELSE heap[x]]
        /\ fields' = L!Outside(dst, n)
    BY <1>2 DEF L!sys_memset, L!Answer, L!Fault
  <2>2. dst \in Nat /\ n \in Nat
    BY LibrarySizes
  <2>3. \A x \in L!Heap : x \notin L!Range(dst, n) => heap'[x] = heap[x]
    BY <2>1
  <2> QED  BY <2>1, <2>2, <2>3, FieldsOutsideStay DEF FieldsOK
<1> QED  BY <1>1, <1>2

(* The inductive invariant: what the history of writes says is in the heap. *)
LEMMA FieldsStay == Spec => []FieldsOK
<1>1. Init => FieldsOK
  BY DEF Init, InitSelection, InitCrossover, InitDialects, InitLibrary, L!Init, FieldsOK
<1>2. FieldsOK /\ [Next]_vars => FieldsOK'
  <2> SUFFICES ASSUME FieldsOK, [Next]_vars
               PROVE  FieldsOK'
    OBVIOUS
  <2>1. CASE UNCHANGED library
    BY <2>1 DEF library, FieldsOK
  <2>2. CASE Call
    <3>1. L!Next
      BY <2>2 DEF Call
    <3>2. PICK a \in Addresses :
            \/ \E width \in {1, 2, 4}, v \in Numbers : L!Pack(width, v, a)
            \/ \E width \in {1, 2, 4} : L!Unpack(width, a)
            \/ \E b \in Addresses, n \in Lengths : L!sys_memcpy(a, b, n)
            \/ \E v \in Numbers, n \in Lengths : L!sys_memset(a, v, n)
            \/ L!Answer(L!Hash(a))
            \/ L!Answer(L!Length(a))
            \/ \E b \in Addresses : L!sys_strcmp(a, b)
      BY <3>1, Zenon DEF L!Next
    <3>3. ASSUME \/ \E width \in {1, 2, 4} : L!Unpack(width, a)
                 \/ L!Answer(L!Hash(a))
                 \/ L!Answer(L!Length(a))
                 \/ \E b \in Addresses : L!sys_strcmp(a, b)
          PROVE  UNCHANGED <<heap, fields>>
      BY <3>3, Zenon DEF L!Unpack, L!sys_strcmp, L!Answer, L!Fault
    <3>4. CASE UNCHANGED <<heap, fields>>
      BY <3>4 DEF FieldsOK
    <3> QED  BY <3>2, <3>3, <3>4, PackKeepsFields, CopyKeepsFields, FillKeepsFields
  <2> QED  BY <2>1, <2>2 DEF Next, vars, SelectByRank, SelectByTournament, Cross, Step
<1> QED  BY <1>1, <1>2, PTL DEF Spec

(* A packed number is read as it was packed wherever it has been copied,   *)
(* overlapping or not, until one of its bytes is written, for any heap and *)
(* any size of a byte (FieldsKept).                                        *)
THEOREM PackedFieldsAreKept == Spec => []FieldsKept
<1>1. FieldsOK => FieldsKept
  BY DEF FieldsOK, Kept, FieldsKept, L!FieldsKept
<1> QED  BY <1>1, FieldsStay, PTL
=============================================================================
