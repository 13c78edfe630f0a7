------------------------------ MODULE Selection ------------------------------
(***************************************************************************)
(* The three ways evomorph_runtime.c picks a parent from a population,     *)
(* given by the sequence of its fitness values, as functions of what the   *)
(* random number generator draws.  Indices start at 1.                     *)
(***************************************************************************)
EXTENDS Integers, Sequences, FiniteSets

(* 1 + 2 + ... + n and n + (n-1) + ... (i terms): the rank weights.        *)
Triangle(n)      == (n * (n + 1)) \div 2
Cumulative(n, i) == Triangle(n) - Triangle(n - i)

(* What the bubble sort of evo_select_rank leaves in indices: from the     *)
(* fittest down, equals in the order they had.                             *)
Before(fits, a, b) == fits[a] > fits[b] \/ (fits[a] = fits[b] /\ a < b)

(* Slip: the comparison of the sort is turned around. *)
ByRankUpwards(fits) ==
  [k \in 1..Len(fits) |->
     CHOOSE a \in 1..Len(fits) :
       Cardinality({b \in 1..Len(fits) : Before(fits, a, b)}) = k - 1]

ByRank(fits) ==
  [k \in 1..Len(fits) |->
     CHOOSE a \in 1..Len(fits) :
       Cardinality({b \in 1..Len(fits) : Before(fits, b, a)}) = k - 1]

RankDraws(n) == 0..(Triangle(n) - 1)

(* evo_select_rank: the first rank whose cumulative weight is at least r.  *)
RankHits(n, r) ==
  {k \in 1..n : Cumulative(n, k) >= r /\ \A j \in 1..(k - 1) : Cumulative(n, j) < r}

SelectRank(fits, r) ==
  LET hits == RankHits(Len(fits), r)
  IN  IF hits = {} THEN 1 ELSE ByRank(fits)[CHOOSE k \in hits : TRUE]

(* Slip: best_fitness is never updated, so every draw wins over the last.  *)
SelectLastDrawn(fits, draws) ==
  IF draws = << >> THEN 1 ELSE draws[Len(draws)]

(* evo_select_tournament: of the drawn indices the first of the fittest.   *)
SelectTournament(fits, draws) ==
  LET best == {k \in 1..Len(draws) :
                 /\ \A j \in 1..Len(draws) : fits[draws[j]] <= fits[draws[k]]
                 /\ \A j \in 1..(k - 1) : fits[draws[j]] < fits[draws[k]]}
  IN  IF best = {} THEN 1 ELSE draws[CHOOSE k \in best : TRUE]

Lesser(m, n) == IF m < n THEN m ELSE n

(* The indices each method can return.  evo_select_roulette gives everyone *)
(* a weight above 0, so it can return any.                                 *)

Selectable(method, size, fits) ==
  LET n == Len(fits)
  IN  CASE method = "ROULETTE" -> 1..n
        [] method = "RANK" -> {i \in 1..n : \E r \in RankDraws(n) : i = SelectRank(fits, r)}
        [] OTHER ->
             {i \in 1..n : \E draws \in [1..Lesser(size, n) -> 1..n] :
                             i = SelectTournament(fits, draws)}
=============================================================================
