----------------------------- MODULE Crossover -------------------------------
(***************************************************************************)
(* The crossover operators of evomorph_runtime.c on the children that      *)
(* evo_evolve_one_generation prepares: copies of the parents, of the       *)
(* longer one's length.  A crossover is the set of pairs it can give.      *)
(***************************************************************************)
EXTENDS Integers, Sequences

(* The gene of p at a locus; where p has none the child keeps its own.     *)
Take(p, child, i) == IF i \in DOMAIN p THEN p[i] ELSE child[i]

(* Slip: a gene more than the longer parent has. *)
LongerByOne(p, q) == 1 + IF Len(p) > Len(q) THEN Len(p) ELSE Len(q)

(* The copies the children start as: padded with opcode 0.                 *)
Longer(p, q)  == IF Len(p) > Len(q) THEN Len(p) ELSE Len(q)
Padded(p, n)  == [i \in 1..n |-> IF i \in DOMAIN p THEN p[i] ELSE {}]
CopyOf(p, q)  == Padded(p, Longer(p, q))
Common(p, q)  == IF Len(p) < Len(q) THEN Len(p) ELSE Len(q)

(* evo_crossover_single_point with the point k: one child of p and q.      *)
SinglePoint(p, q, k) ==
  [i \in 1..Longer(p, q) |-> Take(IF i <= k THEN p ELSE q, CopyOf(p, q), i)]

(* evo_crossover_two_point between j and k. *)
TwoPoint(p, q, j, k) ==
  [i \in 1..Longer(p, q) |-> Take(IF i <= j \/ i > k THEN p ELSE q, CopyOf(p, q), i)]

(* Slip: the second child is tossed like the first. *)
Same(heads) == heads

Opposite(heads) == [i \in DOMAIN heads |-> ~heads[i]]

(* evo_crossover_uniform: heads says where the first child is p's; both    *)
(* children look at p first and then at q.                                 *)
UniformChild(p, q, wantsP, child) ==
  [i \in 1..Longer(p, q) |->
     IF wantsP[i] /\ i \in DOMAIN p THEN p[i] ELSE Take(q, child, i)]

Coins(n) == [1..n -> BOOLEAN]

(* The pairs of children a crossover of p and q can give. *)
SinglePointPairs(p, q) ==
  IF Common(p, q) <= 1 THEN {<<CopyOf(p, q), CopyOf(q, p)>>}
  ELSE {<<SinglePoint(p, q, k), SinglePoint(q, p, k)>> : k \in 1..(Common(p, q) - 1)}

TwoPointPairs(p, q) ==
  LET points == 1..(Common(p, q) - 1)
      sorted == {jk \in points \X points : jk[1] <= jk[2]}
  IN  IF Common(p, q) <= 2 THEN SinglePointPairs(p, q)
      ELSE {<<TwoPoint(p, q, jk[1], jk[2]), TwoPoint(q, p, jk[1], jk[2])>> : jk \in sorted}

UniformPairs(p, q) ==
  {<<UniformChild(p, q, heads, CopyOf(p, q)),
     UniformChild(p, q, Opposite(heads), CopyOf(q, p))>> :
     heads \in Coins(Longer(p, q))}

Crossed(crossover, p, q) ==
  CASE crossover = "TWO_POINT" -> TwoPointPairs(p, q)
    [] crossover = "UNIFORM"   -> UniformPairs(p, q)
    [] OTHER                   -> SinglePointPairs(p, q)
=============================================================================
