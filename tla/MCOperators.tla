----------------------------- MODULE MCOperators -----------------------------
(* The parts of the system that are functions of their input, on all small *)
(* inputs, one subject per behaviour: every draw of the selections on      *)
(* every population of up to MaxSize individuals with MaxFit + 1 levels of *)
(* fitness; every crossover of two parents of up to MaxGenes genes, each   *)
(* gene marked with its parent and its place, so that it is seen where it  *)
(* goes; programs in both dialects of ichingvm2.c; its binary system calls *)
(* in any order.                                                           *)
EXTENDS Selection, Crossover

CONSTANTS MaxSize, MaxFit, MaxGenes,
          Bits, Values, MaxSteps,              \* of VM2Dialects
          Byte, Numbers, Addresses, Lengths,   \* of VM2Library
          HeapSize                             \* of both

ASSUME SizesAssumption == MaxSize \in Nat /\ MaxFit \in Nat /\ MaxGenes \in Nat

VARIABLES subject, fits, chosen, parents, children,
          iching, native, steps, compared, outside,
          heap, r1, state, fields

D == INSTANCE VM2Dialects
L == INSTANCE VM2Library

ASSUME DialectsAssumption == D!DialectsAssumption
ASSUME LibraryAssumption  == L!LibraryAssumption

genetic == <<fits, chosen, parents, children>>
dialects == <<iching, native, steps, compared, outside>>
library == <<heap, r1, state, fields>>
vars == <<subject, genetic, dialects, library>>

Sizes == 1..Len(fits)

Parent(sign, n) == [i \in 1..n |-> {sign * i}]

NoGenetic  == fits = << >> /\ chosen = 0 /\ parents = << >> /\ children = << >>
NoDialects == /\ iching = D!Machine([r \in D!Regs |-> 0]) /\ native = iching
              /\ steps = 0 /\ compared = << >> /\ outside = FALSE

InitSelection == /\ subject = "selection"
                 /\ fits \in UNION {[1..n -> 0..MaxFit] : n \in 1..MaxSize}
                 /\ chosen = 0
                 /\ parents = << >> /\ children = << >>
                 /\ NoDialects /\ L!Init

InitCrossover == /\ subject = "crossover"
                 /\ fits = << >> /\ chosen = 0
                 /\ \E n, m \in 0..MaxGenes : parents = <<Parent(1, n), Parent(-1, m)>>
                 /\ children = <<CopyOf(parents[1], parents[2]), CopyOf(parents[2], parents[1])>>
                 /\ NoDialects /\ L!Init

InitDialects == subject = "dialects" /\ D!Init /\ NoGenetic /\ L!Init
InitLibrary  == subject = "library" /\ L!Init /\ NoGenetic /\ NoDialects

Init == InitSelection \/ InitCrossover \/ InitDialects \/ InitLibrary

SelectByRank == /\ subject = "selection"
                /\ \E r \in RankDraws(Len(fits)) : chosen' = SelectRank(fits, r)
                /\ UNCHANGED <<subject, fits, parents, children, dialects, library>>

SelectByTournament ==
  /\ subject = "selection"
  /\ \E size \in Sizes : \E draws \in [1..size -> Sizes] :
       chosen' = SelectTournament(fits, draws)
  /\ UNCHANGED <<subject, fits, parents, children, dialects, library>>

Cross(crossover) == /\ subject = "crossover"
                    /\ children' \in Crossed(crossover, parents[1], parents[2])
                    /\ UNCHANGED <<subject, fits, chosen, parents, dialects, library>>

Step == subject = "dialects" /\ D!Next /\ UNCHANGED <<subject, genetic, library>>
Call == subject = "library" /\ L!Next /\ UNCHANGED <<subject, genetic, dialects>>

Next == \/ SelectByRank
        \/ SelectByTournament
        \/ \E crossover \in {"SINGLE_POINT", "TWO_POINT", "UNIFORM"} : Cross(crossover)
        \/ Step
        \/ Call

Spec == Init /\ [][Next]_vars

(* How many of the equally likely numbers r make the rank selection return *)
(* the individual a.                                                       *)
DrawsOf(a) == Cardinality({r \in RankDraws(Len(fits)) : SelectRank(fits, r) = a})

(* evo_select_rank never prefers the less fit, although its comparison     *)
(* gives the first rank one draw more than its weight and takes it from    *)
(* the last, which is never drawn from two individuals on.                 *)
FitterIsLikelier ==
  \A a, b \in Sizes : fits[a] > fits[b] => DrawsOf(a) >= DrawsOf(b)

(* evo_select_tournament returns a fittest one of those it drew.           *)
TournamentIsWon ==
  \A size \in Sizes : \A draws \in [1..size -> Sizes] :
    LET winner == SelectTournament(fits, draws)
    IN  /\ \E k \in 1..size : draws[k] = winner
        /\ \A k \in 1..size : fits[draws[k]] <= fits[winner]

(* Every gene of either parent is at its own place in one of the children, *)
(* whatever the lengths: where both parents have one, the children have    *)
(* one each (the three crossovers, and the copies they start from).        *)
NoGeneLost ==
  \A n \in DOMAIN parents : \A i \in DOMAIN parents[n] :
    \E child \in {children[1], children[2]} : child[i] = parents[n][i]

(* See VM2Dialects: a program means the same in both dialects.             *)
DialectsAgree == D!DialectsAgree

(* See VM2Dialects: branches follow the order of the numbers compared.     *)
BranchOrders == D!BranchOrders

(* See VM2Library: packed numbers come out as they went in.                *)
FieldsKept == L!FieldsKept

(* See VM2Library: equal strings have one length and one hash.             *)
StringsAgree == L!StringsAgree
=============================================================================
