---------------------------- MODULE MCEvolution ------------------------------
(* Small seeds for TLC, and the fitness for the default weights. *)
EXTENDS EvoEngine, SequencesExt, FiniteSetsExt

(* Of different lengths: the shorter one is the fitter. *)
TwoSeeds == {<<{0}, {0}>>, <<{0}>>}

(* The number an opcode is. *)
Opcode(gene) == MapThenSumSet(LAMBDA line : 2^line, gene)

(* evo_evaluate_fitness with the weights of evo_config_create, times 1000. *)
EvaluateFitness(genes) ==
  LET n          == Len(genes)
      throughput == IF n < 20 THEN 10000 - 500 * n ELSE 0
      opcodes    == FoldSeq(LAMBDA gene, sum : Opcode(gene) + sum, 0, genes)
  IN  IF n = 0 THEN -1000000
      ELSE -(1000 * n) + 2 * throughput - 5 * opcodes - 30 * n
=============================================================================
