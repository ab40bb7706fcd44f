---------------------------- MODULE Calibration ----------------------------
(***************************************************************************)
(* The choice of the selector's threshold                                  *)
(* (python/hwm_solver/evaluation/dynamics_selector.py).  An example is an  *)
(* attack with p, the probability that the learned model is worse, and the *)
(* errors of both models.  Probabilities are counted in steps of           *)
(* 1/Certain, as they are rounded to 12 decimals in the code.              *)
(***************************************************************************)
EXTENDS Integers, SequencesExt

CONSTANTS
    Certain,    \* the probability one
    Intervals   \* between the quantiles that are tried; 100 in the code

ASSUME CalibrationAssumption ==
    /\ Certain \in Nat \ {0}
    /\ Intervals \in Nat \ {0}

ChoosesGeneric(example, threshold) == example.p >= threshold

\* The sum of the values of a function.
Total(f) == FoldFunction(+, 0, f)

GenericError(examples) == Total([i \in DOMAIN examples |-> examples[i].generic])

LearnedError(examples) == Total([i \in DOMAIN examples |-> examples[i].ensemble])

\* The error of the examples when the threshold selects the model of each.
SelectedError(examples, threshold) ==
    Total([i \in DOMAIN examples |-> IF ChoosesGeneric(examples[i], threshold)
                                     THEN examples[i].generic ELSE examples[i].ensemble])

GenericUses(examples, threshold) == Cardinality({i \in DOMAIN examples : ChoosesGeneric(examples[i], threshold)})

\* The probability that j others precede when they are sorted.
Ranked(examples, j) ==
    Min({p \in 0..Certain : Cardinality({i \in DOMAIN examples : examples[i].p <= p}) > j})

\* a/b rounded to the next integer, for naturals.
Rounded(a, b) == (2 * a + b) \div (2 * b)

\* np.quantile at k/Intervals: at its place in the sorted probabilities, or between
\* two of them in proportion; the result is rounded to a step.
Quantile(examples, k) ==
    LET place == k * (Len(examples) - 1)
        below == place \div Intervals
        part  == place % Intervals
        low   == Ranked(examples, below)
        high  == IF part = 0 THEN low ELSE Ranked(examples, below + 1)
    IN  low + Rounded(part * (high - low), Intervals)

\* Faulty: the greatest quantile still selects the generic formula somewhere.
CandidatesBetween(examples) == {Quantile(examples, k) : k \in 0..Intervals}

\* Always generic, (almost) never generic, and the quantiles: with more examples than
\* quantiles most probabilities are no candidates.
Candidates(examples) == {0, Certain} \cup {Quantile(examples, k) : k \in 0..Intervals}

\* The least error, then the fewest uses of the generic formula, then the least threshold.
ChooseThreshold(examples) ==
    LET key(t) == <<SelectedError(examples, t), GenericUses(examples, t), t>>
        before(k, l) == \/ k[1] < l[1]
                        \/ k[1] = l[1] /\ k[2] < l[2]
                        \/ k[1] = l[1] /\ k[2] = l[2] /\ k[3] <= l[3]
    IN  CHOOSE t \in Candidates(examples) : \A u \in Candidates(examples) : before(key(t), key(u))
=============================================================================
