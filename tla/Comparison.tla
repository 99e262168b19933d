------------------------------- MODULE Comparison -------------------------------
(***************************************************************************)
(* How the outputs of a candidate are judged against those of a reference  *)
(* (validation/metrics.py).  A tensor has a dtype, a shape and rows of     *)
(* values: integers, or one of NonFinite.  Errors and cosines are compared *)
(* in integers, thresholds are percentages; the Kullback-Leibler           *)
(* divergence and the means, which decide nothing, are left out.           *)
(***************************************************************************)
EXTENDS Integers, Sequences, FiniteSets, SequencesExt, FiniteSetsExt

CONSTANTS NonFinite,    \* nan and the infinities
          NoLimit       \* a threshold that is not set, or an error that was not computed

Elements(t) == UNION {{<<i, j>> : j \in DOMAIN t.rows[i]} : i \in DOMAIN t.rows}
Entry(t, e) == t.rows[e[1]][e[2]]
Finite(t, e) == Entry(t, e) \notin NonFinite
AllFinite(t) == \A e \in Elements(t) : Finite(t, e)

(* --- errors and cosines --- *)

Diff(ref, cand, e) == LET d == Entry(cand, e) - Entry(ref, e) IN IF d < 0 THEN -d ELSE d
BothFinite(ref, cand) == {e \in Elements(ref) : Finite(ref, e) /\ Finite(cand, e)}
MaxAbsError(ref, cand) == Max({0} \cup {Diff(ref, cand, e) : e \in BothFinite(ref, cand)})

\* |c - r| > atol + rtol * |r|, or any difference of integers.
Violation(ref, cand, tolerance, e) ==
  LET r == Entry(ref, e) IN
  IF ref.dtype = "int" THEN Entry(cand, e) # r
  ELSE 100 * Diff(ref, cand, e) > 100 * tolerance.atol + tolerance.rtol * (IF r < 0 THEN -r ELSE r)

Dot(a, b) == FoldLeft(LAMBDA sum, i : sum + a[i] * b[i], 0, [i \in DOMAIN a |-> i])
\* Two zero vectors are identical, one zero vector is orthogonal to the other.
CosineAtLeast(a, b, percent) ==
  LET norms == Dot(a, a) * Dot(b, b) IN
  IF norms = 0 THEN percent = 0 \/ Dot(a, a) = Dot(b, b)
  ELSE Dot(a, b) >= 0 /\ 10000 * Dot(a, b) * Dot(a, b) >= percent * percent * norms

\* The worst row decides for tensors of rank two and more.
CosineFails(ref, cand, tolerance) ==
  /\ AllFinite(ref) /\ AllFinite(cand)
  /\ IF Len(ref.shape) >= 2
     THEN \E i \in DOMAIN ref.rows : ~CosineAtLeast(ref.rows[i], cand.rows[i], tolerance.cosine)
     ELSE ~CosineAtLeast(FlattenSeq(ref.rows), FlattenSeq(cand.rows), tolerance.cosine)

(* --- agreement on the classes of a [samples, classes] output --- *)

ArgMax(row) == CHOOSE i \in DOMAIN row :
  /\ \A j \in DOMAIN row : row[j] <= row[i]
  /\ \A j \in 1 .. (i - 1) : row[j] < row[i]
\* argpartition: k of the largest, whichever it takes among equals.
TopK(row, k) == CHOOSE top \in SUBSET DOMAIN row :
  Cardinality(top) = k /\ \A i \in top, j \in DOMAIN row \ top : row[j] <= row[i]

Classifies(ref, cand) ==
  Len(ref.shape) = 2 /\ ref.shape[2] >= 2 /\ AllFinite(ref) /\ AllFinite(cand)
RateBelow(hits, rows, percent) ==
  percent # NoLimit /\ 100 * Cardinality(hits) < percent * Cardinality(rows)

AgreementFailures(ref, cand, tolerance) ==
  LET rows == DOMAIN ref.rows
      k == Min({tolerance.topk, ref.shape[2]})
      top1 == {i \in rows : ArgMax(cand.rows[i]) = ArgMax(ref.rows[i])}
      topk == {i \in rows : ArgMax(ref.rows[i]) \in TopK(cand.rows[i], k)}
  IN IF ~Classifies(ref, cand) THEN {}
     ELSE {f \in {"top1"} : RateBelow(top1, rows, tolerance.top1)}
          \cup {f \in {"topk"} : RateBelow(topk, rows, tolerance.topk_rate)}

(* --- one output, all outputs, all samples --- *)

\* A mutant: what is not finite is left out of every criterion.
NonFiniteIgnored(ref, cand) == 0

\* How many more values are not finite than in the reference.
NonFiniteMore(ref, cand) ==
  LET count(t) == Cardinality({e \in Elements(t) : ~Finite(t, e)}) IN Max({0, count(cand) - count(ref)})

Failures(ref, cand, tolerance) ==
  {f \in {"non_finite"} : NonFiniteMore(ref, cand) > 0}
  \cup {f \in {"violations"} : \E e \in BothFinite(ref, cand) : Violation(ref, cand, tolerance, e)}
  \cup IF ref.dtype = "int" \/ Elements(ref) = {} THEN {}
       ELSE {f \in {"cosine"} : CosineFails(ref, cand, tolerance)}
            \cup AgreementFailures(ref, cand, tolerance)

Mismatch(why) == [failures |-> {why}, max_abs_error |-> NoLimit]

CompareTensors(ref, cand, tolerance) ==
  IF ref.shape # cand.shape THEN Mismatch("shape")
  ELSE [failures |-> Failures(ref, cand, tolerance), max_abs_error |-> MaxAbsError(ref, cand)]

\* Outputs are functions from names to tensors.
CompareOutputs(reference, candidate, tolerance) ==
  [name \in DOMAIN reference \cup DOMAIN candidate |->
     IF name \notin DOMAIN candidate THEN Mismatch("missing")
     ELSE IF name \notin DOMAIN reference THEN Mismatch("unexpected")
     ELSE CompareTensors(reference[name], candidate[name], tolerance)]

Passed(comparison) == comparison.failures = {}

\* The first of those whose error is largest; one that was not computed is larger than any.
Largest(comparisons, pool) ==
  LET error(i) == comparisons[i].max_abs_error
      top == IF \E i \in pool : error(i) = NoLimit THEN {i \in pool : error(i) = NoLimit}
             ELSE {i \in pool : \A j \in pool : error(j) <= error(i)}
  IN Min(top)

\* The index of a failing one if any; among those, of the largest error.
WorstComparison(comparisons) ==
  LET failing == {i \in DOMAIN comparisons : ~Passed(comparisons[i])}
  IN Largest(comparisons, IF failing = {} THEN DOMAIN comparisons ELSE failing)

\* _run_point and _validate_point: the same outputs over several samples.
RunPoint(samples, tolerance) ==
  LET results == [i \in DOMAIN samples |->
                    CompareOutputs(samples[i].reference, samples[i].candidate, tolerance)]
      names == UNION {DOMAIN results[i] : i \in DOMAIN results}
      of(name) == SelectSeq([i \in DOMAIN results |->
                               IF name \in DOMAIN results[i] THEN results[i][name] ELSE Mismatch("absent")],
                            LAMBDA c : c.failures # {"absent"})
      worst == [name \in names |-> of(name)[WorstComparison(of(name))]]
      passing == {i \in DOMAIN results : \A name \in DOMAIN results[i] : Passed(results[i][name])}
  IN [failures |-> UNION {worst[name].failures : name \in names},
      passed |-> passing = DOMAIN results /\ \A name \in names : Passed(worst[name])]
=============================================================================
