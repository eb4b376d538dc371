-------------------------- MODULE LearnWindowProofs --------------------------
(***************************************************************************)
(* The learn window of a silo: what its verdicts, its cycles and its being *)
(* stable promise, for any targets, confidences, batches, thresholds of    *)
(* stability and phase sequences.                                          *)
(***************************************************************************)
EXTENDS LearnWindow, TLAPS, FiniteSetTheorems, SequenceTheorems

-----------------------------------------------------------------------------
(* Division.                                                               *)

\* A quotient is what it is multiplied by to reach the last multiple.
LEMMA QuotientBounds ==
  ASSUME NEW a \in Nat, NEW b \in Nat \ {0}
  PROVE  /\ a \div b \in Nat
         /\ b * (a \div b) <= a /\ a < b * (a \div b) + b
         /\ a = b * (a \div b) + (a % b)
OBVIOUS

\* One more element completes one more group, or none.
LEMMA QuotientSteps ==
  ASSUME NEW a \in Nat, NEW b \in Nat \ {0}
  PROVE  (a + 1) \div b = IF (a + 1) % b = 0 THEN a \div b + 1 ELSE a \div b
OBVIOUS

\* Quotients grow with what is divided.
LEMMA QuotientsGrow ==
  ASSUME NEW a \in Nat, NEW c \in Nat, NEW b \in Nat \ {0}, a <= c
  PROVE  a \div b <= c \div b
OBVIOUS

\* A multiple leaves no remainder, and its quotient is its factor.
LEMMA MultiplesLeaveNothing ==
  ASSUME NEW n \in Nat, NEW b \in Nat \ {0}
  PROVE  (n * b) % b = 0 /\ (n * b) \div b = n
OBVIOUS

\* Products grow with their factors.
LEMMA ProductsGrow ==
  ASSUME NEW a \in Nat, NEW b \in Nat, NEW c \in Nat, a <= b
  PROVE  c * a <= c * b /\ c * (b + 1) = c * b + c
OBVIOUS

-----------------------------------------------------------------------------
(* What learning a silo's writes leaves in its counts (GrammarLearner).    *)

\* The counts and the verdict, by their fields: an inductive form of GrammarTypeOK.
GrammarTypes ==
  /\ counts \in [Targets -> [Settled -> Nat]]
  /\ \A u \in Targets : Total(counts[u]) <= Bulk + MaxWrites
  /\ evaluating \in BOOLEAN

\* A verdict is the one evaluate gives on the counts of now: they do not change
\* after the first judgement.
JudgedNow ==
  \/ judged = NoVerdict
  \/ evaluating /\ \E u \in Targets, ctx \in Contexts :
       judged = {[target |-> u, ctx |-> ctx, verdict |-> evaluate(counts[u], ctx)]}

GrammarInv == GrammarTypes /\ JudgedNow

\* n writes are counted once, and under the bounds the total stays in its range.
LEMMA ObserveCounts ==
  ASSUME GrammarTypes, NEW u \in Targets, NEW ctx \in Contexts, NEW n \in Batches,
         observe(u, ctx, n)
  PROVE  GrammarTypes'
<1> USE GrammarAssumption DEF GrammarTypes
<1>n. n \in Nat \ {0} /\ Bulk \in Nat \ {0} /\ MaxWrites \in Nat
  BY Zenon
<1>1. CASE ~Learnable(ctx)
  BY <1>1 DEF observe, Total
<1>2. CASE Learnable(ctx)
  <2>1. ctx.phase \in Settled
    BY <1>2, Zenon DEF Learnable, Contexts
  <2> DEFINE c == counts[u]
             d == [c EXCEPT ![ctx.phase] = @ + n]
  <2>2. counts' = [counts EXCEPT ![u] = d] /\ evaluating' = evaluating
    BY <1>2, Zenon DEF observe
  <2>3. c \in [Settled -> Nat]
    BY Zenon
  <2>4. d \in [Settled -> Nat]
    BY <1>n, <2>1, <2>3
  <2>5. Total(d) = Total(c) + n
    BY <1>n, <2>1, <2>3 DEF Settled, Total
  <2>6. Total(c) \in Nat
    BY <2>3 DEF Settled, Total
  <2>7. Total(c) + n <= Bulk + MaxWrites
    <3> DEFINE x == Total(c) + n
    <3>1. x \in Nat /\ x < 2 * Bulk /\ x % Bulk <= MaxWrites
      BY <1>n, <2>6 DEF observe
    <3> HIDE DEF x
    <3>2. x = Bulk * (x \div Bulk) + (x % Bulk) /\ x \div Bulk \in Nat
      BY <1>n, <3>1, QuotientBounds
    <3>3. x \div Bulk <= 1
      <4>1. SUFFICES ASSUME x \div Bulk >= 2 PROVE FALSE
        BY <3>2
      <4>2. Bulk * 2 <= Bulk * (x \div Bulk)
        BY <1>n, <3>2, <4>1, ProductsGrow
      <4>3. x % Bulk \in Nat
        BY <1>n, <3>1
      <4> QED
        BY <1>n, <3>1, <3>2, <4>2, <4>3
    <3>4. x \div Bulk = 0 \/ x \div Bulk = 1
      BY <3>2, <3>3
    <3>5. x <= Bulk + MaxWrites
      BY <1>n, <3>1, <3>2, <3>4
    <3> QED
      BY <3>5 DEF x
  <2> HIDE DEF c, d
  <2>8. counts' \in [Targets -> [Settled -> Nat]]
    BY <2>2, <2>4, Zenon
  <2>9. \A v \in Targets : counts'[v] = IF v = u THEN d ELSE counts[v]
    BY <2>2, Zenon
  <2>10. \A v \in Targets : Total(counts'[v]) <= Bulk + MaxWrites
    BY <2>5, <2>7, <2>9
  <2> QED
    BY <2>2, <2>8, <2>10, Zenon
<1> QED
  BY <1>1, <1>2

\* An empty grammar has judged nothing.
LEMMA GrammarInvInit == GrammarInit => GrammarInv
<1> SUFFICES ASSUME GrammarInit PROVE GrammarInv
  OBVIOUS
<1>1. Unlearned \in [Settled -> Nat] /\ Total(Unlearned) = 0
  BY DEF Unlearned, Total, Settled
<1>2. Bulk + MaxWrites \in Nat
  BY GrammarAssumption
<1>3. counts \in [Targets -> [Settled -> Nat]]
  BY <1>1, Zenon DEF GrammarInit
<1>4. \A u \in Targets : Total(counts[u]) <= Bulk + MaxWrites
  <2>1. \A u \in Targets : counts[u] = Unlearned
    BY Zenon DEF GrammarInit
  <2> QED
    BY <1>1, <1>2, <2>1
<1> QED
  BY <1>3, <1>4, Zenon DEF GrammarInv, GrammarTypes, GrammarInit, JudgedNow

\* Every step keeps the invariant of the grammar.
LEMMA GrammarInvStep == GrammarInv /\ [GrammarNext]_grammarVars => GrammarInv'
<1> SUFFICES ASSUME GrammarInv, [GrammarNext]_grammarVars PROVE GrammarInv'
  OBVIOUS
<1>1. CASE Freeze
  <2>1. GrammarTypes'
    BY <1>1, Zenon DEF GrammarInv, GrammarTypes, Freeze, Total
  <2>2. JudgedNow'
    BY <1>1, Zenon DEF GrammarInv, JudgedNow, Freeze
  <2> QED
    BY <2>1, <2>2 DEF GrammarInv
<1>2. ASSUME NEW u \in Targets, NEW ctx \in Contexts, Judge(u, ctx) PROVE GrammarInv'
  <2>1. GrammarTypes'
    BY <1>2, Zenon DEF GrammarInv, GrammarTypes, Judge, Total
  <2>2. JudgedNow'
    BY <1>2, Zenon DEF GrammarInv, JudgedNow, Judge
  <2> QED
    BY <2>1, <2>2 DEF GrammarInv
<1>3. ASSUME NEW u \in Targets, NEW ctx \in Contexts, NEW n \in Batches, observe(u, ctx, n)
      PROVE  GrammarInv'
  <2>1. GrammarTypes'
    BY <1>3, ObserveCounts DEF GrammarInv
  <2>2. JudgedNow'
    BY <1>3, Zenon DEF GrammarInv, JudgedNow, observe
  <2> QED
    BY <2>1, <2>2 DEF GrammarInv
<1>4. CASE UNCHANGED grammarVars
  BY <1>4, Zenon DEF grammarVars, GrammarInv, GrammarTypes, JudgedNow, Total
<1> QED
  BY <1>1, <1>2, <1>3, <1>4, Zenon DEF GrammarNext

-----------------------------------------------------------------------------
(* What export makes of the counts.                                        *)

\* Rounding to thousandths, read backwards: a fraction of at least f thousandths was
\* seen at least as often as f less half a thousandth says, and less often otherwise.
LEMMA RoundedReadBack ==
  ASSUME NEW c \in Nat, NEW total \in Nat \ {0}, NEW f \in Nat
  PROVE  /\ Rounded(c, total) \in Nat
         /\ Rounded(c, total) >= f <=> f * (2 * total) <= 2000 * c + total
<1> DEFINE a == 2000 * c + total
           b == 2 * total
           q == a \div b
<1>1. a \in Nat /\ b \in Nat \ {0}
  OBVIOUS
<1>2. Rounded(c, total) = q
  BY DEF Rounded
<1> HIDE DEF a, b
<1>3. q \in Nat /\ b * q <= a /\ a < b * q + b
  BY <1>1, QuotientBounds
<1> HIDE DEF q
<1>4. CASE q >= f
  <2>1. b * f <= b * q
    BY <1>1, <1>3, <1>4, ProductsGrow
  <2>2. f * b = b * f
    BY <1>1
  <2>3. f * b <= a
    BY <1>1, <1>3, <2>1, <2>2
  <2> QED
    BY <1>2, <1>3, <1>4, <2>3 DEF a, b
<1>5. CASE ~(q >= f)
  <2>1. b * (q + 1) <= b * f /\ b * (q + 1) = b * q + b
    BY <1>1, <1>3, <1>5, ProductsGrow
  <2>2. f * b = b * f
    BY <1>1
  <2>3. ~(f * b <= a)
    BY <1>1, <1>3, <2>1, <2>2
  <2> QED
    BY <1>2, <1>3, <1>5, <2>3 DEF a, b
<1> QED
  BY <1>4, <1>5

\* The fraction of a phase is its rounded share, and zero when it was never seen.
LEMMA FractionOfCounts ==
  ASSUME NEW c \in [Settled -> Nat], NEW ph \in Settled, Total(c) # 0
  PROVE  /\ Total(c) \in Nat \ {0} /\ c[ph] \in Nat
         /\ phase_fraction(export(c), ph) = IF c[ph] > 0 THEN Rounded(c[ph], Total(c)) ELSE 0
<1>1. Total(c) \in Nat /\ c[ph] \in Nat
  BY DEF Settled, Total
<1>2. DOMAIN export(c) = {p \in Settled : c[p] > 0}
  BY Zenon DEF export
<1>3. ph \in DOMAIN export(c) => export(c)[ph] = Rounded(c[ph], Total(c))
  BY Zenon DEF export
<1> QED
  BY <1>1, <1>2, <1>3, Zenon DEF phase_fraction

\* What one verdict says of the counts it was given on.
LEMMA EvaluateReadBack ==
  ASSUME NEW c \in [Settled -> Nat], NEW ctx \in Contexts
  PROVE  LET v == evaluate(c, ctx)
         IN  /\ v = "UNCERTAIN" <=> ~Learnable(ctx)
             /\ v = "UNSEEN_TARGET" => Total(c) = 0
             /\ v = "COHERENT" => 2000 * c[ctx.phase] >= 599 * Total(c)
             /\ v = "UNUSUAL" => c[ctx.phase] > 0 /\ 2000 * c[ctx.phase] < 601 * Total(c)
             /\ v = "INCOHERENT" => Total(c) > 0 /\ 2000 * c[ctx.phase] < Total(c)
<1> DEFINE v == evaluate(c, ctx)
           frac == phase_fraction(export(c), ctx.phase)
<1>1. v = IF ~Learnable(ctx) THEN "UNCERTAIN"
          ELSE IF Total(c) = 0 THEN "UNSEEN_TARGET"
          ELSE IF frac >= 300 THEN "COHERENT"
          ELSE IF frac > 0 THEN "UNUSUAL" ELSE "INCOHERENT"
  BY DEF evaluate, Learnable, COHERENT_MIN, PHASE_MIN_CONFIDENCE, LEARN_MIN_CONFIDENCE
<1> HIDE DEF v, frac
<1>2. CASE ~Learnable(ctx)
  BY <1>1, <1>2 DEF v
<1>3. CASE Learnable(ctx) /\ Total(c) = 0
  BY <1>1, <1>3 DEF v
<1>4. CASE Learnable(ctx) /\ Total(c) # 0
  <2> DEFINE T == Total(c)
             n == c[ctx.phase]
             r == Rounded(n, T)
  <2>1. ctx.phase \in Settled
    BY <1>4, Zenon DEF Learnable, Contexts
  <2>2. T \in Nat \ {0} /\ n \in Nat /\ frac = IF n > 0 THEN r ELSE 0
    BY <1>4, <2>1, FractionOfCounts DEF frac
  <2> HIDE DEF T, n
  <2>3. \A f \in Nat : r \in Nat /\ (r >= f <=> f * (2 * T) <= 2000 * n + T)
    <3> SUFFICES ASSUME NEW f \in Nat
                 PROVE  r \in Nat /\ (r >= f <=> f * (2 * T) <= 2000 * n + T)
      OBVIOUS
    <3>1. T \in Nat \ {0} /\ n \in Nat
      BY <2>2
    <3> QED
      BY <3>1, RoundedReadBack
  <2> HIDE DEF r
  <2>4. r \in Nat /\ (r >= 300 <=> 300 * (2 * T) <= 2000 * n + T)
    BY <2>3
  <2>5. r >= 1 <=> 1 * (2 * T) <= 2000 * n + T
    BY <2>3
  <2>6. CASE frac >= 300
    <3>1. v = "COHERENT"
      BY <1>1, <1>4, <2>6
    <3>2. 2000 * n >= 599 * T
      BY <2>2, <2>4, <2>6
    <3> QED
      BY <1>4, <3>1, <3>2 DEF v, T, n
  <2>7. CASE ~(frac >= 300) /\ frac > 0
    <3>1. v = "UNUSUAL"
      BY <1>1, <1>4, <2>7
    <3>2. n > 0 /\ 2000 * n < 601 * T
      BY <2>2, <2>4, <2>7
    <3> QED
      BY <1>4, <3>1, <3>2 DEF v, T, n
  <2>8. CASE ~(frac >= 300) /\ ~(frac > 0)
    <3>1. v = "INCOHERENT"
      BY <1>1, <1>4, <2>8
    <3>2. T > 0 /\ 2000 * n < T
      BY <2>2, <2>4, <2>5, <2>8
    <3> QED
      BY <1>4, <3>1, <3>2 DEF v, T, n
  <2> QED
    BY <2>6, <2>7, <2>8
<1> QED
  BY <1>2, <1>3, <1>4

-----------------------------------------------------------------------------
\* The learner's counts and its verdicts keep their types.
LEMMA GrammarInvTypes == GrammarInv => GrammarTypeOK
<1> SUFFICES ASSUME GrammarInv PROVE GrammarTypeOK
  OBVIOUS
<1>1. counts \in [Targets -> [Settled -> 0..(Bulk + MaxWrites)]]
  <2>1. ASSUME NEW u \in Targets PROVE counts[u] \in [Settled -> 0..(Bulk + MaxWrites)]
    <3>1. counts[u] \in [Settled -> Nat] /\ Total(counts[u]) <= Bulk + MaxWrites
      BY Zenon DEF GrammarInv, GrammarTypes
    <3>2. Bulk \in Nat /\ MaxWrites \in Nat
      BY GrammarAssumption
    <3> QED
      BY <3>1, <3>2 DEF Total, Settled
  <2> QED
    BY <2>1 DEF GrammarInv, GrammarTypes
<1>2. Cardinality(judged) <= 1
  <2>1. judged = {} \/ \E j : judged = {j}
    BY Zenon DEF GrammarInv, JudgedNow, NoVerdict
  <2>2. Cardinality(judged) = 0 \/ Cardinality(judged) = 1
    BY <2>1, FS_EmptySet, FS_Singleton, Zenon
  <2> QED
    BY <2>2
<1>3. ASSUME NEW c, NEW ctx PROVE evaluate(c, ctx) \in Verdicts
  BY DEF evaluate, Verdicts
<1>4. \A j \in judged : j.target \in Targets /\ j.ctx \in Contexts /\ j.verdict \in Verdicts
  BY <1>3 DEF GrammarInv, JudgedNow, NoVerdict
<1> QED
  BY <1>1, <1>2, <1>4, Zenon DEF GrammarTypeOK, GrammarInv, GrammarTypes

\* The verdict given is the one its counts give.
LEMMA GrammarInvVerdicts == GrammarInv => VerdictTellsTheHistory
<1> SUFFICES ASSUME GrammarInv, NEW j \in judged
             PROVE  LET c == counts[j.target]
                    IN  /\ j.verdict = "UNCERTAIN" <=> ~Learnable(j.ctx)
                        /\ j.verdict = "UNSEEN_TARGET" => Total(c) = 0
                        /\ j.verdict = "COHERENT" => 2000 * c[j.ctx.phase] >= 599 * Total(c)
                        /\ j.verdict = "UNUSUAL" =>
                             c[j.ctx.phase] > 0 /\ 2000 * c[j.ctx.phase] < 601 * Total(c)
                        /\ j.verdict = "INCOHERENT" => Total(c) > 0
                        /\ j.verdict = "INCOHERENT" /\ Total(c) <= 2000 => c[j.ctx.phase] = 0
  BY Zenon DEF VerdictTellsTheHistory
<1>1. PICK u \in Targets, ctx \in Contexts :
        judged = {[target |-> u, ctx |-> ctx, verdict |-> evaluate(counts[u], ctx)]}
  BY Zenon DEF GrammarInv, JudgedNow, NoVerdict
<1>2. j.target = u /\ j.ctx = ctx /\ j.verdict = evaluate(counts[u], ctx)
  BY <1>1
<1>3. counts[u] \in [Settled -> Nat]
  BY Zenon DEF GrammarInv, GrammarTypes
<1> DEFINE v == evaluate(counts[u], ctx)
<1>7. /\ v = "UNCERTAIN" <=> ~Learnable(ctx)
      /\ v = "INCOHERENT" => Total(counts[u]) > 0 /\ 2000 * counts[u][ctx.phase] < Total(counts[u])
  BY <1>3, EvaluateReadBack
<1> HIDE DEF v
<1>4. j.verdict = "INCOHERENT" => Total(counts[u]) > 0 /\ 2000 * counts[u][ctx.phase] < Total(counts[u])
  BY <1>2, <1>7 DEF v
<1>5. j.verdict = "INCOHERENT" => ctx.phase \in Settled
  <2>1. j.verdict = "INCOHERENT" => Learnable(ctx)
    BY <1>2, <1>7 DEF v
  <2> QED
    BY <2>1 DEF Learnable, Contexts, Settled
<1>6. j.verdict = "INCOHERENT" /\ Total(counts[u]) <= 2000 => counts[u][ctx.phase] = 0
  <2>1. \A p \in Settled : counts[u][p] \in Nat
    BY <1>3
  <2>2. Total(counts[u]) \in Int
    BY <1>3 DEF Total, Settled
  <2> QED
    BY <1>4, <1>5, <2>1, <2>2
<1> QED
  BY <1>2, <1>3, <1>4, <1>6, EvaluateReadBack

\* Every verdict says what learning saw, for any targets, confidences and batches:
\* evaluate's thresholds on the fractions export rounds are thresholds on the counts
\* (grammar.py export, evaluator.py evaluate).
THEOREM VerdictsAreHistory == GrammarSpec => []VerdictTellsTheHistory
<1>1. GrammarInit => GrammarInv
  BY GrammarInvInit
<1>2. GrammarInv /\ [GrammarNext]_grammarVars => GrammarInv'
  BY GrammarInvStep
<1>3. GrammarInv => VerdictTellsTheHistory
  BY GrammarInvVerdicts
<1> QED
  BY <1>1, <1>2, <1>3, PTL DEF GrammarSpec

-----------------------------------------------------------------------------
(* The cycles of a phase sequence (CycleTracker).                          *)

\* What the tracker stores of the phases.
CycleTypes ==
  /\ phases \in Seq(PhaseNames) /\ Len(phases) <= MaxPhases
  /\ period \in Nat /\ cycles \in Nat /\ reported \in Nat
  /\ broken \in BOOLEAN
  /\ completed \subseteq 1..MaxPhases

\* No period is shown, and nothing is counted.
Unconfirmed == cycles = 0 /\ reported = 0 /\ ~broken /\ Shown(phases) = {}

\* A period was confirmed: the boundaries up to the last call that reported are
\* counted, and while the pattern holds that is the whole sequence.
Confirmation ==
  /\ 2 <= period /\ 2 * period <= reported /\ reported < Len(phases)
  /\ cycles = reported \div period
  /\ ~broken => reported = Len(phases) - 1

\* While the pattern holds, the period is the smallest one shown.
PeriodIsLeast == ~broken => period \in Shown(phases) /\ \A q \in Shown(phases) : period <= q

CycleInv ==
  /\ CycleTypes
  /\ period = 0 => Unconfirmed
  /\ period # 0 => Confirmation /\ PeriodIsLeast

\* A sequence that repeats did so before its last element came.
LEMMA RepeatsBefore ==
  ASSUME NEW seq \in Seq(PhaseNames), NEW phase \in PhaseNames, NEW p \in Nat \ {0},
         Repeats(Append(seq, phase), p)
  PROVE  /\ Repeats(seq, p)
         /\ p <= Len(seq) => phase = At(Append(seq, phase), Len(seq) - p)
<1> DEFINE new == Append(seq, phase)
<1>1. Len(new) = Len(seq) + 1 /\ Len(seq) \in Nat
  BY DEF new
<1>2. \A i \in 1..Len(seq) : new[i] = seq[i]
  BY DEF new
<1>3. new[Len(seq) + 1] = phase
  BY DEF new
<1> HIDE DEF new
<1>4. \A i \in p..Len(seq) : new[i + 1] = new[i - p + 1]
  BY <1>1 DEF Repeats, At, new
<1>5. ASSUME NEW i \in p..(Len(seq) - 1) PROVE seq[i + 1] = seq[i - p + 1]
  <2>1. i + 1 \in 1..Len(seq) /\ i - p + 1 \in 1..Len(seq) /\ i \in p..Len(seq)
    BY <1>1
  <2> QED
    BY <1>2, <1>4, <2>1
<1>6. p <= Len(seq) => phase = new[Len(seq) - p + 1]
  <2>1. p <= Len(seq) => Len(seq) \in p..Len(seq)
    BY <1>1
  <2> QED
    BY <1>3, <1>4, <2>1
<1> QED
  BY <1>5, <1>6 DEF Repeats, At, new

\* One more element that agrees with the one a period before it repeats on.
LEMMA RepeatsOn ==
  ASSUME NEW seq \in Seq(PhaseNames), NEW phase \in PhaseNames, NEW p \in Nat \ {0},
         Repeats(seq, p), p <= Len(seq), phase = At(Append(seq, phase), Len(seq) - p)
  PROVE  Repeats(Append(seq, phase), p)
<1> DEFINE new == Append(seq, phase)
<1>1. Len(new) = Len(seq) + 1 /\ Len(seq) \in Nat
  BY DEF new
<1>2. \A i \in 1..Len(seq) : new[i] = seq[i]
  BY DEF new
<1>3. new[Len(seq) + 1] = phase /\ phase = new[Len(seq) - p + 1]
  BY DEF new, At
<1>4. \A i \in p..(Len(seq) - 1) : seq[i + 1] = seq[i - p + 1]
  BY DEF Repeats, At
<1> HIDE DEF new
<1>5. ASSUME NEW i \in p..Len(seq) PROVE new[i + 1] = new[i - p + 1]
  <2>1. CASE i = Len(seq)
    BY <1>3, <2>1
  <2>2. CASE i # Len(seq)
    <3>1. i + 1 \in 1..Len(seq) /\ i - p + 1 \in 1..Len(seq) /\ i \in p..(Len(seq) - 1)
      BY <1>1, <2>2
    <3> QED
      BY <1>2, <1>4, <3>1
  <2> QED
    BY <2>1, <2>2
<1> QED
  BY <1>1, <1>5 DEF Repeats, At, new

\* With no period shown so far, one more phase shows at most one, just repeated twice,
\* and that is the one that is confirmed.
LEMMA FirstPeriod ==
  ASSUME NEW seq \in Seq(PhaseNames), NEW phase \in PhaseNames, Shown(seq) = {}
  PROVE  LET new == Append(seq, phase)
         IN  \/ Confirmed(new) = 0 /\ Shown(new) = {}
             \/ \E p \in Nat : /\ Confirmed(new) = p /\ Shown(new) = {p}
                               /\ 2 <= p /\ Len(seq) = 2 * p
<1> DEFINE new  == Append(seq, phase)
           last == Len(new) - 1
           fits == {p \in 2..last : last % p = 0 /\ last >= 2 * p /\ Repeats(new, p)}
<1>1. Len(new) = Len(seq) + 1 /\ Len(seq) \in Nat
  BY DEF new
<1>2. ASSUME NEW q \in Shown(new) PROVE Len(seq) = 2 * q /\ q \in Nat /\ 2 <= q
  <2>1. q \in Nat /\ 2 <= q /\ Len(seq) >= 2 * q /\ Repeats(new, q)
    BY <1>1 DEF Shown
  <2>2. Repeats(seq, q)
    BY <2>1, RepeatsBefore DEF new
  <2>3. CASE Len(seq) > 2 * q
    <3>1. q \in Shown(seq)
      BY <1>1, <2>1, <2>2, <2>3 DEF Shown
    <3> QED
      BY <3>1
  <2> QED
    BY <1>1, <2>1, <2>3
<1>3. fits = Shown(new)
  <2>1. ASSUME NEW q \in Shown(new) PROVE q \in fits
    <3>1. last = 2 * q /\ q \in 2..last
      BY <1>1, <1>2
    <3>2. last % q = 0
      BY <1>2, <3>1
    <3> QED
      BY <1>1, <3>1, <3>2 DEF Shown
  <2>2. ASSUME NEW q \in fits PROVE q \in Shown(new)
    BY <1>1 DEF Shown
  <2> QED
    BY <2>1, <2>2
<1>4. Confirmed(new) = IF fits = {} THEN 0 ELSE CHOOSE p \in fits : \A q \in fits : p <= q
  BY Zenon DEF Confirmed
<1> HIDE DEF fits, new
<1>5. CASE fits = {}
  BY <1>3, <1>4, <1>5 DEF new
<1>6. ASSUME NEW p \in fits PROVE Confirmed(new) = p /\ fits = {p} /\ p \in Nat
  <2>1. \A q \in fits : q = p
    BY <1>1, <1>2, <1>3
  <2>2. fits = {p} /\ p \in Nat /\ p <= p
    BY <1>2, <1>3, <2>1
  <2>3. (CHOOSE x \in fits : \A q \in fits : x <= q) \in fits
    <3>1. \E x \in fits : \A q \in fits : x <= q
      BY <2>2
    <3> QED
      BY <3>1, Zenon
  <2> QED
    BY <1>4, <2>1, <2>2, <2>3
<1> QED
  BY <1>2, <1>3, <1>5, <1>6 DEF new

\* The multiples of a period among the positions of one report.
LEMMA FirstBoundaries ==
  ASSUME NEW p \in Nat, 2 <= p
  PROVE  LET now == {i \in (0 + 1)..(2 * p) : i % p = 0}
         IN  now = {p, 2 * p} /\ Cardinality(now) = 2
<1> DEFINE now == {i \in (0 + 1)..(2 * p) : i % p = 0}
<1>1. ASSUME NEW i \in 1..(2 * p), i % p = 0 PROVE i = p \/ i = 2 * p
  <2>1. i = p * (i \div p) + (i % p) /\ i \div p \in Nat
    BY QuotientBounds
  <2>2. i \div p < 3
    <3>1. SUFFICES ASSUME 3 <= i \div p PROVE FALSE
      BY <2>1
    <3>2. p * 3 <= p * (i \div p)
      BY <2>1, <3>1, ProductsGrow
    <3> QED
      BY <1>1, <2>1, <3>2
  <2>3. i \div p = 0 \/ i \div p = 1 \/ i \div p = 2
    BY <2>1, <2>2
  <2> QED
    BY <1>1, <2>1, <2>3
<1>2. p % p = 0 /\ (2 * p) % p = 0
  <2>1. (1 * p) % p = 0 /\ (2 * p) % p = 0
    BY MultiplesLeaveNothing, 1 \in Nat, 2 \in Nat, p \in Nat \ {0}
  <2> QED
    BY <2>1
<1>3. now = {p, 2 * p}
  <2>1. p \in 1..(2 * p) /\ 2 * p \in 1..(2 * p) /\ (0 + 1)..(2 * p) = 1..(2 * p)
    OBVIOUS
  <2>2. ASSUME NEW i \in now PROVE i \in {p, 2 * p}
    <3>1. i \in 1..(2 * p) /\ i % p = 0
      BY <2>1
    <3> QED
      BY <1>1, <3>1, Zenon
  <2>3. p \in now /\ 2 * p \in now
    BY <1>2, <2>1, Zenon
  <2> QED
    BY <2>2, <2>3
<1>4. {p, 2 * p} = {p} \union {2 * p} /\ p # 2 * p
  OBVIOUS
<1>5. Cardinality({p} \union {2 * p}) = 2
  <2>1. IsFiniteSet({p}) /\ Cardinality({p}) = 1 /\ 2 * p \notin {p}
    BY <1>4, FS_Singleton
  <2>2. Cardinality({p} \union {2 * p}) = Cardinality({p}) + 1
    BY <2>1, FS_AddElement, Zenon
  <2> QED
    BY <2>1, <2>2
<1> QED
  BY <1>3, <1>4, <1>5

-----------------------------------------------------------------------------
(* What one more phase can do to the tracker.                              *)

\* It shows no period yet.
Waits ==
  /\ period = 0 /\ Shown(phases') = {}
  /\ completed' = {} /\ UNCHANGED <<period, cycles, broken, reported>>

\* It repeats the first period for the second time.
Confirms ==
  /\ period = 0 /\ period' \in Nat /\ 2 <= period'
  /\ Len(phases) = 2 * period' /\ Shown(phases') = {period'}
  /\ completed' = {period', 2 * period'} /\ cycles' = 2
  /\ reported' = Len(phases) /\ broken' = FALSE

\* It is not the phase one period before.
Breaks ==
  /\ period # 0 /\ broken' = TRUE
  /\ completed' = {} /\ UNCHANGED <<period, cycles, reported>>

\* It follows the pattern, and may complete a cycle.
GoesOn ==
  /\ period # 0 /\ UNCHANGED <<period, broken>>
  /\ At(phases', Len(phases)) = At(phases', Len(phases) - period)
  /\ reported' = Len(phases)
  /\ \/ Len(phases) % period = 0 /\ completed' = {Len(phases)} /\ cycles' = cycles + 1
     \/ Len(phases) % period # 0 /\ completed' = {} /\ cycles' = cycles

\* A changed phase is appended, and does one of four things.
LEMMA ChangedEffect ==
  ASSUME CycleInv, NEW phase \in PhaseNames, Changed(phase)
  PROVE  /\ ~broken /\ phases' = Append(phases, phase)
         /\ Waits \/ Confirms \/ Breaks \/ GoesOn
<1> DEFINE seq == Append(phases, phase)
           p   == IF period = 0 THEN Confirmed(seq) ELSE period
<1>1. CycleTypes /\ ~broken /\ phases' = seq
  BY Zenon DEF Changed, CycleInv
<1>2. Len(seq) = Len(phases) + 1 /\ Len(phases) \in Nat /\ seq[Len(seq)] = phase
  BY <1>1 DEF CycleTypes
<1>3. Len(seq) - 1 = Len(phases) /\ Len(seq) - 1 - period = Len(phases) - period
  BY <1>1, <1>2 DEF CycleTypes
<1> HIDE DEF seq
<1>4. CASE p = 0 /\ completed' = {} /\ UNCHANGED <<period, cycles, broken, reported>>
  <2>1. period = 0 /\ Confirmed(seq) = 0
    BY <1>4
  <2>2. Shown(phases) = {}
    BY <2>1, Zenon DEF CycleInv, Unconfirmed
  <2>3. Shown(seq) = {}
    BY <1>1, <2>1, <2>2, FirstPeriod DEF seq, CycleTypes
  <2> QED
    BY <1>1, <1>4, <2>1, <2>3, Zenon DEF Waits, seq
<1>5. CASE /\ period # 0 /\ broken' = TRUE
           /\ completed' = {} /\ UNCHANGED <<period, cycles, reported>>
  BY <1>1, <1>5, Zenon DEF Breaks, seq
<1>6. CASE /\ p # 0 /\ (period # 0 => phase = At(seq, Len(seq) - 1 - period))
           /\ period' = p /\ Report(seq, p) /\ UNCHANGED broken
  <2> DEFINE now == {i \in (reported + 1)..(Len(seq) - 1) : i % p = 0}
  <2>1. completed' = now /\ cycles' = cycles + Cardinality(now) /\ reported' = Len(phases)
    BY <1>3, <1>6, Zenon DEF Report
  <2>2. CASE period = 0
    <3>1. Shown(phases) = {} /\ cycles = 0 /\ reported = 0
      BY <2>2, Zenon DEF CycleInv, Unconfirmed
    <3>2. p \in Nat /\ 2 <= p /\ Shown(seq) = {p} /\ Len(phases) = 2 * p
      BY <1>1, <1>6, <2>2, <3>1, FirstPeriod DEF seq, CycleTypes
    <3>3. now = {i \in (0 + 1)..(2 * p) : i % p = 0}
      BY <1>3, <3>1, <3>2
    <3>4. now = {p, 2 * p} /\ Cardinality(now) = 2
      BY <3>2, <3>3, FirstBoundaries, Zenon
    <3> HIDE DEF now, p
    <3>5. cycles' = 2
      BY <2>1, <3>1, <3>4
    <3>6. period' = p /\ broken' = FALSE /\ phases' = seq
      BY <1>1, <1>6 DEF CycleTypes
    <3>7. Confirms
      BY <2>1, <2>2, <3>2, <3>4, <3>5, <3>6 DEF Confirms
    <3> QED
      BY <1>1, <3>7, Zenon DEF seq
  <2>3. CASE period # 0
    <3>1. p = period /\ reported = Len(phases) - 1 /\ period \in Nat \ {0}
      BY <1>1, <2>3 DEF CycleInv, Confirmation, CycleTypes
    <3>2. Len(phases) \in Nat \ {0}
      BY <1>2, <2>3, <3>1 DEF CycleInv, Confirmation, CycleTypes
    <3>3. now = {i \in {Len(phases)} : i % period = 0}
      BY <1>2, <1>3, <3>1, <3>2
    <3>4. At(seq, Len(phases)) = At(seq, Len(phases) - period)
      <4>1. At(seq, Len(phases)) = phase
        BY <1>2 DEF At
      <4>2. phase = At(seq, Len(phases) - period)
        BY <1>3, <1>6, <2>3, Zenon
      <4> QED
        BY <4>1, <4>2
    <3>5. CASE Len(phases) % period = 0
      <4>1. now = {Len(phases)}
        BY <3>3, <3>5
      <4>2. Cardinality(now) = 1
        BY <4>1, FS_Singleton, Zenon
      <4> QED
        BY <1>1, <1>6, <2>1, <2>3, <3>1, <3>4, <3>5, <4>1, <4>2, Zenon DEF GoesOn, seq
    <3>6. CASE Len(phases) % period # 0
      <4>1. now = {}
        BY <3>3, <3>6
      <4>2. Cardinality(now) = 0
        BY <4>1, FS_EmptySet, Zenon
      <4>3. cycles' = cycles
        BY <1>1, <2>1, <4>2 DEF CycleTypes
      <4> QED
        BY <1>1, <1>6, <2>1, <2>3, <3>1, <3>4, <3>6, <4>1, <4>3, Zenon DEF GoesOn, seq
    <3> QED
      BY <3>5, <3>6
  <2> QED
    BY <2>2, <2>3
<1> QED
  <2>1. \/ p = 0 /\ completed' = {} /\ UNCHANGED <<period, cycles, broken, reported>>
        \/ /\ period # 0 /\ broken' = TRUE
           /\ completed' = {} /\ UNCHANGED <<period, cycles, reported>>
        \/ /\ p # 0 /\ (period # 0 => phase = At(seq, Len(seq) - 1 - period))
           /\ period' = p /\ Report(seq, p) /\ UNCHANGED broken
    BY Zenon DEF Changed, seq
  <2> QED
    BY <1>4, <1>5, <1>6, <2>1, Zenon

\* What the tracker stores keeps its types and its meaning when a phase changes.
LEMMA ChangedKeepsInv ==
  ASSUME CycleInv, NEW phase \in PhaseNames, Changed(phase), Len(phases) < MaxPhases
  PROVE  CycleInv'
<1>1. CycleTypes /\ ~broken /\ phases' = Append(phases, phase)
  BY ChangedEffect, Zenon DEF CycleInv
<1>2. /\ phases \in Seq(PhaseNames) /\ phases' \in Seq(PhaseNames)
      /\ Len(phases') = Len(phases) + 1 /\ Len(phases) \in Nat
      /\ MaxPhases \in Nat
  BY <1>1, CycleAssumption DEF CycleTypes
<1>3. CASE Waits
  <2>1. CycleTypes'
    BY <1>1, <1>2, <1>3 DEF CycleTypes, Waits
  <2>2. period' = 0 /\ Unconfirmed'
    BY <1>3, Zenon DEF CycleInv, Waits, Unconfirmed
  <2> QED
    BY <2>1, <2>2, Zenon DEF CycleInv
<1>4. CASE Confirms
  <2> DEFINE p == period'
  <2>1. p \in Nat /\ 2 <= p /\ Len(phases) = 2 * p /\ Shown(phases') = {p}
    BY <1>4, Zenon DEF Confirms
  <2>2. /\ completed' = {p, 2 * p} /\ cycles' = 2 /\ reported' = 2 * p /\ broken' = FALSE
    BY <1>4, Zenon DEF Confirms
  <2> HIDE DEF p
  <2>3. {p, 2 * p} \subseteq 1..MaxPhases
    BY <1>2, <2>1
  <2>4. CycleTypes'
    <3>1. completed' \subseteq 1..MaxPhases /\ broken' \in BOOLEAN
      BY <2>2, <2>3
    <3>2. cycles' \in Nat /\ reported' \in Nat /\ Len(phases') <= MaxPhases
      BY <1>2, <2>1, <2>2
    <3> QED
      BY <1>2, <2>1, <3>1, <3>2, Zenon DEF CycleTypes, p
  <2>5. p # 0 /\ (2 * p) \div p = 2 /\ 2 * p < Len(phases') /\ 2 * p = Len(phases') - 1
    BY <1>2, <2>1, MultiplesLeaveNothing
  <2>6. Confirmation'
    <3>1. 2 * p <= 2 * p
      BY <2>1
    <3> QED
      BY <2>1, <2>2, <2>5, <3>1, Zenon DEF Confirmation, p
  <2>7. PeriodIsLeast'
    <3>1. p <= p
      BY <2>1
    <3> QED
      BY <2>1, <3>1, Zenon DEF PeriodIsLeast, p
  <2> QED
    BY <2>4, <2>5, <2>6, <2>7, Zenon DEF CycleInv, p
<1>5. CASE Breaks
  <2>1. CycleTypes'
    BY <1>1, <1>2, <1>5 DEF CycleTypes, Breaks
  <2>2. Confirmation /\ period' # 0
    BY <1>5, Zenon DEF CycleInv, Breaks
  <2>3. Confirmation'
    BY <1>1, <1>2, <1>5, <2>2 DEF Confirmation, Breaks, CycleTypes
  <2>4. PeriodIsLeast'
    BY <1>5, Zenon DEF PeriodIsLeast, Breaks
  <2> QED
    BY <2>1, <2>2, <2>3, <2>4, Zenon DEF CycleInv
<1>6. CASE GoesOn
  <2> DEFINE p == period
             n == Len(phases)
  <2>1. Confirmation /\ PeriodIsLeast /\ p # 0
    BY <1>6, Zenon DEF CycleInv, GoesOn
  <2>2. /\ p \in Nat \ {0} /\ 2 <= p /\ cycles \in Nat /\ n \in Nat /\ Len(phases') = n + 1
        /\ cycles = reported \div p /\ reported = n - 1 /\ reported \in Nat
    BY <1>1, <1>2, <2>1 DEF Confirmation, CycleTypes
  <2>3. p \in Shown(phases) /\ \A q \in Shown(phases) : p <= q
    BY <1>1, <2>1, Zenon DEF PeriodIsLeast
  <2>4. 2 * p <= n - 1 /\ Repeats(phases, p)
    BY <2>3 DEF Shown
  <2>5. At(Append(phases, phase), n) = phase
    BY <1>2 DEF At
  <2>6. Repeats(phases', p)
    <3>1. phase = At(Append(phases, phase), n - p)
      BY <1>1, <1>6, <2>5, Zenon DEF GoesOn
    <3>2. p <= Len(phases)
      BY <2>2, <2>4
    <3> QED
      BY <1>1, <1>2, <2>2, <2>4, <3>1, <3>2, RepeatsOn
  <2>7. \A q \in Shown(phases') : p <= q
    <3>1. SUFFICES ASSUME NEW q \in Shown(phases'), ~(p <= q) PROVE FALSE
      OBVIOUS
    <3>2. q \in Nat \ {0} /\ 2 <= q /\ q < p /\ Repeats(phases', q)
      BY <1>2, <2>2, <3>1 DEF Shown
    <3>3. Repeats(phases, q)
      BY <1>1, <1>2, <3>2, RepeatsBefore
    <3>4. q \in Shown(phases)
      BY <2>2, <2>4, <3>2, <3>3 DEF Shown
    <3> QED
      BY <2>3, <3>1, <3>4
  <2>8. p \in Shown(phases')
    BY <2>2, <2>4, <2>6 DEF Shown
  <2>9. PeriodIsLeast' /\ period' # 0
    BY <1>6, <2>1, <2>7, <2>8, Zenon DEF PeriodIsLeast, GoesOn
  <2>10. cycles' = n \div p
    <3>1. n = (n - 1) + 1
      BY <2>2
    <3>2. n \div p = IF n % p = 0 THEN (n - 1) \div p + 1 ELSE (n - 1) \div p
      BY <2>2, <3>1, QuotientSteps
    <3> QED
      BY <1>6, <2>2, <3>2 DEF GoesOn
  <2>11. Confirmation'
    <3>1. period' = p /\ reported' = n /\ broken' = broken
      BY <1>6, Zenon DEF GoesOn
    <3> QED
      BY <2>2, <2>4, <2>10, <3>1 DEF Confirmation
  <2>12. CycleTypes'
    <3>1. completed' \subseteq 1..MaxPhases
      BY <1>2, <1>6, <2>2, <2>4 DEF GoesOn
    <3>2. cycles' \in Nat
      BY <2>2, <2>10, QuotientBounds
    <3> QED
      BY <1>1, <1>2, <1>6, <3>1, <3>2 DEF CycleTypes, GoesOn
  <2> QED
    BY <2>9, <2>11, <2>12, Zenon DEF CycleInv
<1> QED
  BY <1>3, <1>4, <1>5, <1>6, ChangedEffect, Zenon

\* No phase, no cycle.
LEMMA CycleInvInit == CycleInit => CycleInv
<1> SUFFICES ASSUME CycleInit PROVE CycleInv
  OBVIOUS
<1>1. phases = <<>> /\ period = 0
  BY Zenon DEF CycleInit
<1>2. CycleTypes
  <2>1. <<>> \in Seq(PhaseNames) /\ Len(<<>>) = 0 /\ 0 <= MaxPhases
    BY CycleAssumption
  <2> QED
    BY <2>1 DEF CycleTypes, CycleInit
<1>3. Shown(phases) = {}
  BY <1>1 DEF Shown
<1> QED
  BY <1>1, <1>2, <1>3, Zenon DEF CycleInit, CycleInv, Unconfirmed

\* Nothing is lost or kept when a phase is ignored but the boundaries of the last call.
LEMMA IgnoredKeepsInv ==
  ASSUME CycleInv, completed' = {}, UNCHANGED <<phases, period, cycles, broken, reported>>
  PROVE  CycleInv'
BY Zenon DEF CycleInv, CycleTypes, Unconfirmed, Confirmation, PeriodIsLeast

\* An update keeps the invariant of the cycles.
LEMMA CycleInvUpdate ==
  ASSUME CycleInv, NEW phase \in PhaseNames \union {"UNKNOWN"}, cycleUpdate(phase)
  PROVE  CycleInv'
<1>1. CASE Ignored(phase)
  BY <1>1, IgnoredKeepsInv, Zenon DEF Ignored
<1>2. CASE Len(phases) < MaxPhases /\ Changed(phase)
  <2>1. phase \in PhaseNames
    BY <1>2, Zenon DEF Changed
  <2> QED
    BY <1>2, <2>1, ChangedKeepsInv
<1> QED
  BY <1>1, <1>2, Zenon DEF cycleUpdate

\* Every step keeps the invariant of the cycles.
LEMMA CycleInvStep == CycleInv /\ [CycleNext]_cycleVars => CycleInv'
<1> SUFFICES ASSUME CycleInv, [CycleNext]_cycleVars PROVE CycleInv'
  OBVIOUS
<1>1. CASE CycleNext
  BY <1>1, CycleInvUpdate, Zenon DEF CycleNext
<1>2. CASE UNCHANGED cycleVars
  BY <1>2, Zenon DEF cycleVars, CycleInv, CycleTypes, Unconfirmed, Confirmation, PeriodIsLeast
<1> QED
  BY <1>1, <1>2

\* The invariant implies the types.
LEMMA CycleInvTypes == CycleInv => CycleTypeOK
<1> SUFFICES ASSUME CycleInv PROVE CycleTypeOK
  OBVIOUS
<1>1. CycleTypes /\ MaxPhases \in Nat /\ Len(phases) \in Nat
  BY CycleAssumption DEF CycleInv, CycleTypes
<1>2. CASE period = 0
  BY <1>1, <1>2 DEF CycleInv, Unconfirmed, CycleTypes, CycleTypeOK
<1>3. CASE period # 0
  <2>1. Confirmation /\ PeriodIsLeast
    BY <1>3, Zenon DEF CycleInv
  <2>2. cycles <= reported
    <3>1. period \in Nat \ {0} /\ reported \in Nat /\ cycles \in Nat /\ 2 <= period
      BY <1>1, <1>3, <2>1 DEF CycleTypes, Confirmation
    <3>2. period * cycles <= reported
      BY <2>1, <3>1, QuotientBounds DEF Confirmation
    <3>3. cycles * 1 <= cycles * period
      BY <3>1, ProductsGrow
    <3> QED
      BY <3>1, <3>2, <3>3
  <2>3. period <= MaxPhases
    BY <1>1, <2>1 DEF Confirmation, CycleTypes
  <2> QED
    BY <1>1, <2>1, <2>2, <2>3 DEF CycleTypeOK, CycleTypes, Confirmation
<1> QED
  BY <1>2, <1>3

\* The invariant implies the cycle count.
LEMMA CycleInvCounts == CycleInv => CountsTheRepetitions
<1> SUFFICES ASSUME CycleInv, ~broken
             PROVE  IF Shown(phases) = {} THEN period = 0 /\ cycles = 0
                    ELSE /\ period \in Shown(phases) /\ \A p \in Shown(phases) : period <= p
                         /\ cycles = (Len(phases) - 1) \div period
  BY Zenon DEF CountsTheRepetitions
<1>1. CASE period = 0
  BY <1>1, Zenon DEF CycleInv, Unconfirmed
<1>2. CASE period # 0
  <2>1. period \in Shown(phases) /\ \A p \in Shown(phases) : period <= p
    BY <1>2, Zenon DEF CycleInv, PeriodIsLeast
  <2>2. cycles = (Len(phases) - 1) \div period
    BY <1>2, Zenon DEF CycleInv, Confirmation
  <2> QED
    BY <2>1, <2>2, Zenon
<1> QED
  BY <1>1, <1>2

\* Counting step by step finds the smallest period a phase sequence shows twice in
\* full, and one cycle per repetition, for any phases and sequences of any length
\* (CycleTracker.update, _confirmed_period).
THEOREM CountsAreRepetitions == CycleSpec => []CountsTheRepetitions
<1>1. CycleInit => CycleInv
  BY CycleInvInit
<1>2. CycleInv /\ [CycleNext]_cycleVars => CycleInv'
  BY CycleInvStep
<1>3. CycleInv => CountsTheRepetitions
  BY CycleInvCounts
<1> QED
  BY <1>1, <1>2, <1>3, PTL DEF CycleSpec

\* What BoundariesReportedOnce says of one step.
Boundaries ==
  /\ cycles' = cycles + Cardinality(completed')
  /\ completed' # {} =>
       ~broken' /\ completed' = {i \in 1..(Len(phases') - 1) :
                                   i % period' = 0 /\ i \div period' > cycles}
  /\ broken => cycles' = cycles /\ phases' = phases

\* A step that completes no cycle.
LEMMA NoBoundary ==
  ASSUME CycleInv, completed' = {}, cycles' = cycles, broken => phases' = phases
  PROVE  Boundaries
<1>1. cycles \in Nat /\ Cardinality({}) = 0
  BY FS_EmptySet, Zenon DEF CycleInv, CycleTypes
<1>2. cycles' = cycles + Cardinality(completed')
  BY <1>1
<1> QED
  BY <1>2, Zenon DEF Boundaries

\* Confirming a period completes its two cycles at their boundaries.
LEMMA ConfirmsBoundaries ==
  ASSUME CycleInv, ~broken, NEW phase \in PhaseNames, phases' = Append(phases, phase), Confirms
  PROVE  Boundaries
<1> DEFINE p == period'
<1>1. p \in Nat /\ 2 <= p /\ Len(phases) = 2 * p
  BY Zenon DEF Confirms
<1>2. completed' = {p, 2 * p} /\ cycles' = 2 /\ broken' = FALSE
  BY Zenon DEF Confirms
<1>3. cycles = 0 /\ Len(phases') - 1 = 2 * p
  <2>1. cycles = 0 /\ phases \in Seq(PhaseNames)
    BY Zenon DEF CycleInv, CycleTypes, Unconfirmed, Confirms
  <2>2. Len(phases') = Len(phases) + 1
    BY <2>1
  <2> QED
    BY <1>1, <2>1, <2>2
<1> HIDE DEF p
<1>4. /\ {i \in (0 + 1)..(2 * p) : i % p = 0} = {p, 2 * p}
      /\ Cardinality({i \in (0 + 1)..(2 * p) : i % p = 0}) = 2
  BY <1>1, FirstBoundaries, Zenon
<1>5. cycles' = cycles + Cardinality(completed')
  <2>1. Cardinality(completed') = 2
    BY <1>2, <1>4, Zenon
  <2> QED
    BY <1>2, <1>3, <2>1
<1>6. ASSUME NEW i \in 1..(2 * p), i % p = 0 PROVE i \div p > 0
  <2>1. i = p * (i \div p) + (i % p) /\ i \div p \in Nat
    BY <1>1, QuotientBounds
  <2> QED
    BY <1>1, <1>6, <2>1
<1>7. {p, 2 * p} = {i \in 1..(2 * p) : i % p = 0 /\ i \div p > 0}
  <2>1. (0 + 1)..(2 * p) = 1..(2 * p)
    OBVIOUS
  <2> QED
    BY <1>4, <1>6, <2>1, Zenon
<1> QED
  BY <1>2, <1>3, <1>5, <1>7, Zenon DEF Boundaries, p

\* Following a period completes a cycle at each of its multiples.
LEMMA FollowsBoundaries ==
  ASSUME CycleInv, ~broken, NEW phase \in PhaseNames, phases' = Append(phases, phase), GoesOn
  PROVE  Boundaries
<1> DEFINE n == Len(phases)
           p == period
<1>1. CASE n % p = 0 /\ completed' = {n} /\ cycles' = cycles + 1
  <2>1. period' = p /\ broken' = FALSE /\ ~broken
    BY DEF CycleInv, CycleTypes, GoesOn
  <2>2. /\ p \in Nat \ {0} /\ n \in Nat \ {0} /\ Len(phases') - 1 = n
        /\ cycles = (n - 1) \div p
    <3>1. /\ phases \in Seq(PhaseNames) /\ period \in Nat /\ reported \in Nat
          /\ period # 0 /\ Confirmation
      BY DEF CycleInv, CycleTypes, GoesOn
    <3>2. Len(phases) \in Nat /\ Len(phases') = Len(phases) + 1
      BY <3>1
    <3>3. /\ 2 <= period /\ 2 * period <= reported
          /\ reported = Len(phases) - 1 /\ cycles = reported \div period
      BY <3>1 DEF Confirmation
    <3>4. period > 0 /\ Len(phases) > 0 /\ Len(phases') - 1 = Len(phases)
      BY <3>1, <3>2, <3>3
    <3>5. cycles = (Len(phases) - 1) \div period
      BY <3>3, Zenon
    <3> QED
      BY <3>1, <3>2, <3>4, <3>5
  <2> HIDE DEF p, n
  <2>3. cycles' = cycles + Cardinality(completed')
    BY <1>1, FS_Singleton, Zenon
  <2>4. ASSUME NEW i \in 1..n PROVE i % p = 0 /\ i \div p > cycles <=> i = n
    <3>1. CASE i = n
      <4>1. n = (n - 1) + 1 /\ n - 1 \in Nat
        BY <2>2
      <4>2. n \div p = (n - 1) \div p + 1 /\ (n - 1) \div p \in Nat
        BY <1>1, <2>2, <4>1, QuotientSteps, QuotientBounds
      <4> QED
        BY <1>1, <2>2, <3>1, <4>2
    <3>2. CASE i # n
      <4>1. i \in Nat /\ n - 1 \in Nat /\ i <= n - 1
        BY <2>2, <3>2
      <4>2. i \div p <= cycles
        BY <2>2, <4>1, QuotientsGrow
      <4>3. i \div p \in Nat /\ (n - 1) \div p \in Nat
        BY <2>2, <4>1, QuotientBounds
      <4> QED
        BY <2>2, <3>2, <4>2, <4>3
    <3> QED
      BY <3>1, <3>2
  <2>5. n \in 1..n
    BY <2>2
  <2>6. {n} = {i \in 1..n : i % p = 0 /\ i \div p > cycles}
    BY <2>4, <2>5, Zenon
  <2> QED
    BY <1>1, <2>1, <2>2, <2>3, <2>6, Zenon DEF Boundaries
<1>2. CASE completed' = {} /\ cycles' = cycles
  BY <1>2, NoBoundary
<1> QED
  BY <1>1, <1>2, Zenon DEF GoesOn

\* Cycles complete at boundaries only.
LEMMA UpdateBoundaries ==
  ASSUME CycleInv, NEW phase \in PhaseNames \union {"UNKNOWN"}, cycleUpdate(phase)
  PROVE  Boundaries
<1>1. CASE Ignored(phase)
  BY <1>1, NoBoundary, Zenon DEF Ignored
<1>2. CASE Changed(phase)
  <2>1. phase \in PhaseNames
    BY <1>2, Zenon DEF Changed
  <2>2. ~broken /\ phases' = Append(phases, phase) /\ (Waits \/ Confirms \/ Breaks \/ GoesOn)
    BY <1>2, <2>1, ChangedEffect
  <2>3. CASE Waits \/ Breaks
    BY <2>2, <2>3, NoBoundary, Zenon DEF Waits, Breaks
  <2>4. CASE Confirms \/ GoesOn
    BY <2>1, <2>2, <2>4, ConfirmsBoundaries, FollowsBoundaries
  <2> QED
    BY <2>2, <2>3, <2>4
<1> QED
  BY <1>1, <1>2, Zenon DEF cycleUpdate

\* Each boundary is reported once and in order: the late confirmation skips none of
\* those already passed, and a broken pattern counts no more (CycleTracker.update).
THEOREM BoundariesAreReported == CycleSpec => BoundariesReportedOnce
<1>1. CycleInit => CycleInv
  BY CycleInvInit
<1>2. CycleInv /\ [CycleNext]_cycleVars => CycleInv'
  BY CycleInvStep
<1>3. CycleInv /\ [CycleNext]_cycleVars => [Boundaries]_cycleVars
  BY UpdateBoundaries, Zenon DEF CycleNext
<1>4. CycleSpec => [][Boundaries]_cycleVars
  BY <1>1, <1>2, <1>3, PTL DEF CycleSpec
<1> QED
  BY <1>4, PTL DEF BoundariesReportedOnce, Boundaries

-----------------------------------------------------------------------------
(* The distance of two grammars (grammar_distance).                        *)

\* What export can give of one target, and of all.
Distributions == UNION {[P -> Nat] : P \in SUBSET Settled}
Snapshots == UNION {[D -> Distributions] : D \in SUBSET Targets}

\* A snapshot of the grammar is one of the snapshots.
LEMMA SnapshotTypes == GrammarTypes => Snapshot \in Snapshots
<1> SUFFICES ASSUME GrammarTypes PROVE Snapshot \in Snapshots
  OBVIOUS
<1> DEFINE D == {u \in Targets : Total(counts[u]) > 0}
<1>1. ASSUME NEW u \in D PROVE export(counts[u]) \in Distributions
  <2> DEFINE c == counts[u]
             P == {ph \in Settled : c[ph] > 0}
  <2>1. c \in [Settled -> Nat] /\ Total(c) > 0
    BY Zenon DEF GrammarTypes
  <2>2. Total(c) \in Nat \ {0}
    BY <2>1 DEF Settled, Total
  <2> HIDE DEF c
  <2>3. ASSUME NEW ph \in P PROVE Rounded(c[ph], Total(c)) \in Nat
    <3>1. c[ph] \in Nat /\ 0 \in Nat
      BY <2>1
    <3> QED
      BY <2>2, <3>1, RoundedReadBack
  <2>4. export(c) \in [P -> Nat]
    BY <2>3 DEF export
  <2>5. P \in SUBSET Settled
    BY Zenon
  <2> QED
    BY <2>4, <2>5 DEF c, Distributions
<1>2. Snapshot \in [D -> Distributions]
  BY <1>1 DEF Snapshot
<1>3. D \in SUBSET Targets
  BY Zenon
<1> QED
  BY <1>2, <1>3 DEF Snapshots

\* The distance of fractions is a metric.
LEMMA DistanceTriangle ==
  ASSUME NEW x \in Nat, NEW y \in Nat, NEW z \in Nat
  PROVE  /\ Distance(x, y) \in Nat
         /\ Distance(x, z) <= Distance(x, y) + Distance(y, z)
BY DEF Distance

\* The fraction of a phase is a number.
LEMMA FractionTypes ==
  ASSUME NEW g \in Snapshots, NEW u \in DOMAIN g, NEW ph PROVE phase_fraction(g[u], ph) \in Nat
<1>1. PICK D \in SUBSET Targets : g \in [D -> Distributions]
  BY DEF Snapshots
<1>2. PICK P \in SUBSET Settled : g[u] \in [P -> Nat]
  BY <1>1 DEF Distributions
<1> QED
  BY <1>2 DEF phase_fraction

\* Over a target that stays, so is the distance of grammars.
LEMMA ChangeTriangle ==
  ASSUME NEW a \in Snapshots, NEW b \in Snapshots, NEW c \in Snapshots, NEW u,
         u \in DOMAIN a, u \in DOMAIN b, u \in DOMAIN c
  PROVE  /\ Change(a, b, u) \in Nat
         /\ Change(a, c, u) <= Change(a, b, u) + Change(b, c, u)
<1> DEFINE x(ph) == phase_fraction(a[u], ph)
           y(ph) == phase_fraction(b[u], ph)
           z(ph) == phase_fraction(c[u], ph)
<1>1. \A ph : x(ph) \in Nat /\ y(ph) \in Nat /\ z(ph) \in Nat
  BY FractionTypes, Zenon
<1>2. ASSUME NEW ph
      PROVE  /\ Distance(x(ph), y(ph)) \in Nat /\ Distance(y(ph), z(ph)) \in Nat
             /\ Distance(x(ph), z(ph)) \in Nat
             /\ Distance(x(ph), z(ph)) <= Distance(x(ph), y(ph)) + Distance(y(ph), z(ph))
  <2>1. x(ph) \in Nat /\ y(ph) \in Nat /\ z(ph) \in Nat
    BY <1>1, Zenon
  <2> HIDE DEF x, y, z
  <2> QED
    BY <2>1, DistanceTriangle
<1>3. /\ Change(a, b, u) = Distance(x("RISING"), y("RISING"))
           + Distance(x("FALLING"), y("FALLING")) + Distance(x("STABLE"), y("STABLE"))
      /\ Change(b, c, u) = Distance(y("RISING"), z("RISING"))
           + Distance(y("FALLING"), z("FALLING")) + Distance(y("STABLE"), z("STABLE"))
      /\ Change(a, c, u) = Distance(x("RISING"), z("RISING"))
           + Distance(x("FALLING"), z("FALLING")) + Distance(x("STABLE"), z("STABLE"))
  BY Zenon DEF Change
<1> HIDE DEF x, y, z
<1> QED
  BY <1>2, <1>3

\* Quiet changes in a row neither move a coherent set nor add up to more than their sum.
LEMMA QuietAddsUp ==
  ASSUME NEW a \in Snapshots, NEW b \in Snapshots, NEW c \in Snapshots, NEW n \in Nat,
         ~SetChanged(a, b), \A u \in DOMAIN b : Change(a, b, u) < n * Epsilon,
         Quiet(b, c)
  PROVE  /\ ~SetChanged(a, c)
         /\ \A u \in DOMAIN c : Change(a, c, u) < (n + 1) * Epsilon
<1>1. DOMAIN a = DOMAIN b /\ DOMAIN b = DOMAIN c
  BY Zenon DEF Quiet, SetChanged
<1>2. ~SetChanged(a, c)
  BY <1>1, Zenon DEF Quiet, SetChanged
<1>3. ASSUME NEW u \in DOMAIN c PROVE Change(a, c, u) < (n + 1) * Epsilon
  <2>1. /\ Change(a, c, u) <= Change(a, b, u) + Change(b, c, u)
        /\ Change(a, b, u) \in Nat /\ Change(b, c, u) \in Nat /\ Change(a, c, u) \in Nat
    BY <1>1, ChangeTriangle
  <2>2. Change(a, b, u) < n * Epsilon /\ Change(b, c, u) < Epsilon
    BY <1>1, Zenon DEF Quiet
  <2>3. (n + 1) * Epsilon = n * Epsilon + Epsilon /\ Epsilon \in Nat /\ n * Epsilon \in Nat
    BY StabilisationAssumption
  <2> QED
    BY <2>1, <2>2, <2>3
<1> QED
  BY <1>2, <1>3

-----------------------------------------------------------------------------
(* The record of the cycles (Stabilisation).                               *)

StabTypes ==
  /\ past \in Seq(Snapshots)
  /\ prev = IF past = <<>> THEN {} ELSE {past[Len(past)]}
  /\ streak \in Nat /\ (IF past = <<>> THEN streak = 0 ELSE streak < Len(past))
  /\ stable_at \in 0..Len(past)

\* The streak is the run of quiet cycles up to now, all of it ...
StreakIsQuiet == \A i \in (Len(past) - streak + 1)..Len(past) : Quiet(past[i - 1], past[i])

StreakIsWhole ==
  Len(past) - streak >= 2 => ~Quiet(past[Len(past) - streak - 1], past[Len(past) - streak])

\* ... and along it the grammar drifts by less than epsilon per cycle.
Drift ==
  \A n \in 1..streak :
    /\ ~SetChanged(past[Len(past) - n], past[Len(past)])
    /\ \A u \in DOMAIN past[Len(past)] :
         Change(past[Len(past) - n], past[Len(past)], u) < n * Epsilon

StabInv == StabTypes /\ StreakIsQuiet /\ StreakIsWhole /\ Drift /\ StableIsEarned

\* Where on_cycle leaves the record: one longer, and its streak one longer or over.
LEMMA OnCycleEffect ==
  ASSUME StabTypes, NEW now \in Snapshots, on_cycle(now)
  PROVE  /\ past' = Append(past, now) /\ past' \in Seq(Snapshots)
         /\ Len(past) \in Nat /\ Len(past') = Len(past) + 1
         /\ \A i \in 1..Len(past) : past'[i] = past[i]
         /\ past'[Len(past) + 1] = now
         /\ prev' = {past'[Len(past')]}
         /\ \/ past # <<>> /\ Quiet(past[Len(past)], now) /\ streak' = streak + 1
            \/ (past # <<>> => ~Quiet(past[Len(past)], now)) /\ streak' = 0
         /\ stable_at' = IF streak' >= K /\ stable_at = 0 THEN Len(past') ELSE stable_at
<1>1. past' = Append(past, now) /\ past \in Seq(Snapshots)
  BY Zenon DEF on_cycle, StabTypes
<1>2. /\ past' \in Seq(Snapshots) /\ Len(past) \in Nat /\ Len(past') = Len(past) + 1
      /\ past'[Len(past) + 1] = now
  BY <1>1
<1>3. \A i \in 1..Len(past) : past'[i] = past[i]
  BY <1>1
<1>4. prev' = {past'[Len(past')]}
  BY <1>2, Zenon DEF on_cycle, Remember
<1>5. streak' = IF \E old \in prev : Quiet(old, now) THEN streak + 1 ELSE 0
  BY Zenon DEF on_cycle, Run
<1>6. (\E old \in prev : Quiet(old, now)) <=> past # <<>> /\ Quiet(past[Len(past)], now)
  BY Zenon DEF StabTypes
<1>7. \/ past # <<>> /\ Quiet(past[Len(past)], now) /\ streak' = streak + 1
      \/ (past # <<>> => ~Quiet(past[Len(past)], now)) /\ streak' = 0
  BY <1>5, <1>6, Zenon
<1>8. stable_at' = IF streak' >= K /\ stable_at = 0 THEN Len(past') ELSE stable_at
  BY Zenon DEF on_cycle
<1> QED
  BY <1>1, <1>2, <1>3, <1>4, <1>7, <1>8, Zenon

\* A completed cycle keeps the types of the stabilisation.
LEMMA OnCycleTypes ==
  ASSUME StabTypes, NEW now \in Snapshots, on_cycle(now)
  PROVE  StabTypes' /\ past' # <<>>
<1>1. past' # <<>>
  BY OnCycleEffect
<1>2. streak' \in Nat /\ streak' < Len(past')
  <2>1. CASE past # <<>> /\ streak' = streak + 1
    BY <2>1, OnCycleEffect DEF StabTypes
  <2>2. CASE streak' = 0
    BY <2>2, OnCycleEffect
  <2> QED
    BY <2>1, <2>2, OnCycleEffect, Zenon
<1>3. stable_at' \in 0..Len(past')
  BY OnCycleEffect DEF StabTypes
<1>4. past' \in Seq(Snapshots) /\ prev' = {past'[Len(past')]}
  BY OnCycleEffect, Zenon
<1> QED
  BY <1>1, <1>2, <1>3, <1>4, Zenon DEF StabTypes

\* The streak grows by the quiet cycle, or the noise ends it.
LEMMA OnCycleStreak ==
  ASSUME StabInv, NEW now \in Snapshots, on_cycle(now)
  PROVE  StreakIsQuiet' /\ StreakIsWhole' /\ Drift'
<1> DEFINE L == Len(past)
<1>1. /\ StabTypes /\ L \in Nat /\ Len(past') = L + 1 /\ past'[L + 1] = now
      /\ past \in Seq(Snapshots)
  BY OnCycleEffect, Zenon DEF StabInv, StabTypes
<1>2. \A i \in 1..L : past'[i] = past[i]
  BY <1>1, OnCycleEffect, Zenon
<1>3. CASE past # <<>> /\ Quiet(past[L], now) /\ streak' = streak + 1
  <2>1. L >= 1 /\ streak \in Nat /\ streak < L /\ past[L] \in Snapshots
    BY <1>1, <1>3 DEF StabTypes
  <2>2. StreakIsQuiet'
    <3> SUFFICES ASSUME NEW i \in (Len(past') - streak' + 1)..Len(past')
                 PROVE  Quiet(past'[i - 1], past'[i])
      BY DEF StreakIsQuiet
    <3>1. CASE i = L + 1
      <4>1. past'[i - 1] = past[L] /\ past'[i] = now
        BY <1>1, <1>2, <2>1, <3>1
      <4> QED
        BY <1>3, <4>1
    <3>2. CASE i # L + 1
      <4>1. i \in (L - streak + 1)..L /\ i \in 1..L /\ i - 1 \in 1..L
        BY <1>1, <1>3, <2>1, <3>2
      <4>2. Quiet(past[i - 1], past[i])
        BY <4>1, Zenon DEF StabInv, StreakIsQuiet
      <4> QED
        BY <1>2, <4>1, <4>2
    <3> QED
      BY <3>1, <3>2
  <2>3. StreakIsWhole'
    <3> DEFINE m == L - streak
    <3>1. Len(past') - streak' = m /\ m \in 1..L /\ m <= L
      BY <1>1, <1>3, <2>1
    <3>2. m >= 2 => ~Quiet(past[m - 1], past[m])
      BY DEF StabInv, StreakIsWhole
    <3>3. m >= 2 => past'[m - 1] = past[m - 1] /\ past'[m] = past[m]
      BY <1>1, <1>2, <3>1
    <3> HIDE DEF m
    <3>4. m >= 2 => ~Quiet(past'[m - 1], past'[m])
      BY <3>2, <3>3
    <3> QED
      BY <3>1, <3>4 DEF StreakIsWhole
  <2>4. ASSUME NEW n \in 1..streak'
        PROVE  /\ ~SetChanged(past'[Len(past') - n], now)
               /\ \A u \in DOMAIN now : Change(past'[Len(past') - n], now, u) < n * Epsilon
    <3>1. CASE n = 1
      <4>1. past'[Len(past') - n] = past[L] /\ n * Epsilon = Epsilon
        BY <1>1, <1>2, <2>1, <3>1, StabilisationAssumption
      <4> QED
        BY <1>3, <4>1, Zenon DEF Quiet
    <3>2. CASE n # 1
      <4> DEFINE k == n - 1
                 a == past[L - k]
      <4>1. k \in 1..streak /\ L - k \in 1..L /\ n = k + 1 /\ k \in Nat
        BY <1>1, <1>3, <2>1, <3>2
      <4>2. past'[Len(past') - n] = a /\ a \in Snapshots
        BY <1>1, <1>2, <4>1
      <4>3. ~SetChanged(a, past[L]) /\ \A u \in DOMAIN past[L] : Change(a, past[L], u) < k * Epsilon
        BY <4>1, Zenon DEF StabInv, Drift
      <4> HIDE DEF a, k
      <4>4. ~SetChanged(a, now) /\ \A u \in DOMAIN now : Change(a, now, u) < (k + 1) * Epsilon
        BY <1>3, <2>1, <4>1, <4>2, <4>3, QuietAddsUp
      <4> QED
        BY <4>1, <4>2, <4>4
    <3> QED
      BY <3>1, <3>2
  <2>5. Drift'
    BY <1>1, <2>4 DEF Drift
  <2> QED
    BY <2>2, <2>3, <2>5
<1>4. CASE (past # <<>> => ~Quiet(past[L], now)) /\ streak' = 0
  <2>1. StreakIsQuiet'
    BY <1>1, <1>4 DEF StreakIsQuiet
  <2>2. StreakIsWhole'
    <3>1. L >= 1 => past # <<>> /\ past'[L] = past[L]
      BY <1>1, <1>2
    <3>2. L + 1 >= 2 => ~Quiet(past'[L], past'[L + 1])
      BY <1>1, <1>4, <3>1
    <3>3. Len(past') - streak' = L + 1 /\ Len(past') - streak' - 1 = L
      BY <1>1, <1>4
    <3> HIDE DEF L
    <3> QED
      BY <3>2, <3>3 DEF StreakIsWhole
  <2>3. Drift'
    BY <1>4 DEF Drift
  <2> QED
    BY <2>1, <2>2, <2>3
<1> QED
  BY <1>1, <1>3, <1>4, OnCycleEffect, Zenon

\* A cycle ends K quiet ones when the streak has come to K.
LEMMA StreakEndsARun ==
  ASSUME StabTypes', StreakIsQuiet', StreakIsWhole', past' # <<>>
  PROVE  LET L == Len(past')
         IN  K < L /\ (\A i \in (L - K + 1)..L : Quiet(past'[i - 1], past'[i])) <=> streak' >= K
<1> DEFINE L == Len(past')
           AllQuiet == \A i \in (L - K + 1)..L : Quiet(past'[i - 1], past'[i])
<1>1. /\ L \in Nat /\ L >= 1 /\ streak' \in Nat /\ streak' < L /\ K \in Nat \ {0}
  BY StabilisationAssumption DEF StabTypes
<1>2. CASE streak' >= K
  <2>1. ASSUME NEW i \in (L - K + 1)..L PROVE Quiet(past'[i - 1], past'[i])
    <3>1. i \in (L - streak' + 1)..L
      BY <1>1, <1>2
    <3> QED
      BY <3>1, Zenon DEF StreakIsQuiet
  <2>2. K < L
    BY <1>1, <1>2
  <2> QED
    BY <1>2, <2>1, <2>2, Zenon
<1>3. CASE ~(streak' >= K)
  <2> DEFINE m == L - streak'
  <2>1. SUFFICES ASSUME K < L, AllQuiet PROVE FALSE
    BY <1>3
  <2>2. m \in (L - K + 1)..L /\ m >= 2
    BY <1>1, <1>3, <2>1
  <2>3. Quiet(past'[m - 1], past'[m])
    BY <2>1, <2>2, Zenon
  <2> QED
    BY <2>2, <2>3, Zenon DEF StreakIsWhole
<1> QED
  BY <1>2, <1>3

\* A cycle that was judged keeps its run.
LEMMA OldRunsStay ==
  ASSUME StabTypes, NEW now \in Snapshots, on_cycle(now), NEW c \in 1..Len(past)
  PROVE  QuietRun(c, K)' <=> QuietRun(c, K)
<1>1. \A i \in 1..Len(past) : past'[i] = past[i]
  BY OnCycleEffect, Zenon
<1>2. Len(past) \in Nat /\ K \in Nat \ {0} /\ c \in Nat /\ c <= Len(past)
  BY StabilisationAssumption DEF StabTypes
<1>3. CASE K < c
  <2>1. ASSUME NEW i \in (c - K + 1)..c PROVE past'[i] = past[i] /\ past'[i - 1] = past[i - 1]
    <3>1. i \in 1..Len(past) /\ i - 1 \in 1..Len(past)
      BY <1>2, <1>3
    <3> QED
      BY <1>1, <3>1
  <2>2. ASSUME NEW i \in (c - K + 1)..c
        PROVE  Quiet(past'[i - 1], past'[i]) <=> Quiet(past[i - 1], past[i])
    BY <2>1
  <2> QED
    BY <2>2, Zenon DEF QuietRun
<1>4. CASE ~(K < c)
  BY <1>4, Zenon DEF QuietRun
<1> QED
  BY <1>3, <1>4

\* The first cycle that ends K quiet ones stays the answer, whatever comes after.
LEMMA OnCycleFirst ==
  ASSUME StabInv, NEW now \in Snapshots, on_cycle(now)
  PROVE  StableAfterKQuietCycles'
<1> DEFINE L == Len(past)
           ends == {c \in 1..L : QuietRun(c, K)}
<1>1. StabTypes /\ L \in Nat /\ Len(past') = L + 1
  BY OnCycleEffect, Zenon DEF StabInv
<1>n. PICK n : n = L + 1
  BY Zenon
<1> DEFINE next == {c \in 1..n : QuietRun(c, K)'}
<1>2. StabTypes' /\ past' # <<>> /\ StreakIsQuiet' /\ StreakIsWhole'
  BY <1>1, OnCycleTypes, OnCycleStreak
<1>3. QuietRun(n, K)' <=> streak' >= K
  <2>1. n = Len(past')
    BY <1>1, <1>n
  <2>2. (K < n /\ \A i \in (n - K + 1)..n : Quiet(past'[i - 1], past'[i])) <=> streak' >= K
    BY <1>2, <2>1, StreakEndsARun, Zenon
  <2> QED
    BY <2>2, Zenon DEF QuietRun
<1>4. \A c \in 1..L : QuietRun(c, K)' <=> QuietRun(c, K)
  BY <1>1, OldRunsStay
<1>5. IF ends = {} THEN stable_at = 0
      ELSE stable_at \in ends /\ \A c \in ends : stable_at <= c
  BY Zenon DEF StabInv, StableIsEarned, StableAfterKQuietCycles
<1>6. stable_at' = IF streak' >= K /\ stable_at = 0 THEN n ELSE stable_at
  BY <1>1, <1>n, OnCycleEffect
<1>7. 1..n = 1..L \union {n} /\ n \notin 1..L
  BY <1>1, <1>n
<1>8. next = ends \union {c \in {n} : streak' >= K}
  BY <1>3, <1>4, <1>7, Zenon
<1>9. IF next = {} THEN stable_at' = 0
      ELSE stable_at' \in next /\ \A c \in next : stable_at' <= c
  <2> HIDE DEF next
  <2>1. ends \subseteq 1..L
    BY Zenon
  <2> HIDE DEF ends
  <2>2. CASE ends = {}
    BY <1>1, <1>5, <1>6, <1>8, <1>n, <2>2
  <2>3. CASE ends # {}
    <3>1. stable_at \in 1..L
      BY <1>5, <2>1, <2>3, Zenon
    <3>2. stable_at # 0
      BY <1>1, <3>1
    <3>3. stable_at' = stable_at
      BY <1>6, <3>2, Zenon
    <3> QED
      BY <1>1, <1>5, <1>8, <1>n, <2>3, <3>1, <3>3
  <2> QED
    BY <2>2, <2>3
<1> QED
  BY <1>1, <1>9, <1>n DEF StableAfterKQuietCycles

\* What the K quiet cycles showed holds of the grammars at their two ends.
LEMMA OnCycleAgrees ==
  ASSUME StabInv, NEW now \in Snapshots, on_cycle(now)
  PROVE  StableGrammarsAgree'
<1> DEFINE L == Len(past)
<1>1. /\ StabTypes /\ L \in Nat /\ Len(past') = L + 1 /\ K \in Nat \ {0}
      /\ stable_at \in 0..L
  BY OnCycleEffect, StabilisationAssumption DEF StabInv, StabTypes
<1>2. \A i \in 1..L : past'[i] = past[i]
  BY OnCycleEffect, <1>1, Zenon
<1>3. stable_at' = IF streak' >= K /\ stable_at = 0 THEN L + 1 ELSE stable_at
  BY <1>1, OnCycleEffect, Zenon
<1>4. CASE stable_at' = stable_at
  <2>1. SUFFICES ASSUME stable_at # 0 PROVE StableGrammarsAgree'
    BY <1>4, Zenon DEF StableGrammarsAgree
  <2>2. /\ stable_at > K
        /\ ~SetChanged(past[stable_at - K], past[stable_at])
        /\ \A u \in DOMAIN past[stable_at] :
             Change(past[stable_at - K], past[stable_at], u) < K * Epsilon
    BY <2>1, Zenon DEF StabInv, StableIsEarned, StableGrammarsAgree
  <2>3. past'[stable_at] = past[stable_at] /\ past'[stable_at - K] = past[stable_at - K]
    BY <1>1, <1>2, <2>1, <2>2
  <2> QED
    BY <1>4, <2>2, <2>3 DEF StableGrammarsAgree
<1>5. CASE streak' >= K /\ stable_at' = L + 1
  <2>1. Drift' /\ StabTypes' /\ past' # <<>>
    BY <1>1, OnCycleTypes, OnCycleStreak
  <2>2. PICK n \in Nat : n = L + 1
    BY <1>1
  <2>3. Len(past') = n /\ stable_at' = n
    BY <1>1, <1>5, <2>2
  <2>4. K \in 1..streak' /\ n > K
    BY <1>1, <1>5, <2>1, <2>3 DEF StabTypes
  <2>5. /\ ~SetChanged(past'[n - K], past'[n])
        /\ \A u \in DOMAIN past'[n] : Change(past'[n - K], past'[n], u) < K * Epsilon
    BY <2>1, <2>3, <2>4, Zenon DEF Drift
  <2> QED
    BY <2>3, <2>4, <2>5, Zenon DEF StableGrammarsAgree
<1> QED
  BY <1>3, <1>4, <1>5, Zenon

\* A completed cycle keeps the invariant of the stabilisation.
LEMMA OnCycleKeepsInv ==
  ASSUME StabInv, NEW now \in Snapshots, on_cycle(now) PROVE StabInv'
<1>1. StabTypes
  BY Zenon DEF StabInv
<1> QED
  BY <1>1, OnCycleTypes, OnCycleStreak, OnCycleFirst, OnCycleAgrees, Zenon
  DEF StabInv, StableIsEarned

-----------------------------------------------------------------------------
(* The marks of the phases and the cycles still to judge (_track_cycle).   *)

\* A mark inside the learn window.
Marked == {{g} : g \in Snapshots}

\* What was judged, each cycle on the mark of its boundary.
JudgedAtTheirMarks ==
  /\ Len(past) <= cycles
  /\ \A c \in 1..Len(past) : marks[c * period + 1] = {past[c]}

\* What is still to judge: while the window is open, all the other cycles, in order.
DueAtTheirMarks ==
  /\ evaluating => due = <<>>
  /\ ~evaluating =>
       /\ \A i \in 1..Len(marks) : marks[i] \in Marked
       /\ Len(past) + Len(due) = cycles
       /\ \A i \in 1..Len(due) : due[i] = marks[(Len(past) + i) * period + 1]

MarksInv ==
  /\ marks \in Seq({{}} \union Marked) /\ Len(marks) = Len(phases)
  /\ due \in Seq(Marked)
  /\ JudgedAtTheirMarks /\ DueAtTheirMarks

LearnWindowInv == GrammarInv /\ CycleInv /\ StabInv /\ MarksInv

\* The boundary of a counted cycle is a position of the sequence.
LEMMA BoundariesAreMarked ==
  ASSUME CycleInv, NEW c \in 1..cycles
  PROVE  period # 0 /\ c * period + 1 \in 1..Len(phases)
<1>1. period # 0 /\ cycles \in Nat /\ Len(phases) \in Nat /\ reported \in Nat
  BY DEF CycleInv, CycleTypes, Unconfirmed
<1>2. period \in Nat \ {0} /\ cycles = reported \div period /\ reported < Len(phases)
  BY <1>1 DEF CycleInv, CycleTypes, Confirmation
<1>3. period * (reported \div period) <= reported
  BY <1>1, <1>2, QuotientBounds
<1>4. period * c <= period * cycles /\ c \in Nat
  BY <1>1, <1>2, ProductsGrow
<1>5. c * period = period * c /\ c * period \in Nat
  BY <1>2, <1>4
<1> QED
  BY <1>1, <1>2, <1>3, <1>4, <1>5

\* Some n positions, and the marks at them as Taken reads them: in ascending order.
Sortable(positions, n) ==
  /\ Cardinality(positions) = n
  /\ \E o \in [1..n -> positions] : \A i, j \in 1..n : i < j => o[i] < o[j]

TakenInOrder(S, positions, n) ==
  /\ Taken(positions) \in Seq(S) /\ Len(Taken(positions)) = n
  /\ Ascending(positions) \in [1..n -> positions]
  /\ \A i, j \in 1..n : i < j => Ascending(positions)[i] < Ascending(positions)[j]
  /\ \A i \in 1..n : Taken(positions)[i] = At(marks', Ascending(positions)[i])

\* The marks taken at n positions come in the order of the positions.
LEMMA TakenAscends ==
  ASSUME NEW S, NEW positions, NEW n \in Nat, Sortable(positions, n),
         \A x \in positions : At(marks', x) \in S
  PROVE  TakenInOrder(S, positions, n)
<1> DEFINE order == Ascending(positions)
           taken == Taken(positions)
<1>1. order = CHOOSE o \in [1..n -> positions] : \A i, j \in 1..n : i < j => o[i] < o[j]
  BY Zenon DEF Ascending, Sortable
<1>2. order \in [1..n -> positions] /\ \A i, j \in 1..n : i < j => order[i] < order[j]
  BY <1>1, Zenon DEF Sortable
<1>3. taken = [i \in 1..n |-> At(marks', order[i])]
  BY Zenon DEF Taken, Sortable
<1> HIDE DEF order, taken
<1>4. taken \in [1..n -> S] /\ \A i \in 1..n : taken[i] = At(marks', order[i])
  BY <1>2, <1>3
<1>5. taken \in Seq(S) /\ Len(taken) = n
  BY <1>4
<1> QED
  BY <1>2, <1>4, <1>5, Zenon DEF order, taken, TakenInOrder

\* In particular, of no boundary, of one, and of the first two.
LEMMA TakenNone ==
  ASSUME NEW S, NEW now, now = {} PROVE Taken(now) \in Seq(S) /\ Len(Taken(now)) = 0
<1>1. PICK n \in Nat : n = 0
  OBVIOUS
<1>2. Sortable(now, n)
  <2>1. Cardinality(now) = n
    BY <1>1, FS_EmptySet, Zenon
  <2>2. [i \in 1..n |-> 0] \in [1..n -> now] /\ \A i, j \in 1..n : FALSE
    BY <1>1
  <2> QED
    BY <2>1, <2>2, Zenon DEF Sortable
<1>3. TakenInOrder(S, now, n)
  BY <1>2, TakenAscends, Zenon
<1> QED
  BY <1>1, <1>3, Zenon DEF TakenInOrder

\* One position gives the one mark at it.
LEMMA TakenOne ==
  ASSUME NEW S, NEW a \in Nat, NEW now, now = {a}, At(marks', a) \in S
  PROVE  Taken(now) \in Seq(S) /\ Len(Taken(now)) = 1 /\ Taken(now)[1] = At(marks', a)
<1>1. PICK n \in Nat : n = 1
  OBVIOUS
<1>2. Sortable(now, n)
  <2>1. Cardinality(now) = n
    BY <1>1, FS_Singleton, Zenon
  <2>2. [i \in 1..n |-> a] \in [1..n -> now] /\ \A i, j \in 1..n : ~(i < j)
    BY <1>1
  <2> QED
    BY <2>1, <2>2, Zenon DEF Sortable
<1>3. TakenInOrder(S, now, n)
  BY <1>2, TakenAscends, Zenon
<1>4. n \in 1..n /\ Ascending(now)[n] = a
  <2>1. Ascending(now) \in [1..n -> now]
    BY <1>3, Zenon DEF TakenInOrder
  <2> QED
    BY <1>1, <2>1
<1> QED
  BY <1>1, <1>3, <1>4, Zenon DEF TakenInOrder

\* Two positions give their marks, the earlier first.
LEMMA TakenTwo ==
  ASSUME NEW S, NEW a \in Nat, NEW b \in Nat, a < b, NEW now, now = {a, b},
         Cardinality(now) = 2, At(marks', a) \in S, At(marks', b) \in S
  PROVE  /\ Taken(now) \in Seq(S) /\ Len(Taken(now)) = 2
         /\ Taken(now)[1] = At(marks', a) /\ Taken(now)[2] = At(marks', b)
<1>1. PICK n \in Nat : n = 2
  OBVIOUS
<1>2. Sortable(now, n)
  <2> DEFINE rising == [i \in 1..n |-> IF i = 1 THEN a ELSE b]
  <2>1. rising \in [1..n -> now] /\ \A i, j \in 1..n : i < j => rising[i] < rising[j]
    BY <1>1
  <2> HIDE DEF rising
  <2> QED
    BY <1>1, <2>1, Zenon DEF Sortable
<1>3. TakenInOrder(S, now, n)
  BY <1>2, TakenAscends, Zenon
<1>4. 1 \in 1..n /\ 2 \in 1..n /\ Ascending(now)[1] = a /\ Ascending(now)[2] = b
  <2>1. /\ Ascending(now) \in [1..n -> now]
        /\ \A i, j \in 1..n : i < j => Ascending(now)[i] < Ascending(now)[j]
    BY <1>3, Zenon DEF TakenInOrder
  <2> QED
    BY <1>1, <2>1
<1> QED
  BY <1>1, <1>3, <1>4, Zenon DEF TakenInOrder

\* A call that hears nothing new marks nothing, and leaves nothing to judge.
LEMMA TrackIgnored ==
  ASSUME MarksInv, NEW phase, track(phase), Ignored(phase)
  PROVE  MarksInv'
<1>1. /\ UNCHANGED <<phases, period, cycles, marks, past, evaluating>> /\ completed' = {}
      /\ due = <<>>
  BY Zenon DEF track, Ignored, grammarVars, stabVars
<1>2. due' = <<>> \/ due' = Taken(completed')
  BY Zenon DEF track
<1>3. due' \in Seq(Marked) /\ Len(due') = 0
  <2>1. CASE due' = <<>>
    BY <2>1
  <2>2. CASE due' = Taken(completed')
    <3>1. PICK now : now = completed'
      BY Zenon
    <3>2. due' = Taken(now) /\ now = {}
      BY <1>1, <2>2, <3>1, Zenon
    <3>3. Taken(now) \in Seq(Marked) /\ Len(Taken(now)) = 0
      BY <3>2, TakenNone, Zenon
    <3> QED
      BY <3>2, <3>3, Zenon
  <2> QED
    BY <1>2, <2>1, <2>2
<1>4. due' = <<>>
  BY <1>3
<1> QED
  BY <1>1, <1>4, Zenon DEF MarksInv, JudgedAtTheirMarks, DueAtTheirMarks

\* A changed phase is marked, and marks what was judged no differently.
LEMMA TrackMarks ==
  ASSUME GrammarTypes, CycleInv, MarksInv, NEW phase \in PhaseNames, track(phase), Changed(phase)
  PROVE  /\ due = <<>> /\ UNCHANGED <<past, evaluating>>
         /\ phases' = Append(phases, phase) /\ ~broken
         /\ marks' \in Seq({{}} \union Marked)
         /\ Len(marks') = Len(phases') /\ Len(marks') = Len(marks) + 1 /\ Len(marks) \in Nat
         /\ \A i \in 1..Len(marks) : marks'[i] = marks[i]
         /\ ~evaluating => \A i \in 1..Len(marks') : marks'[i] \in Marked
<1>1. /\ due = <<>> /\ UNCHANGED <<past, evaluating>>
      /\ phases' = Append(phases, phase) /\ ~broken
  BY ChangedEffect, Zenon DEF track, grammarVars, stabVars
<1>2. phases \in Seq(PhaseNames) /\ marks \in Seq({{}} \union Marked) /\ Len(marks) = Len(phases)
  BY Zenon DEF CycleInv, CycleTypes, MarksInv
<1>3. Len(phases') = Len(phases) + 1 /\ Len(phases) \in Nat /\ phases' # phases
  BY <1>1, <1>2
<1> DEFINE mark == IF evaluating THEN {} ELSE {Snapshot}
<1>4. marks' = Append(marks, mark)
  BY <1>3, Zenon DEF track
<1>5. mark \in {{}} \union Marked /\ (~evaluating => mark \in Marked)
  BY SnapshotTypes, Zenon DEF Marked
<1> HIDE DEF mark
<1>6. /\ marks' \in Seq({{}} \union Marked) /\ Len(marks') = Len(marks) + 1
      /\ \A i \in 1..Len(marks) : marks'[i] = marks[i]
      /\ marks'[Len(marks) + 1] = mark
  BY <1>2, <1>4, <1>5
<1>7. ASSUME ~evaluating, NEW i \in 1..Len(marks') PROVE marks'[i] \in Marked
  <2>1. CASE i = Len(marks) + 1
    BY <1>5, <1>6, <1>7, <2>1
  <2>2. CASE i # Len(marks) + 1
    <3>1. i \in 1..Len(marks)
      BY <1>2, <1>3, <1>6, <2>2
    <3>2. marks[i] \in Marked
      BY <1>7, <3>1, Zenon DEF MarksInv, DueAtTheirMarks
    <3> QED
      BY <1>6, <3>1, <3>2
  <2> QED
    BY <2>1, <2>2
<1> QED
  BY <1>1, <1>2, <1>3, <1>6, <1>7

\* What was judged stays judged on its marks.
LEMMA TrackKeepsJudged ==
  ASSUME GrammarTypes, CycleInv, StabTypes, MarksInv,
         NEW phase \in PhaseNames, track(phase), Changed(phase)
  PROVE  JudgedAtTheirMarks'
<1>1. /\ past' = past /\ \A i \in 1..Len(marks) : marks'[i] = marks[i]
      /\ Len(marks) = Len(phases)
  BY TrackMarks, Zenon DEF MarksInv
<1>2. /\ Len(past) <= cycles
      /\ \A c \in 1..Len(past) : marks[c * period + 1] = {past[c]}
  BY Zenon DEF MarksInv, JudgedAtTheirMarks
<1>3. period' = period \/ cycles = 0
  BY ChangedEffect, Zenon DEF Waits, Confirms, Breaks, GoesOn, CycleInv, Unconfirmed
<1>4. cycles' \in Nat /\ cycles \in Nat /\ cycles <= cycles'
  <2>1. cycles \in Nat
    BY Zenon DEF CycleInv, CycleTypes
  <2>2. cycles' = cycles \/ cycles' = cycles + 1 \/ (cycles' = 2 /\ cycles = 0)
    BY ChangedEffect, Zenon DEF Waits, Confirms, Breaks, GoesOn, CycleInv, Unconfirmed
  <2> QED
    BY <2>1, <2>2
<1>5. Len(past) \in Nat
  BY DEF StabTypes
<1>6. ASSUME NEW c \in 1..Len(past) PROVE marks'[c * period' + 1] = {past[c]}
  <2>1. c \in 1..cycles /\ period' = period
    BY <1>2, <1>3, <1>4, <1>5
  <2>2. c * period + 1 \in 1..Len(marks)
    BY <1>1, <2>1, BoundariesAreMarked
  <2> QED
    BY <1>1, <1>2, <2>1, <2>2
<1> QED
  BY <1>1, <1>2, <1>4, <1>5, <1>6 DEF JudgedAtTheirMarks

\* The cycles a changed phase completes are due, on the marks of their boundaries.
LEMMA TrackKeepsDue ==
  ASSUME GrammarTypes, CycleInv, CycleInv', StabTypes, MarksInv,
         NEW phase \in PhaseNames, track(phase), Changed(phase)
  PROVE  due' \in Seq(Marked) /\ DueAtTheirMarks'
<1>1. /\ due = <<>> /\ UNCHANGED <<past, evaluating>> /\ phases \in Seq(PhaseNames)
      /\ Len(marks') = Len(phases) + 1 /\ Len(phases) \in Nat
      /\ ~evaluating => \A i \in 1..Len(marks') : marks'[i] \in Marked
  BY TrackMarks, Zenon DEF MarksInv, CycleInv, CycleTypes
<1>2. CASE evaluating
  <2>1. due' = <<>> /\ evaluating'
    BY <1>1, <1>2, Zenon DEF track
  <2>2. <<>> \in Seq(Marked)
    OBVIOUS
  <2> QED
    BY <2>1, <2>2, Zenon DEF DueAtTheirMarks
<1>3. CASE ~evaluating
  <2>1. PICK now : now = completed'
    BY Zenon
  <2>2. due' = Taken(now)
    BY <1>3, <2>1, Zenon DEF track
  <2>3. ~evaluating' /\ \A i \in 1..Len(marks') : marks'[i] \in Marked
    BY <1>1, <1>3, Zenon
  <2>4. Len(past') = cycles /\ cycles \in Nat
    <3>1. Len(past) + Len(due) = cycles /\ Len(due) = 0 /\ Len(past) \in Nat
      BY <1>1, <1>3 DEF MarksInv, DueAtTheirMarks, StabTypes
    <3> QED
      BY <1>1, <3>1
  <2>5. ASSUME /\ due' \in Seq(Marked) /\ cycles + Len(due') = cycles'
               /\ \A i \in 1..Len(due') : due'[i] = marks'[(cycles + i) * period' + 1]
        PROVE  due' \in Seq(Marked) /\ DueAtTheirMarks'
    BY <2>3, <2>4, <2>5, Zenon DEF DueAtTheirMarks
  <2>6. CASE Waits \/ Breaks
    <3>1. now = {} /\ cycles' = cycles
      BY <2>1, <2>6, Zenon DEF Waits, Breaks
    <3>2. due' \in Seq(Marked) /\ Len(due') = 0
      BY <2>2, <3>1, TakenNone, Zenon
    <3> QED
      BY <2>4, <2>5, <3>1, <3>2
  <2>7. CASE Confirms
    <3>1. PICK p \in Nat : p = period'
      BY <2>7, Zenon DEF Confirms
    <3>2. /\ 2 <= p /\ Len(phases) = 2 * p /\ now = {p, 2 * p} /\ cycles' = 2
      BY <2>1, <2>7, <3>1, Zenon DEF Confirms
    <3>3. cycles = 0
      BY <2>7, Zenon DEF Confirms, CycleInv, Unconfirmed
    <3>4. Cardinality(now) = 2
      BY <3>2, FirstBoundaries, Zenon
    <3>5. PICK q \in Nat : q = 2 * p
      OBVIOUS
    <3>6. At(marks', p) \in Marked /\ At(marks', q) \in Marked
      BY <1>1, <2>3, <3>2, <3>5 DEF At
    <3>7. p < q /\ now = {p, q}
      BY <3>2, <3>5
    <3>8. /\ due' \in Seq(Marked) /\ Len(due') = 2
          /\ due'[1] = At(marks', p) /\ due'[2] = At(marks', q)
      <4>1. /\ Taken(now) \in Seq(Marked) /\ Len(Taken(now)) = 2
            /\ Taken(now)[1] = At(marks', p) /\ Taken(now)[2] = At(marks', q)
        BY <3>4, <3>6, <3>7, TakenTwo
      <4> QED
        BY <2>2, <4>1, Zenon
    <3>9. /\ (cycles + 1) * period' + 1 = p + 1 /\ (cycles + 2) * period' + 1 = q + 1
      BY <3>1, <3>3, <3>5
    <3>10. \A i \in 1..Len(due') : due'[i] = marks'[(cycles + i) * period' + 1]
      <4>1. SUFFICES ASSUME NEW i \in 1..2 PROVE due'[i] = marks'[(cycles + i) * period' + 1]
        BY <3>8
      <4>2. i = 1 \/ i = 2
        OBVIOUS
      <4> QED
        BY <3>8, <3>9, <4>2 DEF At
    <3> QED
      BY <2>5, <3>2, <3>3, <3>8, <3>10
  <2>8. CASE GoesOn
    <3> DEFINE n == Len(phases)
    <3>1. period' = period /\ period # 0 /\ period \in Nat \ {0}
      BY <2>8 DEF GoesOn, CycleInv, CycleTypes
    <3>2. CASE n % period # 0 /\ now = {} /\ cycles' = cycles
      <4>1. due' \in Seq(Marked) /\ Len(due') = 0
        BY <2>2, <3>2, TakenNone, Zenon
      <4> QED
        BY <2>4, <2>5, <3>2, <4>1
    <3>3. CASE n % period = 0 /\ now = {n} /\ cycles' = cycles + 1
      <4>1. cycles' = n \div period
        <5>1. cycles' = reported' \div period' /\ reported' = n
          BY <2>8, <3>1, Zenon DEF GoesOn, CycleInv, Confirmation
        <5> QED
          BY <3>1, <5>1
      <4>2. (cycles + 1) * period' + 1 = n + 1
        <5>1. n = period * (n \div period) + (n % period)
          BY <1>1, <3>1, QuotientBounds
        <5>2. period * (cycles + 1) = (cycles + 1) * period
          BY <2>4, <3>1
        <5> QED
          BY <1>1, <2>4, <3>1, <3>3, <4>1, <5>1, <5>2
      <4>3. PICK a \in Nat : a = n
        BY <1>1
      <4>4. At(marks', a) \in Marked
        BY <1>1, <2>3, <4>3 DEF At
      <4>5. due' \in Seq(Marked) /\ Len(due') = 1 /\ due'[1] = At(marks', a)
        BY <2>2, <3>3, <4>3, <4>4, TakenOne, Zenon
      <4>6. due'[1] = marks'[(cycles + 1) * period' + 1]
        BY <4>2, <4>3, <4>5 DEF At
      <4>7. \A i \in 1..Len(due') : due'[i] = marks'[(cycles + i) * period' + 1]
        <5>1. \A i \in 1..Len(due') : i = 1
          BY <4>5
        <5> QED
          BY <4>6, <5>1, Zenon
      <4> QED
        BY <2>5, <3>3, <4>5, <4>7
    <3> QED
      BY <2>1, <2>8, <3>2, <3>3, Zenon DEF GoesOn
  <2> QED
    BY <2>6, <2>7, <2>8, ChangedEffect, Zenon
<1> QED
  BY <1>2, <1>3

\* A tracked phase keeps what the marks stand for.
LEMMA TrackKeepsMarks ==
  ASSUME GrammarTypes, CycleInv, CycleInv', StabTypes, MarksInv,
         NEW phase \in PhaseNames \union {"UNKNOWN"}, track(phase)
  PROVE  MarksInv'
<1>1. CASE Ignored(phase)
  BY <1>1, TrackIgnored
<1>2. CASE Changed(phase)
  <2>1. phase \in PhaseNames
    BY <1>2, Zenon DEF Changed
  <2>2. marks' \in Seq({{}} \union Marked) /\ Len(marks') = Len(phases')
    BY <1>2, <2>1, TrackMarks, Zenon
  <2> QED
    BY <1>2, <2>1, <2>2, TrackKeepsJudged, TrackKeepsDue, Zenon DEF MarksInv
<1> QED
  BY <1>1, <1>2, Zenon DEF track, cycleUpdate

\* The first due cycle is judged on its mark, and the others move up.
LEMMA JudgeKeepsMarks ==
  ASSUME CycleInv, StabInv, MarksInv, evaluating \in BOOLEAN, judge_cycle
  PROVE  MarksInv' /\ StabInv' /\ ~evaluating
<1>1. /\ ~evaluating /\ due # <<>> /\ due \in Seq(Marked)
      /\ marks \in Seq({{}} \union Marked) /\ Len(marks) = Len(phases)
      /\ UNCHANGED <<phases, period, cycles, marks>> /\ due' = Tail(due)
  BY Zenon DEF judge_cycle, MarksInv, DueAtTheirMarks, cycleVars
<1>2. PICK now \in Head(due) : on_cycle(now)
  BY Zenon DEF judge_cycle
<1>3. Head(due) = due[1] /\ due[1] \in Marked /\ Len(due) \in Nat /\ Len(due) >= 1
  BY <1>1
<1>4. now \in Snapshots /\ Head(due) = {now}
  BY <1>2, <1>3, Zenon DEF Marked
<1>5. StabTypes /\ StabInv'
  BY <1>2, <1>4, OnCycleKeepsInv DEF StabInv
<1>6. /\ Len(past) \in Nat /\ Len(past') = Len(past) + 1 /\ past'[Len(past) + 1] = now
      /\ \A i \in 1..Len(past) : past'[i] = past[i]
  BY <1>2, <1>4, <1>5, OnCycleEffect, Zenon
<1>7. /\ Len(past) + Len(due) = cycles
      /\ \A i \in 1..Len(due) : due[i] = marks[(Len(past) + i) * period + 1]
      /\ \A c \in 1..Len(past) : marks[c * period + 1] = {past[c]}
      /\ \A i \in 1..Len(marks) : marks[i] \in Marked
  BY <1>1, Zenon DEF MarksInv, JudgedAtTheirMarks, DueAtTheirMarks
<1>8. /\ due' \in Seq(Marked) /\ Len(due') = Len(due) - 1
      /\ \A i \in 1..Len(due') : due'[i] = due[i + 1]
  BY <1>1
<1>9. JudgedAtTheirMarks'
  <2>1. Len(past') <= cycles'
    BY <1>1, <1>3, <1>6, <1>7
  <2>2. ASSUME NEW c \in 1..Len(past') PROVE marks[c * period + 1] = {past'[c]}
    <3>1. CASE c = Len(past) + 1
      <4>1. marks[(Len(past) + 1) * period + 1] = due[1]
        BY <1>3, <1>7
      <4> QED
        BY <1>3, <1>4, <1>6, <3>1, <4>1
    <3>2. CASE c # Len(past) + 1
      <4>1. c \in 1..Len(past)
        BY <1>6, <3>2
      <4> QED
        BY <1>6, <1>7, <4>1, Zenon
    <3> QED
      BY <3>1, <3>2
  <2> QED
    BY <1>1, <2>1, <2>2, Zenon DEF JudgedAtTheirMarks
<1>10. DueAtTheirMarks'
  <2>1. CASE evaluating'
    <3>1. Len(due) = 1
      BY <2>1, Zenon DEF judge_cycle
    <3>2. due' = <<>>
      BY <1>8, <3>1
    <3> QED
      BY <2>1, <3>2, Zenon DEF DueAtTheirMarks
  <2>2. CASE ~evaluating'
    <3>1. Len(past') + Len(due') = cycles'
      BY <1>1, <1>3, <1>6, <1>7, <1>8
    <3>2. ASSUME NEW i \in 1..Len(due')
          PROVE  due'[i] = marks'[(Len(past') + i) * period' + 1]
      <4>1. i + 1 \in 1..Len(due) /\ Len(past) + (i + 1) = Len(past') + i
        BY <1>3, <1>6, <1>8
      <4>2. due[i + 1] = marks[(Len(past) + (i + 1)) * period + 1]
        BY <1>7, <4>1, Zenon
      <4> QED
        BY <1>1, <1>8, <4>1, <4>2
    <3> QED
      BY <1>1, <1>7, <2>2, <3>1, <3>2, Zenon DEF DueAtTheirMarks
  <2> QED
    BY <2>1, <2>2
<1> QED
  BY <1>1, <1>5, <1>8, <1>9, <1>10, Zenon DEF MarksInv

-----------------------------------------------------------------------------
(* The window as a whole.                                                  *)

\* A window starts with the invariant.
LEMMA LearnWindowInit_Inv == LearnWindowInit => LearnWindowInv
<1> SUFFICES ASSUME LearnWindowInit PROVE LearnWindowInv
  OBVIOUS
<1>1. /\ prev = {} /\ streak = 0 /\ stable_at = 0 /\ past = <<>> /\ marks = <<>> /\ due = <<>>
      /\ phases = <<>> /\ cycles = 0 /\ evaluating = FALSE
  BY Zenon DEF LearnWindowInit, StabInit, CycleInit, GrammarInit
<1>2. GrammarInv /\ CycleInv
  BY GrammarInvInit, CycleInvInit, Zenon DEF LearnWindowInit
<1>3. StabTypes
  BY <1>1 DEF StabTypes
<1>4. StreakIsQuiet /\ StreakIsWhole /\ Drift
  BY <1>1 DEF StreakIsQuiet, StreakIsWhole, Drift
<1>5. StableIsEarned
  BY <1>1 DEF StableIsEarned, StableAfterKQuietCycles, StableGrammarsAgree
<1>6. MarksInv
  <2>1. /\ <<>> \in Seq({{}} \union Marked) /\ <<>> \in Seq(Marked)
        /\ Len(<<>>) = 0 /\ 0 <= 0 /\ 0 + 0 = 0 /\ \A i \in 1..0 : FALSE
    OBVIOUS
  <2> QED
    BY <1>1, <2>1, Zenon DEF MarksInv, JudgedAtTheirMarks, DueAtTheirMarks
<1> QED
  BY <1>2, <1>3, <1>4, <1>5, <1>6, Zenon DEF LearnWindowInv, StabInv

\* A step of the window is a step of the learner, or none: the end of the window that
\* the last quiet cycle brings is the freeze the deadline brings.
LEMMA WindowStepsGrammar ==
  ASSUME LearnWindowInv, [LearnWindowNext]_windowVars PROVE [GrammarNext]_grammarVars
<1>1. ASSUME NEW phase, track(phase) PROVE UNCHANGED grammarVars
  BY <1>1, Zenon DEF track
<1>2. CASE judge_cycle
  <2>1. ~evaluating /\ UNCHANGED <<counts, judged>> /\ evaluating \in BOOLEAN
    BY <1>2, Zenon DEF judge_cycle, LearnWindowInv, MarksInv, DueAtTheirMarks, GrammarInv,
                       GrammarTypes
  <2>2. evaluating' = TRUE \/ evaluating' = FALSE
    BY <1>2, Zenon DEF judge_cycle
  <2>3. Freeze \/ UNCHANGED grammarVars
    BY <2>1, <2>2, Zenon DEF Freeze, grammarVars
  <2> QED
    BY <2>3, Zenon DEF GrammarNext
<1>3. CASE Learned
  BY <1>3, Zenon DEF Learned, GrammarNext
<1>4. CASE Deadline
  BY <1>4, Zenon DEF Deadline, GrammarNext
<1>5. CASE UNCHANGED windowVars
  BY <1>5, Zenon DEF windowVars
<1> QED
  BY <1>1, <1>2, <1>3, <1>4, <1>5, Zenon DEF LearnWindowNext

\* And one of the cycle tracker, or none.
LEMMA WindowStepsCycle ==
  ASSUME [LearnWindowNext]_windowVars PROVE [CycleNext]_cycleVars
<1>1. ASSUME NEW phase \in PhaseNames \union {"UNKNOWN"}, track(phase) PROVE CycleNext
  BY <1>1, Zenon DEF track, CycleNext
<1>2. ASSUME judge_cycle \/ Learned \/ Deadline \/ UNCHANGED windowVars
      PROVE  UNCHANGED cycleVars
  BY <1>2, Zenon DEF judge_cycle, Learned, Deadline, windowVars
<1> QED
  BY <1>1, <1>2, Zenon DEF LearnWindowNext

\* A step that judges no cycle leaves the record alone.
LEMMA RecordKept ==
  ASSUME StabInv, UNCHANGED stabVars PROVE StabInv'
BY Zenon DEF StabInv, stabVars, StabTypes, StreakIsQuiet, StreakIsWhole, Drift, StableIsEarned,
             StableAfterKQuietCycles, StableGrammarsAgree, QuietRun

\* Writes, and the end of a window with nothing left to judge, leave what was judged and
\* what is due.
LEMMA WritesLeaveTheWindow ==
  ASSUME LearnWindowInv, UNCHANGED <<stabVars, cycleVars, marks, due>>,
         evaluating' = evaluating \/ (due = <<>> /\ evaluating')
  PROVE  StabInv' /\ MarksInv'
<1>1. StabInv /\ MarksInv
  BY Zenon DEF LearnWindowInv
<1>2. StabInv'
  BY <1>1, RecordKept, Zenon
<1>3. UNCHANGED <<phases, period, cycles, marks, due, past>>
  BY Zenon DEF stabVars, cycleVars
<1>4. JudgedAtTheirMarks'
  BY <1>1, <1>3, Zenon DEF MarksInv, JudgedAtTheirMarks
<1>5. DueAtTheirMarks'
  <2>1. CASE evaluating' = evaluating
    BY <1>1, <1>3, <2>1, Zenon DEF MarksInv, DueAtTheirMarks
  <2>2. CASE due = <<>> /\ evaluating'
    BY <1>3, <2>2, Zenon DEF DueAtTheirMarks
  <2> QED
    BY <2>1, <2>2
<1>6. MarksInv'
  BY <1>1, <1>3, <1>4, <1>5, Zenon DEF MarksInv
<1> QED
  BY <1>2, <1>6

\* Every step of a window keeps the invariant.
LEMMA LearnWindowStep ==
  ASSUME LearnWindowInv, [LearnWindowNext]_windowVars PROVE LearnWindowInv'
<1>1. GrammarInv' /\ CycleInv'
  BY WindowStepsGrammar, WindowStepsCycle, GrammarInvStep, CycleInvStep, Zenon
  DEF LearnWindowInv
<1>2. GrammarTypes /\ CycleInv /\ StabInv /\ StabTypes /\ MarksInv /\ evaluating \in BOOLEAN
  BY Zenon DEF LearnWindowInv, GrammarInv, StabInv, GrammarTypes
<1>3. ASSUME NEW phase \in PhaseNames \union {"UNKNOWN"}, track(phase)
      PROVE  StabInv' /\ MarksInv'
  <2>1. UNCHANGED stabVars
    BY <1>3, Zenon DEF track
  <2> QED
    BY <1>1, <1>2, <1>3, <2>1, RecordKept, TrackKeepsMarks
<1>4. ASSUME judge_cycle PROVE StabInv' /\ MarksInv'
  BY <1>2, <1>4, JudgeKeepsMarks
<1>5. ASSUME Learned \/ Deadline \/ UNCHANGED windowVars PROVE StabInv' /\ MarksInv'
  <2>1. UNCHANGED <<stabVars, cycleVars, marks, due>>
    BY <1>5, Zenon DEF Learned, Deadline, windowVars
  <2>2. evaluating' = evaluating \/ (due = <<>> /\ evaluating')
    <3>1. CASE Learned
      BY <3>1, Zenon DEF Learned, observe
    <3>2. CASE Deadline
      BY <3>2, Zenon DEF Deadline, Freeze
    <3>3. CASE UNCHANGED windowVars
      BY <3>3, Zenon DEF windowVars, grammarVars
    <3> QED
      BY <1>5, <3>1, <3>2, <3>3
  <2> QED
    BY <2>1, <2>2, WritesLeaveTheWindow
<1> QED
  BY <1>1, <1>3, <1>4, <1>5, Zenon DEF LearnWindowNext, LearnWindowInv

\* The invariant holds for the whole window.
LEMMA LearnWindowInvariant == LearnWindowSpec => []LearnWindowInv
<1>1. LearnWindowInit => LearnWindowInv
  BY LearnWindowInit_Inv
<1>2. LearnWindowInv /\ [LearnWindowNext]_windowVars => LearnWindowInv'
  BY LearnWindowStep
<1> QED
  BY <1>1, <1>2, PTL DEF LearnWindowSpec

\* What _track_cycle does to a silo is what CycleTracker and GrammarLearner do, each
\* on its own: the results about them hold of the window.
THEOREM WindowRunsItsParts == LearnWindowSpec => CycleSpec /\ GrammarSpec
<1>1. LearnWindowInit => CycleInit /\ GrammarInit
  BY Zenon DEF LearnWindowInit
<1>2. [LearnWindowNext]_windowVars => [CycleNext]_cycleVars
  BY WindowStepsCycle
<1>3. LearnWindowInv /\ [LearnWindowNext]_windowVars => [GrammarNext]_grammarVars
  BY WindowStepsGrammar
<1> QED
  BY <1>1, <1>2, <1>3, LearnWindowInvariant, PTL DEF LearnWindowSpec, CycleSpec, GrammarSpec

\* A mark is one snapshot or none, and no more cycles are due than were counted.
LEMMA LearnWindowIsTyped == LearnWindowInv => LearnWindowTypeOK
<1> SUFFICES ASSUME LearnWindowInv PROVE LearnWindowTypeOK
  OBVIOUS
<1>1. CycleTypeOK /\ GrammarTypeOK
  BY CycleInvTypes, GrammarInvTypes DEF LearnWindowInv
<1>2. StabTypes /\ MarksInv
  BY Zenon DEF LearnWindowInv, StabInv
<1>3. Cardinality(prev) <= 1
  <2>1. prev = {} \/ \E x : prev = {x}
    BY <1>2, Zenon DEF StabTypes
  <2>2. Cardinality(prev) = 0 \/ Cardinality(prev) = 1
    BY <2>1, FS_EmptySet, FS_Singleton, Zenon
  <2> QED
    BY <2>2
<1>4. streak \in Nat /\ streak <= Len(past) /\ stable_at \in 0..Len(past)
  BY <1>2 DEF StabTypes
<1>5. ASSUME NEW i \in 1..Len(marks) PROVE Cardinality(marks[i]) <= 1
  <2>1. marks[i] \in {{}} \union Marked
    BY <1>2 DEF MarksInv
  <2>2. Cardinality(marks[i]) = 0 \/ Cardinality(marks[i]) = 1
    BY <2>1, FS_EmptySet, FS_Singleton, Zenon DEF Marked
  <2> QED
    BY <2>2
<1>6. Len(due) <= cycles
  <2>1. Len(past) \in Nat /\ Len(due) \in Nat /\ cycles \in Nat
    BY <1>2 DEF StabTypes, MarksInv, LearnWindowInv, CycleInv, CycleTypes
  <2>2. due = <<>> \/ Len(past) + Len(due) = cycles
    BY <1>2, Zenon DEF MarksInv, DueAtTheirMarks
  <2> QED
    BY <2>1, <2>2
<1> QED
  BY <1>1, <1>2, <1>3, <1>4, <1>5, <1>6, Zenon DEF LearnWindowTypeOK, StabTypeOK, MarksInv

\* Every attribute of the learner, the cycle tracker and the record keeps its type, and
\* the window its bounds: a mark is one snapshot or none, and no more cycles are due
\* than were counted.
THEOREM LearnWindowTypesCorrect == LearnWindowSpec => []LearnWindowTypeOK
  BY LearnWindowIsTyped, LearnWindowInvariant, PTL

\* A silo is stable at the first cycle that ends K quiet ones, and over those K its
\* grammar kept its targets and coherent sets and drifted by less than K times epsilon,
\* for any K and epsilon and however long the window (Stabilisation.on_cycle).
THEOREM StableSilosAreStable == LearnWindowSpec => []StableIsEarned
<1>1. LearnWindowInv => StableIsEarned
  BY Zenon DEF LearnWindowInv, StabInv
<1> QED
  BY <1>1, LearnWindowInvariant, PTL

\* Each cycle is judged on the grammar of its boundary, none is skipped, judged twice or
\* out of order, however late its period was confirmed (_track_cycle).
THEOREM CyclesAreJudgedInPlace == LearnWindowSpec => []CyclesAreJudgedAtTheirBoundary
<1>1. LearnWindowInv => CyclesAreJudgedAtTheirBoundary
  BY Zenon DEF LearnWindowInv, MarksInv, JudgedAtTheirMarks, DueAtTheirMarks,
               CyclesAreJudgedAtTheirBoundary
<1> QED
  BY <1>1, LearnWindowInvariant, PTL

=============================================================================
