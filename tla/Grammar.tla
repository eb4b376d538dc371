------------------------------ MODULE Grammar -------------------------------
(***************************************************************************)
(* otlab_core.engine: GrammarLearner counts the writes of each target by   *)
(* the phase they were seen in; export turns the counts into fractions;    *)
(* evaluate judges a write against them.  Fractions and confidences are    *)
(* in thousandths and percent.                                             *)
(***************************************************************************)
EXTENDS Integers, FiniteSets

CONSTANTS
  Targets,
  Confidences,  \* values of tracker.confidence, in percent
  Batches,      \* how many times in a row the same write may be seen
  Bulk,         \* bound: less than twice this many writes per target
  MaxWrites     \* bound: and besides one Bulk of them, at most this many

ASSUME GrammarAssumption ==
  /\ IsFiniteSet(Targets) /\ Confidences \subseteq 0..100
  /\ Batches \subseteq Nat \ {0} /\ Bulk \in Nat \ {0} /\ MaxWrites \in Nat

LEARN_MIN_CONFIDENCE == 60
PHASE_MIN_CONFIDENCE == 60
BELONGS_MIN_FRACTION == 100
COHERENT_MIN         == 300

Settled == {"RISING", "FALLING", "STABLE"}

\* What the tracker says when a write is seen.
Contexts == [phase : Settled \union {"UNKNOWN"}, confidence : Confidences, transitioning : BOOLEAN]

VARIABLES
  counts,     \* per target and phase
  evaluating,
  judged      \* the last write judged: [target, ctx, verdict]

grammarVars == <<counts, evaluating, judged>>

-----------------------------------------------------------------------------
(* GrammarLearner.                                                         *)

Learnable(ctx) ==
  ~(ctx.transitioning \/ ctx.confidence < LEARN_MIN_CONFIDENCE \/ ctx.phase = "UNKNOWN")

Total(c) == c["RISING"] + c["FALLING"] + c["STABLE"]

\* round(c / total, 3).  A tie, possible only in totals that are multiples of 16, falls
\* to either side in floating point; here it goes up, and no count of a run is one.
Rounded(c, total) == (2000 * c + total) \div (2 * total)

\* export of one target's counts.  A target enters counts with its first write, a
\* phase with the first write seen in it.
export(c) ==
  [ph \in {p \in Settled : c[p] > 0} |-> Rounded(c[ph], Total(c))]

learned_coherent_phases(dist) == {ph \in DOMAIN dist : dist[ph] >= BELONGS_MIN_FRACTION}

-----------------------------------------------------------------------------
(* evaluate.                                                               *)

Verdicts == {"COHERENT", "UNUSUAL", "UNSEEN_TARGET", "INCOHERENT", "UNCERTAIN"}

phase_fraction(dist, phase) == IF phase \in DOMAIN dist THEN dist[phase] ELSE 0

\* Slipped: a pending reversal does not make the phase unsettled.
evaluate_pending(c, ctx) ==
  LET frac == phase_fraction(export(c), ctx.phase)
  IN  IF ctx.phase = "UNKNOWN" \/ ctx.confidence < PHASE_MIN_CONFIDENCE THEN "UNCERTAIN"
      ELSE IF Total(c) = 0 THEN "UNSEEN_TARGET"
      ELSE IF frac >= COHERENT_MIN THEN "COHERENT"
      ELSE IF frac > 0 THEN "UNUSUAL" ELSE "INCOHERENT"

\* The verdict, R006 (a target never learned) told apart from R008.
evaluate(c, ctx) ==
  LET frac == phase_fraction(export(c), ctx.phase)
  IN  CASE ctx.transitioning \/ ctx.phase = "UNKNOWN"
             \/ ctx.confidence < PHASE_MIN_CONFIDENCE -> "UNCERTAIN"
        [] OTHER -> IF Total(c) = 0 THEN "UNSEEN_TARGET"
                    ELSE IF frac >= COHERENT_MIN THEN "COHERENT"
                    ELSE IF frac > 0 THEN "UNUSUAL"
                    ELSE "INCOHERENT"

-----------------------------------------------------------------------------
Unlearned == [ph \in Settled |-> 0]
NoVerdict == {}

GrammarInit ==
  /\ counts = [t \in Targets |-> Unlearned]
  /\ evaluating = FALSE
  /\ judged = NoVerdict

\* n writes of t in the same context.
observe(t, ctx, n) ==
  /\ ~evaluating
  /\ Total(counts[t]) + n < 2 * Bulk
  /\ (Total(counts[t]) + n) % Bulk <= MaxWrites
  /\ counts' = IF Learnable(ctx)
               THEN [counts EXCEPT ![t][ctx.phase] = @ + n]
               ELSE counts
  /\ UNCHANGED <<evaluating, judged>>

Freeze == ~evaluating /\ evaluating' = TRUE /\ UNCHANGED <<counts, judged>>

Judge(t, ctx) ==
  /\ evaluating
  /\ judged' = {[target |-> t, ctx |-> ctx, verdict |-> evaluate(counts[t], ctx)]}
  /\ UNCHANGED <<counts, evaluating>>

GrammarNext ==
  \/ Freeze
  \/ \E t \in Targets, ctx \in Contexts :
       Judge(t, ctx) \/ \E n \in Batches : observe(t, ctx, n)

GrammarSpec == GrammarInit /\ [][GrammarNext]_grammarVars

-----------------------------------------------------------------------------
\* The types of the learner's counts and of a verdict.
GrammarTypeOK ==
  /\ counts \in [Targets -> [Settled -> 0..(Bulk + MaxWrites)]]
  /\ evaluating \in BOOLEAN
  /\ Cardinality(judged) <= 1
  /\ \A j \in judged : j.target \in Targets /\ j.ctx \in Contexts /\ j.verdict \in Verdicts

\* A verdict says what learning saw, up to the rounding of export: COHERENT needs
\* three writes in ten, UNUSUAL one in this phase, INCOHERENT in up to two thousand
\* writes that there was none, and a write is UNCERTAIN exactly when learning would
\* have skipped it.
VerdictTellsTheHistory ==
  \A j \in judged :
    LET c == counts[j.target]
    IN  /\ j.verdict = "UNCERTAIN" <=> ~Learnable(j.ctx)
        /\ j.verdict = "UNSEEN_TARGET" => Total(c) = 0
        /\ j.verdict = "COHERENT" => 2000 * c[j.ctx.phase] >= 599 * Total(c)
        /\ j.verdict = "UNUSUAL" =>
             c[j.ctx.phase] > 0 /\ 2000 * c[j.ctx.phase] < 601 * Total(c)
        /\ j.verdict = "INCOHERENT" => Total(c) > 0
        /\ j.verdict = "INCOHERENT" /\ Total(c) <= 2000 => c[j.ctx.phase] = 0

\* INCOHERENT is a write "never observed during learning for this target" in this
\* phase (evaluate; phase_fraction: "the target was seen but never in this phase").
IncoherentWasNeverSeen ==
  \A j \in judged : j.verdict = "INCOHERENT" => counts[j.target][j.ctx.phase] = 0
=============================================================================
