--------------------------- MODULE Stabilisation ----------------------------
(***************************************************************************)
(* liscere.learning.Stabilisation of one silo over the grammars of its     *)
(* GrammarLearner: at each completed cycle the grammar is compared with    *)
(* the one of the cycle before, and K quiet cycles in a row are stable.    *)
(***************************************************************************)
EXTENDS Grammar, Sequences

CONSTANTS K, Epsilon   \* --stable-cycles, --stable-epsilon in thousandths

ASSUME StabilisationAssumption == K \in Nat \ {0} /\ Epsilon \in Nat

VARIABLES
  prev,       \* {} before the first cycle, else the last snapshot alone
  streak,
  stable_at,  \* stable_at_cycle, 0 for None
  past        \* the snapshots so far (the grammars behind history)

stabVars == <<prev, streak, stable_at, past>>

\* learner.export() of what was learned so far.
Snapshot == [t \in {u \in Targets : Total(counts[u]) > 0} |-> export(counts[t])]

-----------------------------------------------------------------------------
(* grammar_distance of two snapshots, in thousandths.                      *)

Distance(x, y) == IF x < y THEN y - x ELSE x - y

Change(old, new, t) ==
  IF t \notin DOMAIN old THEN 1000
  ELSE Distance(phase_fraction(old[t], "RISING"), phase_fraction(new[t], "RISING"))
       + Distance(phase_fraction(old[t], "FALLING"), phase_fraction(new[t], "FALLING"))
       + Distance(phase_fraction(old[t], "STABLE"), phase_fraction(new[t], "STABLE"))

SetChanged(old, new) ==
  \/ DOMAIN old # DOMAIN new
  \/ \E t \in DOMAIN old \intersect DOMAIN new :
       learned_coherent_phases(old[t]) # learned_coherent_phases(new[t])

Quiet(old, new) ==
  /\ ~SetChanged(old, new)
  /\ 0 < Epsilon
  /\ \A t \in DOMAIN new : Change(old, new, t) < Epsilon

-----------------------------------------------------------------------------
StabInit == prev = {} /\ streak = 0 /\ stable_at = 0 /\ past = <<>>

\* Slipped: snapshots pile up.
RememberAll(now) == prev' = prev \union {now}

Remember(now) == prev' = {now}

\* Slipped: noise does not start the count again.
RunKept(now) == IF \E old \in prev : Quiet(old, now) THEN streak + 1 ELSE streak

\* The streak after one more cycle: the first has no reference.
Run(now) == IF \E old \in prev : Quiet(old, now) THEN streak + 1 ELSE 0

on_cycle(now) ==
  /\ Remember(now)
  /\ streak' = Run(now)
  /\ past' = Append(past, now)
  /\ stable_at' = IF streak' >= K /\ stable_at = 0 THEN Len(past') ELSE stable_at

-----------------------------------------------------------------------------
\* The types of the attributes of Stabilisation.
StabTypeOK ==
  /\ GrammarTypeOK
  /\ Cardinality(prev) <= 1
  /\ streak \in Nat /\ streak <= Len(past)
  /\ stable_at \in 0..Len(past)

\* The cycles up to c end a run of n quiet ones.
QuietRun(c, n) == n < c /\ \A i \in (c - n + 1)..c : Quiet(past[i - 1], past[i])

\* cycles_to_stable is the first cycle that ends K consecutive quiet ones, counted
\* from the whole history: the first snapshot has no reference, any noise starts
\* the count again, and later noise does not change the answer.
StableAfterKQuietCycles ==
  LET ends == {c \in 1..Len(past) : QuietRun(c, K)}
  IN  IF ends = {} THEN stable_at = 0
      ELSE stable_at \in ends /\ \A c \in ends : stable_at <= c

\* What K quiet cycles promise: over them no target appeared, no learned coherent
\* set moved, and no fraction drifted by more than K times epsilon.
StableGrammarsAgree ==
  stable_at # 0 =>
    /\ stable_at > K
    /\ LET first == past[stable_at - K]
           last  == past[stable_at]
       IN  /\ ~SetChanged(first, last)
           /\ \A t \in DOMAIN last : Change(first, last, t) < K * Epsilon

\* stable is earned by K quiet cycles and holds what they showed (on_cycle).
StableIsEarned == StableAfterKQuietCycles /\ StableGrammarsAgree
=============================================================================
