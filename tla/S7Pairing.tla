----------------------------- MODULE S7Pairing ------------------------------
(***************************************************************************)
(* otlab_core.extractors.s7: a Read Job carries the addresses, its         *)
(* Ack_Data the values, and only the pdu reference of the conversation     *)
(* relates the two.  The extractor remembers the items of each Job it saw  *)
(* (_pending) and aligns the values of the answer with them.               *)
(*                                                                         *)
(* The wire and the capture are external: clients pick references freely,  *)
(* servers fail items, and any frame may be missing from the capture.  A   *)
(* value is the record of what it really is, so that what the extractor    *)
(* calls it can be told from it.  Times are kept as ages.                  *)
(***************************************************************************)
EXTENDS Picks, Functions

CONSTANTS
  Keys,            \* pairs of a TCP conversation and a pdu reference (16 bits)
  Jobs,            \* item lists a client may ask for: sequences of addresses
  PendingMax, PendingTTL,
  NoValue          \* None

ASSUME S7Assumption ==
  /\ Jobs \subseteq Seq(UNION {Range(j) : j \in Jobs}) \ {<<>>}
  /\ \A k \in Keys, j \in Jobs : \A i \in DOMAIN j :
       NoValue # [conversation |-> k[1], address |-> j[i]]
  /\ PendingMax \in Nat \ {0} /\ PendingTTL \in Nat \ {0}

\* Bound: ages past it are not told apart.
AgeCap == 2 * PendingTTL + 1

VARIABLES
  pending,      \* OrderedDict (conversation, pduref) -> (items, ts), oldest first
  emitted,      \* what parse_line returned for the last frame: its items, or Nothing
  asked,        \* wire: the items of the Job in flight under a key, or <<>>
  emptyTokens,  \* wire: a failed item has an empty value token (else none at all)
  seen,         \* history: keys whose Job in flight was captured
  age,          \* history: its age
  newer         \* history: how many Read Jobs were captured since (capped)

s7wire == <<asked, emptyTokens, seen, age, newer>>
s7vars == <<pending, emitted, s7wire>>

\* No event; every event has an item.
Nothing == <<>>

S7Init ==
  /\ pending = <<>> /\ emitted = Nothing
  /\ asked = [k \in Keys |-> <<>>]
  /\ emptyTokens \in BOOLEAN
  /\ seen = {}
  /\ age = [k \in Keys |-> 0] /\ newer = [k \in Keys |-> 0]

-----------------------------------------------------------------------------
\* Slipped: a reference is taken for unique across conversations.
pending_key_ref(k) == k[2]

\* _conversation and pduref: the same for a Job and its answer.
pending_key(k) == k

Without(k) == Picked(pending, {i \in DOMAIN pending : pending[i].key # k})
Fresh(es)  == Picked(es, {i \in DOMAIN es : es[i].age <= PendingTTL})

\* Slipped: the limit is checked before the insertion.
Newest_late(es) == IF Len(es) > PendingMax + 1 THEN Tail(es) ELSE es

Newest(es) == IF Len(es) > PendingMax THEN Tail(es) ELSE es

_remember(k, items) ==
  pending' = Newest(Append(Fresh(Without(k)), [key |-> k, items |-> items, age |-> 0]))

Successes(codes, n) == Cardinality({i \in 1..n : codes[i]})

\* One return code per item (TRUE: success).  As many values as items align by
\* position; fewer align with the successes, and exactly with them.
_pair_response(items, codes, values) ==
  LET n == Len(items)
      m == Len(values)
  IN  IF Len(codes) # n \/ m > n \/ (m < n /\ Successes(codes, n) # m) THEN Nothing
      ELSE [i \in 1..n |->
              <<items[i], IF ~codes[i] THEN NoValue
                          ELSE values[IF m = n THEN i ELSE Successes(codes, i)]>>]

parse_ack(k, codes, values) ==
  LET at == {i \in DOMAIN pending : pending[i].key = pending_key(k)}
  IN  /\ IF at = {} THEN emitted' = Nothing
         ELSE \E i \in at : emitted' = _pair_response(pending[i].items, codes, values)
      /\ pending' = Without(pending_key(k))

-----------------------------------------------------------------------------
(* What really happens, and what of it is captured.                        *)

Read(k, address) == [conversation |-> k[1], address |-> address]

\* A server answers with one code per item, and the values of the items it read.
Truth(k, codes) ==
  [i \in DOMAIN codes |-> <<asked[k][i], IF codes[i] THEN Read(k, asked[k][i]) ELSE NoValue>>]

Values(k, codes) ==
  LET all == [i \in DOMAIN codes |-> Truth(k, codes)[i][2]]
  IN  IF emptyTokens THEN all ELSE Picked(all, {i \in DOMAIN all : all[i] # NoValue})

JobCaptured(k, items) ==
  /\ asked' = [asked EXCEPT ![k] = items]
  /\ _remember(pending_key(k), items)
  /\ seen' = seen \union {k}
  /\ age' = [age EXCEPT ![k] = 0]
  /\ newer' = [q \in Keys |-> IF q = k \/ q \notin seen THEN 0
                              ELSE IF newer[q] < PendingMax THEN newer[q] + 1 ELSE PendingMax]
  /\ emitted' = Nothing
  /\ UNCHANGED emptyTokens

JobMissed(k, items) ==
  /\ asked' = [asked EXCEPT ![k] = items]
  /\ seen' = seen \ {k}
  /\ emitted' = Nothing
  /\ age' = [age EXCEPT ![k] = 0] /\ newer' = [newer EXCEPT ![k] = 0]
  /\ UNCHANGED <<pending, emptyTokens>>

Answered(k) ==
  /\ asked[k] # <<>>
  /\ asked' = [asked EXCEPT ![k] = <<>>]
  /\ seen' = seen \ {k}
  /\ age' = [age EXCEPT ![k] = 0] /\ newer' = [newer EXCEPT ![k] = 0]
  /\ UNCHANGED emptyTokens

Ack(k, codes) ==
  /\ Answered(k)
  /\ Len(codes) = Len(asked[k])
  /\ parse_ack(k, codes, Values(k, codes))

\* The answer is lost, on the wire or by the capture.
AckMissed(k) == Answered(k) /\ emitted' = Nothing /\ UNCHANGED pending

Older(n, cap) == IF n < cap THEN n + 1 ELSE cap

S7Tick ==
  /\ pending' = [i \in DOMAIN pending |-> [pending[i] EXCEPT !.age = Older(@, AgeCap)]]
  /\ age' = [k \in Keys |-> IF k \in seen THEN Older(age[k], PendingTTL + 1) ELSE 0]
  /\ emitted' = Nothing
  /\ UNCHANGED <<asked, emptyTokens, seen, newer>>

S7Next ==
  \/ \E k \in Keys, items \in Jobs : JobCaptured(k, items) \/ JobMissed(k, items)
  \/ \E k \in Keys : \E codes \in [DOMAIN asked[k] -> BOOLEAN] : Ack(k, codes)
  \/ \E k \in Keys : AckMissed(k)
  \/ S7Tick

S7Spec == S7Init /\ [][S7Next]_s7vars

-----------------------------------------------------------------------------
\* The map of Jobs in flight: never more than its limit, one entry per key.
S7TypeOK ==
  /\ \A i \in DOMAIN pending : pending[i].items \in Jobs /\ pending[i].age \in 0..AgeCap
  /\ Len(pending) <= PendingMax
  /\ IsInjective([i \in DOMAIN pending |-> pending[i].key])
  /\ asked \in [Keys -> Jobs \union {<<>>}]
  /\ seen \subseteq {k \in Keys : asked[k] # <<>>}

\* What a step may say of a Job, and may keep of the others.
TellsTheJob ==
  /\ \A k \in seen : \A codes \in [DOMAIN asked[k] -> BOOLEAN] :
       Ack(k, codes) =>
         /\ emitted' \in {Nothing, Truth(k, codes)}
         /\ age[k] <= PendingTTL /\ newer[k] < PendingMax => emitted' # Nothing
  /\ (\E k \in Keys, items \in Jobs : JobCaptured(k, items)) =>
       \A i \in DOMAIN pending' : pending'[i].age <= PendingTTL

\* An answer whose Job was captured gives each value to the address it was read at,
\* and None to exactly the items that failed, whatever a failed item does to the
\* values of the frame and whatever other conversations, lost frames or reused
\* references did before (_conversation, _remember, _pair_response).  Within the TTL
\* of its Job it is not dropped while fewer than _PENDING_MAX other Jobs were captured
\* since, and a Job whose answer was lost does not outlive the TTL beside later ones.
AnswersTellTheJob == [][TellsTheJob]_s7vars
=============================================================================
