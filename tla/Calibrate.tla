----------------------------- MODULE Calibrate ------------------------------
(***************************************************************************)
(* cmd/calibrate: the class thresholds of the escalation gate, computed    *)
(* from the verdicts of the fast tier and of the full sweep, and the       *)
(* projection that counts the verdicts still wrong with the gate in place. *)
(***************************************************************************)
EXTENDS Integers, FiniteSets, FiniteSetsExt

CONSTANTS
  Worsts,        \* fifth distances of the fast tier
  MaxRecords     \* bound on the records of one calibration

ASSUME CalibrateAssumption == Worsts \subseteq Nat /\ MaxRecords \in Nat

Classes == 0 .. 5
AlwaysEscalated == {2, 3, 4}

approvedFromCount(c) == 10 * c < 6 * 5

\* The counts of the full sweep matter for their verdict only.
Records == [fastCount : Classes, fastWorst : Worsts, fullCount : {0, 5}, expectedApp : BOOLEAN]

FastWrong(r) == approvedFromCount(r.fastCount) # r.expectedApp
FullWrong(r) == approvedFromCount(r.fullCount) # r.expectedApp
Fixable(r) == FastWrong(r) /\ ~FullWrong(r)

FixableWorsts(rs, c) == {r.fastWorst : r \in {q \in rs : q.fastCount = c /\ Fixable(q)}}

\* Mutant: the gate would have to be reached, not passed.
ThresholdsAtWorst(rs) ==
  [c \in Classes |-> IF c \in AlwaysEscalated \/ FixableWorsts(rs, c) = {} THEN 0
                     ELSE Min(FixableWorsts(rs, c))]

\* computeThresholds
Thresholds(rs) ==
  [c \in Classes |-> IF c \in AlwaysEscalated \/ FixableWorsts(rs, c) = {} THEN 0
                     ELSE Min(FixableWorsts(rs, c)) - 1]

\* The gate, as main and FraudCountIVF apply it: 0 means that it is off.
Escalates(t, r) ==
  r.fastCount \in AlwaysEscalated \/ (t[r.fastCount] > 0 /\ r.fastWorst > t[r.fastCount])

VARIABLES
  records,
  thresholds,
  wrong        \* the records the projection counts as fp or fn

calVars == <<records, thresholds, wrong>>

Uncomputed == [c \in Classes |-> -1]

Replay ==
  /\ thresholds = Uncomputed /\ Cardinality(records) < MaxRecords
  /\ \E r \in Records : records' = records \cup {r}
  /\ UNCHANGED <<thresholds, wrong>>

ComputeThresholds ==
  /\ thresholds = Uncomputed
  /\ thresholds' = Thresholds(records)
  /\ UNCHANGED <<records, wrong>>

Project ==
  /\ thresholds # Uncomputed
  /\ wrong' = {r \in records : IF Escalates(thresholds, r) THEN FullWrong(r) ELSE FastWrong(r)}
  /\ UNCHANGED <<records, thresholds>>

CalInit == records = {} /\ thresholds = Uncomputed /\ wrong = {}
CalNext == Replay \/ ComputeThresholds \/ Project
CalSpec == CalInit /\ [][CalNext]_calVars

\* A class has no gate when an error the full sweep would put right lies within
\* a distance of 1: its threshold would be 0, which means that it is off.
Ungated(c) == \E r \in records : r.fastCount = c /\ Fixable(r) /\ r.fastWorst <= 1

\* With the gate in place no verdict of a gated class is wrong that the full
\* sweep would put right, and no larger threshold would do: the gate escalates
\* no more records than it has to.
GateCatches ==
  /\ \A r \in wrong : FullWrong(r) \/ Ungated(r.fastCount)
  /\ thresholds # Uncomputed =>
       \A c \in Classes : thresholds[c] > 0 =>
         \E r \in records : r.fastCount = c /\ Fixable(r) /\ ~Escalates([thresholds EXCEPT ![c] = @ + 1], r)

=============================================================================
