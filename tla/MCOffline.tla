----------------------------- MODULE MCOffline ------------------------------
(* The parts around the search, one to a behaviour.                        *)
EXTENDS IndexFile, Vectorize, Days, Calibrate

VARIABLE part   \* "file" | "vector" | "days" | "thresholds"

\* Two index files of each kind; one differs in its counts, one in its scale.
Ivf(version, scale, k, blocks) ==
  [format |-> "IVF8", version |-> version, scale |-> scale, k |-> k, blocks |-> blocks]
Kd(scale, parts, nodes, blocks) ==
  [format |-> "SPCST001", version |-> 1, scale |-> scale, parts |-> parts, nodes |-> nodes, blocks |-> blocks]

MCIvfBuilds == {Ivf(5, 10000, 1, 2), Ivf(5, 32000, 2, 1), Ivf(4, 10000, 1, 2)}
MCKdBuilds == {Kd(10000, 1, 2, 1), Kd(32000, 2, 2, 1)}
MCPrograms ==
  {[how |-> h, format |-> "IVF8", version |-> 5, scale |-> 10000] : h \in {"read", "mmap"}}
  \cup {[how |-> "kd", format |-> "SPCST001", version |-> 1, scale |-> 10000]}

\* The documented payload: the objects and their members.
Objects == <<"id", "transaction", "customer", "merchant", "terminal", "last_transaction">>
Members ==
  [id |-> <<>>,
   transaction |-> <<"amount", "installments", "requested_at">>,
   customer |-> <<"avg_amount", "tx_count_24h", "known_merchants">>,
   merchant |-> <<"id", "mcc", "avg_amount">>,
   terminal |-> <<"is_online", "card_present", "km_from_home">>,
   last_transaction |-> <<"timestamp", "km_from_current">>]

Rearranged(s) ==
  {[i \in DOMAIN s |-> s[p[i]]] :
     p \in {q \in [DOMAIN s -> DOMAIN s] : \A i, j \in DOMAIN s : q[i] = q[j] => i = j}}

Key(k, owner, null) == [key |-> k, owner |-> owner, null |-> null]
Text(objects, members, null) ==
  FoldLeft(\o, <<>>,
    [i \in DOMAIN objects |->
       LET o == objects[i] IN
         <<Key(o, "", null /\ o = "last_transaction")>>
         \o (IF null /\ o = "last_transaction" THEN <<>>
             ELSE [j \in DOMAIN members[o] |-> Key(members[o][j], o, FALSE)])])

Without(s, i) == SubSeq(s, 1, i - 1) \o SubSeq(s, i + 1, Len(s))

\* Every order of the objects, whole, with a null last transaction or with one
\* key missing, and the documented order of the objects with their members in
\* any order.
MCBodies ==
  LET orders == Rearranged(Objects)
      members == {[o \in DOMAIN Members |->
                     CASE o = "transaction" -> t [] o = "customer" -> c [] o = "merchant" -> m
                       [] OTHER -> Members[o]] :
                    t \in Rearranged(Members.transaction), c \in Rearranged(Members.customer),
                    m \in Rearranged(Members.merchant)}
  IN  {Text(o, Members, null) : o \in orders, null \in BOOLEAN}
      \cup {Text(Objects, m, FALSE) : m \in members}
      \cup UNION {LET t == Text(o, Members, FALSE) IN {Without(t, i) : i \in DOMAIN t} : o \in orders}

NoBody == body = <<>> /\ at = <<>> /\ scan = "idle"
NoDay == first = 1 /\ date = [y |-> 1, m |-> 1, d |-> 1] /\ passed = 0

Init ==
  \/ part = "file" /\ FileInit /\ NoBody /\ NoDay /\ CalInit
  \/ part = "vector" /\ FileInit /\ VecInit /\ NoDay /\ CalInit
  \/ part = "days" /\ FileInit /\ NoBody /\ DayInit /\ CalInit
  \/ part = "thresholds" /\ FileInit /\ NoBody /\ NoDay /\ CalInit

Next ==
  /\ UNCHANGED part
  /\ \/ part = "file" /\ FileNext /\ UNCHANGED <<vecVars, dayVars, calVars>>
     \/ part = "vector" /\ VecNext /\ UNCHANGED <<fileVars, dayVars, calVars>>
     \/ part = "days" /\ NextDay /\ UNCHANGED <<fileVars, vecVars, calVars>>
     \/ part = "thresholds" /\ CalNext /\ UNCHANGED <<fileVars, vecVars, dayVars>>

Spec == Init /\ [][Next]_<<part, fileVars, vecVars, dayVars, calVars>>

=============================================================================
