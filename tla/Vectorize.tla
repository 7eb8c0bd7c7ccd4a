----------------------------- MODULE Vectorize ------------------------------
(***************************************************************************)
(* internal/vector/fast.go: VectorizeFast looks for one key after the      *)
(* other in the text of a payload, each from where an earlier search       *)
(* ended, and never parses the JSON around them.  A body is the sequence   *)
(* of its keys, each with the path of the member it belongs to.            *)
(***************************************************************************)
EXTENDS Integers, Sequences, FiniteSetsExt

CONSTANT Bodies

\* Mutant: the merchant's id is looked for from where the amounts ended.
AfterTooEarly == <<0, 1, 2, 3, 4, 5, 5, 7, 8, 5, 9, 11, 12, 13, 14, 15>>

\* Mutant: the known merchants are looked for from where the merchant ended.
AfterTooLate == <<0, 1, 2, 3, 4, 5, 6, 7, 8, 9, 9, 11, 12, 13, 14, 15>>

\* The keys in the order of the searches, with the member each one stands for ...
Keys ==
  <<"amount", "installments", "requested_at", "avg_amount", "tx_count_24h",
    "merchant", "id", "mcc", "avg_amount", "known_merchants",
    "is_online", "card_present", "km_from_home",
    "last_transaction", "timestamp", "km_from_current">>
Owners ==
  <<"transaction", "transaction", "transaction", "customer", "customer",
    "", "merchant", "merchant", "merchant", "customer",
    "terminal", "terminal", "terminal",
    "", "last_transaction", "last_transaction">>

\* ... and the search whose end each one starts from, 0 for the start of the body.
After == <<0, 1, 2, 3, 4, 5, 6, 7, 8, 5, 9, 11, 12, 13, 14, 15>>

Searches == 1 .. Len(Keys)
LastTx == 14

\* A payload as clients send it: members of the documented objects, each at
\* most once, and between an object's key and a member of it nothing but members
\* of it.
Documented ==
  {<<Keys[s], Owners[s]>> : s \in Searches}
  \cup {<<k, "">> : k \in {"id", "transaction", "customer", "terminal"}}
Payload(b) ==
  /\ b \in Seq([key : STRING, owner : STRING, null : BOOLEAN])
  /\ \A j \in DOMAIN b : <<b[j].key, b[j].owner>> \in Documented
  /\ \A i, j \in DOMAIN b : b[i].key = b[j].key /\ b[i].owner = b[j].owner => i = j
  /\ \A i, j \in DOMAIN b : b[i].owner = "" /\ b[j].owner = b[i].key =>
       i < j /\ \A k \in i + 1 .. j : b[k].owner = b[i].key

ASSUME VectorizeAssumption == \A b \in Bodies : Payload(b)

VARIABLES
  body,   \* keys [key, owner, null]
  at,     \* where the searches so far ended
  scan    \* "scan" | "ok" | "refused"

vecVars == <<body, at, scan>>

\* bytes.Index from the search's starting point.
Matches(s) ==
  LET from == IF After[s] = 0 THEN 1 ELSE at[After[s]] + 1
  IN  {j \in from .. Len(body) : body[j].key = Keys[s]}

\* The next key is found; a null last_transaction ends the scan early.
FindKey ==
  /\ scan = "scan"
  /\ LET s == Len(at) + 1
     IN  /\ Matches(s) # {}
         /\ at' = Append(at, Min(Matches(s)))
         /\ scan' = IF s = Len(Keys) \/ (s = LastTx /\ body[Min(Matches(s))].null) THEN "ok" ELSE "scan"
  /\ UNCHANGED body

\* It is not: the caller gets false.
KeyMissing ==
  /\ scan = "scan"
  /\ Matches(Len(at) + 1) = {}
  /\ scan' = "refused"
  /\ UNCHANGED <<body, at>>

VecInit == body \in Bodies /\ at = <<>> /\ scan = "scan"
VecNext == FindKey \/ KeyMissing
VecSpec == VecInit /\ [][VecNext]_vecVars

IsMember(j, s) == body[j].key = Keys[s] /\ body[j].owner = Owners[s]

\* A payload has every member it must have, ...
Complete ==
  \A s \in Searches :
    \/ \E j \in DOMAIN body : IsMember(j, s)
    \/ s > LastTx /\ \E j \in DOMAIN body : body[j].key = Keys[LastTx] /\ body[j].null

\* ... in the order of the documented examples: the searches as they meet it.
DocOrder == <<1, 2, 3, 4, 5, 10, 6, 7, 8, 9, 11, 12, 13, 14, 15, 16>>
InDocOrder ==
  \A s, t \in Searches : s < t =>
    \A i, j \in DOMAIN body : IsMember(i, DocOrder[s]) /\ IsMember(j, DocOrder[t]) => i < j

\* Whatever the order of the members and whichever is missing, the vector is
\* made of the right ones or not at all: a value of the same name in another
\* object is never taken for the one looked for.
FieldsRight ==
  scan = "ok" =>
    /\ Complete
    /\ \A s \in 1 .. Len(at) : IsMember(at[s], s)

\* A complete payload in the documented order is never refused.
DocOrderAccepted == scan = "refused" => ~(Complete /\ InDocOrder)

=============================================================================
