---------------------------- MODULE FuzzyDistance ----------------------------
(***************************************************************************)
(* RegexRouter.calculateFuzzyDistance: the two-row table that decides how  *)
(* many typos separate what was heard from a reflex.  The loops are        *)
(* modelled cell by cell, with the two arrays and their swap; the stale    *)
(* values the swap leaves in newCost are there.                            *)
(***************************************************************************)
EXTENDS Naturals, Sequences, FiniteSetsExt

CONSTANTS
    Alphabet,   \* the characters
    MaxLength   \* bound: the length of the strings

ASSUME FuzzyAssumption == MaxLength \in Nat

Strings == UNION {[1..n -> Alphabet] : n \in 0..MaxLength}

VARIABLES
    lhs, rhs,
    i, j,           \* the loop counters; j = 0 before a row is begun
    cost, newCost   \* IntArray(lhsLength + 1)

fvars == <<lhs, rhs, i, j, cost, newCost>>

FInit ==
    /\ lhs \in Strings /\ rhs \in Strings
    /\ i = 1 /\ j = 0
    /\ cost = [k \in 0..Len(lhs) |-> k]
    /\ newCost = [k \in 0..Len(lhs) |-> 0]

Finished == i > Len(rhs)

BeginRow ==
    /\ ~Finished /\ j = 0
    /\ newCost' = [newCost EXCEPT ![0] = i]
    /\ j' = 1
    /\ UNCHANGED <<lhs, rhs, i, cost>>

\* Mutant: the cell to the left is read from the old row.
CellFromOldRow ==
    /\ j \in 1..Len(lhs)
    /\ LET match == IF lhs[j] = rhs[i] THEN 0 ELSE 1
       IN  newCost' = [newCost EXCEPT ![j] =
                          Min({cost[j - 1] + match, cost[j] + 1, cost[j - 1] + 1})]
    /\ j' = j + 1
    /\ UNCHANGED <<lhs, rhs, i, cost>>

Cell ==
    /\ j \in 1..Len(lhs)
    /\ LET match == IF lhs[j] = rhs[i] THEN 0 ELSE 1
       IN  newCost' = [newCost EXCEPT ![j] =
                          Min({cost[j - 1] + match, cost[j] + 1, newCost[j - 1] + 1})]
    /\ j' = j + 1
    /\ UNCHANGED <<lhs, rhs, i, cost>>

EndRow ==
    /\ ~Finished /\ j = Len(lhs) + 1
    /\ cost' = newCost
    /\ newCost' = cost
    /\ i' = i + 1
    /\ j' = 0
    /\ UNCHANGED <<lhs, rhs>>

FNext == BeginRow \/ Cell \/ EndRow

FSpec == FInit /\ [][FNext]_fvars
-----------------------------------------------------------------------------
(* The reference: the least number of single-character edits.              *)

\* The strings one deletion, insertion or replacement away from s.
Edits(s) ==
    LET deleted(k)     == SubSeq(s, 1, k - 1) \o SubSeq(s, k + 1, Len(s))
        inserted(k, c) == SubSeq(s, 1, k) \o <<c>> \o SubSeq(s, k + 1, Len(s))
    IN  {deleted(k) : k \in 1..Len(s)}
          \union {inserted(k, c) : k \in 0..Len(s), c \in Alphabet}
          \union {[s EXCEPT ![k] = c] : k \in 1..Len(s), c \in Alphabet}

\* The strings within d edits of s.
Within(s, d) ==
    LET ball[n \in 0..d] ==
          IF n = 0 THEN {s} ELSE ball[n - 1] \union UNION {Edits(t) : t \in ball[n - 1]}
    IN  ball[d]

IsEditDistance(s, t, d) == t \in Within(s, d) /\ (d = 0 \/ t \notin Within(s, d - 1))

\* The table is right row by row: whenever a row is complete, its cell k is the
\* least number of typos between the first k characters of lhs and the
\* characters of rhs read so far, so the last cell, which is returned, is the
\* number the typo budget is compared with (RegexRouter.kt:34, 262).
RowsAreDistances ==
    j = 0 => \A k \in 0..Len(lhs) :
                IsEditDistance(SubSeq(lhs, 1, k), SubSeq(rhs, 1, i - 1), cost[k])
=============================================================================
