---------------------------- MODULE EditDistance ----------------------------
(***************************************************************************)
(* utils::LevenshteinDistance (src/kwctoolkit/utils/levenshtein.h): two    *)
(* columns of the table of distances between beginnings of two texts, the  *)
(* one being filled from the one before it.                                *)
(***************************************************************************)
EXTENDS Integers, Sequences, FiniteSets

Lesser(a, b) == IF a < b THEN a ELSE b

Replace(x, y) == IF x = y THEN 0 ELSE 1

(* col of the letter x, the i-th: prev_col[j] is the distance to the first  *)
(* j letters of t from what comes before x.                                 *)
Column(prev_col, x, i, t) ==
  LET col[j \in 0..Len(t)] ==
        IF j = 0 THEN i
        ELSE Lesser(prev_col[j] + 1,
                    Lesser(col[j - 1] + 1, prev_col[j - 1] + Replace(x, t[j])))
  IN col

LevenshteinDistance(s, t) ==
  LET prev_col[i \in 0..Len(s)] ==
        IF i = 0 THEN [j \in 0..Len(t) |-> j]
        ELSE Column(prev_col[i - 1], s[i], i, t)
  IN prev_col[Len(s)][Len(t)]

-----------------------------------------------------------------------------
(* The reference: some letters of s are put in the places of as many of t,  *)
(* in order; all others are deleted or inserted, and those that differ are  *)
(* replaced.  The distance is the least that this may cost.                 *)
Nth(places, k) ==
  CHOOSE p \in places : Cardinality({q \in places : q <= p}) = k
Cost(s, t, from, to) ==
  LET n == Cardinality(from)
  IN (Len(s) - n) + (Len(t) - n)
     + Cardinality({k \in 1..n : s[Nth(from, k)] # t[Nth(to, k)]})

Costs(s, t) ==
  {Cost(s, t, places[1], places[2]) :
     places \in {p \in (SUBSET (1..Len(s))) \X (SUBSET (1..Len(t))) :
                   Cardinality(p[1]) = Cardinality(p[2])}}

DistanceIsLeast(s, t) ==
  /\ LevenshteinDistance(s, t) \in Costs(s, t)
  /\ \A cost \in Costs(s, t) : LevenshteinDistance(s, t) <= cost
=============================================================================
