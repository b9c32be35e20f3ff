----------------------------- MODULE TableProofs -----------------------------
(* Facts about tables, sums, sorts and searches, on which the proofs about *)
(* what is computed from the transaction file rest.  The library states    *)
(* induction for an operator; here it is stated for a set of numbers and   *)
(* proved from the pigeonhole principle, so that what a fold computes can  *)
(* be proved for a table of any length.                                    *)
EXTENDS MoneyFlows, GraphSearch, FiniteSetTheorems, SequenceTheorems, TLAPS

-----------------------------------------------------------------------------
(* Induction.                                                              *)

\* Numbers that include 0 and each one's successor are all numbers: a number that is
\* missing would leave a finite set that its successors map into a smaller one.
LEMMA SetInduction ==
  ASSUME NEW S, 0 \in S, \A n \in Nat : n \in S => n + 1 \in S
  PROVE  Nat \subseteq S
<1> SUFFICES ASSUME NEW m \in Nat, m \notin S
             PROVE  FALSE
  OBVIOUS
<1> DEFINE T == S \cap (0 .. m)
           after == [n \in T |-> n + 1]
<1>1. after \in [T -> T \ {0}]
  OBVIOUS
<1>2. IsFiniteSet(T)
  <2>1. IsFiniteSet(0 .. m)
    BY FS_Interval
  <2>2. T \in SUBSET (0 .. m)
    OBVIOUS
  <2>3. QED
    BY <2>1, <2>2, FS_Subset
<1>3. 0 \in T
  OBVIOUS
<1> HIDE DEF T, after
<1>4. /\ IsFiniteSet(T \ {0}) /\ Cardinality(T) \in Nat
      /\ Cardinality(T \ {0}) = Cardinality(T) - 1
  BY <1>2, <1>3, FS_RemoveElement, FS_CardinalityType
<1>5. Cardinality(T \ {0}) < Cardinality(T)
  BY <1>4
<1>6. \E x, y \in T : x # y /\ after[x] = after[y]
  <2> DEFINE fewer == T \ {0}
  <2>1. /\ after \in [T -> fewer] /\ IsFiniteSet(fewer)
        /\ Cardinality(fewer) < Cardinality(T)
    BY <1>1, <1>4, <1>5
  <2> HIDE DEF fewer
  <2>2. QED
    BY <1>2, <2>1, FS_PigeonHole
<1>7. \A x \in T : x \in Nat /\ after[x] = x + 1
  BY DEF T, after
<1>8. QED
  BY <1>6, <1>7

-----------------------------------------------------------------------------
(* Sorted tables.                                                          *)

\* Who stands before each element, in a strict total order.
StrictOrder(S, before) ==
  /\ before \in [S -> SUBSET S]
  /\ \A x \in S : x \notin before[x]
  /\ \A x, y \in S : y \in before[x] => before[y] \subseteq before[x]
  /\ \A x, y \in S : x = y \/ x \in before[y] \/ y \in before[x]

\* At each place of the table is the element of that place.
Placed(S, before, table) ==
  /\ DOMAIN table = 1 .. Cardinality(S)
  /\ \A n \in 1 .. Cardinality(S) :
       (\E x \in S : Cardinality(before[x]) = n - 1) =>
         table[n] \in S /\ Cardinality(before[table[n]]) = n - 1

\* Elements of a finite set that each know who stands before them, in a strict total
\* order, have the places 0 to the last one, each place once.
LEMMA PlacesOfASet ==
  ASSUME NEW S, IsFiniteSet(S), NEW before, StrictOrder(S, before)
  PROVE  /\ Cardinality(S) \in Nat
         /\ \A x \in S : Cardinality(before[x]) \in 0 .. (Cardinality(S) - 1)
         /\ \A x, y \in S : x \in before[y] <=> Cardinality(before[x]) < Cardinality(before[y])
         /\ \A place \in 0 .. (Cardinality(S) - 1) :
              \E x \in S : Cardinality(before[x]) = place
<1> USE DEF StrictOrder
<1>1. Cardinality(S) \in Nat
  BY FS_CardinalityType
<1>2. ASSUME NEW x \in S
      PROVE  Cardinality(before[x]) \in 0 .. (Cardinality(S) - 1)
  <2>1. before[x] \in SUBSET S /\ before[x] # S
    OBVIOUS
  <2>2. /\ IsFiniteSet(before[x])
        /\ Cardinality(before[x]) <= Cardinality(S)
        /\ Cardinality(before[x]) # Cardinality(S)
    BY <2>1, FS_Subset
  <2>3. Cardinality(before[x]) \in Nat
    BY <2>2, FS_CardinalityType
  <2>4. QED
    BY <1>1, <2>2, <2>3
<1>3. ASSUME NEW x \in S, NEW y \in S, x \in before[y]
      PROVE  Cardinality(before[x]) < Cardinality(before[y])
  <2>1. before[x] \in SUBSET before[y] /\ before[x] # before[y]
    BY <1>3
  <2>2. IsFiniteSet(before[y])
    BY FS_Subset
  <2>3. /\ Cardinality(before[x]) <= Cardinality(before[y])
        /\ Cardinality(before[x]) # Cardinality(before[y])
    BY <2>1, <2>2, FS_Subset
  <2>4. Cardinality(before[x]) \in Int /\ Cardinality(before[y]) \in Int
    BY <1>2
  <2>5. QED
    BY <2>3, <2>4
<1>4. ASSUME NEW x \in S, NEW y \in S, Cardinality(before[x]) < Cardinality(before[y])
      PROVE  x \in before[y]
  <2>1. Cardinality(before[x]) \in Int /\ Cardinality(before[y]) \in Int
    BY <1>2
  <2>2. x # y
    BY <1>4, <2>1
  <2>3. CASE y \in before[x]
    BY <1>3, <1>4, <2>1, <2>3
  <2>4. QED
    BY <2>2, <2>3
<1>5. ASSUME NEW place \in 0 .. (Cardinality(S) - 1)
      PROVE  \E x \in S : Cardinality(before[x]) = place
  <2> DEFINE Places == 0 .. (Cardinality(S) - 1)
             at == [x \in S |-> Cardinality(before[x])]
  <2>1. IsFiniteSet(Places) /\ Cardinality(Places) = Cardinality(S)
    BY <1>1, FS_Interval
  <2>2. at \in [S -> Places]
    BY <1>2
  <2>3. ASSUME NEW x \in S, NEW y \in S, at[x] = at[y]
        PROVE  x = y
    <3>1. Cardinality(before[x]) = Cardinality(before[y]) /\ Cardinality(before[x]) \in Int
      BY <1>2, <2>3
    <3>2. ~ (Cardinality(before[x]) < Cardinality(before[y]))
          /\ ~ (Cardinality(before[y]) < Cardinality(before[x]))
      BY <3>1
    <3>3. QED
      BY <1>3, <3>2
  <2>4. at \in Injection(S, Places)
    BY <2>2, <2>3 DEF Injection, IsInjective
  <2>5. at \in Surjection(S, Places)
    BY <2>1, <2>4, FS_Injection
  <2>6. QED
    BY <2>5 DEF Surjection
<1>6. QED
  BY <1>1, <1>2, <1>3, <1>4, <1>5

\* A table that has at each place the element of that place has each element once,
\* and in order.
LEMMA TableOfASet ==
  ASSUME NEW S, IsFiniteSet(S), NEW before, StrictOrder(S, before),
         NEW table, Placed(S, before, table)
  PROVE  /\ Cardinality(S) \in Nat
         /\ DOMAIN table = 1 .. Cardinality(S)
         /\ \A n \in DOMAIN table : table[n] \in S
         /\ \A x \in S : \E n \in DOMAIN table : table[n] = x
         /\ \A m, n \in DOMAIN table : m < n <=> table[m] \in before[table[n]]
         /\ \A m, n \in DOMAIN table : table[m] = table[n] => m = n
<1>1. Cardinality(S) \in Nat
  BY FS_CardinalityType
<1> USE DEF Placed
<1>2. \A n \in 1 .. Cardinality(S) : table[n] \in S /\ Cardinality(before[table[n]]) = n - 1
  <2> SUFFICES ASSUME NEW n \in 1 .. Cardinality(S)
               PROVE  \E x \in S : Cardinality(before[x]) = n - 1
    OBVIOUS
  <2>1. n - 1 \in 0 .. (Cardinality(S) - 1)
    BY <1>1
  <2>2. QED
    BY <2>1, PlacesOfASet
<1>3. ASSUME NEW m \in DOMAIN table, NEW n \in DOMAIN table
      PROVE  m < n <=> table[m] \in before[table[n]]
  <2>1. table[m] \in before[table[n]]
          <=> Cardinality(before[table[m]]) < Cardinality(before[table[n]])
    BY <1>2, PlacesOfASet
  <2>2. QED
    BY <1>1, <1>2, <2>1
<1>4. ASSUME NEW x \in S
      PROVE  \E n \in DOMAIN table : table[n] = x
  <2>1. Cardinality(before[x]) \in 0 .. (Cardinality(S) - 1)
    BY PlacesOfASet
  <2>2. PICK n \in 1 .. Cardinality(S) : Cardinality(before[x]) = n - 1
    <3>1. Cardinality(before[x]) + 1 \in 1 .. Cardinality(S)
      BY <1>1, <2>1
    <3>2. Cardinality(before[x]) = (Cardinality(before[x]) + 1) - 1
      BY <2>1
    <3>3. QED
      BY <3>1, <3>2
  <2>3. table[n] \in S /\ Cardinality(before[table[n]]) = Cardinality(before[x])
    BY <1>2, <2>2
  <2>4. ~ (Cardinality(before[x]) < Cardinality(before[table[n]]))
        /\ ~ (Cardinality(before[table[n]]) < Cardinality(before[x]))
    BY <2>1, <2>3
  <2>5. x \notin before[table[n]] /\ table[n] \notin before[x]
    BY <2>3, <2>4, PlacesOfASet
  <2>6. QED
    BY <2>3, <2>5 DEF StrictOrder
<1>5. ASSUME NEW m \in DOMAIN table, NEW n \in DOMAIN table, table[m] = table[n]
      PROVE  m = n
  <2>1. m - 1 = n - 1
    BY <1>2, <1>5
  <2>2. QED
    BY <1>1, <2>1
<1>6. QED
  BY <1>1, <1>2, <1>3, <1>4, <1>5

LEMMA SortedNumbers ==
  ASSUME NEW S \in SUBSET Int, IsFiniteSet(S)
  PROVE  /\ Cardinality(S) \in Nat /\ DOMAIN Sorted(S) = 1 .. Cardinality(S)
         /\ \A n \in DOMAIN Sorted(S) : Sorted(S)[n] \in S
         /\ \A x \in S : \E n \in DOMAIN Sorted(S) : Sorted(S)[n] = x
         /\ \A m, n \in DOMAIN Sorted(S) : Sorted(S)[m] = Sorted(S)[n] => m = n
         /\ \A m, n \in DOMAIN Sorted(S) : m < n <=> Sorted(S)[m] < Sorted(S)[n]
<1> DEFINE before == [x \in S |-> {y \in S : y < x}]
           table == Sorted(S)
<1>1. before \in [S -> SUBSET S]
  OBVIOUS
<1>2. \A x \in S : before[x] = {y \in S : y < x}
  OBVIOUS
<1>3. DOMAIN table = 1 .. Cardinality(S)
  BY DEF Sorted, Ranked
<1>4. ASSUME NEW n \in 1 .. Cardinality(S), \E x \in S : Cardinality(before[x]) = n - 1
      PROVE  table[n] \in S /\ Cardinality(before[table[n]]) = n - 1
  <2>1. table[n] = CHOOSE x \in S : Cardinality({y \in S : y < x}) = n - 1
    BY DEF Sorted, Ranked
  <2>2. \E x \in S : Cardinality({y \in S : y < x}) = n - 1
    BY <1>4
  <2> HIDE DEF table
  <2>3. table[n] \in S /\ Cardinality({y \in S : y < table[n]}) = n - 1
    BY <2>1, <2>2
  <2>4. QED
    BY <2>3
<1> HIDE DEF before, table
<1>5. ASSUME NEW x \in S
      PROVE  x \notin before[x]
  <2>1. x \in Int
    OBVIOUS
  <2>2. ~ (x < x)
    BY <2>1
  <2>3. QED
    BY <1>2, <2>2
<1>6. ASSUME NEW x \in S, NEW y \in S, y \in before[x]
      PROVE  before[y] \subseteq before[x]
  <2> SUFFICES ASSUME NEW z \in S, z < y
               PROVE  z < x
    BY <1>2
  <2>1. y < x
    BY <1>2, <1>6
  <2>2. QED
    BY <2>1
<1>7. ASSUME NEW x \in S, NEW y \in S
      PROVE  x = y \/ x \in before[y] \/ y \in before[x]
  <2>1. x = y \/ x < y \/ y < x
    OBVIOUS
  <2>2. QED
    BY <1>2, <2>1
<1>8. /\ Cardinality(S) \in Nat
      /\ \A n \in DOMAIN table : table[n] \in S
      /\ \A x \in S : \E n \in DOMAIN table : table[n] = x
      /\ \A m, n \in DOMAIN table : m < n <=> table[m] \in before[table[n]]
      /\ \A m, n \in DOMAIN table : table[m] = table[n] => m = n
  <2>1. StrictOrder(S, before)
    BY <1>1, <1>5, <1>6, <1>7 DEF StrictOrder
  <2>2. Placed(S, before, table)
    BY <1>3, <1>4 DEF Placed
  <2>3. QED
    BY <2>1, <2>2, TableOfASet
<1>9. \A m, n \in DOMAIN table : m < n <=> table[m] < table[n]
  BY <1>2, <1>8
<1>10. QED
  BY <1>3, <1>8, <1>9 DEF table

LEMMA GreatestNumber ==
  ASSUME NEW S \in SUBSET Int, IsFiniteSet(S), S # {}
  PROVE  Max(S) \in S /\ \A y \in S : Max(S) >= y
<1> DEFINE count == Cardinality(S)
           table == Sorted(S)
<1>1. count \in Nat \ {0}
  BY FS_CardinalityType, FS_EmptySet
<1>2. /\ DOMAIN table = 1 .. count
      /\ \A n \in DOMAIN table : table[n] \in S
      /\ \A x \in S : \E n \in DOMAIN table : table[n] = x
      /\ \A m, n \in DOMAIN table : m < n <=> table[m] < table[n]
  BY SortedNumbers
<1> HIDE DEF table, count
<1>3. table[count] \in S
  BY <1>1, <1>2
<1>4. ASSUME NEW y \in S
      PROVE  table[count] >= y
  <2>1. PICK n \in 1 .. count : table[n] = y
    BY <1>2
  <2>2. n = count \/ n < count
    BY <1>1
  <2>3. count \in DOMAIN table /\ n \in DOMAIN table
    BY <1>1, <1>2
  <2>4. table[n] = table[count] \/ table[n] < table[count]
    BY <1>2, <2>2, <2>3
  <2>5. y \in Int /\ table[count] \in Int
    BY <1>3
  <2>6. QED
    BY <2>1, <2>4, <2>5
<1>5. QED
  BY <1>3, <1>4 DEF Max

LEMMA SmallestNumber ==
  ASSUME NEW S \in SUBSET Int, IsFiniteSet(S), S # {}
  PROVE  Min(S) \in S /\ \A y \in S : Min(S) <= y
<1> DEFINE count == Cardinality(S)
           table == Sorted(S)
<1>1. count \in Nat \ {0}
  BY FS_CardinalityType, FS_EmptySet
<1>2. /\ DOMAIN table = 1 .. count
      /\ \A n \in DOMAIN table : table[n] \in S
      /\ \A x \in S : \E n \in DOMAIN table : table[n] = x
      /\ \A m, n \in DOMAIN table : m < n <=> table[m] < table[n]
  BY SortedNumbers
<1> HIDE DEF table, count
<1>3. table[1] \in S
  BY <1>1, <1>2
<1>4. ASSUME NEW y \in S
      PROVE  table[1] <= y
  <2>1. PICK n \in 1 .. count : table[n] = y
    BY <1>2
  <2>2. n = 1 \/ 1 < n
    OBVIOUS
  <2>3. 1 \in DOMAIN table /\ n \in DOMAIN table
    BY <1>1, <1>2
  <2>4. table[n] = table[1] \/ table[1] < table[n]
    BY <1>2, <2>2, <2>3
  <2>5. y \in Int /\ table[1] \in Int
    BY <1>3
  <2>6. QED
    BY <2>1, <2>4, <2>5
<1>5. QED
  BY <1>3, <1>4 DEF Min

LEMMA LengthOfTable ==
  ASSUME NEW count \in Nat, NEW table, table \in [1 .. count -> ToSet(table)]
  PROVE  Len(table) = count /\ table \in Seq(ToSet(table))
<1>1. table \in Seq(ToSet(table))
  OBVIOUS
<1>2. Len(table) = count
  BY <1>1
<1>3. QED
  BY <1>1, <1>2

LEMMA FirstRows ==
  ASSUME NEW count \in Nat, NEW most \in Nat, NEW table,
         table \in [1 .. count -> ToSet(table)]
  PROVE  LET kept == IF most < count THEN most ELSE count
         IN  /\ DOMAIN FirstOf(table, most) = 1 .. kept
             /\ \A n \in 1 .. kept : FirstOf(table, most)[n] = table[n]
<1> DEFINE kept == IF most < count THEN most ELSE count
           T == ToSet(table)
<1>1. Len(table) = count
  BY LengthOfTable
<1>2. Min({most, count}) = kept
  <2>1. kept \in {most, count} /\ \A x \in {most, count} : kept <= x
    OBVIOUS
  <2>2. \A x \in {most, count} : (\A y \in {most, count} : x <= y) => x = kept
    OBVIOUS
  <2>3. QED
    BY <2>1, <2>2 DEF Min
<1>3. kept \in 0 .. count
  OBVIOUS
<1>4. \A n \in 1 .. kept : table[n] \in T
  BY <1>3 DEF ToSet
<1>5. FirstOf(table, most) = SubSeq(table, 1, kept)
  BY <1>1, <1>2 DEF FirstOf
<1> HIDE DEF kept, T
<1>6. /\ SubSeq(table, 1, kept) \in Seq(T)
      /\ Len(SubSeq(table, 1, kept)) = kept
      /\ \A n \in 1 .. kept : SubSeq(table, 1, kept)[n] = table[n]
  <2>1. PICK one, last \in Int : one = 1 /\ last = kept
    BY <1>3
  <2>2. /\ SubSeq(table, one, last) \in Seq(T)
        /\ Len(SubSeq(table, one, last)) = IF one <= last THEN last - one + 1 ELSE 0
        /\ \A n \in 1 .. last - one + 1 : SubSeq(table, one, last)[n] = table[one + n - 1]
    BY <1>4, <2>1, SubSeqProperties
  <2>3. last - one + 1 = kept /\ last \in Nat
    BY <1>3, <2>1
  <2>4. \A n \in 1 .. last : one + n - 1 = n
    BY <2>1
  <2>5. QED
    BY <2>1, <2>2, <2>3, <2>4
<1>7. DOMAIN SubSeq(table, 1, kept) = 1 .. Len(SubSeq(table, 1, kept))
  BY <1>6, LenProperties
<1>8. /\ DOMAIN FirstOf(table, most) = 1 .. kept
       /\ \A n \in 1 .. kept : FirstOf(table, most)[n] = table[n]
  BY <1>5, <1>6, <1>7
<1>9. QED
  BY <1>8 DEF kept

-----------------------------------------------------------------------------
(* Folds.                                                                  *)

\* What a fold asks of the results on the parts of a set.
Folded(parts, base, pick, step, results) ==
  \A part \in parts :
    results[part] = IF part = {} THEN base
                    ELSE step[pick[part]][results[part \ {pick[part]}]]

Foldable(S, T, base, pick, step) ==
  /\ IsFiniteSet(S) /\ base \in T
  /\ \A part \in SUBSET S : part # {} => pick[part] \in part
  /\ \A x \in S : \A t \in T : step[x][t] \in T

\* A fold over a finite set has a result for each of its parts.
LEMMA FoldExists ==
  ASSUME NEW S, NEW T, NEW base, NEW pick, NEW step, Foldable(S, T, base, pick, step)
  PROVE  \E results \in [SUBSET S -> T] : Folded(SUBSET S, base, pick, step, results)
<1> DEFINE Small(n) == {part \in SUBSET S : Cardinality(part) <= n}
           Good == {n \in Nat : \E results \in [Small(n) -> T] :
                                   Folded(Small(n), base, pick, step, results)}
<1> USE DEF Foldable
<1>1. \A part \in SUBSET S : IsFiniteSet(part) /\ Cardinality(part) \in Nat
  BY FS_Subset, FS_CardinalityType
<1>2. ASSUME NEW n \in Nat, NEW part \in SUBSET S, Cardinality(part) <= n + 1, part # {}
      PROVE  part \ {pick[part]} \in Small(n)
  <2>1. pick[part] \in part
    BY <1>2
  <2>2. Cardinality(part \ {pick[part]}) = Cardinality(part) - 1
    BY <1>1, <2>1, FS_RemoveElement
  <2>3. Cardinality(part) - 1 <= n
    BY <1>1, <1>2
  <2>4. QED
    BY <2>2, <2>3
<1>3. 0 \in Good
  <2> DEFINE results == [part \in Small(0) |-> base]
  <2>1. \A part \in Small(0) : part = {}
    BY <1>1, FS_EmptySet
  <2>2. results \in [Small(0) -> T] /\ Folded(Small(0), base, pick, step, results)
    BY <2>1 DEF Folded
  <2>3. QED
    BY <2>2
<1>4. ASSUME NEW n \in Nat, n \in Good
      PROVE  n + 1 \in Good
  <2>1. PICK old \in [Small(n) -> T] : Folded(Small(n), base, pick, step, old)
    BY <1>4
  <2> DEFINE new == [part \in Small(n + 1) |->
                       IF part = {} THEN base
                       ELSE step[pick[part]][old[part \ {pick[part]}]]]
  <2>2. \A part \in Small(n) : part \in Small(n + 1)
    BY <1>1
  <2>3. \A part \in Small(n + 1) : part # {} => part \ {pick[part]} \in Small(n)
    BY <1>2
  <2>4. \A part \in Small(n) : new[part] = old[part]
    BY <2>1, <2>2 DEF Folded
  <2>5. ASSUME NEW part \in Small(n + 1)
        PROVE  new[part] \in T
    <3>1. CASE part = {}
      BY <3>1
    <3>2. CASE part # {}
      <4>1. old[part \ {pick[part]}] \in T
        BY <2>1, <2>3, <3>2
      <4>2. pick[part] \in S
        BY <3>2
      <4>3. step[pick[part]][old[part \ {pick[part]}]] \in T
        BY <4>1, <4>2
      <4>4. QED
        BY <3>2, <4>3
    <3>3. QED
      BY <3>1, <3>2
  <2>6. new \in [Small(n + 1) -> T]
    BY <2>5
  <2>7. \A part \in Small(n + 1) :
          new[part] = IF part = {} THEN base
                      ELSE step[pick[part]][old[part \ {pick[part]}]]
    OBVIOUS
  <2> HIDE DEF new, Small
  <2>8. Folded(Small(n + 1), base, pick, step, new)
    BY <2>3, <2>4, <2>7 DEF Folded
  <2>9. QED
    BY <2>6, <2>8
<1>5. Nat \subseteq Good
  <2> HIDE DEF Good
  <2>1. QED
    BY <1>3, <1>4, SetInduction
<1>6. Small(Cardinality(S)) = SUBSET S
  BY FS_Subset
<1>7. Cardinality(S) \in Good
  BY <1>1, <1>5
<1>8. QED
  BY <1>6, <1>7

-----------------------------------------------------------------------------
(* Sums.                                                                   *)

Sum(f, S) == SumOver(S, LAMBDA x : f[x])

AnyOf(S) == CHOOSE x \in S : TRUE

\* What the sum over a set asks of the sums over its parts.
Summed(S, f, results) ==
  \A part \in SUBSET S :
    results[part] = IF part = {} THEN 0 ELSE results[part \ {AnyOf(part)}] + f[AnyOf(part)]

LEMMA AnyOfPart == \A S : S # {} => AnyOf(S) \in S
  BY DEF AnyOf

\* Numbers of elements: a set without one of its elements has one element less.
LEMMA OneLess ==
  ASSUME NEW S, IsFiniteSet(S), NEW x \in S
  PROVE  /\ IsFiniteSet(S \ {x}) /\ Cardinality(S) \in Nat /\ Cardinality(S \ {x}) \in Nat
         /\ Cardinality(S \ {x}) = Cardinality(S) - 1
<1>1. IsFiniteSet(S \ {x}) /\ Cardinality(S \ {x}) = Cardinality(S) - 1
  BY FS_RemoveElement
<1>2. QED
  BY <1>1, FS_CardinalityType

LEMMA SumsAgree ==
  ASSUME NEW S, IsFiniteSet(S), NEW f, NEW one, NEW other,
         Summed(S, f, one), Summed(S, f, other)
  PROVE  \A part \in SUBSET S : one[part] = other[part]
<1> DEFINE Good == {n \in Nat : \A part \in SUBSET S :
                                   Cardinality(part) = n => one[part] = other[part]}
<1>1. \A part \in SUBSET S : IsFiniteSet(part) /\ Cardinality(part) \in Nat
  BY FS_Subset, FS_CardinalityType
<1>2. 0 \in Good
  <2>1. \A part \in SUBSET S : Cardinality(part) = 0 => part = {}
    BY <1>1, FS_EmptySet
  <2>2. one[{}] = 0 /\ other[{}] = 0
    BY DEF Summed
  <2>3. QED
    BY <2>1, <2>2
<1>3. ASSUME NEW n \in Nat, n \in Good
      PROVE  n + 1 \in Good
  <2> SUFFICES ASSUME NEW part \in SUBSET S, Cardinality(part) = n + 1
               PROVE  one[part] = other[part]
    OBVIOUS
  <2>1. part # {}
    BY FS_EmptySet
  <2>2. AnyOf(part) \in part
    BY <2>1, AnyOfPart
  <2>3. Cardinality(part \ {AnyOf(part)}) = n
    BY <1>1, <2>2, OneLess
  <2>4. one[part \ {AnyOf(part)}] = other[part \ {AnyOf(part)}]
    BY <1>3, <2>3
  <2>5. QED
    BY <2>1, <2>4 DEF Summed
<1>4. Nat \subseteq Good
  <2> HIDE DEF Good
  <2>1. QED
    BY <1>2, <1>3, SetInduction
<1>5. QED
  BY <1>1, <1>4

\* A sum of finitely many numbers is the last of the sums over parts.
LEMMA SumIsDefined ==
  ASSUME NEW S, IsFiniteSet(S), NEW f, \A x \in S : f[x] \in Int
  PROVE  \E results \in [SUBSET S -> Int] : Summed(S, f, results) /\ Sum(f, S) = results[S]
<1> DEFINE pick == [part \in SUBSET S |-> AnyOf(part)]
           step == [x \in S |-> [t \in Int |-> t + f[x]]]
           Rule(results) == results = [part \in SUBSET S |->
              IF part = {} THEN 0
              ELSE results[part \ {CHOOSE x \in part : TRUE}] + f[CHOOSE x \in part : TRUE]]
<1>1. \A part \in SUBSET S : part # {} => pick[part] \in part
  BY AnyOfPart
<1>2. \A x \in S : \A t \in Int : step[x][t] \in Int
  OBVIOUS
<1>3. PICK results \in [SUBSET S -> Int] : Folded(SUBSET S, 0, pick, step, results)
  <2> HIDE DEF pick, step
  <2>1. Foldable(S, Int, 0, pick, step)
    BY <1>1, <1>2 DEF Foldable
  <2>2. QED
    BY <2>1, FoldExists
<1>4. Summed(S, f, results)
  <2> SUFFICES ASSUME NEW part \in SUBSET S, part # {}
               PROVE  results[part] = results[part \ {AnyOf(part)}] + f[AnyOf(part)]
    BY <1>3 DEF Folded, Summed
  <2>1. AnyOf(part) \in S /\ pick[part] = AnyOf(part)
    BY AnyOfPart
  <2>2. results[part \ {AnyOf(part)}] \in Int
    OBVIOUS
  <2>3. results[part] = step[AnyOf(part)][results[part \ {AnyOf(part)}]]
    BY <1>3, <2>1 DEF Folded
  <2>4. QED
    BY <2>1, <2>2, <2>3
<1>5. Rule(results)
  BY <1>4 DEF Summed, AnyOf
<1>6. Sum(f, S) = (CHOOSE r : Rule(r))[S]
  BY DEF Sum, SumOver, FoldSet, MapThenFoldSet
<1>7. Rule(CHOOSE r : Rule(r))
  <2> HIDE DEF Rule
  <2>1. QED
    BY <1>5
<1>8. Summed(S, f, CHOOSE r : Rule(r))
  <2> DEFINE chosen == CHOOSE r : Rule(r)
  <2>1. Rule(chosen)
    BY <1>7
  <2> HIDE DEF chosen
  <2>2. Summed(S, f, chosen)
    BY <2>1 DEF Summed, AnyOf
  <2>3. QED
    BY <2>2 DEF chosen
<1>9. QED
  <2> HIDE DEF Rule
  <2>1. (CHOOSE r : Rule(r))[S] = results[S]
    BY <1>4, <1>8, SumsAgree
  <2>2. QED
    BY <1>4, <1>6, <2>1

\* A part is good if it is good without any one of its elements.
Inherited(S, good) ==
  \A part \in SUBSET S : (\A x \in part : part \ {x} \in good) => part \in good

\* Induction over the parts of a finite set.
LEMMA PartInduction ==
  ASSUME NEW S, IsFiniteSet(S), NEW good, Inherited(S, good)
  PROVE  SUBSET S \subseteq good
<1> DEFINE Good == {n \in Nat : \A part \in SUBSET S : Cardinality(part) = n => part \in good}
<1> USE DEF Inherited
<1>1. \A part \in SUBSET S : IsFiniteSet(part) /\ Cardinality(part) \in Nat
  BY FS_Subset, FS_CardinalityType
<1>2. 0 \in Good
  <2>1. {} \in good
    OBVIOUS
  <2>2. QED
    BY <1>1, <2>1, FS_EmptySet
<1>3. ASSUME NEW n \in Nat, n \in Good
      PROVE  n + 1 \in Good
  <2> SUFFICES ASSUME NEW part \in SUBSET S, Cardinality(part) = n + 1
               PROVE  part \in good
    OBVIOUS
  <2>1. ASSUME NEW x \in part
        PROVE  part \ {x} \in good
    <3>1. Cardinality(part \ {x}) = n
      BY <1>1, OneLess
    <3>2. QED
      BY <1>3, <3>1
  <2>2. QED
    BY <2>1
<1>4. Nat \subseteq Good
  <2> HIDE DEF Good
  <2>1. QED
    BY <1>2, <1>3, SetInduction
<1>5. QED
  BY <1>1, <1>4

LEMMA SumOfPart ==
  ASSUME NEW S, IsFiniteSet(S), NEW f, \A x \in S : f[x] \in Int,
         NEW results, Summed(S, f, results), NEW part \in SUBSET S
  PROVE  Sum(f, part) = results[part] /\ Sum(f, part) \in Int
<1>1. IsFiniteSet(part)
  BY FS_Subset
<1>2. PICK own \in [SUBSET part -> Int] : Summed(part, f, own) /\ Sum(f, part) = own[part]
  BY <1>1, SumIsDefined
<1>3. Summed(part, f, results)
  BY DEF Summed
<1>4. own[part] = results[part]
  BY <1>1, <1>2, <1>3, SumsAgree
<1>5. QED
  BY <1>2, <1>4

LEMMA SumOfNone == ASSUME NEW f PROVE Sum(f, {}) = 0
<1>1. IsFiniteSet({})
  BY FS_EmptySet
<1>2. \A x \in {} : f[x] \in Int
  OBVIOUS
<1>3. PICK results : Summed({}, f, results) /\ Sum(f, {}) = results[{}]
  BY <1>1, <1>2, SumIsDefined
<1>4. QED
  BY <1>3 DEF Summed

\* The order of the sum does not matter: any element may be added last.
LEMMA SumWithout ==
  ASSUME NEW S, IsFiniteSet(S), NEW f, \A x \in S : f[x] \in Int, NEW x \in S
  PROVE  Sum(f, S) = Sum(f, S \ {x}) + f[x]
<1>1. PICK sum \in [SUBSET S -> Int] : Summed(S, f, sum)
  BY SumIsDefined
<1> DEFINE good == {part \in SUBSET S : \A y \in part : sum[part] = sum[part \ {y}] + f[y]}
<1>2. ASSUME NEW part \in SUBSET S, \A y \in part : part \ {y} \in good
      PROVE  part \in good
  <2> SUFFICES ASSUME NEW y \in part
               PROVE  sum[part] = sum[part \ {y}] + f[y]
    OBVIOUS
  <2> DEFINE c == AnyOf(part)
  <2>1. c \in part
    BY AnyOfPart
  <2>2. sum[part] = sum[part \ {c}] + f[c]
    BY <1>1 DEF Summed
  <2> HIDE DEF c
  <2>3. CASE y = c
    BY <2>2, <2>3
  <2>4. CASE y # c
    <3>1. part \ {c} \in good /\ y \in part \ {c}
      BY <1>2, <2>1, <2>4
    <3>2. sum[part \ {c}] = sum[(part \ {c}) \ {y}] + f[y]
      BY <3>1
    <3>3. part \ {y} \in good /\ c \in part \ {y}
      BY <1>2, <2>1, <2>4
    <3>4. sum[part \ {y}] = sum[(part \ {y}) \ {c}] + f[c]
      BY <3>3
    <3>5. (part \ {c}) \ {y} = (part \ {y}) \ {c}
      OBVIOUS
    <3> DEFINE rest == sum[(part \ {y}) \ {c}]
    <3>6. f[c] \in Int /\ f[y] \in Int /\ rest \in Int
      BY <1>1, <2>1
    <3>7. sum[part] = (rest + f[y]) + f[c] /\ sum[part \ {y}] = rest + f[c]
      BY <2>2, <3>2, <3>4, <3>5
    <3> HIDE DEF good, rest
    <3>8. QED
      BY <3>6, <3>7
  <2>5. QED
    BY <2>3, <2>4
<1>3. SUBSET S \subseteq good
  <2> HIDE DEF good
  <2>1. Inherited(S, good)
    BY <1>2 DEF Inherited
  <2>2. QED
    BY <2>1, PartInduction
<1>4. QED
  BY <1>1, <1>3, SumOfPart

LEMMA SumIsNumber ==
  ASSUME NEW S, IsFiniteSet(S), NEW f, \A x \in S : f[x] \in Int
  PROVE  Sum(f, S) \in Int
<1>1. PICK results \in [SUBSET S -> Int] : Sum(f, S) = results[S]
  BY SumIsDefined
<1>2. QED
  BY <1>1

LEMMA SumSame ==
  ASSUME NEW S, IsFiniteSet(S), NEW f, NEW g,
         \A x \in S : f[x] \in Int, \A x \in S : f[x] = g[x]
  PROVE  Sum(f, S) = Sum(g, S)
<1>1. PICK one : Summed(S, f, one) /\ Sum(f, S) = one[S]
  BY SumIsDefined
<1>2. \A x \in S : g[x] \in Int
  OBVIOUS
<1>3. PICK other : Summed(S, g, other) /\ Sum(g, S) = other[S]
  BY <1>2, SumIsDefined
<1>4. Summed(S, g, one)
  <2> SUFFICES ASSUME NEW part \in SUBSET S
               PROVE  one[part] = IF part = {} THEN 0
                                  ELSE one[part \ {AnyOf(part)}] + g[AnyOf(part)]
    BY DEF Summed
  <2>1. part # {} => AnyOf(part) \in S
    BY AnyOfPart
  <2>2. part # {} => f[AnyOf(part)] = g[AnyOf(part)]
    BY <2>1
  <2>3. QED
    BY <1>1, <2>2 DEF Summed
<1>5. QED
  BY <1>1, <1>3, <1>4, SumsAgree

\* A sum is at most another if each of its terms is.
LEMMA SumAtMost ==
  ASSUME NEW S, IsFiniteSet(S), NEW f, NEW g,
         \A x \in S : f[x] \in Int /\ g[x] \in Int /\ f[x] <= g[x]
  PROVE  Sum(f, S) <= Sum(g, S)
<1> DEFINE good == {part \in SUBSET S : Sum(f, part) <= Sum(g, part)}
<1>1. ASSUME NEW part \in SUBSET S, \A x \in part : part \ {x} \in good
      PROVE  part \in good
  <2>1. IsFiniteSet(part)
    BY FS_Subset
  <2>2. CASE part = {}
    BY <2>2, SumOfNone
  <2>3. CASE part # {}
    <3>1. PICK x \in part : TRUE
      BY <2>3
    <3> DEFINE rest == part \ {x}
    <3>2. rest \in SUBSET S /\ IsFiniteSet(rest) /\ x \in S
      BY FS_Subset
    <3>3. Sum(f, part) = Sum(f, rest) + f[x] /\ Sum(g, part) = Sum(g, rest) + g[x]
      BY <2>1, SumWithout
    <3>4. Sum(f, rest) <= Sum(g, rest)
      BY <1>1
    <3>5. Sum(f, rest) \in Int /\ Sum(g, rest) \in Int /\ f[x] \in Int /\ g[x] \in Int /\ f[x] <= g[x]
      BY <3>2, SumIsNumber
    <3> HIDE DEF rest
    <3>6. QED
      BY <3>3, <3>4, <3>5
  <2>4. QED
    BY <2>2, <2>3
<1>2. Inherited(S, good)
  <2> HIDE DEF good
  <2>1. QED
    BY <1>1 DEF Inherited
<1>3. QED
  <2>1. S \in good
    BY <1>2, PartInduction
  <2>2. QED
    BY <2>1

LEMMA SumSplit ==
  ASSUME NEW S, IsFiniteSet(S), NEW f, \A x \in S : f[x] \in Int, NEW T \in SUBSET S
  PROVE  Sum(f, S) = Sum(f, S \ T) + Sum(f, T)
<1> DEFINE good == {part \in SUBSET T : Sum(f, (S \ T) \cup part) = Sum(f, S \ T) + Sum(f, part)}
<1>1. IsFiniteSet(T) /\ IsFiniteSet(S \ T) /\ Sum(f, S \ T) \in Int
  <2>1. S \ T \in SUBSET S
    OBVIOUS
  <2>2. IsFiniteSet(T) /\ IsFiniteSet(S \ T)
    BY <2>1, FS_Subset
  <2>3. QED
    BY <2>2, SumIsNumber
<1>2. ASSUME NEW part \in SUBSET T, \A x \in part : part \ {x} \in good
      PROVE  part \in good
  <2>1. IsFiniteSet(part)
    BY <1>1, FS_Subset
  <2>2. CASE part = {}
    BY <1>1, <2>2, SumOfNone
  <2>3. CASE part # {}
    <3>1. PICK x \in part : TRUE
      BY <2>3
    <3> DEFINE rest == part \ {x}
               all == (S \ T) \cup part
    <3>2. rest \in SUBSET S /\ all \in SUBSET S /\ x \in S /\ x \in all
      OBVIOUS
    <3>3. IsFiniteSet(rest) /\ IsFiniteSet(all)
      BY <3>2, FS_Subset
    <3>4. all \ {x} = (S \ T) \cup rest
      OBVIOUS
    <3>5. Sum(f, part) = Sum(f, rest) + f[x]
      BY <2>1, SumWithout
    <3>6. Sum(f, all) = Sum(f, all \ {x}) + f[x]
      <4> HIDE DEF all
      <4>1. QED
        BY <3>2, <3>3, SumWithout
    <3>7. Sum(f, (S \ T) \cup rest) = Sum(f, S \ T) + Sum(f, rest)
      BY <1>2
    <3>8. Sum(f, rest) \in Int /\ f[x] \in Int
      BY <3>2, <3>3, SumIsNumber
    <3>9. Sum(f, all) = Sum(f, S \ T) + Sum(f, part)
      <4> DEFINE a == Sum(f, S \ T)
                 b == Sum(f, rest)
      <4>1. a \in Int /\ b \in Int /\ f[x] \in Int
        BY <1>1, <3>8
      <4>2. Sum(f, all) = (a + b) + f[x] /\ Sum(f, part) = b + f[x]
        BY <3>4, <3>5, <3>6, <3>7
      <4> HIDE DEF rest, all, a, b
      <4>3. Sum(f, all) = a + Sum(f, part)
        BY <4>1, <4>2
      <4>4. QED
        BY <4>3 DEF a
    <3>10. QED
      BY <3>9
  <2>4. QED
    BY <2>2, <2>3
<1>3. Inherited(T, good)
  <2> HIDE DEF good
  <2>1. QED
    BY <1>2 DEF Inherited
<1>4. T \in good
  <2> HIDE DEF good
  <2>1. QED
    BY <1>1, <1>3, PartInduction
<1>5. (S \ T) \cup T = S
  OBVIOUS
<1>6. QED
  BY <1>4, <1>5

LEMMA SumOfOnes ==
  ASSUME NEW S, IsFiniteSet(S), NEW f, \A x \in S : f[x] = 1
  PROVE  Sum(f, S) = Cardinality(S)
<1> DEFINE good == {part \in SUBSET S : Sum(f, part) = Cardinality(part)}
<1>1. ASSUME NEW part \in SUBSET S, \A x \in part : part \ {x} \in good
      PROVE  part \in good
  <2>1. IsFiniteSet(part)
    BY FS_Subset
  <2>2. CASE part = {}
    BY <2>2, SumOfNone, FS_EmptySet
  <2>3. CASE part # {}
    <3>1. PICK x \in part : TRUE
      BY <2>3
    <3>2. Sum(f, part) = Sum(f, part \ {x}) + 1
      BY <2>1, SumWithout
    <3>3. Sum(f, part \ {x}) = Cardinality(part \ {x})
      BY <1>1
    <3>4. Cardinality(part \ {x}) = Cardinality(part) - 1 /\ Cardinality(part) \in Nat
      BY <2>1, OneLess
    <3>5. QED
      BY <3>2, <3>3, <3>4
  <2>4. QED
    BY <2>2, <2>3
<1>2. Inherited(S, good)
  <2> HIDE DEF good
  <2>1. QED
    BY <1>1 DEF Inherited
<1>3. QED
  <2>1. S \in good
    BY <1>2, PartInduction
  <2>2. QED
    BY <2>1

\* The sums of the groups that a key makes.
Grouped(S, f, P, key, of) ==
  /\ \A x \in S : key[x] \in P
  /\ \A p \in P : of[p] = Sum(f, {x \in S : key[x] = p})

\* A sum may be taken group by group.
LEMMA SumByKey ==
  ASSUME NEW S, IsFiniteSet(S), NEW f, \A x \in S : f[x] \in Int,
         NEW P, IsFiniteSet(P), NEW key, NEW of, Grouped(S, f, P, key, of)
  PROVE  Sum(f, S) = Sum(of, P) /\ \A p \in P : of[p] \in Int
<1> DEFINE group(part) == {x \in S : key[x] \in part}
           good == {part \in SUBSET P : Sum(f, group(part)) = Sum(of, part)}
<1> USE DEF Grouped
<1>1. \A part \in SUBSET P : IsFiniteSet(group(part)) /\ Sum(f, group(part)) \in Int
  <2> SUFFICES ASSUME NEW part \in SUBSET P
               PROVE  IsFiniteSet(group(part)) /\ Sum(f, group(part)) \in Int
    OBVIOUS
  <2>1. group(part) \in SUBSET S
    OBVIOUS
  <2>2. IsFiniteSet(group(part)) /\ \A x \in group(part) : f[x] \in Int
    BY <2>1, FS_Subset
  <2> HIDE DEF group
  <2>3. QED
    BY <2>2, SumIsNumber
<1>2. ASSUME NEW p \in P
      PROVE  of[p] = Sum(f, group({p})) /\ of[p] \in Int
  <2>1. group({p}) = {x \in S : key[x] = p}
    OBVIOUS
  <2>2. {p} \in SUBSET P
    OBVIOUS
  <2> HIDE DEF group
  <2>3. QED
    BY <1>1, <2>1, <2>2
<1>3. ASSUME NEW part \in SUBSET P, \A p \in part : part \ {p} \in good
      PROVE  part \in good
  <2>1. IsFiniteSet(part)
    BY FS_Subset
  <2>2. CASE part = {}
    <3>1. group(part) = {}
      BY <2>2
    <3>2. QED
      BY <2>2, <3>1, SumOfNone
  <2>3. CASE part # {}
    <3>1. PICK p \in part : TRUE
      BY <2>3
    <3> DEFINE rest == part \ {p}
               all == group(part)
               mine == group({p})
    <3>2. mine \in SUBSET all /\ all \ mine = group(rest)
      OBVIOUS
    <3>3. IsFiniteSet(all) /\ \A x \in all : f[x] \in Int
      BY <1>1
    <3>4. Sum(f, all) = Sum(f, all \ mine) + Sum(f, mine)
      <4> HIDE DEF all, mine
      <4>1. QED
        BY <3>2, <3>3, SumSplit
    <3>5. Sum(of, part) = Sum(of, rest) + of[p]
      BY <1>2, <2>1, SumWithout
    <3>6. Sum(f, group(rest)) = Sum(of, rest)
      BY <1>3
    <3>7. of[p] = Sum(f, mine)
      BY <1>2
    <3>8. Sum(f, group(part)) = Sum(of, part)
      BY <3>2, <3>4, <3>5, <3>6, <3>7
    <3>9. QED
      BY <3>8
  <2>4. QED
    BY <2>2, <2>3
<1>4. Inherited(P, good)
  <2> HIDE DEF good
  <2>1. QED
    BY <1>3 DEF Inherited
<1>5. P \in good
  <2> HIDE DEF good
  <2>1. QED
    BY <1>4, PartInduction
<1>6. group(P) = S
  OBVIOUS
<1>7. QED
  BY <1>2, <1>5, <1>6

LEMMA SumOfOne ==
  ASSUME NEW x, NEW f, f[x] \in Int
  PROVE  Sum(f, {x}) = f[x]
<1>1. IsFiniteSet({x}) /\ {x} \ {x} = {}
  BY FS_Singleton
<1>2. Sum(f, {x}) = Sum(f, {}) + f[x]
  BY <1>1, SumWithout
<1>3. QED
  BY <1>2, SumOfNone

\* Each element of a set has a name of its own in another one.
Renames(S, name, T) ==
  /\ \A x \in S : name[x] \in T
  /\ \A x, y \in S : name[x] = name[y] => x = y
  /\ \A t \in T : \E x \in S : name[x] = t

\* A sum is the same under other names of what is summed.
LEMMA SumRenamed ==
  ASSUME NEW S, IsFiniteSet(S), NEW f, \A x \in S : f[x] \in Int,
         NEW T, NEW name, Renames(S, name, T), NEW g, \A x \in S : g[name[x]] = f[x]
  PROVE  Sum(f, S) = Sum(g, T) /\ IsFiniteSet(T) /\ Cardinality(T) = Cardinality(S)
<1> USE DEF Renames
<1>1. IsFiniteSet(T) /\ Cardinality(T) = Cardinality(S)
  <2> DEFINE map == [x \in S |-> name[x]]
  <2>1. map \in Injection(S, T) /\ map \in Surjection(S, T)
    BY DEF Injection, IsInjective, Surjection
  <2> HIDE DEF map
  <2>2. QED
    BY <2>1, FS_Surjection
<1>2. ASSUME NEW t \in T
      PROVE  g[t] = Sum(f, {x \in S : name[x] = t})
  <2>1. PICK x \in S : name[x] = t
    OBVIOUS
  <2>2. {y \in S : name[y] = t} = {x}
    BY <2>1
  <2>3. Sum(f, {x}) = f[x]
    BY SumOfOne
  <2>4. QED
    BY <2>1, <2>2, <2>3
<1>3. Grouped(S, f, T, name, g)
  BY <1>2 DEF Grouped
<1>4. QED
  BY <1>1, <1>3, SumByKey

LEMMA SumScaled ==
  ASSUME NEW S, IsFiniteSet(S), NEW f, \A x \in S : f[x] \in Int, NEW c \in Int,
         NEW g, \A x \in S : g[x] = c * f[x]
  PROVE  Sum(g, S) = c * Sum(f, S)
<1> DEFINE good == {part \in SUBSET S : Sum(g, part) = c * Sum(f, part)}
<1>1. \A x \in S : g[x] \in Int
  OBVIOUS
<1>2. ASSUME NEW part \in SUBSET S, \A x \in part : part \ {x} \in good
      PROVE  part \in good
  <2>1. IsFiniteSet(part)
    BY FS_Subset
  <2>2. CASE part = {}
    <3>1. c * 0 = 0
      OBVIOUS
    <3>2. QED
      BY <2>2, <3>1, SumOfNone
  <2>3. CASE part # {}
    <3>1. PICK x \in part : TRUE
      BY <2>3
    <3> DEFINE rest == part \ {x}
    <3>2. rest \in SUBSET S /\ IsFiniteSet(rest) /\ x \in S
      BY FS_Subset
    <3>3. Sum(f, part) = Sum(f, rest) + f[x] /\ Sum(g, part) = Sum(g, rest) + g[x]
      BY <1>1, <2>1, SumWithout
    <3>4. Sum(g, rest) = c * Sum(f, rest)
      BY <1>2
    <3>5. Sum(f, rest) \in Int /\ f[x] \in Int
      BY <3>2, SumIsNumber
    <3>6. \A a, b \in Int : c * (a + b) = c * a + c * b
      OBVIOUS
    <3>7. c * (Sum(f, rest) + f[x]) = c * Sum(f, rest) + c * f[x]
      BY <3>5, <3>6
    <3>8. QED
      BY <3>2, <3>3, <3>4, <3>7
  <2>4. QED
    BY <2>2, <2>3
<1>3. Inherited(S, good)
  <2> HIDE DEF good
  <2>1. QED
    BY <1>2 DEF Inherited
<1>4. QED
  <2>1. S \in good
    BY <1>3, PartInduction
  <2>2. QED
    BY <2>1

-----------------------------------------------------------------------------
(* The rows that are picked from a table.                                  *)

Amounts(rows) == [i \in DOMAIN rows |-> rows[i].amount]

LEMMA TableDomain ==
  ASSUME NEW R, NEW rows \in Seq(R)
  PROVE  /\ Len(rows) \in Nat /\ DOMAIN rows = 1 .. Len(rows) /\ IsFiniteSet(DOMAIN rows)
         /\ Cardinality(DOMAIN rows) = Len(rows) /\ DOMAIN rows \subseteq Int
         /\ \A i \in DOMAIN rows : rows[i] \in R
<1>1. Len(rows) \in Nat /\ DOMAIN rows = 1 .. Len(rows)
  BY LenProperties
<1>2. \A i \in DOMAIN rows : rows[i] \in R
  BY ElementOfSeq, <1>1
<1>3. IsFiniteSet(1 .. Len(rows)) /\ Cardinality(1 .. Len(rows)) = Len(rows)
  BY <1>1, FS_Interval
<1>4. QED
  BY <1>1, <1>2, <1>3

\* The rows that are picked are those at the places, in their order.
LEMMA PickedRows ==
  ASSUME NEW R, NEW rows \in Seq(R), NEW places \in SUBSET DOMAIN rows
  PROVE  /\ IsFiniteSet(places) /\ Cardinality(places) \in Nat
         /\ Picked(rows, places) \in Seq(R)
         /\ Len(Picked(rows, places)) = Cardinality(places)
         /\ DOMAIN Picked(rows, places) = 1 .. Cardinality(places)
         /\ \A n \in 1 .. Cardinality(places) : /\ Sorted(places)[n] \in places
                                                /\ Picked(rows, places)[n] = rows[Sorted(places)[n]]
         /\ ToSet(Picked(rows, places)) = {rows[i] : i \in places}
<1> DEFINE kept == Sorted(places)
           count == Cardinality(places)
           picked == Picked(rows, places)
<1>1. IsFiniteSet(places) /\ places \in SUBSET Int
  BY TableDomain, FS_Subset
<1>2. /\ count \in Nat /\ DOMAIN kept = 1 .. count
      /\ \A n \in 1 .. count : kept[n] \in places
      /\ \A i \in places : \E n \in 1 .. count : kept[n] = i
  BY <1>1, SortedNumbers
<1>3. picked = [n \in DOMAIN kept |-> rows[kept[n]]]
  BY DEF Picked
<1> HIDE DEF kept, count, picked
<1>4. DOMAIN picked = 1 .. count /\ \A n \in 1 .. count : picked[n] = rows[kept[n]]
  BY <1>2, <1>3
<1>5. \A n \in 1 .. count : picked[n] \in R
  BY <1>2, <1>4, TableDomain
<1>6. picked \in [1 .. count -> R]
  BY <1>2, <1>3, <1>5
<1>7. picked \in Seq(R) /\ Len(picked) = count
  BY <1>2, <1>6
<1>8. ToSet(picked) = {rows[i] : i \in places}
  <2>1. ToSet(picked) = {picked[n] : n \in 1 .. count}
    BY <1>4 DEF ToSet
  <2>2. \A n \in 1 .. count : picked[n] \in {rows[i] : i \in places}
    BY <1>2, <1>4
  <2>3. \A i \in places : \E n \in 1 .. count : picked[n] = rows[i]
    BY <1>2, <1>4
  <2>4. QED
    BY <2>1, <2>2, <2>3
<1>9. QED
  BY <1>1, <1>2, <1>4, <1>7, <1>8 DEF kept, count, picked

\* A sum is the sum without the last number and what the last one adds: the rule of
\* a fold from the left has the sums for its results, and no others.
LEMMA SumFromTheLast ==
  ASSUME NEW D \in SUBSET Int, IsFiniteSet(D), NEW f, \A x \in D : f[x] \in Int
  PROVE  /\ \A part \in SUBSET D : part # {} =>
              Max(part) \in part /\ Sum(f, part) = Sum(f, part \ {Max(part)}) + f[Max(part)]
         /\ \A chosen :
              (\A part \in SUBSET D :
                 chosen[part] = IF part = {} THEN 0
                                ELSE chosen[part \ {Max(part)}] + f[Max(part)])
              => chosen[D] = Sum(f, D)
         /\ Sum(f, D) \in Int
<1>1. ASSUME NEW part \in SUBSET D, part # {}
      PROVE  Max(part) \in part /\ Sum(f, part) = Sum(f, part \ {Max(part)}) + f[Max(part)]
  <2>1. IsFiniteSet(part) /\ part \in SUBSET Int
    BY FS_Subset
  <2>2. Max(part) \in part
    BY <1>1, <2>1, GreatestNumber
  <2>3. Sum(f, part) = Sum(f, part \ {Max(part)}) + f[Max(part)]
    BY <2>1, <2>2, SumWithout
  <2>4. QED
    BY <2>2, <2>3
<1>2. ASSUME NEW chosen,
             \A part \in SUBSET D :
               chosen[part] = IF part = {} THEN 0 ELSE chosen[part \ {Max(part)}] + f[Max(part)]
      PROVE  chosen[D] = Sum(f, D)
  <2> DEFINE good == {part \in SUBSET D : chosen[part] = Sum(f, part)}
  <2>1. ASSUME NEW part \in SUBSET D, \A x \in part : part \ {x} \in good
        PROVE  part \in good
    BY <1>1, <1>2, <2>1, SumOfNone
  <2> HIDE DEF good
  <2>2. D \in good
    BY <2>1, PartInduction DEF Inherited
  <2>3. QED
    BY <2>2 DEF good
<1>3. QED
  BY <1>1, <1>2, SumIsNumber

\* The total of a table is the sum of its amounts, in whatever order.
LEMMA TotalIsSum ==
  ASSUME NEW R, NEW rows \in Seq(R), \A r \in R : r.amount \in Int
  PROVE  Total(rows) = Sum(Amounts(rows), DOMAIN rows) /\ Total(rows) \in Int
<1> DEFINE D == DOMAIN rows
           f == Amounts(rows)
           Rule(results) == results = [part \in SUBSET D |->
              IF part = {} THEN 0 ELSE results[part \ {Max(part)}] + rows[Max(part)].amount]
           sums == [part \in SUBSET D |-> Sum(f, part)]
<1>1. IsFiniteSet(D) /\ D \subseteq Int /\ \A i \in D : rows[i].amount \in Int
  BY TableDomain
<1>2. \A i \in D : f[i] = rows[i].amount /\ f[i] \in Int
  BY <1>1 DEF Amounts
<1>3. Total(rows) = (CHOOSE results : Rule(results))[D]
  BY DEF Total, FoldLeft, MapThenFoldSet
<1> HIDE DEF D, f
<1>4. /\ \A part \in SUBSET D : part # {} =>
           Max(part) \in part /\ Sum(f, part) = Sum(f, part \ {Max(part)}) + f[Max(part)]
      /\ \A chosen :
           (\A part \in SUBSET D :
              chosen[part] = IF part = {} THEN 0 ELSE chosen[part \ {Max(part)}] + f[Max(part)])
           => chosen[D] = Sum(f, D)
      /\ Sum(f, D) \in Int
  BY <1>1, <1>2, SumFromTheLast
<1>5. Rule(sums)
  BY <1>2, <1>4, SumOfNone
<1>6. PICK chosen : Rule(chosen) /\ Total(rows) = chosen[D]
  <2> HIDE DEF Rule
  <2>1. Rule(CHOOSE results : Rule(results))
    BY <1>5
  <2>2. QED
    BY <1>3, <2>1
<1>7. ASSUME NEW part \in SUBSET D
      PROVE  chosen[part] = IF part = {} THEN 0 ELSE chosen[part \ {Max(part)}] + f[Max(part)]
  BY <1>2, <1>4, <1>6
<1>8. QED
  BY <1>4, <1>6, <1>7 DEF D, f

\* The total of the rows that are picked.
LEMMA TotalOfPicked ==
  ASSUME NEW R, NEW rows \in Seq(R), \A r \in R : r.amount \in Int,
         NEW places \in SUBSET DOMAIN rows
  PROVE  Total(Picked(rows, places)) = Sum(Amounts(rows), places)
<1> DEFINE picked == Picked(rows, places)
           count == Cardinality(places)
           kept == Sorted(places)
           f == Amounts(rows)
           g == Amounts(picked)
<1>1. /\ IsFiniteSet(places) /\ count \in Nat /\ picked \in Seq(R)
      /\ DOMAIN picked = 1 .. count
      /\ \A n \in 1 .. count : kept[n] \in places /\ picked[n] = rows[kept[n]]
  BY PickedRows
<1>2. /\ \A i \in places : \E n \in 1 .. count : kept[n] = i
      /\ \A m, n \in 1 .. count : kept[m] = kept[n] => m = n
  <2>1. places \in SUBSET Int
    BY TableDomain
  <2>2. QED
    BY <1>1, <2>1, SortedNumbers
<1>3. Total(picked) = Sum(g, 1 .. count)
  BY <1>1, TotalIsSum
<1>4. \A i \in places : f[i] \in Int
  BY TableDomain DEF Amounts
<1>5. \A i \in places : f[i] = rows[i].amount
  BY DEF Amounts
<1>6. \A n \in 1 .. count : g[n] = picked[n].amount
  BY <1>1 DEF Amounts
<1> HIDE DEF picked, count, kept, f, g
<1> DEFINE numbers == 1 .. count
<1>7. /\ \A n \in numbers : g[n] \in Int
      /\ \A n \in numbers : f[kept[n]] = g[n]
  BY <1>1, <1>4, <1>5, <1>6
<1>8. IsFiniteSet(numbers)
  BY <1>1, FS_Interval
<1>9. Renames(numbers, kept, places)
  BY <1>1, <1>2 DEF Renames
<1>10. Sum(g, 1 .. count) = Sum(f, places)
  <2> HIDE DEF numbers
  <2>1. Sum(g, numbers) = Sum(f, places)
    BY <1>7, <1>8, <1>9, SumRenamed
  <2>2. QED
    BY <2>1 DEF numbers
<1>11. QED
  BY <1>3, <1>10 DEF picked, f

\* A sum over places, one place longer, and over the places of two tables.
LEMMA SumAppended ==
  ASSUME NEW n \in Nat, NEW f, NEW g, g[n + 1] \in Int,
         \A i \in 1 .. n : f[i] \in Int, \A i \in 1 .. n : g[i] = f[i]
  PROVE  Sum(g, 1 .. (n + 1)) = Sum(f, 1 .. n) + g[n + 1] /\ Sum(f, 1 .. n) \in Int
<1> DEFINE longer == 1 .. (n + 1)
           shorter == 1 .. n
           last == n + 1
<1>1. /\ IsFiniteSet(longer) /\ IsFiniteSet(shorter) /\ last \in longer
      /\ longer \ {last} = shorter /\ \A i \in longer : g[i] \in Int
  <2>1. IsFiniteSet(longer) /\ IsFiniteSet(shorter)
    BY FS_Interval
  <2>2. \A i \in longer : i \in shorter \/ i = last
    OBVIOUS
  <2>3. last \in longer /\ last \notin shorter /\ shorter \subseteq longer
    OBVIOUS
  <2>4. \A i \in longer : g[i] \in Int
    <3> SUFFICES ASSUME NEW i \in longer PROVE g[i] \in Int
      OBVIOUS
    <3>1. CASE i = last
      BY <3>1
    <3>2. CASE i \in shorter
      BY <3>2
    <3>3. QED
      BY <2>2, <3>1, <3>2
  <2> HIDE DEF longer, shorter, last
  <2>5. longer \ {last} = shorter
    BY <2>2, <2>3
  <2>6. QED
    BY <2>1, <2>3, <2>4, <2>5
<1>2. \A i \in shorter : g[i] \in Int /\ f[i] \in Int /\ f[i] = g[i]
  OBVIOUS
<1> HIDE DEF longer, shorter, last
<1>3. Sum(g, longer) = Sum(g, shorter) + g[last]
  BY <1>1, SumWithout
<1>4. Sum(f, shorter) = Sum(g, shorter)
  BY <1>1, <1>2, SumSame
<1>5. Sum(f, shorter) \in Int
  BY <1>1, <1>2, SumIsNumber
<1>6. QED
  BY <1>3, <1>4, <1>5 DEF longer, shorter, last

LEMMA SumJoined ==
  ASSUME NEW m \in Nat, NEW n \in Nat, NEW f, NEW g, NEW h,
         \A i \in 1 .. m : f[i] \in Int, \A i \in 1 .. n : g[i] \in Int,
         \A i \in 1 .. m : h[i] = f[i], \A i \in 1 .. n : h[m + i] = g[i]
  PROVE  Sum(h, 1 .. (m + n)) = Sum(f, 1 .. m) + Sum(g, 1 .. n)
<1> DEFINE all == 1 .. (m + n)
           one == 1 .. m
           two == 1 .. n
           rest == all \ one
           name == [i \in two |-> m + i]
<1>1. /\ IsFiniteSet(all) /\ IsFiniteSet(one) /\ IsFiniteSet(two) /\ one \in SUBSET all
      /\ \A i \in all : h[i] \in Int
  <2>1. \A i \in all : i \in one \/ (i - m \in two /\ i = m + (i - m))
    OBVIOUS
  <2>2. \A i \in all : h[i] \in Int
    <3> SUFFICES ASSUME NEW i \in all PROVE h[i] \in Int
      OBVIOUS
    <3>1. CASE i \in one
      BY <3>1
    <3>2. CASE i \notin one
      <4>1. i - m \in two /\ i = m + (i - m)
        BY <2>1, <3>2
      <4>2. QED
        BY <4>1
    <3>3. QED
      BY <3>1, <3>2
  <2>3. IsFiniteSet(all) /\ IsFiniteSet(one) /\ IsFiniteSet(two)
    BY FS_Interval
  <2>4. QED
    BY <2>2, <2>3
<1>2. /\ \A i \in two : name[i] \in rest /\ h[name[i]] = g[i]
      /\ \A i, j \in two : name[i] = name[j] => i = j
      /\ \A i \in rest : i - m \in two /\ name[i - m] = i
  OBVIOUS
<1>3. \A i \in one : f[i] = h[i] /\ f[i] \in Int
  OBVIOUS
<1>4. \A i \in two : g[i] \in Int
  OBVIOUS
<1> HIDE DEF all, one, two, name
<1>5. Sum(h, all) = Sum(h, all \ one) + Sum(h, one)
  BY <1>1, SumSplit
<1>6. Sum(f, one) = Sum(h, one)
  BY <1>1, <1>3, SumSame
<1>7. Renames(two, name, rest)
  BY <1>2 DEF Renames
<1> HIDE DEF rest
<1>8. Sum(g, two) = Sum(h, rest)
  BY <1>1, <1>2, <1>4, <1>7, SumRenamed
<1>9. Sum(f, one) \in Int /\ Sum(g, two) \in Int
  BY <1>1, <1>3, <1>4, SumIsNumber
<1>10. QED
  BY <1>5, <1>6, <1>8, <1>9 DEF all, one, two, rest

Volumes(chunks) == [i \in DOMAIN chunks |-> chunks[i].volume]

\* The volume of matched money is the sum of its chunks.
LEMMA VolumeIsSum ==
  ASSUME NEW R, NEW chunks \in Seq(R), \A c \in R : c.volume \in Int
  PROVE  VolumeOf(chunks) = Sum(Volumes(chunks), DOMAIN chunks) /\ VolumeOf(chunks) \in Int
<1> DEFINE D == DOMAIN chunks
           f == Volumes(chunks)
           Rule(results) == results = [part \in SUBSET D |->
              IF part = {} THEN 0 ELSE results[part \ {Max(part)}] + chunks[Max(part)].volume]
           sums == [part \in SUBSET D |-> Sum(f, part)]
<1>1. IsFiniteSet(D) /\ D \subseteq Int /\ \A i \in D : chunks[i].volume \in Int
  BY TableDomain
<1>2. \A i \in D : f[i] = chunks[i].volume /\ f[i] \in Int
  BY <1>1 DEF Volumes
<1>3. VolumeOf(chunks) = (CHOOSE results : Rule(results))[D]
  BY DEF VolumeOf, FoldLeft, MapThenFoldSet
<1> HIDE DEF D, f
<1>4. /\ \A part \in SUBSET D : part # {} =>
           Max(part) \in part /\ Sum(f, part) = Sum(f, part \ {Max(part)}) + f[Max(part)]
      /\ \A chosen :
           (\A part \in SUBSET D :
              chosen[part] = IF part = {} THEN 0 ELSE chosen[part \ {Max(part)}] + f[Max(part)])
           => chosen[D] = Sum(f, D)
      /\ Sum(f, D) \in Int
  BY <1>1, <1>2, SumFromTheLast
<1>5. Rule(sums)
  BY <1>2, <1>4, SumOfNone
<1>6. PICK chosen : Rule(chosen) /\ VolumeOf(chunks) = chosen[D]
  <2> HIDE DEF Rule
  <2>1. Rule(CHOOSE results : Rule(results))
    BY <1>5
  <2>2. QED
    BY <1>3, <2>1
<1>7. ASSUME NEW part \in SUBSET D
      PROVE  chosen[part] = IF part = {} THEN 0 ELSE chosen[part \ {Max(part)}] + f[Max(part)]
  BY <1>2, <1>4, <1>6
<1>8. QED
  BY <1>4, <1>6, <1>7 DEF D, f

LEMMA VolumeOfMore ==
  ASSUME NEW R, NEW chunks \in Seq(R), NEW c \in R, \A d \in R : d.volume \in Int
  PROVE  VolumeOf(Append(chunks, c)) = VolumeOf(chunks) + c.volume
<1> DEFINE n == Len(chunks)
           f == Volumes(chunks)
           more == Append(chunks, c)
           g == Volumes(more)
<1>1. /\ n \in Nat /\ DOMAIN chunks = 1 .. n /\ DOMAIN more = 1 .. (n + 1) /\ more \in Seq(R)
      /\ \A i \in 1 .. n : more[i] = chunks[i] /\ chunks[i] \in R
      /\ more[n + 1] = c
  OBVIOUS
<1>2. n + 1 \in 1 .. (n + 1) /\ \A i \in 1 .. n : i \in 1 .. (n + 1)
  BY <1>1
<1>3. /\ g[n + 1] = c.volume /\ g[n + 1] \in Int
      /\ \A i \in 1 .. n : f[i] \in Int
      /\ \A i \in 1 .. n : g[i] = f[i]
  BY <1>1, <1>2 DEF Volumes
<1>4. VolumeOf(chunks) = Sum(f, 1 .. n) /\ VolumeOf(more) = Sum(g, 1 .. (n + 1))
  BY <1>1, VolumeIsSum
<1> HIDE DEF n, f, g
<1>5. Sum(g, 1 .. (n + 1)) = Sum(f, 1 .. n) + g[n + 1]
  BY <1>1, <1>3, SumAppended
<1>6. QED
  BY <1>3, <1>4, <1>5

LEMMA VolumeOfBoth ==
  ASSUME NEW R, NEW one \in Seq(R), NEW two \in Seq(R), \A d \in R : d.volume \in Int
  PROVE  VolumeOf(one \o two) = VolumeOf(one) + VolumeOf(two)
<1> DEFINE m == Len(one)
           n == Len(two)
           f == Volumes(one)
           g == Volumes(two)
           h == Volumes(one \o two)
<1>1. /\ m \in Nat /\ n \in Nat /\ DOMAIN one = 1 .. m /\ DOMAIN two = 1 .. n
      /\ DOMAIN (one \o two) = 1 .. (m + n) /\ one \o two \in Seq(R)
      /\ \A i \in 1 .. m : (one \o two)[i] = one[i] /\ one[i] \in R
      /\ \A i \in 1 .. n : (one \o two)[m + i] = two[i] /\ two[i] \in R
  OBVIOUS
<1>2. /\ \A i \in 1 .. m : i \in 1 .. (m + n)
      /\ \A i \in 1 .. n : m + i \in 1 .. (m + n)
  BY <1>1
<1>3. /\ \A i \in 1 .. m : f[i] \in Int
      /\ \A i \in 1 .. n : g[i] \in Int
      /\ \A i \in 1 .. m : h[i] = f[i]
      /\ \A i \in 1 .. n : h[m + i] = g[i]
  BY <1>1, <1>2 DEF Volumes
<1>4. /\ VolumeOf(one) = Sum(f, 1 .. m) /\ VolumeOf(two) = Sum(g, 1 .. n)
      /\ VolumeOf(one \o two) = Sum(h, 1 .. (m + n))
  BY <1>1, VolumeIsSum
<1> HIDE DEF m, n, f, g, h
<1>5. Sum(h, 1 .. (m + n)) = Sum(f, 1 .. m) + Sum(g, 1 .. n)
  BY <1>1, <1>3, SumJoined
<1>6. QED
  BY <1>4, <1>5

LEMMA VolumeOfNone == VolumeOf(<<>>) = 0
<1> DEFINE R == [volume : {0}]
<1>1. <<>> \in Seq(R) /\ DOMAIN <<>> = {} /\ \A c \in R : c.volume \in Int
  OBVIOUS
<1>2. VolumeOf(<<>>) = Sum(Volumes(<<>>), {})
  BY <1>1, VolumeIsSum
<1>3. QED
  BY <1>2, SumOfNone

-----------------------------------------------------------------------------
(* Folds over a table.                                                     *)

\* The last of the first places.
LEMMA PlacesUpTo ==
  ASSUME NEW count \in Nat
  PROVE  \A n \in 1 .. count :
           /\ 1 .. n \in SUBSET (1 .. count) /\ 1 .. n # {} /\ 1 .. (n - 1) \in SUBSET (1 .. count)
           /\ Max(1 .. n) = n /\ (1 .. n) \ {n} = 1 .. (n - 1)
<1> SUFFICES ASSUME NEW n \in 1 .. count
             PROVE  /\ 1 .. n \in SUBSET (1 .. count) /\ 1 .. n # {}
                    /\ 1 .. (n - 1) \in SUBSET (1 .. count)
                    /\ Max(1 .. n) = n /\ (1 .. n) \ {n} = 1 .. (n - 1)
  OBVIOUS
<1>1. 1 .. n \in SUBSET Int /\ 1 .. n # {} /\ IsFiniteSet(1 .. n)
  <2>1. IsFiniteSet(1 .. n)
    BY FS_Interval
  <2>2. n \in 1 .. n
    OBVIOUS
  <2>3. QED
    BY <2>1, <2>2
<1>2. Max(1 .. n) \in 1 .. n /\ \A y \in 1 .. n : Max(1 .. n) >= y
  BY <1>1, GreatestNumber
<1>3. n \in 1 .. n
  OBVIOUS
<1>4. Max(1 .. n) = n
  BY <1>2, <1>3
<1>5. \A i \in 1 .. n : i # n <=> i \in 1 .. (n - 1)
  OBVIOUS
<1>6. 1 .. (n - 1) \in SUBSET (1 .. n)
  OBVIOUS
<1>7. (1 .. n) \ {n} = 1 .. (n - 1)
  BY <1>5, <1>6
<1>8. QED
  BY <1>1, <1>4, <1>7

\* A step for each place, from any state to a state.
Stepping(count, T, base, step) ==
  base \in T /\ \A n \in 1 .. count : \A t \in T : step[n][t] \in T

\* What a fold from the left asks of the results on sets of places.
FoldedLeft(count, T, base, step, results) ==
  /\ results \in [SUBSET (1 .. count) -> T]
  /\ \A part \in SUBSET (1 .. count) :
       results[part] = IF part = {} THEN base
                       ELSE step[Max(part)][results[part \ {Max(part)}]]

LEMMA FoldFromTheLeft ==
  ASSUME NEW count \in Nat, NEW T, NEW base, NEW step, Stepping(count, T, base, step)
  PROVE  /\ \A part \in SUBSET (1 .. count) : part # {} => Max(part) \in part
         /\ \E results : FoldedLeft(count, T, base, step, results)
<1> DEFINE D == 1 .. count
           pick == [part \in SUBSET D |-> Max(part)]
<1>1. IsFiniteSet(D) /\ D \in SUBSET Int
  BY FS_Interval
<1>2. \A part \in SUBSET D : part # {} => Max(part) \in part
  <2> SUFFICES ASSUME NEW part \in SUBSET D, part # {}
               PROVE  Max(part) \in part
    OBVIOUS
  <2>1. IsFiniteSet(part) /\ part \in SUBSET Int
    BY <1>1, FS_Subset
  <2>2. QED
    BY <2>1, GreatestNumber
<1>3. \A x \in D : \A t \in T : step[x][t] \in T
  BY DEF Stepping
<1>4. \A part \in SUBSET D : pick[part] = Max(part)
  OBVIOUS
<1>5. base \in T
  BY DEF Stepping
<1> HIDE DEF D, pick
<1>6. Foldable(D, T, base, pick, step)
  BY <1>1, <1>2, <1>3, <1>4, <1>5 DEF Foldable
<1>7. PICK results \in [SUBSET D -> T] : Folded(SUBSET D, base, pick, step, results)
  BY <1>6, FoldExists
<1>8. \A part \in SUBSET D :
        results[part] = IF part = {} THEN base ELSE step[Max(part)][results[part \ {Max(part)}]]
  BY <1>4, <1>7 DEF Folded
<1>9. FoldedLeft(count, T, base, step, results)
  BY <1>8 DEF D, FoldedLeft
<1>10. QED
  BY <1>2, <1>9 DEF D

-----------------------------------------------------------------------------
(* The matching of money.                                                  *)

Chunk == [held : Int, volume : Nat]

\* Lots have a day and an amount of which some may be taken.
Lots(L) ==
  \A lot \in L : /\ lot.day \in Int /\ lot.amount \in Nat
                 /\ \A a \in 0 .. lot.amount : [lot EXCEPT !.amount = a] \in L

DrainStep(acc, lot, day) ==
  LET used == IF acc.left < lot.amount THEN acc.left ELSE lot.amount
  IN [left |-> acc.left - used,
      lots |-> IF used = lot.amount THEN acc.lots
               ELSE Append(acc.lots, [lot EXCEPT !.amount = @ - used]),
      chunks |-> IF used = 0 THEN acc.chunks
                 ELSE Append(acc.chunks, [held |-> day - lot.day, volume |-> used])]

Drained(L) == [left : Nat, lots : Seq(L), chunks : Seq(Chunk)]

LEMMA DrainStepType ==
  ASSUME NEW L, Lots(L), NEW acc \in Drained(L), NEW lot \in L, NEW day \in Int
  PROVE  /\ DrainStep(acc, lot, day) \in Drained(L)
         /\ VolumeOf(DrainStep(acc, lot, day).chunks) + DrainStep(acc, lot, day).left
              = VolumeOf(acc.chunks) + acc.left
<1> DEFINE used == IF acc.left < lot.amount THEN acc.left ELSE lot.amount
           rest == [lot EXCEPT !.amount = @ - used]
           chunk == [held |-> day - lot.day, volume |-> used]
           next == DrainStep(acc, lot, day)
<1>1. /\ acc.left \in Nat /\ lot.amount \in Nat /\ lot.day \in Int
      /\ acc.lots \in Seq(L) /\ acc.chunks \in Seq(Chunk)
  BY DEF Lots, Drained
<1>2. used \in Nat /\ acc.left - used \in Nat /\ lot.amount - used \in 0 .. lot.amount
  BY <1>1
<1>3. rest \in L
  BY <1>2 DEF Lots
<1>4. chunk \in Chunk /\ chunk.volume = used
  BY <1>1, <1>2 DEF Chunk
<1>5. next = [left |-> acc.left - used,
              lots |-> IF used = lot.amount THEN acc.lots ELSE Append(acc.lots, rest),
              chunks |-> IF used = 0 THEN acc.chunks ELSE Append(acc.chunks, chunk)]
  BY DEF DrainStep
<1> HIDE DEF used, rest, chunk, next
<1>6. Append(acc.lots, rest) \in Seq(L) /\ Append(acc.chunks, chunk) \in Seq(Chunk)
  BY <1>1, <1>3, <1>4
<1>7. next \in Drained(L)
  BY <1>1, <1>2, <1>5, <1>6 DEF Drained
<1>8. \A c \in Chunk : c.volume \in Int
  BY DEF Chunk
<1>9. VolumeOf(Append(acc.chunks, chunk)) = VolumeOf(acc.chunks) + used
      /\ VolumeOf(acc.chunks) \in Int
  BY <1>1, <1>4, <1>8, VolumeOfMore, VolumeIsSum
<1>10. VolumeOf(next.chunks) = VolumeOf(acc.chunks) + used /\ next.left = acc.left - used
  BY <1>2, <1>5, <1>9
<1>11. VolumeOf(next.chunks) + next.left = VolumeOf(acc.chunks) + acc.left
  BY <1>1, <1>2, <1>9, <1>10
<1>12. QED
  BY <1>7, <1>11 DEF next

\* Taking an amount visits the lots in their order.
LEMMA DrainRuns ==
  ASSUME NEW L, Lots(L), NEW lots \in Seq(L), NEW day \in Int, NEW amount \in Nat
  PROVE  \E run :
           /\ run[0] = [left |-> amount, lots |-> <<>>, chunks |-> <<>>]
           /\ \A n \in 1 .. Len(lots) : run[n] = DrainStep(run[n - 1], lots[n], day)
           /\ Drain(lots, day, amount) = run[Len(lots)]
<1> DEFINE count == Len(lots)
           D == 1 .. count
           T == Drained(L)
           base == [left |-> amount, lots |-> <<>>, chunks |-> <<>>]
           step == [n \in D |-> [t \in T |-> DrainStep(t, lots[n], day)]]
           Rule(results) == results = [part \in SUBSET DOMAIN lots |->
              IF part = {} THEN base
              ELSE DrainStep(results[part \ {Max(part)}], lots[Max(part)], day)]
<1>1. count \in Nat /\ DOMAIN lots = D /\ \A n \in D : lots[n] \in L
  OBVIOUS
<1>2. Drain(lots, day, amount) = (CHOOSE results : Rule(results))[DOMAIN lots]
  BY DEF Drain, FoldLeft, MapThenFoldSet, DrainStep
<1>3. \A n \in D : \A t \in T : DrainStep(t, lots[n], day) \in T
  BY <1>1, DrainStepType
<1>4. \A n \in D : \A t \in T : step[n][t] = DrainStep(t, lots[n], day)
  OBVIOUS
<1>5. base \in T
  BY DEF Drained
<1> HIDE DEF step, T, base, count
<1>6. Stepping(count, T, base, step)
  BY <1>3, <1>4, <1>5 DEF Stepping
<1>7. /\ \A part \in SUBSET D : part # {} => Max(part) \in part
      /\ \E results : FoldedLeft(count, T, base, step, results)
  BY <1>1, <1>6, FoldFromTheLeft
<1>8. \E results : Rule(results)
  <2>1. PICK results \in [SUBSET D -> T] :
          \A part \in SUBSET D :
            results[part] = IF part = {} THEN base
                            ELSE step[Max(part)][results[part \ {Max(part)}]]
    BY <1>7 DEF FoldedLeft
  <2>2. ASSUME NEW part \in SUBSET D, part # {}
        PROVE  results[part] = DrainStep(results[part \ {Max(part)}], lots[Max(part)], day)
    <3>1. Max(part) \in D /\ results[part \ {Max(part)}] \in T
      BY <1>7, <2>2
    <3>2. QED
      BY <1>4, <2>1, <2>2, <3>1
  <2>3. Rule(results)
    BY <1>1, <2>1, <2>2
  <2>4. QED
    BY <2>3
<1>9. PICK chosen : Rule(chosen) /\ Drain(lots, day, amount) = chosen[D]
  <2> HIDE DEF Rule, D
  <2>1. Rule(CHOOSE results : Rule(results))
    BY <1>8
  <2>2. QED
    BY <1>1, <1>2, <2>1
<1> DEFINE run == [n \in 0 .. count |-> chosen[1 .. n]]
<1>10. run[0] = base
  <2>1. 1 .. 0 = {} /\ {} \in SUBSET D /\ 0 \in 0 .. count
    BY <1>1
  <2>2. QED
    BY <1>1, <1>9, <2>1
<1>11. ASSUME NEW n \in D
       PROVE  run[n] = DrainStep(run[n - 1], lots[n], day)
  <2>1. /\ 1 .. n \in SUBSET D /\ 1 .. n # {} /\ Max(1 .. n) = n
        /\ (1 .. n) \ {n} = 1 .. (n - 1)
    BY <1>1, PlacesUpTo
  <2>2. n \in 0 .. count /\ n - 1 \in 0 .. count
    BY <1>1
  <2>3. chosen[1 .. n] = DrainStep(chosen[1 .. (n - 1)], lots[n], day)
    BY <1>1, <1>9, <2>1
  <2>4. QED
    BY <2>2, <2>3
<1>12. run[count] = chosen[D]
  BY <1>1
<1>13. QED
  <2> HIDE DEF run
  <2>1. QED
    BY <1>9, <1>10, <1>11, <1>12 DEF count, base

\* Nothing of an amount is lost when it is taken: what the lots could not give is left.
LEMMA DrainKeeps ==
  ASSUME NEW L, Lots(L), NEW lots \in Seq(L), NEW day \in Int, NEW amount \in Nat
  PROVE  /\ Drain(lots, day, amount) \in Drained(L)
         /\ VolumeOf(Drain(lots, day, amount).chunks) + Drain(lots, day, amount).left = amount
<1>1. PICK run :
        /\ run[0] = [left |-> amount, lots |-> <<>>, chunks |-> <<>>]
        /\ \A n \in 1 .. Len(lots) : run[n] = DrainStep(run[n - 1], lots[n], day)
        /\ Drain(lots, day, amount) = run[Len(lots)]
  BY DrainRuns
<1> DEFINE good == {n \in Nat : n <= Len(lots) =>
                      run[n] \in Drained(L) /\ VolumeOf(run[n].chunks) + run[n].left = amount}
<1>2. 0 \in good
  <2>1. run[0] \in Drained(L)
    BY <1>1 DEF Drained
  <2>2. QED
    BY <1>1, <2>1, VolumeOfNone
<1>3. ASSUME NEW n \in Nat, n \in good
      PROVE  n + 1 \in good
  <2> SUFFICES ASSUME n + 1 <= Len(lots)
               PROVE  /\ run[n + 1] \in Drained(L)
                      /\ VolumeOf(run[n + 1].chunks) + run[n + 1].left = amount
    OBVIOUS
  <2>1. n + 1 \in 1 .. Len(lots) /\ (n + 1) - 1 = n /\ lots[n + 1] \in L /\ n <= Len(lots)
    OBVIOUS
  <2>2. run[n + 1] = DrainStep(run[n], lots[n + 1], day)
    BY <1>1, <2>1
  <2>3. run[n] \in Drained(L) /\ VolumeOf(run[n].chunks) + run[n].left = amount
    BY <1>3, <2>1
  <2>4. QED
    BY <2>1, <2>2, <2>3, DrainStepType
<1>4. Nat \subseteq good
  <2> HIDE DEF good
  <2>1. QED
    BY <1>2, <1>3, SetInduction
<1>5. Len(lots) \in good
  BY <1>4
<1>6. QED
  BY <1>1, <1>5

LEMMA SumOfNothing ==
  ASSUME NEW S, IsFiniteSet(S), NEW f, \A x \in S : f[x] = 0
  PROVE  Sum(f, S) = 0
<1>1. \A x \in S : f[x] \in Int
  OBVIOUS
<1>2. \A x \in S : f[x] = 0 * f[x]
  OBVIOUS
<1>3. Sum(f, S) = 0 * Sum(f, S)
  BY <1>1, <1>2, SumScaled
<1>4. Sum(f, S) \in Int
  BY <1>1, SumIsNumber
<1>5. QED
  BY <1>3, <1>4

LEMMA FiniteImage ==
  ASSUME NEW S, IsFiniteSet(S), NEW f
  PROVE  IsFiniteSet({f[x] : x \in S})
<1> DEFINE T == {f[x] : x \in S}
           map == [x \in S |-> f[x]]
<1>1. map \in Surjection(S, T)
  BY DEF Surjection
<1>2. QED
  BY <1>1, FS_Surjection

\* Transfers, as the file has them.
Transfers(R) ==
  \A r \in R : r.day \in Nat /\ r.amount \in Nat

Coming(rows, i) == [day |-> rows[i].day, dir |-> "in", order |-> i, amount |-> rows[i].amount]
Going(rows, i) == [day |-> rows[i].day, dir |-> "out", order |-> i, amount |-> rows[i].amount]

\* The events of an account stand one after the other, each once.
InOrder(rows, gid, S, events) ==
  /\ IsFiniteSet(S) /\ Cardinality(S) \in Nat
  /\ \A e \in S : /\ e.order \in DOMAIN rows /\ e.day \in Nat /\ e.amount \in Nat
                  /\ \/ e = Coming(rows, e.order) /\ rows[e.order].dst = gid
                     \/ e = Going(rows, e.order) /\ rows[e.order].src = gid
  /\ DOMAIN events = 1 .. Cardinality(S)
  /\ \A n \in DOMAIN events : events[n] \in S
  /\ \A e \in S : \E n \in DOMAIN events : events[n] = e
  /\ \A m, n \in DOMAIN events : m < n <=> Precedes(events[m], events[n])
  /\ \A m, n \in DOMAIN events : events[m] = events[n] => m = n

\* The events of an account are in order: no two of them are level.
LEMMA MovementsInOrder ==
  ASSUME NEW R, Transfers(R), NEW rows \in Seq(R), NEW gid
  PROVE  InOrder(rows, gid, Movements(rows, gid), Ranked(Movements(rows, gid), Precedes))
<1> DEFINE S == Movements(rows, gid)
           events == Ranked(S, Precedes)
           before == [e \in S |-> {f \in S : Precedes(f, e)}]
           D == DOMAIN rows
<1>1. /\ D = 1 .. Len(rows) /\ IsFiniteSet(D) /\ D \subseteq Int
      /\ \A i \in D : rows[i] \in R /\ rows[i].day \in Nat /\ rows[i].amount \in Nat
  BY TableDomain DEF Transfers
<1>2. S = {Coming(rows, i) : i \in {j \in D : rows[j].dst = gid}}
          \cup {Going(rows, i) : i \in {j \in D : rows[j].src = gid}}
  BY <1>1 DEF Movements, Into, OutOf, Times, Coming, Going
<1>3. IsFiniteSet(S)
  <2> DEFINE ins == {j \in D : rows[j].dst = gid}
             outs == {j \in D : rows[j].src = gid}
             inEvents == {Coming(rows, i) : i \in ins}
             outEvents == {Going(rows, i) : i \in outs}
  <2>1. IsFiniteSet(ins) /\ IsFiniteSet(outs)
    BY <1>1, FS_Subset
  <2>2. IsFiniteSet(inEvents) /\ IsFiniteSet(outEvents)
    <3> DEFINE coming == [i \in ins |-> Coming(rows, i)]
               going == [i \in outs |-> Going(rows, i)]
    <3>1. inEvents = {coming[i] : i \in ins} /\ outEvents = {going[i] : i \in outs}
      OBVIOUS
    <3> HIDE DEF ins, outs, coming, going
    <3>2. IsFiniteSet({coming[i] : i \in ins})
      BY <2>1, FiniteImage
    <3>3. IsFiniteSet({going[i] : i \in outs})
      BY <2>1, FiniteImage
    <3> HIDE DEF inEvents, outEvents
    <3>4. QED
      BY <3>1, <3>2, <3>3
  <2>3. S = inEvents \cup outEvents
    BY <1>2
  <2> HIDE DEF inEvents, outEvents
  <2>4. QED
    BY <2>2, <2>3, FS_Union
<1>4. \A e \in S : /\ e.order \in D /\ e.day \in Nat /\ e.amount \in Nat
                   /\ e.dir \in {"in", "out"}
                   /\ \/ e = Coming(rows, e.order) /\ rows[e.order].dst = gid
                      \/ e = Going(rows, e.order) /\ rows[e.order].src = gid
  <2> SUFFICES ASSUME NEW e \in S
               PROVE  /\ e.order \in D /\ e.day \in Nat /\ e.amount \in Nat
                      /\ e.dir \in {"in", "out"}
                      /\ \/ e = Coming(rows, e.order) /\ rows[e.order].dst = gid
                         \/ e = Going(rows, e.order) /\ rows[e.order].src = gid
    OBVIOUS
  <2>1. CASE \E i \in D : rows[i].dst = gid /\ e = Coming(rows, i)
    <3>1. PICK i \in D : rows[i].dst = gid /\ e = Coming(rows, i)
      BY <2>1
    <3>2. e.order = i /\ e.day = rows[i].day /\ e.amount = rows[i].amount /\ e.dir = "in"
      BY <3>1 DEF Coming
    <3>3. e.order \in D /\ e.day \in Nat /\ e.amount \in Nat /\ e.dir \in {"in", "out"}
      BY <1>1, <3>2
    <3>4. e = Coming(rows, e.order) /\ rows[e.order].dst = gid
      BY <3>1, <3>2
    <3>5. QED
      BY <3>3, <3>4, Zenon
  <2>2. CASE \E i \in D : rows[i].src = gid /\ e = Going(rows, i)
    <3>1. PICK i \in D : rows[i].src = gid /\ e = Going(rows, i)
      BY <2>2
    <3>2. e.order = i /\ e.day = rows[i].day /\ e.amount = rows[i].amount /\ e.dir = "out"
      BY <3>1 DEF Going
    <3>3. e.order \in D /\ e.day \in Nat /\ e.amount \in Nat /\ e.dir \in {"in", "out"}
      BY <1>1, <3>2
    <3>4. e = Going(rows, e.order) /\ rows[e.order].src = gid
      BY <3>1, <3>2
    <3>5. QED
      BY <3>3, <3>4, Zenon
  <2>3. QED
    BY <1>2, <2>1, <2>2
<1>5. \A e, f \in S : e.day = f.day /\ e.dir = f.dir /\ e.order = f.order => e = f
  BY <1>4 DEF Coming, Going
<1>6. before \in [S -> SUBSET S] /\ \A e \in S : before[e] = {f \in S : Precedes(f, e)}
  OBVIOUS
<1>7. DOMAIN events = 1 .. Cardinality(S)
  BY DEF Ranked
<1>8. ASSUME NEW n \in 1 .. Cardinality(S), \E e \in S : Cardinality(before[e]) = n - 1
      PROVE  events[n] \in S /\ Cardinality(before[events[n]]) = n - 1
  <2>1. events[n] = CHOOSE e \in S : Cardinality({f \in S : Precedes(f, e)}) = n - 1
    BY DEF Ranked
  <2>2. \E e \in S : Cardinality({f \in S : Precedes(f, e)}) = n - 1
    BY <1>6, <1>8
  <2> HIDE DEF events, S
  <2>3. events[n] \in S /\ Cardinality({f \in S : Precedes(f, events[n])}) = n - 1
    BY <2>1, <2>2
  <2>4. QED
    BY <1>6, <2>3
<1> HIDE DEF S, events, before, D
<1>9. \A e \in S : e.order \in Int /\ e.day \in Int
  BY <1>1, <1>4
<1>10. \A e \in S : e \notin before[e]
  BY <1>4, <1>6, <1>9 DEF Precedes
<1>11. \A e, f \in S : f \in before[e] => before[f] \subseteq before[e]
  BY <1>4, <1>6, <1>9, SMTT(30) DEF Precedes
<1>12. \A e, f \in S : e = f \/ e \in before[f] \/ f \in before[e]
  BY <1>4, <1>5, <1>6, <1>9, SMTT(30) DEF Precedes
<1>13. StrictOrder(S, before) /\ Placed(S, before, events)
  BY <1>6, <1>7, <1>8, <1>10, <1>11, <1>12 DEF StrictOrder, Placed
<1>14. /\ Cardinality(S) \in Nat /\ DOMAIN events = 1 .. Cardinality(S)
       /\ \A n \in DOMAIN events : events[n] \in S
       /\ \A e \in S : \E n \in DOMAIN events : events[n] = e
       /\ \A m, n \in DOMAIN events : m < n <=> events[m] \in before[events[n]]
       /\ \A m, n \in DOMAIN events : events[m] = events[n] => m = n
  BY <1>3, <1>13, TableOfASet
<1>15. \A m, n \in DOMAIN events : m < n <=> Precedes(events[m], events[n])
  BY <1>6, <1>14
<1>16. QED
  BY <1>3, <1>4, <1>14, <1>15 DEF S, events, D, InOrder

MatchStep(acc, e) ==
  IF e.dir = "in"
  THEN [acc EXCEPT !.lots = Append(@, [day |-> e.day, amount |-> e.amount])]
  ELSE LET d == Drain(acc.lots, e.day, e.amount)
       IN [lots |-> d.lots, chunks |-> acc.chunks \o d.chunks,
           observed |-> acc.observed + e.amount, unmatched |-> acc.unmatched + d.left]

Lot == [day : Int, amount : Nat]

Matches == [lots : Seq(Lot), chunks : Seq(Chunk), observed : Nat, unmatched : Nat]

LEMMA ChunkVolumes == \A c \in Chunk : c.volume \in Int
  BY DEF Chunk

LEMMA LotsOfMatches == Lots(Lot)
  BY DEF Lots, Lot

LEMMA MatchStepType ==
  ASSUME NEW acc \in Matches, NEW e, e.day \in Nat, e.amount \in Nat
  PROVE  LET next == MatchStep(acc, e)
         IN  /\ next \in Matches
             /\ next.observed = acc.observed + (IF e.dir = "in" THEN 0 ELSE e.amount)
             /\ VolumeOf(acc.chunks) + acc.unmatched = acc.observed
                  => VolumeOf(next.chunks) + next.unmatched = next.observed
<1> DEFINE next == MatchStep(acc, e)
<1>1. /\ acc.lots \in Seq(Lot) /\ acc.chunks \in Seq(Chunk)
      /\ acc.observed \in Nat /\ acc.unmatched \in Nat
  BY DEF Matches
<1>2. VolumeOf(acc.chunks) \in Int
  BY <1>1, ChunkVolumes, VolumeIsSum
<1>3. CASE e.dir = "in"
  <2> DEFINE lot == [day |-> e.day, amount |-> e.amount]
             more == Append(acc.lots, lot)
  <2>1. lot \in Lot
    BY DEF Lot
  <2>2. more \in Seq(Lot)
    BY <1>1, <2>1
  <2>3. next = [acc EXCEPT !.lots = more]
    BY <1>3 DEF MatchStep
  <2> HIDE DEF lot, more, next
  <2>4. /\ next \in Matches
        /\ next.observed = acc.observed /\ next.chunks = acc.chunks
        /\ next.unmatched = acc.unmatched
    BY <2>2, <2>3 DEF Matches
  <2>5. QED
    BY <1>1, <1>3, <2>4 DEF next
<1>4. CASE e.dir # "in"
  <2> DEFINE d == Drain(acc.lots, e.day, e.amount)
             both == acc.chunks \o d.chunks
  <2>1. d \in Drained(Lot) /\ VolumeOf(d.chunks) + d.left = e.amount
    BY <1>1, LotsOfMatches, DrainKeeps
  <2>2. d.lots \in Seq(Lot) /\ d.chunks \in Seq(Chunk) /\ d.left \in Nat
    BY <2>1 DEF Drained
  <2>3. both \in Seq(Chunk)
    BY <1>1, <2>2
  <2>4. VolumeOf(both) = VolumeOf(acc.chunks) + VolumeOf(d.chunks) /\ VolumeOf(d.chunks) \in Int
    BY <1>1, <2>2, ChunkVolumes, VolumeOfBoth, VolumeIsSum
  <2>5. next = [lots |-> d.lots, chunks |-> both,
                observed |-> acc.observed + e.amount, unmatched |-> acc.unmatched + d.left]
    BY <1>4 DEF MatchStep
  <2> HIDE DEF d, both, next
  <2>6. next \in Matches
    BY <1>1, <2>2, <2>3, <2>5 DEF Matches
  <2>7. /\ next.observed = acc.observed + e.amount
        /\ next.chunks = both /\ next.unmatched = acc.unmatched + d.left
    BY <2>5
  <2>8. VolumeOf(acc.chunks) + acc.unmatched = acc.observed
          => VolumeOf(next.chunks) + next.unmatched = next.observed
    BY <1>1, <1>2, <2>1, <2>2, <2>4, <2>7
  <2>9. QED
    BY <1>4, <2>6, <2>7, <2>8 DEF next
<1>5. QED
  BY <1>3, <1>4

\* The matching visits the events of the account in their order.
LEMMA MatchRuns ==
  ASSUME NEW R, Transfers(R), NEW rows \in Seq(R), NEW gid
  PROVE  LET events == Ranked(Movements(rows, gid), Precedes)
             count == Cardinality(Movements(rows, gid))
         IN  \E run :
               /\ run[0] = [lots |-> <<>>, chunks |-> <<>>, observed |-> 0, unmatched |-> 0]
               /\ \A n \in 1 .. count : run[n] = MatchStep(run[n - 1], events[n])
               /\ Matched(rows, gid) = run[count]
<1> DEFINE events == Ranked(Movements(rows, gid), Precedes)
           count == Cardinality(Movements(rows, gid))
           D == 1 .. count
           T == Matches
           base == [lots |-> <<>>, chunks |-> <<>>, observed |-> 0, unmatched |-> 0]
           step == [n \in D |-> [t \in T |-> MatchStep(t, events[n])]]
           Rule(results) == results = [part \in SUBSET DOMAIN events |->
              IF part = {} THEN base
              ELSE MatchStep(results[part \ {Max(part)}], events[Max(part)])]
<1>1. Matched(rows, gid) = (CHOOSE results : Rule(results))[DOMAIN events]
  BY DEF Matched, FoldLeft, MapThenFoldSet, MatchStep
<1>2. count \in Nat /\ DOMAIN events = D
      /\ \A n \in D : events[n].day \in Nat /\ events[n].amount \in Nat
  <2> DEFINE S == Movements(rows, gid)
  <2>1. InOrder(rows, gid, S, events)
    BY MovementsInOrder
  <2> HIDE DEF S, events
  <2>2. QED
    BY <2>1 DEF S, InOrder
<1>3. \A n \in D : \A t \in T : MatchStep(t, events[n]) \in T
  BY <1>2, MatchStepType
<1>4. \A n \in D : \A t \in T : step[n][t] = MatchStep(t, events[n])
  OBVIOUS
<1>5. base \in T
  BY DEF Matches
<1> HIDE DEF step, T, base, count, events
<1>6. Stepping(count, T, base, step)
  BY <1>3, <1>4, <1>5 DEF Stepping
<1>7. /\ \A part \in SUBSET D : part # {} => Max(part) \in part
      /\ \E results : FoldedLeft(count, T, base, step, results)
  BY <1>2, <1>6, FoldFromTheLeft
<1>8. \E results : Rule(results)
  <2>1. PICK results \in [SUBSET D -> T] :
          \A part \in SUBSET D :
            results[part] = IF part = {} THEN base
                            ELSE step[Max(part)][results[part \ {Max(part)}]]
    BY <1>7 DEF FoldedLeft
  <2>2. ASSUME NEW part \in SUBSET D, part # {}
        PROVE  results[part] = MatchStep(results[part \ {Max(part)}], events[Max(part)])
    <3>1. Max(part) \in D /\ results[part \ {Max(part)}] \in T
      BY <1>7, <2>2
    <3>2. QED
      BY <1>4, <2>1, <2>2, <3>1
  <2>3. Rule(results)
    BY <1>2, <2>1, <2>2
  <2>4. QED
    BY <2>3
<1>9. PICK chosen : Rule(chosen) /\ Matched(rows, gid) = chosen[D]
  <2> HIDE DEF Rule, D
  <2>1. Rule(CHOOSE results : Rule(results))
    BY <1>8
  <2>2. QED
    BY <1>1, <1>2, <2>1
<1> DEFINE run == [n \in 0 .. count |-> chosen[1 .. n]]
<1>10. run[0] = base
  <2>1. 1 .. 0 = {} /\ {} \in SUBSET D /\ 0 \in 0 .. count
    BY <1>2
  <2>2. QED
    BY <1>2, <1>9, <2>1
<1>11. ASSUME NEW n \in D
       PROVE  run[n] = MatchStep(run[n - 1], events[n])
  <2>1. /\ 1 .. n \in SUBSET D /\ 1 .. n # {} /\ Max(1 .. n) = n
        /\ (1 .. n) \ {n} = 1 .. (n - 1)
    BY <1>2, PlacesUpTo
  <2>2. n \in 0 .. count /\ n - 1 \in 0 .. count
    BY <1>2
  <2>3. chosen[1 .. n] = MatchStep(chosen[1 .. (n - 1)], events[n])
    BY <1>2, <1>9, <2>1
  <2>4. QED
    BY <2>2, <2>3
<1>12. run[count] = chosen[D]
  BY <1>2
<1>13. QED
  <2> HIDE DEF run
  <2>1. QED
    BY <1>9, <1>10, <1>11, <1>12 DEF count, base, events

\* What goes out of an account is matched or missing, and each transfer is counted once.
LEMMA MatchedOrMissing ==
  ASSUME NEW R, Transfers(R), NEW rows \in Seq(R), NEW gid
  PROVE  LET m == Matched(rows, gid)
         IN  /\ m \in Matches
             /\ VolumeOf(m.chunks) + m.unmatched = m.observed
             /\ m.observed = Sum(Amounts(rows), OutOf(rows, gid))
<1> DEFINE S == Movements(rows, gid)
           events == Ranked(S, Precedes)
           count == Cardinality(S)
           out == [n \in 1 .. count |-> IF events[n].dir = "in" THEN 0 ELSE events[n].amount]
           took == [e \in S |-> IF e.dir = "in" THEN 0 ELSE e.amount]
           outs == OutOf(rows, gid)
           going == [i \in outs |-> Going(rows, i)]
           goings == {e \in S : e.dir # "in"}
           f == Amounts(rows)
<1>1. IsFiniteSet(S) /\ count \in Nat /\ InOrder(rows, gid, S, events)
  <2>1. InOrder(rows, gid, S, events)
    BY MovementsInOrder
  <2>2. QED
    BY <2>1 DEF InOrder
<1> HIDE DEF S, events
<1>2. \A e \in S : /\ e.order \in DOMAIN rows
                   /\ \/ e = Coming(rows, e.order) /\ rows[e.order].dst = gid
                      \/ e = Going(rows, e.order) /\ rows[e.order].src = gid
  BY <1>1 DEF InOrder
<1>3. /\ IsFiniteSet(DOMAIN rows) /\ DOMAIN rows = 1 .. Len(rows)
      /\ \A i \in DOMAIN rows : rows[i].amount \in Nat
  BY TableDomain DEF Transfers
<1>4. /\ outs = {i \in DOMAIN rows : rows[i].src = gid}
      /\ \A i \in outs : Going(rows, i) \in S /\ f[i] = rows[i].amount /\ f[i] \in Int
  BY <1>3 DEF OutOf, Times, Movements, Going, Amounts, S
<1>5. /\ \A n \in 1 .. count : out[n] \in Nat /\ took[events[n]] = out[n]
      /\ \A n \in 1 .. count :
           out[n] = (IF events[n].dir = "in" THEN 0 ELSE events[n].amount)
      /\ \A e \in S : took[e] \in Nat /\ took[e] = IF e.dir = "in" THEN 0 ELSE e.amount
  BY <1>1 DEF InOrder
<1>6. PICK run :
        /\ run[0] = [lots |-> <<>>, chunks |-> <<>>, observed |-> 0, unmatched |-> 0]
        /\ \A n \in 1 .. count : run[n] = MatchStep(run[n - 1], events[n])
        /\ Matched(rows, gid) = run[count]
  BY MatchRuns DEF events, S
<1> HIDE DEF count, out, took
<1> DEFINE good == {n \in Nat : n <= count =>
                      /\ run[n] \in Matches
                      /\ VolumeOf(run[n].chunks) + run[n].unmatched = run[n].observed
                      /\ run[n].observed = Sum(out, 1 .. n)}
<1>7. 0 \in good
  <2>1. run[0] \in Matches
    BY <1>6 DEF Matches
  <2>2. 1 .. 0 = {}
    OBVIOUS
  <2>3. Sum(out, 1 .. 0) = 0
    BY <2>2, SumOfNone
  <2>4. QED
    BY <1>6, <2>1, <2>3, VolumeOfNone
<1>8. ASSUME NEW n \in Nat, n \in good
      PROVE  n + 1 \in good
  <2> SUFFICES ASSUME n + 1 <= count
               PROVE  /\ run[n + 1] \in Matches
                      /\ VolumeOf(run[n + 1].chunks) + run[n + 1].unmatched = run[n + 1].observed
                      /\ run[n + 1].observed = Sum(out, 1 .. (n + 1))
    OBVIOUS
  <2>1. n + 1 \in 1 .. count /\ (n + 1) - 1 = n /\ n <= count
    BY <1>1
  <2>2. run[n + 1] = MatchStep(run[n], events[n + 1])
    BY <1>6, <2>1
  <2>3. /\ run[n] \in Matches
        /\ VolumeOf(run[n].chunks) + run[n].unmatched = run[n].observed
        /\ run[n].observed = Sum(out, 1 .. n)
    BY <1>8, <2>1
  <2>4. /\ run[n + 1] \in Matches
        /\ VolumeOf(run[n + 1].chunks) + run[n + 1].unmatched = run[n + 1].observed
        /\ run[n + 1].observed = run[n].observed + out[n + 1]
    <3>1. /\ events[n + 1].day \in Nat /\ events[n + 1].amount \in Nat
          /\ out[n + 1] = (IF events[n + 1].dir = "in" THEN 0 ELSE events[n + 1].amount)
      BY <1>1, <1>5, <2>1 DEF InOrder, count
    <3>2. QED
      BY <2>2, <2>3, <3>1, MatchStepType
  <2>5. out[n + 1] \in Int /\ \A i \in 1 .. n : out[i] \in Int
    BY <1>1, <1>5, <2>1
  <2>6. Sum(out, 1 .. (n + 1)) = Sum(out, 1 .. n) + out[n + 1]
    BY <2>5, SumAppended
  <2>7. QED
    BY <2>3, <2>4, <2>6
<1>9. Nat \subseteq good
  <2> HIDE DEF good
  <2>1. QED
    BY <1>7, <1>8, SetInduction
<1>10. count \in good
  BY <1>1, <1>9
<1>11. Sum(out, 1 .. count) = Sum(took, S)
  <2> DEFINE places == 1 .. count
  <2>1. IsFiniteSet(places)
    BY <1>1, FS_Interval
  <2>2. Renames(places, events, S)
    BY <1>1 DEF Renames, InOrder, count
  <2>3. /\ \A n \in places : out[n] \in Int
        /\ \A n \in places : took[events[n]] = out[n]
    BY <1>5
  <2> HIDE DEF places
  <2>4. Sum(out, places) = Sum(took, S)
    BY <2>1, <2>2, <2>3, SumRenamed
  <2>5. QED
    BY <2>4 DEF places
<1>12. Sum(took, S) = Sum(took, goings)
  <2> DEFINE comings == S \ goings
  <2>1. /\ goings \in SUBSET S /\ IsFiniteSet(comings) /\ IsFiniteSet(goings)
        /\ \A e \in S : took[e] \in Int
    <3>1. goings \in SUBSET S /\ comings \in SUBSET S /\ \A e \in S : took[e] \in Int
      BY <1>5
    <3>2. QED
      BY <1>1, <3>1, FS_Subset
  <2>2. \A e \in comings : took[e] = 0
    BY <1>5
  <2>3. Sum(took, comings) = 0
    <3> HIDE DEF comings
    <3>1. QED
      BY <2>1, <2>2, SumOfNothing
  <2> HIDE DEF goings
  <2>4. Sum(took, S) = Sum(took, S \ goings) + Sum(took, goings)
    BY <1>1, <2>1, SumSplit
  <2>5. Sum(took, goings) \in Int
    BY <2>1, SumIsNumber
  <2>6. QED
    BY <2>3, <2>4, <2>5
<1>13. Sum(f, outs) = Sum(took, goings)
  <2>1. \A i \in outs : going[i] \in goings /\ going[i].order = i
    BY <1>4 DEF Going
  <2>2. \A e \in goings : e.order \in outs /\ going[e.order] = e
    <3> SUFFICES ASSUME NEW e \in goings
                 PROVE  e.order \in outs /\ going[e.order] = e
      OBVIOUS
    <3>1. e # Coming(rows, e.order)
      BY DEF Coming
    <3>2. /\ e = Going(rows, e.order) /\ rows[e.order].src = gid /\ e.order \in DOMAIN rows
      BY <1>2, <3>1
    <3>3. e.order \in outs
      BY <1>4, <3>2
    <3>4. QED
      BY <3>2, <3>3
  <2>3. \A i \in outs : took[going[i]] = f[i]
    <3> SUFFICES ASSUME NEW i \in outs
                 PROVE  took[going[i]] = f[i]
      OBVIOUS
    <3>1. going[i] \in S /\ going[i].dir # "in" /\ going[i].amount = rows[i].amount
      BY <1>4 DEF Going
    <3>2. QED
      BY <1>4, <1>5, <3>1
  <2>4. \A i \in outs : f[i] \in Int
    BY <1>4
  <2>5. IsFiniteSet(outs)
    BY <1>3, <1>4, FS_Subset
  <2> HIDE DEF goings, going, f, outs
  <2>6. Renames(outs, going, goings)
    <3>1. \A i, j \in outs : going[i] = going[j] => i = j
      BY <2>1
    <3>2. QED
      BY <2>1, <2>2, <3>1 DEF Renames
  <2>7. QED
    BY <2>3, <2>4, <2>5, <2>6, SumRenamed
<1>14. QED
  BY <1>1, <1>6, <1>10, <1>11, <1>12, <1>13

-----------------------------------------------------------------------------
(* The pairs of a table.                                                   *)

PairAt(rows) == [i \in DOMAIN rows |-> <<rows[i].src, rows[i].dst>>]

LEMMA PairsAreOfRows ==
  ASSUME NEW R, NEW rows \in Seq(R)
  PROVE  /\ PairsOf(rows) = {PairAt(rows)[i] : i \in DOMAIN rows}
         /\ IsFiniteSet(PairsOf(rows))
         /\ \A i \in DOMAIN rows : /\ PairAt(rows)[i] = <<rows[i].src, rows[i].dst>>
                                   /\ PairAt(rows)[i] \in PairsOf(rows)
<1>1. IsFiniteSet(DOMAIN rows)
  BY TableDomain
<1>2. PairsOf(rows) = {PairAt(rows)[i] : i \in DOMAIN rows}
  BY DEF PairsOf, ToSet, PairAt
<1>3. IsFiniteSet({PairAt(rows)[i] : i \in DOMAIN rows})
  BY <1>1, FiniteImage
<1>4. \A i \in DOMAIN rows : PairAt(rows)[i] = <<rows[i].src, rows[i].dst>>
  BY DEF PairAt
<1>5. QED
  BY <1>2, <1>3, <1>4

\* What a graph has for its edges is what the rows have for their pairs.
OfPairs(rows, f, of) ==
  /\ \A i \in DOMAIN rows : f[i] \in Int
  /\ \A p \in PairsOf(rows) : of[p] = Sum(f, {i \in DOMAIN rows : PairAt(rows)[i] = p})

PairsOfSide(rows, side, gid) == {p \in PairsOf(rows) : p[side] = gid}
PlacesOfSide(rows, side, gid) == {i \in DOMAIN rows : PairAt(rows)[i][side] = gid}

\* The edges on one side of an account have what the rows on that side have.
LEMMA SumOfSide ==
  ASSUME NEW R, NEW rows \in Seq(R), NEW f, NEW of, OfPairs(rows, f, of),
         NEW side \in {1, 2}, NEW gid
  PROVE  Sum(of, PairsOfSide(rows, side, gid)) = Sum(f, PlacesOfSide(rows, side, gid))
<1> DEFINE D == DOMAIN rows
           key == PairAt(rows)
           pairs == PairsOf(rows)
           P == {p \in pairs : p[side] = gid}
           S == {i \in D : key[i][side] = gid}
<1>1. IsFiniteSet(D) /\ IsFiniteSet(pairs) /\ \A i \in D : key[i] \in pairs
  BY TableDomain, PairsAreOfRows
<1>2. IsFiniteSet(S) /\ IsFiniteSet(P) /\ \A i \in S : f[i] \in Int
  BY <1>1, FS_Subset DEF OfPairs
<1>3. \A i \in S : key[i] \in P
  BY <1>1
<1>4. ASSUME NEW p \in P
      PROVE  of[p] = Sum(f, {i \in S : key[i] = p})
  <2>1. {i \in S : key[i] = p} = {i \in D : key[i] = p}
    OBVIOUS
  <2>2. of[p] = Sum(f, {i \in D : key[i] = p})
    BY DEF OfPairs
  <2> HIDE DEF D, key, S
  <2>3. QED
    BY <2>1, <2>2
<1> HIDE DEF D, key, pairs, S, P
<1>5. Grouped(S, f, P, key, of)
  BY <1>3, <1>4 DEF Grouped
<1>6. Sum(f, S) = Sum(of, P)
  BY <1>2, <1>5, SumByKey
<1>7. QED
  BY <1>6 DEF S, P, D, key, pairs, PairsOfSide, PlacesOfSide

LEMMA PairTotals ==
  ASSUME NEW R, NEW rows \in Seq(R), \A r \in R : r.amount \in Int, NEW ones,
         ones = [i \in DOMAIN rows |-> 1]
  PROVE  /\ OfPairs(rows, Amounts(rows), [p \in PairsOf(rows) |-> SumOfPair(rows, p)])
         /\ OfPairs(rows, ones, [p \in PairsOf(rows) |-> CountOfPair(rows, p)])
<1>1. ASSUME NEW p \in PairsOf(rows)
      PROVE  /\ SumOfPair(rows, p) = Sum(Amounts(rows), {i \in DOMAIN rows : PairAt(rows)[i] = p})
             /\ CountOfPair(rows, p) = Sum(ones, {i \in DOMAIN rows : PairAt(rows)[i] = p})
  <2> DEFINE places == {i \in DOMAIN rows : PairAt(rows)[i] = p}
  <2>1. places = {i \in DOMAIN rows : <<rows[i].src, rows[i].dst>> = p}
    BY DEF PairAt
  <2>2. OfPair(rows, p) = Picked(rows, places)
    BY <2>1 DEF OfPair, Where
  <2>3. places \in SUBSET DOMAIN rows
    OBVIOUS
  <2>4. \A i \in places : ones[i] = 1
    OBVIOUS
  <2> HIDE DEF places
  <2>5. SumOfPair(rows, p) = Sum(Amounts(rows), places)
    BY <2>2, <2>3, TotalOfPicked DEF SumOfPair
  <2>6. IsFiniteSet(places) /\ CountOfPair(rows, p) = Cardinality(places)
    BY <2>2, <2>3, PickedRows DEF CountOfPair
  <2>7. Sum(ones, places) = Cardinality(places)
    BY <2>4, <2>6, SumOfOnes
  <2>8. QED
    BY <2>5, <2>6, <2>7 DEF places
<1>2. \A i \in DOMAIN rows : ones[i] \in Int /\ Amounts(rows)[i] \in Int
  BY TableDomain DEF Amounts
<1>3. QED
  BY <1>1, <1>2 DEF OfPairs

-----------------------------------------------------------------------------
(* Searches.                                                               *)

\* One more step of a search.
Spread(pairs, seen) == seen \cup {e[2] : e \in {p \in pairs : p[1] \in seen}}

LEMMA WithinRuns ==
  ASSUME NEW pairs, NEW start, NEW steps \in Nat
  PROVE  \E run : /\ run[0] = start
                  /\ \A n \in 1 .. steps : run[n] = Spread(pairs, run[n - 1])
                  /\ Within(pairs, start, steps) = run[steps]
<1> DEFINE D == 1 .. steps
           places == [n \in D |-> n]
           T == SUBSET (start \cup {e[2] : e \in pairs})
           step == [n \in D |-> [t \in T |-> Spread(pairs, t)]]
           Rule(results) == results = [part \in SUBSET DOMAIN places |->
              IF part = {} THEN start ELSE Spread(pairs, results[part \ {Max(part)}])]
<1>1. Within(pairs, start, steps) = (CHOOSE results : Rule(results))[DOMAIN places]
  BY DEF Within, FoldLeft, MapThenFoldSet, Spread
<1>2. DOMAIN places = D
  OBVIOUS
<1>3. \A n \in D : \A t \in T : Spread(pairs, t) \in T
  BY DEF Spread
<1>4. \A n \in D : \A t \in T : step[n][t] = Spread(pairs, t)
  OBVIOUS
<1>5. start \in T
  OBVIOUS
<1> HIDE DEF step, T, places
<1>6. Stepping(steps, T, start, step)
  BY <1>3, <1>4, <1>5 DEF Stepping
<1>7. /\ \A part \in SUBSET D : part # {} => Max(part) \in part
      /\ \E results : FoldedLeft(steps, T, start, step, results)
  BY <1>6, FoldFromTheLeft
<1>8. \E results : Rule(results)
  <2>1. PICK results \in [SUBSET D -> T] :
          \A part \in SUBSET D :
            results[part] = IF part = {} THEN start
                            ELSE step[Max(part)][results[part \ {Max(part)}]]
    BY <1>7 DEF FoldedLeft
  <2>2. ASSUME NEW part \in SUBSET D, part # {}
        PROVE  results[part] = Spread(pairs, results[part \ {Max(part)}])
    <3>1. Max(part) \in D /\ results[part \ {Max(part)}] \in T
      BY <1>7, <2>2
    <3>2. QED
      BY <1>4, <2>1, <2>2, <3>1
  <2>3. Rule(results)
    BY <1>2, <2>1, <2>2
  <2>4. QED
    BY <2>3
<1>9. PICK chosen : Rule(chosen) /\ Within(pairs, start, steps) = chosen[D]
  <2> HIDE DEF Rule, D
  <2>1. Rule(CHOOSE results : Rule(results))
    BY <1>8
  <2>2. QED
    BY <1>1, <1>2, <2>1
<1> DEFINE run == [n \in 0 .. steps |-> chosen[1 .. n]]
<1>10. run[0] = start
  <2>1. 1 .. 0 = {} /\ {} \in SUBSET D /\ 0 \in 0 .. steps
    OBVIOUS
  <2>2. QED
    BY <1>2, <1>9, <2>1
<1>11. ASSUME NEW n \in D
       PROVE  run[n] = Spread(pairs, run[n - 1])
  <2>1. /\ 1 .. n \in SUBSET D /\ 1 .. n # {} /\ Max(1 .. n) = n
        /\ (1 .. n) \ {n} = 1 .. (n - 1)
    BY PlacesUpTo
  <2>2. n \in 0 .. steps /\ n - 1 \in 0 .. steps
    OBVIOUS
  <2>3. chosen[1 .. n] = Spread(pairs, chosen[1 .. (n - 1)])
    BY <1>2, <1>9, <2>1
  <2>4. QED
    BY <2>2, <2>3
<1>12. run[steps] = chosen[D]
  OBVIOUS
<1>13. QED
  <2> HIDE DEF run
  <2>1. QED
    BY <1>9, <1>10, <1>11, <1>12

\* A search of one step more goes on from where the shorter one ended.
LEMMA WithinStep ==
  ASSUME NEW pairs, NEW start
  PROVE  /\ Within(pairs, start, 0) = start
         /\ \A n \in Nat : Within(pairs, start, n + 1) = Spread(pairs, Within(pairs, start, n))
<1>1. Within(pairs, start, 0) = start
  BY WithinRuns
<1>2. ASSUME NEW n \in Nat
      PROVE  Within(pairs, start, n + 1) = Spread(pairs, Within(pairs, start, n))
  <2>1. PICK one : /\ one[0] = start
                   /\ \A m \in 1 .. n : one[m] = Spread(pairs, one[m - 1])
                   /\ Within(pairs, start, n) = one[n]
    BY WithinRuns
  <2>2. n + 1 \in Nat
    OBVIOUS
  <2>3. PICK two : /\ two[0] = start
                   /\ \A m \in 1 .. (n + 1) : two[m] = Spread(pairs, two[m - 1])
                   /\ Within(pairs, start, n + 1) = two[n + 1]
    BY <2>2, WithinRuns
  <2> DEFINE same == {m \in Nat : m <= n => one[m] = two[m]}
  <2>4. 0 \in same
    BY <2>1, <2>3
  <2>5. ASSUME NEW m \in Nat, m \in same
        PROVE  m + 1 \in same
    <3> SUFFICES ASSUME m + 1 <= n
                 PROVE  one[m + 1] = two[m + 1]
      OBVIOUS
    <3>1. m + 1 \in 1 .. n /\ m + 1 \in 1 .. (n + 1) /\ (m + 1) - 1 = m /\ m <= n
      OBVIOUS
    <3>2. one[m] = two[m]
      BY <2>5, <3>1
    <3>3. one[m + 1] = Spread(pairs, one[m]) /\ two[m + 1] = Spread(pairs, two[m])
      BY <2>1, <2>3, <3>1
    <3>4. QED
      BY <3>2, <3>3
  <2>6. Nat \subseteq same
    <3> HIDE DEF same
    <3>1. QED
      BY <2>4, <2>5, SetInduction
  <2>7. one[n] = two[n]
    BY <2>6
  <2>8. n + 1 \in 1 .. (n + 1) /\ (n + 1) - 1 = n
    OBVIOUS
  <2>9. QED
    BY <2>1, <2>3, <2>7, <2>8
<1>3. QED
  BY <1>1, <1>2

LEMMA SpreadFacts ==
  ASSUME NEW pairs, NEW S
  PROVE  /\ S \subseteq Spread(pairs, S)
         /\ \A e \in pairs : e[1] \in S => e[2] \in Spread(pairs, S)
         /\ \A x \in Spread(pairs, S) : x \in S \/ \E e \in pairs : e[1] \in S /\ e[2] = x
  BY DEF Spread

\* What is reached: no search leaves a set that the pairs do not lead out of, and after
\* as many steps as there are accounts, nothing more is to be reached.
Kept(pairs, S) == \A e \in pairs : e[1] \in S => e[2] \in S

LEMMA WithinStays ==
  ASSUME NEW pairs, NEW S, Kept(pairs, S), NEW start \in SUBSET S, NEW steps \in Nat
  PROVE  Within(pairs, start, steps) \subseteq S
<1> DEFINE good == {n \in Nat : Within(pairs, start, n) \subseteq S}
<1>1. 0 \in good
  BY WithinStep
<1>2. ASSUME NEW n \in Nat, n \in good
      PROVE  n + 1 \in good
  <2>1. Within(pairs, start, n + 1) = Spread(pairs, Within(pairs, start, n))
    BY WithinStep
  <2>2. Spread(pairs, Within(pairs, start, n)) \subseteq S
    BY <1>2 DEF Spread, Kept
  <2>3. QED
    BY <2>1, <2>2
<1>3. Nat \subseteq good
  <2> HIDE DEF good
  <2>1. QED
    BY <1>1, <1>2, SetInduction
<1>4. QED
  BY <1>3

LEMMA WithinGrows ==
  ASSUME NEW pairs, NEW start, NEW n \in Nat
  PROVE  /\ Within(pairs, start, n) \subseteq Within(pairs, start, n + 1)
         /\ start \subseteq Within(pairs, start, n)
<1> DEFINE good == {m \in Nat : start \subseteq Within(pairs, start, m)}
<1>1. \A m \in Nat : Within(pairs, start, m) \subseteq Within(pairs, start, m + 1)
  <2> SUFFICES ASSUME NEW m \in Nat
               PROVE  Within(pairs, start, m) \subseteq Within(pairs, start, m + 1)
    OBVIOUS
  <2>1. Within(pairs, start, m + 1) = Spread(pairs, Within(pairs, start, m))
    BY WithinStep
  <2>2. QED
    BY <2>1, SpreadFacts
<1>2. 0 \in good
  BY WithinStep
<1>3. \A m \in Nat : m \in good => m + 1 \in good
  BY <1>1
<1>4. Nat \subseteq good
  <2> HIDE DEF good
  <2>1. QED
    BY <1>2, <1>3, SetInduction
<1>5. QED
  BY <1>1, <1>4

LEMMA WithinEnds ==
  ASSUME NEW U, IsFiniteSet(U), NEW pairs, \A e \in pairs : e[2] \in U, NEW gid \in U
  PROVE  LET found == Within(pairs, {gid}, Cardinality(U))
         IN  gid \in found /\ found \subseteq U /\ Kept(pairs, found)
<1> DEFINE at(n) == Within(pairs, {gid}, n)
           size == Cardinality(U)
           good == {n \in Nat : Kept(pairs, at(n)) \/ Cardinality(at(n)) > n}
<1>1. size \in Nat
  BY FS_CardinalityType
<1>2. Kept(pairs, U)
  BY DEF Kept
<1>3. \A n \in Nat : /\ at(n) \subseteq U /\ gid \in at(n) /\ at(n + 1) = Spread(pairs, at(n))
                     /\ at(n) \subseteq at(n + 1)
  BY <1>2, WithinStays, WithinGrows, WithinStep, SMTT(30)
<1>4. \A n \in Nat : /\ IsFiniteSet(at(n)) /\ Cardinality(at(n)) \in Nat
                     /\ Cardinality(at(n)) <= size
  BY <1>3, FS_Subset, FS_CardinalityType
<1>5. at(0) = {gid}
  BY WithinStep
<1> HIDE DEF at
<1>6. 0 \in good
  <2>1. Cardinality(at(0)) = 1
    BY <1>5, FS_Singleton
  <2>2. QED
    BY <2>1
<1>7. ASSUME NEW n \in Nat, n \in good
      PROVE  n + 1 \in good
  <2>1. CASE at(n + 1) = at(n)
    <3>1. Kept(pairs, at(n))
      BY <1>3, <2>1, SpreadFacts DEF Kept
    <3>2. QED
      BY <2>1, <3>1
  <2>2. CASE at(n + 1) # at(n)
    <3>1. ~ Kept(pairs, at(n))
      <4> SUFFICES ASSUME Kept(pairs, at(n)) PROVE FALSE
        OBVIOUS
      <4>1. at(n + 1) = Spread(pairs, at(n)) /\ at(n) \subseteq at(n + 1)
        BY <1>3
      <4>2. at(n + 1) \subseteq at(n)
        BY <4>1, SpreadFacts DEF Kept
      <4>3. QED
        BY <2>2, <4>1, <4>2
    <3>2. Cardinality(at(n)) > n
      BY <1>7, <3>1
    <3>3. n + 1 \in Nat /\ at(n) \in SUBSET at(n + 1)
      BY <1>3
    <3>4. IsFiniteSet(at(n + 1)) /\ Cardinality(at(n)) \in Nat /\ Cardinality(at(n + 1)) \in Nat
      BY <1>4, <3>3
    <3>5. /\ Cardinality(at(n)) <= Cardinality(at(n + 1))
          /\ Cardinality(at(n)) # Cardinality(at(n + 1))
      BY <2>2, <3>3, <3>4, FS_Subset
    <3>6. Cardinality(at(n + 1)) > n + 1
      BY <3>2, <3>4, <3>5
    <3>7. QED
      BY <3>6
  <2>3. QED
    BY <2>1, <2>2
<1>8. Nat \subseteq good
  <2> HIDE DEF good
  <2>1. QED
    BY <1>6, <1>7, SetInduction
<1>9. Kept(pairs, at(size))
  <2>1. size \in good
    BY <1>1, <1>8
  <2>2. ~ (Cardinality(at(size)) > size)
    BY <1>1, <1>4
  <2>3. QED
    BY <2>1, <2>2
<1>10. QED
  BY <1>1, <1>3, <1>9 DEF at

-----------------------------------------------------------------------------
(* Components.                                                             *)

\* Nothing that keeps its neighbours is entered or left by a pair.
Parted(pairs, S) == \A e \in pairs : e[1] \in S <=> e[2] \in S

PairsAmong(pairs, U) == \A e \in pairs : e[1] \in U /\ e[2] \in U

LEMMA BothWays ==
  ASSUME NEW pairs, NEW S
  PROVE  Kept(pairs \cup Turned(pairs), S) <=> Parted(pairs, S)
<1>1. \A e \in pairs : <<e[2], e[1]>> \in Turned(pairs)
  BY DEF Turned
<1>2. \A t \in Turned(pairs) : \E e \in pairs : t = <<e[2], e[1]>>
  BY DEF Turned
<1>3. ASSUME Kept(pairs \cup Turned(pairs), S)
      PROVE  Parted(pairs, S)
  <2>1. ASSUME NEW e \in pairs
        PROVE  e[1] \in S <=> e[2] \in S
    <3>1. /\ e \in pairs \cup Turned(pairs)
          /\ <<e[2], e[1]>> \in pairs \cup Turned(pairs)
      BY <1>1
    <3>2. e[1] \in S => e[2] \in S
      BY <1>3, <3>1 DEF Kept
    <3>3. <<e[2], e[1]>>[1] = e[2] /\ <<e[2], e[1]>>[2] = e[1]
      OBVIOUS
    <3>4. e[2] \in S => e[1] \in S
      BY <1>3, <3>1, <3>3 DEF Kept
    <3>5. QED
      BY <3>2, <3>4
  <2>2. QED
    BY <2>1 DEF Parted
<1>4. ASSUME Parted(pairs, S)
      PROVE  Kept(pairs \cup Turned(pairs), S)
  BY <1>2, <1>4 DEF Parted, Kept
<1>5. QED
  BY <1>3, <1>4

LEMMA Components ==
  ASSUME NEW U, IsFiniteSet(U), NEW pairs, PairsAmong(pairs, U), NEW a \in U
  PROVE  LET component(gid) == Around(pairs, {gid}, Cardinality(U))
         IN  /\ a \in component(a) /\ component(a) \subseteq U /\ Parted(pairs, component(a))
             /\ \A S : Parted(pairs, S) /\ a \in S => component(a) \subseteq S
             /\ \A b \in component(a) : component(b) = component(a)
<1> DEFINE both == pairs \cup Turned(pairs)
           found(gid) == Within(both, {gid}, Cardinality(U))
<1>1. \A e \in both : e[2] \in U
  <2>1. \A t \in Turned(pairs) : \E e \in pairs : t = <<e[2], e[1]>>
    BY DEF Turned
  <2>2. QED
    BY <2>1 DEF PairsAmong
<1>2. \A S : Kept(both, S) <=> Parted(pairs, S)
  BY BothWays
<1> HIDE DEF both
<1>3. \A gid \in U : gid \in found(gid) /\ found(gid) \subseteq U /\ Kept(both, found(gid))
  BY <1>1, WithinEnds
<1>4. \A gid \in U : \A S : Kept(both, S) /\ gid \in S => found(gid) \subseteq S
  BY WithinStays, FS_CardinalityType
<1>5. \A gid \in U : \A S : Parted(pairs, S) /\ gid \in S => found(gid) \subseteq S
  BY <1>2, <1>4
<1>6. \A gid \in U : Parted(pairs, found(gid))
  BY <1>2, <1>3
<1> HIDE DEF found
<1>7. ASSUME NEW b \in found(a)
      PROVE  found(b) = found(a)
  <2>1. b \in U
    BY <1>3
  <2>2. found(b) \subseteq found(a)
    BY <1>5, <1>6, <2>1
  <2>3. Parted(pairs, U \ found(b))
    <3>1. Parted(pairs, found(b))
      BY <1>6, <2>1
    <3>2. QED
      BY <3>1 DEF Parted, PairsAmong
  <2>4. a \in found(b)
    <3> SUFFICES ASSUME a \notin found(b) PROVE FALSE
      OBVIOUS
    <3>1. found(a) \subseteq U \ found(b)
      BY <1>5, <2>3
    <3>2. b \in found(b)
      BY <1>3, <2>1
    <3>3. QED
      BY <3>1, <3>2
  <2>5. found(a) \subseteq found(b)
    BY <1>5, <1>6, <2>1, <2>4
  <2>6. QED
    BY <2>2, <2>5
<1>8. /\ a \in found(a) /\ found(a) \subseteq U /\ Parted(pairs, found(a))
      /\ \A S : Parted(pairs, S) /\ a \in S => found(a) \subseteq S
      /\ \A b \in found(a) : found(b) = found(a)
  BY <1>3, <1>5, <1>6, <1>7
<1>9. \A gid : Around(pairs, {gid}, Cardinality(U)) = found(gid)
  BY DEF Around, found, both
<1>10. QED
  BY <1>8, <1>9

-----------------------------------------------------------------------------
(* Lists.                                                                  *)

\* A sequence that has each element of a set, once.
Lists(seq, S) ==
  /\ seq \in Seq(S)
  /\ \A x \in S : \E n \in 1 .. Len(seq) : seq[n] = x
  /\ \A m, n \in 1 .. Len(seq) : seq[m] = seq[n] => m = n

LEMMA ListOfNone == Lists(<<>>, {})
<1>1. <<>> \in Seq({}) /\ Len(<<>>) = 0
  OBVIOUS
<1>2. QED
  BY <1>1 DEF Lists

LEMMA ListOfOne == ASSUME NEW x PROVE Lists(<<x>>, {x})
<1>1. <<x>> \in Seq({x}) /\ Len(<<x>>) = 1 /\ <<x>>[1] = x
  OBVIOUS
<1>2. QED
  BY <1>1 DEF Lists

LEMMA ListsJoined ==
  ASSUME NEW s, NEW S, Lists(s, S), NEW t, NEW T, Lists(t, T), \A x \in S : x \notin T
  PROVE  Lists(s \o t, S \cup T)
<1> DEFINE U == S \cup T
           k == Len(s)
           l == Len(t)
           both == s \o t
<1>1. s \in Seq(U) /\ t \in Seq(U)
  BY DEF Lists
<1>2. /\ both \in Seq(U) /\ Len(both) = k + l /\ k \in Nat /\ l \in Nat
      /\ \A n \in 1 .. (k + l) : both[n] = IF n <= k THEN s[n] ELSE t[n - k]
  BY <1>1, ConcatProperties
<1>3. /\ \A n \in 1 .. k : s[n] \in S
      /\ \A n \in 1 .. l : t[n] \in T
  BY DEF Lists
<1>4. ASSUME NEW x \in U
      PROVE  \E n \in 1 .. (k + l) : both[n] = x
  <2>1. CASE x \in S
    <3>1. PICK n \in 1 .. k : s[n] = x
      BY <2>1 DEF Lists
    <3>2. n \in 1 .. (k + l) /\ n <= k
      BY <1>2
    <3>3. QED
      BY <1>2, <3>1, <3>2
  <2>2. CASE x \in T
    <3>1. PICK n \in 1 .. l : t[n] = x
      BY <2>2 DEF Lists
    <3>2. n + k \in 1 .. (k + l) /\ ~ (n + k <= k) /\ (n + k) - k = n
      BY <1>2
    <3>3. QED
      BY <1>2, <3>1, <3>2
  <2>3. QED
    BY <2>1, <2>2
<1> HIDE DEF both, k, l, U
<1>5. ASSUME NEW m \in 1 .. (k + l), NEW n \in 1 .. (k + l), both[m] = both[n]
      PROVE  m = n
  <2>1. CASE m <= k /\ n <= k
    <3>1. m \in 1 .. k /\ n \in 1 .. k /\ both[m] = s[m] /\ both[n] = s[n]
      BY <1>2, <2>1
    <3>2. QED
      BY <1>5, <3>1 DEF Lists, k
  <2>2. CASE m > k /\ n > k
    <3>1. PICK i, j \in 1 .. l : i = m - k /\ j = n - k
      BY <1>2, <2>2
    <3>2. both[m] = t[i] /\ both[n] = t[j]
      BY <1>2, <2>2, <3>1
    <3>3. i = j
      BY <1>5, <3>2 DEF Lists, l
    <3>4. QED
      BY <1>2, <3>1, <3>3
  <2>3. CASE m <= k /\ n > k
    <3>1. m \in 1 .. k /\ n - k \in 1 .. l /\ both[m] = s[m] /\ both[n] = t[n - k]
      BY <1>2, <2>3
    <3>2. QED
      BY <1>3, <1>5, <3>1
  <2>4. CASE m > k /\ n <= k
    <3>1. n \in 1 .. k /\ m - k \in 1 .. l /\ both[n] = s[n] /\ both[m] = t[m - k]
      BY <1>2, <2>4
    <3>2. QED
      BY <1>3, <1>5, <3>1
  <2>5. QED
    BY <1>2, <2>1, <2>2, <2>3, <2>4
<1>6. QED
  BY <1>2, <1>4, <1>5 DEF Lists, both, U

LEMMA ListsCount ==
  ASSUME NEW seq, NEW S, Lists(seq, S)
  PROVE  IsFiniteSet(S) /\ Cardinality(S) = Len(seq) /\ Len(seq) \in Nat
<1> DEFINE D == 1 .. Len(seq)
           f == [n \in D |-> seq[n]]
<1>1. Len(seq) \in Nat /\ \A n \in D : seq[n] \in S
  BY DEF Lists
<1>2. f \in Bijection(D, S)
  <2>1. f \in [D -> S]
    BY <1>1
  <2>2. \A m, n \in D : f[m] = f[n] => m = n
    BY DEF Lists
  <2>3. \A x \in S : \E n \in D : f[n] = x
    BY DEF Lists
  <2> HIDE DEF f, D
  <2>4. QED
    BY <2>1, <2>2, <2>3 DEF Bijection, Injection, Surjection, IsInjective
<1>3. IsFiniteSet(D) /\ Cardinality(D) = Len(seq)
  BY <1>1, FS_Interval
<1>4. ExistsBijection(D, S)
  BY <1>2 DEF ExistsBijection
<1>5. QED
  BY <1>1, <1>3, <1>4, FS_Bijection

-----------------------------------------------------------------------------
(* Paths.                                                                  *)

\* The paths of a number of accounts that pass no account twice.
PathsOf(pairs, U, gid, k) ==
  {p \in [1 .. k -> U] :
     /\ p[1] = gid
     /\ \A m, n \in 1 .. k : p[m] = p[n] => m = n
     /\ \A n \in 1 .. (k - 1) : <<p[n], p[n + 1]>> \in pairs}

Onward(pairs, path) ==
  {b \in {e[2] : e \in pairs} : <<Last(path), b>> \in pairs /\ b \notin ToSet(path)}

Longer(pairs, path) ==
  [n \in DOMAIN Sorted(Onward(pairs, path)) |-> Append(path, Sorted(Onward(pairs, path))[n])]

Extended(pairs, path) == {Append(path, b) : b \in Onward(pairs, path)}

LEMMA PathFacts ==
  ASSUME NEW pairs, NEW U, NEW gid, NEW k \in Nat \ {0}, NEW p \in PathsOf(pairs, U, gid, k)
  PROVE  /\ p \in Seq(U) /\ Len(p) = k /\ Last(p) = p[k] /\ p[k] \in U /\ p[1] = gid
         /\ \A x : x \in ToSet(p) <=> \E n \in 1 .. k : p[n] = x
         /\ \A m, n \in 1 .. k : p[m] = p[n] => m = n
         /\ \A n \in 1 .. (k - 1) : <<p[n], p[n + 1]>> \in pairs
<1>1. p \in [1 .. k -> U]
  BY DEF PathsOf
<1>2. p \in Seq(U) /\ Len(p) = k
  BY <1>1
<1>3. Last(p) = p[k] /\ p[k] \in U
  BY <1>1, <1>2 DEF Last
<1>4. \A x : x \in ToSet(p) <=> \E n \in 1 .. k : p[n] = x
  BY <1>1 DEF ToSet
<1>5. QED
  BY <1>2, <1>3, <1>4 DEF PathsOf

LEMMA PathAndOneMore ==
  ASSUME NEW U, NEW k \in Nat, NEW p \in Seq(U), Len(p) = k, NEW b \in U
  PROVE  /\ Append(p, b) \in [1 .. (k + 1) -> U] /\ Append(p, b)[k + 1] = b
         /\ \A n \in 1 .. k : Append(p, b)[n] = p[n]
<1>1. PICK q : q = Append(p, b)
  OBVIOUS
<1>2. /\ q \in Seq(U) /\ Len(q) = k + 1 /\ q[k + 1] = b
      /\ \A n \in 1 .. k : q[n] = p[n]
  BY <1>1, AppendProperties
<1>3. q \in [1 .. Len(q) -> U]
  BY <1>2
<1>4. QED
  BY <1>1, <1>2, <1>3

\* Each way on from a path is listed once.
LEMMA WaysOn ==
  ASSUME NEW U \in SUBSET Int, IsFiniteSet(U), NEW pairs, PairsAmong(pairs, U), NEW gid \in U,
         NEW k \in Nat \ {0}, NEW p \in PathsOf(pairs, U, gid, k)
  PROVE  /\ Onward(pairs, p) \subseteq U
         /\ Lists(Longer(pairs, p), Extended(pairs, p))
<1> DEFINE on == Onward(pairs, p)
           order == Sorted(on)
           longer == Longer(pairs, p)
<1>1. on \in SUBSET Int /\ IsFiniteSet(on) /\ on \subseteq U
  <2>1. \A e \in pairs : e[2] \in U
    BY DEF PairsAmong
  <2>2. on \in SUBSET U
    BY <2>1 DEF Onward
  <2>3. IsFiniteSet(on)
    BY <2>2, FS_Subset
  <2>4. QED
    BY <2>2, <2>3
<1>2. longer = [n \in DOMAIN order |-> Append(p, order[n])]
  BY DEF Longer
<1> HIDE DEF on, longer, order
<1>3. PICK size \in Nat :
        /\ DOMAIN order = 1 .. size
        /\ \A n \in 1 .. size : order[n] \in on
        /\ \A x \in on : \E n \in 1 .. size : order[n] = x
        /\ \A m, n \in 1 .. size : order[m] = order[n] => m = n
  BY <1>1, SortedNumbers DEF order
<1>4. p \in Seq(U) /\ Len(p) = k
  BY PathFacts
<1>5. \A b, c \in U : Append(p, b) = Append(p, c) => b = c
  BY <1>4, AppendInjective
<1>6. Extended(pairs, p) = {Append(p, b) : b \in on}
  BY DEF Extended, on
<1>7. longer \in Seq(Extended(pairs, p)) /\ Len(longer) = size
      /\ \A n \in 1 .. size : longer[n] = Append(p, order[n])
  <2>1. \A n \in 1 .. size : Append(p, order[n]) \in Extended(pairs, p)
    BY <1>3, <1>6
  <2>2. longer = [n \in 1 .. size |-> Append(p, order[n])]
    BY <1>2, <1>3
  <2>3. QED
    BY <2>1, <2>2
<1>8. ASSUME NEW x \in Extended(pairs, p)
      PROVE  \E n \in 1 .. size : longer[n] = x
  <2>1. PICK b \in on : x = Append(p, b)
    BY <1>6
  <2>2. PICK n \in 1 .. size : order[n] = b
    BY <1>3
  <2>3. QED
    BY <1>7, <2>1, <2>2
<1>9. \A m, n \in 1 .. size : longer[m] = longer[n] => m = n
  BY <1>1, <1>3, <1>5, <1>7
<1>10. QED
  BY <1>1, <1>7, <1>8, <1>9 DEF Lists, on, longer

\* The paths of one account more are the ways on from the paths.
LEMMA PathsGoOn ==
  ASSUME NEW U, NEW pairs, PairsAmong(pairs, U), NEW gid \in U, NEW k \in Nat \ {0}
  PROVE  /\ \A p \in PathsOf(pairs, U, gid, k) :
              Extended(pairs, p) \subseteq PathsOf(pairs, U, gid, k + 1)
         /\ \A q \in PathsOf(pairs, U, gid, k + 1) :
              \E p \in PathsOf(pairs, U, gid, k) : q \in Extended(pairs, p)
         /\ \A p, q \in PathsOf(pairs, U, gid, k) :
              p # q => Extended(pairs, p) \cap Extended(pairs, q) = {}
<1>1. ASSUME NEW p \in PathsOf(pairs, U, gid, k), NEW b \in Onward(pairs, p)
      PROVE  Append(p, b) \in PathsOf(pairs, U, gid, k + 1)
  <2> DEFINE q == Append(p, b)
  <2>1. /\ p \in Seq(U) /\ Len(p) = k /\ Last(p) = p[k] /\ p[1] = gid
        /\ \A m, n \in 1 .. k : p[m] = p[n] => m = n
        /\ \A n \in 1 .. (k - 1) : <<p[n], p[n + 1]>> \in pairs
        /\ \A n \in 1 .. k : p[n] \in ToSet(p) /\ p[n] \in U
    BY PathFacts
  <2>2. b \in U /\ <<p[k], b>> \in pairs /\ b \notin ToSet(p)
    BY <2>1 DEF Onward, PairsAmong
  <2>3. /\ q \in [1 .. (k + 1) -> U] /\ q[k + 1] = b
        /\ \A n \in 1 .. k : q[n] = p[n]
    BY <2>1, <2>2, PathAndOneMore
  <2> HIDE DEF q
  <2>4. q[1] = gid
    BY <2>1, <2>3
  <2>5. ASSUME NEW m \in 1 .. (k + 1), NEW n \in 1 .. (k + 1), q[m] = q[n]
        PROVE  m = n
    <3>1. \A i \in 1 .. k : q[i] # b
      BY <2>1, <2>2, <2>3
    <3>2. m \in 1 .. k \/ m = k + 1
      OBVIOUS
    <3>3. n \in 1 .. k \/ n = k + 1
      OBVIOUS
    <3>4. QED
      BY <2>1, <2>3, <2>5, <3>1, <3>2, <3>3
  <2>6. ASSUME NEW n \in 1 .. ((k + 1) - 1)
        PROVE  <<q[n], q[n + 1]>> \in pairs
    <3>1. n \in 1 .. k
      OBVIOUS
    <3>2. CASE n = k
      BY <2>2, <2>3, <3>1, <3>2
    <3>3. CASE n # k
      <4>1. n \in 1 .. (k - 1) /\ n + 1 \in 1 .. k
        BY <3>1, <3>3
      <4>2. QED
        BY <2>1, <2>3, <3>1, <4>1
    <3>4. QED
      BY <3>2, <3>3
  <2>7. QED
    BY <2>3, <2>4, <2>5, <2>6 DEF PathsOf, q
<1>2. ASSUME NEW q \in PathsOf(pairs, U, gid, k + 1)
      PROVE  \E p \in PathsOf(pairs, U, gid, k) : q \in Extended(pairs, p)
  <2> DEFINE p == [n \in 1 .. k |-> q[n]]
  <2>1. /\ q \in [1 .. (k + 1) -> U] /\ q[1] = gid
        /\ \A m, n \in 1 .. (k + 1) : q[m] = q[n] => m = n
        /\ \A n \in 1 .. k : <<q[n], q[n + 1]>> \in pairs
    <3>1. (k + 1) - 1 = k
      OBVIOUS
    <3>2. QED
      BY <3>1 DEF PathsOf
  <2>2. \A n \in 1 .. k : p[n] = q[n] /\ n \in 1 .. (k + 1)
    OBVIOUS
  <2>3. p \in [1 .. k -> U]
    BY <2>1
  <2> HIDE DEF p
  <2>4. p \in PathsOf(pairs, U, gid, k)
    <3>1. p[1] = gid
      BY <2>1, <2>2
    <3>2. \A m, n \in 1 .. k : p[m] = p[n] => m = n
      BY <2>1, <2>2
    <3>3. \A n \in 1 .. (k - 1) : <<p[n], p[n + 1]>> \in pairs
      <4> SUFFICES ASSUME NEW n \in 1 .. (k - 1) PROVE <<p[n], p[n + 1]>> \in pairs
        OBVIOUS
      <4>1. n \in 1 .. k /\ n + 1 \in 1 .. k
        OBVIOUS
      <4>2. QED
        BY <2>1, <2>2, <4>1
    <3>4. QED
      BY <2>3, <3>1, <3>2, <3>3 DEF PathsOf
  <2>5. q[k + 1] \in Onward(pairs, p)
    <3>1. <<q[k], q[k + 1]>> \in pairs /\ <<q[k], q[k + 1]>>[2] = q[k + 1]
      BY <2>1
    <3>2. Last(p) = q[k]
      BY <2>2, <2>4, PathFacts
    <3>3. q[k + 1] \notin ToSet(p)
      <4> SUFFICES ASSUME q[k + 1] \in ToSet(p) PROVE FALSE
        OBVIOUS
      <4>1. PICK n \in 1 .. k : p[n] = q[k + 1]
        BY <2>4, PathFacts
      <4>2. n \in 1 .. (k + 1) /\ k + 1 \in 1 .. (k + 1) /\ n # k + 1
        OBVIOUS
      <4>3. QED
        BY <2>1, <2>2, <4>1, <4>2
    <3>4. QED
      BY <3>1, <3>2, <3>3 DEF Onward
  <2>6. q = Append(p, q[k + 1])
    <3>1. p \in Seq(U) /\ Len(p) = k /\ q[k + 1] \in U
      BY <2>1, <2>4, PathFacts
    <3>2. /\ Append(p, q[k + 1]) \in [1 .. (k + 1) -> U]
          /\ Append(p, q[k + 1])[k + 1] = q[k + 1]
          /\ \A n \in 1 .. k : Append(p, q[k + 1])[n] = p[n]
      BY <3>1, PathAndOneMore
    <3>3. \A n \in 1 .. (k + 1) : Append(p, q[k + 1])[n] = q[n]
      <4> SUFFICES ASSUME NEW n \in 1 .. (k + 1) PROVE Append(p, q[k + 1])[n] = q[n]
        OBVIOUS
      <4>1. n \in 1 .. k \/ n = k + 1
        OBVIOUS
      <4>2. QED
        BY <2>2, <3>2, <4>1
    <3>4. QED
      BY <2>1, <3>2, <3>3
  <2>7. QED
    BY <2>4, <2>5, <2>6 DEF Extended
<1>3. ASSUME NEW p \in PathsOf(pairs, U, gid, k), NEW q \in PathsOf(pairs, U, gid, k),
             NEW x \in Extended(pairs, p), x \in Extended(pairs, q)
      PROVE  p = q
  <2>1. PICK b \in Onward(pairs, p), c \in Onward(pairs, q) : x = Append(p, b) /\ x = Append(q, c)
    BY <1>3 DEF Extended
  <2>2. p \in Seq(U) /\ q \in Seq(U)
    BY PathFacts
  <2>3. b \in U /\ c \in U
    BY DEF Onward, PairsAmong
  <2>4. Append(p, b) = Append(q, c)
    BY <2>1
  <2>5. Append(p, b) = Append(q, c) <=> p = q /\ b = c
    BY <2>2, <2>3, AppendInjective
  <2>6. QED
    BY <2>4, <2>5
<1>4. QED
  BY <1>1, <1>2, <1>3 DEF Extended

\* The paths of more than one and at most so many accounts.
PathsUpTo(pairs, U, gid, most) == UNION {PathsOf(pairs, U, gid, k) : k \in 2 .. most}

ShorterFirst(paths) ==
  \A m, n \in 1 .. Len(paths) : m < n => Len(paths[m]) <= Len(paths[n])

\* The states that steps go through, from the first on.
LEMMA RunOfSteps ==
  ASSUME NEW count \in Nat, NEW T, NEW base, NEW step, Stepping(count, T, base, step)
  PROVE  \E run \in [0 .. count -> T] :
           run[0] = base /\ \A n \in 1 .. count : run[n] = step[n][run[n - 1]]
<1>1. PICK results : FoldedLeft(count, T, base, step, results)
  BY FoldFromTheLeft
<1>2. /\ results \in [SUBSET (1 .. count) -> T]
      /\ \A part \in SUBSET (1 .. count) :
           results[part] = IF part = {} THEN base
                           ELSE step[Max(part)][results[part \ {Max(part)}]]
  BY <1>1 DEF FoldedLeft
<1> DEFINE run == [n \in 0 .. count |-> results[1 .. n]]
<1>3. \A n \in 0 .. count : 1 .. n \in SUBSET (1 .. count)
  OBVIOUS
<1>4. run \in [0 .. count -> T]
  BY <1>2, <1>3
<1>5. run[0] = base
  <2>1. 1 .. 0 = {} /\ 0 \in 0 .. count
    OBVIOUS
  <2>2. QED
    BY <1>2, <1>3, <2>1
<1>6. ASSUME NEW n \in 1 .. count
      PROVE  run[n] = step[n][run[n - 1]]
  <2>1. /\ 1 .. n \in SUBSET (1 .. count) /\ 1 .. n # {} /\ Max(1 .. n) = n
        /\ (1 .. n) \ {n} = 1 .. (n - 1)
    BY PlacesUpTo
  <2>2. results[1 .. n] = step[n][results[1 .. (n - 1)]]
    BY <1>2, <2>1
  <2>3. n \in 0 .. count /\ n - 1 \in 0 .. count
    OBVIOUS
  <2>4. QED
    BY <2>2, <2>3
<1>7. QED
  BY <1>4, <1>5, <1>6

LEMMA FirstOfSeq ==
  ASSUME NEW T, NEW s \in Seq(T), NEW most \in Nat
  PROVE  /\ FirstOf(s, most) \in Seq(T)
         /\ Len(FirstOf(s, most)) = (IF most < Len(s) THEN most ELSE Len(s))
         /\ \A n \in 1 .. Len(FirstOf(s, most)) : FirstOf(s, most)[n] = s[n]
<1>1. PICK count \in Nat : count = Len(s)
  OBVIOUS
<1>2. PICK last \in Int : last = IF most < count THEN most ELSE count
  OBVIOUS
<1>3. Min({most, count}) = last
  <2>1. last \in {most, count} /\ \A x \in {most, count} : last <= x
    BY <1>2
  <2>2. \A x \in {most, count} : (\A y \in {most, count} : x <= y) => x = last
    BY <2>1
  <2>3. QED
    BY <2>1, <2>2 DEF Min
<1>4. FirstOf(s, most) = SubSeq(s, 1, last)
  BY <1>1, <1>3 DEF FirstOf
<1>5. PICK one \in Int : one = 1
  OBVIOUS
<1>6. \A n \in one .. last : s[n] \in T
  BY <1>1, <1>2, <1>5
<1>7. /\ SubSeq(s, one, last) \in Seq(T)
      /\ Len(SubSeq(s, one, last)) = IF one <= last THEN last - one + 1 ELSE 0
      /\ \A n \in 1 .. last - one + 1 : SubSeq(s, one, last)[n] = s[one + n - 1]
  BY <1>6, SubSeqProperties
<1>8. /\ (IF one <= last THEN last - one + 1 ELSE 0) = last
      /\ last - one + 1 = last /\ \A n \in 1 .. last : one + n - 1 = n
  BY <1>2, <1>5
<1>9. QED
  BY <1>1, <1>2, <1>4, <1>5, <1>7, <1>8

LEMMA FirstOfAll ==
  ASSUME NEW T, NEW s \in Seq(T), NEW most \in Nat, Len(s) <= most
  PROVE  FirstOf(s, most) = s
<1>1. PICK t \in Seq(T) : t = FirstOf(s, most)
  BY FirstOfSeq
<1>2. Len(t) = Len(s) /\ \A n \in 1 .. Len(t) : t[n] = s[n]
  BY <1>1, FirstOfSeq
<1>3. QED
  BY <1>1, <1>2

\* What stands behind enough elements does not matter for the first of them.
LEMMA FirstOfMore ==
  ASSUME NEW T, NEW s \in Seq(T), NEW t \in Seq(T), NEW most \in Nat, most <= Len(s)
  PROVE  FirstOf(s \o t, most) = FirstOf(s, most)
<1>1. PICK a, b \in Seq(T) : a = FirstOf(s, most) /\ b = FirstOf(s \o t, most)
  BY FirstOfSeq, ConcatProperties
<1>2. /\ s \o t \in Seq(T) /\ Len(s \o t) = Len(s) + Len(t)
      /\ \A n \in 1 .. (Len(s) + Len(t)) : (s \o t)[n] = IF n <= Len(s) THEN s[n] ELSE t[n - Len(s)]
  BY ConcatProperties
<1>3. PICK j, k \in Nat : j = Len(s) /\ k = Len(t)
  OBVIOUS
<1>4. PICK u \in Seq(T) : u = s \o t
  BY <1>2
<1>5. Len(u) = j + k /\ \A n \in 1 .. j : u[n] = s[n]
  <2>1. \A n \in 1 .. j : n \in 1 .. (j + k) /\ n <= j
    BY <1>3
  <2>2. QED
    BY <1>2, <1>3, <1>4, <2>1
<1>6. Len(a) = most /\ \A n \in 1 .. most : a[n] = s[n]
  <2>1. Len(a) = (IF most < j THEN most ELSE j) /\ most <= j
    BY <1>1, <1>3, FirstOfSeq
  <2>2. Len(a) = most
    BY <1>3, <2>1
  <2>3. QED
    BY <1>1, <2>2, FirstOfSeq
<1>7. Len(b) = most /\ \A n \in 1 .. most : b[n] = u[n]
  <2>1. Len(b) = (IF most < Len(u) THEN most ELSE Len(u)) /\ \A n \in 1 .. Len(b) : b[n] = u[n]
    BY <1>1, <1>4, FirstOfSeq
  <2>2. most <= j
    BY <1>3
  <2>3. Len(b) = most
    BY <1>3, <1>5, <2>1, <2>2
  <2>4. QED
    BY <2>1, <2>3
<1>8. \A n \in 1 .. most : n \in 1 .. j
  BY <1>3
<1>9. \A n \in 1 .. most : a[n] = b[n]
  BY <1>5, <1>6, <1>7, <1>8
<1>10. a = b
  BY <1>6, <1>7, <1>9
<1>11. QED
  BY <1>1, <1>10

\* The queue of a search that has found some paths, with those that it took already.
PathQueue(gid, paths) == << <<gid>> >> \o paths

\* What the n-th of the queue adds to the paths, if nothing stops the search.
GoneOn(pairs, gid, depth, paths, n) ==
  IF n > Len(PathQueue(gid, paths)) THEN paths
  ELSE IF Len(PathQueue(gid, paths)[n]) > depth THEN paths
  ELSE paths \o Longer(pairs, PathQueue(gid, paths)[n])

LEMMA QueueFacts ==
  ASSUME NEW T, NEW gid, <<gid>> \in T, NEW paths \in Seq(T)
  PROVE  /\ PathQueue(gid, paths) \in Seq(T) /\ Len(PathQueue(gid, paths)) = Len(paths) + 1
         /\ PathQueue(gid, paths)[1] = <<gid>>
         /\ \A n \in 1 .. Len(paths) : PathQueue(gid, paths)[n + 1] = paths[n]
         /\ \A n \in 2 .. (Len(paths) + 1) : PathQueue(gid, paths)[n] = paths[n - 1]
<1>1. PICK first : first = << <<gid>> >>
  OBVIOUS
<1>2. first \in Seq(T) /\ Len(first) = 1 /\ first[1] = <<gid>>
  BY <1>1
<1>3. PICK count \in Nat : count = Len(paths)
  OBVIOUS
<1>4. PICK queue : queue = first \o paths
  OBVIOUS
<1>5. /\ queue \in Seq(T) /\ Len(queue) = 1 + count
      /\ \A n \in 1 .. (1 + count) : queue[n] = IF n <= 1 THEN first[n] ELSE paths[n - 1]
  BY <1>2, <1>3, <1>4, ConcatProperties
<1>6. PathQueue(gid, paths) = queue
  BY <1>1, <1>4 DEF PathQueue
<1>7. queue[1] = <<gid>>
  BY <1>2, <1>3, <1>5
<1>8. \A n \in 2 .. (count + 1) : queue[n] = paths[n - 1]
  BY <1>3, <1>5
<1>9. \A n \in 1 .. count : n + 1 \in 2 .. (count + 1) /\ (n + 1) - 1 = n
  BY <1>3
<1>10. QED
  BY <1>3, <1>5, <1>6, <1>7, <1>8, <1>9

LEMMA LongerType ==
  ASSUME NEW U \in SUBSET Int, IsFiniteSet(U), NEW pairs, PairsAmong(pairs, U), NEW p \in Seq(Int)
  PROVE  Longer(pairs, p) \in Seq(Seq(Int))
<1> DEFINE on == Onward(pairs, p)
           order == Sorted(on)
<1>1. on \in SUBSET Int /\ IsFiniteSet(on)
  <2>1. on \in SUBSET U
    BY DEF PairsAmong, Onward
  <2>2. QED
    BY <2>1, FS_Subset
<1>2. Longer(pairs, p) = [n \in DOMAIN order |-> Append(p, order[n])]
  BY DEF Longer
<1> HIDE DEF on, order
<1>3. PICK size \in Nat : DOMAIN order = 1 .. size /\ \A n \in 1 .. size : order[n] \in Int
  <2>1. Cardinality(on) \in Nat /\ DOMAIN order = 1 .. Cardinality(on)
    BY <1>1, SortedNumbers DEF order
  <2>2. \A n \in DOMAIN order : order[n] \in Int
    BY <1>1, SortedNumbers DEF order
  <2>3. QED
    BY <2>1, <2>2
<1>4. \A n \in 1 .. size : Append(p, order[n]) \in Seq(Int)
  BY <1>3
<1>5. QED
  BY <1>2, <1>3, <1>4

LEMMA GoneOnType ==
  ASSUME NEW U \in SUBSET Int, IsFiniteSet(U), NEW pairs, PairsAmong(pairs, U), NEW gid \in U,
         NEW depth \in Nat, NEW paths \in Seq(Seq(Int)), NEW n \in Nat \ {0}
  PROVE  /\ PathQueue(gid, paths) \in Seq(Seq(Int)) /\ Len(PathQueue(gid, paths)) = Len(paths) + 1
         /\ n <= Len(PathQueue(gid, paths)) =>
              /\ PathQueue(gid, paths)[n] \in Seq(Int)
              /\ Longer(pairs, PathQueue(gid, paths)[n]) \in Seq(Seq(Int))
         /\ GoneOn(pairs, gid, depth, paths, n) \in Seq(Seq(Int))
<1>1. PICK T, queue : T = Seq(Int) /\ queue = PathQueue(gid, paths)
  OBVIOUS
<1>2. <<gid>> \in T /\ paths \in Seq(T)
  BY <1>1
<1>3. queue \in Seq(T) /\ Len(queue) = Len(paths) + 1
  BY <1>1, <1>2, QueueFacts
<1>4. ASSUME n <= Len(queue)
      PROVE  queue[n] \in T /\ Longer(pairs, queue[n]) \in Seq(T)
  <2>1. queue[n] \in T
    BY <1>3, <1>4
  <2>2. QED
    BY <1>1, <2>1, LongerType
<1>5. ASSUME n <= Len(queue)
      PROVE  paths \o Longer(pairs, queue[n]) \in Seq(T)
  BY <1>2, <1>4, <1>5, ConcatProperties
<1>6. ~ (n > Len(queue)) => n <= Len(queue)
  BY <1>3
<1>7. GoneOn(pairs, gid, depth, paths, n) \in Seq(T)
  BY <1>1, <1>2, <1>5, <1>6 DEF GoneOn
<1>8. QED
  BY <1>1, <1>3, <1>4, <1>7

\* The same under a cap.
StopsAt(gid, cap, paths, n) == Len(paths) >= cap \/ n > Len(PathQueue(gid, paths))

Bounded(pairs, gid, depth, cap, paths, n) ==
  IF Len(PathQueue(gid, paths)[n]) > depth THEN paths
  ELSE FirstOf(paths \o Longer(pairs, PathQueue(gid, paths)[n]), cap)

\* The loop of PathsFrom.
Searching(pairs, gid, depth, cap, search) ==
  search = [n \in 1 .. (cap + 1) |-> [paths \in Seq(Seq(Int)) |->
              IF StopsAt(gid, cap, paths, n) THEN paths
              ELSE search[n + 1][Bounded(pairs, gid, depth, cap, paths, n)]]]

LEMMA BoundedType ==
  ASSUME NEW U \in SUBSET Int, IsFiniteSet(U), NEW pairs, PairsAmong(pairs, U), NEW gid \in U,
         NEW depth \in Nat, NEW cap \in Nat, NEW paths \in Seq(Seq(Int)), NEW n \in Nat \ {0},
         ~ StopsAt(gid, cap, paths, n)
  PROVE  Bounded(pairs, gid, depth, cap, paths, n) \in Seq(Seq(Int))
<1>1. PICK T, queue : T = Seq(Int) /\ queue = PathQueue(gid, paths)
  OBVIOUS
<1>2. queue \in Seq(T)
  BY <1>1, GoneOnType
<1>3. n <= Len(queue)
  BY <1>1, <1>2 DEF StopsAt
<1>4. PICK more : more = Longer(pairs, queue[n])
  OBVIOUS
<1>5. more \in Seq(T)
  BY <1>1, <1>3, <1>4, GoneOnType
<1>6. paths \o more \in Seq(T)
  BY <1>1, <1>5, ConcatProperties
<1>7. FirstOf(paths \o more, cap) \in Seq(T)
  BY <1>6, FirstOfSeq
<1>8. QED
  BY <1>1, <1>4, <1>7 DEF Bounded

\* The loop ends: no more paths are taken from the queue than the cap.
LEMMA SearchExists ==
  ASSUME NEW U \in SUBSET Int, IsFiniteSet(U), NEW pairs, PairsAmong(pairs, U), NEW gid \in U,
         NEW depth \in Nat, NEW cap \in Nat
  PROVE  \E search : Searching(pairs, gid, depth, cap, search)
<1> DEFINE S == Seq(Seq(Int))
           T == [S -> S]
           Stops(paths, n) == StopsAt(gid, cap, paths, n)
           Next(paths, n) == Bounded(pairs, gid, depth, cap, paths, n)
           base == [paths \in S |-> paths]
           step == [k \in 1 .. (cap + 1) |-> [f \in T |-> [paths \in S |->
                      IF Stops(paths, (cap + 2) - k) THEN paths
                      ELSE f[Next(paths, (cap + 2) - k)]]]]
<1>1. \A k \in 1 .. (cap + 1) : (cap + 2) - k \in Nat \ {0}
  OBVIOUS
<1>2. ASSUME NEW n \in Nat \ {0}, NEW paths \in S, ~ Stops(paths, n)
      PROVE  Next(paths, n) \in S
  BY <1>2, BoundedType
<1>3. ASSUME NEW paths \in S
      PROVE  Stops(paths, cap + 1)
  <2>1. Len(PathQueue(gid, paths)) = Len(paths) + 1 /\ Len(paths) \in Nat
    BY GoneOnType
  <2>2. Len(paths) >= cap \/ cap + 1 > Len(paths) + 1
    BY <2>1
  <2>3. QED
    BY <2>1, <2>2 DEF StopsAt
<1> HIDE DEF S, Stops, Next
<1>4. base \in T
  OBVIOUS
<1>5. ASSUME NEW k \in 1 .. (cap + 1), NEW f \in T
      PROVE  /\ step[k][f] = [paths \in S |-> IF Stops(paths, (cap + 2) - k) THEN paths
                                              ELSE f[Next(paths, (cap + 2) - k)]]
             /\ step[k][f] \in T
  <2>1. step[k][f] = [paths \in S |-> IF Stops(paths, (cap + 2) - k) THEN paths
                                      ELSE f[Next(paths, (cap + 2) - k)]]
    OBVIOUS
  <2>2. PICK n \in Nat \ {0} : n = (cap + 2) - k
    BY <1>1
  <2>3. \A paths \in S : (IF Stops(paths, n) THEN paths ELSE f[Next(paths, n)]) \in S
    BY <1>2
  <2>4. [paths \in S |-> IF Stops(paths, n) THEN paths ELSE f[Next(paths, n)]] \in T
    BY <2>3
  <2>5. QED
    BY <2>1, <2>2, <2>4
<1> HIDE DEF T, base, step
<1>6. Stepping(cap + 1, T, base, step)
  BY <1>4, <1>5 DEF Stepping
<1>7. PICK run \in [0 .. (cap + 1) -> T] :
        run[0] = base /\ \A k \in 1 .. (cap + 1) : run[k] = step[k][run[k - 1]]
  BY <1>6, RunOfSteps
<1> DEFINE search == [n \in 1 .. (cap + 1) |-> run[(cap + 2) - n]]
<1>8. ASSUME NEW n \in 1 .. (cap + 1)
      PROVE  search[n] = [paths \in S |-> IF Stops(paths, n) THEN paths
                                          ELSE search[n + 1][Next(paths, n)]]
  <2>1. PICK k \in 1 .. (cap + 1) : k = (cap + 2) - n /\ (cap + 2) - k = n /\ k - 1 \in 0 .. (cap + 1)
    OBVIOUS
  <2>2. run[k] = [paths \in S |-> IF Stops(paths, n) THEN paths ELSE run[k - 1][Next(paths, n)]]
    <3>1. run[k - 1] \in T /\ run[k] = step[k][run[k - 1]]
      BY <1>7, <2>1
    <3>2. PICK f \in T : f = run[k - 1]
      BY <3>1
    <3>3. step[k][f] = [paths \in S |-> IF Stops(paths, (cap + 2) - k) THEN paths
                                        ELSE f[Next(paths, (cap + 2) - k)]]
      BY <1>5
    <3>4. QED
      BY <2>1, <3>1, <3>2, <3>3
  <2>3. search[n] = run[k]
    BY <2>1
  <2>4. CASE n = cap + 1
    <3>1. \A paths \in S : Stops(paths, n)
      BY <1>3, <2>4
    <3>2. QED
      BY <2>2, <2>3, <3>1
  <2>5. CASE n # cap + 1
    <3>1. n + 1 \in 1 .. (cap + 1) /\ (cap + 2) - (n + 1) = k - 1
      BY <2>1, <2>5
    <3>2. search[n + 1] = run[k - 1]
      BY <3>1
    <3> HIDE DEF search
    <3>3. QED
      BY <2>2, <2>3, <3>2
  <2>6. QED
    BY <2>4, <2>5
<1>9. search = [n \in 1 .. (cap + 1) |-> search[n]]
  OBVIOUS
<1> HIDE DEF search
<1>10. search = [n \in 1 .. (cap + 1) |-> [paths \in S |->
                   IF Stops(paths, n) THEN paths ELSE search[n + 1][Next(paths, n)]]]
  BY <1>8, <1>9
<1>11. Searching(pairs, gid, depth, cap, search)
  BY <1>10 DEF Searching, S, Stops, Next
<1>12. QED
  BY <1>11

\* The paths after each path that is taken from the queue, without a cap.
Breadth(pairs, gid, depth, last, run) ==
  /\ run \in [0 .. last -> Seq(Seq(Int))] /\ run[0] = <<>>
  /\ \A n \in 1 .. last : run[n] = GoneOn(pairs, gid, depth, run[n - 1], n)

LEMMA BreadthExists ==
  ASSUME NEW U \in SUBSET Int, IsFiniteSet(U), NEW pairs, PairsAmong(pairs, U), NEW gid \in U,
         NEW depth \in Nat, NEW last \in Nat
  PROVE  \E run : Breadth(pairs, gid, depth, last, run)
<1> DEFINE S == Seq(Seq(Int))
           step == [n \in 1 .. last |-> [paths \in S |-> GoneOn(pairs, gid, depth, paths, n)]]
           base == <<>>
<1>1. base \in S
  OBVIOUS
<1>2. ASSUME NEW n \in 1 .. last, NEW paths \in S
      PROVE  GoneOn(pairs, gid, depth, paths, n) \in S
  <2>1. n \in Nat \ {0}
    OBVIOUS
  <2>2. QED
    BY <2>1, GoneOnType
<1>3. \A n \in 1 .. last : \A paths \in S : step[n][paths] = GoneOn(pairs, gid, depth, paths, n)
  OBVIOUS
<1> HIDE DEF S, step, base
<1>4. Stepping(last, S, base, step)
  BY <1>1, <1>2, <1>3 DEF Stepping
<1>5. PICK run \in [0 .. last -> S] :
        run[0] = base /\ \A n \in 1 .. last : run[n] = step[n][run[n - 1]]
  BY <1>4, RunOfSteps
<1>6. ASSUME NEW n \in 1 .. last
      PROVE  run[n] = GoneOn(pairs, gid, depth, run[n - 1], n)
  <2>1. n - 1 \in 0 .. last
    OBVIOUS
  <2>2. run[n - 1] \in S
    BY <1>5, <2>1
  <2>3. QED
    BY <1>3, <1>5, <2>2
<1>7. Breadth(pairs, gid, depth, last, run)
  BY <1>5, <1>6 DEF Breadth, S, base
<1>8. QED
  BY <1>7

\* It makes no difference whether the paths are cut after each step or at last.
LEMMA CutsEarlier ==
  ASSUME NEW U \in SUBSET Int, IsFiniteSet(U), NEW pairs, PairsAmong(pairs, U), NEW gid \in U,
         NEW depth \in Nat, NEW cap \in Nat, NEW paths \in Seq(Seq(Int)), NEW n \in Nat \ {0},
         NEW cut, cut = FirstOf(paths, cap)
  PROVE  FirstOf(GoneOn(pairs, gid, depth, paths, n), cap)
           = IF StopsAt(gid, cap, cut, n) THEN cut ELSE Bounded(pairs, gid, depth, cap, cut, n)
<1>1. PICK T, queue : T = Seq(Int) /\ queue = PathQueue(gid, paths)
  OBVIOUS
<1>2. paths \in Seq(T) /\ queue \in Seq(T)
  BY <1>1, GoneOnType
<1>3. PICK more : more = Longer(pairs, queue[n])
  OBVIOUS
<1>4. n <= Len(queue) => more \in Seq(T)
  BY <1>1, <1>3, GoneOnType
<1>5. n > Len(queue) \/ n <= Len(queue)
  BY <1>2
<1>6. GoneOn(pairs, gid, depth, paths, n)
        = IF n > Len(queue) THEN paths ELSE IF Len(queue[n]) > depth THEN paths ELSE paths \o more
  BY <1>1, <1>3 DEF GoneOn
<1>7. CASE cap <= Len(paths)
  <2>1. Len(cut) = cap
    <3>1. Len(cut) = IF cap < Len(paths) THEN cap ELSE Len(paths)
      BY <1>2, FirstOfSeq
    <3>2. QED
      BY <1>2, <1>7, <3>1
  <2>2. StopsAt(gid, cap, cut, n)
    BY <2>1 DEF StopsAt
  <2>3. n <= Len(queue) => FirstOf(paths \o more, cap) = cut
    BY <1>2, <1>4, <1>7, FirstOfMore
  <2>4. FirstOf(GoneOn(pairs, gid, depth, paths, n), cap) = cut
    BY <1>5, <1>6, <2>3
  <2>5. QED
    BY <2>2, <2>4
<1>8. CASE Len(paths) < cap
  <2>1. cut = paths
    BY <1>2, <1>8, FirstOfAll
  <2>2. ~ (Len(cut) >= cap)
    BY <1>2, <1>8, <2>1
  <2>3. StopsAt(gid, cap, cut, n) <=> n > Len(queue)
    BY <1>1, <2>1, <2>2 DEF StopsAt
  <2>4. Bounded(pairs, gid, depth, cap, cut, n)
          = IF Len(queue[n]) > depth THEN paths ELSE FirstOf(paths \o more, cap)
    BY <1>1, <1>3, <2>1 DEF Bounded
  <2>5. QED
    BY <1>6, <2>1, <2>3, <2>4
<1>9. QED
  BY <1>2, <1>7, <1>8

\* The search with a cap returns the first paths of the one without.
LEMMA SearchIsCut ==
  ASSUME NEW U \in SUBSET Int, IsFiniteSet(U), NEW pairs, PairsAmong(pairs, U), NEW gid \in U,
         NEW depth \in Nat, NEW cap \in Nat, NEW last \in Nat, cap <= last,
         NEW run, Breadth(pairs, gid, depth, last, run)
  PROVE  PathsFrom(pairs, gid, depth, cap) = FirstOf(run[last], cap)
<1> DEFINE S == Seq(Seq(Int))
           cut == [n \in 0 .. last |-> FirstOf(run[n], cap)]
<1>1. /\ \A n \in 0 .. last : run[n] \in S
      /\ run[0] = <<>>
      /\ \A n \in 1 .. last : run[n] = GoneOn(pairs, gid, depth, run[n - 1], n)
  BY DEF Breadth
<1>2. \A n \in 0 .. last : cut[n] \in S
  <2> SUFFICES ASSUME NEW n \in 0 .. last PROVE cut[n] \in S
    OBVIOUS
  <2>1. PICK T : T = Seq(Int)
    OBVIOUS
  <2>2. run[n] \in Seq(T)
    BY <1>1, <2>1
  <2>3. FirstOf(run[n], cap) \in Seq(T)
    BY <2>2, FirstOfSeq
  <2>4. QED
    BY <2>1, <2>3
<1>3. cut[0] = <<>>
  <2>1. <<>> \in Seq(Int) /\ Len(<<>>) = 0 /\ 0 <= cap /\ 0 \in 0 .. last
    OBVIOUS
  <2>2. FirstOf(<<>>, cap) = <<>>
    BY <2>1, FirstOfAll
  <2>3. QED
    BY <1>1, <2>1, <2>2
<1>4. ASSUME NEW n \in 1 .. last
      PROVE  cut[n] = IF StopsAt(gid, cap, cut[n - 1], n) THEN cut[n - 1]
                      ELSE Bounded(pairs, gid, depth, cap, cut[n - 1], n)
  <2>1. n \in Nat \ {0} /\ n \in 0 .. last /\ n - 1 \in 0 .. last
    OBVIOUS
  <2>2. PICK paths \in S : paths = run[n - 1]
    BY <1>1, <2>1
  <2>3. cut[n - 1] = FirstOf(paths, cap) /\ cut[n] = FirstOf(GoneOn(pairs, gid, depth, paths, n), cap)
    BY <1>1, <2>1, <2>2
  <2> HIDE DEF cut
  <2>4. QED
    BY <2>1, <2>3, CutsEarlier
<1>5. PICK search : /\ Searching(pairs, gid, depth, cap, search)
                    /\ PathsFrom(pairs, gid, depth, cap) = search[1][<<>>]
  <2> DEFINE Rule(search) ==
        search = [n \in 1 .. (cap + 1) |-> [paths \in Seq(Seq(Int)) |->
          IF Len(paths) >= cap \/ n > Len(<< <<gid>> >> \o paths) THEN paths
          ELSE search[n + 1][IF Len((<< <<gid>> >> \o paths)[n]) > depth THEN paths
                 ELSE FirstOf(paths \o Longer(pairs, (<< <<gid>> >> \o paths)[n]), cap)]]]
  <2>1. PathsFrom(pairs, gid, depth, cap) = (CHOOSE search : Rule(search))[1][<<>>]
    BY DEF PathsFrom, Longer, Onward
  <2>2. \A search : Rule(search) <=> Searching(pairs, gid, depth, cap, search)
    BY DEF Searching, StopsAt, Bounded, PathQueue
  <2> HIDE DEF Rule
  <2>3. \E search : Rule(search)
    BY <2>2, SearchExists
  <2>4. Rule(CHOOSE search : Rule(search))
    BY <2>3
  <2>5. QED
    BY <2>1, <2>2, <2>4
<1>6. ASSUME NEW n \in 1 .. (cap + 1), NEW paths \in S
      PROVE  search[n][paths] = IF StopsAt(gid, cap, paths, n) THEN paths
                                ELSE search[n + 1][Bounded(pairs, gid, depth, cap, paths, n)]
  <2>1. search = [i \in 1 .. (cap + 1) |-> [p \in S |->
                    IF StopsAt(gid, cap, p, i) THEN p
                    ELSE search[i + 1][Bounded(pairs, gid, depth, cap, p, i)]]]
    BY <1>5 DEF Searching
  <2> HIDE DEF S
  <2>2. search[n] = [p \in S |->
                       IF StopsAt(gid, cap, p, n) THEN p
                       ELSE search[n + 1][Bounded(pairs, gid, depth, cap, p, n)]]
    BY <2>1
  <2>3. QED
    BY <2>2
<1>7. ASSUME NEW n \in Nat, NEW paths \in S, StopsAt(gid, cap, paths, n)
      PROVE  StopsAt(gid, cap, paths, n + 1)
  <2>1. Len(PathQueue(gid, paths)) = Len(paths) + 1 /\ Len(paths) \in Nat
    BY GoneOnType
  <2>2. QED
    BY <1>7, <2>1 DEF StopsAt
<1>8. ASSUME NEW n \in Nat, n >= cap + 1, NEW paths \in S
      PROVE  StopsAt(gid, cap, paths, n)
  <2>1. Len(PathQueue(gid, paths)) = Len(paths) + 1 /\ Len(paths) \in Nat
    BY GoneOnType
  <2>2. QED
    BY <1>8, <2>1 DEF StopsAt
<1> HIDE DEF cut, S
<1> DEFINE good == {n \in Nat : n <= last =>
                      search[1][<<>>] = IF n <= cap THEN search[n + 1][cut[n]] ELSE cut[n]}
<1>9. 0 \in good
  BY <1>3
<1>10. ASSUME NEW n \in Nat, n \in good
       PROVE  n + 1 \in good
  <2> SUFFICES ASSUME n + 1 <= last
               PROVE  search[1][<<>>] = IF n + 1 <= cap THEN search[(n + 1) + 1][cut[n + 1]]
                                        ELSE cut[n + 1]
    OBVIOUS
  <2>1. n \in 0 .. last /\ n + 1 \in 0 .. last /\ n + 1 \in 1 .. last /\ (n + 1) - 1 = n
    OBVIOUS
  <2>2. PICK old, new \in S : old = cut[n] /\ new = cut[n + 1]
    BY <1>2, <2>1
  <2>3. new = IF StopsAt(gid, cap, old, n + 1) THEN old
              ELSE Bounded(pairs, gid, depth, cap, old, n + 1)
    BY <1>4, <2>1, <2>2
  <2>4. search[1][<<>>] = IF n <= cap THEN search[n + 1][old] ELSE old
    BY <1>10, <2>1, <2>2
  <2>5. CASE n > cap
    <3>1. StopsAt(gid, cap, old, n + 1) /\ ~ (n <= cap) /\ ~ (n + 1 <= cap)
      BY <1>8, <2>5
    <3>2. QED
      BY <2>2, <2>3, <2>4, <3>1
  <2>6. CASE n <= cap
    <3>1. n + 1 \in 1 .. (cap + 1) /\ search[1][<<>>] = search[n + 1][old]
      BY <2>4, <2>6
    <3>2. search[n + 1][old] = IF StopsAt(gid, cap, old, n + 1) THEN old
                               ELSE search[(n + 1) + 1][Bounded(pairs, gid, depth, cap, old, n + 1)]
      BY <1>6, <3>1
    <3>3. CASE StopsAt(gid, cap, old, n + 1)
      <4>1. new = old /\ search[1][<<>>] = old
        BY <2>3, <3>1, <3>2, <3>3
      <4>2. CASE n + 1 <= cap
        <5>1. (n + 1) + 1 \in 1 .. (cap + 1) /\ n + 1 \in Nat
          BY <4>2
        <5>2. StopsAt(gid, cap, new, (n + 1) + 1)
          BY <1>7, <3>3, <4>1, <5>1
        <5>3. search[(n + 1) + 1][new] = new
          BY <1>6, <5>1, <5>2
        <5>4. QED
          BY <2>2, <4>1, <4>2, <5>3
      <4>3. CASE ~ (n + 1 <= cap)
        BY <2>2, <4>1, <4>3
      <4>4. QED
        BY <4>2, <4>3
    <3>4. CASE ~ StopsAt(gid, cap, old, n + 1)
      <4>1. n + 1 <= cap
        BY <1>8, <2>6, <3>4
      <4>2. QED
        BY <2>2, <2>3, <3>1, <3>2, <3>4, <4>1
    <3>5. QED
      BY <3>3, <3>4
  <2>7. QED
    BY <2>5, <2>6
<1>11. last \in good
  <2> HIDE DEF good
  <2>1. Nat \subseteq good
    BY <1>9, <1>10, SetInduction
  <2>2. QED
    BY <2>1
<1>12. search[1][<<>>] = cut[last]
  <2>1. CASE last > cap
    BY <1>11, <2>1
  <2>2. CASE last = cap
    <3>1. search[1][<<>>] = search[last + 1][cut[last]]
      BY <1>11, <2>2
    <3>2. last + 1 \in 1 .. (cap + 1) /\ cut[last] \in S
      BY <1>2, <2>2
    <3>3. StopsAt(gid, cap, cut[last], last + 1)
      BY <1>8, <2>2, <3>2
    <3>4. QED
      BY <1>6, <3>1, <3>2, <3>3
  <2>3. QED
    BY <2>1, <2>2
<1>13. cut[last] = FirstOf(run[last], cap)
  BY DEF cut
<1>14. QED
  BY <1>5, <1>12, <1>13

\* The paths of at most so many steps, the account alone among them.
Known(pairs, U, gid, depth) == UNION {PathsOf(pairs, U, gid, k) : k \in 1 .. (depth + 1)}

Knows(pairs, U, gid, depth, K) ==
  /\ <<gid>> \in K /\ \A p \in K : p \in Seq(Int) /\ Len(p) \in 1 .. (depth + 1)
  /\ \A p \in K : Len(p) = 1 => p = <<gid>>
  /\ \A p \in K : Len(p) <= depth =>
       /\ Lists(Longer(pairs, p), Extended(pairs, p))
       /\ \A x \in Extended(pairs, p) : x \in K /\ Len(x) = Len(p) + 1
  /\ \A p, q \in K : p # q /\ Len(p) <= depth /\ Len(q) <= depth =>
       Extended(pairs, p) \cap Extended(pairs, q) = {}
  /\ \A x \in K : Len(x) > 1 => \E p \in K : Len(p) = Len(x) - 1 /\ x \in Extended(pairs, p)
  /\ PathsUpTo(pairs, U, gid, depth + 1) = {p \in K : Len(p) > 1}

LEMMA KnownPaths ==
  ASSUME NEW U \in SUBSET Int, IsFiniteSet(U), NEW pairs, PairsAmong(pairs, U), NEW gid \in U,
         NEW depth \in Nat, NEW K, K = Known(pairs, U, gid, depth)
  PROVE  Knows(pairs, U, gid, depth, K)
<1> DEFINE P(k) == PathsOf(pairs, U, gid, k)
<1>1. \A k \in Nat \ {0} : \A p \in P(k) : p \in Seq(U) /\ Len(p) = k
  BY PathFacts
<1>2. P(1) = {<<gid>>}
  <2>1. 1 - 1 = 0 /\ 1 .. 1 = {1} /\ 1 .. 0 = {}
    OBVIOUS
  <2>2. <<gid>> \in [1 .. 1 -> U] /\ <<gid>>[1] = gid
    OBVIOUS
  <2>3. <<gid>> \in P(1)
    BY <2>1, <2>2 DEF PathsOf
  <2>4. ASSUME NEW p \in P(1) PROVE p = <<gid>>
    <3>1. p \in [1 .. 1 -> U] /\ p[1] = gid
      BY DEF PathsOf
    <3>2. QED
      BY <2>1, <2>2, <3>1
  <2>5. QED
    BY <2>3, <2>4
<1>3. \A k \in Nat \ {0} : \A p \in P(k) : /\ Lists(Longer(pairs, p), Extended(pairs, p))
                                           /\ Extended(pairs, p) \subseteq P(k + 1)
  BY WaysOn, PathsGoOn
<1>4. \A k \in Nat \ {0} : \A x \in P(k + 1) : \E p \in P(k) : x \in Extended(pairs, p)
  BY PathsGoOn
<1>5. \A k \in Nat \ {0} : \A p, q \in P(k) :
        p # q => Extended(pairs, p) \cap Extended(pairs, q) = {}
  BY PathsGoOn
<1>6. K = UNION {P(k) : k \in 1 .. (depth + 1)}
  BY DEF Known
<1>7. PathsUpTo(pairs, U, gid, depth + 1) = UNION {P(k) : k \in 2 .. (depth + 1)}
  BY DEF PathsUpTo
<1> HIDE DEF P
<1>8. \A p \in K : \E k \in 1 .. (depth + 1) : p \in P(k)
  BY <1>6
<1>9. \A k \in 1 .. (depth + 1) : \A p \in P(k) : p \in K
  BY <1>6
<1>10. \A k \in 1 .. (depth + 1) : k \in Nat \ {0}
  OBVIOUS
<1>11. ASSUME NEW p \in K
       PROVE  p \in Seq(Int) /\ Len(p) \in 1 .. (depth + 1) /\ p \in P(Len(p))
  <2>1. PICK k \in 1 .. (depth + 1) : p \in P(k)
    BY <1>8
  <2>2. p \in Seq(U) /\ Len(p) = k
    BY <1>1, <1>10, <2>1
  <2>3. p \in Seq(Int)
    <3>1. p \in [1 .. k -> U] /\ \A u \in U : u \in Int
      BY <2>1 DEF P, PathsOf
    <3>2. p \in [1 .. k -> Int]
      BY <3>1
    <3>3. QED
      BY <3>2
  <2>4. p \in P(Len(p))
    BY <2>1, <2>2
  <2>5. QED
    BY <2>2, <2>3, <2>4
<1>12. <<gid>> \in K
  <2>1. 1 \in 1 .. (depth + 1)
    OBVIOUS
  <2>2. QED
    BY <1>2, <1>9, <2>1
<1>13. \A p \in K : Len(p) = 1 => p = <<gid>>
  BY <1>2, <1>11
<1>14. ASSUME NEW p \in K, Len(p) <= depth
       PROVE  /\ Lists(Longer(pairs, p), Extended(pairs, p))
              /\ \A x \in Extended(pairs, p) : x \in K /\ Len(x) = Len(p) + 1
  <2>1. PICK k \in 1 .. (depth + 1) : k = Len(p) /\ p \in P(k)
    BY <1>11
  <2>2. k + 1 \in 1 .. (depth + 1) /\ k + 1 \in Nat \ {0}
    BY <1>14, <2>1
  <2>3. /\ Lists(Longer(pairs, p), Extended(pairs, p))
        /\ \A x \in Extended(pairs, p) : x \in P(k + 1)
    BY <1>3, <1>10, <2>1
  <2>4. \A x \in P(k + 1) : x \in K /\ Len(x) = k + 1
    BY <1>1, <1>9, <2>2
  <2>5. QED
    BY <2>1, <2>3, <2>4
<1>15. ASSUME NEW p \in K, NEW q \in K, p # q, Len(p) <= depth, Len(q) <= depth
       PROVE  Extended(pairs, p) \cap Extended(pairs, q) = {}
  <2>1. CASE Len(p) = Len(q)
    <3>1. PICK k \in 1 .. (depth + 1) : k = Len(p) /\ p \in P(k)
      BY <1>11
    <3>2. q \in P(k)
      BY <1>11, <2>1, <3>1
    <3>3. QED
      BY <1>5, <1>10, <1>15, <3>1, <3>2
  <2>2. CASE Len(p) # Len(q)
    <3>1. \A x \in Extended(pairs, p) : Len(x) = Len(p) + 1
      BY <1>14, <1>15
    <3>2. \A x \in Extended(pairs, q) : Len(x) = Len(q) + 1
      BY <1>14, <1>15
    <3>3. Len(p) + 1 # Len(q) + 1
      BY <1>11, <2>2
    <3>4. QED
      BY <3>1, <3>2, <3>3
  <2>3. QED
    BY <2>1, <2>2
<1>16. ASSUME NEW x \in K, Len(x) > 1
       PROVE  \E p \in K : Len(p) = Len(x) - 1 /\ x \in Extended(pairs, p)
  <2>1. PICK k \in Nat \ {0} : Len(x) = k + 1 /\ k \in 1 .. (depth + 1)
    <3>1. Len(x) \in 1 .. (depth + 1)
      BY <1>11
    <3>2. PICK l \in 1 .. (depth + 1) : l = Len(x)
      BY <3>1
    <3>3. l > 1
      BY <1>16, <3>2
    <3>4. l - 1 \in Nat \ {0} /\ l - 1 \in 1 .. (depth + 1) /\ l = (l - 1) + 1
      BY <3>3
    <3>5. QED
      BY <3>2, <3>4
  <2>2. x \in P(k + 1)
    BY <1>11, <2>1
  <2>3. PICK p \in P(k) : x \in Extended(pairs, p)
    BY <1>4, <2>2
  <2>4. p \in K /\ Len(p) = k
    BY <1>1, <1>9, <2>1
  <2>5. Len(x) - 1 = k
    BY <2>1
  <2>6. QED
    BY <2>3, <2>4, <2>5
<1>17. PathsUpTo(pairs, U, gid, depth + 1) = {p \in K : Len(p) > 1}
  <2>1. ASSUME NEW p \in PathsUpTo(pairs, U, gid, depth + 1) PROVE p \in K /\ Len(p) > 1
    <3>1. PICK k \in 2 .. (depth + 1) : p \in P(k)
      BY <1>7
    <3>2. k \in 1 .. (depth + 1) /\ k > 1
      OBVIOUS
    <3>3. QED
      BY <1>1, <1>9, <1>10, <3>1, <3>2
  <2>2. ASSUME NEW p \in K, Len(p) > 1 PROVE p \in PathsUpTo(pairs, U, gid, depth + 1)
    <3>1. PICK k \in 1 .. (depth + 1) : k = Len(p) /\ p \in P(k)
      BY <1>11
    <3>2. k \in 2 .. (depth + 1)
      BY <2>2, <3>1
    <3>3. QED
      BY <1>7, <3>1, <3>2
  <2>3. PICK some, those : some = PathsUpTo(pairs, U, gid, depth + 1) /\ those = {p \in K : Len(p) > 1}
    OBVIOUS
  <2>4. \A p \in some : p \in those
    BY <2>1, <2>3
  <2>5. \A p \in those : p \in some
    BY <2>2, <2>3
  <2>6. some = those
    BY <2>4, <2>5
  <2>7. QED
    BY <2>3, <2>6
<1>18. QED
  BY <1>11, <1>12, <1>13, <1>14, <1>15, <1>16, <1>17 DEF Knows

LEMMA KnownPath ==
  ASSUME NEW U \in SUBSET Int, IsFiniteSet(U), NEW pairs, PairsAmong(pairs, U), NEW gid \in U,
         NEW depth \in Nat, NEW K, K = Known(pairs, U, gid, depth), NEW p \in K
  PROVE  p \in Seq(Int) /\ Len(p) \in 1 .. (depth + 1) /\ (Len(p) = 1 => p = <<gid>>)
<1>1. Knows(pairs, U, gid, depth, K)
  BY KnownPaths
<1>2. QED
  BY <1>1 DEF Knows

LEMMA KnownGoesOn ==
  ASSUME NEW U \in SUBSET Int, IsFiniteSet(U), NEW pairs, PairsAmong(pairs, U), NEW gid \in U,
         NEW depth \in Nat, NEW K, K = Known(pairs, U, gid, depth), NEW p \in K, Len(p) <= depth
  PROVE  /\ Lists(Longer(pairs, p), Extended(pairs, p))
         /\ \A x \in Extended(pairs, p) : x \in K /\ Len(x) = Len(p) + 1
<1>1. Knows(pairs, U, gid, depth, K)
  BY KnownPaths
<1>2. QED
  BY <1>1 DEF Knows

LEMMA KnownApart ==
  ASSUME NEW U \in SUBSET Int, IsFiniteSet(U), NEW pairs, PairsAmong(pairs, U), NEW gid \in U,
         NEW depth \in Nat, NEW K, K = Known(pairs, U, gid, depth), NEW p \in K, NEW q \in K,
         p # q, Len(p) <= depth, Len(q) <= depth
  PROVE  Extended(pairs, p) \cap Extended(pairs, q) = {}
<1>1. Knows(pairs, U, gid, depth, K)
  BY KnownPaths
<1>2. QED
  BY <1>1 DEF Knows

LEMMA KnownFrom ==
  ASSUME NEW U \in SUBSET Int, IsFiniteSet(U), NEW pairs, PairsAmong(pairs, U), NEW gid \in U,
         NEW depth \in Nat, NEW K, K = Known(pairs, U, gid, depth), NEW x \in K, Len(x) > 1
  PROVE  \E p \in K : Len(p) = Len(x) - 1 /\ x \in Extended(pairs, p)
<1>1. Knows(pairs, U, gid, depth, K)
  BY KnownPaths
<1>2. QED
  BY <1>1 DEF Knows

\* The places of the queue that went on among the first.
Went(queue, depth, n) == {i \in 1 .. n : i <= Len(queue) /\ Len(queue[i]) <= depth}

\* What holds after some paths were taken from the queue: the paths are all ways on from
\* those, once each; the queue has the shorter ones first; and what it has behind them
\* is at most one account shorter than the longest.
Found(pairs, U, gid, depth, n, paths) ==
  LET queue == PathQueue(gid, paths)
  IN /\ \A i \in 1 .. Len(queue) : queue[i] \in Known(pairs, U, gid, depth)
     /\ Lists(paths, UNION {Extended(pairs, queue[i]) : i \in Went(queue, depth, n)})
     /\ ShorterFirst(queue)
     /\ \A i \in (n + 1) .. Len(queue) : \A j \in 1 .. Len(queue) :
          Len(queue[j]) <= Len(queue[i]) + 1

LEMMA FoundAtFirst ==
  ASSUME NEW U \in SUBSET Int, IsFiniteSet(U), NEW pairs, PairsAmong(pairs, U), NEW gid \in U,
         NEW depth \in Nat
  PROVE  Found(pairs, U, gid, depth, 0, <<>>)
<1> DEFINE queue == PathQueue(gid, <<>>)
           K == Known(pairs, U, gid, depth)
<1>1. Len(queue) = 1 /\ queue[1] = <<gid>>
  <2>1. PICK T : T = Seq(Int)
    OBVIOUS
  <2>2. <<gid>> \in T /\ <<>> \in Seq(T) /\ Len(<<>>) = 0
    BY <2>1
  <2>3. Len(queue) = Len(<<>>) + 1 /\ queue[1] = <<gid>>
    BY <2>2, QueueFacts
  <2>4. QED
    BY <2>2, <2>3
<1>2. <<gid>> \in K
  BY KnownPaths DEF Knows
<1> HIDE DEF queue, K
<1>3. \A i \in 1 .. Len(queue) : i = 1 /\ queue[i] = <<gid>>
  BY <1>1
<1>4. Went(queue, depth, 0) = {}
  BY DEF Went
<1>5. Lists(<<>>, UNION {Extended(pairs, queue[i]) : i \in Went(queue, depth, 0)})
  <2>1. UNION {Extended(pairs, queue[i]) : i \in Went(queue, depth, 0)} = {}
    BY <1>4
  <2>2. QED
    BY <2>1, ListOfNone
<1>6. ShorterFirst(queue)
  BY <1>3 DEF ShorterFirst
<1>7. \A i \in 1 .. Len(queue) : \A j \in 1 .. Len(queue) : Len(queue[j]) <= Len(queue[i]) + 1
  <2>1. Len(<<gid>>) = 1
    OBVIOUS
  <2>2. \A i \in 1 .. Len(queue) : Len(queue[i]) = 1
    BY <1>3, <2>1
  <2>3. QED
    BY <2>2
<1>8. 0 + 1 = 1 /\ \A i \in 1 .. Len(queue) : queue[i] \in K
  BY <1>2, <1>3
<1>9. QED
  BY <1>5, <1>6, <1>7, <1>8 DEF Found, queue, K

\* No path waits twice, and none but the first is the account alone.
LEMMA QueueIsApart ==
  ASSUME NEW U \in SUBSET Int, IsFiniteSet(U), NEW pairs, PairsAmong(pairs, U), NEW gid \in U,
         NEW depth \in Nat, NEW n \in Nat, NEW paths \in Seq(Seq(Int)),
         Found(pairs, U, gid, depth, n, paths), NEW queue, queue = PathQueue(gid, paths)
  PROVE  /\ \A i \in 1 .. Len(paths) : Len(paths[i]) > 1
         /\ \A i, j \in 1 .. Len(queue) : queue[i] = queue[j] => i = j
<1>1. PICK T, K : T = Seq(Int) /\ K = Known(pairs, U, gid, depth)
  OBVIOUS
<1>2. PICK k \in Nat : k = Len(paths)
  OBVIOUS
<1>3. /\ Len(queue) = k + 1 /\ queue[1] = <<gid>>
      /\ \A i \in 2 .. (k + 1) : queue[i] = paths[i - 1]
  <2>1. <<gid>> \in T /\ paths \in Seq(T)
    BY <1>1
  <2>2. QED
    BY <1>2, <2>1, QueueFacts
<1> DEFINE X == UNION {Extended(pairs, queue[i]) : i \in Went(queue, depth, n)}
<1>4. /\ \A i \in 1 .. Len(queue) : queue[i] \in K
      /\ Lists(paths, X)
  BY <1>1 DEF Found
<1>5. ASSUME NEW x \in X
      PROVE  Len(x) > 1
  <2>1. PICK i \in Went(queue, depth, n) : x \in Extended(pairs, queue[i])
    OBVIOUS
  <2>2. i \in 1 .. Len(queue) /\ Len(queue[i]) <= depth
    BY <1>3, <2>1 DEF Went
  <2>3. PICK p \in K : p = queue[i]
    BY <1>4, <2>2
  <2>4. Len(p) \in 1 .. (depth + 1) /\ Len(p) <= depth
    BY <1>1, <2>2, <2>3, KnownPath
  <2>5. Len(x) = Len(p) + 1
    BY <1>1, <2>1, <2>3, <2>4, KnownGoesOn
  <2>6. QED
    BY <2>4, <2>5
<1> HIDE DEF X
<1>6. /\ \A i \in 1 .. k : paths[i] \in X
      /\ \A i, j \in 1 .. k : paths[i] = paths[j] => i = j
  BY <1>2, <1>4 DEF Lists
<1>7. \A i \in 1 .. k : Len(paths[i]) > 1
  BY <1>5, <1>6
<1>8. Len(<<gid>>) = 1
  OBVIOUS
<1>9. ASSUME NEW i \in 2 .. (k + 1)
      PROVE  i - 1 \in 1 .. k /\ queue[i] = paths[i - 1] /\ queue[i] # <<gid>>
  <2>1. i - 1 \in 1 .. k
    OBVIOUS
  <2>2. queue[i] = paths[i - 1]
    BY <1>3
  <2>3. PICK j \in 1 .. k : j = i - 1
    BY <2>1
  <2>4. Len(paths[j]) > 1
    BY <1>7
  <2>5. paths[j] # <<gid>>
    <3>1. Len(<<gid>>) = 1 => ~ (Len(<<gid>>) > 1)
      OBVIOUS
    <3>2. QED
      BY <1>8, <2>4, <3>1
  <2>6. QED
    BY <2>1, <2>2, <2>3, <2>5
<1>10. ASSUME NEW i \in 1 .. (k + 1), NEW j \in 1 .. (k + 1), queue[i] = queue[j]
       PROVE  i = j
  <2>1. i = 1 \/ i \in 2 .. (k + 1)
    OBVIOUS
  <2>2. j = 1 \/ j \in 2 .. (k + 1)
    OBVIOUS
  <2>3. CASE i = 1 \/ j = 1
    BY <1>3, <1>9, <1>10, <2>1, <2>2, <2>3
  <2>4. CASE i \in 2 .. (k + 1) /\ j \in 2 .. (k + 1)
    <3>1. i - 1 \in 1 .. k /\ j - 1 \in 1 .. k /\ paths[i - 1] = paths[j - 1]
      BY <1>3, <1>9, <1>10, <2>4
    <3>2. i - 1 = j - 1
      BY <1>6, <3>1
    <3>3. QED
      BY <3>2
  <2>5. QED
    BY <2>1, <2>2, <2>3, <2>4
<1>11. QED
  BY <1>2, <1>3, <1>7, <1>10

LEMMA FoundGoesOn ==
  ASSUME NEW U \in SUBSET Int, IsFiniteSet(U), NEW pairs, PairsAmong(pairs, U), NEW gid \in U,
         NEW depth \in Nat, NEW n \in Nat, NEW paths \in Seq(Seq(Int)),
         Found(pairs, U, gid, depth, n, paths),
         NEW after, after = GoneOn(pairs, gid, depth, paths, n + 1)
  PROVE  Found(pairs, U, gid, depth, n + 1, after)
<1>1. PICK T, K, queue : /\ T = Seq(Int) /\ K = Known(pairs, U, gid, depth)
                         /\ queue = PathQueue(gid, paths)
  OBVIOUS
<1>2. PICK m, count \in Nat \ {0} : m = n + 1 /\ count = Len(queue)
  <2>1. Len(queue) = Len(paths) + 1 /\ Len(paths) \in Nat
    BY <1>1, GoneOnType
  <2>2. n + 1 \in Nat \ {0} /\ Len(paths) + 1 \in Nat \ {0}
    BY <2>1
  <2>3. QED
    BY <2>1, <2>2
<1>3. paths \in Seq(T) /\ queue \in Seq(T)
  BY <1>1, GoneOnType
<1> DEFINE X == UNION {Extended(pairs, queue[i]) : i \in Went(queue, depth, n)}
<1>4. /\ \A i \in 1 .. count : queue[i] \in K
      /\ Lists(paths, X) /\ ShorterFirst(queue)
      /\ \A i \in m .. count : \A j \in 1 .. count : Len(queue[j]) <= Len(queue[i]) + 1
  BY <1>1, <1>2 DEF Found
<1> HIDE DEF X
<1>5. after = IF m > count THEN paths ELSE IF Len(queue[m]) > depth THEN paths
              ELSE paths \o Longer(pairs, queue[m])
  BY <1>1, <1>2 DEF GoneOn
<1>6. ASSUME m > count \/ Len(queue[m]) > depth
      PROVE  Found(pairs, U, gid, depth, m, paths)
  <2>1. m <= count => Len(queue[m]) \in Nat
    BY <1>3, <1>2
  <2>2. \A i \in 1 .. m : i \in 1 .. n \/ i = m
    BY <1>2
  <2>3. \A i \in 1 .. n : i \in 1 .. m
    BY <1>2
  <2>4. Went(queue, depth, m) = Went(queue, depth, n)
    BY <1>2, <1>6, <2>1, <2>2, <2>3 DEF Went
  <2>5. \A i \in (m + 1) .. count : i \in m .. count
    BY <1>2
  <2>6. Lists(paths, UNION {Extended(pairs, queue[i]) : i \in Went(queue, depth, m)})
    BY <1>4, <2>4 DEF X
  <2>7. \A i \in (m + 1) .. count : \A j \in 1 .. count : Len(queue[j]) <= Len(queue[i]) + 1
    BY <1>4, <2>5
  <2>8. QED
    BY <1>1, <1>2, <1>4, <2>6, <2>7 DEF Found
<1>7. ASSUME m <= count, Len(queue[m]) <= depth
      PROVE  Found(pairs, U, gid, depth, m, paths \o Longer(pairs, queue[m]))
  <2>1. PICK p \in K : p = queue[m]
    BY <1>2, <1>4, <1>7
  <2>2. PICK c \in Nat \ {0} : c = Len(p) /\ c <= depth
    <3>1. Len(p) \in 1 .. (depth + 1)
      BY <1>1, KnownPath
    <3>2. Len(p) <= depth
      BY <1>7, <2>1
    <3>3. QED
      BY <3>1, <3>2
  <2>3. PICK more : more = Longer(pairs, p)
    OBVIOUS
  <2>4. /\ Lists(more, Extended(pairs, p))
        /\ \A x \in Extended(pairs, p) : x \in K /\ Len(x) = c + 1
    BY <1>1, <2>2, <2>3, KnownGoesOn
  <2>5. more \in Seq(T)
    BY <1>1, <1>2, <1>7, <2>1, <2>3, GoneOnType
  <2>6. PICK l \in Nat : l = Len(more)
    BY <2>5
  <2>7. \A i \in 1 .. l : more[i] \in K /\ Len(more[i]) = c + 1
    <3>1. \A i \in 1 .. l : more[i] \in Extended(pairs, p)
      BY <2>4, <2>6 DEF Lists
    <3>2. QED
      BY <2>4, <3>1
  <2>8. PICK longer : longer = PathQueue(gid, paths \o more)
    OBVIOUS
  <2>9. longer = queue \o more
    <3>1. << <<gid>> >> \in Seq(T)
      BY <1>1
    <3>2. (<< <<gid>> >> \o paths) \o more = << <<gid>> >> \o (paths \o more)
      BY <1>3, <2>5, <3>1, ConcatAssociative
    <3>3. QED
      BY <1>1, <2>8, <3>2 DEF PathQueue
  <2>10. /\ Len(longer) = count + l
         /\ \A i \in 1 .. (count + l) :
              longer[i] = IF i <= count THEN queue[i] ELSE more[i - count]
    BY <1>2, <1>3, <2>5, <2>6, <2>9, ConcatProperties
  <2>11. /\ \A i \in 1 .. count : i \in 1 .. (count + l) /\ longer[i] = queue[i]
         /\ \A i \in (count + 1) .. (count + l) : i - count \in 1 .. l /\ longer[i] = more[i - count]
    <3>1. \A i \in 1 .. count : i \in 1 .. (count + l) /\ i <= count
      OBVIOUS
    <3>2. \A i \in (count + 1) .. (count + l) :
            i \in 1 .. (count + l) /\ ~ (i <= count) /\ i - count \in 1 .. l
      OBVIOUS
    <3>3. QED
      BY <2>10, <3>1, <3>2
  <2>12. \A i \in 1 .. (count + l) : i \in 1 .. count \/ i \in (count + 1) .. (count + l)
    OBVIOUS
  <2>13. \A i \in 1 .. (count + l) : longer[i] \in K
    BY <1>4, <2>7, <2>11, <2>12
  <2>14. Went(longer, depth, m) = Went(queue, depth, n) \cup {m}
    <3>1. \A i \in 1 .. m : i \in 1 .. count /\ i <= count /\ i <= count + l /\ longer[i] = queue[i]
      <4>1. \A i \in 1 .. m : i \in 1 .. count /\ i <= count /\ i <= count + l
        BY <1>7
      <4>2. QED
        BY <2>11, <4>1
    <3>2. Went(longer, depth, m) = {i \in 1 .. m : Len(queue[i]) <= depth}
      BY <2>10, <3>1 DEF Went
    <3>3. \A i \in 1 .. n : i \in 1 .. m
      BY <1>2
    <3>4. Went(queue, depth, n) = {i \in 1 .. n : Len(queue[i]) <= depth}
      BY <1>2, <3>1, <3>3 DEF Went
    <3>5. \A i : i \in 1 .. m <=> i \in 1 .. n \/ i = m
      BY <1>2
    <3>6. QED
      BY <1>7, <3>2, <3>4, <3>5
  <2>15. UNION {Extended(pairs, longer[i]) : i \in Went(longer, depth, m)} = X \cup Extended(pairs, p)
    <3>1. \A i \in Went(queue, depth, n) : i \in 1 .. count
      BY <1>2 DEF Went
    <3>2. \A i \in Went(queue, depth, n) : longer[i] = queue[i]
      BY <2>11, <3>1
    <3>3. longer[m] = p
      BY <1>7, <2>1, <2>11
    <3>4. PICK W : W = Went(queue, depth, n)
      OBVIOUS
    <3>5. X = UNION {Extended(pairs, queue[i]) : i \in W}
      BY <3>4 DEF X
    <3>6. UNION {Extended(pairs, longer[i]) : i \in W \cup {m}} = X \cup Extended(pairs, p)
      BY <3>2, <3>3, <3>4, <3>5
    <3>7. QED
      BY <2>14, <3>4, <3>6
  <2>16. \A x \in X : x \notin Extended(pairs, p)
    <3> SUFFICES ASSUME NEW x \in X PROVE x \notin Extended(pairs, p)
      OBVIOUS
    <3>1. PICK i \in Went(queue, depth, n) : x \in Extended(pairs, queue[i])
      BY DEF X
    <3>2. i \in 1 .. count /\ i # m /\ Len(queue[i]) <= depth
      BY <1>2, <3>1 DEF Went
    <3>3. \A a, b \in 1 .. count : queue[a] = queue[b] => a = b
      BY <1>1, <1>2, QueueIsApart
    <3>4. m \in 1 .. count
      BY <1>7
    <3>5. PICK q \in K : q = queue[i] /\ q # p
      BY <1>4, <2>1, <3>2, <3>3, <3>4
    <3>7. Len(q) <= depth /\ Len(p) <= depth
      BY <2>2, <3>2, <3>5
    <3>8. Extended(pairs, p) \cap Extended(pairs, q) = {}
      BY <1>1, <3>5, <3>7, KnownApart
    <3>9. QED
      BY <3>1, <3>5, <3>8
  <2>17. Lists(paths \o more, UNION {Extended(pairs, longer[i]) : i \in Went(longer, depth, m)})
    <3>1. PICK Y, Z : Y = X /\ Z = Extended(pairs, p)
      OBVIOUS
    <3>2. Lists(paths, Y) /\ Lists(more, Z) /\ Y \cap Z = {}
      BY <1>4, <2>4, <2>16, <3>1
    <3>3. Lists(paths \o more, Y \cup Z)
      BY <3>2, ListsJoined
    <3>4. QED
      BY <2>15, <3>1, <3>3
  <2>18. \A i \in 1 .. count : /\ Len(queue[i]) \in Nat /\ Len(queue[i]) <= c + 1
                               /\ i >= m => c <= Len(queue[i])
    <3> SUFFICES ASSUME NEW i \in 1 .. count
                 PROVE  /\ Len(queue[i]) \in Nat /\ Len(queue[i]) <= c + 1
                        /\ i >= m => c <= Len(queue[i])
      OBVIOUS
    <3>1. Len(queue[i]) \in Nat
      BY <1>2, <1>3, <1>1
    <3>2. m \in m .. count /\ m \in 1 .. count
      BY <1>7
    <3>3. Len(queue[i]) <= c + 1
      BY <1>4, <2>1, <2>2, <3>2
    <3>4. i > m => c <= Len(queue[i])
      BY <1>2, <1>4, <2>1, <2>2, <3>2 DEF ShorterFirst
    <3>5. i = m => Len(queue[i]) = c
      BY <2>1, <2>2
    <3>6. QED
      BY <3>1, <3>3, <3>4, <3>5
  <2>19. \A i \in (count + 1) .. (count + l) : Len(longer[i]) = c + 1
    BY <2>7, <2>11
  <2>20. \A i \in 1 .. count : Len(longer[i]) = Len(queue[i])
    BY <2>11
  <2>21. \A i \in 1 .. (count + l) : Len(longer[i]) \in Nat /\ Len(longer[i]) <= c + 1
    BY <2>12, <2>18, <2>19, <2>20
  <2>22. \A i \in 1 .. (count + l) : i >= m => c <= Len(longer[i])
    BY <2>12, <2>18, <2>19, <2>20
  <2>23. ShorterFirst(longer)
    <3> SUFFICES ASSUME NEW i \in 1 .. (count + l), NEW j \in 1 .. (count + l), i < j
                 PROVE  Len(longer[i]) <= Len(longer[j])
      BY <2>10 DEF ShorterFirst
    <3>1. CASE j \in 1 .. count
      <4>1. i \in 1 .. count
        BY <3>1
      <4>2. Len(queue[i]) <= Len(queue[j])
        BY <1>2, <1>4, <3>1, <4>1 DEF ShorterFirst
      <4>3. QED
        BY <2>20, <3>1, <4>1, <4>2
    <3>2. CASE j \in (count + 1) .. (count + l)
      BY <2>19, <2>21, <3>2
    <3>3. QED
      BY <2>12, <3>1, <3>2
  <2>24. \A i \in (m + 1) .. (count + l) : \A j \in 1 .. (count + l) :
           Len(longer[j]) <= Len(longer[i]) + 1
    <3> SUFFICES ASSUME NEW i \in (m + 1) .. (count + l), NEW j \in 1 .. (count + l)
                 PROVE  Len(longer[j]) <= Len(longer[i]) + 1
      OBVIOUS
    <3>1. i \in 1 .. (count + l) /\ i >= m
      OBVIOUS
    <3>2. c <= Len(longer[i]) /\ Len(longer[i]) \in Nat
      BY <2>21, <2>22, <3>1
    <3>3. Len(longer[j]) \in Nat /\ Len(longer[j]) <= c + 1
      BY <2>21
    <3>4. QED
      BY <3>2, <3>3
  <2>25. Found(pairs, U, gid, depth, m, paths \o more)
    BY <1>1, <2>8, <2>10, <2>13, <2>17, <2>23, <2>24 DEF Found
  <2>26. QED
    BY <2>1, <2>3, <2>25
<1>8. CASE m > count \/ (m <= count /\ Len(queue[m]) > depth)
  BY <1>2, <1>5, <1>6, <1>8
<1>9. CASE m <= count /\ Len(queue[m]) <= depth
  <2>1. ~ (m > count) /\ ~ (Len(queue[m]) > depth)
    <3>1. Len(queue[m]) \in Nat
      BY <1>1, <1>2, <1>3, <1>9
    <3>2. QED
      BY <1>9, <3>1
  <2>2. QED
    BY <1>2, <1>5, <1>7, <1>9, <2>1
<1>10. QED
  <2>1. m <= count => Len(queue[m]) \in Nat
    BY <1>1, <1>2, <1>3
  <2>2. QED
    BY <1>8, <1>9, <2>1

\* Once the whole queue was taken, every path was found.
LEMMA FoundAll ==
  ASSUME NEW U \in SUBSET Int, IsFiniteSet(U), NEW pairs, PairsAmong(pairs, U), NEW gid \in U,
         NEW depth \in Nat, NEW n \in Nat, NEW paths \in Seq(Seq(Int)),
         Found(pairs, U, gid, depth, n, paths), n >= Len(PathQueue(gid, paths))
  PROVE  Lists(paths, PathsUpTo(pairs, U, gid, depth + 1)) /\ ShorterFirst(paths)
<1>1. PICK T, K, queue, All :
        /\ T = Seq(Int) /\ K = Known(pairs, U, gid, depth) /\ queue = PathQueue(gid, paths)
        /\ All = PathsUpTo(pairs, U, gid, depth + 1)
  OBVIOUS
<1>2. PICK k \in Nat : k = Len(paths)
  OBVIOUS
<1>3. /\ Len(queue) = k + 1 /\ queue[1] = <<gid>>
      /\ \A i \in 1 .. k : queue[i + 1] = paths[i]
  <2>1. <<gid>> \in T /\ paths \in Seq(T)
    BY <1>1
  <2>2. /\ Len(queue) = k + 1 /\ queue[1] = <<gid>>
        /\ \A i \in 2 .. (k + 1) : queue[i] = paths[i - 1]
    <3>1. PICK waiting : waiting = PathQueue(gid, paths)
      OBVIOUS
    <3>2. /\ Len(waiting) = k + 1 /\ waiting[1] = <<gid>>
          /\ \A i \in 2 .. (k + 1) : waiting[i] = paths[i - 1]
      BY <1>2, <2>1, <3>1, QueueFacts
    <3>3. QED
      BY <1>1, <3>1, <3>2
  <2>3. \A i \in 1 .. k : i + 1 \in 2 .. (k + 1) /\ (i + 1) - 1 = i
    OBVIOUS
  <2>4. QED
    BY <2>2, <2>3
<1> DEFINE X == UNION {Extended(pairs, queue[i]) : i \in Went(queue, depth, n)}
<1>4. /\ \A i \in 1 .. (k + 1) : queue[i] \in K
      /\ Lists(paths, X) /\ ShorterFirst(queue)
  BY <1>1, <1>3 DEF Found
<1>5. \A x : x \in X <=> \E i \in Went(queue, depth, n) : x \in Extended(pairs, queue[i])
  OBVIOUS
<1> HIDE DEF X
<1>6. All = {p \in K : Len(p) > 1}
  <2>1. Knows(pairs, U, gid, depth, K)
    BY <1>1, KnownPaths
  <2>2. QED
    BY <1>1, <2>1 DEF Knows
<1>7. ASSUME NEW x \in K, NEW p \in K, x \in Extended(pairs, p), Len(p) <= depth,
             NEW i \in 1 .. (k + 1), queue[i] = p
      PROVE  x \in X
  <2>1. i <= n /\ i \in 1 .. n /\ i <= Len(queue)
    BY <1>1, <1>3
  <2>2. i \in Went(queue, depth, n)
    BY <1>7, <2>1 DEF Went
  <2>3. QED
    BY <1>5, <1>7, <2>2
<1>8. ASSUME NEW x \in X
      PROVE  \E i \in 1 .. (k + 1) : queue[i] = x
  <2>1. PICK i \in 1 .. k : paths[i] = x
    BY <1>2, <1>4 DEF Lists
  <2>2. i + 1 \in 1 .. (k + 1) /\ queue[i + 1] = x
    BY <1>3, <2>1
  <2>3. QED
    BY <2>2
<1> DEFINE good == {l \in Nat : \A x \in K : Len(x) = l + 1 => \E i \in 1 .. (k + 1) : queue[i] = x}
<1>9. 0 \in good
  <2> SUFFICES ASSUME NEW x \in K, Len(x) = 0 + 1 PROVE \E i \in 1 .. (k + 1) : queue[i] = x
    OBVIOUS
  <2>1. x = <<gid>>
    BY <1>1, KnownPath
  <2>2. 1 \in 1 .. (k + 1)
    OBVIOUS
  <2>3. QED
    BY <1>3, <2>1, <2>2
<1>10. ASSUME NEW l \in Nat, l \in good
       PROVE  l + 1 \in good
  <2> SUFFICES ASSUME NEW x \in K, Len(x) = (l + 1) + 1 PROVE \E i \in 1 .. (k + 1) : queue[i] = x
    OBVIOUS
  <2>1. Len(x) > 1 /\ Len(x) - 1 = l + 1
    OBVIOUS
  <2>2. PICK p \in K : Len(p) = Len(x) - 1 /\ x \in Extended(pairs, p)
    BY <1>1, <2>1, KnownFrom
  <2>3. Len(x) \in 1 .. (depth + 1)
    BY <1>1, KnownPath
  <2>4. Len(p) = l + 1 /\ Len(p) <= depth
    BY <2>1, <2>2, <2>3
  <2>5. PICK i \in 1 .. (k + 1) : queue[i] = p
    BY <1>10, <2>4
  <2>6. x \in X
    BY <1>7, <2>2, <2>4, <2>5
  <2>7. QED
    BY <1>8, <2>6
<1>11. Nat \subseteq good
  <2> HIDE DEF good
  <2>1. QED
    BY <1>9, <1>10, SetInduction
<1>12. ASSUME NEW x \in All
       PROVE  x \in X
  <2>1. x \in K /\ Len(x) > 1
    BY <1>6
  <2>2. PICK p \in K : Len(p) = Len(x) - 1 /\ x \in Extended(pairs, p)
    BY <1>1, <2>1, KnownFrom
  <2>3. Len(x) \in 1 .. (depth + 1) /\ Len(p) \in 1 .. (depth + 1)
    BY <1>1, <2>1, KnownPath
  <2>4. PICK l \in Nat : Len(p) = l + 1
    <3>1. PICK c \in 1 .. (depth + 1) : c = Len(p)
      BY <2>3
    <3>2. c - 1 \in Nat /\ c = (c - 1) + 1
      OBVIOUS
    <3>3. QED
      BY <3>1, <3>2
  <2>5. PICK i \in 1 .. (k + 1) : queue[i] = p
    BY <1>11, <2>4
  <2>6. Len(p) <= depth
    BY <2>2, <2>3
  <2>7. QED
    BY <1>7, <2>1, <2>2, <2>5, <2>6
<1>13. ASSUME NEW x \in X
       PROVE  x \in All
  <2>1. PICK i \in Went(queue, depth, n) : x \in Extended(pairs, queue[i])
    BY <1>5
  <2>2. i \in 1 .. (k + 1) /\ Len(queue[i]) <= depth
    BY <1>3, <2>1 DEF Went
  <2>3. PICK p \in K : p = queue[i] /\ Len(p) <= depth
    BY <1>4, <2>2
  <2>4. x \in K /\ Len(x) = Len(p) + 1
    BY <1>1, <2>1, <2>3, KnownGoesOn
  <2>5. Len(p) \in 1 .. (depth + 1)
    BY <1>1, KnownPath
  <2>6. Len(x) > 1
    BY <2>4, <2>5
  <2>7. QED
    BY <1>6, <2>4, <2>6
<1>14. X = All
  BY <1>12, <1>13
<1>15. ShorterFirst(paths)
  <2> SUFFICES ASSUME NEW i \in 1 .. k, NEW j \in 1 .. k, i < j
               PROVE  Len(paths[i]) <= Len(paths[j])
    BY <1>2 DEF ShorterFirst
  <2>1. PICK a, b \in 1 .. (k + 1) : a = i + 1 /\ b = j + 1 /\ a < b
    OBVIOUS
  <2>2. queue[a] = paths[i] /\ queue[b] = paths[j]
    BY <1>3, <2>1
  <2>3. Len(queue[a]) <= Len(queue[b])
    BY <1>3, <1>4, <2>1 DEF ShorterFirst
  <2>4. QED
    BY <2>2, <2>3
<1>16. QED
  BY <1>1, <1>4, <1>14, <1>15

\* There are finitely many paths.
LEMMA PathsAreFinite ==
  ASSUME NEW U \in SUBSET Int, IsFiniteSet(U), NEW pairs, PairsAmong(pairs, U), NEW gid \in U,
         NEW most \in Nat
  PROVE  IsFiniteSet(PathsUpTo(pairs, U, gid, most))
<1> DEFINE P(k) == PathsOf(pairs, U, gid, k)
           good == {k \in Nat : IsFiniteSet(P(k + 1))}
<1>1. 0 \in good
  <2>1. 1 - 1 = 0 /\ 1 .. 1 = {1} /\ 0 + 1 = 1
    OBVIOUS
  <2>2. ASSUME NEW p \in P(1) PROVE p = <<gid>>
    <3>1. p \in [1 .. 1 -> U] /\ p[1] = gid
      BY DEF PathsOf
    <3>2. QED
      BY <2>1, <3>1
  <2>3. P(1) \subseteq {<<gid>>}
    BY <2>2
  <2>4. IsFiniteSet(P(1))
    BY <2>3, FS_Singleton, FS_Subset
  <2>5. QED
    BY <2>1, <2>4
<1>2. ASSUME NEW k \in Nat, k \in good
      PROVE  k + 1 \in good
  <2>1. PICK here, m : here = P(m) /\ m = k + 1 /\ m \in Nat \ {0} /\ IsFiniteSet(here)
    BY <1>2
  <2> DEFINE longer == [p \in here |-> Extended(pairs, p)]
             S == {longer[p] : p \in here}
  <2>2. IsFiniteSet(S)
    <3> HIDE DEF longer
    <3>1. IsFiniteSet({longer[p] : p \in here})
      BY <2>1, FiniteImage
    <3>2. QED
      BY <3>1
  <2>3. ASSUME NEW p \in here
        PROVE  IsFiniteSet(longer[p])
    <3>1. Lists(Longer(pairs, p), Extended(pairs, p))
      BY <2>1, WaysOn
    <3>2. IsFiniteSet(Extended(pairs, p))
      BY <3>1, ListsCount
    <3>3. QED
      BY <3>2
  <2>4. \A q \in P(m + 1) : \E p \in here : q \in longer[p]
    <3>1. \A q \in P(m + 1) : \E p \in P(m) : q \in Extended(pairs, p)
      BY <2>1, PathsGoOn
    <3>2. QED
      BY <2>1, <3>1
  <2> HIDE DEF longer
  <2>5. P(m + 1) \subseteq UNION S
    BY <2>4
  <2>6. \A part \in S : IsFiniteSet(part)
    BY <2>3
  <2> HIDE DEF S
  <2>7. IsFiniteSet(UNION S)
    BY <2>2, <2>6, FS_UNION
  <2>8. IsFiniteSet(P(m + 1))
    BY <2>5, <2>7, FS_Subset
  <2>9. QED
    BY <2>1, <2>8
<1>3. Nat \subseteq good
  <2> HIDE DEF good
  <2>1. QED
    BY <1>1, <1>2, SetInduction
<1> DEFINE of == [k \in 2 .. most |-> P(k)]
           S == {of[k] : k \in 2 .. most}
<1>4. ASSUME NEW k \in 2 .. most
      PROVE  IsFiniteSet(of[k])
  <2>1. k - 1 \in Nat /\ (k - 1) + 1 = k
    OBVIOUS
  <2>2. IsFiniteSet(P((k - 1) + 1))
    BY <1>3, <2>1
  <2>3. QED
    BY <2>1, <2>2
<1>5. PathsUpTo(pairs, U, gid, most) = UNION S
  BY DEF PathsUpTo
<1> HIDE DEF of
<1>6. IsFiniteSet(S)
  <2>1. PICK range : range = 2 .. most /\ IsFiniteSet(range)
    BY FS_Interval
  <2>2. IsFiniteSet({of[k] : k \in range})
    BY <2>1, FiniteImage
  <2>3. QED
    BY <2>1, <2>2
<1>7. \A part \in S : IsFiniteSet(part)
  BY <1>4
<1> HIDE DEF S
<1>8. QED
  BY <1>5, <1>6, <1>7, FS_UNION

\* The search returns the first of all paths, those of fewer accounts before the others.
LEMMA AllPathsFound ==
  ASSUME NEW U \in SUBSET Int, IsFiniteSet(U), NEW pairs, PairsAmong(pairs, U), NEW gid \in U,
         NEW depth \in Nat, NEW cap \in Nat
  PROVE  \E paths : /\ Lists(paths, PathsUpTo(pairs, U, gid, depth + 1))
                    /\ ShorterFirst(paths)
                    /\ PathsFrom(pairs, gid, depth, cap) = FirstOf(paths, cap)
<1>1. PICK All : All = PathsUpTo(pairs, U, gid, depth + 1)
  OBVIOUS
<1>2. IsFiniteSet(All) /\ Cardinality(All) \in Nat
  BY <1>1, PathsAreFinite, FS_CardinalityType
<1>3. PICK most \in Nat : most = Cardinality(All)
  BY <1>2
<1>4. PICK last \in Nat : last = cap + (most + 1)
  OBVIOUS
<1>5. PICK run : Breadth(pairs, gid, depth, last, run)
  BY BreadthExists
<1>6. /\ \A n \in 0 .. last : run[n] \in Seq(Seq(Int))
      /\ run[0] = <<>>
      /\ \A n \in 1 .. last : run[n] = GoneOn(pairs, gid, depth, run[n - 1], n)
  BY <1>5 DEF Breadth
<1> DEFINE good == {n \in Nat : n <= last => Found(pairs, U, gid, depth, n, run[n])}
<1>7. 0 \in good
  BY <1>6, FoundAtFirst
<1>8. ASSUME NEW n \in Nat, n \in good
      PROVE  n + 1 \in good
  <2> SUFFICES ASSUME n + 1 <= last PROVE Found(pairs, U, gid, depth, n + 1, run[n + 1])
    OBVIOUS
  <2>1. n \in 0 .. last /\ n + 1 \in 1 .. last /\ (n + 1) - 1 = n
    OBVIOUS
  <2>2. PICK old \in Seq(Seq(Int)) : old = run[n]
    BY <1>6, <2>1
  <2>3. PICK new : new = run[n + 1]
    OBVIOUS
  <2>4. Found(pairs, U, gid, depth, n, old) /\ new = GoneOn(pairs, gid, depth, old, n + 1)
    BY <1>6, <1>8, <2>1, <2>2, <2>3
  <2>5. Found(pairs, U, gid, depth, n + 1, new)
    BY <2>4, FoundGoesOn
  <2>6. QED
    BY <2>3, <2>5
<1>9. last \in good
  <2> HIDE DEF good
  <2>1. Nat \subseteq good
    BY <1>7, <1>8, SetInduction
  <2>2. QED
    BY <2>1
<1>10. PICK paths \in Seq(Seq(Int)) : paths = run[last]
  BY <1>6
<1>11. Found(pairs, U, gid, depth, last, paths)
  BY <1>9, <1>10
<1>12. last >= Len(PathQueue(gid, paths))
  <2>1. PICK T, K, queue : /\ T = Seq(Int) /\ K = Known(pairs, U, gid, depth)
                           /\ queue = PathQueue(gid, paths)
    OBVIOUS
  <2>2. PICK k \in Nat : k = Len(paths)
    OBVIOUS
  <2>3. /\ Len(queue) = k + 1
        /\ \A i \in 1 .. k : queue[i + 1] = paths[i]
    <3>1. <<gid>> \in T /\ paths \in Seq(T)
      BY <1>10, <2>1
    <3>2. /\ Len(queue) = k + 1 /\ queue[1] = <<gid>>
          /\ \A i \in 2 .. (k + 1) : queue[i] = paths[i - 1]
      <4>1. PICK waiting : waiting = PathQueue(gid, paths)
        OBVIOUS
      <4>2. /\ Len(waiting) = k + 1 /\ waiting[1] = <<gid>>
            /\ \A i \in 2 .. (k + 1) : waiting[i] = paths[i - 1]
        BY <2>2, <3>1, <4>1, QueueFacts
      <4>3. QED
        BY <2>1, <4>1, <4>2
    <3>3. \A i \in 1 .. k : i + 1 \in 2 .. (k + 1) /\ (i + 1) - 1 = i
      OBVIOUS
    <3>4. QED
      BY <3>2, <3>3
  <2> DEFINE X == UNION {Extended(pairs, queue[i]) : i \in Went(queue, depth, last)}
  <2>4. Lists(paths, X) /\ \A i \in 1 .. (k + 1) : queue[i] \in K
    BY <1>11, <2>1, <2>3 DEF Found
  <2> HIDE DEF X
  <2>5. \A i \in 1 .. k : Len(paths[i]) > 1
    BY <1>11, <2>1, <2>2, QueueIsApart
  <2>6. All = {p \in K : Len(p) > 1}
    <3>1. Knows(pairs, U, gid, depth, K)
      BY <2>1, KnownPaths
    <3>2. QED
      BY <1>1, <2>1, <3>1 DEF Knows
  <2>7. \A i \in 1 .. k : i + 1 \in 1 .. (k + 1)
    OBVIOUS
  <2>8. \A i \in 1 .. k : paths[i] \in All
    BY <2>3, <2>4, <2>5, <2>6, <2>7
  <2>9. \A x \in X : x \in All
    BY <2>2, <2>4, <2>8 DEF Lists
  <2>10. Cardinality(X) <= most /\ Cardinality(X) = k
    <3>1. X \subseteq All
      BY <2>9
    <3>2. Cardinality(X) <= Cardinality(All)
      BY <1>2, <3>1, FS_Subset
    <3>3. Cardinality(X) = Len(paths)
      BY <2>4, ListsCount
    <3>4. QED
      BY <1>3, <2>2, <3>2, <3>3
  <2>11. QED
    BY <1>4, <2>1, <2>3, <2>10
<1>13. Lists(paths, All) /\ ShorterFirst(paths)
  BY <1>1, <1>11, <1>12, FoundAll
<1>14. cap <= last
  BY <1>4
<1>15. PathsFrom(pairs, gid, depth, cap) = FirstOf(paths, cap)
  BY <1>5, <1>10, <1>14, SearchIsCut
<1>16. QED
  BY <1>1, <1>13, <1>15

-----------------------------------------------------------------------------
(* Units of money.                                                         *)

\* Weights, one after the other, from one number of units up to another: the units of a
\* weight have its value.
Cuts(cut, k, w, v, H, lo, hi) ==
  /\ cut[0] = lo /\ cut[k] = hi
  /\ \A m \in 0 .. k : cut[m] \in Nat
  /\ \A m \in 1 .. k : w[m] \in Nat \ {0} /\ cut[m] = cut[m - 1] + w[m]
  /\ \A m \in 1 .. k : \A n \in (cut[m - 1] + 1) .. cut[m] : H[n] = v[m]

Covers(k, w, v, H, lo, hi) == \E cut : Cuts(cut, k, w, v, H, lo, hi)

\* The units after one number up to another have a value.
Valued(H, lo, hi, value) == \A n \in (lo + 1) .. hi : H[n] = value

\* The same up to a place, and the same after one.
Starts(k, f, g) == \A m \in 1 .. k : f[m] = g[m]
Follows(j, k, f, g) == \A m \in 1 .. k : f[j + m] = g[m]

\* Nothing covers nothing.
LEMMA CoverOfNone ==
  ASSUME NEW w, NEW v, NEW H, NEW lo \in Nat
  PROVE  Covers(0, w, v, H, lo, lo)
<1> DEFINE cut == [m \in {0} |-> lo]
<1>1. 0 .. 0 = {0} /\ 1 .. 0 = {}
  OBVIOUS
<1>2. Cuts(cut, 0, w, v, H, lo, lo)
  BY <1>1 DEF Cuts
<1>3. QED
  BY <1>2 DEF Covers

\* Two covers, one after the other.
LEMMA CoversJoined ==
  ASSUME NEW j \in Nat, NEW k \in Nat, NEW H, NEW lo, NEW mid, NEW hi,
         NEW w, NEW v, NEW w1, NEW v1, NEW w2, NEW v2,
         Covers(j, w1, v1, H, lo, mid), Covers(k, w2, v2, H, mid, hi),
         Starts(j, w, w1), Starts(j, v, v1), Follows(j, k, w, w2), Follows(j, k, v, v2)
  PROVE  Covers(j + k, w, v, H, lo, hi)
<1>1. PICK a : Cuts(a, j, w1, v1, H, lo, mid)
  BY DEF Covers
<1>2. PICK b : Cuts(b, k, w2, v2, H, mid, hi)
  BY DEF Covers
<1> DEFINE cut == [m \in 0 .. (j + k) |-> IF m <= j THEN a[m] ELSE b[m - j]]
<1>3. \A m \in 0 .. j : cut[m] = a[m]
  OBVIOUS
<1>4. \A m \in 0 .. k : cut[j + m] = b[m]
  <2>1. a[j] = mid /\ b[0] = mid
    BY <1>1, <1>2 DEF Cuts
  <2>2. ASSUME NEW m \in 0 .. k
        PROVE  cut[j + m] = b[m]
    <3>1. j + m \in 0 .. (j + k) /\ (j + m) - j = m /\ (j + m <= j => m = 0)
      OBVIOUS
    <3>2. QED
      BY <2>1, <3>1
  <2>3. QED
    BY <2>2
<1> HIDE DEF cut
<1>5. cut[0] = lo /\ cut[j + k] = hi
  <2>1. 0 \in 0 .. j /\ k \in 0 .. k
    OBVIOUS
  <2>2. QED
    BY <1>1, <1>2, <1>3, <1>4, <2>1 DEF Cuts
<1>6. \A m \in 0 .. (j + k) : m \in 0 .. j \/ \E i \in 1 .. k : m = j + i
  <2> SUFFICES ASSUME NEW m \in 0 .. (j + k), m \notin 0 .. j
               PROVE  \E i \in 1 .. k : m = j + i
    OBVIOUS
  <2>1. m - j \in 1 .. k /\ m = j + (m - j)
    OBVIOUS
  <2>2. QED
    BY <2>1
<1>7. \A m \in 0 .. (j + k) : cut[m] \in Nat
  <2>1. \A i \in 1 .. k : cut[j + i] \in Nat
    <3>1. \A i \in 0 .. k : b[i] \in Nat
      BY <1>2 DEF Cuts
    <3>2. \A i \in 1 .. k : i \in 0 .. k
      OBVIOUS
    <3>3. QED
      BY <1>4, <3>1, <3>2
  <2>2. \A m \in 0 .. j : cut[m] \in Nat
    BY <1>1, <1>3 DEF Cuts
  <2>3. QED
    BY <1>6, <2>1, <2>2
<1>8. ASSUME NEW m \in 1 .. (j + k)
      PROVE  /\ w[m] \in Nat \ {0} /\ cut[m] = cut[m - 1] + w[m]
             /\ \A n \in (cut[m - 1] + 1) .. cut[m] : H[n] = v[m]
  <2>1. CASE m \in 1 .. j
    <3>1. m \in 0 .. j /\ m - 1 \in 0 .. j
      BY <2>1
    <3>2. cut[m] = a[m] /\ cut[m - 1] = a[m - 1]
      BY <1>3, <3>1
    <3>3. w[m] = w1[m] /\ v[m] = v1[m]
      BY <2>1 DEF Starts
    <3>4. /\ w1[m] \in Nat \ {0} /\ a[m] = a[m - 1] + w1[m]
          /\ \A n \in (a[m - 1] + 1) .. a[m] : H[n] = v1[m]
      BY <1>1, <2>1 DEF Cuts
    <3>5. QED
      BY <3>2, <3>3, <3>4
  <2>2. CASE m \notin 1 .. j
    <3>1. PICK i \in 1 .. k : m = j + i
      BY <1>6, <2>2
    <3>2. i \in 0 .. k /\ i - 1 \in 0 .. k /\ m - 1 = j + (i - 1)
      BY <3>1
    <3>3. cut[m] = b[i] /\ cut[m - 1] = b[i - 1]
      BY <1>4, <3>1, <3>2
    <3>4. w[m] = w2[i] /\ v[m] = v2[i]
      BY <3>1 DEF Follows
    <3>5. /\ w2[i] \in Nat \ {0} /\ b[i] = b[i - 1] + w2[i]
          /\ \A n \in (b[i - 1] + 1) .. b[i] : H[n] = v2[i]
      BY <1>2 DEF Cuts
    <3>6. QED
      BY <3>3, <3>4, <3>5
  <2>3. QED
    BY <2>1, <2>2
<1>9. Cuts(cut, j + k, w, v, H, lo, hi)
  BY <1>5, <1>7, <1>8 DEF Cuts
<1>10. QED
  BY <1>9 DEF Covers

\* One weight covers its units.
LEMMA CoverOfOne ==
  ASSUME NEW w, NEW v, NEW H, NEW lo \in Nat, NEW x \in Nat \ {0}, w[1] = x,
         Valued(H, lo, lo + x, v[1])
  PROVE  Covers(1, w, v, H, lo, lo + x)
<1> DEFINE cut == [m \in 0 .. 1 |-> IF m = 0 THEN lo ELSE lo + x]
<1>1. 1 .. 1 = {1} /\ cut[0] = lo /\ cut[1] = lo + x /\ 1 - 1 = 0 /\ 0 .. 1 = {0, 1}
  OBVIOUS
<1> HIDE DEF cut
<1>2. Cuts(cut, 1, w, v, H, lo, lo + x)
  BY <1>1 DEF Cuts, Valued
<1>3. QED
  BY <1>2 DEF Covers

\* A cover and one weight more.
LEMMA CoverAppended ==
  ASSUME NEW k \in Nat, NEW H, NEW lo, NEW mid \in Nat, NEW w, NEW v, NEW w1, NEW v1,
         Covers(k, w1, v1, H, lo, mid), Starts(k, w, w1), Starts(k, v, v1),
         NEW x \in Nat \ {0}, w[k + 1] = x, Valued(H, mid, mid + x, v[k + 1])
  PROVE  Covers(k + 1, w, v, H, lo, mid + x)
<1> DEFINE w2 == [m \in {1} |-> x]
           v2 == [m \in {1} |-> v[k + 1]]
<1>1. w2[1] = x /\ v2[1] = v[k + 1] /\ 1 .. 1 = {1}
  OBVIOUS
<1> HIDE DEF w2, v2
<1>2. Covers(1, w2, v2, H, mid, mid + x)
  BY <1>1, CoverOfOne
<1>3. Follows(k, 1, w, w2) /\ Follows(k, 1, v, v2)
  BY <1>1 DEF Follows
<1>4. 1 \in Nat
  OBVIOUS
<1>5. QED
  BY <1>2, <1>3, <1>4, CoversJoined

\* Lots that are the units from one number up to another, with the days they came in;
\* chunks that are such units, with the times they were held.
LotDays(lots) == [i \in DOMAIN lots |-> lots[i].day]
HeldTimes(chunks) == [i \in DOMAIN chunks |-> chunks[i].held]

LotsCover(lots, A, lo, hi) == Covers(Len(lots), Amounts(lots), LotDays(lots), A, lo, hi)
ChunksCover(chunks, H, lo, hi) ==
  Covers(Len(chunks), Volumes(chunks), HeldTimes(chunks), H, lo, hi)

LEMMA NothingCovered ==
  ASSUME NEW H, NEW lo \in Nat
  PROVE  LotsCover(<<>>, H, lo, lo) /\ ChunksCover(<<>>, H, lo, lo)
<1>1. Len(<<>>) = 0
  OBVIOUS
<1>2. QED
  BY <1>1, CoverOfNone DEF LotsCover, ChunksCover

LEMMA LotAppended ==
  ASSUME NEW L, NEW lots \in Seq(L), NEW lot \in L, lot.amount \in Nat \ {0},
         NEW A, NEW lo, NEW mid \in Nat, LotsCover(lots, A, lo, mid),
         Valued(A, mid, mid + lot.amount, lot.day)
  PROVE  LotsCover(Append(lots, lot), A, lo, mid + lot.amount)
<1> DEFINE n == Len(lots)
           more == Append(lots, lot)
           f == Amounts(lots)
           g == Amounts(more)
           u == LotDays(lots)
           v == LotDays(more)
<1>1. /\ n \in Nat /\ DOMAIN lots = 1 .. n /\ DOMAIN more = 1 .. (n + 1) /\ Len(more) = n + 1
      /\ \A i \in 1 .. n : more[i] = lots[i] /\ i \in 1 .. (n + 1)
      /\ more[n + 1] = lot /\ n + 1 \in 1 .. (n + 1)
  OBVIOUS
<1>2. Starts(n, g, f) /\ g[n + 1] = lot.amount
  BY <1>1 DEF Amounts, Starts
<1>3. Starts(n, v, u) /\ v[n + 1] = lot.day
  BY <1>1 DEF LotDays, Starts
<1>4. Covers(n, f, u, A, lo, mid)
  BY DEF LotsCover
<1> HIDE DEF n, f, g, u, v
<1>5. Valued(A, mid, mid + lot.amount, v[n + 1])
  BY <1>3
<1>6. Covers(n + 1, g, v, A, lo, mid + lot.amount)
  BY <1>1, <1>2, <1>3, <1>4, <1>5, CoverAppended
<1>7. QED
  BY <1>1, <1>6 DEF LotsCover, g, v

LEMMA ChunkAppended ==
  ASSUME NEW L, NEW chunks \in Seq(L), NEW chunk \in L, chunk.volume \in Nat \ {0},
         NEW H, NEW lo, NEW mid \in Nat, ChunksCover(chunks, H, lo, mid),
         Valued(H, mid, mid + chunk.volume, chunk.held)
  PROVE  ChunksCover(Append(chunks, chunk), H, lo, mid + chunk.volume)
<1> DEFINE n == Len(chunks)
           more == Append(chunks, chunk)
           f == Volumes(chunks)
           g == Volumes(more)
           u == HeldTimes(chunks)
           v == HeldTimes(more)
<1>1. /\ n \in Nat /\ DOMAIN chunks = 1 .. n /\ DOMAIN more = 1 .. (n + 1) /\ Len(more) = n + 1
      /\ \A i \in 1 .. n : more[i] = chunks[i] /\ i \in 1 .. (n + 1)
      /\ more[n + 1] = chunk /\ n + 1 \in 1 .. (n + 1)
  OBVIOUS
<1>2. Starts(n, g, f) /\ g[n + 1] = chunk.volume
  BY <1>1 DEF Volumes, Starts
<1>3. Starts(n, v, u) /\ v[n + 1] = chunk.held
  BY <1>1 DEF HeldTimes, Starts
<1>4. Covers(n, f, u, H, lo, mid)
  BY DEF ChunksCover
<1> HIDE DEF n, f, g, u, v
<1>5. Valued(H, mid, mid + chunk.volume, v[n + 1])
  BY <1>3
<1>6. Covers(n + 1, g, v, H, lo, mid + chunk.volume)
  BY <1>1, <1>2, <1>3, <1>4, <1>5, CoverAppended
<1>7. QED
  BY <1>1, <1>6 DEF ChunksCover, g, v

LEMMA LotsCoverJoined ==
  ASSUME NEW L, NEW one \in Seq(L), NEW two \in Seq(L), NEW A, NEW lo, NEW mid, NEW hi,
         LotsCover(one, A, lo, mid), LotsCover(two, A, mid, hi)
  PROVE  LotsCover(one \o two, A, lo, hi)
<1> DEFINE m == Len(one)
           n == Len(two)
           both == one \o two
           f1 == Amounts(one)
           f2 == Amounts(two)
           g == Amounts(both)
           u1 == LotDays(one)
           u2 == LotDays(two)
           v == LotDays(both)
<1>1. /\ m \in Nat /\ n \in Nat /\ DOMAIN one = 1 .. m /\ DOMAIN two = 1 .. n
      /\ DOMAIN both = 1 .. (m + n) /\ Len(both) = m + n
      /\ \A i \in 1 .. m : both[i] = one[i] /\ i \in 1 .. (m + n)
      /\ \A i \in 1 .. n : both[m + i] = two[i] /\ m + i \in 1 .. (m + n)
  OBVIOUS
<1>2. Starts(m, g, f1) /\ Follows(m, n, g, f2)
  BY <1>1 DEF Amounts, Starts, Follows
<1>3. Starts(m, v, u1) /\ Follows(m, n, v, u2)
  BY <1>1 DEF LotDays, Starts, Follows
<1>4. Covers(m, f1, u1, A, lo, mid) /\ Covers(n, f2, u2, A, mid, hi)
  BY DEF LotsCover
<1> HIDE DEF m, n, f1, f2, g, u1, u2, v
<1>5. Covers(m + n, g, v, A, lo, hi)
  BY <1>1, <1>2, <1>3, <1>4, CoversJoined
<1>6. QED
  BY <1>1, <1>5 DEF LotsCover, g, v

LEMMA ChunksCoverJoined ==
  ASSUME NEW L, NEW one \in Seq(L), NEW two \in Seq(L), NEW H, NEW lo, NEW mid, NEW hi,
         ChunksCover(one, H, lo, mid), ChunksCover(two, H, mid, hi)
  PROVE  ChunksCover(one \o two, H, lo, hi)
<1> DEFINE m == Len(one)
           n == Len(two)
           both == one \o two
           f1 == Volumes(one)
           f2 == Volumes(two)
           g == Volumes(both)
           u1 == HeldTimes(one)
           u2 == HeldTimes(two)
           v == HeldTimes(both)
<1>1. /\ m \in Nat /\ n \in Nat /\ DOMAIN one = 1 .. m /\ DOMAIN two = 1 .. n
      /\ DOMAIN both = 1 .. (m + n) /\ Len(both) = m + n
      /\ \A i \in 1 .. m : both[i] = one[i] /\ i \in 1 .. (m + n)
      /\ \A i \in 1 .. n : both[m + i] = two[i] /\ m + i \in 1 .. (m + n)
  OBVIOUS
<1>2. Starts(m, g, f1) /\ Follows(m, n, g, f2)
  BY <1>1 DEF Volumes, Starts, Follows
<1>3. Starts(m, v, u1) /\ Follows(m, n, v, u2)
  BY <1>1 DEF HeldTimes, Starts, Follows
<1>4. Covers(m, f1, u1, H, lo, mid) /\ Covers(n, f2, u2, H, mid, hi)
  BY DEF ChunksCover
<1> HIDE DEF m, n, f1, f2, g, u1, u2, v
<1>5. Covers(m + n, g, v, H, lo, hi)
  BY <1>1, <1>2, <1>3, <1>4, CoversJoined
<1>6. QED
  BY <1>1, <1>5 DEF ChunksCover, g, v

\* The cuts rise from the first to the last.
LEMMA CutsRise ==
  ASSUME NEW k \in Nat, NEW cut, NEW w, NEW v, NEW H, NEW lo, NEW hi,
         Cuts(cut, k, w, v, H, lo, hi)
  PROVE  /\ \A i \in 0 .. k, j \in 0 .. k : i <= j => cut[i] <= cut[j]
         /\ lo \in Nat /\ hi \in Nat /\ lo <= hi
<1>1. \A m \in 0 .. k : cut[m] \in Nat
  BY DEF Cuts
<1>2. ASSUME NEW m \in 0 .. k, m + 1 \in 0 .. k
      PROVE  cut[m] <= cut[m + 1]
  <2>1. m + 1 \in 1 .. k /\ (m + 1) - 1 = m
    BY <1>2
  <2>2. w[m + 1] \in Nat /\ cut[m + 1] = cut[m] + w[m + 1]
    BY <2>1 DEF Cuts
  <2>3. QED
    BY <1>1, <1>2, <2>2
<1> DEFINE Good == {d \in Nat : \A i \in 0 .. k : i + d \in 0 .. k => cut[i] <= cut[i + d]}
<1>3. 0 \in Good
  <2>1. \A i \in 0 .. k : i + 0 = i /\ cut[i] <= cut[i]
    BY <1>1
  <2>2. QED
    BY <2>1
<1>4. ASSUME NEW d \in Nat, d \in Good
      PROVE  d + 1 \in Good
  <2> SUFFICES ASSUME NEW i \in 0 .. k, i + (d + 1) \in 0 .. k
               PROVE  cut[i] <= cut[i + (d + 1)]
    OBVIOUS
  <2>1. PICK m \in 0 .. k : m = i + d
    OBVIOUS
  <2>2. m + 1 \in 0 .. k /\ i + (d + 1) = m + 1
    BY <2>1
  <2>3. cut[i] <= cut[m] /\ cut[m] <= cut[m + 1]
    BY <1>2, <1>4, <2>1, <2>2
  <2>4. cut[i] \in Nat /\ cut[m] \in Nat /\ cut[m + 1] \in Nat
    BY <1>1, <2>2
  <2>5. QED
    BY <2>2, <2>3, <2>4
<1>5. Nat \subseteq Good
  <2> HIDE DEF Good
  <2>1. QED
    BY <1>3, <1>4, SetInduction
<1>6. ASSUME NEW i \in 0 .. k, NEW j \in 0 .. k, i <= j
      PROVE  cut[i] <= cut[j]
  <2>1. j - i \in Nat /\ i + (j - i) = j
    BY <1>6
  <2>2. j - i \in Good
    BY <1>5, <2>1
  <2>3. QED
    BY <2>1, <2>2
<1>7. 0 \in 0 .. k /\ k \in 0 .. k /\ 0 <= k
  OBVIOUS
<1>8. cut[0] = lo /\ cut[k] = hi
  BY DEF Cuts
<1>9. QED
  BY <1>1, <1>6, <1>7, <1>8

\* What is left of a lot has the day of the lot.
Portions(L) ==
  \A lot \in L : \A a \in 0 .. lot.amount :
    [lot EXCEPT !.amount = a].amount = a /\ [lot EXCEPT !.amount = a].day = lot.day

\* Units before mid are in the chunks, those up to top are in the lots.
TakenUpTo(acc, A, H, lo, mid, top) ==
  /\ acc.left > 0 => acc.lots = <<>> /\ mid = top
  /\ ChunksCover(acc.chunks, H, lo, mid)
  /\ LotsCover(acc.lots, A, mid, top)

LEMMA LeftOver ==
  ASSUME NEW top \in Nat, NEW n \in Nat, NEW m \in Nat, n - m \in 0 .. n, n # m,
         NEW left, left = n - m
  PROVE  top + m \in Nat /\ (top + m) + left = top + n /\ left \in Nat \ {0}
  OBVIOUS

\* One lot.
LEMMA DrainStepCovers ==
  ASSUME NEW L, Lots(L), Portions(L), NEW acc \in Drained(L),
         NEW lot \in L, lot.amount \in Nat \ {0}, NEW day \in Int,
         NEW A, NEW H, NEW lo, NEW mid \in Nat, NEW top \in Nat,
         TakenUpTo(acc, A, H, lo, mid, top),
         Valued(A, top, top + lot.amount, lot.day),
         NEW used, used = (IF acc.left < lot.amount THEN acc.left ELSE lot.amount),
         Valued(H, top, top + used, day - lot.day)
  PROVE  LET next == DrainStep(acc, lot, day)
         IN  /\ next \in Drained(L) /\ used \in Nat
             /\ next.left = acc.left - used
             /\ TakenUpTo(next, A, H, lo, mid + used, top + lot.amount)
<1> USE DEF TakenUpTo
<1> DEFINE rest == [lot EXCEPT !.amount = @ - used]
           chunk == [held |-> day - lot.day, volume |-> used]
           next == DrainStep(acc, lot, day)
<1>1. /\ acc.left \in Nat /\ lot.amount \in Nat /\ lot.day \in Int
      /\ acc.lots \in Seq(L) /\ acc.chunks \in Seq(Chunk)
  BY DEF Lots, Drained
<1>2. used \in Nat /\ acc.left - used \in Nat /\ lot.amount - used \in 0 .. lot.amount
  BY <1>1
<1>3. rest \in L /\ rest.amount = lot.amount - used /\ rest.day = lot.day
  BY <1>2 DEF Lots, Portions
<1>4. chunk \in Chunk /\ chunk.volume = used /\ chunk.held = day - lot.day
  BY <1>1, <1>2 DEF Chunk
<1>5. next = [left |-> acc.left - used,
              lots |-> IF used = lot.amount THEN acc.lots ELSE Append(acc.lots, rest),
              chunks |-> IF used = 0 THEN acc.chunks ELSE Append(acc.chunks, chunk)]
  BY DEF DrainStep
<1>6. next \in Drained(L)
  BY DrainStepType
<1> HIDE DEF rest, chunk, next
<1>7. /\ next.left = acc.left - used
      /\ next.lots = IF used = lot.amount THEN acc.lots ELSE Append(acc.lots, rest)
      /\ next.chunks = IF used = 0 THEN acc.chunks ELSE Append(acc.chunks, chunk)
  BY <1>5
<1>8. ChunksCover(next.chunks, H, lo, mid + used)
  <2>1. CASE used = 0
    BY <1>7, <2>1
  <2>2. CASE used # 0
    <3>1. mid = top
      BY <1>1, <2>2
    <3>2. Valued(H, mid, mid + chunk.volume, chunk.held)
      BY <1>4, <3>1
    <3>3. chunk.volume \in Nat \ {0}
      BY <1>2, <1>4, <2>2
    <3>4. ChunksCover(Append(acc.chunks, chunk), H, lo, mid + chunk.volume)
      BY <1>1, <1>4, <3>2, <3>3, ChunkAppended
    <3>5. QED
      BY <1>4, <1>7, <2>2, <3>4
  <2>3. QED
    BY <2>1, <2>2
<1>9. LotsCover(next.lots, A, mid + used, top + lot.amount)
  <2>1. CASE used = lot.amount
    <3>1. acc.lots = <<>> /\ mid = top
      BY <1>1, <2>1
    <3>2. LotsCover(<<>>, A, top + lot.amount, top + lot.amount)
      BY <1>1, NothingCovered
    <3>3. QED
      BY <1>7, <2>1, <3>1, <3>2
  <2>2. CASE used # lot.amount
    <3>1. LotsCover(acc.lots, A, mid + used, top + used)
      <4>1. CASE used = 0
        BY <4>1
      <4>2. CASE used # 0
        <5>1. acc.lots = <<>> /\ mid = top
          BY <1>1, <4>2
        <5>2. LotsCover(<<>>, A, top + used, top + used)
          BY <1>2, NothingCovered
        <5>3. QED
          BY <5>1, <5>2
      <4>3. QED
        BY <4>1, <4>2
    <3>2. top + used \in Nat /\ (top + used) + rest.amount = top + lot.amount
          /\ rest.amount \in Nat \ {0}
      <4>1. PICK n \in Nat : n = lot.amount
        BY <1>1
      <4>2. PICK m \in Nat : m = used
        BY <1>2
      <4>3. PICK left : left = rest.amount
        OBVIOUS
      <4>4. n - m \in 0 .. n
        BY <1>2, <4>1, <4>2
      <4>5. left = n - m
        BY <1>3, <4>1, <4>2, <4>3
      <4>6. n # m
        BY <2>2, <4>1, <4>2
      <4>7. top + m \in Nat /\ (top + m) + left = top + n /\ left \in Nat \ {0}
        BY <4>4, <4>5, <4>6, LeftOver
      <4>8. QED
        BY <4>1, <4>2, <4>3, <4>7
    <3>3. Valued(A, top + used, (top + used) + rest.amount, rest.day)
      <4>1. \A n \in (top + used + 1) .. (top + lot.amount) : n \in (top + 1) .. (top + lot.amount)
        BY <1>1, <1>2
      <4>2. QED
        BY <1>3, <3>2, <4>1 DEF Valued
    <3>4. LotsCover(Append(acc.lots, rest), A, mid + used, (top + used) + rest.amount)
      BY <1>1, <1>3, <3>1, <3>2, <3>3, LotAppended
    <3>5. QED
      BY <1>7, <2>2, <3>2, <3>4
  <2>3. QED
    BY <2>1, <2>2
<1>10. next.left > 0 => next.lots = <<>> /\ mid + used = top + lot.amount
  BY <1>1, <1>2, <1>7, SMTT(30)
<1>11. QED
  BY <1>2, <1>6, <1>7, <1>8, <1>9, <1>10 DEF next

\* Units that go out on a day were held since they came in.
HeldUntil(day, A, H, lo, hi) == \A n \in (lo + 1) .. hi : H[n] = day - A[n]

\* The units before mid were taken, those from mid on are left.
DrainedTo(d, L, left, A, H, lo, mid, hi) ==
  /\ d \in Drained(L) /\ d.left = left
  /\ ChunksCover(d.chunks, H, lo, mid) /\ LotsCover(d.lots, A, mid, hi)

\* An amount taken from lots that are the units from lo up to hi takes the first of
\* them, and what it takes was held from its arrival.
LEMMA DrainCovers ==
  ASSUME NEW L, Lots(L), Portions(L), NEW lots \in Seq(L), NEW day \in Int,
         NEW amount \in Nat, NEW A, NEW H, NEW lo \in Nat, NEW hi \in Nat,
         LotsCover(lots, A, lo, hi),
         NEW taken, taken = (IF amount < hi - lo THEN amount ELSE hi - lo),
         HeldUntil(day, A, H, lo, lo + taken)
  PROVE  /\ taken \in Nat
         /\ DrainedTo(Drain(lots, day, amount), L, amount - taken, A, H, lo, lo + taken, hi)
<1> DEFINE count == Len(lots)
           w == Amounts(lots)
           v == LotDays(lots)
<1>1. count \in Nat /\ \A n \in 1 .. count : lots[n] \in L
  OBVIOUS
<1>2. PICK run :
        /\ run[0] = [left |-> amount, lots |-> <<>>, chunks |-> <<>>]
        /\ \A n \in 1 .. count : run[n] = DrainStep(run[n - 1], lots[n], day)
        /\ Drain(lots, day, amount) = run[count]
  BY DrainRuns
<1>3. PICK cut : Cuts(cut, count, w, v, A, lo, hi)
  BY DEF LotsCover, Covers
<1>4. \A n \in 1 .. count : w[n] = lots[n].amount /\ v[n] = lots[n].day
  BY DEF Amounts, LotDays
<1> HIDE DEF count, w, v
<1>5. /\ \A i \in 0 .. count, j \in 0 .. count : i <= j => cut[i] <= cut[j]
      /\ lo <= hi /\ cut[0] = lo /\ cut[count] = hi
      /\ \A m \in 0 .. count : cut[m] \in Nat
  <2>1. cut[0] = lo /\ cut[count] = hi /\ \A m \in 0 .. count : cut[m] \in Nat
    BY <1>3 DEF Cuts
  <2>2. QED
    BY <1>1, <1>3, <2>1, CutsRise
<1>6. \A m \in 0 .. count : lo <= cut[m] /\ cut[m] <= hi
  BY <1>1, <1>5
<1> DEFINE Part(m) == IF amount < cut[m] - lo THEN amount ELSE cut[m] - lo
           Good(m) ==
             /\ run[m] \in Drained(L) /\ run[m].left = amount - Part(m)
             /\ run[m].left > 0 => run[m].lots = <<>>
             /\ ChunksCover(run[m].chunks, H, lo, lo + Part(m))
             /\ LotsCover(run[m].lots, A, lo + Part(m), cut[m])
           good == {m \in Nat : m <= count => Good(m)}
<1>7. \A m \in 0 .. count : Part(m) \in Nat /\ Part(m) <= amount /\ Part(m) <= taken
  BY <1>5, <1>6
<1>8. 0 \in good
  <2>1. run[0] \in Drained(L) /\ run[0].lots = <<>> /\ run[0].chunks = <<>>
        /\ run[0].left = amount
    BY <1>2 DEF Drained
  <2>2. Part(0) = 0 /\ lo + 0 = lo
    BY <1>5
  <2>3. QED
    BY <1>5, <2>1, <2>2, NothingCovered, SMTT(30)
<1>9. ASSUME NEW m \in Nat, m \in good
      PROVE  m + 1 \in good
  <2> SUFFICES ASSUME m + 1 <= count
               PROVE  Good(m + 1)
    OBVIOUS
  <2>1. m + 1 \in 1 .. count /\ (m + 1) - 1 = m /\ m \in 0 .. count /\ m + 1 \in 0 .. count
    BY <1>1
  <2>2. Good(m)
    BY <1>9, <2>1
  <2>3. PICK acc : acc = run[m]
    OBVIOUS
  <2>4. PICK lot \in L : lot = lots[m + 1]
    BY <1>1, <2>1
  <2>5. PICK top \in Nat : top = cut[m]
    BY <1>5, <2>1
  <2>6. PICK mid \in Nat : mid = lo + Part(m)
    BY <1>7, <2>1
  <2>7. PICK used : used = (IF acc.left < lot.amount THEN acc.left ELSE lot.amount)
    OBVIOUS
  <2>8. run[m + 1] = DrainStep(acc, lot, day)
    BY <1>2, <2>1, <2>3, <2>4
  <2>9. /\ lot.amount \in Nat \ {0} /\ cut[m + 1] = top + lot.amount
        /\ \A n \in (top + 1) .. cut[m + 1] : A[n] = lot.day
    <3>1. /\ w[m + 1] \in Nat \ {0} /\ cut[m + 1] = cut[m] + w[m + 1]
          /\ \A n \in (cut[m] + 1) .. cut[m + 1] : A[n] = v[m + 1]
      BY <1>3, <2>1 DEF Cuts
    <3>2. QED
      BY <1>4, <2>1, <2>4, <2>5, <3>1
  <2>10. /\ acc \in Drained(L) /\ acc.left = amount - Part(m)
         /\ acc.left > 0 => acc.lots = <<>>
         /\ ChunksCover(acc.chunks, H, lo, mid) /\ LotsCover(acc.lots, A, mid, top)
    BY <2>2, <2>3, <2>5, <2>6
  <2>11. acc.left > 0 => mid = top
    BY <2>1, <2>5, <2>6, <2>10, <1>5, <1>7
  <2>12. Valued(A, top, top + lot.amount, lot.day)
    BY <2>9 DEF Valued
  <2>13. used \in Nat /\ Part(m + 1) = Part(m) + used
    <3>1. PICK x \in Nat \ {0} : x = lot.amount
      BY <2>9
    <3>2. Part(m) = IF amount < top - lo THEN amount ELSE top - lo
      BY <2>5
    <3>3. Part(m + 1) = IF amount < (top + x) - lo THEN amount ELSE (top + x) - lo
      BY <2>9, <3>1
    <3>4. lo <= top
      BY <1>6, <2>1, <2>5
    <3> HIDE DEF Part
    <3>5. acc.left = amount - Part(m) /\ used = IF acc.left < x THEN acc.left ELSE x
      BY <2>7, <2>10, <3>1
    <3>6. QED
      BY <3>2, <3>3, <3>4, <3>5
  <2>14. Valued(H, top, top + used, day - lot.day)
    <3> SUFFICES ASSUME NEW n \in (top + 1) .. (top + used)
                 PROVE  H[n] = day - lot.day
      BY DEF Valued
    <3>1. n \in (top + 1) .. cut[m + 1]
      BY <2>7, <2>9, <2>10, <2>13, SMTT(30)
    <3>2. A[n] = lot.day
      BY <2>9, <3>1
    <3>3. mid = top
      <4>1. acc.left \in Nat /\ used # 0
        BY <2>10, <2>13 DEF Drained
      <4>2. acc.left > 0
        BY <2>7, <4>1, <2>9
      <4>3. QED
        BY <2>11, <4>2
    <3>4. n \in (lo + 1) .. (lo + taken)
      BY <1>7, <2>1, <2>6, <2>13, <3>3, SMTT(30)
    <3>5. QED
      BY <3>2, <3>4 DEF HeldUntil
  <2> HIDE DEF Part, good
  <2>15. /\ run[m + 1] \in Drained(L)
         /\ run[m + 1].left = acc.left - used
         /\ run[m + 1].left > 0 => run[m + 1].lots = <<>> /\ mid + used = top + lot.amount
         /\ ChunksCover(run[m + 1].chunks, H, lo, mid + used)
         /\ LotsCover(run[m + 1].lots, A, mid + used, top + lot.amount)
    <3> HIDE DEF Good
    <3>1. TakenUpTo(acc, A, H, lo, mid, top)
      BY <2>10, <2>11 DEF TakenUpTo
    <3>2. lot.amount \in Nat \ {0} /\ acc \in Drained(L)
      BY <2>9, <2>10
    <3>3. /\ DrainStep(acc, lot, day) \in Drained(L)
          /\ DrainStep(acc, lot, day).left = acc.left - used
          /\ TakenUpTo(DrainStep(acc, lot, day), A, H, lo, mid + used, top + lot.amount)
      BY <2>7, <2>12, <2>14, <3>1, <3>2, DrainStepCovers
    <3>4. QED
      BY <2>8, <3>3 DEF TakenUpTo
  <2>16. mid + used = lo + Part(m + 1) /\ acc.left - used = amount - Part(m + 1)
    <3>1. Part(m) \in Nat
      BY <1>7, <2>1
    <3>2. QED
      BY <2>6, <2>10, <2>13, <3>1
  <2>17. QED
    BY <2>9, <2>15, <2>16
<1>10. Nat \subseteq good
  <2> HIDE DEF good
  <2>1. QED
    BY <1>8, <1>9, SetInduction
<1>11. Good(count)
  <2>1. count \in good /\ count <= count
    BY <1>1, <1>10
  <2>2. QED
    BY <2>1
<1>12. Part(count) = taken /\ taken \in Nat
  BY <1>1, <1>5, <1>7
<1>13. QED
  <2> HIDE DEF Part
  <2>1. QED
    BY <1>2, <1>5, <1>11, <1>12 DEF DrainedTo

\* A cover's units are those of its weights.
LEMMA UnitsOfCover ==
  ASSUME NEW k \in Nat, NEW w, NEW v, NEW H, NEW lo, NEW hi, Covers(k, w, v, H, lo, hi)
  PROVE  /\ lo \in Nat /\ hi \in Nat /\ lo <= hi
         /\ \A n \in (lo + 1) .. hi : \E m \in 1 .. k : H[n] = v[m]
         /\ \A m \in 1 .. k : \E n \in (lo + 1) .. hi : H[n] = v[m]
         /\ hi = lo <=> k = 0
<1>1. PICK cut : Cuts(cut, k, w, v, H, lo, hi)
  BY DEF Covers
<1>2. /\ \A i \in 0 .. k, j \in 0 .. k : i <= j => cut[i] <= cut[j]
      /\ lo \in Nat /\ hi \in Nat /\ lo <= hi
  BY <1>1, CutsRise
<1>3. cut[0] = lo /\ cut[k] = hi /\ \A m \in 0 .. k : cut[m] \in Nat
  BY <1>1 DEF Cuts
<1>4. ASSUME NEW m \in 1 .. k
      PROVE  /\ cut[m - 1] \in Nat /\ cut[m] \in Nat
             /\ lo <= cut[m - 1] /\ cut[m - 1] < cut[m] /\ cut[m] <= hi
             /\ \A n \in (cut[m - 1] + 1) .. cut[m] : H[n] = v[m]
  <2>1. m \in 0 .. k /\ m - 1 \in 0 .. k /\ 0 \in 0 .. k /\ k \in 0 .. k /\ 0 <= m - 1 /\ m <= k
    OBVIOUS
  <2>2. lo <= cut[m - 1] /\ cut[m] <= hi
    BY <1>2, <1>3, <2>1
  <2>3. w[m] \in Nat \ {0} /\ cut[m] = cut[m - 1] + w[m]
        /\ \A n \in (cut[m - 1] + 1) .. cut[m] : H[n] = v[m]
    BY <1>1 DEF Cuts
  <2>4. cut[m - 1] \in Nat /\ cut[m] \in Nat
    BY <1>3, <2>1
  <2>5. QED
    BY <2>2, <2>3, <2>4
<1>5. ASSUME NEW n \in (lo + 1) .. hi
      PROVE  \E m \in 1 .. k : H[n] = v[m]
  <2> DEFINE reached == {m \in 0 .. k : n <= cut[m]}
  <2>1. k \in reached /\ 0 \notin reached /\ n \in Nat
    BY <1>2, <1>3
  <2>2. reached \in SUBSET Int /\ IsFiniteSet(reached)
    <3>1. IsFiniteSet(0 .. k)
      BY FS_Interval
    <3>2. reached \subseteq 0 .. k
      OBVIOUS
    <3>3. QED
      BY <3>1, <3>2, FS_Subset
  <2> DEFINE first == Min(reached)
  <2>3. first \in reached /\ \A m \in reached : first <= m
    <3> HIDE DEF reached
    <3>1. QED
      BY <2>1, <2>2, SmallestNumber
  <2> HIDE DEF first
  <2>4. first \in 1 .. k /\ first - 1 \in 0 .. k /\ first - 1 \notin reached
    BY <2>1, <2>3
  <2>5. n <= cut[first] /\ ~ (n <= cut[first - 1])
    BY <2>3, <2>4
  <2>6. cut[first - 1] \in Nat /\ cut[first] \in Nat
    BY <1>4, <2>4
  <2>7. n \in (cut[first - 1] + 1) .. cut[first]
    BY <2>1, <2>5, <2>6
  <2>8. QED
    BY <1>4, <2>4, <2>7
<1>6. ASSUME NEW m \in 1 .. k
      PROVE  \E n \in (lo + 1) .. hi : H[n] = v[m]
  <2>1. cut[m] \in (lo + 1) .. hi /\ cut[m] \in (cut[m - 1] + 1) .. cut[m]
    BY <1>2, <1>4
  <2>2. QED
    BY <1>4, <2>1
<1>7. k # 0 => lo < hi
  <2> SUFFICES ASSUME k # 0 PROVE lo < hi
    OBVIOUS
  <2>1. 1 \in 1 .. k
    OBVIOUS
  <2>2. PICK n \in (lo + 1) .. hi : H[n] = v[1]
    BY <1>6, <2>1
  <2>3. QED
    BY <1>2
<1>8. QED
  BY <1>2, <1>3, <1>5, <1>6, <1>7

\* Units of other values, told by the old ones.
LEMMA Revalued ==
  ASSUME NEW k \in Nat, NEW w, NEW v, NEW H, NEW lo, NEW hi, Covers(k, w, v, H, lo, hi),
         NEW u, NEW P, \A m \in 1 .. k : \A n \in (lo + 1) .. hi : H[n] = v[m] => P[n] = u[m]
  PROVE  Covers(k, w, u, P, lo, hi)
<1>1. PICK cut : Cuts(cut, k, w, v, H, lo, hi)
  BY DEF Covers
<1>2. /\ \A i \in 0 .. k, j \in 0 .. k : i <= j => cut[i] <= cut[j]
      /\ lo \in Nat /\ hi \in Nat
  BY <1>1, CutsRise
<1>3. cut[0] = lo /\ cut[k] = hi /\ \A m \in 0 .. k : cut[m] \in Nat
  BY <1>1 DEF Cuts
<1>4. \A m \in 1 .. k : w[m] \in Nat \ {0} /\ cut[m] = cut[m - 1] + w[m]
  BY <1>1 DEF Cuts
<1>5. ASSUME NEW m \in 1 .. k, NEW n \in (cut[m - 1] + 1) .. cut[m]
      PROVE  P[n] = u[m]
  <2>1. m \in 0 .. k /\ m - 1 \in 0 .. k /\ 0 \in 0 .. k /\ k \in 0 .. k /\ 0 <= m - 1 /\ m <= k
    OBVIOUS
  <2>2. lo <= cut[m - 1] /\ cut[m] <= hi /\ cut[m - 1] \in Nat /\ cut[m] \in Nat
    BY <1>2, <1>3, <2>1
  <2>3. n \in (lo + 1) .. hi
    BY <1>2, <2>2
  <2>4. H[n] = v[m]
    BY <1>1 DEF Cuts
  <2>5. QED
    BY <2>3, <2>4
<1>6. Cuts(cut, k, w, u, P, lo, hi)
  BY <1>3, <1>4, <1>5 DEF Cuts
<1>7. QED
  BY <1>6 DEF Covers

\* What the weights sum up to, each times its value, is the sum of the units' values.
LEMMA SumOfCover ==
  ASSUME NEW k \in Nat, NEW w, NEW v, NEW H, NEW lo, NEW hi, Covers(k, w, v, H, lo, hi),
         \A m \in 1 .. k : v[m] \in Int, NEW f, \A m \in 1 .. k : f[m] = v[m] * w[m]
  PROVE  /\ Sum(f, 1 .. k) = Sum(H, (lo + 1) .. hi)
         /\ \A n \in (lo + 1) .. hi : H[n] \in Int
<1>1. PICK cut : Cuts(cut, k, w, v, H, lo, hi)
  BY DEF Covers
<1>2. /\ \A i \in 0 .. k, j \in 0 .. k : i <= j => cut[i] <= cut[j]
      /\ lo \in Nat /\ hi \in Nat
  BY <1>1, CutsRise
<1>3. cut[0] = lo /\ cut[k] = hi /\ \A m \in 0 .. k : cut[m] \in Nat
  BY <1>1 DEF Cuts
<1>4. \A n \in (lo + 1) .. hi : H[n] \in Int
  BY UnitsOfCover
<1>5. \A m \in 1 .. k : w[m] \in Nat \ {0} /\ cut[m] = cut[m - 1] + w[m]
  BY <1>1 DEF Cuts
<1> DEFINE good == {m \in Nat : m <= k => Sum(f, 1 .. m) = Sum(H, (lo + 1) .. cut[m])}
<1>6. 0 \in good
  <2>1. 1 .. 0 = {} /\ (lo + 1) .. cut[0] = {}
    BY <1>2, <1>3
  <2>2. Sum(f, {}) = 0 /\ Sum(H, {}) = 0
    BY SumOfNone
  <2>3. QED
    BY <2>1, <2>2
<1>7. ASSUME NEW m \in Nat, m \in good
      PROVE  m + 1 \in good
  <2> SUFFICES ASSUME m + 1 <= k
               PROVE  Sum(f, 1 .. (m + 1)) = Sum(H, (lo + 1) .. cut[m + 1])
    OBVIOUS
  <2>1. m + 1 \in 1 .. k /\ (m + 1) - 1 = m /\ m \in 0 .. k /\ m + 1 \in 0 .. k
        /\ \A i \in 1 .. m : i \in 1 .. k
    OBVIOUS
  <2>2. PICK a \in Nat, b \in Nat, x \in Nat : a = cut[m] /\ b = cut[m + 1] /\ x = w[m + 1]
    BY <1>3, <1>5, <2>1
  <2>3. lo <= a /\ b = a + x /\ b <= hi
    <3>1. 0 \in 0 .. k /\ k \in 0 .. k /\ 0 <= m /\ m + 1 <= k
      OBVIOUS
    <3>2. cut[0] <= cut[m] /\ cut[m + 1] <= cut[k]
      BY <1>2, <2>1, <3>1
    <3>3. cut[m + 1] = cut[m] + w[m + 1]
      BY <1>5, <2>1
    <3>4. QED
      BY <1>3, <2>2, <3>2, <3>3
  <2>4. PICK y \in Int : y = v[m + 1]
    BY <2>1
  <2>5. \A n \in (a + 1) .. b : H[n] = y * 1
    <3>1. \A n \in (cut[m] + 1) .. cut[m + 1] : H[n] = v[m + 1]
      BY <1>1, <2>1 DEF Cuts
    <3>2. QED
      BY <2>2, <2>4, <3>1
  <2> DEFINE S == (lo + 1) .. b
             T == (a + 1) .. b
             one == [n \in T |-> 1]
  <2>6. IsFiniteSet(S) /\ IsFiniteSet(T) /\ Cardinality(T) = x /\ T \in SUBSET S
        /\ S \ T = (lo + 1) .. a
    <3>1. IsFiniteSet(S) /\ IsFiniteSet(T) /\ Cardinality(T) = IF a + 1 > b THEN 0 ELSE b - (a + 1) + 1
      BY <1>2, <2>3, FS_Interval
    <3>2. QED
      BY <1>2, <2>3, <3>1
  <2>7. \A n \in S : H[n] \in Int
    BY <1>2, <1>4, <2>3
  <2>8. \A n \in T : one[n] = 1 /\ H[n] = y * one[n]
    BY <2>5
  <2> HIDE DEF S, T, one
  <2>9. Sum(one, T) = x
    BY <2>6, <2>8, SumOfOnes
  <2>10. Sum(H, T) = y * x
    <3>1. \A n \in T : one[n] \in Int
      BY <2>8
    <3>2. Sum(H, T) = y * Sum(one, T)
      BY <2>6, <2>8, <3>1, SumScaled
    <3>3. QED
      BY <2>9, <3>2
  <2>11. Sum(H, S) = Sum(H, S \ T) + Sum(H, T)
    BY <2>6, <2>7, SumSplit
  <2>12. Sum(f, 1 .. (m + 1)) = Sum(f, 1 .. m) + f[m + 1] /\ f[m + 1] = y * x
    <3>1. f[m + 1] = y * x /\ f[m + 1] \in Int
      BY <2>1, <2>2, <2>4
    <3>2. \A i \in 1 .. m : f[i] \in Int
      <4> SUFFICES ASSUME NEW i \in 1 .. m PROVE f[i] \in Int
        OBVIOUS
      <4>1. PICK p \in Int, q \in Int : p = v[i] /\ q = w[i]
        BY <1>5, <2>1
      <4>2. f[i] = p * q
        BY <2>1, <4>1
      <4>3. QED
        BY <4>2
    <3>3. Sum(f, 1 .. (m + 1)) = Sum(f, 1 .. m) + f[m + 1]
      BY <3>1, <3>2, SumAppended
    <3>4. QED
      BY <3>1, <3>3
  <2>13. Sum(f, 1 .. m) = Sum(H, (lo + 1) .. a)
    BY <1>7, <2>2
  <2>14. QED
    BY <2>2, <2>6, <2>10, <2>11, <2>12, <2>13 DEF S
<1>8. Nat \subseteq good
  <2> HIDE DEF good
  <2>1. QED
    BY <1>6, <1>7, SetInduction
<1>9. k \in good
  BY <1>8
<1>10. QED
  BY <1>3, <1>4, <1>9

\* The weights of some values count the units that have them.
WeightsCount(k, w, v, H, lo, hi, T) ==
  Sum(w, {m \in 1 .. k : v[m] \in T}) = Cardinality({n \in (lo + 1) .. hi : H[n] \in T})

LEMMA CountOfCover ==
  ASSUME NEW k \in Nat, NEW w, NEW v, NEW H, NEW lo, NEW hi, Covers(k, w, v, H, lo, hi), NEW T
  PROVE  WeightsCount(k, w, v, H, lo, hi, T)
<1> DEFINE places == 1 .. k
           units == (lo + 1) .. hi
           some == {m \in places : v[m] \in T}
           held == {n \in units : H[n] \in T}
           u == [m \in places |-> IF v[m] \in T THEN 1 ELSE 0]
           P == [n \in units |-> IF H[n] \in T THEN 1 ELSE 0]
           f == [m \in places |-> u[m] * w[m]]
<1>1. \A m \in places : u[m] = (IF v[m] \in T THEN 1 ELSE 0) /\ f[m] = u[m] * w[m]
  OBVIOUS
<1>2. \A n \in units : P[n] = IF H[n] \in T THEN 1 ELSE 0
  OBVIOUS
<1> HIDE DEF u, P, f
<1>3. \A m \in 1 .. k : \A n \in (lo + 1) .. hi : H[n] = v[m] => P[n] = u[m]
  BY <1>1, <1>2
<1>4. Covers(k, w, u, P, lo, hi)
  BY <1>3, Revalued
<1>5. \A m \in 1 .. k : u[m] \in Int
  BY <1>1
<1>6. Sum(f, 1 .. k) = Sum(P, (lo + 1) .. hi)
  BY <1>1, <1>4, <1>5, SumOfCover
<1>7. \A m \in places : w[m] \in Nat
  BY DEF Covers, Cuts
<1>8. lo \in Nat /\ hi \in Nat
  BY UnitsOfCover
<1>9. IsFiniteSet(places) /\ IsFiniteSet(units)
  BY <1>8, FS_Interval
<1>10. some \in SUBSET places /\ held \in SUBSET units
  OBVIOUS
<1>11. /\ \A m \in some : f[m] = w[m]
       /\ \A m \in places \ some : f[m] = 0
       /\ \A m \in places : f[m] \in Int
  <2>1. ASSUME NEW m \in places
        PROVE  /\ m \in some => f[m] = w[m]
               /\ m \notin some => f[m] = 0
               /\ f[m] \in Int
    <3>1. PICK x \in Nat : x = w[m]
      BY <1>7
    <3>2. f[m] = u[m] * x /\ u[m] = IF m \in some THEN 1 ELSE 0
      BY <1>1, <3>1
    <3>3. QED
      BY <3>1, <3>2
  <2>2. QED
    BY <2>1
<1>12. /\ \A n \in held : P[n] = 1
       /\ \A n \in units \ held : P[n] = 0
       /\ \A n \in units : P[n] \in Int
  BY <1>2
<1> HIDE DEF places, units, some, held
<1>13. IsFiniteSet(some) /\ IsFiniteSet(held) /\ IsFiniteSet(places \ some)
       /\ IsFiniteSet(units \ held)
  BY <1>9, <1>10, FS_Subset, FS_Difference
<1>14. Sum(f, places) = Sum(f, places \ some) + Sum(f, some)
       /\ Sum(P, units) = Sum(P, units \ held) + Sum(P, held)
  BY <1>9, <1>10, <1>11, <1>12, SumSplit
<1>15. Sum(f, places \ some) = 0 /\ Sum(P, units \ held) = 0
  BY <1>11, <1>12, <1>13, SumOfNothing
<1>16. Sum(P, held) = Cardinality(held)
  BY <1>12, <1>13, SumOfOnes
<1>17. Sum(f, some) = Sum(w, some)
  <2>1. \A m \in some : f[m] \in Int /\ f[m] = w[m]
    BY <1>10, <1>11
  <2>2. QED
    BY <1>13, <2>1, SumSame
<1>18. Sum(f, some) \in Int /\ Cardinality(held) \in Int
  <2>1. \A m \in some : f[m] \in Int
    BY <1>10, <1>11
  <2>2. QED
    BY <1>13, <2>1, SumIsNumber, FS_CardinalityType
<1>19. Sum(f, places) = Sum(P, units)
  BY <1>6 DEF places, units
<1>20. Sum(w, some) = Cardinality(held)
  BY <1>14, <1>15, <1>16, <1>17, <1>18, <1>19
<1>21. QED
  BY <1>20 DEF WeightsCount, places, units, some, held

LEMMA VolumeOfPicked ==
  ASSUME NEW R, NEW chunks \in Seq(R), \A c \in R : c.volume \in Int,
         NEW places \in SUBSET DOMAIN chunks
  PROVE  VolumeOf(Picked(chunks, places)) = Sum(Volumes(chunks), places)
<1> DEFINE picked == Picked(chunks, places)
           count == Cardinality(places)
           kept == Sorted(places)
           f == Volumes(chunks)
           g == Volumes(picked)
<1>1. /\ IsFiniteSet(places) /\ count \in Nat /\ picked \in Seq(R)
      /\ DOMAIN picked = 1 .. count
      /\ \A n \in 1 .. count : kept[n] \in places /\ picked[n] = chunks[kept[n]]
  BY PickedRows
<1>2. /\ \A i \in places : \E n \in 1 .. count : kept[n] = i
      /\ \A m, n \in 1 .. count : kept[m] = kept[n] => m = n
  <2>1. places \in SUBSET Int
    BY TableDomain
  <2>2. QED
    BY <1>1, <2>1, SortedNumbers
<1>3. VolumeOf(picked) = Sum(g, 1 .. count)
  BY <1>1, VolumeIsSum
<1>4. \A i \in places : f[i] \in Int
  BY TableDomain DEF Volumes
<1>5. \A i \in places : f[i] = chunks[i].volume
  BY DEF Volumes
<1>6. \A n \in 1 .. count : g[n] = picked[n].volume
  BY <1>1 DEF Volumes
<1> HIDE DEF picked, count, kept, f, g
<1> DEFINE numbers == 1 .. count
<1>7. /\ \A n \in numbers : g[n] \in Int
      /\ \A n \in numbers : f[kept[n]] = g[n]
  BY <1>1, <1>4, <1>5, <1>6
<1>8. IsFiniteSet(numbers)
  BY <1>1, FS_Interval
<1>9. Renames(numbers, kept, places)
  BY <1>1, <1>2 DEF Renames
<1>10. Sum(g, 1 .. count) = Sum(f, places)
  <2> HIDE DEF numbers
  <2>1. Sum(g, numbers) = Sum(f, places)
    BY <1>7, <1>8, <1>9, SumRenamed
  <2>2. QED
    BY <2>1 DEF numbers
<1>11. QED
  BY <1>3, <1>10 DEF picked, f

\* The volume of the chunks of some holding times is the number of units so held.
HeldCounted(chunks, H, lo, hi, T) ==
  VolumeOf(Picked(chunks, {i \in DOMAIN chunks : chunks[i].held \in T}))
    = Cardinality({n \in (lo + 1) .. hi : H[n] \in T})

LEMMA VolumeOfHeld ==
  ASSUME NEW chunks \in Seq(Chunk), NEW H, NEW lo, NEW hi, ChunksCover(chunks, H, lo, hi), NEW T
  PROVE  HeldCounted(chunks, H, lo, hi, T)
<1> DEFINE k == Len(chunks)
           w == Volumes(chunks)
           v == HeldTimes(chunks)
           places == {i \in DOMAIN chunks : chunks[i].held \in T}
           some == {m \in 1 .. k : v[m] \in T}
           held == {n \in (lo + 1) .. hi : H[n] \in T}
<1>1. DOMAIN chunks = 1 .. k /\ k \in Nat
  OBVIOUS
<1>2. \A i \in 1 .. k : v[i] = chunks[i].held
  BY <1>1 DEF HeldTimes
<1>3. places = some
  BY <1>1, <1>2
<1>4. Sum(w, some) = Cardinality(held)
  <2> HIDE DEF k, w, v
  <2>1. Covers(k, w, v, H, lo, hi)
    BY DEF ChunksCover, k, w, v
  <2>2. k \in Nat
    BY <1>1
  <2>3. WeightsCount(k, w, v, H, lo, hi, T)
    BY <2>1, <2>2, CountOfCover
  <2>4. QED
    BY <2>3 DEF WeightsCount
<1>5. places \in SUBSET DOMAIN chunks
  OBVIOUS
<1> HIDE DEF places, some, held
<1>6. VolumeOf(Picked(chunks, places)) = Sum(Volumes(chunks), places)
  BY <1>5, ChunkVolumes, VolumeOfPicked
<1>7. QED
  BY <1>3, <1>4, <1>6 DEF HeldCounted, places, held

\* The days of all units together, as the pipeline sums them up.
UnitDaysOf(chunks) == FoldLeft(LAMBDA sum, c : sum + c.held * c.volume, 0, chunks)

UnitDaysAt(chunks) == [i \in DOMAIN chunks |-> chunks[i].held * chunks[i].volume]

LEMMA UnitDaysAreSum ==
  ASSUME NEW chunks \in Seq(Chunk)
  PROVE  UnitDaysOf(chunks) = Sum(UnitDaysAt(chunks), DOMAIN chunks)
<1> DEFINE D == DOMAIN chunks
           f == UnitDaysAt(chunks)
           Rule(results) == results = [part \in SUBSET D |->
              IF part = {} THEN 0
              ELSE results[part \ {Max(part)}] + chunks[Max(part)].held * chunks[Max(part)].volume]
           sums == [part \in SUBSET D |-> Sum(f, part)]
<1>1. IsFiniteSet(D) /\ D \subseteq Int /\ \A i \in D : chunks[i] \in Chunk
  BY TableDomain
<1>2. \A i \in D : f[i] = chunks[i].held * chunks[i].volume /\ f[i] \in Int
  <2> SUFFICES ASSUME NEW i \in D
               PROVE  f[i] = chunks[i].held * chunks[i].volume /\ f[i] \in Int
    OBVIOUS
  <2>1. f[i] = chunks[i].held * chunks[i].volume
    BY DEF UnitDaysAt
  <2>2. PICK h \in Int, x \in Int : h = chunks[i].held /\ x = chunks[i].volume
    BY <1>1 DEF Chunk
  <2>3. h * x \in Int
    OBVIOUS
  <2>4. QED
    BY <2>1, <2>2, <2>3
<1>3. UnitDaysOf(chunks) = (CHOOSE results : Rule(results))[D]
  BY DEF UnitDaysOf, FoldLeft, MapThenFoldSet
<1> HIDE DEF D, f
<1>4. /\ \A part \in SUBSET D : part # {} =>
           Max(part) \in part /\ Sum(f, part) = Sum(f, part \ {Max(part)}) + f[Max(part)]
      /\ \A chosen :
           (\A part \in SUBSET D :
              chosen[part] = IF part = {} THEN 0 ELSE chosen[part \ {Max(part)}] + f[Max(part)])
           => chosen[D] = Sum(f, D)
  BY <1>1, <1>2, SumFromTheLast, ZenonT(30)
<1>5. Rule(sums)
  BY <1>2, <1>4, SumOfNone
<1>6. PICK chosen : Rule(chosen) /\ UnitDaysOf(chunks) = chosen[D]
  <2> HIDE DEF Rule
  <2>1. Rule(CHOOSE results : Rule(results))
    BY <1>5
  <2>2. QED
    BY <1>3, <2>1
<1>7. ASSUME NEW part \in SUBSET D
      PROVE  chosen[part] = IF part = {} THEN 0 ELSE chosen[part \ {Max(part)}] + f[Max(part)]
  BY <1>2, <1>4, <1>6
<1>8. QED
  BY <1>4, <1>6, <1>7 DEF D, f

\* Chunks that are some units have their number as volume, and as unit days the sum of
\* the times they were held.
LEMMA ChunksMeasured ==
  ASSUME NEW chunks \in Seq(Chunk), NEW H, NEW lo, NEW hi, ChunksCover(chunks, H, lo, hi)
  PROVE  /\ lo \in Nat /\ hi \in Nat /\ lo <= hi
         /\ VolumeOf(chunks) = hi - lo
         /\ UnitDaysOf(chunks) = Sum(H, (lo + 1) .. hi)
         /\ \A n \in (lo + 1) .. hi : H[n] \in Int
         /\ chunks = <<>> <=> hi = lo
         /\ \A n \in (lo + 1) .. hi : \E m \in DOMAIN chunks : H[n] = chunks[m].held
         /\ \A m \in DOMAIN chunks : \E n \in (lo + 1) .. hi : H[n] = chunks[m].held
<1> DEFINE k == Len(chunks)
           w == Volumes(chunks)
           v == HeldTimes(chunks)
           f == UnitDaysAt(chunks)
<1>1. k \in Nat /\ DOMAIN chunks = 1 .. k /\ \A i \in 1 .. k : chunks[i] \in Chunk
  OBVIOUS
<1>2. \A i \in 1 .. k : /\ v[i] = chunks[i].held /\ w[i] = chunks[i].volume
                        /\ f[i] = chunks[i].held * chunks[i].volume
                        /\ v[i] \in Int
  BY <1>1 DEF HeldTimes, Volumes, UnitDaysAt, Chunk
<1>3. chunks = <<>> <=> k = 0
  OBVIOUS
<1>4. Covers(k, w, v, H, lo, hi)
  BY DEF ChunksCover
<1>5. VolumeOf(chunks) = Sum(w, 1 .. k) /\ UnitDaysOf(chunks) = Sum(f, 1 .. k)
  BY <1>1, ChunkVolumes, VolumeIsSum, UnitDaysAreSum
<1> HIDE DEF k, w, v, f
<1>6. /\ lo \in Nat /\ hi \in Nat /\ lo <= hi
      /\ \A n \in (lo + 1) .. hi : \E m \in 1 .. k : H[n] = v[m]
      /\ \A m \in 1 .. k : \E n \in (lo + 1) .. hi : H[n] = v[m]
      /\ hi = lo <=> k = 0
  <2>1. lo \in Nat /\ hi \in Nat /\ lo <= hi /\ (hi = lo <=> k = 0)
    BY <1>1, <1>4, UnitsOfCover
  <2>2. \A n \in (lo + 1) .. hi : \E m \in 1 .. k : H[n] = v[m]
    BY <1>1, <1>4, UnitsOfCover
  <2>3. \A m \in 1 .. k : \E n \in (lo + 1) .. hi : H[n] = v[m]
    BY <1>1, <1>4, UnitsOfCover
  <2>4. QED
    BY <2>1, <2>2, <2>3
<1>7. /\ Sum(f, 1 .. k) = Sum(H, (lo + 1) .. hi)
      /\ \A n \in (lo + 1) .. hi : H[n] \in Int
  <2>1. \A m \in 1 .. k : v[m] \in Int
    BY <1>2
  <2>2. \A m \in 1 .. k : f[m] = v[m] * w[m]
    BY <1>2
  <2>3. QED
    BY <1>1, <1>4, <2>1, <2>2, SumOfCover
<1>8. Sum(w, 1 .. k) = hi - lo
  <2>1. WeightsCount(k, w, v, H, lo, hi, Int)
    BY <1>1, <1>4, CountOfCover
  <2>2. {m \in 1 .. k : v[m] \in Int} = 1 .. k
        /\ {n \in (lo + 1) .. hi : H[n] \in Int} = (lo + 1) .. hi
    BY <1>2, <1>7
  <2>3. Cardinality((lo + 1) .. hi) = hi - lo
    <3>1. Cardinality((lo + 1) .. hi) = IF lo + 1 > hi THEN 0 ELSE hi - (lo + 1) + 1
      BY <1>6, FS_Interval
    <3>2. QED
      BY <1>6, <3>1
  <2>4. QED
    BY <2>1, <2>2, <2>3 DEF WeightsCount
<1>9. /\ \A n \in (lo + 1) .. hi : \E m \in DOMAIN chunks : H[n] = chunks[m].held
      /\ \A m \in DOMAIN chunks : \E n \in (lo + 1) .. hi : H[n] = chunks[m].held
  <2>1. \A m \in 1 .. k : v[m] = chunks[m].held
    BY <1>2
  <2>2. \A n \in (lo + 1) .. hi : \E m \in 1 .. k : H[n] = chunks[m].held
    BY <1>6, <2>1
  <2>3. \A m \in 1 .. k : \E n \in (lo + 1) .. hi : H[n] = chunks[m].held
    BY <1>6, <2>1
  <2>4. QED
    BY <1>1, <2>2, <2>3
<1>10. QED
  BY <1>3, <1>5, <1>6, <1>7, <1>8, <1>9

CountedUpTo(chunks, H, lo, hi, days) ==
  VolumeOf(Where(chunks, LAMBDA c : c.held <= days))
    = Cardinality({n \in (lo + 1) .. hi : H[n] <= days})

LEMMA VolumeUpTo ==
  ASSUME NEW chunks \in Seq(Chunk), NEW H, NEW lo, NEW hi, ChunksCover(chunks, H, lo, hi),
         NEW days \in Int
  PROVE  CountedUpTo(chunks, H, lo, hi, days)
<1> DEFINE T == {d \in Int : d <= days}
<1>1. \A i \in DOMAIN chunks : chunks[i].held \in Int
  <2>1. \A i \in DOMAIN chunks : chunks[i] \in Chunk
    OBVIOUS
  <2>2. QED
    BY <2>1 DEF Chunk
<1>2. \A n \in (lo + 1) .. hi : H[n] \in Int
  BY ChunksMeasured
<1>3. {i \in DOMAIN chunks : chunks[i].held <= days} = {i \in DOMAIN chunks : chunks[i].held \in T}
  BY <1>1
<1>4. {n \in (lo + 1) .. hi : H[n] <= days} = {n \in (lo + 1) .. hi : H[n] \in T}
  BY <1>2
<1> HIDE DEF T
<1>5. HeldCounted(chunks, H, lo, hi, T)
  BY VolumeOfHeld
<1>6. QED
  BY <1>3, <1>4, <1>5 DEF Where, HeldCounted, CountedUpTo

\* How many of the first units are held for at most so many days, and the least time
\* that half of them do not exceed.
HeldWithin(H, count, days) == Cardinality({n \in 1 .. count : H[n] <= days})
HalfHeld(H, count, last) == {d \in 0 .. last : 2 * HeldWithin(H, count, d) >= count}

\* The median of chunks that are the first units.
LEMMA MedianOfChunks ==
  ASSUME NEW chunks \in Seq(Chunk), NEW H, NEW count \in Nat \ {0}, NEW last \in Nat,
         ChunksCover(chunks, H, 0, count), \A n \in 1 .. count : H[n] \in 0 .. last
  PROVE  WeightedMedian(chunks) = Min(HalfHeld(H, count, last))
<1> DEFINE half == HalfHeld(H, count, last)
           reached == {chunks[i].held : i \in {j \in DOMAIN chunks :
                         2 * VolumeOf(Where(chunks, LAMBDA c : c.held <= chunks[j].held))
                           >= VolumeOf(chunks)}}
           G(d) == HeldWithin(H, count, d)
<1>1. /\ VolumeOf(chunks) = count /\ chunks # <<>>
      /\ \A n \in 1 .. count : \E m \in DOMAIN chunks : H[n] = chunks[m].held
      /\ \A m \in DOMAIN chunks : \E n \in 1 .. count : H[n] = chunks[m].held
  <2>1. (0 + 1) .. count = 1 .. count /\ count - 0 = count /\ count # 0
    OBVIOUS
  <2>2. VolumeOf(chunks) = count - 0 /\ (chunks = <<>> <=> count = 0)
    BY ChunksMeasured
  <2>3. \A n \in (0 + 1) .. count : \E m \in DOMAIN chunks : H[n] = chunks[m].held
    BY ChunksMeasured, SMTT(30)
  <2>4. \A m \in DOMAIN chunks : \E n \in (0 + 1) .. count : H[n] = chunks[m].held
    BY ChunksMeasured
  <2>5. QED
    BY <2>1, <2>2, <2>3, <2>4
<1>2. \A m \in DOMAIN chunks : chunks[m].held \in 0 .. last
  BY <1>1
<1>3. \A days \in Int : VolumeOf(Where(chunks, LAMBDA c : c.held <= days)) = G(days)
  <2> SUFFICES ASSUME NEW days \in Int
               PROVE  VolumeOf(Where(chunks, LAMBDA c : c.held <= days)) = G(days)
    OBVIOUS
  <2>1. CountedUpTo(chunks, H, 0, count, days)
    BY VolumeUpTo
  <2>2. (0 + 1) .. count = 1 .. count
    OBVIOUS
  <2>3. QED
    BY <2>1, <2>2 DEF HeldWithin, CountedUpTo
<1>4. \A j \in DOMAIN chunks :
        VolumeOf(Where(chunks, LAMBDA c : c.held <= chunks[j].held)) = G(chunks[j].held)
  <2>1. \A j \in DOMAIN chunks : chunks[j].held \in Int
    BY <1>2
  <2>2. QED
    BY <1>3, <2>1
<1>5. WeightedMedian(chunks) = Min(reached)
  BY <1>1 DEF WeightedMedian
<1>6. reached = {chunks[i].held : i \in {j \in DOMAIN chunks : 2 * G(chunks[j].held) >= count}}
  BY <1>1, <1>4
<1> HIDE DEF reached, G
<1>7. half = {d \in 0 .. last : 2 * G(d) >= count}
  BY DEF HalfHeld, G
<1> HIDE DEF half
<1>8. reached \subseteq half
  BY <1>2, <1>6, <1>7
<1>9. last \in half
  <2>1. {n \in 1 .. count : H[n] <= last} = 1 .. count
    OBVIOUS
  <2>2. Cardinality(1 .. count) = count
    <3>1. Cardinality(1 .. count) = IF 1 > count THEN 0 ELSE count - 1 + 1
      BY FS_Interval
    <3>2. QED
      BY <3>1
  <2>3. G(last) = count
    BY <2>1, <2>2 DEF G, HeldWithin
  <2>4. QED
    BY <1>7, <2>3
<1>10. half \in SUBSET Int /\ IsFiniteSet(half)
  <2>1. half \subseteq 0 .. last
    BY <1>7
  <2>2. IsFiniteSet(0 .. last)
    BY FS_Interval
  <2>3. IsFiniteSet(half)
    BY <2>1, <2>2, FS_Subset
  <2>4. QED
    BY <2>1, <2>3
<1> DEFINE first == Min(half)
<1>11. first \in half /\ \A d \in half : first <= d
  BY <1>9, <1>10, SmallestNumber
<1> HIDE DEF first
<1>12. first \in 0 .. last /\ 2 * G(first) >= count
  BY <1>7, <1>11
<1>13. \E n \in 1 .. count : H[n] = first
  <2> SUFFICES ASSUME \A n \in 1 .. count : H[n] # first
               PROVE  FALSE
    OBVIOUS
  <2>1. CASE first = 0
    <3>1. {n \in 1 .. count : H[n] <= 0} = {}
      BY <2>1
    <3>2. G(first) = 0
      BY <2>1, <3>1, FS_EmptySet DEF G, HeldWithin
    <3>3. QED
      BY <1>12, <3>2
  <2>2. CASE first # 0
    <3>1. first - 1 \in 0 .. last /\ ~ (first <= first - 1)
      BY <1>12, <2>2
    <3>2. {n \in 1 .. count : H[n] <= first} = {n \in 1 .. count : H[n] <= first - 1}
      BY <1>12
    <3>3. G(first - 1) = G(first)
      BY <3>2 DEF G, HeldWithin
    <3>4. first - 1 \in half
      BY <1>7, <1>12, <3>1, <3>3
    <3>5. QED
      BY <1>11, <3>1, <3>4
  <2>3. QED
    BY <2>1, <2>2
<1>14. first \in reached
  <2>1. PICK n \in 1 .. count : H[n] = first
    BY <1>13
  <2>2. PICK m \in DOMAIN chunks : H[n] = chunks[m].held
    BY <1>1
  <2>3. 2 * G(chunks[m].held) >= count
    BY <1>12, <2>1, <2>2
  <2>4. QED
    BY <1>6, <2>1, <2>2, <2>3
<1>15. Min(reached) = first
  <2>1. reached \in SUBSET Int /\ IsFiniteSet(reached) /\ reached # {}
    BY <1>8, <1>10, <1>14, FS_Subset
  <2>2. Min(reached) \in reached /\ \A d \in reached : Min(reached) <= d
    BY <2>1, SmallestNumber
  <2>3. PICK least : least = Min(reached)
    OBVIOUS
  <2>4. least \in half /\ least <= first
    BY <1>8, <1>14, <2>2, <2>3
  <2>5. first <= least /\ least \in Int /\ first \in Int
    BY <1>7, <1>11, <1>12, <2>4
  <2>6. QED
    BY <2>3, <2>4, <2>5
<1>16. QED
  BY <1>5, <1>15 DEF first, half

-----------------------------------------------------------------------------
(* Amounts in the order of their days.                                     *)

Rising(count, Q) ==
  /\ \A n \in 0 .. count : Q[n] \in Nat
  /\ \A i \in 0 .. count, j \in 0 .. count : i <= j => Q[i] <= Q[j]

\* What each place adds.
Adds(count, Q, gain) == \A n \in 1 .. count : Q[n] = Q[n - 1] + gain[n]

LEMMA RisingByStep ==
  ASSUME NEW count \in Nat, NEW Q, \A n \in 0 .. count : Q[n] \in Nat,
         \A n \in 1 .. count : Q[n - 1] <= Q[n]
  PROVE  Rising(count, Q)
<1> DEFINE Good == {d \in Nat : \A i \in 0 .. count : i + d \in 0 .. count => Q[i] <= Q[i + d]}
<1>1. 0 \in Good
  <2>1. \A i \in 0 .. count : i + 0 = i /\ Q[i] <= Q[i]
    OBVIOUS
  <2>2. QED
    BY <2>1
<1>2. ASSUME NEW d \in Nat, d \in Good
      PROVE  d + 1 \in Good
  <2> SUFFICES ASSUME NEW i \in 0 .. count, i + (d + 1) \in 0 .. count
               PROVE  Q[i] <= Q[i + (d + 1)]
    OBVIOUS
  <2>1. PICK m \in 0 .. count : m = i + d
    OBVIOUS
  <2>2. m + 1 \in 1 .. count /\ i + (d + 1) = m + 1 /\ (m + 1) - 1 = m /\ m + 1 \in 0 .. count
    BY <2>1
  <2>3. Q[i] <= Q[m] /\ Q[m] <= Q[m + 1]
    BY <1>2, <2>1, <2>2
  <2>4. Q[i] \in Nat /\ Q[m] \in Nat /\ Q[m + 1] \in Nat
    BY <2>2
  <2>5. QED
    BY <2>2, <2>3, <2>4
<1>3. Nat \subseteq Good
  <2> HIDE DEF Good
  <2>1. QED
    BY <1>1, <1>2, SetInduction
<1>4. ASSUME NEW i \in 0 .. count, NEW j \in 0 .. count, i <= j
      PROVE  Q[i] <= Q[j]
  <2>1. j - i \in Nat /\ i + (j - i) = j
    BY <1>4
  <2>2. j - i \in Good
    BY <1>3, <2>1
  <2>3. QED
    BY <2>1, <2>2
<1>5. QED
  BY <1>4 DEF Rising

InTime(count, day, D) ==
  /\ \A n \in 1 .. count : day[n] \in D
  /\ \A m \in 1 .. count, n \in 1 .. count : m <= n => day[m] <= day[n]

\* By the end of a day there is what the places of that day and before have brought.
Places(count, day, d, k) == \A n \in 1 .. count : day[n] <= d <=> n <= k
UpToDay(count, day, D, Q, at) ==
  \A d \in D : \E k \in 0 .. count : Places(count, day, d, k) /\ at[d] = Q[k]

\* The places up to a day are the first ones.
LEMMA PlacesOfDay ==
  ASSUME NEW count \in Nat, NEW D \in SUBSET Nat, NEW day, InTime(count, day, D), NEW d \in Int
  PROVE  \E k \in 0 .. count : Places(count, day, d, k)
<1> DEFINE S == {n \in 1 .. count : day[n] <= d}
<1>1. \A n \in 1 .. count : day[n] \in Nat
  BY DEF InTime
<1>2. CASE S = {}
  <2>1. Places(count, day, d, 0)
    BY <1>2 DEF Places
  <2>2. QED
    BY <2>1
<1>3. CASE S # {}
  <2> DEFINE k == Max(S)
  <2>1. IsFiniteSet(1 .. count) /\ S \subseteq 1 .. count
    BY FS_Interval
  <2>2. IsFiniteSet(S) /\ S \in SUBSET Int
    BY <2>1, FS_Subset
  <2>3. k \in S /\ \A n \in S : k >= n
    <3> HIDE DEF S
    <3>1. QED
      BY <1>3, <2>2, GreatestNumber
  <2> HIDE DEF k
  <2>4. k \in 1 .. count /\ day[k] <= d
    BY <2>3
  <2>5. ASSUME NEW n \in 1 .. count
        PROVE  day[n] <= d <=> n <= k
    <3>1. n <= k => day[n] <= day[k]
      BY <2>4 DEF InTime
    <3>2. day[n] \in Nat /\ day[k] \in Nat
      BY <1>1, <2>4
    <3>3. day[n] <= d => n <= k
      BY <2>3, <2>4
    <3>4. QED
      BY <2>4, <3>1, <3>2, <3>3
  <2>6. QED
    BY <2>4, <2>5 DEF Places
<1>4. QED
  BY <1>2, <1>3

\* The day on which a unit is first there is that of the place that brings it.
LEMMA FirstDayOf ==
  ASSUME NEW count \in Nat, NEW D \in SUBSET Nat, IsFiniteSet(D), NEW day,
         InTime(count, day, D), NEW Q, Rising(count, Q), NEW at, UpToDay(count, day, D, Q, at),
         NEW j \in 1 .. count, NEW n \in Nat, Q[j - 1] < n, n <= Q[j]
  PROVE  Min({d \in D : at[d] >= n}) = day[j]
<1> DEFINE S == {d \in D : at[d] >= n}
<1>1. j \in 0 .. count /\ j - 1 \in 0 .. count /\ Q[j] \in Nat /\ Q[j - 1] \in Nat
      /\ day[j] \in D /\ day[j] \in Nat
  <2>1. j \in 0 .. count /\ j - 1 \in 0 .. count
    OBVIOUS
  <2>2. Q[j] \in Nat /\ Q[j - 1] \in Nat
    BY <2>1 DEF Rising
  <2>3. day[j] \in D
    BY DEF InTime
  <2>4. QED
    BY <2>1, <2>2, <2>3
<1>2. day[j] \in S
  <2>1. PICK k \in 0 .. count : Places(count, day, day[j], k) /\ at[day[j]] = Q[k]
    BY <1>1 DEF UpToDay
  <2>2. j <= k
    BY <1>1, <2>1 DEF Places
  <2>3. Q[j] <= Q[k] /\ Q[k] \in Nat
    BY <1>1, <2>2 DEF Rising
  <2>4. QED
    BY <1>1, <2>1, <2>3
<1>3. ASSUME NEW d \in S
      PROVE  day[j] <= d
  <2>1. PICK k \in 0 .. count : Places(count, day, d, k) /\ at[d] = Q[k]
    BY DEF UpToDay
  <2>2. Q[k] \in Nat /\ Q[k] >= n
    BY <2>1 DEF Rising
  <2>3. k <= j - 1 => Q[k] <= Q[j - 1]
    BY <1>1 DEF Rising
  <2>4. j <= k
    BY <1>1, <2>2, <2>3
  <2>5. QED
    BY <2>1, <2>4 DEF Places
<1>4. S \in SUBSET Int /\ IsFiniteSet(S)
  <2>1. S \subseteq D
    OBVIOUS
  <2> HIDE DEF S
  <2>2. IsFiniteSet(S)
    BY <2>1, FS_Subset
  <2>3. QED
    BY <2>1, <2>2
<1> HIDE DEF S
<1>5. PICK first : first = Min(S)
  OBVIOUS
<1>6. first \in S /\ \A d \in S : first <= d
  BY <1>2, <1>4, <1>5, SmallestNumber
<1>7. first <= day[j] /\ day[j] <= first /\ first \in Int
  BY <1>2, <1>3, <1>4, <1>6
<1>8. first = day[j]
  BY <1>1, <1>7
<1>9. QED
  BY <1>5, <1>8 DEF S

\* What is matched, place by place: what is asked for, as far as there is as much.
Paced(count, day, gain, C, M) ==
  /\ M[0] = 0
  /\ \A n \in 1 .. count :
       M[n] = IF M[n - 1] + gain[n] < C[day[n]] THEN M[n - 1] + gain[n] ELSE C[day[n]]

\* What comes in by the end of each day.
Income(D, C) ==
  /\ \A d \in D : C[d] \in Nat
  /\ \A d \in D, e \in D : d <= e => C[d] <= C[e]

LEMMA PacedExists ==
  ASSUME NEW count \in Nat, NEW D, NEW day, InTime(count, day, D), NEW C, Income(D, C),
         NEW gain, \A n \in 1 .. count : gain[n] \in Nat
  PROVE  \E M : Paced(count, day, gain, C, M)
<1> DEFINE P == 1 .. count
           least(t, n) == IF t + gain[n] < C[day[n]] THEN t + gain[n] ELSE C[day[n]]
           step == [n \in P |-> [t \in Nat |-> least(t, n)]]
<1>1. \A n \in P : gain[n] \in Nat /\ C[day[n]] \in Nat
  BY DEF InTime, Income
<1>2. \A n \in P : \A t \in Nat : step[n][t] = least(t, n) /\ least(t, n) \in Nat
  BY <1>1
<1> HIDE DEF step, least
<1>3. Stepping(count, Nat, 0, step)
  BY <1>2 DEF Stepping
<1>4. PICK results : FoldedLeft(count, Nat, 0, step, results)
  BY <1>3, FoldFromTheLeft
<1> DEFINE M == [n \in 0 .. count |-> results[1 .. n]]
<1>5. results \in [SUBSET P -> Nat]
      /\ \A part \in SUBSET P :
           results[part] = IF part = {} THEN 0
                           ELSE step[Max(part)][results[part \ {Max(part)}]]
  BY <1>4 DEF FoldedLeft
<1>6. M[0] = 0
  <2>1. 1 .. 0 = {} /\ {} \in SUBSET P /\ 0 \in 0 .. count
    OBVIOUS
  <2>2. QED
    BY <1>5, <2>1
<1>7. ASSUME NEW n \in P
      PROVE  M[n] = least(M[n - 1], n)
  <2>1. /\ 1 .. n \in SUBSET P /\ 1 .. n # {} /\ 1 .. (n - 1) \in SUBSET P
        /\ Max(1 .. n) = n /\ (1 .. n) \ {n} = 1 .. (n - 1)
    BY PlacesUpTo
  <2>2. n \in 0 .. count /\ n - 1 \in 0 .. count
    OBVIOUS
  <2>3. results[1 .. n] = step[n][results[1 .. (n - 1)]] /\ results[1 .. (n - 1)] \in Nat
    BY <1>5, <2>1
  <2>4. QED
    BY <1>2, <2>2, <2>3
<1> HIDE DEF M
<1>8. Paced(count, day, gain, C, M)
  BY <1>6, <1>7 DEF Paced, least
<1>9. QED
  BY <1>8

\* Never more is matched than what came in by that day, and what was matched stays so.
LEMMA PacedFacts ==
  ASSUME NEW count \in Nat, NEW D \in SUBSET Nat, NEW day, InTime(count, day, D),
         NEW C, Income(D, C), NEW gain, \A n \in 1 .. count : gain[n] \in Nat,
         NEW M, Paced(count, day, gain, C, M)
  PROVE  /\ Rising(count, M)
         /\ \A n \in 1 .. count : M[n] <= C[day[n]] /\ M[n] <= M[n - 1] + gain[n]
         /\ \A n \in 1 .. count : M[n - 1] <= C[day[n]]
<1>1. \A n \in 1 .. count : gain[n] \in Nat /\ day[n] \in D /\ C[day[n]] \in Nat
  BY DEF InTime, Income
<1> DEFINE good == {n \in Nat : n <= count =>
              /\ M[n] \in Nat
              /\ n # 0 => M[n] <= C[day[n]] /\ M[n] <= M[n - 1] + gain[n] /\ M[n - 1] <= C[day[n]]
                          /\ M[n - 1] <= M[n]}
<1>2. 0 \in good
  BY DEF Paced
<1>3. ASSUME NEW n \in Nat, n \in good
      PROVE  n + 1 \in good
  <2> SUFFICES ASSUME n + 1 <= count
               PROVE  /\ M[n + 1] \in Nat
                      /\ M[n + 1] <= C[day[n + 1]] /\ M[n + 1] <= M[n] + gain[n + 1]
                      /\ M[n] <= C[day[n + 1]] /\ M[n] <= M[n + 1]
    OBVIOUS
  <2>1. n + 1 \in 1 .. count /\ (n + 1) - 1 = n /\ n <= count
    OBVIOUS
  <2>2. PICK g \in Nat, c \in Nat : g = gain[n + 1] /\ c = C[day[n + 1]]
    BY <1>1, <2>1
  <2>3. M[n + 1] = IF M[n] + g < c THEN M[n] + g ELSE c
    BY <2>1, <2>2 DEF Paced
  <2>4. PICK m \in Nat : m = M[n]
    BY <1>3, <2>1
  <2>5. m <= c
    <3>1. CASE n = 0
      BY <2>2, <2>4, <3>1 DEF Paced
    <3>2. CASE n # 0
      <4>1. n \in 1 .. count
        BY <2>1, <3>2
      <4>2. day[n] <= day[n + 1]
        BY <2>1, <4>1 DEF InTime
      <4>3. C[day[n]] <= C[day[n + 1]]
        BY <1>1, <2>1, <4>1, <4>2 DEF Income
      <4>4. M[n] <= C[day[n]]
        BY <1>3, <2>1, <3>2
      <4>5. C[day[n]] \in Nat
        BY <1>1, <4>1
      <4>6. QED
        BY <2>2, <2>4, <4>3, <4>4, <4>5
    <3>3. QED
      BY <3>1, <3>2
  <2>6. QED
    BY <2>2, <2>3, <2>4, <2>5
<1>4. Nat \subseteq good
  <2> HIDE DEF good
  <2>1. QED
    BY <1>2, <1>3, SetInduction
<1>5. ASSUME NEW n \in 0 .. count
      PROVE  /\ M[n] \in Nat
             /\ n # 0 => M[n] <= C[day[n]] /\ M[n] <= M[n - 1] + gain[n] /\ M[n - 1] <= C[day[n]]
                         /\ M[n - 1] <= M[n]
  <2>1. n \in good /\ n <= count
    BY <1>4
  <2>2. QED
    BY <2>1
<1>6. \A n \in 1 .. count : n \in 0 .. count /\ n # 0
  OBVIOUS
<1>7. Rising(count, M)
  <2>1. \A n \in 0 .. count : M[n] \in Nat
    BY <1>5
  <2>2. \A n \in 1 .. count : M[n - 1] <= M[n]
    BY <1>5, <1>6
  <2>3. QED
    BY <2>1, <2>2, RisingByStep
<1>8. QED
  BY <1>5, <1>6, <1>7

\* The most that was ever missing by the end of a day.
MostMissing(D, W, C, d) == Max({0} \cup {W[e] - C[e] : e \in {f \in D : f <= d}})

\* What is not matched by the end of a day is the most that was ever missing.
LEMMA Departures ==
  ASSUME NEW count \in Nat, NEW D \in SUBSET Nat, IsFiniteSet(D), NEW day,
         InTime(count, day, D), NEW C, Income(D, C),
         NEW gain, \A n \in 1 .. count : gain[n] \in Nat,
         NEW X, X[0] = 0, Adds(count, X, gain),
         NEW W, UpToDay(count, day, D, X, W),
         NEW M, Paced(count, day, gain, C, M),
         NEW d \in D, NEW k \in 0 .. count, Places(count, day, d, k)
  PROVE  /\ W[d] = X[k] /\ MostMissing(D, W, C, d) = X[k] - M[k]
         /\ M[k] \in Nat /\ X[k] \in Nat /\ M[k] <= X[k]
<1> USE DEF Adds
<1>1. /\ Rising(count, M)
      /\ \A n \in 1 .. count : M[n] <= C[day[n]] /\ M[n] <= M[n - 1] + gain[n]
  BY PacedFacts
<1>2. \A n \in 0 .. count : M[n] \in Nat
  BY <1>1 DEF Rising
<1>3. \A n \in 1 .. count : n \in 0 .. count /\ n - 1 \in 0 .. count /\ gain[n] \in Nat
  OBVIOUS
<1>4. Rising(count, X)
  <2> DEFINE good == {n \in Nat : n <= count => X[n] \in Nat}
  <2>1. 0 \in good
    OBVIOUS
  <2>2. ASSUME NEW n \in Nat, n \in good PROVE n + 1 \in good
    <3> SUFFICES ASSUME n + 1 <= count PROVE X[n + 1] \in Nat
      OBVIOUS
    <3>1. n + 1 \in 1 .. count /\ (n + 1) - 1 = n
      OBVIOUS
    <3>2. X[n + 1] = X[n] + gain[n + 1] /\ gain[n + 1] \in Nat
      BY <3>1
    <3>3. X[n] \in Nat
      BY <2>2, <3>1
    <3>4. QED
      BY <3>2, <3>3
  <2>3. Nat \subseteq good
    <3> HIDE DEF good
    <3>1. QED
      BY <2>1, <2>2, SetInduction
  <2>4. \A n \in 0 .. count : X[n] \in Nat
    BY <2>3
  <2>5. \A n \in 1 .. count : X[n - 1] <= X[n]
    BY <1>3, <2>4
  <2>6. QED
    BY <2>4, <2>5, RisingByStep
<1>5. \A n \in 0 .. count : X[n] \in Nat
  BY <1>4 DEF Rising
<1> DEFINE U == [n \in 0 .. count |-> X[n] - M[n]]
<1>6. \A n \in 0 .. count : U[n] = X[n] - M[n] /\ U[n] \in Int
  BY <1>2, <1>5
<1>7. U[0] = 0
  BY <1>6 DEF Paced
<1> HIDE DEF U
<1>8. \A n \in 1 .. count : U[n - 1] <= U[n]
  <2> SUFFICES ASSUME NEW n \in 1 .. count PROVE U[n - 1] <= U[n]
    OBVIOUS
  <2>1. PICK a \in Nat, b \in Nat, x \in Nat, y \in Nat, g \in Nat :
          a = M[n - 1] /\ b = M[n] /\ x = X[n - 1] /\ y = X[n] /\ g = gain[n]
    BY <1>2, <1>3, <1>5
  <2>2. b <= a + g /\ y = x + g /\ U[n - 1] = x - a /\ U[n] = y - b
    BY <1>1, <1>3, <1>6, <2>1
  <2>3. QED
    BY <2>2
<1>9. \A n \in 0 .. count : U[n] \in Nat
  <2> DEFINE good == {n \in Nat : n <= count => U[n] \in Nat}
  <2>1. 0 \in good
    BY <1>7
  <2>2. ASSUME NEW n \in Nat, n \in good PROVE n + 1 \in good
    <3> SUFFICES ASSUME n + 1 <= count PROVE U[n + 1] \in Nat
      OBVIOUS
    <3>1. n + 1 \in 1 .. count /\ (n + 1) - 1 = n /\ n + 1 \in 0 .. count
      OBVIOUS
    <3>2. U[n] <= U[n + 1] /\ U[n + 1] \in Int
      BY <1>6, <1>8, <3>1
    <3>3. U[n] \in Nat
      BY <2>2, <3>1
    <3>4. QED
      BY <3>2, <3>3
  <2>3. Nat \subseteq good
    <3> HIDE DEF good
    <3>1. QED
      BY <2>1, <2>2, SetInduction
  <2>4. QED
    BY <2>3
<1>10. Rising(count, U)
  BY <1>8, <1>9, RisingByStep
<1> DEFINE S == {0} \cup {W[e] - C[e] : e \in {f \in D : f <= d}}
<1>11. \A e \in D : W[e] \in Nat /\ C[e] \in Nat
  <2>1. \A e \in D : \E l \in 0 .. count : W[e] = X[l]
    BY DEF UpToDay
  <2>2. QED
    BY <1>5, <2>1 DEF Income
<1>12. S \in SUBSET Int /\ IsFiniteSet(S)
  <2> DEFINE F == {f \in D : f <= d}
             gap == [e \in F |-> W[e] - C[e]]
  <2>1. F \subseteq D
    OBVIOUS
  <2>2. IsFiniteSet(F)
    <3> HIDE DEF F
    <3>1. QED
      BY <2>1, FS_Subset
  <2>3. {gap[e] : e \in F} = {W[e] - C[e] : e \in F}
    OBVIOUS
  <2>4. IsFiniteSet({gap[e] : e \in F})
    <3> HIDE DEF F, gap
    <3>1. QED
      BY <2>2, FiniteImage
  <2>5. IsFiniteSet({W[e] - C[e] : e \in F})
    BY <2>3, <2>4
  <2>6. IsFiniteSet(S)
    <3>1. IsFiniteSet({0})
      BY FS_Singleton
    <3>2. QED
      BY <2>5, <3>1, FS_Union
  <2>7. S \subseteq Int
    <3>1. \A e \in D : W[e] - C[e] \in Int
      BY <1>11
    <3>2. \A s \in S : s = 0 \/ \E e \in D : s = W[e] - C[e]
      OBVIOUS
    <3>3. QED
      BY <3>1, <3>2
  <2>8. QED
    BY <2>6, <2>7
<1>13. \A s \in S : s <= U[k]
  <2>1. 0 <= U[k] /\ U[k] \in Nat
    BY <1>9
  <2>2. ASSUME NEW e \in D, e <= d
        PROVE  W[e] - C[e] <= U[k]
    <3>1. PICK l \in 0 .. count : Places(count, day, e, l) /\ W[e] = X[l]
      BY DEF UpToDay
    <3>2. CASE l = 0
      BY <1>11, <2>1, <3>1, <3>2
    <3>3. CASE l # 0
      <4>1. l \in 1 .. count /\ day[l] \in D /\ day[l] <= e
        BY <3>1, <3>3 DEF InTime, Places
      <4>2. day[l] \in Nat /\ e \in Nat /\ d \in Nat
        BY <4>1
      <4>3. l <= k
        BY <2>2, <4>1, <4>2 DEF Places
      <4>4. C[day[l]] <= C[e] /\ C[day[l]] \in Nat
        BY <4>1 DEF Income
      <4>5. M[l] <= C[day[l]] /\ M[l] \in Nat /\ X[l] \in Nat
        BY <1>1, <1>2, <1>5, <4>1
      <4>6. U[l] = X[l] - M[l] /\ U[l] <= U[k] /\ U[l] \in Nat
        BY <1>6, <1>9, <1>10, <4>3 DEF Rising
      <4>7. PICK u \in Nat : u = U[k]
        BY <2>1
      <4>8. QED
        BY <1>11, <3>1, <4>4, <4>5, <4>6, <4>7
    <3>4. QED
      BY <3>2, <3>3
  <2>3. QED
    BY <2>1, <2>2
<1>14. PICK most \in Int : most = Max(S) /\ most \in S /\ \A s \in S : most >= s
  <2>1. S # {}
    OBVIOUS
  <2> HIDE DEF S
  <2>2. Max(S) \in S /\ \A s \in S : Max(S) >= s
    BY <1>12, <2>1, GreatestNumber
  <2>3. QED
    BY <1>12, <2>2
<1>15. U[k] <= most
  <2> DEFINE good == {n \in Nat : n <= k => U[n] <= most}
  <2>1. 0 \in good
    <3>1. 0 \in S
      OBVIOUS
    <3>2. QED
      BY <1>7, <1>14, <3>1
  <2>2. ASSUME NEW n \in Nat, n \in good PROVE n + 1 \in good
    <3> SUFFICES ASSUME n + 1 <= k PROVE U[n + 1] <= most
      OBVIOUS
    <3>1. n + 1 \in 1 .. count /\ (n + 1) - 1 = n /\ n + 1 \in 0 .. count /\ n \in 0 .. count
          /\ n <= k
      OBVIOUS
    <3>2. PICK a \in Nat, b \in Nat, x \in Nat, y \in Nat, g \in Nat :
            a = M[n] /\ b = M[n + 1] /\ x = X[n] /\ y = X[n + 1] /\ g = gain[n + 1]
      BY <1>2, <1>3, <1>5, <3>1
    <3>3. y = x + g /\ U[n] = x - a /\ U[n + 1] = y - b /\ U[n] <= most
      BY <1>6, <2>2, <3>1, <3>2
    <3>4. b = a + g \/ b = C[day[n + 1]]
      BY <3>1, <3>2 DEF Paced
    <3>5. CASE b = a + g
      BY <3>3, <3>5
    <3>6. CASE b = C[day[n + 1]]
      <4>1. day[n + 1] \in D /\ day[n + 1] <= d
        BY <3>1 DEF InTime, Places
      <4>2. PICK e \in D : e = day[n + 1]
        BY <4>1
      <4>3. PICK l \in 0 .. count : Places(count, day, e, l) /\ W[e] = X[l]
        BY DEF UpToDay
      <4>4. n + 1 <= l
        <5>1. day[n + 1] <= e
          BY <4>2
        <5>2. QED
          BY <3>1, <4>3, <5>1 DEF Places
      <4>5. y <= W[e] /\ W[e] \in Nat /\ C[e] \in Nat
        BY <1>4, <1>11, <3>1, <3>2, <4>3, <4>4 DEF Rising
      <4>6. W[e] - C[e] \in S
        BY <4>1, <4>2
      <4>7. W[e] - C[e] <= most
        BY <1>14, <4>6
      <4>8. QED
        BY <3>3, <3>6, <4>2, <4>5, <4>7
    <3>7. QED
      BY <3>4, <3>5, <3>6
  <2>3. Nat \subseteq good
    <3> HIDE DEF good
    <3>1. QED
      BY <2>1, <2>2, SetInduction
  <2>4. k \in good
    BY <2>3
  <2>5. QED
    BY <2>4
<1>16. most = U[k]
  <2>1. most <= U[k] /\ U[k] \in Nat
    BY <1>9, <1>13, <1>14
  <2>2. QED
    BY <1>15, <2>1
<1>17. W[d] = X[k]
  <2>1. PICK l \in 0 .. count : Places(count, day, d, l) /\ W[d] = X[l]
    BY DEF UpToDay
  <2>2. l = k
    <3>1. ~ (l < k)
      <4> SUFFICES ASSUME l < k PROVE FALSE
        OBVIOUS
      <4>1. k \in 1 .. count
        OBVIOUS
      <4>2. QED
        BY <2>1, <4>1 DEF Places
    <3>2. ~ (k < l)
      <4> SUFFICES ASSUME k < l PROVE FALSE
        OBVIOUS
      <4>1. l \in 1 .. count
        OBVIOUS
      <4>2. QED
        BY <2>1, <4>1 DEF Places
    <3>3. QED
      BY <3>1, <3>2
  <2>3. QED
    BY <2>1, <2>2
<1>18. QED
  BY <1>2, <1>5, <1>6, <1>9, <1>14, <1>16, <1>17 DEF MostMissing

\* What has been brought by the first places, and what some rows bring by a day.
BroughtFirst(gain, count) == [n \in 0 .. count |-> Sum(gain, 1 .. n)]
BroughtBy(rows, places, D) ==
  [d \in D |-> Sum(Amounts(rows), {i \in places : rows[i].day <= d})]

LEMMA BroughtSoFar ==
  ASSUME NEW count \in Nat, NEW gain, \A n \in 1 .. count : gain[n] \in Nat,
         NEW Q, Q = BroughtFirst(gain, count)
  PROVE  /\ Q[0] = 0 /\ \A n \in 1 .. count : Q[n] = Q[n - 1] + gain[n]
         /\ \A n \in 0 .. count : Q[n] = Sum(gain, 1 .. n)
         /\ Rising(count, Q)
<1>1. \A n \in 0 .. count : Q[n] = Sum(gain, 1 .. n)
  BY DEF BroughtFirst
<1>2. Q[0] = 0
  <2>1. 0 \in 0 .. count /\ 1 .. 0 = {}
    OBVIOUS
  <2>2. QED
    BY <1>1, <2>1, SumOfNone
<1>3. ASSUME NEW n \in 1 .. count
      PROVE  Q[n] = Q[n - 1] + gain[n]
  <2>1. PICK m \in Nat : m = n - 1
    OBVIOUS
  <2>2. n = m + 1 /\ m \in 0 .. count /\ n \in 0 .. count /\ \A i \in 1 .. m : gain[i] \in Int
    BY <2>1
  <2>3. gain[m + 1] \in Int
    BY <2>2
  <2>4. Sum(gain, 1 .. (m + 1)) = Sum(gain, 1 .. m) + gain[m + 1]
    BY <2>2, <2>3, SumAppended
  <2>5. QED
    BY <1>1, <2>1, <2>2, <2>4
<1> DEFINE good == {n \in Nat : n <= count => Q[n] \in Nat}
<1>4. 0 \in good
  BY <1>2
<1>5. ASSUME NEW n \in Nat, n \in good
      PROVE  n + 1 \in good
  <2> SUFFICES ASSUME n + 1 <= count PROVE Q[n + 1] \in Nat
    OBVIOUS
  <2>1. n + 1 \in 1 .. count /\ (n + 1) - 1 = n
    OBVIOUS
  <2>2. Q[n + 1] = Q[n] + gain[n + 1] /\ gain[n + 1] \in Nat /\ Q[n] \in Nat
    BY <1>3, <1>5, <2>1
  <2>3. QED
    BY <2>2
<1>6. Nat \subseteq good
  <2> HIDE DEF good
  <2>1. QED
    BY <1>4, <1>5, SetInduction
<1>7. \A n \in 0 .. count : Q[n] \in Nat
  BY <1>6
<1>8. \A n \in 1 .. count : Q[n - 1] <= Q[n]
  <2> SUFFICES ASSUME NEW n \in 1 .. count PROVE Q[n - 1] <= Q[n]
    OBVIOUS
  <2>1. n \in 0 .. count /\ n - 1 \in 0 .. count
    OBVIOUS
  <2>2. Q[n] = Q[n - 1] + gain[n] /\ gain[n] \in Nat /\ Q[n - 1] \in Nat /\ Q[n] \in Nat
    BY <1>3, <1>7, <2>1
  <2>3. QED
    BY <2>2
<1>9. Rising(count, Q)
  BY <1>7, <1>8, RisingByStep
<1>10. QED
  BY <1>1, <1>2, <1>3, <1>9

\* Some of the places bring what some rows hold, on the days of these, and no other
\* place brings anything.
Brings(count, day, gain, T, name, rows, places) ==
  /\ T \in SUBSET (1 .. count) /\ places \in SUBSET DOMAIN rows
  /\ Renames(T, name, places)
  /\ \A n \in T : gain[n] = rows[name[n]].amount /\ day[n] = rows[name[n]].day
  /\ \A n \in (1 .. count) \ T : gain[n] = 0

LEMMA BroughtByDay ==
  ASSUME NEW R, Transfers(R), NEW rows \in Seq(R), NEW count \in Nat, NEW D \in SUBSET Nat,
         NEW day, InTime(count, day, D), NEW gain, \A n \in 1 .. count : gain[n] \in Nat,
         NEW T, NEW name, NEW places, Brings(count, day, gain, T, name, rows, places)
  PROVE  UpToDay(count, day, D, BroughtFirst(gain, count), BroughtBy(rows, places, D))
<1> SUFFICES ASSUME NEW d \in D
             PROVE  \E k \in 0 .. count : /\ Places(count, day, d, k)
                                          /\ BroughtBy(rows, places, D)[d]
                                               = BroughtFirst(gain, count)[k]
  BY DEF UpToDay
<1>1. PICK k \in 0 .. count : Places(count, day, d, k)
  BY PlacesOfDay
<1> DEFINE f == Amounts(rows)
           first == 1 .. k
           some == {n \in T : n <= k}
           chosen == {i \in places : rows[i].day <= d}
<1>2. T \in SUBSET (1 .. count) /\ places \in SUBSET DOMAIN rows
  BY DEF Brings
<1>3. /\ \A n \in T : name[n] \in places
      /\ \A m, n \in T : name[m] = name[n] => m = n
      /\ \A i \in places : \E n \in T : name[n] = i
  BY DEF Brings, Renames
<1>4. some \in SUBSET first /\ IsFiniteSet(first)
  <2>1. IsFiniteSet(first)
    BY FS_Interval
  <2>2. \A n \in T : n \in 1 .. count
    BY <1>2
  <2>3. \A n \in some : n \in first
    BY <2>2
  <2>4. QED
    BY <2>1, <2>3
<1>5. \A n \in T : n \in 1 .. count /\ (day[n] <= d <=> n <= k)
  BY <1>1, <1>2 DEF Places
<1>6. \A n \in T : gain[n] = rows[name[n]].amount /\ day[n] = rows[name[n]].day
  BY DEF Brings
<1>7. Renames(some, name, chosen)
  <2>1. \A n \in some : name[n] \in chosen
    BY <1>3, <1>5, <1>6
  <2>2. \A i \in chosen : \E n \in some : name[n] = i
    <3> SUFFICES ASSUME NEW i \in chosen PROVE \E n \in some : name[n] = i
      OBVIOUS
    <3>1. PICK n \in T : name[n] = i
      BY <1>3
    <3>2. day[n] <= d
      BY <1>6, <3>1
    <3>3. QED
      BY <1>5, <3>1, <3>2
  <2>3. \A m, n \in some : name[m] = name[n] => m = n
    BY <1>3
  <2>4. QED
    BY <2>1, <2>2, <2>3 DEF Renames
<1>8. \A n \in some : f[name[n]] = gain[n]
  <2>1. \A i \in DOMAIN rows : f[i] = rows[i].amount
    BY DEF Amounts
  <2>2. \A n \in some : n \in T /\ name[n] \in DOMAIN rows
    BY <1>2, <1>3
  <2>3. QED
    BY <1>6, <2>1, <2>2
<1>9. \A n \in first : gain[n] \in Int
  OBVIOUS
<1>10. \A n \in first \ some : gain[n] = 0
  <2>1. \A n \in first \ some : n \in (1 .. count) \ T
    OBVIOUS
  <2>2. QED
    BY <2>1 DEF Brings
<1> HIDE DEF f, first, some, chosen
<1>11. IsFiniteSet(some) /\ IsFiniteSet(first \ some) /\ \A n \in some : gain[n] \in Int
  BY <1>4, <1>9, FS_Subset
<1>12. Sum(gain, some) = Sum(f, chosen)
  BY <1>7, <1>8, <1>11, SumRenamed
<1>13. Sum(gain, first) = Sum(gain, first \ some) + Sum(gain, some)
  BY <1>4, <1>9, SumSplit
<1>14. Sum(gain, first \ some) = 0 /\ Sum(gain, some) \in Int
  <2>1. Sum(gain, first \ some) = 0
    BY <1>10, <1>11, SumOfNothing
  <2>2. Sum(gain, some) \in Int
    BY <1>11, SumIsNumber
  <2>3. QED
    BY <2>1, <2>2
<1>15. Sum(gain, first) = Sum(f, chosen)
  BY <1>12, <1>13, <1>14
<1>16. BroughtBy(rows, places, D)[d] = Sum(f, chosen)
  BY DEF BroughtBy, f, chosen
<1>17. BroughtFirst(gain, count)[k] = Sum(gain, first)
  BY DEF BroughtFirst, first
<1>18. QED
  BY <1>1, <1>15, <1>16, <1>17

-----------------------------------------------------------------------------
(* The matching of an account, unit by unit.                               *)

FirstWith(D, at, n) == Min({d \in D : at[d] >= n})

\* What is matched by a day, and how long a unit stays.
MatchedUpTo(D, W, C) == [d \in D |-> W[d] - MostMissing(D, W, C, d)]
ArrivalDay(D, C) == [n \in Nat |-> FirstWith(D, C, n)]
HoldingDays(D, W, C) ==
  [n \in Nat |-> FirstWith(D, MatchedUpTo(D, W, C), n) - FirstWith(D, C, n)]

\* The matching so far: so much was asked for, and of the units that came in some are
\* matched and the others lie in lots.
MatchedSoFar(acc, A, H, asked, matched, came) ==
  /\ acc \in Matches /\ acc.observed = asked /\ acc.unmatched = asked - matched
  /\ ChunksCover(acc.chunks, H, 0, matched)
  /\ LotsCover(acc.lots, A, matched, came)

LEMMA PortionsOfLots == Portions(Lot)
  BY DEF Portions, Lot

LEMMA MatchIncoming ==
  ASSUME NEW acc, NEW A, NEW H, NEW asked \in Nat, NEW matched \in Nat, NEW came \in Nat,
         MatchedSoFar(acc, A, H, asked, matched, came),
         NEW e, e.dir = "in", e.day \in Nat, e.amount \in Nat \ {0},
         Valued(A, came, came + e.amount, e.day)
  PROVE  MatchedSoFar(MatchStep(acc, e), A, H, asked, matched, came + e.amount)
<1> DEFINE lot == [day |-> e.day, amount |-> e.amount]
           next == MatchStep(acc, e)
<1>1. /\ acc \in Matches /\ acc.observed = asked /\ acc.unmatched = asked - matched
      /\ ChunksCover(acc.chunks, H, 0, matched) /\ LotsCover(acc.lots, A, matched, came)
  BY DEF MatchedSoFar
<1>2. lot \in Lot /\ lot.amount = e.amount /\ lot.day = e.day
  BY DEF Lot
<1>3. acc.lots \in Seq(Lot)
  BY <1>1 DEF Matches
<1>4. next = [acc EXCEPT !.lots = Append(acc.lots, lot)]
  BY DEF MatchStep
<1>5. next \in Matches
  BY <1>1, MatchStepType
<1> HIDE DEF lot, next
<1>6. /\ next.lots = Append(acc.lots, lot) /\ next.chunks = acc.chunks
      /\ next.observed = acc.observed /\ next.unmatched = acc.unmatched
  BY <1>1, <1>4 DEF Matches
<1>7. LotsCover(Append(acc.lots, lot), A, matched, came + lot.amount)
  <2>1. Valued(A, came, came + lot.amount, lot.day) /\ lot.amount \in Nat \ {0}
    BY <1>2
  <2>2. LotsCover(acc.lots, A, matched, came)
    BY <1>1
  <2>3. QED
    BY <1>2, <1>3, <2>1, <2>2, LotAppended
<1>8. QED
  BY <1>1, <1>2, <1>5, <1>6, <1>7 DEF MatchedSoFar, next

LEMMA MatchOutgoing ==
  ASSUME NEW acc, NEW A, NEW H, NEW asked \in Nat, NEW matched \in Nat, NEW came \in Nat,
         MatchedSoFar(acc, A, H, asked, matched, came),
         NEW e, e.dir # "in", e.day \in Nat, e.amount \in Nat,
         NEW taken,
         taken = (IF e.amount < came - matched THEN e.amount ELSE came - matched),
         HeldUntil(e.day, A, H, matched, matched + taken)
  PROVE  MatchedSoFar(MatchStep(acc, e), A, H, asked + e.amount, matched + taken, came)
<1> DEFINE next == MatchStep(acc, e)
           d == Drain(acc.lots, e.day, e.amount)
<1>1. /\ acc \in Matches /\ acc.observed = asked /\ acc.unmatched = asked - matched
      /\ ChunksCover(acc.chunks, H, 0, matched) /\ LotsCover(acc.lots, A, matched, came)
  BY DEF MatchedSoFar
<1>2. acc.lots \in Seq(Lot) /\ acc.chunks \in Seq(Chunk)
  BY <1>1 DEF Matches
<1>3. PICK day \in Int, amount \in Nat : day = e.day /\ amount = e.amount
  OBVIOUS
<1>4. /\ d \in Drained(Lot) /\ taken \in Nat /\ d.left = amount - taken
      /\ ChunksCover(d.chunks, H, matched, matched + taken)
      /\ LotsCover(d.lots, A, matched + taken, came)
  <2>1. PICK lots \in Seq(Lot) : lots = acc.lots
    BY <1>2
  <2>2. LotsCover(lots, A, matched, came)
    BY <1>1, <2>1
  <2>3. taken = (IF amount < came - matched THEN amount ELSE came - matched)
    BY <1>3
  <2>4. HeldUntil(day, A, H, matched, matched + taken)
    BY <1>3
  <2>5. /\ taken \in Nat
        /\ DrainedTo(Drain(lots, day, amount), Lot, amount - taken, A, H, matched,
                     matched + taken, came)
    BY <2>2, <2>3, <2>4, LotsOfMatches, PortionsOfLots, DrainCovers
  <2>6. QED
    BY <1>3, <2>1, <2>5 DEF DrainedTo
<1>5. next = [lots |-> d.lots, chunks |-> acc.chunks \o d.chunks,
              observed |-> acc.observed + e.amount, unmatched |-> acc.unmatched + d.left]
  BY DEF MatchStep
<1>6. next \in Matches
  BY <1>1, MatchStepType
<1>7. d.chunks \in Seq(Chunk)
  BY <1>4 DEF Drained
<1> HIDE DEF next, d
<1>8. ChunksCover(acc.chunks \o d.chunks, H, 0, matched + taken)
  BY <1>1, <1>2, <1>4, <1>7, ChunksCoverJoined
<1>9. asked - matched + (e.amount - taken) = (asked + e.amount) - (matched + taken)
  BY <1>4
<1>10. QED
  BY <1>1, <1>3, <1>4, <1>5, <1>6, <1>8, <1>9 DEF MatchedSoFar, next

-----------------------------------------------------------------------------
(* The events of an account, one after the other.                          *)

EventDays(events) == [n \in DOMAIN events |-> events[n].day]
EventPlaces(events, dir) == {n \in DOMAIN events : events[n].dir = dir}
EventGains(events, dir) ==
  [n \in DOMAIN events |-> IF events[n].dir = dir THEN events[n].amount ELSE 0]
EventRows(events) == [n \in DOMAIN events |-> events[n].order]

\* What happens on a day comes in before it goes out.
ComesInFirst(count, events) ==
  \A m \in 1 .. count, n \in 1 .. count :
    m < n /\ events[m].day = events[n].day /\ events[m].dir # "in" => events[n].dir # "in"

LEMMA EventsTakeTurns ==
  ASSUME NEW R, Transfers(R), NEW rows \in Seq(R), NEW gid, NEW S, NEW events,
         S = Movements(rows, gid), InOrder(rows, gid, S, events),
         NEW D, \A i \in DOMAIN rows : rows[i].day \in D, NEW count, count = Cardinality(S)
  PROVE  /\ count \in Nat /\ DOMAIN events = 1 .. count
         /\ \A n \in 1 .. count : /\ events[n].day \in Nat /\ events[n].amount \in Nat
                                  /\ events[n].dir \in {"in", "out"}
         /\ InTime(count, EventDays(events), D)
         /\ ComesInFirst(count, events)
<1>1. /\ count \in Nat /\ DOMAIN events = 1 .. count
      /\ \A n \in DOMAIN events : events[n] \in S
      /\ \A m, n \in DOMAIN events : m < n <=> Precedes(events[m], events[n])
      /\ \A e \in S : /\ e.order \in DOMAIN rows /\ e.day \in Nat /\ e.amount \in Nat
                      /\ \/ e = Coming(rows, e.order) /\ rows[e.order].dst = gid
                         \/ e = Going(rows, e.order) /\ rows[e.order].src = gid
  BY DEF InOrder
<1>2. \A n \in 1 .. count : /\ events[n].day \in Nat /\ events[n].amount \in Nat
                            /\ events[n].dir \in {"in", "out"} /\ events[n].day \in D
  <2> SUFFICES ASSUME NEW n \in 1 .. count
               PROVE  /\ events[n].day \in Nat /\ events[n].amount \in Nat
                      /\ events[n].dir \in {"in", "out"} /\ events[n].day \in D
    OBVIOUS
  <2>1. PICK e \in S : e = events[n]
    BY <1>1
  <2>2. e.order \in DOMAIN rows /\ e.day \in Nat /\ e.amount \in Nat
    BY <1>1
  <2>3. e = Coming(rows, e.order) \/ e = Going(rows, e.order)
    BY <1>1
  <2>4. PICK i \in DOMAIN rows : i = e.order
    BY <2>2
  <2>5. e.dir \in {"in", "out"} /\ e.day = rows[i].day
    BY <2>3, <2>4 DEF Coming, Going
  <2>6. QED
    BY <2>1, <2>2, <2>4, <2>5
<1>3. \A m \in 1 .. count, n \in 1 .. count : m < n <=> Precedes(events[m], events[n])
  BY <1>1
<1>4. InTime(count, EventDays(events), D)
  <2>1. \A n \in 1 .. count : EventDays(events)[n] = events[n].day
    BY <1>1 DEF EventDays
  <2>2. ASSUME NEW m \in 1 .. count, NEW n \in 1 .. count, m <= n
        PROVE  events[m].day <= events[n].day
    <3>1. events[m].day \in Nat /\ events[n].day \in Nat
      BY <1>2
    <3>2. CASE m = n
      BY <3>1, <3>2
    <3>3. CASE m < n
      BY <1>3, <3>1, <3>3 DEF Precedes
    <3>4. QED
      BY <2>2, <3>2, <3>3
  <2>3. QED
    BY <1>2, <2>1, <2>2 DEF InTime
<1>5. ComesInFirst(count, events)
  <2> SUFFICES ASSUME NEW m \in 1 .. count, NEW n \in 1 .. count, m < n,
                      events[m].day = events[n].day, events[m].dir # "in"
               PROVE  events[n].dir # "in"
    BY DEF ComesInFirst
  <2>1. Precedes(events[m], events[n]) /\ events[m].day \in Nat
    BY <1>2, <1>3
  <2>2. QED
    BY <2>1 DEF Precedes
<1>6. QED
  BY <1>1, <1>2, <1>4, <1>5

LEMMA EventsBring ==
  ASSUME NEW R, Transfers(R), NEW rows \in Seq(R), NEW gid, NEW S, NEW events,
         S = Movements(rows, gid), InOrder(rows, gid, S, events), NEW count, count = Cardinality(S)
  PROVE  /\ Brings(count, EventDays(events), EventGains(events, "in"), EventPlaces(events, "in"),
                   EventRows(events), rows, Into(rows, gid))
         /\ Brings(count, EventDays(events), EventGains(events, "out"), EventPlaces(events, "out"),
                   EventRows(events), rows, OutOf(rows, gid))
<1> DEFINE E == DOMAIN events
           day == EventDays(events)
           name == EventRows(events)
           gin == EventGains(events, "in")
           gout == EventGains(events, "out")
           ins == EventPlaces(events, "in")
           outs == EventPlaces(events, "out")
<1>1. /\ E = 1 .. count
      /\ \A n \in E : events[n] \in S
      /\ \A e \in S : \E n \in E : events[n] = e
      /\ \A m, n \in E : events[m] = events[n] => m = n
      /\ \A e \in S : /\ e.order \in DOMAIN rows
                      /\ \/ e = Coming(rows, e.order) /\ rows[e.order].dst = gid
                         \/ e = Going(rows, e.order) /\ rows[e.order].src = gid
  BY DEF InOrder
<1>2. DOMAIN rows = Times(rows) /\ DOMAIN rows = 1 .. Len(rows)
  BY TableDomain DEF Times
<1>3. ASSUME NEW n \in E
      PROVE  /\ events[n].order \in DOMAIN rows
             /\ events[n].day = rows[events[n].order].day
             /\ events[n].amount = rows[events[n].order].amount
             /\ \/ /\ events[n].dir = "in" /\ rows[events[n].order].dst = gid
                   /\ events[n] = Coming(rows, events[n].order)
                \/ /\ events[n].dir = "out" /\ rows[events[n].order].src = gid
                   /\ events[n] = Going(rows, events[n].order)
  <2>1. PICK e \in S : e = events[n]
    BY <1>1
  <2>2. e.order \in DOMAIN rows
    BY <1>1
  <2>3. \/ e = Coming(rows, e.order) /\ rows[e.order].dst = gid
        \/ e = Going(rows, e.order) /\ rows[e.order].src = gid
    BY <1>1
  <2>4. PICK i \in DOMAIN rows : i = e.order
    BY <2>2
  <2>5. CASE e = Coming(rows, i) /\ rows[i].dst = gid
    <3>1. e.dir = "in" /\ e.day = rows[i].day /\ e.amount = rows[i].amount
      BY <2>5 DEF Coming
    <3>2. QED
      BY <2>1, <2>4, <2>5, <3>1, Zenon
  <2>6. CASE e = Going(rows, i) /\ rows[i].src = gid
    <3>1. e.dir = "out" /\ e.day = rows[i].day /\ e.amount = rows[i].amount
      BY <2>6 DEF Going
    <3>2. QED
      BY <2>1, <2>4, <2>6, <3>1, Zenon
  <2>7. QED
    BY <2>3, <2>4, <2>5, <2>6
<1>4. \A i \in Into(rows, gid) : \E n \in ins : name[n] = i
  <2> SUFFICES ASSUME NEW i \in Into(rows, gid) PROVE \E n \in ins : name[n] = i
    OBVIOUS
  <2>1. PICK e : e = Coming(rows, i)
    OBVIOUS
  <2>2. e \in S
    BY <2>1 DEF Movements, Coming
  <2>3. PICK n \in E : events[n] = e
    BY <1>1, <2>2
  <2>4. events[n].dir = "in" /\ events[n].order = i
    BY <2>1, <2>3 DEF Coming
  <2>5. QED
    BY <2>4 DEF EventPlaces, EventRows
<1>5. \A i \in OutOf(rows, gid) : \E n \in outs : name[n] = i
  <2> SUFFICES ASSUME NEW i \in OutOf(rows, gid) PROVE \E n \in outs : name[n] = i
    OBVIOUS
  <2>1. PICK e : e = Going(rows, i)
    OBVIOUS
  <2>2. e \in S
    BY <2>1 DEF Movements, Going
  <2>3. PICK n \in E : events[n] = e
    BY <1>1, <2>2
  <2>4. events[n].dir = "out" /\ events[n].order = i
    BY <2>1, <2>3 DEF Going
  <2>5. QED
    BY <2>4 DEF EventPlaces, EventRows
<1>6. /\ \A n \in ins : n \in E /\ events[n].dir = "in" /\ gin[n] = events[n].amount
      /\ \A n \in outs : n \in E /\ events[n].dir = "out" /\ gout[n] = events[n].amount
      /\ \A n \in E \ ins : gin[n] = 0
      /\ \A n \in E \ outs : gout[n] = 0
      /\ \A n \in E : day[n] = events[n].day /\ name[n] = events[n].order
      /\ ins \subseteq E /\ outs \subseteq E
  BY DEF EventPlaces, EventGains, EventDays, EventRows
<1>7. /\ \A n \in ins : name[n] \in Into(rows, gid)
      /\ \A n \in outs : name[n] \in OutOf(rows, gid)
  <2>1. \A n \in ins : name[n] \in DOMAIN rows /\ rows[name[n]].dst = gid
    BY <1>3, <1>6
  <2>2. \A n \in outs : name[n] \in DOMAIN rows /\ rows[name[n]].src = gid
    BY <1>3, <1>6
  <2>3. QED
    BY <1>2, <2>1, <2>2 DEF Into, OutOf
<1>8. ASSUME NEW m \in E, NEW n \in E, name[m] = name[n], events[m].dir = events[n].dir
      PROVE  m = n
  <2>1. PICK i \in DOMAIN rows : i = name[m]
    BY <1>3, <1>6
  <2>2. events[m].order = i /\ events[n].order = i
    BY <1>6, <1>8, <2>1
  <2>3. events[m] = events[n]
    BY <1>3, <1>8, <2>2
  <2>4. QED
    BY <1>1, <2>3
<1>9. Renames(ins, name, Into(rows, gid)) /\ Renames(outs, name, OutOf(rows, gid))
  <2>1. \A m, n \in ins : name[m] = name[n] => m = n
    BY <1>6, <1>8
  <2>2. \A m, n \in outs : name[m] = name[n] => m = n
    BY <1>6, <1>8
  <2> HIDE DEF ins, outs, name
  <2>3. QED
    BY <1>4, <1>5, <1>7, <2>1, <2>2 DEF Renames
<1>10. /\ \A n \in ins : gin[n] = rows[name[n]].amount /\ day[n] = rows[name[n]].day
       /\ \A n \in outs : gout[n] = rows[name[n]].amount /\ day[n] = rows[name[n]].day
  BY <1>3, <1>6
<1>11. Into(rows, gid) \in SUBSET DOMAIN rows /\ OutOf(rows, gid) \in SUBSET DOMAIN rows
  BY <1>2 DEF Into, OutOf
<1> HIDE DEF ins, outs, name, gin, gout, day, E
<1>12. QED
  BY <1>1, <1>6, <1>9, <1>10, <1>11 DEF Brings, ins, outs, name, gin, gout, day

\* Nothing is brought between two places that bring nothing.
Idle(j, k, gain) == \A n \in (j + 1) .. k : gain[n] = 0

LEMMA NothingBroughtAfter ==
  ASSUME NEW count \in Nat, NEW Q, NEW gain, \A n \in 0 .. count : Q[n] \in Nat,
         Adds(count, Q, gain),
         NEW j \in 0 .. count, NEW k \in 0 .. count, j <= k, Idle(j, k, gain)
  PROVE  Q[k] = Q[j]
<1> USE DEF Adds, Idle
<1> DEFINE good == {n \in Nat : j + n <= k => Q[j + n] = Q[j]}
<1>1. 0 \in good
  OBVIOUS
<1>2. ASSUME NEW n \in Nat, n \in good
      PROVE  n + 1 \in good
  <2> SUFFICES ASSUME j + n + 1 <= k PROVE Q[j + n + 1] = Q[j]
    OBVIOUS
  <2>1. PICK m \in Nat : m = j + n + 1
    OBVIOUS
  <2>2. m \in 1 .. count /\ m \in (j + 1) .. k /\ m - 1 = j + n /\ m - 1 \in 0 .. count
    BY <2>1
  <2>3. Q[m - 1] = Q[j] /\ Q[m - 1] \in Nat
    BY <1>2, <2>2
  <2>4. Q[m] = Q[m - 1] + gain[m] /\ gain[m] = 0
    BY <2>2
  <2>5. QED
    BY <2>1, <2>3, <2>4
<1>3. Nat \subseteq good
  <2> HIDE DEF good
  <2>1. QED
    BY <1>1, <1>2, SetInduction
<1>4. k - j \in Nat /\ j + (k - j) = k
  OBVIOUS
<1>5. k - j \in good
  BY <1>3, <1>4
<1>6. QED
  BY <1>4, <1>5

\* By the last day all has come.
Latest(D, last) == last \in D /\ \A d \in D : d <= last

LEMMA LastDayBrings ==
  ASSUME NEW count \in Nat, NEW D, NEW day, InTime(count, day, D),
         NEW Q, NEW at, UpToDay(count, day, D, Q, at), NEW last, Latest(D, last)
  PROVE  at[last] = Q[count]
<1>1. /\ last \in D /\ \A d \in D : d <= last
      /\ \A n \in 1 .. count : day[n] \in D
  BY DEF InTime, Latest
<1>2. PICK k \in 0 .. count : Places(count, day, last, k) /\ at[last] = Q[k]
  BY <1>1 DEF UpToDay
<1>3. k = count
  <2> SUFFICES ASSUME k + 1 \in 1 .. count PROVE FALSE
    OBVIOUS
  <2>1. day[k + 1] <= last
    BY <1>1
  <2>2. k + 1 <= k
    BY <1>2, <2>1 DEF Places
  <2>3. QED
    BY <2>2
<1>4. QED
  BY <1>2, <1>3

\* What has come in by a day grows with the days.
LEMMA DaysIncome ==
  ASSUME NEW count \in Nat, NEW D \in SUBSET Nat, NEW day, InTime(count, day, D),
         NEW Q, Rising(count, Q), NEW at, UpToDay(count, day, D, Q, at)
  PROVE  Income(D, at)
<1>1. \A n \in 1 .. count : day[n] \in D
  BY DEF InTime
<1>2. \A i \in 0 .. count : Q[i] \in Nat
  BY DEF Rising
<1>3. \A d \in D : at[d] \in Nat
  <2> SUFFICES ASSUME NEW d \in D PROVE at[d] \in Nat
    OBVIOUS
  <2>1. PICK k \in 0 .. count : at[d] = Q[k]
    BY DEF UpToDay
  <2>2. QED
    BY <1>2, <2>1
<1>4. ASSUME NEW d \in D, NEW e \in D, d <= e
      PROVE  at[d] <= at[e]
  <2>1. PICK k \in 0 .. count : Places(count, day, d, k) /\ at[d] = Q[k]
    BY DEF UpToDay
  <2>2. PICK m \in 0 .. count : Places(count, day, e, m) /\ at[e] = Q[m]
    BY DEF UpToDay
  <2>3. k <= m
    <3> SUFFICES ASSUME k # 0 PROVE k <= m
      OBVIOUS
    <3>1. k \in 1 .. count /\ day[k] \in Nat
      <4>1. k \in 1 .. count
        OBVIOUS
      <4>2. QED
        BY <1>1, <4>1
    <3>2. day[k] <= d
      BY <2>1, <3>1 DEF Places
    <3>3. day[k] <= e
      BY <1>4, <3>1, <3>2
    <3>4. QED
      BY <2>2, <3>1, <3>3 DEF Places
  <2>4. QED
    BY <2>1, <2>2, <2>3 DEF Rising
<1>5. QED
  BY <1>3, <1>4 DEF Income

\* The units that an event brings arrive on its day, and those it takes leave on it.
Arrives(count, day, Q, A) ==
  \A n \in 1 .. count : Valued(A, Q[n - 1], Q[n], day[n])
Leaves(count, day, M, A, H) ==
  \A n \in 1 .. count : HeldUntil(day[n], A, H, M[n - 1], M[n])

LEMMA UnitsArrive ==
  ASSUME NEW count \in Nat, NEW D \in SUBSET Nat, IsFiniteSet(D), NEW day,
         InTime(count, day, D), NEW Q, Rising(count, Q), NEW C, UpToDay(count, day, D, Q, C),
         NEW A, A = ArrivalDay(D, C)
  PROVE  Arrives(count, day, Q, A)
<1> SUFFICES ASSUME NEW j \in 1 .. count, NEW n \in (Q[j - 1] + 1) .. Q[j]
             PROVE  A[n] = day[j]
  BY DEF Arrives, Valued
<1>1. j \in 0 .. count /\ j - 1 \in 0 .. count
  OBVIOUS
<1>2. Q[j - 1] \in Nat /\ Q[j] \in Nat
  BY <1>1 DEF Rising
<1>3. n \in Nat /\ Q[j - 1] < n /\ n <= Q[j]
  BY <1>2
<1>4. Min({d \in D : C[d] >= n}) = day[j]
  BY <1>3, FirstDayOf
<1>5. A[n] = Min({d \in D : C[d] >= n})
  BY <1>3 DEF ArrivalDay, FirstWith
<1>6. QED
  BY <1>4, <1>5

LEMMA UnitsLeave ==
  ASSUME NEW count \in Nat, NEW D \in SUBSET Nat, IsFiniteSet(D), NEW day,
         InTime(count, day, D), NEW W, NEW C,
         NEW M, Rising(count, M), UpToDay(count, day, D, M, MatchedUpTo(D, W, C)),
         NEW A, A = ArrivalDay(D, C), NEW H, H = HoldingDays(D, W, C)
  PROVE  Leaves(count, day, M, A, H)
<1> SUFFICES ASSUME NEW j \in 1 .. count, NEW n \in (M[j - 1] + 1) .. M[j]
             PROVE  H[n] = day[j] - A[n]
  BY DEF Leaves, HeldUntil
<1>1. j \in 0 .. count /\ j - 1 \in 0 .. count
  OBVIOUS
<1>2. M[j - 1] \in Nat /\ M[j] \in Nat
  BY <1>1 DEF Rising
<1>3. n \in Nat /\ M[j - 1] < n /\ n <= M[j]
  BY <1>2
<1>4. PICK at : at = MatchedUpTo(D, W, C)
  OBVIOUS
<1>5. UpToDay(count, day, D, M, at)
  BY <1>4
<1>6. Min({d \in D : at[d] >= n}) = day[j]
  BY <1>3, <1>5, FirstDayOf
<1>7. H[n] = FirstWith(D, MatchedUpTo(D, W, C), n) - FirstWith(D, C, n)
  BY <1>3 DEF HoldingDays
<1>8. A[n] = FirstWith(D, C, n)
  BY <1>3 DEF ArrivalDay
<1>9. FirstWith(D, MatchedUpTo(D, W, C), n) = Min({d \in D : at[d] >= n})
  BY <1>4 DEF FirstWith
<1>10. QED
  BY <1>6, <1>7, <1>8, <1>9

\* What is matched place by place is, by the end of each day, all but the missing.
Pacing(count, D, day, C, gain, X, W, M) ==
  /\ count \in Nat /\ InTime(count, day, D) /\ Income(D, C)
  /\ \A n \in 1 .. count : gain[n] \in Nat
  /\ X[0] = 0 /\ Adds(count, X, gain) /\ UpToDay(count, day, D, X, W)
  /\ Paced(count, day, gain, C, M)

LEMMA PacedByDay ==
  ASSUME NEW D \in SUBSET Nat, IsFiniteSet(D), NEW count, NEW day, NEW C, NEW gain,
         NEW X, NEW W, NEW M, Pacing(count, D, day, C, gain, X, W, M)
  PROVE  UpToDay(count, day, D, M, MatchedUpTo(D, W, C))
<1> USE DEF Pacing
<1> SUFFICES ASSUME NEW d \in D
             PROVE  \E k \in 0 .. count : /\ Places(count, day, d, k)
                                          /\ MatchedUpTo(D, W, C)[d] = M[k]
  BY DEF UpToDay
<1>1. PICK k \in 0 .. count : Places(count, day, d, k)
  BY DEF UpToDay
<1>2. /\ W[d] = X[k] /\ MostMissing(D, W, C, d) = X[k] - M[k]
      /\ M[k] \in Nat /\ X[k] \in Nat
  BY <1>1, Departures
<1>3. MatchedUpTo(D, W, C)[d] = W[d] - MostMissing(D, W, C, d)
  BY DEF MatchedUpTo
<1>4. QED
  BY <1>1, <1>2, <1>3

\* What is known of an account's events before they are matched.
EventsTold(count, events, D, W, C, Q, X, M) ==
  /\ InTime(count, EventDays(events), D)
  /\ Rising(count, Q) /\ UpToDay(count, EventDays(events), D, Q, C)
  /\ Rising(count, X) /\ UpToDay(count, EventDays(events), D, X, W)
  /\ Rising(count, M) /\ UpToDay(count, EventDays(events), D, M, MatchedUpTo(D, W, C))
  /\ \A n \in 1 .. count : events[n].day \in Nat /\ events[n].amount \in Nat \ {0}
  /\ \A n \in 1 .. count : events[n].dir = "in" =>
       /\ Q[n] = Q[n - 1] + events[n].amount /\ X[n] = X[n - 1] /\ M[n] = M[n - 1]
  /\ \A n \in 1 .. count : events[n].dir # "in" =>
       /\ Q[n] = Q[n - 1] /\ X[n] = X[n - 1] + events[n].amount
       /\ M[n] = IF M[n - 1] + events[n].amount < Q[n - 1] THEN M[n - 1] + events[n].amount
                 ELSE Q[n - 1]
       /\ M[n - 1] <= Q[n - 1]

LEMMA EventsAreTold ==
  ASSUME NEW R, Transfers(R), \A r \in R : r.amount # 0, NEW rows \in Seq(R), NEW gid,
         NEW S, NEW events, S = Movements(rows, gid), InOrder(rows, gid, S, events),
         NEW D \in SUBSET Nat, IsFiniteSet(D), \A i \in DOMAIN rows : rows[i].day \in D,
         NEW last, Latest(D, last),
         NEW C, C = BroughtBy(rows, Into(rows, gid), D),
         NEW W, W = BroughtBy(rows, OutOf(rows, gid), D),
         NEW count, count = Cardinality(S)
  PROVE  \E Q, X, M : /\ EventsTold(count, events, D, W, C, Q, X, M)
                      /\ Q[0] = 0 /\ X[0] = 0 /\ M[0] = 0
<1> DEFINE day == EventDays(events)
           gin == EventGains(events, "in")
           gout == EventGains(events, "out")
           Q == BroughtFirst(gin, count)
           X == BroughtFirst(gout, count)
<1>1. /\ count \in Nat /\ DOMAIN events = 1 .. count
      /\ \A n \in 1 .. count : /\ events[n].day \in Nat /\ events[n].amount \in Nat
                               /\ events[n].dir \in {"in", "out"}
      /\ InTime(count, day, D) /\ ComesInFirst(count, events)
  BY EventsTakeTurns, SMTT(30)
<1>2. /\ \A n \in 1 .. count : day[n] = events[n].day
      /\ \A n \in 1 .. count : events[n].dir = "in" => gin[n] = events[n].amount /\ gout[n] = 0
      /\ \A n \in 1 .. count : events[n].dir # "in" => gin[n] = 0 /\ gout[n] = events[n].amount
      /\ \A n \in 1 .. count : gin[n] \in Nat /\ gout[n] \in Nat
  BY <1>1 DEF EventDays, EventGains
<1>3. \A n \in 1 .. count : events[n].amount \in Nat \ {0}
  <2> SUFFICES ASSUME NEW n \in 1 .. count PROVE events[n].amount # 0
    BY <1>1
  <2>1. events[n] \in S
    BY <1>1 DEF InOrder
  <2>2. PICK e \in S : e = events[n]
    BY <2>1
  <2>3. /\ e.order \in DOMAIN rows
        /\ e = Coming(rows, e.order) \/ e = Going(rows, e.order)
    BY DEF InOrder
  <2>4. PICK i \in DOMAIN rows : i = e.order
    BY <2>3
  <2>5. e.amount = rows[i].amount
    BY <2>3, <2>4 DEF Coming, Going
  <2>6. rows[i] \in R
    BY TableDomain
  <2>7. QED
    BY <2>2, <2>5, <2>6
<1>4. PICK ins, outs, name :
        /\ Brings(count, day, gin, ins, name, rows, Into(rows, gid))
        /\ Brings(count, day, gout, outs, name, rows, OutOf(rows, gid))
  BY EventsBring
<1> HIDE DEF day, gin, gout
<1>5. /\ Q[0] = 0 /\ \A n \in 1 .. count : Q[n] = Q[n - 1] + gin[n]
      /\ Rising(count, Q)
  BY <1>1, <1>2, BroughtSoFar
<1>6. /\ X[0] = 0 /\ \A n \in 1 .. count : X[n] = X[n - 1] + gout[n]
      /\ Rising(count, X)
  BY <1>1, <1>2, BroughtSoFar
<1>7. UpToDay(count, day, D, Q, C)
  <2>1. PICK places : places = Into(rows, gid)
    OBVIOUS
  <2>2. Brings(count, day, gin, ins, name, rows, places)
    BY <1>4, <2>1
  <2>3. UpToDay(count, day, D, BroughtFirst(gin, count), BroughtBy(rows, places, D))
    BY <1>1, <1>2, <2>2, BroughtByDay
  <2>4. QED
    BY <2>1, <2>3
<1>8. UpToDay(count, day, D, X, W)
  <2>1. PICK places : places = OutOf(rows, gid)
    OBVIOUS
  <2>2. Brings(count, day, gout, outs, name, rows, places)
    BY <1>4, <2>1
  <2>3. UpToDay(count, day, D, BroughtFirst(gout, count), BroughtBy(rows, places, D))
    BY <1>1, <1>2, <2>2, BroughtByDay
  <2>4. QED
    BY <2>1, <2>3
<1> HIDE DEF Q, X
<1>9. Income(D, C)
  BY <1>1, <1>5, <1>7, DaysIncome
<1>10. PICK M : Paced(count, day, gout, C, M)
  BY <1>1, <1>2, <1>9, PacedExists
<1>11. /\ Rising(count, M)
       /\ \A n \in 1 .. count : M[n - 1] <= C[day[n]]
  BY <1>1, <1>2, <1>9, <1>10, PacedFacts
<1>12. UpToDay(count, day, D, M, MatchedUpTo(D, W, C))
  <2>1. count \in Nat /\ InTime(count, day, D)
    BY <1>1
  <2>2. \A n \in 1 .. count : gout[n] \in Nat
    BY <1>2
  <2>3. X[0] = 0 /\ Adds(count, X, gout)
    BY <1>6 DEF Adds
  <2>4. QED
    <3>1. Pacing(count, D, day, C, gout, X, W, M)
      BY <1>8, <1>9, <1>10, <2>1, <2>2, <2>3 DEF Pacing
    <3>2. QED
      BY <3>1, PacedByDay
<1>13. \A n \in 0 .. count : Q[n] \in Nat /\ X[n] \in Nat /\ M[n] \in Nat
  BY <1>5, <1>6, <1>11 DEF Rising
<1>14. ASSUME NEW n \in 1 .. count
       PROVE  /\ M[n] = IF M[n - 1] + gout[n] < C[day[n]] THEN M[n - 1] + gout[n] ELSE C[day[n]]
              /\ M[n - 1] <= C[day[n]] /\ C[day[n]] \in Nat
  <2>1. day[n] \in D
    BY <1>1 DEF InTime
  <2>2. QED
    BY <1>9, <1>10, <1>11, <2>1 DEF Paced, Income
<1>15. ASSUME NEW n \in 1 .. count, events[n].dir = "in"
       PROVE  Q[n] = Q[n - 1] + events[n].amount /\ X[n] = X[n - 1] /\ M[n] = M[n - 1]
  <2>1. n - 1 \in 0 .. count
    BY <1>1
  <2>2. M[n - 1] \in Nat /\ X[n - 1] \in Nat
    BY <1>13, <2>1
  <2>3. gout[n] = 0 /\ gin[n] = events[n].amount
    BY <1>2, <1>15
  <2>4. X[n] = X[n - 1] + 0 /\ Q[n] = Q[n - 1] + events[n].amount
    BY <1>5, <1>6, <2>3
  <2>5. M[n] = M[n - 1]
    BY <1>14, <2>2, <2>3
  <2>6. QED
    BY <2>2, <2>4, <2>5
<1>16. ASSUME NEW n \in 1 .. count, events[n].dir # "in"
       PROVE  C[day[n]] = Q[n - 1] /\ Q[n] = Q[n - 1]
  <2>1. n - 1 \in 0 .. count /\ n \in 0 .. count
    BY <1>1
  <2>2. gin[n] = 0
    BY <1>2, <1>16
  <2>3. Q[n] = Q[n - 1]
    BY <1>5, <1>13, <2>1, <2>2
  <2>4. day[n] \in D /\ day[n] = events[n].day /\ day[n] \in Nat
    BY <1>1, <1>2 DEF InTime
  <2>5. PICK k \in 0 .. count : Places(count, day, day[n], k) /\ C[day[n]] = Q[k]
    BY <1>7, <2>4 DEF UpToDay
  <2>6. n <= k
    BY <2>4, <2>5 DEF Places
  <2>7. ASSUME NEW m \in (n + 1) .. k
        PROVE  gin[m] = 0
    <3>1. m \in 1 .. count /\ n < m /\ m <= k
      BY <1>1
    <3>2. day[m] <= day[n]
      BY <2>5, <3>1 DEF Places
    <3>3. day[n] <= day[m]
      BY <1>1, <3>1 DEF InTime
    <3>4. events[m].day = events[n].day
      <4>1. day[m] = events[m].day /\ events[m].day \in Nat
        BY <1>1, <1>2, <3>1
      <4>2. QED
        BY <2>4, <3>2, <3>3, <4>1
    <3>5. events[m].dir # "in"
      BY <1>1, <1>16, <3>1, <3>4 DEF ComesInFirst
    <3>6. QED
      BY <1>2, <3>1, <3>5
  <2>8. Q[k] = Q[n]
    <3>1. Idle(n, k, gin)
      BY <2>7 DEF Idle
    <3>2. Adds(count, Q, gin)
      BY <1>5 DEF Adds
    <3>3. \A m \in 0 .. count : Q[m] \in Nat
      BY <1>13
    <3>4. count \in Nat /\ n \in 0 .. count
      BY <1>1
    <3>5. QED
      BY <2>6, <3>1, <3>2, <3>3, <3>4, NothingBroughtAfter
  <2>9. QED
    BY <2>3, <2>5, <2>8
<1>17. ASSUME NEW n \in 1 .. count, events[n].dir # "in"
       PROVE  /\ Q[n] = Q[n - 1] /\ X[n] = X[n - 1] + events[n].amount
              /\ M[n] = IF M[n - 1] + events[n].amount < Q[n - 1]
                        THEN M[n - 1] + events[n].amount ELSE Q[n - 1]
              /\ M[n - 1] <= Q[n - 1]
  <2>1. gout[n] = events[n].amount
    BY <1>2, <1>17
  <2>2. C[day[n]] = Q[n - 1] /\ Q[n] = Q[n - 1]
    BY <1>16, <1>17
  <2>3. QED
    BY <1>6, <1>14, <2>1, <2>2
<1>18. EventsTold(count, events, D, W, C, Q, X, M)
  <2>1. day = EventDays(events)
    BY DEF day
  <2>2. QED
    BY <1>1, <1>3, <1>5, <1>6, <1>7, <1>8, <1>11, <1>12, <1>15, <1>17, <2>1 DEF EventsTold
<1>19. M[0] = 0
  BY <1>10 DEF Paced
<1>20. QED
  BY <1>5, <1>6, <1>18, <1>19

\* A matching of some events, from nothing.
MatchesInTurn(run, count, events) ==
  /\ run[0] = [lots |-> <<>>, chunks |-> <<>>, observed |-> 0, unmatched |-> 0]
  /\ \A n \in 1 .. count : run[n] = MatchStep(run[n - 1], events[n])

\* Event by event, what came in is in the lots until it goes out, first in first out.
LEMMA MatchingFollows ==
  ASSUME NEW count \in Nat, NEW events, NEW D \in SUBSET Nat, IsFiniteSet(D),
         NEW W, NEW C, NEW Q, NEW X, NEW M, EventsTold(count, events, D, W, C, Q, X, M),
         Q[0] = 0, X[0] = 0, M[0] = 0, DOMAIN events = 1 .. count,
         NEW A, A = ArrivalDay(D, C), NEW H, H = HoldingDays(D, W, C),
         NEW run, MatchesInTurn(run, count, events)
  PROVE  MatchedSoFar(run[count], A, H, X[count], M[count], Q[count])
<1> DEFINE day == EventDays(events)
           Good(n) == MatchedSoFar(run[n], A, H, X[n], M[n], Q[n])
           good == {n \in Nat : n <= count => Good(n)}
<1>1. /\ InTime(count, day, D) /\ Rising(count, Q) /\ UpToDay(count, day, D, Q, C)
      /\ Rising(count, X) /\ Rising(count, M)
      /\ UpToDay(count, day, D, M, MatchedUpTo(D, W, C))
  BY DEF EventsTold
<1>2. \A n \in 0 .. count : Q[n] \in Nat /\ X[n] \in Nat /\ M[n] \in Nat
  BY <1>1 DEF Rising
<1>3. \A n \in 1 .. count : events[n].day \in Nat /\ events[n].amount \in Nat \ {0}
  BY DEF EventsTold
<1>4. \A n \in 1 .. count : Valued(A, Q[n - 1], Q[n], day[n])
  <2> HIDE DEF day
  <2>1. Arrives(count, day, Q, A)
    BY <1>1, UnitsArrive
  <2>2. QED
    BY <2>1 DEF Arrives
<1>5. \A n \in 1 .. count : HeldUntil(day[n], A, H, M[n - 1], M[n])
  <2> HIDE DEF day
  <2>1. Leaves(count, day, M, A, H)
    BY <1>1, UnitsLeave
  <2>2. QED
    BY <2>1 DEF Leaves
<1>6. 0 \in good
  <2>1. <<>> \in Seq(Lot) /\ <<>> \in Seq(Chunk)
    OBVIOUS
  <2>2. run[0] \in Matches
    BY <2>1 DEF Matches, MatchesInTurn
  <2>3. ChunksCover(<<>>, H, 0, 0) /\ LotsCover(<<>>, A, 0, 0)
    BY NothingCovered
  <2>4. Good(0)
    BY <2>2, <2>3 DEF MatchedSoFar, MatchesInTurn
  <2>5. QED
    BY <2>4
<1>7. ASSUME NEW n \in Nat, n \in good
      PROVE  n + 1 \in good
  <2> SUFFICES ASSUME n + 1 <= count PROVE Good(n + 1)
    OBVIOUS
  <2>1. PICK k \in 1 .. count : k = n + 1
    OBVIOUS
  <2>2. k - 1 = n /\ n \in 0 .. count /\ k \in 0 .. count /\ n <= count
    BY <2>1
  <2>3. MatchedSoFar(run[n], A, H, X[n], M[n], Q[n])
    BY <1>7, <2>2
  <2>4. PICK acc : acc = run[n]
    OBVIOUS
  <2>5. PICK e : e = events[k]
    OBVIOUS
  <2>6. run[k] = MatchStep(acc, e)
    BY <2>2, <2>4, <2>5 DEF MatchesInTurn
  <2>7. PICK asked \in Nat, matched \in Nat, came \in Nat :
          asked = X[n] /\ matched = M[n] /\ came = Q[n]
    BY <1>2, <2>2
  <2>8. MatchedSoFar(acc, A, H, asked, matched, came)
    BY <2>3, <2>4, <2>7
  <2>9. e.day \in Nat /\ e.amount \in Nat \ {0} /\ day[k] = e.day
    <3>1. day[k] = events[k].day
      BY DEF EventDays
    <3>2. QED
      BY <1>3, <2>5, <3>1
  <2>10. CASE e.dir = "in"
    <3>1. Q[k] = came + e.amount /\ X[k] = asked /\ M[k] = matched
      BY <2>2, <2>5, <2>7, <2>10 DEF EventsTold
    <3>2. Valued(A, came, came + e.amount, e.day)
      BY <1>4, <2>2, <2>7, <2>9, <3>1
    <3>3. MatchedSoFar(MatchStep(acc, e), A, H, asked, matched, came + e.amount)
      BY <2>8, <2>9, <2>10, <3>2, MatchIncoming
    <3>4. QED
      BY <2>1, <2>6, <3>1, <3>3
  <2>11. CASE e.dir # "in"
    <3>1. PICK taken : taken = (IF e.amount < came - matched THEN e.amount ELSE came - matched)
      OBVIOUS
    <3>2. /\ Q[k] = came /\ X[k] = asked + e.amount /\ matched <= came
          /\ M[k] = IF matched + e.amount < came THEN matched + e.amount ELSE came
      BY <2>2, <2>5, <2>7, <2>11 DEF EventsTold
    <3>3. M[k] = matched + taken
      BY <2>9, <3>1, <3>2
    <3>4. HeldUntil(e.day, A, H, matched, matched + taken)
      BY <1>5, <2>2, <2>7, <2>9, <3>3
    <3>5. MatchedSoFar(MatchStep(acc, e), A, H, asked + e.amount, matched + taken, came)
      BY <2>8, <2>9, <2>11, <3>1, <3>4, MatchOutgoing
    <3>6. QED
      BY <2>1, <2>6, <3>2, <3>3, <3>5
  <2>12. QED
    BY <2>10, <2>11
<1>8. Nat \subseteq good
  <2> HIDE DEF good
  <2>1. QED
    BY <1>6, <1>7, SetInduction
<1>9. QED
  <2>1. count \in good
    BY <1>8
  <2>2. QED
    BY <2>1

\* What the pipeline finds of an account is what its days say.
LEMMA MatchedByItsDays ==
  ASSUME NEW R, Transfers(R), \A r \in R : r.amount # 0, NEW rows \in Seq(R), NEW gid,
         NEW D \in SUBSET Nat, IsFiniteSet(D), \A i \in DOMAIN rows : rows[i].day \in D,
         NEW last, Latest(D, last),
         NEW C, C = BroughtBy(rows, Into(rows, gid), D),
         NEW W, W = BroughtBy(rows, OutOf(rows, gid), D)
  PROVE  MatchedSoFar(Matched(rows, gid), ArrivalDay(D, C), HoldingDays(D, W, C),
                      W[last], MatchedUpTo(D, W, C)[last], C[last])
<1> DEFINE S == Movements(rows, gid)
           events == Ranked(S, Precedes)
           count == Cardinality(S)
           day == EventDays(events)
<1>1. InOrder(rows, gid, S, events)
  BY MovementsInOrder
<1>2. PICK run :
        MatchesInTurn(run, count, events) /\ Matched(rows, gid) = run[count]
  BY MatchRuns DEF MatchesInTurn
<1>3. S = Movements(rows, gid) /\ count = Cardinality(S)
  OBVIOUS
<1> HIDE DEF S, events, count
<1>4. PICK Q, X, M : /\ EventsTold(count, events, D, W, C, Q, X, M)
                     /\ Q[0] = 0 /\ X[0] = 0 /\ M[0] = 0
  BY <1>1, <1>3, EventsAreTold
<1>5. count \in Nat /\ DOMAIN events = 1 .. count
  BY <1>1, <1>3 DEF InOrder
<1>6. MatchedSoFar(run[count], ArrivalDay(D, C), HoldingDays(D, W, C),
                   X[count], M[count], Q[count])
  <2>1. PICK A, H : A = ArrivalDay(D, C) /\ H = HoldingDays(D, W, C)
    OBVIOUS
  <2>2. MatchedSoFar(run[count], A, H, X[count], M[count], Q[count])
    BY <1>2, <1>4, <1>5, <2>1, MatchingFollows, SMTT(30)
  <2>3. QED
    BY <2>1, <2>2
<1>7. /\ InTime(count, day, D) /\ Rising(count, Q) /\ UpToDay(count, day, D, Q, C)
      /\ Rising(count, X) /\ UpToDay(count, day, D, X, W) /\ Rising(count, M)
      /\ UpToDay(count, day, D, M, MatchedUpTo(D, W, C))
  BY <1>4 DEF EventsTold
<1> HIDE DEF day
<1>8. ASSUME NEW B, NEW at, UpToDay(count, day, D, B, at)
      PROVE  at[last] = B[count]
  <2>1. InTime(count, day, D)
    BY <1>7
  <2>2. QED
    BY <1>5, <1>8, <2>1, LastDayBrings
<1>9. /\ C[last] = Q[count] /\ W[last] = X[count]
      /\ MatchedUpTo(D, W, C)[last] = M[count]
  BY <1>7, <1>8
<1>10. QED
  BY <1>2, <1>6, <1>8, <1>9

\* As much is missing as is missing on any day.
LEMMA MissingAtLeast ==
  ASSUME NEW D \in SUBSET Nat, IsFiniteSet(D), NEW W, NEW C,
         \A d \in D : W[d] \in Nat /\ C[d] \in Nat, NEW d \in D
  PROVE  /\ MostMissing(D, W, C, d) \in Int
         /\ MostMissing(D, W, C, d) >= W[d] - C[d]
<1> DEFINE F == {f \in D : f <= d}
           gap == [e \in F |-> W[e] - C[e]]
           S == {0} \cup {W[e] - C[e] : e \in F}
<1>1. F \subseteq D /\ d \in F
  OBVIOUS
<1>2. IsFiniteSet(F)
  <2> HIDE DEF F
  <2>1. QED
    BY <1>1, FS_Subset
<1>3. {gap[e] : e \in F} = {W[e] - C[e] : e \in F}
  OBVIOUS
<1>4. IsFiniteSet({gap[e] : e \in F})
  <2> HIDE DEF F, gap
  <2>1. QED
    BY <1>2, FiniteImage
<1>5. IsFiniteSet(S)
  <2>1. IsFiniteSet({0}) /\ IsFiniteSet({W[e] - C[e] : e \in F})
    BY <1>3, <1>4, FS_Singleton
  <2>2. QED
    BY <2>1, FS_Union
<1>6. S \subseteq Int
  <2>1. \A e \in D : W[e] - C[e] \in Int
    OBVIOUS
  <2>2. \A s \in S : s = 0 \/ \E e \in D : s = W[e] - C[e]
    OBVIOUS
  <2> HIDE DEF S
  <2>3. \A s \in S : s \in Int
    BY <2>1, <2>2
  <2>4. QED
    BY <2>3
<1>7. 0 \in S /\ W[d] - C[d] \in S
  BY <1>1
<1>8. MostMissing(D, W, C, d) = Max(S)
  BY DEF MostMissing
<1> HIDE DEF S
<1>9. S # {} /\ S \in SUBSET Int
  BY <1>6, <1>7
<1>10. Max(S) \in S /\ \A s \in S : Max(S) >= s
  BY <1>5, <1>9, GreatestNumber
<1>11. QED
  BY <1>6, <1>7, <1>8, <1>10

\* A unit goes out on a day that is not before the one on which it came in.
LEMMA UnitsStay ==
  ASSUME NEW D \in SUBSET Nat, IsFiniteSet(D), NEW W, NEW C,
         \A d \in D : W[d] \in Nat /\ C[d] \in Nat,
         NEW last, Latest(D, last),
         NEW n \in Nat, n <= MatchedUpTo(D, W, C)[last]
  PROVE  HoldingDays(D, W, C)[n] \in 0 .. last
<1> USE DEF Latest
<1> DEFINE P == {d \in D : MatchedUpTo(D, W, C)[d] >= n}
           O == {d \in D : C[d] >= n}
<1>1. \A d \in D : MatchedUpTo(D, W, C)[d] = W[d] - MostMissing(D, W, C, d)
  BY DEF MatchedUpTo
<1>2. \A d \in D : MatchedUpTo(D, W, C)[d] \in Int /\ MatchedUpTo(D, W, C)[d] <= C[d]
  <2> SUFFICES ASSUME NEW d \in D
               PROVE  MatchedUpTo(D, W, C)[d] \in Int /\ MatchedUpTo(D, W, C)[d] <= C[d]
    OBVIOUS
  <2>1. PICK m : m = MostMissing(D, W, C, d)
    OBVIOUS
  <2>2. m \in Int /\ m >= W[d] - C[d]
    BY <2>1, MissingAtLeast
  <2>3. MatchedUpTo(D, W, C)[d] = W[d] - m
    BY <1>1, <2>1
  <2>4. QED
    BY <2>2, <2>3
<1>3. P \subseteq O
  <2> SUFFICES ASSUME NEW d \in P PROVE d \in O
    OBVIOUS
  <2>1. d \in D
    OBVIOUS
  <2>2. PICK m \in Int, c \in Nat : m = MatchedUpTo(D, W, C)[d] /\ c = C[d] /\ m <= c
    BY <1>2, <2>1
  <2>3. n <= m
    BY <2>2
  <2>4. n <= c
    BY <2>2, <2>3
  <2>5. QED
    BY <2>1, <2>2, <2>4
<1>4. O \subseteq D /\ P \subseteq D /\ last \in P
  BY <1>2
<1>5. HoldingDays(D, W, C)[n] = Min(P) - Min(O)
  BY DEF HoldingDays, FirstWith
<1> HIDE DEF P, O
<1>6. /\ IsFiniteSet(P) /\ P \in SUBSET Int /\ P # {}
      /\ IsFiniteSet(O) /\ O \in SUBSET Int /\ O # {}
  <2>1. IsFiniteSet(P) /\ IsFiniteSet(O)
    BY <1>4, FS_Subset
  <2>2. \A d \in D : d \in Int
    OBVIOUS
  <2>3. P \in SUBSET Int /\ O \in SUBSET Int
    BY <1>4, <2>2
  <2>4. P # {} /\ O # {}
    BY <1>3, <1>4
  <2>5. QED
    BY <2>1, <2>3, <2>4
<1>7. Min(P) \in P /\ \A p \in P : Min(P) <= p
  BY <1>6, SmallestNumber
<1>8. Min(O) \in O /\ \A o \in O : Min(O) <= o
  BY <1>6, SmallestNumber
<1>9. PICK p \in Nat, o \in Nat : p = Min(P) /\ o = Min(O) /\ p <= last /\ o <= p
  BY <1>3, <1>4, <1>7, <1>8
<1>10. QED
  BY <1>5, <1>9

-----------------------------------------------------------------------------
(* The matching of the alert rules.                                        *)

\* Numbers without a gap stand in their order.
LEMMA SortedWithoutGap ==
  ASSUME NEW a \in Nat, NEW c \in Nat
  PROVE  /\ Cardinality((a + 1) .. (a + c)) = c
         /\ \A n \in 1 .. c : Sorted((a + 1) .. (a + c))[n] = a + n
<1> DEFINE S == (a + 1) .. (a + c)
           table == Sorted(S)
<1>1. \A x \in Int, y \in Int : Cardinality(x .. y) = IF x > y THEN 0 ELSE (y - x) + 1
  BY FS_Interval
<1>2. Cardinality(S) = c
  <2>1. a + 1 \in Int /\ a + c \in Int
    OBVIOUS
  <2>2. Cardinality((a + 1) .. (a + c))
          = IF a + 1 > a + c THEN 0 ELSE ((a + c) - (a + 1)) + 1
    BY <1>1, <2>1
  <2>3. QED
    BY <2>2
<1>3. ASSUME NEW x \in S
      PROVE  Cardinality({y \in S : y < x}) = x - (a + 1)
  <2>1. {y \in S : y < x} = (a + 1) .. (x - 1)
    OBVIOUS
  <2>2. a + 1 \in Int /\ x - 1 \in Int
    OBVIOUS
  <2>3. Cardinality((a + 1) .. (x - 1))
          = IF a + 1 > x - 1 THEN 0 ELSE ((x - 1) - (a + 1)) + 1
    BY <1>1, <2>2
  <2>4. (IF a + 1 > x - 1 THEN 0 ELSE ((x - 1) - (a + 1)) + 1) = x - (a + 1)
    OBVIOUS
  <2>5. QED
    BY <2>1, <2>3, <2>4
<1>4. ASSUME NEW n \in 1 .. c
      PROVE  table[n] = a + n
  <2>1. n \in 1 .. Cardinality(S)
    BY <1>2
  <2>2. table[n] = CHOOSE x \in S : Cardinality({y \in S : y < x}) = n - 1
    BY <2>1 DEF Sorted, Ranked
  <2>3. a + n \in S /\ (a + n) - (a + 1) = n - 1
    OBVIOUS
  <2>4. \E x \in S : Cardinality({y \in S : y < x}) = n - 1
    BY <1>3, <2>3
  <2> HIDE DEF S, table
  <2>5. table[n] \in S /\ Cardinality({y \in S : y < table[n]}) = n - 1
    BY <2>2, <2>4
  <2>6. table[n] - (a + 1) = n - 1
    BY <1>3, <2>5
  <2>7. table[n] \in Int
    BY <2>5 DEF S
  <2>8. QED
    BY <2>6, <2>7
<1>5. QED
  BY <1>2, <1>4

\* The beginning and the end of a cover are covers.
LEMMA CoverBegun ==
  ASSUME NEW k \in Nat, NEW w, NEW v, NEW H, NEW lo, NEW hi, NEW cut,
         Cuts(cut, k, w, v, H, lo, hi), NEW u \in 0 .. k, NEW wb, NEW vb,
         Starts(u, w, wb), Starts(u, v, vb)
  PROVE  Cuts(cut, u, wb, vb, H, lo, cut[u])
<1>1. \A m \in 1 .. u : w[m] = wb[m] /\ v[m] = vb[m]
  BY DEF Starts
<1>2. \A m \in 0 .. u : m \in 0 .. k
  OBVIOUS
<1>3. \A m \in 1 .. u : m \in 1 .. k
  OBVIOUS
<1>4. /\ cut[0] = lo
      /\ \A m \in 0 .. k : cut[m] \in Nat
      /\ \A m \in 1 .. k : w[m] \in Nat \ {0} /\ cut[m] = cut[m - 1] + w[m]
      /\ \A m \in 1 .. k : \A n \in (cut[m - 1] + 1) .. cut[m] : H[n] = v[m]
  BY DEF Cuts
<1>5. \A m \in 0 .. u : cut[m] \in Nat
  BY <1>2, <1>4
<1>6. \A m \in 1 .. u : wb[m] \in Nat \ {0} /\ cut[m] = cut[m - 1] + wb[m]
  BY <1>1, <1>3, <1>4
<1>7. \A m \in 1 .. u : \A n \in (cut[m - 1] + 1) .. cut[m] : H[n] = vb[m]
  BY <1>1, <1>3, <1>4
<1>8. QED
  BY <1>4, <1>5, <1>6, <1>7 DEF Cuts

LEMMA CoverEnded ==
  ASSUME NEW k \in Nat, NEW w, NEW v, NEW H, NEW lo, NEW hi, NEW cut,
         Cuts(cut, k, w, v, H, lo, hi), NEW u \in 0 .. k, NEW c, c = k - u, NEW we, NEW ve,
         Follows(u, c, w, we), Follows(u, c, v, ve)
  PROVE  Covers(c, we, ve, H, cut[u], hi)
<1> DEFINE rest == [m \in 0 .. c |-> cut[u + m]]
<1>1. \A m \in 1 .. c : w[u + m] = we[m] /\ v[u + m] = ve[m]
  BY DEF Follows
<1>2. c \in Nat /\ u + c = k
  OBVIOUS
<1>3. \A m \in 0 .. c : u + m \in 0 .. k /\ rest[m] = cut[u + m]
  BY <1>2
<1>4. \A m \in 1 .. c : u + m \in 1 .. k /\ m \in 0 .. c /\ m - 1 \in 0 .. c
                         /\ u + (m - 1) = (u + m) - 1
  BY <1>2
<1>5. /\ cut[k] = hi
      /\ \A m \in 0 .. k : cut[m] \in Nat
      /\ \A m \in 1 .. k : w[m] \in Nat \ {0} /\ cut[m] = cut[m - 1] + w[m]
      /\ \A m \in 1 .. k : \A n \in (cut[m - 1] + 1) .. cut[m] : H[n] = v[m]
  BY DEF Cuts
<1> HIDE DEF rest
<1>6. rest[0] = cut[u] /\ rest[c] = hi
  <2>1. 0 \in 0 .. c /\ c \in 0 .. c /\ u + 0 = u
    BY <1>2
  <2>2. QED
    BY <1>2, <1>3, <1>5, <2>1
<1>7. \A m \in 0 .. c : rest[m] \in Nat
  BY <1>3, <1>5
<1>8. ASSUME NEW m \in 1 .. c
      PROVE  /\ we[m] \in Nat \ {0} /\ rest[m] = rest[m - 1] + we[m]
             /\ \A n \in (rest[m - 1] + 1) .. rest[m] : H[n] = ve[m]
  <2>1. PICK p \in 1 .. k : p = u + m
    BY <1>4
  <2>2. rest[m] = cut[p] /\ rest[m - 1] = cut[p - 1]
    BY <1>3, <1>4, <2>1
  <2>3. we[m] = w[p] /\ ve[m] = v[p]
    BY <1>1, <2>1
  <2>4. w[p] \in Nat \ {0} /\ cut[p] = cut[p - 1] + w[p]
    BY <1>5
  <2>5. \A n \in (cut[p - 1] + 1) .. cut[p] : H[n] = v[p]
    BY <1>5
  <2>6. QED
    BY <2>2, <2>3, <2>4, <2>5
<1>9. Cuts(rest, c, we, ve, H, cut[u], hi)
  BY <1>6, <1>7, <1>8 DEF Cuts
<1>10. QED
  BY <1>9 DEF Covers

\* The lots up to a day are the units that came in by then, the later ones the others.
CameBy(A, lo, hi, d, c) == \A n \in (lo + 1) .. hi : A[n] <= d <=> n <= c
LotsUpTo(lots, d) == Picked(lots, {i \in DOMAIN lots : lots[i].day <= d})
LotsAfter(lots, d) == Picked(lots, {i \in DOMAIN lots : lots[i].day > d})

LEMMA LotsOfADay ==
  ASSUME NEW L, Lots(L), NEW lots \in Seq(L), NEW A, NEW lo \in Nat, NEW hi \in Nat,
         LotsCover(lots, A, lo, hi), NEW d \in Int, NEW c \in Nat, lo <= c, c <= hi,
         CameBy(A, lo, hi, d, c)
  PROVE  /\ LotsCover(LotsUpTo(lots, d), A, lo, c)
         /\ LotsCover(LotsAfter(lots, d), A, c, hi)
<1> DEFINE k == Len(lots)
           w == Amounts(lots)
           v == LotDays(lots)
<1>1. k \in Nat /\ DOMAIN lots = 1 .. k /\ \A m \in 1 .. k : lots[m] \in L
  BY TableDomain
<1>2. \A m \in 1 .. k : w[m] = lots[m].amount /\ v[m] = lots[m].day /\ lots[m].day \in Int
  BY <1>1 DEF Amounts, LotDays, Lots
<1>3. PICK cut : Cuts(cut, k, w, v, A, lo, hi)
  BY DEF LotsCover, Covers
<1> HIDE DEF k, w, v
<1>4. /\ cut[0] = lo /\ cut[k] = hi
      /\ \A m \in 0 .. k : cut[m] \in Nat
      /\ \A m \in 1 .. k : w[m] \in Nat \ {0} /\ cut[m] = cut[m - 1] + w[m]
      /\ \A m \in 1 .. k : \A n \in (cut[m - 1] + 1) .. cut[m] : A[n] = v[m]
  BY <1>3 DEF Cuts
<1>5. \A i \in 0 .. k, j \in 0 .. k : i <= j => cut[i] <= cut[j]
  BY <1>1, <1>3, CutsRise
<1>6. ASSUME NEW m \in 1 .. k
      PROVE  /\ lots[m].day <= d <=> cut[m] <= c
             /\ lots[m].day <= d <=> cut[m - 1] + 1 <= c
             /\ cut[m] \in Nat /\ cut[m - 1] \in Nat /\ cut[m - 1] < cut[m]
  <2>1. m \in 0 .. k /\ m - 1 \in 0 .. k /\ 0 \in 0 .. k /\ k \in 0 .. k
    BY <1>1
  <2>2. PICK x \in Nat, y \in Nat : x = cut[m - 1] /\ y = cut[m]
    BY <1>4, <2>1
  <2>3. x < y
    BY <1>4, <2>2
  <2>4. lo <= x /\ y <= hi
    <3>1. 0 <= m - 1 /\ m <= k
      BY <1>1
    <3>2. QED
      BY <1>4, <1>5, <2>1, <2>2, <3>1
  <2>5. x + 1 \in (x + 1) .. y /\ y \in (x + 1) .. y
    BY <2>3
  <2>6. x + 1 \in (lo + 1) .. hi /\ y \in (lo + 1) .. hi
    BY <2>3, <2>4
  <2>7. A[x + 1] = lots[m].day /\ A[y] = lots[m].day
    BY <1>2, <1>4, <2>2, <2>5
  <2>8. (A[x + 1] <= d <=> x + 1 <= c) /\ (A[y] <= d <=> y <= c)
    BY <2>6 DEF CameBy
  <2>9. QED
    BY <2>2, <2>3, <2>7, <2>8
<1>7. PICK u \in 0 .. k : Places(k, cut, c, u)
  <2>1. \A m \in 1 .. k : cut[m] \in Nat
    BY <1>6
  <2>2. \A m \in 1 .. k, n \in 1 .. k : m <= n => cut[m] <= cut[n]
    <3>1. \A m \in 1 .. k : m \in 0 .. k
      BY <1>1
    <3>2. QED
      BY <1>5, <3>1
  <2>3. InTime(k, cut, Nat)
    BY <2>1, <2>2 DEF InTime
  <2>4. Nat \in SUBSET Nat /\ c \in Int
    OBVIOUS
  <2>5. QED
    BY <1>1, <2>3, <2>4, PlacesOfDay
<1>8. \A m \in 1 .. k : lots[m].day <= d <=> m <= u
  BY <1>6, <1>7 DEF Places
<1>9. cut[u] = c
  <2>1. PICK z \in Nat : z = cut[u]
    BY <1>4
  <2>2. z <= c
    <3>1. CASE u = 0
      BY <1>4, <2>1, <3>1
    <3>2. CASE u # 0
      <4>1. u \in 1 .. k /\ u <= u
        BY <1>1, <3>2
      <4>2. QED
        BY <1>7, <2>1, <4>1 DEF Places
    <3>3. QED
      BY <3>1, <3>2
  <2>3. c <= z
    <3>1. CASE u = k
      BY <1>4, <2>1, <3>1
    <3>2. CASE u # k
      <4>1. PICK m \in 1 .. k : m = u + 1
        BY <1>1, <3>2
      <4>2. ~ (lots[m].day <= d) /\ m - 1 = u
        BY <1>8, <4>1
      <4>3. ~ (z + 1 <= c)
        BY <1>6, <2>1, <4>2
      <4>4. QED
        BY <4>3
    <3>3. QED
      BY <3>1, <3>2
  <2>4. QED
    BY <2>1, <2>2, <2>3
<1> DEFINE before == {i \in DOMAIN lots : lots[i].day <= d}
           after == {i \in DOMAIN lots : lots[i].day > d}
<1>10. before = (0 + 1) .. (0 + u) /\ after = (u + 1) .. (u + (k - u))
  <2>1. \A i \in before : i \in 1 .. u
    BY <1>1, <1>8
  <2>2. \A i \in 1 .. u : i \in before
    BY <1>1, <1>8
  <2>3. before = 1 .. u
    BY <2>1, <2>2
  <2>4. \A m \in 1 .. k : lots[m].day > d <=> ~ (lots[m].day <= d)
    BY <1>2
  <2>5. \A i \in after : i \in (u + 1) .. k
    BY <1>1, <1>8, <2>4
  <2>6. \A i \in (u + 1) .. k : i \in after
    <3> SUFFICES ASSUME NEW i \in (u + 1) .. k PROVE i \in after
      OBVIOUS
    <3>1. i \in 1 .. k /\ ~ (i <= u)
      BY <1>1
    <3>2. QED
      BY <1>1, <1>8, <2>4, <3>1
  <2>7. after = (u + 1) .. k
    BY <2>5, <2>6
  <2>8. 0 + 1 = 1 /\ 0 + u = u /\ u + (k - u) = k
    BY <1>1
  <2>9. QED
    BY <2>3, <2>7, <2>8
<1>11. before \in SUBSET DOMAIN lots /\ after \in SUBSET DOMAIN lots
  OBVIOUS
<1>12. LotsUpTo(lots, d) = Picked(lots, before) /\ LotsAfter(lots, d) = Picked(lots, after)
  BY DEF LotsUpTo, LotsAfter
<1> HIDE DEF before, after
<1>13. /\ Cardinality(before) = u /\ \A n \in 1 .. u : Sorted(before)[n] = n
       /\ Cardinality(after) = k - u /\ \A n \in 1 .. (k - u) : Sorted(after)[n] = u + n
  <2>1. k - u \in Nat /\ u \in Nat /\ 0 \in Nat
    BY <1>1
  <2>2. Cardinality(before) = u /\ \A n \in 1 .. u : Sorted(before)[n] = 0 + n
    BY <1>10, <2>1, SortedWithoutGap
  <2>3. Cardinality(after) = k - u /\ \A n \in 1 .. (k - u) : Sorted(after)[n] = u + n
    BY <1>10, <2>1, SortedWithoutGap
  <2>4. QED
    BY <2>1, <2>2, <2>3
<1>14. LotsCover(Picked(lots, before), A, lo, c)
  <2> DEFINE some == Picked(lots, before)
  <2>1. /\ Len(some) = u /\ DOMAIN some = 1 .. u
        /\ \A n \in 1 .. u : some[n] = lots[Sorted(before)[n]]
    BY <1>11, <1>13, PickedRows
  <2> HIDE DEF some
  <2>2. \A n \in 1 .. u : some[n] = lots[n] /\ n \in 1 .. k
    BY <1>1, <1>13, <2>1
  <2>3. \A n \in 1 .. u : Amounts(some)[n] = some[n].amount /\ LotDays(some)[n] = some[n].day
    BY <2>1 DEF Amounts, LotDays
  <2>4. Starts(u, w, Amounts(some)) /\ Starts(u, v, LotDays(some))
    BY <1>2, <2>2, <2>3 DEF Starts
  <2>5. Cuts(cut, u, Amounts(some), LotDays(some), A, lo, cut[u])
    BY <1>1, <1>3, <2>4, CoverBegun
  <2>6. LotsCover(some, A, lo, c)
    BY <1>9, <2>1, <2>5 DEF LotsCover, Covers
  <2>7. QED
    BY <2>6 DEF some
<1>15. LotsCover(Picked(lots, after), A, c, hi)
  <2> DEFINE some == Picked(lots, after)
  <2>1. PICK p \in Nat : p = k - u
    BY <1>1
  <2>2. /\ Len(some) = p /\ DOMAIN some = 1 .. p
        /\ \A n \in 1 .. p : some[n] = lots[Sorted(after)[n]]
    BY <1>11, <1>13, <2>1, PickedRows
  <2> HIDE DEF some
  <2>3. \A n \in 1 .. p : some[n] = lots[u + n] /\ u + n \in 1 .. k
    <3>1. \A n \in 1 .. p : Sorted(after)[n] = u + n
      BY <1>13, <2>1
    <3>2. \A n \in 1 .. p : u + n \in 1 .. k
      BY <1>1, <2>1
    <3>3. QED
      BY <2>2, <3>1, <3>2
  <2>4. \A n \in 1 .. p : Amounts(some)[n] = some[n].amount /\ LotDays(some)[n] = some[n].day
    BY <2>2 DEF Amounts, LotDays
  <2>5. Follows(u, p, w, Amounts(some)) /\ Follows(u, p, v, LotDays(some))
    BY <1>2, <2>3, <2>4 DEF Follows
  <2>6. Covers(p, Amounts(some), LotDays(some), A, cut[u], hi)
    BY <1>1, <1>3, <2>1, <2>5, CoverEnded
  <2>7. LotsCover(some, A, c, hi)
    BY <1>9, <2>2, <2>6 DEF LotsCover
  <2>8. QED
    BY <2>7 DEF some
<1>16. QED
  BY <1>12, <1>14, <1>15

\* A transfer takes from the lots of its day and before.
ChunksHeld(chunks, T) == Picked(chunks, {i \in DOMAIN chunks : chunks[i].held \in T})

FastStep(acc, t) ==
  LET d == Drain(LotsUpTo(acc.lots, t.day), t.day, t.amount)
  IN [lots |-> d.lots \o LotsAfter(acc.lots, t.day),
      fast |-> acc.fast + VolumeOf(ChunksHeld(d.chunks, 0 .. FastDays))]

FastStates(L) == [lots : Seq(L), fast : Int]

LEMMA FastStepType ==
  ASSUME NEW L, Lots(L), NEW acc \in FastStates(L), NEW t, t.day \in Int, t.amount \in Nat
  PROVE  FastStep(acc, t) \in FastStates(L)
<1>1. PICK lots \in Seq(L), fast \in Int : lots = acc.lots /\ fast = acc.fast
  BY DEF FastStates
<1>2. LotsUpTo(lots, t.day) \in Seq(L) /\ LotsAfter(lots, t.day) \in Seq(L)
  <2>1. {i \in DOMAIN lots : lots[i].day <= t.day} \in SUBSET DOMAIN lots
    OBVIOUS
  <2>2. {i \in DOMAIN lots : lots[i].day > t.day} \in SUBSET DOMAIN lots
    OBVIOUS
  <2>3. LotsUpTo(lots, t.day) \in Seq(L)
    BY <2>1, PickedRows DEF LotsUpTo
  <2>4. LotsAfter(lots, t.day) \in Seq(L)
    BY <2>2, PickedRows DEF LotsAfter
  <2>5. QED
    BY <2>3, <2>4
<1>3. PICK usable \in Seq(L), later \in Seq(L) :
        usable = LotsUpTo(lots, t.day) /\ later = LotsAfter(lots, t.day)
  BY <1>2
<1>4. PICK day \in Int, amount \in Nat : day = t.day /\ amount = t.amount
  OBVIOUS
<1>5. PICK d : d = Drain(usable, day, amount)
  OBVIOUS
<1>6. d \in Drained(L)
  BY <1>5, DrainKeeps
<1>7. d.lots \in Seq(L) /\ d.chunks \in Seq(Chunk)
  BY <1>6 DEF Drained
<1>8. VolumeOf(ChunksHeld(d.chunks, 0 .. FastDays)) \in Int
  <2>1. PICK chunks \in Seq(Chunk) : chunks = d.chunks
    BY <1>7
  <2>2. {i \in DOMAIN chunks : chunks[i].held \in 0 .. FastDays} \in SUBSET DOMAIN chunks
    OBVIOUS
  <2>3. ChunksHeld(chunks, 0 .. FastDays) \in Seq(Chunk)
    BY <2>2, PickedRows DEF ChunksHeld
  <2>4. VolumeOf(ChunksHeld(chunks, 0 .. FastDays)) \in Int
    BY <2>3, ChunkVolumes, VolumeIsSum
  <2>5. QED
    BY <2>1, <2>4
<1>9. FastStep(acc, t) = [lots |-> d.lots \o later,
                          fast |-> fast + VolumeOf(ChunksHeld(d.chunks, 0 .. FastDays))]
  BY <1>1, <1>3, <1>4, <1>5 DEF FastStep
<1>10. d.lots \o later \in Seq(L)
  BY <1>3, <1>7
<1>11. fast + VolumeOf(ChunksHeld(d.chunks, 0 .. FastDays)) \in Int
  BY <1>1, <1>8
<1>12. QED
  BY <1>9, <1>10, <1>11 DEF FastStates

FastFrom(run, lots, count, transfers) ==
  /\ run[0] = [lots |-> lots, fast |-> 0]
  /\ \A n \in 1 .. count : run[n] = FastStep(run[n - 1], transfers[n])

LEMMA FastRuns ==
  ASSUME NEW L, Lots(L), NEW incoming, ByDay(incoming) \in Seq(L), NEW outgoing,
         NEW transfers \in Seq(L), transfers = ByDay(outgoing)
  PROVE  \E run : /\ FastFrom(run, ByDay(incoming), Len(transfers), transfers)
                  /\ FastVolume(incoming, outgoing) = run[Len(transfers)].fast
<1> DEFINE count == Len(transfers)
           D == 1 .. count
           T == FastStates(L)
           base == [lots |-> ByDay(incoming), fast |-> 0]
           step == [n \in D |-> [t \in T |-> FastStep(t, transfers[n])]]
           Rule(results) == results = [part \in SUBSET DOMAIN transfers |->
              IF part = {} THEN base
              ELSE FastStep(results[part \ {Max(part)}], transfers[Max(part)])]
<1>1. count \in Nat /\ DOMAIN transfers = D /\ \A n \in D : transfers[n] \in L
  OBVIOUS
<1>2. FastVolume(incoming, outgoing) = (CHOOSE results : Rule(results))[DOMAIN transfers].fast
  BY DEF FastVolume, FoldLeft, MapThenFoldSet, FastStep, Where, LotsUpTo, LotsAfter, ChunksHeld
<1>3. \A n \in D : \A t \in T : FastStep(t, transfers[n]) \in T
  <2> SUFFICES ASSUME NEW n \in D, NEW t \in T PROVE FastStep(t, transfers[n]) \in T
    OBVIOUS
  <2>1. PICK r \in L : r = transfers[n]
    BY <1>1
  <2>2. r.day \in Int /\ r.amount \in Nat
    BY DEF Lots
  <2>3. FastStep(t, r) \in T
    BY <2>2, FastStepType
  <2>4. QED
    BY <2>1, <2>3
<1>4. \A n \in D : \A t \in T : step[n][t] = FastStep(t, transfers[n])
  OBVIOUS
<1>5. base \in T
  BY DEF FastStates
<1> HIDE DEF step, T, base, count
<1>6. Stepping(count, T, base, step)
  BY <1>3, <1>4, <1>5 DEF Stepping
<1>7. /\ \A part \in SUBSET D : part # {} => Max(part) \in part
      /\ \E results : FoldedLeft(count, T, base, step, results)
  BY <1>1, <1>6, FoldFromTheLeft
<1>8. \E results : Rule(results)
  <2>1. PICK results \in [SUBSET D -> T] :
          \A part \in SUBSET D :
            results[part] = IF part = {} THEN base
                            ELSE step[Max(part)][results[part \ {Max(part)}]]
    BY <1>7 DEF FoldedLeft
  <2>2. ASSUME NEW part \in SUBSET D, part # {}
        PROVE  results[part] = FastStep(results[part \ {Max(part)}], transfers[Max(part)])
    <3>1. Max(part) \in D /\ results[part \ {Max(part)}] \in T
      BY <1>7, <2>2
    <3>2. QED
      BY <1>4, <2>1, <2>2, <3>1
  <2>3. Rule(results)
    BY <1>1, <2>1, <2>2
  <2>4. QED
    BY <2>3
<1>9. PICK chosen : Rule(chosen) /\ FastVolume(incoming, outgoing) = chosen[D].fast
  <2> HIDE DEF Rule, D
  <2>1. Rule(CHOOSE results : Rule(results))
    BY <1>8
  <2>2. QED
    BY <1>1, <1>2, <2>1
<1> DEFINE run == [n \in 0 .. count |-> chosen[1 .. n]]
<1>10. run[0] = base
  <2>1. 1 .. 0 = {} /\ {} \in SUBSET D /\ 0 \in 0 .. count
    BY <1>1
  <2>2. QED
    BY <1>1, <1>9, <2>1
<1>11. ASSUME NEW n \in D
       PROVE  run[n] = FastStep(run[n - 1], transfers[n])
  <2>1. /\ 1 .. n \in SUBSET D /\ 1 .. n # {} /\ Max(1 .. n) = n
        /\ (1 .. n) \ {n} = 1 .. (n - 1)
    BY <1>1, PlacesUpTo
  <2>2. n \in 0 .. count /\ n - 1 \in 0 .. count
    BY <1>1
  <2>3. chosen[1 .. n] = FastStep(chosen[1 .. (n - 1)], transfers[n])
    BY <1>1, <1>9, <2>1
  <2>4. QED
    BY <2>2, <2>3
<1>12. run[count] = chosen[D]
  BY <1>1
<1>13. QED
  <2> HIDE DEF run
  <2>1. FastFrom(run, ByDay(incoming), count, transfers)
    BY <1>10, <1>11 DEF FastFrom, base
  <2>2. QED
    BY <1>9, <1>12, <2>1 DEF count

\* The matching so far: some units went out, and those that stay, up to all that will
\* come, are in the lots.
FastUnits(H, lo, hi) == {n \in (lo + 1) .. hi : H[n] \in 0 .. FastDays}
FastSoFar(acc, L, A, H, matched, total) ==
  /\ acc \in FastStates(L) /\ LotsCover(acc.lots, A, matched, total)
  /\ acc.fast = Cardinality(FastUnits(H, 0, matched))

LEMMA FastUnitsAdded ==
  ASSUME NEW H, NEW m \in Nat, NEW t \in Nat
  PROVE  Cardinality(FastUnits(H, 0, m + t))
           = Cardinality(FastUnits(H, 0, m)) + Cardinality(FastUnits(H, m, m + t))
<1> DEFINE one == FastUnits(H, 0, m)
           two == FastUnits(H, m, m + t)
           all == FastUnits(H, 0, m + t)
<1>1. IsFiniteSet((0 + 1) .. m) /\ IsFiniteSet((m + 1) .. (m + t))
  BY FS_Interval
<1>2. IsFiniteSet(one) /\ IsFiniteSet(two)
  <2>1. one \subseteq (0 + 1) .. m /\ two \subseteq (m + 1) .. (m + t)
    BY DEF FastUnits
  <2>2. QED
    BY <1>1, <2>1, FS_Subset
<1>3. all = one \cup two
  <2>1. \A n : n \in (0 + 1) .. (m + t) <=> n \in (0 + 1) .. m \/ n \in (m + 1) .. (m + t)
    OBVIOUS
  <2>2. QED
    BY <2>1 DEF FastUnits
<1>4. one \cap two = {}
  <2>1. \A n : ~ (n \in (0 + 1) .. m /\ n \in (m + 1) .. (m + t))
    OBVIOUS
  <2>2. QED
    BY <2>1 DEF FastUnits
<1> HIDE DEF one, two, all
<1>5. Cardinality(one \cup two) = Cardinality(one) + Cardinality(two) - Cardinality(one \cap two)
  BY <1>2, FS_Union
<1>6. Cardinality(one) \in Nat /\ Cardinality(two) \in Nat /\ Cardinality({}) = 0
  BY <1>2, FS_CardinalityType, FS_EmptySet
<1>7. Cardinality(all) = Cardinality(one) + Cardinality(two)
  <2>1. PICK a \in Nat, b \in Nat : a = Cardinality(one) /\ b = Cardinality(two)
    BY <1>6
  <2>2. Cardinality(one \cap two) = 0
    BY <1>4, <1>6
  <2>3. Cardinality(one \cup two) = a + b - 0
    BY <1>5, <2>1, <2>2
  <2>4. Cardinality(all) = a + b
    BY <1>3, <2>3
  <2>5. QED
    BY <2>1, <2>4
<1>8. QED
  BY <1>7 DEF one, two, all

LEMMA FastGoesOn ==
  ASSUME NEW L, Lots(L), Portions(L), NEW acc, NEW A, NEW H, NEW matched \in Nat,
         NEW total \in Nat, FastSoFar(acc, L, A, H, matched, total),
         NEW t, t.day \in Int, t.amount \in Nat, NEW c \in Nat, matched <= c, c <= total,
         CameBy(A, matched, total, t.day, c),
         NEW taken, taken = (IF t.amount < c - matched THEN t.amount ELSE c - matched),
         HeldUntil(t.day, A, H, matched, matched + taken)
  PROVE  FastSoFar(FastStep(acc, t), L, A, H, matched + taken, total)
<1>1. PICK lots \in Seq(L), fast \in Int : lots = acc.lots /\ fast = acc.fast
  BY DEF FastSoFar, FastStates
<1>2. /\ LotsCover(lots, A, matched, total)
      /\ fast = Cardinality(FastUnits(H, 0, matched))
  BY <1>1 DEF FastSoFar
<1>3. PICK day \in Int, amount \in Nat : day = t.day /\ amount = t.amount
  OBVIOUS
<1>4. CameBy(A, matched, total, day, c) /\ HeldUntil(day, A, H, matched, matched + taken)
  BY <1>3
<1>5. /\ LotsCover(LotsUpTo(lots, day), A, matched, c)
      /\ LotsCover(LotsAfter(lots, day), A, c, total)
  BY <1>2, <1>4, LotsOfADay
<1>6. LotsUpTo(lots, day) \in Seq(L) /\ LotsAfter(lots, day) \in Seq(L)
  <2>1. {i \in DOMAIN lots : lots[i].day <= day} \in SUBSET DOMAIN lots
    OBVIOUS
  <2>2. {i \in DOMAIN lots : lots[i].day > day} \in SUBSET DOMAIN lots
    OBVIOUS
  <2>3. LotsUpTo(lots, day) \in Seq(L)
    BY <2>1, PickedRows DEF LotsUpTo
  <2>4. LotsAfter(lots, day) \in Seq(L)
    BY <2>2, PickedRows DEF LotsAfter
  <2>5. QED
    BY <2>3, <2>4
<1>7. PICK usable \in Seq(L), later \in Seq(L) :
        usable = LotsUpTo(lots, day) /\ later = LotsAfter(lots, day)
  BY <1>6
<1>8. PICK d : d = Drain(usable, day, amount)
  OBVIOUS
<1>9. taken \in Nat /\ DrainedTo(d, L, amount - taken, A, H, matched, matched + taken, c)
  <2>1. LotsCover(usable, A, matched, c)
    BY <1>5, <1>7
  <2>2. taken = (IF amount < c - matched THEN amount ELSE c - matched)
    BY <1>3
  <2>3. /\ taken \in Nat
        /\ DrainedTo(Drain(usable, day, amount), L, amount - taken, A, H, matched,
                     matched + taken, c)
    BY <1>4, <2>1, <2>2, DrainCovers
  <2>4. QED
    BY <1>8, <2>3
<1>10. /\ d.lots \in Seq(L) /\ d.chunks \in Seq(Chunk)
       /\ ChunksCover(d.chunks, H, matched, matched + taken)
       /\ LotsCover(d.lots, A, matched + taken, c)
  BY <1>9 DEF DrainedTo, Drained
<1>11. LotsCover(d.lots \o later, A, matched + taken, total)
  BY <1>5, <1>7, <1>10, LotsCoverJoined
<1>12. VolumeOf(ChunksHeld(d.chunks, 0 .. FastDays))
         = Cardinality(FastUnits(H, matched, matched + taken))
  <2>1. PICK chunks, T : chunks = d.chunks /\ T = 0 .. FastDays
    OBVIOUS
  <2>2. HeldCounted(chunks, H, matched, matched + taken, T)
    <3>1. chunks \in Seq(Chunk) /\ ChunksCover(chunks, H, matched, matched + taken)
      BY <1>10, <2>1
    <3>2. QED
      BY <3>1, VolumeOfHeld
  <2>3. QED
    BY <2>1, <2>2 DEF HeldCounted, ChunksHeld, FastUnits
<1>13. FastStep(acc, t)
         = [lots |-> d.lots \o later,
            fast |-> fast + VolumeOf(ChunksHeld(d.chunks, 0 .. FastDays))]
  BY <1>1, <1>3, <1>7, <1>8 DEF FastStep
<1>14. FastStep(acc, t) \in FastStates(L)
  <2>1. acc \in FastStates(L) /\ t.day \in Int
    BY DEF FastSoFar
  <2>2. QED
    BY <2>1, FastStepType
<1>15. Cardinality(FastUnits(H, 0, matched + taken))
         = fast + Cardinality(FastUnits(H, matched, matched + taken))
  <2>1. PICK k \in Nat : k = taken
    BY <1>9
  <2>2. Cardinality(FastUnits(H, 0, matched + k))
          = Cardinality(FastUnits(H, 0, matched)) + Cardinality(FastUnits(H, matched, matched + k))
    BY FastUnitsAdded
  <2>3. QED
    BY <1>2, <2>1, <2>2
<1>16. QED
  BY <1>11, <1>12, <1>13, <1>14, <1>15 DEF FastSoFar

\* A table in the order of its days.
DayBefore(rows, i, j) ==
  \/ rows[i].day < rows[j].day
  \/ ~ (rows[j].day < rows[i].day) /\ i < j
DayOrder(rows) == Ranked(DOMAIN rows, LAMBDA i, j : DayBefore(rows, i, j))
SortedByDay(rows, order, sorted) ==
  /\ DOMAIN sorted = DOMAIN rows
  /\ \A n \in DOMAIN rows : order[n] \in DOMAIN rows /\ sorted[n] = rows[order[n]]
  /\ \A i \in DOMAIN rows : \E n \in DOMAIN rows : order[n] = i
  /\ \A m, n \in DOMAIN rows : order[m] = order[n] => m = n
  /\ \A m, n \in DOMAIN rows : m <= n => sorted[m].day <= sorted[n].day

LEMMA DaysSorted ==
  ASSUME NEW R, Transfers(R), NEW rows \in Seq(R)
  PROVE  /\ SortedByDay(rows, DayOrder(rows), ByDay(rows))
         /\ ByDay(rows) \in Seq(R) /\ Len(ByDay(rows)) = Len(rows)
<1> DEFINE D == DOMAIN rows
           before == [i \in D |-> {j \in D : DayBefore(rows, j, i)}]
           order == DayOrder(rows)
           sorted == ByDay(rows)
<1>1. /\ D = 1 .. Len(rows) /\ Len(rows) \in Nat /\ IsFiniteSet(D) /\ Cardinality(D) = Len(rows)
      /\ \A i \in D : rows[i] \in R /\ rows[i].day \in Int /\ i \in Int
  BY TableDomain DEF Transfers
<1>2. /\ before \in [D -> SUBSET D]
      /\ \A i \in D : before[i] = {j \in D : DayBefore(rows, j, i)}
  OBVIOUS
<1>3. DOMAIN order = 1 .. Cardinality(D)
  BY DEF DayOrder, Ranked
<1>4. sorted = [n \in DOMAIN order |-> rows[order[n]]]
  BY DEF ByDay, Arranged, DayOrder, DayBefore
<1>5. ASSUME NEW n \in 1 .. Cardinality(D), \E i \in D : Cardinality(before[i]) = n - 1
      PROVE  order[n] \in D /\ Cardinality(before[order[n]]) = n - 1
  <2>1. order[n] = CHOOSE i \in D : Cardinality({j \in D : DayBefore(rows, j, i)}) = n - 1
    BY DEF DayOrder, Ranked
  <2>2. \E i \in D : Cardinality({j \in D : DayBefore(rows, j, i)}) = n - 1
    BY <1>2, <1>5
  <2> HIDE DEF order, D
  <2>3. order[n] \in D /\ Cardinality({j \in D : DayBefore(rows, j, order[n])}) = n - 1
    BY <2>1, <2>2
  <2>4. QED
    BY <1>2, <2>3
<1> HIDE DEF D, before, order, sorted
<1>6. \A i \in D : i \notin before[i]
  BY <1>1, <1>2 DEF DayBefore
<1>7. \A i, j, k \in D : DayBefore(rows, k, j) /\ DayBefore(rows, j, i) => DayBefore(rows, k, i)
  BY <1>1 DEF DayBefore
<1>8. \A i, j \in D : i = j \/ DayBefore(rows, i, j) \/ DayBefore(rows, j, i)
  BY <1>1 DEF DayBefore
<1>9. StrictOrder(D, before)
  BY <1>2, <1>6, <1>7, <1>8 DEF StrictOrder
<1>10. Placed(D, before, order)
  BY <1>3, <1>5 DEF Placed
<1>11. /\ \A n \in DOMAIN order : order[n] \in D
       /\ \A i \in D : \E n \in DOMAIN order : order[n] = i
       /\ \A m, n \in DOMAIN order : m < n <=> order[m] \in before[order[n]]
       /\ \A m, n \in DOMAIN order : order[m] = order[n] => m = n
  <2>1. IsFiniteSet(D)
    BY <1>1
  <2>2. QED
    BY <1>9, <1>10, <2>1, TableOfASet
<1>12. DOMAIN order = D
  BY <1>1, <1>3
<1>13. \A n \in D : order[n] \in D /\ sorted[n] = rows[order[n]] /\ sorted[n] \in R
  BY <1>1, <1>4, <1>11, <1>12
<1>14. DOMAIN sorted = D
  BY <1>4, <1>12
<1>15. sorted \in Seq(R) /\ Len(sorted) = Len(rows)
  <2>1. sorted \in [1 .. Len(rows) -> R]
    BY <1>1, <1>4, <1>12, <1>13
  <2>2. QED
    BY <1>1, <2>1
<1>16. ASSUME NEW m \in D, NEW n \in D, m <= n
       PROVE  sorted[m].day <= sorted[n].day
  <2>1. PICK i \in D, j \in D : i = order[m] /\ j = order[n]
    BY <1>13
  <2>2. sorted[m] = rows[i] /\ sorted[n] = rows[j] /\ rows[i].day \in Int /\ rows[j].day \in Int
    BY <1>1, <1>13, <2>1
  <2>3. CASE m = n
    BY <2>1, <2>2, <2>3
  <2>4. CASE m < n
    <3>1. i \in before[j]
      BY <1>11, <1>12, <2>1, <2>4
    <3>2. DayBefore(rows, i, j)
      BY <1>2, <3>1
    <3>3. QED
      BY <2>2, <3>2 DEF DayBefore
  <2>5. m \in Int /\ n \in Int
    BY <1>1
  <2>6. QED
    BY <1>16, <2>3, <2>4, <2>5
<1>17. SortedByDay(rows, order, sorted)
  BY <1>11, <1>12, <1>13, <1>14, <1>16 DEF SortedByDay, D
<1>18. QED
  BY <1>15, <1>17 DEF order, sorted

\* Some rows in the order of their days bring what they hold.
LEMMA SortedRowsBring ==
  ASSUME NEW R, Transfers(R), NEW rows \in Seq(R), NEW places \in SUBSET DOMAIN rows,
         NEW sorted, sorted = ByDay(Picked(rows, places)),
         NEW D, \A i \in DOMAIN rows : rows[i].day \in D,
         NEW count, count = Cardinality(places)
  PROVE  /\ count \in Nat /\ sorted \in Seq(R) /\ Len(sorted) = count
         /\ \A n \in 1 .. count : sorted[n] \in R
         /\ \A n \in 1 .. count : /\ Amounts(sorted)[n] = sorted[n].amount
                                  /\ LotDays(sorted)[n] = sorted[n].day
         /\ InTime(count, LotDays(sorted), D)
         /\ \E name : Brings(count, LotDays(sorted), Amounts(sorted), 1 .. count, name,
                             rows, places)
<1> DEFINE picked == Picked(rows, places)
           order == DayOrder(picked)
           kept == Sorted(places)
           name == [n \in 1 .. count |-> kept[order[n]]]
<1>1. /\ count \in Nat /\ picked \in Seq(R) /\ Len(picked) = count /\ DOMAIN picked = 1 .. count
      /\ IsFiniteSet(places)
      /\ \A n \in 1 .. count : kept[n] \in places /\ picked[n] = rows[kept[n]]
  BY PickedRows
<1>2. /\ \A i \in places : \E n \in 1 .. count : kept[n] = i
      /\ \A m, n \in 1 .. count : kept[m] = kept[n] => m = n
  <2>1. places \in SUBSET Int
    BY TableDomain
  <2>2. QED
    BY <1>1, <2>1, SortedNumbers
<1> HIDE DEF picked, order, kept
<1>3. /\ SortedByDay(picked, order, sorted) /\ sorted \in Seq(R) /\ Len(sorted) = count
  BY <1>1, DaysSorted DEF order, picked
<1>4. /\ DOMAIN sorted = 1 .. count
      /\ \A n \in 1 .. count : order[n] \in 1 .. count /\ sorted[n] = picked[order[n]]
      /\ \A i \in 1 .. count : \E n \in 1 .. count : order[n] = i
      /\ \A m, n \in 1 .. count : order[m] = order[n] => m = n
      /\ \A m, n \in 1 .. count : m <= n => sorted[m].day <= sorted[n].day
  BY <1>1, <1>3 DEF SortedByDay
<1>5. \A n \in 1 .. count : /\ name[n] = kept[order[n]] /\ name[n] \in places
                            /\ name[n] \in DOMAIN rows /\ sorted[n] = rows[name[n]]
  BY <1>1, <1>4
<1> HIDE DEF name
<1>6. \A i \in places : \E n \in 1 .. count : name[n] = i
  <2> SUFFICES ASSUME NEW i \in places PROVE \E n \in 1 .. count : name[n] = i
    OBVIOUS
  <2>1. PICK m \in 1 .. count : kept[m] = i
    BY <1>2
  <2>2. PICK n \in 1 .. count : order[n] = m
    BY <1>4
  <2>3. QED
    BY <1>5, <2>1, <2>2
<1>7. ASSUME NEW m \in 1 .. count, NEW n \in 1 .. count, name[m] = name[n]
      PROVE  m = n
  <2>1. PICK i \in 1 .. count, j \in 1 .. count : i = order[m] /\ j = order[n]
    BY <1>4
  <2>2. kept[i] = kept[j]
    BY <1>5, <1>7, <2>1
  <2>3. i = j
    BY <1>2, <2>2
  <2>4. QED
    BY <1>4, <2>1, <2>3
<1>8. Renames(1 .. count, name, places)
  BY <1>5, <1>6, <1>7 DEF Renames
<1>9. \A n \in 1 .. count : /\ Amounts(sorted)[n] = sorted[n].amount
                            /\ LotDays(sorted)[n] = sorted[n].day
  BY <1>4 DEF Amounts, LotDays
<1>10. InTime(count, LotDays(sorted), D)
  <2>1. \A n \in 1 .. count : sorted[n].day \in D
    BY <1>5
  <2>2. \A m, n \in 1 .. count : m <= n => sorted[m].day <= sorted[n].day
    BY <1>4
  <2>3. \A n \in 1 .. count : LotDays(sorted)[n] = sorted[n].day
    BY <1>9
  <2>4. QED
    BY <2>1, <2>2, <2>3 DEF InTime
<1>11. Brings(count, LotDays(sorted), Amounts(sorted), 1 .. count, name, rows, places)
  <2>1. (1 .. count) \ (1 .. count) = {}
    OBVIOUS
  <2>2. 1 .. count \in SUBSET (1 .. count) /\ places \in SUBSET DOMAIN rows
    OBVIOUS
  <2>3. \A n \in 1 .. count : /\ Amounts(sorted)[n] = rows[name[n]].amount
                              /\ LotDays(sorted)[n] = rows[name[n]].day
    BY <1>5, <1>9
  <2>4. QED
    BY <1>8, <2>1, <2>2, <2>3 DEF Brings
<1>12. \A n \in 1 .. count : sorted[n] \in R
  BY <1>3, <1>4
<1>13. QED
  BY <1>1, <1>3, <1>9, <1>10, <1>11, <1>12

\* A unit has come in by a day when so many have.
LEMMA ArrivedBy ==
  ASSUME NEW D \in SUBSET Nat, IsFiniteSet(D), NEW C, Income(D, C), NEW last, Latest(D, last),
         NEW d \in D, NEW lo \in Nat
  PROVE  CameBy(ArrivalDay(D, C), lo, C[last], d, C[d])
<1>1. /\ last \in D /\ C[last] \in Nat /\ C[d] \in Nat
      /\ \A e \in D, f \in D : e <= f => C[e] <= C[f]
      /\ \A e \in D : C[e] \in Nat
  BY DEF Latest, Income
<1> SUFFICES ASSUME NEW n \in (lo + 1) .. C[last]
             PROVE  ArrivalDay(D, C)[n] <= d <=> n <= C[d]
  BY DEF CameBy
<1> DEFINE S == {e \in D : C[e] >= n}
<1>2. n \in Nat /\ n <= C[last]
  BY <1>1
<1>3. ArrivalDay(D, C)[n] = Min(S)
  BY <1>2 DEF ArrivalDay, FirstWith
<1>4. last \in S
  BY <1>1, <1>2
<1>5. S \subseteq D
  OBVIOUS
<1>6. \A e \in S : e \in D /\ n <= C[e]
  BY <1>1, <1>2
<1>7. n <= C[d] => d \in S
  BY <1>1, <1>2
<1> HIDE DEF S
<1>8. Min(S) \in S /\ \A s \in S : Min(S) <= s
  <2>1. IsFiniteSet(S) /\ S # {}
    BY <1>4, <1>5, FS_Subset
  <2>2. \A e \in D : e \in Int
    OBVIOUS
  <2>3. S \in SUBSET Int
    BY <1>5, <2>2
  <2>4. QED
    BY <2>1, <2>3, SmallestNumber
<1>9. PICK a \in D : a = Min(S) /\ n <= C[a]
  BY <1>6, <1>8
<1>10. a <= d => n <= C[d]
  <2> SUFFICES ASSUME a <= d PROVE n <= C[d]
    OBVIOUS
  <2>1. C[a] <= C[d] /\ C[a] \in Nat
    BY <1>1
  <2>2. QED
    BY <1>1, <1>2, <1>9, <2>1
<1>11. n <= C[d] => a <= d
  BY <1>7, <1>8, <1>9
<1>12. QED
  BY <1>3, <1>9, <1>10, <1>11

\* The lots that stand in the order of their days are the units as they arrive.
LEMMA LotsArrive ==
  ASSUME NEW L, Transfers(L), NEW lots \in Seq(L), NEW count, count = Len(lots),
         \A n \in 1 .. count : lots[n].amount # 0,
         NEW Q, Q = BroughtFirst(Amounts(lots), count),
         NEW A, Arrives(count, LotDays(lots), Q, A)
  PROVE  LotsCover(lots, A, 0, Q[count])
<1> DEFINE w == Amounts(lots)
           v == LotDays(lots)
<1>1. count \in Nat /\ DOMAIN lots = 1 .. count /\ \A n \in 1 .. count : lots[n] \in L
  BY TableDomain
<1>2. \A n \in 1 .. count : w[n] \in Nat /\ w[n] \in Nat \ {0}
  BY <1>1 DEF Amounts, Transfers
<1> HIDE DEF w, v
<1>3. /\ Q[0] = 0 /\ \A n \in 1 .. count : Q[n] = Q[n - 1] + w[n]
      /\ Rising(count, Q)
  BY <1>1, <1>2, BroughtSoFar DEF w
<1>4. \A n \in 0 .. count : Q[n] \in Nat
  BY <1>3 DEF Rising
<1>5. \A m \in 1 .. count : \A n \in (Q[m - 1] + 1) .. Q[m] : A[n] = v[m]
  BY DEF Arrives, Valued, v
<1>6. Cuts(Q, count, w, v, A, 0, Q[count])
  BY <1>2, <1>3, <1>4, <1>5 DEF Cuts
<1>7. QED
  BY <1>6 DEF LotsCover, Covers, w, v

\* What is known of the transfers of an account before they are matched with its lots.
Ready(count, transfers, D, C, last, A, H, M) ==
  /\ \A n \in 1 .. count : /\ transfers[n].day \in D
                           /\ transfers[n].amount \in Nat
  /\ \A n \in 0 .. count : M[n] \in Nat
  /\ \A n \in 1 .. count :
       /\ M[n - 1] <= C[transfers[n].day]
       /\ M[n] = IF M[n - 1] + transfers[n].amount < C[transfers[n].day]
                 THEN M[n - 1] + transfers[n].amount ELSE C[transfers[n].day]
       /\ HeldUntil(transfers[n].day, A, H, M[n - 1], M[n])

LEMMA FastFollows ==
  ASSUME NEW L, Lots(L), Portions(L), NEW D \in SUBSET Nat, IsFiniteSet(D),
         NEW C, Income(D, C), NEW last, Latest(D, last), NEW A, A = ArrivalDay(D, C),
         NEW H, NEW M, M[0] = 0, NEW count \in Nat, NEW transfers,
         Ready(count, transfers, D, C, last, A, H, M),
         NEW lots \in Seq(L), LotsCover(lots, A, 0, C[last]),
         NEW run, FastFrom(run, lots, count, transfers)
  PROVE  FastSoFar(run[count], L, A, H, M[count], C[last])
<1> DEFINE Good(n) == FastSoFar(run[n], L, A, H, M[n], C[last])
           good == {n \in Nat : n <= count => Good(n)}
<1>1. C[last] \in Nat /\ \A d \in D : C[d] \in Nat /\ C[d] <= C[last]
  BY DEF Income, Latest
<1>2. 0 \in good
  <2>1. run[0] = [lots |-> lots, fast |-> 0]
    BY DEF FastFrom
  <2>2. FastUnits(H, 0, 0) = {}
    <3>1. (0 + 1) .. 0 = {}
      OBVIOUS
    <3>2. QED
      BY <3>1 DEF FastUnits
  <2>3. Cardinality(FastUnits(H, 0, 0)) = 0
    BY <2>2, FS_EmptySet
  <2>4. FastSoFar(run[0], L, A, H, 0, C[last])
    BY <2>1, <2>3 DEF FastSoFar, FastStates
  <2>5. QED
    BY <2>4
<1>3. ASSUME NEW n \in Nat, n \in good
      PROVE  n + 1 \in good
  <2> SUFFICES ASSUME n + 1 <= count PROVE Good(n + 1)
    OBVIOUS
  <2>1. PICK k \in 1 .. count : k = n + 1
    OBVIOUS
  <2>2. k - 1 = n /\ n \in 0 .. count /\ k \in 0 .. count /\ n <= count
    BY <2>1
  <2>3. PICK acc, t : acc = run[n] /\ t = transfers[k]
    OBVIOUS
  <2>4. run[k] = FastStep(acc, t)
    BY <2>2, <2>3 DEF FastFrom
  <2>5. t.day \in D /\ t.amount \in Nat
    BY <2>3 DEF Ready
  <2>6. PICK matched \in Nat, total \in Nat, c \in Nat :
          matched = M[n] /\ total = C[last] /\ c = C[t.day]
    BY <1>1, <2>2, <2>5 DEF Ready
  <2>7. /\ matched <= c
        /\ M[k] = IF matched + t.amount < c THEN matched + t.amount ELSE c
        /\ HeldUntil(t.day, A, H, matched, M[k])
    BY <2>2, <2>3, <2>6 DEF Ready
  <2>8. c <= total
    BY <1>1, <2>5, <2>6
  <2>9. FastSoFar(acc, L, A, H, matched, total)
    BY <1>3, <2>2, <2>3, <2>6
  <2>10. CameBy(A, matched, total, t.day, c)
    <3>1. PICK d \in D : d = t.day
      BY <2>5
    <3>2. CameBy(ArrivalDay(D, C), matched, C[last], d, C[d])
      BY ArrivedBy
    <3>3. QED
      BY <2>6, <3>1, <3>2
  <2>11. PICK taken : taken = (IF t.amount < c - matched THEN t.amount ELSE c - matched)
    OBVIOUS
  <2>12. M[k] = matched + taken
    BY <2>5, <2>7, <2>11
  <2>13. HeldUntil(t.day, A, H, matched, matched + taken)
    BY <2>7, <2>12
  <2>14. t.day \in Int
    <3>1. \A d \in D : d \in Int
      OBVIOUS
    <3>2. QED
      BY <2>5, <3>1
  <2>15. FastSoFar(FastStep(acc, t), L, A, H, matched + taken, total)
    BY <2>5, <2>7, <2>8, <2>9, <2>10, <2>11, <2>13, <2>14, FastGoesOn, SMTT(30)
  <2>16. QED
    BY <2>1, <2>4, <2>6, <2>12, <2>15
<1>4. Nat \subseteq good
  <2> HIDE DEF good
  <2>1. QED
    BY <1>2, <1>3, SetInduction
<1>5. QED
  <2>1. count \in good
    BY <1>4
  <2>2. QED
    BY <2>1

\* What the alert rules find of an account is what its days say, as the pipeline does.
LEMMA FastByItsDays ==
  ASSUME NEW L, Lots(L), Portions(L), Transfers(L), NEW rows \in Seq(L),
         \A i \in DOMAIN rows : rows[i].amount # 0, NEW into, NEW out,
         into \in SUBSET DOMAIN rows, out \in SUBSET DOMAIN rows,
         NEW D \in SUBSET Nat, IsFiniteSet(D), \A i \in DOMAIN rows : rows[i].day \in D,
         NEW last, Latest(D, last),
         NEW C, C = BroughtBy(rows, into, D), NEW W, W = BroughtBy(rows, out, D)
  PROVE  FastVolume(Picked(rows, into), Picked(rows, out))
           = Cardinality(FastUnits(HoldingDays(D, W, C), 0, MatchedUpTo(D, W, C)[last]))
<1>1. PICK ci, ins : ci = Cardinality(into) /\ ins = ByDay(Picked(rows, into))
  OBVIOUS
<1>2. PICK co, outs : co = Cardinality(out) /\ outs = ByDay(Picked(rows, out))
  OBVIOUS
<1>3. PICK din, gin, dout, gout : /\ din = LotDays(ins) /\ gin = Amounts(ins)
                                  /\ dout = LotDays(outs) /\ gout = Amounts(outs)
  OBVIOUS
<1>4. /\ ci \in Nat /\ ins \in Seq(L) /\ Len(ins) = ci
      /\ \A n \in 1 .. ci : ins[n] \in L
      /\ \A n \in 1 .. ci : gin[n] = ins[n].amount /\ din[n] = ins[n].day
      /\ InTime(ci, din, D)
      /\ \E name : Brings(ci, din, gin, 1 .. ci, name, rows, into)
  BY <1>1, <1>3, SortedRowsBring
<1>5. /\ co \in Nat /\ outs \in Seq(L) /\ Len(outs) = co
      /\ \A n \in 1 .. co : outs[n] \in L
      /\ \A n \in 1 .. co : gout[n] = outs[n].amount /\ dout[n] = outs[n].day
      /\ InTime(co, dout, D)
      /\ \E name : Brings(co, dout, gout, 1 .. co, name, rows, out)
  BY <1>2, <1>3, SortedRowsBring
<1>6. PICK nin, nout : /\ Brings(ci, din, gin, 1 .. ci, nin, rows, into)
                       /\ Brings(co, dout, gout, 1 .. co, nout, rows, out)
  BY <1>4, <1>5
<1>7. /\ \A n \in 1 .. ci : gin[n] \in Nat
      /\ \A n \in 1 .. co : gout[n] \in Nat
  BY <1>4, <1>5 DEF Transfers
<1>8. PICK Q, X : Q = BroughtFirst(gin, ci) /\ X = BroughtFirst(gout, co)
  OBVIOUS
<1>9. Rising(ci, Q)
  BY <1>4, <1>7, <1>8, BroughtSoFar
<1>10. /\ X[0] = 0 /\ \A n \in 1 .. co : X[n] = X[n - 1] + gout[n]
       /\ Rising(co, X)
  BY <1>5, <1>7, <1>8, BroughtSoFar
<1>11. UpToDay(ci, din, D, Q, C)
  <2>1. UpToDay(ci, din, D, BroughtFirst(gin, ci), BroughtBy(rows, into, D))
    BY <1>4, <1>6, <1>7, BroughtByDay
  <2>2. QED
    BY <1>8, <2>1
<1>12. UpToDay(co, dout, D, X, W)
  <2>1. UpToDay(co, dout, D, BroughtFirst(gout, co), BroughtBy(rows, out, D))
    BY <1>5, <1>6, <1>7, BroughtByDay
  <2>2. QED
    BY <1>8, <2>1
<1>13. Income(D, C) /\ C[last] = Q[ci]
  <2>1. ci \in Nat /\ InTime(ci, din, D)
    BY <1>4
  <2>2. Income(D, C)
    BY <1>9, <1>11, <2>1, DaysIncome
  <2>3. C[last] = Q[ci]
    BY <1>11, <2>1, LastDayBrings, SMTT(60)
  <2>4. QED
    BY <2>2, <2>3
<1>14. PICK M : Paced(co, dout, gout, C, M)
  BY <1>5, <1>7, <1>13, PacedExists
<1>15. /\ Rising(co, M)
       /\ \A n \in 1 .. co : M[n - 1] <= C[dout[n]]
  BY <1>5, <1>7, <1>13, <1>14, PacedFacts
<1>16. PICK at : at = MatchedUpTo(D, W, C)
  OBVIOUS
<1>17. UpToDay(co, dout, D, M, at)
  <2>1. Adds(co, X, gout) /\ X[0] = 0
    BY <1>10 DEF Adds
  <2>2. co \in Nat /\ InTime(co, dout, D)
    BY <1>5
  <2>3. \A n \in 1 .. co : gout[n] \in Nat
    BY <1>7
  <2>4. UpToDay(co, dout, D, M, MatchedUpTo(D, W, C))
    <3>1. Pacing(co, D, dout, C, gout, X, W, M)
      BY <1>12, <1>13, <1>14, <2>1, <2>2, <2>3 DEF Pacing
    <3>2. QED
      BY <3>1, PacedByDay
  <2>5. QED
    BY <1>16, <2>4
<1>18. PICK A, H : A = ArrivalDay(D, C) /\ H = HoldingDays(D, W, C)
  OBVIOUS
<1>19. Arrives(ci, din, Q, A)
  BY <1>4, <1>9, <1>11, <1>18, UnitsArrive
<1>20. Leaves(co, dout, M, A, H)
  BY <1>5, <1>15, <1>16, <1>17, <1>18, UnitsLeave
<1>21. LotsCover(ins, A, 0, C[last])
  <2>1. ASSUME NEW n \in 1 .. ci
        PROVE  ins[n].amount # 0
    <3>1. 1 .. ci \in SUBSET (1 .. ci) /\ nin[n] \in into
      BY <1>6 DEF Brings, Renames
    <3>2. gin[n] = rows[nin[n]].amount
      BY <1>6 DEF Brings
    <3>3. PICK i \in DOMAIN rows : i = nin[n]
      BY <3>1
    <3>4. QED
      BY <1>4, <3>2, <3>3
  <2>2. LotsCover(ins, A, 0, Q[ci])
    BY <1>3, <1>4, <1>8, <1>19, <2>1, LotsArrive
  <2>3. QED
    BY <1>13, <2>2
<1>22. Ready(co, outs, D, C, last, A, H, M)
  <2>1. \A n \in 0 .. co : M[n] \in Nat
    BY <1>15 DEF Rising
  <2>2. ASSUME NEW n \in 1 .. co
        PROVE  /\ outs[n].day \in D /\ outs[n].amount \in Nat
               /\ M[n - 1] <= C[outs[n].day]
               /\ M[n] = IF M[n - 1] + outs[n].amount < C[outs[n].day]
                         THEN M[n - 1] + outs[n].amount ELSE C[outs[n].day]
               /\ HeldUntil(outs[n].day, A, H, M[n - 1], M[n])
    <3>1. gout[n] = outs[n].amount /\ dout[n] = outs[n].day
      BY <1>5
    <3>2. dout[n] \in D /\ gout[n] \in Nat
      BY <1>5, <1>7 DEF InTime
    <3>3. M[n] = IF M[n - 1] + gout[n] < C[dout[n]] THEN M[n - 1] + gout[n] ELSE C[dout[n]]
      BY <1>14 DEF Paced
    <3>4. HeldUntil(dout[n], A, H, M[n - 1], M[n])
      BY <1>20 DEF Leaves
    <3>5. M[n - 1] <= C[dout[n]]
      BY <1>15
    <3>6. QED
      BY <3>1, <3>2, <3>3, <3>4, <3>5
  <2>3. QED
    BY <2>1, <2>2 DEF Ready
<1>23. PICK run : /\ FastFrom(run, ins, co, outs)
                  /\ FastVolume(Picked(rows, into), Picked(rows, out)) = run[co].fast
  BY <1>1, <1>2, <1>4, <1>5, FastRuns
<1>24. M[0] = 0
  BY <1>14 DEF Paced
<1>25. FastSoFar(run[co], L, A, H, M[co], C[last])
  BY <1>4, <1>5, <1>13, <1>18, <1>21, <1>22, <1>23, <1>24, FastFollows
<1>26. at[last] = M[co]
  <2>1. co \in Nat /\ InTime(co, dout, D)
    BY <1>5
  <2>2. QED
    BY <1>17, <2>1, LastDayBrings
<1>27. QED
  BY <1>16, <1>18, <1>23, <1>25, <1>26 DEF FastSoFar

=============================================================================
