------------------------------ MODULE SeqFacts ------------------------------
(***************************************************************************)
(* Facts about the operators of the community modules that the list-based  *)
(* models are built from (RemoveAt, InsertAt, and the Min and Max behind   *)
(* SelectInSeq and SelectLastInSeq), and the induction over numbers with   *)
(* which loops are proved, stated once for the proofs about the DHCP       *)
(* server's lease table, lwIP's timer list, the mapped ports and sessions  *)
(* of NAPT, and the copy loops of espconn's ring buffer.                   *)
(***************************************************************************)
EXTENDS SequencesExt, SequenceTheorems, WellFoundedInduction, TLAPS

\* A non-empty set of numbers has a least element: the form of induction that
\* needs no operator parameter.
LEMMA LeastNumber ==
  ASSUME NEW T, T \subseteq Nat, T # {}
  PROVE  \E x \in T : \A y \in T : x <= y
<1>1. PICK x \in T : \A y \in T : ~(<<y, x>> \in OpToRel(<, Nat))
  <2>1. IsWellFoundedOn(OpToRel(<, Nat), Nat)
    BY NatLessThanWellFounded
  <2>2. QED
    BY <2>1, WFMin
<1>2. ASSUME NEW y \in T PROVE x <= y
  <2>1. ~(y < x)
    BY <1>1 DEF OpToRel
  <2>2. QED
    BY <2>1
<1>3. QED
  BY <1>2

\* A set of numbers that holds 0 and every successor is everything.
LEMMA NumberInduction ==
  ASSUME NEW T, 0 \in T, \A n \in Nat : n \in T => n + 1 \in T
  PROVE  \A n \in Nat : n \in T
<1> SUFFICES ASSUME Nat \ T # {} PROVE FALSE
  OBVIOUS
<1>1. PICK x \in Nat \ T : \A y \in Nat \ T : x <= y
  BY LeastNumber
<1>2. x # 0 /\ x - 1 \in Nat
  BY <1>1
<1>3. x - 1 \in T
  BY <1>1, <1>2
<1>4. QED
  BY <1>1, <1>2, <1>3

\* The first position of a non-empty set of positions.
LEMMA FirstPosition ==
  ASSUME NEW n \in Nat, NEW I, I \subseteq 1 .. n, I # {}
  PROVE  Min(I) \in I /\ \A j \in I : Min(I) <= j
<1>1. I \subseteq Nat
  OBVIOUS
<1>2. \E x \in I : \A y \in I : x <= y
  BY <1>1, LeastNumber
<1>3. QED
  BY <1>2 DEF Min

\* The last position of a non-empty set of positions.
LEMMA LastPosition ==
  ASSUME NEW n \in Nat, NEW I, I \subseteq 1 .. n, I # {}
  PROVE  Max(I) \in I /\ \A j \in I : Max(I) >= j
<1> DEFINE T == {n - i : i \in I}
<1>0. \A i \in I : i \in 1 .. n /\ n - i \in Nat
  OBVIOUS
<1>1. T \subseteq Nat /\ T # {}
  <2>1. T \subseteq Nat
    BY <1>0
  <2>2. PICK i \in I : TRUE
    OBVIOUS
  <2>3. n - i \in T
    BY <2>2
  <2>4. QED
    BY <2>1, <2>3
<1>2. PICK x \in T : \A y \in T : x <= y
  BY <1>1, LeastNumber
<1>3. PICK k \in I : x = n - k
  BY <1>2
<1>4. ASSUME NEW j \in I PROVE k >= j
  <2>1. n - k <= n - j
    BY <1>2, <1>3
  <2>2. QED
    BY <2>1
<1>5. \E k1 \in I : \A j \in I : k1 >= j
  BY <1>4
<1>6. QED
  BY <1>5 DEF Max

\* Two consecutive pieces of a list, without the element between them.
LEMMA RemoveFacts ==
  ASSUME NEW S, NEW s \in Seq(S), NEW k \in 1 .. Len(s)
  PROVE  /\ RemoveAt(s, k) \in Seq(S)
         /\ Len(RemoveAt(s, k)) = Len(s) - 1
         /\ \A i \in 1 .. Len(s) - 1 :
              RemoveAt(s, k)[i] = IF i < k THEN s[i] ELSE s[i + 1]
<1> DEFINE a == SubSeq(s, 1, k - 1)
           b == SubSeq(s, k + 1, Len(s))
<1>0. Len(s) \in Nat /\ k \in Int /\ k - 1 \in Int /\ k + 1 \in Int /\ Len(s) \in Int
  OBVIOUS
<1>1. /\ a \in Seq(S) /\ Len(a) = k - 1
      /\ \A i \in 1 .. k - 1 : a[i] = s[i]
  <2>1. \A i \in 1 .. k - 1 : s[i] \in S
    OBVIOUS
  <2>2. /\ a \in Seq(S)
        /\ Len(a) = IF 1 <= k - 1 THEN (k - 1) - 1 + 1 ELSE 0
        /\ \A i \in 1 .. (k - 1) - 1 + 1 : a[i] = s[1 + i - 1]
    BY <1>0, <2>1, SubSeqProperties
  <2> HIDE DEF a
  <2>3. QED
    BY <1>0, <2>2
<1>2. /\ b \in Seq(S) /\ Len(b) = Len(s) - k
      /\ \A i \in 1 .. Len(s) - k : b[i] = s[k + i]
  <2>1. \A i \in k + 1 .. Len(s) : s[i] \in S
    OBVIOUS
  <2>2. /\ b \in Seq(S)
        /\ Len(b) = IF k + 1 <= Len(s) THEN Len(s) - (k + 1) + 1 ELSE 0
        /\ \A i \in 1 .. Len(s) - (k + 1) + 1 : b[i] = s[k + 1 + i - 1]
    BY <1>0, <2>1, SubSeqProperties
  <2> HIDE DEF b
  <2>3. QED
    BY <1>0, <2>2
<1>3. RemoveAt(s, k) = a \o b
  BY DEF RemoveAt
<1> HIDE DEF a, b
<1>4. /\ a \o b \in Seq(S)
      /\ Len(a \o b) = Len(a) + Len(b)
      /\ \A i \in 1 .. Len(a) + Len(b) :
           (a \o b)[i] = IF i <= Len(a) THEN a[i] ELSE b[i - Len(a)]
  BY <1>1, <1>2, ConcatProperties
<1> DEFINE r == a \o b
<1> HIDE DEF r
<1>5. /\ r \in Seq(S) /\ Len(r) = Len(s) - 1
      /\ \A i \in 1 .. Len(s) - 1 : r[i] = IF i <= k - 1 THEN a[i] ELSE b[i - (k - 1)]
  BY <1>0, <1>1, <1>2, <1>4 DEF r
<1>6. ASSUME NEW i \in 1 .. Len(s) - 1
      PROVE  r[i] = IF i < k THEN s[i] ELSE s[i + 1]
  <2>1. CASE i < k
    BY <1>0, <1>1, <1>5, <2>1
  <2>2. CASE ~(i < k)
    <3>1. i - (k - 1) \in 1 .. Len(s) - k /\ k + (i - (k - 1)) = i + 1
      BY <1>0, <2>2
    <3>2. b[i - (k - 1)] = s[i + 1]
      BY <1>2, <3>1
    <3>3. QED
      BY <1>0, <1>5, <2>2, <3>2
  <2>3. QED
    BY <2>1, <2>2
<1>7. QED
  BY <1>3, <1>5, <1>6 DEF r

\* Two pieces of a list around one more element.
LEMMA InsertFacts ==
  ASSUME NEW S, NEW s \in Seq(S), NEW k \in 1 .. Len(s), NEW e \in S
  PROVE  /\ InsertAt(s, k, e) \in Seq(S)
         /\ Len(InsertAt(s, k, e)) = Len(s) + 1
         /\ \A i \in 1 .. Len(s) + 1 :
              InsertAt(s, k, e)[i] = IF i < k THEN s[i] ELSE IF i = k THEN e ELSE s[i - 1]
<1> DEFINE a == SubSeq(s, 1, k - 1)
           b == SubSeq(s, k, Len(s))
           ae == a \o <<e>>
<1>0. Len(s) \in Nat /\ k \in Int /\ k - 1 \in Int /\ k + 1 \in Int /\ Len(s) \in Int
  OBVIOUS
<1>1. /\ a \in Seq(S) /\ Len(a) = k - 1
      /\ \A i \in 1 .. k - 1 : a[i] = s[i]
  <2>1. \A i \in 1 .. k - 1 : s[i] \in S
    OBVIOUS
  <2>2. /\ a \in Seq(S)
        /\ Len(a) = IF 1 <= k - 1 THEN (k - 1) - 1 + 1 ELSE 0
        /\ \A i \in 1 .. (k - 1) - 1 + 1 : a[i] = s[1 + i - 1]
    BY <1>0, <2>1, SubSeqProperties
  <2> HIDE DEF a
  <2>3. QED
    BY <1>0, <2>2
<1>2. /\ b \in Seq(S) /\ Len(b) = Len(s) - k + 1
      /\ \A i \in 1 .. Len(s) - k + 1 : b[i] = s[k + i - 1]
  <2>1. \A i \in k .. Len(s) : s[i] \in S
    OBVIOUS
  <2>2. /\ b \in Seq(S)
        /\ Len(b) = IF k <= Len(s) THEN Len(s) - k + 1 ELSE 0
        /\ \A i \in 1 .. Len(s) - k + 1 : b[i] = s[k + i - 1]
    BY <1>0, <2>1, SubSeqProperties
  <2> HIDE DEF b
  <2>3. QED
    BY <1>0, <2>2
<1>3. InsertAt(s, k, e) = ae \o b
  BY DEF InsertAt
<1> HIDE DEF a, b, ae
<1>4. /\ <<e>> \in Seq(S) /\ Len(<<e>>) = 1 /\ <<e>>[1] = e
  OBVIOUS
<1>5. /\ ae \in Seq(S) /\ Len(ae) = k
      /\ \A i \in 1 .. k : ae[i] = IF i < k THEN s[i] ELSE e
  <2>1. /\ a \o <<e>> \in Seq(S)
        /\ Len(a \o <<e>>) = Len(a) + Len(<<e>>)
        /\ \A i \in 1 .. Len(a) + Len(<<e>>) :
             (a \o <<e>>)[i] = IF i <= Len(a) THEN a[i] ELSE <<e>>[i - Len(a)]
    BY <1>1, <1>4, ConcatProperties
  <2>2. /\ ae \in Seq(S) /\ Len(ae) = Len(a) + 1
        /\ \A i \in 1 .. Len(a) + 1 :
             ae[i] = IF i <= Len(a) THEN a[i] ELSE <<e>>[i - Len(a)]
    BY <1>4, <2>1 DEF ae
  <2>3. ASSUME NEW i \in 1 .. k PROVE ae[i] = IF i < k THEN s[i] ELSE e
    <3>1. CASE i < k
      BY <1>0, <1>1, <2>2, <3>1
    <3>2. CASE i = k
      <4>1. i - Len(a) = 1 /\ ~(i <= Len(a)) /\ i \in 1 .. Len(a) + 1
        BY <1>0, <1>1, <3>2
      <4>2. ae[i] = <<e>>[i - Len(a)]
        BY <2>2, <4>1
      <4>3. QED
        BY <1>0, <1>4, <3>2, <4>1, <4>2
    <3>3. QED
      BY <1>0, <3>1, <3>2
  <2>4. QED
    BY <1>0, <1>1, <2>2, <2>3
<1> DEFINE r == ae \o b
<1>6. /\ r \in Seq(S) /\ Len(r) = Len(ae) + Len(b)
      /\ \A i \in 1 .. Len(ae) + Len(b) :
           r[i] = IF i <= Len(ae) THEN ae[i] ELSE b[i - Len(ae)]
  BY <1>2, <1>5, ConcatProperties
<1> HIDE DEF r
<1>7. Len(r) = Len(s) + 1
  BY <1>0, <1>2, <1>5, <1>6
<1>8. ASSUME NEW i \in 1 .. Len(s) + 1
      PROVE  r[i] = IF i < k THEN s[i] ELSE IF i = k THEN e ELSE s[i - 1]
  <2>0. i \in 1 .. Len(ae) + Len(b)
    BY <1>0, <1>2, <1>5
  <2>1. CASE i <= k
    BY <1>0, <1>5, <1>6, <2>0, <2>1
  <2>2. CASE ~(i <= k)
    <3>1. i - k \in 1 .. Len(s) - k + 1 /\ k + (i - k) - 1 = i - 1
      BY <1>0, <2>2
    <3>2. b[i - k] = s[i - 1]
      BY <1>2, <3>1
    <3>3. r[i] = b[i - k]
      BY <1>5, <1>6, <2>0, <2>2
    <3>4. QED
      BY <1>0, <2>2, <3>2, <3>3
  <2>3. QED
    BY <2>1, <2>2
<1>9. QED
  BY <1>3, <1>6, <1>7, <1>8 DEF r

-----------------------------------------------------------------------------
(* Insertion and deletion, as relations between the two lists. *)

\* r is q with e at position k.
Inserted(q, r, k, e) ==
    /\ k \in 1 .. Len(q) + 1
    /\ Len(r) = Len(q) + 1
    /\ r[k] = e
    /\ \A i \in 1 .. k - 1 : r[i] = q[i]
    /\ \A i \in k .. Len(q) : r[i + 1] = q[i]

\* r is q without its element at position k.
Deleted(q, r, k) ==
    /\ k \in 1 .. Len(q)
    /\ Len(r) = Len(q) - 1
    /\ \A i \in 1 .. k - 1 : r[i] = q[i]
    /\ \A i \in k .. Len(q) - 1 : r[i] = q[i + 1]

\* InsertAt inserts.
LEMMA InsertAtInserts ==
  ASSUME NEW S, NEW q \in Seq(S), NEW k \in 1 .. Len(q), NEW e \in S
  PROVE  InsertAt(q, k, e) \in Seq(S) /\ Inserted(q, InsertAt(q, k, e), k, e)
<1> DEFINE r == InsertAt(q, k, e)
<1>1. /\ r \in Seq(S) /\ Len(r) = Len(q) + 1
      /\ \A i \in 1 .. Len(q) + 1 : r[i] = IF i < k THEN q[i] ELSE IF i = k THEN e ELSE q[i - 1]
  BY InsertFacts
<1> HIDE DEF r
<1>2. k \in Int /\ Len(q) \in Nat
  OBVIOUS
<1>3. r[k] = e /\ \A i \in 1 .. k - 1 : r[i] = q[i]
  BY <1>1, <1>2
<1>4. ASSUME NEW i \in k .. Len(q) PROVE r[i + 1] = q[i]
  <2>1. i + 1 \in 1 .. Len(q) + 1 /\ ~(i + 1 < k) /\ i + 1 # k /\ (i + 1) - 1 = i
    BY <1>2
  <2>2. QED
    BY <1>1, <2>1
<1>5. Inserted(q, r, k, e)
  BY <1>1, <1>2, <1>3, <1>4 DEF Inserted
<1>6. QED
  BY <1>1, <1>5 DEF r

\* Append inserts at the end.
LEMMA AppendInserts ==
  ASSUME NEW S, NEW q \in Seq(S), NEW e \in S
  PROVE  Append(q, e) \in Seq(S) /\ Inserted(q, Append(q, e), Len(q) + 1, e)
BY DEF Inserted

\* RemoveAt deletes.
LEMMA RemoveAtDeletes ==
  ASSUME NEW S, NEW q \in Seq(S), NEW k \in 1 .. Len(q)
  PROVE  RemoveAt(q, k) \in Seq(S) /\ Deleted(q, RemoveAt(q, k), k)
<1> DEFINE r == RemoveAt(q, k)
<1>1. /\ r \in Seq(S) /\ Len(r) = Len(q) - 1
      /\ \A i \in 1 .. Len(q) - 1 : r[i] = IF i < k THEN q[i] ELSE q[i + 1]
  BY RemoveFacts
<1> HIDE DEF r
<1>2. k \in Int /\ Len(q) \in Nat
  OBVIOUS
<1>3. Deleted(q, r, k)
  BY <1>1, <1>2 DEF Deleted
<1>4. QED
  BY <1>1, <1>3 DEF r

\* Tail deletes the head.
LEMMA TailDeletes ==
  ASSUME NEW S, NEW q \in Seq(S), q # <<>>
  PROVE  Tail(q) \in Seq(S) /\ Deleted(q, Tail(q), 1)
<1>1. Len(q) \in Nat /\ Len(q) >= 1
  OBVIOUS
<1>2. /\ Tail(q) \in Seq(S) /\ Len(Tail(q)) = Len(q) - 1
      /\ \A i \in 1 .. Len(Tail(q)) : Tail(q)[i] = q[i + 1]
  BY HeadTailProperties
<1>3. QED
  BY <1>1, <1>2 DEF Deleted

\* Where the elements of the shorter list are in the longer one.
After(k, i) == IF i < k THEN i ELSE i + 1

\* After a list was extended, each of its elements is the new one or an old
\* one, in the old order.
Extends(q, r, k, e) ==
    /\ k \in 1 .. Len(r) /\ r[k] = e
    /\ \A i \in 1 .. Len(q) : After(k, i) \in 1 .. Len(r) /\ r[After(k, i)] = q[i]
    /\ \A i, j \in 1 .. Len(q) : i < j <=> After(k, i) < After(k, j)
    /\ \A j \in 1 .. Len(r) : j = k \/ \E i \in 1 .. Len(q) : j = After(k, i)
    /\ \A i \in 1 .. Len(q) : After(k, i) < k <=> i < k
    /\ \A i \in 1 .. Len(q) : After(k, i) # k

\* An insertion does that.
LEMMA InsertedElements ==
  ASSUME NEW q, NEW r, NEW k, NEW e, Len(q) \in Nat, Inserted(q, r, k, e)
  PROVE  Extends(q, r, k, e)
<1>1. /\ Len(q) \in Nat /\ Len(r) = Len(q) + 1 /\ k \in 1 .. Len(q) + 1 /\ r[k] = e
      /\ \A i \in 1 .. k - 1 : r[i] = q[i]
      /\ \A i \in k .. Len(q) : r[i + 1] = q[i]
  BY DEF Inserted
<1>2. ASSUME NEW i \in 1 .. Len(q)
      PROVE  After(k, i) \in 1 .. Len(r) /\ r[After(k, i)] = q[i]
  <2>1. CASE i < k
    BY <1>1, <2>1 DEF After
  <2>2. CASE ~(i < k)
    <3>1. i \in k .. Len(q)
      BY <1>1, <2>2
    <3>2. QED
      BY <1>1, <2>2, <3>1 DEF After
  <2>3. QED
    BY <2>1, <2>2
<1>3. ASSUME NEW j \in 1 .. Len(r), j # k
      PROVE  \E i \in 1 .. Len(q) : j = After(k, i)
  <2>1. CASE j < k
    BY <1>1, <2>1 DEF After
  <2>2. CASE ~(j < k)
    <3>1. j - 1 \in 1 .. Len(q) /\ ~(j - 1 < k) /\ (j - 1) + 1 = j
      BY <1>1, <1>3, <2>2
    <3>2. QED
      BY <3>1 DEF After
  <2>3. QED
    BY <2>1, <2>2
<1>4. \A i, j \in 1 .. Len(q) : i < j <=> After(k, i) < After(k, j)
  BY <1>1 DEF After
<1>5. \A i \in 1 .. Len(q) : (After(k, i) < k <=> i < k) /\ After(k, i) # k
  BY <1>1 DEF After
<1>6. QED
  BY <1>1, <1>2, <1>3, <1>4, <1>5 DEF Extends

\* After a deletion, each element is an old one, in the old order.
Shrinks(q, r, k) ==
    /\ k \in 1 .. Len(q)
    /\ \A i \in 1 .. Len(r) :
         After(k, i) \in 1 .. Len(q) /\ q[After(k, i)] = r[i] /\ After(k, i) # k
    /\ \A i, j \in 1 .. Len(r) : i < j <=> After(k, i) < After(k, j)
    /\ \A j \in 1 .. Len(q) : j = k \/ \E i \in 1 .. Len(r) : j = After(k, i)

\* A deletion does that.
LEMMA DeletedElements ==
  ASSUME NEW q, NEW r, NEW k, Len(q) \in Nat, Deleted(q, r, k)
  PROVE  Shrinks(q, r, k)
<1>1. /\ Len(q) \in Nat /\ Len(r) = Len(q) - 1 /\ k \in 1 .. Len(q)
      /\ \A i \in 1 .. k - 1 : r[i] = q[i]
      /\ \A i \in k .. Len(q) - 1 : r[i] = q[i + 1]
  BY DEF Deleted
<1>2. ASSUME NEW i \in 1 .. Len(r)
      PROVE  After(k, i) \in 1 .. Len(q) /\ q[After(k, i)] = r[i] /\ After(k, i) # k
  <2>1. CASE i < k
    BY <1>1, <2>1 DEF After
  <2>2. CASE ~(i < k)
    <3>1. i \in k .. Len(q) - 1
      BY <1>1, <2>2
    <3>2. QED
      BY <1>1, <2>2, <3>1 DEF After
  <2>3. QED
    BY <2>1, <2>2
<1>3. ASSUME NEW j \in 1 .. Len(q), j # k
      PROVE  \E i \in 1 .. Len(r) : j = After(k, i)
  <2>1. CASE j < k
    <3>1. j \in 1 .. Len(r)
      BY <1>1, <2>1
    <3>2. j = After(k, j)
      BY <2>1 DEF After
    <3>3. QED
      BY <3>1, <3>2
  <2>2. CASE ~(j < k)
    <3>1. j - 1 \in 1 .. Len(r) /\ ~(j - 1 < k) /\ (j - 1) + 1 = j
      BY <1>1, <1>3, <2>2
    <3>2. QED
      BY <3>1 DEF After
  <2>3. QED
    BY <2>1, <2>2
<1>4. \A i, j \in 1 .. Len(r) : i < j <=> After(k, i) < After(k, j)
  BY <1>1 DEF After
<1>5. QED
  BY <1>1, <1>2, <1>3, <1>4 DEF Shrinks
=============================================================================
