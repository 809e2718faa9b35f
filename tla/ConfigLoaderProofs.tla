------------------------- MODULE ConfigLoaderProofs -------------------------
(***************************************************************************)
(* Proofs, for any parameters, prefixes and batch size, of the safety      *)
(* properties of ConfigLoader.                                             *)
(***************************************************************************)
EXTENDS ConfigLoader, SequenceTheorems, WellFoundedInduction, TLAPS

\* What load() must copy, if nothing changes it.
Expected == {p \in steady : MatchesPrefix(p) /\ value[p] \in Values}

\* Only a load that lists or fetches has a call, and a call of fetch() is about a batch.
CallOK ==
  /\ call # "none" => pc \in {"list", "fetch"}
  /\ pc = "fetch" /\ call # "none" => todo # <<>>

\* What is still to be fetched is a sequence of batches.
TodoOK == todo \in Seq(Seq(Params))

\* The list of names has all that is expected.
ListOK ==
  pc = "list" /\ call = "answered" =>
    /\ answer \in Seq(Params)
    /\ Expected \subseteq ToSet(answer)

\* The answer to get_parameters: all the values of the batch, current ones where they
\* are steady, or none because one is missing.
AnswerOK ==
  pc = "fetch" /\ call = "answered" =>
    \/ /\ answer \in [ToSet(Head(todo)) -> Values]
       /\ \A p \in ToSet(Head(todo)) \cap steady : answer[p] = value[p]
    \/ /\ answer = <<>>
       /\ \E p \in ToSet(Head(todo)) : p \notin Expected

\* What is expected is up to date, or a batch to come has it.
CoverOK ==
  pc = "fetch" =>
    \A p \in Expected : UpToDate(p) \/ \E batch \in ToSet(todo) : p \in ToSet(batch)

IInv ==
  /\ TypeOK
  /\ CallOK
  /\ TodoOK
  /\ ListOK
  /\ AnswerOK
  /\ CoverOK

-----------------------------------------------------------------------------
(* Numbers.                                                                *)

LEMMA Induction ==
  ASSUME NEW S, 0 \in S, \A n \in Nat : n \in S => n + 1 \in S
  PROVE  Nat \subseteq S
<1>. DEFINE T == Nat \ S
<1>1. SUFFICES ASSUME T # {}  PROVE FALSE
  OBVIOUS
<1>2. PICK x \in T : \A y \in T : ~(<<y, x>> \in OpToRel(<, Nat))
  BY <1>1, NatLessThanWellFounded, WFMin
<1>3. x - 1 \in Nat /\ x - 1 < x
  OBVIOUS
<1>4. <<x - 1, x>> \in OpToRel(<, Nat)
  <2>1. <<x - 1, x>> \in {ss \in Nat \X Nat : ss[1] < ss[2]}
    BY <1>3
  <2>. QED
    BY <2>1, Zenon DEF OpToRel
<1>5. x - 1 \in S
  BY <1>2, <1>3, <1>4, Zenon
<1>6. (x - 1) + 1 \in S
  BY <1>3, <1>5
<1>. QED
  BY <1>6

LEMMA DivFacts ==
  ASSUME NEW a \in Nat, NEW b \in Nat \ {0}
  PROVE  a \div b \in Nat /\ b * (a \div b) <= a /\ a < b * (a \div b) + b
BY SMT

LEMMA ProductLess ==
  ASSUME NEW b \in Nat \ {0}, NEW x \in Int, NEW y \in Int, b * x < b * y
  PROVE  x < y
BY SMT

LEMMA ProductLeq ==
  ASSUME NEW b \in Nat \ {0}, NEW x \in Int, NEW y \in Int, x <= y
  PROVE  b * x <= b * y
BY SMT

-----------------------------------------------------------------------------
(* Selected.                                                               *)

\* One step of it.
Step(names, S, f, n) ==
  IF n = 0 THEN <<>>
  ELSE IF names[n] \in S THEN Append(f[n - 1], names[n]) ELSE f[n - 1]

LEMMA SelectedDef ==
  ASSUME NEW T, NEW names \in Seq(T), NEW S
  PROVE  \E f : /\ f = [n \in 0..Len(names) |-> Step(names, S, f, n)]
                /\ Selected(names, S) = f[Len(names)]
<1>. DEFINE Rec(f, n) == f = [m \in 0..n |-> Step(names, S, f, m)]
            Found == {n \in Nat : \E f : Rec(f, n)}
<1>1. 0 \in Found
  <2>. DEFINE f == [m \in 0..0 |-> <<>>]
  <2>1. \A m \in 0..0 : Step(names, S, f, m) = <<>>
    BY DEF Step
  <2>2. Rec(f, 0)
    BY <2>1
  <2>. QED
    BY <2>2
<1>2. ASSUME NEW n \in Nat, n \in Found
      PROVE  n + 1 \in Found
  <2>1. PICK f : Rec(f, n)
    BY <1>2
  <2>. DEFINE last == IF names[n + 1] \in S THEN Append(f[n], names[n + 1]) ELSE f[n]
              g == [m \in 0..(n + 1) |-> IF m = n + 1 THEN last ELSE f[m]]
  <2>2. ASSUME NEW m \in 0..(n + 1)
        PROVE  g[m] = Step(names, S, g, m)
    <3>1. CASE m = n + 1
      BY <3>1 DEF Step
    <3>2. CASE m # n + 1
      <4>1. m \in 0..n /\ g[m] = f[m] /\ f[m] = Step(names, S, f, m)
        BY <2>1, <3>2
      <4>2. m # 0 => g[m - 1] = f[m - 1]
        BY <3>2
      <4>. QED
        BY <4>1, <4>2, Zenon DEF Step
    <3>. QED
      BY <3>1, <3>2
  <2>3. g = [m \in 0..(n + 1) |-> g[m]]
    OBVIOUS
  <2>. HIDE DEF g
  <2>4. Rec(g, n + 1)
    BY <2>2, <2>3
  <2>5. n + 1 \in Nat
    OBVIOUS
  <2>. QED
    BY <2>4, <2>5, Zenon
<1>3. Len(names) \in Found
  <2>. HIDE DEF Found
  <2>1. Nat \subseteq Found
    BY <1>1, <1>2, Induction
  <2>. QED
    BY <2>1, LenProperties
<1>4. \E f : Rec(f, Len(names))
  BY <1>3, Zenon
<1>. DEFINE selected == CHOOSE f : Rec(f, Len(names))
<1>5. Rec(selected, Len(names))
  BY <1>4, Zenon
<1>6. Selected(names, S) = selected[Len(names)]
  BY Zenon DEF Selected, Step
<1>. QED
  BY <1>5, <1>6, Zenon

LEMMA SelectedFacts ==
  ASSUME NEW T, NEW names \in Seq(T), NEW S
  PROVE  /\ Selected(names, S) \in Seq(T)
         /\ ToSet(names) \cap S \subseteq ToSet(Selected(names, S))
<1>. DEFINE last == Len(names)
<1>1. PICK f : /\ f = [n \in 0..last |-> Step(names, S, f, n)]
               /\ Selected(names, S) = f[last]
  BY SelectedDef
<1>2. last \in Nat /\ \A i \in 1..last : names[i] \in T
  BY LenProperties, ElementOfSeq
<1>. HIDE DEF last
<1>3. ASSUME NEW n \in 0..last
      PROVE  f[n] = Step(names, S, f, n)
  BY <1>1
<1>. DEFINE Has(n) == \A i \in 1..n : names[i] \in S => \E j \in 1..Len(f[n]) : f[n][j] = names[i]
            Good == {n \in Nat : n <= last => f[n] \in Seq(T) /\ Has(n)}
<1>4. 0 \in Good
  <2>1. f[0] = <<>>
    <3>1. 0 \in 0..last
      BY <1>2
    <3>. QED
      BY <1>3, <3>1, Zenon DEF Step
  <2>2. f[0] \in Seq(T) /\ Has(0)
    BY <2>1, EmptySeq
  <2>. QED
    BY <2>2
<1>5. ASSUME NEW n \in Nat, n \in Good
      PROVE  n + 1 \in Good
  <2>1. SUFFICES ASSUME n + 1 <= last
                 PROVE  f[n + 1] \in Seq(T) /\ Has(n + 1)
    <3>1. n + 1 \in Nat
      OBVIOUS
    <3>. QED
      BY <3>1, Zenon
  <2>2. f[n] \in Seq(T) /\ Has(n) /\ n + 1 \in 1..last
    BY <1>2, <1>5, <2>1
  <2>3. f[n + 1] = IF names[n + 1] \in S THEN Append(f[n], names[n + 1]) ELSE f[n]
    BY <1>3, <2>2 DEF Step
  <2>4. names[n + 1] \in T
    BY <1>2, <2>2
  <2>5. CASE names[n + 1] \in S
    <3>1. /\ f[n + 1] \in Seq(T)
          /\ Len(f[n + 1]) = Len(f[n]) + 1
          /\ \A j \in 1..Len(f[n]) : f[n + 1][j] = f[n][j]
          /\ f[n + 1][Len(f[n]) + 1] = names[n + 1]
      BY <2>2, <2>3, <2>4, <2>5, AppendProperties
    <3>2. Len(f[n]) \in Nat
      BY <2>2, LenProperties
    <3>3. ASSUME NEW i \in 1..(n + 1), names[i] \in S
          PROVE  \E j \in 1..Len(f[n + 1]) : f[n + 1][j] = names[i]
      <4>1. CASE i = n + 1
        BY <3>1, <3>2, <4>1
      <4>2. CASE i # n + 1
        <5>1. i \in 1..n
          BY <4>2
        <5>2. PICK j \in 1..Len(f[n]) : f[n][j] = names[i]
          BY <2>2, <3>3, <5>1, Zenon
        <5>3. j \in 1..Len(f[n + 1]) /\ f[n + 1][j] = names[i]
          BY <3>1, <3>2, <5>2
        <5>. QED
          BY <5>3
      <4>. QED
        BY <4>1, <4>2
    <3>. QED
      BY <3>1, <3>3
  <2>6. CASE names[n + 1] \notin S
    <3>1. f[n + 1] = f[n]
      BY <2>3, <2>6
    <3>2. ASSUME NEW i \in 1..(n + 1), names[i] \in S
          PROVE  i \in 1..n
      BY <2>6, <3>2
    <3>. QED
      BY <2>2, <3>1, <3>2, Zenon
  <2>. QED
    BY <2>5, <2>6
<1>6. f[last] \in Seq(T) /\ Has(last)
  <2>1. Nat \subseteq Good
    <3>. HIDE DEF Good
    <3>. QED
      BY <1>4, <1>5, Induction
  <2>2. last \in Good /\ last <= last
    BY <1>2, <2>1
  <2>. QED
    BY <2>2
<1>7. ASSUME NEW p \in ToSet(names), p \in S
      PROVE  p \in ToSet(f[last])
  <2>1. PICK i \in 1..last : names[i] = p
    BY LenProperties DEF ToSet, last
  <2>2. PICK j \in 1..Len(f[last]) : f[last][j] = p
    BY <1>6, <1>7, <2>1, Zenon
  <2>3. DOMAIN f[last] = 1..Len(f[last])
    BY <1>6, LenProperties
  <2>. QED
    BY <2>2, <2>3, Zenon DEF ToSet
<1>. QED
  BY <1>1, <1>6, <1>7, Zenon

-----------------------------------------------------------------------------
(* Batches and their halves.                                               *)

LEMMA ToSetFacts ==
  ASSUME NEW T, NEW s \in Seq(T)
  PROVE  /\ ToSet(s) = {s[i] : i \in 1..Len(s)}
         /\ ToSet(s) \subseteq T
<1>1. DOMAIN s = 1..Len(s)
  BY LenProperties
<1>2. \A i \in 1..Len(s) : s[i] \in T
  BY ElementOfSeq
<1>. QED
  BY <1>1, <1>2, Zenon DEF ToSet

LEMMA EmptyFacts ==
  ASSUME NEW T
  PROVE  <<>> \in Seq(T) /\ ToSet(<<>>) = {}
<1>1. <<>> \in Seq(T) /\ Len(<<>>) = 0
  BY EmptySeq, Zenon
<1>2. ToSet(<<>>) = {<<>>[i] : i \in 1..Len(<<>>)}
  BY <1>1, ToSetFacts, Zenon
<1>. QED
  BY <1>1, <1>2

LEMMA SliceFacts ==
  ASSUME NEW T, NEW s \in Seq(T), NEW m \in Nat \ {0}, NEW n \in Nat, n <= Len(s), m <= n
  PROVE  /\ SubSeq(s, m, n) \in Seq(T)
         /\ Len(SubSeq(s, m, n)) = n - m + 1
         /\ \A k \in m..n : s[k] \in ToSet(SubSeq(s, m, n))
<1>. DEFINE slice == SubSeq(s, m, n)
<1>1. Len(s) \in Nat /\ \A i \in 1..Len(s) : s[i] \in T
  BY LenProperties, ElementOfSeq
<1>2. \A i \in m..n : s[i] \in T
  BY <1>1
<1>3. /\ slice \in Seq(T) /\ Len(slice) = n - m + 1
      /\ \A i \in 1..(n - m + 1) : slice[i] = s[m + i - 1]
  BY <1>2, SubSeqProperties
<1>. HIDE DEF slice
<1>4. ASSUME NEW k \in m..n
      PROVE  s[k] \in ToSet(slice)
  <2>1. k - m + 1 \in 1..(n - m + 1) /\ m + (k - m + 1) - 1 = k
    OBVIOUS
  <2>2. slice[k - m + 1] = s[k]
    BY <1>3, <2>1
  <2>. QED
    BY <1>3, <2>1, <2>2, ToSetFacts
<1>. QED
  BY <1>3, <1>4 DEF slice

LEMMA HeadTailSet ==
  ASSUME NEW T, NEW s \in Seq(T), s # <<>>
  PROVE  /\ Head(s) \in T /\ Tail(s) \in Seq(T)
         /\ ToSet(s) = {Head(s)} \cup ToSet(Tail(s))
<1>1. /\ Head(s) \in T /\ Tail(s) \in Seq(T)
      /\ Len(Tail(s)) = Len(s) - 1
      /\ \A i \in 1..Len(Tail(s)) : Tail(s)[i] = s[i + 1]
  BY HeadTailProperties
<1>2. Len(s) \in Nat \ {0} /\ Head(s) = s[1]
  BY EmptySeq
<1>3. ToSet(s) = {s[i] : i \in 1..Len(s)} /\ ToSet(Tail(s)) = {Tail(s)[i] : i \in 1..Len(Tail(s))}
  BY <1>1, ToSetFacts, Zenon
<1>. DEFINE t == Tail(s)
<1>. HIDE DEF t
<1>4. \A i \in 1..Len(s) : i = 1 \/ (i - 1 \in 1..Len(t) /\ s[i] = t[i - 1])
  BY <1>1, <1>2 DEF t
<1>5. \A i \in 1..Len(t) : i + 1 \in 1..Len(s) /\ t[i] = s[i + 1]
  BY <1>1, <1>2 DEF t
<1>6. 1 \in 1..Len(s)
  BY <1>2
<1>7. ASSUME NEW x \in ToSet(s)
      PROVE  x \in {Head(s)} \cup ToSet(t)
  <2>1. PICK i \in 1..Len(s) : x = s[i]
    BY <1>3, Zenon
  <2>2. i = 1 \/ (i - 1 \in 1..Len(t) /\ x = t[i - 1])
    BY <1>4, <2>1, Zenon
  <2>. QED
    BY <1>2, <1>3, <2>1, <2>2, Zenon DEF t
<1>8. ASSUME NEW x \in ToSet(t)
      PROVE  x \in ToSet(s)
  <2>1. PICK i \in 1..Len(t) : x = t[i]
    BY <1>3, Zenon DEF t
  <2>. QED
    BY <1>3, <1>5, <2>1, Zenon
<1>9. Head(s) \in ToSet(s)
  BY <1>2, <1>3, <1>6, Zenon
<1>. QED
  BY <1>1, <1>7, <1>8, <1>9, Zenon DEF t

LEMMA TwoMore ==
  ASSUME NEW T, NEW a \in T, NEW b \in T, NEW s \in Seq(T)
  PROVE  /\ <<a, b>> \o s \in Seq(T)
         /\ ToSet(<<a, b>> \o s) = {a, b} \cup ToSet(s)
<1>. DEFINE t == <<a, b>> \o s
<1>1. Len(s) \in Nat /\ <<a, b>> \in Seq(T) /\ Len(<<a, b>>) = 2
  BY LenProperties
<1>2. /\ t \in Seq(T) /\ Len(t) = 2 + Len(s)
      /\ \A i \in 1..(2 + Len(s)) : t[i] = IF i <= 2 THEN <<a, b>>[i] ELSE s[i - 2]
  BY <1>1, ConcatProperties
<1>. HIDE DEF t
<1>3. ToSet(t) = {t[i] : i \in 1..Len(t)} /\ ToSet(s) = {s[i] : i \in 1..Len(s)}
  BY <1>2, ToSetFacts
<1>4. 1 \in 1..Len(t) /\ 2 \in 1..Len(t) /\ t[1] = a /\ t[2] = b
  BY <1>1, <1>2
<1>5. \A i \in 1..Len(t) : i = 1 \/ i = 2 \/ (i - 2 \in 1..Len(s) /\ t[i] = s[i - 2])
  BY <1>1, <1>2
<1>6. \A i \in 1..Len(s) : i + 2 \in 1..Len(t) /\ t[i + 2] = s[i]
  BY <1>1, <1>2
<1>7. ASSUME NEW x \in ToSet(t)
      PROVE  x \in {a, b} \cup ToSet(s)
  <2>1. PICK i \in 1..Len(t) : x = t[i]
    BY <1>3, Zenon
  <2>2. i = 1 \/ i = 2 \/ (i - 2 \in 1..Len(s) /\ x = s[i - 2])
    BY <1>5, <2>1, Zenon
  <2>. QED
    BY <1>3, <1>4, <2>1, <2>2, Zenon
<1>8. ASSUME NEW x \in ToSet(s)
      PROVE  x \in ToSet(t)
  <2>1. PICK i \in 1..Len(s) : x = s[i]
    BY <1>3, Zenon
  <2>. QED
    BY <1>3, <1>6, <2>1, Zenon
<1>9. a \in ToSet(t) /\ b \in ToSet(t)
  BY <1>3, <1>4, Zenon
<1>. QED
  BY <1>2, <1>7, <1>8, <1>9, Zenon DEF t

\* What the halves of a batch hold.
LEMMA HalfFacts ==
  ASSUME NEW T, NEW s \in Seq(T), Len(s) > 1
  PROVE  LET middle == Len(s) \div 2
             left   == SubSeq(s, 1, middle)
             right  == SubSeq(s, middle + 1, Len(s))
         IN  /\ left \in Seq(T) /\ Len(left) \in 1..Len(s)
             /\ right \in Seq(T) /\ Len(right) \in 1..Len(s)
             /\ ToSet(s) \subseteq ToSet(left) \cup ToSet(right)
<1>. DEFINE n      == Len(s)
            middle == n \div 2
            left   == SubSeq(s, 1, middle)
            right  == SubSeq(s, middle + 1, n)
<1>1. n \in Nat /\ n > 1
  BY LenProperties
<1>2. middle \in 1..(n - 1)
  <2>. HIDE DEF n
  <2>. QED
    BY <1>1
<1>. HIDE DEF middle
<1>3. /\ left \in Seq(T) /\ Len(left) = middle
      /\ \A k \in 1..middle : s[k] \in ToSet(left)
  BY <1>1, <1>2, SliceFacts
<1>4. /\ right \in Seq(T) /\ Len(right) = n - middle
      /\ \A k \in (middle + 1)..n : s[k] \in ToSet(right)
  BY <1>1, <1>2, SliceFacts
<1>. HIDE DEF left, right
<1>5. ToSet(s) = {s[k] : k \in 1..n}
  BY ToSetFacts
<1>. HIDE DEF n
<1>6. \A k \in 1..n : k \in 1..middle \/ k \in (middle + 1)..n
  BY <1>1, <1>2
<1>7. ToSet(s) \subseteq ToSet(left) \cup ToSet(right)
  BY <1>3, <1>4, <1>5, <1>6, Zenon
<1>8. Len(left) \in 1..n /\ Len(right) \in 1..n
  BY <1>1, <1>2, <1>3, <1>4
<1>. QED
  BY <1>3, <1>4, <1>7, <1>8, Zenon DEF left, right, middle, n

LEMMA FirstFacts ==
  ASSUME NEW T, NEW s \in Seq(T), Len(s) > 0
  PROVE  /\ s[1] \in ToSet(s)
         /\ Len(s) = 1 => ToSet(s) = {s[1]}
<1>1. ToSet(s) = {s[i] : i \in 1..Len(s)} /\ Len(s) \in Nat
  BY ToSetFacts, LenProperties
<1>. QED
  BY <1>1

\* The batches hold what was wanted, and are none of them empty or too large.
LEMMA BatchesFacts ==
  ASSUME ConfigLoaderAssumption, NEW T, NEW wanted \in Seq(T)
  PROVE  /\ Batches(wanted) \in Seq(Seq(T))
         /\ \A batch \in ToSet(Batches(wanted)) : batch \in Seq(T) /\ Len(batch) \in 1..BatchSize
         /\ \A p \in ToSet(wanted) : \E batch \in ToSet(Batches(wanted)) : p \in ToSet(batch)
<1>. DEFINE n == Len(wanted)
            B == BatchSize
            q == (n + B - 1) \div B
            lo(i) == (i - 1) * B + 1
            hi(i) == IF i * B < n THEN i * B ELSE n
            slice(i) == SubSeq(wanted, lo(i), hi(i))
<1>1. n \in Nat /\ B \in Nat \ {0} /\ DOMAIN wanted = 1..n
  BY LenProperties DEF ConfigLoaderAssumption
<1>2. Batches(wanted) = [i \in 1..q |-> slice(i)]
  BY Zenon DEF Batches
<1>. HIDE DEF n, B
<1>3. n + B - 1 \in Nat
  BY <1>1
<1>4. q \in Nat /\ B * q <= n + B - 1 /\ n + B - 1 < B * q + B
  BY <1>1, <1>3, DivFacts
<1>. HIDE DEF q
<1>5. ASSUME NEW i \in 1..q
      PROVE  /\ lo(i) \in Nat \ {0} /\ hi(i) \in Nat /\ lo(i) <= hi(i) /\ hi(i) <= n
             /\ hi(i) - lo(i) + 1 \in 1..B
  <2>1. /\ B * i \in Nat /\ B * (i - 1) \in Nat /\ B * i = B * (i - 1) + B
        /\ i * B = B * i /\ (i - 1) * B = B * (i - 1) /\ B * q \in Nat
    BY <1>1, <1>4
  <2>2. B * i <= B * q
    BY <1>1, <1>4, ProductLeq
  <2>. DEFINE x == B * i
              y == B * (i - 1)
              z == B * q
  <2>3. x \in Nat /\ y \in Nat /\ z \in Nat /\ x = y + B /\ x <= z /\ z <= n + B - 1
    BY <1>4, <2>1, <2>2
  <2>4. lo(i) = y + 1 /\ hi(i) = IF x < n THEN x ELSE n
    BY <2>1
  <2>. HIDE DEF x, y, z, lo, hi
  <2>. QED
    BY <1>1, <2>3, <2>4
<1>6. ASSUME NEW i \in 1..q
      PROVE  /\ slice(i) \in Seq(T) /\ Len(slice(i)) \in 1..B
             /\ \A k \in lo(i)..hi(i) : wanted[k] \in ToSet(slice(i))
  <2>. HIDE DEF lo, hi
  <2>. QED
    BY <1>5, SliceFacts DEF n
<1>. DEFINE batches == Batches(wanted)
<1>. HIDE DEF slice
<1>7. batches \in [1..q -> Seq(T)]
  BY <1>2, <1>6, Zenon
<1>8. batches \in Seq(Seq(T))
  <2>. DEFINE S == Seq(T)
  <2>1. batches \in [1..q -> S] /\ q \in Nat
    BY <1>4, <1>7
  <2>. HIDE DEF batches, S
  <2>2. batches \in Seq(S)
    BY <2>1, SMT
  <2>. QED
    BY <2>2 DEF S
<1>9. ToSet(batches) = {slice(i) : i \in 1..q}
  BY <1>2, Zenon DEF ToSet
<1>10. ASSUME NEW p \in ToSet(wanted)
       PROVE  \E batch \in ToSet(batches) : p \in ToSet(batch)
  <2>1. PICK k \in 1..n : wanted[k] = p
    BY <1>1, Zenon DEF ToSet
  <2>. DEFINE d == (k - 1) \div B
              i == d + 1
  <2>2. d \in Nat /\ B * d <= k - 1 /\ k - 1 < B * d + B
    BY <1>1, DivFacts
  <2>. HIDE DEF d
  <2>3. B * d < B * q
    <3>1. B * d \in Int /\ B * q \in Int
      BY <1>1, <1>4, <2>2
    <3>. DEFINE x == B * d
                z == B * q
    <3>2. x \in Int /\ z \in Int /\ x <= k - 1 /\ n + B - 1 < z + B
      BY <1>4, <2>2, <3>1
    <3>3. x < z
      <4>. HIDE DEF x, z
      <4>. QED
        BY <1>1, <3>2
    <3>. QED
      BY <3>3
  <2>4. d < q
    BY <1>1, <1>4, <2>2, <2>3, ProductLess
  <2>5. i \in 1..q
    BY <1>4, <2>2, <2>4
  <2>6. k \in lo(i)..hi(i)
    <3>1. lo(i) = B * d + 1 /\ i * B = B * d + B /\ B * d \in Int
      BY <1>1, <2>2
    <3>. DEFINE x == B * d
    <3>2. /\ lo(i) = x + 1 /\ hi(i) = (IF x + B < n THEN x + B ELSE n) /\ x \in Int
          /\ x <= k - 1 /\ k - 1 < x + B
      BY <2>2, <3>1
    <3>. HIDE DEF x, lo, hi
    <3>. QED
      BY <1>1, <3>2
  <2>. QED
    BY <1>6, <1>9, <2>1, <2>5, <2>6, Zenon
<1>. QED
  BY <1>6, <1>8, <1>9, <1>10, Zenon DEF B

-----------------------------------------------------------------------------
(* The words the definitions are written in, and the steps that touch none *)
(* of what the conjuncts of IInv relate.                                   *)
USE ConfigLoaderAssumption
USE DEF origin, future, IInv

Flags == {ok, expired, result} \subseteq BOOLEAN

LEMMA InitInv == Init => IInv
<1>. SUFFICES ASSUME Init  PROVE IInv
  OBVIOUS
<1>1. todo \in Seq(Seq(Params)) /\ ToSet(todo) = {}
  BY EmptyFacts, Zenon DEF Init
<1>2. Flags
  BY Zenon DEF Init, Flags
<1>3. TypeOK
  BY <1>1, <1>2, SMTT(60) DEF Init, TypeOK, Flags
<1>. QED
  BY <1>1, <1>3, SMT DEF Init, CallOK, TodoOK, ListOK, AnswerOK, CoverOK

LEMMA Stays ==
  ASSUME IInv, TypeOK', UNCHANGED <<value, pc, call, answer, todo, target, steady>>
  PROVE  IInv'
BY Zenon DEF CallOK, TodoOK, ListOK, AnswerOK, CoverOK, Expected, UpToDate, Settable

\* Without a call, and not in fetch(), there is little to hold.
LEMMA Rests ==
  ASSUME IInv, TypeOK', pc' # "fetch", call' = "none", todo' \in Seq(Seq(Params))
  PROVE  IInv'
BY SMT DEF CallOK, TodoOK, ListOK, AnswerOK, CoverOK

LEMMA ReturnInv ==
  ASSUME IInv, NEW success \in BOOLEAN, Return(success)
  PROVE  IInv'
<1>1. todo' \in Seq(Seq(Params)) /\ ToSet(todo') = {}
  BY EmptyFacts, Zenon DEF Return
<1>2. Flags'
  BY Zenon DEF Return, TypeOK, Flags
<1>3. ToSet(todo)' = {}
  BY <1>1, Zenon DEF ToSet
<1>4. TypeOK'
  BY <1>2, <1>3, SMTT(60) DEF Return, TypeOK, Flags
<1>5. pc' # "fetch" /\ call' = "none"
  BY SMT DEF Return
<1>. QED
  BY <1>1, <1>4, <1>5, Rests

LEMMA LoadInv ==
  ASSUME IInv, Load
  PROVE  IInv'
<1>1. Flags'
  BY Zenon DEF Load, TypeOK, Flags
<1>2. TypeOK'
  BY <1>1, SMTT(60) DEF Load, TypeOK, Flags
<1>3. pc' # "fetch" /\ call' = "none" /\ todo' \in Seq(Seq(Params))
  BY SMT DEF Load, CallOK, TodoOK, TypeOK
<1>. QED
  BY <1>2, <1>3, Rests

LEMMA ExpireInv ==
  ASSUME IInv, Expire
  PROVE  IInv'
<1>1. Flags'
  BY Zenon DEF Expire, TypeOK, Flags
<1>2. TypeOK'
  BY <1>1, SMTT(60) DEF Expire, TypeOK, Flags
<1>. QED
  BY <1>2, Stays, Zenon DEF Expire

LEMMA AppearInv ==
  ASSUME IInv, Appear
  PROVE  IInv'
<1>1. Flags'
  BY Zenon DEF Appear, TypeOK, Flags
<1>2. TypeOK'
  BY <1>1, SMTT(60) DEF Appear, TypeOK, Flags
<1>. QED
  BY <1>2, Stays, Zenon DEF Appear

LEMMA CtrlCInv ==
  ASSUME IInv, CtrlC
  PROVE  IInv'
<1>1. Flags'
  BY Zenon DEF CtrlC, TypeOK, Flags
<1>2. TypeOK'
  BY <1>1, SMTT(60) DEF CtrlC, TypeOK, Flags
<1>. QED
  BY <1>2, Stays, Zenon DEF CtrlC

LEMMA WaitForNodeInv ==
  ASSUME IInv, WaitForNode
  PROVE  IInv'
<1>1. CASE Return(FALSE)
  BY <1>1, ReturnInv
<1>2. CASE ~Return(FALSE)
  <2>1. /\ pc = "wait_node" /\ pc' = "wait_service"
        /\ UNCHANGED <<origin, expired, future, todo, target, result, loads, steady>>
    BY <1>2, Zenon DEF WaitForNode
  <2>2. Flags'
    BY <2>1, Zenon DEF TypeOK, Flags
  <2>3. TypeOK'
    BY <2>1, <2>2, SMTT(60) DEF TypeOK, Flags
  <2>4. pc' # "fetch" /\ call' = "none" /\ todo' \in Seq(Seq(Params))
    BY <2>1, SMT DEF CallOK, TodoOK, TypeOK
  <2>. QED
    BY <2>3, <2>4, Rests
<1>. QED
  BY <1>1, <1>2

LEMMA WaitForServiceInv ==
  ASSUME IInv, WaitForService
  PROVE  IInv'
<1>1. CASE Return(FALSE)
  BY <1>1, ReturnInv
<1>2. CASE ~Return(FALSE)
  <2>1. /\ pc = "wait_service" /\ pc' = "list" /\ call' = Sent
        /\ UNCHANGED <<origin, expired, answer, todo, target, result, loads, steady>>
    BY <1>2, Zenon DEF WaitForService
  <2>2. Flags' /\ Sent \in {"sent", "lost"}
    BY <2>1, Zenon DEF TypeOK, Flags, Sent
  <2>3. TypeOK'
    BY <2>1, <2>2, SMTT(60) DEF TypeOK, Flags
  <2>. QED
    BY <2>1, <2>2, <2>3, SMT DEF CallOK, TodoOK, ListOK, AnswerOK, CoverOK
<1>. QED
  BY <1>1, <1>2

LEMMA TimeOutInv ==
  ASSUME IInv, TimeOut
  PROVE  IInv'
BY ReturnInv DEF TimeOut

LEMMA FinishInv ==
  ASSUME IInv, Finish
  PROVE  IInv'
BY ReturnInv DEF Finish

LEMMA StutterInv ==
  ASSUME IInv, UNCHANGED vars
  PROVE  IInv'
BY Zenon DEF vars, TypeOK, CallOK, TodoOK, ListOK, AnswerOK, CoverOK, Expected, UpToDate,
             Settable

LEMMA VanishInv ==
  ASSUME IInv, Vanish
  PROVE  IInv'
<1>1. Flags'
  BY Zenon DEF Vanish, TypeOK, Flags
<1>2. /\ call' \in {"none", "sent", "lost", "answered"}
      /\ call' = "none" <=> call = "none"
      /\ call' = "answered" <=> call = "answered"
      /\ Expected' = Expected
  BY SMT DEF Vanish, TypeOK, Expected
<1>3. TypeOK'
  BY <1>1, <1>2, SMTT(60) DEF Vanish, TypeOK, Flags
<1>. QED
  BY <1>2, <1>3, Zenon
     DEF Vanish, CallOK, TodoOK, ListOK, AnswerOK, CoverOK, UpToDate, Settable

-----------------------------------------------------------------------------
(* The list of names.                                                      *)

LEMMA NamesFacts ==
  /\ Names \in Seq(Params) /\ ToSet(Names) = Params
BY Zenon DEF Params, ConfigLoaderAssumption

LEMMA FilterInv ==
  ASSUME IInv, Filter
  PROVE  IInv'
<1>. DEFINE wanted == Selected(answer, {p \in Params : MatchesPrefix(p)})
<1>1. CASE Return(FALSE)
  BY <1>1, ReturnInv
<1>2. CASE ~Return(FALSE)
  <2>1. /\ pc = "list" /\ call = "answered" /\ pc' = "fetch" /\ todo' = Batches(wanted)
        /\ call' = "none" /\ answer' = <<>>
        /\ UNCHANGED <<origin, expired, target, result, loads, steady>>
    BY <1>2, Zenon DEF Filter
  <2>2. answer \in Seq(Params) /\ Expected \subseteq ToSet(answer)
    BY <2>1, Zenon DEF ListOK
  <2>3. /\ wanted \in Seq(Params)
        /\ ToSet(answer) \cap {p \in Params : MatchesPrefix(p)} \subseteq ToSet(wanted)
    BY <2>2, SelectedFacts, Zenon
  <2>4. Expected \subseteq ToSet(wanted)
    <3>1. Expected \subseteq {p \in Params : MatchesPrefix(p)}
      BY Zenon DEF Expected, TypeOK
    <3>. QED
      BY <2>2, <2>3, <3>1, Zenon
  <2>. HIDE DEF wanted
  <2>5. /\ todo' \in Seq(Seq(Params))
        /\ \A batch \in ToSet(todo') : batch \in Seq(Params) /\ Len(batch) \in 1..BatchSize
        /\ \A p \in ToSet(wanted) : \E batch \in ToSet(todo') : p \in ToSet(batch)
    BY <2>1, <2>3, BatchesFacts, Zenon
  <2>6. Flags'
    BY <2>1, Zenon DEF TypeOK, Flags
  <2>7. \A batch \in ToSet(todo)' : batch \in Seq(Params) /\ Len(batch) \in 1..BatchSize
    BY <2>5, Zenon DEF ToSet
  <2>8. TypeOK'
    BY <2>1, <2>6, <2>7, SMTT(60) DEF TypeOK, Flags
  <2>9. CoverOK'
    <3>1. Expected' = Expected
      BY <2>1, Zenon DEF Expected
    <3>2. \A p \in Expected : \E batch \in ToSet(todo)' : p \in ToSet(batch)
      BY <2>4, <2>5, Zenon DEF ToSet
    <3>. QED
      BY <3>1, <3>2, Zenon DEF CoverOK
  <2>. QED
    BY <2>1, <2>5, <2>8, <2>9, SMT DEF CallOK, TodoOK, ListOK, AnswerOK
<1>. QED
  BY <1>1, <1>2

LEMMA AskInv ==
  ASSUME IInv, Ask
  PROVE  IInv'
<1>1. Flags' /\ Sent \in {"sent", "lost"}
  BY Zenon DEF Ask, TypeOK, Flags, Sent
<1>2. TypeOK'
  BY <1>1, SMTT(60) DEF Ask, TypeOK, Flags
<1>3. CoverOK'
  BY Zenon DEF Ask, CoverOK, Expected, UpToDate, Settable
<1>. QED
  BY <1>1, <1>2, <1>3, SMT DEF Ask, CallOK, TodoOK, ListOK, AnswerOK

LEMMA ChangeInv ==
  ASSUME IInv, Change
  PROVE  IInv'
<1>1. PICK p \in Params, v \in Values \cup {NoValue, Undeclared} :
        value' = [value EXCEPT ![p] = v] /\ steady' = steady \ {p}
  BY Zenon DEF Change
<1>2. /\ changes < MaxChanges /\ changes' = changes + 1
      /\ UNCHANGED <<source, ok, pc, expired, future, todo, target, result, loads>>
  BY Zenon DEF Change
<1>3. value' \in [Params -> Values \cup {NoValue, Undeclared}] /\ steady' \subseteq steady
  BY <1>1, Zenon DEF TypeOK
<1>4. \A x \in steady' : value'[x] = value[x]
  BY <1>1, SMT DEF TypeOK
<1>5. Flags'
  BY <1>2, Zenon DEF TypeOK, Flags
<1>6. TypeOK'
  BY <1>2, <1>3, <1>5, SMTT(60) DEF TypeOK, Flags
<1>7. Expected' \subseteq Expected
  BY <1>3, <1>4, Zenon DEF Expected
<1>8. CallOK' /\ TodoOK'
  BY <1>2, Zenon DEF CallOK, TodoOK
<1>9. ListOK'
  BY <1>2, <1>7, Zenon DEF ListOK
<1>10. AnswerOK'
  BY <1>2, <1>3, <1>4, <1>7, Zenon DEF AnswerOK
<1>11. CoverOK'
  <2>1. \A x \in Expected' : value'[x] = value[x]
    BY <1>4, Zenon DEF Expected
  <2>. QED
    BY <1>2, <1>7, <2>1, Zenon DEF CoverOK, UpToDate, Settable
<1>. QED
  BY <1>6, <1>8, <1>9, <1>10, <1>11, Zenon

LEMMA ServeInv ==
  ASSUME IInv, Serve
  PROVE  IInv'
<1>1. /\ call = "sent" /\ call' = "answered"
      /\ answer' = (IF pc = "list" THEN ListParameters ELSE GetParameters(Head(todo)))
      /\ UNCHANGED <<origin, pc, expired, todo, target, result, loads, steady>>
  BY Zenon DEF Serve
<1>2. Flags'
  BY <1>1, Zenon DEF TypeOK, Flags
<1>3. TypeOK'
  BY <1>1, <1>2, SMTT(60) DEF TypeOK, Flags
<1>4. Expected' = Expected
  BY <1>1, Zenon DEF Expected
<1>5. CallOK' /\ TodoOK' /\ CoverOK'
  BY <1>1, <1>4, Zenon DEF CallOK, TodoOK, CoverOK, UpToDate, Settable
<1>6. ListOK'
  <2>1. SUFFICES ASSUME pc = "list"
                 PROVE  ListParameters \in Seq(Params) /\ Expected \subseteq ToSet(ListParameters)
    BY <1>1, <1>4, Zenon DEF ListOK
  <2>2. /\ ListParameters \in Seq(Params)
        /\ Params \cap {p \in Params : value[p] # Undeclared} \subseteq ToSet(ListParameters)
    BY NamesFacts, SelectedFacts, Zenon DEF ListParameters
  <2>3. Expected \subseteq {p \in Params : value[p] # Undeclared}
    BY Zenon DEF Expected, TypeOK, ConfigLoaderAssumption
  <2>. QED
    BY <2>2, <2>3, Zenon
<1>7. AnswerOK'
  <2>. DEFINE batch == ToSet(Head(todo))
  <2>1. SUFFICES ASSUME pc = "fetch"
                 PROVE  \/ /\ answer' \in [batch -> Values]
                           /\ \A p \in batch \cap steady : answer'[p] = value[p]
                        \/ /\ answer' = <<>>
                           /\ \E p \in batch : p \notin Expected
    BY <1>1, <1>4, Zenon DEF AnswerOK
  <2>2. answer' = GetParameters(Head(todo))
    BY <1>1, <2>1
  <2>3. CASE \A p \in batch : value[p] \in Values
    <3>1. answer' = [p \in batch |-> value[p]]
      BY <2>2, <2>3, Zenon DEF GetParameters
    <3>. HIDE DEF batch
    <3>. QED
      BY <2>3, <3>1
  <2>4. CASE ~\A p \in batch : value[p] \in Values
    <3>1. answer' = <<>>
      BY <2>2, <2>4, Zenon DEF GetParameters
    <3>. QED
      BY <2>4, <3>1, Zenon DEF Expected
  <2>. QED
    BY <2>3, <2>4
<1>. QED
  BY <1>3, <1>5, <1>6, <1>7, Zenon

-----------------------------------------------------------------------------
(* An answer to fetch().                                                   *)

LEMMA BatchFacts ==
  ASSUME TypeOK, TodoOK, todo # <<>>
  PROVE  LET batch == Head(todo)
         IN  /\ batch \in Seq(Params) /\ Len(batch) \in 1..BatchSize
             /\ batch[1] \in ToSet(batch) /\ ToSet(batch) \subseteq Params
             /\ Tail(todo) \in Seq(Seq(Params))
             /\ ToSet(todo) = {batch} \cup ToSet(Tail(todo))
<1>. DEFINE batch == Head(todo)
<1>1. /\ Tail(todo) \in Seq(Seq(Params))
      /\ ToSet(todo) = {batch} \cup ToSet(Tail(todo))
  BY HeadTailSet, Zenon DEF TodoOK
<1>2. batch \in Seq(Params) /\ Len(batch) \in 1..BatchSize
  BY <1>1, Zenon DEF TypeOK
<1>. HIDE DEF batch
<1>3. Len(batch) > 0
  BY <1>2 DEF ConfigLoaderAssumption
<1>4. batch[1] \in ToSet(batch) /\ ToSet(batch) \subseteq Params
  BY <1>2, <1>3, FirstFacts, ToSetFacts
<1>. QED
  BY <1>1, <1>2, <1>4, Zenon DEF batch

\* After an answer fetch() goes on without a call, with what is to come.
LEMMA FetchedFacts ==
  ASSUME IInv, Fetched, target' \in [Params -> Values \cup {Undeclared}],
         todo' \in Seq(Seq(Params)),
         \A batch \in ToSet(todo') : batch \in Seq(Params) /\ Len(batch) \in 1..BatchSize,
         \A p \in Expected :
           UpToDate(p)' \/ \E batch \in ToSet(todo') : p \in ToSet(batch)
  PROVE  IInv'
<1>1. Flags'
  BY Zenon DEF Fetched, TypeOK, Flags
<1>2. \A batch \in ToSet(todo)' : batch \in Seq(Params) /\ Len(batch) \in 1..BatchSize
  BY Zenon DEF ToSet
<1>3. TypeOK'
  BY <1>1, <1>2, SMTT(60) DEF Fetched, TypeOK, Flags
<1>4. Expected' = Expected /\ value' = value
  BY Zenon DEF Fetched, Expected
<1>5. CoverOK'
  BY <1>4, Zenon DEF CoverOK, ToSet
<1>. QED
  BY <1>3, <1>5, SMT DEF Fetched, CallOK, TodoOK, ListOK, AnswerOK

LEMMA UpToDateKept ==
  ASSUME NEW p, UpToDate(p), target'[p] = target[p], value'[p] = value[p]
  PROVE  UpToDate(p)'
BY Zenon DEF UpToDate, Settable

LEMMA TakeWholeInv ==
  ASSUME IInv, TakeWhole
  PROVE  IInv'
<1>. DEFINE batch == Head(todo)
<1>1. Fetched /\ Whole /\ todo' = Tail(todo) /\ pc = "fetch" /\ call = "answered"
  BY Zenon DEF TakeWhole, Fetched
<1>2. todo # <<>>
  BY <1>1, SMT DEF CallOK
<1>3. /\ batch[1] \in ToSet(batch) /\ ToSet(batch) \subseteq Params
      /\ Tail(todo) \in Seq(Seq(Params))
      /\ ToSet(todo) = {batch} \cup ToSet(Tail(todo))
  BY <1>2, BatchFacts, Zenon
<1>4. DOMAIN answer = ToSet(batch)
  BY <1>1, Zenon DEF Whole
<1>5. answer # <<>>
  BY <1>3, <1>4
<1>6. /\ answer \in [ToSet(batch) -> Values]
      /\ \A p \in ToSet(batch) \cap steady : answer[p] = value[p]
  BY <1>1, <1>5, Zenon DEF AnswerOK
<1>. HIDE DEF batch
<1>7. target' = [p \in Params |-> IF p \in ToSet(batch) /\ Settable(p, answer[p])
                                   THEN answer[p] ELSE target[p]]
  BY <1>4, Zenon DEF TakeWhole, DeclareIfNeeded
<1>8. target' \in [Params -> Values \cup {Undeclared}]
  BY <1>6, <1>7, SMT DEF TypeOK
<1>9. ASSUME NEW p \in Expected
      PROVE  UpToDate(p)' \/ \E b \in ToSet(todo') : p \in ToSet(b)
  <2>1. p \in Params /\ p \in steady
    BY Zenon DEF Expected, TypeOK
  <2>2. CASE p \in ToSet(batch)
    <3>1. answer[p] = value[p] /\ value'[p] = value[p]
      BY <1>1, <1>6, <2>1, <2>2, Zenon DEF Fetched
    <3>2. CASE Settable(p, answer[p])
      <4>1. target'[p] = value'[p]
        BY <1>7, <2>1, <2>2, <3>1, <3>2, Zenon
      <4>. QED
        BY <4>1, Zenon DEF UpToDate
    <3>3. CASE ~Settable(p, answer[p])
      <4>1. target'[p] = target[p]
        BY <1>7, <2>1, <3>3, Zenon
      <4>2. ~Settable(p, value[p])
        BY <3>1, <3>3, Zenon
      <4>. QED
        BY <3>1, <4>1, <4>2, UpToDateKept, Zenon DEF UpToDate
    <3>. QED
      BY <3>2, <3>3
  <2>3. CASE p \notin ToSet(batch)
    <3>1. target'[p] = target[p] /\ value'[p] = value[p]
      BY <1>1, <1>7, <2>1, <2>3, Zenon DEF Fetched
    <3>2. UpToDate(p) \/ \E b \in ToSet(todo) : p \in ToSet(b)
      BY <1>1, Zenon DEF CoverOK
    <3>. QED
      BY <1>1, <1>3, <2>3, <3>1, <3>2, UpToDateKept, Zenon
  <2>. QED
    BY <2>2, <2>3
<1>10. \A b \in ToSet(todo') : b \in Seq(Params) /\ Len(b) \in 1..BatchSize
  BY <1>1, <1>3, Zenon DEF TypeOK
<1>. QED
  BY <1>1, <1>3, <1>8, <1>9, <1>10, FetchedFacts, Zenon

\* A batch of one that was not answered held nothing that is expected.
LEMMA SkipInv ==
  ASSUME IInv, Skip
  PROVE  IInv'
<1>. DEFINE batch == Head(todo)
<1>1. /\ Fetched /\ ~Whole /\ Len(batch) = 1 /\ todo' = Tail(todo) /\ target' = target
      /\ pc = "fetch" /\ call = "answered"
  BY Zenon DEF Skip, Fetched
<1>2. todo # <<>>
  BY <1>1, SMT DEF CallOK
<1>3. /\ batch \in Seq(Params)
      /\ Tail(todo) \in Seq(Seq(Params))
      /\ ToSet(todo) = {batch} \cup ToSet(Tail(todo))
  BY <1>2, BatchFacts, Zenon
<1>4. PICK x \in ToSet(batch) : x \notin Expected
  <2>1. ~(answer \in [ToSet(batch) -> Values])
    BY <1>1, Zenon DEF Whole
  <2>. QED
    BY <1>1, <2>1, Zenon DEF AnswerOK
<1>. HIDE DEF batch
<1>5. ToSet(batch) = {batch[1]}
  <2>1. Len(batch) = 1 /\ Len(batch) > 0
    <3>1. Len(batch) = 1
      BY <1>1, Zenon DEF batch
    <3>. QED
      BY <3>1
  <2>. QED
    BY <1>3, <2>1, FirstFacts
<1>6. ASSUME NEW p \in Expected
      PROVE  UpToDate(p)' \/ \E b \in ToSet(todo') : p \in ToSet(b)
  <2>1. UpToDate(p) \/ \E b \in ToSet(todo) : p \in ToSet(b)
    BY <1>1, Zenon DEF CoverOK
  <2>2. p \notin ToSet(batch)
    BY <1>4, <1>5, Zenon
  <2>3. UpToDate(p) => UpToDate(p)'
    BY <1>1, UpToDateKept, Zenon DEF Fetched
  <2>. QED
    BY <1>1, <1>3, <2>1, <2>2, <2>3, Zenon
<1>7. \A b \in ToSet(todo') : b \in Seq(Params) /\ Len(b) \in 1..BatchSize
  BY <1>1, <1>3, Zenon DEF TypeOK
<1>8. target' \in [Params -> Values \cup {Undeclared}]
  BY <1>1, Zenon DEF TypeOK
<1>. QED
  BY <1>1, <1>3, <1>6, <1>7, <1>8, FetchedFacts, Zenon

LEMMA HalveInv ==
  ASSUME IInv, Halve
  PROVE  IInv'
<1>. DEFINE batch  == Head(todo)
            n      == Len(batch)
            middle == n \div 2
            left   == SubSeq(batch, 1, middle)
            right  == SubSeq(batch, middle + 1, n)
<1>1. /\ Fetched /\ n > 1 /\ target' = target /\ pc = "fetch" /\ call = "answered"
      /\ todo' = <<left, right>> \o Tail(todo)
  BY Zenon DEF Halve, Fetched
<1>2. todo # <<>>
  BY <1>1, SMT DEF CallOK
<1>3. /\ batch \in Seq(Params) /\ n \in 1..BatchSize
      /\ Tail(todo) \in Seq(Seq(Params))
      /\ ToSet(todo) = {batch} \cup ToSet(Tail(todo))
  BY <1>2, BatchFacts, Zenon
<1>4. /\ left \in Seq(Params) /\ Len(left) \in 1..n
      /\ right \in Seq(Params) /\ Len(right) \in 1..n
      /\ ToSet(batch) \subseteq ToSet(left) \cup ToSet(right)
  <2>. HIDE DEF batch
  <2>. QED
    BY <1>1, <1>3, HalfFacts
<1>. HIDE DEF batch, left, right
<1>5. n \in 1..BatchSize => \A k \in 1..n : k \in 1..BatchSize
  <2>. HIDE DEF n
  <2>. QED
    BY DEF ConfigLoaderAssumption
<1>6. Len(left) \in 1..BatchSize /\ Len(right) \in 1..BatchSize
  BY <1>3, <1>4, <1>5, Zenon
<1>7. ToSet(batch) \subseteq ToSet(left) \cup ToSet(right)
  BY <1>4
<1>8. /\ todo' \in Seq(Seq(Params))
      /\ ToSet(todo') = {left, right} \cup ToSet(Tail(todo))
  <2>. DEFINE S == Seq(Params)
              rest == Tail(todo)
  <2>1. left \in S /\ right \in S /\ rest \in Seq(S) /\ todo' = <<left, right>> \o rest
    BY <1>1, <1>3, <1>4, Zenon
  <2>. HIDE DEF S, rest
  <2>2. todo' \in Seq(S) /\ ToSet(todo') = {left, right} \cup ToSet(rest)
    BY <2>1, TwoMore, SMT
  <2>. QED
    BY <2>2, Zenon DEF S, rest
<1>9. \A b \in ToSet(todo') : b \in Seq(Params) /\ Len(b) \in 1..BatchSize
  BY <1>3, <1>4, <1>6, <1>8, Zenon DEF TypeOK
<1>10. ASSUME NEW p \in Expected
       PROVE  UpToDate(p)' \/ \E b \in ToSet(todo') : p \in ToSet(b)
  <2>1. UpToDate(p) \/ \E b \in ToSet(todo) : p \in ToSet(b)
    BY <1>1, Zenon DEF CoverOK
  <2>2. UpToDate(p) => UpToDate(p)'
    BY <1>1, UpToDateKept, Zenon DEF Fetched
  <2>. QED
    BY <1>1, <1>3, <1>7, <1>8, <2>1, <2>2, Zenon
<1>11. target' \in [Params -> Values \cup {Undeclared}]
  BY <1>1, Zenon DEF TypeOK
<1>. QED
  BY <1>1, <1>8, <1>9, <1>10, <1>11, FetchedFacts, Zenon

-----------------------------------------------------------------------------
(* Every step, and the theorems.                                           *)
HIDE DEF IInv

LEMMA NextInv ==
  ASSUME IInv, [Next]_vars
  PROVE  IInv'
BY LoadInv, ExpireInv, WaitForNodeInv, WaitForServiceInv, TimeOutInv, FilterInv, AskInv,
   TakeWholeInv, SkipInv, HalveInv, FinishInv, AppearInv, VanishInv, ChangeInv, ServeInv,
   CtrlCInv, StutterInv, Zenon DEF Next, Loader

\* The invariant the others follow from.
THEOREM Invariance == Spec => []IInv
BY InitInv, NextInv, PTL DEF Spec

\* The source and the target keep their types, and every batch in fetch(), however
\* often it was halved, has between one and kParameterBatchSize names.
THEOREM TypeCorrect == Spec => []TypeOK
<1>1. IInv => TypeOK
  BY Zenon DEF IInv
<1>. QED
  BY <1>1, Invariance, PTL

\* Only a load that has nothing left to ask for returns true.
LEMMA Returns ==
  ASSUME Next, pc = "fetch", pc' = "idle", result' = TRUE
  PROVE  todo = <<>> /\ target' = target /\ value' = value
<1>1. CASE Finish
  BY <1>1, Zenon DEF Finish, Return
<1>2. CASE TimeOut
  BY <1>2, Zenon DEF TimeOut, Return
<1>3. pc' # pc
  BY SMT
<1>4. CASE \/ Expire \/ Ask \/ TakeWhole \/ Skip \/ Halve \/ Appear \/ Vanish \/ Change
           \/ Serve \/ CtrlC
  BY <1>3, <1>4, Zenon
     DEF Expire, Ask, TakeWhole, Skip, Halve, Fetched, Appear, Vanish, Change, Serve, CtrlC
<1>5. CASE Load \/ WaitForNode \/ WaitForService \/ Filter
  BY <1>5, SMT DEF Load, WaitForNode, WaitForService, Filter
<1>. QED
  BY <1>1, <1>2, <1>4, <1>5, Zenon DEF Next, Loader

\* When a load returns true, every matching parameter that has kept its value is up to
\* date on the target: copied, or refused there because an earlier load has declared it
\* with another type. Batches, halvings and what else earlier loads left lose nothing.
THEOREM Complete == Spec => LoadIsComplete
<1>1. ASSUME IInv, Next, pc = "fetch", pc' = "idle", result',
             NEW p \in steady, MatchesPrefix(p), value[p] \in Values
      PROVE  UpToDate(p)'
  <2>1. result' = TRUE
    <3>1. TypeOK'
      BY <1>1, NextInv, Zenon DEF IInv
    <3>2. result' \in BOOLEAN
      BY <3>1, Zenon DEF TypeOK
    <3>. QED
      BY <1>1, <3>2, Zenon
  <2>2. todo = <<>> /\ target' = target /\ value' = value
    BY <1>1, <2>1, Returns, Zenon
  <2>3. ToSet(todo) = {}
    BY <2>2, EmptyFacts, Zenon
  <2>4. CoverOK /\ p \in Expected
    BY <1>1, Zenon DEF IInv, Expected
  <2>. QED
    BY <1>1, <2>2, <2>3, <2>4, UpToDateKept, Zenon DEF CoverOK
<1>2. IInv /\ [Next]_vars
      => [pc = "fetch" /\ pc' = "idle" /\ result'
            => \A p \in steady :
                 MatchesPrefix(p) /\ value[p] \in Values => UpToDate(p)']_vars
  BY <1>1, Zenon
<1>. QED
  BY <1>2, Invariance, PTL DEF Spec, LoadIsComplete

=============================================================================
