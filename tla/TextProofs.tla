----------------------------- MODULE TextProofs -----------------------------
(***************************************************************************)
(* Theorems about the texts the server reads, however long they are and    *)
(* whatever tokens they are made of.                                       *)
(***************************************************************************)
EXTENDS TextChecks, Integers, SequenceTheorems, FiniteSetTheorems, WellFoundedInduction, TLAPS

-----------------------------------------------------------------------------
\* Induction, as facts about sets of numbers.

\* The library orders Nat by a relation that has a minimum in every set.
LEMMA LessIsWellFounded ==
    \E R : IsWellFoundedOn(R, Nat) /\ \A x, y \in Nat : <<y, x>> \in R <=> y < x
<1>. DEFINE R == OpToRel(<, Nat)
<1>1. IsWellFoundedOn(R, Nat)
  BY NatLessThanWellFounded
<1>2. \A x, y \in Nat : <<y, x>> \in R <=> y < x
  BY DEF OpToRel
<1>. HIDE DEF R
<1>. QED
  BY <1>1, <1>2

\* A set of numbers that is not empty has a least element.
LEMMA LeastNumber ==
    ASSUME NEW T, T \subseteq Nat, T # {}
    PROVE  \E x \in T : \A y \in T : x <= y
<1>1. PICK R : IsWellFoundedOn(R, Nat) /\ \A x, y \in Nat : <<y, x>> \in R <=> y < x
  BY LessIsWellFounded
<1>2. PICK x \in T : \A y \in T : <<y, x>> \notin R
  BY <1>1, WFMin
<1>3. ASSUME NEW y \in T PROVE x <= y
  <2>1. x \in Nat /\ y \in Nat
    OBVIOUS
  <2>2. ~(y < x)
    BY <1>1, <1>2, <2>1
  <2>. QED
    BY <2>1, <2>2
<1>. QED
  BY <1>3

\* A bounded one has a greatest.
LEMMA GreatestNumber ==
    ASSUME NEW n \in Nat, NEW T, T \subseteq 0..n, T # {}
    PROVE  \E x \in T : \A y \in T : y <= x
<1>. DEFINE U == {m \in 0..n : n - m \in T}
<1>1. U \subseteq Nat /\ U # {}
  <2>1. PICK x \in T : TRUE
    OBVIOUS
  <2>2. x \in 0..n
    BY <2>1
  <2>3. n - (n - x) = x /\ n - x \in 0..n
    BY <2>2
  <2>4. n - x \in U
    BY <2>1, <2>3
  <2>5. U \subseteq Nat
    OBVIOUS
  <2>. QED
    BY <2>4, <2>5
<1>2. PICK m \in U : \A k \in U : m <= k
  BY <1>1, LeastNumber
<1>3. ASSUME NEW y \in T PROVE y <= n - m
  <2>1. n - y \in U
    BY <1>3
  <2>. QED
    BY <1>2, <1>3, <2>1
<1>. QED
  BY <1>2, <1>3

\* What holds at 0 and is handed on from each number below n to the next.
LEMMA UpTo ==
    ASSUME NEW n \in Nat, NEW T, 0 \in T, \A k \in 0..(n - 1) : k \in T => k + 1 \in T
    PROVE  \A k \in 0..n : k \in T
<1>. SUFFICES ASSUME 0..n \ T # {} PROVE FALSE
  OBVIOUS
<1>1. PICK x \in 0..n \ T : \A y \in 0..n \ T : x <= y
  <2>. DEFINE U == 0..n \ T
  <2>1. U \subseteq Nat /\ U # {}
    OBVIOUS
  <2>. HIDE DEF U
  <2>2. \E x \in U : \A y \in U : x <= y
    BY <2>1, LeastNumber
  <2>. QED
    BY <2>2 DEF U
<1>2. x # 0 /\ x - 1 \in 0..(n - 1) /\ x - 1 \in T
  BY <1>1
<1>. QED
  BY <1>1, <1>2

\* f takes values in X, the first is base and the others are given by step.
Recursive(f, n, X, base, step) ==
    f \in [0..n -> X] /\ f[0] = base /\ \A i \in 1..n : f[i] = step[i][f[i - 1]]

\* There is such a function.
LEMMA RecursionHasFunction ==
    ASSUME NEW n \in Nat, NEW X, NEW base \in X, NEW step \in [1..n -> [X -> X]]
    PROVE  \E f : Recursive(f, n, X, base, step)
<1>. DEFINE Good(k, f) == f[0] = base /\ \A i \in 1..k : f[i] = step[i][f[i - 1]]
            T == {k \in 0..n : \E f \in [0..k -> X] : Good(k, f)}
<1>1. 0 \in T
  <2>1. [i \in 0..0 |-> base] \in [0..0 -> X] /\ Good(0, [i \in 0..0 |-> base])
    OBVIOUS
  <2>2. \E f \in [0..0 -> X] : Good(0, f)
    BY <2>1
  <2>. QED
    BY <2>2
<1>2. ASSUME NEW k \in 0..(n - 1), k \in T PROVE k + 1 \in T
  <2>1. PICK f \in [0..k -> X] : Good(k, f)
    BY <1>2
  <2>. DEFINE g == [i \in 0..(k + 1) |-> IF i = k + 1 THEN step[k + 1][f[k]] ELSE f[i]]
  <2>2. step[k + 1][f[k]] \in X
    BY <2>1
  <2>3. g \in [0..(k + 1) -> X]
    BY <2>1, <2>2
  <2>4. \A i \in 0..k : g[i] = f[i]
    OBVIOUS
  <2>5. g[k + 1] = step[k + 1][g[k]]
    BY <2>4
  <2>6. \A i \in 1..k : g[i] = step[i][g[i - 1]]
    BY <2>1, <2>4
  <2>7. Good(k + 1, g)
    <3>1. g[0] = base
      BY <2>1, <2>4
    <3>. HIDE DEF g
    <3>. QED
      BY <2>5, <2>6, <3>1
  <2>8. \E h \in [0..(k + 1) -> X] : Good(k + 1, h)
    BY <2>3, <2>7
  <2>9. k + 1 \in 0..n
    OBVIOUS
  <2>. HIDE DEF Good
  <2>. QED
    BY <2>8, <2>9
<1>3. n \in T
  <2>. HIDE DEF T
  <2>1. \A k \in 0..(n - 1) : k \in T => k + 1 \in T
    BY <1>2
  <2>2. \A k \in 0..n : k \in T
    BY <1>1, <2>1, UpTo
  <2>3. n \in 0..n
    OBVIOUS
  <2>. QED
    BY <2>2, <2>3
<1>. QED
  BY <1>3 DEF Recursive

-----------------------------------------------------------------------------
\* split: what it returns is reached by taking one token after the other.

\* The parts that there may be: at least one.
Parts(S) == Seq(Seq(S)) \ { <<>> }

\* Reading a token leaves at least one part, over the same tokens.
LEMMA TakeTokenType ==
    ASSUME NEW S, NEW parts \in Parts(S), NEW token \in S, NEW Ends
    PROVE  TakeToken(parts, token, Ends) \in Parts(S)
<1>1. parts \in Seq(Seq(S)) /\ Len(parts) \in 1..Len(parts) /\ Len(parts) \in Nat \ {0}
  BY DEF Parts
<1>2. CASE token \in Ends
  <2>1. /\ Append(parts, <<>>) \in Seq(Seq(S))
        /\ Len(Append(parts, <<>>)) = Len(parts) + 1
    BY <1>1
  <2>. QED
    BY <1>1, <1>2, <2>1 DEF TakeToken, Parts
<1>3. CASE token \notin Ends
  <2>. DEFINE longer == Append(parts[Len(parts)], token)
  <2>1. longer \in Seq(S)
    BY <1>1
  <2>2. [parts EXCEPT ![Len(parts)] = longer] \in Seq(Seq(S))
    BY <1>1, <2>1
  <2>3. Len([parts EXCEPT ![Len(parts)] = longer]) = Len(parts)
    BY <1>1, <2>2
  <2>. QED
    BY <1>1, <1>3, <2>2, <2>3 DEF TakeToken, Parts
<1>. QED
  BY <1>2, <1>3

\* The function split is defined by exists, and is given token by token.
LEMMA SplitUnfolds ==
    ASSUME NEW S, NEW s \in Seq(S), NEW Ends
    PROVE  \E f \in [0..Len(s) -> Parts(S)] :
              /\ f[0] = << <<>> >>
              /\ \A i \in 1..Len(s) : f[i] = TakeToken(f[i - 1], s[i], Ends)
              /\ split(s, Ends) = f[Len(s)]
<1>. DEFINE n == Len(s)
            X == Parts(S)
            base == << <<>> >>
            Next_(g) == [i \in 0..n |-> IF i = 0 THEN base ELSE TakeToken(g[i - 1], s[i], Ends)]
            step == [i \in 1..n |-> [p \in X |-> TakeToken(p, s[i], Ends)]]
            f == CHOOSE g : g = Next_(g)
<1>1. n \in Nat /\ \A i \in 1..n : s[i] \in S
  OBVIOUS
<1>2. base \in X
  BY DEF Parts
<1>3. step \in [1..n -> [X -> X]]
  BY <1>1, TakeTokenType
<1>4. \E h : h = Next_(h)
  <2>1. PICK h : Recursive(h, n, X, base, step)
    <3>1. n \in Nat
      BY <1>1
    <3>. HIDE DEF step, X, base, n, Next_, f
    <3>. QED
      BY <3>1, <1>2, <1>3, RecursionHasFunction
  <2>2. ASSUME NEW i \in 1..n PROVE h[i] = TakeToken(h[i - 1], s[i], Ends)
    <3>1. h[i] = step[i][h[i - 1]] /\ h[i - 1] \in X
      BY <1>1, <2>1 DEF Recursive
    <3>. HIDE DEF X
    <3>. QED
      BY <3>1
  <2>3. h = Next_(h)
    <3>1. ASSUME NEW i \in 0..n
          PROVE  h[i] = IF i = 0 THEN base ELSE TakeToken(h[i - 1], s[i], Ends)
      <4>1. i = 0 \/ i \in 1..n
        BY <1>1
      <4>. QED
        BY <4>1, <2>1, <2>2 DEF Recursive
    <3>. QED
      BY <2>1, <3>1 DEF Recursive
  <2>. QED
    BY <2>3
<1>5. f = Next_(f)
  <2>. HIDE DEF Next_
  <2>. QED
    BY <1>4
<1>6. split(s, Ends) = f[n]
  BY DEF split
<1>. HIDE DEF f
<1>7. f[0] = base /\ \A i \in 1..n : f[i] = TakeToken(f[i - 1], s[i], Ends)
  BY <1>1, <1>5
<1>8. \A k \in 0..n : f[k] \in X
  <2>. DEFINE T == {k \in 0..n : f[k] \in X}
  <2>1. 0 \in T
    BY <1>1, <1>2, <1>7
  <2>2. ASSUME NEW k \in 0..(n - 1), k \in T PROVE k + 1 \in T
    <3>1. f[k + 1] = TakeToken(f[k], s[k + 1], Ends) /\ f[k] \in X /\ s[k + 1] \in S
      BY <1>1, <1>7, <2>2
    <3>. HIDE DEF f, X
    <3>. QED
      BY <1>1, <2>2, <3>1, TakeTokenType DEF X
  <2>. HIDE DEF T
  <2>3. \A k \in 0..n : k \in T
    BY <1>1, <2>1, <2>2, UpTo
  <2>. QED
    BY <2>3 DEF T
<1>9. f \in [0..n -> X]
  BY <1>5, <1>8
<1>. QED
  BY <1>6, <1>7, <1>9

-----------------------------------------------------------------------------
\* Slices of a text.

\* The length of a slice, and its tokens.
LEMMA Slice ==
    ASSUME NEW S, NEW s \in Seq(S), NEW i \in 1..(Len(s) + 1), NEW j \in 0..Len(s)
    PROVE  /\ SubSeq(s, i, j) \in Seq(S)
           /\ Len(SubSeq(s, i, j)) = IF i <= j THEN j - i + 1 ELSE 0
           /\ \A k \in 1..(j - i + 1) : SubSeq(s, i, j)[k] = s[i + k - 1]
<1>1. i \in Int /\ j \in Int /\ \A k \in i..j : s[k] \in S
  OBVIOUS
<1>. QED
  BY <1>1, SubSeqProperties

\* The slice that ends one token later is the slice and that token.
LEMMA SliceGrows ==
    ASSUME NEW S, NEW s \in Seq(S), NEW i \in 0..Len(s), NEW k \in i..(Len(s) - 1)
    PROVE  SubSeq(s, i + 1, k + 1) = Append(SubSeq(s, i + 1, k), s[k + 1])
<1>1. i + 1 \in 1..Len(s) /\ k + 1 \in (i + 1)..Len(s) /\ (k + 1) - 1 = k
  OBVIOUS
<1>2. SubSeq(s, i + 1, k + 1) = SubSeq(s, i + 1, k) \o <<s[k + 1]>>
  BY <1>1, SubSeqRecursiveSecond
<1>3. SubSeq(s, i + 1, k) \in Seq(S) /\ s[k + 1] \in S
  BY <1>1, Slice
<1>. QED
  BY <1>2, <1>3, AppendIsConcat

-----------------------------------------------------------------------------
\* The parts are the slices between two ends with none in between.

\* An end, or the beginning of the text.
Opens(s, Ends, i) == i = 0 \/ s[i] \in Ends

\* None of the tokens from i to j ends a part.
NoEnd(s, Ends, i, j) == \A x \in i..j : s[x] \notin Ends

\* A part that is over once the end at j has been read.
Closed(s, Ends, i, j) ==
    Opens(s, Ends, i) /\ s[j] \in Ends /\ NoEnd(s, Ends, i + 1, j - 1)

\* The first k tokens read, the last of `parts' is still open.
Reading(s, Ends, k, parts) ==
    /\ \E i \in 0..k : /\ Opens(s, Ends, i) /\ NoEnd(s, Ends, i + 1, k)
                       /\ parts[Len(parts)] = SubSeq(s, i + 1, k)
    /\ \A x \in 1..(Len(parts) - 1) :
          \E i, j \in 0..k : i < j /\ Closed(s, Ends, i, j) /\ parts[x] = SubSeq(s, i + 1, j - 1)
    /\ \A i, j \in 0..k : i < j /\ Closed(s, Ends, i, j) =>
          \E x \in 1..(Len(parts) - 1) : parts[x] = SubSeq(s, i + 1, j - 1)

\* The next token is taken into the parts that have been read.
LEMMA ReadingGoesOn ==
    ASSUME NEW S, NEW s \in Seq(S), NEW Ends, NEW k \in 0..(Len(s) - 1),
           NEW parts \in Parts(S), Reading(s, Ends, k, parts)
    PROVE  Reading(s, Ends, k + 1, TakeToken(parts, s[k + 1], Ends))
<1>. DEFINE m == Len(parts)
            token == s[k + 1]
<1>. SUFFICES ASSUME NEW next, next = TakeToken(parts, token, Ends)
              PROVE  Reading(s, Ends, k + 1, next)
  OBVIOUS
<1>1. /\ parts \in Seq(Seq(S)) /\ m \in Nat \ {0} /\ m \in 1..m /\ token \in S
      /\ k \in Nat /\ k + 1 \in 1..Len(s) /\ Len(s) \in Nat
  BY DEF Parts
<1>2. PICK o \in 0..k : /\ Opens(s, Ends, o) /\ NoEnd(s, Ends, o + 1, k)
                        /\ parts[m] = SubSeq(s, o + 1, k)
  BY DEF Reading
<1>3. CASE token \in Ends
  <2>1. next = Append(parts, <<>>)
    BY <1>3 DEF TakeToken
  <2>2. /\ Len(next) = m + 1 /\ next[m + 1] = <<>>
        /\ \A x \in 1..m : next[x] = parts[x]
    BY <1>1, <2>1
  <2>3. /\ Opens(s, Ends, k + 1) /\ NoEnd(s, Ends, k + 2, k + 1)
        /\ next[Len(next)] = SubSeq(s, k + 2, k + 1)
    BY <1>1, <1>3, <2>2, SubSeqEmpty DEF Opens, NoEnd
  <2>4. Closed(s, Ends, o, k + 1) /\ next[m] = SubSeq(s, o + 1, k) /\ (k + 1) - 1 = k
    <3>1. (k + 1) - 1 = k /\ next[m] = parts[m]
      BY <1>1, <2>2
    <3>2. s[k + 1] \in Ends
      BY <1>3
    <3>3. Closed(s, Ends, o, k + 1)
      BY <1>2, <3>1, <3>2 DEF Closed
    <3>. QED
      BY <1>2, <3>1, <3>3
  <2>5. ASSUME NEW x \in 1..(Len(next) - 1)
        PROVE  \E i, j \in 0..(k + 1) : /\ i < j /\ Closed(s, Ends, i, j)
                                        /\ next[x] = SubSeq(s, i + 1, j - 1)
    <3>1. CASE x = m
      BY <1>1, <3>1, <2>4
    <3>2. CASE x # m
      <4>1. x \in 1..(m - 1) /\ x \in 1..m
        BY <1>1, <2>2, <3>2
      <4>2. PICK i \in 0..k, j \in 0..k : /\ i < j /\ Closed(s, Ends, i, j)
                                          /\ parts[x] = SubSeq(s, i + 1, j - 1)
        BY <4>1 DEF Reading
      <4>3. i \in 0..(k + 1) /\ j \in 0..(k + 1) /\ next[x] = parts[x]
        BY <1>1, <2>2, <4>1
      <4>. QED
        BY <4>2, <4>3
    <3>. QED
      BY <3>1, <3>2
  <2>6. ASSUME NEW i \in 0..(k + 1), NEW j \in 0..(k + 1), i < j, Closed(s, Ends, i, j)
        PROVE  \E x \in 1..(Len(next) - 1) : next[x] = SubSeq(s, i + 1, j - 1)
    <3>1. CASE j = k + 1
      <4>1. i = o
        <5>1. i \in 0..k
          BY <2>6, <3>1
        <5>2. ~(i < o)
          BY <1>1, <1>2, <2>6, <3>1, <5>1 DEF Closed, Opens, NoEnd
        <5>3. ~(o < i)
          BY <1>1, <1>2, <2>6, <5>1 DEF Closed, Opens, NoEnd
        <5>. QED
          BY <5>1, <5>2, <5>3
      <4>2. m \in 1..(Len(next) - 1) /\ j - 1 = k
        BY <1>1, <2>2, <3>1
      <4>. QED
        BY <2>4, <4>1, <4>2
    <3>2. CASE j # k + 1
      <4>1. i \in 0..k /\ j \in 0..k
        BY <1>1, <2>6, <3>2
      <4>2. PICK x \in 1..(m - 1) : parts[x] = SubSeq(s, i + 1, j - 1)
        BY <2>6, <4>1 DEF Reading
      <4>3. x \in 1..(Len(next) - 1) /\ next[x] = parts[x]
        BY <1>1, <2>2
      <4>. QED
        BY <4>2, <4>3
    <3>. QED
      BY <3>1, <3>2
  <2>7. k + 1 \in 0..(k + 1) /\ (k + 1) + 1 = k + 2
    BY <1>1
  <2>. QED
    BY <2>3, <2>5, <2>6, <2>7 DEF Reading
<1>4. CASE token \notin Ends
  <2>. DEFINE longer == Append(parts[m], token)
  <2>1. next = [parts EXCEPT ![m] = longer]
    BY <1>4 DEF TakeToken
  <2>2. longer \in Seq(S)
    BY <1>1
  <2>3. /\ Len(next) = m /\ next[m] = longer
        /\ \A x \in 1..(m - 1) : next[x] = parts[x]
    BY <1>1, <2>1, <2>2, ExceptSeq
  <2>4. /\ Opens(s, Ends, o) /\ NoEnd(s, Ends, o + 1, k + 1)
        /\ next[Len(next)] = SubSeq(s, o + 1, k + 1)
    <3>1. longer = SubSeq(s, o + 1, k + 1)
      <4>1. o \in 0..Len(s) /\ k \in o..(Len(s) - 1)
        BY <1>1
      <4>. QED
        BY <1>2, <4>1, SliceGrows
    <3>2. NoEnd(s, Ends, o + 1, k + 1)
      BY <1>1, <1>2, <1>4 DEF NoEnd
    <3>. QED
      BY <1>2, <2>3, <3>1, <3>2
  <2>5. ASSUME NEW x \in 1..(Len(next) - 1)
        PROVE  \E i, j \in 0..(k + 1) : /\ i < j /\ Closed(s, Ends, i, j)
                                        /\ next[x] = SubSeq(s, i + 1, j - 1)
    <3>1. PICK i \in 0..k, j \in 0..k : /\ i < j /\ Closed(s, Ends, i, j)
                                        /\ parts[x] = SubSeq(s, i + 1, j - 1)
      BY <2>3, <2>5 DEF Reading
    <3>2. i \in 0..(k + 1) /\ j \in 0..(k + 1)
      BY <1>1
    <3>. QED
      BY <2>3, <2>5, <3>1, <3>2
  <2>6. ASSUME NEW i \in 0..(k + 1), NEW j \in 0..(k + 1), i < j, Closed(s, Ends, i, j)
        PROVE  \E x \in 1..(Len(next) - 1) : next[x] = SubSeq(s, i + 1, j - 1)
    <3>1. j # k + 1
      BY <1>4, <2>6 DEF Closed
    <3>2. i \in 0..k /\ j \in 0..k
      BY <1>1, <2>6, <3>1
    <3>3. PICK x \in 1..(m - 1) : parts[x] = SubSeq(s, i + 1, j - 1)
      BY <2>6, <3>2 DEF Reading
    <3>. QED
      BY <1>1, <2>3, <3>3
  <2>7. o \in 0..(k + 1)
    BY <1>1
  <2>. QED
    BY <2>4, <2>5, <2>6, <2>7 DEF Reading
<1>. QED
  BY <1>3, <1>4

\* An end, or either end of the text.
Bound(s, Ends, i) == i = 0 \/ i = Len(s) + 1 \/ s[i] \in Ends

\* There is a part between the bounds i and j.
PartAt(s, Ends, i, j) ==
    /\ i \in 0..Len(s) /\ j \in (i + 1)..(Len(s) + 1)
    /\ Bound(s, Ends, i) /\ Bound(s, Ends, j) /\ NoEnd(s, Ends, i + 1, j - 1)

\* split reads a text to its end.
LEMMA SplitReads ==
    ASSUME NEW S, NEW s \in Seq(S), NEW Ends
    PROVE  split(s, Ends) \in Parts(S) /\ Reading(s, Ends, Len(s), split(s, Ends))
<1>. DEFINE n == Len(s)
<1>1. n \in Nat
  OBVIOUS
<1>2. PICK f \in [0..n -> Parts(S)] :
              /\ f[0] = << <<>> >>
              /\ \A i \in 1..n : f[i] = TakeToken(f[i - 1], s[i], Ends)
              /\ split(s, Ends) = f[n]
  BY SplitUnfolds
<1>. DEFINE T == {k \in 0..n : Reading(s, Ends, k, f[k])}
<1>3. 0 \in T
  <2>1. Len(f[0]) = 1 /\ f[0][1] = <<>> /\ SubSeq(s, 1, 0) = <<>>
    BY <1>2, SubSeqEmpty
  <2>2. Opens(s, Ends, 0) /\ NoEnd(s, Ends, 1, 0)
    BY DEF Opens, NoEnd
  <2>3. 0 \in 0..n /\ 0 \in 0..0 /\ 0 + 1 = 1
    BY <1>1
  <2>4. Reading(s, Ends, 0, f[0])
    BY <2>1, <2>2, <2>3 DEF Reading
  <2>. QED
    BY <2>3, <2>4
<1>4. ASSUME NEW k \in 0..(n - 1), k \in T PROVE k + 1 \in T
  <2>1. f[k] \in Parts(S) /\ f[k + 1] = TakeToken(f[k], s[k + 1], Ends) /\ k + 1 \in 0..n
    <3>1. k \in 0..n /\ k + 1 \in 1..n /\ (k + 1) - 1 = k /\ k + 1 \in 0..n
      BY <1>1
    <3>. QED
      BY <1>2, <3>1
  <2>2. Reading(s, Ends, k + 1, f[k + 1])
    BY <1>4, <2>1, ReadingGoesOn
  <2>. QED
    BY <2>1, <2>2
<1>5. n \in T
  <2>1. n \in 0..n
    BY <1>1
  <2>. HIDE DEF T
  <2>. QED
    BY <1>1, <1>3, <1>4, <2>1, UpTo
<1>6. n \in 0..n
  BY <1>1
<1>. QED
  BY <1>2, <1>5, <1>6

\* What split returns: the slices between two bounds with no end in between.
LEMMA SplitParts ==
    ASSUME NEW S, NEW s \in Seq(S), NEW Ends, NEW part
    PROVE  (\E x \in 1..Len(split(s, Ends)) : split(s, Ends)[x] = part)
           <=> \E i, j \in 0..(Len(s) + 1) :
                  PartAt(s, Ends, i, j) /\ part = SubSeq(s, i + 1, j - 1)
<1>. SUFFICES ASSUME NEW n, n = Len(s), NEW parts, parts = split(s, Ends)
              PROVE  (\E x \in 1..Len(parts) : parts[x] = part)
                     <=> \E i, j \in 0..(n + 1) :
                            PartAt(s, Ends, i, j) /\ part = SubSeq(s, i + 1, j - 1)
  OBVIOUS
<1>1. n \in Nat /\ parts \in Parts(S) /\ Reading(s, Ends, n, parts)
  BY SplitReads
<1>2. parts \in Seq(Seq(S)) /\ Len(parts) \in 1..Len(parts) /\ Len(parts) \in Nat \ {0}
  BY <1>1 DEF Parts
<1>3. PICK o \in 0..n : /\ Opens(s, Ends, o) /\ NoEnd(s, Ends, o + 1, n)
                        /\ parts[Len(parts)] = SubSeq(s, o + 1, n)
  BY <1>1 DEF Reading
<1>4. PartAt(s, Ends, o, n + 1) /\ (n + 1) - 1 = n /\ o \in 0..(n + 1) /\ n + 1 \in 0..(n + 1)
  BY <1>1, <1>3 DEF PartAt, Bound, Opens
<1>5. ASSUME NEW i \in 0..n, NEW j \in 0..n, i < j
      PROVE  Closed(s, Ends, i, j) <=> PartAt(s, Ends, i, j)
  <2>1. j # 0 /\ j # n + 1 /\ i # n + 1 /\ i \in 0..Len(s) /\ j \in (i + 1)..(Len(s) + 1)
    BY <1>1, <1>5
  <2>. QED
    BY <2>1 DEF Closed, PartAt, Bound, Opens
<1>6. ASSUME NEW x \in 1..Len(parts), parts[x] = part
      PROVE  \E i, j \in 0..(n + 1) : PartAt(s, Ends, i, j) /\ part = SubSeq(s, i + 1, j - 1)
  <2>1. CASE x = Len(parts)
    BY <1>3, <1>4, <1>6, <2>1
  <2>2. CASE x # Len(parts)
    <3>1. x \in 1..(Len(parts) - 1)
      BY <1>2, <2>2
    <3>2. PICK i \in 0..n, j \in 0..n : /\ i < j /\ Closed(s, Ends, i, j)
                                        /\ parts[x] = SubSeq(s, i + 1, j - 1)
      BY <1>1, <3>1 DEF Reading
    <3>3. PartAt(s, Ends, i, j) /\ i \in 0..(n + 1) /\ j \in 0..(n + 1)
      BY <1>1, <1>5, <3>2
    <3>. QED
      BY <1>6, <3>2, <3>3
  <2>. QED
    BY <2>1, <2>2
<1>7. ASSUME NEW i \in 0..(n + 1), NEW j \in 0..(n + 1), PartAt(s, Ends, i, j)
      PROVE  \E x \in 1..Len(parts) : parts[x] = SubSeq(s, i + 1, j - 1)
  <2>1. i \in 0..n /\ j \in (i + 1)..(n + 1) /\ i < j
    BY <1>1, <1>7 DEF PartAt
  <2>2. CASE j = n + 1
    <3>1. ~(i < o)
      BY <1>1, <1>3, <1>7, <2>1, <2>2 DEF PartAt, NoEnd, Opens
    <3>2. ~(o < i)
      BY <1>1, <1>3, <1>7, <2>1 DEF PartAt, Bound, NoEnd
    <3>3. i = o
      BY <2>1, <3>1, <3>2
    <3>. QED
      BY <1>2, <1>3, <1>4, <2>2, <3>3
  <2>3. CASE j # n + 1
    <3>1. j \in 0..n
      BY <1>1, <2>1, <2>3
    <3>2. Closed(s, Ends, i, j)
      BY <1>5, <1>7, <2>1, <3>1
    <3>3. PICK x \in 1..(Len(parts) - 1) : parts[x] = SubSeq(s, i + 1, j - 1)
      BY <1>1, <2>1, <3>1, <3>2 DEF Reading
    <3>4. x \in 1..Len(parts)
      BY <1>2
    <3>. QED
      BY <3>3, <3>4
  <2>. QED
    BY <2>2, <2>3
<1>8. (\E x \in 1..Len(parts) : parts[x] = part) =>
          \E i, j \in 0..(n + 1) : PartAt(s, Ends, i, j) /\ part = SubSeq(s, i + 1, j - 1)
  BY <1>6
<1>9. ASSUME NEW i \in 0..(n + 1), NEW j \in 0..(n + 1),
             PartAt(s, Ends, i, j), part = SubSeq(s, i + 1, j - 1)
      PROVE  \E x \in 1..Len(parts) : parts[x] = part
  BY <1>7, <1>9
<1>. QED
  BY <1>8, <1>9

\* The parts of s are these.
AreParts(parts, s, Ends) ==
    \A part : (\E x \in 1..Len(parts) : parts[x] = part)
              <=> \E i, j \in 0..(Len(s) + 1) :
                     PartAt(s, Ends, i, j) /\ part = SubSeq(s, i + 1, j - 1)

\* split returns the parts.
LEMMA SplitAreParts ==
    ASSUME NEW S, NEW s \in Seq(S), NEW Ends
    PROVE  AreParts(split(s, Ends), s, Ends)
<1>. DEFINE parts == split(s, Ends)
<1>1. ASSUME NEW part
      PROVE  (\E x \in 1..Len(parts) : parts[x] = part)
             <=> \E i, j \in 0..(Len(s) + 1) :
                    PartAt(s, Ends, i, j) /\ part = SubSeq(s, i + 1, j - 1)
  BY SplitParts
<1>. QED
  BY <1>1 DEF AreParts

-----------------------------------------------------------------------------
\* trim: from the first token that is no blank to the last.

\* Blanks only, from i to j.
Blank(s, i, j) == \A k \in i..j : s[k] = "blank"

\* All of s that is no blank lies between i and j, which are none.
Solid(s, i, j) ==
    /\ i \in 1..Len(s) /\ j \in i..Len(s) /\ s[i] # "blank" /\ s[j] # "blank"
    /\ Blank(s, 1, i - 1) /\ Blank(s, j + 1, Len(s))

\* Every text is blank or has a first and a last token that is not.
LEMMA BlankOrSolid ==
    ASSUME NEW S, NEW s \in Seq(S)
    PROVE  Blank(s, 1, Len(s)) \/ \E i, j \in 1..Len(s) : Solid(s, i, j)
<1>. DEFINE T == {i \in 1..Len(s) : s[i] # "blank"}
<1>1. Len(s) \in Nat /\ T \subseteq Nat /\ T \subseteq 0..Len(s)
  OBVIOUS
<1>2. CASE T = {}
  BY <1>2 DEF Blank
<1>3. CASE T # {}
  <2>. HIDE DEF T
  <2>1. PICK i \in T : \A k \in T : i <= k
    BY <1>1, <1>3, LeastNumber
  <2>2. PICK j \in T : \A k \in T : k <= j
    BY <1>1, <1>3, GreatestNumber
  <2>3. /\ i \in 1..Len(s) /\ j \in 1..Len(s) /\ i <= j
        /\ s[i] # "blank" /\ s[j] # "blank"
    BY <2>1, <2>2 DEF T
  <2>4. \A k \in 1..Len(s) : k < i \/ k > j => s[k] = "blank"
    BY <1>1, <2>1, <2>2, <2>3 DEF T
  <2>5. Solid(s, i, j)
    <3>1. Blank(s, 1, i - 1)
      BY <1>1, <2>3, <2>4 DEF Blank
    <3>2. Blank(s, j + 1, Len(s))
      BY <1>1, <2>3, <2>4 DEF Blank
    <3>3. j \in i..Len(s)
      BY <1>1, <2>3
    <3>. QED
      BY <2>3, <3>1, <3>2, <3>3 DEF Solid
  <2>. QED
    BY <2>3, <2>5
<1>. QED
  BY <1>2, <1>3

\* Nothing is left of a blank text.
LEMMA TrimBlank ==
    ASSUME NEW s, Blank(s, 1, Len(s))
    PROVE  trim(s) = {} /\ trimmed(s) = <<>>
BY DEF Blank, trim, trimmed

\* Of any other, what stands between its outermost solid tokens is left.
LEMMA TrimSolid ==
    ASSUME NEW S, NEW s \in Seq(S), NEW i, NEW j, Solid(s, i, j)
    PROVE  trim(s) = {SubSeq(s, i, j)} /\ trimmed(s) = SubSeq(s, i, j)
<1>. DEFINE T == {k \in 1..Len(s) : s[k] # "blank"}
<1>1. Len(s) \in Nat /\ i \in T /\ j \in T /\ i \in Nat /\ j \in Nat
  BY DEF Solid
<1>2. \A k \in T : i <= k /\ k <= j
  BY <1>1 DEF Solid, Blank
<1>3. {k \in T : \A l \in T : k <= l} = {i}
  <2>1. ASSUME NEW k \in T, \A l \in T : k <= l PROVE k = i
    BY <1>1, <1>2, <2>1
  <2>. HIDE DEF T
  <2>. QED
    BY <1>1, <1>2, <2>1
<1>4. {k \in T : \A l \in T : l <= k} = {j}
  <2>1. ASSUME NEW k \in T, \A l \in T : l <= k PROVE k = j
    BY <1>1, <1>2, <2>1
  <2>. HIDE DEF T
  <2>. QED
    BY <1>1, <1>2, <2>1
<1>5. trim(s) = {SubSeq(s, k, l) : k \in {k \in T : \A m \in T : k <= m},
                                   l \in {l \in T : \A m \in T : m <= l}}
  BY DEF trim
<1>6. trim(s) = {SubSeq(s, i, j)}
  <2>. HIDE DEF T
  <2>. QED
    BY <1>3, <1>4, <1>5
<1>. QED
  BY <1>6 DEF trimmed

\* The slice of a text from m to l, trimmed, is that from i to j.
TrimsTo(s, m, l, i, j) ==
    /\ trim(SubSeq(s, m, l)) = {SubSeq(s, i, j)}
    /\ trimmed(SubSeq(s, m, l)) = SubSeq(s, i, j)

\* It is when only blanks stand around that.
LEMMA TrimSlice ==
    ASSUME NEW S, NEW s \in Seq(S), NEW m \in 1..Len(s), NEW l \in m..Len(s),
           NEW i \in m..l, NEW j \in i..l, s[i] # "blank", s[j] # "blank",
           Blank(s, m, i - 1), Blank(s, j + 1, l)
    PROVE  TrimsTo(s, m, l, i, j)
<1>. SUFFICES ASSUME NEW part, part = SubSeq(s, m, l),
                     NEW x, x = i - m + 1, NEW y, y = j - m + 1
              PROVE  trim(part) = {SubSeq(s, i, j)} /\ trimmed(part) = SubSeq(s, i, j)
  BY DEF TrimsTo
<1>1. /\ Len(s) \in Nat /\ m \in 1..(Len(s) + 1) /\ l \in 0..Len(s) /\ l \in 1..Len(s)
      /\ x \in 1..(l - m + 1) /\ y \in x..(l - m + 1) /\ y \in 1..(l - m + 1)
      /\ m + x - 1 = i /\ m + y - 1 = j
  OBVIOUS
<1>2. /\ part \in Seq(S) /\ Len(part) = l - m + 1
      /\ \A k \in 1..(l - m + 1) : part[k] = s[m + k - 1]
  BY <1>1, Slice
<1>3. Solid(part, x, y)
  <2>1. part[x] # "blank" /\ part[y] # "blank"
    BY <1>1, <1>2
  <2>2. ASSUME NEW k \in 1..(x - 1) PROVE part[k] = "blank"
    <3>1. k \in 1..(l - m + 1) /\ m + k - 1 \in m..(i - 1)
      BY <1>1
    <3>. QED
      BY <1>2, <3>1 DEF Blank
  <2>3. ASSUME NEW k \in (y + 1)..(l - m + 1) PROVE part[k] = "blank"
    <3>1. k \in 1..(l - m + 1) /\ m + k - 1 \in (j + 1)..l
      BY <1>1
    <3>. QED
      BY <1>2, <3>1 DEF Blank
  <2>. QED
    BY <1>1, <1>2, <2>1, <2>2, <2>3 DEF Solid, Blank
<1>4. SubSeq(part, x, y) = SubSeq(s, m + x - 1, m + y - 1)
  BY <1>1, SubSeqOfSubSeq
<1>5. trim(part) = {SubSeq(part, x, y)} /\ trimmed(part) = SubSeq(part, x, y)
  BY <1>2, <1>3, TrimSolid
<1>6. SubSeq(part, x, y) = SubSeq(s, i, j)
  BY <1>1, <1>4
<1>. QED
  BY <1>5, <1>6

-----------------------------------------------------------------------------
\* Lists.

\* What ends a name on a list.
Comma == {"comma"}

\* What is left of a part stands in the list.
LEMMA PartStands ==
    ASSUME NEW S, raw \in Seq(S), NEW i \in 0..(Len(raw) + 1), NEW j \in 0..(Len(raw) + 1),
           PartAt(raw, Comma, i, j), NEW name \in trim(SubSeq(raw, i + 1, j - 1))
    PROVE  name \in Substrings /\ IsName(name) /\ Stands(name)
<1>. DEFINE n == Len(raw)
            part == SubSeq(raw, i + 1, j - 1)
<1>1. n \in Nat /\ i \in 0..n /\ j \in (i + 1)..(n + 1) /\ NoEnd(raw, Comma, i + 1, j - 1)
  BY DEF PartAt
<1>2. /\ part \in Seq(S) /\ Len(part) = j - i - 1
      /\ \A k \in 1..(j - i - 1) : part[k] = raw[i + k]
  <2>1. i + 1 \in 1..(n + 1) /\ j - 1 \in 0..n /\ (j - 1) - (i + 1) + 1 = j - i - 1
    BY <1>1
  <2>2. \A k \in 1..(j - i - 1) : (i + 1) + k - 1 = i + k
    BY <1>1
  <2>. HIDE DEF n, part
  <2>. QED
    BY <1>1, <2>1, <2>2, Slice DEF n, part
<1>3. PICK a, b \in 1..Len(part) : Solid(part, a, b)
  BY <1>2, BlankOrSolid, TrimBlank
<1>. DEFINE c == i + a
            d == i + b
<1>4. /\ a \in 1..(j - i - 1) /\ b \in a..(j - i - 1)
      /\ part[a] # "blank" /\ part[b] # "blank"
      /\ Blank(part, 1, a - 1) /\ Blank(part, b + 1, j - i - 1)
  BY <1>2, <1>3 DEF Solid
<1>5. c \in 1..n /\ d \in c..n /\ d \in 1..n /\ c \in (i + 1)..(j - 1) /\ d \in (i + 1)..(j - 1)
  BY <1>1, <1>4
<1>6. name = SubSeq(raw, c, d)
  <2>1. name = SubSeq(part, a, b)
    BY <1>2, <1>3, TrimSolid
  <2>2. /\ i + 1 \in 1..n /\ j - 1 \in 1..n
        /\ a \in 1..((j - 1) - (i + 1) + 1) /\ b \in 1..((j - 1) - (i + 1) + 1)
        /\ (i + 1) + a - 1 = c /\ (i + 1) + b - 1 = d
    BY <1>1, <1>4
  <2>. HIDE DEF c, d
  <2>3. SubSeq(part, a, b) = SubSeq(raw, (i + 1) + a - 1, (i + 1) + b - 1)
    BY <2>2, SubSeqOfSubSeq
  <2>. QED
    BY <2>1, <2>2, <2>3
<1>7. name \in Substrings
  BY <1>5, <1>6 DEF Substrings
<1>8. IsName(name)
  <2>1. Len(name) = d - c + 1 /\ \A k \in 1..(d - c + 1) : name[k] = raw[c + k - 1]
    <3>1. c \in 1..(n + 1) /\ d \in 0..n /\ c <= d
      BY <1>1, <1>5
    <3>. HIDE DEF c, d
    <3>. QED
      BY <1>6, <3>1, Slice
  <2>2. \A k \in 1..Len(name) : c + k - 1 \in (i + 1)..(j - 1) /\ name[k] = raw[c + k - 1]
    BY <1>1, <1>4, <2>1
  <2>3. \A k \in 1..Len(name) : name[k] # "comma"
    BY <1>1, <2>2 DEF NoEnd, Comma
  <2>4. name[1] = raw[c] /\ name[Len(name)] = raw[d] /\ Len(name) \in Nat \ {0}
    <3>1. 1 \in 1..(d - c + 1) /\ c + 1 - 1 = c /\ d - c + 1 \in 1..(d - c + 1)
          /\ c + (d - c + 1) - 1 = d /\ d - c + 1 \in Nat \ {0}
      BY <1>1, <1>4
    <3>. QED
      BY <2>1, <3>1
  <2>5. raw[c] = part[a] /\ raw[d] = part[b]
    BY <1>1, <1>2, <1>4
  <2>6. name # <<>>
    BY <2>4
  <2>. QED
    BY <1>4, <2>3, <2>4, <2>5, <2>6 DEF IsName
<1>9. Stands(name)
  <2>1. /\ i + 1 \in 1..c
        /\ i + 1 = 1 \/ raw[(i + 1) - 1] = "comma"
        /\ \A k \in (i + 1)..(c - 1) : raw[k] = "blank"
    <3>1. i + 1 \in 1..c /\ (i + 1) - 1 = i
      BY <1>1, <1>4
    <3>2. i = 0 \/ raw[i] = "comma"
      BY <1>1 DEF PartAt, Bound, Comma
    <3>3. ASSUME NEW k \in (i + 1)..(c - 1) PROVE raw[k] = "blank"
      <4>1. k - i \in 1..(a - 1) /\ k - i \in 1..(j - i - 1) /\ i + (k - i) = k
        BY <1>1, <1>4
      <4>. QED
        BY <1>2, <1>4, <4>1 DEF Blank
    <3>. QED
      BY <3>1, <3>2, <3>3
  <2>2. /\ j - 1 \in d..n
        /\ j - 1 = n \/ raw[(j - 1) + 1] = "comma"
        /\ \A k \in (d + 1)..(j - 1) : raw[k] = "blank"
    <3>1. j - 1 \in d..n /\ (j - 1) + 1 = j /\ (j = n + 1 => j - 1 = n) /\ j # 0
      BY <1>1, <1>4
    <3>2. j = n + 1 \/ raw[j] = "comma"
      BY <3>1 DEF PartAt, Bound, Comma
    <3>3. ASSUME NEW k \in (d + 1)..(j - 1) PROVE raw[k] = "blank"
      <4>1. k - i \in (b + 1)..(j - i - 1) /\ k - i \in 1..(j - i - 1) /\ i + (k - i) = k
        BY <1>1, <1>4
      <4>. QED
        BY <1>2, <1>4, <4>1 DEF Blank
    <3>. QED
      BY <3>1, <3>2, <3>3
  <2>3. c <= d
    BY <1>1, <1>5
  <2>. HIDE DEF c, d
  <2>. QED
    BY <1>5, <1>6, <2>1, <2>2, <2>3 DEF Stands
<1>. QED
  BY <1>7, <1>8, <1>9

\* A name that stands in the list is what is left of a part.
LEMMA StandsInPart ==
    ASSUME NEW S, raw \in Seq(S), NEW name, IsName(name), Stands(name)
    PROVE  \E i, j \in 0..(Len(raw) + 1) :
              PartAt(raw, Comma, i, j) /\ name \in trim(SubSeq(raw, i + 1, j - 1))
<1>. DEFINE n == Len(raw)
<1>1. n \in Nat
  OBVIOUS
<1>2. PICK c \in 1..n, d \in 1..n :
        /\ c <= d /\ SubSeq(raw, c, d) = name
        /\ \E a \in 1..c : /\ a = 1 \/ raw[a - 1] = "comma"
                           /\ \A k \in a..(c - 1) : raw[k] = "blank"
        /\ \E b \in d..n : /\ b = n \/ raw[b + 1] = "comma"
                           /\ \A k \in (d + 1)..b : raw[k] = "blank"
  BY DEF Stands
<1>3. PICK a \in 1..c : /\ a = 1 \/ raw[a - 1] = "comma"
                        /\ \A k \in a..(c - 1) : raw[k] = "blank"
  BY <1>2
<1>4. PICK b \in d..n : /\ b = n \/ raw[b + 1] = "comma"
                        /\ \A k \in (d + 1)..b : raw[k] = "blank"
  BY <1>2
<1>5. /\ Len(name) = d - c + 1
      /\ \A k \in 1..(d - c + 1) : name[k] = raw[c + k - 1]
  <2>1. c \in 1..(n + 1) /\ d \in 0..n
    BY <1>1
  <2>. QED
    BY <1>2, <2>1, Slice
<1>6. \A k \in c..d : raw[k] # "comma"
  <2>1. ASSUME NEW k \in c..d PROVE raw[k] # "comma"
    <3>1. k - c + 1 \in 1..(d - c + 1) /\ c + (k - c + 1) - 1 = k
      OBVIOUS
    <3>. QED
      BY <1>5, <3>1 DEF IsName
  <2>. QED
    BY <2>1
<1>7. raw[c] # "blank" /\ raw[d] # "blank"
  <2>1. /\ 1 \in 1..(d - c + 1) /\ c + 1 - 1 = c
        /\ d - c + 1 \in 1..(d - c + 1) /\ c + (d - c + 1) - 1 = d
    BY <1>2
  <2>. QED
    BY <1>5, <2>1 DEF IsName
<1>. DEFINE i == a - 1
            j == b + 1
            part == SubSeq(raw, a, b)
<1>8. /\ i \in 0..n /\ j \in (i + 1)..(n + 1) /\ i \in 0..(n + 1) /\ j \in 0..(n + 1)
      /\ i + 1 = a /\ j - 1 = b
  BY <1>1, <1>2
<1>9. PartAt(raw, Comma, i, j)
  <2>1. Bound(raw, Comma, i)
    BY <1>3 DEF Bound, Comma
  <2>2. Bound(raw, Comma, j)
    BY <1>4 DEF Bound, Comma
  <2>3. NoEnd(raw, Comma, a, b)
    <3>1. ASSUME NEW k \in a..b PROVE raw[k] # "comma"
      <4>1. k \in a..(c - 1) \/ k \in c..d \/ k \in (d + 1)..b
        BY <1>1, <1>2
      <4>. QED
        BY <1>3, <1>4, <1>6, <4>1
    <3>. QED
      BY <3>1 DEF NoEnd, Comma
  <2>. HIDE DEF i, j
  <2>. QED
    BY <1>8, <2>1, <2>2, <2>3 DEF PartAt
<1>10. /\ part \in Seq(S) /\ Len(part) = b - a + 1
       /\ \A k \in 1..(b - a + 1) : part[k] = raw[a + k - 1]
  <2>1. a \in 1..(n + 1) /\ b \in 0..n /\ a <= b
    BY <1>1, <1>2
  <2>. QED
    BY <2>1, Slice
<1>11. Solid(part, c - a + 1, d - a + 1)
  <2>1. /\ c - a + 1 \in 1..(b - a + 1) /\ d - a + 1 \in (c - a + 1)..(b - a + 1)
        /\ d - a + 1 \in 1..(b - a + 1)
        /\ a + (c - a + 1) - 1 = c /\ a + (d - a + 1) - 1 = d
    BY <1>1, <1>2
  <2>2. part[c - a + 1] # "blank" /\ part[d - a + 1] # "blank"
    BY <1>7, <1>10, <2>1
  <2>3. ASSUME NEW k \in 1..((c - a + 1) - 1) PROVE part[k] = "blank"
    <3>1. k \in 1..(b - a + 1) /\ a + k - 1 \in a..(c - 1)
      BY <1>1, <1>2
    <3>. QED
      BY <1>3, <1>10, <3>1
  <2>4. ASSUME NEW k \in ((d - a + 1) + 1)..(b - a + 1) PROVE part[k] = "blank"
    <3>1. k \in 1..(b - a + 1) /\ a + k - 1 \in (d + 1)..b
      BY <1>1, <1>2
    <3>. QED
      BY <1>4, <1>10, <3>1
  <2>. HIDE DEF part
  <2>. QED
    BY <1>10, <2>1, <2>2, <2>3, <2>4 DEF Solid, Blank
<1>12. name \in trim(part)
  <2>1. trim(part) = {SubSeq(part, c - a + 1, d - a + 1)}
    BY <1>10, <1>11, TrimSolid
  <2>2. /\ a \in 1..n /\ b \in 1..n
        /\ c - a + 1 \in 1..(b - a + 1) /\ d - a + 1 \in 1..(b - a + 1)
        /\ a + (c - a + 1) - 1 = c /\ a + (d - a + 1) - 1 = d
    BY <1>1, <1>2
  <2>3. SubSeq(part, c - a + 1, d - a + 1)
          = SubSeq(raw, a + (c - a + 1) - 1, a + (d - a + 1) - 1)
    BY <2>2, SubSeqOfSubSeq
  <2>. QED
    BY <1>2, <2>1, <2>2, <2>3
<1>. QED
  <2>. HIDE DEF i, j
  <2>. QED
    BY <1>8, <1>9, <1>12

\* The parsed list is the set of names that stand in its text.
LEMMA AllowlistExactly ==
    ASSUME NEW S, raw \in Seq(S)
    PROVE  \A name : name \in parseEnvAllowlist(raw)
                     <=> name \in Substrings /\ IsName(name) /\ Stands(name)
<1>. SUFFICES ASSUME NEW name
              PROVE  name \in parseEnvAllowlist(raw)
                     <=> name \in Substrings /\ IsName(name) /\ Stands(name)
  OBVIOUS
<1>. DEFINE parts == split(raw, Comma)
<1>1. name \in parseEnvAllowlist(raw) <=> \E x \in 1..Len(parts) : name \in trim(parts[x])
  BY DEF parseEnvAllowlist, Comma
<1>. HIDE DEF parts
<1>2. AreParts(parts, raw, Comma)
  BY SplitAreParts DEF parts
<1>3. ASSUME name \in parseEnvAllowlist(raw)
      PROVE  name \in Substrings /\ IsName(name) /\ Stands(name)
  <2>1. PICK x \in 1..Len(parts) : name \in trim(parts[x])
    BY <1>1, <1>3
  <2>2. PICK i, j \in 0..(Len(raw) + 1) :
           PartAt(raw, Comma, i, j) /\ parts[x] = SubSeq(raw, i + 1, j - 1)
    BY <1>2 DEF AreParts
  <2>3. name \in trim(SubSeq(raw, i + 1, j - 1))
    BY <2>1, <2>2
  <2>. QED
    BY <2>2, <2>3, PartStands
<1>4. ASSUME IsName(name), Stands(name)
      PROVE  name \in parseEnvAllowlist(raw)
  <2>1. PICK i, j \in 0..(Len(raw) + 1) :
           PartAt(raw, Comma, i, j) /\ name \in trim(SubSeq(raw, i + 1, j - 1))
    BY <1>4, StandsInPart
  <2>2. PICK x \in 1..Len(parts) : parts[x] = SubSeq(raw, i + 1, j - 1)
    BY <1>2, <2>1 DEF AreParts
  <2>. QED
    BY <1>1, <2>1, <2>2
<1>. QED
  BY <1>3, <1>4

\* ListsExactly holds of any text.
LEMMA ListsOfText ==
    ASSUME NEW S, raw \in Seq(S)
    PROVE  ListsExactly
<1>1. \A name : name \in parseEnvAllowlist(raw)
                <=> name \in Substrings /\ IsName(name) /\ Stands(name)
  BY AllowlistExactly
<1>2. \A name : Stands(name) => name \in Substrings
  BY DEF Stands, Substrings
<1>3. parseEnvAllowlist(raw) = {s \in Substrings : IsName(s) /\ Stands(s)}
  BY <1>1
<1>4. \A name : /\ resolveEnvVarAccess(name, raw)
                   <=> IsName(name) /\ Stands(name) /\ name \notin Denied
                /\ isScriptAllowedForSecret(name, raw) <=> IsName(name) /\ Stands(name)
                /\ hostname(name) = {} =>
                      (originAllowed(name, raw) <=> IsName(name) /\ Stands(name))
  BY <1>1, <1>2 DEF resolveEnvVarAccess, isScriptAllowedForSecret, parseScriptAllowlist,
                    originAllowed
<1>. QED
  BY <1>3, <1>4 DEF ListsExactly

\* Every text of a run of the specification is one over the alphabet of its kind.
TextType == kind \in DOMAIN Alphabet /\ raw \in Seq(Alphabet[kind])

\* Induction on the specification: a token of the alphabet is added at a time.
LEMMA TextTypeHolds == Spec => []TextType
<1>1. Init => TextType
  BY DEF Init, TextType
<1>2. TextType /\ [Next]_<<kind, raw>> => TextType'
  BY DEF TextType, Next
<1>. QED
  BY <1>1, <1>2, PTL DEF Spec

\* Whatever the list and however long it is: a name is on it exactly when it
\* stands there whole, and a denied name is never let through.
THEOREM ListsAreExact == Spec => []ListsExactly
<1>1. TextType => ListsExactly
  BY ListsOfText DEF TextType
<1>. QED
  BY <1>1, TextTypeHolds, PTL

-----------------------------------------------------------------------------
\* Bearer tokens.

\* The word is at p, blanks follow up to i, the token is from there to j.
BearerAt(p, i, j) ==
    /\ p \in 1..Len(raw) /\ i \in (p + 1)..(Len(raw) - 1) /\ j \in (i + 1)..Len(raw)
    /\ raw[p] \in {"Bearer", "bearer"}
    /\ raw[i + 1] # "blank" /\ raw[j] # "blank"
    /\ Blank(raw, 1, p - 1) /\ Blank(raw, p + 1, i) /\ Blank(raw, j + 1, Len(raw))

\* A token that is at some place is the one that is read.
LEMMA BearerAtIsRead ==
    ASSUME NEW S, raw \in Seq(S), NEW p, NEW i, NEW j, BearerAt(p, i, j)
    PROVE  extractBearer(raw) = {SubSeq(raw, i + 1, j)}
<1>. SUFFICES ASSUME NEW n, n = Len(raw), NEW h, h = trimmed(raw)
              PROVE  extractBearer(raw) = {SubSeq(raw, i + 1, j)}
  OBVIOUS
<1>1. /\ n \in Nat /\ p \in 1..n /\ i \in (p + 1)..(n - 1) /\ j \in (i + 1)..n
      /\ raw[p] # "blank" /\ raw[j] # "blank" /\ raw[i + 1] # "blank"
      /\ raw[p + 1] = "blank"
      /\ Blank(raw, 1, p - 1) /\ Blank(raw, p + 1, i) /\ Blank(raw, j + 1, n)
  BY DEF BearerAt, Blank
<1>2. h = SubSeq(raw, p, j)
  <2>1. Solid(raw, p, j)
    BY <1>1 DEF Solid
  <2>. QED
    BY <2>1, TrimSolid
<1>3. Len(h) = j - p + 1 /\ h[1] = raw[p] /\ h[2] = raw[p + 1] /\ Len(h) > 2
  <2>1. /\ p \in 1..(n + 1) /\ j \in 0..n /\ p <= j /\ j - p + 1 > 2
        /\ 1 \in 1..(j - p + 1) /\ 2 \in 1..(j - p + 1) /\ p + 1 - 1 = p /\ p + 2 - 1 = p + 1
    BY <1>1
  <2>2. /\ Len(h) = j - p + 1
        /\ \A k \in 1..(j - p + 1) : h[k] = raw[p + k - 1]
    BY <1>2, <2>1, Slice
  <2>. QED
    BY <2>1, <2>2
<1>4. Tail(h) = SubSeq(raw, p + 1, j)
  <2>1. p \in 1..n /\ j \in (p + 1)..n
    BY <1>1
  <2>. QED
    BY <1>2, <2>1, HeadTailOfSubSeq
<1>5. trimmed(Tail(h)) = SubSeq(raw, i + 1, j)
  <2>. SUFFICES ASSUME NEW m, m = p + 1, NEW x, x = i + 1
                PROVE  trimmed(SubSeq(raw, m, j)) = SubSeq(raw, x, j)
    BY <1>4
  <2>1. /\ m \in 1..Len(raw) /\ j \in m..Len(raw) /\ x \in m..j /\ j \in x..j
        /\ x - 1 = i
    BY <1>1
  <2>2. Blank(raw, m, x - 1) /\ Blank(raw, j + 1, j) /\ raw[x] # "blank" /\ raw[j] # "blank"
    BY <1>1, <2>1 DEF Blank
  <2>3. raw \in Seq(S)
    OBVIOUS
  <2>4. TrimsTo(raw, m, j, x, j)
    BY <2>1, <2>2, <2>3, TrimSlice
  <2>. QED
    BY <2>4 DEF TrimsTo
<1>6. raw # undefined
  <2>1. Len(undefined) = 1
    BY DEF undefined
  <2>2. Len(raw) # 1
    BY <1>1
  <2>. QED
    BY <2>1, <2>2
<1>. QED
  BY <1>1, <1>3, <1>5, <1>6 DEF extractBearer, BearerAt

\* What is read as a token is at some place.
LEMMA ReadBearerIsAt ==
    ASSUME NEW S, raw \in Seq(S), extractBearer(raw) # {}
    PROVE  \E p, i, j \in 1..Len(raw) : BearerAt(p, i, j)
<1>. SUFFICES ASSUME NEW n, n = Len(raw), NEW h, h = trimmed(raw)
              PROVE  \E p, i, j \in 1..n : BearerAt(p, i, j)
  OBVIOUS
<1>1. n \in Nat /\ Len(h) > 2 /\ h[1] \in {"bearer", "Bearer"} /\ h[2] = "blank"
  BY DEF extractBearer
<1>2. PICK p \in 1..n, j \in 1..n : Solid(raw, p, j)
  <2>1. Len(<<>>) = 0 /\ ~(0 > 2)
    OBVIOUS
  <2>2. ~Blank(raw, 1, n)
    BY <1>1, <2>1, TrimBlank
  <2>. QED
    BY <2>2, BlankOrSolid
<1>3. /\ j \in p..n /\ raw[p] # "blank" /\ raw[j] # "blank"
      /\ Blank(raw, 1, p - 1) /\ Blank(raw, j + 1, n) /\ h = SubSeq(raw, p, j)
  BY <1>2, TrimSolid DEF Solid
<1>4. Len(h) = j - p + 1 /\ h[1] = raw[p] /\ h[2] = raw[p + 1] /\ j - p + 1 > 2
  <2>1. p \in 1..(n + 1) /\ j \in 0..n /\ p <= j /\ p + 1 - 1 = p /\ p + 2 - 1 = p + 1
    BY <1>1, <1>3
  <2>2. /\ Len(h) = j - p + 1
        /\ \A k \in 1..(j - p + 1) : h[k] = raw[p + k - 1]
    BY <1>3, <2>1, Slice
  <2>3. 1 \in 1..(j - p + 1) /\ 2 \in 1..(j - p + 1) /\ j - p + 1 > 2
    BY <1>1, <2>1, <2>2
  <2>. QED
    BY <2>1, <2>2, <2>3
<1>. DEFINE T == {k \in (p + 1)..j : raw[k] # "blank"}
<1>5. T \subseteq Nat /\ j \in T
  BY <1>1, <1>3, <1>4
<1>6. PICK x \in T : \A k \in T : x <= k
  <2>. HIDE DEF T
  <2>. QED
    BY <1>5, LeastNumber
<1>7. x \in (p + 2)..j /\ raw[x] # "blank"
  BY <1>1, <1>4, <1>6
<1>8. ASSUME NEW k \in (p + 1)..(x - 1) PROVE raw[k] = "blank"
  BY <1>6, <1>7
<1>9. BearerAt(p, x - 1, j) /\ x - 1 \in 1..n
  <2>1. x - 1 \in (p + 1)..(n - 1) /\ (x - 1) + 1 = x /\ j \in x..n /\ x - 1 \in 1..n
    BY <1>1, <1>3, <1>7
  <2>2. Blank(raw, p + 1, x - 1)
    BY <1>8 DEF Blank
  <2>3. raw[p] \in {"Bearer", "bearer"}
    BY <1>1, <1>4
  <2>. HIDE DEF T
  <2>. QED
    BY <1>3, <1>7, <2>1, <2>2, <2>3 DEF BearerAt
<1>. QED
  BY <1>9

\* A slice is of blanks only when the text is, there.
LEMMA AllBlank ==
    ASSUME NEW S, NEW s \in Seq(S), NEW i \in 1..(Len(s) + 1), NEW j \in 0..Len(s)
    PROVE  All(SubSeq(s, i, j), "blank") <=> Blank(s, i, j)
<1>1. /\ Len(SubSeq(s, i, j)) = IF i <= j THEN j - i + 1 ELSE 0
      /\ \A k \in 1..(j - i + 1) : SubSeq(s, i, j)[k] = s[i + k - 1]
  BY Slice
<1>2. ASSUME NEW k \in i..j, All(SubSeq(s, i, j), "blank") PROVE s[k] = "blank"
  <2>1. k - i + 1 \in 1..(j - i + 1) /\ i + (k - i + 1) - 1 = k /\ i <= j
    OBVIOUS
  <2>. QED
    BY <1>1, <1>2, <2>1 DEF All
<1>3. ASSUME NEW k \in 1..Len(SubSeq(s, i, j)), Blank(s, i, j)
      PROVE  SubSeq(s, i, j)[k] = "blank"
  <2>1. k \in 1..(j - i + 1) /\ i + k - 1 \in i..j
    BY <1>1
  <2>. QED
    BY <1>1, <1>3, <2>1 DEF Blank
<1>. QED
  BY <1>2, <1>3 DEF All, Blank

\* What is asked of a token that is read.
IsBearer(t) ==
    /\ t # <<>> /\ t[1] # "blank" /\ t[Len(t)] # "blank"
    /\ \E i, j \in 1..Len(raw) :
          /\ SubSeq(raw, i + 1, j) = t
          /\ \E b \in 1..(i - 1) : /\ raw[b] \in {"Bearer", "bearer"}
                                   /\ All(SubSeq(raw, 1, b - 1), "blank")
                                   /\ All(SubSeq(raw, b + 1, i), "blank")
          /\ All(SubSeq(raw, j + 1, Len(raw)), "blank")

\* BearersExactly holds of any text.
LEMMA BearersOfText ==
    ASSUME NEW S, raw \in Seq(S)
    PROVE  BearersExactly
<1>. SUFFICES ASSUME NEW n, n = Len(raw)
              PROVE  extractBearer(raw) = {t \in Substrings : IsBearer(t)}
  BY DEF BearersExactly, IsBearer
<1>1. n \in Nat
  OBVIOUS
<1>2. ASSUME NEW t, t \in extractBearer(raw)
      PROVE  t \in Substrings /\ IsBearer(t)
  <2>1. PICK p, i, j \in 1..n : BearerAt(p, i, j)
    BY <1>2, ReadBearerIsAt
  <2>2. t = SubSeq(raw, i + 1, j)
    BY <1>2, <2>1, BearerAtIsRead
  <2>3. /\ i \in (p + 1)..(n - 1) /\ j \in (i + 1)..n
        /\ raw[p] \in {"Bearer", "bearer"} /\ raw[i + 1] # "blank" /\ raw[j] # "blank"
        /\ Blank(raw, 1, p - 1) /\ Blank(raw, p + 1, i) /\ Blank(raw, j + 1, n)
    BY <2>1 DEF BearerAt
  <2>4. /\ i + 1 \in 1..n /\ i + 1 \in 1..(n + 1) /\ j \in 0..n /\ i + 1 <= j
        /\ p \in 1..(i - 1)
    BY <1>1, <2>3
  <2>5. t # <<>> /\ t[1] = raw[i + 1] /\ t[Len(t)] = raw[j]
    <3>1. /\ Len(t) = j - (i + 1) + 1
          /\ \A k \in 1..(j - (i + 1) + 1) : t[k] = raw[(i + 1) + k - 1]
      BY <2>2, <2>4, Slice
    <3>2. /\ 1 \in 1..(j - (i + 1) + 1) /\ (i + 1) + 1 - 1 = i + 1
          /\ j - (i + 1) + 1 \in 1..(j - (i + 1) + 1)
          /\ (i + 1) + (j - (i + 1) + 1) - 1 = j
          /\ j - (i + 1) + 1 # 0
      BY <1>1, <2>4
    <3>. QED
      BY <3>1, <3>2
  <2>6. t \in Substrings
    BY <2>2, <2>4 DEF Substrings
  <2>7. All(SubSeq(raw, 1, p - 1), "blank")
    <3>1. p - 1 \in 0..n /\ 1 \in 1..(n + 1)
      BY <1>1
    <3>. QED
      BY <2>3, <3>1, AllBlank
  <2>8. All(SubSeq(raw, p + 1, i), "blank")
    <3>1. p + 1 \in 1..(n + 1) /\ i \in 0..n
      BY <1>1
    <3>. QED
      BY <2>3, <3>1, AllBlank
  <2>9. All(SubSeq(raw, j + 1, n), "blank")
    <3>1. j + 1 \in 1..(n + 1) /\ n \in 0..n
      BY <1>1
    <3>. QED
      BY <2>3, <3>1, AllBlank
  <2>. QED
    BY <2>2, <2>3, <2>4, <2>5, <2>6, <2>7, <2>8, <2>9 DEF IsBearer
<1>3. ASSUME NEW i \in 1..n, NEW j \in 1..n, NEW b \in 1..(i - 1),
             NEW t, t = SubSeq(raw, i + 1, j),
             t # <<>>, t[1] # "blank", t[Len(t)] # "blank",
             raw[b] \in {"Bearer", "bearer"},
             All(SubSeq(raw, 1, b - 1), "blank"),
             All(SubSeq(raw, b + 1, i), "blank"),
             All(SubSeq(raw, j + 1, n), "blank")
      PROVE  t \in extractBearer(raw)
  <2>1. b \in 1..n /\ i \in (b + 1)..n
    BY <1>1
  <2>2. i + 1 <= j
    <3>1. i + 1 \in Int /\ j \in Int
      BY <1>1
    <3>2. i + 1 > j => SubSeq(raw, i + 1, j) = <<>>
      BY <1>1, <3>1, SubSeqEmpty
    <3>. QED
      BY <1>3, <3>1, <3>2
  <2>3. i + 1 \in 1..(n + 1) /\ j \in 0..n /\ i \in (b + 1)..(n - 1) /\ j \in (i + 1)..n
    BY <1>1, <2>1, <2>2
  <2>4. raw[i + 1] # "blank" /\ raw[j] # "blank"
    <3>1. /\ Len(t) = j - (i + 1) + 1
          /\ \A k \in 1..(j - (i + 1) + 1) : t[k] = raw[(i + 1) + k - 1]
      BY <1>3, <2>2, <2>3, Slice
    <3>2. /\ 1 \in 1..(j - (i + 1) + 1) /\ (i + 1) + 1 - 1 = i + 1
          /\ j - (i + 1) + 1 \in 1..(j - (i + 1) + 1)
          /\ (i + 1) + (j - (i + 1) + 1) - 1 = j
      BY <1>1, <2>2
    <3>. QED
      BY <1>3, <3>1, <3>2
  <2>5. Blank(raw, 1, b - 1)
    <3>1. b - 1 \in 0..n /\ 1 \in 1..(n + 1)
      BY <1>1, <2>1
    <3>. QED
      BY <1>3, <3>1, AllBlank
  <2>6. Blank(raw, b + 1, i)
    <3>1. b + 1 \in 1..(n + 1) /\ i \in 0..n
      BY <1>1, <2>1
    <3>. QED
      BY <1>3, <3>1, AllBlank
  <2>7. Blank(raw, j + 1, n)
    <3>1. j + 1 \in 1..(n + 1) /\ n \in 0..n
      BY <1>1
    <3>. QED
      BY <1>3, <3>1, AllBlank
  <2>8. BearerAt(b, i, j)
    BY <1>3, <2>1, <2>3, <2>4, <2>5, <2>6, <2>7 DEF BearerAt
  <2>. QED
    BY <1>3, <2>8, BearerAtIsRead
<1>4. ASSUME NEW t, IsBearer(t) PROVE t \in extractBearer(raw)
  BY <1>3, <1>4 DEF IsBearer
<1>. QED
  BY <1>2, <1>4

\* Whatever the header and however long it is: the token that is read is the
\* one that stands after the word, without the blanks around it.
THEOREM BearersAreExact == Spec => []BearersExactly
<1>1. TextType => BearersExactly
  BY BearersOfText DEF TextType
<1>. QED
  BY <1>1, TextTypeHolds, PTL

-----------------------------------------------------------------------------
\* Hosts.

\* The first t stands at i.
FirstAt(s, t, i) == i \in 1..Len(s) /\ s[i] = t /\ \A k \in 1..(i - 1) : s[k] # t

\* A text that contains a token has it at a first place.
LEMMA FirstExists ==
    ASSUME NEW S, NEW s \in Seq(S), NEW t, Contains(s, t)
    PROVE  \E i \in 1..Len(s) : FirstAt(s, t, i)
<1>. DEFINE T == {i \in 1..Len(s) : s[i] = t}
<1>1. Len(s) \in Nat /\ T \subseteq Nat /\ T # {}
  BY DEF Contains
<1>2. PICK i \in T : \A k \in T : i <= k
  <2>. HIDE DEF T
  <2>. QED
    BY <1>1, LeastNumber
<1>3. FirstAt(s, t, i)
  BY <1>1, <1>2 DEF FirstAt
<1>. QED
  BY <1>3

\* indexOf, and the slices before and after it, are about that place.
LEMMA BeforeFirst ==
    ASSUME NEW S, NEW s \in Seq(S), NEW t, NEW i, FirstAt(s, t, i)
    PROVE  /\ Contains(s, t)
           /\ Before(s, t) = SubSeq(s, 1, i - 1)
           /\ After(s, t) = SubSeq(s, i + 1, Len(s))
<1>. DEFINE T == {k \in 1..Len(s) : s[k] = t}
<1>1. i \in T /\ i \in Nat /\ \A k \in T : i <= k
  BY DEF FirstAt
<1>2. \A k \in T : (\A l \in T : k <= l) => k = i
  BY <1>1
<1>. DEFINE first == IF T # {} THEN Min(T) ELSE 0
<1>3. /\ Before(s, t) = IF Contains(s, t) THEN SubSeq(s, 1, first - 1) ELSE s
      /\ After(s, t) = SubSeq(s, first + 1, Len(s))
  BY DEF Before, After, SelectInSeq
<1>. HIDE DEF T
<1>4. first = i
  BY <1>1, <1>2 DEF Min
<1>5. Contains(s, t)
  BY DEF FirstAt, Contains
<1>. HIDE DEF first
<1>. QED
  BY <1>3, <1>4, <1>5

\* The host of an origin is read from what follows the scheme, up to a slash.
LEMMA OriginHostname ==
    ASSUME NEW S, raw \in Seq(S), NEW q \in 1..Len(raw), raw[q] # "blank",
           Blank(raw, q + 1, Len(raw)),
           NEW authority, authority = Before(SubSeq(raw, 1, q), "/"),
           ~Contains(authority, "@")
    PROVE  hostname(<<"http://">> \o raw) = UrlHost(authority)
<1>. SUFFICES ASSUME NEW n, n = Len(raw), NEW o, o = <<"http://">> \o raw,
                     NEW url, url = trimmed(o), NEW U, U = S \cup {"http://"}
              PROVE  hostname(o) = UrlHost(authority)
  OBVIOUS
<1>1. /\ n \in Nat /\ o \in Seq(U) /\ Len(o) = n + 1 /\ o[1] = "http://"
      /\ \A k \in 1..n : o[k + 1] = raw[k]
  <2>1. raw \in Seq(U) /\ <<"http://">> \in Seq(U) /\ n \in Nat
    BY SeqMonotonic
  <2>2. /\ o \in Seq(U) /\ Len(o) = 1 + n
        /\ \A k \in 1..(1 + n) : o[k] = IF k <= 1 THEN <<"http://">>[k] ELSE raw[k - 1]
    BY <2>1, ConcatProperties
  <2>3. ASSUME NEW k \in 1..n PROVE o[k + 1] = raw[k]
    <3>1. k + 1 \in 1..(1 + n) /\ ~(k + 1 <= 1) /\ (k + 1) - 1 = k
      BY <2>1
    <3>. QED
      BY <2>2, <3>1
  <2>4. o[1] = "http://"
    BY <2>1, <2>2
  <2>. QED
    BY <2>1, <2>2, <2>3, <2>4
<1>2. Solid(o, 1, q + 1)
  <2>1. 1 \in 1..Len(o) /\ q + 1 \in 1..Len(o) /\ o[q + 1] # "blank"
    BY <1>1
  <2>2. ASSUME NEW k \in ((q + 1) + 1)..Len(o) PROVE o[k] = "blank"
    <3>1. k - 1 \in (q + 1)..n /\ k - 1 \in 1..n /\ (k - 1) + 1 = k
      BY <1>1
    <3>. QED
      BY <1>1, <3>1 DEF Blank
  <2>. QED
    BY <1>1, <2>1, <2>2 DEF Solid, Blank
<1>3. url = SubSeq(o, 1, q + 1)
  BY <1>1, <1>2, TrimSolid
<1>4. Tail(url) = SubSeq(raw, 1, q)
  <2>1. Tail(url) = SubSeq(o, 2, q + 1)
    <3>1. 1 \in 1..Len(o) /\ q + 1 \in (1 + 1)..Len(o) /\ 1 + 1 = 2
      BY <1>1
    <3>. QED
      BY <1>1, <1>3, <3>1, HeadTailOfSubSeq
  <2>2. /\ SubSeq(o, 2, q + 1) \in Seq(U) /\ Len(SubSeq(o, 2, q + 1)) = q
        /\ \A k \in 1..q : SubSeq(o, 2, q + 1)[k] = o[2 + k - 1]
    <3>1. /\ 2 \in 1..(Len(o) + 1) /\ q + 1 \in 0..Len(o) /\ 2 <= q + 1
          /\ (q + 1) - 2 + 1 = q
      BY <1>1
    <3>. QED
      BY <1>1, <3>1, Slice
  <2>3. /\ SubSeq(raw, 1, q) \in Seq(U) /\ Len(SubSeq(raw, 1, q)) = q
        /\ \A k \in 1..q : SubSeq(raw, 1, q)[k] = raw[1 + k - 1]
    <3>1. /\ 1 \in 1..(n + 1) /\ q \in 0..n /\ 1 <= q /\ q - 1 + 1 = q /\ raw \in Seq(U)
      BY <1>1, SeqMonotonic
    <3>. QED
      BY <3>1, Slice
  <2>4. ASSUME NEW k \in 1..q PROVE SubSeq(o, 2, q + 1)[k] = SubSeq(raw, 1, q)[k]
    <3>1. 2 + k - 1 = k + 1 /\ 1 + k - 1 = k /\ k \in 1..n
      BY <1>1
    <3>. QED
      BY <1>1, <2>2, <2>3, <3>1
  <2>5. SubSeq(o, 2, q + 1) = SubSeq(raw, 1, q)
    BY <2>2, <2>3, <2>4, SeqEqual
  <2>. QED
    BY <2>1, <2>5
<1>5. url # <<>> /\ url[1] = "http://"
  <2>1. 1 \in 1..(Len(o) + 1) /\ q + 1 \in 0..Len(o) /\ 1 <= q + 1 /\ 1 \in 1..(q + 1 - 1 + 1)
    BY <1>1
  <2>2. Len(url) # 0 /\ url[1] = o[1 + 1 - 1]
    BY <1>1, <1>3, <2>1, Slice
  <2>. QED
    BY <1>1, <2>2
<1>. QED
  BY <1>4, <1>5 DEF hostname

\* ALLOWED_ORIGINS that is not set lists nothing.
LEMMA NoListNoName ==
    ASSUME NEW S, NEW text, text \in Seq(S)
    PROVE  text = <<>> => parseEnvAllowlist(text) = {}
<1>. DEFINE parts == split(text, Comma)
<1>. HIDE DEF parts
<1>1. AreParts(parts, text, Comma)
  BY SplitAreParts DEF parts
<1>2. ASSUME text = <<>>, NEW x \in 1..Len(parts) PROVE trim(parts[x]) = {}
  <2>1. PICK i, j \in 0..(Len(text) + 1) : parts[x] = SubSeq(text, i + 1, j - 1)
    BY <1>1 DEF AreParts
  <2>2. i + 1 \in Int /\ j - 1 \in Int /\ i + 1 > j - 1
    BY <1>2
  <2>3. Len(parts[x]) = 0
    BY <1>2, <2>1, <2>2, SubSeqEmpty
  <2>. QED
    BY <2>3, TrimBlank DEF Blank
<1>. QED
  BY <1>2 DEF parseEnvAllowlist, Comma, parts

\* The text is the host, or the host and a port.
Shape(host) ==
    /\ Len(host) <= Len(raw) /\ \A k \in 1..Len(host) : raw[k] = host[k]
    /\ \/ Len(raw) = Len(host)
       \/ /\ Len(raw) > Len(host) + 1 /\ raw[Len(host) + 1] = ":"
          /\ \A k \in (Len(host) + 2)..Len(raw) : raw[k] = "1"

\* HostPort, read position by position.
LEMMA ShapeOfHost ==
    ASSUME NEW S, raw \in Seq(S), NEW T, NEW host \in Seq(T),
           \/ raw = host
           \/ /\ Len(raw) > Len(host) + 1
              /\ SubSeq(raw, 1, Len(host) + 1) = Append(host, ":")
              /\ All(SubSeq(raw, Len(host) + 2, Len(raw)), "1")
    PROVE  Shape(host)
<1>. SUFFICES ASSUME NEW n, n = Len(raw), NEW m, m = Len(host)
              PROVE  Shape(host)
  OBVIOUS
<1>1. n \in Nat /\ m \in Nat
  OBVIOUS
<1>2. CASE raw = host
  BY <1>1, <1>2 DEF Shape
<1>3. CASE /\ n > m + 1
           /\ SubSeq(raw, 1, m + 1) = Append(host, ":")
           /\ All(SubSeq(raw, m + 2, n), "1")
  <2>1. /\ Len(Append(host, ":")) = m + 1 /\ Append(host, ":")[m + 1] = ":"
        /\ \A k \in 1..m : Append(host, ":")[k] = host[k]
    BY <1>1
  <2>2. \A k \in 1..(m + 1) : Append(host, ":")[k] = raw[k]
    <3>1. 1 \in 1..(n + 1) /\ m + 1 \in 0..n /\ (m + 1) - 1 + 1 = m + 1
      BY <1>1, <1>3
    <3>2. \A k \in 1..(m + 1) : SubSeq(raw, 1, m + 1)[k] = raw[1 + k - 1] /\ 1 + k - 1 = k
      BY <1>1, <3>1, Slice
    <3>. QED
      BY <1>3, <3>2
  <2>3. raw[m + 1] = ":" /\ \A k \in 1..m : raw[k] = host[k]
    <3>1. m + 1 \in 1..(m + 1) /\ \A k \in 1..m : k \in 1..(m + 1)
      BY <1>1
    <3>. QED
      BY <2>1, <2>2, <3>1
  <2>4. ASSUME NEW k \in (m + 2)..n PROVE raw[k] = "1"
    <3>1. /\ m + 2 \in 1..(n + 1) /\ n \in 0..n /\ m + 2 <= n
          /\ k - (m + 2) + 1 \in 1..(n - (m + 2) + 1)
          /\ (m + 2) + (k - (m + 2) + 1) - 1 = k
      BY <1>1, <1>3
    <3>2. /\ Len(SubSeq(raw, m + 2, n)) = n - (m + 2) + 1
          /\ SubSeq(raw, m + 2, n)[k - (m + 2) + 1] = raw[(m + 2) + (k - (m + 2) + 1) - 1]
      BY <3>1, Slice
    <3>. QED
      BY <1>3, <3>1, <3>2 DEF All
  <2>. QED
    BY <1>1, <1>3, <2>3, <2>4 DEF Shape
<1>. QED
  BY <1>2, <1>3

\* A text with no blank at either end is left as it is.
LEMMA NothingToTrim ==
    ASSUME NEW S, NEW s \in Seq(S), Len(s) # 0, s[1] # "blank", s[Len(s)] # "blank"
    PROVE  trimmed(s) = s
<1>1. Len(s) \in Nat /\ 1 \in 1..Len(s) /\ Len(s) \in 1..Len(s)
  OBVIOUS
<1>2. Solid(s, 1, Len(s))
  BY <1>1 DEF Solid, Blank
<1>. QED
  BY <1>2, TrimSolid, SubSeqFull

\* A host that is a name, and a port or none.
LEMMA NamedHost ==
    ASSUME NEW S, raw \in Seq(S), NEW T, NEW host \in Seq(T), Shape(host), Len(host) # 0,
           \A k \in 1..Len(host) : host[k] \in {"localhost", "127.0.0.1", "1"}
    PROVE  /\ hostHeaderIsLocal(raw) <=> host \in LOCAL_HOSTNAMES
           /\ hostname(<<"http://">> \o raw) = {host}
           /\ Unbracketed(host) = host
<1>. SUFFICES ASSUME NEW n, n = Len(raw), NEW m, m = Len(host), NEW U, U = S \cup T
              PROVE  /\ hostHeaderIsLocal(raw) <=> host \in LOCAL_HOSTNAMES
                     /\ hostname(<<"http://">> \o raw) = {host}
                     /\ Unbracketed(host) = host
  OBVIOUS
<1>1. /\ n \in Nat \ {0} /\ m \in Nat \ {0} /\ m <= n
      /\ \A k \in 1..m : raw[k] = host[k]
      /\ n = m \/ (n > m + 1 /\ raw[m + 1] = ":" /\ \A k \in (m + 2)..n : raw[k] = "1")
      /\ raw \in Seq(U) /\ host \in Seq(U)
  BY SeqMonotonic DEF Shape
<1>2. \A k \in 1..n : raw[k] \in {"localhost", "127.0.0.1", "1", ":"}
  <2>1. ASSUME NEW k \in 1..n PROVE raw[k] \in {"localhost", "127.0.0.1", "1", ":"}
    <3>1. k \in 1..m \/ k = m + 1 \/ k \in (m + 2)..n
      BY <1>1
    <3>. QED
      BY <1>1, <3>1
  <2>. QED
    BY <2>1
<1>3. raw[1] = host[1] /\ raw[n] # "blank" /\ raw[1] \in {"localhost", "127.0.0.1", "1"}
  <2>1. 1 \in 1..m /\ n \in 1..n
    BY <1>1
  <2>. QED
    BY <1>1, <1>2, <2>1
<1>4. trimmed(raw) = raw
  BY <1>1, <1>3, NothingToTrim
<1>5. /\ Before(raw, ":") = host
      /\ \A k \in 1..Len(IF Contains(raw, ":") THEN After(raw, ":") ELSE <<>>) :
            (IF Contains(raw, ":") THEN After(raw, ":") ELSE <<>>)[k] = "1"
  <2>1. CASE n = m
    <3>1. ~Contains(raw, ":")
      BY <1>1, <2>1 DEF Contains
    <3>2. raw = host
      BY <1>1, <2>1, SeqEqual
    <3>3. Len(<<>>) = 0
      OBVIOUS
    <3>. QED
      BY <3>1, <3>2, <3>3 DEF Before
  <2>2. CASE n > m + 1 /\ raw[m + 1] = ":" /\ \A k \in (m + 2)..n : raw[k] = "1"
    <3>1. FirstAt(raw, ":", m + 1) /\ (m + 1) - 1 = m /\ (m + 1) + 1 = m + 2
      BY <1>1, <2>2 DEF FirstAt
    <3>2. /\ Contains(raw, ":") /\ Before(raw, ":") = SubSeq(raw, 1, m)
          /\ After(raw, ":") = SubSeq(raw, m + 2, n)
      BY <3>1, BeforeFirst
    <3>3. SubSeq(raw, 1, m) = host
      <4>1. /\ 1 \in 1..(n + 1) /\ m \in 0..n /\ 1 <= m /\ m - 1 + 1 = m
            /\ \A k \in 1..m : 1 + k - 1 = k
        BY <1>1
      <4>2. /\ SubSeq(raw, 1, m) \in Seq(U) /\ Len(SubSeq(raw, 1, m)) = m
            /\ \A k \in 1..m : SubSeq(raw, 1, m)[k] = raw[k]
        BY <1>1, <4>1, Slice
      <4>. QED
        BY <1>1, <4>2, SeqEqual
    <3>4. \A k \in 1..Len(SubSeq(raw, m + 2, n)) : SubSeq(raw, m + 2, n)[k] = "1"
      <4>1. m + 2 \in 1..(n + 1) /\ n \in 0..n /\ m + 2 <= n
        BY <1>1, <2>2
      <4>2. /\ Len(SubSeq(raw, m + 2, n)) = n - (m + 2) + 1
            /\ \A k \in 1..(n - (m + 2) + 1) :
                  SubSeq(raw, m + 2, n)[k] = raw[(m + 2) + k - 1]
        BY <4>1, Slice
      <4>3. \A k \in 1..(n - (m + 2) + 1) : (m + 2) + k - 1 \in (m + 2)..n
        BY <1>1
      <4>. QED
        BY <2>2, <4>2, <4>3
    <3>. QED
      BY <3>2, <3>3, <3>4
  <2>. QED
    BY <1>1, <2>1, <2>2
<1>6. hostHeaderIsLocal(raw) <=> host \in LOCAL_HOSTNAMES
  <2>1. raw # undefined
    BY <1>3 DEF undefined
  <2>2. raw # <<>>
    BY <1>1
  <2>. QED
    BY <1>3, <1>4, <1>5, <2>1, <2>2 DEF hostHeaderIsLocal
<1>7. UrlHost(raw) = {host}
  <2>1. host # <<>> /\ raw # <<>>
    BY <1>1
  <2>2. \A t \in {"[", "]", "blank"} : ~Contains(host, t)
    BY DEF Contains
  <2>3. raw[1] # "["
    BY <1>3
  <2>. QED
    BY <1>5, <2>1, <2>2, <2>3 DEF UrlHost
<1>8. hostname(<<"http://">> \o raw) = UrlHost(raw)
  <2>1. ~Contains(raw, "/") /\ ~Contains(raw, "@")
    BY <1>2 DEF Contains
  <2>2. SubSeq(raw, 1, n) = raw /\ Before(raw, "/") = raw
    BY <2>1, SubSeqFull DEF Before
  <2>3. n \in 1..n /\ Blank(raw, n + 1, n)
    BY <1>1 DEF Blank
  <2>. QED
    BY <1>3, <2>1, <2>2, <2>3, OriginHostname
<1>9. Unbracketed(host) = host
  BY <1>3 DEF Unbracketed
<1>. QED
  BY <1>6, <1>7, <1>8, <1>9

\* The IPv6 loopback address as it stands in a URL.
Loopback6 == <<"[", ":", ":", "1", "]">>

\* The loopback address of IPv6 in brackets, token by token.
LEMMA Loopback6Shape ==
    ASSUME NEW T, T = {"[", ":", "1", "]"}
    PROVE  /\ Loopback6 \in Seq(T) /\ Len(Loopback6) = 5
           /\ Loopback6[1] = "[" /\ Loopback6[2] = ":" /\ Loopback6[3] = ":"
           /\ Loopback6[4] = "1" /\ Loopback6[5] = "]"
           /\ ip6 \in Seq(T) /\ Len(ip6) = 3
           /\ ip6[1] = ":" /\ ip6[2] = ":" /\ ip6[3] = "1"
           /\ <<"[">> \o ip6 \o <<"]">> = Loopback6
           /\ Unbracketed(Loopback6) = ip6
<1>1. /\ Loopback6 \in Seq(T) /\ Len(Loopback6) = 5
      /\ Loopback6[1] = "[" /\ Loopback6[2] = ":" /\ Loopback6[3] = ":"
      /\ Loopback6[4] = "1" /\ Loopback6[5] = "]"
      /\ ip6 \in Seq(T) /\ Len(ip6) = 3
      /\ ip6[1] = ":" /\ ip6[2] = ":" /\ ip6[3] = "1"
  BY DEF Loopback6, ip6
<1>2. <<"[">> \o ip6 \o <<"]">> = Loopback6
  <2>1. /\ <<"[">> \in Seq(T) /\ Len(<<"[">>) = 1 /\ <<"[">>[1] = "["
        /\ <<"]">> \in Seq(T) /\ Len(<<"]">>) = 1 /\ <<"]">>[1] = "]"
    OBVIOUS
  <2>6. ASSUME NEW w \in Seq(T), Len(w) = 5, w[1] = "[", w[2] = ":", w[3] = ":",
               w[4] = "1", w[5] = "]"
        PROVE  w = Loopback6
    <3>1. Len(w) = Len(Loopback6) /\ \A k \in 1..Len(w) : w[k] = Loopback6[k]
      BY <1>1, <2>6
    <3>. QED
      BY <1>1, <3>1, SeqEqual
  <2>. SUFFICES ASSUME NEW x \in Seq(T), Len(x) = 1, x[1] = "[",
                       NEW y \in Seq(T), Len(y) = 1, y[1] = "]",
                       NEW z \in Seq(T), Len(z) = 3, z[1] = ":", z[2] = ":", z[3] = "1",
                       NEW u, u = x \o z, NEW v, v = u \o y
                PROVE  v = Loopback6
    BY <1>1, <2>1
  <2>2. /\ u \in Seq(T) /\ Len(u) = Len(x) + Len(z)
        /\ \A k \in 1..(Len(x) + Len(z)) : u[k] = IF k <= Len(x) THEN x[k] ELSE z[k - Len(x)]
    BY ConcatProperties
  <2>3. /\ Len(u) = 4 /\ u[1] = "[" /\ u[2] = ":" /\ u[3] = ":" /\ u[4] = "1"
    BY <2>2
  <2>4. /\ v \in Seq(T) /\ Len(v) = Len(u) + Len(y)
        /\ \A k \in 1..(Len(u) + Len(y)) : v[k] = IF k <= Len(u) THEN u[k] ELSE y[k - Len(u)]
    BY <2>2, ConcatProperties
  <2>5. /\ Len(v) = 5 /\ v[1] = "[" /\ v[2] = ":" /\ v[3] = ":" /\ v[4] = "1" /\ v[5] = "]"
    BY <2>3, <2>4
  <2>. QED
    BY <2>4, <2>5, <2>6
<1>3. SubSeq(Loopback6, 2, 5 - 1) = ip6
  <2>1. /\ SubSeq(Loopback6, 2, 4) \in Seq(T) /\ Len(SubSeq(Loopback6, 2, 4)) = 3
        /\ \A k \in 1..3 : SubSeq(Loopback6, 2, 4)[k] = Loopback6[2 + k - 1]
    <3>1. 2 \in 1..(5 + 1) /\ 4 \in 0..5 /\ 2 <= 4 /\ 4 - 2 + 1 = 3
      OBVIOUS
    <3>. QED
      BY <1>1, <3>1, Slice
  <2>2. \A k \in 1..3 : SubSeq(Loopback6, 2, 4)[k] = ip6[k]
    BY <1>1, <2>1
  <2>3. SubSeq(Loopback6, 2, 4) = ip6
    BY <1>1, <2>1, <2>2, SeqEqual
  <2>. QED
    BY <2>3
<1>. QED
  BY <1>1, <1>2, <1>3 DEF Unbracketed

\* The same address as a host, and a port or none.
LEMMA BracketedHost ==
    ASSUME NEW S, raw \in Seq(S), Shape(Loopback6)
    PROVE  hostHeaderIsLocal(raw) /\ hostname(<<"http://">> \o raw) = {Loopback6}
<1>. SUFFICES ASSUME NEW n, n = Len(raw), NEW T, T = {"[", ":", "1", "]"}, NEW U, U = S \cup T
              PROVE  hostHeaderIsLocal(raw) /\ hostname(<<"http://">> \o raw) = {Loopback6}
  OBVIOUS
<1>1. /\ Loopback6 \in Seq(T) /\ Len(Loopback6) = 5
      /\ Loopback6[1] = "[" /\ Loopback6[2] = ":" /\ Loopback6[3] = ":"
      /\ Loopback6[4] = "1" /\ Loopback6[5] = "]"
      /\ ip6 \in Seq(T) /\ Len(ip6) = 3
      /\ ip6[1] = ":" /\ ip6[2] = ":" /\ ip6[3] = "1"
      /\ <<"[">> \o ip6 \o <<"]">> = Loopback6
  BY Loopback6Shape
<1>2. raw \in Seq(U) /\ Loopback6 \in Seq(U) /\ ip6 \in Seq(U)
  BY <1>1, SeqMonotonic
<1>3. /\ n \in Nat /\ 5 <= n
      /\ raw[1] = "[" /\ raw[2] = ":" /\ raw[3] = ":" /\ raw[4] = "1" /\ raw[5] = "]"
      /\ n = 5 \/ (n > 6 /\ raw[6] = ":" /\ \A k \in 7..n : raw[k] = "1")
  <2>1. /\ n \in Nat /\ 5 <= n /\ \A k \in 1..5 : raw[k] = Loopback6[k]
        /\ \/ n = 5
           \/ n > 5 + 1 /\ raw[5 + 1] = ":" /\ \A k \in (5 + 2)..n : raw[k] = "1"
    BY <1>1 DEF Shape
  <2>. QED
    BY <1>1, <2>1
<1>4. \A k \in 1..n : raw[k] \in {"[", ":", "1", "]"}
  <2>1. \A k \in 1..n : k = 1 \/ k = 2 \/ k = 3 \/ k = 4 \/ k = 5 \/ k = 6 \/ k \in 7..n
    BY <1>3
  <2>. QED
    BY <1>3, <2>1
<1>5. trimmed(raw) = raw
  <2>1. n \in 1..n /\ n # 0
    BY <1>3
  <2>2. raw[1] # "blank" /\ raw[n] # "blank"
    BY <1>3, <1>4, <2>1
  <2>. QED
    BY <2>1, <2>2, NothingToTrim
<1>6. hostHeaderIsLocal(raw)
  <2>1. raw # <<>> /\ raw # undefined
    BY <1>3 DEF undefined
  <2>2. /\ Tail(raw) \in Seq(S) /\ Len(Tail(raw)) = n - 1
        /\ \A k \in 1..(n - 1) : Tail(raw)[k] = raw[k + 1]
    BY <2>1, HeadTailProperties
  <2>3. ASSUME NEW c, c = 4 PROVE FirstAt(Tail(raw), "]", c)
    <3>1. /\ 4 \in 1..(n - 1) /\ 1 \in 1..(n - 1) /\ 2 \in 1..(n - 1) /\ 3 \in 1..(n - 1)
          /\ \A k \in 1..3 : k = 1 \/ k = 2 \/ k = 3
      BY <1>3
    <3>2. /\ Tail(raw)[1] = ":" /\ Tail(raw)[2] = ":" /\ Tail(raw)[3] = "1"
          /\ Tail(raw)[4] = "]"
      BY <1>3, <2>2, <3>1
    <3>. QED
      BY <2>2, <2>3, <3>1, <3>2 DEF FirstAt
  <2>4. Before(Tail(raw), "]") = SubSeq(Tail(raw), 1, 3)
    <3>. SUFFICES ASSUME NEW c, c = 4
                  PROVE  Before(Tail(raw), "]") = SubSeq(Tail(raw), 1, 3)
      OBVIOUS
    <3>1. FirstAt(Tail(raw), "]", c) /\ c - 1 = 3
      BY <2>3
    <3>2. Before(Tail(raw), "]") = SubSeq(Tail(raw), 1, c - 1)
      BY <2>2, <3>1, BeforeFirst
    <3>. QED
      BY <3>1, <3>2
  <2>5. SubSeq(Tail(raw), 1, 3) = ip6
    <3>1. /\ 1 \in 1..((n - 1) + 1) /\ 3 \in 0..(n - 1) /\ 1 <= 3 /\ 3 - 1 + 1 = 3
          /\ Tail(raw) \in Seq(U)
      BY <1>3, <2>2, SeqMonotonic
    <3>2. /\ SubSeq(Tail(raw), 1, 3) \in Seq(U) /\ Len(SubSeq(Tail(raw), 1, 3)) = 3
          /\ \A k \in 1..3 : SubSeq(Tail(raw), 1, 3)[k] = Tail(raw)[1 + k - 1]
      BY <2>2, <3>1, Slice
    <3>3. \A k \in 1..3 : SubSeq(Tail(raw), 1, 3)[k] = ip6[k]
      BY <1>1, <1>3, <2>2, <3>2
    <3>. QED
      BY <1>1, <1>2, <3>2, <3>3, SeqEqual
  <2>6. Contains(raw, "]")
    BY <1>3 DEF Contains
  <2>7. ip6 \in LOCAL_HOSTNAMES
    BY DEF LOCAL_HOSTNAMES
  <2>. QED
    BY <1>3, <1>5, <2>1, <2>4, <2>5, <2>6, <2>7 DEF hostHeaderIsLocal
<1>7. SubSeq(raw, 1, 5) = Loopback6
  <2>1. 1 \in 1..(n + 1) /\ 5 \in 0..n /\ 1 <= 5 /\ 5 - 1 + 1 = 5
    BY <1>3
  <2>2. /\ SubSeq(raw, 1, 5) \in Seq(U) /\ Len(SubSeq(raw, 1, 5)) = 5
        /\ \A k \in 1..5 : SubSeq(raw, 1, 5)[k] = raw[1 + k - 1]
    BY <1>2, <2>1, Slice
  <2>3. \A k \in 1..5 : SubSeq(raw, 1, 5)[k] = Loopback6[k]
    BY <1>1, <1>3, <2>2
  <2>. QED
    BY <1>1, <1>2, <2>2, <2>3, SeqEqual
<1>8. UrlHost(raw) = {Loopback6}
  <2>1. IsPrefix(<<"[">> \o ip6 \o <<"]">>, raw)
    <3>1. SubSeq(Loopback6, 1, 5) = Loopback6
      BY <1>1, SubSeqFull
    <3>. QED
      BY <1>1, <1>3, <1>7, <3>1 DEF IsPrefix
  <2>2. n > 5 => raw[6] = ":" /\ \A i \in 7..n : raw[i] = "1"
    <3>1. CASE n = 5
      BY <3>1
    <3>2. CASE raw[6] = ":" /\ \A k \in 7..n : raw[k] = "1"
      BY <3>2
    <3>. QED
      BY <1>3, <3>1, <3>2
  <2>3. raw # <<>>
    BY <1>3
  <2>. QED
    BY <1>3, <1>7, <2>1, <2>2, <2>3 DEF UrlHost
<1>9. hostname(<<"http://">> \o raw) = UrlHost(raw)
  <2>1. ~Contains(raw, "/") /\ ~Contains(raw, "@")
    BY <1>4 DEF Contains
  <2>2. SubSeq(raw, 1, n) = raw /\ Before(raw, "/") = raw
    BY <2>1, SubSeqFull DEF Before
  <2>3. n \in 1..n /\ Blank(raw, n + 1, n)
    BY <1>3 DEF Blank
  <2>4. raw[n] # "blank"
    BY <1>4, <2>3
  <2>. QED
    BY <2>1, <2>2, <2>3, <2>4, OriginHostname
<1>. QED
  BY <1>6, <1>8, <1>9

\* b is what stands before the first t of s.
IsBefore(b, s, t) ==
    /\ Len(b) \in 0..Len(s)
    /\ \A k \in 1..Len(b) : b[k] = s[k] /\ s[k] # t
    /\ Len(b) = Len(s) \/ s[Len(b) + 1] = t

\* What stands before the first t is the text up to there, or all of it.
LEMMA BeforePrefix ==
    ASSUME NEW S, NEW s \in Seq(S), NEW t
    PROVE  Before(s, t) \in Seq(S) /\ IsBefore(Before(s, t), s, t)
<1>. SUFFICES ASSUME NEW b, b = Before(s, t)
              PROVE  b \in Seq(S) /\ IsBefore(b, s, t)
  OBVIOUS
<1>1. Len(s) \in Nat
  OBVIOUS
<1>2. CASE ~Contains(s, t)
  BY <1>1, <1>2 DEF Before, Contains, IsBefore
<1>3. CASE Contains(s, t)
  <2>1. PICK i \in 1..Len(s) : FirstAt(s, t, i)
    BY <1>3, FirstExists
  <2>2. b = SubSeq(s, 1, i - 1)
    BY <2>1, BeforeFirst
  <2>3. /\ 1 \in 1..(Len(s) + 1) /\ i - 1 \in 0..Len(s) /\ (i - 1) - 1 + 1 = i - 1
        /\ (i - 1) + 1 = i /\ (~(1 <= i - 1) => i - 1 = 0)
        /\ \A k \in 1..(i - 1) : 1 + k - 1 = k
    BY <1>1
  <2>4. /\ b \in Seq(S) /\ Len(b) = IF 1 <= i - 1 THEN (i - 1) - 1 + 1 ELSE 0
        /\ \A k \in 1..((i - 1) - 1 + 1) : b[k] = s[1 + k - 1]
    BY <2>2, <2>3, Slice
  <2>5. Len(b) = i - 1 /\ \A k \in 1..(i - 1) : b[k] = s[k]
    BY <2>3, <2>4
  <2>. QED
    BY <2>1, <2>3, <2>4, <2>5 DEF FirstAt, IsBefore
<1>. QED
  BY <1>2, <1>3

\* When the Host header reads as a loopback host, the browser's reading of it
\* is a loopback host too, or none.
LEMMA HostsAgree ==
    ASSUME NEW S, raw \in Seq(S), ~Contains(raw, "@"), hostHeaderIsLocal(raw)
    PROVE  hostname(<<"http://">> \o raw) \subseteq Loopback
<1>. SUFFICES ASSUME NEW n, n = Len(raw), NEW h, h = trimmed(raw)
              PROVE  hostname(<<"http://">> \o raw) \subseteq Loopback
  OBVIOUS
<1>0. n \in Nat
  OBVIOUS
<1>1. \/ h # <<>> /\ h[1] = "["
      \/ Before(h, ":") \in LOCAL_HOSTNAMES
  BY DEF hostHeaderIsLocal
<1>2. \A host \in LOCAL_HOSTNAMES :
         host = <<"localhost">> \/ host = <<"127.0.0.1">> \/ host = ip6
  BY DEF LOCAL_HOSTNAMES
<1>3. Len(ip6) = 3 /\ ip6[1] = ":"
  BY DEF ip6
<1>4. PICK p \in 1..n, q \in 1..n : Solid(raw, p, q)
  <2>1. ASSUME Blank(raw, 1, n) PROVE FALSE
    <3>1. h = <<>>
      BY <2>1, TrimBlank
    <3>2. Len(h) = 0
      BY <3>1
    <3>3. Before(h, ":") = h
      BY <3>2 DEF Before, Contains
    <3>4. h \in LOCAL_HOSTNAMES
      BY <1>1, <3>1, <3>3
    <3>5. Len(<<"localhost">>) = 1 /\ Len(<<"127.0.0.1">>) = 1
      OBVIOUS
    <3>. QED
      BY <1>2, <1>3, <3>2, <3>4, <3>5
  <2>. QED
    BY <2>1, BlankOrSolid
<1>5. /\ q \in p..n /\ raw[q] # "blank" /\ Blank(raw, 1, p - 1) /\ Blank(raw, q + 1, n)
      /\ h = SubSeq(raw, p, q)
  BY <1>4, TrimSolid DEF Solid
<1>6. PICK body \in Seq(S) : body = SubSeq(raw, 1, q) /\ Len(body) = q
                             /\ \A k \in 1..q : body[k] = raw[k]
  <2>. DEFINE body == SubSeq(raw, 1, q)
  <2>1. /\ 1 \in 1..(n + 1) /\ q \in 0..n /\ 1 <= q /\ q - 1 + 1 = q
        /\ \A k \in 1..q : 1 + k - 1 = k
    BY <1>0
  <2>2. body \in Seq(S) /\ Len(body) = q /\ \A k \in 1..q : body[k] = raw[k]
    BY <2>1, Slice
  <2>. QED
    BY <2>2
<1>6a. Len(body) = q /\ \A k \in 1..q : body[k] = raw[k]
  BY <1>6
<1>7. PICK a \in Seq(S) : a = Before(body, "/") /\ IsBefore(a, body, "/")
  BY BeforePrefix
<1>7a. /\ Len(a) \in 0..q
       /\ \A k \in 1..Len(a) : a[k] = body[k] /\ body[k] # "/"
  BY <1>6a, <1>7 DEF IsBefore
<1>8. hostname(<<"http://">> \o raw) = UrlHost(a)
  <2>1. ~Contains(a, "@")
    <3>1. ASSUME NEW k \in 1..Len(a) PROVE a[k] = raw[k] /\ k \in 1..n
      BY <1>0, <1>6a, <1>7a
    <3>. QED
      BY <3>1 DEF Contains
  <2>. QED
    BY <1>5, <1>6, <1>7, <2>1, OriginHostname
<1>9. PICK host \in Seq(S) : host = Before(a, ":") /\ IsBefore(host, a, ":")
  BY BeforePrefix
<1>9a. /\ Len(host) \in 0..Len(a)
       /\ \A k \in 1..Len(host) : host[k] = a[k] /\ a[k] # ":"
  BY <1>9 DEF IsBefore
<1>10. \/ a # <<>> /\ a[1] = "["
       \/ /\ UrlHost(a) \subseteq {host}
          /\ UrlHost(a) # {} => host # <<>> /\ ~Contains(host, "blank")
  BY <1>9 DEF UrlHost
<1>. SUFFICES UrlHost(a) \subseteq Loopback
  BY <1>8
<1>11. CASE a # <<>> /\ a[1] = "["
  <2>1. UrlHost(a) # {} => IsPrefix(Loopback6, a) /\ UrlHost(a) = {SubSeq(a, 1, 5)}
    BY <1>11, Loopback6Shape DEF UrlHost
  <2>2. Len(Loopback6) = 5 /\ SubSeq(Loopback6, 1, 5) = Loopback6
    BY Loopback6Shape, SubSeqFull
  <2>3. UrlHost(a) # {} => UrlHost(a) = {Loopback6}
    BY <2>1, <2>2 DEF IsPrefix
  <2>4. Loopback6 \in Loopback
    BY DEF Loopback, Loopback6
  <2>. QED
    BY <2>3, <2>4
<1>12. CASE /\ ~(a # <<>> /\ a[1] = "[")
            /\ p # 1
  <2>1. raw[1] = "blank"
    BY <1>0, <1>5, <1>12 DEF Blank
  <2>2. ASSUME UrlHost(a) # {} PROVE FALSE
    <3>1. host # <<>> /\ ~Contains(host, "blank")
      BY <1>10, <1>12, <2>2
    <3>2. Len(host) # 0 /\ 1 \in 1..Len(host) /\ 1 \in 1..Len(a) /\ 1 \in 1..q
      BY <1>0, <1>7a, <1>9a, <3>1
    <3>3. host[1] = "blank"
      BY <1>6a, <1>7a, <1>9a, <2>1, <3>2
    <3>. QED
      BY <3>1, <3>2, <3>3 DEF Contains
  <2>. QED
    BY <2>2
<1>13. CASE /\ ~(a # <<>> /\ a[1] = "[")
            /\ p = 1
  <2>1. ASSUME UrlHost(a) # {} PROVE UrlHost(a) \subseteq Loopback
    <3>1. h = body /\ 1 \in 1..q
      BY <1>0, <1>5, <1>6, <1>13
    <3>2. host # <<>> /\ Len(host) # 0 /\ 1 \in 1..Len(host) /\ 1 \in 1..Len(a)
      BY <1>7a, <1>9a, <1>10, <1>13, <2>1
    <3>3. host[1] = body[1] /\ body[1] # ":" /\ body[1] # "["
      <4>1. a # <<>> /\ host[1] = a[1] /\ a[1] # ":" /\ a[1] = body[1]
        BY <1>7a, <1>9a, <3>2
      <4>. QED
        BY <1>13, <4>1
    <3>4. PICK b \in Seq(S) : b = Before(body, ":") /\ IsBefore(b, body, ":")
      BY BeforePrefix
    <3>4a. /\ Len(b) \in 0..q
           /\ \A k \in 1..Len(b) : b[k] = body[k] /\ body[k] # ":"
           /\ Len(b) = q \/ body[Len(b) + 1] = ":"
      BY <1>6a, <3>4 DEF IsBefore
    <3>5. b \in LOCAL_HOSTNAMES
      BY <1>1, <3>1, <3>3, <3>4
    <3>6. b = <<"localhost">> \/ b = <<"127.0.0.1">>
      <4>1. b # ip6
        <5>1. ASSUME Len(b) = 3, b[1] = ":" PROVE FALSE
          BY <3>4a, <5>1
        <5>. QED
          BY <1>3, <5>1
      <4>. QED
        BY <1>2, <3>5, <4>1
    <3>7. Len(b) = 1 /\ b[1] = body[1]
      BY <3>4a, <3>6
    <3>8. q = 1 \/ body[2] = ":"
      BY <3>4a, <3>7
    <3>9. Len(host) = 1
      <4>1. ASSUME Len(host) # 1 PROVE FALSE
        <5>1. 2 \in 1..Len(host) /\ 2 \in 1..Len(a) /\ q # 1
          <6>1. Len(host) \in Nat /\ Len(a) \in Nat /\ Len(host) <= Len(a) /\ Len(a) <= q
            BY <1>0, <1>7a, <1>9a
          <6>2. \A x \in Nat : x = 0 \/ x = 1 \/ 2 <= x
            OBVIOUS
          <6>3. 2 <= Len(host)
            BY <3>2, <4>1, <6>1, <6>2
          <6>. QED
            BY <6>1, <6>3
        <5>2. a[2] # ":" /\ a[2] = body[2]
          BY <1>7a, <1>9a, <5>1
        <5>. QED
          BY <3>8, <5>1, <5>2
      <4>. QED
        BY <4>1
    <3>10. host = b
      <4>1. host \in Seq(S) /\ b \in Seq(S)
        OBVIOUS
      <4>2. \A k \in 1..Len(host) : host[k] = b[k]
        BY <3>3, <3>7, <3>9
      <4>. QED
        BY <3>7, <3>9, <4>1, <4>2, SeqEqual
    <3>11. UrlHost(a) \subseteq {host}
      BY <1>10, <1>13
    <3>. QED
      BY <3>6, <3>10, <3>11 DEF Loopback
  <2>. QED
    BY <2>1
<1>. QED
  BY <1>11, <1>12, <1>13

\* HostsExactly holds of any text.
LEMMA HostsOfText ==
    ASSUME NEW S, raw \in Seq(S)
    PROVE  HostsExactly
<1>. SUFFICES ASSUME raw # <<>>, NEW origin, origin = <<"http://">> \o raw
              PROVE  /\ HostPort(raw, Loopback) =>
                            hostHeaderIsLocal(raw) /\ originIsLocal(origin)
                     /\ HostPort(raw, Foreign) =>
                            ~hostHeaderIsLocal(raw) /\ ~originIsLocal(origin)
                     /\ ~Contains(raw, "@") /\ hostHeaderIsLocal(raw) =>
                            hostname(origin) \subseteq Loopback
                     /\ originIsLocal(origin) <=> originAllowed(origin, <<>>)
  BY DEF HostsExactly
<1>1. origin # undefined
  <2>1. <<"http://">> \in Seq(S \cup {"http://"}) /\ raw \in Seq(S \cup {"http://"})
    BY SeqMonotonic
  <2>2. Len(<<"http://">>) = 1 /\ Len(raw) \in Nat
    OBVIOUS
  <2>3. Len(origin) = 1 + Len(raw)
    BY <2>1, <2>2, ConcatProperties
  <2>4. Len(raw) # 0 /\ Len(undefined) = 1
    BY DEF undefined
  <2>. QED
    BY <2>2, <2>3, <2>4
<1>2. originIsLocal(origin) <=> \E host \in hostname(origin) : Unbracketed(host) \in LOCAL_HOSTNAMES
  BY <1>1 DEF originIsLocal
<1>3. \A host \in LOCAL_HOSTNAMES :
         host = <<"localhost">> \/ host = <<"127.0.0.1">> \/ host = ip6
  BY DEF LOCAL_HOSTNAMES
<1>4. Len(ip6) = 3
  BY DEF ip6
<1>5. ASSUME NEW T, NEW host \in Seq(T), Len(host) # 0, Shape(host),
             \A k \in 1..Len(host) : host[k] \in {"localhost", "127.0.0.1", "1"}
      PROVE  /\ hostHeaderIsLocal(raw) <=> host \in LOCAL_HOSTNAMES
             /\ originIsLocal(origin) <=> host \in LOCAL_HOSTNAMES
  <2>1. /\ hostHeaderIsLocal(raw) <=> host \in LOCAL_HOSTNAMES
        /\ hostname(origin) = {host}
        /\ Unbracketed(host) = host
    BY <1>5, NamedHost
  <2>. QED
    BY <1>2, <2>1
<1>6. ASSUME HostPort(raw, Loopback)
      PROVE  hostHeaderIsLocal(raw) /\ originIsLocal(origin)
  <2>1. PICK host \in Loopback :
           \/ raw = host
           \/ /\ Len(raw) > Len(host) + 1
              /\ SubSeq(raw, 1, Len(host) + 1) = Append(host, ":")
              /\ All(SubSeq(raw, Len(host) + 2, Len(raw)), "1")
    BY <1>6 DEF HostPort
  <2>2. CASE host = Loopback6
    <3>1. Shape(Loopback6)
      BY <2>1, <2>2, ShapeOfHost, Loopback6Shape
    <3>2. hostHeaderIsLocal(raw) /\ hostname(origin) = {Loopback6}
      BY <3>1, BracketedHost
    <3>3. Unbracketed(Loopback6) \in LOCAL_HOSTNAMES
      BY Loopback6Shape DEF LOCAL_HOSTNAMES
    <3>. QED
      BY <1>2, <3>2, <3>3
  <2>3. CASE host = <<"localhost">> \/ host = <<"127.0.0.1">>
    <3>1. /\ host \in Seq({"localhost", "127.0.0.1"}) /\ Len(host) = 1
          /\ host[1] \in {"localhost", "127.0.0.1", "1"}
      <4>1. CASE host = <<"localhost">>
        BY <4>1
      <4>2. CASE host = <<"127.0.0.1">>
        BY <4>2
      <4>. QED
        BY <2>3, <4>1, <4>2
    <3>2. Shape(host)
      BY <2>1, <3>1, ShapeOfHost
    <3>3. host \in LOCAL_HOSTNAMES
      BY <2>3 DEF LOCAL_HOSTNAMES
    <3>. QED
      BY <1>5, <3>1, <3>2, <3>3
  <2>. QED
    BY <2>2, <2>3 DEF Loopback, Loopback6
<1>7. ASSUME HostPort(raw, Foreign)
      PROVE  ~hostHeaderIsLocal(raw) /\ ~originIsLocal(origin)
  <2>1. PICK host \in Foreign :
           \/ raw = host
           \/ /\ Len(raw) > Len(host) + 1
              /\ SubSeq(raw, 1, Len(host) + 1) = Append(host, ":")
              /\ All(SubSeq(raw, Len(host) + 2, Len(raw)), "1")
    BY <1>7 DEF HostPort
  <2>2. /\ host \in Seq({"localhost", "1"}) /\ Len(host) \in {1, 2}
        /\ host[1] \in {"localhost", "1"}
        /\ Len(host) = 2 => host[2] \in {"localhost", "1"}
        /\ Len(host) = 1 => host[1] = "1"
    <3>1. CASE host = <<"1">>
      BY <3>1
    <3>2. CASE host = <<"localhost", "1">>
      BY <3>2
    <3>3. CASE host = <<"1", "localhost">>
      BY <3>3
    <3>4. CASE host = <<"localhost", "localhost">>
      BY <3>4
    <3>. QED
      BY <3>1, <3>2, <3>3, <3>4 DEF Foreign
  <2>3. \A k \in 1..Len(host) : host[k] \in {"localhost", "127.0.0.1", "1"}
    BY <2>2
  <2>4. Shape(host)
    BY <2>1, <2>2, ShapeOfHost
  <2>5. host \notin LOCAL_HOSTNAMES
    <3>1. Len(<<"localhost">>) = 1 /\ <<"localhost">>[1] = "localhost"
      OBVIOUS
    <3>2. Len(<<"127.0.0.1">>) = 1 /\ <<"127.0.0.1">>[1] = "127.0.0.1"
      OBVIOUS
    <3>3. \A name \in LOCAL_HOSTNAMES :
             \/ Len(name) = 1 /\ name[1] \in {"localhost", "127.0.0.1"}
             \/ Len(name) = 3
      BY <1>3, <1>4, <3>1, <3>2
    <3>4. \/ Len(host) = 1 /\ host[1] = "1"
          \/ Len(host) = 2
      BY <2>2
    <3>5. ASSUME host \in LOCAL_HOSTNAMES PROVE FALSE
      <4>1. \/ Len(host) = 1 /\ host[1] \in {"localhost", "127.0.0.1"}
            \/ Len(host) = 3
        BY <3>3, <3>5
      <4>2. CASE Len(host) = 2
        BY <4>1, <4>2
      <4>3. CASE Len(host) = 1 /\ host[1] = "1"
        BY <4>1, <4>3
      <4>. QED
        BY <3>4, <4>2, <4>3
    <3>. QED
      BY <3>5
  <2>6. Len(host) # 0
    BY <2>2
  <2>. QED
    BY <1>5, <2>2, <2>3, <2>4, <2>5, <2>6
<1>8. ~Contains(raw, "@") /\ hostHeaderIsLocal(raw) => hostname(origin) \subseteq Loopback
  BY HostsAgree
<1>9. originIsLocal(origin) <=> originAllowed(origin, <<>>)
  <2>1. parseEnvAllowlist(<<>>) = {}
    <3>1. <<>> \in Seq({})
      OBVIOUS
    <3>. QED
      BY <3>1, NoListNoName
  <2>. QED
    BY <1>2, <2>1 DEF originAllowed
<1>. QED
  BY <1>6, <1>7, <1>8, <1>9

\* Whatever the header and however long it is: loopback hosts pass and those of
\* Foreign do not, with or without a port, and what reads as a loopback address
\* is the one a browser would go to.
THEOREM HostsAreExact == Spec => []HostsExactly
<1>1. TextType => HostsExactly
  BY HostsOfText DEF TextType
<1>. QED
  BY <1>1, TextTypeHolds, PTL

-----------------------------------------------------------------------------
\* Paths.

\* A path is cut at its first query or fragment.
LEMMA UpToQueryIs ==
    ASSUME NEW S, NEW path, path \in Seq(S)
    PROVE  \E m \in 0..Len(path) :
              /\ UpToQuery(path) = SubSeq(path, 1, m)
              /\ \A j \in 1..m : path[j] \notin {"?", "#"}
              /\ \A i \in 0..Len(path) : (\A j \in 1..i : path[j] \notin {"?", "#"}) => i <= m
<1>. DEFINE T == {i \in 0..Len(path) : \A j \in 1..i : path[j] \notin {"?", "#"}}
<1>1. Len(path) \in Nat /\ T \subseteq 0..Len(path) /\ 0 \in T
  OBVIOUS
<1>2. UpToQuery(path) = SubSeq(path, 1, CHOOSE i \in T : \A j \in T : j <= i)
  BY DEF UpToQuery
<1>3. /\ \A i \in 0..Len(path) : (\A j \in 1..i : path[j] \notin {"?", "#"}) => i \in T
      /\ \A i \in T : \A j \in 1..i : path[j] \notin {"?", "#"}
  OBVIOUS
<1>. HIDE DEF T
<1>4. \E i \in T : \A j \in T : j <= i
  BY <1>1, GreatestNumber
<1>. DEFINE m == CHOOSE i \in T : \A j \in T : j <= i
<1>5. m \in T /\ \A j \in T : j <= m
  BY <1>4
<1>. HIDE DEF m
<1>. QED
  BY <1>1, <1>2, <1>3, <1>5 DEF m

\* The segments of a URL's path that there may be.
Segments(S) == Seq(Seq(S \cup {"client", "v4"}))

\* A segment that is taken in leaves segments.
LEMMA DescendType ==
    ASSUME NEW S, NEW done \in Segments(S), NEW segment \in Seq(S \cup {"client", "v4"}),
           NEW isLast \in BOOLEAN
    PROVE  Descend(done, segment, isLast) \in Segments(S)
<1>. SUFFICES ASSUME NEW V, V = Seq(S \cup {"client", "v4"}), done \in Seq(V), segment \in V
              PROVE  Descend(done, segment, isLast) \in Seq(V)
  BY DEF Segments
<1>1. <<>> \in V /\ <<>> \in Seq(V) /\ << <<>> >> \in Seq(V) /\ done \in Seq(V)
  OBVIOUS
<1>2. done # <<>> => Front(done) \in Seq(V)
  <2>1. ASSUME done # <<>> PROVE Front(done) \in Seq(V)
    <3>1. Len(done) \in Nat \ {0} /\ 1 \in 1..(Len(done) + 1) /\ Len(done) - 1 \in 0..Len(done)
      BY <2>1
    <3>. QED
      BY <3>1, Slice DEF Front
  <2>. QED
    BY <2>1
<1>3. Append(done, segment) \in Seq(V)
  OBVIOUS
<1>4. \A u, v \in Seq(V) : u \o v \in Seq(V)
  BY ConcatProperties
<1>. SUFFICES ASSUME NEW u \in Seq(V), NEW v \in Seq(V)
              PROVE  u \o v \in Seq(V)
  BY <1>1, <1>2, <1>3 DEF Descend
<1>. QED
  BY <1>4

\* The segments between the slashes of the path as it was written.
Written(path) == Tail(split(UpToQuery(path), {"/"}))

\* The segments of a path are texts over its tokens.
LEMMA WrittenType ==
    ASSUME NEW S, NEW path, path \in Seq(S)
    PROVE  /\ UpToQuery(path) \in Seq(S)
           /\ split(UpToQuery(path), {"/"}) # <<>>
           /\ Written(path) \in Seq(Seq(S))
<1>. DEFINE parts == split(UpToQuery(path), {"/"})
<1>1. UpToQuery(path) \in Seq(S)
  <2>1. PICK m \in 0..Len(path) : UpToQuery(path) = SubSeq(path, 1, m)
    BY UpToQueryIs
  <2>2. 1 \in 1..(Len(path) + 1)
    OBVIOUS
  <2>. QED
    BY <2>1, <2>2, Slice
<1>2. parts \in Parts(S)
  BY <1>1, SplitReads
<1>. HIDE DEF parts
<1>3. parts \in Seq(Seq(S)) /\ parts # <<>>
  BY <1>2 DEF Parts
<1>4. Tail(parts) \in Seq(Seq(S))
  BY <1>3, HeadTailProperties
<1>. QED
  BY <1>1, <1>3, <1>4 DEF Written, parts

\* The function pathname is defined by exists, segment by segment.
LEMMA PathnameUnfolds ==
    ASSUME NEW S, NEW path, path \in Seq(S)
    PROVE  \E f \in [0..Len(Written(path)) -> Segments(S)] :
              /\ f[0] = API_BASE
              /\ \A i \in 1..Len(Written(path)) :
                    f[i] = Descend(f[i - 1], Written(path)[i], i = Len(Written(path)))
              /\ pathname(path) = f[Len(Written(path))]
<1>. DEFINE n == Len(Written(path))
            X == Segments(S)
            segs == Written(path)
            Next_(g) == [i \in 0..n |-> IF i = 0 THEN API_BASE
                                        ELSE Descend(g[i - 1], segs[i], i = n)]
            step == [i \in 1..n |-> [d \in X |-> Descend(d, segs[i], i = n)]]
            f == CHOOSE g : g = Next_(g)
<1>1. n \in Nat /\ \A i \in 1..n : segs[i] \in Seq(S \cup {"client", "v4"})
  <2>1. segs \in Seq(Seq(S))
    BY WrittenType
  <2>2. \A i \in 1..n : segs[i] \in Seq(S)
    BY <2>1
  <2>. QED
    BY <2>1, <2>2, SeqMonotonic
<1>2. API_BASE \in X
  <2>1. <<"client">> \in Seq(S \cup {"client", "v4"}) /\ <<"v4">> \in Seq(S \cup {"client", "v4"})
    OBVIOUS
  <2>. QED
    BY <2>1 DEF API_BASE, Segments
<1>3. step \in [1..n -> [X -> X]]
  <2>1. ASSUME NEW i \in 1..n, NEW d \in X PROVE Descend(d, segs[i], i = n) \in X
    <3>1. segs[i] \in Seq(S \cup {"client", "v4"}) /\ (i = n) \in BOOLEAN
      BY <1>1
    <3>. HIDE DEF segs
    <3>. QED
      BY <3>1, DescendType
  <2>. QED
    BY <2>1
<1>4. \E h : h = Next_(h)
  <2>1. PICK h : Recursive(h, n, X, API_BASE, step)
    <3>. HIDE DEF n, step, X, Next_, f
    <3>. QED
      BY <1>1, <1>2, <1>3, RecursionHasFunction
  <2>2. ASSUME NEW i \in 1..n PROVE h[i] = Descend(h[i - 1], segs[i], i = n)
    <3>. HIDE DEF X, n, segs
    <3>1. h[i] = step[i][h[i - 1]] /\ h[i - 1] \in X
      <4>. HIDE DEF step
      <4>. QED
        BY <1>1, <2>1 DEF Recursive
    <3>. QED
      BY <3>1
  <2>3. h = Next_(h)
    <3>1. ASSUME NEW i \in 0..n
          PROVE  h[i] = IF i = 0 THEN API_BASE ELSE Descend(h[i - 1], segs[i], i = n)
      <4>1. i = 0 \/ i \in 1..n
        BY <1>1
      <4>. QED
        BY <4>1, <2>1, <2>2 DEF Recursive
    <3>. QED
      BY <2>1, <3>1 DEF Recursive
  <2>. QED
    BY <2>3
<1>5. f = Next_(f)
  <2>. HIDE DEF Next_
  <2>. QED
    BY <1>4
<1>6. pathname(path) = f[n]
  BY DEF pathname, Written
<1>. HIDE DEF f
<1>7. f[0] = API_BASE /\ \A i \in 1..n : f[i] = Descend(f[i - 1], segs[i], i = n)
  <2>. HIDE DEF n, segs
  <2>. QED
    BY <1>1, <1>5
<1>8. \A k \in 0..n : f[k] \in X
  <2>. DEFINE T == {k \in 0..n : f[k] \in X}
  <2>1. 0 \in T
    BY <1>1, <1>2, <1>7
  <2>2. ASSUME NEW k \in 0..(n - 1), k \in T PROVE k + 1 \in T
    <3>1. /\ f[k + 1] = Descend(f[k], segs[k + 1], k + 1 = n) /\ f[k] \in X
          /\ segs[k + 1] \in Seq(S \cup {"client", "v4"}) /\ (k + 1 = n) \in BOOLEAN
          /\ k + 1 \in 0..n
      BY <1>1, <1>7, <2>2
    <3>. HIDE DEF f, X, segs
    <3>2. f[k + 1] \in X
      BY <3>1, DescendType DEF X
    <3>. QED
      BY <3>1, <3>2
  <2>. HIDE DEF T
  <2>3. \A k \in 0..n : k \in T
    BY <1>1, <2>1, <2>2, UpTo
  <2>. QED
    BY <2>3 DEF T
<1>9. f \in [0..n -> X]
  BY <1>5, <1>8
<1>. QED
  BY <1>6, <1>7, <1>9

\* The segments of w that are kept, and those of them up to k.
Kept(w) == {i \in 1..Len(w) : w[i] \notin SingleDots}
KeptTo(w, k) == {j \in Kept(w) : j <= k}
Count(w, k) == Cardinality(KeptTo(w, k))

\* How the count of the kept segments grows.
LEMMA CountGrows ==
    ASSUME NEW S, NEW w \in Seq(S)
    PROVE  /\ Count(w, 0) = 0
           /\ \A k \in 0..Len(w) : Count(w, k) \in Nat
           /\ \A k \in 0..(Len(w) - 1) :
                 Count(w, k + 1) = IF w[k + 1] \in SingleDots THEN Count(w, k) ELSE Count(w, k) + 1
           /\ \A k \in 0..Len(w) : \A i \in KeptTo(w, k) : Count(w, i) \in 1..Count(w, k)
<1>1. Len(w) \in Nat
  OBVIOUS
<1>2. ASSUME NEW k \in 0..Len(w) PROVE IsFiniteSet(KeptTo(w, k))
  <2>1. IsFiniteSet(1..Len(w)) /\ KeptTo(w, k) \subseteq 1..Len(w)
    BY <1>1, FS_Interval DEF KeptTo, Kept
  <2>. QED
    BY <2>1, FS_Subset
<1>3. ASSUME NEW k \in 0..Len(w) PROVE Count(w, k) \in Nat
  BY <1>2, FS_CardinalityType DEF Count
<1>4. Count(w, 0) = 0
  <2>1. KeptTo(w, 0) = {}
    BY <1>1 DEF KeptTo, Kept
  <2>. QED
    BY <2>1, FS_EmptySet DEF Count
<1>5. ASSUME NEW k \in 0..(Len(w) - 1)
      PROVE  Count(w, k + 1) = IF w[k + 1] \in SingleDots THEN Count(w, k) ELSE Count(w, k) + 1
  <2>1. k \in 0..Len(w) /\ k + 1 \in 1..Len(w)
    BY <1>1
  <2>2. CASE w[k + 1] \in SingleDots
    <3>1. KeptTo(w, k + 1) = KeptTo(w, k)
      <4>1. ASSUME NEW j \in 1..Len(w), w[j] \notin SingleDots PROVE j <= k + 1 <=> j <= k
        <5>1. j # k + 1
          BY <2>2, <4>1
        <5>. QED
          BY <2>1, <5>1
      <4>. QED
        BY <4>1 DEF KeptTo, Kept
    <3>. QED
      BY <2>2, <3>1 DEF Count
  <2>3. CASE w[k + 1] \notin SingleDots
    <3>1. KeptTo(w, k + 1) = KeptTo(w, k) \cup {k + 1} /\ k + 1 \notin KeptTo(w, k)
      <4>1. \A j \in 1..Len(w) : j <= k + 1 <=> j <= k \/ j = k + 1
        BY <2>1
      <4>2. ~(k + 1 <= k)
        BY <2>1
      <4>. QED
        BY <2>1, <2>3, <4>1, <4>2 DEF KeptTo, Kept
    <3>2. IsFiniteSet(KeptTo(w, k))
      BY <1>2, <2>1
    <3>3. Cardinality(KeptTo(w, k) \cup {k + 1}) = Cardinality(KeptTo(w, k)) + 1
      BY <3>1, <3>2, FS_AddElement
    <3>. QED
      BY <2>3, <3>1, <3>3 DEF Count
  <2>. QED
    BY <2>2, <2>3
<1>6. ASSUME NEW k \in 0..Len(w), NEW i \in KeptTo(w, k) PROVE Count(w, i) \in 1..Count(w, k)
  <2>1. i \in 1..Len(w) /\ i <= k /\ w[i] \notin SingleDots /\ i \in 0..Len(w)
    BY DEF KeptTo, Kept
  <2>2. KeptTo(w, i) \subseteq KeptTo(w, k)
    BY <2>1 DEF KeptTo, Kept
  <2>3. Count(w, i) <= Count(w, k)
    BY <1>2, <2>2, FS_Subset DEF Count
  <2>4. i - 1 \in 0..(Len(w) - 1) /\ i - 1 + 1 = i /\ i - 1 \in 0..Len(w)
    BY <1>1, <2>1
  <2>5. Count(w, i) = Count(w, i - 1) + 1
    BY <1>5, <2>1, <2>4
  <2>6. Count(w, i - 1) \in Nat /\ Count(w, i) \in Nat /\ Count(w, k) \in Nat
    BY <1>3, <2>1, <2>4
  <2>. QED
    BY <2>3, <2>5, <2>6
<1>. QED
  BY <1>3, <1>4, <1>5, <1>6

\* The base and the kept segments up to k, in their order.
Placed(u, w, k) ==
    /\ u[1] = <<"client">> /\ u[2] = <<"v4">>
    /\ \A i \in KeptTo(w, k) : u[2 + Count(w, i)] = w[i]

\* They are where they were in a longer sequence that begins alike.
LEMMA PlacedStays ==
    ASSUME NEW S, NEW w \in Seq(S), NEW k \in 0..Len(w), NEW u, NEW v,
           Placed(u, w, k), \A l \in 1..(2 + Count(w, k)) : v[l] = u[l]
    PROVE  Placed(v, w, k)
<1>1. Count(w, k) \in Nat /\ \A i \in KeptTo(w, k) : Count(w, i) \in 1..Count(w, k)
  BY CountGrows
<1>2. 1 \in 1..(2 + Count(w, k)) /\ 2 \in 1..(2 + Count(w, k))
  BY <1>1
<1>3. ASSUME NEW i \in KeptTo(w, k) PROVE v[2 + Count(w, i)] = w[i]
  <2>1. 2 + Count(w, i) \in 1..(2 + Count(w, k))
    BY <1>1
  <2>. QED
    BY <2>1 DEF Placed
<1>. QED
  BY <1>2, <1>3 DEF Placed

\* The next segment is dropped or put behind them.
PlacesNext(u, w, k) ==
    /\ w[k + 1] \in SingleDots =>
          Placed(u, w, k + 1) /\ Len(u) = 2 + Count(w, k + 1)
    /\ w[k + 1] \notin SingleDots =>
          /\ Placed(Append(u, w[k + 1]), w, k + 1)
          /\ Len(Append(u, w[k + 1])) = 2 + Count(w, k + 1)

\* It is so when the base and the kept segments up to k are all there is.
LEMMA PlacedNext ==
    ASSUME NEW S, NEW w \in Seq(S), NEW k \in 0..(Len(w) - 1), NEW u \in Seq(S),
           Placed(u, w, k), Len(u) = 2 + Count(w, k)
    PROVE  PlacesNext(u, w, k)
<1>1. /\ Len(w) \in Nat /\ k + 1 \in 1..Len(w) /\ k \in 0..Len(w) /\ k + 1 \in 0..Len(w)
      /\ w[k + 1] \in S
  OBVIOUS
<1>2. /\ Count(w, k) \in Nat
      /\ Count(w, k + 1) = IF w[k + 1] \in SingleDots THEN Count(w, k) ELSE Count(w, k) + 1
  BY <1>1, CountGrows
<1>3. ASSUME NEW i \in KeptTo(w, k + 1), i \notin KeptTo(w, k)
      PROVE  i = k + 1 /\ w[k + 1] \notin SingleDots
  <2>1. i \in Kept(w) /\ i \in 1..Len(w) /\ w[i] \notin SingleDots /\ i <= k + 1 /\ ~(i <= k)
    BY <1>3 DEF KeptTo, Kept
  <2>2. i = k + 1
    BY <1>1, <2>1
  <2>. QED
    BY <2>1, <2>2
<1>4. ASSUME w[k + 1] \in SingleDots
      PROVE  Placed(u, w, k + 1) /\ Len(u) = 2 + Count(w, k + 1)
  <2>1. \A i \in KeptTo(w, k + 1) : i \in KeptTo(w, k)
    BY <1>3, <1>4
  <2>. QED
    BY <1>2, <1>4, <2>1 DEF Placed
<1>5. ASSUME w[k + 1] \notin SingleDots
      PROVE  /\ Placed(Append(u, w[k + 1]), w, k + 1)
             /\ Len(Append(u, w[k + 1])) = 2 + Count(w, k + 1)
  <2>. DEFINE v == Append(u, w[k + 1])
  <2>1. /\ Len(v) = Len(u) + 1 /\ v[Len(u) + 1] = w[k + 1]
        /\ \A l \in 1..Len(u) : v[l] = u[l]
    BY <1>1, AppendProperties
  <2>. HIDE DEF v
  <2>2. Placed(v, w, k)
    BY <1>1, <2>1, PlacedStays
  <2>3. Len(u) + 1 = 2 + Count(w, k + 1)
    BY <1>2, <1>5
  <2>4. ASSUME NEW i \in KeptTo(w, k + 1) PROVE v[2 + Count(w, i)] = w[i]
    <3>1. CASE i \in KeptTo(w, k)
      BY <2>2, <3>1 DEF Placed
    <3>2. CASE i \notin KeptTo(w, k)
      <4>1. i = k + 1
        BY <1>3, <3>2
      <4>. QED
        BY <2>1, <2>3, <4>1
    <3>. QED
      BY <3>1, <3>2
  <2>5. Placed(v, w, k + 1)
    BY <2>2, <2>4 DEF Placed
  <2>. QED
    BY <2>1, <2>3, <2>5 DEF v
<1>. QED
  BY <1>4, <1>5 DEF PlacesNext

\* Nothing is cut off where there is neither a query nor a fragment.
LEMMA NoQuery ==
    ASSUME NEW S, NEW path, path \in Seq(S), ~Contains(path, "?"), ~Contains(path, "#")
    PROVE  UpToQuery(path) = path
<1>1. PICK m \in 0..Len(path) :
         /\ UpToQuery(path) = SubSeq(path, 1, m)
         /\ \A i \in 0..Len(path) : (\A j \in 1..i : path[j] \notin {"?", "#"}) => i <= m
  BY UpToQueryIs
<1>2. Len(path) \in Nat /\ Len(path) \in 0..Len(path)
  OBVIOUS
<1>3. \A j \in 1..Len(path) : path[j] \notin {"?", "#"}
  BY DEF Contains
<1>4. m = Len(path)
  BY <1>1, <1>2, <1>3
<1>. QED
  BY <1>1, <1>4, SubSeqFull

\* Between the slashes, question marks and hashes of the path.
IsPart(path, segment) ==
    \E y \in 1..Len(split(path, {"/", "?", "#"})) : split(path, {"/", "?", "#"})[y] = segment

\* What stands between the slashes of a path up to its query is a part of it.
LEMMA CutParts ==
    ASSUME NEW S, NEW path, path \in Seq(S), NEW m \in 0..Len(path),
           NEW s, s \in Seq(S), Len(s) = m, \A k \in 1..m : s[k] = path[k],
           \A j \in 1..m : path[j] \notin {"?", "#"},
           m = Len(path) \/ path[m + 1] \in {"?", "#"},
           NEW x \in 1..Len(split(s, {"/"}))
    PROVE  IsPart(path, split(s, {"/"})[x])
<1>. DEFINE A == {"/"}
            B == {"/", "?", "#"}
            a == split(s, A)
            b == split(path, B)
<1>1. Len(path) \in Nat /\ m \in Nat /\ m <= Len(path)
  OBVIOUS
<1>2. s \in Seq(S) /\ Len(s) = m /\ \A k \in 1..m : s[k] = path[k]
  OBVIOUS
<1>3. ASSUME NEW k \in 1..m PROVE s[k] \in A <=> path[k] \in B
  <2>1. s[k] = path[k] /\ path[k] \notin {"?", "#"}
    BY <1>2
  <2>. QED
    BY <2>1
<1>4. m = Len(path) \/ path[m + 1] \in B
  OBVIOUS
<1>. HIDE DEF a, b, A, B
<1>5. AreParts(a, s, A)
  BY <1>2, SplitAreParts DEF a
<1>6. AreParts(b, path, B)
  BY SplitAreParts DEF b
<1>7. x \in 1..Len(a)
  BY DEF a, A
<1>8. PICK i, j \in 0..(Len(s) + 1) : PartAt(s, A, i, j) /\ a[x] = SubSeq(s, i + 1, j - 1)
  <2>1. \E z \in 1..Len(a) : a[z] = a[x]
    BY <1>7
  <2>. QED
    BY <1>5, <2>1 DEF AreParts
<1>9. /\ i \in 0..m /\ j \in (i + 1)..(m + 1)
      /\ Bound(s, A, i) /\ Bound(s, A, j) /\ NoEnd(s, A, i + 1, j - 1)
  BY <1>2, <1>8 DEF PartAt
<1>10. i \in 0..Len(path) /\ j \in (i + 1)..(Len(path) + 1) /\ j \in 0..(Len(path) + 1)
       /\ i \in 0..(Len(path) + 1)
  BY <1>1, <1>9
<1>11. PartAt(path, B, i, j)
  <2>1. Bound(path, B, i)
    <3>1. (i = 0 \/ i \in 1..m) /\ i # m + 1
      BY <1>1, <1>9
    <3>2. i = 0 \/ s[i] \in A
      BY <1>2, <1>9, <3>1 DEF Bound
    <3>. QED
      BY <1>3, <3>1, <3>2 DEF Bound
  <2>2. Bound(path, B, j)
    <3>1. CASE j = m + 1
      BY <1>4, <3>1 DEF Bound
    <3>2. CASE j # m + 1
      <4>1. j \in 1..m /\ j # 0
        BY <1>1, <1>9, <3>2
      <4>2. s[j] \in A
        BY <1>2, <1>9, <3>2, <4>1 DEF Bound
      <4>. QED
        BY <1>3, <4>1, <4>2 DEF Bound
    <3>. QED
      BY <3>1, <3>2
  <2>3. NoEnd(path, B, i + 1, j - 1)
    <3>1. \A k \in (i + 1)..(j - 1) : k \in 1..m
      BY <1>1, <1>9
    <3>. QED
      BY <1>3, <1>9, <3>1 DEF NoEnd
  <2>. QED
    BY <1>10, <2>1, <2>2, <2>3 DEF PartAt
<1>12. SubSeq(s, i + 1, j - 1) = SubSeq(path, i + 1, j - 1)
  <2>1. /\ i + 1 \in 1..(m + 1) /\ j - 1 \in 0..m
        /\ i + 1 \in 1..(Len(path) + 1) /\ j - 1 \in 0..Len(path)
    BY <1>1, <1>9
  <2>. DEFINE l == (j - 1) - (i + 1) + 1
              u == SubSeq(s, i + 1, j - 1)
              v == SubSeq(path, i + 1, j - 1)
  <2>2. /\ u \in Seq(S) /\ Len(u) = IF i + 1 <= j - 1 THEN l ELSE 0
        /\ \A k \in 1..l : u[k] = s[(i + 1) + k - 1]
    <3>1. \A p \in 1..(Len(s) + 1), q \in 0..Len(s) :
             /\ SubSeq(s, p, q) \in Seq(S) /\ Len(SubSeq(s, p, q)) = IF p <= q THEN q - p + 1 ELSE 0
             /\ \A k \in 1..(q - p + 1) : SubSeq(s, p, q)[k] = s[p + k - 1]
      BY <1>2, Slice
    <3>. QED
      BY <1>2, <2>1, <3>1
  <2>3. /\ v \in Seq(S) /\ Len(v) = IF i + 1 <= j - 1 THEN l ELSE 0
        /\ \A k \in 1..l : v[k] = path[(i + 1) + k - 1]
    <3>1. \A p \in 1..(Len(path) + 1), q \in 0..Len(path) :
             /\ SubSeq(path, p, q) \in Seq(S)
             /\ Len(SubSeq(path, p, q)) = IF p <= q THEN q - p + 1 ELSE 0
             /\ \A k \in 1..(q - p + 1) : SubSeq(path, p, q)[k] = path[p + k - 1]
      BY Slice
    <3>. QED
      BY <2>1, <3>1
  <2>. HIDE DEF u, v
  <2>4. ASSUME NEW k \in 1..Len(u) PROVE u[k] = v[k]
    <3>1. k \in 1..l
      BY <1>1, <1>9, <2>2, <2>4
    <3>2. (i + 1) + k - 1 \in 1..m
      BY <1>1, <1>9, <3>1
    <3>. HIDE DEF l
    <3>3. s[(i + 1) + k - 1] = path[(i + 1) + k - 1]
      BY <1>2, <3>2
    <3>. QED
      BY <2>2, <2>3, <3>1, <3>3
  <2>5. u = v
    <3>1. Len(u) = Len(v)
      BY <2>2, <2>3
    <3>. HIDE DEF l
    <3>. QED
      BY <2>2, <2>3, <2>4, <3>1, SeqEqual
  <2>. QED
    BY <2>5 DEF u, v
<1>13. \E y \in 1..Len(b) : b[y] = a[x]
  <2>1. \E p, q \in 0..(Len(path) + 1) : PartAt(path, B, p, q) /\ a[x] = SubSeq(path, p + 1, q - 1)
    BY <1>8, <1>10, <1>11, <1>12
  <2>. QED
    BY <1>6, <2>1 DEF AreParts
<1>. QED
  BY <1>13 DEF IsPart, a, b, A, B

\* Every segment is a part of the path.
LEMMA WrittenAreParts ==
    ASSUME NEW S, NEW path, path \in Seq(S), NEW i \in 1..Len(Written(path))
    PROVE  IsPart(path, Written(path)[i])
<1>. DEFINE upTo == UpToQuery(path)
            parts == split(upTo, {"/"})
<1>1. PICK m \in 0..Len(path) :
         /\ upTo = SubSeq(path, 1, m)
         /\ \A j \in 1..m : path[j] \notin {"?", "#"}
         /\ \A k \in 0..Len(path) : (\A j \in 1..k : path[j] \notin {"?", "#"}) => k <= m
  BY UpToQueryIs
<1>2. m = Len(path) \/ path[m + 1] \in {"?", "#"}
  <2>. SUFFICES ASSUME m # Len(path), path[m + 1] \notin {"?", "#"} PROVE FALSE
    OBVIOUS
  <2>1. Len(path) \in Nat /\ m + 1 \in 0..Len(path) /\ ~(m + 1 <= m)
    OBVIOUS
  <2>2. \A j \in 1..(m + 1) : j \in 1..m \/ j = m + 1
    BY <2>1
  <2>3. \A j \in 1..(m + 1) : path[j] \notin {"?", "#"}
    BY <1>1, <2>2
  <2>. QED
    BY <1>1, <2>1, <2>3
<1>3. parts \in Seq(Seq(S)) /\ parts # <<>>
  <2>1. parts \in Parts(S)
    BY WrittenType, SplitReads
  <2>. QED
    BY <2>1 DEF Parts
<1>4. \A x \in 1..Len(parts) : IsPart(path, parts[x])
  <2>1. upTo \in Seq(S) /\ Len(upTo) = m /\ \A k \in 1..m : upTo[k] = path[k]
    <3>1. /\ Len(path) \in Nat /\ 1 \in 1..(Len(path) + 1)
          /\ m - 1 + 1 = m /\ \A k \in 1..m : 1 + k - 1 = k
      OBVIOUS
    <3>2. /\ SubSeq(path, 1, m) \in Seq(S)
          /\ Len(SubSeq(path, 1, m)) = IF 1 <= m THEN m - 1 + 1 ELSE 0
          /\ \A k \in 1..(m - 1 + 1) : SubSeq(path, 1, m)[k] = path[1 + k - 1]
      BY <3>1, Slice
    <3>. HIDE DEF upTo
    <3>. QED
      BY <1>1, <3>1, <3>2
  <2>. HIDE DEF upTo
  <2>. QED
    BY <1>1, <1>2, <2>1, CutParts
<1>. HIDE DEF parts
<1>5. /\ Len(Tail(parts)) = Len(parts) - 1
      /\ \A k \in 1..Len(Tail(parts)) : Tail(parts)[k] = parts[k + 1]
  BY <1>3, HeadTailProperties
<1>6. i \in 1..Len(Tail(parts)) /\ Written(path)[i] = Tail(parts)[i]
  BY DEF Written, parts
<1>7. i + 1 \in 1..Len(parts) /\ Written(path)[i] = parts[i + 1]
  BY <1>3, <1>5, <1>6
<1>. QED
  BY <1>4, <1>7

\* A path that begins with a slash has a segment at least.
LEMMA WrittenNotEmpty ==
    ASSUME NEW S, NEW path, path \in Seq(S), path # <<>>, path[1] = "/"
    PROVE  Len(Written(path)) \in Nat \ {0}
<1>. DEFINE upTo == UpToQuery(path)
            Slash == {"/"}
            parts == split(upTo, Slash)
<1>1. upTo \in Seq(S) /\ Len(upTo) # 0 /\ upTo[1] = "/"
  <2>1. PICK m \in 0..Len(path) :
           /\ upTo = SubSeq(path, 1, m)
           /\ \A i \in 0..Len(path) : (\A j \in 1..i : path[j] \notin {"?", "#"}) => i <= m
    BY UpToQueryIs
  <2>2. Len(path) \in Nat \ {0} /\ 1 \in 0..Len(path)
    OBVIOUS
  <2>3. \A j \in 1..1 : path[j] \notin {"?", "#"}
    OBVIOUS
  <2>4. 1 <= m
    BY <2>1, <2>2, <2>3
  <2>5. /\ upTo \in Seq(S) /\ Len(upTo) = m - 1 + 1
        /\ \A k \in 1..(m - 1 + 1) : upTo[k] = path[1 + k - 1]
    <3>1. 1 \in 1..(Len(path) + 1)
      BY <2>2
    <3>. HIDE DEF upTo
    <3>. QED
      BY <2>1, <2>4, <3>1, Slice
  <2>6. 1 \in 1..(m - 1 + 1) /\ 1 + 1 - 1 = 1 /\ m - 1 + 1 # 0
    BY <2>2, <2>4
  <2>. HIDE DEF upTo
  <2>. QED
    BY <2>5, <2>6
<1>2. parts \in Parts(S) /\ Reading(upTo, Slash, Len(upTo), parts)
  BY <1>1, SplitReads
<1>. HIDE DEF upTo, parts
<1>3. Closed(upTo, Slash, 0, 1)
  BY <1>1 DEF Closed, Opens, NoEnd
<1>4. 0 \in 0..Len(upTo) /\ 1 \in 0..Len(upTo)
  BY <1>1
<1>5. \E x \in 1..(Len(parts) - 1) : parts[x] = SubSeq(upTo, 0 + 1, 1 - 1)
  <2>. HIDE DEF Slash
  <2>1. \A i, j \in 0..Len(upTo) : i < j /\ Closed(upTo, Slash, i, j) =>
            \E x \in 1..(Len(parts) - 1) : parts[x] = SubSeq(upTo, i + 1, j - 1)
    BY <1>2 DEF Reading
  <2>. QED
    BY <1>3, <1>4, <2>1
<1>6. parts \in Seq(Seq(S)) /\ parts # <<>> /\ Len(parts) \in Nat
  BY <1>2 DEF Parts
<1>7. Len(Tail(parts)) = Len(parts) - 1
  BY <1>6, HeadTailProperties
<1>8. Len(parts) - 1 \in Nat \ {0}
  <2>1. PICK x \in 1..(Len(parts) - 1) : TRUE
    BY <1>5
  <2>2. \A l \in Nat : x \in 1..(l - 1) => l - 1 \in Nat \ {0}
    OBVIOUS
  <2>. QED
    BY <1>6, <2>1, <2>2
<1>. QED
  BY <1>7, <1>8 DEF Written, upTo, parts

\* A path without double dots is fetched as it was written but for its single
\* dots, and so from under the base.
LEMMA WithoutDoubleDots ==
    ASSUME NEW S, NEW path, path \in Seq(S), path # <<>>, path[1] = "/",
           \A i \in 1..Len(Written(path)) : Written(path)[i] \notin DoubleDots
    PROVE  AsWritten(pathname(path), Written(path)) /\ StaysUnderBase(path)
<1>1. PICK f \in [0..Len(Written(path)) -> Segments(S)] :
              /\ f[0] = API_BASE
              /\ \A i \in 1..Len(Written(path)) :
                    f[i] = Descend(f[i - 1], Written(path)[i], i = Len(Written(path)))
              /\ pathname(path) = f[Len(Written(path))]
  BY PathnameUnfolds
<1>. DEFINE W == Written(path)
            n == Len(W)
            V == Seq(S \cup {"client", "v4"})
            Good(k) == Placed(f[k], W, k) /\ Len(f[k]) = 2 + Count(W, k)
            T == {k \in 0..(n - 1) : Good(k)}
<1>2. /\ n \in Nat \ {0} /\ n - 1 \in 0..(n - 1) /\ W \in Seq(V) /\ <<>> \in V
      /\ \A i \in 1..n : W[i] \in V
  <2>1. Seq(S) \subseteq V
    BY SeqMonotonic
  <2>2. W \in Seq(Seq(S))
    BY WrittenType
  <2>3. n \in Nat \ {0}
    BY WrittenNotEmpty
  <2>4. W \in Seq(V) /\ <<>> \in V
    BY <2>1, <2>2, SeqMonotonic
  <2>. HIDE DEF V, W
  <2>. QED
    BY <2>3, <2>4
<1>3. /\ f[0] = API_BASE /\ pathname(path) = f[n]
      /\ \A i \in 1..n : f[i] = Descend(f[i - 1], W[i], i = n) /\ W[i] \notin DoubleDots
      /\ \A i \in 0..n : f[i] \in Seq(V)
  BY <1>1 DEF Segments
<1>. HIDE DEF W, V
<1>4. 0 \in T
  <2>1. Count(W, 0) = 0 /\ KeptTo(W, 0) = {}
    <3>1. Len(W) \in Nat /\ Kept(W) \subseteq 1..Len(W)
      BY <1>2 DEF Kept
    <3>2. KeptTo(W, 0) = {}
      BY <3>1 DEF KeptTo
    <3>. QED
      BY <1>2, <3>2, CountGrows
  <2>2. Placed(API_BASE, W, 0) /\ Len(API_BASE) = 2 + Count(W, 0)
    BY <2>1 DEF Placed, API_BASE
  <2>3. 0 \in 0..(n - 1)
    BY <1>2
  <2>. QED
    BY <1>3, <2>2, <2>3
<1>5. ASSUME NEW k \in 0..((n - 1) - 1), k \in T PROVE k + 1 \in T
  <2>1. /\ k + 1 \in 1..n /\ k + 1 \in 0..(n - 1) /\ (k + 1) - 1 = k /\ k \in 0..(n - 1)
        /\ k \in 0..n /\ k + 1 # n
    BY <1>2
  <2>2. Good(k)
    BY <1>5
  <2>3. /\ f[k + 1] = Descend(f[k], W[k + 1], FALSE) /\ W[k + 1] \notin DoubleDots
        /\ f[k] \in Seq(V)
    BY <1>3, <2>1
  <2>4. /\ W[k + 1] \in SingleDots =>
              Placed(f[k], W, k + 1) /\ Len(f[k]) = 2 + Count(W, k + 1)
        /\ W[k + 1] \notin SingleDots =>
              /\ Placed(Append(f[k], W[k + 1]), W, k + 1)
              /\ Len(Append(f[k], W[k + 1])) = 2 + Count(W, k + 1)
    <3>1. Placed(f[k], W, k) /\ Len(f[k]) = 2 + Count(W, k)
      BY <2>2
    <3>2. W \in Seq(V) /\ k \in 0..(Len(W) - 1)
      BY <1>2, <2>1
    <3>3. f[k] \in Seq(V)
      BY <2>3
    <3>. HIDE DEF n
    <3>4. PlacesNext(f[k], W, k)
      BY <3>1, <3>2, <3>3, PlacedNext
    <3>. QED
      BY <3>4 DEF PlacesNext
  <2>5. W[k + 1] \in SingleDots => f[k + 1] = f[k]
    <3>1. f[k] \o <<>> = f[k]
      BY <2>3, ConcatEmptySeq
    <3>. QED
      BY <2>3, <3>1 DEF Descend
  <2>6. W[k + 1] \notin SingleDots => f[k + 1] = Append(f[k], W[k + 1])
    BY <2>3 DEF Descend
  <2>7. Good(k + 1)
    BY <2>4, <2>5, <2>6
  <2>. HIDE DEF Good
  <2>. QED
    BY <2>1, <2>7
<1>6. Good(n - 1)
  <2>1. \A k \in 0..(n - 1) : k \in T
    <3>1. n - 1 \in Nat
      BY <1>2
    <3>. HIDE DEF T, n
    <3>2. 0 \in T /\ \A k \in 0..((n - 1) - 1) : k \in T => k + 1 \in T
      BY <1>4, <1>5
    <3>. SUFFICES ASSUME NEW N, N = n - 1 PROVE \A k \in 0..N : k \in T
      OBVIOUS
    <3>. QED
      BY <3>1, <3>2, UpTo
  <2>. QED
    BY <1>2, <2>1
<1>7. /\ (n - 1) + 1 = n /\ n - 1 \in 0..n /\ n \in 1..n /\ n \in 0..n
      /\ n - 1 \in 0..(Len(W) - 1)
  BY <1>2
<1>. DEFINE d == f[n - 1]
            u == f[n]
<1>8. d \in Seq(V) /\ u \in Seq(V) /\ u = Descend(d, W[n], TRUE) /\ W[n] \notin DoubleDots
  BY <1>3, <1>7
<1>9. /\ W[n] \in SingleDots => Placed(d, W, n) /\ Len(d) = 2 + Count(W, n)
      /\ W[n] \notin SingleDots =>
            Placed(Append(d, W[n]), W, n) /\ Len(Append(d, W[n])) = 2 + Count(W, n)
  <2>1. /\ W[(n - 1) + 1] \in SingleDots =>
              Placed(d, W, (n - 1) + 1) /\ Len(d) = 2 + Count(W, (n - 1) + 1)
        /\ W[(n - 1) + 1] \notin SingleDots =>
              /\ Placed(Append(d, W[(n - 1) + 1]), W, (n - 1) + 1)
              /\ Len(Append(d, W[(n - 1) + 1])) = 2 + Count(W, (n - 1) + 1)
    <3>1. d \in Seq(V) /\ Placed(d, W, n - 1) /\ Len(d) = 2 + Count(W, n - 1)
      BY <1>6, <1>8
    <3>2. W \in Seq(V) /\ n - 1 \in 0..(Len(W) - 1)
      BY <1>2, <1>7
    <3>. HIDE DEF d, n
    <3>3. PlacesNext(d, W, n - 1)
      BY <3>1, <3>2, PlacedNext
    <3>. QED
      BY <3>3 DEF PlacesNext
  <2>. QED
    BY <1>7, <2>1
<1>. HIDE DEF d, u
<1>10. Count(W, n) \in Nat /\ (W[n] \notin SingleDots => Count(W, n) \in Nat \ {0})
  <2>1. Count(W, n) \in Nat /\ Count(W, n - 1) \in Nat
    BY <1>2, <1>7, CountGrows
  <2>2. Count(W, (n - 1) + 1)
            = IF W[(n - 1) + 1] \in SingleDots THEN Count(W, n - 1) ELSE Count(W, n - 1) + 1
    BY <1>2, <1>7, CountGrows
  <2>. QED
    BY <1>7, <2>1, <2>2
<1>11. /\ Placed(u, W, n)
       /\ Len(u) = 2 + Count(W, n) + (IF W[n] \in SingleDots THEN 1 ELSE 0)
       /\ W[n] \in SingleDots => u[Len(u)] = <<>>
  <2>1. CASE W[n] \in SingleDots
    <3>1. u = d \o << <<>> >>
      BY <1>8, <2>1 DEF Descend
    <3>2. u = Append(d, <<>>)
      BY <1>2, <1>8, <3>1, AppendIsConcat
    <3>3. /\ Len(u) = Len(d) + 1 /\ u[Len(d) + 1] = <<>>
          /\ \A l \in 1..Len(d) : u[l] = d[l]
      <4>1. d \in Seq(V) /\ <<>> \in V
        BY <1>2, <1>8
      <4>. QED
        BY <3>2, <4>1, AppendProperties
    <3>4. Placed(d, W, n) /\ Len(d) = 2 + Count(W, n)
      BY <1>9, <2>1
    <3>5. Placed(u, W, n)
      BY <1>2, <1>7, <3>3, <3>4, PlacedStays
    <3>. QED
      BY <1>10, <2>1, <3>3, <3>4, <3>5
  <2>2. CASE W[n] \notin SingleDots
    <3>1. u = Append(d, W[n])
      BY <1>8, <2>2 DEF Descend
    <3>. QED
      BY <1>9, <1>10, <2>2, <3>1
  <2>. QED
    BY <2>1, <2>2
<1>12. AsWritten(u, W)
  <2>1. Kept(W) = {i \in 1..Len(W) : W[i] \notin SingleDots} /\ KeptTo(W, n) = Kept(W)
    BY <1>2 DEF Kept, KeptTo
  <2>2. Len(u) = 2 + Cardinality(Kept(W)) + (IF W[Len(W)] \in SingleDots THEN 1 ELSE 0)
    BY <1>11, <2>1 DEF Count
  <2>3. \A i \in Kept(W) : u[2 + Cardinality({j \in Kept(W) : j <= i})] = W[i]
    BY <1>11, <2>1 DEF Placed, Count, KeptTo
  <2>. QED
    BY <1>11, <2>1, <2>2, <2>3 DEF AsWritten
<1>13. Len(u) > 2
  BY <1>10, <1>11
<1>14. SubSeq(u, 1, 2) = API_BASE
  <2>1. Len(u) \in Nat /\ u[1] = <<"client">> /\ u[2] = <<"v4">>
    <3>1. u \in Seq(V)
      BY <1>8
    <3>2. Len(u) \in Nat
      BY <3>1
    <3>. QED
      BY <1>11, <3>2 DEF Placed
  <2>2. 1 \in 1..(Len(u) + 1) /\ 2 \in 0..Len(u) /\ 2 - 1 + 1 = 2
    BY <1>13, <2>1
  <2>3. /\ SubSeq(u, 1, 2) \in Seq(V) /\ Len(SubSeq(u, 1, 2)) = 2
        /\ SubSeq(u, 1, 2)[1] = u[1 + 1 - 1] /\ SubSeq(u, 1, 2)[2] = u[1 + 2 - 1]
    BY <1>8, <2>2, Slice
  <2>4. SubSeq(u, 1, 2)[1] = <<"client">> /\ SubSeq(u, 1, 2)[2] = <<"v4">>
    BY <2>1, <2>3
  <2>5. API_BASE \in Seq(V) /\ Len(API_BASE) = 2 /\ \A k \in 1..2 : SubSeq(u, 1, 2)[k] = API_BASE[k]
    <3>1. <<"client">> \in V /\ <<"v4">> \in V
      BY DEF V
    <3>. QED
      BY <2>4, <3>1 DEF API_BASE
  <2>. QED
    BY <2>3, <2>5, SeqEqual
<1>. QED
  BY <1>3, <1>12, <1>13, <1>14 DEF StaysUnderBase, u, W

\* What an accepted path without an encoded double dot is fetched as.
LEMMA AcceptedAsWritten ==
    ASSUME NEW S, raw \in Seq(S), validateApiPath(raw), ~Contains(raw, "?"), ~Contains(raw, "#"),
           NEW written, written = Tail(split(raw, {"/"})),
           \A i \in 1..Len(written) : written[i] \notin DoubleDots \ { <<".", ".">> }
    PROVE  AsWritten(pathname(raw), written)
<1>. DEFINE parts == split(raw, {"/", "?", "#"})
<1>1. raw # <<>> /\ raw[1] = "/" /\ \A y \in 1..Len(parts) : parts[y] # <<".", ".">>
  BY DEF validateApiPath
<1>. HIDE DEF parts
<1>2. UpToQuery(raw) = raw
  BY NoQuery
<1>3. Written(raw) = written
  BY <1>2 DEF Written
<1>4. ASSUME NEW i \in 1..Len(Written(raw)) PROVE Written(raw)[i] \notin DoubleDots
  <2>1. PICK y \in 1..Len(parts) : parts[y] = Written(raw)[i]
    BY WrittenAreParts DEF IsPart, parts
  <2>. QED
    BY <1>1, <1>3, <2>1
<1>. QED
  BY <1>1, <1>3, <1>4, WithoutDoubleDots

\* A path that is not malformed and has no double dot is accepted.
LEMMA PlainAccepted ==
    ASSUME NEW S, raw \in Seq(S), raw # <<>>, raw[1] = "/", ~IsPrefix(<<"/", "/">>, raw),
           ~Contains(raw, "backslash"), ~Contains(raw, "blank"),
           NEW parts, parts = split(raw, {"/", "?", "#"}),
           \A i \in 1..Len(parts) : parts[i] \notin DoubleDots
    PROVE  validateApiPath(raw)
<1>1. ASSUME Len(raw) > 1 PROVE raw[2] # "/"
  <2>. SUFFICES ASSUME raw[2] = "/" PROVE FALSE
    OBVIOUS
  <2>1. /\ Len(raw) \in Nat /\ 1 \in 1..(Len(raw) + 1) /\ 2 \in 0..Len(raw) /\ 1 <= 2
        /\ 2 - 1 + 1 = 2
    BY <1>1
  <2>2. /\ SubSeq(raw, 1, 2) \in Seq(S) /\ Len(SubSeq(raw, 1, 2)) = 2
        /\ \A k \in 1..2 : SubSeq(raw, 1, 2)[k] = raw[1 + k - 1] /\ 1 + k - 1 = k
    BY <2>1, Slice
  <2>. DEFINE two == <<"/", "/">>
  <2>3. two \in Seq(S \cup {"/"}) /\ Len(two) = 2 /\ two[1] = "/" /\ two[2] = "/"
    OBVIOUS
  <2>4. SubSeq(raw, 1, 2) \in Seq(S \cup {"/"})
    BY <2>2, SeqMonotonic
  <2>. HIDE DEF two
  <2>5. \A k \in 1..2 : SubSeq(raw, 1, 2)[k] = two[k]
    BY <2>2, <2>3
  <2>6. SubSeq(raw, 1, 2) = two
    BY <2>2, <2>3, <2>4, <2>5, SeqEqual
  <2>7. SubSeq(two, 1, 2) = two
    BY <2>3, SubSeqFull
  <2>8. IsPrefix(two, raw)
    BY <1>1, <2>1, <2>3, <2>6, <2>7 DEF IsPrefix
  <2>. QED
    BY <2>8 DEF two
<1>2. \A i \in 1..Len(parts) : parts[i] # <<".", ".">>
  BY DEF DoubleDots
<1>3. ASSUME NEW i \in 1..Len(Written(raw)) PROVE Written(raw)[i] \notin DoubleDots
  <2>1. \E y \in 1..Len(parts) : parts[y] = Written(raw)[i]
    BY WrittenAreParts DEF IsPart
  <2>. QED
    BY <2>1
<1>4. StaysUnderBase(raw)
  BY <1>3, WithoutDoubleDots
<1>. QED
  BY <1>1, <1>2, <1>4 DEF validateApiPath

\* PathsPinned holds of any text.
LEMMA PathsOfText ==
    ASSUME NEW S, raw \in Seq(S)
    PROVE  PathsPinned
<1>. DEFINE written == Tail(split(raw, {"/"}))
            parts == split(raw, {"/", "?", "#"})
            encoded == DoubleDots \ { <<".", ".">> }
<1>1. ASSUME validateApiPath(raw)
      PROVE  /\ Len(pathname(raw)) > 2
             /\ SubSeq(pathname(raw), 1, 2) = << <<"client">>, <<"v4">> >>
  BY <1>1 DEF validateApiPath, StaysUnderBase, API_BASE
<1>2. ASSUME validateApiPath(raw), ~Contains(raw, "?"), ~Contains(raw, "#"),
             \A i \in 1..Len(written) : written[i] \notin encoded
      PROVE  AsWritten(pathname(raw), written)
  BY <1>2, AcceptedAsWritten
<1>3. ASSUME raw # <<>>, raw[1] = "/", ~IsPrefix(<<"/", "/">>, raw),
             ~Contains(raw, "backslash"), ~Contains(raw, "blank"),
             \A i \in 1..Len(parts) : parts[i] \notin DoubleDots
      PROVE  validateApiPath(raw)
  BY <1>3, PlainAccepted
<1>. QED
  BY <1>1, <1>2, <1>3 DEF PathsPinned

\* Whatever the path and however long it is: an accepted one is fetched from
\* under the base, and as it was written but for its single dots when it has no
\* encoded double dot; only a malformed one or one with a double dot is refused.
THEOREM PathsArePinned == Spec => []PathsPinned
<1>1. TextType => PathsPinned
  BY PathsOfText DEF TextType
<1>. QED
  BY <1>1, TextTypeHolds, PTL
=============================================================================
