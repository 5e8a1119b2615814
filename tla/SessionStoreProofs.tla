------------------------- MODULE SessionStoreProofs -------------------------
(***************************************************************************)
(* Theorems about SessionStore, for every engine that keeps the            *)
(* SessionEncoder contract and every value of the other constants.         *)
(*                                                                         *)
(* The invariant follows an operation through its steps.  Between two      *)
(* operations the seal point of a session is a cut of its whole text; in   *)
(* the block loop it is a cut of the text before the operation, which is   *)
(* what makes a node written there correct for every continuation of the   *)
(* node's own prefix.                                                      *)
(*                                                                         *)
(* First come lemmas on slices of sequences, on texts and on the cuts of a *)
(* text that stay correct whatever is appended to it, then the invariant   *)
(* of one session, of one node and of the LRU order with what each step of *)
(* an operation does to it, then the invariant of the store, and last what *)
(* the callers of the store rely on.                                       *)
(***************************************************************************)
EXTENDS SessionStore, SequenceTheorems, TLAPS

-----------------------------------------------------------------------------
(* Slices of sequences. *)

\* A slice within a sequence: its type, its length and its elements.
LEMMA SliceFacts ==
    ASSUME NEW S, NEW s \in Seq(S), NEW m \in Nat \ {0}, NEW n \in Nat, n <= Len(s)
    PROVE  /\ SubSeq(s, m, n) \in Seq(S)
           /\ Len(SubSeq(s, m, n)) = IF m <= n THEN n - m + 1 ELSE 0
           /\ \A i \in 1..(n - m + 1) : SubSeq(s, m, n)[i] = s[m + i - 1]
<1>1. \A i \in m..n : s[i] \in S
  BY ElementOfSeq
<1> QED
  BY <1>1, SubSeqProperties

\* A slice of a slice is a slice.
LEMMA SliceOfSlice ==
    ASSUME NEW S, NEW s \in Seq(S), NEW m \in Nat \ {0}, NEW n \in Nat,
           NEW p \in Nat \ {0}, NEW q \in Nat, n <= Len(s), m + q - 1 <= n
    PROVE  SubSeq(SubSeq(s, m, n), p, q) = SubSeq(s, m + p - 1, m + q - 1)
<1> DEFINE u == SubSeq(s, m, n)
           x == SubSeq(u, p, q)
           y == SubSeq(s, m + p - 1, m + q - 1)
<1>1. /\ u \in Seq(S) /\ Len(u) = IF m <= n THEN n - m + 1 ELSE 0
      /\ \A i \in 1..(n - m + 1) : u[i] = s[m + i - 1]
  BY SliceFacts
<1>2. q <= Len(u)
  BY <1>1
<1>3. m + p - 1 \in Nat \ {0} /\ m + q - 1 \in Nat /\ m + q - 1 <= Len(s)
  OBVIOUS
<1>4. /\ y \in Seq(S)
      /\ Len(y) = IF m + p - 1 <= m + q - 1 THEN (m + q - 1) - (m + p - 1) + 1 ELSE 0
      /\ \A i \in 1..((m + q - 1) - (m + p - 1) + 1) : y[i] = s[(m + p - 1) + i - 1]
  BY <1>3, SliceFacts
<1> HIDE DEF u, y
<1>a. u \in Seq(S)
  BY <1>1
<1>5. /\ x \in Seq(S) /\ Len(x) = IF p <= q THEN q - p + 1 ELSE 0
      /\ \A i \in 1..(q - p + 1) : x[i] = u[p + i - 1]
  BY <1>2, <1>a, SliceFacts, SMTT(60)
<1> HIDE DEF x
<1>6. Len(x) = Len(y)
  BY <1>4, <1>5
<1>7. ASSUME NEW i \in 1..Len(x) PROVE x[i] = y[i]
  <2>1. i \in 1..(q - p + 1) /\ p + i - 1 \in 1..(n - m + 1)
    BY <1>1, <1>2, <1>5
  <2>2. x[i] = s[m + (p + i - 1) - 1]
    BY <1>1, <1>5, <2>1
  <2>3. y[i] = s[(m + p - 1) + i - 1]
    BY <1>4, <2>1
  <2>4. m + (p + i - 1) - 1 = (m + p - 1) + i - 1
    BY <2>1
  <2> QED
    BY <2>2, <2>3, <2>4
<1>8. x = y
  BY <1>4, <1>5, <1>6, <1>7, SeqEqual
<1> QED
  BY <1>8 DEF x, y, u

\* A slice of what is taken.
LEMMA SliceOfTake ==
    ASSUME NEW S, NEW s \in Seq(S), NEW n \in Nat, NEW p \in Nat \ {0}, NEW q \in Nat,
           n <= Len(s), q <= n
    PROVE  SubSeq(SubSeq(s, 1, n), p, q) = SubSeq(s, p, q)
<1>1. ASSUME NEW m \in Nat \ {0}, m = 1
      PROVE  SubSeq(SubSeq(s, m, n), p, q) = SubSeq(s, p, q)
  <2>1. m + q - 1 <= n /\ m + q - 1 = q /\ m + p - 1 = p
    BY <1>1
  <2>2. SubSeq(SubSeq(s, m, n), p, q) = SubSeq(s, m + p - 1, m + q - 1)
    BY <2>1, SliceOfSlice
  <2> QED
    BY <2>1, <2>2
<1> QED
  BY <1>1

\* A slice of the first of two sequences.
LEMMA SliceOfConcat ==
    ASSUME NEW S, NEW s \in Seq(S), NEW t \in Seq(S), NEW m \in Nat \ {0}, NEW n \in Nat,
           n <= Len(s)
    PROVE  SubSeq(s \o t, m, n) = SubSeq(s, m, n)
<1> DEFINE u == s \o t
           x == SubSeq(u, m, n)
           y == SubSeq(s, m, n)
<1>1. u \in Seq(S) /\ Len(u) = Len(s) + Len(t)
      /\ \A i \in 1..(Len(s) + Len(t)) : u[i] = IF i <= Len(s) THEN s[i] ELSE t[i - Len(s)]
  BY ConcatProperties
<1>2. y \in Seq(S) /\ Len(y) = (IF m <= n THEN n - m + 1 ELSE 0)
      /\ \A i \in 1..(n - m + 1) : y[i] = s[m + i - 1]
  BY SliceFacts, SMTT(60)
<1> HIDE DEF u, y
<1>3. u \in Seq(S) /\ n <= Len(u)
  BY <1>1
<1>4. x \in Seq(S) /\ Len(x) = (IF m <= n THEN n - m + 1 ELSE 0)
      /\ \A i \in 1..(n - m + 1) : x[i] = u[m + i - 1]
  BY <1>3, SliceFacts, SMTT(30)
<1> HIDE DEF x
<1>5. ASSUME NEW i \in 1..Len(x) PROVE x[i] = y[i]
  <2>1. i \in 1..(n - m + 1) /\ m + i - 1 \in 1..Len(s)
    BY <1>4
  <2>a. \A j \in 1..Len(s) : u[j] = s[j]
    BY <1>1
  <2>2. u[m + i - 1] = s[m + i - 1]
    BY <2>1, <2>a
  <2> QED
    BY <1>2, <1>4, <2>1, <2>2
<1>6. x = y
  BY <1>2, <1>4, <1>5, SeqEqual
<1> QED
  BY <1>6 DEF x, y, u

\* Dropping within the first of two sequences.
LEMMA DropOfConcat ==
    ASSUME NEW S, NEW s \in Seq(S), NEW t \in Seq(S), NEW a \in 0..Len(s)
    PROVE  Drop(s \o t, a) = Drop(s, a) \o t
<1> DEFINE u == s \o t
           h == SubSeq(s, a + 1, Len(s))
           x == SubSeq(u, a + 1, Len(u))
           y == h \o t
<1>1. u \in Seq(S) /\ Len(u) = Len(s) + Len(t)
      /\ \A i \in 1..(Len(s) + Len(t)) : u[i] = IF i <= Len(s) THEN s[i] ELSE t[i - Len(s)]
  BY ConcatProperties
<1>2. a + 1 \in Nat \ {0} /\ Len(s) \in Nat /\ Len(t) \in Nat
  OBVIOUS
<1>3. h \in Seq(S) /\ Len(h) = Len(s) - a
      /\ \A i \in 1..(Len(s) - (a + 1) + 1) : h[i] = s[(a + 1) + i - 1]
  BY <1>2, SliceFacts
<1> HIDE DEF u, h
<1>4. x \in Seq(S) /\ Len(x) = Len(u) - a
      /\ \A i \in 1..(Len(u) - (a + 1) + 1) : x[i] = u[(a + 1) + i - 1]
  BY <1>1, <1>2, SliceFacts
<1>5. y \in Seq(S) /\ Len(y) = Len(h) + Len(t)
      /\ \A i \in 1..(Len(h) + Len(t)) : y[i] = IF i <= Len(h) THEN h[i] ELSE t[i - Len(h)]
  BY <1>3, ConcatProperties
<1> HIDE DEF x, y
<1>6. Len(x) = Len(y)
  BY <1>1, <1>2, <1>3, <1>4, <1>5
<1>7. ASSUME NEW i \in 1..Len(x) PROVE x[i] = y[i]
  <2>1. i \in 1..(Len(u) - (a + 1) + 1) /\ a + i \in 1..(Len(s) + Len(t))
        /\ i \in 1..(Len(h) + Len(t)) /\ (a + 1) + i - 1 = a + i
    BY <1>1, <1>2, <1>3, <1>4
  <2>2. x[i] = u[a + i]
    BY <1>4, <2>1
  <2>3. CASE a + i <= Len(s)
    <3>1. i \in 1..(Len(s) - (a + 1) + 1) /\ i <= Len(h)
      BY <1>2, <1>3, <2>1, <2>3
    <3>2. x[i] = s[a + i]
      BY <1>1, <2>1, <2>2, <2>3
    <3>3. h[i] = s[a + i]
      BY <1>3, <2>1, <3>1
    <3>4. y[i] = h[i]
      BY <1>5, <2>1, <3>1
    <3> QED
      BY <3>2, <3>3, <3>4
  <2>4. CASE ~(a + i <= Len(s))
    <3>1. x[i] = t[(a + i) - Len(s)]
      BY <1>1, <2>1, <2>2, <2>4
    <3>2. ~(i <= Len(h))
      BY <1>2, <1>3, <2>4
    <3>3. y[i] = t[i - Len(h)]
      BY <1>5, <2>1, <3>2
    <3>4. (a + i) - Len(s) = i - Len(h)
      BY <1>2, <1>3
    <3> QED
      BY <3>1, <3>3, <3>4
  <2> QED
    BY <2>3, <2>4
<1>8. x = y
  BY <1>4, <1>5, <1>6, <1>7, SeqEqual
<1> QED
  BY <1>8 DEF x, y, u, h, Drop

\* Adjacent slices.
LEMMA SlicesJoin ==
    ASSUME NEW S, NEW s \in Seq(S), NEW m \in Nat \ {0}, NEW k \in Nat, NEW n \in Nat,
           m <= k + 1, k <= n, n <= Len(s)
    PROVE  SubSeq(s, m, k) \o SubSeq(s, k + 1, n) = SubSeq(s, m, n)
<1>1. m \in 1..Len(s) + 1 /\ k \in m - 1..Len(s) /\ n \in k..Len(s)
  OBVIOUS
<1> QED
  BY <1>1, ConcatAdjacentSubSeq

\* A sequence is what is taken of it and what is dropped from it.
LEMMA TakeDrop ==
    ASSUME NEW S, NEW s \in Seq(S), NEW a \in 0..Len(s)
    PROVE  /\ Take(s, a) \in Seq(S) /\ Len(Take(s, a)) = a
           /\ Drop(s, a) \in Seq(S) /\ Len(Drop(s, a)) = Len(s) - a
           /\ Take(s, a) \o Drop(s, a) = s
<1>0. 1 \in Nat \ {0} /\ a \in Nat /\ a + 1 \in Nat \ {0} /\ Len(s) \in Nat /\ a <= Len(s)
  OBVIOUS
<1>1. SubSeq(s, 1, a) \in Seq(S) /\ Len(SubSeq(s, 1, a)) = a
  BY <1>0, SliceFacts
<1>2. SubSeq(s, a + 1, Len(s)) \in Seq(S) /\ Len(SubSeq(s, a + 1, Len(s))) = Len(s) - a
  BY <1>0, SliceFacts
<1>3. 1 <= a + 1 /\ Len(s) <= Len(s)
  BY <1>0
<1>4. SubSeq(s, 1, a) \o SubSeq(s, a + 1, Len(s)) = SubSeq(s, 1, Len(s))
  BY <1>0, <1>3, SlicesJoin
<1>5. SubSeq(s, 1, Len(s)) = s
  BY SubSeqFull
<1> QED
  BY <1>1, <1>2, <1>4, <1>5 DEF Take, Drop

\* Taking the first of two sequences.
LEMMA TakeOfConcat ==
    ASSUME NEW S, NEW s \in Seq(S), NEW t \in Seq(S)
    PROVE  Take(s \o t, Len(s)) = s
<1>1. SubSeq(s \o t, 1, Len(s)) = SubSeq(s, 1, Len(s))
  BY SliceOfConcat
<1> QED
  BY <1>1, SubSeqFull DEF Take

\* Dropping from what is taken.
LEMMA DropOfTake ==
    ASSUME NEW S, NEW s \in Seq(S), NEW n \in 0..Len(s), NEW a \in Nat
    PROVE  Drop(Take(s, n), a) = SubSeq(s, a + 1, n)
<1>1. Len(SubSeq(s, 1, n)) = n
  BY TakeDrop DEF Take
<1>2. ASSUME NEW p \in Nat \ {0} PROVE SubSeq(SubSeq(s, 1, n), p, n) = SubSeq(s, p, n)
  <2>1. n \in Nat /\ n <= Len(s) /\ n <= n
    OBVIOUS
  <2> QED
    BY <2>1, SliceOfTake
<1>3. a + 1 \in Nat \ {0}
  OBVIOUS
<1> QED
  BY <1>1, <1>2, <1>3 DEF Drop, Take

\* Dropping twice.
LEMMA DropDrop ==
    ASSUME NEW S, NEW s \in Seq(S), NEW a \in 0..Len(s), NEW b \in 0..(Len(s) - a)
    PROVE  Drop(Drop(s, a), b) = Drop(s, a + b)
<1>1. Len(Drop(s, a)) = Len(s) - a
  BY TakeDrop
<1>2. a + 1 \in Nat \ {0} /\ Len(s) \in Nat /\ b + 1 \in Nat \ {0} /\ Len(s) - a \in Nat
      /\ Len(s) <= Len(s) /\ (a + 1) + (Len(s) - a) - 1 <= Len(s)
  OBVIOUS
<1>3. SubSeq(SubSeq(s, a + 1, Len(s)), b + 1, Len(s) - a)
      = SubSeq(s, (a + 1) + (b + 1) - 1, (a + 1) + (Len(s) - a) - 1)
  BY <1>2, SliceOfSlice
<1>4. (a + 1) + (b + 1) - 1 = (a + b) + 1 /\ (a + 1) + (Len(s) - a) - 1 = Len(s)
  OBVIOUS
<1> QED
  BY <1>1, <1>3, <1>4 DEF Drop

\* A common head can be dropped from two equal sequences.
LEMMA CancelLeft ==
    ASSUME NEW S, NEW s \in Seq(S), NEW t \in Seq(S), NEW v \in Seq(S), s \o t = s \o v
    PROVE  t = v
BY ConcatSimplifications

-----------------------------------------------------------------------------
(* Texts and cuts. *)

\* A text is a sequence of characters within the bound.
LEMMA TextElim ==
    ASSUME NEW t \in Text
    PROVE  t \in Seq(Char) /\ Len(t) \in Nat /\ Len(t) <= MaxChars
<1>1. MaxChars \in Nat
  BY BoundsAssumption
<1>2. PICK n \in 0..MaxChars : t \in [1..n -> Char]
  BY DEF Text
<1>3. t \in Seq(Char) /\ Len(t) = n
  BY <1>1, <1>2
<1> QED
  BY <1>1, <1>3

\* A bounded sequence of characters is a text.
LEMMA TextIntro ==
    ASSUME NEW t \in Seq(Char), Len(t) <= MaxChars
    PROVE  t \in Text
<1>1. MaxChars \in Nat
  BY BoundsAssumption
<1>2. Len(t) \in 0..MaxChars /\ t \in [1..Len(t) -> Char]
  BY <1>1, LenProperties
<1> QED
  BY <1>2 DEF Text

\* A continuation keeps the text within the bound.
LEMMA ContinuationElim ==
    ASSUME NEW t \in Text, NEW d \in Continuations(t)
    PROVE  d \in Seq(Char) /\ Len(d) \in Nat /\ Len(t) + Len(d) <= MaxChars
<1>1. MaxChars \in Nat /\ Len(t) \in Nat /\ Len(t) <= MaxChars
  BY BoundsAssumption, TextElim
<1>2. PICK n \in 0..(MaxChars - Len(t)) : d \in [1..n -> Char]
  BY DEF Continuations
<1>3. d \in Seq(Char) /\ Len(d) = n
  BY <1>1, <1>2
<1> QED
  BY <1>1, <1>3

\* What keeps a text within the bound is a continuation of it.
LEMMA ContinuationIntro ==
    ASSUME NEW t \in Text, NEW d \in Seq(Char), Len(t) + Len(d) <= MaxChars
    PROVE  d \in Continuations(t)
<1>1. MaxChars \in Nat /\ Len(t) \in Nat /\ Len(t) <= MaxChars
  BY BoundsAssumption, TextElim
<1>2. Len(d) \in 0..(MaxChars - Len(t)) /\ d \in [1..Len(d) -> Char]
  BY <1>1, LenProperties
<1> QED
  BY <1>2 DEF Continuations

\* A text extended by one of its continuations is a text.
LEMMA ContinuedText ==
    ASSUME NEW t \in Text, NEW d \in Continuations(t)
    PROVE  t \o d \in Text /\ Len(t \o d) = Len(t) + Len(d)
<1>1. t \in Seq(Char) /\ d \in Seq(Char) /\ Len(t) + Len(d) <= MaxChars
  BY TextElim, ContinuationElim
<1>2. t \o d \in Seq(Char) /\ Len(t \o d) = Len(t) + Len(d)
  BY <1>1, ConcatProperties
<1> QED
  BY <1>1, <1>2, TextIntro

\* Dropping from a text leaves a text, which has at least the continuations.
LEMMA DroppedText ==
    ASSUME NEW t \in Text, NEW a \in 0..Len(t)
    PROVE  /\ Drop(t, a) \in Text /\ Drop(t, a) \in Seq(Char)
           /\ Len(Drop(t, a)) = Len(t) - a
           /\ Continuations(t) \subseteq Continuations(Drop(t, a))
<1> DEFINE u == Drop(t, a)
<1>1. t \in Seq(Char) /\ Len(t) \in Nat /\ Len(t) <= MaxChars /\ MaxChars \in Nat
  BY TextElim, BoundsAssumption
<1>2. u \in Seq(Char) /\ Len(u) = Len(t) - a
  BY <1>1, TakeDrop
<1> HIDE DEF u
<1>3. u \in Text
  BY <1>1, <1>2, TextIntro
<1>4. ASSUME NEW d \in Continuations(t) PROVE d \in Continuations(u)
  <2>1. d \in Seq(Char) /\ Len(d) \in Nat /\ Len(t) + Len(d) <= MaxChars
    BY ContinuationElim
  <2>2. Len(u) + Len(d) <= MaxChars
    BY <1>1, <1>2, <2>1
  <2> QED
    BY <1>3, <2>1, <2>2, ContinuationIntro
<1> QED
  BY <1>2, <1>3, <1>4 DEF u

\* S is a stable prefix of the stream of t that ends after a characters: it
\* stays a prefix whatever is appended, and the rest is the encoding of the rest.
Cut(k, t, a, S) ==
    \A d \in Continuations(t) : Enc(k, t \o d) = S \o Enc(k, Drop(t, a) \o d)

\* At a cut, the sealed ids and the encoding of the rest are the stream of the text.
LEMMA CutExact ==
    ASSUME NEW k \in Key, NEW t \in Text, NEW a \in 0..Len(t), NEW S, Cut(k, t, a, S)
    PROVE  Enc(k, t) = S \o Enc(k, Drop(t, a))
<1>1. t \in Seq(Char) /\ Len(t) \in Nat /\ Len(t) <= MaxChars /\ Drop(t, a) \in Seq(Char)
  BY TextElim, DroppedText
<1>2. <<>> \in Seq(Char) /\ Len(t) + Len(<<>>) <= MaxChars
  BY <1>1
<1>3. <<>> \in Continuations(t)
  BY <1>2, ContinuationIntro
<1>4. Enc(k, t \o <<>>) = S \o Enc(k, Drop(t, a) \o <<>>)
  BY <1>3 DEF Cut
<1>5. t \o <<>> = t /\ Drop(t, a) \o <<>> = Drop(t, a)
  BY <1>1, ConcatEmptySeq
<1> QED
  BY <1>4, <1>5

\* A cut of a text is a cut of every continuation of the text.
LEMMA CutExtends ==
    ASSUME NEW k \in Key, NEW t \in Text, NEW a \in 0..Len(t), NEW S, Cut(k, t, a, S),
           NEW e \in Continuations(t)
    PROVE  Cut(k, t \o e, a, S)
<1> DEFINE u == Drop(t, a)
<1>1. t \in Seq(Char) /\ e \in Seq(Char) /\ u \in Seq(Char) /\ t \o e \in Text
      /\ Len(t \o e) = Len(t) + Len(e)
  BY TextElim, ContinuationElim, DroppedText, ContinuedText
<1>2. Drop(t \o e, a) = u \o e
  BY <1>1, DropOfConcat
<1>3. ASSUME NEW d \in Continuations(t \o e)
      PROVE  Enc(k, (t \o e) \o d) = S \o Enc(k, (u \o e) \o d)
  <2>1. d \in Seq(Char) /\ Len(d) \in Nat /\ Len(t \o e) + Len(d) <= MaxChars
    BY <1>1, ContinuationElim
  <2>2. e \o d \in Seq(Char) /\ Len(e \o d) = Len(e) + Len(d)
    BY <1>1, <2>1, ConcatProperties
  <2>3. Len(t) \in Nat /\ Len(e) \in Nat
    BY <1>1
  <2>4. Len(t) + Len(e \o d) <= MaxChars
    BY <1>1, <2>1, <2>2, <2>3, BoundsAssumption
  <2>5. e \o d \in Continuations(t)
    BY <2>2, <2>4, ContinuationIntro
  <2>6. (t \o e) \o d = t \o (e \o d)
    BY <1>1, <2>1, ConcatAssociative, SMTT(60)
  <2>7. Enc(k, t \o (e \o d)) = S \o Enc(k, u \o (e \o d))
    BY <2>5 DEF Cut
  <2> HIDE DEF u
  <2>8. (u \o e) \o d = u \o (e \o d)
    BY <1>1, <2>1, ConcatAssociative, SMTT(60)
  <2> QED
    BY <2>6, <2>7, <2>8
<1> QED
  BY <1>2, <1>3 DEF Cut

\* The empty prefix is a cut of every text.
LEMMA CutAtStart ==
    ASSUME NEW k \in Key, NEW t \in Text
    PROVE  Cut(k, t, 0, <<>>)
<1>1. t \in Seq(Char) /\ Drop(t, 0) = t
  BY TextElim, SubSeqFull DEF Drop
<1>2. ASSUME NEW d \in Continuations(t)
      PROVE  Enc(k, t \o d) = <<>> \o Enc(k, t \o d)
  <2>1. Enc(k, t \o d) \in Seq(Token)
    BY ContinuedText, EncAssumption
  <2> QED
    BY <2>1, ConcatEmptySeq
<1> QED
  BY <1>1, <1>2 DEF Cut

\* A certified boundary of the tail outside the end guard moves the cut.
LEMMA CutAdvances ==
    ASSUME NEW k \in Key, NEW t \in Text, NEW a \in 0..Len(t), NEW S \in Seq(Token),
           Cut(k, t, a, S),
           NEW c \in Cuts(k, Drop(t, a)), c[2] + Guard(k) <= Len(Drop(t, a))
    PROVE  /\ c[2] \in 1..(Len(t) - a) /\ c[1] \in 1..Len(Enc(k, Drop(t, a)))
           /\ Drop(Drop(t, a), c[2]) = Drop(t, a + c[2])
           /\ Cut(k, t, a + c[2], S \o Take(Enc(k, Drop(t, a)), c[1]))
           /\ Enc(k, Drop(t, a + c[2])) = Drop(Enc(k, Drop(t, a)), c[1])
<1> DEFINE u == Drop(t, a)
           E == Enc(k, u)
           h == Take(E, c[1])
           v == Drop(u, c[2])
<1>1. t \in Seq(Char) /\ Len(t) \in Nat
  BY TextElim
<1>2. u \in Seq(Char) /\ Len(u) = Len(t) - a /\ u \in Text /\ Continuations(t) \subseteq Continuations(u)
  BY DroppedText
<1>3. E \in Seq(Token) /\ Len(E) \in Nat
  BY <1>2, EncAssumption
<1>4. c[1] \in 1..(Len(E) - 1) /\ c[2] \in 1..(Len(u) - 1)
  BY <1>2, CutShapeAssumption
<1>5. c[1] \in 0..Len(E) /\ c[1] \in 1..Len(E) /\ c[2] \in 1..(Len(t) - a) /\ c[2] \in 0..Len(u)
  BY <1>1, <1>2, <1>3, <1>4
<1>6. \A d \in Continuations(u) : Enc(k, u \o d) = h \o Enc(k, v \o d)
  BY <1>2, CutAssumption
<1>7. v = Drop(t, a + c[2])
  <2>1. c[2] \in 0..(Len(t) - a)
    BY <1>2, <1>5
  <2> QED
    BY <1>1, <2>1, DropDrop
<1> HIDE DEF E
<1>8. h \in Seq(Token) /\ Drop(E, c[1]) \in Seq(Token) /\ h \o Drop(E, c[1]) = E
  BY <1>3, <1>5, TakeDrop
<1> HIDE DEF u, h
<1>9. v \in Text /\ Continuations(u) \subseteq Continuations(v)
  BY <1>2, <1>5, DroppedText
<1>10. ASSUME NEW d \in Continuations(t)
       PROVE  Enc(k, t \o d) = (S \o h) \o Enc(k, v \o d)
  <2>1. d \in Continuations(u) /\ d \in Continuations(v)
    BY <1>2, <1>9
  <2> HIDE DEF v
  <2>2. Enc(k, v \o d) \in Seq(Token)
    BY <1>9, <2>1, ContinuedText, EncAssumption
  <2>3. Enc(k, t \o d) = S \o Enc(k, u \o d)
    BY DEF Cut, u
  <2>4. Enc(k, t \o d) = S \o (h \o Enc(k, v \o d))
    BY <1>6, <2>1, <2>3
  <2>5. S \o (h \o Enc(k, v \o d)) = (S \o h) \o Enc(k, v \o d)
    <3> DEFINE z == Enc(k, v \o d)
    <3>1. z \in Seq(Token) /\ h \in Seq(Token) /\ S \in Seq(Token)
      BY <1>8, <2>2
    <3> HIDE DEF z
    <3>2. (S \o h) \o z = S \o (h \o z)
      BY <3>1, ConcatAssociative, SMTT(60)
    <3> QED
      BY <3>2 DEF z
  <2> QED
    BY <2>4, <2>5
<1>11. Cut(k, t, a + c[2], S \o h)
  BY <1>7, <1>10 DEF Cut
<1>12. Enc(k, v) = Drop(E, c[1])
  <2>1. Enc(k, v) \in Seq(Token)
    BY <1>9, EncAssumption
  <2>2. Cut(k, u, c[2], h)
    BY <1>6 DEF Cut
  <2>3. E = h \o Enc(k, v)
    BY <1>2, <1>5, <2>2, CutExact DEF E
  <2> HIDE DEF v
  <2>4. h \o Enc(k, v) = h \o Drop(E, c[1])
    BY <1>8, <2>3
  <2> QED
    BY <1>8, <2>1, <2>4, CancelLeft
<1> QED
  BY <1>5, <1>7, <1>11, <1>12 DEF u, E, h, v

\* The stable prefix is read off the stream of any continuation.
LEMMA CutIsPrefix ==
    ASSUME NEW k \in Key, NEW t \in Text, NEW a \in 0..Len(t), NEW S \in Seq(Token),
           Cut(k, t, a, S), NEW e \in Continuations(t)
    PROVE  Len(S) <= Len(Enc(k, t \o e)) /\ Take(Enc(k, t \o e), Len(S)) = S
<1> DEFINE r == Enc(k, Drop(t, a) \o e)
<1>1. Drop(t, a) \in Text /\ e \in Continuations(Drop(t, a))
  BY DroppedText
<1>2. r \in Seq(Token)
  BY <1>1, ContinuedText, EncAssumption
<1>3. Enc(k, t \o e) = S \o r
  BY DEF Cut
<1> HIDE DEF r
<1>4. Len(S \o r) = Len(S) + Len(r) /\ Take(S \o r, Len(S)) = S
  BY <1>2, ConcatProperties, TakeOfConcat
<1>5. Len(S) \in Nat /\ Len(r) \in Nat
  BY <1>2
<1> QED
  BY <1>3, <1>4, <1>5

-----------------------------------------------------------------------------
(* The invariant of one session. *)

\* The working set mirrors the text past the seal point.
Shape(s) ==
    /\ s \in Session
    /\ s.text \in Text
    /\ s.safe <= Len(s.text)
    /\ s.tail = Drop(s.text, s.safe)
    /\ s.tailIds = Enc(s.key, s.tail)
    /\ s.payload = s.sealed
    /\ \A e \in s.sealLog : e[2] <= Len(s.sealed)
    /\ s.witness = "none" => s.safe = 0 /\ s.sealed = <<>>

\* The chain has hashed whole blocks of the text, and buf holds the text
\* between the last hashed block and the seal point.
Chained(s) ==
    s.chainOk =>
        /\ Len(s.chain) <= Len(s.text)
        /\ s.chain = Take(s.text, Len(s.chain))
        /\ s.buf = SubSeq(s.text, Len(s.chain) + 1, s.safe)
        /\ s.chainBase <= Len(s.sealed)

\* A session between two operations.
GoodSession(s) ==
    /\ Shape(s)
    /\ Chained(s)
    /\ s.chainOk => BlockEnd(s) > Len(s.text)
    /\ Cut(s.key, s.text, s.safe, s.sealed)

\* A session in the block loop: the seal point is a cut of the text it had
\* before the operation, and every block that is still to be hashed ends
\* after that text.
GrowingSession(s, old) ==
    /\ Shape(s)
    /\ Chained(s)
    /\ old \in Nat /\ s.safe <= old /\ old <= Len(s.text)
    /\ s.chainOk => BlockEnd(s) > old
    /\ Cut(s.key, Take(s.text, old), s.safe, s.sealed)

\* What every reader of a session may use of its type.
LEMMA SessionFields ==
    ASSUME NEW s \in Session
    PROVE  /\ s.key \in Key /\ s.witness \in Witness /\ s.revision \in Nat
           /\ s.text \in Seq(Char) /\ s.safe \in Nat
           /\ s.sealed \in Seq(Token) /\ s.payload \in Seq(Token)
           /\ s.tail \in Seq(Char) /\ s.tailIds \in Seq(Token)
           /\ s.gen \in Nat /\ s.snapshot \in Snapshot
           /\ s.chain \in Seq(Char) /\ s.buf \in Seq(Char)
           /\ s.chainBase \in Nat /\ s.chainOk \in BOOLEAN
           /\ s.sealLog \in SUBSET (Nat \X Nat)
           /\ s.scanFloor \in Nat /\ s.replaceFrom \in Nat
           /\ s.prev \in Seq(Record) /\ s.hash \in Seq(Record)
BY DEF Session

\* A record with the bookkeeping of t and the stream of s.
LEMMA SameStream ==
    ASSUME NEW s, GoodSession(s), NEW t \in Session,
           t.key = s.key, t.witness = s.witness, t.text = s.text,
           t.safe = s.safe, t.sealed = s.sealed, t.payload = s.payload,
           t.tail = s.tail, t.tailIds = s.tailIds,
           t.chain = s.chain, t.buf = s.buf, t.chainBase = s.chainBase,
           t.chainOk = s.chainOk, t.sealLog = s.sealLog
    PROVE  GoodSession(t)
BY DEF GoodSession, Shape, Chained, BlockEnd, BlocksEnd

\* A new ids generation changes nothing the invariant speaks of.
LEMMA BumpGenerationGood ==
    ASSUME NEW s, GoodSession(s)
    PROVE  GoodSession(BumpGeneration(s))
<1> DEFINE g == s.gen + 1
           t == [s EXCEPT !.gen = g, !.snapshot = NoSnapshot]
<1>1. s \in Session
  BY DEF GoodSession, Shape
<1>2. NoSnapshot \in Snapshot
  BY DEF NoSnapshot, Snapshot
<1>3. g \in Nat
  BY <1>1, SessionFields
<1> HIDE DEF g
<1>4. t \in Session
  BY <1>1, <1>2, <1>3 DEF Session
<1>5. GoodSession(t)
  BY <1>1, <1>4, SameStream DEF Session
<1> QED
  BY <1>5 DEF BumpGeneration, g

\* Growth by a delta: the old seal point stays a cut of the old text.
LEMMA GrownByGrowing ==
    ASSUME NEW s, GoodSession(s), NEW d \in Continuations(s.text)
    PROVE  GrowingSession(GrownBy(s, d), Len(s.text))
<1> DEFINE b == BumpGeneration(s)
           txt == s.text \o d
           tl == s.tail \o d
           ids == Enc(s.key, tl)
           t == [b EXCEPT !.text = txt, !.tail = tl, !.tailIds = ids]
<1>1. s \in Session /\ s.text \in Text /\ s.tail = Drop(s.text, s.safe)
      /\ s.safe \in 0..Len(s.text) /\ s.safe \in Nat /\ Len(s.text) \in Nat
      /\ s.key \in Key /\ s.text \in Seq(Char) /\ s.safe <= Len(s.text)
  BY SessionFields, TextElim DEF GoodSession, Shape
<1>2. GoodSession(b) /\ b \in Session
  BY BumpGenerationGood DEF GoodSession, Shape
<1>3. /\ b.key = s.key /\ b.witness = s.witness /\ b.text = s.text /\ b.safe = s.safe
      /\ b.sealed = s.sealed /\ b.payload = s.payload /\ b.tail = s.tail
      /\ b.chain = s.chain /\ b.buf = s.buf /\ b.chainBase = s.chainBase
      /\ b.chainOk = s.chainOk /\ b.sealLog = s.sealLog
  BY <1>1 DEF BumpGeneration, Session
<1> HIDE DEF b
<1>4. d \in Seq(Char) /\ txt \in Text /\ Len(txt) = Len(s.text) + Len(d) /\ Len(d) \in Nat
  BY <1>1, ContinuationElim, ContinuedText
<1>5. tl = Drop(txt, s.safe)
  <2> DEFINE x == s.text
             a == s.safe
  <2>1. x \in Seq(Char) /\ a \in 0..Len(x) /\ s.tail = Drop(x, a) /\ d \in Seq(Char)
    BY <1>1, <1>4
  <2> HIDE DEF x, a
  <2>2. Drop(x \o d, a) = Drop(x, a) \o d
    BY <2>1, DropOfConcat
  <2> QED
    BY <2>1, <2>2 DEF x, a
<1>6. tl \in Text /\ tl \in Seq(Char)
  <2>1. s.safe \in 0..Len(txt)
    BY <1>1, <1>4
  <2> HIDE DEF txt, tl
  <2> QED
    BY <1>4, <1>5, <2>1, DroppedText
<1>7. ids \in Seq(Token)
  BY <1>1, <1>6, EncAssumption
<1>8. txt \in Seq(Char) /\ Take(txt, Len(s.text)) = s.text
  BY <1>1, <1>4, TextElim, TakeOfConcat
<1>9. s.chainOk => /\ Take(txt, Len(s.chain)) = Take(s.text, Len(s.chain))
                   /\ SubSeq(txt, Len(s.chain) + 1, s.safe)
                      = SubSeq(s.text, Len(s.chain) + 1, s.safe)
  <2>1. Len(s.chain) \in Nat /\ Len(s.chain) + 1 \in Nat \ {0} /\ 1 \in Nat \ {0}
    BY <1>1, SessionFields
  <2>2. SubSeq(txt, Len(s.chain) + 1, s.safe) = SubSeq(s.text, Len(s.chain) + 1, s.safe)
    <3> DEFINE m == Len(s.chain) + 1
    <3>1. s.text \in Seq(Char) /\ d \in Seq(Char) /\ m \in Nat \ {0} /\ s.safe \in Nat
          /\ s.safe <= Len(s.text)
      BY <1>1, <1>4, <2>1
    <3> HIDE DEF m
    <3>2. SubSeq(s.text \o d, m, s.safe) = SubSeq(s.text, m, s.safe)
      BY <3>1, SliceOfConcat
    <3> QED
      BY <3>2 DEF m
  <2>3. s.chainOk => Len(s.chain) <= Len(s.text)
    BY DEF GoodSession, Chained
  <2>4. Len(s.chain) <= Len(s.text) => SubSeq(txt, 1, Len(s.chain)) = SubSeq(s.text, 1, Len(s.chain))
    BY <1>1, <1>4, <2>1, SliceOfConcat
  <2> QED
    BY <2>2, <2>3, <2>4 DEF Take
<1> HIDE DEF txt, tl, ids
<1>10. t \in Session
  BY <1>2, <1>6, <1>7, <1>8 DEF Session
<1>11. /\ t.key = s.key /\ t.witness = s.witness /\ t.text = txt /\ t.safe = s.safe
       /\ t.sealed = s.sealed /\ t.payload = s.payload /\ t.tail = tl /\ t.tailIds = ids
       /\ t.chain = s.chain /\ t.buf = s.buf /\ t.chainBase = s.chainBase
       /\ t.chainOk = s.chainOk /\ t.sealLog = s.sealLog
  BY <1>2, <1>3 DEF Session
<1> HIDE DEF t
<1>12. s.safe <= Len(txt) /\ Len(s.text) <= Len(txt)
  BY <1>1, <1>4
<1>13. Shape(t)
  BY <1>4, <1>5, <1>10, <1>11, <1>12 DEF GoodSession, Shape, ids
<1>14. Chained(t)
  <2>1. s.chainOk => Len(s.chain) <= Len(txt) /\ s.chainBase <= Len(s.sealed)
    BY <1>1, <1>12, SessionFields DEF GoodSession, Chained
  <2> QED
    BY <1>9, <1>11, <2>1 DEF GoodSession, Chained
<1>15. t.chainOk => BlockEnd(t) > Len(s.text)
  BY <1>11 DEF GoodSession, BlockEnd, BlocksEnd
<1>16. Cut(t.key, Take(t.text, Len(s.text)), t.safe, t.sealed)
  BY <1>8, <1>11 DEF GoodSession
<1>17. GrowingSession(t, Len(s.text))
  BY <1>1, <1>11, <1>12, <1>13, <1>14, <1>15, <1>16 DEF GrowingSession
<1>18. t = GrownBy(s, d)
  BY <1>2, <1>3 DEF t, b, txt, tl, ids, GrownBy
<1> QED
  BY <1>17, <1>18

-----------------------------------------------------------------------------
(* A session that begins. *)

\* The fresh session is good.
LEMMA FreshSession ==
    ASSUME NEW k \in Key, NEW w \in Witness
    PROVE  Fresh(k, w) \in Session
<1>1. NoSnapshot \in Snapshot
  BY DEF NoSnapshot, Snapshot
<1>2. <<>> \in Seq(Record)
  OBVIOUS
<1>3. {<<0, 0>>} \in SUBSET (Nat \X Nat)
  OBVIOUS
<1>4. <<>> \in Seq(Char) /\ <<>> \in Seq(Token) /\ 0 \in Nat
  OBVIOUS
<1> QED
  BY <1>1, <1>2, <1>3, <1>4 DEF Fresh, Session

\* The empty text is a text.
LEMMA EmptyText == <<>> \in Text /\ Len(<<>>) = 0
<1>1. <<>> \in Seq(Char) /\ Len(<<>>) <= MaxChars
  BY BoundsAssumption
<1> QED
  BY <1>1, TextIntro

\* put before its block loop.
LEMMA PutGrowing ==
    ASSUME NEW k \in Key, NEW w \in Witness, NEW t \in Text
    PROVE  GrowingSession([Fresh(k, w) EXCEPT !.text = t, !.tail = t, !.tailIds = Enc(k, t)], 0)
<1> DEFINE f == Fresh(k, w)
           e == Enc(k, t)
           s == [f EXCEPT !.text = t, !.tail = t, !.tailIds = e]
<1>1. f \in Session
  BY FreshSession
<1>2. /\ f.key = k /\ f.witness = w /\ f.safe = 0 /\ f.sealed = <<>> /\ f.payload = <<>>
      /\ f.chain = <<>> /\ f.buf = <<>> /\ f.chainBase = 0 /\ f.chainOk = TRUE
      /\ f.sealLog = {<<0, 0>>}
  BY DEF Fresh
<1>3. t \in Seq(Char) /\ Len(t) \in Nat /\ e \in Seq(Token)
  BY TextElim, EncAssumption
<1> HIDE DEF f, e
<1>4. s \in Session
  BY <1>1, <1>3 DEF Session
<1>5. /\ s.key = k /\ s.witness = w /\ s.safe = 0 /\ s.sealed = <<>> /\ s.payload = <<>>
      /\ s.chain = <<>> /\ s.buf = <<>> /\ s.chainBase = 0 /\ s.chainOk = TRUE
      /\ s.sealLog = {<<0, 0>>} /\ s.text = t /\ s.tail = t /\ s.tailIds = e
  BY <1>1, <1>2 DEF Session
<1> HIDE DEF s
<1>6. Drop(t, 0) = t /\ Take(t, 0) = <<>> /\ SubSeq(t, 1, 0) = <<>>
  BY <1>3, SubSeqFull, SubSeqEmpty DEF Drop, Take
<1>7. Shape(s)
  <2>1. \A x \in s.sealLog : x[2] <= Len(s.sealed)
    BY <1>5
  <2> QED
    BY <1>3, <1>4, <1>5, <1>6, <2>1 DEF Shape, e
<1>8. Chained(s)
  BY <1>3, <1>5, <1>6, EmptyText DEF Chained
<1>9. BlockEnd(s) > 0
  BY <1>5, BoundsAssumption DEF BlockEnd, BlocksEnd
<1>10. Cut(k, <<>>, 0, <<>>)
  BY EmptyText, CutAtStart
<1>11. GrowingSession(s, 0)
  BY <1>3, <1>5, <1>6, <1>7, <1>8, <1>9, <1>10 DEF GrowingSession
<1> QED
  BY <1>11 DEF s, f, e

\* lookup before its walk.
LEMMA FreshGood ==
    ASSUME NEW k \in Key, NEW w \in Witness
    PROVE  GoodSession(Fresh(k, w))
<1> DEFINE s == Fresh(k, w)
<1>1. s \in Session
  BY FreshSession
<1>2. /\ s.key = k /\ s.witness = w /\ s.safe = 0 /\ s.sealed = <<>> /\ s.payload = <<>>
      /\ s.chain = <<>> /\ s.buf = <<>> /\ s.chainBase = 0 /\ s.chainOk = TRUE
      /\ s.sealLog = {<<0, 0>>} /\ s.text = <<>> /\ s.tail = <<>> /\ s.tailIds = <<>>
  BY DEF Fresh
<1> HIDE DEF s
<1>3. Drop(<<>>, 0) = <<>> /\ Take(<<>>, 0) = <<>> /\ SubSeq(<<>>, 1, 0) = <<>>
  BY SubSeqEmpty DEF Drop, Take
<1>4. Enc(k, <<>>) = <<>>
  BY EncAssumption
<1>5. Shape(s)
  <2>1. \A x \in s.sealLog : x[2] <= Len(s.sealed)
    BY <1>2
  <2> QED
    BY <1>1, <1>2, <1>3, <1>4, <2>1, EmptyText DEF Shape
<1>6. Chained(s)
  BY <1>2, <1>3, EmptyText DEF Chained
<1>7. BlockEnd(s) > Len(s.text)
  BY <1>2, BoundsAssumption DEF BlockEnd, BlocksEnd
<1>8. Cut(k, <<>>, 0, <<>>)
  BY EmptyText, CutAtStart
<1>9. GoodSession(s)
  BY <1>2, <1>5, <1>6, <1>7, <1>8 DEF GoodSession
<1> QED
  BY <1>9 DEF s

-----------------------------------------------------------------------------
(* The block loop. *)

\* The numbers and types every step of the loop uses.
LEMMA GrowingFacts ==
    ASSUME NEW s, NEW old, GrowingSession(s, old)
    PROVE  /\ s \in Session /\ s.key \in Key /\ s.text \in Text /\ s.text \in Seq(Char)
           /\ Len(s.text) \in Nat /\ s.safe \in Nat /\ s.safe <= Len(s.text)
           /\ old \in Nat /\ s.safe <= old /\ old <= Len(s.text)
           /\ s.tail = Drop(s.text, s.safe) /\ Len(s.tail) = Len(s.text) - s.safe
           /\ Total(s) = Len(s.text)
           /\ BlocksEnd(s) \in Nat /\ BlockEnd(s) = BlocksEnd(s) + BlockChars
           /\ BlockEnd(s) \in Nat /\ BlockChars \in Nat \ {0}
           /\ s.sealed \in Seq(Token) /\ Len(s.sealed) \in Nat
<1>1. s \in Session /\ s.key \in Key /\ s.text \in Text /\ s.safe \in Nat
      /\ s.chain \in Seq(Char) /\ s.sealed \in Seq(Token)
      /\ s.safe <= Len(s.text) /\ s.tail = Drop(s.text, s.safe)
      /\ old \in Nat /\ s.safe <= old /\ old <= Len(s.text)
  BY SessionFields DEF GrowingSession, Shape
<1>2. s.text \in Seq(Char) /\ Len(s.text) \in Nat
  BY <1>1, TextElim
<1>3. s.safe \in 0..Len(s.text)
  BY <1>1, <1>2
<1>4. Len(s.tail) = Len(s.text) - s.safe
  BY <1>1, <1>3, DroppedText
<1>5. Total(s) = Len(s.text)
  BY <1>1, <1>2, <1>4 DEF Total
<1> QED
  BY <1>1, <1>2, <1>4, <1>5, BoundsAssumption DEF BlocksEnd, BlockEnd

\* text_range reads the text, although the store retains only buf and the tail.
LEMMA TextRangeReads ==
    ASSUME NEW s, NEW old, GrowingSession(s, old), HasBlock(s)
    PROVE  /\ s.safe <= BlockEnd(s) /\ BlockEnd(s) <= Len(s.text)
           /\ s.buf = SubSeq(s.text, BlocksEnd(s) + 1, s.safe)
           /\ TextRange(s, BlocksEnd(s), BlockEnd(s))
              = SubSeq(s.text, BlocksEnd(s) + 1, BlockEnd(s))
           /\ TextRange(s, s.safe, BlockEnd(s)) = SubSeq(s.text, s.safe + 1, BlockEnd(s))
<1> DEFINE a == BlocksEnd(s)
           b == BlockEnd(s)
           f == s.safe
           T == s.text
           U == SubSeq(T, f + 1, Len(T))
<1>1. /\ T \in Seq(Char) /\ Len(T) \in Nat /\ f \in Nat /\ f <= Len(T)
      /\ s.tail = U /\ a \in Nat /\ b \in Nat /\ a < b
  BY GrowingFacts DEF Drop
<1>2. f <= b /\ b <= Len(T)
  <2>1. b > old
    BY DEF GrowingSession, HasBlock
  <2>2. b <= Total(s)
    BY DEF HasBlock
  <2> QED
    BY <1>1, <2>1, <2>2, GrowingFacts, SMTT(30)
<1>3. s.buf = SubSeq(T, a + 1, f)
  BY DEF GrowingSession, Chained, HasBlock, BlocksEnd
<1>4. TextRange(s, a, b) = (IF a < f THEN SubSeq(s.buf, a - a + 1, Lower(b, f) - a) ELSE <<>>)
                           \o (IF b > f THEN SubSeq(U, Upper(a, f) - f + 1, b - f) ELSE <<>>)
  BY <1>1 DEF TextRange
<1>5. TextRange(s, f, b) = (IF f < f THEN SubSeq(s.buf, f - a + 1, Lower(b, f) - a) ELSE <<>>)
                           \o (IF b > f THEN SubSeq(U, Upper(f, f) - f + 1, b - f) ELSE <<>>)
  BY <1>1 DEF TextRange
<1> HIDE DEF a, b, f, T
<1>6. \A m \in Nat \ {0} : SubSeq(U, m, b - f) = SubSeq(T, f + m, b)
  <2> TAKE m \in Nat \ {0}
  <2>1. f + 1 \in Nat \ {0} /\ b - f \in Nat /\ (f + 1) + (b - f) - 1 <= Len(T) /\ Len(T) <= Len(T)
    BY <1>1, <1>2
  <2>2. SubSeq(SubSeq(T, f + 1, Len(T)), m, b - f) = SubSeq(T, (f + 1) + m - 1, (f + 1) + (b - f) - 1)
    BY <1>1, <2>1, SliceOfSlice
  <2>3. (f + 1) + m - 1 = f + m /\ (f + 1) + (b - f) - 1 = b
    BY <1>1
  <2> QED
    BY <2>2, <2>3
<1> HIDE DEF U
<1>7. \A m \in Nat \ {0} : SubSeq(T, m, b) \in Seq(Char)
  BY <1>1, <1>2, SliceFacts
<1>8. \A m \in Nat : b <= m => SubSeq(T, m + 1, b) = <<>>
  BY <1>1, SubSeqEmpty
<1>9. SubSeq(U, 1, b - f) = SubSeq(T, f + 1, b)
  <2>1. 1 \in Nat \ {0}
    OBVIOUS
  <2> QED
    BY <1>6, <2>1, Zenon
<1>10. TextRange(s, f, b) = SubSeq(T, f + 1, b)
  <2>1. CASE b > f
    <3>1. Upper(f, f) - f + 1 = 1 /\ f + 1 \in Nat \ {0} /\ 1 \in Nat \ {0}
      BY <1>1 DEF Upper
    <3>2. TextRange(s, f, b) = <<>> \o SubSeq(T, f + 1, b)
      BY <1>1, <1>5, <1>9, <2>1, <3>1, SMTT(30)
    <3> QED
      BY <1>7, <3>1, <3>2, ConcatEmptySeq
  <2>2. CASE ~(b > f)
    <3>1. TextRange(s, f, b) = <<>> \o <<>> /\ b <= f
      BY <1>1, <1>5, <2>2
    <3> QED
      BY <1>1, <1>8, <3>1
  <2> QED
    BY <2>1, <2>2
<1>11. TextRange(s, a, b) = SubSeq(T, a + 1, b)
  <2>1. CASE a < f
    <3>1. Lower(b, f) - a = f - a /\ a - a + 1 = 1 /\ Upper(a, f) - f + 1 = 1
      BY <1>1, <1>2, <2>1 DEF Lower, Upper
    <3>2. a + 1 \in Nat \ {0} /\ f + 1 \in Nat \ {0} /\ 1 \in Nat \ {0} /\ a + 1 <= f + 1
      BY <1>1, <2>1
    <3>3. s.buf \in Seq(Char) /\ Len(s.buf) = f - a
      BY <1>1, <1>3, <2>1, <3>2, SliceFacts
    <3>4. SubSeq(s.buf, 1, f - a) = SubSeq(T, a + 1, f)
      BY <1>3, <3>3, SubSeqFull
    <3>5. (IF b > f THEN SubSeq(U, 1, b - f) ELSE <<>>) = SubSeq(T, f + 1, b)
      BY <1>1, <1>2, <1>9, <1>8, <3>2
    <3>6. SubSeq(T, a + 1, f) \o SubSeq(T, f + 1, b) = SubSeq(T, a + 1, b)
      BY <1>1, <1>2, <3>2, SlicesJoin
    <3> QED
      BY <1>4, <2>1, <3>1, <3>4, <3>5, <3>6
  <2>2. CASE ~(a < f)
    <3>1. b > f /\ Upper(a, f) - f + 1 \in Nat \ {0} /\ f + (Upper(a, f) - f + 1) = a + 1
      BY <1>1, <2>2 DEF Upper
    <3>2. TextRange(s, a, b) = <<>> \o SubSeq(T, a + 1, b)
      BY <1>4, <1>6, <2>2, <3>1
    <3>3. a + 1 \in Nat \ {0}
      BY <1>1
    <3> QED
      BY <1>7, <3>2, <3>3, ConcatEmptySeq
  <2> QED
    BY <2>1, <2>2
<1> QED
  BY <1>2, <1>3, <1>10, <1>11 DEF a, b, f, T

\* The key of the next block names the text up to its end.
LEMMA BlockPrefixReads ==
    ASSUME NEW s, NEW old, GrowingSession(s, old), HasBlock(s)
    PROVE  /\ BlockPrefix(s) = Take(s.text, BlockEnd(s))
           /\ BlockPrefix(s) \in Text /\ BlockPrefix(s) \in Seq(Char)
           /\ Len(BlockPrefix(s)) = BlockEnd(s)
<1> DEFINE a == BlocksEnd(s)
           b == BlockEnd(s)
           T == s.text
<1>1. T \in Seq(Char) /\ T \in Text /\ Len(T) \in Nat /\ a \in Nat /\ b \in Nat /\ a < b /\ b <= Len(T)
  BY GrowingFacts, TextRangeReads
<1>2. s.chain = SubSeq(T, 1, a)
  BY DEF GrowingSession, Chained, HasBlock, BlocksEnd, Take
<1>3. TextRange(s, a, b) = SubSeq(T, a + 1, b)
  BY TextRangeReads
<1>4. BlockPrefix(s) = SubSeq(T, 1, a) \o SubSeq(T, a + 1, b)
  BY <1>2, <1>3 DEF BlockPrefix
<1> HIDE DEF a, b, T
<1>5. 1 \in Nat \ {0} /\ 1 <= a + 1 /\ a <= b
  BY <1>1
<1>6. BlockPrefix(s) = Take(T, b)
  BY <1>1, <1>4, <1>5, SlicesJoin DEF Take
<1>7. b \in 0..Len(T)
  BY <1>1
<1>8. Take(T, b) \in Seq(Char) /\ Len(Take(T, b)) = b
  BY <1>1, <1>7, TakeDrop
<1>9. Len(Take(T, b)) <= MaxChars
  BY <1>1, <1>8, TextElim, BoundsAssumption
<1>10. Take(T, b) \in Text
  BY <1>8, <1>9, TextIntro
<1> QED
  BY <1>6, <1>8, <1>10 DEF b, T

\* A block is hashed.
LEMMA AdvanceGrowing ==
    ASSUME NEW s, NEW old, GrowingSession(s, old), HasBlock(s),
           NEW base \in Nat, base <= Len(s.sealed)
    PROVE  GrowingSession(Advance(s, base), old)
<1> DEFINE p == BlockPrefix(s)
           d == Drop(s.buf, BlockChars)
           t == [s EXCEPT !.chain = p, !.chainBase = base, !.buf = d]
<1>1. s \in Session /\ s.text \in Seq(Char) /\ Len(s.text) \in Nat /\ s.safe \in Nat
      /\ BlocksEnd(s) \in Nat /\ BlockEnd(s) \in Nat /\ BlockChars \in Nat \ {0}
      /\ BlockEnd(s) = BlocksEnd(s) + BlockChars /\ s.safe <= Len(s.text) /\ s.chainOk
  BY GrowingFacts DEF HasBlock
<1>2. s.safe <= BlockEnd(s) /\ BlockEnd(s) <= Len(s.text)
      /\ s.buf = SubSeq(s.text, BlocksEnd(s) + 1, s.safe)
  BY TextRangeReads
<1>3. p \in Seq(Char) /\ Len(p) = BlockEnd(s) /\ p = Take(s.text, BlockEnd(s))
  BY BlockPrefixReads
<1>4. d = <<>>
  <2>1. BlocksEnd(s) + 1 \in Nat \ {0}
    BY <1>1
  <2>2. s.buf \in Seq(Char) /\ Len(s.buf) = IF BlocksEnd(s) + 1 <= s.safe
                                            THEN s.safe - (BlocksEnd(s) + 1) + 1 ELSE 0
    BY <1>1, <1>2, <2>1, SliceFacts
  <2>b. s.safe \in Nat /\ BlocksEnd(s) \in Nat /\ BlockChars \in Nat \ {0}
        /\ s.safe <= BlocksEnd(s) + BlockChars
    BY <1>1, <1>2
  <2>3. Len(s.buf) < BlockChars + 1 /\ Len(s.buf) \in Int /\ BlockChars + 1 \in Int
    BY <2>b, <2>2
  <2> QED
    BY <2>3, SubSeqEmpty DEF Drop
<1>5. SubSeq(s.text, BlockEnd(s) + 1, s.safe) = <<>>
  BY <1>1, <1>2, SubSeqEmpty
<1> HIDE DEF p, d
<1>6. d \in Seq(Char)
  BY <1>4
<1>7. t \in Session
  BY <1>1, <1>3, <1>6 DEF Session
<1>8. /\ t.key = s.key /\ t.witness = s.witness /\ t.text = s.text /\ t.safe = s.safe
      /\ t.sealed = s.sealed /\ t.payload = s.payload /\ t.tail = s.tail
      /\ t.tailIds = s.tailIds /\ t.chain = p /\ t.buf = d /\ t.chainBase = base
      /\ t.chainOk = s.chainOk /\ t.sealLog = s.sealLog
  BY <1>1 DEF Session
<1> HIDE DEF t
<1>9. Shape(t)
  BY <1>7, <1>8 DEF GrowingSession, Shape
<1>10. Chained(t)
  BY <1>2, <1>3, <1>4, <1>5, <1>8 DEF Chained
<1>11. BlockEnd(t) > old
  <2>1. BlockEnd(t) = BlockEnd(s) + BlockChars
    BY <1>3, <1>8 DEF BlockEnd, BlocksEnd
  <2>2. BlockEnd(s) > old /\ old \in Nat
    BY <1>1 DEF GrowingSession
  <2> QED
    BY <1>1, <2>1, <2>2
<1>12. GrowingSession(t, old)
  BY <1>8, <1>9, <1>10, <1>11 DEF GrowingSession
<1> QED
  BY <1>12 DEF t, p, d, Advance

\* The session leaves the node tree.
LEMMA DetachGrowing ==
    ASSUME NEW s, NEW old, GrowingSession(s, old)
    PROVE  GrowingSession(Detach(s), old)
<1> DEFINE t == [s EXCEPT !.chainOk = FALSE, !.buf = <<>>]
<1>1. s \in Session /\ <<>> \in Seq(Char) /\ FALSE \in BOOLEAN
  BY GrowingFacts
<1>2. t \in Session
  BY <1>1 DEF Session
<1>3. /\ t.key = s.key /\ t.witness = s.witness /\ t.text = s.text /\ t.safe = s.safe
      /\ t.sealed = s.sealed /\ t.payload = s.payload /\ t.tail = s.tail
      /\ t.tailIds = s.tailIds /\ t.chainOk = FALSE /\ t.sealLog = s.sealLog
  BY <1>1 DEF Session
<1> HIDE DEF t
<1>4. Shape(t) /\ Chained(t)
  BY <1>2, <1>3 DEF GrowingSession, Shape, Chained
<1>5. GrowingSession(t, old)
  BY <1>3, <1>4 DEF GrowingSession
<1> QED
  BY <1>5 DEF t, Detach

\* The loop ends: the seal point is a cut of the whole text.
LEMMA SettledGood ==
    ASSUME NEW s, NEW old, GrowingSession(s, old), ~HasBlock(s)
    PROVE  GoodSession(s)
<1> DEFINE u == Take(s.text, old)
           e == Drop(s.text, old)
<1>1. s \in Session /\ s.key \in Key /\ s.text \in Text /\ s.text \in Seq(Char)
      /\ Len(s.text) \in Nat /\ old \in Nat /\ old <= Len(s.text) /\ Total(s) = Len(s.text)
      /\ s.safe \in Nat /\ s.safe <= old /\ BlockEnd(s) \in Nat
  BY GrowingFacts
<1>2. s.chainOk => BlockEnd(s) > Len(s.text)
  BY <1>1 DEF HasBlock
<1>3. old \in 0..Len(s.text)
  BY <1>1
<1>4. u \in Seq(Char) /\ Len(u) = old /\ e \in Seq(Char) /\ Len(e) = Len(s.text) - old
      /\ u \o e = s.text
  BY <1>1, <1>3, TakeDrop
<1>5. Cut(s.key, u, s.safe, s.sealed)
  BY DEF GrowingSession
<1> HIDE DEF u, e
<1>6. MaxChars \in Nat /\ Len(s.text) <= MaxChars
  BY <1>1, TextElim, BoundsAssumption
<1>7. u \in Text
  BY <1>1, <1>4, <1>6, TextIntro
<1>8. e \in Continuations(u)
  BY <1>1, <1>4, <1>6, <1>7, ContinuationIntro
<1>9. s.safe \in 0..Len(u)
  BY <1>1, <1>4
<1>10. Cut(s.key, u \o e, s.safe, s.sealed)
  BY <1>1, <1>5, <1>7, <1>8, <1>9, CutExtends
<1> QED
  BY <1>2, <1>4, <1>10 DEF GrowingSession, GoodSession

-----------------------------------------------------------------------------
(* Nodes. *)

\* A node that verifies: its ids are the slice of the stream of its own prefix
\* between its base and its seal point, and that point is a cut of the prefix.
GoodNode(k, p, n) ==
    /\ n.safe <= Len(p)
    /\ n.tail = Drop(p, n.safe)
    /\ CumEnd(n) <= Len(Enc(k, p))
    /\ n.ids = SubSeq(Enc(k, p), n.base + 1, CumEnd(n))
    /\ Cut(k, p, n.safe, Take(Enc(k, p), CumEnd(n)))
    /\ n.witness = "none" => n.safe = 0 /\ n.base = 0 /\ n.ids = <<>>

\* seal_blocks writes a node that verifies.
LEMMA NewNodeGood ==
    ASSUME NEW s, NEW old, GrowingSession(s, old), HasBlock(s)
    PROVE  /\ BlockKey(s) \in Key \X Seq(Char) /\ BlockPrefix(s) \in Text
           /\ NewNode(s) \in Node
           /\ GoodNode(s.key, BlockPrefix(s), NewNode(s))
<1> DEFINE p == BlockPrefix(s)
           b == BlockEnd(s)
           u == Take(s.text, old)
           e == SubSeq(s.text, old + 1, b)
           E == Enc(s.key, p)
           n == NewNode(s)
<1>1. s \in Session /\ s.key \in Key /\ s.text \in Text /\ s.text \in Seq(Char)
      /\ Len(s.text) \in Nat /\ old \in Nat /\ old <= Len(s.text)
      /\ s.safe \in Nat /\ s.safe <= old /\ b \in Nat /\ s.sealed \in Seq(Token)
      /\ Len(s.sealed) \in Nat /\ s.chainBase \in Nat /\ s.witness \in Witness
  BY GrowingFacts, SessionFields
<1>2. s.safe <= b /\ b <= Len(s.text) /\ TextRange(s, s.safe, b) = SubSeq(s.text, s.safe + 1, b)
  BY TextRangeReads
<1>3. p = SubSeq(s.text, 1, b) /\ p \in Text /\ p \in Seq(Char) /\ Len(p) = b
  BY BlockPrefixReads DEF Take
<1>4. b > old
  BY DEF GrowingSession, HasBlock
<1>5. s.chainBase <= Len(s.sealed)
  BY DEF GrowingSession, Chained, HasBlock
<1>6. /\ n.witness = s.witness /\ n.safe = s.safe /\ n.base = s.chainBase
      /\ n.ids = Drop(s.sealed, s.chainBase) /\ n.tail = SubSeq(s.text, s.safe + 1, b)
      /\ n.valid = TRUE
  BY <1>2 DEF NewNode
<1>7. n = [witness |-> n.witness, safe |-> n.safe, base |-> n.base, ids |-> n.ids,
           tail |-> n.tail, valid |-> n.valid]
  BY DEF NewNode
<1> HIDE DEF p, b, n
<1>8. n.tail = Drop(p, s.safe) /\ n.tail \in Seq(Char)
  <2>1. s.safe + 1 \in Nat \ {0} /\ b \in 0..Len(s.text)
    BY <1>1, <1>2
  <2>2. Drop(Take(s.text, b), s.safe) = SubSeq(s.text, s.safe + 1, b)
    BY <1>1, <2>1, DropOfTake
  <2>3. SubSeq(s.text, s.safe + 1, b) \in Seq(Char)
    BY <1>1, <1>2, <2>1, SliceFacts
  <2> QED
    BY <1>3, <1>6, <2>2, <2>3 DEF Take
<1>9. s.chainBase \in 0..Len(s.sealed)
  BY <1>1, <1>5
<1>10. n.ids \in Seq(Token) /\ Len(n.ids) = Len(s.sealed) - s.chainBase
  <2>1. /\ Drop(s.sealed, s.chainBase) \in Seq(Token)
        /\ Len(Drop(s.sealed, s.chainBase)) = Len(s.sealed) - s.chainBase
    BY <1>1, <1>9, TakeDrop
  <2> QED
    BY <1>6, <2>1
<1>11. CumEnd(n) = Len(s.sealed)
  BY <1>1, <1>6, <1>10 DEF CumEnd
<1>12. n \in Node
  BY <1>1, <1>6, <1>7, <1>8, <1>10 DEF Node
<1>13. u \in Text /\ Len(u) = old /\ e \in Continuations(u) /\ u \o e = p
  <2>1. MaxChars \in Nat /\ Len(s.text) <= MaxChars /\ old \in 0..Len(s.text) /\ old <= b
        /\ 1 \in Nat \ {0} /\ old + 1 \in Nat \ {0} /\ 1 <= old + 1
    BY <1>1, <1>4, TextElim, BoundsAssumption
  <2>2. u \in Seq(Char) /\ Len(u) = old
    BY <1>1, <2>1, TakeDrop
  <2>3. e \in Seq(Char) /\ Len(e) = b - old
    BY <1>1, <1>2, <1>4, <2>1, SliceFacts
  <2>4. u \o e = p
    BY <1>1, <1>2, <1>3, <2>1, SlicesJoin DEF Take
  <2> HIDE DEF u, e
  <2>5. u \in Text
    BY <1>1, <2>1, <2>2, TextIntro
  <2>6. Len(u) + Len(e) <= MaxChars
    BY <1>1, <1>2, <2>1, <2>2, <2>3
  <2>7. e \in Continuations(u)
    BY <2>3, <2>5, <2>6, ContinuationIntro
  <2> QED
    BY <2>2, <2>4, <2>5, <2>7
<1>14. Cut(s.key, u, s.safe, s.sealed)
  BY DEF GrowingSession
<1> HIDE DEF u, e
<1>15. s.safe \in 0..Len(u)
  BY <1>1, <1>13
<1>16. Cut(s.key, p, s.safe, s.sealed)
  BY <1>1, <1>13, <1>14, <1>15, CutExtends
<1>17. Len(s.sealed) <= Len(E) /\ Take(E, Len(s.sealed)) = s.sealed
  BY <1>1, <1>13, <1>14, <1>15, CutIsPrefix
<1>18. E \in Seq(Token) /\ Len(E) \in Nat
  BY <1>1, <1>3, EncAssumption
<1> HIDE DEF E
<1>19. n.ids = SubSeq(E, s.chainBase + 1, Len(s.sealed))
  <2>1. Len(s.sealed) \in 0..Len(E)
    BY <1>1, <1>17, <1>18
  <2>2. Drop(Take(E, Len(s.sealed)), s.chainBase) = SubSeq(E, s.chainBase + 1, Len(s.sealed))
    BY <1>1, <1>18, <2>1, DropOfTake
  <2> QED
    BY <1>6, <1>17, <2>2
<1>20. n.witness = "none" => n.safe = 0 /\ n.base = 0 /\ n.ids = <<>>
  <2>1. s.witness = "none" => s.safe = 0 /\ Len(s.sealed) = 0
    BY DEF GrowingSession, Shape
  <2>2. n.ids \in Seq(Token) /\ Len(n.ids) = 0 => n.ids = <<>>
    BY EmptySeq
  <2> QED
    BY <1>1, <1>5, <1>6, <1>10, <2>1, <2>2
<1>21. GoodNode(s.key, p, n)
  BY <1>2, <1>3, <1>6, <1>8, <1>11, <1>16, <1>17, <1>19, <1>20 DEF GoodNode, E
<1>22. BlockKey(s) \in Key \X Seq(Char)
  BY <1>1, <1>3 DEF BlockKey, p
<1> QED
  BY <1>3, <1>12, <1>21, <1>22 DEF p, n

-----------------------------------------------------------------------------
(* The seal point moves. *)

\* What the steps use of a good session.
LEMMA GoodFacts ==
    ASSUME NEW s, GoodSession(s)
    PROVE  /\ s \in Session /\ s.key \in Key /\ s.text \in Text /\ s.text \in Seq(Char)
           /\ Len(s.text) \in Nat /\ s.safe \in Nat /\ s.safe \in 0..Len(s.text)
           /\ s.tail = Drop(s.text, s.safe) /\ Len(s.tail) = Len(s.text) - s.safe
           /\ s.tail \in Text /\ s.tail \in Seq(Char)
           /\ s.tailIds = Enc(s.key, s.tail) /\ s.tailIds \in Seq(Token)
           /\ s.sealed \in Seq(Token) /\ Len(s.sealed) \in Nat /\ s.payload = s.sealed
           /\ Guard(s.key) \in Nat /\ BlockChars \in Nat \ {0}
<1>1. s \in Session /\ s.key \in Key /\ s.text \in Text /\ s.safe \in Nat
      /\ s.sealed \in Seq(Token) /\ s.tailIds \in Seq(Token) /\ s.payload = s.sealed
      /\ s.safe <= Len(s.text) /\ s.tail = Drop(s.text, s.safe) /\ s.tailIds = Enc(s.key, s.tail)
  BY SessionFields DEF GoodSession, Shape
<1>2. s.text \in Seq(Char) /\ Len(s.text) \in Nat
  BY <1>1, TextElim
<1>3. s.safe \in 0..Len(s.text)
  BY <1>1, <1>2
<1>4. s.tail \in Text /\ s.tail \in Seq(Char) /\ Len(s.tail) = Len(s.text) - s.safe
  BY <1>1, <1>3, DroppedText
<1> QED
  BY <1>1, <1>2, <1>3, <1>4, EncAssumption, BoundsAssumption

\* buf after a seal: what the tail gave up and the chain has not hashed.
LEMMA BufAfterSeal ==
    ASSUME NEW T \in Seq(Char), NEW a \in 0..Len(T), NEW f \in 0..Len(T),
           NEW n \in 0..(Len(T) - f)
    PROVE  SubSeq(T, a + 1, f) \o Drop(Take(Drop(T, f), n), Upper(a - f, 0))
           = SubSeq(T, a + 1, f + n)
<1> DEFINE g == f + n
           u == Upper(a - f, 0)
<1>1. Len(T) \in Nat /\ g \in 0..Len(T) /\ u \in Nat /\ f + 1 \in Nat \ {0} /\ f \in Nat /\ g \in Nat
      /\ a \in Nat /\ a + 1 \in Nat \ {0} /\ g <= Len(T) /\ f <= g /\ f <= Len(T)
  BY DEF Upper
<1>2. Take(Drop(T, f), n) = SubSeq(T, f + 1, g)
  <2>1. 1 \in Nat \ {0} /\ n \in Nat /\ Len(T) <= Len(T) /\ (f + 1) + n - 1 <= Len(T)
    BY <1>1
  <2>2. SubSeq(SubSeq(T, f + 1, Len(T)), 1, n) = SubSeq(T, (f + 1) + 1 - 1, (f + 1) + n - 1)
    BY <1>1, <2>1, SliceOfSlice
  <2>3. (f + 1) + 1 - 1 = f + 1 /\ (f + 1) + n - 1 = f + n
    OBVIOUS
  <2> QED
    BY <2>2, <2>3 DEF Take, Drop
<1> HIDE DEF u
<1>3. Drop(SubSeq(T, f + 1, g), u) = SubSeq(T, f + u + 1, g)
  <2>1. u + 1 \in Nat \ {0} /\ g - f \in Nat /\ (f + 1) + (g - f) - 1 <= g
    BY <1>1
  <2>2. Len(SubSeq(T, f + 1, g)) = g - f
    BY <1>1, SliceFacts
  <2>3. SubSeq(SubSeq(T, f + 1, g), u + 1, g - f) = SubSeq(T, (f + 1) + (u + 1) - 1, (f + 1) + (g - f) - 1)
    BY <1>1, <2>1, SliceOfSlice
  <2>4. (f + 1) + (u + 1) - 1 = f + u + 1 /\ (f + 1) + (g - f) - 1 = g
    BY <1>1
  <2> QED
    BY <2>2, <2>3, <2>4 DEF Drop
<1> HIDE DEF g
<1>4. CASE a <= f
  <2>1. f + u = f /\ a + 1 <= f + 1
    BY <1>1, <1>4 DEF Upper, u
  <2>2. SubSeq(T, a + 1, f) \o SubSeq(T, f + 1, g) = SubSeq(T, a + 1, g)
    BY <1>1, <2>1, SlicesJoin
  <2> QED
    BY <1>2, <1>3, <2>1, <2>2 DEF u, g
<1>5. CASE ~(a <= f)
  <2>1. f + u = a /\ f < a + 1
    BY <1>1, <1>5 DEF Upper, u
  <2>2. SubSeq(T, a + 1, f) = <<>>
    BY <1>1, <2>1, SubSeqEmpty
  <2>3. SubSeq(T, a + 1, g) \in Seq(Char)
    BY <1>1, SliceFacts
  <2>4. <<>> \o SubSeq(T, a + 1, g) = SubSeq(T, a + 1, g)
    BY <2>3, ConcatEmptySeq
  <2> QED
    BY <1>2, <1>3, <2>1, <2>2, <2>4 DEF u, g
<1> QED
  BY <1>4, <1>5

\* Sealing a good session at a candidate cut keeps it good.
LEMMA SealTailGood ==
    ASSUME NEW s, GoodSession(s), NEW c \in Candidates(s)
    PROVE  GoodSession(SealTail(s, c))
<1> DEFINE i == c[1]
           n == c[2]
           head == Take(s.tailIds, i)
           skip == Upper(BlocksEnd(s) - s.safe, 0)
           sl == s.sealed \o head
           bf == IF s.chainOk THEN s.buf \o Drop(Take(s.tail, n), skip) ELSE s.buf
           sf == s.safe + n
           lg == s.sealLog \cup {<<s.safe + n, Len(s.sealed) + i>>}
           tl == Drop(s.tail, n)
           ti == Drop(s.tailIds, i)
           fl == SealCeil(s) - n
           t == [s EXCEPT !.sealed = sl, !.payload = sl, !.buf = bf, !.safe = sf,
                          !.sealLog = lg, !.tail = tl, !.tailIds = ti, !.scanFloor = fl]
<1>1. /\ s \in Session /\ s.key \in Key /\ s.text \in Text /\ s.text \in Seq(Char)
      /\ Len(s.text) \in Nat /\ s.safe \in Nat /\ s.safe \in 0..Len(s.text)
      /\ s.tail = Drop(s.text, s.safe) /\ Len(s.tail) = Len(s.text) - s.safe
      /\ s.tailIds = Enc(s.key, s.tail) /\ s.tailIds \in Seq(Token)
      /\ s.sealed \in Seq(Token) /\ Len(s.sealed) \in Nat /\ s.payload = s.sealed
      /\ Guard(s.key) \in Nat
  BY GoodFacts
<1>2. s.witness # "none" /\ c \in Cuts(s.key, s.tail) /\ n <= SealCeil(s)
  BY DEF Candidates
<1>3. SealCeil(s) \in Nat
  BY <1>1 DEF SealCeil, Upper
<1>4. n \in 1..(Len(s.tail) - 1) /\ i \in 1..(Len(s.tailIds) - 1)
  BY <1>1, <1>2, GoodFacts, CutShapeAssumption
<1>5. n + Guard(s.key) <= Len(s.tail)
  BY <1>1, <1>2, <1>4 DEF SealCeil, Upper
<1>6. Cut(s.key, s.text, s.safe, s.sealed)
  BY DEF GoodSession
<1>7. /\ tl = Drop(s.text, sf)
      /\ Cut(s.key, s.text, sf, sl)
      /\ Enc(s.key, Drop(s.text, sf)) = ti
  BY <1>1, <1>2, <1>5, <1>6, CutAdvances
<1> HIDE DEF i, n
<1>8. sf \in Nat /\ sf <= Len(s.text) /\ sf \in 0..Len(s.text) /\ fl \in Nat /\ n \in Nat /\ i \in Nat
      /\ n \in 0..(Len(s.text) - s.safe) /\ i \in 0..Len(s.tailIds)
  <2>1. n \in Nat /\ i \in Nat /\ n \in 0..(Len(s.text) - s.safe) /\ i \in 0..Len(s.tailIds)
    BY <1>1, <1>4
  <2>2. fl \in Nat
    BY <1>2, <1>3, <2>1
  <2>3. sf \in Nat /\ sf <= Len(s.text) /\ sf \in 0..Len(s.text)
    BY <1>1, <2>1
  <2> QED
    BY <2>1, <2>2, <2>3
<1>9. head \in Seq(Token) /\ Len(head) = i /\ ti \in Seq(Token)
  BY <1>1, <1>8, TakeDrop
<1> HIDE DEF head
<1>10. sl \in Seq(Token) /\ Len(sl) = Len(s.sealed) + i
  BY <1>1, <1>9, ConcatProperties
<1>11. tl \in Seq(Char)
  BY <1>1, <1>7, <1>8, DroppedText
<1>12. s.chainOk => bf = SubSeq(s.text, Len(s.chain) + 1, sf)
  <2> SUFFICES ASSUME s.chainOk PROVE bf = SubSeq(s.text, Len(s.chain) + 1, sf)
    OBVIOUS
  <2>1. Len(s.chain) \in 0..Len(s.text) /\ s.buf = SubSeq(s.text, Len(s.chain) + 1, s.safe)
    <3>1. s.chain \in Seq(Char) /\ Len(s.chain) \in Nat
      BY <1>1, SessionFields
    <3>2. Len(s.chain) <= Len(s.text) /\ s.buf = SubSeq(s.text, Len(s.chain) + 1, s.safe)
      BY DEF GoodSession, Chained
    <3> QED
      BY <1>1, <3>1, <3>2
  <2>2. SubSeq(s.text, Len(s.chain) + 1, s.safe)
        \o Drop(Take(Drop(s.text, s.safe), n), Upper(Len(s.chain) - s.safe, 0))
        = SubSeq(s.text, Len(s.chain) + 1, s.safe + n)
    BY <1>1, <1>8, <2>1, BufAfterSeal
  <2> QED
    BY <1>1, <2>1, <2>2 DEF BlocksEnd
<1>13. bf \in Seq(Char)
  <2>1. Len(s.chain) + 1 \in Nat \ {0} /\ s.buf \in Seq(Char)
    BY <1>1, SessionFields
  <2>2. SubSeq(s.text, Len(s.chain) + 1, sf) \in Seq(Char)
    BY <1>1, <1>8, <2>1, SliceFacts
  <2> QED
    BY <1>12, <2>1, <2>2
<1>14. lg \in SUBSET (Nat \X Nat) /\ \A e \in lg : e[2] <= Len(sl)
  <2>1. s.sealLog \in SUBSET (Nat \X Nat) /\ \A e \in s.sealLog : e[2] <= Len(s.sealed)
    BY <1>1, SessionFields DEF GoodSession, Shape
  <2>2. Len(s.sealed) + i \in Nat /\ s.safe + n \in Nat /\ Len(s.sealed) <= Len(s.sealed) + i
    BY <1>1, <1>8
  <2>3. <<s.safe + n, Len(s.sealed) + i>> \in Nat \X Nat
    BY <2>2
  <2>4. lg \in SUBSET (Nat \X Nat)
    BY <2>1, <2>3
  <2>5. ASSUME NEW e \in s.sealLog PROVE e[2] <= Len(sl)
    <3>1. e[2] \in Nat /\ e[2] <= Len(s.sealed)
      BY <2>1
    <3> QED
      BY <1>1, <1>8, <1>10, <3>1
  <2>6. <<s.safe + n, Len(s.sealed) + i>>[2] <= Len(sl)
    BY <1>10, <2>2
  <2> QED
    BY <2>4, <2>5, <2>6
<1> HIDE DEF i, n, head, skip, sl, bf, sf, lg, tl, ti, fl
<1>15. t \in Session
  BY <1>1, <1>8, <1>9, <1>10, <1>11, <1>13, <1>14 DEF Session
<1>16. /\ t.key = s.key /\ t.witness = s.witness /\ t.text = s.text /\ t.safe = sf
       /\ t.sealed = sl /\ t.payload = sl /\ t.tail = tl /\ t.tailIds = ti
       /\ t.chain = s.chain /\ t.buf = bf /\ t.chainBase = s.chainBase
       /\ t.chainOk = s.chainOk /\ t.sealLog = lg
  BY <1>1 DEF Session
<1>17. t = SealTail(s, c)
  BY <1>1 DEF t, SealTail, ScanFloorAfter, i, n, head, skip, sl, bf, sf, lg, tl, ti, fl
<1> HIDE DEF t
<1>18. Shape(t)
  BY <1>1, <1>2, <1>7, <1>8, <1>14, <1>15, <1>16 DEF Shape
<1>19. Chained(t)
  <2>1. s.chainOk => s.chainBase <= Len(sl)
    <3>1. s.chainBase \in Nat
      BY <1>1, SessionFields
    <3>2. s.chainOk => s.chainBase <= Len(s.sealed)
      BY DEF GoodSession, Chained
    <3> QED
      BY <1>1, <1>8, <1>10, <3>1, <3>2
  <2> QED
    BY <1>12, <1>16, <2>1 DEF GoodSession, Chained
<1>20. t.chainOk => BlockEnd(t) > Len(t.text)
  BY <1>16 DEF GoodSession, BlockEnd, BlocksEnd
<1>21. GoodSession(t)
  BY <1>7, <1>16, <1>18, <1>19, <1>20 DEF GoodSession
<1> QED
  BY <1>17, <1>21

\* The scan memo moves without a cut.
LEMMA ScanFloorGood ==
    ASSUME NEW s, GoodSession(s)
    PROVE  GoodSession([s EXCEPT !.scanFloor = SealCeil(s)])
<1> DEFINE z == SealCeil(s)
           t == [s EXCEPT !.scanFloor = z]
<1>1. s \in Session /\ Len(s.tail) \in Nat /\ Guard(s.key) \in Nat
  BY GoodFacts
<1>2. z \in Nat
  BY <1>1 DEF SealCeil, Upper
<1> HIDE DEF z
<1>3. t \in Session
  BY <1>1, <1>2 DEF Session
<1>4. GoodSession(t)
  BY <1>1, <1>3, SameStream DEF Session
<1> QED
  BY <1>4 DEF z

-----------------------------------------------------------------------------
(* The commit, and the operations that only keep books. *)

\* Setting the record hash keeps a session good.
LEMMA CommittedGood ==
    ASSUME NEW s, GoodSession(s)
    PROVE  GoodSession(Committed(s))
<1> DEFINE z == CommitHash(s)
           t == [s EXCEPT !.hash = z]
<1>1. s \in Session
  BY GoodFacts
<1>2. z \in Seq(Record)
  <2>1. /\ s.key \in Key /\ s.witness \in Witness
        /\ s.revision \in Nat /\ s.payload \in Seq(Token) /\ s.tailIds \in Seq(Token)
        /\ s.tail \in Seq(Char) /\ s.safe \in Nat /\ s.replaceFrom \in Nat
        /\ s.prev \in Seq(Record)
    BY <1>1, SessionFields
  <2>2. s.payload \o s.tailIds \in Seq(Token)
    BY <2>1, ConcatProperties
  <2>3. Link(s) \in Record
    BY <2>1, <2>2 DEF Link, Record
  <2>4. <<Link(s)>> \in Seq(Record)
    BY <2>3
  <2> HIDE DEF z
  <2>5. z = <<Link(s)>> \o s.prev
    BY DEF z, CommitHash
  <2> QED
    BY <2>1, <2>4, <2>5, ConcatProperties
<1> HIDE DEF z
<1>3. t \in Session
  BY <1>1, <1>2 DEF Session
<1>4. GoodSession(t)
  BY <1>1, <1>3, SameStream DEF Session
<1> QED
  BY <1>4 DEF z, Committed

\* Setting revision, replace_from and the previous record keeps a session good.
LEMMA RevisedGood ==
    ASSUME NEW s, GoodSession(s), NEW r \in Nat, NEW f \in Nat, NEW p \in Seq(Record)
    PROVE  GoodSession([s EXCEPT !.revision = r, !.replaceFrom = f, !.prev = p])
<1> DEFINE t == [s EXCEPT !.revision = r, !.replaceFrom = f, !.prev = p]
<1>1. s \in Session
  BY GoodFacts
<1>2. t \in Session
  BY <1>1 DEF Session
<1> QED
  BY <1>1, <1>2, SameStream DEF Session

\* The genesis of a fork is good.
LEMMA GenesisGood ==
    ASSUME NEW s, GoodSession(s)
    PROVE  GoodSession(Genesis(s))
<1>1. <<>> \in Seq(Record) /\ 0 \in Nat
  OBVIOUS
<1>2. GoodSession([s EXCEPT !.revision = 0, !.replaceFrom = 0, !.prev = <<>>])
  BY <1>1, RevisedGood
<1> QED
  BY <1>2 DEF Genesis

\* Filling the snapshot slot keeps a session good.
LEMMA SnapshotGood ==
    ASSUME NEW s, GoodSession(s), NEW z \in Snapshot
    PROVE  GoodSession([s EXCEPT !.snapshot = z])
<1> DEFINE t == [s EXCEPT !.snapshot = z]
<1>1. s \in Session
  BY GoodFacts
<1>2. t \in Session
  BY <1>1 DEF Session
<1> QED
  BY <1>1, <1>2, SameStream DEF Session

-----------------------------------------------------------------------------
(* The node walk of lookup. *)

\* A session under materialisation from the first blocks of the query q.
WalkingSession(s, q) ==
    /\ GoodSession(s)
    /\ q \in Text
    /\ s.chainOk = TRUE /\ s.buf = <<>> /\ s.chain = s.text
    /\ Len(s.text) <= Len(q)
    /\ s.text = Take(q, Len(s.text))

\* A walk starts from the fresh session.
LEMMA FreshWalking ==
    ASSUME NEW k \in Key, NEW w \in Witness, NEW q \in Text
    PROVE  WalkingSession(Fresh(k, w), q)
<1>1. GoodSession(Fresh(k, w))
  BY FreshGood
<1>2. /\ Fresh(k, w).chainOk = TRUE /\ Fresh(k, w).buf = <<>>
      /\ Fresh(k, w).chain = <<>> /\ Fresh(k, w).text = <<>>
  BY DEF Fresh
<1>3. Take(q, 0) = <<>> /\ 0 <= Len(q) /\ Len(<<>>) = 0
  BY TextElim, SubSeqEmpty DEF Take
<1> QED
  BY <1>1, <1>2, <1>3 DEF WalkingSession

\* A verified good node takes the walk one block further.
LEMMA MaterialisedWalking ==
    ASSUME NEW s, NEW q, WalkingSession(s, q), BlockEnd(s) <= Len(q),
           NEW n \in Node, NodeOk(s, n), GoodNode(s.key, Take(q, BlockEnd(s)), n)
    PROVE  WalkingSession(Materialised(s, n, Take(q, BlockEnd(s))), q)
<1> DEFINE k == s.key
           b == BlockEnd(s)
           l == Len(s.text)
           p == Take(q, b)
           e == SubSeq(q, l + 1, b)
           E == Enc(k, p)
           ids == s.sealed \o n.ids
           lg == {<<0, 0>>} \cup (IF n.safe > 0 THEN {<<n.safe, Len(ids)>>} ELSE {})
           ti == Enc(k, n.tail)
           z == Len(ids)
           t == [s EXCEPT !.text = p, !.chain = p, !.safe = n.safe, !.sealed = ids,
                          !.payload = ids, !.chainBase = z, !.tail = n.tail,
                          !.tailIds = ti, !.sealLog = lg]
<1>1. /\ s \in Session /\ k \in Key /\ s.text \in Text /\ s.text \in Seq(Char) /\ l \in Nat
      /\ s.safe \in Nat /\ s.safe \in 0..l /\ s.sealed \in Seq(Token) /\ Len(s.sealed) \in Nat
      /\ BlockChars \in Nat \ {0}
  BY GoodFacts DEF WalkingSession
<1>2. q \in Text /\ q \in Seq(Char) /\ Len(q) \in Nat /\ Len(q) <= MaxChars /\ MaxChars \in Nat
  BY TextElim, BoundsAssumption DEF WalkingSession
<1>3. b = l + BlockChars /\ s.text = SubSeq(q, 1, l) /\ l <= Len(q)
  BY DEF WalkingSession, BlockEnd, BlocksEnd, Take
<1>4. /\ n.witness \in Witness /\ n.safe \in Nat /\ n.base \in Nat /\ n.ids \in Seq(Token)
      /\ n.tail \in Seq(Char)
  BY DEF Node
<1>5. n.witness = s.witness /\ n.safe <= b /\ n.base = Len(s.sealed)
  BY DEF NodeOk
<1>6. /\ n.safe <= Len(p) /\ n.tail = Drop(p, n.safe) /\ CumEnd(n) <= Len(E)
      /\ n.ids = SubSeq(E, n.base + 1, CumEnd(n))
      /\ Cut(k, p, n.safe, Take(E, CumEnd(n)))
      /\ n.witness = "none" => n.safe = 0 /\ n.base = 0 /\ n.ids = <<>>
  BY DEF GoodNode
<1>7. Cut(k, s.text, s.safe, s.sealed)
  BY DEF WalkingSession, GoodSession
<1>8. /\ s.chainOk = TRUE /\ s.buf = <<>> /\ (s.witness = "none" => s.sealed = <<>>)
  BY DEF WalkingSession, GoodSession, Shape
<1>9. t = Materialised(s, n, p)
  BY DEF Materialised
<1> HIDE DEF k, b, l
<1>10. b \in Nat /\ b \in 0..Len(q) /\ b <= Len(q) /\ l <= b /\ l + 1 \in Nat \ {0} /\ 1 \in Nat \ {0}
       /\ 1 <= l + 1
  BY <1>1, <1>2, <1>3 DEF b
<1>11. p \in Seq(Char) /\ Len(p) = b
  BY <1>2, <1>10, TakeDrop
<1>12. p \in Text
  <2> HIDE DEF p
  <2> QED
    BY <1>2, <1>10, <1>11, TextIntro
<1>13. e \in Seq(Char) /\ Len(e) = b - l
  BY <1>1, <1>2, <1>10, SliceFacts
<1>14. s.text \o e = p
  BY <1>1, <1>2, <1>3, <1>10, SlicesJoin DEF Take
<1>15. e \in Continuations(s.text)
  <2> HIDE DEF e
  <2>1. l + Len(e) <= MaxChars
    BY <1>1, <1>2, <1>10, <1>13
  <2>2. Len(s.text) + Len(e) <= MaxChars
    BY <2>1 DEF l
  <2> QED
    BY <1>1, <1>13, <2>2, ContinuationIntro
<1> HIDE DEF e
<1>16. Len(s.sealed) <= Len(E) /\ Take(E, Len(s.sealed)) = s.sealed
  <2>1. s.safe \in 0..Len(s.text)
    BY <1>1 DEF l
  <2>2. /\ Len(s.sealed) <= Len(Enc(k, s.text \o e))
        /\ Take(Enc(k, s.text \o e), Len(s.sealed)) = s.sealed
    BY <1>1, <1>7, <1>15, <2>1, CutIsPrefix
  <2> QED
    BY <1>14, <2>2
<1>17. E \in Seq(Token) /\ Len(E) \in Nat
  BY <1>1, <1>12, EncAssumption
<1> HIDE DEF E, p
<1>18. CumEnd(n) \in Nat /\ n.base <= CumEnd(n)
  BY <1>4 DEF CumEnd
<1>19. ids = Take(E, CumEnd(n))
  <2>1. SubSeq(E, 1, n.base) \o SubSeq(E, n.base + 1, CumEnd(n)) = SubSeq(E, 1, CumEnd(n))
    <3>1. 1 \in Nat \ {0} /\ n.base \in Nat /\ 1 <= n.base + 1
      BY <1>4
    <3> QED
      BY <1>6, <1>17, <1>18, <3>1, SlicesJoin
  <2> QED
    BY <1>5, <1>6, <1>16, <2>1 DEF Take
<1>20. ids \in Seq(Token) /\ z \in Nat
  <2>1. s.sealed \in Seq(Token) /\ n.ids \in Seq(Token)
    BY <1>1, <1>4
  <2>2. ids \in Seq(Token)
    BY <2>1, ConcatProperties
  <2> HIDE DEF ids
  <2> QED
    BY <2>2
<1>21. s.witness = "none" => n.safe = 0 /\ ids = <<>>
  BY <1>5, <1>6, <1>8
<1> HIDE DEF ids
<1>22. lg \in SUBSET (Nat \X Nat) /\ \A x \in lg : x[2] <= z
  <2>1. <<0, 0>> \in Nat \X Nat /\ <<n.safe, z>> \in Nat \X Nat
    BY <1>4, <1>20
  <2>2. lg \in SUBSET (Nat \X Nat)
    BY <2>1
  <2>3. \A x \in lg : x = <<0, 0>> \/ x = <<n.safe, z>>
    OBVIOUS
  <2>4. <<0, 0>>[2] <= z /\ <<n.safe, z>>[2] <= z
    BY <1>20
  <2> QED
    BY <2>2, <2>3, <2>4
<1>23. n.tail \in Text /\ ti \in Seq(Token)
  <2>1. n.safe \in 0..Len(p)
    BY <1>4, <1>6, <1>10, <1>11
  <2>2. n.tail \in Text
    BY <1>6, <1>12, <2>1, DroppedText
  <2> QED
    BY <1>1, <2>2, EncAssumption
<1> HIDE DEF lg, ti, z
<1>24. t \in Session
  BY <1>1, <1>4, <1>11, <1>20, <1>22, <1>23 DEF Session
<1>25. /\ t.key = k /\ t.witness = s.witness /\ t.text = p /\ t.safe = n.safe
       /\ t.sealed = ids /\ t.payload = ids /\ t.tail = n.tail /\ t.tailIds = ti
       /\ t.chain = p /\ t.buf = <<>> /\ t.chainBase = z
       /\ t.chainOk = TRUE /\ t.sealLog = lg
  BY <1>1, <1>8 DEF Session, k
<1> HIDE DEF t
<1>26. Shape(t)
  BY <1>6, <1>12, <1>21, <1>22, <1>24, <1>25 DEF Shape, ti, z
<1>27. Chained(t)
  <2>1. SubSeq(p, b + 1, n.safe) = <<>>
    BY <1>4, <1>5, <1>10, SubSeqEmpty DEF b
  <2>2. Take(p, b) = p
    BY <1>11, SubSeqFull DEF Take
  <2>3. b <= b /\ z <= z
    BY <1>10, <1>20
  <2>4. z = Len(ids)
    BY DEF z
  <2> QED
    BY <1>11, <1>25, <2>1, <2>2, <2>3, <2>4 DEF Chained
<1>28. BlockEnd(t) > Len(t.text)
  BY <1>1, <1>10, <1>11, <1>25 DEF BlockEnd, BlocksEnd
<1>29. GoodSession(t)
  BY <1>6, <1>19, <1>25, <1>26, <1>27, <1>28 DEF GoodSession
<1>30. WalkingSession(t, q)
  BY <1>2, <1>10, <1>11, <1>25, <1>29 DEF WalkingSession, p
<1> QED
  BY <1>9, <1>30 DEF p, b

-----------------------------------------------------------------------------
(* The LRU order. *)

Distinct(q) == \A i, j \in 1..Len(q) : q[i] = q[j] => i = j

\* Touch permutes the recency order.
LEMMA TouchFacts ==
    ASSUME NEW q \in Seq(Nat), NEW h \in Elems(q)
    PROVE  /\ Touch(q, h) \in Seq(Nat) /\ Len(Touch(q, h)) = Len(q) /\ Len(q) > 0
           /\ \E i \in 1..Len(q) :
                /\ q[i] = h
                /\ \A j \in 1..Len(q) :
                     Touch(q, h)[j] = IF j < i THEN q[j]
                                      ELSE IF j < Len(q) THEN q[j + 1] ELSE h
<1> DEFINE i == CHOOSE j \in 1..Len(q) : q[j] = h
           A == Take(q, i - 1)
           B == Drop(q, i)
           C == A \o B
           H == <<h>>
           D == C \o H
           n == Len(q)
<1>1. i \in 1..n /\ q[i] = h
  BY DEF Elems
<1>2. Touch(q, h) = D
  BY DEF Touch
<1> HIDE DEF i
<1>3. n \in Nat /\ h \in Nat /\ i - 1 \in Nat /\ i \in Nat /\ i + 1 \in Nat \ {0} /\ 1 \in Nat \ {0}
      /\ i - 1 <= n /\ n <= n
  BY <1>1, ElementOfSeq
<1>4. A \in Seq(Nat) /\ Len(A) = i - 1 /\ \A j \in 1..((i - 1) - 1 + 1) : A[j] = q[1 + j - 1]
  BY <1>1, <1>3, SliceFacts DEF Take
<1>5. B \in Seq(Nat) /\ Len(B) = n - i /\ \A j \in 1..(n - (i + 1) + 1) : B[j] = q[(i + 1) + j - 1]
  BY <1>1, <1>3, SliceFacts DEF Drop
<1> HIDE DEF A, B
<1>6. /\ C \in Seq(Nat) /\ Len(C) = Len(A) + Len(B)
      /\ \A j \in 1..(Len(A) + Len(B)) : C[j] = IF j <= Len(A) THEN A[j] ELSE B[j - Len(A)]
  BY <1>4, <1>5, ConcatProperties
<1> HIDE DEF C
<1>7. H \in Seq(Nat) /\ Len(H) = 1 /\ H[1] = h
  BY <1>3
<1> HIDE DEF H
<1>8. /\ D \in Seq(Nat) /\ Len(D) = Len(C) + 1
      /\ \A j \in 1..(Len(C) + 1) : D[j] = IF j <= Len(C) THEN C[j] ELSE H[j - Len(C)]
  <2>0. C \in Seq(Nat) /\ H \in Seq(Nat)
    BY <1>6, <1>7
  <2>1. /\ D \in Seq(Nat) /\ Len(D) = Len(C) + Len(H)
        /\ \A j \in 1..(Len(C) + Len(H)) : D[j] = IF j <= Len(C) THEN C[j] ELSE H[j - Len(C)]
    BY <2>0, ConcatProperties
  <2> HIDE DEF D
  <2> QED
    BY <1>7, <2>1
<1> HIDE DEF D
<1>9. Len(C) = n - 1 /\ Len(D) = n
  BY <1>3, <1>4, <1>5, <1>6, <1>8
<1>10. ASSUME NEW j \in 1..n
       PROVE  D[j] = IF j < i THEN q[j] ELSE IF j < n THEN q[j + 1] ELSE h
  <2>1. CASE j < i
    <3>1. j \in 1..(Len(C) + 1) /\ j <= Len(C) /\ j \in 1..(Len(A) + Len(B)) /\ j <= Len(A)
          /\ j \in 1..((i - 1) - 1 + 1) /\ 1 + j - 1 = j
      BY <1>1, <1>3, <1>4, <1>6, <1>9, <2>1
    <3>2. D[j] = C[j] /\ C[j] = A[j] /\ A[j] = q[j]
      BY <1>4, <1>6, <1>8, <3>1
    <3> QED
      BY <2>1, <3>2
  <2>2. CASE ~(j < i) /\ j < n
    <3>0. n \in Nat /\ i \in 1..n /\ Len(A) = i - 1 /\ Len(B) = n - i /\ Len(C) = n - 1
      BY <1>1, <1>3, <1>4, <1>5, <1>9
    <3> HIDE DEF n
    <3>1. j \in 1..(Len(C) + 1) /\ j <= Len(C) /\ j \in 1..(Len(A) + Len(B)) /\ ~(j <= Len(A))
          /\ j - Len(A) \in 1..(n - (i + 1) + 1) /\ (i + 1) + (j - Len(A)) - 1 = j + 1
      BY <2>2, <3>0
    <3>2. D[j] = C[j] /\ C[j] = B[j - Len(A)]
      BY <1>6, <1>8, <3>1
    <3>3. B[j - Len(A)] = q[(i + 1) + (j - Len(A)) - 1]
      BY <1>5, <3>1
    <3> QED
      BY <2>2, <3>1, <3>2, <3>3
  <2>3. CASE ~(j < i) /\ ~(j < n)
    <3>1. j \in 1..(Len(C) + 1) /\ ~(j <= Len(C)) /\ j - Len(C) = 1
      BY <1>3, <1>9, <2>3
    <3> QED
      BY <1>7, <1>8, <2>3, <3>1
  <2> QED
    BY <2>1, <2>2, <2>3
<1>11. \E a \in 1..n : /\ q[a] = h
                       /\ \A j \in 1..n : D[j] = IF j < a THEN q[j]
                                                 ELSE IF j < n THEN q[j + 1] ELSE h
  BY <1>1, <1>10
<1>12. n > 0
  BY <1>1, <1>3
<1> QED
  BY <1>2, <1>8, <1>9, <1>11, <1>12

\* Touching a handle permutes the order.
LEMMA TouchOrder ==
    ASSUME NEW q \in Seq(Nat), Distinct(q), NEW h \in Elems(q)
    PROVE  /\ Touch(q, h) \in Seq(Nat) /\ Len(Touch(q, h)) = Len(q)
           /\ Elems(Touch(q, h)) = Elems(q) /\ Distinct(Touch(q, h))
           /\ Len(q) > 0 /\ Touch(q, h)[Len(q)] = h
<1> DEFINE t == Touch(q, h)
           n == Len(q)
<1>1. t \in Seq(Nat) /\ Len(t) = n /\ n > 0 /\ n \in Nat
  BY TouchFacts
<1>2. PICK i \in 1..n : /\ q[i] = h
                        /\ \A j \in 1..n : t[j] = IF j < i THEN q[j]
                                                  ELSE IF j < n THEN q[j + 1] ELSE h
  BY TouchFacts
<1> HIDE DEF t, n
<1>3. \A a, b \in 1..n : q[a] = q[b] => a = b
  BY DEF Distinct, n
<1>4. \A x : x \in Elems(q) <=> \E a \in 1..n : q[a] = x
  BY DEF Elems, n
<1>5. \A x : x \in Elems(t) <=> \E a \in 1..n : t[a] = x
  BY <1>1 DEF Elems
<1>6. t[n] = h
  <2>1. n \in 1..n /\ ~(n < i)
    BY <1>1
  <2> QED
    BY <1>1, <1>2, <2>1
<1>7. ASSUME NEW x \in Elems(q) PROVE x \in Elems(t)
  <2>1. PICK a \in 1..n : q[a] = x
    BY <1>4
  <2>2. CASE a < i
    BY <1>2, <1>5, <2>1, <2>2
  <2>3. CASE a = i
    BY <1>1, <1>2, <1>5, <1>6, <2>1, <2>3
  <2>4. CASE a > i
    <3>1. a - 1 \in 1..n /\ ~(a - 1 < i) /\ a - 1 < n /\ (a - 1) + 1 = a
      BY <1>1, <2>4
    <3>2. t[a - 1] = q[a]
      BY <1>2, <3>1
    <3> QED
      BY <1>5, <2>1, <3>1, <3>2
  <2> QED
    BY <1>1, <2>2, <2>3, <2>4
<1>8. ASSUME NEW x \in Elems(t) PROVE x \in Elems(q)
  <2>1. PICK a \in 1..n : t[a] = x
    BY <1>5
  <2>2. CASE a < i
    BY <1>2, <1>4, <2>1, <2>2
  <2>3. CASE ~(a < i) /\ a < n
    <3>1. a + 1 \in 1..n
      BY <1>1, <2>3
    <3> QED
      BY <1>2, <1>4, <2>1, <2>3, <3>1
  <2>4. CASE ~(a < i) /\ ~(a < n)
    BY <1>2, <1>4, <2>1, <2>4
  <2> QED
    BY <2>2, <2>3, <2>4
<1>9. ASSUME NEW a \in 1..n, NEW b \in 1..n, t[a] = t[b] PROVE a = b
  <2> DEFINE f(j) == IF j < i THEN j ELSE IF j < n THEN j + 1 ELSE i
  <2>1. \A j \in 1..n : f(j) \in 1..n
    BY <1>1
  <2>2. \A j \in 1..n : t[j] = q[f(j)]
    BY <1>1, <1>2
  <2>3. f(a) = f(b)
    BY <1>3, <1>9, <2>1, <2>2
  <2> QED
    BY <1>1, <2>3
<1>10. Elems(t) = Elems(q)
  BY <1>7, <1>8
<1>11. Distinct(t)
  BY <1>1, <1>9 DEF Distinct
<1> QED
  BY <1>1, <1>6, <1>10, <1>11 DEF t, n

\* evict_for_capacity leaves a free slot and a suffix of the order.
LEMMA FreeSlotOrder ==
    ASSUME NEW q \in Seq(Nat), Distinct(q)
    PROVE  /\ FreeSlot(q) \in Seq(Nat) /\ Len(FreeSlot(q)) < MaxSessions
           /\ Elems(FreeSlot(q)) \subseteq Elems(q) /\ Distinct(FreeSlot(q))
<1>1. MaxSessions \in Nat \ {0} /\ Len(q) \in Nat
  BY BoundsAssumption
<1>2. CASE Len(q) >= MaxSessions
  <2> DEFINE a == Len(q) - MaxSessions + 1
             t == SubSeq(q, a + 1, Len(q))
  <2>1. FreeSlot(q) = t
    BY <1>2 DEF FreeSlot, Drop
  <2>2. a \in Nat /\ a + 1 \in Nat \ {0} /\ a <= Len(q) /\ Len(q) <= Len(q)
    BY <1>1, <1>2
  <2>3. t \in Seq(Nat) /\ Len(t) = (IF a + 1 <= Len(q) THEN Len(q) - (a + 1) + 1 ELSE 0)
        /\ \A i \in 1..(Len(q) - (a + 1) + 1) : t[i] = q[(a + 1) + i - 1]
    BY <1>1, <2>2, SliceFacts
  <2>4. Len(t) = MaxSessions - 1
    BY <1>1, <2>2, <2>3
  <2> HIDE DEF t
  <2>5. \A i \in 1..Len(t) : a + i \in 1..Len(q) /\ t[i] = q[a + i]
    <3> TAKE i \in 1..Len(t)
    <3>1. i \in 1..(Len(q) - (a + 1) + 1) /\ (a + 1) + i - 1 = a + i /\ a + i \in 1..Len(q)
      BY <1>1, <2>2, <2>4
    <3> QED
      BY <2>3, <3>1
  <2>6. Elems(t) \subseteq Elems(q)
    BY <2>5 DEF Elems
  <2>7. Distinct(t)
    <3> SUFFICES ASSUME NEW i \in 1..Len(t), NEW j \in 1..Len(t), t[i] = t[j] PROVE i = j
      BY DEF Distinct
    <3>1. a + i = a + j
      BY <2>5 DEF Distinct
    <3> QED
      BY <2>2, <3>1
  <2> QED
    BY <1>1, <2>1, <2>3, <2>4, <2>6, <2>7
<1>3. CASE ~(Len(q) >= MaxSessions)
  BY <1>1, <1>3 DEF FreeSlot
<1> QED
  BY <1>2, <1>3

\* A new handle goes to the recent end.
LEMMA AppendOrder ==
    ASSUME NEW q \in Seq(Nat), Distinct(q), NEW h \in Nat, h \notin Elems(q)
    PROVE  /\ Append(q, h) \in Seq(Nat) /\ Len(Append(q, h)) = Len(q) + 1
           /\ Elems(Append(q, h)) = Elems(q) \cup {h} /\ Distinct(Append(q, h))
<1> DEFINE t == Append(q, h)
           n == Len(q)
<1>1. /\ t \in Seq(Nat) /\ Len(t) = n + 1 /\ t[n + 1] = h /\ n \in Nat
      /\ \A i \in 1..n : t[i] = q[i]
  BY AppendProperties
<1>2. \A x : x \in Elems(q) <=> \E a \in 1..n : q[a] = x
  BY DEF Elems
<1>3. \A a, b \in 1..n : q[a] = q[b] => a = b
  BY DEF Distinct
<1> HIDE DEF t, n
<1>4. \A x : x \in Elems(t) <=> \E a \in 1..(n + 1) : t[a] = x
  BY <1>1 DEF Elems
<1>5. \A a \in 1..(n + 1) : a \in 1..n \/ a = n + 1
  BY <1>1
<1>6. \A a \in 1..n : a \in 1..(n + 1)
  BY <1>1
<1>7. n + 1 \in 1..(n + 1)
  BY <1>1
<1>8. Elems(t) = Elems(q) \cup {h}
  BY <1>1, <1>2, <1>4, <1>5, <1>6, <1>7, SMTT(30)
<1>9. ASSUME NEW a \in 1..(n + 1), NEW b \in 1..(n + 1), t[a] = t[b] PROVE a = b
  BY <1>1, <1>2, <1>3, <1>5, <1>9
<1>10. Distinct(t)
  BY <1>1, <1>9 DEF Distinct
<1> QED
  BY <1>1, <1>8, <1>10 DEF t, n

\* Dropping the most recent handle.
LEMMA ButLastOrder ==
    ASSUME NEW q \in Seq(Nat), Distinct(q), Len(q) > 0
    PROVE  /\ Take(q, Len(q) - 1) \in Seq(Nat) /\ Len(Take(q, Len(q) - 1)) = Len(q) - 1
           /\ Elems(Take(q, Len(q) - 1)) = Elems(q) \ {q[Len(q)]}
           /\ Distinct(Take(q, Len(q) - 1))
<1> DEFINE n == Len(q)
           m == n - 1
           t == SubSeq(q, 1, m)
<1>1. n \in Nat /\ m \in Nat /\ m <= n /\ 1 \in Nat \ {0} /\ m = n - 1
  OBVIOUS
<1>2. \A x : x \in Elems(q) <=> \E a \in 1..n : q[a] = x
  BY DEF Elems
<1>3. \A a, b \in 1..n : q[a] = q[b] => a = b
  BY DEF Distinct
<1> HIDE DEF m
<1>4. t \in Seq(Nat) /\ Len(t) = m /\ \A i \in 1..(m - 1 + 1) : t[i] = q[1 + i - 1]
  BY <1>1, SliceFacts
<1> HIDE DEF t, n
<1>5. \A i \in 1..m : t[i] = q[i] /\ i \in 1..n
  <2> TAKE i \in 1..m
  <2>1. i \in 1..(m - 1 + 1) /\ 1 + i - 1 = i /\ i \in 1..n
    BY <1>1
  <2> QED
    BY <1>4, <2>1
<1>6. \A x : x \in Elems(t) <=> \E a \in 1..m : t[a] = x
  BY <1>4 DEF Elems
<1>7. \A a \in 1..n : a \in 1..m \/ a = n
  BY <1>1
<1>8. n \in 1..n /\ ~(n \in 1..m)
  BY <1>1
<1>9. Elems(t) = Elems(q) \ {q[n]}
  BY <1>2, <1>3, <1>5, <1>6, <1>7, <1>8
<1>10. Distinct(t)
  BY <1>3, <1>4, <1>5 DEF Distinct
<1> QED
  BY <1>4, <1>9, <1>10 DEF t, m, n, Take

-----------------------------------------------------------------------------
(* The store. *)

LruInv ==
    /\ lru \in Seq(Nat) /\ Distinct(lru) /\ Elems(lru) = Live
    /\ Len(lru) <= MaxSessions
    /\ nextHandle \in Nat
    /\ \A h \in Live : h < nextHandle

SessionsInv == \A h \in Live : GoodSession(sessions[h])

NodesInv ==
    \A k \in DOMAIN nodes :
        /\ k \in Key \X Seq(Char)
        /\ nodes[k] \in Node
        /\ nodes[k].valid => k[2] \in Text /\ GoodNode(k[1], k[2], nodes[k])

RunInv ==
    /\ pc \in {"idle", "blocks", "commit", "walk"}
    /\ cur \in Session /\ call \in Call
    /\ pc = "blocks" => GrowingSession(cur, call.old)
    /\ pc = "commit" => GoodSession(cur)
    /\ pc = "walk" => WalkingSession(cur, call.query)
    /\ pc \in {"blocks", "commit"} /\ call.put => Len(lru) < MaxSessions
    /\ pc \in {"blocks", "commit"} /\ ~call.put => call.h \in Live

MirrorInv == mirror \in [Client -> Mirror] /\ corrupted \in Nat

IInv == LruInv /\ SessionsInv /\ NodesInv /\ RunInv /\ MirrorInv

-----------------------------------------------------------------------------
(* The table of sessions. *)

\* insert_session adds a good session and keeps the table within capacity.
LEMMA InsertSessionInv ==
    ASSUME LruInv, SessionsInv, NEW q \in Seq(Nat), Distinct(q), Len(q) < MaxSessions,
           Elems(q) \subseteq Live, NEW s, GoodSession(s), InsertSession(q, s)
    PROVE  LruInv' /\ SessionsInv'
<1>1. sessions' = [y \in (Live \cap Elems(q)) \cup {nextHandle} |->
                     IF y = nextHandle THEN s ELSE Survivors(q)[y]]
  BY DEF InsertSession, Extended, Survivors
<1>2. lru' = Append(q, nextHandle) /\ nextHandle' = nextHandle + 1
  BY DEF InsertSession
<1>3. nextHandle \in Nat /\ nextHandle \notin Live /\ \A h \in Live : h \in Nat /\ h < nextHandle
  <2>1. nextHandle \in Nat /\ \A h \in Live : h < nextHandle
    BY DEF LruInv
  <2>2. ASSUME NEW h \in Live PROVE h \in Nat
    <3>1. lru \in Seq(Nat) /\ h \in Elems(lru)
      BY DEF LruInv
    <3> QED
      BY <3>1, ElementOfSeq DEF Elems
  <2> QED
    BY <2>1, <2>2
<1>4. DOMAIN sessions' = Elems(q) \cup {nextHandle}
  BY <1>1
<1>5. /\ lru' \in Seq(Nat) /\ Len(lru') = Len(q) + 1
      /\ Elems(lru') = Elems(q) \cup {nextHandle} /\ Distinct(lru')
  BY <1>2, <1>3, AppendOrder
<1>6. Len(lru') <= MaxSessions
  BY <1>5, BoundsAssumption
<1>7. \A h \in DOMAIN sessions' : h < nextHandle'
  BY <1>2, <1>3, <1>4
<1>8. LruInv'
  BY <1>2, <1>3, <1>4, <1>5, <1>6, <1>7 DEF LruInv, Live
<1>9. ASSUME NEW h \in DOMAIN sessions' PROVE GoodSession(sessions'[h])
  <2>1. CASE h = nextHandle
    BY <1>1, <2>1
  <2>2. CASE h # nextHandle
    <3>1. h \in Live \cap Elems(q)
      BY <1>4, <2>2
    <3>2. sessions'[h] = sessions[h]
      BY <1>1, <2>2, <3>1 DEF Survivors
    <3> QED
      BY <3>1, <3>2 DEF SessionsInv
  <2> QED
    BY <2>1, <2>2
<1> QED
  BY <1>8, <1>9 DEF SessionsInv, Live

\* Capacity eviction leaves a table in order, with room for one session.
LEMMA SurvivorsInv ==
    ASSUME LruInv, SessionsInv, lru' = FreeSlot(lru), sessions' = Survivors(lru'),
           nextHandle' = nextHandle
    PROVE  LruInv' /\ SessionsInv' /\ Len(lru') < MaxSessions
<1>1. /\ lru' \in Seq(Nat) /\ Len(lru') < MaxSessions
      /\ Elems(lru') \subseteq Live /\ Distinct(lru')
  BY FreeSlotOrder DEF LruInv
<1>2. sessions' = [h \in Live \cap Elems(lru') |-> sessions[h]]
  BY DEF Survivors
<1>3. DOMAIN sessions' = Elems(lru') /\ \A h \in DOMAIN sessions' : h \in Live /\ sessions'[h] = sessions[h]
  BY <1>1, <1>2
<1>4. Len(lru') <= MaxSessions
  BY <1>1, BoundsAssumption
<1>5. LruInv'
  BY <1>1, <1>3, <1>4 DEF LruInv, Live
<1>6. SessionsInv'
  BY <1>3 DEF SessionsInv, Live
<1> QED
  BY <1>1, <1>5, <1>6

\* Touching a live handle keeps the table in order.
LEMMA TouchInv ==
    ASSUME LruInv, NEW h \in Live, lru' = Touch(lru, h), nextHandle' = nextHandle,
           DOMAIN sessions' = Live
    PROVE  LruInv' /\ Len(lru') = Len(lru)
<1>1. /\ Touch(lru, h) \in Seq(Nat) /\ Len(Touch(lru, h)) = Len(lru)
      /\ Elems(Touch(lru, h)) = Elems(lru) /\ Distinct(Touch(lru, h))
  BY TouchOrder DEF LruInv
<1> QED
  BY <1>1 DEF LruInv, Live

\* One session is replaced by a good one.
LEMMA UpdateInv ==
    ASSUME SessionsInv, NEW h \in Live, NEW s, GoodSession(s),
           sessions' = [sessions EXCEPT ![h] = s]
    PROVE  SessionsInv' /\ DOMAIN sessions' = Live
<1>1. DOMAIN sessions' = Live
  BY DEF Live
<1>2. \A x \in Live : sessions'[x] = IF x = h THEN s ELSE sessions[x]
  BY DEF Live
<1> QED
  BY <1>1, <1>2 DEF SessionsInv, Live

\* The empty locals and the blank session have their types.
LEMMA CallTypes ==
    /\ NoCall \in Call
    /\ NoCall.put = TRUE /\ NoCall.old = 0
    /\ Blank \in Session
<1>1. (CHOOSE c \in Client : TRUE) \in Client /\ (CHOOSE k \in Key : TRUE) \in Key
      /\ (CHOOSE w \in Witness : TRUE) \in Witness
  BY BoundsAssumption
<1>2. Blank \in Session
  BY <1>1, FreshSession DEF Blank
<1>3. NoCall \in Call
  BY <1>1 DEF NoCall, Call
<1> QED
  BY <1>2, <1>3 DEF NoCall

\* An operation has returned.
LEMMA ReturnInv ==
    ASSUME Return PROVE RunInv'
BY CallTypes DEF Return, RunInv

\* An idle store whose operation variables stay is still idle.
LEMMA IdleRun ==
    ASSUME RunInv, pc = "idle", UNCHANGED <<pc, cur, call>>
    PROVE  RunInv'
BY DEF RunInv

-----------------------------------------------------------------------------
(* The inputs. *)

\* The inputs of the instance are texts.
LEMMA InputsAreTexts == Inputs \subseteq Text
<1> SUFFICES ASSUME NEW u \in Inputs PROVE u \in Text
  OBVIOUS
<1>1. PICK t \in Corpus : \E n \in 0..Len(t) : u = Take(t, n)
  BY DEF Inputs
<1>2. t \in Text /\ t \in Seq(Char) /\ Len(t) \in Nat /\ Len(t) <= MaxChars /\ MaxChars \in Nat
  BY BoundsAssumption, TextElim
<1>3. PICK n \in 0..Len(t) : u = Take(t, n)
  BY <1>1
<1>4. u \in Seq(Char) /\ Len(u) = n
  BY <1>2, <1>3, TakeDrop
<1> QED
  BY <1>2, <1>4, TextIntro

\* A delta continues the text of the session.
LEMMA DeltasContinue ==
    ASSUME NEW s, s.text \in Text, NEW d \in Deltas(s)
    PROVE  d \in Continuations(s.text)
<1>1. PICK u \in Inputs : Len(u) - Len(s.text) \in 1..MaxDelta /\ d = Drop(u, Len(s.text))
  BY DEF Deltas
<1>2. u \in Text /\ u \in Seq(Char) /\ Len(u) \in Nat /\ Len(u) <= MaxChars /\ MaxChars \in Nat
      /\ Len(s.text) \in Nat
  BY BoundsAssumption, InputsAreTexts, TextElim
<1>3. Len(s.text) \in 0..Len(u)
  BY <1>1, <1>2, BoundsAssumption
<1>4. d \in Seq(Char) /\ Len(d) = Len(u) - Len(s.text)
  BY <1>1, <1>2, <1>3, TakeDrop
<1>5. Len(s.text) + Len(d) <= MaxChars
  BY <1>2, <1>4
<1> QED
  BY <1>4, <1>5, ContinuationIntro

-----------------------------------------------------------------------------
(* One lemma for each action. *)

\* put preserves the invariant up to its block loop.
LEMMA PutStep ==
    ASSUME IInv, NEW k \in Key, NEW w \in Witness, NEW t \in Puts, Put(k, w, t)
    PROVE  IInv'
<1> DEFINE s == [Fresh(k, w) EXCEPT !.text = t, !.tail = t, !.tailIds = Enc(k, t)]
<1>1. t \in Text
  BY InputsAreTexts DEF Puts
<1>2. GrowingSession(s, 0)
  BY <1>1, PutGrowing
<1>3. cur' = s /\ call' = NoCall /\ pc' = (IF t = <<>> THEN "commit" ELSE "blocks")
      /\ UNCHANGED <<nodes, nextHandle, corrupted, mirror>>
      /\ lru' = FreeSlot(lru) /\ sessions' = Survivors(lru')
  BY DEF Put
<1>4. s.text = t
  <2>1. Fresh(k, w) \in Session
    BY FreshSession
  <2> QED
    BY <2>1 DEF Session
<1> HIDE DEF s
<1>5. LruInv' /\ SessionsInv' /\ Len(lru') < MaxSessions
  BY <1>3, SurvivorsInv DEF IInv
<1>6. t = <<>> => GoodSession(s)
  <2> SUFFICES ASSUME t = <<>> PROVE GoodSession(s)
    OBVIOUS
  <2>1. Total(s) = 0 /\ BlocksEnd(s) \in Nat /\ BlockEnd(s) = BlocksEnd(s) + BlockChars
        /\ BlockChars \in Nat \ {0}
    BY <1>2, <1>4, GrowingFacts
  <2>2. ~HasBlock(s)
    BY <2>1 DEF HasBlock
  <2> QED
    BY <1>2, <2>2, SettledGood
<1>7. s \in Session
  BY <1>2 DEF GrowingSession, Shape
<1>8. RunInv'
  BY <1>2, <1>3, <1>5, <1>6, <1>7, CallTypes DEF RunInv
<1> QED
  BY <1>3, <1>5, <1>8 DEF IInv, NodesInv, MirrorInv

\* A put the engine refuses preserves the invariant.
LEMMA PutFailsStep ==
    ASSUME IInv, PutEngineFails PROVE IInv'
<1>1. LruInv' /\ SessionsInv'
  BY SurvivorsInv DEF IInv, PutEngineFails
<1>2. RunInv'
  BY IdleRun DEF IInv, PutEngineFails
<1> QED
  BY <1>1, <1>2 DEF IInv, PutEngineFails, NodesInv, MirrorInv

\* What the actions of append share.
LEMMA BeginAppendInv ==
    ASSUME IInv, NEW c \in Client, NEW h \in Live, NEW kept \in Nat, BeginAppend(c, h, kept)
    PROVE  /\ LruInv' /\ SessionsInv' /\ NodesInv' /\ MirrorInv'
           /\ call' \in Call /\ call'.put = FALSE /\ call'.h = h /\ h \in DOMAIN sessions'
           /\ call'.old = Len(sessions[h].text)
<1>1. GoodSession(sessions[h])
  BY DEF IInv, SessionsInv
<1>2. Len(sessions[h].text) \in Nat /\ Len(sessions[h].sealed) \in Nat
  BY <1>1, GoodFacts
<1>3. h \in Nat
  BY ElementOfSeq DEF IInv, LruInv, Elems
<1>4. call' = [NoCall EXCEPT !.client = c, !.put = FALSE, !.h = h,
                            !.old = Len(sessions[h].text),
                            !.oldSealed = Len(sessions[h].sealed), !.kept = kept]
      /\ lru' = Touch(lru, h) /\ UNCHANGED <<sessions, nodes, nextHandle, corrupted, mirror>>
  BY DEF BeginAppend
<1>5. call' \in Call /\ call'.put = FALSE /\ call'.h = h /\ call'.old = Len(sessions[h].text)
  <2> DEFINE a == Len(sessions[h].text)
             b == Len(sessions[h].sealed)
  <2>1. a \in Nat /\ b \in Nat
    BY <1>2
  <2> HIDE DEF a, b
  <2>2. call' = [NoCall EXCEPT !.client = c, !.put = FALSE, !.h = h,
                              !.old = a, !.oldSealed = b, !.kept = kept]
    BY <1>4 DEF a, b
  <2>3. call' \in Call /\ call'.put = FALSE /\ call'.h = h /\ call'.old = a
    BY <1>3, <2>1, <2>2, CallTypes DEF Call
  <2> QED
    BY <2>3 DEF a
<1>6. LruInv'
  BY <1>4, TouchInv DEF IInv, Live
<1> QED
  BY <1>4, <1>5, <1>6 DEF IInv, SessionsInv, NodesInv, MirrorInv, Live

\* The empty append preserves the invariant.
LEMMA AppendNoopStep ==
    ASSUME IInv, NEW c \in Client, NEW h \in Live, AppendNoop(c, h)
    PROVE  IInv'
<1>1. GoodSession(sessions[h])
  BY DEF IInv, SessionsInv
<1>2. sessions[h] \in Session /\ Len(sessions[h].tailIds) \in Nat
  BY <1>1, GoodFacts
<1>3. /\ LruInv' /\ SessionsInv' /\ NodesInv' /\ MirrorInv'
      /\ call' \in Call /\ call'.put = FALSE /\ call'.h = h /\ h \in DOMAIN sessions'
  BY <1>2, BeginAppendInv DEF AppendNoop
<1>4. RunInv'
  BY <1>1, <1>2, <1>3 DEF AppendNoop, RunInv, Live
<1> QED
  BY <1>3, <1>4 DEF IInv

\* The session after the engine call enters the block loop.
LEMMA GrownRun ==
    ASSUME SessionsInv, NEW h \in Live, NEW d \in Deltas(sessions[h]),
           call' \in Call, call'.put = FALSE, call'.h = h, h \in DOMAIN sessions',
           call'.old = Len(sessions[h].text),
           cur' = GrownBy(sessions[h], d), pc' = "blocks"
    PROVE  RunInv'
<1>1. GoodSession(sessions[h])
  BY DEF SessionsInv
<1>2. d \in Continuations(sessions[h].text)
  BY <1>1, DeltasContinue DEF GoodSession, Shape
<1>3. GrowingSession(cur', call'.old)
  BY <1>1, <1>2, GrownByGrowing
<1>4. cur' \in Session
  BY <1>3 DEF GrowingSession, Shape
<1> QED
  BY <1>3, <1>4 DEF RunInv, Live

\* The re-encode above the hard cap preserves the invariant.
LEMMA AppendDegradedStep ==
    ASSUME IInv, NEW c \in Client, NEW h \in Live, NEW d \in Deltas(sessions[h]),
           AppendDegraded(c, h, d)
    PROVE  IInv'
<1>1. BeginAppend(c, h, 0) /\ cur' = GrownBy(sessions[h], d) /\ pc' = "blocks" /\ 0 \in Nat
  BY DEF AppendDegraded
<1>2. /\ LruInv' /\ SessionsInv' /\ NodesInv' /\ MirrorInv'
      /\ call' \in Call /\ call'.put = FALSE /\ call'.h = h /\ h \in DOMAIN sessions'
      /\ call'.old = Len(sessions[h].text)
  BY <1>1, BeginAppendInv
<1>3. RunInv'
  BY <1>1, <1>2, GrownRun DEF IInv
<1> QED
  BY <1>2, <1>3 DEF IInv

\* The incremental append preserves the invariant.
LEMMA AppendRepairStep ==
    ASSUME IInv, NEW c \in Client, NEW h \in Live, NEW d \in Deltas(sessions[h]),
           AppendRepair(c, h, d)
    PROVE  IInv'
<1>1. PICK kept \in KeptTokens(sessions[h], d) : BeginAppend(c, h, kept)
  BY DEF AppendRepair
<1>2. kept \in Nat
  BY DEF KeptTokens
<1>3. cur' = GrownBy(sessions[h], d) /\ pc' = "blocks"
  BY DEF AppendRepair
<1>4. /\ LruInv' /\ SessionsInv' /\ NodesInv' /\ MirrorInv'
      /\ call' \in Call /\ call'.put = FALSE /\ call'.h = h /\ h \in DOMAIN sessions'
      /\ call'.old = Len(sessions[h].text)
  BY <1>1, <1>2, BeginAppendInv
<1>5. RunInv'
  BY <1>3, <1>4, GrownRun DEF IInv
<1> QED
  BY <1>4, <1>5 DEF IInv

\* A failed engine call preserves the invariant.
LEMMA AppendEngineFailsStep ==
    ASSUME IInv, NEW c \in Client, NEW h \in Live, AppendEngineFails(c, h)
    PROVE  IInv'
<1>1. /\ lru' = Touch(lru, h) /\ pc = "idle"
      /\ sessions' = [sessions EXCEPT ![h] = BumpGeneration(sessions[h])]
      /\ UNCHANGED <<nodes, nextHandle, corrupted, pc, cur, call, mirror>>
  BY DEF AppendEngineFails, MayAppend
<1>2. GoodSession(BumpGeneration(sessions[h]))
  BY BumpGenerationGood DEF IInv, SessionsInv
<1>3. SessionsInv' /\ DOMAIN sessions' = Live
  BY <1>1, <1>2, UpdateInv DEF IInv
<1>4. LruInv'
  BY <1>1, <1>3, TouchInv DEF IInv
<1>5. RunInv'
  BY <1>1, IdleRun DEF IInv
<1> QED
  BY <1>1, <1>3, <1>4, <1>5 DEF IInv, NodesInv, MirrorInv

-----------------------------------------------------------------------------

\* What the steps of the block loop share.
LEMMA BlockStep ==
    ASSUME IInv, InBlocks, GrowingSession(cur', call.old), NodesInv'
    PROVE  IInv'
<1>1. pc = "blocks" /\ UNCHANGED <<sessions, lru, nextHandle, corrupted, pc, call, mirror>>
  BY DEF InBlocks
<1>2. cur' \in Session
  BY DEF GrowingSession, Shape
<1>3. RunInv'
  BY <1>1, <1>2 DEF IInv, RunInv, Live
<1> QED
  BY <1>1, <1>3 DEF IInv, LruInv, SessionsInv, MirrorInv, Live

\* Adopting the node of a sibling preserves the invariant.
LEMMA AdoptNodeStep ==
    ASSUME IInv, AdoptNode PROVE IInv'
<1> DEFINE n == nodes[BlockKey(cur)]
<1>1. InBlocks /\ HasBlock(cur) /\ GrowingSession(cur, call.old) /\ nodes' = nodes
  BY DEF IInv, RunInv, AdoptNode, InBlocks
<1>2. <<n.safe, CumEnd(n)>> \in cur.sealLog /\ cur' = Advance(cur, CumEnd(n))
  BY DEF AdoptNode
<1>3. n \in Node
  BY DEF AdoptNode, IInv, NodesInv
<1> HIDE DEF n
<1>4. CumEnd(n) \in Nat
  BY <1>3 DEF CumEnd, Node
<1>5. CumEnd(n) <= Len(cur.sealed)
  <2>1. \A e \in cur.sealLog : e[2] <= Len(cur.sealed)
    BY <1>1 DEF GrowingSession, Shape
  <2>2. <<n.safe, CumEnd(n)>>[2] <= Len(cur.sealed)
    BY <1>2, <2>1
  <2> QED
    BY <2>2
<1>6. GrowingSession(cur', call.old)
  BY <1>1, <1>2, <1>4, <1>5, AdvanceGrowing
<1>7. NodesInv'
  BY <1>1 DEF IInv, NodesInv
<1> QED
  BY <1>1, <1>6, <1>7, BlockStep

\* Detaching from the chain preserves the invariant.
LEMMA DetachStep ==
    ASSUME IInv, DetachFromSibling \/ SkipNode PROVE IInv'
<1>1. InBlocks /\ GrowingSession(cur, call.old) /\ nodes' = nodes /\ cur' = Detach(cur)
  BY DEF IInv, RunInv, DetachFromSibling, SkipNode, InBlocks
<1>2. GrowingSession(cur', call.old)
  BY <1>1, DetachGrowing
<1>3. NodesInv'
  BY <1>1 DEF IInv, NodesInv
<1> QED
  BY <1>1, <1>2, <1>3, BlockStep

\* The node written for a completed block is good.
LEMMA WriteNodeStep ==
    ASSUME IInv, WriteNode PROVE IInv'
<1> DEFINE z == BlockKey(cur)
           n == NewNode(cur)
<1>1. InBlocks /\ HasBlock(cur) /\ GrowingSession(cur, call.old)
      /\ nodes' = Extended(nodes, z, n) /\ cur' = Advance(cur, Len(cur.sealed))
  BY DEF IInv, RunInv, WriteNode, InBlocks
<1>2. Len(cur.sealed) \in Nat /\ Len(cur.sealed) <= Len(cur.sealed)
  BY <1>1, GrowingFacts
<1>3. GrowingSession(cur', call.old)
  BY <1>1, <1>2, AdvanceGrowing
<1>4. z \in Key \X Seq(Char) /\ n \in Node /\ z[2] \in Text /\ GoodNode(z[1], z[2], n)
  <2>1. /\ z \in Key \X Seq(Char) /\ BlockPrefix(cur) \in Text /\ n \in Node
        /\ GoodNode(cur.key, BlockPrefix(cur), n)
    BY <1>1, NewNodeGood
  <2>2. z[1] = cur.key /\ z[2] = BlockPrefix(cur)
    BY DEF BlockKey
  <2> QED
    BY <2>1, <2>2
<1> HIDE DEF z, n
<1>5. DOMAIN nodes' = DOMAIN nodes \cup {z}
      /\ \A x \in DOMAIN nodes' : nodes'[x] = IF x = z THEN n ELSE nodes[x]
  BY <1>1 DEF Extended
<1>6. NodesInv'
  BY <1>4, <1>5 DEF IInv, NodesInv
<1> QED
  BY <1>1, <1>3, <1>6, BlockStep

\* The steps after the block loop leave the session good.
LEMMA CommitPhase ==
    ASSUME IInv, pc = "blocks", GoodSession(cur'), pc' = "commit",
           UNCHANGED <<sessions, lru, nodes, nextHandle, corrupted, call, mirror>>
    PROVE  IInv'
<1>1. cur' \in Session
  BY GoodFacts
<1>2. RunInv'
  BY <1>1 DEF IInv, RunInv, Live
<1> QED
  BY <1>2 DEF IInv, LruInv, SessionsInv, NodesInv, MirrorInv, Live

\* Sealing the tail preserves the invariant.
LEMMA SealStep ==
    ASSUME IInv, Seal PROVE IInv'
<1>1. GoodSession(cur)
  BY SettledGood DEF IInv, RunInv, Seal, AtSeal
<1>2. PICK c \in Candidates(cur) : cur' = SealTail(cur, c)
  BY DEF Seal
<1>3. GoodSession(cur')
  BY <1>1, <1>2, SealTailGood
<1> QED
  BY <1>3, CommitPhase DEF Seal, AtSeal

\* A probe without a cut preserves the invariant.
LEMMA NoCutStep ==
    ASSUME IInv, NoCut PROVE IInv'
<1>1. GoodSession(cur)
  BY SettledGood DEF IInv, RunInv, NoCut, AtSeal
<1>2. GoodSession(cur')
  BY <1>1, ScanFloorGood DEF NoCut
<1> QED
  BY <1>2, CommitPhase DEF NoCut, AtSeal

\* A failed probe leaves a session whose stream is still exact.
LEMMA ProbeFailsStep ==
    ASSUME IInv, ProbeFails PROVE IInv'
<1>1. GoodSession(cur)
  BY SettledGood DEF IInv, RunInv, ProbeFails, AtSeal
<1>2. RunInv'
  BY ReturnInv DEF ProbeFails
<1>3. UNCHANGED <<lru, nodes, nextHandle, corrupted, mirror>> /\ pc = "blocks"
  BY DEF ProbeFails, AtSeal
<1>4. SessionsInv' /\ DOMAIN sessions' = Live
  <2>1. CASE call.put
    BY <2>1 DEF ProbeFails, IInv, SessionsInv, Live
  <2>2. CASE ~call.put
    <3>1. call.h \in Live /\ sessions' = [sessions EXCEPT ![call.h] = cur]
      BY <1>3, <2>2 DEF ProbeFails, IInv, RunInv
    <3> QED
      BY <1>1, <3>1, UpdateInv DEF IInv
  <2> QED
    BY <2>1, <2>2
<1> QED
  BY <1>2, <1>3, <1>4 DEF IInv, LruInv, NodesInv, MirrorInv, Live

\* The commit of put preserves the invariant.
LEMMA CommitPutStep ==
    ASSUME IInv, CommitPut PROVE IInv'
<1>1. pc = "commit" /\ call.put /\ InsertSession(lru, Committed(cur)) /\ Return
      /\ UNCHANGED <<nodes, corrupted, mirror>>
  BY DEF CommitPut
<1>2. GoodSession(Committed(cur)) /\ Len(lru) < MaxSessions
  BY <1>1, CommittedGood DEF IInv, RunInv
<1>3. lru \in Seq(Nat) /\ Distinct(lru) /\ Elems(lru) \subseteq Live
  BY DEF IInv, LruInv
<1>4. LruInv' /\ SessionsInv'
  BY <1>1, <1>2, <1>3, InsertSessionInv DEF IInv
<1>5. RunInv'
  BY <1>1, ReturnInv
<1> QED
  BY <1>1, <1>4, <1>5 DEF IInv, NodesInv, MirrorInv

\* A patched mirror has its type.
LEMMA PatchedType ==
    ASSUME NEW m \in Mirror, cur \in Session, call \in Call
    PROVE  Patched(m) \in Mirror
<1> DEFINE r == ReplaceFrom
           a == Take(m.ids, Lower(r, Len(m.ids)))
           b == Drop(AllIds(cur), r)
           v == cur.revision + 1
           i == a \o b
<1>1. call.oldSealed \in Nat /\ call.kept \in Nat
  BY DEF Call
<1>2. r \in Nat
  BY <1>1 DEF ReplaceFrom
<1>3. v \in Nat /\ cur.sealed \in Seq(Token) /\ cur.tailIds \in Seq(Token)
  BY SessionFields
<1>4. AllIds(cur) \in Seq(Token) /\ Len(AllIds(cur)) \in Nat
  <2>1. cur.sealed \in Seq(Token) /\ cur.tailIds \in Seq(Token)
    BY <1>3
  <2>2. AllIds(cur) \in Seq(Token)
    BY <2>1, ConcatProperties DEF AllIds
  <2> QED
    BY <2>2
<1>5. m.ids \in Seq(Token) /\ Len(m.ids) \in Nat
  BY DEF Mirror
<1> HIDE DEF r
<1>6. Lower(r, Len(m.ids)) \in 0..Len(m.ids)
  BY <1>2, <1>5 DEF Lower
<1>7. a \in Seq(Token)
  BY <1>5, <1>6, TakeDrop
<1>8. b \in Seq(Token)
  <2>1. r + 1 \in Nat \ {0} /\ Len(AllIds(cur)) <= Len(AllIds(cur))
    BY <1>2, <1>4
  <2> QED
    BY <1>4, <2>1, SliceFacts DEF Drop
<1> HIDE DEF a, b
<1>9. i \in Seq(Token)
  BY <1>7, <1>8, ConcatProperties
<1> HIDE DEF i, v
<1>10. [m EXCEPT !.rev = v, !.ids = i] \in Mirror
  BY <1>3, <1>9 DEF Mirror
<1>11. Patched(m) = [m EXCEPT !.rev = v, !.ids = i]
  BY DEF Patched, Replacement, Mirror, v, i, a, b, r
<1> QED
  BY <1>10, <1>11

\* The commit of append preserves the invariant.
LEMMA CommitAppendStep ==
    ASSUME IInv, CommitAppend PROVE IInv'
<1>1. pc = "commit" /\ ~call.put /\ Return /\ UNCHANGED <<lru, nodes, nextHandle, corrupted>>
      /\ sessions' = [sessions EXCEPT ![call.h] = Committed(NextRevision(cur))]
      /\ mirror' = [mirror EXCEPT ![call.client] = Patched(mirror[call.client])]
  BY DEF CommitAppend
<1>2. GoodSession(cur) /\ call.h \in Live /\ cur \in Session /\ call \in Call
  BY <1>1 DEF IInv, RunInv
<1>3. GoodSession(Committed(NextRevision(cur)))
  <2> DEFINE a == cur.revision + 1
             b == ReplaceFrom
  <2>1. a \in Nat /\ b \in Nat /\ cur.hash \in Seq(Record)
    BY <1>2, SessionFields DEF ReplaceFrom, Call
  <2>2. NextRevision(cur) = [cur EXCEPT !.revision = a, !.replaceFrom = b, !.prev = cur.hash]
    BY <1>2 DEF NextRevision
  <2> HIDE DEF a, b
  <2>3. GoodSession(NextRevision(cur))
    <3>1. GoodSession([cur EXCEPT !.revision = a, !.replaceFrom = b, !.prev = cur.hash])
      BY <1>2, <2>1, RevisedGood
    <3> QED
      BY <2>2, <3>1
  <2> QED
    BY <2>3, CommittedGood
<1>4. SessionsInv' /\ DOMAIN sessions' = Live
  BY <1>1, <1>2, <1>3, UpdateInv DEF IInv
<1>5. LruInv'
  BY <1>1, <1>4 DEF IInv, LruInv, Live
<1>6. RunInv'
  BY <1>1, ReturnInv
<1>7. MirrorInv'
  <2>1. call.client \in Client /\ mirror \in [Client -> Mirror] /\ corrupted \in Nat
    BY <1>2 DEF Call, IInv, MirrorInv
  <2>2. Patched(mirror[call.client]) \in Mirror
    BY <1>2, <2>1, PatchedType
  <2> QED
    BY <1>1, <2>1, <2>2 DEF MirrorInv
<1> QED
  BY <1>1, <1>4, <1>5, <1>6, <1>7 DEF IInv, NodesInv

\* Beginning a lookup preserves the invariant.
LEMMA LookupStep ==
    ASSUME IInv, NEW k \in Key, NEW w \in Witness, NEW q \in Inputs, Lookup(k, w, q)
    PROVE  IInv'
<1>1. pc' = "walk" /\ cur' = Fresh(k, w) /\ call' = [NoCall EXCEPT !.query = q]
      /\ UNCHANGED <<sessions, lru, nodes, nextHandle, corrupted, mirror>>
  BY DEF Lookup
<1>2. q \in Text /\ q \in Seq(Char)
  BY InputsAreTexts, TextElim
<1>3. call' \in Call /\ call'.query = q
  BY <1>1, <1>2, CallTypes DEF Call
<1>4. WalkingSession(cur', q) /\ cur' \in Session
  BY <1>1, <1>2, FreshWalking, FreshSession
<1>5. RunInv'
  BY <1>1, <1>3, <1>4 DEF RunInv
<1> QED
  BY <1>1, <1>5 DEF IInv, LruInv, SessionsInv, NodesInv, MirrorInv, Live

\* One verified node of the walk preserves the invariant.
LEMMA WalkStep ==
    ASSUME IInv, Walk PROVE IInv'
<1> DEFINE q == call.query
           z == WalkKey(cur, q)
           n == nodes[z]
           p == Take(q, BlockEnd(cur))
<1>1. pc = "walk" /\ CanWalk(cur, q) /\ cur' = Materialised(cur, n, z[2])
      /\ UNCHANGED <<sessions, lru, nodes, nextHandle, corrupted, pc, call, mirror>>
  BY DEF Walk
<1>2. WalkingSession(cur, q)
  BY <1>1 DEF IInv, RunInv
<1>3. BlockEnd(cur) <= Len(q) /\ z \in DOMAIN nodes /\ NodeOk(cur, n)
  BY <1>1 DEF CanWalk
<1>4. z[1] = cur.key /\ z[2] = p
  BY DEF WalkKey
<1>5. n \in Node /\ GoodNode(cur.key, p, n)
  BY <1>3, <1>4 DEF IInv, NodesInv, NodeOk
<1>6. WalkingSession(Materialised(cur, n, p), q)
  BY <1>2, <1>3, <1>5, MaterialisedWalking
<1>7. WalkingSession(cur', call'.query) /\ cur' \in Session
  BY <1>1, <1>4, <1>6 DEF WalkingSession, GoodSession, Shape
<1>8. RunInv'
  BY <1>1, <1>7 DEF IInv, RunInv, Live
<1> QED
  BY <1>1, <1>8 DEF IInv, LruInv, SessionsInv, NodesInv, MirrorInv, Live

\* The session a lookup materialises is good.
LEMMA LookupHitStep ==
    ASSUME IInv, LookupHit PROVE IInv'
<1>1. pc = "walk" /\ InsertSession(FreeSlot(lru), Committed(cur)) /\ Return
      /\ UNCHANGED <<nodes, corrupted, mirror>>
  BY DEF LookupHit
<1>2. GoodSession(Committed(cur))
  BY <1>1, CommittedGood DEF IInv, RunInv, WalkingSession
<1>3. /\ FreeSlot(lru) \in Seq(Nat) /\ Len(FreeSlot(lru)) < MaxSessions
      /\ Elems(FreeSlot(lru)) \subseteq Live /\ Distinct(FreeSlot(lru))
  BY FreeSlotOrder DEF IInv, LruInv
<1>4. LruInv' /\ SessionsInv'
  BY <1>1, <1>2, <1>3, InsertSessionInv DEF IInv
<1>5. RunInv'
  BY <1>1, ReturnInv
<1> QED
  BY <1>1, <1>4, <1>5 DEF IInv, NodesInv, MirrorInv

\* fork preserves the invariant, also when it evicts its source.
LEMMA ForkStep ==
    ASSUME IInv, NEW h \in Live, Fork(h) PROVE IInv'
<1> DEFINE t == Genesis(sessions[h])
           q == Touch(lru, h)
<1>1. pc = "idle" /\ InsertSession(FreeSlot(q), Committed(t))
      /\ UNCHANGED <<nodes, corrupted, pc, cur, call, mirror>>
  BY DEF Fork
<1>2. GoodSession(t)
  BY GenesisGood DEF IInv, SessionsInv
<1>3. GoodSession(Committed(t))
  <2> HIDE DEF t
  <2> QED
    BY <1>2, CommittedGood
<1>4. q \in Seq(Nat) /\ Distinct(q) /\ Elems(q) = Live
  BY TouchOrder DEF IInv, LruInv
<1> HIDE DEF q, t
<1>5. /\ FreeSlot(q) \in Seq(Nat) /\ Len(FreeSlot(q)) < MaxSessions
      /\ Elems(FreeSlot(q)) \subseteq Live /\ Distinct(FreeSlot(q))
  BY <1>4, FreeSlotOrder
<1>6. LruInv' /\ SessionsInv'
  BY <1>1, <1>3, <1>5, InsertSessionInv DEF IInv
<1>7. RunInv'
  BY <1>1, IdleRun DEF IInv
<1> QED
  BY <1>1, <1>6, <1>7 DEF IInv, NodesInv, MirrorInv

\* evict preserves the invariant.
LEMMA EvictStep ==
    ASSUME IInv, NEW h \in Live, Evict(h) PROVE IInv'
<1> DEFINE q == Touch(lru, h)
<1>1. pc = "idle" /\ lru' = Take(q, Len(lru) - 1)
      /\ sessions' = [x \in Live \ {h} |-> sessions[x]]
      /\ UNCHANGED <<nodes, nextHandle, corrupted, pc, cur, call, mirror>>
  BY DEF Evict
<1>2. /\ q \in Seq(Nat) /\ Len(q) = Len(lru) /\ Elems(q) = Live /\ Distinct(q)
      /\ Len(q) > 0 /\ q[Len(q)] = h
  BY TouchOrder DEF IInv, LruInv
<1> HIDE DEF q
<1>3. /\ lru' \in Seq(Nat) /\ Len(lru') = Len(q) - 1 /\ Elems(lru') = Live \ {h}
      /\ Distinct(lru')
  BY <1>1, <1>2, ButLastOrder
<1>4. Len(lru') <= MaxSessions
  <2>1. Len(lru) <= MaxSessions /\ Len(lru) \in Nat /\ MaxSessions \in Nat
    BY BoundsAssumption DEF IInv, LruInv
  <2> QED
    BY <1>2, <1>3, <2>1
<1>5. DOMAIN sessions' = Live \ {h} /\ \A x \in DOMAIN sessions' : x \in Live /\ sessions'[x] = sessions[x]
  BY <1>1
<1>6. LruInv'
  BY <1>1, <1>3, <1>4, <1>5 DEF IInv, LruInv, Live
<1>7. SessionsInv'
  BY <1>5 DEF IInv, SessionsInv, Live
<1>8. RunInv'
  BY <1>1, IdleRun DEF IInv
<1> QED
  BY <1>1, <1>6, <1>7, <1>8 DEF IInv, NodesInv, MirrorInv

\* A mirror that read a row has its type.
LEMMA ObserveType ==
    ASSUME IInv, NEW c \in Client, NEW h \in Live, NEW ids \in Seq(Token), Observe(c, h, ids),
           corrupted' = corrupted
    PROVE  MirrorInv'
<1> DEFINE m == [h |-> h, rev |-> sessions[h].revision, ids |-> ids, set |-> TRUE]
<1>1. h \in Nat
  BY ElementOfSeq DEF IInv, LruInv, Elems
<1>2. sessions[h].revision \in Nat
  BY GoodFacts, SessionFields DEF IInv, SessionsInv
<1>3. m \in Mirror
  BY <1>1, <1>2 DEF Mirror
<1>4. mirror' = [mirror EXCEPT ![c] = m]
  BY DEF Observe
<1> HIDE DEF m
<1> QED
  BY <1>3, <1>4 DEF IInv, MirrorInv

\* The stream of a good session is a sequence of tokens.
LEMMA AllIdsType ==
    ASSUME NEW s \in Session PROVE AllIds(s) \in Seq(Token)
<1>1. s.sealed \in Seq(Token) /\ s.tailIds \in Seq(Token)
  BY SessionFields
<1> QED
  BY <1>1, ConcatProperties DEF AllIds

\* all_ids preserves the invariant.
LEMMA ReadAllIdsStep ==
    ASSUME IInv, NEW c \in Client, NEW h \in Live, ReadAllIds(c, h) PROVE IInv'
<1>1. pc = "idle" /\ lru' = Touch(lru, h) /\ Observe(c, h, AllIds(sessions[h]))
      /\ UNCHANGED <<sessions, nodes, nextHandle, corrupted, pc, cur, call>>
  BY DEF ReadAllIds
<1>2. AllIds(sessions[h]) \in Seq(Token)
  BY AllIdsType, GoodFacts DEF IInv, SessionsInv
<1>3. MirrorInv'
  BY <1>1, <1>2, ObserveType
<1>4. LruInv'
  BY <1>1, TouchInv DEF IInv, Live
<1>5. RunInv'
  BY <1>1, IdleRun DEF IInv
<1> QED
  BY <1>1, <1>3, <1>4, <1>5 DEF IInv, SessionsInv, NodesInv, Live

\* shared_all_ids preserves the invariant.
LEMMA ReadSharedStep ==
    ASSUME IInv, NEW c \in Client, NEW h \in Live, ReadShared(c, h) PROVE IInv'
<1> DEFINE s == sessions[h]
           row == SharedRow(s)
           z == [gen |-> s.gen, ids |-> row, set |-> TRUE]
           t == [s EXCEPT !.snapshot = z]
<1>1. pc = "idle" /\ lru' = Touch(lru, h) /\ Observe(c, h, row)
      /\ sessions' = [sessions EXCEPT ![h] = t]
      /\ UNCHANGED <<nodes, nextHandle, corrupted, pc, cur, call>>
  BY DEF ReadShared
<1>2. GoodSession(s) /\ s \in Session
  BY GoodFacts DEF IInv, SessionsInv
<1> HIDE DEF s
<1>3. row \in Seq(Token)
  <2>1. s.snapshot \in Snapshot
    BY <1>2, SessionFields
  <2> QED
    BY <1>2, <2>1, AllIdsType DEF SharedRow, Snapshot
<1>4. s.gen \in Nat
  BY <1>2, SessionFields
<1> HIDE DEF row
<1>5. z \in Snapshot
  BY <1>3, <1>4 DEF Snapshot
<1> HIDE DEF z
<1>6. GoodSession(t)
  BY <1>2, <1>5, SnapshotGood
<1> HIDE DEF t
<1>7. SessionsInv' /\ DOMAIN sessions' = Live
  BY <1>1, <1>6, UpdateInv DEF IInv
<1>8. LruInv'
  BY <1>1, <1>7, TouchInv DEF IInv
<1>9. MirrorInv'
  BY <1>1, <1>3, ObserveType
<1>10. RunInv'
  BY <1>1, IdleRun DEF IInv
<1> QED
  BY <1>1, <1>7, <1>8, <1>9, <1>10 DEF IInv, NodesInv

\* A corrupted node has its type and is not valid.
LEMMA DamagedType ==
    ASSUME NEW n \in Node PROVE Damaged(n) \in Node /\ Damaged(n).valid = FALSE
<1>1. n.ids \in Seq(Token) /\ n.safe \in Nat /\ Junk \in Token /\ FALSE \in BOOLEAN
  BY BoundsAssumption DEF Node
<1>2. CASE n.ids # <<>>
  <2> DEFINE i == [j \in 1..Len(n.ids) |-> IF j = 1 THEN Junk ELSE n.ids[j]]
  <2>1. Len(n.ids) \in Nat /\ \A j \in 1..Len(n.ids) : n.ids[j] \in Token
    BY <1>1, ElementOfSeq
  <2>2. i \in [1..Len(n.ids) -> Token]
    BY <1>1, <2>1
  <2>3. i \in Seq(Token)
    BY <2>1, <2>2, SeqDef
  <2>4. Damaged(n) = [n EXCEPT !.ids = i, !.valid = FALSE]
    BY <1>2 DEF Damaged
  <2> HIDE DEF i
  <2> QED
    BY <1>1, <2>3, <2>4 DEF Node
<1>3. CASE n.ids = <<>>
  <2> DEFINE f == IF n.safe % 2 = 0 THEN n.safe + 1 ELSE n.safe - 1
  <2>1. n.safe % 2 = 1 => n.safe > 0
    BY <1>1
  <2>2. f \in Nat
    BY <1>1, <2>1
  <2>3. Damaged(n) = [n EXCEPT !.safe = f, !.valid = FALSE]
    BY <1>3 DEF Damaged
  <2> HIDE DEF f
  <2> QED
    BY <1>1, <2>2, <2>3 DEF Node
<1> QED
  BY <1>2, <1>3

\* Corruption of a node preserves the invariant: nothing is claimed of it any more.
LEMMA CorruptNodeStep ==
    ASSUME IInv, NEW k \in DOMAIN nodes, CorruptNode(k) PROVE IInv'
<1>1. pc = "idle" /\ nodes' = [nodes EXCEPT ![k] = Damaged(nodes[k])] /\ corrupted' = corrupted + 1
      /\ UNCHANGED <<sessions, lru, nextHandle, pc, cur, call, mirror>>
  BY DEF CorruptNode
<1>2. nodes[k] \in Node
  BY DEF IInv, NodesInv
<1>3. Damaged(nodes[k]) \in Node /\ Damaged(nodes[k]).valid = FALSE
  BY <1>2, DamagedType
<1>4. DOMAIN nodes' = DOMAIN nodes
      /\ \A x \in DOMAIN nodes : nodes'[x] = IF x = k THEN Damaged(nodes[k]) ELSE nodes[x]
  BY <1>1
<1>5. NodesInv'
  BY <1>3, <1>4 DEF IInv, NodesInv
<1>6. RunInv'
  BY <1>1, IdleRun DEF IInv
<1>7. corrupted' \in Nat
  BY <1>1 DEF IInv, MirrorInv
<1> QED
  BY <1>1, <1>5, <1>6, <1>7 DEF IInv, LruInv, SessionsInv, MirrorInv, Live

-----------------------------------------------------------------------------
(* The invariant holds. *)

\* The empty store satisfies the invariant.
LEMMA InitInv ==
    ASSUME Init PROVE IInv
<1>1. DOMAIN sessions = {} /\ DOMAIN nodes = {} /\ lru = <<>> /\ nextHandle = 1 /\ corrupted = 0
      /\ pc = "idle" /\ cur = Blank /\ call = NoCall /\ mirror = [c \in Client |-> NoMirror]
  BY DEF Init
<1>2. Elems(lru) = {} /\ Distinct(lru) /\ lru \in Seq(Nat) /\ Len(lru) = 0
  BY <1>1 DEF Elems, Distinct
<1>3. LruInv
  BY <1>1, <1>2, BoundsAssumption DEF LruInv, Live
<1>4. NoMirror \in Mirror
  BY DEF NoMirror, Mirror
<1>5. RunInv
  BY <1>1, CallTypes DEF RunInv
<1> QED
  BY <1>1, <1>3, <1>4, <1>5 DEF IInv, SessionsInv, NodesInv, MirrorInv, Live

\* A stuttering step preserves the invariant.
LEMMA StutterInv ==
    ASSUME IInv, UNCHANGED vars PROVE IInv'
BY DEF IInv, LruInv, SessionsInv, NodesInv, RunInv, MirrorInv, vars, Live

\* Every step preserves the invariant.
LEMMA NextInv ==
    ASSUME IInv, [Next]_vars PROVE IInv'
<1>1. CASE \E k \in Key, w \in Witness, t \in Puts : Put(k, w, t)
  BY <1>1, PutStep
<1>2. CASE PutEngineFails
  BY <1>2, PutFailsStep
<1>3. CASE \E c \in Client, h \in Live :
              \/ AppendNoop(c, h)
              \/ \E d \in Deltas(sessions[h]) : AppendDegraded(c, h, d)
              \/ \E d \in Deltas(sessions[h]) : AppendRepair(c, h, d)
              \/ AppendEngineFails(c, h)
              \/ ReadAllIds(c, h)
              \/ ReadShared(c, h)
  <2>1. PICK c \in Client, h \in Live :
              \/ AppendNoop(c, h)
              \/ \E d \in Deltas(sessions[h]) : AppendDegraded(c, h, d)
              \/ \E d \in Deltas(sessions[h]) : AppendRepair(c, h, d)
              \/ AppendEngineFails(c, h)
              \/ ReadAllIds(c, h)
              \/ ReadShared(c, h)
    BY <1>3
  <2> QED
    BY <2>1, AppendNoopStep, AppendDegradedStep, AppendRepairStep, AppendEngineFailsStep,
       ReadAllIdsStep, ReadSharedStep
<1>4. CASE Continue
  BY <1>4, AdoptNodeStep, DetachStep, WriteNodeStep, SealStep, NoCutStep, ProbeFailsStep,
     CommitPutStep, CommitAppendStep, WalkStep, LookupHitStep DEF Continue
<1>5. CASE \E k \in Key, w \in Witness, q \in Inputs : Lookup(k, w, q)
  BY <1>5, LookupStep
<1>6. CASE \E h \in Live : Fork(h)
  BY <1>6, ForkStep
<1>7. CASE \E h \in Live : Evict(h)
  BY <1>7, EvictStep
<1>8. CASE \E k \in DOMAIN nodes : CorruptNode(k)
  BY <1>8, CorruptNodeStep
<1>9. CASE UNCHANGED vars
  BY <1>9, StutterInv
<1> QED
  BY <1>1, <1>2, <1>3, <1>4, <1>5, <1>6, <1>7, <1>8, <1>9 DEF Next

\* The inductive invariant holds in every state: every session is cut at its
\* seal point, every node that verifies is a cut of its own prefix.
THEOREM Invariance == Spec => []IInv
<1>1. Init => IInv
  BY InitInv
<1>2. IInv /\ [Next]_vars => IInv'
  BY NextInv
<1> QED
  BY <1>1, <1>2, PTL DEF Spec

-----------------------------------------------------------------------------
(* What it implies. *)

\* Every variable and every field of every session, node and call keeps its
\* type, and the LRU order lists exactly the live handles, within capacity.
THEOREM TypeCorrect == Spec => []TypeOK
<1>1. IInv => TypeOK
  <2> SUFFICES ASSUME IInv PROVE TypeOK
    OBVIOUS
  <2>1. Live \subseteq Nat
    BY ElementOfSeq DEF IInv, LruInv, Elems
  <2>2. \A h \in Live : sessions[h] \in Session
    BY GoodFacts DEF IInv, SessionsInv
  <2> QED
    BY <2>1, <2>2 DEF IInv, LruInv, NodesInv, RunInv, MirrorInv, TypeOK
<1> QED
  BY <1>1, Invariance, PTL

\* The frozen correctness invariant, for every engine that keeps its contract:
\* the sealed prefix followed by the tail ids is the from-scratch encoding of
\* the whole text, after every sequence of put, append, seal, fork, eviction,
\* materialisation, node corruption and engine failure.
THEOREM StreamExact == Spec => []IdsExact
<1>1. IInv => IdsExact
  <2> SUFFICES ASSUME IInv, NEW h \in Live
               PROVE  AllIds(sessions[h]) = Enc(sessions[h].key, sessions[h].text)
    BY DEF IdsExact
  <2> DEFINE s == sessions[h]
  <2>1. GoodSession(s)
    BY DEF IInv, SessionsInv
  <2> HIDE DEF s
  <2>2. s.key \in Key /\ s.text \in Text /\ s.safe \in 0..Len(s.text) /\ s.tail = Drop(s.text, s.safe)
        /\ s.tailIds = Enc(s.key, s.tail)
    BY <2>1, GoodFacts
  <2>3. Cut(s.key, s.text, s.safe, s.sealed)
    BY <2>1 DEF GoodSession
  <2>4. Enc(s.key, s.text) = s.sealed \o Enc(s.key, Drop(s.text, s.safe))
    BY <2>2, <2>3, CutExact
  <2>5. AllIds(s) = Enc(s.key, s.text)
    BY <2>2, <2>4 DEF AllIds
  <2> QED
    BY <2>5 DEF s
<1> QED
  BY <1>1, Invariance, PTL

\* A node that verifies is safe to continue in any way.
THEOREM NodesSafe == Spec => []NodeCutsSurvive
<1>1. IInv => NodeCutsSurvive
  <2> SUFFICES ASSUME IInv, NEW k \in DOMAIN nodes, nodes[k].valid, NEW d \in Continuations(k[2])
               PROVE  Enc(k[1], k[2] \o d) =
                        Take(Enc(k[1], k[2]), CumEnd(nodes[k])) \o Enc(k[1], nodes[k].tail \o d)
    BY DEF NodeCutsSurvive
  <2>1. GoodNode(k[1], k[2], nodes[k])
    BY DEF IInv, NodesInv
  <2> QED
    BY <2>1 DEF GoodNode, Cut
<1> QED
  BY <1>1, Invariance, PTL

\* The errors that text_range and seal_blocks can only return on a broken
\* internal invariant are never returned.
THEOREM InternalErrorsAbsent == Spec => []NoInternalError
<1>1. IInv => NoInternalError
  <2> SUFFICES ASSUME IInv, pc = "blocks", HasBlock(cur)
               PROVE  /\ cur.safe <= BlockEnd(cur)
                      /\ Len(cur.buf) = Upper(cur.safe - BlocksEnd(cur), 0)
                      /\ cur.chainBase <= Len(cur.sealed)
    BY DEF NoInternalError
  <2>1. GrowingSession(cur, call.old)
    BY DEF IInv, RunInv
  <2>2. cur.safe <= BlockEnd(cur) /\ cur.buf = SubSeq(cur.text, BlocksEnd(cur) + 1, cur.safe)
    BY <2>1, TextRangeReads
  <2>3. cur.chainBase <= Len(cur.sealed)
    BY <2>1 DEF GrowingSession, Chained, HasBlock
  <2>4. cur.text \in Seq(Char) /\ cur.safe \in Nat /\ cur.safe <= Len(cur.text)
        /\ BlocksEnd(cur) \in Nat /\ BlocksEnd(cur) + 1 \in Nat \ {0}
    BY <2>1, GrowingFacts
  <2>5. Len(cur.buf) = IF BlocksEnd(cur) + 1 <= cur.safe
                       THEN cur.safe - (BlocksEnd(cur) + 1) + 1 ELSE 0
    BY <2>2, <2>4, SliceFacts
  <2>6. Len(cur.buf) = Upper(cur.safe - BlocksEnd(cur), 0)
    BY <2>4, <2>5 DEF Upper
  <2> QED
    BY <2>2, <2>3, <2>6
<1> QED
  BY <1>1, Invariance, PTL

\* An uncertified session never seals, through any chain of forks and lookups.
THEOREM UncertifiedStaysUnsealed == Spec => []UncertifiedNeverSeals
<1>1. IInv => UncertifiedNeverSeals
  BY DEF IInv, SessionsInv, GoodSession, Shape, UncertifiedNeverSeals
<1> QED
  BY <1>1, Invariance, PTL

-----------------------------------------------------------------------------
(* What callers rely on: a sealed token is never retracted; and as long as no *)
(* boundary probe fails, the record hash is the hash of the state and a       *)
(* caller that applies patches under the revision check holds the store's     *)
(* stream. Sealing moves tokens from the tail to the prefix and changes no    *)
(* stream, so an append changes its session's stream once, in the engine      *)
(* call, and only behind the tokens it keeps; the patch starts there. A       *)
(* handle is given out once, and a revision of a handle names one stream.     *)

\* Sequence a begins with sequence b.
Begins(a, b) == Len(b) <= Len(a) /\ Take(a, Len(b)) = b

Appending == pc \in {"blocks", "commit"} /\ ~call.put

\* What an append in progress made of its session only adds to the prefix.
Grows(s, t) == Begins(t.sealed, s.sealed) /\ t.safe >= s.safe
GrowthInv == Appending => Grows(sessions[call.h], cur)

\* A shared row of the current generation is the stream.
SnapshotSound(s) == SnapshotIsCurrent(s) => s.snapshot.ids = AllIds(s)
SoundAt(step, s) ==
    /\ step \in {"blocks", "commit"} => SnapshotSound(s)
    /\ step = "walk" => ~s.snapshot.set
SnapshotInv == (\A h \in Live : SnapshotSound(sessions[h])) /\ SoundAt(pc, cur)

\* The record hash is the hash of the session.
Hashed(s) == s.hash = CommitHash(s)
HashInv == \A h \in Live : Hashed(sessions[h])

\* A copy m of the table f in which handles below n were given out.
CopyOf(m, f, n) ==
    m.set => /\ m.h < n
             /\ m.h \in DOMAIN f => m.rev <= f[m.h].revision
             /\ m.h \in DOMAIN f /\ m.rev = f[m.h].revision => m.ids = AllIds(f[m.h])
CopiesInv == \A c \in Client : CopyOf(mirror[c], sessions, nextHandle)

\* Streams a and b agree on their first n tokens.
Agree(a, b, n) == n <= Len(a) /\ n <= Len(b) /\ Take(a, n) = Take(b, n)

\* The append in progress: whose copy it will patch, and from where.
PatchInv ==
    Appending =>
        /\ mirror[call.client].set /\ mirror[call.client].h = call.h
        /\ mirror[call.client].rev = sessions[call.h].revision
        /\ cur.revision = sessions[call.h].revision
        /\ Agree(AllIds(cur), AllIds(sessions[call.h]), ReplaceFrom)

\* What holds whether or not probes fail, and what needs them to succeed.
GInv == IInv /\ GrowthInv /\ SnapshotInv
CInv == GInv /\ ~ProbeMayFail /\ HashInv /\ CopiesInv /\ PatchInv

-----------------------------------------------------------------------------
(* Sequences. *)

LEMMA ConcatAssoc ==
    ASSUME NEW S, NEW s \in Seq(S), NEW t \in Seq(S), NEW u \in Seq(S)
    PROVE  (s \o t) \o u = s \o (t \o u)
BY ConcatAssociative

\* A prefix of a prefix is a prefix.
LEMMA TakeTake ==
    ASSUME NEW S, NEW s \in Seq(S), NEW n \in 0..Len(s), NEW q \in 0..n
    PROVE  Take(Take(s, n), q) = Take(s, q)
<1>1. 1 \in Nat \ {0} /\ n \in Nat /\ q \in Nat /\ n <= Len(s) /\ q <= n
  OBVIOUS
<1> QED
  BY <1>1, SliceOfTake DEF Take

\* A prefix of the first of two sequences.
LEMMA TakeFirst ==
    ASSUME NEW S, NEW s \in Seq(S), NEW t \in Seq(S), NEW n \in 0..Len(s)
    PROVE  Take(s \o t, n) = Take(s, n)
<1>1. 1 \in Nat \ {0} /\ n \in Nat /\ n <= Len(s)
  OBVIOUS
<1> QED
  BY <1>1, SliceOfConcat DEF Take

\* A sequence begins with itself.
LEMMA BeginsRefl == ASSUME NEW S, NEW s \in Seq(S) PROVE Begins(s, s)
BY SubSeqFull DEF Begins, Take

LEMMA BeginsTrans ==
    ASSUME NEW S, NEW a \in Seq(S), NEW b \in Seq(S), NEW c \in Seq(S),
           Begins(a, b), Begins(b, c)
    PROVE  Begins(a, c)
<1>1. Len(b) \in 0..Len(a) /\ Len(c) \in 0..Len(b) /\ Len(c) <= Len(a)
  BY DEF Begins
<1>2. Take(a, Len(b)) = b /\ Take(b, Len(c)) = c
  BY DEF Begins
<1>3. Take(Take(a, Len(b)), Len(c)) = Take(a, Len(c))
  BY <1>1, TakeTake
<1>4. Take(a, Len(c)) = c
  BY <1>2, <1>3
<1> QED
  BY <1>1, <1>4 DEF Begins

LEMMA BeginsConcat ==
    ASSUME NEW S, NEW s \in Seq(S), NEW t \in Seq(S)
    PROVE  Begins(s \o t, s)
<1>1. Len(s \o t) = Len(s) + Len(t) /\ Len(s) \in Nat /\ Len(t) \in Nat
  BY ConcatProperties
<1> QED
  BY <1>1, TakeOfConcat DEF Begins

\* Taking the first two of three sequences.
LEMMA TakePast ==
    ASSUME NEW S, NEW s \in Seq(S), NEW t \in Seq(S), NEW u \in Seq(S)
    PROVE  Take(s \o (t \o u), Len(s) + Len(t)) = s \o t
<1> DEFINE v == s \o t
<1>1. v \o u = s \o (t \o u)
  BY ConcatAssoc
<1>2. v \in Seq(S) /\ Len(v) = Len(s) + Len(t)
  BY ConcatProperties
<1> HIDE DEF v
<1>3. Take(v \o u, Len(v)) = v
  BY <1>2, TakeOfConcat
<1> QED
  BY <1>1, <1>2, <1>3 DEF v

\* Behind a common head the tails agree as far as the sequences do.
LEMMA AgreeBehind ==
    ASSUME NEW S, NEW s \in Seq(S), NEW t \in Seq(S), NEW u \in Seq(S), NEW n \in Nat,
           Agree(t, u, n)
    PROVE  Agree(s \o t, s \o u, Len(s) + n)
<1>1. n \in 0..Len(t) /\ n \in 0..Len(u) /\ Take(t, n) = Take(u, n)
  BY DEF Agree
<1>2. ASSUME NEW v \in Seq(S), n \in 0..Len(v)
      PROVE  Take(s \o v, Len(s) + n) = s \o Take(v, n) /\ Len(s) + n <= Len(s \o v)
  <2>1. /\ Take(v, n) \in Seq(S) /\ Len(Take(v, n)) = n /\ Drop(v, n) \in Seq(S)
        /\ Take(v, n) \o Drop(v, n) = v
    BY <1>2, TakeDrop
  <2>2. Take(s \o (Take(v, n) \o Drop(v, n)), Len(s) + Len(Take(v, n))) = s \o Take(v, n)
    BY <2>1, TakePast
  <2>3. Len(s \o v) = Len(s) + Len(v)
    BY ConcatProperties
  <2> QED
    BY <1>2, <2>1, <2>2, <2>3
<1>3. Take(s \o t, Len(s) + n) = s \o Take(t, n) /\ Len(s) + n <= Len(s \o t)
  BY <1>1, <1>2
<1>4. Take(s \o u, Len(s) + n) = s \o Take(u, n) /\ Len(s) + n <= Len(s \o u)
  BY <1>1, <1>2
<1> QED
  BY <1>1, <1>3, <1>4 DEF Agree

\* A patch from the first token that may differ gives the new stream.
LEMMA PatchGives ==
    ASSUME NEW S, NEW a \in Seq(S), NEW b \in Seq(S), NEW n \in Nat, Agree(b, a, n)
    PROVE  Take(a, Lower(n, Len(a))) \o Drop(b, n) = b
<1>1. n \in 0..Len(b) /\ Lower(n, Len(a)) = n /\ Take(a, n) = Take(b, n)
  BY DEF Agree, Lower
<1>2. Take(b, n) \o Drop(b, n) = b
  BY <1>1, TakeDrop
<1> QED
  BY <1>1, <1>2

-----------------------------------------------------------------------------
(* The steps of a running operation that keep its stream. *)

\* Two states of a session that callers cannot tell apart.
SameCopy(s, t) ==
    /\ t.revision = s.revision /\ t.gen = s.gen /\ t.snapshot = s.snapshot
    /\ AllIds(t) = AllIds(s)
    /\ Grows(s, t)

LEMMA SealedSeq ==
    ASSUME NEW s \in Session
    PROVE  s.sealed \in Seq(Token) /\ s.tailIds \in Seq(Token) /\ AllIds(s) \in Seq(Token)
           /\ s.safe \in Nat
BY SessionFields, AllIdsType

LEMMA GrowsRefl ==
    ASSUME NEW s \in Session, NEW t \in Session, t.sealed = s.sealed, t.safe = s.safe
    PROVE  Grows(s, t)
BY SealedSeq, BeginsRefl DEF Grows

LEMMA GrowsTrans ==
    ASSUME NEW s \in Session, NEW t \in Session, NEW u \in Session, Grows(s, t), Grows(t, u)
    PROVE  Grows(s, u)
<1>1. Begins(u.sealed, s.sealed)
  <2>1. s.sealed \in Seq(Token) /\ t.sealed \in Seq(Token) /\ u.sealed \in Seq(Token)
    BY SealedSeq
  <2>2. Begins(t.sealed, s.sealed) /\ Begins(u.sealed, t.sealed)
    BY DEF Grows
  <2> QED
    BY <2>1, <2>2, BeginsTrans
<1> QED
  BY <1>1, SealedSeq DEF Grows

\* The chain moves, the stream stays.
LEMMA ChainSame ==
    ASSUME NEW s \in Session, NEW z \in Nat
    PROVE  SameCopy(s, Advance(s, z)) /\ SameCopy(s, Detach(s))
<1>1. ASSUME NEW c, NEW b, NEW o, NEW e
      PROVE  SameCopy(s, [s EXCEPT !.chain = c, !.chainBase = b, !.chainOk = o, !.buf = e])
  <2> DEFINE t == [s EXCEPT !.chain = c, !.chainBase = b, !.chainOk = o, !.buf = e]
  <2>1. /\ t.revision = s.revision /\ t.gen = s.gen /\ t.snapshot = s.snapshot
        /\ t.sealed = s.sealed /\ t.tailIds = s.tailIds /\ t.safe = s.safe
    BY DEF Session
  <2> HIDE DEF t
  <2>2. Grows(s, t)
    BY <2>1, SealedSeq, BeginsRefl DEF Grows
  <2>3. AllIds(t) = AllIds(s)
    BY <2>1 DEF AllIds
  <2>4. SameCopy(s, t)
    BY <2>1, <2>2, <2>3 DEF SameCopy
  <2> QED
    BY <2>4 DEF t
<1>2. Advance(s, z) = [s EXCEPT !.chain = BlockPrefix(s), !.chainBase = z,
                                !.chainOk = s.chainOk, !.buf = Drop(s.buf, BlockChars)]
  BY DEF Advance, Session
<1>3. Detach(s) = [s EXCEPT !.chain = s.chain, !.chainBase = s.chainBase,
                            !.chainOk = FALSE, !.buf = <<>>]
  BY DEF Detach, Session
<1>4. SameCopy(s, [s EXCEPT !.chain = BlockPrefix(s), !.chainBase = z,
                           !.chainOk = s.chainOk, !.buf = Drop(s.buf, BlockChars)])
  BY <1>1
<1>5. SameCopy(s, [s EXCEPT !.chain = s.chain, !.chainBase = s.chainBase,
                           !.chainOk = FALSE, !.buf = <<>>])
  BY <1>1
<1> QED
  BY <1>2, <1>3, <1>4, <1>5, Zenon

\* The scan memo moves, the stream stays.
LEMMA ScanSame ==
    ASSUME NEW s \in Session, NEW z
    PROVE  SameCopy(s, [s EXCEPT !.scanFloor = z]) /\ SameCopy(s, s)
<1> DEFINE t == [s EXCEPT !.scanFloor = z]
<1>1. /\ t.revision = s.revision /\ t.gen = s.gen /\ t.snapshot = s.snapshot
      /\ t.sealed = s.sealed /\ t.tailIds = s.tailIds /\ t.safe = s.safe
  BY DEF Session
<1> HIDE DEF t
<1>2. Grows(s, t) /\ Grows(s, s)
  BY <1>1, SealedSeq, BeginsRefl DEF Grows
<1>3. AllIds(t) = AllIds(s)
  BY <1>1 DEF AllIds
<1>4. SameCopy(s, t) /\ SameCopy(s, s)
  BY <1>1, <1>2, <1>3 DEF SameCopy
<1> QED
  BY <1>4 DEF t

\* Sealing moves tokens from the tail to the prefix, the stream stays.
LEMMA SealSame ==
    ASSUME NEW s, GoodSession(s), NEW c \in Candidates(s)
    PROVE  SameCopy(s, SealTail(s, c))
<1> DEFINE i == c[1]
           t == SealTail(s, c)
           a == Take(s.tailIds, i)
           b == Drop(s.tailIds, i)
<1>1. s \in Session /\ s.key \in Key /\ s.tail \in Text /\ s.tailIds = Enc(s.key, s.tail)
      /\ s.sealed \in Seq(Token) /\ s.tailIds \in Seq(Token) /\ s.safe \in Nat
      /\ Len(s.tailIds) \in Nat /\ Len(s.tail) \in Nat
  BY GoodFacts
<1>2. c \in Cuts(s.key, s.tail)
  BY DEF Candidates
<1>3. i \in 0..Len(s.tailIds) /\ c[2] \in Nat
  BY <1>1, <1>2, CutShapeAssumption
<1>4. a \in Seq(Token) /\ b \in Seq(Token) /\ a \o b = s.tailIds
  BY <1>1, <1>3, TakeDrop
<1>5. /\ t.revision = s.revision /\ t.gen = s.gen /\ t.snapshot = s.snapshot
      /\ t.sealed = s.sealed \o a /\ t.tailIds = b /\ t.safe = s.safe + c[2]
  BY <1>1 DEF SealTail, Session
<1> HIDE DEF i, t, a, b
<1>6. AllIds(t) = AllIds(s)
  <2>1. (s.sealed \o a) \o b = s.sealed \o (a \o b)
    <3>1. ASSUME NEW x \in Seq(Token), NEW y \in Seq(Token), NEW z \in Seq(Token)
          PROVE  (x \o y) \o z = x \o (y \o z)
      BY ConcatAssoc
    <3> QED
      BY <1>1, <1>4, <3>1
  <2> QED
    BY <1>4, <1>5, <2>1 DEF AllIds
<1>7. Grows(s, t)
  <2>1. Begins(s.sealed \o a, s.sealed)
    BY <1>1, <1>4, BeginsConcat
  <2>2. s.safe + c[2] >= s.safe
    BY <1>1, <1>3
  <2> QED
    BY <1>5, <2>1, <2>2 DEF Grows
<1>8. SameCopy(s, t)
  BY <1>5, <1>6, <1>7 DEF SameCopy
<1> QED
  BY <1>8 DEF t

\* A step of the block loop or of the seal, between the engine call and the commit.
Working ==
    AdoptNode \/ DetachFromSibling \/ SkipNode \/ WriteNode \/ Seal \/ NoCut

LEMMA WorkingSame ==
    ASSUME IInv, Working
    PROVE  /\ pc = "blocks" /\ pc' \in {"blocks", "commit"}
           /\ UNCHANGED <<sessions, nextHandle, call, mirror>>
           /\ cur \in Session /\ SameCopy(cur, cur')
<1>1. cur \in Session
  BY DEF IInv, RunInv
<1>2. CASE AdoptNode
  <2>1. pc = "blocks" /\ UNCHANGED <<sessions, nextHandle, pc, call, mirror>>
    BY <1>2 DEF AdoptNode, InBlocks
  <2> DEFINE z == CumEnd(nodes[BlockKey(cur)])
  <2>2. cur' = Advance(cur, z)
    BY <1>2 DEF AdoptNode
  <2>3. z \in Nat
    BY <1>2 DEF AdoptNode, IInv, NodesInv, CumEnd, Node
  <2> HIDE DEF z
  <2>4. SameCopy(cur, Advance(cur, z))
    BY <1>1, <2>3, ChainSame
  <2> QED
    BY <1>1, <2>1, <2>2, <2>4
<1>3. CASE DetachFromSibling \/ SkipNode
  <2>1. pc = "blocks" /\ UNCHANGED <<sessions, nextHandle, pc, call, mirror>> /\ cur' = Detach(cur)
    BY <1>3 DEF DetachFromSibling, SkipNode, InBlocks
  <2>2. SameCopy(cur, Detach(cur))
    BY <1>1, ChainSame
  <2> QED
    BY <1>1, <2>1, <2>2
<1>4. CASE WriteNode
  <2>1. pc = "blocks" /\ UNCHANGED <<sessions, nextHandle, pc, call, mirror>>
        /\ cur' = Advance(cur, Len(cur.sealed))
    BY <1>4 DEF WriteNode, InBlocks
  <2>2. Len(cur.sealed) \in Nat
    BY <1>1, SealedSeq
  <2>3. SameCopy(cur, Advance(cur, Len(cur.sealed)))
    BY <1>1, <2>2, ChainSame
  <2> QED
    BY <1>1, <2>1, <2>3
<1>5. CASE Seal
  <2>1. pc = "blocks" /\ pc' = "commit" /\ UNCHANGED <<sessions, nextHandle, call, mirror>>
    BY <1>5 DEF Seal, AtSeal
  <2>2. GoodSession(cur)
    BY <1>5, SettledGood DEF IInv, RunInv, Seal, AtSeal
  <2>3. PICK c \in Candidates(cur) : cur' = SealTail(cur, c)
    BY <1>5 DEF Seal
  <2>4. SameCopy(cur, SealTail(cur, c))
    BY <2>2, SealSame
  <2> QED
    BY <1>1, <2>1, <2>3, <2>4
<1>6. CASE NoCut
  <2>1. pc = "blocks" /\ pc' = "commit" /\ UNCHANGED <<sessions, nextHandle, call, mirror>>
    BY <1>6 DEF NoCut, AtSeal
  <2>2. cur' = cur \/ cur' = [cur EXCEPT !.scanFloor = SealCeil(cur)]
    BY <1>6 DEF NoCut
  <2>3. SameCopy(cur, [cur EXCEPT !.scanFloor = SealCeil(cur)]) /\ SameCopy(cur, cur)
    BY <1>1, ScanSame
  <2> QED
    BY <1>1, <2>1, <2>2, <2>3
<1> QED
  BY <1>2, <1>3, <1>4, <1>5, <1>6 DEF Working

-----------------------------------------------------------------------------
(* What the actions do to the table, and to the fields callers see. *)

\* No session that stays in the table changes.
Quiet ==
    /\ nextHandle' = nextHandle
    /\ \A x \in DOMAIN sessions' : x \in Live /\ sessions'[x] = sessions[x]

\* A session s enters the table under a new handle.
Inserted(s) ==
    /\ nextHandle \in Nat /\ nextHandle' = nextHandle + 1 /\ nextHandle \notin Live
    /\ nextHandle \in DOMAIN sessions' /\ sessions'[nextHandle] = s
    /\ \A x \in DOMAIN sessions' :
          x # nextHandle => x \in Live /\ sessions'[x] = sessions[x]

\* The session of handle h becomes s.
Rewritten(h, s) ==
    /\ nextHandle' = nextHandle
    /\ h \in Live /\ DOMAIN sessions' = Live
    /\ \A x \in Live : sessions'[x] = IF x = h THEN s ELSE sessions[x]

LEMMA InsertedTable ==
    ASSUME LruInv, NEW q, Elems(q) \subseteq Live, NEW s, InsertSession(q, s)
    PROVE  Inserted(s)
<1>1. sessions' = [y \in (Live \cap Elems(q)) \cup {nextHandle} |->
                     IF y = nextHandle THEN s ELSE Survivors(q)[y]]
  BY DEF InsertSession, Extended, Survivors
<1>2. nextHandle' = nextHandle + 1
  BY DEF InsertSession
<1>3. nextHandle \in Nat /\ nextHandle \notin Live
  BY DEF LruInv
<1>4. nextHandle \in DOMAIN sessions' /\ sessions'[nextHandle] = s
  BY <1>1
<1>5. ASSUME NEW x \in DOMAIN sessions', x # nextHandle
      PROVE  x \in Live /\ sessions'[x] = sessions[x]
  <2>1. x \in Live \cap Elems(q)
    BY <1>1, <1>5
  <2> QED
    BY <1>1, <1>5, <2>1 DEF Survivors
<1> QED
  BY <1>2, <1>3, <1>4, <1>5 DEF Inserted

LEMMA RewrittenTable ==
    ASSUME NEW h \in Live, NEW s, sessions' = [sessions EXCEPT ![h] = s],
           nextHandle' = nextHandle
    PROVE  Rewritten(h, s)
BY DEF Rewritten, Live

\* The commit changes the record hash only.
LEMMA CommittedFields ==
    ASSUME NEW s \in Session
    PROVE  /\ Committed(s).revision = s.revision /\ Committed(s).gen = s.gen
           /\ Committed(s).snapshot = s.snapshot /\ Committed(s).sealed = s.sealed
           /\ Committed(s).safe = s.safe /\ AllIds(Committed(s)) = AllIds(s)
           /\ Hashed(Committed(s))
<1> DEFINE z == CommitHash(s)
           t == [s EXCEPT !.hash = z]
<1>1. /\ t.revision = s.revision /\ t.gen = s.gen /\ t.snapshot = s.snapshot
      /\ t.sealed = s.sealed /\ t.safe = s.safe /\ t.tailIds = s.tailIds
      /\ t.payload = s.payload /\ t.tail = s.tail /\ t.witness = s.witness
      /\ t.replaceFrom = s.replaceFrom /\ t.hash = z
      /\ t.key = s.key /\ t.prev = s.prev
  BY DEF Session
<1> HIDE DEF t
<1>2. CommitHash(t) = z
  BY <1>1 DEF CommitHash, Link, z
<1>3. AllIds(t) = AllIds(s)
  BY <1>1 DEF AllIds
<1>4. Hashed(t)
  BY <1>1, <1>2 DEF Hashed
<1> QED
  BY <1>1, <1>3, <1>4 DEF Committed, t, z

\* A new generation.
LEMMA BumpedFields ==
    ASSUME NEW s \in Session
    PROVE  LET t == BumpGeneration(s) IN
           /\ t.revision = s.revision /\ ~t.snapshot.set /\ t.hash = s.hash
           /\ t.sealed = s.sealed /\ t.safe = s.safe /\ AllIds(t) = AllIds(s)
           /\ CommitHash(t) = CommitHash(s)
<1> DEFINE t == BumpGeneration(s)
<1>1. /\ t.revision = s.revision /\ t.snapshot = NoSnapshot /\ t.hash = s.hash
      /\ t.sealed = s.sealed /\ t.safe = s.safe /\ t.tailIds = s.tailIds
      /\ t.payload = s.payload /\ t.tail = s.tail /\ t.witness = s.witness
      /\ t.replaceFrom = s.replaceFrom /\ t.key = s.key /\ t.prev = s.prev
  BY DEF BumpGeneration, Session
<1> HIDE DEF t
<1>2. CommitHash(t) = CommitHash(s) /\ AllIds(t) = AllIds(s) /\ ~t.snapshot.set
  BY <1>1 DEF CommitHash, Link, AllIds, NoSnapshot
<1> QED
  BY <1>1, <1>2 DEF t

\* Growth by the engine call.
LEMMA GrownFields ==
    ASSUME NEW s \in Session, NEW d
    PROVE  LET t == GrownBy(s, d) IN
           /\ t.revision = s.revision /\ ~t.snapshot.set
           /\ t.sealed = s.sealed /\ t.safe = s.safe
           /\ t.tailIds = Enc(s.key, s.tail \o d)
BY DEF GrownBy, BumpGeneration, NoSnapshot, Session

\* The session of a live handle has its type.
LEMMA LiveSession ==
    ASSUME IInv, NEW h \in Live
    PROVE  GoodSession(sessions[h]) /\ sessions[h] \in Session
BY GoodFacts DEF IInv, SessionsInv

\* A session that shows the same row in the same generation is as sound.
LEMMA SoundSame ==
    ASSUME NEW s, NEW t, SnapshotSound(s), t.gen = s.gen, t.snapshot = s.snapshot,
           AllIds(t) = AllIds(s)
    PROVE  SnapshotSound(t)
BY DEF SnapshotSound, SnapshotIsCurrent

-----------------------------------------------------------------------------
(* The actions by their effect on the table. *)

Beginning(c, h) ==
    \/ AppendNoop(c, h)
    \/ \E d \in Deltas(sessions[h]) : AppendDegraded(c, h, d)
    \/ \E d \in Deltas(sessions[h]) : AppendRepair(c, h, d)

\* The steps that touch neither a session in the table nor a client's copy.
Aside ==
    \/ \E k \in Key, w \in Witness, t \in Puts : Put(k, w, t)
    \/ PutEngineFails
    \/ \E k \in Key, w \in Witness, q \in Inputs : Lookup(k, w, q)
    \/ Walk
    \/ \E h \in Live : Evict(h)
    \/ \E k \in DOMAIN nodes : CorruptNode(k)
    \/ UNCHANGED vars

LEMMA AsideQuiet ==
    ASSUME Aside PROVE Quiet /\ mirror' = mirror
<1>1. CASE \E k \in Key, w \in Witness, t \in Puts : Put(k, w, t)
  BY <1>1 DEF Put, Survivors, Quiet
<1>2. CASE PutEngineFails
  BY <1>2 DEF PutEngineFails, Survivors, Quiet
<1>3. CASE \E k \in Key, w \in Witness, q \in Inputs : Lookup(k, w, q)
  BY <1>3 DEF Lookup, Quiet, Live
<1>4. CASE Walk
  BY <1>4 DEF Walk, Quiet, Live
<1>5. CASE \E h \in Live : Evict(h)
  BY <1>5 DEF Evict, Quiet
<1>6. CASE \E k \in DOMAIN nodes : CorruptNode(k)
  BY <1>6 DEF CorruptNode, Quiet, Live
<1>7. CASE UNCHANGED vars
  BY <1>7 DEF vars, Quiet, Live
<1> QED
  BY <1>1, <1>2, <1>3, <1>4, <1>5, <1>6, <1>7 DEF Aside

LEMMA WorkingQuiet ==
    ASSUME IInv, Working PROVE Quiet /\ mirror' = mirror
BY WorkingSame DEF Quiet, Live

LEMMA BeginningFacts ==
    ASSUME NEW c \in Client, NEW h \in Live, Beginning(c, h)
    PROVE  /\ Quiet /\ mirror' = mirror /\ sessions' = sessions
           /\ mirror[c].set /\ mirror[c].h = h /\ mirror[c].rev = sessions[h].revision
           /\ pc' \in {"blocks", "commit"} /\ call'.put = FALSE
           /\ call'.client = c /\ call'.h = h
           /\ call'.oldSealed = Len(sessions[h].sealed)
<1>1. \E kept : BeginAppend(c, h, kept)
  BY DEF Beginning, AppendNoop, AppendDegraded, AppendRepair
<1>2. MayAppend(c, h) /\ pc' \in {"blocks", "commit"}
  BY DEF Beginning, AppendNoop, AppendDegraded, AppendRepair
<1>3. PICK kept : BeginAppend(c, h, kept)
  BY <1>1
<1>4. sessions' = sessions /\ nextHandle' = nextHandle /\ mirror' = mirror
  BY <1>3 DEF BeginAppend
<1>5. call' = [NoCall EXCEPT !.client = c, !.put = FALSE, !.h = h,
                            !.old = Len(sessions[h].text),
                            !.oldSealed = Len(sessions[h].sealed), !.kept = kept]
  BY <1>3 DEF BeginAppend
<1>6. call'.put = FALSE /\ call'.client = c /\ call'.h = h
      /\ call'.oldSealed = Len(sessions[h].sealed)
  BY <1>5 DEF NoCall
<1> QED
  BY <1>2, <1>4, <1>6 DEF MayAppend, Quiet, Live

\* Every step is one of these.
LEMMA NextKinds ==
    ASSUME [Next]_vars
    PROVE  \/ Aside \/ Working \/ ProbeFails
           \/ CommitPut \/ CommitAppend \/ LookupHit
           \/ \E h \in Live : Fork(h)
           \/ \E c \in Client, h \in Live :
                \/ Beginning(c, h) \/ AppendEngineFails(c, h)
                \/ ReadAllIds(c, h) \/ ReadShared(c, h)
BY DEF Next, Continue, Aside, Working, Beginning

\* The steps that insert a session.
LEMMA InsertingFacts ==
    ASSUME IInv
    PROVE  /\ CommitPut => Inserted(Committed(cur)) /\ mirror' = mirror /\ pc' = "idle"
           /\ LookupHit => Inserted(Committed(cur)) /\ mirror' = mirror /\ pc' = "idle"
           /\ \A h \in Live : Fork(h) =>
                 /\ Inserted(Committed(Genesis(sessions[h])))
                 /\ mirror' = mirror /\ pc' = "idle"
<1>1. LruInv
  BY DEF IInv
<1>2. ASSUME CommitPut
      PROVE  Inserted(Committed(cur)) /\ mirror' = mirror /\ pc' = "idle"
  <2>1. InsertSession(lru, Committed(cur)) /\ mirror' = mirror /\ pc' = "idle"
    BY <1>2 DEF CommitPut, Return
  <2>2. Elems(lru) \subseteq Live
    BY <1>1 DEF LruInv
  <2> QED
    BY <1>1, <2>1, <2>2, InsertedTable
<1>3. ASSUME LookupHit
      PROVE  Inserted(Committed(cur)) /\ mirror' = mirror /\ pc' = "idle"
  <2>1. InsertSession(FreeSlot(lru), Committed(cur)) /\ mirror' = mirror /\ pc' = "idle"
    BY <1>3 DEF LookupHit, Return
  <2>2. Elems(FreeSlot(lru)) \subseteq Live
    BY <1>1, FreeSlotOrder DEF LruInv
  <2> QED
    BY <1>1, <2>1, <2>2, InsertedTable
<1>4. ASSUME NEW h \in Live, Fork(h)
      PROVE  /\ Inserted(Committed(Genesis(sessions[h])))
             /\ mirror' = mirror /\ pc' = "idle"
  <2> DEFINE s == Committed(Genesis(sessions[h]))
             q == Touch(lru, h)
  <2>1. InsertSession(FreeSlot(q), s) /\ mirror' = mirror /\ pc' = "idle"
    BY <1>4 DEF Fork
  <2>2. q \in Seq(Nat) /\ Distinct(q) /\ Elems(q) = Live
    BY <1>1, TouchOrder DEF LruInv
  <2> HIDE DEF q, s
  <2>3. Elems(FreeSlot(q)) \subseteq Live
    BY <2>2, FreeSlotOrder
  <2>4. Inserted(s)
    BY <1>1, <2>1, <2>3, InsertedTable
  <2> QED
    BY <2>1, <2>4 DEF s
<1> QED
  BY <1>2, <1>3, <1>4

\* The row shared_all_ids leaves in the cache of a session.
Shared(s) ==
    [s EXCEPT !.snapshot = [gen |-> s.gen, ids |-> SharedRow(s), set |-> TRUE]]

\* A copy of the stream ids of the live session h.
Read(h, ids) == [h |-> h, rev |-> sessions[h].revision, ids |-> ids, set |-> TRUE]

\* The steps that change a session of the table.
LEMMA RewritingFacts ==
    ASSUME IInv
    PROVE  /\ ProbeFails => /\ IF call.put THEN Quiet ELSE Rewritten(call.h, cur)
                            /\ mirror' = mirror /\ pc' = "idle" /\ pc = "blocks"
           /\ CommitAppend =>
                 /\ Rewritten(call.h, Committed(NextRevision(cur)))
                 /\ mirror' = [mirror EXCEPT ![call.client] = Patched(mirror[call.client])]
                 /\ pc' = "idle" /\ pc = "commit" /\ ~call.put
           /\ \A c \in Client, h \in Live :
                 /\ AppendEngineFails(c, h) =>
                       /\ Rewritten(h, BumpGeneration(sessions[h]))
                       /\ mirror' = mirror /\ pc' = "idle"
                 /\ ReadShared(c, h) =>
                       /\ Rewritten(h, Shared(sessions[h]))
                       /\ mirror' = [mirror EXCEPT ![c] = Read(h, SharedRow(sessions[h]))]
                       /\ pc' = "idle"
                 /\ ReadAllIds(c, h) =>
                       /\ Quiet /\ sessions' = sessions
                       /\ mirror' = [mirror EXCEPT ![c] = Read(h, AllIds(sessions[h]))]
                       /\ pc' = "idle"
<1>1. ASSUME ProbeFails
      PROVE  /\ IF call.put THEN Quiet ELSE Rewritten(call.h, cur)
             /\ mirror' = mirror /\ pc' = "idle" /\ pc = "blocks"
  <2>1. mirror' = mirror /\ pc' = "idle" /\ pc = "blocks" /\ nextHandle' = nextHandle
    BY <1>1 DEF ProbeFails, Return, AtSeal
  <2>2. CASE call.put
    <3>1. sessions' = sessions
      BY <1>1, <2>2 DEF ProbeFails
    <3> QED
      BY <2>1, <2>2, <3>1 DEF Quiet, Live
  <2>3. CASE ~call.put
    <3>1. sessions' = [sessions EXCEPT ![call.h] = cur] /\ call.h \in Live
      BY <1>1, <2>1, <2>3 DEF ProbeFails, IInv, RunInv
    <3> QED
      BY <2>1, <2>3, <3>1, RewrittenTable
  <2> QED
    BY <2>2, <2>3
<1>2. ASSUME CommitAppend
      PROVE  /\ Rewritten(call.h, Committed(NextRevision(cur)))
             /\ mirror' = [mirror EXCEPT ![call.client] = Patched(mirror[call.client])]
             /\ pc' = "idle" /\ pc = "commit" /\ ~call.put
  <2>1. sessions' = [sessions EXCEPT ![call.h] = Committed(NextRevision(cur))]
        /\ mirror' = [mirror EXCEPT ![call.client] = Patched(mirror[call.client])]
        /\ pc' = "idle" /\ pc = "commit" /\ ~call.put /\ nextHandle' = nextHandle
    BY <1>2 DEF CommitAppend, Return
  <2>2. call.h \in Live
    BY <2>1 DEF IInv, RunInv
  <2> QED
    BY <2>1, <2>2, RewrittenTable
<1>3. ASSUME NEW c \in Client, NEW h \in Live, AppendEngineFails(c, h)
      PROVE  /\ Rewritten(h, BumpGeneration(sessions[h])) /\ mirror' = mirror /\ pc' = "idle"
  <2>1. sessions' = [sessions EXCEPT ![h] = BumpGeneration(sessions[h])]
        /\ mirror' = mirror /\ pc' = "idle" /\ nextHandle' = nextHandle
    BY <1>3 DEF AppendEngineFails, MayAppend
  <2> QED
    BY <2>1, RewrittenTable
<1>4. ASSUME NEW c \in Client, NEW h \in Live, ReadShared(c, h)
      PROVE  /\ Rewritten(h, Shared(sessions[h]))
             /\ mirror' = [mirror EXCEPT ![c] = Read(h, SharedRow(sessions[h]))]
             /\ pc' = "idle"
  <2>1. sessions' = [sessions EXCEPT ![h] = Shared(sessions[h])]
        /\ mirror' = [mirror EXCEPT ![c] = Read(h, SharedRow(sessions[h]))]
        /\ pc' = "idle" /\ nextHandle' = nextHandle
    BY <1>4 DEF ReadShared, Shared, Observe, Read
  <2> QED
    BY <2>1, RewrittenTable
<1>5. ASSUME NEW c \in Client, NEW h \in Live, ReadAllIds(c, h)
      PROVE  /\ Quiet /\ sessions' = sessions
             /\ mirror' = [mirror EXCEPT ![c] = Read(h, AllIds(sessions[h]))]
             /\ pc' = "idle"
  BY <1>5 DEF ReadAllIds, Observe, Read, Quiet, Live
<1> QED
  BY <1>1, <1>2, <1>3, <1>4, <1>5

-----------------------------------------------------------------------------
(* The sealed prefix. *)

\* The steps on the side begin no append.
LEMMA AsideAppends ==
    ASSUME Aside, Appending'
    PROVE  UNCHANGED vars
<1>1. pc' \in {"blocks", "commit"} /\ ~call'.put
  BY DEF Appending
<1>2. ASSUME NEW k \in Key, NEW w \in Witness, NEW t \in Puts, Put(k, w, t) PROVE FALSE
  BY <1>1, <1>2 DEF Put, NoCall
<1>3. ASSUME PutEngineFails PROVE FALSE
  BY <1>1, <1>3 DEF PutEngineFails
<1>4. ASSUME NEW k \in Key, NEW w \in Witness, NEW q \in Inputs, Lookup(k, w, q) PROVE FALSE
  BY <1>1, <1>4 DEF Lookup
<1>5. ASSUME Walk PROVE FALSE
  BY <1>1, <1>5 DEF Walk
<1>6. ASSUME NEW h \in Live, Evict(h) PROVE FALSE
  BY <1>1, <1>6 DEF Evict
<1>7. ASSUME NEW k \in DOMAIN nodes, CorruptNode(k) PROVE FALSE
  BY <1>1, <1>7 DEF CorruptNode
<1> QED
  BY <1>2, <1>3, <1>4, <1>5, <1>6, <1>7 DEF Aside

\* Only a step on the side, a working step or a beginning leaves an append running.
LEMMA AppendingKinds ==
    ASSUME IInv, [Next]_vars, Appending'
    PROVE  \/ UNCHANGED vars \/ Working
           \/ \E c \in Client, h \in Live : Beginning(c, h)
<1>1. pc' # "idle"
  BY DEF Appending
<1> QED
  BY <1>1, NextKinds, AsideAppends, RewritingFacts, InsertingFacts

LEMMA GrowthStep ==
    ASSUME IInv, IInv', GrowthInv, [Next]_vars
    PROVE  GrowthInv'
<1> SUFFICES ASSUME Appending' PROVE Grows(sessions'[call'.h], cur')
  BY DEF GrowthInv
<1>1. cur \in Session /\ cur' \in Session
  BY DEF IInv, RunInv
<1>2. CASE UNCHANGED vars
  BY <1>2 DEF vars, GrowthInv, Appending
<1>3. CASE Working
  <2>1. Appending /\ sessions' = sessions /\ call' = call /\ Grows(cur, cur')
    BY <1>3, WorkingSame DEF Appending, SameCopy
  <2>2. call.h \in Live /\ Grows(sessions[call.h], cur)
    BY <2>1 DEF GrowthInv, Appending, IInv, RunInv
  <2>3. sessions[call.h] \in Session
    BY <2>2, LiveSession
  <2>4. Grows(sessions[call.h], cur')
    BY <1>1, <2>1, <2>2, <2>3, GrowsTrans
  <2> QED
    BY <2>1, <2>4
<1>4. ASSUME NEW c \in Client, NEW h \in Live, Beginning(c, h)
      PROVE  Grows(sessions'[call'.h], cur')
  <2>1. sessions' = sessions /\ call'.h = h
    BY <1>4, BeginningFacts
  <2>2. sessions[h] \in Session
    BY LiveSession
  <2>3. cur'.sealed = sessions[h].sealed /\ cur'.safe = sessions[h].safe
    BY <1>4, <2>2, GrownFields DEF Beginning, AppendNoop, AppendDegraded, AppendRepair
  <2>4. Grows(sessions[h], cur')
    BY <1>1, <2>2, <2>3, GrowsRefl
  <2> QED
    BY <2>1, <2>4
<1> QED
  BY <1>2, <1>3, <1>4, AppendingKinds

\* No step takes a sealed token or a sealed character back.
LEMMA PrefixStep ==
    ASSUME IInv, GrowthInv, [Next]_vars, NEW x \in Live, x \in DOMAIN sessions'
    PROVE  Grows(sessions[x], sessions'[x])
<1>1. sessions[x] \in Session /\ cur \in Session
  BY LiveSession DEF IInv, RunInv
<1>2. sessions'[x] = sessions[x] => Grows(sessions[x], sessions'[x])
  BY <1>1, GrowsRefl
<1>3. Quiet => Grows(sessions[x], sessions'[x])
  BY <1>2 DEF Quiet
<1>4. ASSUME NEW s, Inserted(s) PROVE Grows(sessions[x], sessions'[x])
  BY <1>2, <1>4 DEF Inserted
<1>5. ASSUME NEW h \in Live, NEW s, Rewritten(h, s), Grows(sessions[h], s)
      PROVE  Grows(sessions[x], sessions'[x])
  BY <1>2, <1>5 DEF Rewritten
<1>6. CASE Aside \/ Working
  BY <1>3, <1>6, AsideQuiet, WorkingQuiet
<1>7. CASE ProbeFails
  <2>1. CASE call.put
    BY <1>3, <1>7, <2>1, RewritingFacts
  <2>2. CASE ~call.put
    <3>1. Rewritten(call.h, cur) /\ Appending
      BY <1>7, <2>2, RewritingFacts DEF Appending
    <3>2. call.h \in Live /\ Grows(sessions[call.h], cur)
      BY <3>1 DEF GrowthInv, Rewritten
    <3> QED
      BY <1>5, <3>1, <3>2
  <2> QED
    BY <2>1, <2>2
<1>8. CASE CommitAppend
  <2> DEFINE r == cur.revision + 1
             f == ReplaceFrom
             t == [cur EXCEPT !.revision = r, !.replaceFrom = f, !.prev = cur.hash]
  <2>1. Rewritten(call.h, Committed(NextRevision(cur))) /\ Appending
    BY <1>8, RewritingFacts DEF Appending
  <2>2. call.h \in Live /\ Grows(sessions[call.h], cur)
    BY <2>1 DEF GrowthInv, Rewritten
  <2>3. NextRevision(cur) = t
    BY <1>1 DEF NextRevision, Session
  <2>4. t.sealed = cur.sealed /\ t.safe = cur.safe /\ t \in Session
    <3>1. r \in Nat /\ f \in Nat
      BY <1>1, SessionFields DEF ReplaceFrom, IInv, RunInv, Call
    <3> HIDE DEF r, f
    <3> QED
      BY <1>1, <3>1 DEF Session
  <2> HIDE DEF t
  <2>5. Committed(t).sealed = cur.sealed /\ Committed(t).safe = cur.safe
    BY <2>4, CommittedFields
  <2>6. Grows(sessions[call.h], Committed(t))
    BY <2>2, <2>5 DEF Grows
  <2> QED
    BY <1>5, <2>1, <2>2, <2>3, <2>6
<1>9. CASE CommitPut \/ LookupHit \/ \E h \in Live : Fork(h)
  BY <1>4, <1>9, InsertingFacts
<1>10. ASSUME NEW c \in Client, NEW h \in Live,
              Beginning(c, h) \/ AppendEngineFails(c, h) \/ ReadAllIds(c, h) \/ ReadShared(c, h)
       PROVE  Grows(sessions[x], sessions'[x])
  <2>1. sessions[h] \in Session
    BY LiveSession
  <2>2. CASE Beginning(c, h) \/ ReadAllIds(c, h)
    BY <1>3, <2>2, BeginningFacts, RewritingFacts
  <2>3. CASE AppendEngineFails(c, h)
    <3>1. Rewritten(h, BumpGeneration(sessions[h]))
      BY <2>3, RewritingFacts
    <3>2. Grows(sessions[h], BumpGeneration(sessions[h]))
      BY <2>1, BumpedFields, SealedSeq, BeginsRefl DEF Grows
    <3> QED
      BY <1>5, <3>1, <3>2
  <2>4. CASE ReadShared(c, h)
    <3>1. Rewritten(h, Shared(sessions[h]))
      BY <2>4, RewritingFacts
    <3>2. Shared(sessions[h]).sealed = sessions[h].sealed
          /\ Shared(sessions[h]).safe = sessions[h].safe
      BY <2>1 DEF Shared, Session
    <3>3. Grows(sessions[h], Shared(sessions[h]))
      BY <2>1, <3>2, SealedSeq, BeginsRefl DEF Grows
    <3> QED
      BY <1>5, <3>1, <3>3
  <2> QED
    BY <1>10, <2>2, <2>3, <2>4
<1> QED
  BY <1>6, <1>7, <1>8, <1>9, <1>10, NextKinds

-----------------------------------------------------------------------------
(* The shared row. *)

LEMMA SharedFields ==
    ASSUME NEW s \in Session, SnapshotSound(s)
    PROVE  /\ SharedRow(s) = AllIds(s)
           /\ Shared(s).revision = s.revision /\ AllIds(Shared(s)) = AllIds(s)
           /\ Shared(s).hash = s.hash /\ CommitHash(Shared(s)) = CommitHash(s)
           /\ SnapshotSound(Shared(s))
<1> DEFINE z == [gen |-> s.gen, ids |-> SharedRow(s), set |-> TRUE]
           t == [s EXCEPT !.snapshot = z]
<1>1. SharedRow(s) = AllIds(s)
  BY DEF SharedRow, SnapshotSound
<1>2. z.ids = SharedRow(s)
  OBVIOUS
<1> HIDE DEF z
<1>3. /\ t.revision = s.revision /\ t.gen = s.gen /\ t.hash = s.hash
      /\ t.sealed = s.sealed /\ t.safe = s.safe /\ t.tailIds = s.tailIds
      /\ t.payload = s.payload /\ t.tail = s.tail /\ t.witness = s.witness
      /\ t.replaceFrom = s.replaceFrom /\ t.snapshot = z
      /\ t.key = s.key /\ t.prev = s.prev
  BY DEF Session
<1> HIDE DEF t
<1>4. CommitHash(t) = CommitHash(s) /\ AllIds(t) = AllIds(s)
  BY <1>3 DEF CommitHash, Link, AllIds
<1>5. SnapshotSound(t)
  BY <1>1, <1>2, <1>3, <1>4 DEF SnapshotSound
<1>6. Shared(s) = t
  BY DEF Shared, t, z
<1> QED
  BY <1>1, <1>3, <1>4, <1>5, <1>6

LEMMA RevisionFields ==
    ASSUME cur \in Session
    PROVE  /\ NextRevision(cur).revision = cur.revision + 1
           /\ NextRevision(cur).gen = cur.gen /\ NextRevision(cur).snapshot = cur.snapshot
           /\ AllIds(NextRevision(cur)) = AllIds(cur)
<1> DEFINE r == cur.revision + 1
<1>1. NextRevision(cur) = [cur EXCEPT !.revision = r, !.replaceFrom = ReplaceFrom, !.prev = cur.hash]
  BY DEF NextRevision, Session
<1> HIDE DEF r
<1> DEFINE t == [cur EXCEPT !.revision = r, !.replaceFrom = ReplaceFrom, !.prev = cur.hash]
<1>2. /\ t.revision = r /\ t.gen = cur.gen /\ t.snapshot = cur.snapshot
      /\ AllIds(t) = AllIds(cur)
  BY DEF Session, AllIds
<1> QED
  BY <1>1, <1>2 DEF r

\* What a commit writes is a session with the stream of cur, and sound if cur is.
LEMMA CommittedNext ==
    ASSUME cur \in Session, call \in Call
    PROVE  LET t == Committed(NextRevision(cur)) IN
           /\ t.revision = cur.revision + 1 /\ AllIds(t) = AllIds(cur) /\ Hashed(t)
           /\ SnapshotSound(cur) => SnapshotSound(t)
<1> DEFINE r == cur.revision + 1
           f == ReplaceFrom
           t == NextRevision(cur)
<1>1. t = [cur EXCEPT !.revision = r, !.replaceFrom = f, !.prev = cur.hash]
  BY DEF NextRevision, Session
<1>2. r \in Nat /\ f \in Nat
  BY SessionFields DEF ReplaceFrom, Call
<1>3. t \in Session
  <2> HIDE DEF r, f, t
  <2> QED
    BY <1>1, <1>2 DEF Session
<1>4. t.revision = cur.revision + 1 /\ t.gen = cur.gen /\ t.snapshot = cur.snapshot
      /\ AllIds(t) = AllIds(cur)
  BY RevisionFields
<1> HIDE DEF t
<1>5. /\ Committed(t).revision = t.revision /\ Committed(t).gen = t.gen
      /\ Committed(t).snapshot = t.snapshot /\ AllIds(Committed(t)) = AllIds(t)
      /\ Hashed(Committed(t))
  BY <1>3, CommittedFields
<1>6. SnapshotSound(cur) => SnapshotSound(Committed(t))
  BY <1>4, <1>5, SoundSame
<1> QED
  BY <1>4, <1>5, <1>6 DEF t

\* The session a fork inserts.
LEMMA ForkedFields ==
    ASSUME NEW s, GoodSession(s)
    PROVE  LET t == Committed(Genesis(s)) IN
           /\ Hashed(t)
           /\ SnapshotSound(s) => SnapshotSound(t)
<1> DEFINE t == Genesis(s)
<1>1. s \in Session
  BY GoodFacts
<1>2. t \in Session /\ t.gen = s.gen /\ t.snapshot = s.snapshot /\ AllIds(t) = AllIds(s)
  <2>1. GoodSession(t)
    BY GenesisGood
  <2>2. t.gen = s.gen /\ t.snapshot = s.snapshot /\ AllIds(t) = AllIds(s)
    BY <1>1 DEF Session, AllIds, Genesis
  <2> HIDE DEF t
  <2> QED
    BY <2>1, <2>2, GoodFacts
<1> HIDE DEF t
<1>3. /\ Committed(t).gen = t.gen /\ Committed(t).snapshot = t.snapshot
      /\ AllIds(Committed(t)) = AllIds(t) /\ Hashed(Committed(t))
  BY <1>2, CommittedFields
<1>4. SnapshotSound(s) => SnapshotSound(Committed(t))
  BY <1>2, <1>3, SoundSame
<1> QED
  BY <1>3, <1>4 DEF t

\* The table keeps its rows.
LEMMA SnapshotTable ==
    ASSUME IInv, SnapshotInv, [Next]_vars
    PROVE  \A x \in DOMAIN sessions' : SnapshotSound(sessions'[x])
<1>1. \A x \in Live : SnapshotSound(sessions[x])
  BY DEF SnapshotInv
<1>2. cur \in Session /\ call \in Call
  BY DEF IInv, RunInv
<1>3. Quiet => \A x \in DOMAIN sessions' : SnapshotSound(sessions'[x])
  BY <1>1 DEF Quiet
<1>4. ASSUME NEW s, Inserted(s), SnapshotSound(s)
      PROVE  \A x \in DOMAIN sessions' : SnapshotSound(sessions'[x])
  BY <1>1, <1>4 DEF Inserted
<1>5. ASSUME NEW h, NEW s, Rewritten(h, s), SnapshotSound(s)
      PROVE  \A x \in DOMAIN sessions' : SnapshotSound(sessions'[x])
  BY <1>1, <1>5 DEF Rewritten
<1>6. CASE Aside \/ Working
  BY <1>3, <1>6, AsideQuiet, WorkingQuiet
<1>7. CASE ProbeFails
  <2>1. SnapshotSound(cur)
    BY <1>7, RewritingFacts DEF SnapshotInv, SoundAt
  <2>2. IF call.put THEN Quiet ELSE Rewritten(call.h, cur)
    BY <1>7, RewritingFacts
  <2> QED
    BY <1>3, <1>5, <2>1, <2>2
<1>8. CASE CommitAppend
  <2>1. SnapshotSound(cur) /\ Rewritten(call.h, Committed(NextRevision(cur)))
    BY <1>8, RewritingFacts DEF SnapshotInv, SoundAt
  <2>2. SnapshotSound(Committed(NextRevision(cur)))
    BY <1>2, <2>1, CommittedNext
  <2> QED
    BY <1>5, <2>1, <2>2
<1>9. CASE CommitPut \/ LookupHit
  <2>1. Inserted(Committed(cur))
    BY <1>9, InsertingFacts
  <2>2. SnapshotSound(cur)
    BY <1>9 DEF SnapshotInv, SoundAt, CommitPut, LookupHit, SnapshotSound, SnapshotIsCurrent
  <2>3. SnapshotSound(Committed(cur))
    BY <1>2, <2>2, CommittedFields, SoundSame
  <2> QED
    BY <1>4, <2>1, <2>3
<1>10. ASSUME NEW h \in Live, Fork(h)
       PROVE  \A x \in DOMAIN sessions' : SnapshotSound(sessions'[x])
  <2> DEFINE t == Committed(Genesis(sessions[h]))
  <2>1. Inserted(t)
    BY <1>10, InsertingFacts
  <2>2. SnapshotSound(t)
    BY <1>1, LiveSession, ForkedFields
  <2> HIDE DEF t
  <2> QED
    BY <1>4, <2>1, <2>2
<1>11. ASSUME NEW c \in Client, NEW h \in Live,
              Beginning(c, h) \/ AppendEngineFails(c, h) \/ ReadAllIds(c, h) \/ ReadShared(c, h)
       PROVE  \A x \in DOMAIN sessions' : SnapshotSound(sessions'[x])
  <2>1. sessions[h] \in Session /\ SnapshotSound(sessions[h])
    BY <1>1, LiveSession
  <2>2. CASE Beginning(c, h) \/ ReadAllIds(c, h)
    BY <1>3, <2>2, BeginningFacts, RewritingFacts
  <2>3. CASE AppendEngineFails(c, h)
    <3>1. Rewritten(h, BumpGeneration(sessions[h]))
      BY <2>3, RewritingFacts
    <3>2. SnapshotSound(BumpGeneration(sessions[h]))
      BY <2>1, BumpedFields DEF SnapshotSound, SnapshotIsCurrent
    <3> QED
      BY <1>5, <3>1, <3>2
  <2>4. CASE ReadShared(c, h)
    <3>1. Rewritten(h, Shared(sessions[h]))
      BY <2>4, RewritingFacts
    <3>2. SnapshotSound(Shared(sessions[h]))
      BY <2>1, SharedFields
    <3> QED
      BY <1>5, <3>1, <3>2
  <2> QED
    BY <1>11, <2>2, <2>3, <2>4
<1> QED
  BY <1>6, <1>7, <1>8, <1>9, <1>10, <1>11, NextKinds

\* The session an operation works on shows no row but its stream.
LEMMA SnapshotWork ==
    ASSUME IInv, SnapshotInv, [Next]_vars
    PROVE  SoundAt(pc', cur')
<1>1. ~cur'.snapshot.set => SoundAt(pc', cur')
  BY DEF SoundAt, SnapshotSound, SnapshotIsCurrent
<1>2. pc' = "idle" => SoundAt(pc', cur')
  BY DEF SoundAt
<1>3. UNCHANGED <<pc, cur>> => SoundAt(pc', cur')
  BY DEF SnapshotInv
<1>4. CASE Aside
  <2>1. ASSUME NEW k \in Key, NEW w \in Witness, NEW t \in Puts, Put(k, w, t) PROVE SoundAt(pc', cur')
    <3> DEFINE u == [Fresh(k, w) EXCEPT !.text = t, !.tail = t, !.tailIds = Enc(k, t)]
    <3>1. cur' = u
      BY <2>1 DEF Put
    <3>2. ~u.snapshot.set
      BY DEF Fresh, NoSnapshot
    <3> QED
      BY <1>1, <3>1, <3>2
  <2>2. ASSUME NEW k \in Key, NEW w \in Witness, NEW q \in Inputs, Lookup(k, w, q) PROVE SoundAt(pc', cur')
    <3>1. cur' = Fresh(k, w)
      BY <2>2 DEF Lookup
    <3>2. ~Fresh(k, w).snapshot.set
      BY DEF Fresh, NoSnapshot
    <3> QED
      BY <1>1, <3>1, <3>2
  <2>3. ASSUME Walk PROVE SoundAt(pc', cur')
    <3> DEFINE n == nodes[WalkKey(cur, call.query)]
               t == WalkKey(cur, call.query)[2]
    <3>1. cur' = Materialised(cur, n, t) /\ ~cur.snapshot.set
      BY <2>3 DEF Walk, SnapshotInv, SoundAt
    <3>2. cur \in Session
      BY DEF IInv, RunInv
    <3> HIDE DEF n, t
    <3>3. Materialised(cur, n, t).snapshot = cur.snapshot
      BY <3>2 DEF Materialised, Session
    <3> QED
      BY <1>1, <3>1, <3>3
  <2>4. ASSUME PutEngineFails \/ UNCHANGED vars
               \/ (\E h \in Live : Evict(h)) \/ \E k \in DOMAIN nodes : CorruptNode(k)
        PROVE  SoundAt(pc', cur')
    <3>1. UNCHANGED <<pc, cur>>
      BY <2>4 DEF PutEngineFails, Evict, CorruptNode, vars
    <3> QED
      BY <1>3, <3>1
  <2> QED
    BY <1>4, <2>1, <2>2, <2>3, <2>4 DEF Aside
<1>5. CASE Working
  <2>1. pc = "blocks" /\ pc' \in {"blocks", "commit"} /\ SameCopy(cur, cur')
    BY <1>5, WorkingSame
  <2>2. SnapshotSound(cur)
    BY <2>1 DEF SnapshotInv, SoundAt
  <2>3. SnapshotSound(cur')
    BY <2>1, <2>2, SoundSame DEF SameCopy
  <2> QED
    BY <2>1, <2>3 DEF SoundAt
<1>6. ASSUME NEW c \in Client, NEW h \in Live, Beginning(c, h) PROVE SoundAt(pc', cur')
  <2>1. sessions[h] \in Session /\ SnapshotSound(sessions[h])
    BY LiveSession DEF SnapshotInv
  <2>2. pc' \in {"blocks", "commit"}
    BY <1>6, BeginningFacts
  <2>3. cur' = sessions[h] \/ \E d : cur' = GrownBy(sessions[h], d)
    BY <1>6 DEF Beginning, AppendNoop, AppendDegraded, AppendRepair
  <2>4. ASSUME NEW d, cur' = GrownBy(sessions[h], d) PROVE SoundAt(pc', cur')
    BY <1>1, <2>1, <2>4, GrownFields
  <2>5. ASSUME cur' = sessions[h] PROVE SoundAt(pc', cur')
    BY <2>1, <2>2, <2>5 DEF SoundAt
  <2> QED
    BY <2>3, <2>4, <2>5
<1>7. CASE ProbeFails \/ CommitPut \/ CommitAppend \/ LookupHit \/ \E h \in Live : Fork(h)
  BY <1>2, <1>7, RewritingFacts, InsertingFacts
<1>8. ASSUME NEW c \in Client, NEW h \in Live,
             AppendEngineFails(c, h) \/ ReadAllIds(c, h) \/ ReadShared(c, h)
      PROVE  SoundAt(pc', cur')
  BY <1>2, <1>8, RewritingFacts
<1> QED
  BY <1>4, <1>5, <1>6, <1>7, <1>8, NextKinds

LEMMA SnapshotStep ==
    ASSUME IInv, SnapshotInv, [Next]_vars
    PROVE  SnapshotInv'
BY SnapshotTable, SnapshotWork DEF SnapshotInv, Live

-----------------------------------------------------------------------------
(* The record hash, when probes succeed. *)

LEMMA HashStep ==
    ASSUME IInv, HashInv, ~ProbeMayFail, [Next]_vars
    PROVE  \A x \in DOMAIN sessions' : Hashed(sessions'[x])
<1>1. \A x \in Live : Hashed(sessions[x])
  BY DEF HashInv
<1>2. cur \in Session /\ call \in Call
  BY DEF IInv, RunInv
<1>3. Quiet => \A x \in DOMAIN sessions' : Hashed(sessions'[x])
  BY <1>1 DEF Quiet
<1>4. ASSUME NEW s, Inserted(s), Hashed(s)
      PROVE  \A x \in DOMAIN sessions' : Hashed(sessions'[x])
  BY <1>1, <1>4 DEF Inserted
<1>5. ASSUME NEW h, NEW s, Rewritten(h, s), Hashed(s)
      PROVE  \A x \in DOMAIN sessions' : Hashed(sessions'[x])
  BY <1>1, <1>5 DEF Rewritten
<1>6. CASE Aside \/ Working
  BY <1>3, <1>6, AsideQuiet, WorkingQuiet
<1>7. ~ProbeFails
  BY DEF ProbeFails
<1>8. CASE CommitAppend
  <2> DEFINE t == Committed(NextRevision(cur))
  <2>1. Rewritten(call.h, t)
    BY <1>8, RewritingFacts
  <2>2. Hashed(t)
    BY <1>2, CommittedNext
  <2> HIDE DEF t
  <2> QED
    BY <1>5, <2>1, <2>2
<1>9. CASE CommitPut \/ LookupHit
  <2>1. Inserted(Committed(cur)) /\ Hashed(Committed(cur))
    BY <1>2, <1>9, InsertingFacts, CommittedFields
  <2> QED
    BY <1>4, <2>1
<1>10. ASSUME NEW h \in Live, Fork(h)
       PROVE  \A x \in DOMAIN sessions' : Hashed(sessions'[x])
  <2> DEFINE t == Committed(Genesis(sessions[h]))
  <2>1. Inserted(t)
    BY <1>10, InsertingFacts
  <2>2. Hashed(t)
    BY LiveSession, ForkedFields
  <2> HIDE DEF t
  <2> QED
    BY <1>4, <2>1, <2>2
<1>11. ASSUME NEW c \in Client, NEW h \in Live,
              Beginning(c, h) \/ AppendEngineFails(c, h) \/ ReadAllIds(c, h) \/ ReadShared(c, h)
       PROVE  \A x \in DOMAIN sessions' : Hashed(sessions'[x])
  <2>1. sessions[h] \in Session /\ Hashed(sessions[h])
    BY <1>1, LiveSession
  <2>2. CASE Beginning(c, h) \/ ReadAllIds(c, h)
    BY <1>3, <2>2, BeginningFacts, RewritingFacts
  <2>3. CASE AppendEngineFails(c, h)
    <3>1. Rewritten(h, BumpGeneration(sessions[h]))
      BY <2>3, RewritingFacts
    <3>2. Hashed(BumpGeneration(sessions[h]))
      BY <2>1, BumpedFields DEF Hashed
    <3> QED
      BY <1>5, <3>1, <3>2
  <2>4. CASE ReadShared(c, h)
    <3> DEFINE z == [gen |-> sessions[h].gen, ids |-> SharedRow(sessions[h]), set |-> TRUE]
               t == [sessions[h] EXCEPT !.snapshot = z]
    <3>1. Rewritten(h, Shared(sessions[h])) /\ Shared(sessions[h]) = t
      BY <2>4, RewritingFacts DEF Shared
    <3> HIDE DEF z
    <3>2. /\ t.hash = sessions[h].hash /\ t.revision = sessions[h].revision
          /\ t.payload = sessions[h].payload /\ t.tailIds = sessions[h].tailIds
          /\ t.tail = sessions[h].tail /\ t.safe = sessions[h].safe
          /\ t.witness = sessions[h].witness /\ t.replaceFrom = sessions[h].replaceFrom
          /\ t.key = sessions[h].key /\ t.prev = sessions[h].prev
      BY <2>1 DEF Session
    <3> HIDE DEF t
    <3>3. Hashed(t)
      BY <2>1, <3>2 DEF Hashed, CommitHash, Link
    <3> QED
      BY <1>5, <3>1, <3>3
  <2> QED
    BY <1>11, <2>2, <2>3, <2>4
<1> QED
  BY <1>6, <1>7, <1>8, <1>9, <1>10, <1>11, NextKinds

-----------------------------------------------------------------------------
(* The patch of the append in progress. *)

LEMMA AgreeRefl ==
    ASSUME NEW S, NEW s \in Seq(S) PROVE Agree(s, s, Len(s))
BY DEF Agree

LEMMA AgreeNone ==
    ASSUME NEW S, NEW s \in Seq(S), NEW t \in Seq(S) PROVE Agree(s, t, 0)
<1>1. 1 \in Nat \ {0} /\ 0 \in Nat /\ 0 <= Len(s) /\ 0 <= Len(t)
  OBVIOUS
<1>2. Len(SubSeq(s, 1, 0)) = 0 /\ Len(SubSeq(t, 1, 0)) = 0
      /\ SubSeq(s, 1, 0) \in Seq(S) /\ SubSeq(t, 1, 0) \in Seq(S)
  BY <1>1, SliceFacts
<1>3. SubSeq(s, 1, 0) = <<>> /\ SubSeq(t, 1, 0) = <<>>
  BY <1>2, EmptySeq
<1> QED
  BY <1>1, <1>3 DEF Agree, Take

\* Where the stream of an append that begins may differ from the old one.
LEMMA BeginningAgrees ==
    ASSUME IInv, IInv', NEW c \in Client, NEW h \in Live, Beginning(c, h)
    PROVE  cur'.revision = sessions[h].revision
           /\ Agree(AllIds(cur'), AllIds(sessions[h]), ReplaceFrom')
<1> DEFINE s == sessions[h]
<1>1. s \in Session /\ s.sealed \in Seq(Token) /\ s.tailIds \in Seq(Token)
      /\ AllIds(s) \in Seq(Token)
  BY LiveSession, SealedSeq
<1>2. cur' \in Session /\ cur'.tailIds \in Seq(Token)
  BY SealedSeq DEF IInv, RunInv
<1>3. ASSUME NEW kept, BeginAppend(c, h, kept)
      PROVE  ReplaceFrom' = Len(s.sealed) + kept
  <2>1. call' = [NoCall EXCEPT !.client = c, !.put = FALSE, !.h = h, !.old = Len(s.text),
                              !.oldSealed = Len(s.sealed), !.kept = kept]
    BY <1>3 DEF BeginAppend
  <2>2. call'.oldSealed = Len(s.sealed) /\ call'.kept = kept
    BY <2>1 DEF NoCall
  <2> QED
    BY <2>2 DEF ReplaceFrom
<1>4. CASE AppendNoop(c, h)
  <2>1. cur' = s /\ ReplaceFrom' = Len(s.sealed) + Len(s.tailIds)
    BY <1>3, <1>4 DEF AppendNoop
  <2>2. Len(AllIds(s)) = Len(s.sealed) + Len(s.tailIds)
    BY <1>1, ConcatProperties DEF AllIds
  <2>3. Agree(AllIds(s), AllIds(s), Len(AllIds(s)))
    BY <1>1, AgreeRefl
  <2> QED
    BY <2>1, <2>2, <2>3
<1>5. ASSUME NEW d, NEW kept \in Nat, cur' = GrownBy(s, d), BeginAppend(c, h, kept),
             Agree(Enc(s.key, s.tail \o d), s.tailIds, kept)
      PROVE  cur'.revision = s.revision /\ Agree(AllIds(cur'), AllIds(s), ReplaceFrom')
  <2>1. cur'.revision = s.revision /\ cur'.sealed = s.sealed
        /\ cur'.tailIds = Enc(s.key, s.tail \o d)
    BY <1>1, <1>5, GrownFields
  <2>2. Agree(cur'.tailIds, s.tailIds, kept) /\ ReplaceFrom' = Len(s.sealed) + kept
    BY <1>3, <1>5, <2>1
  <2> DEFINE e == cur'.tailIds
  <2>3. AllIds(cur') = s.sealed \o e /\ AllIds(s) = s.sealed \o s.tailIds
    BY <2>1 DEF AllIds
  <2>4. e \in Seq(Token) /\ Agree(e, s.tailIds, kept)
    BY <1>2, <2>2
  <2> HIDE DEF e, s
  <2>5. Agree(s.sealed \o e, s.sealed \o s.tailIds, Len(s.sealed) + kept)
    BY <1>1, <2>4, AgreeBehind
  <2> QED
    BY <2>1, <2>2, <2>3, <2>5
<1>6. ASSUME NEW d \in Deltas(s), AppendDegraded(c, h, d)
      PROVE  cur'.revision = s.revision /\ Agree(AllIds(cur'), AllIds(s), ReplaceFrom')
  <2>1. cur' = GrownBy(s, d) /\ BeginAppend(c, h, 0)
    BY <1>6 DEF AppendDegraded
  <2>2. Enc(s.key, s.tail \o d) \in Seq(Token)
    BY <1>1, <1>2, <2>1, GrownFields
  <2>3. Agree(Enc(s.key, s.tail \o d), s.tailIds, 0)
    BY <1>1, <2>2, AgreeNone
  <2> QED
    BY <1>5, <2>1, <2>3
<1>7. ASSUME NEW d \in Deltas(s), AppendRepair(c, h, d)
      PROVE  cur'.revision = s.revision /\ Agree(AllIds(cur'), AllIds(s), ReplaceFrom')
  <2>1. cur' = GrownBy(s, d)
    BY <1>7 DEF AppendRepair
  <2>2. PICK kept \in KeptTokens(s, d) : BeginAppend(c, h, kept)
    BY <1>7 DEF AppendRepair
  <2>3. kept \in Nat /\ Agree(Enc(s.key, s.tail \o d), s.tailIds, kept)
    BY <1>1, <2>2 DEF KeptTokens, Agree
  <2> QED
    BY <1>5, <2>1, <2>2, <2>3
<1> QED
  BY <1>4, <1>6, <1>7, <1>1 DEF Beginning

LEMMA PatchStep ==
    ASSUME IInv, IInv', PatchInv, [Next]_vars
    PROVE  PatchInv'
<1> SUFFICES ASSUME Appending'
             PROVE  /\ mirror'[call'.client].set /\ mirror'[call'.client].h = call'.h
                    /\ mirror'[call'.client].rev = sessions'[call'.h].revision
                    /\ cur'.revision = sessions'[call'.h].revision
                    /\ Agree(AllIds(cur'), AllIds(sessions'[call'.h]), ReplaceFrom')
  BY DEF PatchInv
<1>1. CASE UNCHANGED vars
  <2>1. Appending /\ cur' = cur /\ sessions' = sessions /\ call' = call /\ mirror' = mirror
        /\ ReplaceFrom' = ReplaceFrom
    BY <1>1 DEF vars, Appending, ReplaceFrom
  <2> QED
    BY <2>1 DEF PatchInv
<1>2. CASE Working
  <2>1. Appending /\ sessions' = sessions /\ call' = call /\ mirror' = mirror
        /\ SameCopy(cur, cur')
    BY <1>2, WorkingSame DEF Appending
  <2>2. cur'.revision = cur.revision /\ AllIds(cur') = AllIds(cur) /\ ReplaceFrom' = ReplaceFrom
    BY <2>1 DEF SameCopy, ReplaceFrom
  <2> QED
    BY <2>1, <2>2 DEF PatchInv
<1>3. ASSUME NEW c \in Client, NEW h \in Live, Beginning(c, h)
      PROVE  /\ mirror'[call'.client].set /\ mirror'[call'.client].h = call'.h
             /\ mirror'[call'.client].rev = sessions'[call'.h].revision
             /\ cur'.revision = sessions'[call'.h].revision
             /\ Agree(AllIds(cur'), AllIds(sessions'[call'.h]), ReplaceFrom')
  BY <1>3, BeginningFacts, BeginningAgrees, ZenonT(30)
<1> QED
  BY <1>1, <1>2, <1>3, AppendingKinds

-----------------------------------------------------------------------------
(* The copies of the callers. *)

\* A copy stays one when its session stays, or is gone.
LEMMA CopyQuiet ==
    ASSUME NEW m \in Mirror, CopyOf(m, sessions, nextHandle), Quiet
    PROVE  CopyOf(m, sessions', nextHandle')
BY DEF CopyOf, Quiet, Live

\* A copy stays one when a session enters under a handle it cannot name.
LEMMA CopyInserted ==
    ASSUME NEW m \in Mirror, CopyOf(m, sessions, nextHandle), NEW s, Inserted(s)
    PROVE  CopyOf(m, sessions', nextHandle')
<1> SUFFICES ASSUME m.set PROVE CopyOf(m, sessions', nextHandle')
  BY DEF CopyOf
<1>1. m.h < nextHandle /\ nextHandle \in Nat /\ nextHandle' = nextHandle + 1 /\ m.h \in Nat
  BY DEF CopyOf, Inserted, Mirror
<1>2. m.h # nextHandle /\ m.h < nextHandle'
  BY <1>1
<1>3. m.h \in DOMAIN sessions' => m.h \in DOMAIN sessions /\ sessions'[m.h] = sessions[m.h]
  BY <1>2 DEF Inserted, Live
<1> QED
  BY <1>2, <1>3 DEF CopyOf

\* A copy stays one when a session is rewritten under its own revision and
\* stream, or under a later revision.
LEMMA CopyRewritten ==
    ASSUME IInv, NEW m \in Mirror, CopyOf(m, sessions, nextHandle),
           NEW h \in Live, NEW s, Rewritten(h, s), s.revision \in Nat,
           \/ s.revision = sessions[h].revision /\ AllIds(s) = AllIds(sessions[h])
           \/ s.revision > sessions[h].revision
    PROVE  CopyOf(m, sessions', nextHandle')
<1> SUFFICES ASSUME m.set PROVE CopyOf(m, sessions', nextHandle')
  BY DEF CopyOf
<1>1. nextHandle' = nextHandle /\ DOMAIN sessions' = DOMAIN sessions /\ m.h < nextHandle
  BY DEF Rewritten, Live, CopyOf
<1>2. ASSUME m.h \in DOMAIN sessions
      PROVE  /\ m.rev <= sessions'[m.h].revision
             /\ m.rev = sessions'[m.h].revision => m.ids = AllIds(sessions'[m.h])
  <2>1. /\ m.rev <= sessions[m.h].revision
        /\ m.rev = sessions[m.h].revision => m.ids = AllIds(sessions[m.h])
    BY <1>2 DEF CopyOf
  <2>2. CASE m.h # h
    <3>1. sessions'[m.h] = sessions[m.h]
      BY <1>2, <2>2 DEF Rewritten, Live
    <3> QED
      BY <2>1, <3>1
  <2>3. CASE m.h = h
    <3>1. sessions'[m.h] = s
      BY <2>3 DEF Rewritten
    <3>2. sessions[h] \in Session /\ sessions[h].revision \in Nat /\ m.rev \in Nat
      BY LiveSession, SessionFields DEF Mirror
    <3>3. CASE s.revision = sessions[h].revision /\ AllIds(s) = AllIds(sessions[h])
      BY <2>1, <2>3, <3>1, <3>3
    <3>4. CASE s.revision > sessions[h].revision
      BY <2>1, <2>3, <3>1, <3>2, <3>4
    <3> QED
      BY <3>3, <3>4
  <2> QED
    BY <2>2, <2>3
<1> QED
  BY <1>1, <1>2 DEF CopyOf

\* A copy just taken of a live session.
LEMMA CopyTaken ==
    ASSUME IInv, IInv', NEW m, NEW h \in DOMAIN sessions', m.h = h,
           m.rev = sessions'[h].revision, m.ids = AllIds(sessions'[h])
    PROVE  CopyOf(m, sessions', nextHandle')
<1>1. h < nextHandle'
  BY DEF IInv, LruInv, Live
<1>2. sessions'[h].revision \in Nat
  <2>1. sessions'[h] \in Session
    BY GoodFacts DEF IInv, SessionsInv, Live
  <2> QED
    BY <2>1, SessionFields
<1> QED
  BY <1>1, <1>2 DEF CopyOf

\* The caller of the append applies the patch to the stream it was computed from.
LEMMA PatchedCopy ==
    ASSUME IInv, CopiesInv, PatchInv, pc = "commit", ~call.put, call.h \in Live
    PROVE  LET m == Patched(mirror[call.client]) IN
           /\ m.h = call.h /\ m.rev = cur.revision + 1 /\ m.ids = AllIds(cur)
<1> DEFINE old == mirror[call.client]
           a == AllIds(sessions[call.h])
           b == AllIds(cur)
           n == ReplaceFrom
<1>1. call.client \in Client /\ old \in Mirror /\ cur \in Session /\ n \in Nat
  BY DEF IInv, RunInv, MirrorInv, Call, ReplaceFrom
<1>2. old.set /\ old.h = call.h /\ old.rev = sessions[call.h].revision /\ Agree(b, a, n)
  BY DEF PatchInv, Appending
<1>3. old.ids = a
  BY <1>1, <1>2 DEF CopiesInv, CopyOf, Live
<1>4. a \in Seq(Token) /\ b \in Seq(Token)
  BY <1>1, LiveSession, SealedSeq
<1>5. Take(a, Lower(n, Len(a))) \o Drop(b, n) = b
  <2> HIDE DEF a, b, n
  <2> QED
    BY <1>1, <1>2, <1>4, PatchGives
<1>6. /\ Patched(old).h = old.h /\ Patched(old).rev = cur.revision + 1
      /\ Patched(old).ids = Take(old.ids, Lower(n, Len(old.ids))) \o Drop(b, n)
  BY <1>1 DEF Patched, Replacement, Mirror
<1> QED
  BY <1>2, <1>3, <1>5, <1>6

LEMMA CopiesStep ==
    ASSUME IInv, IInv', SnapshotInv, CopiesInv, PatchInv, ~ProbeMayFail, [Next]_vars
    PROVE  CopiesInv'
<1>0. mirror \in [Client -> Mirror] /\ cur \in Session /\ call \in Call
  BY DEF IInv, MirrorInv, RunInv
<1>1. \A c \in Client : mirror[c] \in Mirror /\ CopyOf(mirror[c], sessions, nextHandle)
  BY <1>0 DEF CopiesInv
<1>2. ASSUME Quiet, mirror' = mirror PROVE CopiesInv'
  BY <1>1, <1>2, CopyQuiet DEF CopiesInv
<1>3. ASSUME NEW s, Inserted(s), mirror' = mirror PROVE CopiesInv'
  BY <1>1, <1>3, CopyInserted DEF CopiesInv
<1>4. CASE Aside \/ Working
  BY <1>2, <1>4, AsideQuiet, WorkingQuiet
<1>5. ~ProbeFails
  BY DEF ProbeFails
<1>6. CASE CommitPut \/ LookupHit \/ \E h \in Live : Fork(h)
  BY <1>3, <1>6, InsertingFacts
<1>7. CASE CommitAppend
  <2> DEFINE t == Committed(NextRevision(cur))
             m == Patched(mirror[call.client])
  <2>1. /\ Rewritten(call.h, t) /\ mirror' = [mirror EXCEPT ![call.client] = m]
        /\ pc = "commit" /\ ~call.put /\ call.h \in Live
    BY <1>7, RewritingFacts DEF Rewritten
  <2>2. t.revision = cur.revision + 1 /\ AllIds(t) = AllIds(cur)
    BY <1>0, CommittedNext
  <2>3. m.h = call.h /\ m.rev = cur.revision + 1 /\ m.ids = AllIds(cur)
    BY <2>1, PatchedCopy
  <2>4. cur.revision = sessions[call.h].revision /\ cur.revision \in Nat
    BY <1>0, <2>1, SessionFields DEF PatchInv, Appending
  <2>5. call.client \in Client
    BY <1>0 DEF Call
  <2> HIDE DEF t, m
  <2>6. call.h \in DOMAIN sessions' /\ sessions'[call.h] = t
    BY <2>1 DEF Rewritten
  <2>7. CopyOf(m, sessions', nextHandle')
    BY <2>2, <2>3, <2>6, CopyTaken
  <2>8. t.revision \in Nat /\ t.revision > sessions[call.h].revision
    BY <2>2, <2>4
  <2>9. \A c \in Client : CopyOf(mirror[c], sessions', nextHandle')
    BY <1>1, <2>1, <2>8, CopyRewritten
  <2> QED
    BY <1>0, <2>1, <2>5, <2>7, <2>9 DEF CopiesInv
<1>8. ASSUME NEW c \in Client, NEW h \in Live, Beginning(c, h) PROVE CopiesInv'
  BY <1>2, <1>8, BeginningFacts
<1>9. ASSUME NEW c \in Client, NEW h \in Live, AppendEngineFails(c, h) PROVE CopiesInv'
  <2> DEFINE t == BumpGeneration(sessions[h])
  <2>1. Rewritten(h, t) /\ mirror' = mirror
    BY <1>9, RewritingFacts
  <2>2. t.revision = sessions[h].revision /\ AllIds(t) = AllIds(sessions[h])
        /\ t.revision \in Nat
    BY LiveSession, BumpedFields, SessionFields
  <2> HIDE DEF t
  <2> QED
    BY <1>1, <2>1, <2>2, CopyRewritten DEF CopiesInv
<1>10. ASSUME NEW c \in Client, NEW h \in Live, ReadAllIds(c, h) PROVE CopiesInv'
  <2> DEFINE m == Read(h, AllIds(sessions[h]))
  <2>1. Quiet /\ sessions' = sessions /\ mirror' = [mirror EXCEPT ![c] = m]
    BY <1>10, RewritingFacts
  <2>2. m.h = h /\ m.rev = sessions[h].revision /\ m.ids = AllIds(sessions[h])
    BY DEF Read
  <2> HIDE DEF m
  <2>3. CopyOf(m, sessions', nextHandle')
    BY <2>1, <2>2, CopyTaken DEF Live
  <2>4. \A d \in Client : CopyOf(mirror[d], sessions', nextHandle')
    BY <1>1, <2>1, CopyQuiet
  <2> QED
    BY <1>0, <2>1, <2>3, <2>4 DEF CopiesInv
<1>11. ASSUME NEW c \in Client, NEW h \in Live, ReadShared(c, h) PROVE CopiesInv'
  <2> DEFINE m == Read(h, SharedRow(sessions[h]))
             t == Shared(sessions[h])
  <2>1. Rewritten(h, t) /\ mirror' = [mirror EXCEPT ![c] = m]
    BY <1>11, RewritingFacts
  <2>2. /\ sessions[h] \in Session /\ SharedRow(sessions[h]) = AllIds(sessions[h])
        /\ t.revision = sessions[h].revision /\ AllIds(t) = AllIds(sessions[h])
        /\ t.revision \in Nat
    BY LiveSession, SharedFields, SessionFields DEF SnapshotInv
  <2>3. m.h = h /\ m.rev = sessions[h].revision /\ m.ids = AllIds(sessions[h])
    BY <2>2 DEF Read
  <2> HIDE DEF m, t
  <2>4. h \in DOMAIN sessions' /\ sessions'[h] = t
    BY <2>1 DEF Rewritten
  <2>5. CopyOf(m, sessions', nextHandle')
    BY <2>2, <2>3, <2>4, CopyTaken
  <2>6. \A d \in Client : CopyOf(mirror[d], sessions', nextHandle')
    BY <1>1, <2>1, <2>2, CopyRewritten
  <2> QED
    BY <1>0, <2>1, <2>5, <2>6 DEF CopiesInv
<1> QED
  BY <1>4, <1>5, <1>6, <1>7, <1>8, <1>9, <1>10, <1>11, NextKinds

-----------------------------------------------------------------------------
(* The theorems. *)

LEMMA ClientsInit == ASSUME Init PROVE GInv /\ HashInv /\ CopiesInv /\ PatchInv
<1>1. Live = {} /\ pc = "idle" /\ \A c \in Client : mirror[c] = NoMirror
  BY DEF Init, Live
<1> QED
  BY <1>1, InitInv DEF GInv, GrowthInv, SnapshotInv, SoundAt, HashInv, CopiesInv, CopyOf,
     PatchInv, Appending, NoMirror

LEMMA GStep == ASSUME GInv, [Next]_vars PROVE GInv'
BY NextInv, GrowthStep, SnapshotStep DEF GInv

\* What an append in progress sealed it added, and a shared row of the current
\* generation is the stream.
THEOREM GrowthInvariance == Spec => []GInv
<1>1. Init => GInv
  BY ClientsInit
<1>2. GInv /\ [Next]_vars => GInv'
  BY GStep
<1> QED
  BY <1>1, <1>2, PTL DEF Spec

\* The stable prefix is append-only: no operation retracts a sealed token or a
\* sealed character of a session, whatever fails in between.
THEOREM PrefixStays == Spec => SealedPrefixStable
<1> DEFINE Stays == \A h \in Live : h \in DOMAIN sessions' =>
              /\ Len(sessions'[h].sealed) >= Len(sessions[h].sealed)
              /\ Take(sessions'[h].sealed, Len(sessions[h].sealed)) = sessions[h].sealed
              /\ sessions'[h].safe >= sessions[h].safe
<1>1. GInv /\ GInv' /\ [Next]_vars => [Stays]_vars
  <2> SUFFICES ASSUME GInv, GInv', [Next]_vars PROVE Stays
    OBVIOUS
  <2> SUFFICES ASSUME NEW h \in Live, h \in DOMAIN sessions'
               PROVE  /\ Len(sessions'[h].sealed) >= Len(sessions[h].sealed)
                      /\ Take(sessions'[h].sealed, Len(sessions[h].sealed)) = sessions[h].sealed
                      /\ sessions'[h].safe >= sessions[h].safe
    OBVIOUS
  <2>1. Grows(sessions[h], sessions'[h])
    BY PrefixStep DEF GInv
  <2>2. sessions[h].sealed \in Seq(Token)
    BY LiveSession, SealedSeq DEF GInv
  <2>3. sessions'[h].sealed \in Seq(Token)
    <3>1. sessions'[h] \in Session
      BY GoodFacts DEF GInv, IInv, SessionsInv, Live
    <3> QED
      BY <3>1, SealedSeq
  <2>4. Len(sessions'[h].sealed) \in Nat /\ Len(sessions[h].sealed) \in Nat
    BY <2>2, <2>3
  <2> QED
    BY <2>1, <2>4 DEF Grows, Begins
<1> QED
  BY <1>1, GrowthInvariance, PTL DEF Spec, SealedPrefixStable

LEMMA CStep == ASSUME CInv, [Next]_vars PROVE CInv'
<1>1. IInv /\ IInv' /\ GInv' /\ SnapshotInv
  BY GStep DEF CInv, GInv
<1>2. HashInv'
  BY <1>1, HashStep DEF CInv, HashInv, Live
<1>3. CopiesInv' /\ PatchInv'
  BY <1>1, CopiesStep, PatchStep DEF CInv
<1> QED
  BY <1>1, <1>2, <1>3 DEF CInv

\* As long as boundary probes succeed, a revision of a handle names one stream,
\* and the caller of an append holds the one its patch starts from.
THEOREM ClientsInvariance == ~ProbeMayFail /\ Spec => []CInv
<1>1. ~ProbeMayFail /\ Init => CInv
  BY ClientsInit DEF CInv
<1>2. CInv /\ [Next]_vars => CInv'
  BY CStep
<1> QED
  BY <1>1, <1>2, PTL DEF Spec

\* As long as boundary probes succeed, the record hash an export asserts is the
\* hash of the state it exports, for every session and after every operation.
THEOREM HashesCurrent == ~ProbeMayFail /\ Spec => []RecordHashCurrent
<1>1. CInv => RecordHashCurrent
  <2> SUFFICES ASSUME CInv, NEW h \in Live
               PROVE  sessions[h].hash
                        = CommitHash([sessions[h] EXCEPT !.payload = sessions[h].sealed])
    BY DEF RecordHashCurrent
  <2>1. sessions[h] \in Session /\ sessions[h].payload = sessions[h].sealed /\ Hashed(sessions[h])
    BY LiveSession, GoodFacts DEF CInv, GInv, HashInv
  <2>2. [sessions[h] EXCEPT !.payload = sessions[h].sealed] = sessions[h]
    BY <2>1 DEF Session
  <2> QED
    BY <2>1, <2>2 DEF Hashed
<1> QED
  BY <1>1, ClientsInvariance, PTL

\* As long as boundary probes succeed, a caller that only applies patches under
\* the revision check, or reads a complete or a cached row, holds the stream of
\* the store whenever it holds its revision.
THEOREM MirrorsExact == ~ProbeMayFail /\ Spec => []MirrorExact
<1>1. CInv => MirrorExact
  BY DEF CInv, CopiesInv, CopyOf, MirrorExact, Live
<1> QED
  BY <1>1, ClientsInvariance, PTL
=============================================================================
