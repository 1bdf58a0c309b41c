--------------------------- MODULE LogPipesProofs ----------------------------
(***************************************************************************)
(* Theorems about LogPipes, for any jobs, commands, cache processes and    *)
(* outputs, whatever a pipe holds and a read returns.                      *)
(***************************************************************************)
EXTENDS LogPipes, SequenceTheorems, WellFoundedInduction, TLAPS

-----------------------------------------------------------------------------
(* Text and its lines.                                                     *)

\* Every set of numbers has a least element.
LEMMA NatLeast ==
    ASSUME NEW N \in SUBSET Nat, N # {}
    PROVE  \E m \in N : \A k \in N : m <= k
<1> DEFINE R == OpToRel(<, Nat)
<1>1. IsWellFoundedOn(R, Nat)
  BY NatLessThanWellFounded
<1>2. \A x, y \in Nat : x < y => <<x, y>> \in R
  BY DEF OpToRel
<1> HIDE DEF R
<1>3. PICK m \in N : \A k \in N : <<k, m>> \notin R
  BY <1>1, WFMin
<1>4. \A k \in N : k \in Nat /\ m \in Nat
  OBVIOUS
<1>5. ASSUME NEW k \in N PROVE m <= k
  <2>1. ~(k < m)
    BY <1>2, <1>3, <1>4
  <2> QED BY <1>4, <2>1
<1> QED BY <1>5

Text == Seq(Nat)

\* One text after another.
LEMMA Joined ==
    \A a, b \in Text :
        /\ a \o b \in Text /\ Len(a) \in Nat /\ Len(b) \in Nat /\ Len(a \o b) = Len(a) + Len(b)
        /\ DOMAIN a = 1..Len(a) /\ DOMAIN b = 1..Len(b) /\ DOMAIN (a \o b) = 1..Len(a \o b)
        /\ \A i \in 1..(Len(a) + Len(b)) : (a \o b)[i] = IF i <= Len(a) THEN a[i] ELSE b[i - Len(a)]
        /\ a \o <<>> = a /\ <<>> \o a = a
<1> SUFFICES ASSUME NEW a \in Text, NEW b \in Text
             PROVE  /\ a \o b \in Text /\ Len(a) \in Nat /\ Len(b) \in Nat /\ Len(a \o b) = Len(a) + Len(b)
                    /\ DOMAIN a = 1..Len(a) /\ DOMAIN b = 1..Len(b)
                    /\ DOMAIN (a \o b) = 1..Len(a \o b)
                    /\ \A i \in 1..(Len(a) + Len(b)) :
                          (a \o b)[i] = IF i <= Len(a) THEN a[i] ELSE b[i - Len(a)]
                    /\ a \o <<>> = a /\ <<>> \o a = a
  OBVIOUS
<1>1. a \in Seq(Nat) /\ b \in Seq(Nat)
  BY DEF Text
<1>2. a \o b \in Seq(Nat)
  BY <1>1, ConcatProperties
<1> QED BY <1>1, <1>2, ConcatProperties, LenProperties, ConcatEmptySeq DEF Text

\* The order in which three are put together does not matter.
LEMMA Regroup == \A a, b, c \in Text : (a \o b) \o c = a \o (b \o c)
BY ConcatAssociative, SMTT(30) DEF Text

\* A part of a text.
LEMMA Part ==
    \A s \in Text : \A n \in 0..Len(s) :
        LET a == SubSeq(s, 1, n)
            b == SubSeq(s, n + 1, Len(s))
        IN /\ a \in Text /\ b \in Text /\ a \o b = s
           /\ Len(a) = n /\ Len(b) = Len(s) - n
           /\ \A i \in 1..n : a[i] = s[i]
           /\ \A i \in 1..(Len(s) - n) : b[i] = s[n + i]
<1> SUFFICES ASSUME NEW s \in Text, NEW n \in 0..Len(s)
             PROVE  LET a == SubSeq(s, 1, n)
                        b == SubSeq(s, n + 1, Len(s))
                    IN /\ a \in Text /\ b \in Text /\ a \o b = s
                       /\ Len(a) = n /\ Len(b) = Len(s) - n
                       /\ \A i \in 1..n : a[i] = s[i]
                       /\ \A i \in 1..(Len(s) - n) : b[i] = s[n + i]
  OBVIOUS
<1> DEFINE a == SubSeq(s, 1, n)
           b == SubSeq(s, n + 1, Len(s))
<1>1. s \in Seq(Nat) /\ Len(s) \in Nat /\ n \in Nat /\ n <= Len(s)
      /\ \A i \in 1..Len(s) : s[i] \in Nat
  BY LenProperties, ElementOfSeq DEF Text
<1>2. /\ a \in Seq(Nat) /\ Len(a) = n
      /\ \A i \in 1..n : a[i] = s[i]
  <2>1. /\ a \in Seq(Nat) /\ Len(a) = IF 1 <= n THEN n - 1 + 1 ELSE 0
        /\ \A i \in 1..(n - 1 + 1) : a[i] = s[1 + i - 1]
    BY <1>1, SubSeqProperties
  <2> QED BY <1>1, <2>1
<1>3. /\ b \in Seq(Nat) /\ Len(b) = Len(s) - n
      /\ \A i \in 1..(Len(s) - n) : b[i] = s[n + i]
  <2>1. /\ b \in Seq(Nat) /\ Len(b) = IF n + 1 <= Len(s) THEN Len(s) - (n + 1) + 1 ELSE 0
        /\ \A i \in 1..(Len(s) - (n + 1) + 1) : b[i] = s[(n + 1) + i - 1]
    <3>1. /\ n + 1 \in Int /\ Len(s) \in Int
          /\ \A i \in (n + 1)..Len(s) : s[i] \in Nat
      BY <1>1
    <3> QED BY <3>1, SubSeqProperties
  <2>2. Len(b) = Len(s) - n
    BY <1>1, <2>1
  <2>3. ASSUME NEW i \in 1..(Len(s) - n) PROVE b[i] = s[n + i]
    <3>1. i \in 1..(Len(s) - (n + 1) + 1) /\ (n + 1) + i - 1 = n + i
      BY <1>1
    <3> QED BY <2>1, <3>1
  <2> QED BY <2>1, <2>2, <2>3
<1>4. a \o b = s
  <2> HIDE DEF a, b
  <2>1. /\ a \o b \in Seq(Nat) /\ Len(a \o b) = Len(s)
        /\ \A i \in 1..Len(s) : (a \o b)[i] = IF i <= n THEN a[i] ELSE b[i - n]
    <3>1. /\ a \in Seq(Nat) /\ b \in Seq(Nat) /\ Len(a) = n /\ Len(b) = Len(s) - n
          /\ Len(s) \in Nat /\ n \in Nat
      BY <1>1, <1>2, <1>3
    <3>2. /\ a \o b \in Seq(Nat) /\ Len(a \o b) = Len(a) + Len(b)
          /\ \A i \in 1..(Len(a) + Len(b)) :
                (a \o b)[i] = IF i <= Len(a) THEN a[i] ELSE b[i - Len(a)]
      <4>1. a \in Seq(Nat) /\ b \in Seq(Nat)
        BY <3>1
      <4> QED BY <4>1, ConcatProperties
    <3>3. Len(a) + Len(b) = Len(s)
      BY <3>1
    <3> QED BY <3>1, <3>2, <3>3
  <2>2. ASSUME NEW i \in 1..Len(s) PROVE (a \o b)[i] = s[i]
    <3>1. CASE i <= n
      BY <1>1, <1>2, <2>1, <3>1
    <3>2. CASE ~(i <= n)
      <4>1. i - n \in 1..(Len(s) - n) /\ n + (i - n) = i
        BY <1>1, <3>2
      <4>2. b[i - n] = s[n + (i - n)]
        BY <1>3, <4>1
      <4> QED BY <2>1, <3>2, <4>1, <4>2
    <3> QED BY <3>1, <3>2
  <2> QED BY <1>1, <2>1, <2>2, SeqEqual
<1> QED BY <1>2, <1>3, <1>4 DEF Text

\* The last newline of a text.
LEMMA LastNLIs ==
    \A s \in Text :
        /\ LastNL(s) \in 0..Len(s)
        /\ LastNL(s) = 0 => \A i \in 1..Len(s) : s[i] # NL
        /\ LastNL(s) # 0 => s[LastNL(s)] = NL /\ \A i \in (LastNL(s) + 1)..Len(s) : s[i] # NL
<1> SUFFICES ASSUME NEW s \in Text
             PROVE  /\ LastNL(s) \in 0..Len(s)
                    /\ LastNL(s) = 0 => \A i \in 1..Len(s) : s[i] # NL
                    /\ LastNL(s) # 0 => s[LastNL(s)] = NL
                                         /\ \A i \in (LastNL(s) + 1)..Len(s) : s[i] # NL
  OBVIOUS
<1> DEFINE I == {i \in 1..Len(s) : s[i] = NL}
<1>1. Len(s) \in Nat
  BY LenProperties DEF Text
<1>2. LastNL(s) = IF I # {} THEN Max(I) ELSE 0
  BY DEF LastNL, SelectLastInSeq
<1>3. CASE I = {}
  BY <1>1, <1>2, <1>3
<1>4. CASE I # {}
  <2> DEFINE N == {Len(s) - i : i \in I}
  <2>1. N \in SUBSET Nat /\ N # {}
    BY <1>1, <1>4
  <2>2. PICK m \in N : \A k \in N : m <= k
    BY <2>1, NatLeast
  <2>3. PICK x \in I : m = Len(s) - x
    BY <2>2
  <2>4. ASSUME NEW y \in I PROVE x >= y
    <3>1. m <= Len(s) - y
      BY <2>2
    <3> QED BY <1>1, <2>3, <3>1
  <2>5. Max(I) \in I /\ \A y \in I : Max(I) >= y
    BY <2>4 DEF Max
  <2> HIDE DEF N
  <2>6. LastNL(s) \in I /\ \A y \in I : LastNL(s) >= y
    BY <1>2, <1>4, <2>5
  <2>7. LastNL(s) \in 1..Len(s) /\ s[LastNL(s)] = NL
    BY <2>6
  <2>8. ASSUME NEW i \in (LastNL(s) + 1)..Len(s) PROVE s[i] # NL
    <3>1. i \in 1..Len(s) /\ ~(LastNL(s) >= i)
      BY <1>1, <2>7
    <3> QED BY <2>6, <3>1
  <2> QED BY <1>1, <2>7, <2>8
<1> QED BY <1>3, <1>4

\* A text is its complete lines and the start of another.
LEMMA LinesAndRest ==
    \A s \in Text :
        /\ Lines(s) \in Text /\ Rest(s) \in Text /\ Lines(s) \o Rest(s) = s
        /\ Ended(Lines(s)) /\ Unended(Rest(s))
<1> SUFFICES ASSUME NEW s \in Text
             PROVE  /\ Lines(s) \in Text /\ Rest(s) \in Text /\ Lines(s) \o Rest(s) = s
                    /\ Ended(Lines(s)) /\ Unended(Rest(s))
  OBVIOUS
<1> DEFINE n == LastNL(s)
           a == Lines(s)
           b == Rest(s)
<1>1. /\ Len(s) \in Nat /\ n \in 0..Len(s)
      /\ n = 0 => \A i \in 1..Len(s) : s[i] # NL
      /\ n # 0 => s[n] = NL /\ \A i \in (n + 1)..Len(s) : s[i] # NL
  BY LastNLIs, Joined
<1>2. a = SubSeq(s, 1, n) /\ b = SubSeq(s, n + 1, Len(s))
  BY DEF Lines, Rest
<1> HIDE DEF n, a, b
<1>3. /\ a \in Text /\ b \in Text /\ a \o b = s
      /\ Len(a) = n /\ Len(b) = Len(s) - n
      /\ \A i \in 1..n : a[i] = s[i]
      /\ \A i \in 1..(Len(s) - n) : b[i] = s[n + i]
  BY <1>1, <1>2, Part
<1>4. Ended(a)
  <2>1. CASE n = 0
    <3>1. a = <<>>
      BY <1>3, <2>1, EmptySeq DEF Text
    <3> QED BY <3>1 DEF Ended
  <2>2. CASE n # 0
    BY <1>1, <1>3, <2>2 DEF Ended
  <2> QED BY <2>1, <2>2
<1>5. Unended(b)
  <2>1. DOMAIN b = 1..(Len(s) - n)
    BY <1>3, Joined
  <2>2. ASSUME NEW i \in 1..(Len(s) - n) PROVE b[i] # NL
    <3>1. b[i] = s[n + i] /\ n + i \in 1..Len(s) /\ n + i \in (n + 1)..Len(s)
      BY <1>1, <1>3
    <3> QED BY <1>1, <3>1
  <2> QED BY <2>1, <2>2 DEF Unended
<1> QED BY <1>3, <1>4, <1>5 DEF a, b

\* And there is no other way to divide it.
LEMMA OneDivision ==
    \A a, b \in Text : Ended(a) /\ Unended(b) => Lines(a \o b) = a /\ Rest(a \o b) = b
<1> SUFFICES ASSUME NEW a \in Text, NEW b \in Text, Ended(a), Unended(b)
             PROVE  Lines(a \o b) = a /\ Rest(a \o b) = b
  OBVIOUS
<1> DEFINE s == a \o b
           n == LastNL(s)
<1>1. /\ s \in Text /\ Len(a) \in Nat /\ Len(b) \in Nat /\ Len(s) = Len(a) + Len(b)
      /\ DOMAIN b = 1..Len(b)
      /\ \A i \in 1..(Len(a) + Len(b)) : s[i] = IF i <= Len(a) THEN a[i] ELSE b[i - Len(a)]
  BY Joined
<1>2. /\ Lines(s) = SubSeq(s, 1, n) /\ Rest(s) = SubSeq(s, n + 1, Len(s))
  BY DEF Lines, Rest
<1>3. /\ n \in 0..Len(s)
      /\ n = 0 => \A i \in 1..Len(s) : s[i] # NL
      /\ n # 0 => s[n] = NL /\ \A i \in (n + 1)..Len(s) : s[i] # NL
  BY <1>1, LastNLIs
<1> HIDE DEF s, n
<1>4. ASSUME NEW i \in 1..Len(s), i > Len(a) PROVE s[i] # NL
  <2>1. i - Len(a) \in 1..Len(b) /\ s[i] = b[i - Len(a)]
    BY <1>1, <1>4
  <2> QED BY <1>1, <2>1 DEF Unended
<1>5. Len(a) # 0 => s[Len(a)] = NL
  <2> SUFFICES ASSUME Len(a) # 0 PROVE s[Len(a)] = NL
    OBVIOUS
  <2>1. a # <<>>
    BY EmptySeq DEF Text
  <2>2. a[Len(a)] = NL /\ Len(a) \in 1..(Len(a) + Len(b))
    BY <1>1, <2>1 DEF Ended
  <2> QED BY <1>1, <2>2
<1>6. n = Len(a)
  <2>1. CASE n = 0
    BY <1>1, <1>3, <1>5, <2>1
  <2>2. CASE n # 0
    <3>1. n <= Len(a)
      BY <1>1, <1>3, <1>4, <2>2
    <3>2. ~(n < Len(a))
      BY <1>1, <1>3, <1>5, <2>2
    <3> QED BY <1>1, <1>3, <3>1, <3>2
  <2> QED BY <2>1, <2>2
<1>7. /\ SubSeq(s, 1, n) \in Text /\ SubSeq(s, n + 1, Len(s)) \in Text
      /\ Len(SubSeq(s, 1, n)) = n /\ Len(SubSeq(s, n + 1, Len(s))) = Len(s) - n
      /\ \A i \in 1..n : SubSeq(s, 1, n)[i] = s[i]
      /\ \A i \in 1..(Len(s) - n) : SubSeq(s, n + 1, Len(s))[i] = s[n + i]
  BY <1>1, <1>3, Part
<1>8. SubSeq(s, 1, n) = a
  <2>1. ASSUME NEW i \in 1..n PROVE SubSeq(s, 1, n)[i] = a[i]
    <3>1. SubSeq(s, 1, n)[i] = s[i] /\ i \in 1..(Len(a) + Len(b)) /\ i <= Len(a)
      BY <1>1, <1>6, <1>7
    <3> QED BY <1>1, <3>1
  <2> QED BY <1>6, <1>7, <2>1, SeqEqual DEF Text
<1>9. SubSeq(s, n + 1, Len(s)) = b
  <2>1. Len(s) - n = Len(b)
    BY <1>1, <1>6
  <2>2. ASSUME NEW i \in 1..Len(b) PROVE SubSeq(s, n + 1, Len(s))[i] = b[i]
    <3>1. SubSeq(s, n + 1, Len(s))[i] = s[n + i]
      BY <1>7, <2>1
    <3>2. n + i \in 1..(Len(a) + Len(b)) /\ ~(n + i <= Len(a)) /\ (n + i) - Len(a) = i
      BY <1>1, <1>6
    <3>3. s[n + i] = b[(n + i) - Len(a)]
      BY <1>1, <3>2
    <3> QED BY <3>1, <3>2, <3>3
  <2> QED BY <1>7, <2>1, <2>2, SeqEqual DEF Text
<1> QED BY <1>2, <1>8, <1>9 DEF s

\* A text ends with a complete line if its second half does.
LEMMA EndedJoined ==
    \A a, b \in Text : Ended(a) /\ Ended(b) => Ended(a \o b)
<1> SUFFICES ASSUME NEW a \in Text, NEW b \in Text, Ended(a), Ended(b)
             PROVE  Ended(a \o b)
  OBVIOUS
<1>1. CASE b = <<>>
  <2>1. a \o b = a
    BY <1>1, Joined
  <2> QED BY <2>1
<1>2. CASE b # <<>>
  <2>1. Len(b) \in Nat \ {0} /\ Len(a) \in Nat /\ Len(a \o b) = Len(a) + Len(b)
    BY <1>2, EmptySeq, Joined DEF Text
  <2>2. Len(a) + Len(b) \in 1..(Len(a) + Len(b)) /\ ~(Len(a) + Len(b) <= Len(a))
        /\ (Len(a) + Len(b)) - Len(a) = Len(b)
    BY <2>1
  <2>3. (a \o b)[Len(a \o b)] = b[Len(b)]
    BY <2>1, <2>2, Joined
  <2> QED BY <1>2, <2>3 DEF Ended
<1> QED BY <1>1, <1>2

\* A line without its newline.
LEMMA FrontOfLines ==
    \A a \in Text : Ended(a) /\ a # <<>> =>
        Front(a) \in Text /\ Append(Front(a), NL) = a
<1> SUFFICES ASSUME NEW a \in Text, Ended(a), a # <<>>
             PROVE  Front(a) \in Text /\ Append(Front(a), NL) = a
  OBVIOUS
<1> DEFINE n == Len(a) - 1
           f == SubSeq(a, 1, n)
<1>1. Len(a) \in Nat \ {0} /\ a[Len(a)] = NL
  BY EmptySeq DEF Text, Ended
<1>2. n \in 0..Len(a) /\ n \in Nat /\ n + 1 = Len(a)
  BY <1>1
<1>3. f \in Seq(Nat) /\ Len(f) = n /\ \A i \in 1..n : f[i] = a[i]
  BY <1>2, Part DEF Text
<1> HIDE DEF n, f
<1>4. NL \in Nat
  BY DEF NL
<1>5. /\ Append(f, NL) \in Seq(Nat) /\ Len(Append(f, NL)) = n + 1
      /\ \A i \in 1..n : Append(f, NL)[i] = f[i]
      /\ Append(f, NL)[n + 1] = NL
  BY <1>3, <1>4, AppendProperties
<1>6. ASSUME NEW i \in 1..(n + 1) PROVE Append(f, NL)[i] = a[i]
  <2>1. i \in 1..n \/ i = n + 1
    BY <1>2
  <2> QED BY <1>1, <1>2, <1>3, <1>5, <2>1
<1>7. Append(f, NL) = a
  BY <1>2, <1>5, <1>6, SeqEqual DEF Text
<1>8. f = Front(a)
  BY DEF Front, f, n
<1> QED BY <1>3, <1>7, <1>8 DEF Text

\* A text without a newline has no complete line.
LEMMA NewlineIn ==
    \A s \in Text : NL \in ToSet(s) <=> Lines(s) # <<>>
<1> SUFFICES ASSUME NEW s \in Text PROVE NL \in ToSet(s) <=> Lines(s) # <<>>
  OBVIOUS
<1> DEFINE a == Lines(s)
           b == Rest(s)
<1>1. a \in Text /\ b \in Text /\ a \o b = s /\ Ended(a) /\ Unended(b)
  BY LinesAndRest
<1> HIDE DEF a, b
<1>2. CASE a = <<>>
  <2>1. s = b
    BY <1>1, <1>2, Joined
  <2> QED BY <1>1, <1>2, <2>1 DEF a, Unended, ToSet
<1>3. CASE a # <<>>
  <2>1. Len(a) \in Nat \ {0} /\ a[Len(a)] = NL
    BY <1>1, <1>3, EmptySeq DEF Text, Ended
  <2>2. /\ Len(b) \in Nat /\ Len(a \o b) = Len(a) + Len(b) /\ DOMAIN (a \o b) = 1..Len(a \o b)
        /\ \A i \in 1..(Len(a) + Len(b)) :
              (a \o b)[i] = IF i <= Len(a) THEN a[i] ELSE b[i - Len(a)]
    BY <1>1, Joined
  <2>3. (a \o b)[Len(a)] = NL /\ Len(a) \in DOMAIN (a \o b)
    <3>1. Len(a) \in 1..(Len(a) + Len(b))
      BY <2>1, <2>2
    <3> QED BY <2>1, <2>2, <3>1
  <2>4. s[Len(a)] = NL /\ Len(a) \in DOMAIN s
    BY <1>1, <2>3, Zenon
  <2> QED BY <1>3, <2>4 DEF a, ToSet
<1> QED BY <1>2, <1>3

\* One character goes from the start of one text to the end of another.
LEMMA OneMoves ==
    \A a, b \in Text : b # <<>> =>
        Append(a, Head(b)) \in Text /\ Tail(b) \in Text /\ Append(a, Head(b)) \o Tail(b) = a \o b
<1> SUFFICES ASSUME NEW a \in Text, NEW b \in Text, b # <<>>
             PROVE  /\ Append(a, Head(b)) \in Text /\ Tail(b) \in Text
                    /\ Append(a, Head(b)) \o Tail(b) = a \o b
  OBVIOUS
<1>1. /\ Len(b) \in Nat \ {0} /\ Head(b) \in Nat /\ Tail(b) \in Seq(Nat)
      /\ a \in Seq(Nat) /\ b \in Seq(Nat)
      /\ Head(b) = b[1]
  BY EmptySeq, HeadTailProperties DEF Text
<1>2. Append(a, Head(b)) \in Seq(Nat) /\ Append(a, Head(b)) = a \o <<Head(b)>>
  BY <1>1, AppendProperties, AppendIsConcat
<1>3. <<Head(b)>> \in Seq(Nat)
  BY <1>1
<1>4. b = <<Head(b)>> \o Tail(b)
  BY <1>1
<1>5. (a \o <<Head(b)>>) \o Tail(b) = a \o (<<Head(b)>> \o Tail(b))
  BY <1>1, <1>3, ConcatAssociative, SMTT(30)
<1> QED BY <1>1, <1>2, <1>4, <1>5 DEF Text

-----------------------------------------------------------------------------
(* Blocks in the logs, and lines that were sent.                           *)

\* How FlattenSeq puts the first n texts together.
IsFlat(f, p, n) == f = [i \in 1..n |-> IF i = 1 THEN p[i] ELSE f[i - 1] \o p[i]]

\* There is such a function.
LEMMA FlatExists ==
    \A p, n : n \in Nat => \E f : IsFlat(f, p, n)
<1> SUFFICES ASSUME NEW p PROVE \A n \in Nat : \E f : IsFlat(f, p, n)
  OBVIOUS
<1> DEFINE Bad == {n \in Nat : ~\E f : IsFlat(f, p, n)}
<1> SUFFICES ASSUME Bad # {} PROVE FALSE
  OBVIOUS
<1>1. PICK m \in Bad : \A k \in Bad : m <= k
  BY NatLeast
<1>2. m \in Nat /\ ~\E f : IsFlat(f, p, m)
  OBVIOUS
<1>3. m # 0
  <2> SUFFICES ASSUME m = 0 PROVE FALSE
    OBVIOUS
  <2>1. \A i \in 1..m : FALSE
    OBVIOUS
  <2>2. IsFlat([i \in 1..m |-> 0], p, m)
    BY <2>1 DEF IsFlat
  <2> QED BY <1>2, <2>2
<1>4. m - 1 \in Nat /\ ~(m <= m - 1)
  BY <1>2, <1>3
<1>5. PICK g : IsFlat(g, p, m - 1)
  BY <1>1, <1>4
<1> DEFINE h == [i \in 1..m |-> IF i = 1 THEN p[i] ELSE g[i - 1] \o p[i]]
<1>6. ASSUME NEW i \in 1..m, i # 1 PROVE h[i - 1] = g[i - 1]
  <2>1. i - 1 \in 1..m /\ i - 1 \in 1..(m - 1)
    BY <1>2, <1>6
  <2>2. h[i - 1] = IF i - 1 = 1 THEN p[i - 1] ELSE g[(i - 1) - 1] \o p[i - 1]
    BY <2>1
  <2>3. g[i - 1] = IF i - 1 = 1 THEN p[i - 1] ELSE g[(i - 1) - 1] \o p[i - 1]
    BY <1>5, <2>1 DEF IsFlat
  <2> QED BY <2>2, <2>3
<1>7. IsFlat(h, p, m)
  BY <1>6 DEF IsFlat
<1> QED BY <1>2, <1>7

\* Two such functions for texts of which one list starts with the other agree.
LEMMA FlatAgree ==
    ASSUME NEW n \in Nat, NEW k \in Nat, n <= k, NEW p, NEW q, \A i \in 1..n : p[i] = q[i],
           NEW f, NEW g, IsFlat(f, p, n), IsFlat(g, q, k)
    PROVE  \A i \in 1..n : f[i] = g[i]
<1> DEFINE Bad == {i \in 1..n : f[i] # g[i]}
<1> SUFFICES ASSUME Bad # {} PROVE FALSE
  OBVIOUS
<1>1. Bad \in SUBSET Nat
  OBVIOUS
<1>2. PICK m \in Bad : \A i \in Bad : m <= i
  BY <1>1, NatLeast
<1>3. m \in 1..n /\ m \in 1..k /\ f[m] # g[m]
  OBVIOUS
<1>4. f[m] = IF m = 1 THEN p[m] ELSE f[m - 1] \o p[m]
  BY <1>3 DEF IsFlat
<1>5. g[m] = IF m = 1 THEN q[m] ELSE g[m - 1] \o q[m]
  BY <1>3 DEF IsFlat
<1>6. CASE m = 1
  BY <1>3, <1>4, <1>5, <1>6
<1>7. CASE m # 1
  <2>1. m - 1 \in 1..n /\ ~(m <= m - 1)
    BY <1>3, <1>7
  <2>2. f[m - 1] = g[m - 1]
    BY <1>2, <2>1
  <2> QED BY <1>3, <1>4, <1>5, <1>7, <2>2
<1> QED BY <1>6, <1>7

\* What FlattenSeq computes.
LEMMA FlattenIs ==
    \A p : Len(p) \in Nat /\ Len(p) # 0 => \E f : IsFlat(f, p, Len(p)) /\ FlattenSeq(p) = f[Len(p)]
<1> SUFFICES ASSUME NEW p, Len(p) \in Nat, Len(p) # 0
             PROVE  \E f : IsFlat(f, p, Len(p)) /\ FlattenSeq(p) = f[Len(p)]
  OBVIOUS
<1> DEFINE F == CHOOSE f : IsFlat(f, p, Len(p))
<1>1. FlattenSeq(p) = F[Len(p)]
  BY DEF FlattenSeq, IsFlat
<1>2. IsFlat(F, p, Len(p))
  BY FlatExists
<1> HIDE DEF F
<1> QED BY <1>1, <1>2

\* It is a text.
LEMMA FlattenIsSeq ==
    ASSUME NEW S, NEW p \in Seq(Seq(S))
    PROVE  FlattenSeq(p) \in Seq(S)
<1> DEFINE n == Len(p)
<1>1. n \in Nat /\ \A i \in 1..n : p[i] \in Seq(S)
  BY LenProperties, ElementOfSeq
<1>2. CASE n = 0
  <2>1. p = <<>>
    BY <1>2, EmptySeq
  <2> QED BY <1>2, <2>1, EmptySeq DEF FlattenSeq
<1>3. CASE n # 0
  <2>1. PICK f : IsFlat(f, p, n) /\ FlattenSeq(p) = f[n]
    BY <1>1, <1>3, FlattenIs
  <2> HIDE DEF n
  <2> DEFINE Bad == {i \in 1..n : f[i] \notin Seq(S)}
  <2>2. CASE Bad = {}
    <3>1. n \in 1..n
      BY <1>1, <1>3
    <3> QED BY <2>1, <2>2, <3>1
  <2>3. CASE Bad # {}
    <3>1. Bad \in SUBSET Nat
      OBVIOUS
    <3>2. PICK m \in Bad : \A i \in Bad : m <= i
      BY <2>3, <3>1, NatLeast
    <3>3. m \in 1..n /\ f[m] \notin Seq(S) /\ p[m] \in Seq(S)
      BY <1>1
    <3>4. f[m] = IF m = 1 THEN p[m] ELSE f[m - 1] \o p[m]
      BY <2>1, <3>3 DEF IsFlat
    <3>5. m # 1
      BY <3>3, <3>4
    <3>6. m - 1 \in 1..n /\ ~(m <= m - 1)
      BY <1>1, <3>3, <3>5
    <3>7. f[m - 1] \in Seq(S)
      BY <3>2, <3>6
    <3> QED BY <3>3, <3>4, <3>5, <3>7, ConcatProperties
  <2> QED BY <2>2, <2>3
<1> QED BY <1>2, <1>3

\* One text more.
LEMMA FlattenAppend ==
    ASSUME NEW S, NEW p \in Seq(Seq(S)), NEW x \in Seq(S)
    PROVE  FlattenSeq(Append(p, x)) = FlattenSeq(p) \o x
<1> DEFINE q == Append(p, x)
           n == Len(p)
<1>1. /\ n \in Nat /\ Len(q) = n + 1 /\ q[n + 1] = x
      /\ \A i \in 1..n : p[i] = q[i]
  BY AppendProperties, LenProperties
<1>2. n = 0 => p = <<>>
  BY EmptySeq
<1> HIDE DEF q, n
<1>3. PICK g : IsFlat(g, q, n + 1) /\ FlattenSeq(q) = g[n + 1]
  BY <1>1, FlattenIs
<1>4. g[n + 1] = IF n + 1 = 1 THEN x ELSE g[n] \o x
  <2>1. n + 1 \in 1..(n + 1) /\ (n + 1) - 1 = n
    BY <1>1
  <2> QED BY <1>1, <1>3, <2>1 DEF IsFlat
<1>5. CASE n = 0
  <2>1. FlattenSeq(p) = p /\ p = <<>>
    BY <1>2, <1>5 DEF FlattenSeq, n
  <2>2. <<>> \o x = x
    BY ConcatEmptySeq
  <2> QED BY <1>1, <1>3, <1>4, <1>5, <2>1, <2>2 DEF q
<1>6. CASE n # 0
  <2>1. PICK f : IsFlat(f, p, n) /\ FlattenSeq(p) = f[n]
    BY <1>1, <1>6, FlattenIs DEF n
  <2>2. n <= n + 1 /\ n + 1 \in Nat /\ n \in 1..n /\ n + 1 # 1
    BY <1>1, <1>6
  <2>3. \A i \in 1..n : f[i] = g[i]
    <3> DEFINE l == n + 1
    <3>1. l \in Nat /\ n <= l /\ n \in Nat /\ IsFlat(g, q, l) /\ IsFlat(f, p, n)
          /\ \A i \in 1..n : p[i] = q[i]
      BY <1>1, <1>3, <2>1, <2>2
    <3> HIDE DEF l
    <3> QED BY <3>1, FlatAgree
  <2>4. FlattenSeq(q) = FlattenSeq(p) \o x
    BY <1>3, <1>4, <2>1, <2>2, <2>3
  <2> QED BY <2>4 DEF q
<1> QED BY <1>5, <1>6

\* What each block of a log is for a command.
BlockOf(m, r) == IF m.run = r THEN <<m.text>> ELSE <<>>
LinesOf(m, r) == IF m.run = r THEN Append(m.text, NL) ELSE <<>>

\* A block more in a log.
LEMMA BlocksAppend ==
    ASSUME NEW s \in Seq(Block), NEW m \in Block, NEW r
    PROVE  /\ m.run = r /\ Blocks(s, r) = <<>> => Blocks(Append(s, m), r) = <<m.text>>
           /\ m.run # r => Blocks(Append(s, m), r) = Blocks(s, r)
<1> DEFINE all(u) == [k \in DOMAIN u |-> BlockOf(u[k], r)]
<1>1. \A b \in Block : BlockOf(b, r) \in Seq(Text)
  BY DEF BlockOf, Block, Text
<1>2. all(s) \in Seq(Seq(Text))
  <2>1. DOMAIN s = 1..Len(s) /\ Len(s) \in Nat /\ \A k \in DOMAIN s : s[k] \in Block
    BY LenProperties, ElementOfSeq
  <2>2. \A k \in DOMAIN s : all(s)[k] \in Seq(Text)
    BY <1>1, <2>1
  <2> QED BY <2>1, <2>2
<1>3. all(Append(s, m)) = Append(all(s), BlockOf(m, r))
  BY DEF BlockOf
<1>4. \A u : Blocks(u, r) = FlattenSeq(all(u))
  BY DEF Blocks, BlockOf
<1> HIDE DEF all
<1>5. Blocks(Append(s, m), r) = FlattenSeq(all(s)) \o BlockOf(m, r)
  BY <1>1, <1>2, <1>3, <1>4, FlattenAppend
<1>6. FlattenSeq(all(s)) \in Seq(Text)
  BY <1>2, FlattenIsSeq
<1>7. Blocks(Append(s, m), r) = Blocks(s, r) \o BlockOf(m, r)
  BY <1>4, <1>5
<1>8. CASE m.run = r
  <2>1. BlockOf(m, r) = <<m.text>> /\ <<m.text>> \in Seq(Text)
    BY <1>8 DEF BlockOf, Block, Text
  <2>2. <<>> \o <<m.text>> = <<m.text>>
    BY <2>1, ConcatEmptySeq
  <2> QED BY <1>7, <1>8, <2>1, <2>2
<1>9. CASE m.run # r
  <2>1. BlockOf(m, r) = <<>>
    BY <1>9 DEF BlockOf
  <2>2. FlattenSeq(all(s)) \o <<>> = FlattenSeq(all(s))
    BY <1>6, ConcatEmptySeq
  <2> QED BY <1>4, <1>5, <1>9, <2>1, <2>2
<1> QED BY <1>8, <1>9

\* And the lines of a block more that is sent.
LEMMA SentAppend ==
    ASSUME NEW s \in Seq(Block), NEW m \in Block, NEW r
    PROVE  /\ Sent(s, r) \in Text
           /\ m.run = r => Sent(Append(s, m), r) = Sent(s, r) \o Append(m.text, NL)
           /\ m.run # r => Sent(Append(s, m), r) = Sent(s, r)
<1> DEFINE all(u) == [k \in DOMAIN u |-> LinesOf(u[k], r)]
<1>1. \A b \in Block : LinesOf(b, r) \in Text
  BY DEF LinesOf, Block, Text, NL
<1>2. all(s) \in Seq(Text)
  <2>1. DOMAIN s = 1..Len(s) /\ Len(s) \in Nat /\ \A k \in DOMAIN s : s[k] \in Block
    BY LenProperties, ElementOfSeq
  <2>2. \A k \in DOMAIN s : all(s)[k] \in Text
    BY <1>1, <2>1
  <2> QED BY <2>1, <2>2
<1>3. all(Append(s, m)) = Append(all(s), LinesOf(m, r))
  BY DEF LinesOf
<1>4. \A u : Sent(u, r) = FlattenSeq(all(u))
  BY DEF Sent, LinesOf
<1> HIDE DEF all
<1>5. Sent(Append(s, m), r) = FlattenSeq(all(s)) \o LinesOf(m, r)
  BY <1>1, <1>2, <1>3, <1>4, FlattenAppend DEF Text
<1>6. FlattenSeq(all(s)) \in Text
  BY <1>2, FlattenIsSeq DEF Text
<1>7. CASE m.run = r
  BY <1>4, <1>5, <1>6, <1>7 DEF LinesOf
<1>8. CASE m.run # r
  <2>1. LinesOf(m, r) = <<>>
    BY <1>8 DEF LinesOf
  <2>2. FlattenSeq(all(s)) \o <<>> = FlattenSeq(all(s))
    BY <1>6, Joined
  <2> QED BY <1>4, <1>5, <1>6, <1>8, <2>1, <2>2
<1> QED BY <1>4, <1>6, <1>7, <1>8

\* Nothing is in an empty log.
LEMMA NothingInEmpty == \A r : Blocks(<<>>, r) = <<>> /\ Sent(<<>>, r) = <<>>
BY DEF Blocks, Sent, FlattenSeq

-----------------------------------------------------------------------------
(* The steps.                                                              *)

\* Constants, threads and pipes.
LEMMA Constants ==
    /\ Worker \in Threads /\ Soap \in Threads /\ Worker # Soap
    /\ \A t \in Threads : t \in Pipes /\ t \notin Jobs
    /\ \A j \in Jobs : j \in Pipes /\ j \notin Threads /\ j \in Nat /\ j # NoJob
    /\ NoJob \notin Jobs /\ NoJob \in Nat
    /\ Outputs \subseteq Text /\ CacheOutputs \subseteq Text
    /\ MaxJobs \in Nat /\ MaxRuns \in Nat
    /\ Parent \notin Jobs /\ Command \notin Jobs /\ Parent # Command
<1>1. /\ Worker # Soap /\ Threads \intersect Jobs = {} /\ MaxJobs \in Nat /\ MaxRuns \in Nat
      /\ Parent \notin Jobs /\ Command \notin Jobs /\ Parent # Command
      /\ Outputs \subseteq Text /\ CacheOutputs \subseteq Text
  BY LogPipesAssumption DEF Text
<1>2. Worker \in Threads /\ Soap \in Threads
  BY DEF Threads
<1>3. \A t \in Threads : t \in Pipes /\ t \notin Jobs
  BY <1>1 DEF Pipes
<1>4. \A j \in Jobs : j \in Pipes /\ j \notin Threads
  BY <1>1 DEF Pipes
<1>5. NoJob \notin Jobs /\ NoJob \in Nat /\ \A j \in Jobs : j \in Nat /\ j # NoJob
  BY <1>1 DEF Jobs, NoJob
<1> QED BY <1>1, <1>2, <1>3, <1>4, <1>5

\* What a record is, and where it goes.
RunOf(p) == IF p \in Threads THEN current[p] ELSE 0
LEMMA RecordIs ==
    ASSUME TypeOK, NEW store \in [Jobs -> Seq(Block)], NEW p \in Pipes, NEW text \in Text
    PROVE  LET s == Record(store, p, text)
               m == [run |-> RunOf(p), text |-> text]
           IN /\ s \in [Jobs -> Seq(Block)] /\ m \in Block
              /\ p = Soap \/ handler = NoJob => s = store
              /\ p # Soap /\ handler # NoJob =>
                    \A j \in Jobs : s[j] = IF j = handler THEN Append(store[j], m) ELSE store[j]
              /\ \A j \in Jobs, r \in Nat : r # RunOf(p) =>
                    Blocks(s[j], r) = Blocks(store[j], r) /\ Sent(s[j], r) = Sent(store[j], r)
<1> DEFINE s == Record(store, p, text)
           m == [run |-> RunOf(p), text |-> text]
<1>1. RunOf(p) \in Nat
  <2>1. CASE p \in Threads
    <3>1. current[p] \in 0..Len(ran)
      BY <2>1 DEF TypeOK
    <3> QED BY <2>1, <3>1 DEF RunOf
  <2>2. CASE p \notin Threads
    BY <2>2 DEF RunOf
  <2> QED BY <2>1, <2>2
<1>2. m \in Block
  BY <1>1 DEF Block, Text
<1>3. s = LET j == IF p = Soap THEN NoJob ELSE handler
          IN IF j = NoJob THEN store ELSE [store EXCEPT ![j] = Append(@, m)]
  BY DEF Record, RunOf
<1> HIDE DEF s, m
<1>4. handler \in Jobs \/ handler = NoJob
  BY DEF TypeOK
<1>5. CASE p = Soap \/ handler = NoJob
  <2>1. s = store
    BY <1>3, <1>5
  <2> QED BY <1>2, <1>5, <2>1 DEF s, m
<1>6. CASE p # Soap /\ handler # NoJob
  <2>1. s = [store EXCEPT ![handler] = Append(@, m)] /\ handler \in Jobs
    BY <1>3, <1>4, <1>6
  <2>2. \A j \in Jobs : s[j] = IF j = handler THEN Append(store[j], m) ELSE store[j]
    BY <2>1
  <2>3. Append(store[handler], m) \in Seq(Block)
    BY <1>2, <2>1, AppendProperties
  <2>4. s \in [Jobs -> Seq(Block)]
    BY <2>1, <2>3
  <2>5. ASSUME NEW j \in Jobs, NEW r \in Nat, r # RunOf(p)
        PROVE  Blocks(s[j], r) = Blocks(store[j], r) /\ Sent(s[j], r) = Sent(store[j], r)
    <3>1. m.run # r
      BY <2>5 DEF m
    <3>2. store[j] \in Seq(Block)
      OBVIOUS
    <3> QED BY <1>2, <2>2, <3>1, <3>2, BlocksAppend, SentAppend
  <2> QED BY <1>2, <1>6, <2>2, <2>4, <2>5 DEF s, m
<1> QED BY <1>5, <1>6

\* A function of numbers on 1..n is a text, and it is one of n numbers only.
LEMMA TextIs ==
    /\ \A n \in Nat : [1..n -> Nat] \subseteq Text
    /\ \A m, n \in Nat : 1..m = 1..n => m = n
<1>1. ASSUME NEW n \in Nat, NEW f \in [1..n -> Nat] PROVE f \in Text
  BY SeqDef, Zenon DEF Text
<1>2. ASSUME NEW m \in Nat, NEW n \in Nat, 1..m = 1..n PROVE m = n
  <2>1. m # 0 => m \in 1..m
    OBVIOUS
  <2>2. n # 0 => n \in 1..n
    OBVIOUS
  <2>3. m # 0 => m \in 1..n
    BY <1>2, <2>1
  <2>4. n # 0 => n \in 1..m
    BY <1>2, <2>2
  <2> HIDE <1>2
  <2> QED BY <2>3, <2>4
<1> QED BY <1>1, <1>2

\* A reading is as long as the text, and differs from it in halves only.
LEMMA ReadingIs ==
    \A o, t \in Text :
        t \in Readings(o) <=>
            /\ Len(t) = Len(o)
            /\ \A i \in 1..Len(o) : t[i] = o[i] \/ (o[i] \in {Lead, Trail} /\ t[i] = Replaced)
<1> SUFFICES ASSUME NEW o \in Text, NEW t \in Text
             PROVE  t \in Readings(o) <=>
                      /\ Len(t) = Len(o)
                      /\ \A i \in 1..Len(o) :
                            t[i] = o[i] \/ (o[i] \in {Lead, Trail} /\ t[i] = Replaced)
  OBVIOUS
<1> DEFINE Reread(cut) == [i \in DOMAIN o |-> IF i \in cut THEN Replaced ELSE o[i]]
<1>1. /\ o \in [1..Len(o) -> Nat] /\ Len(o) \in Nat /\ DOMAIN o = 1..Len(o)
      /\ t \in [1..Len(t) -> Nat] /\ Len(t) \in Nat /\ DOMAIN t = 1..Len(t)
  BY LenProperties DEF Text
<1>2. ASSUME NEW cut \in SUBSET Halves(o), t = Reread(cut)
      PROVE  /\ Len(t) = Len(o)
             /\ \A i \in 1..Len(o) : t[i] = o[i] \/ (o[i] \in {Lead, Trail} /\ t[i] = Replaced)
  <2>1. DOMAIN t = 1..Len(o)
    BY <1>1, <1>2
  <2>2. Len(t) = Len(o)
    BY <1>1, <2>1, TextIs
  <2>3. \A i \in cut : o[i] \in {Lead, Trail}
    BY DEF Halves
  <2> QED BY <1>1, <1>2, <2>2, <2>3
<1>3. ASSUME Len(t) = Len(o),
             \A i \in 1..Len(o) : t[i] = o[i] \/ (o[i] \in {Lead, Trail} /\ t[i] = Replaced)
      PROVE  \E cut \in SUBSET Halves(o) : t = Reread(cut)
  <2> DEFINE c == {i \in DOMAIN o : t[i] # o[i]}
  <2>1. c \in SUBSET Halves(o)
    BY <1>1, <1>3 DEF Halves
  <2>2. \A i \in 1..Len(o) : t[i] = Reread(c)[i]
    BY <1>1, <1>3
  <2>3. t = Reread(c)
    BY <1>1, <1>3, <2>2
  <2> HIDE DEF c, Reread
  <2> QED BY <2>1, <2>3
<1>4. t \in Readings(o) <=> \E cut \in SUBSET Halves(o) : t = Reread(cut)
  BY DEF Readings
<1> HIDE DEF Reread
<1> QED BY <1>2, <1>3, <1>4

\* Readings are texts, and the text is one of them.
LEMMA ReadingText == \A o \in Text : o \in Readings(o) /\ Readings(o) \subseteq Text
<1> SUFFICES ASSUME NEW o \in Text PROVE o \in Readings(o) /\ Readings(o) \subseteq Text
  OBVIOUS
<1>1. /\ o \in [1..Len(o) -> Nat] /\ Len(o) \in Nat /\ DOMAIN o = 1..Len(o)
  BY LenProperties DEF Text
<1>2. o \in Readings(o)
  BY ReadingIs
<1>3. ASSUME NEW t \in Readings(o) PROVE t \in Text
  <2>1. t \in [1..Len(o) -> Nat]
    BY <1>1 DEF Readings, Replaced
  <2> QED BY <1>1, <2>1, TextIs
<1> QED BY <1>2, <1>3

\* Decoding a part of a reading makes another reading.
LEMMA DecodeText ==
    \A a, c, b, o \in Text :
        /\ Decode(c) \in Text
        /\ a \o (c \o b) \in Readings(o) => a \o (Decode(c) \o b) \in Readings(o)
<1> SUFFICES ASSUME NEW a \in Text, NEW c \in Text, NEW b \in Text, NEW o \in Text
             PROVE  /\ Decode(c) \in Text
                    /\ a \o (c \o b) \in Readings(o) => a \o (Decode(c) \o b) \in Readings(o)
  OBVIOUS
<1>1. c \in [1..Len(c) -> Nat] /\ Len(c) \in Nat /\ DOMAIN c = 1..Len(c)
  BY LenProperties DEF Text
<1> DEFINE d == Decode(c)
<1>2. d \in [1..Len(c) -> Nat]
  BY <1>1 DEF Decode, Replaced
<1>3. d \in Text
  BY <1>1, <1>2, TextIs
<1>4. Len(d) = Len(c)
  BY <1>1, <1>2, <1>3, LenProperties DEF Text
<1>5. \A i \in 1..Len(c) : d[i] = c[i] \/ (c[i] \in {Lead, Trail} /\ d[i] = Replaced)
  BY <1>1 DEF Decode, Whole
<1> HIDE DEF d
<1> DEFINE x == c \o b
           y == d \o b
<1>6. /\ x \in Text /\ y \in Text /\ Len(x) = Len(c) + Len(b) /\ Len(y) = Len(x) /\ Len(b) \in Nat
      /\ \A i \in 1..Len(x) : y[i] = x[i] \/ (x[i] \in {Lead, Trail} /\ y[i] = Replaced)
  <2>1. /\ \A i \in 1..(Len(c) + Len(b)) : (c \o b)[i] = IF i <= Len(c) THEN c[i] ELSE b[i - Len(c)]
        /\ c \o b \in Text /\ Len(c \o b) = Len(c) + Len(b) /\ Len(b) \in Nat
    BY Joined
  <2>2. /\ \A i \in 1..(Len(c) + Len(b)) : (d \o b)[i] = IF i <= Len(c) THEN d[i] ELSE b[i - Len(c)]
        /\ d \o b \in Text /\ Len(d \o b) = Len(c) + Len(b)
    <3>1. /\ \A i \in 1..(Len(d) + Len(b)) : (d \o b)[i] = IF i <= Len(d) THEN d[i] ELSE b[i - Len(d)]
          /\ d \o b \in Text /\ Len(d \o b) = Len(d) + Len(b)
      BY <1>3, Joined
    <3> HIDE DEF x, y
    <3> QED BY <1>4, <3>1, Zenon
  <2>3. ASSUME NEW i \in 1..(Len(c) + Len(b))
        PROVE  y[i] = x[i] \/ (x[i] \in {Lead, Trail} /\ y[i] = Replaced)
    <3>1. CASE i <= Len(c)
      <4>1. i \in 1..Len(c) /\ x[i] = c[i] /\ y[i] = d[i]
        BY <1>1, <2>1, <2>2, <3>1
      <4> QED BY <1>5, <4>1
    <3>2. CASE ~(i <= Len(c))
      <4>1. x[i] = b[i - Len(c)] /\ y[i] = b[i - Len(c)]
        BY <2>1, <2>2, <3>2
      <4> QED BY <4>1
    <3> QED BY <3>1, <3>2
  <2>4. Len(x) = Len(c) + Len(b) /\ Len(y) = Len(x) /\ x \in Text /\ y \in Text /\ Len(b) \in Nat
    BY <2>1, <2>2
  <2> HIDE DEF x, y
  <2> QED BY <2>3, <2>4
<1> HIDE DEF x, y
<1>7. /\ a \o x \in Text /\ a \o y \in Text /\ Len(a \o y) = Len(a \o x)
      /\ \A i \in 1..Len(a \o x) :
            \/ (a \o y)[i] = (a \o x)[i]
            \/ (a \o x)[i] \in {Lead, Trail} /\ (a \o y)[i] = Replaced
  <2>1. /\ \A i \in 1..(Len(a) + Len(x)) : (a \o x)[i] = IF i <= Len(a) THEN a[i] ELSE x[i - Len(a)]
        /\ a \o x \in Text /\ Len(a \o x) = Len(a) + Len(x) /\ Len(x) \in Nat /\ Len(a) \in Nat
    BY <1>6, Joined
  <2>2. /\ \A i \in 1..(Len(a) + Len(x)) : (a \o y)[i] = IF i <= Len(a) THEN a[i] ELSE y[i - Len(a)]
        /\ a \o y \in Text /\ Len(a \o y) = Len(a) + Len(x)
    <3>1. /\ \A i \in 1..(Len(a) + Len(y)) : (a \o y)[i] = IF i <= Len(a) THEN a[i] ELSE y[i - Len(a)]
          /\ a \o y \in Text /\ Len(a \o y) = Len(a) + Len(y)
      BY <1>6, Joined
    <3>2. Len(y) = Len(x)
      BY <1>6
    <3> QED BY <3>1, <3>2, Zenon
  <2> DEFINE u == a \o x
             v == a \o y
  <2>3. ASSUME NEW i \in 1..(Len(a) + Len(x))
        PROVE  v[i] = u[i] \/ (u[i] \in {Lead, Trail} /\ v[i] = Replaced)
    <3>1. CASE i <= Len(a)
      BY <2>1, <2>2, <3>1
    <3>2. CASE ~(i <= Len(a))
      <4>1. i - Len(a) \in 1..Len(x) /\ u[i] = x[i - Len(a)] /\ v[i] = y[i - Len(a)]
        BY <2>1, <2>2, <3>2
      <4> QED BY <1>6, <4>1
    <3> QED BY <3>1, <3>2
  <2>4. Len(u) = Len(a) + Len(x) /\ Len(v) = Len(u) /\ u \in Text /\ v \in Text
    BY <2>1, <2>2
  <2> HIDE DEF u, v
  <2>5. \A i \in 1..Len(u) : v[i] = u[i] \/ (u[i] \in {Lead, Trail} /\ v[i] = Replaced)
    BY <2>3, <2>4
  <2> QED BY <2>4, <2>5 DEF u, v
<1>8. ASSUME a \o x \in Readings(o) PROVE a \o y \in Readings(o)
  <2>1. /\ Len(a \o x) = Len(o)
        /\ \A i \in 1..Len(o) :
              (a \o x)[i] = o[i] \/ (o[i] \in {Lead, Trail} /\ (a \o x)[i] = Replaced)
    BY <1>7, <1>8, ReadingIs
  <2>2. \A i \in 1..Len(o) :
              (a \o y)[i] = o[i] \/ (o[i] \in {Lead, Trail} /\ (a \o y)[i] = Replaced)
    BY <1>7, <2>1 DEF Lead, Trail, Replaced
  <2> QED BY <1>7, <2>1, <2>2, ReadingIs
<1> QED BY <1>3, <1>8 DEF d, x, y

\* The stores say the same about a command as before.
SameFor(r) ==
    \A j \in Jobs : Blocks(log'[j], r) = Blocks(log[j], r) /\ Sent(echo'[j], r) = Sent(echo[j], r)

\* The handlers are its own as long as a thread runs its command, and when it
\* has run it there is nothing to keep.
LEMMA HandlerKeeps ==
    ASSUME LogInv, NEW t \in Threads, Active(t)' => Active(t),
           ran' = ran, current' = current,
           \A u \in Threads : Active(u)' => Active(u),
           t # Worker \/ handler' = handler \/ ~Active(t),
           reader'[t] = reader[t], pipe'[t] = pipe[t], toprint'[t] = toprint[t],
           Active(t) => SameFor(current[t])
    PROVE  OwnHandler(t)'
<1>1. OwnHandler(t)
  BY DEF LogInv
<1>2. CASE ~Active(t)'
  BY <1>2 DEF OwnHandler
<1>3. CASE Active(t)'
  <2>1. Active(t)
    BY <1>3
  <2>2. Logged(current[t]) /\ ~reader[t].alive => Logged(current[t])'
    BY <2>1 DEF Logged, LoggedAs, SameFor
  <2>3. Underway(t) => Underway(t)'
    BY <2>1 DEF Underway, SameFor
  <2> QED BY <1>1, <2>1, <2>2, <2>3 DEF OwnHandler, Logged, LoggedAs
<1> QED BY <1>2, <1>3

\* A thread that takes no part in a step.
LEMMA ThreadKeeps ==
    ASSUME LogInv, NEW t \in Threads,
           pc'[t] = pc[t] \/ (~Active(t) /\ ~Active(t)'),
           ran' = ran, current' = current,
           \A u \in Threads : Active(u)' => Active(u),
           t # Worker \/ handler' = handler \/ ~Active(t),
           reader'[t] = reader[t], pipe'[t] = pipe[t], toprint'[t] = toprint[t],
           Parent \in holders[t] => Parent \in holders'[t],
           Command \in holders[t] => Command \in holders'[t],
           Active(t) => SameFor(current[t])
    PROVE  PipeHeld(t)' /\ OwnHandler(t)'
<1>1. PipeHeld(t)
  BY DEF LogInv
<1>2. PipeHeld(t)'
  BY <1>1 DEF PipeHeld, Active
<1>3. OwnHandler(t)'
  BY HandlerKeeps DEF Active
<1> QED BY <1>2, <1>3

\* The commands that have returned, and the ones to come.
NoneAhead ==
    \A r \in (Len(ran) + 1)..MaxRuns, j \in Jobs : Blocks(log[j], r) = <<>> /\ Sent(echo[j], r) = <<>>

LEMMA RunsKeep ==
    ASSUME LogInv, ran' = ran, current' = current,
           \A u \in Threads : Active(u) => Active(u)',
           \A r \in DOMAIN ran : Returned(r) => SameFor(r),
           \A r \in (Len(ran) + 1)..MaxRuns : SameFor(r)
    PROVE  OutputLogged' /\ NoneAhead'
<1>1. OutputLogged /\ NoneAhead
  BY DEF LogInv, NoneAhead
<1>2. ASSUME NEW r \in DOMAIN ran, Returned(r)' PROVE Logged(r)'
  <2>1. Returned(r)
    BY <1>2 DEF Returned, Active
  <2>2. Logged(r) /\ SameFor(r)
    BY <1>1, <2>1 DEF OutputLogged
  <2> QED BY <2>2 DEF Logged, LoggedAs, SameFor
<1>3. OutputLogged'
  BY <1>2 DEF OutputLogged
<1>4. NoneAhead'
  BY <1>1 DEF NoneAhead, SameFor
<1> QED BY <1>3, <1>4

\* What is underway of a command, before a step of its pipe.
LEMMA Alive ==
    ASSUME LogInv, NEW t \in Threads, Active(t)
    PROVE  /\ current[t] \in DOMAIN ran /\ current[t] \in Nat /\ current[t] # 0
           /\ ran[current[t]].output \in Text
           /\ ran[current[t]].job = IF t = Worker THEN handler ELSE NoJob
           /\ \A u \in Threads \ {t} : Active(u) => current[u] # current[t]
           /\ reader[t].alive => Underway(t)
           /\ ~reader[t].alive => Logged(current[t])
<1>1. OwnHandler(t) /\ TypeOK
  BY DEF LogInv
<1>2. current[t] \in DOMAIN ran /\ DOMAIN ran = 1..Len(ran) /\ Len(ran) \in Nat
  BY <1>1, LenProperties DEF OwnHandler, TypeOK
<1>3. ran[current[t]] \in [job : Jobs \union {NoJob}, output : Outputs]
  BY <1>1, <1>2, ElementOfSeq DEF TypeOK
<1> QED BY <1>1, <1>2, <1>3, Constants DEF OwnHandler

\* The parts of the state have their types.
LEMMA Types ==
    ASSUME TypeOK, NEW p \in Pipes
    PROVE  /\ toprint[p] \in Text /\ pipe[p] \in Text
           /\ reader[p] \in [alive : BOOLEAN, lines : Text, rest : Text]
           /\ Len(ran) \in Nat /\ DOMAIN ran = 1..Len(ran)
BY LenProperties DEF TypeOK, Text

\* A reader that has started, and one that has ended.
LEMMA Readers ==
    /\ Started \in [alive : BOOLEAN, lines : Text, rest : Text]
    /\ Started.alive /\ Started.lines = <<>> /\ Started.rest = <<>>
    /\ Closed \in [alive : BOOLEAN, lines : Text, rest : Text] /\ ~Closed.alive
<1>1. <<>> \in Text
  BY DEF Text
<1>2. Closed \in [alive : BOOLEAN, lines : Text, rest : Text]
  BY <1>1 DEF Closed
<1>3. Started \in [alive : BOOLEAN, lines : Text, rest : Text]
  BY <1>2 DEF Started
<1>4. Started.alive /\ Started.lines = <<>> /\ Started.rest = <<>> /\ ~Closed.alive
  BY DEF Started, Closed
<1> QED BY <1>2, <1>3, <1>4

\* The worker takes jobs and ends them, and cache processes come and go.
Bookkeeping == Enqueue \/ TakeJob \/ OpenLog \/ CloseLog \/ StartCache \/ DropCache

LEMMA DroppedType ==
    ASSUME TypeOK, Dropped(job)
    PROVE  /\ cache' \subseteq Jobs /\ toprint' \in [Pipes -> Seq(Nat)] /\ DOMAIN holders' = Pipes
           /\ \A t \in Threads : /\ toprint'[t] = toprint[t]
                                 /\ Parent \in holders[t] => Parent \in holders'[t]
                                 /\ Command \in holders[t] => Command \in holders'[t]
<1>1. CASE job \in cache
  <2>1. job \in Jobs
    BY <1>1 DEF TypeOK
  <2>2. /\ toprint' = [toprint EXCEPT ![job] = <<>>]
        /\ holders' = [p \in Pipes |-> holders[p] \ (IF p = job THEN {job, Parent} ELSE {job})]
        /\ cache' = cache \ {job}
    BY <1>1 DEF Dropped
  <2>3. <<>> \in Seq(Nat)
    OBVIOUS
  <2>4. toprint' \in [Pipes -> Seq(Nat)]
    BY <2>1, <2>2, <2>3 DEF TypeOK
  <2>5. ASSUME NEW t \in Threads
        PROVE  /\ toprint'[t] = toprint[t]
               /\ Parent \in holders[t] => Parent \in holders'[t]
               /\ Command \in holders[t] => Command \in holders'[t]
    <3>1. t # job /\ Parent # job /\ Command # job /\ t \in Pipes
      BY <2>1, Constants
    <3> QED BY <2>2, <3>1 DEF TypeOK
  <2> QED BY <2>2, <2>4, <2>5 DEF TypeOK
<1>2. CASE job \notin cache
  BY <1>2 DEF Dropped, TypeOK
<1> QED BY <1>1, <1>2

LEMMA BookkeepingType ==
    ASSUME TypeOK, Bookkeeping
    PROVE  /\ TypeOK'
           /\ UNCHANGED <<ran, current, log, echo>> /\ pc'[Soap] = pc[Soap]
           /\ \A t \in Threads : pc'[t] = pc[t] \/ (~Active(t) /\ ~Active(t)')
           /\ \A t \in Threads : Active(t) => t # Worker \/ handler' = handler
           /\ \A t \in Threads : /\ reader'[t] = reader[t] /\ pipe'[t] = pipe[t]
                                 /\ toprint'[t] = toprint[t]
                                 /\ Parent \in holders[t] => Parent \in holders'[t]
                                 /\ Command \in holders[t] => Command \in holders'[t]
<1>0. /\ requested \in Nat /\ job \in Nat /\ job <= requested /\ requested <= MaxJobs
      /\ MaxJobs \in Nat /\ Jobs = 1..MaxJobs /\ NoJob = 0
      /\ pc \in [Threads -> {"get", "open", "idle", "running", "exited", "join"}]
  BY Constants DEF TypeOK, Jobs, NoJob
<1>1. CASE Enqueue
  <2>1. requested' \in 0..MaxJobs /\ job' \in 0..requested'
    BY <1>0, <1>1 DEF Enqueue
  <2> QED BY <1>1, <2>1 DEF Enqueue, runvars, pipevars, logvars, TypeOK, Active
<1>2. CASE TakeJob
  <2>1. Dropped(job) /\ job' = job + 1 /\ pc' = [pc EXCEPT ![Worker] = "open"]
        /\ pc[Worker] = "get" /\ requested' = requested /\ job < requested
    BY <1>2 DEF TakeJob
  <2>2. job' \in 0..requested' /\ job' \in Jobs
    BY <1>0, <2>1
  <2>3. pc' \in [Threads -> {"get", "open", "idle", "running", "exited", "join"}]
    BY <1>0, <2>1
  <2>4. \A t \in Threads : pc'[t] = pc[t] \/ (~Active(t) /\ ~Active(t)')
    BY <1>0, <2>1 DEF Active
  <2>5. TypeOK'
    BY <1>2, <2>1, <2>2, <2>3, DroppedType DEF TakeJob, TypeOK, runvars, logvars
  <2>6. pc'[Soap] = pc[Soap]
    BY <1>0, <2>1, Constants
  <2> QED BY <1>2, <2>1, <2>4, <2>5, <2>6, DroppedType DEF TakeJob, runvars, logvars
<1>3. CASE OpenLog \/ CloseLog
  <2>1. \E l \in {"idle", "get"} : pc' = [pc EXCEPT ![Worker] = l]
    BY <1>3 DEF OpenLog, CloseLog
  <2>2. pc' \in [Threads -> {"get", "open", "idle", "running", "exited", "join"}]
    BY <1>0, <2>1
  <2>3. handler' \in Jobs \union {NoJob} /\ (pc'[Worker] = "get" \/ job' \in Jobs)
    BY <1>0, <1>3, Constants DEF OpenLog, CloseLog, TypeOK
  <2>4. ~Active(Worker)
    BY <1>3 DEF OpenLog, CloseLog, Active
  <2>5. \A t \in Threads : pc'[t] = pc[t] \/ (~Active(t) /\ ~Active(t)')
    BY <1>0, <1>3, <2>4, Constants DEF OpenLog, CloseLog, Active
  <2>6. TypeOK'
    BY <1>3, <2>2, <2>3 DEF OpenLog, CloseLog, TypeOK, runvars, pipevars, logvars
  <2>7. pc'[Soap] = pc[Soap]
    BY <1>0, <2>1, Constants
  <2> QED BY <1>3, <2>4, <2>5, <2>6, <2>7 DEF OpenLog, CloseLog, runvars, pipevars, logvars
<1>4. CASE DropCache
  <2>1. Dropped(job)
    BY <1>4 DEF DropCache
  <2>2. TypeOK'
    BY <1>4, <2>1, DroppedType DEF DropCache, TypeOK, jobvars, runvars, logvars
  <2> QED BY <1>4, <2>1, <2>2, DroppedType DEF DropCache, jobvars, runvars, logvars
<1>5. CASE StartCache
  <2>1. job \in Jobs /\ job \in Pipes
    BY <1>5, Constants DEF StartCache, TypeOK
  <2>2. PICK o \in CacheOutputs : toprint' = [toprint EXCEPT ![job] = o]
    BY <1>5 DEF StartCache
  <2>3. o \in Seq(Nat) /\ <<>> \in Seq(Nat)
    BY Constants DEF Text
  <2>4. toprint' \in [Pipes -> Seq(Nat)] /\ pipe' \in [Pipes -> Seq(Nat)]
    BY <1>5, <2>2, <2>3 DEF StartCache, TypeOK
  <2>5. Started \in [alive : BOOLEAN, lines : Seq(Nat), rest : Seq(Nat)]
    BY Readers DEF Text
  <2>6. reader' \in [Pipes -> [alive : BOOLEAN, lines : Seq(Nat), rest : Seq(Nat)]]
    BY <1>5, <2>5 DEF StartCache, TypeOK
  <2>7. cache' \subseteq Jobs /\ DOMAIN holders' = Pipes
    BY <1>5, <2>1 DEF StartCache, TypeOK
  <2>8. TypeOK'
    BY <1>5, <2>4, <2>6, <2>7 DEF StartCache, TypeOK, jobvars, runvars, logvars
  <2>9. ASSUME NEW t \in Threads
        PROVE  /\ reader'[t] = reader[t] /\ pipe'[t] = pipe[t] /\ toprint'[t] = toprint[t]
               /\ Parent \in holders[t] => Parent \in holders'[t]
               /\ Command \in holders[t] => Command \in holders'[t]
    <3>1. t # job /\ t \in Pipes
      BY <2>1, Constants
    <3> QED BY <1>5, <2>2, <3>1 DEF StartCache, TypeOK
  <2> QED BY <1>5, <2>8, <2>9 DEF StartCache, jobvars, runvars, logvars
<1> QED BY <1>1, <1>2, <1>3, <1>4, <1>5 DEF Bookkeeping

LEMMA BookkeepingKeeps ==
    ASSUME LogInv, Bookkeeping
    PROVE  LogInv'
<1>1. TypeOK /\ pc[Soap] \notin {"get", "open"}
  BY DEF LogInv
<1>2. /\ TypeOK' /\ pc'[Soap] \notin {"get", "open"}
      /\ UNCHANGED <<ran, current, log, echo>>
      /\ \A t \in Threads : pc'[t] = pc[t] \/ (~Active(t) /\ ~Active(t)')
      /\ \A t \in Threads : Active(t) => t # Worker \/ handler' = handler
      /\ \A t \in Threads : /\ reader'[t] = reader[t] /\ pipe'[t] = pipe[t]
                            /\ toprint'[t] = toprint[t]
                            /\ Parent \in holders[t] => Parent \in holders'[t]
                            /\ Command \in holders[t] => Command \in holders'[t]
  BY <1>1, BookkeepingType
<1>3. \A r : SameFor(r)
  BY <1>2 DEF SameFor
<1>4. \A u \in Threads : Active(u)' <=> Active(u)
  BY <1>2 DEF Active
<1>5. ASSUME NEW t \in Threads PROVE PipeHeld(t)' /\ OwnHandler(t)'
  <2>1. pc'[t] = pc[t] \/ (~Active(t) /\ ~Active(t)')
    BY <1>2
  <2>2. ran' = ran /\ current' = current
    BY <1>2
  <2>3. \A u \in Threads : Active(u)' => Active(u)
    BY <1>4
  <2>4. t # Worker \/ handler' = handler \/ ~Active(t)
    BY <1>2
  <2>5. /\ reader'[t] = reader[t] /\ pipe'[t] = pipe[t] /\ toprint'[t] = toprint[t]
        /\ Parent \in holders[t] => Parent \in holders'[t]
        /\ Command \in holders[t] => Command \in holders'[t]
    BY <1>2
  <2>6. SameFor(current[t])
    BY <1>3
  <2> QED BY <2>1, <2>2, <2>3, <2>4, <2>5, <2>6, ThreadKeeps
<1>6. OutputLogged' /\ NoneAhead'
  BY <1>2, <1>3, <1>4, RunsKeep
<1> QED BY <1>2, <1>5, <1>6 DEF LogInv, NoneAhead

\* A step of the pipe p, which changes what is said of no other command.
LEMMA OthersKeep ==
    ASSUME LogInv, NEW p \in Pipes, ran' = ran, current' = current, handler' = handler, pc' = pc,
           \A u \in Threads : u # p =>
              reader'[u] = reader[u] /\ pipe'[u] = pipe[u] /\ toprint'[u] = toprint[u],
           holders' = holders,
           \A u \in Threads : u # p /\ Active(u) => SameFor(current[u]),
           \A r \in DOMAIN ran : Returned(r) => SameFor(r),
           \A r \in (Len(ran) + 1)..MaxRuns : SameFor(r)
    PROVE  /\ \A u \in Threads : u # p => PipeHeld(u)' /\ OwnHandler(u)'
           /\ OutputLogged' /\ NoneAhead'
<1>1. \A u \in Threads : Active(u)' <=> Active(u)
  BY DEF Active
<1>2. ASSUME NEW u \in Threads, u # p PROVE PipeHeld(u)' /\ OwnHandler(u)'
  BY <1>1, <1>2, ThreadKeeps
<1>3. OutputLogged' /\ NoneAhead'
  BY <1>1, RunsKeep
<1> QED BY <1>2, <1>3

\* A command prints, or a cache process.
LEMMA WriteKeeps ==
    ASSUME LogInv, NEW p \in Pipes, Write(p)
    PROVE  LogInv'
<1>1. TypeOK /\ toprint[p] \in Text /\ pipe[p] \in Text /\ toprint[p] # <<>>
  BY Types DEF LogInv, Write
<1>2. /\ Append(pipe[p], Head(toprint[p])) \in Text /\ Tail(toprint[p]) \in Text
      /\ Append(pipe[p], Head(toprint[p])) \o Tail(toprint[p]) = pipe[p] \o toprint[p]
  BY <1>1, OneMoves
<1>3. /\ UNCHANGED <<requested, job, handler, pc, ran, current, holders, reader, cache, log, echo>>
      /\ pipe' = [pipe EXCEPT ![p] = Append(pipe[p], Head(toprint[p]))]
      /\ toprint' = [toprint EXCEPT ![p] = Tail(toprint[p])]
  BY DEF Write, jobvars, runvars, logvars
<1>4. TypeOK'
  BY <1>1, <1>2, <1>3 DEF TypeOK, Text
<1>5. \A r : SameFor(r)
  BY <1>3 DEF SameFor
<1>6. \A u \in Threads : u # p => pipe'[u] = pipe[u] /\ toprint'[u] = toprint[u]
  BY <1>1, <1>3, Constants DEF TypeOK
<1>7. /\ \A u \in Threads : u # p => PipeHeld(u)' /\ OwnHandler(u)'
      /\ OutputLogged' /\ NoneAhead'
  BY <1>3, <1>5, <1>6, OthersKeep
<1>8. ASSUME p \in Threads PROVE PipeHeld(p)' /\ OwnHandler(p)'
  <2>1. PipeHeld(p) /\ OwnHandler(p)
    BY <1>8 DEF LogInv
  <2>2. pc[p] \notin {"exited", "join"}
    BY <1>1, <2>1 DEF PipeHeld
  <2>3. PipeHeld(p)'
    BY <1>3, <2>1, <2>2 DEF PipeHeld, Active
  <2>4. CASE ~Active(p)
    BY <1>3, <2>3, <2>4 DEF OwnHandler, Active
  <2>5. CASE Active(p)
    <3>1. reader[p].alive /\ Underway(p)
      BY <1>8, <2>1, <2>2, <2>5, Alive DEF PipeHeld, Active
    <3>2. pipe'[p] \o toprint'[p] = pipe[p] \o toprint[p]
      BY <1>1, <1>2, <1>3 DEF TypeOK
    <3>3. Underway(p)'
      BY <1>3, <3>1, <3>2 DEF Underway
    <3>4. OwnHandler(p)'
      BY <1>3, <2>1, <2>5, <3>1, <3>3 DEF OwnHandler, Active
    <3> QED BY <2>3, <3>4
  <2> QED BY <2>4, <2>5
<1> QED BY <1>3, <1>4, <1>7, <1>8 DEF LogInv, NoneAhead

\* The command of a reader that is alive: nothing of it has been said to have
\* returned, and no other thread runs it.
LEMMA OwnRun ==
    ASSUME LogInv, NEW p \in Pipes, reader[p].alive
    PROVE  /\ p \in Threads => Active(p) /\ Underway(p)
           /\ \A u \in Threads : u # p /\ Active(u) => current[u] \in Nat /\ current[u] # RunOf(p)
           /\ \A r \in DOMAIN ran : Returned(r) => r \in Nat /\ r # RunOf(p)
           /\ \A r \in (Len(ran) + 1)..MaxRuns : r \in Nat /\ r # RunOf(p)
<1>1. TypeOK /\ Len(ran) \in Nat /\ DOMAIN ran = 1..Len(ran) /\ MaxRuns \in Nat
  BY Types, Constants DEF LogInv
<1>2. \A u \in Threads : Active(u) => current[u] \in DOMAIN ran
  BY Alive
<1>3. CASE p \in Threads
  <2>1. Active(p)
    BY <1>3 DEF LogInv, PipeHeld
  <2>2. Underway(p) /\ current[p] \in DOMAIN ran
    BY <1>3, <2>1, Alive
  <2>3. RunOf(p) = current[p]
    BY <1>3 DEF RunOf
  <2>4. ~Returned(current[p])
    BY <1>3, <2>1 DEF Returned, Active
  <2>5. \A u \in Threads : u # p /\ Active(u) => current[u] # current[p]
    BY <1>3, <2>1, Alive
  <2> QED BY <1>1, <1>2, <2>1, <2>2, <2>3, <2>4, <2>5
<1>4. CASE p \notin Threads
  <2>1. RunOf(p) = 0
    BY <1>4 DEF RunOf
  <2> QED BY <1>1, <1>2, <1>4, <2>1
<1> QED BY <1>3, <1>4

\* The command ends, the daemon shuts the pipe down, or the reader is joined.
Ending(t) == Exit(t) \/ Shutdown(t) \/ Join(t)

LEMMA EndingKeeps ==
    ASSUME LogInv, NEW t \in Threads, Ending(t)
    PROVE  LogInv'
<1>1. TypeOK /\ t \in Pipes /\ OwnHandler(t) /\ PipeHeld(t) /\ Active(t)
  BY Constants DEF LogInv, Ending, Exit, Shutdown, Join, Active
<1>2. /\ UNCHANGED <<requested, job, handler, ran, current, toprint, pipe, reader, cache, log, echo>>
      /\ \E l \in {"exited", "join", "idle"} : pc' = [pc EXCEPT ![t] = l]
  BY DEF Ending, Exit, Shutdown, Join, jobvars, runvars, pipevars, logvars
<1>3. pc' \in [Threads -> {"get", "open", "idle", "running", "exited", "join"}]
      /\ pc'[t] \notin {"get", "open"} /\ \A u \in Threads : u # t => pc'[u] = pc[u]
  BY <1>1, <1>2 DEF TypeOK
<1>4. DOMAIN holders' = Pipes /\ \A u \in Threads : u # t => holders'[u] = holders[u]
  BY <1>1, Constants DEF Ending, Exit, Shutdown, Join, pipevars, TypeOK
<1>5. pc'[Worker] = "get" \/ job' \in Jobs
  <2>1. t = Worker => pc[Worker] # "get"
    BY <1>1 DEF Active
  <2> QED BY <1>1, <1>2, <1>3, <2>1, Constants DEF TypeOK
<1>6. TypeOK'
  BY <1>1, <1>2, <1>3, <1>4, <1>5 DEF TypeOK
<1>7. pc'[Soap] \notin {"get", "open"}
  BY <1>3, Constants DEF LogInv
<1>8. \A r : SameFor(r)
  BY <1>2 DEF SameFor
<1>9. \A u \in Threads : Active(u)' => Active(u)
  BY <1>1, <1>3 DEF Active
<1>10. ASSUME NEW u \in Threads, u # t PROVE PipeHeld(u)' /\ OwnHandler(u)'
  BY <1>2, <1>3, <1>4, <1>8, <1>9, <1>10, ThreadKeeps
<1>11. OwnHandler(t)'
  BY <1>1, <1>2, <1>8, <1>9, HandlerKeeps
<1>12. CASE Exit(t) \/ Shutdown(t)
  <2>1. /\ pc'[t] \in {"exited", "join"} /\ toprint[t] = <<>>
        /\ pc'[t] = "exited" => reader[t].alive /\ Parent \in holders'[t]
    BY <1>1, <1>12, Constants, SMTT(30) DEF Exit, Shutdown, PipeHeld, TypeOK
  <2>2. PipeHeld(t)'
    BY <1>2, <2>1 DEF PipeHeld, Active
  <2>3. \A u \in Threads : Active(u) => Active(u)'
    BY <1>3, <2>1 DEF Active
  <2>4. OutputLogged' /\ NoneAhead'
    BY <1>2, <1>8, <2>3, RunsKeep
  <2> QED BY <1>6, <1>7, <1>10, <1>11, <2>2, <2>4 DEF LogInv, NoneAhead
<1>13. CASE Join(t)
  <2>1. pc'[t] = "idle" /\ ~reader[t].alive
    BY <1>1, <1>13 DEF Join, TypeOK
  <2>2. PipeHeld(t)'
    BY <1>2, <2>1 DEF PipeHeld
  <2>3. Logged(current[t])
    BY <1>1, <2>1 DEF OwnHandler
  <2>4. ASSUME NEW r \in DOMAIN ran', Returned(r)' PROVE Logged(r)'
    <3>1. CASE r = current[t]
      BY <1>2, <2>3, <3>1 DEF Logged, LoggedAs
    <3>2. CASE r # current[t]
      <4>1. Returned(r)
        BY <1>2, <1>3, <2>4, <3>2 DEF Returned
      <4> QED BY <1>2, <4>1 DEF LogInv, OutputLogged, Logged, LoggedAs
    <3> QED BY <3>1, <3>2
  <2>5. OutputLogged' /\ NoneAhead'
    BY <1>2, <2>4 DEF OutputLogged, LogInv, NoneAhead
  <2> QED BY <1>6, <1>7, <1>10, <1>11, <2>2, <2>5 DEF LogInv, NoneAhead
<1> QED BY <1>12, <1>13 DEF Ending

\* What is read changes place, and the start of a line may become one.
LEMMA ReadText ==
    ASSUME NEW l \in Text, NEW x \in Text, NEW a \in Text, NEW b \in Text, NEW w \in Text
    PROVE  (l \o Lines(x \o a)) \o (Rest(x \o a) \o (b \o w)) = l \o (x \o ((a \o b) \o w))
<1> DEFINE J(p, q) == p \o q
           n == Lines(J(x, a))
           s == Rest(J(x, a))
<1>1. \A p, q \in Text : J(p, q) \in Text
  BY Joined
<1>2. \A p, q, r \in Text : J(J(p, q), r) = J(p, J(q, r))
  BY Regroup
<1>3. \A c \in Text : Lines(c) \in Text /\ Rest(c) \in Text /\ J(Lines(c), Rest(c)) = c
  BY LinesAndRest
<1> HIDE DEF J
<1>4. n \in Text /\ s \in Text /\ J(n, s) = J(x, a)
  BY <1>1, <1>3
<1> HIDE DEF n, s
<1>5. J(J(l, n), J(s, J(b, w))) = J(l, J(J(n, s), J(b, w)))
  BY <1>1, <1>2, <1>4
<1>6. J(J(x, a), J(b, w)) = J(x, J(J(a, b), w))
  BY <1>1, <1>2
<1>7. J(J(l, n), J(s, J(b, w))) = J(l, J(x, J(J(a, b), w)))
  BY <1>4, <1>5, <1>6
<1> QED BY <1>7 DEF J, n, s

\* Five parts put together in two ways.
LEMMA MoreGroups ==
    \A l, x, d, b, w \in Text : l \o (x \o ((d \o b) \o w)) = (l \o x) \o (d \o (b \o w))
<1> DEFINE J(p, q) == p \o q
<1>1. \A p, q \in Text : J(p, q) \in Text
  BY Joined
<1>2. \A p, q, r \in Text : J(J(p, q), r) = J(p, J(q, r))
  BY Regroup
<1> HIDE DEF J
<1>3. \A l, x, d, b, w \in Text : J(l, J(x, J(J(d, b), w))) = J(J(l, x), J(d, J(b, w)))
  BY <1>1, <1>2
<1> QED BY <1>3 DEF J

\* What a read does to the parts that the reader and its pipe hold.
LEMMA ReadParts ==
    ASSUME LogInv, NEW p \in Pipes, Read(p)
    PROVE  \E new, left, keep \in Text :
              /\ reader' = [reader EXCEPT ![p].lines = reader[p].lines \o new, ![p].rest = keep]
              /\ pipe' = [pipe EXCEPT ![p] = left]
              /\ echo' = IF new = <<>> THEN echo ELSE Record(echo, p, Front(new))
              /\ Ended(new) /\ Unended(keep)
              /\ \A o \in Text :
                    reader[p].lines \o (reader[p].rest \o (pipe[p] \o toprint[p])) \in Readings(o)
                    => (reader[p].lines \o new) \o (keep \o (left \o toprint[p])) \in Readings(o)
<1>1. /\ TypeOK /\ toprint[p] \in Text /\ pipe[p] \in Text /\ pipe[p] # <<>>
      /\ reader[p].lines \in Text /\ reader[p].rest \in Text
  BY Types DEF LogInv, Read
<1> DEFINE n == IF Len(pipe[p]) < AtMost THEN Len(pipe[p]) ELSE AtMost
           c == SubSeq(pipe[p], 1, n)
           a == Decode(c)
           left == SubSeq(pipe[p], n + 1, Len(pipe[p]))
           buf == reader[p].rest \o a
           new == Lines(buf)
           keep == Rest(buf)
<1>2. /\ pipe' = [pipe EXCEPT ![p] = left]
      /\ reader' = [reader EXCEPT ![p].lines = reader[p].lines \o new, ![p].rest = keep]
      /\ echo' = IF new = <<>> THEN echo ELSE Record(echo, p, Front(new))
  BY DEF Read
<1>3. n \in 0..Len(pipe[p])
  BY <1>1, LogPipesAssumption, LenProperties DEF Text
<1> HIDE DEF n
<1>4. c \in Text /\ left \in Text /\ a \in Text
  BY <1>1, <1>3, Part, DecodeText
<1>5. c \o left = pipe[p]
  BY <1>1, <1>3, Part
<1> HIDE DEF left
<1>6. ASSUME NEW o \in Text,
             reader[p].lines \o (reader[p].rest \o (pipe[p] \o toprint[p])) \in Readings(o)
      PROVE  (reader[p].lines \o new) \o (keep \o (left \o toprint[p])) \in Readings(o)
  <2> HIDE DEF a
  <2>1. (reader[p].lines \o new) \o (keep \o (left \o toprint[p]))
          = reader[p].lines \o (reader[p].rest \o ((a \o left) \o toprint[p]))
    <3>1. reader[p].lines \in Text /\ reader[p].rest \in Text /\ toprint[p] \in Text
      BY <1>1
    <3> DEFINE Same(l, x, b, d, w) ==
                 (l \o Lines(x \o b)) \o (Rest(x \o b) \o (d \o w)) = l \o (x \o ((b \o d) \o w))
    <3>2. \A l, x, b, d, w \in Text : Same(l, x, b, d, w)
      BY ReadText
    <3> HIDE DEF Same
    <3>3. Same(reader[p].lines, reader[p].rest, a, left, toprint[p])
      BY <1>4, <3>1, <3>2
    <3> QED BY <3>3 DEF Same
  <2> DEFINE Moved(l, x, d, b, w) == l \o (x \o ((d \o b) \o w)) = (l \o x) \o (d \o (b \o w))
  <2>2. \A l, x, d, b, w \in Text : Moved(l, x, d, b, w)
    BY MoreGroups
  <2> HIDE DEF Moved
  <2> HIDE DEF c
  <2> DEFINE l == reader[p].lines
             x == reader[p].rest
             w == toprint[p]
  <2>3. l \in Text /\ x \in Text /\ w \in Text /\ l \o x \in Text /\ left \o w \in Text
    BY <1>1, <1>4, Joined
  <2>4. (l \o x) \o (c \o (left \o w)) \in Readings(o)
    <3>1. l \o (x \o ((c \o left) \o w)) \in Readings(o)
      BY <1>5, <1>6
    <3>2. Moved(l, x, c, left, w)
      BY <1>4, <2>2, <2>3
    <3> QED BY <3>1, <3>2 DEF Moved
  <2>5. (l \o x) \o (a \o (left \o w)) \in Readings(o)
    BY <1>4, <2>3, <2>4, DecodeText DEF a
  <2>6. l \o (x \o ((a \o left) \o w)) \in Readings(o)
    <3>1. Moved(l, x, a, left, w)
      BY <1>4, <2>2, <2>3
    <3> QED BY <2>5, <3>1 DEF Moved
  <2> HIDE DEF new, keep
  <2> QED BY <2>1, <2>6
<1>7. buf \in Text
  BY <1>1, <1>4, Joined
<1> HIDE DEF buf
<1>8. new \in Text /\ keep \in Text /\ Ended(new) /\ Unended(keep)
  BY <1>7, LinesAndRest
<1> HIDE DEF new, keep
<1> QED BY <1>2, <1>4, <1>6, <1>8, Zenon

\* A read.
LEMMA ReadKeeps ==
    ASSUME LogInv, NEW p \in Pipes, Read(p)
    PROVE  LogInv'
<1> DEFINE lines == reader[p].lines
           rest == reader[p].rest
<1>1. /\ TypeOK /\ reader[p].alive /\ toprint[p] \in Text /\ pipe[p] \in Text
      /\ lines \in Text /\ rest \in Text
  BY Types DEF LogInv, Read
<1>2. UNCHANGED <<requested, job, handler, pc, ran, current, toprint, holders, cache, log>>
  BY SMTT(30) DEF Read, jobvars, runvars, logvars
<1>3. PICK new \in Text, left \in Text, keep \in Text :
              /\ reader' = [reader EXCEPT ![p].lines = lines \o new, ![p].rest = keep]
              /\ pipe' = [pipe EXCEPT ![p] = left]
              /\ echo' = IF new = <<>> THEN echo ELSE Record(echo, p, Front(new))
              /\ Ended(new) /\ Unended(keep)
              /\ \A o \in Text : lines \o (rest \o (pipe[p] \o toprint[p])) \in Readings(o)
                              => (lines \o new) \o (keep \o (left \o toprint[p])) \in Readings(o)
  BY ReadParts
<1>4. lines \o new \in Text
  BY <1>1, Joined
<1>5. /\ reader'[p] = [alive |-> TRUE, lines |-> lines \o new, rest |-> keep]
      /\ pipe'[p] = left
      /\ \A u \in Pipes : u # p => reader'[u] = reader[u] /\ pipe'[u] = pipe[u]
      /\ reader' \in [Pipes -> [alive : BOOLEAN, lines : Seq(Nat), rest : Seq(Nat)]]
      /\ pipe' \in [Pipes -> Seq(Nat)]
  BY <1>1, <1>3, <1>4, ZenonT(60) DEF TypeOK, Text
<1> DEFINE m == [run |-> RunOf(p), text |-> Front(new)]
<1>6. new # <<>> => Front(new) \in Text /\ Append(Front(new), NL) = new
  BY <1>3, FrontOfLines
<1>7. /\ echo' \in [Jobs -> Seq(Block)]
      /\ \A j \in Jobs, r \in Nat : r # RunOf(p) => Sent(echo'[j], r) = Sent(echo[j], r)
      /\ new = <<>> \/ p = Soap \/ handler = NoJob => echo' = echo
      /\ new # <<>> /\ p # Soap /\ handler # NoJob =>
            /\ m \in Block
            /\ \A j \in Jobs : echo'[j] = IF j = handler THEN Append(echo[j], m) ELSE echo[j]
  <2>1. CASE new = <<>>
    BY <1>1, <1>3, <2>1 DEF TypeOK
  <2>2. CASE new # <<>>
    <3>1. echo \in [Jobs -> Seq(Block)] /\ echo' = Record(echo, p, Front(new))
      BY <1>1, <1>3, <2>2 DEF TypeOK
    <3> QED BY <1>1, <1>6, <2>2, <3>1, RecordIs
  <2> QED BY <2>1, <2>2
<1>8. m.run = RunOf(p) /\ m.text = Front(new)
  OBVIOUS
<1> HIDE DEF m
<1>9. TypeOK'
  BY <1>1, <1>2, <1>5, <1>7 DEF TypeOK
<1>10. \A r \in Nat : r # RunOf(p) => SameFor(r)
  BY <1>2, <1>7 DEF SameFor
<1>11. /\ \A u \in Threads : u # p => PipeHeld(u)' /\ OwnHandler(u)'
       /\ OutputLogged' /\ NoneAhead'
  <2>1. \A u \in Threads : u # p /\ Active(u) => SameFor(current[u])
    BY <1>1, <1>10, OwnRun
  <2>2. \A r \in DOMAIN ran : Returned(r) => SameFor(r)
    BY <1>1, <1>10, OwnRun
  <2>3. \A r \in (Len(ran) + 1)..MaxRuns : SameFor(r)
    BY <1>1, <1>10, OwnRun
  <2>4. \A u \in Threads : u # p => reader'[u] = reader[u] /\ pipe'[u] = pipe[u] /\ toprint'[u] = toprint[u]
    BY <1>2, <1>5, Constants
  <2> QED BY <1>2, <2>1, <2>2, <2>3, <2>4, OthersKeep
<1>12. ASSUME p \in Threads PROVE PipeHeld(p)' /\ OwnHandler(p)'
  <2>1. /\ PipeHeld(p) /\ OwnHandler(p) /\ Active(p) /\ Underway(p)
    BY <1>1, <1>12, OwnRun DEF LogInv
  <2>2. PipeHeld(p)'
    BY <1>2, <1>5, <2>1 DEF PipeHeld, Active
  <2> DEFINE r == current[p]
  <2>3. /\ r \in DOMAIN ran /\ r \in Nat /\ RunOf(p) = r
        /\ ran[r].job = IF p = Worker THEN handler ELSE NoJob
    BY <1>12, <2>1, Alive DEF RunOf
  <2>3a. ran[r].output \in Text
    BY <1>12, <2>1, Alive
  <2>4. /\ Ended(lines) /\ Unended(rest)
        /\ lines \o (rest \o (pipe[p] \o toprint[p])) \in Readings(ran[r].output)
        /\ \A j \in Jobs : /\ Blocks(log[j], r) = <<>>
                           /\ Sent(echo[j], r) = IF j = ran[r].job THEN lines ELSE <<>>
    BY <2>1, SMTT(30) DEF Underway
  <2>5. Ended(lines \o new)
    BY <1>1, <1>3, <2>4, EndedJoined
  <2>6. ASSUME NEW j \in Jobs
        PROVE  Sent(echo'[j], r) = IF j = ran[r].job THEN lines \o new ELSE <<>>
    <3>1. CASE new = <<>> \/ p = Soap \/ handler = NoJob
      <4>1. echo'[j] = echo[j]
        BY <1>7, <3>1
      <4>2. new = <<>> => lines \o new = lines
        BY <1>1, Joined
      <4>3. j = ran[r].job => new = <<>>
        BY <2>3, <3>1, Constants
      <4> QED BY <2>4, <4>1, <4>2, <4>3
    <3>2. CASE new # <<>> /\ p # Soap /\ handler # NoJob
      <4>1. m \in Block /\ echo'[j] = IF j = handler THEN Append(echo[j], m) ELSE echo[j]
        BY <1>7, <3>2
      <4>2. ran[r].job = handler
        BY <1>12, <2>3, <3>2 DEF Threads
      <4>3. CASE j # handler
        BY <2>4, <4>1, <4>2, <4>3
      <4>4. CASE j = handler
        <5>1. echo[j] \in Seq(Block) /\ m.run = r /\ Append(m.text, NL) = new
          BY <1>1, <1>6, <1>8, <2>3, <3>2 DEF TypeOK
        <5>2. Sent(Append(echo[j], m), r) = Sent(echo[j], r) \o new
          BY <4>1, <5>1, SentAppend
        <5> QED BY <2>4, <4>1, <4>2, <4>4, <5>2
      <4> QED BY <4>3, <4>4
    <3> QED BY <3>1, <3>2
  <2>7. Underway(p)'
    <3>1. /\ reader'[p].lines = lines \o new /\ reader'[p].rest = keep
          /\ current'[p] = r /\ ran'[r] = ran[r] /\ pipe'[p] = left /\ toprint'[p] = toprint[p]
          /\ log' = log
      BY <1>2, <1>5, SMTT(30)
    <3>2. (lines \o new) \o (keep \o (left \o toprint[p])) \in Readings(ran[r].output)
      BY <1>3, <2>3a, <2>4
    <3>3. Unended(keep)
      BY <1>3
    <3>4. \A j \in Jobs : /\ Blocks(log'[j], r) = <<>>
                         /\ Sent(echo'[j], r) = IF j = ran[r].job THEN lines \o new ELSE <<>>
      BY <2>4, <2>6, <3>1
    <3> HIDE DEF r, lines
    <3> QED BY <2>5, <3>1, <3>2, <3>3, <3>4 DEF Underway, r
  <2>8. OwnHandler(p)'
    BY <1>2, <1>5, <2>1, <2>7 DEF OwnHandler, Active
  <2> QED BY <2>2, <2>8
<1> QED BY <1>2, <1>9, <1>11, <1>12 DEF LogInv, NoneAhead

\* What is left to a reader at the end of its pipe is the output, divided into
\* its complete lines and the rest.
LEMMA AtTheEnd ==
    ASSUME NEW o, NEW a \in Text, NEW b \in Text, Ended(a), Unended(b), a \o (b \o (<<>> \o <<>>)) = o
    PROVE  /\ Lines(o) = a /\ Rest(o) = b
           /\ NL \in ToSet(o) <=> a # <<>>
<1>1. <<>> \in Text
  BY DEF Text
<1>2. b \o (<<>> \o <<>>) = b
  BY <1>1, Joined
<1>3. a \o b = o /\ a \o b \in Text
  BY <1>2, Joined
<1>4. Lines(a \o b) = a /\ Rest(a \o b) = b
  BY OneDivision
<1> QED BY <1>3, <1>4, NewlineIn

\* All of a text but its last character.
LEMMA FrontIs == \A a \in Text : a # <<>> => Front(a) \in Text
<1> SUFFICES ASSUME NEW a \in Text, a # <<>> PROVE Front(a) \in Text
  OBVIOUS
<1>1. Len(a) \in Nat \ {0}
  BY EmptySeq DEF Text
<1>2. Len(a) - 1 \in 0..Len(a)
  BY <1>1
<1>3. SubSeq(a, 1, Len(a) - 1) \in Text
  BY <1>2, Part
<1> QED BY <1>3 DEF Front

\* The pipe breaks.
LEMMA EndKeeps ==
    ASSUME LogInv, NEW p \in Pipes, EndOfFile(p)
    PROVE  LogInv'
<1> DEFINE lines == reader[p].lines
           rest == reader[p].rest
           text == Front(lines) \o rest
           m == [run |-> RunOf(p), text |-> text]
<1>1. /\ TypeOK /\ reader[p].alive /\ pipe[p] = <<>> /\ holders[p] = {}
      /\ lines \in Text /\ rest \in Text
  BY Types DEF LogInv, EndOfFile
<1>2. /\ UNCHANGED <<requested, job, handler, pc, ran, current, toprint, holders, pipe, cache, echo>>
      /\ log' = IF lines = <<>> THEN log ELSE Record(log, p, text)
      /\ reader' = [reader EXCEPT ![p] = Closed]
  BY DEF EndOfFile, jobvars, runvars, logvars
<1>3. /\ reader'[p] = Closed /\ \A u \in Pipes : u # p => reader'[u] = reader[u]
      /\ reader' \in [Pipes -> [alive : BOOLEAN, lines : Seq(Nat), rest : Seq(Nat)]]
  BY <1>1, <1>2, Readers DEF TypeOK, Text
<1>4. lines # <<>> => text \in Text
  BY <1>1, FrontIs, Joined
<1>5. m.run = RunOf(p) /\ m.text = text
  OBVIOUS
<1> HIDE DEF m
<1>6. /\ log' \in [Jobs -> Seq(Block)]
      /\ \A j \in Jobs, r \in Nat : r # RunOf(p) => Blocks(log'[j], r) = Blocks(log[j], r)
      /\ lines = <<>> \/ p = Soap \/ handler = NoJob => log' = log
      /\ lines # <<>> /\ p # Soap /\ handler # NoJob =>
            /\ m \in Block
            /\ \A j \in Jobs : log'[j] = IF j = handler THEN Append(log[j], m) ELSE log[j]
  <2>1. CASE lines = <<>>
    BY <1>1, <1>2, <2>1 DEF TypeOK
  <2>2. CASE lines # <<>>
    <3>1. log \in [Jobs -> Seq(Block)] /\ log' = Record(log, p, text) /\ text \in Text
      BY <1>1, <1>2, <1>4, <2>2 DEF TypeOK
    <3> HIDE DEF text
    <3> QED BY <1>1, <2>2, <3>1, RecordIs DEF m
  <2> QED BY <2>1, <2>2
<1>7. TypeOK'
  BY <1>1, <1>2, <1>3, <1>6 DEF TypeOK
<1>8. \A r \in Nat : r # RunOf(p) => SameFor(r)
  BY <1>2, <1>6 DEF SameFor
<1>9. /\ \A u \in Threads : u # p => PipeHeld(u)' /\ OwnHandler(u)'
      /\ OutputLogged' /\ NoneAhead'
  <2>1. \A u \in Threads : u # p /\ Active(u) => SameFor(current[u])
    BY <1>1, <1>8, OwnRun
  <2>2. \A r \in DOMAIN ran : Returned(r) => SameFor(r)
    BY <1>1, <1>8, OwnRun
  <2>3. \A r \in (Len(ran) + 1)..MaxRuns : SameFor(r)
    BY <1>1, <1>8, OwnRun
  <2>4. \A u \in Threads : u # p => reader'[u] = reader[u] /\ pipe'[u] = pipe[u] /\ toprint'[u] = toprint[u]
    BY <1>2, <1>3, Constants
  <2> QED BY <1>2, <2>1, <2>2, <2>3, <2>4, OthersKeep
<1>10. ASSUME p \in Threads PROVE PipeHeld(p)' /\ OwnHandler(p)'
  <2>1. PipeHeld(p) /\ OwnHandler(p) /\ Active(p) /\ Underway(p)
    BY <1>1, <1>10, OwnRun DEF LogInv
  <2>2. pc[p] = "join" /\ toprint[p] = <<>>
    BY <1>1, <2>1 DEF PipeHeld, Active
  <2>3. PipeHeld(p)'
    BY <1>2, <1>3, <2>1, <2>2, Readers DEF PipeHeld
  <2> DEFINE r == current[p]
             o == lines \o (rest \o (<<>> \o <<>>))
  <2>4. /\ r \in DOMAIN ran /\ r \in Nat /\ RunOf(p) = r
        /\ ran[r].job = IF p = Worker THEN handler ELSE NoJob
        /\ Readings(ran[r].output) \subseteq Text
    BY <1>10, <2>1, Alive, ReadingText DEF RunOf
  <2>5. /\ Ended(lines) /\ Unended(rest)
        /\ o \in Readings(ran[r].output)
        /\ \A j \in Jobs : /\ Blocks(log[j], r) = <<>>
                           /\ Sent(echo[j], r) = IF j = ran[r].job THEN lines ELSE <<>>
    BY <1>1, <2>1, <2>2 DEF Underway
  <2>6. Lines(o) = lines /\ Rest(o) = rest /\ (NL \in ToSet(o) <=> lines # <<>>)
    BY <1>1, <2>5, AtTheEnd
  <2>7. ASSUME NEW j \in Jobs
        PROVE  Blocks(log'[j], r) = IF j = ran[r].job /\ lines # <<>> THEN <<text>> ELSE <<>>
    <3>1. CASE lines = <<>> \/ p = Soap \/ handler = NoJob
      <4>1. log'[j] = log[j]
        BY <1>6, <3>1
      <4>2. j = ran[r].job => lines = <<>>
        BY <2>4, <3>1, Constants
      <4> QED BY <2>5, <4>1, <4>2
    <3>2. CASE lines # <<>> /\ p # Soap /\ handler # NoJob
      <4>1. m \in Block /\ log'[j] = IF j = handler THEN Append(log[j], m) ELSE log[j]
        BY <1>6, <3>2
      <4>2. ran[r].job = handler
        BY <1>10, <2>4, <3>2 DEF Threads
      <4>3. CASE j # handler
        BY <2>5, <4>1, <4>2, <4>3
      <4>4. CASE j = handler
        <5>1. log[j] \in Seq(Block) /\ m.run = r /\ Blocks(log[j], r) = <<>>
          BY <1>1, <1>5, <2>4, <2>5 DEF TypeOK
        <5>2. Blocks(Append(log[j], m), r) = <<m.text>>
          BY <4>1, <5>1, BlocksAppend
        <5> QED BY <1>5, <3>2, <4>1, <4>2, <4>4, <5>2
      <4> QED BY <4>3, <4>4
    <3> QED BY <3>1, <3>2
  <2>8. Logged(r)'
    <3>1. ran' = ran /\ echo' = echo /\ r' = r
      BY <1>2
    <3>2. \A j \in Jobs :
             /\ Blocks(log'[j], r) = IF j = ran[r].job /\ lines # <<>> THEN <<text>> ELSE <<>>
             /\ Sent(echo'[j], r) = IF j = ran[r].job THEN lines ELSE <<>>
      BY <2>5, <2>7, <3>1
    <3>3. text = Front(Lines(o)) \o Rest(o)
      BY <2>6
    <3> HIDE DEF lines, text, o
    <3>4. PICK e : e = o
      OBVIOUS
    <3>5. LoggedAs(r, e)'
      BY <2>6, <3>1, <3>2, <3>3, <3>4 DEF LoggedAs
    <3>6. e \in Readings(ran[r].output)'
      BY <2>5, <3>1, <3>4
    <3> QED BY <3>5, <3>6 DEF Logged
  <2>9. OwnHandler(p)'
    BY <1>2, <1>3, <2>1, <2>8, Readers DEF OwnHandler, Active
  <2> QED BY <2>3, <2>9
<1> QED BY <1>2, <1>7, <1>9, <1>10 DEF LogInv, NoneAhead

\* A command starts: nothing has been said of it yet.
LEMMA StartKeeps ==
    ASSUME LogInv, NEW t \in Threads, Start(t)
    PROVE  LogInv'
<1> DEFINE n == Len(ran) + 1
           j0 == IF t = Worker THEN handler ELSE NoJob
<1>1. /\ TypeOK /\ t \in Pipes /\ pc[t] = "idle" /\ ~Active(t)
      /\ Len(ran) \in Nat /\ DOMAIN ran = 1..Len(ran) /\ n \in Nat /\ n <= MaxRuns /\ MaxRuns \in Nat
  BY Constants, Types DEF LogInv, Start, Active
<1>2. /\ UNCHANGED <<requested, job, handler, cache, log, echo>>
      /\ current' = [current EXCEPT ![t] = n]
      /\ holders' = [holders EXCEPT ![t] = {Parent, Command}]
      /\ pipe' = [pipe EXCEPT ![t] = <<>>]
      /\ reader' = [reader EXCEPT ![t] = Started]
      /\ pc' = [pc EXCEPT ![t] = "running"]
  BY DEF Start, jobvars, logvars
<1>3. PICK o \in Outputs : /\ ran' = Append(ran, [job |-> j0, output |-> o])
                          /\ toprint' = [toprint EXCEPT ![t] = o]
  BY DEF Start
<1>4. o \in Text /\ <<>> \in Text /\ j0 \in Jobs \union {NoJob}
  BY <1>1, Constants DEF TypeOK, Text
<1> DEFINE m == [job |-> j0, output |-> o]
           M == [job : Jobs \union {NoJob}, output : Outputs]
<1>5. m \in M /\ m.job = j0 /\ m.output = o
  BY <1>4
<1>6. ran \in Seq(M) /\ ran' = Append(ran, m)
  BY <1>1, <1>3 DEF TypeOK
<1> HIDE DEF m, M
<1>7. /\ ran' \in Seq(M) /\ Len(ran') = n /\ ran'[n] = m /\ DOMAIN ran' = 1..n
      /\ \A r \in 1..Len(ran) : ran'[r] = ran[r]
  BY <1>1, <1>5, <1>6, AppendProperties, LenProperties
<1>8. current' \in [Threads -> 0..n] /\ current'[t] = n
      /\ \A u \in Threads : u # t => current'[u] = current[u]
  BY <1>1, <1>2 DEF TypeOK
<1>9. /\ pc' \in [Threads -> {"get", "open", "idle", "running", "exited", "join"}]
      /\ pc'[t] = "running" /\ \A u \in Threads : u # t => pc'[u] = pc[u]
  BY <1>1, <1>2 DEF TypeOK
<1>10. /\ toprint' \in [Pipes -> Seq(Nat)] /\ pipe' \in [Pipes -> Seq(Nat)] /\ DOMAIN holders' = Pipes
       /\ toprint'[t] = o /\ pipe'[t] = <<>> /\ holders'[t] = {Parent, Command}
       /\ \A u \in Pipes : u # t => toprint'[u] = toprint[u] /\ pipe'[u] = pipe[u]
                                  /\ holders'[u] = holders[u]
  BY <1>1, <1>2, <1>3, <1>4 DEF TypeOK, Text
<1>11. /\ reader' \in [Pipes -> [alive : BOOLEAN, lines : Seq(Nat), rest : Seq(Nat)]]
       /\ reader'[t] = Started /\ \A u \in Pipes : u # t => reader'[u] = reader[u]
  BY <1>1, <1>2, Readers DEF TypeOK, Text
<1>12. pc'[Worker] = "get" \/ job' \in Jobs
  BY <1>1, <1>2, <1>9, Constants DEF TypeOK
<1>13. TypeOK'
  BY <1>1, <1>2, <1>7, <1>8, <1>9, <1>10, <1>11, <1>12 DEF TypeOK, M
<1>14. pc'[Soap] \notin {"get", "open"}
  BY <1>9, Constants DEF LogInv
<1>15. \A j \in Jobs : Blocks(log[j], n) = <<>> /\ Sent(echo[j], n) = <<>>
  BY <1>1 DEF LogInv
<1>16. \A u \in Threads : u # t /\ Active(u) => current[u] \in 1..Len(ran)
  BY <1>1, Alive
<1>17. PipeHeld(t)'
  BY <1>9, <1>10, <1>11, Readers DEF PipeHeld, Active
<1>18. OwnHandler(t)'
  <2>1. /\ Ended(<<>>) /\ Unended(<<>>) /\ <<>> \o (<<>> \o (<<>> \o o)) = o
        /\ o \in Readings(o)
    BY <1>4, Joined, ReadingText DEF Ended, Unended
  <2>2. Underway(t)'
    <3>1. /\ reader'[t].lines = <<>> /\ reader'[t].rest = <<>> /\ current'[t] = n
          /\ ran'[n].output = o /\ pipe'[t] = <<>> /\ toprint'[t] = o /\ log' = log /\ echo' = echo
      BY <1>2, <1>5, <1>7, <1>8, <1>10, <1>11, Readers
    <3> HIDE DEF n
    <3> QED BY <1>15, <2>1, <3>1 DEF Underway
  <2>3. \A u \in Threads \ {t} : Active(u)' => current'[u] # current'[t]
    <3>1. ASSUME NEW u \in Threads \ {t}, Active(u)' PROVE current'[u] # n
      <4>1. Active(u)
        BY <1>9, <3>1 DEF Active
      <4> QED BY <1>1, <1>8, <1>16, <4>1
    <3> QED BY <1>8, <3>1
  <2>4. /\ current'[t] \in DOMAIN ran' /\ reader'[t].alive
        /\ ran'[current'[t]].job = IF t = Worker THEN handler' ELSE NoJob
    BY <1>1, <1>2, <1>5, <1>7, <1>8, <1>11, Readers
  <2> QED BY <2>2, <2>3, <2>4 DEF OwnHandler
<1>19. ASSUME NEW u \in Threads, u # t PROVE PipeHeld(u)' /\ OwnHandler(u)'
  <2>1. /\ u \in Pipes /\ PipeHeld(u) /\ OwnHandler(u)
    BY Constants DEF LogInv
  <2>2. /\ pc'[u] = pc[u] /\ reader'[u] = reader[u] /\ holders'[u] = holders[u]
        /\ toprint'[u] = toprint[u] /\ pipe'[u] = pipe[u] /\ current'[u] = current[u]
        /\ handler' = handler /\ log' = log /\ echo' = echo
    BY <1>2, <1>8, <1>9, <1>10, <1>11, <1>19, <2>1
  <2>3. PipeHeld(u)'
    BY <2>1, <2>2 DEF PipeHeld, Active
  <2>4. CASE ~Active(u)
    BY <2>2, <2>3, <2>4 DEF OwnHandler, Active
  <2>5. CASE Active(u)
    <3>1. current[u] \in 1..Len(ran) /\ ran'[current[u]] = ran[current[u]]
      BY <1>7, <1>16, <1>19, <2>5
    <3>2. current[u] \in DOMAIN ran'
      BY <1>1, <1>7, <3>1
    <3>3. \A v \in Threads \ {u} : Active(v)' => current'[v] # current'[u]
      <4>1. ASSUME NEW v \in Threads \ {u}, Active(v)' PROVE current'[v] # current[u]
        <5>1. CASE v = t
          BY <1>1, <1>8, <3>1, <5>1
        <5>2. CASE v # t
          <6>1. Active(v) /\ current'[v] = current[v]
            BY <1>8, <1>9, <4>1, <5>2 DEF Active
          <6> QED BY <2>5, <6>1, Alive
        <5> QED BY <5>1, <5>2
      <4> QED BY <2>2, <4>1
    <3>4. Underway(u) => Underway(u)'
      BY <2>2, <3>1 DEF Underway
    <3>5. Logged(current[u]) => Logged(current[u])'
      BY <2>2, <3>1 DEF Logged, LoggedAs
    <3>6. OwnHandler(u)'
      BY <2>1, <2>2, <2>5, <3>1, <3>2, <3>3, <3>4, <3>5 DEF OwnHandler, Logged, LoggedAs
    <3> QED BY <2>3, <3>6
  <2> QED BY <2>4, <2>5
<1>20. OutputLogged'
  <2>1. ASSUME NEW r \in DOMAIN ran', Returned(r)' PROVE Logged(r)'
    <3>1. r # n
      BY <1>8, <1>9, <2>1 DEF Returned
    <3>2. r \in DOMAIN ran /\ ran'[r] = ran[r]
      BY <1>1, <1>7, <3>1
    <3>3. Returned(r)
      <4>1. ASSUME NEW u \in Threads, current[u] = r PROVE pc[u] \notin {"running", "exited", "join"}
        <5>1. CASE u = t
          BY <1>1, <5>1
        <5>2. CASE u # t
          BY <1>8, <1>9, <2>1, <4>1, <5>2 DEF Returned
        <5> QED BY <5>1, <5>2
      <4> QED BY <4>1 DEF Returned
    <3>4. Logged(r)
      BY <3>2, <3>3 DEF LogInv, OutputLogged
    <3> QED BY <1>2, <3>2, <3>4 DEF Logged, LoggedAs
  <2> QED BY <2>1 DEF OutputLogged
<1>21. NoneAhead'
  BY <1>1, <1>2, <1>7 DEF LogInv, NoneAhead
<1> QED BY <1>13, <1>14, <1>17, <1>18, <1>19, <1>20, <1>21 DEF LogInv, NoneAhead

-----------------------------------------------------------------------------
(* The theorem.                                                            *)

\* Before anything has run.
LEMMA LogInit == Init => LogInv
<1> SUFFICES ASSUME Init PROVE LogInv
  OBVIOUS
<1>1. <<>> \in Seq(Nat) /\ <<>> \in Seq(Block) /\ Len(ran) = 0 /\ DOMAIN ran = {}
  BY DEF Init
<1>2. TypeOK
  <2>1. /\ requested \in 0..MaxJobs /\ job \in 0..requested /\ handler \in Jobs \union {NoJob}
    BY Constants DEF Init, NoJob
  <2>2. /\ pc \in [Threads -> {"get", "open", "idle", "running", "exited", "join"}]
        /\ pc[Worker] = "get" /\ current \in [Threads -> 0..Len(ran)]
    BY <1>1, Constants DEF Init
  <2>3. ran \in Seq([job : Jobs \union {NoJob}, output : Outputs])
    BY DEF Init
  <2>4. /\ toprint \in [Pipes -> Seq(Nat)] /\ pipe \in [Pipes -> Seq(Nat)]
        /\ DOMAIN holders = Pipes /\ cache \subseteq Jobs
        /\ log \in [Jobs -> Seq(Block)] /\ echo \in [Jobs -> Seq(Block)]
    BY <1>1 DEF Init
  <2>5. reader \in [Pipes -> [alive : BOOLEAN, lines : Seq(Nat), rest : Seq(Nat)]]
    BY Readers DEF Init, Text
  <2> QED BY <2>1, <2>2, <2>3, <2>4, <2>5 DEF TypeOK
<1>3. pc[Soap] = "idle" /\ pc[Worker] = "get" /\ Threads = {Worker, Soap}
  BY Constants DEF Init, Threads
<1>4. \A t \in Threads : ~Active(t) /\ t \in Pipes
  BY <1>3, Constants DEF Active
<1>5. \A t \in Threads : PipeHeld(t) /\ OwnHandler(t)
  BY <1>4, Readers DEF Init, PipeHeld, OwnHandler, Active
<1>6. OutputLogged
  BY <1>1 DEF OutputLogged
<1>7. \A r \in (Len(ran) + 1)..MaxRuns, j \in Jobs : Blocks(log[j], r) = <<>> /\ Sent(echo[j], r) = <<>>
  BY NothingInEmpty DEF Init
<1> QED BY <1>2, <1>3, <1>5, <1>6, <1>7 DEF LogInv

\* Every step keeps the invariant.
LEMMA LogNext == LogInv /\ [Next]_vars => LogInv'
<1> SUFFICES ASSUME LogInv, [Next]_vars PROVE LogInv'
  OBVIOUS
<1>1. CASE Bookkeeping
  BY <1>1, BookkeepingKeeps
<1>2. CASE \E t \in Threads : Start(t)
  BY <1>2, StartKeeps
<1>3. CASE \E t \in Threads : Ending(t)
  BY <1>3, EndingKeeps
<1>4. CASE \E p \in Pipes : Write(p)
  BY <1>4, WriteKeeps
<1>5. CASE \E p \in Pipes : Read(p)
  BY <1>5, ReadKeeps
<1>6. CASE \E p \in Pipes : EndOfFile(p)
  BY <1>6, EndKeeps
<1>7. CASE UNCHANGED vars
  <2>1. /\ UNCHANGED <<requested, job, handler, pc, ran, current, cache, log, echo>>
        /\ UNCHANGED <<toprint, holders, pipe, reader>>
    BY <1>7 DEF vars, jobvars, runvars, pipevars, logvars
  <2>2. TypeOK'
    BY <2>1 DEF LogInv, TypeOK
  <2>3. \A r : SameFor(r)
    BY <2>1 DEF SameFor
  <2>4. \A u \in Threads : Active(u)' <=> Active(u)
    BY <2>1 DEF Active
  <2>5. \A u \in Threads : PipeHeld(u)' /\ OwnHandler(u)'
    BY <2>1, <2>3, <2>4, ThreadKeeps
  <2>6. OutputLogged' /\ NoneAhead'
    BY <2>1, <2>3, <2>4, RunsKeep
  <2> QED BY <2>1, <2>2, <2>5, <2>6 DEF LogInv, NoneAhead
<1> QED BY <1>1, <1>2, <1>3, <1>4, <1>5, <1>6, <1>7 DEF Next, Run, Bookkeeping, Ending

\* Whatever a command prints, however its output is cut up by the reads, and
\* whatever other commands and cache processes print at the same time: when
\* run() has returned, its output is in the log of the job that ran it, in one
\* block, its lines were sent to the clients of that project, and it is in no
\* other log, where only characters of several bytes may have been replaced
\* (AsyncLogging of elbepack/log.py, run of elbepack/shellhelper.py).
THEOREM OutputLoggedHolds == Spec => []OutputLogged
<1>1. LogInv => OutputLogged
  BY DEF LogInv
<1> QED BY LogInit, LogNext, <1>1, PTL DEF Spec
=============================================================================
