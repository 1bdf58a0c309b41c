--------------------------- MODULE BuildTreeProofs ---------------------------
(***************************************************************************)
(* Theorems about BuildTree and CdRepo, for any source packages, sizes and *)
(* files, any number of jobs, and every failure and kill.                  *)
(***************************************************************************)
EXTENDS BuildTree, FiniteSetTheorems, SequenceTheorems, WellFoundedInduction, TLAPS

-----------------------------------------------------------------------------
(* Sums over sets.                                                         *)

\* Every set of numbers has a least element.
LEMMA NatLeast ==
    ASSUME NEW N \in SUBSET Nat, N # {}
    PROVE  \E m \in N : \A k \in N : m <= k
<1> DEFINE R == OpToRel(<, Nat)
<1>1. IsWellFoundedOn(R, Nat)
  BY NatLessThanWellFounded
<1>2. \A x, y \in Nat : x < y => <<x, y>> \in R
  BY DEF OpToRel
<1> HIDE DEF R
<1>3. PICK m \in N : \A k \in N : <<k, m>> \notin R
  BY <1>1, WFMin
<1>4. \A k \in N : k \in Nat /\ m \in Nat
  OBVIOUS
<1>5. ASSUME NEW k \in N PROVE m <= k
  <2>1. ~(k < m)
    BY <1>2, <1>3, <1>4
  <2> QED BY <1>4, <2>1
<1> QED BY <1>5

\* Induction over the subsets of a finite set, for a set of subsets.
LEMMA SubsetInduction ==
    ASSUME NEW S, IsFiniteSet(S), NEW G \in SUBSET SUBSET S,
           \A U \in SUBSET S : (\A x \in U : U \ {x} \in G) => U \in G
    PROVE  G = SUBSET S
<1> SUFFICES ASSUME G # SUBSET S PROVE FALSE
  OBVIOUS
<1> DEFINE Bad == (SUBSET S) \ G
           R == StrictSubsetOrdering(S)
<1>1. IsWellFoundedOn(R, SUBSET S)
  BY FS_StrictSubsetOrderingWellFounded, FS_FiniteSubsetsOfFinite
<1>2. \A u, v \in SUBSET S : u \subseteq v /\ u # v => <<u, v>> \in R
  BY DEF StrictSubsetOrdering
<1>3. Bad # {} /\ Bad \subseteq SUBSET S
  OBVIOUS
<1> HIDE DEF R, Bad
<1>4. PICK U \in Bad : \A v \in Bad : <<v, U>> \notin R
  BY <1>1, <1>3, WFMin
<1>5. U \in SUBSET S /\ U \notin G
  BY <1>4 DEF Bad
<1>6. ASSUME NEW x \in U PROVE U \ {x} \in G
  <2>1. U \ {x} \in SUBSET S /\ <<U \ {x}, U>> \in R
    BY <1>2, <1>5
  <2> QED BY <1>4, <2>1 DEF Bad
<1> QED BY <1>5, <1>6

\* How MapThenSumSet adds up what packages take.
Choice(s) == CHOOSE x \in s : TRUE
IsSum(g, D) == g = [s \in D |-> IF s = {} THEN 0 ELSE Grows(Choice(s)) + g[s \ {Choice(s)}]]
Adds(g, P) == IsSum(g, SUBSET P)
\* The subsets of at most n elements.
UpTo(S, n) == {s \in SUBSET S : Cardinality(s) <= n}

\* There is a function that adds up the sizes in every subset.
LEMMA SumExists ==
    ASSUME NEW S, IsFiniteSet(S)
    PROVE  \E g : IsSum(g, SUBSET S)
<1> DEFINE Bad == {n \in Nat : ~\E g : IsSum(g, UpTo(S, n))}
<1>1. Bad = {}
  <2> SUFFICES ASSUME Bad # {} PROVE FALSE
    OBVIOUS
  <2>1. PICK m \in Bad : \A k \in Bad : m <= k
    BY NatLeast
  <2>2. m \in Nat /\ ~\E g : IsSum(g, UpTo(S, m))
    OBVIOUS
  <2>3. ASSUME NEW s \in SUBSET S
        PROVE  /\ IsFiniteSet(s) /\ Cardinality(s) \in Nat
               /\ s # {} => Choice(s) \in s /\ Cardinality(s \ {Choice(s)}) = Cardinality(s) - 1
    <3>1. IsFiniteSet(s) /\ Cardinality(s) \in Nat
      BY FS_Subset, FS_CardinalityType
    <3>2. s # {} => Choice(s) \in s
      BY DEF Choice
    <3> QED BY <3>1, <3>2, FS_RemoveElement
  <2>4. m # 0
    <3> SUFFICES ASSUME m = 0 PROVE FALSE
      OBVIOUS
    <3>1. ASSUME NEW s \in UpTo(S, m) PROVE s = {}
      <4>1. IsFiniteSet(s) /\ Cardinality(s) \in Nat /\ Cardinality(s) <= 0
        BY <2>3 DEF UpTo
      <4>2. Cardinality(s) = 0
        BY <4>1
      <4> QED BY <4>1, <4>2, FS_EmptySet
    <3>2. IsSum([s \in UpTo(S, m) |-> 0], UpTo(S, m))
      BY <3>1 DEF IsSum
    <3> QED BY <2>2, <3>2
  <2>5. m - 1 \in Nat /\ ~(m <= m - 1)
    BY <2>2, <2>4
  <2>6. PICK g : IsSum(g, UpTo(S, m - 1))
    BY <2>1, <2>5
  <2> DEFINE h == [s \in UpTo(S, m) |-> IF s = {} THEN 0 ELSE Grows(Choice(s)) + g[s \ {Choice(s)}]]
  <2>7. ASSUME NEW s \in UpTo(S, m), s # {}
        PROVE  h[s \ {Choice(s)}] = g[s \ {Choice(s)}]
    <3> DEFINE u == s \ {Choice(s)}
    <3>1. s \in SUBSET S /\ Cardinality(s) <= m
      BY DEF UpTo
    <3>2. u \in UpTo(S, m - 1) /\ u \in UpTo(S, m)
      BY <2>2, <2>3, <2>7, <3>1 DEF UpTo
    <3> HIDE DEF u
    <3>3. g[u] = IF u = {} THEN 0 ELSE Grows(Choice(u)) + g[u \ {Choice(u)}]
      BY <2>6, <3>2 DEF IsSum
    <3>4. h[u] = IF u = {} THEN 0 ELSE Grows(Choice(u)) + g[u \ {Choice(u)}]
      BY <3>2
    <3> QED BY <3>3, <3>4 DEF u
  <2>8. IsSum(h, UpTo(S, m))
    BY <2>7 DEF IsSum
  <2> QED BY <2>2, <2>8
<1>2. Cardinality(S) \in Nat
  BY FS_CardinalityType
<1>3. UpTo(S, Cardinality(S)) = SUBSET S
  <2>1. \A s \in SUBSET S : Cardinality(s) <= Cardinality(S)
    BY FS_Subset
  <2> QED BY <2>1 DEF UpTo
<1>4. \E g : IsSum(g, UpTo(S, Cardinality(S)))
  BY <1>1, <1>2
<1> QED BY <1>3, <1>4

\* Any two such functions agree.
LEMMA SumUnique ==
    ASSUME NEW S, IsFiniteSet(S), NEW P, S \subseteq P, NEW g, NEW h,
           Adds(g, P), Adds(h, S)
    PROVE  \A u \in SUBSET S : g[u] = h[u]
<1> DEFINE G == {u \in SUBSET S : g[u] = h[u]}
<1>1. ASSUME NEW U \in SUBSET S, \A x \in U : U \ {x} \in G
      PROVE  U \in G
  <2>1. /\ g[U] = IF U = {} THEN 0 ELSE Grows(Choice(U)) + g[U \ {Choice(U)}]
        /\ h[U] = IF U = {} THEN 0 ELSE Grows(Choice(U)) + h[U \ {Choice(U)}]
    BY DEF Adds, IsSum
  <2>2. U # {} => Choice(U) \in U
    BY DEF Choice
  <2> QED BY <1>1, <2>1, <2>2
<1>2. G = SUBSET S
  <2> HIDE DEF G
  <2>1. G \in SUBSET SUBSET S
    BY DEF G
  <2> QED BY <1>1, <2>1, SubsetInduction
<1> QED BY <1>2

\* What Stored adds up.
Total(S) == MapThenSumSet(Grows, S)
LEMMA UsageStep ==
    ASSUME NEW S, IsFiniteSet(S)
    PROVE  Total(S) = IF S = {} THEN 0 ELSE Grows(Choice(S)) + Total(S \ {Choice(S)})
<1> DEFINE Sum(P) == CHOOSE g : IsSum(g, SUBSET P)
<1>1. \A P : Total(P) = Sum(P)[P]
  BY DEF Total, MapThenSumSet, MapThenFoldSet, IsSum, Choice
<1>2. ASSUME NEW P, IsFiniteSet(P) PROVE IsSum(Sum(P), SUBSET P)
  BY <1>2, SumExists
<1> HIDE DEF Sum
<1>3. Sum(S)[S] = IF S = {} THEN 0 ELSE Grows(Choice(S)) + Sum(S)[S \ {Choice(S)}]
  <2>1. IsSum(Sum(S), SUBSET S)
    BY <1>2
  <2> QED BY <2>1 DEF IsSum
<1>4. Sum(S)[S \ {Choice(S)}] = Sum(S \ {Choice(S)})[S \ {Choice(S)}]
  <2> DEFINE U == S \ {Choice(S)}
  <2>1. IsFiniteSet(U) /\ U \subseteq S
    BY FS_Subset
  <2> HIDE DEF U
  <2>2. Adds(Sum(S), S) /\ Adds(Sum(U), U)
    BY <1>2, <2>1 DEF Adds
  <2>3. \A u \in SUBSET U : Sum(S)[u] = Sum(U)[u]
    BY <2>1, <2>2, SumUnique
  <2>4. Sum(S)[U] = Sum(U)[U]
    BY <2>3
  <2> QED BY <2>4 DEF U
<1> QED BY <1>1, <1>3, <1>4

\* Sizes are numbers, and so is their sum.
LEMMA UsageIsNat ==
    ASSUME NEW S, IsFiniteSet(S), \A x \in S : Grows(x) \in Nat
    PROVE  Total(S) \in Nat
<1> DEFINE G == {U \in SUBSET S : Total(U) \in Nat}
<1>1. ASSUME NEW U \in SUBSET S, \A x \in U : U \ {x} \in G
      PROVE  U \in G
  <2>1. Total(U) = IF U = {} THEN 0 ELSE Grows(Choice(U)) + Total(U \ {Choice(U)})
    <3>1. IsFiniteSet(U)
      BY FS_Subset
    <3> QED BY <3>1, UsageStep
  <2>2. U # {} => Choice(U) \in U
    BY DEF Choice
  <2> QED BY <1>1, <2>1, <2>2
<1>2. G = SUBSET S
  <2> HIDE DEF G
  <2>1. G \in SUBSET SUBSET S
    BY DEF G
  <2> QED BY <1>1, <2>1, SubsetInduction
<1>3. S \in G
  BY <1>2
<1> QED BY <1>3

\* The sum does not depend on the order in which the sizes are added.
LEMMA UsageAdds ==
    ASSUME NEW S, IsFiniteSet(S), \A x \in S : Grows(x) \in Nat
    PROVE  \A x \in S : Total(S) = Grows(x) + Total(S \ {x})
<1> DEFINE Good(U) == \A x \in U : Total(U) = Grows(x) + Total(U \ {x})
           G == {U \in SUBSET S : Good(U)}
<1>0. \A U \in SUBSET S : Total(U) \in Nat
  BY UsageIsNat, FS_Subset
<1>1. ASSUME NEW U \in SUBSET S, \A x \in U : U \ {x} \in G
      PROVE  U \in G
  <2>1. Total(U) = IF U = {} THEN 0 ELSE Grows(Choice(U)) + Total(U \ {Choice(U)})
    <3>1. IsFiniteSet(U)
      BY FS_Subset
    <3> QED BY <3>1, UsageStep
  <2>2. CASE U = {}
    BY <2>1, <2>2
  <2>3. CASE U # {}
    <3> DEFINE c == Choice(U)
    <3>1. c \in U
      BY <2>3 DEF Choice
    <3> HIDE DEF c
    <3>2. Total(U \ {c}) \in Nat /\ Grows(c) \in Nat
      BY <1>0, <3>1
    <3>3. Total(U) = Grows(c) + Total(U \ {c})
      BY <2>1, <2>3 DEF c
    <3>4. ASSUME NEW x \in U, x # c PROVE Total(U) = Grows(x) + Total(U \ {x})
      <4>1. Good(U \ {c}) /\ Good(U \ {x}) /\ Grows(x) \in Nat
        BY <1>1, <3>1
      <4>2. Total(U \ {c}) = Grows(x) + Total((U \ {c}) \ {x})
        BY <3>4, <4>1
      <4>3. Total(U \ {x}) = Grows(c) + Total((U \ {x}) \ {c})
        BY <3>1, <3>4, <4>1
      <4>4. Total((U \ {c}) \ {x}) \in Nat
        BY <1>0
      <4>5. Total(U \ {x}) = Grows(c) + Total((U \ {c}) \ {x})
        <5>1. (U \ {c}) \ {x} = (U \ {x}) \ {c}
          OBVIOUS
        <5> QED BY <4>3, <5>1, Zenon
      <4> QED BY <3>2, <3>3, <4>1, <4>2, <4>4, <4>5
    <3> QED BY <3>2, <3>3, <3>4
  <2> QED BY <2>2, <2>3
<1>2. G = SUBSET S
  <2> HIDE DEF G
  <2>1. G \in SUBSET SUBSET S
    BY DEF G
  <2> QED BY <1>1, <2>1, SubsetInduction
<1>3. S \in G
  BY <1>2
<1> QED BY <1>3

-----------------------------------------------------------------------------
(* The source CDs.                                                         *)

\* One package more.
LEMMA UsageMore ==
    ASSUME NEW S, S \subseteq SourcePackages, NEW p \in SourcePackages
    PROVE  /\ Total(S) \in Nat /\ Total(S \union {p}) \in Nat
           /\ Total(S \union {p}) <= Total(S) + Grows(p)
<1> DEFINE U == S \union {p}
<1>1. /\ IsFiniteSet(S) /\ IsFiniteSet(U)
      /\ \A x \in U : Grows(x) \in Nat
      /\ \A x \in S : Grows(x) \in Nat
  <2>1. U \subseteq SourcePackages
    OBVIOUS
  <2> QED BY <2>1, FS_Subset, SizesAssumption
<1>2. p \in U /\ Grows(p) \in Nat
  BY SizesAssumption
<1>3. U = S \/ U \ {p} = S
  OBVIOUS
<1> HIDE DEF U
<1>4. Total(S) \in Nat /\ Total(U) \in Nat
  BY <1>1, UsageIsNat
<1>5. Total(U) = Grows(p) + Total(U \ {p})
  BY <1>1, <1>2, UsageAdds
<1>6. Total(U) <= Total(S) + Grows(p)
  <2>1. CASE U = S
    <3>1. Total(U) = Total(S)
      BY <2>1, Zenon
    <3> QED BY <1>2, <1>4, <3>1
  <2>2. CASE U \ {p} = S
    <3>1. Total(U) = Grows(p) + Total(S)
      BY <1>5, <2>2, Zenon
    <3> QED BY <1>2, <1>4, <3>1
  <2> QED BY <1>3, <2>1, <2>2
<1> QED BY <1>4, <1>6 DEF U

\* What is stored in a volume with one package more, and in one without any.
LEMMA StoredMore ==
    ASSUME NEW S, S \subseteq SourcePackages, NEW p \in SourcePackages
    PROVE  /\ Stored(S) \in Nat /\ Stored(S \union {p}) \in Nat
           /\ Stored(S \union {p}) <= Stored(S) + Grows(p)
<1>1. \A P : Stored(P) = Empty + Total(P)
  BY DEF Stored, Total
<1>2. Empty \in Nat /\ Grows(p) \in Nat
  BY SizesAssumption
<1> DEFINE U == S \union {p}
<1>3. Total(S) \in Nat /\ Total(U) \in Nat /\ Total(U) <= Total(S) + Grows(p)
  BY UsageMore
<1>4. Stored(S) = Empty + Total(S) /\ Stored(U) = Empty + Total(U)
  BY <1>1
<1> HIDE DEF U
<1>5. Stored(S) \in Nat /\ Stored(U) \in Nat /\ Stored(U) <= Stored(S) + Grows(p)
  BY <1>2, <1>3, <1>4
<1> QED BY <1>5 DEF U

LEMMA StoredOfNone ==
    /\ Stored({}) = Empty
    /\ \A p : Cardinality({p}) = 1
<1>1. Total({}) = 0
  BY UsageStep, FS_EmptySet
<1>2. Stored({}) = Empty
  BY <1>1, SizesAssumption DEF Stored, Total
<1> QED BY <1>2, FS_Singleton

\* There are no volumes yet.
LEMMA CdInitKeeps == CdInit => CdInv
BY DEF CdInit, CdInv, VolumesFit

\* A job opens the repository, and leaves it.
LEMMA OpenKeeps ==
    ASSUME CdInv, OpenRepo \/ CloseRepo
    PROVE  CdInv'
<1>1. CASE OpenRepo
  <2>1. volume_count' = 0 /\ added' = {} /\ left' = SourcePackages
    BY <1>1 DEF OpenRepo
  <2>2. CASE VolumeExists(0)
    <3>1. vols' = vols /\ 0 \in DOMAIN vols
      BY <1>1, <2>2 DEF OpenRepo, VolumeExists
    <3> QED BY <2>1, <3>1 DEF CdInv, VolumesFit
  <2>3. CASE ~VolumeExists(0)
    <3>1. vols' = [v \in {0} |-> {}]
      BY <1>1, <2>3 DEF OpenRepo
    <3>2. Stored({}) <= MaxSize + MaxEntries
      BY StoredOfNone, SizesAssumption
    <3> QED BY <2>1, <3>1, <3>2 DEF CdInv, VolumesFit
  <2> QED BY <2>2, <2>3
<1>2. CASE CloseRepo
  BY <1>2 DEF CloseRepo, CdInv, VolumesFit
<1> QED BY <1>1, <1>2

\* A package goes into the current volume if it fits, or into a new one.
LEMMA IncludeKeeps ==
    ASSUME CdInv, NEW p \in left, IncludeDsc(p)
    PROVE  CdInv'
<1> DEFINE c == volume_count
<1>1. /\ p \in SourcePackages /\ c \in Nat /\ 0..c \subseteq DOMAIN vols
      /\ \A v \in DOMAIN vols : vols[v] \subseteq SourcePackages
      /\ \A v \in DOMAIN vols : Stored(vols[v]) <= MaxSize + MaxEntries \/ Cardinality(vols[v]) = 1
      /\ \A q \in added : \E v \in 0..c : q \in vols[v]
      /\ left \subseteq SourcePackages
  BY DEF CdInv, VolumesFit
<1>2. PICK usage \in DiskUsage(c) :
          /\ volume_count' = Into(p, usage)
          /\ vols' = [v \in DOMAIN vols \union {Into(p, usage)} |->
                        IF v = Into(p, usage) THEN Volume(Into(p, usage)) \union {p} ELSE vols[v]]
          /\ added' = added \union {p} /\ left' = left \ {p}
          /\ ~(NeedsVolume(p, usage) /\ VolumeExists(Into(p, usage)))
  BY DEF IncludeDsc
<1> DEFINE n == Into(p, usage)
<1>3. n = IF NeedsVolume(p, usage) THEN c + 1 ELSE c
  BY DEF Into
<1>4. DOMAIN vols' = DOMAIN vols \union {n} /\ vols'[n] = Volume(n) \union {p}
  BY <1>2
<1>5. n \in Nat /\ 0..n \subseteq DOMAIN vols' /\ 0..c \subseteq 0..n /\ n \in 0..n /\ c \in DOMAIN vols
  BY <1>1, <1>3, <1>4
<1>6. Stored(vols'[n]) <= MaxSize + MaxEntries \/ Cardinality(vols'[n]) = 1
  <2>1. CASE NeedsVolume(p, usage)
    <3>1. Volume(n) = {}
      BY <1>2, <2>1 DEF Volume
    <3>2. vols'[n] = {p}
      BY <1>4, <3>1
    <3> QED BY <3>2, StoredOfNone
  <2>2. CASE ~NeedsVolume(p, usage)
    <3>1. n = c /\ vols'[n] = vols[c] \union {p}
      BY <1>3, <1>4, <1>5, <2>2 DEF Volume, VolumeExists
    <3>2. vols[c] \subseteq SourcePackages
      BY <1>1, <1>5
    <3>3. /\ Stored(vols[c]) \in Nat /\ Stored(vols'[n]) \in Nat
          /\ Stored(vols'[n]) <= Stored(vols[c]) + Grows(p)
      BY <1>1, <3>1, <3>2, StoredMore
    <3>4. usage \in Int /\ Stored(vols[c]) <= usage
      <4>1. PICK i \in 0..(IndexSize * Cardinality(vols[c])) : usage = Stored(vols[c]) + i
        BY DEF DiskUsage
      <4>2. i \in Int /\ i >= 0
        BY <4>1
      <4> QED BY <3>3, <4>1, <4>2
    <3>5. usage + SizeOf(p) <= MaxSize
      BY <2>2, <1>1, <3>4, SizesAssumption DEF NeedsVolume
    <3>6. Grows(p) <= SizeOf(p) + MaxEntries /\ Grows(p) \in Nat /\ SizeOf(p) \in Nat
          /\ MaxSize \in Nat /\ MaxEntries \in Nat
      BY <1>1, SizesAssumption
    <3> QED BY <3>3, <3>4, <3>5, <3>6
  <2> QED BY <2>1, <2>2
<1>7. \A v \in DOMAIN vols' : v # n => v \in DOMAIN vols /\ vols'[v] = vols[v]
  BY <1>2, <1>4
<1>8. \A v \in DOMAIN vols : vols[v] \subseteq vols'[v] /\ v \in DOMAIN vols'
  BY <1>2, <1>4 DEF Volume, VolumeExists
<1> HIDE DEF c, n
<1>9. \A v \in DOMAIN vols' : vols'[v] \subseteq SourcePackages
  <2>1. vols'[n] \subseteq SourcePackages
    BY <1>1, <1>4 DEF Volume, VolumeExists
  <2> QED BY <1>1, <1>7, <2>1
<1>10. p \in vols'[n]
  BY <1>4
<1>11. \A q \in added' : \E v \in 0..n : q \in vols'[v]
  <2>1. ASSUME NEW q \in added PROVE \E v \in 0..n : q \in vols'[v]
    <3>1. PICK v \in 0..c : q \in vols[v]
      BY <1>1
    <3>2. v \in DOMAIN vols /\ v \in 0..n
      BY <1>1, <1>5
    <3> QED BY <1>8, <3>1, <3>2
  <2> QED BY <1>2, <1>5, <1>10, <2>1
<1>12. VolumesFit'
  BY <1>1, <1>6, <1>7 DEF VolumesFit
<1>13. volume_count' = n
  BY <1>2 DEF n
<1> QED BY <1>1, <1>2, <1>5, <1>9, <1>11, <1>12, <1>13 DEF CdInv

\* A package that is left out, and a volume that cannot be made.
LEMMA SkipKeeps ==
    ASSUME CdInv, NEW p \in left, SkipDsc(p) \/ VolumeFails(p)
    PROVE  CdInv'
<1>1. CASE SkipDsc(p)
  BY <1>1 DEF SkipDsc, CdInv, VolumesFit
<1>2. CASE VolumeFails(p)
  <2>1. /\ volume_count' = volume_count + 1 /\ volume_count + 1 \in DOMAIN vols
        /\ UNCHANGED <<vols, added, left>> /\ left # {}
    BY <1>2 DEF VolumeFails, VolumeExists
  <2>2. volume_count \in Nat /\ 0..volume_count \subseteq DOMAIN vols
    BY <2>1 DEF CdInv
  <2>3. volume_count' \in Nat /\ 0..volume_count' \subseteq DOMAIN vols'
        /\ 0..volume_count \subseteq 0..volume_count'
    BY <2>1, <2>2
  <2> QED BY <2>1, <2>3 DEF CdInv, VolumesFit
<1> QED BY <1>1, <1>2

\* The steps of every job, as far as they are about source CDs.
LEMMA CdStep ==
    ASSUME [Next]_vars
    PROVE  \/ OpenRepo \/ CloseRepo \/ BuildIso \/ UNCHANGED cdvars
           \/ \E p \in left : IncludeDsc(p) \/ SkipDsc(p) \/ VolumeFails(p)
<1>1. CASE UNCHANGED vars
  BY <1>1 DEF vars
<1>2. CASE Start \/ Run \/ Expand \/ End \/ Fail \/ DoWork
  BY <1>2 DEF Start, Run, Expand, End, Fail, DoWork, Rest
<1>3. CASE \/ OpenProjectRepo \/ IncludePackage \/ Mkdir \/ RemoveTree \/ Strip \/ Debootstrap
  BY <1>3 DEF OpenProjectRepo, IncludePackage, Mkdir, RemoveTree, Strip, Debootstrap,
              Wiped, RemovalFails, Torn, Rest
<1>4. CASE Borrow \/ Enter \/ EnterFails \/ EndExcursion \/ Leave \/ LeaveFails
  BY <1>4 DEF Borrow, Enter, EnterFails, EndExcursion, Leave, LeaveFails, Rest
<1>5. CASE Commit \/ DumpVersion \/ Extract
  BY <1>5 DEF Commit, DumpVersion, Extract, Rest
<1>6. CASE SourceCd
  BY <1>6 DEF SourceCd
<1>7. CASE Kill \/ Terminating
  BY <1>7 DEF Kill, Terminating, vars
<1> QED BY <1>1, <1>2, <1>3, <1>4, <1>5, <1>6, <1>7 DEF Next

\* Every step keeps the volumes in order.
LEMMA CdNext ==
    ASSUME CdInv, [Next]_vars
    PROVE  CdInv'
<1>1. CASE BuildIso \/ UNCHANGED cdvars
  BY <1>1 DEF BuildIso, cdvars, CdInv, VolumesFit
<1> QED BY <1>1, CdStep, OpenKeeps, IncludeKeeps, SkipKeeps

\* However large the source packages are, whichever of them are left out, and
\* whatever volumes earlier jobs left behind: a volume holds one package only, or it
\* fits on a disk but for the indices and the entries of the package added last.
THEOREM VolumesFitHolds == Spec => []VolumesFit
<1>1. Init => CdInv
  BY CdInitKeeps DEF Init
<1>2. CdInv => VolumesFit
  BY DEF CdInv
<1> QED BY <1>1, <1>2, CdNext, PTL DEF Spec

\* When the images are written, every source package that was added without an
\* error is on one of them.
THEOREM BurntCompleteHolds == Spec => BurntComplete
<1>1. Init => CdInv
  BY CdInitKeeps DEF Init
<1>2. ASSUME CdInv, [Next]_vars, isos' \notin {isos, {}}
      PROVE  added \subseteq UNION isos'
  <2>1. BuildIso
    BY <1>2, CdStep DEF OpenRepo, CloseRepo, IncludeDsc, SkipDsc, VolumeFails, cdvars
  <2>2. CASE volume_count = 0
    <3>1. isos' = {vols[0]} /\ 0..volume_count = {0}
      BY <2>1, <2>2 DEF BuildIso
    <3> QED BY <1>2, <3>1 DEF CdInv
  <2>3. CASE volume_count # 0
    <3>1. isos' = {vols[i] : i \in 0..volume_count}
      BY <2>1, <2>3 DEF BuildIso, volume_indexes
    <3> QED BY <1>2, <3>1 DEF CdInv
  <2> QED BY <2>2, <2>3
<1> QED BY <1>1, <1>2, CdNext, PTL DEF Spec, BurntComplete

-----------------------------------------------------------------------------
(* Jobs that declare the chroot complete.                                  *)

\* The lists of operations in which every declaration that the chroot is
\* complete comes right after its packages are installed and it is left.
Programs ==
    {s \in Seq(Ops) : \A i \in DOMAIN s : s[i] = Declared =>
                          i > 2 /\ s[i - 1].op = "leave" /\ s[i - 2] = Installs}

\* Lists that end with the installation of the chroot's packages.
EndsInstalled(s) ==
    s \in Seq(Ops) /\ Len(s) > 1 /\ s[Len(s)].op = "leave" /\ s[Len(s) - 1] = Installs

\* One such list after another.
LEMMA ConcatKeeps == \A a, b \in Programs : a \o b \in Programs
<1> SUFFICES ASSUME NEW a \in Programs, NEW b \in Programs PROVE a \o b \in Programs
  OBVIOUS
<1> DEFINE c == a \o b
<1>1. a \in Seq(Ops) /\ b \in Seq(Ops)
  BY DEF Programs
<1>2. /\ c \in Seq(Ops) /\ Len(a) \in Nat /\ Len(b) \in Nat /\ Len(c) = Len(a) + Len(b)
      /\ DOMAIN a = 1..Len(a) /\ DOMAIN b = 1..Len(b) /\ DOMAIN c = 1..Len(c)
      /\ \A i \in 1..Len(c) : c[i] = IF i <= Len(a) THEN a[i] ELSE b[i - Len(a)]
  BY <1>1, ConcatProperties, LenProperties
<1> HIDE DEF c
<1>3. ASSUME NEW i \in DOMAIN c, c[i] = Declared
      PROVE  i > 2 /\ c[i - 1].op = "leave" /\ c[i - 2] = Installs
  <2>1. CASE i <= Len(a)
    <3>1. i \in DOMAIN a /\ a[i] = Declared
      BY <1>2, <1>3, <2>1
    <3>2. i > 2 /\ a[i - 1].op = "leave" /\ a[i - 2] = Installs
      BY <3>1 DEF Programs
    <3>3. c[i - 1] = a[i - 1] /\ c[i - 2] = a[i - 2]
      BY <1>2, <2>1, <3>2
    <3> QED BY <3>2, <3>3
  <2>2. CASE ~(i <= Len(a))
    <3> DEFINE k == i - Len(a)
    <3>1. k \in DOMAIN b /\ b[k] = Declared
      BY <1>2, <1>3, <2>2
    <3>2. k > 2 /\ b[k - 1].op = "leave" /\ b[k - 2] = Installs
      BY <3>1 DEF Programs
    <3>3. i \in Nat /\ i > 2 /\ i - 1 \in 1..Len(c) /\ i - 2 \in 1..Len(c)
          /\ ~(i - 1 <= Len(a)) /\ ~(i - 2 <= Len(a))
          /\ (i - 1) - Len(a) = k - 1 /\ (i - 2) - Len(a) = k - 2
      BY <1>2, <2>2, <3>2, SMTT(30)
    <3>4. c[i - 1] = b[k - 1] /\ c[i - 2] = b[k - 2]
      BY <1>2, <3>3
    <3> QED BY <3>2, <3>3, <3>4
  <2> QED BY <2>1, <2>2
<1> QED BY <1>2, <1>3 DEF Programs, c

\* The names of the operations that declare nothing.
Names == OpNames \ {"version"}
LEMMA NamesAre ==
    /\ "repo" \in Names /\ "open" \in Names /\ "run" \in Names /\ "rmtree" \in Names
    /\ "work" \in Names /\ "borrow" \in Names /\ "enter" \in Names /\ "enter rfs" \in Names
    /\ "leave" \in Names /\ "debootstrap" \in Names /\ "end_excursion" \in Names /\ "commit" \in Names
    /\ "mkdir" \in Names /\ "ensure" \in Names /\ "pbuild" \in Names /\ "extract" \in Names
    /\ "finetuning" \in Names /\ "cdroms" \in Names /\ "strip" \in Names /\ "sdk" \in Names
    /\ "include" \in Names /\ "open cd" \in Names /\ "fill cd" \in Names
    /\ "burn cd" \in Names /\ "mk cdrom" \in Names
BY DEF Names, OpNames

\* One operation.
LEMMA OpIsProgram ==
    /\ \A name \in Names, t \in Trees : Op(name, t) \in Programs
    /\ \A t \in Trees : t # "chroot" => Op("version", t) \in Programs
    /\ Op("version", "chroot") \in Seq(Ops) /\ Len(Op("version", "chroot")) = 1
<1>1. ASSUME NEW name \in OpNames, NEW t \in Trees
      PROVE  /\ Op(name, t) \in Seq(Ops)
             /\ name # "version" \/ t # "chroot" => Op(name, t) \in Programs
  <2>1. [op |-> name, t |-> t] \in Ops
    BY DEF Ops
  <2>2. name # "version" \/ t # "chroot" => [op |-> name, t |-> t] # Declared
    BY DEF Declared
  <2> QED BY <2>1, <2>2 DEF Op, Programs
<1>2. "version" \in OpNames /\ "chroot" \in Trees
  BY DEF Trees, OpNames
<1>3. \A name \in Names : name \in OpNames /\ name # "version"
  BY DEF Names
<1>4. ASSUME NEW name \in Names, NEW t \in Trees PROVE Op(name, t) \in Programs
  BY <1>1, <1>3
<1>5. ASSUME NEW t \in Trees, t # "chroot" PROVE Op("version", t) \in Programs
  BY <1>1, <1>2, <1>5
<1>6. Op("version", "chroot") \in Seq(Ops)
  BY <1>1, <1>2
<1>7. Len(Op("version", "chroot")) = 1
  BY DEF Op
<1> QED BY <1>4, <1>5, <1>6, <1>7

\* No operation.
LEMMA NoneIsProgram == <<>> \in Programs
BY DEF Programs

\* What comes before leaves the end as it is.
LEMMA EndKept ==
    ASSUME NEW a \in Programs, NEW b, EndsInstalled(b)
    PROVE  EndsInstalled(a \o b)
<1> DEFINE c == a \o b
<1>1. a \in Seq(Ops) /\ b \in Seq(Ops)
  BY DEF Programs, EndsInstalled
<1>2. /\ c \in Seq(Ops) /\ Len(a) \in Nat /\ Len(b) \in Nat /\ Len(c) = Len(a) + Len(b)
      /\ \A i \in 1..Len(c) : c[i] = IF i <= Len(a) THEN a[i] ELSE b[i - Len(a)]
  BY <1>1, ConcatProperties, LenProperties
<1> HIDE DEF c
<1>3. Len(b) > 1
  BY DEF EndsInstalled
<1>4. c[Len(c)] = b[Len(b)] /\ c[Len(c) - 1] = b[Len(b) - 1] /\ Len(c) > 1
  <2>1. /\ Len(c) \in 1..Len(c) /\ ~(Len(c) <= Len(a)) /\ Len(c) - Len(a) = Len(b)
        /\ Len(c) - 1 \in 1..Len(c) /\ ~(Len(c) - 1 <= Len(a))
        /\ (Len(c) - 1) - Len(a) = Len(b) - 1
    BY <1>2, <1>3
  <2> QED BY <1>2, <2>1, <1>3, SMTT(30)
<1> QED BY <1>2, <1>4 DEF EndsInstalled, c

\* The declaration, or any other operation, after such an end.
LEMMA DeclaredAfter ==
    ASSUME NEW a \in Programs, EndsInstalled(a), NEW b \in Seq(Ops), Len(b) = 1
    PROVE  a \o b \in Programs
<1> DEFINE c == a \o b
<1>1. a \in Seq(Ops) /\ Len(a) > 1 /\ a[Len(a)].op = "leave" /\ a[Len(a) - 1] = Installs
  BY DEF Programs, EndsInstalled
<1>2. /\ c \in Seq(Ops) /\ Len(a) \in Nat /\ Len(b) \in Nat /\ Len(c) = Len(a) + Len(b)
      /\ DOMAIN a = 1..Len(a) /\ DOMAIN b = 1..Len(b) /\ DOMAIN c = 1..Len(c)
      /\ \A i \in 1..Len(c) : c[i] = IF i <= Len(a) THEN a[i] ELSE b[i - Len(a)]
  BY <1>1, ConcatProperties, LenProperties, SMTT(30)
<1> HIDE DEF c
<1>3. ASSUME NEW i \in DOMAIN c, c[i] = Declared
      PROVE  i > 2 /\ c[i - 1].op = "leave" /\ c[i - 2] = Installs
  <2>1. CASE i <= Len(a)
    <3>1. i \in DOMAIN a /\ a[i] = Declared
      BY <1>2, <1>3, <2>1
    <3>2. i > 2 /\ a[i - 1].op = "leave" /\ a[i - 2] = Installs
      BY <3>1 DEF Programs
    <3>3. c[i - 1] = a[i - 1] /\ c[i - 2] = a[i - 2]
      BY <1>2, <2>1, <3>2
    <3> QED BY <3>2, <3>3
  <2>2. CASE ~(i <= Len(a))
    <3>1. i = Len(a) + 1 /\ i - 1 = Len(a) /\ i - 2 = Len(a) - 1
      BY <1>2, <2>2
    <3>2. c[Len(a)] = a[Len(a)] /\ c[Len(a) - 1] = a[Len(a) - 1]
      BY <1>1, <1>2
    <3> QED BY <1>1, <3>1, <3>2
  <2> QED BY <2>1, <2>2
<1> QED BY <1>2, <1>3 DEF Programs, c

\* The installation of packages is a list that ends so.
LEMMA InstallEnds ==
    /\ \A t \in Trees : InstallPackages(t) \in Programs
    /\ EndsInstalled(InstallPackages("chroot"))
<1>1. ASSUME NEW t \in Trees PROVE InstallPackages(t) \in Programs
  <2>1. /\ Op("borrow", t) \in Programs /\ Op("enter", t) \in Programs
        /\ Op("work", t) \in Programs /\ Op("end_excursion", t) \in Programs
        /\ Op("commit", t) \in Programs /\ Op("leave", t) \in Programs
    BY OpIsProgram, NamesAre
  <2> QED BY <2>1, ConcatKeeps DEF InstallPackages, InEnv, Work
<1>2. EndsInstalled(InstallPackages("chroot"))
  <2> DEFINE p == Work("chroot") \o Op("end_excursion", "chroot")
             q == Op("borrow", "chroot") \o Op("enter", "chroot")
             m == p \o Op("commit", "chroot")
             a == q \o m
             c == a \o Op("leave", "chroot")
  <2>0. "chroot" \in Trees
    BY DEF Trees
  <2>1. /\ p \in Seq(Ops) /\ q \in Seq(Ops) /\ Op("commit", "chroot") \in Seq(Ops)
        /\ Op("leave", "chroot") \in Seq(Ops)
    <3>1. /\ Op("borrow", "chroot") \in Programs /\ Op("enter", "chroot") \in Programs
          /\ Op("work", "chroot") \in Programs /\ Op("end_excursion", "chroot") \in Programs
          /\ Op("commit", "chroot") \in Programs /\ Op("leave", "chroot") \in Programs
      BY <2>0, OpIsProgram, NamesAre
    <3>2. p \in Programs /\ q \in Programs
      BY <3>1, ConcatKeeps DEF Work
    <3> QED BY <3>1, <3>2 DEF Programs
  <2>2. /\ Len(Op("commit", "chroot")) = 1 /\ Op("commit", "chroot")[1] = Installs
        /\ Len(Op("leave", "chroot")) = 1 /\ Op("leave", "chroot")[1].op = "leave"
    BY DEF Op, Installs
  <2> HIDE DEF p, q
  <2>3. /\ m \in Seq(Ops) /\ Len(p) \in Nat /\ Len(m) = Len(p) + 1
        /\ m[Len(m)] = Installs
    BY <2>1, <2>2, ConcatProperties, LenProperties
  <2> HIDE DEF m
  <2>4. /\ a \in Seq(Ops) /\ a[Len(a)] = Installs /\ Len(a) > 0 /\ Len(a) \in Nat
    <3>1. /\ a \in Seq(Ops) /\ Len(a) \in Nat /\ Len(q) \in Nat /\ Len(m) \in Nat
          /\ Len(a) = Len(q) + Len(m)
          /\ \A i \in 1..Len(a) : a[i] = IF i <= Len(q) THEN q[i] ELSE m[i - Len(q)]
      BY <2>1, <2>3, ConcatProperties, LenProperties, ZenonT(90)
    <3>2. Len(m) > 0
      BY <2>1, <2>3, LenProperties
    <3>3. Len(a) \in 1..Len(a) /\ ~(Len(a) <= Len(q)) /\ Len(a) - Len(q) = Len(m)
      BY <3>1, <3>2
    <3> QED BY <2>3, <3>1, <3>3
  <2> HIDE DEF a
  <2>5. /\ c \in Seq(Ops) /\ Len(c) = Len(a) + 1
        /\ c[Len(a)] = a[Len(a)] /\ c[Len(c)].op = "leave"
    BY <2>1, <2>2, <2>4, ConcatProperties, LenProperties
  <2> HIDE DEF c
  <2>6. EndsInstalled(c)
    BY <2>4, <2>5 DEF EndsInstalled
  <2> QED BY <2>6 DEF InstallPackages, InEnv, c, a, m, p, q
<1> QED BY <1>1, <1>2


\* The parts that jobs are put together from.
LEMMA PartsArePrograms ==
    ASSUME NEW t \in Trees
    PROVE  /\ Work(t) \in Programs /\ Rmtree(t) \in Programs
           /\ \A b \in Programs : InEnv(t, b) \in Programs /\ InRfs(t, b) \in Programs
           /\ InitializeDirs(t) \in Programs /\ CreateAptPrefs(t) \in Programs
           /\ SeedEtc(t) \in Programs
           /\ BuildEnv(t, TRUE) \in Programs /\ BuildEnv(t, FALSE) \in Programs
<1>1. Work(t) \in Programs /\ Rmtree(t) \in Programs
  BY OpIsProgram, NamesAre DEF Work, Rmtree
<1>2. /\ Op("borrow", t) \in Programs /\ Op("enter", t) \in Programs
      /\ Op("enter rfs", t) \in Programs /\ Op("leave", t) \in Programs
      /\ Op("debootstrap", t) \in Programs
  BY OpIsProgram, NamesAre
<1>3. ASSUME NEW b \in Programs PROVE InEnv(t, b) \in Programs /\ InRfs(t, b) \in Programs
  BY <1>2, ConcatKeeps DEF InEnv, InRfs
<1>4. InitializeDirs(t) \in Programs /\ CreateAptPrefs(t) \in Programs /\ SeedEtc(t) \in Programs
  BY <1>1, <1>3 DEF InitializeDirs, CreateAptPrefs, SeedEtc
<1>5. BuildEnv(t, TRUE) \in Programs /\ BuildEnv(t, FALSE) \in Programs
  BY <1>1, <1>2, <1>4, ConcatKeeps, NoneIsProgram DEF BuildEnv
<1> QED BY <1>1, <1>3, <1>4, <1>5

\* The build of a project, the only job that declares the chroot complete.
LEMMA BuildIsProgram == Build \in Programs
<1> DEFINE a == Op("ensure", "chroot") \o Op("pbuild", "chroot")
           b == a \o InstallPackages("chroot")
           c == b \o Op("version", "chroot")
<1>0. "chroot" \in Trees /\ "target" \in Trees /\ "target" # "chroot"
  BY DEF Trees
<1>1. /\ Op("ensure", "chroot") \in Programs /\ Op("pbuild", "chroot") \in Programs
      /\ Op("mkdir", "target") \in Programs /\ Op("extract", "target") \in Programs
      /\ Op("finetuning", "target") \in Programs
      /\ Op("cdroms", "chroot") \in Programs
      /\ Rmtree("target") \in Programs /\ Work("target") \in Programs
  BY <1>0, OpIsProgram, NamesAre, PartsArePrograms
<1>2. a \in Programs /\ InstallPackages("chroot") \in Programs /\ CleanTarget \in Programs
  BY <1>0, <1>1, ConcatKeeps, InstallEnds DEF CleanTarget
<1> HIDE DEF a
<1>3. b \in Programs /\ EndsInstalled(b)
  BY <1>2, ConcatKeeps, EndKept, InstallEnds
<1> HIDE DEF b
<1>4. c \in Programs
  BY <1>3, OpIsProgram, DeclaredAfter
<1> HIDE DEF c
<1>5. c \o CleanTarget \o Op("extract", "target") \o Work("target")
         \o InstallPackages("chroot") \o Op("finetuning", "target") \o Work("target")
         \o Op("cdroms", "chroot") \o Op("finetuning", "target") \o Work("target") \in Programs
  BY <1>1, <1>2, <1>4, ConcatKeeps
<1> QED BY <1>5 DEF Build, a, b, c

\* The jobs that build an SDK.
LEMMA SdkIsProgram ==
    /\ BuildSdk \in Programs
    /\ BuildHostSysroot \o Work("host") \o Rmtree("host") \in Programs
<1>0. "sysroot" \in Trees /\ "host" \in Trees /\ "sysroot" # "chroot"
  BY DEF Trees
<1>1. /\ Op("mkdir", "sysroot") \in Programs /\ Op("commit", "sysroot") \in Programs
      /\ Op("version", "sysroot") \in Programs /\ Op("sdk", "host") \in Programs
      /\ Op("mkdir", "host") \in Programs /\ Op("commit", "host") \in Programs
      /\ Op("strip", "host") \in Programs
  BY <1>0, OpIsProgram, NamesAre
<1>2. /\ Rmtree("sysroot") \in Programs /\ BuildEnv("sysroot", TRUE) \in Programs
      /\ Work("sysroot") \in Programs
      /\ InEnv("sysroot", Op("commit", "sysroot")) \in Programs
      /\ InRfs("sysroot", Work("sysroot")) \in Programs
      /\ InstallPackages("sysroot") \in Programs
  BY <1>0, <1>1, PartsArePrograms, InstallEnds
<1>3. /\ Rmtree("host") \in Programs /\ BuildEnv("host", TRUE) \in Programs
      /\ Work("host") \in Programs /\ InEnv("host", Op("commit", "host")) \in Programs
  BY <1>0, <1>1, PartsArePrograms
<1>4. BuildSdk \in Programs
  BY <1>1, <1>2, ConcatKeeps DEF BuildSdk, BuildSysroot
<1> QED BY <1>1, <1>3, <1>4, ConcatKeeps DEF BuildHostSysroot

\* The jobs of the daemon and of the local commands, and how they begin.
LEMMA JobsArePrograms ==
    /\ Jobs \subseteq Programs
    /\ Load \o Op("run", "chroot") \in Programs
    /\ Rmtree("target") \o Rmtree("chroot") \in Programs
<1>0. "chroot" \in Trees /\ "target" \in Trees /\ "sysroot" \in Trees
  BY DEF Trees
<1>1. /\ Op("cdroms", "chroot") \in Programs /\ Op("include", "chroot") \in Programs
      /\ Op("repo", "chroot") \in Programs /\ Op("open", "chroot") \in Programs
      /\ Op("run", "chroot") \in Programs
      /\ Op("commit", "chroot") \in Programs /\ Op("commit", "target") \in Programs
  BY <1>0, OpIsProgram, NamesAre
<1>2. /\ InEnv("chroot", Op("commit", "chroot")) \in Programs
      /\ InRfs("target", Op("commit", "target")) \in Programs
      /\ Rmtree("sysroot") \in Programs /\ Rmtree("target") \in Programs
      /\ Rmtree("chroot") \in Programs
  BY <1>0, <1>1, PartsArePrograms
<1>3. Shells \subseteq Programs
  BY <1>2 DEF Shells
<1>4. Jobs \subseteq Programs
  BY <1>1, <1>3, BuildIsProgram, SdkIsProgram DEF Jobs
<1> QED BY <1>1, <1>2, <1>4, ConcatKeeps DEF Load

\* What an operation stands for.
LEMMA MeaningsArePrograms ==
    ASSUME NEW name, name \in Composed \/ name = "run", T \in Trees
    PROVE  Meaning(name) \subseteq Programs
<1>0. /\ "chroot" \in Trees /\ "target" \in Trees /\ "sysroot" \in Trees /\ "host" \in Trees
  BY DEF Trees
<1>1. CASE name = "open"
  BY <1>0, <1>1, PartsArePrograms, NoneIsProgram DEF Meaning
<1>2. CASE name = "ensure"
  <2>1. Op("mkdir", "chroot") \o BuildEnv("chroot", TRUE) \in Programs
    BY <1>0, PartsArePrograms, OpIsProgram, NamesAre, ConcatKeeps
  <2> QED BY <1>2, <2>1, NoneIsProgram DEF Meaning
<1>3. CASE name = "pbuild"
  <2>1. InEnv("chroot", Work("chroot")) \o Op("include", "chroot") \in Programs
    BY <1>0, PartsArePrograms, OpIsProgram, NamesAre, ConcatKeeps
  <2> QED BY <1>3, <2>1, NoneIsProgram DEF Meaning, Pbuild
<1>4. CASE name = "finetuning"
  <2>1. /\ Op("commit", "target") \in Programs /\ Op("commit", "chroot") \in Programs
        /\ Work("target") \in Programs /\ Work("chroot") \in Programs
    BY <1>0, PartsArePrograms, OpIsProgram, NamesAre
  <2>2. /\ InRfs("target", Work("target")) \in Programs
        /\ InRfs("target", Op("commit", "target")) \in Programs
        /\ InEnv("chroot", Op("commit", "chroot")) \in Programs
        /\ InEnv("chroot", Work("chroot")) \in Programs
    BY <1>0, <2>1, PartsArePrograms
  <2>3. Finetuning \subseteq Programs
    BY <2>1, <2>2, NoneIsProgram, ConcatKeeps
       DEF Finetuning, PlainAction, UserAction, FileAction, CommandAction, BuildenvCommand,
           UpdatedAction
  <2> QED BY <1>4, <2>3 DEF Meaning
<1>5. CASE name = "cdroms"
  <2>1. ASSUME NEW t \in Trees
        PROVE  BuildEnv(t, FALSE) \o InEnv(t, SeedEtc(t)) \o InEnv(t, Op("mk cdrom", t)) \in Programs
    BY PartsArePrograms, OpIsProgram, NamesAre, ConcatKeeps
  <2>2. BuildCdroms \subseteq Programs
    BY <1>0, <2>1 DEF BuildCdroms
  <2> QED BY <1>5, <2>2 DEF Meaning
<1>6. CASE name = "mk cdrom"
  <2>1. ASSUME NEW t \in Trees PROVE MkCdrom(t) \subseteq Programs
    <3> DEFINE other(o) == IF o # t /\ o \in there
                           THEN BuildEnv(o, FALSE) \o InEnv(o, SeedEtc(o)) ELSE <<>>
               binary == Work(t)
               source == other("chroot") \o other("host")
                           \o Op("open cd", t) \o Op("fill cd", t) \o Op("burn cd", t)
    <3>1. other("chroot") \in Programs /\ other("host") \in Programs
      BY <1>0, PartsArePrograms, NoneIsProgram, ConcatKeeps
    <3>2. /\ binary \in Programs /\ Op("open cd", t) \in Programs
          /\ Op("fill cd", t) \in Programs /\ Op("burn cd", t) \in Programs
      BY OpIsProgram, NamesAre, PartsArePrograms
    <3>3. source \in Programs
      <4> HIDE DEF other
      <4> QED BY <3>1, <3>2, ConcatKeeps
    <3>4. MkCdrom(t) = {<<>>, binary, source, binary \o source}
      BY DEF MkCdrom
    <3> HIDE DEF binary, source
    <3> QED BY <3>2, <3>3, <3>4, NoneIsProgram, ConcatKeeps
  <2> QED BY <1>6, <2>1 DEF Meaning
<1>7. CASE name = "sdk"
  BY <1>7, SdkIsProgram, NoneIsProgram DEF Meaning
<1>8. CASE name = "run"
  BY <1>8, JobsArePrograms DEF Meaning
<1> QED BY <1>1, <1>2, <1>3, <1>4, <1>5, <1>6, <1>7, <1>8 DEF Composed


\* The operation at hand, and the ones after it.
LEMMA HeadAndTail ==
    ASSUME FullInv, todo # <<>>
    PROVE  /\ T \in Trees /\ Head(todo) = todo[1] /\ 1 \in DOMAIN todo
           /\ Tail(todo) \in Seq(Ops)
           /\ \A i \in DOMAIN Tail(todo) : /\ i \in Nat /\ i > 0
                                           /\ i + 1 \in DOMAIN todo /\ Tail(todo)[i] = todo[i + 1]
                                           /\ i > 1 => Tail(todo)[i - 1] = todo[i]
                                           /\ i > 2 => Tail(todo)[i - 2] = todo[i - 1]
<1>1. todo \in Seq(Ops)
  BY DEF FullInv
<1>2. /\ Head(todo) = todo[1] /\ Head(todo) \in Ops /\ Tail(todo) \in Seq(Ops)
      /\ Len(todo) \in Nat /\ Len(todo) > 0 /\ Len(Tail(todo)) = Len(todo) - 1
      /\ DOMAIN todo = 1..Len(todo) /\ DOMAIN Tail(todo) = 1..(Len(todo) - 1)
      /\ \A i \in 1..(Len(todo) - 1) : Tail(todo)[i] = todo[i + 1]
  BY <1>1, HeadTailProperties, EmptySeq, LenProperties
<1>3. T \in Trees
  BY <1>2 DEF T, Ops
<1>4. ASSUME NEW i \in DOMAIN Tail(todo)
      PROVE  /\ i \in Nat /\ i > 0 /\ i + 1 \in DOMAIN todo /\ Tail(todo)[i] = todo[i + 1]
             /\ i > 1 => Tail(todo)[i - 1] = todo[i]
             /\ i > 2 => Tail(todo)[i - 2] = todo[i - 1]
  <2>1. i \in Nat /\ i > 0 /\ i <= Len(todo) - 1 /\ i + 1 \in DOMAIN todo
        /\ Tail(todo)[i] = todo[i + 1]
    BY <1>2
  <2>2. i > 1 => Tail(todo)[i - 1] = todo[i]
    <3> SUFFICES ASSUME i > 1 PROVE Tail(todo)[i - 1] = todo[i]
      OBVIOUS
    <3>1. i - 1 \in 1..(Len(todo) - 1) /\ (i - 1) + 1 = i
      BY <1>2, <2>1
    <3> QED BY <1>2, <3>1
  <2>3. i > 2 => Tail(todo)[i - 2] = todo[i - 1]
    <3> SUFFICES ASSUME i > 2 PROVE Tail(todo)[i - 2] = todo[i - 1]
      OBVIOUS
    <3>1. i - 2 \in 1..(Len(todo) - 1) /\ (i - 2) + 1 = i - 1
      BY <1>2, <2>1
    <3> QED BY <1>2, <3>1
  <2> QED BY <2>1, <2>2, <2>3
<1> QED BY <1>2, <1>3, <1>4

\* Whatever the trees are, what follows an operation that is none of the three
\* declares nothing that is not so.
LEMMA TailIsProgram ==
    ASSUME FullInv, todo # <<>>, Head(todo).op \notin {"version", "leave", "commit"}
    PROVE  Tail(todo) \in Programs
<1> DEFINE s == Tail(todo)
<1>1. /\ Head(todo) = todo[1] /\ s \in Seq(Ops)
      /\ \A i \in DOMAIN s : /\ i \in Nat /\ i > 0 /\ i + 1 \in DOMAIN todo /\ s[i] = todo[i + 1]
                             /\ i > 1 => s[i - 1] = todo[i]
                             /\ i > 2 => s[i - 2] = todo[i - 1]
  BY HeadAndTail
<1> HIDE DEF s
<1>2. ASSUME NEW i \in DOMAIN s, s[i] = Declared
      PROVE  i > 2 /\ s[i - 1].op = "leave" /\ s[i - 2] = Installs
  <2> DEFINE k == i + 1
  <2>1. k \in DOMAIN todo /\ todo[k] = Declared /\ k > 1 /\ k \in Nat /\ i \in Nat
    BY <1>1, <1>2
  <2>2. \/ k > 2 /\ todo[k - 1].op = "leave" /\ todo[k - 2] = Installs
        \/ k = 2 /\ todo[1].op = "leave"
    BY <2>1 DEF FullInv
  <2>3. k > 2 /\ todo[i].op = "leave" /\ todo[i - 1] = Installs
    BY <1>1, <2>1, <2>2
  <2>4. i # 2
    <3> SUFFICES ASSUME i = 2 PROVE FALSE
      OBVIOUS
    <3>1. todo[1] = Installs
      BY <2>3
    <3> QED BY <1>1, <3>1 DEF Installs
  <2> QED BY <1>1, <1>2, <2>1, <2>3, <2>4
<1> QED BY <1>1, <1>2 DEF Programs, s

\* A list of operations that needs nothing of the chroot.
LEMMA FromProgram ==
    ASSUME FullInv, todo' \in Programs, FullIsInstalled', built' \in {"no", "yes", "torn"}
    PROVE  FullInv'
BY DEF FullInv, Programs

\* The chroot stays complete.
StaysFull ==
    /\ "chroot" \in version' => "chroot" \in version
    /\ built' \in {"no", "yes", "torn"}
    /\ built' = built \/ built' \in {"yes", "torn"} \/ "chroot" \notin version'

LEMMA StaysFullKeeps ==
    ASSUME FullInv, StaysFull
    PROVE  FullIsInstalled' /\ built' \in {"no", "yes", "torn"}
BY DEF FullInv, StaysFull, FullIsInstalled, has_full_buildenv, Installed

\* A step that takes the operation at hand off the list, or raises.
LEMMA StepKeeps ==
    ASSUME FullInv, StaysFull, todo # <<>>,
           Head(todo).op \notin {"version", "leave", "commit"}, Done \/ Raise
    PROVE  FullInv'
<1>1. todo' \in Programs
  BY TailIsProgram, NoneIsProgram DEF Done, Raise
<1> QED BY <1>1, StaysFullKeeps, FromProgram

\* There is nothing to do yet.
LEMMA FullInitKeeps == Init => FullInv
<1> SUFFICES ASSUME Init PROVE FullInv
  OBVIOUS
<1>1. todo \in Seq(Ops) /\ DOMAIN todo = {}
  BY DEF Init
<1> QED BY <1>1 DEF Init, FullInv, FullIsInstalled, has_full_buildenv

\* A job begins, and its operations are looked up.
LEMMA PlanKeeps ==
    ASSUME FullInv, Start \/ Run \/ Expand
    PROVE  FullInv'
<1>1. StaysFull
  BY DEF Start, Run, Expand, treevars, StaysFull, FullInv
<1>2. CASE Start
  BY <1>1, <1>2, JobsArePrograms, StaysFullKeeps, FromProgram DEF Start, StaysFull
<1>3. CASE Run
  <2>1. T \in Trees
    BY <1>3, HeadAndTail DEF Run, Next1
  <2>2. todo' \in Programs
    BY <1>3, <2>1, MeaningsArePrograms DEF Run
  <2> QED BY <1>1, <2>2, StaysFullKeeps, FromProgram DEF StaysFull
<1>4. CASE Expand
  <2>1. PICK name \in Composed : Next1(name) /\ \E p \in Meaning(name) : todo' = p \o Tail(todo)
    BY <1>4 DEF Expand
  <2>2. todo # <<>> /\ Head(todo).op = name
    BY <2>1 DEF Next1
  <2>3. name \notin {"version", "leave", "commit"}
    BY DEF Composed
  <2>4. Tail(todo) \in Programs /\ T \in Trees
    BY <2>2, <2>3, TailIsProgram, HeadAndTail
  <2>5. todo' \in Programs
    BY <2>1, <2>4, MeaningsArePrograms, ConcatKeeps
  <2> QED BY <1>1, <2>5, StaysFullKeeps, FromProgram DEF StaysFull
<1> QED BY <1>2, <1>3, <1>4


\* Operations that change no tree.
LEMMA PlainKeeps ==
    ASSUME FullInv, Fail \/ DoWork \/ OpenProjectRepo \/ IncludePackage \/ Borrow \/ SourceCd
    PROVE  FullInv'
<1>1. StaysFull
  BY DEF Fail, DoWork, OpenProjectRepo, IncludePackage, Borrow, SourceCd, treevars,
         StaysFull, FullInv
<1>2. CASE Fail
  <2>1. Raise
    BY <1>2 DEF Fail
  <2> QED BY <1>1, <2>1, NoneIsProgram, StaysFullKeeps, FromProgram DEF Raise
<1>3. CASE DoWork \/ OpenProjectRepo \/ IncludePackage \/ Borrow
  <2>1. /\ todo # <<>> /\ Head(todo).op \notin {"version", "leave", "commit"}
        /\ Done \/ Raise
    BY <1>3 DEF DoWork, OpenProjectRepo, IncludePackage, Borrow, Next1
  <2> QED BY <1>1, <2>1, StepKeeps
<1>4. CASE SourceCd
  <2>1. CASE UNCHANGED <<todo, treevars>>
    BY <2>1 DEF treevars, FullInv, FullIsInstalled, has_full_buildenv, Installed
  <2>2. CASE Done \/ Raise
    <3>1. todo # <<>> /\ Head(todo).op \notin {"version", "leave", "commit"}
      BY <1>4 DEF SourceCd, Next1
    <3> QED BY <1>1, <2>2, <3>1, StepKeeps
  <2> QED BY <1>4, <2>1, <2>2 DEF SourceCd
<1> QED BY <1>2, <1>3, <1>4

\* Operations that make or remove trees.
LEMMA TreeKeeps ==
    ASSUME FullInv, Mkdir \/ RemoveTree \/ Strip \/ Debootstrap \/ Extract
    PROVE  FullInv'
<1>1. /\ todo # <<>> /\ Head(todo).op \notin {"version", "leave", "commit"}
      /\ Done \/ Raise
  BY DEF Mkdir, RemoveTree, Strip, Debootstrap, Extract, RemovalFails, Torn, Next1
<1>2. built \in {"no", "yes", "torn"}
  BY DEF FullInv
<1>3. Wiped(T) => StaysFull
  BY <1>2 DEF Wiped, Becomes, StaysFull
<1>4. RemovalFails(T) => StaysFull
  BY <1>2 DEF RemovalFails, Torn, Becomes, StaysFull
<1>5. Mkdir \/ Extract => StaysFull
  BY <1>2 DEF Mkdir, Extract, StaysFull
<1>6. RemoveTree => StaysFull
  BY <1>3, <1>4 DEF RemoveTree
<1>7. Strip => StaysFull
  BY <1>2, <1>4 DEF Strip, Becomes, StaysFull
<1>8. Debootstrap => StaysFull
  BY <1>2, <1>3, <1>4 DEF Debootstrap, Becomes, StaysFull, treevars
<1> QED BY <1>1, <1>5, <1>6, <1>7, <1>8, StepKeeps

\* A tree is entered, or an excursion ends in it.
LEMMA EnterKeeps ==
    ASSUME FullInv, Enter \/ EnterFails \/ EndExcursion
    PROVE  FullInv'
<1>1. /\ todo # <<>> /\ Head(todo).op \notin {"version", "leave", "commit"}
      /\ todo' = Tail(todo) \/ todo' = <<>>
      /\ version' = version /\ built' = built
  BY DEF Enter, EnterFails, Enters, EndExcursion, Raise, Next1
<1>2. todo' \in Programs
  BY <1>1, TailIsProgram, NoneIsProgram
<1>3. StaysFull
  BY <1>1 DEF StaysFull, FullInv
<1> QED BY <1>2, <1>3, StaysFullKeeps, FromProgram

\* Packages are installed: the chroot has them from now on.
LEMMA CommitKeeps ==
    ASSUME FullInv, Commit
    PROVE  FullInv'
<1> DEFINE s == Tail(todo)
<1>0. CASE Raise
  <2>1. StaysFull
    BY <1>0 DEF Commit, Done, Raise, Becomes, StaysFull, FullInv
  <2> QED BY <1>0, <2>1, NoneIsProgram, StaysFullKeeps, FromProgram DEF Raise
<1> SUFFICES ASSUME Done, Becomes(T, IF built = "torn" THEN "torn" ELSE "yes") PROVE FullInv'
  BY <1>0 DEF Commit
<1>1. /\ todo # <<>> /\ Head(todo).op = "commit" /\ todo' = s /\ version' = version
      /\ built' \in {built, "yes", "torn"} /\ (T = "chroot" => built' \in {"yes", "torn"})
  BY DEF Commit, Done, Next1, Becomes
<1>2. /\ T \in Trees /\ Head(todo) = todo[1] /\ s \in Seq(Ops)
      /\ \A i \in DOMAIN s : /\ i \in Nat /\ i > 0 /\ i + 1 \in DOMAIN todo /\ s[i] = todo[i + 1]
                             /\ i > 1 => s[i - 1] = todo[i]
                             /\ i > 2 => s[i - 2] = todo[i - 1]
  BY <1>1, HeadAndTail
<1> HIDE DEF s
<1>3. built \in {"no", "yes", "torn"}
  BY DEF FullInv
<1>4. (T = "chroot" => Installed') /\ (Installed => Installed')
  BY <1>1 DEF Installed
<1>5. StaysFull
  BY <1>1, <1>3 DEF StaysFull
<1>6. ASSUME NEW i \in DOMAIN s, s[i] = Declared
      PROVE  \/ i > 2 /\ s[i - 1].op = "leave" /\ s[i - 2] = Installs
             \/ i = 2 /\ s[1].op = "leave" /\ Installed'
  <2> DEFINE k == i + 1
  <2>1. k \in DOMAIN todo /\ todo[k] = Declared /\ k > 1 /\ k \in Nat /\ i \in Nat
    BY <1>2, <1>6
  <2>2. k > 2 /\ todo[i].op = "leave" /\ todo[i - 1] = Installs
    <3>1. todo[1].op # "leave"
      BY <1>1, <1>2
    <3>2. \/ k > 2 /\ todo[k - 1].op = "leave" /\ todo[k - 2] = Installs
          \/ k = 2 /\ todo[1].op = "leave"
      BY <2>1 DEF FullInv
    <3>3. k - 1 = i /\ k - 2 = i - 1
      BY <2>1
    <3> HIDE DEF k
    <3> QED BY <3>1, <3>2, <3>3
  <2>3. CASE i = 2
    <3>1. todo[1] = Installs /\ s[1] = todo[2]
      BY <1>2, <2>2, <2>3, SMTT(30)
    <3>2. T = "chroot"
      BY <1>2, <3>1 DEF T, Installs
    <3> QED BY <1>4, <2>2, <2>3, <3>1, <3>2
  <2>4. CASE i # 2
    BY <1>2, <1>6, <2>1, <2>2, <2>4
  <2> QED BY <2>3, <2>4
<1> QED BY <1>1, <1>2, <1>4, <1>5, <1>6, StaysFullKeeps DEF FullInv

\* A tree is left, at the end of the block or after an exception.
LEMMA LeaveKeeps ==
    ASSUME FullInv, Leave \/ LeaveFails
    PROVE  FullInv'
<1>1. version' = version /\ built' = built /\ StaysFull
  BY DEF Leave, LeaveFails, StaysFull, FullInv
<1>2. CASE todo' = <<>>
  BY <1>1, <1>2, NoneIsProgram, StaysFullKeeps, FromProgram
<1>3. CASE todo' # <<>>
  <2> DEFINE s == Tail(todo)
  <2>1. /\ todo # <<>> /\ Head(todo).op = "leave" /\ todo' = s
    BY <1>3 DEF Leave, LeaveFails, Leaves, Next1
  <2>2. /\ Head(todo) = todo[1] /\ s \in Seq(Ops)
        /\ \A i \in DOMAIN s : /\ i \in Nat /\ i > 0 /\ i + 1 \in DOMAIN todo /\ s[i] = todo[i + 1]
                               /\ i > 1 => s[i - 1] = todo[i]
                               /\ i > 2 => s[i - 2] = todo[i - 1]
    BY <2>1, HeadAndTail
  <2> HIDE DEF s
  <2>3. ASSUME NEW i \in DOMAIN s, s[i] = Declared
        PROVE  \/ i > 2 /\ s[i - 1].op = "leave" /\ s[i - 2] = Installs
               \/ i = 1 /\ Installed
    <3> DEFINE k == i + 1
    <3>1. k \in DOMAIN todo /\ todo[k] = Declared /\ k > 1 /\ k \in Nat /\ i \in Nat
      BY <2>2, <2>3
    <3>2. \/ k > 2 /\ todo[i].op = "leave" /\ todo[i - 1] = Installs
          \/ k = 2 /\ Installed
      BY <3>1 DEF FullInv
    <3>3. CASE i = 2
      <4>1. todo[1] = Installs
        BY <3>2, <3>3
      <4> QED BY <2>1, <2>2, <4>1 DEF Installs
    <3>4. CASE i # 2
      BY <2>2, <2>3, <3>1, <3>2, <3>4
    <3> QED BY <3>3, <3>4
  <2> QED BY <1>1, <2>1, <2>2, <2>3, StaysFullKeeps DEF FullInv, Installed
<1> QED BY <1>2, <1>3

\* The version is written after the tree has been left.
LEMMA VersionKeeps ==
    ASSUME FullInv, DumpVersion
    PROVE  FullInv'
<1> DEFINE s == Tail(todo)
<1>1. /\ todo # <<>> /\ Head(todo).op = "version" /\ todo' = s /\ built' = built
      /\ version' \in {version, version \union {T}}
  BY DEF DumpVersion, Done, Next1
<1>0. Head(todo) = todo[1] /\ 1 \in DOMAIN todo /\ T \in Trees
  BY <1>1, HeadAndTail
<1>2. /\ s \in Seq(Ops)
      /\ \A i \in DOMAIN s : /\ i \in Nat /\ i > 0 /\ i + 1 \in DOMAIN todo /\ s[i] = todo[i + 1]
                             /\ i > 1 => s[i - 1] = todo[i]
                             /\ i > 2 => s[i - 2] = todo[i - 1]
  <2>1. todo # <<>>
    BY <1>1
  <2> QED BY <2>1, HeadAndTail
<1>3. todo \in Seq(Ops)
  BY DEF FullInv
<1> HIDE DEF s
<1>4. T = "chroot" => Installed
  <2> SUFFICES ASSUME T = "chroot" PROVE Installed
    OBVIOUS
  <2>1. todo[1] \in Ops
    BY <1>0, <1>3
  <2>2. todo[1] = Declared
    BY <1>0, <1>1, <2>1 DEF T, Ops, Declared
  <2> QED BY <1>0, <2>2 DEF FullInv, Installed
<1>5. FullIsInstalled'
  BY <1>1, <1>4 DEF FullInv, FullIsInstalled, has_full_buildenv, Installed
<1>6. ASSUME NEW i \in DOMAIN s, s[i] = Declared
      PROVE  i > 2 /\ s[i - 1].op = "leave" /\ s[i - 2] = Installs
  <2> DEFINE k == i + 1
  <2>1. k \in DOMAIN todo /\ todo[k] = Declared /\ k > 1 /\ k \in Nat /\ i \in Nat
    BY <1>2, <1>6
  <2>2. todo[1].op = "version" /\ todo[1] # Installs
    BY <1>0, <1>1 DEF Installs
  <2>3. k > 2 /\ todo[i].op = "leave" /\ todo[i - 1] = Installs
    <3>1. todo[1].op # "leave"
      BY <2>2
    <3>2. \/ k > 2 /\ todo[k - 1].op = "leave" /\ todo[k - 2] = Installs
          \/ k = 2 /\ todo[1].op = "leave"
      BY <2>1 DEF FullInv
    <3>3. k - 1 = i /\ k - 2 = i - 1
      BY <2>1
    <3> HIDE DEF k
    <3> QED BY <3>1, <3>2, <3>3
  <2>4. i # 2
    BY <2>2, <2>3
  <2> QED BY <1>2, <1>6, <2>1, <2>3, <2>4
<1> QED BY <1>1, <1>2, <1>5, <1>6 DEF FullInv

\* Every step keeps the chroot as complete as it is said to be.
LEMMA FullNext ==
    ASSUME FullInv, [Next]_vars
    PROVE  FullInv'
<1>1. CASE UNCHANGED vars
  BY <1>1 DEF vars, treevars, FullInv, FullIsInstalled, has_full_buildenv, Installed
<1>2. CASE End \/ Kill
  <2>1. /\ StaysFull /\ todo' \in Programs
    BY <1>2, NoneIsProgram DEF End, Kill, Raise, treevars, StaysFull, FullInv
  <2> QED BY <2>1, StaysFullKeeps, FromProgram
<1>3. CASE Terminating
  BY <1>1, <1>3 DEF Terminating
<1> QED BY <1>1, <1>2, <1>3, PlanKeeps, PlainKeeps, TreeKeeps, EnterKeeps, LeaveKeeps,
           CommitKeeps, VersionKeeps DEF Next

\* A chroot that counts as a full build environment got all its packages once,
\* whatever jobs there were and whatever failed or was killed before.
THEOREM FullIsInstalledHolds == Spec => []FullIsInstalled
<1>1. FullInv => FullIsInstalled
  BY DEF FullInv
<1> QED BY <1>1, FullInitKeeps, FullNext, PTL DEF Spec

-----------------------------------------------------------------------------
(* Jobs that enter a tree once at a time.                                  *)

\* The trees a job may be in.
Places == Seq(Trees)

\* The trees before each operation, from what they are before the first one.
AreContexts(c, a, s) ==
    /\ DOMAIN c = 0..Len(s) /\ c[0] = a
    /\ \A i \in DOMAIN s : c[i] = After(s[i], c[i - 1])

\* A list of operations that may be done in the trees a, and ends in the trees b.
Leads(a, s, b) ==
    /\ s \in Seq(Ops)
    /\ \E c : /\ AreContexts(c, a, s) /\ c[Len(s)] = b
              /\ \A i \in DOMAIN s : Placed(s, i, c[i - 1])

\* There are such trees for every list.
LEMMA ContextsExist ==
    ASSUME NEW s \in Seq(Ops), NEW frames
    PROVE  AreContexts(Contexts(frames, s), Within(frames), s)
<1> DEFINE a == Within(frames)
           n == Len(s)
           IsRec(c, m) == c = [i \in 0..m |-> IF i = 0 THEN a ELSE After(s[i], c[i - 1])]
           Bad == {m \in Nat : ~\E c : IsRec(c, m)}
<1>1. n \in Nat /\ DOMAIN s = 1..n
  BY LenProperties
<1>2. Bad = {}
  <2> SUFFICES ASSUME Bad # {} PROVE FALSE
    OBVIOUS
  <2>1. PICK m \in Bad : \A k \in Bad : m <= k
    <3>1. Bad \in SUBSET Nat
      OBVIOUS
    <3> QED BY <3>1, NatLeast
  <2>2. m \in Nat /\ ~\E c : IsRec(c, m)
    OBVIOUS
  <2>3. m # 0
    <3> SUFFICES ASSUME m = 0 PROVE FALSE
      OBVIOUS
    <3> DEFINE c == [i \in 0..0 |-> a]
    <3>1. IsRec(c, 0)
      OBVIOUS
    <3> QED BY <2>2, <3>1
  <2>4. m - 1 \in Nat /\ ~(m <= m - 1)
    BY <2>2, <2>3
  <2>5. PICK g : IsRec(g, m - 1)
    BY <2>1, <2>4
  <2> DEFINE c == [i \in 0..m |-> IF i = 0 THEN a ELSE After(s[i], g[i - 1])]
  <2>6. ASSUME NEW i \in 0..m, i # 0 PROVE c[i - 1] = g[i - 1]
    <3>1. i - 1 \in 0..m /\ i - 1 \in 0..(m - 1)
      BY <2>2, <2>6
    <3>2. c[i - 1] = IF i - 1 = 0 THEN a ELSE After(s[i - 1], g[(i - 1) - 1])
      BY <3>1
    <3>3. g[i - 1] = IF i - 1 = 0 THEN a ELSE After(s[i - 1], g[(i - 1) - 1])
      BY <2>5, <3>1
    <3> QED BY <3>2, <3>3
  <2>7. IsRec(c, m)
    BY <2>6
  <2> QED BY <2>2, <2>7
<1>3. PICK c : IsRec(c, n)
  BY <1>1, <1>2
<1>4. IsRec(Contexts(frames, s), n)
  BY <1>3 DEF Contexts
<1> HIDE DEF a
<1>5. DOMAIN Contexts(frames, s) = 0..n /\ Contexts(frames, s)[0] = a
  BY <1>1, <1>4
<1>6. ASSUME NEW i \in DOMAIN s
      PROVE  Contexts(frames, s)[i] = After(s[i], Contexts(frames, s)[i - 1])
  BY <1>1, <1>4
<1> QED BY <1>5, <1>6 DEF AreContexts, a

\* And only these.
LEMMA ContextsAgree ==
    ASSUME NEW s \in Seq(Ops), NEW a, NEW c, NEW d, AreContexts(c, a, s), AreContexts(d, a, s)
    PROVE  \A i \in 0..Len(s) : c[i] = d[i]
<1> DEFINE Bad == {i \in 0..Len(s) : c[i] # d[i]}
<1> SUFFICES ASSUME Bad # {} PROVE FALSE
  OBVIOUS
<1>1. Len(s) \in Nat /\ DOMAIN s = 1..Len(s)
  BY LenProperties
<1>2. PICK m \in Bad : \A k \in Bad : m <= k
  <2>1. Bad \in SUBSET Nat
    BY <1>1
  <2> QED BY <2>1, NatLeast
<1>3. m \in 0..Len(s) /\ c[m] # d[m]
  OBVIOUS
<1>4. m # 0
  BY <1>3 DEF AreContexts
<1>5. m \in DOMAIN s /\ m - 1 \in 0..Len(s) /\ ~(m <= m - 1)
  BY <1>1, <1>3, <1>4
<1>6. c[m - 1] = d[m - 1]
  BY <1>2, <1>5
<1>7. c[m] = After(s[m], c[m - 1]) /\ d[m] = After(s[m], d[m - 1])
  BY <1>5 DEF AreContexts
<1> QED BY <1>3, <1>6, <1>7

\* To be nested is to lead somewhere.
LEMMA NestedLeads ==
    ASSUME NEW s \in Seq(Ops), NEW frames
    PROVE  Nested(frames, s) <=> \E b : Leads(Within(frames), s, b)
<1> DEFINE d == Contexts(frames, s)
           a == Within(frames)
<1>1. AreContexts(d, a, s)
  BY ContextsExist
<1>2. ASSUME Nested(frames, s) PROVE Leads(a, s, d[Len(s)])
  BY <1>1, <1>2 DEF Nested, Leads
<1>3. ASSUME NEW b, Leads(a, s, b) PROVE Nested(frames, s)
  <2>1. PICK c : AreContexts(c, a, s) /\ \A i \in DOMAIN s : Placed(s, i, c[i - 1])
    BY <1>3 DEF Leads
  <2> HIDE DEF d, a
  <2>2. \A i \in 0..Len(s) : c[i] = d[i]
    BY <1>1, <2>1, ContextsAgree
  <2>3. \A i \in DOMAIN s : i - 1 \in 0..Len(s)
    BY LenProperties
  <2>4. \A i \in DOMAIN s : Placed(s, i, d[i - 1])
    BY <2>1, <2>2, <2>3
  <2> QED BY <2>4 DEF Nested, d
<1> QED BY <1>2, <1>3

\* Nothing to do.
LEMMA LeadsNone == \A a : Leads(a, <<>>, a)
<1> SUFFICES ASSUME NEW a PROVE Leads(a, <<>>, a)
  OBVIOUS
<1> DEFINE c == [i \in 0..0 |-> a]
<1>1. AreContexts(c, a, <<>>) /\ c[0] = a
  BY DEF AreContexts
<1> QED BY <1>1 DEF Leads

\* The first operation, and the rest.
LEMMA LeadsOn ==
    ASSUME NEW s, NEW a, NEW b, Leads(a, s, b), s # <<>>
    PROVE  Placed(s, 1, a) /\ Leads(After(s[1], a), Tail(s), b)
<1> DEFINE t == Tail(s)
           n == Len(s)
<1>1. s \in Seq(Ops)
  BY DEF Leads
<1>2. /\ n \in Nat /\ n > 0 /\ DOMAIN s = 1..n
      /\ t \in Seq(Ops) /\ Len(t) = n - 1 /\ DOMAIN t = 1..(n - 1)
      /\ \A i \in 1..(n - 1) : t[i] = s[i + 1]
  BY <1>1, HeadTailProperties, EmptySeq, LenProperties
<1>3. PICK c : /\ AreContexts(c, a, s) /\ c[n] = b
               /\ \A i \in DOMAIN s : Placed(s, i, c[i - 1])
  BY DEF Leads
<1> HIDE DEF t, n
<1> DEFINE d == [i \in 0..(n - 1) |-> c[i + 1]]
<1>4. 1 \in DOMAIN s /\ c[0] = a /\ c[1] = After(s[1], a)
  BY <1>2, <1>3 DEF AreContexts
<1>5. Placed(s, 1, a)
  BY <1>3, <1>4
<1>6. AreContexts(d, After(s[1], a), t)
  <2>1. DOMAIN d = 0..Len(t) /\ d[0] = After(s[1], a)
    BY <1>2, <1>4
  <2>2. ASSUME NEW i \in DOMAIN t PROVE d[i] = After(t[i], d[i - 1])
    <3>1. /\ i \in 0..(n - 1) /\ i - 1 \in 0..(n - 1) /\ i + 1 \in DOMAIN s
          /\ (i + 1) - 1 = i /\ (i - 1) + 1 = i /\ t[i] = s[i + 1]
      BY <1>2
    <3>2. c[i + 1] = After(s[i + 1], c[i])
      BY <1>3, <3>1 DEF AreContexts
    <3> QED BY <3>1, <3>2
  <2> QED BY <2>1, <2>2 DEF AreContexts
<1>7. d[Len(t)] = b
  BY <1>2, <1>3
<1>8. ASSUME NEW i \in DOMAIN t PROVE Placed(t, i, d[i - 1])
  <2>1. /\ i - 1 \in 0..(n - 1) /\ i + 1 \in DOMAIN s /\ (i - 1) + 1 = i /\ (i + 1) - 1 = i
        /\ t[i] = s[i + 1] /\ i \in Nat
    BY <1>2, SMTT(30)
  <2>2. d[i - 1] = c[i] /\ Placed(s, i + 1, c[i])
    BY <1>3, <2>1
  <2>3. (i + 1) + 1 \in DOMAIN s => i + 1 \in DOMAIN t /\ t[i + 1] = s[(i + 1) + 1]
    BY <1>2, <2>1, SMTT(30)
  <2> HIDE DEF d
  <2> QED BY <2>1, <2>2, <2>3 DEF Placed
<1> HIDE DEF d
<1>9. Leads(After(s[1], a), t, b)
  BY <1>2, <1>6, <1>7, <1>8 DEF Leads
<1> QED BY <1>5, <1>9 DEF t

\* One list after another.
LEMMA LeadsConcat ==
    ASSUME NEW p, NEW q, NEW a, NEW b, NEW d, Leads(a, p, b), Leads(b, q, d)
    PROVE  Leads(a, p \o q, d)
<1> DEFINE r == p \o q
           n == Len(p)
           m == Len(q)
<1>1. p \in Seq(Ops) /\ q \in Seq(Ops)
  BY DEF Leads
<1>2. /\ r \in Seq(Ops) /\ n \in Nat /\ m \in Nat /\ Len(r) = n + m
      /\ DOMAIN p = 1..n /\ DOMAIN q = 1..m /\ DOMAIN r = 1..(n + m)
      /\ \A i \in 1..(n + m) : r[i] = IF i <= n THEN p[i] ELSE q[i - n]
  BY <1>1, ConcatProperties, LenProperties
<1>3. PICK c : /\ AreContexts(c, a, p) /\ c[n] = b
               /\ \A i \in DOMAIN p : Placed(p, i, c[i - 1])
  BY DEF Leads
<1>4. PICK e : /\ AreContexts(e, b, q) /\ e[m] = d
               /\ \A i \in DOMAIN q : Placed(q, i, e[i - 1])
  BY DEF Leads
<1> HIDE DEF r, n, m
<1> DEFINE f == [i \in 0..(n + m) |-> IF i <= n THEN c[i] ELSE e[i - n]]
<1>5. /\ f[0] = a /\ f[n + m] = d
  <2>1. c[0] = a /\ e[0] = b
    BY <1>3, <1>4 DEF AreContexts
  <2>2. f[0] = a
    BY <1>2, <2>1
  <2>3. f[n + m] = d
    BY <1>2, <1>3, <1>4, <2>1
  <2> QED BY <2>2, <2>3
<1>6. ASSUME NEW i \in DOMAIN r, i <= n
      PROVE  i \in DOMAIN p /\ r[i] = p[i] /\ f[i] = c[i] /\ f[i - 1] = c[i - 1]
  BY <1>2, <1>6
<1>7. ASSUME NEW i \in DOMAIN r, ~(i <= n)
      PROVE  i - n \in DOMAIN q /\ r[i] = q[i - n] /\ f[i] = e[i - n] /\ f[i - 1] = e[(i - n) - 1]
  <2>1. i - n \in DOMAIN q /\ r[i] = q[i - n] /\ f[i] = e[i - n]
    BY <1>2, <1>7
  <2>2. CASE i - 1 <= n
    <3>1. i - 1 = n /\ (i - n) - 1 = 0 /\ i - 1 \in 0..(n + m)
      BY <1>2, <1>7, <2>2
    <3>2. e[0] = b
      BY <1>4 DEF AreContexts
    <3> QED BY <1>3, <2>1, <3>1, <3>2
  <2>3. CASE ~(i - 1 <= n)
    BY <1>2, <1>7, <2>1, <2>3
  <2> QED BY <2>1, <2>2, <2>3
<1>8. DOMAIN f = 0..Len(r)
  BY <1>2
<1> HIDE DEF f
<1>9. \A i \in DOMAIN r : f[i] = After(r[i], f[i - 1])
  BY <1>3, <1>4, <1>6, <1>7 DEF AreContexts
<1>10. ASSUME NEW i \in DOMAIN r PROVE Placed(r, i, f[i - 1])
  <2>1. CASE i <= n
    <3>1. i + 1 \in DOMAIN p => i + 1 \in DOMAIN r /\ r[i + 1] = p[i + 1]
      BY <1>2, <1>10
    <3>2. Placed(p, i, c[i - 1]) /\ r[i] = p[i] /\ f[i - 1] = c[i - 1]
      BY <1>3, <1>6, <2>1
    <3> QED BY <3>1, <3>2 DEF Placed
  <2>2. CASE ~(i <= n)
    <3> DEFINE k == i - n
    <3>1. k + 1 \in DOMAIN q => i + 1 \in DOMAIN r /\ r[i + 1] = q[k + 1]
      <4> SUFFICES ASSUME k + 1 \in DOMAIN q PROVE i + 1 \in DOMAIN r /\ r[i + 1] = q[k + 1]
        OBVIOUS
      <4>1. i \in Nat /\ i + 1 \in 1..(n + m) /\ ~(i + 1 <= n) /\ (i + 1) - n = k + 1
        BY <1>2, <1>10, <2>2
      <4> QED BY <1>2, <4>1
    <3>2. Placed(q, k, e[k - 1]) /\ r[i] = q[k] /\ f[i - 1] = e[k - 1]
      BY <1>4, <1>7, <2>2
    <3> HIDE DEF k, f
    <3> QED BY <3>1, <3>2 DEF Placed
  <2> QED BY <2>1, <2>2
<1>11. AreContexts(f, a, r)
  BY <1>5, <1>8, <1>9 DEF AreContexts
<1>12. f[Len(r)] = d
  BY <1>2, <1>5
<1>13. Leads(a, r, d)
  BY <1>2, <1>10, <1>11, <1>12 DEF Leads
<1> QED BY <1>13 DEF r
-----------------------------------------------------------------------------
(* What jobs are put together from.                                        *)

\* The trees of a job that enters one more.
LEMMA PlacesFacts ==
    ASSUME NEW t \in Trees, NEW c \in Places
    PROVE  /\ <<t>> \o c \in Places /\ <<t>> \o c # <<>>
           /\ Head(<<t>> \o c) = t /\ Tail(<<t>> \o c) = c
           /\ \A u : IsIn(u, <<t>> \o c) <=> u = t \/ IsIn(u, c)
<1> DEFINE d == <<t>> \o c
<1>1. c \in Seq(Trees) /\ <<t>> \in Seq(Trees) /\ Len(<<t>>) = 1 /\ <<t>>[1] = t
  BY DEF Places
<1>2. /\ d \in Seq(Trees) /\ Len(c) \in Nat /\ Len(d) = 1 + Len(c)
      /\ DOMAIN d = 1..(1 + Len(c)) /\ DOMAIN c = 1..Len(c)
      /\ \A i \in 1..(1 + Len(c)) : d[i] = IF i <= 1 THEN <<t>>[i] ELSE c[i - 1]
  BY <1>1, ConcatProperties, LenProperties
<1>3. d # <<>> /\ Head(d) = t /\ Tail(d) = c
  BY <1>1
<1> HIDE DEF d
<1>4. ASSUME NEW u, IsIn(u, d) PROVE u = t \/ IsIn(u, c)
  <2>1. PICK k \in DOMAIN d : d[k] = u
    BY <1>4 DEF IsIn
  <2>2. CASE k = 1
    BY <1>1, <1>2, <2>1, <2>2
  <2>3. CASE k # 1
    <3>1. k - 1 \in DOMAIN c /\ c[k - 1] = u
      BY <1>2, <2>1, <2>3
    <3> QED BY <3>1 DEF IsIn
  <2> QED BY <2>2, <2>3
<1>5. ASSUME NEW u, u = t \/ IsIn(u, c) PROVE IsIn(u, d)
  <2>1. CASE u = t
    <3>1. 1 \in DOMAIN d /\ d[1] = t
      BY <1>1, <1>2
    <3> QED BY <2>1, <3>1 DEF IsIn
  <2>2. CASE IsIn(u, c)
    <3>1. PICK k \in DOMAIN c : c[k] = u
      BY <2>2 DEF IsIn
    <3>2. k + 1 \in DOMAIN d /\ d[k + 1] = u
      BY <1>2, <3>1
    <3> QED BY <3>2 DEF IsIn
  <2> QED BY <1>5, <2>1, <2>2
<1>6. d \in Places
  BY <1>2 DEF Places
<1> QED BY <1>3, <1>4, <1>5, <1>6 DEF d

\* The lists that begin and end in the trees c.
Keepers(c) == {s \in Seq(Ops) : Leads(c, s, c)}

\* Blocks that keep the contexts, one after the other.
LEMMA KeepersJoin ==
    ASSUME NEW c
    PROVE  <<>> \in Keepers(c) /\ \A p, q \in Keepers(c) : p \o q \in Keepers(c)
<1>1. <<>> \in Keepers(c)
  BY LeadsNone DEF Keepers, Leads
<1>2. ASSUME NEW p \in Keepers(c), NEW q \in Keepers(c) PROVE p \o q \in Keepers(c)
  <2>1. Leads(c, p \o q, c)
    BY LeadsConcat DEF Keepers
  <2> QED BY <2>1 DEF Keepers, Leads
<1> QED BY <1>1, <1>2

\* One operation.
LEMMA LeadsOp ==
    ASSUME NEW name \in OpNames, NEW t \in Trees, NEW c, name # "borrow",
           Fits([op |-> name, t |-> t], c)
    PROVE  Leads(c, Op(name, t), After([op |-> name, t |-> t], c))
<1> DEFINE o == [op |-> name, t |-> t]
           s == <<o>>
           d == [i \in 0..1 |-> IF i = 0 THEN c ELSE After(o, c)]
<1>1. o \in Ops /\ o.op = name
  BY DEF Ops
<1>2. s \in Seq(Ops) /\ DOMAIN s = {1} /\ Len(s) = 1 /\ s[1] = o
  BY <1>1
<1>3. DOMAIN d = 0..1 /\ d[0] = c /\ d[1] = After(o, c)
  OBVIOUS
<1>4. Fits(o, c) /\ o.op # "borrow"
  BY <1>1
<1>5. s = Op(name, t)
  BY DEF Op
<1> HIDE DEF o, s, d
<1>6. AreContexts(d, c, s) /\ \A i \in DOMAIN s : Placed(s, i, d[i - 1])
  <2>1. \A i \in DOMAIN s : i = 1 /\ i - 1 = 0
    BY <1>2
  <2> QED BY <1>2, <1>3, <1>4, <2>1 DEF AreContexts, Placed
<1>7. Leads(c, s, After(o, c))
  BY <1>2, <1>3, <1>6 DEF Leads
<1> QED BY <1>5, <1>7 DEF o

\* Operations that stand anywhere, those in a tree that nobody is in, and those
\* that stand outside of all trees.
Anywhere == {"work", "commit", "mkdir", "version", "open cd", "fill cd", "burn cd"}
\* Operations that keep the contexts, wherever they may stand.
LEMMA OpsKeep ==
    ASSUME NEW t \in Trees, NEW c
    PROVE  /\ \A name \in Anywhere : Op(name, t) \in Keepers(c)
           /\ \A name \in {"rmtree", "strip", "debootstrap"} :
                  ~IsIn(t, c) => Op(name, t) \in Keepers(c)
           /\ \A name \in {"repo", "run", "include"} \union (Composed \ {"mk cdrom"}) :
                  Op(name, t) \in Keepers(<<>>)
           /\ ~IsIn("chroot", c) /\ ~IsIn("target", c) => Op("extract", t) \in Keepers(c)
           /\ Op("mk cdrom", t) \in Keepers(<<t>>)
<1> DEFINE Outermost == {"repo", "run", "include"} \union (Composed \ {"mk cdrom"})
           Plain == Anywhere \union {"rmtree", "strip", "debootstrap", "extract", "mk cdrom"}
                       \union Outermost
<1>1. ASSUME NEW d, NEW name \in Plain, Fits([op |-> name, t |-> t], d)
      PROVE  Op(name, t) \in Keepers(d)
  <2>1. name \in OpNames /\ name \notin {"borrow", "enter", "enter rfs", "leave"}
    BY DEF OpNames, Anywhere, Composed
  <2>2. After([op |-> name, t |-> t], d) = d
    BY <2>1 DEF After
  <2>3. Leads(d, Op(name, t), d)
    BY <1>1, <2>1, <2>2, LeadsOp
  <2> QED BY <2>3 DEF Keepers, Leads
<1>2. ASSUME NEW name \in Anywhere PROVE Op(name, t) \in Keepers(c)
  <2>1. Fits([op |-> name, t |-> t], c)
    BY DEF Fits, Anywhere, Composed
  <2> QED BY <1>1, <2>1
<1>3. ASSUME NEW name \in {"rmtree", "strip", "debootstrap"}, ~IsIn(t, c)
      PROVE  Op(name, t) \in Keepers(c)
  <2>1. Fits([op |-> name, t |-> t], c)
    BY <1>3 DEF Fits, Composed
  <2> QED BY <1>1, <2>1
<1>4. ASSUME NEW name \in Outermost PROVE Op(name, t) \in Keepers(<<>>)
  <2>1. Fits([op |-> name, t |-> t], <<>>)
    BY DEF Fits, Composed
  <2> QED BY <1>1, <2>1
<1>5. ASSUME ~IsIn("chroot", c), ~IsIn("target", c) PROVE Op("extract", t) \in Keepers(c)
  <2>1. Fits([op |-> "extract", t |-> t], c)
    BY <1>5 DEF Fits, Composed
  <2> QED BY <1>1, <2>1
<1>6. Op("mk cdrom", t) \in Keepers(<<t>>)
  <2>1. Fits([op |-> "mk cdrom", t |-> t], <<t>>)
    BY DEF Fits, Composed
  <2> QED BY <1>1, <2>1
<1> HIDE DEF Outermost, Plain
<1> QED BY <1>2, <1>3, <1>4, <1>5, <1>6 DEF Outermost

\* A block of `with', in a tree that nobody is in.
LEMMA BlocksKeep ==
    ASSUME NEW t \in Trees, NEW c \in Places, ~IsIn(t, c),
           NEW body \in Keepers(<<t>> \o c)
    PROVE  InEnv(t, body) \in Keepers(c) /\ InRfs(t, body) \in Keepers(c)
<1> DEFINE d == <<t>> \o c
           enter == Op("borrow", t) \o Op("enter", t)
<1>1. d # <<>> /\ Head(d) = t /\ Tail(d) = c
  BY PlacesFacts
<1> HIDE DEF d
<1>2. Leads(c, Op("enter rfs", t), d)
  <2>1. Fits([op |-> "enter rfs", t |-> t], c) /\ After([op |-> "enter rfs", t |-> t], c) = d
    BY DEF Fits, After, Composed, d
  <2>2. "enter rfs" \in OpNames
    BY DEF OpNames
  <2> QED BY <2>1, <2>2, LeadsOp
<1>3. Leads(d, Op("leave", t), c)
  <2>1. Fits([op |-> "leave", t |-> t], d)
    BY <1>1 DEF Fits, Composed
  <2>2. After([op |-> "leave", t |-> t], d) = c
    BY <1>1 DEF After
  <2>3. "leave" \in OpNames
    BY DEF OpNames
  <2> QED BY <2>1, <2>2, <2>3, LeadsOp
<1>4. Leads(c, enter, d)
  <2> DEFINE o1 == [op |-> "borrow", t |-> t]
             o2 == [op |-> "enter", t |-> t]
             s == <<o1, o2>>
             e == [i \in 0..2 |-> IF i = 2 THEN d ELSE c]
  <2>1. s = enter
    BY DEF Op
  <2>2. s \in Seq(Ops) /\ DOMAIN s = {1, 2} /\ Len(s) = 2 /\ s[1] = o1 /\ s[2] = o2
    <3>1. o1 \in Ops /\ o2 \in Ops
      BY DEF Ops, OpNames
    <3> QED BY <3>1
  <2>3. Fits(o1, c) /\ Fits(o2, c) /\ o2.op # "borrow" /\ o1.t = t
    BY DEF Fits, Composed
  <2>4. After(o1, c) = c /\ After(o2, c) = d
    BY DEF After, d
  <2>5. DOMAIN e = 0..2 /\ e[0] = c /\ e[1] = c /\ e[2] = d
    OBVIOUS
  <2>0. o2 = [op |-> "enter", t |-> o1.t]
    OBVIOUS
  <2> HIDE DEF o1, o2, s, e, enter
  <2>6. /\ AreContexts(e, c, s)
        /\ \A i \in DOMAIN s : Placed(s, i, e[i - 1])
    <3>1. AreContexts(e, c, s)
      BY <2>2, <2>4, <2>5 DEF AreContexts
    <3>2. Placed(s, 1, c)
      BY <2>0, <2>2, <2>3 DEF Placed
    <3>3. Placed(s, 2, c)
      BY <2>2, <2>3 DEF Placed
    <3> QED BY <2>2, <2>5, <3>1, <3>2, <3>3
  <2>7. Leads(c, s, d)
    BY <2>2, <2>5, <2>6 DEF Leads
  <2> QED BY <2>1, <2>7
<1> HIDE DEF enter
<1>5. Leads(d, body, d)
  BY DEF Keepers, d
<1>6. Leads(c, (enter \o body) \o Op("leave", t), c)
  BY <1>3, <1>4, <1>5, LeadsConcat
<1>7. Leads(c, (Op("enter rfs", t) \o body) \o Op("leave", t), c)
  BY <1>2, <1>3, <1>5, LeadsConcat
<1> QED BY <1>6, <1>7 DEF InEnv, InRfs, Keepers, Leads, enter

\* The parts of jobs that are about one tree.
LEMMA PartsKeep ==
    ASSUME NEW t \in Trees, NEW c \in Places, ~IsIn(t, c)
    PROVE  /\ Work(t) \in Keepers(c) /\ SeedEtc(t) \in Keepers(c) /\ Rmtree(t) \in Keepers(c)
           /\ InEnv(t, Work(t)) \in Keepers(c) /\ InRfs(t, Work(t)) \in Keepers(c)
           /\ InEnv(t, SeedEtc(t)) \in Keepers(c)
           /\ InEnv(t, Op("commit", t)) \in Keepers(c)
           /\ InRfs(t, Op("commit", t)) \in Keepers(c)
           /\ BuildEnv(t, TRUE) \in Keepers(c) /\ BuildEnv(t, FALSE) \in Keepers(c)
           /\ InstallPackages(t) \in Keepers(c)
<1> DEFINE d == <<t>> \o c
<1>1. \A e : Work(t) \in Keepers(e) /\ SeedEtc(t) \in Keepers(e) /\ Op("commit", t) \in Keepers(e)
  BY OpsKeep DEF Work, SeedEtc, Anywhere
<1>2. Rmtree(t) \in Keepers(c) /\ Op("debootstrap", t) \in Keepers(c)
  BY OpsKeep DEF Rmtree
<1>3. /\ InEnv(t, Work(t)) \in Keepers(c) /\ InRfs(t, Work(t)) \in Keepers(c)
      /\ InEnv(t, SeedEtc(t)) \in Keepers(c)
      /\ InEnv(t, Op("commit", t)) \in Keepers(c)
      /\ InRfs(t, Op("commit", t)) \in Keepers(c)
  BY <1>1, BlocksKeep
<1>4. BuildEnv(t, TRUE) \in Keepers(c) /\ BuildEnv(t, FALSE) \in Keepers(c)
  <2>1. InitializeDirs(t) \in Keepers(c) /\ CreateAptPrefs(t) \in Keepers(c)
    BY <1>1, <1>3 DEF InitializeDirs, CreateAptPrefs
  <2> QED BY <1>2, <2>1, KeepersJoin DEF BuildEnv
<1>5. InstallPackages(t) \in Keepers(c)
  <2>1. Op("end_excursion", t) \in Keepers(d)
    <3>1. d # <<>> /\ Head(d) = t
      BY PlacesFacts
    <3> HIDE DEF d
    <3>2. Fits([op |-> "end_excursion", t |-> t], d)
      BY <3>1 DEF Fits, Composed
    <3>3. After([op |-> "end_excursion", t |-> t], d) = d
      BY DEF After
    <3>4. "end_excursion" \in OpNames
      BY DEF OpNames
    <3>5. Leads(d, Op("end_excursion", t), d)
      BY <3>2, <3>3, <3>4, LeadsOp
    <3> QED BY <3>5 DEF Keepers, Leads
  <2> HIDE DEF d
  <2>2. Work(t) \o Op("end_excursion", t) \o Op("commit", t) \in Keepers(d)
    BY <1>1, <2>1, KeepersJoin
  <2> QED BY <2>2, BlocksKeep DEF InstallPackages, d
<1> QED BY <1>1, <1>2, <1>3, <1>4, <1>5

\* Outside of all trees.
LEMMA OutsideKeep ==
    /\ <<>> \in Places /\ \A t : ~IsIn(t, <<>>)
    /\ "chroot" \in Trees /\ "target" \in Trees /\ "sysroot" \in Trees /\ "host" \in Trees
    /\ \A t \in Trees : <<t>> \o <<>> = <<t>>
<1>1. ASSUME NEW t \in Trees PROVE <<t>> \o <<>> = <<t>>
  <2>1. <<t>> \in Seq(Trees)
    OBVIOUS
  <2> QED BY <2>1, ConcatEmptySeq
<1> QED BY <1>1 DEF Places, IsIn, Trees

\* The jobs of the daemon and of the local commands, and how they begin.
LEMMA JobsKeep ==
    /\ Jobs \subseteq Keepers(<<>>)
    /\ Load \o Op("run", "chroot") \in Keepers(<<>>)
    /\ Rmtree("target") \o Rmtree("chroot") \in Keepers(<<>>)
    /\ BuildHostSysroot \o Work("host") \o Rmtree("host") \in Keepers(<<>>)
<1>1. \A t \in Trees :
          /\ \A name \in Anywhere : Op(name, t) \in Keepers(<<>>)
          /\ \A name \in {"repo", "run", "include", "open", "ensure", "pbuild", "finetuning",
                          "cdroms", "sdk", "extract", "strip"} : Op(name, t) \in Keepers(<<>>)
  <2>1. \A name \in {"open", "ensure", "pbuild", "finetuning", "cdroms", "sdk"} :
            name \in Composed \ {"mk cdrom"}
    BY DEF Composed
  <2> QED BY <2>1, OpsKeep, OutsideKeep
<1>2. \A t \in Trees :
          /\ Work(t) \in Keepers(<<>>) /\ Rmtree(t) \in Keepers(<<>>)
          /\ InEnv(t, Op("commit", t)) \in Keepers(<<>>)
          /\ InRfs(t, Op("commit", t)) \in Keepers(<<>>)
          /\ InRfs(t, Work(t)) \in Keepers(<<>>)
          /\ BuildEnv(t, TRUE) \in Keepers(<<>>) /\ InstallPackages(t) \in Keepers(<<>>)
  BY PartsKeep, OutsideKeep
<1>3. \A p, q \in Keepers(<<>>) : p \o q \in Keepers(<<>>)
  BY KeepersJoin
<1>4. \A t \in Trees : Op("mkdir", t) \in Keepers(<<>>) /\ Op("version", t) \in Keepers(<<>>)
  BY <1>1 DEF Anywhere
<1>5. Build \in Keepers(<<>>)
  <2>1. CleanTarget \in Keepers(<<>>)
    BY <1>2, <1>3, <1>4, OutsideKeep DEF CleanTarget
  <2>2. /\ Op("ensure", "chroot") \in Keepers(<<>>) /\ Op("pbuild", "chroot") \in Keepers(<<>>)
        /\ Op("extract", "target") \in Keepers(<<>>) /\ Op("cdroms", "chroot") \in Keepers(<<>>)
        /\ Op("finetuning", "target") \in Keepers(<<>>)
    BY <1>1, OutsideKeep
  <2> QED BY <1>2, <1>3, <1>4, <2>1, <2>2, OutsideKeep DEF Build
<1>6. BuildSdk \in Keepers(<<>>)
  <2>1. Op("sdk", "host") \in Keepers(<<>>)
    BY <1>1, OutsideKeep
  <2> QED BY <1>2, <1>3, <1>4, <2>1, OutsideKeep DEF BuildSdk, BuildSysroot
<1>7. BuildHostSysroot \o Work("host") \o Rmtree("host") \in Keepers(<<>>)
  <2>1. Op("strip", "host") \in Keepers(<<>>)
    BY <1>1, OutsideKeep
  <2> QED BY <1>2, <1>3, <1>4, <2>1, OutsideKeep DEF BuildHostSysroot
<1>8. Shells \subseteq Keepers(<<>>)
  BY <1>2, OutsideKeep DEF Shells
<1>9. /\ Op("cdroms", "chroot") \in Keepers(<<>>) /\ Op("include", "chroot") \in Keepers(<<>>)
      /\ Op("repo", "chroot") \in Keepers(<<>>) /\ Op("open", "chroot") \in Keepers(<<>>)
      /\ Op("run", "chroot") \in Keepers(<<>>)
  BY <1>1, OutsideKeep
<1>10. Jobs \subseteq Keepers(<<>>)
  BY <1>5, <1>6, <1>8, <1>9 DEF Jobs
<1> QED BY <1>2, <1>3, <1>7, <1>9, <1>10, OutsideKeep DEF Load

\* What an operation stands for may stand where it does.
LEMMA MeaningsKeep ==
    ASSUME NEW name, name \in Composed \/ name = "run", T \in Trees, NEW c,
           name = "mk cdrom" => c = <<T>>, name # "mk cdrom" => c = <<>>
    PROVE  Meaning(name) \subseteq Keepers(c)
<1>1. \A p, q \in Keepers(c) : p \o q \in Keepers(c)
  BY KeepersJoin
<1>2. <<>> \in Keepers(c)
  BY KeepersJoin
<1>3. CASE name # "mk cdrom"
  <2>0. c = <<>>
    BY <1>3
  <2>1. \A t \in Trees :
          /\ Work(t) \in Keepers(c) /\ Op("commit", t) \in Keepers(c)
          /\ InEnv(t, Work(t)) \in Keepers(c) /\ InRfs(t, Work(t)) \in Keepers(c)
          /\ InEnv(t, Op("commit", t)) \in Keepers(c)
          /\ InRfs(t, Op("commit", t)) \in Keepers(c)
          /\ InEnv(t, SeedEtc(t)) \in Keepers(c)
          /\ BuildEnv(t, TRUE) \in Keepers(c) /\ BuildEnv(t, FALSE) \in Keepers(c)
          /\ Op("mkdir", t) \in Keepers(c) /\ Op("include", t) \in Keepers(c)
    BY <2>0, PartsKeep, OpsKeep, OutsideKeep DEF Anywhere
  <2>2. CASE name = "open"
    BY <1>2, <2>1, <2>2, OutsideKeep DEF Meaning
  <2>3. CASE name = "ensure"
    <3>1. Op("mkdir", "chroot") \o BuildEnv("chroot", TRUE) \in Keepers(c)
      BY <1>1, <2>1, OutsideKeep
    <3> QED BY <1>2, <2>3, <3>1 DEF Meaning
  <2>4. CASE name = "pbuild"
    <3>1. InEnv("chroot", Work("chroot")) \o Op("include", "chroot") \in Keepers(c)
      BY <1>1, <2>1, OutsideKeep
    <3> QED BY <1>2, <2>4, <3>1 DEF Meaning, Pbuild
  <2>5. CASE name = "finetuning"
    <3>0. /\ PlainAction \in Keepers(c) /\ UserAction \in Keepers(c)
          /\ FileAction \in Keepers(c) /\ CommandAction \in Keepers(c)
          /\ BuildenvCommand \in Keepers(c) /\ UpdatedAction \in Keepers(c)
      BY <1>1, <2>1, OutsideKeep
         DEF PlainAction, UserAction, FileAction, CommandAction, BuildenvCommand, UpdatedAction
    <3>1. Finetuning \subseteq Keepers(c)
      BY <1>2, <3>0 DEF Finetuning
    <3> QED BY <2>5, <3>1 DEF Meaning
  <2>6. CASE name = "cdroms"
    <3>1. ASSUME NEW t \in Trees PROVE InEnv(t, Op("mk cdrom", t)) \in Keepers(c)
      <4>1. Op("mk cdrom", t) \in Keepers(<<t>>) /\ <<t>> \o <<>> = <<t>>
        BY OpsKeep, OutsideKeep
      <4> QED BY <2>0, <4>1, BlocksKeep, OutsideKeep
    <3>2. ASSUME NEW t \in Trees
          PROVE  BuildEnv(t, FALSE) \o InEnv(t, SeedEtc(t)) \o InEnv(t, Op("mk cdrom", t)) \in Keepers(c)
      BY <1>1, <2>1, <3>1
    <3>3. BuildCdroms \subseteq Keepers(c)
      BY <3>2, OutsideKeep DEF BuildCdroms
    <3> QED BY <2>6, <3>3 DEF Meaning
  <2>7. CASE name = "sdk"
    BY <1>2, <2>0, <2>7, JobsKeep DEF Meaning
  <2>8. CASE name = "run"
    BY <2>0, <2>8, JobsKeep DEF Meaning
  <2> QED BY <1>3, <2>2, <2>3, <2>4, <2>5, <2>6, <2>7, <2>8 DEF Composed
<1>4. CASE name = "mk cdrom"
  <2> DEFINE t == T
             other(o) == IF o # t /\ o \in there
                         THEN BuildEnv(o, FALSE) \o InEnv(o, SeedEtc(o)) ELSE <<>>
             binary == Work(t)
             source == other("chroot") \o other("host")
                         \o Op("open cd", t) \o Op("fill cd", t) \o Op("burn cd", t)
  <2>0. c = <<t>> /\ c \in Places /\ \A o : o # t => ~IsIn(o, c)
    <3>1. <<t>> \o <<>> = <<t>>
      BY OutsideKeep
    <3>2. <<t>> \in Places /\ \A o : IsIn(o, <<t>>) <=> o = t \/ IsIn(o, <<>>)
      <4>1. T \in Trees /\ <<>> \in Places
        BY OutsideKeep
      <4>2. <<t>> \o <<>> \in Places /\ \A o : IsIn(o, <<t>> \o <<>>) <=> o = t \/ IsIn(o, <<>>)
        BY <4>1, PlacesFacts
      <4> QED BY <3>1, <4>2
    <3> QED BY <1>4, <3>2, OutsideKeep
  <2> HIDE DEF t
  <2>1. ASSUME NEW o \in Trees PROVE other(o) \in Keepers(c)
    <3>1. CASE o # t /\ o \in there
      <4>1. BuildEnv(o, FALSE) \in Keepers(c) /\ InEnv(o, SeedEtc(o)) \in Keepers(c)
        BY <2>0, <3>1, PartsKeep
      <4> QED BY <1>1, <3>1, <4>1
    <3> QED BY <1>2, <3>1
  <2>2. /\ binary \in Keepers(c) /\ Op("open cd", t) \in Keepers(c)
        /\ Op("fill cd", t) \in Keepers(c) /\ Op("burn cd", t) \in Keepers(c)
    BY OpsKeep DEF Work, Anywhere, t
  <2>3. source \in Keepers(c)
    <3> HIDE DEF other
    <3> QED BY <1>1, <2>1, <2>2, OutsideKeep
  <2>4. MkCdrom(t) = {<<>>, binary, source, binary \o source}
    BY DEF MkCdrom
  <2> HIDE DEF binary, source
  <2>5. MkCdrom(t) \subseteq Keepers(c)
    BY <1>1, <1>2, <2>2, <2>3, <2>4
  <2> QED BY <1>4, <2>5 DEF Meaning, t
<1> QED BY <1>3, <1>4

-----------------------------------------------------------------------------
(* The contexts of a job.                                                  *)

Frames == [t : Trees, env : BOOLEAN, ended : SUBSET Excursed]
Once(s) == \A j, k \in DOMAIN s : s[j].t = s[k].t => j = k

\* The trees of the contexts.
LEMMA WithinFacts ==
    ASSUME NEW s \in Seq(Frames)
    PROVE  /\ Within(s) \in Places /\ Len(Within(s)) = Len(s)
           /\ Within(s) = <<>> <=> s = <<>>
           /\ \A t : IsIn(t, Within(s)) <=> \E k \in DOMAIN s : s[k].t = t
<1>1. DOMAIN s = 1..Len(s) /\ Len(s) \in Nat /\ \A k \in DOMAIN s : s[k] \in Frames
  BY LenProperties, ElementOfSeq
<1>2. Within(s) = [k \in 1..Len(s) |-> s[k].t]
  BY <1>1 DEF Within
<1>3. \A k \in 1..Len(s) : s[k].t \in Trees
  BY <1>1 DEF Frames
<1>4. Within(s) \in Seq(Trees) /\ Len(Within(s)) = Len(s)
  BY <1>1, <1>2, <1>3
<1>5. Within(s) = <<>> <=> s = <<>>
  BY <1>4, EmptySeq
<1>6. \A t : IsIn(t, Within(s)) <=> \E k \in DOMAIN s : s[k].t = t
  BY <1>1, <1>2 DEF IsIn
<1> QED BY <1>4, <1>5, <1>6 DEF Places

\* One context more.
LEMMA PushFacts ==
    ASSUME NEW fr \in Frames, NEW s \in Seq(Frames)
    PROVE  /\ <<fr>> \o s \in Seq(Frames)
           /\ Within(<<fr>> \o s) = <<fr.t>> \o Within(s)
           /\ \A k \in DOMAIN (<<fr>> \o s) :
                  \/ k = 1 /\ (<<fr>> \o s)[k] = fr
                  \/ k - 1 \in DOMAIN s /\ k \in Nat /\ (<<fr>> \o s)[k] = s[k - 1]
           /\ Once(s) /\ ~IsIn(fr.t, Within(s)) => Once(<<fr>> \o s)
<1> DEFINE d == <<fr>> \o s
           w == Within(s)
           e == <<fr.t>> \o w
<1>1. <<fr>> \in Seq(Frames) /\ Len(<<fr>>) = 1 /\ <<fr>>[1] = fr
  OBVIOUS
<1>2. /\ d \in Seq(Frames) /\ Len(s) \in Nat /\ Len(d) = 1 + Len(s)
      /\ DOMAIN d = 1..(1 + Len(s)) /\ DOMAIN s = 1..Len(s)
      /\ \A i \in 1..(1 + Len(s)) : d[i] = IF i <= 1 THEN <<fr>>[i] ELSE s[i - 1]
  BY <1>1, ConcatProperties, LenProperties
<1>3. fr.t \in Trees /\ <<fr.t>> \in Seq(Trees) /\ Len(<<fr.t>>) = 1 /\ <<fr.t>>[1] = fr.t
  BY DEF Frames
<1>4. w \in Seq(Trees) /\ Len(w) = Len(s)
  BY WithinFacts DEF Places
<1>5. /\ e \in Seq(Trees) /\ Len(e) = 1 + Len(s) /\ DOMAIN e = 1..(1 + Len(s))
      /\ \A i \in 1..(1 + Len(s)) : e[i] = IF i <= 1 THEN <<fr.t>>[i] ELSE w[i - 1]
  <2> HIDE DEF w
  <2> QED BY <1>2, <1>3, <1>4, ConcatProperties, LenProperties
<1> HIDE DEF d, e
<1>6. \A k \in DOMAIN d : \/ k = 1 /\ d[k] = fr
                          \/ k - 1 \in DOMAIN s /\ k \in Nat /\ d[k] = s[k - 1]
  BY <1>1, <1>2
<1>7. \A i \in 1..(1 + Len(s)) : Within(d)[i] = e[i]
  <2> SUFFICES ASSUME NEW i \in 1..(1 + Len(s)) PROVE Within(d)[i] = e[i]
    OBVIOUS
  <2>1. Within(d)[i] = d[i].t
    BY <1>2 DEF Within
  <2>2. CASE i = 1
    BY <1>1, <1>2, <1>3, <1>5, <2>1, <2>2
  <2>3. CASE i # 1
    <3>1. i - 1 \in DOMAIN s /\ ~(i <= 1)
      BY <1>2, <2>3
    <3>2. w[i - 1] = s[i - 1].t
      BY <3>1 DEF Within
    <3> QED BY <1>2, <1>5, <2>1, <3>1, <3>2
  <2> QED BY <2>2, <2>3
<1>8. Within(d) = e
  <2>1. Within(d) \in Seq(Trees) /\ Len(Within(d)) = 1 + Len(s)
    BY <1>2, WithinFacts DEF Places
  <2> QED BY <1>5, <1>7, <2>1, SeqEqual
<1>9. ASSUME Once(s), ~IsIn(fr.t, Within(s)) PROVE Once(d)
  <2>1. \A k \in DOMAIN s : s[k].t # fr.t
    BY <1>9, WithinFacts
  <2> SUFFICES ASSUME NEW j \in DOMAIN d, NEW k \in DOMAIN d, d[j].t = d[k].t PROVE j = k
    BY DEF Once
  <2>2. CASE j = 1 \/ k = 1
    BY <1>2, <1>6, <2>1, <2>2
  <2>3. CASE j # 1 /\ k # 1
    <3>1. j - 1 \in DOMAIN s /\ k - 1 \in DOMAIN s /\ s[j - 1].t = s[k - 1].t
      BY <1>6, <2>3
    <3>2. j - 1 = k - 1
      BY <1>9, <3>1 DEF Once
    <3> QED BY <1>2, <3>2
  <2> QED BY <2>2, <2>3
<1> QED BY <1>2, <1>6, <1>8, <1>9 DEF d, e

\* One context less.
LEMMA PopFacts ==
    ASSUME NEW s \in Seq(Frames), s # <<>>
    PROVE  /\ Head(s) \in Frames /\ Tail(s) \in Seq(Frames) /\ 1 \in DOMAIN s /\ Head(s) = s[1]
           /\ Within(Tail(s)) = Tail(Within(s)) /\ Head(Within(s)) = Head(s).t
           /\ Within(s) = <<Head(s).t>> \o Within(Tail(s))
           /\ \A k \in DOMAIN Tail(s) : k + 1 \in DOMAIN s /\ k \in Nat /\ Tail(s)[k] = s[k + 1]
           /\ Once(s) => Once(Tail(s)) /\ ~IsIn(Head(s).t, Within(Tail(s)))
           /\ \A t : IsIn(t, Within(s)) <=> t = Head(s).t \/ IsIn(t, Within(Tail(s)))
<1> DEFINE h == Head(s)
           d == Tail(s)
<1>1. /\ h = s[1] /\ h \in Frames /\ d \in Seq(Frames)
      /\ Len(s) \in Nat /\ Len(s) > 0 /\ Len(d) = Len(s) - 1
      /\ DOMAIN s = 1..Len(s) /\ DOMAIN d = 1..(Len(s) - 1)
      /\ \A i \in 1..(Len(s) - 1) : d[i] = s[i + 1]
  BY HeadTailProperties, EmptySeq, LenProperties
<1>2. s = <<h>> \o d
  <2>1. <<h>> \in Seq(Frames) /\ Len(<<h>>) = 1 /\ <<h>>[1] = h
    BY <1>1
  <2> DEFINE e == <<h>> \o d
  <2> HIDE DEF h, d
  <2>2. /\ e \in Seq(Frames) /\ Len(e) = Len(s)
        /\ \A i \in 1..Len(s) : e[i] = IF i <= 1 THEN <<h>>[i] ELSE d[i - 1]
    BY <1>1, <2>1, ConcatProperties, LenProperties
  <2> HIDE DEF e
  <2>3. \A i \in 1..Len(s) : e[i] = s[i]
    <3> SUFFICES ASSUME NEW i \in 1..Len(s) PROVE e[i] = s[i]
      OBVIOUS
    <3>1. CASE i = 1
      BY <1>1, <2>1, <2>2, <3>1
    <3>2. CASE i # 1
      <4>1. i - 1 \in 1..(Len(s) - 1) /\ ~(i <= 1) /\ (i - 1) + 1 = i
        BY <1>1, <3>2
      <4> QED BY <1>1, <2>2, <4>1
    <3> QED BY <3>1, <3>2
  <2>4. e = s
    BY <2>2, <2>3, SeqEqual
  <2> QED BY <2>4 DEF e
<1>3. \A k \in DOMAIN d : k + 1 \in DOMAIN s /\ k \in Nat /\ d[k] = s[k + 1]
  BY <1>1
<1>4. h.t \in Trees /\ Within(d) \in Places
  BY <1>1, WithinFacts DEF Frames
<1> HIDE DEF h, d
<1>5. Within(s) = <<h.t>> \o Within(d)
  BY <1>1, <1>2, PushFacts
<1>6. /\ Head(Within(s)) = h.t /\ Tail(Within(s)) = Within(d)
      /\ \A t : IsIn(t, Within(s)) <=> t = h.t \/ IsIn(t, Within(d))
  BY <1>4, <1>5, PlacesFacts
<1>7. ASSUME Once(s) PROVE Once(d) /\ ~IsIn(h.t, Within(d))
  <2>1. Once(d)
    <3> SUFFICES ASSUME NEW j \in DOMAIN d, NEW k \in DOMAIN d, d[j].t = d[k].t PROVE j = k
      BY DEF Once
    <3>1. j + 1 = k + 1
      BY <1>3, <1>7 DEF Once
    <3> QED BY <1>3, <3>1
  <2>2. ASSUME IsIn(h.t, Within(d)) PROVE FALSE
    <3>1. PICK k \in DOMAIN d : d[k].t = h.t
      BY <1>1, <2>2, WithinFacts
    <3>2. k + 1 \in DOMAIN s /\ k \in Nat /\ s[k + 1].t = s[1].t /\ 1 \in DOMAIN s
      BY <1>1, <1>3, <3>1
    <3>3. k + 1 = 1
      BY <1>7, <3>2 DEF Once
    <3>4. k > 0
      BY <1>1
    <3> QED BY <3>2, <3>3, <3>4
  <2> QED BY <2>1, <2>2
<1>8. 1 \in DOMAIN s
  BY <1>1
<1> QED BY <1>1, <1>3, <1>5, <1>6, <1>7, <1>8 DEF h, d

\* What TreeInv says of the job.
JobInv ==
    /\ stack \in Seq(Frames)
    /\ phase = "idle" => todo = <<>> /\ stack = <<>>
    /\ Nested(stack, todo) /\ Once(stack)

\* The operation at hand may be done, and then the next one.
LEMMA HeadFits ==
    ASSUME FullInv, JobInv, todo # <<>>
    PROVE  /\ Fits(Head(todo), Within(stack)) /\ T \in Trees /\ Head(todo) \in Ops
           /\ \E b : Leads(After(Head(todo), Within(stack)), Tail(todo), b)
           /\ Head(todo).op = "borrow" =>
                  Tail(todo) # <<>> /\ Head(Tail(todo)) = [op |-> "enter", t |-> T]
<1> DEFINE w == Within(stack)
<1>1. todo \in Seq(Ops) /\ Head(todo) = todo[1] /\ T \in Trees /\ Tail(todo) \in Seq(Ops)
      /\ Head(todo) \in Ops
  BY HeadAndTail, HeadTailProperties DEF FullInv
<1>2. PICK b : Leads(w, todo, b)
  BY <1>1, NestedLeads DEF JobInv
<1> HIDE DEF w
<1>3. Placed(todo, 1, w) /\ Leads(After(todo[1], w), Tail(todo), b)
  BY <1>2, LeadsOn
<1>4. ASSUME Head(todo).op = "borrow"
      PROVE  Tail(todo) # <<>> /\ Head(Tail(todo)) = [op |-> "enter", t |-> T]
  <2>1. 2 \in DOMAIN todo /\ todo[2] = [op |-> "enter", t |-> T]
    BY <1>1, <1>3, <1>4 DEF Placed, T
  <2>2. /\ Len(todo) \in Nat /\ DOMAIN todo = 1..Len(todo) /\ Len(Tail(todo)) = Len(todo) - 1
        /\ \A i \in 1..(Len(todo) - 1) : Tail(todo)[i] = todo[i + 1]
    <3>1. todo \in Seq(Ops) /\ todo # <<>>
      BY <1>1
    <3>2. Len(todo) \in Nat /\ DOMAIN todo = 1..Len(todo)
      BY <3>1, LenProperties
    <3>3. Len(Tail(todo)) = Len(todo) - 1 /\ \A i \in 1..(Len(todo) - 1) : Tail(todo)[i] = todo[i + 1]
      <4>1. /\ Len(Tail(todo)) = Len(todo) - 1
            /\ \A i \in 1..Len(Tail(todo)) : Tail(todo)[i] = todo[i + 1]
        BY <3>1, HeadTailProperties, Zenon
      <4> QED BY <4>1, Zenon
    <3> QED BY <3>2, <3>3, Zenon
  <2>3. 1 \in 1..(Len(todo) - 1)
    BY <2>1, <2>2
  <2>4. Tail(todo) # <<>> /\ Tail(todo)[1] = todo[2]
    <3>1. Len(Tail(todo)) # 0 /\ Len(<<>>) = 0
      BY <2>1, <2>2
    <3>2. (1 + 1) = 2
      OBVIOUS
    <3>3. Tail(todo) # <<>>
      BY <3>1, Zenon
    <3> QED BY <2>2, <2>3, <3>2, <3>3
  <2>5. Head(Tail(todo)) = Tail(todo)[1]
    BY <1>1, <2>4, HeadTailProperties
  <2> QED BY <2>1, <2>4, <2>5
<1> QED BY <1>1, <1>3, <1>4 DEF Placed, w

\* What is left to do is nested, if it leads somewhere.
LEMMA LeadsGives ==
    ASSUME FullInv', NEW b, Leads(Within(stack'), todo', b)
    PROVE  Nested(stack', todo')
BY NestedLeads DEF FullInv

\* A job that is over, or that an exception has ended.
LEMMA NothingIsNested == \A s : Nested(s, <<>>)
BY DEF Nested

\* An operation that enters and leaves nothing is done, or raises.
LEMMA DoneKeeps ==
    ASSUME FullInv, FullInv', JobInv, todo # <<>>,
           Head(todo).op \notin {"enter", "enter rfs", "leave"}, Done \/ Raise
    PROVE  JobInv'
<1>1. stack' = stack /\ phase' = phase
  BY DEF Done, Raise
<1>2. CASE Raise
  BY <1>1, <1>2, NothingIsNested DEF Raise, JobInv, Once
<1>3. CASE Done
  <2>1. PICK b : Leads(After(Head(todo), Within(stack)), Tail(todo), b)
    BY HeadFits
  <2>2. After(Head(todo), Within(stack)) = Within(stack)
    BY DEF After
  <2>3. Nested(stack', todo')
    BY <1>1, <1>3, <2>1, <2>2, LeadsGives DEF Done
  <2>4. phase # "idle"
    BY DEF JobInv
  <2> QED BY <1>1, <2>3, <2>4 DEF JobInv, Once
<1> QED BY <1>2, <1>3

\* A job begins, and its operations are looked up.
LEMMA PlanNested ==
    ASSUME FullInv, FullInv', JobInv, Start \/ Run \/ Expand
    PROVE  JobInv'
<1>1. stack' = stack
  BY DEF Start, Run, Expand
<1>2. CASE Start
  <2>1. stack = <<>> /\ phase' # "idle"
    BY <1>2 DEF Start, JobInv
  <2>2. Within(stack) = <<>>
    BY <2>1, WithinFacts DEF JobInv
  <2>3. todo' \in Keepers(<<>>)
    BY <1>2, JobsKeep DEF Start
  <2>4. Nested(stack', todo')
    BY <1>1, <2>2, <2>3, LeadsGives DEF Keepers
  <2> QED BY <1>1, <2>1, <2>4 DEF JobInv, Once
<1>3. CASE Run
  <2>1. todo # <<>> /\ Head(todo).op = "run" /\ phase' # "idle"
        /\ \E body \in Meaning("run") : todo' = body
    BY <1>3 DEF Run, Next1
  <2>2. Fits(Head(todo), Within(stack)) /\ T \in Trees
    BY <2>1, HeadFits
  <2>3. Within(stack) = <<>>
    BY <2>1, <2>2 DEF Fits
  <2>4. todo' \in Keepers(<<>>)
    BY <2>1, <2>2, MeaningsKeep
  <2>5. Nested(stack', todo')
    BY <1>1, <2>3, <2>4, LeadsGives DEF Keepers
  <2> QED BY <1>1, <2>1, <2>5 DEF JobInv, Once
<1>4. CASE Expand
  <2> DEFINE w == Within(stack)
  <2>1. PICK name \in Composed : Next1(name) /\ \E p \in Meaning(name) : todo' = p \o Tail(todo)
    BY <1>4 DEF Expand
  <2>2. todo # <<>> /\ Head(todo).op = name /\ phase # "idle" /\ phase' = phase
    BY <1>4, <2>1 DEF Next1, Expand
  <2>3. Fits(Head(todo), w) /\ T \in Trees
    BY <2>2, HeadFits
  <2>4. PICK b : Leads(After(Head(todo), w), Tail(todo), b)
    BY <2>2, HeadFits
  <2> HIDE DEF w
  <2>5. After(Head(todo), w) = w
    BY <2>2 DEF After, Composed
  <2>6. /\ name = "mk cdrom" => w = <<T>>
        /\ name # "mk cdrom" => w = <<>>
    BY <2>2, <2>3 DEF Fits, T
  <2>7. PICK p \in Keepers(w) : todo' = p \o Tail(todo)
    BY <2>1, <2>3, <2>6, MeaningsKeep
  <2>8. Leads(w, todo', b)
    BY <2>4, <2>5, <2>7, LeadsConcat DEF Keepers
  <2>9. Nested(stack', todo')
    BY <1>1, <2>8, LeadsGives DEF w
  <2> QED BY <1>1, <2>2, <2>9 DEF JobInv, Once
<1> QED BY <1>2, <1>3, <1>4

\* A tree is entered.
LEMMA EnterNested ==
    ASSUME FullInv, FullInv', JobInv, Enter
    PROVE  JobInv'
<1> DEFINE fr == [t |-> T, env |-> Head(todo).op = "enter", ended |-> {}]
           w == Within(stack)
<1>1. /\ todo # <<>> /\ Head(todo).op \in {"enter", "enter rfs"} /\ phase # "idle"
      /\ stack' = <<fr>> \o stack /\ todo' = Tail(todo) /\ phase' = phase
  BY DEF Enter, Enters, Next1
<1>2. Fits(Head(todo), w) /\ T \in Trees
  BY <1>1, HeadFits
<1>3. PICK b : Leads(After(Head(todo), w), Tail(todo), b)
  BY <1>1, HeadFits
<1>4. fr \in Frames /\ fr.t = T
  BY <1>2 DEF Frames
<1>5. ~IsIn(T, w)
  BY <1>1, <1>2 DEF Fits, T
<1> HIDE DEF fr, w
<1>6. stack' \in Seq(Frames) /\ Within(stack') = <<T>> \o w /\ Once(stack')
  BY <1>1, <1>4, <1>5, PushFacts DEF JobInv, w
<1>7. After(Head(todo), w) = <<T>> \o w
  BY <1>1 DEF After, T
<1>8. Nested(stack', todo')
  BY <1>1, <1>3, <1>6, <1>7, LeadsGives
<1> QED BY <1>1, <1>6, <1>8 DEF JobInv, Once

\* An excursion ends in the tree that was entered last.
LEMMA EndExcursionNested ==
    ASSUME FullInv, FullInv', JobInv, EndExcursion
    PROVE  JobInv' /\ stack # <<>> /\ Head(stack).t = T /\ Within(stack') = Within(stack)
<1> DEFINE fr == [Head(stack) EXCEPT !.ended = @ \union {"resolv.conf"}]
           w == Within(stack)
<1>1. /\ todo # <<>> /\ Head(todo).op = "end_excursion" /\ phase # "idle"
      /\ stack' = <<fr>> \o Tail(stack) /\ todo' = Tail(todo) /\ phase' = phase
  BY DEF EndExcursion, Next1
<1>2. Fits(Head(todo), w) /\ T \in Trees
  BY <1>1, HeadFits
<1>3. PICK b : Leads(After(Head(todo), w), Tail(todo), b)
  BY <1>1, HeadFits
<1>4. w # <<>> /\ Head(w) = T
  BY <1>1, <1>2 DEF Fits, T
<1>5. stack \in Seq(Frames) /\ stack # <<>>
  BY <1>4, WithinFacts DEF JobInv
<1>6. /\ Head(stack) \in Frames /\ Tail(stack) \in Seq(Frames) /\ Head(stack).t = T
      /\ w = <<T>> \o Within(Tail(stack))
      /\ Once(Tail(stack)) /\ ~IsIn(T, Within(Tail(stack)))
  <2>1. /\ Head(stack) \in Frames /\ Tail(stack) \in Seq(Frames)
        /\ Head(w) = Head(stack).t /\ w = <<Head(stack).t>> \o Within(Tail(stack))
    BY <1>5, PopFacts
  <2>2. Once(Tail(stack)) /\ ~IsIn(Head(stack).t, Within(Tail(stack)))
    BY <1>5, PopFacts DEF JobInv
  <2> QED BY <1>4, <2>1, <2>2
<1>7. fr \in Frames /\ fr.t = T
  <2>1. "resolv.conf" \in Excursed
    BY FilesAssumption DEF Excursed
  <2> QED BY <1>6, <2>1 DEF Frames
<1> HIDE DEF fr, w
<1>8. stack' \in Seq(Frames) /\ Within(stack') = w /\ Once(stack')
  BY <1>1, <1>6, <1>7, PushFacts
<1>9. After(Head(todo), w) = w
  BY <1>1 DEF After
<1>10. Nested(stack', todo')
  BY <1>1, <1>3, <1>8, <1>9, LeadsGives
<1> QED BY <1>1, <1>5, <1>6, <1>8, <1>10 DEF JobInv, Once, w

\* A tree is left.
LEMMA LeaveNested ==
    ASSUME FullInv, FullInv', JobInv, Leave \/ LeaveFails
    PROVE  JobInv'
<1>1. /\ stack # <<>> /\ stack' = Tail(stack) /\ phase' = phase
      /\ todo' = <<>> \/ (todo # <<>> /\ Head(todo).op = "leave" /\ todo' = Tail(todo))
  BY DEF Leave, LeaveFails, Leaves, Next1
<1>2. /\ stack' \in Seq(Frames) /\ Within(stack') = Tail(Within(stack)) /\ Once(stack')
  BY <1>1, PopFacts DEF JobInv
<1>3. phase # "idle"
  BY <1>1 DEF JobInv
<1>4. CASE todo' = <<>>
  <2>1. Nested(stack', todo')
    BY <1>4, NothingIsNested
  <2> QED BY <1>1, <1>2, <1>3, <2>1 DEF JobInv, Once
<1>5. CASE todo # <<>> /\ Head(todo).op = "leave" /\ todo' = Tail(todo)
  <2>1. PICK b : Leads(After(Head(todo), Within(stack)), Tail(todo), b)
    BY <1>5, HeadFits
  <2>2. After(Head(todo), Within(stack)) = Within(stack')
    BY <1>2, <1>5 DEF After
  <2>3. Nested(stack', todo')
    BY <1>5, <2>1, <2>2, LeadsGives
  <2> QED BY <1>1, <1>2, <1>3, <2>3 DEF JobInv, Once
<1> QED BY <1>1, <1>4, <1>5

\* Every step leaves a job that can be done.
LEMMA JobNext ==
    ASSUME FullInv, FullInv', JobInv, [Next]_vars
    PROVE  JobInv'
<1>1. CASE UNCHANGED <<phase, todo, stack>>
  BY <1>1 DEF JobInv, Once
<1>2. CASE UNCHANGED vars \/ Terminating
  BY <1>1, <1>2 DEF vars, Terminating
<1>3. CASE End \/ Kill
  <2>1. todo' = <<>> /\ stack' = <<>>
    BY <1>3 DEF End, Kill
  <2> QED BY <2>1, NothingIsNested DEF JobInv, Once
<1>4. CASE Fail \/ EnterFails
  <2>1. Raise
    BY <1>4 DEF Fail, EnterFails
  <2> QED BY <2>1, NothingIsNested DEF JobInv, Once, Raise
<1>5. CASE \/ DoWork \/ OpenProjectRepo \/ IncludePackage \/ Mkdir \/ RemoveTree \/ Strip
           \/ Debootstrap \/ Borrow \/ Commit \/ DumpVersion \/ Extract
  <2>1. /\ todo # <<>> /\ Head(todo).op \notin {"enter", "enter rfs", "leave"}
        /\ Done \/ Raise
    BY <1>5 DEF DoWork, OpenProjectRepo, IncludePackage, Mkdir, RemoveTree, Strip, RemovalFails,
                Torn, Debootstrap, Borrow, Commit, DumpVersion, Extract, Next1
  <2> QED BY <2>1, DoneKeeps
<1>6. CASE SourceCd
  <2>1. CASE Done \/ Raise
    <3>1. todo # <<>> /\ Head(todo).op \notin {"enter", "enter rfs", "leave"}
      BY <1>6 DEF SourceCd, Next1
    <3> QED BY <2>1, <3>1, DoneKeeps
  <2> QED BY <1>1, <1>6, <2>1 DEF SourceCd
<1> QED BY <1>2, <1>3, <1>4, <1>5, <1>6, PlanNested, EnterNested, EndExcursionNested,
           LeaveNested DEF Next

-----------------------------------------------------------------------------
(* What is done to a tree that is entered.                                 *)

\* A tree whose files stay.
LEMMA SameFiles ==
    ASSUME NEW t, file'[t] = file[t], orig'[t] = orig[t], had'[t] = had[t]
    PROVE  \A f \in Excursed : /\ OwnFile(t, f) => OwnFile(t, f)'
                               /\ Restorable(t, f) => Restorable(t, f)'
BY DEF OwnFile, Restorable, Undone, Unmodified

\* A frame whose tree does not change.
LEMMA EnteredStays ==
    ASSUME NEW fr, Entered(fr), mounts'[fr.t] = mounts[fr.t], fr.t \in inside' => fr.t \in inside,
           file'[fr.t] = file[fr.t], orig'[fr.t] = orig[fr.t], had'[fr.t] = had[fr.t]
    PROVE  Entered(fr)'
BY DEF Entered, OwnFile, Restorable, Undone, Unmodified

\* The frames of the trees that a job is in.
IsFrame(fr, frames) == \E k \in DOMAIN frames : frames[k] = fr

\* What there is to show of a step.
LEMMA UndoableFrom ==
    ASSUME \A t \in Trees \ spoilt' : ~IsIn(t, Within(stack')) => Clean(t)',
           \A fr : IsFrame(fr, stack') /\ fr.t \notin spoilt' => Entered(fr)',
           inside' \ spoilt' # {} => home' = "none" /\ \A a, b \in inside' \ spoilt' : a = b
    PROVE  Undoable'
<1>1. ASSUME NEW k \in DOMAIN stack', stack'[k].t \notin spoilt' PROVE Entered(stack[k])'
  <2>1. PICK fr : fr = stack'[k]
    OBVIOUS
  <2>2. Entered(fr)'
    BY <1>1, <2>1 DEF IsFrame
  <2> QED BY <2>1, <2>2 DEF Entered, OwnFile, Restorable, Undone, Unmodified
<1> QED BY <1>1 DEF Undoable

\* A step that is about one tree at the most.
OthersKept(t) ==
    \A u \in Trees : u # t => /\ file'[u] = file[u] /\ orig'[u] = orig[u]
                              /\ had'[u] = had[u] /\ mounts'[u] = mounts[u]

LEMMA OneTreeStep ==
    ASSUME JobInv, TreeTypes, Undoable, NEW t \in Trees, OthersKept(t),
           spoilt \ {t} \subseteq spoilt', inside' \subseteq inside \union {t},
           ~Next1("enter") \/ T = t,
           \A u : u # t /\ IsIn(u, Within(stack)) => IsIn(u, Within(stack')),
           \A fr : IsFrame(fr, stack') /\ fr.t # t => IsFrame(fr, stack),
           t \notin spoilt' /\ ~IsIn(t, Within(stack')) => Clean(t)',
           \A fr : IsFrame(fr, stack') /\ fr.t = t /\ t \notin spoilt' => Entered(fr)',
           inside' \ spoilt' # {} => home' = "none" /\ \A a, b \in inside' \ spoilt' : a = b
    PROVE  Undoable'
<1>1. ASSUME NEW u \in Trees \ spoilt', ~IsIn(u, Within(stack')), u # t PROVE Clean(u)'
  <2>1. Clean(u)
    BY <1>1 DEF Undoable
  <2>2. u \notin inside'
    BY <1>1, <2>1 DEF Clean
  <2>3. mounts'[u] = 0
    BY <1>1, <2>1 DEF Clean, OthersKept
  <2>4. \A f \in Excursed : OwnFile(u, f)'
    BY <1>1, <2>1, SameFiles DEF Clean, OthersKept
  <2> QED BY <2>2, <2>3, <2>4 DEF Clean
<1>2. ASSUME NEW fr, IsFrame(fr, stack'), fr.t \notin spoilt', fr.t # t PROVE Entered(fr)'
  <2>1. Entered(fr)
    <3>1. PICK k \in DOMAIN stack : stack[k] = fr
      BY <1>2 DEF IsFrame
    <3>2. stack[k].t \notin spoilt
      BY <1>2, <3>1
    <3>3. Entered(stack[k])
      BY <3>2 DEF Undoable
    <3> QED BY <3>1, <3>3
  <2>2. fr.t \in Trees
    <3>1. stack \in Seq(Frames)
      BY DEF JobInv
    <3>2. fr \in Frames
      BY <1>2, <3>1, ElementOfSeq DEF IsFrame
    <3> QED BY <3>2 DEF Frames
  <2> QED BY <1>2, <2>1, <2>2, EnteredStays DEF OthersKept
<1> QED BY <1>1, <1>2, UndoableFrom

\* The frame of a tree that is entered is there for one that somebody is in.
LEMMA FrameIsIn ==
    ASSUME JobInv, NEW fr, IsFrame(fr, stack)
    PROVE  IsIn(fr.t, Within(stack)) /\ fr \in Frames /\ fr.t \in Trees
<1>1. stack \in Seq(Frames)
  BY DEF JobInv
<1>2. fr \in Frames
  BY <1>1, ElementOfSeq DEF IsFrame
<1>3. fr.t \in Trees
  BY <1>2 DEF Frames
<1> QED BY <1>1, <1>2, <1>3, WithinFacts DEF IsFrame

\* A step that is about one tree, and enters and leaves none.
LEMMA NobodyMoves ==
    ASSUME JobInv, TreeTypes, Undoable, NEW t \in Trees, OthersKept(t), stack' = stack,
           spoilt \ {t} \subseteq spoilt', inside' \subseteq inside,
           inside' \ spoilt' \subseteq inside \ spoilt,
           ~Next1("enter") \/ T = t, home' = home \/ inside' \ spoilt' = {},
           t \notin spoilt' /\ ~IsIn(t, Within(stack)) => Clean(t)',
           \A fr : IsFrame(fr, stack) /\ fr.t = t /\ t \notin spoilt' => Entered(fr)'
    PROVE  Undoable'
<1>1. inside' \ spoilt' # {} => home' = "none" /\ \A a, b \in inside' \ spoilt' : a = b
  BY DEF Undoable
<1> QED BY <1>1, OneTreeStep

\* The same for a tree that nobody is in.
LEMMA NobodyIsThere ==
    ASSUME JobInv, TreeTypes, Undoable, NEW t \in Trees, OthersKept(t), stack' = stack,
           spoilt \ {t} \subseteq spoilt', inside' \subseteq inside,
           inside' \ spoilt' \subseteq inside \ spoilt,
           ~Next1("enter") \/ T = t, home' = home,
           ~IsIn(t, Within(stack)), t \notin spoilt' => Clean(t)'
    PROVE  Undoable'
<1>1. \A fr : IsFrame(fr, stack) => fr.t # t
  BY FrameIsIn
<1> QED BY <1>1, NobodyMoves

\* Outside of all trees the repository is at home.
LEMMA OutsideIsHome ==
    ASSUME TreeTypes, Undoable, Within(stack) = <<>>, ~Next1("enter")
    PROVE  inside \ spoilt = {}
<1>1. \A t \in Trees : ~IsIn(t, Within(stack))
  BY OutsideKeep
<1> QED BY <1>1 DEF Undoable, Clean, TreeTypes

\* Steps that are not about the trees, and those that stand outside of them.
LEMMA OtherSteps ==
    ASSUME FullInv, JobInv, TreeTypes, Undoable,
           \/ Start \/ Run \/ Expand \/ End \/ Fail \/ DoWork \/ OpenProjectRepo
           \/ IncludePackage \/ Mkdir \/ DumpVersion \/ SourceCd
    PROVE  Undoable'
<1>1. UNCHANGED <<mounts, file, orig, had, inside, spoilt>> /\ stack' = stack
  BY DEF Start, Run, Expand, End, Fail, DoWork, OpenProjectRepo, IncludePackage, Mkdir,
         DumpVersion, SourceCd, treevars, repovars, Done, Raise, Rest, Same
<1>2. ~Next1("enter")
  <2>1. CASE \/ Start \/ Run \/ Expand \/ End \/ Fail \/ DoWork
    BY <2>1 DEF Start, Run, Expand, End, Fail, DoWork, Next1, Composed
  <2>2. CASE \/ OpenProjectRepo \/ IncludePackage \/ Mkdir \/ DumpVersion \/ SourceCd
    BY <2>2 DEF OpenProjectRepo, IncludePackage, Mkdir, DumpVersion, SourceCd, Next1
  <2> QED BY <2>1, <2>2
<1>3. home' = home \/ inside' \ spoilt' = {}
  <2>1. CASE OpenProjectRepo \/ IncludePackage
    <3>1. todo # <<>> /\ Head(todo).op \in {"repo", "include"}
      BY <2>1 DEF OpenProjectRepo, IncludePackage, Next1
    <3>2. Within(stack) = <<>>
      BY <3>1, HeadFits DEF Fits
    <3> QED BY <1>1, <1>2, <3>2, OutsideIsHome
  <2>2. CASE ~(OpenProjectRepo \/ IncludePackage)
    BY <2>2 DEF Start, Run, Expand, End, Fail, DoWork, Mkdir, DumpVersion, SourceCd, repovars
  <2> QED BY <2>1, <2>2
<1>4. "chroot" \in Trees /\ OthersKept("chroot")
  BY <1>1 DEF Trees, OthersKept
<1>5. PICK t \in Trees : t = "chroot"
  BY <1>4
<1>6. t \notin spoilt' /\ ~IsIn(t, Within(stack)) => Clean(t)'
  <2> SUFFICES ASSUME t \notin spoilt', ~IsIn(t, Within(stack)) PROVE Clean(t)'
    OBVIOUS
  <2>1. Clean(t)
    BY <1>1 DEF Undoable
  <2>2. \A f \in Excursed : OwnFile(t, f)'
    BY <1>1, <2>1, SameFiles DEF Clean
  <2> QED BY <1>1, <1>2, <2>1, <2>2 DEF Clean
<1>7. ASSUME NEW fr, IsFrame(fr, stack), fr.t = t, t \notin spoilt' PROVE Entered(fr)'
  <2>1. Entered(fr)
    BY <1>1, <1>7 DEF Undoable, IsFrame
  <2> QED BY <1>1, <2>1, EnteredStays
<1> QED BY <1>1, <1>2, <1>3, <1>4, <1>5, <1>6, <1>7, NobodyMoves

\* A removal that is cut short leaves nothing in the tree that was not there.
LEMMA TornLeaves ==
    ASSUME TreeTypes, NEW t \in Trees, Torn(t), Clean(t), ~Next1("enter")
    PROVE  Clean(t)'
<1>1. PICK gone \in SUBSET Excursed :
          /\ file' = [file EXCEPT ![t] = [f \in Excursed |-> IF f \in gone THEN None ELSE @[f]]]
          /\ orig' = [orig EXCEPT ![t] = [f \in Excursed |-> IF f \in gone THEN None ELSE @[f]]]
          /\ had' = [had EXCEPT ![t] = @ \ gone]
  BY DEF Torn
<1>2. /\ \A f \in Excursed : /\ file'[t][f] = IF f \in gone THEN None ELSE file[t][f]
                             /\ orig'[t][f] = IF f \in gone THEN None ELSE orig[t][f]
      /\ had'[t] = had[t] \ gone
  BY <1>1 DEF TreeTypes
<1>3. \A f \in Excursed : OwnFile(t, f)'
  BY <1>2, FilesAssumption DEF Clean, OwnFile
<1>4. mounts'[t] = 0 /\ t \notin inside'
  BY DEF Torn, Clean
<1> QED BY <1>3, <1>4 DEF Clean

\* A tree is removed or made, and nobody is in it.
LEMMA RemovalSteps ==
    ASSUME FullInv, JobInv, TreeTypes, Undoable, RemoveTree \/ Strip \/ Debootstrap,
           NEW t \in Trees, t = T
    PROVE  Undoable'
<1>1. /\ todo # <<>> /\ Head(todo).op \in {"rmtree", "strip", "debootstrap"}
      /\ stack' = stack
  BY DEF RemoveTree, Strip, Debootstrap, RemovalFails, Torn, Next1, Done, Raise
<1>2. ~IsIn(t, Within(stack)) /\ ~Next1("enter")
  <2>1. Fits(Head(todo), Within(stack))
    BY <1>1, HeadFits
  <2> QED BY <1>1, <2>1 DEF Fits, Next1, T
<1>3. t \notin spoilt => Clean(t)
  BY <1>2 DEF Undoable
<1>4. ASSUME Wiped(t), mounts[t] = 0 PROVE Undoable'
  <2>1. /\ \A u \in Trees : u # t => file'[u] = file[u] /\ orig'[u] = orig[u] /\ had'[u] = had[u]
        /\ had'[t] = {} /\ file'[t] = [f \in Excursed |-> None]
        /\ orig'[t] = [f \in Excursed |-> None]
        /\ UNCHANGED <<mounts, home>> /\ inside' = inside \ {t} /\ spoilt' = spoilt \ {t}
    BY <1>4 DEF Wiped, TreeTypes
  <2>2. OthersKept(t)
    BY <2>1 DEF OthersKept
  <2>3. \A f \in Excursed : OwnFile(t, f)'
    BY <2>1, FilesAssumption DEF OwnFile
  <2>4. Clean(t)'
    BY <1>4, <2>1, <2>3 DEF Clean
  <2> QED BY <1>1, <1>2, <2>1, <2>2, <2>4, NobodyIsThere
<1>5. ASSUME RemovalFails(t) PROVE Undoable'
  <2>1. Torn(t) /\ spoilt' = spoilt
    BY <1>5 DEF RemovalFails, Fault, Same
  <2>2. OthersKept(t) /\ home' = home /\ inside' \subseteq inside
    BY <2>1 DEF OthersKept, Torn, TreeTypes
  <2>3. t \notin spoilt' => Clean(t)'
    BY <1>2, <1>3, <2>1, TornLeaves
  <2> QED BY <1>1, <1>2, <2>1, <2>2, <2>3, NobodyIsThere
<1>6. ASSUME UNCHANGED <<mounts, file, orig, had, home, inside, spoilt>> PROVE Undoable'
  <2>1. OthersKept(t)
    BY <1>6 DEF OthersKept
  <2>2. t \notin spoilt' => Clean(t)'
    BY <1>2, <1>3, <1>6, SameFiles DEF Clean
  <2> QED BY <1>1, <1>2, <1>6, <2>1, <2>2, NobodyIsThere
<1>7. ASSUME NEW p \in Excursed, NEW r \in Excursed,
             file' = [file EXCEPT ![t][p] = Own, ![t][r] = None],
             had' = [had EXCEPT ![t] = @ \ Excursed],
             UNCHANGED <<mounts, orig, home, inside, spoilt>>
      PROVE  Undoable'
  <2>1. OthersKept(t)
    BY <1>7 DEF TreeTypes, OthersKept
  <2>2. had'[t] = {} /\ orig'[t] = orig[t]
    <3>1. had[t] \subseteq Excursed
      BY DEF TreeTypes, Excursed
    <3> QED BY <1>7, <3>1 DEF TreeTypes
  <2>3. \A f \in Excursed : file'[t][f] \in {None, Own, file[t][f]}
    BY <1>7 DEF TreeTypes
  <2>4. ASSUME t \notin spoilt' PROVE Clean(t)'
    <3>1. Clean(t)
      BY <1>3, <1>7, <2>4
    <3>2. \A f \in Excursed : OwnFile(t, f)'
      BY <2>2, <2>3, <3>1, FilesAssumption DEF OwnFile, Clean
    <3> QED BY <1>2, <1>7, <3>1, <3>2 DEF Clean
  <2> QED BY <1>1, <1>2, <1>7, <2>1, <2>4, NobodyIsThere
<1>8. ASSUME file' = [file EXCEPT ![t] = [f \in Excursed |-> IF f \in Saved THEN None ELSE @[f]]],
             orig' = [orig EXCEPT ![t] = [f \in Excursed |-> None]],
             had' = [had EXCEPT ![t] = {}], UNCHANGED <<mounts, home, inside, spoilt>>
      PROVE  Undoable'
  <2>1. OthersKept(t)
    BY <1>8 DEF TreeTypes, OthersKept
  <2>2. /\ had'[t] = {} /\ orig'[t] = [f \in Excursed |-> None]
        /\ \A f \in Excursed : file'[t][f] \in {None, file[t][f]}
    BY <1>8 DEF TreeTypes
  <2>3. ASSUME t \notin spoilt' PROVE Clean(t)'
    <3>1. Clean(t)
      BY <1>3, <1>8, <2>3
    <3>2. \A f \in Excursed : OwnFile(t, f)'
      BY <2>2, <3>1, FilesAssumption DEF OwnFile, Clean
    <3> QED BY <1>2, <1>8, <3>1, <3>2 DEF Clean
  <2> QED BY <1>1, <1>2, <1>8, <2>1, <2>3, NobodyIsThere
<1>9. CASE RemoveTree
  BY <1>4, <1>5, <1>9 DEF RemoveTree
<1>10. CASE Strip
  <2>1. \/ RemovalFails(t)
        \/ /\ file' = [file EXCEPT ![t] = [f \in Excursed |-> IF f \in Saved THEN None ELSE @[f]]]
           /\ orig' = [orig EXCEPT ![t] = [f \in Excursed |-> None]]
           /\ had' = [had EXCEPT ![t] = {}] /\ UNCHANGED <<mounts, home, inside, spoilt>>
    BY <1>10 DEF Strip, repovars, Rest, Same
  <2> QED BY <1>5, <1>8, <2>1
<1>11. CASE Debootstrap
  <2> DEFINE p == "policy-rc.d"
             r == "resolv.conf"
  <2>1. p \in Excursed /\ r \in Excursed
    BY FilesAssumption DEF Excursed
  <2> HIDE DEF p, r
  <2>2. \/ Wiped(T) /\ mounts[T] = 0
        \/ RemovalFails(T)
        \/ UNCHANGED <<mounts, file, orig, had, home, inside, spoilt>>
        \/ /\ file' = [file EXCEPT ![T][p] = Own, ![T][r] = None]
           /\ had' = [had EXCEPT ![T] = @ \ Excursed]
           /\ UNCHANGED <<mounts, orig, home, inside, spoilt>>
    BY <1>11, Zenon DEF Debootstrap, treevars, repovars, Rest, Same, p, r
  <2> QED BY <1>4, <1>5, <1>6, <1>7, <2>1, <2>2
<1> QED BY <1>9, <1>10, <1>11

\* The target is copied from a chroot that nobody is in.
LEMMA ExtractStep ==
    ASSUME FullInv, JobInv, TreeTypes, Undoable, Extract
    PROVE  Undoable'
<1>1. /\ todo # <<>> /\ Head(todo).op = "extract" /\ stack' = stack
      /\ file' = [file EXCEPT !["target"] = file["chroot"]]
      /\ orig' = [orig EXCEPT !["target"] = orig["chroot"]]
      /\ had' = [had EXCEPT !["target"] = had["chroot"]]
      /\ UNCHANGED <<mounts, home, inside>>
      /\ spoilt' = IF "chroot" \in spoilt THEN spoilt \union {"target"} ELSE spoilt
  BY DEF Extract, Next1, Done, repovars
<1>2. ~IsIn("chroot", Within(stack)) /\ ~IsIn("target", Within(stack)) /\ ~Next1("enter")
  <2>1. Fits(Head(todo), Within(stack))
    BY <1>1, HeadFits
  <2> QED BY <1>1, <2>1 DEF Fits, Next1
<1>3. "target" \in Trees /\ "chroot" \in Trees
  BY DEF Trees
<1>4. /\ file'["target"] = file["chroot"] /\ orig'["target"] = orig["chroot"]
      /\ had'["target"] = had["chroot"] /\ OthersKept("target")
  BY <1>1, <1>3 DEF TreeTypes, OthersKept
<1>5. ASSUME "target" \notin spoilt' PROVE Clean("target")'
  <2>1. Clean("target") /\ Clean("chroot")
    BY <1>1, <1>2, <1>3, <1>5 DEF Undoable
  <2>2. \A f \in Excursed : OwnFile("target", f)'
    BY <1>4, <2>1 DEF OwnFile, Clean
  <2> QED BY <1>1, <1>2, <2>1, <2>2 DEF Clean
<1>6. spoilt \subseteq spoilt'
  BY <1>1
<1> QED BY <1>1, <1>2, <1>3, <1>4, <1>5, <1>6, NobodyIsThere

\* A file that is written counts as the tree's own, now and when the excursion ends.
LEMMA CommitStep ==
    ASSUME FullInv, JobInv, TreeTypes, Undoable, Commit
    PROVE  Undoable'
<1>1. /\ todo # <<>> /\ stack' = stack /\ ~Next1("enter")
      /\ UNCHANGED <<mounts, orig, home, inside, spoilt>>
  BY DEF Commit, Next1, Done, Raise, repovars, Rest, Same
<1>2. PICK t \in Trees : t = T
  BY <1>1, HeadFits
<1>3. PICK written \in SUBSET Saved :
         /\ file' = [file EXCEPT ![t] = [f \in Excursed |-> IF f \in written THEN Own ELSE @[f]]]
         /\ had' = [had EXCEPT ![t] = @ \union written]
  BY <1>2 DEF Commit
<1>4. OthersKept(t)
  BY <1>1, <1>3 DEF OthersKept, TreeTypes
<1>5. ASSUME NEW f \in Excursed
      PROVE  /\ OwnFile(t, f) => OwnFile(t, f)'
             /\ Restorable(t, f) => Restorable(t, f)'
  <2>1. orig'[t][f] = orig[t][f]
    BY <1>1
  <2>2. CASE f \in written
    <3>1. file'[t][f] = Own
      BY <1>3, <2>2 DEF TreeTypes
    <3> QED BY <2>1, <3>1, FilesAssumption DEF OwnFile, Restorable, Undone, Unmodified
  <2>3. CASE f \notin written
    <3>1. file'[t][f] = file[t][f] /\ (f \in had'[t] <=> f \in had[t])
      BY <1>3, <2>3 DEF TreeTypes
    <3> QED BY <2>1, <3>1 DEF OwnFile, Restorable, Undone, Unmodified
  <2> QED BY <2>2, <2>3
<1>6. t \notin spoilt' /\ ~IsIn(t, Within(stack)) => Clean(t)'
  BY <1>1, <1>5 DEF Undoable, Clean
<1>7. ASSUME NEW fr, IsFrame(fr, stack), fr.t = t, t \notin spoilt' PROVE Entered(fr)'
  <2>1. Entered(fr)
    BY <1>1, <1>7 DEF Undoable, IsFrame
  <2>2. \A f \in Excursed : IF f \in fr.ended THEN OwnFile(t, f)' ELSE Restorable(t, f)'
    BY <1>5, <1>7, <2>1 DEF Entered
  <2>3. mounts'[t] = 1 /\ (t \in inside' => fr.env)
    BY <1>1, <1>7, <2>1 DEF Entered
  <2> QED BY <1>7, <2>2, <2>3 DEF Entered, OwnFile, Restorable, Undone, Unmodified
<1> QED BY <1>1, <1>4, <1>6, <1>7, NobodyMoves

\* What an excursion that ends makes of the files.
LEMMA UndoGives ==
    ASSUME TreeTypes, NEW t \in Trees, NEW fs, had' = had,
           file' = [file EXCEPT ![t] =
                      [f \in Excursed |-> IF f \in fs THEN Undone(t, f) ELSE @[f]]],
           orig' = [orig EXCEPT ![t] = [f \in Excursed |-> IF f \in fs THEN None ELSE @[f]]]
    PROVE  /\ \A u \in Trees : u # t => file'[u] = file[u] /\ orig'[u] = orig[u]
           /\ \A f \in Excursed :
                 /\ f \in fs /\ Restorable(t, f) => OwnFile(t, f)'
                 /\ f \notin fs /\ Restorable(t, f) => Restorable(t, f)'
                 /\ f \notin fs /\ OwnFile(t, f) => OwnFile(t, f)'
<1>1. /\ \A u \in Trees : u # t => file'[u] = file[u] /\ orig'[u] = orig[u]
      /\ \A f \in Excursed : /\ file'[t][f] = IF f \in fs THEN Undone(t, f) ELSE file[t][f]
                             /\ orig'[t][f] = IF f \in fs THEN None ELSE orig[t][f]
  BY DEF TreeTypes
<1>2. ASSUME NEW f \in Excursed, f \in fs, Restorable(t, f) PROVE OwnFile(t, f)'
  BY <1>1, <1>2 DEF OwnFile, Restorable
<1>3. ASSUME NEW f \in Excursed, f \notin fs
      PROVE  /\ Restorable(t, f) => Restorable(t, f)'
             /\ OwnFile(t, f) => OwnFile(t, f)'
  BY <1>1, <1>3 DEF OwnFile, Restorable, Undone, Unmodified
<1> QED BY <1>1, <1>2, <1>3

\* The repository moves into a tree that is entered next.
LEMMA BorrowStep ==
    ASSUME FullInv, JobInv, TreeTypes, Undoable, Borrow
    PROVE  Undoable'
<1>1. /\ todo # <<>> /\ Head(todo).op = "borrow" /\ stack' = stack /\ phase # "idle"
      /\ phase' = phase /\ UNCHANGED <<mounts, file, orig, had, spoilt>> /\ ~Next1("enter")
  BY DEF Borrow, Next1, Done, Raise, treevars, Rest, Same
<1>2. PICK t \in Trees : t = T
  BY <1>1, HeadFits
<1>3. ~IsIn(t, Within(stack))
  <2>1. Fits(Head(todo), Within(stack))
    BY <1>1, HeadFits
  <2> QED BY <1>1, <1>2, <2>1 DEF Fits, T
<1>4. OthersKept(t)
  BY <1>1 DEF OthersKept
<1>5. t \notin spoilt => Clean(t) /\ t \notin inside
  BY <1>1, <1>3 DEF Undoable, Clean
<1>6. ASSUME t \notin spoilt PROVE mounts'[t] = 0 /\ \A f \in Excursed : OwnFile(t, f)'
  BY <1>1, <1>5, <1>6, SameFiles DEF Clean
<1>7. CASE UNCHANGED repovars
  <2>1. UNCHANGED <<home, inside>>
    BY <1>7 DEF repovars
  <2>2. t \notin spoilt' => Clean(t)'
    BY <1>1, <1>5, <1>6, <2>1 DEF Clean
  <2> QED BY <1>1, <1>3, <1>4, <2>1, <2>2, NobodyIsThere
<1>8. CASE ~UNCHANGED repovars
  <2>1. home = "pool" /\ home' = "none" /\ inside' = inside \union {t} /\ todo' = Tail(todo)
    BY <1>2, <1>8 DEF Borrow, Lends, Done
  <2>2. inside' \ spoilt' \subseteq {t}
    BY <1>1, <2>1 DEF Undoable
  <2>3. Next1("enter")' /\ T' = t
    <3>1. Tail(todo) # <<>> /\ Head(Tail(todo)) = [op |-> "enter", t |-> T]
      BY <1>1, HeadFits
    <3> QED BY <1>1, <1>2, <2>1, <3>1 DEF Next1, T
  <2>4. t \notin spoilt' => Clean(t)'
    BY <1>1, <1>6, <2>3 DEF Clean
  <2>5. \A fr : IsFrame(fr, stack) => fr.t # t
    BY <1>3, FrameIsIn
  <2> QED BY <1>1, <1>4, <2>1, <2>2, <2>4, <2>5, OneTreeStep
<1> QED BY <1>7, <1>8

\* A tree is entered: its files are saved where the host's replace them.
LEMMA EnterStep ==
    ASSUME FullInv, JobInv, TreeTypes, Undoable, Enter
    PROVE  Undoable'
<1>1. /\ todo # <<>> /\ Head(todo).op \in {"enter", "enter rfs"}
      /\ UNCHANGED <<had, home, inside, spoilt>>
  BY DEF Enter, Enters, Next1, repovars, Rest, Same
<1>2. PICK t \in Trees : t = T
  BY <1>1, HeadFits
<1>3. ~IsIn(t, Within(stack))
  <2>1. Fits(Head(todo), Within(stack))
    BY <1>1, HeadFits
  <2> QED BY <1>1, <1>2, <2>1 DEF Fits, T
<1>4. PICK fr \in Frames : /\ fr.t = t /\ fr.ended = {} /\ fr.env = (Head(todo).op = "enter")
                           /\ stack' = <<fr>> \o stack
  <2>1. stack' = <<[t |-> T, env |-> Head(todo).op = "enter", ended |-> {}]>> \o stack
    BY DEF Enter
  <2>2. [t |-> T, env |-> Head(todo).op = "enter", ended |-> {}] \in Frames
    BY <1>2 DEF Frames
  <2> QED BY <1>2, <2>1, <2>2
<1>5. /\ mounts' = [mounts EXCEPT ![t] = @ + 1]
      /\ orig' = [orig EXCEPT ![t] = [f \in Excursed |->
                      IF f \in Saved /\ file[t][f] # None THEN file[t][f] ELSE @[f]]]
      /\ file' = [file EXCEPT ![t] = [f \in Excursed |->
                      IF f \in HostHas THEN Host ELSE IF f \in Saved THEN None ELSE @[f]]]
  <2>1. Excursed \intersect Saved = Saved /\ Excursed \intersect HostHas = HostHas
    BY FilesAssumption DEF Excursed
  <2>2. Excurse(t, Excursed, Excursed) /\ mounts' = [mounts EXCEPT ![t] = @ + 1]
    BY <1>2 DEF Enter
  <2> QED BY <2>1, <2>2 DEF Excurse
<1>6. OthersKept(t)
  BY <1>1, <1>5 DEF TreeTypes, OthersKept
<1>7. ASSUME t \notin spoilt PROVE Entered(fr)'
  <2>1. Clean(t)
    BY <1>3, <1>7 DEF Undoable
  <2>2. mounts'[t] = 1
    BY <1>5, <2>1 DEF Clean, TreeTypes
  <2>3. ASSUME NEW f \in Excursed PROVE Restorable(t, f)'
    <3>1. /\ file[t][f] # Host /\ orig[t][f] = None
          /\ f \in had[t] => f \in Saved /\ file[t][f] = Own
      BY <2>1 DEF Clean, OwnFile, TreeTypes
    <3>2. f \notin HostHas => f \in Saved
      BY FilesAssumption, Zenon DEF Excursed
    <3>3. /\ file'[t][f] = IF f \in HostHas THEN Host ELSE None
          /\ orig'[t][f] = IF f \in Saved THEN file[t][f] ELSE None
      BY <1>5, <3>1, <3>2 DEF TreeTypes
    <3>4. Undone(t, f)' = IF f \in Saved THEN file[t][f] ELSE None
      BY <3>3 DEF Undone, Unmodified
    <3> QED BY <1>1, <3>1, <3>4, FilesAssumption DEF Restorable
  <2>4. t \in inside' => fr.env
    BY <1>1, <1>2, <1>4, <2>1 DEF Clean, Next1
  <2> QED BY <1>4, <2>2, <2>3, <2>4 DEF Entered, OwnFile, Restorable, Undone, Unmodified
<1>8. ASSUME NEW g, IsFrame(g, stack') PROVE g = fr \/ IsFrame(g, stack)
  BY <1>4, <1>8, PushFacts DEF JobInv, IsFrame
<1>9. \A g : IsFrame(g, stack) => g.t # t
  BY <1>3, FrameIsIn
<1>10. \A u : IsIn(u, Within(stack')) <=> u = t \/ IsIn(u, Within(stack))
  <2>1. Within(stack') = <<t>> \o Within(stack)
    BY <1>4, PushFacts DEF JobInv
  <2>2. Within(stack) \in Places
    BY WithinFacts DEF JobInv
  <2> QED BY <2>1, <2>2, PlacesFacts
<1>11. ASSUME NEW g, IsFrame(g, stack'), g.t = t, t \notin spoilt' PROVE Entered(g)'
  <2>1. g = fr
    BY <1>8, <1>9, <1>11
  <2> QED BY <1>1, <1>7, <1>11, <2>1 DEF Entered, OwnFile, Restorable, Undone, Unmodified
<1>12. \A g : IsFrame(g, stack') /\ g.t # t => IsFrame(g, stack)
  BY <1>4, <1>8
<1>13. inside' \ spoilt' # {} => home' = "none" /\ \A a, b \in inside' \ spoilt' : a = b
  BY <1>1 DEF Undoable
<1> QED BY <1>1, <1>2, <1>6, <1>10, <1>11, <1>12, <1>13, OneTreeStep

\* A tree that cannot be entered: it is spoilt, or as it was and without the
\* repository.
LEMMA EnterFailsStep ==
    ASSUME FullInv, JobInv, TreeTypes, Undoable, EnterFails
    PROVE  Undoable'
<1>1. /\ todo # <<>> /\ Head(todo).op \in {"enter", "enter rfs"} /\ stack' = stack
      /\ UNCHANGED <<had, home, inside>>
  BY DEF EnterFails, Enters, Next1, Raise, repovars
<1>2. PICK t \in Trees : t = T
  BY <1>1, HeadFits
<1>3. ~IsIn(t, Within(stack))
  <2>1. Fits(Head(todo), Within(stack))
    BY <1>1, HeadFits
  <2> QED BY <1>1, <1>2, <2>1 DEF Fits, T
<1>4. /\ mounts' \in {mounts, [mounts EXCEPT ![t] = @ + 1]}
      /\ \E saved, copied \in SUBSET Excursed : Excurse(t, saved, copied)
  <2>1. {} \in SUBSET Excursed /\ Excursed \in SUBSET Excursed
        /\ \A saved \in SUBSET Excursed : \A f : saved \ {f} \in SUBSET Excursed
    OBVIOUS
  <2> QED BY <1>2, <2>1 DEF EnterFails
<1>5. \/ Excurse(t, {}, {}) /\ mounts' = mounts /\ spoilt' = spoilt \union ({t} \intersect inside)
      \/ spoilt' = spoilt \union {t}
  BY <1>2 DEF EnterFails, Fault
<1>6. OthersKept(t)
  BY <1>1, <1>4 DEF TreeTypes, OthersKept, Excurse
<1>7. ASSUME t \notin spoilt' PROVE Clean(t)'
  <2>1. Excurse(t, {}, {}) /\ mounts' = mounts /\ t \notin inside /\ t \notin spoilt
    BY <1>5, <1>7
  <2>2. Clean(t)
    BY <1>3, <2>1 DEF Undoable
  <2>3. file'[t] = [f \in Excursed |-> file[t][f]] /\ orig'[t] = [f \in Excursed |-> orig[t][f]]
    BY <2>1 DEF Excurse, TreeTypes
  <2>4. \A f \in Excursed : OwnFile(t, f)'
    BY <1>1, <2>2, <2>3 DEF Clean, OwnFile
  <2> QED BY <1>1, <2>1, <2>2, <2>4 DEF Clean
<1>8. spoilt \subseteq spoilt'
  BY <1>5
<1> QED BY <1>1, <1>2, <1>3, <1>6, <1>7, <1>8, NobodyIsThere

\* The excursion of one file ends early; the packages may write it then.
LEMMA EndExcursionStep ==
    ASSUME FullInv, FullInv', JobInv, TreeTypes, Undoable, EndExcursion
    PROVE  Undoable'
<1>1. stack # <<>> /\ Head(stack).t = T /\ Within(stack') = Within(stack)
  BY EndExcursionNested
<1>2. PICK h \in Frames : h = Head(stack)
  BY <1>1, PopFacts DEF JobInv
<1>3. PICK t \in Trees : t = T /\ h.t = t
  BY <1>1, <1>2 DEF Frames
<1>4. PICK r \in Excursed :
         /\ file' = [file EXCEPT ![t] = [f \in Excursed |->
                        IF f \in {r} \ h.ended THEN Undone(t, f) ELSE @[f]]]
         /\ orig' = [orig EXCEPT ![t] = [f \in Excursed |->
                        IF f \in {r} \ h.ended THEN None ELSE @[f]]]
         /\ stack' = <<[h EXCEPT !.ended = @ \union {r}]>> \o Tail(stack)
  <2>1. PICK r \in Excursed : r = "resolv.conf"
    BY FilesAssumption, Zenon DEF Excursed
  <2>2. /\ file' = [file EXCEPT ![T] = [f \in Excursed |->
                        IF f \in {r} \ h.ended THEN Undone(T, f) ELSE @[f]]]
        /\ orig' = [orig EXCEPT ![T] = [f \in Excursed |->
                        IF f \in {r} \ h.ended THEN None ELSE @[f]]]
        /\ stack' = <<[h EXCEPT !.ended = @ \union {r}]>> \o Tail(stack)
    BY <1>2, <2>1, Zenon DEF EndExcursion, Undo
  <2> QED BY <1>3, <2>2 DEF Undone, Unmodified
<1>5. UNCHANGED <<mounts, had, home, inside, spoilt>> /\ ~Next1("enter")
  BY DEF EndExcursion, repovars, Next1, Rest, Same
<1> DEFINE fs == {r} \ h.ended
           fr == [h EXCEPT !.ended = @ \union {r}]
<1>6. /\ \A u \in Trees : u # t => file'[u] = file[u] /\ orig'[u] = orig[u]
      /\ \A f \in Excursed :
            /\ f \in fs /\ Restorable(t, f) => OwnFile(t, f)'
            /\ f \notin fs /\ Restorable(t, f) => Restorable(t, f)'
            /\ f \notin fs /\ OwnFile(t, f) => OwnFile(t, f)'
  BY <1>4, <1>5, UndoGives
<1>7. fr \in Frames /\ fr.t = t /\ fr.ended = h.ended \union {r} /\ fr.env = h.env
  BY <1>3 DEF Frames
<1>8. ASSUME t \notin spoilt PROVE Entered(fr)'
  <2>1. Entered(h)
    BY <1>1, <1>2, <1>3, <1>8, PopFacts DEF Undoable, JobInv
  <2>2. \A f \in Excursed : IF f \in fr.ended THEN OwnFile(t, f)' ELSE Restorable(t, f)'
    BY <1>3, <1>6, <1>7, <2>1 DEF Entered
  <2> HIDE DEF fr
  <2> QED BY <1>3, <1>5, <1>7, <2>1, <2>2
          DEF Entered, OwnFile, Restorable, Undone, Unmodified
<1> HIDE DEF fs
<1>9. /\ stack \in Seq(Frames) /\ Tail(stack) \in Seq(Frames)
      /\ ~IsIn(t, Within(Tail(stack))) /\ IsIn(t, Within(stack))
  BY <1>1, <1>2, <1>3, PopFacts DEF JobInv
<1>10. stack' = <<fr>> \o Tail(stack)
  BY <1>4
<1> HIDE DEF fr
<1>11. \A g : IsFrame(g, stack') => g = fr \/ IsFrame(g, Tail(stack))
  BY <1>7, <1>9, <1>10, PushFacts DEF IsFrame
<1>12. \A g : IsFrame(g, Tail(stack)) => g.t # t /\ IsFrame(g, stack)
  <2> SUFFICES ASSUME NEW g, IsFrame(g, Tail(stack)) PROVE g.t # t /\ IsFrame(g, stack)
    OBVIOUS
  <2>1. PICK k \in DOMAIN Tail(stack) : Tail(stack)[k] = g
    BY DEF IsFrame
  <2>2. k + 1 \in DOMAIN stack /\ stack[k + 1] = g
    BY <1>1, <2>1, PopFacts DEF JobInv
  <2>3. g.t # t
    BY <1>9, <2>1, WithinFacts
  <2> QED BY <2>2, <2>3 DEF IsFrame
<1>13. ASSUME NEW g, IsFrame(g, stack'), g.t = t, t \notin spoilt' PROVE Entered(g)'
  <2>1. g = fr
    BY <1>11, <1>12, <1>13
  <2> QED BY <1>5, <1>8, <1>13, <2>1 DEF Entered, OwnFile, Restorable, Undone, Unmodified
<1>14. \A g : IsFrame(g, stack') /\ g.t # t => IsFrame(g, stack)
  BY <1>7, <1>11, <1>12
<1>15. OthersKept(t)
  BY <1>5, <1>6 DEF OthersKept
<1>16. inside' \ spoilt' # {} => home' = "none" /\ \A a, b \in inside' \ spoilt' : a = b
  BY <1>5 DEF Undoable
<1>17. IsIn(t, Within(stack'))
  BY <1>1, <1>9
<1> QED BY <1>1, <1>3, <1>5, <1>13, <1>14, <1>15, <1>16, <1>17, OneTreeStep

\* A tree is left: it is clean then, or spoilt.
LEMMA TreeIsLeft ==
    ASSUME JobInv, TreeTypes, Undoable, ~Next1("enter"), stack # <<>>, stack' = Tail(stack),
           NEW h \in Frames, h = Head(stack), NEW t \in Trees, t = h.t,
           OthersKept(t), spoilt \subseteq spoilt', inside' \subseteq inside,
           t \notin spoilt' => Clean(t)',
           inside' \ spoilt' # {} => home' = "none" /\ \A a, b \in inside' \ spoilt' : a = b
    PROVE  Undoable'
<1>1. /\ Tail(stack) \in Seq(Frames) /\ ~IsIn(t, Within(Tail(stack)))
      /\ \A u : IsIn(u, Within(stack)) <=> u = t \/ IsIn(u, Within(Tail(stack)))
  BY PopFacts DEF JobInv
<1>2. \A g : IsFrame(g, stack') => g.t # t /\ IsFrame(g, stack)
  <2> SUFFICES ASSUME NEW g, IsFrame(g, Tail(stack)) PROVE g.t # t /\ IsFrame(g, stack)
    OBVIOUS
  <2>1. PICK k \in DOMAIN Tail(stack) : Tail(stack)[k] = g
    BY DEF IsFrame
  <2>2. k + 1 \in DOMAIN stack /\ stack[k + 1] = g
    BY <2>1, PopFacts DEF JobInv
  <2>3. g.t # t
    BY <1>1, <2>1, WithinFacts
  <2> QED BY <2>2, <2>3 DEF IsFrame
<1> QED BY <1>1, <1>2, OneTreeStep

\* What the undone excursions leave in the tree that is left.
LEMMA UndoneIsClean ==
    ASSUME JobInv, TreeTypes, Undoable, stack # <<>>,
           NEW h \in Frames, h = Head(stack), NEW t \in Trees, t = h.t, had' = had,
           file' = [file EXCEPT ![t] = [f \in Excursed |->
                        IF f \in Excursed \ h.ended THEN Undone(t, f) ELSE @[f]]],
           orig' = [orig EXCEPT ![t] = [f \in Excursed |->
                        IF f \in Excursed \ h.ended THEN None ELSE @[f]]],
           mounts' = [mounts EXCEPT ![t] = @ - 1], t \notin spoilt, t \notin inside'
    PROVE  Clean(t)'
<1>1. \A f \in Excursed :
          /\ f \in Excursed \ h.ended /\ Restorable(t, f) => OwnFile(t, f)'
          /\ f \notin Excursed \ h.ended /\ OwnFile(t, f) => OwnFile(t, f)'
  BY UndoGives
<1>2. Entered(h)
  BY PopFacts DEF Undoable, JobInv
<1>3. \A f \in Excursed : OwnFile(t, f)'
  BY <1>1, <1>2 DEF Entered
<1>4. mounts'[t] = 0
  BY <1>2 DEF Entered, TreeTypes
<1> QED BY <1>3, <1>4 DEF Clean

\* The end of a block moves the repository home.
LEMMA LeaveStep ==
    ASSUME JobInv, TreeTypes, Undoable, Leave
    PROVE  Undoable'
<1>1. stack # <<>> /\ ~Next1("enter") /\ stack' = Tail(stack) /\ had' = had
  BY DEF Leave, Leaves, Next1
<1>2. PICK h \in Frames : h = Head(stack)
  BY <1>1, PopFacts DEF JobInv
<1>3. PICK t \in Trees : t = h.t
  BY DEF Frames
<1> DEFINE goes == h.env /\ t \in inside /\ home = "none"
<1>4. /\ file' = [file EXCEPT ![t] = [f \in Excursed |->
                      IF f \in Excursed \ h.ended THEN Undone(t, f) ELSE @[f]]]
      /\ orig' = [orig EXCEPT ![t] = [f \in Excursed |->
                      IF f \in Excursed \ h.ended THEN None ELSE @[f]]]
      /\ mounts' = [mounts EXCEPT ![t] = @ - 1]
  BY <1>2, <1>3 DEF Leave, Undo
<1>5. /\ home' = IF goes THEN "pool" ELSE home
      /\ inside' = IF goes THEN inside \ {t} ELSE inside
      /\ spoilt' = IF goes /\ t \in spoilt THEN spoilt \union inside ELSE spoilt
  BY <1>2, <1>3 DEF Leave
<1>6. t \notin spoilt => (t \in inside => goes)
  <2>1. t \notin spoilt => Entered(h)
    BY <1>1, <1>2, <1>3, PopFacts DEF Undoable, JobInv
  <2> QED BY <1>3, <2>1 DEF Entered, Undoable
<1> HIDE DEF goes
<1>7. spoilt \subseteq spoilt' /\ inside' \subseteq inside
  BY <1>5
<1>8. OthersKept(t)
  BY <1>1, <1>4 DEF OthersKept, TreeTypes
<1>9. t \notin spoilt' => Clean(t)'
  BY <1>1, <1>2, <1>3, <1>4, <1>5, <1>6, <1>7, UndoneIsClean
<1>10. inside' \ spoilt' # {} => home' = "none" /\ \A a, b \in inside' \ spoilt' : a = b
  <2>1. CASE ~goes
    BY <1>5, <2>1 DEF Undoable
  <2>2. CASE goes /\ t \in spoilt
    BY <1>5, <2>2
  <2>3. CASE goes /\ t \notin spoilt
    <3>1. inside \ spoilt \subseteq {t}
      BY <2>3 DEF Undoable, goes
    <3> QED BY <1>5, <2>3, <3>1
  <2> QED BY <2>1, <2>2, <2>3
<1> QED BY <1>1, <1>2, <1>3, <1>7, <1>8, <1>9, <1>10, TreeIsLeft

\* A block that cannot be left in order: its tree is spoilt, or only the repository
\* would have been, which is not in it.
LEMMA LeaveFailsStep ==
    ASSUME JobInv, TreeTypes, Undoable, LeaveFails
    PROVE  Undoable'
<1>1. /\ stack # <<>> /\ ~Next1("enter") /\ stack' = Tail(stack)
      /\ UNCHANGED <<had, home, inside>>
  BY DEF LeaveFails, Leaves, Next1, repovars
<1>2. PICK h \in Frames : h = Head(stack)
  BY <1>1, PopFacts DEF JobInv
<1>3. PICK t \in Trees : t = h.t
  BY DEF Frames
<1>4. \/ /\ file' = [file EXCEPT ![t] = [f \in Excursed |->
                         IF f \in Excursed \ h.ended THEN Undone(t, f) ELSE @[f]]]
         /\ orig' = [orig EXCEPT ![t] = [f \in Excursed |->
                         IF f \in Excursed \ h.ended THEN None ELSE @[f]]]
         /\ mounts' = [mounts EXCEPT ![t] = @ - 1]
         /\ spoilt' = spoilt \union ({t} \intersect inside)
      \/ spoilt' = spoilt \union {t}
  BY <1>2, <1>3 DEF LeaveFails, Undo, Fault
<1>5. OthersKept(t)
  <2>1. \A u \in Trees : u # t => mounts'[u] = mounts[u]
    BY <1>2, <1>3 DEF LeaveFails, TreeTypes
  <2>2. \A u \in Trees : u # t => file'[u] = file[u] /\ orig'[u] = orig[u]
    <3>1. \/ \E fs : Undo(t, fs)
          \/ \E fs, f : UndoBreaks(t, fs, f)
      BY <1>2, <1>3 DEF LeaveFails
    <3>2. CASE \E fs : Undo(t, fs)
      BY <3>2 DEF Undo, TreeTypes
    <3>3. CASE \E fs, f : UndoBreaks(t, fs, f)
      BY <3>3 DEF UndoBreaks, TreeTypes
    <3> QED BY <3>1, <3>2, <3>3
  <2> QED BY <1>1, <2>1, <2>2 DEF OthersKept
<1>6. spoilt \subseteq spoilt'
  BY <1>4
<1>7. t \notin spoilt' => Clean(t)'
  BY <1>1, <1>2, <1>3, <1>4, UndoneIsClean
<1>8. inside' \ spoilt' # {} => home' = "none" /\ \A a, b \in inside' \ spoilt' : a = b
  BY <1>1, <1>6 DEF Undoable
<1> QED BY <1>1, <1>2, <1>3, <1>5, <1>6, <1>7, <1>8, TreeIsLeft

\* A kill spoils the trees that are in use, and no other.
LEMMA KillStep ==
    ASSUME JobInv, TreeTypes, Undoable, Kill
    PROVE  Undoable'
<1>1. /\ UNCHANGED <<file, orig, had, home, inside>> /\ stack' = <<>>
      /\ spoilt' = spoilt \union InUse /\ mounts' \in {mounts, [t \in Trees |-> 0]}
  BY DEF Kill, Fault, repovars
<1>2. ASSUME NEW u \in Trees \ spoilt' PROVE Clean(u)'
  <2>1. ~IsIn(u, Within(stack)) /\ ~(Next1("enter") /\ T = u) /\ u \notin spoilt
    <3>1. stack \in Seq(Frames)
      BY DEF JobInv
    <3> QED BY <1>1, <3>1, WithinFacts DEF InUse
  <2>2. Clean(u) /\ u \notin inside
    BY <2>1 DEF Undoable, Clean
  <2>3. mounts'[u] = 0
    BY <1>1, <2>2 DEF Clean
  <2>4. \A f \in Excursed : OwnFile(u, f)'
    BY <1>1, <2>2, SameFiles DEF Clean
  <2> QED BY <1>1, <2>2, <2>3, <2>4 DEF Clean
<1>3. \A fr : ~IsFrame(fr, stack')
  BY <1>1 DEF IsFrame
<1>4. inside' \ spoilt' # {} => home' = "none" /\ \A a, b \in inside' \ spoilt' : a = b
  BY <1>1 DEF Undoable
<1> QED BY <1>2, <1>3, <1>4, UndoableFrom

\* Every step keeps what can be undone.
LEMMA UndoableNext ==
    ASSUME FullInv, FullInv', JobInv, TreeTypes, Undoable, [Next]_vars
    PROVE  Undoable'
<1>1. CASE UNCHANGED vars \/ Terminating
  BY <1>1 DEF Terminating, vars, treevars, repovars, Undoable, IsIn, Within, Clean, Entered,
     OwnFile, Restorable, Undone, Unmodified, Next1, T
<1>2. CASE RemoveTree \/ Strip \/ Debootstrap
  <2>1. T \in Trees
    <3>1. todo # <<>>
      BY <1>2 DEF RemoveTree, Strip, Debootstrap, Next1
    <3> QED BY <3>1, HeadFits
  <2> QED BY <1>2, <2>1, RemovalSteps
<1> QED BY <1>1, <1>2, OtherSteps, ExtractStep, CommitStep, BorrowStep, EnterStep,
           EnterFailsStep, EndExcursionStep, LeaveStep, LeaveFailsStep, KillStep DEF Next

\* Every step leaves files, mounts and the repository where they can be.
LEMMA TypesNext ==
    ASSUME FullInv, JobInv, JobInv', TreeTypes, [Next]_vars
    PROVE  TreeTypes'
<1> DEFINE Values == {None, Own, Host}
           Files == [Trees -> [Excursed -> Values]]
<1>0. stack' \in Seq([t : Trees, env : BOOLEAN, ended : SUBSET Excursed])
  BY DEF JobInv, Frames
<1>1. CASE UNCHANGED <<mounts, file, orig, had, spoilt>> /\ inside' \subseteq inside
  BY <1>0, <1>1 DEF TreeTypes
<1>2. CASE UNCHANGED vars \/ Terminating
  BY <1>1, <1>2 DEF vars, treevars, repovars, Terminating
<1>3. CASE \/ Start \/ Run \/ Expand \/ End \/ Fail \/ DoWork \/ OpenProjectRepo
           \/ IncludePackage \/ Mkdir \/ DumpVersion \/ SourceCd
  BY <1>1, <1>3 DEF Start, Run, Expand, End, Fail, DoWork, OpenProjectRepo, IncludePackage,
     Mkdir, DumpVersion, SourceCd, treevars, repovars, Rest, Same
<1>4. CASE Kill
  <2>1. mounts' \in [Trees -> Int] /\ UNCHANGED <<file, orig, had, inside>>
    BY <1>4 DEF Kill, TreeTypes, repovars
  <2>2. InUse \subseteq Trees
    <3>1. \A i \in DOMAIN stack : stack[i].t \in Trees
      <4>1. \A i \in DOMAIN stack : IsFrame(stack[i], stack)
        BY DEF IsFrame
      <4> QED BY <4>1, FrameIsIn
    <3>2. Next1("enter") => T \in Trees
      BY HeadFits DEF Next1
    <3> QED BY <3>1, <3>2 DEF InUse
  <2>3. spoilt' \subseteq Trees
    BY <1>4, <2>2 DEF Kill, Fault, TreeTypes
  <2> QED BY <1>0, <2>1, <2>3 DEF TreeTypes
<1>5. ASSUME NEW t \in Trees, t = T,
             \/ RemoveTree \/ Strip \/ Debootstrap \/ Borrow \/ Enter \/ EnterFails
             \/ EndExcursion \/ Commit
      PROVE  TreeTypes'
  <2>1. ASSUME RemovalFails(t) PROVE TreeTypes'
    <3>1. Torn(t) /\ spoilt' = spoilt
      BY <2>1 DEF RemovalFails, Fault, Same
    <3>2. PICK gone \in SUBSET Excursed :
             /\ file' = [file EXCEPT ![t] = [f \in Excursed |-> IF f \in gone THEN None ELSE @[f]]]
             /\ orig' = [orig EXCEPT ![t] = [f \in Excursed |-> IF f \in gone THEN None ELSE @[f]]]
             /\ had' = [had EXCEPT ![t] = @ \ gone]
      BY <3>1 DEF Torn
    <3>3. mounts' = mounts /\ inside' \subseteq inside
      BY <3>1 DEF Torn
    <3> QED BY <1>0, <3>1, <3>2, <3>3 DEF TreeTypes
  <2>2. ASSUME Wiped(t) PROVE TreeTypes'
    BY <1>0, <2>2 DEF Wiped, TreeTypes
  <2>3. CASE RemoveTree
    BY <1>5, <2>1, <2>2, <2>3 DEF RemoveTree
  <2>4. CASE Strip
    <3>1. \/ RemovalFails(t)
          \/ /\ file' = [file EXCEPT ![t] = [f \in Excursed |-> IF f \in Saved THEN None ELSE @[f]]]
             /\ orig' = [orig EXCEPT ![t] = [f \in Excursed |-> None]]
             /\ had' = [had EXCEPT ![t] = {}] /\ UNCHANGED <<mounts, home, inside, spoilt>>
      BY <1>5, <2>4 DEF Strip, repovars, Rest, Same
    <3>2. CASE RemovalFails(t)
      BY <2>1, <3>2
    <3>3. ASSUME ~RemovalFails(t) PROVE TreeTypes'
      <4>1. /\ file' = [file EXCEPT ![t] = [f \in Excursed |-> IF f \in Saved THEN None ELSE @[f]]]
            /\ orig' = [orig EXCEPT ![t] = [f \in Excursed |-> None]]
            /\ had' = [had EXCEPT ![t] = {}] /\ UNCHANGED <<mounts, home, inside, spoilt>>
        BY <3>1, <3>3, Zenon
      <4>2. file' \in [Trees -> [Excursed -> {None, Own, Host}]]
        BY <1>0, <4>1 DEF TreeTypes
      <4>3. orig' \in [Trees -> [Excursed -> {None, Own, Host}]]
        BY <1>0, <4>1 DEF TreeTypes
      <4>4. had' \in [Trees -> SUBSET Saved] /\ UNCHANGED <<mounts, inside, spoilt>>
        BY <1>0, <4>1 DEF TreeTypes
      <4> QED BY <1>0, <4>2, <4>3, <4>4 DEF TreeTypes
    <3> QED BY <3>2, <3>3
  <2>5. CASE Debootstrap
    <3> DEFINE p == "policy-rc.d"
               r == "resolv.conf"
    <3>1. p \in Excursed /\ r \in Excursed
      BY FilesAssumption, Zenon DEF Excursed
    <3> HIDE DEF p, r
    <3>2. \/ Wiped(T) \/ RemovalFails(T)
          \/ UNCHANGED <<mounts, file, orig, had, home, inside, spoilt>>
          \/ /\ file' = [file EXCEPT ![T][p] = Own, ![T][r] = None]
             /\ had' = [had EXCEPT ![T] = @ \ Excursed]
             /\ UNCHANGED <<mounts, orig, home, inside, spoilt>>
      BY <2>5, Zenon DEF Debootstrap, treevars, repovars, Rest, Same, p, r
    <3>3. CASE Wiped(T) \/ RemovalFails(T)
      BY <1>5, <2>1, <2>2, <3>3
    <3>4. CASE UNCHANGED <<mounts, file, orig, had, home, inside, spoilt>>
      BY <1>1, <3>4
    <3>5. CASE /\ file' = [file EXCEPT ![T][p] = Own, ![T][r] = None]
               /\ had' = [had EXCEPT ![T] = @ \ Excursed]
               /\ UNCHANGED <<mounts, orig, home, inside, spoilt>>
      BY <1>0, <1>5, <3>1, <3>5 DEF TreeTypes
    <3> QED BY <3>2, <3>3, <3>4, <3>5
  <2>6. CASE Borrow
    <3>1. inside' \subseteq inside \union {t} /\ UNCHANGED <<mounts, file, orig, had, spoilt>>
      BY <1>5, <2>6 DEF Borrow, repovars, treevars, Rest, Same
    <3> QED BY <1>0, <3>1 DEF TreeTypes
  <2>7. CASE Enter \/ EnterFails
    <3>0. PICK saved, copied : Excurse(T, saved, copied)
      <4>1. CASE Enter
        BY <4>1, Zenon DEF Enter
      <4>2. CASE EnterFails
        BY <4>2, Zenon DEF EnterFails
      <4> QED BY <2>7, <4>1, <4>2
    <3>9. Excurse(t, saved, copied)
      BY <1>5, <3>0
    <3>1. /\ orig' = [orig EXCEPT ![t] = [f \in Excursed |->
                 IF f \in saved \intersect Saved /\ file[t][f] # None THEN file[t][f] ELSE @[f]]]
          /\ file' = [file EXCEPT ![t] = [f \in Excursed |->
                 IF f \in copied \intersect HostHas THEN Host
                 ELSE IF f \in saved \intersect Saved THEN None ELSE @[f]]]
      BY <3>9, Zenon DEF Excurse
    <3>2. /\ mounts' \in {mounts, [mounts EXCEPT ![t] = @ + 1]} /\ UNCHANGED <<had, inside>>
          /\ spoilt' \subseteq spoilt \union {t}
      BY <1>5, <2>7 DEF Enter, EnterFails, Fault, repovars, Rest, Same
    <3> QED BY <1>0, <3>1, <3>2 DEF TreeTypes
  <2>8. CASE EndExcursion
    <3> DEFINE fs == {"resolv.conf"} \ Head(stack).ended
    <3>1. /\ file' = [file EXCEPT ![T] = [f \in Excursed |->
                        IF f \in fs THEN Undone(T, f) ELSE @[f]]]
          /\ orig' = [orig EXCEPT ![T] = [f \in Excursed |-> IF f \in fs THEN None ELSE @[f]]]
          /\ UNCHANGED <<mounts, had, home, inside, spoilt>>
      BY <2>8, Zenon DEF EndExcursion, Undo, repovars, Rest, Same
    <3> HIDE DEF fs
    <3> QED BY <1>0, <1>5, <3>1 DEF TreeTypes, Undone
  <2>9. CASE Commit
    <3>1. PICK written : /\ file' = [file EXCEPT ![t] = [f \in Excursed |->
                                       IF f \in written THEN Own ELSE @[f]]]
                         /\ had' = [had EXCEPT ![t] = @ \union written]
                         /\ written \subseteq Saved /\ UNCHANGED <<mounts, orig, inside, spoilt>>
      BY <1>5, <2>9 DEF Commit, repovars, Rest, Same
    <3> QED BY <1>0, <3>1 DEF TreeTypes
  <2> QED BY <1>5, <2>3, <2>4, <2>5, <2>6, <2>7, <2>8, <2>9
<1>6. CASE \/ RemoveTree \/ Strip \/ Debootstrap \/ Borrow \/ Enter \/ EnterFails
           \/ EndExcursion \/ Commit
  <2>1. todo # <<>>
    BY <1>6 DEF RemoveTree, Strip, Debootstrap, Borrow, Enter, EnterFails, Enters, EndExcursion,
                Commit, Next1
  <2> QED BY <1>5, <1>6, <2>1, HeadFits
<1>7. CASE Extract
  <2>1. /\ file' = [file EXCEPT !["target"] = file["chroot"]]
        /\ orig' = [orig EXCEPT !["target"] = orig["chroot"]]
        /\ had' = [had EXCEPT !["target"] = had["chroot"]] /\ UNCHANGED <<mounts, inside>>
        /\ spoilt' \subseteq spoilt \union {"target"}
    BY <1>7 DEF Extract, repovars
  <2>2. "chroot" \in Trees /\ "target" \in Trees
    BY DEF Trees
  <2> QED BY <1>0, <2>1, <2>2 DEF TreeTypes
<1>8. CASE Leave \/ LeaveFails
  <2>1. PICK h \in Frames : h = Head(stack)
    BY <1>8, PopFacts DEF JobInv, Leave, LeaveFails, Leaves
  <2>2. PICK t \in Trees : t = h.t
    BY DEF Frames
  <2>3. /\ mounts' \in {mounts, [mounts EXCEPT ![t] = @ - 1]} /\ had' = had
        /\ inside' \subseteq inside /\ spoilt' \subseteq spoilt \union {t} \union inside
    BY <1>8, <2>1, <2>2 DEF Leave, LeaveFails, Fault, repovars
  <2>4. \/ \E fs : Undo(t, fs)
        \/ \E fs, f : UndoBreaks(t, fs, f)
    BY <1>8, <2>1, <2>2 DEF Leave, LeaveFails
  <2>5. CASE \E fs : Undo(t, fs)
    BY <1>0, <2>3, <2>5 DEF Undo, TreeTypes, Undone
  <2>6. CASE \E fs, f : UndoBreaks(t, fs, f)
    BY <1>0, <2>3, <2>6 DEF UndoBreaks, TreeTypes, Undone
  <2> QED BY <2>4, <2>5, <2>6
<1> QED BY <1>2, <1>3, <1>4, <1>6, <1>7, <1>8 DEF Next

\* The two invariants together.
LEMMA TreeInitKeeps == Init => TreeInv
<1> SUFFICES ASSUME Init PROVE TreeInv
  OBVIOUS
<1>1. TreeTypes
  BY DEF Init, TreeTypes
<1>2. Nested(stack, todo)
  BY NothingIsNested DEF Init
<1>3. Undoable
  BY FilesAssumption DEF Init, Undoable, Clean, OwnFile
<1> QED BY <1>1, <1>2, <1>3 DEF Init, TreeInv

\* Every step keeps the invariant.
LEMMA TreeNext ==
    ASSUME FullInv, FullInv', TreeInv, [Next]_vars
    PROVE  TreeInv'
<1>1. JobInv /\ TreeTypes /\ Undoable
  BY DEF TreeInv, JobInv, Once, TreeTypes, Frames
<1>2. JobInv'
  BY <1>1, JobNext
<1>3. TreeTypes'
  BY <1>1, <1>2, TypesNext
<1>4. Undoable'
  BY <1>1, UndoableNext
<1> QED BY <1>2, <1>3, <1>4 DEF TreeInv, JobInv, Once

\* Both invariants hold.
LEMMA TreeInvHolds == Spec => [](FullInv /\ TreeInv)
<1>1. Init => FullInv /\ TreeInv
  BY FullInitKeeps, TreeInitKeeps
<1>2. FullInv /\ TreeInv /\ [Next]_vars => (FullInv /\ TreeInv)'
  BY FullNext, TreeNext
<1> QED BY <1>1, <1>2, PTL DEF Spec

\* Whichever command of a job fails, a tree that nobody works in is left as it
\* was: unmounted, with its own files, without the repository; but for the trees
\* that a kill, or a failure on the way in or out, has hit.
THEOREM TreeLeftCleanHolds == Spec => []TreeLeftClean
<1>1. TreeInv => TreeLeftClean
  <2> SUFFICES ASSUME TreeInv, NEW t \in Trees, t \notin spoilt, t \notin InUse
               PROVE  /\ mounts[t] = 0 /\ t \notin inside
                      /\ \A f \in Excursed : file[t][f] # Host /\ orig[t][f] = None
                      /\ \A f \in had[t] : file[t][f] = Own
    BY DEF TreeLeftClean
  <2>1. ~IsIn(t, Within(stack))
    <3>1. stack \in Seq(Frames)
      BY DEF TreeInv, TreeTypes, Frames
    <3> QED BY <3>1, WithinFacts DEF InUse
  <2>2. Clean(t)
    BY <2>1 DEF TreeInv, Undoable
  <2>3. t \notin inside
    BY <2>2 DEF Clean, InUse
  <2>4. had[t] \subseteq Excursed
    BY DEF TreeInv, TreeTypes, Excursed
  <2> QED BY <2>2, <2>3, <2>4 DEF Clean, OwnFile
<1> QED BY <1>1, TreeInvHolds, PTL

\* A tree that a job is about to remove or strip is not mounted to and does not hold
\* the repository, unless a kill or a failure on the way in or out has hit it.
THEOREM RemovedUnusedHolds == Spec => []RemovedUnused
<1>1. FullInv /\ TreeInv => RemovedUnused
  <2> SUFFICES ASSUME FullInv, TreeInv, Removing, T \notin spoilt
               PROVE  mounts[T] = 0 /\ T \notin inside
    BY DEF RemovedUnused
  <2>1. JobInv
    BY DEF TreeInv, JobInv, Once, TreeTypes, Frames
  <2>2. todo # <<>> /\ Head(todo).op \in {"rmtree", "strip", "debootstrap"} /\ ~Next1("enter")
    BY DEF Removing, Next1
  <2>3. Fits(Head(todo), Within(stack)) /\ T \in Trees
    BY <2>1, <2>2, HeadFits
  <2>4. ~IsIn(T, Within(stack))
    BY <2>2, <2>3 DEF Fits, T
  <2>5. Clean(T)
    BY <2>3, <2>4 DEF TreeInv, Undoable
  <2> QED BY <2>2, <2>5 DEF Clean
<1> QED BY <1>1, TreeInvHolds, PTL
=============================================================================
