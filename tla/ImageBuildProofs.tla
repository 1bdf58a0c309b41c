--------------------------- MODULE ImageBuildProofs --------------------------
(***************************************************************************)
(* Theorems about DiskImage and ImageBuild, for every set of recipes that  *)
(* the schema admits: what was written to a disk is not damaged by what is *)
(* written later, what a finished build lists for download exists, and     *)
(* every file is moved to its own file system and back.                    *)
(***************************************************************************)
EXTENDS ImageBuild, FiniteSetTheorems, SequenceTheorems, WellFoundedInduction, TLAPS

-----------------------------------------------------------------------------
(* Lists of names.                                                         *)

\* A set that is made a list keeps its elements, each of them once.
LEMMA SetToSeqFacts ==
    ASSUME NEW S, IsFiniteSet(S)
    PROVE  /\ SetToSeq(S) \in Seq(S)
           /\ ToSet(SetToSeq(S)) = S
           /\ IsInjective(SetToSeq(S))
<1> DEFINE n == Cardinality(S)
<1>1. n \in Nat /\ ExistsBijection(1..n, S)
  BY FS_CardinalityType
<1>2. PICK f \in [1..n -> S] : IsInjective(f)
  BY <1>1 DEF ExistsBijection, Bijection, Injection
<1>3. SetToSeq(S) \in [1..n -> S] /\ IsInjective(SetToSeq(S))
  BY <1>2 DEF SetToSeq
<1>4. SetToSeq(S) \in Surjection(1..n, S)
  <2>1. IsFiniteSet(1..n) /\ Cardinality(1..n) = n
    BY <1>1, FS_Interval
  <2>2. SetToSeq(S) \in Injection(1..n, S)
    BY <1>3 DEF Injection
  <2> QED BY <2>1, <2>2, FS_Injection
<1>5. ToSet(SetToSeq(S)) = S
  BY <1>3, <1>4 DEF ToSet, Surjection
<1> QED BY <1>1, <1>3, <1>5

\* Concatenation, element by element.
LEMMA ConcatFacts ==
    ASSUME NEW S, NEW a \in Seq(S), NEW b \in Seq(S)
    PROVE  /\ a \o b \in Seq(S)
           /\ Len(a) \in Nat /\ Len(b) \in Nat
           /\ Len(a \o b) = Len(a) + Len(b)
           /\ \A i \in 1..Len(a) : (a \o b)[i] = a[i]
           /\ \A i \in 1..Len(b) : (a \o b)[Len(a) + i] = b[i]
OBVIOUS

\* A list of what is in T.
LEMMA SeqNarrow ==
    ASSUME NEW S, NEW T, NEW s \in Seq(S), ToSet(s) \subseteq T
    PROVE  s \in Seq(T)
<1>1. Len(s) \in Nat /\ DOMAIN s = 1..Len(s) /\ s \in [1..Len(s) -> S]
  BY LenProperties
<1>2. \A i \in 1..Len(s) : s[i] \in T
  BY <1>1 DEF ToSet
<1>3. s \in [1..Len(s) -> T]
  BY <1>1, <1>2
<1>4. \A n \in Nat : [1..n -> T] \subseteq Seq(T)
  BY SeqDef
<1> QED BY <1>1, <1>3, <1>4

\* What a list is made of.
LEMMA SeqIsSeq ==
    ASSUME NEW V, NEW s \in Seq(V)
    PROVE  IsSeq(s)
<1>1. Len(s) \in Nat /\ DOMAIN s = 1..Len(s) /\ s = [k \in 1..Len(s) |-> s[k]]
  OBVIOUS
<1>2. \A k \in 1..Len(s) : s[k] \in ToSet(s)
  BY <1>1 DEF ToSet
<1>3. s \in Seq(ToSet(s))
  BY <1>1, <1>2
<1> QED BY <1>3 DEF IsSeq

\* Every set of numbers has a least element.
LEMMA NatLeast ==
    ASSUME NEW N \in SUBSET Nat, N # {}
    PROVE  \E m \in N : \A k \in N : m <= k
<1> DEFINE R == OpToRel(<, Nat)
<1>1. IsWellFoundedOn(R, Nat)
  BY NatLessThanWellFounded
<1>2. \A x, y \in Nat : x < y => <<x, y>> \in R
  BY DEF OpToRel
<1> HIDE DEF R
<1>3. PICK m \in N : \A k \in N : <<k, m>> \notin R
  BY <1>1, WFMin
<1>4. \A k \in N : k \in Nat /\ m \in Nat
  OBVIOUS
<1>5. ASSUME NEW k \in N PROVE m <= k
  <2>1. ~(k < m)
    BY <1>2, <1>3, <1>4
  <2> QED BY <1>4, <2>1
<1> QED BY <1>5

\* list.append: a name that is on the list already is there again.
More(W, s, e) == IF e \in ToSet(s) THEN W \union {e} ELSE W
LEMMA AppendFacts ==
    ASSUME NEW S, NEW s \in Seq(S), NEW e \in S, NEW W, Once(s, W)
    PROVE  /\ Append(s, e) \in Seq(S)
           /\ ToSet(Append(s, e)) = ToSet(s) \union {e}
           /\ Once(Append(s, e), More(W, s, e))
<1> DEFINE t == Append(s, e)
           V == More(W, s, e)
<1>1. /\ t \in Seq(S) /\ Len(s) \in Nat /\ DOMAIN s = 1..Len(s) /\ DOMAIN t = 1..(Len(s) + 1)
      /\ \A i \in 1..Len(s) : t[i] = s[i]
      /\ t[Len(s) + 1] = e
  OBVIOUS
<1> HIDE DEF t
<1>2. ToSet(t) = ToSet(s) \union {e}
  <2>1. ToSet(t) \subseteq ToSet(s) \union {e}
    BY <1>1 DEF ToSet
  <2>2. ASSUME NEW x \in ToSet(s) PROVE x \in ToSet(t)
    <3>1. PICK i \in 1..Len(s) : x = s[i]
      BY <1>1 DEF ToSet
    <3> QED BY <1>1, <3>1 DEF ToSet
  <2>3. e \in ToSet(t)
    <3>1. Len(s) + 1 \in DOMAIN t
      BY <1>1
    <3> QED BY <1>1, <3>1 DEF ToSet
  <2> QED BY <2>1, <2>2, <2>3
<1>3. ASSUME NEW j \in DOMAIN t, NEW k \in DOMAIN t, t[j] = t[k], t[j] \notin V PROVE j = k
  <2>1. W \subseteq V /\ (e \in ToSet(s) => e \in V)
    BY DEF More
  <2> HIDE DEF V
  <2>2. CASE j \in 1..Len(s) /\ k \in 1..Len(s)
    <3>1. s[j] = s[k] /\ s[j] \notin W
      BY <1>1, <1>3, <2>1, <2>2
    <3> QED BY <1>1, <2>2, <3>1 DEF Once
  <2>3. CASE (j \in 1..Len(s) /\ k = Len(s) + 1) \/ (k \in 1..Len(s) /\ j = Len(s) + 1)
    <3>1. e \in ToSet(s) /\ t[j] = e
      BY <1>1, <1>3, <2>3 DEF ToSet
    <3> QED BY <1>3, <2>1, <3>1
  <2>4. /\ j \in 1..Len(s) \/ j = Len(s) + 1
        /\ k \in 1..Len(s) \/ k = Len(s) + 1
    BY <1>1
  <2> QED BY <2>2, <2>3, <2>4
<1>4. Once(t, V)
  BY <1>3 DEF Once
<1> QED BY <1>1, <1>2, <1>4 DEF t

\* list.remove: one entry goes, the others stay; with an element that was there once
\* the last one goes.
LEMMA RemoveFirstFacts ==
    ASSUME NEW S, NEW s \in Seq(S), NEW e \in ToSet(s), NEW W, Once(s, W)
    PROVE  /\ RemoveFirst(s, e) \in Seq(S)
           /\ ToSet(RemoveFirst(s, e)) \subseteq ToSet(s)
           /\ e \notin W => e \notin ToSet(RemoveFirst(s, e))
           /\ Once(RemoveFirst(s, e), W)
<1> DEFINE I == {i \in 1..Len(s) : s[i] = e}
<1>n. Len(s) \in Nat /\ DOMAIN s = 1..Len(s)
  OBVIOUS
<1>1. I \in SUBSET Nat /\ I # {}
  BY <1>n DEF ToSet
<1>2. \E m \in I : \A i \in I : m <= i
  BY <1>1, NatLeast
<1>3. Min(I) \in I
  <2> HIDE DEF I
  <2> QED BY <1>2 DEF Min
<1>4. PICK k \in 1..Len(s) : s[k] = e /\ k = Min(I)
  BY <1>3
<1>5. SelectInSeq(s, LAMBDA v : v = e) = k
  BY <1>1, <1>4 DEF SelectInSeq
<1>6. RemoveFirst(s, e) = SubSeq(s, 1, k - 1) \o SubSeq(s, k + 1, Len(s))
  BY <1>4, <1>5 DEF RemoveFirst, RemoveAt
<1>9. k \in Nat /\ 1 <= k /\ k <= Len(s)
  BY <1>4, <1>n
<1> HIDE DEF I
<1> DEFINE a == SubSeq(s, 1, k - 1)
           b == SubSeq(s, k + 1, Len(s))
           r == a \o b
<1>7. /\ a \in Seq(S) /\ Len(a) = k - 1 /\ \A i \in 1..(k - 1) : a[i] = s[i]
      /\ b \in Seq(S) /\ Len(b) = Len(s) - k /\ \A i \in 1..(Len(s) - k) : b[i] = s[k + i]
  OBVIOUS
<1> HIDE DEF a, b
<1>8. /\ r \in Seq(S) /\ Len(r) = Len(a) + Len(b)
      /\ \A i \in 1..Len(a) : r[i] = a[i]
      /\ \A i \in 1..Len(b) : r[Len(a) + i] = b[i]
  <2>1. a \in Seq(S) /\ b \in Seq(S)
    BY <1>7
  <2>2. ASSUME NEW c \in Seq(S), NEW d \in Seq(S)
        PROVE  /\ c \o d \in Seq(S) /\ Len(c \o d) = Len(c) + Len(d)
               /\ \A i \in 1..Len(c) : (c \o d)[i] = c[i]
               /\ \A i \in 1..Len(d) : (c \o d)[Len(c) + i] = d[i]
    BY ConcatFacts
  <2> QED BY <2>1, <2>2, Zenon
<1> HIDE DEF r
<1> DEFINE old(i) == IF i < k THEN i ELSE i + 1
<1>10. DOMAIN r = 1..(Len(s) - 1) /\ \A i \in DOMAIN r : old(i) \in DOMAIN s \ {k} /\ r[i] = s[old(i)]
  <2>1. Len(r) = Len(s) - 1
    BY <1>7, <1>8, <1>9, <1>n
  <2>2. ASSUME NEW i \in 1..(Len(s) - 1) PROVE r[i] = s[old(i)]
    <3>1. CASE i < k
      <4>1. i \in 1..(k - 1)
        BY <1>9, <3>1
      <4> QED BY <1>7, <1>8, <3>1, <4>1
    <3>2. CASE ~(i < k)
      <4>1. PICK m \in Int : m = i - (k - 1)
        BY <1>9
      <4>2. m \in 1..(Len(s) - k) /\ (k - 1) + m = i /\ k + m = i + 1
        BY <1>9, <1>n, <3>2, <4>1
      <4>3. r[(k - 1) + m] = b[m] /\ b[m] = s[k + m]
        BY <1>7, <1>8, <4>2
      <4> QED BY <3>2, <4>2, <4>3
    <3> QED BY <3>1, <3>2
  <2>3. DOMAIN r = 1..Len(r)
    BY <1>8
  <2>4. \A i \in 1..(Len(s) - 1) : old(i) \in 1..Len(s) /\ old(i) # k
    BY <1>9, <1>n
  <2> QED BY <1>n, <2>1, <2>2, <2>3, <2>4
<1>11. \A i, j \in DOMAIN r : old(i) = old(j) => i = j
  BY <1>9, <1>10
<1> HIDE DEF old
<1>12. ToSet(r) \subseteq ToSet(s)
  BY <1>10 DEF ToSet
<1>13. ASSUME e \notin W PROVE e \notin ToSet(r)
  <2> SUFFICES ASSUME NEW i \in DOMAIN r, r[i] = e PROVE FALSE
    BY DEF ToSet
  <2>1. s[old(i)] = s[k] /\ old(i) \in DOMAIN s /\ k \in DOMAIN s /\ old(i) # k
    BY <1>4, <1>10, <1>n
  <2> QED BY <1>4, <1>13, <2>1 DEF Once
<1>14. Once(r, W)
  <2> SUFFICES ASSUME NEW i \in DOMAIN r, NEW j \in DOMAIN r, r[i] = r[j], r[i] \notin W
               PROVE  i = j
    BY DEF Once
  <2>1. s[old(i)] = s[old(j)] /\ s[old(i)] \notin W /\ old(i) \in DOMAIN s /\ old(j) \in DOMAIN s
    BY <1>10
  <2>2. old(i) = old(j)
    BY <2>1 DEF Once
  <2> QED BY <1>11, <2>2
<1>15. r \in Seq(S)
  BY <1>8
<1> QED BY <1>6, <1>12, <1>13, <1>14, <1>15 DEF r, a, b

\* A list and its last entry.
LEMMA AppendEntries ==
    ASSUME NEW S, NEW s \in Seq(S), NEW e \in S
    PROVE  /\ DOMAIN s = 1..Len(s) /\ Len(s) \in Nat
           /\ DOMAIN Append(s, e) = 1..(Len(s) + 1)
           /\ \A n \in DOMAIN s : Append(s, e)[n] = s[n]
           /\ Append(s, e)[Len(s) + 1] = e
OBVIOUS

\* The elements of a list are finitely many.
LEMMA ToSetFinite ==
    ASSUME NEW S, NEW s \in Seq(S)
    PROVE  IsFiniteSet(ToSet(s))
<1>1. s \in Surjection(1..Len(s), ToSet(s))
  BY DEF Surjection, ToSet
<1>2. IsFiniteSet(1..Len(s))
  BY FS_Interval
<1> QED BY <1>1, <1>2, FS_Surjection

\* The volumes of a flash device make finitely many files.
LEMMA NamesFinite ==
    ASSUME NEW F, IsFiniteSet(F)
    PROVE  /\ IsFiniteSet({v.label : v \in F})
           /\ IsFiniteSet({<<l, "ubifs">> : l \in F})
           /\ IsFiniteSet({<<v.label, "ubibin">> : v \in F})
<1>1. [v \in F |-> v.label] \in Surjection(F, {v.label : v \in F})
  BY DEF Surjection
<1>2. [l \in F |-> <<l, "ubifs">>] \in Surjection(F, {<<l, "ubifs">> : l \in F})
  BY DEF Surjection
<1>3. [v \in F |-> <<v.label, "ubibin">>] \in Surjection(F, {<<v.label, "ubibin">> : v \in F})
  BY DEF Surjection
<1> QED BY <1>1, <1>2, <1>3, FS_Surjection

\* A label of the recipe names an entry of its fstab.
LEMMA EntryFacts ==
    ASSUME recipe \in Recipes, NEW l \in Labels
    PROVE  Entry(l) \in DOMAIN fstab
<1> DEFINE D == DOMAIN fstab
           n == Len(fstab)
           N == {n - i : i \in {k \in D : fstab[k].label = l}}
<1>1. fstab \in Seq(ToSet(fstab))
  BY RecipesAssumption DEF IsSeq, fstab
<1>2. D = 1..n /\ n \in Nat
  BY <1>1
<1> HIDE DEF n
<1>3. N \in SUBSET Nat /\ N # {}
  BY <1>2 DEF Labels
<1>4. PICK m \in N : \A k \in N : m <= k
  BY <1>3, NatLeast
<1>5. PICK i \in D : fstab[i].label = l /\ m = n - i
  OBVIOUS
<1>6. ASSUME NEW j \in D, fstab[j].label = l PROVE j <= i
  <2>1. m <= n - j
    BY <1>4, <1>6
  <2> QED BY <1>2, <1>5, <2>1
<1>7. \E k \in D : fstab[k].label = l /\ \A j \in D : fstab[j].label = l => j <= k
  BY <1>5, <1>6
<1> QED BY <1>7 DEF Entry

-----------------------------------------------------------------------------
(* The disks.                                                              *)

\* The image at hand is one of the recipe.
LEMMA ImageFacts ==
    ASSUME recipe \in Recipes, img \in Nat \ {0}, img <= Len(recipe.images)
    PROVE  /\ img \in DOMAIN recipe.images
           /\ IF Image.tag = "mtd" THEN IsSeq(Image.vols) ELSE IsDisk(Image)
<1>1. recipe.images \in Seq(ToSet(recipe.images))
  BY RecipesAssumption DEF IsSeq
<1>2. img \in DOMAIN recipe.images
  BY <1>1
<1> QED BY <1>2, RecipesAssumption DEF Image

\* The partition at hand, and where it goes.
LEMMA PartFacts ==
    ASSUME DiskInv, pc = "part", pos <= Len(Image.parts)
    PROVE  /\ pos \in DOMAIN Image.parts /\ Part.tag \in PartTags
           /\ Image.size \in Nat /\ Start \in Nat /\ Limit \in Nat /\ Length \in Int
           /\ Limit <= Image.size
           /\ "binary" \in DOMAIN Part => Part.binary \in Nat
           /\ Logical => InExtended
<1>1. IsDisk(Image)
  BY ImageFacts DEF DiskInv
<1>2. pos \in DOMAIN Image.parts
  <2>1. Image.parts \in Seq(ToSet(Image.parts)) /\ pos \in Nat /\ pos > 0
    BY <1>1 DEF IsDisk, IsSeq, DiskInv
  <2> QED BY <2>1
<1>3. Logical => InExtended
  BY <1>1, <1>2 DEF Logical, Part, InExtended, IsDisk
<1>4. Image.size \in Nat /\ Start \in Nat /\ Limit \in Nat /\ Limit <= Image.size
  BY <1>1, <1>3, SectorsAssumption DEF Start, Limit, DiskInv, IsDisk
<1>5. Length \in Int
  BY <1>1, <1>2, <1>4, SectorsAssumption DEF Length, Part, IsDisk
<1> QED BY <1>1, <1>2, <1>3, <1>4, <1>5 DEF Part, IsDisk

\* The geometry of a partition in the table.
LEMMA TableFacts ==
    ASSUME NEW T \in Seq([tag : PartTags, start : Int, end : Int, used : Nat]),
           NEW n \in DOMAIN T
    PROVE  T[n].start \in Int /\ T[n].end \in Int /\ T[n].used \in Nat
<1>1. n \in 1..Len(T)
  OBVIOUS
<1>2. T[n] \in [tag : PartTags, start : Int, end : Int, used : Nat]
  BY <1>1, ElementOfSeq
<1> QED BY <1>2

\* A partition that is accepted ends on the disk, and starts behind everything
\* that was written.
LEMMA AddFacts ==
    ASSUME DiskInv, pc = "part", pos <= Len(Image.parts), AddToTable
    PROVE  /\ Start + Length <= Image.size /\ Length > 0
           /\ \A n \in DOMAIN table : table[n].used > 0 => table[n].end <= Start
           /\ table' = Append(table, [tag |-> Part.tag, start |-> Start, end |-> Start + Length,
                                      used |-> Used])
           /\ pos' = pos + 1 /\ Used \in Nat /\ Used <= Length
           /\ HasContent /\ ~Has(Part, "binary") => PartImage(Length) \in Nat /\ Used <= PartImage(Length)
<1>1. Start + Length <= Image.size /\ Length > 0
  BY PartFacts, SectorsAssumption DEF AddToTable, Accepted
<1>2. \A n \in DOMAIN table : table[n].used > 0 => table[n].end <= Start
  <2>1. CASE Logical
    <3>1. ext.sector \in Nat /\ Start = ext.sector + Gap
      BY <2>1, PartFacts DEF DiskInv, Start
    <3>2. \A n \in DOMAIN table : table[n].end \in Int
      BY TableFacts DEF DiskInv
    <3>3. \A n \in DOMAIN table : table[n].used > 0 => table[n].end <= ext.sector
      BY <2>1, PartFacts DEF DiskInv
    <3> QED BY <3>1, <3>2, <3>3, SectorsAssumption
  <2>2. CASE ~Logical
    BY <2>2 DEF DiskInv, Start
  <2> QED BY <2>1, <2>2
<1>3. Length \in Nat
  BY <1>1, PartFacts
<1>4. ASSUME HasContent, ~Has(Part, "binary") PROVE PartImage(Length) \in Nat
  <2>1. recipe \in Recipes /\ Part.label \in Labels
    BY <1>4 DEF DiskInv, HasContent
  <2>2. Entry(Part.label) \in DOMAIN recipe.fstab
    BY <2>1, EntryFacts DEF fstab
  <2>3. Has(fstab[Entry(Part.label)], "packed") => fstab[Entry(Part.label)].packed \in Nat
    BY <2>1, <2>2, RecipesAssumption DEF fstab, Has
  <2> QED BY <1>3, <2>3 DEF PartImage
<1>5. /\ Used \in Nat /\ Used <= Length
      /\ HasContent /\ ~Has(Part, "binary") => Used <= PartImage(Length)
  <2> DEFINE L == PartImage(Length)
             C == HasContent /\ ~Has(Part, "binary")
  <2>1. Used = IF ~C THEN 0 ELSE IF L <= Length THEN L ELSE Length
    BY DEF Used
  <2>2. C => L \in Nat
    BY <1>4
  <2> HIDE DEF L, C
  <2>3. Used \in Nat /\ Used <= Length /\ (C => Used <= L)
    BY <1>3, <2>1, <2>2
  <2> QED BY <2>3 DEF L, C
<1> QED BY <1>1, <1>2, <1>4, <1>5 DEF AddToTable

\* The entry AddToTable makes.
Entry1 == [tag |-> Part.tag, start |-> Start, end |-> Start + Length, used |-> Used]

\* A new partition keeps the invariant, whatever is written to the disk.
LEMMA AddKeeps ==
    ASSUME DiskInv, pc = "part", pos <= Len(Image.parts), AddToTable,
           UNCHANGED <<recipe, pc, img>>,
           DOMAIN disk' = DOMAIN disk,
           DOMAIN disk'[Image.name] = DOMAIN disk[Image.name]
    PROVE  DiskInv'
<1>i. Image' = Image
  BY DEF Image
<1>1. /\ table' = Append(table, Entry1) /\ Start + Length <= Image.size /\ Length > 0
      /\ \A n \in DOMAIN table : table[n].used > 0 => table[n].end <= Start
  BY AddFacts DEF Entry1
<1>2. Start \in Nat /\ Length \in Int /\ Limit \in Nat /\ Image.size \in Nat /\ Limit <= Image.size
  BY PartFacts
<1>3. Entry1 \in [tag : PartTags, start : Int, end : Int, used : Nat]
  BY <1>2, AddFacts, PartFacts DEF Entry1
<1>4. /\ table \in Seq([tag : PartTags, start : Int, end : Int, used : Nat])
      /\ table' \in Seq([tag : PartTags, start : Int, end : Int, used : Nat])
      /\ DOMAIN table = 1..Len(table) /\ Len(table) \in Nat
      /\ DOMAIN table' = 1..(Len(table) + 1) /\ Len(table') = Len(table) + 1
      /\ \A n \in DOMAIN table : table'[n] = table[n]
      /\ table'[Len(table) + 1] = Entry1
  BY <1>1, <1>3, SMTT(30) DEF DiskInv
<1>5. /\ sector' \in Nat /\ sector <= sector' /\ sector \in Nat
      /\ Start + Length <= sector'
  <2>1. CASE ~Logical
    BY <1>1, <1>2, <2>1 DEF AddToTable, Start, DiskInv
  <2>2. CASE Logical
    <3>1. ext.end \in Nat /\ ext.end <= sector /\ sector \in Nat /\ sector' = sector /\ Limit = ext.end
      BY <2>2, PartFacts DEF AddToTable, DiskInv, Limit
    <3>2. Start + Length <= ext.end
      BY <1>2, <3>1, SectorsAssumption, SMTT(30) DEF AddToTable, Accepted
    <3> QED BY <1>2, <3>1, <3>2
  <2> QED BY <2>1, <2>2
<1>6. ASSUME NEW n \in DOMAIN table', table'[n].used > 0
      PROVE  /\ 0 <= table'[n].start /\ table'[n].start + table'[n].used <= table'[n].end
             /\ table'[n].end <= sector' /\ table'[n].end <= Image.size
             /\ table'[n].end <= Start + Length
  <2>1. CASE n \in DOMAIN table
    <3>1. table'[n] = table[n] /\ table[n].end \in Int
      BY <1>4, <2>1, TableFacts
    <3>2. /\ 0 <= table[n].start /\ table[n].end <= Start /\ table[n].end <= Image.size
          /\ table[n].start + table[n].used <= table[n].end
      BY <1>1, <1>6, <2>1, <3>1 DEF DiskInv
    <3> QED BY <1>1, <1>2, <1>5, <3>1, <3>2
  <2>2. CASE n \notin DOMAIN table
    <3>1. table'[n] = Entry1
      BY <1>4, <2>2
    <3>2. Entry1.start = Start /\ Entry1.end = Start + Length /\ Entry1.used = Used
      BY DEF Entry1
    <3>3. Used \in Nat /\ Used <= Length
      BY AddFacts
    <3> QED BY <1>1, <1>2, <1>5, <3>1, <3>2, <3>3
  <2> QED BY <2>1, <2>2
<1>7. ASSUME Part.tag \in {"extended", "logical"}
      PROVE  /\ ext' \in [sector : Nat, end : Nat]
             /\ ext'.end <= sector' /\ ext'.end <= Image.size
             /\ \A n \in DOMAIN table' : table'[n].used > 0 => table'[n].end <= ext'.sector
  <2>1. CASE Logical
    <3>1. /\ ext \in [sector : Nat, end : Nat] /\ ext.end <= sector /\ ext.end <= Image.size
          /\ ext' = [ext EXCEPT !.sector = Start + Length]
      BY <2>1, PartFacts DEF AddToTable, DiskInv
    <3> QED BY <1>2, <1>1, <1>5, <1>6, <3>1, SMTT(30)
  <2>2. CASE ~Logical
    <3>1. /\ ext' = [sector |-> Start, end |-> Start + Length]
          /\ Entry1.used = 0
      BY <1>7, <2>2 DEF AddToTable, Logical, Entry1, HasContent, Used
    <3>2. \A n \in DOMAIN table' : table'[n].used > 0 => table'[n].end <= Start
      BY <1>1, <1>4, <3>1
    <3> QED BY <1>1, <1>2, <1>5, <3>1, <3>2
  <2> QED BY <2>1, <2>2
<1>8. InExtended' => Part.tag \in {"extended", "logical"}
  <2>1. pos' = pos + 1 /\ pos \in Nat
    BY DEF AddToTable, DiskInv
  <2> QED BY <1>i, <2>1 DEF InExtended, Part
<1>9. pos' = Len(table') + 1
  BY <1>4 DEF AddToTable, DiskInv
<1> QED BY <1>i, <1>4, <1>5, <1>6, <1>7, <1>8, <1>9 DEF DiskInv

\* A step that is not about the disk at hand.
LEMMA DiskFrame ==
    ASSUME DiskInv, WrittenKept, UNCHANGED <<recipe, img, pos, sector, ext, table, disk>>,
           pc' \in {"part", "grub"} => pc \in {"part", "grub"}
    PROVE  DiskInv' /\ WrittenKept'
<1>1. Image' = Image /\ (InExtended' <=> InExtended)
  BY DEF Image, InExtended
<1> QED BY <1>1 DEF DiskInv, WrittenKept

\* A step after which no disk is at hand.
LEMMA DiskDone ==
    ASSUME DiskInv, recipe' = recipe, img' \in {img, img + 1, 1}, pc' \notin {"part", "grub"}
    PROVE  DiskInv' /\ WrittenKept'
BY DEF DiskInv, WrittenKept

\* What is written for the new partition starts behind what was written before.
LEMMA WriteKeeps ==
    ASSUME DiskInv, WrittenKept, pc = "part", pos <= Len(Image.parts), AddToTable,
           UNCHANGED <<recipe, pc, img>>,
           NEW len \in Int,
           disk' = [disk EXCEPT ![Image.name] = Written(disk[Image.name], Start, len, pos)],
           Used > 0 => Used <= len
    PROVE  DiskInv' /\ WrittenKept'
<1>i. Image' = Image
  BY DEF Image
<1>1. /\ table' = Append(table, Entry1) /\ Start + Length <= Image.size /\ Length > 0
      /\ \A n \in DOMAIN table : table[n].used > 0 => table[n].end <= Start
  BY AddFacts DEF Entry1
<1>2. Start \in Nat /\ Length \in Int /\ Image.size \in Nat
  BY PartFacts
<1>3. /\ Image.name \in DOMAIN disk /\ DOMAIN disk[Image.name] = 0..(Image.size - 1)
      /\ table \in Seq([tag : PartTags, start : Int, end : Int, used : Nat])
      /\ pos = Len(table) + 1
  BY DEF DiskInv
<1>4. /\ DOMAIN disk' = DOMAIN disk
      /\ disk'[Image.name] = Written(disk[Image.name], Start, len, pos)
      /\ DOMAIN disk'[Image.name] = DOMAIN disk[Image.name]
  BY <1>3 DEF Written
<1>5. \A s \in 0..(Image.size - 1) :
          disk'[Image.name][s] = IF Start <= s /\ s < Start + len THEN pos ELSE disk[Image.name][s]
  BY <1>3, <1>4 DEF Written
<1>6. /\ DOMAIN table = 1..Len(table) /\ Len(table) \in Nat
      /\ DOMAIN table' = 1..(Len(table) + 1)
      /\ \A n \in DOMAIN table : table'[n] = table[n]
      /\ table'[Len(table) + 1] = Entry1
  <2>1. Entry1 \in [tag : PartTags, start : Int, end : Int, used : Nat]
    BY <1>2, AddFacts, PartFacts DEF Entry1
  <2> DEFINE E == [tag : PartTags, start : Int, end : Int, used : Nat]
  <2>2. table \in Seq(E) /\ Entry1 \in E
    BY <1>3, <2>1
  <2> HIDE DEF E
  <2>3. /\ DOMAIN table = 1..Len(table) /\ Len(table) \in Nat
        /\ DOMAIN Append(table, Entry1) = 1..(Len(table) + 1)
        /\ \A n \in DOMAIN table : Append(table, Entry1)[n] = table[n]
        /\ Append(table, Entry1)[Len(table) + 1] = Entry1
    BY <2>2, AppendEntries, Zenon
  <2> QED BY <1>1, <2>3, Zenon
<1>7. DiskInv'
  BY <1>4, AddKeeps
<1>8. ASSUME NEW n \in DOMAIN table',
             NEW s \in table'[n].start..(table'[n].start + table'[n].used - 1)
      PROVE  disk'[Image.name][s] = n
  <2>1. CASE n \in DOMAIN table
    <3>1. /\ table'[n] = table[n]
          /\ table[n].start \in Int /\ table[n].end \in Int /\ table[n].used \in Nat
      BY <1>3, <1>6, <2>1, TableFacts
    <3>2. table[n].used > 0
      BY <1>8, <3>1
    <3>3. /\ 0 <= table[n].start /\ table[n].end <= Start /\ table[n].end <= Image.size
          /\ table[n].start + table[n].used <= table[n].end
      BY <1>1, <2>1, <3>2 DEF DiskInv
    <3>4. /\ s \in Int /\ 0 <= s /\ s < Start /\ s < Image.size
          /\ s \in table[n].start..(table[n].start + table[n].used - 1)
      <4>1. s \in table[n].start..(table[n].start + table[n].used - 1)
        BY <1>8, <3>1
      <4>2. s \in Int /\ table[n].start <= s /\ s <= table[n].start + table[n].used - 1
        BY <3>1, <4>1
      <4>3. /\ Start \in Int /\ Image.size \in Int /\ table[n].start \in Int
            /\ table[n].end \in Int /\ table[n].used \in Int
        BY <1>2, <3>1
      <4> QED BY ONLY <3>3, <4>1, <4>2, <4>3
    <3>5. s \in 0..(Image.size - 1) /\ ~(Start <= s)
      BY <1>2, <3>4
    <3>6. disk'[Image.name][s] = disk[Image.name][s]
      BY <1>5, <3>5
    <3> QED BY <2>1, <3>4, <3>6 DEF WrittenKept
  <2>2. CASE n \notin DOMAIN table
    <3>1. n = pos /\ table'[n] = Entry1
      BY <1>3, <1>6, <2>2
    <3>2. Entry1.start = Start /\ Entry1.used = Used
      BY DEF Entry1
    <3>3. s \in Start..(Start + Used - 1)
      <4>1. table'[n].start = Start /\ table'[n].used = Used
        BY <3>1, <3>2
      <4> QED BY <4>1
    <3>4. Used \in Nat /\ Used <= Length
      BY AddFacts
    <3>5. s \in Int /\ Start <= s /\ s < Start + len /\ s \in 0..(Image.size - 1)
      BY <1>1, <1>2, <3>3, <3>4
    <3> QED BY <1>5, <3>1, <3>5
  <2> QED BY <2>1, <2>2
<1> QED BY <1>i, <1>7, <1>8 DEF WrittenKept

\* A partition without content damages nothing either.
LEMMA EmptyKeeps ==
    ASSUME DiskInv, WrittenKept, CreateEmpty
    PROVE  DiskInv' /\ WrittenKept'
<1>i. Image' = Image
  BY DEF CreateEmpty, Image
<1>0. pc = "part" /\ pos <= Len(Image.parts) /\ ~HasContent /\ AddToTable /\ UNCHANGED <<recipe, pc, img, disk>>
  BY DEF CreateEmpty
<1>1. table' = Append(table, Entry1) /\ Entry1.used = 0
  BY <1>0, AddFacts DEF Entry1, Used
<1>2. \A n \in DOMAIN table' : table'[n].used # 0 => n \in DOMAIN table /\ table'[n] = table[n]
  <2>1. Entry1 \in [tag : PartTags, start : Int, end : Int, used : Nat]
    BY <1>0, AddFacts, PartFacts DEF Entry1
  <2>2. table \in Seq([tag : PartTags, start : Int, end : Int, used : Nat])
    BY <1>0 DEF DiskInv
  <2> QED BY <1>1, <2>1, <2>2
<1>3. DiskInv'
  BY <1>0, AddKeeps
<1>4. ASSUME NEW n \in DOMAIN table',
             NEW s \in table'[n].start..(table'[n].start + table'[n].used - 1)
      PROVE  disk'[Image.name][s] = n
  <2>1. table' \in Seq([tag : PartTags, start : Int, end : Int, used : Nat])
    BY <1>0, <1>3, Zenon DEF DiskInv
  <2>2. table'[n].start \in Int /\ table'[n].used \in Nat
    BY <2>1, TableFacts
  <2>3. table'[n].used # 0
    BY <1>4, <2>2
  <2>4. n \in DOMAIN table /\ s \in table[n].start..(table[n].start + table[n].used - 1)
    BY <1>2, <1>4, <2>3
  <2> QED BY <1>0, <2>4 DEF WrittenKept
<1> QED BY <1>i, <1>0, <1>3, <1>4 DEF WrittenKept

\* Every step of do_hdimg keeps the disks.
LEMMA DoHdimgKeeps ==
    ASSUME DiskInv, WrittenKept, DoHdimg
    PROVE  DiskInv' /\ WrittenKept'
<1>1. CASE StartDisk
  <2>1. /\ recipe' = recipe /\ img' = img /\ img <= Len(recipe.images) /\ Image.tag # "mtd"
        /\ disk' = Put(disk, Image.name, [s \in 0..(Image.size - 1) |-> 0])
        /\ table' = <<>> /\ pos' = 1 /\ sector' = Image.first
    BY <1>1 DEF StartDisk
  <2>2. Image' = Image /\ ~InExtended'
    BY <2>1 DEF Image, InExtended
  <2>3. Image.first \in Nat
    BY <2>1, ImageFacts DEF DiskInv, IsDisk
  <2>4. Image.name \in DOMAIN disk' /\ DOMAIN disk'[Image.name] = 0..(Image.size - 1)
    BY <2>1 DEF Put
  <2>5. /\ table' \in Seq([tag : PartTags, start : Int, end : Int, used : Nat])
        /\ DOMAIN table' = {} /\ pos' = Len(table') + 1
    BY <2>1
  <2> QED BY <2>1, <2>2, <2>3, <2>4, <2>5 DEF DiskInv, WrittenKept
<1>2. CASE CreateEmpty
  BY <1>2, EmptyKeeps
<1>3. CASE CreateBinary
  <2>1. Part.binary \in Int
    BY <1>3, PartFacts DEF CreateBinary, Has
  <2>2. Used = 0
    BY <1>3 DEF CreateBinary, Used
  <2>3. /\ pc = "part" /\ pos <= Len(Image.parts) /\ AddToTable /\ UNCHANGED <<recipe, pc, img>>
        /\ disk' = [disk EXCEPT ![Image.name] = Written(disk[Image.name], Start, Part.binary, pos)]
    BY <1>3 DEF CreateBinary
  <2>4. Used > 0 => Used <= Part.binary
    BY <2>2
  <2> QED BY <2>1, <2>3, <2>4, WriteKeeps
<1>4. CASE CreateLabel
  <2>1. /\ pc = "part" /\ pos <= Len(Image.parts) /\ AddToTable /\ UNCHANGED <<recipe, pc, img>>
        /\ geom' = Put(geom, Part.label, [offset |-> Start, size |-> Length])
        /\ disk' = [disk EXCEPT ![Image.name] =
                       Written(disk[Image.name], geom'[Part.label].offset,
                               PartImage(geom'[Part.label].size), pos)]
        /\ HasContent /\ ~Has(Part, "binary")
    BY <1>4 DEF CreateLabel, SetGeometry
  <2>2. geom'[Part.label].offset = Start /\ geom'[Part.label].size = Length
    BY <2>1 DEF Put
  <2>3. disk' = [disk EXCEPT ![Image.name] = Written(disk[Image.name], Start, PartImage(Length), pos)]
    BY <2>1, <2>2
  <2>4. PartImage(Length) \in Int /\ Used <= PartImage(Length)
    BY <2>1, AddFacts
  <2> QED BY <2>1, <2>3, <2>4, WriteKeeps
<1>5. CASE CommitDisk \/ GrubMount
  <2>1. \/ UNCHANGED <<recipe, img, pos, sector, ext, table, disk>> /\ pc \in {"part", "grub"}
        \/ recipe' = recipe /\ img' = img + 1 /\ pc' = "image"
    BY <1>5 DEF CommitDisk, GrubMount
  <2> QED BY <2>1, DiskFrame, DiskDone
<1>6. ASSUME \/ MoveOut \/ MkfsMtd \/ PartitionFails \/ GrubLeave \/ GrubRaises \/ EndImages
             \/ MoveBack \/ BuildMtd \/ SkipImage \/ StartBlobs \/ ReturnImages
      PROVE  DiskInv' /\ WrittenKept'
  <2>1. recipe' = recipe /\ img' \in {img, img + 1, 1} /\ pc' \notin {"part", "grub"}
    BY <1>6 DEF MoveOut, MkfsMtd, PartitionFails, GrubLeave, GrubRaises, EndImages, Raise,
                MoveBack, BuildMtd, SkipImage, StartBlobs, ReturnImages
  <2> QED BY <2>1, DiskDone, SMTT(30)
<1>7. CASE AddBlobs
  <2>1. recipe' = recipe /\ img' \in {img, img + 1, 1} /\ pc' \notin {"part", "grub"}
    BY <1>7 DEF AddBlobs
  <2> QED BY <2>1, DiskDone, SMTT(30)
<1> QED BY <1>1, <1>2, <1>3, <1>4, <1>5, <1>6, <1>7 DEF DoHdimg

\* No disk is at hand when a build starts.
LEMMA DiskInit == InitBuild => DiskInv /\ WrittenKept
BY DEF InitBuild, Init, DiskInv, WrittenKept

\* Neither do_hdimg nor what comes after it damages a file system.
LEMMA DiskNext ==
    ASSUME DiskInv, WrittenKept, [Next]_vars
    PROVE  DiskInv' /\ WrittenKept'
<1>1. CASE DoHdimg
  BY <1>1, DoHdimgKeeps
<1>2. ASSUME UNCHANGED diskRest, pc' \in {"part", "grub"} => pc \in {"part", "grub"}
      PROVE  DiskInv' /\ WrittenKept'
  BY <1>2, DiskFrame DEF diskRest
<1>3. CASE MakeArchive
  BY <1>2, <1>3 DEF MakeArchive
<1>4. CASE RmArtifact \/ ImgConvert \/ PackImage
  <2>1. UNCHANGED diskRest /\ (pc' = pc \/ pc' = "notlisted")
    BY <1>4 DEF RmArtifact, ImgConvert, PackImage, Finetune
  <2> QED BY <1>2, <2>1
<1>5. CASE TakeImages \/ EndArchives \/ FinetuningRaises \/ ChangeContent \/ SetPacker
           \/ ExtractPartition \/ CopyFromPartition \/ Artifact \/ EndFinetuning \/ EndPack
           \/ UNCHANGED vars
  BY <1>2, <1>5 DEF TakeImages, EndArchives, FinetuningRaises, ChangeContent, SetPacker,
         ExtractPartition, CopyFromPartition, Artifact, EndFinetuning, EndPack, Finetune,
         vars, diskvars, diskRest
<1> QED BY <1>1, <1>3, <1>4, <1>5 DEF Next

\* On every disk of every recipe of the schema what a file system has inside of its
\* partition stays until the blobs of the recipe, which may lie anywhere, are added: no later
\* partition, no logical partition, and no binary or packed file system that is longer
\* than its own partition touches it.
THEOREM WrittenKeptHolds == Spec => []WrittenKept
<1> QED BY DiskInit, DiskNext, PTL DEF Spec

-----------------------------------------------------------------------------
(* The list of artifacts.                                                  *)

\* The volumes of a flash device are finitely many.
LEMMA VolumeFacts ==
    ASSUME recipe \in Recipes, img \in Nat \ {0}, img <= Len(recipe.images), Image.tag = "mtd"
    PROVE  IsFiniteSet(ToSet(Image.vols))
BY ImageFacts, ToSetFinite DEF IsSeq

\* A list whose names have files, and what is listed of a list of them.
LEMMA ListedFacts ==
    ASSUME NEW s, NEW F
    PROVE  IsSeq(s) /\ ToSet(s) \subseteq F <=> s \in Seq(F)
<1>1. ASSUME IsSeq(s), ToSet(s) \subseteq F PROVE s \in Seq(F)
  BY <1>1, SeqMonotonic DEF IsSeq
<1>2. ASSUME s \in Seq(F) PROVE IsSeq(s) /\ ToSet(s) \subseteq F
  <2>1. \A n \in DOMAIN s : s[n] \in F
    BY <1>2
  <2> QED BY <1>2, <2>1, SeqIsSeq DEF ToSet
<1> QED BY <1>1, <1>2

\* A step of do_hdimg that lists only files of the build directory.
LEMMA ListBuilding ==
    ASSUME ListInv, pc \in Building, UNCHANGED <<recipe, twice>>,
           img' \in {img, img + 1, 1}, pc' \in Building \union {"failed"},
           images' \in Seq(files'),
           pc' \in {"part", "grub"} =>
               img' = img /\ img <= Len(recipe.images) /\ Image.name \in files'
    PROVE  ListInv'
<1>1. img' = img => Image' = Image
  BY DEF Image
<1>2. IsSeq(images') /\ Listed' \subseteq files'
  BY ListedFacts DEF Listed
<1> QED BY <1>1, <1>2 DEF ListInv, Building

\* What is new is added to files and list.
LEMMA ListMore ==
    ASSUME images \in Seq(files), NEW made, IsFiniteSet(made)
    PROVE  images \o SetToSeq(made) \in Seq(files \union made)
<1>1. images \in Seq(files \union made)
  BY SeqMonotonic
<1>2. SetToSeq(made) \in Seq(files \union made)
  BY SetToSeqFacts, SeqMonotonic
<1> QED BY <1>1, <1>2, ConcatFacts

\* Every step of do_hdimg keeps the list.
LEMMA ListDoHdimg ==
    ASSUME ListInv, DoHdimg, UNCHANGED artifactvars
    PROVE  ListInv'
<1>a. UNCHANGED twice /\ recipe \in Recipes /\ img \in Nat \ {0}
  BY DEF artifactvars, ListInv
<1>b. pc \in Building => images \in Seq(files)
  BY ListedFacts DEF ListInv, Listed
<1>c. pc \in {"part", "grub"} => img <= Len(recipe.images) /\ Image.name \in files
  BY DEF ListInv
<1>1. ASSUME UNCHANGED <<recipe, files, images>>, pc \in Building, pc' \in Building \union {"failed"},
             img' \in {img, img + 1, 1},
             pc' \in {"part", "grub"} => pc \in {"part", "grub"} /\ img' = img
      PROVE  ListInv'
  BY <1>1, <1>a, <1>b, <1>c, ListBuilding
<1>2. CASE MoveOut \/ PartitionFails \/ GrubMount \/ GrubRaises \/ EndImages
  BY <1>1, <1>2 DEF MoveOut, PartitionFails, GrubMount, GrubRaises, Raise, EndImages, Building
<1>3. CASE MoveBack \/ AddBlobs \/ SkipImage \/ StartBlobs
  <2>1. /\ UNCHANGED <<recipe, files, images>> /\ pc \in Building /\ img' \in {img, img + 1, 1}
        /\ pc' \in Building \union {"failed"} /\ pc' \notin {"part", "grub"}
    BY <1>3 DEF MoveBack, AddBlobs, SkipImage, StartBlobs, Building
  <2> QED BY <1>1, <2>1
<1>4. CASE CreateEmpty \/ CreateBinary \/ CreateLabel
  <2>1. UNCHANGED <<recipe, files, images, img, pc>> /\ pc = "part"
    BY <1>4 DEF CreateEmpty, CreateBinary, CreateLabel
  <2> QED BY <1>1, <2>1 DEF Building
<1>5. CASE CommitDisk \/ GrubLeave
  <2>1. /\ UNCHANGED <<recipe, files>> /\ pc \in {"part", "grub"} /\ pc' \in {"image", "grub"}
        /\ \/ images' = images /\ img' = img
           \/ images' = Append(images, Image.name) /\ img' = img + 1 /\ pc' = "image"
    BY <1>5 DEF CommitDisk, GrubLeave
  <2>2. images' \in Seq(files')
    <3>1. images \in Seq(files) /\ Image.name \in files
      BY <1>b, <1>c, <2>1 DEF Building
    <3>2. Append(images, Image.name) \in Seq(files)
      BY <3>1
    <3> QED BY <2>1, <3>1, <3>2
  <2> QED BY <1>a, <1>b, <1>c, <2>1, <2>2, ListBuilding DEF Building
<1>6. CASE StartDisk
  <2>1. /\ UNCHANGED <<recipe, img, images>> /\ pc \in Building /\ pc' = "part" /\ img <= Len(recipe.images)
        /\ files' = files \union {Image.name}
    BY <1>6 DEF StartDisk, Building
  <2>2. images' \in Seq(files')
    BY <1>b, <2>1, SeqMonotonic
  <2> QED BY <1>a, <2>1, <2>2, ListBuilding DEF Building
<1>7. CASE MkfsMtd
  <2>1. /\ UNCHANGED <<recipe, pc>> /\ pc = "image" /\ img' = img + 1
        /\ img <= Len(recipe.images) /\ Image.tag = "mtd"
    BY <1>7 DEF MkfsMtd
  <2> DEFINE V == {x \in ToSet(Image.vols) : x.kind = "fs" /\ x.label \in Labels}
  <2>2. PICK ok \in SUBSET {v.label : v \in V} :
            LET made == {<<l, "ubifs">> : l \in ok}
            IN  files' = files \union made /\ images' = images \o SetToSeq(made)
    BY <1>7 DEF MkfsMtd
  <2> DEFINE made == {<<l, "ubifs">> : l \in ok}
  <2>3. IsFiniteSet(ToSet(Image.vols)) /\ V \subseteq ToSet(Image.vols)
    BY <1>a, <2>1, VolumeFacts
  <2>4. IsFiniteSet(V)
    BY <2>3, FS_Subset
  <2>5. IsFiniteSet({v.label : v \in V})
    <3> HIDE DEF V
    <3> QED BY <2>4, NamesFinite
  <2>6. IsFiniteSet(made)
    <3>1. IsFiniteSet(ok)
      BY <2>5, FS_Subset
    <3>2. IsFiniteSet({<<l, "ubifs">> : l \in ok})
      BY <3>1, NamesFinite, Zenon
    <3> QED BY <3>2
  <2>8. files' = files \union made /\ images' = images \o SetToSeq(made)
    BY <2>2
  <2> HIDE DEF made
  <2>9. images' \in Seq(files')
    BY <1>b, <2>1, <2>6, <2>8, ListMore DEF Building
  <2> QED BY <1>a, <2>1, <2>9, ListBuilding DEF Building
<1>8. CASE BuildMtd
  <2>1. /\ UNCHANGED recipe /\ pc = "ubinize" /\ img <= Len(recipe.images) /\ Image.tag = "mtd"
    BY <1>8 DEF BuildMtd
  <2>2. CASE failed' = TRUE /\ pc' = "failed" /\ UNCHANGED <<files, images, img>>
    BY <1>1, <2>1, <2>2 DEF Building
  <2>3. ASSUME NEW made \in SUBSET {Image.name},
               files' = files \union Ubibins \union made,
               images' = images \o SetToSeq(Ubibins) \o SetToSeq(made),
               img' = img + 1, UNCHANGED pc
        PROVE  ListInv'
    <3> DEFINE B == {x \in ToSet(Image.vols) : x.kind = "binary"}
    <3>1. IsFiniteSet(B)
      <4>1. IsFiniteSet(ToSet(Image.vols)) /\ B \subseteq ToSet(Image.vols)
        BY <1>a, <2>1, VolumeFacts
      <4> QED BY <4>1, FS_Subset
    <3>2. IsFiniteSet(Ubibins)
      <4>1. Ubibins = {<<v.label, "ubibin">> : v \in B}
        BY DEF Ubibins
      <4> HIDE DEF B
      <4> QED BY <3>1, <4>1, NamesFinite
    <3>4. IsFiniteSet(made)
      BY FS_Singleton, FS_Subset
    <3>5. images \o SetToSeq(Ubibins) \in Seq(files \union Ubibins)
      BY <1>b, <2>1, <3>2, ListMore DEF Building
    <3>6. images \o SetToSeq(Ubibins) \in Seq(files')
      BY <2>3, <3>5, SeqMonotonic
    <3>7. SetToSeq(made) \in Seq(files')
      BY <2>3, <3>4, SetToSeqFacts, SeqMonotonic
    <3>8. images' \in Seq(files')
      BY <2>3, <3>6, <3>7, ConcatFacts
    <3> QED BY <1>a, <2>1, <2>3, <3>8, ListBuilding DEF Building
  <2> QED BY <1>8, <2>2, <2>3 DEF BuildMtd
<1>9. CASE ReturnImages
  <2>1. /\ UNCHANGED <<recipe, img, files>> /\ pc \in Building /\ pc' = "archives"
        /\ images' = SetToSeq(ToSet(images))
    BY <1>9 DEF ReturnImages, Building
  <2>2. images \in Seq(files) /\ IsFiniteSet(ToSet(images)) /\ ToSet(images) \subseteq files
    BY <1>b, <2>1, ListedFacts, ToSetFinite
  <2>3. images' \in Seq(ToSet(images)) /\ ToSet(images') = ToSet(images) /\ IsInjective(images')
    BY <2>1, <2>2, SetToSeqFacts
  <2>4. IsSeq(images') /\ Listed' \subseteq files' /\ Once(images', twice')
    BY <2>1, <2>2, <2>3, SeqIsSeq DEF Listed, Once, IsInjective
  <2> QED BY <1>a, <2>1, <2>4 DEF ListInv, Building
<1> QED BY <1>2, <1>3, <1>4, <1>5, <1>6, <1>7, <1>8, <1>9 DEF DoHdimg

\* A later step that keeps the list in order.
LEMMA ListStay ==
    ASSUME ListInv, UNCHANGED <<recipe, img>>, pc' \notin Building, Listed' \ twice' \subseteq files',
           IsSeq(images'), Once(images', twice')
    PROVE  ListInv'
BY DEF ListInv, Building

\* A step that leaves the list alone.
LEMMA ListSame ==
    ASSUME ListInv, UNCHANGED <<recipe, img, files, images, twice>>, pc' \notin Building,
           pc' \in {"archives", "finetuning", "pack"} => pc \in {"archives", "finetuning", "pack"}
    PROVE  ListInv'
BY DEF ListInv, Building, Listed

\* One more name, which has a file.
LEMMA ListOneMore ==
    ASSUME NEW list, IsSeq(list), NEW W, Once(list, W),
           NEW G, ToSet(list) \ W \subseteq G, NEW e \in G
    PROVE  /\ IsSeq(Append(list, e)) /\ Once(Append(list, e), More(W, list, e))
           /\ ToSet(Append(list, e)) \ More(W, list, e) \subseteq G
<1> DEFINE S == ToSet(list) \union {e}
<1>1. list \in Seq(S) /\ e \in S
  BY SeqMonotonic DEF IsSeq
<1>2. /\ Append(list, e) \in Seq(S) /\ ToSet(Append(list, e)) = ToSet(list) \union {e}
      /\ Once(Append(list, e), More(W, list, e))
  <2> HIDE DEF S
  <2> QED BY <1>1, AppendFacts
<1>3. IsSeq(Append(list, e))
  BY <1>2, SeqIsSeq
<1>4. S \ More(W, list, e) \subseteq G
  BY DEF More
<1> QED BY <1>2, <1>3, <1>4

\* One name less.
LEMMA ListOneLess ==
    ASSUME NEW list, IsSeq(list), NEW W, Once(list, W), NEW e \in ToSet(list)
    PROVE  /\ IsSeq(RemoveFirst(list, e)) /\ Once(RemoveFirst(list, e), W)
           /\ ToSet(RemoveFirst(list, e)) \subseteq ToSet(list)
           /\ e \notin W => e \notin ToSet(RemoveFirst(list, e))
BY RemoveFirstFacts, SeqIsSeq DEF IsSeq

\* Every step of the finetuning keeps the list.
LEMMA ListFinetuning ==
    ASSUME ListInv,
           \/ FinetuningRaises \/ ChangeContent \/ RmArtifact \/ ImgConvert \/ SetPacker
           \/ ExtractPartition \/ CopyFromPartition \/ Artifact
    PROVE  ListInv'
<1>a. pc = "finetuning" /\ UNCHANGED <<recipe, img>>
  BY DEF FinetuningRaises, ChangeContent, RmArtifact, ImgConvert, SetPacker,
         ExtractPartition, CopyFromPartition, Artifact, Finetune, diskRest
<1>b. IsSeq(images) /\ Once(images, twice) /\ ToSet(images) \ twice \subseteq files
  BY <1>a DEF ListInv, Listed
<1>1. CASE FinetuningRaises \/ ChangeContent \/ SetPacker
  <2>1. UNCHANGED <<recipe, img, files, images, twice>> /\ pc' \in {"failed", "finetuning"}
    BY <1>1, <1>a DEF FinetuningRaises, ChangeContent, SetPacker
  <2> QED BY <1>a, <2>1, ListSame DEF Building
<1>2. CASE RmArtifact
  <2>1. PICK x \in ToSet(images) : images' = RemoveFirst(images, x)
    BY <1>2 DEF RmArtifact, Listed
  <2>2. UNCHANGED <<files, twice, pc>>
    BY <1>2 DEF RmArtifact
  <2>3. IsSeq(images') /\ Once(images', twice) /\ ToSet(images') \subseteq ToSet(images)
    BY <1>b, <2>1, ListOneLess
  <2> QED BY <1>a, <1>b, <2>2, <2>3, ListStay DEF Listed, Building
<1>3. CASE ImgConvert
  <2>1. PICK src \in ToSet(images), dst \in Names \union ToSet(images) :
            /\ files' = files \union {dst}
            /\ twice' = More(twice, images, dst)
            /\ images' = Append(images, dst) \/ images' = RemoveFirst(Append(images, dst), src)
    BY <1>3, Zenon DEF ImgConvert, Listed, More
  <2>2. pc' = pc
    BY <1>3 DEF ImgConvert
  <2> DEFINE more == Append(images, dst)
  <2>3. ToSet(images) \ twice \subseteq files' /\ dst \in files'
    BY <1>b, <2>1
  <2>4. IsSeq(more) /\ Once(more, twice') /\ ToSet(more) \ twice' \subseteq files'
    <3>1. /\ IsSeq(more) /\ Once(more, More(twice, images, dst))
          /\ ToSet(more) \ More(twice, images, dst) \subseteq files'
      BY ONLY <1>b, <2>3, ListOneMore
    <3> QED BY ONLY <2>1, <3>1
  <2>5. src \in ToSet(more)
    <3>1. PICK n \in DOMAIN images : images[n] = src
      BY DEF ToSet
    <3>2. images \in Seq(ToSet(images))
      BY <1>b DEF IsSeq
    <3>3. n \in DOMAIN more /\ more[n] = src
      BY <3>1, <3>2
    <3> QED BY <3>3 DEF ToSet
  <2> HIDE DEF more
  <2>6. /\ IsSeq(RemoveFirst(more, src)) /\ Once(RemoveFirst(more, src), twice')
        /\ ToSet(RemoveFirst(more, src)) \subseteq ToSet(more)
    BY <2>4, <2>5, ListOneLess
  <2>7. images' = more \/ images' = RemoveFirst(more, src)
    BY <2>1 DEF more
  <2>8. IsSeq(images') /\ Once(images', twice') /\ ToSet(images') \ twice' \subseteq files'
    BY <2>4, <2>6, <2>7
  <2> QED BY <1>a, <2>2, <2>8, ListStay DEF Listed, Building
<1>4. CASE ExtractPartition \/ CopyFromPartition \/ Artifact
  <2>1. PICK x : /\ files' = files \union {x} /\ Listing(images, x)
                 /\ pc' = pc
    <3>1. CASE ExtractPartition
      BY <3>1 DEF ExtractPartition
    <3>2. CASE CopyFromPartition
      BY <3>2 DEF CopyFromPartition
    <3>3. CASE Artifact
      <4>1. PICK x \in files : Listing(images, x)
        BY <3>3 DEF Artifact
      <4>2. files' = files \union {x} /\ pc' = pc
        BY <3>3, <4>1 DEF Artifact
      <4> QED BY <4>1, <4>2
    <3> QED BY <1>4, <3>1, <3>2, <3>3
  <2>2. ToSet(images) \ twice \subseteq files' /\ x \in files'
    BY <1>b, <2>1
  <2>3. /\ images' = Append(images, x)
        /\ twice' = More(twice, images, x)
    BY <2>1 DEF Listing, More
  <2>4. IsSeq(images') /\ Once(images', twice') /\ ToSet(images') \ twice' \subseteq files'
    <3>1. /\ IsSeq(Append(images, x)) /\ Once(Append(images, x), More(twice, images, x))
          /\ ToSet(Append(images, x)) \ More(twice, images, x) \subseteq files'
      BY ONLY <1>b, <2>2, ListOneMore
    <3> QED BY ONLY <2>3, <3>1
  <2> QED BY <1>a, <2>1, <2>4, ListStay DEF Listed, Building
<1> QED BY <1>1, <1>2, <1>3, <1>4

\* pack_images puts the archive in the place of the image.
LEMMA ListPackImage ==
    ASSUME ListInv, PackImage
    PROVE  ListInv'
<1>a. pc = "pack" /\ UNCHANGED <<recipe, img>>
  BY DEF PackImage, diskRest
<1>b. IsSeq(images) /\ Once(images, twice) /\ ToSet(images) \ twice \subseteq files
  BY <1>a DEF ListInv, Listed
<1>1. PICK x \in DOMAIN packers :
          \/ pc' = "notlisted" /\ UNCHANGED <<files, images, twice>>
          \/ x \in ToSet(images) /\ PackFile(x, packers[x]) /\ UNCHANGED pc
  BY DEF PackImage, Listed
<1>2. CASE pc' = "notlisted" /\ UNCHANGED <<files, images, twice>>
  BY <1>a, <1>2, ListSame DEF Building
<1>3. CASE x \in ToSet(images) /\ PackFile(x, packers[x]) /\ UNCHANGED pc
  <2> DEFINE rest == RemoveFirst(images, x)
             e == Packed(x, packers[x])
  <2>1. /\ IsSeq(rest) /\ Once(rest, twice) /\ ToSet(rest) \subseteq ToSet(images)
        /\ x \notin twice => x \notin ToSet(rest)
    BY <1>b, <1>3, ListOneLess
  <2>2. \/ Listing(rest, e) /\ files' = (files \ {x}) \union {e}
        \/ images' = rest /\ files' \in {files, files \ {x}} /\ UNCHANGED twice
    BY <1>3 DEF PackFile
  <2> HIDE DEF rest, e
  <2>3. ToSet(rest) \ twice \subseteq files \ {x}
    BY <1>b, <2>1
  <2>4. CASE Listing(rest, e) /\ files' = (files \ {x}) \union {e}
    <3>1. /\ images' = Append(rest, e)
          /\ twice' = More(twice, rest, e)
      BY <2>4 DEF Listing, More
    <3>2. ToSet(rest) \ twice \subseteq files' /\ e \in files'
      BY <2>3, <2>4
    <3>3. IsSeq(images') /\ Once(images', twice') /\ ToSet(images') \ twice' \subseteq files'
      <4>1. /\ IsSeq(Append(rest, e)) /\ Once(Append(rest, e), More(twice, rest, e))
            /\ ToSet(Append(rest, e)) \ More(twice, rest, e) \subseteq files'
        BY ONLY <2>1, <3>2, ListOneMore
      <4> QED BY ONLY <3>1, <4>1
    <3> QED BY <1>a, <1>3, <3>3, ListStay DEF Listed, Building
  <2>5. CASE images' = rest /\ files' \in {files, files \ {x}} /\ UNCHANGED twice
    BY <1>a, <1>3, <2>1, <2>3, <2>5, ListStay DEF Listed, Building
  <2> QED BY <2>2, <2>4, <2>5
<1> QED BY <1>1, <1>2, <1>3

\* The list is in order when a build starts.
LEMMA ListInit == InitBuild => ListInv
<1> SUFFICES ASSUME InitBuild PROVE ListInv
  OBVIOUS
<1>1. /\ recipe \in Recipes /\ img = 1 /\ images = <<>> /\ files = {} /\ twice = {}
      /\ pc \in {"archives", "moveout"}
  BY DEF InitBuild, Init
<1>2. IsSeq(images) /\ Listed = {} /\ Once(images, twice)
  BY <1>1 DEF IsSeq, Once, Listed, ToSet
<1> QED BY <1>1, <1>2 DEF ListInv, Building

\* Every step of a build keeps the list in order.
LEMMA ListNext ==
    ASSUME ListInv, [Next]_vars
    PROVE  ListInv'
<1>1. CASE DoHdimg /\ UNCHANGED artifactvars
  BY <1>1, ListDoHdimg
<1>2. CASE TakeImages \/ EndArchives \/ EndFinetuning \/ EndPack
  <2>1. /\ UNCHANGED <<recipe, img, files, images, twice>>
        /\ pc \in {"archives", "finetuning", "pack"}
        /\ pc' \in {"archives", "finetuning", "pack", "done"}
    BY <1>2 DEF TakeImages, EndArchives, EndFinetuning, EndPack, diskvars, diskRest, artifactvars
  <2> QED BY <2>1, ListSame DEF Building
<1>3. CASE MakeArchive
  <2>1. UNCHANGED <<recipe, img, pc>> /\ pc = "archives"
    BY <1>3 DEF MakeArchive, diskRest
  <2>2. CASE UNCHANGED <<files, images, twice>>
    BY <2>1, <2>2, ListSame DEF Building
  <2>3. CASE files' = files \union {recipe.archives[archive]} /\ Listing(images, recipe.archives[archive])
    <3> DEFINE x == recipe.archives[archive]
    <3>1. IsSeq(images) /\ Once(images, twice) /\ ToSet(images) \ twice \subseteq files
      BY <2>1 DEF ListInv, Listed
    <3> HIDE DEF x
    <3>2. /\ images' = Append(images, x) /\ files' = files \union {x}
          /\ twice' = More(twice, images, x)
      BY <2>3 DEF Listing, More, x
    <3>3. ToSet(images) \ twice \subseteq files' /\ x \in files'
      BY <3>1, <3>2
    <3>4. IsSeq(images') /\ Once(images', twice') /\ ToSet(images') \ twice' \subseteq files'
      <4>1. /\ IsSeq(Append(images, x)) /\ Once(Append(images, x), More(twice, images, x))
            /\ ToSet(Append(images, x)) \ More(twice, images, x) \subseteq files'
        BY ONLY <3>1, <3>3, ListOneMore
      <4> QED BY ONLY <3>2, <4>1
    <3> QED BY <2>1, <3>4, ListStay DEF Listed, Building
  <2> QED BY <1>3, <2>2, <2>3 DEF MakeArchive
<1>4. CASE \/ FinetuningRaises \/ ChangeContent \/ RmArtifact \/ ImgConvert \/ SetPacker
           \/ ExtractPartition \/ CopyFromPartition \/ Artifact
  BY <1>4, ListFinetuning
<1>5. CASE PackImage
  BY <1>5, ListPackImage
<1>6. CASE UNCHANGED vars
  BY <1>6 DEF vars, diskvars, artifactvars, ListInv, Building, Image, Listed
<1> QED BY <1>1, <1>2, <1>3, <1>4, <1>5, <1>6 DEF Next

\* What a finished build offers for download exists, for every recipe, whatever the
\* finetuning converts, extracts, lists or removes, and whichever archive or packer
\* fails, but for the names that the recipe put on the list a second time.
THEOREM ListedExistHolds == Spec => []ListedExist
<1>1. ListInv => ListedExist
  BY DEF ListInv, ListedExist
<1> QED BY <1>1, ListInit, ListNext, PTL DEF Spec

-----------------------------------------------------------------------------
(* Lists in an order.                                                      *)

\* A finite set in a strict order of its elements.
StrictOrder(S, order) ==
    /\ \A x \in S : <<x, x>> \notin order
    /\ \A x, y, z \in S : <<x, y>> \in order /\ <<y, z>> \in order => <<x, z>> \in order
    /\ \A x, y \in S : x = y \/ <<x, y>> \in order \/ <<y, x>> \in order
InOrder(S, order, s) ==
    /\ s \in Seq(S) /\ Len(s) = Cardinality(S)
    /\ \A x \in S : \E k \in 1..Len(s) : s[k] = x
    /\ \A k, l \in 1..Len(s) : k < l => <<s[k], s[l]>> \in order

LEMMA SortedFacts ==
    ASSUME NEW S, IsFiniteSet(S), NEW order, StrictOrder(S, order)
    PROVE  InOrder(S, order, Sorted(S, order))
<1> DEFINE n == Cardinality(S)
           D == [x \in S |-> {y \in S : <<y, x>> \in order}]
           r == [x \in S |-> Cardinality(D[x])]
           s == Sorted(S, order)
<1>1. n \in Nat
  BY FS_CardinalityType
<1>0. /\ \A x \in S : <<x, x>> \notin order
      /\ \A x, y, z \in S : <<x, y>> \in order /\ <<y, z>> \in order => <<x, z>> \in order
      /\ \A x, y \in S : x = y \/ <<x, y>> \in order \/ <<y, x>> \in order
  BY DEF StrictOrder
<1>c. \A x, y \in S : y \in D[x] <=> <<y, x>> \in order
  OBVIOUS
<1>f. \A x \in S : D[x] \subseteq S
  OBVIOUS
<1>d. \A x \in S : D[x] \subseteq S \ {x} /\ \A y \in S : y \in D[x] <=> <<y, x>> \in order
  <2> HIDE DEF D
  <2> QED BY <1>0, <1>c, <1>f
<1>e. \A x \in S : Cardinality({y \in S : <<y, x>> \in order}) = r[x]
  OBVIOUS
<1> HIDE DEF D
<1>2. ASSUME NEW x \in S PROVE IsFiniteSet(D[x]) /\ r[x] \in 0..(n - 1)
  <2>1. IsFiniteSet(S \ {x}) /\ Cardinality(S \ {x}) = n - 1
    BY FS_RemoveElement
  <2>2. D[x] \in SUBSET (S \ {x})
    BY <1>d
  <2>3. IsFiniteSet(D[x]) /\ Cardinality(D[x]) <= n - 1
    BY <2>1, <2>2, FS_Subset
  <2>4. Cardinality(D[x]) \in Nat
    BY <2>3, FS_CardinalityType
  <2> QED BY <1>1, <2>3, <2>4
<1>3. ASSUME NEW x \in S, NEW y \in S, <<x, y>> \in order PROVE r[x] < r[y]
  <2>1. D[x] \in SUBSET D[y] /\ D[x] # D[y]
    <3>1. x \in D[y] /\ x \notin D[x]
      BY <1>0, <1>3, <1>d
    <3>2. \A z \in D[x] : z \in D[y]
      BY <1>0, <1>3, <1>d
    <3> QED BY <3>1, <3>2
  <2>2. IsFiniteSet(D[y]) /\ r[x] \in Int /\ r[y] \in Int
    BY <1>1, <1>2
  <2>3. Cardinality(D[x]) <= Cardinality(D[y]) /\ Cardinality(D[x]) # Cardinality(D[y])
    BY <2>1, <2>2, FS_Subset
  <2> QED BY <2>2, <2>3
<1>4. r \in Surjection(S, 0..(n - 1))
  <2>1. r \in [S -> 0..(n - 1)]
    BY <1>2
  <2> HIDE DEF r
  <2>2. \A x, y \in S : r[x] = r[y] => x = y
    <3> SUFFICES ASSUME NEW x \in S, NEW y \in S, r[x] = r[y], x # y PROVE FALSE
      OBVIOUS
    <3>1. r[x] < r[y] \/ r[y] < r[x]
      BY <1>0, <1>3
    <3> QED BY <1>1, <2>1, <3>1
  <2>3. r \in Injection(S, 0..(n - 1))
    BY <2>1, <2>2 DEF Injection, IsInjective
  <2>4. IsFiniteSet(0..(n - 1)) /\ Cardinality(0..(n - 1)) = n
    <3> HIDE DEF n
    <3>1. 0 \in Int /\ n - 1 \in Int
      BY <1>1
    <3>2. Cardinality(0..(n - 1)) = IF 0 > n - 1 THEN 0 ELSE n - 1 - 0 + 1
      BY <3>1, FS_Interval, Zenon
    <3> QED BY <1>1, <3>1, <3>2, FS_Interval
  <2> QED BY <2>3, <2>4, FS_Injection
<1> HIDE DEF r
<1>6. ASSUME NEW k \in 1..n PROVE s[k] \in S /\ r[s[k]] = k - 1
  <2>1. k - 1 \in 0..(n - 1)
    BY <1>1
  <2>2. \E x \in S : r[x] = k - 1
    BY <1>4, <2>1 DEF Surjection
  <2>3. s[k] = CHOOSE x \in S : Cardinality({y \in S : <<y, x>> \in order}) = k - 1
    BY DEF Sorted
  <2>4. \E x \in S : Cardinality({y \in S : <<y, x>> \in order}) = k - 1
    BY <1>e, <2>2
  <2>5. s[k] \in S /\ Cardinality({y \in S : <<y, s[k]>> \in order}) = k - 1
    BY <2>3, <2>4
  <2> QED BY <1>e, <2>5
<1>7. s \in Seq(S) /\ Len(s) = n
  <2> DEFINE C(k) == CHOOSE x \in S : Cardinality({y \in S : <<y, x>> \in order}) = k - 1
  <2>1. s = [k \in 1..n |-> C(k)]
    BY DEF Sorted
  <2>2. \A k \in 1..n : s[k] = C(k)
    BY DEF Sorted
  <2>3. \A k \in 1..n : C(k) \in S
    <3> HIDE DEF s
    <3> QED BY <1>6, <2>2
  <2> HIDE DEF C, s, n
  <2> QED BY <1>1, <2>1, <2>3
<1>8. ASSUME NEW x \in S PROVE \E k \in 1..n : s[k] = x
  <2>1. r[x] + 1 \in 1..n /\ r[x] \in Int
    BY <1>1, <1>2
  <2>2. s[r[x] + 1] \in S /\ r[s[r[x] + 1]] = r[x]
    BY <1>6, <2>1
  <2>3. s[r[x] + 1] = x
    <3> DEFINE y == s[r[x] + 1]
    <3> SUFFICES ASSUME y # x PROVE FALSE
      OBVIOUS
    <3>1. r[x] < r[y] \/ r[y] < r[x]
      BY <1>0, <1>3, <2>2
    <3> QED BY <2>1, <2>2, <3>1
  <2> QED BY <2>1, <2>3
<1>9. ASSUME NEW k \in 1..n, NEW l \in 1..n, k < l PROVE <<s[k], s[l]>> \in order
  <2>1. /\ s[k] \in S /\ s[l] \in S /\ r[s[k]] < r[s[l]]
        /\ r[s[k]] \in Int /\ r[s[l]] \in Int
    BY <1>1, <1>6, <1>9
  <2>2. s[k] # s[l] /\ ~(r[s[l]] < r[s[k]])
    BY <2>1
  <2> QED BY <1>0, <1>3, <2>1, <2>2
<1> HIDE DEF s, n
<1>10. InOrder(S, order, s)
  BY <1>7, <1>8, <1>9 DEF InOrder, n
<1> QED BY <1>10 DEF s

-----------------------------------------------------------------------------
(* Paths.                                                                  *)

LEMMA PrefixFacts ==
    ASSUME NEW s, NEW t, IsSeq(s), IsSeq(t)
    PROVE  /\ Len(s) \in Nat /\ Len(t) \in Nat
           /\ IsStrictPrefix(s, t) <=> Len(s) < Len(t) /\ \A k \in 1..Len(s) : s[k] = t[k]
<1> DEFINE V == ToSet(s) \union ToSet(t)
<1>1. s \in Seq(V) /\ t \in Seq(V)
  BY DEF IsSeq
<1> HIDE DEF V
<1>2. ASSUME Len(s) <= Len(t)
      PROVE  SubSeq(s, 1, Len(s)) = SubSeq(t, 1, Len(s)) <=> \A k \in 1..Len(s) : s[k] = t[k]
  <2>1. /\ SubSeq(s, 1, Len(s)) = [k \in 1..Len(s) |-> s[k]]
        /\ SubSeq(t, 1, Len(s)) = [k \in 1..Len(s) |-> t[k]]
    BY <1>1, <1>2
  <2> QED BY <2>1
<1>3. ASSUME Len(s) = Len(t), \A k \in 1..Len(s) : s[k] = t[k] PROVE s = t
  BY <1>1, <1>3
<1> QED BY <1>1, <1>2, <1>3 DEF IsStrictPrefix, IsPrefix

\* Of two directories above a path one lies in the other.
LEMMA PrefixesNest ==
    ASSUME NEW s, NEW t, NEW p, IsSeq(s), IsSeq(t), IsSeq(p),
           IsStrictPrefix(s, p), IsStrictPrefix(t, p), Len(s) <= Len(t)
    PROVE  s = t \/ IsStrictPrefix(s, t)
<1>1. /\ Len(s) \in Nat /\ Len(t) \in Nat /\ Len(t) < Len(p)
      /\ \A k \in 1..Len(s) : s[k] = p[k]
      /\ \A k \in 1..Len(t) : t[k] = p[k]
  BY PrefixFacts
<1>2. \A k \in 1..Len(s) : s[k] = t[k]
  BY <1>1
<1>3. CASE Len(s) < Len(t)
  BY <1>2, <1>3, PrefixFacts
<1>4. CASE Len(s) = Len(t)
  <2> DEFINE V == ToSet(s) \union ToSet(t)
  <2>1. s \in Seq(V) /\ t \in Seq(V)
    BY DEF IsSeq
  <2> QED BY <1>2, <1>4, <2>1
<1> QED BY <1>1, <1>3, <1>4

\* The directories above a path.
LEMMA AboveFacts ==
    ASSUME NEW m, IsSeq(m), NEW q \in Above(m)
    PROVE  /\ IsSeq(q)
           /\ \A s : IsSeq(s) /\ IsStrictPrefix(s, q) => IsStrictPrefix(s, m)
<1>1. PICK k \in 1..Len(m) : q = SubSeq(m, 1, k)
  BY DEF Above
<1>2. m \in Seq(ToSet(m)) /\ Len(m) \in Nat
  BY DEF IsSeq
<1>3. q \in Seq(ToSet(m)) /\ Len(q) = k /\ \A l \in 1..k : q[l] = m[l]
  BY <1>1, <1>2
<1>4. IsSeq(q)
  BY <1>3 DEF IsSeq, ToSet
<1>5. ASSUME NEW s, IsSeq(s), IsStrictPrefix(s, q) PROVE IsStrictPrefix(s, m)
  <2>1. /\ Len(s) \in Nat /\ Len(s) < k
        /\ \A l \in 1..Len(s) : s[l] = q[l]
    BY <1>3, <1>4, <1>5, PrefixFacts
  <2>2. \A l \in 1..Len(s) : s[l] = m[l]
    BY <1>3, <2>1
  <2> QED BY <1>2, <1>5, <2>1, <2>2, PrefixFacts
<1> QED BY <1>4, <1>5

\* What is left of a path below a directory.
LEMMA BelowFacts ==
    ASSUME NEW m, NEW p, IsSeq(m), IsSeq(p), IsStrictPrefix(m, p)
    PROVE  /\ m \o Below(m, p) = p
           /\ Head(Below(m, p)) = p[Len(m) + 1]
<1> DEFINE V == ToSet(m) \union ToSet(p)
           b == Below(m, p)
<1>1. m \in Seq(V) /\ p \in Seq(V) /\ Len(m) \in Nat /\ Len(p) \in Nat
  BY DEF IsSeq
<1>2. Len(m) < Len(p) /\ \A k \in 1..Len(m) : m[k] = p[k]
  BY PrefixFacts
<1> HIDE DEF V
<1>3. /\ b \in Seq(V) /\ Len(b) = Len(p) - Len(m)
      /\ \A k \in 1..(Len(p) - Len(m)) : b[k] = p[Len(m) + k]
  BY <1>1, <1>2 DEF Below
<1> HIDE DEF b
<1>4. Head(b) = p[Len(m) + 1]
  BY <1>1, <1>2, <1>3
<1>5. /\ m \o b \in Seq(V) /\ Len(m \o b) = Len(p)
      /\ \A k \in 1..Len(p) : (m \o b)[k] = p[k]
  <2>1. Len(b) \in Nat /\ Len(m) + Len(b) = Len(p)
    BY <1>1, <1>2, <1>3
  <2>2. /\ m \o b \in Seq(V) /\ Len(m \o b) = Len(m) + Len(b)
        /\ \A i \in 1..Len(m) : (m \o b)[i] = m[i]
        /\ \A i \in 1..Len(b) : (m \o b)[Len(m) + i] = b[i]
    BY <1>1, <1>3, ConcatFacts
  <2>3. ASSUME NEW k \in 1..Len(p) PROVE (m \o b)[k] = p[k]
    <3>1. CASE k <= Len(m)
      BY <1>1, <1>2, <2>2, <3>1
    <3>2. CASE k > Len(m)
      <4>1. PICK i \in 1..Len(b) : k = Len(m) + i
        <5>1. k - Len(m) \in 1..Len(b) /\ k = Len(m) + (k - Len(m))
          BY <1>1, <2>1, <3>2
        <5> QED BY <5>1
      <4>2. (m \o b)[k] = b[i]
        BY <2>2, <4>1
      <4>3. b[i] = p[Len(m) + i]
        BY <1>3, <4>1
      <4> QED BY <4>1, <4>2, <4>3
    <3>3. k \in Int /\ Len(m) \in Int
      BY <1>1
    <3>4. k <= Len(m) \/ k > Len(m)
      BY <3>3
    <3> QED BY <3>1, <3>2, <3>4
  <2> QED BY <2>1, <2>2, <2>3
<1>6. m \o b = p
  <2> DEFINE c == m \o b
  <2> HIDE DEF c
  <2>1. c \in Seq(V) /\ Len(c) = Len(p) /\ \A k \in 1..Len(p) : c[k] = p[k]
    BY <1>5 DEF c
  <2>2. c = p
    BY <1>1, <2>1, SeqEqual
  <2> QED BY <2>2 DEF c
<1> QED BY <1>4, <1>6 DEF b

-----------------------------------------------------------------------------
(* The mount points of a recipe.                                           *)

\* Every entry has an id, which stands for its mount point.
LEMMA IdFacts ==
    ASSUME recipe \in Recipes
    PROVE  /\ IsFiniteSet(Ids) /\ Ids \subseteq DOMAIN fstab /\ Ids \subseteq Nat
           /\ \A i \in DOMAIN fstab : Id(i) \in Ids /\ fstab[Id(i)].mount = fstab[i].mount
           /\ \A i \in Ids : IsSeq(fstab[i].mount) /\ MountDepth(i) \in Nat
<1> DEFINE D == DOMAIN fstab
<1>1. fstab \in Seq(ToSet(fstab)) /\ \A i \in D : IsSeq(fstab[i].mount)
  BY RecipesAssumption DEF IsSeq, fstab
<1>2. D = 1..Len(fstab) /\ Len(fstab) \in Nat /\ IsFiniteSet(D)
  BY <1>1, FS_Interval
<1>3. ASSUME NEW i \in D PROVE Id(i) \in D /\ fstab[Id(i)].mount = fstab[i].mount
  <2> DEFINE N == {j \in D : Alike(j, i)}
  <2>1. N \in SUBSET Nat /\ N # {}
    BY <1>2 DEF Alike
  <2>2. \E j \in D : Alike(j, i) /\ \A k \in D : Alike(k, i) => j <= k
    BY <2>1, NatLeast
  <2>3. Id(i) \in D /\ Alike(Id(i), i)
    BY <2>2 DEF Id
  <2> QED BY <2>3 DEF Alike
<1>4. Ids \subseteq D /\ \A i \in D : Id(i) \in Ids
  BY <1>3 DEF Ids
<1>5. IsFiniteSet(Ids)
  BY <1>2, <1>4, FS_Subset
<1>6. ASSUME NEW i \in Ids PROVE IsSeq(fstab[i].mount) /\ MountDepth(i) \in Nat
  <2>1. IsSeq(fstab[i].mount)
    BY <1>1, <1>4
  <2>2. Len(fstab[i].mount) \in Nat
    BY <2>1 DEF IsSeq
  <2> QED BY <2>1, <2>2 DEF MountDepth
<1> QED BY <1>2, <1>3, <1>4, <1>5, <1>6

\* Mount points by depth, those of one depth as in the list they come from.
ByDepth(l, ids) ==
    \A a, b \in DOMAIN l : a < b =>
        \/ MountDepth(l[a]) < MountDepth(l[b])
        \/ /\ MountDepth(l[a]) = MountDepth(l[b])
           /\ \E x, y \in DOMAIN ids : x < y /\ l[a] = ids[x] /\ l[b] = ids[y]

\* depthlist orders a list of mount points by depth.
LEMMA DepthListFacts ==
    ASSUME recipe \in Recipes, NEW ids \in Seq(Ids)
    PROVE  /\ DepthList(ids) \in Seq(Ids) /\ ByDepth(DepthList(ids), ids)
           /\ ToSet(DepthList(ids)) = ToSet(ids)
           /\ IsInjective(ids) => IsInjective(DepthList(ids))
<1> DEFINE D == DOMAIN ids
           n == Len(ids)
           d == [i \in D |-> MountDepth(ids[i])]
           before == {e \in D \X D :
                         \/ MountDepth(ids[e[1]]) < MountDepth(ids[e[2]])
                         \/ MountDepth(ids[e[1]]) = MountDepth(ids[e[2]]) /\ e[1] < e[2]}
           order == Sorted(D, before)
<1>1. D = 1..n /\ n \in Nat /\ IsFiniteSet(D) /\ Cardinality(D) = n
  <2>1. D = 1..n /\ n \in Nat
    OBVIOUS
  <2> HIDE DEF n
  <2>2. IsFiniteSet(1..n) /\ Cardinality(1..n) = n
    BY <2>1, FS_Interval
  <2> QED BY <2>1, <2>2
<1>2. \A i \in D : ids[i] \in Ids /\ MountDepth(ids[i]) \in Nat
  BY IdFacts
<1> DEFINE Earlier(x, y) == \/ d[x] < d[y]
                            \/ d[x] = d[y] /\ x < y
<1>3. \A x, y \in D : <<x, y>> \in before <=> Earlier(x, y)
  <2> SUFFICES ASSUME NEW x \in D, NEW y \in D
               PROVE  <<x, y>> \in before <=> Earlier(x, y)
    OBVIOUS
  <2> DEFINE e == <<x, y>>
             W(u, v) == \/ MountDepth(ids[u]) < MountDepth(ids[v])
                        \/ MountDepth(ids[u]) = MountDepth(ids[v]) /\ u < v
  <2>1. e[1] = x /\ e[2] = y /\ e \in D \X D
    OBVIOUS
  <2>2. e \in before <=> W(x, y)
    <3>1. e \in before <=> e \in D \X D /\ W(e[1], e[2])
      <4> HIDE DEF e, D
      <4> QED OBVIOUS
    <3> HIDE DEF W, e, before
    <3> QED BY <2>1, <3>1
  <2>3. d[x] = MountDepth(ids[x]) /\ d[y] = MountDepth(ids[y])
    OBVIOUS
  <2> HIDE DEF d, before
  <2> QED BY <2>2, <2>3
<1>4. \A x \in D : d[x] \in Nat /\ x \in Nat
  BY <1>1, <1>2
<1>d. \A x \in D : d[x] = MountDepth(ids[x])
  OBVIOUS
<1> HIDE DEF before, d, D, n
<1>5. StrictOrder(D, before)
  <2>1. \A x \in D : ~Earlier(x, x)
    BY <1>4
  <2>2. \A x, y, z \in D : Earlier(x, y) /\ Earlier(y, z) => Earlier(x, z)
    BY <1>4
  <2>3. \A x, y \in D : x = y \/ Earlier(x, y) \/ Earlier(y, x)
    BY <1>4
  <2> HIDE DEF Earlier
  <2> QED BY <1>3, <2>1, <2>2, <2>3 DEF StrictOrder
<1>6. InOrder(D, before, order)
  BY <1>1, <1>5, SortedFacts
<1> HIDE DEF order
<1>m. order \in Seq(D) /\ Len(order) = n
  BY <1>1, <1>6 DEF InOrder
<1>o. \A x \in D : \E k \in D : order[k] = x
  BY <1>1, <1>m, <1>6 DEF InOrder
<1>p. \A k, l \in D : k < l => <<order[k], order[l]>> \in before
  BY <1>1, <1>m, <1>6 DEF InOrder
<1>8. \A k \in D : order[k] \in D
  BY <1>1, <1>m
<1>7. DepthList(ids) = [k \in D |-> ids[order[k]]]
  BY DEF DepthList, before, order, D
<1>9. /\ DepthList(ids) \in Seq(Ids) /\ DOMAIN DepthList(ids) = D
      /\ \A k \in D : DepthList(ids)[k] = ids[order[k]]
  BY <1>1, <1>2, <1>7, <1>8
<1> DEFINE l == DepthList(ids)
<1>x. l \in Seq(Ids) /\ DOMAIN l = D /\ \A k \in D : l[k] = ids[order[k]]
  BY <1>9
<1> HIDE DEF l
<1>10. ByDepth(l, ids)
  <2> SUFFICES ASSUME NEW a \in D, NEW b \in D, a < b
               PROVE  \/ MountDepth(l[a]) < MountDepth(l[b])
                      \/ /\ MountDepth(l[a]) = MountDepth(l[b])
                         /\ \E x, y \in D : x < y /\ l[a] = ids[x] /\ l[b] = ids[y]
    BY <1>x DEF ByDepth, D
  <2>1. order[a] \in D /\ order[b] \in D
    BY <1>8
  <2>2. Earlier(order[a], order[b])
    <3> HIDE DEF Earlier
    <3> QED BY <1>3, <1>p, <2>1
  <2>3. /\ l[a] = ids[order[a]] /\ d[order[a]] = MountDepth(l[a])
        /\ l[b] = ids[order[b]] /\ d[order[b]] = MountDepth(l[b])
    BY <1>x, <1>d, <2>1
  <2>4. CASE d[order[a]] < d[order[b]]
    BY <2>3, <2>4
  <2>5. CASE d[order[a]] = d[order[b]] /\ order[a] < order[b]
    BY <2>1, <2>3, <2>5
  <2> QED BY <2>2, <2>4, <2>5
<1>11. ToSet(l) = ToSet(ids)
  <2>1. \A k \in D : \E x \in D : l[k] = ids[x]
    BY <1>8, <1>x
  <2>2. ASSUME NEW x \in D PROVE \E k \in D : ids[x] = l[k]
    <3>1. PICK k \in D : order[k] = x
      BY <1>o
    <3>2. l[k] = ids[order[k]]
      BY <1>x
    <3> QED BY <3>1, <3>2
  <2>3. ToSet(ids) = {ids[x] : x \in D}
    BY DEF ToSet, D
  <2>4. ToSet(l) = {l[k] : k \in D}
    BY <1>x DEF ToSet
  <2> QED BY <2>1, <2>2, <2>3, <2>4
<1>12. ASSUME IsInjective(ids) PROVE IsInjective(l)
  <2> SUFFICES ASSUME NEW a \in D, NEW b \in D, l[a] = l[b] PROVE a = b
    BY <1>x DEF IsInjective
  <2>1. order[a] \in D /\ order[b] \in D
    BY <1>8
  <2>2. ids[order[a]] = ids[order[b]]
    BY <1>x
  <2>3. \A x, y \in D : ids[x] = ids[y] => x = y
    BY <1>12 DEF IsInjective, D
  <2>4. order[a] = order[b]
    BY <2>1, <2>2, <2>3
  <2>5. ~(a < b) /\ ~(b < a)
    BY <1>5, <1>p, <2>1, <2>4 DEF StrictOrder
  <2> QED BY <1>1, <2>5
<1> QED BY <1>x, <1>10, <1>11, <1>12 DEF l

\* The list of all mount points.
LEMMA FslistFacts ==
    ASSUME recipe \in Recipes
    PROVE  /\ fslist \in Seq(Ids) /\ ToSet(fslist) = Ids /\ IsInjective(fslist)
           /\ \A a, b \in DOMAIN fslist : a < b =>
                 \/ MountDepth(fslist[a]) < MountDepth(fslist[b])
                 \/ MountDepth(fslist[a]) = MountDepth(fslist[b]) /\ fslist[a] < fslist[b]
<1> DEFINE R == {e \in Ids \X Ids : e[1] < e[2]}
<1>1. IsFiniteSet(Ids) /\ Ids \subseteq Nat
  BY IdFacts
<1>2. \A x, y \in Ids : <<x, y>> \in R <=> x < y
  OBVIOUS
<1> HIDE DEF R
<1>3. StrictOrder(Ids, R)
  BY <1>1, <1>2 DEF StrictOrder
<1> DEFINE s == Sorted(Ids, R)
           n == Len(s)
<1>4. InOrder(Ids, R, s)
  BY <1>1, <1>3, SortedFacts
<1>5. Registered = s
  BY DEF Registered, R
<1> HIDE DEF s
<1>6. s \in Seq(Ids) /\ ToSet(s) = Ids
  BY <1>4 DEF InOrder, ToSet
<1>7. IsInjective(s)
  <2> SUFFICES ASSUME NEW a \in 1..n, NEW b \in 1..n, s[a] = s[b], a # b PROVE FALSE
    BY <1>6 DEF IsInjective
  <2>1. a < b \/ b < a
    BY <1>6
  <2>2. s[a] \in Ids
    BY <1>6
  <2> QED BY <1>3, <1>4, <2>1, <2>2 DEF StrictOrder, InOrder
<1>8. \A x, y \in 1..n : x < y => s[x] < s[y]
  <2> SUFFICES ASSUME NEW x \in 1..n, NEW y \in 1..n, x < y PROVE s[x] < s[y]
    OBVIOUS
  <2>1. s[x] \in Ids /\ s[y] \in Ids
    BY <1>6
  <2>2. <<s[x], s[y]>> \in R
    BY <1>4 DEF InOrder
  <2> QED BY <1>2, <2>1, <2>2
<1>9. fslist = DepthList(s)
  BY <1>5 DEF fslist
<1>10. ByDepth(fslist, s) /\ DOMAIN s = 1..n
  BY <1>6, <1>9, DepthListFacts
<1>11. ASSUME NEW a \in DOMAIN fslist, NEW b \in DOMAIN fslist, a < b
       PROVE  \/ MountDepth(fslist[a]) < MountDepth(fslist[b])
              \/ MountDepth(fslist[a]) = MountDepth(fslist[b]) /\ fslist[a] < fslist[b]
  <2>1. \/ MountDepth(fslist[a]) < MountDepth(fslist[b])
        \/ /\ MountDepth(fslist[a]) = MountDepth(fslist[b])
           /\ \E x, y \in 1..n : x < y /\ fslist[a] = s[x] /\ fslist[b] = s[y]
    BY <1>10, <1>11 DEF ByDepth
  <2> HIDE DEF n
  <2> QED BY <1>8, <2>1
<1> QED BY <1>6, <1>7, <1>9, <1>11, DepthListFacts

\* The place of a mount point.
LEMMA PlaceFacts ==
    ASSUME recipe \in Recipes
    PROVE  /\ \A i \in Ids : Place(i) \in Nat /\ Place(i) \in DOMAIN fslist /\ fslist[Place(i)] = i
           /\ Deepening(fslist)
<1>1. /\ fslist \in Seq(Ids) /\ ToSet(fslist) = Ids
      /\ \A a, b \in DOMAIN fslist : fslist[a] = fslist[b] => a = b
  BY FslistFacts DEF IsInjective
<1>2. ASSUME NEW i \in Ids
      PROVE  Place(i) \in Nat /\ Place(i) \in DOMAIN fslist /\ fslist[Place(i)] = i
  <2>1. \E k \in DOMAIN fslist : fslist[k] = i
    BY <1>1 DEF ToSet
  <2>2. Place(i) \in DOMAIN fslist /\ fslist[Place(i)] = i
    BY <2>1 DEF Place
  <2> QED BY <1>1, <2>2
<1>3. \A a \in DOMAIN fslist : Place(fslist[a]) = a /\ a \in Nat
  <2> SUFFICES ASSUME NEW a \in DOMAIN fslist PROVE Place(fslist[a]) = a /\ a \in Nat
    OBVIOUS
  <2>1. fslist[a] \in Ids /\ a \in Nat
    BY <1>1
  <2> QED BY <1>1, <1>2, <2>1
<1>4. Deepening(fslist)
  BY <1>3 DEF Deepening
<1> QED BY <1>2, <1>4

\* A mount point inside of another one comes after it.
LEMMA DepthFacts ==
    ASSUME SlashInOrder, recipe \in Recipes, NEW i \in Ids, NEW j \in Ids,
           IsStrictPrefix(fstab[i].mount, fstab[j].mount)
    PROVE  Place(i) < Place(j)
<1>1. i \in Nat /\ j \in Nat /\ IsSeq(fstab[i].mount) /\ IsSeq(fstab[j].mount)
  BY IdFacts
<1>2. Len(fstab[i].mount) \in Nat /\ Len(fstab[j].mount) \in Nat
      /\ Len(fstab[i].mount) < Len(fstab[j].mount)
  BY <1>1, PrefixFacts
<1>3. MountDepth(i) < MountDepth(j) \/ (MountDepth(i) = MountDepth(j) /\ i < j)
  <2>1. CASE fstab[j].slash
    <3>1. MountDepth(i) = 0 /\ i < j
      BY <2>1 DEF SlashInOrder
    <3> QED BY <2>1, <3>1 DEF MountDepth
  <2>2. CASE ~fstab[j].slash
    <3>1. MountDepth(j) = Len(fstab[j].mount)
      BY <2>2 DEF MountDepth
    <3>2. MountDepth(i) = 0 \/ MountDepth(i) = Len(fstab[i].mount)
      BY DEF MountDepth
    <3>3. MountDepth(i) < MountDepth(j)
      BY <1>2, <3>1, <3>2
    <3> QED BY <3>3
  <2> QED BY <2>1, <2>2
<1> DEFINE a == Place(i)
           b == Place(j)
<1>4. /\ a \in Nat /\ a \in DOMAIN fslist /\ fslist[a] = i
      /\ b \in Nat /\ b \in DOMAIN fslist /\ fslist[b] = j
  BY PlaceFacts
<1> HIDE DEF a, b
<1>5. MountDepth(i) \in Nat /\ MountDepth(j) \in Nat
  BY IdFacts
<1>6. b < a => \/ MountDepth(j) < MountDepth(i)
               \/ MountDepth(j) = MountDepth(i) /\ j < i
  BY <1>4, FslistFacts
<1>7. a # b
  BY <1>1, <1>3, <1>4, <1>5
<1>8. a < b
  BY <1>1, <1>3, <1>4, <1>5, <1>6, <1>7
<1> QED BY <1>8 DEF a, b

\* The keys of a disk by depth are outermost first.
LEMMA GrubFacts ==
    ASSUME SlashInOrder, recipe \in Recipes, NEW ids, GrubKeys(ids),
           img \in DOMAIN recipe.images, Image.tag # "mtd", Image.grub,
           DOMAIN Image.parts \subseteq Nat
    PROVE  DepthList(ids) \in Seq(Ids) /\ OuterFirst(DepthList(ids))
<1> DEFINE l == DepthList(ids)
<1>1. ids \in Seq(Ids)
  BY DEF GrubKeys
<1>2. l \in Seq(Ids) /\ ByDepth(l, ids)
  BY <1>1, DepthListFacts
<1> HIDE DEF l
<1>3. ASSUME NEW a \in DOMAIN l, NEW b \in DOMAIN l, a < b,
             IsStrictPrefix(fstab[l[b]].mount, fstab[l[a]].mount)
      PROVE  FALSE
  <2> DEFINE i == l[b]
             j == l[a]
  <2>1. i \in Ids /\ j \in Ids
    BY <1>2
  <2>2. \/ MountDepth(j) < MountDepth(i)
        \/ /\ MountDepth(j) = MountDepth(i)
           /\ \E x, y \in DOMAIN ids : x < y /\ j = ids[x] /\ i = ids[y]
    BY <1>2, <1>3 DEF ByDepth
  <2>3. IsStrictPrefix(fstab[i].mount, fstab[j].mount)
    BY <1>3
  <2> HIDE DEF i, j
  <2>4. /\ i \in Nat /\ j \in Nat /\ IsSeq(fstab[i].mount) /\ IsSeq(fstab[j].mount)
        /\ MountDepth(i) \in Nat /\ MountDepth(j) \in Nat
    BY <2>1, IdFacts
  <2>5. Len(fstab[i].mount) \in Nat /\ Len(fstab[j].mount) \in Nat
        /\ Len(fstab[i].mount) < Len(fstab[j].mount)
    BY <2>3, <2>4, PrefixFacts
  <2>6. CASE ~fstab[j].slash
    <3>1. MountDepth(j) = Len(fstab[j].mount)
      BY <2>6 DEF MountDepth
    <3>2. MountDepth(i) = 0 \/ MountDepth(i) = Len(fstab[i].mount)
      BY DEF MountDepth
    <3>3. MountDepth(i) < MountDepth(j)
      BY <2>5, <3>1, <3>2
    <3> QED BY <2>2, <2>4, <3>3
  <2>7. CASE fstab[j].slash
    <3>1. /\ MountDepth(i) = 0
          /\ \A k, m \in DOMAIN Image.parts :
                Fills(Image, k, i) /\ Fills(Image, m, j) => k < m
      BY <2>1, <2>3, <2>7 DEF SlashInOrder, Image
    <3>2. PICK x, y \in DOMAIN ids : x < y /\ j = ids[x] /\ i = ids[y]
      BY <2>2, <2>4, <3>1
    <3>3. PICK k, m \in DoneParts : k < m /\ Fills(Image, k, j) /\ Fills(Image, m, i)
      BY <3>2 DEF GrubKeys
    <3>4. k \in DOMAIN Image.parts /\ m \in DOMAIN Image.parts /\ k \in Nat /\ m \in Nat
      BY DEF DoneParts
    <3>5. m < k
      BY <3>1, <3>3, <3>4
    <3> QED BY <3>3, <3>4, <3>5
  <2> QED BY <2>6, <2>7
<1>4. OuterFirst(l)
  BY <1>3 DEF OuterFirst
<1> QED BY <1>2, <1>4 DEF l

-----------------------------------------------------------------------------
(* What belongs to a file system.                                          *)

Mount(i) == fstab[i].mount

LEMMA AllSeqs ==
    ASSUME recipe \in Recipes
    PROVE  /\ \A p \in All : IsSeq(p)
           /\ \A i \in Ids : IsSeq(Mount(i))
           /\ \A i \in Ids : Above(Mount(i)) \subseteq All
<1>1. \A i \in Ids : IsSeq(Mount(i))
  BY IdFacts DEF Mount
<1>2. \A i \in DOMAIN fstab : IsSeq(Mount(i))
  BY RecipesAssumption DEF fstab, Mount
<1>3. \A p \in recipe.files : IsSeq(p)
  BY RecipesAssumption
<1>4. \A i \in Ids : \A q \in Above(Mount(i)) : IsSeq(q)
  BY <1>1, AboveFacts
<1>5. All = recipe.files \union UNION {Above(Mount(i)) : i \in Ids}
  BY DEF All, Mount
<1> QED BY <1>1, <1>3, <1>4, <1>5

\* Two file systems share nothing.
LEMMA OneTaker ==
    ASSUME SlashInOrder, recipe \in Recipes, NEW i \in Ids, NEW j \in Ids,
           NEW p \in Taken(i), p \in Taken(j)
    PROVE  i = j
<1>1. /\ IsSeq(p) /\ IsSeq(Mount(i)) /\ IsSeq(Mount(j))
      /\ IsStrictPrefix(Mount(i), p) /\ IsStrictPrefix(Mount(j), p)
      /\ Len(Mount(j)) <= Len(Mount(i)) /\ Len(Mount(i)) <= Len(Mount(j))
  BY AllSeqs DEF Taken, Lifted, Mount
<1>2. Len(Mount(i)) \in Nat /\ Len(Mount(j)) \in Nat
  BY <1>1 DEF IsSeq
<1>3. Mount(i) = Mount(j) \/ IsStrictPrefix(Mount(i), Mount(j))
  BY <1>1, PrefixesNest
<1>4. ~IsStrictPrefix(Mount(i), Mount(j))
  BY <1>1, <1>2, PrefixFacts
<1>5. Mount(i) = Mount(j)
  BY <1>3, <1>4
<1> QED BY <1>5 DEF Mount, SlashInOrder

\* What some file system shows belongs to one of them, which is not above that one.
LEMMA TakerExists ==
    ASSUME recipe \in Recipes, NEW p \in All, NEW k \in Ids, Lifted(k, p)
    PROVE  \E i \in Ids : p \in Taken(i) /\ Len(Mount(k)) <= Len(Mount(i))
<1> DEFINE L == {j \in Ids : Lifted(j, p)}
           N == {Len(p) - Len(Mount(j)) : j \in L}
<1>1. \A j \in L : Len(Mount(j)) \in Nat /\ Len(p) \in Nat /\ Len(Mount(j)) < Len(p)
  <2> SUFFICES ASSUME NEW j \in L
               PROVE  Len(Mount(j)) \in Nat /\ Len(p) \in Nat /\ Len(Mount(j)) < Len(p)
    OBVIOUS
  <2>1. IsSeq(Mount(j)) /\ IsSeq(p) /\ IsStrictPrefix(Mount(j), p)
    BY AllSeqs DEF Lifted, Mount
  <2> QED BY <2>1, PrefixFacts
<1>2. N \in SUBSET Nat /\ N # {}
  BY <1>1
<1>3. PICK n \in N : \A m \in N : n <= m
  BY <1>2, NatLeast
<1>4. PICK i \in L : n = Len(p) - Len(Mount(i))
  OBVIOUS
<1>5. ASSUME NEW j \in L PROVE Len(Mount(j)) <= Len(Mount(i))
  <2>1. Len(p) - Len(Mount(i)) <= Len(p) - Len(Mount(j))
    BY <1>3, <1>4
  <2>2. /\ Len(Mount(i)) \in Nat /\ Len(Mount(j)) \in Nat /\ Len(p) \in Nat
    BY <1>1
  <2> QED BY <2>1, <2>2
<1>6. p \in Taken(i)
  BY <1>4, <1>5 DEF Taken, Mount
<1> QED BY <1>4, <1>5, <1>6

\* The owner lies below every other file system that shows a file, and is deeper.
LEMMA TakerDeeper ==
    ASSUME SlashInOrder, recipe \in Recipes, NEW i \in Ids, NEW p \in Taken(i),
           NEW j \in Ids, Lifted(j, p), j # i
    PROVE  Place(j) < Place(i)
<1>1. /\ IsSeq(p) /\ IsSeq(Mount(i)) /\ IsSeq(Mount(j))
      /\ IsStrictPrefix(Mount(i), p) /\ IsStrictPrefix(Mount(j), p)
      /\ Len(Mount(j)) <= Len(Mount(i))
  BY AllSeqs DEF Taken, Lifted, Mount
<1>2. Mount(i) = Mount(j) \/ IsStrictPrefix(Mount(j), Mount(i))
  BY <1>1, PrefixesNest
<1>3. Mount(i) # Mount(j)
  BY DEF Mount, SlashInOrder
<1>4. IsStrictPrefix(fstab[j].mount, fstab[i].mount)
  BY <1>2, <1>3 DEF Mount
<1> QED BY <1>4, DepthFacts

\* What belongs to a file system, seen from its directory.
LEMMA BelowTaken ==
    ASSUME recipe \in Recipes, NEW i \in Ids
    PROVE  {Mount(i) \o b : b \in {Below(Mount(i), p) : p \in Taken(i)}} = Taken(i)
<1>1. \A p \in Taken(i) : Mount(i) \o Below(Mount(i), p) = p
  <2> SUFFICES ASSUME NEW p \in Taken(i) PROVE Mount(i) \o Below(Mount(i), p) = p
    OBVIOUS
  <2>1. IsSeq(Mount(i)) /\ IsSeq(p) /\ IsStrictPrefix(Mount(i), p)
    BY AllSeqs DEF Taken, Lifted, Mount
  <2> QED BY <2>1, BelowFacts
<1> DEFINE T == Taken(i)
           F(p) == Below(Mount(i), p)
           G(b) == Mount(i) \o b
<1>2. \A p \in T : G(F(p)) = p
  BY <1>1
<1> HIDE DEF T, F, G
<1>3. {G(b) : b \in {F(p) : p \in T}} = T
  BY <1>2
<1> QED BY <1>3 DEF T, F, G

\* What the target has when some file systems are moved out.
InTarget(q, made, out) ==
    /\ q \in recipe.files \/ \E i \in made : q \in Above(Mount(i))
    /\ \A i \in out : q \notin Taken(i)

LEMMA InTree ==
    ASSUME NEW t, NEW d, NEW made \in SUBSET Ids, NEW out \in SUBSET Ids
    PROVE  MovedOut(t, d, made, out) <=>
              (\A q : q \in t <=> InTarget(q, made, out)) /\ d = Dirs(out)
<1> DEFINE A(i) == Above(Mount(i))
           F == recipe.files
           R == (F \union UNION {A(i) : i \in made}) \ UNION {Taken(i) : i \in out}
<1>1. MovedOut(t, d, made, out) <=> t = R /\ d = Dirs(out)
  BY DEF MovedOut, Mount
<1>2. ASSUME NEW q
      PROVE q \in R <=> InTarget(q, made, out)
  <2>1. InTarget(q, made, out) <=>
               /\ q \in F \/ \E i \in made : q \in A(i)
               /\ \A i \in out : q \notin Taken(i)
    BY DEF InTarget
  <2> HIDE DEF A, F
  <2> QED BY <2>1
<1> HIDE DEF R
<1>3. t = R <=> \A q : q \in t <=> InTarget(q, made, out)
  BY <1>2
<1> QED BY <1>1, <1>3

LEMMA InAll == \A q : q \in All <=> q \in recipe.files \/ \E i \in Ids : q \in Above(Mount(i))
  BY DEF All, Mount

\* What is above a mount point lies on the path to it.
LEMMA AboveShorter ==
    ASSUME NEW m, IsSeq(m), NEW q \in Above(m)
    PROVE  IsSeq(q) /\ Len(q) <= Len(m) /\ Len(q) \in Nat /\ Len(m) \in Nat
<1>1. PICK k \in 1..Len(m) : q = SubSeq(m, 1, k)
  BY DEF Above
<1>2. m \in Seq(ToSet(m)) /\ Len(m) \in Nat
  BY DEF IsSeq
<1>3. Len(q) = k
  BY <1>1, <1>2
<1>4. IsSeq(q)
  BY AboveFacts
<1> QED BY <1>2, <1>3, <1>4

\* A mount point in turn is moved out: what the directory shows is what belongs to it.
LEMMA OutShown ==
    ASSUME SlashInOrder, recipe \in Recipes, NEW out \in SUBSET Ids, NEW j \in Ids \ out,
           \A i \in out : Place(j) <= Place(i),
           \A i \in Ids \ out : Place(i) <= Place(j),
           MovedOut(tree, fsdir, out, out)
    PROVE  Shown(tree \union Above(Mount(j)), Mount(j)) = Taken(j)
<1> DEFINE t == tree \union Above(Mount(j))
<1>1. \A i \in Ids : Place(i) \in Nat
  BY PlaceFacts
<1>2. \A q : q \in tree <=>
          /\ q \in recipe.files \/ \E i \in out : q \in Above(Mount(i))
          /\ \A i \in out : q \notin Taken(i)
  BY InTree DEF InTarget
<1>3. \A p : p \in Shown(t, Mount(j)) <=> p \in t /\ Lifted(j, p)
  BY DEF Shown, Children, Lifted, Mount
<1> HIDE DEF t
<1>4. ASSUME NEW p \in Shown(t, Mount(j)) PROVE p \in Taken(j)
  <2>1. p \in t /\ Lifted(j, p) /\ IsStrictPrefix(Mount(j), p)
    BY <1>3, <1>4 DEF Lifted, Mount
  <2>2. p \in tree
    <3>1. SUFFICES ASSUME p \in Above(Mount(j)) PROVE FALSE
      BY <2>1 DEF t
    <3>2. IsSeq(Mount(j)) /\ IsSeq(p) /\ Len(p) <= Len(Mount(j))
      BY <3>1, AllSeqs, AboveShorter
    <3>3. Len(Mount(j)) < Len(p) /\ Len(p) \in Nat /\ Len(Mount(j)) \in Nat
      BY <2>1, <3>2, PrefixFacts
    <3> QED BY <3>2, <3>3
  <2>3. p \in All
    BY <1>2, <2>2, InAll
  <2>4. PICK i \in Ids : p \in Taken(i)
    BY <2>1, <2>3, TakerExists
  <2>5. i \notin out
    BY <1>2, <2>2, <2>4
  <2>6. i = j
    <3>1. SUFFICES ASSUME i # j PROVE FALSE
      OBVIOUS
    <3>2. Place(j) < Place(i)
      BY <2>1, <2>4, <3>1, TakerDeeper
    <3>3. Place(i) <= Place(j)
      BY <2>5
    <3> QED BY <1>1, <3>2, <3>3
  <2> QED BY <2>4, <2>6
<1>5. ASSUME NEW p \in Taken(j) PROVE p \in Shown(t, Mount(j))
  <2>1. p \in All /\ Lifted(j, p) /\ IsStrictPrefix(Mount(j), p)
    BY DEF Taken, Lifted, Mount
  <2>2. \A i \in out : p \notin Taken(i)
    BY OneTaker
  <2>3. SUFFICES p \in recipe.files \/ \E i \in out : p \in Above(Mount(i))
    <3>1. p \in tree
      BY <1>2, <2>2, <2>3
    <3> QED BY <1>3, <2>1, <3>1 DEF t
  <2>4. ASSUME NEW i \in Ids, p \in Above(Mount(i)) PROVE i \in out
    <3>1. IsSeq(Mount(i)) /\ IsSeq(Mount(j))
      BY AllSeqs
    <3>2. IsStrictPrefix(Mount(j), Mount(i))
      BY <2>1, <2>4, <3>1, AboveFacts
    <3>3. Place(j) < Place(i)
      BY <3>2, DepthFacts DEF Mount
    <3>4. i \notin out => Place(i) <= Place(j)
      OBVIOUS
    <3> QED BY <1>1, <3>3, <3>4
  <2> QED BY <2>1, <2>4, InAll
<1>6. Shown(t, Mount(j)) = Taken(j)
  BY <1>4, <1>5
<1> QED BY <1>6 DEF t

\* ... and afterwards it is moved out as well.
LEMMA OutTree ==
    ASSUME SlashInOrder, recipe \in Recipes, NEW out \in SUBSET Ids, NEW j \in Ids \ out,
           \A i \in out : Place(j) <= Place(i),
           MovedOut(tree, fsdir, out, out)
    PROVE  \A q : q \in (tree \union Above(Mount(j))) \ Taken(j)
                     <=> InTarget(q, out \union {j}, out \union {j})
<1>1. \A i \in Ids : Place(i) \in Nat
  BY PlaceFacts
<1>2. \A q : q \in tree <=>
          /\ q \in recipe.files \/ \E i \in out : q \in Above(Mount(i))
          /\ \A i \in out : q \notin Taken(i)
  BY InTree DEF InTarget
<1>3. ASSUME NEW q \in Above(Mount(j)), NEW i \in out, q \in Taken(i) PROVE FALSE
  <2>1. IsSeq(Mount(i)) /\ IsSeq(Mount(j)) /\ IsStrictPrefix(Mount(i), q)
    BY <1>3, AllSeqs DEF Taken, Lifted, Mount
  <2>2. IsSeq(Mount(i)) /\ IsStrictPrefix(Mount(i), Mount(j))
    BY <2>1, AboveFacts
  <2>3. Place(i) < Place(j) /\ Place(j) <= Place(i)
    BY <2>2, DepthFacts DEF Mount
  <2> QED BY <1>1, <2>3
<1> DEFINE A(i) == Above(Mount(i))
           F == recipe.files
<1>4. \A q : q \in tree <=>
          /\ q \in F \/ \E i \in out : q \in A(i)
          /\ \A i \in out : q \notin Taken(i)
  BY <1>2
<1>5. \A q \in A(j), i \in out : q \notin Taken(i)
  BY <1>3
<1> HIDE DEF A, F
<1>6. \A q : q \in (tree \union A(j)) \ Taken(j) <=>
              /\ q \in F \/ \E i \in out \union {j} : q \in A(i)
              /\ \A i \in out \union {j} : q \notin Taken(i)
  BY <1>4, <1>5
<1> QED BY <1>6 DEF A, F, InTarget

LEMMA OutDirs ==
    ASSUME NEW out \in SUBSET Ids, NEW j \in Ids
    PROVE  [Dirs(out) EXCEPT ![j] = {Below(Mount(j), p) : p \in Taken(j)}] = Dirs(out \union {j})
<1> DEFINE B(i, T) == {Below(Mount(i), p) : p \in T}
<1>1. \A x : Dirs(x) = [i \in Ids |-> B(i, IF i \in x THEN Taken(i) ELSE {})]
  BY DEF Dirs, Mount
<1> HIDE DEF B
<1>2. [Dirs(out) EXCEPT ![j] = B(j, Taken(j))] = Dirs(out \union {j})
  <2>1. \A i \in Ids : (IF i = j THEN B(j, Taken(j)) ELSE B(i, IF i \in out THEN Taken(i) ELSE {}))
                           = B(i, IF i \in out \union {j} THEN Taken(i) ELSE {})
    OBVIOUS
  <2>2. [Dirs(out) EXCEPT ![j] = B(j, Taken(j))] =
          [i \in Ids |-> IF i = j THEN B(j, Taken(j)) ELSE B(i, IF i \in out THEN Taken(i) ELSE {})]
    BY <1>1
  <2>3. Dirs(out \union {j}) = [i \in Ids |-> B(i, IF i \in out \union {j} THEN Taken(i) ELSE {})]
    BY <1>1
  <2> QED BY <2>1, <2>2, <2>3
<1> QED BY <1>2 DEF B

LEMMA BackDirs ==
    ASSUME NEW in \in SUBSET Ids, NEW j \in in
    PROVE  /\ Dirs(in)[j] = {Below(Mount(j), p) : p \in Taken(j)}
           /\ [Dirs(in) EXCEPT ![j] = {}] = Dirs(in \ {j})
<1> DEFINE B(i, T) == {Below(Mount(i), p) : p \in T}
<1>1. \A x : Dirs(x) = [i \in Ids |-> B(i, IF i \in x THEN Taken(i) ELSE {})]
  BY DEF Dirs, Mount
<1>0. B(j, {}) = {}
  OBVIOUS
<1> HIDE DEF B
<1>2. [Dirs(in) EXCEPT ![j] = {}] = Dirs(in \ {j})
  <2>1. \A i \in Ids : (IF i = j THEN {} ELSE B(i, IF i \in in THEN Taken(i) ELSE {}))
                           = B(i, IF i \in in \ {j} THEN Taken(i) ELSE {})
    BY <1>0
  <2>2. [Dirs(in) EXCEPT ![j] = {}] =
          [i \in Ids |-> IF i = j THEN {} ELSE B(i, IF i \in in THEN Taken(i) ELSE {})]
    BY <1>1
  <2>3. Dirs(in \ {j}) = [i \in Ids |-> B(i, IF i \in in \ {j} THEN Taken(i) ELSE {})]
    BY <1>1
  <2> QED BY <2>1, <2>2, <2>3
<1>3. Dirs(in)[j] = B(j, Taken(j))
  BY <1>1
<1> QED BY <1>2, <1>3 DEF B

\* What lies below a directory of a directory.
LEMMA BelowName ==
    ASSUME NEW m, NEW h, NEW q, IsSeq(m), IsSeq(q), IsStrictPrefix(m \o <<h>>, q)
    PROVE  IsStrictPrefix(m, q) /\ q[Len(m) + 1] = h
<1> DEFINE V == ToSet(m) \union {h}
           c == m \o <<h>>
<1>1. m \in Seq(V) /\ <<h>> \in Seq(V) /\ Len(m) \in Nat
  BY DEF IsSeq
<1> HIDE DEF V
<1>2. /\ c \in Seq(V) /\ Len(c) = Len(m) + 1
      /\ \A k \in 1..Len(m) : c[k] = m[k]
      /\ c[Len(m) + 1] = h
  BY <1>1
<1>0. IsStrictPrefix(c, q)
  OBVIOUS
<1> HIDE DEF c
<1>3. IsSeq(c)
  BY <1>2, SeqIsSeq
<1>4. Len(c) < Len(q) /\ Len(q) \in Nat /\ \A k \in 1..Len(c) : c[k] = q[k]
  BY <1>0, <1>3, PrefixFacts
<1>5. q[Len(m) + 1] = h
  BY <1>1, <1>2, <1>4
<1>6. Len(m) < Len(q) /\ \A k \in 1..Len(m) : m[k] = q[k]
  BY <1>1, <1>2, <1>4
<1> QED BY <1>5, <1>6, PrefixFacts

\* A file system in turn is moved back: mv finds its target, and no directory in the way
\* that is not empty.
LEMMA BackFree ==
    ASSUME SlashInOrder, recipe \in Recipes, NEW in \in SUBSET Ids, NEW j \in in,
           \A i \in in : Place(j) <= Place(i),
           \A i \in Ids \ in : Place(i) <= Place(j),
           MovedOut(tree, fsdir, Ids, in)
    PROVE  /\ Mount(j) = <<>> \/ Mount(j) \in tree
           /\ \A b \in fsdir[j] : /\ Head(b) \notin Dot
                                  /\ Children(tree, Mount(j) \o <<Head(b)>>) = {}
<1>1. \A i \in Ids : Place(i) \in Nat
  BY PlaceFacts
<1>2. \A q : q \in tree <=>
          /\ q \in recipe.files \/ \E i \in Ids : q \in Above(Mount(i))
          /\ \A i \in in : q \notin Taken(i)
  BY InTree DEF InTarget
<1>3. IsSeq(Mount(j)) /\ \A i \in Ids : IsSeq(Mount(i))
  BY AllSeqs
<1>4. ASSUME Mount(j) # <<>> PROVE Mount(j) \in tree
  <2> DEFINE m == Mount(j)
  <2>1. m \in Above(m)
    <3>1. m \in Seq(ToSet(m)) /\ m # <<>>
      BY <1>3, <1>4 DEF IsSeq
    <3> HIDE DEF m
    <3>2. Len(m) \in 1..Len(m)
      BY <3>1
    <3>3. SubSeq(m, 1, Len(m)) = m
      BY <3>1, SubSeqFull
    <3> QED BY <3>2, <3>3 DEF Above
  <2>2. ASSUME NEW i \in in, m \in Taken(i) PROVE FALSE
    <3>1. IsStrictPrefix(Mount(i), Mount(j))
      BY <2>2 DEF Taken, Lifted, Mount
    <3>2. Place(i) < Place(j) /\ Place(j) <= Place(i)
      BY <3>1, DepthFacts DEF Mount
    <3> QED BY <1>1, <3>2
  <2> QED BY <1>2, <2>1, <2>2
<1>5. ASSUME NEW b \in fsdir[j] PROVE Head(b) \notin Dot
  <2>1. PICK p \in Taken(j) : b = Below(Mount(j), p)
    <3>1. fsdir = Dirs(in)
      BY DEF MovedOut
    <3>2. fsdir[j] = {Below(Mount(j), p) : p \in Taken(j)}
      BY <3>1, BackDirs
    <3> QED BY <3>2
  <2>2. IsSeq(p) /\ IsStrictPrefix(Mount(j), p) /\ p[Len(Mount(j)) + 1] \notin Dot
    BY AllSeqs DEF Taken, Lifted, Mount
  <2> QED BY <1>3, <2>1, <2>2, BelowFacts
<1>6. ASSUME NEW b \in fsdir[j], NEW q \in tree, IsStrictPrefix(Mount(j) \o <<Head(b)>>, q)
      PROVE  FALSE
  <2>1. q \in All
    BY <1>2, InAll
  <2>2. IsSeq(q)
    BY <2>1, AllSeqs
  <2>3. IsStrictPrefix(Mount(j), q) /\ q[Len(Mount(j)) + 1] = Head(b)
    BY <1>3, <1>6, <2>2, BelowName
  <2>4. Lifted(j, q)
    BY <1>5, <2>3 DEF Lifted, Mount
  <2>5. PICK i \in Ids : q \in Taken(i)
    BY <2>1, <2>4, TakerExists
  <2>6. i \notin in
    BY <1>2, <2>5
  <2>7. Place(j) < Place(i)
    BY <2>4, <2>5, <2>6, TakerDeeper
  <2>8. Place(i) <= Place(j)
    BY <2>6
  <2> QED BY <1>1, <2>7, <2>8
<1>7. \A b \in fsdir[j] : Children(tree, Mount(j) \o <<Head(b)>>) = {}
  BY <1>6 DEF Children
<1> QED BY <1>4, <1>5, <1>7

\* ... and afterwards it is back.
LEMMA BackTree ==
    ASSUME SlashInOrder, recipe \in Recipes, NEW in \in SUBSET Ids, NEW j \in in,
           MovedOut(tree, fsdir, Ids, in)
    PROVE  \A q : q \in tree \union Taken(j) <=> InTarget(q, Ids, in \ {j})
<1>1. \A q : q \in tree <=> q \in All /\ \A i \in in : q \notin Taken(i)
  <2>1. \A q : q \in tree <=>
            /\ q \in recipe.files \/ \E i \in Ids : q \in Above(Mount(i))
            /\ \A i \in in : q \notin Taken(i)
    BY InTree DEF InTarget
  <2> QED BY <2>1, InAll
<1>2. \A q \in Taken(j) : q \in All /\ \A i \in in \ {j} : q \notin Taken(i)
  BY OneTaker DEF Taken
<1>3. \A q : q \in tree \union Taken(j) <=> q \in All /\ \A i \in in \ {j} : q \notin Taken(i)
  BY <1>1, <1>2
<1> QED BY <1>3, InAll DEF InTarget

-----------------------------------------------------------------------------
(* The moves.                                                              *)

\* A list without its head.
LEMMA TailFacts ==
    ASSUME recipe \in Recipes, NEW s \in Seq(Ids), s # <<>>, IsInjective(s)
    PROVE  /\ Head(s) \in Ids /\ Head(s) \in ToSet(s)
           /\ Tail(s) \in Seq(Ids) /\ IsInjective(Tail(s))
           /\ ToSet(s) \subseteq Ids /\ ToSet(Tail(s)) = ToSet(s) \ {Head(s)}
           /\ Len(s) = 1 => Tail(s) = <<>>
           /\ Tail(s) = <<>> => Len(s) = 1
           /\ Rising(s) => /\ Rising(Tail(s))
                           /\ \A i \in ToSet(s) : Place(i) <= Place(Head(s))
           /\ Deepening(s) => /\ Deepening(Tail(s))
                              /\ \A i \in ToSet(s) : Place(Head(s)) <= Place(i)
<1> DEFINE n == Len(s)
           h == Head(s)
           t == Tail(s)
<1>1. n \in Nat /\ 1 <= n /\ DOMAIN s = 1..n /\ \A k \in 1..n : s[k] \in Ids
  OBVIOUS
<1>2. h = s[1]
  OBVIOUS
<1>3. t \in Seq(Ids) /\ Len(t) = n - 1 /\ DOMAIN t = 1..(n - 1)
  OBVIOUS
<1>4. \A k \in 1..(n - 1) : t[k] = s[k + 1]
  OBVIOUS
<1>5. ToSet(s) = {s[k] : k \in 1..n}
  BY <1>1 DEF ToSet
<1>7. \A i \in Ids : Place(i) \in Nat
  BY PlaceFacts
<1> HIDE DEF n, t, h
<1>6. (n = 1 => t = <<>>) /\ (t = <<>> => n = 1)
  BY <1>1, <1>3
<1>8. ToSet(t) = {t[k] : k \in 1..(n - 1)}
  BY <1>3 DEF ToSet
<1>9. \A k \in 1..(n - 1) : k + 1 \in 1..n /\ k + 1 # 1
  BY <1>1
<1>10. \A k, l \in 1..n : s[k] = s[l] => k = l
  BY <1>1 DEF IsInjective
<1>11. IsInjective(t)
  <2> SUFFICES ASSUME NEW a \in 1..(n - 1), NEW b \in 1..(n - 1), t[a] = t[b] PROVE a = b
    BY <1>3 DEF IsInjective
  <2>1. s[a + 1] = s[b + 1]
    BY <1>4
  <2>2. a + 1 = b + 1
    BY <1>9, <1>10, <2>1
  <2> QED BY <1>1, <2>2
<1>12. h \in ToSet(s) /\ h \in Ids
  BY <1>1, <1>2, <1>5
<1>13. ToSet(t) = ToSet(s) \ {h}
  <2>1. ASSUME NEW k \in 1..(n - 1) PROVE t[k] \in ToSet(s) \ {h}
    <3>1. t[k] = s[k + 1] /\ k + 1 \in 1..n /\ k + 1 # 1 /\ 1 \in 1..n
      BY <1>1, <1>4, <1>9
    <3> QED BY <1>2, <1>5, <1>10, <3>1
  <2>2. ASSUME NEW k \in 1..n, s[k] # h PROVE \E l \in 1..(n - 1) : t[l] = s[k]
    <3>1. k # 1
      BY <1>2, <2>2
    <3>2. k - 1 \in 1..(n - 1) /\ (k - 1) + 1 = k
      BY <1>1, <3>1
    <3>3. t[k - 1] = s[k]
      BY <1>4, <3>2
    <3> QED BY <3>2, <3>3
  <2> QED BY <1>5, <1>8, <2>1, <2>2
<1>14. ASSUME Rising(s)
       PROVE  Rising(t) /\ \A i \in ToSet(s) : Place(i) <= Place(h)
  <2>1. \A a, b \in 1..n : a < b => Place(s[b]) <= Place(s[a])
    BY <1>1, <1>14 DEF Rising
  <2>2. Rising(t)
    <3> SUFFICES ASSUME NEW a \in 1..(n - 1), NEW b \in 1..(n - 1), a < b
                 PROVE  Place(t[b]) <= Place(t[a])
      BY <1>3 DEF Rising
    <3>1. a + 1 < b + 1
      BY <1>1
    <3> QED BY <1>4, <1>9, <2>1, <3>1
  <2>3. ASSUME NEW k \in 1..n PROVE Place(s[k]) <= Place(h)
    <3>1. CASE k = 1
      BY <1>2, <1>7, <1>12, <3>1
    <3>2. CASE 1 < k
      BY <1>1, <1>2, <2>1, <3>2
    <3> QED BY <1>1, <3>1, <3>2
  <2> QED BY <1>5, <2>2, <2>3
<1>15. ASSUME Deepening(s)
       PROVE  Deepening(t) /\ \A i \in ToSet(s) : Place(h) <= Place(i)
  <2>1. \A a, b \in 1..n : a < b => Place(s[a]) <= Place(s[b])
    BY <1>1, <1>15 DEF Deepening
  <2>2. Deepening(t)
    <3> SUFFICES ASSUME NEW a \in 1..(n - 1), NEW b \in 1..(n - 1), a < b
                 PROVE  Place(t[a]) <= Place(t[b])
      BY <1>3 DEF Deepening
    <3>1. a + 1 < b + 1
      BY <1>1
    <3> QED BY <1>4, <1>9, <2>1, <3>1
  <2>3. ASSUME NEW k \in 1..n PROVE Place(h) <= Place(s[k])
    <3>1. CASE k = 1
      BY <1>2, <1>7, <1>12, <3>1
    <3>2. CASE 1 < k
      BY <1>1, <1>2, <2>1, <3>2
    <3> QED BY <1>1, <3>1, <3>2
  <2> QED BY <1>5, <2>2, <2>3
<1>16. ToSet(s) \subseteq Ids
  BY <1>1, <1>5
<1> QED BY <1>3, <1>6, <1>11, <1>12, <1>13, <1>14, <1>15, <1>16 DEF n, t, h

\* The list of all mount points from its end.
LEMMA ReverseFacts ==
    ASSUME NEW s \in Seq(Ids), IsInjective(s), Deepening(s)
    PROVE  /\ Reverse(s) \in Seq(Ids) /\ IsInjective(Reverse(s)) /\ Rising(Reverse(s))
           /\ ToSet(Reverse(s)) = ToSet(s)
<1> DEFINE n == Len(s)
           r == Reverse(s)
<1>1. n \in Nat /\ DOMAIN s = 1..n /\ \A k \in 1..n : s[k] \in Ids
  OBVIOUS
<1>2. r = [i \in 1..n |-> s[(n - i) + 1]]
  BY DEF Reverse
<1> HIDE DEF n, r
<1>3. \A i \in 1..n : (n - i) + 1 \in 1..n
  BY <1>1
<1>4. r \in Seq(Ids) /\ DOMAIN r = 1..n /\ \A i \in 1..n : r[i] = s[(n - i) + 1]
  BY <1>1, <1>2, <1>3
<1>5. IsInjective(r)
  <2> SUFFICES ASSUME NEW a \in 1..n, NEW b \in 1..n, r[a] = r[b] PROVE a = b
    BY <1>4 DEF IsInjective
  <2>1. (n - a) + 1 = (n - b) + 1
    BY <1>1, <1>3, <1>4 DEF IsInjective
  <2> QED BY <1>1, <2>1
<1>6. Rising(r)
  <2> SUFFICES ASSUME NEW a \in 1..n, NEW b \in 1..n, a < b
               PROVE  Place(r[b]) <= Place(r[a])
    BY <1>4 DEF Rising
  <2>1. (n - b) + 1 < (n - a) + 1
    BY <1>1
  <2>2. Place(s[(n - b) + 1]) <= Place(s[(n - a) + 1])
    BY <1>1, <1>3, <2>1 DEF Deepening
  <2> QED BY <1>4, <2>2
<1>7. ToSet(r) = ToSet(s)
  <2>1. ASSUME NEW k \in 1..n PROVE \E i \in 1..n : r[i] = s[k]
    <3>1. (n - k) + 1 \in 1..n /\ (n - ((n - k) + 1)) + 1 = k
      BY <1>1
    <3> QED BY <1>4, <3>1
  <2>2. ToSet(s) = {s[k] : k \in 1..n} /\ ToSet(r) = {r[k] : k \in 1..n}
    BY <1>1, <1>4 DEF ToSet
  <2>3. ASSUME NEW k \in 1..n PROVE r[k] \in ToSet(s)
    <3>1. (n - k) + 1 \in 1..n
      BY <1>1
    <3> QED BY <1>4, <2>2, <3>1
  <2> QED BY <2>1, <2>2, <2>3
<1> QED BY <1>4, <1>5, <1>6, <1>7 DEF r

\* One turn of do_hdimg: mkdir -p and mv.
LEMMA OutStep ==
    ASSUME SlashInOrder, recipe \in Recipes, MovingOut(todo, tree, fsdir), todo # <<>>, MoveOut
    PROVE  /\ MovingOut(todo', tree', fsdir')
           /\ todo' = <<>> => MovedOut(tree', fsdir', Ids, Ids)
<1> DEFINE in == ToSet(todo)
           out == Ids \ in
           j == Head(todo)
           made == out \union {j}
<1>1. /\ todo \in Seq(Ids) /\ IsInjective(todo) /\ Rising(todo)
      /\ \A i \in out, k \in in : Place(k) <= Place(i)
      /\ MovedOut(tree, fsdir, out, out)
  BY DEF MovingOut
<1>2. todo' = Tail(todo)
  BY DEF MoveOut
<1>3. /\ j \in Ids /\ j \in in /\ in \subseteq Ids /\ ToSet(todo') = in \ {j}
      /\ todo' \in Seq(Ids) /\ IsInjective(todo') /\ Rising(todo')
      /\ \A i \in in : Place(i) <= Place(j)
  BY <1>1, <1>2, TailFacts
<1>4. /\ tree' = (tree \union Above(Mount(j))) \ Shown(tree \union Above(Mount(j)), Mount(j))
      /\ fsdir' = [fsdir EXCEPT ![j] = {Below(Mount(j), p) :
                                           p \in Shown(tree \union Above(Mount(j)), Mount(j))}]
  BY DEF MoveOut, Mount
<1> HIDE DEF in, out, j
<1>5. /\ out \in SUBSET Ids /\ j \in Ids \ out /\ Ids \ out = in
      /\ Ids \ ToSet(todo') = made /\ made \in SUBSET Ids
  BY <1>3 DEF out
<1>d. fsdir = Dirs(out)
  BY <1>1 DEF MovedOut
<1>6. Shown(tree \union Above(Mount(j)), Mount(j)) = Taken(j)
  BY <1>1, <1>3, <1>5, OutShown
<1>7. \A q : q \in tree' <=> InTarget(q, made, made)
  <2>1. \A i \in out : Place(j) <= Place(i)
    BY <1>1, <1>3
  <2> QED BY <1>1, <1>4, <1>5, <1>6, <2>1, OutTree
<1>8. fsdir' = Dirs(made)
  BY <1>4, <1>5, <1>6, <1>d, OutDirs
<1>9. MovedOut(tree', fsdir', made, made)
  BY <1>5, <1>7, <1>8, InTree
<1>10. \A i \in Ids \ ToSet(todo'), k \in ToSet(todo') : Place(k) <= Place(i)
  <2> SUFFICES ASSUME NEW i \in made, NEW k \in in \ {j} PROVE Place(k) <= Place(i)
    BY <1>3, <1>5
  <2>1. CASE i \in out
    BY <1>1, <2>1
  <2>2. CASE i = j
    BY <1>3, <2>2
  <2> QED BY <2>1, <2>2
<1>11. MovingOut(todo', tree', fsdir')
  BY <1>3, <1>5, <1>9, <1>10 DEF MovingOut
<1>12. ASSUME todo' = <<>> PROVE MovedOut(tree', fsdir', Ids, Ids)
  <2>1. ToSet(todo') = {}
    BY <1>12 DEF ToSet
  <2>2. made = Ids
    BY <1>5, <2>1
  <2> QED BY <1>9, <2>2
<1> QED BY <1>11, <1>12

\* One turn of the finally clause: mv back.
LEMMA BackStep ==
    ASSUME SlashInOrder, recipe \in Recipes, MovingBack(todo, tree, fsdir), todo # <<>>, MoveBack
    PROVE  /\ MovingBack(todo', tree', fsdir')
           /\ todo' = <<>> => tree' = All
<1> DEFINE in == ToSet(todo)
           j == Head(todo)
           rest == in \ {j}
           free(b) == Children(tree, Mount(j) \o <<Head(b)>>) = {}
           moved == IF Mount(j) = <<>> \/ Mount(j) \in tree
                    THEN {b \in fsdir[j] : Head(b) \notin Dot /\ free(b)} ELSE {}
<1>1. /\ todo \in Seq(Ids) /\ IsInjective(todo) /\ Deepening(todo)
      /\ \A i \in Ids \ in, k \in in : Place(i) <= Place(k)
      /\ MovedOut(tree, fsdir, Ids, in)
  BY DEF MovingBack
<1>2. todo' = Tail(todo)
  BY DEF MoveBack
<1>3. /\ j \in Ids /\ j \in in /\ in \subseteq Ids /\ ToSet(todo') = rest
      /\ todo' \in Seq(Ids) /\ IsInjective(todo') /\ Deepening(todo')
      /\ \A i \in in : Place(j) <= Place(i)
  BY <1>1, <1>2, TailFacts
<1>4. /\ tree' = tree \union {Mount(j) \o b : b \in moved}
      /\ fsdir' = [fsdir EXCEPT ![j] = @ \ moved]
  BY DEF MoveBack, Mount
<1>5. moved = fsdir[j]
  <2>1. \A i \in Ids \ in : Place(i) <= Place(j)
    BY <1>1, <1>3
  <2>2. /\ Mount(j) = <<>> \/ Mount(j) \in tree
        /\ \A b \in fsdir[j] : Head(b) \notin Dot /\ free(b)
    <3> HIDE DEF in, j
    <3> QED BY <1>1, <1>3, <2>1, BackFree
  <2> HIDE DEF free, j
  <2> QED BY <2>2
<1> HIDE DEF in, j, rest, moved
<1>d. fsdir = Dirs(in)
  BY <1>1 DEF MovedOut
<1>6. fsdir[j] = {Below(Mount(j), p) : p \in Taken(j)}
  BY <1>3, <1>d, BackDirs
<1>7. {Mount(j) \o b : b \in moved} = Taken(j)
  BY <1>3, <1>5, <1>6, BelowTaken
<1>8. tree' = tree \union Taken(j)
  BY <1>4, <1>7
<1>r. rest \in SUBSET Ids /\ rest = in \ {j}
  BY <1>3 DEF rest
<1>9. \A q : q \in tree' <=> InTarget(q, Ids, rest)
  BY <1>1, <1>3, <1>8, BackTree DEF rest
<1>10. fsdir' = Dirs(rest)
  <2>1. fsdir' = [fsdir EXCEPT ![j] = {}]
    BY <1>4, <1>5
  <2>2. [fsdir EXCEPT ![j] = {}] = Dirs(rest)
    BY <1>1, <1>3, <1>r, <1>d, BackDirs DEF rest
  <2> QED BY <2>1, <2>2
<1>11. MovedOut(tree', fsdir', Ids, rest)
  BY <1>r, <1>9, <1>10, InTree
<1>12. \A i \in Ids \ ToSet(todo'), k \in ToSet(todo') : Place(i) <= Place(k)
  <2> SUFFICES ASSUME NEW i \in Ids \ rest, NEW k \in rest PROVE Place(i) <= Place(k)
    BY <1>3
  <2>1. k \in in
    BY <1>r
  <2>2. CASE i \notin in
    BY <1>1, <2>1, <2>2
  <2>3. CASE i = j
    BY <1>3, <2>1, <2>3
  <2> QED BY <1>r, <2>2, <2>3
<1>13. MovingBack(todo', tree', fsdir')
  BY <1>3, <1>11, <1>12 DEF MovingBack
<1>14. ASSUME todo' = <<>> PROVE tree' = All
  <2>1. rest = {}
    BY <1>3, <1>14 DEF ToSet
  <2>2. \A q : q \in tree' <=> q \in All
    BY <1>9, <2>1, InAll DEF InTarget
  <2> QED BY <2>2
<1> QED BY <1>13, <1>14

\* The recipe stays, and with it all that is computed from it.
LEMMA MoveFrame ==
    ASSUME recipe' = recipe
    PROVE  /\ Ids' = Ids /\ fslist' = fslist /\ All' = All
           /\ MovingOut(todo, tree, fsdir)' <=> MovingOut(todo', tree', fsdir')
           /\ MovingBack(todo, tree, fsdir)' <=> MovingBack(todo', tree', fsdir')
           /\ MovedOut(tree, fsdir, Ids, Ids)' <=> MovedOut(tree', fsdir', Ids, Ids)
           /\ Mounting(mounted, todo)' <=> Mounting(mounted', todo')
           /\ SlashInOrder' <=> SlashInOrder
<1>1. Ids' = Ids
  BY DEF Ids, Id, Alike, fstab
<1>2. fslist' = fslist
  BY DEF fslist, Registered, DepthList, MountDepth, Ids, Id, Alike, fstab
<1>3. All' = All
  BY DEF All, Ids, Id, Alike, fstab
<1>4. MovedOut(tree, fsdir, Ids, Ids)' <=> MovedOut(tree', fsdir', Ids, Ids)
  BY DEF MovedOut, Dirs, Taken, Lifted, All, Ids, Id, Alike, fstab
<1>5. MovingOut(todo, tree, fsdir)' <=> MovingOut(todo', tree', fsdir')
  BY <1>2 DEF MovingOut, Rising, Place, MovedOut, Dirs, Taken, Lifted, All, Ids, Id, Alike, fstab
<1>6. MovingBack(todo, tree, fsdir)' <=> MovingBack(todo', tree', fsdir')
  BY <1>2 DEF MovingBack, Deepening, Place, MovedOut, Dirs, Taken, Lifted, All, Ids, Id, Alike, fstab
<1>7. Mounting(mounted, todo)' <=> Mounting(mounted', todo')
  BY DEF Mounting, OuterFirst, Ids, Id, Alike, fstab
<1>8. SlashInOrder' <=> SlashInOrder
  BY DEF SlashInOrder, Fills, Labels, Entry, MountDepth, Ids, Id, Alike, fstab
<1> QED BY <1>1, <1>2, <1>3, <1>4, <1>5, <1>6, <1>7, <1>8

InTurn == {"moveout", "image", "part", "grub", "moveback"}

\* Where do_hdimg has not begun to move, or is done with it, it stays so.
LEMMA MoveRest ==
    ASSUME MoveInv, recipe' = recipe, tree' = tree, mounted' = mounted,
           pc \notin InTurn, pc' \notin InTurn
    PROVE  MoveInv'
<1>1. /\ recipe \in Recipes /\ mounted = <<>>
      /\ recipe.images # <<>> => tree = All
  BY DEF MoveInv, InTurn
<1>2. All' = All
  BY MoveFrame
<1>3. pc' \notin {"moveout", "image", "part", "grub", "moveback"}
  BY DEF InTurn
<1> QED BY <1>1, <1>2, <1>3 DEF MoveInv

\* While the images are made nothing is moved.
LEMMA MoveStay ==
    ASSUME MoveInv, recipe' = recipe, tree' = tree, fsdir' = fsdir,
           pc \in {"image", "part", "grub"}, pc' \in {"image", "part"}, mounted' = <<>>,
           pc' = "part" => GrubKeys(grub)'
    PROVE  MoveInv'
<1>1. recipe \in Recipes /\ MovedOut(tree, fsdir, Ids, Ids)
  BY DEF MoveInv
<1>2. Ids' = Ids /\ MovedOut(tree, fsdir, Ids, Ids)'
  BY <1>1, MoveFrame
<1> QED BY <1>1, <1>2 DEF MoveInv

\* Then everything is moved back.
LEMMA MoveTurn ==
    ASSUME MoveInv, recipe' = recipe, tree' = tree, fsdir' = fsdir,
           pc \in {"image", "part", "grub"}, pc' = "moveback", todo' = fslist, mounted' = <<>>
    PROVE  MoveInv'
<1>1. recipe \in Recipes /\ MovedOut(tree, fsdir, Ids, Ids)
  BY DEF MoveInv
<1>2. /\ todo' \in Seq(Ids) /\ IsInjective(todo') /\ Deepening(todo')
      /\ ToSet(todo') = Ids
  BY <1>1, FslistFacts, PlaceFacts
<1>3. MovingBack(todo', tree', fsdir')
  BY <1>1, <1>2 DEF MovingBack
<1>4. MovingBack(todo, tree, fsdir)'
  BY <1>3, MoveFrame
<1> QED BY <1>1, <1>4 DEF MoveInv

LEMMA MoveInit == InitBuild => MoveInv
<1> SUFFICES ASSUME InitBuild PROVE MoveInv
  OBVIOUS
<1>1. recipe \in Recipes /\ tree = recipe.files /\ fsdir = [i \in Ids |-> {}]
      /\ todo = Reverse(fslist) /\ mounted = <<>>
      /\ pc = IF recipe.images = <<>> THEN "archives" ELSE "moveout"
  BY DEF InitBuild, Init
<1>2. /\ todo \in Seq(Ids) /\ IsInjective(todo) /\ Rising(todo) /\ ToSet(todo) = Ids
  BY <1>1, FslistFacts, PlaceFacts, ReverseFacts
<1>3. MovedOut(tree, fsdir, {}, {})
  <2>1. Dirs({}) = fsdir
    BY <1>1 DEF Dirs
  <2>2. \A q : q \in tree <=> InTarget(q, {}, {})
    BY <1>1 DEF InTarget
  <2> QED BY <2>1, <2>2, InTree
<1>4. MovingOut(todo, tree, fsdir)
  BY <1>2, <1>3 DEF MovingOut
<1> QED BY <1>1, <1>4 DEF MoveInv

\* The head of a list at the end of another one.
LEMMA ShiftFacts ==
    ASSUME NEW S, NEW a \in Seq(S), NEW t \in Seq(S), t # <<>>
    PROVE  /\ Append(a, Head(t)) \in Seq(S) /\ Tail(t) \in Seq(S)
           /\ Append(a, Head(t)) \o Tail(t) = a \o t
<1> DEFINE b == Append(a, Head(t))
           u == Tail(t)
           c == b \o u
           d == a \o t
<1>1. /\ Len(a) \in Nat /\ Len(t) \in Nat /\ 1 <= Len(t) /\ Head(t) = t[1] /\ Head(t) \in S
  OBVIOUS
<1>2. /\ b \in Seq(S) /\ Len(b) = Len(a) + 1 /\ b[Len(a) + 1] = t[1]
      /\ \A k \in 1..Len(a) : b[k] = a[k]
  BY <1>1
<1>3. u \in Seq(S) /\ Len(u) = Len(t) - 1 /\ \A k \in 1..(Len(t) - 1) : u[k] = t[k + 1]
  OBVIOUS
<1> HIDE DEF b, u
<1>4. /\ c \in Seq(S) /\ Len(c) = Len(b) + Len(u)
      /\ \A k \in 1..(Len(b) + Len(u)) : c[k] = IF k <= Len(b) THEN b[k] ELSE u[k - Len(b)]
  BY <1>2, <1>3, ConcatProperties
<1>5. /\ d \in Seq(S) /\ Len(d) = Len(a) + Len(t)
      /\ \A k \in 1..(Len(a) + Len(t)) : d[k] = IF k <= Len(a) THEN a[k] ELSE t[k - Len(a)]
  BY ConcatProperties
<1> HIDE DEF c, d
<1>6. Len(c) = Len(d)
  BY <1>1, <1>2, <1>3, <1>4, <1>5
<1>7. ASSUME NEW k \in 1..Len(c) PROVE c[k] = d[k]
  <2>1. k \in Nat /\ k <= Len(a) + Len(t) /\ 1 <= k
    BY <1>1, <1>5, <1>6
  <2>c. c[k] = IF k <= Len(b) THEN b[k] ELSE u[k - Len(b)]
    BY <1>4
  <2>d. d[k] = IF k <= Len(a) THEN a[k] ELSE t[k - Len(a)]
    BY <1>5, <1>6
  <2>2. CASE k <= Len(a)
    <3>1. c[k] = b[k] /\ d[k] = a[k] /\ k \in 1..Len(a)
      BY <1>1, <1>2, <2>1, <2>2, <2>c, <2>d
    <3> QED BY <1>2, <3>1
  <2>3. CASE k = Len(a) + 1
    <3>1. c[k] = b[k] /\ d[k] = t[k - Len(a)] /\ k - Len(a) = 1
      BY <1>1, <1>2, <2>1, <2>3, <2>c, <2>d
    <3> QED BY <1>2, <2>3, <3>1
  <2>4. CASE k > Len(a) + 1
    <3>1. c[k] = u[k - Len(b)] /\ d[k] = t[k - Len(a)]
      BY <1>1, <1>2, <2>1, <2>4, <2>c, <2>d
    <3>2. k - Len(b) \in 1..(Len(t) - 1) /\ (k - Len(b)) + 1 = k - Len(a)
      BY <1>1, <1>2, <2>1, <2>4
    <3> QED BY <1>3, <3>1, <3>2
  <2> QED BY <1>1, <2>1, <2>2, <2>3, <2>4
<1>8. c = d
  BY <1>4, <1>5, <1>6, <1>7, SeqEqual
<1> QED BY <1>2, <1>3, <1>8 DEF b, u, c, d

\* What the partitions of an image are for stays as it is.
LEMMA FillsFrame ==
    ASSUME recipe' = recipe, img' = img
    PROVE  /\ Ids' = Ids /\ Image' = Image
           /\ \A k, i : Fills(Image, k, i)' <=> Fills(Image, k, i)
<1>1. Ids' = Ids /\ Labels' = Labels /\ fstab' = fstab /\ Image' = Image
  BY DEF Ids, Id, Alike, Labels, fstab, Image
<1>2. ASSUME NEW k, NEW i PROVE Fills(Image, k, i)' <=> Fills(Image, k, i)
  BY DEF Fills, Image, Labels, Entry, Id, Alike, fstab, Has
<1> QED BY <1>1, <1>2

\* The next partition is for no file system, for one that is a key already, or for a new one.
LEMMA GrubStep ==
    ASSUME DiskInv, GrubKeys(grub), pc = "part", pos <= Len(Image.parts),
           recipe' = recipe, img' = img, pos' = pos + 1,
           \/ grub' = grub
           \/ \E i \in Ids : Fills(Image, pos, i) /\ grub' = Append(grub, i)
    PROVE  GrubKeys(grub)'
<1>1. pos \in DOMAIN Image.parts /\ pos \in Nat /\ DOMAIN Image.parts \subseteq Nat
  <2>1. Image.parts \in Seq(ToSet(Image.parts))
    BY ImageFacts DEF DiskInv, IsDisk, IsSeq
  <2>2. pos \in DOMAIN Image.parts /\ DOMAIN Image.parts \subseteq Nat
    BY <2>1, PartFacts
  <2> QED BY <2>2
<1>2. DoneParts' = DoneParts \union {pos} /\ pos \notin DoneParts
  <2>1. DoneParts' = {k \in DOMAIN Image.parts : k < pos + 1}
    BY DEF DoneParts, Image
  <2> QED BY <1>1, <2>1 DEF DoneParts
<1>3. /\ grub \in Seq(Ids)
      /\ \A a \in DOMAIN grub : \E k \in DoneParts : Fills(Image, k, grub[a])
      /\ \A a, b \in DOMAIN grub : a < b =>
            \E k, l \in DoneParts : k < l /\ Fills(Image, k, grub[a]) /\ Fills(Image, l, grub[b])
  BY DEF GrubKeys
<1>4. SUFFICES
        /\ grub' \in Seq(Ids)
        /\ \A a \in DOMAIN grub' : \E k \in DoneParts' : Fills(Image, k, grub'[a])
        /\ \A a, b \in DOMAIN grub' : a < b =>
              \E k, l \in DoneParts' : k < l /\ Fills(Image, k, grub'[a]) /\ Fills(Image, l, grub'[b])
  BY FillsFrame DEF GrubKeys
<1>5. CASE grub' = grub
  BY <1>2, <1>3, <1>5
<1>6. ASSUME NEW i \in Ids, Fills(Image, pos, i), grub' = Append(grub, i)
      PROVE  /\ grub' \in Seq(Ids)
             /\ \A a \in DOMAIN grub' : \E k \in DoneParts' : Fills(Image, k, grub'[a])
             /\ \A a, b \in DOMAIN grub' : a < b =>
                   \E k, l \in DoneParts' :
                       k < l /\ Fills(Image, k, grub'[a]) /\ Fills(Image, l, grub'[b])
  <2> DEFINE n == Len(grub)
  <2>1. /\ grub' \in Seq(Ids) /\ n \in Nat /\ DOMAIN grub = 1..n /\ DOMAIN grub' = 1..(n + 1)
        /\ \A a \in 1..n : grub'[a] = grub[a]
        /\ grub'[n + 1] = i
    BY <1>3, <1>6
  <2> HIDE DEF n
  <2>2. ASSUME NEW a \in 1..(n + 1) PROVE \E k \in DoneParts' : Fills(Image, k, grub'[a])
    <3>1. CASE a \in 1..n
      BY <1>2, <1>3, <2>1, <3>1
    <3>2. CASE a = n + 1
      BY <1>2, <1>6, <2>1, <3>2
    <3> QED BY <2>1, <3>1, <3>2
  <2>3. ASSUME NEW a \in 1..(n + 1), NEW b \in 1..(n + 1), a < b
        PROVE  \E k, l \in DoneParts' :
                   k < l /\ Fills(Image, k, grub'[a]) /\ Fills(Image, l, grub'[b])
    <3>1. a \in 1..n
      BY <2>1, <2>3
    <3>2. CASE b \in 1..n
      BY <1>2, <1>3, <2>1, <2>3, <3>1, <3>2
    <3>3. CASE b = n + 1
      <4>1. PICK k \in DoneParts : Fills(Image, k, grub[a])
        BY <1>3, <2>1, <3>1
      <4>2. k < pos
        BY DEF DoneParts
      <4>3. Fills(Image, k, grub'[a]) /\ Fills(Image, pos, grub'[b])
        BY <1>6, <2>1, <3>1, <3>3, <4>1
      <4> QED BY <1>2, <4>2, <4>3
    <3> QED BY <2>1, <3>2, <3>3
  <2> QED BY <2>1, <2>2, <2>3
<1> QED BY <1>5, <1>6

\* The images of a target.
LEMMA MoveDoHdimg ==
    ASSUME SlashInOrder, DiskInv, MoveInv, DoHdimg
    PROVE  MoveInv'
<1>1. recipe \in Recipes
  BY DEF MoveInv
<1>2. CASE MoveOut
  <2>1. pc = "moveout" /\ todo # <<>> /\ recipe' = recipe /\ mounted' = mounted
    BY <1>2 DEF MoveOut
  <2>2. mounted' = <<>> /\ MovingOut(todo, tree, fsdir)
    BY <2>1 DEF MoveInv
  <2>3. MovingOut(todo', tree', fsdir') /\ (todo' = <<>> => MovedOut(tree', fsdir', Ids, Ids))
    BY <1>1, <1>2, <2>1, <2>2, OutStep
  <2>4. pc' \in {"image", "moveout"} /\ (pc' = "image" => todo' = <<>>)
    BY <1>1, <1>2, <2>1, <2>2, TailFacts DEF MoveOut, MovingOut
  <2>5. MovingOut(todo, tree, fsdir)' /\ (pc' = "image" => MovedOut(tree, fsdir, Ids, Ids)')
    BY <2>1, <2>3, <2>4, MoveFrame
  <2> QED BY <1>1, <2>1, <2>2, <2>4, <2>5 DEF MoveInv
<1>3. CASE StartDisk
  <2>1. mounted = <<>>
    BY <1>3 DEF MoveInv, StartDisk
  <2>2. GrubKeys(grub)'
    <3>1. grub' = <<>>
      BY <1>3 DEF StartDisk
    <3> QED BY <3>1 DEF GrubKeys
  <2> QED BY <1>3, <2>1, <2>2, MoveStay DEF StartDisk
<1>4. CASE MkfsMtd
  <2>1. mounted = <<>>
    BY <1>4 DEF MoveInv, MkfsMtd
  <2> QED BY <1>4, <2>1, MoveStay DEF MkfsMtd
<1>5. CASE CreateEmpty \/ CreateBinary
  <2>1. mounted = <<>> /\ GrubKeys(grub)
    BY <1>5 DEF MoveInv, CreateEmpty, CreateBinary
  <2>2. GrubKeys(grub)'
    BY <1>5, <2>1, GrubStep DEF CreateEmpty, CreateBinary, AddToTable
  <2> QED BY <1>5, <2>1, <2>2, MoveStay DEF CreateEmpty, CreateBinary
<1>6. CASE CreateLabel
  <2>1. mounted = <<>> /\ GrubKeys(grub)
    BY <1>6 DEF MoveInv, CreateLabel
  <2> DEFINE id == Id(Entry(Part.label))
  <2>2. Has(Part, "label") /\ Part.label \in Labels
    BY <1>6 DEF CreateLabel, HasContent
  <2>3. id \in Ids /\ Fills(Image, pos, id)
    BY <1>1, <2>2, EntryFacts, IdFacts DEF Fills, Part
  <2>4. grub' = grub \/ grub' = Append(grub, id)
    BY <1>6 DEF CreateLabel
  <2> HIDE DEF id
  <2>5. GrubKeys(grub)'
    BY <1>6, <2>1, <2>3, <2>4, GrubStep DEF CreateLabel, AddToTable
  <2> QED BY <1>6, <2>1, <2>5, MoveStay DEF CreateLabel
<1>7. CASE PartitionFails
  <2>1. mounted = <<>>
    BY <1>7 DEF MoveInv, PartitionFails
  <2> QED BY <1>7, <2>1, MoveTurn DEF PartitionFails, Raise
<1>8. CASE CommitDisk
  <2>1. mounted = <<>> /\ GrubKeys(grub) /\ MovedOut(tree, fsdir, Ids, Ids)
    BY <1>8 DEF MoveInv, CommitDisk
  <2>2. CASE pc' = "image"
    BY <1>8, <2>1, <2>2, MoveStay DEF CommitDisk
  <2>3. CASE pc' = "grub" /\ todo' = DepthList(grub)
    <3>0. /\ img \in DOMAIN recipe.images /\ Image.tag # "mtd" /\ Image.grub
          /\ DOMAIN Image.parts \subseteq Nat
      <4>1. img \in DOMAIN recipe.images /\ Image.tag # "mtd" /\ IsDisk(Image)
        BY <1>8, ImageFacts DEF CommitDisk, DiskInv
      <4>2. Image.grub
        BY <1>8, <2>3 DEF CommitDisk
      <4> QED BY <4>1, <4>2 DEF IsDisk, IsSeq
    <3>1. todo' \in Seq(Ids) /\ OuterFirst(todo')
      <4>1. DepthList(grub) \in Seq(Ids) /\ OuterFirst(DepthList(grub))
        BY <1>1, <2>1, <3>0, GrubFacts
      <4>2. OuterFirst(todo') <=> OuterFirst(DepthList(grub))
        BY <2>3 DEF OuterFirst
      <4> QED BY <2>3, <4>1, <4>2
    <3>2. mounted' \o todo' = todo'
      BY <1>8, <2>1, <3>1, ConcatEmptySeq DEF CommitDisk
    <3>3. Mounting(mounted', todo')
      BY <1>8, <2>1, <3>1, <3>2 DEF Mounting, CommitDisk
    <3>4. Mounting(mounted, todo)' /\ MovedOut(tree, fsdir, Ids, Ids)'
      BY <1>8, <2>1, <3>3, MoveFrame DEF CommitDisk
    <3>5. recipe' = recipe
      BY <1>8 DEF CommitDisk
    <3> QED BY <1>1, <2>3, <3>4, <3>5 DEF MoveInv
  <2> QED BY <1>8, <2>2, <2>3 DEF CommitDisk
<1>9. CASE GrubMount
  <2>1. /\ pc = "grub" /\ todo # <<>> /\ mounted' = Append(mounted, Head(todo)) /\ todo' = Tail(todo)
        /\ recipe' = recipe /\ pc' = pc /\ tree' = tree /\ fsdir' = fsdir
    BY <1>9 DEF GrubMount
  <2>2. /\ mounted \in Seq(Ids) /\ todo \in Seq(Ids) /\ OuterFirst(mounted \o todo)
        /\ MovedOut(tree, fsdir, Ids, Ids)
    BY <2>1 DEF MoveInv, Mounting
  <2>3. /\ mounted' \in Seq(Ids) /\ todo' \in Seq(Ids)
        /\ mounted' \o todo' = mounted \o todo
    BY <2>1, <2>2, ShiftFacts
  <2>5. Mounting(mounted', todo')
    BY <2>2, <2>3 DEF Mounting
  <2>6. Mounting(mounted, todo)' /\ MovedOut(tree, fsdir, Ids, Ids)'
    BY <2>1, <2>2, <2>5, MoveFrame
  <2> QED BY <1>1, <2>1, <2>6 DEF MoveInv
<1>10. CASE GrubLeave
  BY <1>10, MoveStay DEF GrubLeave
<1>11. CASE GrubRaises
  BY <1>11, MoveTurn DEF GrubRaises, Raise
<1>12. CASE EndImages
  <2>1. mounted = <<>>
    BY <1>12 DEF MoveInv, EndImages
  <2> QED BY <1>12, <2>1, MoveTurn DEF EndImages
<1>13. CASE MoveBack
  <2>1. pc = "moveback" /\ todo # <<>> /\ recipe' = recipe /\ mounted' = mounted
    BY <1>13 DEF MoveBack
  <2>2. mounted' = <<>> /\ MovingBack(todo, tree, fsdir)
    BY <2>1 DEF MoveInv
  <2>3. MovingBack(todo', tree', fsdir') /\ (todo' = <<>> => tree' = All)
    BY <1>1, <1>13, <2>1, <2>2, BackStep
  <2>4. pc' = "moveback" \/ (pc' \in {"failed", "ubinize"} /\ todo' = <<>>)
    <3>1. todo \in Seq(Ids) /\ IsInjective(todo) /\ todo' = Tail(todo)
      BY <1>13, <2>2 DEF MoveBack, MovingBack
    <3>2. CASE Len(todo) > 1
      BY <1>13, <2>1, <3>2 DEF MoveBack
    <3>3. CASE ~(Len(todo) > 1)
      <4>1. Len(todo) = 1
        <5>1. Len(todo) \in Nat \ {0}
          BY <2>1, <3>1, EmptySeq
        <5> DEFINE n == Len(todo)
        <5>2. n \in Nat \ {0} /\ ~(n > 1)
          BY <3>3, <5>1
        <5> HIDE DEF n
        <5>3. n = 1
          BY <5>2
        <5> QED BY <5>3 DEF n
      <4>2. todo' = <<>>
        BY <1>1, <2>1, <3>1, <4>1, TailFacts
      <4> QED BY <1>13, <3>3, <4>2 DEF MoveBack
    <3> QED BY <3>2, <3>3
  <2>5. MovingBack(todo, tree, fsdir)' /\ (todo' = <<>> => tree' = All')
    BY <2>1, <2>3, MoveFrame
  <2> QED BY <1>1, <2>1, <2>2, <2>4, <2>5 DEF MoveInv
<1>14. CASE BuildMtd
  BY <1>14, MoveRest DEF BuildMtd, InTurn
<1>15. CASE AddBlobs
  BY <1>15, MoveRest DEF AddBlobs, InTurn
<1>16. CASE SkipImage
  BY <1>16, MoveRest DEF SkipImage, InTurn
<1>17. CASE StartBlobs \/ ReturnImages
  BY <1>17, MoveRest DEF StartBlobs, ReturnImages, InTurn
<1> QED BY <1>2, <1>3, <1>4, <1>5, <1>6, <1>7, <1>8, <1>9, <1>10, <1>11, <1>12, <1>13, <1>14,
           <1>15, <1>16, <1>17 DEF DoHdimg

\* No step changes the recipe.
LEMMA RecipeStays ==
    ASSUME [Next]_vars
    PROVE  recipe' = recipe
<1>1. CASE DoHdimg
  BY <1>1 DEF DoHdimg, MoveOut, StartDisk, MkfsMtd, CreateEmpty, CreateBinary, CreateLabel,
              PartitionFails, CommitDisk, GrubMount, GrubLeave, GrubRaises, EndImages, MoveBack,
              BuildMtd, AddBlobs, SkipImage, StartBlobs, ReturnImages
<1>2. CASE ~DoHdimg
  BY <1>2 DEF Next, TakeImages, MakeArchive, EndArchives, FinetuningRaises, ChangeContent,
              RmArtifact, ImgConvert, SetPacker, ExtractPartition, CopyFromPartition, Artifact,
              Finetune, EndFinetuning, EndPack, PackImage, diskvars, diskRest, vars
<1> QED BY <1>1, <1>2

LEMMA MoveNext == SlashInOrder /\ DiskInv /\ MoveInv /\ [Next]_vars => MoveInv'
<1> SUFFICES ASSUME SlashInOrder, DiskInv, MoveInv, [Next]_vars PROVE MoveInv'
  OBVIOUS
<1>1. CASE DoHdimg
  BY <1>1, MoveDoHdimg
<1>2. CASE TakeImages \/ MakeArchive \/ EndArchives
  BY <1>2, MoveRest DEF TakeImages, MakeArchive, EndArchives, diskvars, diskRest, InTurn
<1>3. ASSUME Finetune, UNCHANGED diskRest, pc' \in {pc, "failed"} PROVE MoveInv'
  BY <1>3, MoveRest DEF Finetune, diskRest, InTurn
<1>4. CASE FinetuningRaises
  BY <1>3, <1>4 DEF FinetuningRaises, Finetune
<1>5. CASE ChangeContent \/ RmArtifact
  BY <1>3, <1>5 DEF ChangeContent, RmArtifact, Finetune
<1>6. CASE ImgConvert
  BY <1>3, <1>6 DEF ImgConvert, Finetune
<1>7. CASE SetPacker \/ ExtractPartition
  BY <1>3, <1>7 DEF SetPacker, ExtractPartition, Finetune
<1>8. CASE CopyFromPartition \/ Artifact
  BY <1>3, <1>8 DEF CopyFromPartition, Artifact, Finetune
<1>9. CASE EndFinetuning \/ EndPack
  BY <1>9, MoveRest DEF EndFinetuning, EndPack, diskRest, InTurn
<1>10. CASE PackImage
  BY <1>10, MoveRest DEF PackImage, diskRest, InTurn
<1>11. CASE UNCHANGED vars
  <2>1. UNCHANGED <<recipe, pc, tree, fsdir, todo, mounted, grub, img, pos>>
    BY <1>11 DEF vars, diskvars
  <2>2. GrubKeys(grub)' <=> GrubKeys(grub)
    <3>1. DoneParts' = DoneParts
      BY <2>1 DEF DoneParts, Image
    <3> QED BY <2>1, <3>1, FillsFrame DEF GrubKeys
  <2> QED BY <2>1, <2>2, MoveFrame DEF MoveInv
<1> QED BY <1>1, <1>2, <1>4, <1>5, <1>6, <1>7, <1>8, <1>9, <1>10, <1>11 DEF Next

\* The owner of a file is the file system that it belongs to.
LEMMA OwnerFacts ==
    ASSUME recipe \in Recipes, NEW p \in recipe.files, Owned(p)
    PROVE  /\ Owner(p) \in Ids /\ IsStrictPrefix(Mount(Owner(p)), p)
           /\ \A j \in Ids : IsStrictPrefix(Mount(j), p) => Len(Mount(j)) <= Len(Mount(Owner(p)))
<1> DEFINE L == {i \in Ids : IsStrictPrefix(Mount(i), p)}
           N == {Len(p) - Len(Mount(i)) : i \in L}
<1>1. ASSUME NEW i \in L PROVE Len(Mount(i)) \in Nat /\ Len(p) \in Nat /\ Len(Mount(i)) < Len(p)
  <2>1. IsSeq(Mount(i)) /\ IsSeq(p) /\ IsStrictPrefix(Mount(i), p)
    BY AllSeqs, InAll
  <2> QED BY <2>1, PrefixFacts
<1>2. N \in SUBSET Nat /\ N # {}
  BY <1>1 DEF Owned, Mount
<1>3. PICK n \in N : \A m \in N : n <= m
  BY <1>2, NatLeast
<1>4. PICK i \in L : n = Len(p) - Len(Mount(i))
  OBVIOUS
<1>5. ASSUME NEW j \in L PROVE Len(Mount(j)) <= Len(Mount(i))
  <2>1. Len(p) - Len(Mount(i)) <= Len(p) - Len(Mount(j))
    BY <1>3, <1>4
  <2>2. Len(Mount(i)) \in Nat /\ Len(Mount(j)) \in Nat /\ Len(p) \in Nat
    BY <1>1
  <2> QED BY <2>1, <2>2
<1>6. \E k \in Ids : /\ IsStrictPrefix(fstab[k].mount, p)
                     /\ \A j \in Ids : IsStrictPrefix(fstab[j].mount, p)
                                          => Len(fstab[j].mount) <= Len(fstab[k].mount)
  BY <1>4, <1>5 DEF Mount
<1> QED BY <1>6 DEF Owner, Mount

LEMMA MoveOwn == MoveInv => OwnFileSystem
<1> SUFFICES ASSUME MoveInv PROVE OwnFileSystem
  OBVIOUS
<1>1. recipe \in Recipes
  BY DEF MoveInv
<1>2. ASSUME pc \in {"image", "part", "grub"}, NEW p \in recipe.files PROVE Hidden(p) \/ Apart(p)
  <2>1. CASE ~Owned(p)
    BY <2>1 DEF Apart
  <2>2. CASE Owned(p)
    <3> DEFINE o == Owner(p)
    <3>1. /\ o \in Ids /\ IsStrictPrefix(Mount(o), p)
          /\ \A j \in Ids : IsStrictPrefix(Mount(j), p) => Len(Mount(j)) <= Len(Mount(o))
      BY <1>1, <2>2, OwnerFacts
    <3> HIDE DEF o
    <3>2. CASE p[Len(Mount(o)) + 1] \in Dot
      BY <2>2, <3>2 DEF Hidden, Mount, o
    <3>3. CASE p[Len(Mount(o)) + 1] \notin Dot
      <4>1. p \in Taken(o)
        BY <3>1, <3>3, InAll DEF Taken, Lifted, Mount
      <4>2. fsdir = Dirs(Ids)
        BY <1>2 DEF MoveInv, MovedOut
      <4>3. fsdir[o] = {Below(Mount(o), q) : q \in Taken(o)}
        BY <3>1, <4>2, BackDirs
      <4>4. Below(Mount(o), p) \in fsdir[o]
        BY <4>1, <4>3
      <4> QED BY <4>4 DEF Apart, Mount, o
    <3> QED BY <3>2, <3>3
  <2> QED BY <2>1, <2>2
<1>3. ASSUME NEW i \in DOMAIN mounted, NEW j \in DOMAIN mounted, i < j,
             IsStrictPrefix(fstab[mounted[j]].mount, fstab[mounted[i]].mount)
      PROVE  FALSE
  <2>1. pc = "grub"
    BY <1>3 DEF MoveInv
  <2>2. mounted \in Seq(Ids) /\ todo \in Seq(Ids) /\ OuterFirst(mounted \o todo)
    BY <2>1 DEF MoveInv, Mounting
  <2> DEFINE c == mounted \o todo
  <2>3. /\ i \in 1..Len(mounted) /\ j \in 1..Len(mounted)
        /\ mounted[i] \in Ids /\ mounted[j] \in Ids
    BY <2>2
  <2>4. i \in DOMAIN c /\ j \in DOMAIN c /\ c[i] = mounted[i] /\ c[j] = mounted[j]
    <3>1. /\ c \in Seq(Ids) /\ Len(c) = Len(mounted) + Len(todo)
          /\ \A k \in 1..Len(mounted) : c[k] = mounted[k]
          /\ Len(mounted) \in Nat /\ Len(todo) \in Nat
      BY <2>2, ConcatFacts
    <3> HIDE DEF c
    <3> QED BY <2>3, <3>1
  <2> HIDE DEF c
  <2> QED BY <1>3, <2>2, <2>4 DEF OuterFirst, c
<1>4. pc \in {"ubinize", "blobs", "archives", "failed"} /\ recipe.images # <<>> => tree = All
  BY DEF MoveInv
<1> QED BY <1>2, <1>3, <1>4 DEF OwnFileSystem, OuterFirst, All

\* Every file is moved to its own file system while the images are made, the boot loader
\* sees every file system, and the target is as it was afterwards, whatever failed.
THEOREM OwnFileSystemHolds == Spec /\ SlashInOrder => []OwnFileSystem
<1> DEFINE Inv == SlashInOrder /\ DiskInv /\ WrittenKept /\ MoveInv
<1>1. InitBuild /\ SlashInOrder => Inv
  BY DiskInit, MoveInit
<1>2. Inv /\ [Next]_vars => Inv'
  <2> SUFFICES ASSUME Inv, [Next]_vars PROVE Inv'
    OBVIOUS
  <2>1. SlashInOrder'
    BY RecipeStays, MoveFrame
  <2> QED BY <2>1, DiskNext, MoveNext
<1>3. Inv => OwnFileSystem
  BY MoveOwn
<1> QED BY <1>1, <1>2, <1>3, PTL DEF Spec

=============================================================================
