---------------------------- MODULE IndexingProofs ----------------------------
(***************************************************************************)
(* Proofs about Indexing, for every set of files and of passages, every    *)
(* number of versions and every size of a batch.                           *)
(*                                                                         *)
(*   Uploads      the job in progress is that of the latest version;       *)
(*   Lists        the lists of a job are sequences;                        *)
(*   Vectors      the vectors so far are those of the first chunks to      *)
(*                embed, in their order;                                   *)
(*   Comparison   what is stale comes from one comparison with the         *)
(*                version that is still the latest completed one;          *)
(*   Placed       every row stands where the chunker put a chunk of its    *)
(*                version.                                                 *)
(***************************************************************************)
EXTENDS Indexing, TLAPS, SequenceTheorems, FiniteSetTheorems, WellFoundedInduction

IsList(s) == s \in Seq({s[i] : i \in DOMAIN s})

\* A function on 1 .. n is a list.
LEMMA FunctionIsList ==
  ASSUME NEW n \in Nat, NEW s, DOMAIN s = 1 .. n, s = [i \in 1 .. n |-> s[i]]
  PROVE  IsList(s) /\ Len(s) = n
<1> DEFINE S == {s[i] : i \in DOMAIN s}
<1>1. s \in [1 .. n -> S]
  OBVIOUS
<1>2. s \in Seq(S)
  BY <1>1, SeqDef
<1>3. DOMAIN s = 1 .. Len(s) /\ Len(s) \in Nat
  BY <1>2, LenProperties
<1>4. Len(s) = n
  BY <1>3
<1>. QED BY <1>2, <1>4 DEF IsList

\* A list of distinct rows, chunks or positions: the orders that a set may come in.
LEMMA OrderFacts ==
  ASSUME NEW S, IsFiniteSet(S), NEW o \in SetToSeqs(S)
  PROVE  /\ IsList(o) /\ Len(o) = Cardinality(S) /\ Cardinality(S) \in Nat
         /\ \A k \in 1 .. Len(o) : o[k] \in S
         /\ \A j, k \in 1 .. Len(o) : j # k => o[j] # o[k]
         /\ \A x \in S : \E k \in 1 .. Len(o) : o[k] = x
<1> DEFINE n == Cardinality(S)
<1>1. n \in Nat
  BY FS_CardinalityType
<1>2. o \in [1 .. n -> S] /\ \A i, j \in 1 .. n : i # j => o[i] # o[j]
  BY DEF SetToSeqs
<1>3. IsFiniteSet(1 .. n) /\ Cardinality(1 .. n) = n
  BY <1>1, FS_Interval
<1>4. o \in Injection(1 .. n, S)
  BY <1>2 DEF Injection, IsInjective
<1> HIDE DEF n
<1>5. o \in Surjection(1 .. n, S)
  BY <1>3, <1>4, FS_Injection DEF n
<1>6. \A x \in S : \E k \in 1 .. n : o[k] = x
  BY <1>5 DEF Surjection
<1>7. IsList(o) /\ Len(o) = n
  BY <1>1, <1>2, FunctionIsList
<1>. QED BY <1>1, <1>2, <1>6, <1>7 DEF n

Below(I, i) == {j \in I : j < i}

\* Numbers have as many ranks as there are of them.
LEMMA RankFacts ==
  ASSUME NEW I \in SUBSET Nat, IsFiniteSet(I)
  PROVE  /\ Cardinality(I) \in Nat
         /\ \A i \in I : Cardinality(Below(I, i)) \in 0 .. Cardinality(I) - 1
         /\ \A i, l \in I : i # l => Cardinality(Below(I, i)) # Cardinality(Below(I, l))
         /\ \A i, l \in I : i < l => Cardinality(Below(I, i)) < Cardinality(Below(I, l))
         /\ \A k \in 1 .. Cardinality(I) : \E i \in I : Cardinality(Below(I, i)) = k - 1
<1> DEFINE n == Cardinality(I)
<1>1. n \in Nat
  BY FS_CardinalityType
<1>2. \A i \in I : /\ IsFiniteSet(Below(I, i)) /\ Cardinality(Below(I, i)) \in Nat
                   /\ IsFiniteSet(Below(I, i) \cup {i})
                   /\ Cardinality(Below(I, i) \cup {i}) = Cardinality(Below(I, i)) + 1
  <2> TAKE i \in I
  <2>1. Below(I, i) \subseteq I /\ i \notin Below(I, i)
    BY DEF Below
  <2>2. IsFiniteSet(Below(I, i)) /\ Cardinality(Below(I, i)) \in Nat
    BY <2>1, FS_Subset, FS_CardinalityType
  <2>. QED BY <2>1, <2>2, FS_AddElement
<1>3. \A i \in I : Cardinality(Below(I, i)) + 1 <= n
  <2> TAKE i \in I
  <2>1. Below(I, i) \cup {i} \in SUBSET I
    BY DEF Below
  <2>2. Cardinality(Below(I, i) \cup {i}) <= Cardinality(I)
    BY <2>1, FS_Subset
  <2>3. Cardinality(Below(I, i) \cup {i}) = Cardinality(Below(I, i)) + 1
    BY <1>2
  <2>. QED BY <2>2, <2>3
<1>4. \A i, l \in I : i < l => Cardinality(Below(I, i)) < Cardinality(Below(I, l))
  <2> TAKE i, l \in I
  <2> HAVE i < l
  <2>1. \A j \in I : j \in Nat
    OBVIOUS
  <2>2. \A j \in I : j < i => j < l
    BY <2>1
  <2>3. Below(I, i) \cup {i} \in SUBSET Below(I, l)
    BY <2>2 DEF Below
  <2>4. Cardinality(Below(I, i) \cup {i}) <= Cardinality(Below(I, l))
    BY <1>2, <2>3, FS_Subset
  <2>5. /\ Cardinality(Below(I, i)) \in Nat /\ Cardinality(Below(I, l)) \in Nat
        /\ Cardinality(Below(I, i) \cup {i}) = Cardinality(Below(I, i)) + 1
    BY <1>2
  <2>. QED BY <2>4, <2>5
<1>5. \A i, l \in I : i # l => Cardinality(Below(I, i)) # Cardinality(Below(I, l))
  <2> TAKE i, l \in I
  <2> HAVE i # l
  <2>1. i \in Nat /\ l \in Nat
    OBVIOUS
  <2>2. i < l \/ l < i
    BY <2>1
  <2>3. Cardinality(Below(I, i)) \in Nat /\ Cardinality(Below(I, l)) \in Nat
    BY <1>2
  <2>4. CASE i < l
    <3>1. Cardinality(Below(I, i)) < Cardinality(Below(I, l))
      BY <1>4, <2>4
    <3>. QED BY <2>3, <3>1
  <2>5. CASE l < i
    <3>1. Cardinality(Below(I, l)) < Cardinality(Below(I, i))
      BY <1>4, <2>5
    <3>. QED BY <2>3, <3>1
  <2>. QED BY <2>2, <2>4, <2>5
<1> DEFINE size == [i \in I |-> Cardinality(Below(I, i))]
           rank == [i \in I |-> size[i] + 1]
<1>6. IsFiniteSet(1 .. n) /\ Cardinality(1 .. n) = n
  BY <1>1, FS_Interval
<1>7. \A i \in I : size[i] \in Nat /\ size[i] + 1 <= n
  BY <1>2, <1>3
<1>8. \A i, l \in I : i # l => size[i] # size[l]
  BY <1>5
<1> HIDE DEF size, n
<1>9. rank \in [I -> 1 .. n]
  BY <1>1, <1>7
<1>10. \A i, l \in I : rank[i] = rank[l] => i = l
  BY <1>7, <1>8
<1>11. rank \in Injection(I, 1 .. n)
  <2> HIDE DEF rank
  <2>. QED BY <1>9, <1>10 DEF Injection, IsInjective
<1>12. rank \in Surjection(I, 1 .. n)
  <2> HIDE DEF rank
  <2>. QED BY <1>6, <1>11, FS_Injection DEF n
<1>13. \A k \in 1 .. n : \E i \in I : size[i] = k - 1
  <2> TAKE k \in 1 .. n
  <2>1. PICK i \in I : rank[i] = k
    <3> HIDE DEF rank
    <3>. QED BY <1>12 DEF Surjection
  <2>2. size[i] + 1 = k /\ size[i] \in Nat
    BY <1>7, <2>1
  <2>3. size[i] = k - 1
    BY <2>2
  <2>. QED BY <2>3
<1>14. \A i \in I : size[i] = Cardinality(Below(I, i))
  BY DEF size
<1>15. \A i \in I : Cardinality(Below(I, i)) \in 0 .. n - 1
  BY <1>1, <1>7, <1>14
<1>16. \A k \in 1 .. n : \E i \in I : Cardinality(Below(I, i)) = k - 1
  BY <1>13, <1>14
<1>. QED BY <1>1, <1>4, <1>5, <1>15, <1>16 DEF n

\* Picked takes every position of I once, in order.
LEMMA PickedFacts ==
  ASSUME NEW s, NEW I \in SUBSET Nat, IsFiniteSet(I)
  PROVE  /\ IsList(Picked(s, I)) /\ Len(Picked(s, I)) = Cardinality(I)
         /\ \A k \in 1 .. Cardinality(I) : Nth(I, k) \in I /\ Picked(s, I)[k] = s[Nth(I, k)]
         /\ \A j, k \in 1 .. Cardinality(I) : j # k => Nth(I, j) # Nth(I, k)
         /\ \A i \in I : \E k \in 1 .. Cardinality(I) : Nth(I, k) = i
<1>1. \A k \in 1 .. Cardinality(I) : /\ Nth(I, k) \in I
                                     /\ Cardinality(Below(I, Nth(I, k))) = k - 1
  BY RankFacts DEF Nth, Below
<1>2. Cardinality(I) \in Nat
  BY FS_CardinalityType
<1>3. \A k \in 1 .. Cardinality(I) : Picked(s, I)[k] = s[Nth(I, k)]
  BY DEF Picked
<1>4. \A i \in I : \E k \in 1 .. Cardinality(I) : Nth(I, k) = i
  <2> TAKE i \in I
  <2> DEFINE k == Cardinality(Below(I, i)) + 1
  <2>1. k \in 1 .. Cardinality(I) /\ k - 1 = Cardinality(Below(I, i))
    BY <1>2, RankFacts
  <2>2. Nth(I, k) \in I /\ Cardinality(Below(I, Nth(I, k))) = Cardinality(Below(I, i))
    BY <1>1, <2>1
  <2> HIDE DEF k
  <2>. QED BY <2>1, <2>2, RankFacts
<1>5. \A j, k \in 1 .. Cardinality(I) : j # k => Nth(I, j) # Nth(I, k)
  <2> TAKE j, k \in 1 .. Cardinality(I)
  <2> HAVE j # k
  <2>1. j - 1 # k - 1
    BY <1>2
  <2>. QED BY <1>1, <2>1
<1> DEFINE p == Picked(s, I)
<1>6. DOMAIN p = 1 .. Cardinality(I) /\ p = [i \in 1 .. Cardinality(I) |-> p[i]]
  BY DEF Picked
<1> HIDE DEF p
<1>7. IsList(p) /\ Len(p) = Cardinality(I)
  BY <1>2, <1>6, FunctionIsList
<1>. QED BY <1>1, <1>3, <1>4, <1>5, <1>7 DEF p

\* The chunks of a file are a list, numbered differently.
LEMMA ChunkFacts ==
  ASSUME NEW f \in Files
  PROVE  LET cs == FilterChunks[f]
         IN  IsList(cs) /\ \A j, k \in 1 .. Len(cs) : j # k => cs[j].index # cs[k].index
<1>1. Len(f.texts) \in Nat
  BY IndexingAssumption, LenProperties
<1>2. IsFiniteSet(1 .. Len(f.texts)) /\ LargeEnough(f) \subseteq 1 .. Len(f.texts)
  BY <1>1, FS_Interval DEF LargeEnough
<1>3. Cardinality(LargeEnough(f)) \in Nat
  BY <1>2, FS_Subset, FS_CardinalityType
<1> DEFINE all == CreateChunks[f]
           I   == {i \in DOMAIN all : Valid(all[i].content)}
<1>4. /\ DOMAIN all = 1 .. Cardinality(LargeEnough(f))
      /\ \A i \in DOMAIN all : all[i].index = i - 1
  BY DEF CreateChunks
<1>5. FilterChunks[f] = Picked(all, I)
  BY DEF FilterChunks
<1>6. IsFiniteSet(I) /\ I \in SUBSET Nat /\ I \subseteq DOMAIN all
  <2>1. IsFiniteSet(DOMAIN all) /\ I \subseteq DOMAIN all /\ DOMAIN all \subseteq Nat
    BY <1>3, <1>4, FS_Interval
  <2> HIDE DEF I, all
  <2>. QED BY <2>1, FS_Subset
<1> HIDE DEF I, all
<1> DEFINE cs == Picked(all, I)
<1> HIDE DEF cs
<1>7. /\ IsList(cs) /\ Len(cs) = Cardinality(I)
      /\ \A k \in 1 .. Cardinality(I) : Nth(I, k) \in I /\ cs[k] = all[Nth(I, k)]
      /\ \A j, k \in 1 .. Cardinality(I) : j # k => Nth(I, j) # Nth(I, k)
  BY <1>6, PickedFacts DEF cs
<1>8. \A k \in 1 .. Len(cs) : cs[k].index = Nth(I, k) - 1 /\ Nth(I, k) \in Nat
  BY <1>4, <1>6, <1>7
<1>9. \A j, k \in 1 .. Len(cs) : j # k => cs[j].index # cs[k].index
  BY <1>7, <1>8
<1>. QED BY <1>5, <1>7, <1>9 DEF cs

\* The largest of some numbers is one of them.
LEMMA MaxOfSome ==
  ASSUME NEW n \in Nat, NEW S \in SUBSET (0 .. n), S # {}
  PROVE  Max(S) \in S /\ \A y \in S : Max(S) >= y
<1> DEFINE T == {n - x : x \in S}
<1>1. T \subseteq Nat /\ T # {}
  <2>1. \A x \in S : n - x \in Nat
    OBVIOUS
  <2>. QED BY <2>1
<1>2. PICK m \in T : \A y \in T : ~ (<<y, m>> \in OpToRel(<, Nat))
  BY <1>1, NatLessThanWellFounded, WFMin
<1>3. \A y \in T : ~ (y < m)
  BY <1>1, <1>2 DEF OpToRel
<1>4. PICK x \in S : m = n - x
  BY <1>2
<1>5. \A y \in S : x >= y
  BY <1>3, <1>4
<1>. QED BY <1>4, <1>5 DEF Max

\* The smallest of some numbers is one of them.
LEMMA MinOfSome ==
  ASSUME NEW S \in SUBSET Nat, S # {}
  PROVE  Min(S) \in S /\ \A y \in S : Min(S) =< y
<1>1. PICK m \in S : \A y \in S : ~ (<<y, m>> \in OpToRel(<, Nat))
  BY NatLessThanWellFounded, WFMin
<1>2. \A y \in S : ~ (y < m)
  BY <1>1 DEF OpToRel
<1>3. \A y \in S : m =< y
  BY <1>2
<1>. QED BY <1>3 DEF Min

\* A value computed from the value before, n times.
Steps(n, A) == [1 .. n -> [A -> A]]

Iterates(g, n, first, step) == g[0] = first /\ \A i \in 1 .. n : g[i] = step[i][g[i - 1]]

\* There is such a computation.
LEMMA Iteration ==
  ASSUME NEW n \in Nat, NEW A, NEW first \in A, NEW step \in Steps(n, A)
  PROVE  \E g : DOMAIN g = 0 .. n /\ g = [i \in 0 .. n |-> g[i]] /\ Iterates(g, n, first, step)
<1> USE DEF Steps, Iterates
<1> DEFINE Done(m) == \E g \in [0 .. m -> A] :
                        g[0] = first /\ \A i \in 1 .. m : g[i] = step[i][g[i - 1]]
           Open == {m \in 0 .. n : ~ Done(m)}
<1>1. Open = {}
  <2> SUFFICES ASSUME Open # {} PROVE FALSE
    OBVIOUS
  <2> DEFINE m == Min(Open)
  <2>1. m \in Open /\ \A j \in Open : m =< j
    <3>1. Open \in SUBSET Nat
      OBVIOUS
    <3> HIDE DEF Open
    <3>. QED BY <3>1, MinOfSome
  <2> HIDE DEF m
  <2>2. Done(0)
    <3> DEFINE g == [i \in 0 .. 0 |-> first]
    <3>1. g \in [0 .. 0 -> A] /\ g[0] = first /\ 1 .. 0 = {}
      OBVIOUS
    <3> HIDE DEF g
    <3>. QED BY <3>1
  <2>3. m \in 1 .. n /\ m - 1 \in 0 .. n /\ ~ (m =< m - 1) /\ ~ Done(m)
    <3> HIDE DEF Done
    <3>. QED BY <2>1, <2>2
  <2>4. Done(m - 1)
    <3> HIDE DEF Done
    <3>. QED BY <2>1, <2>3
  <2>5. PICK g \in [0 .. m - 1 -> A] :
          g[0] = first /\ \A i \in 1 .. m - 1 : g[i] = step[i][g[i - 1]]
    BY <2>4
  <2> DEFINE h == [i \in 0 .. m |-> IF i = m THEN step[m][g[m - 1]] ELSE g[i]]
  <2>6. g[m - 1] \in A /\ step[m][g[m - 1]] \in A
    <3>1. g[m - 1] \in A
      BY <2>3
    <3>. QED BY <2>3, <3>1
  <2>7. h \in [0 .. m -> A]
    BY <2>3, <2>6
  <2>8. h[0] = first
    BY <2>3, <2>5
  <2>9. ASSUME NEW i \in 1 .. m PROVE h[i] = step[i][h[i - 1]]
    <3>1. h[i - 1] = g[i - 1]
      BY <2>3
    <3>2. CASE i = m
      BY <2>3, <3>1, <3>2
    <3>3. CASE i # m
      <4>1. i \in 1 .. m - 1 /\ h[i] = g[i]
        BY <2>3, <3>3
      <4>. QED BY <2>5, <3>1, <4>1
    <3>. QED BY <3>2, <3>3
  <2> HIDE DEF h
  <2>10. Done(m)
    BY <2>7, <2>8, <2>9
  <2>. QED BY <2>3, <2>10
<1>2. Done(n)
  <2> HIDE DEF Done
  <2>. QED BY <1>1
<1>. QED BY <1>2

\* Where it begins, and where each of its steps stays, it stays.
Keeps(g, n, A) == g[0] \in A /\ \A i \in 1 .. n : g[i - 1] \in A => g[i] \in A

LEMMA StaysIn ==
  ASSUME NEW n \in Nat, NEW A, NEW g, Keeps(g, n, A)
  PROVE  \A i \in 0 .. n : g[i] \in A
<1> USE DEF Keeps
<1> DEFINE Out == {i \in 0 .. n : g[i] \notin A}
<1> SUFFICES ASSUME Out # {} PROVE FALSE
  OBVIOUS
<1> DEFINE i == Min(Out)
<1>1. i \in Out /\ \A j \in Out : i =< j
  <2>1. Out \in SUBSET Nat
    OBVIOUS
  <2> HIDE DEF Out
  <2>. QED BY <2>1, MinOfSome
<1> HIDE DEF i
<1>2. i \in 1 .. n /\ i - 1 \in 0 .. n /\ ~ (i =< i - 1)
  BY <1>1
<1>3. g[i - 1] \in A
  BY <1>1, <1>2
<1>. QED BY <1>1, <1>2, <1>3

\* The chunks that the version before does not have.
LEMMA NewChunkFacts ==
  ASSUME NEW cs, IsList(cs), NEW old
  PROVE  /\ NewChunks(cs, old) \subseteq Range(cs) /\ IsFiniteSet(NewChunks(cs, old))
         /\ ContentsOf(NewChunks(cs, old)) = ContentsOf(Range(cs)) \ ContentsOf(old)
<1>1. DOMAIN cs = 1 .. Len(cs) /\ Len(cs) \in Nat
  BY LenProperties DEF IsList
<1>2. IsFiniteSet(Range(cs))
  <2>1. IsFiniteSet(DOMAIN cs)
    BY <1>1, FS_Interval
  <2>2. cs \in Surjection(DOMAIN cs, Range(cs))
    BY <1>1, LenProperties DEF Surjection, IsList, Range
  <2>. QED BY <2>1, <2>2, FS_Surjection
<1>3. NewChunks(cs, old) \subseteq Range(cs)
  BY DEF NewChunks, LastOfEach, Range
<1>4. ASSUME NEW c \in Range(cs)
      PROVE  \E l \in LastOfEach(cs) : l.content = c.content
  <2> DEFINE J == {k \in DOMAIN cs : cs[k].content = c.content}
  <2>1. J \in SUBSET (0 .. Len(cs)) /\ J # {}
    BY <1>1, <1>4 DEF Range
  <2>2. Max(J) \in J /\ \A y \in J : Max(J) >= y
    BY <1>1, <2>1, MaxOfSome
  <2>3. cs[Max(J)] \in LastOfEach(cs)
    BY <1>1, <2>2 DEF LastOfEach
  <2>. QED BY <2>2, <2>3
<1>5. LastOfEach(cs) \subseteq Range(cs)
  BY DEF LastOfEach, Range
<1>6. ContentsOf(NewChunks(cs, old)) = ContentsOf(Range(cs)) \ ContentsOf(old)
  <2>1. ContentsOf(NewChunks(cs, old)) \subseteq ContentsOf(Range(cs)) \ ContentsOf(old)
    BY <1>5 DEF ContentsOf, NewChunks
  <2>2. \A x \in ContentsOf(Range(cs)) \ ContentsOf(old) : x \in ContentsOf(NewChunks(cs, old))
    BY <1>4 DEF ContentsOf, NewChunks
  <2>. QED BY <2>1, <2>2
<1>. QED BY <1>2, <1>3, <1>6, FS_Subset

-----------------------------------------------------------------------------
(***************************************************************************)
(* The index.                                                              *)
(***************************************************************************)

Uploads ==
  /\ phase \in {"idle", "parse", "diff", "embed", "store"}
  /\ file \in Seq(Files)
  /\ status \in [Versions -> {"processing", "completed", "failed", "deleted"}]
  /\ IsList(count) /\ Len(count) = Len(file)
  /\ phase # "idle" => Len(file) > 0 /\ status[Current] = "processing"
  /\ \A r \in rows : r.doc \in Versions /\ status[r.doc] = "completed"

Lists ==
  /\ phase \in {"diff", "embed", "store"} =>
       chunks = FilterChunks[file[Current]] /\ DOMAIN scores = DOMAIN chunks
  /\ phase \in {"embed", "store"} => IsList(toEmbed)

Vectors ==
  /\ phase \notin {"embed", "store"} => vectors = <<>>
  /\ phase \in {"embed", "store"} =>
       /\ IsList(vectors)
       /\ Len(vectors) <= Len(toEmbed)
       /\ \A i \in DOMAIN vectors : vectors[i] = Text(toEmbed[i])
  /\ phase = "store" => Len(vectors) = Len(toEmbed)

Comparison ==
  phase \in {"embed", "store"} =>
    IF Previous = None
    THEN toEmbed = chunks /\ ownScores = scores /\ stale = {} /\ kept = 0
    ELSE \E old \in Existing(Previous) :
           /\ toEmbed \in SetToSeqs(NewChunks(chunks, old))
           /\ ownScores = ScoresOf(toEmbed)
           /\ stale = StaleRows(chunks, old)
           /\ kept = KeptCount(chunks, old)

IndexInv ==
  Uploads /\ IsFiniteSet(rows) /\ Lists /\ Vectors /\ Comparison /\ EmbeddedRight

\* An upload adds a version and leaves those before it alone.
LEMMA UploadAdds ==
  ASSUME Uploads, NEW f \in Files, Upload(f)
  PROVE  /\ Len(file') = Len(file) + 1 /\ file' \in Seq(Files)
         /\ \A d \in Versions : file'[d] = file[d] /\ status'[d] = status[d]
         /\ status' \in [Versions' -> {"processing", "completed", "failed", "deleted"}]
         /\ status'[Len(file) + 1] = "processing"
         /\ IsList(count') /\ Len(count') = Len(file')
<1>1. Len(file) \in Nat
  BY LenProperties DEF Uploads
<1>2. /\ Len(file') = Len(file) + 1 /\ file' \in Seq(Files)
      /\ \A d \in 1 .. Len(file) : file'[d] = file[d]
  BY AppendProperties DEF Upload, Uploads
<1> DEFINE S == {"processing", "completed", "failed", "deleted"}
<1>3. status \in Seq(S) /\ Len(status) = Len(file)
  <2>1. status \in [1 .. Len(file) -> S]
    BY DEF Uploads, Versions
  <2>2. status \in Seq(S)
    BY <1>1, <2>1, SeqDef
  <2>3. DOMAIN status = 1 .. Len(status) /\ Len(status) \in Nat /\ DOMAIN status = 1 .. Len(file)
    BY <2>1, <2>2, LenProperties
  <2>. QED BY <1>1, <2>2, <2>3
<1>4. status' = Append(status, "processing") /\ "processing" \in S
  BY DEF Upload
<1> HIDE DEF S
<1>5. /\ status' \in Seq(S) /\ Len(status') = Len(file) + 1
      /\ \A d \in 1 .. Len(file) : status'[d] = status[d]
      /\ status'[Len(file) + 1] = "processing"
  BY <1>3, <1>4, AppendProperties
<1>6. status' \in [1 .. Len(file) + 1 -> S]
  BY <1>5, LenProperties
<1>7. IsList(count') /\ Len(count') = Len(file) + 1
  <2> DEFINE T == {count[i] : i \in DOMAIN count} \cup {0}
  <2>1. count \in Seq(T) /\ Len(count) = Len(file) /\ 0 \in T /\ count' = Append(count, 0)
    BY SeqMonotonic DEF Upload, Uploads, IsList
  <2> HIDE DEF T
  <2>2. count' \in Seq(T) /\ Len(count') = Len(file) + 1
    BY <2>1, AppendProperties
  <2>3. DOMAIN count' = 1 .. Len(count') /\ count' = [i \in 1 .. Len(count') |-> count'[i]]
    BY <2>2, LenProperties
  <2>. QED BY <1>1, <2>2, <2>3, FunctionIsList
<1>. QED BY <1>2, <1>5, <1>6, <1>7 DEF Versions, S

LEMMA UploadsStep ==
  ASSUME Uploads, [IndexNext]_indexVars
  PROVE  Uploads'
<1>0. Len(file) \in Nat
  BY LenProperties DEF Uploads
<1> USE DEF Uploads, Versions, Current
<1>1. CASE UNCHANGED indexVars
  BY <1>1 DEF indexVars
<1>2. ASSUME NEW f \in Files, Upload(f) PROVE Uploads'
  BY <1>0, <1>2, UploadAdds DEF Upload
<1>3. CASE Fail /\ phase # "idle"
  BY <1>0, <1>3 DEF Fail
<1>4. CASE Chunk /\ ~ Fail
  BY <1>0, <1>4 DEF Chunk
<1>5. CASE Diff
  BY <1>0, <1>5 DEF Diff
<1>6. CASE EmbedAnswers
  BY <1>0, <1>6 DEF EmbedAnswers
<1>7. CASE (EmbedRefused \/ EmbedUnreachable) /\ ~ Fail
  BY <1>0, <1>7 DEF EmbedRefused, EmbedUnreachable, AttemptFails
<1>8. CASE Embedded
  BY <1>0, <1>8 DEF Embedded
<1>9. CASE Store
  <2>1. IsList(count') /\ Len(count') = Len(file)
    <3>1. DOMAIN count = 1 .. Len(file)
      BY LenProperties DEF IsList
    <3>2. count' = [count EXCEPT ![Len(file)] = Len(toEmbed) + kept]
      BY <1>9 DEF Store
    <3>3. DOMAIN count' = 1 .. Len(file) /\ count' = [i \in 1 .. Len(file) |-> count'[i]]
      BY <3>1, <3>2
    <3>. QED BY <1>0, <3>3, FunctionIsList
  <2>. QED BY <1>0, <1>9, <2>1 DEF Store, NewRows
<1>10. ASSUME NEW d \in Versions, DeleteVersion(d) PROVE Uploads'
  BY <1>0, <1>10 DEF DeleteVersion, RowsOf
<1>. QED
  BY <1>1, <1>2, <1>3, <1>4, <1>5, <1>6, <1>7, <1>8, <1>9, <1>10
     DEF IndexNext, Manage, Work, Break, Chunk, EmbedRefused, EmbedUnreachable, Embedding

LEMMA ListsStep ==
  ASSUME Uploads, Lists, [IndexNext]_indexVars
  PROVE  Lists'
<1>0. /\ Len(file) \in Nat
      /\ phase # "idle" => file[Current] \in Files
  <2>1. Len(file) \in Nat /\ \A d \in 1 .. Len(file) : file[d] \in Files
    BY LenProperties, ElementOfSeq DEF Uploads
  <2>. QED BY <2>1 DEF Uploads, Current
<1> USE DEF Lists, Current
<1>1. CASE UNCHANGED indexVars
  BY <1>1 DEF indexVars, job
<1>2. ASSUME NEW f \in Files, Upload(f) PROVE Lists'
  BY <1>2 DEF Upload
<1>3. CASE Fail
  BY <1>3 DEF Fail
<1>4. CASE Chunk /\ ~ Fail
  BY <1>4 DEF Chunk
<1>5. CASE Diff
  <2>1. chunks = FilterChunks[file[Current]] /\ IsList(chunks)
    BY <1>0, <1>5, ChunkFacts DEF Diff
  <2>2. IsList(toEmbed')
    BY <1>5, <2>1, NewChunkFacts, OrderFacts DEF Diff
  <2>. QED BY <1>5, <2>1, <2>2 DEF Diff
<1>6. CASE EmbedAnswers
  BY <1>6 DEF EmbedAnswers
<1>7. CASE (EmbedRefused \/ EmbedUnreachable) /\ ~ Fail
  BY <1>7 DEF EmbedRefused, EmbedUnreachable, AttemptFails
<1>8. CASE Embedded
  BY <1>8 DEF Embedded, job
<1>9. CASE Store
  BY <1>9 DEF Store
<1>10. ASSUME NEW d \in Versions, DeleteVersion(d) PROVE Lists'
  BY <1>10 DEF DeleteVersion
<1>. QED
  BY <1>1, <1>2, <1>3, <1>4, <1>5, <1>6, <1>7, <1>8, <1>9, <1>10 DEF IndexNext, Manage, Work, Break

\* The next batch, and what its answer adds to the vectors.
LEMMA AnswerAdds ==
  ASSUME Lists, Vectors, Embedding, EmbedAnswers
  PROVE  /\ IsList(vectors')
         /\ Len(vectors') <= Len(toEmbed)
         /\ \A i \in DOMAIN vectors' : vectors'[i] = Text(toEmbed[i])
<1> DEFINE n == Len(vectors)
           m == Len(toEmbed)
           answer == [i \in 1 .. Len(Batch) |-> Text(Batch[i])]
           V == {Text(toEmbed[i]) : i \in 1 .. m}
<1>1. /\ n \in Nat /\ DOMAIN vectors = 1 .. n
      /\ m \in Nat /\ DOMAIN toEmbed = 1 .. m
      /\ n < m
  BY LenProperties DEF Lists, Vectors, Embedding, IsList
<1>2. BatchEnd \in n + 1 .. m
  <2>1. n + BatchSize \in Nat /\ n + BatchSize > n
    BY <1>1, IndexingAssumption
  <2>2. \E x \in {n + BatchSize, m} : \A y \in {n + BatchSize, m} : x =< y
    BY <1>1, <2>1
  <2>3. BatchEnd \in {n + BatchSize, m} /\ \A y \in {n + BatchSize, m} : BatchEnd =< y
    BY <2>2 DEF BatchEnd, Min
  <2>4. CASE BatchEnd = m
    BY <1>1, <2>4
  <2>5. CASE BatchEnd = n + BatchSize
    <3>1. BatchEnd \in Nat /\ BatchEnd > n /\ BatchEnd <= m
      BY <2>1, <2>3, <2>5
    <3>. QED BY <1>1, <3>1
  <2>. QED BY <2>3, <2>4, <2>5
<1>3. /\ Len(Batch) = BatchEnd - n
      /\ \A i \in 1 .. BatchEnd - n : Batch[i] = toEmbed[n + i]
  <2>1. \A i \in n + 1 .. BatchEnd : toEmbed[i] \in {toEmbed[j] : j \in DOMAIN toEmbed}
    BY <1>1, <1>2
  <2>2. n + 1 \in Int /\ BatchEnd \in Int
    BY <1>1, <1>2
  <2>3. /\ Len(Batch) = IF n + 1 <= BatchEnd THEN BatchEnd - (n + 1) + 1 ELSE 0
        /\ \A i \in 1 .. BatchEnd - (n + 1) + 1 : Batch[i] = toEmbed[n + 1 + i - 1]
    BY <2>1, <2>2, SubSeqProperties DEF Batch
  <2>. QED BY <1>1, <1>2, <2>3
<1>4. /\ DOMAIN answer = 1 .. BatchEnd - n
      /\ \A i \in 1 .. BatchEnd - n : answer[i] = Text(toEmbed[n + i])
  BY <1>3
<1> HIDE DEF answer
<1>5. BatchEnd - n \in Nat /\ \A i \in 1 .. BatchEnd - n : n + i \in 1 .. m
  BY <1>1, <1>2
<1>6. answer \in Seq(V) /\ Len(answer) = BatchEnd - n
  <2>1. answer \in [1 .. BatchEnd - n -> V]
    BY <1>4, <1>5 DEF answer
  <2>2. answer \in Seq(V)
    BY <1>5, <2>1, SeqDef
  <2>. QED BY <1>4, <1>5, <2>2, LenProperties
<1>7. vectors \in Seq(V)
  <2>1. \A i \in 1 .. n : vectors[i] \in V
    BY <1>1 DEF Vectors, Embedding
  <2>2. vectors \in [1 .. n -> V]
    BY <1>1, <2>1, LenProperties DEF Vectors, Embedding, IsList
  <2>. QED BY <1>1, <2>2, SeqDef
<1>8. vectors' = vectors \o answer
  BY DEF EmbedAnswers, Join, answer
<1>9. /\ vectors' \in Seq(V) /\ Len(vectors') = BatchEnd
      /\ \A i \in 1 .. BatchEnd :
           vectors'[i] = IF i <= n THEN vectors[i] ELSE answer[i - n]
  BY <1>1, <1>2, <1>6, <1>7, <1>8, ConcatProperties
<1>10. \A i \in 1 .. BatchEnd : vectors'[i] = Text(toEmbed[i])
  <2> SUFFICES ASSUME NEW i \in 1 .. BatchEnd PROVE vectors'[i] = Text(toEmbed[i])
    OBVIOUS
  <2>1. CASE i <= n
    BY <1>1, <1>9, <2>1 DEF Vectors, Embedding
  <2>2. CASE i > n
    <3>1. i - n \in 1 .. BatchEnd - n /\ n + (i - n) = i
      BY <1>1, <1>2, <2>2
    <3>2. vectors'[i] = answer[i - n]
      BY <1>1, <1>9, <2>2
    <3>3. answer[i - n] = Text(toEmbed[n + (i - n)])
      BY <1>4, <3>1
    <3>. QED BY <3>1, <3>2, <3>3
  <2>. QED BY <1>1, <1>2, <2>1, <2>2
<1>11. DOMAIN vectors' = 1 .. BatchEnd
  BY <1>9, LenProperties
<1>12. IsList(vectors')
  <2>1. vectors' = [i \in 1 .. BatchEnd |-> vectors'[i]]
    BY <1>9, <1>11, LenProperties
  <2>. QED BY <1>1, <1>2, <1>11, <2>1, FunctionIsList
<1>. QED BY <1>1, <1>2, <1>9, <1>10, <1>11, <1>12

LEMMA VectorsStep ==
  ASSUME Uploads, Lists, Vectors, [IndexNext]_indexVars
  PROVE  Vectors'
<1>1. CASE UNCHANGED indexVars
  BY <1>1 DEF indexVars, job, Vectors, Text, Prefix, Current
<1>2. ASSUME NEW f \in Files, Upload(f) PROVE Vectors'
  BY <1>2 DEF Upload, Vectors, job
<1>3. CASE Fail
  BY <1>3 DEF Fail, JobReset, Vectors
<1>4. CASE Chunk /\ ~ Fail
  BY <1>4 DEF Chunk, Vectors
<1>5. CASE Diff
  <2>1. vectors' = <<>> /\ Len(toEmbed') \in Nat
    BY <1>5, ListsStep, LenProperties DEF Diff, Vectors, Lists, IsList
  <2>2. IsList(<<>>) /\ Len(<<>>) = 0 /\ DOMAIN <<>> = {}
    BY EmptySeq DEF IsList
  <2>. QED BY <1>5, <2>1, <2>2 DEF Diff, Vectors
<1>6. CASE EmbedAnswers
  <2>1. Embedding /\ phase' = phase /\ toEmbed' = toEmbed /\ file' = file
    BY <1>6 DEF EmbedAnswers
  <2>. QED BY <1>6, <2>1, AnswerAdds DEF Vectors, Text, Prefix, Current, Embedding
<1>7. CASE (EmbedRefused \/ EmbedUnreachable) /\ ~ Fail
  BY <1>7 DEF EmbedRefused, EmbedUnreachable, AttemptFails, Vectors, Text, Prefix, Current
<1>8. CASE Embedded
  BY <1>8 DEF Embedded, job, Vectors, Text, Prefix, Current
<1>9. CASE Store
  BY <1>9 DEF Store, JobReset, Vectors
<1>10. ASSUME NEW d \in Versions, DeleteVersion(d) PROVE Vectors'
  BY <1>10 DEF DeleteVersion, job, Vectors
<1>. QED
  BY <1>1, <1>2, <1>3, <1>4, <1>5, <1>6, <1>7, <1>8, <1>9, <1>10 DEF IndexNext, Manage, Work, Break

LEMMA EmbeddedStep ==
  ASSUME Uploads, Vectors, EmbeddedRight, [IndexNext]_indexVars
  PROVE  EmbeddedRight'
<1>1. CASE UNCHANGED indexVars
  BY <1>1 DEF indexVars, EmbeddedRight
<1>2. ASSUME NEW f \in Files, Upload(f) PROVE EmbeddedRight'
  <2>1. rows' = rows /\ \A r \in rows : file'[r.doc] = file[r.doc]
    BY <1>2, UploadAdds DEF Upload, Uploads
  <2>. QED BY <2>1 DEF EmbeddedRight
<1>3. CASE Store
  <2>1. \A r \in NewRows : r.vector = <<file[r.doc].prefix, r.content>>
    BY <1>3 DEF Store, NewRows, Vectors, Text, Prefix
  <2>2. rows' \subseteq rows \cup NewRows /\ file' = file
    BY <1>3 DEF Store
  <2>. QED BY <2>1, <2>2 DEF EmbeddedRight
<1>4. CASE rows' = rows /\ file' = file
  BY <1>4 DEF EmbeddedRight
<1>5. ASSUME NEW d \in Versions, DeleteVersion(d) PROVE EmbeddedRight'
  BY <1>5 DEF DeleteVersion, EmbeddedRight
<1>. QED
  BY <1>1, <1>2, <1>3, <1>4, <1>5
     DEF IndexNext, Manage, Work, Break, Chunk, Fail, Diff, EmbedRefused, EmbedUnreachable, AttemptFails,
         EmbedAnswers, Embedded

\* The version compared with is not the one that is processed.
LEMMA PreviousIsOther ==
  ASSUME Uploads, phase # "idle"
  PROVE  Previous # Current /\ Len(file) \in Nat
<1>1. Len(file) \in Nat
  BY LenProperties DEF Uploads
<1> DEFINE completed == {d \in Versions : status[d] = "completed"}
<1>2. completed \subseteq 0 .. Len(file) /\ Current \notin completed
  BY <1>1 DEF Versions, Current, Uploads
<1>3. CASE completed = {}
  BY <1>1, <1>3 DEF Previous, None, Uploads, Current
<1>4. CASE completed # {}
  <2>1. Previous = Max(completed)
    BY <1>4 DEF Previous
  <2> HIDE DEF completed
  <2>. QED BY <1>1, <1>2, <1>4, <2>1, MaxOfSome
<1>. QED BY <1>1, <1>3, <1>4

\* The comparison stands as long as the table and the version before do.
LEMMA ComparisonStands ==
  ASSUME Uploads, phase \in {"embed", "store"}, Comparison,
         UNCHANGED <<file, status, rows, chunks, scores, toEmbed, ownScores, stale, kept>>
  PROVE  Comparison'
<1>1. Previous' = Previous
  BY DEF Previous, Versions
<1>2. Existing(Previous)' = Existing(Previous)
  BY <1>1 DEF Existing, RowsOf
<1>3. ScoresOf(toEmbed)' = ScoresOf(toEmbed)
  BY DEF ScoresOf
<1>. QED BY <1>1, <1>2, <1>3 DEF Comparison

LEMMA ComparisonStep ==
  ASSUME Uploads, Comparison, [IndexNext]_indexVars
  PROVE  Comparison'
<1>1. CASE UNCHANGED indexVars
  BY <1>1, ComparisonStands DEF indexVars, job, Comparison
<1>2. ASSUME NEW f \in Files, Upload(f) PROVE Comparison'
  BY <1>2 DEF Upload, Comparison
<1>3. CASE Fail
  BY <1>3 DEF Fail, Comparison
<1>4. CASE Chunk /\ ~ Fail
  BY <1>4 DEF Chunk, Comparison
<1>5. CASE Diff
  <2>1. Previous' = Previous /\ chunks' = chunks /\ scores' = scores
    BY <1>5 DEF Diff, Previous, Versions
  <2>2. Existing(Previous)' = Existing(Previous)
    BY <1>5, <2>1 DEF Diff, Existing, RowsOf
  <2>3. ScoresOf(toEmbed)' = ScoresOf(toEmbed')
    BY <2>1 DEF ScoresOf
  <2>. QED BY <1>5, <2>1, <2>2, <2>3 DEF Diff, Comparison
<1>6. CASE EmbedAnswers
  BY <1>6, ComparisonStands DEF EmbedAnswers, Embedding
<1>7. CASE (EmbedRefused \/ EmbedUnreachable) /\ ~ Fail
  BY <1>7, ComparisonStands DEF EmbedRefused, EmbedUnreachable, AttemptFails, Embedding
<1>8. CASE Embedded
  BY <1>8, ComparisonStands DEF Embedded, job
<1>9. CASE Store
  BY <1>9 DEF Store, Comparison
<1>10. ASSUME NEW d \in Versions, DeleteVersion(d) PROVE Comparison'
  BY <1>10 DEF DeleteVersion, Comparison
<1>. QED
  BY <1>1, <1>2, <1>3, <1>4, <1>5, <1>6, <1>7, <1>8, <1>9, <1>10 DEF IndexNext, Manage, Work, Break

LEMMA FiniteStep ==
  ASSUME IsFiniteSet(rows), Uploads, Lists, [IndexNext]_indexVars
  PROVE  IsFiniteSet(rows)'
<1>1. CASE Store
  <2> DEFINE D == DOMAIN toEmbed \cap DOMAIN vectors \cap DOMAIN ownScores
             f == [i \in D |->
                     [doc |-> Current, content |-> toEmbed[i].content, index |-> toEmbed[i].index,
                      start |-> toEmbed[i].start, vector |-> vectors[i], score |-> ownScores[i]]]
  <2>1. IsFiniteSet(D)
    <3> HIDE DEF f
    <3>1. IsList(toEmbed)
      BY <1>1 DEF Store, Lists
    <3>2. DOMAIN toEmbed = 1 .. Len(toEmbed) /\ Len(toEmbed) \in Nat
      BY <3>1, LenProperties DEF IsList
    <3>3. IsFiniteSet(1 .. Len(toEmbed))
      BY <3>2, FS_Interval
    <3>4. D \subseteq DOMAIN toEmbed
      OBVIOUS
    <3>. QED BY <3>2, <3>3, <3>4, FS_Subset
  <2>2. f \in Surjection(D, NewRows)
    BY DEF Surjection, NewRows
  <2>3. IsFiniteSet(NewRows)
    <3> HIDE DEF D, f
    <3>. QED BY <2>1, <2>2, FS_Surjection
  <2>. QED BY <1>1, <2>3, FS_Union DEF Store
<1>2. CASE rows' = rows
  BY <1>2
<1>3. ASSUME NEW d \in Versions, DeleteVersion(d) PROVE IsFiniteSet(rows')
  BY <1>3, FS_Subset DEF DeleteVersion
<1>. QED
  BY <1>1, <1>2, <1>3
     DEF IndexNext, Manage, Work, Break, Chunk, Fail, Diff, EmbedRefused, EmbedUnreachable, AttemptFails,
         EmbedAnswers, Embedded, Upload, indexVars

LEMMA IndexInvInit == IndexInit => IndexInv
<1> SUFFICES ASSUME IndexInit PROVE IndexInv
  OBVIOUS
<1>1. Uploads
  BY EmptySeq DEF IndexInit, Uploads, Versions, IsList
<1>. QED
  BY <1>1, FS_EmptySet DEF IndexInit, IndexInv, Lists, Vectors, Comparison, EmbeddedRight

LEMMA IndexInvStep == IndexInv /\ [IndexNext]_indexVars => IndexInv'
BY UploadsStep, FiniteStep, ListsStep, VectorsStep, ComparisonStep, EmbeddedStep DEF IndexInv

\* The parts of the induction: what the job in progress holds belongs to the latest version,
\* and nothing of a comparison is outdated when the job stores its result.
THEOREM IndexInvHolds == IndexSpec => []IndexInv
BY IndexInvInit, IndexInvStep, PTL DEF IndexSpec

\* Every stored vector is the embedding of the content of its row with the context of its
\* document: batches, retries and the order of the difference mix up nothing.
THEOREM VectorsBelong == IndexSpec => []EmbeddedRight
<1>1. IndexInv => EmbeddedRight
  BY DEF IndexInv
<1>. QED BY IndexInvHolds, <1>1, PTL

\* Only the storing of the latest version completes one.
LEMMA CompletesInStore ==
  ASSUME Uploads, [IndexNext]_indexVars, NEW d, Completes(d)
  PROVE  Store /\ d = Current
<1>1. CASE UNCHANGED indexVars
  BY <1>1 DEF indexVars, Completes
<1>2. ASSUME NEW f \in Files, Upload(f) PROVE FALSE
  BY <1>2, UploadAdds DEF Completes
<1>3. CASE Fail
  BY <1>3 DEF Fail, Completes, Uploads
<1>4. CASE Store
  BY <1>4 DEF Store, Completes, Uploads
<1>5. CASE status' = status
  BY <1>5 DEF Completes
<1>6. ASSUME NEW c \in Versions, DeleteVersion(c) PROVE FALSE
  BY <1>6 DEF DeleteVersion, Completes, Uploads
<1>. QED
  BY <1>1, <1>2, <1>3, <1>4, <1>5, <1>6
     DEF IndexNext, Manage, Work, Break, Chunk, Diff, EmbedRefused, EmbedUnreachable, AttemptFails,
         EmbedAnswers, Embedded

\* One row for each chunk to embed.
LEMMA NewRowsFacts ==
  ASSUME NEW n \in Nat,
         DOMAIN toEmbed = 1 .. n, DOMAIN vectors = 1 .. n, DOMAIN ownScores = 1 .. n,
         \A j, k \in 1 .. n : j # k => toEmbed[j].index # toEmbed[k].index
  PROVE  /\ Cardinality(NewRows) = n
         /\ ContentsOf(NewRows) = ContentsOf(Range(toEmbed))
         /\ \A r \in NewRows : r.doc = Current
<1> DEFINE f == [i \in 1 .. n |->
                   [doc |-> Current, content |-> toEmbed[i].content, index |-> toEmbed[i].index,
                    start |-> toEmbed[i].start, vector |-> vectors[i], score |-> ownScores[i]]]
<1>1. \A i \in 1 .. n : f[i].index = toEmbed[i].index /\ f[i].content = toEmbed[i].content
  OBVIOUS
<1>2. NewRows = {f[i] : i \in 1 .. n}
  BY DEF NewRows
<1>3. f \in [1 .. n -> NewRows]
  BY <1>2
<1> HIDE DEF f
<1>4. f \in Surjection(1 .. n, NewRows)
  BY <1>2, <1>3 DEF Surjection
<1>5. f \in Injection(1 .. n, NewRows)
  BY <1>1, <1>3 DEF Injection, IsInjective
<1>6. IsFiniteSet(1 .. n) /\ Cardinality(1 .. n) = n
  BY FS_Interval
<1>7. Cardinality(NewRows) = n
  BY <1>4, <1>5, <1>6, FS_Surjection
<1>8. ContentsOf(NewRows) = ContentsOf(Range(toEmbed))
  BY <1>1, <1>2 DEF ContentsOf, Range
<1>. QED BY <1>7, <1>8 DEF NewRows

\* There are as many scores for the chunks to embed as there are chunks.
LEMMA ScoresFit ==
  ASSUME IsList(chunks), \A j, k \in 1 .. Len(chunks) : j # k => chunks[j].index # chunks[k].index,
         NEW N, N \subseteq Range(chunks), IsFiniteSet(N), NEW o \in SetToSeqs(N)
  PROVE  DOMAIN ScoresOf(o) = 1 .. Cardinality(N)
<1>1. DOMAIN chunks = 1 .. Len(chunks) /\ Len(chunks) \in Nat
  BY LenProperties DEF IsList
<1>2. Range(o) = N
  <2>1. /\ \A k \in 1 .. Len(o) : o[k] \in N
        /\ \A x \in N : \E k \in 1 .. Len(o) : o[k] = x
        /\ IsList(o)
    BY OrderFacts
  <2>2. DOMAIN o = 1 .. Len(o)
    BY <2>1, LenProperties DEF IsList
  <2>. QED BY <2>1, <2>2 DEF Range
<1> DEFINE J == {i \in DOMAIN chunks : chunks[i] \in N}
           g == [i \in J |-> chunks[i]]
<1>3. IsFiniteSet(J)
  <2>1. IsFiniteSet(DOMAIN chunks) /\ J \subseteq DOMAIN chunks
    BY <1>1, FS_Interval
  <2> HIDE DEF J
  <2>. QED BY <2>1, FS_Subset
<1>4. g \in Surjection(J, N)
  BY DEF Surjection, Range
<1>5. g \in Injection(J, N)
  BY <1>1 DEF Injection, IsInjective
<1>6. Cardinality(J) = Cardinality(N)
  <2> HIDE DEF J, g
  <2>. QED BY <1>3, <1>4, <1>5, FS_Surjection
<1>. QED BY <1>2, <1>6 DEF ScoresOf, Picked

\* Of the rows of the version before, one counts for each content that is kept.
LEMMA KeptFacts ==
  ASSUME IsFiniteSet(rows), NEW old \in Existing(Previous), NEW cs
  PROVE  KeptCount(cs, old)
           = Cardinality(ContentsOf(Range(cs)) \cap ContentsOf(RowsOf(Previous)))
<1> DEFINE good == ContentsOf(Range(cs))
           C == ContentsOf(old)
           c == [x \in old |-> x.content]
<1>1. IsFiniteSet(old)
  <2>1. old \subseteq rows
    BY DEF Existing, RowsOf
  <2>. QED BY <2>1, FS_Subset
<1>2. C = ContentsOf(RowsOf(Previous)) /\ Cardinality(old) = Cardinality(C)
  BY DEF Existing
<1>3. c \in Surjection(old, C)
  BY DEF Surjection, ContentsOf
<1>4. c \in Injection(old, C)
  <2> HIDE DEF c, C
  <2>. QED BY <1>1, <1>2, <1>3, FS_Surjection
<1>5. \A x, y \in old : x.content = y.content => x = y
  BY <1>4 DEF Injection, IsInjective
<1> DEFINE K == {x \in old : x.content \in good}
           k == [x \in K |-> x.content]
<1>6. IsFiniteSet(K)
  BY <1>1, FS_Subset
<1>7. k \in Surjection(K, good \cap C)
  <2> HIDE DEF good
  <2>. QED BY DEF Surjection, ContentsOf
<1>8. k \in Injection(K, good \cap C)
  <2> HIDE DEF good
  <2>. QED BY <1>5 DEF Injection, IsInjective, ContentsOf
<1>9. Cardinality(K) = Cardinality(good \cap C)
  <2> HIDE DEF K, k, good, C
  <2>. QED BY <1>6, <1>7, <1>8, FS_Surjection
<1>. QED BY <1>2, <1>9 DEF KeptCount

LEMMA AllSearchableStep == IndexInv /\ [IndexNext]_indexVars => AllSearchable
<1> SUFFICES ASSUME IndexInv, [IndexNext]_indexVars, NEW d \in Versions, Completes(d)
             PROVE  LET good == ContentsOf(Range(FilterChunks[file[d]]))
                        own  == {r \in rows' : r.doc = d}
                        prev == {r \in rows' : r.doc = Previous}
                    IN  /\ good \subseteq ContentsOf(own \cup prev)
                        /\ ContentsOf(prev) \subseteq good
                        /\ count'[d] = Cardinality(own)
                             + Cardinality(good \cap (ContentsOf(prev) \ ContentsOf(own)))
  BY DEF AllSearchable
<1> DEFINE good == ContentsOf(Range(chunks))
           own  == {r \in rows' : r.doc = d}
           prev == {r \in rows' : r.doc = Previous}
           n    == Len(toEmbed)
<1>1. Store /\ d = Current
  BY CompletesInStore DEF IndexInv
<1>2. /\ phase = "store" /\ stale = {} /\ rows' = rows \cup NewRows
      /\ count' = [count EXCEPT ![d] = n + kept]
  BY <1>1 DEF Store
<1>3. chunks = FilterChunks[file[d]] /\ file[d] \in Files
  BY <1>1, <1>2, ElementOfSeq DEF IndexInv, Lists, Uploads, Versions
<1>4. /\ IsList(chunks)
      /\ \A j, k \in 1 .. Len(chunks) : j # k => chunks[j].index # chunks[k].index
  BY <1>3, ChunkFacts
<1>5. DOMAIN chunks = 1 .. Len(chunks) /\ Len(chunks) \in Nat
  BY <1>4, LenProperties DEF IsList
<1>6. DOMAIN toEmbed = 1 .. n /\ n \in Nat /\ DOMAIN vectors = 1 .. n
  BY <1>2, LenProperties DEF IndexInv, Lists, Vectors, IsList
<1>7. Previous # Current /\ Len(file) \in Nat
  BY <1>2, PreviousIsOther DEF IndexInv
<1>8. \A r \in rows : r.doc # d /\ r.doc # None
  BY <1>1, <1>2 DEF IndexInv, Uploads, Versions, None
<1>9. ASSUME /\ DOMAIN ownScores = 1 .. n
             /\ \A j, k \in 1 .. n : j # k => toEmbed[j].index # toEmbed[k].index
      PROVE  own = NewRows /\ Cardinality(own) = n /\ ContentsOf(own) = ContentsOf(Range(toEmbed))
  <2>1. /\ Cardinality(NewRows) = n /\ ContentsOf(NewRows) = ContentsOf(Range(toEmbed))
        /\ \A r \in NewRows : r.doc = d
    BY <1>1, <1>6, <1>9, NewRowsFacts
  <2>2. own = NewRows
    BY <1>2, <1>8, <2>1
  <2>. QED BY <2>1, <2>2
<1>10. \A r \in NewRows : r.doc # Previous
  BY <1>7 DEF NewRows
<1>11. prev = {r \in rows : r.doc = Previous}
  BY <1>2, <1>10
<1>12. d \in DOMAIN count
  BY <1>1, LenProperties DEF IndexInv, Uploads, IsList, Versions
<1>13. CASE Previous = None
  <2>1. toEmbed = chunks /\ ownScores = scores /\ kept = 0 /\ DOMAIN scores = DOMAIN chunks
    BY <1>2, <1>13 DEF IndexInv, Comparison, Lists
  <2>2. Cardinality(own) = n /\ ContentsOf(own) = good
    BY <1>4, <1>5, <1>9, <2>1
  <2>3. prev = {}
    BY <1>8, <1>11, <1>13
  <2>4. good \cap (ContentsOf(prev) \ ContentsOf(own)) = {}
    BY <2>3 DEF ContentsOf
  <2>5. good \subseteq ContentsOf(own \cup prev) /\ ContentsOf(prev) \subseteq good
    BY <2>2, <2>3 DEF ContentsOf
  <2> HIDE DEF good, own, prev
  <2>6. Cardinality(good \cap (ContentsOf(prev) \ ContentsOf(own))) = 0
    BY <2>4, FS_EmptySet
  <2>7. count'[d] = n + 0
    BY <1>2, <2>1, <1>12
  <2>. QED BY <1>3, <1>6, <2>2, <2>5, <2>6, <2>7 DEF good, own, prev
<1>14. CASE Previous # None
  <2>1. PICK old \in Existing(Previous) : /\ toEmbed \in SetToSeqs(NewChunks(chunks, old))
                                          /\ ownScores = ScoresOf(toEmbed)
                                          /\ stale = StaleRows(chunks, old)
                                          /\ kept = KeptCount(chunks, old)
    BY <1>2, <1>14 DEF IndexInv, Comparison
  <2> DEFINE N == NewChunks(chunks, old)
             R == RowsOf(Previous)
  <2>2. N \subseteq Range(chunks) /\ IsFiniteSet(N) /\ ContentsOf(N) = good \ ContentsOf(old)
    BY <1>4, NewChunkFacts
  <2> HIDE DEF N
  <2>3. /\ n = Cardinality(N)
        /\ \A k \in 1 .. n : toEmbed[k] \in N
        /\ \A j, k \in 1 .. n : j # k => toEmbed[j] # toEmbed[k]
        /\ \A x \in N : \E k \in 1 .. n : toEmbed[k] = x
    BY <2>1, <2>2, OrderFacts DEF N
  <2>4. Range(toEmbed) = N
    BY <1>6, <2>3 DEF Range
  <2>5. \A j, k \in 1 .. n : j # k => toEmbed[j].index # toEmbed[k].index
    <3> TAKE j, k \in 1 .. n
    <3> HAVE j # k
    <3>1. PICK a \in DOMAIN chunks : chunks[a] = toEmbed[j]
      BY <2>2, <2>3 DEF Range
    <3>2. PICK b \in DOMAIN chunks : chunks[b] = toEmbed[k]
      BY <2>2, <2>3 DEF Range
    <3>3. a # b
      BY <2>3, <3>1, <3>2
    <3>. QED BY <1>4, <1>5, <3>1, <3>2, <3>3
  <2>6. DOMAIN ownScores = 1 .. n
    BY <1>4, <2>1, <2>2, <2>3, ScoresFit DEF N
  <2>7. Cardinality(own) = n /\ ContentsOf(own) = good \ ContentsOf(old)
    BY <1>9, <2>2, <2>4, <2>5, <2>6
  <2>8. ContentsOf(old) = ContentsOf(R) /\ prev = R
    BY <1>11 DEF Existing, RowsOf
  <2>9. \A x \in old : x.content \in good
    BY <1>2, <2>1 DEF StaleRows
  <2>10. ContentsOf(old) \subseteq good
    <3> HIDE DEF good
    <3>. QED BY <2>9 DEF ContentsOf
  <2> HIDE DEF good, own, prev, R
  <2>12. good \cap (ContentsOf(prev) \ ContentsOf(own)) = good \cap ContentsOf(R)
    BY <2>7, <2>8
  <2>13. ContentsOf(own \cup prev) = ContentsOf(own) \cup ContentsOf(prev)
    BY DEF ContentsOf
  <2>14. good \subseteq ContentsOf(own \cup prev) /\ ContentsOf(prev) \subseteq good
    BY <2>7, <2>8, <2>10, <2>13
  <2>15. kept = Cardinality(good \cap ContentsOf(R))
    BY <2>1, KeptFacts DEF IndexInv, good, R
  <2>16. count'[d] = n + kept
    BY <1>2, <1>12
  <2>. QED BY <1>3, <2>7, <2>12, <2>14, <2>15, <2>16 DEF good, own, prev
<1>. QED BY <1>13, <1>14

\* When a version is completed, all its valid passages are searchable, the version before
\* has no others, and its chunk count is that of its own rows and of the contents it shares
\* with that version.
THEOREM CompletionIsFaithful == IndexSpec => CompletionFaithful
<1>1. IndexInv /\ [IndexNext]_indexVars => [AllSearchable]_indexVars
  BY AllSearchableStep
<1>. QED BY IndexInvHolds, <1>1, PTL DEF IndexSpec, CompletionFaithful

-----------------------------------------------------------------------------
(***************************************************************************)
(* Positions.  The chunker's cursor is a recursive function: that it has a *)
(* value, and which, follows from a least place where it would go astray.  *)
(***************************************************************************)

From(f, x, i) == {k \in x + 1 .. Len(f.content) : StandsAt(f, i, k)}

\* The chunker's cursor in f.
Searches(f, cursor) ==
  /\ cursor[0] = 0
  /\ \A i \in 1 .. Len(f.texts) :
       cursor[i] = IF From(f, cursor[i - 1], i) = {} THEN cursor[i - 1]
                   ELSE Min(From(f, cursor[i - 1], i))
  /\ Starts(f) = [i \in 1 .. Len(f.texts) |->
                    IF cursor[i] = cursor[i - 1] THEN None ELSE cursor[i]]

LEMMA FromFacts ==
  ASSUME NEW f \in Files, NEW x \in Nat, NEW i \in 1 .. Len(f.texts)
  PROVE  /\ From(f, x, i) \in SUBSET Nat
         /\ From(f, x, i) # {} => /\ Min(From(f, x, i)) \in From(f, x, i)
                                  /\ Min(From(f, x, i)) \in Nat
                                  /\ \A j \in From(f, x, i) : Min(From(f, x, i)) =< j
<1>1. From(f, x, i) \in SUBSET Nat
  BY IndexingAssumption, LenProperties DEF From
<1>. QED BY <1>1, MinOfSome

LEMMA CursorFacts ==
  ASSUME NEW f \in Files
  PROVE  \E cursor : Searches(f, cursor)
<1> DEFINE n == Len(f.texts)
           Cursor(g) == [i \in 0 .. n |-> IF i = 0 THEN 0
                                          ELSE IF From(f, g[i - 1], i) = {} THEN g[i - 1]
                                               ELSE Min(From(f, g[i - 1], i))]
           cursor == CHOOSE g : g = Cursor(g)
           step == [i \in 1 .. n |-> [x \in Nat |->
                      IF From(f, x, i) = {} THEN x ELSE Min(From(f, x, i))]]
<1>1. Starts(f) = [i \in 1 .. n |-> IF cursor[i] = cursor[i - 1] THEN None ELSE cursor[i]]
  BY DEF Starts, From
<1>2. n \in Nat /\ Len(f.content) \in Nat
  BY IndexingAssumption, LenProperties
<1>3. \A i \in 1 .. n : \A x \in Nat : From(f, x, i) # {} => Min(From(f, x, i)) \in Nat
  BY FromFacts
<1>4. step \in Steps(n, Nat) /\ 0 \in Nat
  BY <1>3 DEF Steps
<1>5. \A i \in 1 .. n : \A x \in Nat :
        step[i][x] = IF From(f, x, i) = {} THEN x ELSE Min(From(f, x, i))
  OBVIOUS
<1> HIDE DEF step
<1>6. PICK g : DOMAIN g = 0 .. n /\ g = [i \in 0 .. n |-> g[i]] /\ Iterates(g, n, 0, step)
  <2> HIDE DEF n, Cursor
  <2>. QED BY <1>2, <1>4, Iteration
<1>7. g = Cursor(g)
  <2>1. Keeps(g, n, Nat)
    <3> HIDE DEF n, Cursor
    <3>1. \A i \in 1 .. n : \A x \in Nat : step[i][x] \in Nat
      BY <1>4 DEF Steps
    <3>. QED BY <1>4, <1>6, <3>1 DEF Iterates, Keeps
  <2>2. \A i \in 0 .. n : g[i] \in Nat
    <3> HIDE DEF n, Cursor
    <3>. QED BY <1>2, <2>1, StaysIn
  <2>3. \A i \in 0 .. n : i # 0 => i \in 1 .. n /\ g[i - 1] \in Nat
    <3> HIDE DEF n, Cursor
    <3>. QED BY <1>2, <2>2
  <2>4. \A i \in 0 .. n : g[i] = IF i = 0 THEN 0
                                 ELSE IF From(f, g[i - 1], i) = {} THEN g[i - 1]
                                      ELSE Min(From(f, g[i - 1], i))
    <3> HIDE DEF n, Cursor
    <3>. QED BY <1>5, <1>6, <2>3 DEF Iterates
  <2>. QED BY <1>6, <2>4
<1>8. cursor = Cursor(cursor)
  <2>1. \E x : x = Cursor(x)
    BY <1>7
  <2> HIDE DEF Cursor
  <2>. QED BY <2>1
<1> HIDE DEF cursor
<1>9. \A i \in 0 .. n : cursor[i] = Cursor(cursor)[i]
  <2> HIDE DEF Cursor
  <2>. QED BY <1>8
<1>10. \A i \in 0 .. n : Cursor(cursor)[i] = IF i = 0 THEN 0
                                             ELSE IF From(f, cursor[i - 1], i) = {}
                                                  THEN cursor[i - 1]
                                                  ELSE Min(From(f, cursor[i - 1], i))
  OBVIOUS
<1> HIDE DEF n, Cursor
<1>11. 0 \in 0 .. n /\ \A i \in 1 .. n : i \in 0 .. n /\ i # 0
  BY <1>2
<1>12. /\ cursor[0] = 0
       /\ \A i \in 1 .. n : cursor[i] = IF From(f, cursor[i - 1], i) = {} THEN cursor[i - 1]
                                         ELSE Min(From(f, cursor[i - 1], i))
  BY <1>9, <1>10, <1>11
<1>. QED BY <1>1, <1>12 DEF Searches, n

\* The search comes to places of the file and never goes back.
LEMMA CursorClimbs ==
  ASSUME NEW f \in Files, NEW cursor, Searches(f, cursor)
  PROVE  /\ \A i \in 0 .. Len(f.texts) : cursor[i] \in Nat
         /\ \A j \in 0 .. Len(f.texts) : \A i \in 0 .. j : cursor[i] <= cursor[j]
<1> DEFINE n == Len(f.texts)
<1>1. n \in Nat
  BY IndexingAssumption, LenProperties
<1>2. Keeps(cursor, n, Nat)
  <2>1. \A i \in 1 .. n : cursor[i - 1] \in Nat => cursor[i] \in Nat
    BY FromFacts DEF Searches
  <2>. QED BY <2>1 DEF Keeps, Searches
<1>3. \A i \in 0 .. n : cursor[i] \in Nat
  <2> HIDE DEF n
  <2>. QED BY <1>1, <1>2, StaysIn
<1>4. ASSUME NEW j \in 1 .. n PROVE cursor[j - 1] <= cursor[j]
  <2>1. cursor[j - 1] \in Nat
    BY <1>1, <1>3
  <2>2. CASE From(f, cursor[j - 1], j) = {}
    BY <2>1, <2>2 DEF Searches
  <2>3. CASE From(f, cursor[j - 1], j) # {}
    <3>1. cursor[j] = Min(From(f, cursor[j - 1], j))
      BY <2>3 DEF Searches
    <3>2. cursor[j] \in From(f, cursor[j - 1], j) /\ cursor[j] \in Nat
      BY <2>1, <2>3, <3>1, FromFacts
    <3>. QED BY <2>1, <3>2 DEF From
  <2>. QED BY <2>2, <2>3
<1> DEFINE Fallen == {j \in 0 .. n : \E i \in 0 .. j : ~ (cursor[i] <= cursor[j])}
<1>5. Fallen = {}
  <2> SUFFICES ASSUME Fallen # {} PROVE FALSE
    OBVIOUS
  <2> DEFINE j == Min(Fallen)
  <2>1. j \in Fallen /\ \A l \in Fallen : j =< l
    <3>1. Fallen \in SUBSET Nat
      BY <1>1
    <3> HIDE DEF Fallen
    <3>. QED BY <3>1, MinOfSome
  <2> HIDE DEF j
  <2>2. PICK i \in 0 .. j : ~ (cursor[i] <= cursor[j])
    BY <2>1
  <2>3. j \in 0 .. n /\ cursor[j] \in Nat
    BY <1>3, <2>1
  <2>4. i # j
    BY <2>2, <2>3
  <2>5. j \in 1 .. n /\ j - 1 \in 0 .. n /\ i \in 0 .. j - 1 /\ ~ (j =< j - 1) /\ i \in 0 .. n
    BY <1>1, <2>2, <2>3, <2>4
  <2>6. cursor[i] <= cursor[j - 1]
    BY <2>1, <2>5
  <2>7. cursor[j - 1] <= cursor[j] /\ cursor[i] \in Nat /\ cursor[j - 1] \in Nat
    BY <1>3, <1>4, <2>5
  <2>. QED BY <2>2, <2>3, <2>6, <2>7
<1>. QED BY <1>3, <1>5

\* What the splitter cuts stands where it is cut from.
LEMMA CutPlaces ==
  ASSUME NEW f \in Files, NEW j \in 1 .. Len(f.texts)
  PROVE  /\ f.cuts[j] \in 0 .. Len(f.content)
         /\ f.cuts[j] # None => StandsAt(f, j, f.cuts[j])
         /\ f.cuts[j] # None => \A i \in 1 .. j - 1 : f.cuts[i] < f.cuts[j]
<1>1. f.cuts \in [1 .. Len(f.texts) -> 0 .. Len(f.content)]
  BY IndexingAssumption
<1>2. \A i \in 1 .. Len(f.texts) : f.cuts[i] # None =>
        StandsAt(f, i, f.cuts[i]) /\ \A k \in 1 .. i - 1 : f.cuts[k] < f.cuts[i]
  BY IndexingAssumption
<1>. QED BY <1>1, <1>2

\* Where it finds no changed text, it has not yet come to the place that the next text was
\* cut from.
LEMMA CursorBehind ==
  ASSUME NEW f \in Files, NEW cursor, Searches(f, cursor), Traceable(f)
  PROVE  \A i \in 0 .. Len(f.texts) : \A j \in i + 1 .. Len(f.texts) :
           f.cuts[j] # None => cursor[i] < f.cuts[j]
<1> DEFINE n == Len(f.texts)
           Ahead == {i \in 0 .. n : \E j \in i + 1 .. n :
                                      f.cuts[j] # None /\ ~ (cursor[i] < f.cuts[j])}
<1>1. n \in Nat /\ Len(f.content) \in Nat
  BY IndexingAssumption, LenProperties
<1>2. \A i \in 0 .. n : cursor[i] \in Nat
  BY CursorClimbs
<1> SUFFICES ASSUME Ahead # {} PROVE FALSE
  OBVIOUS
<1> DEFINE i == Min(Ahead)
<1>4. i \in Ahead /\ \A l \in Ahead : i =< l
  <2>1. Ahead \in SUBSET Nat
    BY <1>1
  <2> HIDE DEF Ahead
  <2>. QED BY <2>1, MinOfSome
<1> HIDE DEF i
<1>5. PICK j \in i + 1 .. n : f.cuts[j] # None /\ ~ (cursor[i] < f.cuts[j])
  BY <1>4
<1>6. i \in 0 .. n /\ j \in 1 .. n /\ f.cuts[j] \in Nat /\ f.cuts[j] > 0
  <2>1. i \in 0 .. n /\ j \in 1 .. n
    BY <1>1, <1>4, <1>5
  <2>2. f.cuts[j] \in 0 .. Len(f.content)
    BY <2>1, CutPlaces
  <2>. QED BY <1>1, <1>5, <2>1, <2>2 DEF None
<1>7. i # 0
  BY <1>5, <1>6 DEF Searches
<1>8. /\ i \in 1 .. n /\ i - 1 \in 0 .. n /\ ~ (i =< i - 1)
      /\ i \in (i - 1) + 1 .. n /\ j \in (i - 1) + 1 .. n
  BY <1>1, <1>5, <1>6, <1>7
<1>9. /\ cursor[i - 1] < f.cuts[j]
      /\ f.cuts[i] # None => cursor[i - 1] < f.cuts[i]
  BY <1>4, <1>5, <1>8
<1>10. cursor[i - 1] \in Nat /\ cursor[i] \in Nat
  BY <1>2, <1>8
<1>11. CASE f.cuts[i] = None
  <2>1. From(f, cursor[i - 1], i) = {}
    <3>1. \A k \in 1 .. Len(f.content) : ~ StandsAt(f, i, k)
      BY <1>8, <1>11 DEF Traceable
    <3>2. \A k \in cursor[i - 1] + 1 .. Len(f.content) : k \in 1 .. Len(f.content)
      BY <1>1, <1>10
    <3>. QED BY <3>1, <3>2 DEF From
  <2>2. cursor[i] = cursor[i - 1]
    BY <1>8, <2>1 DEF Searches
  <2>. QED BY <1>5, <1>9, <2>2
<1>12. CASE f.cuts[i] # None
  <2>1. /\ f.cuts[i] \in 0 .. Len(f.content) /\ StandsAt(f, i, f.cuts[i])
        /\ f.cuts[i] < f.cuts[j]
    <3>1. i \in 1 .. j - 1
      BY <1>5, <1>6, <1>8
    <3>2. f.cuts[i] \in 0 .. Len(f.content) /\ StandsAt(f, i, f.cuts[i])
      BY <1>8, <1>12, CutPlaces
    <3>3. \A l \in 1 .. j - 1 : f.cuts[l] < f.cuts[j]
      BY <1>5, <1>6, CutPlaces
    <3>. QED BY <3>1, <3>2, <3>3
  <2>2. f.cuts[i] \in From(f, cursor[i - 1], i)
    <3>1. f.cuts[i] \in cursor[i - 1] + 1 .. Len(f.content)
      BY <1>1, <1>9, <1>10, <1>12, <2>1
    <3>. QED BY <2>1, <3>1 DEF From
  <2>3. cursor[i] <= f.cuts[i]
    <3>1. cursor[i] = Min(From(f, cursor[i - 1], i))
      BY <1>8, <2>2 DEF Searches
    <3>2. \A k \in From(f, cursor[i - 1], i) : Min(From(f, cursor[i - 1], i)) =< k
      BY <1>8, <1>10, <2>2, FromFacts
    <3>. QED BY <2>2, <3>1, <3>2
  <2>. QED BY <1>1, <1>5, <1>6, <1>10, <2>1, <2>3
<1>. QED BY <1>8, <1>10, <1>11, <1>12

\* What the search finds is a place of the text, behind those of the texts before, and not
\* behind the place that the text was cut from.
LEMMA StartsFacts ==
  ASSUME NEW f \in Files
  PROVE  /\ \A i \in 1 .. Len(f.texts) :
              /\ Starts(f)[i] \in Nat
              /\ Starts(f)[i] # None => StandsAt(f, i, Starts(f)[i])
              /\ (Traceable(f) /\ f.cuts[i] # None) => Starts(f)[i] \in 1 .. f.cuts[i]
         /\ \A i, j \in 1 .. Len(f.texts) :
              (i < j /\ None \notin {Starts(f)[i], Starts(f)[j]}) => Starts(f)[i] < Starts(f)[j]
<1> DEFINE n == Len(f.texts)
<1>1. n \in Nat /\ Len(f.content) \in Nat
  BY IndexingAssumption, LenProperties
<1>2. PICK cursor : Searches(f, cursor)
  BY CursorFacts
<1>3. /\ \A i \in 0 .. n : cursor[i] \in Nat
      /\ \A j \in 0 .. n : \A i \in 0 .. j : cursor[i] <= cursor[j]
  BY <1>2, CursorClimbs
<1>4. \A i \in 1 .. n : i \in 0 .. n /\ i - 1 \in 0 .. n /\ i \in (i - 1) + 1 .. n
  BY <1>1
<1>5. \A i \in 1 .. n : cursor[i] \in Nat /\ cursor[i - 1] \in Nat
  BY <1>3, <1>4
<1>6. \A i \in 1 .. n :
        Starts(f)[i] = IF cursor[i] = cursor[i - 1] THEN None ELSE cursor[i]
  BY <1>2 DEF Searches
<1>7. ASSUME NEW i \in 1 .. n, cursor[i] # cursor[i - 1]
      PROVE  cursor[i] \in From(f, cursor[i - 1], i) /\ StandsAt(f, i, cursor[i])
  <2>1. From(f, cursor[i - 1], i) # {} /\ cursor[i] = Min(From(f, cursor[i - 1], i))
    BY <1>2, <1>7 DEF Searches
  <2>2. cursor[i] \in From(f, cursor[i - 1], i)
    BY <1>5, <2>1, FromFacts
  <2>. QED BY <2>2 DEF From
<1>8. ASSUME NEW i \in 1 .. n, Traceable(f), f.cuts[i] # None
      PROVE  Starts(f)[i] \in 1 .. f.cuts[i]
  <2>1. cursor[i - 1] < f.cuts[i]
    BY <1>2, <1>4, <1>8, CursorBehind
  <2>2. f.cuts[i] \in 0 .. Len(f.content) /\ StandsAt(f, i, f.cuts[i])
    BY <1>8, CutPlaces
  <2>3. f.cuts[i] \in From(f, cursor[i - 1], i)
    <3>1. f.cuts[i] \in cursor[i - 1] + 1 .. Len(f.content)
      BY <1>1, <1>5, <2>1, <2>2
    <3>. QED BY <2>2, <3>1 DEF From
  <2>4. cursor[i] \in From(f, cursor[i - 1], i) /\ cursor[i] <= f.cuts[i]
    <3>1. cursor[i] = Min(From(f, cursor[i - 1], i))
      BY <1>2, <2>3 DEF Searches
    <3>2. /\ Min(From(f, cursor[i - 1], i)) \in From(f, cursor[i - 1], i)
          /\ \A k \in From(f, cursor[i - 1], i) : Min(From(f, cursor[i - 1], i)) =< k
      BY <1>5, <2>3, FromFacts
    <3>. QED BY <2>3, <3>1, <3>2
  <2>5. cursor[i] > cursor[i - 1]
    BY <1>5, <2>4 DEF From
  <2>6. Starts(f)[i] = cursor[i]
    BY <1>5, <1>6, <2>5
  <2>. QED BY <1>5, <2>2, <2>4, <2>5, <2>6
<1>9. ASSUME NEW i \in 1 .. n, NEW j \in 1 .. n, i < j,
             None \notin {Starts(f)[i], Starts(f)[j]}
      PROVE  Starts(f)[i] < Starts(f)[j]
  <2>1. /\ Starts(f)[i] = cursor[i] /\ Starts(f)[j] = cursor[j]
        /\ cursor[j] # cursor[j - 1]
    BY <1>6, <1>9
  <2>2. cursor[j] > cursor[j - 1]
    BY <1>5, <1>7, <2>1 DEF From
  <2>3. i \in 0 .. j - 1 /\ j - 1 \in 0 .. n
    BY <1>1, <1>9
  <2>4. cursor[i] <= cursor[j - 1]
    BY <1>3, <2>3
  <2>. QED BY <1>5, <2>1, <2>2, <2>4
<1>10. ASSUME NEW i \in 1 .. n PROVE Starts(f)[i] \in Nat
  BY <1>5, <1>6 DEF None
<1>11. ASSUME NEW i \in 1 .. n, Starts(f)[i] # None PROVE StandsAt(f, i, Starts(f)[i])
  <2>1. cursor[i] # cursor[i - 1] /\ Starts(f)[i] = cursor[i]
    BY <1>6, <1>11
  <2>2. StandsAt(f, i, cursor[i])
    BY <1>7, <2>1
  <2>. QED BY <2>1, <2>2
<1>12. \A i, j \in 1 .. n :
         (i < j /\ None \notin {Starts(f)[i], Starts(f)[j]}) => Starts(f)[i] < Starts(f)[j]
  BY <1>9
<1>. QED BY <1>8, <1>10, <1>11, <1>12

LEMMA LargeEnoughFacts ==
  ASSUME NEW f \in Files
  PROVE  /\ LargeEnough(f) \subseteq 1 .. Len(f.texts)
         /\ LargeEnough(f) \in SUBSET Nat
         /\ IsFiniteSet(LargeEnough(f))
<1>1. LargeEnough(f) \subseteq 1 .. Len(f.texts)
  BY DEF LargeEnough
<1>2. IsFiniteSet(1 .. Len(f.texts)) /\ 1 .. Len(f.texts) \subseteq Nat
  <2>1. Len(f.texts) \in Nat
    BY IndexingAssumption, LenProperties
  <2>. QED BY <2>1, FS_Interval
<1>3. LargeEnough(f) \subseteq Nat
  BY <1>1, <1>2
<1>4. IsFiniteSet(LargeEnough(f))
  BY <1>1, <1>2, FS_Subset
<1>. QED BY <1>1, <1>3, <1>4

\* A chunk has the place of the text that it is made of, and chunks come in the order of
\* their texts.
LEMMA ChunkPlaces ==
  ASSUME NEW f \in Files, NEW c \in Range(CreateChunks[f])
  PROVE  /\ c.index \in Nat /\ c.index + 1 \in 1 .. Cardinality(LargeEnough(f))
         /\ Nth(LargeEnough(f), c.index + 1) \in 1 .. Len(f.texts)
         /\ c.start = Starts(f)[Nth(LargeEnough(f), c.index + 1)]
<1> DEFINE L == LargeEnough(f)
<1>1. L \subseteq 1 .. Len(f.texts) /\ L \in SUBSET Nat /\ IsFiniteSet(L)
  BY LargeEnoughFacts
<1> HIDE DEF L
<1>2. PICK k \in 1 .. Cardinality(L) : /\ c.start = Starts(f)[Nth(L, k)]
                                       /\ c.index = k - 1
  BY DEF CreateChunks, Range, L
<1>3. c.index \in Nat /\ c.index + 1 = k
  BY <1>1, <1>2, FS_CardinalityType
<1>4. Nth(L, k) \in L
  BY <1>1, <1>2, RankFacts DEF Nth, Below
<1>. QED BY <1>1, <1>2, <1>3, <1>4 DEF L

LEMMA NthClimbs ==
  ASSUME NEW I \in SUBSET Nat, IsFiniteSet(I),
         NEW j \in 1 .. Cardinality(I), NEW k \in 1 .. Cardinality(I), j < k
  PROVE  Nth(I, j) < Nth(I, k)
<1>1. /\ Nth(I, j) \in I /\ Cardinality(Below(I, Nth(I, j))) = j - 1
      /\ Nth(I, k) \in I /\ Cardinality(Below(I, Nth(I, k))) = k - 1
  BY RankFacts DEF Nth, Below
<1>2. Cardinality(I) \in Nat
  BY FS_CardinalityType
<1>3. ~ (k - 1 < j - 1) /\ k - 1 # j - 1
  BY <1>2
<1>4. \A i, l \in I : i < l => Cardinality(Below(I, i)) < Cardinality(Below(I, l))
  BY RankFacts
<1>5. ~ (Nth(I, k) < Nth(I, j)) /\ Nth(I, k) # Nth(I, j)
  BY <1>1, <1>3, <1>4
<1>6. Nth(I, j) \in Nat /\ Nth(I, k) \in Nat
  BY <1>1
<1>. QED BY <1>5, <1>6

\* Every row has the position that the chunker gave to a chunk of its version.
Placed ==
  \A r \in rows : \E c \in Range(CreateChunks[file[r.doc]]) : r.start = c.start /\ r.index = c.index

LEMMA FilterPicks ==
  ASSUME NEW f \in Files
  PROVE  Range(FilterChunks[f]) \subseteq Range(CreateChunks[f])
<1> DEFINE all == CreateChunks[f]
           I   == {i \in DOMAIN all : Valid(all[i].content)}
<1>1. FilterChunks[f] = Picked(all, I)
  BY DEF FilterChunks
<1>2. IsFiniteSet(I) /\ I \in SUBSET Nat /\ I \subseteq DOMAIN all
  <2>1. DOMAIN all = 1 .. Cardinality(LargeEnough(f))
    BY DEF CreateChunks
  <2>2. Cardinality(LargeEnough(f)) \in Nat
    BY LargeEnoughFacts, FS_CardinalityType
  <2>3. IsFiniteSet(DOMAIN all) /\ I \subseteq DOMAIN all /\ DOMAIN all \subseteq Nat
    BY <2>1, <2>2, FS_Interval
  <2> HIDE DEF I, all
  <2>. QED BY <2>3, FS_Subset
<1> HIDE DEF I, all
<1> DEFINE cs == Picked(all, I)
<1>3. DOMAIN cs = 1 .. Cardinality(I)
  BY DEF Picked
<1> HIDE DEF cs
<1>4. \A k \in 1 .. Cardinality(I) : Nth(I, k) \in I /\ cs[k] = all[Nth(I, k)]
  BY <1>2, PickedFacts DEF cs
<1>5. \A k \in DOMAIN cs : cs[k] \in Range(all)
  BY <1>2, <1>3, <1>4 DEF Range
<1>. QED BY <1>1, <1>5 DEF Range, cs, all

LEMMA PlacedStep ==
  ASSUME Uploads, Lists, Comparison, Placed, [IndexNext]_indexVars
  PROVE  Placed'
<1>1. CASE UNCHANGED indexVars
  BY <1>1 DEF indexVars, Placed
<1>2. ASSUME NEW f \in Files, Upload(f) PROVE Placed'
  <2>1. rows' = rows /\ \A r \in rows : file'[r.doc] = file[r.doc]
    BY <1>2, UploadAdds DEF Upload, Uploads
  <2>. QED BY <2>1 DEF Placed
<1>3. CASE Store
  <2>1. chunks = FilterChunks[file[Current]] /\ file[Current] \in Files
    BY <1>3, ElementOfSeq DEF Store, Lists, Uploads, Current
  <2>2. Range(chunks) \subseteq Range(CreateChunks[file[Current]]) /\ IsList(chunks)
    BY <2>1, FilterPicks, ChunkFacts
  <2>3. Range(toEmbed) \subseteq Range(chunks)
    <3>1. CASE Previous = None
      BY <1>3, <3>1 DEF Store, Comparison
    <3>2. CASE Previous # None
      <4>1. PICK old \in Existing(Previous) : toEmbed \in SetToSeqs(NewChunks(chunks, old))
        BY <1>3, <3>2 DEF Store, Comparison
      <4>2. NewChunks(chunks, old) \subseteq Range(chunks) /\ IsFiniteSet(NewChunks(chunks, old))
        BY <2>2, NewChunkFacts
      <4>3. \A k \in 1 .. Len(toEmbed) : toEmbed[k] \in Range(chunks)
        BY <4>1, <4>2, OrderFacts
      <4>4. DOMAIN toEmbed = 1 .. Len(toEmbed)
        BY <1>3, LenProperties DEF Store, Lists, IsList
      <4>. QED BY <4>3, <4>4 DEF Range
    <3>. QED BY <3>1, <3>2
  <2>4. ASSUME NEW r \in NewRows
        PROVE  /\ r.doc = Current
               /\ \E c \in Range(CreateChunks[file[Current]]) : r.start = c.start /\ r.index = c.index
    <3>1. PICK i \in DOMAIN toEmbed : /\ r.doc = Current
                                      /\ r.start = toEmbed[i].start
                                      /\ r.index = toEmbed[i].index
      BY DEF NewRows
    <3>2. toEmbed[i] \in Range(toEmbed)
      BY <3>1 DEF Range
    <3>. QED BY <2>2, <2>3, <3>1, <3>2
  <2>5. rows' \subseteq rows \cup NewRows /\ file' = file
    BY <1>3 DEF Store
  <2>. QED BY <2>4, <2>5 DEF Placed
<1>4. CASE rows' = rows /\ file' = file
  BY <1>4 DEF Placed
<1>5. ASSUME NEW d \in Versions, DeleteVersion(d) PROVE Placed'
  BY <1>5 DEF DeleteVersion, Placed
<1>. QED
  BY <1>1, <1>2, <1>3, <1>4, <1>5
     DEF IndexNext, Manage, Work, Break, Chunk, Fail, Diff, EmbedRefused, EmbedUnreachable, AttemptFails,
         EmbedAnswers, Embedded

\* A stored chunk that has a position stands there, and the positions of a document's
\* chunks grow with their numbers.  Where no changed text is found by accident, every
\* chunk that was cut from the file has one, at the place it was cut from or before.
THEOREM PositionsHold == IndexSpec => []PositionsTrue
<1>1. IndexInit => Placed
  BY DEF IndexInit, Placed
<1>2. IndexInv /\ Placed /\ [IndexNext]_indexVars => Placed'
  BY PlacedStep DEF IndexInv
<1>3. IndexInv /\ Placed => PositionsTrue
  <2> SUFFICES ASSUME IndexInv, Placed, NEW r \in rows
               PROVE  LET f == file[r.doc]
                          i == Nth(LargeEnough(f), r.index + 1)
                      IN  /\ r.start # None => StandsAt(f, i, r.start)
                          /\ (Traceable(f) /\ f.cuts[i] # None) => r.start \in 1 .. f.cuts[i]
                          /\ \A s \in RowsOf(r.doc) :
                               (r.index < s.index /\ None \notin {r.start, s.start})
                                 => r.start < s.start
    BY DEF PositionsTrue
  <2> DEFINE f == file[r.doc]
             L == LargeEnough(f)
  <2>1. f \in Files
    BY ElementOfSeq DEF IndexInv, Uploads, Versions
  <2>2. ASSUME NEW s \in RowsOf(r.doc)
        PROVE  /\ s.index \in Nat /\ s.index + 1 \in 1 .. Cardinality(L)
               /\ Nth(L, s.index + 1) \in 1 .. Len(f.texts)
               /\ s.start = Starts(f)[Nth(L, s.index + 1)]
    <3>1. PICK c \in Range(CreateChunks[f]) : s.start = c.start /\ s.index = c.index
      BY <2>2 DEF Placed, RowsOf
    <3>. QED BY <2>1, <3>1, ChunkPlaces
  <2>3. r \in RowsOf(r.doc)
    BY DEF RowsOf
  <2> HIDE DEF f
  <2>4. ASSUME NEW s \in RowsOf(r.doc), r.index < s.index, None \notin {r.start, s.start}
        PROVE  r.start < s.start
    <3>1. L \in SUBSET Nat /\ IsFiniteSet(L) /\ Cardinality(L) \in Nat
      BY <2>1, LargeEnoughFacts, FS_CardinalityType
    <3> HIDE DEF L
    <3>2. r.index \in Nat /\ s.index \in Nat
      BY <2>2, <2>3
    <3>3. r.index + 1 < s.index + 1
      BY <2>4, <3>2
    <3>4. Nth(L, r.index + 1) < Nth(L, s.index + 1)
      BY <2>2, <2>3, <2>4, <3>1, <3>3, NthClimbs
    <3>. QED BY <2>1, <2>2, <2>3, <2>4, <3>4, StartsFacts
  <2>5. LET i == Nth(L, r.index + 1)
        IN  /\ r.start # None => StandsAt(f, i, r.start)
            /\ (Traceable(f) /\ f.cuts[i] # None) => r.start \in 1 .. f.cuts[i]
    <3> HIDE DEF L
    <3>. QED BY <2>1, <2>2, <2>3, StartsFacts
  <2>. QED BY <2>4, <2>5 DEF f
<1>. QED BY <1>1, <1>2, <1>3, IndexInvHolds, PTL DEF IndexSpec

-----------------------------------------------------------------------------
(***************************************************************************)
(* Types.                                                                  *)
(***************************************************************************)

\* A list whose elements are in S is a sequence over S.
LEMMA ListIsSeq ==
  ASSUME NEW s, IsList(s), NEW S, \A k \in DOMAIN s : s[k] \in S
  PROVE  s \in Seq(S)
<1> DEFINE T == {s[i] : i \in DOMAIN s}
<1>1. s \in Seq(T) /\ T \subseteq S
  BY DEF IsList
<1> HIDE DEF T
<1>. QED BY <1>1, SeqMonotonic

LEMMA ChunksTyped ==
  ASSUME NEW f \in Files
  PROVE  /\ Range(CreateChunks[f]) \subseteq ChunkData
         /\ FilterChunks[f] \in Seq(ChunkData)
         /\ \A k \in DOMAIN FilterChunks[f] : Valid(FilterChunks[f][k].content)
<1> DEFINE L   == LargeEnough(f)
           all == CreateChunks[f]
           I   == {i \in DOMAIN all : Valid(all[i].content)}
<1>1. L \subseteq 1 .. Len(f.texts) /\ L \in SUBSET Nat /\ IsFiniteSet(L)
  BY LargeEnoughFacts
<1>2. Cardinality(L) \in Nat /\ \A k \in 1 .. Cardinality(L) : Nth(L, k) \in 1 .. Len(f.texts)
  <2> HIDE DEF L
  <2>. QED BY <1>1, RankFacts DEF Nth, Below
<1>3. /\ DOMAIN all = 1 .. Cardinality(L)
      /\ \A k \in 1 .. Cardinality(L) :
           all[k] = [content |-> f.texts[Nth(L, k)], index |-> k - 1,
                     start |-> Starts(f)[Nth(L, k)]]
  BY DEF CreateChunks
<1> HIDE DEF L, all
<1>4. \A i \in 1 .. Len(f.texts) : f.texts[i] \in Passages /\ Starts(f)[i] \in Nat
  BY IndexingAssumption, ElementOfSeq, StartsFacts
<1>5. \A k \in DOMAIN all : all[k] \in ChunkData
  BY <1>2, <1>3, <1>4 DEF ChunkData
<1>6. IsFiniteSet(I) /\ I \in SUBSET Nat /\ I \subseteq DOMAIN all
  <2>1. IsFiniteSet(DOMAIN all) /\ I \subseteq DOMAIN all /\ DOMAIN all \subseteq Nat
    BY <1>2, <1>3, FS_Interval
  <2> HIDE DEF I
  <2>. QED BY <2>1, FS_Subset
<1>7. \A i \in I : Valid(all[i].content)
  OBVIOUS
<1>8. FilterChunks[f] = Picked(all, I)
  BY DEF FilterChunks, all
<1> HIDE DEF I
<1> DEFINE cs == Picked(all, I)
<1>9. DOMAIN cs = 1 .. Cardinality(I)
  BY DEF Picked
<1> HIDE DEF cs
<1>10. IsList(cs) /\ \A k \in 1 .. Cardinality(I) : Nth(I, k) \in I /\ cs[k] = all[Nth(I, k)]
  BY <1>6, PickedFacts DEF cs
<1>11. \A k \in DOMAIN cs : cs[k] \in ChunkData /\ Valid(cs[k].content)
  BY <1>5, <1>6, <1>7, <1>9, <1>10
<1>12. cs \in Seq(ChunkData)
  BY <1>10, <1>11, ListIsSeq
<1>13. Range(CreateChunks[f]) \subseteq ChunkData
  BY <1>5 DEF Range, all
<1>. QED BY <1>8, <1>11, <1>12, <1>13 DEF cs

\* The score of a valid passage is a number.
LEMMA ScoreTyped ==
  ASSUME NEW p \in Passages, Valid(p)
  PROVE  Score(p) \in Nat
<1> DEFINE m == Measure[p]
<1>1. /\ m.chars \in Nat /\ m.alpha \in Nat /\ m.unique \in Nat /\ m.words \in Nat
      /\ m.chars > 0 /\ m.words > 0
  BY IndexingAssumption DEF Counts, Valid
<1> HIDE DEF m
<1>2. (500 * m.alpha) \div m.chars \in Nat
  BY <1>1
<1>3. (300 * m.unique) \div m.words \in Nat
  BY <1>1
<1>4. Min({m.words, 50}) \in Nat
  BY <1>1, MinOfSome
<1>. QED BY <1>2, <1>3, <1>4 DEF Score, m

\* The lists that the comparison yields.
LEMMA DiffTyped ==
  ASSUME IndexInv, IndexTypeOK, Diff
  PROVE  /\ toEmbed' \in Seq(ChunkData) /\ ownScores' \in Seq(Nat)
         /\ stale' \subseteq Row /\ kept' \in Nat
<1>1. /\ IsList(chunks) /\ DOMAIN chunks = 1 .. Len(chunks) /\ Len(chunks) \in Nat
      /\ chunks \in Seq(ChunkData) /\ \A k \in DOMAIN chunks : chunks[k] \in ChunkData
  <2>1. chunks = FilterChunks[file[Current]] /\ file[Current] \in Files
    BY ElementOfSeq DEF Diff, IndexInv, Lists, Uploads, Current
  <2>2. IsList(chunks)
    BY <2>1, ChunkFacts
  <2>. QED BY <2>2, LenProperties, ElementOfSeq DEF IndexTypeOK, IsList
<1>2. DOMAIN scores = DOMAIN chunks /\ \A k \in DOMAIN scores : scores[k] \in Nat
  BY LenProperties, ElementOfSeq DEF Diff, IndexInv, Lists, IndexTypeOK
<1>3. CASE Previous = None
  BY <1>3 DEF Diff, IndexTypeOK
<1>4. CASE Previous # None
  <2>1. PICK old \in Existing(Previous) : /\ toEmbed' \in SetToSeqs(NewChunks(chunks, old))
                                          /\ ownScores' = ScoresOf(toEmbed')
                                          /\ stale' = StaleRows(chunks, old)
                                          /\ kept' = KeptCount(chunks, old)
    BY <1>4 DEF Diff
  <2>2. old \subseteq rows /\ IsFiniteSet(old)
    <3>1. old \subseteq rows
      BY DEF Existing, RowsOf
    <3>. QED BY <3>1, FS_Subset DEF IndexInv
  <2>3. stale' \subseteq Row
    BY <2>1, <2>2 DEF StaleRows, IndexTypeOK
  <2>4. kept' \in Nat
    <3> DEFINE K == {r \in old : r.content \in ContentsOf(Range(chunks))}
    <3>1. K \subseteq old
      OBVIOUS
    <3>2. kept' = Cardinality(K)
      BY <2>1 DEF KeptCount
    <3> HIDE DEF K
    <3>. QED BY <2>2, <3>1, <3>2, FS_Subset, FS_CardinalityType
  <2>5. toEmbed' \in Seq(ChunkData)
    <3>1. /\ NewChunks(chunks, old) \subseteq Range(chunks)
          /\ IsFiniteSet(NewChunks(chunks, old))
      BY <1>1, NewChunkFacts
    <3>2. IsList(toEmbed') /\ \A k \in 1 .. Len(toEmbed') : toEmbed'[k] \in Range(chunks)
      BY <2>1, <3>1, OrderFacts
    <3>3. DOMAIN toEmbed' = 1 .. Len(toEmbed')
      BY <3>2, LenProperties DEF IsList
    <3>4. Range(chunks) \subseteq ChunkData
      BY <1>1 DEF Range
    <3>. QED BY <3>2, <3>3, <3>4, ListIsSeq
  <2>6. ownScores' \in Seq(Nat)
    <3> DEFINE I == {i \in DOMAIN chunks : chunks[i] \in Range(toEmbed')}
               own == Picked(scores, I)
    <3>1. IsFiniteSet(I) /\ I \in SUBSET Nat /\ I \subseteq DOMAIN scores
      <4>1. IsFiniteSet(DOMAIN chunks) /\ I \subseteq DOMAIN chunks /\ DOMAIN chunks \subseteq Nat
        BY <1>1, FS_Interval
      <4> HIDE DEF I
      <4>. QED BY <1>2, <4>1, FS_Subset
    <3>2. ownScores' = own
      BY <2>1 DEF ScoresOf
    <3> HIDE DEF I
    <3>3. DOMAIN own = 1 .. Cardinality(I)
      BY DEF Picked
    <3> HIDE DEF own
    <3>4. /\ IsList(own)
          /\ \A k \in 1 .. Cardinality(I) : Nth(I, k) \in I /\ own[k] = scores[Nth(I, k)]
      BY <3>1, PickedFacts DEF own
    <3>5. \A k \in DOMAIN own : own[k] \in Nat
      BY <1>2, <3>1, <3>3, <3>4
    <3>. QED BY <3>2, <3>4, <3>5, ListIsSeq
  <2>. QED BY <2>3, <2>4, <2>5, <2>6
<1>. QED BY <1>3, <1>4

\* The rows of a version.
LEMMA NewRowsTyped ==
  ASSUME IndexInv, IndexTypeOK, phase = "store"
  PROVE  NewRows \subseteq Row
<1>1. Current \in 1 .. MaxVersions
  BY LenProperties, IndexingAssumption DEF IndexInv, Uploads, IndexTypeOK, Current
<1>2. \A i \in DOMAIN toEmbed : toEmbed[i] \in ChunkData
  BY ElementOfSeq, LenProperties DEF IndexTypeOK
<1>3. \A i \in DOMAIN vectors : vectors[i] \in {f.prefix : f \in Files} \X Passages
  BY ElementOfSeq, LenProperties DEF IndexTypeOK
<1>4. \A i \in DOMAIN ownScores : ownScores[i] \in Nat
  BY ElementOfSeq, LenProperties DEF IndexTypeOK
<1>. QED BY <1>1, <1>2, <1>3, <1>4 DEF NewRows, Row, ChunkData

LEMMA IndexTypeStep ==
  ASSUME IndexInv, IndexTypeOK, [IndexNext]_indexVars
  PROVE  IndexTypeOK'
<1>1. /\ Uploads' /\ Vectors' /\ Lists'
      /\ phase' \in {"idle", "parse", "diff", "embed", "store"} /\ file' \in Seq(Files)
      /\ status' \in [Versions' -> {"processing", "completed", "failed", "deleted"}]
  BY IndexInvStep DEF IndexInv, Uploads
<1>2. Len(file) \in Nat /\ MaxVersions \in Nat /\ BatchRetries \in Nat \ {0}
      /\ CallRetries \in Nat \ {0}
  BY LenProperties, IndexingAssumption DEF IndexTypeOK
<1>3. \A S : <<>> \in Seq(S)
  BY EmptySeq
<1>4. CASE UNCHANGED indexVars
  BY <1>4 DEF indexVars, job, IndexTypeOK, Versions
<1>5. ASSUME NEW f \in Files, Upload(f) PROVE IndexTypeOK'
  <2>1. Len(file') = Len(file) + 1 /\ IsList(count') /\ Len(count') = Len(file')
    BY <1>5, UploadAdds DEF IndexInv
  <2>2. count' \in [Versions' -> Nat]
    <3>1. count \in [1 .. Len(file) -> Nat]
      BY DEF IndexTypeOK, Versions
    <3>2. count \in Seq(Nat)
      BY <1>2, <3>1, SeqDef
    <3>3. count' \in Seq(Nat)
      BY <1>5, <3>2, AppendProperties DEF Upload
    <3>. QED BY <2>1, <3>3, LenProperties DEF Versions
  <2>3. Len(file') <= MaxVersions
    BY <1>2, <1>5, <2>1 DEF Upload
  <2>. QED BY <1>1, <1>5, <2>2, <2>3 DEF Upload, job, IndexTypeOK
<1>6. CASE Fail
  <2>1. count' \in [Versions' -> Nat] /\ Len(file') <= MaxVersions
    BY <1>6 DEF Fail, IndexTypeOK, Versions
  <2>. QED BY <1>1, <1>2, <1>3, <1>6, <2>1 DEF Fail, JobReset, IndexTypeOK
<1>7. CASE Chunk /\ ~ Fail
  <2>1. /\ chunks' = FilterChunks[file[Current]] /\ file[Current] \in Files
        /\ scores' = [i \in DOMAIN chunks' |-> Score(chunks'[i].content)]
    BY <1>7, ElementOfSeq DEF Chunk, IndexInv, Uploads, Current
  <2>2. /\ chunks' \in Seq(ChunkData)
        /\ \A k \in DOMAIN chunks' : Valid(chunks'[k].content)
    BY <2>1, ChunksTyped
  <2>3. DOMAIN chunks' = 1 .. Len(chunks') /\ Len(chunks') \in Nat
    BY <2>2, LenProperties
  <2>4. \A k \in DOMAIN chunks' : Score(chunks'[k].content) \in Nat
    <3>1. \A k \in DOMAIN chunks' : chunks'[k] \in ChunkData
      BY <2>2, <2>3, ElementOfSeq
    <3>2. \A k \in DOMAIN chunks' : chunks'[k].content \in Passages
      BY <3>1 DEF ChunkData
    <3>. QED BY <2>2, <3>2, ScoreTyped
  <2>5. scores' \in [1 .. Len(chunks') -> Nat]
    BY <2>1, <2>3, <2>4
  <2>6. scores' \in Seq(Nat)
    BY <2>3, <2>5, SeqDef
  <2>. QED BY <1>1, <1>7, <2>2, <2>6 DEF Chunk, IndexTypeOK, Versions
<1>8. CASE Diff
  <2>1. /\ toEmbed' \in Seq(ChunkData) /\ ownScores' \in Seq(Nat)
        /\ stale' \subseteq Row /\ kept' \in Nat
    BY <1>8, DiffTyped
  <2>. QED BY <1>1, <1>8, <2>1 DEF Diff, IndexTypeOK, Versions
<1>9. CASE EmbedAnswers
  <2>1. phase = "embed" /\ file' = file /\ toEmbed' = toEmbed
    BY <1>9 DEF EmbedAnswers, Embedding
  <2>2. IsList(vectors') /\ \A i \in DOMAIN vectors' : vectors'[i] = Text(toEmbed[i])
    BY <1>9, AnswerAdds DEF EmbedAnswers, IndexInv
  <2>3. IsList(vectors') /\ Len(vectors') <= Len(toEmbed)
    BY <1>9, AnswerAdds DEF EmbedAnswers, IndexInv
  <2>4. DOMAIN vectors' \subseteq DOMAIN toEmbed
    <3>1. DOMAIN vectors' = 1 .. Len(vectors') /\ Len(vectors') \in Nat
      BY <2>3, LenProperties DEF IsList
    <3>2. DOMAIN toEmbed = 1 .. Len(toEmbed) /\ Len(toEmbed) \in Nat
      BY LenProperties DEF IndexTypeOK
    <3>. QED BY <2>3, <3>1, <3>2
  <2>5. \A i \in DOMAIN toEmbed : toEmbed[i].content \in Passages
    <3>1. \A i \in DOMAIN toEmbed : toEmbed[i] \in ChunkData
      BY ElementOfSeq, LenProperties DEF IndexTypeOK
    <3>. QED BY <3>1 DEF ChunkData
  <2>6. file[Current] \in Files
    BY <2>1, ElementOfSeq DEF IndexInv, Uploads, Current
  <2>7. \A i \in DOMAIN vectors' : vectors'[i] \in {f.prefix : f \in Files} \X Passages
    BY <2>2, <2>4, <2>5, <2>6 DEF Text, Prefix
  <2>8. vectors' \in Seq({f.prefix : f \in Files} \X Passages)
    BY <2>2, <2>7, ListIsSeq
  <2>. QED BY <1>1, <1>2, <1>9, <2>8 DEF EmbedAnswers, IndexTypeOK, Versions
<1>10. CASE (EmbedRefused \/ EmbedUnreachable) /\ ~ Fail
  BY <1>1, <1>2, <1>10 DEF EmbedRefused, EmbedUnreachable, AttemptFails, IndexTypeOK, Versions
<1>11. CASE Embedded
  BY <1>1, <1>11 DEF Embedded, job, IndexTypeOK, Versions
<1>12. CASE Store
  <2>1. rows' \subseteq Row
    BY <1>12, NewRowsTyped DEF Store, IndexTypeOK
  <2>2. count' \in [Versions' -> Nat] /\ Len(file') <= MaxVersions
    <3>1. Len(toEmbed) + kept \in Nat
      BY LenProperties DEF IndexTypeOK
    <3>. QED BY <1>12, <3>1 DEF Store, IndexTypeOK, Versions
  <2>. QED BY <1>1, <1>2, <1>3, <1>12, <2>1, <2>2 DEF Store, JobReset, IndexTypeOK
<1>13. ASSUME NEW d \in Versions, DeleteVersion(d) PROVE IndexTypeOK'
  BY <1>1, <1>13 DEF DeleteVersion, job, IndexTypeOK, Versions
<1>. QED
  BY <1>4, <1>5, <1>6, <1>7, <1>8, <1>9, <1>10, <1>11, <1>12, <1>13
     DEF IndexNext, Manage, Work, Break, Chunk, EmbedRefused, EmbedUnreachable

\* The variables of the index stay in their types.
THEOREM IndexTypesHold == IndexSpec => []IndexTypeOK
<1>1. IndexInit => IndexTypeOK
  BY EmptySeq, IndexingAssumption DEF IndexInit, IndexTypeOK, Versions
<1>2. IndexInv /\ IndexTypeOK /\ [IndexNext]_indexVars => IndexTypeOK'
  BY IndexTypeStep
<1>. QED BY <1>1, <1>2, IndexInvHolds, PTL DEF IndexSpec
=============================================================================
