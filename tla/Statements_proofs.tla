--------------------------- MODULE Statements_proofs ---------------------------
(***************************************************************************)
(* Theorems about Statements: for any accounts, files, imports and         *)
(* gestures, an overlapping export brings its delta only, no validation    *)
(* meets the unique index, and no half of a transfer is left behind.       *)
(***************************************************************************)
EXTENDS Statements, FiniteSetTheorems, WellFoundedInduction, TLAPS

\* The ranks an operation has in an account, and those up to one of them
Ranks(k) == {t.seq : t \in existingByKey(k)}
upTo(k, n) == {r \in Ranks(k) : r <= n}

RowsTyped ==
    /\ txs \subseteq Tx
    /\ groups \in 0..MaxTransfers
    /\ imports \in [Import -> [st : Statuses, file : File \union {<<>>}, covers : SUBSET Period]]
    /\ brought \in [Import -> [Fingerprint -> Nat]]

RanksBounded == \A k \in Fingerprint : \E n \in Nat : \A r \in Ranks(k) : r <= n

\* A row that is there was brought by an import that still stands, which shows
\* at least as many as there are up to its rank
RanksPaid ==
    \A t \in txs : ~t.hand =>
        /\ t.from \in validated
        /\ Cardinality(upTo(t.key, t.seq)) <= brought[t.from][t.key]

\* What no row was taken from holds what any standing import shows
RanksWhole ==
    \A k \in Fingerprint \ thinned, i \in validated : brought[i][k] <= Cardinality(Ranks(k))

\* The inductive invariant
RowsIInv == RowsTyped /\ UniqueFingerprint /\ RanksBounded /\ RanksPaid /\ RanksWhole

-----------------------------------------------------------------------------
(***************************************************************************)
(* Least and greatest of a set of naturals.                                *)
(***************************************************************************)
\* A set of naturals that is not empty has a least element.
LEMMA LeastOf ==
    ASSUME NEW T \in SUBSET Nat, T # {}
    PROVE  \E x \in T : \A y \in T : x <= y
<1> DEFINE R == OpToRel(<, Nat)
<1>1. PICK x \in T : \A y \in T : <<y, x>> \notin R
  <2> HIDE DEF R
  <2>1. IsWellFoundedOn(R, Nat)
      BY NatLessThanWellFounded DEF R
  <2> QED BY <2>1, WFMin
<1>2. \A y \in T : ~(y < x)
  <2> SUFFICES ASSUME NEW y \in T, y < x PROVE FALSE
      OBVIOUS
  <2>1. <<y, x>> \in R
      BY DEF OpToRel
  <2> QED BY <1>1, <2>1
<1> QED BY <1>2

\* A bounded set of naturals has a greatest element, and Max gives it.
LEMMA MaxIs ==
    ASSUME NEW S \in SUBSET Nat, S # {}, NEW n \in Nat, \A s \in S : s <= n
    PROVE  Max(S) \in S /\ \A s \in S : s <= Max(S)
<1> DEFINE T == {n - s : s \in S}
<1>1. T \in SUBSET Nat /\ T # {}
    OBVIOUS
<1>2. PICK x \in T : \A y \in T : x <= y
  <2> HIDE DEF T
  <2> QED BY <1>1, LeastOf
<1>3. PICK m \in S : x = n - m
    OBVIOUS
<1>4. \A s \in S : m >= s
  <2> SUFFICES ASSUME NEW s \in S PROVE m >= s
      OBVIOUS
  <2>1. n - s \in T
      OBVIOUS
  <2>2. n - m <= n - s
      BY <1>2, <1>3, <2>1
  <2>3. m \in Nat /\ s \in Nat
      OBVIOUS
  <2> HIDE DEF T
  <2> QED BY <2>2, <2>3
<1>5. \E m1 \in S : \A s \in S : m1 >= s
    BY <1>4
<1> QED BY <1>5 DEF Max

\* Finitely many numbers have a bound.
LEMMA BoundOf ==
    ASSUME NEW n \in Nat, NEW b \in [1..n -> Nat]
    PROVE  \E m \in Nat : \A i \in 1..n : b[i] <= m
<1> DEFINE D == {j \in 0..n : \A m \in Nat : \E i \in 1..j : ~(b[i] <= m)}
<1>1. CASE n \notin D
    BY <1>1
<1>2. CASE n \in D
  <2>1. PICK j \in D : \A y \in D : j <= y
    <3>1. D \in SUBSET Nat
        OBVIOUS
    <3> HIDE DEF D
    <3> QED BY <1>2, <3>1, LeastOf
  <2>2. 0 \notin D
      OBVIOUS
  <2>3. j \in 1..n /\ j - 1 \in 0..n /\ j - 1 \notin D
    <3>1. j \in 0..n /\ j # 0
        BY <2>1, <2>2
    <3>2. j \in 1..n /\ j - 1 \in 0..n /\ ~(j <= j - 1)
        BY <3>1
    <3> QED BY <3>2, <2>1
  <2>4. PICK m \in Nat : \A i \in 1..(j - 1) : b[i] <= m
      BY <2>3
  <2>5. b[j] \in Nat
      BY <2>3
  <2>6. \A i \in 1..j : b[i] <= m + b[j]
    <3> SUFFICES ASSUME NEW i \in 1..j PROVE b[i] <= m + b[j]
        OBVIOUS
    <3>1. CASE i = j
        BY <3>1, <2>5
    <3>2. CASE i \in 1..(j - 1)
      <4>1. b[i] <= m /\ b[i] \in Nat
          BY <3>2, <2>3, <2>4
      <4> QED BY <4>1, <2>5
    <3> QED BY <3>1, <3>2, <2>3
  <2>7. m + b[j] \in Nat
      BY <2>5
  <2> QED BY <2>1, <2>6, <2>7
<1> QED BY <1>1, <1>2

-----------------------------------------------------------------------------
\* The ranks of an operation number its rows.
LEMMA RanksCount ==
    ASSUME RowsTyped, UniqueFingerprint, RanksBounded, NEW k \in Fingerprint
    PROVE  /\ Ranks(k) \in SUBSET Nat /\ IsFiniteSet(Ranks(k))
           /\ Cardinality(Ranks(k)) \in Nat
           /\ Cardinality(existingByKey(k)) = Cardinality(Ranks(k))
<1> DEFINE E == existingByKey(k)
           f == [t \in E |-> t.seq]
<1>1. E \subseteq Tx /\ \A t \in E : t.seq \in Nat /\ ~t.hand /\ t.key = k /\ t \in txs
    BY DEF RowsTyped, existingByKey, Tx
<1>2. Ranks(k) \in SUBSET Nat /\ \A t \in E : t.seq \in Ranks(k)
    BY <1>1 DEF Ranks
<1>3. IsFiniteSet(Ranks(k))
    BY <1>2, FS_BoundedSetOfNaturals DEF RanksBounded
<1>4. \A s, t \in E : s.seq = t.seq => s = t
    BY <1>1 DEF UniqueFingerprint
<1>5. \A r \in Ranks(k) : \E t \in E : t.seq = r
    BY DEF Ranks
<1> HIDE DEF E
<1>6. f \in Injection(E, Ranks(k))
    BY <1>2, <1>4 DEF Injection, IsInjective
<1>7. f \in Surjection(E, Ranks(k))
    BY <1>2, <1>5 DEF Surjection
<1>8. Cardinality(E) = Cardinality(Ranks(k))
    BY <1>3, <1>6, <1>7, FS_Injection
<1> QED BY <1>2, <1>3, <1>8, FS_CardinalityType DEF E

\* A block shows an operation a number of times; so does a file.
LEMMA Shows ==
    ASSUME NEW f \in File \union {<<>>}, NEW k \in Fingerprint
    PROVE  collapseBlocks(f, k) \in Nat
<1>1. lines(f) = 1..Len(f) /\ Len(f) \in Nat
    BY StatementsAssumption DEF lines
<1>2. IsFiniteSet(lines(f)) /\ Cardinality(lines(f)) = Len(f)
    BY <1>1, FS_Interval
<1>3. ASSUME NEW b, NEW o PROVE times(f, b, o) \in 0..Len(f)
  <2>1. {i \in lines(f) : blockOf(f, i) = b /\ f[i].op = o} \in SUBSET lines(f)
      OBVIOUS
  <2> QED BY <2>1, <1>1, <1>2, FS_Subset, FS_CardinalityType DEF times
<1> DEFINE S == {0} \union {times(f, b, k[2]) : b \in blocksOf(f, k[1])}
<1>4. S \in SUBSET Nat /\ S # {} /\ \A s \in S : s <= Len(f)
    BY <1>1, <1>3
<1>5. collapseBlocks(f, k) = Max(S)
    BY DEF collapseBlocks
<1> HIDE DEF S
<1> QED BY <1>1, <1>4, <1>5, MaxIs

\* The days of a file are days.
LEMMA DaysOfFile ==
    ASSUME NEW f \in File \union {<<>>}
    PROVE  window(f) \subseteq Period
<1>1. /\ lines(f) = 1..Len(f) /\ Len(f) \in Nat
      /\ \A i \in lines(f) : DayOf[f[i].op] \in Nat
  <2>1. CASE f \in File
    <3>1. f \in Seq([label : Label, op : Operation])
        BY <2>1, StatementsAssumption
    <3> DEFINE Line == [label : Label, op : Operation]
    <3>2. /\ Len(f) \in Nat /\ DOMAIN f = 1..Len(f)
          /\ \A i \in 1..Len(f) : f[i] \in Line
      <4>1. f \in Seq(Line)
          BY <3>1
      <4> HIDE DEF Line
      <4> QED BY <4>1
    <3>3. \A i \in 1..Len(f) : f[i].op \in Operation
        BY <3>2
    <3> QED BY <3>2, <3>3, StatementsAssumption DEF lines
  <2>2. CASE f = <<>>
      BY <2>2 DEF lines
  <2> QED BY <2>1, <2>2
<1> DEFINE days == {DayOf[f[i].op] : i \in lines(f)}
<1>2. CASE lines(f) = {}
  <2>1. \A a : blocksOf(f, a) = {}
      BY <1>2 DEF blocksOf, blocks
  <2> QED BY <2>1 DEF window
<1>3. CASE lines(f) # {}
  <2>1. days \in SUBSET Nat /\ days # {}
      BY <1>1, <1>3
  <2>2. PICK m \in Nat : \A d \in days : d <= m
    <3> DEFINE b == [i \in 1..Len(f) |-> DayOf[f[i].op]]
    <3>1. b \in [1..Len(f) -> Nat]
        BY <1>1
    <3>2. \A d \in days : \E i \in 1..Len(f) : d = b[i]
        BY <1>1
    <3> HIDE DEF b, days
    <3>3. \E m \in Nat : \A i \in 1..Len(f) : b[i] <= m
        BY <1>1, <3>1, BoundOf
    <3> QED BY <3>2, <3>3
  <2> HIDE DEF days
  <2>3. Max(days) \in Nat
      BY <2>1, <2>2, MaxIs
  <2>4. \E x \in days : \A y \in days : x <= y
      BY <2>1, LeastOf
  <2>5. Min(days) \in Nat
      BY <2>1, <2>4 DEF Min
  <2>6. window(f) = {[account |-> a, from |-> Min(days), to |-> Max(days)] :
                        a \in {b \in Account : blocksOf(f, b) # {}}}
      BY DEF window, days
  <2> QED BY <2>3, <2>5, <2>6 DEF Period
<1> QED BY <1>2, <1>3

\* The first rank given is above those there are.
LEMMA FirstIsNew ==
    ASSUME RowsTyped, UniqueFingerprint, RanksBounded, NEW k \in Fingerprint
    PROVE  firstSeq(k) \in Nat /\ \A r \in Ranks(k) : r < firstSeq(k)
<1>1. Ranks(k) \in SUBSET Nat
    BY RanksCount
<1>2. CASE existingByKey(k) = {}
    BY <1>2 DEF firstSeq, Ranks
<1>3. CASE existingByKey(k) # {}
  <2>1. Ranks(k) # {} /\ firstSeq(k) = Max(Ranks(k)) + 1
      BY <1>3 DEF firstSeq, Ranks
  <2>2. Max(Ranks(k)) \in Ranks(k) /\ \A r \in Ranks(k) : r <= Max(Ranks(k))
      BY <1>1, <2>1, MaxIs DEF RanksBounded
  <2> QED BY <1>1, <2>1, <2>2
<1> QED BY <1>2, <1>3

-----------------------------------------------------------------------------
\* Nothing is held at first.
LEMMA InitRows == StatementsInit => RowsIInv
<1> SUFFICES ASSUME StatementsInit PROVE RowsIInv
    OBVIOUS
<1>1. txs = {} /\ \A k : existingByKey(k) = {} /\ Ranks(k) = {}
    BY DEF StatementsInit, existingByKey, Ranks
<1>2. RowsTyped
    BY StatementsAssumption DEF StatementsInit, RowsTyped, Statuses, NoKey
<1>3. validated = {}
    BY DEF StatementsInit, validated
<1>4. RanksBounded
    BY <1>1 DEF RanksBounded
<1> QED BY <1>1, <1>2, <1>3, <1>4 DEF RowsIInv, UniqueFingerprint, RanksPaid, RanksWhole

\* Rows go, others change all but what names them: their key, their rank and the
\* import they come from.
LEMMA RelabelKeeps ==
    ASSUME RowsIInv, RowsTyped',
           NEW left \in SUBSET txs, NEW g \in [left -> Tx],
           \A t \in left : /\ g[t].key = t.key /\ g[t].seq = t.seq /\ g[t].from = t.from
                           /\ g[t].hand = t.hand,
           txs' = {g[t] : t \in left},
           brought' = brought, validated' \subseteq validated,
           \A t \in left : t.from \in validated => t.from \in validated',
           thinned \subseteq thinned',
           \A t \in txs \ left : ~t.hand => t.key \in thinned'
    PROVE  RowsIInv'
<1> USE DEF RowsIInv
<1>1. \A t \in txs : t \in Tx /\ t.key \in Fingerprint
    BY DEF RowsTyped, Tx
<1>2. \A u \in txs' : \E t \in left : u = g[t]
    OBVIOUS
<1>3. UniqueFingerprint'
    BY <1>2 DEF UniqueFingerprint
<1>4. ASSUME NEW k \in Fingerprint
      PROVE  /\ Ranks(k)' \subseteq Ranks(k)
             /\ k \notin thinned' => Ranks(k)' = Ranks(k)
  <2>1. \A r \in Ranks(k)' : \E t \in left : ~t.hand /\ t.key = k /\ t.seq = r
      BY <1>2 DEF Ranks, existingByKey
  <2>2. Ranks(k)' \subseteq Ranks(k)
      BY <2>1 DEF Ranks, existingByKey
  <2>3. ASSUME k \notin thinned', NEW t \in existingByKey(k) PROVE t.seq \in Ranks(k)'
    <3>1. t \in left /\ ~t.hand /\ t.key = k
        BY <2>3 DEF existingByKey
    <3>2. g[t] \in txs' /\ g[t].key = k /\ ~g[t].hand /\ g[t].seq = t.seq
        BY <3>1
    <3> QED BY <3>2 DEF Ranks, existingByKey
  <2>4. k \notin thinned' => Ranks(k) \subseteq Ranks(k)'
      BY <2>3 DEF Ranks
  <2> QED BY <2>2, <2>4
<1>5. RanksBounded'
    BY <1>4 DEF RanksBounded
<1>6. RanksPaid'
  <2> SUFFICES ASSUME NEW u \in txs', ~u.hand
               PROVE  /\ u.from \in validated'
                      /\ Cardinality(upTo(u.key, u.seq)') <= brought[u.from][u.key]
      BY DEF RanksPaid
  <2>1. PICK t \in left : u = g[t]
      BY <1>2
  <2>2. t \in txs /\ ~t.hand /\ u.key = t.key /\ u.seq = t.seq /\ u.from = t.from
        /\ t.key \in Fingerprint
      BY <2>1, <1>1
  <2>3. /\ t.from \in validated
        /\ Cardinality(upTo(t.key, t.seq)) <= brought[t.from][t.key]
        /\ brought[t.from][t.key] \in Nat
      BY <2>2 DEF RanksPaid, RowsTyped, validated
  <2>4. upTo(u.key, u.seq)' \subseteq upTo(t.key, t.seq)
      BY <2>2, <1>4 DEF upTo
  <2>5. IsFiniteSet(upTo(t.key, t.seq))
    <3>1. upTo(t.key, t.seq) \in SUBSET Ranks(t.key)
        BY DEF upTo
    <3> QED BY <3>1, <2>2, RanksCount, FS_Subset
  <2>6. /\ Cardinality(upTo(u.key, u.seq)') <= Cardinality(upTo(t.key, t.seq))
        /\ Cardinality(upTo(u.key, u.seq)') \in Nat /\ Cardinality(upTo(t.key, t.seq)) \in Nat
      BY <2>4, <2>5, FS_Subset, FS_CardinalityType
  <2> QED BY <2>1, <2>2, <2>3, <2>6
<1>7. RanksWhole'
    BY <1>4 DEF RanksWhole
<1> QED BY <1>3, <1>5, <1>6, <1>7

\* A validation brings the rows that miss, under ranks nobody has.
LEMMA CommitKeeps ==
    ASSUME RowsIInv, NEW i \in Import, commitImport(i)
    PROVE  RowsIInv'
<1> USE DEF RowsIInv
<1> DEFINE f == imports[i].file
           missing(k) == collapseBlocks(f, k) - Cardinality(existingByKey(k))
           row(k, n) == [key |-> k, account |-> k[1], op |-> k[2], hand |-> FALSE,
                         seq |-> firstSeq(k) + n, from |-> i, group |-> 0, kind |-> natural(k[2])]
           fresh == dedupeAgainst(f, i)
<1>1. /\ imports[i].st = "pending"
      /\ txs' = txs \union fresh
      /\ imports' = [imports EXCEPT ![i] = [st |-> "committed", file |-> <<>>,
                                            covers |-> window(f)]]
      /\ brought' = [brought EXCEPT ![i] = [k \in Fingerprint |-> collapseBlocks(f, k)]]
      /\ UNCHANGED <<groups, thinned>>
    BY DEF commitImport
<1>2. f \in File \union {<<>>}
    BY DEF RowsTyped
<1>3. \A k \in Fingerprint : /\ collapseBlocks(f, k) \in Nat
                             /\ Cardinality(Ranks(k)) \in Nat
                             /\ missing(k) = collapseBlocks(f, k) - Cardinality(Ranks(k))
                             /\ firstSeq(k) \in Nat
                             /\ \A r \in Ranks(k) : r \in Nat /\ r < firstSeq(k)
    BY <1>2, Shows, RanksCount, FirstIsNew
<1>4. /\ \A t \in fresh : \E k \in Fingerprint : \E n \in 0..(missing(k) - 1) : t = row(k, n)
      /\ \A k \in Fingerprint : \A n \in 0..(missing(k) - 1) : row(k, n) \in fresh
  <2>1. fresh = UNION {{row(k, n) : n \in 0..(missing(k) - 1)} : k \in Fingerprint}
      BY DEF dedupeAgainst
  <2> HIDE DEF fresh, row, missing
  <2> QED BY <2>1
<1> HIDE DEF fresh, f
<1>5. \A k \in Fingerprint, n \in Nat : row(k, n) \in Tx
    BY <1>3 DEF Tx, Fingerprint, natural
<1>6. RowsTyped'
  <2>1. txs' \subseteq Tx
    <3> SUFFICES ASSUME NEW t \in fresh PROVE t \in Tx
        BY <1>1 DEF RowsTyped
    <3>1. PICK k \in Fingerprint : \E n \in 0..(missing(k) - 1) : t = row(k, n)
        BY <1>4
    <3>2. PICK n \in 0..(missing(k) - 1) : t = row(k, n)
        BY <3>1
    <3>3. n \in Nat
        BY <3>2, <1>3
    <3> QED BY <3>2, <3>3, <1>5
  <2>2. imports' \in [Import -> [st : Statuses, file : File \union {<<>>}, covers : SUBSET Period]]
      BY <1>1, <1>2, DaysOfFile DEF RowsTyped, Statuses
  <2>3. brought' \in [Import -> [Fingerprint -> Nat]]
      BY <1>1, <1>3 DEF RowsTyped
  <2> QED BY <2>1, <2>2, <2>3, <1>1 DEF RowsTyped
<1>7. /\ validated' = validated \union {i} /\ i \notin validated
      /\ \A j \in validated : brought'[j] = brought[j]
      /\ \A k \in Fingerprint : brought'[i][k] = collapseBlocks(f, k)
    BY <1>1 DEF validated, RowsTyped
<1>8. ASSUME NEW t \in fresh
      PROVE  \E k \in Fingerprint, n \in Nat :
                 /\ n < missing(k) /\ t = row(k, n)
                 /\ t.key = k /\ t.seq = firstSeq(k) + n /\ t.from = i /\ ~t.hand
  <2>1. PICK k \in Fingerprint : \E n \in 0..(missing(k) - 1) : t = row(k, n)
      BY <1>4
  <2>2. missing(k) \in Int
      BY <1>3
  <2>3. PICK n \in 0..(missing(k) - 1) : t = row(k, n)
      BY <2>1
  <2>4. n \in Nat /\ n < missing(k)
      BY <2>2
  <2> QED BY <2>3, <2>4
<1>9. ASSUME NEW k \in Fingerprint
      PROVE  /\ missing(k) <= 0 => Ranks(k)' = Ranks(k)
             /\ missing(k) > 0 =>
                    Ranks(k)' = Ranks(k) \union firstSeq(k)..(firstSeq(k) + missing(k) - 1)
  <2>1. missing(k) \in Int /\ firstSeq(k) \in Nat
      BY <1>3
  <2>2. \A r \in Ranks(k)' : r \in Ranks(k) \/ \E n \in Nat : n < missing(k) /\ r = firstSeq(k) + n
    <3> SUFFICES ASSUME NEW t \in txs', ~t.hand, t.key = k
                 PROVE  \/ t.seq \in Ranks(k)
                        \/ \E n \in Nat : n < missing(k) /\ t.seq = firstSeq(k) + n
        BY DEF Ranks, existingByKey
    <3>1. CASE t \in txs
        BY <3>1 DEF Ranks, existingByKey
    <3>2. CASE t \in fresh
        BY <3>2, <1>8
    <3> QED BY <3>1, <3>2, <1>1
  <2>3. Ranks(k) \subseteq Ranks(k)'
      BY <1>1 DEF Ranks, existingByKey
  <2>4. ASSUME NEW n \in Nat, n < missing(k) PROVE firstSeq(k) + n \in Ranks(k)'
    <3>1. row(k, n) \in txs'
        BY <2>1, <2>4, <1>1, <1>4
    <3>2. row(k, n).key = k /\ ~row(k, n).hand /\ row(k, n).seq = firstSeq(k) + n
        OBVIOUS
    <3> HIDE DEF row
    <3> QED BY <3>1, <3>2 DEF Ranks, existingByKey
  <2> HIDE DEF missing
  <2>5. CASE missing(k) <= 0
    <3>1. ~\E n \in Nat : n < missing(k)
        BY <2>1, <2>5
    <3> QED BY <3>1, <2>1, <2>2, <2>3, <2>5
  <2>6. CASE missing(k) > 0
    <3>1. \A r \in firstSeq(k)..(firstSeq(k) + missing(k) - 1) :
              r - firstSeq(k) \in Nat /\ r - firstSeq(k) < missing(k)
                  /\ r = firstSeq(k) + (r - firstSeq(k))
        BY <2>1
    <3>2. \A r \in firstSeq(k)..(firstSeq(k) + missing(k) - 1) : r \in Ranks(k)'
        BY <2>4, <3>1
    <3>3. \A n \in Nat : n < missing(k) =>
              firstSeq(k) + n \in firstSeq(k)..(firstSeq(k) + missing(k) - 1)
        BY <2>1
    <3> QED BY <2>1, <2>2, <2>3, <2>6, <3>2, <3>3
  <2> QED BY <2>1, <2>5, <2>6
<1>10. ASSUME NEW k \in Fingerprint
       PROVE  /\ IsFiniteSet(Ranks(k)') /\ Cardinality(Ranks(k)') \in Nat
              /\ missing(k) <= 0 => Cardinality(Ranks(k)') = Cardinality(Ranks(k))
              /\ missing(k) > 0 => Cardinality(Ranks(k)') = collapseBlocks(f, k)
              /\ \E n \in Nat : \A r \in Ranks(k)' : r <= n
  <2>1. IsFiniteSet(Ranks(k)) /\ Cardinality(Ranks(k)) \in Nat
      BY RanksCount
  <2>2. PICK n \in Nat : \A r \in Ranks(k) : r <= n
      BY DEF RanksBounded
  <2>3. CASE missing(k) <= 0
    <3>1. Ranks(k)' = Ranks(k)
        BY <2>3, <1>9
    <3>2. ~(missing(k) > 0)
        BY <2>3, <1>3
    <3> QED BY <3>1, <3>2, <2>1, <2>2
  <2>4. CASE missing(k) > 0
    <3> DEFINE added == firstSeq(k)..(firstSeq(k) + missing(k) - 1)
    <3>1. missing(k) \in Int /\ firstSeq(k) \in Nat
        BY <1>3
    <3>2. IsFiniteSet(added) /\ Cardinality(added) = missing(k)
      <4> DEFINE top == firstSeq(k) + missing(k) - 1
      <4>1. top \in Int /\ firstSeq(k) \in Int /\ added = firstSeq(k)..top
          BY <3>1
      <4> HIDE DEF top
      <4>2. /\ IsFiniteSet(added)
            /\ Cardinality(added) = IF firstSeq(k) > top THEN 0 ELSE top - firstSeq(k) + 1
        <5> HIDE DEF added
        <5> QED BY <4>1, FS_Interval
      <4> USE DEF top
      <4> HIDE DEF added, missing
      <4> QED BY <3>1, <4>2, <2>4
    <3>3. Ranks(k) \intersect added = {}
        BY <1>3, <3>1
    <3>4. \A r \in Ranks(k) \union added : r <= n + firstSeq(k) + missing(k)
      <4> SUFFICES ASSUME NEW r \in Ranks(k) \union added
                   PROVE  r <= n + firstSeq(k) + missing(k)
          OBVIOUS
      <4>1. CASE r \in Ranks(k)
        <5>1. r <= n /\ r \in Nat
            BY <4>1, <2>2, <1>3
        <5> HIDE DEF missing
        <5> QED BY <5>1, <3>1, <2>4
      <4>2. CASE r \in added
        <5> HIDE DEF missing
        <5> QED BY <4>2, <3>1, <2>4
      <4> QED BY <4>1, <4>2
    <3>5. n + firstSeq(k) + missing(k) \in Nat
      <4> HIDE DEF missing
      <4> QED BY <3>1, <2>4
    <3>6. Ranks(k)' = Ranks(k) \union added
        BY <2>4, <1>9
    <3> HIDE DEF added
    <3>7. Cardinality(Ranks(k) \union added)
              = Cardinality(Ranks(k)) + Cardinality(added) - Cardinality(Ranks(k) \intersect added)
          /\ IsFiniteSet(Ranks(k) \union added)
        BY <2>1, <3>2, FS_Union
    <3>8. Cardinality(Ranks(k) \union added) = Cardinality(Ranks(k)) + missing(k)
      <4>1. Cardinality(Ranks(k) \intersect added) = 0
          BY <3>3, FS_EmptySet
      <4>2. missing(k) \in Int
          BY <3>1
      <4> HIDE DEF missing
      <4> QED BY <4>1, <4>2, <3>2, <3>7, <2>1
    <3>9. Cardinality(Ranks(k) \union added) = collapseBlocks(f, k)
        BY <3>8, <1>3
    <3>10. ~(missing(k) <= 0)
        BY <2>4, <1>3
    <3> QED BY <3>4, <3>5, <3>6, <3>7, <3>9, <3>10, <1>3
  <2> QED BY <2>3, <2>4, <1>3
<1>11. RanksBounded'
    BY <1>10 DEF RanksBounded
<1>12. UniqueFingerprint'
  <2> SUFFICES ASSUME NEW s \in txs', NEW t \in txs', ~s.hand, ~t.hand,
                      s.key = t.key, s.seq = t.seq
               PROVE  s = t
      BY DEF UniqueFingerprint
  <2>1. CASE s \in txs /\ t \in txs
      BY <2>1 DEF UniqueFingerprint
  <2>2. CASE s \in fresh /\ t \in fresh
    <3>1. PICK k \in Fingerprint, n \in Nat : s = row(k, n) /\ s.key = k /\ s.seq = firstSeq(k) + n
        BY <2>2, <1>8
    <3>2. PICK l \in Fingerprint, m \in Nat : t = row(l, m) /\ t.key = l /\ t.seq = firstSeq(l) + m
        BY <2>2, <1>8
    <3>3. k = l /\ n = m
        BY <3>1, <3>2, <1>3
    <3> QED BY <3>1, <3>2, <3>3
  <2>3. ASSUME NEW u \in txs, NEW v \in fresh, ~u.hand, u.key = v.key PROVE u.seq # v.seq
    <3>1. PICK k \in Fingerprint, n \in Nat : v.key = k /\ v.seq = firstSeq(k) + n
        BY <1>8
    <3>2. u.seq \in Ranks(k)
        BY <2>3, <3>1 DEF Ranks, existingByKey
    <3> QED BY <3>1, <3>2, <1>3
  <2> QED BY <2>1, <2>2, <2>3, <1>1
<1>13. RanksPaid'
  <2> SUFFICES ASSUME NEW t \in txs', ~t.hand
               PROVE  /\ t.from \in validated'
                      /\ Cardinality(upTo(t.key, t.seq)') <= brought'[t.from][t.key]
      BY DEF RanksPaid
  <2>1. CASE t \in txs
    <3>1. t.key \in Fingerprint /\ t.seq \in Ranks(t.key) /\ t.seq \in Nat
        BY <2>1 DEF RowsTyped, Tx, Ranks, existingByKey
    <3>2. upTo(t.key, t.seq)' = upTo(t.key, t.seq)
      <4>1. \A r \in Ranks(t.key)' : r \in Ranks(t.key) \/ ~(r <= t.seq)
        <5> SUFFICES ASSUME NEW r \in Ranks(t.key)', r \notin Ranks(t.key)
                     PROVE  ~(r <= t.seq)
            OBVIOUS
        <5>1. missing(t.key) > 0 /\ r \in firstSeq(t.key)..(firstSeq(t.key) + missing(t.key) - 1)
            BY <1>3, <1>9, <3>1
        <5>2. t.seq < firstSeq(t.key) /\ firstSeq(t.key) \in Nat /\ missing(t.key) \in Int
            BY <1>3, <3>1
        <5> HIDE DEF missing
        <5> QED BY <3>1, <5>1, <5>2
      <4>2. Ranks(t.key) \subseteq Ranks(t.key)'
          BY <1>3, <1>9, <3>1
      <4> QED BY <4>1, <4>2 DEF upTo
    <3> QED BY <3>1, <3>2, <2>1, <1>7 DEF RanksPaid
  <2>2. CASE t \in fresh
    <3>1. PICK k \in Fingerprint, n \in Nat : n < missing(k) /\ t.key = k /\ t.from = i
        BY <2>2, <1>8
    <3>2. missing(k) > 0
        BY <3>1, <1>3
    <3>3. IsFiniteSet(Ranks(k)') /\ Cardinality(Ranks(k)') = collapseBlocks(f, k)
        BY <3>2, <1>10
    <3>4. upTo(t.key, t.seq)' \in SUBSET Ranks(k)'
        BY <3>1 DEF upTo
    <3>5. Cardinality(upTo(t.key, t.seq)') <= collapseBlocks(f, k)
        BY <3>3, <3>4, FS_Subset
    <3> QED BY <3>1, <3>5, <1>7
  <2> QED BY <2>1, <2>2, <1>1
<1>14. RanksWhole'
  <2> SUFFICES ASSUME NEW k \in Fingerprint \ thinned, NEW j \in validated'
               PROVE  brought'[j][k] <= Cardinality(Ranks(k)')
      BY <1>1 DEF RanksWhole
  <2>1. /\ Cardinality(Ranks(k)) <= Cardinality(Ranks(k)')
        /\ collapseBlocks(f, k) <= Cardinality(Ranks(k)')
    <3>1. missing(k) <= 0 \/ missing(k) > 0
        BY <1>3
    <3> QED BY <3>1, <1>3, <1>10
  <2>2. CASE j = i
      BY <2>1, <2>2, <1>7
  <2>3. CASE j \in validated
    <3>1. brought[j][k] <= Cardinality(Ranks(k)) /\ brought[j][k] \in Nat
        BY <2>3 DEF RanksWhole, RowsTyped, validated
    <3> QED BY <2>1, <2>3, <3>1, <1>3, <1>7, <1>10
  <2> QED BY <2>2, <2>3, <1>7
<1> QED BY <1>6, <1>11, <1>12, <1>13, <1>14

\* Two rows again, for the transfers `gone`: a change of what does not name them.
relabelled(left, gone) ==
    [t \in left |-> IF t.group \in gone
                    THEN [t EXCEPT !.group = 0, !.kind = natural(t.op)] ELSE t]

\* Row u is row t, out of its transfer if that one is gone
sameButTransfer(t, u, gone) ==
    /\ u.key = t.key /\ u.seq = t.seq /\ u.from = t.from
    /\ u.hand = t.hand /\ u.op = t.op
    /\ u.group = IF t.group \in gone THEN 0 ELSE t.group
    /\ u.kind = IF t.group \in gone THEN natural(t.op) ELSE t.kind

\* Each row left becomes one row, under the same key, rank and import.
LEMMA Ungrouping ==
    ASSUME NEW left \in SUBSET Tx, NEW gone
    PROVE  /\ relabelled(left, gone) \in [left -> Tx]
           /\ ungrouped(left, gone) = {relabelled(left, gone)[t] : t \in left}
           /\ \A t \in left : sameButTransfer(t, relabelled(left, gone)[t], gone)
<1> DEFINE h(t) == [t EXCEPT !.group = 0, !.kind = natural(t.op)]
           g == [t \in left |-> IF t.group \in gone THEN h(t) ELSE t]
<1>1. ASSUME NEW t \in left
      PROVE  /\ h(t) \in Tx /\ h(t).key = t.key /\ h(t).seq = t.seq /\ h(t).from = t.from
             /\ h(t).hand = t.hand /\ h(t).group = 0 /\ h(t).kind = natural(t.op)
             /\ h(t).op = t.op
    BY DEF Tx, natural
<1>2. ungrouped(left, gone) = {g[t] : t \in left} /\ relabelled(left, gone) = g
    BY DEF ungrouped, relabelled
<1> HIDE DEF h
<1>3. /\ g \in [left -> Tx]
      /\ \A t \in left : sameButTransfer(t, g[t], gone)
    BY <1>1 DEF sameButTransfer
<1> HIDE DEF g
<1> QED BY <1>2, <1>3

\* An import is undone: its rows go, and the transfers that lost a leg.
LEMMA UndoKeeps ==
    ASSUME RowsIInv, NEW i \in Import, undoImport(i)
    PROVE  RowsIInv'
<1> USE DEF RowsIInv
<1> DEFINE left == {t \in txs : t.from # i}
           gone == {g \in {t.group : t \in txs \ left} \ {0} : Cardinality(legs(left, g)) < 2}
<1>1. /\ txs' = ungrouped(left, gone)
      /\ imports' = [imports EXCEPT ![i].st = "cancelled"]
      /\ thinned' = thinned \union {t.key : t \in {u \in txs : u.from = i}}
      /\ UNCHANGED <<groups, brought>>
    BY DEF undoImport, undoneRows
<1>2. /\ left \in SUBSET txs /\ left \in SUBSET Tx
      /\ \A t \in txs \ left : t.from = i
    BY DEF RowsTyped, Tx
<1>3. \A t \in left : t.from # i
    OBVIOUS
<1> HIDE DEF left, gone
<1> DEFINE g == relabelled(left, gone)
<1>4. /\ g \in [left -> Tx]
      /\ txs' = {g[t] : t \in left}
      /\ \A t \in left : /\ g[t].key = t.key /\ g[t].seq = t.seq
                        /\ g[t].from = t.from /\ g[t].hand = t.hand
  <2>1. /\ g \in [left -> Tx] /\ ungrouped(left, gone) = {g[t] : t \in left}
        /\ \A t \in left : sameButTransfer(t, g[t], gone)
      BY <1>2, Ungrouping
  <2> HIDE DEF g
  <2> QED BY <1>1, <2>1 DEF sameButTransfer
<1> HIDE DEF g
<1>5. imports' \in [Import -> [st : Statuses, file : File \union {<<>>}, covers : SUBSET Period]]
    BY <1>1 DEF RowsTyped, Statuses
<1>6. RowsTyped'
    BY <1>1, <1>4, <1>5 DEF RowsTyped
<1>7. validated' = validated \ {i}
    BY <1>1 DEF validated, RowsTyped
<1>8. \A t \in txs \ left : t.key \in thinned'
    BY <1>1, <1>2
<1>9. /\ validated' \subseteq validated /\ thinned \subseteq thinned' /\ brought' = brought
      /\ \A t \in left : t.from \in validated => t.from \in validated'
    BY <1>1, <1>3, <1>7
<1> QED BY <1>2, <1>4, <1>6, <1>8, <1>9, RelabelKeeps

\* A transfer is taken back.
LEMMA UnmergeKeeps == RowsIInv /\ (\E n \in Transfer : unmergeTransfer(n)) => RowsIInv'
<1> DEFINE g(n) == relabelled(txs, {n})
<1>1. ASSUME txs \in SUBSET Tx, NEW n
      PROVE  /\ ungrouped(txs, {n}) = {g(n)[t] : t \in txs}
             /\ g(n) \in [txs -> Tx]
             /\ \A t \in txs : /\ g(n)[t].key = t.key /\ g(n)[t].seq = t.seq
                               /\ g(n)[t].from = t.from /\ g(n)[t].hand = t.hand
  <2>1. ungrouped(txs, {n}) = {g(n)[t] : t \in txs}
      BY DEF ungrouped, relabelled
  <2>2. g(n) \in [txs -> Tx]
      BY <1>1, Ungrouping
  <2>3. ASSUME NEW t \in txs
        PROVE  /\ g(n)[t].key = t.key /\ g(n)[t].seq = t.seq
               /\ g(n)[t].from = t.from /\ g(n)[t].hand = t.hand
    <3>1. sameButTransfer(t, g(n)[t], {n})
        BY <1>1, Ungrouping
    <3> HIDE DEF g
    <3> QED BY <3>1 DEF sameButTransfer
  <2> QED BY <2>1, <2>2, <2>3
<1> HIDE DEF g
<1>2. SUFFICES ASSUME RowsIInv, NEW n \in Transfer, unmergeTransfer(n) PROVE RowsIInv'
    OBVIOUS
<1> USE DEF RowsIInv
<1>3. /\ txs' = ungrouped(txs, {n})
      /\ UNCHANGED <<groups, thinned, imports, brought>> /\ validated' = validated
    BY <1>2 DEF unmergeTransfer, keepHistory, validated
<1>4. txs \in SUBSET Tx
    BY <1>2 DEF RowsTyped
<1>5. /\ txs' = {g(n)[t] : t \in txs} /\ g(n) \in [txs -> Tx]
      /\ \A t \in txs : /\ g(n)[t].key = t.key /\ g(n)[t].seq = t.seq
                        /\ g(n)[t].from = t.from /\ g(n)[t].hand = t.hand
    BY <1>1, <1>3, <1>4
<1>6. RowsTyped'
    BY <1>2, <1>3, <1>5 DEF RowsTyped
<1> QED BY <1>2, <1>3, <1>5, <1>6, RelabelKeeps

\* A transfer is declared, or taken back; a row is written over, or deleted.
LEMMA RowsChangedKeep ==
    ASSUME RowsIInv,
           \/ \E s, t \in txs : mergeTransfer(s, t)
           \/ \E n \in Transfer : unmergeTransfer(n)
           \/ \E t \in txs : deleteTransaction(t)
           \/ \E t \in txs, a \in Account, o \in Operation : \E kind \in kinds(o) :
                  updateTransaction(t, a, o, kind)
    PROVE  RowsIInv'
<1> USE DEF RowsIInv
<1>1. /\ UNCHANGED <<imports, brought>> /\ validated' = validated
      /\ txs \in SUBSET Tx
    BY DEF mergeTransfer, unmergeTransfer, deleteTransaction, updateTransaction, keepHistory,
           validated, RowsTyped
<1>2. ASSUME NEW s \in txs, NEW t \in txs, mergeTransfer(s, t) PROVE RowsIInv'
  <2> DEFINE g == [u \in txs |-> IF u \in {s, t}
                                 THEN [u EXCEPT !.group = groups', !.kind = "virement"] ELSE u]
  <2>1. groups' \in Transfer /\ groups' \in 0..MaxTransfers
    <3>1. groups' = groups + 1 /\ groups < MaxTransfers
        BY <1>2 DEF mergeTransfer
    <3>2. MaxTransfers \in Nat /\ groups \in Nat
        BY StatementsAssumption DEF RowsTyped
    <3> QED BY <3>1, <3>2 DEF Transfer
  <2>2. txs' = {g[u] : u \in txs}
      BY <1>2 DEF mergeTransfer
  <2>3. /\ g \in [txs -> Tx]
        /\ \A u \in txs : /\ g[u].key = u.key /\ g[u].seq = u.seq /\ g[u].from = u.from
                          /\ g[u].hand = u.hand
    <3>1. ASSUME NEW u \in Tx
          PROVE  LET v == [u EXCEPT !.group = groups', !.kind = "virement"]
                 IN  /\ v \in Tx /\ v.key = u.key /\ v.seq = u.seq /\ v.from = u.from
                     /\ v.hand = u.hand
        BY <2>1 DEF Tx
    <3> QED BY <1>1, <3>1
  <2>4. thinned' = thinned
      BY <1>2 DEF mergeTransfer, keepHistory
  <2> HIDE DEF g
  <2>5. RowsTyped'
      BY <1>1, <2>1, <2>2, <2>3 DEF RowsTyped
  <2> QED BY <1>1, <2>2, <2>3, <2>4, <2>5, RelabelKeeps
<1>3. ASSUME NEW n \in Transfer, unmergeTransfer(n) PROVE RowsIInv'
    BY <1>3, UnmergeKeeps
<1>4. ASSUME NEW t \in txs, deleteTransaction(t) PROVE RowsIInv'
  <2> DEFINE left == txs \ {t}
             g == [u \in left |-> u]
  <2>1. /\ txs' = left /\ UNCHANGED groups
        /\ thinned \subseteq thinned'
        /\ ~t.hand => t.key \in thinned'
      BY <1>4 DEF deleteTransaction
  <2>2. /\ g \in [left -> Tx] /\ txs' = {g[u] : u \in left}
        /\ \A u \in left : g[u] = u
        /\ \A u \in txs \ left : u = t
      BY <1>1, <2>1
  <2>3. RowsTyped'
      BY <1>1, <2>1 DEF RowsTyped
  <2>4. left \in SUBSET txs
      OBVIOUS
  <2>5. \A u \in left : /\ g[u].key = u.key /\ g[u].seq = u.seq /\ g[u].from = u.from
                        /\ g[u].hand = u.hand
      BY <2>2
  <2>6. \A u \in txs \ left : ~u.hand => u.key \in thinned'
      BY <2>1, <2>2
  <2>7. /\ brought' = brought /\ validated' \subseteq validated
        /\ \A u \in left : u.from \in validated => u.from \in validated'
      BY <1>1
  <2>8. txs' = {g[u] : u \in left} /\ g \in [left -> Tx] /\ thinned \subseteq thinned'
      BY <2>1, <2>2
  <2> HIDE DEF g, left
  <2> QED BY <2>3, <2>4, <2>5, <2>6, <2>7, <2>8, RelabelKeeps
<1>5. ASSUME NEW t \in txs, NEW a \in Account, NEW o \in Operation, NEW kind \in kinds(o),
             updateTransaction(t, a, o, kind)
      PROVE  RowsIInv'
  <2> DEFINE over(u) == [u EXCEPT !.account = a, !.op = o, !.kind = kind]
             g == [u \in txs |-> IF u = t THEN over(u) ELSE u]
  <2>1. txs' = (txs \ {t}) \union {over(t)} /\ UNCHANGED <<groups, thinned>>
      BY <1>5 DEF updateTransaction
  <2>2. txs' = {g[u] : u \in txs}
      BY <2>1
  <2>3. /\ g \in [txs -> Tx]
        /\ \A u \in txs : /\ g[u].key = u.key /\ g[u].seq = u.seq /\ g[u].from = u.from
                          /\ g[u].hand = u.hand
    <3>1. ASSUME NEW u \in Tx
          PROVE  /\ over(u) \in Tx /\ over(u).key = u.key /\ over(u).seq = u.seq
                 /\ over(u).from = u.from /\ over(u).hand = u.hand
        BY DEF Tx, kinds, natural
    <3> HIDE DEF over
    <3> QED BY <1>1, <3>1
  <2> HIDE DEF g, over
  <2>4. RowsTyped'
      BY <1>1, <2>1, <2>2, <2>3 DEF RowsTyped
  <2>5. thinned' = thinned
      BY <2>1
  <2> QED BY <1>1, <2>2, <2>3, <2>4, <2>5, RelabelKeeps
<1> QED BY <1>2, <1>3, <1>4, <1>5

\* A row is typed, under a key of its own.
LEMMA TypingKeeps ==
    ASSUME RowsIInv, NEW k \in Fingerprint, NEW kind \in kinds(k[2]), createTransaction(k, kind)
    PROVE  RowsIInv'
<1> USE DEF RowsIInv
<1> DEFINE new == [key |-> k, account |-> k[1], op |-> k[2], hand |-> TRUE, seq |-> 0,
                   from |-> 0, group |-> 0, kind |-> kind]
<1>1. /\ txs' = txs \union {new}
      /\ UNCHANGED <<imports, groups, brought, thinned>>
    BY DEF createTransaction
<1>2. new \in Tx /\ new.hand
    BY DEF Tx, Fingerprint, kinds, natural
<1> HIDE DEF new
<1>3. \A l : existingByKey(l)' = existingByKey(l) /\ Ranks(l)' = Ranks(l)
    BY <1>1, <1>2 DEF existingByKey, Ranks
<1>4. validated' = validated /\ \A l, n : upTo(l, n)' = upTo(l, n)
    BY <1>1, <1>3 DEF validated, upTo
<1>5. RowsTyped'
    BY <1>1, <1>2 DEF RowsTyped
<1>6. UniqueFingerprint' /\ RanksPaid'
    BY <1>1, <1>2, <1>4 DEF UniqueFingerprint, RanksPaid
<1>7. RanksBounded' /\ RanksWhole'
    BY <1>1, <1>3, <1>4 DEF RanksBounded, RanksWhole
<1> QED BY <1>5, <1>6, <1>7

\* Drafts come and go without a row.
LEMMA DraftsKeep ==
    ASSUME RowsIInv,
           \/ \E f \in File : upload(f)
           \/ \E i \in Import : cancelDraft(i) \/ \E l \in Label, a \in Account : addAlias(i, l, a)
           \/ UNCHANGED statementVars
    PROVE  RowsIInv'
<1> USE DEF RowsIInv
<1>1. UNCHANGED <<txs, groups, brought, thinned>>
    BY DEF upload, cancelDraft, addAlias, keepHistory, statementVars
<1> DEFINE Slot == [st : Statuses, file : File \union {<<>>}, covers : SUBSET Period]
           redrafted == /\ imports' \in [Import -> Slot]
                        /\ \A i \in Import : imports'[i].st = "committed"
                                              <=> imports[i].st = "committed"
<1>2. redrafted
  <2>1. ASSUME NEW x \in Slot, NEW st \in Statuses, NEW f \in File \union {<<>>}
        PROVE  [x EXCEPT !.st = st, !.file = f] \in Slot
               /\ [x EXCEPT !.st = st, !.file = f].st = st
      OBVIOUS
  <2>2. "cancelled" \in Statuses /\ "pending" \in Statuses /\ imports \in [Import -> Slot]
      BY DEF Statuses, RowsTyped
  <2>3. ASSUME NEW f \in File, upload(f) PROVE redrafted
    <3>1. PICK i \in Import, stale \in SUBSET {j \in Import : imports[j].st = "pending"} :
              /\ imports[i].st = "none"
              /\ imports' = [j \in Import |->
                    IF j \in stale THEN [imports[j] EXCEPT !.st = "cancelled", !.file = <<>>]
                    ELSE IF j = i THEN [imports[j] EXCEPT !.st = "pending", !.file = f]
                    ELSE imports[j]]
        BY <2>3 DEF upload
    <3>2. ASSUME NEW j \in Import
          PROVE  /\ imports'[j] \in Slot
                 /\ imports'[j].st = "committed" <=> imports[j].st = "committed"
      <4> HIDE DEF Slot
      <4>1. CASE j \in stale
        <5>1. /\ imports'[j] = [imports[j] EXCEPT !.st = "cancelled", !.file = <<>>]
              /\ imports[j].st = "pending"
            BY <3>1, <4>1
        <5>2. imports[j] \in Slot /\ "cancelled" \in Statuses /\ <<>> \in File \union {<<>>}
            BY <2>2
        <5>3. /\ [imports[j] EXCEPT !.st = "cancelled", !.file = <<>>] \in Slot
              /\ [imports[j] EXCEPT !.st = "cancelled", !.file = <<>>].st = "cancelled"
            BY <5>2, <2>1
        <5> QED BY <5>1, <5>3
      <4>2. CASE j \notin stale /\ j = i
        <5>1. /\ imports'[j] = [imports[j] EXCEPT !.st = "pending", !.file = f]
              /\ imports[j].st = "none"
            BY <3>1, <4>2
        <5>2. imports[j] \in Slot /\ "pending" \in Statuses /\ f \in File \union {<<>>}
            BY <2>2
        <5>3. /\ [imports[j] EXCEPT !.st = "pending", !.file = f] \in Slot
              /\ [imports[j] EXCEPT !.st = "pending", !.file = f].st = "pending"
            BY <5>2, <2>1
        <5> QED BY <5>1, <5>3
      <4>3. CASE j \notin stale /\ j # i
          BY <3>1, <4>3, <2>2
      <4> QED BY <4>1, <4>2, <4>3
    <3>3. DOMAIN imports' = Import /\ imports' = [j \in DOMAIN imports' |-> imports'[j]]
        BY <3>1
    <3> HIDE DEF Slot
    <3> QED BY <3>2, <3>3
  <2>4. ASSUME NEW i \in Import, cancelDraft(i) PROVE redrafted
    <3>1. /\ imports[i].st = "pending"
          /\ imports' = [imports EXCEPT ![i].st = "cancelled", ![i].file = <<>>]
        BY <2>4 DEF cancelDraft
    <3>2. imports' = [imports EXCEPT ![i] = [imports[i] EXCEPT !.st = "cancelled", !.file = <<>>]]
        BY <3>1, <2>2
    <3> HIDE DEF Slot
    <3>3. imports[i] \in Slot /\ "cancelled" \in Statuses /\ <<>> \in File \union {<<>>}
        BY <2>2
    <3>4. /\ [imports[i] EXCEPT !.st = "cancelled", !.file = <<>>] \in Slot
          /\ [imports[i] EXCEPT !.st = "cancelled", !.file = <<>>].st = "cancelled"
        BY <3>3, <2>1
    <3> QED BY <3>1, <3>2, <3>4, <2>2
  <2>5. CASE imports' = imports
      BY <2>2, <2>5
  <2>6. \/ \E f \in File : upload(f)
        \/ \E i \in Import : cancelDraft(i)
        \/ imports' = imports
      BY DEF addAlias, statementVars
  <2> QED BY <2>3, <2>4, <2>5, <2>6
<1>3. validated' = validated
    BY <1>2 DEF validated
<1>4. \A k, n : Ranks(k)' = Ranks(k) /\ upTo(k, n)' = upTo(k, n)
    BY <1>1 DEF Ranks, upTo, existingByKey
<1>5. RowsTyped' /\ UniqueFingerprint'
    BY <1>1, <1>2 DEF RowsTyped, UniqueFingerprint
<1>6. RanksBounded' /\ RanksPaid' /\ RanksWhole'
    BY <1>1, <1>3, <1>4 DEF RanksBounded, RanksPaid, RanksWhole
<1> QED BY <1>5, <1>6

\* Every step keeps the invariant of the rows.
LEMMA NextRows == RowsIInv /\ [StatementsNext]_statementVars => RowsIInv'
<1> SUFFICES ASSUME RowsIInv, [StatementsNext]_statementVars PROVE RowsIInv'
    OBVIOUS
<1>1. CASE \/ \E f \in File : upload(f)
           \/ \E i \in Import : cancelDraft(i) \/ \E l \in Label, a \in Account : addAlias(i, l, a)
           \/ UNCHANGED statementVars
    BY <1>1, DraftsKeep
<1>2. ASSUME NEW i \in Import, commitImport(i) PROVE RowsIInv'
    BY <1>2, CommitKeeps
<1>3. ASSUME NEW i \in Import, undoImport(i) PROVE RowsIInv'
    BY <1>3, UndoKeeps
<1>4. CASE \/ \E s, t \in txs : mergeTransfer(s, t)
           \/ \E g \in Transfer : unmergeTransfer(g)
           \/ \E t \in txs : deleteTransaction(t)
           \/ \E t \in txs, a \in Account, o \in Operation : \E kind \in kinds(o) :
                  updateTransaction(t, a, o, kind)
    BY <1>4, RowsChangedKeep
<1>5. ASSUME NEW k \in Fingerprint, NEW kind \in kinds(k[2]), createTransaction(k, kind)
      PROVE  RowsIInv'
    BY <1>5, TypingKeeps
<1> QED BY <1>1, <1>2, <1>3, <1>4, <1>5 DEF StatementsNext

\* In every reachable state a rank names one row, the import a row comes from pays for
\* the ranks up to its own, and what lost no row is whole.
THEOREM RowsAreSound == StatementsSpec => []RowsIInv
BY InitRows, NextRows, PTL DEF StatementsSpec

\* UniqueFingerprint holds in every reachable state: no validation of an import
\* (finances/import-repo.ts) meets the unique index of the rows.
THEOREM FingerprintsAreUnique == StatementsSpec => []UniqueFingerprint
<1>1. RowsIInv => UniqueFingerprint
    BY DEF RowsIInv
<1> QED BY <1>1, RowsAreSound, PTL

\* The row of the highest rank belongs to an import that shows them all.
LEMMA DeltaHolds == RowsIInv => OnlyTheDelta
<1> SUFFICES ASSUME RowsIInv, NEW k \in Fingerprint
             PROVE  LET held == Cardinality(existingByKey(k))
                    IN  held <= most(k) /\ (k \notin thinned => held = most(k))
    BY DEF OnlyTheDelta
<1> USE DEF RowsIInv
<1> DEFINE held == Cardinality(Ranks(k))
           shows == {0} \union {brought[i][k] : i \in validated}
<1>1. /\ Cardinality(existingByKey(k)) = held /\ held \in Nat
      /\ Ranks(k) \in SUBSET Nat /\ IsFiniteSet(Ranks(k))
    BY RanksCount
<1>2. \A i \in validated : i \in Import /\ brought[i][k] \in Nat
    BY DEF validated, RowsTyped
<1>3. most(k) \in shows /\ \A n \in shows : n <= most(k)
  <2>1. shows \in SUBSET Nat /\ shows # {}
      BY <1>2
  <2>2. PICK m \in Nat : \A i \in 1..MaxImports : brought[i][k] <= m
    <3> DEFINE b == [i \in 1..MaxImports |-> brought[i][k]]
    <3>1. b \in [1..MaxImports -> Nat] /\ MaxImports \in Nat
        BY StatementsAssumption DEF RowsTyped, Import
    <3>2. \A i \in 1..MaxImports : b[i] = brought[i][k]
        OBVIOUS
    <3> HIDE DEF b
    <3>3. \E m \in Nat : \A i \in 1..MaxImports : b[i] <= m
        BY <3>1, BoundOf
    <3> QED BY <3>2, <3>3
  <2>3. \A n \in shows : n <= m
      BY <1>2, <2>2 DEF Import
  <2>4. most(k) = Max(shows)
      BY DEF most
  <2> HIDE DEF shows
  <2> QED BY <2>1, <2>3, <2>4, MaxIs
<1>4. most(k) \in Nat
    BY <1>2, <1>3
<1>5. held <= most(k)
  <2>1. CASE Ranks(k) = {}
      BY <2>1, <1>4, FS_EmptySet
  <2>2. CASE Ranks(k) # {}
    <3>1. /\ Max(Ranks(k)) \in Ranks(k)
          /\ \A r \in Ranks(k) : r <= Max(Ranks(k))
        BY <1>1, <2>2, MaxIs DEF RanksBounded
    <3>2. PICK t \in txs : ~t.hand /\ t.key = k /\ t.seq = Max(Ranks(k))
        BY <3>1 DEF Ranks, existingByKey
    <3>3. upTo(k, t.seq) = Ranks(k)
        BY <3>1, <3>2 DEF upTo
    <3>4. t.from \in validated /\ held <= brought[t.from][k]
        BY <3>2, <3>3 DEF RanksPaid
    <3>5. brought[t.from][k] <= most(k)
        BY <3>4, <1>3
    <3> QED BY <3>4, <3>5, <1>1, <1>2, <1>4
  <2> QED BY <2>1, <2>2
<1>6. k \notin thinned => most(k) <= held
  <2>1. k \notin thinned => \A i \in validated : brought[i][k] <= held
      BY DEF RanksWhole
  <2> QED BY <2>1, <1>1, <1>3
<1> QED BY <1>1, <1>4, <1>5, <1>6

\* OnlyTheDelta holds in every reachable state: exports that overlap, in any order,
\* never leave more rows of an operation than the richest import still validated.
THEOREM ImportsBringTheDelta == StatementsSpec => []OnlyTheDelta
BY DeltaHolds, RowsAreSound, PTL

-----------------------------------------------------------------------------
(***************************************************************************)
(* The two legs of a transfer.                                             *)
(***************************************************************************)
\* Transfer n has no leg in ts, or two that cancel each other
coupled(ts, n) ==
    \/ \A u \in ts : u.group # n
    \/ \E s, t \in ts : /\ s.group = n /\ t.group = n
                        /\ \A u \in ts : u.group = n => u = s \/ u = t
                        /\ Amount[s.op] = -Amount[t.op]
                        /\ s.kind = "virement" /\ t.kind = "virement"

\* A row counts as its amount says, or as a transfer it is in or was typed as
kindRight(t) ==
    /\ t.kind \in kinds(t.op)
    /\ t.group = 0 /\ t.key \notin marked => t.kind = natural(t.op)

\* The inductive invariant: the number of the next transfer is on no row
PairsIInv ==
    /\ \A t \in txs : t.group <= groups
    /\ \A n \in Transfer \ torn : coupled(txs, n)
    /\ \A t \in txs : kindRight(t)

\* Two legs are two rows: no operation has the amount zero.
LEMMA PairsArePaired == RowsTyped /\ PairsIInv => TransfersPaired
<1> SUFFICES ASSUME RowsTyped, PairsIInv PROVE TransfersPaired
    OBVIOUS
<1>1. ASSUME NEW n \in Transfer \ torn
      PROVE  \/ legs(txs, n) = {}
             \/ \E s, t \in txs : /\ legs(txs, n) = {s, t} /\ s # t
                                  /\ Amount[s.op] = -Amount[t.op]
                                  /\ s.kind = "virement" /\ t.kind = "virement"
  <2>1. CASE \A u \in txs : u.group # n
      BY <2>1 DEF legs
  <2>2. ASSUME NEW s \in txs, NEW t \in txs, s.group = n, t.group = n,
               \A u \in txs : u.group = n => u = s \/ u = t,
               Amount[s.op] = -Amount[t.op]
        PROVE  legs(txs, n) = {s, t} /\ s # t
    <3>1. legs(txs, n) = {s, t}
        BY <2>2 DEF legs
    <3>2. s.op \in Operation
        BY DEF RowsTyped, Tx
    <3>3. Amount[s.op] \in Int \ {0}
        BY <3>2, StatementsAssumption
    <3>4. s # t
        BY <2>2, <3>3
    <3> QED BY <3>1, <3>4
  <2> QED BY <2>1, <2>2 DEF PairsIInv, coupled
<1>2. \A t \in txs : /\ t.kind \in kinds(t.op)
                     /\ t.group = 0 /\ t.key \notin marked => t.kind = natural(t.op)
    BY DEF PairsIInv, kindRight
<1> QED BY <1>1, <1>2 DEF TransfersPaired

\* Rows go and others change, but the amounts and kinds of transfer n do not.
LEMMA CoupledKeeps ==
    ASSUME NEW ts, NEW us, NEW g, NEW n, coupled(ts, n),
           \A t \in ts : t.group = n => /\ g[t] \in us /\ g[t].group = n /\ g[t].kind = t.kind
                                        /\ Amount[g[t].op] = Amount[t.op],
           \A v \in us : v.group = n => \E t \in ts : t.group = n /\ v = g[t]
    PROVE  coupled(us, n)
<1>1. CASE \A u \in ts : u.group # n
    BY <1>1 DEF coupled
<1>2. ASSUME NEW s \in ts, NEW t \in ts, s.group = n, t.group = n,
             \A u \in ts : u.group = n => u = s \/ u = t,
             Amount[s.op] = -Amount[t.op], s.kind = "virement", t.kind = "virement"
      PROVE  coupled(us, n)
  <2>1. /\ g[s] \in us /\ g[t] \in us /\ g[s].group = n /\ g[t].group = n
        /\ g[s].kind = "virement" /\ g[t].kind = "virement"
      BY <1>2
  <2>2. \A u \in us : u.group = n => u = g[s] \/ u = g[t]
      BY <1>2
  <2>3. Amount[g[s].op] = -Amount[g[t].op]
      BY <1>2
  <2> QED BY <2>1, <2>2, <2>3 DEF coupled
<1> QED BY <1>1, <1>2 DEF coupled

\* Rows in no transfer are added.
LEMMA AddedKeeps ==
    ASSUME NEW ts, NEW more, NEW n \in Transfer, coupled(ts, n), \A u \in more : u.group = 0
    PROVE  coupled(ts \union more, n)
<1>1. n # 0
    BY DEF Transfer
<1> QED BY <1>1 DEF coupled

\* A validation, a row that is typed.
LEMMA AddingPairs ==
    ASSUME RowsTyped, PairsIInv,
           \/ \E i \in Import : commitImport(i)
           \/ \E k \in Fingerprint : \E kind \in kinds(k[2]) : createTransaction(k, kind)
    PROVE  PairsIInv'
<1>1. PICK more : /\ txs' = txs \union more
                  /\ marked \subseteq marked' /\ UNCHANGED <<groups, torn>>
                  /\ \A u \in more : /\ u.group = 0 /\ u.kind \in kinds(u.op)
                                     /\ u.kind = natural(u.op) \/ u.key \in marked'
  <2> DEFINE right(u) == /\ u.group = 0 /\ u.kind \in kinds(u.op)
                         /\ u.kind = natural(u.op) \/ u.key \in marked'
  <2>1. ASSUME NEW i \in Import, commitImport(i)
        PROVE  \E more : /\ txs' = txs \union more /\ \A u \in more : right(u)
                         /\ marked \subseteq marked' /\ UNCHANGED <<groups, torn>>
    <3> DEFINE new(k, n) ==
                   [key |-> k, account |-> k[1], op |-> k[2], hand |-> FALSE,
                    seq |-> firstSeq(k) + n, from |-> i, group |-> 0, kind |-> natural(k[2])]
    <3>1. \A k, n : new(k, n).group = 0 /\ new(k, n).kind = natural(new(k, n).op)
        OBVIOUS
    <3>2. \A u \in dedupeAgainst(imports[i].file, i) : \E k, n : u = new(k, n)
        BY DEF dedupeAgainst
    <3> HIDE DEF new
    <3>3. \A u \in dedupeAgainst(imports[i].file, i) : right(u)
        BY <3>1, <3>2 DEF kinds
    <3>4. /\ txs' = txs \union dedupeAgainst(imports[i].file, i)
          /\ UNCHANGED <<groups, torn, marked>>
        BY <2>1 DEF commitImport
    <3> HIDE DEF right
    <3> QED BY <3>3, <3>4
  <2>2. ASSUME NEW k \in Fingerprint, NEW kind \in kinds(k[2]), createTransaction(k, kind)
        PROVE  \E more : /\ txs' = txs \union more /\ \A u \in more : right(u)
                         /\ marked \subseteq marked' /\ UNCHANGED <<groups, torn>>
    <3> DEFINE new == [key |-> k, account |-> k[1], op |-> k[2], hand |-> TRUE, seq |-> 0,
                       from |-> 0, group |-> 0, kind |-> kind]
               more == {new}
    <3>1. /\ txs' = txs \union more /\ UNCHANGED <<groups, torn>>
          /\ marked' = IF kind = "virement" THEN marked \union {k} ELSE marked
        BY <2>2 DEF createTransaction
    <3>2. new.group = 0 /\ new.kind = kind /\ new.op = k[2] /\ new.key = k
        OBVIOUS
    <3> HIDE DEF new
    <3>3. right(new)
        BY <3>1, <3>2 DEF kinds
    <3>4. \A u \in more : right(u)
      <4> HIDE DEF right
      <4> QED BY <3>3
    <3> HIDE DEF more, right
    <3> QED BY <3>1, <3>4
  <2> QED BY <2>1, <2>2
<1>2. \A n \in Transfer \ torn' : coupled(txs', n)
    BY <1>1, AddedKeeps DEF PairsIInv
<1>3. ASSUME NEW t \in txs' PROVE t.group <= groups' /\ kindRight(t)'
    BY <1>1 DEF PairsIInv, kindRight, RowsTyped
<1> QED BY <1>2, <1>3 DEF PairsIInv

\* Two rows become the legs of a transfer that no row had.
LEMMA MergingPairs ==
    ASSUME RowsTyped, PairsIInv, NEW s \in txs, NEW t \in txs, mergeTransfer(s, t)
    PROVE  PairsIInv'
<1> DEFINE leg(u) == [u EXCEPT !.group = groups', !.kind = "virement"]
           g == [u \in txs |-> IF u \in {s, t} THEN leg(u) ELSE u]
<1>1. /\ groups' = groups + 1 /\ groups \in Nat /\ UNCHANGED <<torn, marked>>
      /\ s.group = 0 /\ t.group = 0 /\ Amount[s.op] = -Amount[t.op]
      /\ txs' = (txs \ {s, t}) \union {leg(u) : u \in {s, t}}
    BY DEF mergeTransfer, keepHistory, RowsTyped
<1>2. txs' = {g[u] : u \in txs}
    BY <1>1
<1>3. \A u \in txs : u \in Tx /\ u.group \in Nat /\ u.group <= groups
    BY DEF RowsTyped, PairsIInv, Tx, Transfer
<1>4. \A u \in Tx : leg(u).op = u.op /\ leg(u).group = groups' /\ leg(u).kind = "virement"
    BY DEF Tx
<1> HIDE DEF leg
<1>5. /\ \A u \in {s, t} : g[u].op = u.op /\ g[u].group = groups' /\ g[u].kind = "virement"
      /\ \A u \in txs \ {s, t} : g[u] = u
    BY <1>3, <1>4
<1> HIDE DEF g
<1>6. ASSUME NEW n \in Transfer \ torn' PROVE coupled(txs', n)
  <2>1. CASE n = groups'
    <3>1. /\ g[s] \in txs' /\ g[t] \in txs' /\ g[s].group = n /\ g[t].group = n
          /\ Amount[g[s].op] = -Amount[g[t].op]
          /\ g[s].kind = "virement" /\ g[t].kind = "virement"
        BY <1>1, <1>2, <1>5, <2>1
    <3>2. ASSUME NEW u \in txs, g[u].group = n PROVE u \in {s, t}
        BY <3>2, <1>1, <1>3, <1>5, <2>1
    <3>3. \A v \in txs' : v.group = n => v = g[s] \/ v = g[t]
        BY <1>2, <3>2
    <3> QED BY <3>1, <3>3 DEF coupled
  <2>2. CASE n # groups'
    <3>1. n # 0 /\ coupled(txs, n)
        BY <1>1 DEF PairsIInv, Transfer
    <3>2. \A u \in txs : /\ (g[u].group = n) <=> (u.group = n)
                         /\ u.group = n => g[u] = u
        BY <1>1, <1>5, <2>2, <3>1
    <3>3. ASSUME NEW u \in txs, u.group = n
          PROVE  /\ g[u] \in txs' /\ g[u].group = n /\ g[u].kind = u.kind
                 /\ Amount[g[u].op] = Amount[u.op]
      <4>1. g[u] \in txs'
          BY <1>2
      <4>2. g[u] = u
          BY <3>2, <3>3
      <4> QED BY <3>3, <4>1, <4>2
    <3>4. \A v \in txs' : v.group = n => \E u \in txs : u.group = n /\ v = g[u]
        BY <1>2, <3>2
    <3> QED BY <3>1, <3>3, <3>4, CoupledKeeps
  <2> QED BY <2>1, <2>2
<1>7. ASSUME NEW v \in txs' PROVE v.group <= groups' /\ kindRight(v)'
  <2>1. PICK u \in txs : v = g[u]
      BY <1>2
  <2>2. CASE u \in {s, t}
      BY <1>1, <1>5, <2>1, <2>2 DEF kindRight, kinds
  <2>3. CASE u \notin {s, t}
      BY <1>1, <1>3, <1>5, <2>1, <2>3 DEF PairsIInv, kindRight
  <2> QED BY <2>2, <2>3
<1> QED BY <1>6, <1>7 DEF PairsIInv

\* Rows are left out, and the transfers `gone` are two rows again: those that
\* lost a leg are among them, or their loss is known.
LEMMA UngroupingPairs ==
    ASSUME RowsTyped, PairsIInv, NEW left \in SUBSET txs, NEW gone,
           txs' = {relabelled(left, gone)[t] : t \in left}, UNCHANGED <<groups, marked>>,
           torn \subseteq torn',
           \A n \in Transfer \ torn' : n \notin gone => \A t \in txs \ left : t.group # n
    PROVE  PairsIInv'
<1> DEFINE g == relabelled(left, gone)
<1>1. left \in SUBSET Tx
    BY DEF RowsTyped
<1>2. ASSUME NEW t \in left
      PROVE  /\ g[t].key = t.key /\ g[t].op = t.op
             /\ g[t].group = IF t.group \in gone THEN 0 ELSE t.group
             /\ g[t].kind = IF t.group \in gone THEN natural(t.op) ELSE t.kind
  <2>1. sameButTransfer(t, g[t], gone)
      BY <1>1, Ungrouping
  <2> HIDE DEF g
  <2> QED BY <2>1 DEF sameButTransfer
<1> HIDE DEF g
<1>3. txs' = {g[t] : t \in left}
    BY DEF g
<1>4. ASSUME NEW n \in Transfer \ torn' PROVE coupled(txs', n)
  <2>1. n # 0 /\ coupled(txs, n)
      BY DEF Transfer, PairsIInv
  <2>2. CASE n \in gone
    <3>1. \A t \in left : g[t].group # n
        BY <1>2, <2>1, <2>2
    <3> QED BY <1>3, <3>1 DEF coupled
  <2>3. CASE n \notin gone
    <3>1. \A t \in left : /\ (g[t].group = n) <=> (t.group = n)
                          /\ t.group = n => g[t].kind = t.kind /\ g[t].op = t.op
        BY <1>2, <2>1, <2>3
    <3>2. \A t \in txs : t.group = n => t \in left
        BY <2>3
    <3>3. ASSUME NEW t \in txs, t.group = n
          PROVE  /\ g[t] \in txs' /\ g[t].group = n /\ g[t].kind = t.kind
                 /\ Amount[g[t].op] = Amount[t.op]
      <4>1. t \in left /\ g[t].kind = t.kind /\ g[t].op = t.op /\ g[t].group = n
          BY <3>1, <3>2, <3>3
      <4>2. g[t] \in txs'
          BY <1>3, <4>1
      <4> QED BY <4>1, <4>2
    <3>4. \A v \in txs' : v.group = n => \E t \in txs : t.group = n /\ v = g[t]
        BY <1>3, <3>1
    <3> QED BY <2>1, <3>3, <3>4, CoupledKeeps
  <2> QED BY <2>2, <2>3
<1>5. ASSUME NEW v \in txs' PROVE v.group <= groups' /\ kindRight(v)'
  <2>1. PICK t \in left : v = g[t]
      BY <1>3
  <2>2. t \in txs /\ t.group <= groups /\ kindRight(t) /\ groups \in Nat
      BY DEF PairsIInv, RowsTyped
  <2>3. CASE t.group \in gone
      BY <1>2, <2>1, <2>2, <2>3 DEF kindRight, kinds
  <2>4. CASE t.group \notin gone
      BY <1>2, <2>1, <2>2, <2>4 DEF kindRight
  <2> QED BY <2>3, <2>4
<1> QED BY <1>4, <1>5 DEF PairsIInv

\* With an import goes a leg, and with a leg its transfer.
LEMMA UndoingPairs ==
    ASSUME RowsTyped, PairsIInv, NEW i \in Import, undoImport(i)
    PROVE  PairsIInv'
<1> DEFINE left == {t \in txs : t.from # i}
           gone == {n \in {t.group : t \in txs \ left} \ {0} : Cardinality(legs(left, n)) < 2}
<1>1. txs' = ungrouped(left, gone) /\ UNCHANGED <<groups, torn, marked>>
    BY DEF undoImport, undoneRows
<1>2. left \in SUBSET txs /\ left \in SUBSET Tx
    BY DEF RowsTyped
<1>3. ASSUME NEW n \in Transfer \ torn', n \notin gone, NEW t \in txs \ left, t.group = n
      PROVE  FALSE
  <2>1. n # 0 /\ coupled(txs, n) /\ ~(Cardinality(legs(left, n)) < 2)
      BY <1>1, <1>3 DEF Transfer, PairsIInv
  <2> HIDE DEF left, gone
  <2>2. PICK x : legs(left, n) \subseteq {x}
      BY <1>2, <1>3, <2>1 DEF coupled, legs
  <2>3. legs(left, n) = {} \/ legs(left, n) = {x}
      BY <2>2
  <2>4. Cardinality(legs(left, n)) = 0 \/ Cardinality(legs(left, n)) = 1
      BY <2>3, FS_EmptySet, FS_Singleton
  <2> QED BY <2>1, <2>4
<1> HIDE DEF left, gone
<1>4. txs' = {relabelled(left, gone)[t] : t \in left}
    BY <1>1 DEF ungrouped, relabelled
<1> QED BY <1>1, <1>2, <1>3, <1>4, UngroupingPairs

\* A transfer is taken back: both its legs leave it.
LEMMA UnmergingPairs ==
    ASSUME RowsTyped, PairsIInv, NEW n \in Transfer, unmergeTransfer(n)
    PROVE  PairsIInv'
<1>1. ungrouped(txs, {n}) = {relabelled(txs, {n})[t] : t \in txs}
    BY DEF ungrouped, relabelled
<1>2. txs' = {relabelled(txs, {n})[t] : t \in txs} /\ UNCHANGED <<groups, torn, marked>>
    BY <1>1 DEF unmergeTransfer, keepHistory
<1> QED BY <1>2, UngroupingPairs

\* A row deleted by hand takes its leg with it, which is kept in mind.
LEMMA DeletingPairs ==
    ASSUME RowsTyped, PairsIInv, NEW t \in txs, deleteTransaction(t)
    PROVE  PairsIInv'
<1> DEFINE left == txs \ {t}
<1>1. /\ txs' = left /\ UNCHANGED <<groups, marked>>
      /\ torn' = IF t.group = 0 THEN torn ELSE torn \union {t.group}
    BY DEF deleteTransaction
<1>2. left = {relabelled(left, {})[u] : u \in left}
    BY DEF relabelled
<1>3. \A n \in Transfer \ torn' : \A u \in txs \ left : u.group # n
    BY <1>1 DEF Transfer
<1> HIDE DEF left
<1>4. left \in SUBSET txs
    BY DEF left
<1> QED BY <1>1, <1>2, <1>3, <1>4, UngroupingPairs

\* A row written over by hand keeps its transfer whole, or the transfer is noted.
LEMMA RewritingPairs ==
    ASSUME RowsTyped, PairsIInv, NEW t \in txs, NEW a \in Account, NEW o \in Operation,
           NEW kind \in kinds(o), updateTransaction(t, a, o, kind)
    PROVE  PairsIInv'
<1> DEFINE over(u) == [u EXCEPT !.account = a, !.op = o, !.kind = kind]
           g == [u \in txs |-> IF u = t THEN over(u) ELSE u]
<1>1. /\ txs' = {g[u] : u \in txs} /\ UNCHANGED groups
      /\ torn' = IF t.group # 0 /\ (Amount[o] # Amount[t.op] \/ kind # t.kind)
                 THEN torn \union {t.group} ELSE torn
      /\ marked' = IF t.group = 0 /\ kind = "virement" THEN marked \union {t.key} ELSE marked
    BY DEF updateTransaction
<1>2. \A u \in Tx : /\ over(u).key = u.key /\ over(u).group = u.group
                    /\ over(u).op = o /\ over(u).kind = kind
    BY DEF Tx
<1> HIDE DEF over
<1>3. /\ \A u \in txs : g[u].key = u.key /\ g[u].group = u.group
      /\ \A u \in txs \ {t} : g[u] = u
      /\ g[t].op = o /\ g[t].kind = kind
    BY <1>2 DEF RowsTyped
<1> HIDE DEF g
<1>4. ASSUME NEW n \in Transfer \ torn' PROVE coupled(txs', n)
  <2>1. coupled(txs, n) /\ n # 0
      BY <1>1 DEF PairsIInv, Transfer
  <2>2. t.group = n => Amount[o] = Amount[t.op] /\ kind = t.kind
      BY <1>1, <2>1
  <2>3. ASSUME NEW u \in txs, u.group = n
        PROVE  /\ g[u] \in txs' /\ g[u].group = n /\ g[u].kind = u.kind
               /\ Amount[g[u].op] = Amount[u.op]
    <3>1. CASE u = t
        BY <1>1, <1>3, <2>2, <2>3, <3>1
    <3>2. CASE u # t
        BY <1>1, <1>3, <2>3, <3>2
    <3> QED BY <3>1, <3>2
  <2>4. \A v \in txs' : v.group = n => \E u \in txs : u.group = n /\ v = g[u]
      BY <1>1, <1>3
  <2> QED BY <2>1, <2>3, <2>4, CoupledKeeps
<1>5. ASSUME NEW v \in txs' PROVE v.group <= groups' /\ kindRight(v)'
  <2>1. PICK u \in txs : v = g[u]
      BY <1>1
  <2>2. u.group <= groups /\ kindRight(u)
      BY DEF PairsIInv
  <2>3. CASE u = t
      BY <1>1, <1>3, <2>1, <2>2, <2>3 DEF kindRight, kinds
  <2>4. CASE u # t
      BY <1>1, <1>3, <2>1, <2>2, <2>4 DEF kindRight
  <2> QED BY <2>3, <2>4
<1> QED BY <1>4, <1>5 DEF PairsIInv

\* Every step keeps the invariant of the transfers.
LEMMA NextPairs == RowsTyped /\ PairsIInv /\ [StatementsNext]_statementVars => PairsIInv'
<1> SUFFICES ASSUME RowsTyped, PairsIInv, [StatementsNext]_statementVars PROVE PairsIInv'
    OBVIOUS
<1>1. CASE \/ \E f \in File : upload(f)
           \/ \E i \in Import : cancelDraft(i) \/ \E l \in Label, a \in Account : addAlias(i, l, a)
           \/ UNCHANGED statementVars
  <2>1. UNCHANGED <<txs, groups, torn, marked>>
      BY <1>1 DEF upload, cancelDraft, addAlias, keepHistory, statementVars
  <2> QED BY <2>1 DEF PairsIInv, coupled, kindRight
<1>2. CASE \/ \E i \in Import : commitImport(i)
           \/ \E k \in Fingerprint : \E kind \in kinds(k[2]) : createTransaction(k, kind)
    BY <1>2, AddingPairs
<1>3. ASSUME NEW i \in Import, undoImport(i) PROVE PairsIInv'
    BY <1>3, UndoingPairs
<1>4. ASSUME NEW s \in txs, NEW t \in txs, mergeTransfer(s, t) PROVE PairsIInv'
    BY <1>4, MergingPairs
<1>5. ASSUME NEW n \in Transfer, unmergeTransfer(n) PROVE PairsIInv'
    BY <1>5, UnmergingPairs
<1>6. ASSUME NEW t \in txs, deleteTransaction(t) PROVE PairsIInv'
    BY <1>6, DeletingPairs
<1>7. ASSUME NEW t \in txs, NEW a \in Account, NEW o \in Operation, NEW kind \in kinds(o),
             updateTransaction(t, a, o, kind)
      PROVE  PairsIInv'
    BY <1>7, RewritingPairs
<1> QED BY <1>1, <1>2, <1>3, <1>4, <1>5, <1>6, <1>7 DEF StatementsNext

\* TransfersPaired holds in every reachable state: undoing an import or taking a
\* transfer back (finances/import-repo.ts) leaves no half of one, and only a leg
\* deleted or rewritten by hand (finances/repo.ts) makes two that do not cancel.
THEOREM TransfersStayPaired == StatementsSpec => []TransfersPaired
<1>1. StatementsInit => PairsIInv
    BY DEF StatementsInit, PairsIInv, coupled
<1>2. RowsIInv => RowsTyped
    BY DEF RowsIInv
<1> QED BY <1>1, <1>2, NextPairs, PairsArePaired, RowsAreSound, PTL DEF StatementsSpec

-----------------------------------------------------------------------------
\* What RowsTyped leaves aside: the labels, the histories, the gestures counted.
LabelsTyped ==
    /\ aliases \in [Label -> Account \union {Unknown}]
    /\ thinned \subseteq Fingerprint /\ torn \subseteq Transfer
    /\ marked \subseteq Fingerprint /\ edits \in Nat

\* A label is attached to an account; a key is noted when one of its rows goes.
LEMMA NextLabels == RowsTyped /\ LabelsTyped /\ [StatementsNext]_statementVars => LabelsTyped'
<1> SUFFICES ASSUME RowsTyped, LabelsTyped, [StatementsNext]_statementVars PROVE LabelsTyped'
    OBVIOUS
<1>1. \A t \in txs : t.key \in Fingerprint /\ (t.group # 0 => t.group \in Transfer)
    BY DEF RowsTyped, Tx
<1>2. CASE \/ \E f \in File : upload(f)
           \/ \E i \in Import : commitImport(i) \/ cancelDraft(i)
           \/ \E s, t \in txs : mergeTransfer(s, t)
           \/ UNCHANGED statementVars
  <2>1. CASE UNCHANGED statementVars
      BY <2>1 DEF LabelsTyped, statementVars
  <2>2. ASSUME NEW i \in Import, commitImport(i) \/ cancelDraft(i) PROVE LabelsTyped'
    <3>1. UNCHANGED <<aliases, thinned, torn, marked, edits>>
        BY <2>2 DEF commitImport, cancelDraft, keepHistory
    <3> QED BY <3>1 DEF LabelsTyped
  <2>3. ASSUME NEW f \in File, upload(f) PROVE LabelsTyped'
    <3>1. PICK i \in Import, stale \in SUBSET {j \in Import : imports[j].st = "pending"} :
              UNCHANGED <<aliases, txs, groups, edits>> /\ keepHistory
        BY <2>3, Zenon DEF upload
    <3> QED BY <3>1 DEF LabelsTyped, keepHistory
  <2>4. ASSUME NEW s \in txs, NEW t \in txs, mergeTransfer(s, t) PROVE LabelsTyped'
    <3>1. UNCHANGED <<aliases, thinned, torn, marked, edits>>
        BY <2>4 DEF mergeTransfer, keepHistory
    <3> QED BY <3>1 DEF LabelsTyped
  <2> QED BY <1>2, <2>1, <2>2, <2>3, <2>4
<1>3. ASSUME NEW i \in Import, NEW l \in Label, NEW a \in Account, addAlias(i, l, a)
      PROVE  LabelsTyped'
  <2>1. /\ aliases' = [aliases EXCEPT ![l] = a] /\ edits' = edits + 1
        /\ UNCHANGED <<thinned, torn, marked>>
      BY <1>3 DEF addAlias, edited, keepHistory
  <2> QED BY <2>1 DEF LabelsTyped
<1>4. ASSUME NEW i \in Import, undoImport(i) PROVE LabelsTyped'
  <2>1. /\ thinned' = thinned \union {t.key : t \in {u \in txs : u.from = i}}
        /\ edits' = edits + 1 /\ UNCHANGED <<aliases, torn, marked>>
      BY <1>4 DEF undoImport, edited
  <2> QED BY <1>1, <2>1 DEF LabelsTyped
<1>5. ASSUME NEW g \in Transfer, unmergeTransfer(g) PROVE LabelsTyped'
  <2>1. edits' = edits + 1 /\ UNCHANGED <<aliases, thinned, torn, marked>>
      BY <1>5 DEF unmergeTransfer, edited, keepHistory
  <2> QED BY <2>1 DEF LabelsTyped
<1>6. ASSUME NEW k \in Fingerprint, NEW kind \in kinds(k[2]), createTransaction(k, kind)
      PROVE  LabelsTyped'
  <2>1. /\ marked' = marked \/ marked' = marked \union {k}
        /\ edits' = edits + 1 /\ UNCHANGED <<aliases, thinned, torn>>
      BY <1>6 DEF createTransaction, edited
  <2> QED BY <2>1 DEF LabelsTyped
<1>7. ASSUME NEW t \in txs, NEW a \in Account, NEW o \in Operation, NEW kind \in kinds(o),
             updateTransaction(t, a, o, kind)
      PROVE  LabelsTyped'
  <2>1. /\ marked' = marked \/ marked' = marked \union {t.key}
        /\ torn' = torn \/ (t.group # 0 /\ torn' = torn \union {t.group})
        /\ edits' = edits + 1 /\ UNCHANGED <<aliases, thinned>>
      BY <1>7 DEF updateTransaction, edited
  <2> QED BY <1>1, <2>1 DEF LabelsTyped
<1>8. ASSUME NEW t \in txs, deleteTransaction(t) PROVE LabelsTyped'
  <2>1. /\ thinned' = thinned \/ thinned' = thinned \union {t.key}
        /\ torn' = torn \/ (t.group # 0 /\ torn' = torn \union {t.group})
        /\ edits' = edits + 1 /\ UNCHANGED <<aliases, marked>>
      BY <1>8 DEF deleteTransaction, edited
  <2> QED BY <1>1, <2>1 DEF LabelsTyped
<1> QED BY <1>2, <1>3, <1>4, <1>5, <1>6, <1>7, <1>8 DEF StatementsNext

\* The rows, the imports with their windows, the labels and the histories are
\* well formed in every reachable state.
THEOREM StatementsTypeCorrect == StatementsSpec => []StatementsTypeOK
<1>1. StatementsInit => LabelsTyped
    BY DEF StatementsInit, LabelsTyped
<1>2. RowsIInv => RowsTyped
    BY DEF RowsIInv
<1>3. RowsTyped /\ LabelsTyped => StatementsTypeOK
    BY DEF RowsTyped, LabelsTyped, StatementsTypeOK
<1> QED BY <1>1, <1>2, <1>3, NextLabels, RowsAreSound, PTL DEF StatementsSpec
=============================================================================
