-------------------------- MODULE BatchImportProofs --------------------------
(***************************************************************************)
(* Proofs about BatchImport, for every set of importers, files and keys,   *)
(* every batch size and every interleaving of the imports.                 *)
(***************************************************************************)
EXTENDS BatchImport, FiniteSetTheorems, WellFoundedInduction, TLAPS

Row == [key : Keys \union {None}, val : Values]

LEMMA ConstantFacts ==
  /\ CsatKeys \subseteq Keys /\ IsFiniteSet(CsatKeys)
  /\ Files \subseteq Seq(Row)
  /\ BatchSize \in Nat /\ BatchSize > 0
  /\ None \notin Keys /\ None \notin Importers
  /\ \A k \in CsatKeys : DateOf[k] \in Dates
  /\ \A c \in CsatKeys, k \in Keys : SlotOf[k] = SlotOf[c] => k = c
<1>1. /\ CsatKeys \subseteq Keys /\ IsFiniteSet(CsatKeys)
      /\ DateOf \in [CsatKeys -> Dates]
      /\ \A c \in CsatKeys, k \in Keys : SlotOf[k] = SlotOf[c] => k = c
  BY BatchImportAssumption DEF BatchImportAssumption
<1>2. BatchSize \in Nat /\ BatchSize > 0 /\ None \notin Keys /\ None \notin Importers
  BY BatchImportAssumption DEF BatchImportAssumption
<1>3. Files \subseteq Seq(Row)
  BY BatchImportAssumption DEF BatchImportAssumption, Row
<1>4. QED
  BY <1>1, <1>2, <1>3

LEMMA LeastNatural ==
  ASSUME NEW T, T \subseteq Nat, T # {}
  PROVE  \E t \in T : \A u \in T : t <= u
<1> DEFINE Less == OpToRel(<, Nat)
<1>1. IsWellFoundedOn(Less, Nat)
  BY NatLessThanWellFounded
<1>2. PICK t \in T : \A u \in T : <<u, t>> \notin Less
  <2> HIDE DEF Less
  <2>1. QED
    BY <1>1, WFMin
<1>3. \A u \in T : ~(u < t)
  BY <1>2 DEF OpToRel
<1>4. QED
  BY <1>3

LEMMA FileFacts ==
  ASSUME TypeOK, NEW i \in Importers
  PROVE  /\ file[i] \in Seq(Row) /\ Len(file[i]) \in Nat
         /\ DOMAIN file[i] = 1..Len(file[i])
         /\ saved[i] \in Nat /\ saved[i] <= Len(file[i])
<1>1. file[i] \in Seq(Row)
  <2>1. file[i] \in Files \/ file[i] = <<>>
    BY DEF TypeOK
  <2>2. <<>> \in Seq(Row)
    OBVIOUS
  <2>3. QED
    BY <2>1, <2>2, ConstantFacts
<1>2. QED
  BY <1>1 DEF TypeOK

LEMMA DatesOfType == ASSUME NEW f, NEW n PROVE DatesOf(f, n) \subseteq Dates
BY ConstantFacts DEF DatesOf

LEMMA AggregateType ==
  ASSUME NEW d
  PROVE  Aggregate(d) \in Figures
<1>1. IsFiniteSet(Surveys(d)) /\ IsFiniteSet({k \in Surveys(d) : table[k] \in Satisfied})
  BY ConstantFacts, FS_Subset DEF Surveys
<1>2. QED
  BY <1>1, FS_CardinalityType DEF Aggregate, Figures

LEMMA BatchEndBounds ==
  ASSUME TypeOK, NEW i \in Importers, saved[i] < Len(file[i])
  PROVE  BatchEnd(i) \in Nat /\ saved[i] < BatchEnd(i) /\ BatchEnd(i) <= Len(file[i])
BY FileFacts, ConstantFacts DEF BatchEnd

LEMMA GreatestRow ==
  ASSUME NEW R, NEW b \in Nat, R \subseteq 1..b, R # {}
  PROVE  \E n \in R : \A m \in R : m <= n
<1> DEFINE T == {b - m : m \in R}
<1>0. \A m \in R : m \in Nat /\ m <= b /\ b - m \in Nat
  OBVIOUS
<1>1. T \subseteq Nat /\ T # {}
  BY <1>0
<1>2. PICK t \in T : \A u \in T : t <= u
  BY <1>1, LeastNatural
<1>3. PICK n \in R : t = b - n
  BY <1>2
<1>4. \A m \in R : m <= n
  <2>1. SUFFICES ASSUME NEW m \in R PROVE m <= n
    OBVIOUS
  <2>2. b - n <= b - m
    BY <1>2, <1>3
  <2>3. QED
    BY <1>0, <2>2
<1>5. QED
  BY <1>4

\* The row kept of a slot is one of its rows in the batch, and the last of them but
\* for CSAT.
LEMMA KeptInBatch ==
  ASSUME NEW f \in Seq(Row), NEW a \in Nat, NEW b \in Nat, b <= Len(f),
         NEW k \in Keys, RowsOf(f, a, b, SlotOf[k]) # {}
  PROVE  LET n == Kept(f, a, b, SlotOf[k]) IN
           /\ n \in RowsOf(f, a, b, SlotOf[k])
           /\ k \notin CsatKeys => \A m \in RowsOf(f, a, b, SlotOf[k]) : m <= n
<1> DEFINE R == RowsOf(f, a, b, SlotOf[k])
           Best(n) == n \in R /\ \A m \in R : IF f[n].key \in CsatKeys THEN m >= n ELSE m <= n
<1>1. R \subseteq 1..b /\ R \subseteq Nat
  BY DEF RowsOf
<1>2. ASSUME NEW n \in R PROVE f[n].key \in CsatKeys <=> k \in CsatKeys
  <2>1. n \in 1..Len(f) /\ f[n].key # None /\ SlotOf[f[n].key] = SlotOf[k]
    BY <1>2 DEF RowsOf
  <2>2. f[n] \in Row
    BY <2>1
  <2>3. f[n].key \in Keys
    BY <2>1, <2>2 DEF Row
  <2>4. QED
    BY <2>1, <2>3, ConstantFacts
<1>3. \E n : Best(n)
  <2>1. CASE k \in CsatKeys
    <3>1. PICK n \in R : \A m \in R : n <= m
      BY <1>1, LeastNatural
    <3>2. Best(n)
      BY <1>1, <1>2, <2>1, <3>1
    <3>3. QED
      BY <3>2
  <2>2. CASE k \notin CsatKeys
    <3>1. PICK n \in R : \A m \in R : m <= n
      BY <1>1, GreatestRow
    <3>2. Best(n)
      BY <1>2, <2>2, <3>1
    <3>3. QED
      BY <3>2
  <2>3. QED
    BY <2>1, <2>2
<1>4. Best(Kept(f, a, b, SlotOf[k]))
  BY <1>3 DEF Kept
<1>5. QED
  BY <1>2, <1>4

-----------------------------------------------------------------------------
(* Type correctness.                                                       *)

LEMMA InitType == Init => TypeOK
BY DEF Init, TypeOK, Figures, Nothing

LEMMA BeginType ==
  ASSUME TypeOK, NEW i \in Importers, NEW f \in Files, Begin(i, f)
  PROVE  TypeOK'
<1>1. /\ at' \in [Importers -> {"idle", "reading", "summing", "storing", "done", "failed"}]
      /\ file' \in [Importers -> Files \union {<<>>}]
      /\ saved' \in [Importers -> Nat]
      /\ writer' \in [Keys -> Importers \union {None}]
  BY DEF Begin, TypeOK
<1>2. ASSUME NEW j \in Importers PROVE saved'[j] <= Len(file'[j])
  <2>1. f \in Seq(Row)
    BY ConstantFacts
  <2>2. CASE j = i
    BY <2>1, <2>2 DEF Begin, TypeOK
  <2>3. CASE j # i
    BY <2>3 DEF Begin, TypeOK
  <2>4. QED
    BY <2>2, <2>3
<1>3. QED
  BY <1>1, <1>2 DEF Begin, TypeOK

LEMMA SaveType ==
  ASSUME TypeOK, NEW i \in Importers, SaveBatch(i)
  PROVE  TypeOK'
<1>1. BatchEnd(i) \in Nat /\ BatchEnd(i) <= Len(file[i])
  BY BatchEndBounds DEF SaveBatch
<1>2. saved' \in [Importers -> Nat] /\ \A j \in Importers : saved'[j] <= Len(file'[j])
  BY <1>1 DEF SaveBatch, TypeOK
<1>3. writer' \in [Keys -> Importers \union {None}]
  BY DEF SaveBatch, TypeOK
<1>4. table' \in [Keys -> Values \union {None}]
  <2>1. ASSUME NEW k \in Keys, Stores(file[i], saved[i], BatchEnd(i), k)
        PROVE  file[i][Kept(file[i], saved[i], BatchEnd(i), SlotOf[k])].val \in Values
    <3> DEFINE f == file[i]
               R == RowsOf(f, saved[i], BatchEnd(i), SlotOf[k])
    <3>0. f \in Seq(Row) /\ saved[i] \in Nat
      BY FileFacts
    <3>1. Kept(f, saved[i], BatchEnd(i), SlotOf[k]) \in R
      BY <1>1, <2>1, <3>0, KeptInBatch DEF Stores
    <3>2. R \subseteq DOMAIN f
      BY <1>1, FileFacts DEF RowsOf
    <3>3. \A n \in DOMAIN f : f[n] \in Row
      BY FileFacts
    <3>4. QED
      BY <3>1, <3>2, <3>3 DEF Row
  <2>2. QED
    BY <2>1 DEF SaveBatch, TypeOK
<1>5. QED
  BY <1>2, <1>3, <1>4 DEF SaveBatch, TypeOK

LEMMA EndType ==
  ASSUME TypeOK, NEW i \in Importers,
         EndOfFile(i) \/ ReadAggregates(i) \/ StoreStats(i) \/ ImportFails(i)
  PROVE  TypeOK'
<1>0. Nothing \in [Dates -> Figures]
  BY DEF Nothing, Figures
<1>1. CASE EndOfFile(i)
  BY <1>1 DEF EndOfFile, TypeOK
<1>2. CASE ReadAggregates(i)
  <2>1. [d \in Dates |-> Aggregate(d)] \in [Dates -> Figures]
    BY AggregateType
  <2>2. figures' \in [Importers -> [Dates -> Figures]]
    BY <1>2, <2>1 DEF ReadAggregates, TypeOK
  <2>3. stale' \subseteq Dates
    BY <1>2, DatesOfType DEF ReadAggregates, TypeOK
  <2>4. at' \in [Importers -> {"idle", "reading", "summing", "storing", "done", "failed"}]
    BY <1>2 DEF ReadAggregates, TypeOK
  <2>5. QED
    BY <1>2, <2>2, <2>3, <2>4 DEF ReadAggregates, TypeOK
<1>3. CASE StoreStats(i)
  <2>1. stats' \in [Dates -> Figures]
    BY <1>3 DEF StoreStats, TypeOK
  <2>2. figures' \in [Importers -> [Dates -> Figures]]
    BY <1>0, <1>3 DEF StoreStats, TypeOK
  <2>3. at' \in [Importers -> {"idle", "reading", "summing", "storing", "done", "failed"}]
    BY <1>3 DEF StoreStats, TypeOK
  <2>4. QED
    BY <1>3, <2>1, <2>2, <2>3 DEF StoreStats, TypeOK
<1>4. CASE ImportFails(i)
  <2>1. stale' \subseteq Dates
    BY <1>4, DatesOfType DEF ImportFails, TypeOK
  <2>2. figures' \in [Importers -> [Dates -> Figures]]
    BY <1>0, <1>4 DEF ImportFails, TypeOK
  <2>3. at' \in [Importers -> {"idle", "reading", "summing", "storing", "done", "failed"}]
    BY <1>4 DEF ImportFails, TypeOK
  <2>4. QED
    BY <1>4, <2>1, <2>2, <2>3 DEF ImportFails, TypeOK
<1>5. QED
  BY <1>1, <1>2, <1>3, <1>4

LEMMA StepType == TypeOK /\ [Next]_vars => TypeOK'
<1>1. TypeOK /\ UNCHANGED vars => TypeOK'
  BY DEF TypeOK, vars
<1>2. QED
  BY <1>1, BeginType, SaveType, EndType DEF Next

\* Every variable always has its type, and no import reads past the end of its file.
THEOREM TypeCorrect == Spec => []TypeOK
BY InitType, StepType, PTL DEF Spec

-----------------------------------------------------------------------------
(* The last row wins.                                                      *)

\* An import past the end of its file has saved all of it, and one that is not there
\* yet stands where a batch ends.
AllSaved ==
  \A i \in Importers :
    /\ at[i] \in {"summing", "storing", "done"} => saved[i] = Len(file[i])
    /\ saved[i] = Len(file[i]) \/ Cut(saved[i])

\* The strengthening: a key written by an import holds the last row of what the
\* import has saved so far.
WriterInv ==
  \A k \in Keys \ CsatKeys : \A i \in Importers :
    writer[k] = i =>
      \E n \in Nat : IsLastRow(file[i], saved[i], k, n) /\ table[k] = file[i][n].val

\* Every key an import has saved is in the table.
StoredInv ==
  \A i \in Importers : \A n \in 1..saved[i] :
    file[i][n].key \in Keys \ CsatKeys /\ ~Superseded(file[i], n)
      => table[file[i][n].key] # None

WInv == TypeOK /\ AllSaved /\ WriterInv /\ StoredInv

LEMMA InitWInv == Init => AllSaved /\ WriterInv /\ StoredInv
BY ConstantFacts DEF Init, AllSaved, WriterInv, StoredInv, Cut

\* Batches are cut BatchSize rows apart.
LEMMA NextCut ==
  ASSUME NEW a \in Nat, Cut(a)
  PROVE  /\ Cut(a + BatchSize)
         /\ \A c \in (a + 1)..(a + BatchSize - 1) : ~Cut(c)
<1>1. BatchSize \in Nat /\ BatchSize > 0
  BY ConstantFacts
<1>2. PICK q \in 0..a : a = q * BatchSize
  BY DEF Cut
<1>3. Cut(a + BatchSize)
  <2>1. (q + 1) * BatchSize = a + BatchSize
    BY <1>1, <1>2
  <2>2. q + 1 \in 0..(a + BatchSize)
    BY <1>1
  <2>3. QED
    BY <2>1, <2>2 DEF Cut
<1>4. ASSUME NEW c \in (a + 1)..(a + BatchSize - 1), Cut(c) PROVE FALSE
  <2>1. PICK r \in 0..c : c = r * BatchSize
    BY <1>4 DEF Cut
  <2>2. CASE r <= q
    <3>1. r * BatchSize <= q * BatchSize
      BY <1>1, <2>2
    <3>2. QED
      BY <1>1, <1>2, <2>1, <3>1
  <2>3. CASE r >= q + 1
    <3>1. r * BatchSize >= (q + 1) * BatchSize
      BY <1>1, <2>3
    <3>2. (q + 1) * BatchSize = a + BatchSize
      BY <1>1, <1>2
    <3>3. QED
      BY <1>1, <2>1, <3>1, <3>2
  <2>4. QED
    BY <2>2, <2>3
<1>5. QED
  BY <1>3, <1>4

LEMMA StepAllSaved == TypeOK /\ AllSaved /\ [Next]_vars => AllSaved'
<1> SUFFICES ASSUME TypeOK, AllSaved, [Next]_vars, NEW j \in Importers
             PROVE  /\ at'[j] \in {"summing", "storing", "done"} => saved'[j] = Len(file'[j])
                    /\ saved'[j] = Len(file'[j]) \/ Cut(saved'[j])
  BY DEF AllSaved, Cut
<1>0. /\ at[j] \in {"summing", "storing", "done"} => saved[j] = Len(file[j])
      /\ saved[j] = Len(file[j]) \/ Cut(saved[j])
  BY DEF AllSaved
<1>1. CASE UNCHANGED vars
  BY <1>0, <1>1 DEF vars
<1>2. ASSUME NEW i \in Importers, NEW f \in Files, Begin(i, f)
      PROVE  /\ at'[j] \in {"summing", "storing", "done"} => saved'[j] = Len(file'[j])
             /\ saved'[j] = Len(file'[j]) \/ Cut(saved'[j])
  <2>1. Cut(0)
    BY ConstantFacts DEF Cut
  <2>2. QED
    BY <1>0, <1>2, <2>1 DEF Begin, TypeOK
<1>3. ASSUME NEW i \in Importers, SaveBatch(i)
      PROVE  /\ at'[j] \in {"summing", "storing", "done"} => saved'[j] = Len(file'[j])
             /\ saved'[j] = Len(file'[j]) \/ Cut(saved'[j])
  <2>1. CASE j # i
    BY <1>0, <1>3, <2>1 DEF SaveBatch, TypeOK
  <2>2. CASE j = i
    <3>1. saved[i] \in Nat /\ saved[i] < Len(file[i]) /\ Len(file[i]) \in Nat
      BY <1>3, FileFacts DEF SaveBatch
    <3>2. Cut(saved[i] + BatchSize)
      BY <1>0, <2>2, <3>1, NextCut
    <3>3. saved'[i] = BatchEnd(i) /\ file' = file /\ at'[i] = "reading"
      BY <1>3 DEF SaveBatch, TypeOK
    <3>4. QED
      BY <2>2, <3>2, <3>3 DEF BatchEnd
  <2>3. QED
    BY <2>1, <2>2
<1>4. ASSUME NEW i \in Importers,
             EndOfFile(i) \/ ReadAggregates(i) \/ StoreStats(i) \/ ImportFails(i)
      PROVE  /\ at'[j] \in {"summing", "storing", "done"} => saved'[j] = Len(file'[j])
             /\ saved'[j] = Len(file'[j]) \/ Cut(saved'[j])
  <2>1. saved' = saved /\ file' = file
    BY <1>4 DEF EndOfFile, ReadAggregates, StoreStats, ImportFails
  <2>2. at'[j] \in {"summing", "storing", "done"} => saved[j] = Len(file[j])
    BY <1>0, <1>4 DEF EndOfFile, ReadAggregates, StoreStats, ImportFails, TypeOK
  <2>3. QED
    BY <1>0, <2>1, <2>2
<1>5. QED
  BY <1>1, <1>2, <1>3, <1>4 DEF Next

\* What a batch does to the rows of a key: a row with a later row of its slot and another
\* key in the batch is superseded, and the one that is kept is not.
LEMMA BatchRows ==
  ASSUME TypeOK, AllSaved, NEW i \in Importers, SaveBatch(i), NEW k \in Keys \ CsatKeys
  PROVE  LET f == file[i]
             a == saved[i]
             b == BatchEnd(i)
             n == Kept(f, a, b, SlotOf[k])
         IN /\ Stores(f, a, b, k) =>
                 /\ n \in (a + 1)..b /\ f[n].key = k /\ ~Superseded(f, n)
                 /\ \A m \in (n + 1)..b : f[m].key # k
            /\ ~Stores(f, a, b, k) =>
                 \A m \in (a + 1)..b : f[m].key = k => Superseded(f, m)
<1> DEFINE f == file[i]
           a == saved[i]
           b == BatchEnd(i)
           R == RowsOf(f, a, b, SlotOf[k])
           n == Kept(f, a, b, SlotOf[k])
<1>0. /\ f \in Seq(Row) /\ Len(f) \in Nat
      /\ a \in Nat /\ b \in Nat /\ a < b /\ b <= Len(f)
  BY BatchEndBounds, FileFacts DEF SaveBatch
<1>1. BatchSize \in Nat /\ BatchSize > 0 /\ None \notin Keys
  BY ConstantFacts
<1>2. Cut(a)
  BY <1>0 DEF AllSaved
<1>3. b <= a + BatchSize /\ (b = a + BatchSize \/ b = Len(f))
  BY <1>0, <1>1 DEF BatchEnd
<1>4. \A c \in (a + 1)..(b - 1) : ~Cut(c)
  BY <1>0, <1>1, <1>2, <1>3, NextCut
<1>5. b = Len(f) \/ Cut(b)
  BY <1>0, <1>2, <1>3, NextCut
<1>6. R # {} => n \in R /\ \A m \in R : m <= n
  BY <1>0, KeptInBatch
<1>7. R = {m \in (a + 1)..b : f[m].key # None /\ SlotOf[f[m].key] = SlotOf[k]}
  BY DEF RowsOf
<1>8. Stores(f, a, b, k) <=> R # {} /\ f[n].key = k
  BY DEF Stores
<1> HIDE DEF f, a, b, n, R
<1>9. ASSUME R # {}, f[n].key = k
      PROVE  /\ n \in (a + 1)..b /\ f[n].key = k /\ ~Superseded(f, n)
             /\ \A m \in (n + 1)..b : f[m].key # k
  <2>1. n \in (a + 1)..b
    BY <1>6, <1>7, <1>9
  <2>2. ASSUME NEW m \in (n + 1)..b, f[m].key # None, SlotOf[f[m].key] = SlotOf[k]
        PROVE  FALSE
    <3>1. m \in R
      BY <1>0, <1>7, <2>1, <2>2
    <3>2. QED
      BY <1>0, <1>6, <1>9, <2>1, <3>1
  <2>3. ASSUME Superseded(f, n) PROVE FALSE
    <3>1. PICK p \in (n + 1)..Len(f) :
            /\ f[p].key \notin {None, f[n].key} /\ SlotOf[f[p].key] = SlotOf[f[n].key]
            /\ \A c \in n..(p - 1) : ~Cut(c)
      BY <2>3 DEF Superseded
    <3>2. p <= b
      <4>1. CASE b = Len(f)
        BY <3>1, <4>1
      <4>2. CASE Cut(b)
        BY <1>0, <2>1, <3>1, <4>2
      <4>3. QED
        BY <1>5, <4>1, <4>2
    <3>3. QED
      BY <1>0, <1>9, <2>1, <2>2, <3>1, <3>2
  <2>4. QED
    BY <1>1, <1>9, <2>1, <2>2, <2>3
<1>10. ASSUME NEW m \in (a + 1)..b, f[m].key = k, ~(R # {} /\ f[n].key = k)
       PROVE  Superseded(f, m)
  <2>1. m \in R
    BY <1>1, <1>7, <1>10
  <2>2. n \in (a + 1)..b /\ m <= n /\ f[n].key # None /\ SlotOf[f[n].key] = SlotOf[k]
    BY <1>6, <1>7, <2>1
  <2>3. f[n].key # k
    BY <1>10, <2>1
  <2>4. m < n
    BY <1>0, <1>10, <2>2, <2>3
  <2>5. n \in (m + 1)..Len(f)
    BY <1>0, <2>2, <2>4
  <2>6. \A c \in m..(n - 1) : ~Cut(c)
    BY <1>0, <1>4, <2>2
  <2>7. QED
    BY <1>10, <2>2, <2>3, <2>5, <2>6 DEF Superseded
<1>11. QED
  BY <1>8, <1>9, <1>10 DEF f, a, b, n

\* The batch of an import extends what it has saved of a key, or leaves it the last.
LEMMA SaveWriter ==
  ASSUME TypeOK, AllSaved, WriterInv, NEW i \in Importers, SaveBatch(i)
  PROVE  WriterInv'
<1> DEFINE f == file[i]
           a == saved[i]
           b == BatchEnd(i)
<1>0. /\ a \in Nat /\ b \in Nat /\ a < b /\ b <= Len(f)
      /\ saved' = [saved EXCEPT ![i] = b] /\ file' = file
      /\ saved \in [Importers -> Nat]
  BY BatchEndBounds, FileFacts DEF SaveBatch, TypeOK
<1>1. SUFFICES ASSUME NEW k \in Keys \ CsatKeys, NEW j \in Importers, writer'[k] = j
               PROVE  \E n \in Nat : IsLastRow(file'[j], saved'[j], k, n)
                                     /\ table'[k] = file'[j][n].val
  BY DEF WriterInv, IsLastRow, Superseded, Cut
<1> DEFINE n == Kept(f, a, b, SlotOf[k])
<1>2. /\ Stores(f, a, b, k) =>
           /\ n \in (a + 1)..b /\ f[n].key = k /\ ~Superseded(f, n)
           /\ \A m \in (n + 1)..b : f[m].key # k
      /\ ~Stores(f, a, b, k) =>
           \A m \in (a + 1)..b : f[m].key = k => Superseded(f, m)
  BY BatchRows
<1>3. CASE Stores(f, a, b, k)
  <2>1. j = i /\ table'[k] = f[n].val
    BY <1>1, <1>3 DEF SaveBatch
  <2>2. file'[j] = f /\ saved'[j] = b
    BY <1>0, <2>1
  <2> HIDE DEF f, a, b, n
  <2>3. n \in Nat /\ IsLastRow(f, b, k, n)
    BY <1>0, <1>2, <1>3 DEF IsLastRow
  <2>4. QED
    BY <2>1, <2>2, <2>3
<1>4. CASE ~Stores(f, a, b, k)
  <2>1. writer[k] = j /\ table'[k] = table[k]
    BY <1>1, <1>4 DEF SaveBatch
  <2>2. PICK l \in Nat : IsLastRow(file[j], saved[j], k, l) /\ table[k] = file[j][l].val
    BY <2>1 DEF WriterInv
  <2>3. CASE j # i
    BY <1>0, <2>1, <2>2, <2>3
  <2>4. CASE j = i
    <3>0. file'[j] = f /\ saved'[j] = b
      BY <1>0, <2>4
    <3>1. IsLastRow(f, a, k, l)
      BY <2>2, <2>4
    <3> HIDE DEF f, a, b, n
    <3>2. \A m \in (l + 1)..b : m \in (l + 1)..a \/ m \in (a + 1)..b
      BY <1>0
    <3>3. IsLastRow(f, b, k, l)
      BY <1>0, <1>2, <1>4, <3>1, <3>2 DEF IsLastRow
    <3>4. QED
      BY <2>1, <2>2, <2>4, <3>0, <3>3 DEF f
  <2>5. QED
    BY <2>3, <2>4
<1>5. QED
  BY <1>3, <1>4

LEMMA BeginWriter ==
  ASSUME TypeOK, WriterInv, NEW i \in Importers, NEW f \in Files, Begin(i, f)
  PROVE  WriterInv'
<1>1. SUFFICES ASSUME NEW k \in Keys \ CsatKeys, NEW j \in Importers, writer'[k] = j
               PROVE  \E n \in Nat : IsLastRow(file'[j], saved'[j], k, n)
                                     /\ table'[k] = file'[j][n].val
  BY DEF WriterInv, IsLastRow, Superseded, Cut
<1>2. writer[k] = j /\ j # i
  BY <1>1, ConstantFacts DEF Begin
<1>3. file'[j] = file[j] /\ saved'[j] = saved[j] /\ table' = table
  BY <1>2 DEF Begin, TypeOK
<1>4. QED
  BY <1>2, <1>3 DEF WriterInv

LEMMA StepWriter == TypeOK /\ AllSaved /\ WriterInv /\ [Next]_vars => WriterInv'
<1> SUFFICES ASSUME TypeOK, AllSaved, WriterInv, [Next]_vars PROVE WriterInv'
  OBVIOUS
<1>1. CASE UNCHANGED <<file, saved, table, writer>>
  <2>1. SUFFICES ASSUME NEW k \in Keys \ CsatKeys, NEW i \in Importers, writer'[k] = i
                 PROVE  \E n \in Nat : IsLastRow(file'[i], saved'[i], k, n)
                                       /\ table'[k] = file'[i][n].val
    BY DEF WriterInv, IsLastRow, Superseded, Cut
  <2>2. QED
    BY <1>1, <2>1 DEF WriterInv
<1>2. QED
  BY <1>1, BeginWriter, SaveWriter
     DEF Next, vars, EndOfFile, ReadAggregates, StoreStats, ImportFails

\* A key stays stored, and a batch stores those of its rows that are not superseded.
LEMMA StepStored == TypeOK /\ AllSaved /\ StoredInv /\ [Next]_vars => StoredInv'
<1> SUFFICES ASSUME TypeOK, AllSaved, StoredInv, [Next]_vars PROVE StoredInv'
  OBVIOUS
<1>1. CASE UNCHANGED <<file, saved, table>>
  BY <1>1 DEF StoredInv, Superseded, Cut
<1>2. ASSUME NEW i \in Importers, NEW f \in Files, Begin(i, f) PROVE StoredInv'
  <2>1. SUFFICES ASSUME NEW j \in Importers, NEW n \in 1..saved'[j],
                        file'[j][n].key \in Keys \ CsatKeys, ~Superseded(file'[j], n)
                 PROVE  table'[file'[j][n].key] # None
    BY DEF StoredInv, Superseded, Cut
  <2>2. j # i
    BY <1>2 DEF Begin, TypeOK
  <2>3. file'[j] = file[j] /\ saved'[j] = saved[j] /\ table' = table
    BY <1>2, <2>2 DEF Begin, TypeOK
  <2>4. QED
    BY <2>1, <2>3 DEF StoredInv
<1>3. ASSUME NEW i \in Importers, SaveBatch(i) PROVE StoredInv'
  <2>1. SUFFICES ASSUME NEW j \in Importers, NEW m \in 1..saved'[j],
                        file'[j][m].key \in Keys \ CsatKeys, ~Superseded(file'[j], m)
                 PROVE  table'[file'[j][m].key] # None
    BY DEF StoredInv, Superseded, Cut
  <2> DEFINE f == file[i]
             a == saved[i]
             b == BatchEnd(i)
             k == file[j][m].key
             n == Kept(f, a, b, SlotOf[k])
  <2>2. /\ a \in Nat /\ b \in Nat /\ a < b /\ b <= Len(f)
        /\ saved' = [saved EXCEPT ![i] = b] /\ file' = file
        /\ saved \in [Importers -> Nat] /\ k \in Keys \ CsatKeys
    BY <1>3, <2>1, BatchEndBounds, FileFacts DEF SaveBatch, TypeOK
  <2>3. /\ Stores(f, a, b, k) => n \in (a + 1)..b /\ f[n].key = k
        /\ ~Stores(f, a, b, k) =>
             \A l \in (a + 1)..b : f[l].key = k => Superseded(f, l)
    BY <1>3, <2>2, BatchRows
  <2>4. CASE Stores(f, a, b, k)
    <3>1. table'[k] = f[n].val
      BY <1>3, <2>2, <2>4 DEF SaveBatch
    <3>2. n \in 1..Len(f) /\ f \in Seq(Row)
      BY <2>2, <2>3, <2>4, FileFacts
    <3>3. f[n] \in Row
      BY <3>2
    <3> HIDE DEF n, f
    <3>4. f[n].val \in Values
      BY <3>3 DEF Row
    <3>5. None \notin Values
      BY BatchImportAssumption DEF BatchImportAssumption
    <3>6. QED
      BY <2>2, <3>1, <3>4, <3>5 DEF f
  <2>5. CASE ~Stores(f, a, b, k)
    <3>1. table'[k] = table[k]
      BY <1>3, <2>2, <2>5 DEF SaveBatch
    <3>2. m \in 1..saved[j]
      <4>1. CASE j # i
        BY <2>1, <2>2, <4>1
      <4>2. CASE j = i
        <5>1. m \in 1..b
          BY <2>1, <2>2, <4>2
        <5>2. m \notin (a + 1)..b
          BY <2>1, <2>2, <2>3, <2>5, <4>2
        <5>3. QED
          BY <2>2, <4>2, <5>1, <5>2
      <4>3. QED
        BY <4>1, <4>2
    <3>3. QED
      BY <2>1, <2>2, <3>1, <3>2 DEF StoredInv
  <2>6. QED
    BY <2>4, <2>5
<1>4. QED
  BY <1>1, <1>2, <1>3 DEF Next, vars, EndOfFile, ReadAggregates, StoreStats, ImportFails

LEMMA WInvHolds == Spec => []WInv
<1>1. Init => WInv
  BY InitType, InitWInv DEF WInv
<1>2. WInv /\ [Next]_vars => WInv'
  BY StepType, StepAllSaved, StepWriter, StepStored DEF WInv
<1>3. QED
  BY <1>1, <1>2, PTL DEF Spec

\* The last row of a file wins for every table but RawCsat: when the import that last
\* stored a key is over, the key holds the last row its file has for it that no row of
\* another key superseded in its batch, and every key with such a row is stored.
THEOREM LastRowWinsHolds == Spec => []LastRowWins
<1>1. WInv => LastRowWins
  <2> SUFFICES ASSUME WInv, NEW k \in Keys \ CsatKeys, NEW i \in Importers,
                      at[i] \in {"summing", "storing", "done"}
               PROVE  /\ writer[k] = i =>
                           \E n \in DOMAIN file[i] :
                             IsLastRow(file[i], Len(file[i]), k, n)
                             /\ table[k] = file[i][n].val
                      /\ \A n \in DOMAIN file[i] :
                           file[i][n].key = k /\ ~Superseded(file[i], n) => table[k] # None
    BY DEF LastRowWins, LastRowWinsFor
  <2>1. saved[i] = Len(file[i]) /\ DOMAIN file[i] = 1..Len(file[i])
    BY FileFacts DEF WInv, AllSaved
  <2>2. ASSUME writer[k] = i
        PROVE  \E n \in DOMAIN file[i] :
                 IsLastRow(file[i], Len(file[i]), k, n) /\ table[k] = file[i][n].val
    <3>1. PICK n \in Nat : IsLastRow(file[i], saved[i], k, n) /\ table[k] = file[i][n].val
      BY <2>2 DEF WInv, WriterInv
    <3>2. n \in DOMAIN file[i]
      BY <2>1, <3>1 DEF IsLastRow
    <3>3. QED
      BY <2>1, <3>1, <3>2
  <2>3. \A n \in DOMAIN file[i] :
          file[i][n].key = k /\ ~Superseded(file[i], n) => table[k] # None
    BY <2>1 DEF WInv, StoredInv
  <2>4. QED
    BY <2>2, <2>3
<1>2. QED
  BY <1>1, WInvHolds, PTL

-----------------------------------------------------------------------------
(* DailyCsatStat agrees with RawCsat.                                      *)

LEMMA DatesOfGrows ==
  ASSUME NEW f, NEW a \in Nat, NEW b \in Nat, a <= b
  PROVE  DatesOf(f, a) \subseteq DatesOf(f, b)
<1>1. 1..a \subseteq 1..b
  OBVIOUS
<1>2. QED
  BY <1>1 DEF DatesOf

\* What a batch stores changes the aggregate of no date but those of its rows.
LEMMA SaveAggregate ==
  ASSUME TypeOK, NEW i \in Importers, SaveBatch(i), NEW d \in Dates,
         d \notin DatesOf(file[i], BatchEnd(i))
  PROVE  Aggregate(d)' = Aggregate(d)
<1> DEFINE f == file[i]
           a == saved[i]
           b == BatchEnd(i)
<1>0. a \in Nat /\ b \in Nat /\ b <= Len(f) /\ f \in Seq(Row)
  BY BatchEndBounds, FileFacts DEF SaveBatch
<1>1. ASSUME NEW k \in CsatKeys, DateOf[k] = d PROVE table'[k] = table[k]
  <2>1. ~Stores(f, a, b, k)
    <3> SUFFICES ASSUME Stores(f, a, b, k) PROVE FALSE
      OBVIOUS
    <3> DEFINE n == Kept(f, a, b, SlotOf[k])
    <3>1. n \in RowsOf(f, a, b, SlotOf[k]) /\ f[n].key = k
      BY <1>0, <1>1, ConstantFacts, KeptInBatch DEF Stores
    <3>2. n \in 1..b
      BY <1>0, <3>1 DEF RowsOf
    <3>3. QED
      BY <1>1, <3>1, <3>2 DEF DatesOf
  <2>2. QED
    BY <2>1, ConstantFacts DEF SaveBatch
<1>2. Surveys(d)' = Surveys(d)
  BY <1>1 DEF Surveys
<1>3. {k \in Surveys(d) : table[k] \in Satisfied}'
        = {k \in Surveys(d) : table[k] \in Satisfied}
  BY <1>1, <1>2 DEF Surveys
<1>4. QED
  BY <1>2, <1>3 DEF Aggregate

\* Import i is about to store figures for date d.
Storing(i, d) == at[i] = "storing" /\ d \in DatesOf(file[i], saved[i])

\* Two refreshes that are about to store figures for one date have spoilt it.
OverlapKnown ==
  \A d \in Dates : \A i, j \in Importers :
    Storing(i, d) /\ Storing(j, d) /\ i # j => d \in stale

\* What a refresh has read is still so, but for what imports in flight saved since.
ReadIsCurrent ==
  \A d \in Dates : \A i \in Importers :
    Storing(i, d) =>
      \/ figures[i][d] = Aggregate(d)
      \/ d \in stale
      \/ \E j \in Importers \ {i} : InFlight(j, d)

SInv == TypeOK /\ AllSaved /\ OverlapKnown /\ ReadIsCurrent /\ StatsAgree

LEMMA InitStats == Init => OverlapKnown /\ ReadIsCurrent /\ StatsAgree
<1> SUFFICES ASSUME Init PROVE OverlapKnown /\ ReadIsCurrent /\ StatsAgree
  OBVIOUS
<1>1. OverlapKnown /\ ReadIsCurrent
  BY DEF Init, OverlapKnown, ReadIsCurrent, Storing
<1>2. ASSUME NEW d \in Dates PROVE stats[d] = Aggregate(d)
  <2>1. Surveys(d) = {} /\ {k \in Surveys(d) : table[k] \in Satisfied} = {}
    BY ConstantFacts DEF Init, Surveys
  <2>2. Aggregate(d) = [surveys |-> 0, satisfied |-> 0]
    BY <2>1, FS_EmptySet DEF Aggregate
  <2>3. QED
    BY <2>2 DEF Init, Nothing
<1>3. QED
  BY <1>1, <1>2 DEF StatsAgree

\* What a step changes of where imports are at a date: begin and end concern one import,
\* a batch only adds dates to it.
LEMMA FlightFrame ==
  ASSUME NEW i \in Importers, NEW d \in Dates,
         at'[i] = at[i] /\ file'[i] = file[i] /\ saved'[i] = saved[i]
  PROVE  (Storing(i, d)' <=> Storing(i, d)) /\ (InFlight(i, d)' <=> InFlight(i, d))
BY DEF Storing, InFlight, DatesOf

LEMMA AggregateFrame ==
  ASSUME NEW d \in Dates, table' = table
  PROVE  Aggregate(d)' = Aggregate(d)
BY DEF Aggregate, Surveys

LEMMA StoringInFlight ==
  ASSUME NEW i \in Importers, NEW d \in Dates, Storing(i, d)
  PROVE  InFlight(i, d)
BY DEF Storing, InFlight

\* The three facts about one date, for a step that moves import i and leaves the others.
LEMMA BeginStats ==
  ASSUME SInv, NEW i \in Importers, NEW f \in Files, Begin(i, f)
  PROVE  OverlapKnown' /\ ReadIsCurrent' /\ StatsAgree'
<1>1. ASSUME NEW j \in Importers \ {i}, NEW d \in Dates
      PROVE  (Storing(j, d)' <=> Storing(j, d)) /\ (InFlight(j, d)' <=> InFlight(j, d))
  <2>1. at'[j] = at[j] /\ file'[j] = file[j] /\ saved'[j] = saved[j]
    BY DEF Begin, SInv, TypeOK
  <2>2. QED
    BY <2>1, FlightFrame
<1>2. ASSUME NEW d \in Dates PROVE ~Storing(i, d)' /\ ~InFlight(i, d)
  BY DEF Begin, SInv, TypeOK, Storing, InFlight
<1>3. ASSUME NEW d \in Dates PROVE Aggregate(d)' = Aggregate(d)
  BY AggregateFrame DEF Begin
<1>4. figures' = figures /\ stats' = stats /\ stale' = stale
  BY DEF Begin
<1>5. OverlapKnown'
  BY <1>1, <1>2, <1>4 DEF SInv, OverlapKnown
<1>6. ReadIsCurrent'
  <2> SUFFICES ASSUME NEW d \in Dates, NEW j \in Importers, Storing(j, d)'
               PROVE  \/ figures'[j][d] = Aggregate(d)'
                      \/ d \in stale'
                      \/ \E l \in Importers \ {j} : InFlight(l, d)'
    BY DEF ReadIsCurrent
  <2>1. Storing(j, d)
    BY <1>1, <1>2
  <2>2. QED
    BY <1>1, <1>2, <1>3, <1>4, <2>1 DEF SInv, ReadIsCurrent
<1>7. StatsAgree'
  <2> SUFFICES ASSUME NEW d \in Dates
               PROVE  \/ stats'[d] = Aggregate(d)'
                      \/ d \in stale'
                      \/ \E l \in Importers : InFlight(l, d)'
    BY DEF StatsAgree
  <2>1. QED
    BY <1>1, <1>2, <1>3, <1>4 DEF SInv, StatsAgree
<1>8. QED
  BY <1>5, <1>6, <1>7

LEMMA SaveStats ==
  ASSUME SInv, NEW i \in Importers, SaveBatch(i)
  PROVE  OverlapKnown' /\ ReadIsCurrent' /\ StatsAgree'
<1>0. /\ BatchEnd(i) \in Nat /\ saved[i] < BatchEnd(i) /\ saved[i] \in Nat
      /\ saved' = [saved EXCEPT ![i] = BatchEnd(i)] /\ file' = file /\ at' = at
      /\ figures' = figures /\ stats' = stats /\ stale' = stale
      /\ at[i] = "reading" /\ saved \in [Importers -> Nat]
  BY BatchEndBounds, FileFacts DEF SInv, SaveBatch, TypeOK
<1>1. ASSUME NEW j \in Importers \ {i}, NEW d \in Dates
      PROVE  (Storing(j, d)' <=> Storing(j, d)) /\ (InFlight(j, d)' <=> InFlight(j, d))
  <2>1. at'[j] = at[j] /\ file'[j] = file[j] /\ saved'[j] = saved[j]
    BY <1>0
  <2>2. QED
    BY <2>1, FlightFrame
<1>2. ASSUME NEW d \in Dates PROVE ~Storing(i, d)' /\ ~Storing(i, d)
  BY <1>0 DEF Storing
<1>3. ASSUME NEW d \in Dates, d \in DatesOf(file[i], BatchEnd(i)) PROVE InFlight(i, d)'
  BY <1>0, <1>3 DEF InFlight, DatesOf
<1>4. ASSUME NEW d \in Dates, InFlight(i, d) PROVE InFlight(i, d)'
  <2>1. DatesOf(file[i], saved[i]) \subseteq DatesOf(file[i], BatchEnd(i))
    BY <1>0, DatesOfGrows
  <2>2. QED
    BY <1>3, <1>4, <2>1 DEF InFlight
<1>5. ASSUME NEW d \in Dates, d \notin DatesOf(file[i], BatchEnd(i))
      PROVE  Aggregate(d)' = Aggregate(d)
  BY <1>5, SaveAggregate DEF SInv
<1>6. OverlapKnown'
  BY <1>0, <1>1, <1>2 DEF SInv, OverlapKnown
<1>7. ReadIsCurrent'
  <2> SUFFICES ASSUME NEW d \in Dates, NEW j \in Importers, Storing(j, d)'
               PROVE  \/ figures'[j][d] = Aggregate(d)'
                      \/ d \in stale'
                      \/ \E l \in Importers \ {j} : InFlight(l, d)'
    BY DEF ReadIsCurrent
  <2>1. Storing(j, d) /\ j # i
    BY <1>1, <1>2
  <2>2. QED
    BY <1>0, <1>1, <1>3, <1>4, <1>5, <2>1 DEF SInv, ReadIsCurrent
<1>8. StatsAgree'
  <2> SUFFICES ASSUME NEW d \in Dates
               PROVE  \/ stats'[d] = Aggregate(d)'
                      \/ d \in stale'
                      \/ \E l \in Importers : InFlight(l, d)'
    BY DEF StatsAgree
  <2>1. QED
    BY <1>0, <1>1, <1>3, <1>4, <1>5 DEF SInv, StatsAgree
<1>9. QED
  BY <1>6, <1>7, <1>8

LEMMA EndStats ==
  ASSUME SInv, NEW i \in Importers,
         EndOfFile(i) \/ ReadAggregates(i) \/ StoreStats(i) \/ ImportFails(i)
  PROVE  OverlapKnown' /\ ReadIsCurrent' /\ StatsAgree'
<1> DEFINE D == DatesOf(file[i], saved[i])
<1>0. /\ table' = table /\ file' = file /\ saved' = saved
      /\ \A j \in Importers \ {i} : at'[j] = at[j] /\ figures'[j] = figures[j]
  BY DEF EndOfFile, ReadAggregates, StoreStats, ImportFails, SInv, TypeOK
<1>1. ASSUME NEW j \in Importers \ {i}, NEW d \in Dates
      PROVE  (Storing(j, d)' <=> Storing(j, d)) /\ (InFlight(j, d)' <=> InFlight(j, d))
  <2>1. at'[j] = at[j] /\ file'[j] = file[j] /\ saved'[j] = saved[j]
    BY <1>0
  <2>2. QED
    BY <2>1, FlightFrame
<1>2. ASSUME NEW d \in Dates PROVE Aggregate(d)' = Aggregate(d)
  BY <1>0, AggregateFrame
<1>3. ASSUME NEW d \in Dates, InFlight(i, d) \/ InFlight(i, d)' PROVE d \in D
  BY <1>0, <1>3 DEF InFlight, DatesOf
<1>4. ASSUME NEW d \in Dates PROVE Storing(i, d) => InFlight(i, d)
  BY StoringInFlight
<1>5. CASE EndOfFile(i)
  <2>1. figures' = figures /\ stats' = stats /\ stale' = stale
    BY <1>5 DEF EndOfFile
  <2>2. ASSUME NEW d \in Dates PROVE ~Storing(i, d)' /\ ~Storing(i, d)
    BY <1>5 DEF EndOfFile, Storing, SInv, TypeOK
  <2>3. ASSUME NEW d \in Dates, InFlight(i, d) PROVE InFlight(i, d)'
    <3>1. d \in D /\ saved[i] = Len(file[i]) /\ DOMAIN file[i] = 1..Len(file[i])
      BY <1>3, <1>5, <2>3, FileFacts DEF EndOfFile, SInv
    <3>2. IsCsat(file[i])
      BY <3>1 DEF IsCsat, DatesOf
    <3>3. at'[i] = "summing"
      BY <1>5, <3>2 DEF EndOfFile, SInv, TypeOK
    <3>4. QED
      BY <1>0, <3>1, <3>3 DEF InFlight, DatesOf
  <2>4. OverlapKnown'
    BY <1>1, <2>1, <2>2 DEF SInv, OverlapKnown
  <2>5. ReadIsCurrent'
    <3> SUFFICES ASSUME NEW d \in Dates, NEW j \in Importers, Storing(j, d)'
                 PROVE  \/ figures'[j][d] = Aggregate(d)'
                        \/ d \in stale'
                        \/ \E l \in Importers \ {j} : InFlight(l, d)'
      BY DEF ReadIsCurrent
    <3>1. Storing(j, d) /\ j # i
      BY <1>1, <2>2
    <3>2. QED
      BY <1>1, <1>2, <2>1, <2>3, <3>1 DEF SInv, ReadIsCurrent
  <2>6. StatsAgree'
    <3> SUFFICES ASSUME NEW d \in Dates
                 PROVE  \/ stats'[d] = Aggregate(d)'
                        \/ d \in stale'
                        \/ \E l \in Importers : InFlight(l, d)'
      BY DEF StatsAgree
    <3>1. QED
      BY <1>1, <1>2, <2>1, <2>3 DEF SInv, StatsAgree
  <2>7. QED
    BY <2>4, <2>5, <2>6
<1>6. CASE ReadAggregates(i)
  <2>1. saved[i] = Len(file[i]) /\ stats' = stats /\ at[i] = "summing" /\ at'[i] = "storing"
    BY <1>6 DEF ReadAggregates, SInv, AllSaved, TypeOK
  <2>2. ASSUME NEW d \in Dates PROVE figures'[i][d] = Aggregate(d)
    BY <1>6 DEF ReadAggregates, SInv, TypeOK
  <2>3. ASSUME NEW d \in Dates, d \in D PROVE InFlight(i, d)' /\ InFlight(i, d)
    BY <1>0, <2>1, <2>3 DEF InFlight, DatesOf
  <2>4. ASSUME NEW d \in Dates, d \notin D PROVE d \in stale => d \in stale'
    BY <1>6, <2>1, <2>4 DEF ReadAggregates
  <2>5. ASSUME NEW d \in Dates, NEW j \in Importers \ {i}, d \in D, Storing(j, d)
        PROVE  d \in stale'
    <3>1. saved[j] = Len(file[j])
      BY <2>5 DEF Storing, SInv, AllSaved
    <3>2. d \in Overlapping(i)
      BY <2>5, <3>1 DEF Storing, Overlapping
    <3>3. QED
      BY <1>6, <2>1, <2>5, <3>2 DEF ReadAggregates
  <2>6. ASSUME NEW d \in Dates, Storing(i, d)' PROVE d \in D
    BY <1>0, <2>6 DEF Storing, DatesOf
  <2>7. OverlapKnown'
    <3> SUFFICES ASSUME NEW d \in Dates, NEW j \in Importers, NEW l \in Importers,
                        Storing(j, d)', Storing(l, d)', j # l
                 PROVE  d \in stale'
      BY DEF OverlapKnown
    <3>1. CASE j # i /\ l # i
      BY <1>1, <2>4, <2>5, <3>1 DEF SInv, OverlapKnown
    <3>2. CASE j = i
      BY <1>1, <2>5, <2>6, <3>2
    <3>3. CASE l = i
      BY <1>1, <2>5, <2>6, <3>3
    <3>4. QED
      BY <3>1, <3>2, <3>3
  <2>8. ReadIsCurrent'
    <3> SUFFICES ASSUME NEW d \in Dates, NEW j \in Importers, Storing(j, d)'
                 PROVE  \/ figures'[j][d] = Aggregate(d)'
                        \/ d \in stale'
                        \/ \E l \in Importers \ {j} : InFlight(l, d)'
      BY DEF ReadIsCurrent
    <3>1. CASE j = i
      BY <1>2, <2>2, <3>1
    <3>2. CASE j # i
      <4>1. Storing(j, d)
        BY <1>1, <3>2
      <4>2. CASE d \in D
        BY <2>5, <3>2, <4>1, <4>2
      <4>3. CASE d \notin D
        <5>1. ~InFlight(i, d)
          BY <1>3, <4>3
        <5>2. QED
          BY <1>0, <1>1, <1>2, <2>4, <3>2, <4>1, <4>3, <5>1 DEF SInv, ReadIsCurrent
      <4>4. QED
        BY <4>2, <4>3
    <3>3. QED
      BY <3>1, <3>2
  <2>9. StatsAgree'
    <3> SUFFICES ASSUME NEW d \in Dates
                 PROVE  \/ stats'[d] = Aggregate(d)'
                        \/ d \in stale'
                        \/ \E l \in Importers : InFlight(l, d)'
      BY DEF StatsAgree
    <3>1. CASE d \in D
      BY <2>3, <3>1
    <3>2. CASE d \notin D
      BY <1>1, <1>2, <1>3, <2>1, <2>4, <3>2 DEF SInv, StatsAgree
    <3>3. QED
      BY <3>1, <3>2
  <2>10. QED
    BY <2>7, <2>8, <2>9
<1>7. CASE StoreStats(i)
  <2>1. saved[i] = Len(file[i]) /\ stale' = stale /\ at[i] = "storing" /\ at'[i] = "done"
    BY <1>7 DEF StoreStats, SInv, AllSaved, TypeOK
  <2>2. ASSUME NEW d \in Dates PROVE ~Storing(i, d)'
    BY <2>1 DEF Storing
  <2>3. ASSUME NEW d \in Dates, d \in D PROVE Storing(i, d) /\ stats'[d] = figures[i][d]
    BY <1>7, <2>1, <2>3 DEF Storing, StoreStats
  <2>4. ASSUME NEW d \in Dates, d \notin D PROVE stats'[d] = stats[d]
    BY <1>7, <2>1, <2>4 DEF StoreStats
  <2>5. OverlapKnown'
    BY <1>1, <2>1, <2>2 DEF SInv, OverlapKnown
  <2>6. ReadIsCurrent'
    <3> SUFFICES ASSUME NEW d \in Dates, NEW j \in Importers, Storing(j, d)'
                 PROVE  \/ figures'[j][d] = Aggregate(d)'
                        \/ d \in stale'
                        \/ \E l \in Importers \ {j} : InFlight(l, d)'
      BY DEF ReadIsCurrent
    <3>1. j # i /\ Storing(j, d)
      BY <1>1, <2>2
    <3>2. CASE d \in D
      BY <2>1, <2>3, <3>1, <3>2 DEF SInv, OverlapKnown
    <3>3. CASE d \notin D
      BY <1>0, <1>1, <1>2, <1>3, <2>1, <3>1, <3>3 DEF SInv, ReadIsCurrent
    <3>4. QED
      BY <3>2, <3>3
  <2>7. StatsAgree'
    <3> SUFFICES ASSUME NEW d \in Dates
                 PROVE  \/ stats'[d] = Aggregate(d)'
                        \/ d \in stale'
                        \/ \E l \in Importers : InFlight(l, d)'
      BY DEF StatsAgree
    <3>1. CASE d \in D
      BY <1>1, <1>2, <2>1, <2>3, <3>1 DEF SInv, ReadIsCurrent
    <3>2. CASE d \notin D
      BY <1>1, <1>2, <1>3, <2>1, <2>4, <3>2 DEF SInv, StatsAgree
    <3>3. QED
      BY <3>1, <3>2
  <2>8. QED
    BY <2>5, <2>6, <2>7
<1>8. CASE ImportFails(i)
  <2>1. stats' = stats /\ stale' = stale \union D /\ at'[i] = "failed"
    BY <1>8 DEF ImportFails, SInv, TypeOK
  <2>2. ASSUME NEW d \in Dates PROVE ~Storing(i, d)'
    BY <2>1 DEF Storing
  <2>3. OverlapKnown'
    BY <1>1, <2>1, <2>2 DEF SInv, OverlapKnown
  <2>4. ReadIsCurrent'
    <3> SUFFICES ASSUME NEW d \in Dates, NEW j \in Importers, Storing(j, d)'
                 PROVE  \/ figures'[j][d] = Aggregate(d)'
                        \/ d \in stale'
                        \/ \E l \in Importers \ {j} : InFlight(l, d)'
      BY DEF ReadIsCurrent
    <3>1. j # i /\ Storing(j, d)
      BY <1>1, <2>2
    <3>2. QED
      BY <1>0, <1>1, <1>2, <1>3, <2>1, <3>1 DEF SInv, ReadIsCurrent
  <2>5. StatsAgree'
    <3> SUFFICES ASSUME NEW d \in Dates
                 PROVE  \/ stats'[d] = Aggregate(d)'
                        \/ d \in stale'
                        \/ \E l \in Importers : InFlight(l, d)'
      BY DEF StatsAgree
    <3>1. QED
      BY <1>1, <1>2, <1>3, <2>1 DEF SInv, StatsAgree
  <2>6. QED
    BY <2>3, <2>4, <2>5
<1>9. QED
  BY <1>5, <1>6, <1>7, <1>8

LEMMA StepStats == SInv /\ [Next]_vars => OverlapKnown' /\ ReadIsCurrent' /\ StatsAgree'
<1> SUFFICES ASSUME SInv, [Next]_vars PROVE OverlapKnown' /\ ReadIsCurrent' /\ StatsAgree'
  OBVIOUS
<1>1. CASE UNCHANGED vars
  <2>1. ASSUME NEW i \in Importers, NEW d \in Dates
        PROVE  (Storing(i, d)' <=> Storing(i, d)) /\ (InFlight(i, d)' <=> InFlight(i, d))
    BY <1>1, FlightFrame DEF vars
  <2>2. ASSUME NEW d \in Dates PROVE Aggregate(d)' = Aggregate(d)
    BY <1>1, AggregateFrame DEF vars
  <2>3. figures' = figures /\ stats' = stats /\ stale' = stale
    BY <1>1 DEF vars
  <2>4. OverlapKnown'
    BY <2>1, <2>3 DEF SInv, OverlapKnown
  <2>5. ReadIsCurrent'
    BY <2>1, <2>2, <2>3 DEF SInv, ReadIsCurrent
  <2>6. StatsAgree'
    BY <2>1, <2>2, <2>3 DEF SInv, StatsAgree
  <2>7. QED
    BY <2>4, <2>5, <2>6
<1>2. QED
  BY <1>1, BeginStats, SaveStats, EndStats DEF Next

\* DailyCsatStat agrees with RawCsat at every date but those of an import in flight, of
\* a failed one, or of two refreshes that overlapped, until the next refresh of the date
\* that overlaps none.
THEOREM StatsAgreeHolds == Spec => []StatsAgree
<1>1. Init => SInv
  BY InitType, InitWInv, InitStats DEF SInv
<1>2. SInv /\ [Next]_vars => SInv'
  BY StepType, StepAllSaved, StepStats DEF SInv
<1>3. SInv => StatsAgree
  BY DEF SInv
<1>4. QED
  BY <1>1, <1>2, <1>3, PTL DEF Spec
=============================================================================
