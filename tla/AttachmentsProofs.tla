-------------------------- MODULE AttachmentsProofs --------------------------
(***************************************************************************)
(* Proofs about Attachments, for every set of items and connections and    *)
(* every limit: what the run `attachments' checks of it on a small         *)
(* instance.                                                               *)
(***************************************************************************)
EXTENDS Attachments, FiniteSetTheorems, TLAPS

AttachmentRow == [status: {"none", "pending", "done", "failed"}, attempts: 0..MaxAttempts]
BatchRow == [item: Items, attempts: 0..(MaxAttempts - 1), session: BOOLEAN]
AnalysisRow == [status: {"none", "pending", "done", "skipped", "failed"},
                attempts: 0..MaxCalls, cost: BOOLEAN, recent: BOOLEAN]
ScanRow == [item: Items, attempts: 0..(MaxCalls - 1), cost: BOOLEAN]

\* The rows a pass has still to do, each about an item of its own.
RowsOf(s) == {s[k] : k \in 1..Len(s)}
Distinct(s) == \A j, k \in 1..Len(s) : s[j].item = s[k].item => j = k

\* What no message stands behind is not there, a row that waits has a try
\* left, and a deletion has unlinked only what was done.
AttachmentOK(i) ==
    /\ message[i] \in {"none", "gone"} => attachment[i] = NoAttachment
    /\ attachment[i].status = "pending" => attachment[i].attempts < MaxAttempts
    /\ i \in unlinked => attachment[i].status = "done"

AnalysisOK(i) ==
    /\ message[i] \in {"none", "gone"} => analysis[i] = NoAnalysis
    /\ analysis[i].status = "none" => analysis[i] = NoAnalysis
    /\ analysis[i].status = "pending" => analysis[i].attempts < MaxCalls

AttachmentsInv == \A i \in Items : AttachmentOK(i)
AnalysesInv == \A i \in Items : AnalysisOK(i)

\* Nothing but this pass settles a row it has read, unless the row goes with
\* its connection.
BatchInv ==
    /\ Distinct(batch)
    /\ \A md \in RowsOf(batch) :
        \/ message[md.item] = "gone"
        \/ message[md.item] # "none" /\ attachment[md.item].status = "pending"

\* A file that landed is of the head of the batch, and no deletion takes it.
LandedInv == landed => stage = "media" /\ batch # <<>> /\ Head(batch).item \in disk

\* And what an analysis pass has read of a cost is still so.
ScanInv ==
    /\ Distinct(scan)
    /\ \A row \in RowsOf(scan) :
        \/ message[row.item] = "gone"
        \/ /\ message[row.item] # "none"
           /\ analysis[row.item].status = "pending" /\ analysis[row.item].cost = row.cost
    /\ calling => scan # <<>>

IInv ==
    /\ AttachmentsTypeOK
    /\ AttachmentsInv
    /\ AnalysesInv
    /\ BatchInv
    /\ LandedInv
    /\ ScanInv
    /\ RecordsTrue

-----------------------------------------------------------------------------
(* The SELECTs and the lists they fill.                                    *)

\* The greater of two items of a set has more items of it below.
LEMMA MoreBelow ==
    ASSUME NEW S \in SUBSET Nat, IsFiniteSet(S), NEW a \in S, NEW b \in S, a < b
    PROVE  /\ Cardinality({i \in S : i < a}) \in Nat /\ Cardinality({i \in S : i < b}) \in Nat
           /\ Cardinality({i \in S : i < a}) < Cardinality({i \in S : i < b})
<1> DEFINE A == {i \in S : i < a}
           B == {i \in S : i < b}
<1>1. IsFiniteSet(B)
    BY FS_Subset
<1>2. A \in SUBSET B /\ a \in B /\ a \notin A
    <2>1. \A i \in S : i \in Nat
        OBVIOUS
    <2>2. \A i \in S : i < a => i < b
        BY <2>1
    <2>3. ~(a < a)
        BY <2>1
    <2> QED BY <2>2, <2>3
<1>3. IsFiniteSet(A) /\ Cardinality(A) <= Cardinality(B) /\ Cardinality(A) # Cardinality(B)
    <2>1. A # B
        BY <1>2
    <2> QED BY <1>1, <1>2, <2>1, FS_Subset
<1>4. Cardinality(A) \in Nat /\ Cardinality(B) \in Nat
    BY <1>1, <1>3, FS_CardinalityType
<1> HIDE DEF A, B
<1>5. Cardinality(A) < Cardinality(B)
    BY <1>3, <1>4
<1> QED BY <1>4, <1>5 DEF A, B

\* A set of items can be listed in order.
LEMMA OrderExists ==
    ASSUME NEW S \in SUBSET Nat, IsFiniteSet(S)
    PROVE  \E s \in [1..Cardinality(S) -> S] :
                \A j, k \in 1..Cardinality(S) : j < k => s[j] < s[k]
<1> DEFINE n == Cardinality(S)
           rank == [b \in S |-> Cardinality({i \in S : i < b})]
<1>1. n \in Nat
    BY FS_CardinalityType
<1>2. \A b \in S : rank[b] \in 0..(n - 1)
    <2> TAKE b \in S
    <2> DEFINE B == {i \in S : i < b}
    <2>1. B \in SUBSET S /\ b \notin B
        OBVIOUS
    <2>2. IsFiniteSet(B) /\ Cardinality(B) <= n /\ Cardinality(B) # n
        BY <2>1, FS_Subset
    <2>3. Cardinality(B) \in Nat
        BY <2>2, FS_CardinalityType
    <2>4. rank[b] = Cardinality(B)
        OBVIOUS
    <2> HIDE DEF B, rank, n
    <2> QED BY <1>1, <2>2, <2>3, <2>4
<1>3. \A a, b \in S : a < b => rank[a] < rank[b]
    BY MoreBelow
<1> HIDE DEF rank
<1>4. \A a, b \in S : rank[a] = rank[b] => a = b
    <2> SUFFICES ASSUME NEW a \in S, NEW b \in S, a # b PROVE rank[a] # rank[b]
        OBVIOUS
    <2>1. a < b \/ b < a
        OBVIOUS
    <2>2. rank[a] \in 0..(n - 1) /\ rank[b] \in 0..(n - 1)
        BY <1>2
    <2> HIDE DEF n
    <2> QED BY <1>1, <1>3, <2>1, <2>2
<1>5. rank \in Injection(S, 0..(n - 1))
    <2>1. rank \in [S -> 0..(n - 1)]
        BY <1>2 DEF rank
    <2> QED BY <2>1, <1>4 DEF Injection, IsInjective
<1>6. IsFiniteSet(0..(n - 1)) /\ Cardinality(0..(n - 1)) = n
    <2> HIDE DEF n
    <2> QED BY <1>1, FS_Interval
<1>7. \A m \in 0..(n - 1) : \E b \in S : rank[b] = m
    <2>1. rank \in Surjection(S, 0..(n - 1))
        BY <1>5, <1>6, FS_Injection
    <2> QED BY <2>1 DEF Surjection
<1> DEFINE s == [k \in 1..n |-> CHOOSE b \in S : rank[b] = k - 1]
<1>8. \A k \in 1..n : s[k] \in S /\ rank[s[k]] = k - 1
    <2> HIDE DEF n
    <2> TAKE k \in 1..n
    <2>1. k - 1 \in 0..(n - 1)
        BY <1>1
    <2>2. \E b \in S : rank[b] = k - 1
        BY <1>7, <2>1
    <2> QED BY <2>2
<1>9. s \in [1..n -> S]
    BY <1>8
<1> HIDE DEF s
<1>10. \A j, k \in 1..n : j < k => s[j] < s[k]
    <2> HIDE DEF n
    <2> SUFFICES ASSUME NEW j \in 1..n, NEW k \in 1..n, j < k PROVE s[j] < s[k]
        OBVIOUS
    <2>1. s[j] \in Nat /\ s[k] \in Nat
        BY <1>8
    <2>2. rank[s[j]] = j - 1 /\ rank[s[k]] = k - 1 /\ s[j] \in S /\ s[k] \in S
        BY <1>8
    <2>3. s[j] # s[k]
        BY <1>1, <2>2
    <2>4. ~(s[k] < s[j])
        <3>1. s[k] < s[j] => rank[s[k]] < rank[s[j]]
            BY <1>3, <2>2
        <3>2. j \in Int /\ k \in Int /\ ~(k - 1 < j - 1)
            BY <1>1
        <3> QED BY <2>2, <3>1, <3>2
    <2> QED BY <2>1, <2>3, <2>4
<1> QED BY <1>9, <1>10

\* InOrder lists a set of items, each once.
LEMMA InOrderLists ==
    ASSUME NEW S \in SUBSET Items
    PROVE  /\ Cardinality(S) \in Nat
           /\ InOrder(S) \in [1..Cardinality(S) -> S]
           /\ \A j, k \in 1..Cardinality(S) : InOrder(S)[j] = InOrder(S)[k] => j = k
<1>1. S \in SUBSET Nat /\ IsFiniteSet(S)
    <2>1. IsFiniteSet(Items) /\ Items = 1..Cardinality(Items)
        BY AttachmentsAssumption
    <2>2. Cardinality(Items) \in Nat
        BY <2>1, FS_CardinalityType
    <2> QED BY <2>1, <2>2, FS_Subset
<1>2. Cardinality(S) \in Nat
    BY <1>1, FS_CardinalityType
<1> DEFINE n == Cardinality(S)
<1>3. \E s \in [1..n -> S] : \A j, k \in 1..n : j < k => s[j] < s[k]
    BY <1>1, OrderExists
<1>4. /\ InOrder(S) \in [1..n -> S]
      /\ \A j, k \in 1..n : j < k => InOrder(S)[j] < InOrder(S)[k]
    BY <1>3, Zenon DEF InOrder
<1>5. \A j, k \in 1..n : InOrder(S)[j] = InOrder(S)[k] => j = k
    <2> DEFINE s == InOrder(S)
    <2>1. s \in [1..n -> S] /\ \A j, k \in 1..n : j < k => s[j] < s[k]
        BY <1>4
    <2> HIDE DEF s, n
    <2>2. ASSUME NEW j \in 1..n, NEW k \in 1..n, s[j] = s[k] PROVE j = k
        <3>1. s[j] \in S /\ s[k] \in S /\ j \in Int /\ k \in Int
            BY <2>1
        <3>3. s[j] \in Nat
            BY <1>1, <3>1
        <3>4. ~(s[j] < s[j])
            BY <3>3
        <3>2. ~(j < k) /\ ~(k < j)
            BY <2>1, <2>2, <3>4
        <3> QED BY <3>1, <3>2
    <2> QED BY <2>2 DEF s
<1> QED BY <1>2, <1>4, <1>5

\* What taking the head off a list of rows leaves.
LEMMA TailRows ==
    ASSUME NEW T, NEW s \in Seq(T), s # <<>>, Distinct(s)
    PROVE  /\ Head(s) \in RowsOf(s) /\ Head(s) \in T /\ Tail(s) \in Seq(T)
           /\ Distinct(Tail(s))
           /\ \A r \in RowsOf(Tail(s)) : r \in RowsOf(s) /\ r.item # Head(s).item
<1>1. /\ Len(s) \in Nat \ {0} /\ Head(s) = s[1] /\ \A k \in 1..Len(s) : s[k] \in T
      /\ Tail(s) \in Seq(T) /\ Len(Tail(s)) = Len(s) - 1
      /\ \A k \in 1..Len(Tail(s)) : Tail(s)[k] = s[k + 1]
    OBVIOUS
<1>2. Head(s) \in RowsOf(s) /\ Head(s) \in T
    BY <1>1 DEF RowsOf
<1>3. Distinct(Tail(s))
    <2> SUFFICES ASSUME NEW j \in 1..Len(Tail(s)), NEW k \in 1..Len(Tail(s)),
                        Tail(s)[j].item = Tail(s)[k].item
                 PROVE  j = k
        BY DEF Distinct
    <2>1. j + 1 \in 1..Len(s) /\ k + 1 \in 1..Len(s) /\ s[j + 1].item = s[k + 1].item
        BY <1>1
    <2>2. j + 1 = k + 1
        BY <2>1 DEF Distinct
    <2> QED BY <2>2
<1>4. ASSUME NEW r \in RowsOf(Tail(s)) PROVE r \in RowsOf(s) /\ r.item # Head(s).item
    <2>1. PICK k \in 1..Len(Tail(s)) : r = s[k + 1]
        BY <1>1 DEF RowsOf
    <2>2. k + 1 \in 1..Len(s) /\ 1 \in 1..Len(s) /\ k + 1 # 1
        BY <1>1
    <2> QED BY <1>1, <2>1, <2>2 DEF RowsOf, Distinct
<1> QED BY <1>1, <1>2, <1>3, <1>4

\* The rows of a list are of its elements' type.
LEMMA RowsTyped ==
    ASSUME NEW T, NEW s \in Seq(T)
    PROVE  RowsOf(s) \subseteq T
BY DEF RowsOf

\* What a pass has read names items.
LEMMA BatchItems == IInv => \A md \in RowsOf(batch) : md \in BatchRow /\ md.item \in Items
<1> HAVE IInv
<1>1. batch \in Seq(BatchRow)
    BY DEF IInv, AttachmentsTypeOK, BatchRow
<1>2. RowsOf(batch) \subseteq BatchRow
    BY <1>1, RowsTyped, Zenon
<1> QED BY <1>2 DEF BatchRow

\* And so does the list of the analysis pass.
LEMMA ScanItems == IInv => \A row \in RowsOf(scan) : row \in ScanRow /\ row.item \in Items
<1> HAVE IInv
<1>1. scan \in Seq(ScanRow)
    BY DEF IInv, AttachmentsTypeOK, ScanRow
<1>2. RowsOf(scan) \subseteq ScanRow
    BY <1>1, RowsTyped, Zenon
<1> QED BY <1>2 DEF ScanRow

\* The list a pass makes of the items it selected.
LEMMA ReadRows ==
    ASSUME NEW S \in SUBSET Items, NEW T, NEW read, DOMAIN read = S,
           \A i \in S : read[i] \in T /\ read[i].item = i,
           NEW found, found = InOrder(S),
           NEW s, s = [k \in DOMAIN found |-> read[found[k]]]
    PROVE  /\ s \in Seq(T) /\ Distinct(s)
           /\ \A r \in RowsOf(s) : \E i \in S : r = read[i]
<1> DEFINE n == Cardinality(S)
<1>1. n \in Nat /\ found \in [1..n -> S]
    BY InOrderLists
<1>2. \A j, k \in 1..n : found[j] = found[k] => j = k
    BY InOrderLists
<1> HIDE DEF n
<1>3. s = [k \in 1..n |-> read[found[k]]]
    BY <1>1
<1>4. \A k \in 1..n : found[k] \in S /\ s[k] = read[found[k]] /\ s[k] \in T /\ s[k].item = found[k]
    BY <1>1, <1>3
<1>5. s \in [1..n -> T]
    BY <1>3, <1>4
<1>6. s \in Seq(T) /\ Len(s) = n
    BY <1>1, <1>5
<1>7. Distinct(s)
    BY <1>2, <1>4, <1>6 DEF Distinct
<1>8. \A r \in RowsOf(s) : \E i \in S : r = read[i]
    BY <1>4, <1>6 DEF RowsOf
<1> QED BY <1>6, <1>7, <1>8

-----------------------------------------------------------------------------
(* What a pass does with the head of its list.                             *)

\* The media pass settles the row of the head of its batch, which has its file
\* when it is done.
LEMMA BatchSettled ==
    ASSUME IInv, batch # <<>>, NEW new \in AttachmentRow,
           attachment' = Updated(attachment, Head(batch).item, new),
           batch' = Tail(batch), landed' = FALSE,
           new.status # "none", new.status = "pending" => new.attempts < MaxAttempts,
           new.status = "done" => Head(batch).item \in disk,
           UNCHANGED <<live, deleting, message, stage, disk, unlinked, analysisVars>>
    PROVE  IInv'
<1> PICK b : b = Head(batch).item
    OBVIOUS
<1>1. /\ Head(batch) \in RowsOf(batch) /\ Head(batch) \in BatchRow
      /\ batch' \in Seq(BatchRow) /\ Distinct(batch')
      /\ \A r \in RowsOf(batch') : r \in RowsOf(batch) /\ r.item # b
    BY TailRows, Zenon DEF IInv, AttachmentsTypeOK, BatchRow, BatchInv
<1>2. b \in Items /\ message[b] # "none"
    BY <1>1 DEF IInv, BatchInv, BatchRow
<1>3. /\ \A i \in Items : i # b => attachment'[i] = attachment[i]
      /\ message[b] = "gone" => attachment'[b] = attachment[b]
      /\ message[b] # "gone" => attachment'[b] = new
      /\ attachment' \in [Items -> AttachmentRow]
    BY <1>2 DEF IInv, AttachmentsTypeOK, AttachmentRow, Updated
<1>4. message[b] # "gone" => attachment[b].status = "pending"
    BY <1>1 DEF IInv, BatchInv
<1>5. AttachmentsTypeOK'
    BY <1>1, <1>3 DEF IInv, AttachmentsTypeOK, AttachmentRow, BatchRow, analysisVars
<1>6. AttachmentsInv'
    <2> SUFFICES ASSUME NEW i \in Items PROVE AttachmentOK(i)'
        BY DEF AttachmentsInv
    <2>1. AttachmentOK(i)
        BY DEF IInv, AttachmentsInv
    <2>2. CASE i = b /\ message[b] # "gone"
        BY <1>2, <1>3, <1>4, <2>1, <2>2 DEF AttachmentOK
    <2>3. CASE i # b \/ message[b] = "gone"
        BY <1>3, <2>1, <2>3 DEF AttachmentOK
    <2> QED BY <2>2, <2>3
<1>7. AnalysesInv' /\ ScanInv'
    BY DEF IInv, AnalysesInv, AnalysisOK, ScanInv, analysisVars
<1>8. BatchInv'
    <2>1. ASSUME NEW md \in RowsOf(batch')
          PROVE  \/ message[md.item] = "gone"
                 \/ message[md.item] # "none" /\ attachment'[md.item].status = "pending"
        <3>1. md \in RowsOf(batch) /\ md.item # b
            BY <1>1
        <3>2. md.item \in Items
            BY <3>1, BatchItems
        <3>3. attachment'[md.item] = attachment[md.item]
            BY <1>3, <3>1, <3>2
        <3> QED BY <3>1, <3>3 DEF IInv, BatchInv
    <2> QED BY <1>1, <2>1 DEF BatchInv
<1>9. LandedInv'
    BY DEF LandedInv
<1>10. FilesMatchRows'
    <2> SUFFICES ASSUME NEW i \in Items
                 PROVE  /\ attachment'[i].status = "done" => i \in disk \cup unlinked
                        /\ i \in unlinked => i \notin disk
        BY DEF FilesMatchRows
    <2> QED BY <1>3 DEF IInv, RecordsTrue, FilesMatchRows
<1>11. SpendIsSeen'
    BY DEF IInv, RecordsTrue, SpendIsSeen, Recent, analysisVars
<1> QED BY <1>5, <1>6, <1>7, <1>8, <1>9, <1>10, <1>11 DEF IInv, RecordsTrue

\* The analysis pass settles the row of the head of its scan: what was charged
\* keeps a cost and a stamp of the day.
LEMMA ScanSettled ==
    ASSUME IInv, scan # <<>>, NEW new \in AnalysisRow,
           analysis' = Updated(analysis, Head(scan).item, new),
           scan' = Tail(scan), calling' = FALSE,
           new.status # "none", new.status = "pending" => new.attempts < MaxCalls,
           \A i \in paid' : \/ i \in paid /\ i # Head(scan).item
                            \/ i \in paid /\ message[Head(scan).item] = "gone"
                            \/ /\ i = Head(scan).item /\ message[i] # "gone"
                               /\ new.cost /\ new.recent,
           UNCHANGED <<live, deleting, message, attachment, stage, mediaVars, turns>>
    PROVE  IInv'
<1> PICK b : b = Head(scan).item
    OBVIOUS
<1>1. /\ Head(scan) \in RowsOf(scan) /\ Head(scan) \in ScanRow
      /\ scan' \in Seq(ScanRow) /\ Distinct(scan')
      /\ \A r \in RowsOf(scan') : r \in RowsOf(scan) /\ r.item # b
    <2>1. scan \in Seq(ScanRow) /\ Distinct(scan)
        BY DEF IInv, AttachmentsTypeOK, ScanRow, ScanInv
    <2> QED BY <2>1, TailRows, Zenon
<1>2. b \in Items /\ message[b] # "none"
    BY <1>1 DEF IInv, ScanInv, ScanRow
<1>3. /\ \A i \in Items : i # b => analysis'[i] = analysis[i]
      /\ message[b] = "gone" => analysis'[b] = analysis[b]
      /\ message[b] # "gone" => analysis'[b] = new
      /\ analysis' \in [Items -> AnalysisRow]
    BY <1>2 DEF IInv, AttachmentsTypeOK, AnalysisRow, Updated
<1>4. paid' \subseteq Items /\ paid' \subseteq Recent'
    <2> SUFFICES ASSUME NEW i \in paid'
                 PROVE  i \in Items /\ analysis'[i].cost /\ analysis'[i].recent
        BY DEF Recent
    <2>1. i \in paid => i \in Items /\ analysis[i].cost /\ analysis[i].recent
        BY DEF IInv, RecordsTrue, SpendIsSeen, Recent
    <2>2. CASE i \in paid /\ i # b
        BY <1>3, <2>1, <2>2
    <2>3. CASE i \in paid /\ message[b] = "gone"
        BY <1>3, <2>1, <2>3
    <2>4. CASE i = b /\ message[b] # "gone" /\ new.cost /\ new.recent
        BY <1>2, <1>3, <2>4
    <2> QED BY <2>2, <2>3, <2>4
<1>5. AttachmentsTypeOK'
    BY <1>1, <1>3, <1>4 DEF IInv, AttachmentsTypeOK, AnalysisRow, ScanRow, mediaVars
<1>6. AnalysesInv'
    <2> SUFFICES ASSUME NEW i \in Items PROVE AnalysisOK(i)'
        BY DEF AnalysesInv
    <2>1. AnalysisOK(i)
        BY DEF IInv, AnalysesInv
    <2>2. CASE i = b /\ message[b] # "gone"
        BY <1>2, <1>3, <2>1, <2>2 DEF AnalysisOK
    <2>3. CASE i # b \/ message[b] = "gone"
        BY <1>3, <2>1, <2>3 DEF AnalysisOK
    <2> QED BY <2>2, <2>3
<1>7. AttachmentsInv' /\ BatchInv' /\ LandedInv'
    BY DEF IInv, AttachmentsInv, AttachmentOK, BatchInv, LandedInv, mediaVars
<1>8. ScanInv'
    <2>1. ASSUME NEW row \in RowsOf(scan')
          PROVE  \/ message[row.item] = "gone"
                 \/ /\ message[row.item] # "none"
                    /\ analysis'[row.item].status = "pending"
                    /\ analysis'[row.item].cost = row.cost
        <3>1. row \in RowsOf(scan) /\ row.item # b
            BY <1>1
        <3>2. row.item \in Items
            BY <3>1, ScanItems
        <3>3. analysis'[row.item] = analysis[row.item]
            BY <1>3, <3>1, <3>2
        <3> QED BY <3>1, <3>3 DEF IInv, ScanInv
    <2> QED BY <1>1, <2>1 DEF ScanInv
<1>9. FilesMatchRows'
    BY DEF IInv, RecordsTrue, FilesMatchRows, mediaVars
<1> QED BY <1>4, <1>5, <1>6, <1>7, <1>8, <1>9 DEF IInv, RecordsTrue, SpendIsSeen

-----------------------------------------------------------------------------
(* What goes on around the worker's loop keeps the invariant.              *)

\* A message that arrives had nothing, neither a row nor a place in a pass.
LEMMA ArrivesKeeps == ASSUME IInv, NEW a \in Items, Arrives(a) PROVE IInv'
<1> USE DEF Arrives, mediaVars, analysisVars
<1>1. /\ attachment[a] = NoAttachment /\ analysis[a] = NoAnalysis /\ a \notin unlinked
      /\ attachment'[a] = [status |-> "pending", attempts |-> 0]
      /\ \A i \in Items : i # a => attachment'[i] = attachment[i] /\ message'[i] = message[i]
      /\ message'[a] = "stands"
    <2>1. AttachmentOK(a) /\ AnalysisOK(a)
        BY DEF IInv, AttachmentsInv, AnalysesInv
    <2>2. /\ attachment[a] = NoAttachment /\ analysis[a] = NoAnalysis
          /\ a \notin unlinked
        BY <2>1 DEF AttachmentOK, AnalysisOK, NoAttachment
    <2>3. /\ message'[a] = "stands"
          /\ attachment'[a] = [attachment[a] EXCEPT !.status = "pending"]
          /\ \A i \in Items : i # a => attachment'[i] = attachment[i] /\ message'[i] = message[i]
        BY DEF IInv, AttachmentsTypeOK
    <2>4. [NoAttachment EXCEPT !.status = "pending"] = [status |-> "pending", attempts |-> 0]
        BY DEF NoAttachment
    <2> QED BY <2>2, <2>3, <2>4
<1>2. AttachmentsTypeOK'
    BY AttachmentsAssumption DEF IInv, AttachmentsTypeOK
<1>3. AttachmentsInv'
    <2> SUFFICES ASSUME NEW i \in Items PROVE AttachmentOK(i)'
        BY DEF AttachmentsInv
    <2>1. AttachmentOK(i)
        BY DEF IInv, AttachmentsInv
    <2> QED BY <1>1, <2>1, AttachmentsAssumption DEF AttachmentOK
<1>4. AnalysesInv'
    <2> SUFFICES ASSUME NEW i \in Items PROVE AnalysisOK(i)'
        BY DEF AnalysesInv
    <2>1. AnalysisOK(i)
        BY DEF IInv, AnalysesInv
    <2> QED BY <1>1, <2>1, AttachmentsAssumption DEF AnalysisOK, NoAnalysis
<1>5. BatchInv'
    <2>1. ASSUME NEW md \in RowsOf(batch)
          PROVE  \/ message'[md.item] = "gone"
                 \/ message'[md.item] # "none" /\ attachment'[md.item].status = "pending"
        <3>1. md.item \in Items /\ message[md.item] # "none"
            BY BatchItems DEF IInv, BatchInv
        <3> QED BY <1>1, <3>1 DEF IInv, BatchInv
    <2> QED BY <2>1 DEF IInv, BatchInv
<1>6. ScanInv'
    <2>1. ASSUME NEW row \in RowsOf(scan)
          PROVE  \/ message'[row.item] = "gone"
                 \/ /\ message'[row.item] # "none"
                    /\ analysis[row.item].status = "pending"
                    /\ analysis[row.item].cost = row.cost
        <3>1. row.item \in Items /\ message[row.item] # "none"
            BY ScanItems DEF IInv, ScanInv
        <3> QED BY <1>1, <3>1 DEF IInv, ScanInv
    <2> QED BY <2>1 DEF IInv, ScanInv
<1>7. LandedInv'
    BY DEF IInv, LandedInv
<1>8. RecordsTrue'
    BY <1>1 DEF IInv, RecordsTrue, FilesMatchRows, SpendIsSeen, Recent
<1> QED BY <1>2, <1>3, <1>4, <1>5, <1>6, <1>7, <1>8 DEF IInv

\* A message that is deleted keeps its rows.
LEMMA MessageDeletedKeeps == ASSUME IInv, NEW a \in Items, MessageDeleted(a) PROVE IInv'
<1> USE DEF MessageDeleted, mediaVars, analysisVars
<1>1. /\ \A i \in Items : message'[i] \in {"none", "gone"} <=> message[i] \in {"none", "gone"}
      /\ \A i \in Items : message'[i] = "none" <=> message[i] = "none"
      /\ \A i \in Items : message'[i] = "gone" <=> message[i] = "gone"
    BY DEF IInv, AttachmentsTypeOK
<1>2. AttachmentsTypeOK'
    BY DEF IInv, AttachmentsTypeOK
<1>3. AttachmentsInv' /\ AnalysesInv'
    BY <1>1 DEF IInv, AttachmentsInv, AttachmentOK, AnalysesInv, AnalysisOK
<1>4. BatchInv'
    BY <1>1, BatchItems DEF IInv, BatchInv
<1>5. ScanInv'
    BY <1>1, ScanItems DEF IInv, ScanInv
<1>6. LandedInv' /\ RecordsTrue'
    BY DEF IInv, LandedInv, RecordsTrue, FilesMatchRows, SpendIsSeen, Recent
<1> QED BY <1>2, <1>3, <1>4, <1>5, <1>6 DEF IInv

\* Sessions come and go, and both processes with what they had read.
LEMMA SessionsKeep ==
    ASSUME IInv,
           Crash \/ \E c \in Conns : SessionOpens(c) \/ SessionCloses(c)
    PROVE  IInv'
<1> USE DEF Crash, SessionOpens, SessionCloses, mediaVars, analysisVars
<1>1. /\ UNCHANGED <<message, attachment, disk, analysis, paid, unlinked>>
      /\ live' \subseteq Conns /\ deleting' \subseteq Conns
    BY DEF IInv, AttachmentsTypeOK
<1>2. CASE Crash
    <2>1. AttachmentsTypeOK'
        <3>1. /\ landed' \in BOOLEAN /\ calling' \in BOOLEAN /\ turns' \subseteq Media
              /\ stage' \in {"rest", "media", "analysis", "analysing"}
            BY <1>2
        <3>2. batch' = <<>> /\ scan' = <<>>
            BY <1>2
        <3> HIDE DEF Crash
        <3> QED BY <1>1, <3>1, <3>2 DEF IInv, AttachmentsTypeOK
    <2>2. RowsOf(<<>>) = {} /\ Distinct(<<>>)
        BY DEF RowsOf, Distinct
    <2>3. BatchInv' /\ ScanInv' /\ LandedInv'
        BY <1>2, <2>2 DEF BatchInv, ScanInv, LandedInv
    <2> QED BY <1>1, <2>1, <2>3
            DEF IInv, AttachmentsInv, AttachmentOK, AnalysesInv, AnalysisOK, RecordsTrue,
                FilesMatchRows, SpendIsSeen, Recent
<1>3. CASE UNCHANGED <<stage, batch, landed, turns, scan, calling>>
    <2>1. AttachmentsTypeOK'
        BY <1>1, <1>3 DEF IInv, AttachmentsTypeOK
    <2> QED BY <1>1, <1>3, <2>1
            DEF IInv, AttachmentsInv, AttachmentOK, AnalysesInv, AnalysisOK, RecordsTrue,
                BatchInv, ScanInv, LandedInv, FilesMatchRows, SpendIsSeen, Recent
<1> QED BY <1>2, <1>3

\* A stamp that ages takes its charge out of the day with it.
LEMMA DayPassesKeeps == ASSUME IInv, DayPasses PROVE IInv'
<1> USE DEF DayPasses, mediaVars
<1>1. \A i \in Items : /\ analysis'[i] = [analysis[i] EXCEPT !.recent = FALSE]
                       /\ analysis'[i] \in AnalysisRow
                       /\ analysis'[i].status = analysis[i].status
                       /\ analysis'[i].attempts = analysis[i].attempts
                       /\ analysis'[i].cost = analysis[i].cost
                       /\ analysis[i] = NoAnalysis => analysis'[i] = NoAnalysis
    <2> SUFFICES ASSUME NEW i \in Items
                 PROVE  LET q == [analysis[i] EXCEPT !.recent = FALSE] IN
                            /\ q \in AnalysisRow /\ q.status = analysis[i].status
                            /\ q.attempts = analysis[i].attempts /\ q.cost = analysis[i].cost
                            /\ analysis[i] = NoAnalysis => q = NoAnalysis
        OBVIOUS
    <2>1. analysis[i] \in AnalysisRow
        BY DEF IInv, AttachmentsTypeOK, AnalysisRow
    <2>2. \A r \in AnalysisRow : LET q == [r EXCEPT !.recent = FALSE] IN
            /\ q \in AnalysisRow
            /\ q.status = r.status /\ q.attempts = r.attempts /\ q.cost = r.cost
        BY DEF AnalysisRow
    <2>3. [NoAnalysis EXCEPT !.recent = FALSE] = NoAnalysis
        <3>1. PICK none : none = NoAnalysis
            OBVIOUS
        <3>2. none \in AnalysisRow /\ none.recent = FALSE
            BY <3>1, AttachmentsAssumption DEF NoAnalysis, AnalysisRow
        <3>3. [none EXCEPT !.recent = none.recent] = none
            BY <3>2, Zenon DEF AnalysisRow
        <3> QED BY <3>1, <3>2, <3>3, Zenon
    <2> QED BY <2>1, <2>2, <2>3
<1>2. AttachmentsTypeOK'
    <2>1. analysis' \in [Items -> AnalysisRow]
        BY <1>1
    <2> QED BY <2>1 DEF IInv, AttachmentsTypeOK, AnalysisRow
<1>3. AttachmentsInv' /\ BatchInv' /\ LandedInv'
    BY DEF IInv, AttachmentsInv, AttachmentOK, BatchInv, LandedInv
<1>4. AnalysesInv'
    BY <1>1 DEF IInv, AnalysesInv, AnalysisOK
<1>5. ScanInv'
    BY <1>1, ScanItems DEF IInv, ScanInv
<1>6. RecordsTrue'
    BY DEF IInv, RecordsTrue, FilesMatchRows, SpendIsSeen, Recent
<1> QED BY <1>2, <1>3, <1>4, <1>5, <1>6 DEF IInv

\* A deletion unlinks what is done, so nothing a pass holds.
LEMMA DeleteUnlinksKeeps ==
    ASSUME IInv, NEW c \in Conns, DeleteUnlinks(c)
    PROVE  IInv'
<1> USE DEF DeleteUnlinks, analysisVars
<1>1. PICK files : /\ files = {i \in Rows(c) : attachment[i].status = "done"}
                   /\ disk' = disk \ files /\ unlinked' = unlinked \cup files
    OBVIOUS
<1>2. \A i \in files : i \in Items /\ attachment[i].status = "done"
    BY <1>1 DEF Rows
<1>3. AttachmentsTypeOK'
    BY <1>1, <1>2 DEF IInv, AttachmentsTypeOK
<1>4. AttachmentsInv'
    BY <1>1, <1>2 DEF IInv, AttachmentsInv, AttachmentOK
<1>5. AnalysesInv' /\ BatchInv' /\ ScanInv'
    BY DEF IInv, AnalysesInv, AnalysisOK, BatchInv, ScanInv
<1>6. LandedInv'
    <2> SUFFICES ASSUME landed PROVE stage = "media" /\ batch # <<>> /\ Head(batch).item \in disk'
        BY DEF LandedInv
    <2>1. stage = "media" /\ batch # <<>> /\ Head(batch).item \in disk
        BY DEF IInv, LandedInv
    <2>2. Head(batch) \in RowsOf(batch)
        BY <2>1, TailRows, Zenon DEF IInv, AttachmentsTypeOK, BatchInv
    <2>3. /\ attachment[Head(batch).item].status = "pending" \/ message[Head(batch).item] = "gone"
          /\ Head(batch).item \in Items
        BY <2>2, BatchItems DEF IInv, BatchInv
    <2>4. Head(batch).item \notin files
        BY <1>1, <2>3 DEF Rows
    <2> QED BY <1>1, <2>1, <2>4
<1>7. FilesMatchRows'
    BY <1>1, <1>2 DEF IInv, RecordsTrue, FilesMatchRows
<1>8. SpendIsSeen'
    BY DEF IInv, RecordsTrue, SpendIsSeen, Recent
<1> QED BY <1>3, <1>4, <1>5, <1>6, <1>7, <1>8 DEF IInv, RecordsTrue

\* A connection goes with its rows, its charges and what it had unlinked.
LEMMA DeleteDropsKeeps ==
    ASSUME IInv, NEW c \in Conns, DeleteDrops(c)
    PROVE  IInv'
<1> USE DEF DeleteDrops
<1>1. /\ Rows(c) \subseteq Items
      /\ \A i \in Rows(c) : /\ message'[i] = "gone" /\ attachment'[i] = NoAttachment
                            /\ analysis'[i] = NoAnalysis /\ i \notin paid' /\ i \notin unlinked'
      /\ \A i \in Items \ Rows(c) : /\ message'[i] = message[i] /\ attachment'[i] = attachment[i]
                                    /\ analysis'[i] = analysis[i] /\ (i \in paid' <=> i \in paid)
                                    /\ (i \in unlinked' <=> i \in unlinked)
    BY DEF Rows
<1>2. AttachmentsTypeOK'
    <2>1. message' \in [Items -> {"none", "stands", "deleted", "gone"}]
        BY <1>1 DEF IInv, AttachmentsTypeOK
    <2>2. attachment' \in [Items -> AttachmentRow]
        BY AttachmentsAssumption DEF IInv, AttachmentsTypeOK, AttachmentRow, NoAttachment
    <2>3. analysis' \in [Items -> AnalysisRow]
        BY AttachmentsAssumption DEF IInv, AttachmentsTypeOK, AnalysisRow, NoAnalysis
    <2> QED BY <2>1, <2>2, <2>3 DEF IInv, AttachmentsTypeOK, AttachmentRow, AnalysisRow
<1>3. AttachmentsInv'
    <2> SUFFICES ASSUME NEW i \in Items PROVE AttachmentOK(i)'
        BY DEF AttachmentsInv
    <2>1. AttachmentOK(i)
        BY DEF IInv, AttachmentsInv
    <2> QED BY <1>1, <2>1 DEF AttachmentOK, NoAttachment
<1>4. AnalysesInv'
    <2> SUFFICES ASSUME NEW i \in Items PROVE AnalysisOK(i)'
        BY DEF AnalysesInv
    <2>1. AnalysisOK(i)
        BY DEF IInv, AnalysesInv
    <2> QED BY <1>1, <2>1 DEF AnalysisOK, NoAnalysis
<1>5. BatchInv'
    BY <1>1, BatchItems DEF IInv, BatchInv
<1>6. ScanInv'
    BY <1>1, ScanItems DEF IInv, ScanInv
<1>7. LandedInv'
    BY DEF IInv, LandedInv
<1>8. FilesMatchRows'
    BY <1>1 DEF IInv, RecordsTrue, FilesMatchRows, NoAttachment
<1>9. SpendIsSeen'
    BY <1>1 DEF IInv, AttachmentsTypeOK, RecordsTrue, SpendIsSeen, Recent
<1> QED BY <1>2, <1>3, <1>4, <1>5, <1>6, <1>7, <1>8, <1>9 DEF IInv, RecordsTrue

-----------------------------------------------------------------------------
(* The media drain keeps the invariant.                                    *)

\* A batch is what waits, each row once.
LEMMA DrainMediaKeeps == ASSUME IInv, DrainMedia PROVE IInv'
<1> USE DEF DrainMedia, analysisVars
<1> DEFINE S == Limited(Downloadable)
           read == [i \in S |-> ReadAttachment(i)]
<1>1. S \in SUBSET Items /\ \A i \in S : attachment[i].status = "pending" /\ message[i] = "stands"
    BY DEF Limited, Downloadable
<1>2. \A i \in S : read[i] \in BatchRow /\ read[i].item = i
    <2> SUFFICES ASSUME NEW i \in S
                 PROVE  ReadAttachment(i) \in BatchRow /\ ReadAttachment(i).item = i
        OBVIOUS
    <2>1. PICK n : n = attachment[i].attempts
        OBVIOUS
    <2>2. n \in 0..MaxAttempts /\ n < MaxAttempts
        BY <1>1, <2>1 DEF IInv, AttachmentsTypeOK, AttachmentsInv, AttachmentOK
    <2>3. n \in 0..(MaxAttempts - 1)
        BY <2>2, AttachmentsAssumption
    <2>4. PICK open : open = (ConnOf[i] \in live) /\ open \in BOOLEAN
        <3>1. (ConnOf[i] \in live) \in BOOLEAN
            OBVIOUS
        <3> QED BY <3>1, Zenon
    <2>5. ReadAttachment(i) = [item |-> i, attempts |-> n, session |-> open]
        BY <2>1, <2>4, Zenon DEF ReadAttachment
    <2>6. \A j \in Items, m \in 0..(MaxAttempts - 1), o \in BOOLEAN :
            LET md == [item |-> j, attempts |-> m, session |-> o] IN
                md \in BatchRow /\ md.item = j
        BY DEF BatchRow
    <2>7. i \in Items
        BY <1>1
    <2> QED BY <2>3, <2>4, <2>5, <2>6, <2>7, Zenon
<1>3. batch' \in Seq(BatchRow) /\ Distinct(batch')
      /\ \A md \in RowsOf(batch') : \E i \in S : md = read[i]
    <2>1. CASE live = {}
        <3>1. batch' = <<>>
            BY <2>1
        <3>2. RowsOf(<<>>) = {} /\ Distinct(<<>>)
            BY DEF RowsOf, Distinct
        <3> QED BY <3>1, <3>2
    <2>2. CASE live # {}
        <3>1. PICK found : found = InOrder(S)
            OBVIOUS
        <3>2. batch' = [k \in DOMAIN found |-> ReadAttachment(found[k])]
            BY <2>2, <3>1
        <3>3. \A k \in DOMAIN found : found[k] \in S
            BY <1>1, <3>1, InOrderLists
        <3>4. batch' = [k \in DOMAIN found |-> read[found[k]]]
            BY <3>2, <3>3
        <3>5. DOMAIN read = S
            OBVIOUS
        <3> HIDE DEF S, read, DrainMedia
        <3>6. /\ batch' \in Seq(BatchRow) /\ Distinct(batch')
              /\ \A md \in RowsOf(batch') : \E i \in S : md = read[i]
            <4>1. PICK queue, reads, list : queue = S /\ reads = read /\ list = batch'
                OBVIOUS
            <4>2. /\ queue \in SUBSET Items /\ DOMAIN reads = queue
                  /\ \A i \in queue : reads[i] \in BatchRow /\ reads[i].item = i
                BY <1>1, <1>2, <3>5, <4>1
            <4>3. found = InOrder(queue) /\ list = [k \in DOMAIN found |-> reads[found[k]]]
                BY <3>1, <3>4, <4>1
            <4>4. /\ list \in Seq(BatchRow) /\ Distinct(list)
                  /\ \A md \in RowsOf(list) : \E i \in queue : md = reads[i]
                BY <4>2, <4>3, ReadRows, Z3T(60)
            <4> QED BY <4>1, <4>4
        <3> QED BY <3>6
    <2> QED BY <2>1, <2>2
<1>4. AttachmentsTypeOK'
    <2> HIDE DEF S, read
    <2>1. batch' \in Seq([item: Items, attempts: 0..(MaxAttempts - 1), session: BOOLEAN])
        BY <1>3 DEF BatchRow
    <2>2. stage' = "media"
        OBVIOUS
    <2>3. /\ live' = live /\ deleting' = deleting /\ message' = message
          /\ attachment' = attachment /\ disk' = disk /\ landed' = landed
          /\ unlinked' = unlinked /\ turns' = turns /\ scan' = scan /\ calling' = calling
          /\ analysis' = analysis /\ paid' = paid
        OBVIOUS
    <2> HIDE DEF DrainMedia
    <2> QED BY <2>1, <2>2, <2>3 DEF IInv, AttachmentsTypeOK
<1>5. BatchInv'
    <2>1. ASSUME NEW md \in RowsOf(batch')
          PROVE  message[md.item] # "none" /\ attachment[md.item].status = "pending"
        <3>1. PICK i \in S : md = read[i]
            BY <1>3
        <3>2. md.item = i
            BY <1>2, <3>1
        <3> HIDE DEF S, read
        <3> QED BY <1>1, <3>2
    <2> HIDE DEF S, read
    <2> QED BY <1>3, <2>1 DEF BatchInv
<1>6. LandedInv'
    <2>1. ~landed
        BY DEF IInv, LandedInv
    <2> QED BY <2>1 DEF LandedInv
<1> HIDE DEF S, read
<1>7. AttachmentsInv' /\ AnalysesInv' /\ ScanInv'
    BY DEF IInv, AttachmentsInv, AttachmentOK, AnalysesInv, AnalysisOK, ScanInv
<1>8. RecordsTrue'
    BY DEF IInv, RecordsTrue, FilesMatchRows, SpendIsSeen, Recent
<1> QED BY <1>4, <1>5, <1>6, <1>7, <1>8 DEF IInv

\* The file of the head of the batch lands: no row says it was unlinked.
LEMMA FileLandsKeeps == ASSUME IInv, FileLands PROVE IInv'
<1> USE DEF FileLands, analysisVars
<1>1. PICK b : b = Head(batch).item
    OBVIOUS
<1>2. b \in Items /\ (message[b] = "gone" \/ attachment[b].status = "pending")
    <2>1. Head(batch) \in RowsOf(batch)
        BY TailRows, Zenon DEF IInv, AttachmentsTypeOK, BatchInv
    <2> QED BY <1>1, <2>1, BatchItems DEF IInv, BatchInv
<1>3. b \notin unlinked
    BY <1>2 DEF IInv, AttachmentsInv, AttachmentOK, NoAttachment
<1>4. AttachmentsTypeOK'
    BY <1>1, <1>2 DEF IInv, AttachmentsTypeOK
<1>5. AttachmentsInv' /\ AnalysesInv' /\ BatchInv' /\ ScanInv'
    BY DEF IInv, AttachmentsInv, AttachmentOK, AnalysesInv, AnalysisOK, BatchInv, ScanInv
<1>6. LandedInv'
    BY DEF LandedInv
<1>7. FilesMatchRows'
    BY <1>1, <1>3 DEF IInv, RecordsTrue, FilesMatchRows
<1>8. SpendIsSeen'
    BY DEF IInv, RecordsTrue, SpendIsSeen, Recent
<1> QED BY <1>4, <1>5, <1>6, <1>7, <1>8 DEF IInv, RecordsTrue

\* Whatever becomes of a download, its row is settled as it should be.
LEMMA DownloadsKeep == ASSUME IInv, TooLarge \/ RowDone \/ DownloadFails PROVE IInv'
<1>1. ASSUME batch # <<>>
      PROVE  /\ Head(batch) \in BatchRow
             /\ attachment[Head(batch).item] \in AttachmentRow
             /\ \/ message[Head(batch).item] = "gone"
                \/ /\ attachment[Head(batch).item].status = "pending"
                   /\ attachment[Head(batch).item].attempts < MaxAttempts
    <2>1. Head(batch) \in RowsOf(batch)
        BY <1>1, TailRows, Zenon DEF IInv, AttachmentsTypeOK, BatchInv
    <2>2. Head(batch) \in BatchRow /\ Head(batch).item \in Items
        BY <2>1, BatchItems
    <2> QED BY <2>1, <2>2
            DEF IInv, AttachmentsTypeOK, AttachmentRow, AttachmentsInv, AttachmentOK, BatchInv
<1>2. PICK b : b = Head(batch).item
    OBVIOUS
<1>3. PICK old : old = attachment[b]
    OBVIOUS
<1>4. CASE TooLarge
    <2>1. batch # <<>> /\ landed' = FALSE
        BY <1>4 DEF TooLarge, IInv, AttachmentsTypeOK
    <2>2. PICK new : new = [old EXCEPT !.status = "failed"]
        OBVIOUS
    <2>3. new \in AttachmentRow /\ new.status = "failed"
        BY <1>1, <1>2, <1>3, <2>1, <2>2 DEF AttachmentRow
    <2>4. attachment' = Updated(attachment, Head(batch).item, new)
        BY <1>2, <1>3, <1>4, <2>2, Zenon DEF TooLarge
    <2>5. /\ batch' = Tail(batch)
          /\ UNCHANGED <<live, deleting, message, stage, disk, unlinked, analysisVars>>
        BY <1>4 DEF TooLarge
    <2>6. new.status # "none" /\ new.status # "pending" /\ new.status # "done"
        BY <2>3
    <2> QED BY <2>1, <2>3, <2>4, <2>5, <2>6, BatchSettled, Zenon
<1>5. CASE RowDone
    <2>1. batch # <<>> /\ Head(batch).item \in disk
        BY <1>5 DEF RowDone, IInv, LandedInv
    <2>2. PICK new : new = [old EXCEPT !.status = "done"]
        OBVIOUS
    <2>3. new \in AttachmentRow /\ new.status = "done"
        BY <1>1, <1>2, <1>3, <2>1, <2>2 DEF AttachmentRow
    <2>4. attachment' = Updated(attachment, Head(batch).item, new)
        BY <1>2, <1>3, <1>5, <2>2, Zenon DEF RowDone
    <2>5. /\ batch' = Tail(batch) /\ landed' = FALSE
          /\ UNCHANGED <<live, deleting, message, stage, disk, unlinked, analysisVars>>
        BY <1>5 DEF RowDone
    <2>6. new.status # "none" /\ new.status # "pending"
        BY <2>3
    <2> QED BY <2>1, <2>3, <2>4, <2>5, <2>6, BatchSettled, Zenon
<1>6. CASE DownloadFails
    <2>1. batch # <<>>
        BY <1>6 DEF DownloadFails
    <2>2. PICK new : new = Retried(Head(batch))
        OBVIOUS
    <2>3. attachment' = Updated(attachment, Head(batch).item, new)
        BY <1>6, <2>2, Zenon DEF DownloadFails
    <2>4. /\ batch' = Tail(batch) /\ landed' = FALSE
          /\ UNCHANGED <<live, deleting, message, stage, disk, unlinked, analysisVars>>
        BY <1>6 DEF DownloadFails
    <2>5. message[b] # "gone" =>
            /\ new \in AttachmentRow /\ new.status \in {"pending", "failed"}
            /\ new.status = "pending" => new.attempts < MaxAttempts
        <3>1. ASSUME message[b] # "gone", ~Head(batch).session
              PROVE  /\ new \in AttachmentRow /\ new.status = "pending"
                     /\ new.attempts < MaxAttempts
            BY <1>1, <1>2, <2>1, <2>2, <3>1 DEF Retried
        <3>2. ASSUME Head(batch).session
              PROVE  /\ new \in AttachmentRow /\ new.status \in {"pending", "failed"}
                     /\ new.status = "pending" => new.attempts < MaxAttempts
            <4>1. PICK n : n = Head(batch).attempts
                OBVIOUS
            <4>2. n \in 0..(MaxAttempts - 1)
                BY <1>1, <2>1, <4>1 DEF BatchRow
            <4>3. new = [status |-> IF n + 1 >= MaxAttempts THEN "failed" ELSE "pending",
                         attempts |-> n + 1]
                BY <2>2, <3>2, <4>1, Zenon DEF Retried
            <4>4. n + 1 \in 0..MaxAttempts /\ (n + 1 >= MaxAttempts \/ n + 1 < MaxAttempts)
                BY <4>2, AttachmentsAssumption
            <4> QED BY <4>3, <4>4 DEF AttachmentRow
        <3> QED BY <3>1, <3>2
    <2>6. CASE message[b] = "gone"
        \* The row is not there: any row serves.
        <3>1. PICK any : any = [status |-> "failed", attempts |-> 0]
            OBVIOUS
        <3>2. any \in AttachmentRow /\ any.status = "failed"
            BY <3>1, AttachmentsAssumption DEF AttachmentRow
        <3>3. attachment' = Updated(attachment, Head(batch).item, any)
            BY <1>2, <2>3, <2>6 DEF Updated
        <3>4. any.status # "none" /\ any.status # "pending" /\ any.status # "done"
            BY <3>2
        <3> QED BY <2>1, <2>4, <3>2, <3>3, <3>4, BatchSettled, Zenon
    <2>7. CASE message[b] # "gone"
        <3>1. /\ new \in AttachmentRow /\ new.status # "none" /\ new.status # "done"
              /\ new.status = "pending" => new.attempts < MaxAttempts
            BY <2>5, <2>7
        <3> QED BY <2>1, <2>3, <2>4, <3>1, BatchSettled, Zenon
    <2> QED BY <2>6, <2>7
<1> QED BY <1>4, <1>5, <1>6

-----------------------------------------------------------------------------
(* The analysis drain keeps the invariant.                                 *)

\* The steps that only move the loop on, or ask the provider.
LEMMA LoopSteps ==
    ASSUME IInv,
           \/ MediaDrained \/ AnalysisPutOff \/ AnalysisDrained \/ Calls
           \/ \E on \in SUBSET Media : DrainAnalysis(on)
    PROVE  IInv'
<1> USE DEF MediaDrained, AnalysisPutOff, AnalysisDrained, DrainAnalysis, Calls,
            mediaVars, analysisVars
<1>1. /\ UNCHANGED <<live, deleting, message, attachment, disk, batch, landed, unlinked>>
      /\ UNCHANGED <<scan, analysis, paid>>
      /\ stage' \in {"rest", "media", "analysis", "analysing"} /\ turns' \subseteq Media
    BY DEF IInv, AttachmentsTypeOK
<1>2. AttachmentsTypeOK'
    <2>1. calling' \in BOOLEAN
        BY DEF IInv, AttachmentsTypeOK
    <2> HIDE DEF MediaDrained, AnalysisPutOff, AnalysisDrained, DrainAnalysis, Calls
    <2> QED BY <1>1, <2>1 DEF IInv, AttachmentsTypeOK
<1>3. AttachmentsInv' /\ AnalysesInv' /\ BatchInv' /\ RecordsTrue'
    BY <1>1 DEF IInv, AttachmentsInv, AttachmentOK, AnalysesInv, AnalysisOK, BatchInv,
                RecordsTrue, FilesMatchRows, SpendIsSeen, Recent
<1>4. LandedInv'
    BY <1>1 DEF IInv, LandedInv
<1>5. ScanInv'
    BY <1>1 DEF IInv, ScanInv
<1> QED BY <1>2, <1>3, <1>4, <1>5 DEF IInv

\* A medium's turn queues what was never analysed, and reads what waits.
LEMMA MediumBeginsKeeps == ASSUME IInv, NEW m \in Media, MediumBegins(m) PROVE IInv'
<1> DEFINE queued == LimitedNewest(Unanalysed(m))
           rows == [i \in Items |-> IF i \in queued
                                    THEN [NoAnalysis EXCEPT !.status = "pending"] ELSE analysis[i]]
           S == Limited({i \in Items : rows[i].status = "pending" /\ Medium[i] = m})
           read == [i \in S |-> ReadAnalysis(rows, i)]
<1>1. /\ analysis' = rows
      /\ scan' = [k \in DOMAIN InOrder(S) |-> ReadAnalysis(rows, InOrder(S)[k])]
      /\ scan = <<>> /\ turns' = turns \ {m}
      /\ UNCHANGED <<live, deleting, message, attachment, stage, mediaVars, calling, paid>>
    BY Zenon DEF MediumBegins
<1>2. PICK fresh : fresh = [NoAnalysis EXCEPT !.status = "pending"]
    OBVIOUS
<1>3. /\ fresh \in AnalysisRow /\ fresh.status = "pending" /\ fresh.attempts = 0
      /\ fresh.cost = FALSE
    <2>1. PICK none : none = NoAnalysis
        OBVIOUS
    <2>2. none \in AnalysisRow /\ none.attempts = 0 /\ none.cost = FALSE
        BY <2>1, AttachmentsAssumption DEF NoAnalysis, AnalysisRow
    <2>3. \A r \in AnalysisRow : LET q == [r EXCEPT !.status = "pending"] IN
            /\ q \in AnalysisRow /\ q.status = "pending"
            /\ q.attempts = r.attempts /\ q.cost = r.cost
        BY DEF AnalysisRow
    <2> QED BY <1>2, <2>1, <2>2, <2>3, Zenon
<1>4. \A i \in queued : /\ i \in Items /\ message[i] = "stands"
                        /\ analysis[i].status = "none" /\ ~analysis[i].cost
    BY DEF LimitedNewest, Unanalysed, IInv, AnalysesInv, AnalysisOK, NoAnalysis
<1>5. \A i \in Items : /\ i \in queued => analysis'[i] = fresh
                       /\ i \notin queued => analysis'[i] = analysis[i]
    BY <1>1, <1>2
<1>6. analysis' \in [Items -> AnalysisRow]
    <2>1. analysis' = [i \in Items |-> IF i \in queued THEN fresh ELSE analysis[i]]
        BY <1>1, <1>2
    <2>2. \A i \in Items : analysis[i] \in AnalysisRow
        BY DEF IInv, AttachmentsTypeOK, AnalysisRow
    <2> HIDE DEF queued, rows, S, read
    <2> QED BY <1>3, <2>1, <2>2
<1> HIDE DEF queued
<1>7. S \in SUBSET Items /\ \A i \in S : analysis'[i].status = "pending"
    BY <1>1 DEF Limited
<1>8. AnalysesInv'
    <2> SUFFICES ASSUME NEW i \in Items PROVE AnalysisOK(i)'
        BY DEF AnalysesInv
    <2>1. AnalysisOK(i)
        BY DEF IInv, AnalysesInv
    <2>2. message'[i] = message[i]
        BY <1>1
    <2> HIDE DEF rows, S, read
    <2>3. CASE i \in queued
        BY <1>3, <1>4, <1>5, <2>2, <2>3, AttachmentsAssumption DEF AnalysisOK
    <2>4. CASE i \notin queued
        BY <1>5, <2>1, <2>2, <2>4 DEF AnalysisOK
    <2> QED BY <2>3, <2>4
<1>9. \A i \in S : read[i] \in ScanRow /\ read[i].item = i /\ read[i].cost = analysis'[i].cost
    <2> SUFFICES ASSUME NEW i \in S
                 PROVE  LET q == ReadAnalysis(rows, i) IN
                            q \in ScanRow /\ q.item = i /\ q.cost = analysis'[i].cost
        OBVIOUS
    <2>1. PICK r : r = analysis'[i]
        OBVIOUS
    <2>2. ReadAnalysis(rows, i) = [item |-> i, attempts |-> r.attempts, cost |-> r.cost]
        BY <1>1, <2>1, Zenon DEF ReadAnalysis
    <2>3. i \in Items
        BY <1>7
    <2> HIDE DEF rows, S, read
    <2>4. r \in AnalysisRow /\ r.attempts < MaxCalls
        BY <1>6, <1>7, <1>8, <2>1, <2>3 DEF AnalysesInv, AnalysisOK
    <2>5. r.attempts \in 0..(MaxCalls - 1) /\ r.cost \in BOOLEAN
        BY <2>4, AttachmentsAssumption DEF AnalysisRow
    <2>6. \A j \in Items, n \in 0..(MaxCalls - 1), c \in BOOLEAN :
            LET row == [item |-> j, attempts |-> n, cost |-> c] IN
                row \in ScanRow /\ row.item = j /\ row.cost = c
        BY DEF ScanRow
    <2>7. PICK n, c : n = r.attempts /\ c = r.cost
        OBVIOUS
    <2>8. LET row == [item |-> i, attempts |-> n, cost |-> c] IN
            row \in ScanRow /\ row.item = i /\ row.cost = c
        BY <2>3, <2>5, <2>6, <2>7, Zenon
    <2> QED BY <2>1, <2>2, <2>7, <2>8, Zenon
<1>10. /\ scan' \in Seq(ScanRow) /\ Distinct(scan')
       /\ \A row \in RowsOf(scan') : \E i \in S : row = read[i]
    <2>1. \A k \in DOMAIN InOrder(S) : InOrder(S)[k] \in S
        <3> HIDE DEF S
        <3> QED BY <1>7, InOrderLists
    <2>2. scan' = [k \in DOMAIN InOrder(S) |-> read[InOrder(S)[k]]]
        <3> HIDE DEF S, rows
        <3> QED BY <1>1, <2>1
    <2>3. PICK queue, reads, list : queue = S /\ reads = read /\ list = scan'
        OBVIOUS
    <2>4. DOMAIN read = S
        OBVIOUS
    <2> HIDE DEF rows, S, read
    <2>5. /\ queue \in SUBSET Items /\ DOMAIN reads = queue
          /\ \A i \in queue : reads[i] \in ScanRow /\ reads[i].item = i
        BY <1>7, <1>9, <2>3, <2>4
    <2>6. PICK found : found = InOrder(queue) /\ list = [k \in DOMAIN found |-> reads[found[k]]]
        BY <2>2, <2>3
    <2>7. /\ list \in Seq(ScanRow) /\ Distinct(list)
          /\ \A row \in RowsOf(list) : \E i \in queue : row = reads[i]
        BY <2>5, <2>6, ReadRows, Z3T(60)
    <2> QED BY <2>3, <2>7
<1> HIDE DEF rows, read
<1>11. \A i \in S : message[i] \notin {"none", "gone"}
    <2> SUFFICES ASSUME NEW i \in S PROVE message'[i] \notin {"none", "gone"}
        BY <1>1
    <2>1. AnalysisOK(i)' /\ analysis'[i].status = "pending"
        BY <1>7, <1>8 DEF AnalysesInv
    <2> HIDE DEF S
    <2> QED BY <2>1 DEF AnalysisOK, NoAnalysis
<1> HIDE DEF S
<1>12. AttachmentsTypeOK'
    <2>1. scan' \in Seq([item: Items, attempts: 0..(MaxCalls - 1), cost: BOOLEAN])
        BY <1>10 DEF ScanRow
    <2> QED BY <1>1, <1>6, <2>1 DEF IInv, AttachmentsTypeOK, AnalysisRow, mediaVars
<1>13. AttachmentsInv' /\ BatchInv' /\ LandedInv' /\ FilesMatchRows'
    BY <1>1 DEF IInv, AttachmentsInv, AttachmentOK, BatchInv, LandedInv, RecordsTrue,
                FilesMatchRows, mediaVars
<1>14. ScanInv'
    <2>1. ~calling
        BY <1>1 DEF IInv, ScanInv
    <2>2. ASSUME NEW row \in RowsOf(scan')
          PROVE  /\ message'[row.item] # "none" /\ analysis'[row.item].status = "pending"
                 /\ analysis'[row.item].cost = row.cost
        <3>1. PICK i \in S : row = read[i]
            BY <1>10
        <3>2. row.item = i /\ row.cost = analysis'[i].cost
            BY <1>9, <3>1
        <3> QED BY <1>1, <1>7, <1>11, <3>2
    <2> QED BY <1>1, <1>10, <2>1, <2>2 DEF ScanInv
<1>15. SpendIsSeen'
    <2> SUFFICES ASSUME NEW i \in paid PROVE i \in Items /\ analysis'[i].cost /\ analysis'[i].recent
        BY <1>1 DEF SpendIsSeen, Recent
    <2>1. i \in Items /\ analysis[i].cost /\ analysis[i].recent
        BY DEF IInv, RecordsTrue, SpendIsSeen, Recent
    <2>2. i \notin queued
        BY <1>4, <2>1
    <2> QED BY <1>5, <2>1, <2>2
<1> QED BY <1>8, <1>12, <1>13, <1>14, <1>15 DEF IInv, RecordsTrue

\* The analysis pass is done with the head of its scan.
PopsScan ==
    /\ scan # <<>> /\ scan' = Tail(scan) /\ calling' = FALSE
    /\ UNCHANGED <<live, deleting, message, attachment, stage, mediaVars, turns>>

Settled(new) ==
    /\ new \in AnalysisRow /\ new.status # "none"
    /\ new.status = "pending" => new.attempts < MaxCalls

\* Whatever the provider answers, or fails to, the row is settled as it should
\* be, and what was charged is in it.
LEMMA AnalysesKeep ==
    ASSUME IInv,
           \/ SkippedFree
           \/ \E result \in {"done", "skipped", "error"}, billed \in BOOLEAN :
                Answered(result, billed)
           \/ \E written \in BOOLEAN : Unrecorded(written)
    PROVE  IInv'
<1>1. ASSUME scan # <<>>
      PROVE  /\ Head(scan) \in RowsOf(scan)
             /\ Head(scan) \in ScanRow
             /\ Head(scan).item \in Items
             /\ analysis[Head(scan).item] \in AnalysisRow
             /\ \/ message[Head(scan).item] = "gone"
                \/ /\ analysis[Head(scan).item].status = "pending"
                   /\ analysis[Head(scan).item].attempts < MaxCalls
                   /\ analysis[Head(scan).item].cost = Head(scan).cost
    <2>1. scan \in Seq(ScanRow) /\ Distinct(scan)
        BY DEF IInv, AttachmentsTypeOK, ScanRow, ScanInv
    <2>2. Head(scan) \in RowsOf(scan)
        BY <1>1, <2>1, TailRows, Zenon
    <2>3. Head(scan) \in ScanRow /\ Head(scan).item \in Items
        BY <2>2, ScanItems
    <2>4. analysis[Head(scan).item] \in AnalysisRow
        BY <2>3 DEF IInv, AttachmentsTypeOK, AnalysisRow
    <2> QED BY <2>2, <2>3, <2>4 DEF IInv, AnalysesInv, AnalysisOK, ScanInv
<1>2. PICK b, old : b = Head(scan).item /\ old = analysis[b]
    OBVIOUS
<1>3. \A i \in paid : i \in Items /\ analysis[i].cost /\ analysis[i].recent
    BY DEF IInv, RecordsTrue, SpendIsSeen, Recent
\* What any outcome of the head of the scan keeps.
<1>4. ASSUME PopsScan, NEW new, Settled(new), message[b] # "gone",
             analysis' = Updated(analysis, b, new),
             \A i \in paid' : i \in paid \/ i = b, b \in paid' => new.cost /\ new.recent
      PROVE  IInv'
    <2>1. \A i \in paid' : \/ i \in paid /\ i # Head(scan).item
                           \/ i \in paid /\ message[Head(scan).item] = "gone"
                           \/ /\ i = Head(scan).item /\ message[i] # "gone"
                              /\ new.cost /\ new.recent
        BY <1>2, <1>4, Zenon
    <2>2. analysis' = Updated(analysis, Head(scan).item, new)
        BY <1>2, <1>4
    <2> QED BY <1>4, <2>1, <2>2, ScanSettled, Zenon DEF PopsScan, Settled
\* The row that is not there is settled by any row.
<1>5. ASSUME PopsScan, message[b] = "gone", \A i \in paid' : i \in paid,
             NEW new, analysis' = Updated(analysis, b, new)
      PROVE  IInv'
    <2>1. PICK any : any = [status |-> "failed", attempts |-> 0, cost |-> TRUE, recent |-> TRUE]
        OBVIOUS
    <2>2. any \in AnalysisRow /\ any.status = "failed"
        BY <2>1, AttachmentsAssumption DEF AnalysisRow
    <2>3. any.status # "none" /\ any.status # "pending"
        BY <2>2
    <2>4. analysis' = Updated(analysis, Head(scan).item, any)
        BY <1>2, <1>5 DEF Updated
    <2>5. \A i \in paid' : \/ i \in paid /\ i # Head(scan).item
                           \/ i \in paid /\ message[Head(scan).item] = "gone"
                           \/ /\ i = Head(scan).item /\ message[i] # "gone"
                              /\ any.cost /\ any.recent
        BY <1>2, <1>5, Zenon
    <2> QED BY <1>5, <2>2, <2>3, <2>4, <2>5, ScanSettled, Zenon DEF PopsScan
<1>6. CASE SkippedFree
    <2>1. PICK new : new = [old EXCEPT !.status = "skipped", !.recent = TRUE]
        OBVIOUS
    <2>2. PopsScan
        <3>1. calling \in BOOLEAN
            BY DEF IInv, AttachmentsTypeOK
        <3> QED BY <1>6, <3>1 DEF SkippedFree, PopsScan
    <2>3. analysis' = Updated(analysis, b, new) /\ paid' = paid
        BY <1>2, <1>6, <2>1, Zenon DEF SkippedFree
    <2>4. old \in AnalysisRow
        BY <1>1, <1>2, <2>2 DEF PopsScan
    <2>5. \A r \in AnalysisRow : LET q == [r EXCEPT !.status = "skipped", !.recent = TRUE] IN
            q \in AnalysisRow /\ q.status = "skipped" /\ q.cost = r.cost /\ q.recent = TRUE
        BY DEF AnalysisRow
    <2>6. new \in AnalysisRow /\ new.status = "skipped" /\ new.cost = old.cost /\ new.recent
        BY <2>1, <2>4, <2>5, Zenon
    <2>7. Settled(new)
        BY <2>6 DEF Settled
    <2>8. b \in paid' => new.cost /\ new.recent
        BY <1>2, <1>3, <2>3, <2>6, Zenon
    <2> QED BY <1>4, <1>5, <2>2, <2>3, <2>7, <2>8, Zenon
<1>7. ASSUME NEW result \in {"done", "skipped", "error"}, NEW billed \in BOOLEAN,
             scan # <<>>, message[b] # "gone"
      PROVE  LET new == Outcome(Head(scan), result, billed) IN
                /\ Settled(new)
                /\ new.cost = (old.cost \/ billed)
                /\ (old.cost \/ billed) => new.recent
    <2>1. old \in AnalysisRow /\ old.cost = Head(scan).cost /\ Head(scan) \in ScanRow
        BY <1>1, <1>2, <1>7
    <2>2. PICK new : new = Outcome(Head(scan), result, billed)
        OBVIOUS
    <2>3. PICK cost \in BOOLEAN : cost = (old.cost \/ billed)
        OBVIOUS
    <2>4. CASE result # "error"
        <3>1. new = [old EXCEPT !.status = result, !.cost = cost, !.recent = TRUE]
            BY <1>2, <2>2, <2>3, <2>4, Zenon DEF Outcome
        <3>2. PICK s : s = result /\ s \in {"done", "skipped"}
            BY <2>4
        <3>3. \A r \in AnalysisRow, c \in BOOLEAN :
                LET q == [r EXCEPT !.status = s, !.cost = c, !.recent = TRUE] IN
                    q \in AnalysisRow /\ q.status = s /\ q.cost = c /\ q.recent = TRUE
            BY <3>2 DEF AnalysisRow
        <3>4. new \in AnalysisRow /\ new.status = s /\ new.cost = cost /\ new.recent = TRUE
            BY <2>1, <3>1, <3>2, <3>3, Zenon
        <3>5. Settled(new)
            BY <3>2, <3>4 DEF Settled
        <3> QED BY <2>2, <2>3, <3>4, <3>5, Zenon
    <2>5. CASE result = "error"
        <3>1. PICK n : n = Head(scan).attempts
            OBVIOUS
        <3>2. n \in 0..(MaxCalls - 1)
            BY <2>1, <3>1 DEF ScanRow
        <3>3. PICK recent \in BOOLEAN : recent = Stamped(Head(scan), n + 1 >= MaxCalls, billed)
            BY <2>1 DEF Stamped, ScanRow
        <3>4. new = [status |-> IF n + 1 >= MaxCalls THEN "failed" ELSE "pending",
                     attempts |-> n + 1, cost |-> cost, recent |-> recent]
            BY <1>2, <2>2, <2>3, <2>5, <3>1, <3>3, Zenon DEF Outcome
        <3>5. old.cost \/ billed => recent
            BY <2>1, <3>3, Zenon DEF Stamped
        <3>6. \A s \in {"failed", "pending"}, k \in 0..MaxCalls, c \in BOOLEAN, w \in BOOLEAN :
                LET q == [status |-> s, attempts |-> k, cost |-> c, recent |-> w] IN
                    /\ q \in AnalysisRow /\ q.status = s /\ q.attempts = k
                    /\ q.cost = c /\ q.recent = w
            BY DEF AnalysisRow
        <3>7. PICK s \in {"failed", "pending"} :
                /\ s = IF n + 1 >= MaxCalls THEN "failed" ELSE "pending"
                /\ s = "pending" => n + 1 < MaxCalls
            BY <3>2, AttachmentsAssumption
        <3>8. n + 1 \in 0..MaxCalls
            BY <3>2, AttachmentsAssumption
        <3>9. /\ new \in AnalysisRow /\ new.status = s /\ new.attempts = n + 1
              /\ new.cost = cost /\ new.recent = recent
            BY <3>4, <3>6, <3>7, <3>8, Zenon
        <3>10. Settled(new)
            BY <3>7, <3>9 DEF Settled
        <3> QED BY <2>2, <2>3, <3>5, <3>9, <3>10, Zenon
    <2> QED BY <2>4, <2>5
<1>8. ASSUME NEW result \in {"done", "skipped", "error"}, NEW billed \in BOOLEAN,
             Answered(result, billed)
      PROVE  IInv'
    <2>1. PICK new : new = Outcome(Head(scan), result, billed)
        OBVIOUS
    <2>2. PopsScan
        BY <1>8 DEF Answered, PopsScan, IInv, ScanInv
    <2>3. /\ analysis' = Updated(analysis, b, new)
          /\ paid' = IF billed /\ message[b] # "gone" THEN paid \cup {b} ELSE paid
        BY <1>2, <1>8, <2>1, Zenon DEF Answered
    <2>4. CASE message[b] = "gone"
        <3>1. \A i \in paid' : i \in paid
            BY <2>3, <2>4
        <3> QED BY <1>5, <2>2, <2>3, <2>4, <3>1, Zenon
    <2>5. CASE message[b] # "gone"
        <3>1. Settled(new) /\ new.cost = (old.cost \/ billed) /\
                  ((old.cost \/ billed) => new.recent)
            BY <1>7, <2>1, <2>2, <2>5, Zenon DEF PopsScan
        <3>2. \A i \in paid' : i \in paid \/ (billed /\ i = b)
            <4>1. (billed /\ paid' = paid \cup {b}) \/ paid' = paid
                BY <2>3, Zenon
            <4> QED BY <4>1
        <3>3. b \in paid' => new.cost /\ new.recent
            BY <1>2, <1>3, <3>1, <3>2, Zenon
        <3>4. \A i \in paid' : i \in paid \/ i = b
            BY <3>2
        <3> QED BY <1>4, <2>2, <2>3, <2>5, <3>1, <3>3, <3>4, Zenon
    <2> QED BY <2>4, <2>5
<1>9. ASSUME NEW written \in BOOLEAN, Unrecorded(written) PROVE IInv'
    <2>1. PopsScan /\ paid' = paid
        BY <1>9 DEF Unrecorded, PopsScan
    <2>2. CASE written
        <3>1. PICK new : new = Outcome(Head(scan), "error", FALSE)
            OBVIOUS
        <3>2. analysis' = Updated(analysis, b, new)
            BY <1>2, <1>9, <2>2, <3>1, Zenon DEF Unrecorded
        <3>3. ASSUME message[b] # "gone"
              PROVE  Settled(new) /\ (b \in paid' => new.cost /\ new.recent)
            <4>1. /\ Settled(new) /\ new.cost = (old.cost \/ FALSE)
                  /\ (old.cost \/ FALSE) => new.recent
                BY <1>7, <2>1, <3>1, <3>3, Zenon DEF PopsScan
            <4> QED BY <1>2, <1>3, <2>1, <4>1, Zenon
        <3> QED BY <1>4, <1>5, <2>1, <3>2, <3>3, Zenon
    <2>3. CASE ~written
        <3>1. analysis' = analysis
            BY <1>9, <2>3, Zenon DEF Unrecorded
        <3>2. analysis' = Updated(analysis, b, old)
            BY <1>1, <1>2, <2>1, <3>1 DEF PopsScan, Updated, IInv, AttachmentsTypeOK
        <3>3. ASSUME message[b] # "gone"
              PROVE  Settled(old) /\ (b \in paid' => old.cost /\ old.recent)
            BY <1>1, <1>2, <1>3, <2>1, <3>3 DEF PopsScan, Settled
        <3> QED BY <1>4, <1>5, <2>1, <3>2, <3>3, Zenon
    <2> QED BY <2>2, <2>3
<1> QED BY <1>6, <1>8, <1>9

-----------------------------------------------------------------------------
(* The theorems.                                                           *)

\* Nothing has arrived at the start.
LEMMA InitHolds == AttachmentsInit => IInv
<1> SUFFICES ASSUME AttachmentsInit PROVE IInv
    OBVIOUS
<1> USE AttachmentsAssumption DEF AttachmentsInit
<1>1. RowsOf(<<>>) = {} /\ Distinct(<<>>)
    BY DEF RowsOf, Distinct
<1>2. AttachmentsTypeOK
    <2>1. attachment \in [Items -> AttachmentRow]
        BY DEF NoAttachment, AttachmentRow
    <2>2. analysis \in [Items -> AnalysisRow]
        BY DEF NoAnalysis, AnalysisRow
    <2>3. landed \in BOOLEAN /\ calling \in BOOLEAN
        OBVIOUS
    <2>4. /\ live = {} /\ deleting = {} /\ message = [i \in Items |-> "none"]
          /\ disk = {} /\ unlinked = {} /\ paid = {} /\ stage = "rest"
          /\ batch = <<>> /\ scan = <<>> /\ turns = {}
        OBVIOUS
    <2> HIDE DEF AttachmentsInit
    <2> QED BY <2>1, <2>2, <2>3, <2>4 DEF AttachmentsTypeOK, AttachmentRow, AnalysisRow
<1>3. AttachmentsInv /\ AnalysesInv
    BY DEF AttachmentsInv, AttachmentOK, AnalysesInv, AnalysisOK, NoAttachment, NoAnalysis
<1>4. BatchInv /\ LandedInv /\ ScanInv
    BY <1>1 DEF BatchInv, LandedInv, ScanInv
<1>5. RecordsTrue
    BY DEF RecordsTrue, FilesMatchRows, SpendIsSeen, NoAttachment
<1> QED BY <1>2, <1>3, <1>4, <1>5 DEF IInv

\* A step that changes nothing keeps everything.
LEMMA StutterKeeps == IInv /\ UNCHANGED attachmentsVars => IInv'
BY DEF IInv, AttachmentsTypeOK, AttachmentsInv, AttachmentOK, AnalysesInv, AnalysisOK, BatchInv,
       LandedInv, ScanInv, RecordsTrue, FilesMatchRows, SpendIsSeen, Recent,
       attachmentsVars, mediaVars, analysisVars

\* The rows, the lists the drains hold and the files agree, whatever happens
\* while a drain awaits.
THEOREM AttachmentsInductive == AttachmentsSpec => []IInv
<1>1. IInv /\ [AttachmentsNext]_attachmentsVars => IInv'
    <2> SUFFICES ASSUME IInv, [AttachmentsNext]_attachmentsVars PROVE IInv'
        OBVIOUS
    <2>1. CASE AttachmentsNext
        <3>1. CASE MediaStep
            BY <3>1, DrainMediaKeeps, FileLandsKeeps, DownloadsKeep, LoopSteps DEF MediaStep
        <3>2. CASE AnalysisStep
            BY <3>2, LoopSteps, MediumBeginsKeeps, AnalysesKeep DEF AnalysisStep
        <3>3. CASE DayPasses \/ Crash
            BY <3>3, DayPassesKeeps, SessionsKeep
        <3>4. CASE \E i \in Items : Arrives(i) \/ MessageDeleted(i)
            BY <3>4, ArrivesKeeps, MessageDeletedKeeps
        <3>5. CASE \E c \in Conns : \/ SessionOpens(c) \/ SessionCloses(c)
                                    \/ DeleteUnlinks(c) \/ DeleteDrops(c)
            BY <3>5, SessionsKeep, DeleteUnlinksKeeps, DeleteDropsKeeps
        <3> QED BY <2>1, <3>1, <3>2, <3>3, <3>4, <3>5 DEF AttachmentsNext, WorkerStep
    <2>2. CASE UNCHANGED attachmentsVars
        BY <2>2, StutterKeeps
    <2> QED BY <2>1, <2>2
<1> QED BY <1>1, InitHolds, PTL DEF AttachmentsSpec

\* Every variable keeps its type.
THEOREM AttachmentsTyped == AttachmentsSpec => []AttachmentsTypeOK
<1>1. IInv => AttachmentsTypeOK
    BY DEF IInv
<1> QED BY <1>1, AttachmentsInductive, PTL

\* A row that is done has its file until a deletion removes it, and what a day
\* was charged is counted against its limit.
THEOREM RecordsStayTrue == AttachmentsSpec => []RecordsTrue
<1>1. IInv => RecordsTrue
    BY DEF IInv
<1> QED BY <1>1, AttachmentsInductive, PTL
=============================================================================
