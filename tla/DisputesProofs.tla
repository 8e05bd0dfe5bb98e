---------------------------- MODULE DisputesProofs ----------------------------
(***************************************************************************)
(* Proofs about Disputes, for every set of messages, keys and texts, every *)
(* budget and any number of batches: the properties that the run           *)
(* `disputes' checks on a small instance, and the refinement of            *)
(* MessageLife.                                                            *)
(***************************************************************************)
EXTENDS Disputes, FiniteSetTheorems, TLAPS

\* A message is stored under the number of the batch that brought it, and one
\* that is not stored has left nothing.
RowsReal(s) ==
    \A m \in Messages :
        IF s.messages[m].state = "absent" THEN s.messages[m] = NoRow
        ELSE s.messages[m].id \in 1..batches

\* What is true of a store at every statement.
Good(s) ==
    /\ s \in Store
    /\ IsFiniteSet(s.disputes)
    /\ RowsReal(s)
    /\ DisputesReal(s)

\* Nothing in it is of a purged key, but for tombstones.
Clean(s) ==
    \A k \in purged :
        /\ \A m \in Messages : s.messages[m].state = "live" => s.messages[m].by # k
        /\ \A c \in s.disputes : c.key # k

\* A row, as it was and as it is.  As long as it has its id, its revision does
\* not fall; as long as it has its revision too, it has its text.
KeepsRow(p, r) ==
    r.id = p.id =>
        /\ p.revision <= r.revision
        /\ r.revision = p.revision /\ r.state = "live" =>
            r.text = p.text /\ r.edited = p.edited /\ r.by = p.by

\* The page's row, in the store and in the one a batch is making.
PageInv ==
    page # None =>
        /\ page.message \in Messages /\ page.row \in Row
        /\ page.row.state = "live" /\ page.row.id \in 1..batches
        /\ KeepsRow(page.row, store.messages[page.message])
        /\ tx # None =>
            page.row.id < batches /\ KeepsRow(page.row, tx.store.messages[page.message])

\* What a batch has made of a message, since it began.
BatchRow(old, new) ==
    \/ old.state = "absent"
    \/ old.state = "live" /\ new.state = "deleted" /\ ~new.conflicted
    \/ /\ old.state = "live" /\ new.state = "live"
       /\ \/ /\ new.text = old.text /\ new.edited = old.edited
             /\ old.conflicted => new.conflicted
          \/ new.edited > old.edited
    \/ /\ old.state = "deleted" /\ new.state = "deleted"
       /\ new.text = old.text /\ new.edited = old.edited /\ new.conflicted = old.conflicted

\* The transaction: its key has not been revoked, its count of the candidates
\* is never too low, and the store it began from has stood since.
TxInv ==
    tx # None =>
        /\ tx.key \notin revoked
        /\ Good(tx.store) /\ Clean(tx.store)
        /\ Cardinality(tx.store.disputes) <= tx.budget
        /\ \A m \in Messages : store.messages[m].id < batches
        /\ \A m \in Messages :
            /\ BatchRow(store.messages[m], tx.store.messages[m])
            /\ KeepsRow(store.messages[m], tx.store.messages[m])

IInv == TypeOK /\ Good(store) /\ Clean(store) /\ TxInv /\ PageInv

-----------------------------------------------------------------------------
(* What the statements of a batch do to a store.                           *)

\* One entry of a batch leaves a row alone, or does one of four things to it.
RowStep(r, q) ==
    \/ q = r
    \/ /\ r.state = "absent" /\ q.state = "live"
       /\ q.id = batches /\ q.by = tx.key
    \/ /\ r.state = "live" /\ q.state = "live" /\ q.conflicted
       /\ q.id = r.id /\ q.revision = r.revision
       /\ q.text = r.text /\ q.edited = r.edited /\ q.by = r.by
    \/ /\ r.state = "live" /\ q.state = "live"
       /\ q.id = r.id /\ q.revision = r.revision + 1
       /\ q.edited > r.edited /\ q.by = r.by
    \/ /\ r.state = "live" /\ q.state = "deleted" /\ ~q.conflicted
       /\ q.id = r.id /\ q.revision = r.revision + 1

\* And adds no candidate but of the key that pushes.
EntryStep(s, t) ==
    /\ \A m \in Messages : RowStep(s.messages[m], t.messages[m])
    /\ \A c \in t.disputes : c.key = tx.key \/ \E d \in s.disputes : d.key = c.key

\* A row of a good store.
LEMMA GoodRow ==
    ASSUME NEW s, Good(s), NEW m \in Messages
    PROVE  /\ s.messages[m] \in Row
           /\ s.messages[m].state # "absent" => s.messages[m].id \in 1..batches
           /\ s.messages[m].conflicted => s.messages[m].state = "live"
  <1>1. s.messages[m] \in Row BY DEF Good, Store
  <1>2. s.messages[m].state # "absent" => s.messages[m].id \in 1..batches
    BY DEF Good, RowsReal
  <1>3. s.messages[m].conflicted => s.messages[m].state = "live" BY DEF Good, DisputesReal
  <1>4. QED BY <1>1, <1>2, <1>3

\* Whoever settles a row takes its candidates away with it.
LEMMA SettledGood ==
    ASSUME NEW s, Good(s), NEW m \in Messages, s.messages[m].state # "absent",
           NEW row \in Row, ~row.conflicted, row.state # "absent", row.id = s.messages[m].id
    PROVE  /\ Good(Settled(s, m, row))
           /\ Settled(s, m, row).messages = [s.messages EXCEPT ![m] = row]
           /\ Settled(s, m, row).disputes \subseteq s.disputes
           /\ Cardinality(Settled(s, m, row).disputes) <= Cardinality(s.disputes)
           /\ Cardinality(Settled(s, m, row).disputes) \in Nat
  <1> DEFINE t == Settled(s, m, row)
  <1>1. /\ t.messages = [s.messages EXCEPT ![m] = row]
        /\ t.disputes = {c \in s.disputes : c.message # m}
        /\ t.source = s.source
    BY DEF Settled, Good, Store
  <1>2. t \in Store BY <1>1 DEF Settled, Good, Store
  <1>3. /\ IsFiniteSet(t.disputes) /\ Cardinality(t.disputes) <= Cardinality(s.disputes)
        /\ Cardinality(t.disputes) \in Nat
    <2>1. IsFiniteSet(s.disputes) BY DEF Good
    <2>2. t.disputes \subseteq s.disputes BY <1>1
    <2>3. QED BY <2>1, <2>2, FS_Subset, FS_CardinalityType
  <1>4. RowsReal(t) BY <1>1, GoodRow DEF Good, RowsReal, Store
  <1>5. DisputesReal(t) BY <1>1 DEF Good, DisputesReal, Store
  <1>6. QED BY <1>1, <1>2, <1>3, <1>4, <1>5 DEF Good

\* A message that is stored for the first time.
LEMMA InsertedGood ==
    ASSUME NEW s, Good(s), NEW m \in Messages, s.messages[m].state = "absent",
           NEW k \in Keys, NEW text \in Texts, NEW at \in Stamps, batches \in Nat \ {0}
    PROVE  /\ Good(Inserted(s, m, k, text, at))
           /\ Inserted(s, m, k, text, at).disputes = s.disputes
           /\ k = tx.key => EntryStep(s, Inserted(s, m, k, text, at))
  <1> DEFINE t == Inserted(s, m, k, text, at)
             row == [id |-> batches, state |-> "live", text |-> text, edited |-> at,
                     conflicted |-> FALSE, revision |-> 0, by |-> k]
  <1>1. row \in Row /\ ~row.conflicted BY DEF Row
  <1> row.state = "live" /\ row.id = batches /\ row.by = k OBVIOUS
  <1>2. t = [s EXCEPT !.messages[m] = row] BY DEF Inserted
  <1> HIDE DEF row, t
  <1>3. t.messages = [s.messages EXCEPT ![m] = row] /\ t.disputes = s.disputes /\ t \in Store
    BY <1>1, <1>2 DEF Good, Store
  <1>4. RowsReal(t) BY <1>3 DEF Good, RowsReal, Store
  <1>5. ~\E c \in s.disputes : c.message = m BY DEF Good, DisputesReal
  <1>6. DisputesReal(t) BY <1>1, <1>3, <1>5 DEF Good, DisputesReal, Store
  <1>7. k = tx.key => EntryStep(s, t)
    BY <1>3 DEF EntryStep, RowStep, Good, Store
  <1>8. QED BY <1>3, <1>4, <1>6, <1>7 DEF t, Good

\* An edit that is newer than what is stored.
LEMMA EditedGood ==
    ASSUME NEW s, Good(s), NEW m \in Messages, NEW text \in Texts, NEW at \in Stamps,
           EditApplies(s.messages[m], at)
    PROVE  /\ Good(PushedEdit(s, m, text, at))
           /\ EntryStep(s, PushedEdit(s, m, text, at))
           /\ Cardinality(PushedEdit(s, m, text, at).disputes) <= Cardinality(s.disputes)
           /\ Cardinality(PushedEdit(s, m, text, at).disputes) \in Nat
  <1> DEFINE old == s.messages[m]
             row == [old EXCEPT !.text = text, !.edited = at, !.conflicted = FALSE,
                                !.revision = @ + 1]
  <1>1. old \in Row /\ old.state = "live" /\ old.edited < at BY GoodRow DEF EditApplies
  <1>2. /\ row \in Row /\ row.state = "live" /\ row.id = old.id /\ row.by = old.by
        /\ row.revision = old.revision + 1 /\ row.edited = at
    <2>1. old.revision + 1 \in Nat BY <1>1 DEF Row
    <2>2. \A n \in Nat :
            LET q == [old EXCEPT !.text = text, !.edited = at, !.conflicted = FALSE,
                                 !.revision = n]
            IN /\ q \in Row /\ q.state = "live" /\ q.id = old.id /\ q.by = old.by
               /\ q.revision = n /\ q.edited = at
      BY <1>1 DEF Row
    <2>3. QED BY <2>1, <2>2
  <1>3. ~row.conflicted BY <1>1 DEF Row
  <1>4. PushedEdit(s, m, text, at) = Settled(s, m, row) BY DEF PushedEdit
  <1> HIDE DEF row
  <1>5. /\ Good(Settled(s, m, row))
        /\ Settled(s, m, row).messages = [s.messages EXCEPT ![m] = row]
        /\ Settled(s, m, row).disputes \subseteq s.disputes
        /\ Cardinality(Settled(s, m, row).disputes) <= Cardinality(s.disputes)
        /\ Cardinality(Settled(s, m, row).disputes) \in Nat
    BY <1>1, <1>2, <1>3, SettledGood
  <1>6. RowStep(old, row) BY <1>1, <1>2 DEF RowStep
  <1>7. EntryStep(s, Settled(s, m, row))
    <2>1. s.messages \in [Messages -> Row] BY DEF Good, Store
    <2>2. \A n \in Messages : RowStep(s.messages[n], Settled(s, m, row).messages[n])
      BY <1>5, <1>6, <2>1 DEF RowStep
    <2>3. QED BY <1>5, <2>2 DEF EntryStep
  <1>8. QED BY <1>4, <1>5, <1>7

\* A delete leaves a tombstone.
LEMMA TombstoneGood ==
    ASSUME NEW s, Good(s), NEW m \in Messages, s.messages[m].state = "live"
    PROVE  /\ Good(Tombstone(s, m))
           /\ EntryStep(s, Tombstone(s, m))
           /\ Cardinality(Tombstone(s, m).disputes) <= Cardinality(s.disputes)
           /\ Cardinality(Tombstone(s, m).disputes) \in Nat
  <1> DEFINE old == s.messages[m]
             row == [old EXCEPT !.state = "deleted", !.conflicted = FALSE, !.revision = @ + 1]
  <1>1. old \in Row /\ old.state = "live" BY GoodRow
  <1>2. /\ row \in Row /\ row.state = "deleted" /\ row.id = old.id
        /\ row.revision = old.revision + 1
    <2>1. old.revision + 1 \in Nat BY <1>1 DEF Row
    <2>2. \A n \in Nat :
            LET q == [old EXCEPT !.state = "deleted", !.conflicted = FALSE, !.revision = n]
            IN q \in Row /\ q.state = "deleted" /\ q.id = old.id /\ q.revision = n
      BY <1>1 DEF Row
    <2>3. QED BY <2>1, <2>2
  <1>3. ~row.conflicted BY <1>1 DEF Row
  <1>4. Tombstone(s, m) = Settled(s, m, row) BY DEF Tombstone
  <1> HIDE DEF row
  <1>5. /\ Good(Settled(s, m, row))
        /\ Settled(s, m, row).messages = [s.messages EXCEPT ![m] = row]
        /\ Settled(s, m, row).disputes \subseteq s.disputes
        /\ Cardinality(Settled(s, m, row).disputes) <= Cardinality(s.disputes)
        /\ Cardinality(Settled(s, m, row).disputes) \in Nat
    BY <1>1, <1>2, <1>3, SettledGood
  <1>6. RowStep(old, row) BY <1>1, <1>2, <1>3 DEF RowStep
  <1>7. EntryStep(s, Settled(s, m, row))
    <2>1. s.messages \in [Messages -> Row] BY DEF Good, Store
    <2>2. \A n \in Messages : RowStep(s.messages[n], Settled(s, m, row).messages[n])
      BY <1>5, <1>6, <2>1 DEF RowStep
    <2>3. QED BY <1>5, <2>2 DEF EntryStep
  <1>8. QED BY <1>4, <1>5, <1>7

\* A candidate of the pushing key, at the row's revision and with another text.
LEMMA FlaggedGood ==
    ASSUME NEW s, Good(s), NEW m \in Messages, s.messages[m].state = "live",
           NEW D \in SUBSET Candidate, IsFiniteSet(D),
           NEW c \in D, c.message = m, c.key = tx.key,
           c.revision = s.messages[m].revision, c.text # s.messages[m].text,
           \A d \in D : d = c \/ d \in s.disputes,
           \A d \in s.disputes : d \in D \/ d.message = m
    PROVE  /\ Good(Flagged(s, m, D))
           /\ Flagged(s, m, D).disputes = D
           /\ EntryStep(s, Flagged(s, m, D))
  <1> DEFINE t == Flagged(s, m, D)
             row == [s.messages[m] EXCEPT !.conflicted = TRUE]
  <1>1. s.messages \in [Messages -> Row] /\ s.messages[m] \in Row BY DEF Good, Store
  <1>2. /\ row \in Row /\ row.state = "live" /\ row.id = s.messages[m].id
        /\ row.by = s.messages[m].by /\ row.revision = s.messages[m].revision
        /\ row.text = s.messages[m].text /\ row.edited = s.messages[m].edited
    BY <1>1 DEF Row
  <1>3. row.conflicted BY <1>1 DEF Row
  <1>4. t = [s EXCEPT !.messages = [s.messages EXCEPT ![m] = row], !.disputes = D]
    BY <1>1, Zenon DEF Flagged, Good, Store
  <1> HIDE DEF row, t
  <1>5. t.messages = [s.messages EXCEPT ![m] = row] /\ t.disputes = D /\ t \in Store
    BY <1>1, <1>2, <1>4 DEF Good, Store
  <1>6. RowsReal(t) BY <1>1, <1>2, <1>5, GoodRow DEF Good, RowsReal
  <1>7. DisputesReal(t)
    <2>1. \A n \in Messages : t.messages[n].conflicted <=> \E d \in D : d.message = n
      BY <1>1, <1>3, <1>5 DEF Good, DisputesReal
    <2>2. ASSUME NEW d \in D
          PROVE  /\ t.messages[d.message].state = "live"
                 /\ t.messages[d.message].revision = d.revision
                 /\ t.messages[d.message].text # d.text
      <3>1. CASE d = c BY <1>1, <1>2, <1>5, <3>1
      <3>2. CASE d \in s.disputes
        BY <1>1, <1>2, <1>5, <3>2 DEF Good, DisputesReal, Candidate
      <3>3. QED BY <3>1, <3>2
    <2>3. QED BY <1>5, <2>1, <2>2 DEF DisputesReal
  <1>8. RowStep(s.messages[m], row) BY <1>1, <1>2, <1>3 DEF RowStep
  <1>9. \A n \in Messages : RowStep(s.messages[n], t.messages[n])
    BY <1>1, <1>5, <1>8 DEF RowStep
  <1>10. QED BY <1>5, <1>6, <1>7, <1>9 DEF t, Good, EntryStep

\* The transaction after an entry that left store t and budget b.
TxBecomes(t, b) ==
    /\ tx' \in [key: Keys, items: Nat, deleting: BOOLEAN, budget: Nat, store: Store]
    /\ tx'.key = tx.key /\ tx'.store = t /\ tx'.budget = b
    /\ UNCHANGED <<store, admitted, revoked, purged, page, preview, batches>>

\* An entry of any kind.
LEMMA TxAfterItem ==
    ASSUME TypeOK, tx # None, NEW t \in Store, NEW b \in Nat, NEW d \in BOOLEAN, Item(t, b, d)
    PROVE  TxBecomes(t, b)
  <1>1. tx \in [key: Keys, items: Nat, deleting: BOOLEAN, budget: Nat, store: Store]
    BY DEF TypeOK
  <1>2. tx.items + 1 \in Nat BY <1>1
  <1>3. QED BY <1>1, <1>2 DEF Item, TxBecomes

\* An entry that is a message.
LEMMA TxAfterMessage ==
    ASSUME TypeOK, tx # None, NEW t \in Store, NEW b \in Nat, MessageItem(t, b)
    PROVE  TxBecomes(t, b)
  <1>1. \E d \in BOOLEAN : Item(t, b, d) BY Zenon DEF MessageItem
  <1>2. QED BY <1>1, TxAfterItem

\* What the batch has made of a message, and one entry more.
LEMMA BatchRowStep ==
    ASSUME NEW old \in Row, NEW r \in Row, NEW q \in Row, BatchRow(old, r), RowStep(r, q)
    PROVE  BatchRow(old, q)
  <1>1. old.edited \in Int /\ r.edited \in Int /\ q.edited \in Int
    BY DisputesAssumption DEF Row, Stamps
  <1>2. CASE q = r BY <1>2
  <1>3. CASE old.state = "absent" BY <1>3 DEF BatchRow
  <1>4. CASE old.state = "deleted" BY <1>4 DEF BatchRow, RowStep
  <1>5. CASE old.state = "live" /\ q # r BY <1>1, <1>5 DEF BatchRow, RowStep
  <1>6. QED BY <1>2, <1>3, <1>4, <1>5 DEF Row

\* An entry does not bring a row back to what it was before.
LEMMA KeepsRowStep ==
    ASSUME NEW p \in Row, NEW r \in Row, NEW q \in Row, RowStep(r, q), KeepsRow(p, r),
           p.id < batches, batches \in Nat
    PROVE  KeepsRow(p, q)
  <1>1. p.revision \in Nat /\ r.revision \in Nat /\ q.revision \in Nat /\ p.id \in Nat
    BY DEF Row
  <1>2. CASE q = r BY <1>2
  <1>3. CASE q.id = batches BY <1>1, <1>3 DEF KeepsRow
  <1>4. CASE q.id = r.id /\ q.revision = r.revision /\ r.state = "live"
          /\ q.text = r.text /\ q.edited = r.edited /\ q.by = r.by
    BY <1>4 DEF KeepsRow
  <1>5. CASE q.id = r.id /\ q.revision = r.revision + 1
    <2>1. SUFFICES ASSUME q.id = p.id
                   PROVE  p.revision <= q.revision /\ q.revision # p.revision
      BY <2>1 DEF KeepsRow
    <2>2. p.revision <= r.revision BY <1>5, <2>1 DEF KeepsRow
    <2>3. QED BY <1>1, <1>5, <2>2
  <1>6. QED BY <1>2, <1>3, <1>4, <1>5 DEF RowStep

\* Every entry of a batch keeps the invariant.
LEMMA EntryKeeps ==
    ASSUME IInv, tx # None, NEW t, NEW b \in Nat, Good(t), EntryStep(tx.store, t),
           Cardinality(t.disputes) <= b, Cardinality(t.disputes) <= MaxPending,
           TxBecomes(t, b)
    PROVE  IInv'
  <1>1. /\ UNCHANGED <<store, admitted, revoked, purged, page, preview, batches>>
        /\ tx'.key = tx.key /\ tx'.store = t /\ tx'.budget = b
        /\ tx' \in [key: Keys, items: Nat, deleting: BOOLEAN, budget: Nat, store: Store]
    BY DEF TxBecomes
  <1>2. TypeOK' BY <1>1 DEF IInv, TypeOK
  <1>3. Good(store)' /\ Clean(store)' /\ Good(t)'
    BY <1>1 DEF IInv, Good, Clean, RowsReal
  <1>4. Good(tx.store)' BY <1>1, <1>3
  <1>5. tx.key \notin purged /\ purged \subseteq Keys BY DEF IInv, TypeOK, TxInv
  <1>6. Clean(t)
    <2>1. ASSUME NEW k \in purged, NEW m \in Messages, t.messages[m].state = "live"
          PROVE  t.messages[m].by # k
      <3>1. RowStep(tx.store.messages[m], t.messages[m]) BY DEF EntryStep
      <3>2. tx.store.messages[m].state = "live" => tx.store.messages[m].by # k
        BY DEF IInv, TxInv, Clean
      <3>3. QED BY <1>5, <2>1, <3>1, <3>2 DEF RowStep
    <2>2. ASSUME NEW k \in purged, NEW c \in t.disputes PROVE c.key # k
      BY <1>5 DEF EntryStep, IInv, TxInv, Clean
    <2>3. QED BY <2>1, <2>2 DEF Clean
  <1>7. Clean(tx.store)' BY <1>1, <1>6 DEF Clean
  <1>8. ASSUME NEW m \in Messages
        PROVE  /\ BatchRow(store.messages[m], t.messages[m])
               /\ KeepsRow(store.messages[m], t.messages[m])
    <2>1. /\ store.messages[m] \in Row /\ tx.store.messages[m] \in Row
          /\ t.messages[m] \in Row
      BY GoodRow DEF IInv, TxInv
    <2>2. /\ BatchRow(store.messages[m], tx.store.messages[m])
          /\ KeepsRow(store.messages[m], tx.store.messages[m])
          /\ RowStep(tx.store.messages[m], t.messages[m])
          /\ store.messages[m].id < batches /\ batches \in Nat
      BY DEF IInv, TxInv, EntryStep, TypeOK
    <2>3. QED BY <2>1, <2>2, BatchRowStep, KeepsRowStep
  <1>9. TxInv' BY <1>1, <1>4, <1>7, <1>8 DEF IInv, TxInv
  <1>10. PageInv'
    <2>1. SUFFICES ASSUME page # None
                   PROVE  KeepsRow(page.row, t.messages[page.message])
      BY <1>1 DEF IInv, PageInv
    <2>2. /\ page.message \in Messages /\ page.row \in Row /\ page.row.id < batches
          /\ KeepsRow(page.row, tx.store.messages[page.message])
      BY <2>1 DEF IInv, PageInv
    <2>3. batches \in Nat /\ Good(tx.store) BY DEF IInv, TypeOK, TxInv
    <2>4. RowStep(tx.store.messages[page.message], t.messages[page.message])
      BY <2>2 DEF EntryStep
    <2>5. QED BY <2>2, <2>3, <2>4, GoodRow, KeepsRowStep
  <1>11. QED BY <1>2, <1>3, <1>9, <1>10 DEF IInv

-----------------------------------------------------------------------------
(* The entries of a batch.                                                 *)

\* What an entry finds.
LEMMA EntryFinds ==
    ASSUME IInv, tx # None, NEW m \in Messages
    PROVE  /\ TypeOK /\ Good(tx.store) /\ tx.store \in Store /\ tx.key \in Keys
           /\ tx.budget \in Nat /\ batches \in Nat \ {0} /\ tx.store.messages[m] \in Row
           /\ IsFiniteSet(tx.store.disputes) /\ Cardinality(tx.store.disputes) \in Nat
           /\ Cardinality(tx.store.disputes) <= tx.budget
           /\ Cardinality(tx.store.disputes) <= MaxPending
  <1>1. TypeOK /\ Good(tx.store) BY DEF IInv, TxInv
  <1>2. tx \in [key: Keys, items: Nat, deleting: BOOLEAN, budget: Nat, store: Store]
    BY <1>1 DEF TypeOK
  <1>3. batches \in Nat \ {0}
    <2>1. store.messages[m].id \in Nat BY DEF IInv, TypeOK, Store, Row
    <2>2. batches \in Nat /\ store.messages[m].id < batches BY DEF IInv, TypeOK, TxInv
    <2>3. QED BY <2>1, <2>2
  <1>4. IsFiniteSet(tx.store.disputes) /\ Cardinality(tx.store.disputes) \in Nat
    BY <1>1, FS_CardinalityType DEF Good
  <1>5. /\ Cardinality(tx.store.disputes) <= tx.budget
        /\ Cardinality(tx.store.disputes) <= MaxPending
    BY DEF IInv, TypeOK, TxInv
  <1>6. QED BY <1>1, <1>2, <1>3, <1>4, <1>5, GoodRow

\* A message not stored yet: no candidate is touched.
LEMMA NewKeeps ==
    ASSUME IInv, NEW m \in Messages, NEW text \in Texts, NEW at \in Stamps,
           ImportNew(m, text, at)
    PROVE  IInv'
  <1>1. /\ tx # None /\ tx.store.messages[m].state = "absent"
        /\ MessageItem(Inserted(tx.store, m, tx.key, text, at), tx.budget)
    BY DEF ImportNew
  <1> DEFINE t == Inserted(tx.store, m, tx.key, text, at)
  <1>2. Good(t) /\ t.disputes = tx.store.disputes /\ EntryStep(tx.store, t)
    BY <1>1, EntryFinds, InsertedGood
  <1>3. TxBecomes(t, tx.budget) BY <1>1, <1>2, EntryFinds, TxAfterMessage DEF Good
  <1> HIDE DEF t
  <1>4. QED BY <1>1, <1>2, <1>3, EntryFinds, EntryKeeps

\* An entry that changes nothing.
LEMMA DuplicateKeeps ==
    ASSUME IInv, NEW m \in Messages, NEW text \in Texts, NEW at \in Stamps,
           ImportDuplicate(m, text, at)
    PROVE  IInv'
  <1>1. tx # None /\ MessageItem(tx.store, tx.budget) BY DEF ImportDuplicate
  <1>2. TxBecomes(tx.store, tx.budget) BY <1>1, EntryFinds, TxAfterMessage
  <1>3. EntryStep(tx.store, tx.store) BY DEF EntryStep, RowStep
  <1>4. QED BY <1>1, <1>2, <1>3, EntryFinds, EntryKeeps

\* A newer edit clears the candidates of its message.
LEMMA EditKeeps ==
    ASSUME IInv, NEW m \in Messages, NEW text \in Texts, NEW at \in Stamps,
           ImportEdit(m, text, at)
    PROVE  IInv'
  <1>1. /\ tx # None /\ EditApplies(tx.store.messages[m], at)
        /\ MessageItem(PushedEdit(tx.store, m, text, at), tx.budget)
    BY DEF ImportEdit
  <1> DEFINE t == PushedEdit(tx.store, m, text, at)
  <1>2. /\ Good(t) /\ EntryStep(tx.store, t) /\ Cardinality(t.disputes) \in Nat
        /\ Cardinality(t.disputes) <= Cardinality(tx.store.disputes)
    BY <1>1, EntryFinds, EditedGood
  <1>3. TxBecomes(t, tx.budget) BY <1>1, <1>2, EntryFinds, TxAfterMessage DEF Good
  <1> HIDE DEF t
  <1>4. Cardinality(t.disputes) <= tx.budget /\ Cardinality(t.disputes) <= MaxPending
    BY <1>1, <1>2, EntryFinds, DisputesAssumption
  <1>5. QED BY <1>1, <1>2, <1>3, <1>4, EntryFinds, EntryKeeps

\* A delete, of a live message or of none.
LEMMA DeleteKeeps ==
    ASSUME IInv, NEW m \in Messages, ImportDelete(m)
    PROVE  IInv'
  <1> DEFINE live == tx.store.messages[m].state = "live"
             t == IF live THEN Tombstone(tx.store, m) ELSE tx.store
  <1>1. tx # None BY DEF ImportDelete
  <1>2. /\ Good(t) /\ EntryStep(tx.store, t) /\ Cardinality(t.disputes) \in Nat
        /\ Cardinality(t.disputes) <= Cardinality(tx.store.disputes)
    <2>1. CASE live BY <1>1, <2>1, EntryFinds, TombstoneGood
    <2>2. CASE ~live
      <3>1. EntryStep(tx.store, tx.store) BY DEF EntryStep, RowStep
      <3>2. QED BY <1>1, <2>2, <3>1, EntryFinds
    <2>3. QED BY <2>1, <2>2
  <1>3. TxBecomes(t, tx.budget)
    <2>1. \E d \in BOOLEAN : Item(t, tx.budget, d) BY Zenon DEF ImportDelete
    <2>2. QED BY <1>1, <1>2, <2>1, EntryFinds, TxAfterItem DEF Good
  <1> HIDE DEF t
  <1>4. Cardinality(t.disputes) <= tx.budget /\ Cardinality(t.disputes) <= MaxPending
    BY <1>1, <1>2, EntryFinds, DisputesAssumption
  <1>5. QED BY <1>1, <1>2, <1>3, <1>4, EntryFinds, EntryKeeps

\* The candidate this key already has: as many candidates as before.
LEMMA ConflictAgainKeeps ==
    ASSUME IInv, NEW m \in Messages, NEW text \in Texts, ImportConflictAgain(m, text)
    PROVE  IInv'
  <1> DEFINE s == tx.store
  <1>1. PICK c \in Known(s, m, tx.key, text) : MessageItem(SeenAgain(s, m, c), tx.budget)
    BY DEF ImportConflictAgain
  <1>2. tx # None /\ s.messages[m].state = "live" /\ s.messages[m].text # text
    BY DEF ImportConflictAgain, Disagrees
  <1>3. /\ c \in s.disputes /\ c \in Candidate /\ c.message = m /\ c.key = tx.key
        /\ c.revision = s.messages[m].revision /\ c.text = text
    BY <1>1, <1>2, EntryFinds DEF Known, DisputesOf, Store
  <1> DEFINE again == [c EXCEPT !.occurrences = @ + 1]
             D == (s.disputes \ {c}) \cup {again}
  <1>4. /\ again \in Candidate /\ again.message = m /\ again.key = tx.key
        /\ again.revision = c.revision /\ again.text = text
    <2>1. c.occurrences + 1 \in Nat BY <1>3 DEF Candidate
    <2>2. \A n \in Nat :
            LET e == [c EXCEPT !.occurrences = n]
            IN e \in Candidate /\ e.message = m /\ e.key = tx.key
               /\ e.revision = c.revision /\ e.text = text
      BY <1>3 DEF Candidate
    <2>3. QED BY <2>1, <2>2
  <1>5. SeenAgain(s, m, c) = Flagged(s, m, D) BY DEF SeenAgain
  <1> HIDE DEF again
  <1>6. /\ IsFiniteSet(D) /\ Cardinality(D) \in Nat
        /\ Cardinality(D) <= Cardinality(s.disputes)
    <2>1. IsFiniteSet(s.disputes) BY <1>2, EntryFinds
    <2>2. /\ IsFiniteSet(s.disputes \ {c})
          /\ Cardinality(s.disputes \ {c}) = Cardinality(s.disputes) - 1
      BY <1>3, <2>1, FS_RemoveElement
    <2>3. /\ IsFiniteSet(D)
          /\ Cardinality(D) = Cardinality(s.disputes \ {c})
             \/ Cardinality(D) = Cardinality(s.disputes \ {c}) + 1
      BY <2>2, FS_AddElement
    <2>4. Cardinality(s.disputes) \in Nat BY <2>1, FS_CardinalityType
    <2>5. QED BY <2>2, <2>3, <2>4, FS_CardinalityType
  <1>7. D \in SUBSET Candidate BY <1>2, <1>4, EntryFinds DEF Store
  <1>8. again \in D /\ (\A d \in D : d = again \/ d \in s.disputes)
        /\ (\A d \in s.disputes : d \in D \/ d.message = m)
    BY <1>3
  <1> HIDE DEF D
  <1> DEFINE t == Flagged(s, m, D)
  <1>9. Good(t) /\ t.disputes = D /\ EntryStep(s, t)
    BY <1>2, <1>3, <1>4, <1>6, <1>7, <1>8, EntryFinds, FlaggedGood
  <1>10. TxBecomes(t, tx.budget)
    BY <1>1, <1>2, <1>5, <1>9, EntryFinds, TxAfterMessage DEF Good
  <1> HIDE DEF t
  <1>11. Cardinality(t.disputes) <= tx.budget /\ Cardinality(t.disputes) <= MaxPending
    BY <1>2, <1>6, <1>9, EntryFinds, DisputesAssumption
  <1>12. QED BY <1>2, <1>9, <1>10, <1>11, EntryFinds, EntryKeeps

\* A new candidate: the count it is checked against is not too low.
LEMMA ConflictKeeps ==
    ASSUME IInv, NEW m \in Messages, NEW text \in Texts, ImportConflict(m, text)
    PROVE  IInv'
  <1> DEFINE s == tx.store
             b == BudgetAfter(Budget)
  <1>1. /\ tx # None /\ s.messages[m].state = "live" /\ s.messages[m].text # text
        /\ Budget < MaxPending
        /\ MessageItem(NewCandidate(s, m, tx.key, text), b)
    BY DEF ImportConflict, Disagrees
  <1> DEFINE c == [message |-> m, key |-> tx.key, text |-> text,
                   revision |-> s.messages[m].revision, occurrences |-> 1]
             D == s.disputes \cup {c}
  <1>2. /\ c \in Candidate /\ c.message = m /\ c.key = tx.key
        /\ c.revision = s.messages[m].revision /\ c.text = text
    <2>1. s.messages[m].revision \in Nat /\ tx.key \in Keys BY <1>1, EntryFinds DEF Row
    <2>2. QED BY <2>1 DEF Candidate
  <1>3. NewCandidate(s, m, tx.key, text) = Flagged(s, m, D) BY DEF NewCandidate
  <1> HIDE DEF c
  <1>4. /\ IsFiniteSet(D) /\ Cardinality(D) \in Nat
        /\ Cardinality(D) <= Cardinality(s.disputes) + 1
    <2>1. IsFiniteSet(s.disputes) BY <1>1, EntryFinds
    <2>2. /\ IsFiniteSet(D)
          /\ \/ Cardinality(D) = Cardinality(s.disputes)
             \/ Cardinality(D) = Cardinality(s.disputes) + 1
      BY <2>1, FS_AddElement
    <2>3. Cardinality(s.disputes) \in Nat BY <2>1, FS_CardinalityType
    <2>4. QED BY <2>2, <2>3
  <1>5. D \in SUBSET Candidate BY <1>1, <1>2, EntryFinds DEF Store
  <1>6. c \in D /\ (\A d \in D : d = c \/ d \in s.disputes)
        /\ (\A d \in s.disputes : d \in D \/ d.message = m)
    OBVIOUS
  <1> HIDE DEF D
  <1> DEFINE t == Flagged(s, m, D)
  <1>7. Good(t) /\ t.disputes = D /\ EntryStep(s, t)
    BY <1>1, <1>2, <1>4, <1>5, <1>6, EntryFinds, FlaggedGood
  <1>8. /\ Budget \in Nat /\ b = Budget + 1
        /\ Cardinality(s.disputes) <= Budget
    BY <1>1, EntryFinds DEF Budget, BudgetAfter
  <1> HIDE DEF b
  <1>9. TxBecomes(t, b)
    BY <1>1, <1>3, <1>7, <1>8, EntryFinds, TxAfterMessage DEF Good
  <1> HIDE DEF t
  <1>10. Cardinality(t.disputes) <= b /\ Cardinality(t.disputes) <= MaxPending
    BY <1>1, <1>4, <1>7, <1>8, EntryFinds, DisputesAssumption
  <1>11. QED BY <1>1, <1>7, <1>8, <1>9, <1>10, EntryKeeps

-----------------------------------------------------------------------------
(* The transaction begins and ends.                                        *)

\* A row keeps itself.
LEMMA KeepsItself ==
    ASSUME NEW r \in Row
    PROVE  KeepsRow(r, r) /\ BatchRow(r, r)
  BY DEF KeepsRow, BatchRow, Row

\* The transaction begins from the store as it is, under the next number.
LEMMA BeginKeeps ==
    ASSUME IInv, NEW k \in Keys, ImportBegin(k)
    PROVE  IInv'
  <1> DEFINE t == [store EXCEPT !.source = TRUE]
  <1>1. /\ TypeOK /\ Good(store) /\ Clean(store) /\ PageInv /\ tx = None /\ batches \in Nat
        /\ store \in Store
    BY DEF IInv, TypeOK, ImportBegin
  <1>2. /\ batches' = batches + 1
        /\ UNCHANGED <<store, revoked, purged, page, preview>>
        /\ admitted' \subseteq Keys /\ k \notin revoked
    BY <1>1 DEF ImportBegin, TypeOK, MayPush
  <1>3. t \in Store /\ t.messages = store.messages /\ t.disputes = store.disputes /\ t' = t
    BY <1>1, <1>2 DEF Store
  <1>4. Cardinality(store.disputes) \in Nat /\ Cardinality(store.disputes) <= MaxPending
    BY <1>1, FS_CardinalityType DEF Good, TypeOK
  <1>5. /\ tx' \in [key: Keys, items: Nat, deleting: BOOLEAN, budget: Nat, store: Store]
        /\ tx'.key = k /\ tx'.store = t /\ tx'.budget = Cardinality(store.disputes)
    <2>1. tx' = [key |-> k, items |-> 0, deleting |-> FALSE,
                 budget |-> Cardinality(store.disputes), store |-> t]
      BY Zenon DEF ImportBegin
    <2> HIDE DEF t
    <2>2. QED BY <1>3, <1>4, <2>1
  <1> HIDE DEF t
  <1>6. TypeOK'
    BY <1>1, <1>2, <1>3, <1>4, <1>5 DEF TypeOK
  <1>7. \A m \in Messages : store.messages[m].id \in Nat /\ store.messages[m].id < batches'
    BY <1>1, <1>2, GoodRow DEF Good, RowsReal, NoRow
  <1>8. Good(store)' /\ Good(t)'
    <2>1. RowsReal(store)' BY <1>1, <1>2 DEF Good, RowsReal
    <2>2. RowsReal(t)' BY <1>2, <1>3, <2>1 DEF RowsReal
    <2>3. DisputesReal(t) BY <1>1, <1>3 DEF Good, DisputesReal
    <2>4. QED BY <1>1, <1>2, <1>3, <2>1, <2>2, <2>3 DEF Good
  <1>9. Clean(store)' /\ Clean(t)' BY <1>1, <1>2, <1>3 DEF Clean
  <1>10. TxInv'
    <2>1. Good(tx.store)' /\ Clean(tx.store)' BY <1>3, <1>5, <1>8, <1>9 DEF Good, Clean, RowsReal
    <2>2. \A m \in Messages : BatchRow(store.messages[m], t.messages[m])
                              /\ KeepsRow(store.messages[m], t.messages[m])
      BY <1>1, <1>3, GoodRow, KeepsItself
    <2>3. Cardinality(t.disputes) <= Cardinality(store.disputes) BY <1>3, <1>4
    <2>4. QED BY <1>2, <1>5, <1>7, <2>1, <2>2, <2>3 DEF TxInv
  <1>11. PageInv'
    <2>1. SUFFICES ASSUME page # None
                   PROVE  /\ page.row.id \in 1..batches' /\ page.row.id < batches'
                          /\ KeepsRow(page.row, t.messages[page.message])
      BY <1>1, <1>2, <1>5 DEF PageInv
    <2>2. QED BY <1>1, <1>2, <1>3, <2>1 DEF PageInv
  <1>12. QED BY <1>6, <1>8, <1>9, <1>10, <1>11 DEF IInv

\* A request refused by the second check of its key.
LEMMA RefusedKeeps ==
    ASSUME IInv, NEW k \in Keys, ImportRefused(k)
    PROVE  IInv'
  <1>1. /\ UNCHANGED <<store, tx, revoked, purged, page, preview, batches>>
        /\ admitted' \subseteq admitted
    BY DEF ImportRefused
  <1>2. TypeOK' BY <1>1 DEF IInv, TypeOK
  <1>3. Good(store)' /\ Clean(store)' /\ TxInv' /\ PageInv'
    BY <1>1 DEF IInv, Good, RowsReal, Clean, TxInv, PageInv
  <1>4. QED BY <1>2, <1>3 DEF IInv

\* The door touches no store.
LEMMA AdmitKeeps ==
    ASSUME IInv, NEW k \in Keys, Admit(k)
    PROVE  IInv'
  <1>1. /\ UNCHANGED <<store, tx, revoked, purged, page, preview, batches>>
        /\ admitted' = admitted \cup {k}
    BY DEF Admit
  <1>2. TypeOK' BY <1>1 DEF IInv, TypeOK
  <1>3. Good(store)' /\ Clean(store)' /\ TxInv' /\ PageInv'
    BY <1>1 DEF IInv, Good, RowsReal, Clean, TxInv, PageInv
  <1>4. QED BY <1>2, <1>3 DEF IInv

\* What held of the copy holds of the store.
LEMMA CommitKeeps ==
    ASSUME IInv, ImportCommit
    PROVE  IInv'
  <1>1. /\ tx # None /\ store' = tx.store /\ tx' = None
        /\ UNCHANGED <<admitted, revoked, purged, page, preview, batches>>
    BY DEF ImportCommit
  <1>2. TypeOK' BY <1>1 DEF IInv, TypeOK
  <1>3. Good(store)' /\ Clean(store)'
    BY <1>1 DEF IInv, TxInv, Good, RowsReal, Clean
  <1>4. TxInv' /\ PageInv' BY <1>1 DEF IInv, TxInv, PageInv
  <1>5. QED BY <1>2, <1>3, <1>4 DEF IInv

\* A rollback leaves the store.
LEMMA RollbackKeeps ==
    ASSUME IInv, ImportRollback
    PROVE  IInv'
  <1>1. tx' = None /\ UNCHANGED <<store, admitted, revoked, purged, page, preview, batches>>
    BY DEF ImportRollback
  <1>2. TypeOK' BY <1>1 DEF IInv, TypeOK
  <1>3. Good(store)' /\ Clean(store)' /\ TxInv' /\ PageInv'
    BY <1>1 DEF IInv, Good, RowsReal, Clean, TxInv, PageInv
  <1>4. QED BY <1>2, <1>3 DEF IInv

-----------------------------------------------------------------------------
(* The owner.                                                              *)

\* No transaction runs with a revoked key.
LEMMA RevokeKeeps ==
    ASSUME IInv, NEW k \in Keys, Revoke(k)
    PROVE  IInv'
  <1>1. /\ UNCHANGED <<store, tx, admitted, purged, page, preview, batches>>
        /\ revoked' = revoked \cup {k} /\ tx = None
    BY DEF Revoke
  <1>2. TypeOK' BY <1>1 DEF IInv, TypeOK
  <1>3. Good(store)' /\ Clean(store)' /\ TxInv' /\ PageInv'
    BY <1>1 DEF IInv, Good, RowsReal, Clean, TxInv, PageInv
  <1>4. QED BY <1>2, <1>3 DEF IInv

\* The page holds a row of the store as it is.
LEMMA OpenPageKeeps ==
    ASSUME IInv, NEW m \in Messages, OpenPage(m)
    PROVE  IInv'
  <1>1. /\ UNCHANGED <<store, tx, admitted, revoked, purged, preview, batches>>
        /\ page' = [message |-> m, row |-> store.messages[m], disputes |-> DisputesOf(store, m)]
        /\ store.messages[m].state = "live"
    BY DEF OpenPage
  <1>2. /\ store \in Store /\ Good(store) /\ store.messages[m] \in Row
    BY GoodRow DEF IInv, TypeOK
  <1>3. DisputesOf(store, m) \in SUBSET Candidate BY <1>2 DEF DisputesOf, Store
  <1>4. TypeOK' BY <1>1, <1>2, <1>3 DEF IInv, TypeOK
  <1>5. Good(store)' /\ Clean(store)' /\ TxInv'
    BY <1>1 DEF IInv, Good, RowsReal, Clean, TxInv
  <1>6. PageInv'
    <2>1. store.messages[m].id \in 1..batches BY <1>1, <1>2, GoodRow
    <2>2. KeepsRow(store.messages[m], store.messages[m]) BY <1>2, KeepsItself
    <2>3. tx # None => /\ store.messages[m].id < batches
                       /\ KeepsRow(store.messages[m], tx.store.messages[m])
      BY DEF IInv, TxInv
    <2>4. page'.message = m /\ page'.row = store.messages[m] BY <1>1
    <2>5. QED BY <1>1, <1>2, <2>1, <2>2, <2>3, <2>4 DEF PageInv
  <1>7. QED BY <1>4, <1>5, <1>6 DEF IInv

\* Opening and closing the other pages.
LEMMA PagesClose ==
    ASSUME IInv, ClosePage \/ ClosePreview \/ \E k \in Keys : OpenPreview(k)
    PROVE  IInv'
  <1>1. /\ UNCHANGED <<store, tx, admitted, revoked, purged, batches>>
        /\ page' = page \/ page' = None
        /\ preview' = preview \/ preview' = None \/ preview'.key \in revoked
    BY DEF ClosePage, ClosePreview, OpenPreview
  <1>2. TypeOK' BY <1>1 DEF IInv, TypeOK
  <1>3. Good(store)' /\ Clean(store)' /\ TxInv' /\ PageInv'
    BY <1>1 DEF IInv, Good, RowsReal, Clean, TxInv, PageInv
  <1>4. QED BY <1>2, <1>3 DEF IInv

\* The row that an answer of the owner leaves.
Answer(old, new) ==
    /\ new \in Row /\ ~new.conflicted
    /\ new.id = old.id /\ new.by = old.by /\ new.state \in {"live", "deleted"}
    /\ old.edited <= new.edited

\* An answer settles the page's message, and the page is done with.
Answered ==
    /\ page # None /\ tx = None /\ IsCurrent
    /\ page' = None
    /\ UNCHANGED <<tx, admitted, revoked, purged, preview, batches>>
    /\ \E new : /\ Answer(store.messages[page.message], new)
                /\ store' = Settled(store, page.message, new)

\* The three answers of the owner are answers.
LEMMA AnswersAre ==
    ASSUME IInv,
           \/ page # None /\ (Keep \/ Delete)
           \/ \E c \in store.disputes, clock \in Stamps : Accept(c, clock)
    PROVE  Answered
  <1> DEFINE old == store.messages[page.message]
  <1>1. page # None BY DEF Accept
  <1>2. page.message \in Messages BY <1>1 DEF IInv, PageInv
  <1>3. old \in Row /\ Good(store) BY <1>2, GoodRow DEF IInv
  <1>4. ASSUME NEW r \in Row, r.id = old.id, r.by = old.by, r.state \in {"live", "deleted"},
               old.edited <= r.edited, Resolve(r)
        PROVE  Answered
    <2> DEFINE new == [r EXCEPT !.conflicted = FALSE, !.revision = @ + 1]
    <2>1. /\ tx = None /\ IsCurrent /\ page' = None
          /\ UNCHANGED <<tx, admitted, revoked, purged, preview, batches>>
          /\ store' = Settled(store, page.message, new)
      BY <1>4 DEF Resolve
    <2>2. r.revision + 1 \in Nat BY DEF Row
    <2>3. \A n \in Nat : LET q == [r EXCEPT !.conflicted = FALSE, !.revision = n] IN
            q \in Row /\ q.id = r.id /\ q.by = r.by /\ q.state = r.state /\ q.edited = r.edited
      BY DEF Row
    <2>4. new \in Row /\ new.id = r.id /\ new.by = r.by /\ new.state = r.state
          /\ new.edited = r.edited
      BY <2>2, <2>3
    <2>5. ~new.conflicted BY DEF Row
    <2> HIDE DEF new
    <2>6. Answer(old, new) BY <1>4, <2>4, <2>5 DEF Answer
    <2>7. QED BY <1>1, <2>1, <2>6 DEF Answered
  <1>5. old.edited \in Nat /\ old.state \in {"absent", "live", "deleted"}
    BY <1>3 DEF Row, Stamps
  <1>6. (Keep \/ Delete \/ \E c \in store.disputes, clock \in Stamps : Accept(c, clock))
            => old.state = "live"
    BY DEF Keep, Delete, Accept, Resolve, IsCurrent
  <1>7. CASE Keep BY <1>3, <1>4, <1>5, <1>6, <1>7 DEF Keep
  <1>8. CASE Delete
    <2> DEFINE r == [old EXCEPT !.state = "deleted"]
    <2>1. Resolve(r) BY <1>8 DEF Delete
    <2>2. r \in Row /\ r.id = old.id /\ r.by = old.by /\ r.state = "deleted"
          /\ r.edited = old.edited
      BY <1>3 DEF Row
    <2> HIDE DEF r
    <2>3. QED BY <1>4, <1>5, <2>1, <2>2
  <1>9. ASSUME NEW c \in store.disputes, NEW clock \in Stamps, Accept(c, clock)
        PROVE  Answered
    <2> DEFINE at == IF clock > old.edited THEN clock ELSE old.edited
               r == [old EXCEPT !.text = c.text, !.edited = at]
    <2>1. Resolve(r) BY <1>9 DEF Accept
    <2>2. c.text \in Texts BY <1>3 DEF Good, Store, Candidate
    <2>3. old.edited \in Stamps /\ clock \in Nat BY <1>3 DEF Row, Stamps
    <2>4. at \in Stamps /\ old.edited <= at BY <1>5, <2>3
    <2> HIDE DEF at
    <2>5. r \in Row /\ r.id = old.id /\ r.by = old.by /\ r.state = old.state /\ r.edited = at
      BY <1>3, <2>2, <2>4 DEF Row
    <2> HIDE DEF r
    <2>6. QED BY <1>4, <1>6, <1>9, <2>1, <2>4, <2>5
  <1>10. QED BY <1>7, <1>8, <1>9

\* An answer settles a row under a new revision.
LEMMA AnsweredKeeps ==
    ASSUME IInv, Answered
    PROVE  IInv'
  <1> DEFINE m == page.message
             s == store.messages
  <1>1. PICK new : Answer(s[m], new) /\ store' = Settled(store, m, new)
    BY DEF Answered
  <1>2. /\ tx = None /\ page' = None /\ page # None /\ s[m].state = "live"
        /\ UNCHANGED <<tx, admitted, revoked, purged, preview, batches>>
    BY DEF Answered, IsCurrent
  <1>3. m \in Messages /\ Good(store) BY <1>2 DEF IInv, PageInv
  <1>4. /\ Good(store')
        /\ store'.messages = [s EXCEPT ![m] = new]
        /\ store'.disputes \subseteq store.disputes
        /\ Cardinality(store'.disputes) <= Cardinality(store.disputes)
        /\ Cardinality(store'.disputes) \in Nat
    BY <1>1, <1>2, <1>3, SettledGood DEF Answer
  <1>5. Good(store)' BY <1>2, <1>4 DEF Good, RowsReal
  <1>6. Cardinality(store'.disputes) <= MaxPending
    BY <1>3, <1>4, DisputesAssumption, FS_CardinalityType DEF IInv, TypeOK, Good
  <1>7. TypeOK' BY <1>2, <1>4, <1>6 DEF IInv, TypeOK, Good
  <1>8. s \in [Messages -> Row] BY <1>3 DEF Good, Store
  <1>9. Clean(store)' BY <1>1, <1>2, <1>4, <1>8 DEF IInv, Clean, Answer
  <1>10. TxInv' /\ PageInv' BY <1>2 DEF TxInv, PageInv
  <1>11. QED BY <1>5, <1>7, <1>9, <1>10 DEF IInv

\* What a purge of key k does to the rows.
PurgeRow(k, m, new) ==
    LET old == store.messages[m] IN
    \/ m \in DeliveredBy(k) /\ new = NoRow
    \/ m \notin DeliveredBy(k) /\ new = old
    \/ /\ m \notin DeliveredBy(k) /\ old.state = "live"
       /\ new \in Row /\ ~new.conflicted /\ new.revision = old.revision + 1
       /\ new.id = old.id /\ new.state = old.state /\ new.by = old.by
       /\ new.text = old.text /\ new.edited = old.edited

PurgedDisputes(k) == {c \in store.disputes : c.key # k /\ c.message \notin DeliveredBy(k)}

\* A purge removes rows, settles those freed of their last candidate, and
\* leaves the others.
LEMMA PurgeRows ==
    ASSUME IInv, NEW k \in Keys, Purge(k)
    PROVE  /\ tx = None /\ k \in revoked /\ purged' = purged \cup {k}
           /\ UNCHANGED <<tx, admitted, revoked, page, batches>>
           /\ store' \in Store
           /\ store'.disputes = PurgedDisputes(k)
           /\ \A m \in Messages : PurgeRow(k, m, store'.messages[m])
           /\ \A m \in Messages : store'.messages[m] = store.messages[m] =>
                \/ \A c \in store.disputes : c.message = m => c.key # k
                \/ \E c \in store.disputes : c.message = m /\ c.key # k
           /\ \A m \in Messages \ DeliveredBy(k) : store'.messages[m] # store.messages[m] =>
                \A c \in store.disputes : c.message = m => c.key = k
  <1>1. /\ tx = None /\ k \in revoked /\ purged' = purged \cup {k}
        /\ UNCHANGED <<tx, admitted, revoked, page, batches>>
    BY DEF Purge
  <1>2. store \in Store /\ Good(store) /\ store.messages \in [Messages -> Row]
    BY DEF IInv, Good, Store
  <1> DEFINE left == {c \in store.disputes : c.key # k}
             freed == {m \in Messages : /\ \E c \in store.disputes \ left : c.message = m
                                        /\ \A c \in left : c.message # m}
             settled(m) == [store.messages[m] EXCEPT !.conflicted = FALSE, !.revision = @ + 1]
             rows == [m \in Messages |->
                        IF m \in DeliveredBy(k) THEN NoRow ELSE WithoutCandidates(k)[m]]
             fed == DeliveredBy(k) # {} \/ PurgeCandidates(k) # {}
             source == store.source /\ ~(fed /\ \A m \in Messages : rows[m].state = "absent")
  <1>3. store' = [source |-> source, messages |-> rows, disputes |-> PurgedDisputes(k)]
    BY Zenon DEF Purge, PurgedDisputes
  <1>4. WithoutCandidates(k) = [m \in Messages |-> IF m \in freed THEN settled(m)
                                                   ELSE store.messages[m]]
    BY DEF WithoutCandidates
  <1>5. \A m \in Messages :
            rows[m] = IF m \in DeliveredBy(k) THEN NoRow
                      ELSE IF m \in freed THEN settled(m) ELSE store.messages[m]
    BY <1>4
  <1>6. source \in BOOLEAN BY <1>2 DEF Store
  <1>7. ASSUME NEW m \in Messages
        PROVE  LET old == store.messages[m] IN
               /\ settled(m) \in Row /\ ~settled(m).conflicted
               /\ settled(m).revision = old.revision + 1
               /\ settled(m).id = old.id /\ settled(m).state = old.state
               /\ settled(m).by = old.by /\ settled(m).text = old.text
               /\ settled(m).edited = old.edited /\ settled(m) # old
    <2>1. store.messages[m] \in Row BY <1>2
    <2>2. store.messages[m].revision + 1 \in Nat
          /\ store.messages[m].revision + 1 # store.messages[m].revision
      BY <2>1 DEF Row
    <2>3. \A n \in Nat :
            LET old == store.messages[m]
                q == [old EXCEPT !.conflicted = FALSE, !.revision = n]
            IN /\ q \in Row /\ q.revision = n /\ q.id = old.id /\ q.state = old.state
               /\ q.by = old.by /\ q.text = old.text /\ q.edited = old.edited
      BY <2>1 DEF Row
    <2>4. ~settled(m).conflicted BY <2>1 DEF Row
    <2>5. QED BY <2>2, <2>3, <2>4
  <1> HIDE DEF settled, source
  <1>8. NoRow \in Row BY DisputesAssumption DEF NoRow, Row, Stamps
  <1>9. rows \in [Messages -> Row] BY <1>2, <1>5, <1>7, <1>8
  <1> HIDE DEF rows
  <1>10. /\ store'.messages = rows /\ store'.disputes = PurgedDisputes(k) /\ store' \in Store
    BY <1>2, <1>3, <1>6, <1>9 DEF Store, PurgedDisputes
  <1>11. ASSUME NEW m \in Messages PROVE PurgeRow(k, m, rows[m])
    <2>1. m \in freed => store.messages[m].state = "live"
      BY <1>2 DEF Good, DisputesReal
    <2>2. QED BY <1>5, <1>7, <2>1 DEF PurgeRow
  <1>12. ASSUME NEW m \in Messages, rows[m] = store.messages[m]
         PROVE  \/ \A c \in store.disputes : c.message = m => c.key # k
                \/ \E c \in store.disputes : c.message = m /\ c.key # k
    <2>1. CASE m \in freed
      <3>1. m \in DeliveredBy(k) BY <1>5, <1>7, <1>12, <2>1
      <3>2. store.messages[m].state = "absent" BY <1>5, <1>12, <3>1 DEF NoRow
      <3>3. QED BY <3>1, <3>2 DEF DeliveredBy
    <2>2. CASE m \notin freed BY <2>2
    <2>3. QED BY <2>1, <2>2
  <1>13. ASSUME NEW m \in Messages \ DeliveredBy(k), rows[m] # store.messages[m]
         PROVE  \A c \in store.disputes : c.message = m => c.key = k
    BY <1>5, <1>13
  <1>14. QED BY <1>1, <1>10, <1>11, <1>12, <1>13

\* And so it keeps the invariant.
LEMMA PurgeKeeps ==
    ASSUME IInv, NEW k \in Keys, Purge(k), preview' = preview \/ preview' = None
    PROVE  IInv'
  <1> DEFINE t == store'
  <1>1. /\ tx = None /\ k \in revoked /\ purged' = purged \cup {k}
        /\ UNCHANGED <<tx, admitted, revoked, page, batches>>
        /\ t \in Store
        /\ t.disputes = PurgedDisputes(k)
        /\ \A m \in Messages : PurgeRow(k, m, t.messages[m])
    BY PurgeRows
  <1>2. /\ \A m \in Messages : t.messages[m] = store.messages[m] =>
                \/ \A c \in store.disputes : c.message = m => c.key # k
                \/ \E c \in store.disputes : c.message = m /\ c.key # k
        /\ \A m \in Messages \ DeliveredBy(k) : t.messages[m] # store.messages[m] =>
                \A c \in store.disputes : c.message = m => c.key = k
    BY PurgeRows
  <1>3. Good(store) /\ store.messages \in [Messages -> Row] BY DEF IInv, Good, Store
  <1>4. t.messages \in [Messages -> Row] BY <1>1 DEF Store
  <1> HIDE DEF t
  <1>5. /\ IsFiniteSet(t.disputes) /\ Cardinality(t.disputes) <= MaxPending
    <2>1. IsFiniteSet(store.disputes) /\ t.disputes \subseteq store.disputes
      BY <1>1, <1>3 DEF Good, PurgedDisputes
    <2>2. /\ IsFiniteSet(t.disputes) /\ Cardinality(t.disputes) <= Cardinality(store.disputes)
          /\ Cardinality(t.disputes) \in Nat /\ Cardinality(store.disputes) \in Nat
      BY <2>1, FS_Subset, FS_CardinalityType
    <2>3. QED BY <2>2, DisputesAssumption DEF IInv, TypeOK
  <1>6. RowsReal(t)
    <2>1. SUFFICES ASSUME NEW m \in Messages
                   PROVE  IF t.messages[m].state = "absent" THEN t.messages[m] = NoRow
                          ELSE t.messages[m].id \in 1..batches
      BY DEF RowsReal
    <2>2. IF store.messages[m].state = "absent" THEN store.messages[m] = NoRow
          ELSE store.messages[m].id \in 1..batches
      BY <1>3 DEF Good, RowsReal
    <2>3. NoRow.state = "absent" BY DEF NoRow
    <2>4. QED BY <1>1, <2>2, <2>3 DEF PurgeRow
  <1>7. DisputesReal(t)
    <2>1. ASSUME NEW m \in Messages
          PROVE  t.messages[m].conflicted <=> \E c \in t.disputes : c.message = m
      <3>1. store.messages[m].conflicted <=> \E c \in store.disputes : c.message = m
        BY <1>3 DEF Good, DisputesReal
      <3>2. CASE m \in DeliveredBy(k)
        <4>1. t.messages[m] = NoRow BY <1>1, <3>2 DEF PurgeRow
        <4>2. ~t.messages[m].conflicted BY <4>1 DEF NoRow
        <4>3. QED BY <1>1, <3>2, <4>2 DEF PurgedDisputes
      <3>3. CASE m \notin DeliveredBy(k) /\ t.messages[m] = store.messages[m]
        <4>1. (\E c \in store.disputes : c.message = m)
                => \E c \in store.disputes : c.message = m /\ c.key # k
          BY <1>2, <3>3
        <4>2. QED BY <1>1, <3>1, <3>3, <4>1 DEF PurgedDisputes
      <3>4. CASE m \notin DeliveredBy(k) /\ t.messages[m] # store.messages[m]
        <4>1. ~t.messages[m].conflicted BY <1>1, <3>4 DEF PurgeRow
        <4>2. QED BY <1>1, <1>2, <3>4, <4>1 DEF PurgedDisputes
      <3>5. QED BY <3>2, <3>3, <3>4
    <2>2. ASSUME NEW c \in t.disputes
          PROVE  /\ t.messages[c.message].state = "live"
                 /\ t.messages[c.message].revision = c.revision
                 /\ t.messages[c.message].text # c.text
      <3>1. /\ c \in store.disputes /\ c.key # k /\ c.message \in Messages \ DeliveredBy(k)
        BY <1>1, <1>3 DEF PurgedDisputes, Good, Store, Candidate
      <3>2. t.messages[c.message] = store.messages[c.message] BY <1>2, <3>1
      <3>3. QED BY <1>3, <3>1, <3>2 DEF Good, DisputesReal
    <2>3. QED BY <2>1, <2>2 DEF DisputesReal
  <1>8. Good(store)' BY <1>1, <1>5, <1>6, <1>7 DEF t, Good, RowsReal
  <1>9. Clean(store)'
    <2>1. ASSUME NEW j \in purged \cup {k}
          PROVE  /\ \A m \in Messages : t.messages[m].state = "live" => t.messages[m].by # j
                 /\ \A c \in t.disputes : c.key # j
      <3>1. \A c \in t.disputes : c.key # j
        BY <1>1 DEF IInv, Clean, PurgedDisputes
      <3>2. ASSUME NEW m \in Messages, t.messages[m].state = "live"
            PROVE  t.messages[m].by # j
        <4>1. m \notin DeliveredBy(k) BY <1>1, <3>2 DEF PurgeRow, NoRow
        <4>2. t.messages[m].by = store.messages[m].by
              /\ t.messages[m].state = store.messages[m].state
          BY <1>1, <4>1 DEF PurgeRow
        <4>3. CASE j = k BY <3>2, <4>1, <4>2, <4>3 DEF DeliveredBy
        <4>4. CASE j \in purged BY <3>2, <4>2, <4>4 DEF IInv, Clean
        <4>5. QED BY <4>3, <4>4
      <3>3. QED BY <3>1, <3>2
    <2>2. QED BY <1>1, <2>1 DEF t, Clean
  <1>10. TypeOK' BY <1>1, <1>5 DEF t, IInv, TypeOK
  <1>11. TxInv' BY <1>1 DEF TxInv
  <1>12. PageInv'
    <2>1. SUFFICES ASSUME page # None
                   PROVE  KeepsRow(page.row, t.messages[page.message])
      BY <1>1 DEF t, IInv, PageInv
    <2> DEFINE p == page.row
               r == store.messages[page.message]
               q == t.messages[page.message]
    <2>2. /\ page.message \in Messages /\ p \in Row /\ p.id \in 1..batches
          /\ KeepsRow(p, r)
      BY <2>1 DEF IInv, PageInv
    <2>3. PurgeRow(k, page.message, q) /\ r \in Row /\ q \in Row BY <1>1, <1>3, <1>4, <2>2
    <2>4. p.revision \in Nat /\ r.revision \in Nat /\ p.id # 0 /\ batches \in Nat
      BY <2>2, <2>3 DEF Row, IInv, TypeOK
    <2>5. CASE q = NoRow BY <2>4, <2>5 DEF KeepsRow, NoRow
    <2>6. CASE q = r BY <2>2, <2>6
    <2>7. CASE q.revision = r.revision + 1 /\ q.id = r.id
      BY <2>2, <2>4, <2>7 DEF KeepsRow
    <2>8. QED BY <2>3, <2>5, <2>6, <2>7 DEF PurgeRow
  <1>13. QED BY <1>8, <1>9, <1>10, <1>11, <1>12 DEF IInv

-----------------------------------------------------------------------------
(* The invariant.                                                          *)

\* The empty archive.
LEMMA InitIInv == Init => IInv
  <1> SUFFICES ASSUME Init PROVE IInv
    OBVIOUS
  <1>1. /\ store = [source |-> FALSE, messages |-> [m \in Messages |-> NoRow], disputes |-> {}]
        /\ tx = None /\ page = None /\ preview = None /\ batches = 0
        /\ admitted = {} /\ revoked = {} /\ purged = {}
    BY DEF Init
  <1>2. NoRow \in Row /\ ~NoRow.conflicted /\ NoRow.state = "absent"
    BY DisputesAssumption DEF NoRow, Row, Stamps
  <1>3. /\ store.messages = [m \in Messages |-> NoRow] /\ store.disputes = {}
        /\ store.source = FALSE
    BY <1>1
  <1>4. store \in Store
    <2>1. [m \in Messages |-> NoRow] \in [Messages -> Row] BY <1>2
    <2>2. FALSE \in BOOLEAN /\ {} \in SUBSET Candidate OBVIOUS
    <2>3. QED BY <1>1, <2>1, <2>2, Zenon DEF Store
  <1>5. IsFiniteSet(store.disputes) /\ Cardinality(store.disputes) = 0
    BY <1>3, FS_EmptySet
  <1>6. Good(store) BY <1>2, <1>3, <1>4, <1>5 DEF Good, RowsReal, DisputesReal
  <1>7. TypeOK BY <1>1, <1>4, <1>5, DisputesAssumption DEF TypeOK
  <1>8. Clean(store) /\ TxInv /\ PageInv BY <1>1 DEF Clean, TxInv, PageInv
  <1>9. QED BY <1>6, <1>7, <1>8 DEF IInv

\* The steps of the imports.
LEMMA ImportStepKeeps ==
    ASSUME IInv, ImportStep
    PROVE  IInv'
  <1>1. CASE \E k \in Keys : ImportBegin(k) \/ ImportRefused(k)
    BY <1>1, BeginKeeps, RefusedKeeps
  <1>2. CASE \E m \in Messages, text \in Texts, at \in Stamps :
            ImportNew(m, text, at) \/ ImportDuplicate(m, text, at) \/ ImportEdit(m, text, at)
    BY <1>2, NewKeeps, DuplicateKeeps, EditKeeps
  <1>3. CASE \E m \in Messages, text \in Texts :
            ImportConflictAgain(m, text) \/ ImportConflict(m, text)
    BY <1>3, ConflictAgainKeeps, ConflictKeeps
  <1>4. CASE \E m \in Messages : ImportDelete(m) BY <1>4, DeleteKeeps
  <1>5. CASE ImportCommit BY <1>5, CommitKeeps
  <1>6. CASE ImportRollback BY <1>6, RollbackKeeps
  <1>7. QED BY <1>1, <1>2, <1>3, <1>4, <1>5, <1>6 DEF ImportStep

\* The steps of the owner, the purges and the answers under one name each.
LEMMA OwnerSteps ==
    ASSUME IInv, OwnerStep
    PROVE  \/ \E k \in Keys : Revoke(k)
           \/ \E m \in Messages : OpenPage(m)
           \/ ClosePage \/ ClosePreview \/ \E k \in Keys : OpenPreview(k)
           \/ Answered
           \/ \E k \in Keys : Purge(k) /\ (UNCHANGED preview \/ PurgeShown)
  <1>1. CASE PurgeShown
    <2>1. preview # None /\ Purge(preview.key) BY <1>1 DEF PurgeShown
    <2>2. preview.key \in Keys BY <2>1 DEF IInv, TypeOK
    <2>3. QED BY <1>1, <2>1, <2>2
  <1>2. CASE ~PurgeShown
    BY <1>2, AnswersAre DEF OwnerStep, PurgeAtOnce
  <1>3. QED BY <1>1, <1>2

\* Every step.
LEMMA StepIInv == IInv /\ [Next]_vars => IInv'
  <1> SUFFICES ASSUME IInv, [Next]_vars PROVE IInv'
    OBVIOUS
  <1>1. CASE UNCHANGED vars
    <2>1. /\ UNCHANGED <<store, tx, admitted, revoked, purged, page, preview, batches>>
      BY <1>1 DEF vars
    <2>2. TypeOK' BY <2>1 DEF IInv, TypeOK
    <2>3. Good(store)' /\ Clean(store)' /\ TxInv' /\ PageInv'
      BY <2>1 DEF IInv, Good, RowsReal, Clean, TxInv, PageInv
    <2>4. QED BY <2>2, <2>3 DEF IInv
  <1>2. CASE \E k \in Keys : Admit(k) BY <1>2, AdmitKeeps
  <1>3. CASE ImportStep BY <1>3, ImportStepKeeps
  <1>4. CASE OwnerStep
    <2>1. ASSUME NEW k \in Keys, Purge(k), UNCHANGED preview \/ PurgeShown
          PROVE  IInv'
      BY <2>1, PurgeKeeps DEF PurgeShown
    <2>2. QED BY <1>4, <2>1, OwnerSteps, RevokeKeeps, OpenPageKeeps, PagesClose, AnsweredKeeps
  <1>5. QED BY <1>1, <1>2, <1>3, <1>4 DEF Next

\* What every reachable state satisfies: the types, the reality of every
\* candidate in the store and in the one a batch is making, and what ties the
\* transaction and the page to the store they came from.
THEOREM DisputesInductive == Spec => []IInv
  <1>1. QED BY InitIInv, StepIInv, PTL DEF Spec

\* The types, and the budget: however many candidates a batch adds and clears,
\* never more than MAX_PENDING_CANDIDATES are stored, though the count a batch
\* keeps is read once and only grows.
THEOREM DisputesTypes == Spec => []TypeOK
  <1>1. IInv => TypeOK BY DEF IInv
  <1>2. QED BY <1>1, DisputesInductive, PTL

\* A message is marked exactly as long as another version of it is stored, and
\* every candidate is of a live message as it now reads, in the store and at
\* every statement of a batch.
THEOREM CandidatesReal == Spec => []DisputesAreReal
  <1>1. IInv => DisputesAreReal BY DEF IInv, TxInv, Good, DisputesAreReal
  <1>2. QED BY <1>1, DisputesInductive, PTL

\* Nothing live of a purged key is stored again, not by a request that was
\* already past the door when the key was revoked.
THEOREM PurgesHold == Spec => []PurgedLeavesNothing
  <1>1. IInv => PurgedLeavesNothing
    BY DEF IInv, Clean, PurgedLeavesNothing, DeliveredBy
  <1>2. QED BY <1>1, DisputesInductive, PTL

-----------------------------------------------------------------------------
(* What the owner was shown.                                               *)

\* A row of the page that has kept its id, revision and mark is the same row.
LEMMA SameRow ==
    ASSUME NEW p \in Row, NEW r \in Row, KeepsRow(p, r), r.id = p.id,
           r.revision = p.revision, r.conflicted = p.conflicted,
           p.state = "live", r.state = "live"
    PROVE  p = r
  <1>1. r.text = p.text /\ r.edited = p.edited /\ r.by = p.by BY DEF KeepsRow
  <1>2. QED BY <1>1 DEF Row

\* The page is current down to the text, which its token does not hold.
LEMMA AnswersWhatWasShown ==
    ASSUME IInv, Answered
    PROVE  /\ page.row = store.messages[page.message]
           /\ page.disputes = DisputesOf(store, page.message)
  <1> DEFINE r == store.messages[page.message]
             D == DisputesOf(store, page.message)
  <1>1. /\ page.message \in Messages /\ page.row \in Row /\ r \in Row
        /\ page.row.state = "live" /\ KeepsRow(page.row, r)
    BY GoodRow DEF IInv, Answered, PageInv
  <1>2. r.id = page.row.id /\ r.state = "live" /\ Token(r, D) = Token(page.row, page.disputes)
    BY DEF Answered, IsCurrent
  <1>3. /\ Token(r, D)[1] = Token(page.row, page.disputes)[1]
        /\ Token(r, D)[2] = Token(page.row, page.disputes)[2]
        /\ Token(r, D)[3] = Token(page.row, page.disputes)[3]
    BY <1>2
  <1>4. r.revision = page.row.revision /\ r.conflicted = page.row.conflicted
        /\ D = page.disputes
    BY <1>3 DEF Token
  <1>5. QED BY <1>1, <1>2, <1>4, SameRow

\* The preview lists what the purge removes.
LEMMA PurgesWhatWasShown ==
    ASSUME IInv, PurgeShown
    PROVE  {m \in Messages : store'.messages[m] = NoRow /\ store.messages[m] # NoRow}
                = {r[1] : r \in preview.listed.rows}
  <1> DEFINE k == preview.key
  <1>1. /\ preview # None /\ Purge(k) /\ Listed(k) = preview.listed BY DEF PurgeShown
  <1>2. k \in Keys BY <1>1 DEF IInv, TypeOK
  <1>3. \A m \in Messages : PurgeRow(k, m, store'.messages[m]) BY <1>1, <1>2, PurgeRows
  <1>4. preview.listed.rows
            = {<<m, store.messages[m].id, store.messages[m].revision>> : m \in DeliveredBy(k)}
    BY <1>1 DEF Listed
  <1>5. {r[1] : r \in preview.listed.rows} = DeliveredBy(k)
    <2> DEFINE entry(m) == <<m, store.messages[m].id, store.messages[m].revision>>
    <2>1. \A m \in Messages : entry(m)[1] = m OBVIOUS
    <2>2. preview.listed.rows = {entry(m) : m \in DeliveredBy(k)} BY <1>4
    <2>3. DeliveredBy(k) \subseteq Messages BY DEF DeliveredBy
    <2> HIDE DEF entry
    <2>4. QED BY <2>1, <2>2, <2>3
  <1>6. ASSUME NEW m \in Messages
        PROVE  store'.messages[m] = NoRow /\ store.messages[m] # NoRow <=> m \in DeliveredBy(k)
    <2>1. NoRow.state = "absent" /\ NoRow.revision = 0 BY DEF NoRow
    <2>2. store.messages[m].revision \in Nat BY GoodRow DEF IInv, Row
    <2>3. store.messages[m].revision + 1 # 0 BY <2>2
    <2>4. m \in DeliveredBy(k) => store.messages[m].state = "live" BY DEF DeliveredBy
    <2>5. PurgeRow(k, m, store'.messages[m]) BY <1>3
    <2>6. QED BY <2>1, <2>3, <2>4, <2>5 DEF PurgeRow
  <1>7. DeliveredBy(k) \subseteq Messages BY DEF DeliveredBy
  <1>8. QED BY <1>5, <1>6, <1>7

\* An answer takes effect only on the text and the candidates of the page the
\* owner answered, and a purge from its page removes the messages it listed.
THEOREM OwnerDecides == Spec => DecidesWhatWasShown
  <1> DEFINE Shown == /\ page.row = store.messages[page.message]
                      /\ page.disputes = DisputesOf(store, page.message)
             Listing == {m \in Messages : store'.messages[m] = NoRow /\ store.messages[m] # NoRow}
                            = {r[1] : r \in preview.listed.rows}
             A == /\ page # None /\ page' = None /\ store' # store => Shown
                  /\ preview # None /\ preview' = None /\ store' # store => Listing
  <1>1. ASSUME IInv, [Next]_vars PROVE [A]_vars
    <2>1. CASE store' = store BY <2>1
    <2>2. CASE page' = page /\ preview' = preview BY <2>2
    <2>3. CASE OwnerStep
      <3>1. CASE Answered
        <4>1. Shown /\ preview' = preview BY <1>1, <3>1, AnswersWhatWasShown DEF Answered
        <4> HIDE DEF Shown, Listing
        <4>2. QED BY <4>1
      <3>2. ASSUME NEW k \in Keys, Purge(k), PurgeShown PROVE A
        <4>1. page' = page BY <3>2 DEF Purge
        <4>2. Listing BY <1>1, <3>2, PurgesWhatWasShown
        <4> HIDE DEF Shown, Listing
        <4>3. QED BY <4>1, <4>2
      <3>3. ASSUME NEW k \in Keys, Purge(k), UNCHANGED preview PROVE A
        BY <3>3 DEF Purge
      <3>4. (\E k \in Keys : Revoke(k) \/ OpenPreview(k)) \/ (\E m \in Messages : OpenPage(m))
              \/ ClosePage \/ ClosePreview => store' = store
        BY DEF Revoke, OpenPage, ClosePage, ClosePreview, OpenPreview
      <3> HIDE DEF A
      <3>5. QED BY <1>1, <2>1, <2>3, <3>1, <3>2, <3>3, <3>4, OwnerSteps
    <2>4. CASE ImportStep
      <3>1. page' = page /\ preview' = preview
        BY <2>4 DEF ImportStep, ImportBegin, ImportRefused, ImportNew, ImportDuplicate, ImportEdit,
                    ImportConflictAgain, ImportConflict, ImportDelete, ImportCommit,
                    ImportRollback, MessageItem, Item
      <3>2. QED BY <2>2, <3>1
    <2>5. CASE \E k \in Keys : Admit(k) BY <2>1, <2>5 DEF Admit
    <2>6. CASE UNCHANGED vars BY <2>6
    <2>7. QED BY <1>1, <2>3, <2>4, <2>5, <2>6 DEF Next
  <1>2. QED BY <1>1, DisputesInductive, PTL DEF Spec, DecidesWhatWasShown

-----------------------------------------------------------------------------
(* The refinement of MessageLife.                                          *)

\* A committed batch is one step of MessageLife.
LEMMA CommitReceives ==
    ASSUME IInv, ImportCommit
    PROVE  Life!Receive
  <1>1. tx # None /\ store' = tx.store BY DEF ImportCommit
  <1>2. ASSUME NEW m \in Messages
        PROVE  BatchRow(store.messages[m], store'.messages[m])
    BY <1>1 DEF IInv, TxInv
  <1>3. QED BY <1>2 DEF Life!Receive, Life!Kept, Life!Newer, BatchRow

\* So is an answer.
LEMMA AnswerSettles ==
    ASSUME IInv, Answered
    PROVE  \E m \in Messages : Life!Settle(m)
  <1> DEFINE s == store.messages
  <1>1. PICK m \in Messages : m = page.message BY DEF IInv, PageInv, Answered
  <1>2. PICK new : Answer(s[m], new) /\ store' = Settled(store, m, new)
    BY <1>1 DEF Answered
  <1>3. Good(store) /\ s[m].state = "live" /\ s[m].conflicted
    BY <1>1 DEF IInv, Answered, IsCurrent
  <1>4. store'.messages = [s EXCEPT ![m] = new]
    BY <1>2, <1>3, SettledGood DEF Answer
  <1>5. s \in [Messages -> Row] BY <1>3 DEF Good, Store
  <1>6. store'.messages[m] = new /\ \A n \in Messages \ {m} : store'.messages[n] = s[n]
    BY <1>4, <1>5
  <1>7. Life!Settle(m) BY <1>2, <1>3, <1>6 DEF Life!Settle, Answer
  <1>8. QED BY <1>7

\* And so is a purge.
LEMMA PurgeWithdraws ==
    ASSUME IInv, NEW k \in Keys, Purge(k)
    PROVE  Life!Withdraw
  <1>1. \A m \in Messages : PurgeRow(k, m, store'.messages[m]) BY PurgeRows
  <1>2. NoRow.state = "absent" BY DEF NoRow
  <1>3. ASSUME NEW m \in Messages
        PROVE  LET r == store.messages[m]
                   q == store'.messages[m]
               IN \/ r.state = "live" /\ q.state = "absent"
                  \/ /\ q.state = r.state /\ q.text = r.text /\ q.edited = r.edited
                     /\ q.conflicted => r.conflicted
    BY <1>1, <1>2 DEF PurgeRow, DeliveredBy
  <1>4. QED BY <1>3 DEF Life!Withdraw

\* The archive keeps the promise of MessageLife: whatever the number and the
\* order of the batches, the newest edit stays, a dispute stays until somebody
\* settles it, and what is deleted stays deleted.
THEOREM MessagesLive == Spec => ImplementsMessageLife
  <1>1. Init => Life!Init
    <2> SUFFICES ASSUME Init PROVE Life!Init
      OBVIOUS
    <2>1. store.messages = [m \in Messages |-> NoRow] BY DEF Init
    <2>2. NoRow.state = "absent" /\ NoRow.conflicted = FALSE /\ NoRow.text = None
          /\ NoRow.edited = 0
      BY DEF NoRow
    <2>3. 0 \in Stamps BY DisputesAssumption DEF Stamps
    <2>4. QED BY <2>1, <2>2, <2>3 DEF Life!Init
  <1>2. ASSUME IInv, [Next]_vars PROVE [Life!Next]_(Life!lifeVars)
    <2>1. CASE store' = store BY <2>1 DEF Life!lifeVars
    <2>2. CASE ImportCommit BY <1>2, <2>2, CommitReceives DEF Life!Next
    <2>3. CASE Answered BY <1>2, <2>3, AnswerSettles DEF Life!Next
    <2>4. CASE \E k \in Keys : Purge(k) BY <1>2, <2>4, PurgeWithdraws DEF Life!Next
    <2>5. ImportStep => store' = store \/ ImportCommit
      BY DEF ImportStep, ImportBegin, ImportRefused, ImportNew, ImportDuplicate, ImportEdit,
             ImportConflictAgain, ImportConflict, ImportDelete, ImportRollback,
             MessageItem, Item
    <2>6. OwnerStep => store' = store \/ Answered \/ \E k \in Keys : Purge(k)
      BY <1>2, OwnerSteps DEF Revoke, OpenPage, ClosePage, ClosePreview, OpenPreview
    <2>7. (\E k \in Keys : Admit(k)) \/ UNCHANGED vars => store' = store BY DEF Admit, vars
    <2>8. QED BY <1>2, <2>1, <2>2, <2>3, <2>4, <2>5, <2>6, <2>7 DEF Next
  <1>3. QED BY <1>1, <1>2, DisputesInductive, PTL DEF Spec, ImplementsMessageLife, Life!Spec

=============================================================================
