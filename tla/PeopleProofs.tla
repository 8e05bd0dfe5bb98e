----------------------------- MODULE PeopleProofs -----------------------------
(***************************************************************************)
(* Proofs about People, for every set of identities, names and people:     *)
(* what the run `people' checks on a small phone book.                     *)
(***************************************************************************)
EXTENDS People, FiniteSetTheorems, TLAPS

-----------------------------------------------------------------------------
(* The invariant.                                                          *)

Contact == {Unknown} \cup [name: Names, phone: Phones \cup {None}]

Snapshot == [row: 0..MaxPeople, for: Identities \cup {None}, made: 0..MaxPeople,
             holders: SUBSET Ids, hidden: [Phones -> 0..MaxPeople],
             names: [Ids -> Names \cup {None}]]

Operation == [op: {"save", "reset", "link"}, person: Ids, identity: Identities \cup {None},
              name: Names \cup Aliases \cup {None}]

\* The first k rows are those ever inserted, and each of them has a name.
InsertedUpTo(k) == \A p \in Ids : IF p <= k THEN people[p].name # None ELSE people[p] = NoRow

RowsInv ==
    /\ people \in [Ids -> Row]
    /\ link \in [Identities -> 0..MaxPeople]
    /\ phone \in [Identities -> Phones \cup {None}]
    /\ \A i \in Identities : link[i] # 0 => There(link[i])
    /\ \E k \in 0..MaxPeople : InsertedUpTo(k)

\* What an operation under way has read is what it needs to write.
ReadInv ==
    /\ contacts \in [Identities -> Contact]
    /\ pass \in Snapshot
    /\ pc \in {"each", "eachLink", "eachInsert", "drop"} => todo \subseteq Identities
    /\ pc \in {"ownInsert", "eachLink", "eachInsert", "drop"} => pass.for \in Identities
    /\ pc = "rename" => todo \subseteq {p \in Ids : pass.names[p] # None}
    /\ desk # None =>
        /\ desk \in Operation
        /\ desk.op = "link" => desk.identity \in Identities
        /\ desk.op = "reset" => desk.name # None

OwnerInv ==
    /\ \A p, q \in OwnerRows : p = q
    /\ pc = "promote" => OwnerRows = {}

AddressBook == RowsInv /\ ReadInv /\ OwnerInv

-----------------------------------------------------------------------------
(* A pass nobody disturbs.                                                 *)

OwnDone == (OwnAccounts # {} => OwnerRows # {}) /\ \A i \in OwnAccounts : link[i] # 0
AllDone == OwnDone /\ Candidates(Identities) = {}

\* The candidates of this channel that are still to be linked are those the loop
\* has left.
EachInv(channel) ==
    /\ todo \subseteq Candidates(channel)
    /\ pass.for \in channel \/ (pc = "each" /\ todo # {})
    /\ IF pc = "each" THEN Candidates(channel) \subseteq todo
       ELSE /\ Candidates(channel) \subseteq todo \cup {pass.for}
            /\ pass.for \notin todo /\ link[pass.for] = 0 /\ There(pass.row)
    /\ channel = WhatsApp => Candidates(Telegram) = {}

PassInv ==
    /\ pc # "drop"
    /\ pc = "promote" => There(pass.row)
    /\ pc \in {"fold", "ownLink", "ownInsert"} => pass.row \in OwnerRows
    /\ pc \in {"ownLink", "ownInsert"} =>
        \A i \in OwnAccounts \ todo : link[i] # 0 \/ (pc = "ownInsert" /\ i = pass.for)
    /\ pc \in {"hidden", "telegram", "whatsapp", "each", "eachLink", "eachInsert"} => OwnDone
    /\ pc \in {"telegram", "whatsapp", "each", "eachLink", "eachInsert"} =>
        \A n \in Phones : pass.hidden[n] # 0 => There(pass.hidden[n])
    /\ pc = "whatsapp" => Candidates(Telegram) = {}
    /\ pc \in {"each", "eachLink", "eachInsert"} => EachInv(Telegram) \/ EachInv(WhatsApp)
    /\ pc \in {"refresh", "group", "merge", "names", "rename", "end"} => AllDone

QuietOK == quiet \in {"no", "pass", "settled"}

QuietInv ==
    /\ QuietOK
    /\ pc \in {"holders", "ownerRow", "promote", "fold", "ownLink", "ownInsert"} => OwnAccounts # {}
    /\ quiet = "pass" => PassInv
    /\ quiet = "settled" =>
        /\ AllDone
        /\ pc \notin {"promote", "ownInsert", "each", "eachLink", "eachInsert", "drop"}

-----------------------------------------------------------------------------
(* The statements.                                                         *)

\* The least of a set of row ids is one of them.
LEMMA MinIs ==
    ASSUME NEW Upper \in Nat, NEW S \in SUBSET 1..Upper, S # {}
    PROVE  Min(S) \in S
<1> DEFINE R == StrictSubsetOrdering(1..Upper)
           T == {1..x : x \in S}
<1>1. IsFiniteSet(1..Upper) /\ Upper \in Nat
    BY FS_Interval
<1>2. IsWellFoundedOn(R, FiniteSubsetsOf(1..Upper))
    BY FS_StrictSubsetOrderingWellFounded
<1>3. T \subseteq FiniteSubsetsOf(1..Upper) /\ T # {}
    <2>1. \A x \in S : 1..x \in SUBSET (1..Upper) /\ IsFiniteSet(1..x)
        <3> SUFFICES ASSUME NEW x \in S PROVE 1..x \in SUBSET (1..Upper) /\ IsFiniteSet(1..x)
            OBVIOUS
        <3>1. 1..x \in SUBSET (1..Upper)
            OBVIOUS
        <3> QED BY <1>1, <3>1, FS_Subset
    <2>2. \A x \in S : 1..x \in FiniteSubsetsOf(1..Upper)
        BY <2>1 DEF FiniteSubsetsOf
    <2> QED BY <2>2
<1>4. \E t \in T : \A u \in T : <<u, t>> \notin R
    <2> HIDE DEF R, T
    <2> QED BY <1>2, <1>3, WFMin
<1>5. PICK m \in S : \A y \in S : <<1..y, 1..m>> \notin R
    BY <1>4
<1>6. ASSUME NEW y \in S, y < m PROVE FALSE
    <2>1. 1..y \subseteq 1..m /\ 1..y \subseteq 1..Upper /\ 1..m \subseteq 1..Upper
        BY <1>6
    <2>2. m \in 1..m /\ m \notin 1..y
        BY <1>6
    <2> QED BY <1>5, <2>1, <2>2 DEF StrictSubsetOrdering
<1>7. \A y \in S : m <= y
    BY <1>6
<1> QED BY <1>7, Zenon DEF Min

\* What a row is when one of its fields was written.
LEMMA RowFields ==
    ASSUME NEW r \in Row
    PROVE  /\ Deleted(r) \in Row /\ ~Deleted(r).there /\ ~Deleted(r).isOwner
           /\ Deleted(r).name = r.name
           /\ r.there \in BOOLEAN /\ r.archived \in BOOLEAN /\ r.isOwner \in BOOLEAN
           /\ r.source \in {"channel", "owner"} /\ r.name \in Names \cup Aliases \cup {None}
BY DEF Row, Deleted

\* No row says nobody.
LEMMA NoRowIs == NoRow \in Row /\ ~NoRow.there /\ ~NoRow.isOwner /\ NoRow.name = None
BY DEF NoRow, Row

\* The people that are there were inserted.
LEMMA ThereInserted ==
    ASSUME RowsInv, NEW p \in Ids, people[p].there \/ people[p].isOwner
    PROVE  people[p].name # None /\ people[p] # NoRow
<1>1. people[p] # NoRow
    BY NoRowIs
<1> QED BY <1>1 DEF RowsInv, InsertedUpTo

\* The next row is one that no person ever had.
LEMMA FreshIsNext ==
    ASSUME RowsInv, CanInsert
    PROVE  Fresh \in Ids /\ people[Fresh] = NoRow /\ InsertedUpTo(Fresh - 1)
<1>1. PICK k \in 0..MaxPeople : InsertedUpTo(k)
    BY DEF RowsInv
<1>2. {p \in Ids : people[p] # NoRow} = 1..k
    <2>1. \A p \in Ids : people[p] # NoRow <=> p <= k
        BY <1>1, NoRowIs DEF InsertedUpTo
    <2>2. 1..k \subseteq Ids /\ \A p \in Ids : p \in 1..k <=> p <= k
        BY PeopleAssumption DEF Ids
    <2> QED BY <2>1, <2>2
<1>3. Cardinality(1..k) = k /\ k \in Nat
    <2>1. k \in Int /\ k >= 0
        BY PeopleAssumption
    <2>2. Cardinality(1..k) = IF 1 > k THEN 0 ELSE k - 1 + 1
        BY <2>1, FS_Interval
    <2> QED BY <2>1, <2>2
<1>4. Fresh = 1 + k
    BY <1>2, <1>3 DEF Fresh
<1>5. Fresh \in Ids
    BY DEF CanInsert
<1>6. Fresh - 1 = k /\ ~(Fresh <= k)
    BY <1>3, <1>4
<1> QED BY <1>1, <1>5, <1>6 DEF InsertedUpTo

\* Rows that are kept, and links to people that are there, are an address book.
LEMMA RowsKept ==
    ASSUME RowsInv, people' \in [Ids -> Row], link' \in [Identities -> 0..MaxPeople],
           phone' \in [Identities -> Phones \cup {None}],
           \A p \in Ids : /\ people[p] = NoRow => people'[p] = NoRow
                          /\ people[p].name # None => people'[p].name # None,
           \A i \in Identities : link'[i] # 0 => people'[link'[i]].there
    PROVE  RowsInv'
<1>1. PICK k \in 0..MaxPeople : InsertedUpTo(k)
    BY DEF RowsInv
<1>2. \A p \in Ids : IF p <= k THEN people'[p].name # None ELSE people'[p] = NoRow
    BY <1>1 DEF InsertedUpTo
<1>3. \A i \in Identities : link'[i] # 0 => link'[i] \in Ids
    BY DEF Ids
<1> QED BY <1>2, <1>3 DEF RowsInv, InsertedUpTo, There

Inserts(r) ==
    /\ CanInsert /\ r \in Row /\ r.there /\ r.name # None
    /\ people' = [people EXCEPT ![Fresh] = r] /\ UNCHANGED <<link, phone>>

Writes(p, r) ==
    /\ There(p) /\ r \in Row /\ r.there /\ r.name # None
    /\ people' = [people EXCEPT ![p] = r] /\ UNCHANGED <<link, phone>>

\* A person is inserted: nobody else is touched.
LEMMA Inserted ==
    ASSUME RowsInv, NEW r, Inserts(r)
    PROVE  /\ Fresh \in Ids /\ people[Fresh] = NoRow /\ people'[Fresh] = r
           /\ \A p \in Ids : p # Fresh => people'[p] = people[p]
           /\ \A i \in Identities : link[i] # Fresh
           /\ RowsInv'
<1> PICK next : next = Fresh
    OBVIOUS
<1>1. next \in Ids /\ people[next] = NoRow /\ InsertedUpTo(next - 1)
    BY FreshIsNext DEF Inserts
<1>2. people \in [Ids -> Row] /\ people' = [people EXCEPT ![next] = r] /\ r \in Row
    BY DEF RowsInv, Inserts
<1>3. people' \in [Ids -> Row] /\ people'[next] = r
      /\ \A p \in Ids : p # next => people'[p] = people[p]
    BY <1>1, <1>2
<1>4. ASSUME NEW i \in Identities, link[i] # 0
      PROVE  link[i] # next /\ link[i] \in Ids /\ people[link[i]].there
    <2>1. There(link[i])
        BY <1>4 DEF RowsInv
    <2> QED BY <1>1, <2>1, NoRowIs DEF There
<1>5. \A i \in Identities : link[i] # next
    BY <1>1, <1>4, PeopleAssumption DEF Ids
<1>6. next \in 0..MaxPeople /\ \A p \in Ids : p <= next <=> p <= next - 1 \/ p = next
    BY <1>1, PeopleAssumption DEF Ids
<1>7. \A p \in Ids : IF p <= next THEN people'[p].name # None ELSE people'[p] = NoRow
    BY <1>1, <1>3, <1>6 DEF InsertedUpTo, Inserts
<1>8. \A i \in Identities : link'[i] # 0 => link'[i] \in Ids /\ people'[link'[i]].there
    BY <1>3, <1>4 DEF Inserts
<1>9. link' = link /\ phone' = phone
    BY DEF Inserts
<1>10. RowsInv'
    BY <1>3, <1>6, <1>7, <1>8, <1>9 DEF RowsInv, InsertedUpTo, There
<1> QED BY <1>1, <1>3, <1>5, <1>10

\* A person's row is written: nobody else is touched.
LEMMA Wrote ==
    ASSUME RowsInv, NEW p, NEW r, Writes(p, r)
    PROVE  /\ p \in Ids /\ people'[p] = r /\ \A q \in Ids : q # p => people'[q] = people[q]
           /\ RowsInv'
<1>1. p \in Ids /\ people[p].there /\ people \in [Ids -> Row] /\ r \in Row
      /\ people' = [people EXCEPT ![p] = r] /\ r.there /\ r.name # None
    BY DEF Writes, There, RowsInv
<1>2. people' \in [Ids -> Row] /\ people'[p] = r /\ \A q \in Ids : q # p => people'[q] = people[q]
    BY <1>1
<1>3. people[p] # NoRow
    BY <1>1, NoRowIs
<1>4. \A i \in Identities : link[i] # 0 => link[i] \in Ids /\ people[link[i]].there
    BY DEF RowsInv, There
<1>5. /\ link' \in [Identities -> 0..MaxPeople] /\ phone' \in [Identities -> Phones \cup {None}]
      /\ \A i \in Identities : link'[i] # 0 => people'[link'[i]].there
    BY <1>1, <1>2, <1>4 DEF Writes, RowsInv
<1>6. \A q \in Ids : /\ people[q] = NoRow => people'[q] = NoRow
                     /\ people[q].name # None => people'[q].name # None
    BY <1>1, <1>2, <1>3
<1>7. RowsInv'
    BY <1>2, <1>5, <1>6, RowsKept
<1> QED BY <1>1, <1>2, <1>7

\* An identity gets a person, or nothing happens.
LEMMA Linked ==
    ASSUME RowsInv, NEW p, NEW i \in Identities, NEW n \in Phones \cup {None}, LinkInsert(p, i, n)
    PROVE  /\ people' = people
           /\ \A j \in Identities : j # i \/ link[i] # 0 => link'[j] = link[j]
           /\ IF Linkable(p, i) THEN link'[i] = p /\ p # 0 ELSE link' = link
           /\ RowsInv'
<1>1. CASE ~Linkable(p, i)
    <2>1. people' = people /\ link' = link /\ phone' = phone
        BY <1>1 DEF LinkInsert, rows
    <2>2. RowsInv'
        BY <2>1 DEF RowsInv, InsertedUpTo, There
    <2> QED BY <1>1, <2>1, <2>2
<1>2. CASE Linkable(p, i)
    <2>1. /\ p \in Ids /\ people[p].there /\ link[i] = 0 /\ people' = people
          /\ link' = [link EXCEPT ![i] = p] /\ phone' = [phone EXCEPT ![i] = n]
        BY <1>2 DEF LinkInsert, Linkable, There
    <2>2. link \in [Identities -> 0..MaxPeople] /\ phone \in [Identities -> Phones \cup {None}]
        BY DEF RowsInv
    <2>3. p \in 0..MaxPeople /\ p # 0
        BY <2>1, PeopleAssumption DEF Ids
    <2>4. /\ link' \in [Identities -> 0..MaxPeople] /\ phone' \in [Identities -> Phones \cup {None}]
          /\ link'[i] = p /\ \A j \in Identities : j # i => link'[j] = link[j]
        BY <2>1, <2>2, <2>3
    <2>5. \A j \in Identities : link'[j] # 0 => people'[link'[j]].there
        BY <2>1, <2>4 DEF RowsInv, There
    <2>6. RowsInv'
        BY <2>1, <2>4, <2>5, RowsKept DEF RowsInv
    <2> QED BY <1>2, <2>1, <2>3, <2>4, <2>6
<1> QED BY <1>1, <1>2

\* Two people become one: the one that goes is not the owner and not hidden, and
\* the one that stays has a name the owner chose if either had.
LEMMA Merged ==
    ASSUME RowsInv, NEW from, NEW into, Merge(from, into), MayMerge(from, into)
    PROVE  /\ from \in Ids /\ into \in Ids /\ from # into /\ into # 0
           /\ people[from].there /\ ~people[from].archived /\ ~people[from].isOwner
           /\ people[into].there /\ ~people[into].archived
           /\ ~people'[from].there /\ ~people'[from].isOwner
           /\ people'[into].there /\ people'[into].isOwner = people[into].isOwner
           /\ ~people'[into].archived
           /\ people[into].source = "owner" =>
                people'[into].source = "owner" /\ people'[into].name = people[into].name
           /\ people[from].source = "owner" => people'[into].source = "owner"
           /\ \A q \in Ids : q # from /\ q # into => people'[q] = people[q]
           /\ \A i \in Identities : link'[i] = IF link[i] = from THEN into ELSE link[i]
           /\ RowsInv'
<1>1. /\ from \in Ids /\ into \in Ids /\ from # into /\ into \in 0..MaxPeople /\ into # 0
      /\ people[from].there /\ ~people[from].archived /\ ~people[from].isOwner
      /\ people[into].there /\ ~people[into].archived
    BY PeopleAssumption DEF MayMerge, Alive, There, Ids
<1>2. /\ people \in [Ids -> Row] /\ link \in [Identities -> 0..MaxPeople]
      /\ phone \in [Identities -> Phones \cup {None}]
    BY DEF RowsInv
<1> PICK a, b : a = people[from] /\ b = people[into]
    OBVIOUS
<1> PICK s, d : s = Survivor(from, into) /\ d = Deleted(a)
    OBVIOUS
<1>3. a \in Row /\ b \in Row
    BY <1>1, <1>2
<1>4. a.name # None /\ b.name # None
    BY <1>1, ThereInserted
<1>5. d \in Row /\ ~d.there /\ ~d.isOwner /\ d.name # None
    BY <1>3, <1>4, RowFields
<1>6. /\ s \in Row /\ s.there = b.there /\ s.isOwner = b.isOwner /\ s.archived = b.archived
      /\ b.source = "owner" => s.source = "owner" /\ s.name = b.name
      /\ a.source = "owner" => s.source = "owner"
      /\ s.name # None
    <2>1. CASE b.source = "channel" /\ a.source = "owner"
        <3>1. s = [b EXCEPT !.name = a.name, !.source = "owner"]
            BY <2>1 DEF Survivor
        <3>2. a.name \in Names \cup Aliases \cup {None}
            BY <1>3, RowFields
        <3> QED BY <1>3, <1>4, <2>1, <3>1, <3>2 DEF Row
    <2>2. CASE ~(b.source = "channel" /\ a.source = "owner")
        <3>1. s = b
            BY <2>2 DEF Survivor
        <3>2. b.source = "channel" \/ b.source = "owner"
            BY <1>3, RowFields
        <3> QED BY <1>3, <1>4, <2>2, <3>1, <3>2
    <2> QED BY <2>1, <2>2
<1>7. /\ people' = [people EXCEPT ![into] = s, ![from] = d]
      /\ link' = [i \in Identities |-> IF link[i] = from THEN into ELSE link[i]]
      /\ phone' = phone
    BY <1>1, <1>2 DEF Merge
<1>8. /\ people' \in [Ids -> Row] /\ people'[into] = s /\ people'[from] = d
      /\ \A q \in Ids : q # from /\ q # into => people'[q] = people[q]
    BY <1>1, <1>2, <1>5, <1>6, <1>7
<1>9. /\ link' \in [Identities -> 0..MaxPeople] /\ phone' \in [Identities -> Phones \cup {None}]
      /\ \A i \in Identities : link'[i] = IF link[i] = from THEN into ELSE link[i]
    BY <1>1, <1>2, <1>7
<1>10. people'[into].there /\ s.there
    BY <1>1, <1>6, <1>8
<1>11. ASSUME NEW i \in Identities, link'[i] # 0 PROVE people'[link'[i]].there
    <2>1. CASE link[i] = from
        BY <1>9, <1>10, <2>1
    <2>2. CASE link[i] # from
        <3>1. link[i] \in Ids /\ people[link[i]].there
            BY <1>9, <1>11, <2>2 DEF RowsInv, There
        <3> QED BY <1>8, <1>9, <1>10, <2>2, <3>1
    <2> QED BY <2>1, <2>2
<1>12. ASSUME NEW q \in Ids
       PROVE  /\ people[q] = NoRow => people'[q] = NoRow
              /\ people[q].name # None => people'[q].name # None
    <2>1. people[from] # NoRow /\ people[into] # NoRow
        BY <1>1, ThereInserted
    <2> QED BY <1>5, <1>6, <1>8, <2>1
<1>13. RowsInv'
    BY <1>8, <1>9, <1>11, <1>12, RowsKept
<1> QED BY <1>1, <1>5, <1>6, <1>8, <1>9, <1>10, <1>13

\* A person that is deleted takes its links with it.
LEMMA DeletedOne ==
    ASSUME RowsInv, NEW p, Delete(p)
    PROVE  /\ \A q \in Ids : q # p => people'[q] = people[q]
           /\ p \in Ids => ~people'[p].there /\ ~people'[p].isOwner
           /\ \A i \in Identities : link'[i] = IF link[i] = p THEN 0 ELSE link[i]
           /\ RowsInv'
<1>1. /\ people \in [Ids -> Row] /\ link \in [Identities -> 0..MaxPeople]
      /\ phone \in [Identities -> Phones \cup {None}] /\ 0 \in 0..MaxPeople
    BY PeopleAssumption DEF RowsInv
<1> PICK d : d = Deleted(people[p])
    OBVIOUS
<1>2. p \in Ids => d \in Row /\ ~d.there /\ ~d.isOwner /\ d.name = people[p].name
    BY <1>1, RowFields
<1>3. people' = [people EXCEPT ![p] = d]
    BY DEF Delete
<1>4. /\ people' \in [Ids -> Row]
      /\ p \in Ids => people'[p] = d
      /\ \A q \in Ids : q # p => people'[q] = people[q]
    BY <1>1, <1>2, <1>3
<1>5. /\ link' \in [Identities -> 0..MaxPeople] /\ phone' \in [Identities -> Phones \cup {None}]
      /\ \A i \in Identities : link'[i] = IF link[i] = p THEN 0 ELSE link[i]
    BY <1>1 DEF Delete
<1>6. ASSUME NEW q \in Ids
      PROVE  /\ people[q] = NoRow => people'[q] = NoRow
             /\ people[q].name # None => people'[q].name # None
    <2>1. people[q] = NoRow => Deleted(people[q]) = NoRow
        <3>1. PICK none : none = NoRow
            OBVIOUS
        <3>2. none \in Row /\ none.there = FALSE /\ none.isOwner = FALSE
            BY <3>1, NoRowIs DEF NoRow
        <3>3. [none EXCEPT !.there = none.there, !.isOwner = none.isOwner] = none
            BY <3>2 DEF Row
        <3>4. Deleted(none) = [none EXCEPT !.there = none.there, !.isOwner = none.isOwner]
            BY <3>2, Zenon DEF Deleted
        <3> QED BY <3>1, <3>3, <3>4
    <2> QED BY <1>2, <1>4, <2>1
<1>7. ASSUME NEW i \in Identities, link'[i] # 0 PROVE people'[link'[i]].there
    <2>1. link[i] # p /\ link'[i] = link[i] /\ link[i] \in Ids /\ people[link[i]].there
        BY <1>5, <1>7 DEF RowsInv, There
    <2> QED BY <1>4, <2>1
<1>8. RowsInv'
    BY <1>4, <1>5, <1>6, <1>7, RowsKept
<1> QED BY <1>2, <1>4, <1>5, <1>8

-----------------------------------------------------------------------------
(* What the steps of a pass, and the owner's, do to the rows.              *)

\* Nobody is inserted, deleted, linked or unlinked.
Same == people' = people /\ link' = link /\ phone' \in [Identities -> Phones \cup {None}]

\* The name the owner chose, whether somebody is hidden and who the owner is stay.
KeepsChoice(p, r) ==
    /\ r.archived = people[p].archived
    /\ people[p].isOwner => r.isOwner
    /\ people[p].source = "owner" => r.source = "owner" /\ r.name = people[p].name

PassStep ==
    \/ Same
    \/ \E r \in Row : Inserts(r) /\ (r.isOwner => OwnerRows = {})
    \/ \E p \in Ids, r \in Row :
        Writes(p, r) /\ KeepsChoice(p, r) /\ (r.isOwner => people[p].isOwner \/ OwnerRows = {})
    \/ \E p, n : n \in Phones \cup {None} /\ pass.for \in Identities /\ LinkInsert(p, pass.for, n)
    \/ \E from, into : MayMerge(from, into) /\ Merge(from, into)
    \/ pc = "drop" /\ Delete(pass.made)

\* The owner never makes somebody the owner.
PortalStep ==
    \/ Same
    \/ \E r \in Row : Inserts(r) /\ ~r.isOwner
    \/ \E p \in Ids, r \in Row : Writes(p, r) /\ r.isOwner = people[p].isOwner
    \/ \E p, n : \E i \in Identities : n \in Phones \cup {None} /\ LinkInsert(p, i, n)
    \/ \E from, into : MayMerge(from, into) /\ Merge(from, into)
    \/ people' = people /\ \E i \in Identities : Unlink(i)

\* A number, as the candidate's contact or its id has it.
LEMMA PhoneTyped ==
    ASSUME ReadInv, NEW i \in Identities
    PROVE  PhoneSeen(i) \in Phones \cup {None} /\ JidPhone(i) \in Phones \cup {None}
<1>1. contacts[i] \in Contact
    BY DEF ReadInv
<1>2. contacts[i].phone \in Phones \cup {None}
    BY <1>1 DEF Contact, Unknown
<1>3. PhoneOf[i] \in Phones
    BY DEF Phones
<1> QED BY <1>2, <1>3 DEF PhoneSeen, JidPhone

\* A name, as the candidate's contact or its chat has it.
LEMMA NameTyped ==
    ASSUME ReadInv, NEW i \in Identities
    PROVE  /\ NameSeen(i) \in Names
           /\ contacts[i].name # None => contacts[i].name \in Names
<1>1. contacts[i] \in Contact
    BY DEF ReadInv
<1>2. contacts[i] # Unknown => contacts[i].name \in Names
    BY <1>1 DEF Contact
<1>3. Unknown.name = None
    BY DEF Unknown
<1> QED BY <1>2, <1>3, PeopleAssumption DEF NameSeen

\* Nothing is written.
LEMMA NothingWritten == ASSUME RowsInv, UNCHANGED rows PROVE Same
BY DEF rows, RowsInv, Same

\* A merge that is refused writes nothing.
LEMMA MergesOrNot ==
    ASSUME RowsInv, NEW from, NEW into, Merge(from, into)
    PROVE  Same \/ (MayMerge(from, into) /\ Merge(from, into))
<1>1. CASE ~MayMerge(from, into)
    BY <1>1, NothingWritten DEF Merge
<1> QED BY <1>1

\* A new person's row.
LEMMA NewPerson ==
    ASSUME NEW name \in Names \cup Aliases, NEW source \in {"channel", "owner"},
           NEW isOwner \in BOOLEAN,
           NEW r, r = [there |-> TRUE, name |-> name, source |-> source, archived |-> FALSE,
                       isOwner |-> isOwner]
    PROVE  r \in Row /\ r.there /\ r.name # None /\ r.isOwner = isOwner
<1>1. name # None
    BY PeopleAssumption
<1>2. r.name = name /\ r.there = TRUE /\ r.isOwner = isOwner
    OBVIOUS
<1> QED BY <1>1, <1>2 DEF Row

\* The pass on the owner's own row.
LEMMA OwnerStepWrites == ASSUME AddressBook, OwnerStep PROVE PassStep
<1>1. RowsInv /\ ReadInv /\ OwnerInv
    BY DEF AddressBook
<1>2. CASE PassBegin \/ OwnerFound \/ OwnerPick \/ \E i \in OwnAccounts : OwnHolder(i) \/ OwnLink(i)
    <2>1. UNCHANGED rows
        BY <1>2 DEF PassBegin, OwnerFound, OwnerPick, OwnHolder, OwnLink
    <2> QED BY <1>1, <2>1, NothingWritten DEF PassStep
<1>3. CASE OwnerPromote
    <2>1. CASE ~There(pass.row)
        <3>1. UNCHANGED rows
            BY <1>3, <2>1 DEF OwnerPromote, rows
        <3> QED BY <1>1, <3>1, NothingWritten DEF PassStep
    <2>2. CASE There(pass.row)
        <3> PICK p, a : p = pass.row /\ a = people[p]
            OBVIOUS
        <3> PICK r : r = [a EXCEPT !.isOwner = TRUE]
            OBVIOUS
        <3>1. p \in Ids /\ a \in Row /\ a.there
            BY <1>1, <2>2 DEF There, RowsInv
        <3>2. a.name # None
            BY <1>1, <3>1, ThereInserted
        <3>3. /\ r \in Row /\ r.there /\ r.name = a.name /\ r.archived = a.archived
              /\ r.source = a.source /\ r.isOwner
            BY <3>1 DEF Row
        <3>4. people' = [people EXCEPT ![p] = r] /\ UNCHANGED <<link, phone>> /\ pc = "promote"
            BY <1>3, <2>2, Zenon DEF OwnerPromote, Worker
        <3>5. OwnerRows = {}
            BY <1>1, <3>4 DEF OwnerInv
        <3>6. Writes(p, r) /\ KeepsChoice(p, r)
            BY <2>2, <3>1, <3>2, <3>3, <3>4 DEF Writes, KeepsChoice
        <3> QED BY <3>1, <3>3, <3>5, <3>6 DEF PassStep
    <2> QED BY <2>1, <2>2
<1>4. CASE OwnerInsert
    <2> PICK owner : owner = TRUE
        OBVIOUS
    <2> PICK r : r = [there |-> TRUE, name |-> ChatName, source |-> "channel", archived |-> FALSE,
                      isOwner |-> owner]
        OBVIOUS
    <2>1. r \in Row /\ r.there /\ r.name # None
        BY NewPerson, PeopleAssumption
    <2>2. /\ people' = [people EXCEPT ![Fresh] = r] /\ UNCHANGED <<link, phone>> /\ CanInsert
          /\ OwnerRows = {}
        BY <1>4, Zenon DEF OwnerInsert, Insert
    <2> QED BY <2>1, <2>2 DEF Inserts, PassStep
<1>5. CASE \E p \in Ids : FoldHolder(p)
    <2>1. PICK p \in Ids : Merge(p, pass.row)
        BY <1>5 DEF FoldHolder
    <2>2. Same \/ (MayMerge(p, pass.row) /\ Merge(p, pass.row))
        BY <1>1, <2>1, MergesOrNot
    <2> QED BY <2>2 DEF PassStep
<1>6. CASE OwnInsert
    <2>1. pass.for \in Identities /\ LinkInsert(pass.row, pass.for, JidPhone(pass.for))
        BY <1>1, <1>6 DEF OwnInsert, Worker, ReadInv
    <2>2. JidPhone(pass.for) \in Phones \cup {None}
        BY <1>1, <2>1, PhoneTyped
    <2> QED BY <2>1, <2>2 DEF PassStep
<1> QED BY <1>2, <1>3, <1>4, <1>5, <1>6 DEF OwnerStep

\* The pass on those who have no person yet.
LEMMA CandidateStepWrites == ASSUME AddressBook, CandidateStep PROVE PassStep
<1>1. RowsInv /\ ReadInv /\ OwnerInv
    BY DEF AddressBook
<1>2. CASE ReadHidden \/ ReadCandidates \/ EachLink \/ EachDone
               \/ \E i \in Identities : EachHidden(i)
    <2>1. UNCHANGED rows
        BY <1>2 DEF ReadHidden, ReadCandidates, EachLink, EachDone, EachHidden
    <2> QED BY <1>1, <2>1, NothingWritten DEF PassStep
<1>3. CASE \E i \in Identities : EachCreate(i)
    <2>1. PICK i \in Identities : EachCreate(i)
        BY <1>3
    <2> PICK owner : owner = FALSE
        OBVIOUS
    <2> PICK name : name = NameSeen(i)
        OBVIOUS
    <2> PICK r : r = [there |-> TRUE, name |-> name, source |-> "channel", archived |-> FALSE,
                      isOwner |-> owner]
        OBVIOUS
    <2>2. name \in Names
        BY <1>1, NameTyped
    <2>3. r \in Row /\ r.there /\ r.name # None /\ ~r.isOwner
        BY <2>2, NewPerson
    <2>4. people' = [people EXCEPT ![Fresh] = r] /\ UNCHANGED <<link, phone>> /\ CanInsert
        BY <2>1, Zenon DEF EachCreate, Insert
    <2> QED BY <2>3, <2>4 DEF Inserts, PassStep
<1>4. CASE EachInsert
    <2>1. pass.for \in Identities /\ LinkInsert(pass.row, pass.for, PhoneSeen(pass.for))
        BY <1>1, <1>4 DEF EachInsert, Worker, ReadInv
    <2>2. PhoneSeen(pass.for) \in Phones \cup {None}
        BY <1>1, <2>1, PhoneTyped
    <2> QED BY <2>1, <2>2 DEF PassStep
<1>5. CASE EachDrop
    BY <1>5 DEF EachDrop, Worker, PassStep
<1> QED BY <1>2, <1>3, <1>4, <1>5 DEF CandidateStep

\* The pass on numbers, people that share them, and the names they have.
LEMMA FollowStepWrites == ASSUME AddressBook, FollowStep PROVE PassStep
<1>1. RowsInv /\ ReadInv /\ OwnerInv
    BY DEF AddressBook
<1>2. CASE ByPhone \/ ReadNames \/ PassEnd
    <2>1. UNCHANGED rows
        BY <1>2 DEF ByPhone, ReadNames, PassEnd
    <2> QED BY <1>1, <2>1, NothingWritten DEF PassStep
<1>3. CASE RefreshIdentities
    <2>1. phone \in [Identities -> Phones \cup {None}]
        BY <1>1 DEF RowsInv
    <2>2. \A i \in Identities : contacts[i].phone \in Phones \cup {None}
        <3> SUFFICES ASSUME NEW i \in Identities PROVE contacts[i].phone \in Phones \cup {None}
            OBVIOUS
        <3>1. contacts[i] \in Contact
            BY <1>1 DEF ReadInv
        <3> QED BY <3>1 DEF Contact, Unknown
    <2>3. phone' \in [Identities -> Phones \cup {None}]
        BY <1>3, <2>1, <2>2 DEF RefreshIdentities
    <2> QED BY <1>3, <2>3 DEF RefreshIdentities, Same, PassStep
<1>4. CASE \E pair \in Ids \X Ids : MergeShared(pair)
    <2>1. PICK pair \in Ids \X Ids : Merge(pair[1], pair[2])
        BY <1>4 DEF MergeShared
    <2>2. Same \/ (MayMerge(pair[1], pair[2]) /\ Merge(pair[1], pair[2]))
        BY <1>1, <2>1, MergesOrNot
    <2> QED BY <2>2 DEF PassStep
<1>5. CASE \E p \in Ids : Rename(p)
    <2>1. PICK p \in Ids : Rename(p)
        BY <1>5
    <2>2. CASE ~Renames(p)
        <3>1. UNCHANGED rows
            BY <2>1, <2>2 DEF Rename, rows
        <3> QED BY <1>1, <3>1, NothingWritten DEF PassStep
    <2>3. CASE Renames(p)
        <3> PICK a, name : a = people[p] /\ name = pass.names[p]
            OBVIOUS
        <3> PICK r : r = [a EXCEPT !.name = name]
            OBVIOUS
        <3>1. a \in Row /\ a.there /\ a.source = "channel" /\ ~a.isOwner /\ There(p)
            BY <1>1, <2>3 DEF Renames, Follows, Alive, There, RowsInv
        <3>2. name \in Names /\ name # None
            <4>1. pass \in Snapshot /\ p \in todo /\ pc = "rename"
                BY <1>1, <2>1 DEF ReadInv, Rename, Worker
            <4>2. pass.names \in [Ids -> Names \cup {None}]
                BY <4>1 DEF Snapshot
            <4>3. name # None
                BY <1>1, <4>1 DEF ReadInv
            <4> QED BY <4>2, <4>3
        <3>3. /\ r \in Row /\ r.there /\ r.name # None /\ r.archived = a.archived
              /\ ~r.isOwner
            BY <3>1, <3>2 DEF Row
        <3>4. people' = [people EXCEPT ![p] = r] /\ UNCHANGED <<link, phone>>
            BY <2>1, <2>3, Zenon DEF Rename
        <3>5. Writes(p, r) /\ KeepsChoice(p, r)
            BY <3>1, <3>3, <3>4 DEF Writes, KeepsChoice
        <3> QED BY <3>3, <3>5 DEF PassStep
    <2> QED BY <2>2, <2>3
<1> QED BY <1>2, <1>3, <1>4, <1>5 DEF FollowStep

\* The owner hides or shows somebody.
LEMMA HideWrites ==
    ASSUME AddressBook, NEW p \in Ids, Hide(p) \/ Restore(p)
    PROVE  PortalStep
<1> PICK a : a = people[p]
    OBVIOUS
<1> PICK hidden \in BOOLEAN : people' = [people EXCEPT ![p].archived = hidden]
    BY Zenon DEF Hide, Restore
<1> PICK r : r = [a EXCEPT !.archived = hidden]
    OBVIOUS
<1>1. RowsInv /\ There(p)
    BY DEF AddressBook, Hide, Restore, Alive
<1>2. a \in Row /\ a.there
    BY <1>1 DEF There, RowsInv
<1>3. a.name # None
    BY <1>1, <1>2, ThereInserted
<1>4. r \in Row /\ r.there /\ r.name = a.name /\ r.isOwner = a.isOwner
    BY <1>2 DEF Row
<1>5. people' = [people EXCEPT ![p] = r] /\ UNCHANGED <<link, phone>>
    BY Zenon DEF Hide, Restore
<1> QED BY <1>1, <1>3, <1>4, <1>5 DEF Writes, PortalStep

\* A form is saved, a name is reset to the channel's, an identity is linked.
LEMMA DeskWrites == ASSUME AddressBook, DeskWrite PROVE PortalStep
<1>1. RowsInv /\ ReadInv
    BY DEF AddressBook
<1> PICK p, a, d : p = desk.person /\ a = people[p] /\ d = desk
    OBVIOUS
<1>2. /\ d \in Operation /\ p \in Ids
      /\ d.op = "link" => d.identity \in Identities
      /\ d.op = "reset" => d.name # None
      /\ d.name \in Names \cup Aliases \cup {None}
    BY <1>1 DEF DeskWrite, ReadInv, Operation
<1>3. CASE d.op = "link"
    <2> PICK i, n : i = d.identity /\ n = PhoneSeen(d.identity)
        OBVIOUS
    <2>1. LinkInsert(p, i, n)
        BY <1>3 DEF DeskWrite
    <2>2. i \in Identities /\ n \in Phones \cup {None}
        BY <1>1, <1>2, <1>3, PhoneTyped
    <2> QED BY <2>1, <2>2 DEF PortalStep
<1>4. CASE d.op # "link" /\ ~Alive(p)
    <2>1. UNCHANGED rows
        BY <1>4 DEF DeskWrite, rows
    <2> QED BY <1>1, <2>1, NothingWritten DEF PortalStep
<1>5. CASE d.op # "link" /\ Alive(p)
    <2> PICK r : r = Written(p)
        OBVIOUS
    <2>1. a \in Row /\ a.there /\ There(p)
        BY <1>1, <1>5 DEF Alive, There, RowsInv
    <2>2. a.name # None
        BY <1>1, <1>2, <2>1, ThereInserted
    <2>3. r \in Row /\ r.there /\ r.name # None /\ r.isOwner = a.isOwner
        <3>1. CASE d.op = "reset"
            <4>1. r = [a EXCEPT !.name = d.name, !.source = "channel"]
                BY <3>1 DEF Written
            <4> QED BY <1>2, <2>1, <3>1, <4>1 DEF Row
        <3>2. CASE d.op # "reset" /\ d.name # None
            <4>1. r = [a EXCEPT !.name = d.name, !.source = "owner"]
                BY <3>2 DEF Written
            <4> QED BY <1>2, <2>1, <3>2, <4>1 DEF Row
        <3>3. CASE d.op # "reset" /\ d.name = None
            <4>1. r = a
                BY <3>3 DEF Written
            <4> QED BY <2>1, <2>2, <4>1
        <3> QED BY <3>1, <3>2, <3>3
    <2>4. people' = [people EXCEPT ![p] = r] /\ UNCHANGED <<link, phone>>
        BY <1>5 DEF DeskWrite
    <2> QED BY <1>2, <2>1, <2>3, <2>4 DEF Writes, PortalStep
<1> QED BY <1>3, <1>4, <1>5

\* What the owner does in the portal.
LEMMA PortalWrites == ASSUME AddressBook, Portal PROVE PortalStep
<1>1. RowsInv
    BY DEF AddressBook
<1>2. ASSUME NEW name \in Aliases, CreatePerson(name) PROVE PortalStep
    <2> PICK owner : owner = FALSE
        OBVIOUS
    <2> PICK r : r = [there |-> TRUE, name |-> name, source |-> "owner", archived |-> FALSE,
                      isOwner |-> owner]
        OBVIOUS
    <2>1. r \in Row /\ r.there /\ r.name # None /\ ~r.isOwner
        BY NewPerson
    <2>2. people' = [people EXCEPT ![Fresh] = r] /\ UNCHANGED <<link, phone>> /\ CanInsert
        BY <1>2, Zenon DEF CreatePerson, Insert
    <2> QED BY <2>1, <2>2 DEF Inserts, PortalStep
<1>3. ASSUME NEW p \in Ids, Hide(p) \/ Restore(p) PROVE PortalStep
    BY <1>3, HideWrites
<1>4. ASSUME NEW p \in Ids, NEW q \in Ids, MergeByHand(p, q) PROVE PortalStep
    BY <1>4 DEF MergeByHand, PortalStep
<1>5. ASSUME NEW i \in Identities, Unlink(i) PROVE PortalStep
    BY <1>5 DEF Unlink, PortalStep
<1>6. ASSUME \/ \E p \in Ids : ResetRead(p)
             \/ \E p \in Ids, name \in Names \cup Aliases : SaveRead(p, name)
             \/ \E p \in Ids, i \in Identities : LinkRead(p, i)
      PROVE  PortalStep
    <2>1. UNCHANGED rows
        BY <1>6 DEF ResetRead, SaveRead, LinkRead, Desk
    <2> QED BY <1>1, <2>1, NothingWritten DEF PortalStep
<1> QED BY <1>2, <1>3, <1>4, <1>5, <1>6, DeskWrites, Zenon DEF Portal

-----------------------------------------------------------------------------
(* The rows and the owner.                                                 *)

\* An identity is taken from its person.
LEMMA Unlinked ==
    ASSUME RowsInv, NEW i \in Identities, Unlink(i), people' = people
    PROVE  RowsInv'
<1>1. /\ link' = [link EXCEPT ![i] = 0] /\ phone' = [phone EXCEPT ![i] = None]
      /\ link \in [Identities -> 0..MaxPeople] /\ phone \in [Identities -> Phones \cup {None}]
      /\ 0 \in 0..MaxPeople
    BY PeopleAssumption DEF Unlink, RowsInv
<1>2. /\ link' \in [Identities -> 0..MaxPeople] /\ phone' \in [Identities -> Phones \cup {None}]
      /\ \A j \in Identities : link'[j] # 0 => link'[j] = link[j]
    BY <1>1
<1>3. \A j \in Identities : link'[j] # 0 => people'[link'[j]].there
    BY <1>2 DEF RowsInv, There
<1> QED BY <1>2, <1>3, RowsKept DEF RowsInv

\* An identity that has a person keeps having one, and the owner is the owner.
Grows ==
    /\ \A i \in Identities : link[i] # 0 => link'[i] # 0
    /\ OwnerRows \subseteq OwnerRows'

\* Whoever is the owner was it before.
NoNewOwner == \A p \in Ids : people'[p].there /\ people'[p].isOwner => p \in OwnerRows

\* No owner is made of somebody while there is one.
OwnersKept ==
    \/ NoNewOwner
    \/ OwnerRows = {} /\ \E q : \A p \in Ids : people'[p].there /\ people'[p].isOwner => p = q

\* A person who stays as they were is the owner only if they were.
LEMMA SameOwner ==
    ASSUME NEW p \in Ids, people'[p] = people[p], people'[p].there, people'[p].isOwner
    PROVE  p \in OwnerRows
BY DEF OwnerRows, There

\* Whatever a pass or the owner does to a row, it is an address book.
LEMMA StepsKeepRows ==
    ASSUME RowsInv
    PROVE  /\ PassStep => RowsInv' /\ OwnersKept
           /\ PortalStep => RowsInv' /\ NoNewOwner
<1>1. ASSUME Same PROVE RowsInv' /\ NoNewOwner
    <2>1. /\ people' = people /\ link' = link /\ phone' \in [Identities -> Phones \cup {None}]
        BY <1>1 DEF Same
    <2>2. RowsInv'
        BY <2>1 DEF RowsInv, InsertedUpTo, There
    <2> QED BY <2>1, <2>2, SameOwner DEF OwnersKept, NoNewOwner
<1>2. ASSUME NEW r \in Row, Inserts(r), r.isOwner => OwnerRows = {}
      PROVE  RowsInv' /\ OwnersKept /\ (~r.isOwner => NoNewOwner)
    <2>1. /\ RowsInv' /\ people'[Fresh] = r
          /\ \A p \in Ids : p # Fresh => people'[p] = people[p]
        BY <1>2, Inserted
    <2>2. CASE r.isOwner
        <3>1. \A p \in Ids : people'[p].there /\ people'[p].isOwner => p = Fresh
            BY <1>2, <2>1, <2>2, SameOwner
        <3> QED BY <1>2, <2>1, <2>2, <3>1 DEF OwnersKept, NoNewOwner
    <2>3. CASE ~r.isOwner
        BY <2>1, <2>3, SameOwner DEF OwnersKept, NoNewOwner
    <2> QED BY <2>2, <2>3
<1>3. ASSUME NEW p \in Ids, NEW r \in Row, Writes(p, r),
             r.isOwner => people[p].isOwner \/ OwnerRows = {}
      PROVE  /\ RowsInv' /\ OwnersKept
             /\ (r.isOwner => people[p].isOwner) => NoNewOwner
    <2>1. /\ RowsInv' /\ people'[p] = r /\ \A q \in Ids : q # p => people'[q] = people[q]
        BY <1>3, Wrote
    <2>2. There(p)
        BY <1>3 DEF Writes
    <2>3. CASE r.isOwner => people[p].isOwner
        <3>1. r.isOwner => p \in OwnerRows
            BY <2>2, <2>3 DEF OwnerRows
        <3> QED BY <2>1, <3>1, SameOwner DEF OwnersKept, NoNewOwner
    <2>4. CASE r.isOwner /\ ~people[p].isOwner /\ OwnerRows = {}
        <3>1. \A q \in Ids : people'[q].there /\ people'[q].isOwner => q = p
            BY <2>1, <2>4, SameOwner
        <3> QED BY <2>1, <2>4, <3>1 DEF OwnersKept, NoNewOwner
    <2> QED BY <1>3, <2>3, <2>4
<1>4. ASSUME NEW p, NEW i \in Identities, NEW n \in Phones \cup {None}, LinkInsert(p, i, n)
      PROVE  RowsInv' /\ NoNewOwner
    <2>1. RowsInv' /\ people' = people
        BY <1>4, Linked
    <2> QED BY <2>1, SameOwner DEF OwnersKept, NoNewOwner
<1>5. ASSUME NEW from, NEW into, MayMerge(from, into), Merge(from, into)
      PROVE  RowsInv' /\ NoNewOwner
    <2>1. /\ RowsInv' /\ into \in Ids /\ people[into].there
          /\ ~people'[from].there /\ people'[into].isOwner = people[into].isOwner
          /\ \A q \in Ids : q # from /\ q # into => people'[q] = people[q]
        BY <1>5, Merged
    <2>2. people[into].isOwner => into \in OwnerRows
        BY <2>1 DEF OwnerRows, There
    <2> QED BY <2>1, <2>2, SameOwner DEF OwnersKept, NoNewOwner
<1>6. ASSUME Delete(pass.made) PROVE RowsInv' /\ NoNewOwner
    <2>1. /\ RowsInv' /\ \A q \in Ids : q # pass.made => people'[q] = people[q]
          /\ pass.made \in Ids => ~people'[pass.made].there
        BY <1>6, DeletedOne
    <2> QED BY <2>1, SameOwner DEF OwnersKept, NoNewOwner
<1>7. ASSUME NEW i \in Identities, Unlink(i), people' = people PROVE RowsInv' /\ NoNewOwner
    BY <1>7, Unlinked, SameOwner DEF OwnersKept, NoNewOwner
<1>8. ASSUME PassStep PROVE RowsInv' /\ OwnersKept
    <2>1. NoNewOwner => OwnersKept
        BY DEF OwnersKept
    <2> QED BY <1>1, <1>2, <1>3, <1>4, <1>5, <1>6, <1>8, <2>1, Zenon DEF PassStep
<1>9. ASSUME PortalStep PROVE RowsInv' /\ NoNewOwner
    <2>1. ASSUME NEW r \in Row, Inserts(r), ~r.isOwner PROVE RowsInv' /\ NoNewOwner
        BY <1>2, <2>1
    <2>2. ASSUME NEW p \in Ids, NEW r \in Row, Writes(p, r), r.isOwner = people[p].isOwner
          PROVE  RowsInv' /\ NoNewOwner
        BY <1>3, <2>2
    <2> QED BY <1>1, <1>4, <1>5, <1>7, <1>9, <2>1, <2>2, Zenon DEF PortalStep
<1> QED BY <1>8, <1>9

\* There is one owner row, whoever takes the step.
LEMMA OwnersStay ==
    ASSUME OwnerInv, OwnersKept, pc' = "promote" => OwnerRows = {} /\ NoNewOwner
    PROVE  OwnerInv'
<1>1. \A p \in OwnerRows' : p \in Ids /\ people'[p].there /\ people'[p].isOwner
    BY DEF OwnerRows, There
<1>2. \A p, q \in OwnerRows' : p = q
    <2>1. CASE NoNewOwner
        BY <1>1, <2>1 DEF OwnerInv, NoNewOwner
    <2>2. CASE ~NoNewOwner
        BY <1>1, <2>2 DEF OwnersKept
    <2> QED BY <2>1, <2>2
<1>3. pc' = "promote" => OwnerRows' = {}
    BY <1>1 DEF NoNewOwner
<1> QED BY <1>2, <1>3 DEF OwnerInv

\* A holder is promoted when the pass has found no owner row, and by nothing
\* else.
LEMMA PromoteWaits ==
    ASSUME AddressBook, Pass, pc' = "promote"
    PROVE  OwnerRows = {} /\ UNCHANGED rows
<1>1. CASE OwnerStep
    <2>1. OwnerPick
        BY <1>1 DEF OwnerStep, PassBegin, OwnHolder, OwnLink, FoldHolder, OwnerFound, OwnerPromote,
                    OwnerInsert, OwnInsert, Loop, Go, Fold, Worker
    <2> QED BY <2>1 DEF OwnerPick
<1>2. CASE CandidateStep
    <2>1. FALSE
        BY <1>2 DEF CandidateStep, ReadHidden, ReadCandidates, Channels, EachHidden, EachCreate,
                    EachLink, EachInsert, EachDrop, EachDone, Go, Worker
    <2> QED BY <2>1
<1>3. CASE FollowStep
    <2>1. FALSE
        BY <1>3 DEF FollowStep, RefreshIdentities, ByPhone, ReadNames, PassEnd, MergeShared, Rename,
                    Go, Loop, Worker
    <2> QED BY <2>1
<1> QED BY <1>1, <1>2, <1>3 DEF Pass

\* What is in nobody's hands.
LEMMA PortalLeaves == ASSUME Portal \/ Channel PROVE UNCHANGED passVars
<1>1. CASE Channel
    BY <1>1 DEF Channel, SyncContact, Hear
<1>2. CASE Portal
    BY <1>2 DEF Portal, CreatePerson, Hide, Restore, ResetRead, SaveRead, LinkRead, MergeByHand,
                Unlink, DeskWrite, Desk, OwnerActs
<1> QED BY <1>1, <1>2

\* Whoever takes a step, there is one owner, and the rows are an address book.
LEMMA BookKept == ASSUME AddressBook, [Next]_vars PROVE RowsInv' /\ OwnerInv'
<1>1. RowsInv /\ OwnerInv
    BY DEF AddressBook
<1>2. ASSUME UNCHANGED rows PROVE RowsInv' /\ NoNewOwner
    <2>1. Same
        BY <1>1, <1>2, NothingWritten
    <2> QED BY <1>1, <2>1, StepsKeepRows DEF PortalStep
<1>3. CASE Pass
    <2>1. PassStep
        BY <1>3, OwnerStepWrites, CandidateStepWrites, FollowStepWrites DEF Pass
    <2>2. RowsInv' /\ OwnersKept
        BY <1>1, <2>1, StepsKeepRows
    <2>3. pc' = "promote" => OwnerRows = {} /\ NoNewOwner
        BY <1>2, <1>3, PromoteWaits
    <2> QED BY <1>1, <2>2, <2>3, OwnersStay
<1>4. CASE Portal
    <2>1. RowsInv' /\ NoNewOwner
        BY <1>1, <1>4, PortalWrites, StepsKeepRows
    <2>2. pc' = pc
        BY <1>4, PortalLeaves DEF passVars
    <2> QED BY <1>1, <2>1, <2>2, OwnersStay DEF OwnersKept, OwnerInv
<1>5. CASE PassFails \/ Channel \/ UNCHANGED vars
    <2>1. UNCHANGED rows /\ (pc' = pc \/ pc' = "idle")
        BY <1>5 DEF PassFails, Channel, SyncContact, Hear, vars, passVars
    <2>2. RowsInv' /\ NoNewOwner
        BY <1>2, <2>1
    <2> QED BY <1>1, <2>1, <2>2, OwnersStay DEF OwnersKept, OwnerInv
<1> QED BY <1>3, <1>4, <1>5 DEF Next

-----------------------------------------------------------------------------
(* What an operation has read.                                             *)

\* Nothing the pass has read is changed by the channels, the owner, or a step
\* that leaves it alone.
LEMMA ReadStays ==
    ASSUME ReadInv, UNCHANGED <<contacts, desk>>, pass' \in Snapshot,
           pc' \in {"each", "eachLink", "eachInsert", "drop"} => todo' \subseteq Identities,
           pc' \in {"ownInsert", "eachLink", "eachInsert", "drop"} => pass'.for \in Identities,
           pc' = "rename" => todo' \subseteq {p \in Ids : pass'.names[p] # None}
    PROVE  ReadInv'
BY DEF ReadInv

\* What a snapshot is when a part of it was read again.
LEMMA RowRead ==
    ASSUME NEW s \in Snapshot, NEW p \in 0..MaxPeople
    PROVE  [s EXCEPT !.row = p] \in Snapshot
BY DEF Snapshot

\* For whom it is looked.
LEMMA ForRead ==
    ASSUME NEW s \in Snapshot, NEW i \in Identities \cup {None}
    PROVE  [s EXCEPT !.for = i] \in Snapshot /\ [s EXCEPT !.for = i].for = i
BY DEF Snapshot

\* The row the pass has just made, and for whom.
LEMMA MadeRead ==
    ASSUME NEW s \in Snapshot, NEW p \in 0..MaxPeople, NEW i \in Identities
    PROVE  /\ [s EXCEPT !.row = p, !.for = i, !.made = p] \in Snapshot
           /\ [s EXCEPT !.row = p, !.for = i, !.made = p].for = i
BY DEF Snapshot

\* A row that was made is linked: it is forgotten.
LEMMA MadeCleared == ASSUME NEW s \in Snapshot PROVE [s EXCEPT !.made = 0] \in Snapshot
<1>1. 0 \in 0..MaxPeople
    BY PeopleAssumption
<1> QED BY <1>1 DEF Snapshot

\* The rows that hold the owner's accounts, so far.
LEMMA HoldersRead ==
    ASSUME NEW s \in Snapshot, NEW h \in SUBSET Ids
    PROVE  [s EXCEPT !.holders = h] \in Snapshot
BY DEF Snapshot

\* The hidden person behind each phone.
LEMMA HiddenRead ==
    ASSUME NEW s \in Snapshot, NEW h \in [Phones -> 0..MaxPeople]
    PROVE  [s EXCEPT !.row = 0, !.hidden = h] \in Snapshot
<1>1. 0 \in 0..MaxPeople
    BY PeopleAssumption
<1> QED BY <1>1 DEF Snapshot

\* The names as they were read.
LEMMA NamesRead ==
    ASSUME NEW s \in Snapshot, NEW n \in [Ids -> Names \cup {None}]
    PROVE  [s EXCEPT !.names = n] \in Snapshot /\ [s EXCEPT !.names = n].names = n
BY DEF Snapshot

\* A pass begins with nothing read.
LEMMA NothingRead == NoPass \in Snapshot
<1>1. /\ 0 \in 0..MaxPeople /\ None \in Identities \cup {None}
      /\ [n \in Phones |-> 0] \in [Phones -> 0..MaxPeople]
      /\ [p \in Ids |-> None] \in [Ids -> Names \cup {None}]
    BY PeopleAssumption
<1> QED BY <1>1 DEF NoPass, Snapshot

\* The pass on the owner's own row reads what it needs.
LEMMA OwnerStepReads == ASSUME AddressBook, OwnerStep PROVE ReadInv'
<1>1. RowsInv /\ ReadInv /\ pass \in Snapshot
    BY DEF AddressBook, ReadInv
<1>2. UNCHANGED <<contacts, desk>>
    BY DEF OwnerStep, PassBegin, OwnHolder, OwnLink, FoldHolder, OwnerFound, OwnerPick,
       OwnerPromote,
           OwnerInsert, OwnInsert, Worker, channelVars
<1>3. pc' \notin {"each", "eachLink", "eachInsert", "drop", "rename"}
    BY DEF OwnerStep, PassBegin, OwnHolder, OwnLink, FoldHolder, OwnerFound, OwnerPick,
       OwnerPromote,
           OwnerInsert, OwnInsert, Loop, Go, Fold
<1> PICK s : s = pass
    OBVIOUS
<1>4. s \in Snapshot /\ s.row \in 0..MaxPeople /\ s.holders \subseteq Ids
    BY <1>1 DEF Snapshot
<1>5. Ids \subseteq 0..MaxPeople
    BY PeopleAssumption DEF Ids
<1>6. ASSUME NEW p \in 0..MaxPeople, Fold(p) PROVE pass' \in Snapshot /\ pc' # "ownInsert"
    <2>1. pass' = [s EXCEPT !.row = p] /\ pc' # "ownInsert"
        BY <1>6 DEF Fold, Go
    <2> QED BY <1>4, <2>1, RowRead
<1>7. CASE PassBegin \/ \E p \in Ids : FoldHolder(p)
    <2>1. (pass' = NoPass \/ pass' = pass) /\ pc' # "ownInsert"
        BY <1>7 DEF PassBegin, FoldHolder, Go
    <2> QED BY <1>1, <1>2, <1>3, <2>1, NothingRead, ReadStays
<1>8. ASSUME NEW i \in OwnAccounts, OwnHolder(i) PROVE ReadInv'
    <2> PICK h : h = s.holders \cup {link[i]}
        OBVIOUS
    <2>1. pc' # "ownInsert" /\ (pass' = s \/ (Alive(link[i]) /\ pass' = [s EXCEPT !.holders = h]))
        BY <1>8 DEF OwnHolder, Loop
    <2>2. Alive(link[i]) => h \in SUBSET Ids
        BY <1>4 DEF Alive, There
    <2>3. pass' \in Snapshot
        BY <1>4, <2>1, <2>2, HoldersRead
    <2> QED BY <1>1, <1>2, <1>3, <2>1, <2>3, ReadStays
<1>9. CASE OwnerFound
    <2>1. PICK p \in OwnerRows : Fold(p)
        BY <1>9 DEF OwnerFound
    <2>2. p \in 0..MaxPeople
        BY <1>5 DEF OwnerRows
    <2> QED BY <1>1, <1>2, <1>3, <1>6, <2>1, <2>2, ReadStays
<1>10. CASE OwnerPick
    <2> DEFINE left == {p \in pass.holders : There(p)}
    <2>1. left # {} => Min(left) \in 0..MaxPeople
        <3>1. left \in SUBSET (1..MaxPeople) /\ MaxPeople \in Nat
            BY <1>4, PeopleAssumption DEF Ids
        <3> HIDE DEF left
        <3>2. left # {} => Min(left) \in left
            BY <3>1, MinIs
        <3>3. \A p \in left : p \in 0..MaxPeople
            BY <3>1
        <3> QED BY <3>2, <3>3
    <2>2. \/ left = {} /\ pass' = NoPass /\ pc' = "idle"
          \/ left # {} /\ pass' = [s EXCEPT !.row = Min(left)] /\ pc' = "promote"
        BY <1>10 DEF OwnerPick, Go
    <2> HIDE DEF left
    <2>3. pass' \in Snapshot /\ pc' # "ownInsert"
        BY <1>4, <2>1, <2>2, NothingRead, RowRead
    <2> QED BY <1>1, <1>2, <1>3, <2>3, ReadStays
<1>11. CASE OwnerPromote
    <2>1. Fold(s.row)
        BY <1>11 DEF OwnerPromote
    <2> QED BY <1>1, <1>2, <1>3, <1>4, <1>6, <2>1, ReadStays
<1>12. CASE OwnerInsert
    <2>1. Fresh \in 0..MaxPeople /\ pass' = [s EXCEPT !.row = Fresh] /\ pc' = "ownLink"
        BY <1>5, <1>12 DEF OwnerInsert, CanInsert, Go
    <2>2. pass' \in Snapshot
        BY <1>4, <2>1, RowRead
    <2> QED BY <1>1, <1>2, <1>3, <2>1, <2>2, ReadStays
<1>13. ASSUME NEW i \in OwnAccounts, OwnLink(i) PROVE ReadInv'
    <2>1. i \in Identities
        BY PeopleAssumption
    <2>2. pass' = [s EXCEPT !.for = i] \/ (pass' = s /\ pc' # "ownInsert")
        BY <1>13 DEF OwnLink, Loop, Go
    <2>3. pass' \in Snapshot /\ (pc' = "ownInsert" => pass'.for \in Identities)
        BY <1>4, <2>1, <2>2, ForRead
    <2> QED BY <1>1, <1>2, <1>3, <2>3, ReadStays
<1>14. CASE OwnInsert
    <2>1. pass' = [s EXCEPT !.for = None] /\ pc' # "ownInsert"
        BY <1>14 DEF OwnInsert, Loop
    <2>2. pass' \in Snapshot
        BY <1>4, <2>1, ForRead
    <2> QED BY <1>1, <1>2, <1>3, <2>1, <2>2, ReadStays
<1> QED BY <1>7, <1>8, <1>9, <1>10, <1>11, <1>12, <1>13, <1>14 DEF OwnerStep

\* Whoever hides behind a number is one of the people.
LEMMA HiddenIs ==
    ASSUME NEW n, HiddenByPhone(n) # 0
    PROVE  HiddenByPhone(n) \in Ids /\ There(HiddenByPhone(n))
<1> DEFINE hidden == {link[i] : i \in {j \in Identities : phone[j] = n}} \cap
                     {p \in Ids : There(p) /\ people[p].archived}
<1>1. hidden # {} /\ HiddenByPhone(n) = Min(hidden)
    BY DEF HiddenByPhone
<1>2. hidden \in SUBSET 1..MaxPeople /\ MaxPeople \in Nat
    BY PeopleAssumption DEF Ids
<1>3. \A p \in hidden : p \in Ids /\ There(p)
    OBVIOUS
<1> HIDE DEF hidden
<1>4. Min(hidden) \in hidden
    BY <1>1, <1>2, MinIs
<1> QED BY <1>1, <1>3, <1>4

\* The pass on those who have no person yet reads what it needs.
LEMMA CandidateStepReads == ASSUME AddressBook, CandidateStep PROVE ReadInv'
<1>1. RowsInv /\ ReadInv /\ pass \in Snapshot
    BY DEF AddressBook, ReadInv
<1>2. UNCHANGED <<contacts, desk>>
    BY DEF CandidateStep, ReadHidden, ReadCandidates, EachHidden, EachCreate, EachLink, EachInsert,
           EachDrop, EachDone, Worker, channelVars
<1>3. pc' \notin {"ownInsert", "rename"}
    <2>1. \A c \in Channels : c[3] \in {"whatsapp", "refresh"}
        BY DEF Channels
    <2>2. CASE ReadCandidates
        BY <2>1, <2>2 DEF ReadCandidates, Go
    <2>3. CASE ~ReadCandidates
        BY <2>3 DEF CandidateStep, ReadHidden, EachHidden, EachCreate, EachLink, EachInsert,
           EachDrop,
                    EachDone, Go
    <2> QED BY <2>2, <2>3
<1> PICK s : s = pass
    OBVIOUS
<1>4. s \in Snapshot
    BY <1>1
<1>5. Ids \subseteq 0..MaxPeople /\ 0 \in 0..MaxPeople
    BY PeopleAssumption DEF Ids
<1>6. CASE ReadHidden
    <2> PICK h : h = [n \in Phones |-> HiddenByPhone(n)]
        OBVIOUS
    <2>1. h \in [Phones -> 0..MaxPeople]
        BY <1>5, HiddenIs
    <2>2. pass' = [s EXCEPT !.row = 0, !.hidden = h] /\ pc' = "telegram"
        BY <1>6 DEF ReadHidden, Go
    <2>3. pass' \in Snapshot
        BY <1>4, <2>1, <2>2, HiddenRead
    <2> QED BY <1>1, <1>2, <2>2, <2>3, ReadStays
<1>7. CASE ReadCandidates
    <2>1. PICK c \in Channels :
            /\ IF Candidates(c[2]) = {} THEN Go(c[3], {}, pass)
                                          ELSE Go("each", Candidates(c[2]), pass)
        BY <1>7 DEF ReadCandidates
    <2>2. Candidates(c[2]) \subseteq Identities /\ c[3] \in {"whatsapp", "refresh"}
        BY DEF Channels, Candidates, Identities
    <2>3. /\ pass' = pass /\ pc' \in {"whatsapp", "refresh", "each"}
          /\ pc' = "each" => todo' \subseteq Identities
        BY <2>1, <2>2 DEF Go
    <2> QED BY <1>1, <1>2, <2>3, ReadStays
<1>8. ASSUME NEW i \in Identities, EachHidden(i) PROVE ReadInv'
    <2> PICK p : p = HiddenFor(i)
        OBVIOUS
    <2>1. /\ p # 0 /\ pc = "each" /\ todo' = todo \ {i}
          /\ pass' = [s EXCEPT !.row = p, !.for = i]
        BY <1>8 DEF EachHidden, Go, Worker
    <2>2. p \in 0..MaxPeople
        <3>1. PhoneSeen(i) \in Phones
            BY <1>1, <2>1, PhoneTyped DEF HiddenFor
        <3>2. s.hidden \in [Phones -> 0..MaxPeople]
            BY <1>4 DEF Snapshot
        <3> QED BY <1>5, <3>1, <3>2 DEF HiddenFor
    <2>3. pass' \in Snapshot /\ pass'.for \in Identities
        <3>1. PICK t : t = [s EXCEPT !.row = p, !.for = i]
            OBVIOUS
        <3>2. t \in Snapshot
            BY <1>4, <2>2, <3>1 DEF Snapshot
        <3>3. t.for = i
            BY <1>4, <3>1 DEF Snapshot
        <3> QED BY <2>1, <3>1, <3>2, <3>3
    <2>4. todo' \subseteq Identities
        BY <1>1, <2>1 DEF ReadInv
    <2> QED BY <1>1, <1>2, <1>3, <2>3, <2>4, ReadStays
<1>9. ASSUME NEW i \in Identities, EachCreate(i) PROVE ReadInv'
    <2>1. /\ Fresh \in 0..MaxPeople /\ pc = "each" /\ todo' = todo \ {i}
          /\ pass' = [s EXCEPT !.row = Fresh, !.for = i, !.made = Fresh]
        BY <1>5, <1>9 DEF EachCreate, CanInsert, Go, Worker
    <2>2. pass' \in Snapshot /\ pass'.for \in Identities
        BY <1>4, <2>1, MadeRead
    <2>3. todo' \subseteq Identities
        BY <1>1, <2>1 DEF ReadInv
    <2> QED BY <1>1, <1>2, <1>3, <2>2, <2>3, ReadStays
<1>10. CASE EachLink
    <2>1. pc = "eachLink" /\ pass' = pass /\ todo' = todo
        BY <1>10 DEF EachLink, Go, Worker
    <2> QED BY <1>1, <1>2, <1>3, <2>1, ReadStays DEF ReadInv
<1>11. CASE EachInsert \/ EachDrop
    <2>1. /\ pc \in {"eachInsert", "drop"} /\ todo' = todo
          /\ pass' = s \/ pass' = [s EXCEPT !.made = 0]
        BY <1>11 DEF EachInsert, EachDrop, Go, Worker
    <2>2. pass' \in Snapshot
        BY <1>4, <2>1, MadeCleared
    <2>3. pc' # "each" => pass' = s /\ pc' = "drop"
        BY <1>11 DEF EachInsert, EachDrop, Go
    <2>4. todo' \subseteq Identities /\ s.for \in Identities
        BY <1>1, <2>1 DEF ReadInv
    <2> QED BY <1>1, <1>2, <1>3, <2>2, <2>3, <2>4, ReadStays
<1>12. CASE EachDone
    <2>1. pass' = [s EXCEPT !.for = None] /\ pc' \in {"whatsapp", "refresh"}
        BY <1>12 DEF EachDone, Go
    <2>2. pass' \in Snapshot
        BY <1>4, <2>1, ForRead
    <2> QED BY <1>1, <1>2, <2>1, <2>2, ReadStays
<1> QED BY <1>6, <1>7, <1>8, <1>9, <1>10, <1>11, <1>12 DEF CandidateStep

\* The rest of a pass reads what it needs.
LEMMA FollowStepReads == ASSUME AddressBook, FollowStep PROVE ReadInv'
<1>1. RowsInv /\ ReadInv /\ pass \in Snapshot
    BY DEF AddressBook, ReadInv
<1>2. UNCHANGED <<contacts, desk>>
    BY DEF FollowStep, RefreshIdentities, ByPhone, ReadNames, PassEnd, MergeShared, Rename, Worker,
           channelVars
<1> PICK s : s = pass
    OBVIOUS
<1>3. CASE RefreshIdentities \/ ByPhone \/ PassEnd \/ \E pair \in Ids \X Ids : MergeShared(pair)
    <2>1. pass' = s \/ pass' = NoPass
        BY <1>3 DEF RefreshIdentities, ByPhone, PassEnd, MergeShared, Go, Loop
    <2>2. pc' \in {"group", "merge", "names", "idle"}
        BY <1>3 DEF RefreshIdentities, ByPhone, PassEnd, MergeShared, Go, Loop, Worker
    <2> QED BY <1>1, <1>2, <2>1, <2>2, NothingRead, ReadStays
<1>4. CASE ReadNames
    <2>1. PICK names \in [Ids -> Names \cup {None}] :
            Loop("rename", "end", {p \in Ids : names[p] # None}, [pass EXCEPT !.names = names])
        BY <1>4 DEF ReadNames
    <2>2. /\ pass' = [s EXCEPT !.names = names] /\ pc' \in {"rename", "end"}
          /\ todo' = {p \in Ids : names[p] # None}
        BY <2>1 DEF Loop
    <2>3. pass' \in Snapshot /\ pass'.names = names
        BY <1>1, <2>2, NamesRead
    <2> QED BY <1>1, <1>2, <2>2, <2>3, ReadStays
<1>5. CASE \E p \in Ids : Rename(p)
    <2>1. pc = "rename" /\ pc' \in {"rename", "end"} /\ pass' = pass /\ todo' \subseteq todo
        BY <1>5 DEF Rename, Loop, Worker
    <2> QED BY <1>1, <1>2, <2>1, ReadStays DEF ReadInv
<1> QED BY <1>3, <1>4, <1>5 DEF FollowStep

\* A contact as it is read from a channel.
LEMMA ChannelReads == ASSUME AddressBook, Channel PROVE ReadInv'
<1>1. ReadInv
    BY DEF AddressBook
<1>2. UNCHANGED <<passVars, desk>>
    BY DEF Channel, SyncContact, Hear
<1>3. contacts' \in [Identities -> Contact]
    <2>1. contacts \in [Identities -> Contact]
        BY <1>1 DEF ReadInv
    <2>2. ASSUME NEW i \in Identities, NEW name \in Names, NEW number \in Phones \cup {None},
                 SyncContact(i, name, number)
          PROVE  contacts' \in [Identities -> Contact]
        <3>1. PICK contact : contact = [name |-> name, phone |-> number]
            OBVIOUS
        <3>2. contact \in Contact
            BY <3>1 DEF Contact
        <3>3. contacts' = [contacts EXCEPT ![i] = contact]
            BY <2>2, <3>1 DEF SyncContact
        <3> QED BY <2>1, <3>2, <3>3
    <2>3. ASSUME NEW i \in Identities, NEW kind, Hear(i, kind)
          PROVE  contacts' \in [Identities -> Contact]
        BY <2>1, <2>3 DEF Hear
    <2> QED BY <2>2, <2>3, Zenon DEF Channel
<1> QED BY <1>1, <1>2, <1>3 DEF ReadInv, passVars

\* What the owner's form holds is what it will write.
LEMMA PortalReads == ASSUME AddressBook, Portal PROVE ReadInv'
<1>1. RowsInv /\ ReadInv
    BY DEF AddressBook
<1>2. UNCHANGED <<passVars, contacts>>
    <2>1. UNCHANGED contacts
        BY DEF Portal, CreatePerson, Hide, Restore, ResetRead, SaveRead, LinkRead, MergeByHand,
                Unlink, DeskWrite, Desk, OwnerActs, channelVars
    <2> QED BY <2>1, PortalLeaves
<1>3. ASSUME desk' # None =>
                /\ desk' \in Operation
                /\ desk'.op = "link" => desk'.identity \in Identities
                /\ desk'.op = "reset" => desk'.name # None
      PROVE  ReadInv'
    BY <1>1, <1>2, <1>3 DEF ReadInv, passVars
<1>4. ASSUME UNCHANGED desk \/ desk' = None PROVE ReadInv'
    BY <1>1, <1>3, <1>4 DEF ReadInv
<1>5. ASSUME NEW op \in {"save", "reset", "link"}, NEW p \in Ids, NEW i \in Identities \cup {None},
             NEW name \in Names \cup Aliases \cup {None}, Desk(op, p, i, name),
             op = "link" => i \in Identities, op = "reset" => name # None
      PROVE  ReadInv'
    <2>1. PICK d : d = [op |-> op, person |-> p, identity |-> i, name |-> name]
        OBVIOUS
    <2>2. /\ d \in Operation
          /\ d.op = "link" => d.identity \in Identities
          /\ d.op = "reset" => d.name # None
        BY <1>5, <2>1 DEF Operation
    <2>3. desk' = d
        BY <1>5, <2>1 DEF Desk
    <2> QED BY <1>3, <2>2, <2>3
<1>6. ASSUME NEW p \in Ids, NEW name \in Names \cup Aliases, SaveRead(p, name) PROVE ReadInv'
    <2>1. PICK op \in {"save", "reset", "link"} : op = "save"
        OBVIOUS
    <2>2. PICK typed \in Names \cup Aliases \cup {None} : Desk(op, p, None, typed)
        BY <1>6, <2>1 DEF SaveRead
    <2> QED BY <1>5, <2>1, <2>2
<1>7. ASSUME NEW p \in Ids, ResetRead(p) PROVE ReadInv'
    <2>1. PICK op \in {"save", "reset", "link"} : op = "reset"
        OBVIOUS
    <2>2. PICK name \in IF ChannelName(p) = {} THEN {people[p].name} ELSE ChannelName(p) :
            Desk(op, p, None, name)
        BY <1>7, <2>1 DEF ResetRead
    <2>3. name \in Names \cup Aliases \cup {None} /\ name # None
        <3>1. CASE ChannelName(p) = {}
            <4>1. name = people[p].name /\ people[p] \in Row /\ people[p].there
                BY <1>1, <1>7, <2>2, <3>1 DEF RowsInv, ResetRead, Alive, There
            <4>2. people[p].name # None
                BY <1>1, <4>1, ThereInserted
            <4> QED BY <4>1, <4>2, RowFields
        <3>2. CASE ChannelName(p) # {}
            <4>1. PICK i \in Identities : name = contacts[i].name /\ contacts[i].name # None
                BY <2>2, <3>2 DEF ChannelName, Identities
            <4> QED BY <1>1, <4>1, NameTyped
        <3> QED BY <3>1, <3>2
    <2> QED BY <1>5, <2>1, <2>2, <2>3
<1>8. ASSUME NEW p \in Ids, NEW i \in Identities, LinkRead(p, i) PROVE ReadInv'
    <2>1. PICK op \in {"save", "reset", "link"} : op = "link"
        OBVIOUS
    <2>2. Desk(op, p, i, None)
        BY <1>8, <2>1 DEF LinkRead
    <2> QED BY <1>5, <2>1, <2>2
<1>9. ASSUME \/ \E name \in Aliases : CreatePerson(name)
             \/ \E p \in Ids : Hide(p) \/ Restore(p)
             \/ \E p, q \in Ids : MergeByHand(p, q)
             \/ \E i \in Identities : Unlink(i)
             \/ DeskWrite
      PROVE  UNCHANGED desk \/ desk' = None
    BY <1>9 DEF CreatePerson, Hide, Restore, MergeByHand, Unlink, DeskWrite
<1> QED BY <1>4, <1>6, <1>7, <1>8, <1>9, Zenon DEF Portal

\* Whoever takes a step, what is under way has read what it needs.
LEMMA ReadKept == ASSUME AddressBook, [Next]_vars PROVE ReadInv'
<1>1. CASE Pass
    BY <1>1, OwnerStepReads, CandidateStepReads, FollowStepReads DEF Pass
<1>2. CASE PassFails
    <2>1. UNCHANGED <<contacts, desk>> /\ pass' = NoPass /\ pc' = "idle"
        BY <1>2 DEF PassFails, channelVars
    <2> QED BY <2>1, NothingRead, ReadStays DEF AddressBook
<1>3. CASE UNCHANGED vars
    <2>1. UNCHANGED <<contacts, desk, pass, pc, todo>>
        BY <1>3 DEF vars, channelVars, passVars
    <2> QED BY <2>1 DEF AddressBook, ReadInv
<1> QED BY <1>1, <1>2, <1>3, ChannelReads, PortalReads DEF Next

-----------------------------------------------------------------------------
(* The theorems.                                                           *)

\* An address book in which nobody is, or the contact an archive from before
\* there was an owner has for the owner's own accounts.
LEMMA FirstBook == ASSUME Init PROVE AddressBook /\ QuietInv
<1>1. PICK before \in {FALSE, OwnAccounts # {}} :
        /\ people = [p \in Ids |-> IF before /\ p = 1 THEN [NoRow EXCEPT !.there = TRUE,
                                            !.name = ChatName] ELSE NoRow]
        /\ link = [i \in Identities |-> IF before /\ i \in OwnAccounts THEN 1 ELSE 0]
    BY Zenon DEF Init
<1>2. /\ 0 \in 0..MaxPeople /\ 1 \in 0..MaxPeople /\ 1 \in Ids /\ \A p \in Ids : p <= 1 <=> p = 1
      /\ \A p \in Ids : ~(p <= 0)
    BY PeopleAssumption DEF Ids
<1>3. PICK first : first = [NoRow EXCEPT !.there = TRUE, !.name = ChatName]
    OBVIOUS
<1>4. first \in Row /\ first.there /\ ~first.isOwner /\ first.name # None
    BY <1>3, PeopleAssumption DEF NoRow, Row
<1>5. people \in [Ids -> Row]
    BY <1>1, <1>3, <1>4, NoRowIs
<1>6. /\ \A p \in Ids : people[p] = IF before /\ p = 1 THEN first ELSE NoRow
      /\ \A i \in Identities : link[i] = IF before /\ i \in OwnAccounts THEN 1 ELSE 0
    BY <1>1, <1>3, Zenon
<1>7. RowsInv
    <2>1. link \in [Identities -> 0..MaxPeople] /\ phone \in [Identities -> Phones \cup {None}]
        BY <1>1, <1>2 DEF Init
    <2>2. \A i \in Identities : link[i] # 0 => There(link[i])
        BY <1>2, <1>4, <1>6 DEF There
    <2>3. \E k \in 0..MaxPeople : InsertedUpTo(k)
        <3>1. CASE before
            <4>1. InsertedUpTo(1)
                BY <1>2, <1>4, <1>6, <3>1 DEF InsertedUpTo
            <4> QED BY <1>2, <4>1
        <3>2. CASE ~before
            <4>1. InsertedUpTo(0)
                BY <1>2, <1>6, <3>2 DEF InsertedUpTo
            <4> QED BY <1>2, <4>1
        <3> QED BY <3>1, <3>2
    <2> QED BY <1>5, <2>1, <2>2, <2>3 DEF RowsInv
<1>8. OwnerRows = {}
    BY <1>4, <1>6, NoRowIs DEF OwnerRows
<1>9. OwnerInv
    BY <1>8 DEF OwnerInv
<1>10. ReadInv
    <2>1. contacts \in [Identities -> Contact]
        BY DEF Init, Contact
    <2> QED BY <2>1, NothingRead DEF Init, ReadInv
<1>11. QuietInv
    BY DEF Init, QuietInv, QuietOK
<1> QED BY <1>7, <1>9, <1>10, <1>11 DEF AddressBook

\* What holds of the address book and of those at work on it holds whoever takes
\* the next step.
LEMMA AddressBookKept == AddressBook /\ [Next]_vars => AddressBook'
BY BookKept, ReadKept DEF AddressBook

\* Each step says whether a pass has been disturbed.
LEMMA QuietStays == ASSUME QuietOK, [Next]_vars PROVE QuietOK'
<1>1. CASE OwnerStep
    BY <1>1 DEF QuietOK, OwnerStep, PassBegin, OwnHolder, OwnLink, FoldHolder, OwnerFound,
       OwnerPick,
                OwnerPromote, OwnerInsert, OwnInsert, Loop, Go, Fold
<1>2. CASE CandidateStep
    BY <1>2 DEF QuietOK, CandidateStep, ReadHidden, ReadCandidates, EachHidden, EachCreate,
       EachLink,
                EachInsert, EachDrop, EachDone, Go
<1>3. CASE FollowStep
    BY <1>3 DEF QuietOK, FollowStep, RefreshIdentities, ByPhone, ReadNames, PassEnd, MergeShared,
       Rename,
                Go, Loop
<1>4. CASE Portal
    BY <1>4 DEF QuietOK, Portal, CreatePerson, Hide, Restore, ResetRead, SaveRead, LinkRead,
       MergeByHand,
                Unlink, DeskWrite, Desk, OwnerActs
<1>5. CASE PassFails \/ Channel \/ UNCHANGED vars
    BY <1>5 DEF QuietOK, PassFails, Channel, SyncContact, Hear, vars
<1> QED BY <1>1, <1>2, <1>3, <1>4, <1>5 DEF Next, Pass

\* Every statement of a pass and of the owner leaves the address book in its
\* types, and no identity linked to a person that is gone.
THEOREM PeopleTyped == Spec => []TypeOK
<1>1. Init => AddressBook
    BY FirstBook
<1>2. Init => QuietOK
    BY DEF Init, QuietOK
<1>3. AddressBook /\ QuietOK => TypeOK
    BY DEF AddressBook, RowsInv, QuietOK, TypeOK
<1>4. QuietOK /\ [Next]_vars => QuietOK'
    BY QuietStays
<1> QED BY <1>1, <1>2, <1>3, <1>4, AddressBookKept, PTL DEF Spec

\* There is never a second owner row, whatever the owner does between two
\* statements of the pass that looks for one.
THEOREM OneOwnerRow == Spec => []OneOwner
<1>1. AddressBook => OneOwner
    <2> SUFFICES ASSUME AddressBook PROVE Cardinality(OwnerRows) <= 1
        BY DEF OneOwner
    <2>1. CASE OwnerRows = {}
        BY <2>1, FS_EmptySet
    <2>2. CASE OwnerRows # {}
        <3>1. PICK p : p \in OwnerRows
            BY <2>2
        <3>2. OwnerRows = {p}
            BY <3>1 DEF AddressBook, OwnerInv
        <3> QED BY <3>2, FS_Singleton
    <2> QED BY <2>1, <2>2
<1>2. Init => AddressBook
    BY FirstBook
<1> QED BY <1>1, <1>2, AddressBookKept, PTL DEF Spec

-----------------------------------------------------------------------------
(* What a pass may not do.                                                 *)

\* AliasesKept and LinksKept, as what one statement does.
AliasStays(p) ==
    \/ people'[p].there /\ people'[p].source = "owner" /\ people'[p].name = people[p].name
    \/ ~people'[p].there /\ \E q \in Ids :
        /\ people'[q].there /\ people'[q].source = "owner"
        /\ \A i \in IdentitiesOf(p) : link'[i] = q
    \/ p = pass.made

LinkStays(i) ==
    \/ link'[i] # 0
        /\ people[link[i]].archived => link'[i] = link[i] /\ people'[link[i]].archived
    \/ link[i] = pass.made

\* A person the pass leaves as it was keeps its name.
LEMMA AliasUntouched ==
    ASSUME NEW p \in Ids, There(p), people[p].source = "owner", people'[p] = people[p]
    PROVE  AliasStays(p)
BY DEF AliasStays, There

\* A statement of the pass changes no name the owner chose.
LEMMA PassKeepsAlias ==
    ASSUME AddressBook, PassStep, NEW p \in Ids, There(p), people[p].source = "owner"
    PROVE  AliasStays(p)
<1>1. RowsInv
    BY DEF AddressBook
<1>2. ASSUME NEW r \in Row, Inserts(r) PROVE AliasStays(p)
    <2>1. people[p] # NoRow
        BY NoRowIs DEF There
    <2>2. people'[p] = people[p]
        BY <1>1, <1>2, <2>1, Inserted
    <2> QED BY <2>2, AliasUntouched
<1>3. ASSUME NEW q \in Ids, NEW r \in Row, Writes(q, r), KeepsChoice(q, r) PROVE AliasStays(p)
    <2>1. people'[q] = r /\ r.there /\ \A o \in Ids : o # q => people'[o] = people[o]
        BY <1>1, <1>3, Wrote DEF Writes
    <2>2. CASE p = q
        BY <1>3, <2>1, <2>2 DEF KeepsChoice, AliasStays
    <2>3. CASE p # q
        BY <2>1, <2>3, AliasUntouched
    <2> QED BY <2>2, <2>3
<1>4. ASSUME NEW q, NEW n \in Phones \cup {None}, pass.for \in Identities,
             LinkInsert(q, pass.for, n)
      PROVE  AliasStays(p)
    <2>1. people' = people
        BY <1>1, <1>4, Linked
    <2> QED BY <2>1, AliasUntouched
<1>5. ASSUME NEW from, NEW into, MayMerge(from, into), Merge(from, into) PROVE AliasStays(p)
    <2>1. /\ into \in Ids /\ ~people'[from].there /\ people'[into].there
          /\ people[into].source = "owner" =>
                people'[into].source = "owner" /\ people'[into].name = people[into].name
          /\ people[from].source = "owner" => people'[into].source = "owner"
          /\ \A q \in Ids : q # from /\ q # into => people'[q] = people[q]
          /\ \A i \in Identities : link'[i] = IF link[i] = from THEN into ELSE link[i]
        BY <1>1, <1>5, Merged
    <2>2. CASE p = from
        <3>1. \A i \in IdentitiesOf(p) : link'[i] = into
            BY <2>1, <2>2 DEF IdentitiesOf
        <3> QED BY <2>1, <2>2, <3>1 DEF AliasStays
    <2>3. CASE p = into
        BY <2>1, <2>3 DEF AliasStays
    <2>4. CASE p # from /\ p # into
        BY <2>1, <2>4, AliasUntouched
    <2> QED BY <2>2, <2>3, <2>4
<1>6. ASSUME Delete(pass.made) PROVE AliasStays(p)
    <2>1. p # pass.made => people'[p] = people[p]
        BY <1>1, <1>6, DeletedOne
    <2> QED BY <2>1, AliasUntouched DEF AliasStays
<1>7. ASSUME Same PROVE AliasStays(p)
    BY <1>7, AliasUntouched DEF Same
<1> QED BY <1>2, <1>3, <1>4, <1>5, <1>6, <1>7, Zenon DEF PassStep

\* A statement of the pass takes no identity away, and shows nobody hidden.
LEMMA PassKeepsLink ==
    ASSUME AddressBook, PassStep, NEW i \in Identities, link[i] # 0
    PROVE  LinkStays(i)
<1> PICK p : p = link[i]
    OBVIOUS
<1>1. RowsInv /\ p \in Ids /\ p # 0
    BY DEF AddressBook, RowsInv, There
<1>2. ASSUME link'[i] = p, people'[p] = people[p] PROVE LinkStays(i)
    BY <1>1, <1>2 DEF LinkStays
<1>3. ASSUME NEW r \in Row, Inserts(r) PROVE LinkStays(i)
    <2>1. people'[p] = people[p] /\ link' = link
        BY <1>1, <1>3, Inserted DEF Inserts
    <2> QED BY <1>2, <2>1
<1>4. ASSUME NEW q \in Ids, NEW r \in Row, Writes(q, r), KeepsChoice(q, r) PROVE LinkStays(i)
    <2>1. /\ people'[q] = r /\ link' = link
          /\ \A o \in Ids : o # q => people'[o] = people[o]
        BY <1>1, <1>4, Wrote DEF Writes
    <2>2. CASE p = q
        BY <1>1, <1>4, <2>1, <2>2 DEF KeepsChoice, LinkStays
    <2>3. CASE p # q
        BY <1>1, <1>2, <2>1, <2>3
    <2> QED BY <2>2, <2>3
<1>5. ASSUME NEW q, NEW n \in Phones \cup {None}, pass.for \in Identities,
             LinkInsert(q, pass.for, n)
      PROVE  LinkStays(i)
    <2>1. people' = people /\ \A j \in Identities : j # pass.for \/ link[pass.for] # 0
              => link'[j] = link[j]
        BY <1>1, <1>5, Linked
    <2>2. link'[i] = p
        BY <1>1, <2>1
    <2> QED BY <1>2, <2>1, <2>2
<1>6. ASSUME NEW from, NEW into, MayMerge(from, into), Merge(from, into) PROVE LinkStays(i)
    <2>1. /\ into # 0 /\ ~people[from].archived /\ ~people[into].archived
          /\ \A q \in Ids : q # from /\ q # into => people'[q] = people[q]
          /\ link'[i] = IF p = from THEN into ELSE p
        BY <1>1, <1>6, Merged
    <2>2. CASE p = from \/ p = into
        BY <1>1, <2>1, <2>2 DEF LinkStays
    <2>3. CASE p # from /\ p # into
        BY <1>1, <1>2, <2>1, <2>3
    <2> QED BY <2>2, <2>3
<1>7. ASSUME Delete(pass.made) PROVE LinkStays(i)
    <2>1. p # pass.made => people'[p] = people[p] /\ link'[i] = p
        BY <1>1, <1>7, DeletedOne
    <2> QED BY <1>2, <2>1 DEF LinkStays
<1>8. ASSUME Same PROVE LinkStays(i)
    BY <1>2, <1>8 DEF Same
<1> QED BY <1>3, <1>4, <1>5, <1>6, <1>7, <1>8, Zenon DEF PassStep

\* The steps that go on with a pass are its statements; the one that ends it
\* writes nothing.
LEMMA PassGoesOn ==
    ASSUME AddressBook, [Next]_vars, pc' # pc \/ todo' # todo
    PROVE  PassStep
<1>1. CASE Pass
    BY <1>1, OwnerStepWrites, CandidateStepWrites, FollowStepWrites DEF Pass
<1>2. CASE PassFails
    <2>1. Same
        BY <1>2, NothingWritten DEF PassFails, AddressBook
    <2> QED BY <2>1 DEF PassStep
<1>3. CASE Portal \/ Channel \/ UNCHANGED vars
    <2>1. pc' = pc /\ todo' = todo
        BY <1>3, PortalLeaves DEF vars, passVars
    <2> QED BY <2>1
<1> QED BY <1>1, <1>2, <1>3 DEF Next

\* The names the owner chose outlive every pass, whatever the owner does between
\* two of its statements.
THEOREM NamesStay == Spec => AliasesKept
<1>1. AddressBook /\ [Next]_vars =>
        [pc' # pc \/ todo' # todo =>
            \A p \in Ids : There(p) /\ people[p].source = "owner" => AliasStays(p)]_vars
    BY PassGoesOn, PassKeepsAlias
<1>2. Init => AddressBook
    BY FirstBook
<1> QED BY <1>1, <1>2, AddressBookKept, PTL DEF Spec, AliasesKept, AliasStays

\* What a pass links it never takes away again, and whom the owner hid it leaves
\* hidden, whatever the owner does between two of its statements.
THEOREM LinksStay == Spec => LinksKept
<1>1. AddressBook /\ [Next]_vars =>
        [pc' # pc \/ todo' # todo =>
            \A i \in Identities : link[i] # 0 => LinkStays(i)]_vars
    BY PassGoesOn, PassKeepsLink
<1>2. Init => AddressBook
    BY FirstBook
<1> QED BY <1>1, <1>2, AddressBookKept, PTL DEF Spec, LinksKept, LinkStays

-----------------------------------------------------------------------------
(* A pass nobody disturbs finds nothing left to do the next time.          *)

\* Whoever is the owner and stays as they were is the owner.
LEMMA OwnerStays ==
    ASSUME NEW p \in OwnerRows, people'[p].there, people'[p].isOwner
    PROVE  p \in OwnerRows'
BY DEF OwnerRows, There

\* But for the person it has made itself, the pass takes nobody's identities
\* and never the owner.
LEMMA PassGrows == ASSUME AddressBook, PassStep, pc # "drop" PROVE Grows
<1>1. RowsInv
    BY DEF AddressBook
<1>2. \A p \in OwnerRows : p \in Ids /\ people[p].there /\ people[p].isOwner
    BY DEF OwnerRows, There
<1>3. ASSUME people' = people, \A i \in Identities : link[i] # 0 => link'[i] # 0 PROVE Grows
    BY <1>2, <1>3, OwnerStays DEF Grows
<1>4. ASSUME NEW r \in Row, Inserts(r) PROVE Grows
    <2>1. /\ link' = link /\ people[Fresh] = NoRow
          /\ \A p \in Ids : p # Fresh => people'[p] = people[p]
        BY <1>1, <1>4, Inserted DEF Inserts
    <2>2. \A p \in OwnerRows : p # Fresh
        BY <1>2, <2>1, NoRowIs
    <2> QED BY <1>2, <2>1, <2>2, OwnerStays DEF Grows
<1>5. ASSUME NEW p \in Ids, NEW r \in Row, Writes(p, r), KeepsChoice(p, r) PROVE Grows
    <2>1. /\ link' = link /\ people'[p] = r /\ r.there
          /\ \A q \in Ids : q # p => people'[q] = people[q]
        BY <1>1, <1>5, Wrote DEF Writes
    <2>2. people[p].isOwner => r.isOwner
        BY <1>5 DEF KeepsChoice
    <2> QED BY <1>2, <2>1, <2>2, OwnerStays DEF Grows
<1>6. ASSUME NEW p, NEW n \in Phones \cup {None}, pass.for \in Identities,
             LinkInsert(p, pass.for, n)
      PROVE  Grows
    <2>1. /\ people' = people
          /\ \A j \in Identities : j # pass.for \/ link[pass.for] # 0 => link'[j] = link[j]
        BY <1>1, <1>6, Linked
    <2> QED BY <1>3, <2>1
<1>7. ASSUME NEW from, NEW into, MayMerge(from, into), Merge(from, into) PROVE Grows
    <2>1. /\ into # 0 /\ ~people[from].isOwner
          /\ people'[into].there /\ people'[into].isOwner = people[into].isOwner
          /\ \A q \in Ids : q # from /\ q # into => people'[q] = people[q]
          /\ \A i \in Identities : link'[i] = IF link[i] = from THEN into ELSE link[i]
        BY <1>1, <1>7, Merged
    <2>2. \A i \in Identities : link[i] # 0 => link'[i] # 0
        BY <2>1
    <2>3. \A p \in OwnerRows : people'[p].there /\ people'[p].isOwner
        BY <1>2, <2>1
    <2> QED BY <2>2, <2>3, OwnerStays DEF Grows
<1>8. ASSUME Same PROVE Grows
    BY <1>3, <1>8 DEF Same
<1> QED BY <1>4, <1>5, <1>6, <1>7, <1>8, Zenon DEF PassStep

\* The pass writes nothing the channels are read into.
LEMMA PassReadsChannels == ASSUME Pass PROVE UNCHANGED channelVars
<1>1. CASE OwnerStep
    BY <1>1 DEF OwnerStep, PassBegin, OwnHolder, OwnLink, FoldHolder, OwnerFound, OwnerPick,
                OwnerPromote, OwnerInsert, OwnInsert, Worker
<1>2. CASE CandidateStep
    BY <1>2 DEF CandidateStep, ReadHidden, ReadCandidates, EachHidden, EachCreate, EachLink,
       EachInsert,
                EachDrop, EachDone, Worker
<1>3. CASE FollowStep
    BY <1>3 DEF FollowStep, RefreshIdentities, ByPhone, ReadNames, PassEnd, MergeShared, Rename,
       Worker
<1> QED BY <1>1, <1>2, <1>3 DEF Pass

\* Who is done with stays done with.
LEMMA DoneStays ==
    ASSUME Grows, UNCHANGED channelVars
    PROVE  /\ OwnDone => OwnDone'
           /\ AllDone => AllDone'
           /\ \A channel \in SUBSET Identities : Candidates(channel)' \subseteq Candidates(channel)
<1>1. OwnDone => OwnDone'
    BY PeopleAssumption DEF Grows, OwnDone
<1>2. \A channel \in SUBSET Identities : Candidates(channel)' \subseteq Candidates(channel)
    BY DEF Grows, Candidates, IsCandidate, channelVars
<1>3. AllDone => AllDone'
    BY <1>1, <1>2 DEF AllDone
<1> QED BY <1>1, <1>2, <1>3

\* Once the owner row is found or made, the pass goes on for it.
LEMMA OwnerRowKnown ==
    ASSUME pc' \in {"fold", "ownLink"}, pass'.row \in OwnerRows',
           pc' = "ownLink" => todo' = OwnAccounts
    PROVE  PassInv'
BY DEF PassInv

\* The holders are folded into the row found.
LEMMA FoldGoes ==
    ASSUME pass \in Snapshot, NEW p \in 0..MaxPeople, Fold(p)
    PROVE  /\ pc' \in {"fold", "ownLink"} /\ pass'.row = p
           /\ pc' = "ownLink" => todo' = OwnAccounts
<1> PICK s, t : s = pass /\ t = [s EXCEPT !.row = p]
    OBVIOUS
<1>1. t.row = p
    BY DEF Snapshot
<1>2. pass' = t /\ pc' \in {"fold", "ownLink"} /\ (pc' = "ownLink" => todo' = OwnAccounts)
    BY DEF Fold, Go
<1> QED BY <1>1, <1>2

\* Nobody comes between the statements on the owner's own row: the row found
\* stays, and each of the owner's accounts is linked in turn.
LEMMA OwnerStepQuiet ==
    ASSUME AddressBook, QuietInv, quiet = "pass", OwnerStep, ~PassBegin
    PROVE  PassInv'
<1>1. /\ RowsInv /\ PassInv /\ pass \in Snapshot /\ pass.row \in 0..MaxPeople
             /\ Ids \subseteq 0..MaxPeople
    <2>1. RowsInv /\ PassInv /\ pass \in Snapshot
        BY DEF AddressBook, ReadInv, QuietInv
    <2> QED BY <2>1, PeopleAssumption DEF Snapshot, Ids
<1>2. pc # "drop" => Grows
    BY OwnerStepWrites, PassGrows
<1>3. ASSUME NEW i \in OwnAccounts, OwnHolder(i) PROVE PassInv'
    <2>1. pc' \in {"holders", "ownerRow"}
        BY <1>3 DEF OwnHolder, Loop
    <2> QED BY <2>1 DEF PassInv
<1>4. CASE OwnerFound
    <2>1. PICK p \in OwnerRows : Fold(p)
        BY <1>4 DEF OwnerFound
    <2>2. p \in Ids /\ p \in OwnerRows' /\ p \in 0..MaxPeople
        BY <1>1, <1>2, <1>4 DEF OwnerFound, Worker, Grows, OwnerRows
    <2> QED BY <1>1, <2>1, <2>2, FoldGoes, OwnerRowKnown
<1>5. CASE OwnerPick
    <2> DEFINE left == {p \in pass.holders : There(p)}
    <2>1. people' = people
        BY <1>5 DEF OwnerPick, rows
    <2> PICK s, m, t : s = pass /\ m = Min(left) /\ t = [s EXCEPT !.row = m]
        OBVIOUS
    <2>2. left # {} => There(m)
        <3>1. left \in SUBSET (1..MaxPeople) /\ MaxPeople \in Nat /\ \A p \in left : There(p)
            BY PeopleAssumption DEF There, Ids
        <3> HIDE DEF left
        <3>2. left # {} => m \in left
            BY <3>1, MinIs
        <3> QED BY <3>1, <3>2
    <2>3. t.row = m
        BY <1>1 DEF Snapshot
    <2>4. \/ pc' = "idle"
          \/ left # {} /\ pc' = "promote" /\ pass' = t
        BY <1>5 DEF OwnerPick, Go
    <2> HIDE DEF left
    <2>5. pc' = "promote" => There(pass.row)'
        BY <2>1, <2>2, <2>3, <2>4 DEF There
    <2> QED BY <2>4, <2>5 DEF PassInv
<1>6. CASE OwnerPromote
    <2> PICK p, a : p = pass.row /\ a = people[p]
        OBVIOUS
    <2> PICK r : r = [a EXCEPT !.isOwner = TRUE]
        OBVIOUS
    <2>1. There(p) /\ Fold(p)
        BY <1>1, <1>6 DEF OwnerPromote, Worker, PassInv
    <2>2. p \in Ids /\ a \in Row /\ a.there
        BY <1>1, <2>1 DEF There, RowsInv
    <2>3. people' = [people EXCEPT ![p] = r] /\ r.there /\ r.isOwner
        <3>1. people' = [people EXCEPT ![p] = r]
            BY <1>6, <2>1, Zenon DEF OwnerPromote
        <3> QED BY <2>2, <3>1 DEF Row
    <2>4. p \in OwnerRows'
        BY <1>1, <2>2, <2>3 DEF RowsInv, OwnerRows, There
    <2> QED BY <1>1, <2>1, <2>4, FoldGoes, OwnerRowKnown
<1>7. CASE OwnerInsert
    <2> PICK next, s, t, r : next = Fresh /\ s = pass /\ t = [s EXCEPT !.row = next]
                          /\ r = [there |-> TRUE, name |-> ChatName, source |-> "channel",
                                  archived |-> FALSE, isOwner |-> TRUE]
        OBVIOUS
    <2>1. next \in Ids /\ people' = [people EXCEPT ![next] = r] /\ people \in [Ids -> Row]
        BY <1>1, <1>7, Zenon DEF OwnerInsert, Insert, CanInsert, RowsInv
    <2>2. people'[next].there /\ people'[next].isOwner
        BY <2>1
    <2>3. next \in OwnerRows'
        BY <2>1, <2>2 DEF OwnerRows, There
    <2>4. t.row = next
        BY <1>1 DEF Snapshot
    <2>5. pc' = "ownLink" /\ pass' = t /\ todo' = OwnAccounts
        BY <1>7 DEF OwnerInsert, Go
    <2> QED BY <2>3, <2>4, <2>5, OwnerRowKnown
<1>8. ASSUME NEW p \in Ids, FoldHolder(p) PROVE PassInv'
    <2>1. /\ pc = "fold" /\ pc' \in {"fold", "ownLink"} /\ pass' = pass
          /\ pc' = "ownLink" => todo' = OwnAccounts
        BY <1>8 DEF FoldHolder, Worker, Go
    <2>2. pass'.row \in OwnerRows'
        BY <1>1, <1>2, <2>1 DEF PassInv, Grows
    <2> QED BY <2>1, <2>2, OwnerRowKnown
<1>9. ASSUME NEW i \in OwnAccounts, OwnLink(i) PROVE PassInv'
    <2>1. /\ pc = "ownLink" /\ UNCHANGED rows /\ todo' = todo \ {i}
          /\ \A j \in OwnAccounts \ todo : link[j] # 0
          /\ pass.row \in OwnerRows /\ There(pass.row)
        BY <1>1, <1>9 DEF OwnLink, Worker, Go, Loop, PassInv, OwnerRows
    <2>2. OwnerRows' = OwnerRows /\ link' = link
        BY <2>1 DEF rows, OwnerRows, There
    <2>3. CASE link[i] = 0
        <3> PICK s, t : s = pass /\ t = [s EXCEPT !.for = i]
            OBVIOUS
        <3>1. t.for = i /\ t.row = s.row
            BY <1>1 DEF Snapshot
        <3>2. pc' = "ownInsert" /\ pass' = t
            BY <1>9, <2>1, <2>3 DEF OwnLink, Linkable, Go
        <3>3. \A j \in OwnAccounts \ todo' : link'[j] # 0 \/ j = pass'.for
            BY <2>1, <2>2, <3>1, <3>2
        <3>4. pass'.row \in OwnerRows'
            BY <2>1, <2>2, <3>1, <3>2
        <3> QED BY <3>2, <3>3, <3>4 DEF PassInv
    <2>4. CASE link[i] # 0
        <3>1. /\ pc' = (IF todo' = {} THEN "hidden" ELSE "ownLink") /\ pass' = pass
            BY <1>9, <2>1, <2>4 DEF OwnLink, Linkable, Loop
        <3>2. \A j \in OwnAccounts \ todo' : link'[j] # 0
            BY <2>1, <2>2, <2>4
        <3>3. CASE todo' # {}
            BY <2>1, <2>2, <3>1, <3>2, <3>3 DEF PassInv
        <3>4. CASE todo' = {}
            <4>1. OwnDone'
                BY <2>1, <2>2, <3>2, <3>4 DEF OwnDone
            <4> QED BY <3>1, <3>4, <4>1 DEF PassInv
        <3> QED BY <3>3, <3>4
    <2> QED BY <2>3, <2>4
<1>10. CASE OwnInsert
    <2> PICK s, t : s = pass /\ t = [s EXCEPT !.for = None]
        OBVIOUS
    <2>1. t.row = s.row
        BY <1>1 DEF Snapshot
    <2>2. /\ pc = "ownInsert" /\ todo' = todo /\ pass' = t
          /\ pc' = (IF todo = {} THEN "hidden" ELSE "ownLink")
          /\ LinkInsert(s.row, s.for, JidPhone(s.for))
        BY <1>10 DEF OwnInsert, Worker, Loop
    <2>3. s.for \in Identities /\ JidPhone(s.for) \in Phones \cup {None}
        <3>1. ReadInv
            BY DEF AddressBook
        <3>2. s.for \in Identities
            BY <2>2, <3>1 DEF ReadInv
        <3> QED BY <3>1, <3>2, PhoneTyped
    <2>4. /\ s.row \in OwnerRows /\ There(s.row)
          /\ \A j \in OwnAccounts \ todo : link[j] # 0 \/ j = s.for
        BY <1>1, <2>2 DEF PassInv, OwnerRows
    <2>5. OwnerRows \subseteq OwnerRows' /\ \A j \in Identities : link[j] # 0 => link'[j] # 0
        BY <1>2, <2>2 DEF Grows
    <2>6. link'[s.for] # 0
        <3>1. IF Linkable(s.row, s.for) THEN link'[s.for] = s.row /\ s.row # 0 ELSE link' = link
            BY <1>1, <2>2, <2>3, Linked
        <3> QED BY <2>4, <3>1 DEF Linkable
    <2>7. \A j \in OwnAccounts \ todo' : link'[j] # 0
        BY <2>2, <2>4, <2>5, <2>6, PeopleAssumption
    <2>8. pass'.row \in OwnerRows'
        BY <2>1, <2>2, <2>4, <2>5
    <2>9. todo = {} => OwnDone'
        BY <2>2, <2>7, <2>8 DEF OwnDone
    <2> QED BY <2>2, <2>7, <2>8, <2>9 DEF PassInv
<1> QED BY <1>3, <1>4, <1>5, <1>6, <1>7, <1>8, <1>9, <1>10 DEF OwnerStep

\* The hidden people a pass has read are still there.
HiddenStay == \A n \in Phones : pass.hidden[n] # 0 => There(pass.hidden[n])

\* The channels are gone through one after the other.
LEMMA ChannelsAre ==
    ASSUME NEW channel \in {Telegram, WhatsApp}
    PROVE  /\ channel \in SUBSET Identities
           /\ Candidates(channel) \subseteq channel /\ Candidates(channel) \subseteq Identities
BY DEF Identities, Candidates

\* Who has nobody yet on either channel has nobody.
LEMMA CandidatesSplit ==
    ASSUME Candidates(Telegram) = {}, Candidates(WhatsApp) = {}
    PROVE  Candidates(Identities) = {}
BY DEF Candidates, Identities

\* The candidate in hand is in the loop of its channel.
LEMMA EachKeeps ==
    ASSUME NEW channel \in {Telegram, WhatsApp}, EachInv(channel)', OwnDone', HiddenStay',
           pc' \in {"each", "eachLink", "eachInsert"}
    PROVE  PassInv'
BY DEF PassInv, HiddenStay

\* Where these statements are.
LEMMA CandidatePlaces ==
    ASSUME CandidateStep, pc # "drop"
    PROVE  ReadHidden \/ pc \in {"telegram", "whatsapp", "each", "eachLink", "eachInsert"}
<1>1. \A c \in Channels : c[1] \in {"telegram", "whatsapp"}
    BY DEF Channels
<1>2. ReadCandidates => pc \in {"telegram", "whatsapp"}
    BY <1>1 DEF ReadCandidates, Worker
<1> QED BY <1>2 DEF CandidateStep, EachHidden, EachCreate, EachLink, EachInsert, EachDrop,
           EachDone, Worker

\* Nobody comes between the statements on those who have nobody yet: the
\* identity is still free when its person is made and when it is linked.
LEMMA CandidateStepQuiet ==
    ASSUME AddressBook, QuietInv, quiet = "pass", CandidateStep
    PROVE  PassInv'
<1>1. RowsInv /\ ReadInv /\ PassInv /\ pass \in Snapshot /\ pc # "drop"
    BY DEF AddressBook, ReadInv, QuietInv, PassInv
<1>2. UNCHANGED channelVars /\ Grows
    BY <1>1, CandidateStepWrites, PassGrows, PassReadsChannels DEF Pass
<1>3. OwnDone /\ OwnDone'
    <2>1. pc \in {"hidden", "telegram", "whatsapp", "each", "eachLink", "eachInsert"}
        BY <1>1, CandidatePlaces DEF ReadHidden, Worker
    <2> QED BY <1>1, <1>2, <2>1, DoneStays DEF PassInv
<1> PICK s : s = pass
    OBVIOUS
<1>4. s \in Snapshot
    BY <1>1
<1>5. CASE ReadHidden
    <2> PICK h : h = [n \in Phones |-> HiddenByPhone(n)]
        OBVIOUS
    <2> PICK t : t = [s EXCEPT !.row = 0, !.hidden = h]
        OBVIOUS
    <2>1. t.hidden = h
        BY <1>4 DEF Snapshot
    <2>2. pass' = t /\ pc' = "telegram" /\ people' = people
        BY <1>5 DEF ReadHidden, Go, rows
    <2>3. \A n \in Phones : h[n] # 0 => There(h[n])
        BY HiddenIs
    <2>4. HiddenStay'
        BY <2>1, <2>2, <2>3 DEF HiddenStay, There
    <2> QED BY <1>3, <2>2, <2>4 DEF PassInv, HiddenStay
<1>6. HiddenStay \/ ReadHidden
    BY <1>1, CandidatePlaces DEF PassInv, HiddenStay
<1>7. ASSUME UNCHANGED rows PROVE /\ \A p : There(p)' <=> There(p)
                                  /\ \A channel : Candidates(channel)' = Candidates(channel)
    BY <1>2, <1>7 DEF rows, channelVars, There, Candidates, IsCandidate
<1>8. CASE ReadCandidates
    <2>1. PICK c \in Channels :
            /\ Worker(c[1]) /\ UNCHANGED rows
            /\ IF Candidates(c[2]) = {} THEN Go(c[3], {}, pass)
                                          ELSE Go("each", Candidates(c[2]), pass)
        BY <1>8 DEF ReadCandidates
    <2>2. ~ReadHidden
        BY <2>1 DEF ReadHidden, Worker, Channels
    <2>3. HiddenStay' /\ pass' = pass
        BY <1>6, <1>7, <2>1, <2>2 DEF Go, HiddenStay
    <2>4. c = <<"telegram", Telegram, "whatsapp">> \/ c = <<"whatsapp", WhatsApp, "refresh">>
        BY DEF Channels
    <2>5. \/ pc = "telegram" /\ c[2] = Telegram /\ c[3] = "whatsapp"
          \/ pc = "whatsapp" /\ c[2] = WhatsApp /\ c[3] = "refresh"
        BY <2>1, <2>4 DEF Worker
    <2>6. c[2] = WhatsApp => Candidates(Telegram) = {}
        <3>1. Telegram = WhatsApp => Candidates(Telegram) = {}
            BY PeopleAssumption DEF Candidates
        <3> QED BY <1>1, <2>5, <3>1 DEF PassInv
    <2>7. CASE Candidates(c[2]) # {}
        <3>1. pc' = "each" /\ todo' = Candidates(c[2])
            BY <2>1, <2>7 DEF Go
        <3>2. Candidates(c[2])' = Candidates(c[2]) /\ Candidates(Telegram)' = Candidates(Telegram)
            BY <1>7, <2>1
        <3>3. EachInv(c[2])'
            BY <2>6, <2>7, <3>1, <3>2 DEF EachInv
        <3> QED BY <1>3, <2>3, <2>5, <3>1, <3>3, EachKeeps
    <2>8. CASE Candidates(c[2]) = {}
        <3>1. pc' = c[3] /\ Candidates(Telegram)' = {} /\
                  (c[2] = WhatsApp => Candidates(WhatsApp)' = {})
            BY <1>7, <2>1, <2>5, <2>6, <2>8 DEF Go
        <3>2. CASE pc = "telegram"
            BY <1>3, <2>3, <2>5, <3>1, <3>2 DEF PassInv, HiddenStay
        <3>3. CASE pc = "whatsapp"
            <4>1. AllDone
                BY <1>1, <2>5, <2>8, <3>3, CandidatesSplit DEF PassInv, AllDone
            <4>2. AllDone' /\ pc' = "refresh"
                BY <1>2, <2>5, <3>1, <3>3, <4>1, DoneStays
            <4> QED BY <4>2 DEF PassInv
        <3> QED BY <2>5, <3>2, <3>3
    <2> QED BY <2>7, <2>8
<1>9. ASSUME pc \in {"each", "eachLink", "eachInsert"}
      PROVE  \E channel \in {Telegram, WhatsApp} : EachInv(channel)
    BY <1>1, <1>9 DEF PassInv
<1>10. ASSUME NEW i \in Identities, EachHidden(i) PROVE PassInv'
    <2> PICK p, t : p = HiddenFor(i) /\ t = [s EXCEPT !.row = p, !.for = i]
        OBVIOUS
    <2>1. t.row = p /\ t.for = i /\ t.hidden = s.hidden
        BY <1>4 DEF Snapshot
    <2>2. /\ pc = "each" /\ i \in todo /\ UNCHANGED rows /\ p # 0 /\ pass' = t /\ todo' = todo \ {i}
          /\ pc' = IF Linkable(p, i) THEN "eachInsert" ELSE "each"
        BY <1>10 DEF EachHidden, Worker, Go
    <2>3. PICK channel \in {Telegram, WhatsApp} : EachInv(channel)
        BY <1>9, <2>2
    <2>4. HiddenStay /\ There(p)
        <3>1. PhoneSeen(i) \in Phones /\ p = s.hidden[PhoneSeen(i)]
            BY <1>1, <2>2, PhoneTyped DEF HiddenFor
        <3> QED BY <1>6, <2>2, <3>1 DEF HiddenStay, ReadHidden, Worker
    <2>5. i \in Candidates(channel) /\ i \in channel /\ link[i] = 0
        BY <2>2, <2>3 DEF EachInv, Candidates
    <2>6. pc' = "eachInsert"
        BY <2>2, <2>4, <2>5 DEF Linkable
    <2>7. HiddenStay' /\ There(p)' /\ link' = link
        BY <1>7, <2>1, <2>2, <2>4 DEF HiddenStay, rows
    <2>8. Candidates(channel)' = Candidates(channel) /\ Candidates(Telegram)' = Candidates(Telegram)
        BY <1>7, <2>2
    <2>9. There(pass.row)' /\ pass'.for = i
        BY <2>1, <2>2, <2>7 DEF There
    <2>10. EachInv(channel)'
        BY <2>2, <2>3, <2>5, <2>6, <2>7, <2>8, <2>9 DEF EachInv
    <2> QED BY <1>3, <2>6, <2>7, <2>10, EachKeeps
<1>11. ASSUME NEW i \in Identities, EachCreate(i) PROVE PassInv'
    <2> PICK next, name, t : next = Fresh /\ name = NameSeen(i)
                           /\ t = [s EXCEPT !.row = next, !.for = i, !.made = next]
        OBVIOUS
    <2> PICK r : r = [there |-> TRUE, name |-> name, source |-> "channel", archived |-> FALSE,
                      isOwner |-> FALSE]
        OBVIOUS
    <2>1. t.row = next /\ t.for = i /\ t.hidden = s.hidden /\ r.there
        BY <1>4 DEF Snapshot
    <2>2. /\ pc = "each" /\ i \in todo /\ link' = link /\ pass' = t /\ todo' = todo \ {i}
          /\ pc' = "eachLink" /\ next \in Ids
        BY <1>11 DEF EachCreate, Worker, Go, CanInsert
    <2>3. people' = [people EXCEPT ![next] = r] /\ people \in [Ids -> Row]
        BY <1>1, <1>11, Zenon DEF EachCreate, Insert, RowsInv
    <2>4. \A p : There(p) => There(p)'
        BY <2>1, <2>3 DEF There
    <2>5. people'[next] = r /\ next \in Ids
        BY <2>2, <2>3
    <2>6. PICK channel \in {Telegram, WhatsApp} : EachInv(channel)
        BY <1>9, <2>2
    <2>7. HiddenStay
        BY <1>6, <2>2 DEF ReadHidden, Worker
    <2>8. i \in Candidates(channel) /\ i \in channel /\ link[i] = 0
        BY <2>2, <2>6 DEF EachInv, Candidates
    <2>9. HiddenStay'
        BY <2>1, <2>2, <2>4, <2>7 DEF HiddenStay
    <2>10. Candidates(channel)' = Candidates(channel)
               /\ Candidates(Telegram)' = Candidates(Telegram)
        BY <1>2, <2>2 DEF Candidates, IsCandidate, channelVars
    <2>11. There(pass.row)' /\ pass'.for = i
        BY <2>1, <2>2, <2>5 DEF There
    <2>12. EachInv(channel)'
        BY <2>2, <2>6, <2>8, <2>10, <2>11 DEF EachInv
    <2> QED BY <1>3, <2>2, <2>9, <2>12, EachKeeps
<1>12. CASE EachLink
    <2>1. PICK channel \in {Telegram, WhatsApp} : EachInv(channel)
        BY <1>9, <1>12 DEF EachLink, Worker
    <2>2. pc = "eachLink" /\ There(s.row) /\ link[s.for] = 0 /\ UNCHANGED <<rows, pass, todo>>
        BY <1>12, <2>1 DEF EachLink, Worker, EachInv, Go
    <2>3. pc' = "eachInsert"
        BY <1>12, <2>2 DEF EachLink, Linkable, Go
    <2>4. HiddenStay'
        BY <1>6, <1>7, <2>2 DEF HiddenStay, ReadHidden, Worker
    <2>5. Candidates(channel)' = Candidates(channel) /\ Candidates(Telegram)' = Candidates(Telegram)
          /\ There(pass.row)' /\ link' = link
        BY <1>7, <2>2 DEF There, rows
    <2>6. EachInv(channel)'
        BY <2>1, <2>2, <2>3, <2>5 DEF EachInv
    <2> QED BY <1>3, <2>3, <2>4, <2>6, EachKeeps
<1>13. CASE EachInsert
    <2> PICK t : t = [s EXCEPT !.made = 0]
        OBVIOUS
    <2>1. t.for = s.for /\ t.hidden = s.hidden
        BY <1>4 DEF Snapshot
    <2>2. PICK channel \in {Telegram, WhatsApp} : EachInv(channel)
        BY <1>9, <1>13 DEF EachInsert, Worker
    <2>3. /\ pc = "eachInsert" /\ There(s.row) /\ link[s.for] = 0 /\ s.for \in Identities
          /\ s.for \in channel /\ s.for \notin todo
        BY <1>1, <1>13, <2>2 DEF EachInsert, Worker, EachInv, ReadInv
    <2>4. pc' = "each" /\ todo' = todo /\ pass' = t /\ LinkInsert(s.row, s.for, PhoneSeen(s.for))
        BY <1>13, <2>3 DEF EachInsert, Linkable, Go
    <2>5. PhoneSeen(s.for) \in Phones \cup {None}
        BY <1>1, <2>3, PhoneTyped
    <2>6. /\ people' = people /\ link'[s.for] # 0
          /\ \A j \in Identities : j # s.for => link'[j] = link[j]
        BY <1>1, <2>3, <2>4, <2>5, Linked DEF Linkable
    <2>7. HiddenStay'
        BY <1>6, <2>1, <2>3, <2>4, <2>6 DEF HiddenStay, ReadHidden, Worker, There
    <2>8. s.for \notin Candidates(channel)'
        BY <2>6 DEF Candidates
    <2>9. todo \subseteq Candidates(channel)'
        <3>1. todo \subseteq Candidates(channel)
            BY <2>2 DEF EachInv
        <3> QED BY <1>2, <2>3, <2>6, <3>1, ChannelsAre DEF Candidates, IsCandidate, channelVars
    <2>10. /\ Candidates(channel)' \subseteq Candidates(channel)
           /\ Candidates(Telegram)' \subseteq Candidates(Telegram)
        BY <1>2, DoneStays, ChannelsAre
    <2>11. Candidates(channel)' \subseteq todo
        BY <2>2, <2>3, <2>8, <2>10 DEF EachInv
    <2>12. channel = WhatsApp => Candidates(Telegram)' = {}
        BY <2>2, <2>10 DEF EachInv
    <2>13. EachInv(channel)'
        BY <2>1, <2>3, <2>4, <2>9, <2>11, <2>12 DEF EachInv
    <2> QED BY <1>3, <2>4, <2>7, <2>13, EachKeeps
<1>14. CASE EachDone
    <2> PICK t : t = [s EXCEPT !.for = None]
        OBVIOUS
    <2>1. t.hidden = s.hidden
        BY <1>4 DEF Snapshot
    <2>2. /\ pc = "each" /\ todo = {} /\ UNCHANGED rows /\ pass' = t
          /\ pc' = IF s.for \in Telegram THEN "whatsapp" ELSE "refresh"
        BY <1>14 DEF EachDone, Worker, Go
    <2>3. PICK channel \in {Telegram, WhatsApp} : EachInv(channel)
        BY <1>9, <2>2
    <2>4. s.for \in channel /\ Candidates(channel) = {}
        BY <2>2, <2>3 DEF EachInv
    <2>5. CASE s.for \in Telegram
        <3>1. channel = Telegram
            BY <2>4, <2>5, PeopleAssumption
        <3>2. Candidates(Telegram)' = {} /\ HiddenStay'
            BY <1>6, <1>7, <2>1, <2>2, <2>4, <3>1 DEF HiddenStay, ReadHidden, Worker
        <3> QED BY <1>3, <2>2, <2>5, <3>2 DEF PassInv, HiddenStay
    <2>6. CASE s.for \notin Telegram
        <3>1. channel = WhatsApp
            BY <2>4, <2>6
        <3>2. AllDone
            BY <1>3, <2>3, <2>4, <3>1, CandidatesSplit DEF EachInv, AllDone
        <3>3. AllDone' /\ pc' = "refresh"
            BY <1>2, <2>2, <2>6, <3>2, DoneStays
        <3> QED BY <3>3 DEF PassInv
    <2> QED BY <2>5, <2>6
<1>15. ~EachDrop
    BY <1>1 DEF EachDrop, Worker
<1> QED BY <1>5, <1>8, <1>10, <1>11, <1>12, <1>13, <1>14, <1>15 DEF CandidateStep

\* What is left to do once everybody has a person leaves everybody with one.
LEMMA FollowStepQuiet ==
    ASSUME AddressBook, QuietInv, quiet = "pass", FollowStep
    PROVE  PassInv'
<1>1. /\ pc \in {"refresh", "group", "merge", "names", "rename", "end"}
      /\ pc' \in {"group", "merge", "names", "rename", "end", "idle"}
    BY DEF FollowStep, RefreshIdentities, ByPhone, ReadNames, PassEnd, MergeShared, Rename,
       Worker, Go, Loop
<1>2. AllDone /\ Grows /\ UNCHANGED channelVars
    BY <1>1, FollowStepWrites, PassGrows, PassReadsChannels DEF Pass, QuietInv, PassInv
<1>3. AllDone'
    BY <1>2, DoneStays
<1> QED BY <1>1, <1>3 DEF PassInv

\* The steps of a pass that has nobody to link.
Calm ==
    \/ PassBegin \/ OwnerFound \/ ReadHidden \/ RefreshIdentities \/ ByPhone \/ ReadNames \/ PassEnd
    \/ \E i \in OwnAccounts : OwnHolder(i) \/ (OwnLink(i) /\ link[i] # 0)
    \/ ReadCandidates /\ pc' # "each"
    \/ \E p \in Ids : FoldHolder(p) \/ Rename(p)
    \/ \E pair \in Ids \X Ids : MergeShared(pair)

\* A pass over an archive in which everybody has a person takes no other step.
LEMMA PassIsCalm ==
    ASSUME AddressBook, QuietInv, quiet = "settled", Pass
    PROVE  Calm
<1>1. /\ AllDone /\ pc \notin {"promote", "ownInsert", "each", "eachLink", "eachInsert", "drop"}
      /\ pc = "ownerRow" => OwnAccounts # {}
    BY DEF QuietInv
<1>2. pc = "ownerRow" => OwnerRows # {}
    BY <1>1 DEF AllDone, OwnDone
<1>3. \A i \in OwnAccounts : link[i] # 0
    BY <1>1 DEF AllDone, OwnDone
<1>4. ASSUME ReadCandidates PROVE pc' # "each"
    <2>1. PICK c \in Channels :
            IF Candidates(c[2]) = {} THEN Go(c[3], {}, pass) ELSE Go("each", Candidates(c[2]), pass)
        BY <1>4 DEF ReadCandidates
    <2>2. (c[2] = Telegram \/ c[2] = WhatsApp) /\ c[3] \in {"whatsapp", "refresh"}
        BY DEF Channels
    <2>3. Candidates(c[2]) = {}
        BY <1>1, <2>2 DEF AllDone, Candidates, Identities
    <2> QED BY <2>1, <2>2, <2>3 DEF Go
<1>5. CASE OwnerStep
    <2>1. ~OwnerPick /\ ~OwnerInsert /\ ~OwnerPromote /\ ~OwnInsert
        BY <1>1, <1>2 DEF OwnerPick, OwnerInsert, OwnerPromote, OwnInsert, Worker
    <2> QED BY <1>3, <1>5, <2>1 DEF OwnerStep, Calm
<1>6. CASE CandidateStep
    <2>1. /\ ~EachLink /\ ~EachInsert /\ ~EachDrop /\ ~EachDone
          /\ \A i \in Identities : ~EachHidden(i) /\ ~EachCreate(i)
        BY <1>1 DEF EachHidden, EachCreate, EachLink, EachInsert, EachDrop, EachDone, Worker
    <2> QED BY <1>4, <1>6, <2>1 DEF CandidateStep, Calm
<1>7. CASE FollowStep
    BY <1>7 DEF FollowStep, Calm
<1> QED BY <1>5, <1>6, <1>7 DEF Pass

\* Such a pass stays where there is nobody to link.
LEMMA CalmPlaces ==
    ASSUME Calm
    PROVE  pc' \notin {"promote", "ownInsert", "each", "eachLink", "eachInsert", "drop"}
<1>1. ASSUME ReadCandidates, pc' # "each"
      PROVE  pc' \notin {"promote", "ownInsert", "each", "eachLink", "eachInsert", "drop"}
    <2>1. PICK c \in Channels : pc' = c[3]
        BY <1>1 DEF ReadCandidates, Go
    <2> QED BY <2>1 DEF Channels
<1>2. ASSUME NEW i \in OwnAccounts, OwnLink(i), link[i] # 0
      PROVE  pc' \notin {"promote", "ownInsert", "each", "eachLink", "eachInsert", "drop"}
    BY <1>2 DEF OwnLink, Linkable, Loop
<1> QED BY <1>1, <1>2 DEF Calm, PassBegin, OwnerFound, ReadHidden, RefreshIdentities, ByPhone,
           ReadNames,
            PassEnd, OwnHolder, FoldHolder, Rename, MergeShared, Go, Loop, Fold

\* A pass nobody disturbs leaves its identities with people, and the next one
\* stays where there is nobody to link.
LEMMA QuietKept == ASSUME AddressBook, QuietInv, [Next]_vars PROVE QuietInv'
<1> DEFINE OwnPlace == pc \in {"holders", "ownerRow", "promote", "fold", "ownLink", "ownInsert"}
                            => OwnAccounts # {}
           SettledInv == /\ AllDone
                         /\ pc \notin {"promote", "ownInsert", "each", "eachLink", "eachInsert",
                                "drop"}
<1>1. QuietOK' /\ OwnPlace /\ (quiet = "pass" => PassInv) /\ (quiet = "settled" => SettledInv)
    BY QuietStays DEF QuietInv
<1>2. ASSUME OwnPlace', quiet' = "pass" => PassInv', quiet' = "settled" => SettledInv'
      PROVE  QuietInv'
    BY <1>1, <1>2 DEF QuietInv
<1>3. ASSUME quiet' = "no", OwnPlace' PROVE QuietInv'
    BY <1>2, <1>3
<1>4. CASE Portal \/ Channel
    <2>1. quiet' = "no"
        BY <1>4 DEF Portal, CreatePerson, Hide, Restore, ResetRead, SaveRead, LinkRead, MergeByHand,
                    Unlink, DeskWrite, Desk, OwnerActs, Channel, SyncContact, Hear
    <2>2. pc' = pc
        BY <1>4, PortalLeaves DEF passVars
    <2> QED BY <1>1, <1>3, <2>1, <2>2
<1>5. CASE PassFails
    BY <1>3, <1>5 DEF PassFails
<1>6. CASE UNCHANGED vars
    <2>1. QuietInv' <=> QuietInv
        BY <1>6 DEF QuietOK, vars, rows, channelVars, passVars, QuietInv, PassInv, EachInv,
           AllDone, OwnDone,
                    Candidates, IsCandidate, OwnerRows, There
    <2> QED BY <2>1
<1>7. CASE Pass
    <2>1. OwnPlace'
        <3>1. CASE OwnerStep
            BY <1>1, <3>1 DEF OwnerStep, PassBegin, OwnHolder, OwnLink, FoldHolder, OwnerFound,
               OwnerPick,
                              OwnerPromote, OwnerInsert, OwnInsert, Loop, Go, Fold, Worker
        <3>2. CASE CandidateStep
            <4>1. \A c \in Channels : c[3] \in {"whatsapp", "refresh"}
                BY DEF Channels
            <4>2. ReadCandidates => pc' \in {"whatsapp", "refresh", "each"}
                BY <4>1 DEF ReadCandidates, Go
            <4> QED BY <3>2, <4>2 DEF CandidateStep, ReadHidden, EachHidden, EachCreate, EachLink,
                                      EachInsert, EachDrop, EachDone, Go
        <3>3. CASE FollowStep
            BY <3>3 DEF FollowStep, RefreshIdentities, ByPhone, ReadNames, PassEnd, MergeShared,
               Rename,
                        Worker, Go, Loop
        <3> QED BY <1>7, <3>1, <3>2, <3>3 DEF Pass
    <2>2. CASE PassBegin
        <3>1. /\ pc' = (IF OwnAccounts = {} THEN "hidden" ELSE "holders")
              /\ quiet' = (IF quiet = "settled" THEN "settled" ELSE "pass") /\ UNCHANGED channelVars
              /\ pc # "drop"
            BY <2>2 DEF PassBegin, Worker
        <3>2. PassInv'
            <4>1. OwnAccounts = {} => OwnDone'
                BY DEF OwnDone
            <4> QED BY <3>1, <4>1 DEF PassInv
        <3>3. quiet = "settled" => SettledInv'
            <4>1. Grows
                BY <3>1, <2>2, OwnerStepWrites, PassGrows DEF OwnerStep
            <4> QED BY <1>1, <3>1, <4>1, DoneStays
        <3> QED BY <1>2, <2>1, <3>1, <3>2, <3>3
    <2>3. CASE PassEnd
        <3>1. pc = "end" /\ pc' = "idle" /\ (quiet' = IF quiet = "no" THEN "no" ELSE "settled")
            BY <2>3 DEF PassEnd, Worker
        <3>2. Grows /\ UNCHANGED channelVars
            BY <1>7, <2>3, <3>1, FollowStepWrites, PassGrows, PassReadsChannels DEF FollowStep
        <3>3. quiet \in {"pass", "settled"} => AllDone
            BY <1>1, <3>1 DEF PassInv
        <3>4. quiet' = "settled" => SettledInv'
            <4>1. quiet' = "settled" /\ quiet \notin {"pass", "settled"} => AllDone
                BY <3>1 DEF QuietInv, QuietOK
            <4> QED BY <3>1, <3>2, <3>3, <4>1, DoneStays
        <3> QED BY <1>2, <2>1, <3>1, <3>4
    <2>4. CASE ~PassBegin /\ ~PassEnd
        <3>1. quiet' = quiet
            <4>1. CASE OwnerStep
                BY <2>4, <4>1 DEF OwnerStep, OwnHolder, OwnLink, FoldHolder, OwnerFound, OwnerPick,
                            OwnerPromote, OwnerInsert, OwnInsert, Loop, Go, Fold
            <4>2. CASE CandidateStep
                BY <4>2 DEF CandidateStep, ReadHidden, ReadCandidates, EachHidden, EachCreate,
                   EachLink,
                            EachInsert, EachDrop, EachDone, Go
            <4>3. CASE FollowStep
                BY <2>4, <4>3 DEF FollowStep, RefreshIdentities, ByPhone, ReadNames, MergeShared,
                   Rename,
                            Go, Loop
            <4> QED BY <1>7, <4>1, <4>2, <4>3 DEF Pass
        <3>2. quiet = "pass" => PassInv'
            BY <1>7, <2>4, OwnerStepQuiet, CandidateStepQuiet, FollowStepQuiet DEF Pass
        <3>3. quiet = "settled" => SettledInv'
            <4> SUFFICES ASSUME quiet = "settled" PROVE SettledInv'
                OBVIOUS
            <4>1. Calm
                BY <1>7, PassIsCalm
            <4>2. pc # "drop" /\ AllDone
                BY <1>1
            <4>3. Grows /\ UNCHANGED channelVars
                BY <1>7, <4>2, OwnerStepWrites, CandidateStepWrites, FollowStepWrites, PassGrows,
                   PassReadsChannels DEF Pass
            <4> QED BY <4>1, <4>2, <4>3, CalmPlaces, DoneStays
        <3> QED BY <1>2, <2>1, <3>1, <3>2, <3>3
    <2> QED BY <2>2, <2>3, <2>4
<1> QED BY <1>4, <1>5, <1>6, <1>7 DEF Next

\* CreatesOnce, as what one step does.
NobodyNew ==
    /\ \A p \in Ids : people'[p].there => people[p].there
    /\ \A i \in Identities : link[i] = 0 => link'[i] = 0

\* A pass that has nobody to link creates and links nobody.
LEMMA CalmAdds == ASSUME AddressBook, Calm PROVE NobodyNew
<1>1. RowsInv /\ ReadInv
    BY DEF AddressBook
<1>2. ASSUME people' = people, link' = link PROVE NobodyNew
    BY <1>2 DEF NobodyNew
<1>3. ASSUME NEW from, NEW into, Merge(from, into) PROVE NobodyNew
    <2>1. CASE Same
        BY <1>2, <2>1 DEF Same
    <2>2. CASE MayMerge(from, into)
        <3>1. /\ from # 0 /\ people[into].there /\ ~people'[from].there
              /\ \A q \in Ids : q # from /\ q # into => people'[q] = people[q]
              /\ \A i \in Identities : link'[i] = IF link[i] = from THEN into ELSE link[i]
            <4>1. from \in Ids
                BY <2>2 DEF MayMerge, Alive, There
            <4>2. from # 0
                BY <4>1, PeopleAssumption DEF Ids
            <4> QED BY <1>1, <1>3, <2>2, <4>2, Merged
        <3> QED BY <3>1 DEF NobodyNew
    <2> QED BY <1>1, <1>3, <2>1, <2>2, MergesOrNot
<1>4. ASSUME NEW p \in Ids, Rename(p) PROVE NobodyNew
    <2>1. Renames(p) => people[p].there
        BY DEF Renames, Follows, Alive, There
    <2>2. people \in [Ids -> Row]
        BY <1>1 DEF RowsInv
    <2>3. \A q \in Ids : q # p => people'[q] = people[q]
        BY <1>4, <2>2 DEF Rename
    <2>4. ~Renames(p) => people' = people
        BY <1>4 DEF Rename
    <2>5. link' = link
        BY <1>4 DEF Rename
    <2> QED BY <2>1, <2>3, <2>4, <2>5 DEF NobodyNew
<1>5. CASE \E p \in Ids : FoldHolder(p)
    BY <1>3, <1>5 DEF FoldHolder
<1>6. CASE \E pair \in Ids \X Ids : MergeShared(pair)
    BY <1>3, <1>6 DEF MergeShared
<1>7. CASE RefreshIdentities
    BY <1>2, <1>7 DEF RefreshIdentities
<1>8. CASE \/ PassBegin \/ OwnerFound \/ ReadHidden \/ ByPhone \/ ReadNames \/ PassEnd
                  \/ ReadCandidates
           \/ \E i \in OwnAccounts : OwnHolder(i) \/ OwnLink(i)
    BY <1>2, <1>8 DEF PassBegin, OwnerFound, ReadHidden, ByPhone, ReadNames, PassEnd,
       ReadCandidates,
                      OwnHolder, OwnLink, rows
<1> QED BY <1>4, <1>5, <1>6, <1>7, <1>8 DEF Calm

\* A second pass over an archive nobody touched creates nobody and links
\* nothing, however its first pass and the owner's last act interleaved.
THEOREM SecondPassIdle == Spec => CreatesOnce
<1>1. AddressBook /\ QuietInv /\ [Next]_vars =>
          [quiet = "settled" /\ quiet' = "settled" => NobodyNew]_vars
    <2> SUFFICES ASSUME AddressBook, QuietInv, Next, quiet = "settled", quiet' = "settled"
                 PROVE  NobodyNew
        OBVIOUS
    <2>1. CASE Pass
        BY <2>1, PassIsCalm, CalmAdds
    <2>2. CASE PassFails \/ Channel \/ Portal
        BY <2>2 DEF PassFails, Portal, CreatePerson, Hide, Restore, ResetRead, SaveRead, LinkRead,
                    MergeByHand, Unlink, DeskWrite, Desk, OwnerActs, Channel, SyncContact, Hear
    <2> QED BY <2>1, <2>2 DEF Next
<1>2. Init => AddressBook /\ QuietInv
    BY FirstBook
<1>3. AddressBook /\ QuietInv /\ [Next]_vars => AddressBook' /\ QuietInv'
    BY AddressBookKept, QuietKept
<1> QED BY <1>1, <1>2, <1>3, PTL DEF Spec, CreatesOnce, NobodyNew
=============================================================================
