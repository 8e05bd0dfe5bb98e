----------------------------- MODULE AccessProofs -----------------------------
(***************************************************************************)
(* Proofs about Access, for every set of browsers, channels, accounts and  *)
(* tabs, and any number of pairings and keys: what the run `services'      *)
(* checks of it on a small instance.                                       *)
(***************************************************************************)
EXTENDS Access, TLAPS

PairingRow == [purpose: {"none", "archive", "recovery"},
               channel: Channels \cup {"none"},
               status: {"none", "pending", "active", "error"},
               revoked: BOOLEAN, account: Accounts \cup {"none"},
               matched: BOOLEAN, key: Keys \cup {0},
               by: Browsers \cup {"nobody", "deleted"}]

\* A row is somebody's, an archive that was paired reports its account, and
\* only a recovery that matched holds a key.
RowOK(r) ==
    /\ r.by \in Browsers <=> r.purpose # "none"
    /\ r.purpose = "archive" => r.account \in paired \cup {"none"}
    /\ r.purpose = "archive" /\ r.status = "active" => r.account \in paired
    /\ r.key # 0 => r.purpose = "recovery" /\ r.matched /\ r.account \in paired

RowsInv == \A p \in Pairings : RowOK(pairing[p])

\* A key is in one place: in a row, with the worker, or given.
Known(k) == k \in Keys /\ keys[k] # "none"
KeysInv ==
    /\ \A p \in Pairings : pairing[p].key # 0 =>
        Known(pairing[p].key) /\ pairing[p].key # completing.key
    /\ \A p, q \in Pairings : pairing[p].key = pairing[q].key /\ pairing[p].key # 0 => p = q
    /\ completing.key # 0 => Known(completing.key)
    /\ \A h \in handed : /\ Known(h.key) /\ h.key # completing.key
                         /\ \A p \in Pairings : pairing[p].key # h.key

CompletingInv ==
    /\ completing.step = "none" \/ completing.pairing \in Pairings
    /\ completing.step = "none" => completing = NotCompleting
    /\ completing.step \in {"match", "minted"} => completing.account \in paired
    /\ completing.key # 0 <=> completing.step = "minted"

\* What a cookie or a tab of browser b names is of b.
OwnedBy(p, b) == p \in Pairings => pairing[p].by \in {b, "deleted"}
CookiesInv ==
    \A b \in Browsers :
        /\ OwnedBy(setupCookie[b], b) /\ OwnedBy(recoveryCookie[b], b)
        /\ \A t \in Tabs :
            /\ OwnedBy(claiming[<<b, t>>].pairing, b)
            /\ claiming[<<b, t>>] # NotClaiming =>
                claiming[<<b, t>>].pairing \in Pairings /\ claiming[<<b, t>>].key \in Keys

\* Until the first key is minted, a pairing that passed finishSetup's guards
\* stands.
FinishInv ==
    FreshInstance =>
        \A b \in Browsers : finishing[b] # 0 =>
            /\ finishing[b] \in Archives
            /\ pairing[finishing[b]].by = b /\ pairing[finishing[b]].status = "active"

IInv ==
    /\ AccessTypeOK
    /\ RowsInv
    /\ KeysInv
    /\ CompletingInv
    /\ CookiesInv
    /\ FinishInv
    /\ KeysAccounted

-----------------------------------------------------------------------------
(* What a step does to a row.                                              *)

\* Its state may have changed, but for becoming active.
KeptRow(r, q) ==
    /\ q.purpose = r.purpose /\ q.by = r.by /\ q.account = r.account /\ q.key = r.key
    /\ r.matched => q.matched
    /\ q.status = "active" <=> r.status = "active"

PairedRow(r, q) ==
    /\ r.purpose = "archive" /\ q.purpose = "archive" /\ q.by = r.by /\ q.key = r.key
    /\ r.status = "pending" /\ q.account \in paired'

GoneRow(r, q) ==
    /\ q.purpose = "none" /\ q.by = "deleted" /\ q.key = 0
    /\ r.by \in Browsers
    /\ r.key = 0 \/ r.key \in stray'
    /\ (FreshInstance /\ r.purpose = "archive") => r.status # "active"

MadeRow(r, q) ==
    /\ r.by = "nobody"
    /\ q.by \in Browsers /\ q.purpose # "none" /\ q.key = 0
    /\ q.status = "pending" /\ q.account = "none"

GivenRow(r, q) ==
    /\ completing.step = "minted" /\ completing'.key = 0
    /\ r.purpose = "recovery" /\ q.purpose = "recovery" /\ q.by = r.by
    /\ q.matched /\ q.key = completing.key /\ q.account = completing.account
    /\ r.key = 0 \/ r.key \in stray'

TakenRow(r, q) ==
    /\ r.key # 0 /\ q.key = 0
    /\ q.purpose = r.purpose /\ q.by = r.by
    /\ keys[r.key] = "active" => \E h \in handed' : h.key = r.key

RowMoves(p, q) ==
    \/ KeptRow(pairing[p], q) \/ PairedRow(pairing[p], q) \/ GoneRow(pairing[p], q)
    \/ MadeRow(pairing[p], q)
    \/ (p = completing.pairing /\ GivenRow(pairing[p], q))
    \/ TakenRow(pairing[p], q)

RowsMove ==
    /\ pairing' \in [Pairings -> PairingRow]
    /\ \A p \in Pairings : RowMoves(p, pairing'[p])

\* The rows, as they are typed.
LEMMA PairingRows ==
    ASSUME IInv
    PROVE  /\ pairing \in [Pairings -> PairingRow]
           /\ \A p \in Pairings : pairing[p] \in PairingRow /\ RowOK(pairing[p])
           /\ \A p \in Pairings : KeptRow(pairing[p], pairing[p])
  <1>1. pairing \in [Pairings -> PairingRow] BY DEF IInv, AccessTypeOK, PairingRow
  <1>2. QED BY <1>1 DEF IInv, RowsInv, KeptRow

\* A step that changes no row.
LEMMA RowsStay ==
    ASSUME IInv, UNCHANGED pairing
    PROVE  RowsMove
  BY PairingRows DEF RowsMove, RowMoves

\* One row is replaced.
LEMMA OneRow ==
    ASSUME IInv, NEW p \in Pairings, NEW new \in PairingRow,
           pairing' = [pairing EXCEPT ![p] = new], RowMoves(p, new)
    PROVE  RowsMove
  <1>1. pairing' \in [Pairings -> PairingRow] BY PairingRows
  <1>2. ASSUME NEW q \in Pairings PROVE RowMoves(q, pairing'[q])
    <2>1. CASE q = p
      <3>1. pairing'[q] = new BY <2>1, PairingRows
      <3>2. QED BY <2>1, <3>1
    <2>2. CASE q # p
      <3>1. pairing'[q] = pairing[q] BY <2>2, PairingRows
      <3>2. QED BY <3>1, PairingRows DEF RowMoves
    <2>3. QED BY <2>1, <2>2
  <1>3. QED BY <1>1, <1>2 DEF RowsMove

\* A row changes, but for its account, its key and its becoming active.
LEMMA KeptOne ==
    ASSUME IInv, NEW p \in Pairings, NEW new \in PairingRow,
           pairing' = [pairing EXCEPT ![p] = new], KeptRow(pairing[p], new)
    PROVE  RowsMove
  BY OneRow DEF RowMoves

\* revokeConnection keeps every row.
LEMMA Revoked ==
    ASSUME IInv, NEW p, pairing' = WithRevoked(p)
    PROVE  RowsMove
  <1>1. CASE pairing' = pairing BY <1>1, RowsStay
  <1>2. CASE p \in Pairings /\ pairing' = [pairing EXCEPT ![p].revoked = TRUE]
    <2>1. PICK new : new = [pairing[p] EXCEPT !.revoked = TRUE] OBVIOUS
    <2>2. new \in PairingRow /\ KeptRow(pairing[p], new)
      BY <1>2, <2>1, PairingRows DEF PairingRow, KeptRow
    <2>3. pairing' = [pairing EXCEPT ![p] = new] BY <1>2, <2>1, Zenon
    <2>4. QED BY <1>2, <2>2, <2>3, KeptOne
  <1>3. QED BY <1>1, <1>2 DEF WithRevoked

\* The rows of a set are deleted.
LEMMA Without ==
    ASSUME IInv, NEW S
    PROVE  /\ WithoutRows(S) \in [Pairings -> PairingRow]
           /\ \A p \in Pairings : p \notin S => WithoutRows(S)[p] = pairing[p]
           /\ \A p \in Pairings \cap S :
                LET q == WithoutRows(S)[p] IN q.purpose = "none" /\ q.by = "deleted" /\ q.key = 0
  <1> DEFINE row == [NoPairing EXCEPT !.by = "deleted"]
  <1>1. row \in PairingRow /\ row.purpose = "none" /\ row.by = "deleted" /\ row.key = 0
    BY DEF NoPairing, PairingRow
  <1>2. \A p \in Pairings : WithoutRows(S)[p] = IF p \in S THEN row ELSE pairing[p]
    BY DEF WithoutRows
  <1>3. WithoutRows(S) = [p \in Pairings |-> WithoutRows(S)[p]] BY DEF WithoutRows
  <1> HIDE DEF row
  <1>4. QED BY <1>1, <1>2, <1>3, PairingRows

\* Rows that are deleted, once what becomes of their keys is known.
LEMMA Deletes ==
    ASSUME IInv, NEW S \in SUBSET Pairings, pairing' = WithoutRows(S),
           \A p \in S : /\ pairing[p].purpose # "none"
                        /\ pairing[p].key = 0 \/ pairing[p].key \in stray'
                        /\ FreshInstance /\ pairing[p].purpose = "archive" =>
                            pairing[p].status # "active"
    PROVE  RowsMove
  <1>1. ASSUME NEW p \in Pairings PROVE RowMoves(p, pairing'[p])
    BY Without, PairingRows DEF RowMoves, GoneRow, RowOK
  <1>2. QED BY <1>1, Without DEF RowsMove

\* A row that is inserted.
LEMMA InsertedRow ==
    ASSUME IInv, NEW purpose \in {"archive", "recovery"}, NEW ch \in Channels \cup {"none"},
           NEW b \in Browsers
    PROVE  LET q == NewPairing(purpose, ch, b) IN
           /\ q \in PairingRow /\ q.purpose = purpose /\ q.by = b /\ q.key = 0
           /\ q.status = "pending" /\ q.account = "none"
  BY DEF NewPairing, NoPairing, PairingRow

\* What is said of the owner of a row is said of a browser.
LEMMA NobodyIsNobody == "nobody" \notin Browsers /\ "deleted" \notin Browsers
  BY AccessAssumption

-----------------------------------------------------------------------------
(* The steps that change rows.                                             *)

\* createSetupConnection deletes the live pairings, none of them active, and
\* makes a row for the browser.
LEMMA ConnectRows ==
    ASSUME IInv, NEW b \in Browsers, NEW ch \in Channels, SetupConnect(b, ch)
    PROVE  RowsMove
  <1>1. \A own \in LiveArchives : pairing[own].status # "active" BY DEF SetupConnect
  <1>2. PICK p \in Pairings :
          /\ NextPairing(p)
          /\ pairing' = [WithoutRows(LiveArchives) EXCEPT ![p] = NewPairing("archive", ch, b)]
    BY DEF SetupConnect
  <1>3. LiveArchives \subseteq Pairings
        /\ \A own \in LiveArchives : pairing[own].purpose = "archive"
    BY DEF LiveArchives, Archives
  <1>4. PICK rows : rows = WithoutRows(LiveArchives) OBVIOUS
  <1>5. /\ rows \in [Pairings -> PairingRow]
        /\ \A q \in Pairings : q \notin LiveArchives => rows[q] = pairing[q]
        /\ \A q \in LiveArchives : rows[q].purpose = "none" /\ rows[q].by = "deleted"
                                   /\ rows[q].key = 0
    BY <1>3, <1>4, Without
  <1>6. PICK new : new = NewPairing("archive", ch, b) OBVIOUS
  <1>7. new \in PairingRow /\ new.purpose = "archive" /\ new.by = b /\ new.key = 0
        /\ new.status = "pending" /\ new.account = "none"
    BY <1>6, InsertedRow
  <1>8. pairing' = [rows EXCEPT ![p] = new] BY <1>2, <1>4, <1>6, Zenon
  <1>9. pairing[p].by = "nobody" BY <1>2 DEF NextPairing
  <1>10. ASSUME NEW q \in Pairings PROVE RowMoves(q, pairing'[q])
    <2>1. CASE q = p
      <3>1. pairing'[q] = new BY <1>5, <1>8, <2>1
      <3>2. MadeRow(pairing[q], new) BY <1>7, <1>9, <2>1 DEF MadeRow
      <3>3. QED BY <3>1, <3>2 DEF RowMoves
    <2>2. CASE q # p /\ q \in LiveArchives
      <3>1. pairing'[q] = rows[q] BY <1>5, <1>8, <2>2
      <3>2. pairing[q].by \in Browsers /\ pairing[q].key = 0
        BY <1>3, <2>2, PairingRows DEF RowOK
      <3>3. pairing[q].status # "active" BY <1>1, <2>2
      <3>4. rows[q].purpose = "none" /\ rows[q].by = "deleted" /\ rows[q].key = 0
        BY <1>5, <2>2
      <3>5. GoneRow(pairing[q], rows[q]) BY <3>2, <3>3, <3>4 DEF GoneRow
      <3>6. QED BY <3>1, <3>5 DEF RowMoves
    <2>3. CASE q # p /\ q \notin LiveArchives
      <3>1. pairing'[q] = pairing[q] BY <1>5, <1>8, <2>3
      <3>2. QED BY <3>1, PairingRows DEF RowMoves
    <2>4. QED BY <2>1, <2>2, <2>3
  <1>11. pairing' \in [Pairings -> PairingRow] BY <1>5, <1>7, <1>8
  <1>12. QED BY <1>10, <1>11 DEF RowsMove

\* An archive is paired, and reports its account.
LEMMA PairsRows ==
    ASSUME IInv, NEW p \in Pairings, NEW a \in Accounts, Pairs(p, a)
    PROVE  RowsMove
  <1>1. /\ p \in Archives /\ pairing[p].status = "pending"
        /\ pairing' = [pairing EXCEPT ![p].status = "active", ![p].account = a]
        /\ a \in paired'
    BY DEF Pairs
  <1>2. PICK new : new = [pairing[p] EXCEPT !.status = "active", !.account = a] OBVIOUS
  <1>3. pairing' = [pairing EXCEPT ![p] = new] BY <1>1, <1>2, Zenon
  <1>4. new \in PairingRow /\ new.purpose = pairing[p].purpose /\ new.by = pairing[p].by
        /\ new.key = pairing[p].key /\ new.account = a
    BY <1>2, PairingRows DEF PairingRow
  <1>5. PairedRow(pairing[p], new) BY <1>1, <1>4 DEF PairedRow, Archives
  <1>6. QED BY <1>3, <1>4, <1>5, OneRow DEF RowMoves

\* A login of either kind fails, or an archive ends.
LEMMA EndsRows ==
    ASSUME IInv, NEW p \in Pairings, Ends(p) \/ RecoveryFails(p)
    PROVE  RowsMove
  <1>1. \/ pairing' = [pairing EXCEPT ![p].revoked = TRUE]
        \/ pairing[p].status # "active" /\ pairing' = [pairing EXCEPT ![p].status = "error"]
    BY DEF Ends, RecoveryFails
  <1>2. CASE pairing' = [pairing EXCEPT ![p].revoked = TRUE]
    <2>1. PICK new : new = [pairing[p] EXCEPT !.revoked = TRUE] OBVIOUS
    <2>2. new \in PairingRow /\ KeptRow(pairing[p], new)
      BY <2>1, PairingRows DEF PairingRow, KeptRow
    <2>3. pairing' = [pairing EXCEPT ![p] = new] BY <1>2, <2>1, Zenon
    <2>4. QED BY <2>2, <2>3, KeptOne
  <1>3. CASE pairing[p].status # "active" /\ pairing' = [pairing EXCEPT ![p].status = "error"]
    <2>1. PICK new : new = [pairing[p] EXCEPT !.status = "error"] OBVIOUS
    <2>2. new \in PairingRow /\ KeptRow(pairing[p], new)
      BY <1>3, <2>1, PairingRows DEF PairingRow, KeptRow
    <2>3. pairing' = [pairing EXCEPT ![p] = new] BY <1>3, <2>1, Zenon
    <2>4. QED BY <2>2, <2>3, KeptOne
  <1>4. QED BY <1>1, <1>2, <1>3

\* startRecovery deletes the live attempts, and their keys are counted as lost.
LEMMA StartDeletesRows ==
    ASSUME IInv, NEW b \in Browsers, NEW ch \in Channels, StartDeletes(b, ch)
    PROVE  RowsMove
  <1>1. /\ pairing' = WithoutRows(LiveRecoveries(ch))
        /\ stray' = stray \cup ({pairing[p].key : p \in LiveRecoveries(ch)} \ {0})
    BY DEF StartDeletes
  <1>2. LiveRecoveries(ch) \in SUBSET Pairings
        /\ \A p \in LiveRecoveries(ch) : pairing[p].purpose = "recovery"
    BY DEF LiveRecoveries
  <1>3. QED BY <1>1, <1>2, Deletes

\* startRecovery makes a row for the browser, or the index refuses it.
LEMMA StartInsertsRows ==
    ASSUME IInv, NEW b \in Browsers, StartInserts(b)
    PROVE  RowsMove
  <1>1. CASE pairing' = pairing BY <1>1, RowsStay
  <1>2. ASSUME NEW p \in Pairings, NextPairing(p),
               pairing' = [pairing EXCEPT ![p] = NewPairing("recovery", starting[b], b)]
        PROVE  RowsMove
    <2>1. starting[b] \in Channels \cup {"none"} BY DEF IInv, AccessTypeOK
    <2>2. PICK new : new = NewPairing("recovery", starting[b], b) OBVIOUS
    <2>3. new \in PairingRow /\ new.purpose = "recovery" /\ new.by = b /\ new.key = 0
          /\ new.status = "pending" /\ new.account = "none"
      BY <2>1, <2>2, InsertedRow
    <2>4. pairing[p].by = "nobody" BY <1>2 DEF NextPairing
    <2>5. pairing' = [pairing EXCEPT ![p] = new] BY <1>2, <2>2
    <2>6. MadeRow(pairing[p], new) BY <2>3, <2>4 DEF MadeRow
    <2>7. QED BY <2>3, <2>5, <2>6, OneRow DEF RowMoves
  <1>3. QED
    <2>1. \/ \E p \in Pairings :
              /\ NextPairing(p)
              /\ pairing' = [pairing EXCEPT ![p] = NewPairing("recovery", starting[b], b)]
          \/ pairing' = pairing
      BY DEF StartInserts
    <2>2. QED BY <1>1, <1>2, <2>1

\* A claim that wins takes the key from the row; an active one it hands over.
LEMMA TakesRows ==
    ASSUME IInv, NEW b \in Browsers, NEW t \in Tabs, ClaimTakes(b, t)
    PROVE  RowsMove
  <1>1. CASE pairing' = pairing BY <1>1, RowsStay
  <1>2. PICK c : c = claiming[<<b, t>>] OBVIOUS
  <1>3. CASE /\ Wins(c) /\ pairing' = [pairing EXCEPT ![c.pairing].key = 0]
             /\ Active(c.key) => handed' = handed \cup {Handed(b, t, c.key, c.pairing)}
    <2>1. c.pairing \in Pairings /\ c.key \in Keys
      BY <1>2 DEF IInv, CookiesInv, ClaimTakes
    <2>2. pairing[c.pairing].key = c.key /\ c.key # 0 BY <1>3, <2>1 DEF Wins, Keys
    <2>3. PICK new : new = [pairing[c.pairing] EXCEPT !.key = 0] OBVIOUS
    <2>4. new \in PairingRow /\ new.key = 0 /\ new.purpose = pairing[c.pairing].purpose
          /\ new.by = pairing[c.pairing].by
      BY <2>1, <2>3, PairingRows DEF PairingRow
    <2>5. Handed(b, t, c.key, c.pairing).key = c.key BY DEF Handed
    <2>6. keys[c.key] = "active" => \E h \in handed' : h.key = c.key
      BY <1>3, <2>1, <2>5 DEF Active
    <2>7. pairing' = [pairing EXCEPT ![c.pairing] = new] BY <1>3, <2>3, Zenon
    <2>8. TakenRow(pairing[c.pairing], new) BY <2>2, <2>4, <2>6 DEF TakenRow
    <2>9. QED BY <2>1, <2>4, <2>7, <2>8, OneRow DEF RowMoves
  <1>4. QED BY <1>1, <1>2, <1>3 DEF ClaimTakes

\* The worker puts the key and the account in the row of the attempt.
LEMMA RecordsRows ==
    ASSUME IInv, RecoveryRecords
    PROVE  RowsMove
  <1> DEFINE p == completing.pairing
  <1>1. CASE pairing' = pairing BY <1>1, RowsStay
  <1>2. CASE pairing' # pairing
    <2>1. /\ StillWanted(p)
          /\ pairing' = [pairing EXCEPT ![p].matched = TRUE, ![p].key = completing.key,
                                        ![p].account = completing.account]
          /\ stray' = stray \cup ({pairing[p].key} \ {0})
          /\ completing' = [completing EXCEPT !.step = "revoke", !.key = 0]
          /\ completing.step = "minted"
      BY <1>2 DEF RecoveryRecords
    <2>2. p \in Pairings BY <2>1 DEF IInv, CompletingInv
    <2>3. /\ completing.key \in Keys \cup {0} /\ completing.account \in Accounts \cup {"none"}
          /\ completing'.key = 0
      BY <2>1 DEF IInv, AccessTypeOK
    <2>4. PICK new : new = [pairing[p] EXCEPT !.matched = TRUE, !.key = completing.key,
                                              !.account = completing.account]
      OBVIOUS
    <2>5. pairing' = [pairing EXCEPT ![p] = new] BY <2>1, <2>4, Zenon
    <2>6. new \in PairingRow /\ new.purpose = pairing[p].purpose /\ new.by = pairing[p].by
          /\ new.key = completing.key /\ new.account = completing.account
      BY <2>2, <2>3, <2>4, PairingRows DEF PairingRow
    <2>7. new.matched BY <2>2, <2>4, PairingRows DEF PairingRow
    <2>8. pairing[p].key = 0 \/ pairing[p].key \in stray' BY <2>1
    <2>9. GivenRow(pairing[p], new)
      BY <2>1, <2>3, <2>6, <2>7, <2>8 DEF GivenRow, StillWanted
    <2>10. QED BY <2>2, <2>5, <2>6, <2>9, OneRow DEF RowMoves
  <1>3. QED BY <1>1, <1>2

\* An archive is disconnected or deleted from the settings.
LEMMA DisconnectRows ==
    ASSUME IInv, NEW b \in Browsers, NEW p \in Pairings, Disconnect(b, p)
    PROVE  RowsMove
  <1>1. CASE pairing' = WithRevoked(p) BY <1>1, Revoked
  <1>2. CASE pairing' = WithoutRows({p})
    <2>1. ~FreshInstance /\ pairing[p].purpose = "archive"
      BY DEF Disconnect, SignedIn, Active, FreshInstance, Archives
    <2>2. pairing[p].key = 0 BY <2>1, PairingRows DEF RowOK
    <2>3. QED BY <1>2, <2>1, <2>2, Deletes
  <1>3. QED BY <1>1, <1>2 DEF Disconnect

\* Every step moves the rows as said.
LEMMA StepRows ==
    ASSUME IInv, [AccessNext]_accessVars
    PROVE  RowsMove
  <1>1. CASE UNCHANGED pairing BY <1>1, RowsStay
  <1>2. ASSUME NEW b \in Browsers, SetupCancel(b) \/ RecoverCancel(b) PROVE RowsMove
    BY <1>2, Revoked DEF SetupCancel, RecoverCancel
  <1>3. CASE RecoveryEnds BY <1>3, Revoked DEF RecoveryEnds
  <1>4. ASSUME NEW b \in Browsers, NEW t \in Tabs, ClaimReads(b, t) PROVE UNCHANGED pairing
    BY <1>4 DEF ClaimReads
  <1>5. ASSUME NEW b \in Browsers,
               FinishChecks(b) \/ FinishMints(b) \/ SignOut(b)
                 \/ \E k \in Keys : SignIn(b, k) \/ RevokeKey(b, k)
        PROVE  UNCHANGED pairing
    BY <1>5 DEF FinishChecks, FinishMints, SignOut, SignIn, RevokeKey
  <1>6. ASSUME NEW p \in Pairings, NEW a \in Accounts, RecoveryPairs(p, a)
        PROVE  UNCHANGED pairing
    BY <1>6 DEF RecoveryPairs
  <1>7. CASE RecoveryMints \/ WorkerExits \/ UNCHANGED accessVars
    BY <1>7, <1>1 DEF RecoveryMints, WorkerExits, accessVars
  <1>8. QED
    BY <1>1, <1>2, <1>3, <1>4, <1>5, <1>6, <1>7, ConnectRows, PairsRows, EndsRows,
       StartDeletesRows, StartInsertsRows, TakesRows, RecordsRows, DisconnectRows
       DEF AccessNext

-----------------------------------------------------------------------------
(* The rest of the state.                                                  *)

\* Accounts that were paired stay so; a key that is minted stays known; and
\* what was given or lost stays so.
LEMMA Ledgers ==
    ASSUME IInv, [AccessNext]_accessVars
    PROVE  paired \subseteq paired' /\ stray \subseteq stray' /\ handed \subseteq handed'
  BY DEF AccessNext, accessVars, ledger, SetupConnect, SetupCancel, FinishChecks, FinishMints,
         Pairs, Ends, StartDeletes, StartInserts, RecoverCancel, ClaimReads, ClaimTakes,
         RecoveryPairs, RecoveryFails, RecoveryMints, RecoveryRecords, RecoveryEnds,
         WorkerExits, SignIn, SignOut, RevokeKey, Disconnect

\* Rows that move so stay as RowsInv says.
LEMMA RowsKept ==
    ASSUME IInv, RowsMove, paired \subseteq paired'
    PROVE  RowsInv'
  <1> SUFFICES ASSUME NEW p \in Pairings PROVE RowOK(pairing[p])'
    BY DEF RowsInv
  <1>1. PICK r : r = pairing[p] OBVIOUS
  <1>2. PICK q : q = pairing'[p] OBVIOUS
  <1>3. r \in PairingRow /\ q \in PairingRow /\ RowOK(r) BY <1>1, <1>2, PairingRows DEF RowsMove
  <1>4. RowMoves(p, q) BY <1>2 DEF RowsMove
  <1>5. /\ q.by \in Browsers <=> q.purpose # "none"
        /\ q.purpose = "archive" => q.account \in paired' \cup {"none"}
        /\ q.purpose = "archive" /\ q.status = "active" => q.account \in paired'
        /\ q.key # 0 => q.purpose = "recovery" /\ q.matched /\ q.account \in paired'
    <2>1. CASE KeptRow(r, q) BY <1>3, <2>1 DEF KeptRow, RowOK
    <2>2. CASE PairedRow(r, q) BY <1>3, <2>2 DEF PairedRow, RowOK
    <2>3. CASE GoneRow(r, q) BY <2>3, NobodyIsNobody DEF GoneRow
    <2>4. CASE MadeRow(r, q) BY <2>4 DEF MadeRow
    <2>5. CASE GivenRow(r, q)
      <3>1. completing.account \in paired BY <2>5 DEF GivenRow, IInv, CompletingInv
      <3>2. QED BY <1>3, <2>5, <3>1 DEF GivenRow, RowOK
    <2>6. CASE TakenRow(r, q) BY <1>3, <2>6 DEF TakenRow, RowOK
    <2>7. QED BY <1>1, <1>4, <2>1, <2>2, <2>3, <2>4, <2>5, <2>6 DEF RowMoves
  <1>6. QED BY <1>2, <1>5 DEF RowOK

\* The worker's recovery is of an account that was paired before.
LEMMA CompletingKept ==
    ASSUME IInv, [AccessNext]_accessVars
    PROVE  CompletingInv'
  <1>1. paired \subseteq paired' BY Ledgers
  <1>2. CASE UNCHANGED completing BY <1>1, <1>2 DEF IInv, CompletingInv
  <1>3. ASSUME NEW p \in Pairings, NEW a \in Accounts, RecoveryPairs(p, a)
        PROVE  CompletingInv'
    <2>1. Vouches(pairing[p].channel, a) => a \in paired
      BY PairingRows, AccessAssumption DEF Vouches, Archives, RowOK
    <2>2. PICK s \in {"match", "mismatch"} :
            /\ s = "match" => a \in paired
            /\ completing' = [pairing |-> p, key |-> 0, account |-> a, step |-> s]
      BY <1>3, <2>1 DEF RecoveryPairs
    <2>3. QED BY <1>1, <2>2 DEF CompletingInv
  <1>4. CASE RecoveryMints
    <2>1. PICK k \in Keys : completing' = [completing EXCEPT !.key = k, !.step = "minted"]
      BY <1>4 DEF RecoveryMints
    <2>2. /\ completing'.key = k /\ completing'.step = "minted" /\ k # 0
          /\ completing'.pairing = completing.pairing /\ completing'.account = completing.account
      BY <2>1 DEF IInv, AccessTypeOK, Keys
    <2>3. completing.pairing \in Pairings /\ completing.account \in paired
      BY <1>4 DEF RecoveryMints, IInv, CompletingInv
    <2>4. QED BY <1>1, <2>2, <2>3 DEF CompletingInv
  <1>5. CASE completing' = NotCompleting BY <1>5 DEF CompletingInv, NotCompleting
  <1>6. CASE /\ completing.step = "minted"
             /\ completing' = [completing EXCEPT !.step = "revoke", !.key = 0]
    <2>1. /\ completing'.key = 0 /\ completing'.step = "revoke"
          /\ completing'.pairing = completing.pairing
      BY <1>6 DEF IInv, AccessTypeOK
    <2>2. completing.pairing \in Pairings BY <1>6 DEF IInv, CompletingInv
    <2>3. QED BY <2>1, <2>2 DEF CompletingInv
  <1>7. CASE RecoveryRecords BY <1>5, <1>6, <1>7 DEF RecoveryRecords
  <1>8. CASE RecoveryEnds \/ WorkerExits BY <1>5, <1>8 DEF RecoveryEnds, WorkerExits
  <1>9. QED
    BY <1>2, <1>3, <1>4, <1>7, <1>8
       DEF AccessNext, accessVars, SetupConnect, SetupCancel, FinishChecks, FinishMints, Pairs,
           Ends, StartDeletes, StartInserts, RecoverCancel, ClaimReads, ClaimTakes,
           RecoveryFails, SignIn, SignOut, RevokeKey, Disconnect

\* A row that is of a browser stays so until it is deleted.
LEMMA OwnedStays ==
    ASSUME IInv, RowsMove, NEW b \in Browsers, NEW p, OwnedBy(p, b)
    PROVE  OwnedBy(p, b)'
  <1> SUFFICES ASSUME p \in Pairings PROVE pairing'[p].by \in {b, "deleted"}
    BY DEF OwnedBy
  <1>1. PICK r : r = pairing[p] OBVIOUS
  <1>2. PICK q : q = pairing'[p] OBVIOUS
  <1>3. r.by \in {b, "deleted"} BY <1>1 DEF OwnedBy
  <1>4. RowMoves(p, q) BY <1>2 DEF RowsMove
  <1>5. \/ KeptRow(r, q) \/ PairedRow(r, q) \/ GoneRow(r, q) \/ MadeRow(r, q)
        \/ GivenRow(r, q) \/ TakenRow(r, q)
    BY <1>1, <1>4 DEF RowMoves
  <1>6. q.by \in {b, "deleted"}
    BY <1>3, <1>5, NobodyIsNobody, AccessAssumption
       DEF KeptRow, PairedRow, GoneRow, MadeRow, GivenRow, TakenRow
  <1>7. QED BY <1>2, <1>6

\* A row that was made for a browser is of that browser.
LEMMA NewIsOwned ==
    ASSUME IInv, NEW b \in Browsers, NEW p \in Pairings, NEW rows \in [Pairings -> PairingRow],
           NEW purpose \in {"archive", "recovery"}, NEW ch \in Channels \cup {"none"},
           pairing' = [rows EXCEPT ![p] = NewPairing(purpose, ch, b)]
    PROVE  OwnedBy(p, b)'
  <1>1. NewPairing(purpose, ch, b).by = b BY InsertedRow
  <1>2. pairing'[p] = NewPairing(purpose, ch, b) OBVIOUS
  <1>3. QED BY <1>1, <1>2 DEF OwnedBy

\* What one browser's cookies name, and what its tabs are claiming.
CookieOK(b) == OwnedBy(setupCookie[b], b) /\ OwnedBy(recoveryCookie[b], b)
ClaimOK(b, t) ==
    /\ OwnedBy(claiming[<<b, t>>].pairing, b)
    /\ claiming[<<b, t>>] # NotClaiming =>
        claiming[<<b, t>>].pairing \in Pairings /\ claiming[<<b, t>>].key \in Keys

\* A step sets a cookie to 0, or to the row it makes for that browser.
LEMMA SetupCookieKept ==
    ASSUME IInv, [AccessNext]_accessVars, RowsMove, NEW b \in Browsers
    PROVE  OwnedBy(setupCookie[b], b)'
  <1> USE DEF Pairings
  <1>1. setupCookie \in [Browsers -> Pairings \cup {0}] BY DEF IInv, AccessTypeOK
  <1>2. OwnedBy(setupCookie[b], b) BY DEF IInv, CookiesInv
  <1>3. CASE setupCookie'[b] = setupCookie[b]
    <2>1. PICK p : p = setupCookie[b] OBVIOUS
    <2>2. OwnedBy(p, b)' BY <1>2, <2>1, OwnedStays
    <2>3. QED BY <1>3, <2>1, <2>2 DEF OwnedBy
  <1>4. CASE setupCookie'[b] = 0 BY <1>4 DEF OwnedBy
  <1>5. ASSUME NEW c \in Browsers, NEW ch \in Channels, SetupConnect(c, ch)
        PROVE  OwnedBy(setupCookie[b], b)'
    <2>1. PICK p \in Pairings :
            /\ pairing' = [WithoutRows(LiveArchives) EXCEPT ![p] = NewPairing("archive", ch, c)]
            /\ setupCookie' = [setupCookie EXCEPT ![c] = p]
      BY <1>5 DEF SetupConnect
    <2>2. CASE c = b
      <3>1. WithoutRows(LiveArchives) \in [Pairings -> PairingRow] BY Without
      <3>2. OwnedBy(p, b)' BY <2>1, <2>2, <3>1, NewIsOwned
      <3>3. setupCookie'[b] = p BY <1>1, <2>1, <2>2
      <3>4. QED BY <3>2, <3>3 DEF OwnedBy
    <2>3. CASE c # b
      <3>1. setupCookie'[b] = setupCookie[b] BY <1>1, <2>1, <2>3
      <3>2. QED BY <1>3, <3>1
    <2>4. QED BY <2>2, <2>3
  <1>6. ASSUME NEW c \in Browsers, SetupCancel(c) \/ FinishMints(c)
        PROVE  setupCookie'[b] = setupCookie[b] \/ setupCookie'[b] = 0
    BY <1>1, <1>6 DEF SetupCancel, FinishMints
  <1>7. QED
    BY <1>3, <1>4, <1>5, <1>6
       DEF AccessNext, accessVars, cookieVars, FinishChecks, Pairs, Ends, StartDeletes,
           StartInserts, RecoverCancel, ClaimReads, ClaimTakes, RecoveryPairs, RecoveryFails,
           RecoveryMints, RecoveryRecords, RecoveryEnds, WorkerExits, SignIn, SignOut,
           RevokeKey, Disconnect

\* The same of the cookie of a recovery.
LEMMA RecoveryCookieKept ==
    ASSUME IInv, [AccessNext]_accessVars, RowsMove, NEW b \in Browsers
    PROVE  OwnedBy(recoveryCookie[b], b)'
  <1> USE DEF Pairings
  <1>1. recoveryCookie \in [Browsers -> Pairings \cup {0}] BY DEF IInv, AccessTypeOK
  <1>2. OwnedBy(recoveryCookie[b], b) BY DEF IInv, CookiesInv
  <1>3. CASE recoveryCookie'[b] = recoveryCookie[b]
    <2>1. PICK p : p = recoveryCookie[b] OBVIOUS
    <2>2. OwnedBy(p, b)' BY <1>2, <2>1, OwnedStays
    <2>3. QED BY <1>3, <2>1, <2>2 DEF OwnedBy
  <1>4. CASE recoveryCookie'[b] = 0 BY <1>4 DEF OwnedBy
  <1>5. ASSUME NEW c \in Browsers, StartInserts(c)
        PROVE  OwnedBy(recoveryCookie[b], b)'
    <2>1. CASE recoveryCookie' = recoveryCookie BY <1>3, <2>1
    <2>2. ASSUME NEW p \in Pairings,
                 pairing' = [pairing EXCEPT ![p] = NewPairing("recovery", starting[c], c)],
                 recoveryCookie' = [recoveryCookie EXCEPT ![c] = p]
          PROVE  OwnedBy(recoveryCookie[b], b)'
      <3>1. CASE c = b
        <4>1. starting[c] \in Channels \cup {"none"} BY DEF IInv, AccessTypeOK
        <4>2. OwnedBy(p, b)' BY <2>2, <3>1, <4>1, PairingRows, NewIsOwned
        <4>3. recoveryCookie'[b] = p BY <1>1, <2>2, <3>1
        <4>4. QED BY <4>2, <4>3 DEF OwnedBy
      <3>2. CASE c # b
        <4>1. recoveryCookie'[b] = recoveryCookie[b] BY <1>1, <2>2, <3>2
        <4>2. QED BY <1>3, <4>1
      <3>3. QED BY <3>1, <3>2
    <2>3. \/ recoveryCookie' = recoveryCookie
          \/ \E p \in Pairings :
              /\ pairing' = [pairing EXCEPT ![p] = NewPairing("recovery", starting[c], c)]
              /\ recoveryCookie' = [recoveryCookie EXCEPT ![c] = p]
      BY <1>5 DEF StartInserts
    <2>4. QED BY <2>1, <2>2, <2>3
  <1>6. ASSUME NEW c \in Browsers, RecoverCancel(c) \/ \E t \in Tabs : ClaimTakes(c, t)
        PROVE  recoveryCookie'[b] = recoveryCookie[b] \/ recoveryCookie'[b] = 0
    BY <1>1, <1>6 DEF RecoverCancel, ClaimTakes
  <1>7. ASSUME NEW c \in Browsers,
               \/ \E ch \in Channels : SetupConnect(c, ch)
               \/ SetupCancel(c) \/ FinishMints(c)
        PROVE  recoveryCookie'[b] = recoveryCookie[b]
    BY <1>7 DEF SetupConnect, SetupCancel, FinishMints
  <1>8. QED
    BY <1>3, <1>4, <1>5, <1>6, <1>7
       DEF AccessNext, accessVars, cookieVars, FinishChecks, Pairs, Ends, StartDeletes,
           ClaimReads, RecoveryPairs, RecoveryFails, RecoveryMints, RecoveryRecords,
           RecoveryEnds, WorkerExits, SignIn, SignOut, RevokeKey, Disconnect

\* A claim is of the row that the cookie of the browser named.
LEMMA ClaimKept ==
    ASSUME IInv, [AccessNext]_accessVars, RowsMove, NEW b \in Browsers, NEW t \in Tabs
    PROVE  ClaimOK(b, t)'
  <1> DEFINE r == <<b, t>>
  <1>1. claiming \in [Browsers \X Tabs -> [pairing: Pairings \cup {0}, key: Keys \cup {0}]]
    BY DEF IInv, AccessTypeOK
  <1>2. ClaimOK(b, t) BY DEF IInv, CookiesInv, ClaimOK
  <1>3. CASE claiming'[r] = claiming[r]
    <2>1. PICK p : p = claiming[r].pairing OBVIOUS
    <2>2. OwnedBy(p, b) BY <1>2, <2>1 DEF ClaimOK
    <2>3. OwnedBy(p, b)' BY <2>2, OwnedStays
    <2>4. claiming'[r].pairing = p BY <1>3, <2>1
    <2>5. OwnedBy(claiming[<<b, t>>].pairing, b)' BY <2>3, <2>4 DEF OwnedBy
    <2>6. QED BY <1>2, <1>3, <2>5 DEF ClaimOK
  <1>4. CASE claiming'[r] = NotClaiming
    BY <1>4 DEF ClaimOK, OwnedBy, NotClaiming, Pairings
  <1>5. ASSUME NEW c \in Browsers, NEW u \in Tabs, ClaimReads(c, u), <<c, u>> = r
        PROVE  ClaimOK(b, t)'
    <2>1. PICK p : p = recoveryCookie[b] OBVIOUS
    <2>2. c = b /\ u = t BY <1>5
    <2>3. Claimable(p) /\ pairing' = pairing
          /\ claiming'[r] = [pairing |-> p, key |-> pairing[p].key]
      BY <1>1, <1>5, <2>1, <2>2 DEF ClaimReads
    <2>4. p \in Pairings /\ pairing[p].key \in Keys
      BY <2>3, PairingRows DEF Claimable, PairingRow
    <2>5. OwnedBy(p, b) BY <2>1 DEF IInv, CookiesInv
    <2>6. OwnedBy(p, b)' BY <2>5, OwnedStays
    <2>7. claiming'[r].pairing = p /\ claiming'[r].key = pairing[p].key BY <2>3
    <2>8. OwnedBy(claiming[<<b, t>>].pairing, b)' BY <2>6, <2>7 DEF OwnedBy
    <2>9. QED BY <2>4, <2>7, <2>8 DEF ClaimOK
  <1>6. ASSUME NEW c \in Browsers, NEW u \in Tabs, ClaimReads(c, u), <<c, u>> # r
        PROVE  claiming'[r] = claiming[r]
    BY <1>1, <1>6 DEF ClaimReads
  <1>7. ASSUME NEW c \in Browsers, NEW u \in Tabs, ClaimTakes(c, u)
        PROVE  claiming'[r] = claiming[r] \/ claiming'[r] = NotClaiming
    BY <1>1, <1>7 DEF ClaimTakes
  <1> HIDE DEF r
  <1>8. UNCHANGED claiming => claiming'[r] = claiming[r] OBVIOUS
  <1>9. QED
    BY <1>3, <1>4, <1>5, <1>6, <1>7, <1>8
       DEF AccessNext, accessVars, requestVars, SetupConnect, SetupCancel, FinishChecks,
           FinishMints, Pairs, Ends, StartDeletes, StartInserts, RecoverCancel, RecoveryPairs,
           RecoveryFails, RecoveryMints, RecoveryRecords, RecoveryEnds, WorkerExits, SignIn,
           SignOut, RevokeKey, Disconnect

\* What cookies and claims name stays of their browser.
LEMMA CookiesKept ==
    ASSUME IInv, [AccessNext]_accessVars, RowsMove
    PROVE  CookiesInv'
  BY SetupCookieKept, RecoveryCookieKept, ClaimKept DEF CookiesInv, ClaimOK

\* A key that was minted never is unminted.
LEMMA KnownStays ==
    ASSUME IInv, [AccessNext]_accessVars
    PROVE  /\ \A k \in Keys : keys[k] # "none" => keys'[k] # "none"
           /\ FreshInstance' => FreshInstance
  <1>1. keys \in [Keys -> {"none", "active", "revoked"}] BY DEF IInv, AccessTypeOK
  <1>2. \/ UNCHANGED keys
        \/ \E k \in Keys, s \in {"active", "revoked"} : keys' = [keys EXCEPT ![k] = s]
        \/ \E s \in {"active", "revoked"} : keys' = [keys EXCEPT ![completing.key] = s]
    BY DEF AccessNext, accessVars, SetupConnect, SetupCancel, FinishChecks, FinishMints, Pairs,
           Ends, StartDeletes, StartInserts, RecoverCancel, ClaimReads, ClaimTakes,
           RecoveryPairs, RecoveryFails, RecoveryMints, RecoveryRecords, KeyOfGone,
           RecoveryEnds, WorkerExits, SignIn, SignOut, RevokeKey, Disconnect
  <1>3. \A k \in Keys : keys[k] # "none" => keys'[k] # "none" BY <1>1, <1>2
  <1>4. QED BY <1>3 DEF FreshInstance

\* A pairing that passed the last guard of finishSetup, while no key exists.
FinishOK(b) ==
    finishing[b] # 0 =>
        /\ finishing[b] \in Pairings /\ pairing[finishing[b]].purpose = "archive"
        /\ pairing[finishing[b]].by = b /\ pairing[finishing[b]].status = "active"

\* While no key exists, no step undoes a pairing that finishSetup has checked.
LEMMA FinishKept ==
    ASSUME IInv, [AccessNext]_accessVars, RowsMove
    PROVE  FinishInv'
  <1> SUFFICES ASSUME FreshInstance', NEW b \in Browsers PROVE FinishOK(b)'
    BY DEF FinishInv, FinishOK, Archives
  <1>1. FreshInstance BY KnownStays
  <1>2. FinishOK(b) BY <1>1 DEF IInv, FinishInv, FinishOK, Archives
  <1>3. finishing \in [Browsers -> Pairings \cup {0}] BY DEF IInv, AccessTypeOK
  <1>4. CASE finishing'[b] = finishing[b] /\ finishing[b] # 0
    <2>1. PICK p \in Pairings : p = finishing[b] BY <1>2, <1>4 DEF FinishOK
    <2>2. PICK r : r = pairing[p] OBVIOUS
    <2>3. PICK q : q = pairing'[p] OBVIOUS
    <2>4. r.purpose = "archive" /\ r.by = b /\ r.status = "active" /\ r.key = 0
      BY <1>2, <1>4, <2>1, <2>2, PairingRows DEF FinishOK, RowOK
    <2>5. KeptRow(r, q)
      BY <1>1, <2>1, <2>2, <2>3, <2>4, NobodyIsNobody
         DEF RowsMove, RowMoves, PairedRow, GoneRow, MadeRow, GivenRow, TakenRow
    <2>6. q.purpose = "archive" /\ q.by = b /\ q.status = "active" BY <2>4, <2>5 DEF KeptRow
    <2>7. QED BY <1>4, <2>1, <2>3, <2>6 DEF FinishOK
  <1>5. CASE finishing'[b] = 0 BY <1>5 DEF FinishOK
  <1>6. ASSUME FinishChecks(b) PROVE FinishOK(b)'
    <2>1. PICK p : p = setupCookie[b] OBVIOUS
    <2>2. finishing'[b] = p /\ pairing' = pairing BY <1>3, <1>6, <2>1 DEF FinishChecks
    <2>3. p \in Pairings /\ pairing[p].purpose = "archive" /\ pairing[p].status = "active"
      BY <1>6, <2>1 DEF FinishChecks, MayFinish, Archives
    <2>4. pairing[p].by \in Browsers BY <2>3, PairingRows DEF RowOK
    <2>5. pairing[p].by = b
      BY <2>1, <2>3, <2>4, NobodyIsNobody DEF IInv, CookiesInv, OwnedBy
    <2>6. QED BY <2>2, <2>3, <2>5 DEF FinishOK
  <1>7. ASSUME NEW c \in Browsers, FinishChecks(c) \/ FinishMints(c), ~FinishChecks(b)
        PROVE  finishing'[b] = finishing[b] \/ finishing'[b] = 0
    BY <1>3, <1>7 DEF FinishChecks, FinishMints
  <1>8. \/ \E c \in Browsers : FinishChecks(c) \/ FinishMints(c)
        \/ finishing'[b] = finishing[b]
    BY DEF AccessNext, accessVars, requestVars, SetupConnect, SetupCancel, Pairs, Ends,
           StartDeletes, StartInserts, RecoverCancel, ClaimReads, ClaimTakes, RecoveryPairs,
           RecoveryFails, RecoveryMints, RecoveryRecords, RecoveryEnds, WorkerExits, SignIn,
           SignOut, RevokeKey, Disconnect
  <1>9. QED BY <1>4, <1>5, <1>6, <1>7, <1>8

-----------------------------------------------------------------------------
(* The keys.                                                               *)

\* A step that mints, gives and loses no key.
LEMMA QuietKeys ==
    ASSUME IInv, RowsMove, UNCHANGED <<keys, handed>>, completing'.key = completing.key,
           stray \subseteq stray', paired \subseteq paired'
    PROVE  KeysInv' /\ KeysAccounted'
  <1>1. ASSUME NEW p \in Pairings
        PROVE  /\ pairing'[p].key \in {0, pairing[p].key}
               /\ Claimable(p) /\ pairing'[p].key = 0 /\ keys[pairing[p].key] = "active" =>
                    \/ pairing[p].key \in stray'
                    \/ \E h \in handed : h.key = pairing[p].key
               /\ Claimable(p) /\ pairing'[p].key # 0 => pairing'[p].matched
    <2>1. PICK r : r = pairing[p] OBVIOUS
    <2>2. PICK q : q = pairing'[p] OBVIOUS
    <2>3. RowMoves(p, q) /\ RowOK(r) BY <2>1, <2>2, PairingRows DEF RowsMove
    <2>4. completing.step = "minted" => completing'.key # 0 BY DEF IInv, CompletingInv
    <2>5. ~GivenRow(r, q) BY <2>4 DEF GivenRow
    <2>6. \/ KeptRow(r, q) \/ PairedRow(r, q) \/ GoneRow(r, q) \/ MadeRow(r, q)
          \/ TakenRow(r, q)
      BY <2>1, <2>3, <2>5 DEF RowMoves
    <2>7. r.by = "nobody" => r.key = 0 BY <2>3, NobodyIsNobody DEF RowOK
    <2>8. /\ q.key \in {0, r.key}
          /\ r.key # 0 /\ q.key # 0 /\ r.matched => q.matched
          /\ r.key # 0 /\ q.key = 0 /\ keys[r.key] = "active" =>
              r.key \in stray' \/ \E h \in handed : h.key = r.key
      BY <2>3, <2>6, <2>7 DEF KeptRow, PairedRow, GoneRow, MadeRow, TakenRow, RowOK
    <2>9. QED BY <2>1, <2>2, <2>8 DEF Claimable
  <1>2. KeysInv'
    <2>1. KeysInv BY DEF IInv
    <2>2. \A p \in Pairings : pairing'[p].key # 0 => pairing'[p].key = pairing[p].key
      BY <1>1
    <2>3. \A p \in Pairings : pairing'[p].key # 0 =>
            Known(pairing'[p].key) /\ pairing'[p].key # completing'.key
      BY <2>1, <2>2 DEF KeysInv
    <2>4. \A p, q \in Pairings :
            pairing'[p].key = pairing'[q].key /\ pairing'[p].key # 0 => p = q
      BY <2>1, <2>2 DEF KeysInv
    <2>5. completing'.key # 0 => Known(completing'.key) BY <2>1 DEF KeysInv
    <2>6. \A h \in handed' : Known(h.key) /\ h.key # completing'.key /\ h.key # 0
      BY <2>1 DEF KeysInv, Known, Keys
    <2>7. \A h \in handed', p \in Pairings : pairing'[p].key # h.key
      BY <2>1, <2>2, <2>6 DEF KeysInv
    <2>8. QED BY <2>3, <2>4, <2>5, <2>6, <2>7 DEF KeysInv, Known
  <1>3. HandedRightly' /\ OneOwnerAtSetup'
    BY DEF IInv, KeysAccounted, HandedRightly, OneOwnerAtSetup
  <1>4. NoStrayKeys'
    <2> SUFFICES ASSUME NEW k \in Keys, keys[k] = "active", k \notin stray',
                        \A h \in handed : h.key # k, completing.key # k
                 PROVE  \E p \in Pairings : Claimable(p)' /\ pairing'[p].key = k
      BY DEF NoStrayKeys
    <2>1. PICK p \in Pairings : Claimable(p) /\ pairing[p].key = k
      BY DEF IInv, KeysAccounted, NoStrayKeys
    <2>2. pairing'[p].key = k /\ k # 0 /\ pairing'[p].matched BY <1>1, <2>1 DEF Keys
    <2>3. QED BY <2>2 DEF Claimable
  <1>5. QED BY <1>2, <1>3, <1>4 DEF KeysAccounted

\* No key is anywhere on a fresh instance.
LEMMA FreshKeys ==
    ASSUME IInv, FreshInstance
    PROVE  /\ handed = {} /\ completing.key = 0
           /\ \A p \in Pairings : pairing[p].key = 0
  <1>1. \A k : ~Known(k) BY DEF FreshInstance, Known
  <1>2. QED BY <1>1 DEF IInv, KeysInv

\* The first key goes to the browser whose pairing stands.
LEMMA FinishKeys ==
    ASSUME IInv, NEW b \in Browsers, FinishMints(b), FreshInstance
    PROVE  KeysInv' /\ KeysAccounted'
  <1>1. PICK k \in Keys : /\ keys' = [keys EXCEPT ![k] = "active"]
                          /\ handed' = handed \cup {Handed(b, 0, k, finishing[b])}
    BY DEF FinishMints
  <1>2. UNCHANGED <<pairing, completing, paired, stray>> BY DEF FinishMints
  <1>3. PICK p : p = finishing[b] OBVIOUS
  <1>4. p \in Pairings /\ pairing[p].purpose = "archive" /\ pairing[p].by = b
        /\ pairing[p].account \in paired
    BY <1>3, PairingRows DEF FinishMints, IInv, FinishInv, Archives, RowOK
  <1>5. PICK g : g = Handed(b, 0, k, p) OBVIOUS
  <1>6. handed' = {g} BY <1>1, <1>3, <1>5, FreshKeys
  <1>7. g.key = k /\ g.browser = b /\ g.by = b /\ g.account \in paired
    BY <1>4, <1>5 DEF Handed
  <1>8. k # 0 /\ keys'[k] = "active" /\ \A j \in Keys : j # k => keys'[j] = "none"
    BY <1>1 DEF IInv, AccessTypeOK, FreshInstance, Keys
  <1>9. KeysInv' BY <1>2, <1>6, <1>7, <1>8, FreshKeys DEF KeysInv, Known
  <1>10. HandedRightly' BY <1>2, <1>6, <1>7 DEF HandedRightly
  <1>11. OneOwnerAtSetup' BY <1>6 DEF OneOwnerAtSetup
  <1>12. NoStrayKeys' BY <1>6, <1>7, <1>8 DEF NoStrayKeys
  <1>13. QED BY <1>9, <1>10, <1>11, <1>12 DEF KeysAccounted

\* The key that is minted for a match is nowhere yet; the worker holds it.
LEMMA MintKeys ==
    ASSUME IInv, RecoveryMints
    PROVE  KeysInv' /\ KeysAccounted'
  <1>1. PICK k \in Keys : /\ keys[k] = "none"
                          /\ keys' = [keys EXCEPT ![k] = "active"]
                          /\ completing' = [completing EXCEPT !.key = k, !.step = "minted"]
    BY DEF RecoveryMints, NextKey
  <1>2. UNCHANGED <<pairing, handed, paired, stray>> BY DEF RecoveryMints, ledger
  <1>3. completing.key = 0 /\ completing'.key = k
    BY <1>1 DEF RecoveryMints, IInv, CompletingInv, AccessTypeOK
  <1>4. k # 0 /\ keys'[k] = "active" /\ \A j \in Keys : j # k => keys'[j] = keys[j]
    BY <1>1 DEF IInv, AccessTypeOK, Keys
  <1>5. ~Known(k) BY <1>1 DEF Known
  <1>6. KeysInv' BY <1>1, <1>2, <1>3, <1>4, <1>5 DEF IInv, KeysInv, Known
  <1>7. HandedRightly' /\ OneOwnerAtSetup'
    BY <1>2 DEF IInv, KeysAccounted, HandedRightly, OneOwnerAtSetup
  <1>8. NoStrayKeys'
    <2> SUFFICES ASSUME NEW j \in Keys, keys'[j] = "active", j \notin stray, j # k,
                        \A h \in handed : h.key # j
                 PROVE  \E p \in Pairings : Claimable(p)' /\ pairing[p].key = j
      BY <1>2, <1>3 DEF NoStrayKeys
    <2>1. PICK p \in Pairings : Claimable(p) /\ pairing[p].key = j
      BY <1>3, <1>4 DEF IInv, KeysAccounted, NoStrayKeys, Keys
    <2>2. QED BY <1>2, <2>1 DEF Claimable
  <1>9. QED BY <1>6, <1>7, <1>8 DEF KeysAccounted

\* The key passes from the worker to the row.
LEMMA RecordKeys ==
    ASSUME IInv, RecoveryRecords, StillWanted(completing.pairing)
    PROVE  KeysInv' /\ KeysAccounted'
  <1>1. PICK p \in Pairings : p = completing.pairing
    BY DEF RecoveryRecords, IInv, CompletingInv
  <1>2. PICK k \in Keys : k = completing.key
    BY DEF RecoveryRecords, IInv, CompletingInv, AccessTypeOK
  <1>3. /\ pairing' = [pairing EXCEPT ![p].matched = TRUE, ![p].key = k,
                                      ![p].account = completing.account]
        /\ stray' = stray \cup ({pairing[p].key} \ {0})
        /\ completing' = [completing EXCEPT !.step = "revoke", !.key = 0]
        /\ UNCHANGED <<keys, handed, paired>>
    BY <1>1, <1>2 DEF RecoveryRecords
  <1>4. completing'.key = 0 BY <1>3 DEF IInv, AccessTypeOK
  <1>5. PICK new : new = [pairing[p] EXCEPT !.matched = TRUE, !.key = k,
                                            !.account = completing.account]
    OBVIOUS
  <1>6. pairing' = [pairing EXCEPT ![p] = new] BY <1>3, <1>5, Zenon
  <1>7. new.key = k /\ new.matched BY <1>5, PairingRows DEF PairingRow
  <1>8. pairing'[p].key = k /\ pairing'[p].matched BY <1>6, <1>7, PairingRows
  <1>9. \A q \in Pairings : q # p => pairing'[q] = pairing[q] BY <1>6, PairingRows
  <1>10. k # 0 BY DEF Keys
  <1>11. /\ Known(k)
         /\ \A q \in Pairings : pairing[q].key # k
         /\ \A h \in handed : h.key # k
    BY <1>2, <1>10 DEF IInv, KeysInv
  <1>12. KeysInv'
    <2>1. \A q \in Pairings : pairing'[q].key # 0 =>
            Known(pairing'[q].key) /\ pairing'[q].key # completing'.key
      BY <1>4, <1>8, <1>9, <1>11 DEF IInv, KeysInv
    <2>2. \A q, r \in Pairings :
            pairing'[q].key = pairing'[r].key /\ pairing'[q].key # 0 => q = r
      BY <1>8, <1>9, <1>11 DEF IInv, KeysInv
    <2>3. \A h \in handed : Known(h.key) /\ h.key # 0
      BY DEF IInv, KeysInv, Known, Keys
    <2>4. \A h \in handed, q \in Pairings : pairing'[q].key # h.key
      BY <1>8, <1>9, <1>11 DEF IInv, KeysInv
    <2>5. QED BY <1>3, <1>4, <2>1, <2>2, <2>3, <2>4 DEF KeysInv, Known
  <1>13. HandedRightly' /\ OneOwnerAtSetup'
    BY <1>3 DEF IInv, KeysAccounted, HandedRightly, OneOwnerAtSetup
  <1>14. NoStrayKeys'
    <2> SUFFICES ASSUME NEW j \in Keys, keys[j] = "active", j \notin stray',
                        \A h \in handed : h.key # j
                 PROVE  \E q \in Pairings : Claimable(q)' /\ pairing'[q].key = j
      BY <1>3 DEF NoStrayKeys
    <2>1. CASE j = k BY <1>8, <1>10, <2>1 DEF Claimable
    <2>2. CASE j # k
      <3>1. PICK q \in Pairings : Claimable(q) /\ pairing[q].key = j
        BY <1>2, <1>3, <2>2 DEF IInv, KeysAccounted, NoStrayKeys
      <3>2. q # p BY <1>3, <3>1 DEF Keys
      <3>3. QED BY <1>9, <3>1, <3>2 DEF Claimable
    <2>3. QED BY <2>1, <2>2
  <1>15. QED BY <1>12, <1>13, <1>14 DEF KeysAccounted

\* A step that changes no row and gives no key: it only revokes one, or loses
\* the one the worker holds.
LEMMA LostKeys ==
    ASSUME IInv, UNCHANGED <<pairing, handed, paired>>, stray \subseteq stray',
           completing'.key \in {0, completing.key},
           \A k \in Keys : (keys[k] # "none" => keys'[k] # "none")
                           /\ (keys'[k] = "active" => keys[k] = "active"),
           completing'.key = 0 /\ completing.key # 0 =>
               keys'[completing.key] # "active" \/ completing.key \in stray'
    PROVE  KeysInv' /\ KeysAccounted'
  <1>1. KeysInv'
    <2>1. KeysInv BY DEF IInv
    <2>2. \A k : Known(k) => k \in Keys /\ keys'[k] # "none" /\ k # 0 BY DEF Known, Keys
    <2>3. \A p \in Pairings : pairing[p].key # 0 =>
            /\ pairing[p].key \in Keys /\ keys'[pairing[p].key] # "none"
            /\ pairing[p].key # completing'.key
      BY <2>1, <2>2 DEF KeysInv
    <2>4. completing'.key # 0 =>
            completing'.key \in Keys /\ keys'[completing'.key] # "none"
      BY <2>1, <2>2 DEF KeysInv
    <2>5. \A h \in handed : /\ h.key \in Keys /\ keys'[h.key] # "none"
                            /\ h.key # completing'.key
                            /\ \A p \in Pairings : pairing[p].key # h.key
      BY <2>1, <2>2 DEF KeysInv
    <2>6. \A p, q \in Pairings : pairing[p].key = pairing[q].key /\ pairing[p].key # 0 => p = q
      BY <2>1 DEF KeysInv
    <2>7. QED BY <2>3, <2>4, <2>5, <2>6 DEF KeysInv, Known
  <1>2. HandedRightly' /\ OneOwnerAtSetup'
    BY DEF IInv, KeysAccounted, HandedRightly, OneOwnerAtSetup
  <1>3. NoStrayKeys' BY DEF IInv, KeysAccounted, NoStrayKeys, Claimable, Keys
  <1>4. QED BY <1>1, <1>2, <1>3 DEF KeysAccounted

\* The key of an attempt that is gone is revoked.
LEMMA GoneKeys ==
    ASSUME IInv, RecoveryRecords, ~StillWanted(completing.pairing)
    PROVE  KeysInv' /\ KeysAccounted'
  <1>1. keys' = [keys EXCEPT ![completing.key] = "revoked"] /\ completing' = NotCompleting
    BY DEF RecoveryRecords, KeyOfGone
  <1>2. UNCHANGED <<pairing, handed, paired, stray>> BY DEF RecoveryRecords
  <1>3. completing'.key = 0 BY <1>1 DEF NotCompleting
  <1>4. completing.key \in Keys
    BY DEF RecoveryRecords, IInv, CompletingInv, AccessTypeOK
  <1>5. keys \in [Keys -> {"none", "active", "revoked"}] BY DEF IInv, AccessTypeOK
  <1>6. keys'[completing.key] # "active" BY <1>1, <1>4, <1>5
  <1>7. \A k \in Keys : (keys[k] # "none" => keys'[k] # "none")
                        /\ (keys'[k] = "active" => keys[k] = "active")
    BY <1>1, <1>4, <1>5
  <1>8. QED BY <1>2, <1>3, <1>6, <1>7, LostKeys

\* A key is revoked in the settings.
LEMMA RevokedKeys ==
    ASSUME IInv, NEW b \in Browsers, NEW k \in Keys, RevokeKey(b, k)
    PROVE  KeysInv' /\ KeysAccounted'
  <1>1. keys' = [keys EXCEPT ![k] = "revoked"] BY DEF RevokeKey
  <1>2. UNCHANGED <<pairing, completing, handed, paired, stray>> BY DEF RevokeKey, ledger
  <1>3. keys \in [Keys -> {"none", "active", "revoked"}] BY DEF IInv, AccessTypeOK
  <1>4. \A j \in Keys : (keys[j] # "none" => keys'[j] # "none")
                        /\ (keys'[j] = "active" => keys[j] = "active")
    BY <1>1, <1>3
  <1>5. QED BY <1>2, <1>4, LostKeys

\* An exit loses the key that the worker holds, and no other.
LEMMA ExitKeys ==
    ASSUME IInv, WorkerExits
    PROVE  KeysInv' /\ KeysAccounted'
  <1>1. /\ stray' = stray \cup ({completing.key} \ {0}) /\ completing' = NotCompleting
        /\ UNCHANGED <<pairing, keys, handed, paired>>
    BY DEF WorkerExits
  <1>2. completing'.key = 0 BY <1>1 DEF NotCompleting
  <1>3. QED BY <1>1, <1>2, LostKeys

\* A claim takes the key from the row for the browser it is of, the first time.
LEMMA ClaimKeys ==
    ASSUME IInv, NEW b \in Browsers, NEW t \in Tabs, ClaimTakes(b, t), RowsMove
    PROVE  KeysInv' /\ KeysAccounted'
  <1>1. UNCHANGED <<keys, completing, paired, stray>> BY DEF ClaimTakes
  <1>2. PICK c : c = claiming[<<b, t>>] OBVIOUS
  <1>3. \/ UNCHANGED <<pairing, handed>>
        \/ /\ Wins(c) /\ pairing' = [pairing EXCEPT ![c.pairing].key = 0]
           /\ IF Active(c.key) THEN handed' = handed \cup {Handed(b, t, c.key, c.pairing)}
              ELSE handed' = handed
    BY <1>2 DEF ClaimTakes
  <1>4. CASE UNCHANGED handed BY <1>1, <1>4, QuietKeys
  <1>5. CASE /\ Wins(c) /\ pairing' = [pairing EXCEPT ![c.pairing].key = 0] /\ Active(c.key)
             /\ handed' = handed \cup {Handed(b, t, c.key, c.pairing)}
    <2>1. PICK p \in Pairings : p = c.pairing
      BY <1>2 DEF IInv, CookiesInv, ClaimTakes
    <2>2. PICK k \in Keys : k = c.key BY <1>5 DEF Active
    <2>3. keys[k] = "active" /\ pairing[p].key = k /\ k # 0
      BY <1>5, <2>1, <2>2 DEF Active, Wins, Keys
    <2>4. pairing[p].purpose = "recovery" /\ pairing[p].account \in paired
          /\ pairing[p].by \in Browsers
      BY <2>3, PairingRows DEF RowOK
    <2>5. pairing[p].by = b
      BY <1>2, <2>1, <2>4, NobodyIsNobody DEF IInv, CookiesInv, OwnedBy
    <2>6. PICK g : g = Handed(b, t, k, p) OBVIOUS
    <2>7. /\ g.key = k /\ g.browser = b /\ g.by = b /\ g.account \in paired
          /\ g.purpose = "recovery"
      BY <2>4, <2>5, <2>6 DEF Handed
    <2>8. handed' = handed \cup {g} BY <1>5, <2>1, <2>2, <2>6
    <2>9. \A h \in handed : h.key # k BY <2>3 DEF IInv, KeysInv
    <2>10. pairing'[p].key = 0 BY <1>5, <2>1, PairingRows DEF PairingRow
    <2>11. \A q \in Pairings : q # p => pairing'[q] = pairing[q] BY <1>5, <2>1, PairingRows
    <2>12. KeysInv'
      <3>1. KeysInv /\ Known(k) BY <2>3 DEF IInv, Known
      <3>2. \A q \in Pairings : pairing'[q].key # 0 => pairing'[q].key = pairing[q].key
        BY <2>10, <2>11
      <3>3. \A q \in Pairings : pairing'[q].key # 0 =>
              Known(pairing'[q].key) /\ pairing'[q].key # completing'.key
        BY <1>1, <3>1, <3>2 DEF KeysInv
      <3>4. \A q, r \in Pairings :
              pairing'[q].key = pairing'[r].key /\ pairing'[q].key # 0 => q = r
        BY <3>1, <3>2 DEF KeysInv
      <3>5. completing'.key # 0 => Known(completing'.key) BY <1>1, <3>1 DEF KeysInv
      <3>6. \A h \in handed' : Known(h.key) /\ h.key # completing'.key /\ h.key # 0
        BY <1>1, <2>3, <2>7, <2>8, <3>1 DEF KeysInv, Known, Keys
      <3>7. \A q \in Pairings : pairing'[q].key # k
        BY <2>3, <2>10, <2>11, <3>1 DEF KeysInv
      <3>8. \A h \in handed', q \in Pairings : pairing'[q].key # h.key
        BY <2>7, <2>8, <3>1, <3>2, <3>6, <3>7 DEF KeysInv
      <3>9. QED BY <1>1, <3>3, <3>4, <3>5, <3>6, <3>8 DEF KeysInv, Known
    <2>13. HandedRightly'
      BY <1>1, <2>7, <2>8, <2>9 DEF IInv, KeysAccounted, HandedRightly
    <2>14. OneOwnerAtSetup'
      BY <2>7, <2>8 DEF IInv, KeysAccounted, OneOwnerAtSetup
    <2>15. NoStrayKeys'
      <3> SUFFICES ASSUME NEW j \in Keys, keys[j] = "active", j \notin stray, j # k,
                          \A h \in handed : h.key # j, completing.key # j
                   PROVE  \E q \in Pairings : Claimable(q)' /\ pairing'[q].key = j
        BY <1>1, <2>7, <2>8 DEF NoStrayKeys
      <3>1. PICK q \in Pairings : Claimable(q) /\ pairing[q].key = j
        BY DEF IInv, KeysAccounted, NoStrayKeys
      <3>2. q # p BY <2>3, <3>1
      <3>3. QED BY <2>11, <3>1, <3>2 DEF Claimable
    <2>16. QED BY <2>12, <2>13, <2>14, <2>15 DEF KeysAccounted
  <1>6. QED BY <1>3, <1>4, <1>5

\* Every step accounts for every key.
LEMMA StepKeys ==
    ASSUME IInv, [AccessNext]_accessVars, RowsMove
    PROVE  KeysInv' /\ KeysAccounted'
  <1>1. paired \subseteq paired' /\ stray \subseteq stray' BY Ledgers
  <1>2. CASE UNCHANGED <<keys, handed, completing>> BY <1>1, <1>2, QuietKeys
  <1>3. ASSUME NEW b \in Browsers, FinishMints(b) PROVE KeysInv' /\ KeysAccounted'
    <2>1. CASE FreshInstance BY <1>3, <2>1, FinishKeys
    <2>2. CASE ~FreshInstance
      <3>1. UNCHANGED <<keys, handed, completing>> BY <1>3, <2>2 DEF FinishMints
      <3>2. QED BY <1>2, <3>1
    <2>3. QED BY <2>1, <2>2
  <1>4. ASSUME NEW p \in Pairings, NEW a \in Accounts, RecoveryPairs(p, a)
        PROVE  KeysInv' /\ KeysAccounted'
    <2>1. completing.key = 0 /\ completing'.key = 0 /\ UNCHANGED <<keys, handed>>
      BY <1>4 DEF RecoveryPairs, NotCompleting, ledger
    <2>2. QED BY <1>1, <2>1, QuietKeys
  <1>5. CASE RecoveryEnds
    <2>1. completing.key = 0 /\ completing'.key = 0 /\ UNCHANGED <<keys, handed>>
      BY <1>5 DEF RecoveryEnds, NotCompleting, ledger, IInv, CompletingInv
    <2>2. QED BY <1>1, <2>1, QuietKeys
  <1>6. CASE RecoveryMints BY <1>6, MintKeys
  <1>7. CASE RecoveryRecords BY <1>7, RecordKeys, GoneKeys
  <1>8. CASE WorkerExits BY <1>8, ExitKeys
  <1>9. ASSUME NEW b \in Browsers, NEW k \in Keys, RevokeKey(b, k)
        PROVE  KeysInv' /\ KeysAccounted'
    BY <1>9, RevokedKeys
  <1>10. ASSUME NEW b \in Browsers, NEW t \in Tabs, ClaimTakes(b, t)
         PROVE  KeysInv' /\ KeysAccounted'
    BY <1>10, ClaimKeys
  <1>11. ASSUME NEW b \in Browsers,
                \/ \E ch \in Channels : SetupConnect(b, ch) \/ StartDeletes(b, ch)
                \/ SetupCancel(b) \/ FinishChecks(b) \/ StartInserts(b) \/ RecoverCancel(b)
                \/ \E t \in Tabs : ClaimReads(b, t)
                \/ \E k \in Keys : SignIn(b, k)
                \/ SignOut(b)
                \/ \E p \in Pairings : Disconnect(b, p)
         PROVE  UNCHANGED <<keys, handed, completing>>
    BY <1>11 DEF SetupConnect, StartDeletes, SetupCancel, FinishChecks, StartInserts,
                 RecoverCancel, ClaimReads, SignIn, SignOut, Disconnect, ledger
  <1>12. ASSUME NEW p \in Pairings,
                Ends(p) \/ RecoveryFails(p) \/ \E a \in Accounts : Pairs(p, a)
         PROVE  UNCHANGED <<keys, handed, completing>>
    BY <1>12 DEF Ends, RecoveryFails, Pairs, ledger
  <1>13. CASE UNCHANGED accessVars BY <1>2, <1>13 DEF accessVars, ledger
  <1>14. QED
    BY <1>2, <1>3, <1>4, <1>5, <1>6, <1>7, <1>8, <1>9, <1>10, <1>11, <1>12, <1>13
       DEF AccessNext

-----------------------------------------------------------------------------
(* The types.                                                              *)

\* A key is active or revoked once it is minted.
LEMMA KeysTyped ==
    ASSUME IInv, [AccessNext]_accessVars
    PROVE  keys' \in [Keys -> {"none", "active", "revoked"}]
  <1>1. keys \in [Keys -> {"none", "active", "revoked"}] BY DEF IInv, AccessTypeOK
  <1>2. \/ UNCHANGED keys
        \/ \E k, s : s \in {"active", "revoked"} /\ keys' = [keys EXCEPT ![k] = s]
    BY DEF AccessNext, accessVars, SetupConnect, SetupCancel, FinishChecks, FinishMints, Pairs,
           Ends, StartDeletes, StartInserts, RecoverCancel, ClaimReads, ClaimTakes,
           RecoveryPairs, RecoveryFails, RecoveryMints, RecoveryRecords, KeyOfGone,
           RecoveryEnds, WorkerExits, SignIn, SignOut, RevokeKey, Disconnect
  <1>3. QED BY <1>1, <1>2

\* Cookies and finishing requests name rows.
LEMMA CookiesTyped ==
    ASSUME IInv, [AccessNext]_accessVars
    PROVE  /\ setupCookie' \in [Browsers -> Pairings \cup {0}]
           /\ recoveryCookie' \in [Browsers -> Pairings \cup {0}]
           /\ finishing' \in [Browsers -> Pairings \cup {0}]
  <1>1. /\ setupCookie \in [Browsers -> Pairings \cup {0}]
        /\ recoveryCookie \in [Browsers -> Pairings \cup {0}]
        /\ finishing \in [Browsers -> Pairings \cup {0}]
    BY DEF IInv, AccessTypeOK
  <1>2. \/ UNCHANGED setupCookie
        \/ \E b, p : p \in Pairings \cup {0} /\ setupCookie' = [setupCookie EXCEPT ![b] = p]
    BY DEF AccessNext, accessVars, cookieVars, SetupConnect, SetupCancel, FinishChecks,
           FinishMints, Pairs, Ends, StartDeletes, StartInserts, RecoverCancel, ClaimReads,
           ClaimTakes, RecoveryPairs, RecoveryFails, RecoveryMints, RecoveryRecords,
           RecoveryEnds, WorkerExits, SignIn, SignOut, RevokeKey, Disconnect
  <1>3. \/ UNCHANGED recoveryCookie
        \/ \E b, p : /\ p \in Pairings \cup {0}
                     /\ recoveryCookie' = [recoveryCookie EXCEPT ![b] = p]
    BY DEF AccessNext, accessVars, cookieVars, SetupConnect, SetupCancel, FinishChecks,
           FinishMints, Pairs, Ends, StartDeletes, StartInserts, RecoverCancel, ClaimReads,
           ClaimTakes, RecoveryPairs, RecoveryFails, RecoveryMints, RecoveryRecords,
           RecoveryEnds, WorkerExits, SignIn, SignOut, RevokeKey, Disconnect
  <1>4. \/ UNCHANGED finishing
        \/ \E b, p : p \in Pairings \cup {0} /\ finishing' = [finishing EXCEPT ![b] = p]
    BY <1>1
       DEF AccessNext, accessVars, requestVars, SetupConnect, SetupCancel, FinishChecks,
           FinishMints, Pairs, Ends, StartDeletes, StartInserts, RecoverCancel, ClaimReads,
           ClaimTakes, RecoveryPairs, RecoveryFails, RecoveryMints, RecoveryRecords,
           RecoveryEnds, WorkerExits, SignIn, SignOut, RevokeKey, Disconnect
  <1>5. QED BY <1>1, <1>2, <1>3, <1>4

\* Sessions name keys, and starting requests channels.
LEMMA SessionsTyped ==
    ASSUME IInv, [AccessNext]_accessVars
    PROVE  /\ session' \in [Browsers -> Keys \cup {0}]
           /\ starting' \in [Browsers -> Channels \cup {"none"}]
  <1>1. /\ session \in [Browsers -> Keys \cup {0}]
        /\ starting \in [Browsers -> Channels \cup {"none"}]
    BY DEF IInv, AccessTypeOK
  <1>2. \/ UNCHANGED session
        \/ \E b, k : k \in Keys \cup {0} /\ session' = [session EXCEPT ![b] = k]
    BY DEF AccessNext, accessVars, cookieVars, SetupConnect, SetupCancel, FinishChecks,
           FinishMints, Pairs, Ends, StartDeletes, StartInserts, RecoverCancel, ClaimReads,
           ClaimTakes, RecoveryPairs, RecoveryFails, RecoveryMints, RecoveryRecords,
           RecoveryEnds, WorkerExits, SignIn, SignOut, RevokeKey, Disconnect, Active
  <1>3. \/ UNCHANGED starting
        \/ \E b, ch : ch \in Channels \cup {"none"} /\ starting' = [starting EXCEPT ![b] = ch]
    BY DEF AccessNext, accessVars, requestVars, SetupConnect, SetupCancel, FinishChecks,
           FinishMints, Pairs, Ends, StartDeletes, StartInserts, RecoverCancel, ClaimReads,
           ClaimTakes, RecoveryPairs, RecoveryFails, RecoveryMints, RecoveryRecords,
           RecoveryEnds, WorkerExits, SignIn, SignOut, RevokeKey, Disconnect
  <1>4. QED BY <1>1, <1>2, <1>3

Outcome == [pairing: Pairings \cup {0}, key: Keys \cup {0}, account: Accounts \cup {"none"},
            step: {"none", "match", "mismatch", "minted", "revoke"}]

\* The worker's recovery is one of the records it may be.
LEMMA CompletingTyped ==
    ASSUME IInv, [AccessNext]_accessVars
    PROVE  completing' \in Outcome
  <1>1. completing \in Outcome BY DEF IInv, AccessTypeOK, Outcome
  <1>2. NotCompleting \in Outcome BY DEF NotCompleting, Outcome
  <1>3. ASSUME NEW p \in Pairings, NEW a \in Accounts, RecoveryPairs(p, a)
        PROVE  completing' \in Outcome
    BY <1>3 DEF RecoveryPairs, Outcome
  <1>4. CASE RecoveryMints BY <1>1, <1>4 DEF RecoveryMints, Outcome
  <1>5. CASE RecoveryRecords BY <1>1, <1>2, <1>5 DEF RecoveryRecords, Outcome
  <1>6. CASE RecoveryEnds \/ WorkerExits BY <1>2, <1>6 DEF RecoveryEnds, WorkerExits
  <1>7. UNCHANGED completing => completing' \in Outcome BY <1>1
  <1>8. QED
    <2>1. ASSUME NEW b \in Browsers,
                 \/ \E ch \in Channels : SetupConnect(b, ch) \/ StartDeletes(b, ch)
                 \/ SetupCancel(b) \/ FinishChecks(b) \/ FinishMints(b)
                 \/ StartInserts(b) \/ RecoverCancel(b)
                 \/ \E t \in Tabs : ClaimReads(b, t) \/ ClaimTakes(b, t)
                 \/ \E k \in Keys : SignIn(b, k) \/ RevokeKey(b, k)
                 \/ SignOut(b)
                 \/ \E p \in Pairings : Disconnect(b, p)
          PROVE  UNCHANGED completing
      BY <2>1 DEF SetupConnect, StartDeletes, SetupCancel, FinishChecks, FinishMints,
                  StartInserts, RecoverCancel, ClaimReads, ClaimTakes, SignIn, RevokeKey,
                  SignOut, Disconnect
    <2>2. ASSUME NEW p \in Pairings,
                 Ends(p) \/ RecoveryFails(p) \/ \E a \in Accounts : Pairs(p, a)
          PROVE  UNCHANGED completing
      BY <2>2 DEF Ends, RecoveryFails, Pairs
    <2>3. UNCHANGED accessVars => UNCHANGED completing BY DEF accessVars
    <2>4. \/ UNCHANGED completing
          \/ \E p \in Pairings, a \in Accounts : RecoveryPairs(p, a)
          \/ RecoveryMints \/ RecoveryRecords \/ RecoveryEnds \/ WorkerExits
      BY <2>1, <2>2, <2>3 DEF AccessNext
    <2>5. QED BY <1>3, <1>4, <1>5, <1>6, <1>7, <2>4

\* A claim is a row and a key.
LEMMA ClaimingTyped ==
    ASSUME IInv, [AccessNext]_accessVars
    PROVE  claiming' \in [Browsers \X Tabs -> [pairing: Pairings \cup {0}, key: Keys \cup {0}]]
  <1> DEFINE T == [pairing: Pairings \cup {0}, key: Keys \cup {0}]
  <1>1. claiming \in [Browsers \X Tabs -> T] BY DEF IInv, AccessTypeOK
  <1>2. NotClaiming \in T BY DEF NotClaiming
  <1>3. ASSUME NEW b \in Browsers, NEW t \in Tabs, ClaimReads(b, t)
        PROVE  \E c \in T : claiming' = [claiming EXCEPT ![<<b, t>>] = c]
    <2>1. PICK p \in Pairings : p = recoveryCookie[b] BY <1>3 DEF ClaimReads, Claimable
    <2>2. [pairing |-> p, key |-> pairing[p].key] \in T BY PairingRows DEF PairingRow
    <2>3. QED BY <1>3, <2>1, <2>2 DEF ClaimReads
  <1>4. ASSUME NEW b \in Browsers, NEW t \in Tabs, ClaimTakes(b, t)
        PROVE  \E c \in T : claiming' = [claiming EXCEPT ![<<b, t>>] = c]
    BY <1>2, <1>4 DEF ClaimTakes
  <1> HIDE DEF T
  <1>5. \/ UNCHANGED claiming
        \/ \E b \in Browsers, t \in Tabs, c \in T : claiming' = [claiming EXCEPT ![<<b, t>>] = c]
    <2>1. ASSUME NEW b \in Browsers,
                 \/ \E ch \in Channels : SetupConnect(b, ch) \/ StartDeletes(b, ch)
                 \/ SetupCancel(b) \/ FinishChecks(b) \/ FinishMints(b)
                 \/ StartInserts(b) \/ RecoverCancel(b)
                 \/ \E k \in Keys : SignIn(b, k) \/ RevokeKey(b, k)
                 \/ SignOut(b)
                 \/ \E p \in Pairings : Disconnect(b, p)
          PROVE  UNCHANGED claiming
      BY <2>1 DEF SetupConnect, StartDeletes, SetupCancel, FinishChecks, FinishMints,
                  StartInserts, RecoverCancel, SignIn, RevokeKey, SignOut, Disconnect,
                  requestVars
    <2>2. ASSUME NEW p \in Pairings,
                 \/ Ends(p) \/ RecoveryFails(p)
                 \/ \E a \in Accounts : Pairs(p, a) \/ RecoveryPairs(p, a)
          PROVE  UNCHANGED claiming
      BY <2>2 DEF Ends, RecoveryFails, Pairs, RecoveryPairs, requestVars
    <2>3. RecoveryMints \/ RecoveryRecords \/ RecoveryEnds \/ WorkerExits
            \/ UNCHANGED accessVars => UNCHANGED claiming
      BY DEF RecoveryMints, RecoveryRecords, RecoveryEnds, WorkerExits, accessVars, requestVars
    <2>4. \/ UNCHANGED claiming
          \/ \E b \in Browsers, t \in Tabs : ClaimReads(b, t) \/ ClaimTakes(b, t)
      BY <2>1, <2>2, <2>3 DEF AccessNext
    <2>5. QED BY <1>3, <1>4, <2>4
  <1>6. claiming' \in [Browsers \X Tabs -> T] BY <1>1, <1>5
  <1>7. QED BY <1>6 DEF T

\* What is given is given in the name of a browser.
LEMMA LedgersTyped ==
    ASSUME IInv, [AccessNext]_accessVars
    PROVE  /\ handed' \in SUBSET [browser: Browsers, tab: Tabs \cup {0}, key: Keys,
                                  by: Browsers \cup {"deleted"},
                                  account: Accounts \cup {"none"},
                                  purpose: {"none", "archive", "recovery"}]
           /\ paired' \subseteq Accounts /\ stray' \subseteq Keys
  <1> DEFINE T == [browser: Browsers, tab: Tabs \cup {0}, key: Keys,
                   by: Browsers \cup {"deleted"}, account: Accounts \cup {"none"},
                   purpose: {"none", "archive", "recovery"}]
  <1>1. handed \in SUBSET T /\ paired \subseteq Accounts /\ stray \subseteq Keys
    BY DEF IInv, AccessTypeOK
  <1>2. ASSUME NEW b \in Browsers, NEW t \in Tabs \cup {0}, NEW k \in Keys,
               NEW p \in Pairings, pairing[p].purpose # "none"
        PROVE  Handed(b, t, k, p) \in T
    BY <1>2, PairingRows DEF Handed, PairingRow, RowOK
  <1>3. ASSUME NEW b \in Browsers, FinishMints(b) PROVE handed' \in SUBSET T
    <2>1. CASE UNCHANGED handed BY <1>1, <2>1
    <2>2. CASE FreshInstance
      <3>1. PICK k \in Keys : handed' = handed \cup {Handed(b, 0, k, finishing[b])}
        BY <1>3, <2>2 DEF FinishMints
      <3>2. finishing[b] \in Pairings /\ pairing[finishing[b]].purpose = "archive"
        BY <1>3, <2>2 DEF FinishMints, IInv, FinishInv, Archives
      <3>3. Handed(b, 0, k, finishing[b]) \in T BY <1>2, <3>2
      <3>4. QED BY <1>1, <3>1, <3>3
    <2>3. QED BY <1>3, <2>1, <2>2 DEF FinishMints
  <1>4. ASSUME NEW b \in Browsers, NEW t \in Tabs, ClaimTakes(b, t) PROVE handed' \in SUBSET T
    <2>1. CASE UNCHANGED handed BY <1>1, <2>1
    <2>2. PICK c : c = claiming[<<b, t>>] OBVIOUS
    <2>3. CASE Wins(c) /\ Active(c.key)
               /\ handed' = handed \cup {Handed(b, t, c.key, c.pairing)}
      <3>1. c.pairing \in Pairings /\ c.key \in Keys
        BY <1>4, <2>2 DEF IInv, CookiesInv, ClaimTakes
      <3>2. pairing[c.pairing].purpose # "none"
        BY <2>3, <3>1, PairingRows DEF Wins, RowOK, Keys
      <3>3. Handed(b, t, c.key, c.pairing) \in T BY <1>2, <3>1, <3>2
      <3>4. QED BY <1>1, <2>3, <3>3
    <2>4. QED BY <1>4, <2>1, <2>2, <2>3 DEF ClaimTakes
  <1> HIDE DEF T
  <1>5. UNCHANGED handed => handed' \in SUBSET T BY <1>1
  <1>6. handed' \in SUBSET T
    BY <1>3, <1>4, <1>5
       DEF AccessNext, accessVars, ledger, SetupConnect, SetupCancel, FinishChecks, Pairs, Ends,
           StartDeletes, StartInserts, RecoverCancel, ClaimReads, RecoveryPairs, RecoveryFails,
           RecoveryMints, RecoveryRecords, RecoveryEnds, WorkerExits, SignIn, SignOut,
           RevokeKey, Disconnect
  <1>7. \/ UNCHANGED paired \/ \E a \in Accounts : paired' = paired \cup {a}
    BY DEF AccessNext, accessVars, ledger, SetupConnect, SetupCancel, FinishChecks, FinishMints,
           Pairs, Ends, StartDeletes, StartInserts, RecoverCancel, ClaimReads, ClaimTakes,
           RecoveryPairs, RecoveryFails, RecoveryMints, RecoveryRecords, RecoveryEnds,
           WorkerExits, SignIn, SignOut, RevokeKey, Disconnect
  <1>8. \A p \in Pairings : pairing[p].key \in Keys \cup {0} BY PairingRows DEF PairingRow
  <1>9. completing.key \in Keys \cup {0} BY DEF IInv, AccessTypeOK
  <1>10. \/ UNCHANGED stray
         \/ stray' = stray \cup ({completing.key} \ {0})
         \/ \E S \in SUBSET Pairings : stray' = stray \cup ({pairing[p].key : p \in S} \ {0})
    <2>1. ASSUME NEW b \in Browsers, NEW ch \in Channels, StartDeletes(b, ch)
          PROVE  \E S \in SUBSET Pairings :
                    stray' = stray \cup ({pairing[p].key : p \in S} \ {0})
      BY <2>1 DEF StartDeletes, LiveRecoveries
    <2>2. CASE RecoveryRecords
      <3>1. CASE UNCHANGED stray BY <3>1
      <3>2. CASE stray' = stray \cup ({pairing[completing.pairing].key} \ {0})
        <4>1. completing.pairing \in Pairings
          BY <2>2 DEF RecoveryRecords, IInv, CompletingInv
        <4>2. {pairing[completing.pairing].key}
                = {pairing[p].key : p \in {completing.pairing}}
          OBVIOUS
        <4>3. QED BY <3>2, <4>1, <4>2
      <3>3. QED BY <2>2, <3>1, <3>2 DEF RecoveryRecords
    <2>3. CASE WorkerExits BY <2>3 DEF WorkerExits
    <2>4. QED
      BY <2>1, <2>2, <2>3
         DEF AccessNext, accessVars, ledger, SetupConnect, SetupCancel, FinishChecks,
             FinishMints, Pairs, Ends, StartInserts, RecoverCancel, ClaimReads, ClaimTakes,
             RecoveryPairs, RecoveryFails, RecoveryMints, RecoveryEnds, SignIn, SignOut,
             RevokeKey, Disconnect
  <1>11. stray' \subseteq Keys BY <1>1, <1>8, <1>9, <1>10
  <1>12. QED BY <1>1, <1>6, <1>7, <1>11 DEF T

\* Every step keeps the types.
LEMMA StepTypes ==
    ASSUME IInv, [AccessNext]_accessVars, RowsMove
    PROVE  AccessTypeOK'
  BY KeysTyped, CookiesTyped, SessionsTyped, CompletingTyped, ClaimingTyped, LedgersTyped
     DEF AccessTypeOK, RowsMove, PairingRow, Outcome

-----------------------------------------------------------------------------
(* The theorems.                                                           *)

\* Nobody holds anything at first.
LEMMA InitIInv ==
    ASSUME AccessInit
    PROVE  IInv
  <1> USE DEF AccessInit
  <1>1. AccessTypeOK BY DEF AccessTypeOK, NoPairing, NotCompleting, NotClaiming
  <1>2. RowsInv BY NobodyIsNobody DEF RowsInv, RowOK, NoPairing
  <1>3. KeysInv BY DEF KeysInv, NoPairing, NotCompleting
  <1>4. CompletingInv BY DEF CompletingInv, NotCompleting
  <1>5. CookiesInv BY DEF CookiesInv, OwnedBy, NotClaiming, Pairings
  <1>6. FinishInv BY DEF FinishInv
  <1>7. KeysAccounted
    BY DEF KeysAccounted, HandedRightly, OneOwnerAtSetup, NoStrayKeys
  <1>8. QED BY <1>1, <1>2, <1>3, <1>4, <1>5, <1>6, <1>7 DEF IInv

\* Every state that setup, recovery and sign-in reach satisfies the invariant.
THEOREM AccessInductive == AccessSpec => []IInv
  <1>1. AccessInit => IInv BY InitIInv
  <1>2. IInv /\ [AccessNext]_accessVars => IInv'
    <2> SUFFICES ASSUME IInv, [AccessNext]_accessVars PROVE IInv' OBVIOUS
    <2>1. RowsMove BY StepRows
    <2>2. RowsInv' BY <2>1, Ledgers, RowsKept
    <2>3. AccessTypeOK' BY <2>1, StepTypes
    <2>4. KeysInv' /\ KeysAccounted' BY <2>1, StepKeys
    <2>5. CompletingInv' BY CompletingKept
    <2>6. CookiesInv' BY <2>1, CookiesKept
    <2>7. FinishInv' BY <2>1, FinishKept
    <2>8. QED BY <2>2, <2>3, <2>4, <2>5, <2>6, <2>7 DEF IInv
  <1>3. QED BY <1>1, <1>2, PTL DEF AccessSpec

\* setup/actions.ts and recovery.ts: a key is given once, to the browser that
\* began the pairing it is given for, after that pairing said whose account it
\* is; setup gives one key to one browser; and an active key is given, held by
\* an attempt or by the worker, or one whose record was lost.
THEOREM KeysRight == AccessSpec => []KeysAccounted
  <1>1. IInv => KeysAccounted BY DEF IInv
  <1>2. QED BY <1>1, AccessInductive, PTL

\* The rows, the cookies, the requests and the ledgers stay of their types.
THEOREM AccessTyped == AccessSpec => []AccessTypeOK
  <1>1. IInv => AccessTypeOK BY DEF IInv
  <1>2. QED BY <1>1, AccessInductive, PTL

===============================================================================
