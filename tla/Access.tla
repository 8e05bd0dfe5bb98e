------------------------------- MODULE Access -------------------------------
(***************************************************************************)
(* How a browser comes to hold an access key: the first one at setup, and  *)
(* one more for an owner who lost them all and pairs the account again.    *)
(* Neither has a session to require; a cookie binds the pairing to the     *)
(* browser that began it.  The portal's requests, of several tabs, and the *)
(* worker that sees the pairing through interleave between statements.     *)
(***************************************************************************)
EXTENDS Naturals, FiniteSets

CONSTANTS
    Browsers,
    Channels,
    Accounts,   \* the channel accounts a person may pair
    Tabs,       \* requests a browser has open at a time
    MaxPairings,\* BOUND on the connection rows
    MaxKeys     \* BOUND on the keys

ASSUME AccessAssumption ==
    /\ MaxPairings \in Nat /\ MaxKeys \in Nat
    /\ {"nobody", "deleted"} \cap Browsers = {} /\ "none" \notin Accounts \cup Channels

VARIABLES
    pairing,        \* the connection rows
    keys,           \* none, active or revoked
    setupCookie,    \* the pairing a browser's sp_setup names, or 0
    recoveryCookie, \* the attempt its sp_recovery names, or 0
    session,        \* the key its session was opened with, or 0
    finishing,      \* the pairing for which a browser's finishSetup has passed its guards
    starting,       \* the channel whose slot a browser's startRecovery has freed
    completing,     \* the worker's completeRecovery
    claiming,       \* a tab's claimRecoveryKey: the row and the key it read
    handed,         \* who was given which key for which pairing (history variable)
    paired,         \* accounts an archive row has ever reported (history variable)
    stray           \* keys whose record was lost (history variable)

ledger == <<handed, paired, stray>>
cookieVars == <<setupCookie, recoveryCookie, session>>
requestVars == <<finishing, starting, claiming>>
accessVars == <<pairing, keys, cookieVars, requestVars, completing, ledger>>

Pairings == 1..MaxPairings
Keys == 1..MaxKeys

NoPairing == [purpose |-> "none", channel |-> "none", status |-> "none",
              revoked |-> FALSE, account |-> "none", matched |-> FALSE, key |-> 0, by |-> "nobody"]
NotCompleting == [pairing |-> 0, key |-> 0, account |-> "none", step |-> "none"]
NotClaiming == [pairing |-> 0, key |-> 0]

AccessInit ==
    /\ pairing = [p \in Pairings |-> NoPairing]
    /\ keys = [k \in Keys |-> "none"]
    /\ setupCookie = [b \in Browsers |-> 0] /\ recoveryCookie = [b \in Browsers |-> 0]
    /\ session = [b \in Browsers |-> 0]
    /\ finishing = [b \in Browsers |-> 0] /\ starting = [b \in Browsers |-> "none"]
    /\ completing = NotCompleting
    /\ claiming = [r \in Browsers \X Tabs |-> NotClaiming]
    /\ handed = {} /\ paired = {} /\ stray = {}

-----------------------------------------------------------------------------
(* Rows and keys.                                                          *)

Archives == {p \in Pairings : pairing[p].purpose = "archive"}
LiveArchives ==
    {p \in Archives : ~pairing[p].revoked /\ pairing[p].status \in {"pending", "active"}}
LiveRecoveries(ch) ==
    {p \in Pairings : /\ pairing[p].purpose = "recovery" /\ pairing[p].channel = ch
                      /\ ~pairing[p].revoked}

\* hasAnyAccessKey: a revoked key counts.
FreshInstance == \A k \in Keys : keys[k] = "none"
Active(k) == k \in Keys /\ keys[k] = "active"
SignedIn(b) == Active(session[b])

\* The id of the next row, beyond every row there was.
NextPairing(p) == pairing[p].by = "nobody" /\ \A q \in Pairings : q < p => pairing[q].by # "nobody"
NextKey(k) == keys[k] = "none" /\ \A j \in Keys : j < k => keys[j] # "none"

NewPairing(purpose, ch, b) ==
    [NoPairing EXCEPT !.purpose = purpose, !.channel = ch, !.status = "pending", !.by = b]

\* The unique index: one unrevoked row a channel and purpose.
SlotTaken(rows, purpose, ch) ==
    \E p \in Pairings : /\ rows[p].purpose = purpose /\ rows[p].channel = ch
                        /\ ~rows[p].revoked

\* A deleted row is still told apart from one that never was.
WithoutRows(rows) ==
    [p \in Pairings |-> IF p \in rows THEN [NoPairing EXCEPT !.by = "deleted"] ELSE pairing[p]]

\* revokeConnection; the account and the outcome stay, a login's secrets do not.
WithRevoked(p) ==
    IF p \in Pairings /\ pairing[p].purpose # "none"
    THEN [pairing EXCEPT ![p].revoked = TRUE] ELSE pairing

\* Who took which key: the request of a tab, on the strength of a pairing.
Handed(b, t, k, p) ==
    [browser |-> b, tab |-> t, key |-> k, by |-> pairing[p].by,
     account |-> pairing[p].account, purpose |-> pairing[p].purpose]

-----------------------------------------------------------------------------
(* Setup: open while no key has ever existed.                              *)

\* createSetupConnection, otherSetupClaimExists: a live pairing that is not
\* the one this browser's cookie names.
Claimed(b) == LiveArchives \ {setupCookie[b]} # {}

\* A failed login keeps the slot: Connect then throws and changes nothing.
SetupConnect(b, ch) ==
    /\ FreshInstance /\ ~Claimed(b)
    /\ \A own \in LiveArchives : pairing[own].status # "active"
    /\ LET rows == WithoutRows(LiveArchives) IN
        /\ ~SlotTaken(rows, "archive", ch)
        /\ \E p \in Pairings :
            /\ NextPairing(p)
            /\ pairing' = [rows EXCEPT ![p] = NewPairing("archive", ch, b)]
            /\ setupCookie' = [setupCookie EXCEPT ![b] = p]
    /\ UNCHANGED <<keys, recoveryCookie, session, requestVars, completing, ledger>>

SetupCancel(b) ==
    /\ FreshInstance /\ setupCookie[b] # 0
    /\ pairing' = WithRevoked(setupCookie[b])
    /\ setupCookie' = [setupCookie EXCEPT ![b] = 0]
    /\ UNCHANGED <<keys, recoveryCookie, session, requestVars, completing, ledger>>

\* FAULTY: the pairing need not have succeeded.
MayFinishPending(b) ==
    /\ FreshInstance /\ setupCookie[b] \in Archives
    /\ ~pairing[setupCookie[b]].revoked /\ ~Claimed(b)

MayFinish(b) ==
    /\ FreshInstance /\ setupCookie[b] \in Archives
    /\ pairing[setupCookie[b]].status = "active" /\ ~pairing[setupCookie[b]].revoked
    /\ ~Claimed(b)

\* finishSetupAction, up to its last guard.
FinishChecks(b) ==
    /\ finishing[b] = 0 /\ MayFinish(b)
    /\ finishing' = [finishing EXCEPT ![b] = setupCookie[b]]
    /\ UNCHANGED <<pairing, keys, cookieVars, starting, completing, claiming, ledger>>

\* mintFirstAccessKey, then the session and the cookie.
FinishMints(b) ==
    /\ finishing[b] # 0
    /\ finishing' = [finishing EXCEPT ![b] = 0]
    /\ \/ /\ FreshInstance
          /\ \E k \in Keys :
              /\ NextKey(k)
              /\ keys' = [keys EXCEPT ![k] = "active"]
              /\ handed' = handed \cup {Handed(b, 0, k, finishing[b])}
              /\ session' = [session EXCEPT ![b] = k]
          /\ setupCookie' = [setupCookie EXCEPT ![b] = 0]
       \/ ~FreshInstance /\ UNCHANGED <<keys, handed, session, setupCookie>>
    /\ UNCHANGED <<pairing, recoveryCookie, starting, completing, claiming, paired, stray>>

-----------------------------------------------------------------------------
(* The worker, on archive rows.                                            *)

Pairs(p, a) ==
    /\ p \in Archives /\ pairing[p].status = "pending" /\ ~pairing[p].revoked
    /\ pairing' = [pairing EXCEPT ![p].status = "active", ![p].account = a]
    /\ paired' = paired \cup {a}
    /\ UNCHANGED <<keys, cookieVars, requestVars, completing, handed, stray>>

\* The channel ejects it, or the login times out or fails.
Ends(p) ==
    /\ p \in LiveArchives
    /\ pairing' = IF pairing[p].status = "active" THEN [pairing EXCEPT ![p].revoked = TRUE]
                  ELSE [pairing EXCEPT ![p].status = "error"]
    /\ UNCHANGED <<keys, cookieVars, requestVars, completing, ledger>>

-----------------------------------------------------------------------------
(* Recovery, in the portal: open to a browser without a session.           *)

RecoveryOpen(b) == ~FreshInstance /\ ~SignedIn(b)

KnownAccount(ch) == \E p \in Archives : pairing[p].channel = ch /\ pairing[p].account # "none"

\* startRecovery deletes the live attempt whatever it has come to.
StartDeletes(b, ch) ==
    /\ RecoveryOpen(b) /\ KnownAccount(ch) /\ starting[b] = "none"
    /\ pairing' = WithoutRows(LiveRecoveries(ch))
    /\ stray' = stray \cup ({pairing[p].key : p \in LiveRecoveries(ch)} \ {0})
    /\ starting' = [starting EXCEPT ![b] = ch]
    /\ UNCHANGED <<keys, cookieVars, finishing, completing, claiming, handed, paired>>

\* The index refuses a second live attempt.
StartInserts(b) ==
    /\ starting[b] # "none"
    /\ starting' = [starting EXCEPT ![b] = "none"]
    /\ \/ /\ ~SlotTaken(pairing, "recovery", starting[b])
          /\ \E p \in Pairings :
              /\ NextPairing(p)
              /\ pairing' = [pairing EXCEPT ![p] = NewPairing("recovery", starting[b], b)]
              /\ recoveryCookie' = [recoveryCookie EXCEPT ![b] = p]
       \/ /\ SlotTaken(pairing, "recovery", starting[b])
          /\ UNCHANGED <<pairing, recoveryCookie>>
    /\ UNCHANGED <<keys, setupCookie, session, finishing, completing, claiming, ledger>>

\* Cancels a pending attempt, or dismisses a finished one.
RecoverCancel(b) ==
    /\ RecoveryOpen(b) /\ recoveryCookie[b] # 0
    /\ pairing' = WithRevoked(recoveryCookie[b])
    /\ recoveryCookie' = [recoveryCookie EXCEPT ![b] = 0]
    /\ UNCHANGED <<keys, setupCookie, session, requestVars, completing, ledger>>

Claimable(p) == p \in Pairings /\ pairing[p].matched /\ pairing[p].key # 0

ClaimReads(b, t) ==
    /\ RecoveryOpen(b) /\ claiming[<<b, t>>] = NotClaiming
    /\ Claimable(recoveryCookie[b])
    /\ claiming' = [claiming EXCEPT ![<<b, t>>] =
                     [pairing |-> recoveryCookie[b], key |-> pairing[recoveryCookie[b]].key]]
    /\ UNCHANGED <<pairing, keys, cookieVars, finishing, starting, completing, ledger>>

\* FAULTY: the update is not conditional on the key still being there.
WinsAlways(claim) == TRUE

Wins(claim) == pairing[claim.pairing].key = claim.key

\* recoverClaimAction from the conditional update on; a key that has been
\* revoked since is not revealed.
ClaimTakes(b, t) ==
    LET claim == claiming[<<b, t>>] IN
    /\ claim # NotClaiming
    /\ claiming' = [claiming EXCEPT ![<<b, t>>] = NotClaiming]
    /\ \/ /\ Wins(claim)
          /\ pairing' = [pairing EXCEPT ![claim.pairing].key = 0]
          /\ recoveryCookie' = [recoveryCookie EXCEPT ![b] = 0]
          /\ IF Active(claim.key)
             THEN /\ handed' = handed \cup {Handed(b, t, claim.key, claim.pairing)}
                  /\ session' = [session EXCEPT ![b] = claim.key]
             ELSE UNCHANGED <<handed, session>>
       \/ ~Wins(claim) /\ UNCHANGED <<pairing, recoveryCookie, handed, session>>
    /\ UNCHANGED <<keys, setupCookie, finishing, starting, completing, paired, stray>>

-----------------------------------------------------------------------------
(* Recovery, in the worker: completeRecovery, statement by statement.      *)

\* FAULTY: any pairing that succeeds is a match.
VouchesAnybody(ch, a) == Archives # {}

\* An archive row of the channel, live or past, that reported this account.
Vouches(ch, a) == \E p \in Archives : pairing[p].channel = ch /\ pairing[p].account = a

RecoveryPairs(p, a) ==
    /\ completing = NotCompleting
    /\ pairing[p].purpose = "recovery" /\ pairing[p].status = "pending" /\ ~pairing[p].revoked
    /\ completing' = [pairing |-> p, key |-> 0, account |-> a,
                      step |-> IF Vouches(pairing[p].channel, a) THEN "match" ELSE "mismatch"]
    /\ UNCHANGED <<pairing, keys, cookieVars, requestVars, ledger>>

RecoveryFails(p) ==
    /\ completing.pairing # p
    /\ pairing[p].purpose = "recovery" /\ pairing[p].status = "pending" /\ ~pairing[p].revoked
    /\ pairing' = [pairing EXCEPT ![p].status = "error"]
    /\ UNCHANGED <<keys, cookieVars, requestVars, completing, ledger>>

RecoveryMints ==
    /\ completing.step = "match"
    /\ \E k \in Keys :
        /\ NextKey(k)
        /\ keys' = [keys EXCEPT ![k] = "active"]
        /\ completing' = [completing EXCEPT !.key = k, !.step = "minted"]
    /\ UNCHANGED <<pairing, cookieVars, requestVars, ledger>>

StillWanted(p) == pairing[p].purpose = "recovery" /\ ~pairing[p].revoked

\* FAULTY: the key of an attempt that is gone is left as it is.
KeyOfGoneKept(k) == keys

\* Nobody can claim the key of an attempt that is gone: it must not stay active.
KeyOfGone(k) == [keys EXCEPT ![k] = "revoked"]

\* The conditional update that records the outcome, and what follows it.  An
\* attempt that an exit has left pending is paired once more, and its second
\* key takes the place of the first.  The code discards the account; the row has
\* it here for HandedRightly, and nothing reads it.
RecoveryRecords ==
    /\ completing.step = "minted"
    /\ LET p == completing.pairing IN
        \/ /\ StillWanted(p)
           /\ pairing' = [pairing EXCEPT ![p].matched = TRUE, ![p].key = completing.key,
                                         ![p].account = completing.account]
           /\ stray' = stray \cup ({pairing[p].key} \ {0})
           /\ completing' = [completing EXCEPT !.step = "revoke", !.key = 0]
           /\ UNCHANGED keys
        \/ /\ ~StillWanted(p)
           /\ keys' = KeyOfGone(completing.key)
           /\ completing' = NotCompleting
           /\ UNCHANGED <<pairing, stray>>
    /\ UNCHANGED <<cookieVars, requestVars, handed, paired>>

\* Matched or not, the attempt ends revoked.
RecoveryEnds ==
    /\ completing.step \in {"mismatch", "revoke"}
    /\ pairing' = WithRevoked(completing.pairing)
    /\ completing' = NotCompleting
    /\ UNCHANGED <<keys, cookieVars, requestVars, ledger>>

\* An exit between the mint and the update leaves a key no row records.
WorkerExits ==
    /\ completing # NotCompleting
    /\ stray' = stray \cup ({completing.key} \ {0})
    /\ completing' = NotCompleting
    /\ UNCHANGED <<pairing, keys, cookieVars, requestVars, handed, paired>>

-----------------------------------------------------------------------------
(* Settings and sign-in, with a key in hand.                               *)

SignIn(b, k) ==
    /\ ~SignedIn(b) /\ Active(k) /\ \E h \in handed : h.browser = b /\ h.key = k
    /\ session' = [session EXCEPT ![b] = k]
    /\ UNCHANGED <<pairing, keys, setupCookie, recoveryCookie, requestVars, completing, ledger>>

SignOut(b) ==
    /\ session[b] # 0
    /\ session' = [session EXCEPT ![b] = 0]
    /\ UNCHANGED <<pairing, keys, setupCookie, recoveryCookie, requestVars, completing, ledger>>

RevokeKey(b, k) ==
    /\ SignedIn(b) /\ Active(k)
    /\ keys' = [keys EXCEPT ![k] = "revoked"]
    /\ UNCHANGED <<pairing, cookieVars, requestVars, completing, ledger>>

\* Disconnect, or delete everything.
Disconnect(b, p) ==
    /\ SignedIn(b) /\ p \in Archives
    /\ \/ ~pairing[p].revoked /\ pairing' = WithRevoked(p)
       \/ pairing' = WithoutRows({p})
    /\ UNCHANGED <<keys, cookieVars, requestVars, completing, ledger>>

-----------------------------------------------------------------------------
AccessNext ==
    \/ \E b \in Browsers :
        \/ \E ch \in Channels : SetupConnect(b, ch) \/ StartDeletes(b, ch)
        \/ SetupCancel(b) \/ FinishChecks(b) \/ FinishMints(b)
        \/ StartInserts(b) \/ RecoverCancel(b)
        \/ \E t \in Tabs : ClaimReads(b, t) \/ ClaimTakes(b, t)
        \/ \E k \in Keys : SignIn(b, k) \/ RevokeKey(b, k)
        \/ SignOut(b)
        \/ \E p \in Pairings : Disconnect(b, p)
    \/ \E p \in Pairings : \/ \E a \in Accounts : Pairs(p, a) \/ RecoveryPairs(p, a)
                           \/ Ends(p) \/ RecoveryFails(p)
    \/ RecoveryMints \/ RecoveryRecords \/ RecoveryEnds \/ WorkerExits

AccessSpec == AccessInit /\ [][AccessNext]_accessVars

-----------------------------------------------------------------------------
AccessTypeOK ==
    /\ pairing \in [Pairings -> [purpose: {"none", "archive", "recovery"},
                                 channel: Channels \cup {"none"},
                                 status: {"none", "pending", "active", "error"},
                                 revoked: BOOLEAN, account: Accounts \cup {"none"},
                                 matched: BOOLEAN, key: Keys \cup {0},
                                 by: Browsers \cup {"nobody", "deleted"}]]
    /\ keys \in [Keys -> {"none", "active", "revoked"}]
    /\ setupCookie \in [Browsers -> Pairings \cup {0}]
    /\ recoveryCookie \in [Browsers -> Pairings \cup {0}]
    /\ session \in [Browsers -> Keys \cup {0}]
    /\ finishing \in [Browsers -> Pairings \cup {0}]
    /\ starting \in [Browsers -> Channels \cup {"none"}]
    /\ completing \in [pairing: Pairings \cup {0}, key: Keys \cup {0},
                       account: Accounts \cup {"none"},
                       step: {"none", "match", "mismatch", "minted", "revoke"}]
    /\ claiming \in [Browsers \X Tabs -> [pairing: Pairings \cup {0}, key: Keys \cup {0}]]
    /\ handed \in SUBSET [browser: Browsers, tab: Tabs \cup {0}, key: Keys,
                          by: Browsers \cup {"deleted"}, account: Accounts \cup {"none"},
                          purpose: {"none", "archive", "recovery"}]
    /\ paired \subseteq Accounts /\ stray \subseteq Keys

\* A key is given once, to the browser that began the pairing it is given for,
\* and never before that pairing has said whose account it is.
HandedRightly ==
    /\ \A g, h \in handed : g.key = h.key => g = h
    /\ \A h \in handed : h.by = h.browser /\ h.account \in paired

\* Setup gives one key to one browser.
OneOwnerAtSetup == \A g, h \in handed : g.purpose = "archive" /\ h.purpose = "archive" => g = h

\* An active key was given to a browser, or a recovery attempt holds it, or the
\* worker does, unless its record was lost between two statements.
NoStrayKeys ==
    \A k \in Keys : keys[k] = "active" /\ k \notin stray =>
        \/ \E h \in handed : h.key = k
        \/ \E p \in Pairings : Claimable(p) /\ pairing[p].key = k
        \/ completing.key = k

\* However setup and recovery interleave with cancels, second starts, second
\* tabs, revocations and exits, keys go to those who proved themselves.
KeysAccounted == HandedRightly /\ OneOwnerAtSetup /\ NoStrayKeys
=============================================================================
