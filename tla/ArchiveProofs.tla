---------------------------- MODULE ArchiveProofs ----------------------------
(***************************************************************************)
(* Proofs about Ingest and Reads, how rows come into the archive and how   *)
(* they are read out of it, for every set of chats and rows; and that the  *)
(* composition of the four services, which the run explores, behaves as    *)
(* each of them does.                                                      *)
(***************************************************************************)
EXTENDS MCServices, AccessProofs, WhatsAppProofs, FiniteSetTheorems, TLAPS

-----------------------------------------------------------------------------
(* The queue of updates, as one chat sees it.                              *)

\* The i-th update of q is its author's, about chat c.
Own(q, c, i) == i \in DOMAIN q /\ q[i].chat = c /\ q[i].own

PendingOf(q, c) == \E i \in DOMAIN q : Own(q, c, i)
PendingKind(q, c, kind) == \E i \in DOMAIN q : Own(q, c, i) /\ q[i].kind = kind

\* What is queued about a chat is in the order it happened, and ends with what
\* its message is now.
QueueOK(q, c, message) ==
    \A i \in DOMAIN q : Own(q, c, i) =>
        /\ q[i].kind = "new" => q[i].version = 1 /\ message.version >= 1
        /\ q[i].kind = "edit" => q[i].version >= 2 /\ q[i].version <= message.version
        /\ q[i].kind = "delete" => message.gone
        /\ \A j \in DOMAIN q : Own(q, c, j) /\ i < j =>
            /\ q[i].kind # "delete"
            /\ q[j].kind # "delete" => q[i].version <= q[j].version
        /\ q[i].kind # "delete" =>
            /\ \E j \in DOMAIN q :
                Own(q, c, j) /\ q[j].kind # "delete" /\ q[j].version = message.version
            /\ message.gone => PendingKind(q, c, "delete")

-----------------------------------------------------------------------------
(* The invariant.                                                          *)

\* The version a row has, or will have when its page is recorded.
Held(c) == IF IsArchived(c) THEN archive[c].version ELSE page[c]

\* A row, and the page that will become one, lag behind the message by what is
\* queued, unless something was dropped.
ChatOK(c) ==
    /\ QueueOK(updates, c, source[c])
    /\ source[c].gone => source[c].version # 0
    /\ archive[c].version <= source[c].version /\ page[c] <= source[c].version
    /\ archive[c].deleted => source[c].gone /\ IsArchived(c) /\ ~PendingOf(updates, c)
    /\ Stale(c) /\ c \notin missed =>
        /\ PendingKind(updates, c, "edit") \/ Held(c) = source[c].version
        /\ source[c].gone => archive[c].deleted \/ PendingKind(updates, c, "delete")
    /\ channel = "telegram" /\ listening /\ c \notin todo /\ page[c] = 0
       /\ source[c].version # 0 /\ ~source[c].gone /\ ~IsArchived(c) => PendingOf(updates, c)
    /\ IsArchived(c) /\ c \notin enqueueing \cup unqueued => archive[c].queued

\* A closed session has read nothing ahead, and what nobody vouches for comes
\* on WhatsApp only.
SessionInv ==
    /\ ~listening => todo = {} /\ \A c \in Chats : page[c] = 0
    /\ channel = "telegram" /\ ~listening => updates = <<>>
    /\ channel = "telegram" /\ listening /\ backfilled => todo = {} /\ \A c \in Chats : page[c] = 0
    /\ \A i \in DOMAIN updates : ~updates[i].own => channel = "whatsapp" /\ updates[i].kind # "new"

ChatsInv == \A c \in Chats : ChatOK(c)

IngestInv == IngestTypeOK /\ SessionInv /\ ChatsInv

-----------------------------------------------------------------------------
(* What a queue that moves on, or grows, still says of a chat.             *)

\* The places of a queue whose head is gone.
LEMMA TailPlaces ==
    ASSUME NEW q \in Seq(Update), q # <<>>, NEW c
    PROVE  /\ Head(q) = q[1] /\ 1 \in DOMAIN q /\ Head(q) \in Update /\ Tail(q) \in Seq(Update)
           /\ DOMAIN q \subseteq Nat \ {0} /\ DOMAIN Tail(q) \subseteq Nat \ {0}
           /\ \A i \in DOMAIN Tail(q) : i + 1 \in DOMAIN q /\ Tail(q)[i] = q[i + 1]
           /\ \A i \in DOMAIN q : i # 1 => i - 1 \in DOMAIN Tail(q) /\ Tail(q)[i - 1] = q[i]
<1> DEFINE t == Tail(q)
<1>1. /\ Len(q) \in Nat \ {0} /\ DOMAIN q = 1..Len(q) /\ Head(q) = q[1] /\ Head(q) \in Update
      /\ t \in Seq(Update) /\ Len(t) = Len(q) - 1 /\ DOMAIN t = 1..Len(t)
      /\ \A i \in 1..Len(t) : t[i] = q[i + 1]
    OBVIOUS
<1> HIDE DEF t
<1>2. \A i \in DOMAIN t : i + 1 \in DOMAIN q /\ t[i] = q[i + 1]
    BY <1>1
<1>3. \A i \in DOMAIN q : i # 1 => i - 1 \in DOMAIN t /\ t[i - 1] = q[i]
    <2> SUFFICES ASSUME NEW i \in DOMAIN q, i # 1 PROVE i - 1 \in DOMAIN t /\ t[i - 1] = q[i]
        OBVIOUS
    <2>1. i - 1 \in 1..Len(t) /\ (i - 1) + 1 = i
        BY <1>1
    <2> QED BY <1>1, <2>1
<1>4. 1 \in DOMAIN q /\ DOMAIN q \subseteq Nat \ {0} /\ DOMAIN t \subseteq Nat \ {0}
    BY <1>1
<1> QED BY <1>1, <1>2, <1>3, <1>4 DEF t

\* What is still queued was queued, and what is not queued any more was the head.
LEMMA TailPending ==
    ASSUME NEW q \in Seq(Update), q # <<>>, NEW c
    PROVE  /\ \A i \in DOMAIN Tail(q) : Own(Tail(q), c, i) <=> Own(q, c, i + 1)
           /\ \A i \in DOMAIN q : Own(q, c, i) /\ i # 1 => Own(Tail(q), c, i - 1)
           /\ PendingOf(Tail(q), c) => PendingOf(q, c)
           /\ ~Own(q, c, 1) => (PendingOf(q, c) <=> PendingOf(Tail(q), c))
           /\ \A kind : PendingKind(Tail(q), c, kind) => PendingKind(q, c, kind)
           /\ \A kind : ~(Own(q, c, 1) /\ q[1].kind = kind) =>
                (PendingKind(q, c, kind) <=> PendingKind(Tail(q), c, kind))
<1>1. \A i \in DOMAIN Tail(q) : Own(Tail(q), c, i) <=> Own(q, c, i + 1)
    BY TailPlaces DEF Own
<1>2. \A i \in DOMAIN q : Own(q, c, i) /\ i # 1 => Own(Tail(q), c, i - 1)
    BY TailPlaces DEF Own
<1>3. /\ PendingOf(Tail(q), c) => PendingOf(q, c)
      /\ ~Own(q, c, 1) => (PendingOf(q, c) => PendingOf(Tail(q), c))
    BY <1>1, <1>2, TailPlaces DEF PendingOf
<1>4. ASSUME NEW kind
      PROVE  /\ PendingKind(Tail(q), c, kind) => PendingKind(q, c, kind)
             /\ ~(Own(q, c, 1) /\ q[1].kind = kind) =>
                    (PendingKind(q, c, kind) => PendingKind(Tail(q), c, kind))
    <2>1. ASSUME PendingKind(Tail(q), c, kind) PROVE PendingKind(q, c, kind)
        <3>1. PICK i \in DOMAIN Tail(q) : Own(Tail(q), c, i) /\ Tail(q)[i].kind = kind
            BY <2>1 DEF PendingKind
        <3> QED BY <1>1, <3>1, TailPlaces DEF PendingKind
    <2>2. ASSUME PendingKind(q, c, kind), ~(Own(q, c, 1) /\ q[1].kind = kind)
          PROVE  PendingKind(Tail(q), c, kind)
        <3>1. PICK i \in DOMAIN q : Own(q, c, i) /\ q[i].kind = kind
            BY <2>2 DEF PendingKind
        <3>2. i # 1
            BY <2>2, <3>1
        <3>3. i - 1 \in DOMAIN Tail(q) /\ Tail(q)[i - 1] = q[i]
            BY <3>2, TailPlaces
        <3>4. Own(Tail(q), c, i - 1)
            BY <1>2, <3>1, <3>2
        <3> QED BY <3>1, <3>3, <3>4 DEF PendingKind
    <2> QED BY <2>1, <2>2
<1> QED BY <1>1, <1>2, <1>3, <1>4

\* A queue whose head is handled is still in order, and still ends with what
\* the message is now.
LEMMA TailQueue ==
    ASSUME NEW q \in Seq(Update), q # <<>>, NEW c, NEW m, m.version \in Nat, QueueOK(q, c, m)
    PROVE  QueueOK(Tail(q), c, m)
<1> DEFINE t == Tail(q)
<1> SUFFICES ASSUME NEW i \in DOMAIN t, Own(t, c, i)
             PROVE
        /\ t[i].kind = "new" => t[i].version = 1 /\ m.version >= 1
        /\ t[i].kind = "edit" => t[i].version >= 2 /\ t[i].version <= m.version
        /\ t[i].kind = "delete" => m.gone
        /\ \A j \in DOMAIN t : Own(t, c, j) /\ i < j =>
            /\ t[i].kind # "delete"
            /\ t[j].kind # "delete" => t[i].version <= t[j].version
        /\ t[i].kind # "delete" =>
            /\ \E j \in DOMAIN t :
                Own(t, c, j) /\ t[j].kind # "delete" /\ t[j].version = m.version
            /\ m.gone => PendingKind(t, c, "delete")
    BY DEF QueueOK
<1> DEFINE k == i + 1
<1>1. k \in DOMAIN q /\ t[i] = q[k] /\ Own(q, c, k) /\ k \in Nat /\ k > 1 /\ i \in Nat
    <2>1. i \in Nat \ {0} /\ k \in DOMAIN q /\ t[i] = q[k]
        BY TailPlaces
    <2>2. Own(q, c, k)
        BY TailPending
    <2> QED BY <2>1, <2>2
<1>2. /\ q[k].kind = "new" => q[k].version = 1 /\ m.version >= 1
      /\ q[k].kind = "edit" => q[k].version >= 2 /\ q[k].version <= m.version
      /\ q[k].kind = "delete" => m.gone
      /\ \A j \in DOMAIN q : Own(q, c, j) /\ k < j =>
            /\ q[k].kind # "delete"
            /\ q[j].kind # "delete" => q[k].version <= q[j].version
      /\ q[k].kind # "delete" =>
            /\ \E j \in DOMAIN q :
                Own(q, c, j) /\ q[j].kind # "delete" /\ q[j].version = m.version
            /\ m.gone => PendingKind(q, c, "delete")
    BY <1>1 DEF QueueOK
<1>3. Own(q, c, 1) => q[1].kind # "delete"
                      /\ (q[k].kind # "delete" => q[1].version <= q[k].version)
    BY <1>1, TailPlaces DEF QueueOK
<1> HIDE DEF t
<1>4. ASSUME NEW j \in DOMAIN t, Own(t, c, j), i < j
      PROVE  /\ t[i].kind # "delete"
             /\ t[j].kind # "delete" => t[i].version <= t[j].version
    <2>1. j + 1 \in DOMAIN q /\ t[j] = q[j + 1] /\ Own(q, c, j + 1) /\ j \in Nat
        BY <1>4, TailPlaces, TailPending DEF t
    <2>2. k < j + 1
        BY <1>1, <1>4, <2>1
    <2> QED BY <1>1, <1>2, <2>1, <2>2
<1>5. ASSUME t[i].kind # "delete"
      PROVE  \E j \in DOMAIN t :
                Own(t, c, j) /\ t[j].kind # "delete" /\ t[j].version = m.version
    <2>1. PICK j \in DOMAIN q : Own(q, c, j) /\ q[j].kind # "delete" /\ q[j].version = m.version
        BY <1>1, <1>2, <1>5
    <2>2. CASE j # 1
        <3>1. j - 1 \in DOMAIN t /\ t[j - 1] = q[j] /\ Own(t, c, j - 1)
            BY <2>1, <2>2, TailPlaces, TailPending DEF t
        <3> QED BY <2>1, <3>1
    <2>3. CASE j = 1
        <3>1. m.version <= q[k].version
            BY <1>1, <1>3, <1>5, <2>1, <2>3
        <3>2. q[k].kind \in {"new", "edit"}
            <4>1. q[k] \in Update
                BY <1>1
            <4> QED BY <1>1, <1>5, <4>1 DEF Update
        <3>3. q[k].version <= m.version /\ q[k].version \in Nat
            <4>1. q[k].version \in 0..Forged
                <5>1. q[k] \in Update
                    BY <1>1
                <5> QED BY <5>1 DEF Update
            <4>2. q[k].version \in Nat
                BY <4>1, IngestAssumption DEF Forged
            <4> QED BY <1>2, <3>2, <4>2
        <3>4. q[k].version = m.version
            BY <3>1, <3>3
        <3> QED BY <1>1, <1>5, <3>4
    <2> QED BY <2>2, <2>3
<1>6. ASSUME t[i].kind # "delete", m.gone PROVE PendingKind(t, c, "delete")
    <2>1. PendingKind(q, c, "delete")
        BY <1>1, <1>2, <1>6
    <2> QED BY <1>3, <2>1, TailPending DEF t
<1> QED BY <1>1, <1>2, <1>4, <1>5, <1>6

\* The places of q are those of t, and its last place n is u's.
Grown(q, u, c, t, n) ==
    /\ t \in Seq(Update) /\ DOMAIN t = DOMAIN q \cup {n} /\ n \notin DOMAIN q /\ n \in Nat
    /\ \A i \in DOMAIN q : /\ i \in Nat /\ i < n /\ t[i] = q[i]
                           /\ Own(t, c, i) <=> Own(q, c, i)
    /\ t[n] = u
    /\ Own(t, c, n) <=> u.chat = c /\ u.own

\* The places of a queue that grew.
LEMMA AppendPlaces ==
    ASSUME NEW q \in Seq(Update), NEW u \in Update, NEW c
    PROVE  Grown(q, u, c, Append(q, u), Len(q) + 1)
<1> PICK t, n : t = Append(q, u) /\ n = Len(q) + 1
    OBVIOUS
<1>1. /\ Len(q) \in Nat /\ DOMAIN q = 1..Len(q)
      /\ t \in Seq(Update) /\ Len(t) = n /\ DOMAIN t = 1..n
      /\ \A i \in 1..Len(q) : t[i] = q[i]
      /\ t[n] = u
    OBVIOUS
<1>2. DOMAIN t = DOMAIN q \cup {n} /\ n \notin DOMAIN q /\ n \in DOMAIN t
    BY <1>1
<1>3. \A i \in DOMAIN q : t[i] = q[i] /\ i < n /\ i \in Nat
    BY <1>1
<1>4. /\ \A i \in DOMAIN q : Own(t, c, i) <=> Own(q, c, i)
      /\ Own(t, c, n) <=> u.chat = c /\ u.own
    BY <1>1, <1>2, <1>3 DEF Own
<1>5. Grown(q, u, c, t, n)
    BY <1>1, <1>2, <1>3, <1>4 DEF Grown
<1> QED BY <1>5

\* An update that is not the author's, or about another chat, changes nothing.
LEMMA OtherAppended ==
    ASSUME NEW q \in Seq(Update), NEW u \in Update, NEW c, u.chat # c \/ ~u.own
    PROVE  /\ \A m : QueueOK(q, c, m) => QueueOK(Append(q, u), c, m)
           /\ PendingOf(Append(q, u), c) <=> PendingOf(q, c)
           /\ \A kind : PendingKind(Append(q, u), c, kind) <=> PendingKind(q, c, kind)
<1> PICK t, n : t = Append(q, u) /\ n = Len(q) + 1
    OBVIOUS
<1>1. /\ DOMAIN t = DOMAIN q \cup {n} /\ ~Own(t, c, n)
      /\ \A i \in DOMAIN q : t[i] = q[i] /\ (Own(t, c, i) <=> Own(q, c, i))
    <2>1. Grown(q, u, c, t, n)
        BY AppendPlaces
    <2> QED BY <2>1 DEF Grown
<1>2. PendingOf(t, c) <=> PendingOf(q, c)
    BY <1>1 DEF PendingOf
<1>3. ASSUME NEW kind PROVE PendingKind(t, c, kind) <=> PendingKind(q, c, kind)
    BY <1>1 DEF PendingKind
<1>4. ASSUME NEW m, QueueOK(q, c, m) PROVE QueueOK(t, c, m)
    <2> SUFFICES ASSUME NEW i \in DOMAIN t, Own(t, c, i)
                 PROVE
            /\ t[i].kind = "new" => t[i].version = 1 /\ m.version >= 1
            /\ t[i].kind = "edit" => t[i].version >= 2 /\ t[i].version <= m.version
            /\ t[i].kind = "delete" => m.gone
            /\ \A j \in DOMAIN t : Own(t, c, j) /\ i < j =>
                /\ t[i].kind # "delete"
                /\ t[j].kind # "delete" => t[i].version <= t[j].version
            /\ t[i].kind # "delete" =>
                /\ \E j \in DOMAIN t :
                    Own(t, c, j) /\ t[j].kind # "delete" /\ t[j].version = m.version
                /\ m.gone => PendingKind(t, c, "delete")
        BY DEF QueueOK
    <2>1. i \in DOMAIN q /\ Own(q, c, i) /\ t[i] = q[i]
        BY <1>1
    <2>2. \A j \in DOMAIN t : Own(t, c, j) => j \in DOMAIN q /\ Own(q, c, j) /\ t[j] = q[j]
        BY <1>1
    <2>3. ASSUME NEW j \in DOMAIN t, Own(t, c, j), i < j
          PROVE  /\ t[i].kind # "delete"
                 /\ t[j].kind # "delete" => t[i].version <= t[j].version
        BY <1>4, <2>1, <2>2, <2>3 DEF QueueOK
    <2>4. ASSUME t[i].kind # "delete"
          PROVE  /\ \E j \in DOMAIN t :
                    Own(t, c, j) /\ t[j].kind # "delete" /\ t[j].version = m.version
                 /\ m.gone => PendingKind(t, c, "delete")
        <3>1. /\ \E j \in DOMAIN q :
                    Own(q, c, j) /\ q[j].kind # "delete" /\ q[j].version = m.version
              /\ m.gone => PendingKind(q, c, "delete")
            BY <1>4, <2>1, <2>4 DEF QueueOK
        <3> QED BY <1>1, <1>3, <3>1
    <2>5. /\ t[i].kind = "new" => t[i].version = 1 /\ m.version >= 1
          /\ t[i].kind = "edit" => t[i].version >= 2 /\ t[i].version <= m.version
          /\ t[i].kind = "delete" => m.gone
        BY <1>4, <2>1 DEF QueueOK
    <2> QED BY <2>3, <2>4, <2>5
<1> QED BY <1>2, <1>3, <1>4

\* An update the author's client sent says what the message is now.
LEMMA OwnAppended ==
    ASSUME NEW q \in Seq(Update), NEW u \in Update, NEW c, u.chat = c, u.own,
           NEW m, NEW now, m.version \in Nat, now.version \in Nat,
           QueueOK(q, c, m), ~m.gone, m.version <= now.version,
           u.kind = "new" => m.version = 0 /\ u.version = 1,
           u.kind = "edit" => u.version >= 2,
           u.kind # "delete" => u.version = now.version /\ ~now.gone,
           u.kind = "delete" => now.gone /\ now.version = m.version
    PROVE  /\ QueueOK(Append(q, u), c, now)
           /\ PendingOf(Append(q, u), c)
           /\ PendingKind(Append(q, u), c, u.kind)
           /\ \A kind : PendingKind(q, c, kind) => PendingKind(Append(q, u), c, kind)
<1> PICK t, n : t = Append(q, u) /\ n = Len(q) + 1
    OBVIOUS
<1>1. /\ DOMAIN t = DOMAIN q \cup {n} /\ Own(t, c, n) /\ t[n] = u /\ n \notin DOMAIN q
      /\ \A i \in DOMAIN q : /\ t[i] = q[i] /\ (Own(t, c, i) <=> Own(q, c, i))
                             /\ i < n /\ i \in Nat
    <2>1. Grown(q, u, c, t, n)
        BY AppendPlaces
    <2> QED BY <2>1 DEF Grown
<1>2. n \in Nat
    OBVIOUS
<1>3. PendingOf(t, c) /\ PendingKind(t, c, u.kind)
    BY <1>1 DEF PendingOf, PendingKind
<1>4. \A kind : PendingKind(q, c, kind) => PendingKind(t, c, kind)
    BY <1>1 DEF PendingKind
<1>5. ASSUME NEW i \in DOMAIN q, Own(q, c, i)
      PROVE  /\ q[i].kind \in {"new", "edit"}
             /\ q[i].kind = "new" => q[i].version = 1 /\ m.version >= 1
             /\ q[i].kind = "edit" => q[i].version >= 2 /\ q[i].version <= m.version
             /\ q[i].version \in Nat /\ q[i].version <= m.version
             /\ \A j \in DOMAIN q : Own(q, c, j) /\ i < j => q[i].version <= q[j].version
             /\ \E j \in DOMAIN q : Own(q, c, j) /\ q[j].kind # "delete" /\ q[j].version = m.version
    <2>1. q[i] \in Update
        <3>1. \A j \in DOMAIN q : q[j] \in Update
            OBVIOUS
        <3> QED BY <3>1
    <2>2. q[i].kind \in {"new", "edit", "delete"} /\ q[i].version \in 0..Forged
        BY <2>1 DEF Update
    <2>3. q[i].version \in Nat
        BY <2>2, IngestAssumption DEF Forged
    <2>4. q[i].kind # "delete"
        BY <1>5 DEF QueueOK
    <2>5. \A j \in DOMAIN q : Own(q, c, j) => q[j].kind # "delete"
        BY DEF QueueOK
    <2>6. \A j \in DOMAIN q : Own(q, c, j) /\ i < j => q[i].version <= q[j].version
        BY <1>5, <2>5 DEF QueueOK
    <2> QED BY <1>5, <2>2, <2>3, <2>4, <2>6 DEF QueueOK
<1>6. QueueOK(t, c, now)
    <2> SUFFICES ASSUME NEW i \in DOMAIN t, Own(t, c, i)
                 PROVE
            /\ t[i].kind = "new" => t[i].version = 1 /\ now.version >= 1
            /\ t[i].kind = "edit" => t[i].version >= 2 /\ t[i].version <= now.version
            /\ t[i].kind = "delete" => now.gone
            /\ \A j \in DOMAIN t : Own(t, c, j) /\ i < j =>
                /\ t[i].kind # "delete"
                /\ t[j].kind # "delete" => t[i].version <= t[j].version
            /\ t[i].kind # "delete" =>
                /\ \E j \in DOMAIN t :
                    Own(t, c, j) /\ t[j].kind # "delete" /\ t[j].version = now.version
                /\ now.gone => PendingKind(t, c, "delete")
        BY DEF QueueOK
    <2>1. /\ t[i].kind = "new" => t[i].version = 1 /\ now.version >= 1
          /\ t[i].kind = "edit" => t[i].version >= 2 /\ t[i].version <= now.version
          /\ t[i].kind = "delete" => now.gone
        <3>1. CASE i = n
            BY <1>1, <3>1
        <3>2. CASE i \in DOMAIN q
            BY <1>1, <1>5, <3>2
        <3> QED BY <1>1, <3>1, <3>2
    <2>2. ASSUME NEW j \in DOMAIN t, Own(t, c, j), i < j
          PROVE  /\ t[i].kind # "delete"
                 /\ t[j].kind # "delete" => t[i].version <= t[j].version
        <3>1. i \in DOMAIN q
            BY <1>1, <1>2, <2>2
        <3>2. CASE j = n
            BY <1>1, <1>5, <3>1, <3>2
        <3>3. CASE j \in DOMAIN q
            BY <1>1, <1>5, <2>2, <3>1, <3>3
        <3> QED BY <1>1, <3>2, <3>3
    <2>3. ASSUME t[i].kind # "delete"
          PROVE  /\ \E j \in DOMAIN t :
                    Own(t, c, j) /\ t[j].kind # "delete" /\ t[j].version = now.version
                 /\ now.gone => PendingKind(t, c, "delete")
        <3>1. CASE u.kind # "delete"
            BY <1>1, <3>1
        <3>2. CASE u.kind = "delete"
            <4>1. i \in DOMAIN q /\ Own(q, c, i)
                BY <1>1, <2>3, <3>2
            <4>2. PICK j \in DOMAIN q : Own(q, c, j) /\ q[j].kind # "delete"
                           /\ q[j].version = m.version
                BY <1>5, <4>1
            <4> QED BY <1>1, <1>3, <3>2, <4>2
        <3> QED BY <3>1, <3>2
    <2> QED BY <2>1, <2>2, <2>3
<1> QED BY <1>3, <1>4, <1>6

\* What the head of the queue, when it is the author's, says of its chat.
LEMMA HeadSays ==
    ASSUME NEW q \in Seq(Update), q # <<>>, NEW c, NEW m, m.version \in Nat, QueueOK(q, c, m),
           NEW u, u = q[1], Own(q, c, 1)
    PROVE  /\ u.kind = "delete" => m.gone /\ ~PendingOf(Tail(q), c)
           /\ u.kind # "delete" =>
                /\ u.version \in 1..m.version
                /\ PendingKind(Tail(q), c, "edit") \/ u.version = m.version
                /\ m.gone => PendingKind(Tail(q), c, "delete")
<1>1. /\ 1 \in DOMAIN q /\ DOMAIN q \subseteq Nat \ {0} /\ u \in Update
      /\ u.kind = "new" => u.version = 1 /\ m.version >= 1
      /\ u.kind = "edit" => u.version >= 2 /\ u.version <= m.version
      /\ u.kind = "delete" => m.gone
      /\ \A j \in DOMAIN q : Own(q, c, j) /\ 1 < j =>
            /\ u.kind # "delete"
            /\ q[j].kind # "delete" => u.version <= q[j].version
      /\ u.kind # "delete" =>
            /\ \E j \in DOMAIN q :
                Own(q, c, j) /\ q[j].kind # "delete" /\ q[j].version = m.version
            /\ m.gone => PendingKind(q, c, "delete")
    BY TailPlaces DEF QueueOK
<1>2. ASSUME u.kind = "delete" PROVE ~PendingOf(Tail(q), c)
    <2> SUFFICES ASSUME NEW i \in DOMAIN Tail(q), Own(Tail(q), c, i) PROVE FALSE
        BY DEF PendingOf
    <2>1. i + 1 \in DOMAIN q /\ Own(q, c, i + 1) /\ i \in Nat \ {0}
        BY TailPlaces, TailPending
    <2> QED BY <1>1, <1>2, <2>1
<1>3. u.kind \in {"new", "edit", "delete"} /\ u.version \in Nat
    <2>1. u.kind \in {"new", "edit", "delete"} /\ u.version \in 0..Forged
        BY <1>1 DEF Update
    <2> QED BY <2>1, IngestAssumption DEF Forged
<1>4. ASSUME u.kind # "delete" PROVE u.version \in 1..m.version
    BY <1>1, <1>3, <1>4
<1>5. ASSUME u.kind # "delete", ~PendingKind(Tail(q), c, "edit") PROVE u.version = m.version
    <2>1. PICK j \in DOMAIN q : Own(q, c, j) /\ q[j].kind # "delete" /\ q[j].version = m.version
        BY <1>1, <1>5
    <2>2. CASE j # 1
        <3>1. q[j].kind # "edit"
            <4>1. j - 1 \in DOMAIN Tail(q) /\ Own(Tail(q), c, j - 1) /\ Tail(q)[j - 1] = q[j]
                BY <2>1, <2>2, TailPlaces, TailPending
            <4> QED BY <1>5, <4>1 DEF PendingKind
        <3>2. q[j] \in Update
            BY <2>1
        <3>3. q[j].kind = "new"
            BY <2>1, <3>1, <3>2 DEF Update
        <3>4. q[j].version = 1
            BY <2>1, <3>3 DEF QueueOK
        <3>5. 1 < j
            BY <1>1, <2>2
        <3>6. u.version <= 1
            BY <1>1, <2>1, <3>4, <3>5
        <3>7. u.version \in 1..m.version
            BY <1>4, <1>5
        <3> QED BY <2>1, <3>4, <3>6, <3>7
    <2> QED BY <2>1, <2>2
<1>6. ASSUME u.kind # "delete", m.gone PROVE PendingKind(Tail(q), c, "delete")
    <2>1. PendingKind(q, c, "delete")
        BY <1>1, <1>6
    <2> QED BY <1>6, <2>1, TailPending
<1> QED BY <1>1, <1>2, <1>4, <1>5, <1>6

-----------------------------------------------------------------------------
(* What a step means for one chat.                                         *)

\* The queue says the same of chat c, but for updates that are not of its
\* author.
QueueSame(c) ==
    /\ QueueOK(updates', c, source[c])
    /\ PendingOf(updates', c) <=> PendingOf(updates, c)
    /\ \A kind : PendingKind(updates', c, kind) <=> PendingKind(updates, c, kind)

\* The step is not about chat c.
Elsewhere(c) ==
    /\ source'[c] = source[c] /\ archive'[c] = archive[c] /\ page'[c] = page[c]
    /\ c \in missed => c \in missed'
    /\ c \in todo => c \in todo'
    /\ c \in enqueueing => c \in enqueueing' \cup unqueued'
    /\ c \in unqueued => c \in unqueued'

\* What is not about a chat leaves it as it was.
LEMMA ElsewhereKeeps ==
    ASSUME NEW c, ChatOK(c), QueueSame(c), Elsewhere(c), channel' = channel, listening' => listening
    PROVE  ChatOK(c)'
<1>1. Held(c)' = Held(c) /\ (IsArchived(c)' <=> IsArchived(c)) /\ (Stale(c)' <=> Stale(c))
    BY DEF Elsewhere, Held, IsArchived, Stale
<1>2. QueueOK(updates', c, source'[c])
    BY DEF QueueSame, Elsewhere
<1>3. /\ source'[c].gone => source'[c].version # 0
      /\ archive'[c].version <= source'[c].version /\ page'[c] <= source'[c].version
      /\ archive'[c].deleted => source'[c].gone /\ IsArchived(c)' /\ ~PendingOf(updates', c)
    BY <1>1 DEF ChatOK, QueueSame, Elsewhere
<1>4. Stale(c)' /\ c \notin missed' =>
        /\ PendingKind(updates', c, "edit") \/ Held(c)' = source'[c].version
        /\ source'[c].gone => archive'[c].deleted \/ PendingKind(updates', c, "delete")
    BY <1>1 DEF ChatOK, QueueSame, Elsewhere
<1>5. channel' = "telegram" /\ listening' /\ c \notin todo' /\ page'[c] = 0
      /\ source'[c].version # 0 /\ ~source'[c].gone /\ ~IsArchived(c)' => PendingOf(updates', c)
    BY <1>1 DEF ChatOK, QueueSame, Elsewhere
<1>6. IsArchived(c)' /\ c \notin enqueueing' \cup unqueued' => archive'[c].queued
    BY <1>1 DEF ChatOK, Elsewhere
<1> QED BY <1>2, <1>3, <1>4, <1>5, <1>6 DEF ChatOK

\* A queue that is not touched says the same of every chat.
LEMMA QueueUnchanged == ASSUME NEW c, ChatOK(c), updates' = updates PROVE QueueSame(c)
BY DEF QueueSame, ChatOK

\* A delete without a chat finds the one message that has its number.
LEMMA OneTarget == ASSUME NEW c \in Chats PROVE Targets(c) = {c}
BY IngestAssumption DEF Targets

-----------------------------------------------------------------------------
(* The account.                                                            *)

\* What an update's queue is, when another one joins it.
LEMMA QueueGrows ==
    ASSUME NEW c, ChatOK(c), NEW u \in Update, u.chat # c \/ ~u.own,
           updates \in Seq(Update), updates' = Append(updates, u)
    PROVE  QueueSame(c)
<1> PICK q, message : q = updates /\ message = source[c]
    OBVIOUS
<1>1. QueueOK(q, c, message)
    BY DEF ChatOK
<1>2. q \in Seq(Update)
    OBVIOUS
<1>3. /\ QueueOK(Append(q, u), c, message)
      /\ PendingOf(Append(q, u), c) <=> PendingOf(q, c)
      /\ \A kind : PendingKind(Append(q, u), c, kind) <=> PendingKind(q, c, kind)
    BY <1>1, <1>2, OtherAppended
<1> QED BY <1>3 DEF QueueSame

\* The author writes, edits or deletes; the update that says so is queued, or
\* dropped while a Telegram session is closed.
LEMMA AuthorKeeps ==
    ASSUME IngestInv, NEW d \in Chats, NEW kind \in {"new", "edit", "delete"},
           NEW v \in 0..MaxVersion, NEW now \in [version: 0..MaxVersion, gone: BOOLEAN],
           source' = [source EXCEPT ![d] = now], Notify(kind, d, v), UNCHANGED unheard,
           ~source[d].gone, source[d].version <= now.version, now.version # 0,
           kind = "new" => source[d].version = 0 /\ v = 1,
           kind = "edit" => v >= 2,
           kind # "delete" => v = now.version /\ ~now.gone,
           kind = "delete" => now.gone /\ now.version = source[d].version
    PROVE  IngestInv'
<1> USE DEF unheard, historyVars
<1>1. /\ source \in [Chats -> [version: 0..MaxVersion, gone: BOOLEAN]]
      /\ updates \in Seq(Update) /\ missed \subseteq Chats
      /\ archive \in [Chats -> [version: 0..MaxVersion, deleted: BOOLEAN,
                                sender: {"none", "lid", "number"}, queued: BOOLEAN]]
      /\ page \in [Chats -> 0..MaxVersion]
    BY DEF IngestInv, IngestTypeOK
<1>2. source'[d] = now /\ \A c \in Chats : c # d => source'[c] = source[c]
    BY <1>1
<1>3. source' \in [Chats -> [version: 0..MaxVersion, gone: BOOLEAN]]
    BY <1>1
<1> PICK u : u = [kind |-> kind, chat |-> d, version |-> v, own |-> TRUE]
    OBVIOUS
<1>4. u \in Update /\ u.kind = kind /\ u.chat = d /\ u.version = v /\ u.own
    <2>1. v \in 0..Forged
        BY IngestAssumption DEF Forged
    <2> QED BY <2>1 DEF Update
<1>5. PICK message : message = source[d]
    OBVIOUS
<1>6. message.version \in Nat /\ now.version \in Nat /\ ~message.gone
          /\ QueueOK(updates, d, message)
    <2>1. message \in [version: 0..MaxVersion, gone: BOOLEAN]
        BY <1>1, <1>5
    <2>2. message.version \in Nat /\ now.version \in Nat
        BY <2>1, IngestAssumption
    <2> QED BY <1>5, <2>2 DEF IngestInv, ChatsInv, ChatOK
<1>7. ASSUME listening \/ channel = "whatsapp"
      PROVE  /\ updates' \in Seq(Update) /\ missed' = missed
             /\ \A i \in DOMAIN updates' :
                    ~updates'[i].own => channel = "whatsapp" /\ updates'[i].kind # "new"
             /\ \A c \in Chats : c # d => QueueSame(c)
             /\ QueueOK(updates', d, now) /\ PendingOf(updates', d)
                    /\ PendingKind(updates', d, kind)
             /\ \A k : PendingKind(updates, d, k) => PendingKind(updates', d, k)
    <2>1. updates' = Append(updates, u) /\ missed' = missed
        BY <1>7 DEF Notify
    <2>2. updates' \in Seq(Update)
        BY <1>1, <1>4, <2>1
    <2>3. ASSUME NEW c \in Chats, c # d PROVE QueueSame(c)
        BY <1>1, <1>4, <2>1, <2>3, QueueGrows DEF IngestInv, ChatsInv
    <2>4. PICK q : q = updates
        OBVIOUS
    <2>5. /\ QueueOK(Append(q, u), d, now)
          /\ PendingOf(Append(q, u), d)
          /\ PendingKind(Append(q, u), d, u.kind)
          /\ \A k : PendingKind(q, d, k) => PendingKind(Append(q, u), d, k)
        <3>1. q \in Seq(Update) /\ QueueOK(q, d, message) /\ message.version <= now.version
            BY <1>1, <1>5, <1>6, <2>4
        <3>2. /\ u.kind = "new" => message.version = 0 /\ u.version = 1
              /\ u.kind = "edit" => u.version >= 2
              /\ u.kind # "delete" => u.version = now.version /\ ~now.gone
              /\ u.kind = "delete" => now.gone /\ now.version = message.version
            BY <1>4, <1>5
        <3> QED BY <1>4, <1>6, <3>1, <3>2, OwnAppended
    <2>6. \A i \in DOMAIN updates' :
            ~updates'[i].own => channel = "whatsapp" /\ updates'[i].kind # "new"
        <3>1. Grown(q, u, d, Append(q, u), Len(q) + 1)
            BY <1>1, <1>4, <2>4, AppendPlaces
        <3> QED BY <1>4, <2>1, <2>4, <3>1 DEF Grown, IngestInv, SessionInv
    <2> QED BY <1>4, <2>1, <2>2, <2>3, <2>4, <2>5, <2>6
<1>8. ASSUME ~listening, channel = "telegram"
      PROVE  updates' = updates /\ updates = <<>>
                 /\ missed' = IF Stale(d) THEN missed \cup {d} ELSE missed
    BY <1>8 DEF Notify, IngestInv, SessionInv
<1>9. listening \/ channel = "whatsapp" \/ (~listening /\ channel = "telegram")
    BY DEF IngestInv, IngestTypeOK
<1>10. IngestTypeOK'
    <2>1. updates' \in Seq(Update) /\ missed' \subseteq Chats
        BY <1>1, <1>7, <1>8, <1>9
    <2> QED BY <1>3, <2>1 DEF IngestInv, IngestTypeOK
<1>11. SessionInv'
    BY <1>7, <1>8, <1>9 DEF IngestInv, SessionInv
<1>12. ASSUME NEW c \in Chats, c # d PROVE ChatOK(c)'
    <2>1. ChatOK(c)
        BY DEF IngestInv, ChatsInv
    <2>2. QueueSame(c)
        BY <1>7, <1>8, <1>9, <1>12, <2>1, QueueUnchanged
    <2>3. Elsewhere(c)
        <3>1. c \in missed => c \in missed'
            BY <1>7, <1>8, <1>9
        <3> QED BY <1>2, <1>12, <3>1 DEF Elsewhere
    <2> QED BY <2>1, <2>2, <2>3, ElsewhereKeeps
<1>13. ChatOK(d)'
    <2>1. ChatOK(d)
        BY DEF IngestInv, ChatsInv
    <2>2. Held(d)' = Held(d) /\ (IsArchived(d)' <=> IsArchived(d)) /\ (Stale(d)' <=> Stale(d))
        BY DEF Held, IsArchived, Stale
    <2>3. QueueOK(updates', d, now)
        <3>1. CASE listening \/ channel = "whatsapp"
            BY <1>7, <3>1
        <3>2. CASE ~listening /\ channel = "telegram"
            BY <1>8, <3>2 DEF QueueOK, Own
        <3> QED BY <1>9, <3>1, <3>2
    <2>4. /\ archive[d].version \in Nat /\ page[d] \in Nat
          /\ archive[d].version <= message.version /\ page[d] <= message.version
        BY <1>1, <1>5, <2>1, IngestAssumption DEF ChatOK
    <2>5. /\ archive[d].version <= now.version /\ page[d] <= now.version
          /\ ~archive[d].deleted
        BY <1>5, <1>6, <2>1, <2>4 DEF ChatOK
    <2>6. kind = "new" => ~Stale(d)
        BY <1>5, <2>4 DEF Stale, IsArchived
    <2>7. ASSUME Stale(d), d \notin missed'
          PROVE  /\ PendingKind(updates', d, "edit") \/ Held(d) = now.version
                 /\ now.gone => PendingKind(updates', d, "delete")
        <3>1. listening \/ channel = "whatsapp"
            BY <1>8, <1>9, <2>7
        <3>2. CASE kind = "edit"
            BY <1>7, <3>1, <3>2
        <3>3. CASE kind = "delete"
            <4>1. PendingKind(updates, d, "edit") \/ Held(d) = message.version
                BY <1>5, <1>7, <2>1, <2>7, <3>1 DEF ChatOK
            <4> QED BY <1>5, <1>7, <3>1, <3>3, <4>1
        <3> QED BY <2>6, <2>7, <3>2, <3>3
    <2>8. channel = "telegram" /\ listening => PendingOf(updates', d)
        BY <1>7
    <2>9. IsArchived(d) /\ d \notin enqueueing \cup unqueued => archive[d].queued
        BY <2>1 DEF ChatOK
    <2> QED BY <1>2, <2>2, <2>3, <2>5, <2>7, <2>8, <2>9 DEF ChatOK
<1> QED BY <1>10, <1>11, <1>12, <1>13 DEF IngestInv, ChatsInv

\* The three things an author does are what AuthorKeeps says.
LEMMA AccountKeeps ==
    ASSUME IngestInv, NEW d \in Chats, Said(d) \/ Changed(d) \/ Removed(d)
    PROVE  IngestInv'
<1>1. source \in [Chats -> [version: 0..MaxVersion, gone: BOOLEAN]]
    BY DEF IngestInv, IngestTypeOK
<1>2. PICK old : old = source[d]
    OBVIOUS
<1>3. old \in [version: 0..MaxVersion, gone: BOOLEAN]
    BY <1>1, <1>2
<1>4. PICK v : v = old.version
    OBVIOUS
<1>5. v \in 0..MaxVersion /\ v \in Nat /\ old.gone \in BOOLEAN
    BY <1>3, <1>4, IngestAssumption
<1>6. CASE Said(d)
    <2>1. PICK now : now = [old EXCEPT !.version = 1]
        OBVIOUS
    <2>2. /\ now \in [version: 0..MaxVersion, gone: BOOLEAN]
          /\ now.version = 1 /\ now.gone = old.gone
        BY <1>3, <2>1, IngestAssumption
    <2>3. /\ source' = [source EXCEPT ![d] = now] /\ Notify("new", d, 1) /\ UNCHANGED unheard
          /\ v = 0
        BY <1>2, <1>4, <1>6, <2>1, Zenon DEF Said
    <2>4. ~source[d].gone
        BY <1>2, <1>4, <2>3 DEF IngestInv, ChatsInv, ChatOK
    <2>5. source[d].version = 0 /\ 0 <= now.version /\ now.version # 0
        BY <1>2, <1>4, <2>2, <2>3
    <2>6. PICK kind \in {"new", "edit", "delete"} : kind = "new"
        OBVIOUS
    <2>7. PICK w \in 0..MaxVersion : w = 1
        BY IngestAssumption
    <2>8. ~now.gone /\ w = now.version /\ kind # "edit" /\ kind # "delete" /\ Notify(kind, d, w)
        BY <1>2, <2>2, <2>3, <2>4, <2>6, <2>7
    <2>9. source[d].version <= now.version
        BY <2>5
    <2> HIDE <2>1
    <2> QED BY <2>2, <2>3, <2>4, <2>5, <2>6, <2>7, <2>8, <2>9, AuthorKeeps
<1>7. CASE Changed(d)
    <2>1. PICK now : now = [old EXCEPT !.version = v + 1]
        OBVIOUS
    <2>2. v \in 1..(MaxVersion - 1) /\ ~old.gone
        BY <1>2, <1>4, <1>7 DEF Changed
    <2>3. v + 1 \in 0..MaxVersion /\ v + 1 >= 2 /\ v + 1 # 0
        BY <1>5, <2>2, IngestAssumption
    <2>4. /\ now \in [version: 0..MaxVersion, gone: BOOLEAN]
          /\ now.version = v + 1 /\ now.gone = old.gone
        BY <1>3, <2>1, <2>3
    <2>5. /\ source' = [source EXCEPT ![d] = now] /\ Notify("edit", d, v + 1)
          /\ UNCHANGED unheard
        BY <1>2, <1>4, <1>7, <2>1, Zenon DEF Changed
    <2>6. ~source[d].gone /\ source[d].version <= now.version
        BY <1>2, <1>4, <1>5, <2>2, <2>4
    <2> QED BY <2>2, <2>3, <2>4, <2>5, <2>6, AuthorKeeps
<1>8. CASE Removed(d)
    <2>1. PICK now : now = [old EXCEPT !.gone = TRUE]
        OBVIOUS
    <2>2. /\ now \in [version: 0..MaxVersion, gone: BOOLEAN]
          /\ now.version = v /\ now.gone
        BY <1>3, <1>4, <2>1
    <2>3. /\ source' = [source EXCEPT ![d] = now] /\ Notify("delete", d, 0) /\ UNCHANGED unheard
          /\ v # 0 /\ ~source[d].gone
        BY <1>2, <1>4, <1>8, <2>1, Zenon DEF Removed
    <2>4. 0 \in 0..MaxVersion /\ source[d].version = now.version /\ source[d].version <= now.version
        BY <1>2, <1>4, <1>5, <2>2, IngestAssumption
    <2> QED BY <2>2, <2>3, <2>4, AuthorKeeps
<1> QED BY <1>6, <1>7, <1>8

\* An update nobody vouches for is queued as such.
LEMMA PretendedKeeps ==
    ASSUME IngestInv, NEW d \in Chats, NEW kind \in {"edit", "delete"}, Pretended(kind, d)
    PROVE  IngestInv'
<1> USE DEF Pretended, unheard, historyVars
<1> PICK u : u = [kind |-> kind, chat |-> d, version |-> Forged, own |-> FALSE]
    OBVIOUS
<1>1. u \in Update /\ ~u.own /\ u.kind # "new"
    <2>1. Forged \in 0..Forged
        BY IngestAssumption DEF Forged
    <2> QED BY <2>1 DEF Update
<1>2. updates \in Seq(Update) /\ updates' = Append(updates, u)
    BY DEF IngestInv, IngestTypeOK
<1>3. IngestTypeOK'
    <2>1. updates' \in Seq(Update)
        BY <1>1, <1>2
    <2> QED BY <2>1 DEF IngestInv, IngestTypeOK
<1>4. SessionInv'
    <2> PICK q : q = updates
        OBVIOUS
    <2>1. Grown(q, u, d, Append(q, u), Len(q) + 1)
        BY <1>1, <1>2, AppendPlaces
    <2>2. \A i \in DOMAIN updates' :
            ~updates'[i].own => channel = "whatsapp" /\ updates'[i].kind # "new"
        BY <1>1, <1>2, <2>1 DEF Grown, IngestInv, SessionInv
    <2> QED BY <2>2 DEF IngestInv, SessionInv
<1>5. ASSUME NEW c \in Chats PROVE ChatOK(c)'
    <2>1. ChatOK(c)
        BY DEF IngestInv, ChatsInv
    <2>2. QueueSame(c)
        BY <1>1, <1>2, <2>1, QueueGrows
    <2>3. Elsewhere(c)
        BY DEF Elsewhere
    <2> QED BY <2>1, <2>2, <2>3, ElsewhereKeeps
<1> QED BY <1>3, <1>4, <1>5 DEF IngestInv, ChatsInv

-----------------------------------------------------------------------------
(* The session and its history.                                            *)

\* What a sender is called, and a session that opens, change no row.
LEMMA OpeningKeeps == ASSUME IngestInv, Resolved \/ Listen PROVE IngestInv'
<1>1. UNCHANGED <<channel, source, updates, page, archiveVars>>
    BY DEF Resolved, Listen, historyVars
<1>2. IngestTypeOK'
    <2>1. /\ listening' \in BOOLEAN /\ backfilled' \in BOOLEAN /\ resolved' \in BOOLEAN
          /\ todo' \subseteq Chats
        BY DEF Resolved, Listen, historyVars, IngestInv, IngestTypeOK
    <2> QED BY <1>1, <2>1 DEF IngestInv, IngestTypeOK, archiveVars
<1>3. SessionInv'
    <2>1. CASE Resolved
        BY <1>1, <2>1 DEF Resolved, historyVars, IngestInv, SessionInv
    <2>2. CASE Listen
        BY <1>1, <2>2 DEF Listen, IngestInv, SessionInv
    <2> QED BY <2>1, <2>2
<1>4. ASSUME NEW c \in Chats PROVE ChatOK(c)'
    <2>1. ChatOK(c)
        BY DEF IngestInv, ChatsInv
    <2>2. CASE Resolved
        <3>1. QueueSame(c) /\ Elsewhere(c)
            BY <1>1, <2>1, <2>2, QueueUnchanged DEF Resolved, historyVars, archiveVars, Elsewhere
        <3> QED BY <1>1, <2>1, <2>2, <3>1, ElsewhereKeeps DEF Resolved
    <2>3. CASE Listen
        <3>1. c \in todo'
            BY <2>3 DEF Listen
        <3>2. Held(c)' = Held(c) /\ (IsArchived(c)' <=> IsArchived(c)) /\ (Stale(c)' <=> Stale(c))
            BY <1>1 DEF Held, IsArchived, Stale, archiveVars
        <3> QED BY <1>1, <2>1, <3>1, <3>2 DEF ChatOK, archiveVars
    <2> QED BY <2>2, <2>3
<1> QED BY <1>2, <1>3, <1>4 DEF IngestInv, ChatsInv

\* A session that ends drops its queue: what that made stale is missed.
LEMMA UnlistenKeeps == ASSUME IngestInv, SessionEnds \/ WorkerDies PROVE IngestInv'
<1> USE DEF SessionEnds, WorkerDies, Unlisten
<1>1. /\ listening' = FALSE /\ updates' = <<>> /\ page' = [c \in Chats |-> 0] /\ todo' = {}
      /\ missed' = missed \cup {c \in Lost : IsArchived(c)}
      /\ UNCHANGED <<channel, source, backfilled, resolved, archive>>
      /\ enqueueing' \cup unqueued' = enqueueing \cup unqueued
    OBVIOUS
<1>2. updates \in Seq(Update) /\ Lost \subseteq Chats
    <2>1. updates \in Seq(Update)
        BY DEF IngestInv, IngestTypeOK
    <2>2. \A i \in DOMAIN updates : updates[i] \in Update
        BY <2>1
    <2> QED BY <2>1, <2>2 DEF Lost, Update
<1>3. IngestTypeOK'
    <2>1. listening' \in BOOLEAN
        BY <1>1
    <2>2. page' \in [Chats -> 0..MaxVersion]
        BY <1>1, IngestAssumption
    <2>3. missed' \subseteq Chats
        BY <1>1, <1>2 DEF IngestInv, IngestTypeOK
    <2>4. enqueueing' \subseteq Chats /\ unqueued' \subseteq Chats
        BY DEF IngestInv, IngestTypeOK
    <2>5. updates' \in Seq(Update) /\ todo' \subseteq Chats
        BY <1>1
    <2> HIDE DEF SessionEnds, WorkerDies, Unlisten
    <2>6. UNCHANGED <<channel, source, backfilled, resolved, archive>>
        BY <1>1
    <2> QED BY <2>1, <2>2, <2>3, <2>4, <2>5, <2>6 DEF IngestInv, IngestTypeOK
<1> HIDE DEF SessionEnds, WorkerDies, Unlisten
<1>4. SessionInv'
    BY <1>1 DEF SessionInv
<1>5. ASSUME NEW c \in Chats PROVE ChatOK(c)'
    <2>1. ChatOK(c)
        BY DEF IngestInv, ChatsInv
    <2>2. /\ \A m : QueueOK(updates', c, m) /\ ~PendingOf(updates', c)
          /\ page'[c] = 0 /\ (IsArchived(c)' <=> IsArchived(c))
        BY <1>1 DEF QueueOK, PendingOf, IsArchived
    <2>3. source[c].version \in Nat
        BY IngestAssumption DEF IngestInv, IngestTypeOK
    <2>4. ASSUME Stale(c)', c \notin missed'
          PROVE  /\ Held(c)' = source[c].version
                 /\ source[c].gone => archive[c].deleted
        <3>1. IsArchived(c) /\ c \notin missed /\ c \notin Lost
            BY <1>1, <2>2, <2>4 DEF Stale
        <3>2. ~PendingKind(updates, c, "edit") /\ ~PendingKind(updates, c, "delete")
            BY <3>1 DEF PendingKind, Own, Lost
        <3>3. Held(c) = source[c].version /\ (source[c].gone => archive[c].deleted)
            BY <2>1, <3>1, <3>2 DEF ChatOK, Stale
        <3> QED BY <1>1, <2>2, <3>1, <3>3 DEF Held
    <2>5. IsArchived(c) /\ c \notin enqueueing' \cup unqueued' => archive[c].queued
        BY <1>1, <2>1 DEF ChatOK
    <2>6. /\ source[c].gone => source[c].version # 0
          /\ archive[c].version <= source[c].version /\ 0 <= source[c].version
          /\ archive[c].deleted => source[c].gone /\ IsArchived(c)
        BY <2>1, <2>3 DEF ChatOK
    <2> QED BY <1>1, <2>2, <2>4, <2>5, <2>6 DEF ChatOK
<1> QED BY <1>3, <1>4, <1>5 DEF IngestInv, ChatsInv

-----------------------------------------------------------------------------
(* Rows.                                                                   *)

ArchiveRow == [version: 0..MaxVersion, deleted: BOOLEAN,
               sender: {"none", "lid", "number"}, queued: BOOLEAN]

\* What a message is stored as.
LEMMA NewRowIs ==
    ASSUME NEW v \in 1..MaxVersion
    PROVE  NewRow(v) \in ArchiveRow /\ NewRow(v).version = v /\ ~NewRow(v).deleted
<1>1. v \in 0..MaxVersion
    BY IngestAssumption
<1>2. SenderName \in {"none", "lid", "number"}
    BY DEF SenderName
<1> QED BY <1>1, <1>2 DEF NewRow, ArchiveRow

\* The first writer of a row wins.
LEMMA FirstWriterWins ==
    ASSUME archive \in [Chats -> ArchiveRow], NEW c \in Chats, NEW v \in 1..MaxVersion
    PROVE  /\ Recorded(c, v) \in [Chats -> ArchiveRow]
           /\ \A d \in Chats : d # c \/ IsArchived(c) => Recorded(c, v)[d] = archive[d]
           /\ ~IsArchived(c) => Recorded(c, v)[c] = NewRow(v)
BY NewRowIs DEF Recorded

\* A row just written is as old as what it was written from.
LEMMA FreshRowKeeps ==
    ASSUME NEW c \in Chats, NEW v \in 1..source[c].version, source[c].version \in 0..MaxVersion,
           QueueOK(updates', c, source[c]), source' = source, page'[c] <= source[c].version,
           archive'[c] = NewRow(v), c \in enqueueing' \cup unqueued',
           c \notin missed' =>
                /\ PendingKind(updates', c, "edit") \/ v = source[c].version
                /\ source[c].gone => PendingKind(updates', c, "delete")
    PROVE  ChatOK(c)'
<1>1. v \in 1..MaxVersion /\ v <= source[c].version /\ source[c].version # 0 /\ v # 0
    BY IngestAssumption
<1>2. archive'[c].version = v /\ ~archive'[c].deleted
    BY <1>1, NewRowIs
<1>3. IsArchived(c)' /\ Held(c)' = v
    BY <1>1, <1>2 DEF IsArchived, Held
<1> QED BY <1>1, <1>2, <1>3 DEF ChatOK

\* A row's attachment is queued after the row is written.
LEMMA EnqueueKeeps == ASSUME IngestInv, NEW d \in Chats, Enqueue(d) PROVE IngestInv'
<1>1. /\ UNCHANGED <<channel, source, listening, updates, todo, page, backfilled, resolved,
                     missed, unqueued>>
      /\ archive' = [archive EXCEPT ![d].queued = TRUE] /\ enqueueing' = enqueueing \ {d}
    BY DEF Enqueue, historyVars
<1>2. archive \in [Chats -> ArchiveRow]
    BY DEF IngestInv, IngestTypeOK, ArchiveRow
<1>3. /\ archive' \in [Chats -> ArchiveRow] /\ archive'[d].queued
      /\ archive'[d].version = archive[d].version /\ archive'[d].deleted = archive[d].deleted
      /\ \A c \in Chats : c # d => archive'[c] = archive[c]
    <2>1. PICK row : row = [archive[d] EXCEPT !.queued = TRUE]
        OBVIOUS
    <2>2. archive[d] \in ArchiveRow
        BY <1>2
    <2>3. /\ row \in ArchiveRow /\ row.version = archive[d].version
          /\ row.deleted = archive[d].deleted /\ row.queued
        BY <2>1, <2>2 DEF ArchiveRow
    <2>4. archive' = [archive EXCEPT ![d] = row]
        BY <1>1, <2>1, Zenon
    <2> QED BY <1>2, <2>3, <2>4
<1>4. IngestTypeOK'
    <2>1. enqueueing' \subseteq Chats
        BY <1>1 DEF IngestInv, IngestTypeOK
    <2> QED BY <1>1, <1>3, <2>1 DEF IngestInv, IngestTypeOK, ArchiveRow
<1>5. SessionInv'
    BY <1>1 DEF IngestInv, SessionInv
<1>6. ASSUME NEW c \in Chats PROVE ChatOK(c)'
    <2>1. ChatOK(c)
        BY DEF IngestInv, ChatsInv
    <2>2. CASE c # d
        <3>1. QueueSame(c) /\ Elsewhere(c)
            BY <1>1, <1>3, <2>1, <2>2, QueueUnchanged DEF Elsewhere
        <3> QED BY <1>1, <2>1, <3>1, ElsewhereKeeps
    <2>3. CASE c = d
        <3>1. Held(c)' = Held(c) /\ (IsArchived(c)' <=> IsArchived(c)) /\ (Stale(c)' <=> Stale(c))
            BY <1>1, <1>3, <2>3 DEF Held, IsArchived, Stale
        <3> QED BY <1>1, <1>3, <2>1, <2>3, <3>1 DEF ChatOK
    <2> QED BY <2>2, <2>3
<1> QED BY <1>4, <1>5, <1>6 DEF IngestInv, ChatsInv

\* A page is as old as the moment it was read.
LEMMA FetchPageKeeps == ASSUME IngestInv, NEW d \in Chats, FetchPage(d) PROVE IngestInv'
<1>1. /\ UNCHANGED <<channel, source, listening, updates, backfilled, resolved, archive,
                     enqueueing, missed, unqueued>>
      /\ listening /\ d \in todo /\ todo' = todo \ {d}
      /\ page' = [page EXCEPT ![d] = IF source[d].gone THEN 0 ELSE source[d].version]
    BY DEF FetchPage, archiveVars
<1>2. /\ source \in [Chats -> [version: 0..MaxVersion, gone: BOOLEAN]]
      /\ page \in [Chats -> 0..MaxVersion] /\ todo \subseteq Chats
    BY DEF IngestInv, IngestTypeOK
<1>3. source[d].version \in 0..MaxVersion /\ source[d].version \in Nat
    BY <1>2, IngestAssumption
<1>4. PICK fetched : fetched = IF source[d].gone THEN 0 ELSE source[d].version
    OBVIOUS
<1>5. fetched \in 0..MaxVersion /\ fetched <= source[d].version
    BY <1>3, <1>4, IngestAssumption
<1>6. /\ page' \in [Chats -> 0..MaxVersion] /\ page'[d] = fetched
      /\ \A c \in Chats : c # d => page'[c] = page[c]
    BY <1>1, <1>2, <1>4, <1>5
<1>7. IngestTypeOK'
    <2>1. todo' \subseteq Chats
        BY <1>1, <1>2
    <2> QED BY <1>1, <1>6, <2>1 DEF IngestInv, IngestTypeOK
<1>8. SessionInv'
    BY <1>1 DEF IngestInv, SessionInv
<1>9. ASSUME NEW c \in Chats PROVE ChatOK(c)'
    <2>1. ChatOK(c)
        BY DEF IngestInv, ChatsInv
    <2>2. CASE c # d
        <3>1. QueueSame(c) /\ Elsewhere(c)
            BY <1>1, <1>6, <2>1, <2>2, QueueUnchanged DEF Elsewhere
        <3> QED BY <1>1, <2>1, <3>1, ElsewhereKeeps
    <2>3. CASE c = d
        <3>1. (IsArchived(c)' <=> IsArchived(c)) /\
                  (IsArchived(c) => Held(c)' = Held(c) /\ Stale(c))
            BY <1>1 DEF Held, IsArchived, Stale
        <3>2. ~IsArchived(c) => Held(c)' = fetched /\ (Stale(c)' <=> fetched # 0)
            BY <1>1, <1>6, <2>3, <3>1 DEF Held, IsArchived, Stale
        <3>3. Stale(c)' /\ c \notin missed =>
                /\ PendingKind(updates, c, "edit") \/ Held(c)' = source[c].version
                /\ source[c].gone => archive[c].deleted \/ PendingKind(updates, c, "delete")
            BY <1>4, <2>1, <2>3, <3>1, <3>2 DEF ChatOK
        <3>4. source[c].version # 0 /\ ~source[c].gone => page'[c] # 0
            BY <1>4, <1>6, <2>3
        <3> QED BY <1>1, <1>5, <1>6, <2>1, <2>3, <3>1, <3>3, <3>4 DEF ChatOK
    <2> QED BY <2>2, <2>3
<1> QED BY <1>7, <1>8, <1>9 DEF IngestInv, ChatsInv

\* A row written from a page is as old as the page.
LEMMA RecordPageKeeps == ASSUME IngestInv, NEW d \in Chats, RecordPage(d) PROVE IngestInv'
<1>1. /\ UNCHANGED <<channel, source, listening, updates, todo, backfilled, resolved, missed,
                     unqueued>>
      /\ listening /\ page[d] # 0 /\ page' = [page EXCEPT ![d] = 0]
      /\ archive' = Recorded(d, page[d])
      /\ enqueueing' = IF IsArchived(d) THEN enqueueing ELSE enqueueing \cup {d}
    BY DEF RecordPage, Record
<1>2. /\ source \in [Chats -> [version: 0..MaxVersion, gone: BOOLEAN]]
      /\ page \in [Chats -> 0..MaxVersion] /\ archive \in [Chats -> ArchiveRow]
    BY DEF IngestInv, IngestTypeOK, ArchiveRow
<1>3. source[d].version \in 0..MaxVersion /\ source[d].version \in Nat
    BY <1>2, IngestAssumption
<1>4. PICK v : v = page[d]
    OBVIOUS
<1>5. v \in 1..MaxVersion /\ v \in 1..source[d].version
    <2>1. v \in 0..MaxVersion /\ v # 0
        BY <1>1, <1>2, <1>4
    <2>2. v <= source[d].version
        BY <1>4 DEF IngestInv, ChatsInv, ChatOK
    <2> QED BY <1>3, <2>1, <2>2, IngestAssumption
<1>6. /\ page' \in [Chats -> 0..MaxVersion] /\ page'[d] = 0
      /\ \A c \in Chats : c # d => page'[c] = page[c]
    BY <1>1, <1>2, IngestAssumption
<1>7. /\ archive' \in [Chats -> ArchiveRow]
      /\ \A c \in Chats : c # d \/ IsArchived(d) => archive'[c] = archive[c]
      /\ ~IsArchived(d) => archive'[d] = NewRow(v)
    BY <1>1, <1>2, <1>4, <1>5, FirstWriterWins
<1>8. IngestTypeOK'
    <2>1. enqueueing' \subseteq Chats
        BY <1>1 DEF IngestInv, IngestTypeOK
    <2> QED BY <1>1, <1>6, <1>7, <2>1 DEF IngestInv, IngestTypeOK, ArchiveRow
<1>9. SessionInv'
    <2>1. channel' = "telegram" /\ listening' /\ backfilled' => todo' = {}
              /\ \A c \in Chats : page'[c] = 0
        BY <1>1, <1>6 DEF IngestInv, SessionInv
    <2> QED BY <1>1, <2>1 DEF IngestInv, SessionInv
<1>10. ASSUME NEW c \in Chats PROVE ChatOK(c)'
    <2>1. ChatOK(c)
        BY DEF IngestInv, ChatsInv
    <2>2. CASE c # d
        <3>1. QueueSame(c) /\ Elsewhere(c)
            BY <1>1, <1>6, <1>7, <2>1, <2>2, QueueUnchanged DEF Elsewhere
        <3> QED BY <1>1, <2>1, <3>1, ElsewhereKeeps
    <2>3. CASE c = d /\ IsArchived(d)
        <3>1. archive'[c] = archive[c] /\ IsArchived(c)' /\ Held(c)' = Held(c) /\ Stale(c)
            BY <1>7, <2>3 DEF Held, IsArchived, Stale
        <3>2. page'[c] <= source[c].version
            BY <1>3, <1>6, <2>3
        <3> QED BY <1>1, <2>1, <2>3, <3>1, <3>2 DEF ChatOK
    <2>4. CASE c = d /\ ~IsArchived(d)
        <3>1. QueueOK(updates', c, source[c]) /\ page'[c] <= source[c].version
            BY <1>1, <1>3, <1>6, <2>1, <2>4 DEF ChatOK
        <3>2. c \in enqueueing' \cup unqueued'
            BY <1>1, <2>4
        <3>3. c \notin missed' =>
                /\ PendingKind(updates', c, "edit") \/ v = source[c].version
                /\ source[c].gone => PendingKind(updates', c, "delete")
            BY <1>1, <1>4, <2>1, <2>4 DEF ChatOK, Stale, Held
        <3> QED BY <1>1, <1>3, <1>5, <1>7, <2>4, <3>1, <3>2, <3>3, FreshRowKeeps
    <2> QED BY <2>2, <2>3, <2>4
<1> QED BY <1>8, <1>9, <1>10 DEF IngestInv, ChatsInv

\* A history read to its end left no page on its way.
LEMMA BackfillDoneKeeps == ASSUME IngestInv, BackfillDone PROVE IngestInv'
<1>1. /\ UNCHANGED <<channel, source, listening, updates, todo, page, resolved, archiveVars>>
      /\ backfilled' \in BOOLEAN
      /\ channel = "telegram" => todo = {} /\ \A c \in Chats : page[c] = 0
    BY DEF BackfillDone
<1>2. IngestTypeOK'
    <2>1. backfilled' \in BOOLEAN
        BY <1>1
    <2>2. /\ UNCHANGED <<channel, source, listening, updates, todo, page, resolved>>
          /\ UNCHANGED <<archive, enqueueing, missed, unqueued>>
        BY <1>1 DEF archiveVars
    <2> QED BY <2>1, <2>2 DEF IngestInv, IngestTypeOK
<1>3. SessionInv'
    BY <1>1 DEF BackfillDone, IngestInv, SessionInv
<1>4. ASSUME NEW c \in Chats PROVE ChatOK(c)'
    <2>1. ChatOK(c)
        BY DEF IngestInv, ChatsInv
    <2>2. QueueSame(c) /\ Elsewhere(c)
        BY <1>1, <2>1, QueueUnchanged DEF Elsewhere, archiveVars
    <2> QED BY <1>1, <2>1, <2>2, ElsewhereKeeps
<1> QED BY <1>2, <1>3, <1>4 DEF IngestInv, ChatsInv

-----------------------------------------------------------------------------
(* A live update.                                                          *)

\* What handling its author's update u makes of the row of u's chat c: nothing,
\* the row it was waiting for, its new text, its tombstone, or a gap that is
\* remembered when there was anything to correct.
Effect(c, u) ==
    \/ IsArchived(c) /\ archive'[c] = archive[c] /\ u.kind = "new"
    \/ /\ ~IsArchived(c) /\ u.kind # "delete"
       /\ archive'[c] = NewRow(u.version) /\ c \in enqueueing' \cup unqueued'
    \/ /\ IsArchived(c) /\ u.kind = "edit"
       /\ archive'[c].version = u.version /\ archive'[c].deleted = archive[c].deleted
       /\ archive'[c].queued = archive[c].queued
    \/ /\ IsArchived(c) /\ u.kind = "delete" /\ archive'[c].deleted
       /\ archive'[c].version = archive[c].version /\ archive'[c].queued = archive[c].queued
    \/ /\ archive'[c] = archive[c] /\ u.kind # "new"
       /\ Stale(c) => c \in missed'
       /\ u.kind = "edit" => channel = "whatsapp"

\* Of the rows only the one of the update's own chat is touched, and that one
\* only by its author.
Touches(u) ==
    /\ archive' \in [Chats -> ArchiveRow]
    /\ missed \subseteq missed' /\ missed' \subseteq Chats
    /\ enqueueing \subseteq enqueueing' /\ enqueueing' \subseteq Chats
    /\ unqueued \subseteq unqueued' /\ unqueued' \subseteq Chats
    /\ \A d \in Chats : d # u.chat \/ ~u.own => archive'[d] = archive[d]
    /\ u.own => Effect(u.chat, u)

\* The head of the queue, and the chat it is about.
LEMMA HeadOfQueue ==
    ASSUME IngestInv, updates # <<>>, NEW u, u = Head(updates)
    PROVE  /\ u \in Update /\ u.chat \in Chats /\ u = updates[1]
           /\ u.kind \in {"new", "edit", "delete"}
           /\ u.own => Own(updates, u.chat, 1)
           /\ ~u.own => channel = "whatsapp" /\ u.kind # "new"
           /\ u.own /\ u.kind # "delete" =>
                u.version \in 1..source[u.chat].version /\ u.version \in 1..MaxVersion
           /\ u.own => ~archive[u.chat].deleted
<1> PICK q : q = updates
    OBVIOUS
<1>1. q \in Seq(Update) /\ q # <<>> /\ u = Head(q)
    BY DEF IngestInv, IngestTypeOK
<1>2. Head(q) = q[1] /\ 1 \in DOMAIN q /\ u \in Update
    BY <1>1, TailPlaces
<1>3. u.chat \in Chats /\ u.kind \in {"new", "edit", "delete"}
    BY <1>2 DEF Update
<1> PICK c : c = u.chat
    OBVIOUS
<1> PICK message : message = source[c]
    OBVIOUS
<1>4. u.own => Own(q, c, 1) /\ PendingOf(q, c)
    BY <1>1, <1>2 DEF Own, PendingOf
<1>5. message.version \in 0..MaxVersion /\ message.version \in Nat
    <2>1. message.version \in 0..MaxVersion
        BY <1>3 DEF IngestInv, IngestTypeOK
    <2> QED BY <2>1, IngestAssumption
<1>6. QueueOK(q, c, message) /\ (archive[c].deleted => ~PendingOf(q, c))
    BY <1>3 DEF IngestInv, ChatsInv, ChatOK
<1>7. ~u.own => channel = "whatsapp" /\ u.kind # "new"
    BY <1>1, <1>2 DEF IngestInv, SessionInv
<1>8. u.own /\ u.kind # "delete" => u.version \in 1..message.version
    BY <1>1, <1>2, <1>4, <1>5, <1>6, HeadSays
<1>9. u.own /\ u.kind # "delete" => u.version \in 1..MaxVersion
    BY <1>5, <1>8, IngestAssumption
<1> QED BY <1>1, <1>2, <1>3, <1>4, <1>6, <1>7, <1>8, <1>9

\* A new message.
LEMMA RecordTouches ==
    ASSUME IngestInv, NEW u, u = Head(updates), updates # <<>>, u.kind = "new",
           Record(u.chat, u.version)
    PROVE  Touches(u)
<1>1. u.chat \in Chats /\ u.own /\ u.version \in 1..MaxVersion
    BY HeadOfQueue
<1>2. archive \in [Chats -> ArchiveRow]
    BY DEF IngestInv, IngestTypeOK, ArchiveRow
<1> PICK c, v : c = u.chat /\ v = u.version
    OBVIOUS
<1>3. /\ archive' \in [Chats -> ArchiveRow]
      /\ \A d \in Chats : d # c \/ IsArchived(c) => archive'[d] = archive[d]
      /\ ~IsArchived(c) => archive'[c] = NewRow(v)
    BY <1>1, <1>2, FirstWriterWins DEF Record
<1>4. /\ missed' = missed /\ unqueued' = unqueued
      /\ enqueueing' = IF IsArchived(c) THEN enqueueing ELSE enqueueing \cup {c}
    BY DEF Record
<1>5. Effect(c, u)
    BY <1>1, <1>3, <1>4 DEF Effect
<1> QED BY <1>1, <1>3, <1>4, <1>5 DEF Touches, IngestInv, IngestTypeOK

\* An edit: a text that is corrected, a row that is written, or a gap.
LEMMA EditTouches ==
    ASSUME IngestInv, NEW u, u = Head(updates), updates # <<>>, u.kind = "edit", Edit(u.chat, u)
    PROVE  Touches(u)
<1>1. /\ u.chat \in Chats /\ u.own \in BOOLEAN
      /\ u.own => u.version \in 1..MaxVersion /\ ~archive[u.chat].deleted
      /\ ~u.own => channel = "whatsapp"
    <2>1. u \in Update
        BY HeadOfQueue
    <2>2. u.own \in BOOLEAN
        BY <2>1 DEF Update
    <2> QED BY <2>2, HeadOfQueue
<1>2. archive \in [Chats -> ArchiveRow] /\ channel \in {"telegram", "whatsapp"}
    BY DEF IngestInv, IngestTypeOK, ArchiveRow
<1> PICK c, v : c = u.chat /\ v = u.version
    OBVIOUS
<1>3. CASE Matches(c, u.own)
    <2>1. u.own
        BY <1>1, <1>3 DEF Matches, Authored
    <2>2. IsArchived(c)
        BY <1>3 DEF Matches
    <2>3. PICK row : row = [archive[c] EXCEPT !.version = v]
        OBVIOUS
    <2>4. archive[c] \in ArchiveRow /\ v \in 0..MaxVersion
        BY <1>1, <1>2, <2>1, IngestAssumption
    <2>5. /\ row \in ArchiveRow /\ row.version = v
          /\ row.deleted = archive[c].deleted /\ row.queued = archive[c].queued
        BY <2>3, <2>4 DEF ArchiveRow
    <2>6. archive' = [archive EXCEPT ![c] = row] /\ UNCHANGED <<missed, unqueued, enqueueing>>
        BY <1>3, <2>3, Zenon DEF Edit
    <2>7. /\ archive' \in [Chats -> ArchiveRow] /\ archive'[c] = row
          /\ \A d \in Chats : d # c => archive'[d] = archive[d]
        BY <1>1, <1>2, <2>5, <2>6
    <2>8. Effect(c, u)
        BY <2>2, <2>5, <2>7 DEF Effect
    <2> QED BY <2>1, <2>6, <2>7, <2>8 DEF Touches, IngestInv, IngestTypeOK
<1>4. CASE ~Matches(c, u.own) /\ channel = "telegram"
    <2>1. u.own /\ ~IsArchived(c)
        BY <1>1, <1>4 DEF Matches, Authored
    <2>2. /\ archive' = Recorded(c, v) /\ unqueued' = unqueued \cup {c}
          /\ UNCHANGED <<missed, enqueueing>>
        BY <1>4, <2>1 DEF Edit, EditUnmatched
    <2>3. /\ archive' \in [Chats -> ArchiveRow] /\ archive'[c] = NewRow(v)
          /\ \A d \in Chats : d # c => archive'[d] = archive[d]
        BY <1>1, <1>2, <2>1, <2>2, FirstWriterWins
    <2>4. Effect(c, u)
        BY <2>1, <2>2, <2>3 DEF Effect
    <2> QED BY <1>1, <2>1, <2>2, <2>3, <2>4 DEF Touches, IngestInv, IngestTypeOK
<1>5. CASE ~Matches(c, u.own) /\ channel = "whatsapp"
    <2>1. /\ missed' = IF u.own /\ Stale(c) THEN missed \cup {c} ELSE missed
          /\ UNCHANGED <<archive, unqueued, enqueueing>>
        BY <1>5 DEF Edit, EditUnmatched
    <2>2. u.own => Effect(c, u)
        BY <1>5, <2>1 DEF Effect
    <2> QED BY <1>1, <1>2, <2>1, <2>2 DEF Touches, IngestInv, IngestTypeOK
<1> QED BY <1>2, <1>3, <1>4, <1>5

\* A delete: a tombstone, or a gap.
LEMMA DeleteTouches ==
    ASSUME IngestInv, NEW u, u = Head(updates), updates # <<>>, u.kind = "delete",
           Delete(u.chat, u)
    PROVE  Touches(u)
<1>1. /\ u.chat \in Chats /\ u.own \in BOOLEAN
      /\ ~u.own => channel = "whatsapp"
    <2>1. u \in Update
        BY HeadOfQueue
    <2>2. u.own \in BOOLEAN
        BY <2>1 DEF Update
    <2> QED BY <2>2, HeadOfQueue
<1>2. archive \in [Chats -> ArchiveRow]
    BY DEF IngestInv, IngestTypeOK, ArchiveRow
<1> PICK c : c = u.chat
    OBVIOUS
<1>3. \A d \in Chats : archive'[d] = IF d = c /\ Matches(d, u.own)
                                      THEN [archive[d] EXCEPT !.deleted = TRUE] ELSE archive[d]
    <2>1. \A d \in Chats : archive'[d] = IF d \in Targets(c) /\ Matches(d, u.own)
                                      THEN [archive[d] EXCEPT !.deleted = TRUE] ELSE archive[d]
        BY Zenon DEF Delete
    <2>2. \A d : d \in Targets(c) <=> d = c
        BY <1>1, OneTarget
    <2> QED BY <2>1, <2>2, Zenon
<1>4. /\ archive' \in [Chats -> ArchiveRow]
      /\ archive'[c].version = archive[c].version /\ archive'[c].queued = archive[c].queued
      /\ \A d \in Chats : d # c \/ ~Matches(c, u.own) => archive'[d] = archive[d]
    <2>1. archive' = [d \in Chats |-> archive'[d]]
        BY Zenon DEF Delete
    <2>2. \A r \in ArchiveRow : LET b == [r EXCEPT !.deleted = TRUE] IN
            b \in ArchiveRow /\ b.version = r.version /\ b.queued = r.queued /\ b.deleted
        BY DEF ArchiveRow
    <2>3. \A d \in Chats : archive'[d] \in ArchiveRow
        BY <1>2, <1>3, <2>2
    <2>4. archive'[c].version = archive[c].version /\ archive'[c].queued = archive[c].queued
        <3>1. PICK row : row = archive[c]
            OBVIOUS
        <3>2. PICK b : b = [row EXCEPT !.deleted = TRUE]
            OBVIOUS
        <3>3. row \in ArchiveRow /\ b.version = row.version /\ b.queued = row.queued
            BY <1>1, <1>2, <2>2, <3>1, <3>2
        <3>4. archive'[c] = row \/ archive'[c] = b
            BY <1>1, <1>3, <3>1, <3>2, Zenon
        <3> QED BY <3>1, <3>3, <3>4
    <2> QED BY <1>3, <2>1, <2>3, <2>4
<1>5. /\ missed' = IF u.own /\ ~Matches(c, TRUE) /\ Stale(c) THEN missed \cup {c} ELSE missed
      /\ UNCHANGED <<enqueueing, unqueued>>
    BY DEF Delete
<1>6. ~u.own => ~Matches(c, u.own)
    BY <1>1, Zenon DEF Matches, Authored
<1>7. ASSUME u.own PROVE Effect(c, u)
    <2>1. u.own = TRUE
        BY <1>1, <1>7
    <2>2. CASE Matches(c, u.own)
        <3>1. IsArchived(c)
            BY <2>2 DEF Matches
        <3>2. PICK row : row = archive[c]
            OBVIOUS
        <3>3. PICK b : b = [row EXCEPT !.deleted = TRUE]
            OBVIOUS
        <3>4. row \in ArchiveRow
            BY <1>1, <1>2, <3>2
        <3>5. b.deleted
            BY <3>3, <3>4 DEF ArchiveRow
        <3>6. archive'[c] = b
            BY <1>1, <1>3, <2>2, <3>2, <3>3, Zenon
        <3> QED BY <1>4, <3>1, <3>5, <3>6 DEF Effect
    <2>3. CASE ~Matches(c, u.own)
        <3>1. ~Matches(c, TRUE)
            BY <2>1, <2>3, Zenon
        <3>2. archive'[c] = archive[c]
            BY <1>1, <1>4, <2>3
        <3>3. Stale(c) => c \in missed'
            BY <1>5, <1>7, <3>1, Zenon
        <3> QED BY <3>2, <3>3 DEF Effect
    <2> QED BY <2>2, <2>3
<1>8. missed \subseteq missed' /\ missed' \subseteq Chats
    <2>1. missed' = missed \/ missed' = missed \cup {c}
        BY <1>5, Zenon
    <2> QED BY <1>1, <2>1 DEF IngestInv, IngestTypeOK
<1> QED BY <1>1, <1>4, <1>5, <1>6, <1>7, <1>8 DEF Touches, IngestInv, IngestTypeOK

\* What its author's update makes of a row keeps the row in step with the
\* message: the queue that is left holds what the row still lacks.
LEMMA EffectKeeps ==
    ASSUME IngestInv, updates # <<>>, NEW u, u = Head(updates), u.own, Effect(u.chat, u),
           Touches(u),
           updates' = Tail(updates), UNCHANGED <<channel, source, listening, historyVars>>
    PROVE  ChatOK(u.chat)'
<1> PICK q, c : q = updates /\ c = u.chat
    OBVIOUS
<1> PICK message : message = source[c]
    OBVIOUS
<1>1. /\ c \in Chats /\ u = q[1] /\ Own(q, c, 1) /\ ~archive[c].deleted
      /\ u.kind \in {"new", "edit", "delete"}
      /\ u.kind # "delete" => u.version \in 1..message.version
    BY HeadOfQueue
<1>2. q \in Seq(Update) /\ q # <<>> /\ channel \in {"telegram", "whatsapp"}
    BY DEF IngestInv, IngestTypeOK
<1>3. /\ ChatOK(c) /\ QueueOK(q, c, message)
      /\ message.version \in 0..MaxVersion /\ message.version \in Nat
    <2>1. ChatOK(c)
        BY <1>1 DEF IngestInv, ChatsInv
    <2>2. message.version \in 0..MaxVersion
        BY <1>1 DEF IngestInv, IngestTypeOK
    <2> QED BY <2>1, <2>2, IngestAssumption DEF ChatOK
<1>4. QueueOK(updates', c, message)
    BY <1>2, <1>3, TailQueue
<1>5. /\ u.kind = "delete" => message.gone /\ ~PendingOf(updates', c)
      /\ u.kind # "delete" =>
            /\ PendingKind(updates', c, "edit") \/ u.version = message.version
            /\ message.gone => PendingKind(updates', c, "delete")
    BY <1>1, <1>2, <1>3, HeadSays
<1>6. \A kind : u.kind # kind => (PendingKind(q, c, kind) => PendingKind(updates', c, kind))
    BY <1>1, <1>2, TailPending
<1>7. /\ source' = source /\ page' = page /\ channel' = channel
      /\ missed \subseteq missed' /\ enqueueing \cup unqueued \subseteq enqueueing' \cup unqueued'
    BY DEF Touches, historyVars
<1>8. page[c] <= message.version /\ archive[c].version <= message.version
      /\ (message.gone => message.version # 0)
    BY <1>3 DEF ChatOK
<1>9. Stale(c) /\ c \notin missed =>
        /\ PendingKind(q, c, "edit") \/ Held(c) = message.version
        /\ message.gone => PendingKind(q, c, "delete")
    BY <1>1, <1>3 DEF ChatOK
<1>10. IsArchived(c) /\ c \notin enqueueing' \cup unqueued' => archive[c].queued
    BY <1>3, <1>7 DEF ChatOK
<1>11. CASE IsArchived(c) /\ archive'[c] = archive[c] /\ u.kind = "new"
    <2>1. IsArchived(c)' /\ Held(c)' = Held(c) /\ Stale(c)
        BY <1>11 DEF IsArchived, Held, Stale
    <2>2. c \notin missed' =>
            /\ PendingKind(updates', c, "edit") \/ Held(c)' = message.version
            /\ message.gone => PendingKind(updates', c, "delete")
        BY <1>5, <1>6, <1>7, <1>9, <1>11, <2>1
    <2> QED BY <1>1, <1>4, <1>7, <1>8, <1>10, <1>11, <2>1, <2>2 DEF ChatOK
<1>12. CASE /\ ~IsArchived(c) /\ u.kind # "delete"
            /\ archive'[c] = NewRow(u.version) /\ c \in enqueueing' \cup unqueued'
    <2>1. u.version \in 1..source[c].version /\ source[c].version \in 0..MaxVersion
        BY <1>1, <1>3, <1>12
    <2>2. /\ QueueOK(updates', c, source[c]) /\ source' = source /\ page'[c] <= source[c].version
          /\ c \notin missed' =>
                /\ PendingKind(updates', c, "edit") \/ u.version = source[c].version
                /\ source[c].gone => PendingKind(updates', c, "delete")
        BY <1>4, <1>5, <1>7, <1>8, <1>12
    <2> QED BY <1>1, <1>12, <2>1, <2>2, FreshRowKeeps
<1>13. CASE /\ IsArchived(c) /\ u.kind = "edit"
            /\ archive'[c].version = u.version /\ archive'[c].deleted = archive[c].deleted
            /\ archive'[c].queued = archive[c].queued
    <2>1. u.version # 0 /\ u.version <= message.version
        BY <1>1, <1>3, <1>13
    <2>2. IsArchived(c)' /\ Held(c)' = u.version
        BY <1>13, <2>1 DEF IsArchived, Held
    <2> QED BY <1>1, <1>4, <1>5, <1>7, <1>8, <1>10, <1>13, <2>1, <2>2 DEF ChatOK
<1>14. CASE /\ IsArchived(c) /\ u.kind = "delete" /\ archive'[c].deleted
            /\ archive'[c].version = archive[c].version /\ archive'[c].queued = archive[c].queued
    <2>1. IsArchived(c)' /\ Held(c)' = Held(c) /\ Stale(c)
        BY <1>14 DEF IsArchived, Held, Stale
    <2> QED BY <1>4, <1>5, <1>6, <1>7, <1>8, <1>9, <1>10, <1>14, <2>1 DEF ChatOK
<1>15. CASE /\ archive'[c] = archive[c] /\ u.kind # "new"
            /\ Stale(c) => c \in missed'
            /\ u.kind = "edit" => channel = "whatsapp"
    <2>1. /\ Held(c)' = Held(c) /\ (IsArchived(c)' <=> IsArchived(c)) /\ (Stale(c)' <=> Stale(c))
        BY <1>7, <1>15 DEF Held, IsArchived, Stale
    <2>2. channel = "telegram" => message.gone
        BY <1>1, <1>5, <1>15
    <2> QED BY <1>1, <1>4, <1>7, <1>8, <1>10, <1>15, <2>1, <2>2 DEF ChatOK
<1>16. Effect(c, u)
    OBVIOUS
<1> QED BY <1>11, <1>12, <1>13, <1>14, <1>15, <1>16 DEF Effect

\* An update that comes off the queue is in its row, or in what is missed.
LEMMA DeliverKeeps == ASSUME IngestInv, Deliver PROVE IngestInv'
<1> PICK u, q : u = Head(updates) /\ q = updates
    OBVIOUS
<1>1. /\ listening /\ updates # <<>> /\ updates' = Tail(updates)
      /\ UNCHANGED <<channel, source, listening, historyVars, resolved>>
    BY DEF Deliver
<1>2. \/ u.kind = "new" /\ Record(u.chat, u.version)
      \/ u.kind = "edit" /\ Edit(u.chat, u)
      \/ u.kind = "delete" /\ Delete(u.chat, u)
    BY Zenon DEF Deliver
<1>3. Touches(u)
    BY <1>1, <1>2, RecordTouches, EditTouches, DeleteTouches
<1>4. u \in Update /\ q \in Seq(Update) /\ q # <<>> /\ u = q[1]
    BY <1>1, HeadOfQueue DEF IngestInv, IngestTypeOK
<1>5. updates' \in Seq(Update)
    BY <1>1, <1>4, TailPlaces
<1>6. IngestTypeOK'
    BY <1>1, <1>3, <1>5 DEF IngestInv, IngestTypeOK, Touches, ArchiveRow, historyVars
<1>7. SessionInv'
    <2>1. \A i \in DOMAIN updates' : ~updates'[i].own =>
            channel = "whatsapp" /\ updates'[i].kind # "new"
        <3>1. \A i \in DOMAIN Tail(q) : i + 1 \in DOMAIN q /\ Tail(q)[i] = q[i + 1]
            BY <1>4, TailPlaces
        <3> QED BY <1>1, <3>1 DEF IngestInv, SessionInv
    <2> QED BY <1>1, <2>1 DEF IngestInv, SessionInv, historyVars
<1>8. ASSUME NEW d \in Chats, d # u.chat \/ ~u.own PROVE ChatOK(d)'
    <2>1. PICK message : message = source[d]
        OBVIOUS
    <2>2. ChatOK(d)
        BY DEF IngestInv, ChatsInv
    <2>3. QueueOK(q, d, message) /\ ~Own(q, d, 1) /\ message.version \in Nat
        <3>1. message.version \in 0..MaxVersion
            BY <2>1 DEF IngestInv, IngestTypeOK
        <3>2. ~Own(q, d, 1)
            BY <1>4, <1>8 DEF Own
        <3> QED BY <2>1, <2>2, <3>1, <3>2, IngestAssumption DEF ChatOK
    <2>4. QueueOK(Tail(q), d, message)
        BY <1>4, <2>3, TailQueue
    <2>5. /\ PendingOf(q, d) <=> PendingOf(Tail(q), d)
          /\ \A kind : PendingKind(q, d, kind) <=> PendingKind(Tail(q), d, kind)
        BY <1>4, <2>3, TailPending
    <2>6. QueueSame(d)
        BY <1>1, <2>1, <2>4, <2>5 DEF QueueSame
    <2>7. Elsewhere(d)
        BY <1>1, <1>3, <1>8 DEF Touches, Elsewhere, historyVars
    <2> QED BY <1>1, <2>2, <2>6, <2>7, ElsewhereKeeps
<1>9. ASSUME u.own PROVE ChatOK(u.chat)'
    <2>1. Effect(u.chat, u)
        BY <1>3, <1>9 DEF Touches
    <2> QED BY <1>1, <1>3, <1>9, <2>1, EffectKeeps
<1>10. ChatsInv'
    <2> SUFFICES ASSUME NEW d \in Chats PROVE ChatOK(d)'
        BY DEF ChatsInv
    <2>1. CASE d # u.chat \/ ~u.own
        BY <1>8, <2>1
    <2>2. CASE d = u.chat /\ u.own
        BY <1>9, <2>2
    <2> QED BY <2>1, <2>2
<1> QED BY <1>6, <1>7, <1>10 DEF IngestInv

-----------------------------------------------------------------------------
(* The theorems.                                                           *)

\* Nothing has been said and nothing is archived.
LEMMA NothingArchived == ASSUME IngestInit PROVE IngestInv
<1>1. IngestTypeOK
    <2>1. NoMessage \in [version: 0..MaxVersion, gone: BOOLEAN] /\ 0 \in 0..MaxVersion
        BY IngestAssumption DEF NoMessage
    <2>2. NoArchived \in ArchiveRow
        BY IngestAssumption DEF NoArchived, ArchiveRow
    <2>3. /\ source \in [Chats -> [version: 0..MaxVersion, gone: BOOLEAN]]
          /\ page \in [Chats -> 0..MaxVersion] /\ archive \in [Chats -> ArchiveRow]
        BY <2>1, <2>2 DEF IngestInit
    <2>4. listening \in BOOLEAN /\ backfilled \in BOOLEAN /\ resolved \in BOOLEAN
        BY DEF IngestInit
    <2>5. /\ channel \in {"telegram", "whatsapp"} /\ updates \in Seq(Update)
          /\ todo \subseteq Chats /\ enqueueing \subseteq Chats /\ missed \subseteq Chats
          /\ unqueued \subseteq Chats
        BY DEF IngestInit
    <2> QED BY <2>3, <2>4, <2>5 DEF IngestTypeOK, ArchiveRow
<1>2. SessionInv
    BY DEF IngestInit, SessionInv
<1>3. ASSUME NEW c \in Chats PROVE ChatOK(c)
    <2>1. /\ source[c].version = 0 /\ ~source[c].gone /\ archive[c].version = 0
          /\ ~archive[c].deleted /\ page[c] = 0 /\ DOMAIN updates = {}
        BY DEF IngestInit, NoMessage, NoArchived
    <2> QED BY <2>1 DEF ChatOK, QueueOK, PendingOf, Stale, IsArchived
<1> QED BY <1>1, <1>2, <1>3 DEF IngestInv, ChatsInv

\* Nothing an account, a session or a crash does takes a row out of step with
\* its message, but for what is in `missed'.
THEOREM IngestInductive == IngestSpec => []IngestInv
<1>1. IngestInv /\ [IngestNext]_ingestVars => IngestInv'
    <2> SUFFICES ASSUME IngestInv, [IngestNext]_ingestVars PROVE IngestInv'
        OBVIOUS
    <2>1. ASSUME NEW c \in Chats, Said(c) \/ Changed(c) \/ Removed(c) PROVE IngestInv'
        BY <2>1, AccountKeeps
    <2>2. ASSUME NEW c \in Chats, Enqueue(c) \/ FetchPage(c) \/ RecordPage(c) PROVE IngestInv'
        BY <2>2, EnqueueKeeps, FetchPageKeeps, RecordPageKeeps
    <2>3. ASSUME NEW c \in Chats, NEW kind \in {"edit", "delete"}, Pretended(kind, c)
          PROVE  IngestInv'
        BY <2>3, PretendedKeeps
    <2>4. CASE Resolved \/ Listen
        BY <2>4, OpeningKeeps
    <2>5. CASE SessionEnds \/ WorkerDies
        BY <2>5, UnlistenKeeps
    <2>6. CASE Deliver
        BY <2>6, DeliverKeeps
    <2>7. CASE BackfillDone
        BY <2>7, BackfillDoneKeeps
    <2>8. CASE UNCHANGED ingestVars
        <3>1. IngestTypeOK'
            BY <2>8 DEF ingestVars, historyVars, archiveVars, IngestInv, IngestTypeOK
        <3>2. SessionInv'
            BY <2>8 DEF ingestVars, historyVars, IngestInv, SessionInv
        <3>3. ASSUME NEW c \in Chats PROVE ChatOK(c)'
            <4>1. ChatOK(c)
                BY DEF IngestInv, ChatsInv
            <4>2. QueueSame(c) /\ Elsewhere(c) /\ channel' = channel /\ listening' = listening
                BY <2>8, <4>1, QueueUnchanged DEF ingestVars, historyVars, archiveVars, Elsewhere
            <4> QED BY <4>1, <4>2, ElsewhereKeeps
        <3> QED BY <3>1, <3>2, <3>3 DEF IngestInv, ChatsInv
    <2> QED BY <2>1, <2>2, <2>3, <2>4, <2>5, <2>6, <2>7, <2>8, Zenon DEF IngestNext
<1> QED BY <1>1, NothingArchived, PTL DEF IngestSpec

\* Every step of an account, a session and its history leaves the state in its
\* types.
THEOREM IngestTyped == IngestSpec => []IngestTypeOK
BY IngestInductive, PTL DEF IngestInv

\* However history and updates interleave, through closed sessions and crashes:
\* no row says what its author did not write, a row that nothing was dropped for
\* catches up, a history read to its end skipped nothing that stands, and every
\* row has its attachment queued, but for a crash and an edit.
THEOREM ArchiveFaithful == IngestSpec => []RowsFaithful
<1>1. IngestInv => RowsFaithful
    <2> SUFFICES ASSUME IngestInv, NEW c \in Chats
                 PROVE
            /\ archive[c].version <= source[c].version
            /\ archive[c].deleted => source[c].gone
            /\ IsArchived(c) /\ ~Pending(c) /\ c \notin missed =>
                archive[c].version = source[c].version /\ archive[c].deleted = source[c].gone
            /\ channel = "telegram" /\ listening /\ backfilled
               /\ source[c].version # 0 /\ ~source[c].gone /\ ~Pending(c) => IsArchived(c)
            /\ IsArchived(c) /\ c \notin enqueueing \cup unqueued => archive[c].queued
        BY Zenon DEF RowsFaithful, NothingInvented, CatchesUp, NothingSkipped, AttachmentsQueued
    <2>1. ChatOK(c)
        BY DEF IngestInv, ChatsInv
    <2>2. PendingOf(updates, c) <=> Pending(c)
        BY DEF PendingOf, Pending, Own
    <2>3. \A kind : PendingKind(updates, c, kind) => PendingOf(updates, c)
        BY DEF PendingKind, PendingOf
    <2>4. source[c].gone \in BOOLEAN /\ archive[c].deleted \in BOOLEAN
        BY DEF IngestInv, IngestTypeOK
    <2>5. ASSUME IsArchived(c), ~Pending(c), c \notin missed
          PROVE  archive[c].version = source[c].version /\ archive[c].deleted = source[c].gone
        <3>1. /\ archive[c].version = source[c].version
              /\ source[c].gone <=> archive[c].deleted
            BY <2>1, <2>2, <2>3, <2>5 DEF ChatOK, Stale, Held
        <3> QED BY <2>4, <3>1
    <2>6. channel = "telegram" /\ listening /\ backfilled
          /\ source[c].version # 0 /\ ~source[c].gone /\ ~Pending(c) => IsArchived(c)
        BY <2>1, <2>2 DEF ChatOK, IngestInv, SessionInv
    <2> QED BY <2>1, <2>5, <2>6 DEF ChatOK
<1> QED BY <1>1, IngestInductive, PTL

-----------------------------------------------------------------------------
(* Pages.                                                                  *)

\* A line of an answer.
Item == SortKeys \X Rows \X {0, 1}

Cursors == {Top} \cup (SortKeys \X Rows)

Behind(e, cursor) ==
    \/ cursor = Top
    \/ e[1] < cursor[1]
    \/ e[1] = cursor[1] /\ e[2] < cursor[2]

\* What an item is.
LEMMA ItemIs ==
    ASSUME NEW e \in Item
    PROVE  /\ e[1] \in Nat /\ e[2] \in Nat /\ e[3] \in Nat /\ e = <<e[1], e[2], e[3]>>
           /\ e[1] \in SortKeys /\ e[2] \in Rows
<1>1. e[1] \in SortKeys /\ e[2] \in Rows /\ e[3] \in {0, 1} /\ e = <<e[1], e[2], e[3]>>
    BY DEF Item
<1>2. e[1] \in Nat /\ e[2] \in Nat
    BY <1>1, ReadsAssumption
<1> QED BY <1>1, <1>2

\* The order of the items is strict, and of two of them one comes sooner.
LEMMA SoonerIsOrder ==
    ASSUME NEW e \in Item, NEW f \in Item
    PROVE  /\ ~Sooner(e, e)
           /\ ~(Sooner(e, f) /\ Sooner(f, e))
           /\ e = f \/ Sooner(e, f) \/ Sooner(f, e)
           /\ \A g \in Item : Sooner(e, f) /\ Sooner(f, g) => Sooner(e, g)
<1>1. \A g \in Item : g[1] \in Nat /\ g[2] \in Nat /\ g[3] \in Nat /\ g = <<g[1], g[2], g[3]>>
    BY ItemIs
<1> QED BY <1>1 DEF Sooner

\* In a finite set some member has nobody below it.
LEMMA LeastMember ==
    ASSUME NEW S, IsFiniteSet(S), S # {}, NEW below \in [S -> SUBSET S],
           \A e \in S : e \notin below[e] /\ \A f \in below[e] : below[f] \subseteq below[e]
    PROVE  \E e \in S : below[e] = {}
<1> DEFINE R == StrictSubsetOrdering(S)
           T == {below[e] : e \in S}
<1>1. IsWellFoundedOn(R, FiniteSubsetsOf(S))
    BY FS_StrictSubsetOrderingWellFounded
<1>2. T \subseteq FiniteSubsetsOf(S) /\ T # {}
    <2>1. \A e \in S : below[e] \in SUBSET S
        OBVIOUS
    <2>2. \A e \in S : IsFiniteSet(below[e])
        BY <2>1, FS_Subset
    <2> QED BY <2>1, <2>2 DEF FiniteSubsetsOf
<1>3. \E t \in T : \A u \in T : <<u, t>> \notin R
    <2> HIDE DEF R, T
    <2> QED BY <1>1, <1>2, WFMin
<1>4. PICK e \in S : \A f \in S : <<below[f], below[e]>> \notin R
    BY <1>3
<1>5. ASSUME NEW f \in below[e] PROVE FALSE
    <2>1. f \in S /\ below[f] \subseteq below[e] /\ f \notin below[f] /\ below[e] \subseteq S
        OBVIOUS
    <2>2. <<below[f], below[e]>> \in R
        BY <2>1 DEF StrictSubsetOrdering
    <2> QED BY <1>4, <2>1, <2>2
<1> QED BY <1>5

\* A page is the first rows that are left, all of them if there are no more, and
\* none only if there are none.
LEMMA PageIs ==
    ASSUME NEW S \in SUBSET Item, IsFiniteSet(S), NEW n \in Nat \ {0}
    PROVE  /\ Page(S, n) \subseteq S /\ IsFiniteSet(Page(S, n))
           /\ \A e \in Page(S, n), f \in S : Sooner(f, e) => f \in Page(S, n)
           /\ Cardinality(S) <= n => Page(S, n) = S
           /\ S # {} => Page(S, n) # {}
<1> DEFINE Before(e) == {f \in S : Sooner(f, e)}
<1>1. \A e \in S : IsFiniteSet(Before(e)) /\ Cardinality(Before(e)) \in Nat
    BY FS_Subset, FS_CardinalityType
<1>2. Page(S, n) = {e \in S : Cardinality(Before(e)) < n}
    BY DEF Page
<1>3. \A e, f \in S : Sooner(f, e) => Before(f) \subseteq Before(e)
    BY SoonerIsOrder
<1>4. ASSUME NEW e \in S, NEW f \in S, Sooner(f, e), Cardinality(Before(e)) < n
      PROVE  Cardinality(Before(f)) < n
    <2>1. Before(f) \subseteq Before(e)
        BY <1>3, <1>4
    <2>2. Cardinality(Before(f)) <= Cardinality(Before(e))
        BY <1>1, <2>1, FS_Subset
    <2> QED BY <1>1, <1>4, <2>2
<1>5. ASSUME Cardinality(S) <= n, NEW e \in S PROVE Cardinality(Before(e)) < n
    <2>1. e \notin Before(e) /\ Before(e) \subseteq S \ {e}
        BY SoonerIsOrder
    <2>2. IsFiniteSet(S \ {e}) /\ Cardinality(S \ {e}) = Cardinality(S) - 1
        BY FS_RemoveElement
    <2>3. Cardinality(Before(e)) <= Cardinality(S \ {e}) /\ Cardinality(S) \in Nat
        BY <2>1, <2>2, FS_Subset, FS_CardinalityType
    <2> QED BY <1>1, <1>5, <2>2, <2>3
<1>6. ASSUME S # {} PROVE \E e \in S : Cardinality(Before(e)) < n
    <2> DEFINE below == [e \in S |-> Before(e)]
    <2>1. below \in [S -> SUBSET S] /\ \A e \in S : below[e] = Before(e)
        OBVIOUS
    <2>2. \A e \in S : e \notin below[e] /\ \A f \in below[e] : below[f] \subseteq below[e]
        BY <1>3, SoonerIsOrder
    <2> HIDE DEF below
    <2>3. PICK e \in S : below[e] = {}
        BY <1>6, <2>1, <2>2, LeastMember
    <2>4. Cardinality(Before(e)) = 0
        BY <2>1, <2>3, FS_EmptySet
    <2>5. 0 < n
        OBVIOUS
    <2> QED BY <2>4, <2>5, Zenon
<1> HIDE DEF Before
<1>7. Page(S, n) \subseteq S
    BY <1>2
<1>8. IsFiniteSet(Page(S, n))
    BY <1>7, FS_Subset
<1> QED BY <1>2, <1>4, <1>5, <1>6, <1>7, <1>8

\* A page that is not empty has a last line, and its cursor is that line's.
LEMMA CursorIs ==
    ASSUME NEW P \in SUBSET Item, IsFiniteSet(P), P # {}
    PROVE  \E last \in P : /\ Cursor(P) = <<last[1], last[2]>>
                           /\ \A f \in P : f = last \/ Sooner(f, last)
<1> DEFINE below == [e \in P |-> {f \in P : Sooner(e, f)}]
           Last(e) == \A f \in P : f = e \/ Sooner(f, e)
<1>1. below \in [P -> SUBSET P] /\ \A e \in P : below[e] = {f \in P : Sooner(e, f)}
    OBVIOUS
<1>2. \A e \in P : e \notin below[e] /\ \A f \in below[e] : below[f] \subseteq below[e]
    BY SoonerIsOrder
<1>3. PICK e \in P : {f \in P : Sooner(e, f)} = {}
    <2> HIDE DEF below
    <2>1. PICK e \in P : below[e] = {}
        BY <1>1, <1>2, LeastMember
    <2> QED BY <1>1, <2>1, Zenon
<1>4. \E last \in P : Last(last)
    BY <1>3, SoonerIsOrder
<1>5. (CHOOSE last \in P : Last(last)) \in P /\ Last(CHOOSE last \in P : Last(last))
    BY <1>4
<1>6. Cursor(P) = <<(CHOOSE last \in P : Last(last))[1], (CHOOSE last \in P : Last(last))[2]>>
    BY DEF Cursor
<1> QED BY <1>5, <1>6

\* How often a row is on a page.
LEMMA LinesAre ==
    ASSUME NEW P, IsFiniteSet(P), NEW r
    PROVE  /\ Lines(P, r) \in Nat
           /\ (\A e \in P : e[2] # r) => Lines(P, r) = 0
           /\ \A e \in P : e[2] = r /\ (\A f \in P : f[2] = r => f = e) => Lines(P, r) = 1
<1> DEFINE own == {e \in P : e[2] = r}
<1>1. IsFiniteSet(own) /\ Cardinality(own) \in Nat
    BY FS_Subset, FS_CardinalityType
<1>2. (\A e \in P : e[2] # r) => own = {}
    OBVIOUS
<1>3. \A e \in P : e[2] = r /\ (\A f \in P : f[2] = r => f = e) => own = {e}
    OBVIOUS
<1>4. Lines(P, r) = Cardinality(own)
    BY DEF Lines
<1> HIDE DEF own
<1> QED BY <1>1, <1>2, <1>3, <1>4, FS_EmptySet, FS_Singleton

-----------------------------------------------------------------------------
(* The invariant of a walk.                                                *)

Walks == [status: {"asked", "owner", "deletes", "over", "refused"}, at: Cursors, until: Cursors,
          others: SUBSET Item, dropped: SUBSET Rows, shown: [Rows -> 0 .. 2]]

RowsRead ==
    /\ list \in Lists /\ here \in BOOLEAN
    /\ key \in [Rows -> SortKeys \cup {Never, Gone}]
    /\ aside \subseteq Rows /\ stood \subseteq Listed
    /\ owner \in There \cup {Never}
    /\ list # "people" => owner = Never

WalkTyped ==
    /\ walk \in Walks /\ IsFiniteSet(walk.others)
    /\ walk.status = "owner" => list = "people"
    /\ walk.status = "deletes" => list = "export"
    /\ walk.status # "over" => walk.dropped = {}

\* Of the rows that have stood, those down to the cursor were shown, once.
Shown(r) == walk.shown[r] = IF Behind(Entry(r), walk.at) THEN 0 ELSE 1

StoodShown ==
    \A r \in stood :
        /\ walk.status \in {"asked", "owner"} => Shown(r)
        /\ walk.status \in {"deletes", "over"} => walk.shown[r] = 1
        /\ walk.status = "over" => r \notin walk.dropped
        /\ walk.shown[r] <= 1

\* In every list but the address book a row that was shown does not come again,
\* wherever it moved.
Behindhand(r) == key[r] # Never /\ (r \in There => ~Behind(Entry(r), walk.at))

ShownOnce ==
    list # "people" => \A r \in Rows :
        /\ walk.shown[r] <= 1
        /\ walk.status = "asked" /\ walk.shown[r] # 0 => Behindhand(r)

\* Of those who have stood, the first statement of publicPeople has read all but
\* the owner, as they are.
OthersRead ==
    walk.status = "owner" => \A r \in stood :
        /\ r # owner => Entry(r) \in walk.others
        /\ \A e \in walk.others : e[2] = r => e = Entry(r) /\ r # owner

\* What has stood is not later than the event the download ends with.
UntilRead == walk.until # Top => \A r \in stood : ~Sooner(Entry(r), walk.until \o <<0>>)

ReadsInv == RowsRead /\ WalkTyped /\ StoodShown /\ ShownOnce /\ OthersRead /\ UntilRead

\* A row in the list makes an item.
LEMMA EntryIs ==
    ASSUME NEW r \in There
    PROVE  /\ Entry(r) \in Item /\ OwnerEntry(r) \in Item /\ r \in Rows /\ key[r] \in SortKeys
           /\ Entry(r)[1] = key[r] /\ Entry(r)[2] = r /\ Entry(r)[3] = 0
           /\ OwnerEntry(r)[1] = key[r] /\ OwnerEntry(r)[2] = r
BY DEF There, Entry, OwnerEntry, Item

\* The rows make finitely many.
LEMMA EntriesAre ==
    ASSUME NEW R \in SUBSET There
    PROVE  /\ Entries(R) \in SUBSET Item /\ IsFiniteSet(Entries(R))
           /\ \A r \in R : Entry(r) \in Entries(R)
           /\ \A e \in Entries(R) : e[2] \in R /\ e = Entry(e[2])
<1> DEFINE f == [r \in R |-> Entry(r)]
<1>1. IsFiniteSet(R)
    <2>1. R \in SUBSET Rows
        BY DEF There
    <2> QED BY <2>1, ReadsAssumption, FS_Subset
<1>2. Entries(R) = {f[r] : r \in R}
    BY DEF Entries
<1>3. IsFiniteSet({f[r] : r \in R})
    <2>1. f \in Surjection(R, {f[r] : r \in R})
        BY DEF Surjection
    <2> QED BY <1>1, <2>1, FS_Surjection
<1>4. \A r \in R : Entry(r) \in Item /\ Entry(r)[2] = r
    BY EntryIs
<1> HIDE DEF f
<1> QED BY <1>2, <1>3, <1>4 DEF Entries

-----------------------------------------------------------------------------
(* A page is shown.                                                        *)

\* The rows left were S; those of slice are shown.
Shows(S, slice) ==
    /\ walk' \in Walks /\ walk'.others = {} /\ walk'.status \in {"asked", "over"}
    /\ walk'.dropped = walk.dropped /\ walk'.until = walk.until
    /\ slice \in SUBSET Item /\ IsFiniteSet(slice)
    /\ \A e \in slice : e \in S /\ Behind(e, walk.at)
    /\ \A r \in Rows : walk'.shown[r] = Least(2, walk.shown[r] + Lines(slice, r))
    /\ walk'.status = "over" => \A e \in S : Behind(e, walk.at) => e \in slice
    /\ walk'.status = "asked" => \E last \in slice :
        /\ walk'.at = <<last[1], last[2]>>
        /\ \A f \in slice : f = last \/ Sooner(f, last)
        /\ \A f \in S : Behind(f, walk.at) /\ Sooner(f, last) => f \in slice

\* What Turn does.
LEMMA TurnShows ==
    ASSUME walk \in Walks, NEW S \in SUBSET Item, IsFiniteSet(S), Turn(S)
    PROVE  \E slice : Shows(S, slice)
<1>1. PICK n \in Limits :
        LET left == Beyond(S, walk.at)
            slice == Page(left, n)
            more == Cardinality(left) > n
        IN  walk' = [walk EXCEPT
                !.shown  = [r \in Rows |-> Least(2, @[r] + Lines(slice, r))],
                !.at     = IF more THEN NextCursor(left, n) ELSE Top,
                !.others = {},
                !.status = IF more THEN "asked" ELSE "over"]
    BY DEF Turn
<1> PICK w, left, slice : w = walk /\ left = Beyond(S, walk.at) /\ slice = Page(left, n)
    OBVIOUS
<1> PICK more \in BOOLEAN : more <=> Cardinality(left) > n
    OBVIOUS
<1> PICK at, status, shown : /\ at = (IF more THEN Cursor(slice) ELSE Top)
                             /\ status = (IF more THEN "asked" ELSE "over")
                             /\ shown = [r \in Rows |-> Least(2, w.shown[r] + Lines(slice, r))]
    OBVIOUS
<1>2. n \in Nat \ {0} /\ w \in Walks /\ w.shown \in [Rows -> 0 .. 2]
    BY ReadsAssumption DEF Walks
<1>3. left \in SUBSET Item /\ IsFiniteSet(left) /\ \A e : e \in left <=> e \in S
          /\ Behind(e, walk.at)
    <2>1. left \in SUBSET S
        BY DEF Beyond
    <2>2. IsFiniteSet(left)
        BY <2>1, FS_Subset
    <2>3. \A e : e \in left <=> e \in S /\ Behind(e, walk.at)
        BY DEF Beyond, Behind
    <2> QED BY <2>1, <2>2, <2>3
<1>4. /\ slice \subseteq left /\ IsFiniteSet(slice)
      /\ \A e \in slice, f \in left : Sooner(f, e) => f \in slice
      /\ Cardinality(left) <= n => slice = left
      /\ left # {} => slice # {}
    BY <1>2, <1>3, PageIs
<1>5. Cardinality(left) \in Nat
    BY <1>3, FS_CardinalityType
<1>6. more => slice # {}
    <2>1. left = {} => Cardinality(left) = 0
        BY FS_EmptySet
    <2>2. n \in Nat
        BY ReadsAssumption
    <2>3. left = {} => ~(Cardinality(left) > n)
        BY <2>1, <2>2
    <2> QED BY <1>4, <2>3
<1>7. ~more => slice = left
    BY <1>2, <1>4, <1>5
<1>8. more => \E last \in slice : /\ at = <<last[1], last[2]>>
                                 /\ \A f \in slice : f = last \/ Sooner(f, last)
    BY <1>3, <1>4, <1>6, CursorIs
<1>9. at \in Cursors
    <2>1. CASE ~more
        BY <2>1 DEF Cursors
    <2>2. CASE more
        <3>1. PICK last \in slice : at = <<last[1], last[2]>>
            BY <1>8, <2>2
        <3>2. last[1] \in SortKeys /\ last[2] \in Rows
            BY <1>3, <1>4, ItemIs
        <3> QED BY <3>1, <3>2 DEF Cursors
    <2> QED BY <2>1, <2>2
<1>10. shown \in [Rows -> 0 .. 2]
    <2>1. \A r \in Rows : Lines(slice, r) \in Nat
        BY <1>4, LinesAre
    <2>2. \A r \in Rows : Least(2, w.shown[r] + Lines(slice, r)) \in 0 .. 2
        BY <1>2, <2>1 DEF Least
    <2> QED BY <2>2
<1> PICK t : t = [w EXCEPT !.shown = shown, !.at = at, !.others = {}, !.status = status]
    OBVIOUS
<1>11. walk' = t
    BY <1>1, Zenon DEF NextCursor
<1>12. /\ t \in Walks /\ t.others = {} /\ t.status = status /\ t.dropped = w.dropped
       /\ t.until = w.until /\ t.at = at /\ t.shown = shown
    BY <1>2, <1>9, <1>10 DEF Walks
<1>13. /\ status \in {"asked", "over"} /\ (status = "asked" => more) /\ (status = "over" => ~more)
       /\ \A r \in Rows : shown[r] = Least(2, w.shown[r] + Lines(slice, r))
    OBVIOUS
<1> QED BY <1>3, <1>4, <1>7, <1>8, <1>11, <1>12, <1>13 DEF Shows

\* What was shown is shown: the cursor only goes down.
LEMMA CursorFalls ==
    ASSUME walk \in Walks, NEW S, NEW slice, Shows(S, slice), walk'.status = "asked", NEW f \in Item
    PROVE  /\ ~Behind(f, walk.at) => ~Behind(f, walk'.at)
           /\ f \in slice => ~Behind(f, walk'.at)
<1>1. PICK last \in slice : /\ walk'.at = <<last[1], last[2]>>
                           /\ \A e \in slice : e = last \/ Sooner(e, last)
    BY DEF Shows
<1>2. last \in Item /\ Behind(last, walk.at) /\ slice \subseteq Item
    BY DEF Shows
<1>3. \A e \in Item : e[1] \in Nat /\ e[2] \in Nat /\ e[3] \in Nat
    BY ItemIs
<1> PICK at, next : at = walk.at /\ next = <<last[1], last[2]>>
    OBVIOUS
<1>4. next # Top /\ next[1] = last[1] /\ next[2] = last[2]
    BY DEF Top
<1>5. at = Top \/ (at[1] \in Nat /\ at[2] \in Nat)
    <2>1. at \in Cursors
        BY DEF Walks
    <2> QED BY <2>1, ReadsAssumption DEF Cursors
<1>6. ~Behind(f, at) => ~Behind(f, next)
    BY <1>2, <1>3, <1>4, <1>5 DEF Behind
<1>7. f \in slice => ~Behind(f, next)
    <2>1. f \in slice => f = last \/ Sooner(f, last)
        BY <1>1
    <2> QED BY <1>2, <1>3, <1>4, <2>1 DEF Behind, Sooner
<1> QED BY <1>1, <1>6, <1>7

\* A row that has one line among those left is shown when the walk comes by.
LEMMA RowTurns ==
    ASSUME walk \in Walks, NEW S, NEW slice, Shows(S, slice), NEW r \in There, NEW e \in S,
           e \in Item,
           e[1] = key[r], e[2] = r, \A f \in S : f[2] = r => f = e, Shown(r)
    PROVE  /\ walk'.status = "asked" => walk'.shown[r] = IF Behind(Entry(r), walk'.at) THEN 0 ELSE 1
           /\ walk'.status = "over" => walk'.shown[r] = 1
<1>1. \A cursor : Behind(Entry(r), cursor) <=> Behind(e, cursor)
    BY EntryIs DEF Behind
<1>2. r \in Rows /\ IsFiniteSet(slice) /\ slice \subseteq S /\ slice \subseteq Item
    BY EntryIs DEF Shows
<1>3. e \in slice => Lines(slice, r) = 1
    BY <1>2, LinesAre
<1>4. e \notin slice => Lines(slice, r) = 0
    <2>1. e \notin slice => \A f \in slice : f[2] # r
        BY <1>2
    <2> QED BY <1>2, <2>1, LinesAre
<1>5. walk'.shown[r] = IF e \in slice THEN 1 ELSE walk.shown[r]
    <2>1. walk'.shown[r] = Least(2, walk.shown[r] + Lines(slice, r))
        BY <1>2 DEF Shows
    <2>2. e \in slice => walk.shown[r] = 0
        BY <1>1 DEF Shows, Shown
    <2>3. walk.shown[r] \in {0, 1}
        BY DEF Shown
    <2> QED BY <1>3, <1>4, <2>1, <2>2, <2>3 DEF Least
<1>6. CASE walk'.status = "over"
    <2>1. Behind(e, walk.at) => e \in slice
        BY <1>6 DEF Shows
    <2> QED BY <1>1, <1>5, <1>6, <2>1 DEF Shown
<1>7. CASE walk'.status = "asked"
    <2>1. CASE e \in slice \/ ~Behind(e, walk.at)
        <3>1. ~Behind(e, walk'.at)
            BY <1>7, <2>1, CursorFalls
        <3> QED BY <1>1, <1>5, <1>7, <2>1, <3>1 DEF Shown
    <2>2. CASE e \notin slice /\ Behind(e, walk.at)
        <3>1. PICK last \in slice : /\ walk'.at = <<last[1], last[2]>>
                                   /\ \A f \in S : Behind(f, walk.at) /\ Sooner(f, last)
                                          => f \in slice
            BY <1>7 DEF Shows
        <3>2. Sooner(last, e)
            BY <1>2, <2>2, <3>1, SoonerIsOrder
        <3>3. last[2] # e[2]
            BY <1>2, <2>2
        <3>4. Behind(e, walk'.at)
            <4>1. last[1] > e[1] \/ (last[1] = e[1] /\ last[2] > e[2])
                BY <3>2, <3>3 DEF Sooner
            <4>2. /\ last[1] \in Nat /\ last[2] \in Nat /\ e[1] \in Nat /\ e[2] \in Nat
                BY <1>2, ItemIs
            <4>3. <<last[1], last[2]>>[1] = last[1] /\ <<last[1], last[2]>>[2] = last[2]
                OBVIOUS
            <4> QED BY <3>1, <4>1, <4>2, <4>3 DEF Behind
        <3> QED BY <1>1, <1>5, <1>7, <2>2, <3>4 DEF Shown
    <2> QED BY <2>1, <2>2
<1> QED BY <1>6, <1>7 DEF Shows

-----------------------------------------------------------------------------
(* The steps.                                                              *)

\* The reader changes nothing but its walk.
LEMMA ReaderKeepsRows ==
    ASSUME ReadsInv, Reader
    PROVE  /\ RowsRead' /\ There' = There /\ \A r \in Rows : Entry(r)' = Entry(r)
           /\ list' = list /\ stood' = stood /\ owner' = owner /\ key' = key
BY DEF Reader, ReadsInv, RowsRead, There, Listed, Entry

\* Who has stood is there.
LEMMA StoodThere ==
    ASSUME RowsRead
    PROVE  stood \subseteq Listed /\ Listed \subseteq There /\ There \subseteq Rows
           /\ \A r \in There : key[r] # Never /\ key[r] # Gone
           /\ Never \notin Rows
BY ReadsAssumption DEF RowsRead, Listed, There, Never, Gone

\* A row of another list than the address book that was on a page stays behind.
LEMMA OnceTurns ==
    ASSUME ReadsInv, Reader, list # "people", walk.status = "asked",
           NEW R \in SUBSET There, NEW slice, Shows(Entries(R), slice), NEW r \in Rows
    PROVE  /\ walk'.shown[r] <= 1
           /\ walk'.status = "asked" /\ walk'.shown[r] # 0 => Behindhand(r)'
<1>1. /\ walk \in Walks /\ walk.shown[r] \in 0 .. 2 /\ walk.shown[r] <= 1
      /\ walk.shown[r] # 0 => Behindhand(r)
    BY DEF ReadsInv, WalkTyped, ShownOnce, Walks
<1>2. There' = There /\ Entry(r)' = Entry(r) /\ key' = key
    BY ReaderKeepsRows
<1>3. /\ IsFiniteSet(slice) /\ slice \subseteq Entries(R) /\ slice \subseteq Item
      /\ \A e \in slice : Behind(e, walk.at)
    BY DEF Shows
<1>4. \A e \in slice : e[2] \in There /\ e = Entry(e[2])
    BY <1>3, EntriesAre
<1>5. walk'.shown[r] = Least(2, walk.shown[r] + Lines(slice, r))
    BY DEF Shows
<1>6. CASE \E e \in slice : e[2] = r
    <2>1. PICK e \in slice : e[2] = r
        BY <1>6
    <2>2. e = Entry(r) /\ r \in There /\ \A f \in slice : f[2] = r => f = e
        BY <1>4, <2>1
    <2>3. Lines(slice, r) = 1
        BY <1>3, <2>1, <2>2, LinesAre
    <2>4. walk.shown[r] = 0
        BY <1>1, <1>3, <2>2 DEF Behindhand
    <2>5. walk'.shown[r] = 1
        BY <1>5, <2>3, <2>4 DEF Least
    <2>6. walk'.status = "asked" => ~Behind(Entry(r), walk'.at)
        BY <1>1, <1>3, <2>2, CursorFalls
    <2>7. key[r] # Never
        BY <2>2, StoodThere DEF ReadsInv
    <2>8. walk'.status = "asked" => Behindhand(r)'
        BY <1>2, <2>6, <2>7 DEF Behindhand
    <2> QED BY <2>5, <2>8
<1>7. CASE ~\E e \in slice : e[2] = r
    <2>1. Lines(slice, r) = 0
        BY <1>3, <1>7, LinesAre
    <2>2. walk'.shown[r] = walk.shown[r]
        BY <1>1, <1>5, <2>1 DEF Least
    <2>3. ASSUME walk'.status = "asked", walk.shown[r] # 0 PROVE Behindhand(r)'
        <3>1. key[r] # Never /\ (r \in There => ~Behind(Entry(r), walk.at))
            BY <1>1, <2>3 DEF Behindhand
        <3>2. r \in There => Entry(r) \in Item
            BY EntryIs
        <3>3. r \in There => ~Behind(Entry(r), walk'.at)
            BY <1>1, <2>3, <3>1, <3>2, CursorFalls
        <3> QED BY <1>2, <3>1, <3>3 DEF Behindhand
    <2> QED BY <1>1, <2>2, <2>3
<1> QED BY <1>6, <1>7

\* Of all that is left, r has this one line.
OneLine(S, r) == \E e \in S : e[1] = key[r] /\ e[2] = r /\ \A f \in S : f[2] = r => f = e

\* A page is shown: of what has stood, each row has one line among those left.
LEMMA TurnKeeps ==
    ASSUME ReadsInv, Reader, walk.status \in {"asked", "owner"}, NEW S \in SUBSET Item, NEW slice,
           Shows(S, slice), \A r \in stood : OneLine(S, r), ShownOnce'
    PROVE  ReadsInv'
<1>1. RowsRead /\ walk \in Walks /\ walk.dropped = {} /\ StoodShown
    BY DEF ReadsInv, WalkTyped
<1>2. /\ walk' \in Walks /\ walk'.others = {} /\ walk'.status \in {"asked", "over"}
      /\ walk'.dropped = {} /\ walk'.until = walk.until
    BY <1>1 DEF Shows
<1>3. /\ RowsRead' /\ \A r \in Rows : Entry(r)' = Entry(r)
      /\ list' = list /\ stood' = stood
    BY ReaderKeepsRows
<1>4. WalkTyped'
    <2>1. IsFiniteSet({})
        BY FS_EmptySet
    <2> QED BY <1>2, <2>1 DEF WalkTyped
<1>5. ASSUME NEW r \in stood
      PROVE  /\ walk'.status = "asked"
                    => walk'.shown[r] = IF Behind(Entry(r), walk'.at) THEN 0 ELSE 1
             /\ walk'.status = "over" => walk'.shown[r] = 1
    <2>1. r \in There /\ Shown(r)
        BY <1>1, StoodThere DEF StoodShown
    <2>2. PICK e \in S : e[1] = key[r] /\ e[2] = r /\ \A f \in S : f[2] = r => f = e
        BY DEF OneLine
    <2> QED BY <1>1, <2>1, <2>2, RowTurns
<1>6. StoodShown'
    <2> SUFFICES ASSUME NEW r \in stood
                 PROVE  /\ walk'.status \in {"asked", "owner"} => Shown(r)'
                        /\ walk'.status \in {"deletes", "over"} => walk'.shown[r] = 1
                        /\ walk'.status = "over" => r \notin walk'.dropped
                        /\ walk'.shown[r] <= 1
        BY <1>3 DEF StoodShown
    <2>1. r \in Rows
        BY <1>1, StoodThere
    <2>2. Shown(r)' <=> walk'.shown[r] = IF Behind(Entry(r), walk'.at) THEN 0 ELSE 1
        BY <1>3, <2>1 DEF Shown, Behind
    <2>3. walk'.shown[r] <= 1
        BY <1>2, <1>5
    <2> QED BY <1>2, <1>5, <2>2, <2>3
<1>7. OthersRead'
    BY <1>2 DEF OthersRead
<1>8. UntilRead'
    <2>1. \A r \in stood : r \in Rows
        BY <1>1, StoodThere
    <2> QED BY <1>2, <1>3, <2>1 DEF ReadsInv, UntilRead, Sooner
<1> QED BY <1>3, <1>4, <1>6, <1>7, <1>8 DEF ReadsInv

\* A page of a list, cut from all that stands in it.
LEMMA ListTurns ==
    ASSUME ReadsInv, Reader, list # "people", walk.status = "asked",
           NEW R \in SUBSET There, stood \subseteq R, Turn(Entries(R))
    PROVE  ReadsInv'
<1>1. RowsRead /\ walk \in Walks /\ list' = list
    BY ReaderKeepsRows DEF ReadsInv, WalkTyped
<1>2. Entries(R) \in SUBSET Item /\ IsFiniteSet(Entries(R))
    BY EntriesAre
<1>3. PICK slice : Shows(Entries(R), slice)
    BY <1>1, <1>2, TurnShows
<1>4. ASSUME NEW r \in stood PROVE OneLine(Entries(R), r)
    <2>1. r \in There /\ r \in R
        BY <1>1, StoodThere
    <2>2. Entry(r) \in Entries(R) /\ \A f \in Entries(R) : f[2] = r => f = Entry(r)
        BY <2>1, EntriesAre
    <2>3. Entry(r)[1] = key[r] /\ Entry(r)[2] = r
        BY <2>1, EntryIs
    <2> QED BY <2>2, <2>3 DEF OneLine
<1>5. ShownOnce'
    BY <1>1, <1>3, OnceTurns DEF ShownOnce
<1> QED BY <1>2, <1>3, <1>4, <1>5, TurnKeeps

\* A page of the address book, cut from what its two statements have read.
LEMMA PeopleTurns == ASSUME ReadsInv, PublicPeople PROVE ReadsInv'
<1> PICK S : S = walk.others \cup {OwnerEntry(r) : r \in There \cap {owner}}
    OBVIOUS
<1>1. /\ RowsRead /\ walk \in Walks /\ OthersRead /\ walk.status = "owner" /\ list = "people"
      /\ Turn(S) /\ Reader /\ IsFiniteSet(walk.others)
    BY DEF ReadsInv, WalkTyped, PublicPeople
<1>2. S \in SUBSET Item /\ IsFiniteSet(S)
    <2>1. walk.others \subseteq Item
        BY <1>1 DEF Walks
    <2>2. \A r \in There : OwnerEntry(r) \in Item
        BY EntryIs
    <2>3. S = walk.others \/ S = walk.others \cup {OwnerEntry(owner)}
        OBVIOUS
    <2>4. IsFiniteSet(S)
        BY <1>1, <2>3, FS_AddElement
    <2> QED BY <2>1, <2>2, <2>4
<1>3. PICK slice : Shows(S, slice)
    BY <1>1, <1>2, TurnShows
<1>4. ASSUME NEW r \in stood PROVE OneLine(S, r)
    <2>1. r \in There
        BY <1>1, StoodThere
    <2>2. /\ r # owner => Entry(r) \in walk.others
          /\ \A e \in walk.others : e[2] = r => e = Entry(r) /\ r # owner
        BY <1>1 DEF OthersRead
    <2>3. /\ Entry(r)[1] = key[r] /\ Entry(r)[2] = r
          /\ OwnerEntry(r)[1] = key[r] /\ OwnerEntry(r)[2] = r
        BY <2>1, EntryIs
    <2>4. \A q \in There : OwnerEntry(q)[2] = q
        BY EntryIs
    <2>5. CASE r = owner
        <3>1. OwnerEntry(r) \in S /\ \A f \in S : f[2] = r => f = OwnerEntry(r)
            BY <2>1, <2>2, <2>4, <2>5
        <3> QED BY <2>3, <3>1 DEF OneLine
    <2>6. CASE r # owner
        <3>1. Entry(r) \in S /\ \A f \in S : f[2] = r => f = Entry(r)
            BY <2>1, <2>2, <2>4, <2>6
        <3> QED BY <2>3, <3>1 DEF OneLine
    <2> QED BY <2>5, <2>6
<1>5. ShownOnce'
    BY <1>1, ReaderKeepsRows DEF ShownOnce
<1> QED BY <1>1, <1>2, <1>3, <1>4, <1>5, TurnKeeps

\* The other steps of the reader: what it reads and how far it is.
LEMMA WalkSet ==
    ASSUME ReadsInv, Reader, WalkTyped', StoodShown', ShownOnce', OthersRead', UntilRead'
    PROVE  ReadsInv'
BY ReaderKeepsRows DEF ReadsInv

\* The walk ends without a page.
LEMMA WalkRefused ==
    ASSUME ReadsInv, Reader, walk.status = "asked", walk' = [walk EXCEPT !.status = "refused"]
    PROVE  ReadsInv'
<1> PICK w, t : w = walk /\ t = [w EXCEPT !.status = "refused"]
    OBVIOUS
<1>1. w \in Walks /\ IsFiniteSet(w.others) /\ w.dropped = {} /\ w.status = "asked"
    BY DEF ReadsInv, WalkTyped
<1>2. /\ t \in Walks /\ t.status = "refused" /\ t.others = w.others /\ t.dropped = {}
      /\ t.shown = w.shown /\ t.until = w.until /\ t.at = w.at
    BY <1>1 DEF Walks
<1>3. walk' = t /\ list' = list /\ stood' = stood
    BY ReaderKeepsRows
<1>4. WalkTyped'
    BY <1>1, <1>2, <1>3 DEF WalkTyped
<1>5. StoodShown'
    BY <1>2, <1>3 DEF ReadsInv, StoodShown
<1>6. ShownOnce'
    BY <1>2, <1>3 DEF ReadsInv, ShownOnce
<1>7. OthersRead'
    BY <1>2, <1>3 DEF OthersRead
<1>8. UntilRead'
    <2>1. \A r \in stood : Entry(r)' = Entry(r)
        BY ReaderKeepsRows, StoodThere DEF ReadsInv
    <2> QED BY <1>2, <1>3, <2>1 DEF ReadsInv, UntilRead, Sooner
<1> QED BY <1>4, <1>5, <1>6, <1>7, <1>8, WalkSet

\* A walk begins at the top.
LEMMA StartIs ==
    /\ Start \in Walks /\ IsFiniteSet(Start.others) /\ Start.dropped = {} /\ Start.status = "asked"
    /\ Start.until = Top /\ Start.at = Top /\ \A r \in Rows : Start.shown[r] = 0
<1>1. Top \in Cursors /\ [r \in Rows |-> 0] \in [Rows -> 0 .. 2]
    BY DEF Cursors
<1>2. Start \in Walks /\ Start.others = {} /\ Start.dropped = {} /\ Start.status = "asked"
    BY <1>1 DEF Start, Walks
<1>3. Start.until = Top /\ Start.at = Top /\ \A r \in Rows : Start.shown[r] = 0
    BY DEF Start
<1> QED BY <1>2, <1>3, FS_EmptySet

\* And all of the list has stood since.
LEMMA WalkBegins == RowsRead /\ walk = Start => ReadsInv
<1> SUFFICES ASSUME RowsRead, walk = Start PROVE ReadsInv
    OBVIOUS
<1>1. WalkTyped
    BY StartIs DEF WalkTyped
<1>2. \A r \in stood : r \in Rows
    BY StoodThere
<1>3. StoodShown
    <2>1. \A r \in Rows : walk.shown[r] = 0 /\ Behind(Entry(r), walk.at)
        BY StartIs DEF Behind
    <2> QED BY <1>2, <2>1, StartIs DEF StoodShown, Shown
<1>4. ShownOnce
    BY StartIs DEF ShownOnce
<1>5. OthersRead /\ UntilRead
    BY StartIs DEF OthersRead, UntilRead
<1> QED BY <1>1, <1>3, <1>4, <1>5 DEF ReadsInv

\* A walk that starts over is a new one.
LEMMA StartOverKeeps == ReadsInv /\ StartOver => ReadsInv'
<1>1. ReadsInv /\ StartOver => RowsRead'
    BY DEF ReadsInv, StartOver, RowsRead, Listed, There
<1>2. StartOver => (walk = Start)'
    BY DEF StartOver, Start
<1> QED BY <1>1, <1>2, WalkBegins, PTL

\* Everybody but the owner is read.
LEMMA ListPeopleKeeps == ASSUME ReadsInv, ListPeople PROVE ReadsInv'
<1> PICK w, o : w = walk /\ o = Entries(Listed \ {owner})
    OBVIOUS
<1> PICK t : t = [w EXCEPT !.status = "owner", !.others = o]
    OBVIOUS
<1>1. /\ RowsRead /\ w \in Walks /\ w.dropped = {} /\ w.status = "asked" /\ list = "people"
             /\ Reader
      /\ walk' = t
    BY DEF ReadsInv, WalkTyped, ListPeople, Asked
<1>2. /\ o \in SUBSET Item /\ IsFiniteSet(o)
      /\ \A r \in Listed \ {owner} : Entry(r) \in o
      /\ \A e \in o : e[2] \in Listed \ {owner} /\ e = Entry(e[2])
    <2>1. Listed \ {owner} \in SUBSET There
        BY <1>1, StoodThere
    <2> QED BY <2>1, EntriesAre
<1>3. /\ t \in Walks /\ t.status = "owner" /\ t.others = o /\ t.dropped = {}
      /\ t.shown = w.shown /\ t.until = w.until /\ t.at = w.at
    BY <1>1, <1>2 DEF Walks
<1>4. list' = list /\ stood' = stood /\ owner' = owner /\ \A r \in stood : Entry(r)' = Entry(r)
    BY <1>1, ReaderKeepsRows, StoodThere
<1>5. WalkTyped'
    BY <1>1, <1>2, <1>3, <1>4 DEF WalkTyped
<1>6. StoodShown'
    BY <1>1, <1>3, <1>4 DEF ReadsInv, StoodShown, Shown, Behind
<1>7. ShownOnce'
    BY <1>1, <1>4 DEF ShownOnce
<1>8. OthersRead'
    <2> SUFFICES ASSUME NEW r \in stood
                 PROVE  /\ r # owner => Entry(r) \in o
                        /\ \A e \in o : e[2] = r => e = Entry(r) /\ r # owner
        BY <1>1, <1>3, <1>4 DEF OthersRead
    <2>1. r \in Listed
        BY <1>1, StoodThere
    <2> QED BY <1>2, <2>1
<1>9. UntilRead'
    BY <1>1, <1>3, <1>4 DEF ReadsInv, UntilRead, Sooner
<1> QED BY <1>1, <1>5, <1>6, <1>7, <1>8, <1>9, WalkSet

\* The newest event is looked up.
LEMMA FirstEventKeeps == ASSUME ReadsInv, FirstEvent PROVE ReadsInv'
<1> PICK w, S : w = walk /\ S = Entries(There)
    OBVIOUS
<1>1. /\ RowsRead /\ w \in Walks /\ w.dropped = {} /\ w.status = "asked" /\ list = "events"
             /\ Reader
      /\ IsFiniteSet(w.others)
    BY DEF ReadsInv, WalkTyped, FirstEvent, Asked
<1>2. list' = list /\ stood' = stood /\ \A r \in stood : Entry(r)' = Entry(r)
    BY <1>1, ReaderKeepsRows, StoodThere
<1>3. CASE There = {}
    <2> PICK t : t = [w EXCEPT !.status = "over"]
        OBVIOUS
    <2>1. /\ t \in Walks /\ t.status = "over" /\ t.others = w.others /\ t.dropped = {}
          /\ t.shown = w.shown /\ t.until = w.until
        BY <1>1 DEF Walks
    <2>2. walk' = t /\ stood' = {}
        BY <1>1, <1>2, <1>3, StoodThere DEF FirstEvent
    <2>3. WalkTyped'
        BY <1>1, <2>1, <2>2 DEF WalkTyped
    <2>4. StoodShown' /\ OthersRead' /\ UntilRead'
        BY <2>2 DEF StoodShown, OthersRead, UntilRead
    <2>5. ShownOnce'
        BY <1>2, <2>1, <2>2 DEF ReadsInv, ShownOnce
    <2> QED BY <1>1, <2>3, <2>4, <2>5, WalkSet
<1>4. CASE There # {}
    <2> PICK slice, until : slice = Page(S, 1) /\ until = Cursor(slice)
        OBVIOUS
    <2> PICK t : t = [w EXCEPT !.until = until]
        OBVIOUS
    <2>1. S \in SUBSET Item /\ IsFiniteSet(S) /\ S # {} /\ \A r \in There : Entry(r) \in S
        BY <1>4, EntriesAre
    <2>2. /\ slice \subseteq S /\ IsFiniteSet(slice) /\ slice # {}
          /\ \A e \in slice, f \in S : Sooner(f, e) => f \in slice
        BY <2>1, PageIs
    <2>3. PICK last \in slice : until = <<last[1], last[2]>>
                   /\ \A f \in slice : f = last \/ Sooner(f, last)
        BY <2>1, <2>2, CursorIs
    <2>4. last \in Item /\ last[3] = 0 /\ last[1] \in SortKeys /\ last[2] \in Rows
        <3>1. last = Entry(last[2]) /\ last[2] \in There
            BY <2>2, EntriesAre
        <3> QED BY <3>1, EntryIs
    <2>5. \A f \in S : ~Sooner(f, last)
        <3>1. Cardinality({f \in S : Sooner(f, last)}) < 1
                  /\ IsFiniteSet({f \in S : Sooner(f, last)})
            BY <2>1, <2>2, FS_Subset DEF Page
        <3>2. Cardinality({f \in S : Sooner(f, last)}) \in Nat
            BY <3>1, FS_CardinalityType
        <3>3. {f \in S : Sooner(f, last)} = {}
            BY <3>1, <3>2, FS_EmptySet
        <3> QED BY <3>3
    <2>6. until \in Cursors
        BY <2>3, <2>4 DEF Cursors
    <2>7. /\ t \in Walks /\ t.status = "asked" /\ t.others = w.others /\ t.dropped = {}
          /\ t.shown = w.shown /\ t.until = until /\ t.at = w.at
        BY <1>1, <2>6 DEF Walks
    <2>8. walk' = t
        BY <1>4 DEF FirstEvent
    <2>9. WalkTyped'
        BY <1>1, <1>2, <2>7, <2>8 DEF WalkTyped
    <2>10. StoodShown'
        BY <1>1, <1>2, <2>7, <2>8 DEF ReadsInv, StoodShown, Shown, Behind
    <2>11. ShownOnce'
        <3>1. \A r \in Rows : Behindhand(r)' <=> Behindhand(r)
            BY <1>1, <2>7, <2>8, ReaderKeepsRows DEF Behindhand, Behind
        <3> QED BY <1>1, <1>2, <2>7, <2>8, <3>1 DEF ReadsInv, ShownOnce
    <2>12. OthersRead'
        BY <2>7, <2>8 DEF OthersRead
    <2>13. UntilRead'
        <3>1. (until \o <<0>>)[1] = last[1] /\ (until \o <<0>>)[2] = last[2]
                  /\ (until \o <<0>>)[3] = last[3]
            BY <2>3, <2>4
        <3>2. \A e : Sooner(e, until \o <<0>>) <=> Sooner(e, last)
            BY <3>1 DEF Sooner
        <3> QED BY <1>1, <1>2, <2>1, <2>5, <2>7, <2>8, <3>2, StoodThere DEF UntilRead
    <2> QED BY <1>1, <2>9, <2>10, <2>11, <2>12, <2>13, WalkSet
<1> QED BY <1>3, <1>4

\* The pages of the download end with that event.
LEMMA HistoryKeeps == ASSUME ReadsInv, HistoryCsv PROVE ReadsInv'
<1> DEFINE R == {r \in There : ~Sooner(Entry(r), walk.until \o <<0>>)}
<1>1. /\ list = "events" /\ walk.status = "asked" /\ walk.until # Top /\ Reader
      /\ Turn(Entries(There) \ {e \in Entries(There) : Sooner(e, walk.until \o <<0>>)})
    BY DEF HistoryCsv, Asked
<1>2. Entries(There) \ {e \in Entries(There) : Sooner(e, walk.until \o <<0>>)} = Entries(R)
    BY DEF Entries
<1>3. R \in SUBSET There /\ stood \subseteq R
    BY <1>1, StoodThere DEF ReadsInv, UntilRead
<1> HIDE DEF R
<1> QED BY <1>1, <1>2, <1>3, ListTurns

\* The lists of messages and of chats, each page by one statement.
LEMMA PagesKeep ==
    ASSUME ReadsInv, GetMessages \/ RecentMessages \/ SearchMessages \/ PageChats
    PROVE  ReadsInv'
<1>1. /\ list # "people" /\ walk.status = "asked" /\ Reader
      /\ Turn(Entries(Listed)) \/ walk' = [walk EXCEPT !.status = "refused"]
    BY DEF GetMessages, RecentMessages, SearchMessages, PageChats, Asked
<1>2. Listed \in SUBSET There /\ stood \subseteq Listed
    BY StoodThere DEF ReadsInv
<1> QED BY <1>1, <1>2, ListTurns, WalkRefused

\* The two statements of the export of a chat.
LEMMA ExportKeeps == ASSUME ReadsInv, ExportMessages \/ ExportDeletes PROVE ReadsInv'
<1> PICK w : w = walk
    OBVIOUS
<1>1. /\ RowsRead /\ w \in Walks /\ w.dropped = {} /\ list = "export" /\ Reader
             /\ IsFiniteSet(w.others)
      /\ StoodShown
    BY DEF ReadsInv, WalkTyped, ExportMessages, ExportDeletes, Asked
<1>2. list' = list /\ stood' = stood /\ \A r \in stood : Entry(r)' = Entry(r)
    BY <1>1, ReaderKeepsRows, StoodThere
<1>3. CASE ExportMessages /\ ~here
    BY <1>1, <1>3, WalkRefused DEF ExportMessages, Asked
<1>4. CASE ExportMessages /\ here
    <2> PICK shown : shown = [r \in Rows |-> IF r \in There THEN 1 ELSE 0]
        OBVIOUS
    <2> PICK t : t = [w EXCEPT !.status = "deletes", !.shown = shown]
        OBVIOUS
    <2>1. shown \in [Rows -> 0 .. 2] /\ \A r \in Rows : shown[r] = IF r \in There THEN 1 ELSE 0
        OBVIOUS
    <2>2. /\ t \in Walks /\ t.status = "deletes" /\ t.others = w.others /\ t.dropped = {}
          /\ t.shown = shown /\ t.until = w.until
        BY <1>1, <2>1 DEF Walks
    <2>3. walk' = t
        BY <1>4 DEF ExportMessages
    <2>4. WalkTyped'
        BY <1>1, <1>2, <2>2, <2>3 DEF WalkTyped
    <2>5. \A r \in stood : r \in Rows /\ r \in There
        BY <1>1, StoodThere
    <2>6. StoodShown'
        BY <1>2, <2>1, <2>2, <2>3, <2>5 DEF StoodShown
    <2>7. ShownOnce'
        BY <2>1, <2>2, <2>3 DEF ShownOnce
    <2>8. OthersRead'
        BY <2>2, <2>3 DEF OthersRead
    <2>9. UntilRead'
        BY <1>2, <2>2, <2>3 DEF ReadsInv, UntilRead, Sooner
    <2> QED BY <1>1, <2>4, <2>6, <2>7, <2>8, <2>9, WalkSet
<1>5. CASE ExportDeletes
    <2> PICK dropped : dropped = {r \in Rows : key[r] = Gone}
        OBVIOUS
    <2> PICK t : t = [w EXCEPT !.status = "over", !.dropped = dropped]
        OBVIOUS
    <2>1. /\ t \in Walks /\ t.status = "over" /\ t.others = w.others /\ t.dropped = dropped
          /\ t.shown = w.shown /\ t.until = w.until
        BY <1>1 DEF Walks
    <2>2. walk' = t /\ w.status = "deletes"
        BY <1>5 DEF ExportDeletes
    <2>3. WalkTyped'
        BY <1>1, <1>2, <2>1, <2>2 DEF WalkTyped
    <2>4. \A r \in stood : r \notin dropped
        BY <1>1, StoodThere
    <2>5. StoodShown'
        BY <1>1, <1>2, <2>1, <2>2, <2>4 DEF StoodShown
    <2>6. ShownOnce'
        BY <1>2, <2>1, <2>2 DEF ReadsInv, ShownOnce
    <2>7. OthersRead'
        BY <2>1, <2>2 DEF OthersRead
    <2>8. UntilRead'
        BY <1>2, <2>1, <2>2 DEF ReadsInv, UntilRead, Sooner
    <2> QED BY <1>1, <2>3, <2>5, <2>6, <2>7, <2>8, WalkSet
<1> QED BY <1>3, <1>4, <1>5

\* What the others do: no row that was shown comes before the reader again, and
\* what still stands is where it was.
LEMMA OthersKeep ==
    ASSUME ReadsInv, UNCHANGED <<list, walk>>, RowsRead', stood' \subseteq stood,
           \A r \in stood' : key'[r] = key[r] /\ (r = owner' <=> r = owner),
           \A r \in Rows : list # "people" /\ walk.status = "asked" /\ walk.shown[r] # 0
               => Behindhand(r)'
    PROVE  ReadsInv'
<1>1. \A r \in stood' : Entry(r)' = Entry(r) /\ r \in stood
    BY DEF Entry
<1>2. WalkTyped'
    BY DEF ReadsInv, WalkTyped
<1>3. StoodShown'
    BY <1>1 DEF ReadsInv, StoodShown, Shown, Behind
<1>4. ShownOnce'
    BY DEF ReadsInv, ShownOnce
<1>5. OthersRead'
    BY <1>1 DEF ReadsInv, OthersRead
<1>6. UntilRead'
    BY <1>1 DEF ReadsInv, UntilRead, Sooner
<1> QED BY <1>2, <1>3, <1>4, <1>5, <1>6 DEF ReadsInv

\* A row nobody touches stays behind.
LEMMA StaysBehind ==
    ASSUME ReadsInv, UNCHANGED walk, NEW r \in Rows, key'[r] = key[r] \/ key'[r] = Gone,
           list # "people", walk.status = "asked", walk.shown[r] # 0
    PROVE  Behindhand(r)'
<1>1. key[r] # Never /\ (r \in There => ~Behind(Entry(r), walk.at))
    BY DEF ReadsInv, ShownOnce, Behindhand
<1>2. Gone # Never /\ Gone \notin SortKeys
    BY ReadsAssumption DEF Gone, Never
<1>3. CASE key'[r] = key[r]
    BY <1>1, <1>3 DEF Behindhand, There, Entry, Behind
<1>4. CASE key'[r] = Gone
    BY <1>2, <1>4 DEF Behindhand, There
<1> QED BY <1>3, <1>4

\* A row appears.
LEMMA AppearsKeeps ==
    ASSUME ReadsInv, NEW r \in Rows, NEW k \in SortKeys, Insert(r, k) \/ Happen(r, k)
    PROVE  ReadsInv'
<1>1. /\ key[r] = Never /\ key' = [key EXCEPT ![r] = k]
      /\ UNCHANGED <<list, aside, owner, here, walk, stood>> /\ RowsRead
    BY DEF Insert, Happen, ReadsInv
<1>2. key' \in [Rows -> SortKeys \cup {Never, Gone}] /\ \A q \in Rows : q # r => key'[q] = key[q]
    BY <1>1 DEF RowsRead
<1>3. r \notin There
    BY <1>1, StoodThere
<1>4. There \subseteq There'
    BY <1>2, <1>3 DEF There
<1>5. RowsRead'
    BY <1>1, <1>2, <1>4 DEF RowsRead, Listed
<1>6. \A q \in stood : q # r /\ q \in Rows
    BY <1>1, <1>3, StoodThere
<1>7. ASSUME NEW q \in Rows, list # "people", walk.status = "asked", walk.shown[q] # 0
      PROVE  Behindhand(q)'
    <2>1. q # r
        BY <1>1, <1>7 DEF ReadsInv, ShownOnce, Behindhand
    <2> QED BY <1>1, <1>2, <1>7, <2>1, StaysBehind
<1> QED BY <1>1, <1>2, <1>5, <1>6, <1>7, OthersKeep

\* A row goes.
LEMMA GoesKeeps ==
    ASSUME ReadsInv, NEW r \in Rows, Remove(r) \/ Trim(r)
    PROVE  ReadsInv'
<1>1. /\ r \in There /\ key' = [key EXCEPT ![r] = Gone] /\ stood' = stood \ {r}
      /\ UNCHANGED <<list, aside, here, walk>> /\ RowsRead
      /\ owner' = (IF owner = r THEN Never ELSE owner) \/ (owner' = owner /\ list = "events")
    BY DEF Remove, Trim, ReadsInv
<1>2. key' \in [Rows -> SortKeys \cup {Never, Gone}] /\ key'[r] = Gone
      /\ \A q \in Rows : q # r => key'[q] = key[q]
    BY <1>1 DEF RowsRead
<1>3. There' = There \ {r}
    <2>1. Gone \notin SortKeys
        BY ReadsAssumption DEF Gone
    <2> QED BY <1>2, <2>1 DEF There
<1>4. owner' \in There' \cup {Never} /\ (list # "people" => owner' = Never)
    BY <1>1, <1>3, StoodThere DEF RowsRead
<1>5. RowsRead'
    BY <1>1, <1>2, <1>3, <1>4 DEF RowsRead, Listed
<1>6. \A q \in stood' : q \in Rows /\ q # r /\ (q = owner' <=> q = owner)
    BY <1>1, StoodThere
<1>7. \A q \in Rows : list # "people" /\ walk.status = "asked" /\ walk.shown[q] # 0
          => Behindhand(q)'
    BY <1>1, <1>2, StaysBehind
<1> QED BY <1>1, <1>2, <1>5, <1>6, <1>7, OthersKeep

\* A chat goes with all its rows.
LEMMA DeleteChatKeeps == ASSUME ReadsInv, DeleteChat PROVE ReadsInv'
<1>1. /\ key' = [r \in Rows |-> Gone] /\ stood' = {} /\ here' = FALSE
      /\ UNCHANGED <<list, aside, owner, walk>> /\ RowsRead /\ list # "people"
    BY DEF DeleteChat, ReadsInv
<1>2. RowsRead'
    BY <1>1 DEF RowsRead
<1>3. \A q \in Rows : list # "people" /\ walk.status = "asked" /\ walk.shown[q] # 0
          => Behindhand(q)'
    BY <1>1, StaysBehind
<1> QED BY <1>1, <1>2, <1>3, OthersKeep

\* A row gets another key: a chat moves to the front, a person may go anywhere.
LEMMA MovesKeeps ==
    ASSUME ReadsInv, NEW r \in Rows, NEW k \in SortKeys, Bump(r, k) \/ Rename(r, k)
    PROVE  ReadsInv'
<1>1. /\ r \in There /\ key' = [key EXCEPT ![r] = k] /\ stood' = stood \ {r}
      /\ UNCHANGED <<list, aside, here, owner, walk>> /\ RowsRead
      /\ list = "people" \/ k > key[r]
    BY DEF Bump, Rename, ReadsInv
<1>2. key' \in [Rows -> SortKeys \cup {Never, Gone}] /\ key'[r] = k
      /\ \A q \in Rows : q # r => key'[q] = key[q]
    BY <1>1 DEF RowsRead
<1>3. There' = There
    BY <1>1, <1>2 DEF There
<1>4. RowsRead'
    BY <1>1, <1>2, <1>3 DEF RowsRead, Listed
<1>5. \A q \in stood' : q \in Rows /\ q # r
    BY <1>1, StoodThere
<1>6. ASSUME NEW q \in Rows, list # "people", walk.status = "asked", walk.shown[q] # 0
      PROVE  Behindhand(q)'
    <2>1. CASE q # r
        BY <1>1, <1>2, <1>6, <2>1, StaysBehind
    <2>2. CASE q = r
        <3> PICK at, old : at = walk.at /\ old = key[r]
            OBVIOUS
        <3>1. at # Top /\ ~(old < at[1]) /\ k > old
            BY <1>1, <1>6, <2>2, EntryIs DEF ReadsInv, ShownOnce, Behindhand, Behind
        <3>2. at[1] \in Nat /\ old \in Nat /\ k \in Nat
            <4>1. at \in Cursors /\ old \in SortKeys
                BY <1>1, EntryIs DEF ReadsInv, WalkTyped, Walks
            <4> QED BY <3>1, <4>1, ReadsAssumption DEF Cursors
        <3>3. ~(k < at[1]) /\ k # at[1] /\ k # Never
            BY <3>1, <3>2, ReadsAssumption DEF Never
        <3>4. Entry(r)'[1] = k
            BY <1>2 DEF Entry
        <3> QED BY <1>1, <1>2, <2>2, <3>1, <3>3, <3>4 DEF Behindhand, Behind
    <2> QED BY <2>1, <2>2
<1> QED BY <1>1, <1>2, <1>4, <1>5, <1>6, OthersKeep

\* A person becomes the owner, or a message matches a search no longer or again.
LEMMA MarksKeeps ==
    ASSUME ReadsInv, NEW r \in Rows, Promote(r) \/ Reword(r)
    PROVE  ReadsInv'
<1>1. /\ r \in There /\ stood' = stood \ {r} /\ UNCHANGED <<list, key, here, walk>> /\ RowsRead
      /\ \/ list = "people" /\ owner = Never /\ owner' = r /\ aside' = aside
         \/ list = "search" /\ owner' = owner
            /\ aside' = IF r \in aside THEN aside \ {r} ELSE aside \cup {r}
    BY DEF Promote, Reword, ReadsInv
<1>2. There' = There
    BY <1>1 DEF There
<1>3. RowsRead'
    BY <1>1, <1>2 DEF RowsRead, Listed
<1>4. \A q \in stood' : q # r /\ q \in Rows /\ (q = owner' <=> q = owner)
    BY <1>1, StoodThere
<1>5. \A q \in Rows : list # "people" /\ walk.status = "asked" /\ walk.shown[q] # 0
          => Behindhand(q)'
    BY <1>1, StaysBehind
<1> QED BY <1>1, <1>3, <1>4, <1>5, OthersKeep

\* What holds of a walk and of the rows under it holds whoever takes the next
\* step.
THEOREM ReadsInductive == ReadsSpec => []ReadsInv
<1>1. ReadsInit => ReadsInv
    <2> SUFFICES ASSUME ReadsInit PROVE ReadsInv
        OBVIOUS
    <2>1. key \in [Rows -> SortKeys \cup {Never, Gone}]
        BY DEF ReadsInit
    <2>2. RowsRead /\ walk = Start
        BY <2>1 DEF ReadsInit, RowsRead
    <2> QED BY <2>2, WalkBegins
<1>2. ReadsInv /\ [ReadsNext]_readsVars => ReadsInv'
    <2> SUFFICES ASSUME ReadsInv, [ReadsNext]_readsVars PROVE ReadsInv'
        OBVIOUS
    <2>1. CASE \E r \in Rows, k \in SortKeys :
                    Insert(r, k) \/ Happen(r, k) \/ Bump(r, k) \/ Rename(r, k)
        BY <2>1, AppearsKeeps, MovesKeeps
    <2>2. CASE \E r \in Rows : Remove(r) \/ Trim(r) \/ Promote(r) \/ Reword(r)
        BY <2>2, GoesKeeps, MarksKeeps
    <2>3. CASE NothingToServe
        BY <2>3, WalkRefused DEF NothingToServe
    <2>4. CASE UNCHANGED readsVars
        <3>1. ReadsInv' <=> ReadsInv
            BY <2>4 DEF readsVars, ReadsInv, RowsRead, WalkTyped, StoodShown, ShownOnce, OthersRead,
                        UntilRead, Shown, Behindhand, Behind, Entry, Sooner, There, Listed
        <3> QED BY <3>1
    <2> QED BY <2>1, <2>2, <2>3, <2>4, DeleteChatKeeps, PagesKeep, ListPeopleKeeps, PeopleTurns,
               FirstEventKeeps, HistoryKeeps, ExportKeeps, StartOverKeeps DEF ReadsNext
<1> QED BY <1>1, <1>2, PTL DEF ReadsSpec

\* A walk and the rows under it keep their types, and who has stood is listed.
THEOREM ReadsTyped == ReadsSpec => []ReadsTypeOK
<1>1. ReadsInv => ReadsTypeOK
    BY DEF ReadsInv, RowsRead, WalkTyped, Walks, ReadsTypeOK
<1> QED BY <1>1, ReadsInductive, PTL

\* Whatever is written between two pages: no line comes twice in one walk, but
\* for a person who moved, and a finished walk has shown all that stood in the
\* list from its beginning to its end.
THEOREM WalksFaithful == ReadsSpec => []ReadsFaithful
<1>1. ReadsInv => ReadsFaithful
    BY DEF ReadsInv, StoodShown, ShownOnce, ReadsFaithful, NothingTwice, NothingMissed
<1> QED BY <1>1, ReadsInductive, PTL

-----------------------------------------------------------------------------
(* The four services of one run.                                           *)

\* Whichever of the four runs, each behaves as its own specification says: what
\* is proved of one component holds of the composition that the run explores.
LEMMA ComponentsBehave == MCSpec => IngestSpec /\ AccessSpec /\ Spec /\ ReadsSpec
<1>1. MCInit => IngestInit /\ AccessInit /\ Init /\ ReadsInit
    BY DEF MCInit
<1>2. [MCNext]_allVars => [IngestNext]_ingestVars
    BY DEF MCNext, allVars
<1>3. [MCNext]_allVars => [AccessNext]_accessVars
    BY DEF MCNext, allVars
<1>4. [MCNext]_allVars => [Next]_vars
    BY DEF MCNext, allVars
<1>5. [MCNext]_allVars => [ReadsNext]_readsVars
    BY DEF MCNext, allVars
<1> QED BY <1>1, <1>2, <1>3, <1>4, <1>5, PTL DEF MCSpec, IngestSpec, AccessSpec, Spec, ReadsSpec

\* The state of the four keeps the shape its tables and its code give it, and
\* the marker of a history is never in a directory without credentials.
THEOREM ServicesTyped == MCSpec => []ServicesTypeOK
<1>1. IngestTypeOK /\ AccessTypeOK /\ TypeOK /\ ReadsTypeOK => ServicesTypeOK
    BY DEF ServicesTypeOK
<1> QED BY <1>1, ComponentsBehave, IngestTyped, AccessTyped, WhatsAppTypes, ReadsTyped, PTL
=============================================================================
