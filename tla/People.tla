------------------------------- MODULE People -------------------------------
(***************************************************************************)
(* The address book: the people rows, the channel identities linked to     *)
(* them, the worker's populatePeople pass and the owner's own edits.       *)
(*                                                                         *)
(* The portal and the worker are two processes on one database, so each    *)
(* statement of a pass may be separated from the next by a statement of    *)
(* the portal.  Within a process the statements of an operation follow     *)
(* one another without waiting for I/O: there is one pass at a time, one   *)
(* operation of the owner at a time, and nothing is read from a channel    *)
(* during a pass.                                                          *)
(***************************************************************************)
EXTENDS Integers, FiniteSets, FiniteSetsExt

CONSTANTS
    Telegram, WhatsApp,  \* the identities of each channel
    OwnAccounts,         \* the identities that are the owner's own accounts
    PhoneOf,             \* an identity's phone number
    Names,               \* what contact lists and chats call somebody
    Aliases,             \* what the owner types
    ChatName,            \* the name in a chat's title, and of the owner's accounts
    None,                \* no name, no phone number, nothing in progress
    MaxPeople,           \* BOUND on the rows ever inserted into people
    MaxActs,             \* BOUND on the operations of the owner
    MaxSyncs             \* BOUND on contacts and chats read from a channel

Identities == Telegram \cup WhatsApp

ASSUME PeopleAssumption ==
    /\ Telegram \cap WhatsApp = {} /\ OwnAccounts \subseteq Identities
    /\ ChatName \in Names /\ Names \cap Aliases = {} /\ None \notin Names \cup Aliases
    /\ PhoneOf \in [Identities -> {PhoneOf[i] : i \in Identities}]
    /\ None \notin {PhoneOf[i] : i \in Identities}
    /\ MaxPeople \in Nat \ {0} /\ MaxActs \in Nat /\ MaxSyncs \in Nat

VARIABLES
    people,   \* the people rows, by the order they were inserted in
    link,     \* person_identities: the person of an identity, or 0
    phone,    \* person_identities.phone, None without a link
    contacts, \* channel_contacts: what the cache says of an identity
    heard,    \* identities with a direct chat, or a message in a group
    pc,       \* what the pass does next
    todo,     \* the accounts, candidates or merges its loop has left
    pass,     \* what the pass has read
    desk,     \* what the owner's operation has read, or None
    quiet,    \* whether anything has changed since the last pass began
    acts, syncs

rows == <<people, link, phone>>
channelVars == <<contacts, heard, syncs>>
passVars == <<pc, todo, pass>>
vars == <<rows, channelVars, passVars, desk, quiet, acts>>

Ids == 1..MaxPeople
Phones == {PhoneOf[i] : i \in Identities}
Row == [there: BOOLEAN, name: Names \cup Aliases \cup {None},
        source: {"channel", "owner"}, archived: BOOLEAN, isOwner: BOOLEAN]
NoRow == [there |-> FALSE, name |-> None, source |-> "channel", archived |-> FALSE,
          isOwner |-> FALSE]
Unknown == [name |-> None, phone |-> None]

\* pass.row is the person a loop works for, pass.for the identity to link;
\* pass.hidden, pass.names and pass.holders are snapshots.
NoPass == [row |-> 0, for |-> None, made |-> 0, holders |-> {},
           hidden |-> [n \in Phones |-> 0], names |-> [p \in Ids |-> None]]

\* An archive from before there was an owner row has a contact for the owner's
\* own accounts.
Init ==
    /\ \E before \in {FALSE, OwnAccounts # {}} :
        /\ people = [p \in Ids |-> IF before /\ p = 1 THEN [NoRow EXCEPT !.there = TRUE,
                                            !.name = ChatName] ELSE NoRow]
        /\ link = [i \in Identities |-> IF before /\ i \in OwnAccounts THEN 1 ELSE 0]
    /\ phone = [i \in Identities |-> None]
    /\ contacts = [i \in Identities |-> Unknown]
    /\ heard = [i \in Identities |-> "none"]
    /\ pc = "idle" /\ todo = {} /\ pass = NoPass
    /\ desk = None
    /\ quiet = "no"
    /\ acts = 0 /\ syncs = 0

-----------------------------------------------------------------------------
(* The statements, as the rows they leave.                                 *)

There(p) == p \in Ids /\ people[p].there
Alive(p) == There(p) /\ ~people[p].archived
IdentitiesOf(p) == {i \in Identities : link[i] = p}

\* A row is inserted with the next id: ids are in the order of created_at.
Fresh == 1 + Cardinality({p \in Ids : people[p] # NoRow})
CanInsert == Fresh \in Ids

Insert(name, source, isOwner) ==
    people' = [people EXCEPT ![Fresh] =
        [there |-> TRUE, name |-> name, source |-> source, archived |-> FALSE,
         isOwner |-> isOwner]]

\* The row of a deleted person is never given out again.
Deleted(row) == [row EXCEPT !.there = FALSE, !.isOwner = FALSE]

\* Its identities go with it: ON DELETE CASCADE.
Delete(p) ==
    /\ people' = [people EXCEPT ![p] = Deleted(@)]
    /\ link' = [i \in Identities |-> IF link[i] = p THEN 0 ELSE link[i]]
    /\ phone' = [i \in Identities |-> IF link[i] = p THEN None ELSE phone[i]]

\* phoneFromJid: a WhatsApp identity is a phone number.
JidPhone(i) == IF i \in WhatsApp THEN PhoneOf[i] ELSE None

\* A candidate's number: that of its contact, or of its id.
PhoneSeen(i) == IF contacts[i].phone # None THEN contacts[i].phone ELSE JidPhone(i)

\* FAULTY: no foreign key.
LinkableToAnybody(p, i) == link[i] = 0

\* The insert of linkIdentity: the unique index and the foreign key decide.
Linkable(p, i) == There(p) /\ link[i] = 0

LinkInsert(p, i, number) ==
    IF Linkable(p, i)
    THEN /\ link' = [link EXCEPT ![i] = p]
         /\ phone' = [phone EXCEPT ![i] = number]
         /\ UNCHANGED people
    ELSE UNCHANGED rows

\* FAULTY: a hidden person is merged away.
MayMergeHidden(from, into) ==
    from # into /\ There(from) /\ Alive(into) /\ ~people[from].isOwner

\* mergePeople, one transaction with its own check of the two rows.
MayMerge(from, into) ==
    from # into /\ Alive(from) /\ Alive(into) /\ ~people[from].isOwner

Survivor(from, into) ==
    IF people[into].source = "channel" /\ people[from].source = "owner"
    THEN [people[into] EXCEPT !.name = people[from].name, !.source = "owner"]
    ELSE people[into]

Merge(from, into) ==
    IF MayMerge(from, into)
    THEN /\ link' = [i \in Identities |-> IF link[i] = from THEN into ELSE link[i]]
         /\ people' = [people EXCEPT ![into] = Survivor(from, into),
                                     ![from] = Deleted(@)]
         /\ UNCHANGED phone
    ELSE UNCHANGED rows

-----------------------------------------------------------------------------
(* What the worker reads from the channels between two passes.             *)

\* syncContacts: an upsert.  A contact may come with a phone number or not; one
\* without a name is left out.
SyncContact(i, name, number) ==
    /\ pc = "idle" /\ syncs < MaxSyncs
    /\ number \in {JidPhone(i), PhoneOf[i]}
    /\ contacts' = [contacts EXCEPT ![i] = [name |-> name, phone |-> number]]
    /\ syncs' = syncs + 1
    /\ quiet' = "no"
    /\ UNCHANGED <<rows, heard, passVars, desk, acts>>

\* A message or a chat is ingested.
Hear(i, kind) ==
    /\ pc = "idle" /\ syncs < MaxSyncs
    /\ heard[i] # "dm" /\ heard[i] # kind
    /\ heard' = [heard EXCEPT ![i] = kind]
    /\ syncs' = syncs + 1
    /\ quiet' = "no"
    /\ UNCHANGED <<rows, contacts, passVars, desk, acts>>

-----------------------------------------------------------------------------
(* populatePeople.  Each step of it is one statement of the worker.        *)

Worker(here) == pc = here /\ UNCHANGED <<channelVars, desk, acts>>

Loop(here, there, left, pass1) ==
    /\ pc' = IF left = {} THEN there ELSE here
    /\ todo' = left
    /\ pass' = pass1
    /\ UNCHANGED quiet

Go(there, left, pass1) ==
    /\ pc' = there /\ todo' = left /\ pass' = pass1
    /\ UNCHANGED quiet

PassBegin ==
    /\ Worker("idle")
    /\ pc' = (IF OwnAccounts = {} THEN "hidden" ELSE "holders")
    /\ todo' = OwnAccounts /\ pass' = NoPass
    /\ quiet' = IF quiet = "settled" THEN "settled" ELSE "pass"
    /\ UNCHANGED rows

\* ensureOwnerPerson: who holds one of the owner's own accounts.
OwnHolder(i) ==
    /\ Worker("holders")
    /\ i \in todo
    /\ LET p == link[i]
           holder == p # 0 /\ Alive(p) /\ ~people[p].isOwner
       IN Loop("holders", "ownerRow", todo \ {i},
               IF holder THEN [pass EXCEPT !.holders = @ \cup {p}] ELSE pass)
    /\ UNCHANGED rows

\* FAULTY: a hidden owner is not found.
OwnerRowsShown == {p \in Ids : Alive(p) /\ people[p].isOwner}

OwnerRows == {p \in Ids : There(p) /\ people[p].isOwner}

\* The holders that are not the owner row itself are folded into it.
Fold(owner) ==
    IF pass.holders \ {owner} = {}
    THEN Go("ownLink", OwnAccounts, [pass EXCEPT !.row = owner])
    ELSE Go("fold", pass.holders \ {owner}, [pass EXCEPT !.row = owner])

OwnerFound ==
    /\ Worker("ownerRow")
    /\ OwnerRows # {}
    /\ \E p \in OwnerRows : Fold(p)
    /\ UNCHANGED rows

\* The oldest holder becomes the owner; with the holders gone the pass fails.
OwnerPick ==
    /\ Worker("ownerRow")
    /\ OwnerRows = {} /\ pass.holders # {}
    /\ LET left == {p \in pass.holders : There(p)} IN
       IF left = {} THEN Go("idle", {}, NoPass)
       ELSE Go("promote", {}, [pass EXCEPT !.row = Min(left)])
    /\ UNCHANGED rows

OwnerPromote ==
    /\ Worker("promote")
    /\ people' = IF There(pass.row) THEN [people EXCEPT ![pass.row].isOwner = TRUE] ELSE people
    /\ Fold(pass.row)
    /\ UNCHANGED <<link, phone>>

OwnerInsert ==
    /\ Worker("ownerRow")
    /\ OwnerRows = {} /\ pass.holders = {} /\ CanInsert
    /\ Insert(ChatName, "channel", TRUE)
    /\ Go("ownLink", OwnAccounts, [pass EXCEPT !.row = Fresh])
    /\ UNCHANGED <<link, phone>>

FoldHolder(p) ==
    /\ Worker("fold")
    /\ p \in todo
    /\ Merge(p, pass.row)
    /\ IF todo = {p} THEN Go("ownLink", OwnAccounts, pass) ELSE Go("fold", todo \ {p}, pass)

\* linkIdentity(row, account): its two reads, then its insert.
OwnLink(i) ==
    /\ Worker("ownLink")
    /\ i \in todo
    /\ IF Linkable(pass.row, i)
       THEN Go("ownInsert", todo \ {i}, [pass EXCEPT !.for = i])
       ELSE Loop("ownLink", "hidden", todo \ {i}, pass)
    /\ UNCHANGED rows

OwnInsert ==
    /\ Worker("ownInsert")
    /\ LinkInsert(pass.row, pass.for, JidPhone(pass.for))
    /\ Loop("ownLink", "hidden", todo, [pass EXCEPT !.for = None])

\* archivedPeopleByPhone: read once for the whole pass.
HiddenByPhone(n) ==
    LET hidden == {link[i] : i \in {j \in Identities : phone[j] = n}} \cap
                  {p \in Ids : There(p) /\ people[p].archived}
    IN IF hidden = {} THEN 0 ELSE Min(hidden)

ReadHidden ==
    /\ Worker("hidden")
    /\ Go("telegram", {}, [pass EXCEPT !.row = 0, !.hidden = [n \in Phones |-> HiddenByPhone(n)]])
    /\ UNCHANGED rows

\* listIdentityCandidates: a contact's name wins over that of a chat.
NameSeen(i) == IF contacts[i] # Unknown THEN contacts[i].name ELSE ChatName
IsCandidate(i) == contacts[i] # Unknown \/ heard[i] = "dm"

\* FAULTY: an identity that has a person is a candidate again.
CandidatesLinkedToo(channel) == {i \in channel : IsCandidate(i)}

Candidates(channel) == {i \in channel : IsCandidate(i) /\ link[i] = 0}

Channels == {<<"telegram", Telegram, "whatsapp">>, <<"whatsapp", WhatsApp, "refresh">>}

ReadCandidates ==
    \E c \in Channels :
        /\ Worker(c[1])
        /\ LET left == Candidates(c[2]) IN
           IF left = {} THEN Go(c[3], {}, pass) ELSE Go("each", left, pass)
        /\ UNCHANGED rows

HiddenFor(i) == IF PhoneSeen(i) = None THEN 0 ELSE pass.hidden[PhoneSeen(i)]

\* Somebody the owner hid, on a second channel: the identity joins them.
EachHidden(i) ==
    /\ Worker("each") /\ i \in todo
    /\ HiddenFor(i) # 0
    /\ LET p == HiddenFor(i) IN
           Go(IF Linkable(p, i) THEN "eachInsert" ELSE "each",
              todo \ {i}, [pass EXCEPT !.row = p, !.for = i])
    /\ UNCHANGED rows

EachCreate(i) ==
    /\ Worker("each") /\ i \in todo
    /\ HiddenFor(i) = 0
    /\ CanInsert
    /\ Insert(NameSeen(i), "channel", FALSE)
    /\ Go("eachLink", todo \ {i}, [pass EXCEPT !.row = Fresh, !.for = i, !.made = Fresh])
    /\ UNCHANGED <<link, phone>>

EachLink ==
    /\ Worker("eachLink")
    /\ Go(IF Linkable(pass.row, pass.for) THEN "eachInsert" ELSE "drop", todo, pass)
    /\ UNCHANGED rows

EachInsert ==
    /\ Worker("eachInsert")
    /\ LinkInsert(pass.row, pass.for, PhoneSeen(pass.for))
    /\ IF Linkable(pass.row, pass.for) \/ pass.made = 0
       THEN Go("each", todo, [pass EXCEPT !.made = 0])
       ELSE Go("drop", todo, pass)

\* Lost a race for the identity: the person made for it goes.
EachDrop ==
    /\ Worker("drop")
    /\ Delete(pass.made)
    /\ Go("each", todo, [pass EXCEPT !.made = 0])

EachDone ==
    /\ Worker("each") /\ todo = {}
    /\ Go(IF pass.for \in Telegram THEN "whatsapp" ELSE "refresh", {}, [pass EXCEPT !.for = None])
    /\ UNCHANGED rows

\* refreshIdentities.  Nobody else writes the cache or a linked number.
RefreshIdentities ==
    /\ Worker("refresh")
    /\ phone' = [i \in Identities |->
                    IF link[i] # 0 /\ contacts[i].phone # None THEN contacts[i].phone ELSE phone[i]]
    /\ Go("group", {}, pass)
    /\ UNCHANGED <<people, link>>

\* mergeByPhone: who shares a number across the channels, the oldest survives.
Sharing(n) ==
    LET on(channel) == {link[i] : i \in {j \in channel : phone[j] = n}} \cap
                       {p \in Ids : Alive(p) /\ ~people[p].isOwner}
    IN IF on(Telegram) = {} \/ on(WhatsApp) = {} THEN {} ELSE on(Telegram) \cup on(WhatsApp)

ByPhone ==
    /\ Worker("group")
    /\ LET pairs == UNION {{<<p, Min(Sharing(n))>> : p \in Sharing(n) \ {Min(Sharing(n))}} :
                                n \in {m \in Phones : Sharing(m) # {}}}
       IN Loop("merge", "names", pairs, pass)
    /\ UNCHANGED rows

MergeShared(pair) ==
    /\ Worker("merge")
    /\ pair \in todo
    /\ Merge(pair[1], pair[2])
    /\ Loop("merge", "names", todo \ {pair}, pass)

\* refreshChannelNames: what to call whom is read at once, then written.
Follows(p) == Alive(p) /\ people[p].source = "channel" /\ ~people[p].isOwner

\* channelNamesFor: the contact of the identity linked first, Telegram before
\* WhatsApp.
ChannelName(p) ==
    LET named(channel) == {i \in channel : link[i] = p /\ contacts[i].name # None}
        first == IF named(Telegram) # {} THEN named(Telegram) ELSE named(WhatsApp)
    IN IF first = {} THEN {} ELSE {contacts[i].name : i \in first}

ReadNames ==
    /\ Worker("names")
    /\ \E names \in [Ids -> Names \cup {None}] :
        /\ \A p \in Ids :
            IF ~Follows(p) \/ ChannelName(p) \in {{}, {people[p].name}} THEN names[p] = None
            ELSE names[p] \in ChannelName(p)
        /\ Loop("rename", "end", {p \in Ids : names[p] # None}, [pass EXCEPT !.names = names])
    /\ UNCHANGED rows

\* FAULTY: only the id is in the WHERE.
RenamesAnybody(p) == There(p)

\* The predicates of the read are repeated in the write.
Renames(p) == Follows(p)

Rename(p) ==
    /\ Worker("rename")
    /\ p \in todo
    /\ people' = IF Renames(p) THEN [people EXCEPT ![p].name = pass.names[p]] ELSE people
    /\ Loop("rename", "end", todo \ {p}, pass)
    /\ UNCHANGED <<link, phone>>

PassEnd ==
    /\ Worker("end")
    /\ pc' = "idle" /\ todo' = {} /\ pass' = NoPass
    /\ quiet' = IF quiet = "no" THEN "no" ELSE "settled"
    /\ UNCHANGED rows

\* A statement throws or the worker dies: the next pass starts afresh.
PassFails ==
    /\ pc # "idle"
    /\ pc' = "idle" /\ todo' = {} /\ pass' = NoPass
    /\ quiet' = "no"
    /\ UNCHANGED <<rows, channelVars, desk, acts>>

-----------------------------------------------------------------------------
(* The owner, in the portal.                                               *)

OwnerActs ==
    /\ desk = None /\ acts < MaxActs
    /\ acts' = acts + 1
    /\ quiet' = "no"
    /\ UNCHANGED <<channelVars, passVars>>

CreatePerson(name) ==
    /\ OwnerActs
    /\ CanInsert /\ Insert(name, "owner", FALSE)
    /\ UNCHANGED <<link, phone, desk>>

\* archivePerson and restorePerson, each one guarded update.
Hide(p) ==
    /\ OwnerActs
    /\ Alive(p)
    /\ people' = [people EXCEPT ![p].archived = TRUE]
    /\ UNCHANGED <<link, phone, desk>>

\* Bounded by the people hidden.
Restore(p) ==
    /\ desk = None
    /\ There(p) /\ people[p].archived
    /\ people' = [people EXCEPT ![p].archived = FALSE]
    /\ quiet' = "no"
    /\ UNCHANGED <<link, phone, channelVars, passVars, desk, acts>>

MergeByHand(from, into) ==
    /\ OwnerActs
    /\ MayMerge(from, into) /\ Merge(from, into)
    /\ UNCHANGED desk

Unlink(i) ==
    /\ OwnerActs
    /\ link[i] # 0
    /\ link' = [link EXCEPT ![i] = 0]
    /\ phone' = [phone EXCEPT ![i] = None]
    /\ UNCHANGED <<people, desk>>

\* An operation that reads first: the rest of it is under way.
Desk(op, p, i, name) ==
    /\ OwnerActs
    /\ desk' = [op |-> op, person |-> p, identity |-> i, name |-> name]
    /\ UNCHANGED rows

\* updatePersonAction: a name that differs from the stored one was typed.
SaveRead(p, name) ==
    /\ Alive(p)
    /\ Desk("save", p, None, IF name = people[p].name THEN None ELSE name)

\* resetName: the channel's name, else the one it has.
ResetRead(p) ==
    /\ Alive(p)
    /\ \E name \in IF ChannelName(p) = {} THEN {people[p].name} ELSE ChannelName(p) :
        Desk("reset", p, None, name)

\* linkIdentityAction: a candidate of any kind, to a person still there.
LinkRead(p, i) ==
    /\ Linkable(p, i)
    /\ IsCandidate(i) \/ heard[i] = "sender"
    /\ Desk("link", p, i, None)

Written(p) ==
    IF desk.op = "reset" THEN [people[p] EXCEPT !.name = desk.name, !.source = "channel"]
    ELSE IF desk.name # None THEN [people[p] EXCEPT !.name = desk.name, !.source = "owner"]
    ELSE people[p]

DeskWrite ==
    /\ desk # None
    /\ desk' = None /\ quiet' = "no"
    /\ LET p == desk.person IN
       IF desk.op = "link" THEN LinkInsert(p, desk.identity, PhoneSeen(desk.identity))
       ELSE /\ people' = IF Alive(p) THEN [people EXCEPT ![p] = Written(p)] ELSE people
            /\ UNCHANGED <<link, phone>>
    /\ UNCHANGED <<channelVars, passVars, acts>>

-----------------------------------------------------------------------------
OwnerStep ==
    \/ PassBegin
    \/ \E i \in OwnAccounts : OwnHolder(i) \/ OwnLink(i)
    \/ \E p \in Ids : FoldHolder(p)
    \/ OwnerFound \/ OwnerPick \/ OwnerPromote \/ OwnerInsert
    \/ OwnInsert

CandidateStep ==
    \/ ReadHidden \/ ReadCandidates
    \/ \E i \in Identities : EachHidden(i) \/ EachCreate(i)
    \/ EachLink \/ EachInsert \/ EachDrop \/ EachDone

FollowStep ==
    \/ RefreshIdentities \/ ByPhone \/ ReadNames \/ PassEnd
    \/ \E pair \in Ids \X Ids : MergeShared(pair)
    \/ \E p \in Ids : Rename(p)

Pass == OwnerStep \/ CandidateStep \/ FollowStep

Channel ==
    \/ \E i \in Identities, name \in Names, number \in Phones \cup {None} :
        SyncContact(i, name, number)
    \/ \E i \in Identities, kind \in {"sender", "dm"} : Hear(i, kind)

Portal ==
    \/ \E name \in Aliases : CreatePerson(name)
    \/ \E p \in Ids : Hide(p) \/ Restore(p) \/ ResetRead(p)
    \/ \E p, q \in Ids : MergeByHand(p, q)
    \/ \E i \in Identities : Unlink(i)
    \/ \E p \in Ids, name \in Names \cup Aliases : SaveRead(p, name)
    \/ \E p \in Ids, i \in Identities : LinkRead(p, i)
    \/ DeskWrite

Next == Pass \/ PassFails \/ Channel \/ Portal

Spec == Init /\ [][Next]_vars

-----------------------------------------------------------------------------
TypeOK ==
    /\ people \in [Ids -> Row]
    /\ link \in [Identities -> 0..MaxPeople]
    /\ phone \in [Identities -> Phones \cup {None}]
    /\ \A i \in Identities : link[i] # 0 => There(link[i])
    /\ quiet \in {"no", "pass", "settled"}

\* There is never a second owner row, shown or hidden: what the pass reads,
\* inserts, promotes and folds, and the owner's merges, never leave two.
OneOwner == Cardinality(OwnerRows) <= 1

\* A name the owner chose is never changed by a pass.  Where the pass merges
\* the person away, the row its identities go to has a name the owner chose.
AliasesKept ==
    [][pc' # pc \/ todo' # todo =>
        \A p \in Ids : There(p) /\ people[p].source = "owner" =>
            \/ people'[p].there /\ people'[p].source = "owner" /\ people'[p].name = people[p].name
            \/ ~people'[p].there /\ \E q \in Ids :
                /\ people'[q].there /\ people'[q].source = "owner"
                /\ \A i \in IdentitiesOf(p) : link'[i] = q
            \/ p = pass.made]_vars

\* A pass takes no identity away from anybody, but for the person it has just
\* made itself, and leaves hidden people hidden with all the identities they have.
LinksKept ==
    [][pc' # pc \/ todo' # todo =>
        \A i \in Identities : link[i] # 0 =>
            \/ link'[i] # 0
                /\ people[link[i]].archived =>
                    link'[i] = link[i] /\ people'[link[i]].archived
            \/ link[i] = pass.made]_vars

\* Two passes over an unchanged archive: the second creates nobody, not even for
\* a moment, and links nothing.
CreatesOnce ==
    [][quiet = "settled" /\ quiet' = "settled" =>
        /\ \A p \in Ids : people'[p].there => people[p].there
        /\ \A i \in Identities : link[i] = 0 => link'[i] = 0]_vars
=============================================================================
