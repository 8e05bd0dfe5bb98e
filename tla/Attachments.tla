---------------------------- MODULE Attachments ----------------------------
(***************************************************************************)
(* The attachments of messages: downloaded by the worker's media drain,    *)
(* sent to a paid provider by its analysis drain, deleted with their       *)
(* connection by the portal.  The worker's loop runs one drain at a time;  *)
(* sessions, deletions and the clock change under it while it awaits a     *)
(* download or the provider.                                               *)
(***************************************************************************)
EXTENDS Naturals, Sequences, FiniteSets

CONSTANTS
    Items,        \* attachments, 1..n in the order of their rows
    ConnOf,       \* the connection an item belongs to
    Medium,       \* image or audio, the pass that analyses it, or none
    BatchSize,    \* rows one pass takes
    MaxAttempts,  \* tries a download gets
    MaxCalls,     \* tries an analysis gets
    DailyLimit    \* ANALYSIS_DAILY_LIMIT

ASSUME AttachmentsAssumption ==
    /\ Items = 1..Cardinality(Items) /\ IsFiniteSet(Items)
    /\ DOMAIN ConnOf = Items /\ DOMAIN Medium = Items
    /\ BatchSize \in Nat \ {0} /\ MaxAttempts \in Nat \ {0}
    /\ MaxCalls \in Nat \ {0} /\ DailyLimit \in Nat

VARIABLES
    live,        \* connections with a session
    deleting,    \* connections whose files have been unlinked and whose rows remain
    message,     \* none, stands, deleted, or gone with its connection
    attachment,  \* the media row
    disk,        \* items whose file is at its final path
    stage,       \* rest, media, analysis or analysing: where the worker's loop is
    batch,       \* rows the media pass has still to do, as it read them
    landed,      \* the head of the batch has its file on disk
    turns,       \* the media this analysis drain has still to do
    scan,        \* rows the analysis pass has still to do, as it read them
    calling,     \* the provider has been asked about the head of the scan
    analysis,    \* the media_analysis row
    paid,        \* charged in the last day, and recorded (history variable)
    unlinked     \* rows whose file a deletion has removed (history variable)

mediaVars == <<disk, batch, landed, unlinked>>
analysisVars == <<turns, scan, calling, analysis, paid>>
attachmentsVars ==
    <<live, deleting, message, attachment, stage, mediaVars, analysisVars>>

Conns == {ConnOf[i] : i \in Items}
Media == {Medium[i] : i \in Items} \ {"none"}

NoAttachment == [status |-> "none", attempts |-> 0]
NoAnalysis == [status |-> "none", attempts |-> 0, cost |-> FALSE, recent |-> FALSE]

AttachmentsInit ==
    /\ live = {} /\ deleting = {}
    /\ message = [i \in Items |-> "none"]
    /\ attachment = [i \in Items |-> NoAttachment]
    /\ disk = {} /\ stage = "rest" /\ batch = <<>> /\ landed = FALSE
    /\ turns = {} /\ scan = <<>> /\ calling = FALSE
    /\ analysis = [i \in Items |-> NoAnalysis]
    /\ paid = {} /\ unlinked = {}

\* A SELECT's LIMIT, oldest or newest row first.
Limited(S) == {i \in S : Cardinality({j \in S : j < i}) < BatchSize}
LimitedNewest(S) == {i \in S : Cardinality({j \in S : j > i}) < BatchSize}

InOrder(S) ==
    CHOOSE s \in [1..Cardinality(S) -> S] : \A j, k \in 1..Cardinality(S) : j < k => s[j] < s[k]

-----------------------------------------------------------------------------
(* What goes on around the worker's loop.                                  *)

\* A message is ingested and its attachment queued.
Arrives(i) ==
    /\ message[i] = "none" /\ \A j \in Items : j < i => message[j] # "none"
    /\ ConnOf[i] \in live /\ ConnOf[i] \notin deleting
    /\ message' = [message EXCEPT ![i] = "stands"]
    /\ attachment' = [attachment EXCEPT ![i].status = "pending"]
    /\ UNCHANGED <<live, deleting, stage, mediaVars, analysisVars>>

MessageDeleted(i) ==
    /\ message[i] = "stands"
    /\ message' = [message EXCEPT ![i] = "deleted"]
    /\ UNCHANGED <<live, deleting, attachment, stage, mediaVars, analysisVars>>

SessionOpens(c) ==
    /\ c \notin live /\ c \notin deleting
    /\ \A i \in Items : ConnOf[i] = c => message[i] # "gone"
    /\ live' = live \cup {c}
    /\ UNCHANGED <<deleting, message, attachment, stage, mediaVars, analysisVars>>

\* The channel drops it, or the sweep of a revoked row closes it.
SessionCloses(c) ==
    /\ c \in live
    /\ live' = live \ {c}
    /\ UNCHANGED <<deleting, message, attachment, stage, mediaVars, analysisVars>>

Rows(c) == {i \in Items : ConnOf[i] = c /\ message[i] \in {"stands", "deleted"}}

\* deleteConnection revokes the row, reads which files its rows have and
\* unlinks them.
DeleteUnlinks(c) ==
    /\ c \notin deleting /\ Rows(c) # {}
    /\ LET files == {i \in Rows(c) : attachment[i].status = "done"} IN
        disk' = disk \ files /\ unlinked' = unlinked \cup files
    /\ deleting' = deleting \cup {c}
    /\ UNCHANGED <<live, message, attachment, stage, batch, landed, analysisVars>>

\* The connection goes: messages, attachments and analyses by cascade.
DeleteDrops(c) ==
    /\ c \in deleting
    /\ message' = [i \in Items |-> IF i \in Rows(c) THEN "gone" ELSE message[i]]
    /\ attachment' = [i \in Items |-> IF i \in Rows(c) THEN NoAttachment ELSE attachment[i]]
    /\ analysis' = [i \in Items |-> IF i \in Rows(c) THEN NoAnalysis ELSE analysis[i]]
    /\ paid' = paid \ Rows(c)
    /\ deleting' = deleting \ {c} /\ unlinked' = unlinked \ Rows(c)
    /\ UNCHANGED <<live, stage, disk, batch, landed, turns, scan, calling>>

\* A stamp leaves the trailing 24 hours.
DayPasses ==
    /\ \E i \in Items : analysis[i].recent
    /\ analysis' = [i \in Items |-> [analysis[i] EXCEPT !.recent = FALSE]]
    /\ paid' = {}
    /\ UNCHANGED <<live, deleting, message, attachment, stage, mediaVars, turns, scan, calling>>

\* Both processes go: the drains forget what they had read.
Crash ==
    /\ live' = {} /\ deleting' = {}
    /\ stage' = "rest" /\ batch' = <<>> /\ landed' = FALSE
    /\ turns' = {} /\ scan' = <<>> /\ calling' = FALSE
    /\ UNCHANGED <<message, attachment, disk, analysis, paid, unlinked>>

-----------------------------------------------------------------------------
(* drainMedia.                                                             *)

\* FAULTY: the rows without a session are taken too, and skipped in the loop.
DownloadableAll ==
    {i \in Items : attachment[i].status = "pending" /\ message[i] = "stands"}

\* A row whose connection has no session is not selected at all.
Downloadable ==
    {i \in Items : /\ attachment[i].status = "pending" /\ message[i] = "stands"
                   /\ ConnOf[i] \in live}

ReadAttachment(i) ==
    [item |-> i, attempts |-> attachment[i].attempts, session |-> ConnOf[i] \in live]

DrainMedia ==
    /\ stage = "rest"
    /\ stage' = "media"
    /\ LET rows == InOrder(Limited(Downloadable)) IN
        batch' = IF live = {} THEN <<>> ELSE [k \in DOMAIN rows |-> ReadAttachment(rows[k])]
    /\ UNCHANGED <<live, deleting, message, attachment, disk, landed, unlinked, analysisVars>>

\* An update of a row that is gone changes nothing.
Updated(rows, i, row) == IF message[i] = "gone" THEN rows ELSE [rows EXCEPT ![i] = row]

\* The declared size, or the size of what came, is over the cap.
TooLarge ==
    /\ stage = "media" /\ batch # <<>> /\ ~landed /\ Head(batch).session
    /\ LET md == Head(batch) IN
        attachment' = Updated(attachment, md.item,
                        [attachment[md.item] EXCEPT !.status = "failed"])
    /\ batch' = Tail(batch)
    /\ UNCHANGED <<live, deleting, message, stage, disk, landed, unlinked, analysisVars>>

\* Downloaded, written beside the final name, and renamed.
FileLands ==
    /\ stage = "media" /\ batch # <<>> /\ ~landed /\ Head(batch).session
    /\ disk' = disk \cup {Head(batch).item}
    /\ landed' = TRUE
    /\ UNCHANGED <<live, deleting, message, attachment, stage, batch, unlinked, analysisVars>>

RowDone ==
    /\ landed
    /\ LET md == Head(batch) IN
        attachment' = Updated(attachment, md.item,
                        [attachment[md.item] EXCEPT !.status = "done"])
    /\ batch' = Tail(batch) /\ landed' = FALSE
    /\ UNCHANGED <<live, deleting, message, stage, disk, unlinked, analysisVars>>

\* FAULTY: a row that has used its tries gets one more.
RetriedOnceMore(md) ==
    IF ~md.session THEN attachment[md.item]
    ELSE [status |-> IF md.attempts >= MaxAttempts THEN "failed" ELSE "pending",
          attempts |-> md.attempts + 1]

\* A row without a session keeps its tries.
Retried(md) ==
    IF ~md.session THEN attachment[md.item]
    ELSE [status |-> IF md.attempts + 1 >= MaxAttempts THEN "failed" ELSE "pending",
          attempts |-> md.attempts + 1]

\* The download, the write or the update threw.
DownloadFails ==
    /\ stage = "media" /\ batch # <<>>
    /\ LET md == Head(batch) IN attachment' = Updated(attachment, md.item, Retried(md))
    /\ batch' = Tail(batch) /\ landed' = FALSE
    /\ UNCHANGED <<live, deleting, message, stage, disk, unlinked, analysisVars>>

MediaDrained ==
    /\ stage = "media" /\ batch = <<>>
    /\ stage' = "analysis"
    /\ UNCHANGED <<live, deleting, message, attachment, mediaVars, turns, scan, calling,
                   analysis, paid>>

-----------------------------------------------------------------------------
(* drainAnalysis.                                                          *)

\* countRecentAnalyses: the rows with a cost, by the time of their stamp.
Recent == {i \in Items : analysis[i].cost /\ analysis[i].recent}

MaySpend == Cardinality(Recent) < DailyLimit

\* The gates are read once; which media are switched on is the owner's choice.
DrainAnalysis(on) ==
    /\ stage = "analysis" /\ MaySpend
    /\ stage' = "analysing" /\ turns' = on
    /\ UNCHANGED <<live, deleting, message, attachment, mediaVars, scan, calling, analysis, paid>>

\* Not due yet, no key, or over the limit.
AnalysisPutOff ==
    /\ stage = "analysis"
    /\ stage' = "rest"
    /\ UNCHANGED <<live, deleting, message, attachment, mediaVars, analysisVars>>

AnalysisDrained ==
    /\ stage = "analysing" /\ turns = {} /\ scan = <<>>
    /\ stage' = "rest"
    /\ UNCHANGED <<live, deleting, message, attachment, mediaVars, analysisVars>>

Unanalysed(m) ==
    {i \in Items : /\ attachment[i].status = "done" /\ message[i] = "stands"
                   /\ analysis[i].status = "none" /\ Medium[i] = m}

ReadAnalysis(rows, i) ==
    [item |-> i, attempts |-> rows[i].attempts, cost |-> rows[i].cost]

\* enqueueMediaAnalysis, and the rows processPendingAnalyses reads.
MediumBegins(m) ==
    /\ m \in turns /\ scan = <<>>
    /\ turns' = turns \ {m}
    /\ LET queued == LimitedNewest(Unanalysed(m))
           rows == [i \in Items |-> IF i \in queued
                                    THEN [NoAnalysis EXCEPT !.status = "pending"] ELSE analysis[i]]
           found == InOrder(Limited({i \in Items : rows[i].status = "pending" /\ Medium[i] = m}))
       IN /\ analysis' = rows
          /\ scan' = [k \in DOMAIN found |-> ReadAnalysis(rows, found[k])]
    /\ UNCHANGED <<live, deleting, message, attachment, stage, mediaVars, calling, paid>>

\* The free gates, on what was read and on the message read again just before
\* the call.
SkippedFree ==
    /\ scan # <<>> /\ ~calling
    /\ LET row == Head(scan) IN
        analysis' = Updated(analysis, row.item,
                      [analysis[row.item] EXCEPT !.status = "skipped", !.recent = TRUE])
    /\ scan' = Tail(scan)
    /\ UNCHANGED <<live, deleting, message, attachment, stage, mediaVars, turns, calling, paid>>

Calls ==
    /\ scan # <<>> /\ ~calling
    /\ message[Head(scan).item] = "stands"
    /\ Head(scan).item \in disk
    /\ calling' = TRUE
    /\ UNCHANGED <<live, deleting, message, attachment, stage, mediaVars, turns, scan,
                   analysis, paid>>

\* FAULTY: a later failure that cost nothing clears the stamp of one that did.
StampedByThisCall(row, failed, billed) == failed \/ billed

\* A row that already carries a cost keeps its stamp.
Stamped(row, failed, billed) == failed \/ billed \/ row.cost

\* The call answers: with a result, with nothing that it charged for (a silent
\* note), or with an error, charged or not.
Outcome(row, result, billed) ==
    LET old == analysis[row.item]
        attempts == row.attempts + 1
        failed == attempts >= MaxCalls
    IN IF result # "error"
       THEN [old EXCEPT !.status = result, !.cost = old.cost \/ billed, !.recent = TRUE]
       ELSE [status |-> IF failed THEN "failed" ELSE "pending", attempts |-> attempts,
             cost |-> old.cost \/ billed,
             recent |-> Stamped(row, failed, billed)]

Answered(result, billed) ==
    /\ calling
    /\ result = "done" => billed
    /\ LET row == Head(scan) IN
        /\ analysis' = Updated(analysis, row.item, Outcome(row, result, billed))
        /\ paid' = IF billed /\ message[row.item] # "gone" THEN paid \cup {row.item} ELSE paid
    /\ scan' = Tail(scan) /\ calling' = FALSE
    /\ UNCHANGED <<live, deleting, message, attachment, stage, mediaVars, turns>>

\* The file cannot be read or the answer cannot be written: the error is
\* taken for an unbilled one, or is not recorded either.
Unrecorded(written) ==
    /\ scan # <<>>
    /\ LET row == Head(scan) IN
        analysis' = IF written THEN Updated(analysis, row.item, Outcome(row, "error", FALSE))
                    ELSE analysis
    /\ scan' = Tail(scan) /\ calling' = FALSE
    /\ UNCHANGED <<live, deleting, message, attachment, stage, mediaVars, turns, paid>>

-----------------------------------------------------------------------------
MediaStep == DrainMedia \/ TooLarge \/ FileLands \/ RowDone \/ DownloadFails \/ MediaDrained

AnalysisStep ==
    \/ \E on \in SUBSET Media : DrainAnalysis(on)
    \/ \E m \in Media : MediumBegins(m)
    \/ AnalysisPutOff \/ AnalysisDrained \/ SkippedFree \/ Calls
    \/ \E result \in {"done", "skipped", "error"}, billed \in BOOLEAN : Answered(result, billed)
    \/ \E written \in BOOLEAN : Unrecorded(written)

WorkerStep == MediaStep \/ AnalysisStep

AttachmentsNext ==
    \/ WorkerStep \/ DayPasses \/ Crash
    \/ \E i \in Items : Arrives(i) \/ MessageDeleted(i)
    \/ \E c \in Conns : \/ SessionOpens(c) \/ SessionCloses(c)
                        \/ DeleteUnlinks(c) \/ DeleteDrops(c)

AttachmentsFairness == WF_attachmentsVars(WorkerStep)

AttachmentsSpec == AttachmentsInit /\ [][AttachmentsNext]_attachmentsVars /\ AttachmentsFairness

-----------------------------------------------------------------------------
AttachmentsTypeOK ==
    /\ live \subseteq Conns
    /\ deleting \subseteq Conns
    /\ message \in [Items -> {"none", "stands", "deleted", "gone"}]
    /\ attachment \in [Items -> [status: {"none", "pending", "done", "failed"},
                                 attempts: 0..MaxAttempts]]
    /\ disk \subseteq Items /\ unlinked \subseteq Items /\ paid \subseteq Items
    /\ stage \in {"rest", "media", "analysis", "analysing"} /\ landed \in BOOLEAN /\ calling \in BOOLEAN
    /\ batch \in Seq([item: Items, attempts: 0..(MaxAttempts - 1), session: BOOLEAN])
    /\ turns \subseteq Media
    /\ scan \in Seq([item: Items, attempts: 0..(MaxCalls - 1), cost: BOOLEAN])
    /\ analysis \in [Items -> [status: {"none", "pending", "done", "skipped", "failed"},
                               attempts: 0..MaxCalls, cost: BOOLEAN,
                               recent: BOOLEAN]]

\* A row that is done has its file until a deletion removes it, and what a
\* deletion removed does not come back.
FilesMatchRows ==
    \A i \in Items :
        /\ attachment[i].status = "done" => i \in disk \cup unlinked
        /\ i \in unlinked => i \notin disk

\* What was charged and recorded in a day is what countRecentAnalyses sees.
SpendIsSeen == paid \subseteq Recent

\* What the rows say of files and of money is true, through crashes,
\* deletions under a drain, failed writes and the passing of days.
RecordsTrue == FilesMatchRows /\ SpendIsSeen

\* A queued attachment of an open session is downloaded or given up, whatever
\* older rows wait for sessions that never come back.
AttachmentsSettle ==
    \A i \in Items :
        attachment[i].status = "pending"
            ~> (attachment[i].status # "pending" \/ message[i] # "stands"
                \/ ConnOf[i] \notin live)
=============================================================================
