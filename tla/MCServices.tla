------------------------------ MODULE MCServices ------------------------------
(* Four components that share no state, each checked by itself in one run. *)
EXTENDS Ingest, Access, WhatsAppSession, Reads, TLC

\* The worst case: a channel's message has the number of another one.
MCExternalId == [c \in Chats |-> 7]

VARIABLE component  \* the one that runs

allVars == <<component, ingestVars, accessVars, vars, readsVars>>

MCInit ==
    /\ component \in {"ingest", "access", "session", "reads"}
    /\ IngestInit /\ AccessInit /\ Init /\ ReadsInit
    /\ component # "ingest" => channel = "telegram"
    /\ component # "reads" => list = "chats" /\ There = {}

MCNext ==
    /\ UNCHANGED component
    /\ \/ component = "ingest" /\ IngestNext /\ UNCHANGED <<accessVars, vars, readsVars>>
       \/ component = "access" /\ AccessNext /\ UNCHANGED <<ingestVars, vars, readsVars>>
       \/ component = "session" /\ Next /\ UNCHANGED <<ingestVars, accessVars, readsVars>>
       \/ component = "reads" /\ ReadsNext /\ UNCHANGED <<ingestVars, accessVars, vars>>

\* No browser, and no account, is told apart from the other.
Symmetry == Permutations(Browsers) \cup Permutations(Accounts)

MCSpec == MCInit /\ [][MCNext]_allVars

\* The state of each component has the shape its tables and its code give it,
\* and the marker of a history is only in a directory that has credentials.
ServicesTypeOK == IngestTypeOK /\ AccessTypeOK /\ TypeOK /\ ReadsTypeOK
===============================================================================
