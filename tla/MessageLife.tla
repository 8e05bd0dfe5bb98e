----------------------------- MODULE MessageLife -----------------------------
(***************************************************************************)
(* What the archive promises of a message, with no transaction, candidate  *)
(* or key: it is stored once, an edit replaces it only by a newer version, *)
(* it is disputed until somebody settles it, and once deleted it is never  *)
(* seen again.                                                             *)
(***************************************************************************)
EXTENDS Integers

CONSTANTS Messages, Versions

VARIABLES
    stage,    \* per message: "absent", "live" or "deleted"
    version,  \* per message: what is stored, a text with the time of its edit
    disputed  \* per message: whether other versions of it wait for the owner

lifeVars == <<stage, version, disputed>>

Newer(v, w) == v.edited > w.edited

Init ==
    /\ stage = [m \in Messages |-> "absent"]
    /\ version \in [Messages -> Versions]
    /\ disputed = [m \in Messages |-> FALSE]

\* A message's version and dispute are as they were, or a newer version came.
Kept(m) ==
    \/ version'[m] = version[m] /\ (disputed[m] => disputed'[m])
    \/ Newer(version'[m], version[m])

\* A batch of messages, edits and deletes takes effect as a whole.
Receive ==
    \A m \in Messages :
        \/ stage[m] = "absent"
        \/ stage[m] = "live" /\ stage'[m] = "deleted" /\ ~disputed'[m]
        \/ stage[m] = "live" /\ stage'[m] = "live" /\ Kept(m)
        \/ stage[m] = "deleted" /\ stage'[m] = "deleted"
            /\ version'[m] = version[m] /\ disputed'[m] = disputed[m]

\* The owner settles one dispute, by any of its versions or by a delete.
Settle(m) ==
    /\ stage[m] = "live" /\ disputed[m]
    /\ stage'[m] \in {"live", "deleted"} /\ ~disputed'[m]
    /\ version[m].edited <= version'[m].edited
    /\ \A n \in Messages \ {m} :
        stage'[n] = stage[n] /\ version'[n] = version[n] /\ disputed'[n] = disputed[n]

\* What one party delivered is taken out of the archive, and its disputes.
Withdraw ==
    \A m \in Messages :
        \/ stage[m] = "live" /\ stage'[m] = "absent"
        \/ /\ stage'[m] = stage[m] /\ version'[m] = version[m]
           /\ disputed'[m] => disputed[m]

Next == Receive \/ Withdraw \/ \E m \in Messages : Settle(m)

Spec == Init /\ [][Next]_lifeVars
=============================================================================
