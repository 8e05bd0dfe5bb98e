-------------------------- MODULE UpgradeTransaction --------------------------
(***************************************************************************)
(* What an upgrade promises the owner, with no journal, helper, container  *)
(* or process: it ends on the new release with its archive, or on the old  *)
(* release with its archive, or it asks for help; and as long as it has    *)
(* not ended well the old archive can be had back.                         *)
(***************************************************************************)
EXTENDS Integers

CONSTANTS Versions

VARIABLES
    stage,   \* "stable", "upgrading", or "help": left to the host operator
    image,   \* the release in use, or to go back to
    archive, \* the release whose schema the archive to rely on has
    target   \* the release being installed, 0 if none

transactionVars == <<stage, image, archive, target>>

Init ==
    /\ stage = "stable"
    /\ image \in Versions
    /\ archive = image
    /\ target = 0

Begin(v) ==
    /\ stage = "stable"
    /\ v > image
    /\ stage' = "upgrading"
    /\ target' = v
    /\ UNCHANGED <<image, archive>>

Commit ==
    /\ stage = "upgrading"
    /\ stage' = "stable"
    /\ image' = target
    /\ archive' = target
    /\ target' = 0

\* Gives up, on the release it started from or in the operator's hands.
GiveUp(s) ==
    /\ stage = "upgrading"
    /\ stage' = s
    /\ target' = 0
    /\ UNCHANGED <<image, archive>>

Next ==
    \/ \E v \in Versions : Begin(v)
    \/ Commit
    \/ \E s \in {"stable", "help"} : GiveUp(s)

Spec == Init /\ [][Next]_transactionVars
=============================================================================
