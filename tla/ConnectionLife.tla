---------------------------- MODULE ConnectionLife ----------------------------
(***************************************************************************)
(* What a connection promises its owner, with no tables, ticks, requests   *)
(* or processes: an attempt is pairing, then linked or failed, then ended, *)
(* and is gone once deleted; one attempt per channel is in progress or     *)
(* linked at a time; only a connection that was linked is ever read; and   *)
(* once it has ended, reading stops for good.                              *)
(***************************************************************************)
CONSTANTS Conns, ChannelOf

VARIABLES
    phase,   \* where each connection is in its life
    reading  \* the connections whose account is being read

lifeVars == <<phase, reading>>

Current == {"pairing", "linked", "failed"}

Init ==
    /\ phase = [c \in Conns |-> "none"]
    /\ reading = {}

Move(c, from, to) ==
    /\ phase[c] \in from
    /\ phase' = [phase EXCEPT ![c] = to]
    /\ UNCHANGED reading

\* A new attempt takes the free slot of its channel.
Pair(c) ==
    /\ \A d \in Conns : ChannelOf[d] = ChannelOf[c] => phase[d] \notin Current
    /\ Move(c, {"none"}, "pairing")

Link(c) == Move(c, {"pairing"}, "linked")
Fail(c) == Move(c, {"pairing"}, "failed")

\* Disconnected by the owner, ended from the phone, replaced, or deleted.
End(c) == Move(c, Current, "ended")
Remove(c) == Move(c, Current \cup {"ended"}, "gone")

\* Ended by the channel: the session that noticed may still be closing.
StartReading(c) ==
    /\ phase[c] \in {"linked", "ended", "gone"}
    /\ reading' = reading \cup {c}
    /\ UNCHANGED phase

\* Sessions stop one at a time, or all at once with their process.
StopReading ==
    /\ reading' \in SUBSET reading
    /\ UNCHANGED phase

Next ==
    \/ \E c \in Conns : Pair(c) \/ Link(c) \/ Fail(c) \/ End(c) \/ Remove(c) \/ StartReading(c)
    \/ StopReading

Spec == Init /\ [][Next]_lifeVars

\* Once it has ended, reading stops for good; and an attempt does not stay
\* undecided.
Decided == \A c \in Conns : phase[c] = "pairing" ~> phase[c] # "pairing"
Closed == \A c \in Conns : [](phase[c] \in {"ended", "gone"} => <>[](c \notin reading))
=============================================================================
