-------------------------- MODULE MCSessionManager --------------------------
(* Instances of SessionManager for TLC. *)
EXTENDS SessionManager, TLC

CONSTANTS w1, w2, t1, t2, r1, r2, whatsapp, telegram

MCChannelOf == [c \in Conns |-> IF c \in {t1, t2} THEN telegram ELSE whatsapp]

\* Ids of one channel are interchangeable, and so are the requests (a run that
\* uses this has ids of one channel only).
Symmetry == Permutations(Conns) \cup Permutations(Requests)
=============================================================================
