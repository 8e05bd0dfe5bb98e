---------------------------- MODULE WhatsAppProofs ----------------------------
(***************************************************************************)
(* Proofs about WhatsAppSession, for every length of the history and every *)
(* number of sockets, logins and sessions: what the run `services' checks  *)
(* of it on a small instance.                                              *)
(***************************************************************************)
EXTENDS WhatsAppSession, SequenceTheorems, TLAPS

\* The socket in use can still carry something.
Alive == sock # 0 /\ sockets[sock].state = "live"

\* One connection at a time: while one is being built none is in use, and the
\* timer is set only when there is neither.
OneAtATime ==
    /\ \A s \in Sockets : sockets[s].attempt <= attempt
    /\ ~closing => phase \in {"pairing", "connecting", "waiting", "open"}
    /\ phase \in {"pairing", "connecting", "waiting", "open"} => ~closing
    /\ \A s, t \in Making : ~closing => s = t
    /\ ~closing /\ Making # {} => ~Alive /\ ~retry
    /\ retry => ~Alive
    /\ phase = "pairing" => ~retry /\ ~connected /\ ~dead
    /\ phase = "pairing" /\ sock # 0 => Alive

\* A session that is over knows it.
OverIsDead == Over => dead

\* Every message before the n-th has been handed over or waits to be.
Heard(n) == \A m \in Messages : m < n => m \in archived \cup buffer

\* The batches of one socket come in order: what is before a batch has been
\* heard, or is before it in the chain.
InOrder ==
    /\ batch # NoBatch => Heard(batch.next)
    /\ \A i \in 1..Len(chain) :
        \/ Heard(FirstOf(chain[i]))
        \/ batch.chunk = chain[i] - 1
        \/ \E j \in 1..(i - 1) : chain[j] = chain[i] - 1
    /\ \/ Heard(FirstOf(sent + 1))
       \/ batch.chunk = sent
       \/ \E j \in 1..Len(chain) : chain[j] = sent

\* What the chain holds, and what has become of a batch that was cut short.
ChainInv ==
    /\ batch # NoBatch => batch.chunk # 0 /\ batch.next # 0
    /\ phase \in {"idle", "pairing"} => batch = NoBatch /\ chain = <<>> /\ ~connected
    /\ connected => sock # 0
    /\ wired => buffer = {}
    /\ closing /\ batch # NoBatch => cut # {}
    /\ straggler # 0 => cut # {}

\* So it is while the session goes on and none of its batches was cut short.
OrderInv == cut = {} /\ ~closing => InOrder

PortInv ==
    /\ TypeOK
    /\ OneAtATime
    /\ OverIsDead
    /\ ChainInv
    /\ OrderInv
    /\ NoSocketLeft
    /\ NeverStranded
    /\ HistoryComplete

-----------------------------------------------------------------------------
(* Types.                                                                  *)

FlagsTyped ==
    /\ disk \in [creds: BOOLEAN, marker: BOOLEAN] /\ (disk.marker => disk.creds)
    /\ phase \in Phases /\ attempt \in 0..MaxAttempts
    /\ closing \in BOOLEAN /\ dead \in BOOLEAN /\ leaving \in {"close", "logout"}
    /\ restarted \in BOOLEAN /\ asking \in BOOLEAN
    /\ connected \in BOOLEAN /\ retry \in BOOLEAN

SocketsTyped == sockets \in [Sockets -> Socket] /\ sock \in 0..MaxSockets

BatchesTyped ==
    /\ sent \in 0..Chunks
    /\ chain \in Seq(1..Chunks) /\ straggler \in 0..Chunks
    /\ batch \in [chunk: 0..Chunks, next: Nat]
    /\ wired \in BOOLEAN /\ buffer \subseteq Messages /\ archived \subseteq Messages
    /\ cut \subseteq {"closed", "threw"}

\* The types come in three parts, of which an action touches one or two.
LEMMA TypeParts == TypeOK <=> FlagsTyped /\ SocketsTyped /\ BatchesTyped
  BY DEF TypeOK, FlagsTyped, SocketsTyped, BatchesTyped

\* What makeSocket is called for.
LEMMA MakeSocket ==
    ASSUME NEW all \in [Sockets -> Socket], Next1 \in Sockets, NEW n \in 0..MaxAttempts,
           NEW sync \in BOOLEAN
    PROVE  /\ Make(all, n, sync) \in [Sockets -> Socket]
           /\ Make(all, n, sync)[Next1].state = "making"
           /\ Make(all, n, sync)[Next1].attempt = n
           /\ \A t \in Sockets : t # Next1 => Make(all, n, sync)[t] = all[t]
  BY DEF Make, Socket

\* A socket that is ended carries nothing, and stays of its attempt.
LEMMA EndSocket ==
    ASSUME NEW all \in [Sockets -> Socket], NEW s
    PROVE  Ended(all, s) \in [Sockets -> Socket]
  BY DEF Ended, Socket

\* The step ends socket s, and no other changes.
EndsOnly(s) ==
    \A t \in Sockets :
        /\ sockets'[t].attempt = sockets[t].attempt
        /\ t # s => sockets'[t].state = sockets[t].state
        /\ t = s => sockets'[t].state \notin {"making", "live"}
        /\ sockets'[t].state = "ejected" => sockets[t].state = "ejected"

\* What the code calls to end a socket does no more.
LEMMA EndingEnds ==
    ASSUME SocketsTyped, NEW s, sockets' = Ended(sockets, s)
    PROVE  EndsOnly(s)
  BY DEF Ended, Socket, SocketsTyped, EndsOnly

\* The flags, and the marker that needs its directory.
LEMMA StepFlags ==
    ASSUME FlagsTyped, SocketsTyped, BatchesTyped, [Next]_vars
    PROVE  FlagsTyped'
  <1> USE WhatsAppAssumption DEF FlagsTyped, Phases
  <1>1. CASE UNCHANGED vars BY <1>1 DEF vars, flags, socketVars, batchVars
  <1>2. CASE LoginStart
    <2>1. /\ disk' = [creds |-> FALSE, marker |-> FALSE] /\ phase' = "pairing"
          /\ attempt < MaxAttempts /\ attempt' = attempt + 1
          /\ {closing, dead, restarted, asking, connected, retry}' \subseteq BOOLEAN
          /\ leaving' = "close"
      BY <1>2 DEF LoginStart
    <2>2. QED BY <2>1
  <1>3. CASE LoginRestart
    BY <1>3
       DEF LoginRestart, flags, socketVars, batchVars
  <1>4. CASE LoginSucceeds
    BY <1>4
       DEF LoginSucceeds, LoginOver, flags, socketVars, batchVars
  <1>5. CASE LoginFails
    BY <1>5
       DEF LoginFails, LoginOver, flags, socketVars, batchVars
  <1>6. CASE Open
    <2>1. /\ UNCHANGED disk /\ phase' = "connecting"
          /\ attempt < MaxAttempts /\ attempt' = attempt + 1
          /\ {closing, dead, restarted, asking, connected, retry}' \subseteq BOOLEAN
          /\ leaving' = "close"
      BY <1>6 DEF Open
    <2>2. QED BY <2>1
  <1>7. CASE OpenFails
    BY <1>7
       DEF OpenFails, Leave, flags, socketVars, batchVars
  <1>8. CASE Connected
    BY <1>8
       DEF Connected, flags, socketVars, batchVars
  <1>9. CASE Wire
    BY <1>9
       DEF Wire, flags, socketVars, batchVars
  <1>10. CASE Dropped
    BY <1>10
       DEF Dropped, Schedules, flags, socketVars, batchVars
  <1>11. CASE RetryFires
    BY <1>11
       DEF RetryFires, flags, socketVars, batchVars
  <1>12. CASE Drained
    BY <1>12
       DEF Drained, flags, socketVars, batchVars
  <1>13. ASSUME NEW code \in {"unlinked", "refused", "replaced"}, Ejected(code) PROVE FlagsTyped'
    BY <1>13
       DEF Ejected, Dies, flags, socketVars, batchVars
  <1>14. ASSUME NEW why \in {"close", "logout"}, Close(why) PROVE FlagsTyped'
    BY <1>14
       DEF Close, Leave, flags, socketVars, batchVars
  <1>15. ASSUME NEW s \in Sockets, SocketMade(s) PROVE FlagsTyped'
    BY <1>15
       DEF SocketMade, flags, socketVars, batchVars
  <1>16. ASSUME NEW s \in Sockets, MakeFails(s) PROVE FlagsTyped'
    BY <1>16
       DEF MakeFails, Schedules, flags, socketVars, batchVars
  <1>17. CASE ServerSends
    BY <1>17
       DEF ServerSends, flags, socketVars, batchVars
  <1>18. CASE BatchBegins
    BY <1>18
       DEF BatchBegins, flags, socketVars, batchVars
  <1>19. CASE Emit
    BY <1>19
       DEF Emit, flags, socketVars, batchVars
  <1>20. CASE BatchEnds
    BY <1>20
       DEF BatchEnds, Marker, flags, socketVars, batchVars
  <1>21. CASE BatchThrows
    BY <1>21
       DEF BatchThrows, flags, socketVars, batchVars
  <1>22. CASE StragglerEnds
    BY <1>22
       DEF StragglerEnds, Marker, flags, socketVars, batchVars
  <1>23. CASE Crash
    BY <1>23
       DEF Crash, flags, socketVars, batchVars
  <1> HIDE DEF FlagsTyped, Phases
  <1>24. QED BY <1>1, <1>2, <1>3, <1>4, <1>5, <1>6, <1>7, <1>8, <1>9, <1>10, <1>11, <1>12, <1>13,
                <1>14, <1>15, <1>16, <1>17, <1>18, <1>19, <1>20, <1>21, <1>22, <1>23
       DEF Next, Pairing, Connection, History

\* A socket is of the attempt it was built for.
LEMMA StepSockets ==
    ASSUME FlagsTyped, SocketsTyped, BatchesTyped, [Next]_vars
    PROVE  SocketsTyped'
  <1> USE WhatsAppAssumption DEF FlagsTyped, SocketsTyped
  <1>1. CASE UNCHANGED vars BY <1>1 DEF vars, flags, socketVars, batchVars
  <1>2. CASE LoginStart
    BY <1>2
       DEF LoginStart, Make, Socket, flags, socketVars, batchVars
  <1>3. CASE LoginRestart
    BY <1>3, EndSocket
       DEF LoginRestart, Make, Socket, flags, socketVars, batchVars
  <1>4. CASE LoginSucceeds
    BY <1>4, EndSocket
       DEF LoginSucceeds, LoginOver, flags, socketVars, batchVars
  <1>5. CASE LoginFails
    BY <1>5, EndSocket
       DEF LoginFails, LoginOver, flags, socketVars, batchVars
  <1>6. CASE Open
    BY <1>6
       DEF Open, Make, Socket, flags, socketVars, batchVars
  <1>7. CASE OpenFails
    BY <1>7, EndSocket
       DEF OpenFails, flags, socketVars, batchVars
  <1>8. CASE Connected
    BY <1>8
       DEF Connected, flags, socketVars, batchVars
  <1>9. CASE Wire
    BY <1>9
       DEF Wire, flags, socketVars, batchVars
  <1>10. CASE Dropped
    BY <1>10, EndSocket
       DEF Dropped, flags, socketVars, batchVars
  <1>11. CASE RetryFires
    BY <1>11, MakeSocket
       DEF RetryFires, flags, socketVars, batchVars
  <1>12. CASE Drained
    BY <1>12, EndSocket
       DEF Drained, flags, socketVars, batchVars
  <1>13. ASSUME NEW code \in {"unlinked", "refused", "replaced"}, Ejected(code) PROVE SocketsTyped'
    BY <1>13
       DEF Ejected, Socket, flags, socketVars, batchVars
  <1>14. ASSUME NEW why \in {"close", "logout"}, Close(why) PROVE SocketsTyped'
    BY <1>14
       DEF Close, flags, socketVars, batchVars
  <1>15. ASSUME NEW s \in Sockets, SocketMade(s) PROVE SocketsTyped'
    <2>1. CASE Wanted(s)
      <3>1. sockets' = [sockets EXCEPT ![s].state = "live"] /\ sock' = s
        BY <1>15, <2>1 DEF SocketMade
      <3>2. QED BY <3>1 DEF Socket, Sockets
    <2>2. CASE ~Wanted(s) BY <1>15, <2>2, EndSocket DEF SocketMade
    <2>3. QED BY <2>1, <2>2
  <1>16. ASSUME NEW s \in Sockets, MakeFails(s) PROVE SocketsTyped'
    BY <1>16, EndSocket
       DEF MakeFails, flags, socketVars, batchVars
  <1>17. CASE ServerSends
    BY <1>17
       DEF ServerSends, flags, socketVars, batchVars
  <1>18. CASE BatchBegins
    BY <1>18
       DEF BatchBegins, flags, socketVars, batchVars
  <1>19. CASE Emit
    BY <1>19
       DEF Emit, flags, socketVars, batchVars
  <1>20. CASE BatchEnds
    BY <1>20
       DEF BatchEnds, flags, socketVars, batchVars
  <1>21. CASE BatchThrows
    BY <1>21
       DEF BatchThrows, flags, socketVars, batchVars
  <1>22. CASE StragglerEnds
    BY <1>22
       DEF StragglerEnds, flags, socketVars, batchVars
  <1>23. CASE Crash
    BY <1>23
       DEF Crash, Ended, Socket, flags, socketVars, batchVars
  <1> HIDE DEF FlagsTyped, SocketsTyped
  <1>24. QED BY <1>1, <1>2, <1>3, <1>4, <1>5, <1>6, <1>7, <1>8, <1>9, <1>10, <1>11, <1>12, <1>13,
                <1>14, <1>15, <1>16, <1>17, <1>18, <1>19, <1>20, <1>21, <1>22, <1>23
       DEF Next, Pairing, Connection, History

\* A message of a batch is a message of the history.
LEMMA BatchMessage ==
    ASSUME NEW chunk \in 1..Chunks, NEW m \in Nat \ {0}, m <= LastOf(chunk)
    PROVE  m \in Messages
  <1>1. (Chunks - chunk) * PerChunk >= 0
    BY WhatsAppAssumption
  <1>2. chunk * PerChunk <= Chunks * PerChunk
    BY <1>1, WhatsAppAssumption
  <1>3. QED BY <1>2, WhatsAppAssumption DEF LastOf, Messages

\* A batch begins with its first message.
LEMMA FirstMessage ==
    ASSUME NEW chunk \in 1..Chunks
    PROVE  FirstOf(chunk) \in Nat \ {0} /\ LastOf(chunk) \in Nat
  <1>1. (chunk - 1) * PerChunk >= 0 /\ chunk * PerChunk >= 0
    BY WhatsAppAssumption
  <1>2. QED BY <1>1, WhatsAppAssumption DEF FirstOf, LastOf

\* A batch holds messages of the history.
LEMMA StepBatches ==
    ASSUME FlagsTyped, SocketsTyped, BatchesTyped, ChainInv, [Next]_vars
    PROVE  BatchesTyped'
  <1> USE WhatsAppAssumption DEF BatchesTyped
  <1>1. CASE UNCHANGED vars BY <1>1 DEF vars, flags, socketVars, batchVars
  <1>2. CASE LoginStart
    BY <1>2
       DEF LoginStart, flags, socketVars, batchVars
  <1>3. CASE LoginRestart
    BY <1>3
       DEF LoginRestart, flags, socketVars, batchVars
  <1>4. CASE LoginSucceeds
    BY <1>4
       DEF LoginSucceeds, LoginOver, flags, socketVars, batchVars
  <1>5. CASE LoginFails
    BY <1>5
       DEF LoginFails, LoginOver, flags, socketVars, batchVars
  <1>6. CASE Open
    <2>1. /\ sent' = 0 /\ chain' = <<>> /\ batch' = NoBatch /\ wired' \in BOOLEAN /\ buffer' = {}
          /\ straggler' \in {batch.chunk, straggler}
          /\ UNCHANGED <<archived, cut>>
      BY <1>6 DEF Open
    <2>2. QED BY <2>1 DEF NoBatch
  <1>7. CASE OpenFails
    BY <1>7
       DEF OpenFails, Leave, Cuts, flags, socketVars, batchVars
  <1>8. CASE Connected
    BY <1>8
       DEF Connected, flags, socketVars, batchVars
  <1>9. CASE Wire
    BY <1>9
       DEF Wire, flags, socketVars, batchVars
  <1>10. CASE Dropped
    BY <1>10
       DEF Dropped, flags, socketVars, batchVars
  <1>11. CASE RetryFires
    BY <1>11
       DEF RetryFires, flags, socketVars, batchVars
  <1>12. CASE Drained
    BY <1>12
       DEF Drained, NoBatch, flags, socketVars, batchVars
  <1>13. ASSUME NEW code \in {"unlinked", "refused", "replaced"}, Ejected(code) PROVE BatchesTyped'
    BY <1>13
       DEF Ejected, Cuts, flags, socketVars, batchVars
  <1>14. ASSUME NEW why \in {"close", "logout"}, Close(why) PROVE BatchesTyped'
    BY <1>14
       DEF Close, Leave, Cuts, flags, socketVars, batchVars
  <1>15. ASSUME NEW s \in Sockets, SocketMade(s) PROVE BatchesTyped'
    BY <1>15
       DEF SocketMade, flags, socketVars, batchVars
  <1>16. ASSUME NEW s \in Sockets, MakeFails(s) PROVE BatchesTyped'
    BY <1>16
       DEF MakeFails, flags, socketVars, batchVars
  <1>17. CASE ServerSends
    BY <1>17
       DEF ServerSends, flags, socketVars, batchVars
  <1>18. CASE BatchBegins
    <2>1. Head(chain) \in 1..Chunks /\ Tail(chain) \in Seq(1..Chunks)
      BY <1>18 DEF BatchBegins
    <2>2. FirstOf(Head(chain)) \in Nat BY <2>1, FirstMessage
    <2>3. QED BY <1>18, <2>1, <2>2 DEF BatchBegins, NoBatch, socketVars
  <1>19. CASE Emit
    <2>1. batch.chunk \in 1..Chunks /\ batch.next \in Nat \ {0}
      BY <1>19 DEF Emit, ChainInv
    <2>2. batch.next \in Messages BY <1>19, <2>1, BatchMessage DEF Emit
    <2>3. QED BY <1>19, <2>1, <2>2 DEF Emit, socketVars
  <1>20. CASE BatchEnds
    BY <1>20
       DEF BatchEnds, NoBatch, flags, socketVars, batchVars
  <1>21. CASE BatchThrows
    BY <1>21
       DEF BatchThrows, NoBatch, flags, socketVars, batchVars
  <1>22. CASE StragglerEnds
    BY <1>22
       DEF StragglerEnds, flags, socketVars, batchVars
  <1>23. CASE Crash
    <2>1. /\ chain' = <<>> /\ batch' = NoBatch /\ straggler' = 0
          /\ wired' \in BOOLEAN /\ buffer' = {}
          /\ UNCHANGED <<sent, archived, cut>>
      BY <1>23 DEF Crash
    <2>2. QED BY <2>1 DEF NoBatch
  <1> HIDE DEF BatchesTyped
  <1>24. QED BY <1>1, <1>2, <1>3, <1>4, <1>5, <1>6, <1>7, <1>8, <1>9, <1>10, <1>11, <1>12, <1>13,
                <1>14, <1>15, <1>16, <1>17, <1>18, <1>19, <1>20, <1>21, <1>22, <1>23
       DEF Next, Pairing, Connection, History

\* A connection is begun only when the one before it has ended.
LEMMA StepOneAtATime ==
    ASSUME FlagsTyped, SocketsTyped, BatchesTyped, OneAtATime, NoSocketLeft, ChainInv, [Next]_vars
    PROVE  OneAtATime'
  <1> USE WhatsAppAssumption DEF OneAtATime, Alive, Making, Socket, Sockets, FlagsTyped,
    SocketsTyped
  <1>1. CASE UNCHANGED vars BY <1>1 DEF vars, flags, socketVars, batchVars
  <1>2. CASE LoginStart
    BY <1>2
       DEF LoginStart, Make, NoSocketLeft, flags, socketVars, batchVars
  <1>3. CASE LoginRestart
    <2>1. \A t \in Sockets :
            /\ t = Next1 => sockets'[t].state = "making" /\ sockets'[t].attempt = attempt
            /\ t # Next1 =>
                /\ sockets'[t].attempt = sockets[t].attempt
                /\ t # sock => sockets'[t].state = sockets[t].state
                /\ t = sock => sockets'[t].state \notin {"making", "live"}
                /\ sockets'[t].state = "ejected" => sockets[t].state = "ejected"
      BY <1>3 DEF LoginRestart, Make, Ended, Socket, SocketsTyped
    <2>2. /\ phase = "pairing" /\ sock # 0 /\ sock' = 0
          /\ UNCHANGED <<phase, attempt, closing, dead, leaving, connected, retry>>
      BY <1>3 DEF LoginRestart
    <2>3. Making = {} BY <2>2
    <2>4. Making' \subseteq {Next1} BY <2>1, <2>2, <2>3
    <2>5. \A t \in Sockets : sockets'[t].attempt <= attempt' BY <2>1, <2>2
    <2>6. ~Alive' BY <2>2
    <2>7. QED BY <2>2, <2>4, <2>5, <2>6
  <1>4. CASE LoginSucceeds
    <2>1. sockets' = Ended(sockets, sock) BY <1>4 DEF LoginSucceeds, LoginOver
    <2>2. EndsOnly(sock) BY <2>1, EndingEnds
    <2>3. QED BY <1>4, <2>2 DEF LoginSucceeds, LoginOver, EndsOnly, flags, batchVars
  <1>5. CASE LoginFails
    <2>1. sockets' = Ended(sockets, sock) BY <1>5 DEF LoginFails, LoginOver
    <2>2. EndsOnly(sock) BY <2>1, EndingEnds
    <2>3. QED BY <1>5, <2>2 DEF LoginFails, LoginOver, EndsOnly, flags, batchVars
  <1>6. CASE Open
    BY <1>6
       DEF Open, Make, NoSocketLeft, flags, socketVars, batchVars
  <1>7. CASE OpenFails
    BY <1>7
       DEF OpenFails, Leave, Ended, flags, socketVars, batchVars
  <1>8. CASE Connected
    BY <1>8
       DEF Connected, flags, socketVars, batchVars
  <1>9. CASE Wire
    BY <1>9
       DEF Wire, flags, socketVars, batchVars
  <1>10. CASE Dropped
    <2>1. sockets' = Ended(sockets, sock) BY <1>10 DEF Dropped, Schedules
    <2>2. EndsOnly(sock) BY <2>1, EndingEnds
    <2>3. QED BY <1>10, <2>2 DEF Dropped, Schedules, EndsOnly, flags, batchVars
  <1>11. CASE RetryFires
    <2>1. CASE closing \/ dead BY <1>11, <2>1 DEF RetryFires, flags, batchVars
    <2>2. CASE ~(closing \/ dead)
      <3>1. Making = {} /\ ~Alive BY <1>11, <2>2 DEF RetryFires
      <3>2. \A t \in Sockets :
              /\ t = Next1 => sockets'[t].state = "making" /\ sockets'[t].attempt = attempt
              /\ t # Next1 => sockets'[t] = sockets[t]
        BY <1>11, <2>2 DEF RetryFires, Make
      <3>3. /\ retry /\ ~retry'
            /\ UNCHANGED <<phase, attempt, closing, dead, sock, connected>>
        BY <1>11, <2>2 DEF RetryFires, flags
      <3>4. Making' \subseteq {Next1} BY <3>1, <3>2, <3>3
      <3>5. \A t \in Sockets : sockets'[t].attempt <= attempt' BY <3>2, <3>3
      <3>6. ~Alive' BY <3>1, <3>2, <3>3
      <3>7. phase # "pairing" BY <3>3
      <3>8. QED BY <3>3, <3>4, <3>5, <3>6, <3>7
    <2>3. QED BY <2>1, <2>2
  <1>12. CASE Drained
    <2>1. sockets' = Ended(sockets, sock) BY <1>12 DEF Drained
    <2>2. EndsOnly(sock) BY <2>1, EndingEnds
    <2>3. QED BY <1>12, <2>2 DEF Drained, EndsOnly, flags, batchVars
  <1>13. ASSUME NEW code \in {"unlinked", "refused", "replaced"}, Ejected(code) PROVE OneAtATime'
    BY <1>13
       DEF Ejected, Dies, flags, socketVars, batchVars
  <1>14. ASSUME NEW why \in {"close", "logout"}, Close(why) PROVE OneAtATime'
    BY <1>14
       DEF Close, Leave, flags, socketVars, batchVars
  <1>15. ASSUME NEW s \in Sockets, SocketMade(s) PROVE OneAtATime'
    <2>1. CASE Wanted(s)
      <3>1. sockets' = [sockets EXCEPT ![s].state = "live"] /\ sock' = s
        BY <1>15, <2>1 DEF SocketMade
      <3>2. QED BY <1>15, <2>1, <3>1 DEF SocketMade, Wanted, flags, batchVars
    <2>2. CASE ~Wanted(s)
      <3>1. EndsOnly(s) BY <1>15, <2>2, EndingEnds DEF SocketMade
      <3>2. UNCHANGED <<sock, phase, flags, connected, retry, sent>> BY <1>15, <2>2 DEF SocketMade
      <3>3. QED BY <1>15, <2>2, <3>1, <3>2 DEF EndsOnly, Wanted, SocketMade, flags
    <2>3. QED BY <2>1, <2>2
  <1>16. ASSUME NEW s \in Sockets, MakeFails(s) PROVE OneAtATime'
    <2>1. EndsOnly(s) BY <1>16, EndingEnds DEF MakeFails
    <2>2. UNCHANGED <<phase, attempt, closing, dead, sock, connected>> BY <1>16 DEF MakeFails, flags
    <2>3. ~closing => Making' = {} BY <1>16, <2>1, <2>2 DEF MakeFails, EndsOnly
    <2>4. ~closing => ~Alive BY <1>16 DEF MakeFails
    <2>5. closing => retry' = retry BY <1>16 DEF MakeFails, Schedules
    <2>6. ~Alive => ~Alive' BY <2>1, <2>2 DEF EndsOnly
    <2>7. phase # "pairing" BY <1>16 DEF MakeFails
    <2>8. QED BY <2>1, <2>2, <2>3, <2>4, <2>5, <2>6, <2>7 DEF EndsOnly
  <1>17. CASE ServerSends
    BY <1>17
       DEF ServerSends, flags, socketVars, batchVars
  <1>18. CASE BatchBegins
    BY <1>18
       DEF BatchBegins, flags, socketVars, batchVars
  <1>19. CASE Emit
    BY <1>19
       DEF Emit, flags, socketVars, batchVars
  <1>20. CASE BatchEnds
    BY <1>20
       DEF BatchEnds, flags, socketVars, batchVars
  <1>21. CASE BatchThrows
    BY <1>21
       DEF BatchThrows, flags, socketVars, batchVars
  <1>22. CASE StragglerEnds
    BY <1>22
       DEF StragglerEnds, flags, socketVars, batchVars
  <1>23. CASE Crash
    BY <1>23
       DEF Crash, Ended, flags, socketVars, batchVars
  <1> HIDE DEF OneAtATime, Alive, Making, Socket, Sockets, FlagsTyped, SocketsTyped
  <1>24. QED BY <1>1, <1>2, <1>3, <1>4, <1>5, <1>6, <1>7, <1>8, <1>9, <1>10, <1>11, <1>12, <1>13,
                <1>14, <1>15, <1>16, <1>17, <1>18, <1>19, <1>20, <1>21, <1>22, <1>23
       DEF Next, Pairing, Connection, History

\* What is over knows it.
LEMMA StepOverIsDead ==
    ASSUME FlagsTyped, SocketsTyped, BatchesTyped, OneAtATime, OverIsDead, [Next]_vars
    PROVE  OverIsDead'
  <1> USE WhatsAppAssumption DEF OverIsDead, Over, OneAtATime, Socket, Sockets, FlagsTyped,
    SocketsTyped
  <1>1. CASE UNCHANGED vars BY <1>1 DEF vars, flags, socketVars, batchVars
  <1>2. CASE LoginStart
    BY <1>2
       DEF LoginStart, Make, flags, socketVars, batchVars
  <1>3. CASE LoginRestart
    <2>1. \A t \in Sockets :
            /\ t = Next1 => sockets'[t].state = "making" /\ sockets'[t].attempt = attempt
            /\ t # Next1 =>
                /\ sockets'[t].attempt = sockets[t].attempt
                /\ t # sock => sockets'[t].state = sockets[t].state
                /\ t = sock => sockets'[t].state \notin {"making", "live"}
                /\ sockets'[t].state = "ejected" => sockets[t].state = "ejected"
      BY <1>3 DEF LoginRestart, Make, Ended, Socket, SocketsTyped
    <2>2. /\ phase = "pairing" /\ sock # 0 /\ sock' = 0
          /\ UNCHANGED <<phase, attempt, closing, dead, leaving, connected, retry>>
      BY <1>3 DEF LoginRestart
    <2>3. QED BY <2>1, <2>2
  <1>4. CASE LoginSucceeds
    <2>1. sockets' = Ended(sockets, sock) BY <1>4 DEF LoginSucceeds, LoginOver
    <2>2. EndsOnly(sock) BY <2>1, EndingEnds
    <2>3. QED BY <1>4, <2>2 DEF LoginSucceeds, LoginOver, EndsOnly, flags, batchVars
  <1>5. CASE LoginFails
    <2>1. sockets' = Ended(sockets, sock) BY <1>5 DEF LoginFails, LoginOver
    <2>2. EndsOnly(sock) BY <2>1, EndingEnds
    <2>3. QED BY <1>5, <2>2 DEF LoginFails, LoginOver, EndsOnly, flags, batchVars
  <1>6. CASE Open
    BY <1>6
       DEF Open, Make, flags, socketVars, batchVars
  <1>7. CASE OpenFails
    BY <1>7
       DEF OpenFails, Leave, Ended, Making, flags, socketVars, batchVars
  <1>8. CASE Connected
    BY <1>8
       DEF Connected, flags, socketVars, batchVars
  <1>9. CASE Wire
    BY <1>9
       DEF Wire, flags, socketVars, batchVars
  <1>10. CASE Dropped
    <2>1. sockets' = Ended(sockets, sock) BY <1>10 DEF Dropped, Schedules
    <2>2. EndsOnly(sock) BY <2>1, EndingEnds
    <2>3. QED BY <1>10, <2>2 DEF Dropped, Schedules, EndsOnly, flags, batchVars
  <1>11. CASE RetryFires
    BY <1>11
       DEF RetryFires, Make, flags, socketVars, batchVars
  <1>12. CASE Drained
    <2>1. sockets' = Ended(sockets, sock) BY <1>12 DEF Drained
    <2>2. EndsOnly(sock) BY <2>1, EndingEnds
    <2>3. QED BY <1>12, <2>2 DEF Drained, EndsOnly, flags, batchVars
  <1>13. ASSUME NEW code \in {"unlinked", "refused", "replaced"}, Ejected(code) PROVE OverIsDead'
    BY <1>13
       DEF Ejected, Dies, flags, socketVars, batchVars
  <1>14. ASSUME NEW why \in {"close", "logout"}, Close(why) PROVE OverIsDead'
    BY <1>14
       DEF Close, Leave, flags, socketVars, batchVars
  <1>15. ASSUME NEW s \in Sockets, SocketMade(s) PROVE OverIsDead'
    <2>1. CASE Wanted(s)
      <3>1. sockets' = [sockets EXCEPT ![s].state = "live"] /\ sock' = s
        BY <1>15, <2>1 DEF SocketMade
      <3>2. QED BY <1>15, <2>1, <3>1 DEF SocketMade, Wanted, flags, batchVars
    <2>2. CASE ~Wanted(s)
      <3>1. EndsOnly(s) BY <1>15, <2>2, EndingEnds DEF SocketMade
      <3>2. UNCHANGED <<sock, phase, flags, connected, retry, sent>> BY <1>15, <2>2 DEF SocketMade
      <3>3. QED BY <1>15, <2>2, <3>1, <3>2 DEF EndsOnly, Wanted, SocketMade, flags
    <2>3. QED BY <2>1, <2>2
  <1>16. ASSUME NEW s \in Sockets, MakeFails(s) PROVE OverIsDead'
    <2>1. sockets' = Ended(sockets, s) BY <1>16 DEF MakeFails, Schedules
    <2>2. EndsOnly(s) BY <2>1, EndingEnds
    <2>3. QED BY <1>16, <2>2 DEF MakeFails, Schedules, EndsOnly, flags, batchVars
  <1>17. CASE ServerSends
    BY <1>17
       DEF ServerSends, flags, socketVars, batchVars
  <1>18. CASE BatchBegins
    BY <1>18
       DEF BatchBegins, flags, socketVars, batchVars
  <1>19. CASE Emit
    BY <1>19
       DEF Emit, flags, socketVars, batchVars
  <1>20. CASE BatchEnds
    BY <1>20
       DEF BatchEnds, flags, socketVars, batchVars
  <1>21. CASE BatchThrows
    BY <1>21
       DEF BatchThrows, flags, socketVars, batchVars
  <1>22. CASE StragglerEnds
    BY <1>22
       DEF StragglerEnds, flags, socketVars, batchVars
  <1>23. CASE Crash
    BY <1>23
       DEF Crash, Ended, flags, socketVars, batchVars
  <1> HIDE DEF OverIsDead, Over, OneAtATime, Socket, Sockets, FlagsTyped, SocketsTyped
  <1>24. QED BY <1>1, <1>2, <1>3, <1>4, <1>5, <1>6, <1>7, <1>8, <1>9, <1>10, <1>11, <1>12, <1>13,
                <1>14, <1>15, <1>16, <1>17, <1>18, <1>19, <1>20, <1>21, <1>22, <1>23
       DEF Next, Pairing, Connection, History

\* A socket that comes late is closed, and so is one that is left.
LEMMA StepNoSocketLeft ==
    ASSUME FlagsTyped, SocketsTyped, BatchesTyped, OneAtATime, NoSocketLeft, [Next]_vars
    PROVE  NoSocketLeft'
  <1> USE WhatsAppAssumption DEF NoSocketLeft, OneAtATime, Making, Alive, Sockets, FlagsTyped,
    SocketsTyped
  <1>1. CASE UNCHANGED vars BY <1>1 DEF vars, flags, socketVars, batchVars
  <1>2. CASE LoginStart
    BY <1>2
       DEF LoginStart, Make, flags, socketVars, batchVars
  <1>3. CASE LoginRestart
    <2>1. \A t \in Sockets :
            /\ t = Next1 => sockets'[t].state = "making" /\ sockets'[t].attempt = attempt
            /\ t # Next1 =>
                /\ sockets'[t].attempt = sockets[t].attempt
                /\ t # sock => sockets'[t].state = sockets[t].state
                /\ t = sock => sockets'[t].state \notin {"making", "live"}
                /\ sockets'[t].state = "ejected" => sockets[t].state = "ejected"
      BY <1>3 DEF LoginRestart, Make, Ended, Socket, SocketsTyped
    <2>2. /\ phase = "pairing" /\ sock # 0 /\ sock' = 0
          /\ UNCHANGED <<phase, attempt, closing, dead, leaving, connected, retry>>
      BY <1>3 DEF LoginRestart
    <2>3. QED BY <2>1, <2>2
  <1>4. CASE LoginSucceeds
    <2>1. sockets' = Ended(sockets, sock) BY <1>4 DEF LoginSucceeds, LoginOver
    <2>2. EndsOnly(sock) BY <2>1, EndingEnds
    <2>3. QED BY <1>4, <2>2 DEF LoginSucceeds, LoginOver, EndsOnly, flags, batchVars
  <1>5. CASE LoginFails
    <2>1. sockets' = Ended(sockets, sock) BY <1>5 DEF LoginFails, LoginOver
    <2>2. EndsOnly(sock) BY <2>1, EndingEnds
    <2>3. QED BY <1>5, <2>2 DEF LoginFails, LoginOver, EndsOnly, flags, batchVars
  <1>6. CASE Open
    BY <1>6
       DEF Open, Make, flags, socketVars, batchVars
  <1>7. CASE OpenFails
    BY <1>7
       DEF OpenFails, Leave, Ended, flags, socketVars, batchVars
  <1>8. CASE Connected
    BY <1>8
       DEF Connected, flags, socketVars, batchVars
  <1>9. CASE Wire
    BY <1>9
       DEF Wire, flags, socketVars, batchVars
  <1>10. CASE Dropped
    <2>1. sockets' = Ended(sockets, sock) BY <1>10 DEF Dropped, Schedules
    <2>2. EndsOnly(sock) BY <2>1, EndingEnds
    <2>3. QED BY <1>10, <2>2 DEF Dropped, Schedules, EndsOnly, flags, batchVars
  <1>11. CASE RetryFires
    BY <1>11
       DEF RetryFires, Make, flags, socketVars, batchVars
  <1>12. CASE Drained
    <2>1. sockets' = Ended(sockets, sock) BY <1>12 DEF Drained
    <2>2. EndsOnly(sock) BY <2>1, EndingEnds
    <2>3. QED BY <1>12, <2>2 DEF Drained, EndsOnly, flags, batchVars
  <1>13. ASSUME NEW code \in {"unlinked", "refused", "replaced"}, Ejected(code) PROVE NoSocketLeft'
    BY <1>13
       DEF Ejected, Dies, flags, socketVars, batchVars
  <1>14. ASSUME NEW why \in {"close", "logout"}, Close(why) PROVE NoSocketLeft'
    BY <1>14
       DEF Close, Leave, flags, socketVars, batchVars
  <1>15. ASSUME NEW s \in Sockets, SocketMade(s) PROVE NoSocketLeft'
    <2>1. CASE Wanted(s)
      <3>1. sockets' = [sockets EXCEPT ![s].state = "live"] /\ sock' = s
        BY <1>15, <2>1 DEF SocketMade
      <3>2. QED BY <1>15, <2>1, <3>1 DEF SocketMade, Wanted, flags, batchVars
    <2>2. CASE ~Wanted(s)
      <3>1. EndsOnly(s) BY <1>15, <2>2, EndingEnds DEF SocketMade
      <3>2. UNCHANGED <<sock, phase, flags, connected, retry, sent>> BY <1>15, <2>2 DEF SocketMade
      <3>3. QED BY <1>15, <2>2, <3>1, <3>2 DEF EndsOnly, Wanted, SocketMade, flags
    <2>3. QED BY <2>1, <2>2
  <1>16. ASSUME NEW s \in Sockets, MakeFails(s) PROVE NoSocketLeft'
    <2>1. sockets' = Ended(sockets, s) BY <1>16 DEF MakeFails, Schedules
    <2>2. EndsOnly(s) BY <2>1, EndingEnds
    <2>3. QED BY <1>16, <2>2 DEF MakeFails, Schedules, EndsOnly, flags, batchVars
  <1>17. CASE ServerSends
    BY <1>17
       DEF ServerSends, flags, socketVars, batchVars
  <1>18. CASE BatchBegins
    BY <1>18
       DEF BatchBegins, flags, socketVars, batchVars
  <1>19. CASE Emit
    BY <1>19
       DEF Emit, flags, socketVars, batchVars
  <1>20. CASE BatchEnds
    BY <1>20
       DEF BatchEnds, flags, socketVars, batchVars
  <1>21. CASE BatchThrows
    BY <1>21
       DEF BatchThrows, flags, socketVars, batchVars
  <1>22. CASE StragglerEnds
    BY <1>22
       DEF StragglerEnds, flags, socketVars, batchVars
  <1>23. CASE Crash
    BY <1>23
       DEF Crash, Ended, flags, socketVars, batchVars
  <1> HIDE DEF NoSocketLeft, OneAtATime, Making, Alive, Sockets, FlagsTyped, SocketsTyped
  <1>24. QED BY <1>1, <1>2, <1>3, <1>4, <1>5, <1>6, <1>7, <1>8, <1>9, <1>10, <1>11, <1>12, <1>13,
                <1>14, <1>15, <1>16, <1>17, <1>18, <1>19, <1>20, <1>21, <1>22, <1>23
       DEF Next, Pairing, Connection, History

\* What ends a connection sets the timer, or ends the session.
LEMMA StepNeverStranded ==
    ASSUME FlagsTyped, SocketsTyped, BatchesTyped, OneAtATime, NeverStranded, [Next]_vars
    PROVE  NeverStranded'
  <1> USE WhatsAppAssumption DEF NeverStranded, OneAtATime, Making, Alive, Sockets, FlagsTyped,
    SocketsTyped
  <1>1. CASE UNCHANGED vars BY <1>1 DEF vars, flags, socketVars, batchVars
  <1>2. CASE LoginStart
    BY <1>2
       DEF LoginStart, Make, flags, socketVars, batchVars
  <1>3. CASE LoginRestart
    <2>1. \A t \in Sockets :
            /\ t = Next1 => sockets'[t].state = "making" /\ sockets'[t].attempt = attempt
            /\ t # Next1 =>
                /\ sockets'[t].attempt = sockets[t].attempt
                /\ t # sock => sockets'[t].state = sockets[t].state
                /\ t = sock => sockets'[t].state \notin {"making", "live"}
                /\ sockets'[t].state = "ejected" => sockets[t].state = "ejected"
      BY <1>3 DEF LoginRestart, Make, Ended, Socket, SocketsTyped
    <2>2. /\ phase = "pairing" /\ sock # 0 /\ sock' = 0
          /\ UNCHANGED <<phase, attempt, closing, dead, leaving, connected, retry>>
      BY <1>3 DEF LoginRestart
    <2>3. QED BY <2>1, <2>2
  <1>4. CASE LoginSucceeds
    <2>1. sockets' = Ended(sockets, sock) BY <1>4 DEF LoginSucceeds, LoginOver
    <2>2. EndsOnly(sock) BY <2>1, EndingEnds
    <2>3. QED BY <1>4, <2>2 DEF LoginSucceeds, LoginOver, EndsOnly, flags, batchVars
  <1>5. CASE LoginFails
    <2>1. sockets' = Ended(sockets, sock) BY <1>5 DEF LoginFails, LoginOver
    <2>2. EndsOnly(sock) BY <2>1, EndingEnds
    <2>3. QED BY <1>5, <2>2 DEF LoginFails, LoginOver, EndsOnly, flags, batchVars
  <1>6. CASE Open
    BY <1>6
       DEF Open, Make, flags, socketVars, batchVars
  <1>7. CASE OpenFails
    BY <1>7
       DEF OpenFails, Leave, Ended, flags, socketVars, batchVars
  <1>8. CASE Connected
    BY <1>8
       DEF Connected, flags, socketVars, batchVars
  <1>9. CASE Wire
    BY <1>9
       DEF Wire, flags, socketVars, batchVars
  <1>10. CASE Dropped
    <2>1. sockets' = Ended(sockets, sock) BY <1>10 DEF Dropped, Schedules
    <2>2. EndsOnly(sock) BY <2>1, EndingEnds
    <2>3. QED BY <1>10, <2>2 DEF Dropped, Schedules, EndsOnly, flags, batchVars
  <1>11. CASE RetryFires
    BY <1>11
       DEF RetryFires, Make, flags, socketVars, batchVars
  <1>12. CASE Drained
    <2>1. sockets' = Ended(sockets, sock) BY <1>12 DEF Drained
    <2>2. EndsOnly(sock) BY <2>1, EndingEnds
    <2>3. QED BY <1>12, <2>2 DEF Drained, EndsOnly, flags, batchVars
  <1>13. ASSUME NEW code \in {"unlinked", "refused", "replaced"}, Ejected(code) PROVE NeverStranded'
    BY <1>13
       DEF Ejected, Dies, flags, socketVars, batchVars
  <1>14. ASSUME NEW why \in {"close", "logout"}, Close(why) PROVE NeverStranded'
    BY <1>14
       DEF Close, Leave, flags, socketVars, batchVars
  <1>15. ASSUME NEW s \in Sockets, SocketMade(s) PROVE NeverStranded'
    <2>1. CASE Wanted(s)
      <3>1. sockets' = [sockets EXCEPT ![s].state = "live"] /\ sock' = s
        BY <1>15, <2>1 DEF SocketMade
      <3>2. QED BY <1>15, <2>1, <3>1 DEF SocketMade, Wanted, flags, batchVars
    <2>2. CASE ~Wanted(s)
      <3>1. EndsOnly(s) BY <1>15, <2>2, EndingEnds DEF SocketMade
      <3>2. UNCHANGED <<sock, phase, flags, connected, retry, sent>> BY <1>15, <2>2 DEF SocketMade
      <3>3. QED BY <1>15, <2>2, <3>1, <3>2 DEF EndsOnly, Wanted, SocketMade, flags
    <2>3. QED BY <2>1, <2>2
  <1>16. ASSUME NEW s \in Sockets, MakeFails(s) PROVE NeverStranded'
    <2>1. sockets' = Ended(sockets, s) BY <1>16 DEF MakeFails, Schedules
    <2>2. EndsOnly(s) BY <2>1, EndingEnds
    <2>3. QED BY <1>16, <2>2 DEF MakeFails, Schedules, EndsOnly, flags, batchVars
  <1>17. CASE ServerSends
    BY <1>17
       DEF ServerSends, flags, socketVars, batchVars
  <1>18. CASE BatchBegins
    BY <1>18
       DEF BatchBegins, flags, socketVars, batchVars
  <1>19. CASE Emit
    BY <1>19
       DEF Emit, flags, socketVars, batchVars
  <1>20. CASE BatchEnds
    BY <1>20
       DEF BatchEnds, flags, socketVars, batchVars
  <1>21. CASE BatchThrows
    BY <1>21
       DEF BatchThrows, flags, socketVars, batchVars
  <1>22. CASE StragglerEnds
    BY <1>22
       DEF StragglerEnds, flags, socketVars, batchVars
  <1>23. CASE Crash
    BY <1>23
       DEF Crash, Ended, flags, socketVars, batchVars
  <1> HIDE DEF NeverStranded, OneAtATime, Making, Alive, Sockets, FlagsTyped, SocketsTyped
  <1>24. QED BY <1>1, <1>2, <1>3, <1>4, <1>5, <1>6, <1>7, <1>8, <1>9, <1>10, <1>11, <1>12, <1>13,
                <1>14, <1>15, <1>16, <1>17, <1>18, <1>19, <1>20, <1>21, <1>22, <1>23
       DEF Next, Pairing, Connection, History

\* A batch that is cut short is remembered.
LEMMA StepChain ==
    ASSUME FlagsTyped, SocketsTyped, BatchesTyped, OneAtATime, ChainInv, [Next]_vars
    PROVE  ChainInv'
  <1> USE WhatsAppAssumption DEF ChainInv, OneAtATime, FlagsTyped, NoBatch
  <1>1. CASE UNCHANGED vars BY <1>1 DEF vars, flags, socketVars, batchVars
  <1>2. CASE LoginStart
    <2>1. UNCHANGED batchVars /\ phase = "idle" /\ phase' = "pairing" /\ ~connected'
      BY <1>2 DEF LoginStart
    <2>2. batch = NoBatch /\ ~closing' BY <1>2 DEF LoginStart
    <2>3. QED BY <2>1, <2>2 DEF batchVars
  <1>3. CASE LoginRestart
    <2>1. UNCHANGED <<phase, closing, connected, batchVars>> /\ phase = "pairing"
      BY <1>3 DEF LoginRestart
    <2>2. QED BY <2>1 DEF batchVars
  <1>4. CASE LoginSucceeds
    BY <1>4
       DEF LoginSucceeds, LoginOver, flags, socketVars, batchVars
  <1>5. CASE LoginFails
    BY <1>5
       DEF LoginFails, LoginOver, flags, socketVars, batchVars
  <1>6. CASE Open
    <2>1. /\ phase' = "connecting" /\ batch' = NoBatch /\ ~connected' /\ buffer' = {}
          /\ phase = "idle" /\ UNCHANGED cut /\ ~closing'
      BY <1>6 DEF Open
    <2>2. straggler' = straggler BY <1>6 DEF Open
    <2>3. QED BY <2>1, <2>2
  <1>7. CASE OpenFails
    BY <1>7
       DEF OpenFails, Leave, Cuts, flags, socketVars, batchVars
  <1>8. CASE Connected
    BY <1>8
       DEF Connected, flags, socketVars, batchVars
  <1>9. CASE Wire
    BY <1>9
       DEF Wire, flags, socketVars, batchVars
  <1>10. CASE Dropped
    BY <1>10
       DEF Dropped, flags, socketVars, batchVars
  <1>11. CASE RetryFires
    BY <1>11
       DEF RetryFires, flags, socketVars, batchVars
  <1>12. CASE Drained
    BY <1>12
       DEF Drained, flags, socketVars, batchVars
  <1>13. ASSUME NEW code \in {"unlinked", "refused", "replaced"}, Ejected(code) PROVE ChainInv'
    BY <1>13
       DEF Ejected, Cuts, Dies, flags, socketVars, batchVars
  <1>14. ASSUME NEW why \in {"close", "logout"}, Close(why) PROVE ChainInv'
    BY <1>14
       DEF Close, Leave, Cuts, flags, socketVars, batchVars
  <1>15. ASSUME NEW s \in Sockets, SocketMade(s) PROVE ChainInv'
    <2>1. s # 0 BY DEF Sockets
    <2>2. sock' \in {s, sock} /\ connected' = connected BY <1>15 DEF SocketMade
    <2>3. phase' = phase \/ (phase = "connecting" /\ phase' = "waiting") BY <1>15 DEF SocketMade
    <2>4. UNCHANGED <<closing, batchVars>> BY <1>15 DEF SocketMade, flags
    <2>5. QED BY <2>1, <2>2, <2>3, <2>4 DEF batchVars
  <1>16. ASSUME NEW s \in Sockets, MakeFails(s) PROVE ChainInv'
    BY <1>16
       DEF MakeFails, flags, socketVars, batchVars
  <1>17. CASE ServerSends
    BY <1>17
       DEF ServerSends, flags, socketVars, batchVars
  <1>18. CASE BatchBegins
    <2>1. Head(chain) \in 1..Chunks BY <1>18 DEF BatchBegins, BatchesTyped
    <2>2. FirstOf(Head(chain)) # 0 BY <2>1, FirstMessage
    <2>3. QED BY <1>18, <2>1, <2>2 DEF BatchBegins, flags, socketVars
  <1>19. CASE Emit
    <2>1. batch.next + 1 # 0 BY <1>19 DEF Emit, BatchesTyped
    <2>2. QED BY <1>19, <2>1 DEF Emit, BatchesTyped, flags, socketVars
  <1>20. CASE BatchEnds
    BY <1>20
       DEF BatchEnds, flags, socketVars, batchVars
  <1>21. CASE BatchThrows
    BY <1>21
       DEF BatchThrows, flags, socketVars, batchVars
  <1>22. CASE StragglerEnds
    BY <1>22
       DEF StragglerEnds, flags, socketVars, batchVars
  <1>23. CASE Crash
    BY <1>23
       DEF Crash, flags, socketVars, batchVars
  <1> HIDE DEF ChainInv, OneAtATime, FlagsTyped, NoBatch
  <1>24. QED BY <1>1, <1>2, <1>3, <1>4, <1>5, <1>6, <1>7, <1>8, <1>9, <1>10, <1>11, <1>12, <1>13,
                <1>14, <1>15, <1>16, <1>17, <1>18, <1>19, <1>20, <1>21, <1>22, <1>23
       DEF Next, Pairing, Connection, History

-----------------------------------------------------------------------------
(* The order of the batches.                                               *)

\* What is in the chain is a batch of the history.
LEMMA ChainElement ==
    ASSUME BatchesTyped, NEW i \in 1..Len(chain) PROVE chain[i] \in 1..Chunks
  BY ElementOfSeq DEF BatchesTyped

\* What has been heard stays heard.
LEMMA HeardStays ==
    ASSUME archived \cup buffer \subseteq archived' \cup buffer', NEW n, Heard(n)
    PROVE  \A m \in Messages : m < n => m \in archived' \cup buffer'
  BY DEF Heard

\* Nothing needs to have come before the first batch.
LEMMA FirstHeard == \A m \in Messages : ~(m < FirstOf(1))
  BY WhatsAppAssumption DEF Messages, FirstOf

\* A session that begins has heard nothing out of order.
LEMMA BeginsInOrder ==
    ASSUME sent' = 0, chain' = <<>>, batch' = NoBatch PROVE InOrder'
  <1>1. Heard(FirstOf(sent + 1))'
    <2>1. sent' + 1 = 1 BY SMT
    <2>2. QED BY <2>1, FirstHeard DEF Heard
  <1>2. Len(chain') = 0 BY SMT
  <1>3. QED BY <1>1, <1>2 DEF InOrder

\* While chain and batch stand, more may be heard.
LEMMA StandsInOrder ==
    ASSUME InOrder, UNCHANGED <<sent, chain, batch>>,
           archived \cup buffer \subseteq archived' \cup buffer'
    PROVE  InOrder'
  BY HeardStays DEF InOrder, Heard

\* A new socket has the history sent from its start.
LEMMA RestartsInOrder ==
    ASSUME InOrder, sent' = 0, UNCHANGED <<chain, batch, archived, buffer>>
    PROVE  InOrder'
  <1>1. Heard(FirstOf(sent + 1))'
    <2>1. sent' + 1 = 1 BY SMT
    <2>2. QED BY <2>1, FirstHeard DEF Heard
  <1>2. QED BY <1>1 DEF InOrder, Heard

\* WhatsApp sends the next batch.
LEMMA SendsInOrder ==
    ASSUME BatchesTyped, InOrder, ServerSends PROVE InOrder'
  <1>1. /\ sent' = sent + 1 /\ chain' = Append(chain, sent + 1)
        /\ UNCHANGED <<batch, archived, buffer>>
    BY DEF ServerSends
  <1>2. /\ Len(chain') = Len(chain) + 1 /\ chain'[Len(chain) + 1] = sent + 1
        /\ \A i \in 1..Len(chain) : chain'[i] = chain[i]
    BY <1>1 DEF BatchesTyped
  <1>3. Len(chain) \in Nat /\ sent \in Nat BY WhatsAppAssumption DEF BatchesTyped
  <1>4. (batch # NoBatch => Heard(batch.next))' BY <1>1 DEF InOrder, Heard
  <1>5. ASSUME NEW i \in 1..Len(chain')
        PROVE  \/ Heard(FirstOf(chain[i]))'
               \/ batch'.chunk = chain'[i] - 1
               \/ \E j \in 1..(i - 1) : chain'[j] = chain'[i] - 1
    <2>1. CASE i = Len(chain) + 1
      <3>1. chain'[i] - 1 = sent BY <1>2, <1>3, <2>1
      <3>2. CASE Heard(FirstOf(sent + 1)) BY <1>1, <1>2, <2>1, <3>2 DEF Heard
      <3>3. CASE batch.chunk = sent BY <1>1, <3>1, <3>3
      <3>4. CASE \E j \in 1..Len(chain) : chain[j] = sent BY <1>2, <1>3, <2>1, <3>1, <3>4
      <3>5. QED BY <3>2, <3>3, <3>4 DEF InOrder
    <2>2. CASE i \in 1..Len(chain)
      <3>1. /\ chain'[i] = chain[i]
            /\ \A j \in 1..(i - 1) : chain'[j] = chain[j]
        BY <1>2, <1>3, <2>2
      <3>2. QED BY <1>1, <2>2, <3>1 DEF InOrder, Heard
    <2>3. QED BY <1>2, <1>3, <2>1, <2>2
  <1>6. \E j \in 1..Len(chain') : chain'[j] = sent' BY <1>1, <1>2, <1>3
  <1>7. QED BY <1>4, <1>5, <1>6 DEF InOrder

\* The first batch of the chain begins: what is before it has been heard.
LEMMA NextInOrder ==
    ASSUME BatchesTyped, InOrder, BatchBegins, ~closing PROVE InOrder'
  <1>1. /\ chain # <<>> /\ batch = NoBatch /\ chain' = Tail(chain)
        /\ batch' = [chunk |-> Head(chain), next |-> FirstOf(Head(chain))]
        /\ UNCHANGED <<sent, archived, buffer>>
    BY DEF BatchBegins, socketVars
  <1>2. /\ Len(chain) \in Nat \ {0} /\ Len(chain') = Len(chain) - 1
        /\ \A i \in 1..(Len(chain) - 1) : chain'[i] = chain[i + 1]
        /\ Head(chain) = chain[1] /\ \A i \in 1..Len(chain) : chain[i] \in 1..Chunks
    <2>1. chain \in Seq(1..Chunks) BY DEF BatchesTyped
    <2>2. Len(chain) \in Nat \ {0} BY <1>1, <2>1
    <2>3. Len(chain') = Len(chain) - 1 BY <1>1, <2>1
    <2>4. \A i \in 1..(Len(chain) - 1) : chain'[i] = chain[i + 1] BY <1>1, <2>1, <2>2
    <2>5. Head(chain) = chain[1] BY <1>1, <2>1
    <2>6. \A i \in 1..Len(chain) : chain[i] \in 1..Chunks BY ChainElement
    <2>7. QED BY <2>2, <2>3, <2>4, <2>5, <2>6
  <1>3. batch.chunk = 0 BY <1>1 DEF NoBatch
  <1>4. Heard(FirstOf(Head(chain)))
    <2>1. CASE batch.chunk = chain[1] - 1
      <3>1. Head(chain) = 1 BY <1>2, <1>3, <2>1
      <3>2. QED BY <3>1, FirstHeard DEF Heard
    <2>2. CASE ~(batch.chunk = chain[1] - 1) BY <1>2, <2>2 DEF InOrder
    <2>3. QED BY <2>1, <2>2
  <1>5. (batch # NoBatch => Heard(batch.next))' BY <1>1, <1>4 DEF Heard
  <1>6. ASSUME NEW c \in 0..Chunks, NEW k \in 1..(Len(chain) + 1),
               \/ batch.chunk = c
               \/ \E j \in 1..(k - 1) : chain[j] = c
        PROVE  \/ c = 0
               \/ batch'.chunk = c
               \/ \E j \in 1..(k - 2) : chain'[j] = c
    <2>1. CASE batch.chunk = c BY <1>3, <2>1
    <2>2. ASSUME NEW j \in 1..(k - 1), chain[j] = c
          PROVE  batch'.chunk = c \/ \E h \in 1..(k - 2) : chain'[h] = c
      <3>1. CASE j = 1 BY <1>1, <1>2, <2>2, <3>1
      <3>2. CASE j # 1
        <4>1. j - 1 \in 1..(k - 2) /\ j - 1 \in 1..(Len(chain) - 1) BY <1>2, <3>2
        <4>2. chain'[j - 1] = c BY <1>2, <2>2, <4>1
        <4>3. QED BY <4>1, <4>2
      <3>3. QED BY <3>1, <3>2
    <2>3. QED BY <1>6, <2>1, <2>2
  <1>7. ASSUME NEW i \in 1..Len(chain')
        PROVE  \/ Heard(FirstOf(chain[i]))'
               \/ batch'.chunk = chain'[i] - 1
               \/ \E j \in 1..(i - 1) : chain'[j] = chain'[i] - 1
    <2> DEFINE c == chain[i + 1] - 1
    <2>1. /\ i + 1 \in 1..Len(chain) /\ chain'[i] = chain[i + 1] /\ c \in 0..Chunks
          /\ i + 1 \in 1..(Len(chain) + 1) /\ chain[i + 1] \in 1..Chunks
      BY <1>2, WhatsAppAssumption
    <2>2. \/ Heard(FirstOf(chain[i + 1]))
          \/ batch.chunk = c
          \/ \E j \in 1..((i + 1) - 1) : chain[j] = c
      BY <2>1 DEF InOrder
    <2>3. CASE Heard(FirstOf(chain[i + 1])) BY <1>1, <2>1, <2>3 DEF Heard
    <2>4. CASE ~Heard(FirstOf(chain[i + 1]))
      <3>1. \/ c = 0
            \/ batch'.chunk = c
            \/ \E j \in 1..((i + 1) - 2) : chain'[j] = c
        BY <1>6, <2>1, <2>2, <2>4
      <3>2. c # 0
        <4>1. c = 0 => chain[i + 1] = 1 BY <2>1
        <4>2. QED BY <2>4, <4>1, FirstHeard DEF Heard
      <3>3. (i + 1) - 2 = i - 1 BY <1>2
      <3>4. chain'[i] - 1 = c BY <2>1
      <3>5. QED BY <3>1, <3>2, <3>3, <3>4
    <2>5. QED BY <2>3, <2>4
  <1>8. \/ Heard(FirstOf(sent + 1))'
        \/ batch'.chunk = sent'
        \/ \E j \in 1..Len(chain') : chain'[j] = sent'
    <2>1. sent \in 0..Chunks /\ Len(chain) + 1 \in 1..(Len(chain) + 1) BY <1>2 DEF BatchesTyped
    <2>2. CASE Heard(FirstOf(sent + 1)) BY <1>1, <2>2 DEF Heard
    <2>3. CASE ~Heard(FirstOf(sent + 1))
      <3>1. batch.chunk = sent \/ \E j \in 1..((Len(chain) + 1) - 1) : chain[j] = sent
        BY <1>2, <2>3 DEF InOrder
      <3>2. \/ sent = 0
            \/ batch'.chunk = sent
            \/ \E j \in 1..((Len(chain) + 1) - 2) : chain'[j] = sent
        BY <1>6, <2>1, <3>1
      <3>3. sent # 0
        <4>1. sent = 0 => sent + 1 = 1 BY SMT
        <4>2. QED BY <2>3, <4>1, FirstHeard DEF Heard
      <3>4. (Len(chain) + 1) - 2 = Len(chain') BY <1>2
      <3>5. QED BY <1>1, <3>2, <3>3, <3>4
    <2>4. QED BY <2>2, <2>3
  <1>9. QED BY <1>5, <1>7, <1>8 DEF InOrder

\* A message of the batch is handed over, or waits for the manager.
LEMMA EmitsInOrder ==
    ASSUME BatchesTyped, InOrder, Emit, ~closing PROVE InOrder'
  <1>1. /\ batch # NoBatch /\ batch' = [batch EXCEPT !.next = @ + 1]
        /\ UNCHANGED <<sent, chain>>
    BY DEF Emit, socketVars
  <1>2. /\ archived \cup buffer \subseteq archived' \cup buffer'
        /\ batch.next \in archived' \cup buffer'
    BY DEF Emit
  <1>3. batch'.chunk = batch.chunk /\ batch'.next = batch.next + 1 /\ batch.next \in Nat
    BY <1>1 DEF BatchesTyped
  <1>4. Heard(batch.next) BY <1>1 DEF InOrder
  <1>5. Heard(batch.next)'
    <2>1. SUFFICES ASSUME NEW m \in Messages, m < batch'.next PROVE m \in archived' \cup buffer'
      BY DEF Heard
    <2>2. m < batch.next \/ m = batch.next BY <1>3, <2>1 DEF Messages
    <2>3. QED BY <1>2, <1>4, <2>2 DEF Heard
  <1>6. \A n : Heard(n) => \A m \in Messages : m < n => m \in archived' \cup buffer'
    BY <1>2 DEF Heard
  <1>7. ASSUME NEW i \in 1..Len(chain')
        PROVE  \/ Heard(FirstOf(chain[i]))'
               \/ batch'.chunk = chain'[i] - 1
               \/ \E j \in 1..(i - 1) : chain'[j] = chain'[i] - 1
    BY <1>1, <1>3, <1>6 DEF InOrder, Heard
  <1>8. \/ Heard(FirstOf(sent + 1))'
        \/ batch'.chunk = sent'
        \/ \E j \in 1..Len(chain') : chain'[j] = sent'
    BY <1>1, <1>3, <1>6 DEF InOrder, Heard
  <1>9. QED BY <1>5, <1>7, <1>8 DEF InOrder

\* When a batch has been gone through, what comes before the next has been heard.
LEMMA BatchHeard ==
    ASSUME BatchesTyped, batch # NoBatch, Heard(batch.next), batch.next > LastOf(batch.chunk)
    PROVE  Heard(FirstOf(batch.chunk + 1)) /\ \A m \in Messages : m <= LastOf(batch.chunk) =>
                                                m \in archived \cup buffer
  <1>1. batch.chunk \in Nat /\ batch.next \in Nat BY WhatsAppAssumption DEF BatchesTyped
  <1>2. LastOf(batch.chunk) \in Nat /\ FirstOf(batch.chunk + 1) = LastOf(batch.chunk) + 1
    <2>1. (batch.chunk + 1) - 1 = batch.chunk BY <1>1
    <2>2. batch.chunk * PerChunk \in Nat BY <1>1, WhatsAppAssumption
    <2>3. QED BY <2>1, <2>2 DEF FirstOf, LastOf
  <1>3. \A m \in Messages :
            m < FirstOf(batch.chunk + 1) \/ m <= LastOf(batch.chunk) => m < batch.next
    BY <1>1, <1>2 DEF Messages
  <1>4. QED BY <1>3 DEF Heard

\* A batch that has been gone through leaves what follows it in order.
LEMMA EndsInOrder ==
    ASSUME BatchesTyped, InOrder, BatchEnds PROVE InOrder'
  <1>1. /\ batch # NoBatch /\ batch.next > LastOf(batch.chunk) /\ batch' = NoBatch
        /\ UNCHANGED <<sent, chain, archived, buffer>>
    BY DEF BatchEnds, socketVars
  <1>2. Heard(FirstOf(batch.chunk + 1)) BY <1>1, BatchHeard DEF InOrder
  <1>3. ASSUME NEW i \in 1..Len(chain')
        PROVE  \/ Heard(FirstOf(chain[i]))'
               \/ batch'.chunk = chain'[i] - 1
               \/ \E j \in 1..(i - 1) : chain'[j] = chain'[i] - 1
    <2>1. CASE batch.chunk = chain[i] - 1
      <3>1. chain[i] \in 1..Chunks BY <1>1, ChainElement
      <3>2. batch.chunk + 1 = chain[i] BY <2>1, <3>1
      <3>3. QED BY <1>1, <1>2, <3>2 DEF Heard
    <2>2. CASE ~(batch.chunk = chain[i] - 1) BY <1>1, <2>2 DEF InOrder, Heard
    <2>3. QED BY <2>1, <2>2
  <1>4. \/ Heard(FirstOf(sent + 1))'
        \/ batch'.chunk = sent'
        \/ \E j \in 1..Len(chain') : chain'[j] = sent'
    BY <1>1, <1>2 DEF InOrder, Heard
  <1>5. QED BY <1>1, <1>3, <1>4 DEF InOrder

\* The batches are heard in order, for as long as nothing is cut short.
LEMMA StepOrder ==
    ASSUME FlagsTyped, BatchesTyped, OneAtATime, ChainInv, OrderInv, [Next]_vars
    PROVE  OrderInv'
  <1> SUFFICES ASSUME cut' = {}, ~closing' PROVE InOrder'
    BY DEF OrderInv
  <1>1. CASE UNCHANGED <<sent, chain, batch, archived, buffer, cut, closing>>
    BY <1>1, StandsInOrder DEF OrderInv
  <1>2. CASE LoginStart
    <2>1. chain = <<>> /\ batch = NoBatch BY <1>2 DEF LoginStart, ChainInv
    <2>2. sent' = 0 /\ UNCHANGED <<chain, batch>> BY <1>2 DEF LoginStart, batchVars
    <2>3. QED BY <2>1, <2>2, BeginsInOrder
  <1>3. CASE Open
    <2>1. sent' = 0 /\ chain' = <<>> /\ batch' = NoBatch BY <1>3 DEF Open
    <2>2. QED BY <2>1, BeginsInOrder
  <1>4. ASSUME NEW s \in Sockets, SocketMade(s) PROVE InOrder'
    <2>1. UNCHANGED <<chain, batch, archived, buffer, cut, closing>> /\ sent' \in {0, sent}
      BY <1>4 DEF SocketMade, flags, batchVars
    <2>2. QED BY <2>1, StandsInOrder, RestartsInOrder DEF OrderInv
  <1>5. CASE Wire
    <2>1. archived \cup buffer \subseteq archived' \cup buffer' /\ UNCHANGED <<sent, chain,
      batch, cut, closing>>
      BY <1>5 DEF Wire, flags, socketVars
    <2>2. QED BY <2>1, StandsInOrder DEF OrderInv
  <1>6. CASE ServerSends BY <1>6, SendsInOrder DEF OrderInv, ServerSends, flags
  <1>7. CASE BatchBegins BY <1>7, NextInOrder DEF OrderInv, BatchBegins, flags
  <1>8. CASE Emit BY <1>8, EmitsInOrder DEF OrderInv, Emit, flags
  <1>9. CASE BatchEnds BY <1>9, EndsInOrder DEF OrderInv, BatchEnds
  <1>10. CASE BatchThrows BY <1>10 DEF BatchThrows
  <1>11. ASSUME NEW code, Ejected(code) PROVE InOrder'
    <2>1. UNCHANGED <<sent, chain, batch, archived, buffer, cut, closing>>
      BY <1>11 DEF Ejected
    <2>2. QED BY <1>1, <2>1
  <1>12. CASE LoginSucceeds \/ LoginFails BY <1>12 DEF LoginSucceeds, LoginFails, LoginOver
  <1>13. CASE OpenFails \/ \E why \in {"close", "logout"} : Close(why)
    BY <1>13 DEF OpenFails, Close, Leave
  <1>14. CASE Drained
    <2>1. closing' BY <1>14 DEF Drained, flags, OneAtATime, FlagsTyped
    <2>2. QED BY <2>1
  <1>15. CASE Crash BY <1>15 DEF Crash
  <1>16. CASE LoginRestart BY <1>1, <1>16 DEF LoginRestart, batchVars
  <1>17. CASE Connected \/ Dropped \/ RetryFires \/ \E s \in Sockets : MakeFails(s)
    BY <1>1, <1>17 DEF Connected, Dropped, RetryFires, MakeFails, flags, batchVars
  <1>18. CASE StragglerEnds BY <1>1, <1>18 DEF StragglerEnds, flags, socketVars
  <1>19. CASE UNCHANGED vars BY <1>1, <1>19 DEF vars, flags, socketVars, batchVars
  <1>20. QED
    BY <1>2, <1>3, <1>4, <1>5, <1>6, <1>7, <1>8, <1>9, <1>10, <1>11, <1>12, <1>13, <1>14, <1>15,
       <1>16, <1>17, <1>18, <1>19
       DEF Next, Pairing, Connection, History

-----------------------------------------------------------------------------
(* The theorems.                                                           *)

\* The marker is written after the last message, or by what was cut short.
LEMMA StepHistory ==
    ASSUME TypeOK, TypeOK', ChainInv, OneAtATime, OrderInv, HistoryComplete, [Next]_vars
    PROVE  HistoryComplete'
  <1> SUFFICES ASSUME disk'.marker, cut' = {} PROVE Messages \subseteq archived'
    BY DEF HistoryComplete, TypeOK
  <1>1. CASE /\ disk.marker /\ cut = {} /\ archived \subseteq archived'
    BY <1>1 DEF HistoryComplete
  <1>2. CASE BatchEnds
    <2>1. UNCHANGED <<cut, archived>> BY <1>2 DEF BatchEnds
    <2>2. CASE disk.marker BY <1>1, <2>1, <2>2
    <2>3. CASE ~disk.marker
      <3>1. disk' = [disk EXCEPT !.marker = Marker(Completes(batch.chunk) /\ asking)]
        BY <1>2 DEF BatchEnds
      <3>2. Completes(batch.chunk) /\ asking
        BY <2>3, <3>1 DEF Marker, TypeOK
      <3>3. batch # NoBatch /\ wired /\ batch.next > LastOf(batch.chunk)
        BY <1>2, <3>2 DEF BatchEnds
      <3>4. buffer = {} /\ InOrder BY <2>1, <3>3 DEF ChainInv, OrderInv
      <3>5. Heard(batch.next) BY <3>3, <3>4 DEF InOrder
      <3>6. batch.chunk = Chunks BY <3>2 DEF Completes
      <3>7. \A m \in Messages : m <= LastOf(Chunks)
        BY WhatsAppAssumption DEF Messages, LastOf
      <3>8. QED BY <2>1, <3>3, <3>4, <3>5, <3>6, <3>7, BatchHeard, TypeParts
    <2>4. QED BY <2>2, <2>3
  <1>3. CASE StragglerEnds BY <1>3 DEF StragglerEnds, ChainInv
  <1>4. CASE LoginStart \/ LoginSucceeds \/ LoginFails
    <2>1. \E creds : disk' = [creds |-> creds, marker |-> FALSE]
      BY <1>4, Zenon DEF LoginStart, LoginSucceeds, LoginFails, LoginOver
    <2>2. QED BY <2>1
  <1>5. CASE LoginRestart
    <2>1. disk' = [disk EXCEPT !.creds = TRUE] /\ UNCHANGED batchVars
      BY <1>5 DEF LoginRestart
    <2>2. QED BY <1>1, <2>1 DEF TypeOK, batchVars
  <1>6. CASE Open \/ Wire \/ Connected \/ Dropped \/ RetryFires
          \/ \E s \in Sockets : SocketMade(s) \/ MakeFails(s)
    BY <1>1, <1>6
       DEF Open, Wire, Connected, Dropped, RetryFires, SocketMade, MakeFails, batchVars
  <1>7. CASE OpenFails \/ \E why \in {"close", "logout"} : Close(why)
    BY <1>1, <1>7 DEF OpenFails, Close, Leave
  <1>8. ASSUME NEW code, Ejected(code) PROVE Messages \subseteq archived'
    <2>1. UNCHANGED <<disk, archived>> /\ cut \subseteq cut' BY <1>8 DEF Ejected
    <2>2. QED BY <1>1, <2>1
  <1>9. CASE Drained \/ Crash
    <2>1. /\ disk' = [creds |-> FALSE, marker |-> FALSE] \/ disk' = disk
          /\ UNCHANGED <<archived, cut>>
      BY <1>9 DEF Drained, Crash
    <2>2. QED BY <1>1, <2>1
  <1>10. CASE ServerSends \/ BatchBegins \/ BatchThrows
    BY <1>1, <1>10 DEF ServerSends, BatchBegins, BatchThrows
  <1>11. CASE Emit
    <2>1. UNCHANGED <<disk, cut>> /\ archived \subseteq archived' BY <1>11 DEF Emit
    <2>2. QED BY <1>1, <2>1
  <1>12. CASE UNCHANGED vars BY <1>1, <1>12 DEF vars, batchVars
  <1>13. QED
    BY <1>2, <1>3, <1>4, <1>5, <1>6, <1>7, <1>8, <1>9, <1>10, <1>11, <1>12
       DEF Next, Pairing, Connection, History

\* The invariant holds of a port that has done nothing.
LEMMA InitPortInv == Init => PortInv
  <1> SUFFICES ASSUME Init PROVE PortInv
    OBVIOUS
  <1>1. FlagsTyped
    <2>1. phase = "idle" /\ attempt = 0 /\ leaving = "close" BY DEF Init
    <2>2. disk = [creds |-> FALSE, marker |-> FALSE] BY DEF Init
    <2>3. {closing, dead, restarted, asking, connected, retry} \subseteq BOOLEAN BY DEF Init
    <2>4. attempt \in 0..MaxAttempts BY <2>1, WhatsAppAssumption
    <2>5. QED BY <2>1, <2>2, <2>3, <2>4 DEF FlagsTyped, Phases
  <1>2. SocketsTyped
    BY WhatsAppAssumption DEF Init, SocketsTyped, Socket, NoSocket
  <1>3. BatchesTyped
    <2>1. sent = 0 /\ chain = <<>> /\ straggler = 0 /\ batch = NoBatch BY DEF Init
    <2>2. wired \in BOOLEAN /\ buffer = {} /\ archived = {} /\ cut = {} BY DEF Init
    <2>3. QED BY <2>1, <2>2, WhatsAppAssumption DEF BatchesTyped, NoBatch
  <1>4. OneAtATime BY WhatsAppAssumption DEF Init, OneAtATime, NoSocket, Making, Alive
  <1>5. OverIsDead BY DEF Init, OverIsDead, Over, NoSocket
  <1>6. ChainInv BY DEF Init, ChainInv
  <1>7. OrderInv BY DEF Init, OrderInv
  <1>8. NoSocketLeft /\ NeverStranded /\ HistoryComplete
    BY DEF Init, NoSocketLeft, NeverStranded, HistoryComplete, NoSocket
  <1>9. QED BY <1>1, <1>2, <1>3, <1>4, <1>5, <1>6, <1>7, <1>8, TypeParts DEF PortInv

\* And of every port that keeps to its code.
LEMMA StepPortInv == PortInv /\ [Next]_vars => PortInv'
  <1> SUFFICES ASSUME PortInv, [Next]_vars PROVE PortInv'
    OBVIOUS
  <1>1. FlagsTyped /\ SocketsTyped /\ BatchesTyped BY TypeParts DEF PortInv
  <1>2. OneAtATime /\ OverIsDead /\ ChainInv /\ OrderInv BY DEF PortInv
  <1>3. NoSocketLeft /\ NeverStranded /\ HistoryComplete BY DEF PortInv
  <1>4. (FlagsTyped /\ SocketsTyped /\ BatchesTyped)'
    BY <1>1, <1>2, StepFlags, StepSockets, StepBatches
  <1>5. TypeOK /\ TypeOK'
    <2>1. TypeOK BY DEF PortInv
    <2>2. TypeOK' BY <1>4 DEF TypeOK, FlagsTyped, SocketsTyped, BatchesTyped
    <2>3. QED BY <2>1, <2>2
  <1>6. OneAtATime' BY <1>1, <1>2, <1>3, StepOneAtATime
  <1>7. OverIsDead' BY <1>1, <1>2, StepOverIsDead
  <1>8. ChainInv' BY <1>1, <1>2, StepChain
  <1>9. OrderInv' BY <1>1, <1>2, StepOrder
  <1>10. NoSocketLeft' BY <1>1, <1>2, <1>3, StepNoSocketLeft
  <1>11. NeverStranded' BY <1>1, <1>2, <1>3, StepNeverStranded
  <1>12. HistoryComplete' BY <1>2, <1>3, <1>5, StepHistory
  <1>13. QED BY <1>5, <1>6, <1>7, <1>8, <1>9, <1>10, <1>11, <1>12 DEF PortInv

\* The inductive invariant of the port.
THEOREM WhatsAppInductive == Spec => []PortInv
  BY InitPortInv, StepPortInv, PTL DEF Spec

\* The marker is never without its directory, and what the port remembers keeps
\* its types.
THEOREM WhatsAppTypes == Spec => []TypeOK
  <1>1. PortInv => TypeOK BY DEF PortInv
  <1>2. QED BY <1>1, WhatsAppInductive, PTL

\* A login that has settled, and a session that is closed, leave no socket.
THEOREM SocketsClosed == Spec => []NoSocketLeft
  <1>1. PortInv => NoSocketLeft BY DEF PortInv
  <1>2. QED BY <1>1, WhatsAppInductive, PTL

\* A session that is not connected is about to be, or over.
THEOREM Reconnects == Spec => []NeverStranded
  <1>1. PortInv => NeverStranded BY DEF PortInv
  <1>2. QED BY <1>1, WhatsAppInductive, PTL

\* The marker says that the history has been handed over, unless a batch was
\* cut short.
THEOREM MarkerTrue == Spec => []HistoryComplete
  <1>1. PortInv => HistoryComplete BY DEF PortInv
  <1>2. QED BY <1>1, WhatsAppInductive, PTL

\* What makes a socket that may carry something is of a session not yet over.
LEMMA StepStaysDown ==
    ASSUME PortInv, [Next]_vars
    PROVE  Over /\ attempt' = attempt =>
             \A s \in Sockets : \A state \in {"making", "live"} :
                sockets'[s].state = state => sockets[s].state = state
  <1> SUFFICES ASSUME Over, attempt' = attempt
               PROVE  \A s \in Sockets : \A state \in {"making", "live"} :
                         sockets'[s].state = state => sockets[s].state = state
    OBVIOUS
  <1>1. dead /\ phase # "pairing" BY DEF PortInv, OverIsDead, OneAtATime
  <1>2. attempt \in Nat /\ SocketsTyped
    BY TypeParts, WhatsAppAssumption DEF PortInv, FlagsTyped
  <1>3. CASE UNCHANGED sockets BY <1>3
  <1>4. ASSUME NEW s, sockets' = Ended(sockets, s)
        PROVE  \A t \in Sockets : \A state \in {"making", "live"} :
                  sockets'[t].state = state => sockets[t].state = state
    <2>1. EndsOnly(s) BY <1>2, <1>4, EndingEnds
    <2>2. QED BY <2>1 DEF EndsOnly
  <1>5. CASE LoginStart \/ Open
    <2>1. attempt' = attempt + 1 BY <1>5 DEF LoginStart, Open
    <2>2. QED BY <1>2, <2>1
  <1>6. CASE LoginRestart \/ LoginSucceeds \/ LoginFails
    BY <1>1, <1>6 DEF LoginRestart, LoginSucceeds, LoginFails
  <1>7. CASE OpenFails BY <1>2, <1>7 DEF OpenFails, Ended, SocketsTyped, Socket
  <1>8. CASE Dropped \/ Drained BY <1>4, <1>8 DEF Dropped, Drained
  <1>9. CASE RetryFires BY <1>1, <1>3, <1>9 DEF RetryFires
  <1>10. ASSUME NEW code, Ejected(code)
         PROVE  \A t \in Sockets : \A state \in {"making", "live"} :
                   sockets'[t].state = state => sockets[t].state = state
    <2>1. sockets' = [sockets EXCEPT ![sock].state = "ejected"] BY <1>10 DEF Ejected
    <2>2. QED BY <1>2, <2>1 DEF SocketsTyped, Socket
  <1>11. ASSUME NEW s \in Sockets, SocketMade(s)
         PROVE  \A t \in Sockets : \A state \in {"making", "live"} :
                   sockets'[t].state = state => sockets[t].state = state
    BY <1>1, <1>4, <1>11 DEF SocketMade, Wanted
  <1>12. ASSUME NEW s \in Sockets, MakeFails(s)
         PROVE  \A t \in Sockets : \A state \in {"making", "live"} :
                   sockets'[t].state = state => sockets[t].state = state
    BY <1>4, <1>12 DEF MakeFails
  <1>13. CASE Crash BY <1>2, <1>13 DEF Crash, Ended, SocketsTyped, Socket
  <1>14. CASE Connected \/ Wire \/ \E why \in {"close", "logout"} : Close(why)
    BY <1>3, <1>14 DEF Connected, Wire, Close, socketVars
  <1>15. CASE History
    BY <1>3, <1>15
       DEF History, ServerSends, BatchBegins, Emit, BatchEnds, BatchThrows, StragglerEnds,
           socketVars
  <1>16. CASE UNCHANGED vars BY <1>3, <1>16 DEF vars, socketVars
  <1>17. QED
    BY <1>5, <1>6, <1>7, <1>8, <1>9, <1>10, <1>11, <1>12, <1>13, <1>14, <1>15, <1>16
       DEF Next, Pairing, Connection

\* What WhatsApp, or logOut(), has ended is not connected again by that session.
THEOREM StaysDown == Spec => DeadStaysDown
  <1>1. PortInv /\ [Next]_vars =>
          [Over /\ attempt' = attempt =>
             \A s \in Sockets : \A state \in {"making", "live"} :
                sockets'[s].state = state => sockets[s].state = state]_vars
    BY StepStaysDown
  <1>2. QED BY <1>1, WhatsAppInductive, PTL DEF Spec, DeadStaysDown
=============================================================================
