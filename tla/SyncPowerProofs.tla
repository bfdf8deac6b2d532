--------------------------- MODULE SyncPowerProofs ---------------------------
(***************************************************************************)
(* Theorems about Sync that survive power losses of both machines, for     *)
(* every number of tables, rows, shippers, lost and late requests.         *)
(*                                                                         *)
(* After a power loss the server's cursor and the endpoint's counter have  *)
(* nothing to do with each other any more: IInv of SyncProofs, which       *)
(* relates them, is lost.  What is left is that each database is sound by  *)
(* itself, and so is what it falls back to; PowerInv says so.  It also     *)
(* says what a batch is, since Apply relies on one row per key.            *)
(***************************************************************************)
EXTENDS SyncProofs

\* An endpoint database whose counter is n.
Sound(S, n) ==
    /\ IsFiniteSet(S)
    /\ \A r \in S : 0 < r.rev /\ r.rev <= n
    /\ \A p, q \in S : p.key = q.key \/ p.rev = q.rev => p = q

\* A mirror whose cursor is c.
Settled(M, c) == OneRowPerKey(M) /\ \A m \in M : m.rev <= c

\* Who waits for an answer waits for the one request it has under way.
Waiting ==
    /\ OneHeld
    /\ \A m \in net : m.live => ship[m.from].pc = "post" /\ ship[m.from].sent = m.rows
    /\ AnswerCoversRequest

PowerInv ==
    /\ TypeOK
    /\ Sound(rows, counter) /\ Sound(disk.rows, disk.counter)
    /\ Settled(mirror, cursor) /\ Settled(sdisk.mirror, sdisk.cursor)
    /\ \A m \in net : OneRowPerKey(m.rows)
    /\ Waiting

USE MaxIdAssumption, MaxRevAssumption, MaxRowsAssumption, NullAssumption

LEMMA InitPower == Init => PowerInv
<1> SUFFICES ASSUME Init PROVE PowerInv
  OBVIOUS
<1>1. TypeOK
  BY InitInv DEF IInv
<1>2. Sound({}, 0) /\ Settled({}, 0)
  BY FS_EmptySet DEF Sound, Settled, OneRowPerKey
<1>3. Waiting
  BY DEF Init, Waiting, OneHeld, AnswerCoversRequest, Idle
<1> QED BY <1>1, <1>2, <1>3 DEF Init, PowerInv

LEMMA SameLearns ==
    ASSUME TypeOK, UNCHANGED <<mirror, cursor>>
    PROVE  Learns
BY DEF Learns, TypeOK, Row

\* The shipper s gets to p, and no longer waits for anything.
LEMMA WaitingStep ==
    ASSUME TypeOK, Waiting, NEW s \in Shipper, NEW p \in Process, p.pc \notin {"post", "reply"},
           ship' = [ship EXCEPT ![s] = p],
           \A m \in net' : m \in Message /\ (m.live => m \in net /\ m.from # s)
    PROVE  Waiting'
<1>1. \A q \in Shipper : ship'[q] = IF q = s THEN p ELSE ship[q]
  BY DEF TypeOK
<1>2. \A m \in net' : m.from \in Shipper
  BY DEF Message
<1>3. OneHeld'
  BY DEF Waiting, OneHeld
<1>4. \A m \in net' : m.live => ship'[m.from].pc = "post" /\ ship'[m.from].sent = m.rows
  BY <1>1, <1>2 DEF Waiting
<1>5. AnswerCoversRequest'
  BY <1>1 DEF Waiting, AnswerCoversRequest
<1> QED BY <1>3, <1>4, <1>5 DEF Waiting

\* What is under way after the shippers S have given up.
LEMMA GivenUp ==
    ASSUME PowerInv, NEW S, net' \subseteq (net \ Held(S)) \cup Detached(S)
    PROVE  \A m \in net' : /\ m \in Message /\ OneRowPerKey(m.rows)
                           /\ m.live => m \in net /\ m.from \notin S
<1>1. ASSUME NEW m \in Detached(S)
      PROVE  m \in Message /\ OneRowPerKey(m.rows) /\ ~m.live
  <2>1. PICK h \in Held(S) : m = [h EXCEPT !.live = FALSE]
    BY DEF Detached
  <2>2. h \in Message /\ OneRowPerKey(h.rows)
    BY DEF Held, PowerInv, TypeOK
  <2>3. m \in Message /\ ~m.live /\ m.rows = h.rows
    BY <2>1, <2>2 DEF Message
  <2> QED BY <2>2, <2>3
<1>2. \A m \in net \ Held(S) : m \in Message /\ OneRowPerKey(m.rows) /\ (m.live => m.from \notin S)
  BY DEF PowerInv, TypeOK, Held
<1> QED BY <1>1, <1>2

-----------------------------------------------------------------------------
(* The steps *)

LEMMA WritePower ==
    ASSUME PowerInv, Write
    PROVE  PowerInv' /\ Learns
<1> USE DEF PowerInv
<1>1. Stamped
  BY WriteStamps DEF Sound, RowsInv
<1>2. UNCHANGED <<disk, ship, net, server, faults>>
  BY DEF Write, Insert, Update, Prune
<1>3. TypeOK'
  <2>1. \A r \in rows' : r.rev \in 1..counter'
    <3>1. counter \in Nat /\ counter' \in Nat /\ counter <= counter' /\ \A r \in rows' : r.rev \in Nat
      BY <1>1 DEF TypeOK, Stamped, Row
    <3>2. \A r \in rows' : r.rev \in 1..counter \/ (counter < r.rev /\ r.rev <= counter')
      BY <1>1 DEF TypeOK, Stamped
    <3> QED BY <3>1, <3>2
  <2>2. rows' \subseteq Row /\ counter' \in Nat
    BY <1>1 DEF Stamped
  <2> QED BY <1>2, <2>1, <2>2 DEF TypeOK, server
<1>4. Sound(rows', counter')
  <2>1. counter \in Nat /\ \A r \in rows' : r.rev \in Nat
    BY <1>1 DEF TypeOK, Stamped, Row
  <2> QED BY <1>1, <2>1 DEF Stamped, Sound
<1>5. Waiting'
  BY <1>2 DEF Waiting, OneHeld, AnswerCoversRequest
<1>6. Learns
  BY <1>2, SameLearns DEF server
<1> QED BY <1>2, <1>3, <1>4, <1>5, <1>6 DEF server

LEMMA ShipperPower ==
    ASSUME PowerInv, NEW s \in Shipper, AskCursor(s) \/ GotReply(s) \/ Start(s)
    PROVE  PowerInv' /\ Learns
<1> USE DEF PowerInv
<1>1. UNCHANGED <<endpoint, net, server, faults>>
  BY DEF AskCursor, GotReply, Start
<1>2. PICK p \in Process : ship' = [ship EXCEPT ![s] = p] /\ p.pc \notin {"post", "reply"}
  <2>1. /\ Idle \in Process /\ Idle.pc = "wait"
        /\ Exited \in Process /\ Exited.pc = "exited"
    BY DEF Process, Idle, Exited
  <2>2. ASSUME NEW c \in Nat
        PROVE  [Idle EXCEPT !.pc = "read", !.since = c] \in Process /\ [Idle EXCEPT !.pc = "read", !.since = c].pc = "read"
    BY DEF Process, Idle
  <2>3. cursor \in Nat /\ ship[s].reply \in Nat
    BY DEF TypeOK, Process
  <2>4. \/ ship' = [ship EXCEPT ![s] = Idle]
        \/ ship' = [ship EXCEPT ![s] = Exited]
        \/ \E c \in Nat : ship' = [ship EXCEPT ![s] = [Idle EXCEPT !.pc = "read", !.since = c]]
    BY <2>3 DEF AskCursor, GotReply, Start
  <2> QED BY <2>1, <2>2, <2>4
<1>3. \A m \in net' : m \in Message /\ (m.live => m \in net /\ m.from # s)
  BY <1>1 DEF Waiting, TypeOK, AskCursor, GotReply, Start
<1>4. Waiting'
  BY <1>2, <1>3, WaitingStep
<1>5. TypeOK'
  BY <1>1, <1>2 DEF TypeOK, endpoint, server
<1>6. Learns
  BY <1>1, SameLearns DEF server
<1> QED BY <1>1, <1>4, <1>5, <1>6 DEF endpoint, server

\* A batch is read from one snapshot of the tables, so it has one row per key.
LEMMA PostPower ==
    ASSUME PowerInv, NEW s \in Shipper, Post(s)
    PROVE  PowerInv' /\ Learns
<1> USE DEF PowerInv
<1>1. ship[s] \in Process /\ ship[s].pc = "read" /\ ship[s].since \in Nat
  BY DEF TypeOK, Process, Post
<1>2. PICK batch \in ChangesSince(ship[s].since) :
         /\ ship' = [ship EXCEPT ![s] = [ship[s] EXCEPT !.pc = "post", !.sent = batch]]
         /\ net' = net \cup {[from |-> s, live |-> TRUE, base |-> ship[s].since, rows |-> batch]}
  BY DEF Post, TypeOK
<1>3. UNCHANGED <<endpoint, server, faults>>
  BY DEF Post
<1>4. batch \subseteq rows /\ rows \subseteq Row
  BY <1>1, ChangesComplete DEF TypeOK, Sound
<1> DEFINE m == [from |-> s, live |-> TRUE, base |-> ship[s].since, rows |-> batch]
           p == [ship[s] EXCEPT !.pc = "post", !.sent = batch]
<1>5. m \in Message /\ m.from = s /\ m.live /\ m.rows = batch
  BY <1>1, <1>4 DEF Message
<1>6. p \in Process /\ p.pc = "post" /\ p.sent = batch
  BY <1>1, <1>4 DEF Process
<1>7. net' = net \cup {m} /\ ship' = [ship EXCEPT ![s] = p]
  BY <1>2
<1> HIDE DEF m, p
<1>8. \A n \in net' : OneRowPerKey(n.rows)
  BY <1>4, <1>5, <1>7 DEF Sound, OneRowPerKey
<1>9. TypeOK'
  BY <1>3, <1>5, <1>6, <1>7 DEF TypeOK, endpoint, server
<1>10. Waiting'
  <2>1. \A q \in Shipper : ship'[q] = IF q = s THEN p ELSE ship[q]
    BY <1>7 DEF TypeOK
  <2>2. \A n \in net : n.live => n.from \in Shipper /\ n.from # s
    BY <1>1 DEF Waiting, TypeOK, Message
  <2>3. OneHeld'
    BY <1>5, <1>7, <2>2 DEF Waiting, OneHeld
  <2>4. \A n \in net' : n.live => ship'[n.from].pc = "post" /\ ship'[n.from].sent = n.rows
    BY <1>5, <1>6, <1>7, <2>1, <2>2 DEF Waiting
  <2>5. AnswerCoversRequest'
    BY <1>6, <2>1 DEF Waiting, AnswerCoversRequest
  <2> QED BY <2>3, <2>4, <2>5 DEF Waiting
<1>11. Learns
  BY <1>3, SameLearns DEF server
<1> QED BY <1>3, <1>8, <1>9, <1>10, <1>11 DEF endpoint, server

\* A shipper gives up or is refused.
LEMMA StopPower ==
    ASSUME PowerInv, NEW s \in Shipper, Fail(s) \/ Interrupt(s) \/ \E m \in net : m.from = s /\ Reject(m)
    PROVE  PowerInv' /\ Learns
<1> USE DEF PowerInv
<1>1. UNCHANGED <<endpoint, server>> /\ faults' \in Nat
  BY DEF Fail, Interrupt, Reject, TypeOK
<1>2. PICK p \in {Idle, Exited} : ship' = [ship EXCEPT ![s] = p]
  BY DEF Fail, Interrupt, Reject
<1>3. p \in Process /\ p.pc \notin {"post", "reply"}
  BY DEF Process, Idle, Exited
<1>4. \A m \in net' : m \in Message /\ OneRowPerKey(m.rows) /\ (m.live => m \in net /\ m.from # s)
  <2>1. CASE Fail(s) \/ Interrupt(s)
    <3>1. net' \subseteq (net \ Held({s})) \cup Detached({s})
      BY <2>1 DEF Fail, Interrupt
    <3> QED BY <3>1, GivenUp
  <2>2. CASE \E m \in net : m.from = s /\ Reject(m)
    BY <2>2 DEF Reject, TypeOK, Waiting, OneHeld
  <2> QED BY <2>1, <2>2
<1>5. Waiting'
  BY <1>2, <1>3, <1>4, WaitingStep
<1>6. TypeOK'
  BY <1>1, <1>2, <1>3, <1>4 DEF TypeOK, endpoint, server
<1>7. Learns
  BY <1>1, SameLearns DEF server
<1> QED BY <1>1, <1>4, <1>5, <1>6, <1>7 DEF endpoint, server

\* The server applies a request, in time or late, of an endpoint that may have lost what it holds.
LEMMA IngestPower ==
    ASSUME PowerInv, NEW m \in net, Ingest(m) \/ LateIngest(m)
    PROVE  PowerInv' /\ Learns
<1> USE DEF PowerInv
<1>1. m \in Message /\ m.from \in Shipper /\ ship[m.from] \in Process /\ m.rows \in SUBSET Row /\ OneRowPerKey(m.rows)
  BY DEF TypeOK, Message
<1>2. Apply(m.rows) /\ UNCHANGED <<endpoint, faults>> /\ sdisk' = sdisk /\ net' \subseteq net
  BY DEF Ingest, LateIngest, Apply
<1>3. mirror \subseteq Row /\ cursor \in Nat /\ MirrorBelowCursor
  BY DEF TypeOK, Settled, OneRowPerKey, MirrorBelowCursor
<1>4. mirror' \subseteq Row /\ MirrorBelowCursor' /\ Learns
  BY <1>1, <1>2, <1>3, ApplyLearns
<1>5. cursor' \in Nat /\ \A b \in m.rows : b.rev <= cursor'
  BY <1>1, <1>2, <1>3, CursorAdvances
<1>6. Settled(mirror', cursor')
  BY <1>4 DEF Settled, OneRowPerKey, MirrorBelowCursor
<1>7. TypeOK' /\ Waiting'
  <2>1. CASE LateIngest(m)
    <3>1. ship' = ship /\ net' = net
      BY <2>1 DEF LateIngest
    <3> QED BY <1>2, <1>4, <1>5, <3>1 DEF TypeOK, Waiting, OneHeld, AnswerCoversRequest, endpoint
  <2>2. CASE Ingest(m)
    <3> DEFINE p == [ship[m.from] EXCEPT !.pc = "reply", !.reply = cursor']
    <3>1. m.live /\ net' = net \ {m} /\ ship' = [ship EXCEPT ![m.from] = p]
      BY <2>2 DEF Ingest, TypeOK
    <3>2. p \in Process /\ p.pc = "reply" /\ p.reply = cursor' /\ p.sent = ship[m.from].sent
      BY <1>1, <1>5 DEF Process
    <3> HIDE DEF p
    <3>3. \A s \in Shipper : ship'[s] = IF s = m.from THEN p ELSE ship[s]
      BY <3>1 DEF TypeOK
    <3>4. p.sent = m.rows
      BY <3>1, <3>2 DEF Waiting
    <3>5. \A q \in net' : q.live => q.from \in Shipper /\ q.from # m.from
      BY <1>1, <3>1 DEF Waiting, OneHeld, TypeOK, Message
    <3>6. OneHeld' /\ \A q \in net' : q.live => ship'[q.from].pc = "post" /\ ship'[q.from].sent = q.rows
      BY <1>2, <3>3, <3>5 DEF Waiting, OneHeld
    <3>7. AnswerCoversRequest'
      BY <1>5, <3>2, <3>3, <3>4 DEF Waiting, AnswerCoversRequest
    <3>8. TypeOK'
      BY <1>2, <1>4, <1>5, <3>1, <3>2 DEF TypeOK, endpoint
    <3> QED BY <3>6, <3>7, <3>8 DEF Waiting
  <2> QED BY <2>1, <2>2
<1> QED BY <1>2, <1>4, <1>6, <1>7 DEF endpoint

\* WAL checkpoints: what a database falls back to is what it was.
LEMMA CheckpointPower ==
    ASSUME PowerInv, EndpointCheckpoint \/ ServerCheckpoint \/ UNCHANGED vars
    PROVE  PowerInv' /\ Learns
<1> USE DEF PowerInv
<1>1. UNCHANGED <<rows, counter, ship, net, mirror, cursor, faults>>
  BY DEF EndpointCheckpoint, ServerCheckpoint, vars, server, endpoint
<1>2. \/ disk' = disk
      \/ disk' = [rows |-> rows, counter |-> counter]
  BY DEF EndpointCheckpoint, ServerCheckpoint, vars, endpoint
<1>3. \/ sdisk' = sdisk
      \/ sdisk' = [mirror |-> mirror, cursor |-> cursor]
  BY DEF EndpointCheckpoint, ServerCheckpoint, vars, server
<1>4. Sound(disk'.rows, disk'.counter) /\ disk' \in [rows : SUBSET Row, counter : Nat]
  BY <1>2 DEF TypeOK
<1>5. Settled(sdisk'.mirror, sdisk'.cursor) /\ sdisk' \in [mirror : SUBSET Row, cursor : Nat]
  BY <1>3 DEF TypeOK
<1>6. \A r \in disk'.rows : r.rev \in 1..disk'.counter
  BY <1>2 DEF TypeOK
<1>7. TypeOK'
  BY <1>1, <1>4, <1>5, <1>6 DEF TypeOK
<1>8. Waiting'
  BY <1>1 DEF Waiting, OneHeld, AnswerCoversRequest
<1>9. Learns
  BY <1>1, SameLearns
<1> QED BY <1>1, <1>4, <1>5, <1>7, <1>8, <1>9

LEMMA EndpointLossPower ==
    ASSUME PowerInv, EndpointLosesPower
    PROVE  PowerInv' /\ Learns
<1> USE DEF PowerInv
<1>1. /\ rows' = disk.rows /\ counter' = disk.counter /\ UNCHANGED <<disk, server>> /\ faults' = faults + 1
      /\ ship' = [s \in Shipper |-> Exited]
      /\ net' \subseteq (net \ Held(Shipper)) \cup Detached(Shipper)
  BY DEF EndpointLosesPower
<1>2. \A m \in net' : m \in Message /\ OneRowPerKey(m.rows) /\ ~m.live
  BY <1>1, GivenUp DEF Message
<1>3. Exited \in Process /\ Exited.pc = "exited"
  BY DEF Process, Idle, Exited
<1>4. TypeOK'
  BY <1>1, <1>2, <1>3 DEF TypeOK, server
<1>5. Waiting'
  BY <1>1, <1>2, <1>3 DEF Waiting, OneHeld, AnswerCoversRequest
<1>6. Learns
  BY <1>1, SameLearns DEF server
<1> QED BY <1>1, <1>2, <1>4, <1>5, <1>6 DEF server

LEMMA ServerLossPower ==
    ASSUME PowerInv, ServerLosesPower
    PROVE  PowerInv'
<1> USE DEF PowerInv
<1>1. /\ mirror' = sdisk.mirror /\ cursor' = sdisk.cursor /\ UNCHANGED <<endpoint, sdisk>> /\ faults' = faults + 1
      /\ net' = {} /\ ship' = [s \in Shipper |-> IF ship[s].pc = "post" THEN Idle ELSE ship[s]]
  BY DEF ServerLosesPower
<1>2. Idle \in Process /\ Idle.pc = "wait"
  BY DEF Process, Idle
<1>3. TypeOK'
  BY <1>1, <1>2 DEF TypeOK, endpoint
<1>4. Waiting'
  BY <1>1, <1>2 DEF Waiting, OneHeld, AnswerCoversRequest
<1> QED BY <1>1, <1>3, <1>4 DEF endpoint

LEMMA NextPower ==
    ASSUME PowerInv, [Next]_vars
    PROVE  PowerInv' /\ ("server" \notin PowerLoss => Learns)
<1>1. ASSUME NEW s \in Shipper, Ship(s)
      PROVE  PowerInv' /\ Learns
  BY <1>1, ShipperPower, PostPower DEF Ship
<1>2. CASE Serve
  <2>1. PICK m \in net : Ingest(m) \/ Reject(m)
    BY <1>2 DEF Serve
  <2>2. m.from \in Shipper
    BY DEF PowerInv, TypeOK, Message
  <2> QED BY <2>1, <2>2, IngestPower, StopPower
<1>3. CASE Disturb
  <2>1. ASSUME NEW s \in Shipper, Fail(s) \/ Interrupt(s) \/ Start(s)
        PROVE  PowerInv' /\ Learns
    BY <2>1, StopPower, ShipperPower
  <2>2. CASE ServerLosesPower
    BY <2>2, ServerLossPower DEF ServerLosesPower
  <2> QED BY <1>3, <2>1, <2>2, IngestPower, CheckpointPower, EndpointLossPower DEF Disturb
<1> QED BY <1>1, <1>2, <1>3, WritePower, CheckpointPower DEF Next

LEMMA PowerInvHolds == Spec => []PowerInv
<1>1. PowerInv /\ [Next]_vars => PowerInv'
  BY NextPower
<1> QED BY <1>1, InitPower, PTL DEF Spec

-----------------------------------------------------------------------------
(* The theorems *)

\* Every variable keeps its type, whatever the network and the power supplies do.
THEOREM TypeCorrect == Spec => []TypeOK
<1>1. PowerInv => TypeOK
  BY DEF PowerInv
<1> QED BY <1>1, PowerInvHolds, PTL

\* Even after either database has fallen back to an earlier state the mirror has one row per key and
\* none above the cursor, so no row is newer than what the cursor lets the shipper send again (Apply).
THEOREM MirrorBelowCursorHolds == Spec => []MirrorBelowCursor
<1>1. PowerInv => MirrorBelowCursor
  BY DEF PowerInv, Settled, OneRowPerKey, MirrorBelowCursor
<1> QED BY <1>1, PowerInvHolds, PTL

\* The exit "cursor did not advance" of syncOnce is unreachable, also where the endpoint has fallen
\* behind the server or the server behind the endpoint.
THEOREM AnswerCoversRequestHolds == Spec => []AnswerCoversRequest
<1>1. PowerInv => AnswerCoversRequest
  BY DEF PowerInv, Waiting
<1> QED BY <1>1, PowerInvHolds, PTL

\* No request, late or repeated, no pruning and no power loss of the endpoint, whose revisions are then
\* given out a second time, makes the server forget a row, a revision or a reference, or moves its
\* cursor back; only the server's own power loss does (Apply).
THEOREM ServerOnlyLearnsHolds ==
    ASSUME "server" \notin PowerLoss
    PROVE  Spec => ServerOnlyLearns
<1>1. PowerInv /\ [Next]_vars => [Learns]_vars
  BY NextPower
<1>2. Spec => [][Learns]_vars
  BY <1>1, PowerInvHolds, PTL DEF Spec
<1> QED BY <1>2 DEF ServerOnlyLearns, Learns
=============================================================================
