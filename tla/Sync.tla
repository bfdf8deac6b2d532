-------------------------------- MODULE Sync --------------------------------
(***************************************************************************)
(* Replication of a buckle endpoint database to the report server: the     *)
(* revision triggers and Prune of internal/store, ChangesSince, the loop   *)
(* of internal/ship and Apply of internal/serverdb.                        *)
(*                                                                         *)
(* A table is a set of rows.  Of a row's columns the model keeps what the  *)
(* protocol looks at: its key (table and rowid), its revision, and one     *)
(* nullable reference column (wire.References).  "born" is a ghost: the    *)
(* revision of the INSERT that created the record, so that two records     *)
(* that were given the same rowid can be told apart.  The other columns    *)
(* change only when the revision does.                                     *)
(***************************************************************************)
EXTENDS Integers, FiniteSets

CONSTANTS
    Table,      \* the shipped tables (wire.Tables)
    MaxId,      \* bound on the rowids of a table
    MaxRev,     \* bound on the endpoint's revision counter
    Shipper,    \* the running `buckle ship` processes
    MaxRows,    \* wire.MaxRows: the rows in one ingest request
    BigTable,   \* tables with rows large enough to matter for the body limit
    MaxBig,     \* how many such rows fit into one request body
    MaxLate,    \* bound on the requests in flight after their sender gave up
    MaxFaults,  \* bound on the number of failures and interruptions
    PowerLoss,  \* the machines that may lose power: "endpoint", "server"
    NULL

ASSUME MaxIdAssumption == MaxId \in Nat
ASSUME MaxRevAssumption == MaxRev \in Nat
ASSUME MaxRowsAssumption == MaxRows \in Nat \ {0}
ASSUME BigAssumption == BigTable \subseteq Table /\ MaxBig \in Nat
ASSUME FaultAssumption == MaxLate \in Nat /\ MaxFaults \in Nat
ASSUME PowerLossAssumption == PowerLoss \subseteq {"endpoint", "server"}

Key == Table \X (1..MaxId)
ASSUME NullAssumption == NULL \notin Key

Row == [key : Key, rev : Nat, born : Nat, ref : Key \cup {NULL}]
Message == [from : Shipper, live : BOOLEAN, base : Nat, rows : SUBSET Row]
Process ==
    [pc : {"wait", "read", "post", "reply", "exited"},
     since : Nat,           \* syncOnce's variable cursor
     sent : SUBSET Row,     \* the rows of the request it waits for
     reply : Nat]           \* IngestResponse.Cursor

VARIABLES
    rows,       \* endpoint: the rows of every shipped table
    counter,    \* endpoint: rev_counter.value
    disk,       \* endpoint: what a power loss falls back to (rows, counter)
    ship,       \* shipper: where Run and syncOnce are, and their variables
    net,        \* the ingest requests in flight
    mirror,     \* server: the mirrored rows
    cursor,     \* server: sync_state.rev, 0 if there is no row
    sdisk,      \* server: what a power loss falls back to (mirror, cursor)
    faults      \* failures so far

endpoint == <<rows, counter, disk>>
server == <<mirror, cursor, sdisk>>
vars == <<rows, counter, disk, ship, net, mirror, cursor, sdisk, faults>>

Keys(S) == {r.key : r \in S}
Revs(S) == {r.rev : r \in S}

\* What all of this promises.
Abstract == INSTANCE Replica WITH table <- rows, last <- counter, copy <- mirror, known <- cursor

-----------------------------------------------------------------------------
(* The endpoint database.  SQLite has one writer, so a transaction is one step. *)

\* An INTEGER PRIMARY KEY without AUTOINCREMENT: one more than the largest rowid in use.
NextIds(t) ==
    LET used == {r.key[2] : r \in {q \in rows : q.key[1] = t}}
    IN  {i \in 1..MaxId : (\A j \in used : j < i) /\ (i = 1 \/ i - 1 \in used)}

\* Mutants of Stamp: a table without the triggers; the trigger reads the counter before it is raised.
StampNever(r, n) == r
StampEarly(r, n) == [r EXCEPT !.rev = n - 1]

\* The rev_insert and rev_update triggers: the row is stamped with the next revision.
Stamp(r, n) == [r EXCEPT !.rev = n]

Insert(t, ref) ==
    /\ counter < MaxRev
    /\ counter' = counter + 1
    /\ \E i \in NextIds(t) :
         rows' = rows \cup {Stamp([key |-> <<t, i>>, rev |-> 0, born |-> counter + 1, ref |-> ref], counter + 1)}
    /\ UNCHANGED <<disk, ship, net, server, faults>>

\* An UPDATE: a reference is only ever set from NULL (SetRunSession), other columns change freely.
Update(r, ref) ==
    /\ counter < MaxRev
    /\ r.ref # NULL => ref = r.ref
    /\ counter' = counter + 1
    /\ rows' = (rows \ {r}) \cup {Stamp([r EXCEPT !.ref = ref], counter + 1)}
    /\ UNCHANGED <<disk, ship, net, server, faults>>

\* Rows of S that refer to a row of D: ON DELETE SET NULL updates them.
Referring(S, D) == {r \in S : r.ref \in Keys(D)}

\* One Prune transaction deletes the rows D.  Deletes stamp nothing; the rows whose reference is
\* nulled are updated, so each gets a revision of its own, and a row may be nulled before it is
\* itself deleted.
Prune(D) ==
    LET hit == Referring(rows \ D, D)
        nulled(f) == {[r EXCEPT !.ref = NULL, !.rev = f[r]] : r \in hit}
    IN
    /\ D # {}
    /\ \E spent \in 0..Cardinality(Referring(D, D)) :
         LET top == counter + Cardinality(hit) + spent IN
         /\ top <= MaxRev
         /\ counter' = top
         /\ \E f \in [hit -> (counter + 1)..top] :
              /\ \A p, q \in hit : f[p] = f[q] => p = q
              /\ rows' = ((rows \ D) \ hit) \cup nulled(f)
    /\ UNCHANGED <<disk, ship, net, server, faults>>

\* A WAL checkpoint under synchronous(NORMAL): what is committed so far becomes durable.
EndpointCheckpoint ==
    /\ "endpoint" \in PowerLoss
    /\ disk' = [rows |-> rows, counter |-> counter]
    /\ UNCHANGED <<rows, counter, ship, net, server, faults>>

-----------------------------------------------------------------------------
(* The shipper. *)

\* Between two calls of syncOnce nothing is remembered.
Idle == [pc |-> "wait", since |-> 0, sent |-> {}, reply |-> 0]
Exited == [Idle EXCEPT !.pc = "exited"]

\* The requests that S waits for, and the same requests once S has given up: they can still arrive.
Held(S) == {m \in net : m.live /\ m.from \in S}
Detached(S) == {[m EXCEPT !.live = FALSE] : m \in Held(S)}
Late == {m \in net : ~m.live}

\* GET /api/v1/cursor.  A failed GET changes nothing.
AskCursor(s) ==
    /\ ship[s].pc = "wait"
    /\ ship' = [ship EXCEPT ![s] = [Idle EXCEPT !.pc = "read", !.since = cursor]]
    /\ UNCHANGED <<endpoint, net, server, faults>>

\* Mutant of Lowest: LIMIT n without ORDER BY.
LowestUnordered(S, n) == {L \in SUBSET S : Cardinality(L) = IF Cardinality(S) < n THEN Cardinality(S) ELSE n}

\* ORDER BY rev LIMIT n: the n lowest revisions of S.
Lowest(S, n) ==
    {L \in SUBSET S : /\ Cardinality(L) = IF Cardinality(S) < n THEN Cardinality(S) ELSE n
                      /\ \A r \in L, q \in S \ L : r.rev < q.rev}

\* Mutant of ChangesSince: the merged rows are cut without being sorted.
ChangesSinceUnsorted(c) ==
    LET newer(t) == {r \in rows : r.key[1] = t /\ r.rev > c}
        pick == {f \in [Table -> SUBSET rows] : \A t \in Table : f[t] \in Lowest(newer(t), MaxRows)}
    IN  UNION {LowestUnordered(UNION {f[t] : t \in Table}, MaxRows) : f \in pick}

\* Each table contributes at most MaxRows rows newer than c; the merged rows are cut at MaxRows.
ChangesSince(c) ==
    LET newer(t) == {r \in rows : r.key[1] = t /\ r.rev > c}
        pick == {f \in [Table -> SUBSET rows] : \A t \in Table : f[t] \in Lowest(newer(t), MaxRows)}
    IN  UNION {Lowest(UNION {f[t] : t \in Table}, MaxRows) : f \in pick}

\* syncOnce reads one snapshot and posts it, empty or not.  "base" is a ghost: the cursor the rows
\* were read after.
Post(s) ==
    /\ ship[s].pc = "read"
    /\ \E batch \in ChangesSince(ship[s].since) :
         /\ ship' = [ship EXCEPT ![s] = [@ EXCEPT !.pc = "post", !.sent = batch]]
         /\ net' = net \cup {[from |-> s, live |-> TRUE, base |-> ship[s].since, rows |-> batch]}
    /\ UNCHANGED <<endpoint, server, faults>>

\* The server's answer: exit when the cursor did not reach the last row sent, read on after a full
\* batch, sleep after a short one.
GotReply(s) ==
    /\ ship[s].pc = "reply"
    /\ ship' = [ship EXCEPT ![s] =
         IF \E r \in @.sent : @.reply < r.rev THEN Exited
         ELSE IF Cardinality(@.sent) < MaxRows THEN Idle
         ELSE [Idle EXCEPT !.pc = "read", !.since = ship[s].reply]]
    /\ UNCHANGED <<endpoint, net, server, faults>>

\* A network error, the client's timeout, a 5xx or a failed read: start over from the server's
\* cursor.  The request is lost or still under way, or was applied and its answer is lost.
Fail(s) ==
    /\ faults < MaxFaults
    /\ ship[s].pc \in {"read", "post", "reply"}
    /\ \E late \in {{}, Detached({s})} :
         /\ net' = (net \ Held({s})) \cup late
         /\ Cardinality(Late \cup late) <= MaxLate
    /\ ship' = [ship EXCEPT ![s] = Idle]
    /\ faults' = faults + 1
    /\ UNCHANGED <<endpoint, server>>

\* Ctrl-C cancels the request's context and ends Run.
Interrupt(s) ==
    /\ faults < MaxFaults
    /\ ship[s].pc # "exited"
    /\ net' = (net \ Held({s})) \cup Detached({s})
    /\ Cardinality(Late \cup Detached({s})) <= MaxLate
    /\ ship' = [ship EXCEPT ![s] = Exited]
    /\ faults' = faults + 1
    /\ UNCHANGED <<endpoint, server>>

\* `buckle ship` is started again.
Start(s) ==
    /\ ship[s].pc = "exited"
    /\ ship' = [ship EXCEPT ![s] = Idle]
    /\ UNCHANGED <<endpoint, net, server, faults>>

-----------------------------------------------------------------------------
(* The server.  Its database has one connection, so Apply is one step. *)

Oversize(batch) == Cardinality({r \in batch : r.key[1] \in BigTable}) > MaxBig

\* Mutant of Newer: ON CONFLICT DO NOTHING.
NewerIgnored(batch) == {r \in batch : r.key \notin Keys(mirror)}

\* ON CONFLICT ... WHERE excluded.rev > stored rev.
Newer(batch) == {r \in batch : \A m \in mirror : m.key = r.key => r.rev > m.rev}

\* Mutant of Coalesce: the batch's reference always wins.
CoalesceNever(r) == r

\* A reference column is coalesce(excluded, stored).
Coalesce(r) ==
    IF r.ref = NULL /\ r.key \in Keys(mirror)
    THEN [r EXCEPT !.ref = (CHOOSE m \in mirror : m.key = r.key).ref]
    ELSE r

\* Mutant of Advanced: the cursor is set to the batch's last revision, backwards too.
AdvancedBlindly(batch) ==
    LET seen == IF batch = {} THEN {cursor} ELSE Revs(batch) IN {n \in seen : \A k \in seen : k <= n}

\* sync_state.rev = max(sync_state.rev, the highest revision of the batch), as a one-element set.
Advanced(batch) ==
    LET seen == {cursor} \cup Revs(batch) IN {n \in seen : \A k \in seen : k <= n}

Apply(batch) ==
    /\ mirror' = {m \in mirror : m.key \notin Keys(Newer(batch))} \cup {Coalesce(r) : r \in Newer(batch)}
    /\ cursor' \in Advanced(batch)
    /\ UNCHANGED sdisk

\* Mutant of Ingest: answers with the cursor of before the batch.
IngestStaleReply(m) ==
    /\ m.live
    /\ ~Oversize(m.rows)
    /\ Apply(m.rows)
    /\ net' = net \ {m}
    /\ ship' = [ship EXCEPT ![m.from] = [@ EXCEPT !.pc = "reply", !.reply = cursor]]
    /\ UNCHANGED <<endpoint, faults>>

\* POST /api/v1/ingest, answered while the sender is waiting.
Ingest(m) ==
    /\ m.live
    /\ ~Oversize(m.rows)
    /\ Apply(m.rows)
    /\ net' = net \ {m}
    /\ ship' = [ship EXCEPT ![m.from] = [@ EXCEPT !.pc = "reply", !.reply = cursor']]
    /\ UNCHANGED <<endpoint, faults>>

\* 413: the body does not fit.  The shipper exits on any 4xx.
Reject(m) ==
    /\ m.live
    /\ Oversize(m.rows)
    /\ net' = net \ {m}
    /\ ship' = [ship EXCEPT ![m.from] = Exited]
    /\ UNCHANGED <<endpoint, server, faults>>

\* A request its sender gave up on arrives.  It stays in flight: several tries of one batch are one
\* message here, so it can arrive any number of times or never.
LateIngest(m) ==
    /\ ~m.live
    /\ ~Oversize(m.rows)
    /\ Apply(m.rows)
    /\ UNCHANGED <<endpoint, ship, net, faults>>

ServerCheckpoint ==
    /\ "server" \in PowerLoss
    /\ sdisk' = [mirror |-> mirror, cursor |-> cursor]
    /\ UNCHANGED <<endpoint, ship, net, mirror, cursor, faults>>

\* Its connections die with it; a shipper between two requests does not notice.
ServerLosesPower ==
    /\ "server" \in PowerLoss
    /\ faults < MaxFaults
    /\ mirror' = sdisk.mirror
    /\ cursor' = sdisk.cursor
    /\ net' = {}
    /\ ship' = [s \in Shipper |-> IF ship[s].pc = "post" THEN Idle ELSE ship[s]]
    /\ faults' = faults + 1
    /\ UNCHANGED <<endpoint, sdisk>>

\* The shippers run on the endpoint and die with it.
EndpointLosesPower ==
    /\ "endpoint" \in PowerLoss
    /\ faults < MaxFaults
    /\ rows' = disk.rows
    /\ counter' = disk.counter
    /\ ship' = [s \in Shipper |-> Exited]
    /\ net' = (net \ Held(Shipper)) \cup Detached(Shipper)
    /\ Cardinality(Late \cup Detached(Shipper)) <= MaxLate
    /\ faults' = faults + 1
    /\ UNCHANGED <<disk, server>>

-----------------------------------------------------------------------------
Init ==
    /\ rows = {}
    /\ counter = 0
    /\ disk = [rows |-> {}, counter |-> 0]
    /\ ship = [s \in Shipper |-> Idle]
    /\ net = {}
    /\ mirror = {}
    /\ cursor = 0
    /\ sdisk = [mirror |-> {}, cursor |-> 0]
    /\ faults = 0

Write ==
    \/ \E t \in Table, ref \in Keys(rows) \cup {NULL} : Insert(t, ref)
    \/ \E r \in rows : \E ref \in (Keys(rows) \ {r.key}) \cup {NULL} : Update(r, ref)
    \/ \E D \in SUBSET rows : Prune(D)

Ship(s) == AskCursor(s) \/ Post(s) \/ GotReply(s)

Serve == \E m \in net : Ingest(m) \/ Reject(m)

Disturb ==
    \/ \E s \in Shipper : Fail(s) \/ Interrupt(s) \/ Start(s)
    \/ \E m \in net : LateIngest(m)
    \/ EndpointCheckpoint
    \/ EndpointLosesPower
    \/ ServerCheckpoint
    \/ ServerLosesPower

Next ==
    \/ Write
    \/ \E s \in Shipper : Ship(s)
    \/ Serve
    \/ Disturb

Spec == Init /\ [][Next]_vars

\* The shipper's loop and the server's handlers keep running; failures are bounded by MaxFaults.
FairSpec == Spec /\ (\A s \in Shipper : WF_vars(Ship(s))) /\ WF_vars(Serve)

-----------------------------------------------------------------------------
(* Properties *)

\* Types, and every row of the endpoint has a revision the counter has reached.
TypeOK ==
    /\ rows \subseteq Row
    /\ counter \in Nat
    /\ \A r \in rows : r.rev \in 1..counter
    /\ disk \in [rows : SUBSET Row, counter : Nat]
    /\ \A r \in disk.rows : r.rev \in 1..disk.counter
    /\ ship \in [Shipper -> Process]
    /\ net \subseteq Message
    /\ mirror \subseteq Row
    /\ cursor \in Nat
    /\ sdisk \in [mirror : SUBSET Row, cursor : Nat]
    /\ faults \in Nat

\* m is what the server shows for the record r at the revision r has.
Shows(m, r) ==
    /\ m.key = r.key
    /\ m.rev = r.rev
    /\ m.born = r.born
    /\ r.ref # NULL => m.ref = r.ref

\* The server's cursor is honest: every endpoint row at or below it is mirrored at its latest
\* revision, although requests are cut at MaxRows, overlap with other shippers, are lost, and
\* arrive late and twice (syncOnce and Apply keep no other account of what was sent).
NoGap ==
    \A r \in rows : r.rev <= cursor => \E m \in mirror : Shows(m, r)

\* The mirror never knows a revision above its cursor, and holds one row per key: otherwise a row
\* could be newer than what the cursor lets the shipper send again.
MirrorBelowCursor ==
    /\ \A m \in mirror : m.rev <= cursor
    /\ \A m, n \in mirror : m.key = n.key => m = n

\* An answer always covers the request it answers, so "cursor did not advance" (an exit that blames
\* the server) cannot happen between a correct shipper and a correct server.
AnswerCoversRequest ==
    \A s \in Shipper : ship[s].pc = "reply" => \A r \in ship[s].sent : r.rev <= ship[s].reply

\* A late or repeated request takes nothing back: neither the cursor nor a mirrored row's revision
\* decreases, no mirrored key disappears and a known reference is never nulled by endpoint pruning.
ServerOnlyLearns ==
    [][ /\ cursor' >= cursor
        /\ \A m \in mirror : \E n \in mirror' :
             /\ n.key = m.key
             /\ n.rev >= m.rev
             /\ m.ref # NULL => n.ref # NULL ]_vars

\* All steps of all actors together do nothing but commit on the endpoint and learn on the server:
\* the loop of syncOnce, the requests in flight and the upserts of Apply are one atomic "learn".
ImplementsReplica == Abstract!Spec

\* "Pruning on the endpoint never removes anything from the server": a record once mirrored stays,
\* it is not replaced by another record that was given the rowid of a pruned one.
HistoryKept ==
    [][ \A m \in mirror : \E n \in mirror' : n.key = m.key /\ n.born = m.born ]_vars

\* Once the endpoint is quiet and some shipper keeps running, the server ends up showing every row.
\* The endpoint becomes quiet because MaxRev bounds its writes, the network because MaxFaults does.
EventuallyMirrored ==
    (\E s \in Shipper : <>[](ship[s].pc # "exited")) => <>[](\A r \in rows : \E m \in mirror : Shows(m, r))
=============================================================================
