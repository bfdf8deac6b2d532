-------------------------------- MODULE Store --------------------------------
(***************************************************************************)
(* The endpoint database as one file that several processes open:          *)
(* internal/store's schema versions and their upgrade, the eight tables    *)
(* with their foreign keys, the writes of a watch and Prune.               *)
(*                                                                         *)
(* A row is its table and rowid, its revision and its references; two      *)
(* reference columns with one rule (parent_process_id and                  *)
(* exec_prev_process_id) are one.  "born" and "meant" are ghosts: the      *)
(* revision that created a record, and the record a reference was meant    *)
(* for.  Time has two values: a record is older than Retention or not.     *)
(***************************************************************************)
EXTENDS Integers, FiniteSets, FiniteSetsExt

CONSTANTS
    Process,    \* the processes that run `buckle watch` or `buckle migrate`
    Session,    \* the sessions (kind, key) detectors find
    Profile,    \* the profile texts (hashes) runs are started with
    MaxEnv,     \* how many declared environment variables a run may have
    MaxId,      \* bound on the rowids of a table
    Single,     \* bound: the tables with one rowid
    MaxRev,     \* bound on the revision counter
    MaxShared,  \* the same while two processes have the database open
    NULL

ASSUME ProfileAssumption == Profile \subseteq Nat \ {0}
ASSUME BoundAssumption == MaxEnv \in Nat /\ MaxId \in Nat /\ MaxRev \in Nat /\ MaxShared \in 0..MaxRev
ASSUME NullAssumption == NULL \notin Nat /\ NULL \notin Session

SchemaVersion == 3

V2Tables == {"watches", "sessions", "profiles", "runs", "processes", "denials", "orphans"}

\* Every table a database of version v has.
Tables(v) ==
    (IF v >= 1 THEN V2Tables ELSE {}) \cup
    (IF v >= 2 THEN {"rev_counter", "meta"} ELSE {}) \cup
    (IF v >= 3 THEN {"run_env"} ELSE {})

\* The foreign keys, by what a DELETE of the row they refer to does.
NoAction == {
    [from |-> "runs",    col |-> "watch_id",     to |-> "watches"],
    [from |-> "runs",    col |-> "profile_hash", to |-> "profiles"],
    [from |-> "orphans", col |-> "watch_id",     to |-> "watches"]}
SetNull == {
    [from |-> "runs",      col |-> "parent_run_id",     to |-> "runs"],
    [from |-> "runs",      col |-> "session_id",        to |-> "sessions"],
    [from |-> "processes", col |-> "parent_process_id", to |-> "processes"]}

\* Mutant of Cascade: a nested run goes with its parent.
CascadeNested == {
    [from |-> "runs",      col |-> "parent_run_id", to |-> "runs"],
    [from |-> "processes", col |-> "run_id",        to |-> "runs"],
    [from |-> "denials",   col |-> "run_id",        to |-> "runs"],
    [from |-> "denials",   col |-> "process_id",    to |-> "processes"],
    [from |-> "run_env",   col |-> "run_id",        to |-> "runs"]}

Cascade == {
    [from |-> "processes", col |-> "run_id",     to |-> "runs"],
    [from |-> "denials",   col |-> "run_id",     to |-> "runs"],
    [from |-> "denials",   col |-> "process_id", to |-> "processes"],
    [from |-> "run_env",   col |-> "run_id",     to |-> "runs"]}
ForeignKeys == NoAction \cup SetNull \cup Cascade

VARIABLES
    exists,     \* the file exists
    version,    \* PRAGMA user_version
    instance,   \* meta.db_instance: 0, or the number of the UUID drawn for it
    ready,      \* the journal is a WAL and the indexes exist
    counter,    \* rev_counter.value
    rows,       \* the rows of all tables
    old,        \* ghost: the records older than Retention
    proc,       \* where each process is and what it remembers
    disturbed   \* ghost: the watches during whose life another process pruned

database == <<exists, version, instance, ready, counter, rows>>
vars == <<exists, version, instance, ready, counter, rows, old, proc, disturbed>>

Id(r) == [key |-> r.key, born |-> r.born]
Keys(S) == {r.key : r \in S}
In(S, t) == {r \in S : r.key[1] = t}

\* What the shipper and the server rely on (see Replica); nothing is numbered before version 2.
Abstract ==
    INSTANCE Replica WITH
        table <- IF version >= 2 THEN {[key |-> r.key, rev |-> r.rev, born |-> r.born, ref |-> r.ref] : r \in rows} ELSE {},
        last <- IF version >= 2 THEN counter ELSE 0,
        copy <- {},
        known <- 0

-----------------------------------------------------------------------------
(* Rows and statements. *)

\* How far the revisions may go.
Limit(busy) == IF Cardinality(busy) > 1 THEN MaxShared ELSE MaxRev
Busy == {p \in Process : proc[p].pc # "off"}

LastId(S, t) == Max({0} \cup {r.key[2] : r \in In(S, t)})

\* The rowid SQLite gives to the next row of t: one above the largest, so ids are reused.
NextId(S, t) == LastId(S, t) + 1

Columns(t) == {fk.col : fk \in {k \in ForeignKeys : k.from = t}}
References(r) == {fk \in ForeignKeys : fk.from = r.key[1] /\ r.ref[fk.col] # NULL}
Target(r, fk) == <<fk.to, r.ref[fk.col]>>

\* A reference to nothing, and to the record h by a process that may hold a stale id.
Nothing == [id |-> NULL, born |-> NULL]
To(w, h) == [id |-> h.key[2], born |-> IF w \in disturbed THEN NULL ELSE h.born]

\* A new row of t at revision n, with its references given as a function to To and Nothing.
NewRow(t, id, n, refs) ==
    [key |-> <<t, id>>, rev |-> n, born |-> n, name |-> NULL,
     ref |-> [c \in Columns(t) |-> refs[c].id], meant |-> [c \in Columns(t) |-> refs[c].born]]

\* foreign_keys(1): every reference of r has its target in S.
Valid(S, r) == \A fk \in References(r) : Target(r, fk) \in Keys(S)

\* The rows of S that refer to a row of D by one of the given keys.
Hit(S, D, keys) == {r \in S : \E fk \in References(r) \cap keys : Target(r, fk) \in Keys(D)}

\* Mutant of Doomed: foreign_keys is off.
DoomedAlone(S, D) == D

\* What a DELETE of D takes with it: cascades go run, process, denial and no deeper.
Doomed(S, D) ==
    LET D1 == D \cup Hit(S, D, Cascade)
        D2 == D1 \cup Hit(S, D1, Cascade)
    IN  D2 \cup Hit(S, D2, Cascade)

\* ON DELETE SET NULL.
Nulled(r, D) ==
    LET gone == {fk.col : fk \in {k \in References(r) \cap SetNull : Target(r, k) \in Keys(D)}}
    IN  [r EXCEPT !.ref = [c \in DOMAIN @ |-> IF c \in gone THEN NULL ELSE @[c]]]

\* The outcomes of one DELETE statement on db.  Nothing is stamped by the delete itself; every
\* nulled row is, uniquely, and so may be rows that are nulled before they are themselves deleted.
\* (A process that loses its parent and its previous image is stamped once for both.)
Delete(db, D) ==
    LET gone == Doomed(db.rows, D)
        kept == db.rows \ gone
        hit == Hit(kept, gone, SetNull)
        outcome(n, f) ==
            [rows |-> (kept \ hit) \cup {[Nulled(r, gone) EXCEPT !.rev = f[r]] : r \in hit},
             counter |-> n, ok |-> TRUE]
    IN  IF Hit(kept, gone, NoAction) # {} THEN {[db EXCEPT !.ok = FALSE]}
        ELSE UNION {{outcome(n, f) : f \in {g \in [hit -> (db.counter + 1)..n] : \A p, q \in hit : g[p] = g[q] => p = q}} :
                    n \in (db.counter + Cardinality(hit))..(db.counter + Cardinality(hit) + Cardinality(Hit(gone, gone, SetNull)))}

Old(S, t) == {r \in In(S, t) : Id(r) \in old}

\* Mutant of Unreferenced: only runs are looked at.
UnreferencedByRuns(S, t) == {r \in In(S, t) : \A q \in In(S, "runs") : \A fk \in References(q) : Target(q, fk) # r.key}

\* NOT EXISTS over every table that refers to t.
Unreferenced(S, t) == {r \in In(S, t) : \A q \in S : \A fk \in References(q) : Target(q, fk) # r.key}

\* What Prune's DELETE on t selects.
Selected(t, S) ==
    CASE t \in {"runs", "orphans"} -> Old(S, t)
      [] t = "watches" -> Old(S, t) \cap Unreferenced(S, t)
      [] t \in {"sessions", "profiles"} -> Unreferenced(S, t)

\* A statement follows on all outcomes of those before it that did not fail.
Statement(dbs, t) == UNION {IF db.ok THEN Delete(db, Selected(t, db.rows)) ELSE {db} : db \in dbs}

\* The five statements of Prune, in order.
Pruned ==
    LET start == {[rows |-> rows, counter |-> counter, ok |-> TRUE]}
        aged == Statement(Statement(start, "runs"), "orphans")
    IN  Statement(Statement(Statement(aged, "watches"), "sessions"), "profiles")

-----------------------------------------------------------------------------
(* Opening. *)

Off == [pc |-> "off", cmd |-> "none", seen |-> 0, session |-> NULL, held |-> {}]

Goto(p, pc) == proc' = [proc EXCEPT ![p].pc = pc]

\* The end of a process: it returns an error, is done, or is killed.
Leave(p) ==
    /\ proc[p].pc # "off"
    /\ proc' = [proc EXCEPT ![p] = Off]
    /\ disturbed' = disturbed \ {p}
    /\ UNCHANGED <<database, old>>

\* migrate reads user_version outside of the transaction that follows.  `buckle migrate` wants a
\* file, a watch creates one and refuses to upgrade what is there.  Left out: `buckle migrate` on a
\* database that is ready, which changes nothing.
Open(p, cmd) ==
    /\ proc[p].pc = "off"
    /\ counter <= Limit(Busy \cup {p})
    /\ cmd = "migrate" => exists /\ ~(ready /\ version = SchemaVersion)
    /\ exists' = TRUE
    /\ \/ version = SchemaVersion
       \/ version = 0
       \/ version < SchemaVersion /\ cmd = "migrate"
    /\ proc' = [proc EXCEPT ![p] =
         [Off EXCEPT !.pc = IF version = SchemaVersion THEN "prepare" ELSE "upgrade", !.cmd = cmd, !.seen = version]]
    /\ UNCHANGED <<version, instance, ready, counter, rows, old, disturbed>>

\* Mutant of Backfill: the offset is not carried from table to table.
BackfillEach(S) == [t \in V2Tables |-> 0]

\* upgradeV2's running offset at each table, in the order of v2Tables: each adds its largest rowid.
Backfill(S) ==
    LET sessions == LastId(S, "watches")
        profiles == sessions + LastId(S, "sessions")
        runs == profiles + LastId(S, "profiles")
        processes == runs + LastId(S, "runs")
        denials == processes + LastId(S, "processes")
        orphans == denials + LastId(S, "denials")
    IN  [watches |-> 0, sessions |-> sessions, profiles |-> profiles, runs |-> runs,
         processes |-> processes, denials |-> denials, orphans |-> orphans]

\* The rows of a version 1 database with the revisions upgradeV2 gives them, and its counter.
Numbered(S) == {[r EXCEPT !.rev = r.key[2] + Backfill(S)[r.key[1]]] : r \in S}

\* The counter after upgradeV2.
Highest(S) == Backfill(S)["orphans"] + LastId(S, "orphans")

\* Mutant of Created: CREATE TABLE IF NOT EXISTS.
CreatedUnlessThere(v) == {}

\* What the upgrade from version v creates: it fails if another process has created it since.
Created(v) == Tables(SchemaVersion) \ Tables(v)

\* Mutant of Upgrade: the counter starts at the number of rows, count(*) for max(rowid).
UpgradeCounted(p) ==
    LET seen == proc[p].seen IN
    /\ proc[p].pc = "upgrade"
    /\ Created(seen) \cap Tables(version) = {}
    /\ version' = SchemaVersion
    /\ IF seen < 2
       THEN /\ instance' = instance + 1
            /\ rows' = Numbered(rows)
            /\ counter' = Cardinality(rows)
       ELSE UNCHANGED <<instance, rows, counter>>
    /\ Goto(p, "prepare")
    /\ UNCHANGED <<exists, ready, old, disturbed>>

\* The upgrade transaction, started from the version read before.
Upgrade(p) ==
    LET seen == proc[p].seen IN
    /\ proc[p].pc = "upgrade"
    /\ Created(seen) \cap Tables(version) = {}
    /\ version' = SchemaVersion
    /\ IF seen < 2
       THEN /\ instance' = instance + 1
            /\ rows' = Numbered(rows)
            /\ counter' = Highest(rows)
       ELSE UNCHANGED <<instance, rows, counter>>
    /\ Goto(p, "prepare")
    /\ UNCHANGED <<exists, ready, old, disturbed>>

\* Mutant of Prepare: only a database that this process upgraded is switched to WAL and indexed.
PrepareUpgraded(p) ==
    /\ proc[p].pc = "prepare"
    /\ ready' = (ready \/ proc[p].seen < SchemaVersion)
    /\ proc' = [proc EXCEPT ![p] = IF @.cmd = "watch" THEN [Off EXCEPT !.pc = "prune"] ELSE Off]
    /\ UNCHANGED <<exists, version, instance, counter, rows, old, disturbed>>

\* journal_mode=WAL and ensureIndexes, on every writable open; `buckle migrate` is then done.
Prepare(p) ==
    /\ proc[p].pc = "prepare"
    /\ ready' = TRUE
    /\ proc' = [proc EXCEPT ![p] = IF @.cmd = "watch" THEN [Off EXCEPT !.pc = "prune"] ELSE Off]
    /\ UNCHANGED <<exists, version, instance, counter, rows, old, disturbed>>

-----------------------------------------------------------------------------
(* A watch. *)

Watching == {w \in Process : proc[w].pc \in {"begin", "watch", "refused"}}

\* One transaction; if a statement fails it is rolled back and the watch does not start.
Prune(w) ==
    /\ proc[w].pc = "prune"
    /\ \E db \in Pruned :
         /\ rows' = IF db.ok THEN db.rows ELSE rows
         /\ counter' = IF db.ok THEN db.counter ELSE counter
         /\ counter' <= Limit(Busy)
         /\ Goto(w, IF db.ok THEN "begin" ELSE "unpruned")
    /\ old' = {Id(r) : r \in rows'} \cap old
    /\ disturbed' = disturbed \cup (Watching \ {w})
    /\ UNCHANGED <<exists, version, instance, ready>>

\* Rows are written and remembered.
Store(S, n, p) ==
    /\ n <= Limit(Busy)
    /\ \A r \in S : r.key[2] <= IF r.key[1] \in Single THEN 1 ELSE MaxId
    /\ counter' = n
    /\ rows' = S
    /\ proc' = p
    /\ UNCHANGED <<exists, version, instance, ready, old, disturbed>>

Keeping(w, r) == [proc EXCEPT ![w].held = @ \cup {r}, ![w].session = NULL]

\* An INSERT into t by w: the new row is remembered, or a foreign key fails and the watch ends.
Insert(w, t, refs) ==
    LET r == NewRow(t, NextId(rows, t), counter + 1, refs) IN
    IF Valid(rows, r) THEN Store(rows \cup {r}, counter + 1, Keeping(w, r))
    ELSE Goto(w, "refused") /\ UNCHANGED <<database, old, disturbed>>

Holding(w, t) == In(proc[w].held, t)

BeginWatch(w) ==
    /\ proc[w].pc = "begin"
    /\ LET r == NewRow("watches", NextId(rows, "watches"), counter + 1, <<>>) IN
       Store(rows \cup {r}, counter + 1, [proc EXCEPT ![w].pc = "watch", ![w].held = {r}])

\* Mutant of Ensured: the connection's last insert id, which the upsert has not set on a conflict.
EnsuredByLastInsert(w, r) ==
    LET last == Max({h.born : h \in proc[w].held}) IN
    IF r \in rows THEN CHOOSE q \in {[r EXCEPT !.key[2] = h.key[2]] : h \in {g \in proc[w].held : g.born = last}} : TRUE ELSE r

\* RETURNING id.
Ensured(w, r) == r

\* EnsureSession: the upsert stamps the session of that name, or inserts it.
EnsureSession(w, s) ==
    LET there == {r \in In(rows, "sessions") : r.name = s}
        new == [NewRow("sessions", NextId(rows, "sessions"), counter + 1, <<>>) EXCEPT !.name = s]
    IN
    /\ proc[w].pc = "watch"
    /\ proc[w].session = NULL
    /\ \E r \in IF there = {} THEN {new} ELSE there :
         Store((rows \ there) \cup {[r EXCEPT !.rev = counter + 1]}, counter + 1,
               [proc EXCEPT ![w].session = Ensured(w, r)])

Pending(w) == IF proc[w].session = NULL THEN Nothing ELSE To(w, proc[w].session)

\* InsertRun, one transaction: the profile unless it is there, the run, its environment.
InsertRun(w, parent, hash, env) ==
    LET texts == IF hash = NULL \/ <<"profiles", hash>> \in Keys(rows) THEN {}
                 ELSE {NewRow("profiles", hash, counter + 1, <<>>)}
        n == counter + Cardinality(texts) + 1
        watch == CHOOSE h \in Holding(w, "watches") : TRUE
        profile == CHOOSE r \in In(rows \cup texts, "profiles") : r.key[2] = hash
        run == NewRow("runs", NextId(rows, "runs"), n,
                 [watch_id |-> To(w, watch),
                  parent_run_id |-> IF parent = NULL THEN Nothing ELSE To(w, parent),
                  session_id |-> Pending(w),
                  profile_hash |-> IF hash = NULL THEN Nothing ELSE [id |-> hash, born |-> profile.born]])
        vars_of(i) == NewRow("run_env", NextId(rows, "run_env") + i - 1, n + i, [run_id |-> [id |-> run.key[2], born |-> n]])
    IN
    /\ proc[w].pc = "watch"
    /\ IF Valid(rows \cup texts \cup {run}, run)
       THEN Store(rows \cup texts \cup {run} \cup {vars_of(i) : i \in 1..env}, n + env, Keeping(w, run))
       ELSE Goto(w, "refused") /\ UNCHANGED <<database, old, disturbed>>

\* SetRunSession follows EnsureSession too: it sets what is still NULL.
SetRunSession(w, h) ==
    LET hit == {r \in rows : r.key = h.key /\ r.ref["session_id"] = NULL}
        with(r) == [r EXCEPT !.rev = counter + 1, !.ref["session_id"] = Pending(w).id, !.meant["session_id"] = Pending(w).born]
        done == [proc EXCEPT ![w].session = NULL]
    IN
    /\ proc[w].pc = "watch"
    /\ proc[w].session # NULL
    /\ IF \A r \in hit : Valid(rows, with(r))
       THEN Store((rows \ hit) \cup {with(r) : r \in hit}, counter + Cardinality(hit), done)
       ELSE Goto(w, "refused") /\ UNCHANGED <<database, old, disturbed>>

\* InsertProcess: an image of the run h; "up" is its parent's or its previous image.
InsertProcess(w, h, up) ==
    /\ proc[w].pc = "watch"
    /\ Insert(w, "processes", [run_id |-> To(w, h), parent_process_id |-> IF up = NULL THEN Nothing ELSE To(w, up)])

\* InsertDenial: the run is the one the correlator remembers for the image.
InsertDenial(w, h) ==
    /\ proc[w].pc = "watch"
    /\ Insert(w, "denials", [process_id |-> To(w, h),
                             run_id |-> IF w \in disturbed THEN [id |-> h.ref["run_id"], born |-> NULL]
                                        ELSE [id |-> h.ref["run_id"], born |-> h.meant["run_id"]]])

InsertOrphan(w) ==
    /\ proc[w].pc = "watch"
    /\ Insert(w, "orphans", [watch_id |-> To(w, CHOOSE h \in Holding(w, "watches") : TRUE)])

\* UPDATE ... WHERE id = ?, of whatever has that id now.
Touch(w, h) ==
    LET hit == {r \in rows : r.key = h.key} IN
    Store((rows \ hit) \cup {[r EXCEPT !.rev = counter + 1] : r \in hit}, counter + Cardinality(hit), proc)

\* EndRun, EndProcess, AddDenialCount, AddOrphanCount; Shutdown calls them after an error too.
Update(w) ==
    /\ proc[w].pc \in {"watch", "refused"}
    /\ \E h \in proc[w].held : h.key[1] # "watches" /\ Touch(w, h)

\* EndWatch, the last thing a watch does that is not killed.
EndWatch(w) ==
    LET hit == {r \in rows : \E h \in Holding(w, "watches") : r.key = h.key}
        stamped == {[r EXCEPT !.rev = counter + 1] : r \in hit}
    IN
    /\ proc[w].pc \in {"watch", "refused"}
    /\ counter' = counter + Cardinality(hit)
    /\ counter' <= Limit(Busy)
    /\ rows' = (rows \ hit) \cup stamped
    /\ proc' = [proc EXCEPT ![w] = Off]
    /\ disturbed' = disturbed \ {w}
    /\ UNCHANGED <<exists, version, instance, ready, old>>

-----------------------------------------------------------------------------

\* Retention passes since some moment: what was recorded before it is old, what is recorded from now on is
\* not.  Bound: what is old is pruned before anything else becomes old.
Age ==
    /\ old = {}
    /\ old' = {Id(r) : r \in rows}
    /\ old' # {}
    /\ UNCHANGED <<database, proc, disturbed>>

\* What an older buckle left: a watch, a run and its process, at a rowid with or without a gap below.
Archive(i) ==
    LET refs == [watch_id |-> [id |-> 1, born |-> 0], run_id |-> [id |-> i, born |-> 0], parent_run_id |-> Nothing,
                 session_id |-> Nothing, profile_hash |-> Nothing, parent_process_id |-> Nothing]
    IN  {NewRow("watches", 1, 0, refs), NewRow("runs", i, 0, refs), NewRow("processes", i, 0, refs)}

\* There is no database, one of an older buckle, or one of a newer one.
Init ==
    /\ version \in {0, 1, 2, SchemaVersion + 1}
    /\ exists = (version # 0)
    /\ ready = FALSE
    /\ \E i \in IF version \in {1, 2} THEN 1..2 ELSE {0} :
         LET S == IF version \in {1, 2} THEN Archive(i) ELSE {} IN
         IF version = 2
         THEN rows = Numbered(S) /\ counter = Highest(S) /\ instance = 1
         ELSE rows = S /\ counter = 0 /\ instance = 0
    /\ old \in {{}, {Id(r) : r \in rows}}
    /\ proc = [p \in Process |-> Off]
    /\ disturbed = {}

Write(w) ==
    \/ \E s \in Session : EnsureSession(w, s)
    \/ \E parent \in Holding(w, "runs") \cup {NULL}, hash \in Profile \cup {NULL} :
         InsertRun(w, parent, hash, IF hash = NULL THEN 0 ELSE MaxEnv)
    \/ \E h \in Holding(w, "runs") : SetRunSession(w, h)
    \/ proc[w].session = NULL /\ \E h \in Holding(w, "runs"), up \in Holding(w, "processes") \cup {NULL} : InsertProcess(w, h, up)
    \/ proc[w].session = NULL /\ \E h \in Holding(w, "processes") : InsertDenial(w, h)
    \/ proc[w].session = NULL /\ InsertOrphan(w)
    \/ proc[w].session = NULL /\ Update(w)

Next ==
    \/ \E p \in Process : (\E cmd \in {"watch", "migrate"} : Open(p, cmd)) \/ Upgrade(p) \/ Prepare(p) \/ Leave(p)
    \/ \E w \in Process : Prune(w) \/ BeginWatch(w) \/ Write(w) \/ EndWatch(w)
    \/ Age

Spec == Init /\ [][Next]_vars

-----------------------------------------------------------------------------
(* Properties. *)

TypeOK ==
    /\ exists \in BOOLEAN /\ ready \in BOOLEAN
    /\ version \in 0..(SchemaVersion + 1)
    /\ instance \in 0..1
    /\ counter \in Nat
    /\ \A r \in rows : r.key \in Tables(SchemaVersion) \X (Nat \ {0}) /\ r.rev \in 0..counter
    /\ old \subseteq [key : Tables(SchemaVersion) \X (Nat \ {0}), born : Nat]
    /\ disturbed \subseteq Watching

\* Referential integrity through pruning and the reuse of rowids (foreign keys, prune.go): a
\* reference points to the very record the watch meant, unless another process pruned during the
\* life of that watch, and always to some record.
RightParents ==
    \A r \in rows, fk \in ForeignKeys :
        fk.from = r.key[1] /\ r.ref[fk.col] # NULL =>
            \E q \in rows : q.key = Target(r, fk) /\ r.meant[fk.col] \in {q.born, NULL}

\* No foreign key stops Prune, whatever was recorded, so a watch can always start.
PruneCompletes == \A w \in Process : proc[w].pc # "unpruned"

\* A watch during whose life nobody else pruned is never refused a row.
NeverRefused == \A w \in Process : proc[w].pc = "refused" => w \in disturbed

\* Who gets past Open works on a database of this schema, journalled and indexed, although the
\* upgrade may have been done by a process that was killed right after it.
OpenIsReady == \A p \in Process : proc[p].pc \in {"prune", "begin", "watch"} => version = SchemaVersion /\ ready

\* The database is upgraded at most once and keeps its identity: of processes that race, one
\* wins, and a database of a newer buckle is left alone (migrate, upgradeV2).
UpgradedOnce ==
    [][/\ version' # version => version < SchemaVersion /\ version' = SchemaVersion
       /\ instance' # instance => version < 2 /\ version' = SchemaVersion]_vars

\* The run with rowid i is within Retention.
RecentRun(i) == \E r \in In(rows, "runs") : r.key[2] = i /\ Id(r) \notin old

\* r is a run or an orphan within Retention, or belongs to such a run; a denial also goes with its
\* process, which is another run's if the watch has been disturbed.
Recent(r) ==
    \/ r.key[1] \in {"runs", "orphans"} /\ Id(r) \notin old
    \/ r.key[1] \in {"processes", "run_env"} /\ RecentRun(r.ref["run_id"])
    \/ /\ r.key[1] = "denials"
       /\ RecentRun(r.ref["run_id"])
       /\ \E p \in In(rows, "processes") : p.key[2] = r.ref["process_id"] /\ RecentRun(p.ref["run_id"])

\* The record r is there and refers to all it referred to, except what may be set to NULL.
Kept(r) ==
    \E q \in rows' :
        /\ Id(q) = Id(r)
        /\ \A fk \in References(r) :
             fk.col \in {"session_id", "watch_id", "profile_hash", "run_id", "process_id"} => q.ref[fk.col] = r.ref[fk.col]

\* A run or orphan within Retention is never deleted, nor its processes, denials, environment,
\* watch, session and profile.
RecentKept == [][\A r \in rows : Recent(r) => Kept(r)]_vars

\* The revisions of the tables are what change tracking promises, across upgrade and pruning.
ImplementsReplica == Abstract!Spec
=============================================================================
