----------------------------- MODULE StoreProofs -----------------------------
(***************************************************************************)
(* Proofs about Store, for any number of watches and migrations that open, *)
(* write, prune, are refused and are killed: what opening a database       *)
(* guarantees, and what is in the tables.                                  *)
(*                                                                         *)
(* The inductive invariant IInv has three parts.  OpenInv says who may     *)
(* write at all; it is inductive by itself, and comes first.  DataInv says *)
(* what the tables are: rowids and revisions are unique, references have   *)
(* the target they were meant for.  ProcInv says what a watch remembers:   *)
(* rows that were in the database, and still are, with the references they *)
(* had, unless another process has pruned since.  Without ProcInv a row    *)
(* that is inserted could refer to anything; without DataInv a rowid that  *)
(* is used again could be taken for the record that had it before.         *)
(*                                                                         *)
(* Every transaction is shown to be Commits (what it wrote is numbered     *)
(* above all that was) and either Lossless (a write) or Spares (Prune).    *)
(***************************************************************************)
EXTENDS Store, FiniteSetTheorems, TLAPS

-----------------------------------------------------------------------------
(* Opening *)

\* Who is past the upgrade knows a current database; who is about to upgrade has read an older
\* version; who is past Prepare has a ready one.
OpenInv ==
    /\ version \in 0..(SchemaVersion + 1)
    /\ proc = [p \in Process |-> proc[p]]
    /\ \A p \in Process :
         /\ proc[p] = [pc |-> proc[p].pc, cmd |-> proc[p].cmd, seen |-> proc[p].seen,
                       session |-> proc[p].session, held |-> proc[p].held]
         /\ proc[p].pc # "unpruned"
         /\ proc[p].pc = "upgrade" => proc[p].seen \in 0..2
         /\ proc[p].pc \in {"prepare", "prune", "begin", "watch", "refused"} => version = SchemaVersion
         /\ proc[p].pc \in {"prune", "begin", "watch", "refused"} => ready

LEMMA CreatedOnce ==
    ASSUME version \in 0..(SchemaVersion + 1), NEW seen \in 0..2, Created(seen) \cap Tables(version) = {}
    PROVE  version <= seen
<1>1. CASE version >= 3
  <2>1. "run_env" \in Created(seen) \cap Tables(version)
    BY <1>1 DEF Created, Tables, SchemaVersion, V2Tables
  <2> QED BY <2>1
<1>2. CASE version = 2 /\ seen < 2
  <2>1. "meta" \in Created(seen) \cap Tables(version)
    BY <1>2 DEF Created, Tables, SchemaVersion, V2Tables
  <2> QED BY <2>1
<1>3. CASE version = 1 /\ seen = 0
  <2>1. "runs" \in Created(seen) \cap Tables(version)
    BY <1>3 DEF Created, Tables, SchemaVersion, V2Tables
  <2> QED BY <2>1
<1> QED BY <1>1, <1>2, <1>3 DEF SchemaVersion

-----------------------------------------------------------------------------
(* Prune *)

LEMMA KeyTables ==
    /\ \A fk \in Cascade : fk.from \in {"processes", "denials", "run_env"}
    /\ \A fk \in NoAction : fk.to \in {"watches", "profiles"}
BY DEF Cascade, NoAction

\* A cascade reaches only the tables of a run: no watch, session or profile goes that was not chosen.
LEMMA CascadeStays ==
    ASSUME NEW S, NEW D, NEW r \in Doomed(S, D), r.key[1] \in {"watches", "sessions", "profiles"}
    PROVE  r \in D
<1>1. \A E, q : q \in Hit(S, E, Cascade) => q.key[1] \in {"processes", "denials", "run_env"}
  BY KeyTables DEF Hit, References
<1> QED BY <1>1 DEF Doomed

LEMMA NotStopped ==
    ASSUME NEW S, NEW t \in {"runs", "orphans", "watches", "sessions", "profiles"}
    PROVE  Hit(S \ Doomed(S, Selected(t, S)), Doomed(S, Selected(t, S)), NoAction) = {}
<1> DEFINE D == Selected(t, S)
<1>1. SUFFICES ASSUME NEW r \in S, NEW fk \in References(r) \cap NoAction, NEW q \in Doomed(S, D), Target(r, fk) = q.key
               PROVE  FALSE
  BY DEF Hit, Keys
<1>2. q.key[1] \in {"watches", "profiles"}
  <2>1. q.key = <<fk.to, r.ref[fk.col]>>
    BY <1>1 DEF Target
  <2>2. q.key[1] = fk.to
    BY <2>1
  <2> QED BY <2>2, KeyTables
<1>3. q \in D
  BY <1>2, CascadeStays
<1>4. q.key[1] = t
  BY <1>3 DEF Selected, Old, In, Unreferenced
<1>5. q \in Unreferenced(S, t)
  BY <1>2, <1>3, <1>4 DEF Selected
<1> QED BY <1>1, <1>5 DEF Unreferenced

LEMMA DeleteOK ==
    ASSUME NEW db, NEW D, NEW d \in Delete(db, D), Hit(db.rows \ Doomed(db.rows, D), Doomed(db.rows, D), NoAction) = {}
    PROVE  d.ok
<1> DEFINE gone == Doomed(db.rows, D)
           kept == db.rows \ gone
           hit == Hit(kept, gone, SetNull)
           changed(f) == (kept \ hit) \cup {[Nulled(r, gone) EXCEPT !.rev = f[r]] : r \in hit}
           outcome(n, f) == [rows |-> changed(f), counter |-> n, ok |-> TRUE]
           low == db.counter + Cardinality(hit)
           high == low + Cardinality(Hit(gone, gone, SetNull))
           fits(n) == {g \in [hit -> (db.counter + 1)..n] : \A p, q \in hit : g[p] = g[q] => p = q}
<1>1. d \in UNION {{outcome(n, f) : f \in fits(n)} : n \in low..high}
  BY DEF Delete
<1> HIDE DEF low, high, fits, changed
<1>2. PICK n \in low..high : d \in {outcome(n, f) : f \in fits(n)}
  BY <1>1
<1>3. PICK f \in fits(n) : d = outcome(n, f)
  BY <1>2
<1> QED BY <1>3

LEMMA StatementOK ==
    ASSUME NEW dbs, NEW t \in {"runs", "orphans", "watches", "sessions", "profiles"}, \A db \in dbs : db.ok
    PROVE  \A db \in Statement(dbs, t) : db.ok
<1>1. SUFFICES ASSUME NEW db \in dbs, NEW d \in Delete(db, Selected(t, db.rows))
               PROVE  d.ok
  BY DEF Statement
<1> QED BY NotStopped, DeleteOK

LEMMA PrunedOK == \A db \in Pruned : db.ok
<1> DEFINE start == {[rows |-> rows, counter |-> counter, ok |-> TRUE]}
<1>1. \A db \in start : db.ok
  OBVIOUS
<1>2. \A db \in Statement(start, "runs") : db.ok
  BY <1>1, StatementOK
<1>3. \A db \in Statement(Statement(start, "runs"), "orphans") : db.ok
  BY <1>2, StatementOK
<1> QED BY <1>3, StatementOK DEF Pruned

-----------------------------------------------------------------------------
(* Steps *)

\* What one step may do to the file: only an upgrade sets the version or the identity.
Careful ==
    /\ version' # version => version < SchemaVersion /\ version' = SchemaVersion
    /\ instance' # instance => version < 2 /\ version' = SchemaVersion

Shaped(new) ==
    new = [pc |-> new.pc, cmd |-> new.cmd, seen |-> new.seen, session |-> new.session, held |-> new.held]

\* What is left of a write by w when its rows are forgotten.
Calm(w) ==
    /\ UNCHANGED <<version, ready, instance>>
    /\ proc[w].pc \in {"prune", "begin", "watch", "refused"}
    /\ \E new : /\ Shaped(new)
                /\ new.pc \in {"off", "begin", "watch", "refused"}
                /\ proc' = [proc EXCEPT ![w] = new]

\* A step of p that leaves the file's version alone, and p where it may be.
LEMMA MoveStep ==
    ASSUME OpenInv, NEW p \in Process, NEW new, Shaped(new),
           new.pc # "unpruned",
           new.pc = "upgrade" => new.seen \in 0..2,
           new.pc \in {"prepare", "prune", "begin", "watch", "refused"} => version = SchemaVersion,
           new.pc \in {"prune", "begin", "watch", "refused"} => ready',
           proc' = [proc EXCEPT ![p] = new],
           version' = version, ready => ready'
    PROVE  OpenInv'
<1> USE DEF OpenInv, Shaped
<1>1. proc' = [q \in Process |-> proc'[q]]
  OBVIOUS
<1>2. \A q \in Process : proc'[q] = IF q = p THEN new ELSE proc[q]
  OBVIOUS
<1> QED BY <1>1, <1>2

LEMMA CalmStep ==
    ASSUME OpenInv, NEW w \in Process, Calm(w)
    PROVE  OpenInv' /\ Careful
<1>1. PICK new : /\ Shaped(new)
                 /\ new.pc \in {"off", "begin", "watch", "refused"}
                 /\ proc' = [proc EXCEPT ![w] = new]
  BY DEF Calm
<1>2. version = SchemaVersion /\ ready
  BY DEF OpenInv, Calm
<1>3. version' = version /\ ready' = ready /\ instance' = instance
  BY DEF Calm
<1>4. new.pc # "upgrade"
  BY <1>1
<1>5. OpenInv'
  BY <1>1, <1>2, <1>3, <1>4, MoveStep
<1> QED BY <1>3, <1>5 DEF Careful

\* The three ways in which a write changes its process.
LEMMA CalmGoto ==
    ASSUME OpenInv, NEW w \in Process, NEW pc \in {"begin", "refused"}, Goto(w, pc),
           proc[w].pc \in {"prune", "begin", "watch", "refused"}, UNCHANGED <<version, ready, instance>>
    PROVE  Calm(w)
<1> DEFINE new == [proc[w] EXCEPT !.pc = pc]
<1>1. proc' = [proc EXCEPT ![w] = new]
  BY DEF Goto
<1>2. Shaped(new) /\ new.pc = pc
  BY DEF OpenInv, Shaped
<1> QED BY <1>1, <1>2 DEF Calm

LEMMA CalmSession ==
    ASSUME OpenInv, NEW w \in Process, NEW x, proc' = [proc EXCEPT ![w].session = x],
           proc[w].pc \in {"watch", "refused"}, UNCHANGED <<version, ready, instance>>
    PROVE  Calm(w)
<1> DEFINE new == [proc[w] EXCEPT !.session = x]
<1>1. proc' = [proc EXCEPT ![w] = new]
  OBVIOUS
<1>2. Shaped(new) /\ new.pc = proc[w].pc
  BY DEF OpenInv, Shaped
<1> QED BY <1>1, <1>2 DEF Calm

LEMMA CalmKeeping ==
    ASSUME OpenInv, NEW w \in Process, NEW r, proc' = Keeping(w, r),
           proc[w].pc \in {"watch", "refused"}, UNCHANGED <<version, ready, instance>>
    PROVE  Calm(w)
<1> DEFINE kept == [proc[w] EXCEPT !.held = @ \cup {r}]
           new == [kept EXCEPT !.session = NULL]
<1>1. proc' = [proc EXCEPT ![w] = new]
  BY DEF Keeping
<1>2. Shaped(kept) /\ kept.pc = proc[w].pc
  <2>1. Shaped(proc[w])
    BY DEF OpenInv, Shaped
  <2> QED BY <2>1 DEF Shaped
<1> HIDE DEF kept
<1>3. Shaped(new) /\ new.pc = proc[w].pc
  BY <1>2 DEF Shaped
<1> QED BY <1>1, <1>3 DEF Calm

LEMMA CalmInsert ==
    ASSUME OpenInv, NEW w \in Process, NEW t, NEW refs, Insert(w, t, refs), proc[w].pc = "watch"
    PROVE  Calm(w)
<1> DEFINE r == NewRow(t, NextId(rows, t), counter + 1, refs)
<1>1. \/ Store(rows \cup {r}, counter + 1, Keeping(w, r))
      \/ Goto(w, "refused") /\ UNCHANGED <<database, old, disturbed>>
  BY DEF Insert
<1> HIDE DEF r
<1>2. CASE Store(rows \cup {r}, counter + 1, Keeping(w, r))
  BY <1>2, CalmKeeping DEF Store
<1>3. CASE Goto(w, "refused") /\ UNCHANGED <<database, old, disturbed>>
  BY <1>3, CalmGoto DEF database
<1> QED BY <1>1, <1>2, <1>3

LEMMA CalmWrite ==
    ASSUME OpenInv, NEW w \in Process, Write(w)
    PROVE  Calm(w)
<1> USE DEF Store, database
<1>1. ASSUME NEW s \in Session, EnsureSession(w, s)
      PROVE  Calm(w)
  <2>1. PICK x : proc' = [proc EXCEPT ![w].session = x]
    BY <1>1 DEF EnsureSession
  <2> QED BY <1>1, <2>1, CalmSession DEF EnsureSession
<1>2. ASSUME NEW parent, NEW hash, NEW env, InsertRun(w, parent, hash, env)
      PROVE  Calm(w)
  <2>1. proc[w].pc = "watch" /\ UNCHANGED <<version, ready, instance>>
    BY <1>2 DEF InsertRun
  <2>2. (\E r : proc' = Keeping(w, r)) \/ Goto(w, "refused")
    BY <1>2 DEF InsertRun
  <2> QED BY <2>1, <2>2, CalmKeeping, CalmGoto
<1>3. ASSUME NEW h, SetRunSession(w, h)
      PROVE  Calm(w)
  <2>1. proc[w].pc = "watch" /\ UNCHANGED <<version, ready, instance>>
    BY <1>3 DEF SetRunSession
  <2>2. proc' = [proc EXCEPT ![w].session = NULL] \/ Goto(w, "refused")
    BY <1>3 DEF SetRunSession
  <2> QED BY <2>1, <2>2, CalmSession, CalmGoto
<1>4. ASSUME NEW h, NEW up, InsertProcess(w, h, up)
      PROVE  Calm(w)
  BY <1>4, CalmInsert DEF InsertProcess
<1>5. ASSUME NEW h, InsertDenial(w, h)
      PROVE  Calm(w)
  BY <1>5, CalmInsert DEF InsertDenial
<1>6. CASE InsertOrphan(w)
  BY <1>6, CalmInsert DEF InsertOrphan
<1>7. CASE proc[w].session = NULL /\ Update(w)
  <2>1. proc' = proc /\ proc[w].pc \in {"watch", "refused"} /\ UNCHANGED <<version, ready, instance>>
    BY <1>7 DEF Update, Touch
  <2>2. proc' = [proc EXCEPT ![w].session = proc[w].session]
    BY <2>1 DEF OpenInv
  <2> QED BY <2>1, <2>2, CalmSession
<1> QED BY <1>1, <1>2, <1>3, <1>4, <1>5, <1>6, <1>7 DEF Write

LEMMA NextStep ==
    ASSUME OpenInv, [Next]_vars
    PROVE  OpenInv' /\ Careful
<1>1. ASSUME NEW p \in Process, NEW cmd \in {"watch", "migrate"}, Open(p, cmd)
      PROVE  OpenInv' /\ Careful
  <2> DEFINE next == IF version = SchemaVersion THEN "prepare" ELSE "upgrade"
             gone == [Off EXCEPT !.pc = next]
             named == [gone EXCEPT !.cmd = cmd]
             new == [named EXCEPT !.seen = version]
  <2>1. proc' = [proc EXCEPT ![p] = new] /\ UNCHANGED <<version, ready, instance>>
    BY <1>1 DEF Open
  <2>2. version \in 0..2 \/ version = SchemaVersion
    BY <1>1 DEF Open, OpenInv, SchemaVersion
  <2>3. Shaped(gone) /\ gone.pc = next
    BY DEF Off, Shaped
  <2> HIDE DEF gone
  <2>7. Shaped(named) /\ named.pc = next
    BY <2>3 DEF Shaped
  <2> HIDE DEF named
  <2>4. Shaped(new) /\ new.seen = version /\ new.pc = next
    BY <2>7 DEF Shaped
  <2> HIDE DEF new
  <2>5. OpenInv'
    BY <2>1, <2>2, <2>4, MoveStep
  <2> QED BY <2>1, <2>5 DEF Careful
<1>2. ASSUME NEW p \in Process, Upgrade(p)
      PROVE  OpenInv' /\ Careful
  <2> DEFINE seen == proc[p].seen
  <2>1. seen \in 0..2 /\ version \in 0..(SchemaVersion + 1)
    BY <1>2 DEF Upgrade, OpenInv
  <2>2. version <= seen
    BY <1>2, <2>1, CreatedOnce DEF Upgrade
  <2>3. version' = SchemaVersion /\ ready' = ready /\ proc' = [proc EXCEPT ![p].pc = "prepare"]
    BY <1>2 DEF Upgrade, Goto
  <2>4. \A q \in Process : proc'[q] = IF q = p THEN [proc[p] EXCEPT !.pc = "prepare"] ELSE proc[q]
    BY <2>3 DEF OpenInv
  <2>5. \A q \in Process : proc[q].pc \notin {"prune", "begin", "watch", "refused"}
    BY <2>1, <2>2 DEF OpenInv, SchemaVersion
  <2>6. OpenInv'
    BY <2>3, <2>4, <2>5 DEF OpenInv, SchemaVersion
  <2>7. instance' # instance => seen < 2
    BY <1>2 DEF Upgrade
  <2> QED BY <2>1, <2>2, <2>3, <2>6, <2>7 DEF Careful, SchemaVersion
<1>3. ASSUME NEW p \in Process, Prepare(p)
      PROVE  OpenInv' /\ Careful
  <2> DEFINE new == IF proc[p].cmd = "watch" THEN [Off EXCEPT !.pc = "prune"] ELSE Off
  <2>1. proc' = [proc EXCEPT ![p] = new] /\ ready' /\ UNCHANGED <<version, instance>>
    BY <1>3 DEF Prepare
  <2>2. version = SchemaVersion
    BY <1>3 DEF Prepare, OpenInv
  <2>3. Shaped(new) /\ new.pc \in {"prune", "off"}
    BY DEF Off, Shaped
  <2> HIDE DEF new
  <2>4. OpenInv'
    BY <2>1, <2>2, <2>3, MoveStep
  <2> QED BY <2>1, <2>4 DEF Careful
<1>4. ASSUME NEW p \in Process, Leave(p)
      PROVE  OpenInv' /\ Careful
  <2>1. proc' = [proc EXCEPT ![p] = Off] /\ UNCHANGED <<version, ready, instance>>
    BY <1>4 DEF Leave, database
  <2>2. Shaped(Off) /\ Off.pc = "off"
    BY DEF Off, Shaped
  <2>3. OpenInv'
    BY <2>1, <2>2, MoveStep
  <2> QED BY <2>1, <2>3 DEF Careful
<1>5. ASSUME NEW w \in Process, Prune(w)
      PROVE  OpenInv' /\ Careful
  <2>1. Goto(w, "begin")
    BY <1>5, PrunedOK DEF Prune
  <2>2. proc[w].pc = "prune" /\ UNCHANGED <<version, ready, instance>>
    BY <1>5 DEF Prune
  <2> QED BY <2>1, <2>2, CalmGoto, CalmStep
<1>6. ASSUME NEW w \in Process, BeginWatch(w)
      PROVE  OpenInv' /\ Careful
  <2>1. proc[w].pc = "begin" /\ UNCHANGED <<version, ready, instance>>
    BY <1>6 DEF BeginWatch, Store
  <2>2. PICK r : proc' = [proc EXCEPT ![w].pc = "watch", ![w].held = {r}]
    BY <1>6 DEF BeginWatch, Store
  <2> DEFINE on == [proc[w] EXCEPT !.pc = "watch"]
             new == [on EXCEPT !.held = {r}]
  <2>3. proc' = [proc EXCEPT ![w] = new]
    BY <2>2
  <2>4. Shaped(on) /\ on.pc = "watch"
    BY DEF OpenInv, Shaped
  <2> HIDE DEF on
  <2>5. Shaped(new) /\ new.pc = "watch"
    BY <2>4 DEF Shaped
  <2>6. Calm(w)
    BY <2>1, <2>3, <2>5 DEF Calm
  <2> QED BY <2>6, CalmStep
<1>7. ASSUME NEW w \in Process, Write(w)
      PROVE  OpenInv' /\ Careful
  BY <1>7, CalmWrite, CalmStep
<1>8. ASSUME NEW w \in Process, EndWatch(w)
      PROVE  OpenInv' /\ Careful
  <2>1. /\ proc' = [proc EXCEPT ![w] = Off] /\ proc[w].pc \in {"watch", "refused"}
        /\ UNCHANGED <<version, ready, instance>>
    BY <1>8 DEF EndWatch
  <2>2. Shaped(Off) /\ Off.pc = "off"
    BY DEF Off, Shaped
  <2>3. Calm(w)
    BY <2>1, <2>2 DEF Calm
  <2> QED BY <2>3, CalmStep
<1>9. CASE Age \/ UNCHANGED vars
  <2>1. UNCHANGED <<version, ready, instance, proc>>
    BY <1>9 DEF Age, vars, database
  <2> QED BY <2>1 DEF OpenInv, Careful
<1> QED BY <1>1, <1>2, <1>3, <1>4, <1>5, <1>6, <1>7, <1>8, <1>9 DEF Next

LEMMA OpenInvHolds == Spec => []OpenInv
<1>1. Init => OpenInv
  <2>1. Init => proc = [p \in Process |-> Off] /\ version \in 0..(SchemaVersion + 1)
    BY DEF Init, SchemaVersion
  <2>2. Off.pc = "off" /\ Shaped(Off)
    BY DEF Off, Shaped
  <2> QED BY <2>1, <2>2 DEF OpenInv, Shaped
<1>2. OpenInv /\ [Next]_vars => OpenInv'
  BY NextStep
<1> QED BY <1>1, <1>2, PTL DEF Spec

\* However many watches and migrations start, race and are killed, whoever gets past Open works on
\* a database of this schema that is a WAL and indexed (migrate).
THEOREM OpenIsReadyHolds == Spec => []OpenIsReady
<1>1. OpenInv => OpenIsReady
  BY DEF OpenInv, OpenIsReady
<1> QED BY <1>1, OpenInvHolds, PTL

\* Of any number of processes that race to create or migrate a database one does it, and its
\* db_instance is drawn once (upgradeV2, migrate).
THEOREM UpgradedOnceHolds == Spec => UpgradedOnce
<1>1. OpenInv /\ [Next]_vars => [Careful]_vars
  BY NextStep
<1>2. [Careful]_vars => [/\ version' # version => version < SchemaVersion /\ version' = SchemaVersion
                         /\ instance' # instance => version < 2 /\ version' = SchemaVersion]_vars
  BY DEF Careful
<1> QED BY <1>1, <1>2, OpenInvHolds, PTL DEF Spec, UpgradedOnce

\* Whatever has been recorded, with references however tangled, no foreign key stops a Prune, so a
\* watch can start (Prune, schemaV1).
THEOREM PruneCompletesHolds == Spec => []PruneCompletes
<1>1. OpenInv => PruneCompletes
  BY DEF OpenInv, PruneCompletes
<1> QED BY <1>1, OpenInvHolds, PTL

-----------------------------------------------------------------------------
(* Rows and references *)

Ref == Nat \cup {NULL}
RowTables == V2Tables \cup {"run_env"}

\* r has the fields of a row, was created and last stamped at revisions up to n.
RowOK(r, n) ==
    /\ r = [key |-> r.key, rev |-> r.rev, born |-> r.born, name |-> r.name, ref |-> r.ref, meant |-> r.meant]
    /\ r.key \in RowTables \X (Nat \ {0})
    /\ r.rev \in 0..n /\ r.born \in 0..n
    /\ r.ref \in [Columns(r.key[1]) -> Ref]
    /\ r.meant \in [Columns(r.key[1]) -> Ref]

\* Every reference of r has its target in S, the record it was meant for if that is known.
Refers(S, r) ==
    \A fk \in References(r) :
        \E q \in S : q.key = Target(r, fk) /\ r.meant[fk.col] \in {q.born, NULL}

\* The rows of a database whose counter is n.
RowsOK(S, n) ==
    /\ n \in Nat
    /\ IsFiniteSet(S)
    /\ \E i \in Nat : \A r \in S : r.key[2] <= i
    /\ \A r \in S : RowOK(r, n) /\ Refers(S, r)
    /\ \A p, q \in S : p.key = q.key => p = q
    /\ \A p, q \in In(S, "sessions") : p.name = q.name => p = q

\* Revisions tell rows apart, since there are any.
RevsOK(S) ==
    /\ \A r \in S : r.rev # 0
    /\ \A p, q \in S : p.rev = q.rev => p = q

\* q is the record r, and has every reference r has.
Same(r, q) ==
    /\ q.key = r.key /\ q.born = r.born /\ q.name = r.name
    /\ \A c \in Columns(r.key[1]) : r.ref[c] # NULL => q.ref[c] = r.ref[c] /\ q.meant[c] = r.meant[c]

DataInv ==
    /\ RowsOK(rows, counter)
    /\ version >= 2 => RevsOK(rows)
    /\ version < 2 => counter = 0 /\ instance = 0
    /\ version < 2 => \A r \in rows : r.key[1] # "run_env"
    /\ instance \in 0..1
    /\ old \subseteq [key : Tables(SchemaVersion) \X (Nat \ {0}), born : Nat]

\* The records the process x has in its hand.
Hand(x) == x.held \cup ({x.session} \ {NULL})

\* Only a watch has any: its own row, and others that were in the database once.
ProcOK(x, n) ==
    /\ x.pc \notin {"watch", "refused"} => x.held = {} /\ x.session = NULL
    /\ x.pc \in {"watch", "refused"} => \E h : In(x.held, "watches") = {h}
    /\ \A h \in Hand(x) : RowOK(h, n)
    /\ x.session # NULL => x.session.key[1] = "sessions"

\* They still are, with the references they had.
Undisturbed(x, S) == x.pc # "refused" /\ \A h \in Hand(x) : \E q \in S : Same(h, q)

ProcInv ==
    /\ disturbed \subseteq Watching
    /\ \A p \in Process : ProcOK(proc[p], counter) /\ (proc[p].pc = "upgrade" => proc[p].seen <= version)
    /\ \A w \in Process \ disturbed : Undisturbed(proc[w], rows)

IInv == OpenInv /\ DataInv /\ ProcInv

-----------------------------------------------------------------------------
(* Rowids *)

LEMMA ImageFinite ==
    ASSUME NEW S, IsFiniteSet(S), NEW f, DOMAIN f = S
    PROVE  IsFiniteSet({f[x] : x \in S})
<1> DEFINE T == {f[x] : x \in S}
           g == [x \in S |-> f[x]]
<1>1. g \in Surjection(S, T)
  BY DEF Surjection
<1> QED BY <1>1, FS_Surjection

\* A set of natural numbers that is bounded has a largest one.
LEMMA MaxOf ==
    ASSUME NEW T \in SUBSET Nat, T # {}, NEW m \in Nat, \A x \in T : x <= m
    PROVE  Max(T) \in T /\ \A y \in T : y <= Max(T)
<1> DEFINE below == {m - x : x \in T}
           R == {ss \in Nat \X Nat : ss[1] < ss[2]}
<1>1. below \subseteq Nat
  <2> SUFFICES ASSUME NEW x \in T
               PROVE  m - x \in Nat
    OBVIOUS
  <2>1. x \in Nat /\ x <= m
    OBVIOUS
  <2> QED BY <2>1
<1>2. below # {}
  <2>1. PICK x \in T : TRUE
    OBVIOUS
  <2>2. m - x \in below
    OBVIOUS
  <2> QED BY <2>2
<1>3. IsWellFoundedOn(R, Nat)
  BY NatLessThanWellFounded DEF OpToRel
<1>4. PICK d \in below : \A e \in below : <<e, d>> \notin R
  <2> HIDE DEF below, R
  <2> QED BY <1>1, <1>2, <1>3, WFMin
<1>5. ASSUME NEW e \in below
      PROVE  d <= e
  <2>1. d \in Nat /\ e \in Nat
    BY <1>1
  <2>2. e < d => <<e, d>> \in R
    BY <2>1
  <2> QED BY <1>4, <2>1, <2>2
<1>6. PICK x \in T : d = m - x
  OBVIOUS
<1>7. ASSUME NEW y \in T
      PROVE  y <= x
  <2>1. m - y \in below
    OBVIOUS
  <2>2. m - x <= m - y
    BY <1>5, <1>6, <2>1
  <2> QED BY <2>2
<1>8. \E z \in T : \A y \in T : z >= y
  BY <1>7
<1> QED BY <1>8 DEF Max

\* The rowid given to a new row is above all of its table.
LEMMA LastIdOf ==
    ASSUME NEW S, NEW t, NEW i \in Nat, \A r \in S : r.key[2] \in Nat /\ r.key[2] <= i
    PROVE  /\ LastId(S, t) \in Nat
           /\ NextId(S, t) = LastId(S, t) + 1
           /\ \A r \in S : r.key[1] = t => r.key[2] <= LastId(S, t)
<1> DEFINE T == {0} \cup {r.key[2] : r \in In(S, t)}
<1>1. T \in SUBSET Nat /\ \A x \in T : x <= i
  BY DEF In
<1>2. Max(T) \in T /\ \A y \in T : y <= Max(T)
  <2> HIDE DEF T
  <2>1. T # {}
    BY DEF T
  <2> QED BY <1>1, <2>1, MaxOf
<1>3. \A r \in S : r.key[1] = t => r.key[2] \in T
  BY DEF In
<1> QED BY <1>1, <1>2, <1>3 DEF LastId, NextId

-----------------------------------------------------------------------------
(* Rows *)

LEMMA RowMore ==
    ASSUME NEW r, NEW n \in Nat, NEW m \in Nat, n <= m, RowOK(r, n)
    PROVE  RowOK(r, m)
BY DEF RowOK

LEMMA RefersMore ==
    ASSUME NEW S, NEW T, NEW r, Refers(S, r), \A q \in S : \E t \in T : t.key = q.key /\ t.born = q.born
    PROVE  Refers(T, r)
<1> SUFFICES ASSUME NEW fk \in References(r)
             PROVE  \E t \in T : t.key = Target(r, fk) /\ r.meant[fk.col] \in {t.born, NULL}
  BY DEF Refers
<1>1. PICK q \in S : q.key = Target(r, fk) /\ r.meant[fk.col] \in {q.born, NULL}
  BY DEF Refers
<1>2. PICK t \in T : t.key = q.key /\ t.born = q.born
  OBVIOUS
<1> QED BY <1>1, <1>2

LEMMA SameSelf == \A r : Same(r, r)
BY DEF Same

LEMMA SameTrans ==
    ASSUME NEW p, NEW q, NEW r, Same(p, q), Same(q, r)
    PROVE  Same(p, r)
<1>1. r.key = p.key /\ r.born = p.born /\ r.name = p.name
  BY DEF Same
<1>2. ASSUME NEW c \in Columns(p.key[1]), p.ref[c] # NULL
      PROVE  r.ref[c] = p.ref[c] /\ r.meant[c] = p.meant[c]
  <2>1. q.ref[c] = p.ref[c] /\ q.meant[c] = p.meant[c] /\ q.key = p.key
    BY <1>2 DEF Same
  <2> QED BY <1>2, <2>1 DEF Same
<1> QED BY <1>1, <1>2 DEF Same

\* A trigger's UPDATE of rev changes nothing else.
LEMMA StampRow ==
    ASSUME NEW r, NEW n \in Nat, NEW m \in Nat, n <= m, RowOK(r, n), NEW i \in 0..m
    PROVE  /\ RowOK([r EXCEPT !.rev = i], m)
           /\ [r EXCEPT !.rev = i].rev = i
           /\ [r EXCEPT !.rev = i].ref = r.ref
           /\ [r EXCEPT !.rev = i].meant = r.meant
           /\ Same(r, [r EXCEPT !.rev = i])
<1> DEFINE q == [r EXCEPT !.rev = i]
<1>1. q = [key |-> r.key, rev |-> i, born |-> r.born, name |-> r.name, ref |-> r.ref, meant |-> r.meant]
  BY DEF RowOK
<1> HIDE DEF q
<1>2. q.key = r.key /\ q.rev = i /\ q.born = r.born /\ q.name = r.name /\ q.ref = r.ref /\ q.meant = r.meant
  BY <1>1
<1>3. q = [key |-> q.key, rev |-> q.rev, born |-> q.born, name |-> q.name, ref |-> q.ref, meant |-> q.meant]
  BY <1>1, <1>2
<1>4. RowOK(q, m)
  BY <1>2, <1>3 DEF RowOK
<1>5. Same(r, q)
  BY <1>2 DEF Same
<1> QED BY <1>2, <1>4, <1>5 DEF q

-----------------------------------------------------------------------------
(* Writes *)

\* A transaction takes the rows S at counter n to T at m: what is new or changed is numbered above n.
Commits(S, n, T, m) ==
    /\ RowsOK(T, m) /\ RevsOK(T)
    /\ n <= m
    /\ \A r \in T : r \in S \/ r.rev \in (n + 1)..m

\* And no record of S is lost.
Lossless(S, T) == \A r \in S : \E q \in T : Same(r, q)
Grows(S, n, T, m) == Commits(S, n, T, m) /\ Lossless(S, T)

LEMMA GrowsTrans ==
    ASSUME NEW S, NEW n \in Nat, NEW T, NEW m \in Nat, NEW U, NEW k, Grows(S, n, T, m), Grows(T, m, U, k)
    PROVE  Grows(S, n, U, k)
<1>1. k \in Nat /\ n <= k
  BY DEF Commits, Lossless, Grows, RowsOK
<1>2. ASSUME NEW r \in U
      PROVE  r \in S \/ r.rev \in (n + 1)..k
  BY <1>1 DEF Commits, Lossless, Grows
<1>3. ASSUME NEW r \in S
      PROVE  \E q \in U : Same(r, q)
  <2>1. PICK t \in T : Same(r, t)
    BY DEF Commits, Lossless, Grows
  <2>2. PICK q \in U : Same(t, q)
    BY DEF Commits, Lossless, Grows
  <2> QED BY <2>1, <2>2, SameTrans
<1> QED BY <1>1, <1>2, <1>3 DEF Commits, Lossless, Grows

\* An INSERT of the rows N.
LEMMA AddRows ==
    ASSUME NEW S, NEW n, NEW N, NEW m \in Nat, RowsOK(S, n), RevsOK(S), n <= m,
           IsFiniteSet(N), \E i \in Nat : \A r \in N : r.key[2] <= i,
           \A r \in N : RowOK(r, m) /\ n < r.rev /\ r.key \notin Keys(S) /\ Refers(S \cup N, r),
           \A p, q \in N : p.key = q.key \/ p.rev = q.rev => p = q,
           \A p \in In(N, "sessions"), q \in In(S \cup N, "sessions") : p.name = q.name => p = q
    PROVE  Grows(S, n, S \cup N, m)
<1> DEFINE T == S \cup N
<1>1. n \in Nat /\ IsFiniteSet(T)
  BY FS_Union DEF RowsOK
<1>2. \E i \in Nat : \A r \in T : r.key[2] <= i
  <2>1. PICK i \in Nat : \A r \in S : r.key[2] <= i
    BY DEF RowsOK
  <2>2. PICK j \in Nat : \A r \in N : r.key[2] <= j
    OBVIOUS
  <2>3. \A r \in T : r.key[2] \in Nat
    BY DEF RowsOK, RowOK
  <2>4. \A r \in T : r.key[2] <= i + j
    BY <2>1, <2>2, <2>3
  <2> QED BY <2>4
<1>3. ASSUME NEW r \in T
      PROVE  RowOK(r, m) /\ Refers(T, r)
  <2>1. CASE r \in S
    BY <1>1, <2>1, RowMore, RefersMore DEF RowsOK
  <2> QED BY <2>1
<1>4. ASSUME NEW p \in T, NEW q \in T, p.key = q.key
      PROVE  p = q
  BY <1>4 DEF RowsOK, Keys
<1>5. ASSUME NEW p \in In(T, "sessions"), NEW q \in In(T, "sessions"), p.name = q.name
      PROVE  p = q
  BY <1>5 DEF RowsOK, In
<1>6. \A r \in S : r.rev <= n /\ r.rev \in Nat
  BY DEF RowsOK, RowOK
<1>7. \A r \in N : r.rev \in (n + 1)..m
  BY <1>1 DEF RowOK
<1>8. RevsOK(T)
  BY <1>1, <1>6, <1>7 DEF RevsOK
<1> QED BY <1>1, <1>2, <1>3, <1>4, <1>5, <1>7, <1>8, SameSelf DEF Commits, Lossless, Grows, RowsOK

\* An UPDATE of the row h to g.
LEMMA ChangeRow ==
    ASSUME NEW S, NEW n, RowsOK(S, n), RevsOK(S), NEW h \in S, NEW g,
           RowOK(g, n + 1), g.rev = n + 1, Same(h, g), Refers(S, g)
    PROVE  Grows(S, n, (S \ {h}) \cup {g}, n + 1)
<1> DEFINE T == (S \ {h}) \cup {g}
<1>1. n \in Nat /\ IsFiniteSet(T)
  BY FS_RemoveElement, FS_AddElement DEF RowsOK
<1>2. g.key = h.key /\ g.born = h.born /\ g.name = h.name
  BY DEF Same
<1>3. \E i \in Nat : \A r \in T : r.key[2] <= i
  BY <1>2 DEF RowsOK
<1>4. \A q \in S : \E t \in T : t.key = q.key /\ t.born = q.born
  BY <1>2
<1>5. ASSUME NEW r \in T
      PROVE  RowOK(r, n + 1) /\ Refers(T, r)
  <2>1. Refers(T, g)
    BY <1>4, RefersMore
  <2>2. CASE r \in S
    <3>1. RowOK(r, n) /\ Refers(S, r)
      BY <2>2 DEF RowsOK
    <3>2. n + 1 \in Nat /\ n <= n + 1
      BY <1>1
    <3> QED BY <1>1, <1>4, <3>1, <3>2, RowMore, RefersMore
  <2> QED BY <2>1, <2>2
<1>6. \A p, q \in T : p.key = q.key => p = q
  BY <1>2 DEF RowsOK
<1>7. \A p, q \in In(T, "sessions") : p.name = q.name => p = q
  BY <1>2 DEF RowsOK, In
<1>8. \A r \in S : r.rev <= n /\ r.rev \in Nat
  BY DEF RowsOK, RowOK
<1>9. RevsOK(T)
  BY <1>1, <1>8 DEF RevsOK
<1>10. \A r \in S : \E q \in T : Same(r, q)
  BY SameSelf
<1>11. n <= n + 1 /\ n + 1 \in Nat /\ \A r \in T : r \in S \/ r.rev \in (n + 1)..(n + 1)
  BY <1>1
<1> QED BY <1>1, <1>3, <1>5, <1>6, <1>7, <1>9, <1>10, <1>11 DEF Commits, Lossless, Grows, RowsOK

-----------------------------------------------------------------------------
(* Processes *)

\* The process w with another place, session and records.
Now(w, pc, session, held) ==
    [pc |-> pc, cmd |-> proc[w].cmd, seen |-> proc[w].seen, session |-> session, held |-> held]

LEMMA GotoNow ==
    ASSUME OpenInv, NEW w \in Process, NEW pc, Goto(w, pc)
    PROVE  proc' = [proc EXCEPT ![w] = Now(w, pc, proc[w].session, proc[w].held)]
<1>1. [proc[w] EXCEPT !.pc = pc] = Now(w, pc, proc[w].session, proc[w].held)
  BY DEF OpenInv, Now
<1> QED BY <1>1 DEF Goto

LEMMA SessionNow ==
    ASSUME OpenInv, NEW w \in Process, NEW s
    PROVE  [proc EXCEPT ![w].session = s] = [proc EXCEPT ![w] = Now(w, proc[w].pc, s, proc[w].held)]
<1>1. [proc[w] EXCEPT !.session = s] = Now(w, proc[w].pc, s, proc[w].held)
  BY DEF OpenInv, Now
<1> QED BY <1>1

LEMMA KeepingNow ==
    ASSUME OpenInv, NEW w \in Process, NEW r
    PROVE  Keeping(w, r) = [proc EXCEPT ![w] = Now(w, proc[w].pc, NULL, proc[w].held \cup {r})]
<1> DEFINE kept == [proc[w] EXCEPT !.held = @ \cup {r}]
<1>1. Keeping(w, r) = [proc EXCEPT ![w] = [kept EXCEPT !.session = NULL]]
  BY DEF Keeping
<1>2. kept = Now(w, proc[w].pc, proc[w].session, proc[w].held \cup {r})
  BY DEF OpenInv, Now
<1> HIDE DEF kept
<1>3. [kept EXCEPT !.session = NULL] = Now(w, proc[w].pc, NULL, proc[w].held \cup {r})
  BY <1>2 DEF Now
<1> QED BY <1>1, <1>3

LEMMA BeginNow ==
    ASSUME OpenInv, NEW w \in Process, NEW r
    PROVE  [proc EXCEPT ![w].pc = "watch", ![w].held = {r}] = [proc EXCEPT ![w] = Now(w, "watch", proc[w].session, {r})]
<1> DEFINE on == [proc[w] EXCEPT !.pc = "watch"]
<1>1. [proc EXCEPT ![w].pc = "watch", ![w].held = {r}] = [proc EXCEPT ![w] = [on EXCEPT !.held = {r}]]
  OBVIOUS
<1>2. on = Now(w, "watch", proc[w].session, proc[w].held)
  BY DEF OpenInv, Now
<1> HIDE DEF on
<1>3. [on EXCEPT !.held = {r}] = Now(w, "watch", proc[w].session, {r})
  BY <1>2 DEF Now
<1> QED BY <1>1, <1>3

\* A step of w, which gets to x, disturbs no other process unless that is noted.
LEMMA ProcStep ==
    ASSUME OpenInv, ProcInv, counter \in Nat, counter' \in Nat, counter <= counter', version' \in Int, version <= version',
           NEW w \in Process, NEW x, proc' = [proc EXCEPT ![w] = x],
           ProcOK(x, counter'), x.pc = "upgrade" => x.seen <= version',
           disturbed' \subseteq Watching',
           w \notin disturbed' => Undisturbed(x, rows'),
           \A v \in Process \ (disturbed' \cup {w}) :
             v \notin disturbed /\ (Lossless(rows, rows') \/ proc[v].pc \notin {"watch", "refused"})
    PROVE  ProcInv'
<1>1. \A v \in Process : proc'[v] = IF v = w THEN x ELSE proc[v]
  BY DEF OpenInv
<1>2. ASSUME NEW p \in Process
      PROVE  ProcOK(proc'[p], counter') /\ (proc'[p].pc = "upgrade" => proc'[p].seen <= version')
  <2>1. CASE p = w
    BY <1>1, <2>1
  <2>2. CASE p # w
    <3>1. ProcOK(proc[p], counter) /\ proc'[p] = proc[p]
      BY <1>1, <2>2 DEF ProcInv
    <3>2. ProcOK(proc[p], counter')
      BY <3>1, RowMore DEF ProcOK
    <3>3. proc[p].pc = "upgrade" => proc[p].seen <= version'
      BY DEF ProcInv, OpenInv
    <3> QED BY <3>1, <3>2, <3>3
  <2> QED BY <2>1, <2>2
<1>3. ASSUME NEW v \in Process \ disturbed'
      PROVE  Undisturbed(proc'[v], rows')
  <2>1. CASE v = w
    BY <1>1, <1>3, <2>1
  <2>2. CASE v # w
    <3>1. proc'[v] = proc[v] /\ v \notin disturbed
      BY <1>1, <2>2
    <3>2. Undisturbed(proc[v], rows)
      BY <3>1 DEF ProcInv
    <3>3. CASE Lossless(rows, rows')
      <4> SUFFICES ASSUME NEW h \in Hand(proc[v])
                   PROVE  \E q \in rows' : Same(h, q)
        BY <3>1, <3>2 DEF Undisturbed
      <4>1. PICK r \in rows : Same(h, r)
        BY <3>2 DEF Undisturbed
      <4>2. PICK q \in rows' : Same(r, q)
        BY <3>3 DEF Lossless
      <4> QED BY <4>1, <4>2, SameTrans
    <3>4. CASE proc[v].pc \notin {"watch", "refused"}
      <4>1. Hand(proc[v]) = {}
        BY <3>4 DEF ProcInv, ProcOK, Hand
      <4> QED BY <3>1, <3>4, <4>1 DEF Undisturbed
    <3> QED BY <2>2, <3>3, <3>4
  <2> QED BY <2>1, <2>2
<1> QED BY <1>2, <1>3 DEF ProcInv

\* A write of the watch w, which gets to x, and what it leaves as it was.
Writes(w, x) ==
    /\ Grows(rows, counter, rows', counter')
    /\ UNCHANGED <<version, instance, old>>
    /\ proc' = [proc EXCEPT ![w] = x]
    /\ ProcOK(x, counter')
    /\ x.pc # "upgrade"
    /\ IF x.pc = "off" THEN disturbed' = disturbed \ {w}
       ELSE x.pc \in {"begin", "watch", "refused"} /\ disturbed' = disturbed
    /\ w \notin disturbed' => Undisturbed(x, rows')

LEMMA WritesKeep ==
    ASSUME IInv, version >= 2, NEW w \in Process, NEW x, Writes(w, x)
    PROVE  DataInv' /\ ProcInv'
<1>1. counter \in Nat /\ counter' \in Nat /\ counter <= counter' /\ version \in Int
  BY DEF IInv, DataInv, RowsOK, OpenInv, Writes, Grows, Commits
<1>2. DataInv'
  BY <1>1 DEF IInv, DataInv, Writes, Grows, Commits
<1>3. \A v \in Process : proc'[v] = IF v = w THEN x ELSE proc[v]
  BY DEF IInv, OpenInv, Writes
<1>4. disturbed' \subseteq Watching'
  BY <1>3 DEF IInv, ProcInv, Writes, Watching
<1>5. \A v \in Process \ (disturbed' \cup {w}) : v \notin disturbed
  BY DEF Writes
<1>6. version' \in Int /\ version <= version'
  BY <1>1 DEF Writes
<1> QED BY <1>1, <1>2, <1>4, <1>5, <1>6, ProcStep DEF IInv, Writes, Grows

-----------------------------------------------------------------------------
(* Inserts *)

LEMMA AddRow ==
    ASSUME NEW S, NEW n, RowsOK(S, n), RevsOK(S), NEW r, RowOK(r, n + 1), r.rev = n + 1,
           r.key \notin Keys(S), Refers(S \cup {r}, r),
           r.key[1] = "sessions" => \A q \in In(S, "sessions") : q.name # r.name
    PROVE  Grows(S, n, S \cup {r}, n + 1)
<1>1. n \in Nat /\ n + 1 \in Nat /\ n <= n + 1 /\ n < n + 1
  BY DEF RowsOK
<1>2. IsFiniteSet({r})
  BY FS_Singleton
<1>3. \E i \in Nat : \A q \in {r} : q.key[2] <= i
  BY DEF RowOK
<1>4. \A p \in In({r}, "sessions"), q \in In(S \cup {r}, "sessions") : p.name = q.name => p = q
  BY DEF In
<1> QED BY <1>1, <1>2, <1>3, <1>4, AddRows

LEMMA Fresh ==
    ASSUME NEW S, NEW n, RowsOK(S, n), NEW t
    PROVE  /\ NextId(S, t) \in Nat \ {0}
           /\ \A i \in Nat : NextId(S, t) <= i => <<t, i>> \notin Keys(S)
<1>1. PICK i \in Nat : \A r \in S : r.key[2] <= i
  BY DEF RowsOK
<1>2. \A r \in S : r.key[2] \in Nat
  BY DEF RowsOK, RowOK
<1>3. /\ LastId(S, t) \in Nat
      /\ NextId(S, t) = LastId(S, t) + 1
      /\ \A r \in S : r.key[1] = t => r.key[2] <= LastId(S, t)
  BY <1>1, <1>2, LastIdOf
<1>4. ASSUME NEW j \in Nat, NextId(S, t) <= j, NEW r \in S, r.key = <<t, j>>
      PROVE  FALSE
  <2>1. r.key[1] = t /\ r.key[2] = j
    BY <1>4
  <2> QED BY <1>3, <1>4, <2>1
<1> QED BY <1>3, <1>4 DEF Keys

LEMMA NewRowOK ==
    ASSUME NEW t \in RowTables, NEW id \in Nat \ {0}, NEW n \in Nat, NEW refs,
           \A c \in Columns(t) : refs[c].id \in Ref /\ refs[c].born \in Ref
    PROVE  /\ RowOK(NewRow(t, id, n, refs), n)
           /\ NewRow(t, id, n, refs).key = <<t, id>>
           /\ NewRow(t, id, n, refs).rev = n
           /\ NewRow(t, id, n, refs).born = n
           /\ NewRow(t, id, n, refs).name = NULL
           /\ \A c \in Columns(t) : /\ NewRow(t, id, n, refs).ref[c] = refs[c].id
                                     /\ NewRow(t, id, n, refs).meant[c] = refs[c].born
<1> DEFINE ref == [c \in Columns(t) |-> refs[c].id]
           meant == [c \in Columns(t) |-> refs[c].born]
           r == [key |-> <<t, id>>, rev |-> n, born |-> n, name |-> NULL, ref |-> ref, meant |-> meant]
<1>1. NewRow(t, id, n, refs) = r
  BY DEF NewRow
<1>2. ref \in [Columns(t) -> Ref] /\ meant \in [Columns(t) -> Ref]
  OBVIOUS
<1>3. \A c \in Columns(t) : ref[c] = refs[c].id /\ meant[c] = refs[c].born
  OBVIOUS
<1> HIDE DEF ref, meant
<1>4. r.key = <<t, id>> /\ r.rev = n /\ r.born = n /\ r.name = NULL /\ r.ref = ref /\ r.meant = meant
  OBVIOUS
<1>5. r = [key |-> r.key, rev |-> r.rev, born |-> r.born, name |-> r.name, ref |-> r.ref, meant |-> r.meant]
  OBVIOUS
<1> HIDE DEF r
<1>6. RowOK(r, n)
  <2>1. r.key[1] = t /\ r.key \in RowTables \X (Nat \ {0})
    BY <1>4
  <2> QED BY <1>2, <1>4, <1>5, <2>1 DEF RowOK
<1> QED BY <1>1, <1>3, <1>4, <1>6

\* A reference by w to a row of the table "to": it is right, and it is valid unless w was disturbed.
Names(w, ref, to) ==
    /\ ref.id \in Ref /\ ref.born \in Ref
    /\ w \in disturbed => ref.born = NULL
    /\ ref.id # NULL => /\ w \in disturbed \/ <<to, ref.id>> \in Keys(rows)
                        /\ \A q \in rows : q.key = <<to, ref.id>> => ref.born \in {q.born, NULL}

LEMMA NothingNames == \A w, to : Names(w, Nothing, to)
BY DEF Names, Nothing, Ref

\* This is what To is for: a watch knows ids, which are right unless it was disturbed.
LEMMA ToNames ==
    ASSUME IInv, NEW w \in Process, NEW h \in Hand(proc[w])
    PROVE  Names(w, To(w, h), h.key[1])
<1>1. RowOK(h, counter) /\ counter \in Nat
  BY DEF IInv, ProcInv, ProcOK, DataInv, RowsOK
<1>2. h.key = <<h.key[1], h.key[2]>> /\ h.key[2] \in Nat /\ h.born \in Nat
  BY <1>1 DEF RowOK
<1>3. To(w, h).id = h.key[2] /\ To(w, h).born = IF w \in disturbed THEN NULL ELSE h.born
  BY DEF To
<1>4. CASE w \in disturbed
  BY <1>2, <1>3, <1>4 DEF Names, Ref
<1>5. CASE w \notin disturbed
  <2>1. PICK p \in rows : Same(h, p)
    BY <1>5 DEF IInv, ProcInv, Undisturbed
  <2>2. p.key = h.key /\ p.born = h.born
    BY <2>1 DEF Same
  <2>3. \A q \in rows : q.key = h.key => q = p
    BY <2>2 DEF IInv, DataInv, RowsOK
  <2> QED BY <1>2, <1>3, <1>5, <2>2, <2>3 DEF Names, Ref, Keys
<1> QED BY <1>4, <1>5

\* What the foreign keys let in refers to the records it was meant to.
LEMMA ValidRefers ==
    ASSUME NEW S, NEW r, Valid(S, r),
           \A fk \in References(r), q \in S : q.key = Target(r, fk) => r.meant[fk.col] \in {q.born, NULL}
    PROVE  Refers(S, r)
<1> SUFFICES ASSUME NEW fk \in References(r)
             PROVE  \E q \in S : q.key = Target(r, fk) /\ r.meant[fk.col] \in {q.born, NULL}
  BY DEF Refers
<1>1. PICK q \in S : q.key = Target(r, fk)
  BY DEF Valid, Keys
<1> QED BY <1>1

\* The watch w remembers the record r which it has written.
LEMMA KeepingWrites ==
    ASSUME IInv, NEW w \in Process, proc[w].pc = "watch", NEW r, r \in rows', r.key[1] # "watches", RowOK(r, counter'),
           Grows(rows, counter, rows', counter'), UNCHANGED <<version, instance, old, disturbed>>,
           proc' = Keeping(w, r)
    PROVE  \E x : Writes(w, x)
<1> DEFINE x == Now(w, "watch", NULL, proc[w].held \cup {r})
<1>1. proc' = [proc EXCEPT ![w] = x]
  BY KeepingNow DEF IInv
<1>2. x.pc = "watch" /\ x.session = NULL /\ x.held = proc[w].held \cup {r}
  BY DEF Now
<1> HIDE DEF x
<1>3. Hand(x) = proc[w].held \cup {r}
  BY <1>2 DEF Hand
<1>4. ProcOK(proc[w], counter) /\ counter \in Nat /\ counter' \in Nat /\ counter <= counter'
  BY DEF IInv, ProcInv, DataInv, RowsOK, Grows, Commits
<1>5. \A h \in proc[w].held : RowOK(h, counter')
  BY <1>4, RowMore DEF ProcOK, Hand
<1>6. In(x.held, "watches") = In(proc[w].held, "watches")
  BY <1>2 DEF In
<1>7. ProcOK(x, counter')
  <2>1. \E h : In(x.held, "watches") = {h}
    BY <1>4, <1>6 DEF ProcOK
  <2>2. \A h \in Hand(x) : RowOK(h, counter')
    BY <1>3, <1>5
  <2> QED BY <1>2, <2>1, <2>2 DEF ProcOK
<1>8. w \notin disturbed' => Undisturbed(x, rows')
  <2> SUFFICES ASSUME w \notin disturbed, NEW h \in proc[w].held
               PROVE  \E q \in rows' : Same(h, q)
    BY <1>2, <1>3, SameSelf DEF Undisturbed
  <2>1. PICK p \in rows : Same(h, p)
    BY DEF IInv, ProcInv, Undisturbed, Hand
  <2>2. PICK q \in rows' : Same(p, q)
    BY DEF Grows, Lossless
  <2> QED BY <2>1, <2>2, SameTrans
<1> QED BY <1>1, <1>2, <1>7, <1>8 DEF Writes

\* A statement of w was refused, so w is disturbed; it goes on with what it has.
LEMMA RefusedWrites ==
    ASSUME IInv, NEW w \in Process, proc[w].pc = "watch", version >= 2,
           Goto(w, "refused"), UNCHANGED <<database, old, disturbed>>, w \in disturbed
    PROVE  \E x : Writes(w, x)
<1> DEFINE x == Now(w, "refused", proc[w].session, proc[w].held)
<1>1. proc' = [proc EXCEPT ![w] = x]
  BY GotoNow DEF IInv
<1>2. x.pc = "refused" /\ x.session = proc[w].session /\ x.held = proc[w].held
  BY DEF Now
<1> HIDE DEF x
<1>3. ProcOK(proc[w], counter)
  BY DEF IInv, ProcInv
<1>4. UNCHANGED <<rows, counter, version, instance>>
  BY DEF database
<1>5. ProcOK(x, counter')
  BY <1>2, <1>3, <1>4 DEF ProcOK, Hand
<1>6. Grows(rows, counter, rows', counter')
  BY <1>4, SameSelf DEF IInv, DataInv, Grows, Commits, Lossless, RowsOK
<1> QED BY <1>1, <1>2, <1>4, <1>5, <1>6 DEF Writes

LEMMA InsertWrites ==
    ASSUME IInv, NEW w \in Process, proc[w].pc = "watch", version >= 2,
           NEW t \in {"processes", "denials", "orphans"}, NEW refs,
           \A fk \in ForeignKeys : fk.from = t => Names(w, refs[fk.col], fk.to),
           Insert(w, t, refs)
    PROVE  \E x : Writes(w, x)
<1> DEFINE r == NewRow(t, NextId(rows, t), counter + 1, refs)
<1>1. RowsOK(rows, counter) /\ RevsOK(rows) /\ counter \in Nat /\ counter + 1 \in Nat
  BY DEF IInv, DataInv, RowsOK
<1>2. t \in RowTables
  BY DEF RowTables, V2Tables
<1>3. \A c \in Columns(t) : refs[c].id \in Ref /\ refs[c].born \in Ref
  BY DEF Columns, Names
<1>4. /\ RowOK(r, counter + 1)
      /\ r.key = <<t, NextId(rows, t)>> /\ r.rev = counter + 1
      /\ \A c \in Columns(t) : r.ref[c] = refs[c].id /\ r.meant[c] = refs[c].born
  BY <1>1, <1>2, <1>3, Fresh, NewRowOK
<1>5. \/ Valid(rows, r) /\ Store(rows \cup {r}, counter + 1, Keeping(w, r))
      \/ ~Valid(rows, r) /\ Goto(w, "refused") /\ UNCHANGED <<database, old, disturbed>>
  BY DEF Insert
<1> HIDE DEF r
<1>6. r.key[1] = t /\ r.key \notin Keys(rows)
  <2>1. NextId(rows, t) \in Nat
    BY <1>1, Fresh
  <2> QED BY <1>1, <1>4, <2>1, Fresh
<1>7. ASSUME NEW fk \in References(r)
      PROVE  /\ w \in disturbed \/ Target(r, fk) \in Keys(rows)
             /\ \A q \in rows : q.key = Target(r, fk) => r.meant[fk.col] \in {q.born, NULL}
  <2>1. fk \in ForeignKeys /\ fk.from = t /\ r.ref[fk.col] # NULL
    BY <1>6 DEF References
  <2>2. fk.col \in Columns(t)
    BY <2>1 DEF Columns
  <2>3. Names(w, refs[fk.col], fk.to) /\ r.ref[fk.col] = refs[fk.col].id /\ r.meant[fk.col] = refs[fk.col].born
    BY <1>4, <2>1, <2>2
  <2> QED BY <2>1, <2>3 DEF Names, Target
<1>8. CASE Valid(rows, r) /\ Store(rows \cup {r}, counter + 1, Keeping(w, r))
  <2>1. Refers(rows, r)
    BY <1>7, <1>8, ValidRefers
  <2>2. Refers(rows \cup {r}, r)
    BY <2>1, RefersMore
  <2>3. Grows(rows, counter, rows \cup {r}, counter + 1)
    BY <1>1, <1>4, <1>6, <2>2, AddRow
  <2> QED BY <1>4, <1>6, <1>8, <2>3, KeepingWrites DEF Store
<1>9. CASE ~Valid(rows, r) /\ Goto(w, "refused") /\ UNCHANGED <<database, old, disturbed>>
  BY <1>7, <1>9, RefusedWrites DEF Valid
<1> QED BY <1>5, <1>8, <1>9

LEMMA HeldNames ==
    ASSUME IInv, NEW w \in Process, NEW t, NEW h \in Holding(w, t)
    PROVE  Names(w, To(w, h), t)
BY ToNames DEF Holding, In, Hand

LEMMA InsertProcessWrites ==
    ASSUME IInv, NEW w \in Process, version >= 2, NEW h \in Holding(w, "runs"), NEW up \in Holding(w, "processes") \cup {NULL},
           InsertProcess(w, h, up)
    PROVE  \E x : Writes(w, x)
<1> DEFINE refs == [run_id |-> To(w, h), parent_process_id |-> IF up = NULL THEN Nothing ELSE To(w, up)]
<1>1. Names(w, refs["run_id"], "runs") /\ Names(w, refs["parent_process_id"], "processes")
  BY HeldNames, NothingNames
<1> HIDE DEF refs
<1>2. \A fk \in ForeignKeys : fk.from = "processes" => Names(w, refs[fk.col], fk.to)
  BY <1>1 DEF ForeignKeys, NoAction, SetNull, Cascade
<1>3. proc[w].pc = "watch" /\ Insert(w, "processes", refs)
  BY DEF InsertProcess, refs
<1> QED BY <1>2, <1>3, InsertWrites

LEMMA InsertDenialWrites ==
    ASSUME IInv, NEW w \in Process, version >= 2, NEW h \in Holding(w, "processes"), InsertDenial(w, h)
    PROVE  \E x : Writes(w, x)
<1> DEFINE run == IF w \in disturbed THEN [id |-> h.ref["run_id"], born |-> NULL]
                  ELSE [id |-> h.ref["run_id"], born |-> h.meant["run_id"]]
           refs == [process_id |-> To(w, h), run_id |-> run]
<1>1. Names(w, To(w, h), "processes")
  BY HeldNames
<1>2. Names(w, run, "runs")
  <2> DEFINE fk == [from |-> "processes", col |-> "run_id", to |-> "runs"]
  <2>1. h \in Hand(proc[w]) /\ h.key[1] = "processes"
    BY DEF Holding, In, Hand
  <2>2. fk \in ForeignKeys /\ "run_id" \in Columns("processes")
    <3>1. fk \in ForeignKeys
      BY DEF ForeignKeys, Cascade
    <3>2. fk.from = "processes" /\ fk.col = "run_id"
      OBVIOUS
    <3> HIDE DEF fk
    <3> QED BY <3>1, <3>2 DEF Columns
  <2>3. h.ref["run_id"] \in Ref /\ h.meant["run_id"] \in Ref
    BY <2>1, <2>2 DEF IInv, ProcInv, ProcOK, RowOK
  <2>4. CASE w \in disturbed
    BY <2>3, <2>4 DEF Names, Ref
  <2>5. CASE w \notin disturbed
    <3>1. SUFFICES ASSUME h.ref["run_id"] # NULL
                   PROVE  /\ <<"runs", h.ref["run_id"]>> \in Keys(rows)
                          /\ \A q \in rows : q.key = <<"runs", h.ref["run_id"]>> => h.meant["run_id"] \in {q.born, NULL}
      BY <2>3, <2>5 DEF Names
    <3>2. PICK p \in rows : Same(h, p)
      BY <2>1, <2>5 DEF IInv, ProcInv, Undisturbed
    <3>3. p.key[1] = "processes" /\ p.ref["run_id"] = h.ref["run_id"] /\ p.meant["run_id"] = h.meant["run_id"]
      BY <2>1, <2>2, <3>1, <3>2 DEF Same
    <3>4. fk \in References(p) /\ Target(p, fk) = <<"runs", h.ref["run_id"]>> /\ fk.col = "run_id"
      BY <2>2, <3>1, <3>3 DEF References, Target
    <3> HIDE DEF fk
    <3>5. Refers(rows, p)
      BY <3>2 DEF IInv, DataInv, RowsOK
    <3>6. PICK r \in rows : r.key = <<"runs", h.ref["run_id"]>> /\ p.meant["run_id"] \in {r.born, NULL}
      BY <3>4, <3>5 DEF Refers
    <3>7. \A q \in rows : q.key = r.key => q = r
      BY DEF IInv, DataInv, RowsOK
    <3> QED BY <3>3, <3>6, <3>7 DEF Keys
  <2> QED BY <2>4, <2>5
<1>3. refs["process_id"] = To(w, h) /\ refs["run_id"] = run
  OBVIOUS
<1> HIDE DEF refs, run
<1>4. \A fk \in ForeignKeys : fk.from = "denials" => Names(w, refs[fk.col], fk.to)
  BY <1>1, <1>2, <1>3 DEF ForeignKeys, NoAction, SetNull, Cascade
<1>5. proc[w].pc = "watch" /\ Insert(w, "denials", refs)
  BY DEF InsertDenial, refs, run
<1> QED BY <1>4, <1>5, InsertWrites

LEMMA OwnWatch ==
    ASSUME IInv, NEW w \in Process, proc[w].pc \in {"watch", "refused"}
    PROVE  (CHOOSE h \in Holding(w, "watches") : TRUE) \in Holding(w, "watches")
BY DEF IInv, ProcInv, ProcOK, Holding

LEMMA InsertOrphanWrites ==
    ASSUME IInv, NEW w \in Process, version >= 2, InsertOrphan(w)
    PROVE  \E x : Writes(w, x)
<1> DEFINE refs == [watch_id |-> To(w, CHOOSE h \in Holding(w, "watches") : TRUE)]
<1>1. proc[w].pc = "watch" /\ Insert(w, "orphans", refs)
  BY DEF InsertOrphan
<1>2. Names(w, refs["watch_id"], "watches")
  BY <1>1, OwnWatch, HeldNames
<1> HIDE DEF refs
<1>3. \A fk \in ForeignKeys : fk.from = "orphans" => Names(w, refs[fk.col], fk.to)
  BY <1>2 DEF ForeignKeys, NoAction, SetNull, Cascade
<1> QED BY <1>1, <1>3, InsertWrites

-----------------------------------------------------------------------------
(* Updates *)

LEMMA RowsSelf ==
    ASSUME NEW S, NEW n, RowsOK(S, n), RevsOK(S)
    PROVE  Grows(S, n, S, n)
BY SameSelf DEF Grows, Commits, Lossless, RowsOK

LEMMA StampOne ==
    ASSUME NEW S, NEW n, RowsOK(S, n), RevsOK(S), NEW h \in S
    PROVE  Grows(S, n, (S \ {h}) \cup {[h EXCEPT !.rev = n + 1]}, n + 1)
<1> DEFINE g == [h EXCEPT !.rev = n + 1]
<1>1. n \in Nat /\ n + 1 \in Nat /\ n <= n + 1 /\ n + 1 \in 0..(n + 1) /\ RowOK(h, n) /\ Refers(S, h)
  BY DEF RowsOK
<1>2. RowOK(g, n + 1) /\ g.rev = n + 1 /\ g.ref = h.ref /\ g.meant = h.meant /\ Same(h, g)
  BY <1>1, StampRow
<1> HIDE DEF g
<1>3. g.key = h.key
  BY <1>2 DEF Same
<1>4. Refers(S, g)
  BY <1>1, <1>2, <1>3 DEF Refers, References, Target
<1> QED BY <1>2, <1>4, ChangeRow DEF g

\* An UPDATE of what has the key k.
LEMMA StampKey ==
    ASSUME NEW S, NEW n, RowsOK(S, n), RevsOK(S), NEW k, NEW hit, hit = {r \in S : r.key = k}
    PROVE  Grows(S, n, (S \ hit) \cup {[r EXCEPT !.rev = n + 1] : r \in hit}, n + Cardinality(hit))
<1> DEFINE stamp(r) == [r EXCEPT !.rev = n + 1]
<1>1. n \in Nat
  BY DEF RowsOK
<1>2. CASE hit = {}
  <2>1. (S \ hit) \cup {stamp(r) : r \in hit} = S
    BY <1>2
  <2>2. n + Cardinality(hit) = n
    BY <1>1, <1>2, FS_EmptySet
  <2> QED BY <2>1, <2>2, RowsSelf
<1>3. ASSUME NEW h \in hit
      PROVE  Grows(S, n, (S \ hit) \cup {stamp(r) : r \in hit}, n + Cardinality(hit))
  <2>1. hit = {h}
    BY DEF RowsOK
  <2>2. (S \ hit) \cup {stamp(r) : r \in hit} = (S \ {h}) \cup {stamp(h)}
    <3> HIDE DEF stamp
    <3> QED BY <2>1
  <2>3. Cardinality(hit) = 1
    BY <2>1, FS_Singleton
  <2>4. Grows(S, n, (S \ {h}) \cup {stamp(h)}, n + 1)
    BY StampOne
  <2> QED BY <2>2, <2>3, <2>4
<1> QED BY <1>2, <1>3

\* A write that leaves the watch where it is, with the session s pending.
LEMMA StayingWrites ==
    ASSUME IInv, NEW w \in Process, proc[w].pc \in {"watch", "refused"}, NEW s,
           s # NULL => RowOK(s, counter') /\ s.key[1] = "sessions" /\ \E q \in rows' : Same(s, q),
           Grows(rows, counter, rows', counter'), UNCHANGED <<version, instance, old, disturbed>>,
           proc' = [proc EXCEPT ![w].session = s]
    PROVE  \E x : Writes(w, x)
<1> DEFINE x == Now(w, proc[w].pc, s, proc[w].held)
<1>1. proc' = [proc EXCEPT ![w] = x]
  BY SessionNow DEF IInv
<1>2. x.pc = proc[w].pc /\ x.session = s /\ x.held = proc[w].held
  BY DEF Now
<1> HIDE DEF x
<1>3. ProcOK(proc[w], counter) /\ counter \in Nat /\ counter' \in Nat /\ counter <= counter'
  BY DEF IInv, ProcInv, DataInv, RowsOK, Grows, Commits
<1>4. \A h \in proc[w].held : RowOK(h, counter')
  BY <1>3, RowMore DEF ProcOK, Hand
<1>5. ProcOK(x, counter')
  BY <1>2, <1>3, <1>4 DEF ProcOK, Hand
<1>6. w \notin disturbed' => Undisturbed(x, rows')
  <2> SUFFICES ASSUME w \notin disturbed, NEW h \in proc[w].held
               PROVE  x.pc # "refused" /\ \E q \in rows' : Same(h, q)
    BY <1>2 DEF Undisturbed, Hand, IInv, ProcInv
  <2>1. proc[w].pc # "refused"
    BY DEF IInv, ProcInv, Undisturbed
  <2>2. PICK p \in rows : Same(h, p)
    BY DEF IInv, ProcInv, Undisturbed, Hand
  <2>3. PICK q \in rows' : Same(p, q)
    BY DEF Grows, Lossless
  <2> QED BY <1>2, <2>1, <2>2, <2>3, SameTrans
<1> QED BY <1>1, <1>2, <1>5, <1>6 DEF Writes

LEMMA UpdateWrites ==
    ASSUME IInv, NEW w \in Process, version >= 2, proc[w].session = NULL, Update(w)
    PROVE  \E x : Writes(w, x)
<1>1. proc[w].pc \in {"watch", "refused"}
  BY DEF Update
<1>2. PICK h \in proc[w].held : Touch(w, h)
  BY DEF Update
<1> DEFINE hit == {r \in rows : r.key = h.key}
<1>3. Store((rows \ hit) \cup {[r EXCEPT !.rev = counter + 1] : r \in hit}, counter + Cardinality(hit), proc)
  BY <1>2 DEF Touch
<1>4. Grows(rows, counter, (rows \ hit) \cup {[r EXCEPT !.rev = counter + 1] : r \in hit}, counter + Cardinality(hit))
  <2> HIDE DEF hit
  <2> QED BY StampKey DEF IInv, DataInv, hit
<1> HIDE DEF hit
<1>5. Grows(rows, counter, rows', counter')
  BY <1>3, <1>4 DEF Store
<1>6. proc' = [proc EXCEPT ![w].session = NULL]
  <2>1. proc' = proc
    BY <1>3 DEF Store
  <2>2. [proc EXCEPT ![w].session = NULL] = proc
    <3>1. [proc[w] EXCEPT !.session = NULL] = proc[w]
      BY DEF IInv, OpenInv
    <3> QED BY <3>1 DEF IInv, OpenInv
  <2> QED BY <2>1, <2>2
<1>7. UNCHANGED <<version, instance, old, disturbed>>
  BY <1>3 DEF Store
<1> QED BY <1>1, <1>5, <1>6, <1>7, StayingWrites

LEMMA EndWatchWrites ==
    ASSUME IInv, NEW w \in Process, version >= 2, EndWatch(w)
    PROVE  \E x : Writes(w, x)
<1> DEFINE hit == {r \in rows : \E h \in Holding(w, "watches") : r.key = h.key}
<1>1. /\ proc[w].pc \in {"watch", "refused"}
      /\ counter' = counter + Cardinality(hit)
      /\ rows' = (rows \ hit) \cup {[r EXCEPT !.rev = counter + 1] : r \in hit}
      /\ proc' = [proc EXCEPT ![w] = Off]
      /\ disturbed' = disturbed \ {w}
      /\ UNCHANGED <<version, instance, old>>
  BY DEF EndWatch
<1>2. PICK h : Holding(w, "watches") = {h}
  BY <1>1 DEF IInv, ProcInv, ProcOK, Holding
<1>3. hit = {r \in rows : r.key = h.key}
  BY <1>2
<1> HIDE DEF hit
<1>4. Grows(rows, counter, rows', counter')
  BY <1>1, <1>3, StampKey DEF IInv, DataInv
<1>5. Off.pc = "off" /\ Off.held = {} /\ Off.session = NULL
  BY DEF Off
<1>6. ProcOK(Off, counter') /\ Undisturbed(Off, rows')
  BY <1>5 DEF ProcOK, Undisturbed, Hand
<1> QED BY <1>1, <1>4, <1>5, <1>6 DEF Writes

LEMMA BeginWatchWrites ==
    ASSUME IInv, NEW w \in Process, version >= 2, BeginWatch(w)
    PROVE  \E x : Writes(w, x)
<1> DEFINE r == NewRow("watches", NextId(rows, "watches"), counter + 1, <<>>)
           x == Now(w, "watch", proc[w].session, {r})
<1>1. RowsOK(rows, counter) /\ RevsOK(rows) /\ counter \in Nat /\ counter + 1 \in Nat
  BY DEF IInv, DataInv, RowsOK
<1>2. Columns("watches") = {} /\ "watches" \in RowTables
  BY DEF Columns, ForeignKeys, NoAction, SetNull, Cascade, RowTables, V2Tables
<1>3. RowOK(r, counter + 1) /\ r.key = <<"watches", NextId(rows, "watches")>> /\ r.rev = counter + 1
  <2>1. NextId(rows, "watches") \in Nat \ {0}
    BY <1>1, Fresh
  <2> QED BY <1>1, <1>2, <2>1, NewRowOK
<1>4. /\ proc[w].pc = "begin"
      /\ Store(rows \cup {r}, counter + 1, [proc EXCEPT ![w].pc = "watch", ![w].held = {r}])
  BY DEF BeginWatch
<1> HIDE DEF r
<1>5. proc' = [proc EXCEPT ![w] = x]
  BY <1>4, BeginNow DEF IInv, Store
<1>6. x.pc = "watch" /\ x.session = NULL /\ x.held = {r}
  BY <1>4 DEF Now, IInv, ProcInv, ProcOK
<1> HIDE DEF x
<1>7. Grows(rows, counter, rows \cup {r}, counter + 1)
  <2>1. r.key[1] = "watches"
    BY <1>3
  <2>2. r.key \notin Keys(rows)
    <3>1. NextId(rows, "watches") \in Nat
      BY <1>1, Fresh
    <3> QED BY <1>1, <1>3, <3>1, Fresh
  <2>3. Refers(rows \cup {r}, r)
    BY <1>2, <2>1 DEF Refers, References, Columns
  <2> QED BY <1>1, <1>3, <2>1, <2>2, <2>3, AddRow
<1>8. Hand(x) = {r}
  BY <1>6 DEF Hand
<1>9. ProcOK(x, counter')
  <2>1. In(x.held, "watches") = {r}
    BY <1>3, <1>6 DEF In
  <2> QED BY <1>3, <1>4, <1>6, <1>8, <2>1 DEF ProcOK, Store
<1>10. Undisturbed(x, rows')
  BY <1>4, <1>6, <1>8, SameSelf DEF Undisturbed, Store
<1> QED BY <1>4, <1>5, <1>6, <1>7, <1>9, <1>10 DEF Writes, Store

LEMMA EnsureSessionWrites ==
    ASSUME IInv, NEW w \in Process, version >= 2, NEW s \in Session, EnsureSession(w, s)
    PROVE  \E x : Writes(w, x)
<1> DEFINE there == {r \in In(rows, "sessions") : r.name = s}
           bare == NewRow("sessions", NextId(rows, "sessions"), counter + 1, <<>>)
           new == [bare EXCEPT !.name = s]
           stamp(r) == [r EXCEPT !.rev = counter + 1]
<1>1. RowsOK(rows, counter) /\ RevsOK(rows) /\ counter \in Nat /\ counter + 1 \in Nat
  BY DEF IInv, DataInv, RowsOK
<1>2. proc[w].pc = "watch"
  BY DEF EnsureSession
<1>3. PICK r \in IF there = {} THEN {new} ELSE there :
         Store((rows \ there) \cup {stamp(r)}, counter + 1, [proc EXCEPT ![w].session = r])
  BY DEF EnsureSession, Ensured
<1>4. Grows(rows, counter, (rows \ there) \cup {stamp(r)}, counter + 1)
      /\ RowOK(r, counter + 1) /\ r.key[1] = "sessions" /\ Same(r, stamp(r))
  <2>1. CASE there = {}
    <3>1. Columns("sessions") = {} /\ "sessions" \in RowTables
      BY DEF Columns, ForeignKeys, NoAction, SetNull, Cascade, RowTables, V2Tables
    <3>2. RowOK(bare, counter + 1) /\ bare.key = <<"sessions", NextId(rows, "sessions")>> /\ bare.rev = counter + 1
      <4>1. NextId(rows, "sessions") \in Nat \ {0}
        BY <1>1, Fresh
      <4> QED BY <1>1, <3>1, <4>1, NewRowOK
    <3> HIDE DEF bare
    <3>3. new = [key |-> bare.key, rev |-> counter + 1, born |-> bare.born, name |-> s, ref |-> bare.ref, meant |-> bare.meant]
      BY <3>2 DEF RowOK
    <3>4. r = new
      BY <1>3, <2>1
    <3> HIDE DEF new
    <3>5. r.key = bare.key /\ r.rev = counter + 1 /\ r.born = bare.born /\ r.name = s /\ r.ref = bare.ref /\ r.meant = bare.meant
      BY <3>3, <3>4
    <3>6. r = [key |-> r.key, rev |-> r.rev, born |-> r.born, name |-> r.name, ref |-> r.ref, meant |-> r.meant]
      BY <3>3, <3>4, <3>5
    <3>7. RowOK(r, counter + 1) /\ r.key[1] = "sessions"
      BY <3>2, <3>5, <3>6 DEF RowOK
    <3>8. stamp(r) = r
      BY <3>5, <3>6
    <3>9. r.key \notin Keys(rows)
      <4>1. NextId(rows, "sessions") \in Nat
        BY <1>1, Fresh
      <4> QED BY <1>1, <3>2, <3>5, <4>1, Fresh
    <3>10. Refers(rows \cup {r}, r)
      BY <3>1, <3>7 DEF Refers, References, Columns
    <3>11. \A q \in In(rows, "sessions") : q.name # r.name
      BY <2>1, <3>5
    <3>12. Grows(rows, counter, rows \cup {r}, counter + 1)
      BY <1>1, <3>5, <3>7, <3>9, <3>10, <3>11, AddRow
    <3>13. (rows \ there) \cup {stamp(r)} = rows \cup {r}
      BY <2>1, <3>8
    <3> QED BY <3>7, <3>8, <3>12, <3>13, SameSelf
  <2>2. CASE there # {}
    <3>1. r \in there
      BY <1>3, <2>2
    <3>2. there = {r}
      BY <1>1, <3>1 DEF RowsOK
    <3>3. r \in rows /\ r.key[1] = "sessions"
      BY <3>1 DEF In
    <3>4. RowOK(r, counter)
      BY <1>1, <3>3 DEF RowsOK
    <3>5. RowOK(r, counter + 1)
      BY <1>1, <3>4, RowMore
    <3>6. Same(r, stamp(r))
      BY <1>1, <3>5, StampRow
    <3> HIDE DEF there, stamp
    <3>7. (rows \ there) \cup {stamp(r)} = (rows \ {r}) \cup {stamp(r)}
      BY <3>2
    <3>8. Grows(rows, counter, (rows \ {r}) \cup {stamp(r)}, counter + 1)
      BY <1>1, <3>3, StampOne DEF stamp
    <3> QED BY <3>3, <3>5, <3>6, <3>7, <3>8
  <2> QED BY <2>1, <2>2
<1> HIDE DEF there, new, stamp
<1>5. \E q \in rows' : Same(r, q)
  BY <1>3, <1>4 DEF Store
<1> QED BY <1>2, <1>3, <1>4, <1>5, StayingWrites DEF Store

LEMMA PendingNames ==
    ASSUME IInv, NEW w \in Process
    PROVE  Names(w, Pending(w), "sessions")
<1>1. CASE proc[w].session = NULL
  BY <1>1, NothingNames DEF Pending
<1>2. CASE proc[w].session # NULL
  <2>1. proc[w].session \in Hand(proc[w]) /\ proc[w].session.key[1] = "sessions"
    BY <1>2 DEF Hand, IInv, ProcInv, ProcOK
  <2>2. Names(w, To(w, proc[w].session), "sessions")
    BY <2>1, ToNames
  <2> QED BY <1>2, <2>2 DEF Pending
<1> QED BY <1>1, <1>2

LEMMA SetRunSessionWrites ==
    ASSUME IInv, NEW w \in Process, version >= 2, NEW h \in Holding(w, "runs"), SetRunSession(w, h)
    PROVE  \E x : Writes(w, x)
<1> DEFINE hit == {r \in rows : r.key = h.key /\ r.ref["session_id"] = NULL}
           with(r) == [r EXCEPT !.rev = counter + 1, !.ref["session_id"] = Pending(w).id, !.meant["session_id"] = Pending(w).born]
           key == [from |-> "runs", col |-> "session_id", to |-> "sessions"]
<1>1. RowsOK(rows, counter) /\ RevsOK(rows) /\ counter \in Nat /\ counter + 1 \in Nat /\ counter <= counter + 1
  BY DEF IInv, DataInv, RowsOK
<1>2. proc[w].pc = "watch" /\ h.key[1] = "runs"
  BY DEF SetRunSession, Holding, In
<1>3. \/ /\ \A r \in hit : Valid(rows, with(r))
         /\ Store((rows \ hit) \cup {with(r) : r \in hit}, counter + Cardinality(hit), [proc EXCEPT ![w].session = NULL])
      \/ (\E r \in hit : ~Valid(rows, with(r))) /\ Goto(w, "refused") /\ UNCHANGED <<database, old, disturbed>>
  BY DEF SetRunSession
<1>4. "session_id" \in Columns("runs") /\ \A fk \in ForeignKeys : fk.from = "runs" /\ fk.col = "session_id" => fk.to = "sessions"
  <2>1. key \in ForeignKeys
    BY DEF ForeignKeys, SetNull
  <2>2. key.from = "runs" /\ key.col = "session_id"
    OBVIOUS
  <2> HIDE DEF key
  <2>3. "session_id" \in Columns("runs")
    BY <2>1, <2>2 DEF Columns
  <2> QED BY <2>3 DEF ForeignKeys, NoAction, SetNull, Cascade
<1>5. Names(w, Pending(w), "sessions")
  BY PendingNames
<1>6. ASSUME NEW r \in hit
      PROVE  /\ RowOK(with(r), counter + 1) /\ with(r).rev = counter + 1 /\ Same(r, with(r))
             /\ \A fk \in References(with(r)) :
                  /\ w \in disturbed \/ Target(with(r), fk) \in Keys(rows)
                  /\ \A q \in rows : q.key = Target(with(r), fk) => with(r).meant[fk.col] \in {q.born, NULL}
  <2> DEFINE g == with(r)
             ref == [r.ref EXCEPT !["session_id"] = Pending(w).id]
             meant == [r.meant EXCEPT !["session_id"] = Pending(w).born]
             one == [r EXCEPT !.rev = counter + 1]
             two == [one EXCEPT !.ref["session_id"] = Pending(w).id]
  <2>1. RowOK(r, counter) /\ Refers(rows, r) /\ r.key[1] = "runs" /\ r.ref["session_id"] = NULL
    BY <1>1, <1>2 DEF RowsOK
  <2>2. g = [key |-> r.key, rev |-> counter + 1, born |-> r.born, name |-> r.name, ref |-> ref, meant |-> meant]
    <3>1. g = [two EXCEPT !.meant["session_id"] = Pending(w).born]
      OBVIOUS
    <3>2. one = [key |-> r.key, rev |-> counter + 1, born |-> r.born, name |-> r.name, ref |-> r.ref, meant |-> r.meant]
      BY <2>1 DEF RowOK
    <3> HIDE DEF one, with
    <3>3. two = [key |-> r.key, rev |-> counter + 1, born |-> r.born, name |-> r.name, ref |-> ref, meant |-> r.meant]
      BY <3>2
    <3> HIDE DEF two, ref
    <3> QED BY <3>1, <3>3
  <2>3. /\ ref \in [Columns("runs") -> Ref] /\ meant \in [Columns("runs") -> Ref]
        /\ ref["session_id"] = Pending(w).id /\ meant["session_id"] = Pending(w).born
        /\ \A c \in Columns("runs") \ {"session_id"} : ref[c] = r.ref[c] /\ meant[c] = r.meant[c]
    <3>1. r.ref \in [Columns("runs") -> Ref] /\ r.meant \in [Columns("runs") -> Ref]
      BY <2>1 DEF RowOK
    <3>2. Pending(w).id \in Ref /\ Pending(w).born \in Ref
      BY <1>5 DEF Names
    <3> QED BY <1>4, <3>1, <3>2
  <2> HIDE DEF ref, meant, with
  <2>4. g.key = r.key /\ g.rev = counter + 1 /\ g.born = r.born /\ g.name = r.name /\ g.ref = ref /\ g.meant = meant
    BY <2>2
  <2>5. g = [key |-> g.key, rev |-> g.rev, born |-> g.born, name |-> g.name, ref |-> g.ref, meant |-> g.meant]
    BY <2>2, <2>4
  <2> HIDE DEF g
  <2>6. RowOK(g, counter + 1)
    BY <1>1, <2>1, <2>3, <2>4, <2>5 DEF RowOK
  <2>7. Same(r, g)
    BY <2>1, <2>3, <2>4 DEF Same
  <2>8. ASSUME NEW fk \in References(g)
        PROVE  /\ w \in disturbed \/ Target(g, fk) \in Keys(rows)
               /\ \A q \in rows : q.key = Target(g, fk) => g.meant[fk.col] \in {q.born, NULL}
    <3>1. fk \in ForeignKeys /\ fk.from = "runs" /\ g.ref[fk.col] # NULL /\ fk.col \in Columns("runs")
      BY <2>1, <2>4 DEF References, Columns
    <3>2. CASE fk.col = "session_id"
      <4>1. g.ref[fk.col] = Pending(w).id /\ g.meant[fk.col] = Pending(w).born /\ fk.to = "sessions"
        BY <1>4, <2>3, <2>4, <3>1, <3>2
      <4> QED BY <1>5, <3>1, <4>1 DEF Names, Target
    <3>3. CASE fk.col # "session_id"
      <4>1. g.ref[fk.col] = r.ref[fk.col] /\ g.meant[fk.col] = r.meant[fk.col]
        BY <2>3, <2>4, <3>1, <3>3
      <4>2. fk \in References(r) /\ Target(r, fk) = Target(g, fk)
        BY <2>1, <3>1, <4>1 DEF References, Target
      <4>3. PICK p \in rows : p.key = Target(r, fk) /\ r.meant[fk.col] \in {p.born, NULL}
        BY <2>1, <4>2 DEF Refers
      <4>4. \A q \in rows : q.key = p.key => q = p
        BY <1>1 DEF RowsOK
      <4> QED BY <4>1, <4>2, <4>3, <4>4 DEF Keys
    <3> QED BY <3>2, <3>3
  <2> QED BY <2>4, <2>6, <2>7, <2>8 DEF g
<1> HIDE DEF with
<1>7. CASE /\ \A r \in hit : Valid(rows, with(r))
           /\ Store((rows \ hit) \cup {with(r) : r \in hit}, counter + Cardinality(hit), [proc EXCEPT ![w].session = NULL])
  <2>1. Grows(rows, counter, (rows \ hit) \cup {with(r) : r \in hit}, counter + Cardinality(hit))
    <3>1. CASE hit = {}
      <4>1. (rows \ hit) \cup {with(r) : r \in hit} = rows
        BY <3>1
      <4>2. counter + Cardinality(hit) = counter
        BY <1>1, <3>1, FS_EmptySet
      <4> QED BY <1>1, <4>1, <4>2, RowsSelf
    <3>2. ASSUME NEW r \in hit
          PROVE  Grows(rows, counter, (rows \ hit) \cup {with(q) : q \in hit}, counter + Cardinality(hit))
      <4>1. hit = {r}
        BY <1>1 DEF RowsOK
      <4>2. (rows \ hit) \cup {with(q) : q \in hit} = (rows \ {r}) \cup {with(r)}
        <5> HIDE DEF hit
        <5> QED BY <4>1
      <4>5. Cardinality(hit) = 1
        <5> HIDE DEF hit
        <5> QED BY <4>1, FS_Singleton
      <4>3. Refers(rows, with(r))
        BY <1>6, <1>7, ValidRefers
      <4>4. Grows(rows, counter, (rows \ {r}) \cup {with(r)}, counter + 1)
        BY <1>1, <1>6, <4>3, ChangeRow
      <4> QED BY <4>2, <4>4, <4>5
    <3> QED BY <3>1, <3>2
  <2> HIDE DEF hit
  <2> QED BY <1>2, <1>7, <2>1, StayingWrites DEF Store
<1>8. CASE (\E r \in hit : ~Valid(rows, with(r))) /\ Goto(w, "refused") /\ UNCHANGED <<database, old, disturbed>>
  <2>1. w \in disturbed
    <3> HIDE DEF hit
    <3> QED BY <1>6, <1>8 DEF Valid
  <2> QED BY <1>2, <1>8, <2>1, RefusedWrites
<1> QED BY <1>3, <1>7, <1>8

-----------------------------------------------------------------------------
(* InsertRun *)

\* INSERT OR IGNORE of a profile.
Texts(hash) ==
    IF hash = NULL \/ <<"profiles", hash>> \in Keys(rows) THEN {}
    ELSE {NewRow("profiles", hash, counter + 1, <<>>)}

LEMMA TextsGrow ==
    ASSUME RowsOK(rows, counter), RevsOK(rows), NEW hash \in Profile \cup {NULL}
    PROVE  /\ Grows(rows, counter, rows \cup Texts(hash), counter + Cardinality(Texts(hash)))
           /\ \A r \in Texts(hash) : r.key[1] = "profiles"
           /\ hash # NULL => <<"profiles", hash>> \in Keys(rows \cup Texts(hash))
<1> DEFINE r == NewRow("profiles", hash, counter + 1, <<>>)
<1>1. counter \in Nat /\ counter + 1 \in Nat
  BY DEF RowsOK
<1>2. CASE hash = NULL \/ <<"profiles", hash>> \in Keys(rows)
  <2>1. Texts(hash) = {} /\ rows \cup Texts(hash) = rows
    BY <1>2 DEF Texts
  <2>2. counter + Cardinality(Texts(hash)) = counter
    BY <1>1, <2>1, FS_EmptySet
  <2> QED BY <1>2, <2>1, <2>2, RowsSelf
<1>3. CASE hash # NULL /\ <<"profiles", hash>> \notin Keys(rows)
  <2>1. Texts(hash) = {r}
    BY <1>3 DEF Texts
  <2>2. Columns("profiles") = {} /\ "profiles" \in RowTables
    BY DEF Columns, ForeignKeys, NoAction, SetNull, Cascade, RowTables, V2Tables
  <2>3. hash \in Nat \ {0}
    BY <1>3, ProfileAssumption
  <2>4. RowOK(r, counter + 1) /\ r.key = <<"profiles", hash>> /\ r.rev = counter + 1
    BY <1>1, <2>2, <2>3, NewRowOK
  <2> HIDE DEF r
  <2>5. r.key[1] = "profiles" /\ r.key \notin Keys(rows)
    BY <1>3, <2>4
  <2>6. Refers(rows \cup {r}, r)
    BY <2>2, <2>5 DEF Refers, References, Columns
  <2>7. Grows(rows, counter, rows \cup {r}, counter + 1)
    BY <2>4, <2>5, <2>6, AddRow
  <2>8. Cardinality(Texts(hash)) = 1
    BY <2>1, FS_Singleton
  <2> QED BY <2>1, <2>4, <2>5, <2>7, <2>8 DEF Keys
<1> QED BY <1>2, <1>3

\* The reference of a variable to its run.
OfRun(run, n) == [run_id |-> [id |-> run.key[2], born |-> n]]

\* The declared environment variables of the run in S, which was written at revision n.
LEMMA EnvGrow ==
    ASSUME NEW S, NEW n, RowsOK(S, n), RevsOK(S), NEW run \in S, run.key[1] = "runs", run.born = n,
           NEW id \in Nat \ {0}, \A i \in Nat : id <= i => <<"run_env", i>> \notin Keys(S), NEW env \in Nat,
           NEW N, \A r : r \in N <=> \E i \in 1..env : r = NewRow("run_env", id + i - 1, n + i, OfRun(run, n))
    PROVE  Grows(S, n, S \cup N, n + env)
<1> DEFINE refs == OfRun(run, n)
           f == [i \in 1..env |-> NewRow("run_env", id + i - 1, n + i, refs)]
<1>1. n \in Nat /\ run.key = <<"runs", run.key[2]>> /\ run.key[2] \in Nat
  BY DEF RowsOK, RowOK
<1>2. \A fk \in ForeignKeys : fk.from = "run_env" => fk.col = "run_id" /\ fk.to = "runs"
  BY DEF ForeignKeys, NoAction, SetNull, Cascade
<1>3. /\ "run_env" \in RowTables
      /\ \A c \in Columns("run_env") : c = "run_id"
      /\ refs["run_id"].id = run.key[2] /\ refs["run_id"].born = n
  BY <1>2 DEF RowTables, Columns, OfRun
<1> HIDE DEF refs
<1>4. ASSUME NEW i \in 1..env
      PROVE  /\ RowOK(f[i], n + i) /\ f[i].key = <<"run_env", id + i - 1>> /\ f[i].rev = n + i
             /\ \A c \in Columns("run_env") : f[i].ref[c] = run.key[2] /\ f[i].meant[c] = n
  <2>1. id + i - 1 \in Nat \ {0} /\ n + i \in Nat
    BY <1>1
  <2>2. f[i] = NewRow("run_env", id + i - 1, n + i, refs)
    OBVIOUS
  <2>3. \A c \in Columns("run_env") : refs[c].id \in Ref /\ refs[c].born \in Ref
    BY <1>1, <1>3 DEF Ref
  <2> QED BY <1>3, <2>1, <2>2, <2>3, NewRowOK
<1>5. IsFiniteSet(N)
  <2>1. IsFiniteSet(1..env)
    BY FS_Interval
  <2>2. DOMAIN f = 1..env
    OBVIOUS
  <2>3. N = {f[i] : i \in 1..env}
    <3>1. \A i \in 1..env : f[i] = NewRow("run_env", id + i - 1, n + i, OfRun(run, n))
      BY DEF refs
    <3> HIDE DEF f
    <3> QED BY <3>1
  <2> HIDE DEF f
  <2> QED BY <2>1, <2>2, <2>3, ImageFinite
<1>6. \A r \in N : \E i \in 1..env : r = f[i]
  BY DEF refs
<1> HIDE DEF f
<1>7. n + env \in Nat /\ n <= n + env
  BY <1>1
<1>8. \E i \in Nat : \A r \in N : r.key[2] <= i
  <2>1. ASSUME NEW i \in 1..env
        PROVE  f[i].key[2] <= id + env
    <3>1. f[i].key[2] = id + i - 1
      BY <1>4
    <3> QED BY <3>1
  <2>2. id + env \in Nat
    OBVIOUS
  <2> QED BY <1>6, <2>1, <2>2
<1>9. ASSUME NEW r \in N
      PROVE  /\ RowOK(r, n + env) /\ n < r.rev /\ r.key \notin Keys(S) /\ r.key[1] = "run_env"
             /\ Refers(S \cup N, r)
  <2>1. PICK i \in 1..env : r = f[i]
    BY <1>6
  <2>2. n + i \in Nat /\ n + i <= n + env /\ n < n + i /\ id + i - 1 \in Nat /\ id <= id + i - 1
    BY <1>1
  <2>3. RowOK(r, n + env)
    BY <1>4, <1>7, <2>1, <2>2, RowMore
  <2>4. r.key = <<"run_env", id + i - 1>> /\ r.rev = n + i
    BY <1>4, <2>1
  <2>5. r.key[1] = "run_env" /\ r.key \notin Keys(S)
    BY <2>2, <2>4
  <2>6. ASSUME NEW fk \in References(r)
        PROVE  run.key = Target(r, fk) /\ r.meant[fk.col] = run.born
    <3>1. fk \in ForeignKeys /\ fk.from = "run_env"
      BY <2>5 DEF References
    <3>2. fk.to = "runs" /\ fk.col \in Columns("run_env")
      BY <1>2, <3>1 DEF Columns
    <3>3. r.ref[fk.col] = run.key[2] /\ r.meant[fk.col] = n
      BY <1>4, <2>1, <3>2
    <3> QED BY <1>1, <3>2, <3>3 DEF Target
  <2>7. Refers(S \cup N, r)
    BY <2>6 DEF Refers
  <2> QED BY <2>2, <2>3, <2>4, <2>5, <2>7
<1>10. ASSUME NEW p \in N, NEW q \in N, p.key = q.key \/ p.rev = q.rev
      PROVE  p = q
  <2>1. PICK i \in 1..env : p = f[i]
    BY <1>6
  <2>2. PICK j \in 1..env : q = f[j]
    BY <1>6
  <2>3. p.key = <<"run_env", id + i - 1>> /\ p.rev = n + i /\ q.key = <<"run_env", id + j - 1>> /\ q.rev = n + j
    BY <1>4, <2>1, <2>2
  <2>4. p.key[2] = id + i - 1 /\ q.key[2] = id + j - 1
    BY <2>3
  <2>5. i = j
    BY <1>1, <1>10, <2>3, <2>4
  <2> QED BY <2>1, <2>2, <2>5
<1>11. In(N, "sessions") = {}
  BY <1>9 DEF In
<1> QED BY <1>5, <1>7, <1>8, <1>9, <1>10, <1>11, AddRows

LEMMA InsertRunWrites ==
    ASSUME IInv, NEW w \in Process, version >= 2, NEW parent \in Holding(w, "runs") \cup {NULL},
           NEW hash \in Profile \cup {NULL}, NEW env \in Nat, InsertRun(w, parent, hash, env)
    PROVE  \E x : Writes(w, x)
<1> DEFINE texts == Texts(hash)
           S1 == rows \cup texts
           n == counter + Cardinality(texts) + 1
           watch == CHOOSE h \in Holding(w, "watches") : TRUE
           profile == CHOOSE r \in In(S1, "profiles") : r.key[2] = hash
           refs == [watch_id |-> To(w, watch),
                    parent_run_id |-> IF parent = NULL THEN Nothing ELSE To(w, parent),
                    session_id |-> Pending(w),
                    profile_hash |-> IF hash = NULL THEN Nothing ELSE [id |-> hash, born |-> profile.born]]
           run == NewRow("runs", NextId(rows, "runs"), n, refs)
           var(i) == NewRow("run_env", NextId(rows, "run_env") + i - 1, n + i, [run_id |-> [id |-> run.key[2], born |-> n]])
           N == {var(i) : i \in 1..env}
           S2 == S1 \cup {run}
           S3 == S2 \cup N
<1>1. RowsOK(rows, counter) /\ RevsOK(rows) /\ counter \in Nat
  BY DEF IInv, DataInv, RowsOK
<1>2. /\ proc[w].pc = "watch"
      /\ \/ Valid(S2, run) /\ Store(S3, n + env, Keeping(w, run))
         \/ ~Valid(S2, run) /\ Goto(w, "refused") /\ UNCHANGED <<database, old, disturbed>>
  BY DEF InsertRun, Texts
<1>3. /\ Grows(rows, counter, S1, counter + Cardinality(texts))
      /\ \A r \in texts : r.key[1] = "profiles"
      /\ hash # NULL => <<"profiles", hash>> \in Keys(S1)
  BY <1>1, TextsGrow
<1>4. Names(w, refs["watch_id"], "watches") /\ Names(w, refs["parent_run_id"], "runs") /\ Names(w, refs["session_id"], "sessions")
  BY <1>2, OwnWatch, HeldNames, NothingNames, PendingNames
<1> HIDE DEF texts
<1>5. RowsOK(S1, counter + Cardinality(texts)) /\ RevsOK(S1) /\ n \in Nat
      /\ counter + Cardinality(texts) \in Nat /\ counter + Cardinality(texts) + 1 = n
  BY <1>3 DEF Grows, Commits, RowsOK
<1>6. /\ refs["profile_hash"].id \in Ref /\ refs["profile_hash"].born \in Ref
      /\ refs["profile_hash"].id # NULL =>
            /\ <<"profiles", refs["profile_hash"].id>> \in Keys(S1)
            /\ \A q \in S1 : q.key = <<"profiles", refs["profile_hash"].id>> => refs["profile_hash"].born = q.born
  <2>1. CASE hash = NULL
    <3>1. refs["profile_hash"] = Nothing
      BY <2>1
    <3> QED BY <3>1 DEF Nothing, Ref
  <2>2. CASE hash # NULL
    <3>1. PICK q \in S1 : q.key = <<"profiles", hash>>
      BY <1>3, <2>2 DEF Keys
    <3>2. q \in In(S1, "profiles") /\ q.key[2] = hash
      BY <3>1 DEF In
    <3>3. profile \in In(S1, "profiles") /\ profile.key[2] = hash
      BY <3>2
    <3> HIDE DEF profile, S1
    <3>4. profile \in S1 /\ RowOK(profile, counter + Cardinality(texts)) /\ profile.key[1] = "profiles"
      BY <1>5, <3>3 DEF In, RowsOK
    <3>5. profile.key = <<"profiles", hash>> /\ profile.born \in Nat
      BY <1>5, <3>3, <3>4 DEF RowOK
    <3>6. \A p \in S1 : p.key = <<"profiles", hash>> => p = profile
      BY <1>5, <3>4, <3>5 DEF RowsOK
    <3>7. refs["profile_hash"].id = hash /\ refs["profile_hash"].born = profile.born
      BY <2>2
    <3>8. hash \in Nat
      BY <2>2, ProfileAssumption
    <3> HIDE DEF refs
    <3> QED BY <1>3, <2>2, <3>5, <3>6, <3>7, <3>8 DEF Ref
  <2> QED BY <2>1, <2>2
<1> HIDE DEF refs
<1>7. \A fk \in ForeignKeys : fk.from = "runs" =>
         \/ fk.col \in {"watch_id", "parent_run_id", "session_id"} /\ Names(w, refs[fk.col], fk.to) /\ fk.to # "profiles"
         \/ fk.col = "profile_hash" /\ fk.to = "profiles"
  BY <1>4 DEF ForeignKeys, NoAction, SetNull, Cascade
<1>8. /\ RowOK(run, n)
      /\ run.key = <<"runs", NextId(rows, "runs")>> /\ run.rev = n /\ run.born = n
      /\ \A c \in Columns("runs") : run.ref[c] = refs[c].id /\ run.meant[c] = refs[c].born
  <2>1. NextId(rows, "runs") \in Nat \ {0} /\ "runs" \in RowTables
    BY <1>1, Fresh DEF RowTables, V2Tables
  <2>2. ASSUME NEW c \in Columns("runs")
        PROVE  refs[c].id \in Ref /\ refs[c].born \in Ref
    <3>1. PICK fk \in ForeignKeys : fk.from = "runs" /\ fk.col = c
      BY DEF Columns
    <3> QED BY <1>6, <1>7, <3>1 DEF Names
  <2> QED BY <1>5, <2>1, <2>2, NewRowOK
<1>9. <<"runs", NextId(rows, "runs")>> \notin Keys(rows)
  <2>1. NextId(rows, "runs") \in Nat
    BY <1>1, Fresh
  <2> QED BY <1>1, <2>1, Fresh
<1>10. run.key[1] = "runs" /\ run.key \notin Keys(rows) /\ run.key \notin Keys(S1)
  <2>1. run.key[1] = "runs" /\ run.key \notin Keys(rows)
    BY <1>8, <1>9
  <2> QED BY <1>3, <2>1 DEF Keys
<1>11. ASSUME NEW fk \in References(run)
       PROVE  /\ w \in disturbed \/ Target(run, fk) \in Keys(S2)
              /\ \A q \in S2 : q.key = Target(run, fk) => run.meant[fk.col] \in {q.born, NULL}
  <2> HIDE DEF run
  <2>1. fk \in ForeignKeys /\ fk.from = "runs" /\ run.ref[fk.col] # NULL /\ fk.col \in Columns("runs")
    BY <1>10 DEF References, Columns
  <2>2. run.ref[fk.col] = refs[fk.col].id /\ run.meant[fk.col] = refs[fk.col].born
    BY <1>8, <2>1
  <2>3. Target(run, fk) = <<fk.to, refs[fk.col].id>>
    BY <2>2 DEF Target
  <2>4. CASE fk.col = "profile_hash" /\ fk.to = "profiles"
    <3>1. \A q \in S2 : q.key = Target(run, fk) => q \in S1
      <4>1. \A q : q.key = Target(run, fk) => q.key[1] = "profiles"
        BY <2>3, <2>4
      <4> QED BY <1>10, <4>1
    <3> HIDE DEF S1
    <3> QED BY <1>6, <2>1, <2>2, <2>3, <2>4, <3>1 DEF Keys
  <2>5. CASE Names(w, refs[fk.col], fk.to) /\ fk.to # "profiles"
    <3>1. ASSUME NEW q \in S2, q.key = Target(run, fk), w \notin disturbed
          PROVE  q \in rows
      <4>1. Target(run, fk) \in Keys(rows)
        BY <2>1, <2>2, <2>3, <2>5, <3>1 DEF Names
      <4>2. q # run
        BY <1>10, <3>1, <4>1
      <4>3. q.key[1] = fk.to
        BY <2>3, <3>1
      <4> QED BY <1>3, <2>5, <4>2, <4>3
    <3>2. w \in disturbed => refs[fk.col].born = NULL
      BY <2>5 DEF Names
    <3>3. w \notin disturbed => Target(run, fk) \in Keys(rows)
      BY <2>1, <2>2, <2>3, <2>5 DEF Names
    <3>4. Keys(rows) \subseteq Keys(S2)
      BY DEF Keys
    <3>5. \A q \in rows : q.key = Target(run, fk) => run.meant[fk.col] \in {q.born, NULL}
      BY <2>1, <2>2, <2>3, <2>5 DEF Names
    <3> QED BY <2>2, <3>1, <3>2, <3>3, <3>4, <3>5
  <2> QED BY <1>7, <2>1, <2>4, <2>5
<1> HIDE DEF run, S1
<1>12. CASE Valid(S2, run) /\ Store(S3, n + env, Keeping(w, run))
  <2>1. Refers(S2, run)
    BY <1>11, <1>12, ValidRefers
  <2>2. Grows(S1, counter + Cardinality(texts), S2, n)
    BY <1>5, <1>8, <1>10, <2>1, AddRow
  <2>3. RowsOK(S2, n) /\ RevsOK(S2)
    BY <2>2 DEF Grows, Commits
  <2>4. NextId(rows, "run_env") \in Nat \ {0}
    BY <1>1, Fresh
  <2>5. ASSUME NEW i \in Nat, NextId(rows, "run_env") <= i
        PROVE  <<"run_env", i>> \notin Keys(S2)
    <3>1. <<"run_env", i>> \notin Keys(rows)
      BY <1>1, <2>5, Fresh
    <3>2. \A q : q.key = <<"run_env", i>> => q.key[1] = "run_env"
      OBVIOUS
    <3> QED BY <1>3, <1>10, <3>1, <3>2 DEF Keys, S1
  <2>6. run.key[1] = "runs" /\ run.born = n /\ run \in S2
    BY <1>8, <1>10
  <2>7. Grows(S2, n, S3, n + env)
    <3>1. \A r : r \in N <=> \E i \in 1..env : r = NewRow("run_env", NextId(rows, "run_env") + i - 1, n + i, OfRun(run, n))
      BY DEF OfRun
    <3> HIDE DEF N, n, S2
    <3> QED BY <2>3, <2>4, <2>5, <2>6, <3>1, EnvGrow
  <2>8. Grows(rows, counter, S3, n + env)
    <3>1. Grows(rows, counter, S2, n)
      <4> HIDE DEF S2, n
      <4> QED BY <1>1, <1>3, <1>5, <2>2, GrowsTrans
    <3> HIDE DEF S2, S3, n
    <3> QED BY <1>1, <1>5, <2>7, <3>1, GrowsTrans
  <2>9. RowOK(run, n + env)
    <3>1. n + env \in Nat /\ n <= n + env
      BY <1>5
    <3> HIDE DEF n
    <3> QED BY <1>5, <1>8, <3>1, RowMore
  <2>10. run \in S3 /\ run.key[1] # "watches"
    BY <2>6
  <2> HIDE DEF S3, n
  <2> QED BY <1>2, <1>12, <2>8, <2>9, <2>10, KeepingWrites DEF Store
<1>13. CASE ~Valid(S2, run) /\ Goto(w, "refused") /\ UNCHANGED <<database, old, disturbed>>
  <2>1. w \in disturbed
    BY <1>11, <1>13 DEF Valid
  <2> QED BY <1>2, <1>13, <2>1, RefusedWrites
<1> QED BY <1>2, <1>12, <1>13

LEMMA WriteWrites ==
    ASSUME IInv, NEW w \in Process, version >= 2, Write(w)
    PROVE  \E x : Writes(w, x)
<1>1. ASSUME NEW parent \in Holding(w, "runs") \cup {NULL}, NEW hash \in Profile \cup {NULL},
             InsertRun(w, parent, hash, IF hash = NULL THEN 0 ELSE MaxEnv)
      PROVE  \E x : Writes(w, x)
  <2> DEFINE env == IF hash = NULL THEN 0 ELSE MaxEnv
  <2>1. env \in Nat
    BY BoundAssumption
  <2> HIDE DEF env
  <2> QED BY <1>1, <2>1, InsertRunWrites DEF env
<1> QED BY <1>1, EnsureSessionWrites, SetRunSessionWrites, InsertProcessWrites, InsertDenialWrites, InsertOrphanWrites, UpdateWrites DEF Write

-----------------------------------------------------------------------------
(* Deletes *)

\* A column of a table is one foreign key.
LEMMA KeyColumns ==
    ASSUME NEW j \in ForeignKeys, NEW k \in ForeignKeys, j.from = k.from, j.col = k.col
    PROVE  j = k
BY DEF ForeignKeys, NoAction, SetNull, Cascade

LEMMA DoomedPart ==
    ASSUME NEW S, NEW D \in SUBSET S
    PROVE  Doomed(S, D) \subseteq S /\ D \subseteq Doomed(S, D)
BY DEF Doomed, Hit

LEMMA CascadeDepth ==
    /\ \A fk \in Cascade : fk.to \in {"runs", "processes"} /\ (fk.to = "processes" => fk.from = "denials")
    /\ \A fk \in Cascade : fk.from \in {"processes", "denials", "run_env"}
BY DEF Cascade

\* Cascades end: run, process, denial.
LEMMA DoomedClosed ==
    ASSUME NEW S, NEW D \in SUBSET S, NEW r \in S, NEW fk \in References(r) \cap Cascade, Target(r, fk) \in Keys(Doomed(S, D))
    PROVE  r \in Doomed(S, D)
<1> DEFINE D1 == D \cup Hit(S, D, Cascade)
           D2 == D1 \cup Hit(S, D1, Cascade)
           D3 == D2 \cup Hit(S, D2, Cascade)
<1>1. D3 = Doomed(S, D)
  BY DEF Doomed
<1>2. \A E, q : q \in Hit(S, E, Cascade) <=> q \in S /\ \E k \in References(q) \cap Cascade, e \in E : e.key = Target(q, k)
  BY DEF Hit, Keys
<1>3. \A E, q : q \in Hit(S, E, Cascade) => q.key[1] \in {"processes", "denials", "run_env"}
  BY CascadeDepth DEF Hit, References
<1>4. ASSUME NEW q, NEW k \in References(q) \cap Cascade, NEW e, e.key = Target(q, k)
      PROVE  /\ q.key[1] = k.from /\ e.key[1] = k.to
             /\ e.key[1] \in {"runs", "processes"} /\ (e.key[1] = "processes" => q.key[1] = "denials")
  <2>1. e.key[1] = k.to
    BY <1>4 DEF Target
  <2> QED BY <2>1, CascadeDepth DEF References
<1> HIDE DEF D1, D2
<1>5. ASSUME NEW q \in Hit(S, D1, Cascade), q \notin D1
      PROVE  q.key[1] = "denials"
  <2>1. PICK k \in References(q) \cap Cascade, e \in D1 : e.key = Target(q, k)
    BY <1>2
  <2>2. e \in Hit(S, D, Cascade)
    <3>1. q \in S /\ q \notin Hit(S, D, Cascade)
      BY <1>2, <1>5 DEF D1
    <3>2. e \notin D
      BY <1>2, <2>1, <3>1
    <3> QED BY <3>2 DEF D1
  <2> QED BY <1>3, <1>4, <2>1, <2>2
<1>6. Hit(S, D2, Cascade) \subseteq D2
  <2> SUFFICES ASSUME NEW q \in Hit(S, D2, Cascade), q \notin D2
               PROVE  FALSE
    OBVIOUS
  <2>1. PICK k \in References(q) \cap Cascade, e \in D2 : e.key = Target(q, k)
    BY <1>2
  <2>2. q \in S /\ q \notin Hit(S, D1, Cascade)
    BY <1>2 DEF D2
  <2>3. e \notin D1
    BY <1>2, <2>1, <2>2
  <2>4. e.key[1] = "denials"
    BY <1>5, <2>3 DEF D2
  <2> QED BY <1>4, <2>1, <2>4
<1>7. PICK e \in D2 : e.key = Target(r, fk)
  BY <1>1, <1>6 DEF Keys
<1> QED BY <1>1, <1>2, <1>6, <1>7

\* What a DELETE that takes the rows "gone" with it makes of a row r it leaves: q, which refers to
\* what r does but for what is set to NULL, and has a new revision if anything is.
After(r, q, gone, c, n) ==
    /\ RowOK(q, n)
    /\ q.key = r.key /\ q.born = r.born /\ q.name = r.name /\ q.meant = r.meant
    /\ q = r \/ q.rev \in (c + 1)..n
    /\ References(q) \subseteq References(r)
    /\ \A fk \in References(r) :
         q.ref[fk.col] = IF fk \in SetNull /\ Target(r, fk) \in Keys(gone) THEN NULL ELSE r.ref[fk.col]

LEMMA NullRow ==
    ASSUME NEW r, NEW gone, NEW c \in Nat, NEW n \in Nat, RowOK(r, c), c <= n, NEW i \in (c + 1)..n
    PROVE  After(r, [Nulled(r, gone) EXCEPT !.rev = i], gone, c, n) /\ [Nulled(r, gone) EXCEPT !.rev = i].rev = i
<1> DEFINE cols == {fk.col : fk \in {k \in References(r) \cap SetNull : Target(r, k) \in Keys(gone)}}
           ref == [a \in Columns(r.key[1]) |-> IF a \in cols THEN NULL ELSE r.ref[a]]
           null == Nulled(r, gone)
           q == [null EXCEPT !.rev = i]
<1>1. DOMAIN r.ref = Columns(r.key[1])
  BY DEF RowOK
<1>2. null = [key |-> r.key, rev |-> r.rev, born |-> r.born, name |-> r.name, ref |-> ref, meant |-> r.meant]
  <2>1. null = [r EXCEPT !.ref = [a \in DOMAIN r.ref |-> IF a \in cols THEN NULL ELSE r.ref[a]]]
    BY DEF Nulled
  <2>2. null = [r EXCEPT !.ref = ref]
    BY <1>1, <2>1
  <2> HIDE DEF null, ref
  <2> QED BY <2>2 DEF RowOK
<1> HIDE DEF null
<1>3. q = [key |-> r.key, rev |-> i, born |-> r.born, name |-> r.name, ref |-> ref, meant |-> r.meant]
  <2> HIDE DEF ref
  <2> QED BY <1>2
<1>4. /\ ref \in [Columns(r.key[1]) -> Ref]
      /\ \A a \in Columns(r.key[1]) : ref[a] = IF a \in cols THEN NULL ELSE r.ref[a]
  <2> HIDE DEF cols
  <2> QED BY DEF RowOK, Ref
<1> HIDE DEF q, ref
<1>5. q.key = r.key /\ q.rev = i /\ q.born = r.born /\ q.name = r.name /\ q.ref = ref /\ q.meant = r.meant
  BY <1>3
<1>6. q = [key |-> q.key, rev |-> q.rev, born |-> q.born, name |-> q.name, ref |-> q.ref, meant |-> q.meant]
  BY <1>3, <1>5
<1>7. RowOK(q, n)
  BY <1>4, <1>5, <1>6 DEF RowOK
<1>8. \A fk \in ForeignKeys : fk.from = r.key[1] => fk.col \in Columns(r.key[1])
  BY DEF Columns
<1>9. References(q) \subseteq References(r)
  BY <1>4, <1>5, <1>8 DEF References
<1>10. ASSUME NEW fk \in References(r)
       PROVE  q.ref[fk.col] = IF fk \in SetNull /\ Target(r, fk) \in Keys(gone) THEN NULL ELSE r.ref[fk.col]
  <2>1. fk.col \in cols <=> fk \in SetNull /\ Target(r, fk) \in Keys(gone)
    <3>1. ASSUME NEW k \in References(r), k.col = fk.col
          PROVE  k = fk
      BY <3>1, KeyColumns DEF References
    <3> QED BY <3>1
  <2> HIDE DEF cols
  <2> QED BY <1>4, <1>5, <1>8, <2>1 DEF References
<1> QED BY <1>5, <1>7, <1>9, <1>10 DEF After, q, null

\* The outcome d has for each row r that is kept the row g[r].
Leaves(g, kept, gone, c, d) ==
    /\ DOMAIN g = kept
    /\ d.rows = {g[r] : r \in kept}
    /\ \A r \in kept : After(r, g[r], gone, c, d.counter)
    /\ \A p, q \in kept : g[p] # p /\ g[q] # q /\ g[p].rev = g[q].rev => p = q

\* The outcomes of a DELETE that no foreign key stops: each row that is left is in d.rows as After says.
LEMMA DeleteAfter ==
    ASSUME NEW db, RowsOK(db.rows, db.counter), NEW D \in SUBSET db.rows, NEW d \in Delete(db, D),
           Hit(db.rows \ Doomed(db.rows, D), Doomed(db.rows, D), NoAction) = {}
    PROVE  /\ d.ok /\ d.counter \in Nat /\ db.counter <= d.counter
           /\ \E g : Leaves(g, db.rows \ Doomed(db.rows, D), Doomed(db.rows, D), db.counter, d)
<1> DEFINE S == db.rows
           c == db.counter
           gone == Doomed(S, D)
           kept == S \ gone
           hit == Hit(kept, gone, SetNull)
           new(r, f) == [Nulled(r, gone) EXCEPT !.rev = f[r]]
           changed(f) == (kept \ hit) \cup {new(r, f) : r \in hit}
           outcome(n, f) == [rows |-> changed(f), counter |-> n, ok |-> TRUE]
           low == c + Cardinality(hit)
           high == low + Cardinality(Hit(gone, gone, SetNull))
           fits(n) == {g \in [hit -> (c + 1)..n] : \A p, q \in hit : g[p] = g[q] => p = q}
<1>1. d \in UNION {{outcome(n, f) : f \in fits(n)} : n \in low..high}
  BY DEF Delete
<1>2. c \in Nat /\ \A r \in S : RowOK(r, c)
  BY DEF RowsOK
<1>3. low \in Nat /\ high \in Nat /\ c <= low
  <2>1. gone \subseteq S /\ hit \subseteq S /\ Hit(gone, gone, SetNull) \subseteq S
    BY DoomedPart DEF Hit
  <2>2. IsFiniteSet(hit) /\ IsFiniteSet(Hit(gone, gone, SetNull))
    <3> HIDE DEF hit, gone
    <3> QED BY <2>1, FS_Subset DEF RowsOK
  <2>3. Cardinality(hit) \in Nat /\ Cardinality(Hit(gone, gone, SetNull)) \in Nat
    BY <2>2, FS_CardinalityType
  <2> HIDE DEF hit, gone, c
  <2> QED BY <1>2, <2>3
<1> HIDE DEF low, high, fits, changed
<1>4. PICK n \in low..high : d \in {outcome(n, f) : f \in fits(n)}
  BY <1>1
<1>5. PICK f \in fits(n) : d = outcome(n, f)
  BY <1>4
<1>6. n \in Nat /\ c <= n /\ d.ok /\ d.counter = n /\ d.rows = changed(f)
  BY <1>2, <1>3, <1>5
<1>7. f \in [hit -> (c + 1)..n] /\ \A p, q \in hit : f[p] = f[q] => p = q
  BY DEF fits
<1> DEFINE g == [r \in kept |-> IF r \in hit THEN new(r, f) ELSE r]
<1> HIDE DEF hit
<1>8. hit \subseteq kept
  BY DEF hit, Hit
<1>9. d.rows = {g[r] : r \in kept}
  <2>1. \A r \in kept : g[r] = IF r \in hit THEN new(r, f) ELSE r
    OBVIOUS
  <2> HIDE DEF g, new, kept
  <2> QED BY <1>6, <1>8, <2>1 DEF changed
<1>10. ASSUME NEW r \in kept
       PROVE  /\ After(r, g[r], gone, c, n)
              /\ g[r] # r => r \in hit /\ g[r].rev = f[r]
  <2>1. CASE r \in hit
    <3>1. f[r] \in (c + 1)..n
      BY <1>7, <2>1
    <3>2. After(r, new(r, f), gone, c, n) /\ new(r, f).rev = f[r]
      BY <1>2, <1>6, <3>1, NullRow
    <3>3. g[r] = new(r, f)
      BY <2>1
    <3> HIDE DEF g, new
    <3> QED BY <2>1, <3>2, <3>3
  <2>2. CASE r \notin hit
    <3>1. g[r] = r
      BY <2>2
    <3>2. RowOK(r, n)
      BY <1>2, <1>6, RowMore
    <3>3. \A fk \in References(r) : ~(fk \in SetNull /\ Target(r, fk) \in Keys(gone))
      BY <2>2 DEF hit, Hit
    <3>4. After(r, r, gone, c, n)
      BY <3>2, <3>3 DEF After
    <3> HIDE DEF g
    <3> QED BY <3>1, <3>4
  <2> QED BY <2>1, <2>2
<1>11. DOMAIN g = kept
  OBVIOUS
<1> HIDE DEF g, new
<1>12. \A p, q \in kept : g[p] # p /\ g[q] # q /\ g[p].rev = g[q].rev => p = q
  BY <1>7, <1>10
<1>13. Leaves(g, kept, gone, c, d)
  <2> HIDE DEF kept, gone, c
  <2> QED BY <1>6, <1>9, <1>10, <1>11, <1>12 DEF Leaves
<1> QED BY <1>6, <1>13

LEMMA DeleteCommits ==
    ASSUME NEW db, RowsOK(db.rows, db.counter), RevsOK(db.rows), NEW D \in SUBSET db.rows, NEW d \in Delete(db, D),
           Hit(db.rows \ Doomed(db.rows, D), Doomed(db.rows, D), NoAction) = {}
    PROVE  Commits(db.rows, db.counter, d.rows, d.counter)
<1> DEFINE S == db.rows
           c == db.counter
           n == d.counter
           gone == Doomed(S, D)
           kept == S \ gone
<1>1. n \in Nat /\ c <= n /\ c \in Nat
  BY DeleteAfter DEF RowsOK
<1>2. PICK g : /\ DOMAIN g = kept
               /\ d.rows = {g[r] : r \in kept}
               /\ \A r \in kept : After(r, g[r], gone, c, n)
               /\ \A p, q \in kept : g[p] # p /\ g[q] # q /\ g[p].rev = g[q].rev => p = q
  <2>1. PICK g : Leaves(g, kept, gone, c, d)
    BY DeleteAfter
  <2> HIDE DEF kept, gone, c
  <2> QED BY <2>1 DEF Leaves
<1>3. IsFiniteSet(d.rows)
  <2>1. IsFiniteSet(kept)
    <3> HIDE DEF gone
    <3> QED BY FS_Subset DEF RowsOK
  <2> HIDE DEF kept
  <2> QED BY <1>2, <2>1, ImageFinite
<1>4. /\ \A q \in d.rows : \E r \in kept : q = g[r]
      /\ \A r \in kept : g[r] \in d.rows
  <2> HIDE DEF kept
  <2> QED BY <1>2
<1>5. \A r \in kept : /\ RowOK(g[r], n) /\ g[r].key = r.key /\ g[r].born = r.born /\ g[r].name = r.name
                      /\ g[r] = r \/ g[r].rev \in (c + 1)..n
  <2> HIDE DEF kept, gone, c, n
  <2> QED BY <1>2 DEF After
<1>6. kept \subseteq S /\ gone \subseteq S
  BY DoomedPart
<1>7. \A p, q \in S : p.key = q.key => p = q
  BY DEF RowsOK
<1>8. \A r \in S : r.rev \in Nat /\ r.rev <= c /\ r.rev # 0
  BY DEF RowsOK, RowOK, RevsOK
<1>9. ASSUME NEW q \in d.rows
      PROVE  Refers(d.rows, q)
  <2>1. PICK r \in kept : q = g[r]
    BY <1>4
  <2>2. /\ q.key = r.key /\ q.meant = r.meant /\ References(q) \subseteq References(r)
        /\ \A fk \in References(r) :
             q.ref[fk.col] = IF fk \in SetNull /\ Target(r, fk) \in Keys(gone) THEN NULL ELSE r.ref[fk.col]
    <3> HIDE DEF kept, gone
    <3> QED BY <1>2, <2>1 DEF After
  <2> SUFFICES ASSUME NEW fk \in References(q)
               PROVE  \E t \in d.rows : t.key = Target(q, fk) /\ q.meant[fk.col] \in {t.born, NULL}
    BY DEF Refers
  <2>3. fk \in References(r) /\ q.ref[fk.col] # NULL /\ fk \in ForeignKeys
    BY <2>2 DEF References
  <2>4. q.ref[fk.col] = r.ref[fk.col] /\ ~(fk \in SetNull /\ Target(r, fk) \in Keys(gone))
    BY <2>2, <2>3
  <2>5. Target(q, fk) = Target(r, fk)
    BY <2>4 DEF Target
  <2>6. PICK p \in S : p.key = Target(r, fk) /\ r.meant[fk.col] \in {p.born, NULL}
    BY <1>6, <2>1, <2>3 DEF RowsOK, Refers
  <2>7. p \notin gone
    <3> SUFFICES ASSUME p \in gone
                 PROVE  FALSE
      OBVIOUS
    <3>1. Target(r, fk) \in Keys(gone)
      <4> HIDE DEF gone
      <4> QED BY <2>6 DEF Keys
    <3>2. fk \notin Cascade
      BY <2>1, <2>3, <3>1, DoomedClosed
    <3>3. fk \notin NoAction
      BY <2>1, <2>3, <3>1 DEF Hit
    <3> QED BY <2>3, <2>4, <3>1, <3>2, <3>3 DEF ForeignKeys
  <2>8. g[p] \in d.rows /\ g[p].key = p.key /\ g[p].born = p.born
    BY <1>4, <1>5, <2>7
  <2> QED BY <2>2, <2>5, <2>6, <2>8
<1> HIDE DEF kept, gone, n, c
<1>10. ASSUME NEW p \in d.rows, NEW q \in d.rows, p.key = q.key \/ p.rev = q.rev
       PROVE  p = q
  <2>1. PICK a \in kept : p = g[a]
    BY <1>4
  <2>2. PICK b \in kept : q = g[b]
    BY <1>4
  <2>3. CASE p.key = q.key
    BY <1>5, <1>6, <1>7, <2>1, <2>2, <2>3
  <2>4. CASE p.rev = q.rev /\ p = a /\ q = b
    BY <1>6, <2>4 DEF RevsOK
  <2>5. CASE p.rev = q.rev /\ p # a /\ q # b
    BY <1>2, <2>1, <2>2, <2>5
  <2>6. CASE p.rev = q.rev /\ ~(p = a <=> q = b)
    BY <1>1, <1>5, <1>6, <1>8, <2>1, <2>2, <2>6
  <2> QED BY <1>10, <2>3, <2>4, <2>5, <2>6
<1>11. \A p, q \in In(d.rows, "sessions") : p.name = q.name => p = q
  <2> SUFFICES ASSUME NEW p \in d.rows, NEW q \in d.rows, p.key[1] = "sessions", q.key[1] = "sessions", p.name = q.name
               PROVE  p = q
    BY DEF In
  <2>1. PICK a \in kept : p = g[a]
    BY <1>4
  <2>2. PICK b \in kept : q = g[b]
    BY <1>4
  <2>3. a \in In(S, "sessions") /\ b \in In(S, "sessions") /\ a.name = b.name
    BY <1>5, <1>6, <2>1, <2>2 DEF In
  <2> QED BY <2>1, <2>2, <2>3 DEF RowsOK
<1>12. ASSUME NEW q \in d.rows
       PROVE  RowOK(q, n) /\ (q \in S \/ q.rev \in (c + 1)..n) /\ q.rev # 0
  <2>1. PICK r \in kept : q = g[r]
    BY <1>4
  <2> QED BY <1>1, <1>5, <1>6, <1>8, <2>1
<1>13. \E i \in Nat : \A q \in d.rows : q.key[2] <= i
  <2>1. PICK i \in Nat : \A r \in S : r.key[2] <= i
    BY DEF RowsOK
  <2>2. \A q \in d.rows : q.key[2] <= i
    BY <1>4, <1>5, <1>6, <2>1
  <2> QED BY <2>2
<1>14. RowsOK(d.rows, n)
  BY <1>1, <1>3, <1>9, <1>10, <1>11, <1>12, <1>13 DEF RowsOK
<1>15. RevsOK(d.rows)
  BY <1>10, <1>12 DEF RevsOK
<1> QED BY <1>1, <1>12, <1>14, <1>15 DEF Commits, c, n

-----------------------------------------------------------------------------
(* What Prune spares *)

\* RecentRun and Recent of the rows S.
RunIn(S, i) == \E r \in In(S, "runs") : r.key[2] = i /\ Id(r) \notin old

RecentIn(S, r) ==
    \/ r.key[1] \in {"runs", "orphans"} /\ Id(r) \notin old
    \/ r.key[1] \in {"processes", "run_env"} /\ RunIn(S, r.ref["run_id"])
    \/ /\ r.key[1] = "denials"
       /\ RunIn(S, r.ref["run_id"])
       /\ \E p \in In(S, "processes") : p.key[2] = r.ref["process_id"] /\ RunIn(S, p.ref["run_id"])

\* q is what Kept asks for.
KeptAs(r, q) ==
    /\ q.key = r.key /\ q.born = r.born
    /\ \A fk \in References(r) :
         fk.col \in {"session_id", "watch_id", "profile_hash", "run_id", "process_id"} => q.ref[fk.col] = r.ref[fk.col]

Spares(S, T) == \A r \in S : RecentIn(S, r) => \E q \in T : KeptAs(r, q) /\ RecentIn(T, q)

LEMMA SparesTrans ==
    ASSUME NEW S, NEW T, NEW U, Spares(S, T), Spares(T, U)
    PROVE  Spares(S, U)
<1> SUFFICES ASSUME NEW r \in S, RecentIn(S, r)
             PROVE  \E u \in U : KeptAs(r, u) /\ RecentIn(U, u)
  BY DEF Spares
<1>1. PICK t \in T : KeptAs(r, t) /\ RecentIn(T, t)
  BY DEF Spares
<1>2. PICK u \in U : KeptAs(t, u) /\ RecentIn(U, u)
  BY <1>1 DEF Spares
<1>3. ASSUME NEW fk \in References(r), fk.col \in {"session_id", "watch_id", "profile_hash", "run_id", "process_id"}
      PROVE  u.ref[fk.col] = r.ref[fk.col]
  <2>1. t.key = r.key /\ t.ref[fk.col] = r.ref[fk.col]
    BY <1>1, <1>3 DEF KeptAs
  <2>2. fk \in References(t)
    BY <2>1 DEF References
  <2> QED BY <1>2, <1>3, <2>1, <2>2 DEF KeptAs
<1> QED BY <1>1, <1>2, <1>3 DEF KeptAs

LEMMA RunKeys ==
    /\ \A fk \in Cascade : fk.from \in {"processes", "run_env"} => fk.col = "run_id" /\ fk.to = "runs"
    /\ \A fk \in Cascade : fk.from = "denials" => (fk.col = "run_id" /\ fk.to = "runs") \/ (fk.col = "process_id" /\ fk.to = "processes")
    /\ \A fk \in SetNull : fk.col \in {"session_id", "watch_id", "profile_hash", "run_id", "process_id"} => fk.to = "sessions"
    /\ \A t \in {"processes", "run_env", "denials"} : \E fk \in ForeignKeys : fk.from = t /\ fk.col = "run_id"
    /\ \E fk \in ForeignKeys : fk.from = "denials" /\ fk.col = "process_id"
<1>1. ASSUME NEW fk \in Cascade
      PROVE  /\ fk.from \in {"processes", "run_env"} => fk.col = "run_id" /\ fk.to = "runs"
             /\ fk.from = "denials" => (fk.col = "run_id" /\ fk.to = "runs") \/ (fk.col = "process_id" /\ fk.to = "processes")
  <2>1. CASE fk.from \in {"processes", "run_env"}
    BY <2>1 DEF Cascade
  <2>2. CASE fk.from = "denials"
    BY <2>2 DEF Cascade
  <2> QED BY <2>1, <2>2
<1>2. \A fk \in SetNull : fk.col \in {"session_id", "watch_id", "profile_hash", "run_id", "process_id"} => fk.to = "sessions"
  BY DEF SetNull
<1> DEFINE key(t) == [from |-> t, col |-> "run_id", to |-> "runs"]
           process == [from |-> "denials", col |-> "process_id", to |-> "processes"]
<1>3. /\ \A t \in {"processes", "run_env", "denials"} : key(t) \in ForeignKeys /\ key(t).from = t /\ key(t).col = "run_id"
      /\ process \in ForeignKeys /\ process.from = "denials" /\ process.col = "process_id"
  BY DEF ForeignKeys, Cascade
<1> HIDE DEF key, process
<1> QED BY <1>1, <1>2, <1>3

LEMMA DeleteSpares ==
    ASSUME NEW db, RowsOK(db.rows, db.counter), NEW t \in {"runs", "orphans", "watches", "sessions", "profiles"},
           NEW d \in Delete(db, Selected(t, db.rows))
    PROVE  Spares(db.rows, d.rows)
<1> DEFINE S == db.rows
           D == Selected(t, S)
           gone == Doomed(S, D)
           kept == S \ gone
           carried == {"session_id", "watch_id", "profile_hash", "run_id", "process_id"}
<1>1. D \subseteq S /\ \A r \in D : r.key[1] = t /\ (t \in {"runs", "orphans"} => Id(r) \in old)
  BY DEF Selected, Old, Unreferenced, In
<1>2. gone \subseteq S
  BY <1>1, DoomedPart
<1>3. PICK g : Leaves(g, kept, gone, db.counter, d)
  BY <1>1, NotStopped, DeleteAfter
<1>4. ASSUME NEW r \in gone
      PROVE  \/ r \in D
             \/ /\ r.key[1] \in {"processes", "denials", "run_env"}
                /\ \E fk \in References(r) \cap Cascade, e \in gone : e.key = Target(r, fk)
  <2>1. \A E, q : q \in Hit(S, E, Cascade) => /\ q.key[1] \in {"processes", "denials", "run_env"}
                                           /\ \E fk \in References(q) \cap Cascade, e \in E : e.key = Target(q, fk)
    BY CascadeDepth DEF Hit, References, Keys
  <2> DEFINE D1 == D \cup Hit(S, D, Cascade)
             D2 == D1 \cup Hit(S, D1, Cascade)
  <2>2. gone = D2 \cup Hit(S, D2, Cascade)
    BY DEF Doomed
  <2>3. D \subseteq gone /\ D1 \subseteq gone /\ D2 \subseteq gone
    <3> HIDE DEF gone, D
    <3> QED BY <2>2
  <2>4. r \in D \/ \E E \in {D, D1, D2} : r \in Hit(S, E, Cascade)
    <3> HIDE DEF gone, D
    <3> QED BY <2>2
  <2> HIDE DEF gone, D, D1, D2
  <2> QED BY <2>1, <2>3, <2>4
<1> HIDE DEF gone, D
<1>5. \A p, q \in S : p.key = q.key => p = q
  BY DEF RowsOK
<1>6. ASSUME NEW i, RunIn(S, i), NEW e \in gone, e.key = <<"runs", i>>
      PROVE  FALSE
  <2>1. PICK r \in S : r.key[1] = "runs" /\ r.key[2] = i /\ Id(r) \notin old
    BY <1>6 DEF RunIn, In
  <2>2. r.key = <<"runs", i>>
    BY <2>1 DEF RowsOK, RowOK
  <2>3. e = r
    BY <1>2, <1>5, <1>6, <2>1, <2>2
  <2> QED BY <1>1, <1>4, <2>1, <2>3
<1>7. ASSUME NEW r \in S, r.key[1] \in {"processes", "run_env"}, RunIn(S, r.ref["run_id"])
      PROVE  r \notin gone
  <2> SUFFICES ASSUME r \in gone
               PROVE  FALSE
    OBVIOUS
  <2>1. PICK fk \in References(r) \cap Cascade, e \in gone : e.key = Target(r, fk)
    BY <1>1, <1>4, <1>7
  <2>2. fk.from = r.key[1]
    BY DEF References
  <2>3. e.key = <<"runs", r.ref["run_id"]>>
    BY <1>7, <2>1, <2>2, RunKeys DEF Target
  <2> QED BY <1>6, <1>7, <2>3
<1>8. ASSUME NEW r \in S, RecentIn(S, r)
      PROVE  r \notin gone
  <2> SUFFICES ASSUME r \in gone
               PROVE  FALSE
    OBVIOUS
  <2>1. r.key[1] = "denials" /\ RunIn(S, r.ref["run_id"])
    BY <1>1, <1>4, <1>7, <1>8 DEF RecentIn
  <2>2. PICK p \in S : p.key[1] = "processes" /\ p.key[2] = r.ref["process_id"] /\ RunIn(S, p.ref["run_id"])
    BY <1>8, <2>1 DEF RecentIn, In
  <2>3. p.key = <<"processes", r.ref["process_id"]>>
    BY <2>2 DEF RowsOK, RowOK
  <2>4. PICK fk \in References(r) \cap Cascade, e \in gone : e.key = Target(r, fk)
    BY <1>1, <1>4, <2>1
  <2>5. fk.from = "denials"
    BY <2>1 DEF References
  <2>6. CASE fk.col = "run_id" /\ fk.to = "runs"
    <3>1. e.key = <<"runs", r.ref["run_id"]>>
      BY <2>4, <2>6 DEF Target
    <3> QED BY <1>6, <2>1, <3>1
  <2>7. CASE fk.col = "process_id" /\ fk.to = "processes"
    <3>1. e.key = p.key
      BY <2>3, <2>4, <2>7 DEF Target
    <3>2. e = p
      BY <1>2, <1>5, <3>1
    <3> QED BY <1>7, <2>2, <3>2
  <2> QED BY <2>5, <2>6, <2>7, RunKeys
<1>9. ASSUME NEW r \in kept
      PROVE  g[r] \in d.rows /\ KeptAs(r, g[r])
  <2>1. g[r] \in d.rows /\ After(r, g[r], gone, db.counter, d.counter)
    <3> HIDE DEF kept
    <3> QED BY <1>3 DEF Leaves
  <2>2. ASSUME NEW fk \in References(r), fk.col \in carried
        PROVE  ~(fk \in SetNull /\ Target(r, fk) \in Keys(gone))
    <3> SUFFICES ASSUME fk \in SetNull, NEW e \in gone, e.key = Target(r, fk)
                 PROVE  FALSE
      BY DEF Keys
    <3>1. e.key[1] = "sessions"
      BY <2>2, RunKeys DEF Target
    <3>2. e \in D /\ t = "sessions"
      BY <1>1, <1>4, <3>1
    <3>3. e \in Unreferenced(S, t)
      BY <3>2 DEF Selected, D
    <3> QED BY <3>3 DEF Unreferenced
  <2> HIDE DEF carried
  <2> QED BY <2>1, <2>2 DEF After, KeptAs, carried
<1>10. ASSUME NEW i, RunIn(S, i)
       PROVE  RunIn(d.rows, i)
  <2>1. PICK r \in S : r.key[1] = "runs" /\ r.key[2] = i /\ Id(r) \notin old
    BY <1>10 DEF RunIn, In
  <2>2. r \in kept
    BY <1>8, <2>1 DEF RecentIn
  <2>3. g[r] \in d.rows /\ g[r].key = r.key /\ g[r].born = r.born
    BY <1>9, <2>2 DEF KeptAs
  <2>4. Id(g[r]) = Id(r)
    BY <2>3 DEF Id
  <2> QED BY <2>1, <2>3, <2>4 DEF RunIn, In
<1>11. ASSUME NEW r \in kept, r.key[1] \in {"processes", "run_env", "denials"}, RunIn(S, r.ref["run_id"])
       PROVE  RunIn(d.rows, g[r].ref["run_id"])
  <2>1. r.ref["run_id"] # NULL
    <3>1. PICK q \in S : q.key[2] = r.ref["run_id"]
      BY <1>11 DEF RunIn, In
    <3>2. q.key[2] \in Nat
      BY DEF RowsOK, RowOK
    <3> QED BY <3>1, <3>2, NullAssumption
  <2>2. PICK fk \in ForeignKeys : fk.from = r.key[1] /\ fk.col = "run_id"
    BY <1>11, RunKeys
  <2>3. g[r].ref["run_id"] = r.ref["run_id"]
    BY <1>9, <2>1, <2>2 DEF KeptAs, References
  <2> QED BY <1>10, <1>11, <2>3
<1>12. ASSUME NEW r \in S, RecentIn(S, r)
       PROVE  g[r] \in d.rows /\ KeptAs(r, g[r]) /\ RecentIn(d.rows, g[r])
  <2>1. r \in kept
    BY <1>8, <1>12
  <2>2. g[r] \in d.rows /\ KeptAs(r, g[r]) /\ g[r].key = r.key /\ g[r].born = r.born
    BY <1>9, <2>1 DEF KeptAs
  <2>3. Id(g[r]) = Id(r)
    BY <2>2 DEF Id
  <2>4. CASE r.key[1] \in {"runs", "orphans"} /\ Id(r) \notin old
    BY <2>2, <2>3, <2>4 DEF RecentIn
  <2>5. CASE r.key[1] \in {"processes", "run_env"} /\ RunIn(S, r.ref["run_id"])
    BY <1>11, <2>1, <2>2, <2>5 DEF RecentIn
  <2>6. CASE r.key[1] = "denials" /\ RunIn(S, r.ref["run_id"])
    <3>1. PICK p \in S : p.key[1] = "processes" /\ p.key[2] = r.ref["process_id"] /\ RunIn(S, p.ref["run_id"])
      BY <1>12, <2>6 DEF RecentIn, In
    <3>2. RunIn(d.rows, g[r].ref["run_id"])
      BY <1>11, <2>1, <2>6
    <3>3. p \in kept
      BY <1>7, <3>1
    <3>4. g[p] \in d.rows /\ g[p].key = p.key /\ RunIn(d.rows, g[p].ref["run_id"])
      BY <1>9, <1>11, <3>1, <3>3 DEF KeptAs
    <3>5. r.ref["process_id"] # NULL
      BY <3>1, NullAssumption DEF RowsOK, RowOK
    <3>6. PICK fk \in ForeignKeys : fk.from = "denials" /\ fk.col = "process_id"
      BY RunKeys
    <3>7. g[r].ref["process_id"] = r.ref["process_id"]
      BY <2>2, <2>6, <3>5, <3>6 DEF KeptAs, References
    <3> QED BY <2>2, <2>6, <3>1, <3>2, <3>4, <3>7 DEF RecentIn, In
  <2> QED BY <1>12, <2>2, <2>4, <2>5, <2>6 DEF RecentIn
<1> QED BY <1>12 DEF Spares

-----------------------------------------------------------------------------
(* Prune *)

LEMMA CommitsTrans ==
    ASSUME NEW S, NEW n \in Nat, NEW T, NEW m \in Nat, NEW U, NEW k, Commits(S, n, T, m), Commits(T, m, U, k)
    PROVE  Commits(S, n, U, k)
<1>1. k \in Nat /\ n <= k
  BY DEF Commits, RowsOK
<1>2. \A r \in U : r \in S \/ r.rev \in (n + 1)..k
  BY <1>1 DEF Commits
<1> QED BY <1>1, <1>2 DEF Commits

\* What a statement of Prune may have reached.
Reached(db) == db.ok /\ Commits(rows, counter, db.rows, db.counter) /\ Spares(rows, db.rows)

LEMMA StatementReached ==
    ASSUME counter \in Nat, NEW dbs, NEW t \in {"runs", "orphans", "watches", "sessions", "profiles"},
           \A db \in dbs : Reached(db)
    PROVE  \A d \in Statement(dbs, t) : Reached(d)
<1>1. SUFFICES ASSUME NEW db \in dbs, NEW d \in Delete(db, Selected(t, db.rows))
               PROVE  Reached(d)
  BY DEF Statement, Reached
<1>2. RowsOK(db.rows, db.counter) /\ RevsOK(db.rows) /\ db.counter \in Nat
  BY DEF Reached, Commits, RowsOK
<1>3. Selected(t, db.rows) \in SUBSET db.rows
  BY DEF Selected, Old, Unreferenced, In
<1>4. Hit(db.rows \ Doomed(db.rows, Selected(t, db.rows)), Doomed(db.rows, Selected(t, db.rows)), NoAction) = {}
  BY NotStopped
<1>5. d.ok /\ Commits(db.rows, db.counter, d.rows, d.counter)
  BY <1>2, <1>3, <1>4, DeleteAfter, DeleteCommits
<1>6. Spares(db.rows, d.rows)
  BY <1>2, DeleteSpares
<1>7. Commits(rows, counter, d.rows, d.counter)
  BY <1>2, <1>5, CommitsTrans DEF Reached
<1>8. Spares(rows, d.rows)
  BY <1>6, SparesTrans DEF Reached
<1> QED BY <1>5, <1>7, <1>8 DEF Reached

LEMMA PrunedReached ==
    ASSUME RowsOK(rows, counter), RevsOK(rows)
    PROVE  \A db \in Pruned : Reached(db)
<1> DEFINE db == [rows |-> rows, counter |-> counter, ok |-> TRUE]
           start == {db}
<1>1. counter \in Nat
  BY DEF RowsOK
<1>2. Spares(rows, rows)
  BY DEF Spares, KeptAs
<1>3. Commits(rows, counter, rows, counter)
  BY RowsSelf DEF Grows
<1>4. \A d \in start : Reached(d)
  <2>1. db.ok /\ db.rows = rows /\ db.counter = counter
    OBVIOUS
  <2> QED BY <1>2, <1>3, <2>1 DEF Reached
<1> DEFINE runs == Statement(start, "runs")
           orphans == Statement(runs, "orphans")
           watches == Statement(orphans, "watches")
           sessions == Statement(watches, "sessions")
           profiles == Statement(sessions, "profiles")
<1>5. Pruned = profiles
  BY DEF Pruned
<1> HIDE DEF start
<1>6. \A d \in runs : Reached(d)
  BY <1>1, <1>4, StatementReached
<1> HIDE DEF runs
<1>7. \A d \in orphans : Reached(d)
  BY <1>1, <1>6, StatementReached
<1> HIDE DEF orphans
<1>8. \A d \in watches : Reached(d)
  BY <1>1, <1>7, StatementReached
<1> HIDE DEF watches
<1>9. \A d \in sessions : Reached(d)
  BY <1>1, <1>8, StatementReached
<1> HIDE DEF sessions
<1>10. \A d \in profiles : Reached(d)
  BY <1>1, <1>9, StatementReached
<1> QED BY <1>5, <1>10

LEMMA PruneKeeps ==
    ASSUME IInv, version >= 2, NEW w \in Process, Prune(w)
    PROVE  DataInv' /\ ProcInv' /\ Commits(rows, counter, rows', counter') /\ Spares(rows, rows') /\ version' = version
<1> DEFINE x == Now(w, "begin", proc[w].session, proc[w].held)
<1>1. PICK db \in Pruned : /\ rows' = IF db.ok THEN db.rows ELSE rows
                           /\ counter' = IF db.ok THEN db.counter ELSE counter
                           /\ Goto(w, IF db.ok THEN "begin" ELSE "unpruned")
  BY DEF Prune
<1>2. Reached(db)
  BY PrunedReached DEF IInv, DataInv
<1>3. rows' = db.rows /\ counter' = db.counter /\ Goto(w, "begin")
  BY <1>1, <1>2 DEF Reached
<1>4. Commits(rows, counter, rows', counter') /\ Spares(rows, rows')
  BY <1>2, <1>3 DEF Reached
<1>5. /\ proc[w].pc = "prune" /\ UNCHANGED <<version, instance>> /\ old' \subseteq old
      /\ disturbed' = disturbed \cup (Watching \ {w})
  BY DEF Prune
<1>6. DataInv'
  <2>1. RowsOK(rows', counter') /\ RevsOK(rows')
    BY <1>4 DEF Commits
  <2>2. version \in Int
    BY DEF IInv, OpenInv
  <2> QED BY <1>5, <2>1, <2>2 DEF IInv, DataInv
<1>7. proc' = [proc EXCEPT ![w] = x]
  BY <1>3, GotoNow DEF IInv
<1>8. x.pc = "begin" /\ x.held = {} /\ x.session = NULL
  BY <1>5 DEF IInv, ProcInv, ProcOK, Now
<1> HIDE DEF x
<1>9. ProcOK(x, counter') /\ Undisturbed(x, rows')
  BY <1>8 DEF ProcOK, Undisturbed, Hand
<1>10. \A v \in Process : proc'[v] = IF v = w THEN x ELSE proc[v]
  BY <1>7 DEF IInv, OpenInv
<1>11. disturbed' \subseteq Watching'
  BY <1>5, <1>8, <1>10 DEF IInv, ProcInv, Watching
<1>12. \A v \in Process \ (disturbed' \cup {w}) : v \notin disturbed /\ proc[v].pc \notin {"watch", "refused"}
  BY <1>5 DEF Watching
<1>13. counter \in Nat /\ counter' \in Nat /\ counter <= counter' /\ version' \in Int /\ version <= version'
  BY <1>4, <1>5 DEF IInv, DataInv, OpenInv, RowsOK, Commits
<1>14. ProcInv'
  BY <1>7, <1>8, <1>9, <1>11, <1>12, <1>13, ProcStep DEF IInv
<1> QED BY <1>4, <1>5, <1>6, <1>14

-----------------------------------------------------------------------------
(* Upgrade *)

\* The revisions an upgrade gives: each table's are above those of the tables before.
LEMMA NumberedOK ==
    ASSUME NEW S, RowsOK(S, 0), \A r \in S : r.key[1] # "run_env"
    PROVE  /\ RowsOK(Numbered(S), Highest(S)) /\ RevsOK(Numbered(S))
           /\ Lossless(S, Numbered(S))
           /\ \A q \in Numbered(S) : q.key[1] # "run_env"
<1> DEFINE off == Backfill(S)
           last(t) == LastId(S, t)
           n == Highest(S)
           new(r) == [r EXCEPT !.rev = r.key[2] + off[r.key[1]]]
           T == Numbered(S)
<1>1. \A r \in S : r.key[2] \in Nat \ {0} /\ r.key[1] \in V2Tables /\ r.key = <<r.key[1], r.key[2]>>
  BY DEF RowsOK, RowOK, RowTables
<1>2. PICK i \in Nat : \A r \in S : r.key[2] <= i
  BY DEF RowsOK
<1>3. \A t : last(t) \in Nat /\ \A r \in S : r.key[1] = t => r.key[2] <= last(t)
  BY <1>1, <1>2, LastIdOf
<1>4. /\ off["watches"] = 0
      /\ off["sessions"] = off["watches"] + last("watches")
      /\ off["profiles"] = off["sessions"] + last("sessions")
      /\ off["runs"] = off["profiles"] + last("profiles")
      /\ off["processes"] = off["runs"] + last("runs")
      /\ off["denials"] = off["processes"] + last("processes")
      /\ off["orphans"] = off["denials"] + last("denials")
      /\ n = off["orphans"] + last("orphans")
  <2>1. last("watches") \in Nat
    BY <1>3
  <2> HIDE DEF last
  <2> QED BY <2>1 DEF Backfill, Highest, last
<1> HIDE DEF off, last, n
<1>5. /\ n \in Nat
      /\ \A t \in V2Tables : off[t] \in Nat /\ off[t] + last(t) <= n
  BY <1>3, <1>4 DEF V2Tables
<1>6. \A t, u \in V2Tables : t # u => off[t] + last(t) <= off[u] \/ off[u] + last(u) <= off[t]
  BY <1>3, <1>4 DEF V2Tables
<1>7. ASSUME NEW r \in S
      PROVE  /\ new(r).rev = r.key[2] + off[r.key[1]] /\ new(r).rev \in 1..n
             /\ RowOK(new(r), n) /\ Same(r, new(r))
             /\ new(r).key = r.key /\ new(r).born = r.born /\ new(r).name = r.name
             /\ new(r).ref = r.ref /\ new(r).meant = r.meant
  <2> DEFINE rev == r.key[2] + off[r.key[1]]
  <2>1. rev \in 0..n /\ rev \in 1..n
    BY <1>1, <1>3, <1>5
  <2>2. RowOK(r, 0) /\ 0 <= n
    BY <1>5 DEF RowsOK
  <2>3. new(r) = [r EXCEPT !.rev = rev]
    OBVIOUS
  <2> HIDE DEF rev, new
  <2>4. /\ RowOK(new(r), n) /\ new(r).rev = rev /\ new(r).ref = r.ref /\ new(r).meant = r.meant
        /\ Same(r, new(r))
    BY <1>5, <2>1, <2>2, <2>3, StampRow
  <2>5. new(r).key = r.key /\ new(r).born = r.born /\ new(r).name = r.name
    BY <2>4 DEF Same
  <2> QED BY <2>1, <2>4, <2>5 DEF rev
<1>8. T = {new(r) : r \in S}
  BY DEF Numbered, off
<1> HIDE DEF new, T
<1>9. ASSUME NEW p \in S, NEW q \in S, new(p).rev = new(q).rev
      PROVE  p = q
  <2>1. p.key[2] + off[p.key[1]] = q.key[2] + off[q.key[1]]
    BY <1>7, <1>9
  <2>2. p.key[1] = q.key[1]
    <3>1. /\ p.key[2] > 0 /\ q.key[2] > 0 /\ p.key[2] \in Nat /\ q.key[2] \in Nat
          /\ p.key[2] <= last(p.key[1]) /\ q.key[2] <= last(q.key[1])
          /\ off[p.key[1]] \in Nat /\ off[q.key[1]] \in Nat /\ last(p.key[1]) \in Nat /\ last(q.key[1]) \in Nat
      BY <1>1, <1>3, <1>5
    <3>2. p.key[1] # q.key[1] => \/ off[p.key[1]] + last(p.key[1]) <= off[q.key[1]]
                               \/ off[q.key[1]] + last(q.key[1]) <= off[p.key[1]]
      BY <1>1, <1>6
    <3> QED BY <2>1, <3>1, <3>2
  <2>3. p.key[2] = q.key[2]
    <3>1. p.key[2] \in Nat /\ q.key[2] \in Nat /\ off[p.key[1]] \in Nat
      BY <1>1, <1>5
    <3> QED BY <2>1, <2>2, <3>1
  <2>4. p.key = q.key
    BY <1>1, <2>2, <2>3
  <2> QED BY <2>4 DEF RowsOK
<1>10. IsFiniteSet(T)
  <2> DEFINE f == [r \in S |-> new(r)]
  <2>1. DOMAIN f = S /\ T = {f[r] : r \in S}
    BY <1>8
  <2> HIDE DEF f
  <2> QED BY <2>1, ImageFinite DEF RowsOK
<1>11. ASSUME NEW r \in S
       PROVE  Refers(T, new(r))
  <2>1. Refers(S, r)
    BY DEF RowsOK
  <2>2. Refers(S, new(r))
    BY <1>7, <2>1 DEF Refers, References, Target
  <2>3. \A q \in S : \E t \in T : t.key = q.key /\ t.born = q.born
    BY <1>7, <1>8
  <2> QED BY <2>2, <2>3, RefersMore
<1>12. RowsOK(T, n)
  <2>1. \A r \in T : RowOK(r, n) /\ Refers(T, r)
    BY <1>7, <1>8, <1>11
  <2>2. \A p, q \in T : p.key = q.key => p = q
    BY <1>7, <1>8 DEF RowsOK
  <2>3. \A p, q \in In(T, "sessions") : p.name = q.name => p = q
    <3> SUFFICES ASSUME NEW p \in T, NEW q \in T, p.key[1] = "sessions", q.key[1] = "sessions", p.name = q.name
                 PROVE  p = q
      BY DEF In
    <3>1. PICK a \in S : p = new(a)
      BY <1>8
    <3>2. PICK b \in S : q = new(b)
      BY <1>8
    <3>3. a \in In(S, "sessions") /\ b \in In(S, "sessions") /\ a.name = b.name
      BY <1>7, <3>1, <3>2 DEF In
    <3> QED BY <3>1, <3>2, <3>3 DEF RowsOK
  <2>4. \E j \in Nat : \A r \in T : r.key[2] <= j
    BY <1>2, <1>7, <1>8
  <2> QED BY <1>5, <1>10, <2>1, <2>2, <2>3, <2>4 DEF RowsOK
<1>13. RevsOK(T)
  <2>1. \A r \in T : r.rev # 0
    BY <1>5, <1>7, <1>8
  <2>2. \A p, q \in T : p.rev = q.rev => p = q
    BY <1>8, <1>9
  <2> QED BY <2>1, <2>2 DEF RevsOK
<1>14. Lossless(S, T) /\ \A q \in T : q.key[1] # "run_env"
  BY <1>7, <1>8 DEF Lossless
<1> QED BY <1>12, <1>13, <1>14 DEF n, T

\* What an older buckle left.
LEMMA ArchiveOK ==
    ASSUME NEW i \in 1..2
    PROVE  RowsOK(Archive(i), 0) /\ \A r \in Archive(i) : r.key[1] # "run_env"
<1> DEFINE refs == [watch_id |-> [id |-> 1, born |-> 0], run_id |-> [id |-> i, born |-> 0], parent_run_id |-> Nothing,
                    session_id |-> Nothing, profile_hash |-> Nothing, parent_process_id |-> Nothing]
           watch == NewRow("watches", 1, 0, refs)
           run == NewRow("runs", i, 0, refs)
           process == NewRow("processes", i, 0, refs)
<1>1. Archive(i) = {watch, run, process}
  BY DEF Archive
<1>2. /\ Columns("watches") = {}
      /\ Columns("runs") \subseteq {"watch_id", "profile_hash", "parent_run_id", "session_id"}
      /\ Columns("processes") \subseteq {"run_id", "parent_process_id"}
  BY DEF Columns, ForeignKeys, NoAction, SetNull, Cascade
<1>3. /\ refs["watch_id"].id = 1 /\ refs["watch_id"].born = 0
      /\ refs["run_id"].id = i /\ refs["run_id"].born = 0
      /\ \A c \in {"parent_run_id", "session_id", "profile_hash", "parent_process_id"} : refs[c].id = NULL /\ refs[c].born = NULL
  BY DEF Nothing
<1> HIDE DEF refs
<1>4. \A t \in {"watches", "runs", "processes"} : \A c \in Columns(t) : refs[c].id \in Ref /\ refs[c].born \in Ref
  BY <1>2, <1>3 DEF Ref
<1>5. RowOK(watch, 0) /\ watch.key = <<"watches", 1>> /\ watch.born = 0
  BY <1>4, NewRowOK DEF RowTables, V2Tables
<1>6. /\ RowOK(run, 0) /\ run.key = <<"runs", i>> /\ run.born = 0
      /\ \A c \in Columns("runs") : run.ref[c] = refs[c].id /\ run.meant[c] = refs[c].born
  BY <1>4, NewRowOK DEF RowTables, V2Tables
<1>7. /\ RowOK(process, 0) /\ process.key = <<"processes", i>> /\ process.born = 0
      /\ \A c \in Columns("processes") : process.ref[c] = refs[c].id /\ process.meant[c] = refs[c].born
  BY <1>4, NewRowOK DEF RowTables, V2Tables
<1> HIDE DEF watch, run, process
<1>8. Refers(Archive(i), watch)
  <2>1. References(watch) = {}
    BY <1>5 DEF References, ForeignKeys, NoAction, SetNull, Cascade
  <2> QED BY <2>1 DEF Refers
<1>9. Refers(Archive(i), run)
  <2>1. \A fk \in References(run) : fk.col \in Columns("runs") /\ fk.from = "runs"
    BY <1>6 DEF References, Columns
  <2>2. \A fk \in References(run) : fk.col = "watch_id" /\ fk.to = "watches"
    BY <2>1, <1>3, <1>6 DEF References, ForeignKeys, NoAction, SetNull, Cascade
  <2>3. \A fk \in References(run) : Target(run, fk) = watch.key /\ run.meant[fk.col] = watch.born
    BY <2>1, <1>3, <1>5, <1>6, <2>2 DEF Target
  <2> QED BY <1>1, <2>3 DEF Refers
<1>10. Refers(Archive(i), process)
  <2>1. \A fk \in References(process) : fk.col \in Columns("processes") /\ fk.from = "processes"
    BY <1>7 DEF References, Columns
  <2>2. \A fk \in References(process) : fk.col = "run_id" /\ fk.to = "runs"
    BY <2>1, <1>3, <1>7 DEF References, ForeignKeys, NoAction, SetNull, Cascade
  <2>3. \A fk \in References(process) : Target(process, fk) = run.key /\ process.meant[fk.col] = run.born
    BY <2>1, <1>3, <1>6, <1>7, <2>2 DEF Target
  <2> QED BY <1>1, <2>3 DEF Refers
<1>11. IsFiniteSet(Archive(i))
  <2>1. IsFiniteSet({watch}) /\ IsFiniteSet({run}) /\ IsFiniteSet({process})
    BY FS_Singleton
  <2>2. IsFiniteSet({watch} \cup {run})
    BY <2>1, FS_Union
  <2>3. IsFiniteSet(({watch} \cup {run}) \cup {process})
    BY <2>1, <2>2, FS_Union
  <2>4. Archive(i) = ({watch} \cup {run}) \cup {process}
    BY <1>1
  <2> QED BY <2>3, <2>4
<1>12. \A r \in Archive(i) : r.key[2] <= 2
  BY <1>1, <1>5, <1>6, <1>7
<1>13. \A p, q \in Archive(i) : p.key = q.key => p = q
  BY <1>1, <1>5, <1>6, <1>7
<1>14. \A r \in Archive(i) : r.key[1] \notin {"sessions", "run_env"}
  BY <1>1, <1>5, <1>6, <1>7
<1>15. \A r \in Archive(i) : RowOK(r, 0) /\ Refers(Archive(i), r)
  BY <1>1, <1>5, <1>6, <1>7, <1>8, <1>9, <1>10
<1> QED BY <1>11, <1>12, <1>13, <1>14, <1>15 DEF RowsOK, In

LEMMA IdsOK ==
    ASSUME NEW S, NEW n, RowsOK(S, n)
    PROVE  {Id(r) : r \in S} \subseteq [key : Tables(SchemaVersion) \X (Nat \ {0}), born : Nat]
<1> SUFFICES ASSUME NEW r \in S
             PROVE  Id(r) \in [key : Tables(SchemaVersion) \X (Nat \ {0}), born : Nat]
  OBVIOUS
<1>1. r.key \in RowTables \X (Nat \ {0}) /\ r.born \in Nat
  BY DEF RowsOK, RowOK
<1>2. RowTables \subseteq Tables(SchemaVersion)
  BY DEF RowTables, Tables, SchemaVersion
<1> QED BY <1>1, <1>2 DEF Id

LEMMA NoRowsOK == RowsOK({}, 0) /\ RevsOK({})
BY FS_EmptySet DEF RowsOK, RevsOK, In

LEMMA InitOK == Init => IInv
<1> SUFFICES ASSUME Init
             PROVE  IInv
  OBVIOUS
<1>1. OpenInv
  <2>1. proc = [p \in Process |-> Off] /\ version \in 0..(SchemaVersion + 1)
    BY DEF Init, SchemaVersion
  <2>2. Off.pc = "off" /\ Shaped(Off)
    BY DEF Off, Shaped
  <2> QED BY <2>1, <2>2 DEF OpenInv, Shaped
<1>2. /\ RowsOK(rows, counter) /\ (version >= 2 => RevsOK(rows)) /\ (version < 2 => counter = 0 /\ instance = 0)
      /\ (version < 2 => \A r \in rows : r.key[1] # "run_env") /\ instance \in 0..1
  <2>1. PICK i \in IF version \in {1, 2} THEN 1..2 ELSE {0} :
          LET S == IF version \in {1, 2} THEN Archive(i) ELSE {} IN
          IF version = 2
          THEN rows = Numbered(S) /\ counter = Highest(S) /\ instance = 1
          ELSE rows = S /\ counter = 0 /\ instance = 0
    BY DEF Init
  <2>2. version \in {0, 1, 2, 4}
    BY DEF Init, SchemaVersion
  <2>3. CASE version = 2
    BY <2>1, <2>3, ArchiveOK, NumberedOK
  <2>4. CASE version = 1
    BY <2>1, <2>4, ArchiveOK
  <2>5. CASE version \in {0, 4}
    <3>1. rows = {} /\ counter = 0 /\ instance = 0
      BY <2>1, <2>5
    <3> QED BY <3>1, NoRowsOK
  <2> QED BY <2>2, <2>3, <2>4, <2>5
<1>3. DataInv
  BY <1>2, IdsOK DEF Init, DataInv
<1>4. ProcInv
  <2>1. \A p \in Process : proc[p] = Off
    BY DEF Init
  <2>2. Off.pc = "off" /\ Off.held = {} /\ Off.session = NULL
    BY DEF Off
  <2>3. ProcOK(Off, counter) /\ Undisturbed(Off, rows)
    BY <2>2 DEF ProcOK, Undisturbed, Hand
  <2> QED BY <2>1, <2>2, <2>3 DEF Init, ProcInv
<1> QED BY <1>1, <1>3, <1>4 DEF IInv

-----------------------------------------------------------------------------
(* Steps *)

\* What a step does to the rows: nothing, a transaction, or they are numbered for the first time.
Moves ==
    \/ version >= 2 /\ version' >= 2 /\ UNCHANGED <<rows, counter>>
    \/ version < 2 /\ UNCHANGED <<version, rows, counter>>
    \/ version >= 2 /\ version' = version /\ Commits(rows, counter, rows', counter')
    \/ version < 2 /\ version' = SchemaVersion /\ RowsOK(rows', counter') /\ RevsOK(rows')

Spared == \A r \in rows : Recent(r) => Kept(r)

LEMMA LosslessSpared ==
    ASSUME Lossless(rows, rows')
    PROVE  Spared
<1> SUFFICES ASSUME NEW r \in rows
             PROVE  Kept(r)
  BY DEF Spared
<1>1. PICK q \in rows' : Same(r, q)
  BY DEF Lossless
<1>2. Id(q) = Id(r)
  BY <1>1 DEF Same, Id
<1>3. \A fk \in References(r) : q.ref[fk.col] = r.ref[fk.col]
  BY <1>1 DEF Same, References, Columns
<1> QED BY <1>2, <1>3 DEF Kept

LEMMA PruneSpared ==
    ASSUME Spares(rows, rows')
    PROVE  Spared
<1> SUFFICES ASSUME NEW r \in rows, Recent(r)
             PROVE  Kept(r)
  BY DEF Spared
<1>1. RecentIn(rows, r)
  BY DEF Recent, RecentIn, RecentRun, RunIn
<1>2. PICK q \in rows' : KeptAs(r, q)
  BY <1>1 DEF Spares
<1> QED BY <1>2 DEF Kept, KeptAs, Id

\* A step of a process that ends up with nothing in its hand.
LEMMA IdleStep ==
    ASSUME IInv, counter' \in Nat, counter <= counter', version' \in Int, version <= version',
           NEW p \in Process, NEW x, proc' = [proc EXCEPT ![p] = x],
           x.pc \notin {"watch", "refused"}, x.held = {}, x.session = NULL, x.pc = "upgrade" => x.seen <= version',
           Lossless(rows, rows'), disturbed' = disturbed \ {p}
    PROVE  ProcInv'
<1>1. counter \in Nat
  BY DEF IInv, DataInv, RowsOK
<1>2. ProcOK(x, counter') /\ Undisturbed(x, rows')
  BY DEF ProcOK, Undisturbed, Hand
<1>3. \A v \in Process : proc'[v] = IF v = p THEN x ELSE proc[v]
  BY DEF IInv, OpenInv
<1>4. disturbed' \subseteq Watching'
  BY <1>3 DEF IInv, ProcInv, Watching
<1>5. \A v \in Process \ (disturbed' \cup {p}) : v \notin disturbed
  OBVIOUS
<1> QED BY <1>1, <1>2, <1>4, <1>5, ProcStep DEF IInv

\* The process p has nothing in its hand.
LEMMA IdleNow ==
    ASSUME IInv, NEW p \in Process, proc[p].pc \notin {"begin", "watch", "refused"}
    PROVE  proc[p].held = {} /\ proc[p].session = NULL /\ disturbed = disturbed \ {p}
<1>1. proc[p].held = {} /\ proc[p].session = NULL
  BY DEF IInv, ProcInv, ProcOK
<1>2. p \notin disturbed
  BY DEF IInv, ProcInv, Watching
<1> QED BY <1>1, <1>2

\* The steps that leave the rows alone.
LEMMA StillStep ==
    ASSUME IInv, UNCHANGED <<version, instance, counter, rows>>, old' = old \/ old' = {Id(r) : r \in rows}
    PROVE  /\ DataInv' /\ Moves /\ Spared /\ Lossless(rows, rows')
           /\ counter' \in Nat /\ counter <= counter' /\ version' \in Int /\ version <= version'
<1>1. RowsOK(rows, counter) /\ counter \in Nat /\ version \in Int
  BY DEF IInv, DataInv, RowsOK, OpenInv
<1>2. old' \subseteq [key : Tables(SchemaVersion) \X (Nat \ {0}), born : Nat]
  BY <1>1, IdsOK DEF IInv, DataInv
<1>3. DataInv'
  BY <1>2 DEF IInv, DataInv
<1>4. Lossless(rows, rows')
  BY SameSelf DEF Lossless
<1>5. Moves
  BY <1>1 DEF Moves
<1> QED BY <1>1, <1>3, <1>4, <1>5, LosslessSpared

LEMMA OpenKeeps ==
    ASSUME IInv, NEW p \in Process, NEW cmd \in {"watch", "migrate"}, Open(p, cmd)
    PROVE  DataInv' /\ ProcInv' /\ Moves /\ Spared
<1> DEFINE next == IF version = SchemaVersion THEN "prepare" ELSE "upgrade"
           x == [pc |-> next, cmd |-> cmd, seen |-> version, session |-> NULL, held |-> {}]
<1>1. proc[p].pc = "off" /\ UNCHANGED <<version, instance, counter, rows, old, disturbed>>
  BY DEF Open
<1>2. [Off EXCEPT !.pc = next, !.cmd = cmd, !.seen = version] = x
  <2> DEFINE gone == [Off EXCEPT !.pc = next]
             named == [gone EXCEPT !.cmd = cmd]
  <2>1. gone = [pc |-> next, cmd |-> "none", seen |-> 0, session |-> NULL, held |-> {}]
    <3> HIDE DEF next
    <3> QED BY DEF Off
  <2> HIDE DEF gone
  <2>2. named = [pc |-> next, cmd |-> cmd, seen |-> 0, session |-> NULL, held |-> {}]
    <3> HIDE DEF next
    <3> QED BY <2>1
  <2> HIDE DEF named
  <2>3. [named EXCEPT !.seen = version] = x
    <3> HIDE DEF next
    <3> QED BY <2>2
  <2> QED BY <2>3 DEF named, gone
<1>3. proc' = [proc EXCEPT ![p] = x]
  BY <1>2 DEF Open
<1>4. x.pc \in {"prepare", "upgrade"} /\ x.held = {} /\ x.session = NULL /\ x.seen = version
  OBVIOUS
<1> HIDE DEF x
<1>5. disturbed' = disturbed \ {p}
  BY <1>1, IdleNow
<1>6. /\ DataInv' /\ Moves /\ Spared /\ Lossless(rows, rows')
      /\ counter' \in Nat /\ counter <= counter' /\ version' \in Int /\ version <= version'
  BY <1>1, StillStep
<1>7. x.pc = "upgrade" => x.seen <= version'
  BY <1>1, <1>4, <1>6
<1>8. ProcInv'
  BY <1>3, <1>4, <1>5, <1>6, <1>7, IdleStep
<1> QED BY <1>6, <1>8

LEMMA UpgradeKeeps ==
    ASSUME IInv, NEW p \in Process, Upgrade(p)
    PROVE  DataInv' /\ ProcInv' /\ Moves /\ Spared
<1> DEFINE seen == proc[p].seen
           x == Now(p, "prepare", proc[p].session, proc[p].held)
<1>1. proc[p].pc = "upgrade" /\ version' = SchemaVersion /\ UNCHANGED <<old, disturbed>>
  BY DEF Upgrade
<1>2. seen \in 0..2 /\ version \in 0..(SchemaVersion + 1) /\ seen <= version
  BY <1>1 DEF IInv, OpenInv, ProcInv
<1>3. version <= seen
  BY <1>2, CreatedOnce DEF Upgrade
<1>4. proc' = [proc EXCEPT ![p] = x]
  BY GotoNow DEF IInv, Upgrade
<1>5. x.pc = "prepare" /\ x.held = {} /\ x.session = NULL /\ disturbed' = disturbed \ {p}
  BY <1>1, IdleNow DEF Now
<1> HIDE DEF x
<1>6. RowsOK(rows, counter) /\ counter \in Nat /\ version' \in Int /\ version' = 3 /\ version <= version'
  BY <1>1, <1>2, <1>3 DEF IInv, DataInv, RowsOK, SchemaVersion
<1>7. CASE seen < 2
  <2>1. version < 2 /\ counter = 0 /\ instance = 0
    BY <1>2, <1>3, <1>7 DEF IInv, DataInv
  <2>2. instance' = instance + 1 /\ rows' = Numbered(rows) /\ counter' = Highest(rows)
    BY <1>7 DEF Upgrade
  <2>3. \A r \in rows : r.key[1] # "run_env"
    BY <2>1 DEF IInv, DataInv
  <2>4. RowsOK(rows', counter') /\ RevsOK(rows') /\ Lossless(rows, rows')
    BY <1>6, <2>1, <2>2, <2>3, NumberedOK
  <2>5. DataInv'
    BY <1>1, <1>6, <2>1, <2>2, <2>4 DEF IInv, DataInv
  <2>6. counter' \in Nat /\ counter <= counter'
    BY <2>1, <2>4 DEF RowsOK
  <2>7. ProcInv'
    BY <1>4, <1>5, <1>6, <2>4, <2>6, IdleStep
  <2>8. Moves
    BY <1>1, <2>1, <2>4 DEF Moves
  <2> QED BY <2>4, <2>5, <2>7, <2>8, LosslessSpared
<1>8. CASE ~(seen < 2)
  <2>1. version = 2
    BY <1>2, <1>3, <1>8
  <2>2. UNCHANGED <<instance, rows, counter>>
    BY <1>8 DEF Upgrade
  <2>3. Lossless(rows, rows')
    BY <2>2, SameSelf DEF Lossless
  <2>4. DataInv'
    BY <1>1, <1>6, <2>1, <2>2 DEF IInv, DataInv
  <2>5. counter' \in Nat /\ counter <= counter'
    BY <1>6, <2>2
  <2>6. ProcInv'
    BY <1>4, <1>5, <1>6, <2>3, <2>5, IdleStep
  <2>7. Moves
    BY <1>6, <2>1, <2>2 DEF Moves
  <2> QED BY <2>3, <2>4, <2>6, <2>7, LosslessSpared
<1> QED BY <1>7, <1>8

LEMMA PrepareKeeps ==
    ASSUME IInv, NEW p \in Process, Prepare(p)
    PROVE  DataInv' /\ ProcInv' /\ Moves /\ Spared
<1> DEFINE x == IF proc[p].cmd = "watch" THEN [Off EXCEPT !.pc = "prune"] ELSE Off
<1>1. /\ proc[p].pc = "prepare" /\ UNCHANGED <<version, instance, counter, rows, old, disturbed>>
      /\ proc' = [proc EXCEPT ![p] = x]
  BY DEF Prepare
<1>2. x.pc \in {"prune", "off"} /\ x.held = {} /\ x.session = NULL
  BY DEF Off
<1> HIDE DEF x
<1>3. disturbed' = disturbed \ {p}
  BY <1>1, IdleNow
<1>4. /\ DataInv' /\ Moves /\ Spared /\ Lossless(rows, rows')
      /\ counter' \in Nat /\ counter <= counter' /\ version' \in Int /\ version <= version'
  BY <1>1, StillStep
<1>5. ProcInv'
  BY <1>1, <1>2, <1>3, <1>4, IdleStep
<1> QED BY <1>4, <1>5

LEMMA LeaveKeeps ==
    ASSUME IInv, NEW p \in Process, Leave(p)
    PROVE  DataInv' /\ ProcInv' /\ Moves /\ Spared
<1>1. /\ UNCHANGED <<version, instance, counter, rows, old>> /\ disturbed' = disturbed \ {p}
      /\ proc' = [proc EXCEPT ![p] = Off]
  BY DEF Leave, database
<1>2. Off.pc = "off" /\ Off.held = {} /\ Off.session = NULL
  BY DEF Off
<1>3. /\ DataInv' /\ Moves /\ Spared /\ Lossless(rows, rows')
      /\ counter' \in Nat /\ counter <= counter' /\ version' \in Int /\ version <= version'
  BY <1>1, StillStep
<1>4. ProcInv'
  BY <1>1, <1>2, <1>3, IdleStep
<1> QED BY <1>3, <1>4

\* The steps of a watch that has begun or is about to.
LEMMA WatchKeeps ==
    ASSUME IInv, version >= 2, NEW w \in Process, BeginWatch(w) \/ Write(w) \/ EndWatch(w)
    PROVE  DataInv' /\ ProcInv' /\ Moves /\ Spared
<1>1. PICK x : Writes(w, x)
  BY BeginWatchWrites, WriteWrites, EndWatchWrites
<1>2. DataInv' /\ ProcInv'
  BY <1>1, WritesKeep
<1>3. Commits(rows, counter, rows', counter') /\ Lossless(rows, rows') /\ version' = version
  BY <1>1 DEF Writes, Grows
<1> QED BY <1>2, <1>3, LosslessSpared DEF Moves

\* No write finds a database that has not been upgraded.
LEMMA UpToDate ==
    ASSUME IInv, NEW w \in Process, Prune(w) \/ BeginWatch(w) \/ Write(w) \/ EndWatch(w)
    PROVE  version >= 2
<1>1. proc[w].pc \in {"prune", "begin", "watch", "refused"}
  BY CalmWrite DEF IInv, Prune, BeginWatch, EndWatch, Calm
<1> QED BY <1>1 DEF IInv, OpenInv, SchemaVersion

LEMMA DataStep ==
    ASSUME IInv, [Next]_vars
    PROVE  IInv' /\ Moves /\ Spared
<1>1. OpenInv'
  BY NextStep DEF IInv
<1>2. ASSUME NEW p \in Process, \/ \E cmd \in {"watch", "migrate"} : Open(p, cmd)
                                \/ Upgrade(p) \/ Prepare(p) \/ Leave(p)
      PROVE  DataInv' /\ ProcInv' /\ Moves /\ Spared
  BY <1>2, OpenKeeps, UpgradeKeeps, PrepareKeeps, LeaveKeeps
<1>3. ASSUME NEW w \in Process, Prune(w)
      PROVE  DataInv' /\ ProcInv' /\ Moves /\ Spared
  <2>1. version >= 2
    BY <1>3, UpToDate
  <2>2. DataInv' /\ ProcInv' /\ Commits(rows, counter, rows', counter') /\ Spares(rows, rows') /\ version' = version
    BY <1>3, <2>1, PruneKeeps
  <2> QED BY <2>1, <2>2, PruneSpared DEF Moves
<1>4. ASSUME NEW w \in Process, BeginWatch(w) \/ Write(w) \/ EndWatch(w)
      PROVE  DataInv' /\ ProcInv' /\ Moves /\ Spared
  BY <1>4, UpToDate, WatchKeeps
<1>5. CASE Age \/ UNCHANGED vars
  <2>1. /\ UNCHANGED <<version, instance, counter, rows, proc, disturbed>>
        /\ old' = old \/ old' = {Id(r) : r \in rows}
    BY <1>5 DEF Age, vars, database
  <2>2. ProcInv'
    BY <2>1 DEF IInv, ProcInv, Watching
  <2>3. DataInv' /\ Moves /\ Spared
    BY <2>1, StillStep
  <2> QED BY <1>1, <2>2, <2>3 DEF IInv
<1> QED BY <1>1, <1>2, <1>3, <1>4, <1>5 DEF Next, IInv

LEMMA IInvHolds == Spec => []IInv
<1>1. IInv /\ [Next]_vars => IInv'
  BY DataStep
<1> QED BY <1>1, InitOK, PTL DEF Spec

-----------------------------------------------------------------------------
(* Properties *)

Flags == exists \in BOOLEAN /\ ready \in BOOLEAN

LEMMA FlagsHold == Spec => []Flags
<1>1. Init => Flags
  BY DEF Init, Flags
<1>2. Flags /\ [Next]_vars => Flags'
  <2> SUFFICES ASSUME Flags, [Next]_vars
               PROVE  Flags'
    OBVIOUS
  <2>1. ASSUME NEW p \in Process, \/ \E cmd \in {"watch", "migrate"} : Open(p, cmd)
                                  \/ Upgrade(p) \/ Prepare(p) \/ Leave(p)
        PROVE  Flags'
    BY <2>1 DEF Open, Upgrade, Prepare, Leave, database, Flags
  <2>2. ASSUME NEW w \in Process, Write(w)
        PROVE  UNCHANGED <<exists, ready>>
    <3>1. ASSUME NEW s \in Session, EnsureSession(w, s)
          PROVE  UNCHANGED <<exists, ready>>
      BY <3>1 DEF EnsureSession, Store
    <3>2. ASSUME NEW parent, NEW hash, NEW env, InsertRun(w, parent, hash, env)
          PROVE  UNCHANGED <<exists, ready>>
      BY <3>2 DEF InsertRun, Store, database
    <3>3. ASSUME NEW h, SetRunSession(w, h)
          PROVE  UNCHANGED <<exists, ready>>
      BY <3>3 DEF SetRunSession, Store, database
    <3>4. ASSUME NEW t, NEW refs, Insert(w, t, refs)
          PROVE  UNCHANGED <<exists, ready>>
      BY <3>4 DEF Insert, Store, database
    <3>5. CASE Update(w)
      BY <3>5 DEF Update, Touch, Store
    <3> QED BY <2>2, <3>1, <3>2, <3>3, <3>4, <3>5 DEF Write, InsertProcess, InsertDenial, InsertOrphan
  <2>3. ASSUME NEW w \in Process, Prune(w) \/ BeginWatch(w) \/ EndWatch(w)
        PROVE  UNCHANGED <<exists, ready>>
    BY <2>3 DEF Prune, BeginWatch, EndWatch, Store
  <2>4. CASE Age \/ UNCHANGED vars
    BY <2>4 DEF Age, vars, database, Flags
  <2> QED BY <2>1, <2>2, <2>3, <2>4 DEF Next, Flags
<1> QED BY <1>1, <1>2, PTL DEF Spec

\* Every row of every table has a key of its table and a revision that the counter has reached, and
\* only watches that are running can have been disturbed.
THEOREM StoreTypeCorrect == Spec => []TypeOK
<1>1. IInv /\ Flags => TypeOK
  <2> SUFFICES ASSUME IInv, Flags
               PROVE  TypeOK
    OBVIOUS
  <2>1. counter \in Nat /\ \A r \in rows : r.key \in RowTables \X (Nat \ {0}) /\ r.rev \in 0..counter
    BY DEF IInv, DataInv, RowsOK, RowOK
  <2>2. RowTables \subseteq Tables(SchemaVersion)
    BY DEF RowTables, Tables, SchemaVersion
  <2> QED BY <2>1, <2>2 DEF IInv, OpenInv, DataInv, ProcInv, Flags, TypeOK
<1> QED BY <1>1, IInvHolds, FlagsHold, PTL

\* However many watches and migrations overlap, and whatever they prune: a reference of a row points
\* to a row that is there, and to the very record the watch meant, although rowids are used again,
\* unless another process has pruned during the life of that watch (Prune, Correlator).
THEOREM RightParentsHolds == Spec => []RightParents
<1>1. IInv => RightParents
  <2> SUFFICES ASSUME IInv, NEW r \in rows, NEW fk \in ForeignKeys, fk.from = r.key[1], r.ref[fk.col] # NULL
               PROVE  \E q \in rows : q.key = Target(r, fk) /\ r.meant[fk.col] \in {q.born, NULL}
    BY DEF RightParents
  <2>1. Refers(rows, r) /\ fk \in References(r)
    BY DEF IInv, DataInv, RowsOK, References
  <2> QED BY <2>1 DEF Refers
<1> QED BY <1>1, IInvHolds, PTL

\* A watch during whose life no other process pruned is never refused a row by a foreign key, whatever
\* it remembers and whoever else writes (InsertRun, InsertProcess, InsertDenial, SetRunSession).
THEOREM NeverRefusedHolds == Spec => []NeverRefused
<1>1. IInv => NeverRefused
  BY DEF IInv, ProcInv, Undisturbed, NeverRefused
<1> QED BY <1>1, IInvHolds, PTL

\* No step of any process, Prune above all, deletes a run or an orphan within Retention, nor what
\* belongs to such a run, nor sets a reference of it to NULL (prune.go).
THEOREM RecentKeptHolds == Spec => RecentKept
<1>1. IInv /\ [Next]_vars => [\A r \in rows : Recent(r) => Kept(r)]_vars
  BY DataStep DEF Spared
<1> QED BY <1>1, IInvHolds, PTL DEF Spec, RecentKept

\* What Replica sees of a table.
Seen(S) == {[key |-> r.key, rev |-> r.rev, born |-> r.born, ref |-> r.ref] : r \in S}

LEMMA SeenUnique ==
    ASSUME NEW S, NEW n, RowsOK(S, n), RevsOK(S)
    PROVE  Abstract!Unique(Seen(S)) /\ \A v \in Seen(S) : v.rev \in 1..n
<1>1. ASSUME NEW v \in Seen(S)
      PROVE  v.rev \in 1..n
  <2>1. PICK r \in S : v = [key |-> r.key, rev |-> r.rev, born |-> r.born, ref |-> r.ref]
    BY DEF Seen
  <2>2. r.rev \in 0..n /\ r.rev # 0 /\ v.rev = r.rev /\ n \in Nat
    BY <2>1 DEF RowsOK, RowOK, RevsOK
  <2> QED BY <2>2
<1>2. ASSUME NEW v \in Seen(S), NEW u \in Seen(S), v.key = u.key \/ v.rev = u.rev
      PROVE  v = u
  <2>1. PICK r \in S : v = [key |-> r.key, rev |-> r.rev, born |-> r.born, ref |-> r.ref]
    BY DEF Seen
  <2>2. PICK q \in S : u = [key |-> q.key, rev |-> q.rev, born |-> q.born, ref |-> q.ref]
    BY DEF Seen
  <2>3. r.key = q.key \/ r.rev = q.rev
    BY <1>2, <2>1, <2>2
  <2>4. r = q
    BY <2>3 DEF RowsOK, RevsOK
  <2> QED BY <2>1, <2>2, <2>4
<1> QED BY <1>1, <1>2 DEF Abstract!Unique

LEMMA SeenMore ==
    ASSUME NEW S, NEW n, NEW T, NEW m, Commits(S, n, T, m)
    PROVE  \A v \in Seen(T) : v \in Seen(S) \/ v.rev \in (n + 1)..m
<1> SUFFICES ASSUME NEW v \in Seen(T)
             PROVE  v \in Seen(S) \/ v.rev \in (n + 1)..m
  OBVIOUS
<1>1. PICK r \in T : v = [key |-> r.key, rev |-> r.rev, born |-> r.born, ref |-> r.ref]
  BY DEF Seen
<1>2. v.rev = r.rev
  BY <1>1
<1>3. CASE r \in S
  BY <1>1, <1>3 DEF Seen
<1> QED BY <1>2, <1>3 DEF Commits

\* The revisions of all tables together are what the shipper and the server rely on: an upgrade
\* numbers what is there, every transaction numbers what it writes above all that was, uniquely, and
\* Prune's cascades and SET NULLs are no exception (upgradeV2, the rev triggers, Prune).
THEOREM ImplementsReplicaHolds == Spec => ImplementsReplica
<1> DEFINE table == IF version >= 2 THEN Seen(rows) ELSE {}
           last == IF version >= 2 THEN counter ELSE 0
<1>1. ASSUME IInv
      PROVE  /\ last \in Nat /\ Abstract!Unique(table) /\ \A v \in table : v.rev \in 1..last
  <2>1. RowsOK(rows, counter) /\ counter \in Nat /\ (version >= 2 => RevsOK(rows))
    BY <1>1 DEF IInv, DataInv, RowsOK
  <2>2. CASE version >= 2
    BY <2>1, <2>2, SeenUnique
  <2>3. CASE ~(version >= 2)
    BY <2>3 DEF Abstract!Unique
  <2> QED BY <2>2, <2>3
<1>2. Init => Abstract!Init
  BY <1>1, InitOK DEF Abstract!Init, Seen
<1>3. ASSUME IInv, IInv', [Next]_vars
      PROVE  [Abstract!Next]_(Abstract!vars)
  <2>1. version \in Int /\ version' \in Int /\ counter \in Nat /\ counter' \in Nat
    BY <1>3 DEF IInv, OpenInv, DataInv, RowsOK
  <2>2. CASE version >= 2 /\ version' >= 2 /\ UNCHANGED <<rows, counter>>
    <3>1. table' = table /\ last' = last
      BY <2>2
    <3> QED BY <3>1 DEF Abstract!vars, Seen
  <2>3. CASE version < 2 /\ UNCHANGED <<version, rows, counter>>
    <3>1. table' = table /\ last' = last
      BY <2>3
    <3> QED BY <3>1 DEF Abstract!vars, Seen
  <2>4. CASE version >= 2 /\ version' = version /\ Commits(rows, counter, rows', counter')
    <3>1. table = Seen(rows) /\ table' = Seen(rows') /\ last = counter /\ last' = counter'
      BY <2>4
    <3>2. Abstract!Unique(Seen(rows'))
      BY <2>4, SeenUnique DEF Commits
    <3>3. \A v \in Seen(rows') : v \in Seen(rows) \/ v.rev \in (counter + 1)..counter'
      BY <2>4, SeenMore
    <3>4. counter <= counter'
      BY <2>4 DEF Commits
    <3>5. Abstract!Commit
      BY <2>1, <3>1, <3>2, <3>3, <3>4 DEF Abstract!Commit, Seen
    <3> QED BY <3>5 DEF Abstract!Next
  <2>5. CASE version < 2 /\ version' = SchemaVersion /\ RowsOK(rows', counter') /\ RevsOK(rows')
    <3>1. table = {} /\ table' = Seen(rows') /\ last = 0 /\ last' = counter'
      BY <2>1, <2>5 DEF SchemaVersion
    <3>2. Abstract!Unique(Seen(rows')) /\ \A v \in Seen(rows') : v.rev \in 1..counter'
      BY <2>5, SeenUnique
    <3>3. 0 <= counter' /\ \A v \in Seen(rows') : v.rev \in (0 + 1)..counter'
      BY <2>1, <3>2
    <3>4. Abstract!Commit
      BY <2>1, <3>1, <3>2, <3>3 DEF Abstract!Commit, Seen
    <3> QED BY <3>4 DEF Abstract!Next
  <2> QED BY <1>3, <2>2, <2>3, <2>4, <2>5, DataStep DEF Moves
<1> QED BY <1>2, <1>3, IInvHolds, PTL DEF Spec, ImplementsReplica, Abstract!Spec
=============================================================================
