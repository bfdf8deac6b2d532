# A TLA+ verification of buckle

buckle records what macOS sandboxes deny. `buckle watch` reads two streams, process events from
eslogger and denial lines from `log stream`, and writes runs, processes and denials to a SQLite
database; `buckle ship` sends that database to a report server, `buckle serve`.

The modules here model the parts of buckle that are concurrent, ordered or timed:

| module | models | checked by |
| --- | --- | --- |
| `Replica` | the abstract promise: a table numbered by transactions, a copy that learns | TLAPS (`ReplicaProofs`), and as a property of `Sync` and `Store` |
| `Sync` | endpoint database, shipper, server: replication by revisions | TLC (`MCSync`) and TLAPS (`SyncProofs`, `SyncPowerProofs`) |
| `Store` | `internal/store`: opening, migration, tables with foreign keys, writes, `Prune` | TLC (`MCStore`) and TLAPS (`StoreProofs`) |
| `Correlate` | `internal/correlate`: how events and denials become rows | as part of `Audit`, with lemmas in `AuditProofs` |
| `Audit` | a machine of processes, its two streams, and `Correlate` reading them | TLC (`MCAudit`) and TLAPS (`AuditProofs`, `AuditTreeProofs`) |
| `Watch` | `internal/watch`: children, reader goroutines, the loop, Ctrl-C | TLC and TLAPS (`WatchProofs`) |
| `Launch` | `internal/sbx`, `internal/detect`, `correlate/profile.go`: a command line to a run's profile and session | as part of `Pages`, with lemmas in `PagesProofs` |
| `Pages` | runs with their sessions, their way to the mirror, the server's pages and `buckle query` | TLC (`MCPages`) and TLAPS (`PagesProofs`) |

`PROJECT.json` names the source lines every definition models, the runs, the properties' mutants, the
hazards and the theorems.

## 1. The system

### Components

**Correlator** (`internal/correlate/correlator.go`, `candidate.go`). State: process images by audit
token and by pid, runs with their live images, pending denials by pid, the last pending denial, stored
row and orphan per (pid, operation, target), the eslogger watermark. Operations: `HandleES`,
`HandleDenial`, `Tick`, `Shutdown`; all are called from one goroutine. It is hard because its two inputs
are not ordered against each other: a denial may be read long before the exec that explains it, and the
pid may by then be another process. It is correct when every denial line ends in exactly one place, on
the image that was denied, in the run of the sandbox that denied it, and runs end when their last process
does.

**Watch loop and sources** (`internal/watch/watch.go`, `source.go`). State: two child processes, a reader
goroutine and a bounded channel for each, the loop's `stopping`, `deadline` and nil-able channels.
Operations: start, the select loop, `stop`, `died`, `abandon`, `exitError`. Hard: Ctrl-C reaches the
children at the same time as buckle; a child may ignore SIGINT; a reader may be blocked on a full channel;
the database may fail; a child may close its output and live on. Correct when a clean stop loses no line that could
be read, no child is left behind, Ctrl-C is not taken for a failure and `Run` returns.

**Endpoint database** (`internal/store`). State: eight tables, a revision counter, `db_instance`.
Operations: inserts and updates of `write.go`, `Prune`, `ChangesSince`, `migrate`. Triggers stamp each
inserted or updated row with the next revision; deletes stamp nothing. Interacts with the correlator (its
`Sink`) and the shipper. Correct when no change is invisible to a reader that remembers only a revision.

**Shipper** (`internal/ship`). State: nothing across two calls of `syncOnce`; inside one, a cursor.
Operations: ask for the cursor, read up to `MaxRows` changes, post, go on. Hard: requests are lost, time
out and are applied all the same, or arrive late; two shippers may run.

**Wire format** (`internal/wire`). Tables, columns, keys, reference columns, `MaxRows`.

**Report server, ingest** (`internal/server/api.go`, `internal/serverdb/ingest.go`, `schema.go`). State: a
mirror of each table keyed by host, instance and key; a cursor per host and instance. Operations: `Cursor`,
`Apply`. Correct when the cursor never promises a row the mirror does not have, and nothing that was
learned is lost.

**Schema migration** (`internal/store/schema.go`): versions 1 to 3, in place. Several processes may open one
file, and each may be killed between any two statements. Correct when one of them upgrades, once, and
whoever is past `Open` has the schema it expects.

**Launch of a sandbox** (`internal/sbx`, `internal/correlate/profile.go`, `internal/detect`). No state of
its own: a command line is parsed, a file that may change meanwhile is read, and the profile text and the
environment say which session the run belongs to. Correct when a run has the profile it was given, whole,
and belongs to whoever launched it.

**Pages** (`internal/server/ui.go`, `internal/serverdb/pages.go`) and **queries** (`internal/report`). No
state, but a page is several queries and batches arrive between them. Correct when no page contradicts
itself or has a dead link, and when it says in the end what `buckle query` says on the endpoint.

**Other parts**: `eslog` and `ulog` (line parsers), `codesign` (entitlement check), the command line.

### How they interact

`watch.Run` starts the two children, feeds each line to the correlator from a single `select`, calls
`Tick` every 500 ms, and `Shutdown` at the end. The correlator writes through the store, whose triggers
number the changes. `watch` and `migrate` may have the same file open at once. `ship` is another process that reads the same file in snapshots and talks HTTP to the
server; the server's handlers share one database connection, so a query of a page and the transaction of a
batch are each one step.

## 2. Sync

**State.** `rows` and `counter` are the endpoint's tables and `rev_counter`; `mirror` and `cursor` the
server's tables and `sync_state.rev`; `ship[s]` where `Run`/`syncOnce` of shipper `s` is and its variables;
`net` the ingest requests in flight. `disk` and `sdisk` are what each SQLite file falls back to when its
machine loses power: both databases are WAL with `synchronous(NORMAL)`, which does not sync on commit. A
row is its key, its revision and one reference column; `born` is a ghost that tells two records with the
same rowid apart, and a request's `base` is a ghost for the proof.

**Actions.** A SQLite transaction is one action (`Insert`, `Update`, `Prune`, `Apply` inside `Ingest`).
`NextIds` is what SQLite does for an `INTEGER PRIMARY KEY` without `AUTOINCREMENT`. `Prune` deletes any set
of rows, so also the ones the real conditions and cascades choose, and gives a revision to every row whose
reference it nulls. `AskCursor`, `Post` and `GotReply` are the steps of `syncOnce`; between them other actors
act. `Fail` is a network error, timeout or 5xx, after which the request may be gone or still arrive
(`LateIngest`, any number of times); `Interrupt` is Ctrl-C; `Reject` is the 413 answer, on which the shipper
exits.

**Properties.**
* `NoGap`: a row whose revision the cursor has passed is mirrored at that revision. The protocol keeps no
  other account of what was sent, so this is what makes it correct.
* `MirrorBelowCursor`, `AnswerCoversRequest`: the cursor and the mirror agree, and the shipper's sanity check
  of the answer never fires.
* `ServerOnlyLearns`: no step takes back the cursor, a row's revision or a reference.
* `EventuallyMirrored`: if some shipper keeps running, in the end every row is mirrored.
* `ImplementsReplica`: all of it is an implementation of `Replica`.

**The abstract specification.** `Replica` knows nothing of requests. `Commit` changes a table and numbers
every row it writes above all numbers given out before; `Learn` raises the copy's number and adds what
the table has up to it, and forgets nothing. Its invariant `Honest` says that the copy lacks nothing it claims to know.
`Sync` maps `rows`, `counter`, `mirror` and `cursor` to it: every `Ingest`, on time, late or repeated, is one `Learn`
or a stutter, and every transaction of the endpoint a `Commit`. `Store` implements the table's half with the
real schema, so the abstract endpoint that `Sync` assumes is what the schema provides.

**Runs.** `SyncSafety` (two shippers, requests of one row, so every race of two requests happens, with
each table's read cut as well as the merge), `SyncLive` (requests of two rows from two tables, so the merge cuts what
neither table's read cuts; a full request is followed by the next and a short one ends `syncOnce`), `SyncPower` (both machines may lose power; a body limit
rejects requests of two rows). Three revisions are enough for a
row to be inserted, sent, updated, pruned and re-created while an older request for it is under way;
`MaxLate` and `MaxFaults` of 1 (2 in `SyncPower`) allow a lost answer together with a late arrival.
Symmetry over shippers and tables is used in safety runs where `BigTable` is empty.

**Fairness.** `FairSpec` is weakly fair to each shipper's steps and to the server's handlers: both are loops
that nothing blocks. Writes stop because `MaxRev` bounds them, failures because `MaxFaults` does; nothing is
assumed of late requests or restarts. `EventuallyMirrored` assumes a shipper that does not exit.

**What the code does not keep** (violation runs):
* `SyncHistory`: after pruning, SQLite gives the rowid out again, and the new record overwrites the old one
  on the server. README.md:46 promises that pruning removes nothing there.
* `SyncServerPowerGap`: `syncOnce` goes on from its own copy of the cursor after the server lost rows. (With
  `PowerLoss = {"endpoint"}` in the same configuration TLC finds the other gap: the endpoint loses committed
  revisions that the server has counted, and new rows with those revisions are never sent.)

### Proofs (`SyncProofs`, `SyncPowerProofs`)

For all values of the constants:

| theorem | assumes of `PowerLoss` |
| --- | --- |
| `TypeCorrect`, `MirrorBelowCursorHolds`, `AnswerCoversRequestHolds` | nothing |
| `ServerOnlyLearnsHolds` | the server's machine loses no power |
| `NoGapHolds`, `ImplementsReplicaHolds` | nobody loses power (`PowerLoss = {}`) |

The assumption is part of each theorem, and needed: the violation runs above show what power loss breaks.

`NoGap` is not inductive: `Apply` moves the cursor over revisions it cannot see. The invariant `IInv` adds what
a request in flight carries (`RequestInv`): every row stamped between its base and its last revision that has not
been stamped again since, where the base is not above the cursor now. That is established by `Post`
(`ChangesComplete`: the merge of the per-table reads leaves out no row below the last one), kept by writes
(`WriteStep`: a write only gives out revisions above all others, whatever `Prune` or `Update` does otherwise), and
is what `ApplyStep` uses to show that the cursor may jump to the last revision of the batch, however late the
batch is. `RowsInv` says revisions and keys are unique, `MirrorInv` that the mirror is never ahead of an endpoint
row, `ShipInv` ties the shipper's variables to its request. `ServerOnlyLearns` is an action property and is proved
along with the invariant (`Learns`). The refinement follows step by step: a write is a `Commit` by `WriteStep`, a
request that moves the cursor a `Learn` by `NoGap` after it and `Learns`. `ReplicaProofs` shows `HonestHolds` from
`Replica` alone, so it holds of whatever implements it.

`IInv` does not survive power loss, since it compares the cursor with the endpoint's counter. `PowerInv`
(`SyncPowerProofs`) keeps what does not depend on the other machine: a database and what it would fall back to are
each sound by themselves (revisions up to the counter, mirror revisions up to the cursor), requests have one row per key, and a
shipper that waits has a request that explains any answer it may get. It needs one row per key because `Apply` looks a key's row up
in the batch.

Model-checked only: `EventuallyMirrored` (liveness).

## 3. Store

**State.** `exists`, `version` (`PRAGMA user_version`), `instance`, `ready` (WAL and indexes), `counter`
and `rows` are the file; `proc[p]` is where a process that runs `watch` or `migrate` is, the version it has read
and the ids it holds. A row is its key, its revision and its references. Two
ghosts tell records with one rowid apart: `born`, and `meant`, the record a reference was made for. `old` is what is
older than the retention time (`Age` makes what was recorded before some moment old), `disturbed` the watches during whose
life another process pruned.

**Actions.** `Open`, `Upgrade` (one transaction: every missing version, the revision backfill in table order
and a fresh `db_instance`; if another process was first, its CREATE statements fail), `Prepare` (journal and
indexes), `Prune` (its transaction, with each statement's effect in the order of the code and the cascades and
nulling the foreign keys do), `BeginWatch`, one action for each insert of `write.go`, `Update`, `EndWatch`, and `Leave`, which is also a kill
at any point. Inserts that the code makes one after the other are separate, and a Prune may come between them.

**Properties.** `RightParents` (a reference points to the record it was made for, although rowids are
reused), `NeverRefused` (no write fails on a foreign key), both for a watch during whose life nobody else pruned, so
what becomes of the rows of a watch under which another process prunes (correlator.go:266) is left open;
`PruneCompletes` (no foreign key stops Prune), `OpenIsReady`, `UpgradedOnce`, `RecentKept`
(nothing within the retention time goes, nor what belongs to it), `ImplementsReplica`.

**Run.** `StoreSafety`: two processes on a database of version 0, 1, 2 or newer. `MaxRev = 6` and two rowids let
rows be recorded, pruned and their rowids given out again; `MaxShared = 3` bounds revisions only
while two processes are at work, which still lets each write under the other's Prune. `Single` keeps one rowid
in tables nothing refers to, and in sessions. Symmetry over the processes is sound: nothing names one.
`CHECK_DEADLOCK FALSE` because the bounds end the model.

**Proofs** (`StoreProofs`), for any number of processes and any contents of the tables: `OpenIsReadyHolds` and
`UpgradedOnceHolds` from `OpenInv`, which says at each place of a process what it knows of the file (`CreatedOnce`:
the statements of an upgrade cannot succeed on a database that someone else has upgraded), and `PruneCompletesHolds`
(`NotStopped`: what a statement selects from watches and profiles nothing refers to, and by `CascadeStays` the cascades
add only rows of the tables of a run, which no such key points to).

The second part of `StoreProofs` proves the rest: `StoreTypeCorrect`, `RightParentsHolds`, `NeverRefusedHolds`, `RecentKeptHolds`,
`ImplementsReplicaHolds`, so nothing of `Store` is only model-checked. The invariant has three parts. `OpenInv` is the one
above. `DataInv` is about the file: one row per key, unique revisions up to the counter, and references whose target is there
and, where that is known, is the record they were made for; without it a rowid given out again could be taken for the old
record. `ProcInv` is about the rows a process holds: they were in the database, and still are with the references they had,
unless another process has pruned since; without it an inserted row could refer to anything. Every write
`Commits` (its rows get revisions above all others) and is `Lossless`; `Prune` `Spares` what is recent and what recent
records belong to. That the upgrade's backfill numbers each old row once is `NumberedOK`; that cascades
end with no row left that refers to a deleted one is `DoomedClosed`. Both need an induction over naturals, which is done as a proof
by least counterexample, since the library's induction rules cannot be cited here.

`RecentKept` calls a denial recent if its run and its process's run are: a watch that was disturbed by a `Prune` may hold
the id of a process row that was given out again, and its denial then goes with the other run's process.

## 4. Correlate and Audit

`Correlate` has no variables: a state `c` is a record of the Correlator's fields and of the rows it wrote, and
`HandleES`, `HandleDenial`, `Tick`, `Shutdown` are operators with one helper per Go method. Pointers to images and
runs are numbers, 0 is nil. The pending denials of all pids are one set; `Tick` and `Shutdown` take the order in which they
meet them (`Orders`: one pid after the other, as the map is iterated, and those of one pid as they came). `byPID` is a set
too: `Newest` picks by start and registration, which is the order `register` keeps.
`ids` in pending denials and rows is a ghost, the set of reports that were counted.

`Audit` adds the machine the correlator is written for. `world[p]` is the process with pid `p` and the sandbox it
is in; `Fork`, `Exec`, `ExecSandbox`, `Exit`, `SelfSandbox`, `Deny` and `Repeat` change it and append to the streams
`esq` and `denq`, which are each in order; with `Drops` a `Repeat` may come without a first line of its process, if the pid's
former process had such a line; `DeliverES`, `DeliverDenial` and `TickStep` are the cases of the loop and
`Stop` is `Shutdown`. `births` and `reports` are ghosts: which process had which audit token, and which process, in
which sandbox, each line is about. The machine is external to the code, and so marked in the map; the properties
compare what was recorded with these ghosts.

**Time.** `now` is the wall clock, stamped on events and denials. A stream may be late by up to `ESLag` or
`LogLag`. `Advance` waits for a tick: a unit of time stands for many ticks of the 500 ms ticker. `Spread` says that
two things do not happen to one pid in the same unit. `Slack` (5 ms in the code, far below the buffer) is 0 except
in `AuditEvicted`.

**Properties.** `LedgerExact` (each line read is counted exactly once or dropped), `AttributedRight` (the row is on
the image that was denied, also after the pid was reused), `DuplicatesTogether` (the lines counted in one row, duplicates
included, are all about the process whose image the row names), `RightRun` (the run is of the sandbox that denied), `NoLoss` (no denial of a sandbox-exec tree becomes an orphan or is dropped), `RunEndsRight` (a run ends exactly with
its tree), `ClosedAtStop`, `DecidedInTime` (a denial waits at most `lagCapFactor` times the buffer; the bounded form
of "every denial is decided in the end"). `TypeOK` includes that a process row is open exactly while its image is
live in its run.

**Runs.** Each has two pids, so pids are reused, and one denial key, so lines of different processes share it.

* `AuditLag`: trees and nested runs, with lags above the buffer and below the lag cap; `Buffer = 1`, the cap is 3, and a lag
  of 2 makes a denial wait across a whole buffer window; runs carry a tag, which the detectors may fail to read
  (`Unreadable`). One report: no duplicates.
* `AuditBoxes`: sandboxes from before the watch, sandbox_init and the App Sandbox, with two tags, so that a denial can be put
  on the wrong run. Three reports: a duplicate meets the first line of its own process, pending, stored or orphan, or, with
  `Drops`, the row of the process that had its pid before. eslogger is on time and the buffer short, so no pid is
  reused while a denial of its former process waits (section 7 has what happens otherwise).

Two situations are out of these bounds. A fork chain whose middle exits before a denial of its end needs five pidversions and a
member that joins a run after its end needs six units of time; with `MaxVersions = 5`, `MaxClock = 6`, `MaxReports = 2`,
`PreTags = RunTags = Entitled = {}`, `Prog = {sandbox_exec, tool, shell}` and the rest as in `AuditBoxes`, `RightRun` and `ClosedAtStop`
hold and both situations occur. For any bounds, `ClosedAtStop` is a theorem.

The lag bounds are assumptions on eslogger and log stream; beyond them the code itself gives up classifying, and no run goes
there, so a denial whose events never come is followed only as far as `DecidedInTime` and `LedgerExact` do.
`CHECK_DEADLOCK FALSE` because the model ends when the watch has stopped.

**What the code does not keep**:
* `AuditEvicted`: images are evicted after 30 s, but with the default buffer a denial may wait 50 s.
* `AuditAborted`: `Shutdown` classifies although a source died and events were thrown away; the comment at
  correlator.go:679 says that both sources are always drained first.

**Proofs** (`AuditProofs`): `AuditTypeCorrect`, `LedgerExactHolds`, `ClosedAtStopHolds` and `DecidedInTimeHolds`, for any
pids, programs, tags, numbers of lines and events, any buffer, slack and lags, and any interleaving of the two streams. The
assumptions are those of `Audit`: the numbers are naturals; the buffer and `lagCapFactor` are positive (watch.go:80 replaces
a buffer that is not, the factor is the constant 10); the tags and programs of the machine are among those of the correlator;
the processes that predate the watch fit into the bounds. No bound on the lags is assumed.

None of the four is inductive. `AuditInv` adds about the streams that lines come with consecutive ids and that no event is
of the future, and about the correlator two things:

* `Sound`: every table is typed and points to images and runs that exist, an image's parent is older than the image (or
  `candidateRun`'s walk up would not end), nothing ended in the future, `status` is "running" exactly while the run is not
  `ended`. Without it a handler could index a row that is not there.
* `Ledger`: the pending denials, denial rows and orphan rows are pages with disjoint finite sets of lines and exact counts; no
  two pending denials are of the same line; whatever `lastPending`, `lastStored` and `lastOrphan` refer to is there to take a
  duplicate. Without the last part a duplicate of a denial that has just been decided would be lost, which is why `finalize`
  and `attribute` clear `lastPending`.

The proof follows the code's calls. A helper that only changes images and runs `Becomes` a state with the same pages; the others
open a page, add a line to one, or move one (`NewPage`, `MovePage`, `DropPage`); `finalize` and `HandleDenial` are put together
from these. `Tick` and `Shutdown` are loops over the pending denials in any order: by induction over the turns, what has been met
is decided or young, and the rest is untouched.

`RunEndsRightHolds` (`AuditTreeProofs`) is proved from the same assumptions, so it does not depend on the lags either: what decides
the end of a sandbox-exec run are events alone, which come in order, and `CorrelatorOK` is not about the machine. What is
missing is an account of what has happened on the machine and is still in the queue. A view is a machine reduced to who
lives and from which sandbox-exec each process descends; `Seen` is what an event makes of a view. `TreeInv` says that there is a
history, one view for each event in the queue, of which the last is the machine as it is and the first is what the
correlator `Agrees` with: an image with a token has ended exactly if its process is dead; the members of a sandbox-exec run that
have not ended are its live set, and are the processes that descend from it; no two images have one token; a run has
ended, at the end of its last member, exactly if its live set is empty.

* A step of the machine logs an event that is `Legal` in the last view and makes the next one (`Told`), or changes no view (`Untold`).
* `HandleESAgrees`: the correlator agrees with a view after an event if it did before. Here it matters that `handleExec` joins the new image
  before it ends the old one: the live set of the run is not empty in between.
* `Aside`: denials, ticks and `Shutdown` start, adopt and end other runs, join images to them, add images without a token and
  evict ended ones, but never touch a sandbox-exec run. The walk of `candidateRun` could put an image in one: into the run of its nearest
  ancestor that has a run. It does not, because of `Family`: a forked image whose parent is in a sandbox-exec run is in it already.
* A tree that was gone when the last handled event happened is gone now: a sandbox-exec is entered at its own start or by fork
  (`SeenWithout`), so a run that was ended is still right however many events wait.

`AttributedRight`, `DuplicatesTogether`, `RightRun` and `NoLoss` hold only while the streams are not too late, since the code decides without events after the
lag cap. A proof needs an invariant that relates the time of each denial in the queue to the times of the events that are not read; they
are model-checked only.

## 5. Watch

`child[s]` is the subprocess (not started, running or dead), `sigint` the children that got SIGINT, `written[s]` and `pipe[s]` what it has
written and what of it has not been read, `reader[s]` the goroutine of
`startSource`, `lines[s]` the channel, `drainer` the goroutines of `abandon`, `main` the main goroutine with its
place and the local variables of `loop`. `handled` and `lost` count lines. Timers (deadline, abandon's grace) may fire
at any time after they are set, so nothing depends on a child being quick. One timing assumption is in the code
itself and in the guard of `GraceOver`: a signal that was sent shows up within `signalRaceGrace`.

A child ends its output (`CloseOutput`; `shut`) and exits (`Exit`) in two steps, on SIGINT or of itself. The goroutine closes `lines`
at the end of the output (`CloseLines`) and is done when the process has exited (`Wait`), so between the two the loop sees
the source end while its process lives. `cmd.Wait` also waits until the child's stderr is copied; a grandchild that keeps that open
is not modelled.

**Properties.** `CleanStopDrains` (a watch that ends as "stopped" has handled every line, also when children were
killed, except for a source with a scan error, which loses its output from that line on), `NoChildLeft` (when `Run` returns, both children are dead and waited for), `CtrlCIsNoDeath` (Ctrl-C that
reaches a child first is not reported as "source died"), `Terminates`. `TypeOK` includes that no line is created or
lost unaccounted.

**Run.** `WatchStop` has every fault (start, crash, over-long line, database error), two lines per child and a
channel of one, so that readers block.

**Fairness.** Main, the readers and the delivery of a signal run when they can, and timers fire (`FairSpec`); children and user owe
nothing, so children may ignore SIGINT and hang. The failing steps (`Faulty`) are outside the fair ones: a failure
may happen but never has to, so it does not help `Terminates`. That a child writes at most `MaxLines` lines stands for
Go's random choice in `select`: a timer is not put off for ever by more lines.

`Terminates` has one exception, `Stuck`: a child that closes its output and never exits. No fairness of the children is assumed
to rule that out; section 7 says what the code does then.

**Proofs** (`WatchProofs`), for every number of lines, capacity and set of faults: `TypeCorrect`,
`CleanStopDrainsHolds` (with the exception of a scan error, as the property says), `NoChildLeftHolds`, `CtrlCIsNoDeathHolds`. None of the properties is inductive, as each speaks of the
last moment only. `IInv` says what holds on the way there: `Account` (every line is somewhere), `ReaderInv` (a
goroutine that has closed `lines` has seen the output end and its pipe empty, and one that is done the exit), `OpenInv` (a source the loop has let go of
is empty), `DeadInv` (without Ctrl-C, a child goes down only by itself), `LostInv` (only `abandon` and a scan error
lose lines) and `WaitInv`, which follows the list of sources that `abandon` still has to wait for on each way out of `Run`.
The proof has one lemma per action. `Terminates` is liveness and model-checked only.

## 6. Launch and Pages

**Launch.** A word and a profile text are sequences of symbols; Claude's tag, Cursor's fingerprint and "-" are
symbols of their own, since nothing else tells texts apart. `ParseArgs` applies `Step` to one word after the other, as the loop
over `argv` does; `ReadProfileFile` has the file's content at its stat and at its read; `DetectRun`, `DetectDenial`, `PickEnv`
are `internal/detect`.

**Pages, the endpoint.** Runs are launched by agents or others (`by`), with a profile given in different ways (`how`), inside or
outside another run, whose environment they inherit (`env`); these three are ghosts. `PickEnv` takes the first entry of a name,
and that the launcher's own entry comes first in what eslogger reports (detect.go:94) is an assumption on the launcher. `Launch`, `Fork`, `Exec`, `Exit`, `Stop` and
`Denial` are the correlator's calls with the rows they write in the order of the statements; the run's profile
row is part of the run. A denial may carry the tag of its run's own profile and then give the run its session.

**Pages, the server.** `Receive` takes over the row with the next revision. That is finer than batches: any batch is a
sequence of such steps, so every state a page can see is there. `Query` is one query of the page that is being put together;
rows may arrive before the next one. `Follow` clicks a link of a page that is shown, or opens the index.

**Properties.** `ParsesAsWritten` (all command lines of up to two options with flags, attached and separate values that look
like options, and commands that do), `ProfileWhole` (a run has its whole profile or none and an error),
`ShownUnderOwner` (a run is shown under the session of whoever launched it, or under none), `IndexCountsOnce` (the
index counts no run twice), `NoDeadLink` (only the link to a parent run may lead to "not found"), `PageMatchesReport`
(when everything has arrived, pages and `buckle query` agree, and the timeline shows every exit).

**Run.** `PagesSafety` has three scenarios of two launches, each with its bounds on processes, denials and
revisions: a conversation with an unreadable profile and a shell without a conversation, nested or not; a tag that
only a denial brings, beside a run of nobody; two runs of one session, one with the late tag. Revisions 7 and 8 are what the
two launches, a second process and two denials of them need. `CHECK_DEADLOCK FALSE` lets the model end where its bounds do.

The index may leave out a run that gets its session between its two queries; the next load shows it.

**Proofs** (`PagesProofs`): `NoDeadLinkHolds`, `IndexCountsOnceHolds`, `ShownUnderOwnerHolds`, `ProfileWholeHolds` and
`PageMatchesReportHolds`, for any scenarios, tags, conversations and profile size. The assumptions are those of `Launch` and
`Pages`: the size limit is a natural, `NULL` is neither a symbol, an id nor a name of a session, tags and conversations are none
of the other symbols, and a scenario launches what `Launcher` and `How` describe.

None of the five is inductive. `PagesInvariant` joins three parts:

* `DataInv`, about rows: the four tables are numbered without a gap, a session's name is its own, a denial's process is there; a
  run has its whole profile or an error; it has the session of its launcher, and is without one only if it is without a profile
  or an agent; what the mirror says of a run's session or a session's name is true and stays true. Every call of the correlator
  writes a list of rows; each part of the list is good by itself and no key is in it twice (`Writes`, `SameKey`), so the
  transaction keeps `DataInv` (`CommitInv`). For a launch that needs what `ParseArgs`, `ReadProfileFile` and the detectors return
  for the command lines and texts of `Pages` (`ParseSimple`, `ReadWhole`, `RunClaims`).
* `Synced`, about the way to the mirror: revisions are unique and at most the counter, a row whose revision the cursor has
  reached is in the mirror as it is, and the mirror has no key that the endpoint has not (nothing is pruned in this model). So
  when the cursor is at the counter the mirror is the endpoint's database (`AllArrived`).
* `PageInv`, about a page that is being put together: whatever its answers name has arrived, as it was in the answer. A session
  is known when its row or one of its runs has arrived; the page of a session is "not found" only if neither has, which its two
  queries together see even if rows arrive between them. `Grows`: what has arrived stays, so an older answer remains true.

`PageMatchesReport` then compares two ways to read the same rows. A left join over unique ids finds one row or none (`OneRow`,
`JoinedIs`); the server selects the runs of a session by the session's id, `runWhere` of `internal/report/query.go:32` by its key
alone, whatever agent the key belongs to. So the theorem has one hypothesis more, `KeysApart`: no tag of Claude's is a
conversation id of Cursor's or the key "unknown". TLC finds the report of such a key to mix two sessions when it is dropped;
real tags are random (`_k3j9x0q2m_SBX`) and real conversation ids are UUIDs.

`ParsesAsWritten` is about a finite set of command lines and is evaluated by TLC.

## 7. What code and docs disagree on, without a run

* `HandleDenial` asks whether the pid is still the same process for stored rows and orphans, but not for `lastPending`
  (correlator.go:433). A denial of a process waits in the buffer, the process exits, its pid goes to another process whose own
  first line is missing or was attributed at once (that of a sandbox-exec child is), and its duplicate line is counted on the old
  denial, against DESIGN.md:160. With `Buffer = 5` and lags of 1 in `AuditBoxes`, TLC finds `DuplicatesTogether` violated so.
* The end of `loop` (watch.go:288) and `exitError` (source.go:94) wait for `done` without a timeout, and the deadline is a case of
  the loop that has ended: a child that closes its output and lives on is killed by nobody, `Run` does not return, and Ctrl-C
  no longer reaches it, against watch.go:115. Without `Stuck` in it, `Terminates` is violated so.
* Nothing looks at `scanErr` while stopping (watch.go:287): a line over 16 MiB after Ctrl-C throws away the rest of that source, and
  the watch ends as "stopped" without an error, though correlator.go:679 says that both sources have been drained. Without its
  exception `CleanStopDrains` is violated so.
* A late denial joins a live fork child to a sandbox-init run that has already exited (candidate.go:76, against the
  comment at correlator.go:400); the row is closed at `Shutdown`, as `ClosedAtStopHolds` proves.
* A tool exec'd inside an untagged sandbox from before the watch becomes a sandbox-init run (against DESIGN.md:166),
  which `RightRun` therefore allows.
* ui.go:391 omits the ends of images that exec, since "the next image's exec entry shows them". When a process of a run execs
  a nested sandbox-exec, the next image is in another run, and the outer run's timeline never shows that end.
* The link to a parent run answers 404 until the parent's row has arrived; DESIGN.md:244 says missing parents render as
  "unknown".
* DESIGN.md:192 says that pruning cascades to orphans; the code prunes orphans by their own time.

## 8. Not modelled, and why

* Sink or entitlement calls that fail inside the correlator. By reading: `Tick` filters a list of pending denials in place
  and returns at the first error before it stores the shortened list, so a denial that it had kept can be in the old
  list twice, and `Shutdown` then records it twice if the database works again.
* `OpenReadOnly` and the ownership of the database's files. Several hosts or database instances on one server: their
  rows and cursors are keyed apart and never meet.
* Validation of malformed batches, JSON number decoding, the hosts table.
* Line parsers, the entitlement check, `Aggregate`, filters and formatting of `report`, wording and order of the pages,
  flags of the command line: no state, and nothing that depends on order.
* Backoff times, and growth of the correlator's tables over a long watch.
* Liveness and enabledness stay with TLC; so does whatever is defined by recursion over data.

## 9. Plan

1. `Correlate` with a failing Sink: `Tick` filters its list in place, and `Shutdown` runs after an error.
2. `Audit` with several denial keys and with `Watch` around it, so that an aborted watch and its `Shutdown` are one model.
3. Proofs: `AttributedRight`, `RightRun` and `NoLoss` of `Audit`. The histories of `AuditTreeProofs` say what happened and in which
   order; the proof also needs when, and the bounds on the lags.

4. A watch under which another process prunes, in `Store`: what its rows refer to then.

Bounds to revisit: three pids in `Audit` (fork chains whose processes are alive together), a lag above the cap, `MaxRev` 4 in
`SyncSafety`.

## 10. Running

    tlc -workers 2 -config SyncSafety.cfg MCSync
    tlc -workers 2 -config StoreSafety.cfg MCStore
    tlc -workers 2 -config AuditLag.cfg MCAudit       # and AuditBoxes
    tlc -workers 2 -config WatchStop.cfg Watch
    tlc -workers 2 -config PagesSafety.cfg MCPages
    tlapm SyncProofs.tla        # and SyncPowerProofs, StoreProofs, AuditProofs, AuditTreeProofs, WatchProofs,
                                # ReplicaProofs, PagesProofs
