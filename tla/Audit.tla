-------------------------------- MODULE Audit --------------------------------
(***************************************************************************)
(* A machine under `buckle watch`: processes that fork, exec, exit, enter  *)
(* sandboxes and are denied things; the two streams that report this, each *)
(* in order and each with a lag of its own; and the correlator (module     *)
(* Correlate) that reads them.                                             *)
(*                                                                         *)
(* The machine is external to the code: it is what HandleES and            *)
(* HandleDenial are written for.  "reports" and "births" are ghosts that   *)
(* remember what really happened.                                          *)
(***************************************************************************)
EXTENDS Correlate

CONSTANTS
    Prog,           \* the paths that are exec'd
    Shell,          \* the path of the processes that predate the watch
    PreTags,        \* tags of the sandboxes that predate the watch
    RunTags,        \* tags of the sandbox-exec runs
    MaxClock,       \* bound on time
    MaxVersions,    \* bound on the pidversions, so on forks and execs
    MaxReports,     \* bound on denial lines
    ESLag,          \* how late an eslogger event may be
    LogLag,         \* how late a denial line may be
    Spread,         \* TRUE: what happens to one pid happens at different times
    Drops,          \* TRUE: the first line of a process may be missing if its pid had such a line before
    Unreadable,     \* TRUE: run detectors may fail to see a run's tag
    SelfSandboxes,  \* TRUE: processes may call sandbox_init()
    CleanStop       \* TRUE: the watch stops only when both streams are read to the end

ASSUME PidAssumption == Pid # {} /\ Pid = 1..Cardinality(Pid) /\ Cardinality(Pid) \in 1..MaxVersions
ASSUME TimeAssumption == {MaxClock, MaxVersions, MaxReports, ESLag, LogLag, Slack, Buffer, LagCapFactor, MinRetention} \subseteq Nat
ASSUME PositiveAssumption == MaxClock > 0 /\ Buffer > 0 /\ LagCapFactor > 0
ASSUME FlagAssumption == {Spread, Drops, Unreadable, SelfSandboxes, CleanStop} \subseteq BOOLEAN
ASSUME TagAssumption == NoTag \notin Tag /\ PreTags \cup RunTags \subseteq Tag \cup {NoTag}
ASSUME ProgAssumption == Shell \in Platform /\ SandboxExec \in Platform \cap Prog

VARIABLES
    now,        \* wall clock
    world,      \* [Pid -> process], the machine
    births,     \* births[v]: the pidversion with which the process of pidversion v was forked
    esq,        \* eslogger events not yet handled
    denq,       \* denial lines not yet handled
    reports,    \* what each denial line is about
    corr,       \* the correlator
    ticked,     \* the ticker's tick of this time is handled
    stopped     \* Shutdown is over

vars == <<now, world, births, esq, denq, reports, corr, ticked, stopped>>

(* A process: the sandbox it is in is "none", "exec" (a sandbox-exec of this watch), "init" (its own
   sandbox_init), "app" (the App Sandbox) or "pre" (one that predates the watch); root is the image
   that was the sandbox-exec, last the time of the latest thing it did. *)
NoProcess == [live |-> FALSE, ver |-> 0, prog |-> Shell, born |-> 0, box |-> "none", root |-> <<0, 0>>, tag |-> NoTag, last |-> 0]
Image(p) == [pid |-> p, ver |-> world[p].ver, prog |-> world[p].prog, born |-> world[p].born]
NextVer == Len(births) + 1
Active(p) == ~stopped /\ world[p].live /\ (Spread => world[p].last < now)

Watched(p) == [NoProcess EXCEPT !.live = TRUE, !.ver = p]

\* Before the watch pid 1 is a shell without a sandbox; each other pid is free or in a sandbox.
Init ==
    /\ now = 1
    /\ \E boxed \in SUBSET (Pid \ {1}) : \E tag \in [boxed -> PreTags] :
        world = [p \in Pid |-> IF p = 1 THEN Watched(p)
                               ELSE IF p \in boxed THEN [Watched(p) EXCEPT !.box = "pre", !.tag = tag[p]]
                               ELSE NoProcess]
    /\ births = [v \in 1..Cardinality(Pid) |-> v]
    /\ esq = <<>> /\ denq = <<>> /\ reports = <<>>
    /\ corr = Empty
    /\ ticked = FALSE /\ stopped = FALSE

-----------------------------------------------------------------------------
(* The machine *)

\* One process event, seen by eslogger.
Log(kind, actor, target, tag) ==
    esq' = Append(esq, [kind |-> kind, time |-> now, actor |-> actor, target |-> target, tag |-> tag])

\* The child inherits the image and the sandbox.
Fork(p, q) ==
    /\ Active(p) /\ ~world[q].live /\ (Spread => world[q].last < now)
    /\ NextVer <= MaxVersions
    /\ world' = [world EXCEPT ![p].last = now,
                              ![q] = [world[p] EXCEPT !.ver = NextVer, !.born = now, !.last = now]]
    /\ births' = Append(births, NextVer)
    /\ Log("fork", Image(p), [pid |-> q, ver |-> NextVer, prog |-> world[p].prog, born |-> now], NoTag)
    /\ UNCHANGED <<now, denq, reports, corr, ticked, stopped>>

\* The process of p is now of another image.
Become(p, process, seen) ==
    /\ NextVer <= MaxVersions
    /\ world' = [world EXCEPT ![p] = [process EXCEPT !.ver = NextVer, !.last = now]]
    /\ births' = Append(births, births[world[p].ver])
    /\ Log("exec", Image(p), [pid |-> p, ver |-> NextVer, prog |-> process.prog, born |-> process.born], seen)
    /\ UNCHANGED <<now, denq, reports, corr, ticked, stopped>>

\* A binary with the entitlement starts in the App Sandbox.
Exec(p, prog) ==
    /\ Active(p) /\ prog # SandboxExec
    /\ LET w == [world[p] EXCEPT !.prog = prog]
       IN  Become(p, IF prog \in Entitled /\ w.box = "none" THEN [w EXCEPT !.box = "app"] ELSE w, NoTag)

\* sandbox-exec puts itself in a new sandbox, which the run detectors recognise by its tag if they can
\* read the profile.
ExecSandbox(p) ==
    /\ Active(p)
    /\ \E t \in RunTags, readable \in {TRUE} \cup {~Unreadable} :
        Become(p, [world[p] EXCEPT !.prog = SandboxExec, !.box = "exec", !.root = <<p, NextVer>>, !.tag = t],
               IF readable THEN t ELSE NoTag)

Exit(p) ==
    /\ Active(p)
    /\ world' = [world EXCEPT ![p] = [NoProcess EXCEPT !.last = now]]
    /\ Log("exit", Image(p), Image(p), NoTag)
    /\ UNCHANGED <<now, births, denq, reports, corr, ticked, stopped>>

\* A program that is not part of the platform calls sandbox_init(); no event tells.
SelfSandbox(p) ==
    /\ SelfSandboxes /\ Active(p)
    /\ world[p].box = "none" /\ world[p].prog \notin Platform
    /\ world' = [world EXCEPT ![p].box = "init", ![p].last = now]
    /\ UNCHANGED <<now, births, esq, denq, reports, corr, ticked, stopped>>

\* A denial line about p, or one that repeats an earlier line about the same process.
LogDenial(p, what, duplicate) ==
    LET w == world[p]
        d == [id |-> Len(reports) + 1, pid |-> p, what |-> what, tag |-> w.tag, time |-> now, duplicate |-> duplicate]
    IN  /\ Len(reports) < MaxReports
        /\ denq' = Append(denq, d)
        /\ reports' = Append(reports, [d |-> d, ver |-> w.ver, birth |-> births[w.ver], box |-> w.box, root |-> w.root])
        /\ world' = [world EXCEPT ![p].last = now]
        /\ UNCHANGED <<now, births, esq, corr, ticked, stopped>>

Deny(p, what) == Active(p) /\ world[p].box # "none" /\ LogDenial(p, what, FALSE)

\* A line that repeats an earlier one of its process in its sandbox, or else of a process that had the pid before.
Repeat(p, what) ==
    LET earlier == {n \in DOMAIN reports : KeyOf(reports[n].d) = <<p, what>>}
        own == {n \in earlier : reports[n].birth = births[world[p].ver]}
    IN  /\ Active(p)
        /\ \/ Drops /\ world[p].box # "none" /\ own = {} /\ earlier # {}
           \/ \E n \in own : reports[n].box = world[p].box /\ reports[n].root = world[p].root
        /\ LogDenial(p, what, TRUE)

\* A unit of time is many ticks of the ticker, so time does not pass before one is handled, nor while a
\* line would be later than its stream's lag.
Advance ==
    /\ ~stopped /\ now < MaxClock
    /\ ticked
    /\ \A n \in DOMAIN esq : esq[n].time > now - ESLag
    /\ \A n \in DOMAIN denq : denq[n].time > now - LogLag
    /\ now' = now + 1
    /\ ticked' = FALSE
    /\ UNCHANGED <<world, births, esq, denq, reports, corr, stopped>>

-----------------------------------------------------------------------------
(* The watcher's loop: one line of either stream, a tick, or the end *)

DeliverES ==
    /\ ~stopped /\ esq # <<>>
    /\ corr' = HandleES(corr, Head(esq))
    /\ esq' = Tail(esq)
    /\ UNCHANGED <<now, world, births, denq, reports, ticked, stopped>>

DeliverDenial ==
    /\ ~stopped /\ denq # <<>>
    /\ corr' = HandleDenial(corr, Head(denq), now)
    /\ denq' = Tail(denq)
    /\ UNCHANGED <<now, world, births, esq, reports, ticked, stopped>>

TickStep ==
    /\ ~stopped
    /\ \E order \in Orders(corr) : corr' = Tick(corr, now, order)
    /\ ticked' = TRUE
    /\ UNCHANGED <<now, world, births, esq, denq, reports, stopped>>

Stop ==
    /\ ~stopped
    /\ CleanStop => esq = <<>> /\ denq = <<>>
    /\ \E order \in Orders(corr) : corr' = Shutdown(corr, order)
    /\ stopped' = TRUE
    /\ UNCHANGED <<now, world, births, esq, denq, reports, ticked>>

Machine == \E p \in Pid :
    \/ \E q \in Pid : Fork(p, q)
    \/ \E prog \in Prog : Exec(p, prog)
    \/ ExecSandbox(p)
    \/ Exit(p) \/ SelfSandbox(p)
    \/ \E what \in What : Deny(p, what) \/ Repeat(p, what)

Loop == DeliverES \/ DeliverDenial \/ TickStep \/ Stop

Next == Machine \/ Advance \/ Loop

Spec == Init /\ [][Next]_vars

-----------------------------------------------------------------------------
(* Properties *)

Delivered == {n \in DOMAIN reports : \A m \in DOMAIN denq : denq[m].id # n}
RunOf(i) == corr.runs[corr.img[i].run]

(* Types and the pointers between the correlator's tables: a process row is open exactly while its
   image is in its run's live set, and the tables name images and runs that exist. *)
TypeOK ==
    /\ now \in 1..MaxClock /\ stopped \in BOOLEAN
    /\ Len(births) <= MaxVersions /\ Len(reports) <= MaxReports
    /\ corr.mark <= now
    /\ \A i \in DOMAIN corr.img :
        /\ corr.img[i].run \in 0..Len(corr.runs)
        /\ corr.img[i].row = "none" <=> corr.img[i].run = 0
        /\ corr.img[i].row = "open" <=> corr.img[i].run # 0 /\ i \in RunOf(i).live
    /\ \A r \in DOMAIN corr.runs : \A i \in corr.runs[r].live : corr.img[i].run = r

\* Where the lines are counted: in a pending denial or in a row, each with its ids and its count.
PendingBooks(P) == {<<"pending", p.d.id, p.ids, p.count>> : p \in P}
RowBooks(table, rows) == {<<table, n, rows[n].ids, rows[n].count>> : n \in DOMAIN rows}
Books(c) == PendingBooks(c.pend) \cup RowBooks("denial", c.denials) \cup RowBooks("orphan", c.orphans)

(* No denial line is lost, invented or counted twice: each line the loop has read is in exactly one
   pending denial, denial row or orphan row, or was dropped, and the counts say so. *)
LedgerExact ==
    /\ corr.dropped \cup UNION {b[3] : b \in Books(corr)} = Delivered
    /\ \A b \in Books(corr) : b[4] = Cardinality(b[3]) /\ b[3] \cap corr.dropped = {}
    /\ \A b1, b2 \in Books(corr) : b1 # b2 => b1[3] \cap b2[3] = {}

(* A denial row is about the process image that was denied, not about another one that has or had the
   same pid.  (A stub stands for a process without events.) *)
AttributedRight ==
    \A n \in DOMAIN corr.denials : \A id \in corr.denials[n].ids :
        LET image == corr.img[corr.denials[n].img]
            report == reports[id]
        IN  ~report.d.duplicate => image.pid = report.d.pid /\ (image.noToken \/ image.ver = report.ver)

(* DESIGN.md:160: a duplicate line adds to an earlier row "only while the pid still refers to the same
   process".  So the lines counted in one denial row are all about one process, the one whose image the
   row names, if no pid goes to another process while a denial of the former one still waits. *)
DuplicatesTogether ==
    \A n \in DOMAIN corr.denials : \A id1, id2 \in corr.denials[n].ids :
        LET image == corr.img[corr.denials[n].img]
        IN  /\ reports[id1].birth = reports[id2].birth
            /\ image.noToken \/ births[image.ver] = reports[id1].birth

(* A denial is put in a run of the sandbox that denied it: in a sandbox-exec run only if the process
   descends from that sandbox-exec, in an adopted run only if its sandbox predates the watch, and in a
   sandbox-init run never if it descends from a sandbox-exec of this watch; such a run's first image is
   of no platform binary and of none with the App Sandbox entitlement.  A run has the session of the
   sandbox's tag, or none. *)
RightRun ==
    \A n \in DOMAIN corr.denials : \A id \in corr.denials[n].ids :
        LET run == corr.runs[corr.denials[n].run]
            report == reports[id]
        IN  /\ run.session \in {NoTag, report.d.tag}
            /\ CASE run.kind = "sandbox-exec" ->
                       report.box = "exec" /\ report.root = <<corr.img[run.root].pid, corr.img[run.root].ver>>
                 [] run.kind = "adopted" -> report.box = "pre"
                 [] run.kind = "sandbox-init" ->
                       report.box # "exec" /\ corr.img[run.root].prog \notin Platform \cup Entitled

(* No denial of a process in a sandbox-exec tree is dropped or left an orphan. *)
NoLoss ==
    LET orphaned == UNION {corr.orphans[n].ids : n \in DOMAIN corr.orphans}
    IN  \A id \in orphaned \cup corr.dropped : reports[id].box # "exec"

(* A sandbox-exec run ends with the last process of its tree: an exited run has no process left, all
   its process rows are closed and it ends when the last one did; and when the events are all read a
   run without processes has ended. *)
RunEndsRight ==
    \A r \in DOMAIN corr.runs :
        LET run == corr.runs[r]
            members == {i \in DOMAIN corr.img : corr.img[i].run = r}
            tree == {p \in Pid : world[p].live /\ world[p].root = <<corr.img[run.root].pid, corr.img[run.root].ver>>}
        IN  run.kind = "sandbox-exec" =>
                /\ run.status = "exited" =>
                    /\ tree = {}
                    /\ \A i \in members : corr.img[i].row \in {"exec", "exit"} /\ corr.img[i].end <= run.endedAt
                    /\ \E i \in members : corr.img[i].end = run.endedAt
                /\ esq = <<>> /\ ~stopped => (run.status = "running" <=> tree # {})

(* After Shutdown nothing is pending and no run or process row is left open. *)
ClosedAtStop ==
    stopped =>
        /\ corr.pend = {}
        /\ \A i \in DOMAIN corr.img : corr.img[i].row # "open"
        /\ \A r \in DOMAIN corr.runs : corr.runs[r].status # "running"

(* No denial line waits for ever: lagCapFactor times the buffer window after it came it is decided, even
   when eslogger stays silent. *)
DecidedInTime ==
    \A p \in corr.pend : now - p.arrived <= LagCap /\ (ticked => now - p.arrived < LagCap)

-----------------------------------------------------------------------------
(* What the documents say and the code does not keep *)

(* DESIGN.md:159 and correlator.go:514: a denial waits until eslogger has passed its time, for "otherwise
   a lagging eslogger would make a real sandbox-exec child look pre-existing". *)
ChildNotPreExisting ==
    \A n \in DOMAIN corr.denials : corr.runs[corr.denials[n].run].kind = "adopted" =>
        \A id \in corr.denials[n].ids : reports[id].box # "exec"
=============================================================================
