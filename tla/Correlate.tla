------------------------------ MODULE Correlate ------------------------------
(***************************************************************************)
(* The correlator of internal/correlate: how exec, fork and exit events    *)
(* and Sandbox denials become runs, process rows, denial rows and orphans. *)
(*                                                                         *)
(* The correlator runs in one goroutine, so each of HandleES, HandleDenial,*)
(* Tick and Shutdown is one operator from a state c to the next state.     *)
(* A state holds the Correlator's fields and the rows it wrote to its Sink.*)
(* An image is named by the order of its creation, a run likewise; 0 is    *)
(* the nil pointer.  Times are natural numbers, NoTime is "not ended".     *)
(* Names, arguments, paths of profiles and the like are left out.          *)
(***************************************************************************)
EXTENDS Integers, FiniteSets, Sequences

CONSTANTS
    Pid,            \* process ids
    What,           \* the (operation, target) pairs a denial can name
    Tag,            \* the session tags a detector recognises
    NoTag,
    SandboxExec,    \* the path /usr/bin/sandbox-exec
    Platform,       \* paths of platform binaries
    Entitled,       \* paths of binaries with the App Sandbox entitlement
    Slack,          \* timeSlack
    Buffer,         \* Config.Buffer
    LagCapFactor,   \* lagCapFactor
    MinRetention    \* minRetention

NoTime == -1
DenialKey == Pid \X What
KeyOf(d) == <<d.pid, d.what>>
Larger(a, b) == IF a < b THEN b ELSE a

\* The only member of S; the nil pointer if there is none.
Only(S) == IF S = {} THEN 0 ELSE CHOOSE i \in S : TRUE

\* New: nothing known, nothing written.
Empty ==
    [mark |-> 0,                                    \* esWatermark
     img |-> <<>>,                                  \* every image ever created
     tokens |-> {},                                 \* images: those found by audit token
     byPID |-> {},                                  \* images: those found by pid
     seen |-> [p \in Pid |-> 0],                    \* last pidversion in an event, 0 if none
     runs |-> <<>>,
     adopted |-> [t \in Tag |-> 0],
     pend |-> {},                                   \* pendingByPID, the denials of all pids
     lastPending |-> [k \in DenialKey |-> 0],       \* the id of a pending denial
     lastStored |-> [k \in DenialKey |-> [row |-> 0, img |-> 0]],
     lastOrphan |-> [k \in DenialKey |-> 0],
     denials |-> <<>>,                              \* rows of table denials
     orphans |-> <<>>,                              \* rows of table orphans
     dropped |-> {}]                                \* reports that were dropped

-----------------------------------------------------------------------------
(* Images *)

\* imageFor's and the handlers' literal; prog is the executable's path, row the state of the process
\* row: "none" until join inserts it, then "open" or its end reason.
NewImage(proc, start) ==
    [pid |-> proc.pid, ver |-> proc.ver, prog |-> proc.prog, execSeen |-> FALSE, noToken |-> FALSE,
     parent |-> 0, prev |-> 0, start |-> start, end |-> NoTime, endReason |-> "none", run |-> 0, row |-> "none"]

\* register: the new image is the last one.
Register(c, image) ==
    LET i == Len(c.img) + 1
    IN  [c EXCEPT !.img = Append(@, image),
                  !.tokens = IF image.noToken THEN @ ELSE @ \cup {i},
                  !.byPID = @ \cup {i}]

\* The last image of S in the order of byPID: by start, and in the order of registration where that is
\* the same.
Newest(c, S) ==
    {i \in S : \A j \in S : \/ c.img[j].start < c.img[i].start
                            \/ c.img[j].start = c.img[i].start /\ j <= i}

\* The image with proc's audit token, 0 if there is none.
Find(c, proc) == Only({i \in c.tokens : c.img[i].pid = proc.pid /\ c.img[i].ver = proc.ver})

\* imageFor: an actor that is not known predates the watch.
ImageFor(c, proc) ==
    IF Find(c, proc) # 0 THEN c ELSE Register(c, NewImage(proc, proc.born))

\* A pid with a new pidversion is another process: its orphan rows take no more duplicates.
MarkSeen(c, proc) ==
    LET changed == c.seen[proc.pid] \notin {0, proc.ver}
    IN  [c EXCEPT !.seen[proc.pid] = proc.ver,
                  !.lastOrphan = [k \in DenialKey |-> IF changed /\ k[1] = proc.pid THEN 0 ELSE @[k]]]

\* Mutant of IsCurrent: a pid is one process for ever.
IsCurrentAlways(c, i) == i # 0

\* isCurrent: the newest image of the pid is i, or was exec'd from i.
IsCurrent(c, i) ==
    LET newest == Only(Newest(c, {j \in c.byPID : c.img[j].pid = c.img[i].pid}))
        from[j \in 0..Len(c.img)] == j # 0 /\ (j = i \/ from[c.img[j].prev])
    IN  from[newest]

\* Mutant of Resolve: the newest image, whenever it started.
ResolveNewest(c, pid, t) == Only(Newest(c, {i \in c.byPID : c.img[i].pid = pid}))

\* resolve: the image that was pid at time t, 0 if none.
Resolve(c, pid, t) ==
    LET started == {i \in c.byPID : c.img[i].pid = pid /\ c.img[i].start <= t + Slack}
        over(i) == c.img[i].end # NoTime /\ c.img[i].end < t - Slack
    IN  Only({i \in Newest(c, started) : ~over(i)})

CaughtUp(c, t) == c.mark > t + Slack

-----------------------------------------------------------------------------
(* Runs *)

\* InsertRun of a run of the given kind; root is a ghost, the image the run starts with.
StartRun(c, kind, root, session) ==
    [c EXCEPT !.runs = Append(@, [kind |-> kind, root |-> root, live |-> {}, lastEnd |-> 0, ended |-> FALSE,
                                  session |-> session, status |-> "running", endedAt |-> NoTime])]

\* join: the image becomes a member and gets its process row, already ended if the image is.
Join(c, i, r) ==
    IF c.img[i].run # 0 THEN c
    ELSE IF c.img[i].end = NoTime
    THEN [c EXCEPT !.img[i].run = r, !.img[i].row = "open", !.runs[r].live = @ \cup {i}]
    ELSE [c EXCEPT !.img[i].run = r, !.img[i].row = c.img[i].endReason,
                   !.runs[r].lastEnd = Larger(@, c.img[i].end)]

\* The images of a path join from the root down.
JoinPath(c, path, r) ==
    LET after[i \in 0..Len(c.img)] == IF i = 0 THEN c
                                      ELSE IF i \in path THEN Join(after[i - 1], i, r) ELSE after[i - 1]
    IN  after[Len(c.img)]

\* maybeEndRun.
MaybeEndRun(c, r) ==
    IF c.runs[r].ended \/ c.runs[r].kind = "adopted" \/ c.runs[r].live # {} THEN c
    ELSE [c EXCEPT !.runs[r].ended = TRUE, !.runs[r].status = "exited", !.runs[r].endedAt = c.runs[r].lastEnd]

\* Mutant of EndImage: the image stays in the live set.
EndImageStays(c, i, t, reason) ==
    LET r == c.img[i].run
        ended == [c EXCEPT !.img[i].end = t, !.img[i].endReason = reason]
    IN  IF c.img[i].end # NoTime THEN c
        ELSE IF r = 0 THEN ended
        ELSE MaybeEndRun([ended EXCEPT !.img[i].row = reason, !.runs[r].lastEnd = Larger(@, t)], r)

\* endImage.
EndImage(c, i, t, reason) ==
    LET r == c.img[i].run
        ended == [c EXCEPT !.img[i].end = t, !.img[i].endReason = reason]
    IN  IF c.img[i].end # NoTime THEN c
        ELSE IF r = 0 THEN ended
        ELSE MaybeEndRun([ended EXCEPT !.img[i].row = reason,
                                       !.runs[r].live = @ \ {i},
                                       !.runs[r].lastEnd = Larger(@, t)], r)

-----------------------------------------------------------------------------
(* eslogger events: [kind, time, actor, target, tag], tag being what the run detectors see in a
   sandbox-exec's profile and environment. *)

\* imageFor for the actor and markSeen for both processes of a fork or an exec.
Track(c, ev) == MarkSeen(MarkSeen(ImageFor(c, ev.actor), ev.actor), ev.target)

\* Mutant of HandleFork: the child joins no run.
HandleForkAlone(c0, ev) ==
    LET c == Track(c0, ev)
    IN  IF Find(c, ev.target) # 0 THEN c
        ELSE Register(c, [NewImage(ev.target, ev.time) EXCEPT !.parent = Find(c, ev.actor)])

\* A child joins the run of its parent.
HandleFork(c0, ev) ==
    LET c == Track(c0, ev)
        parent == Find(c, ev.actor)
        forked == Register(c, [NewImage(ev.target, ev.time) EXCEPT !.parent = parent])
    IN  IF Find(c, ev.target) # 0 THEN c
        ELSE IF c.img[parent].run = 0 THEN forked
        ELSE Join(forked, Len(forked.img), c.img[parent].run)

\* The switch in handleExec: a sandbox-exec starts a run, another image stays in the one of actor.
Place(c, ev, actor, image) ==
    IF ev.target.prog = SandboxExec
      THEN Join(StartRun(c, "sandbox-exec", image, ev.tag), image, Len(c.runs) + 1)
    ELSE IF c.img[actor].run # 0 THEN Join(c, image, c.img[actor].run)
    ELSE c

\* The new image joins its run before the old one ends, so the run is never empty in between.
HandleExec(c0, ev) ==
    LET c == Track(c0, ev)
        actor == Find(c, ev.actor)
        execd == Register(c, [NewImage(ev.target, ev.time) EXCEPT
                                !.execSeen = TRUE, !.parent = c.img[actor].parent, !.prev = actor])
    IN  IF Find(c, ev.target) # 0 THEN c
        ELSE EndImage(Place(execd, ev, actor, Len(execd.img)), actor, ev.time, "exec")

HandleExit(c, ev) ==
    LET i == Find(c, ev.actor) IN IF i = 0 THEN c ELSE EndImage(c, i, ev.time, "exit")

HandleES(c0, ev) ==
    LET c == [c0 EXCEPT !.mark = Larger(@, ev.time)]
    IN  CASE ev.kind = "fork" -> HandleFork(c, ev)
          [] ev.kind = "exec" -> HandleExec(c, ev)
          [] ev.kind = "exit" -> HandleExit(c, ev)

-----------------------------------------------------------------------------
(* Denials: [id, pid, what, tag, time, duplicate].  A pending denial is [d, count, arrived, ids]; ids is
   a ghost, the reports counted in it, and so it is in the rows. *)

\* attribute: the denial row, and the session if the run has none and the message carries a tag.
Attribute(c, p, i) ==
    LET r == c.img[i].run
        k == KeyOf(p.d)
    IN  [c EXCEPT !.denials = Append(@, [run |-> r, img |-> i, count |-> p.count, ids |-> p.ids]),
                  !.lastStored[k] = [row |-> Len(c.denials) + 1, img |-> i],
                  !.lastPending[k] = IF @ = p.d.id THEN 0 ELSE @,
                  !.runs[r].session = IF @ = NoTag THEN p.d.tag ELSE @]

\* The images from i up along fork edges to the first one whose exec was seen.
PathUp(c, i) ==
    LET up[j \in 0..Len(c.img)] == IF j = 0 THEN {}
                                   ELSE IF c.img[j].execSeen THEN {j} ELSE {j} \cup up[c.img[j].parent]
    IN  up[i]

\* eligible: no image of the path is of a platform binary, and each was forked from one that runs the
\* same binary, but for the one whose exec was seen.
Eligible(c, path) ==
    \A j \in path :
        /\ ~c.img[j].noToken /\ c.img[j].prog \notin Platform
        /\ c.img[j].execSeen \/ (c.img[j].parent # 0 /\ c.img[c.img[j].parent].prog = c.img[j].prog)

\* Mutant of AppSandboxed: the entitlement is not checked.
AppSandboxedNever(c, root) == FALSE

\* HasAppSandbox, whose answers entCache keeps for the life of the watch.
AppSandboxed(c, root) == c.img[root].prog \in Entitled

\* candidateRun: i's sandbox_init run, made on its first denial unless the binary has the App Sandbox
\* entitlement.  Without a run the state is unchanged.
CandidateRun(c, i) ==
    LET path == PathUp(c, i)
        root == Only({j \in path : c.img[j].execSeen})
        known == c.img[root].run
        r == IF known # 0 THEN known ELSE Len(c.runs) + 1
        started == IF known # 0 THEN c ELSE StartRun(c, "sandbox-init", root, NoTag)
    IN  IF ~Eligible(c, path) \/ (known = 0 /\ AppSandboxed(c, root)) THEN c
        ELSE MaybeEndRun(JoinPath(started, path, r), r)

\* adopt, with the stub image for a pid that has no events, and the join.
Adopt(c, d, i) ==
    LET known == c.adopted[d.tag]
        r == IF known # 0 THEN known ELSE Len(c.runs) + 1
        adopted == IF known # 0 THEN c
                   ELSE [StartRun(c, "adopted", 0, d.tag) EXCEPT !.adopted[d.tag] = r]
        stub == [NewImage([pid |-> d.pid, ver |-> 0, prog |-> "unknown"], 0) EXCEPT !.noToken = TRUE]
    IN  IF i # 0 THEN Join(adopted, i, r)
        ELSE Join(Register(adopted, stub), Len(c.img) + 1, r)

\* Mutant of Orphan: forgets the duplicates counted while the denial waited.
OrphanOnce(c, p) ==
    IF c.seen[p.d.pid] = 0 THEN [c EXCEPT !.dropped = @ \cup p.ids]
    ELSE [c EXCEPT !.orphans = Append(@, [count |-> 1, ids |-> p.ids]),
                   !.lastOrphan[KeyOf(p.d)] = Len(c.orphans) + 1]

\* The orphan row of a denial whose pid was in an event of this watch; others are dropped.
Orphan(c, p) ==
    IF c.seen[p.d.pid] = 0 THEN [c EXCEPT !.dropped = @ \cup p.ids]
    ELSE [c EXCEPT !.orphans = Append(@, [count |-> p.count, ids |-> p.ids]),
                   !.lastOrphan[KeyOf(p.d)] = Len(c.orphans) + 1]

\* finalize: attribute, adopt, sandbox_init candidate, orphan or drop; classify is FALSE when process
\* events may be missing.
Finalize(c0, p, classify) ==
    LET c == [c0 EXCEPT !.lastPending[KeyOf(p.d)] = IF @ = p.d.id THEN 0 ELSE @]
        i == Resolve(c, p.d.pid, p.d.time)
        withAdopted == Adopt(c, p.d, i)
        stub == Len(c.img) + 1
        candidate == CandidateRun(c, i)
    IN  IF i # 0 /\ c.img[i].run # 0 THEN Attribute(c, p, i)
        ELSE IF classify /\ p.d.tag # NoTag THEN Attribute(withAdopted, p, IF i # 0 THEN i ELSE stub)
        ELSE IF i # 0 /\ classify /\ candidate.img[i].run # 0 THEN Attribute(candidate, p, i)
        ELSE Orphan(c, p)

\* HandleDenial: a duplicate report adds to the denial it repeats, another denial is attributed at
\* once or waits.
HandleDenial(c, d, now) ==
    LET k == KeyOf(d)
        sd == c.lastStored[k]
        p == [d |-> d, count |-> 1, arrived |-> now, ids |-> {d.id}]
        i == Resolve(c, d.pid, d.time)
        more(q) == IF q.d.id = c.lastPending[k]
                   THEN [q EXCEPT !.count = @ + 1, !.ids = @ \cup {d.id}] ELSE q
    IN  IF d.duplicate /\ c.lastPending[k] # 0
          THEN [c EXCEPT !.pend = {more(q) : q \in @}]
        ELSE IF d.duplicate /\ sd.row # 0 /\ IsCurrent(c, sd.img)
          THEN [c EXCEPT !.denials[sd.row].count = @ + 1, !.denials[sd.row].ids = @ \cup {d.id}]
        ELSE IF d.duplicate /\ c.lastOrphan[k] # 0
          THEN [c EXCEPT !.orphans[c.lastOrphan[k]].count = @ + 1, !.orphans[c.lastOrphan[k]].ids = @ \cup {d.id}]
        ELSE IF CaughtUp(c, d.time) /\ i # 0 /\ c.img[i].run # 0
          THEN Attribute(c, p, i)
        ELSE [c EXCEPT !.pend = @ \cup {p}, !.lastPending[k] = d.id]

-----------------------------------------------------------------------------
(* Tick and Shutdown *)

Retention == Larger(MinRetention, 3 * Buffer)
\* Mutant of LagCap: a lagging stream gets no more time than the window.
LagCapWindow == Buffer

LagCap == LagCapFactor * Buffer

\* evict: images that ended before the cutoff can no longer be found.
Evict(c, now) ==
    LET gone == {i \in 1..Len(c.img) : c.img[i].end # NoTime /\ c.img[i].end < now - Retention}
    IN  [c EXCEPT !.tokens = @ \ gone,
                  !.byPID = @ \ gone,
                  !.lastStored = [k \in DenialKey |-> IF @[k].img \in gone THEN [row |-> 0, img |-> 0] ELSE @[k]]]

\* The orders in which Tick and Shutdown may meet the pending denials: one pid after the other, as Go
\* iterates over the map, and those of one pid as they came.
Orders(c) ==
    {s \in [1..Cardinality(c.pend) -> c.pend] :
        /\ \A p \in c.pend : \E n \in DOMAIN s : s[n] = p
        /\ \A m, n \in DOMAIN s : m < n /\ s[m].d.pid = s[n].d.pid =>
               s[m].d.id < s[n].d.id /\ \A k \in m..n : s[k].d.pid = s[m].d.pid}

\* p leaves the list of its pid.
Leave(c, p) == [c EXCEPT !.pend = @ \ {p}]

\* Mutants of Retry: attributes a denial and keeps it; classifies without waiting for eslogger; waits for
\* eslogger for ever.
RetryKeeps(c, p, now) ==
    LET i == Resolve(c, p.d.pid, p.d.time)
    IN  IF CaughtUp(c, p.d.time) /\ now - p.arrived >= Buffer THEN Finalize(Leave(c, p), p, TRUE)
        ELSE IF now - p.arrived >= LagCap THEN Finalize(Leave(c, p), p, FALSE)
        ELSE IF CaughtUp(c, p.d.time) /\ i # 0 /\ c.img[i].run # 0 THEN Attribute(c, p, i)
        ELSE c

RetryEarly(c, p, now) == IF now - p.arrived >= Buffer THEN Finalize(Leave(c, p), p, TRUE) ELSE c

RetryUncapped(c, p, now) ==
    IF CaughtUp(c, p.d.time) /\ now - p.arrived >= Buffer THEN Finalize(Leave(c, p), p, TRUE) ELSE c

\* What Tick does with one pending denial.
Retry(c, p, now) ==
    LET waited == now - p.arrived
        caught == CaughtUp(c, p.d.time)
        i == Resolve(c, p.d.pid, p.d.time)
    IN  IF caught /\ waited >= Buffer THEN Finalize(Leave(c, p), p, TRUE)
        ELSE IF waited >= LagCap THEN Finalize(Leave(c, p), p, FALSE)
        ELSE IF caught /\ i # 0 /\ c.img[i].run # 0 THEN Attribute(Leave(c, p), p, i)
        ELSE c

\* Tick: each pending denial is tried again, then old images are evicted.
Tick(c, now, order) ==
    LET after[n \in 0..Len(order)] == IF n = 0 THEN c ELSE Retry(after[n - 1], order[n], now)
    IN  Evict(after[Len(order)], now)

\* Mutant of Shutdown: leaves the pending denials.
ShutdownUndecided(c, order) ==
    [c EXCEPT !.img = [i \in DOMAIN @ |-> IF @[i].row = "open" THEN [@[i] EXCEPT !.row = "watch_stopped"] ELSE @[i]],
              !.runs = [r \in DOMAIN @ |-> IF @[r].ended THEN @[r]
                                           ELSE [@[r] EXCEPT !.live = {}, !.ended = TRUE, !.status = "watch_stopped"]]]

\* Shutdown: every pending denial is decided, open processes and runs are closed without an end time.
Shutdown(c0, order) ==
    LET after[n \in 0..Len(order)] ==
            IF n = 0 THEN c0 ELSE Finalize(Leave(after[n - 1], order[n]), order[n], TRUE)
        c == after[Len(order)]
        open == UNION {c.runs[r].live : r \in DOMAIN c.runs}
        close(r) == IF r.ended THEN [r EXCEPT !.live = {}]
                    ELSE [r EXCEPT !.live = {}, !.ended = TRUE, !.status = "watch_stopped"]
    IN  [c EXCEPT !.img = [i \in DOMAIN @ |-> IF i \in open THEN [@[i] EXCEPT !.row = "watch_stopped"] ELSE @[i]],
                  !.runs = [r \in DOMAIN @ |-> close(@[r])]]
=============================================================================
