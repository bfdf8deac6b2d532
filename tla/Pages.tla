-------------------------------- MODULE Pages --------------------------------
(***************************************************************************)
(* What people see: runs are launched and recorded on an endpoint          *)
(* (internal/correlate through internal/store), their rows arrive at the   *)
(* server in the order of their revisions (internal/serverdb), and a page  *)
(* is put together from several queries of the mirror (pages.go, ui.go).   *)
(* The server has one connection, so a query is one step and so is the     *)
(* transaction of a batch, and they interleave.  `buckle query` reads the  *)
(* endpoint itself (internal/report).                                      *)
(*                                                                         *)
(* One host with one database; a list or a count in a page is kept as the  *)
(* set it lists or counts.  "by", "how" and "env" of a run are ghosts: who *)
(* launched it, how the profile was given, the environment inside.         *)
(***************************************************************************)
EXTENDS Launch, FiniteSets

CONSTANTS
    Scenarios   \* records: "launches", a sequence of <<who, how the profile is given>>, and the bounds
                \* "images" and "count" on the processes and the denials of a run, "rev" on the counter


VARIABLES
    scenario,   \* the one that happens
    rows,       \* the endpoint's rows
    counter,    \* rev_counter.value
    mirror,     \* the server's rows
    cursor,     \* sync_state.rev
    page        \* the page in the browser, or on its way

vars == <<scenario, rows, counter, mirror, cursor, page>>

In(S, t) == {r \in S : r.key[1] = t}
Id(r) == r.key[2]
Ids(S) == {Id(r) : r \in S}
NextId(t) == Cardinality(In(rows, t)) + 1

\* The row of t with that id, as a set, and the rows of t that refer to that id by a column.
Row(S, t, id) == {r \in In(S, t) : Id(r) = id}
Where(S, t, column, id) == {r \in In(S, t) : r[column] = id}

\* sum(denials.count)
Total(S) == MapThenSumSet(LAMBDA d : d.count, S)

-----------------------------------------------------------------------------
(* The endpoint.  Each action is one call of the correlator; what it writes gets the next revisions
   in the order of its statements; no call writes a row twice, so rows that arrive one by one make up
   for calls that are several transactions.  Not here, as Sync and Store have it: Prune. *)

\* The rows of a sequence are inserted or updated, one after the other.
Commit(seq) ==
    /\ counter + Len(seq) <= scenario.rev
    /\ counter' = counter + Len(seq)
    /\ rows' = {r \in rows : \A i \in DOMAIN seq : r.key # seq[i].key}
               \cup {[seq[i] EXCEPT !.rev = counter + i] : i \in DOMAIN seq}
    /\ UNCHANGED <<scenario, mirror, cursor, page>>

\* EnsureSession: the row of a session, there or new.
Session(name) ==
    LET there == {r \in In(rows, "sessions") : r.name = name}
    IN  IF there # {} THEN there ELSE {[key |-> <<"sessions", NextId("sessions")>>, rev |-> 0, name |-> name]}

Live(p) == p.end = "running"
Members(r) == Where(rows, "processes", "run", Id(r))

\* join: the row of an image that joins run id.
Image(id, parent, prev, platform) ==
    [key |-> <<"processes", NextId("processes")>>, rev |-> 0, run |-> id, parent |-> parent, prev |-> prev,
     platform |-> platform, end |-> "running"]

\* endImage and maybeEndRun: p ends, its run too if it has no other live member.
End(p, reason, members) ==
    <<[p EXCEPT !.end = reason]>> \o
    IF \E q \in members : Live(q) /\ q.key # p.key THEN <<>>
    ELSE LET r == CHOOSE q \in Row(rows, "runs", p.run) : TRUE IN <<[r EXCEPT !.status = "exited"]>>

How == {"inline", "file", "grows", "missing"}

\* Who launches a sandbox-exec: a Claude session, a Cursor conversation with or without an id, others.
Launcher == ({"claude"} \X Tag) \cup ({"cursor"} \X (Conversation \cup {""})) \cup {<<"other", "">>}

ASSUME PagesAssumption ==
    /\ \A s \in Scenarios : s.launches \in Seq(Launcher \X How) /\ {s.images, s.count, s.rev} \subseteq Nat
    /\ NULL \notin {"claude-code", "cursor"} \X (Tag \cup Conversation \cup {"unknown"}) /\ NULL # "unknown"

\* Claude's profile carries its tag, Cursor's its fingerprint.
TextOf(by) ==
    CASE by[1] = "claude" -> <<"(", by[2]>>
      [] by[1] = "cursor" -> <<"(", Fingerprint>>
      [] OTHER -> <<"(">>

\* Cursor sets the conversation id in its shell, to "" or not at all if it has none, and everything
\* started from there inherits it.
EnvOf(by, inherited) ==
    IF by[1] = "cursor" /\ (by[2] # "" \/ inherited # <<>>) THEN <<by[2]>> \o inherited ELSE inherited

\* -p and the text, or -f and a file.
Command(how, text) ==
    IF how = "inline" THEN << <<"x">>, <<"-", "p">>, text, <<"c">> >> ELSE << <<"x">>, <<"-", "f">>, <<"/">>, <<"c">> >>

\* The file: as it should be, written to while it is read, not there.
FileOf(how, text) ==
    CASE how = "file" -> File("regular", text, text)
      [] how = "grows" -> File("regular", text, text \o <<"(", "(">>)
      [] OTHER -> File("missing", <<>>, <<>>)

Launches ==
    [launch \in Launcher \X How |->
        LET text == TextOf(launch[1]) IN ReadProfile(Command(launch[2], text), FileOf(launch[2], text))]

\* handleExec of sandbox-exec by an image of a run, or by a process outside all runs (NULL).  The
\* run's profile row, which InsertRun writes before the run's in the same transaction, is part of it.
Launch(actor) ==
    LET id == NextId("runs")
        by == scenario.launches[id][1]
        how == scenario.launches[id][2]
        around == IF actor = NULL THEN {} ELSE Row(rows, "runs", actor.run)
        env == EnvOf(by, IF around = {} THEN <<>> ELSE (CHOOSE r \in around : TRUE).env)
        made == Launches[scenario.launches[id]]
        run(session) ==
            [key |-> <<"runs", id>>, rev |-> 0, session |-> session, parent |-> IF around = {} THEN NULL ELSE actor.run,
             text |-> made.text, err |-> made.err, status |-> "running", env |-> env, by |-> by, how |-> how]
        rest == <<Image(id, NULL, NULL, TRUE)>> \o IF around = {} THEN <<>> ELSE End(actor, "exec", UNION {Members(r) : r \in around})
    IN
    /\ id <= Len(scenario.launches)
    /\ IF DetectRun(made.text, env) = {} THEN Commit(<<run(NULL)>> \o rest)
       ELSE \E name \in DetectRun(made.text, env) : \E s \in Session(name) : Commit(<<s, run(Id(s))>> \o rest)

\* handleFork.
Fork(p) ==
    /\ \A r \in Row(rows, "runs", p.run) : Cardinality(Members(r)) < scenario.images
    /\ Commit(<<Image(p.run, Id(p), NULL, p.platform)>>)

\* handleExec of another binary: the new image joins before the old one ends.
Exec(p) ==
    /\ \A r \in Row(rows, "runs", p.run) : Cardinality(Members(r)) < scenario.images
    /\ LET new == Image(p.run, p.parent, Id(p), FALSE) IN Commit(<<new>> \o End(p, "exec", {new}))

\* handleExit.
Exit(p) == \E r \in Row(rows, "runs", p.run) : Commit(End(p, "exit", Members(r)))

\* Shutdown: for each run its live image, then the run.
Closing(r) ==
    SetToSeq({[p EXCEPT !.end = "watch_stopped"] : p \in {q \in Members(r) : Live(q)}})
    \o IF r.status = "running" THEN <<[r EXCEPT !.status = "watch_stopped"]>> ELSE <<>>

Stop ==
    /\ \E r \in In(rows, "runs") : r.status = "running"
    /\ Commit(FlattenSeq([id \in 1..Cardinality(In(rows, "runs")) |->
                            Closing(CHOOSE r \in Row(rows, "runs", id) : TRUE)]))

\* attribute: a new denial row, and the session of its message for a run that has none.
Attribute(p, message) ==
    LET denial == [key |-> <<"denials", NextId("denials")>>, rev |-> 0, run |-> p.run, process |-> Id(p), count |-> 1] IN
    \E r \in Row(rows, "runs", p.run) :
      IF r.session # NULL \/ DetectDenial(message) = {} THEN Commit(<<denial>>)
      ELSE \E name \in DetectDenial(message) : \E s \in Session(name) :
             Commit(<<denial, s, [r EXCEPT !.session = Id(s)]>>)

\* HandleDenial: a new line, whose message Claude's profile may have tagged, or a duplicate of the last.
Denial(p) ==
    LET denials == Where(rows, "denials", "run", p.run) IN
    /\ p.end # "watch_stopped"
    /\ Total(denials) < scenario.count
    /\ \/ \E r \in Row(rows, "runs", p.run) : \E message \in {<<>>, TextOf(r.by)} : Attribute(p, message)
       \/ \E d \in denials : d.process = Id(p) /\ Commit(<<[d EXCEPT !.count = @ + 1]>>)

Record ==
    \/ \E actor \in {p \in In(rows, "processes") : Live(p)} \cup {NULL} : Launch(actor)
    \/ \E p \in In(rows, "processes") : Live(p) /\ (Fork(p) \/ Exec(p) \/ Exit(p))
    \/ \E p \in In(rows, "processes") : Denial(p)
    \/ Stop

-----------------------------------------------------------------------------
(* The mirror. *)

\* The row with the next revision arrives and replaces what the mirror has.  A batch of several rows
\* is several of these steps with nothing in between.
Receive ==
    \E r \in rows :
      /\ r.rev > cursor
      /\ \A q \in rows : q.rev > cursor => q.rev >= r.rev
      /\ mirror' = {m \in mirror : m.key # r.key} \cup {r}
      /\ cursor' = r.rev
      /\ UNCHANGED <<scenario, rows, counter, page>>

\* sessionCols: the denials are those of the session's runs.
Summary(s) ==
    LET runs == Where(mirror, "runs", "session", Id(s)) IN
    [id |-> Id(s), name |-> s.name, runs |-> Ids(runs),
     denials |-> Total({d \in In(mirror, "denials") : d.run \in Ids(runs)})]

\* Mutant of RunSummary: a denial row counts once.
RunSummaryRows(r) ==
    [id |-> Id(r), status |-> r.status, by |-> r.by, text |-> r.text,
     processes |-> Cardinality(Where(mirror, "processes", "run", Id(r))),
     denials |-> Cardinality(Where(mirror, "denials", "run", Id(r)))]

RunSummary(r) ==
    [id |-> Id(r), status |-> r.status, by |-> r.by, text |-> r.text,
     processes |-> Cardinality(Where(mirror, "processes", "run", Id(r))),
     denials |-> Total(Where(mirror, "denials", "run", Id(r)))]

\* LEFT JOIN: the name of a session or the platform flag of a process that has not arrived is NULL.
Joined(S, column) == IF S = {} THEN NULL ELSE (CHOOSE r \in S : TRUE)[column]

\* DB.Run's first query.
Detail(r) ==
    [id |-> Id(r), status |-> r.status, by |-> r.by, parent |-> r.parent, session |-> r.session, err |-> r.err,
     name |-> IF r.session = NULL THEN NULL ELSE Joined(Row(mirror, "sessions", r.session), "name"),
     text |-> r.text]

\* The queries of a page about id, which is NULL for untagged runs.
Answer(query, id) ==
    CASE query = "sessions" -> {Summary(s) : s \in In(mirror, "sessions")}
      [] query = "untagged" -> Ids(Where(mirror, "runs", "session", NULL))
      [] query = "session" -> {Summary(s) : s \in Row(mirror, "sessions", id)}
      [] query = "runs" -> {RunSummary(r) : r \in Where(mirror, "runs", "session", id)}
      [] query = "run" -> {Detail(r) : r \in Row(mirror, "runs", id)}
      [] query = "children" -> Ids(Where(mirror, "runs", "parent", id))
      [] query = "processes" ->
            {[id |-> Id(p), parent |-> p.parent, prev |-> p.prev, end |-> p.end, platform |-> p.platform] : p \in Where(mirror, "processes", "run", id)}
      [] query = "denials" ->
            {[id |-> Id(d), process |-> d.process, count |-> d.count,
              platform |-> Joined(Row(mirror, "processes", d.process), "platform")] : d \in Where(mirror, "denials", "run", id)}

-----------------------------------------------------------------------------
(* The pages. *)

\* Mutant of Queries: the index counts the untagged runs first.
QueriesUntaggedFirst == [
    index |-> <<"untagged", "sessions">>, session |-> <<"session", "runs">>, untagged |-> <<"runs">>,
    run |-> <<"run", "children", "processes", "denials">>]

\* The queries of each page, in order.
Queries == [
    index |-> <<"sessions", "untagged">>, session |-> <<"session", "runs">>, untagged |-> <<"runs">>,
    run |-> <<"run", "children", "processes", "denials">>]

\* A page: what it is about, whether it was opened by the link to a parent run, the queries answered so
\* far and what has become of it.
Opened(at, id, via) == [at |-> at, id |-> id, via |-> via, got |-> <<>>, is |-> "loading"]

\* Mutant of Unknown: a session is unknown until its row has arrived.
UnknownRow(at, got) ==
    \/ at = "run" /\ got[1] = {}
    \/ at = "session" /\ Len(got) = 2 /\ \A s \in got[1] : s.name[2] = ""

\* ErrNotFound: no such run; a session without a row, or a key, and without runs.
Unknown(at, got) ==
    \/ at = "run" /\ got[1] = {}
    \/ at = "session" /\ Len(got) = 2 /\ (\A s \in got[1] : s.name[2] = "") /\ got[2] = {}

\* The next query of a page.
Query ==
    LET got == Append(page.got, Answer(Queries[page.at][Len(page.got) + 1], page.id)) IN
    /\ page.is = "loading"
    /\ page' = [page EXCEPT !.got = got,
                            !.is = IF Unknown(page.at, got) THEN "missing"
                                   ELSE IF Len(got) = Len(Queries[page.at]) THEN "shown" ELSE "loading"]
    /\ UNCHANGED <<scenario, rows, counter, mirror, cursor>>

\* The answer to a query of the page.
Got(query) == page.got[SelectInSeq(Queries[page.at], LAMBDA q : q = query)]

\* The links of a page: the sessions and untagged runs of the index, the runs of a list, and the
\* crumbs, parent and children of a run.
Links ==
    CASE page.at = "index" -> {<<"session", s.id, "link">> : s \in Got("sessions")} \cup {<<"untagged", NULL, "link">>}
      [] page.at \in {"session", "untagged"} -> {<<"run", r.id, "link">> : r \in Got("runs")}
      [] page.at = "run" ->
            {<<IF r.session = NULL THEN "untagged" ELSE "session", r.session, "link">> : r \in Got("run")}
            \cup {<<"run", c, "link">> : c \in Got("children")}
            \cup {<<"run", r.parent, "parent">> : r \in {d \in Got("run") : d.parent # NULL}}

\* A link is followed, or the index opened.
Follow ==
    /\ \/ page.is = "shown" /\ \E link \in Links : page' = Opened(link[1], link[2], link[3])
       \/ page.is # "loading" /\ page' = Opened("index", NULL, "link")
    /\ UNCHANGED <<scenario, rows, counter, mirror, cursor>>

\* timeline: the entries for the starts and ends of images; an end by an exec has none.
Timeline(images) ==
    {<<IF p.prev # NULL THEN "exec" ELSE IF p.parent # NULL THEN "fork" ELSE "start", p.id>> : p \in images}
    \cup {<<"exit", p.id>> : p \in {q \in images : q.end = "exit"}}
    \cup {<<"stopped", p.id>> : p \in {q \in images : q.end = "watch_stopped"}}

-----------------------------------------------------------------------------
Init ==
    /\ scenario \in Scenarios
    /\ rows = {} /\ counter = 0
    /\ mirror = {} /\ cursor = 0
    /\ page = Opened("index", NULL, "link")

Next == Record \/ Receive \/ Query \/ Follow

Spec == Init /\ [][Next]_vars

-----------------------------------------------------------------------------
(* `buckle query` on the endpoint. *)

\* Sessions: those with a run.
ReportSessions ==
    {[id |-> Id(s), name |-> s.name, runs |-> Ids(Where(rows, "runs", "session", Id(s))),
      denials |-> Total({d \in In(rows, "denials") : \E r \in Where(rows, "runs", "session", Id(s)) : d.run = Id(r)})] :
     s \in {q \in In(rows, "sessions") : Where(rows, "runs", "session", Id(q)) # {}}}

\* Runs with that key in their session column, NULL for the runs without a session (LEFT JOIN).
ReportRuns(sessionKey) ==
    {[id |-> Id(r), status |-> r.status, processes |-> Cardinality(Where(rows, "processes", "run", Id(r))),
      denials |-> Total(Where(rows, "denials", "run", Id(r)))] :
     r \in {q \in In(rows, "runs") : sessionKey = IF q.session = NULL THEN NULL ELSE (CHOOSE s \in Row(rows, "sessions", q.session) : TRUE).name[2]}}

\* RunDetail and Denials: run, processes, denials with the process they are of.
ReportRun(id) ==
    {[status |-> r.status, parent |-> r.parent, err |-> r.err, text |-> r.text,
      name |-> {s.name : s \in {q \in In(rows, "sessions") : Id(q) = r.session}},
      processes |-> Where(rows, "processes", "run", id),
      denials |-> {x \in In(rows, "denials") \X In(rows, "processes") : x[1].run = id /\ x[1].process = Id(x[2])}] :
     r \in Row(rows, "runs", id)}

-----------------------------------------------------------------------------
(* Properties. *)

\* Two options at most, each with the flags before it in its word, its value in the word or the next.
Option ==
    [flags : {<<>>, <<"d">>}, opt : {"D", "f", "p"}, attached : BOOLEAN,
     value : {<<>>, <<"a">>, <<"-", "-">>, <<"-", "p">>}]
Options == {opts \in SeqOf(Option, 2) : \A i \in DOMAIN opts : opts[i].attached => opts[i].value # <<>>}

Written(o) ==
    LET word == <<"-">> \o o.flags \o <<o.opt>> IN
    IF o.attached THEN <<word \o o.value>> ELSE <<word, o.value>>

\* A command, and whether "--" stands before it; only then may it look like an option.
Target == {target \in BOOLEAN \X {<<>>, << <<"a">>, <<"-", "f">> >>, << <<"-", "n">>, <<"a">> >>} :
             target[2] # <<>> /\ Len(target[2][1]) > 1 => target[1]}

\* A command line means what it was written for: the last of its profile options, the parameters in
\* order, the rest as command, whatever the values look like and however they are attached (ParseArgs).
\* No state matters to it: it is asked before the first launch.
ParsesAsWritten ==
    rows = {} => \A opts \in Options, target \in Target :
        LET words == FlattenSeq([i \in DOMAIN opts |-> Written(opts[i])])
            spec == ParseArgs(<< <<"x">> >> \o words \o (IF target[1] THEN << <<"-", "-">> >> ELSE <<>>) \o target[2])
            profiles == SelectSeq(opts, LAMBDA o : o.opt \in {"f", "p"})
        IN
        /\ spec.command = target[2]
        /\ spec.err = (profiles = <<>>)
        /\ spec.source = IF profiles = <<>> THEN "unknown" ELSE IF Last(profiles).opt = "p" THEN "inline" ELSE "file"
        /\ profiles # <<>> => spec.value = Last(profiles).value
        /\ spec.params = LET ds == SelectSeq(opts, LAMBDA o : o.opt = "D") IN [i \in DOMAIN ds |-> ds[i].value]

\* What was given as the profile of a run.
Given(r) == IF r.how = "inline" THEN TextOf(r.by) ELSE FileOf(r.how, TextOf(r.by)).after

\* A run has the whole text of its profile, or none and an error, also if the file was written to
\* while it was read (readProfileFile): a cut profile could miss the tag or the rule that matters.
ProfileWhole ==
    \A r \in In(rows, "runs") : (r.text = Given(r) /\ ~r.err) \/ (r.text = <<>> /\ r.err)

\* The session a run of that launcher belongs to.
Owner(by) ==
    CASE by[1] = "claude" -> <<"claude-code", by[2]>>
      [] by[1] = "cursor" -> <<"cursor", IF by[2] = "" THEN "unknown" ELSE by[2]>>
      [] OTHER -> NULL

\* A page shows a run under the session of who launched it or, while that is unknown, under none:
\* through nested launchers, inherited environments, late tags in denials, and rows that arrive in
\* any order.  A run whose profile was read is never shown as untagged if its launcher is an agent.
ShownUnderOwner ==
    page.is = "shown" =>
      CASE page.at = "run" -> \A r \in Got("run") : r.name \in {NULL, Owner(r.by)}
        [] page.at = "session" -> \A s \in Got("session"), r \in Got("runs") : Owner(r.by) = s.name
        [] page.at = "untagged" -> \A r \in Got("runs") : r.text = <<>> \/ Owner(r.by) = NULL
        [] page.at = "index" -> \A s \in Got("sessions"), r \in In(mirror, "runs") : Id(r) \in s.runs => Owner(r.by) = s.name

\* The index counts no run twice, although a run may get its session between the two queries (Hosts).
IndexCountsOnce ==
    page.is = "shown" /\ page.at = "index" => \A s \in Got("sessions") : s.runs \cap Got("untagged") = {}

\* No link of a page leads to a "not found", though sessions may arrive after their runs and runs
\* after their session; only the link to a parent run does, until that run has arrived.
NoDeadLink == page.is = "missing" => page.via = "parent"

\* The page is what the server would answer now that everything recorded has arrived.
UpToDate ==
    /\ page.is = "shown" /\ cursor = counter
    /\ \A i \in DOMAIN page.got : page.got[i] = Answer(Queries[page.at][i], page.id)

\* Once everything recorded has arrived, the pages show what `buckle query` prints on the endpoint,
\* and the timeline how each image ended that did not go on as another one.
PageMatchesReport ==
    UpToDate =>
      CASE page.at = "index" ->
             /\ {s \in Got("sessions") : s.runs # {}} = ReportSessions
             /\ Got("untagged") = Ids(Where(rows, "runs", "session", NULL))
        [] page.at \in {"session", "untagged"} ->
             \A key \in IF page.at = "untagged" THEN {NULL} ELSE {s.name[2] : s \in Got("session")} :
               ReportRuns(key) =
                 {[id |-> r.id, status |-> r.status, processes |-> r.processes, denials |-> r.denials] : r \in Got("runs")}
        [] page.at = "run" ->
             \A d \in Got("run"), q \in ReportRun(page.id) :
               /\ <<d.status, d.parent, d.err, d.text>> = <<q.status, q.parent, q.err, q.text>>
               /\ IF d.name = NULL THEN q.name = {} ELSE q.name = {d.name}
               /\ {<<p.id, p.end>> : p \in Got("processes")} = {<<Id(p), p.end>> : p \in q.processes}
               /\ {<<x.id, x.count, x.platform>> : x \in Got("denials")} = {<<Id(x[1]), x[1].count, x[2].platform>> : x \in q.denials}
               /\ \A p \in q.processes :
                    {<<"exit", Id(p)>>, <<"stopped", Id(p)>>} \cap Timeline(Got("processes")) =
                    CASE p.end = "exit" -> {<<"exit", Id(p)>>}
                      [] p.end = "watch_stopped" -> {<<"stopped", Id(p)>>}
                      [] OTHER -> {}
=============================================================================
