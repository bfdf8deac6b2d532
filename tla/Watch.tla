-------------------------------- MODULE Watch --------------------------------
(***************************************************************************)
(* `buckle watch` as a set of processes: two children that write lines     *)
(* (eslogger and log stream), one reader goroutine for each, and the main  *)
(* goroutine, which starts them, feeds the correlator in its loop and      *)
(* brings everything down on Ctrl-C, when a child dies or when the         *)
(* database fails.                                                         *)
(*                                                                         *)
(* A line is only counted; what the correlator does with it is module      *)
(* Correlate.  Timers fire at any time after they are set.                 *)
(***************************************************************************)
EXTENDS Integers, Sequences, FiniteSets

CONSTANTS
    MaxLines,   \* bound on the lines a child writes
    Capacity,   \* capacity of the channel source.lines
    Faults      \* what may go wrong: a subset of {"start", "crash", "scan", "store"}

ASSUME BoundAssumption == MaxLines \in Nat /\ Capacity \in Nat \ {0}
ASSUME FaultAssumption == Faults \subseteq {"start", "crash", "scan", "store"}

Source == {"eslogger", "log"}
Other(s) == CHOOSE o \in Source : o # s

VARIABLES
    child,      \* [Source -> "none", "running", "dead"], the processes
    sigint,     \* children that have got SIGINT
    shut,       \* children that have closed their output
    written,    \* [Source -> lines the child has written]
    pipe,       \* [Source -> those that have not been read]
    crashed,    \* children that went down of themselves
    reader,     \* [Source -> "scan", "closed" (lines is closed), "done"]
    lines,      \* [Source -> number of lines in the channel]
    scanErr,    \* sources whose output could not be read to the end
    drainer,    \* sources whose lines abandon() throws away
    handled,    \* [Source -> lines given to the correlator]
    lost,       \* [Source -> lines thrown away]
    pressed,    \* Ctrl-C or SIGTERM has been sent
    cancelled,  \* ctx.Done() is closed
    main        \* the main goroutine

vars == <<child, sigint, shut, written, pipe, crashed, reader, lines, scanErr, drainer, handled, lost,
          pressed, cancelled, main>>
machine == <<child, sigint, shut, written, pipe, crashed, reader, lines, scanErr, drainer, handled, lost>>
signal == <<pressed, cancelled>>

Running == {s \in Source : child[s] = "running"}

(* main: pc; the sources whose lines variable is not nil; stopping; whether the deadline is set; the dead
   source; the sources still to be abandoned and where to go then; the watch's end reason, and the
   source it names. *)
Init ==
    /\ child = [s \in Source |-> "none"]
    /\ sigint = {} /\ shut = {} /\ crashed = {}
    /\ written = [s \in Source |-> 0] /\ pipe = [s \in Source |-> 0]
    /\ reader = [s \in Source |-> "done"]
    /\ lines = [s \in Source |-> 0]
    /\ scanErr = {} /\ drainer = {}
    /\ handled = [s \in Source |-> 0]
    /\ lost = [s \in Source |-> 0]
    /\ pressed = FALSE /\ cancelled = FALSE
    /\ main = [pc |-> "start eslogger", open |-> Source, stopping |-> FALSE, deadline |-> FALSE,
               dead |-> "eslogger", todo |-> <<>>, after |-> "shutdown", reason |-> "none"]

-----------------------------------------------------------------------------
(* The children and the user *)

Write(s) ==
    /\ s \in Running \ shut /\ written[s] < MaxLines
    /\ written' = [written EXCEPT ![s] = @ + 1]
    /\ pipe' = [pipe EXCEPT ![s] = @ + 1]
    /\ UNCHANGED <<child, sigint, shut, crashed, reader, lines, scanErr, drainer, handled, lost, signal, main>>

\* The sources of S that run are killed; get SIGINT.
Killed(S) == child' = [s \in Source |-> IF s \in S \cap Running THEN "dead" ELSE child[s]]
Interrupted(S) == sigint' = sigint \cup (S \cap Running)

\* A child goes down in two steps, on SIGINT, which it may also ignore, or of itself: its output ends,
\* and the process exits, if it does.
CloseOutput(s) ==
    /\ s \in Running \ shut
    /\ s \in sigint \/ "crash" \in Faults
    /\ shut' = shut \cup {s}
    /\ crashed' = IF s \in sigint THEN crashed ELSE crashed \cup {s}
    /\ UNCHANGED <<child, sigint, written, pipe, reader, lines, scanErr, drainer, handled, lost, signal, main>>

Exit(s) ==
    /\ s \in Running \cap shut
    /\ Killed({s})
    /\ UNCHANGED <<sigint, shut, written, pipe, crashed, reader, lines, scanErr, drainer, handled, lost, signal, main>>

\* Ctrl-C goes to the whole process group, a SIGTERM to buckle alone.
Press ==
    /\ ~pressed /\ main.pc # "over"
    /\ pressed' = TRUE
    /\ Interrupted({}) \/ Interrupted(Source)
    /\ UNCHANGED <<child, shut, written, pipe, crashed, reader, lines, scanErr, drainer, handled, lost, cancelled, main>>

\* signal.NotifyContext.
Notify ==
    /\ pressed /\ ~cancelled
    /\ cancelled' = TRUE
    /\ UNCHANGED <<machine, pressed, main>>

-----------------------------------------------------------------------------
(* The reader goroutine of startSource *)

\* Mutant of Scan: the channel has no bound.
ScanUnbounded(s) ==
    /\ reader[s] = "scan" /\ pipe[s] > 0
    /\ pipe' = [pipe EXCEPT ![s] = @ - 1]
    /\ lines' = [lines EXCEPT ![s] = @ + 1]
    /\ UNCHANGED <<child, sigint, shut, written, crashed, reader, scanErr, drainer, handled, lost, signal, main>>

\* Blocks while the channel is full.
Scan(s) ==
    /\ reader[s] = "scan" /\ pipe[s] > 0 /\ lines[s] < Capacity
    /\ pipe' = [pipe EXCEPT ![s] = @ - 1]
    /\ lines' = [lines EXCEPT ![s] = @ + 1]
    /\ UNCHANGED <<child, sigint, shut, written, crashed, reader, scanErr, drainer, handled, lost, signal, main>>

\* A line that is longer than the scanner's buffer: the child is killed and the rest is lost.
ScanError(s) ==
    /\ "scan" \in Faults
    /\ reader[s] = "scan" /\ pipe[s] > 0
    /\ scanErr' = scanErr \cup {s}
    /\ lost' = [lost EXCEPT ![s] = @ + pipe[s]]
    /\ pipe' = [pipe EXCEPT ![s] = 0]
    /\ Killed({s})
    /\ reader' = [reader EXCEPT ![s] = "closed"]
    /\ UNCHANGED <<sigint, shut, written, crashed, lines, drainer, handled, signal, main>>

\* At the end of the output, which the child may survive.
CloseLines(s) ==
    /\ reader[s] = "scan" /\ pipe[s] = 0 /\ (child[s] = "dead" \/ s \in shut)
    /\ reader' = [reader EXCEPT ![s] = "closed"]
    /\ UNCHANGED <<child, sigint, shut, written, pipe, crashed, lines, scanErr, drainer, handled, lost, signal, main>>

\* cmd.Wait() returns when the process has exited.
Wait(s) ==
    /\ reader[s] = "closed" /\ child[s] = "dead"
    /\ reader' = [reader EXCEPT ![s] = "done"]
    /\ UNCHANGED <<child, sigint, shut, written, pipe, crashed, lines, scanErr, drainer, handled, lost, signal, main>>

\* The goroutine of abandon.
Drain(s) ==
    /\ s \in drainer /\ lines[s] > 0
    /\ lines' = [lines EXCEPT ![s] = @ - 1]
    /\ lost' = [lost EXCEPT ![s] = @ + 1]
    /\ UNCHANGED <<child, sigint, shut, written, pipe, crashed, reader, scanErr, drainer, handled, signal, main>>

-----------------------------------------------------------------------------
(* The main goroutine: Run *)

Go(m) == main' = m /\ UNCHANGED <<machine, signal>>

Start(s) ==
    /\ main.pc = IF s = "log" THEN "start log" ELSE "start eslogger"
    /\ child' = [child EXCEPT ![s] = "running"]
    /\ reader' = [reader EXCEPT ![s] = "scan"]
    /\ main' = [main EXCEPT !.pc = IF s = "log" THEN "loop" ELSE "start log"]
    /\ UNCHANGED <<sigint, shut, written, pipe, crashed, lines, scanErr, drainer, handled, lost, signal>>

\* Without eslogger there is nothing to abandon; without log, eslogger is.
StartFails ==
    /\ "start" \in Faults
    /\ \/ main.pc = "start eslogger" /\ Go([main EXCEPT !.pc = "over", !.reason = "failed to start"])
       \/ main.pc = "start log" /\ Go([main EXCEPT !.pc = "abandon", !.todo = <<"eslogger">>, !.after = "over",
                                                   !.reason = "failed to start"])

\* A line of the select in loop; HandleES or HandleDenial may fail, and so may Tick.
Receive(s) ==
    /\ main.pc = "loop" /\ s \in main.open /\ lines[s] > 0
    /\ lines' = [lines EXCEPT ![s] = @ - 1]
    /\ handled' = [handled EXCEPT ![s] = @ + 1]
    /\ UNCHANGED <<child, sigint, shut, written, pipe, crashed, reader, scanErr, drainer, lost, signal, main>>

StoreFails ==
    /\ "store" \in Faults
    /\ main.pc = "loop" /\ main.open # {}
    /\ Go([main EXCEPT !.pc = "abandon", !.todo = <<"eslogger", "log">>, !.after = "shutdown", !.reason = "error"])

\* Mutant of EndOfLines: a source that ends, ends the loop.
EndOfLinesEndsLoop(s) ==
    /\ main.pc = "loop" /\ s \in main.open /\ lines[s] = 0 /\ reader[s] # "scan"
    /\ Go([main EXCEPT !.open = IF main.stopping THEN {} ELSE @ \ {s},
                       !.pc = IF main.stopping THEN "loop" ELSE "grace", !.dead = s])

EndOfLines(s) ==
    /\ main.pc = "loop" /\ s \in main.open /\ lines[s] = 0 /\ reader[s] # "scan"
    /\ Go([main EXCEPT !.open = @ \ {s}, !.pc = IF main.stopping THEN "loop" ELSE "grace", !.dead = s])

\* stop().
Stop ==
    /\ main' = [main EXCEPT !.pc = "loop", !.stopping = TRUE, !.deadline = TRUE]
    /\ Interrupted(Source)
    /\ UNCHANGED <<child, shut, written, pipe, crashed, reader, lines, scanErr, drainer, handled, lost, signal>>

SeeDone == main.pc = "loop" /\ main.open # {} /\ ~main.stopping /\ cancelled /\ Stop

\* Mutant of Deadline: the children are not killed.
DeadlineIgnored ==
    /\ main.pc = "loop" /\ main.open # {} /\ main.deadline
    /\ Go([main EXCEPT !.deadline = FALSE])

Deadline ==
    /\ main.pc = "loop" /\ main.open # {} /\ main.deadline
    /\ Killed(Source)
    /\ main' = [main EXCEPT !.deadline = FALSE]
    /\ UNCHANGED <<sigint, shut, written, pipe, crashed, reader, lines, scanErr, drainer, handled, lost, signal>>

\* died(): a signal that has been sent is assumed to show up within signalRaceGrace.
GraceStop == main.pc = "grace" /\ cancelled /\ Stop

\* Mutants of GraceOver: no grace; the other source is left alone.
GraceOverAtOnce ==
    /\ main.pc = "grace"
    /\ Go([main EXCEPT !.pc = "abandon", !.todo = <<Other(main.dead)>>, !.after = "exit error"])

GraceOverForgets ==
    /\ main.pc = "grace" /\ ~pressed
    /\ Go([main EXCEPT !.pc = "exit error"])

GraceOver ==
    /\ main.pc = "grace" /\ ~pressed
    /\ Go([main EXCEPT !.pc = "abandon", !.todo = <<Other(main.dead)>>, !.after = "exit error"])

\* abandon() of the first source to do: SIGINT and the drainer; SIGKILL after the grace; wait for done.
Abandon ==
    /\ main.pc = "abandon" /\ main.todo # <<>> /\ Head(main.todo) \notin drainer
    /\ Interrupted({Head(main.todo)})
    /\ drainer' = drainer \cup {Head(main.todo)}
    /\ UNCHANGED <<child, shut, written, pipe, crashed, reader, lines, scanErr, handled, lost, signal, main>>

Kill ==
    /\ main.pc = "abandon" /\ main.todo # <<>> /\ Head(main.todo) \in drainer
    /\ Head(main.todo) \in Running
    /\ Killed({Head(main.todo)})
    /\ UNCHANGED <<sigint, shut, written, pipe, crashed, reader, lines, scanErr, drainer, handled, lost, signal, main>>

Abandoned ==
    /\ main.pc = "abandon"
    /\ \/ main.todo = <<>> /\ Go([main EXCEPT !.pc = main.after])
       \/ /\ main.todo # <<>> /\ Head(main.todo) \in drainer /\ reader[Head(main.todo)] = "done"
          /\ Go([main EXCEPT !.todo = Tail(@)])

\* exitError() waits for the dead source, without a timeout.
ExitError ==
    /\ main.pc = "exit error" /\ reader[main.dead] = "done"
    /\ Go([main EXCEPT !.pc = "shutdown", !.reason = "source died"])

\* Both lines variables are nil; there is no timeout, as the deadline is a case of the loop.
LoopEnds ==
    /\ main.pc = "loop" /\ main.open = {}
    /\ \A s \in Source : reader[s] = "done"
    /\ Go([main EXCEPT !.pc = "shutdown", !.reason = "stopped"])

\* Correlator.Shutdown and EndWatch; if they fail, Run's error says so.
Shutdown == main.pc = "shutdown" /\ Go([main EXCEPT !.pc = "over"])

-----------------------------------------------------------------------------
Main ==
    \/ \E s \in Source : Start(s) \/ Receive(s) \/ EndOfLines(s)
    \/ SeeDone \/ Deadline \/ GraceStop \/ GraceOver
    \/ Abandon \/ Kill \/ Abandoned \/ ExitError \/ LoopEnds \/ Shutdown

Reader(s) == Scan(s) \/ CloseLines(s) \/ Wait(s) \/ Drain(s)

Children == \E s \in Source : Write(s) \/ CloseOutput(s) \/ Exit(s)

Faulty == StartFails \/ StoreFails \/ (\E s \in Source : ScanError(s))

Over == main.pc = "over" /\ UNCHANGED vars

Next == Main \/ (\E s \in Source : Reader(s)) \/ Children \/ Faulty \/ Press \/ Notify \/ Over

Spec == Init /\ [][Next]_vars

\* The goroutines run, a signal that was sent is delivered; the children owe nothing and nothing has to fail.
FairSpec == Spec /\ WF_vars(Main) /\ (\A s \in Source : WF_vars(Reader(s))) /\ WF_vars(Notify)

-----------------------------------------------------------------------------
(* Properties *)

(* Types, and the lines a child wrote are in its pipe, in the channel, handled or lost. *)
TypeOK ==
    /\ \A s \in Source : /\ child[s] \in {"none", "running", "dead"}
                         /\ reader[s] \in {"scan", "closed", "done"}
                         /\ lines[s] \in 0..Capacity
                         /\ written[s] = pipe[s] + lines[s] + handled[s] + lost[s]
    /\ sigint \cup shut \cup crashed \cup scanErr \cup drainer \cup main.open \subseteq Source
    /\ main.reason \in {"none", "failed to start", "error", "source died", "stopped"}

(* When the watch ends as "stopped", everything the children wrote was given to the correlator, also what
   they wrote after Ctrl-C and if they had to be killed, and nothing is left in a pipe or channel.  The one
   exception is the output of a source with a scan error (a line over 16 MiB): from that line on it is
   lost, and the loop, which does not look at scanErr, ends as "stopped" all the same. *)
CleanStopDrains ==
    main.reason = "stopped" =>
        \A s \in Source : handled[s] + lost[s] = written[s] /\ (lost[s] # 0 => s \in scanErr)

(* Run never returns while a child of its own is running or has not been waited for. *)
NoChildLeft ==
    main.pc = "over" => \A s \in Source : child[s] # "running" /\ reader[s] = "done"

(* A Ctrl-C that reaches the children before buckle is not taken for the death of a source: the watch
   ends as "source died" only if that source went down by itself or its output could not be read. *)
CtrlCIsNoDeath ==
    main.reason = "source died" => main.dead \in crashed \cup scanErr

\* The two waits without a timeout, for a child that has closed its output and lives.
Stuck ==
    \/ main.pc = "exit error" /\ main.dead \in Running \cap shut
    \/ main.pc = "loop" /\ main.open = {} /\ Running \cap shut # {}

(* After Ctrl-C, or when a source goes down, Run returns, whatever lines are in pipes and channels and though
   children may ignore SIGINT for ever.  The one exception is a child that closes its output and never
   exits: exitError or the end of loop then waits for it for ever.  (Both causes last, and a child exits
   once, so a watch whose children do exit cannot come back to Stuck for ever.) *)
Terminates == (pressed \/ crashed # {}) ~> (main.pc = "over" \/ Stuck)

=============================================================================
