----------------------------- MODULE WatchProofs -----------------------------
(***************************************************************************)
(* Proofs about Watch: its safety properties, for every number of lines,   *)
(* capacity of the channels and set of faults.                             *)
(*                                                                         *)
(* The properties speak of the end of Run.  IInv says what leads there:    *)
(* where every line is, what a reader goroutine that is done has seen of   *)
(* its child, which sources the loop has let go of, and on each way out    *)
(* which sources main still has to wait for.                               *)
(***************************************************************************)
EXTENDS Watch, TLAPS

Todo == {<<>>, <<"eslogger">>, <<"log">>, <<"eslogger", "log">>}
Place == {"start eslogger", "start log", "loop", "grace", "abandon", "exit error", "shutdown", "over"}
Reason == {"none", "failed to start", "error", "source died", "stopped"}

MainRecord ==
    [pc : Place, open : SUBSET Source, stopping : BOOLEAN, deadline : BOOLEAN, dead : Source,
     todo : Todo, after : {"shutdown", "over", "exit error"}, reason : Reason]

Shape ==
    /\ child \in [Source -> {"none", "running", "dead"}]
    /\ sigint \in SUBSET Source
    /\ shut \in SUBSET Source
    /\ written \in [Source -> Nat] /\ pipe \in [Source -> Nat]
    /\ crashed \in SUBSET Source
    /\ reader \in [Source -> {"scan", "closed", "done"}]
    /\ lines \in [Source -> 0..Capacity]
    /\ scanErr \in SUBSET Source
    /\ drainer \in SUBSET Source
    /\ handled \in [Source -> Nat]
    /\ lost \in [Source -> Nat]
    /\ pressed \in BOOLEAN
    /\ cancelled \in BOOLEAN
    /\ main \in MainRecord

\* Every line is somewhere.
Account == \A s \in Source : written[s] = pipe[s] + lines[s] + handled[s] + lost[s]

\* A goroutine that has read everything has seen the output end, and one that is done its child exit.
ReaderInv ==
    \A s \in Source :
      /\ reader[s] = "scan" => child[s] # "none"
      /\ reader[s] = "closed" => (child[s] = "dead" \/ s \in shut) /\ child[s] # "none" /\ pipe[s] = 0
      /\ reader[s] = "done" => child[s] # "running" /\ pipe[s] = 0
      /\ child[s] = "none" => reader[s] = "done" /\ lines[s] = 0

\* Which children have been started.
StartInv ==
    /\ main.pc = "start eslogger" => child["eslogger"] = "none"
    /\ main.pc \in {"start eslogger", "start log"} =>
         child["log"] = "none" /\ main.open = Source /\ ~main.stopping /\ ~main.deadline
    /\ main.pc = "start log" => child["eslogger"] # "none"
    /\ main.pc \in {"loop", "grace"} => \A s \in Source : child[s] # "none"

\* Lines are thrown away only by abandon and after a scan error.
LostInv ==
    /\ main.pc \in {"start eslogger", "start log", "loop", "grace"} => drainer = {}
    /\ \A s \in Source : lost[s] # 0 => s \in scanErr \cup drainer

\* A source the loop has done with has no more lines.
OpenInv ==
    main.pc \in {"loop", "grace"} => \A s \in Source \ main.open : lines[s] = 0 /\ reader[s] # "scan"

\* Before anything is abandoned and without a Ctrl-C, a child goes down only by itself.
DeadInv ==
    /\ cancelled => pressed
    /\ main.pc \in {"start eslogger", "start log", "loop", "grace"} /\ ~pressed =>
         /\ ~main.stopping /\ ~main.deadline
         /\ \A s \in Source : s \notin sigint /\ (child[s] = "dead" \/ s \in shut => s \in crashed \cup scanErr)
    /\ main.pc = "grace" => main.dead \notin main.open

\* What main has waited for, on each way to the end of Run.
WaitInv ==
    /\ main.pc = "abandon" /\ main.after = "shutdown" =>
         \A s \in Source : reader[s] = "done" \/ main.todo = <<"eslogger", "log">> \/ main.todo = <<s>>
    /\ main.pc = "abandon" /\ main.after = "over" =>
         child["log"] = "none" /\ (reader["eslogger"] = "done" \/ main.todo = <<"eslogger">>)
    /\ main.pc = "abandon" /\ main.after = "exit error" =>
         \A s \in Source : s # main.dead => reader[s] = "done" \/ main.todo = <<s>>
    /\ main.pc = "exit error" => \A s \in Source : s # main.dead => reader[s] = "done"
    /\ main.pc \in {"shutdown", "over"} => \A s \in Source : reader[s] = "done"

\* Why the watch ended.
ReasonInv ==
    /\ main.reason = "stopped" => main.pc \in {"shutdown", "over"} /\ drainer = {} /\ \A s \in Source : lines[s] = 0
    /\ main.reason = "source died" => main.pc \in {"shutdown", "over"}
    /\ main.reason = "source died" \/ main.pc = "exit error" \/ (main.pc = "abandon" /\ main.after = "exit error")
         => main.dead \in crashed \cup scanErr

IInv == Shape /\ Account /\ ReaderInv /\ StartInv /\ LostInv /\ OpenInv /\ DeadInv /\ WaitInv /\ ReasonInv

-----------------------------------------------------------------------------
(* Facts about the operators *)

\* The other of the two sources, which died() abandons.
LEMMA OtherFact == \A s \in Source : Other(s) \in Source /\ Other(s) # s /\ \A o \in Source : o # s => o = Other(s)
  BY DEF Source, Other

\* What is at the head of the sources to abandon, and what is left then.
LEMMA TodoFact ==
    \A t \in Todo \ {<<>>} :
      /\ Head(t) \in Source
      /\ \/ t = <<Head(t)>> /\ Tail(t) = <<>>
         \/ t = <<"eslogger", "log">> /\ Head(t) = "eslogger" /\ Tail(t) = <<"log">>
<1> TAKE t \in Todo \ {<<>>}
<1>1. CASE t = <<"eslogger">>
  BY <1>1 DEF Source
<1>2. CASE t = <<"log">>
  BY <1>2 DEF Source
<1>3. CASE t = <<"eslogger", "log">>
  BY <1>3 DEF Source
<1> QED  BY <1>1, <1>2, <1>3 DEF Todo

\* Counts are numbers, and a channel does not exceed its capacity.
LEMMA CountFact ==
    ASSUME Shape, NEW s \in Source
    PROVE  /\ written[s] \in Nat /\ pipe[s] \in Nat /\ handled[s] \in Nat /\ lost[s] \in Nat
           /\ lines[s] \in Nat /\ lines[s] <= Capacity
<1>1. lines[s] \in 0..Capacity
  BY DEF Shape
<1> QED  BY <1>1, BoundAssumption DEF Shape

-----------------------------------------------------------------------------
(* Each action keeps the invariant: children and user, readers, main. *)

LEMMA WriteStep ==
  ASSUME IInv, NEW s \in Source, Write(s)
  PROVE  IInv'
<1>1. Shape'
  <2>1. written[s] + 1 \in Nat /\ pipe[s] + 1 \in Nat
    BY CountFact DEF IInv
  <2> QED  BY <2>1 DEF IInv, Shape, Write, signal
<1>2. Account'
  <2> SUFFICES ASSUME NEW o \in Source PROVE written'[o] = pipe'[o] + lines'[o] + handled'[o] + lost'[o]
    BY DEF Account
  <2>1. written[o] = pipe[o] + lines[o] + handled[o] + lost[o]
    BY DEF IInv, Account
  <2>2. /\ written'[o] = (IF o = s THEN written[o] + 1 ELSE written[o])
        /\ pipe'[o] = IF o = s THEN pipe[o] + 1 ELSE pipe[o]
    BY DEF IInv, Shape, Write
  <2> QED  BY <2>1, <2>2, CountFact DEF IInv, Write
<1>3. ReaderInv'
  BY DEF IInv, Shape, ReaderInv, Write, Running
<1>4. StartInv'
  BY DEF IInv, StartInv, Write, Running
<1>5. LostInv'
  BY DEF IInv, LostInv, Write, Running
<1>6. OpenInv'
  BY DEF IInv, OpenInv, Write
<1>7. DeadInv'
  BY DEF IInv, DeadInv, Write, signal
<1>8. WaitInv'
  BY DEF IInv, WaitInv, Write, signal
<1>9. ReasonInv'
  BY DEF IInv, ReasonInv, Write, signal
<1> QED  BY <1>1, <1>2, <1>3, <1>4, <1>5, <1>6, <1>7, <1>8, <1>9 DEF IInv

LEMMA CloseOutputStep ==
  ASSUME IInv, NEW s \in Source, CloseOutput(s)
  PROVE  IInv'
<1>1. Shape'
  BY DEF IInv, Shape, CloseOutput, signal
<1>2. Account'
  BY DEF IInv, Account, CloseOutput, signal
<1>3. ReaderInv'
  BY DEF IInv, ReaderInv, CloseOutput, signal
<1>4. StartInv'
  BY DEF IInv, StartInv, CloseOutput, Source
<1>5. LostInv'
  BY DEF IInv, LostInv, CloseOutput, Source
<1>6. OpenInv'
  BY DEF IInv, OpenInv, CloseOutput, Source
<1>7. DeadInv'
  BY DEF IInv, DeadInv, CloseOutput, signal, Source
<1>8. WaitInv'
  BY DEF IInv, WaitInv, CloseOutput, signal, Source
<1>9. ReasonInv'
  BY DEF IInv, ReasonInv, CloseOutput, signal, Source
<1> QED  BY <1>1, <1>2, <1>3, <1>4, <1>5, <1>6, <1>7, <1>8, <1>9 DEF IInv

LEMMA ExitStep ==
  ASSUME IInv, NEW s \in Source, Exit(s)
  PROVE  IInv'
<1>1. Shape'
  BY DEF IInv, Shape, Exit, Killed, signal
<1>2. Account'
  BY DEF IInv, Account, Exit, Killed, signal
<1>3. ReaderInv'
  BY DEF IInv, ReaderInv, Exit, Killed, signal
<1>4. StartInv'
  BY DEF IInv, StartInv, Exit, Killed, Running, Source
<1>5. LostInv'
  BY DEF IInv, LostInv, Exit, Killed, Running, Source
<1>6. OpenInv'
  BY DEF IInv, OpenInv, Exit, Killed, Running, Source
<1>7. DeadInv'
  BY DEF IInv, DeadInv, Exit, Killed, Running, signal, Source
<1>8. WaitInv'
  BY DEF IInv, WaitInv, Exit, Killed, Running, signal, Source
<1>9. ReasonInv'
  BY DEF IInv, ReasonInv, Exit, Killed, Running, signal, Source
<1> QED  BY <1>1, <1>2, <1>3, <1>4, <1>5, <1>6, <1>7, <1>8, <1>9 DEF IInv

LEMMA PressStep ==
  ASSUME IInv, Press
  PROVE  IInv'
<1>1. Shape'
  BY DEF IInv, Shape, Press, Interrupted
<1>2. Account'
  BY DEF IInv, Account, Press, Interrupted
<1>3. ReaderInv'
  BY DEF IInv, ReaderInv, Press, Interrupted
<1>4. StartInv'
  BY DEF IInv, StartInv, Press
<1>5. LostInv'
  BY DEF IInv, LostInv, Press
<1>6. OpenInv'
  BY DEF IInv, OpenInv, Press
<1>7. DeadInv'
  BY DEF IInv, DeadInv, Press
<1>8. WaitInv'
  BY DEF IInv, WaitInv, Press
<1>9. ReasonInv'
  BY DEF IInv, ReasonInv, Press
<1> QED  BY <1>1, <1>2, <1>3, <1>4, <1>5, <1>6, <1>7, <1>8, <1>9 DEF IInv

LEMMA NotifyStep ==
  ASSUME IInv, Notify
  PROVE  IInv'
<1>1. Shape'
  BY DEF IInv, Shape, Notify, machine
<1>2. Account'
  BY DEF IInv, Account, Notify, machine
<1>3. ReaderInv'
  BY DEF IInv, ReaderInv, Notify, machine
<1>4. StartInv'
  BY DEF IInv, StartInv, Notify, machine
<1>5. LostInv'
  BY DEF IInv, LostInv, Notify, machine
<1>6. OpenInv'
  BY DEF IInv, OpenInv, Notify, machine
<1>7. DeadInv'
  BY DEF IInv, DeadInv, Notify, machine
<1>8. WaitInv'
  BY DEF IInv, WaitInv, Notify, machine
<1>9. ReasonInv'
  BY DEF IInv, ReasonInv, Notify, machine
<1> QED  BY <1>1, <1>2, <1>3, <1>4, <1>5, <1>6, <1>7, <1>8, <1>9 DEF IInv

LEMMA ScanStep ==
  ASSUME IInv, NEW s \in Source, Scan(s)
  PROVE  IInv'
<1>1. Shape'
  <2>1. lines[s] + 1 \in 0..Capacity /\ pipe[s] - 1 \in Nat
    BY CountFact, BoundAssumption DEF IInv, Scan
  <2> QED  BY <2>1 DEF IInv, Shape, Scan, signal
<1>2. Account'
  <2> SUFFICES ASSUME NEW o \in Source PROVE written'[o] = pipe'[o] + lines'[o] + handled'[o] + lost'[o]
    BY DEF Account
  <2>1. written[o] = pipe[o] + lines[o] + handled[o] + lost[o]
    BY DEF IInv, Account
  <2>2. lines'[o] = (IF o = s THEN lines[o] + 1 ELSE lines[o]) /\ pipe'[o] = IF o = s THEN pipe[o] - 1 ELSE pipe[o]
    BY DEF IInv, Shape, Scan
  <2> QED  BY <2>1, <2>2, CountFact DEF IInv, Scan
<1>3. ReaderInv'
  BY DEF IInv, Shape, ReaderInv, Scan
<1>4. StartInv'
  BY DEF IInv, StartInv, Scan
<1>5. LostInv'
  BY DEF IInv, LostInv, Scan
<1>6. OpenInv'
  BY DEF IInv, OpenInv, Scan
<1>7. DeadInv'
  BY DEF IInv, DeadInv, Scan, signal
<1>8. WaitInv'
  BY DEF IInv, WaitInv, Scan, signal
<1>9. ReasonInv'
  <2>1. main.pc \notin {"shutdown", "over"}
    BY DEF IInv, WaitInv, Scan
  <2> QED  BY <2>1 DEF IInv, ReasonInv, Scan
<1> QED  BY <1>1, <1>2, <1>3, <1>4, <1>5, <1>6, <1>7, <1>8, <1>9 DEF IInv

LEMMA ScanErrorStep ==
  ASSUME IInv, NEW s \in Source, ScanError(s)
  PROVE  IInv'
<1>1. Shape'
  <2>1. lost[s] + pipe[s] \in Nat
    BY CountFact DEF IInv
  <2> QED  BY <2>1 DEF IInv, Shape, ScanError, Killed, signal
<1>2. Account'
  <2> SUFFICES ASSUME NEW o \in Source PROVE written'[o] = pipe'[o] + lines'[o] + handled'[o] + lost'[o]
    BY DEF Account
  <2>1. written[o] = pipe[o] + lines[o] + handled[o] + lost[o]
    BY DEF IInv, Account
  <2>2. lost'[o] = (IF o = s THEN lost[o] + pipe[o] ELSE lost[o]) /\ pipe'[o] = IF o = s THEN 0 ELSE pipe[o]
    BY DEF IInv, Shape, ScanError
  <2> QED  BY <2>1, <2>2, CountFact DEF IInv, ScanError
<1>3. ReaderInv'
  <2>1. child'[s] = "dead" /\ pipe'[s] = 0 /\ reader'[s] = "closed" /\ shut' = shut
    BY DEF IInv, Shape, ReaderInv, ScanError, Killed, Running
  <2>2. \A o \in Source \ {s} : child'[o] = child[o] /\ pipe'[o] = pipe[o] /\ reader'[o] = reader[o]
    BY DEF IInv, Shape, ScanError, Killed
  <2> QED  BY <2>1, <2>2 DEF IInv, ReaderInv, ScanError
<1>4. StartInv'
  BY DEF IInv, StartInv, ScanError, Killed, Running, Source
<1>5. LostInv'
  BY DEF IInv, Shape, LostInv, ScanError, Killed, Running, Source
<1>6. OpenInv'
  BY DEF IInv, Shape, OpenInv, ScanError, Killed, Running, Source
<1>7. DeadInv'
  BY DEF IInv, Shape, DeadInv, ScanError, Killed, signal
<1>8. WaitInv'
  BY DEF IInv, Shape, ReaderInv, WaitInv, ScanError, Killed, signal, Source
<1>9. ReasonInv'
  BY DEF IInv, Shape, ReasonInv, ScanError, Killed, signal, Source
<1> QED  BY <1>1, <1>2, <1>3, <1>4, <1>5, <1>6, <1>7, <1>8, <1>9 DEF IInv

LEMMA CloseLinesStep ==
  ASSUME IInv, NEW s \in Source, CloseLines(s)
  PROVE  IInv'
<1>1. Shape'
  BY DEF IInv, Shape, CloseLines, signal
<1>2. Account'
  BY DEF IInv, Account, CloseLines, signal
<1>3. ReaderInv'
  <2>1. reader'[s] = "closed" /\ \A o \in Source \ {s} : reader'[o] = reader[o]
    BY DEF IInv, Shape, CloseLines
  <2> QED  BY <2>1 DEF IInv, ReaderInv, CloseLines
<1>4. StartInv'
  BY DEF IInv, Shape, StartInv, CloseLines
<1>5. LostInv'
  BY DEF IInv, LostInv, CloseLines
<1>6. OpenInv'
  BY DEF IInv, OpenInv, CloseLines
<1>7. DeadInv'
  BY DEF IInv, DeadInv, CloseLines, signal
<1>8. WaitInv'
  BY DEF IInv, Shape, WaitInv, CloseLines, signal, Source
<1>9. ReasonInv'
  BY DEF IInv, Shape, ReasonInv, CloseLines, signal, Source
<1> QED  BY <1>1, <1>2, <1>3, <1>4, <1>5, <1>6, <1>7, <1>8, <1>9 DEF IInv

LEMMA WaitStep ==
  ASSUME IInv, NEW s \in Source, Wait(s)
  PROVE  IInv'
<1>1. Shape'
  BY DEF IInv, Shape, Wait, signal
<1>2. Account'
  BY DEF IInv, Account, Wait, signal
<1>3. ReaderInv'
  BY DEF IInv, ReaderInv, Wait, signal
<1>4. StartInv'
  BY DEF IInv, StartInv, Wait
<1>5. LostInv'
  BY DEF IInv, LostInv, Wait
<1>6. OpenInv'
  BY DEF IInv, OpenInv, Wait
<1>7. DeadInv'
  BY DEF IInv, DeadInv, Wait, signal
<1>8. WaitInv'
  BY DEF IInv, Shape, WaitInv, Wait, signal, Source
<1>9. ReasonInv'
  BY DEF IInv, Shape, ReasonInv, Wait, signal, Source
<1> QED  BY <1>1, <1>2, <1>3, <1>4, <1>5, <1>6, <1>7, <1>8, <1>9 DEF IInv

LEMMA DrainStep ==
  ASSUME IInv, NEW s \in Source, Drain(s)
  PROVE  IInv'
<1>1. Shape'
  <2>1. lines[s] - 1 \in 0..Capacity /\ lost[s] + 1 \in Nat
    BY CountFact, BoundAssumption DEF IInv, Drain
  <2> QED  BY <2>1 DEF IInv, Shape, Drain, signal
<1>2. Account'
  <2> SUFFICES ASSUME NEW o \in Source PROVE written'[o] = pipe'[o] + lines'[o] + handled'[o] + lost'[o]
    BY DEF Account
  <2>1. written[o] = pipe[o] + lines[o] + handled[o] + lost[o]
    BY DEF IInv, Account
  <2>2. lost'[o] = (IF o = s THEN lost[o] + 1 ELSE lost[o]) /\ lines'[o] = IF o = s THEN lines[o] - 1 ELSE lines[o]
    BY DEF IInv, Shape, Drain
  <2> QED  BY <2>1, <2>2, CountFact DEF IInv, Drain
<1>3. ReaderInv'
  <2>1. \A o \in Source : lines[o] = 0 => lines'[o] = 0
    <3>1. \A o \in Source \ {s} : lines'[o] = lines[o]
      BY DEF IInv, Drain
    <3>2. lines[s] # 0
      BY CountFact DEF IInv, Drain
    <3> QED  BY <3>1, <3>2
  <2> QED  BY <2>1 DEF IInv, ReaderInv, Drain
<1>4. StartInv'
  BY DEF IInv, StartInv, Drain
<1>5. LostInv'
  BY DEF IInv, Shape, LostInv, Drain
<1>6. OpenInv'
  <2>1. main.pc \notin {"loop", "grace"}
    BY DEF IInv, LostInv, Drain
  <2> QED  BY <2>1 DEF OpenInv, Drain
<1>7. DeadInv'
  BY DEF IInv, DeadInv, Drain, signal
<1>8. WaitInv'
  BY DEF IInv, WaitInv, Drain, signal
<1>9. ReasonInv'
  BY DEF IInv, ReasonInv, Drain, signal
<1> QED  BY <1>1, <1>2, <1>3, <1>4, <1>5, <1>6, <1>7, <1>8, <1>9 DEF IInv

LEMMA StartStep ==
  ASSUME IInv, NEW s \in Source, Start(s)
  PROVE  IInv'
<1>1. Shape'
  BY DEF IInv, Shape, MainRecord, Start, signal, MainRecord, Place
<1>2. Account'
  BY DEF IInv, MainRecord, Account, Start, signal
<1>3. ReaderInv'
  <2>1. /\ child'[s] = "running"
        /\ reader'[s] = "scan"
        /\ \A o \in Source \ {s} : child'[o] = child[o] /\ reader'[o] = reader[o]
    BY DEF IInv, Shape, Start
  <2> QED  BY <2>1 DEF IInv, ReaderInv, Start
<1>4. StartInv'
  <2>1. CASE s = "eslogger"
    <3>1. main.pc = "start eslogger" /\ main'.pc = "start log" /\ main'.open = main.open
          /\ main'.stopping = main.stopping /\ main'.deadline = main.deadline
      BY <2>1 DEF IInv, Shape, MainRecord, Start
    <3>2. child'["log"] = child["log"] /\ child'["eslogger"] = "running"
      BY <2>1 DEF IInv, Shape, MainRecord, Start, Source
    <3> QED  BY <3>1, <3>2 DEF IInv, StartInv
  <2>2. CASE s = "log"
    <3>1. main.pc = "start log" /\ main'.pc = "loop"
      BY <2>2 DEF IInv, Shape, MainRecord, Start
    <3>2. child'["log"] = "running" /\ child'["eslogger"] = child["eslogger"] /\ child["eslogger"] # "none"
      BY <2>2, <3>1 DEF IInv, Shape, MainRecord, Start, StartInv, Source
    <3>3. \A o \in Source : child'[o] # "none"
      BY <3>2 DEF IInv, Shape, MainRecord, Start, Source
    <3> QED  BY <3>1, <3>3 DEF StartInv
  <2> QED  BY <2>1, <2>2 DEF Source
<1>5. LostInv'
  BY DEF IInv, LostInv, Start, Source
<1>6. OpenInv'
  BY DEF IInv, Shape, MainRecord, StartInv, OpenInv, Start, Source
<1>7. DeadInv'
  BY DEF IInv, Shape, MainRecord, DeadInv, Start, signal, Source
<1>8. WaitInv'
  BY DEF IInv, Shape, MainRecord, WaitInv, Start, signal, Source
<1>9. ReasonInv'
  BY DEF IInv, Shape, MainRecord, ReasonInv, Start, signal, Source
<1> QED  BY <1>1, <1>2, <1>3, <1>4, <1>5, <1>6, <1>7, <1>8, <1>9 DEF IInv

LEMMA StartFailsStep ==
  ASSUME IInv, StartFails
  PROVE  IInv'
<1>1. /\ \/ /\ main.pc = "start eslogger" /\ main'.pc = "over"
         \/ /\ main.pc = "start log" /\ main'.pc = "abandon" /\ main'.todo = <<"eslogger">> /\ main'.after = "over"
      /\ main'.reason = "failed to start" /\ main' \in MainRecord
  <2>1. CASE main.pc = "start eslogger"
    BY <2>1 DEF IInv, Shape, MainRecord, StartFails, Go, MainRecord, Place, Reason
  <2>2. CASE main.pc = "start log"
    BY <2>2 DEF IInv, Shape, MainRecord, StartFails, Go, MainRecord, Place, Reason, Todo
  <2> QED  BY <2>1, <2>2 DEF StartFails
<1>2. UNCHANGED <<machine, signal>>
  BY DEF StartFails, Go
<1>3. Shape'
  BY <1>1, <1>2 DEF IInv, Shape, machine, signal
<1>4. Account' /\ ReaderInv'
  BY <1>2 DEF IInv, Account, ReaderInv, machine
<1>5. StartInv'
  BY <1>1 DEF StartInv
<1>6. LostInv'
  BY <1>1, <1>2 DEF IInv, LostInv, machine
<1>7. OpenInv'
  BY <1>1 DEF OpenInv
<1>8. DeadInv'
  BY <1>1, <1>2 DEF IInv, DeadInv, machine, signal
<1>9. WaitInv'
  <2>1. CASE main.pc = "start eslogger"
    <3>1. \A s \in Source : reader[s] = "done"
      BY <2>1 DEF IInv, StartInv, ReaderInv, Source
    <3> QED  BY <1>1, <1>2, <2>1, <3>1 DEF WaitInv, machine
  <2>2. CASE main.pc = "start log"
    BY <1>1, <1>2, <2>2 DEF IInv, StartInv, WaitInv, machine
  <2> QED  BY <1>1, <2>1, <2>2
<1>10. ReasonInv'
  BY <1>1 DEF ReasonInv
<1> QED  BY <1>3, <1>4, <1>5, <1>6, <1>7, <1>8, <1>9, <1>10 DEF IInv

LEMMA ReceiveStep ==
  ASSUME IInv, NEW s \in Source, Receive(s)
  PROVE  IInv'
<1>1. Shape'
  <2>1. lines[s] - 1 \in 0..Capacity /\ handled[s] + 1 \in Nat
    BY CountFact, BoundAssumption DEF IInv, Receive
  <2> QED  BY <2>1 DEF IInv, Shape, Receive, signal
<1>2. Account'
  <2> SUFFICES ASSUME NEW o \in Source PROVE written'[o] = pipe'[o] + lines'[o] + handled'[o] + lost'[o]
    BY DEF Account
  <2>1. written[o] = pipe[o] + lines[o] + handled[o] + lost[o]
    BY DEF IInv, Account
  <2>2. /\ handled'[o] = (IF o = s THEN handled[o] + 1 ELSE handled[o])
        /\ lines'[o] = IF o = s THEN lines[o] - 1 ELSE lines[o]
    BY DEF IInv, Shape, Receive
  <2> QED  BY <2>1, <2>2, CountFact DEF IInv, Receive
<1>3. ReaderInv'
  <2>1. \A o \in Source : lines[o] = 0 => lines'[o] = 0
    <3>1. \A o \in Source \ {s} : lines'[o] = lines[o]
      BY DEF IInv, Receive
    <3>2. lines[s] # 0
      BY CountFact DEF IInv, Receive
    <3> QED  BY <3>1, <3>2
  <2> QED  BY <2>1 DEF IInv, ReaderInv, Receive
<1>4. StartInv'
  BY DEF IInv, StartInv, Receive
<1>5. LostInv'
  BY DEF IInv, LostInv, Receive
<1>6. OpenInv'
  BY DEF IInv, OpenInv, Receive
<1>7. DeadInv'
  BY DEF IInv, DeadInv, Receive, signal
<1>8. WaitInv'
  BY DEF IInv, WaitInv, Receive, signal
<1>9. ReasonInv'
  BY DEF IInv, ReasonInv, Receive, signal
<1> QED  BY <1>1, <1>2, <1>3, <1>4, <1>5, <1>6, <1>7, <1>8, <1>9 DEF IInv

LEMMA StoreFailsStep ==
  ASSUME IInv, StoreFails
  PROVE  IInv'
<1>1. Shape'
  BY DEF IInv, Shape, MainRecord, StoreFails, Go, machine, signal, MainRecord, Place, Reason, Todo
<1>2. Account'
  BY DEF IInv, Account, StoreFails, Go, machine, signal
<1>3. ReaderInv'
  BY DEF IInv, ReaderInv, StoreFails, Go, machine, signal
<1>4. StartInv'
  BY DEF IInv, StartInv, StoreFails, Go, machine
<1>5. LostInv'
  BY DEF IInv, LostInv, StoreFails, Go, machine
<1>6. OpenInv'
  BY DEF IInv, OpenInv, StoreFails, Go, machine
<1>7. DeadInv'
  BY DEF IInv, DeadInv, StoreFails, Go, machine, signal
<1>8. WaitInv'
  BY DEF IInv, WaitInv, StoreFails, Go, signal
<1>9. ReasonInv'
  BY DEF IInv, Shape, MainRecord, ReasonInv, StoreFails, Go, signal
<1> QED  BY <1>1, <1>2, <1>3, <1>4, <1>5, <1>6, <1>7, <1>8, <1>9 DEF IInv

LEMMA EndOfLinesStep ==
  ASSUME IInv, NEW s \in Source, EndOfLines(s)
  PROVE  IInv'
<1>1. Shape'
  BY DEF IInv, Shape, MainRecord, EndOfLines, Go, machine, signal, MainRecord, Place
<1>2. Account'
  BY DEF IInv, Account, EndOfLines, Go, machine, signal
<1>3. ReaderInv'
  BY DEF IInv, ReaderInv, EndOfLines, Go, machine, signal
<1>4. StartInv'
  BY DEF IInv, StartInv, EndOfLines, Go, machine
<1>5. LostInv'
  BY DEF IInv, LostInv, EndOfLines, Go, machine
<1>6. OpenInv'
  BY DEF IInv, OpenInv, EndOfLines, Go, machine
<1>7. DeadInv'
  BY DEF IInv, DeadInv, EndOfLines, Go, machine, signal
<1>8. WaitInv'
  <2>1. main'.pc \in {"loop", "grace"}
    BY DEF IInv, EndOfLines, Go
  <2> QED  BY <2>1 DEF WaitInv
<1>9. ReasonInv'
  <2>1. main'.pc \in {"loop", "grace"} /\ main'.reason = main.reason
    BY DEF IInv, EndOfLines, Go
  <2>2. main.reason \notin {"stopped", "source died"}
    BY DEF IInv, ReasonInv, EndOfLines
  <2> QED  BY <2>1, <2>2 DEF ReasonInv
<1> QED  BY <1>1, <1>2, <1>3, <1>4, <1>5, <1>6, <1>7, <1>8, <1>9 DEF IInv

LEMMA SeeDoneStep ==
  ASSUME IInv, SeeDone
  PROVE  IInv'
<1>1. Shape'
  BY DEF IInv, Shape, MainRecord, SeeDone, Stop, Interrupted, signal, MainRecord
<1>2. Account'
  BY DEF IInv, Account, SeeDone, Stop, Interrupted, signal
<1>3. ReaderInv'
  BY DEF IInv, ReaderInv, SeeDone, Stop, Interrupted, signal
<1>4. StartInv'
  BY DEF IInv, StartInv, SeeDone, Stop, Interrupted
<1>5. LostInv'
  BY DEF IInv, LostInv, SeeDone, Stop, Interrupted
<1>6. OpenInv'
  BY DEF IInv, OpenInv, SeeDone, Stop, Interrupted
<1>7. DeadInv'
  BY DEF IInv, DeadInv, SeeDone, Stop, Interrupted, signal
<1>8. WaitInv'
  BY DEF IInv, WaitInv, SeeDone, Stop, Interrupted, signal
<1>9. ReasonInv'
  BY DEF IInv, Shape, MainRecord, ReasonInv, SeeDone, Stop, Interrupted, signal
<1> QED  BY <1>1, <1>2, <1>3, <1>4, <1>5, <1>6, <1>7, <1>8, <1>9 DEF IInv

LEMMA DeadlineStep ==
  ASSUME IInv, Deadline
  PROVE  IInv'
<1>1. Shape'
  BY DEF IInv, Shape, MainRecord, Deadline, Killed, signal, MainRecord
<1>2. Account'
  BY DEF IInv, MainRecord, Account, Deadline, Killed, signal
<1>3. ReaderInv'
  <2>1. \A s \in Source : child'[s] = child[s] \/ (child[s] = "running" /\ child'[s] = "dead")
    BY DEF IInv, Deadline, Killed, Running
  <2> QED  BY <2>1 DEF IInv, ReaderInv, Deadline
<1>4. StartInv'
  BY DEF IInv, Shape, MainRecord, StartInv, Deadline, Killed, Running
<1>5. LostInv'
  BY DEF IInv, Shape, MainRecord, LostInv, Deadline, Killed
<1>6. OpenInv'
  BY DEF IInv, Shape, MainRecord, OpenInv, Deadline, Killed
<1>7. DeadInv'
  BY DEF IInv, Shape, MainRecord, DeadInv, Deadline, signal
<1>8. WaitInv'
  BY DEF IInv, Shape, MainRecord, WaitInv, Deadline, signal
<1>9. ReasonInv'
  BY DEF IInv, Shape, MainRecord, ReasonInv, Deadline, signal
<1> QED  BY <1>1, <1>2, <1>3, <1>4, <1>5, <1>6, <1>7, <1>8, <1>9 DEF IInv

LEMMA GraceStopStep ==
  ASSUME IInv, GraceStop
  PROVE  IInv'
<1>1. Shape'
  BY DEF IInv, Shape, MainRecord, GraceStop, Stop, Interrupted, signal, MainRecord, Place
<1>2. Account'
  BY DEF IInv, Account, GraceStop, Stop, Interrupted, signal
<1>3. ReaderInv'
  BY DEF IInv, ReaderInv, GraceStop, Stop, Interrupted, signal
<1>4. StartInv'
  BY DEF IInv, StartInv, GraceStop, Stop, Interrupted
<1>5. LostInv'
  BY DEF IInv, LostInv, GraceStop, Stop, Interrupted
<1>6. OpenInv'
  BY DEF IInv, OpenInv, GraceStop, Stop, Interrupted
<1>7. DeadInv'
  BY DEF IInv, DeadInv, GraceStop, Stop, Interrupted, signal
<1>8. WaitInv'
  BY DEF IInv, WaitInv, GraceStop, Stop, Interrupted, signal
<1>9. ReasonInv'
  BY DEF IInv, Shape, MainRecord, ReasonInv, GraceStop, Stop, Interrupted, signal
<1> QED  BY <1>1, <1>2, <1>3, <1>4, <1>5, <1>6, <1>7, <1>8, <1>9 DEF IInv

LEMMA GraceOverStep ==
  ASSUME IInv, GraceOver
  PROVE  IInv'
<1>1. Shape'
  BY TodoFact, OtherFact DEF IInv, Shape, MainRecord, GraceOver, Go, machine, signal, Source, MainRecord, Place, Todo
<1>2. Account'
  BY DEF IInv, Account, GraceOver, Go, machine, signal
<1>3. ReaderInv'
  BY DEF IInv, ReaderInv, GraceOver, Go, machine, signal
<1>4. StartInv'
  BY DEF IInv, StartInv, GraceOver, Go, machine
<1>5. LostInv'
  BY DEF IInv, LostInv, GraceOver, Go, machine
<1>6. OpenInv'
  BY DEF IInv, OpenInv, GraceOver, Go, machine
<1>7. DeadInv'
  BY DEF IInv, DeadInv, GraceOver, Go, machine, signal
<1>8. WaitInv'
  <2>1. /\ main'.pc = "abandon" /\ main'.todo = <<Other(main.dead)>> /\ main'.after = "exit error"
        /\ main'.dead = main.dead /\ main'.reason = main.reason
    BY DEF IInv, GraceOver, Go
  <2>2. \A s \in Source : s # main.dead => main'.todo = <<s>>
    BY <2>1, OtherFact DEF IInv, Shape, MainRecord
  <2> QED  BY <2>1, <2>2 DEF WaitInv
<1>9. ReasonInv'
  <2>1. /\ main'.pc = "abandon" /\ main'.todo = <<Other(main.dead)>> /\ main'.after = "exit error"
        /\ main'.dead = main.dead /\ main'.reason = main.reason
    BY DEF IInv, GraceOver, Go
  <2>2. main.reason \notin {"stopped", "source died"}
    BY DEF IInv, ReasonInv, GraceOver
  <2>3. main.dead \in crashed \cup scanErr
    <3>1. /\ main.dead \in Source
          /\ child[main.dead] \in {"none", "running", "dead"}
          /\ reader[main.dead] \in {"scan", "closed", "done"}
      BY DEF IInv, Shape, MainRecord
    <3>2. reader[main.dead] # "scan" /\ child[main.dead] # "none"
      BY <3>1 DEF IInv, OpenInv, StartInv, DeadInv, GraceOver
    <3>3. child[main.dead] = "dead" \/ main.dead \in shut
      BY <3>1, <3>2 DEF IInv, ReaderInv
    <3> QED  BY <3>1, <3>3 DEF IInv, DeadInv, GraceOver
  <2> QED  BY <2>1, <2>2, <2>3 DEF ReasonInv, IInv, GraceOver, Go, machine
<1> QED  BY <1>1, <1>2, <1>3, <1>4, <1>5, <1>6, <1>7, <1>8, <1>9 DEF IInv

LEMMA AbandonStep ==
  ASSUME IInv, Abandon
  PROVE  IInv'
<1>1. Shape'
  <2>1. Head(main.todo) \in Source
    BY TodoFact DEF IInv, Shape, MainRecord, Abandon
  <2>2. sigint' \in SUBSET Source /\ drainer' \in SUBSET Source
    BY <2>1 DEF IInv, Shape, Abandon, Interrupted, Running
  <2> QED  BY <2>2 DEF IInv, Shape, Abandon, signal
<1>2. Account'
  BY TodoFact DEF IInv, MainRecord, Account, Abandon, Interrupted, Running, signal
<1>3. ReaderInv'
  BY TodoFact DEF IInv, MainRecord, ReaderInv, Abandon, Interrupted, Running, signal
<1>4. StartInv'
  BY DEF IInv, StartInv, Abandon
<1>5. LostInv'
  <2>1. drainer \subseteq drainer' /\ main' = main /\ lost' = lost /\ scanErr' = scanErr
    BY DEF Abandon
  <2> QED  BY <2>1 DEF IInv, LostInv, Abandon
<1>6. OpenInv'
  BY DEF IInv, OpenInv, Abandon
<1>7. DeadInv'
  BY DEF IInv, DeadInv, Abandon, signal
<1>8. WaitInv'
  BY DEF IInv, WaitInv, Abandon, signal
<1>9. ReasonInv'
  BY DEF IInv, ReasonInv, Abandon, signal
<1> QED  BY <1>1, <1>2, <1>3, <1>4, <1>5, <1>6, <1>7, <1>8, <1>9 DEF IInv

LEMMA KillStep ==
  ASSUME IInv, Kill
  PROVE  IInv'
<1>1. Shape'
  BY DEF IInv, Shape, Kill, Killed, signal
<1>2. Account'
  BY DEF IInv, Account, Kill, Killed, signal
<1>3. ReaderInv'
  BY BoundAssumption DEF IInv, ReaderInv, Kill, Killed, signal
<1>4. StartInv'
  BY BoundAssumption DEF IInv, StartInv, Kill, Killed
<1>5. LostInv'
  BY BoundAssumption DEF IInv, LostInv, Kill, Killed
<1>6. OpenInv'
  BY DEF IInv, OpenInv, Kill
<1>7. DeadInv'
  BY DEF IInv, DeadInv, Kill, signal
<1>8. WaitInv'
  BY DEF IInv, WaitInv, Kill, Killed, Running, signal, Source
<1>9. ReasonInv'
  BY DEF IInv, ReasonInv, Kill, Killed, Running, signal, Source
<1> QED  BY <1>1, <1>2, <1>3, <1>4, <1>5, <1>6, <1>7, <1>8, <1>9 DEF IInv

LEMMA AbandonedStep ==
  ASSUME IInv, Abandoned
  PROVE  IInv'
<1>1. UNCHANGED <<machine, signal>> /\ main.pc = "abandon" /\ main \in MainRecord
  BY DEF IInv, Shape, Abandoned, Go
<1>2. /\ main'.dead = main.dead /\ main'.reason = main.reason /\ main'.after = main.after
      /\ \/ main.todo = <<>> /\ main'.pc = main.after
         \/ /\ main.todo # <<>> /\ reader[Head(main.todo)] = "done"
            /\ main'.pc = "abandon" /\ main'.todo = Tail(main.todo)
  BY <1>1 DEF Abandoned, Go, MainRecord
<1>3. Shape'
  <2>1. main.after \in Place /\ (main.todo # <<>> => Tail(main.todo) \in Todo)
    BY <1>1, TodoFact DEF MainRecord, Place, Todo
  <2>2. main' \in MainRecord
    BY <1>1, <2>1 DEF Abandoned, Go, MainRecord
  <2> QED  BY <1>1, <2>2 DEF IInv, Shape, MainRecord, machine, signal
<1>4. Account' /\ ReaderInv'
  BY <1>1 DEF IInv, Account, ReaderInv, machine
<1>5. main'.pc \in {"abandon", "shutdown", "over", "exit error"}
  BY <1>1, <1>2 DEF MainRecord
<1>6. StartInv' /\ OpenInv'
  BY <1>5 DEF StartInv, OpenInv
<1>7. LostInv'
  BY <1>1, <1>5 DEF IInv, LostInv, machine
<1>8. DeadInv'
  BY <1>1, <1>5 DEF IInv, DeadInv, machine, signal
<1>9. WaitInv'
  <2>1. CASE main.todo = <<>>
    <3>1. CASE main.after = "over"
      <4>1. reader["log"] = "done" /\ reader["eslogger"] = "done"
        BY <1>1, <2>1, <3>1 DEF IInv, WaitInv, ReaderInv, Source
      <4> QED  BY <1>1, <1>2, <2>1, <3>1, <4>1 DEF WaitInv, machine, Source
    <3>2. CASE main.after = "shutdown"
      <4>1. \A s \in Source : reader[s] = "done"
        BY <1>1, <2>1, <3>2 DEF IInv, WaitInv
      <4> QED  BY <1>1, <1>2, <2>1, <3>2, <4>1 DEF WaitInv, machine
    <3>3. CASE main.after = "exit error"
      <4>1. ASSUME NEW s \in Source, s # main.dead PROVE reader[s] = "done"
        <5>1. main.todo # <<s>>
          BY <2>1
        <5> QED  BY <1>1, <3>3, <4>1, <5>1 DEF IInv, WaitInv
      <4> QED  BY <1>1, <1>2, <2>1, <3>3, <4>1 DEF WaitInv, machine
    <3> QED  BY <1>1, <3>1, <3>2, <3>3 DEF MainRecord
  <2>2. CASE main.todo # <<>>
    <3>1. /\ Head(main.todo) \in Source /\ reader[Head(main.todo)] = "done"
          /\ main'.pc = "abandon" /\ main'.todo = Tail(main.todo)
          /\ \/ main.todo = <<Head(main.todo)>> /\ Tail(main.todo) = <<>>
             \/ main.todo = <<"eslogger", "log">> /\ Head(main.todo) = "eslogger" /\ Tail(main.todo) = <<"log">>
      BY <1>1, <1>2, <2>2, TodoFact DEF MainRecord
    <3>2. \A s \in Source : main.todo = <<s>> => reader[s] = "done" /\ main'.todo = <<>>
      BY <3>1
    <3>3. main.todo = <<"eslogger", "log">> => reader["eslogger"] = "done" /\ main'.todo = <<"log">>
      BY <3>1
    <3>4. CASE main.after = "over"
      BY <1>1, <1>2, <3>1, <3>2, <3>4 DEF IInv, WaitInv, machine
    <3>5. CASE main.after = "shutdown"
      BY <1>1, <1>2, <3>1, <3>2, <3>3, <3>5 DEF IInv, WaitInv, machine, Source
    <3>6. CASE main.after = "exit error"
      BY <1>1, <1>2, <3>1, <3>2, <3>3, <3>6 DEF IInv, WaitInv, machine
    <3> QED  BY <1>1, <3>4, <3>5, <3>6 DEF MainRecord
  <2> QED  BY <2>1, <2>2
<1>10. ReasonInv'
  BY <1>1, <1>2 DEF IInv, ReasonInv, machine
<1> QED  BY <1>3, <1>4, <1>6, <1>7, <1>8, <1>9, <1>10 DEF IInv

LEMMA ExitErrorStep ==
  ASSUME IInv, ExitError
  PROVE  IInv'
<1>1. Shape'
  BY DEF IInv, Shape, MainRecord, ExitError, Go, machine, signal, MainRecord, Place, Reason
<1>2. Account'
  BY DEF IInv, Account, ExitError, Go, machine, signal
<1>3. ReaderInv'
  BY DEF IInv, ReaderInv, ExitError, Go, machine, signal
<1>4. StartInv'
  BY DEF IInv, Shape, MainRecord, StartInv, ExitError, Go, machine
<1>5. LostInv'
  BY DEF IInv, Shape, MainRecord, LostInv, ExitError, Go, machine
<1>6. OpenInv'
  BY DEF IInv, Shape, MainRecord, OpenInv, ExitError, Go, machine
<1>7. DeadInv'
  BY DEF IInv, Shape, MainRecord, DeadInv, ExitError, Go, machine, signal
<1>8. WaitInv'
  BY DEF IInv, Shape, MainRecord, WaitInv, ExitError, Go, machine, signal
<1>9. ReasonInv'
  BY DEF IInv, Shape, MainRecord, ReasonInv, ExitError, Go, machine, signal
<1> QED  BY <1>1, <1>2, <1>3, <1>4, <1>5, <1>6, <1>7, <1>8, <1>9 DEF IInv

LEMMA LoopEndsStep ==
  ASSUME IInv, LoopEnds
  PROVE  IInv'
<1>1. Shape'
  BY DEF IInv, Shape, MainRecord, LoopEnds, Go, machine, signal, MainRecord, Place, Reason
<1>2. Account'
  BY DEF IInv, Account, LoopEnds, Go, machine, signal
<1>3. ReaderInv'
  BY DEF IInv, ReaderInv, LoopEnds, Go, machine, signal
<1>4. StartInv'
  BY DEF IInv, StartInv, LoopEnds, Go, machine
<1>5. LostInv'
  BY DEF IInv, LostInv, LoopEnds, Go, machine
<1>6. OpenInv'
  BY DEF IInv, OpenInv, LoopEnds, Go, machine
<1>7. DeadInv'
  BY DEF IInv, DeadInv, LoopEnds, Go, machine, signal
<1>8. WaitInv'
  BY DEF IInv, WaitInv, LoopEnds, Go, machine, signal
<1>9. ReasonInv'
  BY DEF IInv, Shape, MainRecord, DeadInv, OpenInv, LostInv, ReasonInv, LoopEnds, Go, machine, signal
<1> QED  BY <1>1, <1>2, <1>3, <1>4, <1>5, <1>6, <1>7, <1>8, <1>9 DEF IInv

LEMMA ShutdownStep ==
  ASSUME IInv, Shutdown
  PROVE  IInv'
<1>1. Shape'
  BY DEF IInv, Shape, MainRecord, Shutdown, Go, machine, signal, MainRecord, Place
<1>2. Account'
  BY DEF IInv, Account, Shutdown, Go, machine, signal
<1>3. ReaderInv'
  BY DEF IInv, ReaderInv, Shutdown, Go, machine, signal
<1>4. StartInv'
  BY DEF IInv, StartInv, Shutdown, Go, machine
<1>5. LostInv'
  BY DEF IInv, LostInv, Shutdown, Go, machine
<1>6. OpenInv'
  BY DEF IInv, OpenInv, Shutdown, Go, machine
<1>7. DeadInv'
  BY DEF IInv, DeadInv, Shutdown, Go, machine, signal
<1>8. WaitInv'
  BY DEF IInv, WaitInv, Shutdown, Go, machine, signal
<1>9. ReasonInv'
  BY DEF IInv, Shape, MainRecord, ReasonInv, Shutdown, Go, machine, signal
<1> QED  BY <1>1, <1>2, <1>3, <1>4, <1>5, <1>6, <1>7, <1>8, <1>9 DEF IInv

-----------------------------------------------------------------------------
(* The theorems *)

\* The invariant holds at first, and every step keeps it.
LEMMA InitInv == Init => IInv
<1> SUFFICES ASSUME Init PROVE IInv
  OBVIOUS
<1>1. Shape
  <2>1. main \in MainRecord
    BY DEF Init, MainRecord, Place, Todo, Reason, Source
  <2>2. 0 \in 0..Capacity
    BY BoundAssumption
  <2> QED  BY <2>1, <2>2 DEF Init, Shape
<1>2. Account /\ ReaderInv
  <2>1. ASSUME NEW s \in Source
        PROVE  /\ child[s] = "none"
               /\ reader[s] = "done"
               /\ written[s] = 0
               /\ pipe[s] = 0
               /\ lines[s] = 0
               /\ handled[s] = 0
               /\ lost[s] = 0
    BY DEF Init
  <2> QED  BY <2>1 DEF Account, ReaderInv
<1>3. StartInv /\ LostInv /\ OpenInv
  BY DEF Init, StartInv, LostInv, OpenInv, Source
<1>4. DeadInv /\ WaitInv
  BY DEF Init, DeadInv, WaitInv
<1>5. ReasonInv
  BY DEF Init, ReasonInv
<1> QED  BY <1>1, <1>2, <1>3, <1>4, <1>5 DEF IInv

LEMMA NextInv == IInv /\ [Next]_vars => IInv'
<1> SUFFICES ASSUME IInv, [Next]_vars PROVE IInv'
  OBVIOUS
<1>1. ASSUME NEW s \in Source, Write(s) PROVE IInv'
  BY <1>1, WriteStep
<1>2. ASSUME NEW s \in Source, CloseOutput(s) PROVE IInv'
  BY <1>2, CloseOutputStep
<1>3. ASSUME NEW s \in Source, Exit(s) PROVE IInv'
  BY <1>3, ExitStep
<1>4. ASSUME NEW s \in Source, Scan(s) PROVE IInv'
  BY <1>4, ScanStep
<1>5. ASSUME NEW s \in Source, ScanError(s) PROVE IInv'
  BY <1>5, ScanErrorStep
<1>6. ASSUME NEW s \in Source, CloseLines(s) PROVE IInv'
  BY <1>6, CloseLinesStep
<1>7. ASSUME NEW s \in Source, Wait(s) PROVE IInv'
  BY <1>7, WaitStep
<1>8. ASSUME NEW s \in Source, Drain(s) PROVE IInv'
  BY <1>8, DrainStep
<1>9. ASSUME NEW s \in Source, Start(s) PROVE IInv'
  BY <1>9, StartStep
<1>10. ASSUME NEW s \in Source, Receive(s) PROVE IInv'
  BY <1>10, ReceiveStep
<1>11. ASSUME NEW s \in Source, EndOfLines(s) PROVE IInv'
  BY <1>11, EndOfLinesStep
<1>12. CASE Press
  BY <1>12, PressStep
<1>13. CASE Notify
  BY <1>13, NotifyStep
<1>14. CASE StartFails
  BY <1>14, StartFailsStep
<1>15. CASE StoreFails
  BY <1>15, StoreFailsStep
<1>16. CASE SeeDone
  BY <1>16, SeeDoneStep
<1>17. CASE Deadline
  BY <1>17, DeadlineStep
<1>18. CASE GraceStop
  BY <1>18, GraceStopStep
<1>19. CASE GraceOver
  BY <1>19, GraceOverStep
<1>20. CASE Abandon
  BY <1>20, AbandonStep
<1>21. CASE Kill
  BY <1>21, KillStep
<1>22. CASE Abandoned
  BY <1>22, AbandonedStep
<1>23. CASE ExitError
  BY <1>23, ExitErrorStep
<1>24. CASE LoopEnds
  BY <1>24, LoopEndsStep
<1>25. CASE Shutdown
  BY <1>25, ShutdownStep
<1>26. CASE UNCHANGED vars
  <2>1. Shape' /\ Account' /\ ReaderInv' /\ StartInv'
    BY <1>26 DEF IInv, Shape, Account, ReaderInv, StartInv, vars
  <2>2. LostInv' /\ OpenInv' /\ DeadInv' /\ WaitInv' /\ ReasonInv'
    BY <1>26 DEF IInv, LostInv, OpenInv, DeadInv, WaitInv, ReasonInv, vars
  <2> QED  BY <2>1, <2>2 DEF IInv
<1> QED
  BY <1>1, <1>2, <1>3, <1>4, <1>5, <1>6, <1>7, <1>8, <1>9, <1>10, <1>11, <1>12, <1>13, <1>14,
     <1>15, <1>16, <1>17, <1>18, <1>19, <1>20, <1>21, <1>22, <1>23, <1>24, <1>25, <1>26
  DEF Next, Main, Reader, Children, Faulty, Over

\* Spec keeps the invariant.
LEMMA Invariant == Spec => []IInv
  BY InitInv, NextInv, PTL DEF Spec

\* Run's goroutines and children stay within their types and no line is ever in two places or in none.
THEOREM TypeCorrect == Spec => []TypeOK
<1>1. IInv => TypeOK
  BY DEF IInv, Shape, MainRecord, Reason, Account, TypeOK
<1> QED  BY <1>1, Invariant, PTL

\* A watch that ends as "stopped" has handed every line its children wrote to the correlator (loop
\* and drain after stop()), whatever the capacity of the channels, but for the output of a source from
\* a scan error on; no other fault loses a line.
THEOREM CleanStopDrainsHolds == Spec => []CleanStopDrains
<1>1. IInv => CleanStopDrains
  <2> SUFFICES ASSUME IInv, main.reason = "stopped", NEW s \in Source
               PROVE  handled[s] + lost[s] = written[s] /\ (lost[s] # 0 => s \in scanErr)
    BY DEF CleanStopDrains
  <2>1. lines[s] = 0 /\ reader[s] = "done"
    BY DEF IInv, ReasonInv, WaitInv
  <2>2. pipe[s] = 0
    BY <2>1 DEF IInv, ReaderInv
  <2>3. lost[s] # 0 => s \in scanErr
    BY DEF IInv, LostInv, ReasonInv
  <2>4. written[s] = pipe[s] + lines[s] + handled[s] + lost[s]
    BY DEF IInv, Account
  <2>5. handled[s] + lost[s] = written[s]
    BY <2>1, <2>2, <2>4, CountFact DEF IInv
  <2> QED  BY <2>3, <2>5
<1> QED  BY <1>1, Invariant, PTL

\* Run returns only after it has waited for every child it started (abandon, exitError, the end of loop).
THEOREM NoChildLeftHolds == Spec => []NoChildLeft
<1>1. IInv => NoChildLeft
  BY DEF IInv, WaitInv, ReaderInv, NoChildLeft
<1> QED  BY <1>1, Invariant, PTL

\* A Ctrl-C that kills the children first is never reported as the death of a source (died).
THEOREM CtrlCIsNoDeathHolds == Spec => []CtrlCIsNoDeath
<1>1. IInv => CtrlCIsNoDeath
  BY DEF IInv, ReasonInv, CtrlCIsNoDeath
<1> QED  BY <1>1, Invariant, PTL

=============================================================================
