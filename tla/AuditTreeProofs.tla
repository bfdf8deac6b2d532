--------------------------- MODULE AuditTreeProofs ---------------------------
(***************************************************************************)
(* Proofs about the correlator under a machine and two streams (module     *)
(* Audit): a sandbox-exec run ends exactly with its tree of processes.     *)
(*                                                                         *)
(* RunEndsRight compares the correlator's runs with a machine that is      *)
(* ahead of it by the events that are not handled yet.  A View is a        *)
(* machine as far as sandbox-exec trees go.  "Agrees" says that the        *)
(* correlator is right about a view, "Seen" what an event makes of one,    *)
(* and TreeInv that there is a history of views, one after each event in   *)
(* the queue, from what the correlator knows to the machine as it is.      *)
(*                                                                         *)
(* A step of the machine adds a view to the history (Told), HandleES takes *)
(* the first one off (HandleESAgrees), and HandleDenial, Tick and Shutdown *)
(* leave sandbox-exec runs aside (Aside), though they add images without   *)
(* an audit token, start and adopt other runs and forget old images.       *)
(***************************************************************************)
EXTENDS AuditProofs

-----------------------------------------------------------------------------
(* What the helpers change *)

\* An image is the same process image; only its end, its run and its row may differ.
SameImage(x, y) ==
    y.pid = x.pid /\ y.ver = x.ver /\ y.noToken = x.noToken /\ y.execSeen = x.execSeen /\ y.parent = x.parent

\* From c to b only the image i and the run r differ.
Changes(c, b, i, r) ==
    /\ DOMAIN b.img = DOMAIN c.img /\ DOMAIN b.runs = DOMAIN c.runs
    /\ b.tokens = c.tokens /\ b.adopted = c.adopted
    /\ \A j \in DOMAIN c.img : j # i => b.img[j] = c.img[j]
    /\ \A q \in DOMAIN c.runs : q # r => b.runs[q] = c.runs[q]
    /\ SameImage(c.img[i], b.img[i])
    /\ b.runs[r].kind = c.runs[r].kind /\ b.runs[r].root = c.runs[r].root

SameEnd(x, y) == y.ended = x.ended /\ y.status = x.status /\ y.endedAt = x.endedAt

Updated(c, b, i, r, x, y) ==
    b = [c EXCEPT !.img = [c.img EXCEPT ![i] = x], !.runs = [c.runs EXCEPT ![r] = y]]

LEMMA UpdateIs ==
    ASSUME NEW c, Sound(c), NEW i \in DOMAIN c.img, NEW r \in DOMAIN c.runs,
           NEW x \in ImageType, NEW y \in RunType, NEW b, Updated(c, b, i, r, x, y),
           SameImage(c.img[i], x), y.kind = c.runs[r].kind, y.root = c.runs[r].root
    PROVE  Changes(c, b, i, r) /\ b.img[i] = x /\ b.runs[r] = y
<1>1. c \in CorrType /\ c.img \in Seq(ImageType) /\ c.runs \in Seq(RunType)
  BY DEF Sound, CorrType
<1>2. /\ b.img = [c.img EXCEPT ![i] = x] /\ b.runs = [c.runs EXCEPT ![r] = y]
      /\ b.tokens = c.tokens /\ b.adopted = c.adopted
  BY <1>1 DEF CorrType, Updated
<1>3. DOMAIN b.img = DOMAIN c.img /\ b.img[i] = x /\ \A j \in DOMAIN c.img : j # i => b.img[j] = c.img[j]
  BY <1>2
<1>4. DOMAIN b.runs = DOMAIN c.runs /\ b.runs[r] = y /\ \A q \in DOMAIN c.runs : q # r => b.runs[q] = c.runs[q]
  BY <1>2
<1> QED BY <1>2, <1>3, <1>4 DEF Changes

LEMMA JoinIs ==
    ASSUME NEW c, Sound(c), NEW i \in DOMAIN c.img, NEW r \in DOMAIN c.runs, c.img[i].run = 0
    PROVE  LET b == Join(c, i, r)
           IN  /\ Changes(c, b, i, r)
               /\ b.img[i].run = r /\ b.img[i].end = c.img[i].end
               /\ SameEnd(c.runs[r], b.runs[r])
               /\ c.img[i].end = NoTime =>
                    b.img[i].row = "open" /\ b.runs[r].live = c.runs[r].live \cup {i} /\ b.runs[r].lastEnd = c.runs[r].lastEnd
<1> DEFINE b == Join(c, i, r)
<1>1. /\ c \in CorrType /\ c.img[i] \in ImageType /\ c.runs[r] \in RunType /\ r \in Nat \ {0} /\ i \in Nat
      /\ ImageOK(c, i) /\ RunOK(c, r) /\ c.mark \in Nat
  BY CorrFields DEF Sound
<1>2. CASE c.img[i].end = NoTime
  <2> DEFINE x == [c.img[i] EXCEPT !.run = r, !.row = "open"]
             y == [c.runs[r] EXCEPT !.live = @ \cup {i}]
  <2>1. x \in ImageType /\ x.run = r /\ x.row = "open" /\ x.end = c.img[i].end /\ SameImage(c.img[i], x)
    BY <1>1 DEF ImageType, SameImage
  <2>2. y \in RunType /\ y.live = c.runs[r].live \cup {i} /\ y.lastEnd = c.runs[r].lastEnd /\ SameEnd(c.runs[r], y)
        /\ y.kind = c.runs[r].kind /\ y.root = c.runs[r].root
    BY <1>1 DEF RunType, SameEnd
  <2>3. Updated(c, b, i, r, x, y)
    BY <1>1, <1>2 DEF Join, CorrType, Updated
  <2> HIDE DEF x, y, b
  <2>4. Changes(c, b, i, r) /\ b.img[i] = x /\ b.runs[r] = y
    BY <2>1, <2>2, <2>3, UpdateIs
  <2> QED BY <2>1, <2>2, <2>4 DEF b
<1>3. CASE c.img[i].end # NoTime
  <2> DEFINE x == [c.img[i] EXCEPT !.run = r, !.row = c.img[i].endReason]
             y == [c.runs[r] EXCEPT !.lastEnd = Larger(@, c.img[i].end)]
  <2>1. x \in ImageType /\ x.run = r /\ x.end = c.img[i].end /\ SameImage(c.img[i], x)
    BY <1>1, <1>3 DEF ImageType, SameImage
  <2>2. y \in RunType /\ SameEnd(c.runs[r], y) /\ y.kind = c.runs[r].kind /\ y.root = c.runs[r].root
    BY <1>1, <1>3 DEF RunType, SameEnd, ImageType, Larger
  <2>3. Updated(c, b, i, r, x, y)
    BY <1>1, <1>3 DEF Join, CorrType, Updated
  <2> HIDE DEF x, y, b
  <2>4. Changes(c, b, i, r) /\ b.img[i] = x /\ b.runs[r] = y
    BY <2>1, <2>2, <2>3, UpdateIs
  <2> QED BY <1>3, <2>1, <2>2, <2>4 DEF b
<1> QED BY <1>2, <1>3

\* b is c with a new run.
Starts(c, b, kind, root) ==
    LET n == Len(c.runs) + 1
    IN  /\ DOMAIN b.runs = DOMAIN c.runs \cup {n} /\ n \notin DOMAIN c.runs
        /\ \A q \in DOMAIN c.runs : b.runs[q] = c.runs[q]
        /\ b.runs[n].kind = kind /\ b.runs[n].root = root /\ b.runs[n].live = {} /\ b.runs[n].lastEnd = 0
        /\ b.runs[n].ended = FALSE /\ b.runs[n].status = "running"
        /\ b.img = c.img /\ b.tokens = c.tokens /\ b.adopted = c.adopted

LEMMA StartRunIs ==
    ASSUME NEW c, Sound(c), NEW kind, NEW root \in Nat, NEW session \in Tags
    PROVE  Starts(c, StartRun(c, kind, root, session), kind, root)
<1> DEFINE b == StartRun(c, kind, root, session)
           n == Len(c.runs) + 1
           x == [kind |-> kind, root |-> root, live |-> {}, lastEnd |-> 0, ended |-> FALSE,
                 session |-> session, status |-> "running", endedAt |-> NoTime]
<1>1. c \in CorrType /\ n \in Nat /\ c.runs \in Seq(RunType) /\ DOMAIN c.runs = 1..Len(c.runs) /\ Len(c.runs) \in Nat
  BY CorrFields DEF Sound, CorrType
<1>2. /\ b.img = c.img /\ b.runs = Append(c.runs, x) /\ b.tokens = c.tokens /\ b.adopted = c.adopted
  BY <1>1 DEF StartRun, CorrType
<1>3. x.kind = kind /\ x.root = root /\ x.live = {} /\ x.lastEnd = 0 /\ x.ended = FALSE /\ x.status = "running"
  OBVIOUS
<1> HIDE DEF x, b
<1>4. DOMAIN b.runs = DOMAIN c.runs \cup {n} /\ b.runs[n] = x /\ \A q \in DOMAIN c.runs : b.runs[q] = c.runs[q]
  BY <1>1, <1>2
<1>5. n \notin DOMAIN c.runs
  BY <1>1
<1> QED BY <1>2, <1>3, <1>4, <1>5 DEF b, Starts

\* b is c with a new image x.
Registers(c, b, x) ==
    LET n == Len(c.img) + 1
    IN  /\ DOMAIN b.img = DOMAIN c.img \cup {n} /\ n \notin DOMAIN c.img /\ b.img[n] = x /\ Len(b.img) = n
        /\ \A j \in DOMAIN c.img : b.img[j] = c.img[j]
        /\ b.runs = c.runs /\ b.adopted = c.adopted
        /\ b.tokens = IF x.noToken THEN c.tokens ELSE c.tokens \cup {n}

LEMMA RegisterIs ==
    ASSUME NEW c, Sound(c), NEW x \in ImageType
    PROVE  Registers(c, Register(c, x), x)
<1> DEFINE b == Register(c, x)
           n == Len(c.img) + 1
<1>1. c \in CorrType /\ n \in Nat /\ c.img \in Seq(ImageType) /\ DOMAIN c.img = 1..Len(c.img) /\ Len(c.img) \in Nat
  BY CorrFields DEF Sound, CorrType
<1>2. /\ b.img = Append(c.img, x) /\ b.runs = c.runs /\ b.adopted = c.adopted
      /\ b.tokens = (IF x.noToken THEN c.tokens ELSE c.tokens \cup {n})
  BY <1>1 DEF Register, CorrType
<1> HIDE DEF b
<1>3. DOMAIN b.img = DOMAIN c.img \cup {n} /\ b.img[n] = x /\ Len(b.img) = n /\ \A j \in DOMAIN c.img : b.img[j] = c.img[j]
  BY <1>1, <1>2
<1>4. n \notin DOMAIN c.img
  BY <1>1
<1> QED BY <1>2, <1>3, <1>4 DEF b, Registers

LEMMA MaybeEndRunIs ==
    ASSUME NEW c, Sound(c), NEW r \in DOMAIN c.runs
    PROVE  LET b == MaybeEndRun(c, r)
               ends == ~c.runs[r].ended /\ c.runs[r].kind # "adopted" /\ c.runs[r].live = {}
           IN  /\ b.img = c.img /\ DOMAIN b.runs = DOMAIN c.runs /\ b.tokens = c.tokens /\ b.adopted = c.adopted
               /\ \A q \in DOMAIN c.runs : q # r => b.runs[q] = c.runs[q]
               /\ b.runs[r].kind = c.runs[r].kind /\ b.runs[r].root = c.runs[r].root
               /\ b.runs[r].live = c.runs[r].live /\ b.runs[r].lastEnd = c.runs[r].lastEnd
               /\ ends => b.runs[r].ended = TRUE /\ b.runs[r].status = "exited" /\ b.runs[r].endedAt = c.runs[r].lastEnd
               /\ ~ends => SameEnd(c.runs[r], b.runs[r])
<1> DEFINE b == MaybeEndRun(c, r)
           run == [c.runs[r] EXCEPT !.ended = TRUE, !.status = "exited", !.endedAt = c.runs[r].lastEnd]
<1>0. c.runs[r] \in RunType
  BY CorrFields
<1>1. CASE c.runs[r].ended \/ c.runs[r].kind = "adopted" \/ c.runs[r].live # {}
  BY <1>1 DEF MaybeEndRun, SameEnd
<1>2. CASE ~(c.runs[r].ended \/ c.runs[r].kind = "adopted" \/ c.runs[r].live # {})
  <2>1. c \in CorrType
    BY DEF Sound
  <2>2. run.live = c.runs[r].live /\ run.lastEnd = c.runs[r].lastEnd /\ run.kind = c.runs[r].kind /\ run.root = c.runs[r].root
        /\ run.status = "exited" /\ run.ended = TRUE /\ run.endedAt = c.runs[r].lastEnd
    BY <1>0 DEF RunType
  <2>3. /\ b.img = c.img /\ b.tokens = c.tokens /\ b.adopted = c.adopted
        /\ b.runs = [c.runs EXCEPT ![r] = run]
    BY <1>2, <2>1 DEF MaybeEndRun, CorrType
  <2> HIDE DEF run, b
  <2>4. DOMAIN b.runs = DOMAIN c.runs /\ b.runs[r] = run /\ \A q \in DOMAIN c.runs : q # r => b.runs[q] = c.runs[q]
    BY <2>3
  <2> QED BY <1>2, <2>2, <2>3, <2>4 DEF b
<1> QED BY <1>1, <1>2

\* endImage of a member of a run, put together.
LEMMA EndImageMeans ==
    ASSUME NEW c, Sound(c), NEW i \in DOMAIN c.img, NEW t \in Nat, NEW reason \in {"exec", "exit"},
           c.img[i].run \in DOMAIN c.runs, c.img[i].end = NoTime
    PROVE  LET r == c.img[i].run
               x == [c.img[i] EXCEPT !.end = t, !.endReason = reason, !.row = reason]
               y == [c.runs[r] EXCEPT !.live = @ \ {i}, !.lastEnd = Larger(@, t)]
           IN  EndImage(c, i, t, reason) = MaybeEndRun([c EXCEPT !.img = [c.img EXCEPT ![i] = x], !.runs = [c.runs EXCEPT ![r] = y]], r)
<1> DEFINE b == EndImage(c, i, t, reason)
           r == c.img[i].run
           x == [c.img[i] EXCEPT !.end = t, !.endReason = reason, !.row = reason]
           y == [c.runs[r] EXCEPT !.live = @ \ {i}, !.lastEnd = Larger(@, t)]
           a == [c EXCEPT !.img = [c.img EXCEPT ![i] = x], !.runs = [c.runs EXCEPT ![r] = y]]
<1>0. c \in CorrType /\ c.img[i] \in ImageType /\ c.runs[r] \in RunType /\ r # 0
  BY CorrFields DEF Sound
<1> DEFINE x0 == [c.img[i] EXCEPT !.end = t, !.endReason = reason]
           img0 == [c.img EXCEPT ![i] = x0]
           ended == [c EXCEPT !.img[i].end = t, !.img[i].endReason = reason]
<1>1. ended = [c EXCEPT !.img = img0]
  BY <1>0 DEF CorrType, ImageType
<1>2. x0 \in ImageType /\ [x0 EXCEPT !.row = reason] = x
  BY <1>0 DEF ImageType
<1> DEFINE last == [ended EXCEPT !.img[i].row = reason, !.runs[r].live = @ \ {i}, !.runs[r].lastEnd = Larger(@, t)]
<1>3. b = MaybeEndRun(last, r)
  BY <1>0 DEF EndImage
<1> HIDE DEF x0, ended
<1>4. ended \in CorrType /\ ended.img = img0 /\ ended.runs = c.runs
  <2>1. img0 \in Seq(ImageType)
    BY <1>0, <1>2, ExceptSeq, CorrFields, LenProperties DEF CorrType
  <2> HIDE DEF img0
  <2> QED BY <1>0, <1>1, <2>1 DEF CorrType
<1>5. last = [ended EXCEPT !.img = [img0 EXCEPT ![i].row = reason],
                          !.runs = [c.runs EXCEPT ![r].live = @ \ {i}, ![r].lastEnd = Larger(@, t)]]
  <2> DEFINE e1 == [ended EXCEPT !.img[i].row = reason]
             e2 == [e1 EXCEPT !.runs[r].live = @ \ {i}]
             e3 == [e2 EXCEPT !.runs[r].lastEnd = Larger(@, t)]
             runs1 == [c.runs EXCEPT ![r].live = @ \ {i}]
             runs2 == [runs1 EXCEPT ![r].lastEnd = Larger(@, t)]
  <2> HIDE DEF img0
  <2>1. last = e3
    OBVIOUS
  <2>2. e1 = [ended EXCEPT !.img = [img0 EXCEPT ![i].row = reason]] /\ e1.runs = c.runs
    BY <1>4 DEF CorrType
  <2>3. e2 = [e1 EXCEPT !.runs = runs1] /\ e2.runs = runs1
    <3>1. "runs" \in DOMAIN e1
      BY <1>4, <2>2 DEF CorrType
    <3> HIDE DEF e1
    <3> QED BY <2>2, <3>1
  <2>4. e3 = [e2 EXCEPT !.runs = runs2]
    <3> HIDE DEF e2
    <3> QED BY <2>3
  <2>5. e3 = [e1 EXCEPT !.runs = runs2]
    <3> HIDE DEF e1, runs1, runs2
    <3> QED BY <2>3, <2>4
  <2> HIDE DEF last, e1, e2, e3
  <2>6. e3 = [ended EXCEPT !.img = [img0 EXCEPT ![i].row = reason], !.runs = runs2]
    BY <2>2, <2>5
  <2> QED BY <2>1, <2>6
<1>6. [img0 EXCEPT ![i].row = reason] = [c.img EXCEPT ![i] = x]
  <2>1. DOMAIN img0 = DOMAIN c.img /\ img0[i] = x0
    OBVIOUS
  <2>2. [img0 EXCEPT ![i].row = reason] = [img0 EXCEPT ![i] = [x0 EXCEPT !.row = reason]]
    <3> HIDE DEF img0
    <3> QED BY <2>1
  <2> HIDE DEF x
  <2> QED BY <1>2, <2>2
<1>7. [c.runs EXCEPT ![r].live = @ \ {i}, ![r].lastEnd = Larger(@, t)] = [c.runs EXCEPT ![r] = y]
  BY <1>0 DEF RunType
<1>8. last = a
  <2> HIDE DEF last, x, y, img0
  <2> QED BY <1>0, <1>1, <1>5, <1>6, <1>7 DEF CorrType
<1> QED BY <1>3, <1>8

\* b is c with the image i ended.
Ends(c, b, i, t, reason) ==
    LET r == c.img[i].run
        live == c.runs[r].live \ {i}
        ends == ~c.runs[r].ended /\ c.runs[r].kind # "adopted" /\ live = {}
    IN  /\ r = 0 => /\ DOMAIN b.img = DOMAIN c.img /\ b.runs = c.runs
                    /\ b.tokens = c.tokens /\ b.adopted = c.adopted
                    /\ \A j \in DOMAIN c.img : j # i => b.img[j] = c.img[j]
                    /\ SameImage(c.img[i], b.img[i])
        /\ r # 0 => /\ Changes(c, b, i, r) /\ b.img[i].row = reason /\ b.runs[r].live = live
                    /\ b.runs[r].lastEnd = Larger(c.runs[r].lastEnd, t)
                    /\ ends => /\ b.runs[r].ended = TRUE /\ b.runs[r].status = "exited"
                               /\ b.runs[r].endedAt = b.runs[r].lastEnd
                    /\ ~ends => SameEnd(c.runs[r], b.runs[r])
        /\ b.img[i].run = r /\ b.img[i].end = t

LEMMA EndImageIs ==
    ASSUME NEW c, Sound(c), NEW i \in DOMAIN c.img, NEW t \in Nat, t <= c.mark, NEW reason \in {"exec", "exit"},
           c.img[i].end = NoTime
    PROVE  Ends(c, EndImage(c, i, t, reason), i, t, reason)
<1> DEFINE b == EndImage(c, i, t, reason)
           r == c.img[i].run
           live == c.runs[r].live \ {i}
           ends == ~c.runs[r].ended /\ c.runs[r].kind # "adopted" /\ live = {}
<1>1. /\ c \in CorrType /\ c.img[i] \in ImageType /\ i \in Nat /\ ImageOK(c, i) /\ c.mark \in Nat
      /\ r \in Nat /\ (r # 0 => r \in DOMAIN c.runs)
  <2>1. c.img[i] \in ImageType /\ ImageOK(c, i) /\ i \in Nat /\ c.mark \in Nat
    BY CorrFields DEF Sound
  <2>2. r \in Nat /\ r <= Len(c.runs)
    BY <2>1 DEF ImageOK, ImageType
  <2> QED BY <2>1, <2>2, CorrFields DEF Sound
<1>2. CASE r = 0
  <2> DEFINE x == [c.img[i] EXCEPT !.end = t, !.endReason = reason]
  <2>1. x.run = 0 /\ x.end = t /\ SameImage(c.img[i], x)
    BY <1>1, <1>2 DEF ImageType, SameImage
  <2>2. b = [c EXCEPT !.img = [c.img EXCEPT ![i] = x]]
    BY <1>1, <1>2 DEF EndImage, CorrType
  <2> HIDE DEF x, b
  <2>3. b.img = [c.img EXCEPT ![i] = x] /\ b.runs = c.runs /\ b.tokens = c.tokens /\ b.adopted = c.adopted
    BY <1>1, <2>2 DEF CorrType
  <2>4. DOMAIN b.img = DOMAIN c.img /\ b.img[i] = x /\ \A j \in DOMAIN c.img : j # i => b.img[j] = c.img[j]
    BY <2>3
  <2> QED BY <1>2, <2>1, <2>3, <2>4 DEF b, Ends
<1>3. CASE r # 0
  <2>1. r \in DOMAIN c.runs /\ c.runs[r] \in RunType /\ RunOK(c, r)
    BY <1>1, <1>3, CorrFields DEF Sound
  <2> DEFINE x == [c.img[i] EXCEPT !.end = t, !.endReason = reason, !.row = reason]
             y == [c.runs[r] EXCEPT !.live = @ \ {i}, !.lastEnd = Larger(@, t)]
             a == [c EXCEPT !.img = [c.img EXCEPT ![i] = x], !.runs = [c.runs EXCEPT ![r] = y]]
  <2>2. x \in ImageType /\ x.run = r /\ x.row = reason /\ x.parent = c.img[i].parent
        /\ x.end = t /\ x.endReason = reason /\ SameImage(c.img[i], x)
    BY <1>1, <1>3 DEF ImageType, SameImage
  <2>3. y \in RunType /\ y.live = live /\ y.lastEnd = Larger(c.runs[r].lastEnd, t)
        /\ SameEnd(c.runs[r], y) /\ y.kind = c.runs[r].kind /\ y.root = c.runs[r].root
    BY <2>1 DEF RunType, Larger, SameEnd
  <2>4. b = MaybeEndRun(a, r)
    BY <2>1, EndImageMeans
  <2>5. x.row \notin {"none", "open"} /\ (x.end = NoTime <=> x.endReason = "none") /\ y.lastEnd <= c.mark
        /\ (y.status = "running" <=> ~y.ended)
    <3>1. c.runs[r].lastEnd \in Nat /\ c.runs[r].lastEnd <= c.mark /\ (c.runs[r].status = "running" <=> ~c.runs[r].ended)
      BY <2>1 DEF RunOK, RunType
    <3>2. Larger(c.runs[r].lastEnd, t) <= c.mark
      BY <1>1, <3>1 DEF Larger
    <3>3. t # NoTime /\ reason # "none" /\ reason # "open"
      BY DEF NoTime
    <3> HIDE DEF x, y
    <3> QED BY <2>2, <2>3, <3>1, <3>2, <3>3 DEF SameEnd
  <2> HIDE DEF x, y, b, ends, live
  <2>6. Sound(a)
    <3>1. Updates(c, a, i, r, x, y)
      BY <1>1, <1>3, <2>1, <2>2, <2>3, <2>5 DEF Updates, live
    <3> HIDE DEF a
    <3> QED BY <3>1, UpdateSound DEF Becomes
  <2>7. Changes(c, a, i, r) /\ a.img[i] = x /\ a.runs[r] = y
    <3>1. Updated(c, a, i, r, x, y)
      BY DEF Updated
    <3> HIDE DEF a
    <3> QED BY <2>1, <2>2, <2>3, <3>1, UpdateIs
  <2> HIDE DEF a
  <2>8. r \in DOMAIN a.runs
    BY <2>1, <2>7 DEF Changes
  <2> DEFINE stops == ~a.runs[r].ended /\ a.runs[r].kind # "adopted" /\ a.runs[r].live = {}
             m == MaybeEndRun(a, r)
  <2>9. /\ b.img = a.img /\ DOMAIN b.runs = DOMAIN a.runs /\ b.tokens = a.tokens /\ b.adopted = a.adopted
        /\ \A q \in DOMAIN a.runs : q # r => b.runs[q] = a.runs[q]
        /\ b.runs[r].kind = a.runs[r].kind /\ b.runs[r].root = a.runs[r].root
        /\ b.runs[r].live = a.runs[r].live /\ b.runs[r].lastEnd = a.runs[r].lastEnd
        /\ stops => b.runs[r].ended = TRUE /\ b.runs[r].status = "exited" /\ b.runs[r].endedAt = a.runs[r].lastEnd
        /\ ~stops => SameEnd(a.runs[r], b.runs[r])
    <3>1. /\ m.img = a.img /\ DOMAIN m.runs = DOMAIN a.runs /\ m.tokens = a.tokens /\ m.adopted = a.adopted
          /\ \A q \in DOMAIN a.runs : q # r => m.runs[q] = a.runs[q]
          /\ m.runs[r].kind = a.runs[r].kind /\ m.runs[r].root = a.runs[r].root
          /\ m.runs[r].live = a.runs[r].live /\ m.runs[r].lastEnd = a.runs[r].lastEnd
          /\ stops => m.runs[r].ended = TRUE /\ m.runs[r].status = "exited" /\ m.runs[r].endedAt = a.runs[r].lastEnd
          /\ ~stops => SameEnd(a.runs[r], m.runs[r])
      BY <2>6, <2>8, MaybeEndRunIs
    <3> HIDE DEF m, stops
    <3>2. b = m
      BY <2>4 DEF m
    <3> QED BY <3>1, <3>2
  <2>10. stops <=> ends
    BY <2>3, <2>7 DEF ends, SameEnd
  <2> HIDE DEF stops
  <2>11. Changes(c, b, i, r)
    BY <2>7, <2>9 DEF Changes
  <2>12. b.img[i] = x /\ b.runs[r].live = live /\ b.runs[r].lastEnd = Larger(c.runs[r].lastEnd, t)
    BY <2>3, <2>7, <2>9
  <2>13. ends => b.runs[r].ended = TRUE /\ b.runs[r].status = "exited" /\ b.runs[r].endedAt = b.runs[r].lastEnd
    BY <2>9, <2>10
  <2>14. ~ends => SameEnd(c.runs[r], b.runs[r])
    BY <2>3, <2>7, <2>9, <2>10 DEF SameEnd
  <2> QED BY <1>3, <2>2, <2>11, <2>12, <2>13, <2>14 DEF b, ends, live, Ends
<1> QED BY <1>2, <1>3

-----------------------------------------------------------------------------
(* What the correlator knows of the machine *)

\* An audit token: a pid and its pidversion.
TokenOf(x) == <<x.pid, x.ver>>
Token == Pid \X Nat

\* A machine as far as sandbox-exec trees go: the processes that live, the sandbox-exec (box) a process
\* descends from, the number of pidversions given out.
View == [alive : SUBSET Token, box : SUBSET (Token \X Token), top : Nat]
ViewOK(v) ==
    /\ v \in View
    /\ \A t \in v.alive : t[2] \in 1..v.top
    /\ \A x \in v.box : x[1] \in v.alive /\ x[2][2] \in 1..v.top

\* Image i is in a sandbox-exec run; the sandbox-exec of run r.
Boxed(c, i) == c.img[i].run # 0 /\ c.runs[c.img[i].run].kind = "sandbox-exec"
BoxOf(c, r) == TokenOf(c.img[c.runs[r].root])

\* An image with a token lives exactly if its process does, and can then be found by its token.
ImageKnown(c, v, i) ==
    LET x == c.img[i]
    IN  ~x.noToken => /\ x.ver \in 1..v.top
                      /\ x.end = NoTime <=> TokenOf(x) \in v.alive
                      /\ x.end = NoTime => i \in c.tokens

\* A member of a sandbox-exec run that lives descends from the run's sandbox-exec.
MemberKnown(c, v, i) ==
    LET x == c.img[i]
        run == c.runs[x.run]
    IN  Boxed(c, i) => /\ ~x.noToken /\ x.row # "watch_stopped"
                       /\ x.end = NoTime <=> i \in run.live
                       /\ x.end = NoTime => <<TokenOf(x), BoxOf(c, x.run)>> \in v.box
                       /\ x.end <= run.lastEnd

\* A process of a tree has an image in the tree's run.
HasImage(c, x) ==
    \E i \in DOMAIN c.img : /\ ~c.img[i].noToken /\ TokenOf(c.img[i]) = x[1] /\ c.img[i].end = NoTime
                            /\ Boxed(c, i) /\ BoxOf(c, c.img[i].run) = x[2]

\* A sandbox-exec run has ended when its last member did.
BoxRunOK(c, r) ==
    LET run == c.runs[r]
    IN  /\ run.root \in DOMAIN c.img /\ c.img[run.root].run = r
        /\ run.ended <=> run.live = {}
        /\ run.ended => run.status = "exited" /\ run.endedAt = run.lastEnd
        /\ \/ run.lastEnd = 0 /\ run.live # {}
           \/ \E i \in DOMAIN c.img : c.img[i].run = r /\ c.img[i].end = run.lastEnd

\* No two images have one token.
Distinct(c) ==
    \A i, j \in DOMAIN c.img :
        ~c.img[i].noToken /\ ~c.img[j].noToken /\ TokenOf(c.img[i]) = TokenOf(c.img[j]) => i = j

\* c is right about the sandbox-exec trees of v.
Agrees(c, v) ==
    /\ \A i \in DOMAIN c.img : ImageKnown(c, v, i) /\ MemberKnown(c, v, i)
    /\ \A i \in c.tokens : ~c.img[i].noToken
    /\ Distinct(c)
    /\ \A x \in v.box : HasImage(c, x)
    /\ \A r \in DOMAIN c.runs : c.runs[r].kind = "sandbox-exec" => BoxRunOK(c, r)

\* A forked image is in the sandbox-exec run of its parent, and adopted runs are of that kind.
Descends(c, i) ==
    LET x == c.img[i] IN ~x.execSeen /\ x.parent # 0 /\ Boxed(c, x.parent) => x.run = c.img[x.parent].run
AdoptedOK(c, t) == c.adopted[t] # 0 => c.runs[c.adopted[t]].kind = "adopted"
Family(c) == (\A i \in DOMAIN c.img : Descends(c, i)) /\ \A t \in Tag : AdoptedOK(c, t)

-----------------------------------------------------------------------------
(* What denials and ticks change *)

SameRun(x, y) ==
    /\ y.kind = x.kind /\ y.root = x.root
    /\ x.kind = "sandbox-exec" => y.live = x.live /\ y.lastEnd = x.lastEnd /\ SameEnd(x, y)

\* From c to b nothing happened to a sandbox-exec run: images without a token may be new, others may have
\* joined other runs, and those that ended may be forgotten.
Aside(c, b) ==
    /\ DOMAIN c.img \subseteq DOMAIN b.img /\ DOMAIN c.runs \subseteq DOMAIN b.runs
    /\ \A i \in DOMAIN c.img : SameImage(c.img[i], b.img[i]) /\ b.img[i].end = c.img[i].end
    /\ \A i \in DOMAIN b.img \ DOMAIN c.img : b.img[i].noToken /\ b.img[i].parent = 0
    /\ \A i \in DOMAIN b.img : Boxed(b, i) => i \in DOMAIN c.img /\ Boxed(c, i)
    /\ \A i \in DOMAIN c.img : Boxed(c, i) => b.img[i].run = c.img[i].run /\ b.img[i].row = c.img[i].row
    /\ b.tokens \subseteq c.tokens
    /\ \A i \in c.tokens \ b.tokens : c.img[i].end # NoTime
    /\ \A r \in DOMAIN c.runs : SameRun(c.runs[r], b.runs[r])
    /\ \A r \in DOMAIN b.runs \ DOMAIN c.runs : b.runs[r].kind # "sandbox-exec"
    /\ \A t \in Tag : \/ b.adopted[t] = c.adopted[t]
                      \/ b.adopted[t] \in DOMAIN b.runs /\ b.runs[b.adopted[t]].kind = "adopted"

LEMMA AsideRefl == ASSUME NEW c PROVE Aside(c, c)
<1>1. \A i \in DOMAIN c.img : SameImage(c.img[i], c.img[i])
  BY DEF SameImage
<1>2. \A r \in DOMAIN c.runs : SameRun(c.runs[r], c.runs[r])
  BY DEF SameRun, SameEnd
<1> QED BY <1>1, <1>2 DEF Aside

\* What a boxed image points to.
LEMMA BoxedOK ==
    ASSUME NEW c, Sound(c), NEW i \in DOMAIN c.img
    PROVE  /\ c.img[i].run \in Nat /\ (c.img[i].run # 0 => c.img[i].run \in DOMAIN c.runs)
           /\ c.img[i].parent \in Nat /\ (c.img[i].parent # 0 => c.img[i].parent \in DOMAIN c.img)
<1>1. c.img[i] \in ImageType /\ ImageOK(c, i)
  BY CorrFields DEF Sound
<1>2. /\ c.img[i].run \in Nat /\ c.img[i].run <= Len(c.runs)
      /\ c.img[i].parent \in Nat /\ c.img[i].parent < i
  BY <1>1 DEF ImageOK, ImageType
<1> QED BY <1>2, CorrFields

LEMMA AsideTrans ==
    ASSUME NEW a, NEW b, NEW c, Sound(a), Sound(b), Sound(c), Aside(a, b), Aside(b, c)
    PROVE  Aside(a, c)
<1>1. \A i \in DOMAIN a.img : SameImage(a.img[i], c.img[i]) /\ c.img[i].end = a.img[i].end
  BY DEF Aside, SameImage
<1>2. \A i \in DOMAIN c.img \ DOMAIN a.img : c.img[i].noToken /\ c.img[i].parent = 0
  BY DEF Aside, SameImage
<1>3. \A i \in DOMAIN c.img : Boxed(c, i) => i \in DOMAIN a.img /\ Boxed(a, i)
  BY DEF Aside
<1>4. \A i \in DOMAIN a.img : Boxed(a, i) => c.img[i].run = a.img[i].run /\ c.img[i].row = a.img[i].row
  <2> SUFFICES ASSUME NEW i \in DOMAIN a.img, Boxed(a, i)
               PROVE  c.img[i].run = a.img[i].run /\ c.img[i].row = a.img[i].row
    OBVIOUS
  <2>1. a.img[i].run \in DOMAIN a.runs /\ a.runs[a.img[i].run].kind = "sandbox-exec"
    BY BoxedOK DEF Boxed
  <2>2. b.img[i].run = a.img[i].run /\ b.img[i].row = a.img[i].row /\ b.runs[a.img[i].run].kind = "sandbox-exec"
    BY <2>1 DEF Aside, SameRun
  <2>3. Boxed(b, i) /\ i \in DOMAIN b.img
    BY <2>1, <2>2 DEF Boxed, Aside
  <2> QED BY <2>2, <2>3 DEF Aside
<1>5. c.tokens \subseteq a.tokens /\ \A i \in a.tokens \ c.tokens : a.img[i].end # NoTime
  <2>1. a.tokens \subseteq DOMAIN a.img
    BY DEF Sound
  <2> QED BY <2>1 DEF Aside
<1>6. \A r \in DOMAIN a.runs : SameRun(a.runs[r], c.runs[r])
  BY DEF Aside, SameRun, SameEnd
<1>7. \A r \in DOMAIN c.runs \ DOMAIN a.runs : c.runs[r].kind # "sandbox-exec"
  BY DEF Aside, SameRun
<1>8. ASSUME NEW t \in Tag, c.adopted[t] # a.adopted[t]
      PROVE  c.adopted[t] \in DOMAIN c.runs /\ c.runs[c.adopted[t]].kind = "adopted"
  <2>1. CASE c.adopted[t] = b.adopted[t]
    <3>1. b.adopted[t] \in DOMAIN b.runs /\ b.runs[b.adopted[t]].kind = "adopted"
      BY <1>8, <2>1 DEF Aside
    <3>2. b.adopted[t] \in DOMAIN c.runs /\ SameRun(b.runs[b.adopted[t]], c.runs[b.adopted[t]])
      BY <3>1 DEF Aside
    <3> QED BY <2>1, <3>1, <3>2 DEF SameRun
  <2> QED BY <2>1 DEF Aside
<1>9. DOMAIN a.img \subseteq DOMAIN c.img /\ DOMAIN a.runs \subseteq DOMAIN c.runs
  BY DEF Aside
<1> QED BY <1>1, <1>2, <1>3, <1>4, <1>5, <1>6, <1>7, <1>8, <1>9 DEF Aside

\* An image that was boxed still is.
LEMMA AsideBoxed ==
    ASSUME NEW c, NEW b, Sound(c), Aside(c, b)
    PROVE  /\ \A i \in DOMAIN b.img : Boxed(b, i) <=> i \in DOMAIN c.img /\ Boxed(c, i)
           /\ \A i \in DOMAIN c.img : Boxed(c, i) => c.img[i].run \in DOMAIN c.runs /\ b.img[i].run = c.img[i].run
<1>1. ASSUME NEW i \in DOMAIN c.img, Boxed(c, i)
      PROVE  Boxed(b, i) /\ c.img[i].run \in DOMAIN c.runs /\ b.img[i].run = c.img[i].run
  <2>1. c.img[i].run \in DOMAIN c.runs /\ c.runs[c.img[i].run].kind = "sandbox-exec" /\ c.img[i].run # 0
    BY <1>1, BoxedOK DEF Boxed
  <2>2. b.img[i].run = c.img[i].run /\ b.runs[c.img[i].run].kind = "sandbox-exec"
    BY <1>1, <2>1 DEF Aside, SameRun
  <2> QED BY <2>1, <2>2 DEF Boxed
<1> QED BY <1>1 DEF Aside

LEMMA AsideFamily ==
    ASSUME NEW c, NEW b, Sound(c), Aside(c, b), Family(c)
    PROVE  Family(b)
<1>1. ASSUME NEW i \in DOMAIN b.img, ~b.img[i].execSeen, b.img[i].parent # 0, Boxed(b, b.img[i].parent)
      PROVE  b.img[i].run = b.img[b.img[i].parent].run
  <2>1. i \in DOMAIN c.img
    BY <1>1 DEF Aside
  <2> DEFINE p == c.img[i].parent
  <2>2. b.img[i].parent = p /\ ~c.img[i].execSeen /\ p # 0 /\ p \in DOMAIN c.img
    BY <1>1, <2>1, BoxedOK DEF Aside, SameImage
  <2> HIDE DEF p
  <2>3. p \in DOMAIN b.img /\ Boxed(c, p) /\ b.img[p].run = c.img[p].run /\ c.img[p].run \in DOMAIN c.runs
    BY <1>1, <2>2, AsideBoxed DEF Aside
  <2>4. c.img[i].run = c.img[p].run
    BY <2>1, <2>2, <2>3 DEF Family, Descends, p
  <2>5. Boxed(c, i)
    BY <2>3, <2>4 DEF Boxed
  <2>6. b.img[i].run = c.img[i].run
    BY <2>1, <2>5, AsideBoxed
  <2> QED BY <2>2, <2>3, <2>4, <2>6
<1>2. ASSUME NEW t \in Tag, b.adopted[t] # 0 PROVE b.runs[b.adopted[t]].kind = "adopted"
  <2>1. CASE b.adopted[t] = c.adopted[t]
    <3>1. c.adopted[t] \in DOMAIN c.runs
      <4>1. c.adopted[t] \in Nat /\ c.adopted[t] <= Len(c.runs)
        BY DEF Sound, CorrType
      <4> QED BY <1>2, <2>1, <4>1, CorrFields
    <3> QED BY <1>2, <2>1, <3>1 DEF Aside, SameRun, Family, AdoptedOK
  <2> QED BY <2>1 DEF Aside
<1> QED BY <1>1, <1>2 DEF Family, Descends, AdoptedOK

\* What leaves the sandbox-exec runs alone leaves them right.
LEMMA AsideAgrees ==
    ASSUME NEW c, NEW b, Sound(c), Sound(b), Aside(c, b), NEW v, Agrees(c, v)
    PROVE  Agrees(b, v)
<1>1. ASSUME NEW r \in DOMAIN b.runs, b.runs[r].kind = "sandbox-exec"
      PROVE  /\ r \in DOMAIN c.runs /\ c.runs[r].kind = "sandbox-exec" /\ r # 0 /\ c.runs[r].root \in DOMAIN c.img
             /\ BoxOf(b, r) = BoxOf(c, r)
  <2>1. r \in DOMAIN c.runs /\ SameRun(c.runs[r], b.runs[r]) /\ c.runs[r].kind = "sandbox-exec"
    BY <1>1 DEF Aside, SameRun
  <2>2. c.runs[r].root \in DOMAIN c.img /\ r # 0
    BY <2>1, CorrFields DEF Agrees, BoxRunOK
  <2>3. SameImage(c.img[c.runs[r].root], b.img[c.runs[r].root]) /\ b.runs[r].root = c.runs[r].root
    BY <2>1, <2>2 DEF Aside, SameRun
  <2> QED BY <2>1, <2>2, <2>3 DEF BoxOf, TokenOf, SameImage
<1>2. ASSUME NEW i \in DOMAIN c.img
      PROVE  /\ TokenOf(b.img[i]) = TokenOf(c.img[i]) /\ b.img[i].end = c.img[i].end
             /\ b.img[i].noToken = c.img[i].noToken /\ b.img[i].ver = c.img[i].ver
  BY DEF Aside, SameImage, TokenOf
<1>3. ASSUME NEW i \in DOMAIN b.img PROVE ImageKnown(b, v, i)
  <2>1. CASE i \in DOMAIN c.img
    <3>1. ImageKnown(c, v, i)
      BY <2>1 DEF Agrees
    <3>2. i \in c.tokens /\ c.img[i].end = NoTime => i \in b.tokens
      BY DEF Aside
    <3> QED BY <1>2, <2>1, <3>1, <3>2 DEF ImageKnown
  <2>2. CASE i \notin DOMAIN c.img
    BY <2>2 DEF Aside, ImageKnown
  <2> QED BY <2>1, <2>2
<1>4. ASSUME NEW i \in DOMAIN b.img, Boxed(b, i)
      PROVE  /\ i \in DOMAIN c.img /\ Boxed(c, i) /\ b.img[i].run = c.img[i].run /\ b.img[i].row = c.img[i].row
             /\ c.img[i].run \in DOMAIN c.runs /\ SameRun(c.runs[c.img[i].run], b.runs[c.img[i].run])
             /\ BoxOf(b, c.img[i].run) = BoxOf(c, c.img[i].run)
  <2>1. i \in DOMAIN c.img /\ Boxed(c, i) /\ c.img[i].run \in DOMAIN c.runs /\ b.img[i].run = c.img[i].run
    BY <1>4, AsideBoxed
  <2>2. b.img[i].row = c.img[i].row /\ SameRun(c.runs[c.img[i].run], b.runs[c.img[i].run])
    BY <2>1 DEF Aside
  <2>3. c.img[i].run \in DOMAIN b.runs /\ b.runs[c.img[i].run].kind = "sandbox-exec"
    BY <1>4, <2>1 DEF Boxed, Aside
  <2> QED BY <1>1, <2>1, <2>2, <2>3
<1>5. ASSUME NEW i \in DOMAIN b.img PROVE MemberKnown(b, v, i)
  <2> SUFFICES ASSUME Boxed(b, i) PROVE MemberKnown(b, v, i)
    BY DEF MemberKnown
  <2>1. MemberKnown(c, v, i) /\ Boxed(c, i) /\ c.runs[c.img[i].run].kind = "sandbox-exec"
    BY <1>4 DEF Agrees, Boxed
  <2> QED BY <1>2, <1>4, <2>1 DEF MemberKnown, SameRun
<1>6. \A i \in b.tokens : ~b.img[i].noToken
  <2>1. b.tokens \subseteq c.tokens /\ c.tokens \subseteq DOMAIN c.img
    BY DEF Aside, Sound
  <2> QED BY <1>2, <2>1 DEF Agrees
<1>7. Distinct(b)
  <2>1. \A i \in DOMAIN b.img : ~b.img[i].noToken => i \in DOMAIN c.img
    BY DEF Aside
  <2> QED BY <1>2, <2>1 DEF Distinct, Agrees
<1>8. ASSUME NEW x \in v.box PROVE HasImage(b, x)
  <2>1. PICK i \in DOMAIN c.img : /\ ~c.img[i].noToken /\ TokenOf(c.img[i]) = x[1] /\ c.img[i].end = NoTime
                                /\ Boxed(c, i) /\ BoxOf(c, c.img[i].run) = x[2]
    BY DEF Agrees, HasImage
  <2>2. i \in DOMAIN b.img /\ Boxed(b, i)
    BY <2>1, AsideBoxed DEF Aside
  <2>3. BoxOf(b, b.img[i].run) = x[2]
    BY <1>4, <2>1, <2>2
  <2> QED BY <1>2, <2>1, <2>2, <2>3 DEF HasImage
<1>9. ASSUME NEW r \in DOMAIN b.runs, b.runs[r].kind = "sandbox-exec" PROVE BoxRunOK(b, r)
  <2>1. BoxRunOK(c, r) /\ SameRun(c.runs[r], b.runs[r])
    BY <1>1, <1>9 DEF Agrees, Aside
  <2>2. ASSUME NEW i \in DOMAIN c.img, c.img[i].run = r PROVE i \in DOMAIN b.img /\ b.img[i].run = r
    <3>1. Boxed(c, i)
      BY <1>1, <1>9, <2>2 DEF Boxed
    <3> QED BY <2>2, <3>1 DEF Aside
  <2>3. b.runs[r].root \in DOMAIN b.img /\ b.img[b.runs[r].root].run = r
    BY <1>1, <1>9, <2>1, <2>2 DEF BoxRunOK, SameRun
  <2>4. \/ b.runs[r].lastEnd = 0 /\ b.runs[r].live # {}
        \/ \E i \in DOMAIN b.img : b.img[i].run = r /\ b.img[i].end = b.runs[r].lastEnd
    BY <1>1, <1>2, <1>9, <2>1, <2>2 DEF BoxRunOK, SameRun
  <2> QED BY <1>1, <1>9, <2>1, <2>3, <2>4 DEF BoxRunOK, SameRun, SameEnd
<1> QED BY <1>3, <1>5, <1>6, <1>7, <1>8, <1>9 DEF Agrees

\* From c to b only runs changed, and no sandbox-exec run did.
RunsAside(c, b) ==
    /\ b.img = c.img /\ b.tokens = c.tokens /\ b.adopted = c.adopted /\ DOMAIN c.runs \subseteq DOMAIN b.runs
    /\ \A r \in DOMAIN c.runs : SameRun(c.runs[r], b.runs[r])
    /\ \A r \in DOMAIN b.runs \ DOMAIN c.runs : b.runs[r].kind # "sandbox-exec"

LEMMA RunsAsideIs ==
    ASSUME NEW c, NEW b, Sound(c), RunsAside(c, b)
    PROVE  Aside(c, b)
<1>1. ASSUME NEW i \in DOMAIN c.img PROVE Boxed(b, i) => Boxed(c, i)
  <2>1. c.img[i].run # 0 => c.img[i].run \in DOMAIN c.runs
    BY BoxedOK
  <2> QED BY <2>1 DEF RunsAside, Boxed, SameRun
<1>2. \A i \in DOMAIN c.img : SameImage(c.img[i], c.img[i])
  BY DEF SameImage
<1> QED BY <1>1, <1>2 DEF RunsAside, Aside

LEMMA JoinAside ==
    ASSUME NEW c, Sound(c), NEW i \in DOMAIN c.img, NEW r \in DOMAIN c.runs, c.runs[r].kind # "sandbox-exec"
    PROVE  /\ Aside(c, Join(c, i, r)) /\ Join(c, i, r).runs[r].kind = c.runs[r].kind
           /\ DOMAIN Join(c, i, r).img = DOMAIN c.img
<1> DEFINE b == Join(c, i, r)
<1>1. CASE c.img[i].run # 0
  BY <1>1, AsideRefl DEF Join
<1>2. CASE c.img[i].run = 0
  <2>1. Changes(c, b, i, r) /\ b.img[i].run = r /\ b.img[i].end = c.img[i].end
    BY <1>2, JoinIs
  <2> HIDE DEF b
  <2>2. \A j \in DOMAIN c.img : SameImage(c.img[j], b.img[j]) /\ b.img[j].end = c.img[j].end
    BY <2>1 DEF Changes, SameImage
  <2>3. \A q \in DOMAIN c.runs : SameRun(c.runs[q], b.runs[q])
    BY <2>1 DEF Changes, SameRun, SameEnd
  <2>4. ASSUME NEW j \in DOMAIN c.img, Boxed(b, j) PROVE Boxed(c, j)
    <3>1. j # i
      BY <2>1, <2>4 DEF Boxed, Changes
    <3>2. b.img[j] = c.img[j] /\ (c.img[j].run # 0 => c.img[j].run \in DOMAIN c.runs)
      BY <2>1, <3>1, BoxedOK DEF Changes
    <3> QED BY <2>3, <2>4, <3>2 DEF Boxed, SameRun
  <2>5. ASSUME NEW j \in DOMAIN c.img, Boxed(c, j) PROVE b.img[j] = c.img[j]
    BY <1>2, <2>1, <2>5 DEF Boxed, Changes
  <2>6. Aside(c, b)
    BY <2>1, <2>2, <2>3, <2>4, <2>5 DEF Aside, Changes
  <2> QED BY <2>1, <2>6 DEF Changes, b
<1> QED BY <1>1, <1>2

LEMMA StartRunAside ==
    ASSUME NEW c, Sound(c), NEW kind, NEW root \in Nat, NEW session \in Tags
    PROVE  kind # "sandbox-exec" => Aside(c, StartRun(c, kind, root, session))
<1> DEFINE b == StartRun(c, kind, root, session)
<1>1. Starts(c, b, kind, root)
  BY StartRunIs
<1> HIDE DEF b
<1>2. kind # "sandbox-exec" => RunsAside(c, b)
  BY <1>1 DEF Starts, RunsAside, SameRun, SameEnd
<1> QED BY <1>2, RunsAsideIs DEF b

LEMMA MaybeEndRunAside ==
    ASSUME NEW c, Sound(c), NEW r \in DOMAIN c.runs, c.runs[r].kind # "sandbox-exec"
    PROVE  Aside(c, MaybeEndRun(c, r))
<1> DEFINE b == MaybeEndRun(c, r)
<1>1. /\ b.img = c.img /\ DOMAIN b.runs = DOMAIN c.runs /\ b.tokens = c.tokens /\ b.adopted = c.adopted
      /\ \A q \in DOMAIN c.runs : q # r => b.runs[q] = c.runs[q]
      /\ b.runs[r].kind = c.runs[r].kind /\ b.runs[r].root = c.runs[r].root
  BY MaybeEndRunIs
<1> HIDE DEF b
<1>2. RunsAside(c, b)
  BY <1>1 DEF RunsAside, SameRun, SameEnd
<1> QED BY <1>2, RunsAsideIs DEF b

\* Neither an image nor a run differs.
SameMembers(c, b) == b.img = c.img /\ b.runs = c.runs /\ b.tokens = c.tokens /\ b.adopted = c.adopted

LEMMA SameMembersAside ==
    ASSUME NEW c, NEW b, Sound(c), SameMembers(c, b)
    PROVE  Aside(c, b)
<1>1. RunsAside(c, b)
  BY DEF SameMembers, RunsAside, SameRun, SameEnd
<1> QED BY <1>1, RunsAsideIs

LEMMA LeaveAside ==
    ASSUME NEW c, Sound(c), NEW p
    PROVE  SameMembers(c, Leave(c, p))
BY DEF Sound, CorrType, Leave, SameMembers

LEMMA OrphanAside ==
    ASSUME NEW c, Sound(c), NEW p
    PROVE  Aside(c, Orphan(c, p))
<1> DEFINE b == Orphan(c, p)
<1>1. SameMembers(c, b)
  BY DEF Sound, CorrType, Orphan, SameMembers
<1> HIDE DEF b
<1> QED BY <1>1, SameMembersAside DEF b

LEMMA AttributeAside ==
    ASSUME NEW c, Sound(c), NEW p \in PendingType, NEW i \in DOMAIN c.img, c.img[i].run # 0
    PROVE  Aside(c, Attribute(c, p, i))
<1> DEFINE b == Attribute(c, p, i)
           r == c.img[i].run
           y == [c.runs[r] EXCEPT !.session = IF @ = NoTag THEN p.d.tag ELSE @]
<1>1. c \in CorrType /\ r \in DOMAIN c.runs /\ c.runs[r] \in RunType
  BY BoxedOK, CorrFields DEF Sound
<1>2. SameRun(c.runs[r], y)
  BY <1>1 DEF RunType, SameRun, SameEnd
<1>3. b.img = c.img /\ b.tokens = c.tokens /\ b.adopted = c.adopted
  BY <1>1 DEF Attribute, CorrType
<1>4. b.runs = [c.runs EXCEPT ![r] = y]
  BY <1>1 DEF Attribute, CorrType
<1> HIDE DEF b, y
<1>5. RunsAside(c, b)
  BY <1>1, <1>2, <1>3, <1>4 DEF RunsAside, SameRun, SameEnd
<1> QED BY <1>5, RunsAsideIs DEF b

\* Joining a path stays in a set if each join does.
LEMMA JoinPathIn ==
    ASSUME NEW c, NEW A, c \in A, Len(c.img) \in Nat, NEW path, NEW r,
           \A b \in A : \A i \in path : Join(b, i, r) \in A
    PROVE  JoinPath(c, path, r) \in A
<1> DEFINE m == Len(c.img)
           is(f) == f = [i \in 0..m |-> IF i = 0 THEN c
                                        ELSE IF i \in path THEN Join(f[i - 1], i, r) ELSE f[i - 1]]
           after == CHOOSE f : is(f)
           turn == [x \in A \X (1..m) |-> IF x[2] \in path THEN Join(x[1], x[2], r) ELSE x[1]]
<1>1. JoinPath(c, path, r) = after[m]
  BY DEF JoinPath
<1> HIDE DEF m
<1>2. m \in Nat
  BY DEF m
<1>3. turn \in [A \X (1..m) -> A]
  <2>1. ASSUME NEW x \in A \X (1..m) PROVE (IF x[2] \in path THEN Join(x[1], x[2], r) ELSE x[1]) \in A
    OBVIOUS
  <2> QED BY <2>1
<1>4. \E f : is(f)
  <2>1. PICK f \in [0..m -> A] : IsLoop(f, m, c, turn)
    <3> HIDE DEF turn
    <3> QED BY <1>2, <1>3, LoopExists
  <2>2. ASSUME NEW n \in 0..m
        PROVE  f[n] = IF n = 0 THEN c ELSE IF n \in path THEN Join(f[n - 1], n, r) ELSE f[n - 1]
    <3>1. CASE n = 0
      BY <2>1, <3>1 DEF IsLoop
    <3>2. CASE n # 0
      <4>1. n \in 1..m /\ n - 1 \in 0..m
        BY <1>2, <3>2
      <4>2. <<f[n - 1], n>> \in A \X (1..m)
        BY <4>1
      <4>3. f[n] = turn[<<f[n - 1], n>>]
        BY <2>1, <3>2 DEF IsLoop
      <4> QED BY <3>2, <4>2, <4>3
    <3> QED BY <3>1, <3>2
  <2>3. f = [n \in 0..m |-> f[n]]
    OBVIOUS
  <2>4. is(f)
    BY <2>2, <2>3
  <2> HIDE DEF is
  <2> QED BY <2>4
<1>5. is(after)
  <2> HIDE DEF is
  <2> QED BY <1>4
<1> HIDE DEF after
<1>6. after[0] = c /\ \A n \in 1..m : after[n] = IF n \in path THEN Join(after[n - 1], n, r) ELSE after[n - 1]
  <2>1. \A i \in 0..m : after[i] = IF i = 0 THEN c ELSE IF i \in path THEN Join(after[i - 1], i, r) ELSE after[i - 1]
    BY <1>5
  <2>2. 0 \in 0..m /\ \A n \in 1..m : n \in 0..m /\ n # 0
    BY <1>2
  <2> HIDE DEF is
  <2> QED BY <2>1, <2>2
<1> HIDE DEF is
<1> DEFINE S == {n \in 0..m : after[n] \in A}
<1>7. 0 \in S
  BY <1>2, <1>6
<1>8. ASSUME NEW n \in 0..m, n # m, n \in S PROVE n + 1 \in S
  <2>1. n + 1 \in 1..m /\ (n + 1) - 1 = n
    BY <1>2, <1>8
  <2>2. after[n + 1] = IF n + 1 \in path THEN Join(after[n], n + 1, r) ELSE after[n]
    BY <1>6, <2>1
  <2>3. after[n + 1] \in A
    BY <1>8, <2>2
  <2> QED BY <1>2, <2>1, <2>3
<1>9. m \in S
  <2> HIDE DEF S
  <2>1. \A n \in 0..m : n # m /\ n \in S => n + 1 \in S
    BY <1>8
  <2>2. \A n \in 0..m : n \in S
    BY <1>2, <1>7, <2>1, Induct
  <2> QED BY <1>2, <2>2
<1> QED BY <1>1, <1>9

LEMMA JoinPathAside ==
    ASSUME NEW c, Sound(c), NEW path, path \subseteq DOMAIN c.img, NEW r \in DOMAIN c.runs,
           c.runs[r].kind # "sandbox-exec"
    PROVE  Aside(c, JoinPath(c, path, r)) /\ JoinPath(c, path, r).runs[r].kind # "sandbox-exec"
<1> DEFINE A == {b \in CorrType : /\ Becomes(c, b) /\ Kept(c, b) /\ Aside(c, b)
                                  /\ b.runs[r].kind # "sandbox-exec"}
<1>1. c \in A
  BY BecomesRefl, AsideRefl DEF Sound, Kept
<1>2. ASSUME NEW b \in A, NEW i \in path PROVE Join(b, i, r) \in A
  <2> DEFINE j == Join(b, i, r)
  <2>1. Sound(b) /\ i \in DOMAIN b.img /\ r \in DOMAIN b.runs
    BY DEF Becomes, Kept
  <2>2. Becomes(b, j) /\ Kept(b, j)
    BY <2>1, JoinSound
  <2>3. Aside(b, j) /\ j.runs[r].kind # "sandbox-exec"
    BY <2>1, JoinAside
  <2> HIDE DEF j
  <2>4. Becomes(c, j) /\ Kept(c, j)
    BY <2>2, BecomesTrans DEF Kept
  <2>5. Sound(j)
    BY <2>2 DEF Becomes
  <2>6. Aside(c, j)
    BY <2>1, <2>3, <2>5, AsideTrans
  <2> QED BY <2>3, <2>4, <2>5, <2>6 DEF j, Sound
<1> HIDE DEF A
<1>3. JoinPath(c, path, r) \in A
  BY <1>1, <1>2, JoinPathIn, CorrFields
<1> QED BY <1>3 DEF A

\* The image a path ends with is in the sandbox-exec run the path is in.
LEMMA PathBox ==
    ASSUME NEW c, Sound(c), Family(c), NEW i \in DOMAIN c.img, NEW k \in PathUp(c, i), c.img[k].execSeen, Boxed(c, k)
    PROVE  c.img[i].run = c.img[k].run
<1> DEFINE m == Len(c.img)
           is(f) == f = [j \in 0..m |-> IF j = 0 THEN {} ELSE IF c.img[j].execSeen THEN {j}
                                        ELSE {j} \cup f[c.img[j].parent]]
           up == CHOOSE f : is(f)
<1>1. PathUp(c, i) = up[i]
  BY DEF PathUp
<1>2. is(up)
  BY PathDefined
<1>3. m \in Nat /\ DOMAIN c.img = 1..m /\ \A j \in 1..m : c.img[j].parent \in Nat /\ c.img[j].parent < j
  <2>1. m \in Nat /\ DOMAIN c.img = 1..m /\ \A j \in DOMAIN c.img : c.img[j] \in ImageType
    BY CorrFields
  <2> QED BY <2>1 DEF Sound, ImageOK, ImageType
<1> HIDE DEF m, up
<1>4. /\ up[0] = {}
      /\ \A j \in 1..m : up[j] = IF c.img[j].execSeen THEN {j} ELSE {j} \cup up[c.img[j].parent]
  <2>1. \A j \in 0..m : up[j] = IF j = 0 THEN {} ELSE IF c.img[j].execSeen THEN {j}
                                 ELSE {j} \cup up[c.img[j].parent]
    BY <1>2
  <2>2. 0 \in 0..m /\ \A j \in 1..m : j \in 0..m /\ j # 0
    BY <1>3
  <2> QED BY <2>1, <2>2
<1> HIDE DEF is
<1> DEFINE good(j) == k \in up[j] => j # 0 /\ c.img[j].run = c.img[k].run
           S == {n \in 0..m : \A j \in 0..n : good(j)}
<1>5. 0 \in S
  <2>1. \A j \in 0..0 : j = 0
    OBVIOUS
  <2> QED BY <1>3, <1>4, <2>1
<1>6. ASSUME NEW l \in 0..m, l # m, l \in S PROVE l + 1 \in S
  <2> DEFINE n == l + 1
             q == c.img[n].parent
  <2>1. l \in Nat /\ n \in 1..m /\ n # 0 /\ q \in 0..l
    BY <1>3, <1>6
  <2>2. good(q)
    BY <1>6, <2>1
  <2>3. up[n] = IF c.img[n].execSeen THEN {n} ELSE {n} \cup up[q]
    BY <1>4, <2>1
  <2> HIDE DEF n, q
  <2>4. good(n)
    <3> SUFFICES ASSUME k \in up[n], k # n PROVE c.img[n].run = c.img[k].run
      BY <2>1
    <3>1. ~c.img[n].execSeen /\ k \in up[q] /\ q # 0 /\ c.img[q].run = c.img[k].run
      BY <2>2, <2>3
    <3>2. Boxed(c, q)
      BY <3>1 DEF Boxed
    <3>3. n \in DOMAIN c.img
      BY <1>3, <2>1
    <3> QED BY <3>1, <3>2, <3>3 DEF Family, Descends, q
  <2>5. \A j \in 0..n : j \in 0..l \/ j = n
    BY <2>1 DEF n
  <2> HIDE DEF good
  <2>6. \A j \in 0..n : good(j)
    BY <1>6, <2>4, <2>5
  <2>7. n \in 0..m
    BY <2>1
  <2> QED BY <2>6, <2>7 DEF n
<1>7. m \in S
  <2> HIDE DEF S
  <2>1. m \in Nat
    BY <1>3
  <2>2. \A n \in 0..m : n # m /\ n \in S => n + 1 \in S
    BY <1>6
  <2>3. \A n \in 0..m : n \in S
    BY <1>5, <2>1, <2>2, Induct
  <2> QED BY <2>1, <2>3
<1>8. good(i)
  BY <1>3, <1>7
<1> QED BY <1>1, <1>8

LEMMA CandidateRunAside ==
    ASSUME NEW c, Sound(c), Family(c), NEW i \in DOMAIN c.img, c.img[i].run = 0
    PROVE  Aside(c, CandidateRun(c, i))
<1> DEFINE path == PathUp(c, i)
           root == Only({j \in path : c.img[j].execSeen})
           known == c.img[root].run
           r == IF known # 0 THEN known ELSE Len(c.runs) + 1
           s == StartRun(c, "sandbox-init", root, NoTag)
           started == IF known # 0 THEN c ELSE s
           b == JoinPath(started, path, r)
<1>1. CandidateRun(c, i) = IF ~Eligible(c, path) \/ (known = 0 /\ AppSandboxed(c, root)) THEN c ELSE MaybeEndRun(b, r)
  BY DEF CandidateRun
<1>2. CASE ~Eligible(c, path) \/ (known = 0 /\ AppSandboxed(c, root))
  BY <1>1, <1>2, AsideRefl
<1>3. CASE Eligible(c, path) /\ ~(known = 0 /\ AppSandboxed(c, root))
  <2>1. path \subseteq DOMAIN c.img /\ \E j \in path : c.img[j].execSeen
    BY <1>3, PathUpOK
  <2>2. root \in path /\ c.img[root].execSeen
    BY <2>1 DEF Only
  <2>3. root \in DOMAIN c.img /\ root \in Nat
    BY <2>1, <2>2, CorrFields
  <2>4. ~Boxed(c, root)
    <3> HIDE DEF root
    <3>1. root \in PathUp(c, i)
      BY <2>2
    <3>2. Boxed(c, root) => c.img[i].run = c.img[root].run
      BY <2>2, <3>1, PathBox
    <3> QED BY <3>2 DEF Boxed
  <2> HIDE DEF root, path
  <2>5. known \in Nat /\ (known # 0 => known \in DOMAIN c.runs)
    BY <2>3, BoxedOK
  <2>6. known # 0 => c.runs[known].kind # "sandbox-exec"
    BY <2>4 DEF Boxed
  <2> HIDE DEF known
  <2>7. /\ Sound(started) /\ Aside(c, started) /\ started.img = c.img /\ r \in DOMAIN started.runs
        /\ started.runs[r].kind # "sandbox-exec"
    <3>1. CASE known # 0
      BY <2>5, <2>6, <3>1, AsideRefl
    <3>2. CASE known = 0
      <4>1. NoTag \in Tags
        BY DEF Tags
      <4>2. Starts(c, s, "sandbox-init", root)
        BY <2>3, <4>1, StartRunIs
      <4>3. Becomes(c, s)
        BY <2>3, <4>1, StartRunSound
      <4>4. Aside(c, s)
        BY <2>3, <4>1, StartRunAside
      <4> HIDE DEF s
      <4>5. started = s /\ r = Len(c.runs) + 1
        BY <3>2
      <4> HIDE DEF started, r
      <4> QED BY <4>2, <4>3, <4>4, <4>5 DEF Starts, Becomes
    <3> QED BY <3>1, <3>2
  <2> HIDE DEF started, r
  <2>8. path \subseteq DOMAIN started.img
    BY <2>1, <2>7
  <2>9. Becomes(started, b) /\ r \in DOMAIN b.runs
    <3>1. Becomes(started, b) /\ Kept(started, b)
      BY <2>7, <2>8, JoinPathSound
    <3> HIDE DEF b
    <3> QED BY <2>7, <3>1 DEF Kept
  <2>10. Aside(started, b) /\ b.runs[r].kind # "sandbox-exec"
    BY <2>7, <2>8, JoinPathAside
  <2> HIDE DEF b
  <2>11. Sound(b) /\ Sound(MaybeEndRun(b, r))
    BY <2>9, MaybeEndRunSound DEF Becomes
  <2>12. Aside(b, MaybeEndRun(b, r))
    BY <2>9, <2>10, <2>11, MaybeEndRunAside
  <2>13. Aside(c, b)
    BY <2>7, <2>10, <2>11, AsideTrans
  <2>14. Aside(c, MaybeEndRun(b, r))
    BY <2>11, <2>12, <2>13, AsideTrans
  <2> QED BY <1>1, <1>3, <2>14
<1> QED BY <1>2, <1>3

LEMMA RegisterAside ==
    ASSUME NEW c, Sound(c), NEW x, Fresh(x), x.noToken, x.parent = 0
    PROVE  Aside(c, Register(c, x))
<1> DEFINE b == Register(c, x)
           n == Len(c.img) + 1
<1>1. x \in ImageType /\ x.run = 0
  BY DEF Fresh
<1>2. /\ DOMAIN b.img = DOMAIN c.img \cup {n} /\ n \notin DOMAIN c.img /\ b.img[n] = x
      /\ \A j \in DOMAIN c.img : b.img[j] = c.img[j]
      /\ b.runs = c.runs /\ b.adopted = c.adopted /\ b.tokens = c.tokens
  <2>1. Registers(c, b, x)
    BY <1>1, RegisterIs
  <2> HIDE DEF b
  <2> QED BY <2>1 DEF Registers
<1> HIDE DEF b, n
<1>3. \A j \in DOMAIN c.img : SameImage(c.img[j], b.img[j]) /\ b.img[j].end = c.img[j].end
  BY <1>2 DEF SameImage
<1>4. \A j \in DOMAIN b.img \ DOMAIN c.img : b.img[j].noToken /\ b.img[j].parent = 0 /\ ~Boxed(b, j)
  BY <1>1, <1>2 DEF Boxed
<1>5. \A j \in DOMAIN c.img : (Boxed(b, j) <=> Boxed(c, j))
  BY <1>2 DEF Boxed
<1>6. \A r \in DOMAIN c.runs : SameRun(c.runs[r], b.runs[r])
  BY <1>2 DEF SameRun, SameEnd
<1>7. Aside(c, b)
  BY <1>2, <1>3, <1>4, <1>5, <1>6 DEF Aside
<1> QED BY <1>7 DEF b

LEMMA AdoptAside ==
    ASSUME NEW c, Sound(c), Family(c), NEW d \in LineType, d.tag # NoTag, NEW i \in DOMAIN c.img \cup {0}
    PROVE  Aside(c, Adopt(c, d, i))
<1> DEFINE known == c.adopted[d.tag]
           r == IF known # 0 THEN known ELSE Len(c.runs) + 1
           s == StartRun(c, "adopted", 0, d.tag)
           t == [s EXCEPT !.adopted[d.tag] = r]
           a == IF known # 0 THEN c ELSE t
           stub == [NewImage([pid |-> d.pid, ver |-> 0, prog |-> "unknown"], 0) EXCEPT !.noToken = TRUE]
           g == Register(a, stub)
           n == Len(c.img) + 1
           b == Adopt(c, d, i)
<1>1. d.tag \in Tag /\ d.tag \in Tags /\ d.pid \in Pid
  BY DEF LineType, Tags
<1>2. known \in Nat /\ known <= Len(c.runs) /\ Len(c.runs) \in Nat /\ Len(c.img) \in Nat /\ DOMAIN c.runs = 1..Len(c.runs)
  BY <1>1, CorrFields DEF Sound, CorrType
<1>3. b = IF i # 0 THEN Join(a, i, r) ELSE Join(g, n, r)
  BY DEF Adopt
<1>4. known # 0 => c.runs[known].kind = "adopted"
  BY <1>1 DEF Family, AdoptedOK
<1> HIDE DEF known
<1>5. Sound(a) /\ Aside(c, a) /\ a.img = c.img /\ r \in DOMAIN a.runs /\ a.runs[r].kind = "adopted"
  <2>1. CASE known # 0
    BY <1>2, <1>4, <2>1, AsideRefl
  <2>2. CASE known = 0
    <3>1. Starts(c, s, "adopted", 0)
      BY <1>1, StartRunIs
    <3>2. Becomes(c, s)
      BY <1>1, StartRunSound
    <3> HIDE DEF s
    <3>3. Sound(s) /\ DOMAIN s.runs = 1..Len(s.runs) /\ s \in CorrType /\ r \in Nat /\ r = Len(c.runs) + 1
      BY <1>2, <2>2, <3>2, CorrFields DEF Becomes, Sound
    <3> HIDE DEF r
    <3>4. r \in DOMAIN s.runs /\ s.runs[r].kind = "adopted" /\ s.img = c.img
      BY <3>1, <3>3 DEF Starts
    <3>5. /\ t.img = s.img /\ t.runs = s.runs /\ t.tokens = s.tokens /\ t.byPID = s.byPID /\ t.mark = s.mark
          /\ t.adopted = [s.adopted EXCEPT ![d.tag] = r]
      BY <3>3 DEF CorrType
    <3>6. t \in CorrType
      BY <1>1, <3>3 DEF CorrType
    <3> HIDE DEF t
    <3>7. Len(t.runs) \in Nat /\ r <= Len(t.runs)
      BY <3>3, <3>4, <3>5, CorrFields
    <3>8. s.adopted \in [Tag -> Nat] /\ \A u \in Tag : s.adopted[u] <= Len(s.runs)
      BY <3>3 DEF Sound, CorrType
    <3>9. \A u \in Tag : t.adopted[u] <= Len(t.runs)
      BY <1>1, <3>5, <3>7, <3>8
    <3>10. Sound(t)
      BY <3>3, <3>5, <3>6, <3>9 DEF Sound, ImageOK, RunOK
    <3>11. /\ DOMAIN c.runs \subseteq DOMAIN t.runs
           /\ \A q \in DOMAIN c.runs : t.runs[q] = c.runs[q]
           /\ t.img = c.img /\ t.tokens = c.tokens
           /\ \A q \in DOMAIN t.runs \ DOMAIN c.runs : t.runs[q].kind # "sandbox-exec"
      BY <3>1, <3>3, <3>4, <3>5 DEF Starts
    <3>12. \A u \in Tag : t.adopted[u] = c.adopted[u] \/ t.adopted[u] = r
      BY <3>1, <3>5, <3>8 DEF Starts
    <3>13. ASSUME NEW j \in DOMAIN c.img PROVE Boxed(t, j) => Boxed(c, j)
      <4>1. c.img[j].run # 0 => c.img[j].run \in DOMAIN c.runs
        BY BoxedOK
      <4> QED BY <3>11, <4>1 DEF Boxed
    <3>14. \A j \in DOMAIN c.img : SameImage(c.img[j], t.img[j])
      BY <3>11 DEF SameImage
    <3>15. \A q \in DOMAIN c.runs : SameRun(c.runs[q], t.runs[q])
      BY <3>11 DEF SameRun, SameEnd
    <3>16. Aside(c, t)
      BY <3>4, <3>5, <3>11, <3>12, <3>13, <3>14, <3>15 DEF Aside
    <3>17. a = t
      BY <2>2
    <3> HIDE DEF a
    <3> QED BY <3>4, <3>5, <3>10, <3>16, <3>17
  <2> QED BY <2>1, <2>2
<1> HIDE DEF a, r
<1>6. CASE i # 0
  <2> DEFINE j == Join(a, i, r)
  <2>1. Aside(a, j) /\ Sound(j)
    BY <1>5, <1>6, JoinAside, JoinSound DEF Becomes
  <2> HIDE DEF j
  <2>2. Aside(c, j)
    BY <1>5, <2>1, AsideTrans
  <2> QED BY <1>3, <1>6, <2>2 DEF j
<1>7. CASE i = 0
  <2>1. Fresh(stub) /\ stub.noToken /\ stub.parent = 0
    <3> DEFINE proc == [pid |-> d.pid, ver |-> 0, prog |-> "unknown"]
               x == NewImage(proc, 0)
    <3>1. proc.pid \in Pid /\ proc.ver \in Nat /\ proc.prog \in Path
      BY <1>1 DEF Path
    <3> HIDE DEF proc
    <3>2. Fresh(x) /\ x.parent = 0
      BY <3>1, NewImageFresh
    <3>3. stub = [x EXCEPT !.noToken = TRUE]
      BY DEF proc
    <3> HIDE DEF x, stub
    <3> QED BY <3>2, <3>3 DEF Fresh, ImageType
  <2> HIDE DEF stub
  <2>2. stub \in ImageType /\ stub.parent <= Len(a.img)
    BY <1>2, <1>5, <2>1 DEF Fresh
  <2>3. Aside(a, g)
    BY <1>5, <2>1, RegisterAside
  <2>4. Becomes(a, g)
    BY <1>5, <2>1, <2>2, RegisterSound
  <2>5. DOMAIN g.img = DOMAIN a.img \cup {n} /\ g.runs = a.runs
    <3>1. DOMAIN g.img = DOMAIN a.img \cup {Len(a.img) + 1} /\ g.runs = a.runs
      <4>1. Registers(a, g, stub)
        BY <1>5, <2>2, RegisterIs
      <4> HIDE DEF g
      <4> QED BY <4>1 DEF Registers
    <3> HIDE DEF g
    <3> QED BY <1>5, <3>1
  <2> HIDE DEF g
  <2> DEFINE j == Join(g, n, r)
  <2>6. Sound(g) /\ n \in DOMAIN g.img /\ r \in DOMAIN g.runs /\ g.runs[r].kind # "sandbox-exec"
    BY <1>5, <2>4, <2>5 DEF Becomes
  <2> HIDE DEF n
  <2>7. Aside(g, j) /\ Sound(j)
    BY <2>6, JoinAside, JoinSound DEF Becomes
  <2> HIDE DEF j
  <2>8. Aside(c, g)
    BY <1>5, <2>3, <2>6, AsideTrans
  <2>9. Aside(c, j)
    BY <2>6, <2>7, <2>8, AsideTrans
  <2> QED BY <1>3, <1>7, <2>9 DEF j
<1> QED BY <1>6, <1>7

\* A loop that starts in a set and never leaves it ends in it.
LEMMA LoopIn ==
    ASSUME NEW A, NEW m \in Nat, NEW f, f[0] \in A, \A n \in 1..m : f[n - 1] \in A => f[n] \in A
    PROVE  f[m] \in A
<1> DEFINE S == {n \in 0..m : f[n] \in A}
<1>1. 0 \in S
  OBVIOUS
<1>2. ASSUME NEW n \in 0..m, n # m, n \in S PROVE n + 1 \in S
  <2>1. n + 1 \in 1..m /\ (n + 1) - 1 = n /\ f[n] \in A
    BY <1>2
  <2>2. f[(n + 1) - 1] \in A => f[n + 1] \in A
    BY <2>1
  <2> QED BY <2>1, <2>2
<1> HIDE DEF S
<1>3. \A n \in 0..m : n # m /\ n \in S => n + 1 \in S
  BY <1>2
<1>4. \A n \in 0..m : n \in S
  BY <1>1, <1>3, Induct
<1> QED BY <1>4 DEF S

\* The loops of Tick and Shutdown, if a turn stays in a set.
LEMMA TickIn ==
    ASSUME NEW c, NEW A, c \in A, NEW order, Len(order) \in Nat, NEW t,
           \A b \in A : \A n \in 1..Len(order) : Retry(b, order[n], t) \in A
    PROVE  \E a \in A : Tick(c, t, order) = Evict(a, t)
<1> DEFINE m == Len(order)
           is(f) == f = [n \in 0..m |-> IF n = 0 THEN c ELSE Retry(f[n - 1], order[n], t)]
           after == CHOOSE f : is(f)
           turn == [x \in A \X (1..m) |-> Retry(x[1], order[x[2]], t)]
<1>1. Tick(c, t, order) = Evict(after[m], t)
  BY DEF Tick
<1> HIDE DEF m
<1>2. m \in Nat
  BY DEF m
<1>3. turn \in [A \X (1..m) -> A]
  <2>1. ASSUME NEW x \in A \X (1..m) PROVE Retry(x[1], order[x[2]], t) \in A
    <3>1. x[1] \in A /\ x[2] \in 1..Len(order)
      BY DEF m
    <3> QED BY <3>1
  <2> QED BY <2>1
<1>4. \E f : is(f)
  <2>1. PICK f \in [0..m -> A] : IsLoop(f, m, c, turn)
    <3> HIDE DEF turn
    <3> QED BY <1>2, <1>3, LoopExists
  <2>2. ASSUME NEW n \in 0..m PROVE f[n] = IF n = 0 THEN c ELSE Retry(f[n - 1], order[n], t)
    <3>1. CASE n = 0
      BY <2>1, <3>1 DEF IsLoop
    <3>2. CASE n # 0
      <4>1. n \in 1..m /\ n - 1 \in 0..m
        BY <1>2, <3>2
      <4>2. <<f[n - 1], n>> \in A \X (1..m)
        BY <4>1
      <4>3. f[n] = turn[<<f[n - 1], n>>]
        BY <2>1, <3>2 DEF IsLoop
      <4> QED BY <3>2, <4>2, <4>3
    <3> QED BY <3>1, <3>2
  <2>3. f = [n \in 0..m |-> f[n]]
    OBVIOUS
  <2>4. is(f)
    BY <2>2, <2>3
  <2> HIDE DEF is
  <2> QED BY <2>4
<1>5. is(after)
  <2> HIDE DEF is
  <2> QED BY <1>4
<1> HIDE DEF after
<1>6. after[0] = c /\ \A n \in 1..m : after[n] = Retry(after[n - 1], order[n], t)
  <2>1. \A n \in 0..m : after[n] = IF n = 0 THEN c ELSE Retry(after[n - 1], order[n], t)
    BY <1>5
  <2>2. 0 \in 0..m /\ \A n \in 1..m : n \in 0..m /\ n # 0
    BY <1>2
  <2> HIDE DEF is
  <2> QED BY <2>1, <2>2
<1> HIDE DEF is
<1>7. after[m] \in A
  <2>1. \A n \in 1..m : after[n - 1] \in A => after[n] \in A
    BY <1>6 DEF m
  <2> QED BY <1>2, <1>6, <2>1, LoopIn
<1> QED BY <1>1, <1>7

LEMMA ShutdownIn ==
    ASSUME NEW c, NEW A, c \in A, NEW order, Len(order) \in Nat,
           \A b \in A : \A n \in 1..Len(order) : Finalize(Leave(b, order[n]), order[n], TRUE) \in A
    PROVE  \E a \in A : Shutdown(c, order) = Closed(a)
<1> DEFINE m == Len(order)
           is(f) == f = [n \in 0..m |-> IF n = 0 THEN c ELSE Finalize(Leave(f[n - 1], order[n]), order[n], TRUE)]
           after == CHOOSE f : is(f)
           turn == [x \in A \X (1..m) |-> Finalize(Leave(x[1], order[x[2]]), order[x[2]], TRUE)]
<1>1. Shutdown(c, order) = Closed(after[m])
  BY DEF Shutdown, Closed
<1> HIDE DEF m
<1>2. m \in Nat
  BY DEF m
<1>3. turn \in [A \X (1..m) -> A]
  <2>1. ASSUME NEW x \in A \X (1..m) PROVE Finalize(Leave(x[1], order[x[2]]), order[x[2]], TRUE) \in A
    <3>1. x[1] \in A /\ x[2] \in 1..Len(order)
      BY DEF m
    <3> QED BY <3>1
  <2> QED BY <2>1
<1>4. \E f : is(f)
  <2>1. PICK f \in [0..m -> A] : IsLoop(f, m, c, turn)
    <3> HIDE DEF turn
    <3> QED BY <1>2, <1>3, LoopExists
  <2>2. ASSUME NEW n \in 0..m PROVE f[n] = IF n = 0 THEN c ELSE Finalize(Leave(f[n - 1], order[n]), order[n], TRUE)
    <3>1. CASE n = 0
      BY <2>1, <3>1 DEF IsLoop
    <3>2. CASE n # 0
      <4>1. n \in 1..m /\ n - 1 \in 0..m
        BY <1>2, <3>2
      <4>2. <<f[n - 1], n>> \in A \X (1..m)
        BY <4>1
      <4>3. f[n] = turn[<<f[n - 1], n>>]
        BY <2>1, <3>2 DEF IsLoop
      <4> QED BY <3>2, <4>2, <4>3
    <3> QED BY <3>1, <3>2
  <2>3. f = [n \in 0..m |-> f[n]]
    OBVIOUS
  <2>4. is(f)
    BY <2>2, <2>3
  <2> HIDE DEF is
  <2> QED BY <2>4
<1>5. is(after)
  <2> HIDE DEF is
  <2> QED BY <1>4
<1> HIDE DEF after
<1>6. after[0] = c /\ \A n \in 1..m : after[n] = Finalize(Leave(after[n - 1], order[n]), order[n], TRUE)
  <2>1. \A n \in 0..m : after[n] = IF n = 0 THEN c ELSE Finalize(Leave(after[n - 1], order[n]), order[n], TRUE)
    BY <1>5
  <2>2. 0 \in 0..m /\ \A n \in 1..m : n \in 0..m /\ n # 0
    BY <1>2
  <2> HIDE DEF is
  <2> QED BY <2>1, <2>2
<1> HIDE DEF is
<1>7. after[m] \in A
  <2>1. \A n \in 1..m : after[n - 1] \in A => after[n] \in A
    BY <1>6 DEF m
  <2> QED BY <1>2, <1>6, <2>1, LoopIn
<1> QED BY <1>1, <1>7

LEMMA FinalizeAside ==
    ASSUME NEW c0, Sound(c0), Family(c0), NEW p \in PendingType, NEW classify \in BOOLEAN
    PROVE  Aside(c0, Finalize(c0, p, classify))
<1> DEFINE c == [c0 EXCEPT !.lastPending[KeyOf(p.d)] = IF @ = p.d.id THEN 0 ELSE @]
           i == Resolve(c, p.d.pid, p.d.time)
           a == Adopt(c, p.d, i)
           j == IF i # 0 THEN i ELSE Len(c.img) + 1
           n == CandidateRun(c, i)
           b == Finalize(c0, p, classify)
<1>1. b = IF i # 0 /\ c.img[i].run # 0 THEN Attribute(c, p, i)
          ELSE IF classify /\ p.d.tag # NoTag THEN Attribute(a, p, j)
          ELSE IF i # 0 /\ classify /\ n.img[i].run # 0 THEN Attribute(n, p, i)
          ELSE Orphan(c, p)
  BY DEF Finalize
<1>2. Sound(c)
  BY ForgetSound
<1>3. SameMembers(c0, c)
  BY DEF Sound, CorrType, SameMembers
<1> HIDE DEF c
<1>4. Aside(c0, c)
  BY <1>3, SameMembersAside
<1>5. Family(c)
  BY <1>4, AsideFamily
<1>6. i \in DOMAIN c.img \cup {0}
  BY <1>2, ResolveOK
<1> HIDE DEF i
<1>7. ASSUME NEW x, Becomes(c, x), Aside(c, x), NEW y \in DOMAIN x.img, x.img[y].run # 0
      PROVE  Aside(c0, Attribute(x, p, y))
  <2> DEFINE z == Attribute(x, p, y)
  <2>1. Sound(x)
    BY <1>7 DEF Becomes
  <2>2. Sound(z)
    BY <1>7, <2>1, AttributeSound
  <2>3. Aside(x, z)
    BY <1>7, <2>1, AttributeAside
  <2> HIDE DEF z
  <2>4. Aside(c, z)
    BY <1>2, <1>7, <2>1, <2>2, <2>3, AsideTrans
  <2>5. Aside(c0, z)
    BY <1>2, <1>4, <2>2, <2>4, AsideTrans
  <2> QED BY <2>5 DEF z
<1>8. CASE i # 0 /\ c.img[i].run # 0
  BY <1>1, <1>2, <1>6, <1>7, <1>8, BecomesRefl, AsideRefl
<1>9. CASE ~(i # 0 /\ c.img[i].run # 0) /\ classify /\ p.d.tag # NoTag
  <2>1. p.d \in LineType
    BY DEF PendingType
  <2>2. Becomes(c, a) /\ j \in DOMAIN a.img /\ a.img[j].run # 0
    BY <1>2, <1>6, <1>9, <2>1, AdoptSound
  <2>3. Aside(c, a)
    BY <1>2, <1>5, <1>6, <1>9, <2>1, AdoptAside
  <2> HIDE DEF a, j
  <2>4. Aside(c0, Attribute(a, p, j))
    BY <1>7, <2>2, <2>3
  <2> QED BY <1>1, <1>9, <2>4
<1>10. CASE /\ ~(i # 0 /\ c.img[i].run # 0) /\ ~(classify /\ p.d.tag # NoTag)
            /\ i # 0 /\ classify /\ n.img[i].run # 0
  <2>1. Becomes(c, n)
    BY <1>2, <1>6, <1>10, CandidateRunSound
  <2>2. Aside(c, n)
    BY <1>2, <1>5, <1>6, <1>10, CandidateRunAside
  <2> HIDE DEF n
  <2>3. i \in DOMAIN n.img
    BY <1>6, <1>10, <2>2 DEF Aside
  <2>4. Aside(c0, Attribute(n, p, i))
    BY <1>7, <1>10, <2>1, <2>2, <2>3
  <2> QED BY <1>1, <1>10, <2>4
<1>11. CASE /\ ~(i # 0 /\ c.img[i].run # 0) /\ ~(classify /\ p.d.tag # NoTag)
            /\ ~(i # 0 /\ classify /\ n.img[i].run # 0)
  <2> DEFINE x == Orphan(c, p)
  <2>1. Aside(c, x) /\ Sound(x)
    BY <1>2, OrphanAside, OrphanSound
  <2> HIDE DEF x
  <2>2. Aside(c0, x)
    BY <1>2, <1>4, <2>1, AsideTrans
  <2> HIDE DEF b, a, n, j
  <2> QED BY <1>1, <1>11, <2>2 DEF x, b
<1> HIDE DEF a, n, j
<1> QED BY <1>8, <1>9, <1>10, <1>11

\* A turn of the loops keeps what is said of c, for the images and runs.
Still(c, b) == Sound(b) /\ Family(b) /\ Aside(c, b)

LEMMA StillTrans ==
    ASSUME NEW c, Sound(c), NEW a, Still(c, a), NEW b, Sound(b), Aside(a, b)
    PROVE  Still(c, b)
<1>1. Aside(c, b)
  BY AsideTrans DEF Still
<1>2. Family(b)
  BY AsideFamily DEF Still
<1> QED BY <1>1, <1>2 DEF Still

LEMMA DecideAside ==
    ASSUME NEW c, Sound(c), Family(c), NEW p \in PendingType, NEW classify \in BOOLEAN
    PROVE  Aside(c, Finalize(Leave(c, p), p, classify)) /\ Sound(Finalize(Leave(c, p), p, classify))
<1> DEFINE a == Leave(c, p)
           b == Finalize(a, p, classify)
<1>1. Sound(b)
  BY DecideSound DEF Turn
<1>2. Sound(a) /\ Aside(c, a)
  BY LeaveSound, LeaveAside, SameMembersAside
<1> HIDE DEF a
<1>3. Family(a)
  BY <1>2, AsideFamily
<1>4. Aside(a, b)
  BY <1>2, <1>3, FinalizeAside
<1> HIDE DEF b
<1>5. Aside(c, b)
  BY <1>1, <1>2, <1>4, AsideTrans
<1> QED BY <1>1, <1>5 DEF a, b

LEMMA RetryAside ==
    ASSUME NEW c, Sound(c), Family(c), NEW p \in PendingType, NEW t \in Nat
    PROVE  Aside(c, Retry(c, p, t)) /\ Sound(Retry(c, p, t))
<1> DEFINE waited == t - p.arrived
           caught == CaughtUp(c, p.d.time)
           i == Resolve(c, p.d.pid, p.d.time)
           a == Leave(c, p)
           b == Retry(c, p, t)
<1>1. b = IF caught /\ waited >= Buffer THEN Finalize(a, p, TRUE)
          ELSE IF waited >= LagCap THEN Finalize(a, p, FALSE)
          ELSE IF caught /\ i # 0 /\ c.img[i].run # 0 THEN Attribute(a, p, i)
          ELSE c
  BY DEF Retry
<1>2. Sound(a) /\ a.img = c.img /\ Aside(c, a)
  BY LeaveSound, LeaveAside, SameMembersAside
<1>3. \A f \in BOOLEAN : Aside(c, Finalize(a, p, f))
  BY DecideAside
<1>4. Sound(b)
  BY RetrySound DEF Turn
<1> HIDE DEF a
<1>5. i # 0 /\ c.img[i].run # 0 => Aside(c, Attribute(a, p, i))
  <2> SUFFICES ASSUME i # 0, c.img[i].run # 0 PROVE Aside(c, Attribute(a, p, i))
    OBVIOUS
  <2>1. i \in DOMAIN a.img /\ a.img[i].run # 0
    BY <1>2, ResolveOK
  <2> HIDE DEF i
  <2> DEFINE x == Attribute(a, p, i)
  <2>2. Aside(a, x) /\ Sound(x)
    BY <1>2, <2>1, AttributeAside, AttributeSound
  <2> HIDE DEF x
  <2>3. Aside(c, x)
    BY <1>2, <2>2, AsideTrans
  <2> QED BY <2>3 DEF x
<1>6. Aside(c, c)
  BY AsideRefl
<1> HIDE DEF b, caught, waited, i
<1> QED BY <1>1, <1>3, <1>4, <1>5, <1>6 DEF b

LEMMA HandleDenialAside ==
    ASSUME NEW c, Sound(c), NEW d \in LineType, NEW t \in Nat
    PROVE  Aside(c, HandleDenial(c, d, t))
<1> DEFINE k == KeyOf(d)
           sd == c.lastStored[k]
           p == [d |-> d, count |-> 1, arrived |-> t, ids |-> {d.id}]
           i == Resolve(c, d.pid, d.time)
           b == HandleDenial(c, d, t)
           more(q) == IF q.d.id = c.lastPending[k] THEN [q EXCEPT !.count = @ + 1, !.ids = @ \cup {d.id}] ELSE q
           b1 == [c EXCEPT !.pend = {more(q) : q \in @}]
           b2 == [c EXCEPT !.denials[sd.row].count = @ + 1, !.denials[sd.row].ids = @ \cup {d.id}]
           b3 == [c EXCEPT !.orphans[c.lastOrphan[k]].count = @ + 1, !.orphans[c.lastOrphan[k]].ids = @ \cup {d.id}]
           b4 == Attribute(c, p, i)
           b5 == [c EXCEPT !.pend = @ \cup {p}, !.lastPending[k] = d.id]
<1>1. c \in CorrType /\ d.id \in Nat
  BY DEF Sound, LineType
<1>2. b = IF d.duplicate /\ c.lastPending[k] # 0 THEN b1
          ELSE IF d.duplicate /\ sd.row # 0 /\ IsCurrent(c, sd.img) THEN b2
          ELSE IF d.duplicate /\ c.lastOrphan[k] # 0 THEN b3
          ELSE IF CaughtUp(c, d.time) /\ i # 0 /\ c.img[i].run # 0 THEN b4
          ELSE b5
  BY DEF HandleDenial
<1>3. p \in PendingType
  BY <1>1 DEF PendingType
<1>4. SameMembers(c, b1)
  <2> HIDE DEF k
  <2> QED BY <1>1 DEF CorrType, SameMembers
<1>5. SameMembers(c, b2)
  <2> HIDE DEF sd
  <2> QED BY <1>1 DEF CorrType, SameMembers
<1>6. SameMembers(c, b3)
  <2> DEFINE o == c.lastOrphan[k]
  <2> HIDE DEF o
  <2> QED BY <1>1 DEF CorrType, SameMembers
<1>7. SameMembers(c, b5)
  <2> HIDE DEF k, p
  <2> QED BY <1>1 DEF CorrType, SameMembers
<1>8. i # 0 /\ c.img[i].run # 0 => Aside(c, b4)
  <2> SUFFICES ASSUME i # 0, c.img[i].run # 0 PROVE Aside(c, b4)
    OBVIOUS
  <2>1. i \in DOMAIN c.img
    BY ResolveOK
  <2> HIDE DEF i, p
  <2> QED BY <1>3, <2>1, AttributeAside
<1> HIDE DEF b, b1, b2, b3, b4, b5, sd, k, i
<1> QED BY <1>2, <1>4, <1>5, <1>6, <1>7, <1>8, SameMembersAside DEF b

LEMMA EvictAside ==
    ASSUME NEW c, Sound(c), NEW t
    PROVE  Aside(c, Evict(c, t))
<1> DEFINE gone == {i \in 1..Len(c.img) : c.img[i].end # NoTime /\ c.img[i].end < t - Retention}
           b == Evict(c, t)
<1>1. /\ b.img = c.img /\ b.tokens = c.tokens \ gone /\ b.adopted = c.adopted /\ b.runs = c.runs
  BY DEF Evict, Sound, CorrType
<1>2. \A i \in gone : c.img[i].end # NoTime
  OBVIOUS
<1> HIDE DEF b, gone
<1>3. \A i \in DOMAIN c.img : SameImage(c.img[i], b.img[i]) /\ (Boxed(b, i) <=> Boxed(c, i))
  BY <1>1 DEF SameImage, Boxed
<1>4. \A r \in DOMAIN c.runs : SameRun(c.runs[r], b.runs[r])
  BY <1>1 DEF SameRun, SameEnd
<1>5. Aside(c, b)
  BY <1>1, <1>2, <1>3, <1>4 DEF Aside
<1> QED BY <1>5 DEF b

LEMMA TickAside ==
    ASSUME NEW c, Sound(c), Family(c), IsFiniteSet(c.pend), NEW t \in Nat, NEW order \in Orders(c)
    PROVE  Still(c, Tick(c, t, order))
<1> DEFINE A == {b \in CorrType : Still(c, b)}
<1>1. c \in A
  BY AsideRefl DEF Sound, Still
<1>2. Len(order) \in Nat /\ \A n \in 1..Len(order) : order[n] \in PendingType
  BY OrderOK DEF Sound, CorrType
<1>3. ASSUME NEW b \in A, NEW n \in 1..Len(order) PROVE Retry(b, order[n], t) \in A
  <2> DEFINE j == Retry(b, order[n], t)
  <2>1. Sound(b) /\ Family(b) /\ Still(c, b)
    BY DEF Still
  <2>2. Aside(b, j) /\ Sound(j)
    BY <1>2, <2>1, RetryAside
  <2> HIDE DEF j
  <2>3. Still(c, j)
    BY <2>1, <2>2, StillTrans
  <2> QED BY <2>2, <2>3 DEF j, Sound
<1> HIDE DEF A
<1>4. PICK a \in A : Tick(c, t, order) = Evict(a, t)
  BY <1>1, <1>2, <1>3, TickIn
<1>5. Still(c, a) /\ Sound(a)
  BY DEF A, Still
<1>6. Sound(Evict(a, t)) /\ Aside(a, Evict(a, t))
  BY <1>5, EvictSound, EvictAside
<1> QED BY <1>4, <1>5, <1>6, StillTrans

LEMMA ShutdownAside ==
    ASSUME NEW c, Sound(c), Family(c), IsFiniteSet(c.pend), NEW order \in Orders(c)
    PROVE  \E a : Still(c, a) /\ Shutdown(c, order) = Closed(a)
<1> DEFINE A == {b \in CorrType : Still(c, b)}
<1>1. c \in A
  BY AsideRefl DEF Sound, Still
<1>2. Len(order) \in Nat /\ \A n \in 1..Len(order) : order[n] \in PendingType
  BY OrderOK DEF Sound, CorrType
<1>3. ASSUME NEW b \in A, NEW n \in 1..Len(order) PROVE Finalize(Leave(b, order[n]), order[n], TRUE) \in A
  <2> DEFINE j == Finalize(Leave(b, order[n]), order[n], TRUE)
  <2>1. Sound(b) /\ Family(b) /\ Still(c, b)
    BY DEF Still
  <2>2. Aside(b, j) /\ Sound(j)
    BY <1>2, <2>1, DecideAside
  <2> HIDE DEF j
  <2>3. Still(c, j)
    BY <2>1, <2>2, StillTrans
  <2> QED BY <2>2, <2>3 DEF j, Sound
<1> HIDE DEF A
<1>4. PICK a \in A : Shutdown(c, order) = Closed(a)
  BY <1>1, <1>2, <1>3, ShutdownIn
<1> QED BY <1>4 DEF A

-----------------------------------------------------------------------------
(* What an event changes *)

\* From c to b, as the machine goes from v to w, only the image i and the run r are touched, and only i's
\* process; i and r may be new.
Touches(c, b, v, w, i, r) ==
    LET t == TokenOf(b.img[i])
    IN  /\ DOMAIN c.img \subseteq DOMAIN b.img /\ DOMAIN b.img \subseteq DOMAIN c.img \cup {i}
        /\ DOMAIN c.runs \subseteq DOMAIN b.runs /\ DOMAIN b.runs \subseteq DOMAIN c.runs \cup {r}
        /\ \A j \in DOMAIN c.img \ {i} : b.img[j] = c.img[j] /\ (~c.img[j].noToken => TokenOf(c.img[j]) # t)
        /\ i \in DOMAIN b.img /\ ~b.img[i].noToken
        /\ i \in DOMAIN c.img => SameImage(c.img[i], b.img[i]) /\ c.img[i].run \in {0, r}
        /\ \A q \in DOMAIN c.runs \ {r} : b.runs[q] = c.runs[q]
        /\ r \in DOMAIN c.runs => /\ b.runs[r].kind = c.runs[r].kind /\ b.runs[r].root = c.runs[r].root
                                  /\ b.runs[r].live \ {i} = c.runs[r].live \ {i}
                                  /\ c.runs[r].lastEnd <= b.runs[r].lastEnd
        /\ c.tokens \subseteq b.tokens /\ b.tokens \subseteq c.tokens \cup {i}
        /\ v.top \in Nat /\ w.top \in Nat /\ v.top <= w.top
        /\ w.alive \ {t} = v.alive \ {t}
        /\ {x \in w.box : x[1] # t} = {x \in v.box : x[1] # t}

\* What is then left to show.
Right(b, w, i, r) ==
    /\ ImageKnown(b, w, i) /\ MemberKnown(b, w, i)
    /\ \A x \in w.box : x[1] = TokenOf(b.img[i]) => HasImage(b, x)
    /\ r \in DOMAIN b.runs /\ b.runs[r].kind = "sandbox-exec" => BoxRunOK(b, r)

LEMMA TouchAgrees ==
    ASSUME NEW c, Sound(c), NEW b, Sound(b), NEW v, NEW w, NEW i, NEW r, Agrees(c, v),
           Touches(c, b, v, w, i, r), Right(b, w, i, r)
    PROVE  Agrees(b, w)
<1> DEFINE t == TokenOf(b.img[i])
<1> HIDE DEF t
<1>1. ASSUME NEW q \in DOMAIN c.runs, c.runs[q].kind = "sandbox-exec"
      PROVE  /\ q \in DOMAIN b.runs /\ b.runs[q].kind = "sandbox-exec" /\ b.runs[q].root = c.runs[q].root
             /\ c.runs[q].root \in DOMAIN c.img /\ BoxOf(b, q) = BoxOf(c, q)
  <2>1. q \in DOMAIN b.runs /\ b.runs[q].kind = "sandbox-exec" /\ b.runs[q].root = c.runs[q].root
    BY <1>1 DEF Touches
  <2>2. c.runs[q].root \in DOMAIN c.img
    BY <1>1 DEF Agrees, BoxRunOK
  <2>3. SameImage(c.img[c.runs[q].root], b.img[c.runs[q].root])
    BY <2>2 DEF Touches, SameImage
  <2> QED BY <2>1, <2>2, <2>3 DEF BoxOf, TokenOf, SameImage
<1>2. ASSUME NEW j \in DOMAIN b.img, j # i
      PROVE  /\ j \in DOMAIN c.img /\ b.img[j] = c.img[j] /\ (~c.img[j].noToken => TokenOf(c.img[j]) # t)
             /\ (c.img[j].run # 0 => c.img[j].run \in DOMAIN c.runs)
  <2>1. j \in DOMAIN c.img
    BY <1>2 DEF Touches
  <2> QED BY <1>2, <2>1, BoxedOK DEF Touches, t
<1>3. ASSUME NEW j \in DOMAIN c.img, j # i, Boxed(c, j)
      PROVE  /\ j \in DOMAIN b.img /\ Boxed(b, j) /\ c.img[j].run \in DOMAIN c.runs /\ b.img[j] = c.img[j]
             /\ BoxOf(b, c.img[j].run) = BoxOf(c, c.img[j].run)
  <2>1. j \in DOMAIN b.img /\ b.img[j] = c.img[j]
    BY <1>3 DEF Touches
  <2>2. c.img[j].run \in DOMAIN c.runs /\ c.runs[c.img[j].run].kind = "sandbox-exec"
    BY <1>3, BoxedOK DEF Boxed
  <2> QED BY <1>1, <1>3, <2>1, <2>2 DEF Boxed
<1>4. ASSUME NEW j \in DOMAIN b.img, j # i, Boxed(b, j) PROVE Boxed(c, j)
  <2>1. c.img[j].run \in DOMAIN c.runs /\ b.img[j].run = c.img[j].run
    BY <1>2, <1>4 DEF Boxed
  <2>2. b.runs[c.img[j].run].kind = c.runs[c.img[j].run].kind
    BY <2>1 DEF Touches
  <2> QED BY <1>4, <2>1, <2>2 DEF Boxed
<1>5. ASSUME NEW j \in DOMAIN b.img PROVE ImageKnown(b, w, j)
  <2>1. CASE j = i
    BY <2>1 DEF Right
  <2>2. CASE j # i
    <3> SUFFICES ASSUME ~b.img[j].noToken PROVE ImageKnown(b, w, j)
      BY DEF ImageKnown
    <3>1. ImageKnown(c, v, j) /\ b.img[j] = c.img[j] /\ TokenOf(c.img[j]) # t
      BY <1>2, <2>2 DEF Agrees
    <3>2. TokenOf(c.img[j]) \in v.alive <=> TokenOf(c.img[j]) \in w.alive
      BY <3>1 DEF Touches, t
    <3>3. c.img[j].ver \in 1..w.top
      BY <3>1 DEF ImageKnown, Touches
    <3> QED BY <3>1, <3>2, <3>3 DEF ImageKnown, Touches
  <2> QED BY <2>1, <2>2
<1>6. ASSUME NEW j \in DOMAIN b.img PROVE MemberKnown(b, w, j)
  <2>1. CASE j = i
    BY <2>1 DEF Right
  <2>2. CASE j # i
    <3> SUFFICES ASSUME Boxed(b, j) PROVE MemberKnown(b, w, j)
      BY DEF MemberKnown
    <3> DEFINE q == c.img[j].run
    <3>1. Boxed(c, j) /\ j \in DOMAIN c.img /\ b.img[j] = c.img[j] /\ q \in DOMAIN c.runs /\ BoxOf(b, q) = BoxOf(c, q)
      BY <1>2, <1>3, <1>4, <2>2
    <3>2. MemberKnown(c, v, j)
      BY <3>1 DEF Agrees
    <3>3. /\ ~c.img[j].noToken /\ c.img[j].row # "watch_stopped"
          /\ c.img[j].end = NoTime <=> j \in c.runs[q].live
          /\ c.img[j].end = NoTime => <<TokenOf(c.img[j]), BoxOf(c, q)>> \in v.box
          /\ c.img[j].end <= c.runs[q].lastEnd
      BY <3>1, <3>2 DEF MemberKnown
    <3>4. c.img[j].end = NoTime => <<TokenOf(c.img[j]), BoxOf(c, q)>> \in w.box
      <4> DEFINE x == <<TokenOf(c.img[j]), BoxOf(c, q)>>
      <4>1. x[1] # t
        BY <1>2, <2>2, <3>3
      <4> HIDE DEF x
      <4>2. x \in v.box => x \in w.box
        BY <4>1 DEF Touches, t
      <4> QED BY <3>3, <4>2 DEF x
    <3>5. (j \in b.runs[q].live <=> j \in c.runs[q].live) /\ c.runs[q].lastEnd <= b.runs[q].lastEnd
      <4>1. CASE q = r
        BY <2>2, <3>1, <4>1 DEF Touches
      <4>2. CASE q # r
        <5>1. b.runs[q] = c.runs[q] /\ c.runs[q].lastEnd \in Nat
          BY <3>1, <4>2, CorrFields DEF Touches, RunType
        <5> QED BY <5>1
      <4> QED BY <4>1, <4>2
    <3>6. c.img[j].end <= b.runs[q].lastEnd
      <4>1. c.img[j].end \in Int /\ c.runs[q].lastEnd \in Int /\ b.runs[q].lastEnd \in Int
        <5>1. q \in DOMAIN b.runs
          BY <3>1 DEF Touches
        <5>2. c.img[j] \in ImageType
          BY <3>1, CorrFields
        <5>3. c.runs[q] \in RunType
          BY <3>1, CorrFields
        <5>4. b.runs[q] \in RunType
          BY <5>1, CorrFields
        <5> QED BY <5>2, <5>3, <5>4 DEF ImageType, RunType, NoTime
      <4> QED BY <3>3, <3>5, <4>1
    <3> HIDE DEF q
    <3>7. b.img[j].run = q
      BY <3>1 DEF q
    <3> QED BY <3>1, <3>3, <3>4, <3>5, <3>6, <3>7 DEF MemberKnown
  <2> QED BY <2>1, <2>2
<1>7. \A j \in b.tokens : ~b.img[j].noToken
  <2>1. c.tokens \subseteq DOMAIN c.img /\ b.tokens \subseteq DOMAIN b.img
    BY DEF Sound
  <2>2. \A j \in c.tokens : ~c.img[j].noToken
    BY DEF Agrees
  <2> QED BY <1>2, <2>1, <2>2 DEF Touches
<1>8. Distinct(b)
  <2> SUFFICES ASSUME NEW j \in DOMAIN b.img, NEW k \in DOMAIN b.img, ~b.img[j].noToken, ~b.img[k].noToken,
                      TokenOf(b.img[j]) = TokenOf(b.img[k])
               PROVE  j = k
    BY DEF Distinct
  <2>1. CASE j = i \/ k = i
    BY <1>2, <2>1 DEF t
  <2>2. CASE j # i /\ k # i
    BY <1>2, <2>2 DEF Agrees, Distinct
  <2> QED BY <2>1, <2>2
<1>9. ASSUME NEW x \in w.box PROVE HasImage(b, x)
  <2>1. CASE x[1] = t
    BY <2>1 DEF Right, t
  <2>2. CASE x[1] # t
    <3>1. x \in v.box
      BY <2>2 DEF Touches, t
    <3>2. PICK j \in DOMAIN c.img : /\ ~c.img[j].noToken /\ TokenOf(c.img[j]) = x[1] /\ c.img[j].end = NoTime
                                    /\ Boxed(c, j) /\ BoxOf(c, c.img[j].run) = x[2]
      BY <3>1 DEF Agrees, HasImage
    <3>3. j # i
      <4> SUFFICES ASSUME j = i PROVE FALSE
        OBVIOUS
      <4>1. SameImage(c.img[i], b.img[i])
        BY <3>2 DEF Touches
      <4>2. TokenOf(c.img[i]) = t
        BY <4>1 DEF SameImage, TokenOf, t
      <4> QED BY <2>2, <3>2, <4>2
    <3>4. j \in DOMAIN b.img /\ Boxed(b, j) /\ b.img[j] = c.img[j] /\ BoxOf(b, c.img[j].run) = BoxOf(c, c.img[j].run)
      BY <1>3, <3>2, <3>3
    <3> QED BY <3>2, <3>4 DEF HasImage
  <2> QED BY <2>1, <2>2
<1>10. ASSUME NEW q \in DOMAIN b.runs, b.runs[q].kind = "sandbox-exec" PROVE BoxRunOK(b, q)
  <2>1. CASE q = r
    BY <1>10, <2>1 DEF Right
  <2>2. CASE q # r
    <3>1. q \in DOMAIN c.runs /\ b.runs[q] = c.runs[q]
      BY <2>2 DEF Touches
    <3>2. BoxRunOK(c, q) /\ q # 0
      BY <1>10, <3>1, CorrFields DEF Agrees
    <3>3. ASSUME NEW j \in DOMAIN c.img, c.img[j].run = q PROVE j \in DOMAIN b.img /\ b.img[j] = c.img[j]
      <4>1. j # i
        BY <2>2, <3>2, <3>3 DEF Touches
      <4> QED BY <4>1 DEF Touches
    <3> QED BY <3>1, <3>2, <3>3 DEF BoxRunOK
  <2> QED BY <2>1, <2>2
<1> QED BY <1>5, <1>6, <1>7, <1>8, <1>9, <1>10 DEF Agrees

\* c has no image of the process t.
Unknown(c, t) == \A i \in DOMAIN c.img : ~c.img[i].noToken => TokenOf(c.img[i]) # t

\* From v to w the process t is born; it enters the sandbox-exec o.
Born(v, w, t) ==
    /\ w.box = v.box /\ w.alive = v.alive \cup {t} /\ v.top \in Nat /\ w.top \in Nat /\ v.top <= w.top
    /\ t[2] \in 1..w.top
Enters(v, w, t, o) ==
    w.box = v.box \cup {<<t, o>>} /\ w.alive = v.alive /\ w.top = v.top /\ v.top \in Nat

LEMMA RegisterAgrees ==
    ASSUME NEW c, Sound(c), NEW v, Agrees(c, v), NEW x, Fresh(x), ~x.noToken, x.parent <= Len(c.img),
           Unknown(c, TokenOf(x)), NEW w, Born(v, w, TokenOf(x))
    PROVE  Agrees(Register(c, x), w)
<1> DEFINE b == Register(c, x)
           n == Len(c.img) + 1
           t == TokenOf(x)
<1>1. x \in ImageType /\ x.run = 0 /\ x.end = NoTime /\ x.ver = t[2]
  BY DEF Fresh, TokenOf
<1>2. /\ DOMAIN b.img = DOMAIN c.img \cup {n} /\ n \notin DOMAIN c.img /\ b.img[n] = x
      /\ \A j \in DOMAIN c.img : b.img[j] = c.img[j]
      /\ b.runs = c.runs /\ b.tokens = c.tokens \cup {n}
  <2>1. Registers(c, b, x)
    BY <1>1, RegisterIs
  <2> HIDE DEF b
  <2> QED BY <2>1 DEF Registers
<1>3. Sound(b)
  BY RegisterSound DEF Becomes
<1> HIDE DEF b, n
<1>4. Touches(c, b, v, w, n, 0)
  <2>1. \A j \in DOMAIN c.img : ~c.img[j].noToken => TokenOf(c.img[j]) # t
    BY DEF Unknown
  <2>2. 0 \notin DOMAIN c.runs
    BY CorrFields
  <2> HIDE DEF t
  <2> QED BY <1>2, <2>1, <2>2 DEF Touches, Born, t
<1>5. Right(b, w, n, 0)
  <2>1. ImageKnown(b, w, n)
    BY <1>1, <1>2 DEF ImageKnown, Born
  <2>2. MemberKnown(b, w, n)
    BY <1>1, <1>2 DEF MemberKnown, Boxed
  <2>3. ASSUME NEW y \in w.box, y[1] = t PROVE FALSE
    <3>1. HasImage(c, y)
      BY DEF Born, Agrees
    <3> QED BY <2>3, <3>1 DEF HasImage, Unknown
  <2>4. 0 \notin DOMAIN b.runs
    BY <1>3, CorrFields
  <2> QED BY <1>2, <2>1, <2>2, <2>3, <2>4 DEF Right
<1>6. Agrees(b, w)
  BY <1>3, <1>4, <1>5, TouchAgrees
<1> QED BY <1>6 DEF b

\* An image joins the run of a sandbox-exec that has not ended.
LEMMA JoinAgrees ==
    ASSUME NEW c, Sound(c), NEW v, Agrees(c, v), NEW n \in DOMAIN c.img, c.img[n].run = 0, c.img[n].end = NoTime,
           ~c.img[n].noToken, NEW r \in DOMAIN c.runs, c.runs[r].kind = "sandbox-exec", ~c.runs[r].ended,
           NEW w, Enters(v, w, TokenOf(c.img[n]), BoxOf(c, r))
    PROVE  Agrees(Join(c, n, r), w)
<1> DEFINE b == Join(c, n, r)
           t == TokenOf(c.img[n])
           o == BoxOf(c, r)
<1>1. /\ Changes(c, b, n, r) /\ b.img[n].run = r /\ b.img[n].end = NoTime /\ SameEnd(c.runs[r], b.runs[r])
      /\ b.img[n].row = "open" /\ b.runs[r].live = c.runs[r].live \cup {n} /\ b.runs[r].lastEnd = c.runs[r].lastEnd
  BY JoinIs
<1>2. Sound(b)
  BY JoinSound DEF Becomes
<1> HIDE DEF b
<1>3. c.runs[r] \in RunType /\ r \in Nat /\ r # 0 /\ b.runs[r] \in RunType
  BY <1>1, <1>2, CorrFields DEF Changes
<1>4. TokenOf(b.img[n]) = t /\ ~b.img[n].noToken /\ b.img[n].ver = c.img[n].ver
  BY <1>1 DEF Changes, SameImage, TokenOf
<1>5. BoxOf(b, r) = o
  <2>1. c.runs[r].root \in DOMAIN c.img
    BY DEF Agrees, BoxRunOK
  <2>2. SameImage(c.img[c.runs[r].root], b.img[c.runs[r].root]) /\ b.runs[r].root = c.runs[r].root
    BY <1>1, <2>1 DEF Changes, SameImage
  <2> QED BY <2>2 DEF BoxOf, TokenOf, SameImage
<1> HIDE DEF t, o
<1>6. \A j \in DOMAIN c.img \ {n} : ~c.img[j].noToken => TokenOf(c.img[j]) # t
  BY DEF Agrees, Distinct, t
<1>7. \A y \in w.box : y \in v.box \/ y = <<t, o>>
  BY DEF Enters, t, o
<1>8. <<t, o>>[1] = t /\ <<t, o>>[2] = o /\ <<t, o>> \in w.box
  BY DEF Enters, t, o
<1>9. Touches(c, b, v, w, n, r)
  <2>1. b.runs[r].live \ {n} = c.runs[r].live \ {n} /\ c.runs[r].lastEnd <= b.runs[r].lastEnd
    BY <1>1, <1>3 DEF RunType
  <2>2. {y \in w.box : y[1] # t} = {y \in v.box : y[1] # t}
    BY <1>7, <1>8 DEF Enters
  <2>3. w.alive = v.alive /\ w.top = v.top /\ v.top \in Nat
    BY DEF Enters
  <2>4. \A j \in DOMAIN c.img \ {n} : b.img[j] = c.img[j] /\ (~c.img[j].noToken => TokenOf(c.img[j]) # t)
    BY <1>1, <1>6 DEF Changes
  <2> QED BY <1>1, <1>4, <2>1, <2>2, <2>3, <2>4 DEF Touches, Changes
<1>10. Right(b, w, n, r)
  <2>1. ImageKnown(b, w, n)
    <3>1. ImageKnown(c, v, n)
      BY DEF Agrees
    <3> QED BY <1>1, <1>4, <3>1 DEF ImageKnown, Enters, Changes, t
  <2>2. Boxed(b, n)
    BY <1>1, <1>3 DEF Boxed, Changes
  <2>3. MemberKnown(b, w, n)
    <3>1. NoTime <= b.runs[r].lastEnd
      BY <1>3 DEF RunType, NoTime
    <3> QED BY <1>1, <1>4, <1>5, <1>8, <3>1 DEF MemberKnown
  <2>4. ASSUME NEW y \in w.box, y[1] = t PROVE HasImage(b, y)
    <3>1. CASE y = <<t, o>>
      BY <1>1, <1>4, <1>5, <1>8, <2>2, <3>1 DEF HasImage, Changes
    <3>2. CASE y \in v.box
      <4>1. HasImage(c, y)
        BY <3>2 DEF Agrees
      <4>2. PICK j \in DOMAIN c.img : ~c.img[j].noToken /\ TokenOf(c.img[j]) = t /\ Boxed(c, j)
        BY <2>4, <4>1 DEF HasImage
      <4>3. j = n
        BY <1>6, <4>2
      <4> QED BY <4>2, <4>3 DEF Boxed
    <3> QED BY <1>7, <3>1, <3>2
  <2>5. BoxRunOK(b, r)
    <3>1. BoxRunOK(c, r)
      BY DEF Agrees
    <3>2. \A j \in DOMAIN c.img : c.img[j].run = r => j \in DOMAIN b.img /\ b.img[j] = c.img[j]
      BY <1>1, <1>3 DEF Changes
    <3>3. b.runs[r].root \in DOMAIN b.img /\ b.img[b.runs[r].root].run = r
      BY <1>1, <3>1, <3>2 DEF BoxRunOK, Changes
    <3>4. b.runs[r].live # {} /\ ~b.runs[r].ended
      BY <1>1 DEF SameEnd
    <3>5. \/ b.runs[r].lastEnd = 0 /\ b.runs[r].live # {}
          \/ \E j \in DOMAIN b.img : b.img[j].run = r /\ b.img[j].end = b.runs[r].lastEnd
      BY <1>1, <3>1, <3>2, <3>4 DEF BoxRunOK
    <3> QED BY <3>3, <3>4, <3>5 DEF BoxRunOK
  <2> QED BY <1>4, <2>1, <2>3, <2>4, <2>5 DEF Right
<1>11. Agrees(b, w)
  BY <1>2, <1>9, <1>10, TouchAgrees
<1> QED BY <1>11 DEF b

\* An image that is in no run yet starts one, as the sandbox-exec.
LEMMA StartAgrees ==
    ASSUME NEW c, Sound(c), NEW v, Agrees(c, v), NEW n \in DOMAIN c.img, c.img[n].run = 0, c.img[n].end = NoTime,
           ~c.img[n].noToken, NEW tag \in Tags, NEW w, Enters(v, w, TokenOf(c.img[n]), TokenOf(c.img[n]))
    PROVE  Agrees(Join(StartRun(c, "sandbox-exec", n, tag), n, Len(c.runs) + 1), w)
<1> DEFINE s == StartRun(c, "sandbox-exec", n, tag)
           r == Len(c.runs) + 1
           b == Join(s, n, r)
           t == TokenOf(c.img[n])
<1>0. n \in Nat /\ n # 0
  BY CorrFields
<1>1. Starts(c, s, "sandbox-exec", n)
  BY <1>0, StartRunIs
<1>2. Sound(s)
  BY <1>0, StartRunSound DEF Becomes
<1> HIDE DEF s
<1>3. /\ DOMAIN s.runs = DOMAIN c.runs \cup {r} /\ r \notin DOMAIN c.runs
      /\ \A q \in DOMAIN c.runs : s.runs[q] = c.runs[q]
      /\ s.runs[r].kind = "sandbox-exec" /\ s.runs[r].root = n /\ s.runs[r].live = {} /\ s.runs[r].lastEnd = 0
      /\ s.runs[r].ended = FALSE /\ s.img = c.img /\ s.tokens = c.tokens
  BY <1>1 DEF Starts
<1> HIDE DEF r
<1>4. n \in DOMAIN s.img /\ r \in DOMAIN s.runs /\ s.img[n].run = 0 /\ s.img[n].end = NoTime
  BY <1>3
<1>5. /\ Changes(s, b, n, r) /\ b.img[n].run = r /\ b.img[n].end = NoTime /\ SameEnd(s.runs[r], b.runs[r])
      /\ b.img[n].row = "open" /\ b.runs[r].live = s.runs[r].live \cup {n} /\ b.runs[r].lastEnd = s.runs[r].lastEnd
  BY <1>2, <1>4, JoinIs
<1>6. Sound(b)
  BY <1>2, <1>4, JoinSound DEF Becomes
<1> HIDE DEF b
<1>7. /\ DOMAIN b.img = DOMAIN c.img /\ DOMAIN b.runs = DOMAIN c.runs \cup {r} /\ b.tokens = c.tokens
      /\ \A j \in DOMAIN c.img : j # n => b.img[j] = c.img[j]
      /\ \A q \in DOMAIN c.runs : b.runs[q] = c.runs[q]
      /\ SameImage(c.img[n], b.img[n])
      /\ b.runs[r].kind = "sandbox-exec" /\ b.runs[r].root = n /\ b.runs[r].live = {n} /\ b.runs[r].lastEnd = 0
      /\ b.runs[r].ended = FALSE /\ r # 0
  <2>1. r # 0
    BY <1>2, <1>4, CorrFields
  <2>2. \A q \in DOMAIN c.runs : b.runs[q] = c.runs[q]
    BY <1>3, <1>5 DEF Changes
  <2> QED BY <1>3, <1>5, <2>1, <2>2 DEF Changes, SameEnd
<1>8. TokenOf(b.img[n]) = t /\ ~b.img[n].noToken /\ b.img[n].ver = c.img[n].ver
  BY <1>7 DEF SameImage, TokenOf
<1>9. BoxOf(b, r) = t
  BY <1>7, <1>8 DEF BoxOf
<1> HIDE DEF t
<1>10. \A j \in DOMAIN c.img \ {n} : ~c.img[j].noToken => TokenOf(c.img[j]) # t
  BY DEF Agrees, Distinct, t
<1>11. \A y \in w.box : y \in v.box \/ y = <<t, t>>
  BY DEF Enters, t
<1>12. <<t, t>>[1] = t /\ <<t, t>>[2] = t /\ <<t, t>> \in w.box
  BY DEF Enters, t
<1>13. Touches(c, b, v, w, n, r)
  <2>2. {y \in w.box : y[1] # t} = {y \in v.box : y[1] # t}
    BY <1>11, <1>12 DEF Enters
  <2>3. w.alive = v.alive /\ w.top = v.top /\ v.top \in Nat
    BY DEF Enters
  <2>4. \A j \in DOMAIN c.img \ {n} : b.img[j] = c.img[j] /\ (~c.img[j].noToken => TokenOf(c.img[j]) # t)
    BY <1>7, <1>10
  <2> QED BY <1>3, <1>7, <1>8, <2>2, <2>3, <2>4 DEF Touches
<1>14. Right(b, w, n, r)
  <2>1. ImageKnown(b, w, n)
    <3>1. ImageKnown(c, v, n)
      BY DEF Agrees
    <3> QED BY <1>5, <1>7, <1>8, <3>1 DEF ImageKnown, Enters, t
  <2>2. Boxed(b, n)
    BY <1>5, <1>7 DEF Boxed
  <2>3. MemberKnown(b, w, n)
    <3>1. NoTime <= b.runs[r].lastEnd /\ n \in b.runs[r].live
      BY <1>7 DEF NoTime
    <3> QED BY <1>5, <1>8, <1>9, <1>12, <3>1 DEF MemberKnown
  <2>4. ASSUME NEW y \in w.box, y[1] = t PROVE HasImage(b, y)
    <3>1. CASE y = <<t, t>>
      BY <1>5, <1>7, <1>8, <1>9, <1>12, <2>2, <3>1 DEF HasImage
    <3>2. CASE y \in v.box
      <4>1. HasImage(c, y)
        BY <3>2 DEF Agrees
      <4>2. PICK j \in DOMAIN c.img : ~c.img[j].noToken /\ TokenOf(c.img[j]) = t /\ Boxed(c, j)
        BY <2>4, <4>1 DEF HasImage
      <4>3. j = n
        BY <1>10, <4>2
      <4> QED BY <4>2, <4>3 DEF Boxed
    <3> QED BY <1>11, <3>1, <3>2
  <2>5. BoxRunOK(b, r)
    BY <1>5, <1>7 DEF BoxRunOK
  <2> QED BY <1>8, <2>1, <2>3, <2>4, <2>5 DEF Right
<1>15. Agrees(b, w)
  BY <1>6, <1>13, <1>14, TouchAgrees
<1> QED BY <1>15 DEF b, s, r

\* The processes' box, and the view when a process is born in the boxes B or dies.
Boxes(v, t) == {x[2] : x \in {y \in v.box : y[1] = t}}
Birth(v, t, B) == [alive |-> v.alive \cup {t}, box |-> v.box \cup ({t} \X B), top |-> v.top + 1]
Death(v, t) == [alive |-> v.alive \ {t}, box |-> {x \in v.box : x[1] # t}, top |-> v.top]

LEMMA UnknownDeath ==
    ASSUME NEW c, NEW v, Agrees(c, v), NEW t, Unknown(c, t)
    PROVE  Agrees(c, Death(v, t))
<1> DEFINE w == Death(v, t)
<1>1. w.alive = v.alive \ {t} /\ w.box = {x \in v.box : x[1] # t} /\ w.top = v.top
  BY DEF Death
<1> HIDE DEF w
<1>2. ASSUME NEW i \in DOMAIN c.img PROVE ImageKnown(c, w, i)
  BY <1>1 DEF Agrees, ImageKnown, Unknown
<1>3. ASSUME NEW i \in DOMAIN c.img PROVE MemberKnown(c, w, i)
  <2> SUFFICES ASSUME Boxed(c, i) PROVE MemberKnown(c, w, i)
    BY DEF MemberKnown
  <2>1. MemberKnown(c, v, i) /\ ~c.img[i].noToken
    BY DEF Agrees, MemberKnown
  <2>2. TokenOf(c.img[i]) # t
    BY <2>1 DEF Unknown
  <2> DEFINE x == <<TokenOf(c.img[i]), BoxOf(c, c.img[i].run)>>
  <2>3. x[1] # t
    BY <2>2
  <2> HIDE DEF x
  <2>4. x \in v.box => x \in w.box
    BY <1>1, <2>3
  <2> QED BY <2>1, <2>4 DEF MemberKnown, x
<1>4. Agrees(c, w)
  BY <1>1, <1>2, <1>3 DEF Agrees
<1> QED BY <1>4 DEF w

\* An image that lives ends: its process dies.
LEMMA EndAgrees ==
    ASSUME NEW c, Sound(c), NEW v, Agrees(c, v), v.top \in Nat, NEW i \in DOMAIN c.img, c.img[i].end = NoTime,
           ~c.img[i].noToken, NEW t \in Nat, t <= c.mark, NEW reason \in {"exec", "exit"}
    PROVE  Agrees(EndImage(c, i, t, reason), Death(v, TokenOf(c.img[i])))
<1> DEFINE b == EndImage(c, i, t, reason)
           k == TokenOf(c.img[i])
           w == Death(v, k)
           r == c.img[i].run
           live == c.runs[r].live \ {i}
           ends == ~c.runs[r].ended /\ c.runs[r].kind # "adopted" /\ live = {}
<1>1. w.alive = v.alive \ {k} /\ w.box = {x \in v.box : x[1] # k} /\ w.top = v.top
  BY DEF Death
<1>2. /\ r = 0 => /\ DOMAIN b.img = DOMAIN c.img /\ b.runs = c.runs
                  /\ b.tokens = c.tokens /\ b.adopted = c.adopted
                  /\ \A j \in DOMAIN c.img : j # i => b.img[j] = c.img[j]
                  /\ SameImage(c.img[i], b.img[i])
      /\ r # 0 => /\ Changes(c, b, i, r) /\ b.img[i].row = reason /\ b.runs[r].live = live
                  /\ b.runs[r].lastEnd = Larger(c.runs[r].lastEnd, t)
                  /\ ends => /\ b.runs[r].ended = TRUE /\ b.runs[r].status = "exited"
                             /\ b.runs[r].endedAt = b.runs[r].lastEnd
                  /\ ~ends => SameEnd(c.runs[r], b.runs[r])
      /\ b.img[i].run = r /\ b.img[i].end = t
  <2>1. Ends(c, b, i, t, reason)
    BY EndImageIs
  <2> HIDE DEF b
  <2> QED BY <2>1 DEF Ends
<1>3. Sound(b)
  BY EndImageSound DEF Becomes
<1> HIDE DEF b, w
<1>4. t # NoTime /\ SameImage(c.img[i], b.img[i]) /\ TokenOf(b.img[i]) = k /\ ~b.img[i].noToken
  <2>1. SameImage(c.img[i], b.img[i])
    BY <1>2 DEF Changes
  <2> QED BY <2>1 DEF NoTime, SameImage, TokenOf
<1>5. \A j \in DOMAIN c.img \ {i} : b.img[j] = c.img[j] /\ (~c.img[j].noToken => TokenOf(c.img[j]) # k)
  <2>1. \A j \in DOMAIN c.img \ {i} : b.img[j] = c.img[j]
    BY <1>2 DEF Changes
  <2> QED BY <2>1 DEF Agrees, Distinct
<1>6. DOMAIN b.img = DOMAIN c.img /\ DOMAIN b.runs = DOMAIN c.runs /\ b.tokens = c.tokens
      /\ \A q \in DOMAIN c.runs : q # r => b.runs[q] = c.runs[q]
  <2>1. CASE r = 0
    BY <1>2, <2>1
  <2>2. CASE r # 0
    BY <1>2, <2>2 DEF Changes
  <2> QED BY <2>1, <2>2
<1>7. ImageKnown(c, v, i) /\ MemberKnown(c, v, i) /\ r \in Nat /\ (r # 0 => r \in DOMAIN c.runs) /\ 0 \notin DOMAIN c.runs
  BY BoxedOK, CorrFields DEF Agrees
<1>8. ImageKnown(b, w, i)
  BY <1>1, <1>2, <1>4, <1>7 DEF ImageKnown, SameImage
<1> HIDE DEF k
<1>9. \A x \in w.box : x[1] # k
  BY <1>1
<1>10. {x \in w.box : x[1] # k} = {x \in v.box : x[1] # k} /\ w.alive \ {k} = v.alive \ {k}
  BY <1>1
<1>11. CASE r = 0
  <2>1. Touches(c, b, v, w, i, 0)
    BY <1>1, <1>2, <1>4, <1>5, <1>6, <1>7, <1>10, <1>11 DEF Touches
  <2>2. MemberKnown(b, w, i)
    BY <1>2, <1>11 DEF MemberKnown, Boxed
  <2>3. Right(b, w, i, 0)
    BY <1>4, <1>6, <1>7, <1>8, <1>9, <2>2 DEF Right
  <2>4. Agrees(b, w)
    BY <1>3, <2>1, <2>3, TouchAgrees
  <2> QED BY <2>4 DEF b, w, k
<1>12. CASE r # 0
  <2>1. r \in DOMAIN c.runs /\ c.runs[r] \in RunType /\ b.runs[r] \in RunType
    BY <1>3, <1>6, <1>7, <1>12, CorrFields
  <2>2. c.runs[r].lastEnd \in Nat /\ b.runs[r].lastEnd \in Nat
    BY <2>1 DEF RunType
  <2>3. c.runs[r].lastEnd <= b.runs[r].lastEnd /\ t <= b.runs[r].lastEnd
        /\ (b.runs[r].lastEnd = t \/ b.runs[r].lastEnd = c.runs[r].lastEnd)
    BY <1>2, <1>12, <2>2 DEF Larger
  <2>4. b.runs[r].kind = c.runs[r].kind /\ b.runs[r].root = c.runs[r].root /\ b.runs[r].live = live /\ b.img[i].row = reason
    BY <1>2, <1>12 DEF Changes
  <2>5. Touches(c, b, v, w, i, r)
    <3>1. b.runs[r].live \ {i} = c.runs[r].live \ {i}
      BY <2>4
    <3>2. i \in DOMAIN c.img /\ r \in DOMAIN c.runs
      BY <2>1
    <3>3. DOMAIN c.img \subseteq DOMAIN b.img /\ DOMAIN b.img \subseteq DOMAIN c.img \cup {i}
          /\ DOMAIN c.runs \subseteq DOMAIN b.runs /\ DOMAIN b.runs \subseteq DOMAIN c.runs \cup {r}
      BY <1>6
    <3>4. /\ c.img[i].run \in {0, r} /\ SameImage(c.img[i], b.img[i]) /\ i \in DOMAIN b.img /\ ~b.img[i].noToken
          /\ c.tokens \subseteq b.tokens /\ b.tokens \subseteq c.tokens \cup {i}
          /\ \A q \in DOMAIN c.runs \ {r} : b.runs[q] = c.runs[q]
      BY <1>4, <1>6, <3>2
    <3>5. w.top = v.top /\ v.top <= w.top
      BY <1>1
    <3>6. /\ b.runs[r].kind = c.runs[r].kind /\ b.runs[r].root = c.runs[r].root
          /\ c.runs[r].lastEnd <= b.runs[r].lastEnd
      BY <2>3, <2>4
    <3>7. TokenOf(b.img[i]) = k
      BY <1>4
    <3> HIDE DEF live, ends, r
    <3> QED BY <1>5, <1>10, <3>1, <3>2, <3>3, <3>4, <3>5, <3>6, <3>7 DEF Touches
  <2>6. MemberKnown(b, w, i)
    <3>1. i \notin b.runs[r].live /\ reason # "watch_stopped"
      BY <2>4
    <3> QED BY <1>2, <1>4, <2>3, <2>4, <3>1 DEF MemberKnown
  <2>7. ASSUME c.runs[r].kind = "sandbox-exec" PROVE BoxRunOK(b, r)
    <3>1. BoxRunOK(c, r) /\ i \in c.runs[r].live
      BY <1>7, <1>12, <2>1, <2>7 DEF Agrees, MemberKnown, Boxed
    <3>2. ~c.runs[r].ended
      BY <3>1 DEF BoxRunOK
    <3>3. b.runs[r].ended <=> b.runs[r].live = {}
      <4>1. CASE live = {}
        <5>1. ends
          BY <2>7, <3>2, <4>1
        <5> QED BY <1>2, <1>12, <2>4, <4>1, <5>1
      <4>2. CASE live # {}
        <5>1. ~ends
          BY <4>2
        <5> QED BY <1>2, <1>12, <2>4, <3>2, <4>2, <5>1 DEF SameEnd
      <4> QED BY <4>1, <4>2
    <3>4. b.runs[r].ended => b.runs[r].status = "exited" /\ b.runs[r].endedAt = b.runs[r].lastEnd
      <4>1. CASE ends
        BY <1>2, <1>12, <4>1
      <4>2. CASE ~ends
        BY <1>2, <1>12, <3>2, <4>2 DEF SameEnd
      <4> QED BY <4>1, <4>2
    <3>5. b.runs[r].root \in DOMAIN b.img /\ b.img[b.runs[r].root].run = r
      <4>1. c.runs[r].root \in DOMAIN c.img /\ c.img[c.runs[r].root].run = r
        BY <3>1 DEF BoxRunOK
      <4>2. b.img[c.runs[r].root].run = r
        BY <1>2, <1>5, <4>1
      <4> QED BY <1>6, <2>4, <4>1, <4>2
    <3>6. \E j \in DOMAIN b.img : b.img[j].run = r /\ b.img[j].end = b.runs[r].lastEnd
      <4>1. CASE b.runs[r].lastEnd = t
        BY <1>2, <1>6, <4>1
      <4>2. CASE b.runs[r].lastEnd # t
        <5>1. b.runs[r].lastEnd = c.runs[r].lastEnd /\ c.runs[r].lastEnd # 0
          BY <2>2, <2>3, <4>2
        <5>2. PICK j \in DOMAIN c.img : c.img[j].run = r /\ c.img[j].end = c.runs[r].lastEnd
          BY <3>1, <5>1 DEF BoxRunOK
        <5>3. j # i
          BY <2>2, <5>2 DEF NoTime
        <5> QED BY <1>5, <1>6, <5>1, <5>2, <5>3
      <4> QED BY <4>1, <4>2
    <3> HIDE DEF live, ends
    <3> QED BY <3>3, <3>4, <3>5, <3>6 DEF BoxRunOK
  <2>8. Right(b, w, i, r)
    BY <1>4, <1>8, <1>9, <2>4, <2>6, <2>7 DEF Right
  <2>9. Agrees(b, w)
    BY <1>3, <2>5, <2>8, TouchAgrees
  <2> QED BY <2>9 DEF b, w, k
<1> QED BY <1>11, <1>12

-----------------------------------------------------------------------------
(* Families *)

\* From c to b no image and run went away or became another, and those of D stay in their runs.
Kin(c, b, D) ==
    /\ DOMAIN c.img \subseteq DOMAIN b.img /\ DOMAIN c.runs \subseteq DOMAIN b.runs /\ b.adopted = c.adopted
    /\ \A i \in DOMAIN c.img : SameImage(c.img[i], b.img[i])
    /\ \A i \in D : b.img[i].run = c.img[i].run
    /\ \A r \in DOMAIN c.runs : b.runs[r].kind = c.runs[r].kind

LEMMA KinTrans ==
    ASSUME NEW a, NEW b, NEW c, NEW D, D \subseteq DOMAIN a.img, Kin(a, b, D), Kin(b, c, D)
    PROVE  Kin(a, c, D)
BY DEF Kin, SameImage

LEMMA KinFamily ==
    ASSUME NEW c, NEW b, Sound(c), Family(c), Kin(c, b, DOMAIN c.img),
           \A i \in DOMAIN b.img \ DOMAIN c.img : Descends(b, i)
    PROVE  Family(b)
<1>1. ASSUME NEW i \in DOMAIN b.img PROVE Descends(b, i)
  <2>1. CASE i \notin DOMAIN c.img
    BY <2>1
  <2>2. CASE i \in DOMAIN c.img
    <3> SUFFICES ASSUME ~b.img[i].execSeen, b.img[i].parent # 0, Boxed(b, b.img[i].parent)
                 PROVE  b.img[i].run = b.img[b.img[i].parent].run
      BY DEF Descends
    <3> DEFINE p == c.img[i].parent
    <3>1. ~c.img[i].execSeen /\ b.img[i].parent = p /\ p # 0 /\ p \in DOMAIN c.img
      BY <2>2, BoxedOK DEF Kin, SameImage
    <3> HIDE DEF p
    <3>2. b.img[p].run = c.img[p].run /\ b.img[i].run = c.img[i].run /\ Boxed(b, p)
      BY <2>2, <3>1 DEF Kin
    <3>3. c.img[p].run # 0 /\ c.img[p].run \in DOMAIN c.runs
      BY <3>1, <3>2, BoxedOK DEF Boxed
    <3>4. Boxed(c, p)
      BY <3>2, <3>3 DEF Kin, Boxed
    <3> QED BY <2>2, <3>1, <3>2, <3>4 DEF Family, Descends, p
  <2> QED BY <2>1, <2>2
<1>2. ASSUME NEW t \in Tag PROVE AdoptedOK(b, t)
  <2>1. c.adopted[t] \in Nat /\ c.adopted[t] <= Len(c.runs)
    BY DEF Sound, CorrType
  <2>2. c.adopted[t] # 0 => c.adopted[t] \in DOMAIN c.runs
    BY <2>1, CorrFields
  <2> QED BY <2>2 DEF Family, AdoptedOK, Kin
<1> QED BY <1>1, <1>2 DEF Family

LEMMA RegisterKin ==
    ASSUME NEW c, Sound(c), NEW x \in ImageType, NEW D, D \subseteq DOMAIN c.img
    PROVE  Kin(c, Register(c, x), D)
<1> DEFINE b == Register(c, x)
<1>1. Registers(c, b, x)
  BY RegisterIs
<1> HIDE DEF b
<1>2. Kin(c, b, D)
  BY <1>1 DEF Registers, Kin, SameImage
<1> QED BY <1>2 DEF b

LEMMA StartKin ==
    ASSUME NEW c, Sound(c), NEW kind, NEW root \in Nat, NEW session \in Tags, NEW D
    PROVE  Kin(c, StartRun(c, kind, root, session), D) /\ StartRun(c, kind, root, session).img = c.img
<1> DEFINE b == StartRun(c, kind, root, session)
<1>1. Starts(c, b, kind, root)
  BY StartRunIs
<1> HIDE DEF b
<1>2. Kin(c, b, D) /\ b.img = c.img
  BY <1>1 DEF Starts, Kin, SameImage
<1> QED BY <1>2 DEF b

\* What changes one image and one run.
LEMMA ChangesKin ==
    ASSUME NEW c, NEW b, NEW i \in DOMAIN c.img, NEW r, NEW D, D \subseteq DOMAIN c.img, Changes(c, b, i, r),
           i \in D => b.img[i].run = c.img[i].run
    PROVE  Kin(c, b, D)
<1>1. \A j \in DOMAIN c.img : SameImage(c.img[j], b.img[j])
  BY DEF Changes, SameImage
<1>2. \A q \in DOMAIN c.runs : b.runs[q].kind = c.runs[q].kind
  BY DEF Changes
<1> QED BY <1>1, <1>2 DEF Changes, Kin

LEMMA JoinKin ==
    ASSUME NEW c, Sound(c), NEW i \in DOMAIN c.img, NEW r \in DOMAIN c.runs, c.img[i].run = 0,
           NEW D, D \subseteq DOMAIN c.img, i \notin D
    PROVE  /\ Kin(c, Join(c, i, r), D) /\ Join(c, i, r).img[i].run = r
           /\ DOMAIN Join(c, i, r).img = DOMAIN c.img
<1> DEFINE b == Join(c, i, r)
<1>1. Changes(c, b, i, r) /\ b.img[i].run = r
  BY JoinIs
<1> HIDE DEF b
<1>2. DOMAIN b.img = DOMAIN c.img
  BY <1>1 DEF Changes
<1>3. Kin(c, b, D)
  BY <1>1, ChangesKin
<1> QED BY <1>1, <1>2, <1>3 DEF b

LEMMA EndKin ==
    ASSUME NEW c, Sound(c), NEW i \in DOMAIN c.img, NEW t \in Nat, t <= c.mark, NEW reason \in {"exec", "exit"},
           c.img[i].end = NoTime, NEW D, D \subseteq DOMAIN c.img
    PROVE  Kin(c, EndImage(c, i, t, reason), D) /\ DOMAIN EndImage(c, i, t, reason).img = DOMAIN c.img
<1> DEFINE b == EndImage(c, i, t, reason)
           r == c.img[i].run
<1>1. Ends(c, b, i, t, reason)
  BY EndImageIs
<1> HIDE DEF b
<1>2. b.img[i].run = r
  BY <1>1 DEF Ends
<1>3. CASE r = 0
  <2>1. DOMAIN b.img = DOMAIN c.img /\ b.runs = c.runs /\ b.adopted = c.adopted /\ SameImage(c.img[i], b.img[i])
        /\ \A j \in DOMAIN c.img : j # i => b.img[j] = c.img[j]
    BY <1>1, <1>3 DEF Ends
  <2>2. \A j \in DOMAIN c.img : SameImage(c.img[j], b.img[j])
    BY <2>1 DEF SameImage
  <2>3. \A j \in D : b.img[j].run = c.img[j].run
    BY <1>2, <2>1
  <2>4. Kin(c, b, D)
    BY <2>1, <2>2, <2>3 DEF Kin
  <2> QED BY <2>1, <2>4 DEF b
<1>4. CASE r # 0
  <2>1. Changes(c, b, i, r)
    BY <1>1, <1>4 DEF Ends
  <2>2. DOMAIN b.img = DOMAIN c.img
    BY <2>1 DEF Changes
  <2> HIDE DEF r
  <2>3. Kin(c, b, D)
    BY <1>2, <2>1, ChangesKin DEF r
  <2> QED BY <2>2, <2>3 DEF b
<1> QED BY <1>3, <1>4

-----------------------------------------------------------------------------
(* What an event means *)

\* A process is born; it is in the boxes B.
Arrive(v, t) == [alive |-> v.alive \cup {t}, box |-> v.box, top |-> v.top + 1]
Enter(v, t, B) == [alive |-> v.alive, box |-> v.box \cup ({t} \X B), top |-> v.top]

\* The machine after the event e.
Seen(v, e) ==
    LET from == TokenOf(e.actor)
        to == TokenOf(e.target)
    IN  IF e.kind = "exit" THEN Death(v, from)
        ELSE IF e.kind = "fork" THEN Enter(Arrive(v, to), to, Boxes(v, from))
        ELSE Death(Enter(Arrive(v, to), to, IF e.target.prog = SandboxExec THEN {to} ELSE Boxes(v, from)), from)

\* The event e can happen: its actor lives, its target is new.
Legal(v, e) == TokenOf(e.actor) \in v.alive /\ (e.kind # "exit" => e.target.ver = v.top + 1)

\* The boxes of a process that has an image.
LEMMA BoxesAre ==
    ASSUME NEW c, NEW v, Agrees(c, v), NEW p \in DOMAIN c.img, c.img[p].end = NoTime, ~c.img[p].noToken
    PROVE  /\ Boxed(c, p) => Boxes(v, TokenOf(c.img[p])) = {BoxOf(c, c.img[p].run)}
           /\ ~Boxed(c, p) => Boxes(v, TokenOf(c.img[p])) = {}
<1> DEFINE t == TokenOf(c.img[p])
           o == BoxOf(c, c.img[p].run)
<1>1. ASSUME NEW x \in v.box, x[1] = t PROVE Boxed(c, p) /\ x[2] = o
  <2>1. HasImage(c, x)
    BY DEF Agrees
  <2>2. PICK j \in DOMAIN c.img : /\ ~c.img[j].noToken /\ TokenOf(c.img[j]) = t /\ Boxed(c, j)
                                  /\ BoxOf(c, c.img[j].run) = x[2]
    BY <1>1, <2>1 DEF HasImage
  <2>3. j = p
    BY <2>2 DEF Agrees, Distinct
  <2> QED BY <2>2, <2>3
<1>2. ASSUME Boxed(c, p) PROVE <<t, o>> \in v.box /\ <<t, o>>[1] = t /\ <<t, o>>[2] = o
  <2>1. MemberKnown(c, v, p)
    BY DEF Agrees
  <2> QED BY <1>2, <2>1 DEF MemberKnown
<1> HIDE DEF t, o
<1>3. Boxed(c, p) => Boxes(v, t) = {o}
  <2> SUFFICES ASSUME Boxed(c, p) PROVE Boxes(v, t) = {o}
    OBVIOUS
  <2> DEFINE e == <<t, o>>
  <2>1. e \in v.box /\ e[1] = t /\ e[2] = o
    BY <1>2
  <2> HIDE DEF e
  <2> QED BY <1>1, <2>1 DEF Boxes
<1>4. ~Boxed(c, p) => Boxes(v, t) = {}
  BY <1>1 DEF Boxes
<1> QED BY <1>3, <1>4 DEF t, o

\* A new image joins the run of another one, if that has a run: its process is in the same box.
LEMMA FollowAgrees ==
    ASSUME NEW c, Sound(c), NEW v, Agrees(c, v), v.top \in Nat,
           NEW n \in DOMAIN c.img, c.img[n].run = 0, c.img[n].end = NoTime, ~c.img[n].noToken,
           NEW p \in DOMAIN c.img, c.img[p].end = NoTime, ~c.img[p].noToken
    PROVE  LET r == c.img[p].run
               t == TokenOf(c.img[n])
           IN  Agrees(IF r = 0 THEN c ELSE Join(c, n, r), Enter(v, t, Boxes(v, TokenOf(c.img[p]))))
<1> DEFINE r == c.img[p].run
           t == TokenOf(c.img[n])
           a == TokenOf(c.img[p])
           w == Enter(v, t, Boxes(v, a))
<1>1. w.alive = v.alive /\ w.box = v.box \cup ({t} \X Boxes(v, a)) /\ w.top = v.top
  BY DEF Enter
<1>2. r # 0 => r \in DOMAIN c.runs
  BY BoxedOK
<1>3. CASE Boxed(c, p)
  <2>1. Boxes(v, a) = {BoxOf(c, r)}
    BY <1>3, BoxesAre
  <2>2. Enters(v, w, t, BoxOf(c, r))
    <3> DEFINE o == BoxOf(c, r)
    <3>1. {t} \X {o} = {<<t, o>>}
      <4> HIDE DEF t, o
      <4> QED OBVIOUS
    <3> HIDE DEF w
    <3> QED BY <1>1, <2>1, <3>1 DEF Enters
  <2>3. r # 0 /\ r \in DOMAIN c.runs /\ c.runs[r].kind = "sandbox-exec"
    BY <1>2, <1>3 DEF Boxed
  <2>4. ~c.runs[r].ended
    <3>1. MemberKnown(c, v, p) /\ BoxRunOK(c, r)
      BY <2>3 DEF Agrees
    <3> QED BY <1>3, <3>1 DEF MemberKnown, BoxRunOK
  <2> HIDE DEF w, r, t
  <2>5. Agrees(Join(c, n, r), w)
    BY <2>2, <2>3, <2>4, JoinAgrees DEF t
  <2> QED BY <2>3, <2>5 DEF w, r, t
<1>4. CASE ~Boxed(c, p)
  <2>1. Boxes(v, a) = {}
    BY <1>4, BoxesAre
  <2> HIDE DEF w
  <2>2. w.alive = v.alive /\ w.box = v.box /\ w.top = v.top
    BY <1>1, <2>1
  <2>3. Agrees(c, w)
    BY <2>2 DEF Agrees, ImageKnown, MemberKnown
  <2>4. CASE r = 0
    BY <2>3, <2>4 DEF w
  <2>5. CASE r # 0
    <3>1. r \in DOMAIN c.runs /\ c.runs[r].kind # "sandbox-exec"
      BY <1>2, <1>4, <2>5 DEF Boxed
    <3> DEFINE b == Join(c, n, r)
    <3> HIDE DEF r
    <3>2. Aside(c, b)
      BY <3>1, JoinAside
    <3>3. Sound(b)
      BY <3>1, JoinSound DEF Becomes
    <3> HIDE DEF b
    <3>4. Agrees(b, w)
      BY <2>3, <3>2, <3>3, AsideAgrees
    <3> QED BY <2>5, <3>4 DEF b, w, r
  <2> QED BY <2>4, <2>5
<1> QED BY <1>3, <1>4

-----------------------------------------------------------------------------
(* The handlers of events *)

LEMMA FindIs ==
    ASSUME NEW c, Sound(c), NEW proc
    PROVE  /\ Find(c, proc) # 0 => /\ Find(c, proc) \in c.tokens /\ Find(c, proc) \in DOMAIN c.img
                                   /\ TokenOf(c.img[Find(c, proc)]) = TokenOf(proc)
           /\ Find(c, proc) = 0 => \A i \in c.tokens : TokenOf(c.img[i]) # TokenOf(proc)
<1> DEFINE S == {i \in c.tokens : c.img[i].pid = proc.pid /\ c.img[i].ver = proc.ver}
<1>1. Find(c, proc) = IF S = {} THEN 0 ELSE CHOOSE i \in S : TRUE
  BY DEF Find, Only
<1>2. c.tokens \subseteq DOMAIN c.img /\ 0 \notin c.tokens
  BY CorrFields DEF Sound
<1>3. \A i \in c.tokens : i \in S <=> TokenOf(c.img[i]) = TokenOf(proc)
  BY DEF TokenOf
<1>4. S \subseteq c.tokens
  OBVIOUS
<1> HIDE DEF S
<1>5. CASE S = {}
  BY <1>1, <1>3, <1>5
<1>6. CASE S # {}
  <2>1. Find(c, proc) \in S
    BY <1>1, <1>6
  <2> QED BY <1>2, <1>3, <1>4, <2>1
<1> QED BY <1>5, <1>6

\* An image whose process lives is found.
LEMMA FindLiving ==
    ASSUME NEW c, Sound(c), NEW v, Agrees(c, v), NEW proc, TokenOf(proc) \in v.alive
    PROVE  LET p == Find(c, proc)
           IN  /\ p = 0 => Unknown(c, TokenOf(proc))
               /\ p # 0 => /\ p \in DOMAIN c.img /\ TokenOf(c.img[p]) = TokenOf(proc)
                           /\ ~c.img[p].noToken /\ c.img[p].end = NoTime
<1> DEFINE p == Find(c, proc)
           t == TokenOf(proc)
<1>1. /\ p # 0 => p \in c.tokens /\ p \in DOMAIN c.img /\ TokenOf(c.img[p]) = t
      /\ p = 0 => \A i \in c.tokens : TokenOf(c.img[i]) # t
  BY FindIs
<1> HIDE DEF p, t
<1>2. t \in v.alive
  BY DEF t
<1>3. ASSUME p # 0 PROVE ~c.img[p].noToken /\ c.img[p].end = NoTime
  <2>1. ~c.img[p].noToken /\ ImageKnown(c, v, p)
    BY <1>1, <1>3 DEF Agrees
  <2> QED BY <1>1, <1>2, <1>3, <2>1 DEF ImageKnown
<1>4. ASSUME p = 0 PROVE Unknown(c, t)
  <2> SUFFICES ASSUME NEW i \in DOMAIN c.img, ~c.img[i].noToken, TokenOf(c.img[i]) = t PROVE FALSE
    BY DEF Unknown
  <2>1. ImageKnown(c, v, i)
    BY DEF Agrees
  <2>2. i \in c.tokens
    BY <1>2, <2>1 DEF ImageKnown
  <2> QED BY <1>1, <1>4, <2>2
<1> QED BY <1>1, <1>3, <1>4 DEF p, t

\* b is right about v, and p is the image of the living process proc.
Tracked(b, v, proc, p) ==
    /\ Sound(b) /\ Agrees(b, v) /\ Family(b)
    /\ p \in DOMAIN b.img /\ TokenOf(b.img[p]) = TokenOf(proc) /\ ~b.img[p].noToken /\ b.img[p].end = NoTime

LEMMA TrackAgrees ==
    ASSUME NEW c, Sound(c), NEW v, Agrees(c, v), ViewOK(v), Family(c), NEW ev \in EventType,
           TokenOf(ev.actor) \in v.alive
    PROVE  Tracked(Track(c, ev), v, ev.actor, Find(Track(c, ev), ev.actor)) /\ Track(c, ev).mark = c.mark
<1> DEFINE a == ImageFor(c, ev.actor)
           m == MarkSeen(a, ev.actor)
           b == MarkSeen(m, ev.target)
           t == TokenOf(ev.actor)
           x == NewImage(ev.actor, ev.actor.born)
<1>1. ev.actor \in ProcType /\ ev.target \in ProcType
  BY DEF EventType
<1>2. ev.actor.pid \in Pid /\ ev.actor.ver \in Nat /\ ev.actor.prog \in Path /\ ev.actor.born \in Nat
  BY <1>1 DEF ProcType
<1>3. t[2] \in 1..v.top /\ v.top \in Nat /\ v.alive \cup {t} = v.alive
  BY DEF ViewOK, View
<1>4. Sound(a) /\ Agrees(a, v) /\ Family(a) /\ a.mark = c.mark
  <2>1. CASE Find(c, ev.actor) # 0
    BY <2>1 DEF ImageFor
  <2>2. CASE Find(c, ev.actor) = 0
    <3>1. Fresh(x) /\ x.parent = 0 /\ ~x.noToken /\ TokenOf(x) = t
      BY <1>2, NewImageFresh DEF TokenOf
    <3>2. Unknown(c, t)
      BY <2>2, FindLiving
    <3> HIDE DEF x, t
    <3>3. Len(c.img) \in Nat /\ x.parent <= Len(c.img) /\ x \in ImageType
      BY <3>1, CorrFields DEF Fresh
    <3>4. Born(v, v, TokenOf(x))
      BY <1>3, <3>1 DEF Born
    <3> DEFINE f == Register(c, x)
    <3>5. a = f
      BY <2>2 DEF ImageFor, x
    <3>6. Agrees(f, v)
      BY <3>1, <3>2, <3>3, <3>4, RegisterAgrees
    <3>7. Becomes(c, f)
      BY <3>1, <3>3, RegisterSound
    <3>8. Registers(c, f, x)
      BY <3>3, RegisterIs
    <3>9. Kin(c, f, DOMAIN c.img)
      BY <3>3, RegisterKin
    <3> HIDE DEF f, a
    <3>10. \A i \in DOMAIN f.img \ DOMAIN c.img : Descends(f, i)
      BY <3>1, <3>8 DEF Registers, Descends
    <3>11. Family(f)
      BY <3>9, <3>10, KinFamily
    <3> QED BY <3>5, <3>6, <3>7, <3>11 DEF Becomes, SameBooks
  <2> QED BY <2>1, <2>2
<1> HIDE DEF a
<1>5. Sound(m) /\ Agrees(m, v) /\ Family(m) /\ m.mark = a.mark
  <2>1. Becomes(a, m)
    BY <1>1, <1>4, MarkSeenSound
  <2>2. SameMembers(a, m)
    BY <1>1, <1>4 DEF MarkSeen, Sound, CorrType, SameMembers
  <2> HIDE DEF m
  <2>3. Aside(a, m)
    BY <1>4, <2>2, SameMembersAside
  <2> QED BY <1>4, <2>1, <2>3, AsideAgrees, AsideFamily DEF Becomes, SameBooks
<1> HIDE DEF m
<1>6. Sound(b) /\ Agrees(b, v) /\ Family(b) /\ b.mark = m.mark
  <2>1. Becomes(m, b)
    BY <1>1, <1>5, MarkSeenSound
  <2>2. SameMembers(m, b)
    BY <1>1, <1>5 DEF MarkSeen, Sound, CorrType, SameMembers
  <2> HIDE DEF b
  <2>3. Aside(m, b)
    BY <1>5, <2>2, SameMembersAside
  <2> QED BY <1>5, <2>1, <2>3, AsideAgrees, AsideFamily DEF Becomes, SameBooks
<1> HIDE DEF b
<1>7. Track(c, ev) = b
  BY DEF Track, a, m, b
<1> DEFINE p == Find(b, ev.actor)
<1>8. p \in DOMAIN b.img
  BY <1>7, TrackSound
<1>9. p # 0
  BY <1>6, <1>8, CorrFields
<1>10. TokenOf(b.img[p]) = t /\ ~b.img[p].noToken /\ b.img[p].end = NoTime
  BY <1>6, <1>9, FindLiving
<1>11. Tracked(b, v, ev.actor, p)
  BY <1>6, <1>8, <1>10 DEF Tracked
<1> QED BY <1>4, <1>5, <1>6, <1>7, <1>11

\* A process that is born now has no image yet.
LEMMA NewIsUnknown ==
    ASSUME NEW c, Sound(c), NEW v, Agrees(c, v), v.top \in Nat, NEW proc, proc.ver = v.top + 1
    PROVE  Unknown(c, TokenOf(proc)) /\ Find(c, proc) = 0
<1>1. ASSUME NEW i \in DOMAIN c.img, ~c.img[i].noToken PROVE TokenOf(c.img[i]) # TokenOf(proc)
  <2>1. c.img[i].ver \in 1..v.top
    BY <1>1 DEF Agrees, ImageKnown
  <2>2. c.img[i].ver # proc.ver
    BY <2>1
  <2> QED BY <2>2 DEF TokenOf
<1>2. Find(c, proc) = 0
  <2> SUFFICES ASSUME Find(c, proc) # 0 PROVE FALSE
    OBVIOUS
  <2> DEFINE i == Find(c, proc)
  <2>1. i \in c.tokens /\ i \in DOMAIN c.img /\ TokenOf(c.img[i]) = TokenOf(proc)
    BY FindIs
  <2> HIDE DEF i
  <2>2. ~c.img[i].noToken
    BY <2>1 DEF Agrees
  <2> QED BY <1>1, <2>1, <2>2
<1> QED BY <1>1, <1>2 DEF Unknown

\* The target of a fork or an exec is registered.
LEMMA ArriveAgrees ==
    ASSUME NEW c, Sound(c), NEW v, Agrees(c, v), v.top \in Nat, NEW x, Fresh(x), ~x.noToken, x.parent <= Len(c.img),
           x.ver = v.top + 1
    PROVE  Agrees(Register(c, x), Arrive(v, TokenOf(x)))
<1> DEFINE t == TokenOf(x)
           w == Arrive(v, t)
<1>1. w.alive = v.alive \cup {t} /\ w.box = v.box /\ w.top = v.top + 1
  BY DEF Arrive
<1>2. Unknown(c, t)
  BY NewIsUnknown
<1>3. t[2] = v.top + 1
  BY DEF TokenOf
<1> HIDE DEF w
<1>4. Born(v, w, t)
  <2> HIDE DEF t
  <2> QED BY <1>1, <1>3 DEF Born
<1> HIDE DEF t
<1>5. Agrees(Register(c, x), w)
  BY <1>2, <1>4, RegisterAgrees DEF t
<1> QED BY <1>5 DEF w, t

\* The images that a fork and an exec register.
ForkImage(ev, parent) == [NewImage(ev.target, ev.time) EXCEPT !.parent = parent]
ExecImage(ev, parent, prev) ==
    [NewImage(ev.target, ev.time) EXCEPT !.execSeen = TRUE, !.parent = parent, !.prev = prev]

LEMMA TargetIs ==
    ASSUME NEW ev \in EventType, NEW parent \in Nat, NEW prev \in Nat
    PROVE  LET x == ForkImage(ev, parent)
               y == ExecImage(ev, parent, prev)
           IN  /\ Fresh(x) /\ x.parent = parent
               /\ ~x.noToken /\ TokenOf(x) = TokenOf(ev.target) /\ x.ver = ev.target.ver
               /\ Fresh(y) /\ y.parent = parent
               /\ ~y.noToken /\ TokenOf(y) = TokenOf(ev.target) /\ y.ver = ev.target.ver /\ y.execSeen
<1> DEFINE z == NewImage(ev.target, ev.time)
<1>1. ev.target.pid \in Pid /\ ev.target.ver \in Nat /\ ev.target.prog \in Path /\ ev.time \in Nat
  BY DEF EventType, ProcType
<1>2. z \in ImageType /\ Fresh(z) /\ ~z.noToken /\ TokenOf(z) = TokenOf(ev.target) /\ z.ver = ev.target.ver
  BY <1>1, NewImageFresh DEF Fresh, TokenOf
<1> HIDE DEF z
<1> DEFINE x == [z EXCEPT !.parent = parent]
           y == [z EXCEPT !.execSeen = TRUE, !.parent = parent, !.prev = prev]
<1>3. x.noToken = z.noToken /\ x.pid = z.pid /\ x.ver = z.ver
  BY <1>2 DEF ImageType
<1>4. y.noToken = z.noToken /\ y.pid = z.pid /\ y.ver = z.ver /\ y.execSeen = TRUE
  BY <1>2 DEF ImageType
<1>7. Fresh(x) /\ x.parent = parent
  BY <1>2 DEF Fresh, ImageType
<1>8. Fresh(y) /\ y.parent = parent
  BY <1>2 DEF Fresh, ImageType
<1> HIDE DEF x, y
<1>5. ~x.noToken /\ TokenOf(x) = TokenOf(ev.target) /\ x.ver = ev.target.ver
  BY <1>2, <1>3 DEF TokenOf
<1>6. ~y.noToken /\ TokenOf(y) = TokenOf(ev.target) /\ y.ver = ev.target.ver /\ y.execSeen
  BY <1>2, <1>4 DEF TokenOf
<1> QED BY <1>5, <1>6, <1>7, <1>8 DEF x, y, z, ForkImage, ExecImage

LEMMA HandleForkAgrees ==
    ASSUME NEW c0, Sound(c0), NEW v, Agrees(c0, v), ViewOK(v), Family(c0), NEW ev \in EventType,
           ev.kind = "fork", Legal(v, ev)
    PROVE  Agrees(HandleFork(c0, ev), Seen(v, ev)) /\ Family(HandleFork(c0, ev))
<1> DEFINE c == Track(c0, ev)
           p == Find(c, ev.actor)
           x == ForkImage(ev, p)
           f == Register(c, x)
           r == c.img[p].run
           n == Len(f.img)
           b == IF r = 0 THEN f ELSE Join(f, n, r)
           to == TokenOf(ev.target)
           from == TokenOf(ev.actor)
           w == Arrive(v, to)
<1>1. Tracked(c, v, ev.actor, p)
  BY TrackAgrees DEF Legal
<1>2. HandleFork(c0, ev) = IF Find(c, ev.target) # 0 THEN c ELSE b
  BY DEF HandleFork, ForkImage
<1> HIDE DEF c, p
<1>3. v.top \in Nat /\ ev.target.ver = v.top + 1
  BY DEF ViewOK, View, Legal
<1>4. Find(c, ev.target) = 0
  BY <1>1, <1>3, NewIsUnknown DEF Tracked
<1>5. p \in Nat /\ p <= Len(c.img) /\ DOMAIN c.img = 1..Len(c.img)
  BY <1>1, CorrFields DEF Tracked
<1>6. Fresh(x) /\ x.parent = p /\ ~x.noToken /\ TokenOf(x) = to /\ x.ver = v.top + 1
  BY <1>3, <1>5, TargetIs
<1> HIDE DEF x
<1>7. x.parent <= Len(c.img) /\ x \in ImageType /\ x.run = 0 /\ x.end = NoTime
  BY <1>5, <1>6 DEF Fresh
<1>8. Agrees(f, w)
  BY <1>1, <1>3, <1>6, <1>7, ArriveAgrees DEF Tracked
<1>9. Sound(f)
  BY <1>1, <1>6, <1>7, RegisterSound DEF Tracked, Becomes
<1>10. Kin(c, f, DOMAIN c.img)
  BY <1>1, <1>7, RegisterKin DEF Tracked
<1>11. Registers(c, f, x)
  BY <1>1, <1>7, RegisterIs DEF Tracked
<1> HIDE DEF f, w, to
<1>12. /\ DOMAIN f.img = DOMAIN c.img \cup {n} /\ n \notin DOMAIN c.img /\ f.img[n] = x
       /\ n \in DOMAIN f.img /\ p \in DOMAIN f.img /\ f.img[p] = c.img[p]
  BY <1>1, <1>11 DEF Registers, Tracked
<1> HIDE DEF n
<1>13. Boxes(w, from) = Boxes(v, from) /\ w.top \in Nat
  BY <1>3 DEF Boxes, w, Arrive
<1>14. Agrees(b, Enter(w, to, Boxes(v, from)))
  <2> DEFINE q == f.img[p].run
             b2 == IF q = 0 THEN f ELSE Join(f, n, q)
  <2>1. q = r /\ TokenOf(f.img[p]) = from /\ TokenOf(f.img[n]) = to
    BY <1>1, <1>6, <1>12 DEF Tracked
  <2>2. Agrees(b2, Enter(w, TokenOf(f.img[n]), Boxes(w, TokenOf(f.img[p]))))
    BY <1>1, <1>6, <1>7, <1>8, <1>9, <1>12, <1>13, FollowAgrees DEF Tracked
  <2>3. b2 = b
    BY <2>1
  <2> HIDE DEF b2, b
  <2> QED BY <1>13, <2>1, <2>2, <2>3
<1>15. Kin(c, b, DOMAIN c.img) /\ DOMAIN b.img = DOMAIN f.img /\ b.img[n].run = r
  <2>1. CASE r = 0
    BY <1>7, <1>10, <1>12, <2>1
  <2>2. CASE r # 0
    <3> DEFINE D == DOMAIN c.img
               j == Join(f, n, r)
    <3>1. r \in DOMAIN f.runs
      <4>1. r \in DOMAIN c.runs
        BY <1>1, <2>2, BoxedOK DEF Tracked
      <4> QED BY <1>10, <4>1 DEF Kin
    <3> HIDE DEF r
    <3>2. Kin(f, j, D) /\ j.img[n].run = r /\ DOMAIN j.img = DOMAIN f.img
      BY <1>7, <1>9, <1>12, <3>1, JoinKin
    <3> HIDE DEF j, D
    <3>3. Kin(c, j, D)
      BY <1>10, <3>2, KinTrans DEF D
    <3> QED BY <2>2, <3>2, <3>3 DEF j, D, r
  <2> QED BY <2>1, <2>2
<1>16. SameImage(f.img[n], b.img[n])
  <2>1. CASE r = 0
    BY <2>1 DEF SameImage
  <2>2. CASE r # 0
    <3> DEFINE j == Join(f, n, r)
    <3>1. r \in DOMAIN f.runs
      <4>1. r \in DOMAIN c.runs
        BY <1>1, <2>2, BoxedOK DEF Tracked
      <4> QED BY <1>10, <4>1 DEF Kin
    <3> HIDE DEF r
    <3>2. Kin(f, j, {})
      BY <1>7, <1>9, <1>12, <3>1, JoinKin
    <3> HIDE DEF j
    <3> QED BY <1>12, <2>2, <3>2 DEF Kin, j, r
  <2> QED BY <2>1, <2>2
<1> HIDE DEF b
<1>17. Family(b)
  <2>1. b.img[p].run = r
    BY <1>1, <1>15 DEF Kin, Tracked
  <2>2. Descends(b, n)
    BY <1>6, <1>12, <1>15, <1>16, <2>1 DEF Descends, SameImage
  <2>3. \A i \in DOMAIN b.img \ DOMAIN c.img : Descends(b, i)
    BY <1>12, <1>15, <2>2
  <2> QED BY <1>1, <1>15, <2>3, KinFamily DEF Tracked
<1>18. Seen(v, ev) = Enter(w, to, Boxes(v, from))
  BY DEF Seen, w, to
<1> QED BY <1>2, <1>4, <1>14, <1>17, <1>18

LEMMA PlaceAgrees ==
    ASSUME NEW c, Sound(c), NEW v, Agrees(c, v), v.top \in Nat, NEW ev \in EventType,
           NEW n \in DOMAIN c.img, c.img[n].run = 0, c.img[n].end = NoTime, ~c.img[n].noToken,
           NEW p \in DOMAIN c.img, c.img[p].end = NoTime, ~c.img[p].noToken,
           NEW D, D \subseteq DOMAIN c.img, n \notin D
    PROVE  LET to == TokenOf(c.img[n])
               B == IF ev.target.prog = SandboxExec THEN {to} ELSE Boxes(v, TokenOf(c.img[p]))
               b == Place(c, ev, p, n)
           IN  Agrees(b, Enter(v, to, B)) /\ Kin(c, b, D) /\ DOMAIN b.img = DOMAIN c.img
<1> DEFINE to == TokenOf(c.img[n])
           b == Place(c, ev, p, n)
<1>1. CASE ev.target.prog = SandboxExec
  <2> DEFINE s == StartRun(c, "sandbox-exec", n, ev.tag)
             r == Len(c.runs) + 1
             j == Join(s, n, r)
             w == Enter(v, to, {to})
  <2>1. b = j
    BY <1>1 DEF Place
  <2>2. ev.tag \in Tags /\ n \in Nat
    BY CorrFields DEF EventType
  <2>3. Enters(v, w, to, to)
    <3>1. {to} \X {to} = {<<to, to>>}
      <4> HIDE DEF to
      <4> QED OBVIOUS
    <3>2. w.alive = v.alive /\ w.box = v.box \cup ({to} \X {to}) /\ w.top = v.top
      BY DEF Enter
    <3> HIDE DEF w, to
    <3> QED BY <3>1, <3>2 DEF Enters
  <2>4. Agrees(j, w)
    <3> HIDE DEF w
    <3> QED BY <2>2, <2>3, StartAgrees
  <2>5. Kin(c, s, D) /\ s.img = c.img
    BY <2>2, StartKin
  <2>6. Sound(s)
    BY <2>2, StartRunSound DEF Becomes
  <2>7. Starts(c, s, "sandbox-exec", n)
    BY <2>2, StartRunIs
  <2> HIDE DEF s
  <2>8. r \in DOMAIN s.runs
    BY <2>7 DEF Starts
  <2> HIDE DEF r
  <2>9. Kin(s, j, D) /\ DOMAIN j.img = DOMAIN s.img
    BY <2>5, <2>6, <2>8, JoinKin
  <2> HIDE DEF j
  <2>10. Kin(c, j, D)
    BY <2>5, <2>9, KinTrans
  <2> QED BY <1>1, <2>1, <2>4, <2>5, <2>9, <2>10
<1>2. CASE ev.target.prog # SandboxExec
  <2> DEFINE r == c.img[p].run
             j == Join(c, n, r)
             w == Enter(v, to, Boxes(v, TokenOf(c.img[p])))
             d == IF r = 0 THEN c ELSE j
  <2>1. b = d
    BY <1>2 DEF Place
  <2>2. Agrees(d, w)
    BY FollowAgrees
  <2>3. Kin(c, d, D) /\ DOMAIN d.img = DOMAIN c.img
    <3>1. CASE r = 0
      BY <3>1 DEF Kin, SameImage
    <3>2. CASE r # 0
      <4>1. r \in DOMAIN c.runs
        BY <3>2, BoxedOK
      <4> HIDE DEF r
      <4>2. Kin(c, j, D) /\ DOMAIN j.img = DOMAIN c.img
        BY <4>1, JoinKin
      <4> QED BY <3>2, <4>2
    <3> QED BY <3>1, <3>2
  <2> HIDE DEF d
  <2> QED BY <1>2, <2>1, <2>2, <2>3
<1> QED BY <1>1, <1>2

LEMMA HandleExecAgrees ==
    ASSUME NEW c0, Sound(c0), NEW v, Agrees(c0, v), ViewOK(v), Family(c0), NEW ev \in EventType, ev.time <= c0.mark,
           ev.kind = "exec", Legal(v, ev)
    PROVE  Agrees(HandleExec(c0, ev), Seen(v, ev)) /\ Family(HandleExec(c0, ev))
<1> DEFINE c == Track(c0, ev)
           p == Find(c, ev.actor)
           parent == c.img[p].parent
           x == ExecImage(ev, parent, p)
           e == Register(c, x)
           n == Len(e.img)
           a == Place(e, ev, p, n)
           b == EndImage(a, p, ev.time, "exec")
           to == TokenOf(ev.target)
           from == TokenOf(ev.actor)
           w == Arrive(v, to)
           B == IF ev.target.prog = SandboxExec THEN {to} ELSE Boxes(v, from)
           u == Enter(w, to, B)
           D == DOMAIN c.img
<1>1. Tracked(c, v, ev.actor, p) /\ c.mark = c0.mark
  BY TrackAgrees DEF Legal
<1>2. HandleExec(c0, ev) = IF Find(c, ev.target) # 0 THEN c ELSE b
  BY DEF HandleExec, ExecImage
<1> HIDE DEF c, p
<1>3. v.top \in Nat /\ ev.target.ver = v.top + 1
  BY DEF ViewOK, View, Legal
<1>4. Find(c, ev.target) = 0
  BY <1>1, <1>3, NewIsUnknown DEF Tracked
<1>5. p \in Nat /\ parent \in Nat /\ parent <= Len(c.img)
  <2>1. p \in 1..Len(c.img) /\ c.img[p] \in ImageType /\ ImageOK(c, p) /\ Len(c.img) \in Nat
    BY <1>1, CorrFields DEF Tracked, Sound
  <2>2. c.img[p].parent \in Nat /\ c.img[p].parent < p
    BY <2>1 DEF ImageType, ImageOK
  <2> QED BY <2>1, <2>2
<1> HIDE DEF parent
<1>6. Fresh(x) /\ x.parent = parent /\ ~x.noToken /\ TokenOf(x) = to /\ x.ver = v.top + 1 /\ x.execSeen
  <2>1. Fresh(x) /\ x.parent = parent /\ ~x.noToken /\ TokenOf(x) = to /\ x.ver = ev.target.ver /\ x.execSeen
    BY <1>5, TargetIs
  <2> HIDE DEF x
  <2> QED BY <1>3, <2>1
<1> HIDE DEF x
<1>7. x.parent <= Len(c.img) /\ x \in ImageType /\ x.run = 0 /\ x.end = NoTime
  BY <1>5, <1>6 DEF Fresh
<1>8. Agrees(e, w)
  BY <1>1, <1>3, <1>6, <1>7, ArriveAgrees DEF Tracked
<1>9. Sound(e) /\ e.mark = c.mark
  BY <1>1, <1>6, <1>7, RegisterSound DEF Tracked, Becomes, SameBooks
<1>10. Kin(c, e, D)
  BY <1>1, <1>7, RegisterKin DEF Tracked
<1>11. Registers(c, e, x)
  BY <1>1, <1>7, RegisterIs DEF Tracked
<1> HIDE DEF e, w, to, from
<1>12. /\ DOMAIN e.img = D \cup {n} /\ n \notin D /\ e.img[n] = x
       /\ n \in DOMAIN e.img /\ p \in DOMAIN e.img /\ e.img[p] = c.img[p]
  BY <1>1, <1>11 DEF Registers, Tracked
<1> HIDE DEF n, D
<1>13. Boxes(w, from) = Boxes(v, from) /\ w.top \in Nat /\ w.alive = v.alive \cup {to}
  BY <1>3 DEF Boxes, w, Arrive
<1>14. TokenOf(e.img[p]) = from /\ TokenOf(e.img[n]) = to /\ ~e.img[p].noToken /\ e.img[p].end = NoTime
  BY <1>1, <1>6, <1>12 DEF Tracked, from
<1>15. Agrees(a, u) /\ Kin(e, a, D) /\ DOMAIN a.img = DOMAIN e.img
  <2> DEFINE B2 == IF ev.target.prog = SandboxExec THEN {TokenOf(e.img[n])} ELSE Boxes(w, TokenOf(e.img[p]))
             u2 == Enter(w, TokenOf(e.img[n]), B2)
  <2>1. D \subseteq DOMAIN e.img
    BY <1>12
  <2>2. Agrees(a, u2) /\ Kin(e, a, D) /\ DOMAIN a.img = DOMAIN e.img
    BY <1>6, <1>7, <1>8, <1>9, <1>12, <1>13, <1>14, <2>1, PlaceAgrees
  <2>3. u2 = u
    BY <1>13, <1>14
  <2> HIDE DEF u2, u, a
  <2> QED BY <2>2, <2>3
<1>16. Sound(a) /\ a.mark = e.mark
  BY <1>9, <1>12, PlaceSound DEF Becomes, SameBooks
<1> HIDE DEF a
<1>17. u.alive = w.alive /\ u.top \in Nat
  BY <1>13 DEF Enter
<1> HIDE DEF u, B
<1>18. p \in DOMAIN a.img /\ SameImage(e.img[p], a.img[p]) /\ SameImage(e.img[n], a.img[n])
  BY <1>12, <1>15 DEF Kin
<1>19. TokenOf(a.img[p]) = from /\ ~a.img[p].noToken
  BY <1>14, <1>18 DEF SameImage, TokenOf
<1>20. a.img[p].end = NoTime
  <2>1. ImageKnown(a, u, p)
    BY <1>15, <1>18 DEF Agrees
  <2>2. from \in u.alive
    BY <1>13, <1>17 DEF Legal, from
  <2> QED BY <1>19, <2>1, <2>2 DEF ImageKnown
<1>21. ev.time \in Nat /\ ev.time <= a.mark
  BY <1>1, <1>9, <1>16 DEF EventType
<1>22. Agrees(b, Death(u, from))
  <2>1. Agrees(b, Death(u, TokenOf(a.img[p])))
    BY <1>15, <1>16, <1>17, <1>18, <1>19, <1>20, <1>21, EndAgrees
  <2> HIDE DEF b
  <2> QED BY <1>19, <2>1
<1>23. Kin(a, b, DOMAIN a.img) /\ DOMAIN b.img = DOMAIN a.img
  BY <1>16, <1>18, <1>20, <1>21, EndKin
<1> HIDE DEF b
<1>24. Family(b)
  <2>1. D \subseteq DOMAIN e.img /\ D \subseteq DOMAIN a.img
    BY <1>12, <1>15
  <2>2. Kin(a, b, D)
    BY <1>23, <2>1 DEF Kin
  <2>3. Kin(c, a, D)
    BY <1>10, <1>15, KinTrans DEF D
  <2>4. Kin(c, b, DOMAIN c.img)
    BY <2>2, <2>3, KinTrans DEF D
  <2>5. SameImage(a.img[n], b.img[n])
    BY <1>12, <1>15, <1>23 DEF Kin
  <2>6. b.img[n].execSeen
    BY <1>6, <1>12, <1>18, <2>5 DEF SameImage
  <2>7. \A i \in DOMAIN b.img \ DOMAIN c.img : Descends(b, i)
    BY <1>12, <1>15, <1>23, <2>6 DEF Descends, D
  <2> QED BY <1>1, <2>4, <2>7, KinFamily DEF Tracked
<1>25. Seen(v, ev) = Death(u, from)
  BY DEF Seen, w, to, from, u, B
<1> QED BY <1>2, <1>4, <1>22, <1>24, <1>25

\* What the correlator knows is right after each event.
LEMMA HandleESAgrees ==
    ASSUME NEW c, Sound(c), NEW v, Agrees(c, v), ViewOK(v), Family(c), NEW ev \in EventType, Legal(v, ev)
    PROVE  Agrees(HandleES(c, ev), Seen(v, ev)) /\ Family(HandleES(c, ev))
<1> DEFINE a == [c EXCEPT !.mark = Larger(@, ev.time)]
           i == Find(a, ev.actor)
<1>1. ev.time \in Nat /\ ev.kind \in {"fork", "exec", "exit"} /\ v.top \in Nat
  BY DEF EventType, ViewOK, View
<1>2. Sound(a) /\ ev.time <= a.mark
  BY <1>1, RaiseMark
<1>3. HandleES(c, ev) = CASE ev.kind = "fork" -> HandleFork(a, ev)
                          [] ev.kind = "exec" -> HandleExec(a, ev)
                          [] ev.kind = "exit" -> HandleExit(a, ev)
  BY DEF HandleES
<1>4. SameMembers(c, a)
  BY DEF Sound, CorrType, SameMembers
<1> HIDE DEF a
<1>5. Aside(c, a)
  BY <1>4, SameMembersAside
<1>6. Agrees(a, v) /\ Family(a)
  BY <1>2, <1>5, AsideAgrees, AsideFamily
<1>7. CASE ev.kind = "fork"
  <2>1. HandleES(c, ev) = HandleFork(a, ev)
    BY <1>3, <1>7
  <2> QED BY <1>2, <1>6, <1>7, <2>1, HandleForkAgrees
<1>8. CASE ev.kind = "exec"
  <2>1. HandleES(c, ev) = HandleExec(a, ev)
    BY <1>3, <1>8
  <2> QED BY <1>2, <1>6, <1>8, <2>1, HandleExecAgrees
<1>9. CASE ev.kind = "exit"
  <2> DEFINE from == TokenOf(ev.actor)
             b == EndImage(a, i, ev.time, "exit")
  <2>1. HandleES(c, ev) = IF i = 0 THEN a ELSE b
    BY <1>3, <1>9 DEF HandleExit
  <2>2. Seen(v, ev) = Death(v, from)
    BY <1>9 DEF Seen
  <2>3. /\ i = 0 => Unknown(a, from)
        /\ i # 0 => /\ i \in DOMAIN a.img /\ TokenOf(a.img[i]) = from
                    /\ ~a.img[i].noToken /\ a.img[i].end = NoTime
    BY <1>2, <1>6, FindLiving DEF Legal
  <2> HIDE DEF i, from
  <2>4. CASE i = 0
    BY <1>6, <2>1, <2>2, <2>3, <2>4, UnknownDeath
  <2>5. CASE i # 0
    <3>1. Agrees(b, Death(v, TokenOf(a.img[i])))
      BY <1>1, <1>2, <1>6, <2>3, <2>5, EndAgrees
    <3>2. Kin(a, b, DOMAIN a.img) /\ DOMAIN b.img = DOMAIN a.img
      BY <1>1, <1>2, <2>3, <2>5, EndKin
    <3> HIDE DEF b
    <3>3. Family(b)
      BY <1>2, <1>6, <3>2, KinFamily
    <3> QED BY <2>1, <2>2, <2>3, <2>5, <3>1, <3>3
  <2> QED BY <2>4, <2>5
<1> QED BY <1>1, <1>7, <1>8, <1>9

LEMMA SeenOK ==
    ASSUME NEW v, ViewOK(v), NEW ev \in EventType, Legal(v, ev)
    PROVE  ViewOK(Seen(v, ev))
<1> DEFINE from == TokenOf(ev.actor)
           to == TokenOf(ev.target)
           w == Arrive(v, to)
<1>1. /\ v.top \in Nat /\ v.alive \subseteq Token /\ v.box \subseteq Token \X Token
      /\ \A t \in v.alive : t[2] \in 1..v.top
      /\ \A x \in v.box : x[1] \in v.alive /\ x[2][2] \in 1..v.top
  BY DEF ViewOK, View
<1>2. to \in Token /\ from \in v.alive /\ ev.kind \in {"fork", "exec", "exit"}
  BY DEF EventType, ProcType, TokenOf, Token, Legal
<1>3. ASSUME NEW u, ViewOK(u), NEW t PROVE ViewOK(Death(u, t))
  BY <1>3 DEF ViewOK, View, Death
<1>4. ASSUME ev.kind # "exit" PROVE ViewOK(w)
  <2>1. to[2] = v.top + 1
    BY <1>4 DEF Legal, TokenOf
  <2> HIDE DEF to
  <2>2. w.alive = v.alive \cup {to} /\ w.box = v.box /\ w.top = v.top + 1
    BY DEF Arrive
  <2>3. w \in View
    BY <1>1, <1>2 DEF View, Arrive
  <2> HIDE DEF w
  <2>4. \A t \in w.alive : t[2] \in 1..w.top
    BY <1>1, <2>1, <2>2
  <2>5. \A x \in w.box : x[1] \in w.alive /\ x[2][2] \in 1..w.top
    BY <1>1, <2>2
  <2> QED BY <2>3, <2>4, <2>5 DEF ViewOK
<1>5. ASSUME ev.kind # "exit", NEW B, B \subseteq Token, \A o \in B : o[2] \in 1..w.top PROVE ViewOK(Enter(w, to, B))
  <2> DEFINE u == Enter(w, to, B)
  <2>1. u.alive = w.alive /\ u.box = w.box \cup ({to} \X B) /\ u.top = w.top /\ to \in w.alive
    BY DEF Enter, Arrive
  <2>2. ViewOK(w)
    BY <1>4, <1>5
  <2>3. u \in View
    BY <1>2, <1>5, <2>2 DEF ViewOK, View, Enter
  <2> HIDE DEF u, w, to
  <2>4. ASSUME NEW x \in u.box PROVE x[1] \in u.alive /\ x[2][2] \in 1..u.top
    BY <1>5, <2>1, <2>2 DEF ViewOK
  <2>5. \A t \in u.alive : t[2] \in 1..u.top
    BY <2>1, <2>2 DEF ViewOK
  <2> QED BY <2>3, <2>4, <2>5 DEF ViewOK, u
<1>6. ASSUME ev.kind # "exit" PROVE \A o \in Boxes(v, from) : o \in Token /\ o[2] \in 1..w.top
  <2>1. w.top = v.top + 1
    BY DEF Arrive
  <2> HIDE DEF w, from
  <2> QED BY <1>1, <2>1 DEF Boxes
<1>7. ASSUME ev.kind # "exit" PROVE to[2] \in 1..w.top
  <2>1. to[2] = v.top + 1 /\ w.top = v.top + 1
    BY <1>7 DEF Legal, TokenOf, Arrive
  <2> HIDE DEF w, to
  <2> QED BY <1>1, <2>1
<1> HIDE DEF w, to, from
<1>8. CASE ev.kind = "exit"
  BY <1>3, <1>8 DEF Seen, from
<1>9. CASE ev.kind = "fork"
  <2>1. ViewOK(Enter(w, to, Boxes(v, from)))
    BY <1>5, <1>6, <1>9
  <2> QED BY <1>9, <2>1 DEF Seen, w, to, from
<1>10. CASE ev.kind = "exec"
  <2> DEFINE B == IF ev.target.prog = SandboxExec THEN {to} ELSE Boxes(v, from)
  <2>1. B \subseteq Token /\ \A o \in B : o[2] \in 1..w.top
    BY <1>2, <1>6, <1>7, <1>10
  <2> HIDE DEF B
  <2>2. ViewOK(Enter(w, to, B))
    BY <1>5, <1>10, <2>1
  <2>3. ViewOK(Death(Enter(w, to, B), from))
    BY <1>3, <2>2
  <2> QED BY <1>10, <2>3 DEF Seen, w, to, from, B
<1> QED BY <1>2, <1>8, <1>9, <1>10

-----------------------------------------------------------------------------
(* What follows for the runs *)

\* No process is left of a run that has exited; its rows are closed, and it ended with the last of them.
RunClosed(c, r) ==
    LET members == {i \in DOMAIN c.img : c.img[i].run = r}
    IN  /\ \A i \in members : c.img[i].row \in {"exec", "exit"} /\ c.img[i].end <= c.runs[r].endedAt
        /\ \E i \in members : c.img[i].end = c.runs[r].endedAt

\* The sandbox-exec o was started, and no process of v descends from it.
Without(v, o) == v.top \in Nat /\ o[2] \in 1..v.top /\ \A x \in v.box : x[2] # o

LEMMA BoxRunRoot ==
    ASSUME NEW c, Sound(c), NEW v, Agrees(c, v), NEW r \in DOMAIN c.runs, c.runs[r].kind = "sandbox-exec"
    PROVE  /\ c.runs[r].root \in DOMAIN c.img /\ c.img[c.runs[r].root].run = r /\ Boxed(c, c.runs[r].root)
           /\ ~c.img[c.runs[r].root].noToken /\ r # 0 /\ BoxRunOK(c, r)
<1>1. BoxRunOK(c, r) /\ r # 0
  BY CorrFields DEF Agrees
<1>2. c.runs[r].root \in DOMAIN c.img /\ c.img[c.runs[r].root].run = r
  BY <1>1 DEF BoxRunOK
<1>3. Boxed(c, c.runs[r].root)
  BY <1>1, <1>2 DEF Boxed
<1>4. ~c.img[c.runs[r].root].noToken
  BY <1>2, <1>3 DEF Agrees, MemberKnown
<1> QED BY <1>1, <1>2, <1>3, <1>4

LEMMA ExitedRight ==
    ASSUME NEW c, Sound(c), NEW v, Agrees(c, v), ViewOK(v), NEW r \in DOMAIN c.runs, c.runs[r].kind = "sandbox-exec",
           c.runs[r].ended
    PROVE  Without(v, BoxOf(c, r)) /\ RunClosed(c, r) /\ c.runs[r].live = {}
<1> DEFINE run == c.runs[r]
           m == run.root
<1>1. /\ m \in DOMAIN c.img /\ c.img[m].run = r /\ Boxed(c, m) /\ ~c.img[m].noToken /\ r # 0 /\ BoxRunOK(c, r)
  BY BoxRunRoot
<1>2. run.live = {} /\ run.endedAt = run.lastEnd
      /\ \E i \in DOMAIN c.img : c.img[i].run = r /\ c.img[i].end = run.lastEnd
  BY <1>1 DEF BoxRunOK
<1>3. ASSUME NEW i \in DOMAIN c.img, c.img[i].run = r
      PROVE  c.img[i].row \in {"exec", "exit"} /\ c.img[i].end <= run.endedAt /\ c.img[i].end # NoTime
  <2>1. Boxed(c, i)
    BY <1>1, <1>3 DEF Boxed
  <2>2. MemberKnown(c, v, i) /\ ImageOK(c, i) /\ c.img[i] \in ImageType
    BY CorrFields DEF Agrees, Sound
  <2>3. c.img[i].row # "watch_stopped" /\ c.img[i].end # NoTime /\ c.img[i].end <= run.lastEnd
    BY <1>2, <1>3, <2>1, <2>2 DEF MemberKnown
  <2>4. c.img[i].row # "none" /\ c.img[i].row # "open"
    BY <1>1, <1>2, <1>3, <2>2 DEF ImageOK
  <2>5. c.img[i].row \in {"none", "open", "exec", "exit", "watch_stopped"}
    BY <2>2 DEF ImageType
  <2> QED BY <1>2, <2>3, <2>4, <2>5
<1>4. ASSUME NEW x \in v.box, x[2] = BoxOf(c, r) PROVE FALSE
  <2>1. HasImage(c, x)
    BY DEF Agrees
  <2>2. PICK j \in DOMAIN c.img : c.img[j].end = NoTime /\ Boxed(c, j) /\ BoxOf(c, c.img[j].run) = x[2]
    BY <2>1 DEF HasImage
  <2> DEFINE q == c.img[j].run
             k == c.runs[q].root
  <2>3. q \in DOMAIN c.runs /\ c.runs[q].kind = "sandbox-exec"
    BY <2>2, BoxedOK DEF Boxed
  <2> HIDE DEF q
  <2>4. k \in DOMAIN c.img /\ c.img[k].run = q /\ ~c.img[k].noToken
    BY <2>3, BoxRunRoot
  <2>5. TokenOf(c.img[k]) = TokenOf(c.img[m])
    BY <1>4, <2>2 DEF BoxOf, q
  <2> HIDE DEF k
  <2>6. k = m
    BY <1>1, <2>4, <2>5 DEF Agrees, Distinct
  <2>7. c.img[j].run = r
    BY <1>1, <2>4, <2>6 DEF q
  <2> QED BY <1>3, <2>2, <2>7
<1>5. BoxOf(c, r)[2] \in 1..v.top /\ v.top \in Nat
  <2>1. c.img[m].ver \in 1..v.top
    BY <1>1 DEF Agrees, ImageKnown
  <2>2. BoxOf(c, r)[2] = c.img[m].ver
    BY DEF BoxOf, TokenOf
  <2> QED BY <2>1, <2>2 DEF ViewOK, View
<1>6. Without(v, BoxOf(c, r))
  BY <1>4, <1>5 DEF Without
<1> QED BY <1>2, <1>3, <1>6 DEF RunClosed

LEMMA RunningRight ==
    ASSUME NEW c, Sound(c), NEW v, Agrees(c, v), NEW r \in DOMAIN c.runs, c.runs[r].kind = "sandbox-exec",
           ~c.runs[r].ended
    PROVE  \E x \in v.box : x[2] = BoxOf(c, r)
<1>1. BoxRunOK(c, r) /\ r # 0
  BY BoxRunRoot
<1>2. PICK i \in c.runs[r].live : TRUE
  BY <1>1 DEF BoxRunOK
<1>3. i \in DOMAIN c.img /\ c.img[i].run = r
  BY <1>2 DEF Sound, RunOK
<1>4. Boxed(c, i) /\ MemberKnown(c, v, i)
  BY <1>1, <1>3 DEF Boxed, Agrees
<1> DEFINE x == <<TokenOf(c.img[i]), BoxOf(c, r)>>
<1>5. x \in v.box
  BY <1>2, <1>3, <1>4 DEF MemberKnown
<1>6. x[2] = BoxOf(c, r)
  OBVIOUS
<1> QED BY <1>5, <1>6

LEMMA SeenWithout ==
    ASSUME NEW v, ViewOK(v), NEW o, Without(v, o), NEW ev \in EventType, Legal(v, ev)
    PROVE  Without(Seen(v, ev), o)
<1> DEFINE from == TokenOf(ev.actor)
           to == TokenOf(ev.target)
           w == Arrive(v, to)
<1>1. v.top \in Nat /\ o[2] \in 1..v.top /\ \A x \in v.box : x[2] # o
  BY DEF Without
<1>2. ASSUME NEW u, Without(u, o), NEW t PROVE Without(Death(u, t), o)
  BY <1>2 DEF Without, Death
<1>3. ASSUME ev.kind # "exit", NEW B, o \notin B PROVE Without(Enter(w, to, B), o)
  <2> DEFINE u == Enter(w, to, B)
  <2>1. u.box = v.box \cup ({to} \X B) /\ u.top = v.top + 1
    BY DEF Enter, Arrive
  <2> HIDE DEF u, w, to
  <2>2. \A x \in u.box : x[2] # o
    BY <1>1, <1>3, <2>1
  <2> QED BY <1>1, <2>1, <2>2 DEF Without, u
<1>4. o \notin Boxes(v, from)
  BY <1>1 DEF Boxes
<1>5. ASSUME ev.kind # "exit" PROVE o \notin {to}
  <2>1. to[2] = v.top + 1
    BY <1>5 DEF Legal, TokenOf
  <2> HIDE DEF to
  <2> QED BY <1>1, <2>1
<1>6. ev.kind \in {"fork", "exec", "exit"}
  BY DEF EventType
<1> HIDE DEF w, to, from
<1>7. CASE ev.kind = "exit"
  BY <1>2, <1>7 DEF Seen, from
<1>8. CASE ev.kind = "fork"
  <2>1. Without(Enter(w, to, Boxes(v, from)), o)
    BY <1>3, <1>4, <1>8
  <2> QED BY <1>8, <2>1 DEF Seen, w, to, from
<1>9. CASE ev.kind = "exec"
  <2> DEFINE B == IF ev.target.prog = SandboxExec THEN {to} ELSE Boxes(v, from)
  <2>1. o \notin B
    BY <1>4, <1>5, <1>9
  <2> HIDE DEF B
  <2>2. Without(Enter(w, to, B), o)
    BY <1>3, <1>9, <2>1
  <2>3. Without(Death(Enter(w, to, B), from), o)
    BY <1>2, <2>2
  <2> QED BY <1>9, <2>3 DEF Seen, w, to, from, B
<1> QED BY <1>6, <1>7, <1>8, <1>9

-----------------------------------------------------------------------------
(* The machine, seen as its trees *)

AliveOf(w) == {t \in Token : w[t[1]].live /\ t[2] = w[t[1]].ver}
BoxIn(w) == {x \in Token \X Token : x[1] \in AliveOf(w) /\ x[2] = w[x[1][1]].root}
RootAt(w, p) == {w[p].root} \cap Token
ViewAt(w, n) == [alive |-> AliveOf(w), box |-> BoxIn(w), top |-> n]

\* Only the process at q is another one.
OthersSame(w, u, q) ==
    \A p \in Pid \ {q} : u[p].live = w[p].live /\ u[p].ver = w[p].ver /\ u[p].root = w[p].root

LEMMA TokenIs == ASSUME NEW p \in Pid, NEW n \in Nat
                 PROVE  /\ <<p, n>> \in Token /\ <<p, n>>[1] = p /\ <<p, n>>[2] = n
                        /\ \A t \in Token : t = <<p, n>> <=> t[1] = p /\ t[2] = n
BY DEF Token

LEMMA PairIs == ASSUME NEW t, NEW B PROVE \A x \in Token \X Token : x \in {t} \X B <=> x[1] = t /\ x[2] \in B
OBVIOUS

\* The boxes of a process that lives.
LEMMA RootsAre ==
    ASSUME NEW w, NEW n, NEW p \in Pid, w[p].ver \in Nat, w[p].live
    PROVE  Boxes(ViewAt(w, n), <<p, w[p].ver>>) = RootAt(w, p) /\ <<p, w[p].ver>> \in AliveOf(w)
<1> DEFINE t == <<p, w[p].ver>>
<1>1. t \in Token /\ t[1] = p /\ t[2] = w[p].ver
  BY TokenIs
<1> HIDE DEF t
<1>2. t \in AliveOf(w)
  BY <1>1 DEF AliveOf
<1>3. ASSUME NEW x \in BoxIn(w), x[1] = t PROVE x[2] \in RootAt(w, p)
  BY <1>1, <1>3 DEF BoxIn, RootAt
<1>4. ASSUME NEW o \in RootAt(w, p) PROVE \E x \in BoxIn(w) : x[1] = t /\ x[2] = o
  <2> DEFINE x == <<t, o>>
  <2>1. x \in Token \X Token /\ x[1] = t /\ x[2] = o /\ o = w[p].root
    BY <1>1 DEF RootAt
  <2> HIDE DEF x
  <2> QED BY <1>1, <1>2, <2>1 DEF BoxIn
<1>5. ViewAt(w, n).box = BoxIn(w)
  BY DEF ViewAt
<1>6. Boxes(ViewAt(w, n), t) = RootAt(w, p)
  BY <1>3, <1>4, <1>5 DEF Boxes
<1> QED BY <1>2, <1>6 DEF t

\* Who lives, and in which box, after a change at q.
LEMMA AliveAfter ==
    ASSUME NEW w, NEW u, NEW q \in Pid, OthersSame(w, u, q)
    PROVE  \A t \in Token : t \in AliveOf(u) <=> IF t[1] = q THEN u[q].live /\ t[2] = u[q].ver ELSE t \in AliveOf(w)
<1> SUFFICES ASSUME NEW t \in Token
             PROVE  t \in AliveOf(u) <=> IF t[1] = q THEN u[q].live /\ t[2] = u[q].ver ELSE t \in AliveOf(w)
  OBVIOUS
<1>1. t[1] \in Pid
  BY DEF Token
<1> QED BY <1>1 DEF AliveOf, OthersSame

LEMMA BoxAfter ==
    ASSUME NEW w, NEW u, NEW q \in Pid, OthersSame(w, u, q)
    PROVE  \A x \in Token \X Token :
              x \in BoxIn(u) <=> IF x[1][1] = q THEN x[1] \in AliveOf(u) /\ x[2] \in RootAt(u, q) ELSE x \in BoxIn(w)
<1> SUFFICES ASSUME NEW x \in Token \X Token
             PROVE  x \in BoxIn(u) <=> IF x[1][1] = q THEN x[1] \in AliveOf(u) /\ x[2] \in RootAt(u, q) ELSE x \in BoxIn(w)
  OBVIOUS
<1>1. x[1] \in Token /\ x[1][1] \in Pid /\ x[2] \in Token
  BY DEF Token
<1>2. x[1][1] # q => (x[1] \in AliveOf(u) <=> x[1] \in AliveOf(w)) /\ u[x[1][1]].root = w[x[1][1]].root
  BY <1>1, AliveAfter DEF OthersSame
<1> QED BY <1>1, <1>2 DEF BoxIn, RootAt

\* A process is born at q, which was free.
LEMMA BornAt ==
    ASSUME NEW w, NEW u, NEW q \in Pid, OthersSame(w, u, q), ~w[q].live, u[q].live, u[q].ver \in Nat, NEW n
    PROVE  ViewAt(u, n + 1) = Enter(Arrive(ViewAt(w, n), <<q, u[q].ver>>), <<q, u[q].ver>>, RootAt(u, q))
<1> DEFINE to == <<q, u[q].ver>>
<1>1. to \in Token /\ to[1] = q /\ to[2] = u[q].ver /\ \A t \in Token : t = to <=> t[1] = q /\ t[2] = u[q].ver
  BY TokenIs
<1> HIDE DEF to
<1>2. \A t \in AliveOf(w) : t \in Token /\ t[1] # q
  BY DEF AliveOf
<1>3. AliveOf(u) \subseteq Token
  BY DEF AliveOf
<1>4. ASSUME NEW t \in Token PROVE t \in AliveOf(u) <=> t \in AliveOf(w) \cup {to}
  BY <1>1, <1>2, AliveAfter
<1>5. AliveOf(u) = AliveOf(w) \cup {to}
  BY <1>1, <1>2, <1>3, <1>4
<1>6. BoxIn(w) \subseteq Token \X Token /\ BoxIn(u) \subseteq Token \X Token /\ {to} \X RootAt(u, q) \subseteq Token \X Token
  BY <1>1 DEF BoxIn, RootAt
<1>7. ASSUME NEW x \in Token \X Token PROVE x \in BoxIn(u) <=> x \in BoxIn(w) \cup ({to} \X RootAt(u, q))
  <2>1. x[1] \in Token
    OBVIOUS
  <2>2. x \in {to} \X RootAt(u, q) <=> x[1] = to /\ x[2] \in RootAt(u, q)
    BY PairIs
  <2>3. x \in BoxIn(w) => x[1][1] # q
    BY <1>2 DEF BoxIn
  <2>4. x[1][1] = q => (x[1] \in AliveOf(u) <=> x[1] = to)
    BY <1>2, <1>5
  <2>5. x[1] = to => x[1][1] = q
    BY <1>1
  <2>6. x \in BoxIn(u) <=> IF x[1][1] = q THEN x[1] \in AliveOf(u) /\ x[2] \in RootAt(u, q) ELSE x \in BoxIn(w)
    BY BoxAfter
  <2> QED BY <2>2, <2>3, <2>4, <2>5, <2>6
<1>8. BoxIn(u) = BoxIn(w) \cup ({to} \X RootAt(u, q))
  BY <1>6, <1>7
<1> QED BY <1>5, <1>8 DEF ViewAt, Enter, Arrive, to

\* The process at p dies.
LEMMA DiesAt ==
    ASSUME NEW w, NEW u, NEW p \in Pid, OthersSame(w, u, p), w[p].live, w[p].ver \in Nat, ~u[p].live, NEW n
    PROVE  ViewAt(u, n) = Death(ViewAt(w, n), <<p, w[p].ver>>)
<1> DEFINE from == <<p, w[p].ver>>
<1>1. from \in Token /\ from[1] = p /\ from[2] = w[p].ver /\ \A t \in Token : t = from <=> t[1] = p /\ t[2] = w[p].ver
  BY TokenIs
<1> HIDE DEF from
<1>2. AliveOf(w) \subseteq Token /\ AliveOf(u) \subseteq Token /\ BoxIn(w) \subseteq Token \X Token /\ BoxIn(u) \subseteq Token \X Token
  BY DEF AliveOf, BoxIn
<1>3. ASSUME NEW t \in Token PROVE t \in AliveOf(u) <=> t \in AliveOf(w) \ {from}
  <2>1. t \in AliveOf(w) /\ t[1] = p => t = from
    BY <1>1 DEF AliveOf
  <2> QED BY <1>1, <2>1, AliveAfter
<1>4. AliveOf(u) = AliveOf(w) \ {from}
  BY <1>2, <1>3
<1>5. ASSUME NEW x \in Token \X Token PROVE x \in BoxIn(u) <=> x \in BoxIn(w) /\ x[1] # from
  <2>1. x[1] \in Token
    OBVIOUS
  <2>2. x \in BoxIn(w) /\ x[1][1] = p => x[1] = from
    BY <1>1, <2>1 DEF BoxIn, AliveOf
  <2>3. x[1][1] = p => x[1] \notin AliveOf(u)
    BY <2>1, AliveAfter
  <2>4. x[1] = from => x[1][1] = p
    BY <1>1
  <2>5. x \in BoxIn(u) <=> IF x[1][1] = p THEN x[1] \in AliveOf(u) /\ x[2] \in RootAt(u, p) ELSE x \in BoxIn(w)
    BY BoxAfter
  <2> QED BY <2>2, <2>3, <2>4, <2>5
<1>6. BoxIn(u) = {x \in BoxIn(w) : x[1] # from}
  BY <1>2, <1>5
<1> QED BY <1>4, <1>6 DEF ViewAt, Death, from

\* The process at p becomes another image.
LEMMA BecomesAt ==
    ASSUME NEW w, NEW u, NEW p \in Pid, OthersSame(w, u, p), w[p].live, w[p].ver \in Nat, u[p].live, u[p].ver \in Nat,
           u[p].ver # w[p].ver, NEW n
    PROVE  ViewAt(u, n + 1)
             = Death(Enter(Arrive(ViewAt(w, n), <<p, u[p].ver>>), <<p, u[p].ver>>, RootAt(u, p)), <<p, w[p].ver>>)
<1> DEFINE from == <<p, w[p].ver>>
           to == <<p, u[p].ver>>
           B == RootAt(u, p)
<1>1. from \in Token /\ from[1] = p /\ from[2] = w[p].ver /\ \A t \in Token : t = from <=> t[1] = p /\ t[2] = w[p].ver
  BY TokenIs
<1>2. to \in Token /\ to[1] = p /\ to[2] = u[p].ver /\ \A t \in Token : t = to <=> t[1] = p /\ t[2] = u[p].ver
  BY TokenIs
<1>3. B \subseteq Token
  BY DEF RootAt
<1> HIDE DEF from, to
<1>4. from # to
  BY <1>1, <1>2
<1>5. AliveOf(w) \subseteq Token /\ AliveOf(u) \subseteq Token /\ BoxIn(w) \subseteq Token \X Token /\ BoxIn(u) \subseteq Token \X Token
      /\ {to} \X B \subseteq Token \X Token
  BY <1>2, <1>3 DEF AliveOf, BoxIn
<1>6. ASSUME NEW t \in Token PROVE t \in AliveOf(u) <=> t \in (AliveOf(w) \cup {to}) \ {from}
  <2>1. t \in AliveOf(w) /\ t[1] = p => t = from
    BY <1>1 DEF AliveOf
  <2> QED BY <1>1, <1>2, <1>4, <2>1, AliveAfter
<1>7. AliveOf(u) = (AliveOf(w) \cup {to}) \ {from}
  BY <1>2, <1>5, <1>6
<1> DEFINE before == BoxIn(w) \cup ({to} \X B)
<1>8. ASSUME NEW x \in Token \X Token PROVE x \in BoxIn(u) <=> x \in before /\ x[1] # from
  <2>1. x[1] \in Token
    OBVIOUS
  <2>2. x \in BoxIn(w) /\ x[1][1] = p => x[1] = from
    BY <1>1, <2>1 DEF BoxIn, AliveOf
  <2>3. x[1][1] = p => (x[1] \in AliveOf(u) <=> x[1] = to)
    BY <1>2, <2>1, AliveAfter
  <2>4. x[1] = from \/ x[1] = to => x[1][1] = p
    BY <1>1, <1>2
  <2>5. x \in BoxIn(u) <=> IF x[1][1] = p THEN x[1] \in AliveOf(u) /\ x[2] \in B ELSE x \in BoxIn(w)
    BY BoxAfter
  <2>6. x \in {to} \X B <=> x[1] = to /\ x[2] \in B
    BY PairIs
  <2> HIDE DEF B
  <2> QED BY <1>4, <2>2, <2>3, <2>4, <2>5, <2>6
<1>9. BoxIn(u) = {x \in before : x[1] # from}
  BY <1>5, <1>8
<1> HIDE DEF B
<1> QED BY <1>7, <1>9 DEF ViewAt, Death, Enter, Arrive, from, to, B

-----------------------------------------------------------------------------
(* The events of the machine *)

ViewOf == ViewAt(world, Len(births))

\* A step of the machine that the event ev tells of.
Told(ev) ==
    /\ ev \in EventType /\ esq' = Append(esq, ev) /\ Legal(ViewOf, ev) /\ ViewOf' = Seen(ViewOf, ev)
    /\ UNCHANGED <<corr, stopped>>

\* A step of the machine that no event tells of.
Untold == ViewOf' = ViewOf /\ UNCHANGED <<esq, corr, stopped>>

LEMMA ForkTold ==
    ASSUME AuditInv, NEW p \in Pid, NEW q \in Pid, Fork(p, q)
    PROVE  \E ev : Told(ev)
<1> DEFINE child == [world[p] EXCEPT !.ver = NextVer, !.born = now, !.last = now]
           target == [pid |-> q, ver |-> NextVer, prog |-> world[p].prog, born |-> now]
           ev == [kind |-> "fork", time |-> now, actor |-> Image(p), target |-> target, tag |-> NoTag]
           n == Len(births)
           v == ViewAt(world, n)
           to == <<q, NextVer>>
           from == <<p, world[p].ver>>
<1>1. world[p].live /\ ~world[q].live
  BY DEF Fork, Active
<1>2. /\ world[p] \in ProcessType /\ Image(p) \in ProcType /\ NextVer \in Nat /\ now \in Nat /\ NextVer = n + 1
      /\ world[p].ver \in Nat
  BY <1>1, ActorOK DEF ProcessType
<1>3. /\ world' = [world EXCEPT ![p].last = now, ![q] = child]
      /\ births' = Append(births, NextVer) /\ esq' = Append(esq, ev)
      /\ UNCHANGED <<corr, stopped>>
  BY DEF Fork, Log
<1>4. child.live /\ child.ver = NextVer /\ child.root = world[p].root /\ target \in ProcType
  BY <1>1, <1>2 DEF ProcessType, ProcType
<1>5. [world[p] EXCEPT !.last = now].ver = world[p].ver /\ [world[p] EXCEPT !.last = now].live = world[p].live
      /\ [world[p] EXCEPT !.last = now].root = world[p].root
  BY <1>2 DEF ProcessType
<1>6. world \in [Pid -> ProcessType] /\ births \in Seq(Nat)
  BY DEF AuditInv, MachineOK
<1>7. /\ ev \in EventType /\ TokenOf(ev.actor) = from /\ TokenOf(ev.target) = to
      /\ ev.kind = "fork" /\ ev.target.ver = NextVer
  <2>1. NoTag \in Tags
    BY DEF Tags
  <2>2. TokenOf(Image(p)) = from /\ TokenOf(target) = to /\ target.ver = NextVer
    BY DEF TokenOf, Image
  <2> HIDE DEF target
  <2> QED BY <1>2, <1>4, <2>1, <2>2 DEF EventType
<1> HIDE DEF child, target, ev
<1>8. /\ world'[q] = child
      /\ \A x \in Pid \ {p, q} : world'[x] = world[x]
      /\ p # q => world'[p] = [world[p] EXCEPT !.last = now]
  BY <1>3, <1>6
<1>9. OthersSame(world, world', q)
  BY <1>5, <1>8 DEF OthersSame
<1>10. Len(births') = n + 1 /\ n \in Nat
  BY <1>2, <1>3, <1>6, AppendProperties, LenProperties
<1>11. Boxes(v, from) = RootAt(world, p) /\ from \in AliveOf(world)
  BY <1>1, <1>2, RootsAre
<1>12. RootAt(world', q) = RootAt(world, p)
  BY <1>4, <1>8 DEF RootAt
<1> HIDE DEF n
<1>13. ViewAt(world', n + 1) = Enter(Arrive(v, to), to, RootAt(world', q))
  <2>1. world'[q].live /\ world'[q].ver = NextVer
    BY <1>4, <1>8
  <2>2. ViewAt(world', n + 1) = Enter(Arrive(ViewAt(world, n), <<q, world'[q].ver>>), <<q, world'[q].ver>>, RootAt(world', q))
    BY <1>1, <1>2, <1>9, <2>1, BornAt
  <2> QED BY <2>1, <2>2
<1>14. v.alive = AliveOf(world) /\ v.top = n
  BY DEF ViewAt
<1>15. ViewOf = v /\ ViewOf' = ViewAt(world', n + 1)
  BY <1>10 DEF ViewOf, n
<1> HIDE DEF v, to, from
<1>16. Seen(v, ev) = Enter(Arrive(v, to), to, Boxes(v, from))
  BY <1>7 DEF Seen
<1>17. Legal(v, ev)
  BY <1>2, <1>7, <1>11, <1>14 DEF Legal
<1>18. Told(ev)
  BY <1>3, <1>7, <1>11, <1>12, <1>13, <1>15, <1>16, <1>17 DEF Told
<1> QED BY <1>18

LEMMA BecomeTold ==
    ASSUME AuditInv, NEW p \in Pid, world[p].live, NEW process \in ProcessType, NEW seen \in Tags,
           Become(p, process, seen), process.live,
           IF process.prog = SandboxExec THEN process.root = <<p, NextVer>> ELSE process.root = world[p].root
    PROVE  \E ev : Told(ev)
<1> DEFINE next == [process EXCEPT !.ver = NextVer, !.last = now]
           target == [pid |-> p, ver |-> NextVer, prog |-> process.prog, born |-> process.born]
           ev == [kind |-> "exec", time |-> now, actor |-> Image(p), target |-> target, tag |-> seen]
           n == Len(births)
           v == ViewAt(world, n)
           to == <<p, NextVer>>
           from == <<p, world[p].ver>>
           B == RootAt(world', p)
<1>1. /\ world[p] \in ProcessType /\ Image(p) \in ProcType /\ NextVer \in Nat /\ now \in Nat /\ NextVer = n + 1
      /\ world[p].ver \in 1..n /\ n \in Nat
  BY ActorOK
<1>2. /\ world' = [world EXCEPT ![p] = next]
      /\ births' = Append(births, births[world[p].ver]) /\ esq' = Append(esq, ev)
      /\ UNCHANGED <<corr, stopped>>
  BY DEF Become, Log
<1>3. next.live /\ next.ver = NextVer /\ next.root = process.root /\ target \in ProcType
  BY <1>1 DEF ProcessType, ProcType
<1>4. world \in [Pid -> ProcessType] /\ births \in Seq(Nat) /\ births[world[p].ver] \in Nat
  BY ActorOK DEF AuditInv, MachineOK
<1>5. /\ ev \in EventType /\ TokenOf(ev.actor) = from /\ TokenOf(ev.target) = to
      /\ ev.kind = "exec" /\ ev.target.ver = NextVer /\ ev.target.prog = process.prog
  <2>1. TokenOf(Image(p)) = from /\ TokenOf(target) = to /\ target.ver = NextVer /\ target.prog = process.prog
    BY DEF TokenOf, Image
  <2> HIDE DEF target
  <2> QED BY <1>1, <1>3, <2>1 DEF EventType
<1> HIDE DEF next, target, ev
<1>6. world'[p] = next /\ \A x \in Pid \ {p} : world'[x] = world[x]
  BY <1>2, <1>4
<1>7. OthersSame(world, world', p)
  BY <1>6 DEF OthersSame
<1>8. Len(births') = n + 1
  BY <1>2, <1>4, AppendProperties
<1>9. world[p].ver \in Nat /\ NextVer # world[p].ver
  <2> HIDE DEF n
  <2> QED BY <1>1
<1>10. Boxes(v, from) = RootAt(world, p) /\ from \in AliveOf(world)
  BY <1>9, RootsAre
<1>11. B = IF ev.target.prog = SandboxExec THEN {to} ELSE Boxes(v, from)
  <2>1. to \in Token
    BY <1>1, TokenIs
  <2>2. B = {process.root} \cap Token
    BY <1>3, <1>6 DEF RootAt
  <2>3. process.prog = SandboxExec => B = {to}
    BY <2>1, <2>2
  <2>4. process.prog # SandboxExec => B = RootAt(world, p)
    BY <2>2 DEF RootAt
  <2> HIDE DEF v, to, from, B
  <2> QED BY <1>5, <1>10, <2>3, <2>4
<1> HIDE DEF n
<1>12. ViewAt(world', n + 1) = Death(Enter(Arrive(v, to), to, B), from)
  <2>1. world'[p].live /\ world'[p].ver = NextVer
    BY <1>3, <1>6
  <2>2. ViewAt(world', n + 1)
          = Death(Enter(Arrive(ViewAt(world, n), <<p, world'[p].ver>>), <<p, world'[p].ver>>, RootAt(world', p)), <<p, world[p].ver>>)
    BY <1>1, <1>7, <1>9, <2>1, BecomesAt
  <2> QED BY <2>1, <2>2
<1>13. v.alive = AliveOf(world) /\ v.top = n
  BY DEF ViewAt
<1>14. ViewOf = v /\ ViewOf' = ViewAt(world', n + 1)
  BY <1>8 DEF ViewOf, n
<1> HIDE DEF v, to, from, B
<1>15. Seen(v, ev) = Death(Enter(Arrive(v, to), to, B), from)
  BY <1>5, <1>11 DEF Seen
<1>16. Legal(v, ev)
  BY <1>1, <1>5, <1>10, <1>13 DEF Legal
<1>17. Told(ev)
  BY <1>2, <1>5, <1>12, <1>14, <1>15, <1>16 DEF Told
<1> QED BY <1>17

LEMMA ExecTold ==
    ASSUME AuditInv, NEW p \in Pid, NEW prog \in Prog, Exec(p, prog)
    PROVE  \E ev : Told(ev)
<1> DEFINE w == [world[p] EXCEPT !.prog = prog]
           process == IF prog \in Entitled /\ w.box = "none" THEN [w EXCEPT !.box = "app"] ELSE w
<1>1. world[p].live /\ prog # SandboxExec /\ Become(p, process, NoTag)
  BY DEF Exec, Active
<1>2. world[p] \in ProcessType /\ NoTag \in Tags
  BY <1>1, ActorOK DEF Tags
<1>3. w \in ProcessType /\ w.live = world[p].live /\ w.prog = prog /\ w.root = world[p].root
  BY <1>2 DEF ProcessType, Path
<1>4. process \in ProcessType /\ process.live = w.live /\ process.prog = w.prog /\ process.root = w.root
  <2> HIDE DEF w
  <2> QED BY <1>3 DEF ProcessType
<1> HIDE DEF process, w
<1> QED BY <1>1, <1>2, <1>3, <1>4, BecomeTold

LEMMA ExecSandboxTold ==
    ASSUME AuditInv, NEW p \in Pid, ExecSandbox(p)
    PROVE  \E ev : Told(ev)
<1>1. PICK t \in RunTags, readable \in {TRUE} \cup {~Unreadable} :
        Become(p, [world[p] EXCEPT !.prog = SandboxExec, !.box = "exec", !.root = <<p, NextVer>>, !.tag = t],
               IF readable THEN t ELSE NoTag)
  BY DEF ExecSandbox
<1> DEFINE process == [world[p] EXCEPT !.prog = SandboxExec, !.box = "exec", !.root = <<p, NextVer>>, !.tag = t]
           seen == IF readable THEN t ELSE NoTag
<1>2. world[p].live
  BY DEF ExecSandbox, Active
<1>3. world[p] \in ProcessType /\ NextVer \in Nat
  BY <1>2, ActorOK
<1>4. t \in Tags /\ seen \in Tags
  BY TagAssumption DEF Tags
<1>5. SandboxExec \in Path /\ <<p, NextVer>> \in Nat \X Nat
  BY <1>3, ProgAssumption, Constants DEF Path
<1>6. process \in ProcessType /\ process.live = world[p].live /\ process.prog = SandboxExec
      /\ process.root = <<p, NextVer>>
  BY <1>3, <1>4, <1>5 DEF ProcessType
<1>7. Become(p, process, seen)
  BY <1>1
<1> HIDE DEF process, seen
<1> QED BY <1>2, <1>4, <1>6, <1>7, BecomeTold

LEMMA ExitTold ==
    ASSUME AuditInv, NEW p \in Pid, Exit(p)
    PROVE  \E ev : Told(ev)
<1> DEFINE w == [NoProcess EXCEPT !.last = now]
           ev == [kind |-> "exit", time |-> now, actor |-> Image(p), target |-> Image(p), tag |-> NoTag]
           n == Len(births)
           v == ViewAt(world, n)
           from == <<p, world[p].ver>>
<1>1. /\ world[p].live /\ world' = [world EXCEPT ![p] = w] /\ esq' = Append(esq, ev)
      /\ UNCHANGED <<births, corr, stopped>>
  BY DEF Exit, Active, Log
<1>2. Image(p) \in ProcType /\ now \in Nat /\ NoTag \in Tags /\ world[p].ver \in Nat /\ world \in [Pid -> ProcessType]
  BY <1>1, ActorOK DEF Tags, ProcessType, AuditInv, MachineOK
<1>3. w.live = FALSE
  BY DEF NoProcess
<1>4. ev \in EventType /\ TokenOf(ev.actor) = from /\ ev.kind = "exit"
  <2>1. TokenOf(Image(p)) = from
    BY DEF TokenOf, Image
  <2> QED BY <1>2, <2>1 DEF EventType
<1> HIDE DEF w, ev
<1>5. ~world'[p].live /\ OthersSame(world, world', p)
  BY <1>1, <1>2, <1>3 DEF OthersSame
<1>6. from \in AliveOf(world)
  BY <1>1, <1>2, RootsAre
<1> HIDE DEF n
<1>7. ViewAt(world', n) = Death(v, from)
  BY <1>1, <1>2, <1>5, DiesAt
<1>8. v.alive = AliveOf(world)
  BY DEF ViewAt
<1>9. ViewOf = v /\ ViewOf' = ViewAt(world', n)
  BY <1>1 DEF ViewOf, n
<1> HIDE DEF v, from
<1>10. Seen(v, ev) = Death(v, from) /\ Legal(v, ev)
  BY <1>4, <1>6, <1>8 DEF Seen, Legal
<1>11. Told(ev)
  BY <1>1, <1>4, <1>7, <1>9, <1>10 DEF Told
<1> QED BY <1>11

\* Nothing is told of a process that puts itself in a sandbox of its own, nor of a denial.
LEMMA ViewSame ==
    ASSUME AuditInv, UNCHANGED births, \A p \in Pid : world'[p].live = world[p].live /\ world'[p].ver = world[p].ver
                                                      /\ world'[p].root = world[p].root
    PROVE  ViewOf' = ViewOf
<1>1. \A t \in Token : t[1] \in Pid
  BY DEF Token
<1>2. AliveOf(world') = AliveOf(world)
  BY <1>1 DEF AliveOf
<1>3. \A x \in Token \X Token : x[1][1] \in Pid
  BY <1>1
<1>4. BoxIn(world') = BoxIn(world)
  BY <1>2, <1>3 DEF BoxIn
<1> QED BY <1>2, <1>4 DEF ViewOf, ViewAt

LEMMA SelfSandboxUntold == ASSUME AuditInv, NEW p \in Pid, SelfSandbox(p) PROVE Untold
<1> DEFINE w == [world[p] EXCEPT !.box = "init", !.last = now]
<1>1. /\ world' = [world EXCEPT ![p].box = "init", ![p].last = now] /\ UNCHANGED <<births, esq, corr, stopped>>
  BY DEF SelfSandbox
<1>2. world \in [Pid -> ProcessType] /\ world[p] \in ProcessType
  BY DEF AuditInv, MachineOK
<1>3. w.live = world[p].live /\ w.ver = world[p].ver /\ w.root = world[p].root
  BY <1>2 DEF ProcessType
<1>4. world' = [world EXCEPT ![p] = w]
  BY <1>1, <1>2
<1> HIDE DEF w
<1>5. ViewOf' = ViewOf
  BY <1>1, <1>2, <1>3, <1>4, ViewSame
<1> QED BY <1>1, <1>5 DEF Untold

LEMMA LogDenialUntold ==
    ASSUME AuditInv, NEW p \in Pid, NEW what, NEW duplicate, LogDenial(p, what, duplicate)
    PROVE  Untold
<1> DEFINE w == [world[p] EXCEPT !.last = now]
<1>1. /\ world' = [world EXCEPT ![p].last = now] /\ UNCHANGED <<births, esq, corr, stopped>>
  BY DEF LogDenial
<1>2. world \in [Pid -> ProcessType] /\ world[p] \in ProcessType
  BY DEF AuditInv, MachineOK
<1>3. w.live = world[p].live /\ w.ver = world[p].ver /\ w.root = world[p].root
  BY <1>2 DEF ProcessType
<1>4. world' = [world EXCEPT ![p] = w]
  BY <1>1, <1>2
<1> HIDE DEF w
<1>5. ViewOf' = ViewOf
  BY <1>1, <1>2, <1>3, <1>4, ViewSame
<1> QED BY <1>1, <1>5 DEF Untold

-----------------------------------------------------------------------------
(* The inductive invariant *)

\* f is the history of the machine over the events s that are not handled yet: f[0] is what it was when
\* the last handled one happened, which is what c knows; the last is v, what it is now.
History(f, s, c, v) ==
    /\ f \in [0..Len(s) -> View]
    /\ \A n \in 0..Len(s) : ViewOK(f[n])
    /\ \A n \in 1..Len(s) : Legal(f[n - 1], s[n]) /\ f[n] = Seen(f[n - 1], s[n])
    /\ f[Len(s)] = v
    /\ Agrees(c, f[0])
InStep(s, c, v) == Family(c) /\ \E f : History(f, s, c, v)

\* The correlator is right about the sandbox-exec trees as of the last event it has handled.
TreeInv == IF stopped THEN RunEndsRight ELSE InStep(esq, corr, ViewOf)

\* An event happens.
LEMMA HistoryGrows ==
    ASSUME NEW s \in Seq(EventType), NEW c, NEW v, InStep(s, c, v), NEW ev \in EventType, Legal(v, ev)
    PROVE  InStep(Append(s, ev), c, Seen(v, ev))
<1> DEFINE m == Len(s)
           q == Append(s, ev)
           w == Seen(v, ev)
<1>1. PICK f : History(f, s, c, v)
  BY DEF InStep
<1>2. m \in Nat /\ Len(q) = m + 1 /\ q[m + 1] = ev /\ \A n \in 1..m : q[n] = s[n]
  BY LenProperties, AppendProperties
<1>3. /\ f \in [0..m -> View] /\ (\A n \in 0..m : ViewOK(f[n])) /\ f[m] = v /\ Agrees(c, f[0])
      /\ \A n \in 1..m : Legal(f[n - 1], s[n]) /\ f[n] = Seen(f[n - 1], s[n])
  BY <1>1 DEF History
<1> DEFINE g == [n \in 0..(m + 1) |-> IF n = m + 1 THEN w ELSE f[n]]
<1>4. ViewOK(v)
  BY <1>2, <1>3
<1>5. ViewOK(w) /\ w \in View
  <2>1. ViewOK(w)
    BY <1>4, SeenOK
  <2> QED BY <2>1 DEF ViewOK
<1> HIDE DEF m, w, q
<1>6. g[m + 1] = w /\ \A n \in 0..m : g[n] = f[n]
  BY <1>2
<1>7. g \in [0..(m + 1) -> View]
  BY <1>2, <1>3, <1>5
<1> HIDE DEF g
<1>8. \A n \in 0..(m + 1) : ViewOK(g[n])
  BY <1>2, <1>3, <1>5, <1>6
<1>9. ASSUME NEW n \in 1..(m + 1) PROVE Legal(g[n - 1], q[n]) /\ g[n] = Seen(g[n - 1], q[n])
  <2>1. CASE n = m + 1
    <3>1. g[n - 1] = v /\ q[n] = ev /\ g[n] = w
      BY <1>2, <1>3, <1>6, <2>1
    <3> QED BY <3>1 DEF w
  <2>2. CASE n \in 1..m
    <3>1. g[n - 1] = f[n - 1] /\ g[n] = f[n] /\ q[n] = s[n]
      BY <1>2, <1>6, <2>2
    <3> QED BY <1>3, <2>2, <3>1
  <2> QED BY <1>2, <2>1, <2>2
<1>10. g[0] = f[0]
  BY <1>2, <1>6
<1>11. History(g, q, c, w)
  BY <1>2, <1>3, <1>6, <1>7, <1>8, <1>9, <1>10 DEF History
<1> QED BY <1>11 DEF InStep, q, w

\* An event is handled.
LEMMA HistoryRead ==
    ASSUME NEW s \in Seq(EventType), s # <<>>, NEW c, Sound(c), NEW v, InStep(s, c, v)
    PROVE  InStep(Tail(s), HandleES(c, Head(s)), v)
<1> DEFINE m == Len(s)
           q == Tail(s)
           b == HandleES(c, s[1])
<1>1. PICK f : History(f, s, c, v)
  BY DEF InStep
<1>2. /\ m \in Nat /\ m > 0 /\ Head(s) = s[1] /\ s[1] \in EventType /\ Len(q) = m - 1
      /\ \A n \in 1..(m - 1) : q[n] = s[n + 1]
  BY QueueHead
<1>3. /\ f \in [0..m -> View] /\ (\A n \in 0..m : ViewOK(f[n])) /\ f[m] = v /\ Agrees(c, f[0])
      /\ \A n \in 1..m : Legal(f[n - 1], s[n]) /\ f[n] = Seen(f[n - 1], s[n])
  BY <1>1 DEF History
<1> HIDE DEF m
<1> DEFINE g == [n \in 0..(m - 1) |-> f[n + 1]]
<1>4. ViewOK(f[0]) /\ Legal(f[0], s[1]) /\ f[1] = Seen(f[0], s[1])
  <2>1. 0 \in 0..m /\ 1 \in 1..m /\ 1 - 1 = 0
    BY <1>2
  <2> QED BY <1>3, <2>1
<1>5. Agrees(b, f[1]) /\ Family(b)
  BY <1>2, <1>3, <1>4, HandleESAgrees DEF InStep
<1> HIDE DEF b, q
<1>6. \A n \in 0..(m - 1) : g[n] = f[n + 1]
  OBVIOUS
<1>7. g \in [0..(m - 1) -> View]
  BY <1>2, <1>3
<1> HIDE DEF g
<1>8. \A n \in 0..(m - 1) : ViewOK(g[n])
  BY <1>2, <1>3, <1>6
<1>9. ASSUME NEW n \in 1..(m - 1) PROVE Legal(g[n - 1], q[n]) /\ g[n] = Seen(g[n - 1], q[n])
  <2>1. g[n - 1] = f[n] /\ g[n] = f[n + 1] /\ q[n] = s[n + 1] /\ n + 1 \in 1..m /\ (n + 1) - 1 = n
    BY <1>2, <1>6
  <2> QED BY <1>3, <2>1
<1>10. g[0] = f[1] /\ g[m - 1] = v
  BY <1>2, <1>3, <1>6
<1>11. History(g, q, b, v)
  BY <1>2, <1>5, <1>7, <1>8, <1>9, <1>10 DEF History
<1>12. InStep(q, b, v)
  BY <1>5, <1>11 DEF InStep
<1> QED BY <1>2, <1>12 DEF q, b

\* A denial or a tick is handled.
LEMMA HistoryAside ==
    ASSUME NEW s, NEW c, Sound(c), NEW v, InStep(s, c, v), NEW b, Sound(b), Aside(c, b)
    PROVE  InStep(s, b, v)
<1>1. PICK f : History(f, s, c, v)
  BY DEF InStep
<1>2. Agrees(b, f[0]) /\ Family(b)
  BY <1>1, AsideAgrees, AsideFamily DEF History, InStep
<1>3. History(f, s, b, v)
  BY <1>1, <1>2 DEF History
<1> QED BY <1>2, <1>3 DEF InStep

\* A tree that was gone when the last handled event happened is gone now.
LEMMA HistoryWithout ==
    ASSUME NEW s \in Seq(EventType), NEW c, NEW v, NEW f, History(f, s, c, v), NEW o, Without(f[0], o)
    PROVE  Without(v, o)
<1> DEFINE m == Len(s)
           S == {n \in 0..m : Without(f[n], o)}
<1>1. m \in Nat /\ \A n \in 1..m : s[n] \in EventType
  BY LenProperties, ElementOfSeq
<1>2. /\ (\A n \in 0..m : ViewOK(f[n])) /\ f[m] = v
      /\ \A n \in 1..m : Legal(f[n - 1], s[n]) /\ f[n] = Seen(f[n - 1], s[n])
  BY DEF History
<1> HIDE DEF m
<1>3. 0 \in S
  BY <1>1
<1>4. ASSUME NEW n \in 0..m, n # m, n \in S PROVE n + 1 \in S
  <2>1. n + 1 \in 1..m /\ n + 1 \in 0..m /\ (n + 1) - 1 = n
    BY <1>1, <1>4
  <2>2. Legal(f[n], s[n + 1]) /\ f[n + 1] = Seen(f[n], s[n + 1]) /\ ViewOK(f[n]) /\ Without(f[n], o)
    BY <1>2, <1>4, <2>1
  <2>3. Without(f[n + 1], o)
    BY <1>1, <2>1, <2>2, SeenWithout
  <2> QED BY <2>1, <2>3
<1>5. \A n \in 0..m : n # m /\ n \in S => n + 1 \in S
  BY <1>4
<1>6. m \in S
  <2>1. m \in Nat /\ m \in 0..m
    BY <1>1
  <2> HIDE DEF S
  <2>2. \A n \in 0..m : n \in S
    BY <1>3, <1>5, <2>1, Induct
  <2> QED BY <2>1, <2>2
<1> QED BY <1>2, <1>6

\* The processes that descend from the sandbox-exec o.
TreeOf(w, o) == {p \in Pid : w[p].live /\ w[p].root = o}

LEMMA TreeIs ==
    ASSUME AuditInv, NEW o \in Token
    PROVE  TreeOf(world, o) = {} <=> \A x \in ViewOf.box : x[2] # o
<1>1. ViewOf.box = BoxIn(world)
  BY DEF ViewOf, ViewAt
<1>2. ASSUME NEW p \in TreeOf(world, o) PROVE \E x \in BoxIn(world) : x[2] = o
  <2>1. p \in Pid /\ world[p].live /\ world[p].root = o /\ world[p].ver \in Nat
    BY DEF TreeOf, AuditInv, MachineOK, ProcessType
  <2> DEFINE t == <<p, world[p].ver>>
             x == <<t, o>>
  <2>2. t \in Token /\ t[1] = p /\ t \in AliveOf(world)
    BY <2>1, TokenIs, RootsAre
  <2> HIDE DEF t
  <2>3. x \in Token \X Token /\ x[1] = t /\ x[2] = o
    BY <2>2
  <2> HIDE DEF x
  <2>4. x \in BoxIn(world)
    BY <2>1, <2>2, <2>3 DEF BoxIn
  <2> QED BY <2>3, <2>4
<1>3. ASSUME NEW x \in BoxIn(world), x[2] = o PROVE x[1][1] \in TreeOf(world, o)
  <2>1. x[1] \in AliveOf(world) /\ x[2] = world[x[1][1]].root /\ x[1] \in Token
    BY DEF BoxIn
  <2>2. x[1][1] \in Pid /\ world[x[1][1]].live
    BY <2>1 DEF AliveOf, Token
  <2> QED BY <1>3, <2>1, <2>2 DEF TreeOf
<1> QED BY <1>1, <1>2, <1>3

LEMMA BoxOfIs ==
    ASSUME NEW c, Sound(c), NEW v, Agrees(c, v), NEW r \in DOMAIN c.runs, c.runs[r].kind = "sandbox-exec"
    PROVE  BoxOf(c, r) \in Token
<1>1. c.runs[r].root \in DOMAIN c.img
  BY BoxRunRoot
<1>2. c.img[c.runs[r].root] \in ImageType
  BY <1>1, CorrFields
<1> QED BY <1>2 DEF ImageType, BoxOf, TokenOf, Token

\* What TreeInv says of a sandbox-exec run as long as the watch goes on.
LEMMA TreesEnd ==
    ASSUME AuditInv, NEW c, Sound(c), InStep(esq, c, ViewOf), NEW r \in DOMAIN c.runs, c.runs[r].kind = "sandbox-exec"
    PROVE  /\ c.runs[r].ended => TreeOf(world, BoxOf(c, r)) = {} /\ RunClosed(c, r) /\ c.runs[r].live = {}
           /\ c.runs[r].ended => c.runs[r].status = "exited"
           /\ esq = <<>> /\ ~c.runs[r].ended => TreeOf(world, BoxOf(c, r)) # {}
<1>1. PICK f : History(f, esq, c, ViewOf)
  BY DEF InStep
<1>2. Agrees(c, f[0]) /\ esq \in Seq(EventType) /\ Len(esq) \in Nat
  BY <1>1, LenProperties DEF History, AuditInv, StreamsOK
<1>3. ViewOK(f[0])
  <2>1. 0 \in 0..Len(esq)
    BY <1>2
  <2> QED BY <1>1, <2>1 DEF History
<1>4. BoxOf(c, r) \in Token
  BY <1>2, BoxOfIs
<1>5. ASSUME c.runs[r].ended PROVE TreeOf(world, BoxOf(c, r)) = {} /\ RunClosed(c, r) /\ c.runs[r].live = {}
  <2>1. Without(f[0], BoxOf(c, r)) /\ RunClosed(c, r) /\ c.runs[r].live = {}
    BY <1>2, <1>3, <1>5, ExitedRight
  <2>2. Without(ViewOf, BoxOf(c, r))
    BY <1>1, <1>2, <2>1, HistoryWithout
  <2> QED BY <1>4, <2>1, <2>2, TreeIs DEF Without
<1>6. c.runs[r].ended => c.runs[r].status = "exited"
  BY <1>2 DEF Agrees, BoxRunOK
<1>7. ASSUME esq = <<>>, ~c.runs[r].ended PROVE TreeOf(world, BoxOf(c, r)) # {}
  <2>1. f[0] = ViewOf
    BY <1>1, <1>7, EmptySeq DEF History
  <2>2. \E x \in ViewOf.box : x[2] = BoxOf(c, r)
    BY <1>2, <1>7, <2>1, RunningRight
  <2> QED BY <1>4, <2>2, TreeIs
<1> QED BY <1>5, <1>6, <1>7

LEMMA InvRunEndsRight == ASSUME AuditInv, TreeInv PROVE RunEndsRight
<1>1. CASE stopped
  BY <1>1 DEF TreeInv
<1>2. CASE ~stopped
  <2>1. Sound(corr) /\ InStep(esq, corr, ViewOf)
    BY <1>2 DEF TreeInv, AuditInv, CorrelatorOK
  <2>2. ASSUME NEW r \in DOMAIN corr.runs, corr.runs[r].kind = "sandbox-exec"
        PROVE  /\ corr.runs[r].status = "exited" => TreeOf(world, BoxOf(corr, r)) = {} /\ RunClosed(corr, r)
               /\ esq = <<>> => (corr.runs[r].status = "running" <=> TreeOf(world, BoxOf(corr, r)) # {})
    <3>1. RunOK(corr, r)
      BY <2>1 DEF Sound
    <3>2. /\ corr.runs[r].ended => TreeOf(world, BoxOf(corr, r)) = {} /\ RunClosed(corr, r)
          /\ esq = <<>> /\ ~corr.runs[r].ended => TreeOf(world, BoxOf(corr, r)) # {}
      BY <2>1, <2>2, TreesEnd
    <3> QED BY <3>1, <3>2 DEF RunOK
  <2> QED BY <2>2 DEF RunEndsRight, RunClosed, TreeOf, BoxOf, TokenOf
<1> QED BY <1>1, <1>2

-----------------------------------------------------------------------------
(* The steps *)

LEMMA InitTree == ASSUME Init PROVE TreeInv
<1> DEFINE n == Len(births)
           v == ViewAt(world, n)
<1>1. esq = <<>> /\ corr = Empty /\ stopped = FALSE /\ AuditInv
  BY InitInv DEF Init
<1>2. world \in [Pid -> ProcessType] /\ n \in Nat /\ \A p \in Pid : world[p].live => world[p].ver \in 1..n
  BY <1>1, LenProperties DEF AuditInv, MachineOK
<1>3. \A p \in Pid : world[p].root = <<0, 0>>
  <2>1. PICK boxed \in SUBSET (Pid \ {1}) : \E tag \in [boxed -> PreTags] :
          world = [p \in Pid |-> IF p = 1 THEN Watched(p)
                                 ELSE IF p \in boxed THEN [Watched(p) EXCEPT !.box = "pre", !.tag = tag[p]]
                                 ELSE NoProcess]
    BY DEF Init
  <2>2. PICK tag \in [boxed -> PreTags] :
          world = [p \in Pid |-> IF p = 1 THEN Watched(p)
                                 ELSE IF p \in boxed THEN [Watched(p) EXCEPT !.box = "pre", !.tag = tag[p]]
                                 ELSE NoProcess]
    BY <2>1
  <2>3. NoProcess.root = <<0, 0>>
    BY DEF NoProcess
  <2>4. \A p \in Pid : Watched(p).root = <<0, 0>>
    BY DEF Watched, NoProcess
  <2>5. \A p \in Pid : [Watched(p) EXCEPT !.box = "pre", !.tag = tag[p]].root = Watched(p).root
    BY DEF Watched, NoProcess
  <2> SUFFICES ASSUME NEW p \in Pid PROVE world[p].root = <<0, 0>>
    OBVIOUS
  <2> QED BY <2>2, <2>3, <2>4, <2>5
<1>4. <<0, 0>> \notin Token
  <2>1. 0 \notin Pid
    BY Constants
  <2> QED BY <2>1 DEF Token
<1>5. BoxIn(world) = {}
  <2>1. ASSUME NEW x \in BoxIn(world) PROVE FALSE
    <3>1. x[2] \in Token /\ x[1][1] \in Pid /\ x[2] = world[x[1][1]].root
      BY DEF BoxIn, Token
    <3> QED BY <1>3, <1>4, <3>1
  <2> QED BY <2>1
<1>6. v.alive = AliveOf(world) /\ v.box = {} /\ v.top = n
  BY <1>5 DEF ViewAt
<1> HIDE DEF n
<1>7. v \in View
  BY <1>2, <1>5 DEF View, ViewAt, AliveOf
<1> HIDE DEF v
<1>8. ViewOK(v)
  <2>1. \A t \in AliveOf(world) : t[2] \in 1..n
    BY <1>2 DEF AliveOf, Token
  <2> QED BY <1>6, <1>7, <2>1 DEF ViewOK
<1>9. /\ Empty.img = <<>> /\ Empty.runs = <<>> /\ Empty.tokens = {} /\ \A t \in Tag : Empty.adopted[t] = 0
  BY DEF Empty
<1>10. Agrees(Empty, v) /\ Family(Empty)
  BY <1>6, <1>9 DEF Agrees, Distinct, Family, AdoptedOK
<1> DEFINE f == [k \in {0} |-> v]
<1>11. 0..0 = {0} /\ f[0] = v /\ f \in [{0} -> View] /\ 1..0 = {}
  BY <1>7
<1> HIDE DEF f
<1>12. History(f, <<>>, Empty, v)
  <2>1. Len(<<>>) = 0
    BY EmptySeq
  <2> QED BY <1>8, <1>10, <1>11, <2>1 DEF History
<1>13. InStep(<<>>, Empty, v)
  BY <1>10, <1>12 DEF InStep
<1> QED BY <1>1, <1>13 DEF TreeInv, ViewOf, v, n

LEMMA ToldTree == ASSUME AuditInv, TreeInv, ~stopped, NEW ev, Told(ev) PROVE TreeInv'
<1>1. esq \in Seq(EventType) /\ InStep(esq, corr, ViewOf)
  BY DEF AuditInv, StreamsOK, TreeInv
<1>2. /\ ev \in EventType /\ esq' = Append(esq, ev) /\ Legal(ViewOf, ev) /\ ViewOf' = Seen(ViewOf, ev)
      /\ corr' = corr /\ stopped' = stopped
  BY DEF Told
<1>3. InStep(Append(esq, ev), corr, Seen(ViewOf, ev))
  BY <1>1, <1>2, HistoryGrows
<1>4. InStep(esq', corr', ViewOf')
  BY <1>2, <1>3
<1> QED BY <1>2, <1>4 DEF TreeInv

LEMMA UntoldTree == ASSUME TreeInv, ~stopped, Untold PROVE TreeInv'
<1>1. InStep(esq', corr', ViewOf')
  BY DEF TreeInv, Untold
<1> QED BY <1>1 DEF TreeInv, Untold

LEMMA DeliverESTree == ASSUME AuditInv, TreeInv, DeliverES PROVE TreeInv'
<1>1. /\ ~stopped /\ esq # <<>> /\ corr' = HandleES(corr, Head(esq)) /\ esq' = Tail(esq)
      /\ UNCHANGED <<world, births, stopped>>
  BY DEF DeliverES
<1>2. esq \in Seq(EventType) /\ Sound(corr) /\ InStep(esq, corr, ViewOf)
  BY <1>1 DEF AuditInv, StreamsOK, CorrelatorOK, TreeInv
<1>3. ViewOf' = ViewOf
  BY <1>1 DEF ViewOf
<1>4. InStep(Tail(esq), HandleES(corr, Head(esq)), ViewOf)
  BY <1>1, <1>2, HistoryRead
<1>5. InStep(esq', corr', ViewOf')
  BY <1>1, <1>3, <1>4
<1> QED BY <1>1, <1>5 DEF TreeInv

\* The loop handles something that is no event.
LEMMA AsideTree ==
    ASSUME AuditInv, TreeInv, ~stopped, Sound(corr'), Aside(corr, corr'), UNCHANGED <<world, births, esq, stopped>>
    PROVE  TreeInv'
<1>1. Sound(corr) /\ InStep(esq, corr, ViewOf)
  BY DEF AuditInv, CorrelatorOK, TreeInv
<1>2. InStep(esq, corr', ViewOf)
  BY <1>1, HistoryAside
<1>3. ViewOf' = ViewOf
  BY DEF ViewOf
<1>4. InStep(esq', corr', ViewOf')
  BY <1>2, <1>3
<1> QED BY <1>4 DEF TreeInv

LEMMA DeliverDenialTree == ASSUME AuditInv, TreeInv, DeliverDenial PROVE TreeInv'
<1>1. /\ ~stopped /\ denq # <<>> /\ corr' = HandleDenial(corr, Head(denq), now)
      /\ UNCHANGED <<world, births, esq, stopped>>
  BY DEF DeliverDenial
<1>2. denq \in Seq(LineType) /\ Sound(corr) /\ now \in Nat
  BY Constants DEF AuditInv, StreamsOK, MachineOK, CorrelatorOK
<1>3. Head(denq) \in LineType
  <2>1. Head(denq) = denq[1] /\ denq[1] \in LineType
    BY <1>1, <1>2, QueueHead
  <2> QED BY <2>1
<1>4. Aside(corr, corr')
  BY <1>1, <1>2, <1>3, HandleDenialAside
<1>5. Sound(corr')
  BY DeliverDenialInv DEF AuditInv, CorrelatorOK
<1> QED BY <1>1, <1>4, <1>5, AsideTree

LEMMA TickTree == ASSUME AuditInv, TreeInv, TickStep PROVE TreeInv'
<1>1. PICK order \in Orders(corr) : corr' = Tick(corr, now, order)
  BY DEF TickStep
<1>2. ~stopped /\ UNCHANGED <<world, births, esq, stopped>>
  BY DEF TickStep
<1>3. Sound(corr) /\ now \in Nat /\ IsFiniteSet(corr.pend) /\ Family(corr)
  BY <1>2, Constants DEF AuditInv, MachineOK, CorrelatorOK, Ledger, TreeInv, InStep
<1>4. Sound(corr') /\ Aside(corr, corr')
  BY <1>1, <1>3, TickAside DEF Still
<1> QED BY <1>2, <1>4, AsideTree

\* What Shutdown closes.
LEMMA ClosedIs ==
    ASSUME NEW c, Sound(c)
    PROVE  LET b == Closed(c)
           IN  /\ DOMAIN b.img = DOMAIN c.img /\ DOMAIN b.runs = DOMAIN c.runs
               /\ \A i \in DOMAIN c.img :
                    /\ b.img[i].pid = c.img[i].pid /\ b.img[i].ver = c.img[i].ver /\ b.img[i].run = c.img[i].run
                    /\ b.img[i].end = c.img[i].end
                    /\ (\A r \in DOMAIN c.runs : i \notin c.runs[r].live) => b.img[i].row = c.img[i].row
               /\ \A r \in DOMAIN c.runs :
                    /\ b.runs[r].kind = c.runs[r].kind /\ b.runs[r].root = c.runs[r].root
                    /\ b.runs[r].endedAt = c.runs[r].endedAt
                    /\ b.runs[r].status = "exited" => c.runs[r].ended
<1> DEFINE open == UNION {c.runs[r].live : r \in DOMAIN c.runs}
           close(r) == IF r.ended THEN [r EXCEPT !.live = {}]
                       ELSE [r EXCEPT !.live = {}, !.ended = TRUE, !.status = "watch_stopped"]
           img == [i \in DOMAIN c.img |-> IF i \in open THEN [c.img[i] EXCEPT !.row = "watch_stopped"] ELSE c.img[i]]
           runs == [r \in DOMAIN c.runs |-> close(c.runs[r])]
           b == Closed(c)
<1>1. c \in CorrType
  BY DEF Sound
<1>2. /\ \A i \in DOMAIN c.img : c.img[i] \in ImageType
      /\ \A r \in DOMAIN c.runs : c.runs[r] \in RunType
  BY CorrFields
<1>3. b = [c EXCEPT !.img = img, !.runs = runs]
  BY <1>1 DEF Closed, CorrType
<1> HIDE DEF b
<1>4. ASSUME NEW x \in RunType
      PROVE  /\ close(x).kind = x.kind /\ close(x).root = x.root /\ close(x).endedAt = x.endedAt
             /\ close(x).status = "exited" => x.ended
  BY DEF RunType
<1>5. ASSUME NEW i \in DOMAIN c.img
      PROVE  /\ img[i].pid = c.img[i].pid /\ img[i].ver = c.img[i].ver /\ img[i].run = c.img[i].run
             /\ img[i].end = c.img[i].end /\ (i \notin open => img[i].row = c.img[i].row)
  <2> DEFINE x == c.img[i]
  <2>1. x \in ImageType
    BY <1>2
  <2> HIDE DEF x, open
  <2>2. img[i] = IF i \in open THEN [x EXCEPT !.row = "watch_stopped"] ELSE x
    BY DEF x
  <2> HIDE DEF img
  <2>3. /\ img[i].pid = x.pid /\ img[i].ver = x.ver /\ img[i].run = x.run
        /\ img[i].end = x.end /\ (i \notin open => img[i].row = x.row)
    BY <2>1, <2>2 DEF ImageType
  <2> QED BY <2>3 DEF x
<1>6. \A i : (\A r \in DOMAIN c.runs : i \notin c.runs[r].live) => i \notin open
  OBVIOUS
<1> HIDE DEF close
<1>7. \A r \in DOMAIN c.runs : runs[r] = close(c.runs[r])
  OBVIOUS
<1>8. DOMAIN img = DOMAIN c.img /\ DOMAIN runs = DOMAIN c.runs
  OBVIOUS
<1> HIDE DEF img, runs, open
<1>9. b.img = img /\ b.runs = runs
  BY <1>1, <1>3 DEF CorrType
<1> QED BY <1>2, <1>4, <1>5, <1>6, <1>7, <1>8, <1>9 DEF b

LEMMA StopTree == ASSUME AuditInv, TreeInv, Stop PROVE TreeInv'
<1>1. PICK order \in Orders(corr) : corr' = Shutdown(corr, order)
  BY DEF Stop
<1>2. ~stopped /\ stopped' = TRUE /\ UNCHANGED <<world, births, esq>>
  BY DEF Stop
<1>3. Sound(corr) /\ IsFiniteSet(corr.pend) /\ InStep(esq, corr, ViewOf) /\ Family(corr)
  BY <1>2 DEF AuditInv, CorrelatorOK, Ledger, TreeInv, InStep
<1>4. PICK a : Still(corr, a) /\ corr' = Closed(a)
  BY <1>1, <1>3, ShutdownAside
<1>5. Sound(a) /\ InStep(esq, a, ViewOf)
  BY <1>3, <1>4, HistoryAside DEF Still
<1> DEFINE b == Closed(a)
<1>6. /\ DOMAIN b.img = DOMAIN a.img /\ DOMAIN b.runs = DOMAIN a.runs
      /\ \A i \in DOMAIN a.img :
           /\ b.img[i].pid = a.img[i].pid /\ b.img[i].ver = a.img[i].ver /\ b.img[i].run = a.img[i].run
           /\ b.img[i].end = a.img[i].end
           /\ (\A r \in DOMAIN a.runs : i \notin a.runs[r].live) => b.img[i].row = a.img[i].row
      /\ \A r \in DOMAIN a.runs :
           /\ b.runs[r].kind = a.runs[r].kind /\ b.runs[r].root = a.runs[r].root
           /\ b.runs[r].endedAt = a.runs[r].endedAt
           /\ b.runs[r].status = "exited" => a.runs[r].ended
  BY <1>5, ClosedIs
<1> HIDE DEF b
<1>7. ASSUME NEW r \in DOMAIN b.runs, b.runs[r].kind = "sandbox-exec", b.runs[r].status = "exited"
      PROVE  TreeOf(world, BoxOf(b, r)) = {} /\ RunClosed(b, r)
  <2>1. r \in DOMAIN a.runs /\ a.runs[r].kind = "sandbox-exec" /\ a.runs[r].ended
    BY <1>6, <1>7
  <2>2. TreeOf(world, BoxOf(a, r)) = {} /\ RunClosed(a, r) /\ a.runs[r].live = {}
    BY <1>5, <2>1, TreesEnd
  <2>3. BoxOf(b, r) = BoxOf(a, r)
    <3>1. a.runs[r].root \in DOMAIN a.img
      BY <1>5, <2>1, BoxRunRoot DEF InStep, History
    <3> QED BY <1>6, <2>1, <3>1 DEF BoxOf, TokenOf
  <2>4. ASSUME NEW i \in DOMAIN a.img, a.img[i].run = r, NEW q \in DOMAIN a.runs PROVE i \notin a.runs[q].live
    BY <1>5, <2>2, <2>4 DEF Sound, RunOK
  <2>5. \A i \in DOMAIN a.img : a.img[i].run = r => b.img[i].row = a.img[i].row
    BY <1>6, <2>4
  <2>6. RunClosed(b, r)
    BY <1>6, <2>1, <2>2, <2>5 DEF RunClosed
  <2> QED BY <2>2, <2>3, <2>6
<1>8. corr' = b /\ world' = world
  BY <1>2, <1>4 DEF b
<1>9. RunEndsRight'
  BY <1>2, <1>7, <1>8 DEF RunEndsRight, RunClosed, TreeOf, BoxOf, TokenOf
<1> QED BY <1>2, <1>9 DEF TreeInv

LEMMA NextTree == ASSUME AuditInv, TreeInv, [Next]_vars PROVE TreeInv'
<1>1. ASSUME NEW ev, Told(ev), ~stopped PROVE TreeInv'
  BY <1>1, ToldTree
<1>2. ASSUME NEW p \in Pid, NEW q \in Pid, Fork(p, q) PROVE TreeInv'
  BY <1>1, <1>2, ForkTold DEF Fork, Active
<1>3. ASSUME NEW p \in Pid, NEW prog \in Prog, Exec(p, prog) PROVE TreeInv'
  BY <1>1, <1>3, ExecTold DEF Exec, Active
<1>4. ASSUME NEW p \in Pid, ExecSandbox(p) PROVE TreeInv'
  BY <1>1, <1>4, ExecSandboxTold DEF ExecSandbox, Active
<1>5. ASSUME NEW p \in Pid, Exit(p) PROVE TreeInv'
  BY <1>1, <1>5, ExitTold DEF Exit, Active
<1>6. ASSUME NEW p \in Pid, SelfSandbox(p) PROVE TreeInv'
  BY <1>6, SelfSandboxUntold, UntoldTree DEF SelfSandbox, Active
<1>7. ASSUME NEW p \in Pid, NEW what \in What, Deny(p, what) PROVE TreeInv'
  <2>1. ~stopped /\ LogDenial(p, what, FALSE)
    BY <1>7 DEF Deny, Active
  <2> QED BY <2>1, LogDenialUntold, UntoldTree
<1>8. ASSUME NEW p \in Pid, NEW what \in What, Repeat(p, what) PROVE TreeInv'
  <2>1. ~stopped /\ LogDenial(p, what, TRUE)
    BY <1>8 DEF Repeat, Active
  <2> QED BY <2>1, LogDenialUntold, UntoldTree
<1>9. CASE Machine
  BY <1>2, <1>3, <1>4, <1>5, <1>6, <1>7, <1>8, <1>9 DEF Machine
<1>10. CASE Advance
  <2>1. ~stopped /\ UNCHANGED <<world, births, esq, corr, stopped>>
    BY <1>10 DEF Advance
  <2> QED BY <2>1, UntoldTree DEF Untold, ViewOf
<1>11. CASE Loop
  BY <1>11, DeliverESTree, DeliverDenialTree, TickTree, StopTree DEF Loop
<1>12. CASE UNCHANGED vars
  <2>1. UNCHANGED <<world, births, esq, corr, stopped>>
    BY <1>12 DEF vars
  <2>2. CASE stopped
    BY <2>1, <2>2 DEF TreeInv, RunEndsRight
  <2>3. CASE ~stopped
    BY <2>1, <2>3, UntoldTree DEF Untold, ViewOf
  <2> QED BY <2>2, <2>3
<1> QED BY <1>9, <1>10, <1>11, <1>12 DEF Next

\* A sandbox-exec run ends with the last process of its tree, however many processes, events and denials
\* there are and however late either stream is: when endImage and maybeEndRun have ended a run no process
\* of it is left, its rows are closed and it ended when the last of them did; and when every event is
\* read a run is "running" exactly if a process of its tree lives.
THEOREM RunEndsRightHolds == Spec => []RunEndsRight
<1>1. Init => TreeInv
  BY InitTree
<1>2. AuditInv /\ TreeInv /\ [Next]_vars => TreeInv'
  BY NextTree
<1>3. AuditInv /\ TreeInv => RunEndsRight
  BY InvRunEndsRight
<1> QED BY <1>1, <1>2, <1>3, AuditInvariant, PTL DEF Spec
==============================================================================
