------------------------------ MODULE AuditProofs ------------------------------
(***************************************************************************)
(* Proofs about the correlator under a machine and two streams (module     *)
(* Audit): its tables stay sound, no denial line is lost or counted twice, *)
(* none waits for ever, and Shutdown closes all.                           *)
(*                                                                         *)
(* The argument has two halves.  "Sound" is about the tables of images and *)
(* runs; every handler that only changes those is shown to keep it and the *)
(* books (Becomes).  "Ledger" is about where the lines are: the pending    *)
(* denials and the rows are pages with disjoint sets of lines, and each    *)
(* step of HandleDenial, Tick and Shutdown opens a page, adds one line to  *)
(* a page, or moves a page.                                                *)
(*                                                                         *)
(* What a loop does (the walk over parents, the ticks over the pending     *)
(* denials) is a recursive function; LoopExists shows that it exists and   *)
(* Induct that it stays in a set.                                          *)
(***************************************************************************)
EXTENDS Audit, FiniteSetTheorems, SequenceTheorems, TLAPS

-----------------------------------------------------------------------------
(* Numbers *)

\* Induction over the numbers up to m, for a set of them.
LEMMA Induct ==
    ASSUME NEW m \in Nat, NEW S, 0 \in S, \A n \in 0..m : n # m /\ n \in S => n + 1 \in S
    PROVE  \A n \in 0..m : n \in S
<1> SUFFICES ASSUME NEW n \in 0..m, n \notin S PROVE FALSE
  OBVIOUS
<1> DEFINE R == {ss \in Nat \X Nat : ss[1] < ss[2]}
           bad == {x \in 0..m : x \notin S}
<1>1. IsWellFoundedOn(R, Nat)
  BY NatLessThanWellFounded DEF OpToRel
<1>2. PICK x \in bad : \A y \in bad : <<y, x>> \notin R
  <2>1. bad \subseteq Nat /\ bad # {}
    OBVIOUS
  <2> HIDE DEF bad, R
  <2> QED BY <1>1, <2>1, WFMin
<1>3. x # 0 /\ x - 1 \in 0..m
  OBVIOUS
<1>4. x - 1 \notin bad
  <2>1. <<x - 1, x>> \in R
    BY <1>3
  <2> QED BY <1>2, <2>1
<1>5. (x - 1) + 1 = x /\ x - 1 # m
  OBVIOUS
<1> QED BY <1>3, <1>4, <1>5

\* What one loop over 1..m does to a state, if every turn of it leads from A to A.
\* f is the state after each turn, from a on.
IsLoop(f, m, a, turn) == f = [n \in 0..m |-> IF n = 0 THEN a ELSE turn[<<f[n - 1], n>>]]

LEMMA LoopExists ==
    ASSUME NEW A, NEW a \in A, NEW m \in Nat, NEW turn \in [A \X (1..m) -> A]
    PROVE  \E f \in [0..m -> A] : IsLoop(f, m, a, turn)
<1> DEFINE Runs(f, k) == f = [n \in 0..k |-> IF n = 0 THEN a ELSE turn[<<f[n - 1], n>>]]
           S == {k \in 0..m : \E f \in [0..k -> A] : Runs(f, k)}
<1>1. 0 \in S
  <2>a. \A n \in 0..0 : n = 0
    BY SMT
  <2> DEFINE f == [n \in 0..0 |-> a]
  <2>1. f \in [0..0 -> A] /\ Runs(f, 0)
    BY <2>a
  <2>2. \E g \in [0..0 -> A] : Runs(g, 0)
    <3> HIDE DEF f, Runs
    <3> QED BY <2>1
  <2> HIDE DEF Runs
  <2> QED BY <2>2
<1>2. ASSUME NEW k \in 0..m, k # m, k \in S PROVE k + 1 \in S
  <2>1. PICK f \in [0..k -> A] : Runs(f, k)
    BY <1>2
  <2> DEFINE g == [n \in 0..(k + 1) |-> IF n = k + 1 THEN turn[<<f[k], k + 1>>] ELSE f[n]]
  <2>2. k \in Nat /\ k + 1 \in 1..m /\ f[k] \in A
    BY <1>2
  <2>3. g \in [0..(k + 1) -> A]
    BY <2>2
  <2>4. ASSUME NEW n \in 0..(k + 1) PROVE g[n] = IF n = 0 THEN a ELSE turn[<<g[n - 1], n>>]
    <3>1. CASE n = 0
      BY <2>1, <2>2, <3>1
    <3>2. CASE n \in 1..k
      <4>1. g[n] = f[n] /\ g[n - 1] = f[n - 1]
        BY <2>2, <3>2
      <4>2. f[n] = turn[<<f[n - 1], n>>]
        BY <2>1, <2>2, <3>2
      <4> HIDE DEF g
      <4> QED BY <3>2, <4>1, <4>2
    <3>3. CASE n = k + 1
      <4>1. g[k + 1] = turn[<<f[k], k + 1>>] /\ g[k] = f[k] /\ n # 0 /\ n - 1 = k
        BY <2>2, <3>3
      <4> HIDE DEF g
      <4> QED BY <3>3, <4>1
    <3> QED BY <2>2, <3>1, <3>2, <3>3
  <2>5. Runs(g, k + 1)
    <3>1. g = [n \in 0..(k + 1) |-> g[n]]
      OBVIOUS
    <3> HIDE DEF g
    <3> QED BY <2>4, <3>1
  <2>6. \E h \in [0..(k + 1) -> A] : Runs(h, k + 1)
    <3> HIDE DEF g, Runs
    <3> QED BY <2>3, <2>5
  <2> HIDE DEF Runs
  <2> QED BY <2>2, <2>6
<1>3. m \in S
  <2> HIDE DEF S
  <2> QED BY <1>1, <1>2, Induct
<1> QED BY <1>3 DEF IsLoop

-----------------------------------------------------------------------------
(* Books: sets of <<table, name, ids, count>> *)

Balanced(B, X, D) ==
    /\ X \cup UNION {b[3] : b \in B} = D
    /\ \A b \in B : IsFiniteSet(b[3]) /\ b[4] = Cardinality(b[3]) /\ b[3] \cap X = {}
    /\ \A b1, b2 \in B : b1 # b2 => b1[3] \cap b2[3] = {}

\* A line that is new is entered on a page of its own.
LEMMA NewPage ==
    ASSUME NEW B, NEW X, NEW D, NEW id, NEW e, Balanced(B, X, D), id \notin D, e[3] = {id}, e[4] = 1
    PROVE  Balanced(B \cup {e}, X, D \cup {id})
<1>1. \A b \in B : b[3] \subseteq D
  BY DEF Balanced
<1>2. IsFiniteSet({id}) /\ Cardinality({id}) = 1
  BY FS_Singleton
<1>3. X \cup UNION {b[3] : b \in B \cup {e}} = D \cup {id}
  BY DEF Balanced
<1>4. id \notin X
  BY DEF Balanced
<1>5. ASSUME NEW x \in B \cup {e} PROVE IsFiniteSet(x[3]) /\ x[4] = Cardinality(x[3]) /\ x[3] \cap X = {}
  <2>1. CASE x \in B
    BY <2>1 DEF Balanced
  <2>2. CASE x = e
    BY <1>2, <1>4, <2>2
  <2> QED BY <2>1, <2>2
<1>6. ASSUME NEW x \in B \cup {e}, NEW y \in B \cup {e}, x # y PROVE x[3] \cap y[3] = {}
  <2>1. CASE x \in B /\ y \in B
    BY <1>6, <2>1 DEF Balanced
  <2>2. CASE x = e \/ y = e
    BY <1>1, <1>6, <2>2
  <2> QED BY <2>1, <2>2
<1> QED BY <1>3, <1>5, <1>6 DEF Balanced

\* A page is replaced by one with the same lines.
LEMMA MovePage ==
    ASSUME NEW B, NEW X, NEW D, NEW b, NEW e, Balanced(B \cup {b}, X, D), b \notin B, e[3] = b[3], e[4] = b[4]
    PROVE  Balanced(B \cup {e}, X, D)
<1>1. UNION {x[3] : x \in B \cup {e}} = UNION {x[3] : x \in B \cup {b}}
  OBVIOUS
<1>2. \A x \in B : x[3] \cap b[3] = {}
  BY DEF Balanced
<1> QED BY <1>1, <1>2 DEF Balanced

\* The lines of a page are dropped.
LEMMA DropPage ==
    ASSUME NEW B, NEW X, NEW D, NEW b, Balanced(B \cup {b}, X, D), b \notin B
    PROVE  Balanced(B, X \cup b[3], D)
<1>1. \A x \in B : x[3] \cap b[3] = {}
  BY DEF Balanced
<1>2. (X \cup b[3]) \cup UNION {x[3] : x \in B} = D
  BY DEF Balanced
<1> QED BY <1>1, <1>2 DEF Balanced

\* A line that is new is entered on a page that is there.
LEMMA SamePage ==
    ASSUME NEW B, NEW X, NEW D, NEW b, NEW e, NEW id, Balanced(B \cup {b}, X, D), b \notin B, id \notin D,
           e[3] = b[3] \cup {id}, e[4] = b[4] + 1
    PROVE  Balanced(B \cup {e}, X, D \cup {id})
<1>1. \A x \in B \cup {b} : x[3] \subseteq D
  BY DEF Balanced
<1>2. X \cup UNION {x[3] : x \in B \cup {e}} = D \cup {id}
  BY DEF Balanced
<1>3. IsFiniteSet(b[3]) /\ b[4] = Cardinality(b[3]) /\ id \notin b[3]
  BY <1>1 DEF Balanced
<1>4. IsFiniteSet(e[3]) /\ e[4] = Cardinality(e[3])
  <2>1. IsFiniteSet(b[3] \cup {id}) /\ Cardinality(b[3] \cup {id}) = Cardinality(b[3]) + 1
    BY <1>3, FS_AddElement
  <2> QED BY <1>3, <2>1
<1>5. id \notin X
  BY DEF Balanced
<1>6. \A x \in B : x[3] \cap b[3] = {}
  BY DEF Balanced
<1>7. ASSUME NEW x \in B \cup {e} PROVE IsFiniteSet(x[3]) /\ x[4] = Cardinality(x[3]) /\ x[3] \cap X = {}
  <2>1. CASE x \in B
    BY <2>1 DEF Balanced
  <2>2. CASE x = e
    <3>1. b[3] \cap X = {}
      BY DEF Balanced
    <3> QED BY <1>4, <1>5, <2>2, <3>1
  <2> QED BY <2>1, <2>2
<1>8. ASSUME NEW x \in B \cup {e}, NEW y \in B \cup {e}, x # y PROVE x[3] \cap y[3] = {}
  <2>1. CASE x \in B /\ y \in B
    BY <1>8, <2>1 DEF Balanced
  <2>2. CASE x = e \/ y = e
    BY <1>1, <1>6, <1>8, <2>2
  <2> QED BY <2>1, <2>2
<1> QED BY <1>2, <1>7, <1>8 DEF Balanced

\* The book of x, whose lines are counted under a name in a table.
Page(table, name, x) == <<table, name, x.ids, x.count>>

LEMMA PageFields ==
    ASSUME NEW t, NEW n, NEW x
    PROVE  /\ Page(t, n, x)[1] = t /\ Page(t, n, x)[2] = n
           /\ Page(t, n, x)[3] = x.ids /\ Page(t, n, x)[4] = x.count
BY DEF Page

LEMMA BooksAppend ==
    ASSUME NEW t, NEW S, NEW s \in Seq(S), NEW x \in S
    PROVE  RowBooks(t, Append(s, x)) = RowBooks(t, s) \cup {Page(t, Len(s) + 1, x)}
<1> DEFINE s2 == Append(s, x)
<1>1. DOMAIN s2 = DOMAIN s \cup {Len(s) + 1}
  OBVIOUS
<1>2. s2[Len(s) + 1] = x /\ \A n \in DOMAIN s : s2[n] = s[n]
  OBVIOUS
<1> HIDE DEF s2
<1> QED BY <1>1, <1>2 DEF RowBooks, Page

\* The row n of s is what changes.
RowChanges(s, s2, n) == n \in DOMAIN s /\ DOMAIN s2 = DOMAIN s /\ \A m \in DOMAIN s \ {n} : s2[m] = s[m]

LEMMA BooksUpdate ==
    ASSUME NEW t, NEW s, NEW s2, NEW n, RowChanges(s, s2, n)
    PROVE  \E B : /\ RowBooks(t, s) = B \cup {Page(t, n, s[n])}
                  /\ RowBooks(t, s2) = B \cup {Page(t, n, s2[n])}
                  /\ \A b \in B : b[1] = t /\ b[2] # n
<1> DEFINE B == {Page(t, m, s[m]) : m \in DOMAIN s \ {n}}
<1>1. B = {Page(t, m, s2[m]) : m \in DOMAIN s \ {n}}
  BY DEF RowChanges
<1>2. RowBooks(t, s) = B \cup {Page(t, n, s[n])}
  BY DEF RowBooks, Page, RowChanges
<1>3. RowBooks(t, s2) = B \cup {Page(t, n, s2[n])}
  BY <1>1 DEF RowBooks, Page, RowChanges
<1>4. \A b \in B : b[1] = t /\ b[2] # n
  BY DEF Page
<1> HIDE DEF B
<1> QED BY <1>2, <1>3, <1>4

-----------------------------------------------------------------------------
(* Types *)

Path == Prog \cup {Shell, "unknown"}
Tags == Tag \cup {NoTag}

ProcType == [pid : Pid, ver : Nat, prog : Path, born : Nat]
EventType == [kind : {"fork", "exec", "exit"}, time : Nat, actor : ProcType, target : ProcType, tag : Tags]
LineType == [id : Nat \ {0}, pid : Pid, what : What, tag : Tags, time : Nat, duplicate : BOOLEAN]

ImageType ==
    [pid : Pid, ver : Nat, prog : Path, execSeen : BOOLEAN, noToken : BOOLEAN, parent : Nat, prev : Nat,
     start : Nat, end : Nat \cup {NoTime}, endReason : {"none", "exec", "exit"}, run : Nat,
     row : {"none", "open", "exec", "exit", "watch_stopped"}]
RunType ==
    [kind : {"sandbox-exec", "sandbox-init", "adopted"}, root : Nat, live : SUBSET Nat, lastEnd : Nat,
     ended : BOOLEAN, session : Tags, status : {"running", "exited", "watch_stopped"},
     endedAt : Nat \cup {NoTime}]
PendingType == [d : LineType, count : Nat, arrived : Nat, ids : SUBSET Nat]
DenialType == [run : Nat, img : Nat, count : Nat, ids : SUBSET Nat]
OrphanType == [count : Nat, ids : SUBSET Nat]

CorrType ==
    [mark : Nat, img : Seq(ImageType), tokens : SUBSET Nat, byPID : SUBSET Nat, seen : [Pid -> Nat],
     runs : Seq(RunType), adopted : [Tag -> Nat], pend : SUBSET PendingType, lastPending : [DenialKey -> Nat],
     lastStored : [DenialKey -> [row : Nat, img : Nat]], lastOrphan : [DenialKey -> Nat],
     denials : Seq(DenialType), orphans : Seq(OrphanType), dropped : SUBSET Nat]

\* Image i and run r of c.
ImageOK(c, i) ==
    LET x == c.img[i]
    IN  /\ x.run <= Len(c.runs) /\ x.parent < i /\ x.end <= c.mark
        /\ x.end = NoTime <=> x.endReason = "none"
        /\ x.row = "none" <=> x.run = 0
        /\ x.row = "open" <=> x.run # 0 /\ i \in c.runs[x.run].live
RunOK(c, r) ==
    /\ \A i \in c.runs[r].live : i \in DOMAIN c.img /\ c.img[i].run = r
    /\ c.runs[r].status = "running" <=> ~c.runs[r].ended
    /\ c.runs[r].lastEnd <= c.mark

\* The tables of images and runs are typed, and point to each other.
Sound(c) ==
    /\ c \in CorrType
    /\ c.tokens \cup c.byPID \subseteq DOMAIN c.img
    /\ \A i \in DOMAIN c.img : ImageOK(c, i)
    /\ \A r \in DOMAIN c.runs : RunOK(c, r)
    /\ \A t \in Tag : c.adopted[t] <= Len(c.runs)

\* Only images and runs differ; an orphan row may no longer take duplicates.
SameBooks(c, b) ==
    /\ b.mark = c.mark /\ b.pend = c.pend /\ b.denials = c.denials /\ b.orphans = c.orphans
    /\ b.dropped = c.dropped /\ b.lastPending = c.lastPending /\ b.lastStored = c.lastStored
    /\ \A k \in DenialKey : b.lastOrphan[k] \in {c.lastOrphan[k], 0}

\* c becomes b: sound, with the same books and no image or run less.
Becomes(c, b) == Sound(b) /\ SameBooks(c, b) /\ Len(b.img) >= Len(c.img) /\ Len(b.runs) >= Len(c.runs)

LEMMA SeqOf ==
    ASSUME NEW S, NEW n \in Nat, NEW f \in [1..n -> S]
    PROVE  f \in Seq(S) /\ Len(f) = n
<1>1. f \in Seq(S)
  BY SeqDef
<1>2. DOMAIN f = 1..n /\ DOMAIN f = 1..Len(f) /\ Len(f) \in Nat
  BY <1>1, LenProperties
<1> QED BY <1>1, <1>2

LEMMA CorrFields ==
    ASSUME NEW c, Sound(c)
    PROVE  /\ c.mark \in Nat
           /\ Len(c.img) \in Nat /\ DOMAIN c.img = 1..Len(c.img)
           /\ \A i \in DOMAIN c.img : c.img[i] \in ImageType
           /\ Len(c.runs) \in Nat /\ DOMAIN c.runs = 1..Len(c.runs)
           /\ \A r \in DOMAIN c.runs : c.runs[r] \in RunType
<1>1. c.mark \in Nat /\ c.img \in Seq(ImageType) /\ c.runs \in Seq(RunType)
  BY DEF Sound, CorrType
<1> QED BY <1>1, LenProperties, ElementOfSeq

LEMMA BecomesTrans ==
    ASSUME NEW a, NEW b, NEW c, Sound(a), Becomes(a, b), Becomes(b, c)
    PROVE  Becomes(a, c)
<1>1. Len(a.img) \in Nat /\ Len(b.img) \in Nat /\ Len(c.img) \in Nat
  BY CorrFields DEF Becomes
<1>2. Len(a.runs) \in Nat /\ Len(b.runs) \in Nat /\ Len(c.runs) \in Nat
  BY CorrFields DEF Becomes
<1>3. SameBooks(a, c)
  BY DEF Becomes, SameBooks
<1> QED BY <1>1, <1>2, <1>3 DEF Becomes

LEMMA BecomesRefl == ASSUME NEW c, Sound(c) PROVE Becomes(c, c)
<1>1. Len(c.img) \in Nat /\ Len(c.runs) \in Nat
  BY CorrFields
<1> QED BY <1>1 DEF Becomes, SameBooks

\* An image as it is registered.
Fresh(x) == x \in ImageType /\ x.run = 0 /\ x.row = "none" /\ x.end = NoTime /\ x.endReason = "none"

LEMMA RegisterSound ==
    ASSUME NEW c, Sound(c), NEW x, Fresh(x), x.parent <= Len(c.img)
    PROVE  LET b == Register(c, x)
           IN  /\ Becomes(c, b) /\ b.img = Append(c.img, x) /\ b.runs = c.runs
               /\ c.tokens \subseteq b.tokens /\ (~x.noToken => Len(c.img) + 1 \in b.tokens)
<1> DEFINE b == Register(c, x)
           n == Len(c.img) + 1
<1>1. c \in CorrType /\ n \in Nat /\ c.img \in Seq(ImageType) /\ x \in ImageType
  BY CorrFields DEF Sound, CorrType, Fresh
<1>2. /\ b.img = Append(c.img, x) /\ b.runs = c.runs /\ b.adopted = c.adopted /\ b.mark = c.mark
      /\ b.tokens = (IF x.noToken THEN c.tokens ELSE c.tokens \cup {n}) /\ b.byPID = c.byPID \cup {n}
  BY <1>1 DEF Register, CorrType
<1>3. SameBooks(c, b)
  BY <1>1 DEF Register, CorrType, SameBooks
<1>4. b.img \in Seq(ImageType) /\ Len(b.img) = n /\ DOMAIN b.img = DOMAIN c.img \cup {n} /\ b.img[n] = x
      /\ \A i \in DOMAIN c.img : b.img[i] = c.img[i]
  BY <1>1, <1>2
<1>5. b \in CorrType
  BY <1>1, <1>2, <1>4 DEF Register, CorrType
<1>6. ASSUME NEW i \in DOMAIN b.img PROVE ImageOK(b, i)
  <2>1. CASE i \in DOMAIN c.img
    BY <1>2, <1>4, <2>1 DEF Sound, ImageOK
  <2>2. CASE i = n
    <3>1. c.mark \in Nat /\ Len(c.runs) \in Nat
      BY CorrFields
    <3>2. x.run = 0 /\ x.row = "none" /\ x.end = NoTime /\ x.endReason = "none" /\ x.parent \in Nat
      BY DEF Fresh, ImageType
    <3> QED BY <1>1, <1>2, <1>4, <2>2, <3>1, <3>2 DEF ImageOK, NoTime
  <2> QED BY <1>4, <2>1, <2>2
<1>7. ASSUME NEW r \in DOMAIN b.runs PROVE RunOK(b, r)
  BY <1>2, <1>4 DEF Sound, RunOK
<1>8. Sound(b)
  BY <1>2, <1>4, <1>5, <1>6, <1>7 DEF Sound
<1> QED BY <1>1, <1>2, <1>3, <1>4, <1>8, CorrFields DEF Becomes

LEMMA FindOK ==
    ASSUME NEW c, Sound(c), NEW proc
    PROVE  /\ Find(c, proc) \in DOMAIN c.img \cup {0}
           /\ (\E i \in c.tokens : c.img[i].pid = proc.pid /\ c.img[i].ver = proc.ver) => Find(c, proc) \in DOMAIN c.img
BY DEF Find, Only, Sound

LEMMA ResolveOK ==
    ASSUME NEW c, Sound(c), NEW pid, NEW t
    PROVE  Resolve(c, pid, t) \in DOMAIN c.img \cup {0}
<1>1. \A S : S \subseteq DOMAIN c.img => Only(S) \in DOMAIN c.img \cup {0}
  BY DEF Only
<1>2. \A S : Newest(c, S) \subseteq S
  BY DEF Newest
<1>3. c.byPID \subseteq DOMAIN c.img
  BY DEF Sound
<1> QED BY <1>1, <1>2, <1>3 DEF Resolve

LEMMA MarkSeenSound ==
    ASSUME NEW c, Sound(c), NEW proc \in ProcType
    PROVE  /\ Becomes(c, MarkSeen(c, proc)) /\ MarkSeen(c, proc).img = c.img /\ MarkSeen(c, proc).runs = c.runs
           /\ MarkSeen(c, proc).tokens = c.tokens
<1> DEFINE b == MarkSeen(c, proc)
<1>1. c \in CorrType /\ proc.pid \in Pid /\ proc.ver \in Nat
  BY DEF Sound, ProcType
<1>2. /\ b.img = c.img /\ b.runs = c.runs /\ b.tokens = c.tokens /\ b.byPID = c.byPID /\ b.adopted = c.adopted
      /\ b.mark = c.mark
  BY <1>1 DEF MarkSeen, CorrType
<1>3. b \in CorrType
  BY <1>1 DEF MarkSeen, CorrType
<1>4. SameBooks(c, b)
  BY <1>1 DEF MarkSeen, CorrType, SameBooks
<1>5. Sound(b)
  BY <1>2, <1>3 DEF Sound, ImageOK, RunOK
<1> QED BY <1>2, <1>4, <1>5, CorrFields DEF Becomes

LEMMA StartRunSound ==
    ASSUME NEW c, Sound(c), NEW kind \in {"sandbox-exec", "sandbox-init", "adopted"}, NEW root \in Nat,
           NEW session \in Tags
    PROVE  LET b == StartRun(c, kind, root, session)
           IN  /\ Becomes(c, b) /\ b.img = c.img /\ Len(b.runs) = Len(c.runs) + 1
               /\ b.adopted = c.adopted /\ b.tokens = c.tokens
<1> DEFINE b == StartRun(c, kind, root, session)
           n == Len(c.runs) + 1
           x == [kind |-> kind, root |-> root, live |-> {}, lastEnd |-> 0, ended |-> FALSE,
                 session |-> session, status |-> "running", endedAt |-> NoTime]
<1>1. c \in CorrType /\ n \in Nat /\ c.runs \in Seq(RunType) /\ c.mark \in Nat
  BY CorrFields DEF Sound, CorrType
<1>2. x \in RunType
  BY DEF RunType
<1>3. /\ b.img = c.img /\ b.runs = Append(c.runs, x) /\ b.tokens = c.tokens /\ b.byPID = c.byPID
      /\ b.adopted = c.adopted /\ b.mark = c.mark
  BY <1>1 DEF StartRun, CorrType
<1>4. SameBooks(c, b)
  BY <1>1 DEF StartRun, CorrType, SameBooks
<1>5. x.live = {} /\ x.status = "running" /\ x.ended = FALSE /\ x.lastEnd = 0
  OBVIOUS
<1>6. b.runs \in Seq(RunType) /\ Len(b.runs) = n /\ DOMAIN b.runs = DOMAIN c.runs \cup {n} /\ b.runs[n] = x
      /\ \A r \in DOMAIN c.runs : b.runs[r] = c.runs[r]
  <2> HIDE DEF x
  <2> QED BY <1>1, <1>2, <1>3
<1>7. b \in CorrType
  <2> HIDE DEF x
  <2> QED BY <1>1, <1>6 DEF StartRun, CorrType
<1> HIDE DEF x
<1>8. ASSUME NEW i \in DOMAIN b.img PROVE ImageOK(b, i)
  <2>1. c.img[i].run \in Nat /\ c.img[i].run <= Len(c.runs)
    BY <1>3, CorrFields DEF Sound, ImageOK, ImageType
  <2>2. c.img[i].run # 0 => c.img[i].run \in DOMAIN c.runs
    BY <2>1, CorrFields
  <2> QED BY <1>1, <1>3, <1>6, <2>1, <2>2 DEF Sound, ImageOK
<1>9. ASSUME NEW r \in DOMAIN b.runs PROVE RunOK(b, r)
  <2>1. CASE r \in DOMAIN c.runs
    BY <1>3, <1>6, <2>1 DEF Sound, RunOK
  <2>2. CASE r = n
    BY <1>1, <1>3, <1>5, <1>6, <2>2 DEF RunOK
  <2> QED BY <1>6, <2>1, <2>2
<1>10. \A t \in Tag : b.adopted[t] <= Len(b.runs)
  <2>1. \A t \in Tag : c.adopted[t] \in Nat /\ c.adopted[t] <= Len(c.runs)
    BY <1>1 DEF Sound, CorrType
  <2> QED BY <1>1, <1>3, <1>6, <2>1
<1>11. Sound(b)
  BY <1>3, <1>7, <1>8, <1>9, <1>10 DEF Sound
<1> QED BY <1>1, <1>3, <1>4, <1>6, <1>11, CorrFields DEF Becomes

\* An image of the run r, or one that joins it, becomes x, and the run y.
Updates(c, b, i, r, x, y) ==
    /\ i \in DOMAIN c.img /\ r \in DOMAIN c.runs /\ x \in ImageType /\ y \in RunType
    /\ c.img[i].run \in {0, r}
    /\ x.run = r /\ x.parent = c.img[i].parent /\ x.end <= c.mark /\ (x.end = NoTime <=> x.endReason = "none")
    /\ x.row # "none" /\ (x.row = "open" <=> i \in y.live)
    /\ y.live \ {i} = c.runs[r].live \ {i} /\ y.lastEnd <= c.mark /\ (y.status = "running" <=> ~y.ended)
    /\ b = [c EXCEPT !.img = [c.img EXCEPT ![i] = x], !.runs = [c.runs EXCEPT ![r] = y]]

LEMMA UpdateSound ==
    ASSUME NEW c, Sound(c), NEW b, NEW i, NEW r, NEW x, NEW y, Updates(c, b, i, r, x, y)
    PROVE  /\ Becomes(c, b) /\ DOMAIN b.img = DOMAIN c.img /\ DOMAIN b.runs = DOMAIN c.runs
           /\ b.tokens = c.tokens /\ b.img[i] = x
           /\ \A j \in DOMAIN c.img : j # i => b.img[j] = c.img[j]
<1> USE DEF Updates
<1>1. /\ c \in CorrType /\ c.img \in Seq(ImageType) /\ c.runs \in Seq(RunType) /\ c.mark \in Nat
      /\ Len(c.img) \in Nat /\ Len(c.runs) \in Nat
      /\ DOMAIN c.img = 1..Len(c.img) /\ DOMAIN c.runs = 1..Len(c.runs)
  BY CorrFields DEF Sound, CorrType
<1>2. /\ b.img = [c.img EXCEPT ![i] = x] /\ b.runs = [c.runs EXCEPT ![r] = y]
      /\ b.tokens = c.tokens /\ b.byPID = c.byPID /\ b.adopted = c.adopted /\ b.mark = c.mark
  BY <1>1 DEF CorrType
<1>3. b.img \in Seq(ImageType) /\ Len(b.img) = Len(c.img) /\ DOMAIN b.img = DOMAIN c.img
      /\ b.img[i] = x /\ \A j \in DOMAIN c.img : j # i => b.img[j] = c.img[j]
  BY <1>1, <1>2, ExceptSeq, LenProperties
<1>4. b.runs \in Seq(RunType) /\ Len(b.runs) = Len(c.runs) /\ DOMAIN b.runs = DOMAIN c.runs
      /\ b.runs[r] = y /\ \A q \in DOMAIN c.runs : q # r => b.runs[q] = c.runs[q]
  BY <1>1, <1>2, ExceptSeq, LenProperties
<1>5. SameBooks(c, b)
  BY <1>1 DEF CorrType, SameBooks
<1>6. b \in CorrType
  BY <1>1, <1>2, <1>3, <1>4 DEF CorrType
<1>7. ASSUME NEW j \in DOMAIN b.img PROVE ImageOK(b, j)
  <2>1. ImageOK(c, j) /\ c.img[j].run \in Nat
    BY <1>3, CorrFields DEF Sound, ImageType
  <2>2. CASE j = i
    <3>1. r \in Nat /\ r # 0 /\ r <= Len(c.runs)
      BY <1>1
    <3> QED BY <1>2, <1>3, <1>4, <2>1, <2>2, <3>1 DEF ImageOK
  <2>3. CASE j # i
    <3>1. c.img[j].run # 0 => c.img[j].run \in DOMAIN c.runs
      BY <1>1, <2>1 DEF ImageOK
    <3>2. c.img[j].run # 0 => (j \in b.runs[c.img[j].run].live <=> j \in c.runs[c.img[j].run].live)
      BY <1>4, <2>3, <3>1
    <3> QED BY <1>2, <1>3, <1>4, <2>1, <2>3, <3>2 DEF ImageOK
  <2> QED BY <2>2, <2>3
<1>8. ASSUME NEW q \in DOMAIN b.runs PROVE RunOK(b, q)
  <2>1. RunOK(c, q) /\ q # 0
    BY <1>1, <1>4 DEF Sound
  <2>2. CASE q = r
    <3>1. \A j \in y.live : j \in DOMAIN b.img /\ b.img[j].run = r
      BY <1>3, <2>1, <2>2 DEF RunOK
    <3> QED BY <1>2, <1>4, <2>2, <3>1 DEF RunOK
  <2>3. CASE q # r
    <3>1. i \notin c.runs[q].live
      BY <2>1, <2>3 DEF RunOK
    <3> QED BY <1>2, <1>3, <1>4, <2>1, <2>3, <3>1 DEF RunOK
  <2> QED BY <2>2, <2>3
<1>9. Sound(b)
  BY <1>2, <1>3, <1>4, <1>6, <1>7, <1>8 DEF Sound
<1> QED BY <1>1, <1>2, <1>3, <1>4, <1>5, <1>9 DEF Becomes

\* An image without a run changes.
LEMMA UpdateLoose ==
    ASSUME NEW c, Sound(c), NEW i \in DOMAIN c.img, NEW x \in ImageType, c.img[i].run = 0,
           x.run = 0, x.row = "none", x.parent = c.img[i].parent, x.end <= c.mark,
           x.end = NoTime <=> x.endReason = "none", NEW b, b = [c EXCEPT !.img = [c.img EXCEPT ![i] = x]]
    PROVE  Becomes(c, b) /\ DOMAIN b.img = DOMAIN c.img /\ b.runs = c.runs /\ b.tokens = c.tokens
<1>1. /\ c \in CorrType /\ c.img \in Seq(ImageType) /\ Len(c.img) \in Nat /\ Len(c.runs) \in Nat
      /\ DOMAIN c.img = 1..Len(c.img) /\ DOMAIN c.runs = 1..Len(c.runs)
  BY CorrFields DEF Sound, CorrType
<1>2. /\ b.img = [c.img EXCEPT ![i] = x] /\ b.runs = c.runs
      /\ b.tokens = c.tokens /\ b.byPID = c.byPID /\ b.adopted = c.adopted /\ b.mark = c.mark
  BY <1>1 DEF CorrType
<1>3. b.img \in Seq(ImageType) /\ Len(b.img) = Len(c.img) /\ DOMAIN b.img = DOMAIN c.img
      /\ b.img[i] = x /\ \A j \in DOMAIN c.img : j # i => b.img[j] = c.img[j]
  BY <1>1, <1>2, ExceptSeq, LenProperties
<1>4. SameBooks(c, b)
  BY <1>1 DEF CorrType, SameBooks
<1>5. b \in CorrType
  BY <1>1, <1>2, <1>3 DEF CorrType
<1>6. ASSUME NEW j \in DOMAIN b.img PROVE ImageOK(b, j)
  <2>1. CASE j = i
    BY <1>1, <1>2, <1>3, <2>1 DEF Sound, ImageOK
  <2>2. CASE j # i
    BY <1>2, <1>3, <2>2 DEF Sound, ImageOK
  <2> QED BY <2>1, <2>2
<1>7. ASSUME NEW q \in DOMAIN b.runs PROVE RunOK(b, q)
  <2>1. RunOK(c, q) /\ q # 0
    BY <1>1, <1>2 DEF Sound
  <2>2. i \notin c.runs[q].live
    BY <2>1 DEF RunOK
  <2> QED BY <1>2, <1>3, <2>1, <2>2 DEF RunOK
<1>8. Sound(b)
  BY <1>2, <1>3, <1>5, <1>6, <1>7 DEF Sound
<1> QED BY <1>1, <1>2, <1>3, <1>4, <1>8 DEF Becomes

LEMMA MaybeEndRunSound ==
    ASSUME NEW c, Sound(c), NEW r \in DOMAIN c.runs
    PROVE  Becomes(c, MaybeEndRun(c, r)) /\ MaybeEndRun(c, r).img = c.img
<1> DEFINE b == MaybeEndRun(c, r)
           run == [c.runs[r] EXCEPT !.ended = TRUE, !.status = "exited", !.endedAt = c.runs[r].lastEnd]
<1>1. CASE c.runs[r].ended \/ c.runs[r].kind = "adopted" \/ c.runs[r].live # {}
  BY <1>1, BecomesRefl DEF MaybeEndRun
<1>2. CASE ~(c.runs[r].ended \/ c.runs[r].kind = "adopted" \/ c.runs[r].live # {})
  <2>1. /\ c \in CorrType /\ c.runs \in Seq(RunType) /\ Len(c.runs) \in Nat
        /\ DOMAIN c.runs = 1..Len(c.runs) /\ c.runs[r] \in RunType
    BY CorrFields DEF Sound, CorrType
  <2>2. run \in RunType /\ run.live = c.runs[r].live /\ run.lastEnd = c.runs[r].lastEnd
        /\ run.status = "exited" /\ run.ended = TRUE
    BY <2>1 DEF RunType
  <2>3. /\ b.img = c.img /\ b.tokens = c.tokens /\ b.byPID = c.byPID /\ b.adopted = c.adopted /\ b.mark = c.mark
        /\ b.runs = [c.runs EXCEPT ![r] = run]
    BY <1>2, <2>1 DEF MaybeEndRun, CorrType
  <2>4. b.runs \in Seq(RunType) /\ Len(b.runs) = Len(c.runs) /\ DOMAIN b.runs = DOMAIN c.runs
        /\ b.runs[r] = run /\ \A q \in DOMAIN c.runs : q # r => b.runs[q] = c.runs[q]
    <3> HIDE DEF run
    <3> QED BY <2>1, <2>2, <2>3
  <2>5. SameBooks(c, b)
    BY <1>2, <2>1 DEF MaybeEndRun, CorrType, SameBooks
  <2>6. b \in CorrType
    <3>1. b = [c EXCEPT !.runs = b.runs]
      BY <1>2, <2>1 DEF MaybeEndRun, CorrType
    <3> HIDE DEF b
    <3> QED BY <2>1, <2>4, <3>1 DEF CorrType
  <2> HIDE DEF b, run
  <2>7. \A q \in DOMAIN b.runs : b.runs[q].live = c.runs[q].live /\ b.runs[q].lastEnd = c.runs[q].lastEnd
          /\ (b.runs[q].status = "running" <=> ~b.runs[q].ended)
    BY <2>2, <2>4 DEF Sound, RunOK
  <2>8. ASSUME NEW i \in DOMAIN b.img PROVE ImageOK(b, i)
    <3>1. c.img[i].run # 0 => c.img[i].run \in DOMAIN c.runs
      <4>1. i \in DOMAIN c.img /\ c.img[i] \in ImageType
        BY <2>3, CorrFields
      <4>2. c.img[i].run \in Nat /\ c.img[i].run <= Len(c.runs)
        BY <4>1 DEF Sound, ImageOK, ImageType
      <4> QED BY <2>1, <4>2
    <3> QED BY <2>3, <2>4, <2>7, <3>1 DEF Sound, ImageOK
  <2>9. \A q \in DOMAIN b.runs : RunOK(b, q)
    BY <2>3, <2>4, <2>7 DEF Sound, RunOK
  <2>10. Sound(b)
    BY <2>3, <2>4, <2>6, <2>8, <2>9 DEF Sound
  <2> QED BY <2>1, <2>3, <2>4, <2>5, <2>10, CorrFields DEF Becomes, b
<1> QED BY <1>1, <1>2

\* No member leaves its run, and no image is gone.
Kept(c, b) ==
    /\ DOMAIN b.img = DOMAIN c.img /\ DOMAIN b.runs = DOMAIN c.runs /\ b.tokens = c.tokens
    /\ \A j \in DOMAIN c.img : c.img[j].run # 0 => b.img[j].run # 0

LEMMA JoinSound ==
    ASSUME NEW c, Sound(c), NEW i \in DOMAIN c.img, NEW r \in DOMAIN c.runs
    PROVE  Becomes(c, Join(c, i, r)) /\ Kept(c, Join(c, i, r)) /\ Join(c, i, r).img[i].run # 0
<1> DEFINE b == Join(c, i, r)
<1>1. CASE c.img[i].run # 0
  BY <1>1, BecomesRefl DEF Join, Kept
<1>2. CASE c.img[i].run = 0
  <2>1. /\ c \in CorrType /\ c.img[i] \in ImageType /\ c.runs[r] \in RunType /\ r \in Nat \ {0} /\ i \in Nat
        /\ ImageOK(c, i) /\ RunOK(c, r) /\ c.mark \in Nat
    BY CorrFields DEF Sound
  <2>2. i \notin c.runs[r].live
    BY <1>2, <2>1 DEF RunOK
  <2>3. CASE c.img[i].end = NoTime
    <3> DEFINE x == [c.img[i] EXCEPT !.run = r, !.row = "open"]
               y == [c.runs[r] EXCEPT !.live = @ \cup {i}]
    <3>1. x \in ImageType /\ x.run = r /\ x.row = "open" /\ x.parent = c.img[i].parent
          /\ x.end = c.img[i].end /\ x.endReason = c.img[i].endReason
      BY <2>1 DEF ImageType
    <3>2. y \in RunType /\ y.live = c.runs[r].live \cup {i} /\ y.lastEnd = c.runs[r].lastEnd
          /\ y.status = c.runs[r].status /\ y.ended = c.runs[r].ended
      BY <2>1 DEF RunType
    <3>3. b = [c EXCEPT !.img = [c.img EXCEPT ![i] = x], !.runs = [c.runs EXCEPT ![r] = y]]
      BY <1>2, <2>1, <2>3 DEF Join, CorrType
    <3>4. x.end <= c.mark /\ (x.end = NoTime <=> x.endReason = "none") /\ y.lastEnd <= c.mark
          /\ (y.status = "running" <=> ~y.ended)
      BY <2>1, <3>1, <3>2 DEF ImageOK, RunOK
    <3> HIDE DEF x, y, b
    <3>5. Becomes(c, b) /\ DOMAIN b.img = DOMAIN c.img /\ DOMAIN b.runs = DOMAIN c.runs /\ b.tokens = c.tokens
          /\ b.img[i] = x /\ \A j \in DOMAIN c.img : j # i => b.img[j] = c.img[j]
      <4>1. x.row # "none" /\ (x.row = "open" <=> i \in y.live) /\ y.live \ {i} = c.runs[r].live \ {i}
        BY <3>1, <3>2
      <4>2. c.img[i].run \in {0, r}
        BY <1>2
      <4>3. Updates(c, b, i, r, x, y)
        BY <3>1, <3>2, <3>3, <3>4, <4>1, <4>2 DEF Updates
      <4> QED BY <4>3, UpdateSound
    <3> QED BY <2>1, <3>1, <3>5 DEF Kept, b
  <2>4. CASE c.img[i].end # NoTime
    <3> DEFINE x == [c.img[i] EXCEPT !.run = r, !.row = c.img[i].endReason]
               y == [c.runs[r] EXCEPT !.lastEnd = Larger(@, c.img[i].end)]
    <3>1. x \in ImageType /\ x.run = r /\ x.row = c.img[i].endReason /\ x.parent = c.img[i].parent
          /\ x.end = c.img[i].end /\ x.endReason = c.img[i].endReason
      BY <2>1 DEF ImageType
    <3>2. y \in RunType /\ y.live = c.runs[r].live /\ y.lastEnd = Larger(c.runs[r].lastEnd, c.img[i].end)
          /\ y.status = c.runs[r].status /\ y.ended = c.runs[r].ended
      BY <2>1, <2>4 DEF RunType, ImageType, Larger
    <3>3. b = [c EXCEPT !.img = [c.img EXCEPT ![i] = x], !.runs = [c.runs EXCEPT ![r] = y]]
      BY <1>2, <2>1, <2>4 DEF Join, CorrType
    <3>4. x.end <= c.mark /\ (x.end = NoTime <=> x.endReason = "none") /\ y.lastEnd <= c.mark
          /\ (y.status = "running" <=> ~y.ended) /\ x.row \notin {"none", "open"}
      BY <2>1, <2>4, <3>1, <3>2 DEF ImageOK, RunOK, ImageType, Larger
    <3> HIDE DEF x, y, b
    <3>5. Becomes(c, b) /\ DOMAIN b.img = DOMAIN c.img /\ DOMAIN b.runs = DOMAIN c.runs /\ b.tokens = c.tokens
          /\ b.img[i] = x /\ \A j \in DOMAIN c.img : j # i => b.img[j] = c.img[j]
      <4>1. x.row # "none" /\ (x.row = "open" <=> i \in y.live) /\ y.live \ {i} = c.runs[r].live \ {i}
        BY <2>2, <3>1, <3>2, <3>4
      <4>2. c.img[i].run \in {0, r}
        BY <1>2
      <4>3. Updates(c, b, i, r, x, y)
        BY <3>1, <3>2, <3>3, <3>4, <4>1, <4>2 DEF Updates
      <4> QED BY <4>3, UpdateSound
    <3> QED BY <2>1, <3>1, <3>5 DEF Kept, b
  <2> QED BY <2>3, <2>4
<1> QED BY <1>1, <1>2

LEMMA EndImageSound ==
    ASSUME NEW c, Sound(c), NEW i \in DOMAIN c.img, NEW t \in Nat, t <= c.mark, NEW reason \in {"exec", "exit"}
    PROVE  Becomes(c, EndImage(c, i, t, reason))
<1> DEFINE b == EndImage(c, i, t, reason)
           r == c.img[i].run
<1>1. /\ c \in CorrType /\ c.img[i] \in ImageType /\ i \in Nat /\ ImageOK(c, i) /\ c.mark \in Nat
      /\ r \in Nat /\ (r # 0 => r \in DOMAIN c.runs)
  <2>1. c.img[i] \in ImageType /\ ImageOK(c, i) /\ i \in Nat /\ c.mark \in Nat
    BY CorrFields DEF Sound
  <2>2. r \in Nat /\ r <= Len(c.runs)
    BY <2>1 DEF ImageOK, ImageType
  <2> QED BY <2>1, <2>2, CorrFields DEF Sound
<1>2. CASE c.img[i].end # NoTime
  BY <1>2, BecomesRefl DEF EndImage
<1>3. CASE c.img[i].end = NoTime /\ r = 0
  <2> DEFINE x == [c.img[i] EXCEPT !.end = t, !.endReason = reason]
  <2>1. x \in ImageType /\ x.run = 0 /\ x.row = c.img[i].row /\ x.parent = c.img[i].parent
        /\ x.end = t /\ x.endReason = reason
    BY <1>1, <1>3 DEF ImageType
  <2>2. b = [c EXCEPT !.img = [c.img EXCEPT ![i] = x]]
    BY <1>1, <1>3 DEF EndImage, CorrType
  <2>3. x.row = "none" /\ (x.end = NoTime <=> x.endReason = "none")
    BY <1>1, <1>3, <2>1 DEF ImageOK, NoTime
  <2> HIDE DEF x, b
  <2>4. Becomes(c, b)
    BY <1>3, <2>1, <2>2, <2>3, UpdateLoose
  <2> QED BY <2>4 DEF b
<1>4. CASE c.img[i].end = NoTime /\ r # 0
  <2>1. r \in DOMAIN c.runs /\ c.runs[r] \in RunType /\ RunOK(c, r)
    BY <1>1, <1>4, CorrFields DEF Sound
  <2> DEFINE x == [c.img[i] EXCEPT !.end = t, !.endReason = reason, !.row = reason]
             y == [c.runs[r] EXCEPT !.live = @ \ {i}, !.lastEnd = Larger(@, t)]
             a == [c EXCEPT !.img = [c.img EXCEPT ![i] = x], !.runs = [c.runs EXCEPT ![r] = y]]
  <2>2. x \in ImageType /\ x.run = r /\ x.row = reason /\ x.parent = c.img[i].parent
        /\ x.end = t /\ x.endReason = reason
    BY <1>1, <1>4 DEF ImageType
  <2>3. y \in RunType /\ y.live = c.runs[r].live \ {i} /\ y.lastEnd = Larger(c.runs[r].lastEnd, t)
        /\ y.status = c.runs[r].status /\ y.ended = c.runs[r].ended
    BY <2>1 DEF RunType, Larger
  <2>4. b = MaybeEndRun(a, r)
    <3> DEFINE x0 == [c.img[i] EXCEPT !.end = t, !.endReason = reason]
               img0 == [c.img EXCEPT ![i] = x0]
               ended == [c EXCEPT !.img[i].end = t, !.img[i].endReason = reason]
    <3>1. ended = [c EXCEPT !.img = img0]
      BY <1>1 DEF CorrType, ImageType
    <3>2. x0 \in ImageType /\ [x0 EXCEPT !.row = reason] = x
      BY <1>1 DEF ImageType
    <3> DEFINE last == [ended EXCEPT !.img[i].row = reason, !.runs[r].live = @ \ {i}, !.runs[r].lastEnd = Larger(@, t)]
    <3>3. b = MaybeEndRun(last, r)
      BY <1>4 DEF EndImage
    <3> HIDE DEF x0, ended
    <3>4. ended \in CorrType /\ ended.img = img0 /\ ended.runs = c.runs
      <4>1. img0 \in Seq(ImageType)
        BY <1>1, <3>2, ExceptSeq, CorrFields, LenProperties DEF CorrType
      <4> HIDE DEF img0
      <4> QED BY <1>1, <3>1, <4>1 DEF CorrType
    <3>5. last = [ended EXCEPT !.img = [img0 EXCEPT ![i].row = reason],
                              !.runs = [c.runs EXCEPT ![r].live = @ \ {i}, ![r].lastEnd = Larger(@, t)]]
      <4> DEFINE e1 == [ended EXCEPT !.img[i].row = reason]
                 e2 == [e1 EXCEPT !.runs[r].live = @ \ {i}]
                 e3 == [e2 EXCEPT !.runs[r].lastEnd = Larger(@, t)]
                 runs1 == [c.runs EXCEPT ![r].live = @ \ {i}]
                 runs2 == [runs1 EXCEPT ![r].lastEnd = Larger(@, t)]
      <4> HIDE DEF img0
      <4>1. last = e3
        OBVIOUS
      <4>2. e1 = [ended EXCEPT !.img = [img0 EXCEPT ![i].row = reason]] /\ e1.runs = c.runs
        BY <3>4 DEF CorrType
      <4>3. e2 = [e1 EXCEPT !.runs = runs1] /\ e2.runs = runs1
        <5>1. "runs" \in DOMAIN e1
          BY <3>4, <4>2 DEF CorrType
        <5> HIDE DEF e1
        <5> QED BY <4>2, <5>1
      <4>4. e3 = [e2 EXCEPT !.runs = runs2]
        <5> HIDE DEF e2
        <5> QED BY <4>3
      <4>5. e3 = [e1 EXCEPT !.runs = runs2]
        <5> HIDE DEF e1, runs1, runs2
        <5> QED BY <4>3, <4>4
      <4> HIDE DEF last, e1, e2, e3
      <4>6. e3 = [ended EXCEPT !.img = [img0 EXCEPT ![i].row = reason], !.runs = runs2]
        BY <4>2, <4>5
      <4> QED BY <4>1, <4>6
    <3>6. [img0 EXCEPT ![i].row = reason] = [c.img EXCEPT ![i] = x]
      <4>1. DOMAIN img0 = DOMAIN c.img /\ img0[i] = x0
        OBVIOUS
      <4>2. [img0 EXCEPT ![i].row = reason] = [img0 EXCEPT ![i] = [x0 EXCEPT !.row = reason]]
        <5> HIDE DEF img0
        <5> QED BY <4>1
      <4> HIDE DEF x
      <4> QED BY <3>2, <4>2
    <3>7. [c.runs EXCEPT ![r].live = @ \ {i}, ![r].lastEnd = Larger(@, t)] = [c.runs EXCEPT ![r] = y]
      BY <2>1 DEF RunType
    <3>8. last = a
      <4> HIDE DEF last, x, y, img0
      <4> QED BY <1>1, <3>1, <3>5, <3>6, <3>7 DEF CorrType
    <3> QED BY <3>3, <3>8
  <2>5. x.row \notin {"none", "open"} /\ (x.end = NoTime <=> x.endReason = "none") /\ y.lastEnd <= c.mark
        /\ (y.status = "running" <=> ~y.ended)
    <3>1. c.runs[r].lastEnd \in Nat /\ c.runs[r].lastEnd <= c.mark /\ (c.runs[r].status = "running" <=> ~c.runs[r].ended)
      BY <2>1 DEF RunOK, RunType
    <3>2. Larger(c.runs[r].lastEnd, t) <= c.mark
      BY <1>1, <3>1 DEF Larger
    <3>3. t # NoTime /\ reason # "none" /\ reason # "open"
      BY DEF NoTime
    <3> HIDE DEF x, y
    <3> QED BY <2>2, <2>3, <3>1, <3>2, <3>3
  <2> HIDE DEF x, y, b
  <2>6. Becomes(c, a) /\ DOMAIN a.runs = DOMAIN c.runs
    <3>1. Updates(c, a, i, r, x, y)
      BY <1>1, <1>4, <2>1, <2>2, <2>3, <2>5 DEF Updates
    <3> HIDE DEF a
    <3> QED BY <3>1, UpdateSound
  <2> HIDE DEF a
  <2>7. Becomes(a, b)
    BY <2>1, <2>4, <2>6, MaybeEndRunSound DEF Becomes
  <2>8. Becomes(c, b)
    BY <2>6, <2>7, BecomesTrans
  <2> QED BY <2>8 DEF b
<1> QED BY <1>2, <1>3, <1>4

-----------------------------------------------------------------------------
(* Paths *)

\* PathUp is well defined: a parent is registered before its child.
LEMMA PathDefined ==
    ASSUME NEW c, Sound(c)
    PROVE  \E f : f = [j \in 0..Len(c.img) |->
                         IF j = 0 THEN {} ELSE IF c.img[j].execSeen THEN {j} ELSE {j} \cup f[c.img[j].parent]]
<1> DEFINE up(f, k) == f = [j \in 0..k |-> IF j = 0 THEN {} ELSE IF c.img[j].execSeen THEN {j}
                                           ELSE {j} \cup f[c.img[j].parent]]
           m == Len(c.img)
           S == {k \in 0..m : \E f : up(f, k)}
<1>1. m \in Nat /\ \A j \in 1..m : c.img[j].parent \in Nat /\ c.img[j].parent < j
  <2>1. m \in Nat /\ DOMAIN c.img = 1..m /\ \A j \in DOMAIN c.img : c.img[j] \in ImageType
    BY CorrFields
  <2> QED BY <2>1 DEF Sound, ImageOK, ImageType
<1> HIDE DEF m
<1>2. 0 \in S
  <2> DEFINE f == [j \in 0..0 |-> {}]
  <2>1. up(f, 0)
    <3>1. \A j \in 0..0 : j = 0
      OBVIOUS
    <3> QED BY <3>1
  <2>2. \E g : up(g, 0)
    <3> HIDE DEF f, up
    <3> QED BY <2>1
  <2> HIDE DEF up
  <2> QED BY <1>1, <2>2
<1>3. ASSUME NEW k \in 0..m, k # m, k \in S PROVE k + 1 \in S
  <2>1. PICK f : up(f, k)
    BY <1>3
  <2> DEFINE n == k + 1
             last == IF c.img[n].execSeen THEN {n} ELSE {n} \cup f[c.img[n].parent]
             g == [j \in 0..n |-> IF j = n THEN last ELSE f[j]]
  <2>2. k \in Nat /\ n \in 1..m
    BY <1>1, <1>3
  <2>3. ASSUME NEW j \in 0..n
        PROVE  g[j] = IF j = 0 THEN {} ELSE IF c.img[j].execSeen THEN {j} ELSE {j} \cup g[c.img[j].parent]
    <3>1. CASE j = n
      <4>1. c.img[n].parent \in 0..n /\ c.img[n].parent # n
        BY <1>1, <2>2
      <4>2. g[j] = last /\ g[c.img[n].parent] = f[c.img[n].parent]
        BY <2>2, <3>1, <4>1
      <4> HIDE DEF g
      <4> QED BY <2>2, <3>1, <4>2
    <3>2. CASE j \in 1..k
      <4>1. c.img[j].parent \in 0..n /\ c.img[j].parent # n
        BY <1>1, <2>2, <3>2
      <4>2. g[j] = f[j] /\ g[c.img[j].parent] = f[c.img[j].parent]
        BY <2>2, <3>2, <4>1
      <4>3. f[j] = IF c.img[j].execSeen THEN {j} ELSE {j} \cup f[c.img[j].parent]
        <5>1. j \in 0..k /\ j # 0
          BY <2>2, <3>2
        <5> QED BY <2>1, <5>1
      <4> HIDE DEF g
      <4> QED BY <3>2, <4>2, <4>3
    <3>3. CASE j = 0
      BY <2>1, <2>2, <3>3
    <3> QED BY <2>2, <3>1, <3>2, <3>3
  <2>4. up(g, n)
    <3>1. g = [j \in 0..n |-> g[j]]
      OBVIOUS
    <3> HIDE DEF g, n
    <3> QED BY <2>3, <3>1
  <2>5. \E h : up(h, n)
    <3> HIDE DEF g, up
    <3> QED BY <2>4
  <2> HIDE DEF up
  <2> QED BY <2>2, <2>5
<1>4. m \in S
  <2> HIDE DEF S
  <2>1. m \in Nat
    BY <1>1
  <2>2. \A n \in 0..m : n # m /\ n \in S => n + 1 \in S
    BY <1>3
  <2>3. \A n \in 0..m : n \in S
    BY <1>2, <2>1, <2>2, Induct
  <2> QED BY <2>1, <2>3
<1> HIDE DEF up
<1>5. \E f : up(f, m)
  BY <1>4
<1> QED BY <1>5 DEF up, m

\* A path is a set of images; one that is eligible has an image whose exec was seen.
LEMMA PathUpOK ==
    ASSUME NEW c, Sound(c), NEW i \in DOMAIN c.img
    PROVE  /\ PathUp(c, i) \subseteq DOMAIN c.img /\ i \in PathUp(c, i)
           /\ Eligible(c, PathUp(c, i)) => \E j \in PathUp(c, i) : c.img[j].execSeen
<1> DEFINE m == Len(c.img)
           is(f) == f = [j \in 0..m |-> IF j = 0 THEN {} ELSE IF c.img[j].execSeen THEN {j}
                                        ELSE {j} \cup f[c.img[j].parent]]
           up == CHOOSE f : is(f)
<1>1. PathUp(c, i) = up[i]
  BY DEF PathUp
<1>2. is(up)
  BY PathDefined
<1>3. m \in Nat /\ DOMAIN c.img = 1..m /\ \A j \in 1..m : c.img[j].parent \in Nat /\ c.img[j].parent < j
  <2>1. m \in Nat /\ DOMAIN c.img = 1..m /\ \A j \in DOMAIN c.img : c.img[j] \in ImageType
    BY CorrFields
  <2> QED BY <2>1 DEF Sound, ImageOK, ImageType
<1> HIDE DEF m, up
<1>4. /\ up[0] = {}
      /\ \A j \in 1..m : up[j] = IF c.img[j].execSeen THEN {j} ELSE {j} \cup up[c.img[j].parent]
  <2>1. \A j \in 0..m : up[j] = IF j = 0 THEN {} ELSE IF c.img[j].execSeen THEN {j}
                                 ELSE {j} \cup up[c.img[j].parent]
    BY <1>2
  <2>2. 0 \in 0..m /\ \A j \in 1..m : j \in 0..m /\ j # 0
    BY <1>3
  <2> QED BY <2>1, <2>2
<1> HIDE DEF is
<1> DEFINE good(j) == /\ up[j] \subseteq 1..m
                      /\ j # 0 => j \in up[j]
                      /\ j # 0 /\ Eligible(c, up[j]) => \E k \in up[j] : c.img[k].execSeen
           S == {k \in 0..m : \A j \in 0..k : good(j)}
<1>5. 0 \in S
  <2>1. \A j \in 0..0 : j = 0
    OBVIOUS
  <2>2. good(0)
    BY <1>4
  <2> HIDE DEF good
  <2> QED BY <1>3, <2>1, <2>2
<1>6. ASSUME NEW k \in 0..m, k # m, k \in S PROVE k + 1 \in S
  <2> DEFINE n == k + 1
             q == c.img[n].parent
  <2>1. k \in Nat /\ n \in 1..m /\ n # 0 /\ q \in 0..k
    BY <1>3, <1>6
  <2>2. good(q)
    BY <1>6, <2>1
  <2>3. up[n] = IF c.img[n].execSeen THEN {n} ELSE {n} \cup up[q]
    BY <1>4, <2>1
  <2> HIDE DEF n, q
  <2>4. up[n] \subseteq 1..m /\ n \in up[n]
    BY <2>1, <2>2, <2>3
  <2>5. Eligible(c, up[n]) => \E j \in up[n] : c.img[j].execSeen
    <3>1. CASE c.img[n].execSeen
      BY <2>4, <3>1
    <3>2. CASE ~c.img[n].execSeen
      <4> SUFFICES ASSUME Eligible(c, up[n]) PROVE \E j \in up[n] : c.img[j].execSeen
        OBVIOUS
      <4>1. q # 0
        BY <2>4, <3>2 DEF Eligible, q
      <4>2. Eligible(c, up[q])
        BY <2>3, <3>2 DEF Eligible
      <4> QED BY <2>2, <2>3, <3>2, <4>1, <4>2
    <3> QED BY <3>1, <3>2
  <2>6. good(n)
    BY <2>4, <2>5
  <2>7. \A j \in 0..n : j \in 0..k \/ j = n
    BY <2>1 DEF n
  <2> HIDE DEF good
  <2>8. \A j \in 0..n : good(j)
    BY <1>6, <2>6, <2>7
  <2>9. n \in 0..m
    BY <2>1
  <2> QED BY <2>8, <2>9 DEF n
<1>7. m \in S
  <2> HIDE DEF S
  <2>1. m \in Nat
    BY <1>3
  <2>2. \A n \in 0..m : n # m /\ n \in S => n + 1 \in S
    BY <1>6
  <2>3. \A n \in 0..m : n \in S
    BY <1>5, <2>1, <2>2, Induct
  <2> QED BY <2>1, <2>3
<1>8. good(i) /\ i # 0
  BY <1>3, <1>7
<1> QED BY <1>1, <1>3, <1>8

LEMMA JoinPathSound ==
    ASSUME NEW c, Sound(c), NEW path, path \subseteq DOMAIN c.img, NEW r \in DOMAIN c.runs
    PROVE  /\ Becomes(c, JoinPath(c, path, r)) /\ Kept(c, JoinPath(c, path, r))
           /\ \A i \in path : JoinPath(c, path, r).img[i].run # 0
<1> DEFINE m == Len(c.img)
           is(f) == f = [i \in 0..m |-> IF i = 0 THEN c
                                        ELSE IF i \in path THEN Join(f[i - 1], i, r) ELSE f[i - 1]]
           after == CHOOSE f : is(f)
           A == {b \in CorrType : Becomes(c, b) /\ Kept(c, b)}
           turn == [x \in A \X (1..m) |-> IF x[2] \in path THEN Join(x[1], x[2], r) ELSE x[1]]
<1>1. JoinPath(c, path, r) = after[m]
  BY DEF JoinPath
<1>2. m \in Nat /\ DOMAIN c.img = 1..m
  BY CorrFields
<1>3. c \in A
  BY BecomesRefl DEF Sound, Kept
<1> HIDE DEF m
<1>4. ASSUME NEW b \in A, NEW i \in 1..m
      PROVE  /\ Sound(b) /\ (Sound(Join(b, i, r)) => Join(b, i, r) \in A) /\ Becomes(b, Join(b, i, r))
             /\ Kept(b, Join(b, i, r)) /\ Join(b, i, r).img[i].run # 0
  <2>1. Sound(b) /\ i \in DOMAIN b.img /\ r \in DOMAIN b.runs
    BY <1>2 DEF Becomes, Kept
  <2> DEFINE j == Join(b, i, r)
  <2>2. Becomes(b, j) /\ Kept(b, j) /\ j.img[i].run # 0
    BY <2>1, JoinSound
  <2> HIDE DEF j
  <2>3. Becomes(c, j) /\ Kept(c, j)
    BY <2>2, BecomesTrans DEF Kept
  <2>4. j \in CorrType
    BY <2>2 DEF Becomes, Sound
  <2> QED BY <2>1, <2>2, <2>3, <2>4 DEF j
<1>5. turn \in [A \X (1..m) -> A]
  <2>1. ASSUME NEW x \in A \X (1..m) PROVE (IF x[2] \in path THEN Join(x[1], x[2], r) ELSE x[1]) \in A
    <3>1. x[1] \in A /\ x[2] \in 1..m
      OBVIOUS
    <3> HIDE DEF A
    <3> QED BY <1>4, <3>1 DEF Becomes
  <2> HIDE DEF A
  <2> QED BY <2>1
<1>6. \E f : is(f)
  <2>1. PICK f \in [0..m -> A] : IsLoop(f, m, c, turn)
    <3> HIDE DEF A, turn
    <3> QED BY <1>2, <1>3, <1>5, LoopExists
  <2>2. ASSUME NEW n \in 0..m
        PROVE  f[n] = IF n = 0 THEN c ELSE IF n \in path THEN Join(f[n - 1], n, r) ELSE f[n - 1]
    <3>1. CASE n = 0
      BY <2>1, <3>1 DEF IsLoop
    <3>2. CASE n # 0
      <4>1. n \in 1..m /\ n - 1 \in 0..m
        BY <1>2, <3>2
      <4>2. f[n - 1] \in A
        BY <4>1
      <4>3. <<f[n - 1], n>> \in A \X (1..m)
        BY <4>1, <4>2
      <4>4. f[n] = turn[<<f[n - 1], n>>]
        BY <2>1, <3>2 DEF IsLoop
      <4> HIDE DEF A
      <4> QED BY <3>2, <4>3, <4>4
    <3> QED BY <3>1, <3>2
  <2>3. f = [n \in 0..m |-> f[n]]
    OBVIOUS
  <2>4. is(f)
    BY <2>2, <2>3
  <2> HIDE DEF is
  <2> QED BY <2>4
<1>7. is(after)
  <2> HIDE DEF is
  <2> QED BY <1>6
<1> HIDE DEF after
<1>8. after[0] = c /\ \A n \in 1..m : after[n] = IF n \in path THEN Join(after[n - 1], n, r) ELSE after[n - 1]
  <2>1. \A i \in 0..m : after[i] = IF i = 0 THEN c ELSE IF i \in path THEN Join(after[i - 1], i, r) ELSE after[i - 1]
    BY <1>7
  <2>2. 0 \in 0..m /\ \A n \in 1..m : n \in 0..m /\ n # 0
    BY <1>2
  <2> HIDE DEF is
  <2> QED BY <2>1, <2>2
<1> HIDE DEF is
<1> DEFINE S == {n \in 0..m : after[n] \in A /\ \A i \in path : i <= n => after[n].img[i].run # 0}
<1>9. 0 \in S
  <2>1. \A i \in path : ~(i <= 0)
    BY <1>2
  <2> HIDE DEF A
  <2> QED BY <1>2, <1>3, <1>8, <2>1
<1>10. ASSUME NEW n \in 0..m, n # m, n \in S PROVE n + 1 \in S
  <2> DEFINE k == n + 1
             b == after[n]
             j == after[k]
  <2>1. k \in 1..m /\ k - 1 = n
    BY <1>2, <1>10
  <2>2. j = IF k \in path THEN Join(b, k, r) ELSE b
    <3>1. after[k] = IF k \in path THEN Join(after[k - 1], k, r) ELSE after[k - 1]
      BY <1>8, <2>1
    <3> HIDE DEF k
    <3> QED BY <2>1, <3>1
  <2>3. b \in A /\ \A i \in path : i <= n => b.img[i].run # 0
    BY <1>10
  <2>4. \A i \in path : i <= k => i <= n \/ i = k
    BY <1>2, <2>1
  <2>5. ASSUME NEW i \in path, i <= k PROVE j.img[i].run # 0
    <3>1. CASE k \in path
      <4>1. Kept(b, j) /\ j.img[k].run # 0
        BY <1>4, <2>1, <2>2, <2>3, <3>1
      <4>2. i \in DOMAIN b.img
        BY <2>3 DEF Kept
      <4> HIDE DEF A, b, j, k
      <4> QED BY <2>3, <2>4, <2>5, <4>1, <4>2 DEF Kept
    <3>2. CASE k \notin path
      <4> HIDE DEF A, b, j, k
      <4> QED BY <2>2, <2>3, <2>4, <2>5, <3>2
    <3> QED BY <3>1, <3>2
  <2>6. j \in A
    <3> HIDE DEF A, b, j, k
    <3> QED BY <1>4, <2>1, <2>2, <2>3 DEF Becomes
  <2> HIDE DEF A
  <2> QED BY <1>2, <2>1, <2>5, <2>6
<1>11. m \in S
  <2> HIDE DEF S
  <2>1. \A n \in 0..m : n # m /\ n \in S => n + 1 \in S
    BY <1>10
  <2>2. \A n \in 0..m : n \in S
    BY <1>2, <1>9, <2>1, Induct
  <2> QED BY <1>2, <2>2
<1>12. after[m] \in A /\ \A i \in path : after[m].img[i].run # 0
  <2>1. \A i \in path : i <= m
    BY <1>2
  <2> HIDE DEF A
  <2> QED BY <1>11, <2>1
<1> QED BY <1>1, <1>12

-----------------------------------------------------------------------------
(* Runs that are made for a denial *)

LEMMA CandidateRunSound ==
    ASSUME NEW c, Sound(c), NEW i \in DOMAIN c.img
    PROVE  Becomes(c, CandidateRun(c, i))
<1> DEFINE path == PathUp(c, i)
           root == Only({j \in path : c.img[j].execSeen})
           known == c.img[root].run
           r == IF known # 0 THEN known ELSE Len(c.runs) + 1
           started == IF known # 0 THEN c ELSE StartRun(c, "sandbox-init", root, NoTag)
           b == JoinPath(started, path, r)
<1>1. CandidateRun(c, i) = IF ~Eligible(c, path) \/ (known = 0 /\ AppSandboxed(c, root)) THEN c ELSE MaybeEndRun(b, r)
  BY DEF CandidateRun
<1>2. CASE ~Eligible(c, path) \/ (known = 0 /\ AppSandboxed(c, root))
  BY <1>1, <1>2, BecomesRefl
<1>3. CASE Eligible(c, path) /\ ~(known = 0 /\ AppSandboxed(c, root))
  <2>1. path \subseteq DOMAIN c.img /\ root \in DOMAIN c.img /\ root \in Nat
    <3>1. path \subseteq DOMAIN c.img /\ \E j \in path : c.img[j].execSeen
      BY <1>3, PathUpOK
    <3>2. root \in path
      BY <3>1 DEF Only
    <3> HIDE DEF root, path
    <3> QED BY <3>1, <3>2, CorrFields
  <2> HIDE DEF root, path
  <2>2. known \in Nat /\ (known # 0 => known \in DOMAIN c.runs)
    <3>1. known \in Nat /\ known <= Len(c.runs)
      BY <2>1, CorrFields DEF Sound, ImageOK, ImageType
    <3> QED BY <3>1, CorrFields
  <2> HIDE DEF known
  <2>3. Becomes(c, started) /\ started.img = c.img /\ r \in DOMAIN started.runs
    <3>1. CASE known # 0
      BY <2>2, <3>1, BecomesRefl
    <3>2. CASE known = 0
      <4> DEFINE s == StartRun(c, "sandbox-init", root, NoTag)
      <4>1. Becomes(c, s) /\ s.img = c.img /\ Len(s.runs) = Len(c.runs) + 1
        <5>1. NoTag \in Tags
          BY DEF Tags
        <5> QED BY <2>1, <5>1, StartRunSound
      <4> HIDE DEF s
      <4>2. DOMAIN s.runs = 1..Len(s.runs) /\ Len(c.runs) \in Nat
        BY <4>1, CorrFields DEF Becomes
      <4> QED BY <3>2, <4>1, <4>2 DEF s
    <3> QED BY <3>1, <3>2
  <2> HIDE DEF started, r
  <2>4. Becomes(started, b) /\ r \in DOMAIN b.runs
    <3>1. Sound(started)
      BY <2>3 DEF Becomes
    <3>2. path \subseteq DOMAIN started.img
      BY <2>1, <2>3
    <3>3. Becomes(started, b) /\ Kept(started, b)
      BY <2>3, <3>1, <3>2, JoinPathSound
    <3> HIDE DEF b
    <3> QED BY <2>3, <3>3 DEF Kept
  <2> HIDE DEF b
  <2>5. Becomes(b, MaybeEndRun(b, r))
    BY <2>4, MaybeEndRunSound DEF Becomes
  <2>6. Becomes(c, MaybeEndRun(b, r))
    <3>1. Sound(started) /\ Becomes(started, MaybeEndRun(b, r))
      BY <2>3, <2>4, <2>5, BecomesTrans DEF Becomes
    <3> QED BY <2>3, <3>1, BecomesTrans
  <2> QED BY <1>1, <1>3, <2>6
<1> QED BY <1>2, <1>3

LEMMA NewImageFresh ==
    ASSUME NEW proc, NEW start \in Nat, proc.pid \in Pid, proc.ver \in Nat, proc.prog \in Path
    PROVE  /\ Fresh(NewImage(proc, start)) /\ NewImage(proc, start).parent = 0
           /\ NewImage(proc, start).noToken = FALSE
           /\ NewImage(proc, start).pid = proc.pid /\ NewImage(proc, start).ver = proc.ver
<1> DEFINE x == NewImage(proc, start)
<1>1. x = [pid |-> proc.pid, ver |-> proc.ver, prog |-> proc.prog, execSeen |-> FALSE, noToken |-> FALSE,
           parent |-> 0, prev |-> 0, start |-> start, end |-> NoTime, endReason |-> "none", run |-> 0, row |-> "none"]
  BY DEF NewImage
<1>2. x \in ImageType
  BY DEF NewImage, ImageType
<1> HIDE DEF x
<1>3. Fresh(x) /\ x.parent = 0 /\ x.noToken = FALSE /\ x.pid = proc.pid /\ x.ver = proc.ver
  BY <1>1, <1>2 DEF Fresh
<1> QED BY <1>3 DEF x

LEMMA AdoptSound ==
    ASSUME NEW c, Sound(c), NEW d \in LineType, d.tag # NoTag, NEW i \in DOMAIN c.img \cup {0}
    PROVE  LET b == Adopt(c, d, i)
               j == IF i # 0 THEN i ELSE Len(c.img) + 1
           IN  Becomes(c, b) /\ j \in DOMAIN b.img /\ b.img[j].run # 0
<1> DEFINE known == c.adopted[d.tag]
           r == IF known # 0 THEN known ELSE Len(c.runs) + 1
           s == StartRun(c, "adopted", 0, d.tag)
           a == IF known # 0 THEN c ELSE [s EXCEPT !.adopted[d.tag] = r]
           stub == [NewImage([pid |-> d.pid, ver |-> 0, prog |-> "unknown"], 0) EXCEPT !.noToken = TRUE]
           g == Register(a, stub)
           n == Len(c.img) + 1
           b == Adopt(c, d, i)
<1>1. d.tag \in Tag /\ d.tag \in Tags /\ d.pid \in Pid
  BY DEF LineType, Tags
<1>2. known \in Nat /\ known <= Len(c.runs) /\ Len(c.runs) \in Nat /\ Len(c.img) \in Nat /\ DOMAIN c.runs = 1..Len(c.runs)
  BY <1>1, CorrFields DEF Sound, CorrType
<1>3. b = IF i # 0 THEN Join(a, i, r) ELSE Join(g, n, r)
  BY DEF Adopt
<1> HIDE DEF known
<1>4. Becomes(c, a) /\ a.img = c.img /\ r \in DOMAIN a.runs
  <2>1. CASE known # 0
    BY <1>2, <2>1, BecomesRefl
  <2>2. CASE known = 0
    <3>1. Becomes(c, s) /\ s.img = c.img /\ Len(s.runs) = Len(c.runs) + 1
      BY <1>1, StartRunSound
    <3> HIDE DEF s
    <3>2. Sound(s) /\ DOMAIN s.runs = 1..Len(s.runs) /\ s \in CorrType
      BY <3>1, CorrFields DEF Becomes, Sound
    <3>3. a = [s EXCEPT !.adopted[d.tag] = r] /\ r = Len(s.runs)
      BY <2>2, <3>1
    <3>4. r \in DOMAIN s.runs /\ r \in Nat
      BY <1>2, <3>1, <3>2, <3>3
    <3> HIDE DEF a, r
    <3>5. /\ a.img = s.img /\ a.runs = s.runs /\ a.tokens = s.tokens /\ a.byPID = s.byPID /\ a.mark = s.mark
          /\ a.adopted = [s.adopted EXCEPT ![d.tag] = r]
      BY <3>2, <3>3 DEF CorrType
    <3>6. a \in CorrType
      BY <1>1, <3>2, <3>3, <3>4 DEF CorrType
    <3>7. SameBooks(s, a)
      BY <3>2, <3>3 DEF SameBooks, CorrType
    <3>8. \A t \in Tag : a.adopted[t] <= Len(a.runs)
      BY <1>2, <3>1, <3>2, <3>3, <3>4, <3>5 DEF Sound, CorrType
    <3>9. Sound(a)
      BY <3>2, <3>5, <3>6, <3>8 DEF Sound, ImageOK, RunOK
    <3>10. Becomes(s, a)
      BY <3>5, <3>7, <3>9, CorrFields DEF Becomes
    <3> QED BY <3>1, <3>4, <3>5, <3>10, BecomesTrans
  <2> QED BY <2>1, <2>2
<1> HIDE DEF a, r
<1>5. Sound(a)
  BY <1>4 DEF Becomes
<1>6. CASE i # 0
  <2> DEFINE j == Join(a, i, r)
  <2>1. Becomes(a, j) /\ i \in DOMAIN j.img /\ j.img[i].run # 0
    BY <1>4, <1>5, <1>6, JoinSound DEF Kept
  <2> HIDE DEF j
  <2>2. Becomes(c, j)
    BY <1>4, <2>1, BecomesTrans
  <2> HIDE DEF b
  <2>3. b = j
    BY <1>3, <1>6 DEF j
  <2> QED BY <1>6, <2>1, <2>2, <2>3 DEF b
<1>7. CASE i = 0
  <2>1. Fresh(stub) /\ stub.parent <= Len(a.img)
    <3> DEFINE proc == [pid |-> d.pid, ver |-> 0, prog |-> "unknown"]
               x == NewImage(proc, 0)
    <3>1. proc.pid \in Pid /\ proc.ver \in Nat /\ proc.prog \in Path
      BY <1>1 DEF Path
    <3> HIDE DEF proc
    <3>2. Fresh(x) /\ x.parent = 0
      BY <3>1, NewImageFresh
    <3>3. stub = [x EXCEPT !.noToken = TRUE]
      BY DEF proc
    <3> HIDE DEF x, stub
    <3>4. stub \in ImageType /\ stub.parent = 0 /\ Fresh(stub)
      BY <3>2, <3>3 DEF Fresh, ImageType
    <3>5. Len(a.img) \in Nat
      BY <1>2, <1>4
    <3> QED BY <3>4, <3>5
  <2> HIDE DEF stub
  <2>2. Becomes(a, g) /\ g.img = Append(a.img, stub) /\ g.runs = a.runs
    BY <1>5, <2>1, RegisterSound
  <2> HIDE DEF g
  <2>3. Sound(g) /\ n \in DOMAIN g.img /\ r \in DOMAIN g.runs
    <3>1. a.img \in Seq(ImageType) /\ stub \in ImageType
      BY <1>5, <2>1 DEF Sound, CorrType, Fresh
    <3>2. DOMAIN g.img = 1..(Len(a.img) + 1)
      BY <2>2, <3>1
    <3> QED BY <1>2, <1>4, <2>2, <3>2 DEF Becomes
  <2> DEFINE j == Join(g, n, r)
  <2>4. Becomes(g, j) /\ n \in DOMAIN j.img /\ j.img[n].run # 0
    BY <2>3, JoinSound DEF Kept
  <2> HIDE DEF j
  <2>5. Becomes(c, j)
    BY <1>4, <1>5, <2>2, <2>3, <2>4, BecomesTrans
  <2> HIDE DEF b
  <2>6. b = j
    BY <1>3, <1>7 DEF j
  <2> QED BY <1>7, <2>4, <2>5, <2>6 DEF b
<1> QED BY <1>6, <1>7

-----------------------------------------------------------------------------
(* eslogger events *)

LEMMA RaiseMark ==
    ASSUME NEW c, Sound(c), NEW t \in Nat
    PROVE  LET b == [c EXCEPT !.mark = Larger(@, t)]
           IN  Sound(b) /\ b.mark = Larger(c.mark, t) /\ t <= b.mark
<1> DEFINE b == [c EXCEPT !.mark = Larger(@, t)]
<1>1. c \in CorrType /\ c.mark \in Nat
  BY DEF Sound, CorrType
<1>2. /\ b.mark = Larger(c.mark, t) /\ b.img = c.img /\ b.runs = c.runs /\ b.tokens = c.tokens
      /\ b.byPID = c.byPID /\ b.adopted = c.adopted
  BY <1>1 DEF CorrType
<1>3. b.mark \in Nat /\ c.mark <= b.mark /\ t <= b.mark
  BY <1>1, <1>2 DEF Larger
<1>4. b \in CorrType
  BY <1>1, <1>3 DEF CorrType
<1> HIDE DEF b
<1>5. \A i \in DOMAIN b.img : ImageOK(b, i)
  <2>1. \A i \in DOMAIN c.img : c.img[i].end \in Int
    BY CorrFields DEF ImageType, NoTime
  <2> QED BY <1>1, <1>2, <1>3, <2>1 DEF Sound, ImageOK
<1>6. \A r \in DOMAIN b.runs : RunOK(b, r)
  <2>1. \A r \in DOMAIN c.runs : c.runs[r].lastEnd \in Nat
    BY CorrFields DEF RunType
  <2> QED BY <1>1, <1>2, <1>3, <2>1 DEF Sound, RunOK
<1>7. Sound(b)
  BY <1>2, <1>4, <1>5, <1>6 DEF Sound
<1> QED BY <1>2, <1>3, <1>7 DEF b

LEMMA TrackSound ==
    ASSUME NEW c, Sound(c), NEW ev \in EventType
    PROVE  Becomes(c, Track(c, ev)) /\ Find(Track(c, ev), ev.actor) \in DOMAIN Track(c, ev).img
<1> DEFINE a == ImageFor(c, ev.actor)
           m == MarkSeen(a, ev.actor)
           b == MarkSeen(m, ev.target)
           x == NewImage(ev.actor, ev.actor.born)
           n == Len(c.img) + 1
<1>1. ev.actor \in ProcType /\ ev.target \in ProcType
  BY DEF EventType
<1>2. ev.actor.pid \in Pid /\ ev.actor.ver \in Nat /\ ev.actor.prog \in Path /\ ev.actor.born \in Nat
  BY <1>1 DEF ProcType
<1>3. Becomes(c, a) /\ \E i \in a.tokens : a.img[i].pid = ev.actor.pid /\ a.img[i].ver = ev.actor.ver
  <2>1. CASE Find(c, ev.actor) # 0
    <3>1. a = c /\ Becomes(c, a)
      BY <2>1, BecomesRefl DEF ImageFor
    <3>2. \E i \in c.tokens : c.img[i].pid = ev.actor.pid /\ c.img[i].ver = ev.actor.ver
      BY <2>1 DEF Find, Only
    <3> QED BY <3>1, <3>2
  <2>2. CASE Find(c, ev.actor) = 0
    <3>1. /\ Fresh(x) /\ x.parent = 0 /\ x.noToken = FALSE
          /\ x.pid = ev.actor.pid /\ x.ver = ev.actor.ver
      BY <1>2, NewImageFresh
    <3> HIDE DEF x
    <3>2. Len(c.img) \in Nat /\ x.parent <= Len(c.img)
      BY <3>1, CorrFields
    <3>3. a = Register(c, x)
      BY <2>2 DEF ImageFor, x
    <3>4. Becomes(c, a) /\ a.img = Append(c.img, x) /\ n \in a.tokens
      BY <3>1, <3>2, <3>3, RegisterSound
    <3>5. a.img[n] = x
      <4>1. c.img \in Seq(ImageType)
        BY DEF Sound, CorrType
      <4> HIDE DEF a
      <4> QED BY <3>4, <4>1
    <3> HIDE DEF a, n
    <3> QED BY <3>1, <3>4, <3>5
  <2> QED BY <2>1, <2>2
<1> HIDE DEF a
<1>4. Becomes(a, m) /\ m.img = a.img /\ m.tokens = a.tokens
  BY <1>1, <1>3, MarkSeenSound DEF Becomes
<1> HIDE DEF m
<1>5. Becomes(m, b) /\ b.img = m.img /\ b.tokens = m.tokens
  BY <1>1, <1>4, MarkSeenSound DEF Becomes
<1> HIDE DEF b
<1>6. Becomes(c, b)
  <2>1. Sound(a)
    BY <1>3 DEF Becomes
  <2>2. Becomes(a, b)
    BY <1>4, <1>5, <2>1, BecomesTrans
  <2> QED BY <1>3, <2>2, BecomesTrans
<1>7. Find(b, ev.actor) \in DOMAIN b.img
  <2>1. Sound(b)
    BY <1>6 DEF Becomes
  <2>2. \E i \in b.tokens : b.img[i].pid = ev.actor.pid /\ b.img[i].ver = ev.actor.ver
    BY <1>3, <1>4, <1>5
  <2> QED BY <2>1, <2>2, FindOK
<1>8. Track(c, ev) = b
  BY DEF Track, a, m, b
<1> QED BY <1>6, <1>7, <1>8

\* The image a fork or an exec registers.
LEMMA TargetFresh ==
    ASSUME NEW ev \in EventType, NEW parent \in Nat, NEW prev \in Nat
    PROVE  LET x == [NewImage(ev.target, ev.time) EXCEPT !.parent = parent]
               y == [NewImage(ev.target, ev.time) EXCEPT !.execSeen = TRUE, !.parent = parent, !.prev = prev]
           IN  Fresh(x) /\ x.parent = parent /\ Fresh(y) /\ y.parent = parent
<1> DEFINE z == NewImage(ev.target, ev.time)
           x == [z EXCEPT !.parent = parent]
           y == [z EXCEPT !.execSeen = TRUE, !.parent = parent, !.prev = prev]
<1>1. ev.target.pid \in Pid /\ ev.target.ver \in Nat /\ ev.target.prog \in Path /\ ev.time \in Nat
  BY DEF EventType, ProcType
<1>2. Fresh(z)
  BY <1>1, NewImageFresh
<1> HIDE DEF z
<1>3. z \in ImageType
  BY <1>2 DEF Fresh
<1>4. Fresh(x) /\ x.parent = parent
  BY <1>2, <1>3 DEF Fresh, ImageType
<1>5. Fresh(y) /\ y.parent = parent
  BY <1>2, <1>3 DEF Fresh, ImageType
<1> QED BY <1>4, <1>5 DEF z

LEMMA HandleForkSound ==
    ASSUME NEW c0, Sound(c0), NEW ev \in EventType
    PROVE  Becomes(c0, HandleFork(c0, ev))
<1> DEFINE c == Track(c0, ev)
           parent == Find(c, ev.actor)
           x == [NewImage(ev.target, ev.time) EXCEPT !.parent = parent]
           f == Register(c, x)
           r == c.img[parent].run
           n == Len(f.img)
<1>1. HandleFork(c0, ev) = IF Find(c, ev.target) # 0 THEN c ELSE IF r = 0 THEN f ELSE Join(f, n, r)
  BY DEF HandleFork
<1>2. Becomes(c0, c) /\ parent \in DOMAIN c.img
  BY TrackSound
<1> HIDE DEF c, parent
<1>3. Sound(c)
  BY <1>2 DEF Becomes
<1>4. parent \in Nat /\ parent <= Len(c.img) /\ Len(c.img) \in Nat /\ DOMAIN c.runs = 1..Len(c.runs)
      /\ r \in Nat /\ r <= Len(c.runs) /\ Len(c.runs) \in Nat
  <2>1. c.img[parent] \in ImageType /\ ImageOK(c, parent)
    BY <1>2, <1>3, CorrFields DEF Sound
  <2> QED BY <1>2, <1>3, <2>1, CorrFields DEF ImageOK, ImageType
<1>5. Fresh(x) /\ x.parent <= Len(c.img)
  <2>1. Fresh(x) /\ x.parent = parent
    BY <1>4, TargetFresh
  <2> QED BY <1>4, <2>1
<1> HIDE DEF x
<1>6. Becomes(c, f) /\ f.img = Append(c.img, x) /\ f.runs = c.runs
  BY <1>3, <1>5, RegisterSound
<1> HIDE DEF f, r
<1>7. Sound(f) /\ Becomes(c0, f)
  BY <1>2, <1>6, BecomesTrans DEF Becomes
<1>8. ASSUME r # 0 PROVE Becomes(c0, Join(f, n, r))
  <2>1. n \in DOMAIN f.img
    <3>1. Len(f.img) \in Nat /\ DOMAIN f.img = 1..Len(f.img) /\ Len(f.img) >= Len(c.img) /\ Len(c.img) >= 1
      BY <1>2, <1>3, <1>4, <1>6, <1>7, CorrFields DEF Becomes
    <3> QED BY <1>4, <3>1
  <2>2. r \in DOMAIN f.runs
    BY <1>4, <1>6, <1>8
  <2>3. Becomes(f, Join(f, n, r))
    BY <1>7, <2>1, <2>2, JoinSound
  <2> QED BY <1>7, <2>3, BecomesTrans
<1> QED BY <1>1, <1>2, <1>7, <1>8

LEMMA PlaceSound ==
    ASSUME NEW c, Sound(c), NEW ev \in EventType, NEW actor \in DOMAIN c.img, NEW image \in DOMAIN c.img
    PROVE  Becomes(c, Place(c, ev, actor, image))
<1> DEFINE s == StartRun(c, "sandbox-exec", image, ev.tag)
           n == Len(c.runs) + 1
           r == c.img[actor].run
<1>1. CASE ev.target.prog = SandboxExec
  <2>1. image \in Nat /\ ev.tag \in Tags
    BY CorrFields DEF EventType
  <2>2. Becomes(c, s) /\ s.img = c.img /\ Len(s.runs) = n
    BY <2>1, StartRunSound
  <2> HIDE DEF s
  <2>3. Sound(s) /\ n \in DOMAIN s.runs
    <3>1. Sound(s) /\ Len(c.runs) \in Nat
      BY <2>2, CorrFields DEF Becomes
    <3>2. DOMAIN s.runs = 1..Len(s.runs)
      BY <3>1, CorrFields
    <3> QED BY <2>2, <3>1, <3>2
  <2>4. Becomes(s, Join(s, image, n))
    BY <2>2, <2>3, JoinSound
  <2>5. Becomes(c, Join(s, image, n))
    BY <2>2, <2>4, BecomesTrans
  <2> QED BY <1>1, <2>5 DEF Place, s
<1>2. CASE ev.target.prog # SandboxExec /\ r # 0
  <2>1. r \in DOMAIN c.runs
    <3>1. r \in Nat /\ r <= Len(c.runs)
      BY CorrFields DEF Sound, ImageOK, ImageType
    <3> QED BY <1>2, <3>1, CorrFields
  <2>2. Becomes(c, Join(c, image, r))
    BY <2>1, JoinSound
  <2> QED BY <1>2, <2>2 DEF Place
<1>3. CASE ev.target.prog # SandboxExec /\ r = 0
  BY <1>3, BecomesRefl DEF Place
<1> QED BY <1>1, <1>2, <1>3

LEMMA HandleExecSound ==
    ASSUME NEW c0, Sound(c0), NEW ev \in EventType, ev.time <= c0.mark
    PROVE  Becomes(c0, HandleExec(c0, ev))
<1> DEFINE c == Track(c0, ev)
           actor == Find(c, ev.actor)
           parent == c.img[actor].parent
           x == [NewImage(ev.target, ev.time) EXCEPT !.execSeen = TRUE, !.parent = parent, !.prev = actor]
           e == Register(c, x)
           p == Place(e, ev, actor, Len(e.img))
           b == EndImage(p, actor, ev.time, "exec")
<1>1. HandleExec(c0, ev) = IF Find(c, ev.target) # 0 THEN c ELSE b
  BY DEF HandleExec
<1>2. Becomes(c0, c) /\ actor \in DOMAIN c.img
  BY TrackSound
<1> HIDE DEF c, actor
<1>3. Sound(c) /\ c.mark = c0.mark
  BY <1>2 DEF Becomes, SameBooks
<1>4. actor \in Nat /\ actor >= 1 /\ actor <= Len(c.img) /\ Len(c.img) \in Nat /\ parent \in Nat /\ parent < actor
  <2>1. c.img[actor] \in ImageType /\ ImageOK(c, actor)
    BY <1>2, <1>3, CorrFields DEF Sound
  <2> QED BY <1>2, <1>3, <2>1, CorrFields DEF ImageOK, ImageType
<1> HIDE DEF parent
<1>5. Fresh(x) /\ x.parent <= Len(c.img)
  <2>1. Fresh(x) /\ x.parent = parent
    BY <1>4, TargetFresh
  <2> QED BY <1>4, <2>1
<1> HIDE DEF x
<1>6. Becomes(c, e)
  BY <1>3, <1>5, RegisterSound
<1> HIDE DEF e
<1>7. Sound(e) /\ actor \in DOMAIN e.img /\ Len(e.img) \in DOMAIN e.img
  <2>1. Sound(e) /\ Len(e.img) >= Len(c.img)
    BY <1>6 DEF Becomes
  <2>2. Len(e.img) \in Nat /\ DOMAIN e.img = 1..Len(e.img)
    BY <2>1, CorrFields
  <2> QED BY <1>4, <2>1, <2>2
<1>8. Becomes(e, p)
  BY <1>7, PlaceSound
<1> HIDE DEF p
<1>9. Sound(p) /\ actor \in DOMAIN p.img /\ ev.time <= p.mark
  <2>1. Sound(p) /\ Len(p.img) >= Len(e.img) /\ p.mark = c0.mark
    BY <1>3, <1>6, <1>8 DEF Becomes, SameBooks
  <2>2. Len(p.img) \in Nat /\ DOMAIN p.img = 1..Len(p.img) /\ Len(e.img) \in Nat /\ DOMAIN e.img = 1..Len(e.img)
    BY <1>7, <2>1, CorrFields
  <2> QED BY <1>7, <2>1, <2>2
<1>10. Becomes(p, b)
  <2>1. ev.time \in Nat
    BY DEF EventType
  <2> QED BY <1>9, <2>1, EndImageSound
<1> HIDE DEF b
<1>11. Becomes(c0, b)
  BY <1>2, <1>3, <1>6, <1>7, <1>8, <1>10, BecomesTrans
<1> QED BY <1>1, <1>2, <1>11

\* An event leaves the tables sound and the books as they are, and raises the mark to its time.
LEMMA HandleESSound ==
    ASSUME NEW c, Sound(c), NEW ev \in EventType
    PROVE  Becomes([c EXCEPT !.mark = Larger(@, ev.time)], HandleES(c, ev))
<1> DEFINE a == [c EXCEPT !.mark = Larger(@, ev.time)]
           i == Find(a, ev.actor)
<1>1. ev.time \in Nat /\ ev.kind \in {"fork", "exec", "exit"}
  BY DEF EventType
<1>2. Sound(a) /\ ev.time <= a.mark
  BY <1>1, RaiseMark
<1>3. HandleES(c, ev) = CASE ev.kind = "fork" -> HandleFork(a, ev)
                          [] ev.kind = "exec" -> HandleExec(a, ev)
                          [] ev.kind = "exit" -> HandleExit(a, ev)
  BY DEF HandleES
<1> HIDE DEF a
<1>4. CASE ev.kind = "fork"
  <2>1. HandleES(c, ev) = HandleFork(a, ev)
    BY <1>3, <1>4
  <2>2. Becomes(a, HandleFork(a, ev))
    BY <1>2, HandleForkSound
  <2> QED BY <2>1, <2>2 DEF a
<1>5. CASE ev.kind = "exec"
  <2>1. HandleES(c, ev) = HandleExec(a, ev)
    BY <1>3, <1>5
  <2>2. Becomes(a, HandleExec(a, ev))
    BY <1>2, HandleExecSound
  <2> QED BY <2>1, <2>2 DEF a
<1>6. CASE ev.kind = "exit"
  <2>1. i \in DOMAIN a.img \cup {0}
    BY <1>2, FindOK
  <2>2. i # 0 => Becomes(a, EndImage(a, i, ev.time, "exit"))
    BY <1>1, <1>2, <2>1, EndImageSound
  <2>3. HandleES(c, ev) = IF i = 0 THEN a ELSE EndImage(a, i, ev.time, "exit")
    BY <1>3, <1>6 DEF HandleExit
  <2>4. Becomes(a, a)
    BY <1>2, BecomesRefl
  <2> QED BY <2>2, <2>3, <2>4 DEF a
<1> QED BY <1>1, <1>4, <1>5, <1>6 DEF a

-----------------------------------------------------------------------------
(* The ledger: what becomes of a denial, for the images and runs *)

\* Images keep their runs, and the tables what they point to.
SameTables(c, b) ==
    /\ b.mark = c.mark /\ b.img = c.img /\ b.tokens = c.tokens /\ b.byPID = c.byPID
    /\ b.adopted = c.adopted /\ b.seen = c.seen

\* Only a session differs in the runs.
SameRuns(c, b) ==
    /\ b.runs \in Seq(RunType) /\ Len(b.runs) = Len(c.runs)
    /\ \A r \in DOMAIN b.runs : /\ b.runs[r].live = c.runs[r].live /\ b.runs[r].status = c.runs[r].status
                                /\ b.runs[r].ended = c.runs[r].ended /\ b.runs[r].lastEnd = c.runs[r].lastEnd

LEMMA SameTablesSound ==
    ASSUME NEW c, Sound(c), NEW b, b \in CorrType, SameTables(c, b), SameRuns(c, b)
    PROVE  Sound(b)
<1>1. /\ Len(c.runs) \in Nat /\ DOMAIN c.runs = 1..Len(c.runs) /\ DOMAIN b.runs = DOMAIN c.runs
  BY CorrFields DEF SameRuns
<1>2. ASSUME NEW i \in DOMAIN b.img PROVE ImageOK(b, i)
  <2>1. i \in DOMAIN c.img /\ ImageOK(c, i) /\ c.img[i].run \in Nat
    BY CorrFields DEF Sound, SameTables, ImageType
  <2>2. c.img[i].run # 0 => c.img[i].run \in DOMAIN b.runs
    BY <1>1, <2>1 DEF ImageOK
  <2>3. c.img[i].run # 0 => b.runs[c.img[i].run].live = c.runs[c.img[i].run].live
    BY <2>2 DEF SameRuns
  <2>4. b.img = c.img /\ b.mark = c.mark /\ Len(b.runs) = Len(c.runs)
    BY DEF SameTables, SameRuns
  <2> QED BY <2>1, <2>3, <2>4 DEF ImageOK
<1>3. ASSUME NEW r \in DOMAIN b.runs PROVE RunOK(b, r)
  BY <1>1, <1>3 DEF Sound, SameTables, SameRuns, RunOK
<1> QED BY <1>2, <1>3 DEF Sound, SameTables, SameRuns

\* b is c after p got its row.
Attributed(c, b, p, i) ==
    LET k == KeyOf(p.d)
    IN  /\ b.pend = c.pend /\ b.mark = c.mark /\ b.dropped = c.dropped /\ b.orphans = c.orphans
        /\ b.denials = Append(c.denials, [run |-> c.img[i].run, img |-> i, count |-> p.count, ids |-> p.ids])
        /\ b.lastStored = [c.lastStored EXCEPT ![k] = [row |-> Len(c.denials) + 1, img |-> i]]
        /\ b.lastPending = [c.lastPending EXCEPT ![k] = IF @ = p.d.id THEN 0 ELSE @]
        /\ b.lastOrphan = c.lastOrphan

LEMMA AttributeSound ==
    ASSUME NEW c, Sound(c), NEW p \in PendingType, NEW i \in DOMAIN c.img, c.img[i].run # 0
    PROVE  Sound(Attribute(c, p, i)) /\ Attributed(c, Attribute(c, p, i), p, i)
<1> DEFINE b == Attribute(c, p, i)
           r == c.img[i].run
           k == KeyOf(p.d)
           row == [run |-> r, img |-> i, count |-> p.count, ids |-> p.ids]
           y == [c.runs[r] EXCEPT !.session = IF @ = NoTag THEN p.d.tag ELSE @]
<1>1. /\ c \in CorrType /\ p.d \in LineType /\ p.count \in Nat /\ p.ids \subseteq Nat /\ k \in DenialKey
      /\ c.denials \in Seq(DenialType) /\ c.runs \in Seq(RunType)
  BY DEF Sound, CorrType, PendingType, LineType, KeyOf, DenialKey
<1>2. r \in Nat /\ r \in DOMAIN c.runs /\ i \in Nat /\ c.runs[r] \in RunType
  <2>1. r \in Nat /\ r <= Len(c.runs)
    BY CorrFields DEF Sound, ImageOK, ImageType
  <2> QED BY <2>1, CorrFields
<1>3. y \in RunType /\ y.live = c.runs[r].live /\ y.status = c.runs[r].status /\ y.ended = c.runs[r].ended
      /\ y.lastEnd = c.runs[r].lastEnd
  <2>1. p.d.tag \in Tags
    BY <1>1 DEF LineType
  <2> QED BY <1>2, <2>1 DEF RunType
<1>4. row \in DenialType
  BY <1>1, <1>2 DEF DenialType
<1>5. p.d.id \in Nat /\ Len(c.denials) + 1 \in Nat
  BY <1>1 DEF LineType
<1>6. /\ b.mark = c.mark /\ b.img = c.img /\ b.tokens = c.tokens /\ b.byPID = c.byPID /\ b.adopted = c.adopted
      /\ b.seen = c.seen /\ b.pend = c.pend /\ b.dropped = c.dropped /\ b.orphans = c.orphans
      /\ b.lastOrphan = c.lastOrphan
  BY <1>1 DEF Attribute, CorrType
<1>7. b.denials = Append(c.denials, row)
  BY <1>1 DEF Attribute, CorrType
<1>8. b.lastStored = [c.lastStored EXCEPT ![k] = [row |-> Len(c.denials) + 1, img |-> i]]
  BY <1>1 DEF Attribute, CorrType
<1>9. b.lastPending = [c.lastPending EXCEPT ![k] = IF @ = p.d.id THEN 0 ELSE @]
  BY <1>1 DEF Attribute, CorrType
<1>10. b.runs = [c.runs EXCEPT ![r] = y]
  BY <1>1 DEF Attribute, CorrType
<1>11. DOMAIN b = DOMAIN c /\ b = [c EXCEPT !.denials = b.denials, !.lastStored = b.lastStored,
                                           !.lastPending = b.lastPending, !.runs = b.runs]
  BY <1>1 DEF Attribute, CorrType
<1> HIDE DEF b, y, row, r
<1>12. b.runs \in Seq(RunType) /\ Len(b.runs) = Len(c.runs) /\ DOMAIN b.runs = DOMAIN c.runs
       /\ b.runs[r] = y /\ \A q \in DOMAIN c.runs : q # r => b.runs[q] = c.runs[q]
  BY <1>1, <1>2, <1>3, <1>10, ExceptSeq, LenProperties
<1>13. SameRuns(c, b) /\ SameTables(c, b)
  BY <1>3, <1>6, <1>12 DEF SameRuns, SameTables
<1>14. b \in CorrType
  <2>1. b.denials \in Seq(DenialType)
    BY <1>1, <1>4, <1>7
  <2>2. b.lastStored \in [DenialKey -> [row : Nat, img : Nat]]
    BY <1>1, <1>2, <1>5, <1>8 DEF CorrType
  <2>3. b.lastPending \in [DenialKey -> Nat]
    BY <1>1, <1>5, <1>9 DEF CorrType
  <2> QED BY <1>1, <1>11, <1>12, <2>1, <2>2, <2>3 DEF CorrType
<1>15. Sound(b)
  BY <1>13, <1>14, SameTablesSound
<1> QED BY <1>6, <1>7, <1>8, <1>9, <1>15 DEF b, row, r, Attributed

LEMMA OrphanSound ==
    ASSUME NEW c, Sound(c), NEW p \in PendingType
    PROVE  LET b == Orphan(c, p)
           IN  /\ Sound(b) /\ b.pend = c.pend /\ b.mark = c.mark /\ b.denials = c.denials
               /\ b.lastStored = c.lastStored /\ b.lastPending = c.lastPending
               /\ \/ b.dropped = c.dropped \cup p.ids /\ b.orphans = c.orphans /\ b.lastOrphan = c.lastOrphan
                  \/ /\ b.dropped = c.dropped
                     /\ b.orphans = Append(c.orphans, [count |-> p.count, ids |-> p.ids])
                     /\ b.lastOrphan = [c.lastOrphan EXCEPT ![KeyOf(p.d)] = Len(c.orphans) + 1]
<1> DEFINE b == Orphan(c, p)
           k == KeyOf(p.d)
           row == [count |-> p.count, ids |-> p.ids]
<1>1. /\ c \in CorrType /\ p.d \in LineType /\ p.count \in Nat /\ p.ids \subseteq Nat /\ k \in DenialKey
      /\ c.orphans \in Seq(OrphanType) /\ c.runs \in Seq(RunType) /\ Len(c.runs) \in Nat
  BY CorrFields DEF Sound, CorrType, PendingType, LineType, KeyOf, DenialKey
<1>2. row \in OrphanType /\ Len(c.orphans) + 1 \in Nat
  BY <1>1 DEF OrphanType
<1>3. CASE c.seen[p.d.pid] = 0
  <2>1. /\ b.mark = c.mark /\ b.img = c.img /\ b.tokens = c.tokens /\ b.byPID = c.byPID /\ b.adopted = c.adopted
        /\ b.seen = c.seen /\ b.pend = c.pend /\ b.denials = c.denials /\ b.orphans = c.orphans /\ b.runs = c.runs
        /\ b.lastStored = c.lastStored /\ b.lastPending = c.lastPending /\ b.lastOrphan = c.lastOrphan
        /\ b.dropped = c.dropped \cup p.ids
    BY <1>1, <1>3 DEF Orphan, CorrType
  <2>2. b \in CorrType
    BY <1>1, <1>3 DEF Orphan, CorrType
  <2>3. SameTables(c, b) /\ SameRuns(c, b)
    BY <1>1, <2>1 DEF SameTables, SameRuns
  <2>4. Sound(b)
    BY <2>2, <2>3, SameTablesSound
  <2> QED BY <2>1, <2>4
<1>4. CASE c.seen[p.d.pid] # 0
  <2>1. /\ b.mark = c.mark /\ b.img = c.img /\ b.tokens = c.tokens /\ b.byPID = c.byPID /\ b.adopted = c.adopted
        /\ b.seen = c.seen /\ b.pend = c.pend /\ b.denials = c.denials /\ b.dropped = c.dropped /\ b.runs = c.runs
        /\ b.lastStored = c.lastStored /\ b.lastPending = c.lastPending
    BY <1>1, <1>4 DEF Orphan, CorrType
  <2>2. b.orphans = Append(c.orphans, row)
    BY <1>1, <1>4 DEF Orphan, CorrType
  <2>3. b.lastOrphan = [c.lastOrphan EXCEPT ![k] = Len(c.orphans) + 1]
    BY <1>1, <1>4 DEF Orphan, CorrType
  <2>4. b = [c EXCEPT !.orphans = b.orphans, !.lastOrphan = b.lastOrphan]
    BY <1>1, <1>4 DEF Orphan, CorrType
  <2> HIDE DEF b, row
  <2>5. b \in CorrType
    <3>1. b.orphans \in Seq(OrphanType) /\ b.lastOrphan \in [DenialKey -> Nat]
      BY <1>1, <1>2, <2>2, <2>3 DEF CorrType
    <3> QED BY <1>1, <2>4, <3>1 DEF CorrType
  <2>6. SameTables(c, b) /\ SameRuns(c, b)
    BY <1>1, <2>1 DEF SameTables, SameRuns
  <2>7. Sound(b)
    BY <2>5, <2>6, SameTablesSound
  <2> QED BY <2>1, <2>2, <2>3, <2>7 DEF b, row
<1> QED BY <1>3, <1>4

-----------------------------------------------------------------------------
(* The ledger: where the lines are *)

BooksOf(c, P) == PendingBooks(P) \cup RowBooks("denial", c.denials) \cup RowBooks("orphan", c.orphans)

\* c and the pending denials P have the lines D in their books.  What the last denials of a key refer to
\* is there to take a duplicate.
Ledger(c, P, D) ==
    /\ Balanced(BooksOf(c, P), c.dropped, D)
    /\ IsFiniteSet(P)
    /\ \A p \in P : p.d.id \in p.ids
    /\ \A p, q \in P : p.d.id = q.d.id => p = q
    /\ \A k \in DenialKey : c.lastPending[k] # 0 => \E p \in P : p.d.id = c.lastPending[k] /\ KeyOf(p.d) = k
    /\ \A k \in DenialKey : c.lastStored[k].row <= Len(c.denials) /\ c.lastOrphan[k] <= Len(c.orphans)

\* p has left the list of pending denials, and is in no row.
InHand(c, p, D) ==
    /\ Sound(c) /\ p \in PendingType /\ Ledger(c, c.pend \cup {p}, D)
    /\ \A q \in c.pend : q.d.id # p.d.id

LEMMA BecomesLedger ==
    ASSUME NEW c, NEW b, NEW P, NEW D, Sound(c), Becomes(c, b), Ledger(c, P, D)
    PROVE  Ledger(b, P, D)
<1>1. \A k \in DenialKey : b.lastOrphan[k] <= Len(b.orphans)
  <2>1. Len(c.orphans) \in Nat
    BY DEF Sound, CorrType
  <2> QED BY <2>1 DEF Becomes, SameBooks, Ledger
<1>2. BooksOf(b, P) = BooksOf(c, P)
  BY DEF Becomes, SameBooks, BooksOf
<1> QED BY <1>1, <1>2 DEF Becomes, SameBooks, Ledger

LEMMA BecomesInHand ==
    ASSUME NEW c, NEW b, NEW p, NEW D, InHand(c, p, D), Becomes(c, b)
    PROVE  InHand(b, p, D)
<1>1. Sound(b) /\ b.pend = c.pend
  BY DEF Becomes, SameBooks
<1>2. Ledger(b, c.pend \cup {p}, D)
  BY BecomesLedger DEF InHand
<1> QED BY <1>1, <1>2 DEF InHand

\* The book of a pending denial among those of the others.
Apart(P, p) == \A q \in P : q.d.id # p.d.id

LEMMA BooksSplit ==
    ASSUME NEW c, NEW P, NEW p, Apart(P, p)
    PROVE  LET b == Page("pending", p.d.id, p)
           IN  BooksOf(c, P \cup {p}) = BooksOf(c, P) \cup {b} /\ b \notin BooksOf(c, P)
<1> DEFINE b == Page("pending", p.d.id, p)
<1>1. PendingBooks(P \cup {p}) = PendingBooks(P) \cup {b}
  BY DEF PendingBooks, Page, Apart
<1>2. b \notin PendingBooks(P)
  BY DEF PendingBooks, Page, Apart
<1>3. \A x \in RowBooks("denial", c.denials) \cup RowBooks("orphan", c.orphans) : x[1] # "pending"
  BY DEF RowBooks, Page
<1>4. b[1] = "pending"
  BY PageFields
<1> HIDE DEF b
<1>5. BooksOf(c, P \cup {p}) = BooksOf(c, P) \cup {b} /\ b \notin BooksOf(c, P)
  BY <1>1, <1>2, <1>3, <1>4 DEF BooksOf
<1> QED BY <1>5 DEF b

LEMMA AttributeLedger ==
    ASSUME NEW c, NEW p, NEW D, InHand(c, p, D), NEW i \in DOMAIN c.img, c.img[i].run # 0
    PROVE  LET b == Attribute(c, p, i)
           IN  Sound(b) /\ Ledger(b, b.pend, D) /\ b.pend = c.pend /\ b.mark = c.mark
<1> DEFINE b == Attribute(c, p, i)
           r == c.img[i].run
           k == KeyOf(p.d)
           row == [run |-> r, img |-> i, count |-> p.count, ids |-> p.ids]
           n == Len(c.denials) + 1
           book == Page("pending", p.d.id, p)
           paid == Page("denial", n, row)
<1>1. /\ Sound(b) /\ b.pend = c.pend /\ b.mark = c.mark /\ b.dropped = c.dropped /\ b.orphans = c.orphans
      /\ b.denials = Append(c.denials, row)
      /\ b.lastStored = [c.lastStored EXCEPT ![k] = [row |-> n, img |-> i]]
      /\ b.lastPending = [c.lastPending EXCEPT ![k] = IF @ = p.d.id THEN 0 ELSE @]
      /\ b.lastOrphan = c.lastOrphan
  <2> HIDE DEF b
  <2>1. Sound(b) /\ Attributed(c, b, p, i)
    BY AttributeSound DEF InHand, b
  <2> QED BY <2>1 DEF Attributed
<1> HIDE DEF b
<1>2. /\ c \in CorrType /\ p \in PendingType /\ p.d \in LineType /\ k \in DenialKey /\ c.denials \in Seq(DenialType)
      /\ Len(c.denials) \in Nat /\ p.d.id # 0
  <2>1. c \in CorrType /\ p \in PendingType
    BY DEF InHand, Sound
  <2>2. p.d \in LineType /\ c.denials \in Seq(DenialType)
    BY <2>1 DEF CorrType, PendingType
  <2>3. k \in DenialKey /\ p.d.id # 0
    BY <2>2 DEF LineType, KeyOf, DenialKey
  <2> QED BY <2>1, <2>2, <2>3
<1>3. row \in DenialType
  <2>1. r \in Nat /\ i \in Nat
    BY CorrFields DEF InHand, ImageType
  <2> QED BY <1>2, <2>1 DEF DenialType, PendingType
<1>4. Ledger(c, c.pend \cup {p}, D) /\ \A q \in c.pend : q.d.id # p.d.id
  BY DEF InHand
<1>5. BooksOf(c, c.pend \cup {p}) = BooksOf(c, c.pend) \cup {book} /\ book \notin BooksOf(c, c.pend)
  BY <1>4, BooksSplit DEF Apart
<1>6. BooksOf(b, b.pend) = BooksOf(c, c.pend) \cup {paid}
  <2>1. RowBooks("denial", b.denials) = RowBooks("denial", c.denials) \cup {Page("denial", n, row)}
    <3> HIDE DEF row
    <3>1. c.denials \in Seq(DenialType)
      BY <1>2
    <3>2. RowBooks("denial", Append(c.denials, row)) = RowBooks("denial", c.denials)
             \cup {Page("denial", Len(c.denials) + 1, row)}
      <4> DEFINE s == c.denials
                 t == "denial"
      <4>1. s \in Seq(DenialType)
        BY <3>1
      <4> HIDE DEF s, t
      <4>2. RowBooks(t, Append(s, row)) = RowBooks(t, s) \cup {Page(t, Len(s) + 1, row)}
        BY <4>1, <1>3, BooksAppend
      <4> QED BY <4>2 DEF s, t
    <3> QED BY <1>1, <3>2
  <2>2. row.ids = p.ids /\ row.count = p.count
    OBVIOUS
  <2> HIDE DEF row
  <2> QED BY <1>1, <2>1, <2>2 DEF BooksOf
<1>7. Balanced(BooksOf(b, b.pend), b.dropped, D)
  <2>1. book[3] = paid[3] /\ book[4] = paid[4]
    BY DEF Page
  <2>2. Balanced(BooksOf(c, c.pend) \cup {book}, c.dropped, D)
    BY <1>4, <1>5 DEF Ledger
  <2> HIDE DEF book, paid
  <2>3. Balanced(BooksOf(c, c.pend) \cup {paid}, c.dropped, D)
    BY <1>5, <2>1, <2>2, MovePage
  <2> QED BY <1>1, <1>6, <2>3
<1>8. IsFiniteSet(b.pend)
  BY <1>1, <1>4, FS_Subset DEF Ledger
<1>9. \A q \in DenialKey : b.lastPending[q] # 0 => \E x \in b.pend : x.d.id = b.lastPending[q] /\ KeyOf(x.d) = q
  <2> SUFFICES ASSUME NEW q \in DenialKey, b.lastPending[q] # 0
               PROVE  \E x \in b.pend : x.d.id = b.lastPending[q] /\ KeyOf(x.d) = q
    OBVIOUS
  <2>1. b.lastPending[q] = c.lastPending[q] /\ (q = k => c.lastPending[q] # p.d.id)
    BY <1>1, <1>2 DEF CorrType
  <2>2. PICK x \in c.pend \cup {p} : x.d.id = c.lastPending[q] /\ KeyOf(x.d) = q
    BY <1>4, <2>1 DEF Ledger
  <2>3. x # p
    BY <2>1, <2>2
  <2> QED BY <1>1, <2>1, <2>2, <2>3
<1>10. \A q \in DenialKey : b.lastStored[q].row <= Len(b.denials) /\ b.lastOrphan[q] <= Len(b.orphans)
  <2>1. Len(b.denials) = n /\ n \in Nat
    <3> HIDE DEF row
    <3> QED BY <1>1, <1>2, <1>3
  <2>2. \A q \in DenialKey : c.lastStored[q].row \in Nat /\ c.lastStored[q].row <= Len(c.denials)
    BY <1>2, <1>4 DEF Ledger, CorrType
  <2>3. \A q \in DenialKey : b.lastStored[q].row \in {c.lastStored[q].row, n}
    BY <1>1, <1>2 DEF CorrType
  <2>4. \A q \in DenialKey : b.lastStored[q].row <= Len(b.denials)
    BY <1>2, <2>1, <2>2, <2>3
  <2> QED BY <1>1, <1>4, <2>4 DEF Ledger
<1>11. Ledger(b, b.pend, D)
  BY <1>1, <1>4, <1>7, <1>8, <1>9, <1>10 DEF Ledger
<1> QED BY <1>1, <1>11 DEF b

LEMMA OrphanLedger ==
    ASSUME NEW c, NEW p, NEW D, InHand(c, p, D), c.lastPending[KeyOf(p.d)] # p.d.id
    PROVE  LET b == Orphan(c, p)
           IN  Sound(b) /\ Ledger(b, b.pend, D) /\ b.pend = c.pend /\ b.mark = c.mark
<1> DEFINE b == Orphan(c, p)
           k == KeyOf(p.d)
           row == [count |-> p.count, ids |-> p.ids]
           n == Len(c.orphans) + 1
           book == Page("pending", p.d.id, p)
           paid == Page("orphan", n, row)
<1>1. /\ Sound(b) /\ b.pend = c.pend /\ b.mark = c.mark /\ b.denials = c.denials
      /\ b.lastStored = c.lastStored /\ b.lastPending = c.lastPending
      /\ \/ b.dropped = c.dropped \cup p.ids /\ b.orphans = c.orphans /\ b.lastOrphan = c.lastOrphan
         \/ /\ b.dropped = c.dropped /\ b.orphans = Append(c.orphans, row)
            /\ b.lastOrphan = [c.lastOrphan EXCEPT ![k] = n]
  BY OrphanSound DEF InHand
<1> HIDE DEF b
<1>2. /\ c \in CorrType /\ p \in PendingType /\ p.d \in LineType /\ k \in DenialKey /\ c.orphans \in Seq(OrphanType)
      /\ Len(c.orphans) \in Nat
  <2>1. c \in CorrType /\ p \in PendingType
    BY DEF InHand, Sound
  <2>2. p.d \in LineType /\ c.orphans \in Seq(OrphanType)
    BY <2>1 DEF CorrType, PendingType
  <2>3. k \in DenialKey
    BY <2>2 DEF LineType, KeyOf, DenialKey
  <2> QED BY <2>1, <2>2, <2>3
<1>3. row \in OrphanType
  BY <1>2 DEF OrphanType, PendingType
<1>4. Ledger(c, c.pend \cup {p}, D) /\ \A q \in c.pend : q.d.id # p.d.id
  BY DEF InHand
<1>5. BooksOf(c, c.pend \cup {p}) = BooksOf(c, c.pend) \cup {book} /\ book \notin BooksOf(c, c.pend)
  BY <1>4, BooksSplit DEF Apart
<1>6. Balanced(BooksOf(c, c.pend) \cup {book}, c.dropped, D)
  BY <1>4, <1>5 DEF Ledger
<1>7. book[3] = p.ids /\ paid[3] = p.ids /\ book[4] = paid[4] /\ row.ids = p.ids /\ row.count = p.count
      /\ paid = Page("orphan", n, row)
  BY DEF Page
<1> HIDE DEF book, paid, row
<1>8. Balanced(BooksOf(b, b.pend), b.dropped, D)
  <2>1. CASE b.dropped = c.dropped \cup p.ids /\ b.orphans = c.orphans
    <3>1. BooksOf(b, b.pend) = BooksOf(c, c.pend)
      BY <1>1, <2>1 DEF BooksOf
    <3>2. Balanced(BooksOf(c, c.pend), c.dropped \cup book[3], D)
      BY <1>5, <1>6, DropPage
    <3> QED BY <1>7, <2>1, <3>1, <3>2
  <2>2. CASE b.dropped = c.dropped /\ b.orphans = Append(c.orphans, row)
    <3>1. RowBooks("orphan", b.orphans) = RowBooks("orphan", c.orphans) \cup {Page("orphan", n, row)}
      <4>1. c.orphans \in Seq(OrphanType)
        BY <1>2
      <4>2. RowBooks("orphan", Append(c.orphans, row)) = RowBooks("orphan", c.orphans)
               \cup {Page("orphan", Len(c.orphans) + 1, row)}
        <5> DEFINE s == c.orphans
                   t == "orphan"
        <5>1. s \in Seq(OrphanType)
          BY <4>1
        <5> HIDE DEF s, t
        <5>2. RowBooks(t, Append(s, row)) = RowBooks(t, s) \cup {Page(t, Len(s) + 1, row)}
          BY <5>1, <1>3, BooksAppend
        <5> QED BY <5>2 DEF s, t
      <4> QED BY <2>2, <4>2
    <3>2. BooksOf(b, b.pend) = BooksOf(c, c.pend) \cup {paid}
      BY <1>1, <1>7, <3>1 DEF BooksOf
    <3>3. Balanced(BooksOf(c, c.pend) \cup {paid}, c.dropped, D)
      BY <1>5, <1>6, <1>7, MovePage
    <3> QED BY <2>2, <3>2, <3>3
  <2> QED BY <1>1, <2>1, <2>2
<1>9. IsFiniteSet(b.pend)
  BY <1>1, <1>4, FS_Subset DEF Ledger
<1>10. \A q \in DenialKey : b.lastPending[q] # 0 => \E x \in b.pend : x.d.id = b.lastPending[q] /\ KeyOf(x.d) = q
  <2> SUFFICES ASSUME NEW q \in DenialKey, b.lastPending[q] # 0
               PROVE  \E x \in b.pend : x.d.id = b.lastPending[q] /\ KeyOf(x.d) = q
    OBVIOUS
  <2>1. PICK x \in c.pend \cup {p} : x.d.id = c.lastPending[q] /\ KeyOf(x.d) = q
    BY <1>1, <1>4 DEF Ledger
  <2>2. x # p
    BY <2>1
  <2> QED BY <1>1, <2>1, <2>2
<1>11. \A q \in DenialKey : b.lastStored[q].row <= Len(b.denials) /\ b.lastOrphan[q] <= Len(b.orphans)
  <2>1. \A q \in DenialKey : /\ c.lastStored[q].row <= Len(c.denials)
                             /\ c.lastOrphan[q] \in Nat /\ c.lastOrphan[q] <= Len(c.orphans)
    BY <1>2, <1>4 DEF Ledger, CorrType
  <2>2. CASE b.orphans = c.orphans /\ b.lastOrphan = c.lastOrphan
    BY <1>1, <2>1, <2>2
  <2>3. CASE b.orphans = Append(c.orphans, row) /\ b.lastOrphan = [c.lastOrphan EXCEPT ![k] = n]
    <3>1. Len(b.orphans) = n /\ n \in Nat
      BY <1>2, <1>3, <2>3
    <3>2. \A q \in DenialKey : b.lastOrphan[q] \in {c.lastOrphan[q], n}
      BY <1>2, <2>3 DEF CorrType
    <3> QED BY <1>1, <1>2, <2>1, <3>1, <3>2
  <2> QED BY <1>1, <2>2, <2>3
<1>12. Ledger(b, b.pend, D)
  BY <1>1, <1>4, <1>8, <1>9, <1>10, <1>11 DEF Ledger
<1> QED BY <1>1, <1>12 DEF b

\* The state in which finalize decides: no duplicate will be added to p.
LEMMA ForgetSound ==
    ASSUME NEW c, Sound(c), NEW p \in PendingType
    PROVE  LET b == [c EXCEPT !.lastPending[KeyOf(p.d)] = IF @ = p.d.id THEN 0 ELSE @]
           IN  /\ Sound(b) /\ b.pend = c.pend /\ b.mark = c.mark /\ b.img = c.img
               /\ b.lastPending[KeyOf(p.d)] # p.d.id
               /\ \A D : InHand(c, p, D) => InHand(b, p, D)
<1> DEFINE k == KeyOf(p.d)
           b == [c EXCEPT !.lastPending[k] = IF @ = p.d.id THEN 0 ELSE @]
<1>1. c \in CorrType /\ p.d \in LineType
  BY DEF Sound, PendingType
<1>2. k \in DenialKey /\ p.d.id # 0 /\ p.d.id \in Nat
  BY <1>1 DEF LineType, KeyOf, DenialKey
<1>3. b.lastPending = [c.lastPending EXCEPT ![k] = IF @ = p.d.id THEN 0 ELSE @]
  BY <1>1 DEF CorrType
<1>4. /\ b.mark = c.mark /\ b.img = c.img /\ b.tokens = c.tokens /\ b.byPID = c.byPID /\ b.adopted = c.adopted
      /\ b.seen = c.seen /\ b.pend = c.pend /\ b.denials = c.denials /\ b.orphans = c.orphans /\ b.runs = c.runs
      /\ b.dropped = c.dropped /\ b.lastStored = c.lastStored /\ b.lastOrphan = c.lastOrphan
  BY <1>1 DEF CorrType
<1>5. b \in CorrType
  BY <1>1, <1>2 DEF CorrType
<1> HIDE DEF b, k
<1>6. c.lastPending \in [DenialKey -> Nat]
  BY <1>1 DEF CorrType
<1>7. \A q \in DenialKey : b.lastPending[q] # 0 => b.lastPending[q] = c.lastPending[q]
  BY <1>2, <1>3, <1>6
<1>8. b.lastPending[k] # p.d.id
  BY <1>2, <1>3, <1>6
<1>9. Sound(b)
  <2>1. SameTables(c, b) /\ SameRuns(c, b)
    BY <1>1, <1>4 DEF SameTables, SameRuns, CorrType
  <2> QED BY <1>5, <2>1, SameTablesSound
<1>10. ASSUME NEW D, InHand(c, p, D) PROVE InHand(b, p, D)
  <2>1. Ledger(c, c.pend \cup {p}, D)
    BY <1>10 DEF InHand
  <2>2. BooksOf(b, c.pend \cup {p}) = BooksOf(c, c.pend \cup {p})
    BY <1>4 DEF BooksOf
  <2>3. Ledger(b, c.pend \cup {p}, D)
    BY <1>4, <1>7, <2>1, <2>2 DEF Ledger
  <2> QED BY <1>4, <1>9, <1>10, <2>3 DEF InHand
<1> QED BY <1>4, <1>8, <1>9, <1>10 DEF b, k

LEMMA FinalizeSound ==
    ASSUME NEW c0, Sound(c0), NEW p \in PendingType, NEW classify \in BOOLEAN
    PROVE  LET b == Finalize(c0, p, classify)
           IN  /\ Sound(b) /\ b.pend = c0.pend /\ b.mark = c0.mark
               /\ \A D : InHand(c0, p, D) => Ledger(b, b.pend, D)
<1> DEFINE c == [c0 EXCEPT !.lastPending[KeyOf(p.d)] = IF @ = p.d.id THEN 0 ELSE @]
           i == Resolve(c, p.d.pid, p.d.time)
           a == Adopt(c, p.d, i)
           j == IF i # 0 THEN i ELSE Len(c.img) + 1
           n == CandidateRun(c, i)
           b == Finalize(c0, p, classify)
           Good(x) == Sound(x) /\ x.pend = c0.pend /\ x.mark = c0.mark /\ \A D : InHand(c0, p, D) => Ledger(x, x.pend, D)
<1>1. b = IF i # 0 /\ c.img[i].run # 0 THEN Attribute(c, p, i)
          ELSE IF classify /\ p.d.tag # NoTag THEN Attribute(a, p, j)
          ELSE IF i # 0 /\ classify /\ n.img[i].run # 0 THEN Attribute(n, p, i)
          ELSE Orphan(c, p)
  BY DEF Finalize
<1>2. /\ Sound(c) /\ c.pend = c0.pend /\ c.mark = c0.mark /\ c.lastPending[KeyOf(p.d)] # p.d.id
      /\ \A D : InHand(c0, p, D) => InHand(c, p, D)
  BY ForgetSound
<1> HIDE DEF c
<1>3. i \in DOMAIN c.img \cup {0}
  BY <1>2, ResolveOK
<1> HIDE DEF i
<1>4. ASSUME NEW x, Becomes(c, x), NEW y \in DOMAIN x.img, x.img[y].run # 0 PROVE Good(Attribute(x, p, y))
  <2>1. Sound(x) /\ x.pend = c0.pend /\ x.mark = c0.mark
    BY <1>2, <1>4 DEF Becomes, SameBooks
  <2> DEFINE z == Attribute(x, p, y)
  <2>2. Sound(z) /\ z.pend = x.pend /\ z.mark = x.mark
    <3>1. Sound(x) /\ x.img[y].run # 0
      BY <1>4, <2>1
    <3> HIDE DEF Good, z
    <3>2. Sound(z) /\ Attributed(x, z, p, y)
      BY <3>1, AttributeSound DEF z
    <3> QED BY <3>2 DEF Attributed
  <2>3. ASSUME NEW D, InHand(c0, p, D) PROVE Ledger(z, z.pend, D)
    <3>1. InHand(x, p, D)
      BY <1>2, <1>4, <2>3, BecomesInHand
    <3> HIDE DEF Good
    <3> QED BY <1>4, <3>1, AttributeLedger
  <2> HIDE DEF z
  <2>4. Good(z)
    BY <2>1, <2>2, <2>3
  <2> QED BY <2>4 DEF z
<1>5. Becomes(c, c)
  BY <1>2, BecomesRefl
<1>6. CASE i # 0 /\ c.img[i].run # 0
  <2>1. Good(Attribute(c, p, i))
    <3> HIDE DEF Good
    <3> QED BY <1>3, <1>4, <1>5, <1>6
  <2> QED BY <1>1, <1>6, <2>1
<1>7. CASE ~(i # 0 /\ c.img[i].run # 0) /\ classify /\ p.d.tag # NoTag
  <2>1. p.d \in LineType
    BY DEF PendingType
  <2>2. Becomes(c, a) /\ j \in DOMAIN a.img /\ a.img[j].run # 0
    BY <1>2, <1>3, <1>7, <2>1, AdoptSound
  <2> HIDE DEF a, j
  <2>3. Good(Attribute(a, p, j))
    <3> HIDE DEF Good
    <3> QED BY <1>4, <2>2
  <2> QED BY <1>1, <1>7, <2>3
<1>8. CASE /\ ~(i # 0 /\ c.img[i].run # 0) /\ ~(classify /\ p.d.tag # NoTag)
           /\ i # 0 /\ classify /\ n.img[i].run # 0
  <2>1. Becomes(c, n)
    BY <1>2, <1>3, <1>8, CandidateRunSound
  <2> HIDE DEF n
  <2>2. i \in DOMAIN n.img
    <3>1. Sound(n) /\ Len(n.img) >= Len(c.img)
      BY <2>1 DEF Becomes
    <3>2. /\ Len(c.img) \in Nat /\ DOMAIN c.img = 1..Len(c.img)
          /\ Len(n.img) \in Nat /\ DOMAIN n.img = 1..Len(n.img)
      BY <1>2, <3>1, CorrFields
    <3> QED BY <1>3, <1>8, <3>1, <3>2
  <2>3. Good(Attribute(n, p, i))
    <3> HIDE DEF Good
    <3> QED BY <1>4, <1>8, <2>1, <2>2
  <2> QED BY <1>1, <1>8, <2>3
<1>9. CASE /\ ~(i # 0 /\ c.img[i].run # 0) /\ ~(classify /\ p.d.tag # NoTag)
           /\ ~(i # 0 /\ classify /\ n.img[i].run # 0)
  <2> DEFINE x == Orphan(c, p)
  <2>1. Sound(x) /\ x.pend = c.pend /\ x.mark = c.mark
    BY <1>2, OrphanSound
  <2>2. ASSUME NEW D, InHand(c0, p, D) PROVE Ledger(x, x.pend, D)
    BY <1>2, <2>2, OrphanLedger
  <2> HIDE DEF x
  <2>3. Good(x)
    BY <1>2, <2>1, <2>2
  <2>4. b = x
    <3> HIDE DEF b, Good, a, n, j
    <3> QED BY <1>1, <1>9 DEF x
  <2> HIDE DEF b
  <2> QED BY <2>3, <2>4 DEF b
<1> HIDE DEF a, n, j
<1> QED BY <1>6, <1>7, <1>8, <1>9

\* A duplicate is counted in a row of a table.
LEMMA RowTakes ==
    ASSUME NEW t, NEW O, \A o \in O : o[1] # t, NEW s, NEW s2, NEW n, RowChanges(s, s2, n),
           NEW X, NEW D, NEW id, id \notin D,
           Balanced(O \cup RowBooks(t, s), X, D), s2[n].ids = s[n].ids \cup {id}, s2[n].count = s[n].count + 1
    PROVE  Balanced(O \cup RowBooks(t, s2), X, D \cup {id})
<1> DEFINE b == Page(t, n, s[n])
           e == Page(t, n, s2[n])
<1>1. PICK B : RowBooks(t, s) = B \cup {b} /\ RowBooks(t, s2) = B \cup {e} /\ \A x \in B : x[1] = t /\ x[2] # n
  BY BooksUpdate
<1>2. b[1] = t /\ b[2] = n /\ e[3] = b[3] \cup {id} /\ e[4] = b[4] + 1
  BY DEF Page
<1> HIDE DEF b, e
<1>3. b \notin O \cup B
  BY <1>1, <1>2
<1>4. O \cup RowBooks(t, s) = (O \cup B) \cup {b} /\ O \cup RowBooks(t, s2) = (O \cup B) \cup {e}
  BY <1>1
<1>5. Balanced((O \cup B) \cup {b}, X, D)
  BY <1>4
<1>6. Balanced((O \cup B) \cup {e}, X, D \cup {id})
  BY <1>2, <1>3, <1>5, SamePage
<1> QED BY <1>4, <1>6

\* A duplicate of a denial that is still pending is added to it.
Takes(c, b, k, id) ==
    b = [c EXCEPT !.pend = {IF q.d.id = c.lastPending[k]
                            THEN [q EXCEPT !.count = @ + 1, !.ids = @ \cup {id}] ELSE q : q \in @}]

LEMMA PendingTakes ==
    ASSUME NEW c, Sound(c), NEW D, Ledger(c, c.pend, D), NEW id \in Nat, id \notin D,
           NEW k \in DenialKey, c.lastPending[k] # 0, NEW b, Takes(c, b, k, id)
    PROVE  /\ Sound(b) /\ Ledger(b, b.pend, D \cup {id}) /\ b.mark = c.mark
           /\ \A p \in b.pend : \E q \in c.pend : p.arrived = q.arrived
<1>1. c \in CorrType /\ c.pend \subseteq PendingType
  BY DEF Sound, CorrType
<1>2. PICK x \in c.pend : x.d.id = c.lastPending[k] /\ KeyOf(x.d) = k
  BY DEF Ledger
<1> DEFINE y == [x EXCEPT !.count = @ + 1, !.ids = @ \cup {id}]
           P == c.pend \ {x}
           more(q) == IF q.d.id = c.lastPending[k] THEN [q EXCEPT !.count = @ + 1, !.ids = @ \cup {id}] ELSE q
           old == Page("pending", x.d.id, x)
           new == Page("pending", y.d.id, y)
<1>3. y \in PendingType /\ y.d = x.d /\ y.ids = x.ids \cup {id} /\ y.count = x.count + 1 /\ y.arrived = x.arrived
  <2>1. x \in PendingType
    BY <1>1, <1>2
  <2>2. x.count + 1 \in Nat /\ x.ids \cup {id} \subseteq Nat
    BY <2>1 DEF PendingType
  <2> QED BY <2>1, <2>2 DEF PendingType
<1>4. \A q \in P : q.d.id # x.d.id /\ more(q) = q
  BY <1>2 DEF Ledger
<1>5. b.pend = P \cup {y}
  <2>1. b.pend = {more(q) : q \in c.pend}
    BY <1>1 DEF CorrType, Takes
  <2>2. more(x) = y
    BY <1>2
  <2> HIDE DEF more, y
  <2> QED BY <1>2, <1>4, <2>1, <2>2
<1>6. /\ b.mark = c.mark /\ b.img = c.img /\ b.tokens = c.tokens /\ b.byPID = c.byPID /\ b.adopted = c.adopted
      /\ b.seen = c.seen /\ b.denials = c.denials /\ b.orphans = c.orphans /\ b.runs = c.runs
      /\ b.dropped = c.dropped /\ b.lastStored = c.lastStored /\ b.lastOrphan = c.lastOrphan
      /\ b.lastPending = c.lastPending /\ b = [c EXCEPT !.pend = b.pend]
  BY <1>1 DEF CorrType, Takes
<1> HIDE DEF y, more
<1>7. b \in CorrType
  <2>1. b.pend \subseteq PendingType
    BY <1>1, <1>3, <1>5
  <2> QED BY <1>1, <1>6, <2>1 DEF CorrType
<1>8. Sound(b)
  <2>1. SameTables(c, b) /\ SameRuns(c, b)
    BY <1>1, <1>6 DEF SameTables, SameRuns, CorrType
  <2> QED BY <1>7, <2>1, SameTablesSound
<1>9. Balanced(BooksOf(b, b.pend), b.dropped, D \cup {id})
  <2>1. c.pend = P \cup {x}
    BY <1>2
  <2>2. BooksOf(c, P \cup {x}) = BooksOf(c, P) \cup {old} /\ old \notin BooksOf(c, P)
    BY <1>4, BooksSplit DEF Apart
  <2>3. BooksOf(c, P \cup {y}) = BooksOf(c, P) \cup {new}
    <3>1. Apart(P, y)
      BY <1>3, <1>4 DEF Apart
    <3>2. BooksOf(c, P \cup {y}) = BooksOf(c, P) \cup {new} /\ new \notin BooksOf(c, P)
      BY <3>1, BooksSplit
    <3> QED BY <3>2
  <2>4. old[3] = x.ids /\ old[4] = x.count /\ new[3] = y.ids /\ new[4] = y.count
    BY DEF Page
  <2> HIDE DEF old, new, P
  <2>5. Balanced(BooksOf(c, P) \cup {old}, c.dropped, D)
    <3>1. Balanced(BooksOf(c, c.pend), c.dropped, D)
      BY DEF Ledger
    <3> QED BY <2>1, <2>2, <3>1
  <2>6. Balanced(BooksOf(c, P) \cup {new}, c.dropped, D \cup {id})
    BY <1>3, <2>2, <2>4, <2>5, SamePage
  <2>7. BooksOf(b, b.pend) = BooksOf(c, P \cup {y})
    BY <1>5, <1>6 DEF BooksOf
  <2> QED BY <1>6, <2>3, <2>6, <2>7
<1>10. IsFiniteSet(b.pend)
  <2>1. IsFiniteSet(P)
    BY FS_Subset DEF Ledger
  <2> HIDE DEF P
  <2>2. IsFiniteSet(P \cup {y})
    BY <2>1, FS_AddElement
  <2> QED BY <1>5, <2>2
<1>11. \A p \in b.pend : p.d.id \in p.ids
  BY <1>2, <1>3, <1>5 DEF Ledger
<1>12. \A p, q \in b.pend : p.d.id = q.d.id => p = q
  BY <1>3, <1>4, <1>5 DEF Ledger
<1>13. \A q \in DenialKey : b.lastPending[q] # 0 => \E p \in b.pend : p.d.id = b.lastPending[q] /\ KeyOf(p.d) = q
  <2>a. b.lastPending = c.lastPending
    BY <1>6
  <2> SUFFICES ASSUME NEW q \in DenialKey, c.lastPending[q] # 0
               PROVE  \E p \in b.pend : p.d.id = c.lastPending[q] /\ KeyOf(p.d) = q
    BY <2>a
  <2>1. PICK p \in c.pend : p.d.id = c.lastPending[q] /\ KeyOf(p.d) = q
    BY DEF Ledger
  <2>2. CASE p = x
    BY <1>3, <1>5, <2>1, <2>2
  <2>3. CASE p # x
    BY <1>5, <2>1, <2>3
  <2> QED BY <2>2, <2>3
<1>14. Ledger(b, b.pend, D \cup {id})
  BY <1>6, <1>9, <1>10, <1>11, <1>12, <1>13 DEF Ledger
<1>15. \A p \in b.pend : \E q \in c.pend : p.arrived = q.arrived
  BY <1>2, <1>3, <1>5
<1> QED BY <1>6, <1>8, <1>14, <1>15

\* A duplicate of a denial that has a denial row is counted in it.
DenialCounts(c, b, n, id) == b = [c EXCEPT !.denials[n].count = @ + 1, !.denials[n].ids = @ \cup {id}]

LEMMA DenialTakes ==
    ASSUME NEW c, Sound(c), NEW D, Ledger(c, c.pend, D), NEW id \in Nat, id \notin D, NEW n \in DOMAIN c.denials,
           NEW b, DenialCounts(c, b, n, id)
    PROVE  Sound(b) /\ Ledger(b, b.pend, D \cup {id}) /\ b.pend = c.pend /\ b.mark = c.mark
<1> DEFINE x == c.denials[n]
           y == [x EXCEPT !.count = @ + 1, !.ids = @ \cup {id}]
           rows == [c.denials EXCEPT ![n] = y]
           others == PendingBooks(c.pend) \cup RowBooks("orphan", c.orphans)
<1>1. c \in CorrType /\ c.denials \in Seq(DenialType) /\ n \in Nat
  <2>1. c \in CorrType /\ c.denials \in Seq(DenialType)
    BY DEF Sound, CorrType
  <2> QED BY <2>1
<1>2. x \in DenialType /\ DOMAIN c.denials = 1..Len(c.denials) /\ Len(c.denials) \in Nat
  BY <1>1, ElementOfSeq, LenProperties
<1>3. y \in DenialType /\ y.ids = x.ids \cup {id} /\ y.count = x.count + 1
  <2>1. x.count + 1 \in Nat /\ x.ids \cup {id} \subseteq Nat
    BY <1>2 DEF DenialType
  <2> HIDE DEF x
  <2> QED BY <1>2, <2>1 DEF DenialType
<1>4. b = [c EXCEPT !.denials = rows]
  <2> DEFINE r1 == [c.denials EXCEPT ![n].count = @ + 1]
             b1 == [c EXCEPT !.denials[n].count = @ + 1]
             b2 == [b1 EXCEPT !.denials[n].ids = @ \cup {id}]
             r2 == [r1 EXCEPT ![n].ids = @ \cup {id}]
  <2>1. b1 = [c EXCEPT !.denials = r1] /\ b1.denials = r1
    BY <1>1 DEF CorrType
  <2>2. b2 = [b1 EXCEPT !.denials = r2]
    <3> HIDE DEF b1
    <3> QED BY <2>1
  <2>3. b2 = [c EXCEPT !.denials = r2]
    <3> HIDE DEF b1, b2, r1, r2
    <3> QED BY <2>1, <2>2
  <2>4. r2 = rows
    BY <1>1, <1>2 DEF DenialType
  <2>5. b = b2
    BY DEF DenialCounts
  <2> HIDE DEF b2, r2, rows
  <2> QED BY <2>3, <2>4, <2>5
<1> HIDE DEF x, y
<1>5. rows \in Seq(DenialType) /\ Len(rows) = Len(c.denials) /\ rows[n] = y /\ RowChanges(c.denials, rows, n)
  <2>1. rows \in Seq(DenialType) /\ Len(rows) = Len(c.denials) /\ DOMAIN rows = DOMAIN c.denials
    BY <1>1, <1>2, <1>3, ExceptSeq, LenProperties
  <2> QED BY <1>2, <2>1 DEF RowChanges
<1> HIDE DEF rows
<1>6. /\ b.mark = c.mark /\ b.img = c.img /\ b.tokens = c.tokens /\ b.byPID = c.byPID /\ b.adopted = c.adopted
      /\ b.seen = c.seen /\ b.orphans = c.orphans /\ b.denials = rows /\ b.runs = c.runs /\ b.pend = c.pend
      /\ b.dropped = c.dropped /\ b.lastStored = c.lastStored /\ b.lastOrphan = c.lastOrphan
      /\ b.lastPending = c.lastPending
  BY <1>1, <1>4 DEF CorrType
<1>7. Sound(b)
  <2>1. b \in CorrType
    BY <1>1, <1>4, <1>5 DEF CorrType
  <2>2. SameTables(c, b) /\ SameRuns(c, b)
    BY <1>1, <1>6 DEF SameTables, SameRuns, CorrType
  <2> QED BY <2>1, <2>2, SameTablesSound
<1>8. Balanced(BooksOf(b, b.pend), b.dropped, D \cup {id})
  <2> DEFINE t == "denial"
  <2>1. \A o \in others : o[1] # t
    BY DEF PendingBooks, RowBooks
  <2>2. BooksOf(c, c.pend) = others \cup RowBooks(t, c.denials) /\ BooksOf(b, b.pend) = others \cup RowBooks(t, rows)
    BY <1>6 DEF BooksOf
  <2>3. Balanced(BooksOf(c, c.pend), c.dropped, D)
    BY DEF Ledger
  <2> HIDE DEF others, t
  <2>4. Balanced(others \cup RowBooks(t, c.denials), c.dropped, D)
    BY <2>2, <2>3
  <2>5. rows[n].ids = c.denials[n].ids \cup {id} /\ rows[n].count = c.denials[n].count + 1
    BY <1>3, <1>5 DEF x
  <2>6. Balanced(others \cup RowBooks(t, rows), c.dropped, D \cup {id})
    BY <1>5, <2>1, <2>4, <2>5, RowTakes
  <2> QED BY <1>6, <2>2, <2>6
<1>9. Ledger(b, b.pend, D \cup {id})
  BY <1>5, <1>6, <1>8 DEF Ledger
<1> QED BY <1>6, <1>7, <1>9

\* A duplicate of a denial that has a orphan row is counted in it.
OrphanCounts(c, b, n, id) == b = [c EXCEPT !.orphans[n].count = @ + 1, !.orphans[n].ids = @ \cup {id}]

LEMMA OrphanTakes ==
    ASSUME NEW c, Sound(c), NEW D, Ledger(c, c.pend, D), NEW id \in Nat, id \notin D, NEW n \in DOMAIN c.orphans,
           NEW b, OrphanCounts(c, b, n, id)
    PROVE  Sound(b) /\ Ledger(b, b.pend, D \cup {id}) /\ b.pend = c.pend /\ b.mark = c.mark
<1> DEFINE x == c.orphans[n]
           y == [x EXCEPT !.count = @ + 1, !.ids = @ \cup {id}]
           rows == [c.orphans EXCEPT ![n] = y]
           others == PendingBooks(c.pend) \cup RowBooks("denial", c.denials)
<1>1. c \in CorrType /\ c.orphans \in Seq(OrphanType) /\ n \in Nat
  <2>1. c \in CorrType /\ c.orphans \in Seq(OrphanType)
    BY DEF Sound, CorrType
  <2> QED BY <2>1
<1>2. x \in OrphanType /\ DOMAIN c.orphans = 1..Len(c.orphans) /\ Len(c.orphans) \in Nat
  BY <1>1, ElementOfSeq, LenProperties
<1>3. y \in OrphanType /\ y.ids = x.ids \cup {id} /\ y.count = x.count + 1
  <2>1. x.count + 1 \in Nat /\ x.ids \cup {id} \subseteq Nat
    BY <1>2 DEF OrphanType
  <2> HIDE DEF x
  <2> QED BY <1>2, <2>1 DEF OrphanType
<1>4. b = [c EXCEPT !.orphans = rows]
  <2> DEFINE r1 == [c.orphans EXCEPT ![n].count = @ + 1]
             b1 == [c EXCEPT !.orphans[n].count = @ + 1]
             b2 == [b1 EXCEPT !.orphans[n].ids = @ \cup {id}]
             r2 == [r1 EXCEPT ![n].ids = @ \cup {id}]
  <2>1. b1 = [c EXCEPT !.orphans = r1] /\ b1.orphans = r1
    BY <1>1 DEF CorrType
  <2>2. b2 = [b1 EXCEPT !.orphans = r2]
    <3> HIDE DEF b1
    <3> QED BY <2>1
  <2>3. b2 = [c EXCEPT !.orphans = r2]
    <3> HIDE DEF b1, b2, r1, r2
    <3> QED BY <2>1, <2>2
  <2>4. r2 = rows
    BY <1>1, <1>2 DEF OrphanType
  <2>5. b = b2
    BY DEF OrphanCounts
  <2> HIDE DEF b2, r2, rows
  <2> QED BY <2>3, <2>4, <2>5
<1> HIDE DEF x, y
<1>5. rows \in Seq(OrphanType) /\ Len(rows) = Len(c.orphans) /\ rows[n] = y /\ RowChanges(c.orphans, rows, n)
  <2>1. rows \in Seq(OrphanType) /\ Len(rows) = Len(c.orphans) /\ DOMAIN rows = DOMAIN c.orphans
    BY <1>1, <1>2, <1>3, ExceptSeq, LenProperties
  <2> QED BY <1>2, <2>1 DEF RowChanges
<1> HIDE DEF rows
<1>6. /\ b.mark = c.mark /\ b.img = c.img /\ b.tokens = c.tokens /\ b.byPID = c.byPID /\ b.adopted = c.adopted
      /\ b.seen = c.seen /\ b.denials = c.denials /\ b.orphans = rows /\ b.runs = c.runs /\ b.pend = c.pend
      /\ b.dropped = c.dropped /\ b.lastStored = c.lastStored /\ b.lastOrphan = c.lastOrphan
      /\ b.lastPending = c.lastPending
  BY <1>1, <1>4 DEF CorrType
<1>7. Sound(b)
  <2>1. b \in CorrType
    BY <1>1, <1>4, <1>5 DEF CorrType
  <2>2. SameTables(c, b) /\ SameRuns(c, b)
    BY <1>1, <1>6 DEF SameTables, SameRuns, CorrType
  <2> QED BY <2>1, <2>2, SameTablesSound
<1>8. Balanced(BooksOf(b, b.pend), b.dropped, D \cup {id})
  <2> DEFINE t == "orphan"
  <2>1. \A o \in others : o[1] # t
    BY DEF PendingBooks, RowBooks
  <2>2. BooksOf(c, c.pend) = others \cup RowBooks(t, c.orphans) /\ BooksOf(b, b.pend) = others \cup RowBooks(t, rows)
    BY <1>6 DEF BooksOf
  <2>3. Balanced(BooksOf(c, c.pend), c.dropped, D)
    BY DEF Ledger
  <2> HIDE DEF others, t
  <2>4. Balanced(others \cup RowBooks(t, c.orphans), c.dropped, D)
    BY <2>2, <2>3
  <2>5. rows[n].ids = c.orphans[n].ids \cup {id} /\ rows[n].count = c.orphans[n].count + 1
    BY <1>3, <1>5 DEF x
  <2>6. Balanced(others \cup RowBooks(t, rows), c.dropped, D \cup {id})
    BY <1>5, <2>1, <2>4, <2>5, RowTakes
  <2> QED BY <1>6, <2>2, <2>6
<1>9. Ledger(b, b.pend, D \cup {id})
  BY <1>5, <1>6, <1>8 DEF Ledger
<1> QED BY <1>6, <1>7, <1>9

\* A line that is not in the books, as a pending denial of its own.
NewPending(d, t) == [d |-> d, count |-> 1, arrived |-> t, ids |-> {d.id}]

LEMMA NewInHand ==
    ASSUME NEW c, Sound(c), NEW D, Ledger(c, c.pend, D), NEW d \in LineType, d.id \notin D, NEW t \in Nat, NEW p,
           p = NewPending(d, t)
    PROVE  InHand(c, p, D \cup {d.id}) /\ p.arrived = t
<1> DEFINE id == d.id
           book == Page("pending", p.d.id, p)
<1>1. p.d = d /\ p.count = 1 /\ p.arrived = t /\ p.ids = {id} /\ id \in Nat
  BY DEF LineType, NewPending
<1>2. p \in PendingType
  BY <1>1 DEF PendingType, NewPending
<1>3. \A q \in c.pend : q.d.id # id
  <2>1. ASSUME NEW q \in c.pend PROVE q.d.id \in D
    <3>1. Page("pending", q.d.id, q) \in BooksOf(c, c.pend)
      BY DEF BooksOf, PendingBooks, Page
    <3>2. \A b \in BooksOf(c, c.pend) : b[3] \subseteq D
      BY DEF Ledger, Balanced
    <3>3. q.ids \subseteq D
      BY <3>1, <3>2, PageFields
    <3> QED BY <3>3 DEF Ledger
  <2> QED BY <2>1
<1>4. BooksOf(c, c.pend \cup {p}) = BooksOf(c, c.pend) \cup {book} /\ book \notin BooksOf(c, c.pend)
  <2>1. Apart(c.pend, p)
    BY <1>1, <1>3 DEF Apart
  <2> QED BY <2>1, BooksSplit
<1>5. book[3] = {id} /\ book[4] = 1
  BY <1>1 DEF Page
<1> HIDE DEF book
<1>6. Balanced(BooksOf(c, c.pend \cup {p}), c.dropped, D \cup {id})
  <2>1. Balanced(BooksOf(c, c.pend), c.dropped, D)
    BY DEF Ledger
  <2>2. Balanced(BooksOf(c, c.pend) \cup {book}, c.dropped, D \cup {id})
    BY <1>5, <2>1, NewPage
  <2> QED BY <1>4, <2>2
<1>7. IsFiniteSet(c.pend \cup {p})
  BY FS_AddElement DEF Ledger
<1>8. Ledger(c, c.pend \cup {p}, D \cup {id})
  BY <1>1, <1>3, <1>6, <1>7 DEF Ledger
<1> QED BY <1>1, <1>2, <1>3, <1>8 DEF InHand

\* A denial waits.
LEMMA WaitSound ==
    ASSUME NEW c, NEW p, NEW D, InHand(c, p, D), NEW b,
           b = [c EXCEPT !.pend = @ \cup {p}, !.lastPending[KeyOf(p.d)] = p.d.id]
    PROVE  Sound(b) /\ Ledger(b, b.pend, D) /\ b.pend = c.pend \cup {p} /\ b.mark = c.mark
<1> DEFINE k == KeyOf(p.d)
<1>1. c \in CorrType /\ p \in PendingType /\ p.d \in LineType
  BY DEF InHand, Sound, PendingType
<1>2. k \in DenialKey /\ p.d.id \in Nat
  BY <1>1 DEF LineType, KeyOf, DenialKey
<1>3. /\ b.mark = c.mark /\ b.img = c.img /\ b.tokens = c.tokens /\ b.byPID = c.byPID /\ b.adopted = c.adopted
      /\ b.seen = c.seen /\ b.denials = c.denials /\ b.orphans = c.orphans /\ b.runs = c.runs
      /\ b.dropped = c.dropped /\ b.lastStored = c.lastStored /\ b.lastOrphan = c.lastOrphan
      /\ b.pend = c.pend \cup {p} /\ b.lastPending = [c.lastPending EXCEPT ![k] = p.d.id]
  BY <1>1 DEF CorrType
<1>4. b \in CorrType
  BY <1>1, <1>2 DEF CorrType
<1>5. Sound(b)
  <2>1. SameTables(c, b) /\ SameRuns(c, b)
    BY <1>1, <1>3 DEF SameTables, SameRuns, CorrType
  <2> QED BY <1>4, <2>1, SameTablesSound DEF InHand
<1>6. Ledger(c, c.pend \cup {p}, D)
  BY DEF InHand
<1>7. BooksOf(b, b.pend) = BooksOf(c, c.pend \cup {p})
  BY <1>3 DEF BooksOf
<1>8. c.lastPending \in [DenialKey -> Nat]
  BY <1>1 DEF CorrType
<1> HIDE DEF k
<1>9. ASSUME NEW q \in DenialKey, b.lastPending[q] # 0
      PROVE  \E x \in b.pend : x.d.id = b.lastPending[q] /\ KeyOf(x.d) = q
  <2>1. CASE q = k
    <3>1. b.lastPending[q] = p.d.id
      BY <1>2, <1>3, <1>8, <2>1
    <3> QED BY <1>3, <2>1, <3>1 DEF k
  <2>2. CASE q # k
    <3>1. b.lastPending[q] = c.lastPending[q]
      BY <1>2, <1>3, <1>8, <2>2
    <3> QED BY <1>3, <1>6, <1>9, <3>1 DEF Ledger
  <2> QED BY <2>1, <2>2
<1>10. Ledger(b, b.pend, D)
  BY <1>3, <1>6, <1>7, <1>9 DEF Ledger
<1> QED BY <1>3, <1>5, <1>10

\* A denial line is entered in the books, once.
LEMMA HandleDenialSound ==
    ASSUME NEW c, Sound(c), NEW D, Ledger(c, c.pend, D), NEW d \in LineType, d.id \notin D, NEW t \in Nat
    PROVE  LET b == HandleDenial(c, d, t)
           IN  /\ Sound(b) /\ Ledger(b, b.pend, D \cup {d.id}) /\ b.mark = c.mark
               /\ \A p \in b.pend : p.arrived = t \/ \E q \in c.pend : p.arrived = q.arrived
<1> DEFINE k == KeyOf(d)
           sd == c.lastStored[k]
           p == [d |-> d, count |-> 1, arrived |-> t, ids |-> {d.id}]
           i == Resolve(c, d.pid, d.time)
           b == HandleDenial(c, d, t)
           more(q) == IF q.d.id = c.lastPending[k] THEN [q EXCEPT !.count = @ + 1, !.ids = @ \cup {d.id}] ELSE q
           b1 == [c EXCEPT !.pend = {more(q) : q \in @}]
           b2 == [c EXCEPT !.denials[sd.row].count = @ + 1, !.denials[sd.row].ids = @ \cup {d.id}]
           b3 == [c EXCEPT !.orphans[c.lastOrphan[k]].count = @ + 1, !.orphans[c.lastOrphan[k]].ids = @ \cup {d.id}]
           b4 == Attribute(c, p, i)
           b5 == [c EXCEPT !.pend = @ \cup {p}, !.lastPending[k] = d.id]
           Good(x) == /\ Sound(x) /\ Ledger(x, x.pend, D \cup {d.id}) /\ x.mark = c.mark
                      /\ \A y \in x.pend : y.arrived = t \/ \E q \in c.pend : y.arrived = q.arrived
<1>1. c \in CorrType /\ k \in DenialKey /\ d.id \in Nat
  BY DEF Sound, LineType, KeyOf, DenialKey
<1>2. b = IF d.duplicate /\ c.lastPending[k] # 0 THEN b1
          ELSE IF d.duplicate /\ sd.row # 0 /\ IsCurrent(c, sd.img) THEN b2
          ELSE IF d.duplicate /\ c.lastOrphan[k] # 0 THEN b3
          ELSE IF CaughtUp(c, d.time) /\ i # 0 /\ c.img[i].run # 0 THEN b4
          ELSE b5
  BY DEF HandleDenial
<1>3. c.lastPending[k] # 0 => Good(b1)
  <2> SUFFICES ASSUME c.lastPending[k] # 0 PROVE Good(b1)
    OBVIOUS
  <2>1. Takes(c, b1, k, d.id)
    BY DEF Takes
  <2> HIDE DEF b1, k
  <2> QED BY <1>1, <2>1, PendingTakes
<1>4. sd.row # 0 => Good(b2)
  <2> SUFFICES ASSUME sd.row # 0 PROVE Good(b2)
    OBVIOUS
  <2>1. sd.row \in DOMAIN c.denials
    <3>1. sd.row \in Nat /\ sd.row <= Len(c.denials) /\ c.denials \in Seq(DenialType)
      BY <1>1 DEF Ledger, CorrType
    <3> QED BY <3>1
  <2> HIDE DEF sd
  <2>2. Sound(b2) /\ Ledger(b2, b2.pend, D \cup {d.id}) /\ b2.pend = c.pend /\ b2.mark = c.mark
    <3>1. DenialCounts(c, b2, sd.row, d.id)
      BY DEF DenialCounts
    <3> HIDE DEF b2
    <3> QED BY <1>1, <2>1, <3>1, DenialTakes
  <2> HIDE DEF b2
  <2> QED BY <2>2
<1>5. c.lastOrphan[k] # 0 => Good(b3)
  <2> DEFINE n == c.lastOrphan[k]
  <2> SUFFICES ASSUME n # 0 PROVE Good(b3)
    OBVIOUS
  <2>1. n \in DOMAIN c.orphans
    <3>1. n \in Nat /\ n <= Len(c.orphans) /\ c.orphans \in Seq(OrphanType)
      BY <1>1 DEF Ledger, CorrType
    <3> QED BY <3>1
  <2> HIDE DEF n
  <2>2. Sound(b3) /\ Ledger(b3, b3.pend, D \cup {d.id}) /\ b3.pend = c.pend /\ b3.mark = c.mark
    <3>1. OrphanCounts(c, b3, n, d.id)
      BY DEF OrphanCounts, n
    <3> HIDE DEF b3
    <3>2. d.id \in Nat
      BY <1>1
    <3> QED BY <2>1, <3>1, <3>2, OrphanTakes, ZenonT(60)
  <2> HIDE DEF b3
  <2> QED BY <2>2
<1>6. InHand(c, p, D \cup {d.id}) /\ p.arrived = t /\ p.d = d
  <2>1. p.d = d
    OBVIOUS
  <2>2. p = NewPending(d, t)
    BY DEF NewPending
  <2> HIDE DEF p
  <2> QED BY <2>1, <2>2, NewInHand
<1> HIDE DEF p
<1>7. i # 0 /\ c.img[i].run # 0 => Good(b4)
  <2> SUFFICES ASSUME i # 0, c.img[i].run # 0 PROVE Good(b4)
    OBVIOUS
  <2>1. i \in DOMAIN c.img
    BY ResolveOK
  <2> HIDE DEF i
  <2>2. Sound(b4) /\ Ledger(b4, b4.pend, D \cup {d.id}) /\ b4.pend = c.pend /\ b4.mark = c.mark
    BY <1>6, <2>1, AttributeLedger
  <2> HIDE DEF b4
  <2> QED BY <2>2
<1>8. Good(b5)
  <2>1. b5 = [c EXCEPT !.pend = @ \cup {p}, !.lastPending[KeyOf(p.d)] = p.d.id]
    BY <1>6
  <2> HIDE DEF b5
  <2>2. Sound(b5) /\ Ledger(b5, b5.pend, D \cup {d.id}) /\ b5.pend = c.pend \cup {p} /\ b5.mark = c.mark
    BY <1>6, <2>1, WaitSound
  <2> QED BY <1>6, <2>2
<1>9. Good(b)
  <2> HIDE DEF b, b1, b2, b3, b4, b5, Good, sd, k, i
  <2> QED BY <1>2, <1>3, <1>4, <1>5, <1>7, <1>8
<1> QED BY <1>9

-----------------------------------------------------------------------------
(* Tick and Shutdown *)

LEMMA LeaveSound ==
    ASSUME NEW c, Sound(c), NEW p
    PROVE  LET b == Leave(c, p)
           IN  /\ Sound(b) /\ b.pend = c.pend \ {p} /\ b.mark = c.mark /\ b.img = c.img
               /\ \A D : Ledger(c, c.pend, D) /\ p \in c.pend => InHand(b, p, D)
<1> DEFINE b == Leave(c, p)
<1>1. c \in CorrType
  BY DEF Sound
<1>2. /\ b.mark = c.mark /\ b.img = c.img /\ b.tokens = c.tokens /\ b.byPID = c.byPID /\ b.adopted = c.adopted
      /\ b.seen = c.seen /\ b.denials = c.denials /\ b.orphans = c.orphans /\ b.runs = c.runs
      /\ b.dropped = c.dropped /\ b.lastStored = c.lastStored /\ b.lastOrphan = c.lastOrphan
      /\ b.lastPending = c.lastPending /\ b.pend = c.pend \ {p}
  BY <1>1 DEF Leave, CorrType
<1>3. b \in CorrType
  BY <1>1 DEF Leave, CorrType
<1> HIDE DEF b
<1>4. Sound(b)
  <2>1. SameTables(c, b) /\ SameRuns(c, b)
    BY <1>1, <1>2 DEF SameTables, SameRuns, CorrType
  <2> QED BY <1>3, <2>1, SameTablesSound
<1>5. ASSUME NEW D, Ledger(c, c.pend, D), p \in c.pend PROVE InHand(b, p, D)
  <2>1. b.pend \cup {p} = c.pend /\ p \in PendingType
    BY <1>1, <1>2, <1>5 DEF CorrType
  <2>2. BooksOf(b, c.pend) = BooksOf(c, c.pend)
    BY <1>2 DEF BooksOf
  <2>3. Ledger(b, c.pend, D)
    BY <1>2, <1>5, <2>2 DEF Ledger
  <2>4. \A q \in b.pend : q.d.id # p.d.id
    BY <1>2, <1>5 DEF Ledger
  <2> QED BY <1>4, <2>1, <2>3, <2>4 DEF InHand
<1> QED BY <1>2, <1>4, <1>5 DEF b

\* What a turn with the pending denial p does to c; K are those that may be kept.
Turn(c, b, p, K) ==
    /\ Sound(b) /\ b.mark = c.mark
    /\ b.pend = c.pend \ {p} \/ (b.pend = c.pend /\ p \in K)
    /\ \A D : Ledger(c, c.pend, D) /\ p \in c.pend => Ledger(b, b.pend, D)

LEMMA DecideSound ==
    ASSUME NEW c, Sound(c), NEW p \in PendingType, NEW classify \in BOOLEAN
    PROVE  Turn(c, Finalize(Leave(c, p), p, classify), p, {})
<1> DEFINE a == Leave(c, p)
           b == Finalize(a, p, classify)
<1>1. /\ Sound(a) /\ a.pend = c.pend \ {p} /\ a.mark = c.mark
      /\ \A D : Ledger(c, c.pend, D) /\ p \in c.pend => InHand(a, p, D)
  BY LeaveSound
<1> HIDE DEF a
<1>2. Sound(b) /\ b.pend = a.pend /\ b.mark = a.mark /\ \A D : InHand(a, p, D) => Ledger(b, b.pend, D)
  BY <1>1, FinalizeSound
<1> HIDE DEF b
<1>3. Turn(c, b, p, {})
  BY <1>1, <1>2 DEF Turn
<1> QED BY <1>3 DEF a, b

\* The denials that have not waited too long at time t.
Young(t) == {p \in PendingType : t - p.arrived < LagCap}

LEMMA RetrySound ==
    ASSUME NEW c, Sound(c), NEW p \in PendingType, NEW t \in Nat
    PROVE  Turn(c, Retry(c, p, t), p, Young(t))
<1> DEFINE waited == t - p.arrived
           caught == CaughtUp(c, p.d.time)
           i == Resolve(c, p.d.pid, p.d.time)
           a == Leave(c, p)
           b == Retry(c, p, t)
<1>1. b = IF caught /\ waited >= Buffer THEN Finalize(a, p, TRUE)
          ELSE IF waited >= LagCap THEN Finalize(a, p, FALSE)
          ELSE IF caught /\ i # 0 /\ c.img[i].run # 0 THEN Attribute(a, p, i)
          ELSE c
  BY DEF Retry
<1>2. /\ Sound(a) /\ a.pend = c.pend \ {p} /\ a.mark = c.mark /\ a.img = c.img
      /\ \A D : Ledger(c, c.pend, D) /\ p \in c.pend => InHand(a, p, D)
  BY LeaveSound
<1>3. \A f \in BOOLEAN : Turn(c, Finalize(a, p, f), p, {})
  BY DecideSound
<1> HIDE DEF a
<1>4. \A x : Turn(c, x, p, {}) => Turn(c, x, p, Young(t))
  BY DEF Turn
<1>5. CASE caught /\ waited >= Buffer
  BY <1>1, <1>3, <1>4, <1>5
<1>6. CASE ~(caught /\ waited >= Buffer) /\ waited >= LagCap
  BY <1>1, <1>3, <1>4, <1>6
<1>7. CASE /\ ~(caught /\ waited >= Buffer) /\ ~(waited >= LagCap) /\ caught /\ i # 0 /\ c.img[i].run # 0
  <2>1. i \in DOMAIN a.img /\ a.img[i].run # 0
    BY <1>2, <1>7, ResolveOK
  <2> HIDE DEF i
  <2> DEFINE x == Attribute(a, p, i)
  <2>2. Sound(x) /\ x.pend = a.pend /\ x.mark = a.mark
    <3> HIDE DEF x
    <3>1. Sound(x) /\ Attributed(a, x, p, i)
      BY <1>2, <2>1, AttributeSound DEF x
    <3> QED BY <3>1 DEF Attributed
  <2>3. \A D : InHand(a, p, D) => Ledger(x, x.pend, D)
    BY <2>1, AttributeLedger
  <2> HIDE DEF x
  <2>4. Turn(c, x, p, Young(t))
    BY <1>2, <2>2, <2>3 DEF Turn
  <2> HIDE DEF b, caught, waited
  <2>5. b = x
    BY <1>1, <1>7 DEF x
  <2> QED BY <2>4, <2>5 DEF b
<1>8. CASE /\ ~(caught /\ waited >= Buffer) /\ ~(waited >= LagCap) /\ ~(caught /\ i # 0 /\ c.img[i].run # 0)
  <2>1. b = c
    <3> HIDE DEF b, caught, waited, i
    <3> QED BY <1>1, <1>8
  <2>2. p \in Young(t)
    <3>1. waited \in Int /\ LagCap \in Int
      BY TimeAssumption DEF LagCap, PendingType
    <3> QED BY <1>8, <3>1 DEF Young
  <2> HIDE DEF b
  <2> QED BY <2>1, <2>2 DEF Turn, b
<1> HIDE DEF b, caught, waited, i
<1> QED BY <1>5, <1>6, <1>7, <1>8

\* An order meets every pending denial once.
LEMMA OrderOK ==
    ASSUME NEW c, Sound(c), IsFiniteSet(c.pend), NEW order \in Orders(c)
    PROVE  /\ Len(order) \in Nat
           /\ \A n \in 1..Len(order) : order[n] \in c.pend
           /\ \A p \in c.pend : \E n \in 1..Len(order) : order[n] = p
           /\ \A m, n \in 1..Len(order) : m < n => order[m] # order[n]
<1>1. Cardinality(c.pend) \in Nat
  BY FS_CardinalityType
<1>2. order \in [1..Cardinality(c.pend) -> c.pend]
  BY DEF Orders
<1>3. Len(order) = Cardinality(c.pend) /\ DOMAIN order = 1..Len(order)
  BY <1>1, <1>2, SeqOf
<1>4. \A p \in c.pend : \E n \in 1..Len(order) : order[n] = p
  BY <1>3 DEF Orders
<1>5. ASSUME NEW m \in 1..Len(order), NEW n \in 1..Len(order), m < n, order[m] = order[n] PROVE FALSE
  <2>1. order[m].d.id < order[n].d.id /\ \A k \in m..n : order[k].d.pid = order[m].d.pid
    BY <1>3, <1>5 DEF Orders
  <2>2. order[m].d.id < order[m].d.id
    BY <1>5, <2>1
  <2>3. order[m].d.id \in Nat
    <3>1. order[m] \in PendingType
      BY <1>2, <1>3 DEF Sound, CorrType
    <3> QED BY <3>1 DEF PendingType, LineType
  <2> QED BY <2>2, <2>3
<1> QED BY <1>1, <1>2, <1>3, <1>4, <1>5

\* The states after each turn of a loop over the pending denials, and after the last one.
Turns(c, f, order, K) ==
    /\ f[0] = c
    /\ \A n \in 1..Len(order) : Sound(f[n - 1]) => Turn(f[n - 1], f[n], order[n], K)
Tried(c, b, K) ==
    /\ Sound(b) /\ b.mark = c.mark /\ b.pend \subseteq c.pend \cap K
    /\ \A D : Ledger(c, c.pend, D) => Ledger(b, b.pend, D)

LEMMA LoopSound ==
    ASSUME NEW c, Sound(c), IsFiniteSet(c.pend), NEW order \in Orders(c), NEW K, NEW f, Turns(c, f, order, K)
    PROVE  Tried(c, f[Len(order)], K)
<1> DEFINE m == Len(order)
           Good(n) == /\ Sound(f[n]) /\ f[n].mark = c.mark /\ f[n].pend \subseteq c.pend
                      /\ \A k \in 1..m : k <= n /\ order[k] \in f[n].pend => order[k] \in K
                      /\ \A k \in 1..m : k > n => order[k] \in f[n].pend
                      /\ \A D : Ledger(c, c.pend, D) => Ledger(f[n], f[n].pend, D)
           S == {n \in 0..m : Good(n)}
<1>1. /\ m \in Nat /\ \A n \in 1..m : order[n] \in c.pend
      /\ \A p \in c.pend : \E n \in 1..m : order[n] = p
      /\ \A k, n \in 1..m : k < n => order[k] # order[n]
  BY OrderOK
<1> HIDE DEF m
<1>2. 0 \in S
  <2>1. \A k \in 1..m : ~(k <= 0) /\ order[k] \in c.pend
    BY <1>1
  <2>2. f[0] = c
    BY DEF Turns
  <2>3. Good(0)
    BY <2>1, <2>2
  <2> HIDE DEF Good
  <2> QED BY <1>1, <2>3
<1>3. ASSUME NEW n \in 0..m, n # m, n \in S PROVE n + 1 \in S
  <2> DEFINE h == n + 1
             a == f[n]
             b == f[h]
             p == order[h]
  <2>1. h \in 1..m /\ h - 1 = n /\ n \in Nat /\ h \in 0..m
    BY <1>1, <1>3
  <2>2. Good(n)
    BY <1>3
  <2>3. p \in a.pend
    <3>1. h > n
      BY <2>1
    <3> QED BY <2>1, <2>2, <3>1
  <2>4. Turn(a, b, p, K)
    <3>1. Sound(f[h - 1]) => Turn(f[h - 1], f[h], order[h], K)
      BY <2>1 DEF m, Turns
    <3> HIDE DEF h
    <3> QED BY <2>1, <2>2, <3>1
  <2>5. \A k \in 1..m : k <= h => k <= n \/ k = h
    BY <2>1
  <2>6. \A k \in 1..m : k > h => k > n /\ order[k] # p
    BY <1>1, <2>1
  <2> HIDE DEF h, a, b, p
  <2>7. Sound(b) /\ b.mark = c.mark /\ b.pend \subseteq c.pend
    BY <2>2, <2>4 DEF Turn, a
  <2>8. ASSUME NEW k \in 1..m, k <= h, order[k] \in b.pend PROVE order[k] \in K
    <3>1. CASE k = h
      BY <2>4, <2>8, <3>1 DEF Turn, p
    <3>2. CASE k <= n
      <4>1. order[k] \in a.pend
        BY <2>4, <2>8 DEF Turn
      <4> QED BY <2>2, <3>2, <4>1 DEF a
    <3> QED BY <2>5, <2>8, <3>1, <3>2
  <2>9. ASSUME NEW k \in 1..m, k > h PROVE order[k] \in b.pend
    <3>1. order[k] \in a.pend /\ order[k] # p
      BY <2>2, <2>6, <2>9 DEF a
    <3> QED BY <2>4, <3>1 DEF Turn
  <2>10. ASSUME NEW D, Ledger(c, c.pend, D) PROVE Ledger(b, b.pend, D)
    <3>1. Ledger(a, a.pend, D)
      BY <2>2, <2>10 DEF a
    <3> QED BY <2>3, <2>4, <3>1 DEF Turn
  <2>11. Good(h)
    BY <2>7, <2>8, <2>9, <2>10 DEF b
  <2> HIDE DEF Good
  <2> QED BY <2>1, <2>11 DEF h
<1>4. m \in S
  <2> HIDE DEF S
  <2>1. \A n \in 0..m : n # m /\ n \in S => n + 1 \in S
    BY <1>3
  <2>2. \A n \in 0..m : n \in S
    BY <1>1, <1>2, <2>1, Induct
  <2> QED BY <1>1, <2>2
<1> DEFINE b == f[m]
<1>5. Good(m)
  BY <1>4
<1>6. ASSUME NEW p \in b.pend PROVE p \in K
  <2>1. p \in c.pend
    BY <1>5, <1>6
  <2>2. PICK k \in 1..m : order[k] = p
    BY <1>1, <2>1
  <2>3. k <= m
    BY <1>1
  <2> QED BY <1>5, <1>6, <2>2, <2>3
<1>7. Tried(c, b, K)
  BY <1>5, <1>6 DEF Tried
<1> QED BY <1>7 DEF m

\* Old images can no longer be found; what they had stays in the books.
LEMMA EvictSound ==
    ASSUME NEW c, Sound(c), NEW t
    PROVE  LET b == Evict(c, t)
           IN  /\ Sound(b) /\ b.pend = c.pend /\ b.mark = c.mark
               /\ \A D : Ledger(c, c.pend, D) => Ledger(b, b.pend, D)
<1> DEFINE gone == {i \in 1..Len(c.img) : c.img[i].end # NoTime /\ c.img[i].end < t - Retention}
           b == Evict(c, t)
           none == [row |-> 0, img |-> 0]
<1>1. c \in CorrType
  BY DEF Sound
<1>2. b = [c EXCEPT !.tokens = @ \ gone, !.byPID = @ \ gone,
                    !.lastStored = [k \in DenialKey |-> IF @[k].img \in gone THEN none ELSE @[k]]]
  BY DEF Evict
<1> HIDE DEF gone
<1>3. /\ b.mark = c.mark /\ b.img = c.img /\ b.tokens = c.tokens \ gone /\ b.byPID = c.byPID \ gone
      /\ b.adopted = c.adopted /\ b.seen = c.seen /\ b.denials = c.denials /\ b.orphans = c.orphans
      /\ b.runs = c.runs /\ b.dropped = c.dropped /\ b.lastOrphan = c.lastOrphan
      /\ b.lastPending = c.lastPending /\ b.pend = c.pend
      /\ b.lastStored = [k \in DenialKey |-> IF c.lastStored[k].img \in gone THEN none ELSE c.lastStored[k]]
  BY <1>1, <1>2 DEF CorrType
<1>4. none \in [row : Nat, img : Nat] /\ none.row = 0
  OBVIOUS
<1>5. b \in CorrType
  <2> HIDE DEF none, b
  <2>1. b.lastStored \in [DenialKey -> [row : Nat, img : Nat]]
    BY <1>1, <1>3, <1>4 DEF CorrType
  <2>2. b = [c EXCEPT !.tokens = b.tokens, !.byPID = b.byPID, !.lastStored = b.lastStored]
    BY <1>1, <1>2 DEF CorrType
  <2>3. b.tokens \subseteq Nat /\ b.byPID \subseteq Nat
    BY <1>1, <1>3 DEF CorrType
  <2> QED BY <1>1, <2>1, <2>2, <2>3 DEF CorrType
<1> HIDE DEF b, none
<1>6. Sound(b)
  <2>1. \A i \in DOMAIN b.img : ImageOK(b, i)
    BY <1>3 DEF Sound, ImageOK
  <2>2. \A r \in DOMAIN b.runs : RunOK(b, r)
    BY <1>3 DEF Sound, RunOK
  <2> QED BY <1>3, <1>5, <2>1, <2>2 DEF Sound
<1>7. ASSUME NEW D, Ledger(c, c.pend, D) PROVE Ledger(b, b.pend, D)
  <2>1. BooksOf(b, b.pend) = BooksOf(c, c.pend)
    BY <1>3 DEF BooksOf
  <2>2. \A k \in DenialKey : b.lastStored[k].row <= Len(b.denials) /\ b.lastOrphan[k] <= Len(b.orphans)
    <3>1. Len(c.denials) \in Nat /\ \A k \in DenialKey : b.lastStored[k].row \in {0, c.lastStored[k].row}
      BY <1>1, <1>3, <1>4 DEF CorrType
    <3> QED BY <1>3, <1>7, <3>1 DEF Ledger
  <2> QED BY <1>3, <1>7, <2>1, <2>2 DEF Ledger
<1> QED BY <1>3, <1>6, <1>7 DEF b

\* After a tick the books are as they were, and nothing is pending that has waited for LagCap.
LEMMA TickSound ==
    ASSUME NEW c, Sound(c), NEW D, Ledger(c, c.pend, D), NEW t \in Nat, NEW order \in Orders(c)
    PROVE  LET b == Tick(c, t, order)
           IN  Sound(b) /\ Ledger(b, b.pend, D) /\ b.mark = c.mark /\ b.pend \subseteq c.pend \cap Young(t)
<1> DEFINE m == Len(order)
           is(f) == f = [n \in 0..m |-> IF n = 0 THEN c ELSE Retry(f[n - 1], order[n], t)]
           after == CHOOSE f : is(f)
           A == {b \in CorrType : Sound(b)}
           turn == [x \in A \X (1..m) |-> Retry(x[1], order[x[2]], t)]
<1>1. Tick(c, t, order) = Evict(after[m], t)
  BY DEF Tick
<1>2. IsFiniteSet(c.pend) /\ c.pend \subseteq PendingType
  BY DEF Ledger, Sound, CorrType
<1>3. m \in Nat /\ \A n \in 1..m : order[n] \in PendingType
  BY <1>2, OrderOK
<1> HIDE DEF m
<1>4. turn \in [A \X (1..m) -> A]
  <2>1. ASSUME NEW x \in A \X (1..m) PROVE Retry(x[1], order[x[2]], t) \in A
    <3>1. Sound(x[1]) /\ order[x[2]] \in PendingType
      BY <1>3
    <3>2. Sound(Retry(x[1], order[x[2]], t))
      BY <3>1, RetrySound DEF Turn
    <3> QED BY <3>2 DEF Sound
  <2> HIDE DEF A
  <2> QED BY <2>1
<1>5. \E f : is(f)
  <2>1. c \in A
    BY DEF Sound
  <2>2. PICK f \in [0..m -> A] : IsLoop(f, m, c, turn)
    <3>1. m \in Nat
      BY <1>3
    <3> HIDE DEF A, turn
    <3> QED BY <3>1, <1>4, <2>1, LoopExists
  <2>3. ASSUME NEW n \in 0..m PROVE f[n] = IF n = 0 THEN c ELSE Retry(f[n - 1], order[n], t)
    <3>1. CASE n = 0
      BY <2>2, <3>1 DEF IsLoop
    <3>2. CASE n # 0
      <4>1. n \in 1..m /\ n - 1 \in 0..m
        BY <1>3, <3>2
      <4>2. <<f[n - 1], n>> \in A \X (1..m)
        <5>1. f[n - 1] \in A
          BY <4>1
        <5> HIDE DEF A
        <5> QED BY <4>1, <5>1
      <4>3. f[n] = turn[<<f[n - 1], n>>]
        BY <2>2, <3>2 DEF IsLoop
      <4> HIDE DEF A
      <4> QED BY <3>2, <4>2, <4>3
    <3> QED BY <3>1, <3>2
  <2>4. f = [n \in 0..m |-> f[n]]
    OBVIOUS
  <2>5. is(f)
    BY <2>3, <2>4
  <2> HIDE DEF is
  <2> QED BY <2>5
<1>6. is(after)
  <2> HIDE DEF is
  <2> QED BY <1>5
<1> HIDE DEF after
<1>7. after[0] = c /\ \A n \in 1..m : after[n] = Retry(after[n - 1], order[n], t)
  <2>1. \A n \in 0..m : after[n] = IF n = 0 THEN c ELSE Retry(after[n - 1], order[n], t)
    BY <1>6
  <2>2. 0 \in 0..m /\ \A n \in 1..m : n \in 0..m /\ n # 0
    BY <1>3
  <2> HIDE DEF is
  <2> QED BY <2>1, <2>2
<1> HIDE DEF is
<1>8. \A n \in 1..m : Sound(after[n - 1]) => Turn(after[n - 1], after[n], order[n], Young(t))
  BY <1>3, <1>7, RetrySound
<1> DEFINE a == after[m]
<1>9. Sound(a) /\ a.mark = c.mark /\ a.pend \subseteq c.pend \cap Young(t) /\ Ledger(a, a.pend, D)
  <2>1. after[0] = c
    BY <1>7
  <2>2. \A n \in 1..Len(order) : Sound(after[n - 1]) => Turn(after[n - 1], after[n], order[n], Young(t))
    BY <1>8 DEF m
  <2>3. IsFiniteSet(c.pend)
    BY <1>2
  <2>4. Tried(c, a, Young(t))
    <3>1. Turns(c, after, order, Young(t))
      BY <2>1, <2>2 DEF Turns
    <3> QED BY <2>3, <3>1, LoopSound DEF m
  <2> HIDE DEF a
  <2> QED BY <2>4 DEF Tried
<1> HIDE DEF a
<1> DEFINE b == Evict(a, t)
<1>10. Sound(b) /\ b.pend = a.pend /\ b.mark = a.mark /\ Ledger(b, b.pend, D)
  BY <1>9, EvictSound
<1> HIDE DEF b
<1>11. Tick(c, t, order) = b
  BY <1>1 DEF a, b
<1> QED BY <1>9, <1>10, <1>11

\* How Shutdown closes c.
Closed(c) ==
    LET open == UNION {c.runs[r].live : r \in DOMAIN c.runs}
        close(r) == IF r.ended THEN [r EXCEPT !.live = {}]
                    ELSE [r EXCEPT !.live = {}, !.ended = TRUE, !.status = "watch_stopped"]
    IN  [c EXCEPT !.img = [i \in DOMAIN @ |-> IF i \in open THEN [@[i] EXCEPT !.row = "watch_stopped"] ELSE @[i]],
                  !.runs = [r \in DOMAIN @ |-> close(@[r])]]

LEMMA ClosedSound ==
    ASSUME NEW c, Sound(c)
    PROVE  LET b == Closed(c)
           IN  /\ Sound(b) /\ b.mark = c.mark /\ b.pend = c.pend
               /\ \A i \in DOMAIN b.img : b.img[i].row # "open"
               /\ \A r \in DOMAIN b.runs : b.runs[r].status # "running"
               /\ \A D : Ledger(c, c.pend, D) => Ledger(b, b.pend, D)
<1> DEFINE open == UNION {c.runs[r].live : r \in DOMAIN c.runs}
           close(r) == IF r.ended THEN [r EXCEPT !.live = {}]
                       ELSE [r EXCEPT !.live = {}, !.ended = TRUE, !.status = "watch_stopped"]
           img == [i \in DOMAIN c.img |-> IF i \in open THEN [c.img[i] EXCEPT !.row = "watch_stopped"] ELSE c.img[i]]
           runs == [r \in DOMAIN c.runs |-> close(c.runs[r])]
           b == Closed(c)
<1>1. c \in CorrType /\ c.img \in Seq(ImageType) /\ c.runs \in Seq(RunType)
  BY DEF Sound, CorrType
<1>2. /\ Len(c.img) \in Nat /\ DOMAIN c.img = 1..Len(c.img) /\ \A i \in DOMAIN c.img : c.img[i] \in ImageType
      /\ Len(c.runs) \in Nat /\ DOMAIN c.runs = 1..Len(c.runs) /\ \A r \in DOMAIN c.runs : c.runs[r] \in RunType
  BY CorrFields
<1>3. b = [c EXCEPT !.img = img, !.runs = runs]
  BY <1>1 DEF Closed, CorrType
<1> HIDE DEF b
<1>4. ASSUME NEW x \in RunType
      PROVE  /\ close(x) \in RunType /\ close(x).live = {} /\ close(x).ended = TRUE /\ close(x).lastEnd = x.lastEnd
             /\ (x.status = "running" <=> ~x.ended) => close(x).status # "running"
  BY DEF RunType
<1>5. ASSUME NEW i \in DOMAIN c.img
      PROVE  /\ img[i] \in ImageType /\ img[i].run = c.img[i].run /\ img[i].parent = c.img[i].parent
             /\ img[i].end = c.img[i].end /\ img[i].endReason = c.img[i].endReason
             /\ img[i].row = IF i \in open THEN "watch_stopped" ELSE c.img[i].row
  <2> DEFINE x == c.img[i]
  <2>1. x \in ImageType
    BY <1>2
  <2> HIDE DEF x, open
  <2>2. img[i] = IF i \in open THEN [x EXCEPT !.row = "watch_stopped"] ELSE x
    BY DEF x
  <2> HIDE DEF img
  <2>3. /\ img[i] \in ImageType /\ img[i].run = x.run /\ img[i].parent = x.parent
        /\ img[i].end = x.end /\ img[i].endReason = x.endReason
        /\ img[i].row = IF i \in open THEN "watch_stopped" ELSE x.row
    BY <2>1, <2>2 DEF ImageType
  <2> QED BY <2>3 DEF x
<1>6. ASSUME NEW i \in DOMAIN c.img PROVE i \in open <=> c.img[i].row = "open"
  <2>1. ImageOK(c, i) /\ c.img[i].run \in Nat
    BY <1>2 DEF Sound, ImageType
  <2>2. c.img[i].row = "open" => i \in open
    <3>1. c.img[i].run # 0 => c.img[i].run \in DOMAIN c.runs
      BY <1>2, <2>1 DEF ImageOK
    <3> QED BY <2>1, <3>1 DEF ImageOK
  <2>3. i \in open => c.img[i].row = "open"
    <3> SUFFICES ASSUME i \in open PROVE c.img[i].row = "open"
      OBVIOUS
    <3>1. PICK r \in DOMAIN c.runs : i \in c.runs[r].live
      OBVIOUS
    <3>2. c.img[i].run = r /\ r # 0
      BY <1>2, <3>1 DEF Sound, RunOK
    <3> QED BY <2>1, <3>1, <3>2 DEF ImageOK
  <2> QED BY <2>2, <2>3
<1>7. /\ img \in Seq(ImageType) /\ Len(img) = Len(c.img) /\ DOMAIN img = DOMAIN c.img
  <2>1. img \in [1..Len(c.img) -> ImageType]
    <3> HIDE DEF open
    <3> QED BY <1>2, <1>5
  <2> HIDE DEF img
  <2> QED BY <1>2, <2>1, SeqOf
<1>8. runs \in Seq(RunType) /\ Len(runs) = Len(c.runs) /\ DOMAIN runs = DOMAIN c.runs
  <2>1. runs \in [1..Len(c.runs) -> RunType]
    <3> HIDE DEF close
    <3> QED BY <1>2, <1>4
  <2> HIDE DEF runs
  <2> QED BY <1>2, <2>1, SeqOf
<1>9. ASSUME NEW r \in DOMAIN c.runs
      PROVE  /\ runs[r].live = {} /\ runs[r].ended = TRUE /\ runs[r].lastEnd = c.runs[r].lastEnd
             /\ runs[r].status # "running"
  <2>1. c.runs[r].status = "running" <=> ~c.runs[r].ended
    BY DEF Sound, RunOK
  <2>2. runs[r] = close(c.runs[r])
    OBVIOUS
  <2> HIDE DEF close, runs
  <2> QED BY <1>2, <1>4, <2>1, <2>2
<1> HIDE DEF img, runs, open, close
<1>10. /\ b.img = img /\ b.runs = runs /\ b.mark = c.mark /\ b.pend = c.pend /\ b.tokens = c.tokens
       /\ b.byPID = c.byPID /\ b.adopted = c.adopted /\ b.denials = c.denials /\ b.orphans = c.orphans
       /\ b.dropped = c.dropped /\ b.lastPending = c.lastPending /\ b.lastStored = c.lastStored
       /\ b.lastOrphan = c.lastOrphan
  BY <1>1, <1>3 DEF CorrType
<1>11. b \in CorrType
  BY <1>1, <1>3, <1>7, <1>8 DEF CorrType
<1>12. ASSUME NEW i \in DOMAIN b.img PROVE ImageOK(b, i) /\ b.img[i].row # "open"
  <2>1. i \in DOMAIN c.img /\ b.img[i] = img[i] /\ ImageOK(c, i) /\ c.img[i].run \in Nat
    BY <1>2, <1>7, <1>10 DEF Sound, ImageType
  <2>2. c.img[i].run # 0 => b.runs[c.img[i].run].live = {}
    <3>1. c.img[i].run # 0 => c.img[i].run \in DOMAIN c.runs
      BY <1>2, <2>1 DEF ImageOK
    <3> QED BY <1>9, <1>10, <3>1
  <2>3. img[i].row # "open" /\ (img[i].row = "none" <=> c.img[i].row = "none")
    BY <1>5, <1>6, <2>1
  <2> QED BY <1>5, <1>8, <1>10, <2>1, <2>2, <2>3 DEF ImageOK
<1>13. ASSUME NEW r \in DOMAIN b.runs PROVE RunOK(b, r) /\ b.runs[r].status # "running"
  BY <1>8, <1>9, <1>10 DEF Sound, RunOK
<1>14. Sound(b)
  BY <1>7, <1>8, <1>10, <1>11, <1>12, <1>13 DEF Sound
<1>15. ASSUME NEW D, Ledger(c, c.pend, D) PROVE Ledger(b, b.pend, D)
  <2>1. BooksOf(b, b.pend) = BooksOf(c, c.pend)
    BY <1>10 DEF BooksOf
  <2> QED BY <1>10, <1>15, <2>1 DEF Ledger
<1> QED BY <1>10, <1>12, <1>13, <1>14, <1>15 DEF b

\* After Shutdown the lines are in rows, or dropped, and nothing is open.
LEMMA ShutdownSound ==
    ASSUME NEW c, Sound(c), NEW D, Ledger(c, c.pend, D), NEW order \in Orders(c)
    PROVE  LET b == Shutdown(c, order)
           IN  /\ Sound(b) /\ Ledger(b, b.pend, D) /\ b.mark = c.mark /\ b.pend = {}
               /\ \A i \in DOMAIN b.img : b.img[i].row # "open"
               /\ \A r \in DOMAIN b.runs : b.runs[r].status # "running"
<1> DEFINE m == Len(order)
           is(f) == f = [n \in 0..m |-> IF n = 0 THEN c ELSE Finalize(Leave(f[n - 1], order[n]), order[n], TRUE)]
           after == CHOOSE f : is(f)
           A == {b \in CorrType : Sound(b)}
           turn == [x \in A \X (1..m) |-> Finalize(Leave(x[1], order[x[2]]), order[x[2]], TRUE)]
<1>1. Shutdown(c, order) = Closed(after[m])
  BY DEF Shutdown, Closed
<1>2. IsFiniteSet(c.pend) /\ c.pend \subseteq PendingType
  BY DEF Ledger, Sound, CorrType
<1>3. m \in Nat /\ \A n \in 1..m : order[n] \in PendingType
  BY <1>2, OrderOK
<1> HIDE DEF m
<1>4. turn \in [A \X (1..m) -> A]
  <2>1. ASSUME NEW x \in A \X (1..m) PROVE Finalize(Leave(x[1], order[x[2]]), order[x[2]], TRUE) \in A
    <3>1. Sound(x[1]) /\ order[x[2]] \in PendingType
      BY <1>3
    <3>2. Sound(Finalize(Leave(x[1], order[x[2]]), order[x[2]], TRUE))
      BY <3>1, DecideSound DEF Turn
    <3> QED BY <3>2 DEF Sound
  <2> HIDE DEF A
  <2> QED BY <2>1
<1>5. \E f : is(f)
  <2>1. c \in A
    BY DEF Sound
  <2>2. PICK f \in [0..m -> A] : IsLoop(f, m, c, turn)
    <3>1. m \in Nat
      BY <1>3
    <3> HIDE DEF A, turn
    <3> QED BY <3>1, <1>4, <2>1, LoopExists
  <2>3. ASSUME NEW n \in 0..m PROVE f[n] = IF n = 0 THEN c ELSE Finalize(Leave(f[n - 1], order[n]), order[n], TRUE)
    <3>1. CASE n = 0
      BY <2>2, <3>1 DEF IsLoop
    <3>2. CASE n # 0
      <4>1. n \in 1..m /\ n - 1 \in 0..m
        BY <1>3, <3>2
      <4>2. <<f[n - 1], n>> \in A \X (1..m)
        <5>1. f[n - 1] \in A
          BY <4>1
        <5> HIDE DEF A
        <5> QED BY <4>1, <5>1
      <4>3. f[n] = turn[<<f[n - 1], n>>]
        BY <2>2, <3>2 DEF IsLoop
      <4> HIDE DEF A
      <4> QED BY <3>2, <4>2, <4>3
    <3> QED BY <3>1, <3>2
  <2>4. f = [n \in 0..m |-> f[n]]
    OBVIOUS
  <2>5. is(f)
    BY <2>3, <2>4
  <2> HIDE DEF is
  <2> QED BY <2>5
<1>6. is(after)
  <2> HIDE DEF is
  <2> QED BY <1>5
<1> HIDE DEF after
<1>7. after[0] = c /\ \A n \in 1..m : after[n] = Finalize(Leave(after[n - 1], order[n]), order[n], TRUE)
  <2>1. \A n \in 0..m : after[n] = IF n = 0 THEN c ELSE Finalize(Leave(after[n - 1], order[n]), order[n], TRUE)
    BY <1>6
  <2>2. 0 \in 0..m /\ \A n \in 1..m : n \in 0..m /\ n # 0
    BY <1>3
  <2> HIDE DEF is
  <2> QED BY <2>1, <2>2
<1> HIDE DEF is
<1>8. \A n \in 1..m : Sound(after[n - 1]) => Turn(after[n - 1], after[n], order[n], {})
  BY <1>3, <1>7, DecideSound
<1> DEFINE a == after[m]
<1>9. Sound(a) /\ a.mark = c.mark /\ a.pend \subseteq c.pend \cap {} /\ Ledger(a, a.pend, D)
  <2>1. after[0] = c
    BY <1>7
  <2>2. \A n \in 1..Len(order) : Sound(after[n - 1]) => Turn(after[n - 1], after[n], order[n], {})
    BY <1>8 DEF m
  <2>3. IsFiniteSet(c.pend)
    BY <1>2
  <2>4. Tried(c, a, {})
    <3>1. Turns(c, after, order, {})
      BY <2>1, <2>2 DEF Turns
    <3> QED BY <2>3, <3>1, LoopSound DEF m
  <2> HIDE DEF a
  <2> QED BY <2>4 DEF Tried
<1> HIDE DEF a
<1> DEFINE b == Closed(a)
<1>10. /\ Sound(b) /\ b.pend = a.pend /\ b.mark = a.mark /\ Ledger(b, b.pend, D)
       /\ \A i \in DOMAIN b.img : b.img[i].row # "open"
       /\ \A r \in DOMAIN b.runs : b.runs[r].status # "running"
  BY <1>9, ClosedSound
<1> HIDE DEF b
<1>11. Shutdown(c, order) = b
  BY <1>1 DEF a, b
<1> QED BY <1>9, <1>10, <1>11

-----------------------------------------------------------------------------
(* The inductive invariant *)

ProcessType ==
    [live : BOOLEAN, ver : Nat, prog : Path, born : Nat, box : {"none", "exec", "init", "app", "pre"},
     root : Nat \X Nat, tag : Tags, last : Nat]
ReportType ==
    [d : LineType, ver : Nat, birth : Nat, box : {"none", "exec", "init", "app", "pre"}, root : Nat \X Nat]

\* The machine: a process that lives has a pidversion that was given out.
MachineOK ==
    /\ now \in 1..MaxClock
    /\ births \in Seq(Nat) /\ Len(births) <= MaxVersions
    /\ world \in [Pid -> ProcessType]
    /\ \A p \in Pid : world[p].live => world[p].ver \in 1..Len(births)
    /\ reports \in Seq(ReportType) /\ Len(reports) <= MaxReports

\* The streams: no event is of the future, and the denial lines come in the order of their ids.
StreamsOK ==
    /\ esq \in Seq(EventType) /\ \A n \in DOMAIN esq : esq[n].time <= now
    /\ denq \in Seq(LineType) /\ Len(denq) <= Len(reports)
    /\ \A n \in DOMAIN denq : denq[n].id = (Len(reports) - Len(denq)) + n

Read == 1..(Len(reports) - Len(denq))

CorrelatorOK ==
    /\ Sound(corr) /\ corr.mark <= now
    /\ Ledger(corr, corr.pend, Read)

AuditInv ==
    /\ ticked \in BOOLEAN /\ stopped \in BOOLEAN
    /\ MachineOK /\ StreamsOK /\ CorrelatorOK /\ DecidedInTime /\ ClosedAtStop

LEMMA Constants ==
    /\ MaxClock \in Nat /\ MaxVersions \in Nat /\ MaxReports \in Nat /\ MaxClock > 0
    /\ Pid \subseteq Nat \ {0} /\ LagCap \in Nat /\ LagCap > 0
<1>1. /\ MaxClock \in Nat /\ MaxVersions \in Nat /\ MaxReports \in Nat /\ MaxClock > 0
      /\ Buffer \in Nat /\ LagCapFactor \in Nat /\ Buffer > 0 /\ LagCapFactor > 0
  BY TimeAssumption, PositiveAssumption
<1>2. Pid \subseteq Nat \ {0}
  <2>1. Pid = 1..Cardinality(Pid) /\ Cardinality(Pid) \in 1..MaxVersions
    BY PidAssumption
  <2>2. Cardinality(Pid) \in Nat
    BY <1>1, <2>1
  <2>3. 1..Cardinality(Pid) \subseteq Nat \ {0}
    BY <2>2
  <2> QED BY <2>1, <2>3
<1>3. LagCap \in Nat /\ LagCap > 0
  BY <1>1 DEF LagCap
<1> QED BY <1>1, <1>2, <1>3

\* What the runs check, from the invariant.
LEMMA InvTypeOK == ASSUME AuditInv PROVE TypeOK
<1>1. Sound(corr) /\ corr.mark <= now /\ now \in 1..MaxClock /\ stopped \in BOOLEAN
      /\ Len(births) <= MaxVersions /\ Len(reports) <= MaxReports
  BY DEF AuditInv, CorrelatorOK, MachineOK
<1>2. ASSUME NEW i \in DOMAIN corr.img
      PROVE  /\ corr.img[i].run \in 0..Len(corr.runs)
             /\ corr.img[i].row = "none" <=> corr.img[i].run = 0
             /\ corr.img[i].row = "open" <=> corr.img[i].run # 0 /\ i \in RunOf(i).live
  <2>1. ImageOK(corr, i) /\ corr.img[i].run \in Nat /\ Len(corr.runs) \in Nat
    BY <1>1, CorrFields DEF Sound, ImageType
  <2> QED BY <2>1 DEF ImageOK, RunOf
<1>3. \A r \in DOMAIN corr.runs : \A i \in corr.runs[r].live : corr.img[i].run = r
  BY <1>1 DEF Sound, RunOK
<1> QED BY <1>1, <1>2, <1>3 DEF TypeOK

LEMMA InvLedgerExact == ASSUME AuditInv PROVE LedgerExact
<1>1. Balanced(BooksOf(corr, corr.pend), corr.dropped, Read)
  BY DEF AuditInv, CorrelatorOK, Ledger
<1>2. Delivered = Read
  <2> DEFINE m == Len(reports)
             k == Len(denq)
  <2>1. /\ m \in Nat /\ k \in Nat /\ k <= m /\ DOMAIN reports = 1..m /\ DOMAIN denq = 1..k
        /\ \A n \in 1..k : denq[n].id = (m - k) + n
    BY LenProperties DEF AuditInv, StreamsOK, MachineOK
  <2> HIDE DEF m, k
  <2>2. ASSUME NEW n \in 1..m PROVE n \in 1..(m - k) <=> \A x \in 1..k : denq[x].id # n
    <3>1. CASE n <= m - k
      BY <2>1, <3>1
    <3>2. CASE n > m - k
      <4> DEFINE x == n - (m - k)
      <4>1. x \in 1..k /\ (m - k) + x = n
        BY <2>1, <3>2
      <4>2. denq[x].id = n
        <5> HIDE DEF x
        <5> QED BY <2>1, <4>1
      <4> HIDE DEF x
      <4> QED BY <2>1, <3>2, <4>1, <4>2
    <3> QED BY <2>1, <3>1, <3>2
  <2>3. 1..(m - k) \subseteq 1..m
    BY <2>1
  <2>4. Delivered = {n \in 1..m : \A x \in 1..k : denq[x].id # n}
    BY <2>1 DEF Delivered
  <2> QED BY <2>2, <2>3, <2>4 DEF Read, m, k
<1>3. BooksOf(corr, corr.pend) = Books(corr)
  BY DEF BooksOf, Books
<1> QED BY <1>1, <1>2, <1>3 DEF Balanced, LedgerExact

-----------------------------------------------------------------------------
(* The initial states *)

LEMMA EmptySound == Sound(Empty) /\ Ledger(Empty, {}, 1..0) /\ Empty.mark = 0 /\ Empty.pend = {}
<1>1. Empty \in CorrType
  <2>1. [k \in DenialKey |-> [row |-> 0, img |-> 0]] \in [DenialKey -> [row : Nat, img : Nat]]
    OBVIOUS
  <2> QED BY <2>1 DEF Empty, CorrType
<1>2. /\ Empty.mark = 0 /\ Empty.img = <<>> /\ Empty.runs = <<>> /\ Empty.tokens = {} /\ Empty.byPID = {}
      /\ Empty.denials = <<>> /\ Empty.orphans = <<>> /\ Empty.dropped = {} /\ Empty.pend = {}
  BY DEF Empty
<1>3. /\ \A t \in Tag : Empty.adopted[t] = 0
      /\ \A k \in DenialKey : /\ Empty.lastPending[k] = 0 /\ Empty.lastStored[k].row = 0
                              /\ Empty.lastOrphan[k] = 0
  BY DEF Empty
<1>4. Sound(Empty)
  BY <1>1, <1>2, <1>3 DEF Sound
<1>5. BooksOf(Empty, {}) = {}
  BY <1>2 DEF BooksOf, PendingBooks, RowBooks
<1>6. Ledger(Empty, {}, 1..0)
  <2>1. 1..0 = {} /\ IsFiniteSet({})
    BY FS_EmptySet
  <2> QED BY <1>2, <1>3, <1>5, <2>1 DEF Ledger, Balanced
<1> QED BY <1>2, <1>4, <1>6

LEMMA InitInv == ASSUME Init PROVE AuditInv
<1>1. now = 1 /\ esq = <<>> /\ denq = <<>> /\ reports = <<>> /\ corr = Empty /\ ticked = FALSE /\ stopped = FALSE
  BY DEF Init
<1>2. births \in Seq(Nat) /\ Len(births) = Cardinality(Pid) /\ Cardinality(Pid) \in Nat /\ Len(births) <= MaxVersions
  <2>1. Cardinality(Pid) \in Nat /\ Cardinality(Pid) <= MaxVersions
    BY PidAssumption, Constants
  <2>2. births \in [1..Cardinality(Pid) -> Nat]
    <3> DEFINE k == Cardinality(Pid)
    <3>1. births = [v \in 1..k |-> v]
      BY DEF Init
    <3>2. \A v \in 1..k : v \in Nat
      BY <2>1
    <3> HIDE DEF k
    <3>3. births \in [1..k -> Nat]
      BY <3>1, <3>2
    <3> QED BY <3>3 DEF k
  <2> QED BY <2>1, <2>2, SeqOf
<1>3. world \in [Pid -> ProcessType] /\ \A p \in Pid : world[p].live => world[p].ver = p
  <2>1. PICK boxed \in SUBSET (Pid \ {1}) : \E tag \in [boxed -> PreTags] :
          world = [p \in Pid |-> IF p = 1 THEN Watched(p)
                                 ELSE IF p \in boxed THEN [Watched(p) EXCEPT !.box = "pre", !.tag = tag[p]]
                                 ELSE NoProcess]
    BY DEF Init
  <2>2. PICK tag \in [boxed -> PreTags] :
          world = [p \in Pid |-> IF p = 1 THEN Watched(p)
                                 ELSE IF p \in boxed THEN [Watched(p) EXCEPT !.box = "pre", !.tag = tag[p]]
                                 ELSE NoProcess]
    BY <2>1
  <2>3. NoProcess \in ProcessType /\ NoProcess.live = FALSE
    BY DEF NoProcess, ProcessType, Path, Tags
  <2>4. ASSUME NEW p \in Pid PROVE Watched(p) \in ProcessType /\ Watched(p).ver = p
    <3>1. p \in Nat
      BY Constants
    <3> QED BY <2>3, <3>1 DEF Watched, ProcessType
  <2>5. ASSUME NEW p \in boxed
        PROVE  LET w == [Watched(p) EXCEPT !.box = "pre", !.tag = tag[p]] IN w \in ProcessType /\ w.ver = p
    <3>1. p \in Pid /\ tag[p] \in Tags
      BY TagAssumption DEF Tags
    <3> DEFINE w == Watched(p)
    <3>2. w \in ProcessType /\ w.ver = p
      BY <2>4, <3>1
    <3> HIDE DEF w
    <3>3. [w EXCEPT !.box = "pre", !.tag = tag[p]] \in ProcessType /\ [w EXCEPT !.box = "pre", !.tag = tag[p]].ver = p
      BY <3>1, <3>2 DEF ProcessType
    <3> QED BY <3>3 DEF w
  <2>6. ASSUME NEW p \in Pid PROVE world[p] \in ProcessType /\ (world[p].live => world[p].ver = p)
    <3>1. CASE p = 1
      BY <2>2, <2>4, <3>1
    <3>2. CASE p # 1 /\ p \in boxed
      BY <2>2, <2>5, <3>2
    <3>3. CASE p # 1 /\ p \notin boxed
      BY <2>2, <2>3, <3>3
    <3> QED BY <3>1, <3>2, <3>3
  <2>7. world = [p \in Pid |-> world[p]]
    BY <2>2
  <2> QED BY <2>6, <2>7
<1>4. MachineOK
  <2>1. \A p \in Pid : p \in 1..Len(births)
    BY <1>2, PidAssumption
  <2>2. now \in 1..MaxClock
    BY <1>1, Constants
  <2>3. reports \in Seq(ReportType) /\ Len(reports) <= MaxReports
    BY <1>1, Constants
  <2> QED BY <1>2, <1>3, <2>1, <2>2, <2>3 DEF MachineOK
<1>5. StreamsOK
  BY <1>1 DEF StreamsOK
<1>6. CorrelatorOK
  <2>1. Read = 1..0
    BY <1>1 DEF Read
  <2> QED BY <1>1, <2>1, EmptySound DEF CorrelatorOK
<1>7. DecidedInTime /\ ClosedAtStop
  BY <1>1, EmptySound DEF DecidedInTime, ClosedAtStop
<1> QED BY <1>1, <1>4, <1>5, <1>6, <1>7 DEF AuditInv

-----------------------------------------------------------------------------
(* The steps of the machine *)

\* What AuditInv says of a process that can act.
LEMMA ActorOK ==
    ASSUME AuditInv, NEW p \in Pid, world[p].live
    PROVE  /\ world[p] \in ProcessType /\ Image(p) \in ProcType
           /\ Len(births) \in Nat /\ NextVer \in Nat /\ NextVer = Len(births) + 1
           /\ world[p].ver \in 1..Len(births) /\ births[world[p].ver] \in Nat
           /\ now \in Nat
<1>1. world[p] \in ProcessType /\ world[p].ver \in 1..Len(births) /\ births \in Seq(Nat) /\ now \in 1..MaxClock
  BY DEF AuditInv, MachineOK
<1>2. Image(p) \in ProcType
  BY <1>1 DEF Image, ProcessType, ProcType
<1>3. Len(births) \in Nat /\ DOMAIN births = 1..Len(births)
  BY <1>1, LenProperties
<1>4. births[world[p].ver] \in Nat
  BY <1>1, <1>3, ElementOfSeq
<1>5. now \in Nat
  BY <1>1, Constants
<1> QED BY <1>1, <1>2, <1>3, <1>4, <1>5 DEF NextVer

\* The correlator sees nothing of a step of the machine.
LEMMA MachineStep ==
    ASSUME AuditInv, UNCHANGED <<now, corr, ticked, stopped>>, MachineOK', StreamsOK',
           Len(reports') - Len(denq') = Len(reports) - Len(denq)
    PROVE  AuditInv'
<1>1. Read' = Read
  BY DEF Read
<1>2. CorrelatorOK'
  BY <1>1 DEF AuditInv, CorrelatorOK
<1>3. DecidedInTime' /\ ClosedAtStop'
  BY DEF AuditInv, DecidedInTime, ClosedAtStop
<1> QED BY <1>2, <1>3 DEF AuditInv

\* A pidversion is given out.
LEMMA BirthStep ==
    ASSUME AuditInv, UNCHANGED <<now, reports>>, NextVer <= MaxVersions,
           NEW n \in Nat, births' = Append(births, n),
           world' \in [Pid -> ProcessType],
           \A p \in Pid : world'[p].live => world'[p].ver = NextVer \/ (world[p].live /\ world'[p].ver = world[p].ver)
    PROVE  MachineOK'
<1>1. births \in Seq(Nat) /\ Len(births) \in Nat
  BY LenProperties DEF AuditInv, MachineOK
<1>2. births' \in Seq(Nat) /\ Len(births') = NextVer
  BY <1>1, AppendProperties DEF NextVer
<1>3. ASSUME NEW p \in Pid, world'[p].live PROVE world'[p].ver \in 1..Len(births')
  <2>1. CASE world'[p].ver = NextVer
    BY <1>1, <1>2, <2>1 DEF NextVer
  <2>2. CASE world[p].live /\ world'[p].ver = world[p].ver
    <3>1. world[p].ver \in 1..Len(births)
      BY <2>2 DEF AuditInv, MachineOK
    <3> QED BY <1>1, <1>2, <2>2, <3>1 DEF NextVer
  <2> QED BY <1>3, <2>1, <2>2
<1> QED BY <1>2, <1>3 DEF AuditInv, MachineOK

\* An event is logged.
LEMMA LogStep ==
    ASSUME AuditInv, UNCHANGED <<now, denq, reports>>, NEW kind \in {"fork", "exec", "exit"},
           NEW actor \in ProcType, NEW target \in ProcType, NEW tag \in Tags, Log(kind, actor, target, tag)
    PROVE  StreamsOK' /\ Len(reports') - Len(denq') = Len(reports) - Len(denq)
<1> DEFINE ev == [kind |-> kind, time |-> now, actor |-> actor, target |-> target, tag |-> tag]
<1>1. now \in Nat /\ esq \in Seq(EventType) /\ Len(esq) \in Nat /\ DOMAIN esq = 1..Len(esq)
  BY Constants, LenProperties DEF AuditInv, MachineOK, StreamsOK
<1>2. ev \in EventType /\ ev.time = now
  BY <1>1 DEF EventType
<1>3. esq' = Append(esq, ev)
  BY DEF Log
<1> HIDE DEF ev
<1>4. /\ esq' \in Seq(EventType) /\ DOMAIN esq' = 1..(Len(esq) + 1)
      /\ \A n \in 1..Len(esq) : esq'[n] = esq[n]
      /\ esq'[Len(esq) + 1] = ev
  BY <1>1, <1>2, <1>3, AppendProperties, LenProperties
<1>5. ASSUME NEW n \in DOMAIN esq' PROVE esq'[n].time <= now
  <2>1. CASE n \in 1..Len(esq)
    BY <1>1, <1>4, <2>1 DEF AuditInv, StreamsOK
  <2>2. CASE n = Len(esq) + 1
    BY <1>1, <1>2, <1>4, <2>2
  <2> QED BY <1>1, <1>4, <2>1, <2>2
<1> QED BY <1>4, <1>5 DEF AuditInv, StreamsOK

LEMMA ForkInv ==
    ASSUME AuditInv, NEW p \in Pid, NEW q \in Pid, Fork(p, q)
    PROVE  AuditInv'
<1> DEFINE child == [world[p] EXCEPT !.ver = NextVer, !.born = now, !.last = now]
           target == [pid |-> q, ver |-> NextVer, prog |-> world[p].prog, born |-> now]
<1>1. world[p].live /\ ~world[q].live /\ NextVer <= MaxVersions
  BY DEF Fork, Active
<1>2. /\ world[p] \in ProcessType /\ Image(p) \in ProcType /\ NextVer \in Nat /\ now \in Nat
  BY <1>1, ActorOK
<1>3. /\ world' = [world EXCEPT ![p].last = now, ![q] = child]
      /\ births' = Append(births, NextVer)
      /\ Log("fork", Image(p), target, NoTag)
      /\ UNCHANGED <<now, denq, reports, corr, ticked, stopped>>
  BY DEF Fork
<1>4. child \in ProcessType /\ child.ver = NextVer /\ target \in ProcType
  BY <1>2 DEF ProcessType, ProcType
<1>5. [world[p] EXCEPT !.last = now] \in ProcessType /\ [world[p] EXCEPT !.last = now].ver = world[p].ver
  BY <1>2 DEF ProcessType
<1> HIDE DEF child, target
<1>6. world \in [Pid -> ProcessType]
  BY DEF AuditInv, MachineOK
<1>7. /\ world'[q] = child
      /\ \A x \in Pid \ {p, q} : world'[x] = world[x]
      /\ world'[p] = IF p = q THEN child ELSE [world[p] EXCEPT !.last = now]
      /\ world' \in [Pid -> ProcessType]
  BY <1>3, <1>4, <1>5, <1>6
<1>8. ASSUME NEW x \in Pid, world'[x].live
      PROVE  world'[x].ver = NextVer \/ (world[x].live /\ world'[x].ver = world[x].ver)
  <2>1. CASE x = q
    BY <1>4, <1>7, <2>1
  <2>2. CASE x # q /\ x = p
    BY <1>1, <1>5, <1>7, <2>2
  <2>3. CASE x # q /\ x # p
    BY <1>7, <1>8, <2>3
  <2> QED BY <2>1, <2>2, <2>3
<1>9. MachineOK'
  BY <1>1, <1>2, <1>3, <1>7, <1>8, BirthStep
<1>10. StreamsOK' /\ Len(reports') - Len(denq') = Len(reports) - Len(denq)
  <2>1. NoTag \in Tags
    BY DEF Tags
  <2> QED BY <1>2, <1>3, <1>4, <2>1, LogStep
<1> QED BY <1>3, <1>9, <1>10, MachineStep

\* exec: the process of p is of another image.
LEMMA BecomeInv ==
    ASSUME AuditInv, NEW p \in Pid, world[p].live, NEW process \in ProcessType, NEW seen \in Tags,
           Become(p, process, seen)
    PROVE  AuditInv'
<1> DEFINE next == [process EXCEPT !.ver = NextVer, !.last = now]
           target == [pid |-> p, ver |-> NextVer, prog |-> process.prog, born |-> process.born]
<1>1. /\ world[p] \in ProcessType /\ Image(p) \in ProcType /\ NextVer \in Nat /\ now \in Nat
      /\ births[world[p].ver] \in Nat
  BY ActorOK
<1>2. /\ NextVer <= MaxVersions
      /\ world' = [world EXCEPT ![p] = next]
      /\ births' = Append(births, births[world[p].ver])
      /\ Log("exec", Image(p), target, seen)
      /\ UNCHANGED <<now, denq, reports, corr, ticked, stopped>>
  BY DEF Become
<1>3. next \in ProcessType /\ next.ver = NextVer /\ target \in ProcType
  BY <1>1 DEF ProcessType, ProcType
<1> HIDE DEF next, target
<1>4. world \in [Pid -> ProcessType]
  BY DEF AuditInv, MachineOK
<1>5. world' \in [Pid -> ProcessType] /\ \A x \in Pid : world'[x] = IF x = p THEN next ELSE world[x]
  BY <1>2, <1>3, <1>4
<1>6. ASSUME NEW x \in Pid, world'[x].live
      PROVE  world'[x].ver = NextVer \/ (world[x].live /\ world'[x].ver = world[x].ver)
  BY <1>3, <1>5, <1>6
<1>7. MachineOK'
  BY <1>1, <1>2, <1>5, <1>6, BirthStep
<1>8. StreamsOK' /\ Len(reports') - Len(denq') = Len(reports) - Len(denq)
  BY <1>1, <1>2, <1>3, LogStep
<1> QED BY <1>2, <1>7, <1>8, MachineStep

LEMMA ExecInv ==
    ASSUME AuditInv, NEW p \in Pid, NEW prog \in Prog, Exec(p, prog)
    PROVE  AuditInv'
<1> DEFINE w == [world[p] EXCEPT !.prog = prog]
           process == IF prog \in Entitled /\ w.box = "none" THEN [w EXCEPT !.box = "app"] ELSE w
<1>1. world[p].live /\ Become(p, process, NoTag)
  BY DEF Exec, Active
<1>2. world[p] \in ProcessType
  BY <1>1, ActorOK
<1>3. w \in ProcessType
  BY <1>2 DEF ProcessType, Path
<1>4. process \in ProcessType
  <2> HIDE DEF w
  <2> QED BY <1>3 DEF ProcessType
<1>5. NoTag \in Tags
  BY DEF Tags
<1> HIDE DEF process
<1> QED BY <1>1, <1>4, <1>5, BecomeInv

LEMMA ExecSandboxInv ==
    ASSUME AuditInv, NEW p \in Pid, ExecSandbox(p)
    PROVE  AuditInv'
<1>1. PICK t \in RunTags, readable \in {TRUE} \cup {~Unreadable} :
        Become(p, [world[p] EXCEPT !.prog = SandboxExec, !.box = "exec", !.root = <<p, NextVer>>, !.tag = t],
               IF readable THEN t ELSE NoTag)
  BY DEF ExecSandbox
<1> DEFINE process == [world[p] EXCEPT !.prog = SandboxExec, !.box = "exec", !.root = <<p, NextVer>>, !.tag = t]
           seen == IF readable THEN t ELSE NoTag
<1>2. world[p].live
  BY DEF ExecSandbox, Active
<1>3. world[p] \in ProcessType /\ NextVer \in Nat
  BY <1>2, ActorOK
<1>4. t \in Tags /\ seen \in Tags
  BY TagAssumption DEF Tags
<1>5. SandboxExec \in Path /\ <<p, NextVer>> \in Nat \X Nat
  BY <1>3, ProgAssumption, Constants DEF Path
<1>6. process \in ProcessType
  BY <1>3, <1>4, <1>5 DEF ProcessType
<1>7. Become(p, process, seen)
  BY <1>1
<1> HIDE DEF process, seen
<1> QED BY <1>2, <1>4, <1>6, <1>7, BecomeInv

\* Another process stands at p, with the same pidversion or none.
LEMMA ChangeStep ==
    ASSUME AuditInv, NEW p \in Pid, world[p].live, NEW w \in ProcessType, w.live => w.ver = world[p].ver,
           world' = [world EXCEPT ![p] = w], UNCHANGED <<now, births, reports>>
    PROVE  MachineOK'
<1>1. world' \in [Pid -> ProcessType] /\ \A x \in Pid : world'[x] = IF x = p THEN w ELSE world[x]
  BY DEF AuditInv, MachineOK
<1>2. ASSUME NEW x \in Pid, world'[x].live PROVE world'[x].ver \in 1..Len(births)
  BY <1>1, <1>2 DEF AuditInv, MachineOK
<1> QED BY <1>1, <1>2 DEF AuditInv, MachineOK

LEMMA ExitInv ==
    ASSUME AuditInv, NEW p \in Pid, Exit(p)
    PROVE  AuditInv'
<1> DEFINE w == [NoProcess EXCEPT !.last = now]
<1>1. /\ world[p].live /\ world' = [world EXCEPT ![p] = w]
      /\ Log("exit", Image(p), Image(p), NoTag)
      /\ UNCHANGED <<now, births, denq, reports, corr, ticked, stopped>>
  BY DEF Exit, Active
<1>2. Image(p) \in ProcType /\ now \in Nat /\ NoTag \in Tags
  BY <1>1, ActorOK DEF Tags
<1>3. w \in ProcessType /\ w.live = FALSE
  BY <1>2 DEF NoProcess, ProcessType, Path, Tags
<1> HIDE DEF w
<1>4. MachineOK'
  BY <1>1, <1>3, ChangeStep
<1>5. StreamsOK' /\ Len(reports') - Len(denq') = Len(reports) - Len(denq)
  BY <1>1, <1>2, LogStep
<1> QED BY <1>1, <1>4, <1>5, MachineStep

LEMMA SelfSandboxInv ==
    ASSUME AuditInv, NEW p \in Pid, SelfSandbox(p)
    PROVE  AuditInv'
<1> DEFINE w == [world[p] EXCEPT !.box = "init", !.last = now]
<1>1. /\ world[p].live /\ world' = [world EXCEPT ![p].box = "init", ![p].last = now]
      /\ UNCHANGED <<now, births, esq, denq, reports, corr, ticked, stopped>>
  BY DEF SelfSandbox, Active
<1>2. world[p] \in ProcessType /\ now \in Nat /\ world \in [Pid -> ProcessType]
  BY <1>1, ActorOK DEF AuditInv, MachineOK
<1>3. w \in ProcessType /\ w.ver = world[p].ver
  BY <1>2 DEF ProcessType
<1>4. world' = [world EXCEPT ![p] = w]
  BY <1>1, <1>2
<1> HIDE DEF w
<1>5. MachineOK'
  BY <1>1, <1>3, <1>4, ChangeStep
<1>6. StreamsOK' /\ Len(reports') - Len(denq') = Len(reports) - Len(denq)
  BY <1>1 DEF AuditInv, StreamsOK
<1> QED BY <1>1, <1>5, <1>6, MachineStep

\* A denial line gets the next id.
LEMMA LogDenialInv ==
    ASSUME AuditInv, NEW p \in Pid, world[p].live, NEW what \in What, NEW duplicate \in BOOLEAN,
           LogDenial(p, what, duplicate)
    PROVE  AuditInv'
<1> DEFINE w == world[p]
           d == [id |-> Len(reports) + 1, pid |-> p, what |-> what, tag |-> w.tag, time |-> now, duplicate |-> duplicate]
           r == [d |-> d, ver |-> w.ver, birth |-> births[w.ver], box |-> w.box, root |-> w.root]
<1>1. /\ Len(reports) < MaxReports
      /\ denq' = Append(denq, d)
      /\ reports' = Append(reports, r)
      /\ world' = [world EXCEPT ![p].last = now]
      /\ UNCHANGED <<now, births, esq, corr, ticked, stopped>>
  BY DEF LogDenial
<1>2. w \in ProcessType /\ births[w.ver] \in Nat /\ now \in Nat /\ world \in [Pid -> ProcessType]
  BY ActorOK DEF AuditInv, MachineOK
<1>3. reports \in Seq(ReportType) /\ Len(reports) \in Nat /\ denq \in Seq(LineType) /\ Len(denq) \in Nat
      /\ Len(denq) <= Len(reports) /\ DOMAIN denq = 1..Len(denq)
  BY LenProperties DEF AuditInv, MachineOK, StreamsOK
<1>4. d \in LineType /\ d.id = Len(reports) + 1
  BY <1>2, <1>3 DEF LineType, ProcessType
<1>5. r \in ReportType
  <2> HIDE DEF d
  <2> QED BY <1>2, <1>4 DEF ReportType, ProcessType
<1> DEFINE v == [w EXCEPT !.last = now]
<1>6. v \in ProcessType /\ v.ver = world[p].ver /\ world' = [world EXCEPT ![p] = v]
  BY <1>1, <1>2 DEF ProcessType
<1> HIDE DEF v, d, r, w
<1>7. /\ reports' \in Seq(ReportType) /\ Len(reports') = Len(reports) + 1
      /\ denq' \in Seq(LineType) /\ Len(denq') = Len(denq) + 1 /\ DOMAIN denq' = 1..(Len(denq) + 1)
      /\ \A n \in 1..Len(denq) : denq'[n] = denq[n]
      /\ denq'[Len(denq) + 1] = d
  BY <1>1, <1>3, <1>4, <1>5, AppendProperties, LenProperties
<1>8. MachineOK'
  <2>1. /\ world' \in [Pid -> ProcessType]
        /\ \A x \in Pid : world'[x] = IF x = p THEN v ELSE world[x]
    BY <1>2, <1>6
  <2>2. \A x \in Pid : world'[x].live => world'[x].ver \in 1..Len(births)
    BY <1>6, <2>1 DEF AuditInv, MachineOK
  <2>3. Len(reports') <= MaxReports
    BY <1>1, <1>3, <1>7, Constants
  <2> QED BY <1>1, <1>7, <2>1, <2>2, <2>3 DEF AuditInv, MachineOK
<1>9. ASSUME NEW n \in DOMAIN denq' PROVE denq'[n].id = (Len(reports') - Len(denq')) + n
  <2>1. CASE n \in 1..Len(denq)
    <3>1. denq[n].id = (Len(reports) - Len(denq)) + n
      BY <1>3, <2>1 DEF AuditInv, StreamsOK
    <3> QED BY <1>3, <1>7, <2>1, <3>1
  <2>2. CASE n = Len(denq) + 1
    BY <1>3, <1>4, <1>7, <2>2
  <2> QED BY <1>3, <1>7, <2>1, <2>2
<1>10. StreamsOK' /\ Len(reports') - Len(denq') = Len(reports) - Len(denq)
  BY <1>1, <1>3, <1>7, <1>9 DEF AuditInv, StreamsOK
<1> QED BY <1>1, <1>8, <1>10, MachineStep

LEMMA AdvanceInv == ASSUME AuditInv, Advance PROVE AuditInv'
<1>1. /\ ~stopped /\ now < MaxClock /\ ticked /\ now' = now + 1 /\ ticked' = FALSE
      /\ UNCHANGED <<world, births, esq, denq, reports, corr, stopped>>
  BY DEF Advance
<1>2. now \in Nat /\ now \in 1..MaxClock /\ MaxClock \in Nat /\ now' \in 1..MaxClock
  BY <1>1, Constants DEF AuditInv, MachineOK
<1>3. MachineOK'
  BY <1>1, <1>2 DEF AuditInv, MachineOK
<1>4. StreamsOK'
  <2>1. ASSUME NEW n \in DOMAIN esq PROVE esq[n].time <= now'
    <3>1. esq \in Seq(EventType) /\ esq[n].time <= now
      BY DEF AuditInv, StreamsOK
    <3>2. esq[n] \in EventType
      BY <3>1, LenProperties, ElementOfSeq
    <3>3. esq[n].time \in Nat
      BY <3>2 DEF EventType
    <3> QED BY <1>1, <1>2, <3>1, <3>3
  <2> QED BY <1>1, <2>1 DEF AuditInv, StreamsOK
<1>5. CorrelatorOK'
  <2>1. corr.mark \in Nat /\ corr.mark <= now
    BY CorrFields DEF AuditInv, CorrelatorOK
  <2>2. Read' = Read
    BY <1>1 DEF Read
  <2> QED BY <1>1, <1>2, <2>1, <2>2 DEF AuditInv, CorrelatorOK
<1>6. DecidedInTime'
  <2>1. ASSUME NEW p \in corr.pend PROVE now' - p.arrived <= LagCap
    <3>1. p.arrived \in Nat
      BY DEF AuditInv, CorrelatorOK, Sound, CorrType, PendingType
    <3>2. now - p.arrived < LagCap
      BY <1>1 DEF AuditInv, DecidedInTime
    <3> QED BY <1>1, <1>2, <3>1, <3>2, Constants
  <2>2. LagCap' = LagCap
    BY DEF LagCap
  <2> QED BY <1>1, <2>1 DEF DecidedInTime
<1>7. ClosedAtStop'
  BY <1>1 DEF ClosedAtStop
<1> QED BY <1>1, <1>3, <1>4, <1>5, <1>6, <1>7 DEF AuditInv

-----------------------------------------------------------------------------
(* The steps of the watcher's loop *)

\* The first of a queue, and the rest of it.
LEMMA QueueHead ==
    ASSUME NEW S, NEW s \in Seq(S), s # <<>>
    PROVE  /\ Len(s) \in Nat /\ Len(s) > 0 /\ DOMAIN s = 1..Len(s)
           /\ Head(s) = s[1] /\ s[1] \in S
           /\ Tail(s) \in Seq(S) /\ Len(Tail(s)) = Len(s) - 1 /\ DOMAIN Tail(s) = 1..(Len(s) - 1)
           /\ \A n \in 1..(Len(s) - 1) : Tail(s)[n] = s[n + 1]
<1>1. Len(s) \in Nat /\ DOMAIN s = 1..Len(s)
  BY LenProperties
<1>2. Len(s) > 0
  BY <1>1, EmptySeq
<1>3. Head(s) = s[1] /\ s[1] \in S
  BY <1>1, <1>2, ElementOfSeq, HeadTailProperties
<1>4. Tail(s) \in Seq(S) /\ Len(Tail(s)) = Len(s) - 1 /\ \A n \in 1..Len(Tail(s)) : Tail(s)[n] = s[n + 1]
  BY HeadTailProperties
<1>5. DOMAIN Tail(s) = 1..Len(Tail(s))
  BY <1>4, LenProperties
<1> QED BY <1>1, <1>2, <1>3, <1>4, <1>5

LEMMA DeliverESInv == ASSUME AuditInv, DeliverES PROVE AuditInv'
<1> DEFINE ev == Head(esq)
           raised == [corr EXCEPT !.mark = Larger(@, ev.time)]
           b == HandleES(corr, ev)
<1>1. /\ ~stopped /\ esq # <<>> /\ corr' = b /\ esq' = Tail(esq)
      /\ UNCHANGED <<now, world, births, denq, reports, ticked, stopped>>
  BY DEF DeliverES
<1>2. /\ esq \in Seq(EventType) /\ (\A n \in DOMAIN esq : esq[n].time <= now) /\ now \in Nat
      /\ Sound(corr) /\ corr.mark <= now /\ Ledger(corr, corr.pend, Read) /\ corr.mark \in Nat
  BY Constants, CorrFields DEF AuditInv, StreamsOK, MachineOK, CorrelatorOK
<1>3. /\ Len(esq) \in Nat /\ Len(esq) > 0 /\ DOMAIN esq = 1..Len(esq)
      /\ ev = esq[1] /\ esq[1] \in EventType
      /\ Tail(esq) \in Seq(EventType) /\ DOMAIN Tail(esq) = 1..(Len(esq) - 1)
      /\ \A n \in 1..(Len(esq) - 1) : Tail(esq)[n] = esq[n + 1]
  BY <1>1, <1>2, QueueHead
<1>4. ev \in EventType /\ ev.time \in Nat /\ ev.time <= now
  <2>1. 1 \in DOMAIN esq /\ esq[1] \in EventType
    BY <1>3
  <2>2. ev \in EventType /\ ev.time <= now
    BY <1>2, <1>3, <2>1
  <2> HIDE DEF ev
  <2> QED BY <2>2 DEF EventType
<1> HIDE DEF ev
<1>5. Sound(raised) /\ raised.mark = Larger(corr.mark, ev.time)
  BY <1>2, <1>4, RaiseMark
<1>6. Becomes(raised, b)
  BY <1>2, <1>4, HandleESSound
<1>7. raised.pend = corr.pend /\ Ledger(raised, corr.pend, Read)
  <2>1. corr \in CorrType
    BY <1>2 DEF Sound
  <2>2. /\ raised.pend = corr.pend /\ raised.denials = corr.denials /\ raised.orphans = corr.orphans
        /\ raised.dropped = corr.dropped /\ raised.lastPending = corr.lastPending
        /\ raised.lastStored = corr.lastStored /\ raised.lastOrphan = corr.lastOrphan
    BY <2>1 DEF CorrType
  <2> HIDE DEF raised
  <2>3. BooksOf(raised, corr.pend) = BooksOf(corr, corr.pend)
    BY <2>2 DEF BooksOf
  <2> QED BY <1>2, <2>2, <2>3 DEF Ledger
<1> HIDE DEF raised, b
<1>8. Ledger(b, corr.pend, Read)
  BY <1>5, <1>6, <1>7, BecomesLedger
<1>9. Sound(b) /\ b.pend = corr.pend /\ b.mark = Larger(corr.mark, ev.time)
  BY <1>5, <1>6, <1>7 DEF Becomes, SameBooks
<1>10. b.mark <= now
  BY <1>2, <1>4, <1>9 DEF Larger
<1>11. CorrelatorOK'
  <2>1. Read' = Read
    BY <1>1 DEF Read
  <2> QED BY <1>1, <1>8, <1>9, <1>10, <2>1 DEF CorrelatorOK
<1>12. StreamsOK'
  <2>1. ASSUME NEW n \in DOMAIN Tail(esq) PROVE Tail(esq)[n].time <= now
    <3>1. n + 1 \in DOMAIN esq /\ Tail(esq)[n] = esq[n + 1]
      BY <1>3
    <3> QED BY <1>2, <3>1
  <2> QED BY <1>1, <1>3, <2>1 DEF AuditInv, StreamsOK
<1>13. MachineOK' /\ ClosedAtStop'
  BY <1>1 DEF AuditInv, MachineOK, ClosedAtStop
<1>14. DecidedInTime'
  BY <1>1, <1>9 DEF AuditInv, DecidedInTime
<1> QED BY <1>1, <1>11, <1>12, <1>13, <1>14 DEF AuditInv

LEMMA DeliverDenialInv == ASSUME AuditInv, DeliverDenial PROVE AuditInv'
<1> DEFINE d == Head(denq)
           b == HandleDenial(corr, d, now)
           m == Len(reports)
           k == Len(denq)
<1>1. /\ ~stopped /\ denq # <<>> /\ corr' = b /\ denq' = Tail(denq)
      /\ UNCHANGED <<now, world, births, esq, reports, ticked, stopped>>
  BY DEF DeliverDenial
<1>2. /\ denq \in Seq(LineType) /\ k <= m /\ m \in Nat /\ now \in Nat
      /\ \A n \in DOMAIN denq : denq[n].id = (m - k) + n
      /\ Sound(corr) /\ corr.mark <= now /\ Ledger(corr, corr.pend, Read)
  BY Constants, LenProperties DEF AuditInv, StreamsOK, MachineOK, CorrelatorOK
<1>3. /\ k \in Nat /\ k > 0 /\ DOMAIN denq = 1..k
      /\ d = denq[1] /\ denq[1] \in LineType
      /\ Tail(denq) \in Seq(LineType) /\ Len(Tail(denq)) = k - 1 /\ DOMAIN Tail(denq) = 1..(k - 1)
      /\ \A n \in 1..(k - 1) : Tail(denq)[n] = denq[n + 1]
  BY <1>1, <1>2, QueueHead
<1>4. d \in LineType /\ d.id = (m - k) + 1
  <2>1. 1 \in DOMAIN denq
    BY <1>3
  <2> QED BY <1>2, <1>3, <2>1
<1> HIDE DEF d
<1>5. Read = 1..(m - k) /\ Read' = 1..((m - k) + 1)
  <2>1. Len(reports') - Len(denq') = (m - k) + 1
    <3>1. Len(reports') = m /\ Len(denq') = k - 1
      BY <1>1, <1>3
    <3> HIDE DEF m, k
    <3> QED BY <1>2, <1>3, <3>1
  <2> QED BY <2>1 DEF Read
<1>6. d.id \notin Read /\ Read' = Read \cup {d.id}
  <2> DEFINE x == m - k
  <2>1. x \in Nat
    <3> HIDE DEF m, k
    <3> QED BY <1>2, <1>3
  <2>2. Read = 1..x /\ Read' = 1..(x + 1) /\ d.id = x + 1
    BY <1>4, <1>5
  <2> HIDE DEF x
  <2> QED BY <2>1, <2>2
<1>7. /\ Sound(b) /\ Ledger(b, b.pend, Read') /\ b.mark = corr.mark
      /\ \A p \in b.pend : p.arrived = now \/ \E q \in corr.pend : p.arrived = q.arrived
  BY <1>2, <1>4, <1>6, HandleDenialSound
<1> HIDE DEF b
<1>8. CorrelatorOK'
  BY <1>1, <1>2, <1>7 DEF CorrelatorOK
<1>9. DecidedInTime'
  <2>1. ASSUME NEW p \in b.pend PROVE now - p.arrived <= LagCap /\ (ticked => now - p.arrived < LagCap)
    <3>1. CASE p.arrived = now
      BY <1>2, <3>1, Constants
    <3>2. CASE \E q \in corr.pend : p.arrived = q.arrived
      BY <3>2 DEF AuditInv, DecidedInTime
    <3> QED BY <1>7, <3>1, <3>2
  <2>2. LagCap' = LagCap
    BY DEF LagCap
  <2> QED BY <1>1, <2>1 DEF DecidedInTime
<1>10. StreamsOK'
  <2>1. ASSUME NEW n \in 1..(k - 1) PROVE Tail(denq)[n].id = (m - (k - 1)) + n
    <3>1. n + 1 \in DOMAIN denq /\ Tail(denq)[n] = denq[n + 1]
      BY <1>3
    <3>2. denq[n + 1].id = (m - k) + (n + 1)
      BY <1>2, <3>1
    <3> HIDE DEF m, k
    <3> QED BY <1>2, <1>3, <3>1, <3>2
  <2>2. k - 1 <= m
    <3> HIDE DEF m, k
    <3> QED BY <1>2, <1>3
  <2>3. Len(reports') = m /\ Len(denq') = k - 1
    BY <1>1, <1>3
  <2> HIDE DEF m, k
  <2> QED BY <1>1, <1>3, <2>1, <2>2, <2>3 DEF AuditInv, StreamsOK
<1>11. MachineOK' /\ ClosedAtStop'
  BY <1>1 DEF AuditInv, MachineOK, ClosedAtStop
<1> QED BY <1>1, <1>8, <1>9, <1>10, <1>11 DEF AuditInv

LEMMA TickInv == ASSUME AuditInv, TickStep PROVE AuditInv'
<1>1. PICK order \in Orders(corr) : corr' = Tick(corr, now, order)
  BY DEF TickStep
<1>2. ~stopped /\ ticked' = TRUE /\ UNCHANGED <<now, world, births, esq, denq, reports, stopped>>
  BY DEF TickStep
<1>3. now \in Nat /\ Sound(corr) /\ corr.mark <= now /\ Ledger(corr, corr.pend, Read)
  BY Constants DEF AuditInv, MachineOK, CorrelatorOK
<1>4. /\ Sound(corr') /\ Ledger(corr', corr'.pend, Read) /\ corr'.mark = corr.mark
      /\ corr'.pend \subseteq corr.pend \cap Young(now)
  BY <1>1, <1>3, TickSound
<1>5. CorrelatorOK'
  <2>1. Read' = Read
    BY <1>2 DEF Read
  <2> QED BY <1>2, <1>3, <1>4, <2>1 DEF CorrelatorOK
<1>6. DecidedInTime'
  <2>1. ASSUME NEW p \in corr'.pend PROVE now - p.arrived < LagCap /\ now - p.arrived <= LagCap
    <3>1. p \in PendingType /\ now - p.arrived < LagCap /\ p \in corr.pend
      BY <1>4 DEF Young
    <3>2. now - p.arrived <= LagCap
      BY <3>1 DEF AuditInv, DecidedInTime
    <3> QED BY <3>1, <3>2
  <2> QED BY <1>2, <2>1 DEF DecidedInTime, LagCap
<1>7. MachineOK' /\ StreamsOK' /\ ClosedAtStop'
  BY <1>2 DEF AuditInv, MachineOK, StreamsOK, ClosedAtStop
<1> QED BY <1>2, <1>5, <1>6, <1>7 DEF AuditInv

LEMMA StopInv == ASSUME AuditInv, Stop PROVE AuditInv'
<1>1. PICK order \in Orders(corr) : corr' = Shutdown(corr, order)
  BY DEF Stop
<1>2. ~stopped /\ stopped' = TRUE /\ UNCHANGED <<now, world, births, esq, denq, reports, ticked>>
  BY DEF Stop
<1>3. Sound(corr) /\ corr.mark <= now /\ Ledger(corr, corr.pend, Read)
  BY DEF AuditInv, CorrelatorOK
<1>4. /\ Sound(corr') /\ Ledger(corr', corr'.pend, Read) /\ corr'.mark = corr.mark /\ corr'.pend = {}
      /\ \A i \in DOMAIN corr'.img : corr'.img[i].row # "open"
      /\ \A r \in DOMAIN corr'.runs : corr'.runs[r].status # "running"
  BY <1>1, <1>3, ShutdownSound
<1>5. CorrelatorOK'
  <2>1. Read' = Read
    BY <1>2 DEF Read
  <2> QED BY <1>2, <1>3, <1>4, <2>1 DEF CorrelatorOK
<1>6. DecidedInTime' /\ ClosedAtStop'
  BY <1>4 DEF DecidedInTime, ClosedAtStop
<1>7. MachineOK' /\ StreamsOK'
  BY <1>2 DEF AuditInv, MachineOK, StreamsOK
<1> QED BY <1>2, <1>5, <1>6, <1>7 DEF AuditInv

-----------------------------------------------------------------------------
(* The theorems *)

LEMMA NextInv == ASSUME AuditInv, [Next]_vars PROVE AuditInv'
<1>1. ASSUME NEW p \in Pid, NEW q \in Pid, Fork(p, q) PROVE AuditInv'
  BY <1>1, ForkInv
<1>2. ASSUME NEW p \in Pid, NEW prog \in Prog, Exec(p, prog) PROVE AuditInv'
  BY <1>2, ExecInv
<1>3. ASSUME NEW p \in Pid, ExecSandbox(p) PROVE AuditInv'
  BY <1>3, ExecSandboxInv
<1>4. ASSUME NEW p \in Pid, Exit(p) PROVE AuditInv'
  BY <1>4, ExitInv
<1>5. ASSUME NEW p \in Pid, SelfSandbox(p) PROVE AuditInv'
  BY <1>5, SelfSandboxInv
<1>6. ASSUME NEW p \in Pid, NEW what \in What, Deny(p, what) PROVE AuditInv'
  <2>1. world[p].live /\ LogDenial(p, what, FALSE)
    BY <1>6 DEF Deny, Active
  <2> QED BY <2>1, LogDenialInv
<1>7. ASSUME NEW p \in Pid, NEW what \in What, Repeat(p, what) PROVE AuditInv'
  <2>1. world[p].live /\ LogDenial(p, what, TRUE)
    BY <1>7 DEF Repeat, Active
  <2> QED BY <2>1, LogDenialInv
<1>8. CASE Machine
  BY <1>1, <1>2, <1>3, <1>4, <1>5, <1>6, <1>7, <1>8 DEF Machine
<1>9. CASE Advance
  BY <1>9, AdvanceInv
<1>10. CASE Loop
  BY <1>10, DeliverESInv, DeliverDenialInv, TickInv, StopInv DEF Loop
<1>11. CASE UNCHANGED vars
  <2>1. UNCHANGED <<now, corr, ticked, stopped>> /\ UNCHANGED <<world, births, esq, denq, reports>>
    BY <1>11 DEF vars
  <2>2. MachineOK' /\ StreamsOK' /\ Len(reports') - Len(denq') = Len(reports) - Len(denq)
    BY <2>1 DEF AuditInv, MachineOK, StreamsOK
  <2> QED BY <2>1, <2>2, MachineStep
<1> QED BY <1>8, <1>9, <1>10, <1>11 DEF Next

\* The inductive invariant holds: the correlator's tables are sound, its books are balanced over the
\* denial lines read so far, and no pending denial is older than the lag cap.
THEOREM AuditInvariant == Spec => []AuditInv
<1>1. Init => AuditInv
  BY InitInv
<1>2. AuditInv /\ [Next]_vars => AuditInv'
  BY NextInv
<1> QED BY <1>1, <1>2, PTL DEF Spec

\* Whatever the machine does and however the two streams lag: a process row is open exactly while its
\* image is in the live set of its run, and the correlator's tables name only images and runs that exist
\* (join, endImage, maybeEndRun and every handler that calls them).
THEOREM AuditTypeCorrect == Spec => []TypeOK
<1>1. AuditInv => TypeOK
  BY InvTypeOK
<1> QED BY <1>1, AuditInvariant, PTL

\* No denial line the loop has read is lost, invented or counted twice by HandleDenial, Tick or Shutdown:
\* each is in exactly one pending denial, denial row or orphan row or was dropped, and the counts are
\* exact.
THEOREM LedgerExactHolds == Spec => []LedgerExact
<1>1. AuditInv => LedgerExact
  BY InvLedgerExact
<1> QED BY <1>1, AuditInvariant, PTL

\* When Shutdown is over no denial is pending, and no run or process row is open.
THEOREM ClosedAtStopHolds == Spec => []ClosedAtStop
<1>1. AuditInv => ClosedAtStop
  BY DEF AuditInv
<1> QED BY <1>1, AuditInvariant, PTL

\* Tick decides a pending denial at the latest lagCapFactor times the buffer window after it came, also
\* when eslogger is silent.
THEOREM DecidedInTimeHolds == Spec => []DecidedInTime
<1>1. AuditInv => DecidedInTime
  BY DEF AuditInv
<1> QED BY <1>1, AuditInvariant, PTL

=============================================================================
