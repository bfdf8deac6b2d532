------------------------------ MODULE PagesProofs ------------------------------
(***************************************************************************)
(* Proofs about the pages (module Pages), for any launches and bounds.     *)
(*                                                                         *)
(* The argument has three parts.  DataInv is about the rows: a run has the *)
(* session of its launcher, and is without one only if it is without a     *)
(* profile or an agent; a session keeps its name; the mirror has an older  *)
(* or the same version of both.  Each call of the correlator is shown to   *)
(* write rows for which this goes on (Writes, Fits, CommitInv).            *)
(*                                                                         *)
(* Synced is about the way to the mirror: rows up to the cursor are there  *)
(* as they are, so once everything has arrived the two are the same and a  *)
(* page can be compared with a report row by row.                          *)
(*                                                                         *)
(* PageInv is about the answers a page has so far: whatever they name has  *)
(* arrived, and as it was in the answer.  What has arrived stays (Grows),  *)
(* so rows that come between two queries of a page take nothing back.      *)
(***************************************************************************)
EXTENDS Pages, FiniteSetTheorems, SequenceTheorems, TLAPS

-----------------------------------------------------------------------------
(* Numbers *)

\* Induction over the numbers up to m, for a set of them.
LEMMA Induct ==
    ASSUME NEW m \in Nat, NEW S, 0 \in S, \A n \in 0..m : n # m /\ n \in S => n + 1 \in S
    PROVE  \A n \in 0..m : n \in S
<1> SUFFICES ASSUME NEW n \in 0..m, n \notin S PROVE FALSE
  OBVIOUS
<1> DEFINE R == {ss \in Nat \X Nat : ss[1] < ss[2]}
           bad == {x \in 0..m : x \notin S}
<1>1. IsWellFoundedOn(R, Nat)
  BY NatLessThanWellFounded DEF OpToRel
<1>2. PICK x \in bad : \A y \in bad : <<y, x>> \notin R
  <2>1. bad \subseteq Nat /\ bad # {}
    OBVIOUS
  <2> HIDE DEF bad, R
  <2> QED BY <1>1, <2>1, WFMin
<1>3. x # 0 /\ x - 1 \in 0..m
  OBVIOUS
<1>4. x - 1 \notin bad
  <2>1. <<x - 1, x>> \in R
    BY <1>3
  <2> QED BY <1>2, <2>1
<1>5. (x - 1) + 1 = x /\ x - 1 # m
  OBVIOUS
<1> QED BY <1>3, <1>4, <1>5

\* What one loop over 1..m does to a state, if every turn of it leads from A to A.
\* f is the state after each turn, from a on.
IsLoop(f, m, a, turn) == f = [n \in 0..m |-> IF n = 0 THEN a ELSE turn[<<f[n - 1], n>>]]

\* Such a loop has a state after each of its turns.
LEMMA LoopExists ==
    ASSUME NEW A, NEW a \in A, NEW m \in Nat, NEW turn \in [A \X (1..m) -> A]
    PROVE  \E f \in [0..m -> A] : IsLoop(f, m, a, turn)
<1> DEFINE Runs(f, k) == f = [n \in 0..k |-> IF n = 0 THEN a ELSE turn[<<f[n - 1], n>>]]
           S == {k \in 0..m : \E f \in [0..k -> A] : Runs(f, k)}
<1>1. 0 \in S
  <2>a. \A n \in 0..0 : n = 0
    BY SMT
  <2> DEFINE f == [n \in 0..0 |-> a]
  <2>1. f \in [0..0 -> A] /\ Runs(f, 0)
    BY <2>a
  <2>2. \E g \in [0..0 -> A] : Runs(g, 0)
    <3> HIDE DEF f, Runs
    <3> QED BY <2>1
  <2> HIDE DEF Runs
  <2> QED BY <2>2
<1>2. ASSUME NEW k \in 0..m, k # m, k \in S PROVE k + 1 \in S
  <2>1. PICK f \in [0..k -> A] : Runs(f, k)
    BY <1>2
  <2> DEFINE g == [n \in 0..(k + 1) |-> IF n = k + 1 THEN turn[<<f[k], k + 1>>] ELSE f[n]]
  <2>2. k \in Nat /\ k + 1 \in 1..m /\ f[k] \in A
    BY <1>2
  <2>3. g \in [0..(k + 1) -> A]
    BY <2>2
  <2>4. ASSUME NEW n \in 0..(k + 1) PROVE g[n] = IF n = 0 THEN a ELSE turn[<<g[n - 1], n>>]
    <3>1. CASE n = 0
      BY <2>1, <2>2, <3>1
    <3>2. CASE n \in 1..k
      <4>1. g[n] = f[n] /\ g[n - 1] = f[n - 1]
        BY <2>2, <3>2
      <4>2. f[n] = turn[<<f[n - 1], n>>]
        BY <2>1, <2>2, <3>2
      <4> HIDE DEF g
      <4> QED BY <3>2, <4>1, <4>2
    <3>3. CASE n = k + 1
      <4>1. g[k + 1] = turn[<<f[k], k + 1>>] /\ g[k] = f[k] /\ n # 0 /\ n - 1 = k
        BY <2>2, <3>3
      <4> HIDE DEF g
      <4> QED BY <3>3, <4>1
    <3> QED BY <2>2, <3>1, <3>2, <3>3
  <2>5. Runs(g, k + 1)
    <3>1. g = [n \in 0..(k + 1) |-> g[n]]
      OBVIOUS
    <3> HIDE DEF g
    <3> QED BY <2>4, <3>1
  <2>6. \E h \in [0..(k + 1) -> A] : Runs(h, k + 1)
    <3> HIDE DEF g, Runs
    <3> QED BY <2>3, <2>5
  <2> HIDE DEF Runs
  <2> QED BY <2>2, <2>6
<1>3. m \in S
  <2> HIDE DEF S
  <2> QED BY <1>1, <1>2, Induct
<1> QED BY <1>3 DEF IsLoop

-----------------------------------------------------------------------------
(* Sequences, of anything *)

IsList(s) == \E S : s \in Seq(S)

\* Length and domain; what two sequences one after the other hold; what one more, one and no element give.
LEMMA ListFields ==
    ASSUME NEW s, IsList(s)
    PROVE  Len(s) \in Nat /\ DOMAIN s = 1..Len(s)
<1>1. PICK S : s \in Seq(S)
  BY DEF IsList
<1> QED BY <1>1, LenProperties

LEMMA ListConcat ==
    ASSUME NEW s, NEW t, IsList(s), IsList(t)
    PROVE  /\ IsList(s \o t) /\ Len(s \o t) = Len(s) + Len(t)
           /\ \A i \in 1..Len(s) + Len(t) : (s \o t)[i] = IF i <= Len(s) THEN s[i] ELSE t[i - Len(s)]
<1>1. PICK S : s \in Seq(S)
  BY DEF IsList
<1>2. PICK T : t \in Seq(T)
  BY DEF IsList
<1>3. s \in Seq(S \cup T) /\ t \in Seq(S \cup T)
  BY <1>1, <1>2, SeqMonotonic
<1>4. /\ s \o t \in Seq(S \cup T) /\ Len(s \o t) = Len(s) + Len(t)
      /\ \A i \in 1..Len(s) + Len(t) : (s \o t)[i] = IF i <= Len(s) THEN s[i] ELSE t[i - Len(s)]
  BY <1>3, ConcatProperties
<1> QED BY <1>4 DEF IsList

LEMMA ListAppend ==
    ASSUME NEW s, NEW x, IsList(s)
    PROVE  /\ IsList(Append(s, x)) /\ Len(Append(s, x)) = Len(s) + 1
           /\ \A i \in 1..Len(s) : Append(s, x)[i] = s[i]
           /\ Append(s, x)[Len(s) + 1] = x
<1>1. PICK S : s \in Seq(S)
  BY DEF IsList
<1>2. s \in Seq(S \cup {x}) /\ x \in S \cup {x}
  BY <1>1, SeqMonotonic
<1>3. /\ Append(s, x) \in Seq(S \cup {x}) /\ Len(Append(s, x)) = Len(s) + 1
      /\ \A i \in 1..Len(s) : Append(s, x)[i] = s[i]
      /\ Append(s, x)[Len(s) + 1] = x
  BY <1>2, AppendProperties
<1> QED BY <1>3 DEF IsList

LEMMA ListOne ==
    ASSUME NEW x
    PROVE  IsList(<<x>>) /\ Len(<<x>>) = 1 /\ <<x>>[1] = x
<1>1. <<x>> \in Seq({x})
  OBVIOUS
<1> QED BY <1>1 DEF IsList

LEMMA ListNone == IsList(<<>>) /\ Len(<<>>) = 0
<1>1. <<>> \in Seq({})
  OBVIOUS
<1> QED BY <1>1 DEF IsList

-----------------------------------------------------------------------------
(* Rows *)

\* The names of sessions: an agent and a key.
Names == ({"claude-code"} \X Tag) \cup ({"cursor"} \X (Conversation \cup {"unknown"}))

IsSession(r) ==
    /\ r.key[1] = "sessions"
    /\ r = [key |-> r.key, rev |-> r.rev, name |-> r.name]
    /\ r.name \in Names
IsRun(r) ==
    /\ r.key[1] = "runs"
    /\ r = [key |-> r.key, rev |-> r.rev, session |-> r.session, parent |-> r.parent, text |-> r.text,
            err |-> r.err, status |-> r.status, env |-> r.env, by |-> r.by, how |-> r.how]
IsProcess(r) ==
    /\ r.key[1] = "processes"
    /\ r = [key |-> r.key, rev |-> r.rev, run |-> r.run, parent |-> r.parent, prev |-> r.prev,
            platform |-> r.platform, end |-> r.end]
IsDenial(r) ==
    /\ r.key[1] = "denials"
    /\ r = [key |-> r.key, rev |-> r.rev, run |-> r.run, process |-> r.process, count |-> r.count]

Typed(r) ==
    /\ IsSession(r) \/ IsRun(r) \/ IsProcess(r) \/ IsDenial(r)
    /\ r.key = <<r.key[1], r.key[2]>> /\ r.key[2] \in Nat

RunIds == Ids(In(rows, "runs"))

ProcessIds == Ids(In(rows, "processes"))

\* The sessions by id and name, each with one of its own.
Sessions == {<<Id(s), s.name>> : s \in In(rows, "sessions")}
SessionIds(N) == {x[1] : x \in N}
OneName(N) == \A x, y \in N : x[1] = y[1] \/ x[2] = y[2] => x = y

\* The rows of a table are numbered without a gap, and there is one of each number.
Numbered(t) ==
    /\ \E n \in Nat : Ids(In(rows, t)) = 1..n
    /\ \A a, b \in In(rows, t) : a.key = b.key => a = b

\* A run has the profile it was given or an error, and the session of its launcher, one of N; it can be
\* without a session only if it is without a profile or an agent.
RunOK(r, N) ==
    /\ r.by \in Launcher /\ IsList(r.env)
    /\ (r.text = Given(r) /\ ~r.err) \/ (r.text = <<>> /\ r.err)
    /\ r.session # NULL => <<r.session, Owner(r.by)>> \in N
    /\ r.session = NULL => r.text = <<>> \/ Owner(r.by) = NULL

\* A row with a revision.
LEMMA Stamped ==
    ASSUME NEW r, Typed(r), NEW n
    PROVE  LET s == [r EXCEPT !.rev = n]
           IN  /\ Typed(s) /\ s.key = r.key /\ s.rev = n
               /\ r.key[1] = "runs" => s.session = r.session /\ \A N : RunOK(r, N) => RunOK(s, N)
               /\ r.key[1] = "processes" => s.run = r.run
               /\ r.key[1] = "denials" => s.process = r.process
               /\ r.key[1] = "sessions" => s.name = r.name
<1> DEFINE s == [r EXCEPT !.rev = n]
<1>1. CASE IsSession(r)
  <2>1. r = [key |-> r.key, rev |-> r.rev, name |-> r.name]
    BY <1>1 DEF IsSession
  <2>2. s.key = r.key /\ s.rev = n /\ s.name = r.name /\ s = [key |-> r.key, rev |-> n, name |-> r.name]
    BY <2>1
  <2> HIDE DEF s
  <2>3. s = [key |-> s.key, rev |-> s.rev, name |-> s.name]
    BY <2>2
  <2>4. s.key[1] = "sessions" /\ s.name \in Names
    BY <1>1, <2>2 DEF IsSession
  <2> QED BY <1>1, <2>2, <2>3, <2>4 DEF IsSession, Typed
<1>2. CASE IsRun(r)
  <2>1. /\ s.key = r.key /\ s.rev = n /\ s.session = r.session
        /\ s = [key |-> r.key, rev |-> n, session |-> r.session, parent |-> r.parent, text |-> r.text,
                err |-> r.err, status |-> r.status, env |-> r.env, by |-> r.by, how |-> r.how]
    BY <1>2 DEF IsRun
  <2> HIDE DEF s
  <2>2. IsRun(s)
    BY <1>2, <2>1 DEF IsRun
  <2>3. s.by = r.by /\ s.env = r.env /\ s.text = r.text /\ s.err = r.err /\ s.how = r.how
    BY <2>1
  <2>4. Given(s) = Given(r)
    BY <2>3 DEF Given
  <2>5. \A N : RunOK(r, N) => RunOK(s, N)
    BY <2>1, <2>3, <2>4 DEF RunOK
  <2> QED BY <1>2, <2>1, <2>2, <2>5 DEF IsRun, Typed
<1>3. CASE IsProcess(r)
  <2>1. /\ s.key = r.key /\ s.rev = n /\ s.run = r.run
        /\ s = [key |-> r.key, rev |-> n, run |-> r.run, parent |-> r.parent, prev |-> r.prev,
                platform |-> r.platform, end |-> r.end]
    BY <1>3 DEF IsProcess
  <2> HIDE DEF s
  <2> QED BY <1>3, <2>1 DEF IsProcess, Typed
<1>4. CASE IsDenial(r)
  <2>1. /\ s.key = r.key /\ s.rev = n /\ s.process = r.process
        /\ s = [key |-> r.key, rev |-> n, run |-> r.run, process |-> r.process, count |-> r.count]
    BY <1>4 DEF IsDenial
  <2> HIDE DEF s
  <2> QED BY <1>4, <2>1 DEF IsDenial, Typed
<1> HIDE DEF s
<1> QED BY <1>1, <1>2, <1>3, <1>4 DEF Typed

EndpointOK ==
    /\ scenario \in Scenarios
    /\ IsFiniteSet(rows) /\ \A r \in rows : Typed(r)
    /\ Numbered("runs") /\ Numbered("sessions") /\ Numbered("processes") /\ Numbered("denials")
    /\ \A a, b \in In(rows, "sessions") : a.name = b.name => a = b
    /\ \A r \in In(rows, "runs") : RunOK(r, Sessions)
    /\ \A p \in In(rows, "processes") : p.run \in RunIds
    /\ \A d \in In(rows, "denials") : d.process \in ProcessIds

\* What the mirror says of a run's session and of a session's name is still so.
MirrorOK ==
    /\ \A m \in mirror : Typed(m)
    /\ \A a, b \in mirror : a.key = b.key => a = b
    /\ \A m \in In(mirror, "sessions") : <<Id(m), m.name>> \in Sessions
    /\ \A m \in In(mirror, "runs") : Id(m) \in RunIds /\ RunOK(m, Sessions)
    /\ \A m \in In(mirror, "runs"), r \in In(rows, "runs") : m.key = r.key /\ m.session # NULL => r.session = m.session

DataInv == EndpointOK /\ MirrorOK

\* The rows up to the cursor have arrived as they are, and nothing that is not there.
Synced ==
    /\ counter \in Nat /\ cursor \in Nat
    /\ \A r \in rows : r.rev \in 1..counter
    /\ \A a, b \in rows : a.rev = b.rev => a = b
    /\ \A r \in rows : r.rev <= cursor => r \in mirror
    /\ cursor <= counter
    /\ \A m \in mirror : \E r \in rows : m.key = r.key

\* The next id is new.
LEMMA Count ==
    ASSUME DataInv, NEW t, Numbered(t)
    PROVE  /\ Cardinality(In(rows, t)) \in Nat
           /\ Ids(In(rows, t)) = 1..Cardinality(In(rows, t))
           /\ NextId(t) \in Nat /\ NextId(t) \notin Ids(In(rows, t))
           /\ Ids(In(rows, t)) \cup {NextId(t)} = 1..NextId(t)
<1> DEFINE R == In(rows, t)
           I == Ids(R)
           f == [r \in R |-> Id(r)]
<1>1. PICK n \in Nat : I = 1..n
  BY DEF Numbered
<1>2. IsFiniteSet(R) /\ Cardinality(R) \in Nat
  <2>1. R \in SUBSET rows
    BY DEF In
  <2> QED BY <2>1, FS_Subset, FS_CardinalityType DEF DataInv, EndpointOK
<1>3. f \in Bijection(R, I)
  <2>1. f \in [R -> I]
    BY DEF Ids
  <2>2. ASSUME NEW a \in R, NEW b \in R, f[a] = f[b] PROVE a = b
    <3>1. a.key = <<t, Id(a)>> /\ b.key = <<t, Id(b)>>
      BY DEF DataInv, EndpointOK, In, Typed, Id
    <3> QED BY <2>2, <3>1 DEF Numbered
  <2>3. ASSUME NEW x \in I PROVE \E a \in R : f[a] = x
    BY DEF Ids
  <2> HIDE DEF f, R, I
  <2> QED BY <2>1, <2>2, <2>3 DEF Bijection, Injection, Surjection, IsInjective
<1>4. Cardinality(R) = Cardinality(I)
  <2> HIDE DEF f, R, I
  <2> QED BY <1>2, <1>3, FS_Bijection DEF ExistsBijection
<1>5. Cardinality(I) = n
  BY <1>1, FS_Interval
<1>6. I = 1..Cardinality(R)
  BY <1>1, <1>4, <1>5
<1>7. NextId(t) = Cardinality(R) + 1
  BY DEF NextId
<1> HIDE DEF R, f, I
<1>8. NextId(t) \in Nat /\ NextId(t) \notin I /\ I \cup {NextId(t)} = 1..NextId(t)
  BY <1>2, <1>6, <1>7
<1> QED BY <1>2, <1>6, <1>8 DEF R, I

\* The next id is a number.
LEMMA NextIdNat ==
    ASSUME DataInv, NEW t
    PROVE  NextId(t) \in Nat
<1>1. In(rows, t) \in SUBSET rows
  BY DEF In
<1>2. Cardinality(In(rows, t)) \in Nat
  BY <1>1, FS_Subset, FS_CardinalityType DEF DataInv, EndpointOK
<1> QED BY <1>2 DEF NextId

\* A row that may be written when the runs I and the sessions N are there, a run that is there with the
\* session it has.
Good(r, I, N) ==
    /\ Typed(r)
    /\ r.key[1] = "runs" =>
          /\ Id(r) \in I /\ RunOK(r, N)
          /\ \A q \in In(rows, "runs") : q.key = r.key /\ q.session # NULL => r.session = q.session
    /\ r.key[1] = "processes" => r.run \in I
    /\ r.key[1] = "sessions" => <<Id(r), r.name>> \in N
    /\ r.key[1] = "denials" => r.process \in ProcessIds
    /\ r.key[1] \in {"processes", "denials"} => Id(r) \in Ids(In(rows, r.key[1])) \cup {NextId(r.key[1])}

\* What one call of the correlator writes.
Writes(s, I, N) ==
    /\ IsList(s)
    /\ \A i \in DOMAIN s : Good(s[i], I, N)
    /\ \A i, j \in DOMAIN s : s[i].key = s[j].key => i = j

\* I and N are the runs and sessions after s is written.
Fits(s, I, N) ==
    /\ Writes(s, I, N)
    /\ RunIds \subseteq I /\ Sessions \subseteq N
    /\ \E k \in Nat : I = 1..k
    /\ \E k \in Nat : SessionIds(N) = 1..k
    /\ OneName(N)
    /\ \A id \in I \ RunIds : \E i \in DOMAIN s : s[i].key = <<"runs", id>>
    /\ \A x \in N \ Sessions : \E i \in DOMAIN s : s[i].key = <<"sessions", x[1]>>

\* A call that writes one good row, or none.
LEMMA WritesOne ==
    ASSUME NEW r, NEW I, NEW N, Good(r, I, N)
    PROVE  Writes(<<r>>, I, N)
<1> DEFINE s == <<r>>
<1>1. IsList(s) /\ Len(s) = 1 /\ s[1] = r
  BY ListOne
<1> HIDE DEF s
<1>2. DOMAIN s = 1..1
  BY <1>1, ListFields
<1>3. \A i \in DOMAIN s : i = 1
  BY <1>2
<1>4. Writes(s, I, N)
  BY <1>1, <1>3 DEF Writes
<1> QED BY <1>4 DEF s

LEMMA WritesNone == ASSUME NEW I, NEW N PROVE Writes(<<>>, I, N)
<1> DEFINE s == <<>>
<1>1. IsList(s) /\ Len(s) = 0
  BY ListNone
<1> HIDE DEF s
<1>2. DOMAIN s = {}
  BY <1>1, ListFields
<1>3. Writes(s, I, N)
  BY <1>1, <1>2 DEF Writes
<1> QED BY <1>3 DEF s

Keys(s) == {s[i].key : i \in DOMAIN s}

\* Two calls in one, if they do not write the same row.
LEMMA Both ==
    ASSUME NEW s, NEW t, NEW I, NEW N, Writes(s, I, N), Writes(t, I, N),
           Keys(s) \cap Keys(t) = {}
    PROVE  Writes(s \o t, I, N) /\ Keys(s \o t) = Keys(s) \cup Keys(t)
<1> DEFINE u == s \o t
           m == Len(s)
           n == Len(t)
<1>1. m \in Nat /\ DOMAIN s = 1..m /\ n \in Nat /\ DOMAIN t = 1..n
  BY ListFields DEF Writes
<1>2. IsList(u) /\ Len(u) = m + n /\ \A i \in 1..(m + n) : u[i] = IF i <= m THEN s[i] ELSE t[i - m]
  BY ListConcat DEF Writes
<1>3. DOMAIN u = 1..(m + n)
  BY <1>2, ListFields
<1> HIDE DEF u, m, n
<1>4. ASSUME NEW i \in DOMAIN s PROVE i \in DOMAIN u /\ u[i] = s[i]
  BY <1>1, <1>2, <1>3
<1>5. ASSUME NEW i \in DOMAIN t PROVE i + m \in DOMAIN u /\ u[i + m] = t[i]
  BY <1>1, <1>2, <1>3
<1>6. ASSUME NEW i \in DOMAIN u
      PROVE  \/ i \in DOMAIN s /\ u[i] = s[i]
             \/ i - m \in DOMAIN t /\ u[i] = t[i - m]
  BY <1>1, <1>2, <1>3
<1>7. \A i \in DOMAIN u : Good(u[i], I, N)
  BY <1>6 DEF Writes
<1>8. ASSUME NEW i \in DOMAIN u, NEW j \in DOMAIN u, u[i].key = u[j].key PROVE i = j
  <2>1. CASE i \in DOMAIN s /\ u[i] = s[i] /\ j \in DOMAIN s /\ u[j] = s[j]
    BY <1>8, <2>1 DEF Writes
  <2>2. CASE i \in DOMAIN s /\ u[i] = s[i] /\ j - m \in DOMAIN t /\ u[j] = t[j - m]
    BY <1>8, <2>2 DEF Keys
  <2>3. CASE i - m \in DOMAIN t /\ u[i] = t[i - m] /\ j \in DOMAIN s /\ u[j] = s[j]
    BY <1>8, <2>3 DEF Keys
  <2>4. CASE i - m \in DOMAIN t /\ u[i] = t[i - m] /\ j - m \in DOMAIN t /\ u[j] = t[j - m]
    <3>1. i - m = j - m
      BY <1>8, <2>4 DEF Writes
    <3> QED BY <1>1, <1>3, <3>1
  <2> QED BY <1>6, <2>1, <2>2, <2>3, <2>4
<1>9. Writes(u, I, N)
  BY <1>2, <1>7, <1>8 DEF Writes
<1>10. Keys(u) \subseteq Keys(s) \cup Keys(t)
  BY <1>6 DEF Keys
<1>11. Keys(s) \subseteq Keys(u)
  <2>1. ASSUME NEW i \in DOMAIN s PROVE s[i].key \in Keys(u)
    BY <1>4 DEF Keys
  <2> QED BY <2>1 DEF Keys
<1>12. Keys(t) \subseteq Keys(u)
  <2>1. ASSUME NEW i \in DOMAIN t PROVE t[i].key \in Keys(u)
    <3>1. i + m \in DOMAIN u /\ u[i + m] = t[i]
      BY <1>5
    <3>2. u[i + m].key \in Keys(u)
      BY <3>1 DEF Keys
    <3> QED BY <3>1, <3>2
  <2> QED BY <2>1 DEF Keys
<1> QED BY <1>9, <1>10, <1>11, <1>12 DEF u

\* The ids of the sessions, each with one name.
LEMMA SessionsFields ==
    ASSUME DataInv
    PROVE  /\ SessionIds(Sessions) = Ids(In(rows, "sessions"))
           /\ OneName(Sessions)
<1>1. SessionIds(Sessions) = Ids(In(rows, "sessions"))
  <2>1. ASSUME NEW s \in In(rows, "sessions") PROVE Id(s) \in SessionIds(Sessions)
    <3>1. <<Id(s), s.name>> \in Sessions
      BY DEF Sessions
    <3>2. <<Id(s), s.name>>[1] \in SessionIds(Sessions)
      BY <3>1 DEF SessionIds
    <3> QED BY <3>2
  <2>2. ASSUME NEW x \in Sessions PROVE x[1] \in Ids(In(rows, "sessions"))
    BY DEF Sessions, Ids
  <2> QED BY <2>1, <2>2 DEF SessionIds, Ids
<1>2. ASSUME NEW x \in Sessions, NEW y \in Sessions, x[1] = y[1] \/ x[2] = y[2] PROVE x = y
  <2>1. PICK a \in In(rows, "sessions") : x = <<Id(a), a.name>>
    BY DEF Sessions
  <2>2. PICK b \in In(rows, "sessions") : y = <<Id(b), b.name>>
    BY DEF Sessions
  <2>3. a.key = b.key \/ a.name = b.name
    BY <1>2, <2>1, <2>2 DEF DataInv, EndpointOK, In, Typed, Id
  <2>4. a = b
    BY <2>3 DEF DataInv, EndpointOK, Numbered
  <2> QED BY <2>1, <2>2, <2>4
<1> QED BY <1>1, <1>2 DEF OneName

\* A call that writes no new run or session.
LEMMA FitsSame ==
    ASSUME DataInv, NEW s, Writes(s, RunIds, Sessions)
    PROVE  Fits(s, RunIds, Sessions)
<1>1. \E k \in Nat : RunIds = 1..k
  BY DEF DataInv, EndpointOK, Numbered, RunIds
<1>2. \E k \in Nat : SessionIds(Sessions) = 1..k
  BY SessionsFields DEF DataInv, EndpointOK, Numbered
<1> QED BY <1>1, <1>2, SessionsFields DEF Fits

\* What a call leaves behind.
Committed == DataInv' /\ (Synced => Synced') /\ Sessions \subseteq Sessions' /\ UNCHANGED <<mirror, page>>

\* There is one row of each key.
LEMMA SameKey ==
    ASSUME DataInv, NEW a \in rows, NEW b \in rows, a.key = b.key
    PROVE  a = b
<1>1. a.key[1] \in {"runs", "sessions", "processes", "denials"}
  BY DEF DataInv, EndpointOK, Typed, IsSession, IsRun, IsProcess, IsDenial
<1>2. a \in In(rows, a.key[1]) /\ b \in In(rows, a.key[1])
  BY DEF In
<1>3. Numbered(a.key[1])
  BY <1>1 DEF DataInv, EndpointOK
<1> QED BY <1>2, <1>3 DEF Numbered

\* What is written gets revisions past the counter, and so past the cursor.
LEMMA CommitSynced ==
    ASSUME DataInv, Synced, NEW s, NEW I, NEW N, Writes(s, I, N), Commit(s)
    PROVE  Synced'
<1> DEFINE old == {r \in rows : \A i \in DOMAIN s : r.key # s[i].key}
           w(i) == [s[i] EXCEPT !.rev = counter + i]
           n == Len(s)
<1>1. /\ rows' = old \cup {w(i) : i \in DOMAIN s} /\ mirror' = mirror /\ cursor' = cursor
      /\ counter' = counter + n
  BY DEF Commit
<1>2. n \in Nat /\ DOMAIN s = 1..n
  BY ListFields DEF Writes
<1>3. ASSUME NEW i \in DOMAIN s PROVE w(i).key = s[i].key /\ w(i).rev = counter + i
  <2>1. Typed(s[i])
    BY DEF Writes, Good
  <2> QED BY <2>1, Stamped
<1> HIDE DEF w, n
<1>4. counter \in Nat /\ cursor \in Nat /\ cursor <= counter /\ \A r \in old : r.rev \in 1..counter
  BY DEF Synced
<1>5. ASSUME NEW r \in rows' PROVE r.rev \in 1..counter'
  <2>1. CASE r \in old
    BY <1>1, <1>2, <1>4, <2>1
  <2>2. CASE \E i \in DOMAIN s : r = w(i)
    BY <1>1, <1>2, <1>3, <1>4, <2>2
  <2> QED BY <1>1, <2>1, <2>2
<1>6. ASSUME NEW a \in rows', NEW b \in rows', a.rev = b.rev PROVE a = b
  <2>1. CASE a \in old /\ b \in old
    BY <1>6, <2>1 DEF Synced
  <2>2. CASE a \in old /\ \E i \in DOMAIN s : b = w(i)
    BY <1>2, <1>3, <1>4, <1>6, <2>2
  <2>3. CASE b \in old /\ \E i \in DOMAIN s : a = w(i)
    BY <1>2, <1>3, <1>4, <1>6, <2>3
  <2>4. CASE (\E i \in DOMAIN s : a = w(i)) /\ (\E i \in DOMAIN s : b = w(i))
    <3>1. PICK i \in DOMAIN s : a = w(i)
      BY <2>4
    <3>2. PICK j \in DOMAIN s : b = w(j)
      BY <2>4
    <3>3. i = j
      BY <1>2, <1>3, <1>4, <1>6, <3>1, <3>2
    <3> QED BY <3>1, <3>2, <3>3
  <2> QED BY <1>1, <2>1, <2>2, <2>3, <2>4
<1>7. ASSUME NEW r \in rows', r.rev <= cursor PROVE r \in mirror
  <2>1. r \in old
    BY <1>1, <1>2, <1>3, <1>4, <1>7
  <2> QED BY <1>7, <2>1 DEF Synced
<1>8. ASSUME NEW m \in mirror PROVE \E r \in rows' : m.key = r.key
  <2>1. PICK r \in rows : m.key = r.key
    BY DEF Synced
  <2>2. CASE r \in old
    BY <1>1, <2>1, <2>2
  <2>3. CASE r \notin old
    BY <1>1, <1>3, <2>1, <2>3
  <2> QED BY <2>2, <2>3
<1>9. counter' \in Nat /\ cursor <= counter'
  BY <1>1, <1>2, <1>4
<1> HIDE DEF old
<1> QED BY <1>1, <1>4, <1>5, <1>6, <1>7, <1>8, <1>9 DEF Synced

\* A commit of what may be written leaves everything as it should be.
LEMMA CommitInv ==
    ASSUME DataInv, NEW s, NEW I, NEW N, Fits(s, I, N), Commit(s)
    PROVE  Committed
<1>0. Synced => Synced'
  BY CommitSynced DEF Fits
<1> DEFINE old == {r \in rows : \A i \in DOMAIN s : r.key # s[i].key}
           w(i) == [s[i] EXCEPT !.rev = counter + i]
<1>1. rows' = old \cup {w(i) : i \in DOMAIN s} /\ mirror' = mirror /\ scenario' = scenario /\ page' = page
  BY DEF Commit
<1>2. ASSUME NEW i \in DOMAIN s
      PROVE  /\ Good(s[i], I, N) /\ Typed(w(i)) /\ w(i).key = s[i].key
             /\ s[i].key[1] = "runs" => w(i).session = s[i].session /\ (RunOK(s[i], N) => RunOK(w(i), N))
             /\ s[i].key[1] = "processes" => w(i).run = s[i].run
             /\ s[i].key[1] = "denials" => w(i).process = s[i].process
             /\ s[i].key[1] = "sessions" => w(i).name = s[i].name
  <2>1. Good(s[i], I, N) /\ Typed(s[i])
    BY DEF Fits, Writes, Good
  <2> QED BY <2>1, Stamped
<1> HIDE DEF w
<1>3. IsFiniteSet(rows')
  <2>1. IsFiniteSet(old)
    <3>1. old \in SUBSET rows
      OBVIOUS
    <3> QED BY <3>1, FS_Subset DEF DataInv, EndpointOK
  <2>2. IsFiniteSet({w(i) : i \in DOMAIN s})
    <3>1. IsFiniteSet(DOMAIN s)
      <4>1. Len(s) \in Nat /\ DOMAIN s = 1..Len(s)
        BY ListFields DEF Fits, Writes
      <4> QED BY <4>1, FS_Interval
    <3> DEFINE T == {w(i) : i \in DOMAIN s}
               f == [i \in DOMAIN s |-> w(i)]
    <3>2. f \in Surjection(DOMAIN s, T)
      BY DEF Surjection
    <3> HIDE DEF f, T
    <3>3. IsFiniteSet(T)
      BY <3>1, <3>2, FS_Surjection
    <3> QED BY <3>3 DEF T
  <2> QED BY <1>1, <2>1, <2>2, FS_Union
<1>4. \A r \in rows' : Typed(r)
  BY <1>1, <1>2 DEF DataInv, EndpointOK
<1>5. RunIds' = I
  <2>1. ASSUME NEW r \in rows', r.key[1] = "runs" PROVE r.key[2] \in I
    <3>1. CASE r \in old
      BY <2>1, <3>1 DEF Fits, RunIds, Ids, Id, In
    <3>2. CASE \E i \in DOMAIN s : r = w(i)
      BY <1>2, <2>1, <3>2 DEF Good, Id
    <3> QED BY <1>1, <3>1, <3>2
  <2>2. ASSUME NEW id \in I PROVE \E r \in rows' : r.key[1] = "runs" /\ r.key[2] = id
    <3>1. CASE \E i \in DOMAIN s : s[i].key = <<"runs", id>>
      BY <1>1, <1>2, <3>1
    <3>2. CASE \A i \in DOMAIN s : s[i].key # <<"runs", id>>
      <4>1. id \in RunIds
        BY <3>2 DEF Fits
      <4>2. PICK r \in rows : r.key[1] = "runs" /\ r.key[2] = id
        BY <4>1 DEF RunIds, Ids, Id, In
      <4>3. r.key = <<"runs", id>>
        BY <4>2 DEF DataInv, EndpointOK, Typed
      <4>4. r \in old
        BY <3>2, <4>3
      <4> QED BY <1>1, <4>2, <4>4
    <3> QED BY <3>1, <3>2
  <2> QED BY <2>1, <2>2 DEF RunIds, Ids, Id, In
<1>6. Sessions' = N
  <2>1. ASSUME NEW r \in rows', r.key[1] = "sessions" PROVE <<Id(r), r.name>> \in N
    <3>1. CASE r \in old
      BY <2>1, <3>1 DEF Fits, Sessions, In
    <3>2. CASE \E i \in DOMAIN s : r = w(i)
      BY <1>2, <2>1, <3>2 DEF Good, Id
    <3> QED BY <1>1, <3>1, <3>2
  <2>2. ASSUME NEW x \in N PROVE \E r \in rows' : r.key[1] = "sessions" /\ x = <<Id(r), r.name>>
    <3>1. CASE \E i \in DOMAIN s : s[i].key = <<"sessions", x[1]>>
      <4>1. PICK i \in DOMAIN s : s[i].key = <<"sessions", x[1]>>
        BY <3>1
      <4>2. <<x[1], s[i].name>> \in N
        BY <1>2, <4>1 DEF Good, Id
      <4>3. x = <<x[1], s[i].name>>
        BY <4>2 DEF Fits, OneName
      <4>4. w(i) \in rows' /\ w(i).key = <<"sessions", x[1]>> /\ w(i).name = s[i].name
        BY <1>1, <1>2, <4>1
      <4> QED BY <4>3, <4>4 DEF Id
    <3>2. CASE \A i \in DOMAIN s : s[i].key # <<"sessions", x[1]>>
      <4>1. x \in Sessions
        BY <3>2 DEF Fits
      <4>2. PICK r \in rows : r.key[1] = "sessions" /\ x = <<Id(r), r.name>>
        BY <4>1 DEF Sessions, In
      <4>3. r.key = <<"sessions", x[1]>>
        BY <4>2 DEF DataInv, EndpointOK, Typed, Id
      <4>4. r \in old
        BY <3>2, <4>3
      <4> QED BY <1>1, <4>2, <4>4
    <3> QED BY <3>1, <3>2
  <2> QED BY <2>1, <2>2 DEF Sessions, In, Id
<1>7. ASSUME NEW a \in rows', NEW b \in rows', a.key = b.key PROVE a = b
  <2>1. CASE a \in old /\ b \in old
    <3>1. a \in rows /\ b \in rows
      BY <2>1
    <3> HIDE DEF old
    <3> QED BY <1>7, <3>1, SameKey
  <2>2. CASE a \in old /\ \E i \in DOMAIN s : b = w(i)
    BY <1>2, <1>7, <2>2
  <2>3. CASE b \in old /\ \E i \in DOMAIN s : a = w(i)
    BY <1>2, <1>7, <2>3
  <2>4. CASE (\E i \in DOMAIN s : a = w(i)) /\ (\E i \in DOMAIN s : b = w(i))
    <3>1. PICK i \in DOMAIN s : a = w(i)
      BY <2>4
    <3>2. PICK j \in DOMAIN s : b = w(j)
      BY <2>4
    <3>3. i = j
      BY <1>2, <1>7, <3>1, <3>2 DEF Fits, Writes
    <3> QED BY <3>1, <3>2, <3>3
  <2> QED BY <1>1, <2>1, <2>2, <2>3, <2>4
<1>8. ASSUME NEW p \in rows', p.key[1] = "processes" PROVE p.run \in I
  <2>1. CASE p \in old
    BY <1>8, <2>1 DEF DataInv, EndpointOK, In, Fits
  <2>2. CASE \E i \in DOMAIN s : p = w(i)
    BY <1>2, <1>8, <2>2 DEF Good
  <2> QED BY <1>1, <2>1, <2>2
<1>9. ASSUME NEW r, RunOK(r, Sessions) PROVE RunOK(r, N)
  BY <1>9 DEF RunOK, Fits
<1>10. ASSUME NEW r \in rows', r.key[1] = "runs" PROVE RunOK(r, N)
  <2>1. CASE r \in old
    BY <1>9, <1>10, <2>1 DEF DataInv, EndpointOK, In
  <2>2. CASE \E i \in DOMAIN s : r = w(i)
    BY <1>2, <1>10, <2>2 DEF Good
  <2> QED BY <1>1, <2>1, <2>2
<1>11. ASSUME NEW m \in mirror, NEW r \in rows', m.key[1] = "runs", m.key = r.key, m.session # NULL
      PROVE  r.session = m.session
  <2>1. m \in In(mirror, "runs")
    BY <1>11 DEF In
  <2>2. CASE r \in old
    BY <1>11, <2>2 DEF DataInv, MirrorOK, In
  <2>3. CASE \E i \in DOMAIN s : r = w(i)
    <3>1. PICK i \in DOMAIN s : r = w(i)
      BY <2>3
    <3>2. PICK q \in In(rows, "runs") : Id(q) = Id(m)
      BY <2>1 DEF DataInv, MirrorOK, RunIds, Ids
    <3>3. q.key = m.key
      BY <1>11, <3>2 DEF DataInv, EndpointOK, MirrorOK, In, Typed, Id
    <3>4. q.session = m.session
      BY <1>11, <2>1, <3>3 DEF DataInv, MirrorOK
    <3>5. s[i].key = q.key /\ s[i].key[1] = "runs" /\ r.session = s[i].session
      BY <1>2, <1>11, <3>1, <3>3
    <3> QED BY <1>2, <1>11, <3>4, <3>5 DEF Good
  <2> QED BY <1>1, <2>2, <2>3
<1>15. ASSUME NEW t \in {"processes", "denials"}
      PROVE  /\ Ids(In(rows, t)) \subseteq Ids(In(rows, t))'
             /\ \E k \in Nat : Ids(In(rows, t))' = 1..k
  <2>1. /\ NextId(t) \in Nat /\ Ids(In(rows, t)) \cup {NextId(t)} = 1..NextId(t)
        /\ Cardinality(In(rows, t)) \in Nat
        /\ Ids(In(rows, t)) = 1..Cardinality(In(rows, t))
    <3>1. Numbered(t)
      BY DEF DataInv, EndpointOK
    <3> QED BY <3>1, Count
  <2>2. ASSUME NEW id \in Ids(In(rows, t)) PROVE id \in Ids(In(rows, t))'
    <3>1. PICK r \in rows : r.key[1] = t /\ Id(r) = id
      BY DEF Ids, In
    <3>2. CASE r \in old
      BY <1>1, <3>1, <3>2 DEF Ids, In
    <3>3. CASE r \notin old
      <4>1. PICK i \in DOMAIN s : r.key = s[i].key
        BY <3>3
      <4>2. w(i) \in rows' /\ w(i).key = r.key
        BY <1>1, <1>2, <4>1
      <4> QED BY <3>1, <4>2 DEF Ids, In, Id
    <3> QED BY <3>2, <3>3
  <2>3. ASSUME NEW r \in rows', r.key[1] = t PROVE Id(r) \in Ids(In(rows, t)) \cup {NextId(t)}
    <3>1. CASE r \in old
      BY <2>3, <3>1 DEF Ids, In
    <3>2. CASE \E i \in DOMAIN s : r = w(i)
      <4>1. PICK i \in DOMAIN s : r = w(i)
        BY <3>2
      <4>2. Good(s[i], I, N) /\ r.key = s[i].key /\ s[i].key[1] = t
        BY <1>2, <2>3, <4>1
      <4> QED BY <4>2 DEF Good, Id
    <3> QED BY <1>1, <3>1, <3>2
  <2>4. Ids(In(rows, t))' \subseteq Ids(In(rows, t)) \cup {NextId(t)}
    BY <2>3 DEF Ids, In
  <2>5. CASE NextId(t) \in Ids(In(rows, t))'
    <3>1. Ids(In(rows, t))' = 1..NextId(t)
      BY <2>1, <2>2, <2>4, <2>5
    <3> QED BY <2>1, <2>2, <3>1
  <2>6. CASE NextId(t) \notin Ids(In(rows, t))'
    <3>1. Ids(In(rows, t))' = Ids(In(rows, t))
      BY <2>2, <2>4, <2>6
    <3> QED BY <2>1, <3>1
  <2> QED BY <2>5, <2>6
<1>16. ProcessIds \subseteq ProcessIds'
  BY <1>15 DEF ProcessIds
<1>17. ASSUME NEW d \in rows', d.key[1] = "denials" PROVE d.process \in ProcessIds
  <2>1. CASE d \in old
    BY <1>17, <2>1 DEF DataInv, EndpointOK, In
  <2>2. CASE \E i \in DOMAIN s : d = w(i)
    BY <1>2, <1>17, <2>2 DEF Good
  <2> QED BY <1>1, <2>1, <2>2
<1>18. ASSUME NEW a \in In(rows, "sessions")', NEW b \in In(rows, "sessions")', a.name = b.name PROVE a = b
  <2>1. <<Id(a), a.name>> \in N /\ <<Id(b), b.name>> \in N
    BY <1>6 DEF Sessions
  <2>2. <<Id(a), a.name>>[2] = a.name /\ <<Id(b), b.name>>[2] = b.name
    OBVIOUS
  <2>3. <<Id(a), a.name>> = <<Id(b), b.name>>
    BY <1>18, <2>1, <2>2 DEF Fits, OneName
  <2>4. a \in rows' /\ b \in rows' /\ a.key[1] = "sessions" /\ b.key[1] = "sessions" /\ Id(a) = Id(b)
    BY <2>3 DEF In
  <2>5. a.key = b.key
    BY <1>4, <2>4 DEF Typed, Id
  <2> QED BY <1>7, <2>4, <2>5
<1> HIDE DEF old
<1>12. Numbered("runs")' /\ Numbered("sessions")' /\ Numbered("processes")' /\ Numbered("denials")'
  <2>1. \E k \in Nat : RunIds' = 1..k
    BY <1>5 DEF Fits
  <2>2. Ids(In(rows, "sessions"))' = SessionIds(N)
    <3>1. ASSUME NEW s1 \in In(rows, "sessions")' PROVE Id(s1) \in SessionIds(N)
      <4>1. <<Id(s1), s1.name>> \in N
        BY <1>6 DEF Sessions
      <4>2. <<Id(s1), s1.name>>[1] \in SessionIds(N)
        BY <4>1 DEF SessionIds
      <4> QED BY <4>2
    <3>2. ASSUME NEW x \in N PROVE x[1] \in Ids(In(rows, "sessions"))'
      BY <1>6 DEF Sessions, Ids
    <3> QED BY <3>1, <3>2 DEF SessionIds, Ids
  <2>3. \E k \in Nat : Ids(In(rows, "sessions"))' = 1..k
    BY <2>2 DEF Fits
  <2>4. \A t : \A a, b \in In(rows, t)' : a.key = b.key => a = b
    BY <1>7 DEF In
  <2>5. (\E k \in Nat : Ids(In(rows, "processes"))' = 1..k) /\ \E k \in Nat : Ids(In(rows, "denials"))' = 1..k
    BY <1>15
  <2> QED BY <2>1, <2>3, <2>4, <2>5 DEF Numbered, RunIds
<1>13. EndpointOK'
  <2>1. \A d \in In(rows, "denials")' : d.process \in ProcessIds'
    BY <1>16, <1>17 DEF In
  <2> QED BY <1>1, <1>3, <1>4, <1>5, <1>6, <1>8, <1>10, <1>12, <1>18, <2>1 DEF DataInv, EndpointOK, In
<1>14. MirrorOK'
  <2>1. \A m \in In(mirror, "sessions") : <<Id(m), m.name>> \in N
    BY DEF DataInv, MirrorOK, Fits
  <2>2. \A m \in In(mirror, "runs") : Id(m) \in I /\ RunOK(m, N)
    BY <1>9 DEF DataInv, MirrorOK, Fits
  <2>3. /\ In(mirror, "runs")' = In(mirror, "runs") /\ In(mirror, "sessions")' = In(mirror, "sessions")
    BY <1>1 DEF In
  <2>4. \A m \in In(mirror, "runs"), r \in In(rows, "runs")' : m.key = r.key /\ m.session # NULL => r.session = m.session
    BY <1>11 DEF In
  <2> QED BY <1>1, <1>5, <1>6, <2>1, <2>2, <2>3, <2>4 DEF DataInv, MirrorOK
<1> QED BY <1>0, <1>1, <1>6, <1>13, <1>14 DEF DataInv, Fits, Committed

-----------------------------------------------------------------------------
(* What a launch is recorded with *)

\* A word after an option that waits for its value is that value.
LEMMA StepValue ==
    ASSUME NEW st, NEW word, st.waiting # NULL
    PROVE  Step(st, word) = [st EXCEPT !.spec = Applied(@, st.waiting, word), !.waiting = NULL]
BY Zenon DEF Step

\* A command line of a profile option and its value in the next word, and a command.
LEMMA ParseSimple ==
    ASSUME NEW opt \in {"f", "p"}, NEW v
    PROVE  LET spec == ParseArgs(<< <<"x">>, <<"-", opt>>, v, <<"c">> >>)
           IN  spec.source = SourceOf[opt] /\ spec.value = v /\ spec.err = FALSE
<1> DEFINE argv == << <<"x">>, <<"-", opt>>, v, <<"c">> >>
           word == <<"-", opt>>
           flags == SubSeq(word, 2, 1)
           spec1 == [NoSpec EXCEPT !.extra = @ \o [i \in DOMAIN flags |-> <<"-", flags[i]>>]]
           st1 == [Start EXCEPT !.spec = spec1, !.waiting = opt]
           spec2 == [spec1 EXCEPT !.source = SourceOf[opt], !.value = v]
           st2 == [st1 EXCEPT !.spec = spec2, !.waiting = NULL]
           spec3 == [spec2 EXCEPT !.command = << <<"c">> >>]
           st3 == [st2 EXCEPT !.options = FALSE, !.spec = spec3]
<1>1. opt # NULL /\ opt \in WithValue /\ opt \in DOMAIN SourceOf /\ opt # "D" /\ opt # "-"
      /\ SourceOf[opt] \in {"file", "inline"}
  <2>1. opt # NULL
    BY SymbolAssumption DEF Symbol
  <2>2. opt \in DOMAIN SourceOf /\ SourceOf[opt] \in {"file", "inline"}
    <3>1. CASE opt = "f"
      BY <3>1 DEF SourceOf
    <3>2. CASE opt = "p"
      BY <3>2 DEF SourceOf
    <3> QED BY <3>1, <3>2
  <2> QED BY <2>1, <2>2 DEF WithValue
<1>2. Letters(Start, word) = st1
  <2> DEFINE I == {i \in 1..Len(Tail(word)) : Tail(word)[i] \in WithValue}
  <2>1. Tail(word) = <<opt>> /\ Len(Tail(word)) = 1 /\ Tail(word)[1] = opt
    OBVIOUS
  <2>2. I = {1}
    BY <1>1, <2>1
  <2>3. Min(I) = 1
    <3> HIDE DEF I
    <3> QED BY <2>2 DEF Min
  <2>4. (IF I # {} THEN Min(I) ELSE 0) = 1
    <3> HIDE DEF I
    <3> QED BY <2>2, <2>3
  <2>5. Len(word) = 2 /\ word[2] = opt
    OBVIOUS
  <2>6. SubSeq(word, 3, 2) = <<>>
    BY SubSeqEmpty
  <2>7. Start.spec = NoSpec
    BY DEF Start
  <2>8. 1 + 1 = 2 /\ 2 + 1 = 3 /\ 2 - 1 = 1
    OBVIOUS
  <2> HIDE DEF word
  <2> DEFINE Body(at) ==
               LET fs == IF at = 1 THEN Tail(word) ELSE SubSeq(word, 2, at - 1)
                   flagged == [Start.spec EXCEPT !.extra = @ \o [i \in DOMAIN fs |-> <<"-", fs[i]>>]]
                   val == SubSeq(word, at + 1, Len(word))
               IN  IF at = 1 THEN [Start EXCEPT !.spec = flagged]
                   ELSE IF val = <<>> THEN [Start EXCEPT !.spec = flagged, !.waiting = word[at]]
                   ELSE [Start EXCEPT !.spec = Applied(flagged, word[at], val)]
  <2>9. Letters(Start, word) = Body((IF I # {} THEN Min(I) ELSE 0) + 1)
    BY Zenon DEF Letters, SelectInSeq
  <2>10. (IF I # {} THEN Min(I) ELSE 0) + 1 = 2
    <3> HIDE DEF I
    <3> QED BY <2>4
  <2>11. Letters(Start, word) = Body(2)
    <3> HIDE DEF Body, I
    <3> QED BY <2>9, <2>10, Zenon
  <2>12. [Start.spec EXCEPT !.extra = @ \o [i \in DOMAIN flags |-> <<"-", flags[i]>>]] = spec1
    BY <2>7, Zenon
  <2>13. SubSeq(word, 2 + 1, Len(word)) = <<>>
    BY <2>5, <2>6, <2>8
  <2>14. Body(2) = [Start EXCEPT !.spec = [Start.spec EXCEPT !.extra = @ \o [i \in DOMAIN flags |-> <<"-", flags[i]>>]],
                                 !.waiting = word[2]]
    BY <2>8, <2>13
  <2> HIDE DEF Body, spec1
  <2> QED BY <2>5, <2>11, <2>12, <2>14, Zenon
<1>3. Step(Start, word) = st1
  <2>1. Start.waiting = NULL /\ Start.options = TRUE
    BY DEF Start
  <2>2. word # <<"-", "-">> /\ Len(word) = 2 /\ Head(word) = "-"
    BY <1>1
  <2> HIDE DEF word, st1
  <2> QED BY <1>2, <2>1, <2>2 DEF Step
<1>4. Step(st1, v) = st2
  <2>1. st1.waiting = opt /\ st1.spec = spec1
    BY DEF Start
  <2>2. Applied(spec1, opt, v) = spec2
    BY <1>1 DEF Applied
  <2>3. [st1 EXCEPT !.spec = spec2, !.waiting = NULL] = st2
    BY Zenon
  <2> HIDE DEF st1, spec1, st2, spec2
  <2>4. Step(st1, v) = [st1 EXCEPT !.spec = Applied(@, st1.waiting, v), !.waiting = NULL]
    BY <1>1, <2>1, StepValue
  <2> QED BY <2>1, <2>2, <2>3, <2>4, Zenon
<1>5. Step(st2, <<"c">>) = st3
  <2>1. st2.waiting = NULL /\ st2.options = TRUE /\ st2.spec = spec2
    BY DEF Start
  <2>2. <<"c">> # <<"-", "-">> /\ Len(<<"c">>) < 2
    OBVIOUS
  <2>3. [st2 EXCEPT !.options = FALSE, !.spec.command = << <<"c">> >>] = st3
    <3>1. st3 = [st2 EXCEPT !.options = FALSE, !.spec = [st2.spec EXCEPT !.command = << <<"c">> >>]]
      BY <2>1
    <3> HIDE DEF st2, st3
    <3> QED BY <3>1
  <2> HIDE DEF st2, st3
  <2> QED BY <2>1, <2>2, <2>3 DEF Step
<1>6. /\ Len(argv) = 4 /\ argv[1 + 1] = word /\ argv[2 + 1] = v /\ argv[3 + 1] = <<"c">>
  OBVIOUS
<1>7. st3.waiting = NULL /\ st3.spec = spec3 /\ spec3.source = SourceOf[opt] /\ spec3.value = v
      /\ spec3 = [spec3 EXCEPT !.err = FALSE] /\ spec3.err = FALSE
  <2>1. st3.waiting = NULL /\ st3.spec = spec3
    BY DEF Start
  <2>2. NoSpec = [source |-> "unknown", value |-> <<>>, params |-> <<>>, extra |-> <<>>, command |-> <<>>, err |-> FALSE]
    BY Zenon DEF NoSpec
  <2> DEFINE e == NoSpec.extra \o [i \in DOMAIN flags |-> <<"-", flags[i]>>]
  <2>3. \E d : d = FALSE
    OBVIOUS
  <2>4. PICK f : f = FALSE
    BY <2>3
  <2>5. PICK s : s = "unknown"
    OBVIOUS
  <2>6. PICK d : d = <<>>
    OBVIOUS
  <2>7. NoSpec = [source |-> s, value |-> d, params |-> d, extra |-> d, command |-> d, err |-> f]
    BY <2>2, <2>4, <2>5, <2>6, Zenon
  <2> HIDE DEF e
  <2>8. spec1 = [source |-> s, value |-> d, params |-> d, extra |-> e, command |-> d, err |-> f]
    <3>1. NoSpec.extra = d
      BY <2>7
    <3>2. spec1 = [NoSpec EXCEPT !.extra = e]
      BY Zenon DEF e
    <3> HIDE DEF spec1
    <3>3. [NoSpec EXCEPT !.extra = e] = [source |-> s, value |-> d, params |-> d, extra |-> e, command |-> d, err |-> f]
      BY <2>7
    <3> QED BY <3>2, <3>3
  <2> HIDE DEF spec1
  <2>9. PICK w : w = SourceOf[opt]
    OBVIOUS
  <2>10. PICK c : c = << <<"c">> >>
    OBVIOUS
  <2> DEFINE spec12 == [spec1 EXCEPT !.source = w]
  <2>11. spec2 = [spec12 EXCEPT !.value = v] /\ spec3 = [spec2 EXCEPT !.command = c]
    BY <2>9, <2>10, Zenon
  <2> HIDE DEF spec2, spec3
  <2>12. spec12 = [source |-> w, value |-> d, params |-> d, extra |-> e, command |-> d, err |-> f]
    BY <2>8
  <2> HIDE DEF spec12
  <2>13. spec2 = [source |-> w, value |-> v, params |-> d, extra |-> e, command |-> d, err |-> f]
    <3>1. [spec12 EXCEPT !.value = v] = [source |-> w, value |-> v, params |-> d, extra |-> e, command |-> d, err |-> f]
      BY <2>12
    <3> QED BY <2>11, <3>1
  <2>14. spec3 = [source |-> w, value |-> v, params |-> d, extra |-> e, command |-> c, err |-> f]
    <3>1. [spec2 EXCEPT !.command = c] = [source |-> w, value |-> v, params |-> d, extra |-> e, command |-> c, err |-> f]
      BY <2>13
    <3> QED BY <2>11, <3>1
  <2>15. spec3.source = w /\ spec3.value = v /\ spec3.err = f /\ [spec3 EXCEPT !.err = f] = spec3
    BY <2>14
  <2> QED BY <2>1, <2>4, <2>9, <2>15
<1> DEFINE Turn(f) == [n \in 0..Len(argv) - 1 |-> IF n = 0 THEN Start ELSE Step(f[n - 1], argv[n + 1])]
           after == CHOOSE f : f = Turn(f)
           g == [n \in 0..3 |-> IF n = 0 THEN Start ELSE IF n = 1 THEN st1 ELSE IF n = 2 THEN st2 ELSE st3]
<1> HIDE DEF argv, word, spec1, st1, spec2, st2, spec3, st3
<1>8. \E f : f = Turn(f)
  <2>1. g[0] = Start /\ g[1] = st1 /\ g[2] = st2 /\ g[3] = st3
    OBVIOUS
  <2>2. ASSUME NEW n \in 0..3 PROVE g[n] = IF n = 0 THEN Start ELSE Step(g[n - 1], argv[n + 1])
    <3>1. n = 0 \/ n = 1 \/ n = 2 \/ n = 3
      OBVIOUS
    <3>2. 1 - 1 = 0 /\ 2 - 1 = 1 /\ 3 - 1 = 2
      OBVIOUS
    <3> HIDE DEF g
    <3> QED BY <1>3, <1>4, <1>5, <1>6, <2>1, <3>1, <3>2
  <2>3. g = [n \in 0..3 |-> g[n]] /\ Len(argv) - 1 = 3
    BY <1>6
  <2> HIDE DEF g
  <2>4. g = Turn(g)
    BY <2>2, <2>3
  <2> QED BY <2>4
<1>9. after = Turn(after)
  BY <1>8
<1>10. after[3] = st3
  <2> HIDE DEF after
  <2>1. Len(argv) - 1 = 3
    BY <1>6
  <2>2. \A n \in 0..3 : after[n] = IF n = 0 THEN Start ELSE Step(after[n - 1], argv[n + 1])
    BY <1>9, <2>1
  <2>3. after[0] = Start
    BY <2>2
  <2>4. after[1] = st1
    BY <1>3, <1>6, <2>2, <2>3
  <2>5. after[2] = st2
    BY <1>4, <1>6, <2>2, <2>4
  <2> QED BY <1>5, <1>6, <2>2, <2>5
<1>11. ParseArgs(argv) = [spec3 EXCEPT !.err = spec3.source = "unknown"]
  <2>1. after[Len(argv) - 1] = st3
    BY <1>6, <1>10
  <2> HIDE DEF Start, Step
  <2> QED BY <1>7, <2>1 DEF ParseArgs
<1>12. spec3.source # "unknown"
  BY <1>1, <1>7
<1>13. ParseArgs(argv) = spec3
  <2>1. (spec3.source = "unknown") = FALSE
    BY <1>12
  <2> QED BY <1>7, <1>11, <2>1
<1>14. spec3.err = FALSE
  BY <1>7
<1> QED BY <1>7, <1>13, <1>14 DEF argv

\* A file is read as it is after it was opened, all of it, or there is an error.
LEMMA ReadWhole ==
    ASSUME NEW text, IsList(text), NEW before, NEW kind
    PROVE  LET read == ReadProfileFile(File(kind, before, text))
           IN  (read.text = text /\ read.err = FALSE) \/ (read.text = <<>> /\ read.err = TRUE)
<1> DEFINE f == File(kind, before, text)
           n == IF Len(text) < MaxProfileSize + 1 THEN Len(text) ELSE MaxProfileSize + 1
           ok == f.kind = "regular" /\ Len(f.before) <= MaxProfileSize /\ Len(Read(f.after)) <= MaxProfileSize
<1>1. PICK S : text \in Seq(S)
  BY DEF IsList
<1>2. f.after = text
  BY DEF File
<1>3. Read(f.after) = SubSeq(text, 1, n)
  BY <1>2 DEF Read, Limited
<1>4. n \in Nat /\ n <= Len(text)
  BY <1>1, SizeAssumption
<1>5. Len(SubSeq(text, 1, n)) = n
  <2>1. \A i \in 1..n : text[i] \in S
    BY <1>1, <1>4
  <2> HIDE DEF n
  <2>2. Len(SubSeq(text, 1, n)) = IF 1 <= n THEN n - 1 + 1 ELSE 0
    BY <1>4, <2>1, SubSeqProperties
  <2> QED BY <1>4, <2>2
<1>6. CASE ok
  <2>1. n <= MaxProfileSize
    BY <1>3, <1>5, <1>6
  <2>2. n = Len(text)
    BY <1>1, <2>1, SizeAssumption
  <2>3. SubSeq(text, 1, Len(text)) = text
    BY <1>1
  <2>4. ReadProfileFile(f) = [text |-> text, err |-> FALSE]
    <3> HIDE DEF f, n
    <3> QED BY <1>3, <1>6, <2>2, <2>3 DEF ReadProfileFile
  <2> HIDE DEF f
  <2>5. ReadProfileFile(f).text = text /\ ReadProfileFile(f).err = FALSE
    BY <2>4
  <2> QED BY <2>5 DEF f
<1>7. CASE ~ok
  <2>1. ReadProfileFile(f) = [text |-> <<>>, err |-> TRUE]
    <3> HIDE DEF f
    <3> QED BY <1>7 DEF ReadProfileFile
  <2> HIDE DEF f
  <2>2. ReadProfileFile(f).text = <<>> /\ ReadProfileFile(f).err = TRUE
    BY <2>1
  <2> QED BY <2>2 DEF f
<1> QED BY <1>6, <1>7

\* A text someone may launch with.
IsText(text, by) == text \in {<<>>, TextOf(by), TextOf(by) \o <<"(", "(">>}

\* The symbol that says whose text it is.
Mark(by) == IF by[1] = "claude" THEN by[2] ELSE Fingerprint

\* Who may launch.
LEMMA Launchers ==
    ASSUME NEW by \in Launcher
    PROVE  \/ by[1] = "claude" /\ by[2] \in Tag
           \/ by[1] = "cursor" /\ by[2] \in Conversation \cup {""}
           \/ by[1] = "other"
<1>1. CASE by \in {"claude"} \X Tag
  BY <1>1
<1>2. CASE by \in {"cursor"} \X (Conversation \cup {""})
  BY <1>2
<1>3. CASE by = <<"other", "">>
  BY <1>3
<1> QED BY <1>1, <1>2, <1>3 DEF Launcher

\* The profile texts: only the second symbol can be a tag or the fingerprint.
LEMMA Texts ==
    ASSUME NEW by \in Launcher, NEW t \in {TextOf(by), TextOf(by) \o <<"(", "(">>}
    PROVE  /\ IsList(t) /\ Len(t) \in Nat /\ Len(t) >= 1
           /\ by[1] # "other" => Len(t) >= 2
           /\ \A i \in 1..Len(t) : t[i] = IF i = 2 /\ by[1] # "other" THEN Mark(by) ELSE "("
<1> DEFINE u == TextOf(by)
           two == <<"(", "(">>
<1>1. u = IF by[1] # "other" THEN <<"(", Mark(by)>> ELSE <<"(">>
  BY Launchers DEF TextOf, Mark
<1>2. IsList(u) /\ Len(u) = IF by[1] # "other" THEN 2 ELSE 1
  <2>1. CASE by[1] # "other"
    <3>1. <<"(", Mark(by)>> \in Seq({"(", Mark(by)}) /\ Len(<<"(", Mark(by)>>) = 2
      OBVIOUS
    <3> QED BY <1>1, <2>1, <3>1 DEF IsList
  <2>2. CASE by[1] = "other"
    <3>1. <<"(">> \in Seq({"("}) /\ Len(<<"(">>) = 1
      OBVIOUS
    <3> QED BY <1>1, <2>2, <3>1 DEF IsList
  <2> QED BY <2>1, <2>2
<1>3. u[1] = "(" /\ (by[1] # "other" => u[2] = Mark(by))
  BY <1>1
<1>4. IsList(two) /\ Len(two) = 2 /\ two[1] = "(" /\ two[2] = "("
  <2>1. two \in Seq({"("})
    OBVIOUS
  <2> QED BY <2>1 DEF IsList
<1> HIDE DEF u, two
<1>5. CASE t = u
  BY <1>2, <1>3, <1>5
<1>6. CASE t = u \o two
  <2>1. /\ IsList(t) /\ Len(t) = Len(u) + 2
        /\ \A i \in 1..(Len(u) + 2) : t[i] = IF i <= Len(u) THEN u[i] ELSE two[i - Len(u)]
    <3>1. /\ IsList(u \o two) /\ Len(u \o two) = Len(u) + Len(two)
          /\ \A i \in 1..Len(u) + Len(two) : (u \o two)[i] = IF i <= Len(u) THEN u[i] ELSE two[i - Len(u)]
      BY <1>2, <1>4, ListConcat
    <3> QED BY <1>4, <1>6, <3>1
  <2>2. ASSUME NEW i \in 1..Len(t) PROVE t[i] = IF i = 2 /\ by[1] # "other" THEN Mark(by) ELSE "("
    <3>1. CASE i <= Len(u)
      BY <1>2, <1>3, <2>1, <3>1
    <3>2. CASE i > Len(u)
      <4>1. i - Len(u) = 1 \/ i - Len(u) = 2
        BY <1>2, <2>1, <3>2
      <4>2. t[i] = two[i - Len(u)]
        BY <1>2, <2>1, <3>2
      <4>3. t[i] = "("
        BY <1>4, <4>1, <4>2
      <4>4. ~(i = 2 /\ by[1] # "other")
        BY <1>2, <3>2
      <4> QED BY <4>3, <4>4
    <3> QED BY <1>2, <3>1, <3>2
  <2> QED BY <1>2, <2>1, <2>2
<1> QED BY <1>5, <1>6 DEF u, two

\* What is recorded is what was given, or nothing and an error.
LEMMA Recorded ==
    ASSUME NEW launch \in Launcher \X How, NEW by, NEW how, by = launch[1], how = launch[2]
    PROVE  LET made == Launches[launch]
               given == IF how = "inline" THEN TextOf(by) ELSE FileOf(how, TextOf(by)).after
           IN  (made.text = given /\ made.err = FALSE) \/ (made.text = <<>> /\ made.err = TRUE)
<1>0. by \in Launcher /\ how \in How
  OBVIOUS
<1> DEFINE text == TextOf(by)
           file == FileOf(how, text)
           made == ReadProfile(Command(how, text), file)
           spec == ParseArgs(Command(how, text))
           read == ReadProfileFile(file)
<1>1. Launches[launch] = made
  BY DEF Launches
<1>2. /\ made.text = IF spec.source = "inline" THEN spec.value ELSE IF spec.source = "file" THEN read.text ELSE <<>>
      /\ made.err = (spec.err \/ (spec.source = "file" /\ read.err))
  BY DEF ReadProfile
<1> HIDE DEF made, spec, read, file
<1>3. CASE how = "inline"
  <2>1. Command(how, text) = << <<"x">>, <<"-", "p">>, text, <<"c">> >>
    BY <1>3 DEF Command
  <2>a. \A v : LET pa == ParseArgs(<< <<"x">>, <<"-", "p">>, v, <<"c">> >>)
               IN  pa.source = SourceOf["p"] /\ pa.value = v /\ pa.err = FALSE
    BY ParseSimple
  <2>b. SourceOf["p"] = "inline"
    BY DEF SourceOf
  <2>2. spec.source = "inline" /\ spec.value = text /\ spec.err = FALSE
    BY <2>1, <2>a, <2>b DEF spec
  <2>3. made.text = text /\ made.err = FALSE
    BY <1>2, <2>2
  <2> QED BY <1>1, <1>3, <2>3
<1>4. CASE how # "inline"
  <2>1. Command(how, text) = << <<"x">>, <<"-", "f">>, <<"/">>, <<"c">> >>
    BY <1>4 DEF Command
  <2>a. \A v : LET pa == ParseArgs(<< <<"x">>, <<"-", "f">>, v, <<"c">> >>)
               IN  pa.source = SourceOf["f"] /\ pa.value = v /\ pa.err = FALSE
    BY ParseSimple
  <2>b. SourceOf["f"] = "file"
    BY DEF SourceOf
  <2>2. spec.source = "file" /\ spec.err = FALSE
    BY <2>1, <2>a, <2>b DEF spec
  <2>3. (read.text = file.after /\ read.err = FALSE) \/ (read.text = <<>> /\ read.err = TRUE)
    <3>1. \E kind, before, after : file = File(kind, before, after) /\ IsList(after)
      BY <1>0, Texts, ListNone DEF file, FileOf, How
    <3>2. PICK kind, before, after : file = File(kind, before, after) /\ IsList(after)
      BY <3>1
    <3>3. file.after = after
      BY <3>2 DEF File
    <3> QED BY <3>2, <3>3, ReadWhole DEF read
  <2>4. (made.text = file.after /\ made.err = FALSE) \/ (made.text = <<>> /\ made.err = TRUE)
    BY <1>2, <2>2, <2>3
  <2> QED BY <1>1, <1>4, <2>4 DEF file
<1> QED BY <1>3, <1>4

-----------------------------------------------------------------------------
(* Detection *)

\* A text without a tag; a text with one tag, at k.
LEMMA NoTag ==
    ASSUME NEW t, \A i \in 1..Len(t) : t[i] \notin Tag
    PROVE  Claude(t) = {}
<1> DEFINE I == {i \in 1..Len(t) : t[i] \in Tag}
<1>1. I = {}
  OBVIOUS
<1>2. (IF I # {} THEN Min(I) ELSE 0) = 0
  <2> HIDE DEF I
  <2> QED BY <1>1
<1>3. FindTag(t) = NULL
  BY <1>2 DEF FindTag, SelectInSeq
<1> QED BY <1>3 DEF Claude

LEMMA OneTag ==
    ASSUME NEW t, Len(t) \in Nat, NEW k \in 1..Len(t), t[k] \in Tag,
           \A i \in 1..Len(t) : i # k => t[i] \notin Tag
    PROVE  Claude(t) = {<<"claude-code", t[k]>>}
<1> DEFINE I == {i \in 1..Len(t) : t[i] \in Tag}
<1>1. I = {k}
  OBVIOUS
<1>2. Min(I) = k
  <2> HIDE DEF I
  <2> QED BY <1>1 DEF Min
<1>3. (IF I # {} THEN Min(I) ELSE 0) = k
  <2> HIDE DEF I
  <2> QED BY <1>1, <1>2
<1>4. FindTag(t) = t[k] /\ t[k] # NULL
  <2>1. k # 0
    OBVIOUS
  <2> QED BY <1>3, <2>1, SymbolAssumption DEF FindTag, SelectInSeq
<1> QED BY <1>4 DEF Claude

\* Whatever the text of a launcher holds after its mark.
LEMMA ClaudeClaims ==
    ASSUME NEW by \in Launcher, NEW t \in {<<>>, TextOf(by), TextOf(by) \o <<"(", "(">>}
    PROVE  Claude(t) = IF by[1] = "claude" /\ t # <<>> THEN {Owner(by)} ELSE {}
<1>1. CASE t = <<>>
  <2>1. \A i \in 1..Len(t) : t[i] \notin Tag
    BY <1>1
  <2> QED BY <1>1, <2>1, NoTag
<1>2. CASE t # <<>> /\ by[1] = "claude"
  <2>1. by[2] \in Tag /\ Mark(by) = by[2]
    BY <1>2, Launchers DEF Mark
  <2>2. "(" \notin Tag
    BY SymbolAssumption DEF Symbol
  <2>3. Len(t) \in Nat /\ 2 \in 1..Len(t) /\ \A i \in 1..Len(t) : t[i] = IF i = 2 THEN by[2] ELSE "("
    BY <1>2, <2>1, Texts
  <2>4. Claude(t) = {<<"claude-code", t[2]>>}
    <3>1. t[2] \in Tag /\ \A i \in 1..Len(t) : i # 2 => t[i] \notin Tag
      BY <2>1, <2>2, <2>3
    <3> QED BY <2>3, <3>1, OneTag
  <2>5. Owner(by) = <<"claude-code", by[2]>>
    BY <1>2 DEF Owner
  <2> QED BY <1>2, <2>3, <2>4, <2>5
<1>3. CASE t # <<>> /\ by[1] # "claude"
  <2>1. "(" \notin Tag /\ Fingerprint \notin Tag
    BY SymbolAssumption DEF Symbol
  <2>2. \A i \in 1..Len(t) : t[i] \in {"(", Fingerprint}
    BY <1>3, Texts DEF Mark
  <2>3. Claude(t) = {}
    BY <2>1, <2>2, NoTag
  <2> QED BY <1>3, <2>3
<1> QED BY <1>1, <1>2, <1>3

\* The conversation of the innermost shell is the one that is picked.
LEMMA EnvList ==
    ASSUME NEW by \in Launcher, NEW inherited, IsList(inherited)
    PROVE  /\ IsList(EnvOf(by, inherited))
           /\ by[1] = "cursor" => PickEnv(EnvOf(by, inherited)) = IF by[2] = "" /\ inherited = <<>> THEN NULL ELSE by[2]
<1>1. /\ IsList(<<by[2]>> \o inherited) /\ Len(<<by[2]>> \o inherited) = 1 + Len(inherited)
      /\ (<<by[2]>> \o inherited)[1] = by[2]
  <2>1. IsList(<<by[2]>>) /\ Len(<<by[2]>>) = 1 /\ <<by[2]>>[1] = by[2]
    BY ListOne
  <2>2. Len(inherited) \in Nat
    BY ListFields
  <2> DEFINE one == <<by[2]>>
  <2> HIDE DEF one
  <2>3. IsList(one) /\ Len(one) = 1 /\ one[1] = by[2]
    BY <2>1 DEF one
  <2>4. /\ IsList(one \o inherited) /\ Len(one \o inherited) = 1 + Len(inherited)
        /\ (one \o inherited)[1] = by[2]
    <3>1. /\ IsList(one \o inherited) /\ Len(one \o inherited) = Len(one) + Len(inherited)
          /\ \A i \in 1..Len(one) + Len(inherited) :
               (one \o inherited)[i] = IF i <= Len(one) THEN one[i] ELSE inherited[i - Len(one)]
      BY <2>3, ListConcat
    <3>2. 1 \in 1..Len(one) + Len(inherited) /\ 1 <= Len(one)
      BY <2>2, <2>3
    <3> QED BY <2>3, <3>1, <3>2
  <2> QED BY <2>4 DEF one
<1> DEFINE more == <<by[2]>> \o inherited
<1>2. more # <<>> /\ Head(more) = by[2]
  <2>1. PICK S : more \in Seq(S)
    BY <1>1 DEF IsList
  <2>2. Len(inherited) \in Nat
    BY ListFields
  <2> HIDE DEF more
  <2>3. Len(more) >= 1 /\ more[1] = by[2]
    BY <1>1, <2>2 DEF more
  <2> QED BY <2>1, <2>3
<1> HIDE DEF more
<1>3. EnvOf(by, inherited) = IF by[1] = "cursor" /\ (by[2] # "" \/ inherited # <<>>) THEN more ELSE inherited
  BY DEF EnvOf, more
<1>4. by[1] = "cursor" => PickEnv(EnvOf(by, inherited)) = IF by[2] = "" /\ inherited = <<>> THEN NULL ELSE by[2]
  BY <1>2, <1>3 DEF PickEnv
<1> QED BY <1>1, <1>3, <1>4 DEF more

\* Who launched a run claims it, if its text is there and its launcher an agent.
LEMMA RunClaims ==
    ASSUME NEW by \in Launcher, NEW inherited, IsList(inherited),
           NEW t \in {<<>>, TextOf(by), TextOf(by) \o <<"(", "(">>}
    PROVE  DetectRun(t, EnvOf(by, inherited)) = IF by[1] = "other" \/ t = <<>> THEN {} ELSE {Owner(by)}
<1> DEFINE env == EnvOf(by, inherited)
<1>1. Contains(t, Fingerprint) <=> by[1] = "cursor" /\ t # <<>>
  <2>1. CASE t = <<>>
    BY <2>1 DEF Contains
  <2>2. CASE t # <<>>
    <3>1. /\ Len(t) \in Nat /\ Len(t) >= 1
          /\ by[1] # "other" => Len(t) >= 2
          /\ \A i \in 1..Len(t) : t[i] = IF i = 2 /\ by[1] # "other" THEN Mark(by) ELSE "("
      BY <2>2, Texts
    <3>2. "(" # Fingerprint
      BY DEF Fingerprint
    <3>3. by[1] = "claude" => Mark(by) # Fingerprint
      BY Launchers, SymbolAssumption DEF Mark, Symbol
    <3>4. by[1] = "cursor" => Mark(by) = Fingerprint
      BY DEF Mark
    <3>5. CASE by[1] = "cursor"
      <4>1. 2 \in 1..Len(t) /\ t[2] = Fingerprint
        BY <3>1, <3>4, <3>5
      <4> QED BY <2>2, <3>5, <4>1 DEF Contains
    <3>6. CASE by[1] # "cursor"
      <4>1. \A i \in 1..Len(t) : t[i] # Fingerprint
        BY <3>1, <3>2, <3>3, <3>6, Launchers
      <4> QED BY <3>6, <4>1 DEF Contains
    <3> QED BY <3>5, <3>6
  <2> QED BY <2>1, <2>2
<1>2. Cursor(t, env) = IF by[1] = "cursor" /\ t # <<>> THEN {Owner(by)} ELSE {}
  <2>1. CASE by[1] = "cursor" /\ t # <<>>
    <3>1. CursorKey(PickEnv(env)) = IF by[2] = "" THEN "unknown" ELSE by[2]
      <4>1. by[2] = "" \/ by[2] \notin {NULL, ""}
        BY <2>1, Launchers, SymbolAssumption DEF Symbol
      <4> QED BY <2>1, <4>1, EnvList DEF CursorKey
    <3>2. Owner(by) = <<"cursor", IF by[2] = "" THEN "unknown" ELSE by[2]>>
      BY <2>1 DEF Owner
    <3> HIDE DEF env
    <3> QED BY <1>1, <2>1, <3>1, <3>2 DEF Cursor
  <2>2. CASE ~(by[1] = "cursor" /\ t # <<>>)
    BY <1>1, <2>2 DEF Cursor
  <2> QED BY <2>1, <2>2
<1>3. Claude(t) = IF by[1] = "claude" /\ t # <<>> THEN {Owner(by)} ELSE {}
  BY ClaudeClaims
<1> HIDE DEF env
<1>4. DetectRun(t, env) = IF Claude(t) # {} THEN Claude(t) ELSE Cursor(t, env)
  BY DEF DetectRun
<1>5. CASE by[1] = "claude" /\ t # <<>>
  BY <1>3, <1>4, <1>5 DEF env
<1>6. CASE by[1] = "cursor" /\ t # <<>>
  BY <1>2, <1>3, <1>4, <1>6 DEF env
<1>7. CASE by[1] = "other" \/ t = <<>>
  BY <1>2, <1>3, <1>4, <1>7 DEF env
<1> QED BY <1>5, <1>6, <1>7, Launchers

\* The name of a session has a key.
LEMMA OwnerNamed ==
    ASSUME NEW by \in Launcher
    PROVE  /\ by[1] = "other" => Owner(by) = NULL
           /\ by[1] # "other" => Owner(by) \in Names
<1>1. CASE by[1] = "other"
  BY <1>1 DEF Owner
<1>2. CASE by[1] = "claude"
  BY <1>2, Launchers DEF Owner, Names
<1>3. CASE by[1] = "cursor"
  <2>1. PICK key : key = IF by[2] = "" THEN "unknown" ELSE by[2]
    OBVIOUS
  <2>2. Owner(by) = <<"cursor", key>>
    BY <1>3, <2>1 DEF Owner
  <2>3. key \in Conversation \cup {"unknown"}
    <3>1. CASE by[2] = ""
      BY <2>1, <3>1
    <3>2. CASE by[2] # ""
      BY <1>3, <2>1, <3>2, Launchers
    <3> QED BY <3>1, <3>2
  <2> QED BY <1>3, <2>2, <2>3 DEF Names
<1> QED BY <1>1, <1>2, <1>3, Launchers

\* A name has an agent and a key.
LEMMA NameFields ==
    ASSUME NEW name \in Names
    PROVE  /\ name = <<name[1], name[2]>>
           /\ name[2] # "" /\ name[2] # NULL /\ name # NULL
           /\ \/ name[1] = "claude-code" /\ name[2] \in Tag
              \/ name[1] = "cursor" /\ name[2] \in Conversation \cup {"unknown"}
<1>1. name # NULL
  BY PagesAssumption DEF Names
<1>2. NULL # "unknown"
  BY PagesAssumption
<1>3. "" \notin Tag /\ "" \notin Conversation /\ NULL \notin Tag /\ NULL \notin Conversation
  BY SymbolAssumption DEF Symbol
<1>4. \/ name[1] = "claude-code" /\ name[2] \in Tag
      \/ name[1] = "cursor" /\ name[2] \in Conversation \cup {"unknown"}
  BY DEF Names
<1>5. name = <<name[1], name[2]>>
  BY DEF Names
<1> QED BY <1>1, <1>2, <1>3, <1>4, <1>5

-----------------------------------------------------------------------------
(* What a call writes *)

\* The fields of a row of each table.
LEMMA SessionRow ==
    ASSUME NEW k, NEW v, NEW name, NEW s, s = [key |-> k, rev |-> v, name |-> name]
    PROVE  s.key = k /\ s.name = name /\ s = [key |-> s.key, rev |-> s.rev, name |-> s.name]
OBVIOUS

LEMMA ProcessRow ==
    ASSUME NEW k, NEW v, NEW run, NEW parent, NEW prev, NEW platform, NEW end, NEW p,
           p = [key |-> k, rev |-> v, run |-> run, parent |-> parent, prev |-> prev, platform |-> platform, end |-> end]
    PROVE  /\ p.key = k /\ p.run = run
           /\ p = [key |-> p.key, rev |-> p.rev, run |-> p.run, parent |-> p.parent, prev |-> p.prev,
                   platform |-> p.platform, end |-> p.end]
OBVIOUS

LEMMA DenialRow ==
    ASSUME NEW k, NEW v, NEW run, NEW process, NEW count, NEW d,
           d = [key |-> k, rev |-> v, run |-> run, process |-> process, count |-> count]
    PROVE  /\ d.key = k
           /\ d.process = process
           /\ d = [key |-> d.key, rev |-> d.rev, run |-> d.run, process |-> d.process, count |-> d.count]
OBVIOUS

LEMMA RunRow ==
    ASSUME NEW k, NEW v, NEW session, NEW parent, NEW text, NEW err, NEW status, NEW env, NEW by, NEW how, NEW r,
           r = [key |-> k, rev |-> v, session |-> session, parent |-> parent, text |-> text, err |-> err,
                status |-> status, env |-> env, by |-> by, how |-> how]
    PROVE  /\ r.key = k /\ r.session = session /\ r.text = text /\ r.err = err /\ r.env = env /\ r.by = by /\ r.how = how
           /\ r = [key |-> r.key, rev |-> r.rev, session |-> r.session, parent |-> r.parent, text |-> r.text,
                   err |-> r.err, status |-> r.status, env |-> r.env, by |-> r.by, how |-> r.how]
OBVIOUS

\* An image that joins a run.
LEMMA ImageWrite ==
    ASSUME DataInv, NEW I, NEW N, NEW id \in I, NEW parent, NEW prev, NEW platform
    PROVE  LET p == Image(id, parent, prev, platform)
           IN  Good(p, I, N) /\ p.key = <<"processes", NextId("processes")>>
<1> DEFINE p == Image(id, parent, prev, platform)
           k == <<"processes", NextId("processes")>>
<1>1. PICK v : v = 0
  OBVIOUS
<1>2. PICK end : end = "running"
  OBVIOUS
<1>3. p = [key |-> k, rev |-> v, run |-> id, parent |-> parent, prev |-> prev, platform |-> platform, end |-> end]
  BY <1>1, <1>2, Zenon DEF Image
<1> HIDE DEF p, k
<1>4. /\ p.key = k /\ p.run = id
      /\ p = [key |-> p.key, rev |-> p.rev, run |-> p.run, parent |-> p.parent, prev |-> p.prev,
              platform |-> p.platform, end |-> p.end]
  BY <1>3, ProcessRow
<1>5. k[1] = "processes" /\ k[2] \in Nat /\ k = <<k[1], k[2]>> /\ k[2] = NextId("processes")
  BY NextIdNat DEF k
<1> HIDE DEF k
<1>6. Typed(p)
  BY <1>4, <1>5 DEF Typed, IsProcess
<1>7. p.key[1] = "processes" /\ p.key[1] # "runs" /\ p.key[1] # "sessions"
  BY <1>4, <1>5
<1>8. Good(p, I, N)
  BY <1>4, <1>5, <1>6, <1>7 DEF Good, Id
<1> QED BY <1>4, <1>8 DEF p, k

\* The end of an image.
LEMMA EndedWrite ==
    ASSUME DataInv, NEW I, NEW N, RunIds \subseteq I, NEW p \in In(rows, "processes"), NEW end
    PROVE  Good([p EXCEPT !.end = end], I, N) /\ [p EXCEPT !.end = end].key = p.key
<1> DEFINE q == [p EXCEPT !.end = end]
<1>1. p.key[1] = "processes" /\ Typed(p) /\ IsProcess(p) /\ p.run \in I
  BY DEF DataInv, EndpointOK, In, Typed, IsSession, IsRun, IsDenial
<1>2. q = [key |-> p.key, rev |-> p.rev, run |-> p.run, parent |-> p.parent, prev |-> p.prev,
           platform |-> p.platform, end |-> end]
  BY <1>1 DEF IsProcess
<1> HIDE DEF q
<1>3. /\ q.key = p.key /\ q.run = p.run
      /\ q = [key |-> q.key, rev |-> q.rev, run |-> q.run, parent |-> q.parent, prev |-> q.prev,
              platform |-> q.platform, end |-> q.end]
  BY <1>2, ProcessRow
<1>4. Typed(q)
  BY <1>1, <1>3 DEF Typed, IsProcess
<1>5. Good(q, I, N) /\ q.key = p.key
  <2>1. Id(q) \in Ids(In(rows, "processes"))
    BY <1>3 DEF Ids, Id
  <2> QED BY <1>1, <1>3, <1>4, <2>1 DEF Good
<1> QED BY <1>5 DEF q

\* The end of a run.
LEMMA StatusWrite ==
    ASSUME DataInv, NEW I, NEW N, RunIds \subseteq I, Sessions \subseteq N, NEW r \in In(rows, "runs"), NEW status
    PROVE  Good([r EXCEPT !.status = status], I, N) /\ [r EXCEPT !.status = status].key = <<"runs", Id(r)>>
<1> DEFINE s == [r EXCEPT !.status = status]
<1>1. r.key[1] = "runs" /\ Typed(r) /\ IsRun(r) /\ RunOK(r, Sessions) /\ Id(r) \in I
  BY DEF DataInv, EndpointOK, In, Typed, IsSession, IsProcess, IsDenial, RunIds, Ids
<1>2. s = [key |-> r.key, rev |-> r.rev, session |-> r.session, parent |-> r.parent, text |-> r.text,
           err |-> r.err, status |-> status, env |-> r.env, by |-> r.by, how |-> r.how]
  BY <1>1 DEF IsRun
<1> HIDE DEF s
<1>3. /\ s.key = r.key /\ s.session = r.session /\ s.text = r.text /\ s.err = r.err /\ s.env = r.env /\ s.by = r.by
      /\ s.how = r.how
      /\ s = [key |-> s.key, rev |-> s.rev, session |-> s.session, parent |-> s.parent, text |-> s.text,
              err |-> s.err, status |-> s.status, env |-> s.env, by |-> s.by, how |-> s.how]
  BY <1>2, RunRow
<1>4. Typed(s)
  BY <1>1, <1>3 DEF Typed, IsRun
<1>5. RunOK(s, N)
  <2>1. Given(s) = Given(r)
    BY <1>3 DEF Given
  <2> QED BY <1>1, <1>3, <2>1 DEF RunOK
<1>6. \A q \in In(rows, "runs") : q.key = s.key => q = r
  BY <1>3 DEF DataInv, EndpointOK, Numbered
<1>7. Good(s, I, N) /\ s.key = <<"runs", Id(r)>>
  <2>1. s.key = <<"runs", Id(r)>> /\ Id(s) = Id(r)
    BY <1>1, <1>3 DEF Typed, Id
  <2> QED BY <1>1, <1>3, <1>4, <1>5, <1>6, <2>1 DEF Good
<1> QED BY <1>7 DEF s

\* The late session of a run.
LEMMA LateWrite ==
    ASSUME DataInv, NEW I, NEW N, RunIds \subseteq I, Sessions \subseteq N, NEW r \in In(rows, "runs"), r.session = NULL,
           NEW x, x # NULL, <<x, Owner(r.by)>> \in N
    PROVE  Good([r EXCEPT !.session = x], I, N) /\ [r EXCEPT !.session = x].key = <<"runs", Id(r)>>
<1> DEFINE s == [r EXCEPT !.session = x]
<1>1. r.key[1] = "runs" /\ Typed(r) /\ IsRun(r) /\ RunOK(r, Sessions) /\ Id(r) \in I
  BY DEF DataInv, EndpointOK, In, Typed, IsSession, IsProcess, IsDenial, RunIds, Ids
<1>2. s = [key |-> r.key, rev |-> r.rev, session |-> x, parent |-> r.parent, text |-> r.text,
           err |-> r.err, status |-> r.status, env |-> r.env, by |-> r.by, how |-> r.how]
  BY <1>1 DEF IsRun
<1> HIDE DEF s
<1>3. /\ s.key = r.key /\ s.session = x /\ s.text = r.text /\ s.err = r.err /\ s.env = r.env /\ s.by = r.by
      /\ s.how = r.how
      /\ s = [key |-> s.key, rev |-> s.rev, session |-> s.session, parent |-> s.parent, text |-> s.text,
              err |-> s.err, status |-> s.status, env |-> s.env, by |-> s.by, how |-> s.how]
  BY <1>2, RunRow
<1>4. Typed(s)
  BY <1>1, <1>3 DEF Typed, IsRun
<1>5. RunOK(s, N)
  <2>1. Given(s) = Given(r)
    BY <1>3 DEF Given
  <2> QED BY <1>1, <1>3, <2>1 DEF RunOK
<1>6. \A q \in In(rows, "runs") : q.key = s.key => q = r
  BY <1>3 DEF DataInv, EndpointOK, Numbered
<1>7. Good(s, I, N) /\ s.key = <<"runs", Id(r)>>
  <2>1. s.key = <<"runs", Id(r)>> /\ Id(s) = Id(r)
    BY <1>1, <1>3 DEF Typed, Id
  <2> QED BY <1>1, <1>3, <1>4, <1>5, <1>6, <2>1 DEF Good
<1> QED BY <1>7 DEF s

\* The row of a session, there or new, and the sessions after it is written.
LEMMA SessionWrite ==
    ASSUME DataInv, NEW name \in Names, NEW s \in Session(name), NEW I, NEW N, N = Sessions \cup {<<Id(s), name>>}
    PROVE  /\ Good(s, I, N) /\ s.key = <<"sessions", Id(s)>> /\ Id(s) # NULL
           /\ \E k \in Nat : SessionIds(N) = 1..k
           /\ OneName(N)
           /\ \A x \in N \ Sessions : x[1] = Id(s)
<1> DEFINE there == {r \in In(rows, "sessions") : r.name = name}
           S == In(rows, "sessions")
<1>1. SessionIds(Sessions) = Ids(S) /\ OneName(Sessions)
  BY SessionsFields
<1>2. SessionIds(N) = Ids(S) \cup {Id(s)}
  <2>1. <<Id(s), name>>[1] = Id(s)
    OBVIOUS
  <2>2. SessionIds(N) = SessionIds(Sessions) \cup {Id(s)}
    BY <2>1 DEF SessionIds
  <2> QED BY <1>1, <2>2
<1>3. ASSUME NEW x \in N \ Sessions PROVE x[1] = Id(s)
  <2>1. x = <<Id(s), name>>
    BY <1>3
  <2> QED BY <2>1
<1>4. CASE there # {}
  <2>1. s \in S /\ s.name = name
    BY <1>4 DEF Session
  <2>2. <<Id(s), name>> \in Sessions
    BY <2>1 DEF Sessions
  <2>3. N = Sessions
    BY <2>2
  <2>4. Typed(s) /\ s.key = <<"sessions", Id(s)>>
    BY <2>1 DEF DataInv, EndpointOK, In, Typed, Id
  <2>5. Id(s) # NULL
    BY <2>4, NullAssumption DEF Typed, Id
  <2>6. s.key[1] = "sessions"
    BY <2>1 DEF In
  <2>7. Good(s, I, N)
    BY <2>1, <2>2, <2>3, <2>4, <2>6 DEF Good
  <2>8. \E k \in Nat : SessionIds(N) = 1..k
    BY <1>1, <2>3 DEF DataInv, EndpointOK, Numbered
  <2> QED BY <1>1, <1>3, <2>3, <2>4, <2>5, <2>7, <2>8
<1>5. CASE there = {}
  <2> DEFINE k == <<"sessions", NextId("sessions")>>
  <2>1. PICK v : v = 0
    OBVIOUS
  <2>2. s = [key |-> k, rev |-> v, name |-> name]
    BY <1>5, <2>1 DEF Session
  <2> HIDE DEF k
  <2>3. s.key = k /\ s.name = name /\ s = [key |-> s.key, rev |-> s.rev, name |-> s.name]
    BY <2>2, SessionRow
  <2>4. /\ NextId("sessions") \in Nat /\ NextId("sessions") \notin Ids(S)
        /\ Ids(S) \cup {NextId("sessions")} = 1..NextId("sessions")
    BY Count DEF DataInv, EndpointOK
  <2>5. k[1] = "sessions" /\ k[2] = NextId("sessions") /\ k = <<k[1], k[2]>>
    BY DEF k
  <2> HIDE DEF S, there
  <2>6. Id(s) = NextId("sessions") /\ s.key = <<"sessions", Id(s)>>
    BY <2>3, <2>5 DEF Id
  <2>7. Typed(s)
    BY <2>3, <2>4, <2>5 DEF Typed, IsSession
  <2>8. Good(s, I, N)
    BY <2>3, <2>5, <2>7 DEF Good
  <2>9. Id(s) # NULL
    BY <2>4, <2>6, NullAssumption
  <2>10. \E m \in Nat : SessionIds(N) = 1..m
    BY <1>2, <2>4, <2>6
  <2>11. ASSUME NEW x \in Sessions PROVE x[1] # Id(s) /\ x[2] # name
    <3>1. x[1] \in Ids(S)
      BY <1>1 DEF SessionIds
    <3>2. PICK q \in S : x = <<Id(q), q.name>>
      BY DEF Sessions, S
    <3>3. q.name # name
      BY <1>5 DEF there, S
    <3> QED BY <2>4, <2>6, <3>1, <3>2, <3>3
  <2>12. ASSUME NEW x \in N, NEW y \in N, x[1] = y[1] \/ x[2] = y[2] PROVE x = y
    <3>1. <<Id(s), name>>[1] = Id(s) /\ <<Id(s), name>>[2] = name
      OBVIOUS
    <3> QED BY <1>1, <2>11, <2>12, <3>1 DEF OneName
  <2> QED BY <1>3, <2>6, <2>8, <2>9, <2>10, <2>12 DEF OneName
<1> QED BY <1>4, <1>5

-----------------------------------------------------------------------------
(* Calls *)

\* Keys of rows a call writes beside a new run or session: processes, denials and runs that are there.
Old(K) == \A k \in K : k[1] # "sessions" /\ (k[1] = "runs" => k[2] \in RunIds)

\* The rows and keys of a call that writes one, two, three rows or none.
LEMMA One ==
    ASSUME NEW r, NEW I, NEW N, Good(r, I, N)
    PROVE  Writes(<<r>>, I, N) /\ Keys(<<r>>) = {r.key}
<1> DEFINE s == <<r>>
<1>1. IsList(s) /\ Len(s) = 1 /\ s[1] = r
  BY ListOne
<1> HIDE DEF s
<1>2. DOMAIN s = {1}
  <2>1. DOMAIN s = 1..1
    BY <1>1, ListFields
  <2> QED BY <2>1
<1>3. Keys(s) = {r.key}
  BY <1>1, <1>2 DEF Keys
<1> QED BY <1>3, WritesOne DEF s

LEMMA Two ==
    ASSUME NEW a, NEW b, NEW I, NEW N, Good(a, I, N), Good(b, I, N), a.key # b.key
    PROVE  Writes(<<a, b>>, I, N) /\ Keys(<<a, b>>) = {a.key, b.key}
<1> DEFINE s == <<a, b>>
<1>1. s \in Seq({a, b}) /\ DOMAIN s = {1, 2} /\ s[1] = a /\ s[2] = b
  OBVIOUS
<1> HIDE DEF s
<1>2. IsList(s)
  BY <1>1 DEF IsList
<1>3. Keys(s) = {a.key, b.key}
  BY <1>1 DEF Keys
<1>4. Writes(s, I, N)
  BY <1>1, <1>2 DEF Writes
<1> QED BY <1>3, <1>4 DEF s

LEMMA Three ==
    ASSUME NEW a, NEW b, NEW c, NEW I, NEW N, Good(a, I, N), Good(b, I, N), Good(c, I, N),
           a.key # b.key, a.key # c.key, b.key # c.key
    PROVE  Writes(<<a, b, c>>, I, N) /\ Keys(<<a, b, c>>) = {a.key, b.key, c.key}
<1> DEFINE s == <<a, b, c>>
<1>1. s \in Seq({a, b, c}) /\ DOMAIN s = {1, 2, 3} /\ s[1] = a /\ s[2] = b /\ s[3] = c
  OBVIOUS
<1> HIDE DEF s
<1>2. IsList(s)
  BY <1>1 DEF IsList
<1>3. Keys(s) = {a.key, b.key, c.key}
  BY <1>1 DEF Keys
<1>4. Writes(s, I, N)
  BY <1>1, <1>2 DEF Writes
<1> QED BY <1>3, <1>4 DEF s

LEMMA None == ASSUME NEW I, NEW N PROVE Writes(<<>>, I, N) /\ Keys(<<>>) = {}
<1>1. DOMAIN <<>> = {}
  OBVIOUS
<1>2. Keys(<<>>) = {}
  BY <1>1 DEF Keys
<1> QED BY <1>2, WritesNone

\* The runs of the processes.
LEMMA RunOf ==
    ASSUME DataInv, NEW p \in In(rows, "processes")
    PROVE  Row(rows, "runs", p.run) # {} /\ Row(rows, "runs", p.run) \subseteq In(rows, "runs")
BY DEF DataInv, EndpointOK, RunIds, Ids, Row

\* What endImage and maybeEndRun write is good.
LEMMA EndWrites ==
    ASSUME DataInv, NEW I, NEW N, RunIds \subseteq I, Sessions \subseteq N, NEW p \in In(rows, "processes"),
           NEW reason, NEW members
    PROVE  /\ Writes(End(p, reason, members), I, N) /\ Old(Keys(End(p, reason, members)))
           /\ \A k \in Keys(End(p, reason, members)) : k[1] = "processes" => k[2] \in ProcessIds
<1> DEFINE e == [p EXCEPT !.end = reason]
           r == CHOOSE q \in Row(rows, "runs", p.run) : TRUE
           s == [r EXCEPT !.status = "exited"]
           more == IF \E q \in members : Live(q) /\ q.key # p.key THEN <<>> ELSE <<s>>
<1>1. End(p, reason, members) = <<e>> \o more
  BY DEF End
<1>2. Good(e, I, N) /\ e.key[1] = "processes" /\ e.key[2] \in ProcessIds
  BY EndedWrite DEF In, Ids, Id, ProcessIds
<1>3. Writes(<<e>>, I, N) /\ Keys(<<e>>) = {e.key}
  BY <1>2, One
<1>4. r \in In(rows, "runs")
  BY RunOf
<1>5. Good(s, I, N) /\ s.key = <<"runs", Id(r)>>
  <2> HIDE DEF r
  <2> QED BY <1>4, StatusWrite
<1>6. Id(r) \in RunIds
  BY <1>4 DEF RunIds, Ids
<1> HIDE DEF e, s, r
<1>7. Writes(more, I, N) /\ Keys(more) \subseteq {s.key}
  BY <1>5, One, None
<1>8. s.key[1] = "runs" /\ s.key[2] = Id(r)
  BY <1>5
<1> DEFINE first == <<e>>
<1> HIDE DEF more, first
<1>9. Writes(first \o more, I, N) /\ Keys(first \o more) = Keys(first) \cup Keys(more)
  <2>1. Keys(first) \cap Keys(more) = {}
    BY <1>2, <1>3, <1>7, <1>8 DEF first
  <2>2. Writes(first, I, N)
    BY <1>3 DEF first
  <2> QED BY <1>7, <2>1, <2>2, Both
<1>10. Old(Keys(first \o more)) /\ \A k \in Keys(first \o more) : k[1] = "processes" => k[2] \in ProcessIds
  BY <1>2, <1>3, <1>6, <1>7, <1>8, <1>9 DEF Old, first
<1> QED BY <1>1, <1>9, <1>10 DEF first

\* What is written fits if it holds a row for each run and session that is new.
LEMMA FitsKeys ==
    ASSUME DataInv, NEW s, NEW I, NEW N, Writes(s, I, N), RunIds \subseteq I, Sessions \subseteq N,
           \E k \in Nat : I = 1..k, \E k \in Nat : SessionIds(N) = 1..k, OneName(N),
           \A id \in I \ RunIds : <<"runs", id>> \in Keys(s),
           \A x \in N \ Sessions : <<"sessions", x[1]>> \in Keys(s)
    PROVE  Fits(s, I, N)
BY DEF Fits, Keys

\* A run that is launched.
LEMMA RunWrite ==
    ASSUME DataInv, NEW id, id = NextId("runs"), NEW N, Sessions \subseteq N,
           NEW launch \in Launcher \X How, NEW parent, NEW env, IsList(env), NEW session,
           \/ session = NULL /\ (Launches[launch].text = <<>> \/ Owner(launch[1]) = NULL)
           \/ session # NULL /\ <<session, Owner(launch[1])>> \in N,
           NEW r,
           r = [key |-> <<"runs", id>>, rev |-> 0, session |-> session, parent |-> parent, text |-> Launches[launch].text,
                err |-> Launches[launch].err, status |-> "running", env |-> env, by |-> launch[1], how |-> launch[2]]
    PROVE  Good(r, RunIds \cup {id}, N) /\ r.key = <<"runs", id>>
<1> DEFINE k == <<"runs", id>>
           text == Launches[launch].text
           err == Launches[launch].err
           by == launch[1]
           how == launch[2]
<1>1. PICK v : v = 0
  OBVIOUS
<1>2. PICK status : status = "running"
  OBVIOUS
<1>3. r = [key |-> k, rev |-> v, session |-> session, parent |-> parent, text |-> text,
           err |-> err, status |-> status, env |-> env, by |-> by, how |-> how]
  BY <1>1, <1>2, Zenon
<1>4. by \in Launcher /\ how \in How
  OBVIOUS
<1>5. (text = (IF how = "inline" THEN TextOf(by) ELSE FileOf(how, TextOf(by)).after) /\ err = FALSE) \/ (text = <<>> /\ err = TRUE)
  BY Recorded
<1>6. \/ session = NULL /\ (text = <<>> \/ Owner(by) = NULL)
      \/ session # NULL /\ <<session, Owner(by)>> \in N
  OBVIOUS
<1>7. k[1] = "runs" /\ k[2] = id /\ k = <<k[1], k[2]>>
  OBVIOUS
<1> HIDE DEF k, text, err, by, how
<1>8. /\ r.key = k /\ r.session = session /\ r.text = text /\ r.err = err /\ r.env = env /\ r.by = by /\ r.how = how
      /\ r = [key |-> r.key, rev |-> r.rev, session |-> r.session, parent |-> r.parent, text |-> r.text,
              err |-> r.err, status |-> r.status, env |-> r.env, by |-> r.by, how |-> r.how]
  BY <1>3, RunRow
<1>9. id \in Nat /\ id \notin RunIds
  BY Count DEF DataInv, EndpointOK, RunIds
<1>10. Typed(r)
  BY <1>7, <1>8, <1>9 DEF Typed, IsRun
<1>11. (r.text = Given(r) /\ ~r.err) \/ (r.text = <<>> /\ r.err)
  BY <1>5, <1>8 DEF Given
<1>12. RunOK(r, N)
  BY <1>4, <1>6, <1>8, <1>11 DEF RunOK
<1>13. ASSUME NEW q \in In(rows, "runs") PROVE q.key # r.key
  <2>1. Id(q) \in RunIds
    BY DEF RunIds, Ids
  <2> QED BY <1>7, <1>8, <1>9, <2>1 DEF Id
<1>14. Good(r, RunIds \cup {id}, N)
  BY <1>7, <1>8, <1>10, <1>12, <1>13 DEF Good, Id
<1> QED BY <1>8, <1>14 DEF k

\* Every call of the correlator keeps the invariant of the rows; first a launch: its session, if there is
\* one, is written before its run, and its run before the image.
LEMMA LaunchInv ==
    ASSUME DataInv, NEW actor \in {p \in In(rows, "processes") : Live(p)} \cup {NULL}, Launch(actor)
    PROVE  Committed
<1> DEFINE id == NextId("runs")
           launch == scenario.launches[id]
           by == launch[1]
           how == launch[2]
           around == IF actor = NULL THEN {} ELSE Row(rows, "runs", actor.run)
           inherited == IF around = {} THEN <<>> ELSE (CHOOSE r \in around : TRUE).env
           env == EnvOf(by, inherited)
           made == Launches[launch]
           run(session) ==
              [key |-> <<"runs", id>>, rev |-> 0, session |-> session, parent |-> IF around = {} THEN NULL ELSE actor.run,
               text |-> made.text, err |-> made.err, status |-> "running", env |-> env, by |-> by, how |-> how]
           image == Image(id, NULL, NULL, TRUE)
           ended == IF around = {} THEN <<>> ELSE End(actor, "exec", UNION {Members(r) : r \in around})
           rest == <<image>> \o ended
           I == RunIds \cup {id}
<1>1. /\ id <= Len(scenario.launches)
      /\ IF DetectRun(made.text, env) = {} THEN Commit(<<run(NULL)>> \o rest)
         ELSE \E name \in DetectRun(made.text, env) : \E s \in Session(name) : Commit(<<s, run(Id(s))>> \o rest)
  BY Zenon DEF Launch
<1>2. /\ id \in Nat /\ id \notin RunIds /\ I = 1..id /\ id >= 1
  <2>1. /\ NextId("runs") \in Nat /\ NextId("runs") \notin Ids(In(rows, "runs"))
        /\ Ids(In(rows, "runs")) \cup {NextId("runs")} = 1..NextId("runs")
    BY Count DEF DataInv, EndpointOK
  <2> QED BY <2>1 DEF RunIds
<1>3. launch \in Launcher \X How /\ by \in Launcher /\ how \in How
  <2>1. scenario.launches \in Seq(Launcher \X How)
    BY PagesAssumption DEF DataInv, EndpointOK
  <2>2. launch \in Launcher \X How
    <3> HIDE DEF id
    <3> QED BY <1>1, <1>2, <2>1
  <2> HIDE DEF launch
  <2> QED BY <2>2
<1>4. around = {} \/ (actor \in In(rows, "processes") /\ around = Row(rows, "runs", actor.run))
  OBVIOUS
<1>5. IsList(inherited)
  <2>1. CASE around = {}
    BY <2>1, ListNone
  <2>2. CASE around # {}
    <3>1. around \subseteq In(rows, "runs")
      BY <1>4, RunOf
    <3>2. \A r \in around : IsList(r.env)
      BY <3>1 DEF DataInv, EndpointOK, RunOK
    <3> HIDE DEF around
    <3> QED BY <2>2, <3>2
  <2> QED BY <2>1, <2>2
<1>6. IsList(env)
  <2> HIDE DEF inherited, by
  <2> QED BY <1>3, <1>5, EnvList
<1>7. made.text \in {<<>>, TextOf(by), TextOf(by) \o <<"(", "(">>}
  <2>1. made.text \in {<<>>, IF how = "inline" THEN TextOf(by) ELSE FileOf(how, TextOf(by)).after}
    <3> HIDE DEF launch
    <3> QED BY <1>3, Recorded
  <2>2. FileOf(how, TextOf(by)).after \in {<<>>, TextOf(by), TextOf(by) \o <<"(", "(">>}
    <3> HIDE DEF how, by
    <3> QED BY DEF FileOf, File
  <2> HIDE DEF how, by, made
  <2> QED BY <2>1, <2>2
<1>8. DetectRun(made.text, env) = IF by[1] = "other" \/ made.text = <<>> THEN {} ELSE {Owner(by)}
  <2> HIDE DEF by, inherited, made
  <2> QED BY <1>3, <1>5, <1>7, RunClaims
<1> HIDE DEF id, launch, around, inherited
<1>9. ASSUME NEW N, Sessions \subseteq N
      PROVE  Writes(rest, I, N) /\ Old(Keys(rest))
  <2>1. Good(image, I, N) /\ image.key[1] = "processes" /\ image.key[2] \notin ProcessIds
    <3>1. Good(image, I, N) /\ image.key = <<"processes", NextId("processes")>>
      BY ImageWrite
    <3>2. NextId("processes") \notin ProcessIds
      BY Count DEF DataInv, EndpointOK, ProcessIds
    <3> DEFINE k == <<"processes", NextId("processes")>>
    <3>3. k[1] = "processes" /\ k[2] = NextId("processes")
      OBVIOUS
    <3> HIDE DEF k, I, image
    <3> QED BY <3>1, <3>2, <3>3 DEF k
  <2> HIDE DEF image
  <2>2. Writes(<<image>>, I, N) /\ Keys(<<image>>) = {image.key}
    BY <2>1, One
  <2>3. Writes(ended, I, N) /\ Old(Keys(ended)) /\ \A k \in Keys(ended) : k[1] = "processes" => k[2] \in ProcessIds
    <3>1. CASE around = {}
      BY <3>1, None DEF Old
    <3>2. CASE around # {}
      <4>1. RunIds \subseteq I
        OBVIOUS
      <4> HIDE DEF I
      <4> QED BY <1>4, <1>9, <3>2, <4>1, EndWrites
    <3> QED BY <3>1, <3>2
  <2> DEFINE first == <<image>>
  <2> HIDE DEF ended, first, I
  <2>4. Writes(first \o ended, I, N) /\ Keys(first \o ended) = Keys(first) \cup Keys(ended)
    <3>1. Keys(first) \cap Keys(ended) = {}
      BY <2>1, <2>2, <2>3 DEF first
    <3> QED BY <2>2, <2>3, <3>1, Both DEF first
  <2> QED BY <2>1, <2>2, <2>3, <2>4 DEF Old, first
<1>10. \E k \in Nat : I = 1..k
  BY <1>2
<1>11. RunIds \subseteq I /\ \A x \in I \ RunIds : x = id
  OBVIOUS
<1>12. CASE DetectRun(made.text, env) = {}
  <2> DEFINE r == run(NULL)
             first == <<r>>
  <2>1. Commit(first \o rest)
    BY <1>1, <1>12
  <2>2. made.text = <<>> \/ Owner(by) = NULL
    BY <1>3, <1>8, <1>12, OwnerNamed
  <2>3. Good(r, I, Sessions) /\ r.key = <<"runs", id>>
    <3> HIDE DEF env
    <3> QED BY <1>3, <1>6, <2>2, RunWrite DEF id
  <2> HIDE DEF r
  <2>4. Writes(first, I, Sessions) /\ Keys(first) = {<<"runs", id>>}
    <3> HIDE DEF I
    <3> QED BY <2>3, One
  <2> HIDE DEF I, rest, first
  <2>5. Writes(rest, I, Sessions) /\ Old(Keys(rest))
    BY <1>9
  <2>6. Writes(first \o rest, I, Sessions) /\ Keys(first \o rest) = Keys(first) \cup Keys(rest)
    <3>1. Keys(first) \cap Keys(rest) = {}
      BY <1>2, <2>4, <2>5 DEF Old
    <3> QED BY <2>4, <2>5, <3>1, Both
  <2>7. Fits(first \o rest, I, Sessions)
    <3>1. \E k \in Nat : SessionIds(Sessions) = 1..k
      BY SessionsFields DEF DataInv, EndpointOK, Numbered
    <3> QED BY <1>10, <1>11, <2>4, <2>6, <3>1, SessionsFields, FitsKeys
  <2> QED BY <2>1, <2>7, CommitInv
<1>13. CASE DetectRun(made.text, env) # {}
  <2>1. DetectRun(made.text, env) = {Owner(by)} /\ by[1] # "other"
    BY <1>8, <1>13
  <2>2. PICK s \in Session(Owner(by)) : Commit(<<s, run(Id(s))>> \o rest)
    BY <1>1, <2>1
  <2> DEFINE r == run(Id(s))
             first == <<s, r>>
             x == <<Id(s), Owner(by)>>
             N == Sessions \cup {x}
  <2>3. Owner(by) \in Names
    BY <1>3, <2>1, OwnerNamed
  <2>4. /\ Good(s, I, N) /\ s.key = <<"sessions", Id(s)>> /\ Id(s) # NULL
        /\ \E k \in Nat : SessionIds(N) = 1..k
        /\ OneName(N)
        /\ \A y \in N \ Sessions : y[1] = Id(s)
    <3>1. N = Sessions \cup {<<Id(s), Owner(by)>>}
      OBVIOUS
    <3> DEFINE name == Owner(by)
    <3>2. s \in Session(name) /\ name \in Names /\ N = Sessions \cup {<<Id(s), name>>}
      BY <2>2, <2>3, <3>1
    <3> HIDE DEF I, N, name
    <3> QED BY <3>2, SessionWrite
  <2>5. Good(r, I, N) /\ r.key = <<"runs", id>>
    <3> HIDE DEF env
    <3>1. x \in N /\ Sessions \subseteq N
      OBVIOUS
    <3> HIDE DEF N
    <3> QED BY <1>3, <1>6, <2>4, <3>1, RunWrite DEF id
  <2>6. Sessions \subseteq N
    OBVIOUS
  <2> HIDE DEF r, N, I, rest, x
  <2>7. Writes(first, I, N) /\ Keys(first) = {s.key, r.key}
    <3>1. s.key # r.key
      BY <2>4, <2>5
    <3> QED BY <2>4, <2>5, <3>1, Two
  <2>a. Commit(first \o rest)
    BY <2>2 DEF r
  <2> HIDE DEF first
  <2>8. Writes(rest, I, N) /\ Old(Keys(rest))
    BY <1>9, <2>6
  <2>9. Writes(first \o rest, I, N) /\ Keys(first \o rest) = Keys(first) \cup Keys(rest)
    <3>1. Keys(first) \cap Keys(rest) = {}
      BY <1>2, <2>4, <2>5, <2>7, <2>8 DEF Old
    <3> QED BY <2>7, <2>8, <3>1, Both
  <2>10. Fits(first \o rest, I, N)
    BY <1>10, <1>11, <2>4, <2>5, <2>6, <2>7, <2>9, FitsKeys
  <2> QED BY <2>a, <2>10, CommitInv
<1> QED BY <1>12, <1>13

\* A call that adds no run and no session.
LEMMA PlainInv ==
    ASSUME DataInv, NEW s, Writes(s, RunIds, Sessions), Commit(s)
    PROVE  Committed
BY FitsSame, CommitInv

\* The run of a process is there.
LEMMA RunKnown ==
    ASSUME DataInv, NEW p \in In(rows, "processes")
    PROVE  p.run \in RunIds
BY DEF DataInv, EndpointOK

LEMMA ForkInv ==
    ASSUME DataInv, NEW p \in In(rows, "processes"), Fork(p)
    PROVE  Committed
<1> DEFINE q == Image(p.run, Id(p), NULL, p.platform)
<1>1. Commit(<<q>>)
  BY DEF Fork
<1>2. Good(q, RunIds, Sessions)
  BY RunKnown, ImageWrite
<1> HIDE DEF q
<1>3. Writes(<<q>>, RunIds, Sessions)
  BY <1>2, One
<1> QED BY <1>1, <1>3, PlainInv

LEMMA ExecInv ==
    ASSUME DataInv, NEW p \in In(rows, "processes"), Exec(p)
    PROVE  Committed
<1> DEFINE new == Image(p.run, p.parent, Id(p), FALSE)
           ended == End(p, "exec", {new})
           first == <<new>>
<1>1. Commit(first \o ended)
  BY Zenon DEF Exec
<1>2. Good(new, RunIds, Sessions) /\ new.key[1] = "processes" /\ new.key[2] \notin ProcessIds
  <2> DEFINE id == p.run
             parent == p.parent
             prev == Id(p)
  <2>1. id \in RunIds
    BY RunKnown
  <2>2. PICK platform : platform = FALSE
    OBVIOUS
  <2>3. new = Image(id, parent, prev, platform)
    BY <2>2, Zenon
  <2> HIDE DEF id, parent, prev, new
  <2>4. /\ Good(Image(id, parent, prev, platform), RunIds, Sessions)
        /\ Image(id, parent, prev, platform).key = <<"processes", NextId("processes")>>
    BY <2>1, ImageWrite
  <2>5. NextId("processes") \notin ProcessIds
    BY Count DEF DataInv, EndpointOK, ProcessIds
  <2> QED BY <2>3, <2>4, <2>5
<1>3. Writes(ended, RunIds, Sessions) /\ \A k \in Keys(ended) : k[1] = "processes" => k[2] \in ProcessIds
  BY EndWrites
<1> HIDE DEF new, ended
<1>4. Writes(first, RunIds, Sessions) /\ Keys(first) = {new.key}
  BY <1>2, One
<1> HIDE DEF first
<1>5. Writes(first \o ended, RunIds, Sessions)
  <2>1. Keys(first) \cap Keys(ended) = {}
    BY <1>2, <1>3, <1>4
  <2> QED BY <1>3, <1>4, <2>1, Both
<1> QED BY <1>1, <1>5, PlainInv

LEMMA ExitInv ==
    ASSUME DataInv, NEW p \in In(rows, "processes"), Exit(p)
    PROVE  Committed
<1>1. PICK r : Commit(End(p, "exit", Members(r)))
  BY DEF Exit
<1>2. Writes(End(p, "exit", Members(r)), RunIds, Sessions)
  BY EndWrites
<1> QED BY <1>1, <1>2, PlainInv

\* A denial, and the session it brings.
LEMMA AttributeInv ==
    ASSUME DataInv, NEW p \in In(rows, "processes"), NEW q \in Row(rows, "runs", p.run),
           NEW message \in {<<>>, TextOf(q.by)}, Attribute(p, message)
    PROVE  Committed
<1> DEFINE denial == [key |-> <<"denials", NextId("denials")>>, rev |-> 0, run |-> p.run, process |-> Id(p), count |-> 1]
<1>1. PICK r \in Row(rows, "runs", p.run) :
        IF r.session # NULL \/ DetectDenial(message) = {} THEN Commit(<<denial>>)
        ELSE \E name \in DetectDenial(message) : \E s \in Session(name) :
               Commit(<<denial, s, [r EXCEPT !.session = Id(s)]>>)
  BY Zenon DEF Attribute
<1>2. ASSUME NEW I, NEW N PROVE Good(denial, I, N) /\ denial.key[1] = "denials"
  <2> DEFINE k == <<"denials", NextId("denials")>>
             run == p.run
             process == Id(p)
  <2>1. PICK v : v = 0
    OBVIOUS
  <2>2. PICK n : n = 1
    OBVIOUS
  <2>3. denial = [key |-> k, rev |-> v, run |-> run, process |-> process, count |-> n]
    BY <2>1, <2>2, Zenon
  <2> HIDE DEF denial, k, run, process
  <2>4. /\ denial.key = k /\ denial.process = process
        /\ denial = [key |-> denial.key, rev |-> denial.rev, run |-> denial.run, process |-> denial.process, count |-> denial.count]
    BY <2>3, DenialRow
  <2>5. k[1] = "denials" /\ k[2] \in Nat /\ k = <<k[1], k[2]>> /\ k[2] = NextId("denials")
    BY NextIdNat DEF k
  <2> HIDE DEF k
  <2>6. Typed(denial)
    BY <2>4, <2>5 DEF Typed, IsDenial
  <2>7. denial.process \in ProcessIds
    BY <2>4 DEF ProcessIds, Ids, process
  <2> QED BY <2>4, <2>5, <2>6, <2>7 DEF Good, Id
<1> HIDE DEF denial
<1>3. r = q /\ r \in In(rows, "runs")
  <2>1. r \in In(rows, "runs") /\ q \in In(rows, "runs") /\ Id(r) = Id(q)
    BY DEF Row
  <2>2. r.key = q.key
    BY <2>1 DEF DataInv, EndpointOK, In, Typed, Id
  <2> QED BY <2>1, <2>2 DEF DataInv, EndpointOK, Numbered
<1>4. CASE r.session # NULL \/ DetectDenial(message) = {}
  <2>1. Writes(<<denial>>, RunIds, Sessions)
    BY <1>2, One
  <2> QED BY <1>1, <1>4, <2>1, PlainInv
<1>5. CASE ~(r.session # NULL \/ DetectDenial(message) = {})
  <2>1. r.by \in Launcher
    BY <1>3 DEF DataInv, EndpointOK, RunOK
  <2>2. DetectDenial(message) = {Owner(r.by)} /\ r.by[1] = "claude"
    <3>1. Claude(message) = IF r.by[1] = "claude" /\ message # <<>> THEN {Owner(r.by)} ELSE {}
      BY <1>3, <2>1, ClaudeClaims
    <3> QED BY <1>5, <3>1 DEF DetectDenial
  <2> DEFINE name == Owner(r.by)
  <2>3. PICK s \in Session(name) : Commit(<<denial, s, [r EXCEPT !.session = Id(s)]>>)
    BY <1>1, <1>5, <2>2
  <2>4. name \in Names
    BY <2>1, <2>2, OwnerNamed
  <2> DEFINE x == <<Id(s), name>>
             N == Sessions \cup {x}
             late == [r EXCEPT !.session = Id(s)]
  <2>5. /\ Good(s, RunIds, N) /\ s.key = <<"sessions", Id(s)>> /\ Id(s) # NULL
        /\ \E k \in Nat : SessionIds(N) = 1..k
        /\ OneName(N)
        /\ \A y \in N \ Sessions : y[1] = Id(s)
    <3>1. N = Sessions \cup {<<Id(s), name>>}
      OBVIOUS
    <3> HIDE DEF N, name
    <3> QED BY <2>4, <3>1, SessionWrite
  <2>6. Good(late, RunIds, N) /\ late.key = <<"runs", Id(r)>>
    <3>1. <<Id(s), Owner(r.by)>> \in N /\ Sessions \subseteq N
      OBVIOUS
    <3> HIDE DEF N
    <3> QED BY <1>3, <1>5, <2>5, <3>1, LateWrite
  <2> HIDE DEF late
  <2> DEFINE all == <<denial, s, late>>
  <2>7. Writes(all, RunIds, N) /\ Keys(all) = {denial.key, s.key, late.key}
    <3>1. denial.key # s.key /\ denial.key # late.key /\ s.key # late.key
      BY <1>2, <2>5, <2>6
    <3> HIDE DEF N
    <3> QED BY <1>2, <2>5, <2>6, <3>1, Three
  <2>8. Commit(all)
    BY <2>3 DEF late
  <2> HIDE DEF all
  <2>9. Sessions \subseteq N
    OBVIOUS
  <2>10. Fits(all, RunIds, N)
    <3>1. \E k \in Nat : RunIds = 1..k
      BY DEF DataInv, EndpointOK, Numbered, RunIds
    <3> HIDE DEF N
    <3> QED BY <2>5, <2>7, <2>9, <3>1, FitsKeys
  <2> HIDE DEF N
  <2> QED BY <2>8, <2>10, CommitInv
<1> QED BY <1>4, <1>5

LEMMA DenialInv ==
    ASSUME DataInv, NEW p \in In(rows, "processes"), Denial(p)
    PROVE  Committed
<1>1. CASE \E r \in Row(rows, "runs", p.run) : \E message \in {<<>>, TextOf(r.by)} : Attribute(p, message)
  BY <1>1, AttributeInv
<1>2. CASE \E d \in Where(rows, "denials", "run", p.run) : Commit(<<[d EXCEPT !.count = @ + 1]>>)
  <2>1. PICK d \in Where(rows, "denials", "run", p.run) : Commit(<<[d EXCEPT !.count = @ + 1]>>)
    BY <1>2
  <2>2. d.key[1] = "denials" /\ Typed(d) /\ IsDenial(d)
    BY DEF DataInv, EndpointOK, Where, In, Typed, IsSession, IsRun, IsProcess
  <2> DEFINE n == d.count + 1
             e == [d EXCEPT !.count = n]
  <2> HIDE DEF n
  <2>3. e = [key |-> d.key, rev |-> d.rev, run |-> d.run, process |-> d.process, count |-> n]
    BY <2>2 DEF IsDenial
  <2> HIDE DEF e
  <2>4. e.key = d.key /\ e.process = d.process /\ e = [key |-> e.key, rev |-> e.rev, run |-> e.run, process |-> e.process, count |-> e.count]
    BY <2>3, DenialRow
  <2>5. Typed(e)
    BY <2>2, <2>4 DEF Typed, IsDenial
  <2>6. Good(e, RunIds, Sessions)
    <3>1. d \in In(rows, "denials")
      BY DEF Where
    <3>2. e.process \in ProcessIds /\ Id(e) \in Ids(In(rows, "denials"))
      BY <2>4, <3>1 DEF DataInv, EndpointOK, Ids, Id
    <3> QED BY <2>2, <2>4, <2>5, <3>2 DEF Good
  <2>7. Writes(<<e>>, RunIds, Sessions)
    BY <2>6, One
  <2>8. Commit(<<e>>)
    BY <2>1 DEF e, n
  <2> QED BY <2>7, <2>8, PlainInv
<1> QED BY <1>1, <1>2 DEF Denial

\* A finite set as a sequence.
LEMMA Listed ==
    ASSUME NEW S, IsFiniteSet(S)
    PROVE  SetToSeq(S) \in Seq(S) /\ \A i, j \in DOMAIN SetToSeq(S) : SetToSeq(S)[i] = SetToSeq(S)[j] => i = j
<1> DEFINE n == Cardinality(S)
<1>1. n \in Nat /\ ExistsBijection(1..n, S)
  BY FS_CardinalityType
<1>2. PICK f : f \in Bijection(1..n, S)
  BY <1>1 DEF ExistsBijection
<1>3. f \in [1..n -> S] /\ IsInjective(f)
  BY <1>2 DEF Bijection, Injection, IsInjective
<1>4. SetToSeq(S) \in [1..n -> S] /\ IsInjective(SetToSeq(S))
  BY <1>3 DEF SetToSeq
<1> HIDE DEF n
<1>5. \A i, j \in DOMAIN SetToSeq(S) : SetToSeq(S)[i] = SetToSeq(S)[j] => i = j
  BY <1>4 DEF IsInjective
<1> QED BY <1>1, <1>4, <1>5

\* The keys of those runs and of their processes.
Closed(J) == {<<"runs", id>> : id \in J} \cup {p.key : p \in {q \in In(rows, "processes") : q.run \in J}}

\* The rows Shutdown writes for a run.
LEMMA ClosingWrites ==
    ASSUME DataInv, NEW r \in In(rows, "runs")
    PROVE  /\ Writes(Closing(r), RunIds, Sessions)
           /\ Keys(Closing(r)) \subseteq Closed({Id(r)})
<1> DEFINE live == {q \in Members(r) : Live(q)}
           S == {[p EXCEPT !.end = "watch_stopped"] : p \in live}
           first == SetToSeq(S)
           s == [r EXCEPT !.status = "watch_stopped"]
           more == IF r.status = "running" THEN <<s>> ELSE <<>>
<1>1. Closing(r) = first \o more
  BY Zenon DEF Closing
<1>2. live \subseteq In(rows, "processes") /\ live \subseteq rows /\ \A p \in live : p.run = Id(r)
  BY DEF Members, Where, In
<1>3. IsFiniteSet(S)
  <2>1. IsFiniteSet(live)
    BY <1>2, FS_Subset DEF DataInv, EndpointOK
  <2> DEFINE f == [p \in live |-> [p EXCEPT !.end = "watch_stopped"]]
  <2> HIDE DEF live
  <2>2. f \in Surjection(live, S)
    BY DEF Surjection
  <2> HIDE DEF f, S
  <2> QED BY <2>1, <2>2, FS_Surjection
<1>4. /\ \A x \in S : Good(x, RunIds, Sessions) /\ x.key[1] = "processes" /\ \E p \in live : x.key = p.key
      /\ \A x, y \in S : x.key = y.key => x = y
  <2>1. ASSUME NEW p \in live
        PROVE  /\ Good([p EXCEPT !.end = "watch_stopped"], RunIds, Sessions)
               /\ [p EXCEPT !.end = "watch_stopped"].key = p.key /\ p \in rows /\ p.key[1] = "processes"
    <3>1. p \in In(rows, "processes")
      BY <1>2
    <3>2. p \in rows /\ p.key[1] = "processes"
      BY <3>1 DEF In
    <3> HIDE DEF live
    <3> QED BY <3>1, <3>2, EndedWrite
  <2>2. ASSUME NEW p \in live, NEW q \in live, p.key = q.key PROVE p = q
    BY <2>1, <2>2, SameKey
  <2> DEFINE ended(p) == [p EXCEPT !.end = "watch_stopped"]
  <2>3. \A p \in live : Good(ended(p), RunIds, Sessions) /\ ended(p).key = p.key /\ p.key[1] = "processes"
    BY <2>1
  <2>4. S = {ended(p) : p \in live}
    OBVIOUS
  <2> HIDE DEF live, ended, S
  <2>5. \A x \in S : \E p \in live : x = ended(p) /\ x.key = p.key
    BY <2>3, <2>4
  <2> QED BY <2>2, <2>3, <2>5
<1>5. Good(s, RunIds, Sessions) /\ s.key = <<"runs", Id(r)>>
  BY StatusWrite
<1> HIDE DEF S, s
<1>6. first \in Seq(S) /\ \A i, j \in DOMAIN first : first[i] = first[j] => i = j
  BY <1>3, Listed
<1> HIDE DEF first
<1>7. \A i \in DOMAIN first : first[i] \in S
  BY <1>6
<1>8. Writes(first, RunIds, Sessions) /\ \A k \in Keys(first) : k[1] = "processes" /\ \E p \in live : k = p.key
  BY <1>4, <1>6, <1>7 DEF Writes, Keys, IsList
<1>9. Writes(more, RunIds, Sessions) /\ Keys(more) \subseteq {s.key}
  BY <1>5, One, None
<1> HIDE DEF more
<1>10. Writes(first \o more, RunIds, Sessions) /\ Keys(first \o more) = Keys(first) \cup Keys(more)
  <2>1. Keys(first) \cap Keys(more) = {}
    BY <1>5, <1>8, <1>9
  <2> QED BY <1>8, <1>9, <2>1, Both
<1> HIDE DEF live
<1>11. Keys(first) \subseteq Closed({Id(r)})
  BY <1>2, <1>8 DEF Closed
<1>12. Keys(first \o more) \subseteq Closed({Id(r)})
  BY <1>5, <1>9, <1>10, <1>11 DEF Closed
<1> QED BY <1>1, <1>10, <1>12

\* Sequences one after the other: h after each.
Lists(F, n) == F = [i \in 1..n |-> F[i]] /\ \A i \in 1..n : IsList(F[i])
Chain(h, F, n) ==
    /\ FlattenSeq(F) = h[n] /\ h[1] = F[1]
    /\ \A i \in 2..n : h[i] = h[i - 1] \o F[i]

\* There is such an h.
LEMMA Flattened ==
    ASSUME NEW n \in Nat, n # 0, NEW F, Lists(F, n)
    PROVE  \E h : Chain(h, F, n)
<1>0. F = [i \in 1..n |-> F[i]] /\ \A i \in 1..n : IsList(F[i])
  BY DEF Lists
<1> DEFINE U == UNION {{F[i][j] : j \in DOMAIN F[i]} : i \in 1..n}
           A == Seq(U)
           turn == [x \in A \X (1..n) |-> x[1] \o F[x[2]]]
<1>1. ASSUME NEW i \in 1..n PROVE F[i] \in A
  <2>1. PICK S : F[i] \in Seq(S)
    BY <1>0 DEF IsList
  <2>2. \A j \in DOMAIN F[i] : F[i][j] \in U
    OBVIOUS
  <2>3. Len(F[i]) \in Nat /\ F[i] \in [1..Len(F[i]) -> S]
    BY <2>1
  <2> HIDE DEF U
  <2>4. F[i] \in [1..Len(F[i]) -> U]
    BY <2>2, <2>3
  <2> QED BY <2>3, <2>4
<1>2. turn \in [A \X (1..n) -> A]
  <2>1. ASSUME NEW x \in A \X (1..n) PROVE x[1] \o F[x[2]] \in A
    <3>1. x[1] \in A /\ F[x[2]] \in A
      BY <1>1
    <3> HIDE DEF U
    <3> QED BY <3>1, ConcatProperties
  <2> HIDE DEF A
  <2> QED BY <2>1
<1>3. <<>> \in A
  OBVIOUS
<1>4. PICK f \in [0..n -> A] : IsLoop(f, n, <<>>, turn)
  <2> HIDE DEF A, turn
  <2> QED BY <1>2, <1>3, LoopExists
<1>5. \A i \in 0..n : f[i] = IF i = 0 THEN <<>> ELSE turn[<<f[i - 1], i>>]
  BY <1>4 DEF IsLoop
<1>6. ASSUME NEW i \in 1..n PROVE f[i] = f[i - 1] \o F[i]
  <2>1. i # 0 /\ i - 1 \in 0..n /\ i \in 0..n
    OBVIOUS
  <2>2. f[i - 1] \in A
    BY <2>1
  <2>3. turn[<<f[i - 1], i>>] = f[i - 1] \o F[i]
    <3> HIDE DEF A
    <3> QED BY <2>2
  <2> HIDE DEF turn, A
  <2> QED BY <1>5, <2>1, <2>3
<1>7. f[1] = F[1]
  <2>1. 1 \in 1..n /\ 1 - 1 = 0 /\ 0 \in 0..n
    OBVIOUS
  <2>2. f[0] = <<>>
    BY <1>5, <2>1
  <2>3. <<>> \o F[1] = F[1]
    <3>1. F[1] \in Seq(U)
      BY <1>1, <2>1
    <3> QED BY <3>1, ConcatEmptySeq
  <2> QED BY <1>6, <2>1, <2>2, <2>3
<1> DEFINE Flat(h) == [i \in 1..Len(F) |-> IF i = 1 THEN F[i] ELSE h[i - 1] \o F[i]]
           flatten == CHOOSE h : h = Flat(h)
           g == [i \in 1..n |-> f[i]]
<1>8. Len(F) = n
  <2>1. F \in Seq({F[i] : i \in 1..n})
    <3> DEFINE X == {F[i] : i \in 1..n}
    <3>1. F \in [1..n -> X]
      BY <1>0
    <3> HIDE DEF X
    <3>2. F \in Seq(X)
      BY <3>1
    <3> QED BY <3>2 DEF X
  <2>2. DOMAIN F = 1..n
    BY <1>0
  <2> HIDE DEF A, turn, U, Flat, flatten, g
  <2>3. DOMAIN F = 1..Len(F) /\ Len(F) \in Nat
    BY <2>1, LenProperties
  <2>4. 1..n = 1..Len(F) => n = Len(F)
    <3> DEFINE m == Len(F)
    <3>1. m \in Nat
      BY <2>3
    <3> HIDE DEF m
    <3>2. 1..n = 1..m => n = m
      BY <3>1
    <3> QED BY <3>2 DEF m
  <2> QED BY <2>2, <2>3, <2>4
<1>9. g = Flat(g)
  <2>1. ASSUME NEW i \in 1..n PROVE g[i] = IF i = 1 THEN F[i] ELSE g[i - 1] \o F[i]
    <3>1. CASE i = 1
      BY <1>7, <3>1
    <3>2. CASE i # 1
      <4>1. i - 1 \in 1..n
        BY <3>2
      <4>2. g[i] = f[i] /\ g[i - 1] = f[i - 1]
        BY <4>1
      <4> HIDE DEF g
      <4> QED BY <1>6, <3>2, <4>2
    <3> QED BY <3>1, <3>2
  <2>2. g = [i \in 1..n |-> g[i]]
    OBVIOUS
  <2> HIDE DEF g
  <2> QED BY <1>8, <2>1, <2>2
<1>10. \E h : h = Flat(h)
  <2> HIDE DEF g, Flat
  <2> QED BY <1>9
<1>11. flatten = Flat(flatten)
  BY <1>10
<1>12. FlattenSeq(F) = flatten[n]
  <2>1. FlattenSeq(F) = IF Len(F) = 0 THEN F ELSE flatten[Len(F)]
    BY Zenon DEF FlattenSeq
  <2> HIDE DEF flatten, turn, A, U, g, Flat
  <2>2. Len(F) # 0
    BY <1>8
  <2> QED BY Zenon, <1>8, <2>1, <2>2
<1> HIDE DEF flatten
<1>13. \A i \in 1..n : flatten[i] = IF i = 1 THEN F[i] ELSE flatten[i - 1] \o F[i]
  BY <1>8, <1>11
<1>14. flatten[1] = F[1] /\ \A i \in 2..n : flatten[i] = flatten[i - 1] \o F[i]
  <2>1. 1 \in 1..n /\ \A i \in 2..n : i \in 1..n /\ i # 1
    OBVIOUS
  <2>2. flatten[1] = F[1]
    BY <1>13, <2>1
  <2>3. ASSUME NEW i \in 2..n PROVE flatten[i] = flatten[i - 1] \o F[i]
    <3>1. i \in 1..n /\ i # 1
      BY <2>1
    <3> QED BY <1>13, <3>1
  <2> QED BY <2>2, <2>3
<1> QED BY <1>12, <1>14 DEF Chain

\* What Shutdown writes for different runs is different.
LEMMA ClosedApart ==
    ASSUME DataInv, NEW J, NEW K, J \cap K = {}
    PROVE  Closed(J) \cap Closed(K) = {}
<1> SUFFICES ASSUME NEW k \in Closed(J), k \in Closed(K) PROVE FALSE
  OBVIOUS
<1>1. ASSUME NEW p \in In(rows, "processes") PROVE p \in rows /\ p.key[1] = "processes"
  BY DEF In
<1>2. CASE \E id \in J : k = <<"runs", id>>
  <2>1. k[1] = "runs" /\ k[2] \in J
    BY <1>2
  <2>2. \E id \in K : k = <<"runs", id>>
    BY <1>1, <2>1 DEF Closed
  <2> QED BY <2>1, <2>2
<1>3. CASE \E p \in In(rows, "processes") : p.run \in J /\ k = p.key
  <2>1. PICK p \in In(rows, "processes") : p.run \in J /\ k = p.key
    BY <1>3
  <2>2. PICK q \in In(rows, "processes") : q.run \in K /\ k = q.key
    BY <1>1, <2>1 DEF Closed
  <2>3. p = q
    BY <1>1, <2>1, <2>2, SameKey
  <2> QED BY <2>1, <2>2, <2>3
<1> QED BY <1>2, <1>3 DEF Closed

LEMMA StopInv ==
    ASSUME DataInv, Stop
    PROVE  Committed
<1> DEFINE n == Cardinality(In(rows, "runs"))
           run(id) == CHOOSE r \in Row(rows, "runs", id) : TRUE
           F == [id \in 1..n |-> Closing(run(id))]
<1>1. /\ In(rows, "runs") # {}
      /\ Commit(FlattenSeq(F))
  BY DEF Stop
<1>2. n \in Nat /\ RunIds = 1..n
  BY Count DEF DataInv, EndpointOK, RunIds
<1>3. n # 0
  <2>1. PICK r : r \in In(rows, "runs")
    BY <1>1
  <2>2. Id(r) \in RunIds
    BY <2>1 DEF RunIds, Ids
  <2> HIDE DEF n
  <2> QED BY <1>2, <2>2
<1>4. ASSUME NEW id \in 1..n PROVE run(id) \in In(rows, "runs") /\ Id(run(id)) = id
  BY <1>2 DEF RunIds, Ids, Row
<1>5. ASSUME NEW id \in 1..n
      PROVE  /\ F[id] = Closing(run(id)) /\ Writes(F[id], RunIds, Sessions)
             /\ Keys(F[id]) \subseteq Closed({id})
  <2>1. F[id] = Closing(run(id))
    OBVIOUS
  <2> HIDE DEF F, run
  <2> QED BY <1>4, <2>1, ClosingWrites
<1>6. F = [id \in 1..n |-> F[id]]
  OBVIOUS
<1> HIDE DEF F, run, n
<1>a. \E h : Chain(h, F, n)
  <2>1. \A i \in 1..n : IsList(F[i])
    BY <1>5 DEF Writes
  <2>2. Lists(F, n)
    BY <1>6, <2>1 DEF Lists
  <2> QED BY <1>2, <1>3, <2>2, Flattened
<1>7. PICK h : /\ FlattenSeq(F) = h[n] /\ h[1] = F[1]
               /\ \A i \in 2..n : h[i] = h[i - 1] \o F[i]
  BY <1>a DEF Chain
<1> DEFINE P(i) == /\ Writes(h[i], RunIds, Sessions)
                   /\ Keys(h[i]) \subseteq Closed(1..i)
           S == {i \in 0..n : i = 0 \/ P(i)}
<1>8. ASSUME NEW i \in 0..n, i # n, i \in S PROVE i + 1 \in S
  <2>1. i + 1 \in 1..n
    BY <1>2, <1>8
  <2>2. CASE i = 0
    <3>a. 1..1 = {1}
      OBVIOUS
    <3>1. P(1)
      BY <1>5, <1>7, <2>1, <2>2, <3>a
    <3> HIDE DEF P
    <3> QED BY <2>1, <2>2, <3>1
  <2>3. CASE i # 0
    <3>1. P(i)
      <4> HIDE DEF P
      <4> QED BY <1>8, <2>3
    <3>2. h[i + 1] = h[i] \o F[i + 1]
      <4>1. i + 1 \in 2..n /\ (i + 1) - 1 = i
        BY <1>2, <2>1, <2>3
      <4> QED BY <1>7, <4>1
    <3>3. /\ Writes(F[i + 1], RunIds, Sessions)
          /\ Keys(F[i + 1]) \subseteq Closed({i + 1})
      BY <1>5, <2>1
    <3>4. i \in Nat
      BY <1>2
    <3>5. Writes(h[i] \o F[i + 1], RunIds, Sessions) /\ Keys(h[i] \o F[i + 1]) = Keys(h[i]) \cup Keys(F[i + 1])
      <4>1. Keys(h[i]) \cap Keys(F[i + 1]) = {}
        <5>1. (1..i) \cap {i + 1} = {}
          BY <3>4
        <5>2. Closed(1..i) \cap Closed({i + 1}) = {}
          BY <5>1, ClosedApart
        <5> QED BY <3>1, <3>3, <5>2
      <4> QED BY <3>1, <3>3, <4>1, Both
    <3>6. Keys(h[i + 1]) \subseteq Closed(1..(i + 1))
      <4>1. 1..i \subseteq 1..(i + 1) /\ {i + 1} \subseteq 1..(i + 1)
        BY <3>4
      <4>2. Closed(1..i) \subseteq Closed(1..(i + 1)) /\ Closed({i + 1}) \subseteq Closed(1..(i + 1))
        BY <4>1 DEF Closed
      <4> QED BY <3>1, <3>2, <3>3, <3>5, <4>2
    <3>7. P(i + 1)
      BY <3>2, <3>5, <3>6
    <3> HIDE DEF P
    <3> QED BY <2>1, <3>7
  <2> QED BY <2>2, <2>3
<1>9. 0 \in S
  <2> HIDE DEF P
  <2> QED BY <1>2
<1>10. \A i \in 0..n : i \in S
  <2> HIDE DEF S
  <2> QED BY <1>2, <1>8, <1>9, Induct
<1>11. P(n)
  <2> HIDE DEF P
  <2> QED BY <1>2, <1>3, <1>10
<1>12. Writes(FlattenSeq(F), RunIds, Sessions)
  BY <1>7, <1>11
<1> HIDE DEF P, S
<1> QED BY <1>1, <1>12, PlainInv

\* Any call of the correlator.
LEMMA RecordInv ==
    ASSUME DataInv, Record
    PROVE  Committed
<1>1. CASE \E actor \in {p \in In(rows, "processes") : Live(p)} \cup {NULL} : Launch(actor)
  BY <1>1, LaunchInv
<1>2. CASE \E p \in In(rows, "processes") : Live(p) /\ (Fork(p) \/ Exec(p) \/ Exit(p))
  BY <1>2, ForkInv, ExecInv, ExitInv
<1>3. CASE \E p \in In(rows, "processes") : Denial(p)
  BY <1>3, DenialInv
<1>4. CASE Stop
  BY <1>4, StopInv
<1> QED BY <1>1, <1>2, <1>3, <1>4 DEF Record

-----------------------------------------------------------------------------
(* The page *)

\* A run that has arrived, with that session; a session that has, or has a run that has.
Arrived(id) == id \in Ids(In(mirror, "runs"))
HasRun(id, session) == \E m \in In(mirror, "runs") : Id(m) = id /\ m.session = session
Known(id) == id \in Ids(In(mirror, "sessions")) \/ \E run \in Nat : HasRun(run, id)

Loaded(i) == Len(page.got) >= i

PageType ==
    /\ page = [at |-> page.at, id |-> page.id, via |-> page.via, got |-> page.got, is |-> page.is]
    /\ page.at \in {"index", "session", "untagged", "run"}
    /\ IsList(page.got) /\ Len(page.got) <= Len(Queries[page.at])
    /\ page.is \in {"loading", "shown", "missing"}
    /\ page.is = "loading" => Len(page.got) < Len(Queries[page.at])
    /\ page.is = "shown" => Len(page.got) = Len(Queries[page.at])
    /\ page.is = "missing" => page.via = "parent"
    /\ page.via = "parent" => page.at = "run"

\* A session of the index has arrived and so have its runs, with it as their session; a run without
\* one was without one after that.
IndexOK ==
    page.at = "index" =>
      /\ Loaded(1) => \A s \in page.got[1] :
           /\ Known(s.id) /\ s.id # NULL /\ <<s.id, s.name>> \in Sessions
           /\ \A id \in s.runs : HasRun(id, s.id)
      /\ Loaded(2) => \A s \in page.got[1] : s.runs \cap page.got[2] = {}

\* The page of a session is about one that is known; if its row was not there when it was asked for, a
\* run of it was.
SessionOK ==
    page.at = "session" =>
      /\ Known(page.id) /\ page.id # NULL
      /\ Loaded(1) =>
           /\ \A s \in page.got[1] : s.id = page.id /\ <<s.id, s.name>> \in Sessions /\ s.name[2] # ""
           /\ page.got[1] # {} \/ \E run \in Nat : HasRun(run, page.id)
      /\ Loaded(2) => \A r \in page.got[2] : Arrived(r.id) /\ <<page.id, Owner(r.by)>> \in Sessions

UntaggedOK ==
    page.at = "untagged" =>
      /\ page.id = NULL
      /\ Loaded(1) => \A r \in page.got[1] : Arrived(r.id) /\ (r.text = <<>> \/ Owner(r.by) = NULL)

RunPageOK ==
    page.at = "run" =>
      /\ Arrived(page.id) \/ page.via = "parent"
      /\ Loaded(1) => page.got[1] # {} \/ page.via = "parent"
      /\ Loaded(1) => \A r \in page.got[1] : r.name \in {NULL, Owner(r.by)} /\ (r.session # NULL => Known(r.session))
      /\ Loaded(2) => \A id \in page.got[2] : Arrived(id)

PageInv == PageType /\ IndexOK /\ SessionOK /\ UntaggedOK /\ RunPageOK

Inv == DataInv /\ Synced /\ PageInv

\* No key is a tag and a conversation: the report of a key would mix the sessions of both.
KeysApart == Tag \cap (Conversation \cup {"unknown"}) = {}

-----------------------------------------------------------------------------
(* Steps *)

\* What the pages rely on: sessions are recorded for good, and what has arrived stays.
Grows ==
    /\ Sessions \subseteq Sessions'
    /\ \A id : Arrived(id) => Arrived(id)'
    /\ \A id, session : session # NULL /\ HasRun(id, session) => HasRun(id, session)'
    /\ \A id : id # NULL /\ Known(id) => Known(id)'

\* A row arrives.  A run keeps the session it has.
LEMMA ReceiveInv ==
    ASSUME DataInv, Receive
    PROVE  DataInv' /\ Grows /\ page' = page
<1>1. PICK r \in rows : mirror' = {m \in mirror : m.key # r.key} \cup {r}
  BY DEF Receive
<1>2. rows' = rows /\ scenario' = scenario /\ page' = page
  BY DEF Receive
<1>3. EndpointOK' /\ Sessions' = Sessions /\ RunIds' = RunIds
  BY <1>2 DEF DataInv, EndpointOK, Sessions, RunIds, ProcessIds, Numbered, In
<1>4. Typed(r)
  BY DEF DataInv, EndpointOK
<1>5. ASSUME NEW m \in mirror' PROVE m = r \/ (m \in mirror /\ m.key # r.key)
  BY <1>1
<1>6. \A m \in mirror' : Typed(m)
  BY <1>4, <1>5 DEF DataInv, MirrorOK
<1>7. \A a, b \in mirror' : a.key = b.key => a = b
  BY <1>5 DEF DataInv, MirrorOK
<1>8. \A m \in In(mirror, "sessions")' : <<Id(m), m.name>> \in Sessions
  <2>1. r.key[1] = "sessions" => <<Id(r), r.name>> \in Sessions
    BY DEF Sessions, In
  <2> QED BY <1>5, <2>1 DEF DataInv, MirrorOK, In
<1>9. \A m \in In(mirror, "runs")' : Id(m) \in RunIds /\ RunOK(m, Sessions)
  <2>1. r.key[1] = "runs" => Id(r) \in RunIds /\ RunOK(r, Sessions)
    BY DEF DataInv, EndpointOK, RunIds, Ids, In
  <2> QED BY <1>5, <2>1 DEF DataInv, MirrorOK, In
<1>10. \A m \in In(mirror, "runs")', q \in In(rows, "runs") : m.key = q.key /\ m.session # NULL => q.session = m.session
  <2>1. \A q \in In(rows, "runs") : r.key[1] = "runs" /\ r.key = q.key => q = r
    BY DEF DataInv, EndpointOK, Numbered, In
  <2> QED BY <1>5, <2>1 DEF DataInv, MirrorOK, In
<1>11. MirrorOK'
  BY <1>2, <1>3, <1>6, <1>7, <1>8, <1>9, <1>10 DEF MirrorOK, In
<1>12. r \in mirror' /\ \A m \in mirror : m.key # r.key => m \in mirror'
  BY <1>1
<1>13. ASSUME NEW id, Arrived(id) PROVE Arrived(id)'
  <2>1. PICK m \in mirror : m.key[1] = "runs" /\ Id(m) = id
    BY <1>13 DEF Arrived, Ids, In
  <2>2. CASE m.key = r.key
    BY <1>12, <2>1, <2>2 DEF Arrived, Ids, In, Id
  <2>3. CASE m.key # r.key
    BY <1>12, <2>1, <2>3 DEF Arrived, Ids, In, Id
  <2> QED BY <2>2, <2>3
<1>14. ASSUME NEW id, NEW session, session # NULL, HasRun(id, session) PROVE HasRun(id, session)'
  <2>1. PICK m \in mirror : m.key[1] = "runs" /\ Id(m) = id /\ m.session = session
    BY <1>14 DEF HasRun, In
  <2>2. CASE m.key = r.key
    <3>1. m \in In(mirror, "runs") /\ r \in In(rows, "runs")
      BY <2>1, <2>2 DEF In
    <3>2. r.session = session
      BY <1>14, <2>1, <2>2, <3>1 DEF DataInv, MirrorOK
    <3> QED BY <1>12, <2>1, <2>2, <3>2 DEF HasRun, In, Id
  <2>3. CASE m.key # r.key
    BY <1>12, <2>1, <2>3 DEF HasRun, In
  <2> QED BY <2>2, <2>3
<1>15. ASSUME NEW id, id # NULL, Known(id) PROVE Known(id)'
  <2>1. CASE id \in Ids(In(mirror, "sessions"))
    <3>1. PICK m \in mirror : m.key[1] = "sessions" /\ Id(m) = id
      BY <2>1 DEF Ids, In
    <3>2. CASE m.key = r.key
      BY <1>12, <3>1, <3>2 DEF Known, Ids, In, Id
    <3>3. CASE m.key # r.key
      BY <1>12, <3>1, <3>3 DEF Known, Ids, In, Id
    <3> QED BY <3>2, <3>3
  <2>2. CASE \E run \in Nat : HasRun(run, id)
    BY <1>14, <1>15, <2>2 DEF Known
  <2> QED BY <1>15, <2>1, <2>2 DEF Known
<1>16. Grows
  BY <1>3, <1>13, <1>14, <1>15 DEF Grows
<1> QED BY <1>2, <1>3, <1>11, <1>16 DEF DataInv

\* The row with the next revision.
LEMMA ReceiveSynced ==
    ASSUME DataInv, Synced, Receive
    PROVE  Synced'
<1>1. PICK r \in rows :
        /\ r.rev > cursor
        /\ \A q \in rows : q.rev > cursor => q.rev >= r.rev
        /\ mirror' = {m \in mirror : m.key # r.key} \cup {r}
        /\ cursor' = r.rev
  BY DEF Receive
<1>2. rows' = rows /\ counter' = counter
  BY DEF Receive
<1>3. r.rev \in 1..counter /\ counter \in Nat /\ cursor \in Nat
  BY DEF Synced
<1>4. ASSUME NEW q \in rows, q.rev <= r.rev PROVE q \in mirror'
  <2>1. q.rev \in 1..counter
    BY DEF Synced
  <2>2. CASE q = r
    BY <1>1, <2>2
  <2>3. CASE q # r
    <3>1. q.rev # r.rev
      BY <2>3 DEF Synced
    <3>2. q.rev <= cursor
      BY <1>1, <1>3, <1>4, <2>1, <3>1
    <3>3. q \in mirror
      BY <3>2 DEF Synced
    <3>4. q.key # r.key
      BY <2>3, SameKey
    <3> QED BY <1>1, <3>3, <3>4
  <2> QED BY <2>2, <2>3
<1>5. \A m \in mirror' : \E q \in rows : m.key = q.key
  BY <1>1 DEF Synced
<1>6. \A q \in rows' : q.rev <= cursor' => q \in mirror'
  BY <1>1, <1>2, <1>4
<1>7. cursor' \in Nat /\ cursor' <= counter'
  BY <1>1, <1>2, <1>3
<1> QED BY <1>2, <1>5, <1>6, <1>7 DEF Synced

\* A call of the correlator takes nothing from the mirror.
LEMMA CommittedGrows ==
    ASSUME Committed
    PROVE  Grows
BY DEF Committed, Grows, Arrived, HasRun, Known, In

\* A page stays right.
LEMMA PageStays ==
    ASSUME PageInv, Grows, page' = page
    PROVE  PageInv'
<1>1. PageType'
  BY DEF PageInv, PageType
<1>2. IndexOK'
  BY DEF PageInv, IndexOK, Grows, Loaded
<1>3. SessionOK'
  BY DEF PageInv, SessionOK, Grows, Loaded
<1>4. UntaggedOK'
  BY DEF PageInv, UntaggedOK, Grows, Loaded
<1>5. RunPageOK'
  BY DEF PageInv, RunPageOK, Grows, Loaded
<1> QED BY <1>1, <1>2, <1>3, <1>4, <1>5 DEF PageInv

\* How many queries a page has, and which.
LEMMA QueryNames ==
    /\ Len(Queries["index"]) = 2 /\ Queries["index"][1] = "sessions" /\ Queries["index"][2] = "untagged"
    /\ Len(Queries["session"]) = 2 /\ Queries["session"][1] = "session" /\ Queries["session"][2] = "runs"
    /\ Len(Queries["untagged"]) = 1 /\ Queries["untagged"][1] = "runs"
    /\ Len(Queries["run"]) = 4 /\ Queries["run"][1] = "run" /\ Queries["run"][2] = "children"
    /\ Queries["run"][3] = "processes" /\ Queries["run"][4] = "denials"
BY DEF Queries

\* The answers to the queries that name something.
LEMMA Answers ==
    ASSUME NEW id
    PROVE  /\ Answer("sessions", id) = {Summary(s) : s \in In(mirror, "sessions")}
           /\ Answer("untagged", id) = Ids(Where(mirror, "runs", "session", NULL))
           /\ Answer("session", id) = {Summary(s) : s \in Row(mirror, "sessions", id)}
           /\ Answer("runs", id) = {RunSummary(r) : r \in Where(mirror, "runs", "session", id)}
           /\ Answer("run", id) = {Detail(r) : r \in Row(mirror, "runs", id)}
           /\ Answer("children", id) = Ids(Where(mirror, "runs", "parent", id))
<1>1. Answer("sessions", id) = {Summary(s) : s \in In(mirror, "sessions")}
  BY DEF Answer
<1>2. Answer("untagged", id) = Ids(Where(mirror, "runs", "session", NULL))
  BY DEF Answer
<1>3. Answer("session", id) = {Summary(s) : s \in Row(mirror, "sessions", id)}
  BY DEF Answer
<1>4. Answer("runs", id) = {RunSummary(r) : r \in Where(mirror, "runs", "session", id)}
  BY DEF Answer
<1>5. Answer("run", id) = {Detail(r) : r \in Row(mirror, "runs", id)}
  BY DEF Answer
<1>6. Answer("children", id) = Ids(Where(mirror, "runs", "parent", id))
  BY DEF Answer
<1> QED BY <1>1, <1>2, <1>3, <1>4, <1>5, <1>6

\* The next answer, and the page with it.
Next1 == Len(page.got) + 1
NextAnswer == Answer(Queries[page.at][Next1], page.id)
Answered == Append(page.got, NextAnswer)
Becomes ==
    IF Unknown(page.at, Answered) THEN "missing"
    ELSE IF Len(Answered) = Len(Queries[page.at]) THEN "shown" ELSE "loading"

\* What a query does to the page.
LEMMA QueryShape ==
    ASSUME PageType, Query
    PROVE  /\ page.is = "loading" /\ Next1 \in Nat /\ Next1 >= 1 /\ Next1 <= Len(Queries[page.at])
           /\ Len(page.got) = Next1 - 1
           /\ UNCHANGED <<scenario, rows, counter, mirror, cursor>>
           /\ page'.at = page.at /\ page'.id = page.id /\ page'.via = page.via /\ page'.got = Answered /\ page'.is = Becomes
           /\ page' = [at |-> page'.at, id |-> page'.id, via |-> page'.via, got |-> page'.got, is |-> page'.is]
           /\ IsList(Answered) /\ Len(Answered) = Next1 /\ Answered[Next1] = NextAnswer
           /\ \A i \in 1..(Next1 - 1) : Answered[i] = page.got[i]
<1>1. /\ page' = [page EXCEPT !.got = Answered, !.is = Becomes]
      /\ page.is = "loading" /\ UNCHANGED <<scenario, rows, counter, mirror, cursor>>
  BY DEF Query, Answered, NextAnswer, Next1, Becomes
<1>2. Len(page.got) \in Nat
  BY ListFields DEF PageType
<1>3. page.is = "loading" => Len(page.got) < Len(Queries[page.at])
  BY DEF PageType
<1>4. Len(Queries[page.at]) \in Nat
  BY QueryNames DEF PageType
<1>5. Next1 \in Nat /\ Next1 >= 1 /\ Next1 <= Len(Queries[page.at]) /\ Len(page.got) = Next1 - 1
  BY <1>1, <1>2, <1>3, <1>4 DEF Next1
<1>6. /\ IsList(Answered) /\ Len(Answered) = Next1 /\ Answered[Next1] = NextAnswer
      /\ \A i \in 1..(Next1 - 1) : Answered[i] = page.got[i]
  <2>1. /\ IsList(Answered) /\ Len(Answered) = Len(page.got) + 1
        /\ \A i \in 1..Len(page.got) : Answered[i] = page.got[i]
        /\ Answered[Len(page.got) + 1] = NextAnswer
    BY ListAppend DEF PageType, Answered
  <2> QED BY <1>5, <2>1 DEF Next1
<1> DEFINE half == [page EXCEPT !.got = Answered]
<1>7. page' = [half EXCEPT !.is = Becomes]
  BY <1>1, Zenon
<1>8. page = [at |-> page.at, id |-> page.id, via |-> page.via, got |-> page.got, is |-> page.is]
  BY DEF PageType
<1>9. half = [at |-> page.at, id |-> page.id, via |-> page.via, got |-> Answered, is |-> page.is]
  BY <1>8
<1> HIDE DEF half
<1>10. [half EXCEPT !.is = Becomes] = [at |-> page.at, id |-> page.id, via |-> page.via, got |-> Answered, is |-> Becomes]
  BY <1>9
<1>11. page' = [at |-> page.at, id |-> page.id, via |-> page.via, got |-> Answered, is |-> Becomes]
  BY <1>7, <1>10
<1>12. page'.at = page.at /\ page'.id = page.id /\ page'.via = page.via /\ page'.got = Answered /\ page'.is = Becomes
  BY <1>11
<1>13. page' = [at |-> page'.at, id |-> page'.id, via |-> page'.via, got |-> page'.got, is |-> page'.is]
  BY <1>11, <1>12
<1> QED BY <1>1, <1>5, <1>6, <1>12, <1>13

\* The type, if an unknown page is only the one behind the link to a parent.
LEMMA QueryType ==
    ASSUME PageType, Query, Unknown(page.at, Answered) => page.via = "parent"
    PROVE  PageType'
<1>1. Becomes \in {"loading", "shown", "missing"} /\ (Becomes = "missing" => page.via = "parent")
      /\ (Becomes = "loading" => Len(Answered) # Len(Queries[page.at]))
      /\ (Becomes = "shown" => Len(Answered) = Len(Queries[page.at]))
  BY DEF Becomes
<1>2. Len(Queries[page.at]) \in Nat
  BY QueryNames DEF PageType
<1>3. Len(Answered) \in Nat /\ Len(Answered) <= Len(Queries[page.at])
  BY QueryShape
<1> DEFINE at == page'.at
           got == page'.got
<1>4. at = page.at /\ page'.via = page.via /\ got = Answered /\ page'.is = Becomes /\ IsList(got)
      /\ page' = [at |-> page'.at, id |-> page'.id, via |-> page'.via, got |-> page'.got, is |-> page'.is]
  BY QueryShape
<1> QED BY <1>1, <1>2, <1>3, <1>4 DEF PageType

\* What is known does not change if neither endpoint nor mirror do.
LEMMA Same ==
    ASSUME DataInv, UNCHANGED <<scenario, rows, mirror>>
    PROVE  DataInv' /\ Sessions' = Sessions /\ \A id : (Arrived(id)' <=> Arrived(id)) /\ (Known(id)' <=> Known(id))
           /\ \A session : HasRun(id, session)' <=> HasRun(id, session)
<1>1. Sessions' = Sessions /\ RunIds' = RunIds
  BY DEF Sessions, RunIds, In
<1>2. EndpointOK'
  BY <1>1 DEF DataInv, EndpointOK, ProcessIds, Numbered, In
<1>3. MirrorOK'
  BY <1>1 DEF DataInv, MirrorOK, In
<1>4. \A id : (Arrived(id)' <=> Arrived(id)) /\ (Known(id)' <=> Known(id)) /\ \A session : HasRun(id, session)' <=> HasRun(id, session)
  BY DEF Arrived, Known, HasRun, In
<1> QED BY <1>1, <1>2, <1>3, <1>4 DEF DataInv

\* What has arrived.
LEMMA SessionArrived ==
    ASSUME DataInv, NEW s \in In(mirror, "sessions")
    PROVE  Id(s) # NULL /\ Known(Id(s)) /\ <<Id(s), s.name>> \in Sessions /\ s.name[2] # ""
<1>1. s \in mirror /\ s.key[1] = "sessions" /\ Typed(s)
  BY DEF DataInv, MirrorOK, In
<1>2. Id(s) # NULL
  BY <1>1, NullAssumption DEF Typed, Id
<1>3. Known(Id(s))
  BY DEF Known, Ids
<1>4. <<Id(s), s.name>> \in Sessions
  BY DEF DataInv, MirrorOK
<1>5. s.name[2] # ""
  BY <1>1, NameFields DEF Typed, IsSession, IsRun, IsProcess, IsDenial
<1> QED BY <1>2, <1>3, <1>4, <1>5

LEMMA RunArrived ==
    ASSUME DataInv, NEW r \in In(mirror, "runs")
    PROVE  /\ Arrived(Id(r)) /\ Id(r) \in Nat /\ HasRun(Id(r), r.session) /\ RunOK(r, Sessions) /\ Known(r.session)
           /\ \A q \in In(mirror, "runs") : Id(q) = Id(r) => q = r
<1>1. r \in mirror /\ r.key = <<"runs", Id(r)>> /\ Id(r) \in Nat
  BY DEF DataInv, MirrorOK, In, Typed, Id
<1>2. \A q \in In(mirror, "runs") : Id(q) = Id(r) => q = r
  <2>1. ASSUME NEW q \in In(mirror, "runs"), Id(q) = Id(r) PROVE q = r
    <3>1. q \in mirror /\ q.key = <<"runs", Id(q)>>
      BY DEF DataInv, MirrorOK, In, Typed, Id
    <3> QED BY <1>1, <2>1, <3>1 DEF DataInv, MirrorOK
  <2> QED BY <2>1
<1>3. HasRun(Id(r), r.session)
  BY DEF HasRun
<1> QED BY <1>1, <1>2, <1>3 DEF Arrived, Ids, Known, DataInv, MirrorOK

\* Sessions have one name each.
LEMMA NameOf ==
    ASSUME DataInv, NEW id, NEW a, NEW b, <<id, a>> \in Sessions, <<id, b>> \in Sessions
    PROVE  a = b
<1>1. <<id, a>>[1] = id /\ <<id, b>>[1] = id
  OBVIOUS
<1>2. <<id, a>> = <<id, b>>
  BY <1>1, SessionsFields DEF OneName
<1> QED BY <1>2

\* The fields of a summary that the pages link to.
LEMMA Summaries ==
    ASSUME NEW s
    PROVE  Summary(s).id = Id(s) /\ Summary(s).name = s.name /\ Summary(s).runs = Ids(Where(mirror, "runs", "session", Id(s)))
BY DEF Summary

LEMMA RunSummaries ==
    ASSUME NEW r
    PROVE  RunSummary(r).id = Id(r) /\ RunSummary(r).by = r.by /\ RunSummary(r).text = r.text
BY DEF RunSummary

\* Which answers there are before and after a query.
LEMMA QueryLoaded ==
    ASSUME PageType, Query
    PROVE  /\ Loaded(1)' /\ (Loaded(2)' <=> Next1 # 1) /\ page'.got[Next1] = NextAnswer
           /\ Next1 # 1 => Loaded(1) /\ page'.got[1] = page.got[1]
           /\ Next1 \notin {1, 2} => Loaded(2) /\ page'.got[2] = page.got[2]
<1> DEFINE n == Next1
<1>1. n \in Nat /\ n >= 1 /\ Len(page.got) = n - 1 /\ page'.got = Answered /\ Len(Answered) = n /\ Answered[n] = NextAnswer
      /\ \A i \in 1..(n - 1) : Answered[i] = page.got[i]
  BY QueryShape
<1>2. Loaded(1)' /\ (Loaded(2)' <=> n # 1)
  BY <1>1 DEF Loaded
<1>3. n # 1 => Loaded(1)
  BY <1>1 DEF Loaded
<1>4. n \notin {1, 2} => Loaded(2)
  BY <1>1 DEF Loaded
<1>5. n # 1 => 1 \in 1..(n - 1)
  BY <1>1
<1>6. n \notin {1, 2} => 2 \in 1..(n - 1)
  BY <1>1
<1> QED BY <1>1, <1>2, <1>3, <1>4, <1>5, <1>6

\* Each page stays right when its next query is answered.  The index: runs of a session, which have
\* their session for good, and runs without one.
LEMMA QueryIndex ==
    ASSUME DataInv, PageInv, Query, page.at = "index"
    PROVE  PageInv'
<1>1. /\ page.is = "loading" /\ Next1 \in Nat /\ Next1 >= 1 /\ Next1 <= Len(Queries[page.at])
      /\ Len(page.got) = Next1 - 1
      /\ UNCHANGED <<scenario, rows, counter, mirror, cursor>>
      /\ page'.at = page.at /\ page'.id = page.id /\ page'.via = page.via /\ page'.got = Answered /\ page'.is = Becomes
      /\ Len(Answered) = Next1 /\ Answered[Next1] = NextAnswer
      /\ \A i \in 1..(Next1 - 1) : Answered[i] = page.got[i]
  BY QueryShape DEF PageInv
<1>2. ~Unknown(page.at, Answered)
  BY DEF Unknown
<1>3. PageType'
  BY <1>2, QueryType DEF PageInv
<1>4. Sessions' = Sessions /\ \A id : (Known(id)' <=> Known(id)) /\ \A session : HasRun(id, session)' <=> HasRun(id, session)
  BY <1>1, Same
<1>5. Next1 = 1 \/ Next1 = 2
  BY <1>1, QueryNames
<1>6. CASE Next1 = 1
  <2>1. Answered[1] = {Summary(s) : s \in In(mirror, "sessions")}
    BY <1>1, <1>6, QueryNames, Answers DEF NextAnswer
  <2>2. ASSUME NEW s \in In(mirror, "sessions")
        PROVE  /\ Known(Summary(s).id) /\ Summary(s).id # NULL /\ <<Summary(s).id, Summary(s).name>> \in Sessions
               /\ \A id \in Summary(s).runs : HasRun(id, Summary(s).id)
    <3>1. Id(s) # NULL /\ Known(Id(s)) /\ <<Id(s), s.name>> \in Sessions
      BY SessionArrived
    <3>2. \A id \in Ids(Where(mirror, "runs", "session", Id(s))) : HasRun(id, Id(s))
      BY DEF HasRun, Ids, Where
    <3>3. Summary(s).id = Id(s) /\ Summary(s).name = s.name /\ Summary(s).runs = Ids(Where(mirror, "runs", "session", Id(s)))
      BY Summaries
    <3> QED BY <3>1, <3>2, <3>3
  <2>3. \A s \in Answered[1] :
           /\ Known(s.id) /\ s.id # NULL /\ <<s.id, s.name>> \in Sessions
           /\ \A id \in s.runs : HasRun(id, s.id)
    BY <2>1, <2>2
  <2>4. IndexOK'
    <3>1. ~Loaded(2)' /\ page'.got[1] = Answered[1]
      BY <1>1, <1>6, QueryLoaded DEF PageInv
    <3> QED BY <1>4, <2>3, <3>1 DEF IndexOK
  <2> QED BY <1>1, <1>3, <2>4 DEF PageInv, SessionOK, UntaggedOK, RunPageOK
<1>7. CASE Next1 = 2
  <2>1. Answered[2] = Ids(Where(mirror, "runs", "session", NULL)) /\ Answered[1] = page.got[1] 
    BY <1>1, <1>7, QueryNames, Answers DEF NextAnswer
  <2>2. \A s \in page.got[1] :
           /\ Known(s.id) /\ s.id # NULL /\ <<s.id, s.name>> \in Sessions
           /\ \A id \in s.runs : HasRun(id, s.id)
    BY <1>7, QueryLoaded DEF PageInv, IndexOK
  <2>3. ASSUME NEW s \in page.got[1], NEW id \in s.runs PROVE id \notin Answered[2]
    <3>1. PICK m \in In(mirror, "runs") : Id(m) = id /\ m.session = s.id
      BY <2>2 DEF HasRun
    <3>2. ASSUME NEW q \in Where(mirror, "runs", "session", NULL) PROVE Id(q) # id
      <4>1. q \in In(mirror, "runs") /\ q.session = NULL
        BY DEF Where
      <4> QED BY <2>2, <3>1, <4>1, RunArrived
    <3> QED BY <2>1, <3>2 DEF Ids
  <2>4. IndexOK'
    <3>1. page'.got[1] = page.got[1] /\ page'.got[2] = Answered[2]
      BY <1>1, <1>7, <2>1
    <3> QED BY <1>4, <2>2, <2>3, <3>1 DEF IndexOK
  <2> QED BY <1>1, <1>3, <2>4 DEF PageInv, SessionOK, UntaggedOK, RunPageOK
<1> QED BY <1>5, <1>6, <1>7

\* A session: known by its row or a run, so one of its two answers is not empty.
LEMMA QuerySession ==
    ASSUME DataInv, PageInv, Query, page.at = "session"
    PROVE  PageInv'
<1>1. /\ page.is = "loading" /\ Next1 \in Nat /\ Next1 >= 1 /\ Next1 <= Len(Queries[page.at])
      /\ Len(page.got) = Next1 - 1
      /\ UNCHANGED <<scenario, rows, counter, mirror, cursor>>
      /\ page'.at = page.at /\ page'.id = page.id /\ page'.via = page.via /\ page'.got = Answered /\ page'.is = Becomes
      /\ Len(Answered) = Next1 /\ Answered[Next1] = NextAnswer
      /\ \A i \in 1..(Next1 - 1) : Answered[i] = page.got[i]
  BY QueryShape DEF PageInv
<1>2. Sessions' = Sessions /\ \A id : (Arrived(id)' <=> Arrived(id)) /\ (Known(id)' <=> Known(id))
      /\ \A session : HasRun(id, session)' <=> HasRun(id, session)
  BY <1>1, Same
<1>3. Next1 = 1 \/ Next1 = 2
  BY <1>1, QueryNames
<1>4. Known(page.id) /\ page.id # NULL
  BY DEF PageInv, SessionOK
<1>5. CASE Next1 = 1
  <2>1. Answered[1] = {Summary(s) : s \in Row(mirror, "sessions", page.id)}
    BY <1>1, <1>5, QueryNames, Answers DEF NextAnswer
  <2>2. ASSUME NEW s \in Row(mirror, "sessions", page.id)
        PROVE  Summary(s).id = page.id /\ <<Summary(s).id, Summary(s).name>> \in Sessions /\ Summary(s).name[2] # ""
    <3>1. s \in In(mirror, "sessions") /\ Id(s) = page.id
      BY DEF Row
    <3> QED BY <3>1, SessionArrived, Summaries
  <2>3. \A s \in Answered[1] : s.id = page.id /\ <<s.id, s.name>> \in Sessions /\ s.name[2] # ""
    BY <2>1, <2>2
  <2>4. Answered[1] # {} \/ \E run \in Nat : HasRun(run, page.id)
    <3>1. CASE page.id \in Ids(In(mirror, "sessions"))
      BY <2>1, <3>1 DEF Ids, Row
    <3>2. CASE page.id \notin Ids(In(mirror, "sessions"))
      BY <1>4, <3>2 DEF Known
    <3> QED BY <3>1, <3>2
  <2>5. SessionOK'
    <3>1. ~Loaded(2)' /\ page'.got[1] = Answered[1] /\ page'.id = page.id
      BY <1>1, <1>5, QueryLoaded DEF PageInv
    <3> QED BY <1>2, <1>4, <2>3, <2>4, <3>1 DEF SessionOK
  <2>6. PageType'
    BY <1>1, <1>5, QueryType DEF PageInv, Unknown
  <2> QED BY <1>1, <2>5, <2>6 DEF PageInv, IndexOK, UntaggedOK, RunPageOK
<1>6. CASE Next1 = 2
  <2>1. Answered[2] = {RunSummary(r) : r \in Where(mirror, "runs", "session", page.id)} /\ Answered[1] = page.got[1] 
    BY <1>1, <1>6, QueryNames, Answers DEF NextAnswer
  <2>2. /\ \A s \in page.got[1] : s.id = page.id /\ <<s.id, s.name>> \in Sessions /\ s.name[2] # ""
        /\ page.got[1] # {} \/ \E run \in Nat : HasRun(run, page.id)
    BY <1>6, QueryLoaded DEF PageInv, SessionOK
  <2>3. ASSUME NEW r \in Where(mirror, "runs", "session", page.id)
        PROVE  Arrived(RunSummary(r).id) /\ <<page.id, Owner(RunSummary(r).by)>> \in Sessions
    <3>1. r \in In(mirror, "runs") /\ r.session = page.id
      BY DEF Where
    <3>2. Arrived(Id(r)) /\ <<page.id, Owner(r.by)>> \in Sessions
      BY <1>4, <3>1, RunArrived DEF RunOK
    <3> QED BY <3>2, RunSummaries
  <2>4. \A r \in Answered[2] : Arrived(r.id) /\ <<page.id, Owner(r.by)>> \in Sessions
    BY <2>1, <2>3
  <2>5. ~Unknown(page.at, Answered)
    <3>1. CASE page.got[1] # {}
      BY <2>1, <2>2, <3>1 DEF Unknown
    <3>2. CASE \E run \in Nat : HasRun(run, page.id)
      <4>1. PICK m \in In(mirror, "runs") : m.session = page.id
        BY <3>2 DEF HasRun
      <4>2. RunSummary(m) \in Answered[2]
        BY <2>1, <4>1 DEF Where
      <4> QED BY <4>2 DEF Unknown
    <3> QED BY <2>2, <3>1, <3>2
  <2>6. PageType'
    BY <2>5, QueryType DEF PageInv
  <2>7. SessionOK'
    <3>1. page'.got[1] = page.got[1] /\ page'.got[2] = Answered[2] /\ page'.id = page.id
      BY <1>1, <1>6, <2>1
    <3> QED BY <1>2, <1>4, <2>2, <2>4, <3>1 DEF SessionOK
  <2> QED BY <1>1, <2>6, <2>7 DEF PageInv, IndexOK, UntaggedOK, RunPageOK
<1> QED BY <1>3, <1>5, <1>6

\* Untagged runs: without a profile or an agent.
LEMMA QueryUntagged ==
    ASSUME DataInv, PageInv, Query, page.at = "untagged"
    PROVE  PageInv'
<1>1. /\ Next1 \in Nat /\ Next1 >= 1 /\ Next1 <= Len(Queries[page.at])
      /\ UNCHANGED <<scenario, rows, counter, mirror, cursor>>
      /\ page'.at = page.at /\ page'.id = page.id
  BY QueryShape DEF PageInv
<1>2. \A id : Arrived(id)' <=> Arrived(id)
  BY <1>1, Same
<1>3. Next1 = 1 /\ page.id = NULL
  BY <1>1, QueryNames DEF PageInv, UntaggedOK
<1>4. page'.got[1] = {RunSummary(r) : r \in Where(mirror, "runs", "session", NULL)}
  BY <1>1, <1>3, QueryLoaded, QueryNames, Answers DEF NextAnswer, PageInv
<1>5. ASSUME NEW r \in Where(mirror, "runs", "session", NULL)
      PROVE  Arrived(RunSummary(r).id) /\ (RunSummary(r).text = <<>> \/ Owner(RunSummary(r).by) = NULL)
  <2>1. r \in In(mirror, "runs") /\ r.session = NULL
    BY DEF Where
  <2>2. Arrived(Id(r)) /\ (r.text = <<>> \/ Owner(r.by) = NULL)
    BY <2>1, RunArrived DEF RunOK
  <2> QED BY <2>2, RunSummaries
<1>6. UntaggedOK'
  BY <1>1, <1>2, <1>3, <1>4, <1>5 DEF UntaggedOK
<1>7. PageType'
  BY <1>1, QueryType DEF PageInv, Unknown
<1> QED BY <1>1, <1>6, <1>7 DEF PageInv, IndexOK, SessionOK, RunPageOK

\* DB.Run joins the name of the launcher's session, or none if that has not arrived.
LEMMA Details ==
    ASSUME DataInv, NEW r \in In(mirror, "runs")
    PROVE  LET d == Detail(r)
           IN  /\ d.id = Id(r) /\ d.by = r.by /\ d.session = r.session /\ d.parent = r.parent
               /\ d.name \in {NULL, Owner(r.by)}
<1> DEFINE S == Row(mirror, "sessions", r.session)
           s == CHOOSE q \in S : TRUE
           name == IF r.session = NULL THEN NULL ELSE Joined(S, "name")
<1>1. name \in {NULL, Owner(r.by)}
  <2>1. CASE r.session = NULL \/ S = {}
    BY <2>1 DEF Joined
  <2>2. CASE r.session # NULL /\ S # {}
    <3>1. s \in In(mirror, "sessions") /\ Id(s) = r.session
      BY <2>2 DEF Row
    <3> HIDE DEF s
    <3>2. <<r.session, s.name>> \in Sessions
      BY <3>1, SessionArrived
    <3>3. <<r.session, Owner(r.by)>> \in Sessions
      BY <2>2, RunArrived DEF RunOK
    <3>4. s.name = Owner(r.by)
      BY <3>2, <3>3, NameOf
    <3>5. name = s.name
      BY <2>2 DEF Joined, s
    <3> HIDE DEF name, S
    <3> QED BY <3>4, <3>5
  <2> QED BY <2>1, <2>2
<1>2. Detail(r).name = name
  BY DEF Detail
<1> HIDE DEF name
<1> QED BY <1>1, <1>2 DEF Detail

\* A run: it had arrived before it was linked to, except as a parent.
LEMMA QueryRun ==
    ASSUME DataInv, PageInv, Query, page.at = "run"
    PROVE  PageInv'
<1>1. /\ Next1 \in Nat /\ Next1 >= 1
      /\ UNCHANGED <<scenario, rows, counter, mirror, cursor>>
      /\ page'.at = page.at /\ page'.id = page.id /\ page'.via = page.via /\ page'.got = Answered
  BY QueryShape DEF PageInv
<1>2. \A id : (Arrived(id)' <=> Arrived(id)) /\ (Known(id)' <=> Known(id))
  BY <1>1, Same
<1>3. Arrived(page.id) \/ page.via = "parent"
  BY DEF PageInv, RunPageOK
<1>4. /\ page'.got[1] # {} \/ page.via = "parent"
      /\ \A r \in page'.got[1] : r.name \in {NULL, Owner(r.by)} /\ (r.session # NULL => Known(r.session))
  <2>1. CASE Next1 = 1
    <3>1. page'.got[1] = {Detail(r) : r \in Row(mirror, "runs", page.id)}
      BY <2>1, QueryLoaded, QueryNames, Answers DEF NextAnswer, PageInv
    <3>2. page'.got[1] # {} \/ page.via = "parent"
      BY <1>3, <3>1 DEF Arrived, Ids, Row
    <3>3. ASSUME NEW r \in Row(mirror, "runs", page.id)
          PROVE  LET d == Detail(r) IN d.name \in {NULL, Owner(d.by)} /\ (d.session # NULL => Known(d.session))
      <4>1. r \in In(mirror, "runs")
        BY DEF Row
      <4> QED BY <4>1, Details, RunArrived
    <3> QED BY <3>1, <3>2, <3>3
  <2>2. CASE Next1 # 1
    BY <2>2, QueryLoaded DEF PageInv, RunPageOK
  <2> QED BY <2>1, <2>2
<1>5. Next1 # 1 => \A id \in page'.got[2] : Arrived(id)
  <2>1. CASE Next1 = 2
    <3>1. page'.got[2] = Ids(Where(mirror, "runs", "parent", page.id))
      BY <2>1, QueryLoaded, QueryNames, Answers DEF NextAnswer, PageInv
    <3> QED BY <3>1 DEF Arrived, Ids, Where
  <2>2. CASE Next1 \notin {1, 2}
    BY <2>2, QueryLoaded DEF PageInv, RunPageOK
  <2> QED BY <2>1, <2>2
<1>6. RunPageOK'
  <2>1. Loaded(2)' => Next1 # 1
    BY QueryLoaded DEF PageInv
  <2> QED BY <1>1, <1>2, <1>3, <1>4, <1>5, <2>1 DEF RunPageOK
<1>7. PageType'
  BY <1>1, <1>4, QueryType DEF PageInv, Unknown
<1> QED BY <1>1, <1>6, <1>7 DEF PageInv, IndexOK, SessionOK, UntaggedOK

\* Any query.
LEMMA QueryInv ==
    ASSUME DataInv, PageInv, Query
    PROVE  DataInv' /\ PageInv' /\ UNCHANGED <<rows, counter, mirror, cursor>>
<1>1. UNCHANGED <<scenario, rows, counter, mirror, cursor>>
  BY QueryShape DEF PageInv
<1>2. page.at \in {"index", "session", "untagged", "run"}
  BY DEF PageInv, PageType
<1>3. PageInv'
  BY <1>2, QueryIndex, QuerySession, QueryUntagged, QueryRun
<1> QED BY <1>1, <1>3, Same

\* The answer to a query is where the query is.
LEMMA GotIs ==
    ASSUME NEW query, NEW n \in Nat, Len(Queries[page.at]) = n, NEW k \in 1..n,
           \A i \in 1..n : Queries[page.at][i] = query <=> i = k
    PROVE  Got(query) = page.got[k]
<1> DEFINE I == {i \in 1..Len(Queries[page.at]) : Queries[page.at][i] = query}
<1>1. I = {k}
  OBVIOUS
<1>2. SelectInSeq(Queries[page.at], LAMBDA q : q = query) = IF I # {} THEN Min(I) ELSE 0
  BY DEF SelectInSeq
<1> HIDE DEF I
<1>3. Min({k}) = k
  BY DEF Min
<1> QED BY <1>1, <1>2, <1>3 DEF Got

\* The answers of a page that is shown.
LEMMA Gots ==
    ASSUME PageType, page.is = "shown"
    PROVE  /\ Loaded(1)
           /\ page.at = "index" => Loaded(2) /\ Got("sessions") = page.got[1] /\ Got("untagged") = page.got[2]
           /\ page.at = "session" => Loaded(2) /\ Got("session") = page.got[1] /\ Got("runs") = page.got[2]
           /\ page.at = "untagged" => Got("runs") = page.got[1]
           /\ page.at = "run" => Loaded(2) /\ Got("run") = page.got[1] /\ Got("children") = page.got[2]
<1>1. Len(page.got) = Len(Queries[page.at]) /\ page.at \in {"index", "session", "untagged", "run"}
  BY DEF PageType
<1>2. CASE page.at = "index"
  <2>1. Len(Queries[page.at]) = 2 /\ Queries[page.at][1] = "sessions" /\ Queries[page.at][2] = "untagged"
    BY <1>2, QueryNames
  <2>2. Got("sessions") = page.got[1]
    BY <2>1, GotIs
  <2>3. Got("untagged") = page.got[2]
    BY <2>1, GotIs
  <2> QED BY <1>1, <1>2, <2>1, <2>2, <2>3 DEF Loaded
<1>3. CASE page.at = "session"
  <2>1. Len(Queries[page.at]) = 2 /\ Queries[page.at][1] = "session" /\ Queries[page.at][2] = "runs"
    BY <1>3, QueryNames
  <2>2. Got("session") = page.got[1]
    BY <2>1, GotIs
  <2>3. Got("runs") = page.got[2]
    BY <2>1, GotIs
  <2> QED BY <1>1, <1>3, <2>1, <2>2, <2>3 DEF Loaded
<1>4. CASE page.at = "untagged"
  <2>1. Len(Queries[page.at]) = 1 /\ Queries[page.at][1] = "runs"
    BY <1>4, QueryNames
  <2>2. Got("runs") = page.got[1]
    BY <2>1, GotIs
  <2> QED BY <1>1, <1>4, <2>1, <2>2 DEF Loaded
<1>5. CASE page.at = "run"
  <2>1. /\ Len(Queries[page.at]) = 4 /\ Queries[page.at][1] = "run" /\ Queries[page.at][2] = "children"
        /\ Queries[page.at][3] = "processes" /\ Queries[page.at][4] = "denials"
    BY <1>5, QueryNames
  <2>2. Got("run") = page.got[1]
    BY <2>1, GotIs
  <2>3. Got("children") = page.got[2]
    BY <2>1, GotIs
  <2> QED BY <1>1, <1>5, <2>1, <2>2, <2>3 DEF Loaded
<1> QED BY <1>1, <1>2, <1>3, <1>4, <1>5

\* A page that is opened, about something it can be about.
LEMMA OpenedInv ==
    ASSUME DataInv, UNCHANGED <<scenario, rows, counter, mirror, cursor>>,
           NEW at \in {"index", "session", "untagged", "run"}, NEW id, NEW via, page' = Opened(at, id, via),
           via = "parent" => at = "run",
           at = "session" => Known(id) /\ id # NULL,
           at = "untagged" => id = NULL,
           at = "run" => Arrived(id) \/ via = "parent"
    PROVE  PageInv'
<1>1. page' = [at |-> at, id |-> id, via |-> via, got |-> <<>>, is |-> "loading"]
  BY DEF Opened
<1>2. page'.at = at /\ page'.id = id /\ page'.via = via /\ page'.got = <<>> /\ page'.is = "loading"
  BY <1>1
<1>3. page' = [at |-> page'.at, id |-> page'.id, via |-> page'.via, got |-> page'.got, is |-> page'.is]
  BY <1>1, <1>2
<1>4. \A q : (Arrived(q)' <=> Arrived(q)) /\ (Known(q)' <=> Known(q))
  BY Same
<1>5. Len(page'.got) = 0 /\ IsList(page'.got)
  BY <1>2 DEF IsList
<1>6. ~Loaded(1)' /\ ~Loaded(2)'
  BY <1>5 DEF Loaded
<1>7. Len(Queries[page'.at]) \in Nat /\ Len(Queries[page'.at]) > 0
  BY <1>2, QueryNames
<1>8. PageType'
  BY <1>2, <1>3, <1>5, <1>7 DEF PageType
<1>9. IndexOK' /\ UntaggedOK'
  BY <1>2, <1>6 DEF IndexOK, UntaggedOK
<1>10. SessionOK' /\ RunPageOK'
  BY <1>2, <1>4, <1>6 DEF SessionOK, RunPageOK
<1> QED BY <1>8, <1>9, <1>10 DEF PageInv

\* What a link leads to.
Leads(link) ==
    /\ link[1] \in {"session", "untagged", "run"}
    /\ link[3] = "parent" => link[1] = "run"
    /\ link[1] = "session" => Known(link[2]) /\ link[2] # NULL
    /\ link[1] = "untagged" => link[2] = NULL
    /\ link[1] = "run" => Arrived(link[2]) \/ link[3] = "parent"

\* Every link leads to something that has arrived, or to a parent.
LEMMA LinksLead ==
    ASSUME DataInv, PageInv, page.is = "shown", NEW link \in Links
    PROVE  Leads(link)
<1>1. CASE page.at = "index"
  <2>1. \/ \E s \in Got("sessions") : link = <<"session", s.id, "link">>
        \/ link = <<"untagged", NULL, "link">>
    BY <1>1 DEF Links
  <2>2. \A s \in Got("sessions") : Known(s.id) /\ s.id # NULL
    BY <1>1, Gots DEF PageInv, IndexOK
  <2> QED BY <2>1, <2>2 DEF Leads
<1>2. CASE page.at \in {"session", "untagged"}
  <2>1. \E r \in Got("runs") : link = <<"run", r.id, "link">>
    BY <1>2 DEF Links
  <2>2. \A r \in Got("runs") : Arrived(r.id)
    BY <1>2, Gots DEF PageInv, SessionOK, UntaggedOK
  <2> QED BY <2>1, <2>2 DEF Leads
<1>3. CASE page.at = "run"
  <2>1. \/ \E r \in Got("run") : link = <<IF r.session = NULL THEN "untagged" ELSE "session", r.session, "link">>
        \/ \E c \in Got("children") : link = <<"run", c, "link">>
        \/ \E r \in Got("run") : link = <<"run", r.parent, "parent">>
    BY <1>3 DEF Links
  <2>2. (\A r \in Got("run") : r.session # NULL => Known(r.session)) /\ \A c \in Got("children") : Arrived(c)
    BY <1>3, Gots DEF PageInv, RunPageOK
  <2>3. CASE \E r \in Got("run") : link = <<IF r.session = NULL THEN "untagged" ELSE "session", r.session, "link">>
    <3>1. PICK r \in Got("run") : link = <<IF r.session = NULL THEN "untagged" ELSE "session", r.session, "link">>
      BY <2>3
    <3>2. CASE r.session = NULL
      BY <3>1, <3>2 DEF Leads
    <3>3. CASE r.session # NULL
      BY <2>2, <3>1, <3>3 DEF Leads
    <3> QED BY <3>2, <3>3
  <2>4. CASE \E c \in Got("children") : link = <<"run", c, "link">>
    BY <2>2, <2>4 DEF Leads
  <2>5. CASE \E r \in Got("run") : link = <<"run", r.parent, "parent">>
    BY <2>5 DEF Leads
  <2> QED BY <2>1, <2>3, <2>4, <2>5
<1> QED BY <1>1, <1>2, <1>3 DEF PageInv, PageType

\* A link is followed.
LEMMA FollowInv ==
    ASSUME DataInv, PageInv, Follow
    PROVE  DataInv' /\ PageInv'
<1>1. UNCHANGED <<scenario, rows, counter, mirror, cursor>>
  BY DEF Follow
<1>2. CASE page.is = "shown" /\ \E link \in Links : page' = Opened(link[1], link[2], link[3])
  <2>1. PICK link \in Links : page' = Opened(link[1], link[2], link[3])
    BY <1>2
  <2>2. Leads(link)
    BY <1>2, LinksLead
  <2> DEFINE at == link[1]
             id == link[2]
             via == link[3]
  <2>3. /\ at \in {"index", "session", "untagged", "run"} /\ page' = Opened(at, id, via)
        /\ via = "parent" => at = "run"
        /\ at = "session" => Known(id) /\ id # NULL
        /\ at = "untagged" => id = NULL
        /\ at = "run" => Arrived(id) \/ via = "parent"
    BY <2>1, <2>2 DEF Leads
  <2> HIDE DEF at, id, via
  <2> QED BY <1>1, <2>3, OpenedInv, Same
<1>3. CASE page' = Opened("index", NULL, "link")
  BY <1>1, <1>3, OpenedInv, Same
<1> QED BY <1>2, <1>3 DEF Follow

\* The first state, and every step.
LEMMA InitInv == Init => Inv
<1> SUFFICES ASSUME Init PROVE Inv
  OBVIOUS
<1>1. scenario \in Scenarios /\ rows = {} /\ mirror = {} /\ page = Opened("index", NULL, "link")
  BY DEF Init
<1>2. \A t : Ids(In(rows, t)) = {} /\ In(rows, t) = {}
  BY <1>1 DEF Ids, In
<1>3. {} = 1..0
  BY SMT
<1>4. \A t : Numbered(t)
  BY <1>2, <1>3 DEF Numbered
<1>5. EndpointOK
  BY <1>1, <1>2, <1>4, FS_EmptySet DEF EndpointOK
<1>6. MirrorOK
  BY <1>1 DEF MirrorOK, In
<1>7. page = [at |-> "index", id |-> NULL, via |-> "link", got |-> <<>>, is |-> "loading"]
  BY <1>1 DEF Opened
<1>8. page.at = "index" /\ page.via = "link" /\ page.got = <<>> /\ page.is = "loading" /\ page.id = NULL
  BY <1>7
<1>9. Len(page.got) = 0 /\ IsList(page.got)
  BY <1>8 DEF IsList
<1>10. PageType
  BY <1>7, <1>8, <1>9, QueryNames DEF PageType
<1>11. ~Loaded(1) /\ ~Loaded(2)
  BY <1>9 DEF Loaded
<1>12. IndexOK /\ SessionOK /\ UntaggedOK /\ RunPageOK
  BY <1>8, <1>11 DEF IndexOK, SessionOK, UntaggedOK, RunPageOK
<1>13. Synced
  BY <1>1 DEF Init, Synced
<1> QED BY <1>5, <1>6, <1>10, <1>12, <1>13 DEF Inv, DataInv, PageInv

LEMMA NextInv == Inv /\ [Next]_vars => Inv'
<1> SUFFICES ASSUME DataInv, Synced, PageInv, [Next]_vars PROVE DataInv' /\ Synced' /\ PageInv'
  BY DEF Inv
<1>0. UNCHANGED <<rows, counter, mirror, cursor>> => Synced'
  BY DEF Synced
<1>1. CASE Record
  <2>1. Committed
    BY <1>1, RecordInv
  <2>2. Grows /\ page' = page
    BY <2>1, CommittedGrows DEF Committed
  <2> QED BY <2>1, <2>2, PageStays DEF Committed
<1>2. CASE Receive
  <2>1. DataInv' /\ Grows /\ page' = page
    BY <1>2, ReceiveInv DEF Receive
  <2> QED BY <1>2, <2>1, PageStays, ReceiveSynced
<1>3. CASE Query
  BY <1>0, <1>3, QueryInv
<1>4. CASE Follow
  <2>1. UNCHANGED <<rows, counter, mirror, cursor>>
    BY <1>4 DEF Follow
  <2> QED BY <1>0, <1>4, <2>1, FollowInv
<1>5. CASE UNCHANGED vars
  <2>1. UNCHANGED <<scenario, rows, counter, mirror, cursor>> /\ page' = page
    BY <1>5 DEF vars
  <2>2. DataInv' /\ Sessions' = Sessions /\ \A id : (Arrived(id)' <=> Arrived(id)) /\ (Known(id)' <=> Known(id))
        /\ \A session : HasRun(id, session)' <=> HasRun(id, session)
    BY <2>1, Same
  <2>3. Grows
    BY <2>2 DEF Grows
  <2> QED BY <1>0, <2>1, <2>2, <2>3, PageStays
<1> QED BY <1>1, <1>2, <1>3, <1>4, <1>5 DEF Next

-----------------------------------------------------------------------------
(* Pages and reports *)

\* Once everything recorded has arrived, the mirror has the rows of the endpoint.
LEMMA AllArrived ==
    ASSUME DataInv, Synced, cursor = counter
    PROVE  mirror = rows
<1>1. ASSUME NEW r \in rows PROVE r \in mirror
  BY DEF Synced
<1>2. ASSUME NEW m \in mirror PROVE m \in rows
  <2>1. PICK r \in rows : m.key = r.key
    BY DEF Synced
  <2>2. r \in mirror
    BY <1>1
  <2>3. m = r
    BY <2>1, <2>2 DEF DataInv, MirrorOK
  <2> QED BY <2>3
<1> QED BY <1>1, <1>2

\* One row of a number.
LEMMA OneRow ==
    ASSUME DataInv, NEW t, NEW a \in In(rows, t), NEW b \in In(rows, t), Id(a) = Id(b)
    PROVE  a = b
<1>1. a \in rows /\ b \in rows /\ a.key = <<t, Id(a)>> /\ b.key = <<t, Id(b)>>
  BY DEF DataInv, EndpointOK, In, Typed, Id
<1> QED BY <1>1, SameKey

\* The session of a run, and what is joined of a row that is there.
LEMMA JoinedIs ==
    ASSUME DataInv, NEW t, NEW a \in In(rows, t), NEW column
    PROVE  Row(rows, t, Id(a)) = {a} /\ Joined(Row(rows, t, Id(a)), column) = a[column]
<1>1. Row(rows, t, Id(a)) = {a}
  BY OneRow DEF Row
<1> QED BY <1>1 DEF Joined

LEMMA SessionOf ==
    ASSUME DataInv, NEW r \in In(rows, "runs"), r.session # NULL
    PROVE  \E s \in In(rows, "sessions") : Id(s) = r.session /\ s.name \in Names
<1>1. <<r.session, Owner(r.by)>> \in Sessions
  BY DEF DataInv, EndpointOK, RunOK
<1>2. PICK s \in In(rows, "sessions") : <<r.session, Owner(r.by)>> = <<Id(s), s.name>>
  BY <1>1 DEF Sessions
<1>3. s.name \in Names
  BY DEF DataInv, EndpointOK, In, Typed, IsSession, IsRun, IsProcess, IsDenial
<1> QED BY <1>2, <1>3

\* The sessions of the index that have runs, and its untagged runs.
LEMMA IndexMatches ==
    ASSUME mirror = rows, NEW id
    PROVE  /\ {s \in Answer("sessions", id) : s.runs # {}} = ReportSessions
           /\ Answer("untagged", id) = Ids(Where(rows, "runs", "session", NULL))
<1> DEFINE runs(s) == Where(rows, "runs", "session", Id(s))
           line(s) == [id |-> Id(s), name |-> s.name, runs |-> Ids(runs(s)),
                       denials |-> Total({d \in In(rows, "denials") : \E r \in runs(s) : d.run = Id(r)})]
           S == In(rows, "sessions")
<1>1. ReportSessions = {line(s) : s \in {q \in S : runs(q) # {}}}
  BY DEF ReportSessions
<1>2. ASSUME NEW s PROVE Summary(s) = line(s)
  <2>1. {d \in In(rows, "denials") : d.run \in Ids(runs(s))} = {d \in In(rows, "denials") : \E r \in runs(s) : d.run = Id(r)}
    BY DEF Ids
  <2> QED BY <2>1 DEF Summary
<1>3. ASSUME NEW s PROVE line(s).runs # {} <=> runs(s) # {}
  <2>1. line(s).runs = Ids(runs(s))
    OBVIOUS
  <2> HIDE DEF runs, line
  <2> QED BY <2>1 DEF Ids
<1>4. Answer("sessions", id) = {Summary(s) : s \in S}
  BY Answers
<1> HIDE DEF runs, line, S
<1>5. {s \in Answer("sessions", id) : s.runs # {}} = ReportSessions
  BY <1>1, <1>2, <1>3, <1>4
<1> QED BY <1>5, Answers

\* What a list says of a run.
Listing(r) == [id |-> r.id, status |-> r.status, processes |-> r.processes, denials |-> r.denials]

\* The runs of a list are the ones of the report for its key, if no key is of two agents.
LEMMA RunsMatch ==
    ASSUME mirror = rows, NEW id, NEW key,
           \A q \in In(rows, "runs") :
              q.session = id <=>
              key = IF q.session = NULL THEN NULL ELSE (CHOOSE s \in Row(rows, "sessions", q.session) : TRUE).name[2]
    PROVE  ReportRuns(key) = {[id |-> r.id, status |-> r.status, processes |-> r.processes, denials |-> r.denials] : r \in Answer("runs", id)}
<1> DEFINE line(r) == [id |-> Id(r), status |-> r.status, processes |-> Cardinality(Where(rows, "processes", "run", Id(r))),
                       denials |-> Total(Where(rows, "denials", "run", Id(r)))]
           R == {q \in In(rows, "runs") : key = IF q.session = NULL THEN NULL ELSE (CHOOSE s \in Row(rows, "sessions", q.session) : TRUE).name[2]}
           W == Where(rows, "runs", "session", id)
<1>1. ReportRuns(key) = {line(r) : r \in R}
  BY DEF ReportRuns
<1>2. R = W
  BY DEF Where
<1>3. ASSUME NEW r PROVE Listing(RunSummary(r)) = line(r)
  BY DEF RunSummary, Listing
<1>4. Answer("runs", id) = {RunSummary(r) : r \in W}
  BY Answers
<1> HIDE DEF R, W, line
<1>5. {Listing(r) : r \in Answer("runs", id)} = {line(r) : r \in W}
  BY <1>3, <1>4
<1> QED BY <1>1, <1>2, <1>5 DEF Listing

\* The page of a session, and of the untagged runs.
LEMMA SessionMatches ==
    ASSUME KeysApart, DataInv, mirror = rows, NEW id, id # NULL, NEW s \in In(rows, "sessions"), Id(s) = id
    PROVE  ReportRuns(s.name[2]) =
             {[id |-> r.id, status |-> r.status, processes |-> r.processes, denials |-> r.denials] : r \in Answer("runs", id)}
<1>1. ASSUME NEW q \in In(rows, "sessions") PROVE q.name \in Names
  BY DEF DataInv, EndpointOK, In, Typed, IsSession, IsRun, IsProcess, IsDenial
<1>2. ASSUME NEW q \in In(rows, "sessions"), q.name[2] = s.name[2] PROVE q = s
  <2>1. q.name[1] = s.name[1]
    BY <1>1, <1>2, NameFields DEF KeysApart
  <2>2. q.name = s.name
    BY <1>1, <1>2, <2>1, NameFields
  <2> QED BY <2>2 DEF DataInv, EndpointOK
<1>3. ASSUME NEW q \in In(rows, "runs")
      PROVE  q.session = id <=>
             s.name[2] = IF q.session = NULL THEN NULL ELSE (CHOOSE x \in Row(rows, "sessions", q.session) : TRUE).name[2]
  <2>1. CASE q.session = NULL
    BY <1>1, <2>1, NameFields
  <2>2. CASE q.session # NULL
    <3>1. PICK x \in In(rows, "sessions") : Id(x) = q.session
      BY <2>2, SessionOf
    <3>2. Row(rows, "sessions", q.session) = {x}
      BY <3>1, JoinedIs
    <3>3. (CHOOSE y \in Row(rows, "sessions", q.session) : TRUE) = x
      BY <3>2
    <3>4. q.session = id <=> x = s
      BY <3>1, OneRow
    <3>5. x = s <=> s.name[2] = x.name[2]
      BY <1>2
    <3> QED BY <2>2, <3>3, <3>4, <3>5
  <2> QED BY <2>1, <2>2
<1> DEFINE key == s.name[2]
<1> HIDE DEF key
<1>4. \A q \in In(rows, "runs") :
        q.session = id <=>
        key = IF q.session = NULL THEN NULL ELSE (CHOOSE x \in Row(rows, "sessions", q.session) : TRUE).name[2]
  BY <1>3 DEF key
<1> QED BY <1>4, RunsMatch DEF key

LEMMA UntaggedMatches ==
    ASSUME DataInv, mirror = rows
    PROVE  ReportRuns(NULL) =
             {[id |-> r.id, status |-> r.status, processes |-> r.processes, denials |-> r.denials] : r \in Answer("runs", NULL)}
<1>1. ASSUME NEW q \in In(rows, "runs")
      PROVE  q.session = NULL <=>
             NULL = IF q.session = NULL THEN NULL ELSE (CHOOSE x \in Row(rows, "sessions", q.session) : TRUE).name[2]
  <2>1. CASE q.session = NULL
    BY <2>1
  <2>2. CASE q.session # NULL
    <3>1. PICK x \in In(rows, "sessions") : Id(x) = q.session /\ x.name \in Names
      BY <2>2, SessionOf
    <3>2. Row(rows, "sessions", q.session) = {x}
      BY <3>1, JoinedIs
    <3>3. (CHOOSE y \in Row(rows, "sessions", q.session) : TRUE) = x
      BY <3>2
    <3> QED BY <2>2, <3>1, <3>3, NameFields
  <2> QED BY <2>1, <2>2
<1> QED BY <1>1, RunsMatch

\* The lists of a run's page.
LEMMA RunLists ==
    ASSUME NEW id
    PROVE  /\ Answer("processes", id) =
                {[id |-> Id(p), parent |-> p.parent, prev |-> p.prev, end |-> p.end, platform |-> p.platform] :
                   p \in Where(mirror, "processes", "run", id)}
           /\ Answer("denials", id) =
                {[id |-> Id(d), process |-> d.process, count |-> d.count,
                  platform |-> Joined(Row(mirror, "processes", d.process), "platform")] :
                   d \in Where(mirror, "denials", "run", id)}
<1>1. Answer("processes", id) =
        {[id |-> Id(p), parent |-> p.parent, prev |-> p.prev, end |-> p.end, platform |-> p.platform] :
           p \in Where(mirror, "processes", "run", id)}
  BY DEF Answer
<1>2. Answer("denials", id) =
        {[id |-> Id(d), process |-> d.process, count |-> d.count,
          platform |-> Joined(Row(mirror, "processes", d.process), "platform")] :
           d \in Where(mirror, "denials", "run", id)}
  BY DEF Answer
<1> QED BY <1>1, <1>2

\* The first query of a run's page: its status, parent, error and profile, and its session's name.
LEMMA DetailMatches ==
    ASSUME DataInv, mirror = rows, NEW id, NEW d \in Answer("run", id), NEW q \in ReportRun(id)
    PROVE  /\ <<d.status, d.parent, d.err, d.text>> = <<q.status, q.parent, q.err, q.text>>
           /\ IF d.name = NULL THEN q.name = {} ELSE q.name = {d.name}
           /\ q.processes = Where(rows, "processes", "run", id)
           /\ q.denials = {x \in In(rows, "denials") \X In(rows, "processes") : x[1].run = id /\ x[1].process = Id(x[2])}
<1> DEFINE names(r) == {s.name : s \in {x \in In(rows, "sessions") : Id(x) = r.session}}
           both == {x \in In(rows, "denials") \X In(rows, "processes") : x[1].run = id /\ x[1].process = Id(x[2])}
           told(r) == [status |-> r.status, parent |-> r.parent, err |-> r.err, text |-> r.text, name |-> names(r),
                       processes |-> Where(rows, "processes", "run", id), denials |-> both]
<1>1. PICK r \in Row(rows, "runs", id) : d = Detail(r)
  BY Answers
<1>2. PICK r2 \in Row(rows, "runs", id) : q = told(r2)
  BY DEF ReportRun
<1>3. r2 = r /\ r \in In(rows, "runs")
  BY OneRow DEF Row
<1>4. q.status = r.status /\ q.parent = r.parent /\ q.err = r.err /\ q.text = r.text /\ q.name = names(r)
      /\ q.processes = Where(rows, "processes", "run", id) /\ q.denials = both
  <2> HIDE DEF names, both
  <2> QED BY <1>2, <1>3
<1>5. /\ d.status = r.status /\ d.parent = r.parent /\ d.err = r.err /\ d.text = r.text
      /\ d.name = IF r.session = NULL THEN NULL ELSE Joined(Row(rows, "sessions", r.session), "name")
  BY <1>1 DEF Detail
<1>6. IF d.name = NULL THEN names(r) = {} ELSE names(r) = {d.name}
  <2>1. CASE r.session = NULL
    <3>1. \A s \in In(rows, "sessions") : Id(s) # NULL
      BY NullAssumption DEF DataInv, EndpointOK, In, Typed, Id
    <3> QED BY <1>5, <2>1, <3>1
  <2>2. CASE r.session # NULL
    <3>1. PICK s \in In(rows, "sessions") : Id(s) = r.session /\ s.name \in Names
      BY <1>3, <2>2, SessionOf
    <3>2. Joined(Row(rows, "sessions", Id(s)), "name") = s.name
      BY JoinedIs
    <3>3. names(r) = {s.name}
      BY <3>1, OneRow
    <3> HIDE DEF names
    <3> QED BY <1>5, <2>2, <3>1, <3>2, <3>3, NameFields
  <2> QED BY <2>1, <2>2
<1> HIDE DEF names
<1> QED BY <1>4, <1>5, <1>6

\* Its images, and its denials with their images.
LEMMA ListsMatch ==
    ASSUME DataInv, mirror = rows, NEW id
    PROVE  /\ {<<p.id, p.end>> : p \in Answer("processes", id)} = {<<Id(p), p.end>> : p \in Where(rows, "processes", "run", id)}
           /\ {<<x.id, x.count, x.platform>> : x \in Answer("denials", id)} =
                {<<Id(x[1]), x[1].count, x[2].platform>> :
                   x \in {y \in In(rows, "denials") \X In(rows, "processes") : y[1].run = id /\ y[1].process = Id(y[2])}}
<1> DEFINE image(p) == [id |-> Id(p), parent |-> p.parent, prev |-> p.prev, end |-> p.end, platform |-> p.platform]
           W == Where(rows, "processes", "run", id)
           denial(d) == [id |-> Id(d), process |-> d.process, count |-> d.count,
                         platform |-> Joined(Row(rows, "processes", d.process), "platform")]
           D == Where(rows, "denials", "run", id)
           both == {y \in In(rows, "denials") \X In(rows, "processes") : y[1].run = id /\ y[1].process = Id(y[2])}
           A == {<<x.id, x.count, x.platform>> : x \in Answer("denials", id)}
           B == {<<Id(x[1]), x[1].count, x[2].platform>> : x \in both}
<1>1. Answer("processes", id) = {image(p) : p \in W} /\ Answer("denials", id) = {denial(d) : d \in D}
  BY RunLists
<1>2. \A p : image(p).id = Id(p) /\ image(p).end = p.end
  OBVIOUS
<1>3. {<<p.id, p.end>> : p \in Answer("processes", id)} = {<<Id(p), p.end>> : p \in W}
  <2> HIDE DEF image, W
  <2> QED BY <1>1, <1>2
<1>4. \A d : denial(d).id = Id(d) /\ denial(d).count = d.count /\ denial(d).platform = Joined(Row(rows, "processes", d.process), "platform")
  OBVIOUS
<1>5. ASSUME NEW d \in In(rows, "denials"), NEW p \in In(rows, "processes"), d.process = Id(p)
      PROVE  <<denial(d).id, denial(d).count, denial(d).platform>> = <<Id(d), d.count, p.platform>>
  <2>1. Joined(Row(rows, "processes", Id(p)), "platform") = p.platform
    BY JoinedIs
  <2> HIDE DEF denial
  <2> QED BY <1>4, <1>5, <2>1
<1>6. ASSUME NEW d \in D PROVE <<denial(d).id, denial(d).count, denial(d).platform>> \in B
  <2>1. d \in In(rows, "denials") /\ d.run = id
    BY DEF Where
  <2>2. PICK p \in In(rows, "processes") : d.process = Id(p)
    BY <2>1 DEF DataInv, EndpointOK, ProcessIds, Ids
  <2>3. <<d, p>> \in both
    BY <2>1, <2>2
  <2>4. <<Id(<<d, p>>[1]), <<d, p>>[1].count, <<d, p>>[2].platform>> = <<Id(d), d.count, p.platform>>
    OBVIOUS
  <2>5. <<Id(d), d.count, p.platform>> \in B
    <3> HIDE DEF both
    <3> QED BY <2>3, <2>4
  <2> HIDE DEF B, denial
  <2> QED BY <1>5, <2>1, <2>2, <2>5
<1>7. ASSUME NEW x \in both PROVE <<Id(x[1]), x[1].count, x[2].platform>> \in A
  <2>1. x[1] \in In(rows, "denials") /\ x[2] \in In(rows, "processes") /\ x[1].run = id /\ x[1].process = Id(x[2])
    OBVIOUS
  <2>2. x[1] \in D
    BY <2>1 DEF Where
  <2> HIDE DEF D, both, denial
  <2>3. denial(x[1]) \in Answer("denials", id)
    BY <1>1, <2>2
  <2>4. <<denial(x[1]).id, denial(x[1]).count, denial(x[1]).platform>> \in A
    BY <2>3
  <2> HIDE DEF A
  <2> QED BY <1>5, <2>1, <2>4
<1>8. A = B
  <2>1. ASSUME NEW a \in A PROVE a \in B
    <3>1. PICK x \in Answer("denials", id) : a = <<x.id, x.count, x.platform>>
      OBVIOUS
    <3> HIDE DEF A, B, denial, D
    <3>2. PICK d \in D : x = denial(d)
      BY <1>1
    <3> QED BY <1>6, <3>1, <3>2
  <2>2. ASSUME NEW b \in B PROVE b \in A
    <3>1. PICK x \in both : b = <<Id(x[1]), x[1].count, x[2].platform>>
      OBVIOUS
    <3> HIDE DEF A, B, both
    <3> QED BY <1>7, <3>1
  <2> HIDE DEF A, B
  <2> QED BY <2>1, <2>2
<1> QED BY <1>3, <1>8

\* How the timeline says that an image ended.
LEMMA TimelineMatches ==
    ASSUME DataInv, mirror = rows, NEW id, NEW p \in Where(rows, "processes", "run", id)
    PROVE  {<<"exit", Id(p)>>, <<"stopped", Id(p)>>} \cap Timeline(Answer("processes", id)) =
             CASE p.end = "exit" -> {<<"exit", Id(p)>>}
               [] p.end = "watch_stopped" -> {<<"stopped", Id(p)>>}
               [] OTHER -> {}
<1> DEFINE image(q) == [id |-> Id(q), parent |-> q.parent, prev |-> q.prev, end |-> q.end, platform |-> q.platform]
           W == Where(rows, "processes", "run", id)
           A == Answer("processes", id)
<1>1. A = {image(q) : q \in W}
  BY RunLists
<1>2. \A q : image(q).id = Id(q) /\ image(q).end = q.end
  OBVIOUS
<1>3. ASSUME NEW q \in W, Id(q) = Id(p) PROVE q = p
  BY <1>3, OneRow DEF Where
<1> HIDE DEF image, A, W
<1>4. ASSUME NEW a \in A, a.id = Id(p) PROVE a.end = p.end
  BY <1>1, <1>2, <1>3, <1>4
<1>5. image(p) \in A /\ image(p).id = Id(p) /\ image(p).end = p.end
  BY <1>1, <1>2 DEF W
<1>6. <<"exit", Id(p)>> \in Timeline(A) <=> p.end = "exit"
  <2>1. ASSUME <<"exit", Id(p)>> \in Timeline(A) PROVE p.end = "exit"
    <3>1. PICK a \in A : a.id = Id(p) /\ a.end = "exit"
      BY <2>1 DEF Timeline
    <3> QED BY <1>4, <3>1
  <2>2. ASSUME p.end = "exit" PROVE <<"exit", Id(p)>> \in Timeline(A)
    <3>1. image(p) \in {q \in A : q.end = "exit"} /\ <<"exit", Id(p)>> = <<"exit", image(p).id>>
      BY <1>5, <2>2
    <3> QED BY <3>1 DEF Timeline
  <2> QED BY <2>1, <2>2
<1>7. <<"stopped", Id(p)>> \in Timeline(A) <=> p.end = "watch_stopped"
  <2>1. ASSUME <<"stopped", Id(p)>> \in Timeline(A) PROVE p.end = "watch_stopped"
    <3>1. PICK a \in A : a.id = Id(p) /\ a.end = "watch_stopped"
      BY <2>1 DEF Timeline
    <3> QED BY <1>4, <3>1
  <2>2. ASSUME p.end = "watch_stopped" PROVE <<"stopped", Id(p)>> \in Timeline(A)
    <3>1. image(p) \in {q \in A : q.end = "watch_stopped"} /\ <<"stopped", Id(p)>> = <<"stopped", image(p).id>>
      BY <1>5, <2>2
    <3> QED BY <3>1 DEF Timeline
  <2> QED BY <2>1, <2>2
<1>8. <<"exit", Id(p)>> # <<"stopped", Id(p)>>
  OBVIOUS
<1>9. CASE p.end = "exit"
  BY <1>6, <1>7, <1>9 DEF A
<1>10. CASE p.end = "watch_stopped"
  BY <1>6, <1>7, <1>10 DEF A
<1>11. CASE p.end # "exit" /\ p.end # "watch_stopped"
  BY <1>6, <1>7, <1>11 DEF A
<1> QED BY <1>9, <1>10, <1>11

\* What a page that is up to date was answered, and what that is an answer to.
LEMMA UpToDateIs ==
    ASSUME DataInv, Synced, PageInv, UpToDate
    PROVE  /\ mirror = rows /\ page.at \in {"index", "session", "untagged", "run"}
           /\ page.at = "index" =>
                Got("sessions") = Answer("sessions", page.id) /\ Got("untagged") = Answer("untagged", page.id)
           /\ page.at = "session" => Got("session") = Answer("session", page.id) /\ Got("runs") = Answer("runs", page.id)
           /\ page.at = "untagged" => Got("runs") = Answer("runs", page.id)
           /\ page.at = "run" => /\ Got("run") = Answer("run", page.id)
                                 /\ Got("processes") = Answer("processes", page.id)
                                 /\ Got("denials") = Answer("denials", page.id)
<1>1. mirror = rows
  BY AllArrived DEF UpToDate
<1>2. page.at \in {"index", "session", "untagged", "run"} /\ page.is = "shown" /\ PageType
      /\ Len(page.got) = Len(Queries[page.at]) /\ IsList(page.got)
  BY DEF PageInv, PageType, UpToDate
<1>3. DOMAIN page.got = 1..Len(Queries[page.at])
  BY <1>2, ListFields
<1>4. \A i \in 1..Len(Queries[page.at]) : page.got[i] = Answer(Queries[page.at][i], page.id)
  BY <1>3 DEF UpToDate
<1>5. CASE page.at = "index"
  <2>1. page.got[1] = Answer("sessions", page.id) /\ page.got[2] = Answer("untagged", page.id)
    BY <1>4, <1>5, QueryNames
  <2> QED BY <1>1, <1>2, <1>5, <2>1, Gots
<1>6. CASE page.at = "session"
  <2>1. page.got[1] = Answer("session", page.id) /\ page.got[2] = Answer("runs", page.id)
    BY <1>4, <1>6, QueryNames
  <2> QED BY <1>1, <1>2, <1>6, <2>1, Gots
<1>7. CASE page.at = "untagged"
  <2>1. page.got[1] = Answer("runs", page.id)
    BY <1>4, <1>7, QueryNames
  <2> QED BY <1>1, <1>2, <1>7, <2>1, Gots
<1>8. CASE page.at = "run"
  <2>1. page.got[1] = Answer("run", page.id) /\ page.got[3] = Answer("processes", page.id)
        /\ page.got[4] = Answer("denials", page.id)
    BY <1>4, <1>8, QueryNames
  <2>2. /\ Len(Queries[page.at]) = 4 /\ Queries[page.at][1] = "run" /\ Queries[page.at][2] = "children"
        /\ Queries[page.at][3] = "processes" /\ Queries[page.at][4] = "denials"
    BY <1>8, QueryNames
  <2>3. Got("processes") = page.got[3]
    BY <2>2, GotIs
  <2>4. Got("denials") = page.got[4]
    BY <2>2, GotIs
  <2> QED BY <1>1, <1>2, <1>8, <2>1, <2>3, <2>4, Gots
<1> QED BY <1>2, <1>5, <1>6, <1>7, <1>8

-----------------------------------------------------------------------------
(* Theorems *)

\* What is recorded, what has arrived and what the page has been answered stay in agreement in every
\* behaviour: runs and sessions keep their numbers and names (Store), the mirror holds an older or the
\* same version of them (pages.go reads it) and all of them up to its cursor, and what a page links to
\* or shows has arrived.
THEOREM PagesInvariant == Spec => []Inv
<1>1. Init => Inv
  BY InitInv
<1>2. Inv /\ [Next]_vars => Inv'
  BY NextInv
<1> QED BY <1>1, <1>2, PTL DEF Spec

\* No link of a page leads to a "not found" but the one to a parent run that has not arrived yet
\* (serverdb's ErrNotFound): every other link is to something that had arrived when its page was made.
THEOREM NoDeadLinkHolds == Spec => []NoDeadLink
<1>1. Inv => NoDeadLink
  BY DEF Inv, PageInv, PageType, NoDeadLink
<1> QED BY <1>1, PagesInvariant, PTL

\* The index counts no run twice (Hosts), though its sessions and its untagged runs are two queries:
\* a run of a session in the first has that session for good, in the second too.
THEOREM IndexCountsOnceHolds == Spec => []IndexCountsOnce
<1>1. Inv => IndexCountsOnce
  BY Gots DEF Inv, PageInv, IndexOK, IndexCountsOnce
<1> QED BY <1>1, PagesInvariant, PTL

\* A recorded run has its whole profile or none and an error, whatever is done to the file while it is
\* read (readProfileFile), however the session of the run is found or changed later.
THEOREM ProfileWholeHolds == Spec => []ProfileWhole
<1>1. Inv => ProfileWhole
  BY DEF Inv, DataInv, EndpointOK, RunOK, ProfileWhole
<1> QED BY <1>1, PagesInvariant, PTL

\* A page shows a run under the session of its launcher or under none, and as untagged only if it has
\* no profile or no agent launched it, for any nesting of launchers and any order of arrival.
THEOREM ShownUnderOwnerHolds == Spec => []ShownUnderOwner
<1>1. ASSUME Inv, page.is = "shown" PROVE ShownUnderOwner
  <2>1. PageType /\ IndexOK /\ SessionOK /\ UntaggedOK /\ RunPageOK /\ DataInv
    BY <1>1 DEF Inv, PageInv
  <2>2. CASE page.at = "run"
    <3>1. \A r \in Got("run") : r.name \in {NULL, Owner(r.by)}
      BY <1>1, <2>1, <2>2, Gots DEF RunPageOK
    <3> QED BY <2>2, <3>1 DEF ShownUnderOwner
  <2>3. CASE page.at = "session"
    <3>1. ASSUME NEW s \in Got("session"), NEW r \in Got("runs") PROVE Owner(r.by) = s.name
      <4>1. <<page.id, s.name>> \in Sessions /\ <<page.id, Owner(r.by)>> \in Sessions
        BY <1>1, <2>1, <2>3, Gots DEF SessionOK
      <4> QED BY <2>1, <4>1, NameOf
    <3> QED BY <2>3, <3>1 DEF ShownUnderOwner
  <2>4. CASE page.at = "untagged"
    <3>1. \A r \in Got("runs") : r.text = <<>> \/ Owner(r.by) = NULL
      BY <1>1, <2>1, <2>4, Gots DEF UntaggedOK
    <3> QED BY <2>4, <3>1 DEF ShownUnderOwner
  <2>5. CASE page.at = "index"
    <3>1. ASSUME NEW s \in Got("sessions"), NEW r \in In(mirror, "runs"), Id(r) \in s.runs
          PROVE  Owner(r.by) = s.name
      <4>1. s.id # NULL /\ <<s.id, s.name>> \in Sessions /\ HasRun(Id(r), s.id)
        BY <1>1, <2>1, <2>5, <3>1, Gots DEF IndexOK
      <4>2. r.session = s.id
        BY <2>1, <4>1, RunArrived DEF HasRun
      <4>3. <<s.id, Owner(r.by)>> \in Sessions
        BY <2>1, <4>1, <4>2, RunArrived DEF RunOK
      <4> QED BY <2>1, <4>1, <4>3, NameOf
    <3> QED BY <2>5, <3>1 DEF ShownUnderOwner
  <2> QED BY <2>1, <2>2, <2>3, <2>4, <2>5 DEF PageType
<1>2. Inv => ShownUnderOwner
  BY <1>1 DEF ShownUnderOwner
<1> QED BY <1>2, PagesInvariant, PTL

\* Once everything recorded has arrived, a page that was put together from then on says what `buckle
\* query` prints on the endpoint (internal/report): the same sessions, runs, counts, statuses, profiles,
\* images and denials, in any state that any order of calls, arrivals and queries leads to.  The page of
\* a session and the report of its key are the same runs only if no key belongs to two agents.
THEOREM PageMatchesReportHolds ==
    ASSUME KeysApart
    PROVE  Spec => []PageMatchesReport
<1>1. ASSUME Inv, UpToDate PROVE PageMatchesReport
  <2>1. DataInv /\ Synced /\ PageInv
    BY <1>1 DEF Inv
  <2>2. mirror = rows /\ page.at \in {"index", "session", "untagged", "run"} /\ page.is = "shown"
    BY <1>1, <2>1, UpToDateIs DEF UpToDate
  <2>3. CASE page.at = "index"
    <3>1. Got("sessions") = Answer("sessions", page.id) /\ Got("untagged") = Answer("untagged", page.id)
      BY <1>1, <2>1, <2>3, UpToDateIs
    <3>2. /\ {s \in Got("sessions") : s.runs # {}} = ReportSessions
          /\ Got("untagged") = Ids(Where(rows, "runs", "session", NULL))
      BY <2>2, <3>1, IndexMatches
    <3> QED BY <2>3, <3>2 DEF PageMatchesReport
  <2>4. CASE page.at = "session"
    <3>1. Got("session") = Answer("session", page.id) /\ Got("runs") = Answer("runs", page.id) /\ page.id # NULL
      BY <1>1, <2>1, <2>4, UpToDateIs DEF PageInv, SessionOK
    <3>2. ASSUME NEW key \in {s.name[2] : s \in Got("session")}
          PROVE  ReportRuns(key) =
                   {[id |-> r.id, status |-> r.status, processes |-> r.processes, denials |-> r.denials] : r \in Got("runs")}
      <4>1. PICK s \in In(rows, "sessions") : Id(s) = page.id /\ key = s.name[2]
        BY <2>2, <3>1, Answers, Summaries DEF Row
      <4> QED BY <2>1, <2>2, <3>1, <4>1, SessionMatches
    <3> QED BY <2>4, <3>2 DEF PageMatchesReport
  <2>5. CASE page.at = "untagged"
    <3>1. Got("runs") = Answer("runs", NULL)
      BY <1>1, <2>1, <2>5, UpToDateIs DEF PageInv, UntaggedOK
    <3>2. ReportRuns(NULL) =
            {[id |-> r.id, status |-> r.status, processes |-> r.processes, denials |-> r.denials] : r \in Got("runs")}
      BY <2>1, <2>2, <3>1, UntaggedMatches
    <3> QED BY <2>5, <3>2 DEF PageMatchesReport
  <2>6. CASE page.at = "run"
    <3>1. /\ Got("run") = Answer("run", page.id)
          /\ Got("processes") = Answer("processes", page.id)
          /\ Got("denials") = Answer("denials", page.id)
      BY <1>1, <2>1, <2>6, UpToDateIs
    <3>2. ASSUME NEW d \in Got("run"), NEW q \in ReportRun(page.id)
          PROVE  /\ <<d.status, d.parent, d.err, d.text>> = <<q.status, q.parent, q.err, q.text>>
                 /\ IF d.name = NULL THEN q.name = {} ELSE q.name = {d.name}
                 /\ q.processes = Where(rows, "processes", "run", page.id)
                 /\ q.denials = {x \in In(rows, "denials") \X In(rows, "processes") : x[1].run = page.id /\ x[1].process = Id(x[2])}
      BY <2>1, <2>2, <3>1, DetailMatches
    <3>3. /\ {<<p.id, p.end>> : p \in Got("processes")} = {<<Id(p), p.end>> : p \in Where(rows, "processes", "run", page.id)}
          /\ {<<x.id, x.count, x.platform>> : x \in Got("denials")} =
               {<<Id(x[1]), x[1].count, x[2].platform>> :
                  x \in {y \in In(rows, "denials") \X In(rows, "processes") : y[1].run = page.id /\ y[1].process = Id(y[2])}}
      BY <2>1, <2>2, <3>1, ListsMatch
    <3>4. \A p \in Where(rows, "processes", "run", page.id) :
            {<<"exit", Id(p)>>, <<"stopped", Id(p)>>} \cap Timeline(Got("processes")) =
            CASE p.end = "exit" -> {<<"exit", Id(p)>>}
              [] p.end = "watch_stopped" -> {<<"stopped", Id(p)>>}
              [] OTHER -> {}
      BY <2>1, <2>2, <3>1, TimelineMatches
    <3> DEFINE both == {y \in In(rows, "denials") \X In(rows, "processes") : y[1].run = page.id /\ y[1].process = Id(y[2])}
               images == Where(rows, "processes", "run", page.id)
    <3>5. \A d \in Got("run"), q \in ReportRun(page.id) : q.processes = images /\ q.denials = both
      BY <3>2
    <3> HIDE DEF both, images
    <3>6. \A d \in Got("run"), q \in ReportRun(page.id) :
            /\ <<d.status, d.parent, d.err, d.text>> = <<q.status, q.parent, q.err, q.text>>
            /\ IF d.name = NULL THEN q.name = {} ELSE q.name = {d.name}
            /\ {<<p.id, p.end>> : p \in Got("processes")} = {<<Id(p), p.end>> : p \in q.processes}
            /\ {<<x.id, x.count, x.platform>> : x \in Got("denials")} = {<<Id(x[1]), x[1].count, x[2].platform>> : x \in q.denials}
            /\ \A p \in q.processes :
                 {<<"exit", Id(p)>>, <<"stopped", Id(p)>>} \cap Timeline(Got("processes")) =
                 CASE p.end = "exit" -> {<<"exit", Id(p)>>}
                   [] p.end = "watch_stopped" -> {<<"stopped", Id(p)>>}
                   [] OTHER -> {}
      BY <3>2, <3>3, <3>4, <3>5 DEF both, images
    <3> QED BY <2>6, <3>6 DEF PageMatchesReport
  <2> QED BY <2>2, <2>3, <2>4, <2>5, <2>6
<1>2. Inv => PageMatchesReport
  BY <1>1 DEF PageMatchesReport
<1> QED BY <1>2, PagesInvariant, PTL

====
