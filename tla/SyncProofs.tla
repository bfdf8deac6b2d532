----------------------------- MODULE SyncProofs -----------------------------
(***************************************************************************)
(* Theorems about Sync while no machine loses power, for every number of   *)
(* tables, rows, shippers, lost and late requests; with power losses they  *)
(* are false.  What survives those is in SyncPowerProofs.                  *)
(*                                                                         *)
(* NoGap is not inductive: it needs to know what a request in flight can   *)
(* still do.  NetInv says so: a request holds every row that was stamped   *)
(* between its base cursor and its last revision and has not been stamped  *)
(* again since, and its base is not above the server's cursor.             *)
(***************************************************************************)
EXTENDS Sync, FiniteSetTheorems, TLAPS

-----------------------------------------------------------------------------
(* The inductive invariant *)

RowsInv ==
    /\ IsFiniteSet(rows)
    /\ \A r \in rows : 0 < r.rev /\ r.rev <= counter
    /\ \A p, q \in rows : p.key = q.key \/ p.rev = q.rev => p = q

MirrorInv ==
    /\ cursor <= counter
    /\ MirrorBelowCursor
    /\ \A m \in mirror, r \in rows : m.key = r.key => m.rev < r.rev \/ Shows(m, r)

\* What is known of a request: see the head of the module.
RequestInv(m) ==
    /\ m.base <= cursor
    /\ \A b \in m.rows : m.base < b.rev /\ b.rev <= counter
    /\ \A a, b \in m.rows : a.key = b.key => a = b
    /\ \A b \in m.rows, r \in rows : b.key = r.key => b.rev < r.rev \/ b = r
    /\ \A b \in m.rows, r \in rows : m.base < r.rev /\ r.rev <= b.rev => r \in m.rows

NetInv == \A m \in net : RequestInv(m)

\* A shipper waits for at most one request.
OneHeld == \A m, n \in net : m.live /\ n.live /\ m.from = n.from => m = n

ShipInv ==
    /\ OneHeld
    /\ \A s \in Shipper : ship[s].pc = "read" => ship[s].since <= cursor
    /\ \A s \in Shipper : ship[s].pc = "reply" => ship[s].reply <= cursor
    /\ \A m \in net : m.live => ship[m.from].pc = "post" /\ ship[m.from].sent = m.rows
    /\ AnswerCoversRequest

IInv == TypeOK /\ RowsInv /\ MirrorInv /\ NetInv /\ ShipInv /\ NoGap

USE MaxIdAssumption, MaxRevAssumption, MaxRowsAssumption, NullAssumption

-----------------------------------------------------------------------------
(* Facts about the operators *)

\* A read for a shipper returns rows newer than its cursor, and no newer row below the last one it
\* returns is left out (ChangesSince merges per-table reads that are each cut at MaxRows).
LEMMA ChangesComplete ==
    ASSUME IsFiniteSet(rows), rows \subseteq Row, NEW c \in Nat, NEW batch \in ChangesSince(c)
    PROVE  /\ batch \subseteq rows
           /\ \A b \in batch : c < b.rev
           /\ \A b \in batch, r \in rows : c < r.rev /\ r.rev < b.rev => r \in batch
<1> DEFINE newer(t) == {r \in rows : r.key[1] = t /\ r.rev > c}
<1>1. PICK f \in [Table -> SUBSET rows] :
         /\ \A t \in Table : f[t] \in Lowest(newer(t), MaxRows)
         /\ batch \in Lowest(UNION {f[t] : t \in Table}, MaxRows)
  BY DEF ChangesSince
<1> DEFINE merged == UNION {f[t] : t \in Table}
<1>2. /\ \A t \in Table : f[t] \subseteq newer(t)
      /\ merged \subseteq rows
      /\ \A r \in merged : c < r.rev
  <2>1. \A t \in Table : f[t] \in SUBSET newer(t)
    <3> HIDE DEF newer
    <3> QED BY <1>1 DEF Lowest
  <2> QED BY <2>1
<1>3. batch \subseteq merged
  BY <1>1 DEF Lowest
<1>4. IsFiniteSet(merged) /\ IsFiniteSet(batch)
  BY <1>2, <1>3, FS_Subset
<1>5. ASSUME NEW b \in batch, NEW r \in rows, c < r.rev, r.rev < b.rev
      PROVE  r \in batch
  <2>1. r.rev \in Nat /\ b.rev \in Nat /\ \A q \in rows : q.rev \in Nat
    BY <1>2, <1>3 DEF Row
  <2>2. CASE r \in merged
    BY <1>1, <1>5, <2>1, <2>2 DEF Lowest
  <2>3. CASE r \notin merged
    <3> DEFINE t == r.key[1]
    <3>1. t \in Table /\ r \in newer(t) /\ r \notin f[t]
      BY <1>5, <2>3 DEF Row, Key
    <3>2. IsFiniteSet(newer(t)) /\ f[t] \subseteq newer(t) /\ IsFiniteSet(f[t])
      BY <1>2, <3>1, FS_Subset
    <3>3. Cardinality(f[t]) # Cardinality(newer(t))
      <4> HIDE DEF newer, t
      <4> QED BY <3>1, <3>2, FS_Subset
    <3>4. Cardinality(f[t]) = MaxRows /\ \A q \in f[t] : q.rev < r.rev
      <4> HIDE DEF newer, t
      <4> QED BY <1>1, <3>1, <3>3 DEF Lowest
    <3>5. \A q \in f[t] : q \in merged /\ q \in batch
      <4>1. \A q \in f[t] : q \in merged /\ q.rev < b.rev
        BY <1>2, <1>5, <2>1, <3>1, <3>4
      <4>2. \A q \in merged \ batch : b.rev < q.rev
        BY <1>1 DEF Lowest
      <4> QED BY <4>1, <4>2, <2>1, <1>2
    <3>6. b \notin f[t]
      BY <1>5, <2>1, <3>4
    <3>7. Cardinality(f[t] \cup {b}) = MaxRows + 1
      BY <3>2, <3>4, <3>6, FS_AddElement
    <3>8. Cardinality(f[t] \cup {b}) <= Cardinality(batch)
      BY <1>4, <3>5, FS_Subset
    <3>9. Cardinality(merged) \in Nat
      BY <1>4, FS_CardinalityType
    <3>10. Cardinality(batch) <= MaxRows
      <4> HIDE DEF merged
      <4> QED BY <1>1, <3>9 DEF Lowest, merged
    <3> QED BY <3>7, <3>8, <3>10, <1>4, FS_CardinalityType
  <2> QED BY <2>2, <2>3
<1> QED BY <1>2, <1>3, <1>5

\* A rowid given to a new record is not in use in its table.
LEMMA NextIdUnused ==
    ASSUME rows \subseteq Row, NEW t \in Table, NEW i \in NextIds(t)
    PROVE  <<t, i>> \in Key /\ <<t, i>> \notin Keys(rows)
BY DEF NextIds, Keys, Key, Row

\* What every transaction of the endpoint does: each row it leaves behind is an old one or has a
\* revision above the old counter, and keys and revisions stay unique.
Stamped ==
    /\ counter' \in Nat /\ counter <= counter'
    /\ rows' \subseteq Row /\ IsFiniteSet(rows')
    /\ \A r \in rows' : r \in rows \/ (counter < r.rev /\ r.rev <= counter')
    /\ \A p, q \in rows' : p.key = q.key \/ p.rev = q.rev => p = q

\* A transaction of the endpoint disturbs neither the requests in flight nor what the mirror knows,
\* because every row it writes gets a revision above the counter.
LEMMA WriteStep ==
    ASSUME TypeOK, RowsInv, MirrorInv, NetInv, NoGap,
           UNCHANGED <<net, mirror, cursor>>,
           Stamped
    PROVE  RowsInv' /\ MirrorInv' /\ NetInv' /\ NoGap'
<1> USE DEF Stamped
<1>1. /\ \A r \in rows' : r.rev \in Nat
      /\ \A m \in mirror : m.rev \in Nat
      /\ cursor \in Nat /\ counter \in Nat
  BY DEF TypeOK, Row
<1>2. RowsInv'
  BY <1>1 DEF RowsInv
<1>3. MirrorInv'
  <2>1. cursor' <= counter' /\ MirrorBelowCursor'
    BY <1>1 DEF MirrorInv, MirrorBelowCursor
  <2>2. \A m \in mirror', r \in rows' : m.key = r.key => m.rev < r.rev \/ Shows(m, r)
    BY <1>1 DEF MirrorInv, MirrorBelowCursor
  <2> QED BY <2>1, <2>2 DEF MirrorInv, Shows
<1>4. NetInv'
  <2> SUFFICES ASSUME NEW m \in net
               PROVE  RequestInv(m)'
    BY DEF NetInv
  <2>1. RequestInv(m) /\ m.base \in Nat /\ \A b \in m.rows : b.rev \in Nat
    BY DEF NetInv, TypeOK, Message, Row
  <2>2. m.base <= cursor' /\ \A b \in m.rows : m.base < b.rev /\ b.rev <= counter'
    BY <1>1, <2>1 DEF RequestInv
  <2>3. \A b \in m.rows, r \in rows' : b.key = r.key => b.rev < r.rev \/ b = r
    BY <1>1, <2>1 DEF RequestInv
  <2>4. \A b \in m.rows, r \in rows' : m.base < r.rev /\ r.rev <= b.rev => r \in m.rows
    BY <1>1, <2>1 DEF RequestInv
  <2> QED BY <2>1, <2>2, <2>3, <2>4 DEF RequestInv
<1>5. NoGap'
  <2> SUFFICES ASSUME NEW r \in rows', r.rev <= cursor
               PROVE  \E m \in mirror : Shows(m, r)
    BY DEF NoGap, Shows
  <2>1. r \in rows
    BY <1>1 DEF MirrorInv
  <2> QED BY <2>1 DEF NoGap
<1> QED BY <1>2, <1>3, <1>4, <1>5

-----------------------------------------------------------------------------
(* Apply *)

\* What the server knows only grows: the body of ServerOnlyLearns.
Learns ==
    /\ cursor' >= cursor
    /\ \A m \in mirror : \E n \in mirror' :
         /\ n.key = m.key
         /\ n.rev >= m.rev
         /\ m.ref # NULL => n.ref # NULL

OneRowPerKey(S) == \A p, q \in S : p.key = q.key => p = q

\* What an upsert stores: the row of the batch, with the reference known so far if it has none.
LEMMA Coalesced ==
    ASSUME mirror \subseteq Row, OneRowPerKey(mirror), NEW r \in Row
    PROVE  /\ Coalesce(r) \in Row
           /\ Coalesce(r).key = r.key /\ Coalesce(r).rev = r.rev /\ Coalesce(r).born = r.born
           /\ r.ref # NULL => Coalesce(r).ref = r.ref
           /\ \A o \in mirror : o.key = r.key /\ o.ref # NULL => Coalesce(r).ref # NULL
<1>1. CASE r.ref = NULL /\ r.key \in Keys(mirror)
  <2> DEFINE stored == CHOOSE o \in mirror : o.key = r.key
  <2>1. stored \in mirror /\ stored.key = r.key
    BY <1>1 DEF Keys
  <2>2. stored.ref \in Key \cup {NULL}
    BY <2>1 DEF Row
  <2>3. \A o \in mirror : o.key = r.key => o = stored
    BY <2>1 DEF OneRowPerKey
  <2>4. Coalesce(r) = [r EXCEPT !.ref = stored.ref]
    BY <1>1 DEF Coalesce
  <2> HIDE DEF stored
  <2> QED BY <1>1, <2>2, <2>3, <2>4 DEF Row
<1>2. CASE r.ref # NULL \/ r.key \notin Keys(mirror)
  BY <1>2 DEF Coalesce, Keys
<1> QED BY <1>1, <1>2

\* Apply sets the cursor to the batch's last revision or leaves it.
LEMMA CursorAdvances ==
    ASSUME NEW batch \in SUBSET Row, cursor \in Nat, Apply(batch)
    PROVE  /\ cursor' \in Nat /\ cursor <= cursor'
           /\ cursor' = cursor \/ \E b \in batch : cursor' = b.rev
           /\ \A b \in batch : b.rev <= cursor'
<1>1. /\ cursor' \in {cursor} \cup Revs(batch)
      /\ \A k \in {cursor} \cup Revs(batch) : k <= cursor'
  BY DEF Apply, Advanced
<1>2. \A b \in batch : b.rev \in Nat
  BY DEF Row
<1> QED BY <1>1, <1>2 DEF Revs

\* Storing a batch takes nothing back and keeps the mirror below the cursor, whatever the mirror has
\* to do with the endpoint's rows.
LEMMA ApplyLearns ==
    ASSUME mirror \subseteq Row, cursor \in Nat, MirrorBelowCursor,
           NEW batch \in SUBSET Row, OneRowPerKey(batch), Apply(batch)
    PROVE  mirror' \subseteq Row /\ MirrorBelowCursor' /\ Learns
<1> DEFINE new == Newer(batch)
           kept == {o \in mirror : o.key \notin Keys(new)}
<1>1. \A r \in Row : r.rev \in Nat
  BY DEF Row
<1>2. cursor' \in Nat /\ cursor <= cursor' /\ \A b \in batch : b.rev <= cursor'
  BY CursorAdvances
<1>3. mirror' = kept \cup {Coalesce(r) : r \in new}
  BY DEF Apply
<1>4. new \subseteq batch /\ \A r \in new, o \in mirror : o.key = r.key => r.rev > o.rev
  BY DEF Newer
<1>5. \A r \in new : /\ Coalesce(r) \in Row
                     /\ Coalesce(r).key = r.key /\ Coalesce(r).rev = r.rev
                     /\ \A o \in mirror : o.key = r.key /\ o.ref # NULL => Coalesce(r).ref # NULL
  BY <1>4, Coalesced DEF MirrorBelowCursor, OneRowPerKey
<1> HIDE DEF new
<1>6. mirror' \subseteq Row
  BY <1>3, <1>5
<1>7. \A n \in mirror' : n.rev <= cursor'
  <2>1. \A n \in kept : n.rev <= cursor'
    BY <1>1, <1>2 DEF MirrorBelowCursor
  <2>2. \A r \in new : Coalesce(r).rev <= cursor'
    BY <1>2, <1>4, <1>5
  <2> QED BY <1>3, <2>1, <2>2
<1>8. ASSUME NEW n \in mirror', NEW o \in mirror', n.key = o.key
      PROVE  n = o
  <2>1. CASE n \in kept /\ o \in kept
    BY <1>8, <2>1 DEF MirrorBelowCursor
  <2>2. CASE \E p \in new, q \in new : n = Coalesce(p) /\ o = Coalesce(q)
    BY <1>4, <1>5, <1>8, <2>2 DEF OneRowPerKey
  <2>3. \A k \in kept, p \in new : k.key # Coalesce(p).key
    BY <1>5 DEF Keys
  <2> QED BY <1>3, <1>8, <2>1, <2>2, <2>3
<1>9. ASSUME NEW o \in mirror
      PROVE  \E n \in mirror' : n.key = o.key /\ n.rev >= o.rev /\ (o.ref # NULL => n.ref # NULL)
  <2>1. CASE o \in kept
    BY <1>1, <1>3, <2>1
  <2>2. CASE o \notin kept
    <3>1. PICK p \in new : p.key = o.key
      BY <2>2 DEF Keys
    <3> QED BY <1>1, <1>3, <1>4, <1>5, <3>1
  <2> QED BY <2>1, <2>2
<1> QED BY <1>2, <1>6, <1>7, <1>8, <1>9 DEF MirrorBelowCursor, Learns

\* Storing a batch keeps the mirror honest, whoever sent the batch and however late it is.
LEMMA ApplyStep ==
    ASSUME TypeOK, RowsInv, MirrorInv, NoGap,
           NEW m \in Message, RequestInv(m),
           Apply(m.rows), UNCHANGED <<rows, counter>>
    PROVE  /\ mirror' \subseteq Row /\ cursor' \in Nat
           /\ MirrorInv' /\ NoGap' /\ Learns
           /\ cursor <= cursor' /\ cursor' <= counter
           /\ \A b \in m.rows : b.rev <= cursor'
<1> DEFINE new == Newer(m.rows)
           kept == {o \in mirror : o.key \notin Keys(new)}
<1>1. /\ rows \subseteq Row /\ mirror \subseteq Row /\ m.rows \subseteq Row
      /\ cursor \in Nat /\ counter \in Nat
      /\ \A r \in Row : r.rev \in Nat
  BY DEF TypeOK, Message, Row
<1>2. /\ cursor' \in Nat
      /\ cursor <= cursor'
      /\ cursor' = cursor \/ \E b \in m.rows : cursor' = b.rev
      /\ \A b \in m.rows : b.rev <= cursor'
  BY <1>1, CursorAdvances
<1>3. cursor' <= counter
  BY <1>1, <1>2 DEF RequestInv, MirrorInv
<1>4. mirror' = kept \cup {Coalesce(r) : r \in new}
  BY DEF Apply
<1>5. /\ new \subseteq m.rows
      /\ \A r \in m.rows \ new : \E o \in mirror : o.key = r.key /\ ~(r.rev > o.rev)
  BY DEF Newer
<1>6. \A r \in new : /\ Coalesce(r).key = r.key
                     /\ Coalesce(r).rev = r.rev
                     /\ Coalesce(r).born = r.born
                     /\ r.ref # NULL => Coalesce(r).ref = r.ref
  BY <1>1, <1>5, Coalesced DEF MirrorInv, MirrorBelowCursor, OneRowPerKey
<1>7. mirror' \subseteq Row /\ MirrorBelowCursor' /\ Learns
  BY <1>1, ApplyLearns DEF MirrorInv, RequestInv, OneRowPerKey
<1> HIDE DEF new
<1>8. \A n \in mirror', r \in rows' : n.key = r.key => n.rev < r.rev \/ Shows(n, r)
  <2>1. \A n \in kept, r \in rows : n.key = r.key => n.rev < r.rev \/ Shows(n, r)
    BY DEF MirrorInv
  <2>2. \A p \in new, r \in rows : p.key = r.key => p.rev < r.rev \/ Shows(Coalesce(p), r)
    BY <1>5, <1>6 DEF RequestInv, Shows
  <2> QED BY <1>4, <1>6, <2>1, <2>2
<1>9. MirrorInv'
  BY <1>3, <1>7, <1>8 DEF MirrorInv, Shows
<1>10. NoGap'
  <2> SUFFICES ASSUME NEW r \in rows, r.rev <= cursor'
               PROVE  \E n \in mirror' : Shows(n, r)
    BY DEF NoGap, Shows
  <2>1. CASE r.rev <= cursor
    <3>1. PICK o \in mirror : Shows(o, r)
      BY <2>1 DEF NoGap
    <3>2. \A p \in new : p.key # o.key
      <4>1. \A p \in new : p.key = o.key => p.rev > o.rev
        BY DEF new, Newer
      <4> QED BY <1>1, <1>5, <3>1, <4>1 DEF RequestInv, Shows
    <3>3. o \in mirror'
      BY <1>4, <3>2 DEF Keys
    <3> QED BY <3>1, <3>3
  <2>2. CASE cursor < r.rev
    <3>1. r \in m.rows
      BY <1>1, <1>2, <2>2 DEF RequestInv, Message
    <3>2. r \in new
      BY <1>1, <1>5, <2>2, <3>1 DEF MirrorInv, MirrorBelowCursor
    <3> QED BY <1>4, <1>6, <3>2 DEF Shows
  <2> QED BY <1>1, <2>1, <2>2
<1> QED BY <1>2, <1>3, <1>7, <1>9, <1>10

-----------------------------------------------------------------------------
(* The steps *)

LEMMA InitInv == Init => IInv
<1> SUFFICES ASSUME Init PROVE IInv
  OBVIOUS
<1>1. TypeOK
  BY DEF Init, TypeOK, Process, Idle
<1>2. RowsInv
  BY FS_EmptySet DEF Init, RowsInv
<1>3. MirrorInv /\ NetInv /\ ShipInv /\ NoGap
  BY DEF Init, MirrorInv, MirrorBelowCursor, NetInv, ShipInv, OneHeld, AnswerCoversRequest, NoGap, Idle
<1> QED BY <1>1, <1>2, <1>3 DEF IInv

\* Endpoint transactions: what they do to the tables.
LEMMA InsertRows ==
    ASSUME TypeOK, RowsInv, NEW t \in Table, NEW ref \in Keys(rows) \cup {NULL}, Insert(t, ref)
    PROVE  Stamped
<1>1. PICK i \in NextIds(t) :
         rows' = rows \cup {[key |-> <<t, i>>, rev |-> counter + 1, born |-> counter + 1, ref |-> ref]}
  BY DEF Insert, Stamp
<1>2. counter \in Nat /\ counter' = counter + 1 /\ rows \subseteq Row
  BY DEF TypeOK, Insert
<1> DEFINE r == [key |-> <<t, i>>, rev |-> counter + 1, born |-> counter + 1, ref |-> ref]
<1>3. <<t, i>> \in Key /\ \A q \in rows : q.key # <<t, i>>
  BY <1>2, NextIdUnused DEF Keys
<1>4. ref \in Key \cup {NULL}
  BY <1>2 DEF Keys, Row
<1>5. r \in Row /\ r.key = <<t, i>> /\ r.rev = counter + 1
  BY <1>2, <1>3, <1>4 DEF Row
<1>6. \A q \in rows : q.rev \in Nat /\ q.rev # r.rev
  BY <1>2, <1>5 DEF RowsInv, Row
<1>7. IsFiniteSet(rows')
  BY <1>1, FS_AddElement DEF RowsInv
<1>8. rows' = rows \cup {r}
  BY <1>1
<1> HIDE DEF r
<1> QED BY <1>2, <1>3, <1>5, <1>6, <1>7, <1>8 DEF RowsInv, Stamped

LEMMA UpdateRows ==
    ASSUME TypeOK, RowsInv, NEW u \in rows, NEW ref \in Keys(rows) \cup {NULL}, Update(u, ref)
    PROVE  Stamped
<1>1. counter \in Nat /\ counter' = counter + 1 /\ rows \subseteq Row
  BY DEF TypeOK, Update
<1> DEFINE r == [u EXCEPT !.ref = ref, !.rev = counter + 1]
<1>2. rows' = (rows \ {u}) \cup {r}
  BY DEF Update, Stamp
<1>3. ref \in Key \cup {NULL}
  BY <1>1 DEF Keys, Row
<1>a. u \in Row /\ counter + 1 \in Nat
  BY <1>1
<1>4. r \in Row /\ r.key = u.key /\ r.rev = counter + 1
  BY <1>3, <1>a DEF Row
<1>5. \A q \in rows : q.rev \in Nat /\ q.rev # r.rev
  BY <1>1, <1>4 DEF RowsInv, Row
<1>6. IsFiniteSet(rows')
  BY <1>2, FS_AddElement, FS_RemoveElement DEF RowsInv
<1> HIDE DEF r
<1> QED BY <1>1, <1>2, <1>4, <1>5, <1>6 DEF RowsInv, Stamped

LEMMA PruneRows ==
    ASSUME TypeOK, RowsInv, NEW D \in SUBSET rows, Prune(D)
    PROVE  Stamped
<1> DEFINE hit == Referring(rows \ D, D)
<1>1. counter \in Nat /\ rows \subseteq Row /\ IsFiniteSet(rows)
  BY DEF TypeOK, RowsInv
<1>2. hit \subseteq rows /\ IsFiniteSet(hit) /\ IsFiniteSet((rows \ D) \ hit)
  BY <1>1, FS_Subset DEF Referring
<1>3. Cardinality(hit) \in Nat /\ Cardinality(Referring(D, D)) \in Nat
  <2>1. IsFiniteSet(Referring(D, D))
    BY <1>1, FS_Subset DEF Referring
  <2> QED BY <1>2, <2>1, FS_CardinalityType
<1> HIDE DEF hit
<1>a. PICK spent \in 0..Cardinality(Referring(D, D)) :
         /\ counter' = counter + Cardinality(hit) + spent
         /\ \E f \in [hit -> (counter + 1)..counter'] :
              /\ \A p, q \in hit : f[p] = f[q] => p = q
              /\ rows' = ((rows \ D) \ hit) \cup {[r EXCEPT !.ref = NULL, !.rev = f[r]] : r \in hit}
  BY DEF Prune, hit
<1>4. PICK f \in [hit -> (counter + 1)..counter'] :
         /\ \A p, q \in hit : f[p] = f[q] => p = q
         /\ rows' = ((rows \ D) \ hit) \cup {[r EXCEPT !.ref = NULL, !.rev = f[r]] : r \in hit}
  BY <1>a
<1>5. counter' \in Nat /\ counter <= counter'
  <2>1. spent \in Nat
    BY <1>3
  <2>2. counter' = counter + Cardinality(hit) + spent
    BY <1>a
  <2> QED BY <1>1, <1>3, <2>1, <2>2
<1>6. \A r \in hit : f[r] \in Nat /\ counter < f[r] /\ f[r] <= counter'
  <2>1. \A r \in hit : f[r] \in (counter + 1)..counter'
    BY <1>4
  <2> QED BY <1>1, <1>5, <2>1
<1> DEFINE g == [r \in hit |-> [r EXCEPT !.ref = NULL, !.rev = f[r]]]
           nulled == {g[r] : r \in hit}
<1>7. \A r \in hit : g[r] \in Row /\ g[r].key = r.key /\ g[r].rev = f[r]
  <2> TAKE r \in hit
  <2>1. r \in Row /\ f[r] \in Nat
    BY <1>1, <1>2, <1>6
  <2>2. g[r] = [r EXCEPT !.ref = NULL, !.rev = f[r]]
    OBVIOUS
  <2> QED BY <2>1, <2>2 DEF Row
<1>8. rows' = ((rows \ D) \ hit) \cup nulled
  BY <1>4
<1>9. g \in Surjection(hit, nulled)
  BY DEF Surjection
<1> HIDE DEF g
<1>10. IsFiniteSet(nulled)
  BY <1>2, <1>9, FS_Surjection
<1>11. IsFiniteSet(rows')
  BY <1>2, <1>8, <1>10, FS_Union
<1>12. rows' \subseteq Row
  BY <1>1, <1>7, <1>8
<1>13. \A r \in rows' : r \in rows \/ (counter < r.rev /\ r.rev <= counter')
  BY <1>6, <1>7, <1>8
<1>14. \A p, q \in rows' : p.key = q.key \/ p.rev = q.rev => p = q
  <2>1. \A p, q \in rows : p.key = q.key \/ p.rev = q.rev => p = q
    BY DEF RowsInv
  <2>2. \A p \in (rows \ D) \ hit, q \in hit : g[q].key # p.key /\ g[q].rev # p.rev
    BY <1>1, <1>2, <1>6, <1>7 DEF RowsInv, Row
  <2>3. \A p, q \in hit : g[p].key = g[q].key \/ g[p].rev = g[q].rev => g[p] = g[q]
    <3>1. \A p, q \in hit : f[p] = f[q] => p = q
      BY <1>4
    <3> QED BY <1>2, <1>7, <2>1, <3>1
  <2> QED BY <1>8, <2>1, <2>2, <2>3
<1> QED BY <1>5, <1>11, <1>12, <1>13, <1>14 DEF Stamped

\* A step that leaves the endpoint and the server alone keeps what relates the two, and what is
\* known of each request.
LEMMA LocalStep ==
    ASSUME TypeOK, RowsInv, MirrorInv, NoGap, UNCHANGED <<rows, counter, mirror, cursor>>
    PROVE  /\ RowsInv' /\ MirrorInv' /\ NoGap' /\ Learns
           /\ \A m \in Message : RequestInv(m) => RequestInv(m)'
<1>1. RowsInv' /\ MirrorInv' /\ NoGap' /\ \A m \in Message : RequestInv(m) => RequestInv(m)'
  BY DEF RowsInv, MirrorInv, MirrorBelowCursor, NoGap, RequestInv, Shows
<1>2. Learns
  BY DEF Learns, TypeOK, Row
<1> QED BY <1>1, <1>2

\* Requests whose sender gave up say no less than before.
LEMMA DetachedRequests ==
    ASSUME TypeOK, NetInv, NEW S
    PROVE  \A m \in Detached(S) : m \in Message /\ ~m.live /\ RequestInv(m)
<1> SUFFICES ASSUME NEW h \in Held(S)
             PROVE  LET m == [h EXCEPT !.live = FALSE]
                    IN  m \in Message /\ ~m.live /\ RequestInv(m)
  BY DEF Detached
<1>1. h \in Message /\ RequestInv(h)
  BY DEF Held, TypeOK, NetInv
<1> DEFINE m == [h EXCEPT !.live = FALSE]
<1>2. m \in Message /\ ~m.live /\ m.base = h.base /\ m.rows = h.rows
  BY <1>1 DEF Message
<1> HIDE DEF m
<1>3. RequestInv(m)
  BY <1>1, <1>2 DEF RequestInv
<1> QED BY <1>2, <1>3 DEF m

\* Every write of the endpoint numbers what it writes.
LEMMA WriteStamps ==
    ASSUME TypeOK, RowsInv, Write
    PROVE  Stamped
<1>1. ASSUME NEW t \in Table, NEW ref \in Keys(rows) \cup {NULL}, Insert(t, ref)
      PROVE  Stamped
  BY <1>1, InsertRows
<1>2. ASSUME NEW u \in rows, NEW ref \in (Keys(rows) \ {u.key}) \cup {NULL}, Update(u, ref)
      PROVE  Stamped
  BY <1>2, UpdateRows
<1>3. ASSUME NEW D \in SUBSET rows, Prune(D)
      PROVE  Stamped
  BY <1>3, PruneRows
<1> QED BY <1>1, <1>2, <1>3 DEF Write

\* A write of the endpoint.
LEMMA EndpointStep ==
    ASSUME IInv, Write
    PROVE  IInv' /\ Learns
<1> USE DEF IInv
<1>1. Stamped
  BY WriteStamps
<1>2. UNCHANGED <<disk, ship, net, server, faults>>
  BY DEF Write, Insert, Update, Prune
<1>3. TypeOK'
  <2>1. \A r \in rows' : r.rev \in 1..counter'
    <3>1. counter \in Nat /\ counter' \in Nat /\ counter <= counter' /\ \A r \in rows' : r.rev \in Nat
      BY <1>1 DEF TypeOK, Stamped, Row
    <3>2. \A r \in rows' : r.rev \in 1..counter \/ (counter < r.rev /\ r.rev <= counter')
      BY <1>1 DEF TypeOK, Stamped
    <3> QED BY <3>1, <3>2
  <2>2. rows' \subseteq Row /\ counter' \in Nat
    BY <1>1 DEF Stamped
  <2> QED BY <1>2, <2>1, <2>2 DEF TypeOK, server
<1>4. RowsInv' /\ MirrorInv' /\ NetInv' /\ NoGap'
  BY <1>1, <1>2, WriteStep DEF server
<1>5. ShipInv'
  BY <1>2 DEF ShipInv, OneHeld, AnswerCoversRequest, server
<1>6. Learns
  BY <1>2 DEF Learns, TypeOK, Row, server
<1> QED BY <1>3, <1>4, <1>5, <1>6

\* A step of a shipper that only moves it: it asked for the cursor, got its answer, or started.
LEMMA ShipperStep ==
    ASSUME IInv, NEW s \in Shipper, AskCursor(s) \/ GotReply(s) \/ Start(s)
    PROVE  IInv' /\ Learns
<1> USE DEF IInv
<1>1. UNCHANGED <<endpoint, net, server, faults>>
  BY DEF AskCursor, GotReply, Start
<1>2. PICK p \in Process :
         /\ ship' = [ship EXCEPT ![s] = p]
         /\ p.pc # "post" /\ p.pc # "reply"
         /\ p.pc = "read" => p.since <= cursor
  <2>1. CASE AskCursor(s)
    <3> DEFINE p == [Idle EXCEPT !.pc = "read", !.since = cursor]
    <3>1. p \in Process /\ p.pc = "read" /\ p.since <= cursor
      <4>1. cursor \in Nat
        BY DEF TypeOK
      <4>2. p \in Process
        BY <4>1 DEF Process, Idle
      <4>3. p.pc = "read" /\ p.since = cursor
        BY DEF Idle
      <4> HIDE DEF p
      <4> QED BY <4>1, <4>2, <4>3
    <3>2. ship' = [ship EXCEPT ![s] = p]
      BY <2>1 DEF AskCursor
    <3> QED BY <3>1, <3>2
  <2>2. CASE GotReply(s)
    <3>1. ship[s] \in Process /\ ship[s].pc = "reply" /\ ship[s].reply \in Nat /\ ship[s].reply <= cursor
      BY <2>2 DEF TypeOK, Process, GotReply, ShipInv
    <3> DEFINE p == [Idle EXCEPT !.pc = "read", !.since = ship[s].reply]
    <3>2. p \in Process /\ p.pc = "read" /\ p.since <= cursor
      BY <3>1 DEF Process, Idle
    <3>3. /\ Idle \in Process /\ Idle.pc = "wait"
          /\ Exited \in Process /\ Exited.pc = "exited"
      BY DEF Process, Idle, Exited
    <3>4. \/ ship' = [ship EXCEPT ![s] = Exited]
          \/ ship' = [ship EXCEPT ![s] = Idle]
          \/ ship' = [ship EXCEPT ![s] = p]
      BY <2>2 DEF GotReply
    <3> QED BY <3>2, <3>3, <3>4
  <2>3. CASE Start(s)
    <3>1. Idle \in Process /\ Idle.pc = "wait"
      BY DEF Process, Idle
    <3> QED BY <2>3, <3>1 DEF Start
  <2> QED BY <2>1, <2>2, <2>3
<1>3. TypeOK'
  BY <1>1, <1>2 DEF TypeOK, endpoint, server
<1>4. RowsInv' /\ MirrorInv' /\ NoGap' /\ Learns /\ NetInv'
  BY <1>1, LocalStep DEF endpoint, server, NetInv, TypeOK
<1>5. \A m \in net : m.live => m.from # s
  BY DEF ShipInv, AskCursor, GotReply, Start
<1>6. ShipInv'
  <2>1. \A q \in Shipper : ship'[q] = IF q = s THEN p ELSE ship[q]
    BY <1>2 DEF TypeOK
  <2>2. \A m \in net : m.from \in Shipper
    BY DEF TypeOK, Message
  <2> QED BY <1>1, <1>2, <1>5, <2>1, <2>2 DEF ShipInv, OneHeld, AnswerCoversRequest, server
<1> QED BY <1>3, <1>4, <1>6

\* A new request satisfies RequestInv because its rows are everything newer than its base.
LEMMA PostStep ==
    ASSUME IInv, NEW s \in Shipper, Post(s)
    PROVE  IInv' /\ Learns
<1> USE DEF IInv
<1>1. ship[s] \in Process /\ ship[s].pc = "read" /\ ship[s].since \in Nat /\ ship[s].since <= cursor
  BY DEF TypeOK, Process, Post, ShipInv
<1>2. PICK batch \in ChangesSince(ship[s].since) :
         /\ ship' = [ship EXCEPT ![s] = [ship[s] EXCEPT !.pc = "post", !.sent = batch]]
         /\ net' = net \cup {[from |-> s, live |-> TRUE, base |-> ship[s].since, rows |-> batch]}
  BY DEF Post, TypeOK
<1>3. UNCHANGED <<endpoint, server, faults>>
  BY DEF Post
<1>4. /\ rows \subseteq Row /\ IsFiniteSet(rows)
      /\ counter \in Nat /\ \A r \in rows : r.rev \in Nat
  BY DEF TypeOK, RowsInv, Row
<1>5. /\ batch \subseteq rows
      /\ \A b \in batch : ship[s].since < b.rev
      /\ \A b \in batch, r \in rows : ship[s].since < r.rev /\ r.rev < b.rev => r \in batch
  BY <1>1, <1>4, ChangesComplete
<1> DEFINE m == [from |-> s, live |-> TRUE, base |-> ship[s].since, rows |-> batch]
           p == [ship[s] EXCEPT !.pc = "post", !.sent = batch]
<1>6. m \in Message /\ m.from = s /\ m.live /\ m.base = ship[s].since /\ m.rows = batch
  BY <1>1, <1>4, <1>5 DEF Message
<1>7. p \in Process /\ p.pc = "post" /\ p.sent = batch
  BY <1>1, <1>4, <1>5 DEF Process
<1>8. net' = net \cup {m} /\ ship' = [ship EXCEPT ![s] = p]
  BY <1>2
<1> HIDE DEF m, p
<1>9. RequestInv(m)
  <2>1. \A a, b \in rows : a.key = b.key \/ a.rev = b.rev => a = b
    BY DEF RowsInv
  <2>2. \A b \in batch, r \in rows : ship[s].since < r.rev /\ r.rev <= b.rev => r \in batch
    BY <1>4, <1>5, <2>1
  <2>3. \A b \in batch : ship[s].since < b.rev /\ b.rev <= counter
    BY <1>5 DEF RowsInv
  <2>4. \A b \in batch, r \in rows : b.key = r.key => b = r
    BY <1>5, <2>1
  <2> QED BY <1>1, <1>5, <1>6, <2>1, <2>2, <2>3, <2>4 DEF RequestInv
<1>10. TypeOK'
  BY <1>3, <1>6, <1>7, <1>8 DEF TypeOK, endpoint, server
<1>11. RowsInv' /\ MirrorInv' /\ NoGap' /\ Learns /\ NetInv'
  <2>1. /\ RowsInv' /\ MirrorInv' /\ NoGap' /\ Learns
        /\ \A q \in Message : RequestInv(q) => RequestInv(q)'
    BY <1>3, LocalStep DEF endpoint, server
  <2>2. \A q \in net' : q \in Message /\ RequestInv(q)
    BY <1>6, <1>8, <1>9 DEF NetInv, TypeOK
  <2> QED BY <2>1, <2>2 DEF NetInv
<1>12. ShipInv'
  <2>1. \A q \in Shipper : ship'[q] = IF q = s THEN p ELSE ship[q]
    BY <1>8 DEF TypeOK
  <2>2. \A q \in net : q.live => q.from \in Shipper /\ q.from # s
    BY <1>1 DEF ShipInv, TypeOK, Message
  <2> QED BY <1>3, <1>6, <1>7, <1>8, <2>1, <2>2 DEF ShipInv, OneHeld, AnswerCoversRequest, server
<1> QED BY <1>10, <1>11, <1>12

\* A shipper gives up: whatever it waited for is lost or becomes late.
LEMMA GiveUpStep ==
    ASSUME IInv, NEW s \in Shipper, Fail(s) \/ Interrupt(s)
    PROVE  IInv' /\ Learns
<1> USE DEF IInv
<1>1. UNCHANGED <<endpoint, server>> /\ faults' = faults + 1
  BY DEF Fail, Interrupt
<1>2. PICK p \in {Idle, Exited} : ship' = [ship EXCEPT ![s] = p]
  BY DEF Fail, Interrupt
<1>3. p \in Process /\ p.pc \notin {"read", "post", "reply"}
  BY DEF Process, Idle, Exited
<1>4. net' \subseteq (net \ Held({s})) \cup Detached({s})
  BY DEF Fail, Interrupt
<1>5. \A m \in net' : /\ m \in Message /\ RequestInv(m)
                      /\ m.live => m \in net /\ m.from # s
  BY <1>4, DetachedRequests DEF TypeOK, NetInv, Held
<1>6. TypeOK'
  BY <1>1, <1>2, <1>3, <1>5 DEF TypeOK, endpoint, server
<1>7. RowsInv' /\ MirrorInv' /\ NoGap' /\ Learns /\ NetInv'
  <2>1. /\ RowsInv' /\ MirrorInv' /\ NoGap' /\ Learns
        /\ \A q \in Message : RequestInv(q) => RequestInv(q)'
    BY <1>1, LocalStep DEF endpoint, server
  <2> QED BY <1>5, <2>1 DEF NetInv
<1>8. ShipInv'
  <2>1. \A q \in Shipper : ship'[q] = IF q = s THEN p ELSE ship[q]
    BY <1>2 DEF TypeOK
  <2>2. \A m \in net' : m.from \in Shipper
    BY <1>5 DEF Message
  <2> QED BY <1>1, <1>3, <1>5, <2>1, <2>2 DEF ShipInv, OneHeld, AnswerCoversRequest, server
<1> QED BY <1>6, <1>7, <1>8

\* The server applies a request, in time or late.
LEMMA IngestStep ==
    ASSUME IInv, NEW m \in net, Ingest(m) \/ LateIngest(m)
    PROVE  IInv' /\ Learns
<1> USE DEF IInv
<1>1. m \in Message /\ RequestInv(m) /\ m.from \in Shipper /\ ship[m.from] \in Process
  BY DEF NetInv, TypeOK, Message
<1>2. Apply(m.rows) /\ UNCHANGED <<endpoint, faults>> /\ sdisk' = sdisk /\ net' \subseteq net
  BY DEF Ingest, LateIngest, Apply
<1>3. /\ mirror' \subseteq Row /\ cursor' \in Nat
      /\ MirrorInv' /\ NoGap'
      /\ cursor <= cursor'
      /\ \A b \in m.rows : b.rev <= cursor'
      /\ Learns
  BY <1>1, <1>2, ApplyStep DEF endpoint
<1>4. cursor \in Nat
  BY DEF TypeOK
<1>5. RowsInv' /\ NetInv' /\ Learns
  <2>1. RowsInv'
    BY <1>2 DEF RowsInv, endpoint
  <2>2. \A q \in net : q.base \in Nat /\ RequestInv(q)
    BY DEF NetInv, TypeOK, Message
  <2>3. \A q \in net : RequestInv(q)'
    BY <1>2, <1>3, <1>4, <2>2 DEF RequestInv, endpoint
  <2> QED BY <1>2, <1>3, <2>1, <2>3 DEF NetInv
<1>6. \A s \in Shipper : ship[s].since \in Nat /\ ship[s].reply \in Nat
  BY DEF TypeOK, Process
<1>7. CASE LateIngest(m)
  <2>1. ship' = ship /\ net' = net
    BY <1>7 DEF LateIngest
  <2>2. TypeOK'
    BY <1>2, <1>3, <2>1 DEF TypeOK, endpoint
  <2>3. ShipInv'
    BY <1>3, <1>4, <1>6, <2>1 DEF ShipInv, OneHeld, AnswerCoversRequest
  <2> QED BY <1>3, <1>5, <2>2, <2>3
<1>8. CASE Ingest(m)
  <2> DEFINE p == [ship[m.from] EXCEPT !.pc = "reply", !.reply = cursor']
  <2>1. m.live /\ net' = net \ {m} /\ ship' = [ship EXCEPT ![m.from] = p]
    BY <1>8 DEF Ingest, TypeOK
  <2>2. p \in Process
    BY <1>1, <1>3 DEF Process
  <2>3. p.pc = "reply" /\ p.reply = cursor' /\ p.sent = ship[m.from].sent
    BY <1>1 DEF Process
  <2> HIDE DEF p
  <2>4. TypeOK'
    BY <1>2, <1>3, <2>1, <2>2 DEF TypeOK, endpoint
  <2>5. \A s \in Shipper : ship'[s] = IF s = m.from THEN p ELSE ship[s]
    BY <2>1 DEF TypeOK
  <2>6. p.sent = m.rows
    BY <2>1, <2>3 DEF ShipInv
  <2>7. \A q \in net' : q.live => q.from \in Shipper /\ q.from # m.from
    BY <1>1, <2>1 DEF ShipInv, OneHeld, TypeOK, Message
  <2>8. ShipInv'
    <3>1. \A s \in Shipper : ship'[s].pc = "read" => ship'[s].since <= cursor'
      BY <1>3, <1>4, <1>6, <2>3, <2>5 DEF ShipInv
    <3>2. \A s \in Shipper : ship'[s].pc = "reply" => ship'[s].reply <= cursor'
      BY <1>3, <1>4, <1>6, <2>3, <2>5 DEF ShipInv
    <3>3. \A q \in net' : q.live => ship'[q.from].pc = "post" /\ ship'[q.from].sent = q.rows
      BY <2>1, <2>5, <2>7 DEF ShipInv
    <3>4. AnswerCoversRequest'
      BY <1>3, <2>3, <2>5, <2>6 DEF ShipInv, OneHeld, AnswerCoversRequest
    <3>5. OneHeld'
      BY <2>1 DEF ShipInv, OneHeld
    <3> QED BY <3>1, <3>2, <3>3, <3>4, <3>5 DEF ShipInv
  <2> QED BY <1>3, <1>5, <2>4, <2>8
<1> QED BY <1>7, <1>8

\* 413.
LEMMA RejectStep ==
    ASSUME IInv, NEW m \in net, Reject(m)
    PROVE  IInv' /\ Learns
<1> USE DEF IInv
<1>1. /\ UNCHANGED <<endpoint, server, faults>>
      /\ m.live /\ net' = net \ {m} /\ ship' = [ship EXCEPT ![m.from] = Exited]
  BY DEF Reject
<1>2. Exited \in Process /\ Exited.pc = "exited"
  BY DEF Process, Idle, Exited
<1>3. TypeOK'
  BY <1>1, <1>2 DEF TypeOK, endpoint, server
<1>4. RowsInv' /\ MirrorInv' /\ NoGap' /\ Learns /\ NetInv'
  BY <1>1, LocalStep DEF endpoint, server, NetInv, TypeOK
<1>5. ShipInv'
  <2>1. \A q \in Shipper : ship'[q] = IF q = m.from THEN Exited ELSE ship[q]
    BY <1>1 DEF TypeOK
  <2>2. \A q \in net' : q.live => q.from \in Shipper /\ q.from # m.from
    BY <1>1 DEF ShipInv, OneHeld, TypeOK, Message
  <2> QED BY <1>1, <1>2, <2>1, <2>2 DEF ShipInv, OneHeld, AnswerCoversRequest, server
<1> QED BY <1>3, <1>4, <1>5

LEMMA StutterStep ==
    ASSUME IInv, UNCHANGED vars
    PROVE  IInv' /\ Learns
<1> USE DEF IInv, vars
<1>1. TypeOK'
  BY DEF TypeOK
<1>2. RowsInv' /\ MirrorInv' /\ NoGap' /\ Learns /\ NetInv'
  BY LocalStep DEF NetInv, TypeOK
<1>3. ShipInv'
  BY DEF ShipInv, OneHeld, AnswerCoversRequest
<1> QED BY <1>1, <1>2, <1>3

\* One step of the system without a power loss.
LEMMA NextInv ==
    ASSUME PowerLoss = {}, IInv, [Next]_vars
    PROVE  IInv' /\ Learns
<1>1. CASE Write
  BY <1>1, EndpointStep
<1>2. ASSUME NEW s \in Shipper, Ship(s)
      PROVE  IInv' /\ Learns
  BY <1>2, ShipperStep, PostStep DEF Ship
<1>3. CASE Serve
  BY <1>3, IngestStep, RejectStep DEF Serve
<1>4. CASE Disturb
  <2>1. ASSUME NEW s \in Shipper, Fail(s) \/ Interrupt(s) \/ Start(s)
        PROVE  IInv' /\ Learns
    BY <2>1, GiveUpStep, ShipperStep
  <2>2. ASSUME NEW m \in net, LateIngest(m)
        PROVE  IInv' /\ Learns
    BY <2>2, IngestStep
  <2> QED BY <1>4, <2>1, <2>2
          DEF Disturb, EndpointCheckpoint, EndpointLosesPower, ServerCheckpoint, ServerLosesPower
<1>5. CASE UNCHANGED vars
  BY <1>5, StutterStep
<1> QED BY <1>1, <1>2, <1>3, <1>4, <1>5 DEF Next

-----------------------------------------------------------------------------
(* The refinement *)

\* A step of the system is a commit, a step of learning, or invisible in Replica.
LEMMA RefineStep ==
    ASSUME PowerLoss = {}, IInv, [Next]_vars
    PROVE  [Abstract!Next]_(Abstract!vars)
<1>1. CASE Write
  <2>1. Stamped
    BY <1>1, WriteStamps DEF IInv
  <2>2. UNCHANGED <<mirror, cursor>>
    BY <1>1 DEF Write, Insert, Update, Prune, server
  <2>3. /\ counter \in Nat /\ counter' \in Nat /\ counter <= counter'
        /\ \A r \in rows' : r \in rows \/ r.rev \in (counter + 1)..counter'
        /\ \A p, q \in rows' : p.key = q.key \/ p.rev = q.rev => p = q
    BY <2>1 DEF Stamped, IInv, TypeOK, Row
  <2>4. Abstract!Commit
    BY <2>2, <2>3 DEF Abstract!Commit, Abstract!Unique
  <2> QED BY <2>4 DEF Abstract!Next
<1>2. CASE ~Write
  <2>1. UNCHANGED <<rows, counter>>
    <3>1. ASSUME NEW s \in Shipper, Ship(s)
          PROVE  UNCHANGED <<rows, counter>>
      BY <3>1 DEF Ship, AskCursor, Post, GotReply, endpoint
    <3>2. CASE Serve
      BY <3>2 DEF Serve, Ingest, Reject, endpoint
    <3>3. CASE Disturb
      BY <3>3 DEF Disturb, Fail, Interrupt, Start, LateIngest, EndpointCheckpoint,
                  EndpointLosesPower, ServerCheckpoint, ServerLosesPower, endpoint
    <3>4. CASE UNCHANGED vars
      BY <3>4 DEF vars
    <3> QED BY <1>2, <3>1, <3>2, <3>3, <3>4 DEF Next
  <2>2. IInv' /\ Learns
    BY NextInv
  <2>3. cursor' \in cursor..counter
    BY <2>1, <2>2 DEF IInv, MirrorInv, TypeOK, Learns
  <2>4. \A r \in rows : r.rev <= cursor' => \E m \in mirror' : Abstract!Shows(m, r)
    BY <2>1, <2>2 DEF IInv, NoGap, Shows, Abstract!Shows
  <2>5. \A m \in mirror : \E n \in mirror' :
          n.key = m.key /\ m.rev <= n.rev /\ (m.ref # NULL => n.ref # NULL)
    <3>1. \A m \in mirror : m.rev \in Nat
      BY DEF IInv, TypeOK, Row
    <3>2. \A m \in mirror' : m.rev \in Nat
      BY <2>2 DEF IInv, TypeOK, Row
    <3> QED BY <2>2, <3>1, <3>2 DEF Learns
  <2>6. \A n \in mirror' : n.rev <= cursor'
    BY <2>2 DEF IInv, MirrorInv, MirrorBelowCursor
  <2> QED BY <2>1, <2>3, <2>4, <2>5, <2>6 DEF Abstract!Next, Abstract!Learn
<1> QED BY <1>1, <1>2

-----------------------------------------------------------------------------
(* The theorems *)

LEMMA Inductive ==
    ASSUME PowerLoss = {}
    PROVE  Spec => []IInv
<1>1. IInv /\ [Next]_vars => IInv'
  BY NextInv
<1> QED BY <1>1, InitInv, PTL DEF Spec

\* Without power losses the server's cursor never runs ahead of what the server has: ChangesSince,
\* the shipper's loop and Apply skip no row, whatever is lost, late or sent twice, and however many
\* shippers run.
THEOREM NoGapHolds ==
    ASSUME PowerLoss = {}
    PROVE  Spec => []NoGap
<1>1. IInv => NoGap
  BY DEF IInv
<1> QED BY <1>1, Inductive, PTL

\* Replication implements its abstract specification: between the endpoint's commits, any number of
\* shippers, lost answers and late requests together do nothing but "learn".
THEOREM ImplementsReplicaHolds ==
    ASSUME PowerLoss = {}
    PROVE  Spec => ImplementsReplica
<1>1. Init => Abstract!Init
  BY DEF Init, Abstract!Init, Abstract!Unique
<1>2. IInv /\ [Next]_vars => [Abstract!Next]_(Abstract!vars)
  BY RefineStep
<1> QED BY <1>1, <1>2, Inductive, PTL DEF Spec, ImplementsReplica, Abstract!Spec
=============================================================================
