------------------------------ MODULE Replica ------------------------------
(***************************************************************************)
(* What change tracking and replication promise together.  A table is      *)
(* changed by transactions that number every row they write above all      *)
(* rows before; a copy of it elsewhere knows one number, and learns.       *)
(*                                                                         *)
(* Sync implements this with requests that are cut, lost, late and         *)
(* repeated.  Store implements the table's half of it with the real        *)
(* schema: a database that is created, migrated, written and pruned.       *)
(***************************************************************************)
EXTENDS Integers

CONSTANT NULL

VARIABLES
    table,      \* rows: [key, rev, born, ref]
    last,       \* the highest revision given out
    copy,       \* the rows the copy holds
    known       \* the copy has seen everything up to this revision

vars == <<table, last, copy, known>>

\* m is what the copy holds for the record r at the revision r has.
Shows(m, r) ==
    /\ m.key = r.key
    /\ m.rev = r.rev
    /\ m.born = r.born
    /\ r.ref # NULL => m.ref = r.ref

Unique(S) == \A p, q \in S : p.key = q.key \/ p.rev = q.rev => p = q

\* A table that is numbered already, and a copy of nothing.
Init ==
    /\ last \in Nat
    /\ Unique(table)
    /\ \A r \in table : r.rev \in 1..last
    /\ copy = {}
    /\ known = 0

\* A transaction on the table: whatever it inserts or changes is numbered anew and uniquely; it may
\* remove anything.
Commit ==
    /\ last' \in Nat
    /\ last <= last'
    /\ \A r \in table' : r \in table \/ r.rev \in (last + 1)..last'
    /\ Unique(table')
    /\ UNCHANGED <<copy, known>>

\* The copy learns, and unlearns nothing: not a row, not a newer revision, not a reference.
Learn ==
    /\ known' \in known..last
    /\ \A r \in table : r.rev <= known' => \E m \in copy' : Shows(m, r)
    /\ \A m \in copy : \E n \in copy' :
         /\ n.key = m.key
         /\ m.rev <= n.rev
         /\ m.ref # NULL => n.ref # NULL
    /\ \A n \in copy' : n.rev <= known'
    /\ UNCHANGED <<table, last>>

Next == Commit \/ Learn

Spec == Init /\ [][Next]_vars

\* Nothing the copy claims to know is missing from it.
Honest == \A r \in table : r.rev <= known => \E m \in copy : Shows(m, r)
=============================================================================
