----------------------------- MODULE HPackTable -----------------------------
(***************************************************************************)
(* What a dynamic table of HPACK promises: a list of header fields, newest *)
(* first, whose sizes add up to no more than a limit.  Inserting a field   *)
(* or lowering the limit drops as few of the oldest fields as it takes; a  *)
(* field larger than the limit leaves nothing, itself included.            *)
(***************************************************************************)
EXTENDS FieldLists

CONSTANTS Fields, Capacities

VARIABLES entries, limit

Init == entries = <<>> /\ limit \in Capacities

Insert(h) == entries' = Fit(<<h>> \o entries, limit) /\ UNCHANGED limit
Resize(c) == limit' = c /\ entries' = Fit(entries, c)
Forget    == entries' = <<>> /\ UNCHANGED limit

Next == \/ \E h \in Fields : Insert(h)
        \/ \E c \in Capacities : Resize(c)
        \/ Forget

Spec == Init /\ [][Next]_<<entries, limit>>
=============================================================================
