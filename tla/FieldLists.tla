----------------------------- MODULE FieldLists -----------------------------
(***************************************************************************)
(* Lists of header fields, newest first, and their size.                   *)
(***************************************************************************)
EXTENDS Integers, Sequences, FiniteSetsExt, Functions

CONSTANT FieldSize   \* HeaderField.Size

TotalSize(fields) == SumFunction([i \in DOMAIN fields |-> FieldSize[fields[i]]])

\* The longest prefix that is not larger than bound.
Fit(fields, bound) ==
  SubSeq(fields, 1, Max({n \in 0 .. Len(fields) :
                           TotalSize(SubSeq(fields, 1, n)) <= bound}))
=============================================================================
