---------------------------- MODULE RecordList ----------------------------
(***************************************************************************)
(* What a chain of leaf pages promises: a list of records in the order of  *)
(* their keys, each with its size.  One call inserts, resizes or deletes   *)
(* one record, or is refused; between calls, whatever the pages do, the    *)
(* list stays as it is.                                                    *)
(***************************************************************************)
EXTENDS Integers, Sequences, SequencesExt

CONSTANTS Keys, Sizes

VARIABLES records, calls

Record == [key : Keys, size : Sizes]

Init == records = <<>> /\ calls = 0

Insert(r) ==
    \E i \in 1 .. Len(records) + 1 :
        /\ \A j \in 1 .. i - 1 : records[j].key < r.key
        /\ \A j \in i .. Len(records) : r.key < records[j].key
        /\ records' = InsertAt(records, i, r)

Delete(i) == records' = RemoveAt(records, i)

Resize(i, size) == records' = [records EXCEPT ![i].size = size]

Next ==
    /\ calls' = calls + 1
    /\ \/ \E r \in Record : Insert(r)
       \/ \E i \in DOMAIN records : Delete(i) \/ \E size \in Sizes : Resize(i, size)
       \/ UNCHANGED records

Spec == Init /\ [][Next]_<<records, calls>>
=============================================================================
