------------------------------ MODULE KeyStore ------------------------------
(***************************************************************************)
(* What a B-tree promises its callers (src/include/btree.h), without any   *)
(* page: a map from keys to records, of which a commit keeps the present   *)
(* contents and a restart brings back the last ones kept.                  *)
(***************************************************************************)
CONSTANTS Keys, Sizes

VARIABLES
    content,    \* the records a caller finds
    saved       \* the records of the last commit

vars == <<content, saved>>

Record   == [key : Keys, size : Sizes]
KeysIn(records) == {r.key : r \in records}

Init == content = {} /\ saved = {}

Insert(r) ==
    /\ r.key \notin KeysIn(content)
    /\ content' = content \cup {r}
    /\ UNCHANGED saved

Remove(r) ==
    /\ content' = content \ {r}
    /\ UNCHANGED saved

Commit ==
    /\ saved' = content
    /\ UNCHANGED content

Restart ==
    /\ content' = saved
    /\ UNCHANGED saved

Next ==
    \/ \E r \in Record : Insert(r)
    \/ \E r \in content : Remove(r)
    \/ Commit \/ Restart

Spec == Init /\ [][Next]_vars
=============================================================================
