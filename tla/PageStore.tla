----------------------------- MODULE PageStore -----------------------------
(***************************************************************************)
(* What the page cache promises its callers: pages that change when a      *)
(* caller modifies them, and a file that changes only by a commit, which   *)
(* makes it equal to the pages.  Once a rule of the cache was broken (see  *)
(* PageCache.tla) nothing is promised.                                     *)
(***************************************************************************)
CONSTANTS PageNo, Content, Lost
VARIABLES mem, saved

Init ==
    /\ mem = [p \in PageNo |-> 0]
    /\ saved = [p \in PageNo |-> 0]

Write ==
    /\ \E S \in SUBSET PageNo, v \in Content :
          mem' = [p \in PageNo |-> IF p \in S THEN v ELSE mem[p]]
    /\ saved' = saved

Commit == saved' = mem /\ mem' = mem

Lose == mem' = Lost /\ saved' = Lost

Next == (mem # Lost /\ (Write \/ Commit)) \/ Lose

Spec == Init /\ [][Next]_<<mem, saved>>
=============================================================================
