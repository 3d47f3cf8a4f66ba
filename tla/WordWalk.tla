-------------------------------- MODULE WordWalk -------------------------------
(****************************************************************************)
(* What a walk through the word index promises: every record that matches   *)
(* the search key, once, in the order of their keys, and an end only when   *)
(* there is none left.  A callback may delete the record it is handed.      *)
(****************************************************************************)
EXTENDS WordKey

VARIABLES
  records,     \* the keys of the occurrences in the index
  searchKey,
  reported,    \* what the walk has handed to its caller
  status       \* "idle", "walking", "atend", "failed"

walkVars == <<records, searchKey, reported, status>>

Pending == {m \in records : Equal(searchKey, m) /\ m \notin reported}

InitWalk == records = {} /\ searchKey = NoKey /\ reported = {} /\ status = "idle"

Store ==
  /\ status = "idle" /\ UNCHANGED <<searchKey, reported, status>>
  /\ \E m \in records' \intersect WordRecords : records' = records \union {m}

Start ==
  /\ status = "idle" /\ status' = "walking"
  /\ searchKey' \in SearchKeys /\ UNCHANGED <<records, reported>>

Report(m) ==
  /\ status = "walking" /\ m \in Pending
  /\ \A p \in Pending : ~Less(p, m)
  /\ \A r \in reported : Less(r, m)
  /\ reported' = reported \union {m}
  /\ records' \in {records, records \ {m}}
  /\ status' \in {"walking", "failed"}
  /\ UNCHANGED searchKey

End ==
  /\ status = "walking" /\ Pending = {}
  /\ status' = "atend" /\ UNCHANGED <<records, searchKey, reported>>

Fail ==
  /\ status = "walking" /\ status' = "failed"
  /\ UNCHANGED <<records, searchKey, reported>>

Finish ==
  /\ status \in {"atend", "failed"} /\ status' = "idle"
  /\ searchKey' = NoKey /\ reported' = {} /\ UNCHANGED records

NextWalk == Store \/ Start \/ (\E m \in Pending : Report(m)) \/ End \/ Fail \/ Finish

WalkSpec == InitWalk /\ [][NextWalk]_walkVars
================================================================================
