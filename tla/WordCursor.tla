------------------------------- MODULE WordCursor ------------------------------
(****************************************************************************)
(* A walk through the word index (hlword/WordCursor.cc): the records that   *)
(* match a search key, found by stepping from one key to the next and by    *)
(* jumping over keys that cannot match.  Each record found is collected or  *)
(* handed to a callback, which may delete it.                               *)
(****************************************************************************)
EXTENDS WordKey, FiniteSets

CONSTANTS
  wordlist_extend,    \* attribute: the occurrences of each word are counted
  MaxRecords          \* bound: words in the index when one is put

VARIABLES
  index,              \* the keys of the word index
  searchKey,
  key,                \* where the cursor is, or where it will look
  cursor_get_flags,   \* "set_range": from key on; "next": after key
  reported,           \* the records found since the walk began
  status              \* "idle", "walking", "atend", "failed"

vars == <<index, searchKey, key, cursor_get_flags, reported, status>>

TypeOK ==
  /\ index \subseteq WordRecords \union StatRecords
  /\ searchKey \in SearchKeys
  /\ key \in [Fields -> Nat]
  /\ cursor_get_flags \in {"set_range", "next"}
  /\ reported \subseteq WordRecords
  /\ status \in {"idle", "walking", "atend", "failed"}

Init ==
  /\ index = {} /\ searchKey = NoKey
  /\ key = NoKey.value /\ cursor_get_flags = "set_range"
  /\ reported = {} /\ status = "idle"

(* WordList::Put, with Ref. *)
Put ==
  /\ status = "idle" /\ Cardinality(index \ StatRecords) < MaxRecords
  /\ UNCHANGED <<searchKey, key, cursor_get_flags, reported, status>>
  /\ \E k \in WordRecords :
       index' = index \union {k} \union IF wordlist_extend THEN StatRecordsOf({k[0]}) ELSE {}

(* The prefixKey of WalkInit. *)
Prefix(s) == IF 0 \in s.defined THEN PrefixOnly(s) ELSE NoKey

(* Mutant: a walk without a prefix starts with the statistics. *)
FirstKeyZero(s) == Prefix(s).value

FirstKey(s) ==
  IF 0 \in s.defined THEN Prefix(s).value
  ELSE [i \in Fields |-> IF i = 0 THEN Last ELSE 0]

WalkInit ==
  /\ status = "idle" /\ status' = "walking"
  /\ searchKey' \in SearchKeys /\ key' = FirstKey(searchKey')
  /\ cursor_get_flags' = "set_range"
  /\ UNCHANGED <<index, reported>>

Ahead(k) == IF cursor_get_flags = "next" THEN Less(key, k) ELSE ~Less(k, key)

(* The key the cursor's Get stops at. *)
Get(k) == k \in index /\ Ahead(k) /\ \A other \in index : Ahead(other) => ~Less(other, k)

(* WordList::Delete at the cursor, and Unref: the statistics of a word may  *)
(* go with its last record, or count it more than once.                     *)
LastOfWord(k) == ~\E other \in (index \ StatRecords) \ {k} : other[0] = k[0]

Deleted(k) ==
  {index \ {k}} \union
  IF wordlist_extend /\ LastOfWord(k) THEN {(index \ {k}) \ StatRecordsOf({k[0]})} ELSE {}

PastPrefix(k) ==
  Prefix(searchKey).defined # {} /\ ~Equal(Prefix(searchKey), k)

Matches(k) == ExactEqual(searchKey, Prefix(searchKey)) \/ Equal(searchKey, k)

(* complement: the fields of a found key that a jump may change. *)
Free(s) == (Fields \ s.defined) \union IF s.suffix THEN {} ELSE {0}

(* Mutant: the key is incremented whether it is lower or greater. *)
JumpKeyGreater(k, s) ==
  LET d == DiffField(k, s)
  IN  Merge(SetToFollowing(k, Free(s), d - 1), Free(s), s)

(* The key SkipUselessSequentialWalking jumps to: the search constraint     *)
(* enforced, with zeroes after the difference or with one added before it.  *)
JumpKey(k, s) ==
  LET d == DiffField(k, s)
      moved == IF DiffLower(k, s)
               THEN [i \in Fields |-> IF i > d /\ i \in Free(s) THEN 0 ELSE k[i]]
               ELSE SetToFollowing(k, Free(s), d - 1)
  IN  Merge(moved, Free(s), s)

JumpAtEnd(k, s) ==
  ~DiffLower(k, s) /\ NoFollowing(k, Free(s), DiffField(k, s) - 1)

(* The ways through WalkNextStep.  DB_NOTFOUND: *)
WalkNoMore ==
  /\ ~\E k \in index : Ahead(k)
  /\ status' = "atend" /\ UNCHANGED <<index, searchKey, key, cursor_get_flags, reported>>

(* WORD_WALK_GET_FAILED *)
WalkGetFails ==
  /\ status = "walking" /\ status' = "failed"
  /\ UNCHANGED <<index, searchKey, key, cursor_get_flags, reported>>

(* The first key after those that have the prefix. *)
WalkPast(k) ==
  /\ PastPrefix(k)
  /\ status' = "atend" /\ key' = k /\ cursor_get_flags' = "next"
  /\ UNCHANGED <<index, searchKey, reported>>

WalkSkip(k) ==
  /\ ~PastPrefix(k) /\ ~Matches(k)
  /\ IF JumpAtEnd(k, searchKey)
     THEN status' = "atend" /\ key' = k /\ cursor_get_flags' = "next"
     ELSE /\ key' = JumpKey(k, searchKey) /\ cursor_get_flags' = "set_range"
          /\ UNCHANGED status
  /\ UNCHANGED <<index, searchKey, reported>>

WalkFound(k) ==
  /\ ~PastPrefix(k) /\ Matches(k)
  /\ key' = k /\ cursor_get_flags' = "next" /\ reported' = reported \union {k}
  /\ \/ index' \in {index} \union Deleted(k) /\ UNCHANGED status
     \/ status' = "failed" /\ UNCHANGED index     \* the callback did not return OK
  /\ UNCHANGED searchKey

WalkNextStep ==
  /\ status = "walking"
  /\ \/ WalkNoMore
     \/ \E k \in index : Get(k) /\ (WalkPast(k) \/ WalkSkip(k) \/ WalkFound(k))

(* The caller takes what was collected and deletes the cursor. *)
WalkFinish ==
  /\ status \in {"atend", "failed"} /\ status' = "idle"
  /\ searchKey' = NoKey /\ reported' = {} /\ key' = NoKey.value
  /\ cursor_get_flags' = "set_range" /\ UNCHANGED index

Next == Put \/ WalkInit \/ WalkNextStep \/ WalkGetFails \/ WalkFinish

Spec == Init /\ [][Next]_vars

promise == INSTANCE WordWalk WITH records <- index \ StatRecords

(* A walk hands over what WordWalk promises, whatever it jumps over         *)
(* (WalkNextStep, SkipUselessSequentialWalking).                            *)
WalkKeepsPromise == promise!WalkSpec

(* Whatever matches and was not found yet lies where the cursor still goes, *)
(* and what was found lies behind it.                                       *)
NothingSkipped ==
  status = "walking" =>
    /\ \A m \in index \ StatRecords : Equal(searchKey, m) /\ m \notin reported => Ahead(m)
    /\ \A r \in reported : ~Ahead(r)

(* Each step of a walk that goes on moves the cursor forward, so a walk     *)
(* comes to its end (WalkNext repeats the steps that find nothing).         *)
CursorAdvances ==
  [][status = "walking" /\ status' = "walking" =>
       \/ Less(key, key')
       \/ key' = key /\ cursor_get_flags = "set_range" /\ cursor_get_flags' = "next"]_vars
================================================================================
