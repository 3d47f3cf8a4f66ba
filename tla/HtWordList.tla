----------------------------- MODULE HtWordList -----------------------------
(***************************************************************************)
(* The word list of hlcommon/HtWordList.cc: a buffer of word occurrences   *)
(* in front of the word database.  An occurrence is a pair                 *)
(*                                                                         *)
(*     <<document ID, source>>                                             *)
(*                                                                         *)
(* that stands for the words one source gave to one document: the page     *)
(* body in some version, or the text of links that lead to the page.  The  *)
(* words themselves, their flags and locations are not told apart, and     *)
(* the database below (htword and Berkeley DB) is the set of occurrences   *)
(* it stores.                                                              *)
(***************************************************************************)
CONSTANTS
  Occurrences,   \* the pairs <<document ID, source>>
  LinkText       \* the source of words taken from link descriptions

DescriptionKinds == {"empty", "short", "words"}

VARIABLES
  words,     \* the List of WordReferences not yet written
  word_db    \* the word database

TypeOK == words \subseteq Occurrences /\ word_db \subseteq Occurrences

Init == words = {} /\ word_db = {}

(* Replace only buffers. *)
Replace(occurrence) ==
  /\ words' = words \cup {occurrence}
  /\ UNCHANGED word_db

(* Flush writes the whole buffer, whoever put the words there. *)
Flush ==
  /\ word_db' = word_db \cup words
  /\ words' = {}

(* Skip forgets the buffer. *)
Skip ==
  /\ words' = {}
  /\ UNCHANGED word_db

(* DocumentRef::AddDescription: an empty description is ignored; any other  *)
(* one buffers its words under the ID of the document the link leads to --  *)
(* none when all are shorter than minimum_word_length -- and then flushes.  *)
AddDescription(docID, description) ==
  IF description = "empty"
  THEN UNCHANGED <<words, word_db>>
  ELSE /\ word_db' = word_db \cup words \cup
            IF description = "words" THEN {<<docID, LinkText>>} ELSE {}
       /\ words' = {}
=============================================================================
