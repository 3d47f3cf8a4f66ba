------------------------------- MODULE hlload -------------------------------
(***************************************************************************)
(* hltools/hlload.cc: a document database filled from a text file.  The    *)
(* work is DocumentDB::LoadDB, a loop over lines in any order, each a      *)
(* document ID and the fields of its record; hlload opens the database     *)
(* before the loop and closes it after it.                                 *)
(***************************************************************************)
EXTENDS DocumentDB

(* One line.  Exists hands back OK, which is 0, for an ID that has a record *)
(* and NOTOK for one that has none, so Delete is called when there is       *)
(* nothing to delete -- which does nothing -- and never otherwise.          *)
LoadLine(id, ref, headIsSet) ==
  /\ isopen
  /\ Put(id, ref, headIsSet)
  /\ nextDocID' = IF id > nextDocID THEN id + 1 ELSE nextDocID
  /\ UNCHANGED <<isopen, savedDocID>>

LoadNext ==
  \/ Open
  \/ Close
  \/ \E id \in DocIDs, ref \in Refs, h \in BOOLEAN : LoadLine(id, ref, h)

LoadSpec == Init /\ [][LoadNext]_vars
=============================================================================
