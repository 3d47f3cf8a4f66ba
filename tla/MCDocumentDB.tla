---------------------------- MODULE MCDocumentDB ----------------------------
(* DocumentDB with records that are no more than a URL and an edition. *)
EXTENDS DocumentDB, TLC

CONSTANTS u1, u2

MCURLs == {u1, u2}
MCRefs == [url : MCURLs, edition : {1}]
MCSymmetry == Permutations(MCURLs)
=============================================================================
