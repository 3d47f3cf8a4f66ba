------------------------------ MODULE MChlload ------------------------------
(* Files that load two URLs, in two editions each, under up to four IDs. *)
EXTENDS hlload, TLC

CONSTANTS u1, u2

MCURLs == {u1, u2}
MCRefs == [url : MCURLs, edition : {1, 2}]
MCSymmetry == Permutations(MCURLs)
=============================================================================
