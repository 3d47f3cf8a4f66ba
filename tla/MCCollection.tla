---------------------------- MODULE MCCollection ----------------------------
(* Collection with two URLs. *)
EXTENDS Collection, TLC

CONSTANTS u1, u2

MCURLs == {u1, u2}
MCRefs == DocumentRefs
JustU1 == {u1}
NoURLs == {}
(* The first page has two ordinary editions.  The second has no excerpt at  *)
(* first; then it says noindex or cannot be parsed.                         *)
MCKinds == (u1 :> <<{"ordinary"}, {"ordinary"}>>) @@ (u2 :> <<{"bare"}, {"noindex", "no_parser"}>>)
=============================================================================
