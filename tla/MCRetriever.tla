---------------------------- MODULE MCRetriever ----------------------------
(***************************************************************************)
(* Small sites for Retriever.  Every site has the pages a, b and c; a and  *)
(* b are on server s, c on server t.                                       *)
(***************************************************************************)
EXTENDS Retriever, TLC

CONSTANTS a, b, c, s, t

Pages == {a, b, c}
Hosts == {s, t}

OnTwoServers == a :> s @@ b :> s @@ c :> t
OnOneServer == [u \in URLs |-> s]

None == [u \in URLs |-> {}]

(* a links to b and c, which link back *)
Star == a :> {b, c} @@ b :> {a} @@ c :> {a}
(* as Star, and b also leads to c *)
Fan == a :> {b, c} @@ b :> {a, c} @@ c :> {a}
(* a -> c -> b -> a, across the servers *)
Cycle == a :> {c} @@ b :> {a} @@ c :> {b}

(* b redirects to c and c to a *)
RedirectCycle == a :> {} @@ b :> {c} @@ c :> {a}

(* with the pages a and b only, each links to the other and a to itself *)
Pair == a :> {a, b} @@ b :> {a}

JustA == {a}
JustC == {c}
AandB == {a, b}
AandC == {a, c}
Identity == [u \in URLs |-> u]

(* every version of every page has contents of its own *)
AllDifferent == [u \in URLs |-> [v \in Versions |-> <<u, v>>]]
(* b has the contents of a, c has none *)
Mirror == [u \in Pages |-> [v \in Versions |-> IF u = c THEN NoBody ELSE <<a, v>>]]

Unlimited == -1
NoneForbidden == {}
=============================================================================
