------------------------------ MODULE MCDocument ------------------------------
(* Three servers: one that is asked with GET alone and keeps connections,   *)
(* one that is asked with HEAD first, one whose connections are not kept.   *)
(* The first two are of one domain and set cookies for it; the name of the  *)
(* third is too short for a cookie of its own to come back.                 *)
EXTENDS Cookies

CONSTANTS a1, a2, b1, c1, hostA, hostB, hostC

MCHostOf == a1 :> hostA @@ a2 :> hostA @@ b1 :> hostB @@ c1 :> hostC

Whole(code, framing, lines) ==
  [code |-> code, parsable |-> TRUE, framing |-> framing, lines |-> lines, close |-> FALSE]

Page     == Whole(200, "length", <<"text", "tail">>)
Missing  == Whole(404, "length", <<"text", "blank", "tail">>)
Chunked  == Whole(200, "chunked", <<"text", "blank", "text">>)
Moved    == Whole(301, "length", <<"tail">>)
Long     == Whole(200, "length", <<"text", "blank", "text">>)
Image    == [Long EXCEPT !.parsable = FALSE]
Empty    == Whole(204, "none", <<>>)
Same     == Whole(304, "none", <<>>)
Old      == [Whole(200, "until_close", <<"text", "tail">>) EXCEPT !.close = TRUE]

MCAnswers == a1 :> {Page, Missing} @@ a2 :> {Chunked, Image, Moved, Long}
             @@ b1 :> {Chunked, Old, Empty, Same} @@ c1 :> {Page, Missing}

foo == <<"foo", "com">>
MCHostName == a1 :> <<"www">> \o foo @@ a2 :> <<"www">> \o foo @@ b1 :> foo
              @@ c1 :> <<"bar", "de">>
MCPathOf == a1 :> <<"shop", "list">> @@ a2 :> <<>> @@ b1 :> <<"shop">> @@ c1 :> <<>>

Plainly(name, value) ==
  [name |-> name, value |-> value, path |-> <<>>, domain |-> <<>>,
   expires |-> NoDate, max_age |-> -1, issue_time |-> 0]
User     == Plainly("user", 1)
Aged     == [Plainly("user", 2) EXCEPT !.max_age = 0]
Cart     == [Plainly("cart", 1) EXCEPT !.domain = foo, !.path = <<"shop">>]
Everyone == [Plainly("all", 1) EXCEPT !.domain = foo]
Brief    == [Plainly("all", 2) EXCEPT !.domain = foo, !.expires = 1]
TooWide  == [Plainly("wide", 1) EXCEPT !.domain = <<"com">>]

MCSetCookie == a1 :> {<<>>, <<Aged>>} @@ a2 :> {<<>>, <<Cart, Everyone>>}
               @@ b1 :> {<<>>, <<Brief>>} @@ c1 :> {<<>>, <<User>>}
MCImported == <<[Everyone EXCEPT !.expires = 0], TooWide>>

ASSUME EndsOnly
==============================================================================
