-------------------------------- MODULE Cookies --------------------------------
(****************************************************************************)
(* The cookie jar (hlnet/HtCookieMemJar.cc) that all HTTP retrievals of a   *)
(* dig share, filled from a file (HtCookieInFileJar.cc) and by the headers  *)
(* that ParseHeader reads: those of HEAD, of redirects, and of responses    *)
(* that are lost later.  The servers here do not have disable_cookies.      *)
(* Host names and domains are sequences of labels, no label being part of   *)
(* another; paths are sequences of their parts.                             *)
(****************************************************************************)
EXTENDS Document, Integers, SequencesExt

CONSTANTS
  HostName,         \* the host name of each URL
  PathOf,           \* and its path
  SetCookie,        \* what the header of each URL may set: sequences of cookies
  Imported,         \* the cookies of cookies_input_file
  TopLevelDomains,  \* the seven
  NoDate,
  MaxTime, MaxCookies   \* bounds: the clock, and the cookies headers set

VARIABLES
  cookieDict,   \* the list of cookies of each domain
  now,
  received      \* history: the cookies in the order they came, and from whom

jarVars == <<cookieDict, now, received>>

Cookie == [name : STRING, value : Nat, path : Seq(STRING), domain : Seq(STRING),
           expires : Nat \cup {NoDate}, max_age : Nat \cup {-1}, issue_time : Nat]

(* Imported cookies have neither a Max-Age nor a host they came from.       *)
CookiesAssumption ==
  /\ HostName \in [URLs -> Seq(STRING) \ {<<>>}]
  /\ \A u \in URLs : <<>> \in SetCookie[u] /\ \A cs \in SetCookie[u] : cs \in Seq(Cookie)
  /\ Imported \in Seq(Cookie)
  /\ \A i \in DOMAIN Imported : Imported[i].domain # <<>> /\ Imported[i].max_age = -1
  /\ MaxTime \in Nat /\ MaxCookies \in Nat
ASSUME CookiesAssumption

GetDomainMinNumberOfPeriods(domain) ==
  IF Len(domain) < 2 THEN 0
  ELSE IF Last(domain) \in TopLevelDomains THEN 2 ELSE 3

(* indexOf: somewhere in the host name, not only at its end. *)
WithinHost(domain, name) ==
  \E i \in 0 .. Len(name) - Len(domain) : SubSeq(name, i + 1, i + Len(domain)) = domain

(* The domain a cookie is kept for: its own if that is a valid one, or the  *)
(* host that set it.                                                        *)
DomainOf(cookie, name) ==
  LET minimum == GetDomainMinNumberOfPeriods(cookie.domain)
      valid   == /\ minimum > 0 /\ Len(cookie.domain) >= minimum
                 /\ name = <<>> \/ WithinHost(cookie.domain, name)
  IN IF valid THEN cookie.domain ELSE name

Found(c, cookie) == c.name = cookie.name /\ c.path = cookie.path

(* SetExpires: no date removes the date there is; a date is only taken      *)
(* where there is none.                                                     *)
SetExpires(old, new) == IF new = NoDate \/ old = NoDate THEN new ELSE old

(* A cookie that is in the list keeps its value. *)
AddToList(list, cookie) ==
  IF \E i \in DOMAIN list : Found(list[i], cookie)
  THEN [i \in DOMAIN list |->
          IF Found(list[i], cookie)
          THEN [list[i] EXCEPT !.expires = SetExpires(@, cookie.expires)] ELSE list[i]]
  ELSE Append(list, cookie)

cookiesForDomain(dict, domain) == IF domain \in DOMAIN dict THEN dict[domain] ELSE <<>>

AddCookieForHost(dict, cookie, name) ==
  LET domain == DomainOf(cookie, name)
      list   == AddToList(cookiesForDomain(dict, domain), cookie)
  IN [d \in DOMAIN dict \cup {domain} |-> IF d = domain THEN list ELSE dict[d]]

(* Without a Max-Age the time of issue tells nothing. *)
Issued(cookie, time) ==
  [cookie EXCEPT !.issue_time = IF cookie.max_age = -1 THEN 0 ELSE time]

AddCookies(dict, cookies, name) ==
  LET added[i \in 0 .. Len(cookies)] ==
        IF i = 0 THEN dict ELSE AddCookieForHost(added[i - 1], cookies[i], name)
  IN added[Len(cookies)]

(* "now - issuetime <= maxage": a Max-Age is served after its time. *)
Expired(cookie) ==
  \/ cookie.expires # NoDate /\ cookie.expires < now
  \/ now - cookie.issue_time <= cookie.max_age

Passed(u, cookie) == ~Expired(cookie) /\ IsPrefix(cookie.path, PathOf[u])

WriteDomainCookiesString(u, domain) ==
  LET list == cookiesForDomain(cookieDict, domain)
  IN FlattenSeq([i \in DOMAIN list |-> IF Passed(u, list[i]) THEN <<list[i]>> ELSE <<>>])

(* Mutant: a domain with just labels enough is not looked up. *)
LongerThanEnough(domain, name) == Len(domain) > GetDomainMinNumberOfPeriods(name)

LongEnough(domain, name) == Len(domain) >= GetDomainMinNumberOfPeriods(name)

LastLabels(name, k) == SubSeq(name, Len(name) - k + 1, Len(name))

(* What a command for u would send: the cookies of the domains its host is  *)
(* in, from the shortest that is valid to the host's own name.              *)
SetHTTPRequest_CookiesString(u) ==
  LET name == HostName[u]
  IN FlattenSeq([k \in DOMAIN name |->
       IF LongEnough(LastLabels(name, k), name)
       THEN WriteDomainCookiesString(u, LastLabels(name, k)) ELSE <<>>])

From(cookies, name) == [i \in DOMAIN cookies |-> [cookie |-> cookies[i], from |-> name]]

(* HtCookieInFileJar::Load *)
InitCookies ==
  LET loaded == [i \in DOMAIN Imported |-> Issued(Imported[i], 0)]
  IN /\ Init
     /\ now = 0
     /\ cookieDict = AddCookies([d \in {} |-> <<>>], loaded, <<>>)
     /\ received = From(loaded, <<>>)

(* Store cookies under the host of the URL in hand. *)
AddCookie(cookies) ==
  LET issued == [i \in DOMAIN cookies |-> Issued(cookies[i], now)]
  IN /\ Len(received) + Len(cookies) <= Len(Imported) + MaxCookies
     /\ cookieDict' = AddCookies(cookieDict, issued, HostName[url])
     /\ received' = received \o From(issued, HostName[url])
     /\ UNCHANGED now

(* The lines of a header are read with or without its status line. *)
HeaderRead ==
  \E n \in 1 .. arrived :
    /\ EndsHeader(n)
    /\ ParseHeader \/ NoHeader
    /\ IF stream[n].line = "head"
       THEN \E cookies \in SetCookie[stream[n].url] : AddCookie(cookies)
       ELSE UNCHANGED jarVars

(* And as far as they came, when the connection ends in between. *)
HeaderCut ==
  /\ HeaderDown
  /\ \E cookies \in SetCookie[url] : \E n \in 0 .. Len(cookies) : AddCookie(SubSeq(cookies, 1, n))

StepCookies ==
  \/ (HeaderRead \/ HeaderCut) /\ UNCHANGED NumRetries
  \/ (Retry \/ Return) /\ UNCHANGED jarVars
  \/ /\ SendCommand \/ CannotConnect \/ ReadBody \/ ReadChunkedBody \/ BodyDown
          \/ GetAfterHead \/ GetAgain
     /\ UNCHANGED <<NumRetries, jarVars>>

NetworkCookies == Network /\ UNCHANGED <<NumRetries, jarVars>>

(* The clock only matters between retrievals. *)
Tick ==
  /\ pc = "idle"
  /\ now < MaxTime /\ now' = now + 1
  /\ UNCHANGED <<vars, cookieDict, received>>

NextCookies ==
  \/ StepCookies
  \/ NetworkCookies
  \/ PeerFails /\ UNCHANGED <<NumRetries, jarVars>>
  \/ \E u \in URLs : Retrieve(u) /\ UNCHANGED jarVars
  \/ Tick

allVars == <<vars, jarVars>>

SpecCookies ==
  /\ InitCookies /\ [][NextCookies]_allVars
  /\ WF_allVars(StepCookies) /\ WF_allVars(NetworkCookies)

(* Properties *)

(* What a cookie is for, told from what was received and not from the jar:  *)
(* its own domain where that ends the name of the host and has labels       *)
(* enough, or that host.                                                    *)
Enough(domain) == Len(domain) >= IF Last(domain) \in TopLevelDomains THEN 2 ELSE 3
Within(domain, name) == domain # <<>> /\ IsSuffix(domain, name)
MeantFor(r) ==
  IF r.cookie.domain # <<>> /\ Enough(r.cookie.domain)
     /\ (r.from = <<>> \/ Within(r.cookie.domain, r.from))
  THEN r.cookie.domain ELSE r.from

(* A host without a dot in its name gets its own, too. *)
Reaches(r, u) ==
  /\ Within(MeantFor(r), HostName[u]) /\ IsPrefix(r.cookie.path, PathOf[u])
  /\ Enough(MeantFor(r)) \/ Len(HostName[u]) = 1

Editions(r) ==
  {i \in DOMAIN received :
     MeantFor(received[i]) = MeantFor(r) /\ Found(received[i].cookie, r.cookie)}

Undated(r) == \A i \in Editions(r) : received[i].cookie.expires = NoDate
Lasting(r) == \E i \in Editions(r) : LET date == received[i].cookie.expires
                                      IN date = NoDate \/ date >= now

(* The first editions of what reaches u. *)
Firsts(u) == {r \in Range(received) : Reaches(r, u) /\ received[Min(Editions(r))] = r}

(* Whatever came in which order, from whom and with which retrievals in     *)
(* between: AddCookieForHost and SetHTTPRequest_CookiesString, which count  *)
(* labels each in its own way, agree.  Each cookie in a request is the      *)
(* first edition of another one meant for it, as it was received but for    *)
(* the date, and one of its editions lasts; a cookie that no server dated   *)
(* is in every request it is meant for.                                     *)
CookiesComeBack ==
  pc = "request" =>
    LET sent == SetHTTPRequest_CookiesString(url)
    IN \E edition \in [DOMAIN sent -> Firsts(url)] :
         /\ \A k \in DOMAIN sent :
              /\ sent[k] = [edition[k].cookie EXCEPT !.expires = sent[k].expires]
              /\ Lasting(edition[k])
         /\ \A k, l \in DOMAIN sent : edition[k] = edition[l] => k = l
         /\ \A r \in Firsts(url) :
              Undated(r) /\ r.cookie.max_age = -1 => r \in Range(edition)

(* What a theorem about it takes for granted of the sites dug: no domain a  *)
(* cookie may be kept for is in the middle of the name of a host, where     *)
(* indexOf finds it.                                                        *)
Settable == Range(Imported) \cup UNION {Range(cs) : cs \in UNION {SetCookie[u] : u \in URLs}}
EndsOnly ==
  \A cookie \in Settable : \A u \in URLs :
    LET domain == cookie.domain IN
    domain # <<>> /\ Enough(domain) /\ WithinHost(domain, HostName[u])
      => IsSuffix(domain, HostName[u])
==============================================================================
