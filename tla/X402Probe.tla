----------------------------- MODULE X402Probe -----------------------------
(***************************************************************************)
(* X402Probe.probe (auditor/probe.ts): the report API asks a paid service  *)
(* for its charge.  It looks the host up, asks the addresses of the answer *)
(* one after the other until one responds, follows redirects with a new    *)
(* lookup each, and reports the request that was answered.  All of it      *)
(* shares one time limit; a request to one of n addresses left gets an n-th *)
(* of what remains, and one millisecond once nothing does.                 *)
(*                                                                         *)
(* Time passes only while the probe waits, so it is the variable elapsed.  *)
(* Reading and composing messages is left out; what makes one refused is a *)
(* field of it.                                                            *)
(***************************************************************************)
EXTENDS Integers, Sequences, SequencesExt, FiniteSetsExt

CONSTANTS
  Hosts,          \* the hosts that URLs name
  Literals,       \* the address of each host that is written as one
  Addresses,      \* [family, class] of the addresses a lookup may return
  MaxAddresses,   \* bound on the addresses of a lookup (the code takes 32)
  TimeLimit,      \* timeoutMs
  MaxRedirects,
  AllowHttp, AllowLoopback

ASSUME ProbeAssumption ==
  /\ DOMAIN Literals \subseteq Hosts
  /\ MaxAddresses \in Nat \ {0} /\ TimeLimit \in Nat \ {0} /\ MaxRedirects \in Nat
  /\ AllowHttp \in BOOLEAN /\ AllowLoopback \in BOOLEAN

VARIABLES
  at,         \* "start", "resolve", "ask", "answered" or "failed"
  request,    \* [url, method, body, typed]: what the next address is asked
  addresses,  \* the addresses of the current lookup that are left to ask
  lookup,     \* [since, number] of the current lookup: when it ended, its addresses
  redirects,  \* how many were followed
  elapsed,    \* milliseconds since the probe began
  sent,       \* the request and the address that were asked last
  result,     \* what the probe returns: the request, and whether it has terms
  given,      \* history: what the caller wants to be sent
  trail       \* history: the statuses of the redirects that were followed

probeVars ==
  <<at, request, addresses, lookup, redirects, elapsed, sent, result, given, trail>>

Unset == [kind |-> "unset"]

-----------------------------------------------------------------------------
(* A URL: clean when it has no credentials and no fragment. *)
TargetUrls == [scheme : {"https", "http"}, host : Hosts, clean : BOOLEAN]

AcceptsUrl(u) == u.clean /\ (u.scheme = "https" \/ AllowHttp)

(* What a caller may send.  typed: it has a content type.  json: that type, *)
(* if any, is JSON, no other header than Accept is given, and the body is   *)
(* within the limit.                                                        *)
ProbeInputs ==
  [url : TargetUrls, method : {"GET", "POST"}, body : BOOLEAN, typed : BOOLEAN, json : BOOLEAN]

AcceptsInput(i) == i.json /\ (i.method = "GET" => ~i.body)

IsPublicAddress(a) == a.class = "public"
IsLoopbackAddress(a) == a.class = "loopback"
Permitted(a) == IsPublicAddress(a) \/ (AllowLoopback /\ IsLoopbackAddress(a))

(* The addresses by family, those of one family in the order of the answer. *)
FamilyOrder(as) ==
  CHOOSE p \in Permutations(DOMAIN as) :
    \A i, j \in DOMAIN as :
      i < j => \/ as[p[i]].family < as[p[j]].family
               \/ as[p[i]].family = as[p[j]].family /\ p[i] < p[j]

FamilyFirst(as) ==
  LET order == FamilyOrder(as) IN [i \in DOMAIN as |-> as[order[i]]]

-----------------------------------------------------------------------------
RemainingUntil(deadline) == Max({1, deadline - elapsed})

(* Mutated form: every address gets all of the time that is left.           *)
WholeRemainder == RemainingUntil(TimeLimit)

(* The time limit of the request to the next address.                       *)
Share ==
  LET timeout == Max({1, RemainingUntil(TimeLimit) \div Len(addresses)})
  IN RemainingUntil(Min({TimeLimit, elapsed + timeout}))

Spend(limit, spent) == spent \in 0 .. limit /\ elapsed' = elapsed + spent

Fail ==
  at' = "failed" /\ UNCHANGED <<addresses, lookup, redirects, request, result, given, trail>>

(* What is sent to whatever URL. *)
Content(r) == [method |-> r.method, body |-> r.body, typed |-> r.typed]

ParseProbeInput(i) ==
  /\ at = "start"
  /\ IF AcceptsInput(i) /\ AcceptsUrl(i.url)
     THEN at' = "resolve"
     ELSE at' = "failed"
  /\ request' = [url |-> i.url, method |-> i.method, body |-> i.body,
                 typed |-> i.typed \/ i.body]
  /\ given' = Content(request')
  /\ UNCHANGED <<addresses, lookup, redirects, elapsed, sent, result, trail>>

(* A host that is an address is not looked up.  One address that may not be *)
(* asked, or none at all, ends the probe.                                   *)
Resolve(answer, spent) ==
  /\ at = "resolve"
  /\ IF request.url.host \in DOMAIN Literals
     THEN answer = <<Literals[request.url.host]>> /\ spent = 0
     ELSE TRUE
  /\ Spend(RemainingUntil(TimeLimit), spent)
  /\ IF answer # <<>> /\ \A a \in ToSet(answer) : Permitted(a)
     THEN /\ at' = "ask" /\ addresses' = FamilyFirst(answer)
          /\ lookup' = [since |-> elapsed', number |-> Len(answer)]
          /\ UNCHANGED <<request, redirects, result, given, trail>>
     ELSE Fail
  /\ UNCHANGED sent

LookupFails(spent) ==
  /\ at = "resolve" /\ request.url.host \notin DOMAIN Literals
  /\ Spend(RemainingUntil(TimeLimit), spent)
  /\ Fail /\ UNCHANGED sent

-----------------------------------------------------------------------------
RequestPinned(spent) ==
  /\ at = "ask" /\ Spend(Share, spent)
  /\ sent' = [request |-> request, address |-> Head(addresses)]

(* No connection, no answer in time, an answer without a status: the next   *)
(* address is asked, if there is one.                                       *)
AddressFails(spent) ==
  /\ RequestPinned(spent)
  /\ IF Len(addresses) > 1
     THEN /\ addresses' = Tail(addresses)
          /\ UNCHANGED <<at, lookup, redirects, request, result, given, trail>>
     ELSE Fail

(* A response that is too long is not asked for again. *)
ResponseRefused(spent) == RequestPinned(spent) /\ Fail

(* Mutated form: only the method changes.                                   *)
MethodOnly(r, status) ==
  IF status = 303 \/ (status \in {301, 302} /\ r.method = "POST")
  THEN [r EXCEPT !.method = "GET"] ELSE r

(* What a redirect with that status makes of the request. *)
RedirectedRequest(r, status) ==
  IF status = 303 \/ (status \in {301, 302} /\ r.method = "POST")
  THEN [r EXCEPT !.method = "GET", !.body = FALSE, !.typed = FALSE]
  ELSE r

(* location: the URL that Location names, Unset when there is none.         *)
Redirected(status, location, spent) ==
  /\ RequestPinned(spent)
  /\ IF location # Unset /\ redirects < MaxRedirects /\ AcceptsUrl(location)
     THEN /\ at' = "resolve" /\ redirects' = redirects + 1
          /\ request' = [RedirectedRequest(request, status) EXCEPT !.url = location]
          /\ addresses' = <<>> /\ trail' = trail \cup {status}
          /\ UNCHANGED <<lookup, result, given>>
     ELSE Fail

(* What is reported of a request: of its headers, nothing.                  *)
Reported(r) == [url |-> r.url, method |-> r.method, body |-> r.body]

(* charge: what a 402 carries, "none" for any other status.                 *)
Answered(charge, spent) ==
  /\ RequestPinned(spent)
  /\ IF charge = "malformed"
     THEN Fail
     ELSE /\ at' = "answered"
          /\ result' = [request |-> Reported(request), terms |-> charge = "terms"]
          /\ UNCHANGED <<addresses, lookup, redirects, request, given, trail>>

LookupAnswers == BoundedSeq(Addresses, MaxAddresses)

ProbeInit ==
  /\ at = "start" /\ request = Unset /\ addresses = <<>> /\ redirects = 0
  /\ lookup = [since |-> 0, number |-> 0]
  /\ elapsed = 0 /\ sent = Unset /\ result = Unset /\ given = Unset /\ trail = {}

ProbeNext ==
  \/ \E i \in ProbeInputs : ParseProbeInput(i)
  \/ \E spent \in 0 .. TimeLimit :
       \/ \E answer \in LookupAnswers \cup {<<a>> : a \in Range(Literals)} :
            Resolve(answer, spent)
       \/ LookupFails(spent)
       \/ AddressFails(spent)
       \/ ResponseRefused(spent)
       \/ \E status \in {301, 302, 303, 307, 308}, location \in {Unset} \cup TargetUrls :
            Redirected(status, location, spent)
       \/ \E charge \in {"none", "malformed", "terms"} : Answered(charge, spent)

-----------------------------------------------------------------------------
(* What the next hop is due, said of the caller's request and of all the    *)
(* redirects at once: his own method, body and content type, unless there   *)
(* was a 303, or a 301 or 302 of a POST; from that redirect on, whatever    *)
(* follows it, a GET without either.                                        *)
Due ==
  IF 303 \in trail \/ (given.method = "POST" /\ trail \cap {301, 302} # {})
  THEN [method |-> "GET", body |-> FALSE, typed |-> FALSE] ELSE given

(* Every hop is sent what it is due, and the request that is reported, and  *)
(* that the payment is checked for, is the one that was answered: not the   *)
(* one the caller gave, and not one that an earlier hop got (probe.ts:152,  *)
(* :164, :177).                                                             *)
ReportsWhatWasAnswered ==
  /\ at \in {"resolve", "ask"} => Content(request) = Due
  /\ at = "answered" =>
       /\ Content(sent.request) = Due
       /\ result.request = [url |-> sent.request.url, method |-> Due.method, body |-> Due.body]

(* Every address of a lookup has its share of the time that was left when   *)
(* the lookup ended, however long the ones before it took; and after the    *)
(* limit the probe lives on by a millisecond per lookup and request at most *)
(* (probe.ts:271, :624).                                                    *)
SharesTheTime ==
  /\ at = "ask" =>
       LET share == (TimeLimit - lookup.since) \div lookup.number
       IN share > 0 => TimeLimit - elapsed >= share * Len(addresses)
  /\ elapsed <= TimeLimit + (MaxRedirects + 1) * (MaxAddresses + 1)
=============================================================================
