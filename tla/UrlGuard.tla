------------------------------ MODULE UrlGuard ------------------------------
(***************************************************************************)
(* One outbound fetch of an ingestion, guarded_fetch: every hop checks the *)
(* destination of its target, asks for the session token, sends the        *)
(* request to the address that was checked and follows a redirect, or      *)
(* reads the body with bounds on what was received and what it decodes to. *)
(* Name resolution is an answer of the environment that may differ each    *)
(* time; whatever raises ends the fetch with the refusal "transport".      *)
(*                                                                         *)
(* The content of a body is a sequence of units, Unit; "s" is the one      *)
(* that signatures of known formats consist of.                            *)
(***************************************************************************)
EXTENDS Integers, Sequences

CONSTANTS Url,              \* the URLs that occur: [scheme, host, port, path]
          Address,          \* IP addresses
          Denied,           \* those that are not globally routable
          Literal,          \* hosts that spell an address |-> the address
          Deployment,       \* deployment_url
          RedirectPolicy,   \* the URLs that redirect_policy accepts
          MaxRedirectHops,  \* MAX_REDIRECT_HOPS
          MaxBytes,         \* max_bytes
          SniffWindow,      \* _SNIFF_WINDOW_BYTES
          SignatureLength,  \* units a signature of a known format has
          NoBody            \* a result without a body

Unit == {"s", "x"}

ASSUME UrlAssumption ==
    /\ Url \subseteq [scheme : STRING, host : STRING, port : Nat, path : STRING]
    /\ Deployment \in Url /\ [Deployment EXCEPT !.path = "api"] \in Url
    /\ Denied \subseteq Address
    /\ Literal \in [DOMAIN Literal -> Address]
    /\ RedirectPolicy \subseteq Url

ASSUME BoundAssumption ==
    /\ MaxRedirectHops \in Nat
    /\ MaxBytes \in Nat
    /\ SniffWindow \in Nat \ {0}
    /\ SignatureLength \in 1 .. SniffWindow
    /\ NoBody \notin Seq(Unit)

VARIABLES step,      \* where guarded_fetch is
          target,    \* the URL of this hop
          hops,      \* redirects_followed
          decision,  \* of check_destination for this hop
          request,   \* what is on the wire
          reading,   \* the state of _read_bounded_body
          result     \* of the fetch that ended last

guardVars == <<step, target, hops, decision, request, reading, result>>

AllowedSchemes == {"http", "https"}
Reasons == {"scheme", "destination", "redirect", "hop_limit", "resolution",
            "size", "content_type", "transport"}

NoUrl == [scheme |-> "", host |-> "", port |-> 0, path |-> ""]
NoAddress == "no address"

-----------------------------------------------------------------------------
(* Destinations.                                                           *)

\* _normalise_origin with its effective port; {} where it returns None.
Origin(u) ==
    IF u.scheme \notin AllowedSchemes \/ u.host \in {"", "malformed"} THEN {}
    ELSE {<<u.scheme, u.host,
            IF u.port # 0 THEN u.port ELSE IF u.scheme = "https" THEN 443 ELSE 80>>}

IsDeploymentUrl(u) == Origin(u) # {} /\ Origin(u) = Origin(Deployment)

\* API and storage URIs of alkem.io go to the configured deployment.
RewriteTarget(u) ==
    IF (u.host = "alkem.io" \/ IsDeploymentUrl(u)) /\ u.path = "api"
    THEN [Deployment EXCEPT !.path = u.path]
    ELSE u

Refused(u, reason) ==
    [allowed |-> FALSE, reason |-> reason, address |-> NoAddress, host |-> u.host]
Allowed(u, a) ==
    [allowed |-> TRUE, reason |-> "none", address |-> a, host |-> u.host]

\* What makes an answer unusable: an entry that is no address, or one that is
\* denied to everything but the deployment.
Unusable(u, answer) ==
    {i \in DOMAIN answer : \/ answer[i] \notin Address
                           \/ answer[i] \in Denied /\ ~IsDeploymentUrl(u)}

\* check_destination; the empty answer is a failure or timeout of the resolver.
CheckDestination(u, answer) ==
    LET bad == Unusable(u, answer)
        first == CHOOSE i \in bad : \A j \in bad : i <= j
    IN  IF u.host = "malformed" THEN Refused(u, "destination")
        ELSE IF u.scheme \notin AllowedSchemes THEN Refused(u, "scheme")
        ELSE IF u.host = "" THEN Refused(u, "destination")
        ELSE IF u.host \in DOMAIN Literal
        THEN IF Literal[u.host] \in Denied /\ ~IsDeploymentUrl(u)
             THEN Refused(u, "destination") ELSE Allowed(u, Literal[u.host])
        ELSE IF answer = <<>> THEN Refused(u, "resolution")
        ELSE IF bad = {} THEN Allowed(u, answer[1])
        ELSE Refused(u, IF answer[first] \in Address THEN "destination" ELSE "resolution")

\* A Location that is an absolute HTTP(S) URL with a host.
IsRedirectTarget(u) == u.scheme \in AllowedSchemes /\ u.host # ""

-----------------------------------------------------------------------------
(* The hops.                                                               *)

NoDecision == Refused(NoUrl, "none")
NoRequest == [address |-> NoAddress, host |-> "", auth |-> FALSE]
NoReading == [type |-> "", sniffing |-> FALSE, raw |-> 0, sent |-> <<>>,
              pending |-> <<>>, held |-> <<>>, sniff |-> <<>>, body |-> <<>>]
NoResult == [body |-> NoBody, type |-> "", reason |-> "none"]

GuardInit ==
    /\ step = "idle"
    /\ target = NoUrl
    /\ hops = 0
    /\ decision = NoDecision
    /\ request = NoRequest
    /\ reading = NoReading
    /\ result = NoResult

\* guarded_fetch is called; no fetch of this caller is under way.
Fetch(u) ==
    /\ step = "idle"
    /\ step' = "check"
    /\ target' = u
    /\ UNCHANGED <<hops, decision, request, reading, result>>

\* Every return, with nothing of the fetch left behind.
Return(r) ==
    /\ step' = "done"
    /\ target' = NoUrl
    /\ hops' = 0
    /\ decision' = NoDecision
    /\ request' = NoRequest
    /\ reading' = NoReading
    /\ result' = r

Refuse(reason) == Return([body |-> NoBody, type |-> "", reason |-> reason])

\* A destination that a redirect led to is refused as a redirect.
Check(answer) ==
    LET d == CheckDestination(target, answer)
    IN  /\ step = "check"
        /\ IF d.allowed
           THEN /\ step' = "send"
                /\ decision' = d
                /\ UNCHANGED <<target, hops, request, reading, result>>
           ELSE Refuse(IF hops > 0 /\ d.reason = "destination" THEN "redirect" ELSE d.reason)

\* Mutant: the deployment is recognised by its host alone.
AttachToHost(u) == u.host = Deployment.host

ShouldAttachCredentials(u) == IsDeploymentUrl(u)

\* The request to the pinned address, with the token where it belongs.
Send(token) ==
    /\ step = "send"
    /\ step' = "wait"
    /\ request' = [address |-> decision.address, host |-> decision.host,
                   auth |-> token /\ ShouldAttachCredentials(target)]
    /\ UNCHANGED <<target, hops, decision, reading, result>>

\* Mutant: one hop too many.
HopsExceeded == hops > MaxRedirectHops

HopsUsedUp == hops >= MaxRedirectHops

\* Mutant: the decision of the first hop serves the whole chain.
RedirectedUnchecked(u) ==
    /\ step = "wait"
    /\ IF ~IsRedirectTarget(u) \/ u \notin RedirectPolicy THEN Refuse("redirect")
       ELSE IF HopsUsedUp THEN Refuse("hop_limit")
       ELSE /\ step' = "send"
            /\ target' = u
            /\ hops' = hops + 1
            /\ request' = NoRequest
            /\ UNCHANGED <<decision, reading, result>>

\* A redirect response; NoUrl stands for one without a Location.
Redirected(u) ==
    /\ step = "wait"
    /\ IF ~IsRedirectTarget(u) \/ u \notin RedirectPolicy THEN Refuse("redirect")
       ELSE IF HopsUsedUp THEN Refuse("hop_limit")
       ELSE /\ step' = "check"
            /\ target' = u
            /\ hops' = hops + 1
            /\ decision' = NoDecision
            /\ request' = NoRequest
            /\ UNCHANGED <<reading, result>>

\* Another status than 200 or a redirect.
StatusRefused ==
    /\ step = "wait"
    /\ Refuse("transport")

\* Any exception: the token, the connection, a timeout, a content encoding.
Raises ==
    /\ step \in {"send", "wait", "body"}
    /\ Refuse("transport")

-----------------------------------------------------------------------------
(* The body.  A content type is known to the extractor, a medium that it   *)
(* never reads, or other: then the first units of the body decide.         *)

Recognised(units) ==
    /\ Len(units) >= SignatureLength
    /\ \A i \in 1 .. SignatureLength : units[i] = "s"

\* Answer with status 200; oversize is what Content-Length declares.
Respond(type, oversize) ==
    /\ step = "wait"
    /\ IF oversize THEN Refuse("size")
       ELSE IF type = "media" THEN Refuse("content_type")
       ELSE /\ step' = "body"
            /\ reading' = [NoReading EXCEPT !.type = type, !.sniffing = (type = "other")]
            /\ request' = NoRequest
            /\ decision' = NoDecision
            /\ UNCHANGED <<target, hops, result>>

\* A raw chunk of n bytes that decodes to units, behind what the decoder holds.
Chunk(n, units) ==
    /\ step = "body"
    /\ reading.pending = <<>>
    /\ IF reading.raw + n > MaxBytes THEN Refuse("size")
       ELSE /\ reading' = [reading EXCEPT !.raw = @ + n, !.sent = @ \o units,
                                          !.pending = reading.held \o units, !.held = <<>>]
            /\ UNCHANGED <<step, target, hops, decision, request, result>>

Take(s, n) == SubSeq(s, 1, IF n < Len(s) THEN n ELSE Len(s))
Drop(s, n) == SubSeq(s, n + 1, Len(s))
Least(m, n) == IF m < n THEN m ELSE n

Remaining(r) == MaxBytes - Len(r.body)

\* One more unit than there is room for, so that an excess shows.
DecodeLimit(r) ==
    1 + IF r.sniffing THEN Least(Remaining(r), SniffWindow - Len(r.sniff)) ELSE Remaining(r)

\* Mutant: the policy judges the first piece alone.
SniffedFirst(r) == TRUE

SniffComplete(r) == Len(r.sniff) >= SniffWindow

\* decode: the limit was reached with input left, or with output left inside
\* the decoder, to come out with the next chunk or at the end.
Decode(hold) ==
    LET units == Take(reading.pending, DecodeLimit(reading))
        rest  == Drop(reading.pending, DecodeLimit(reading))
        r     == [reading EXCEPT !.body = @ \o units,
                                 !.sniff = IF reading.sniffing
                                           THEN @ \o Take(units, SniffWindow - Len(@)) ELSE @,
                                 !.pending = IF hold THEN <<>> ELSE rest,
                                 !.held = IF hold THEN rest ELSE <<>>]
    IN  /\ step = "body"
        /\ reading.pending # <<>>
        /\ hold => rest # <<>>
        /\ IF Len(units) > Remaining(reading) THEN Refuse("size")
           ELSE IF r.sniffing /\ SniffComplete(r) /\ ~Recognised(r.sniff)
           THEN Refuse("content_type")
           ELSE /\ reading' = [r EXCEPT !.sniffing = @ /\ ~SniffComplete(r)]
                /\ UNCHANGED <<step, target, hops, decision, request, result>>

\* The end of the stream: flush, and the decision on a body shorter than the
\* window.
Finish ==
    LET units == reading.held
        sniff == reading.sniff \o Take(units, SniffWindow - Len(reading.sniff))
    IN  /\ step = "body"
        /\ reading.pending = <<>>
        /\ IF Len(units) > Remaining(reading) THEN Refuse("size")
           ELSE IF reading.sniffing /\ ~Recognised(sniff) THEN Refuse("content_type")
           ELSE Return([body |-> reading.body \o units, type |-> reading.type,
                        reason |-> "none"])

\* A decoded piece is at most MaxPiece units long.
MaxPiece == 2
Pieces == UNION {[1 .. n -> Unit] : n \in 0 .. MaxPiece}
\* The resolver's answers: none, one address or two, or something else.
Answers == {<<>>} \cup {<<a>> : a \in Address} \cup {<<a, b>> : a, b \in Address \cup {"garbled"}}
Types == {"known", "other", "media"}

\* The steps of a fetch, given whether there is a session token.
GuardStep(token) ==
    \/ \E answer \in Answers : Check(answer)
    \/ Send(token)
    \/ \E u \in Url \cup {NoUrl} : Redirected(u)
    \/ StatusRefused
    \/ Raises
    \/ \E type \in Types, oversize \in BOOLEAN : Respond(type, oversize)
    \/ \E n \in 1 .. MaxPiece, units \in Pieces : Chunk(n, units)
    \/ \E hold \in BOOLEAN : Decode(hold)
    \/ Finish
-----------------------------------------------------------------------------
Host == {u.host : u \in Url \cup {NoUrl}}

GuardTypeOK ==
    /\ step \in {"idle", "check", "send", "wait", "body", "done"}
    /\ target \in Url \cup {NoUrl}
    /\ hops \in 0 .. MaxRedirectHops
    /\ decision \in [allowed : BOOLEAN, reason : Reasons \cup {"none"},
                     address : Address \cup {NoAddress}, host : Host]
    /\ request \in [address : Address \cup {NoAddress}, host : Host, auth : BOOLEAN]
    /\ reading \in [type : Types \cup {""}, sniffing : BOOLEAN, raw : 0 .. MaxBytes,
                    sent : Seq(Unit), pending : Seq(Unit), held : Seq(Unit),
                    sniff : Seq(Unit), body : Seq(Unit)]
    /\ result \in [body : Seq(Unit) \cup {NoBody}, type : Types \cup {""},
                   reason : Reasons \cup {"none"}]

\* A request goes to an address that was checked for the very URL it asks for:
\* one that may be used, under the name that was resolved, however often the
\* chain was redirected and whatever the resolver says from hop to hop
\* (check_destination and _pinned_target in the loop of guarded_fetch).
PinnedToChecked ==
    step = "wait" =>
      /\ request.host = target.host
      /\ request.address \in Address
      /\ request.address \notin Denied \/ IsDeploymentUrl(target)

\* The session token only ever travels to the deployment: same scheme, host
\* and port as the configured endpoint, also in the middle of a chain of
\* redirects (should_attach_credentials).
CredentialsStayHome ==
    request.auth => step = "wait" /\ Origin(target) = Origin(Deployment)

\* However a body goes on that begins with the units, it is of no known format.
Unrecognisable(units) == \E i \in DOMAIN units : i <= SignatureLength /\ units[i] # "s"

\* What is delivered is the whole decoded stream and fits the limit, however
\* the stream was cut into chunks and whatever the decoder held back; and a
\* type that the header left open is decided as the complete body would have
\* decided it, also when it is refused before the body is complete
\* (_read_bounded_body, _BoundedContentDecoder).
BodyIsWhole ==
    [][step = "body" /\ step' = "done" =>
         /\ result'.reason = "none" =>
              /\ result'.body = reading.sent
              /\ Len(result'.body) <= MaxBytes
              /\ reading.type = "other" => Recognised(result'.body)
         /\ result'.reason = "content_type" =>
              /\ ~Recognised(reading.sent)
              /\ reading.pending # <<>> => Unrecognisable(reading.sent)]_guardVars
=============================================================================
