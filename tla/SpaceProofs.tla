---------------------------- MODULE SpaceProofs ----------------------------
(***************************************************************************)
(* What every fetch of a space ingestion keeps to, for any URLs, addresses *)
(* and trees: requests go where the check of the same hop allowed, the     *)
(* session token goes to the deployment only, and a body arrives whole and *)
(* within its limit, however the stream was cut.  And what a walk yields:  *)
(* all that the legible part of the tree says, once and in its place.      *)
(***************************************************************************)
EXTENDS SpaceReader, SequenceTheorems, WellFoundedInduction, TLAPS

\* Where a request for u may go.
Permitted(u, a) == a \in Address /\ (a \notin Denied \/ IsDeploymentUrl(u))

\* The inductive invariant: between the check and the request the decision is
\* the one for this target, and only then.
HopInv ==
    /\ step = "send" => decision.host = target.host /\ Permitted(target, decision.address)
    /\ step = "wait" => request.host = target.host /\ Permitted(target, request.address)
    /\ request.auth => step = "wait" /\ IsDeploymentUrl(target)
    /\ request.auth \in BOOLEAN

\* A destination that check_destination allows is permitted, and the decision
\* is about its host: literal addresses, resolved ones and the deployment.
LEMMA AllowedIsPermitted ==
  ASSUME NEW u, NEW answer \in Answers, CheckDestination(u, answer).allowed
  PROVE  /\ CheckDestination(u, answer).host = u.host
         /\ Permitted(u, CheckDestination(u, answer).address)
<1> DEFINE bad == Unusable(u, answer)
<1>1. CASE u.host = "malformed"
  <2>1. CheckDestination(u, answer) = Refused(u, "destination")
    BY <1>1 DEF CheckDestination
  <2> QED BY <2>1 DEF Refused
<1>2. CASE u.host # "malformed" /\ u.scheme \notin AllowedSchemes
  <2>1. CheckDestination(u, answer) = Refused(u, "scheme")
    BY <1>2 DEF CheckDestination
  <2> QED BY <2>1 DEF Refused
<1>3. CASE u.host # "malformed" /\ u.scheme \in AllowedSchemes /\ u.host = ""
  <2>1. CheckDestination(u, answer).allowed = FALSE
    BY <1>3 DEF CheckDestination, Refused
  <2> QED BY <2>1
<1>4. CASE /\ u.host \notin {"malformed", ""} /\ u.scheme \in AllowedSchemes
           /\ u.host \in DOMAIN Literal
  <2>1. CheckDestination(u, answer)
          = IF Literal[u.host] \in Denied /\ ~IsDeploymentUrl(u)
            THEN Refused(u, "destination") ELSE Allowed(u, Literal[u.host])
    BY <1>4 DEF CheckDestination
  <2>2. Literal[u.host] \in Address
    BY <1>4, UrlAssumption
  <2> QED BY <2>1, <2>2 DEF Refused, Allowed, Permitted
<1>5. CASE /\ u.host \notin {"malformed", ""} /\ u.scheme \in AllowedSchemes
           /\ u.host \notin DOMAIN Literal
  <2> DEFINE first == CHOOSE i \in bad : \A j \in bad : i <= j
  <2>1. CheckDestination(u, answer)
          = IF answer = <<>> THEN Refused(u, "resolution")
            ELSE IF bad = {} THEN Allowed(u, answer[1])
            ELSE Refused(u, IF answer[first] \in Address THEN "destination" ELSE "resolution")
    BY <1>5 DEF CheckDestination
  <2>2. answer # <<>> /\ bad = {}
    BY <2>1 DEF Refused
  <2>3. 1 \in DOMAIN answer
    BY <2>2 DEF Answers
  <2>4. Permitted(u, answer[1])
    BY <2>2, <2>3 DEF Unusable, Permitted
  <2> QED BY <2>1, <2>2, <2>4 DEF Allowed
<1> QED BY <1>1, <1>2, <1>3, <1>4, <1>5

\* Where a fetch ends nothing of its hops is left.
LEMMA ReturnKeepsHopInv ==
  ASSUME NEW r, Return(r)
  PROVE  HopInv'
BY DEF Return, HopInv, NoRequest

LEMMA RefuseKeepsHopInv ==
  ASSUME NEW reason, Refuse(reason)
  PROVE  HopInv'
BY ReturnKeepsHopInv DEF Refuse

\* Every step of guarded_fetch keeps the invariant.
LEMMA GuardStepKeepsHopInv ==
  ASSUME HopInv, NEW t \in BOOLEAN, GuardStep(t)
  PROVE  HopInv'
<1>1. ASSUME NEW answer \in Answers, Check(answer)
      PROVE  HopInv'
  <2> DEFINE d == CheckDestination(target, answer)
  <2>1. CASE d.allowed
    <3>1. d.host = target.host /\ Permitted(target, d.address)
      BY <2>1, AllowedIsPermitted
    <3>2. step' = "send" /\ decision' = d /\ target' = target /\ request' = request
      BY <1>1, <2>1 DEF Check
    <3>3. ~request.auth
      BY <1>1 DEF HopInv, Check
    <3> HIDE DEF d
    <3> QED BY <3>1, <3>2, <3>3 DEF HopInv, Permitted, IsDeploymentUrl
  <2>2. CASE ~d.allowed
    BY <1>1, <2>2, RefuseKeepsHopInv DEF Check
  <2> QED BY <2>1, <2>2
<1>2. CASE Send(t)
  <2>1. /\ step = "send" /\ step' = "wait" /\ target' = target
        /\ request' = [address |-> decision.address, host |-> decision.host,
                       auth |-> t /\ IsDeploymentUrl(target)]
    BY <1>2 DEF Send, ShouldAttachCredentials
  <2>2. decision.host = target.host /\ Permitted(target, decision.address)
    BY <2>1 DEF HopInv
  <2>3. (t /\ IsDeploymentUrl(target)) \in BOOLEAN
    BY DEF IsDeploymentUrl
  <2> QED BY <2>1, <2>2, <2>3 DEF HopInv, Permitted, IsDeploymentUrl
<1>3. ASSUME NEW u \in Url \cup {NoUrl}, Redirected(u)
      PROVE  HopInv'
  <2>1. CASE ~IsRedirectTarget(u) \/ u \notin RedirectPolicy
    BY <1>3, <2>1, RefuseKeepsHopInv DEF Redirected
  <2>2. CASE ~(~IsRedirectTarget(u) \/ u \notin RedirectPolicy) /\ HopsUsedUp
    BY <1>3, <2>2, RefuseKeepsHopInv DEF Redirected
  <2>3. CASE ~(~IsRedirectTarget(u) \/ u \notin RedirectPolicy) /\ ~HopsUsedUp
    <3>1. step' = "check" /\ request' = NoRequest
      BY <1>3, <2>3 DEF Redirected
    <3> QED BY <3>1 DEF HopInv, NoRequest
  <2> QED BY <2>1, <2>2, <2>3
<1>4. CASE StatusRefused
  BY <1>4, RefuseKeepsHopInv DEF StatusRefused
<1>5. CASE Raises
  BY <1>5, RefuseKeepsHopInv DEF Raises
<1>6. ASSUME NEW type \in Types, NEW oversize \in BOOLEAN, Respond(type, oversize)
      PROVE  HopInv'
  <2>1. CASE oversize \/ type = "media"
    BY <1>6, <2>1, RefuseKeepsHopInv DEF Respond
  <2>2. CASE ~(oversize \/ type = "media")
    <3>1. step' = "body" /\ request' = NoRequest
      BY <1>6, <2>2 DEF Respond
    <3> QED BY <3>1 DEF HopInv, NoRequest
  <2> QED BY <2>1, <2>2
<1>7. ASSUME step = "body", UNCHANGED <<step, target, hops, decision, request, result>>
      PROVE  HopInv'
  BY <1>7 DEF HopInv
<1>8. ASSUME NEW n \in 1 .. MaxPiece, NEW units \in Pieces, Chunk(n, units)
      PROVE  HopInv'
  BY <1>7, <1>8, RefuseKeepsHopInv DEF Chunk
<1>9. ASSUME NEW hold \in BOOLEAN, Decode(hold)
      PROVE  HopInv'
  BY <1>7, <1>9, RefuseKeepsHopInv DEF Decode
<1>10. CASE Finish
  BY <1>10, RefuseKeepsHopInv, ReturnKeepsHopInv DEF Finish
<1> QED BY <1>1, <1>2, <1>3, <1>4, <1>5, <1>6, <1>8, <1>9, <1>10 DEF GuardStep

\* The token's presence is a Boolean and the fetches keep HopInv throughout an
\* ingestion.
SpaceInv == token \in BOOLEAN /\ HopInv

LEMMA SpaceInvInit == Init => SpaceInv
<1> SUFFICES ASSUME Init PROVE SpaceInv
  OBVIOUS
<1>1. token \in BOOLEAN /\ step = "idle" /\ request = NoRequest
  BY DEF Init, GuardInit
<1>2. request.auth = FALSE
  BY <1>1 DEF NoRequest
<1> QED BY <1>1, <1>2 DEF SpaceInv, HopInv

LEMMA SpaceInvStep == SpaceInv /\ [Next]_vars => SpaceInv'
<1> SUFFICES ASSUME SpaceInv, [Next]_vars PROVE SpaceInv'
  OBVIOUS
<1> USE DEF SpaceInv
<1>1. ASSUME UNCHANGED guardVars PROVE HopInv'
  BY <1>1 DEF HopInv, guardVars
<1>2. CASE Authenticate
  BY <1>1, <1>2, Zenon DEF Authenticate
<1>3. CASE TreeArrives \/ QueryAttemptFails \/ ReadingEnds
  BY <1>1, <1>3 DEF TreeArrives, QueryAttemptFails, ReadingEnds
<1>4. CASE ProcessSpace \/ ProcessCallout \/ ProcessText \/ ProcessPlainLink
  BY <1>1, <1>4, Zenon DEF ProcessSpace, ProcessCallout, ProcessText, ProcessPlainLink
<1>5. CASE FetchLink
  <2>1. step = "idle" /\ step' = "check" /\ request' = request /\ token' = token
    BY <1>5 DEF FetchLink, Fetch
  <2> QED BY <2>1 DEF HopInv
<1>6. CASE Fetching
  BY <1>6, GuardStepKeepsHopInv DEF Fetching, readerVars
<1>7. CASE LinkFetched
  <2>1. step = "done" /\ step' = "idle" /\ request' = request /\ token' = token
    BY <1>7 DEF LinkFetched
  <2> QED BY <2>1 DEF HopInv
<1>8. CASE UNCHANGED vars
  BY <1>1, <1>8 DEF vars, readerVars
<1> QED BY <1>2, <1>3, <1>4, <1>5, <1>6, <1>7, <1>8 DEF Next, Working, Handed

LEMMA SpaceInvariant == Spec => []SpaceInv
<1>1. SpaceInv /\ [Next]_vars => SpaceInv'
  BY SpaceInvStep
<1> QED BY <1>1, SpaceInvInit, PTL DEF Spec

\* Every request of every fetch goes to an address that was checked for the URL
\* it asks for in the same hop, for any chain of redirects and any resolver.
THEOREM RequestsArePinned == Spec => []PinnedToChecked
<1>1. SpaceInv => PinnedToChecked
  BY DEF SpaceInv, HopInv, PinnedToChecked, Permitted
<1> QED BY <1>1, SpaceInvariant, PTL

\* The session token only travels to the origin of the deployment.
THEOREM TokenStaysHome == Spec => []CredentialsStayHome
<1>1. SpaceInv => CredentialsStayHome
  BY DEF SpaceInv, HopInv, CredentialsStayHome, IsDeploymentUrl
<1> QED BY <1>1, SpaceInvariant, PTL
-----------------------------------------------------------------------------
(* Bodies: what was sent is what is delivered.                             *)

Reading == [type : Types \cup {""}, sniffing : BOOLEAN, raw : 0 .. MaxBytes,
            sent : Seq(Unit), pending : Seq(Unit), held : Seq(Unit),
            sniff : Seq(Unit), body : Seq(Unit)]

\* What holds of a body r that is being read: what was sent is what is kept,
\* held back and still to be decoded, in this order; while its type is open the
\* sniffing buffer has all that is kept, and afterwards it is decided.
ReadInv(r) ==
    /\ r \in Reading
    /\ r.sent = r.body \o (r.held \o r.pending)
    /\ r.pending = <<>> \/ r.held = <<>>
    /\ Len(r.body) <= MaxBytes
    /\ r.sniffing => r.type = "other" /\ r.sniff = r.body /\ Len(r.body) < SniffWindow
    /\ r.type = "other" /\ ~r.sniffing => Recognised(r.body)

\* The sniffing buffer after more units.
Sniffed(sniff, units) == sniff \o Take(units, SniffWindow - Len(sniff))

BodyInv == reading \in Reading /\ (step = "body" => ReadInv(reading))

LEMMA TakeIsPrefix ==
  ASSUME NEW s \in Seq(Unit), NEW n \in Nat
  PROVE  /\ Take(s, n) \in Seq(Unit)
         /\ Len(Take(s, n)) = IF n < Len(s) THEN n ELSE Len(s)
         /\ \A i \in 1 .. Len(Take(s, n)) : Take(s, n)[i] = s[i]
BY DEF Take

\* What is taken and what is dropped make up the whole.
LEMMA TakeAndDrop ==
  ASSUME NEW s \in Seq(Unit), NEW n \in Nat
  PROVE  Drop(s, n) \in Seq(Unit) /\ Take(s, n) \o Drop(s, n) = s
<1>1. CASE n < Len(s)
  <2>1. Take(s, n) = SubSeq(s, 1, n) /\ Drop(s, n) = SubSeq(s, n + 1, Len(s))
    BY <1>1 DEF Take, Drop
  <2>2. SubSeq(s, 1, n) \o SubSeq(s, n + 1, Len(s)) = s
    <3>1. 1 \in 1 .. Len(s) + 1 /\ n \in 1 - 1 .. Len(s) /\ Len(s) \in n .. Len(s)
      BY <1>1
    <3>2. SubSeq(s, 1, n) \o SubSeq(s, n + 1, Len(s)) = SubSeq(s, 1, Len(s))
      BY <3>1, ConcatAdjacentSubSeq, Zenon
    <3>3. SubSeq(s, 1, Len(s)) = s
      BY SubSeqFull
    <3> QED BY <3>2, <3>3, Zenon
  <2>3. SubSeq(s, n + 1, Len(s)) \in Seq(Unit)
    BY <1>1
  <2> QED BY <2>1, <2>2, <2>3, Zenon
<1>2. CASE ~(n < Len(s))
  <2>1. Drop(s, n) = <<>>
    BY <1>2 DEF Drop
  <2>2. Take(s, n) = s
    BY <1>2 DEF Take
  <2> QED BY <2>1, <2>2
<1> QED BY <1>1, <1>2

LEMMA Joined ==
  ASSUME NEW s \in Seq(Unit), NEW t \in Seq(Unit)
  PROVE  /\ s \o t \in Seq(Unit)
         /\ Len(s \o t) = Len(s) + Len(t)
         /\ \A i \in 1 .. Len(s) : (s \o t)[i] = s[i]
         /\ s \o <<>> = s /\ <<>> \o s = s
OBVIOUS

LEMMA JoinsAssociate ==
  ASSUME NEW s \in Seq(Unit), NEW t \in Seq(Unit), NEW u \in Seq(Unit)
  PROVE  (s \o t) \o u = s \o (t \o u)
OBVIOUS

\* A body that begins with a signature is of the format, whatever follows.
LEMMA RecognisedStays ==
  ASSUME NEW s \in Seq(Unit), NEW t \in Seq(Unit), Recognised(s)
  PROVE  Recognised(s \o t)
<1>1. Len(s) \in Nat /\ Len(t) \in Nat /\ SignatureLength \in Nat
  BY BoundAssumption
<1>2. Len(s \o t) = Len(s) + Len(t) /\ \A i \in 1 .. Len(s) : (s \o t)[i] = s[i]
  BY Joined
<1>3. Len(s) >= SignatureLength /\ \A i \in 1 .. SignatureLength : s[i] = "s"
  BY DEF Recognised
<1> QED BY <1>1, <1>2, <1>3 DEF Recognised

\* The window is wide enough for a signature: as far as the format goes the
\* beginning of a body of that length decides like the body.
LEMMA WindowDecides ==
  ASSUME NEW s \in Seq(Unit), NEW t \in Seq(Unit), Len(s) >= SniffWindow, ~Recognised(s)
  PROVE  Unrecognisable(s \o t) /\ ~Recognised(s \o t)
<1>1. /\ Len(s) \in Nat /\ Len(t) \in Nat /\ SniffWindow \in Nat
      /\ SignatureLength \in Nat /\ SignatureLength <= SniffWindow
  BY BoundAssumption
<1>2. Len(s \o t) = Len(s) + Len(t) /\ \A i \in 1 .. Len(s) : (s \o t)[i] = s[i]
  BY Joined
<1>3. PICK i \in 1 .. SignatureLength : s[i] # "s"
  BY <1>1 DEF Recognised
<1>4. i \in 1 .. Len(s) /\ (s \o t)[i] # "s"
  BY <1>1, <1>2, <1>3
<1>5. DOMAIN (s \o t) = 1 .. Len(s \o t)
  BY Joined
<1>6. i \in DOMAIN (s \o t) /\ i <= SignatureLength
  BY <1>1, <1>2, <1>3, <1>4, <1>5
<1> QED BY <1>3, <1>4, <1>6 DEF Recognised, Unrecognisable

\* The limit of decode is positive while a body is read.
LEMMA LimitType ==
  ASSUME NEW r, ReadInv(r)
  PROVE  DecodeLimit(r) \in Nat /\ Remaining(r) \in Nat /\ Remaining(r) = MaxBytes - Len(r.body)
<1>1. r.body \in Seq(Unit) /\ r.sniff \in Seq(Unit) /\ Len(r.body) <= MaxBytes
  BY DEF ReadInv, Reading
<1>2. Len(r.body) \in Nat /\ Len(r.sniff) \in Nat /\ MaxBytes \in Nat /\ SniffWindow \in Nat
  BY <1>1, BoundAssumption
<1>3. r.sniffing => SniffWindow - Len(r.sniff) \in Nat
  BY <1>2 DEF ReadInv
<1>4. Remaining(r) \in Nat /\ Remaining(r) = MaxBytes - Len(r.body)
  BY <1>1, <1>2 DEF Remaining
<1> QED BY <1>3, <1>4 DEF DecodeLimit, Least

\* A chunk comes behind what the decoder held back.
LEMMA ChunkKeepsReadInv ==
  ASSUME NEW r, ReadInv(r), r.pending = <<>>, NEW n \in Nat, NEW units \in Seq(Unit),
         r.raw + n <= MaxBytes
  PROVE  ReadInv([r EXCEPT !.raw = @ + n, !.sent = @ \o units,
                           !.pending = r.held \o units, !.held = <<>>])
<1> DEFINE q == [r EXCEPT !.raw = @ + n, !.sent = @ \o units,
                          !.pending = r.held \o units, !.held = <<>>]
<1>1. r \in Reading
  BY DEF ReadInv
<1>2. /\ r.raw \in 0 .. MaxBytes /\ r.sent \in Seq(Unit) /\ r.held \in Seq(Unit)
      /\ r.body \in Seq(Unit) /\ MaxBytes \in Nat
  BY <1>1, BoundAssumption DEF Reading
<1>3. /\ q.raw = r.raw + n /\ q.sent = r.sent \o units /\ q.pending = r.held \o units
      /\ q.held = <<>> /\ q.body = r.body /\ q.sniff = r.sniff /\ q.type = r.type
      /\ q.sniffing = r.sniffing
  BY <1>1 DEF Reading
<1>4. r.raw + n \in 0 .. MaxBytes
  BY <1>2
<1>5. r.sent \o units \in Seq(Unit) /\ r.held \o units \in Seq(Unit) /\ <<>> \in Seq(Unit)
  BY <1>2, Joined
<1>6. q \in Reading
  BY <1>1, <1>4, <1>5 DEF Reading
<1>7. q.sent = q.body \o (q.held \o q.pending)
  <2>1. r.sent = r.body \o r.held
    BY <1>2, Joined DEF ReadInv
  <2>2. (r.body \o r.held) \o units = r.body \o (r.held \o units)
    BY <1>2, JoinsAssociate
  <2>3. <<>> \o (r.held \o units) = r.held \o units
    BY <1>5, Joined
  <2> QED BY <1>3, <2>1, <2>2, <2>3
<1> HIDE DEF q
<1>8. ReadInv(q)
  BY <1>3, <1>6, <1>7 DEF ReadInv
<1> QED BY <1>8 DEF q

\* While the type is open, the sniffing buffer goes along with the body up to
\* the window.
LEMMA SniffFollows ==
  ASSUME NEW body \in Seq(Unit), NEW units \in Seq(Unit), Len(body) < SniffWindow
  PROVE  /\ Sniffed(body, units) \in Seq(Unit)
         /\ \E tail \in Seq(Unit) : body \o units = Sniffed(body, units) \o tail
         /\ Len(Sniffed(body, units)) < SniffWindow => Sniffed(body, units) = body \o units
<1>1. Len(body) \in Nat /\ Len(units) \in Nat /\ SniffWindow \in Nat
  BY BoundAssumption
<1>2. PICK m \in Nat : m = SniffWindow - Len(body)
  BY <1>1
<1>3. Sniffed(body, units) = body \o Take(units, m)
  BY <1>2 DEF Sniffed
<1>4. /\ Take(units, m) \in Seq(Unit) /\ Drop(units, m) \in Seq(Unit)
      /\ units = Take(units, m) \o Drop(units, m)
      /\ Len(Take(units, m)) = IF m < Len(units) THEN m ELSE Len(units)
  BY <1>2, TakeIsPrefix, TakeAndDrop
<1>5. body \o units = Sniffed(body, units) \o Drop(units, m)
  <2>1. (body \o Take(units, m)) \o Drop(units, m) = body \o (Take(units, m) \o Drop(units, m))
    BY <1>4, JoinsAssociate
  <2>2. body \o (Take(units, m) \o Drop(units, m)) = body \o units
    BY <1>4, Zenon
  <2> QED BY <1>3, <2>1, <2>2, Zenon
<1>6. /\ Sniffed(body, units) \in Seq(Unit)
      /\ Len(Sniffed(body, units)) = Len(body) + Len(Take(units, m))
  BY <1>3, <1>4, Joined
<1>7. ASSUME Len(Sniffed(body, units)) < SniffWindow PROVE Sniffed(body, units) = body \o units
  <2>1. ~(m < Len(units))
    BY <1>1, <1>2, <1>4, <1>6, <1>7
  <2>2. Take(units, m) = units
    BY <1>1, <1>2, <2>1 DEF Take
  <2> QED BY <1>3, <2>2
<1> QED BY <1>4, <1>5, <1>6, <1>7

LEMMA DecodeSplits ==
  ASSUME NEW r, ReadInv(r), r.pending # <<>>, NEW units \in Seq(Unit), NEW rest \in Seq(Unit),
         r.pending = units \o rest
  PROVE  r.sent = (r.body \o units) \o rest
<1>1. r.body \in Seq(Unit) /\ r.pending \in Seq(Unit)
  BY DEF ReadInv, Reading
<1>2. r.sent = r.body \o (<<>> \o r.pending)
  BY DEF ReadInv
<1>3. <<>> \o r.pending = units \o rest
  BY <1>1, Joined
<1>4. (r.body \o units) \o rest = r.body \o (units \o rest)
  BY <1>1, JoinsAssociate
<1> QED BY <1>2, <1>3, <1>4, Zenon

\* One call of decode on r that neither exceeds the limit nor settles against
\* the type leads to a p that is as sound.
LEMMA DecodeKeepsReadInv ==
  ASSUME NEW r, ReadInv(r), NEW units \in Seq(Unit), Len(units) <= Remaining(r),
         NEW sniff \in Seq(Unit), r.sniffing => sniff = Sniffed(r.body, units),
         r.sniffing /\ Len(sniff) >= SniffWindow => Recognised(sniff),
         NEW p \in Reading, p.body = r.body \o units, p.type = r.type, p.sniff = sniff,
         p.sent = p.body \o (p.held \o p.pending), p.pending = <<>> \/ p.held = <<>>,
         p.sniffing = (r.sniffing /\ ~(Len(sniff) >= SniffWindow))
  PROVE  ReadInv(p)
<1>1. r \in Reading
  BY DEF ReadInv
<1>2. r.body \in Seq(Unit)
  BY <1>1 DEF Reading
<1>3. Len(r.body) \in Nat /\ Len(units) \in Nat /\ Len(sniff) \in Nat /\ SniffWindow \in Nat
  BY <1>2, BoundAssumption
<1>4. Len(p.body) <= MaxBytes
  <2>1. Len(p.body) = Len(r.body) + Len(units)
    BY <1>2, Joined
  <2>2. Len(units) <= MaxBytes - Len(r.body) /\ MaxBytes \in Nat
    BY BoundAssumption DEF Remaining
  <2> QED BY <1>3, <2>1, <2>2
<1>5. ASSUME r.sniffing
      PROVE  /\ r.type = "other"
             /\ \E tail \in Seq(Unit) : r.body \o units = sniff \o tail
             /\ Len(sniff) < SniffWindow => sniff = r.body \o units
  <2>1. r.type = "other" /\ Len(r.body) < SniffWindow
    BY <1>5 DEF ReadInv
  <2>2. sniff = Sniffed(r.body, units)
    BY <1>5
  <2>3. /\ \E tail \in Seq(Unit) : r.body \o units = Sniffed(r.body, units) \o tail
        /\ Len(Sniffed(r.body, units)) < SniffWindow => Sniffed(r.body, units) = r.body \o units
    BY <1>2, <2>1, SniffFollows
  <2> QED BY <2>1, <2>2, <2>3
<1>6. ASSUME p.sniffing
      PROVE  p.type = "other" /\ p.sniff = p.body /\ Len(p.body) < SniffWindow
  <2>1. r.sniffing /\ Len(sniff) < SniffWindow
    <3>1. r.sniffing /\ ~(Len(sniff) >= SniffWindow)
      BY <1>6, Zenon
    <3> QED BY <1>3, <3>1
  <2> QED BY <1>5, <2>1
<1>7. ASSUME p.type = "other", ~p.sniffing PROVE Recognised(p.body)
  <2>1. CASE r.sniffing
    <3>1. Recognised(sniff)
      BY <1>7, <2>1
    <3>2. PICK tail \in Seq(Unit) : r.body \o units = sniff \o tail
      BY <1>5, <2>1
    <3> QED BY <3>1, <3>2, RecognisedStays
  <2>2. CASE ~r.sniffing
    <3>1. Recognised(r.body)
      BY <1>7, <2>2 DEF ReadInv
    <3> QED BY <1>2, <3>1, RecognisedStays
  <2> QED BY <2>1, <2>2
<1> QED BY <1>4, <1>6, <1>7 DEF ReadInv

\* A body in sight of its end: what Finish returns is the stream, and a type that
\* is still open is decided on its beginning.
LEMMA FinishDelivers ==
  ASSUME NEW r, ReadInv(r), r.pending = <<>>
  PROVE  /\ r.sent = r.body \o r.held
         /\ ~(Len(r.held) > Remaining(r)) => Len(r.sent) <= MaxBytes
         /\ r.sniffing => (Recognised(Sniffed(r.sniff, r.held)) <=> Recognised(r.sent))
         /\ r.type = "other" /\ ~r.sniffing => Recognised(r.sent)
<1>1. r \in Reading
  BY DEF ReadInv
<1>2. r.body \in Seq(Unit) /\ r.held \in Seq(Unit)
  BY <1>1 DEF Reading
<1>3. r.sent = r.body \o r.held
  <2>1. r.held \o r.pending = r.held
    BY <1>2, Joined
  <2> QED BY <2>1 DEF ReadInv
<1>4. ASSUME ~(Len(r.held) > Remaining(r)) PROVE Len(r.sent) <= MaxBytes
  <2>1. Len(r.sent) = Len(r.body) + Len(r.held) /\ Len(r.body) \in Nat /\ Len(r.held) \in Nat
    BY <1>2, <1>3, Joined
  <2>2. PICK m \in Nat, k \in Nat : m = Len(r.body) /\ k = Len(r.held)
    BY <2>1
  <2>3. ~(k > MaxBytes - m) /\ MaxBytes \in Nat
    BY <1>4, <2>2, BoundAssumption DEF Remaining
  <2>4. m + k <= MaxBytes
    BY <2>3
  <2> QED BY <2>1, <2>2, <2>4
<1>5. ASSUME r.sniffing PROVE Recognised(Sniffed(r.sniff, r.held)) <=> Recognised(r.sent)
  <2>1. r.sniff = r.body /\ Len(r.body) < SniffWindow
    BY <1>5 DEF ReadInv
  <2>2. PICK sniff : sniff = Sniffed(r.body, r.held)
    OBVIOUS
  <2>3. /\ sniff \in Seq(Unit)
        /\ \E tail \in Seq(Unit) : r.body \o r.held = sniff \o tail
        /\ Len(sniff) < SniffWindow => sniff = r.body \o r.held
    BY <1>2, <2>1, <2>2, SniffFollows
  <2>4. PICK tail \in Seq(Unit) : r.sent = sniff \o tail
    BY <1>3, <2>3
  <2>5. CASE Recognised(sniff)
    <3>1. Recognised(r.sent)
      BY <2>3, <2>4, <2>5, RecognisedStays
    <3> QED BY <2>1, <2>2, <2>5, <3>1, Zenon
  <2>6. CASE ~Recognised(sniff) /\ Len(sniff) < SniffWindow
    BY <1>3, <2>1, <2>2, <2>3, <2>6
  <2>7. CASE ~Recognised(sniff) /\ Len(sniff) >= SniffWindow
    <3>1. ~Recognised(r.sent)
      BY <2>3, <2>4, <2>7, WindowDecides
    <3> QED BY <2>1, <2>2, <2>7, <3>1, Zenon
  <2>8. Len(sniff) < SniffWindow \/ Len(sniff) >= SniffWindow
    <3>1. Len(sniff) \in Nat /\ SniffWindow \in Nat
      BY <2>3, BoundAssumption
    <3> QED BY <3>1
  <2> QED BY <2>5, <2>6, <2>7, <2>8, Zenon
<1>6. ASSUME r.type = "other", ~r.sniffing PROVE Recognised(r.sent)
  <2>1. Recognised(r.body)
    BY <1>6 DEF ReadInv
  <2> QED BY <1>2, <1>3, <2>1, RecognisedStays
<1> QED BY <1>3, <1>4, <1>5, <1>6

LEMMA ReturnKeepsBodyInv ==
  ASSUME NEW r, Return(r) PROVE BodyInv'
<1>1. step' = "done" /\ reading' = NoReading
  BY DEF Return
<1>2. NoReading \in Reading
  BY BoundAssumption DEF NoReading, Reading, Types
<1> QED BY <1>1, <1>2 DEF BodyInv

\* What BodyIsWhole says of a step.
Whole ==
    step = "body" /\ step' = "done" =>
         /\ result'.reason = "none" =>
              /\ result'.body = reading.sent
              /\ Len(result'.body) <= MaxBytes
              /\ reading.type = "other" => Recognised(result'.body)
         /\ result'.reason = "content_type" =>
              /\ ~Recognised(reading.sent)
              /\ reading.pending # <<>> => Unrecognisable(reading.sent)

LEMMA RefuseIsWhole ==
  ASSUME NEW reason, reason \notin {"none", "content_type"}, Refuse(reason)
  PROVE  Whole /\ BodyInv'
<1>1. result'.reason = reason
  BY DEF Refuse, Return
<1>2. BodyInv'
  BY ReturnKeepsBodyInv DEF Refuse
<1> QED BY <1>1, <1>2 DEF Whole

LEMMA ChunkIsWhole ==
  ASSUME BodyInv, NEW n \in 1 .. MaxPiece, NEW units \in Pieces, Chunk(n, units)
  PROVE  Whole /\ BodyInv'
<1>1. step = "body" /\ ReadInv(reading) /\ reading.pending = <<>>
  BY DEF BodyInv, Chunk
<1>2. CASE reading.raw + n > MaxBytes
  BY <1>2, RefuseIsWhole DEF Chunk
<1>3. CASE ~(reading.raw + n > MaxBytes)
  <2>1. n \in Nat /\ units \in Seq(Unit)
    <3>1. n \in Nat
      BY DEF MaxPiece
    <3>2. PICK m \in 0 .. 2 : units \in [1 .. m -> Unit]
      BY DEF Pieces, MaxPiece
    <3> QED BY <3>1, <3>2
  <2>2. reading.raw + n <= MaxBytes
    <3>1. reading.raw \in Nat /\ MaxBytes \in Nat
      <4>1. reading \in Reading
        BY <1>1 DEF ReadInv
      <4>2. reading.raw \in 0 .. MaxBytes
        BY <4>1 DEF Reading
      <4> QED BY <4>2, BoundAssumption
    <3> QED BY <1>3, <2>1, <3>1
  <2>3. /\ reading' = [reading EXCEPT !.raw = @ + n, !.sent = @ \o units,
                                      !.pending = reading.held \o units, !.held = <<>>]
        /\ step' = step
    BY <1>3 DEF Chunk
  <2>4. ReadInv(reading')
    BY <1>1, <2>1, <2>2, <2>3, ChunkKeepsReadInv
  <2> QED BY <1>1, <2>3, <2>4 DEF BodyInv, Whole, ReadInv
<1> QED BY <1>2, <1>3

LEMMA FinishIsWhole ==
  ASSUME BodyInv, Finish
  PROVE  Whole /\ BodyInv'
<1> DEFINE sniff == Sniffed(reading.sniff, reading.held)
<1>1. step = "body" /\ ReadInv(reading) /\ reading.pending = <<>>
  BY DEF BodyInv, Finish
<1>2. /\ reading.sent = reading.body \o reading.held
      /\ ~(Len(reading.held) > Remaining(reading)) => Len(reading.sent) <= MaxBytes
      /\ reading.sniffing => (Recognised(sniff) <=> Recognised(reading.sent))
      /\ reading.type = "other" /\ ~reading.sniffing => Recognised(reading.sent)
  BY <1>1, FinishDelivers
<1>3. CASE Len(reading.held) > Remaining(reading)
  BY <1>3, RefuseIsWhole DEF Finish
<1>4. CASE ~(Len(reading.held) > Remaining(reading)) /\ reading.sniffing /\ ~Recognised(sniff)
  <2>1. Refuse("content_type")
    BY <1>4 DEF Finish, Sniffed
  <2>2. result'.reason = "content_type"
    BY <2>1 DEF Refuse, Return
  <2>3. BodyInv'
    BY <2>1, ReturnKeepsBodyInv DEF Refuse
  <2>4. ~Recognised(reading.sent)
    BY <1>2, <1>4
  <2> QED BY <1>1, <2>2, <2>3, <2>4 DEF Whole
<1>5. CASE ~(Len(reading.held) > Remaining(reading)) /\ ~(reading.sniffing /\ ~Recognised(sniff))
  <2>1. Return([body |-> reading.body \o reading.held, type |-> reading.type, reason |-> "none"])
    BY <1>5 DEF Finish, Sniffed
  <2>2. result'.reason = "none" /\ result'.body = reading.sent
    BY <1>2, <2>1 DEF Return
  <2>3. BodyInv'
    BY <2>1, ReturnKeepsBodyInv
  <2>4. Len(reading.sent) <= MaxBytes
    BY <1>2, <1>5
  <2>5. reading.type = "other" => Recognised(reading.sent)
    BY <1>2, <1>5
  <2> QED BY <2>2, <2>3, <2>4, <2>5 DEF Whole
<1> QED BY <1>3, <1>4, <1>5

LEMMA DecodeIsWhole ==
  ASSUME BodyInv, NEW hold \in BOOLEAN, Decode(hold)
  PROVE  Whole /\ BodyInv'
<1>1. step = "body" /\ ReadInv(reading) /\ reading.pending # <<>> /\ reading \in Reading
  BY DEF BodyInv, Decode
<1> DEFINE units == Take(reading.pending, DecodeLimit(reading))
           rest == Drop(reading.pending, DecodeLimit(reading))
           sniff == IF reading.sniffing THEN Sniffed(reading.sniff, units) ELSE reading.sniff
           q == [reading EXCEPT !.body = @ \o units, !.sniff = sniff,
                                !.pending = IF hold THEN <<>> ELSE rest,
                                !.held = IF hold THEN rest ELSE <<>>]
<1>2. /\ IF Len(units) > Remaining(reading) THEN Refuse("size")
         ELSE IF q.sniffing /\ SniffComplete(q) /\ ~Recognised(q.sniff)
         THEN Refuse("content_type")
         ELSE /\ reading' = [q EXCEPT !.sniffing = @ /\ ~SniffComplete(q)]
              /\ UNCHANGED <<step, target, hops, decision, request, result>>
  BY Zenon DEF Decode, Sniffed
<1>3. units = Take(reading.pending, DecodeLimit(reading)) /\ rest = Drop(reading.pending, DecodeLimit(reading))
  OBVIOUS
<1>4. sniff = IF reading.sniffing THEN Sniffed(reading.sniff, units) ELSE reading.sniff
  OBVIOUS
<1>5. q = [reading EXCEPT !.body = @ \o units, !.sniff = sniff,
                          !.pending = IF hold THEN <<>> ELSE rest,
                          !.held = IF hold THEN rest ELSE <<>>]
  OBVIOUS
<1> HIDE DEF units, rest, sniff, q
<1>6. /\ reading.pending \in Seq(Unit) /\ reading.body \in Seq(Unit) /\ reading.sniff \in Seq(Unit)
      /\ reading.sniffing \in BOOLEAN
  BY <1>1 DEF Reading
<1>7. DecodeLimit(reading) \in Nat
  BY <1>1, LimitType
<1>8. units \in Seq(Unit) /\ rest \in Seq(Unit) /\ reading.pending = units \o rest
  BY <1>3, <1>6, <1>7, TakeIsPrefix, TakeAndDrop
<1>9. reading.sent = (reading.body \o units) \o rest
  BY <1>1, <1>8, DecodeSplits
<1>10. /\ sniff \in Seq(Unit)
       /\ reading.sniffing => /\ reading.type = "other" /\ sniff = Sniffed(reading.body, units)
                              /\ \E tail \in Seq(Unit) : reading.body \o units = sniff \o tail
  <2>1. CASE reading.sniffing
    <3>1. reading.sniff = reading.body /\ Len(reading.body) < SniffWindow /\ reading.type = "other"
      BY <1>1, <2>1 DEF ReadInv
    <3>2. sniff = Sniffed(reading.body, units)
      BY <1>4, <2>1, <3>1
    <3>3. /\ Sniffed(reading.body, units) \in Seq(Unit)
          /\ \E tail \in Seq(Unit) : reading.body \o units = Sniffed(reading.body, units) \o tail
      BY <1>6, <1>8, <3>1, SniffFollows, Zenon
    <3> QED BY <3>1, <3>2, <3>3, Zenon
  <2>2. CASE ~reading.sniffing
    BY <1>4, <1>6, <2>2
  <2> QED BY <2>1, <2>2
<1>11. reading.body \o units \in Seq(Unit)
  BY <1>6, <1>8, Joined
<1>12. /\ q \in Reading /\ q.body = reading.body \o units /\ q.sniff = sniff
       /\ q.sent = reading.sent /\ q.type = reading.type /\ q.sniffing = reading.sniffing
       /\ q.pending = IF hold THEN <<>> ELSE rest
       /\ q.held = IF hold THEN rest ELSE <<>>
  <2>1. PICK p : p = IF hold THEN <<>> ELSE rest
    OBVIOUS
  <2>2. PICK h : h = IF hold THEN rest ELSE <<>>
    OBVIOUS
  <2>3. p \in Seq(Unit) /\ h \in Seq(Unit)
    BY <1>8, <2>1, <2>2
  <2>4. PICK b \in Seq(Unit) : b = reading.body \o units
    BY <1>11
  <2>5. q = [reading EXCEPT !.body = b, !.sniff = sniff, !.pending = p, !.held = h]
    BY <1>5, <2>1, <2>2, <2>4
  <2>6. reading \in Reading /\ sniff \in Seq(Unit)
    BY <1>1, <1>10
  <2>7. q \in Reading
    BY <2>3, <2>5, <2>6 DEF Reading
  <2>8. /\ q.body = b /\ q.sniff = sniff /\ q.pending = p /\ q.held = h
        /\ q.sent = reading.sent /\ q.type = reading.type /\ q.sniffing = reading.sniffing
    BY <2>5, <2>6 DEF Reading
  <2> QED BY <2>1, <2>2, <2>4, <2>7, <2>8
<1>13. CASE Len(units) > Remaining(reading)
  BY <1>2, <1>13, RefuseIsWhole
<1>14. CASE /\ ~(Len(units) > Remaining(reading))
            /\ q.sniffing /\ SniffComplete(q) /\ ~Recognised(q.sniff)
  <2>1. Refuse("content_type")
    BY <1>2, <1>14
  <2>2. result'.reason = "content_type"
    BY <2>1 DEF Refuse, Return
  <2>3. BodyInv'
    BY <2>1, ReturnKeepsBodyInv DEF Refuse
  <2>4. Unrecognisable(reading.sent) /\ ~Recognised(reading.sent)
    <3>1. reading.sniffing /\ Len(sniff) >= SniffWindow /\ ~Recognised(sniff)
      BY <1>12, <1>14 DEF SniffComplete
    <3>2. PICK tail \in Seq(Unit) : reading.body \o units = sniff \o tail
      BY <1>10, <3>1
    <3>3. (sniff \o tail) \o rest = sniff \o (tail \o rest) /\ tail \o rest \in Seq(Unit)
      <4>1. sniff \in Seq(Unit)
        BY <1>10
      <4>2. rest \in Seq(Unit) /\ tail \in Seq(Unit)
        BY <1>8, <3>2
      <4>3. tail \o rest \in Seq(Unit)
        BY <4>2, Joined
      <4> QED BY <4>1, <4>2, <4>3, JoinsAssociate
    <3>4. reading.sent = sniff \o (tail \o rest)
      BY <1>9, <3>2, <3>3, Zenon
    <3> QED BY <1>10, <3>1, <3>3, <3>4, WindowDecides
  <2> QED BY <2>2, <2>3, <2>4 DEF Whole
<1>15. CASE /\ ~(Len(units) > Remaining(reading))
            /\ ~(q.sniffing /\ SniffComplete(q) /\ ~Recognised(q.sniff))
  <2>1. PICK p : p = [q EXCEPT !.sniffing = @ /\ ~SniffComplete(q)]
    OBVIOUS
  <2>2. reading' = p /\ step' = step
    BY <1>2, <1>15, <2>1
  <2>3. /\ p \in Reading /\ p.body = q.body /\ p.sniff = q.sniff /\ p.sent = q.sent
        /\ p.type = q.type /\ p.pending = q.pending /\ p.held = q.held
        /\ p.sniffing = (q.sniffing /\ ~SniffComplete(q))
    <3>1. (q.sniffing /\ ~SniffComplete(q)) \in BOOLEAN
      OBVIOUS
    <3> QED BY <1>12, <2>1, <3>1 DEF Reading
  <2>4. Len(units) <= Remaining(reading)
    <3>1. Len(units) \in Nat /\ Remaining(reading) \in Nat
      BY <1>1, <1>8, LimitType
    <3> QED BY <1>15, <3>1
  <2>5. p.held \o p.pending = rest /\ (p.pending = <<>> \/ p.held = <<>>)
    BY <1>8, <1>12, <2>3, Joined
  <2>6. p.sent = p.body \o (p.held \o p.pending)
    BY <1>9, <1>12, <2>3, <2>5
  <2>7. p.sniffing = (reading.sniffing /\ ~(Len(sniff) >= SniffWindow))
    BY <1>12, <2>3 DEF SniffComplete
  <2>8. reading.sniffing /\ Len(sniff) >= SniffWindow => Recognised(sniff)
    BY <1>12, <1>15 DEF SniffComplete
  <2>9. p.body = reading.body \o units /\ p.type = reading.type /\ p.sniff = sniff
    BY <1>12, <2>3
  <2>10. ReadInv(p)
    BY <1>1, <1>8, <1>10, <2>3, <2>4, <2>5, <2>6, <2>7, <2>8, <2>9, DecodeKeepsReadInv
  <2> QED BY <1>1, <2>2, <2>3, <2>10 DEF BodyInv, Whole
<1> QED BY <1>13, <1>14, <1>15

\* Every step of a fetch keeps the invariant and is as BodyIsWhole has it.
LEMMA GuardStepIsWhole ==
  ASSUME BodyInv, NEW t \in BOOLEAN, GuardStep(t)
  PROVE  Whole /\ BodyInv'
<1>1. ASSUME NEW r, Return(r), step # "body" PROVE Whole /\ BodyInv'
  BY <1>1, ReturnKeepsBodyInv DEF Whole
<1>2. ASSUME NEW reason, Refuse(reason), step # "body" PROVE Whole /\ BodyInv'
  BY <1>1, <1>2 DEF Refuse
<1>3. ASSUME step # "body", step' # "body", reading' = reading PROVE Whole /\ BodyInv'
  BY <1>3 DEF Whole, BodyInv
<1>4. ASSUME NEW answer \in Answers, Check(answer) PROVE Whole /\ BodyInv'
  BY <1>2, <1>3, <1>4 DEF Check
<1>5. CASE Send(t)
  BY <1>3, <1>5 DEF Send
<1>6. ASSUME NEW u \in Url \cup {NoUrl}, Redirected(u) PROVE Whole /\ BodyInv'
  BY <1>2, <1>3, <1>6 DEF Redirected
<1>7. CASE StatusRefused
  BY <1>7, RefuseIsWhole DEF StatusRefused
<1>8. CASE Raises
  BY <1>8, RefuseIsWhole DEF Raises
<1>9. ASSUME NEW type \in Types, NEW oversize \in BOOLEAN, Respond(type, oversize)
      PROVE  Whole /\ BodyInv'
  <2>1. CASE oversize \/ type = "media"
    BY <1>2, <1>9, <2>1 DEF Respond
  <2>2. CASE ~oversize /\ type # "media"
    <3>1. /\ step = "wait" /\ step' = "body"
          /\ reading' = [NoReading EXCEPT !.type = type, !.sniffing = (type = "other")]
      BY <1>9, <2>2 DEF Respond
    <3>2. /\ reading'.type = type /\ reading'.sniffing = (type = "other")
          /\ reading'.sent = <<>> /\ reading'.pending = <<>> /\ reading'.held = <<>>
          /\ reading'.sniff = <<>> /\ reading'.body = <<>>
      BY <3>1 DEF NoReading
    <3>3. reading' \in Reading
      <4>1. NoReading \in Reading /\ (type = "other") \in BOOLEAN
        BY BoundAssumption DEF NoReading, Reading, Types
      <4> QED BY <3>1, <4>1 DEF Reading
    <3>4. <<>> \o (<<>> \o <<>>) = <<>>
      BY Joined
    <3>5. Len(<<>>) = 0 /\ Len(<<>>) <= MaxBytes /\ Len(<<>>) < SniffWindow
      BY BoundAssumption
    <3>6. ReadInv(reading')
      BY <3>2, <3>3, <3>4, <3>5, Zenon DEF ReadInv
    <3> QED BY <3>1, <3>3, <3>6 DEF Whole, BodyInv
  <2> QED BY <2>1, <2>2
<1>10. ASSUME NEW n \in 1 .. MaxPiece, NEW units \in Pieces, Chunk(n, units)
       PROVE  Whole /\ BodyInv'
  BY <1>10, ChunkIsWhole
<1>11. ASSUME NEW hold \in BOOLEAN, Decode(hold) PROVE Whole /\ BodyInv'
  BY <1>11, DecodeIsWhole
<1>12. CASE Finish
  BY <1>12, FinishIsWhole
<1> QED BY <1>4, <1>5, <1>6, <1>7, <1>8, <1>9, <1>10, <1>11, <1>12 DEF GuardStep

LEMMA NextIsWhole ==
  ASSUME BodyInv, SpaceInv, [Next]_vars
  PROVE  Whole /\ BodyInv'
<1>1. ASSUME UNCHANGED guardVars PROVE Whole /\ BodyInv'
  BY <1>1 DEF guardVars, Whole, BodyInv
<1>2. CASE Authenticate \/ TreeArrives \/ QueryAttemptFails \/ ReadingEnds
  BY <1>1, <1>2 DEF Authenticate, TreeArrives, QueryAttemptFails, ReadingEnds
<1>3. CASE ProcessSpace \/ ProcessCallout \/ ProcessText \/ ProcessPlainLink
  BY <1>1, <1>3, Zenon DEF ProcessSpace, ProcessCallout, ProcessText, ProcessPlainLink
<1>4. CASE FetchLink
  <2>1. step = "idle" /\ step' = "check" /\ reading' = reading
    BY <1>4 DEF FetchLink, Fetch
  <2> QED BY <2>1 DEF Whole, BodyInv
<1>5. CASE Fetching
  BY <1>5, GuardStepIsWhole DEF Fetching, SpaceInv
<1>6. CASE LinkFetched
  <2>1. step = "done" /\ step' = "idle" /\ reading' = reading
    BY <1>6 DEF LinkFetched
  <2> QED BY <2>1 DEF Whole, BodyInv
<1>7. CASE UNCHANGED vars
  BY <1>1, <1>7 DEF vars
<1> QED BY <1>2, <1>3, <1>4, <1>5, <1>6, <1>7 DEF Next, Working, Handed

LEMMA BodyInvInit == Init => BodyInv
<1> SUFFICES ASSUME Init PROVE BodyInv
  OBVIOUS
<1>1. step = "idle" /\ reading = NoReading
  BY DEF Init, GuardInit
<1>2. NoReading \in Reading
  BY BoundAssumption DEF NoReading, Reading, Types
<1> QED BY <1>1, <1>2 DEF BodyInv

\* A fetch delivers the whole stream within the limit, and what its header left
\* open is decided as the complete body would have decided it, for any limit,
\* window and signature that fits the window, and however the stream was cut.
THEOREM BodiesAreWhole == Spec => BodyIsWhole
<1>1. BodyInv /\ SpaceInv /\ [Next]_vars => BodyInv' /\ [Whole]_guardVars
  BY NextIsWhole
<1>2. [Whole]_guardVars => [step = "body" /\ step' = "done" =>
         /\ result'.reason = "none" =>
              /\ result'.body = reading.sent
              /\ Len(result'.body) <= MaxBytes
              /\ reading.type = "other" => Recognised(result'.body)
         /\ result'.reason = "content_type" =>
              /\ ~Recognised(reading.sent)
              /\ reading.pending # <<>> => Unrecognisable(reading.sent)]_guardVars
  BY DEF Whole
<1> QED BY <1>1, <1>2, SpaceInvariant, BodyInvInit, PTL DEF Spec, BodyIsWhole
-----------------------------------------------------------------------------
(* Types of a fetch.                                                       *)

Decision == [allowed : BOOLEAN, reason : Reasons \cup {"none"},
             address : Address \cup {NoAddress}, host : Host]
Request == [address : Address \cup {NoAddress}, host : Host, auth : BOOLEAN]
Outcome == [body : Seq(Unit) \cup {NoBody}, type : Types \cup {""},
            reason : Reasons \cup {"none"}]

GuardTypes ==
    /\ step \in {"idle", "check", "send", "wait", "body", "done"}
    /\ target \in Url \cup {NoUrl}
    /\ hops \in 0 .. MaxRedirectHops
    /\ decision \in Decision
    /\ request \in Request
    /\ reading \in Reading
    /\ result \in Outcome

LEMMA GuardTypesNamed == GuardTypes => GuardTypeOK
BY Zenon DEF GuardTypes, GuardTypeOK, Decision, Request, Reading, Outcome

LEMMA HostTyped ==
  ASSUME NEW u \in Url \cup {NoUrl}
  PROVE  u.host \in Host
BY DEF Host

LEMMA RefusedTyped ==
  ASSUME NEW u \in Url \cup {NoUrl}, NEW reason \in Reasons \cup {"none"}
  PROVE  Refused(u, reason) \in Decision
BY HostTyped DEF Refused, Decision

\* check_destination returns a decision, whatever the resolver said.
LEMMA CheckTyped ==
  ASSUME NEW u \in Url \cup {NoUrl}, NEW answer \in Answers
  PROVE  /\ CheckDestination(u, answer) \in Decision
         /\ ~CheckDestination(u, answer).allowed => CheckDestination(u, answer).reason \in Reasons
<1> DEFINE d == CheckDestination(u, answer)
<1>1. ASSUME NEW reason \in Reasons, d = Refused(u, reason)
      PROVE  d \in Decision /\ d.reason \in Reasons
  BY <1>1, RefusedTyped DEF Refused
<1>2. ASSUME NEW a, d = Allowed(u, a)
      PROVE  d \in Decision /\ d.allowed
  <2>1. d.allowed
    BY <1>2 DEF Allowed
  <2>2. d.address \in Address
    BY <2>1, AllowedIsPermitted DEF Permitted
  <2>3. a \in Address
    BY <1>2, <2>2 DEF Allowed
  <2> QED BY <1>2, <2>1, <2>3, HostTyped DEF Allowed, Decision
<1>3. \/ \E reason \in Reasons : d = Refused(u, reason)
      \/ \E a : d = Allowed(u, a)
  <2>1. {"scheme", "destination", "resolution"} \subseteq Reasons
    BY DEF Reasons
  <2> QED BY <2>1 DEF CheckDestination
<1> QED BY <1>1, <1>2, <1>3

\* What a hop starts with.
LEMMA NothingTyped ==
    /\ NoDecision \in Decision
    /\ NoRequest \in Request
    /\ 0 \in 0 .. MaxRedirectHops
<1>1. NoUrl \in Url \cup {NoUrl} /\ "none" \in Reasons \cup {"none"}
  OBVIOUS
<1>2. NoDecision \in Decision
  BY <1>1, RefusedTyped, Zenon DEF NoDecision
<1>3. NoRequest \in Request
  <2>1. "" \in Host
    <3>1. NoUrl.host = ""
      BY DEF NoUrl
    <3> QED BY <1>1, <3>1, HostTyped
  <2> QED BY <2>1 DEF NoRequest, Request
<1>4. 0 \in 0 .. MaxRedirectHops
  BY BoundAssumption
<1> QED BY <1>2, <1>3, <1>4

LEMMA ReturnTyped ==
  ASSUME NEW r \in Outcome, Return(r), BodyInv'
  PROVE  GuardTypes'
<1>1. NoDecision \in Decision /\ NoRequest \in Request /\ 0 \in 0 .. MaxRedirectHops
  BY NothingTyped
<1>2. /\ step' = "done" /\ target' = NoUrl /\ hops' = 0 /\ decision' = NoDecision
      /\ request' = NoRequest /\ result' = r
  BY DEF Return
<1>3. reading' \in Reading
  BY DEF BodyInv
<1> QED BY <1>1, <1>2, <1>3 DEF GuardTypes

LEMMA RefuseTyped ==
  ASSUME NEW reason \in Reasons, Refuse(reason), BodyInv'
  PROVE  GuardTypes'
<1>1. [body |-> NoBody, type |-> "", reason |-> reason] \in Outcome
  BY DEF Outcome
<1> QED BY <1>1, ReturnTyped DEF Refuse

\* Every step of guarded_fetch keeps the types.
LEMMA GuardStepTyped ==
  ASSUME GuardTypes, BodyInv, BodyInv', NEW t \in BOOLEAN, GuardStep(t)
  PROVE  GuardTypes'
<1>1. reading' \in Reading
  BY DEF BodyInv
<1>2. ASSUME NEW answer \in Answers, Check(answer) PROVE GuardTypes'
  <2> DEFINE d == CheckDestination(target, answer)
  <2>1. target \in Url \cup {NoUrl}
    BY DEF GuardTypes
  <2>2. d \in Decision /\ (~d.allowed => d.reason \in Reasons)
    BY <2>1, CheckTyped
  <2>3. CASE d.allowed
    <3>1. /\ step' = "send" /\ decision' = d /\ target' = target /\ hops' = hops
          /\ request' = request /\ result' = result
      BY <1>2, <2>3 DEF Check
    <3> HIDE DEF d
    <3> QED BY <1>1, <2>2, <3>1, Zenon DEF GuardTypes
  <2>4. CASE ~d.allowed
    <3> DEFINE reason == IF hops > 0 /\ d.reason = "destination" THEN "redirect" ELSE d.reason
    <3>1. Refuse(reason)
      BY <1>2, <2>4 DEF Check
    <3>2. reason \in Reasons
      BY <2>2, <2>4 DEF Reasons
    <3> HIDE DEF reason
    <3> QED BY <3>1, <3>2, RefuseTyped
  <2> QED BY <2>3, <2>4
<1>3. CASE Send(t)
  <2>1. /\ step' = "wait" /\ target' = target /\ hops' = hops /\ decision' = decision
        /\ result' = result
        /\ request' = [address |-> decision.address, host |-> decision.host,
                       auth |-> t /\ IsDeploymentUrl(target)]
    BY <1>3 DEF Send, ShouldAttachCredentials
  <2>2. decision \in Decision
    BY DEF GuardTypes
  <2>3. decision.address \in Address \cup {NoAddress} /\ decision.host \in Host
    BY <2>2 DEF Decision
  <2>4. (t /\ IsDeploymentUrl(target)) \in BOOLEAN
    BY DEF IsDeploymentUrl
  <2>5. request' \in Request
    BY <2>1, <2>3, <2>4 DEF Request
  <2> QED BY <1>1, <2>1, <2>5 DEF GuardTypes
<1>4. ASSUME NEW u \in Url \cup {NoUrl}, Redirected(u) PROVE GuardTypes'
  <2>1. "redirect" \in Reasons /\ "hop_limit" \in Reasons
    BY DEF Reasons
  <2>2. CASE ~IsRedirectTarget(u) \/ u \notin RedirectPolicy
    BY <1>4, <2>1, <2>2, RefuseTyped, Zenon DEF Redirected
  <2>3. CASE ~(~IsRedirectTarget(u) \/ u \notin RedirectPolicy) /\ HopsUsedUp
    BY <1>4, <2>1, <2>3, RefuseTyped, Zenon DEF Redirected
  <2>4. CASE ~(~IsRedirectTarget(u) \/ u \notin RedirectPolicy) /\ ~HopsUsedUp
    <3>1. /\ step' = "check" /\ target' = u /\ hops' = hops + 1 /\ decision' = NoDecision
          /\ request' = NoRequest /\ result' = result
      BY <1>4, <2>4 DEF Redirected
    <3>2. NoDecision \in Decision /\ NoRequest \in Request
      BY NothingTyped
    <3>3. hops + 1 \in 0 .. MaxRedirectHops
      <4>1. hops \in 0 .. MaxRedirectHops /\ MaxRedirectHops \in Nat
        BY BoundAssumption DEF GuardTypes
      <4>2. ~(hops >= MaxRedirectHops)
        BY <2>4 DEF HopsUsedUp
      <4> QED BY <4>1, <4>2
    <3> QED BY <1>1, <3>1, <3>2, <3>3, Zenon DEF GuardTypes
  <2> QED BY <2>2, <2>3, <2>4
<1>5. CASE StatusRefused \/ Raises
  <2>1. "transport" \in Reasons
    BY DEF Reasons
  <2> QED BY <1>5, <2>1, RefuseTyped DEF StatusRefused, Raises
<1>6. ASSUME NEW type \in Types, NEW oversize \in BOOLEAN, Respond(type, oversize)
      PROVE  GuardTypes'
  <2>1. CASE oversize \/ type = "media"
    <3>1. "size" \in Reasons /\ "content_type" \in Reasons
      BY DEF Reasons
    <3> QED BY <1>6, <2>1, <3>1, RefuseTyped, Zenon DEF Respond
  <2>2. CASE ~(oversize \/ type = "media")
    <3>1. /\ step' = "body" /\ target' = target /\ hops' = hops /\ decision' = NoDecision
          /\ request' = NoRequest /\ result' = result
      BY <1>6, <2>2 DEF Respond
    <3>2. NoDecision \in Decision /\ NoRequest \in Request
      BY NothingTyped
    <3> QED BY <1>1, <3>1, <3>2, Zenon DEF GuardTypes
  <2> QED BY <2>1, <2>2
<1>7. ASSUME UNCHANGED <<step, target, hops, decision, request, result>> PROVE GuardTypes'
  <2>1. /\ step' = step /\ target' = target /\ hops' = hops /\ decision' = decision
        /\ request' = request /\ result' = result
    BY <1>7
  <2> QED BY <1>1, <2>1, Zenon DEF GuardTypes
<1>8. "size" \in Reasons /\ "content_type" \in Reasons
  BY DEF Reasons
<1>9. ASSUME NEW n \in 1 .. MaxPiece, NEW units \in Pieces, Chunk(n, units)
      PROVE  GuardTypes'
  BY <1>7, <1>8, <1>9, RefuseTyped, Zenon DEF Chunk
<1>10. ASSUME NEW hold \in BOOLEAN, Decode(hold) PROVE GuardTypes'
  BY <1>7, <1>8, <1>10, RefuseTyped, Zenon DEF Decode
<1>11. CASE Finish
  <2>1. ASSUME NEW r, r = [body |-> reading.body \o reading.held, type |-> reading.type,
                           reason |-> "none"], Return(r)
        PROVE  GuardTypes'
    <3>1. reading \in Reading
      BY DEF BodyInv
    <3>2. /\ reading.body \in Seq(Unit) /\ reading.held \in Seq(Unit)
          /\ reading.type \in Types \cup {""}
      BY <3>1 DEF Reading
    <3>3. reading.body \o reading.held \in Seq(Unit)
      BY <3>2, Joined
    <3>4. r \in Outcome
      BY <2>1, <3>2, <3>3 DEF Outcome
    <3> QED BY <2>1, <3>4, ReturnTyped
  <2> QED BY <1>8, <1>11, <2>1, RefuseTyped DEF Finish
<1> QED BY <1>2, <1>3, <1>4, <1>5, <1>6, <1>9, <1>10, <1>11 DEF GuardStep

-----------------------------------------------------------------------------
(* Sequences: the library's induction theorems take an operator, so        *)
(* induction is done here on the set of numbers for which a claim holds.   *)

LEMMA LeastNumber ==
  ASSUME NEW T, T \subseteq Nat, T # {} PROVE \E x \in T : \A y \in T : ~(y < x)
<1> DEFINE R == {ss \in Nat \X Nat : ss[1] < ss[2]}
<1>1. IsWellFoundedOn(R, Nat)
  BY NatLessThanWellFounded DEF OpToRel
<1>2. PICK x \in T : \A y \in T : ~(<<y, x>> \in R)
  BY <1>1, WFMin
<1>3. \A y \in T : y < x => <<y, x>> \in R
  OBVIOUS
<1> QED BY <1>2, <1>3

LEMMA SetInduction ==
  ASSUME NEW T, 0 \in T, \A n \in Nat : n \in T => n + 1 \in T PROVE Nat \subseteq T
<1> DEFINE U == Nat \ T
<1> SUFFICES ASSUME U # {} PROVE FALSE
  OBVIOUS
<1>1. U \subseteq Nat
  OBVIOUS
<1>2. PICK x \in U : \A y \in U : ~(y < x)
  <2> HIDE DEF U
  <2> QED BY <1>1, LeastNumber
<1>3. x # 0 /\ x - 1 \in Nat /\ x - 1 < x
  OBVIOUS
<1> QED BY <1>2, <1>3

\* Elements in a row: what a sequence has and whether it has it once.
LEMMA AppendFacts ==
  ASSUME NEW S, NEW s \in Seq(S), NEW e \in S
  PROVE  /\ Append(s, e) \in Seq(S) /\ ToSet(Append(s, e)) = ToSet(s) \cup {e}
         /\ IsInjective(s) /\ e \notin ToSet(s) => IsInjective(Append(s, e))
<1>1. /\ Append(s, e) \in Seq(S) /\ Len(s) \in Nat /\ DOMAIN s = 1 .. Len(s)
      /\ DOMAIN Append(s, e) = 1 .. Len(s) + 1
      /\ \A i \in 1 .. Len(s) : Append(s, e)[i] = s[i]
      /\ Append(s, e)[Len(s) + 1] = e
  OBVIOUS
<1>2. 1 .. Len(s) + 1 = (1 .. Len(s)) \cup {Len(s) + 1}
  BY <1>1
<1>3. ToSet(Append(s, e)) = ToSet(s) \cup {e}
  BY <1>1, <1>2 DEF ToSet
<1>4. ASSUME IsInjective(s), e \notin ToSet(s) PROVE IsInjective(Append(s, e))
  <2>1. \A i, j \in 1 .. Len(s) : s[i] = s[j] => i = j
    BY <1>1, <1>4 DEF IsInjective
  <2>2. \A i \in 1 .. Len(s) : s[i] # e
    BY <1>1, <1>4 DEF ToSet
  <2>3. ASSUME NEW i \in 1 .. Len(s) + 1, NEW j \in 1 .. Len(s) + 1,
               Append(s, e)[i] = Append(s, e)[j]
        PROVE  i = j
    BY <1>1, <1>2, <2>1, <2>2, <2>3
  <2> QED BY <1>1, <2>3 DEF IsInjective
<1> QED BY <1>1, <1>3, <1>4

LEMMA TailFacts ==
  ASSUME NEW S, NEW q \in Seq(S), q # <<>>
  PROVE  /\ Tail(q) \in Seq(S) /\ q[1] \in S
         /\ ToSet(q) = {q[1]} \cup ToSet(Tail(q))
         /\ IsInjective(q) => IsInjective(Tail(q)) /\ q[1] \notin ToSet(Tail(q))
<1>1. /\ Len(q) \in Nat /\ Len(q) > 0 /\ DOMAIN q = 1 .. Len(q)
      /\ Tail(q) \in Seq(S) /\ q[1] \in S
      /\ DOMAIN Tail(q) = 1 .. Len(q) - 1
      /\ \A i \in 1 .. Len(q) - 1 : Tail(q)[i] = q[i + 1]
  OBVIOUS
<1>2. ToSet(q) \subseteq {q[1]} \cup ToSet(Tail(q))
  <2> SUFFICES ASSUME NEW i \in 1 .. Len(q), i # 1 PROVE q[i] \in ToSet(Tail(q))
    BY <1>1 DEF ToSet
  <2>1. i - 1 \in 1 .. Len(q) - 1 /\ (i - 1) + 1 = i
    BY <1>1
  <2> QED BY <1>1, <2>1 DEF ToSet
<1>3. \A i \in 1 .. Len(q) - 1 : i + 1 \in 1 .. Len(q) /\ i + 1 # 1
  BY <1>1
<1>4. {q[1]} \cup ToSet(Tail(q)) \subseteq ToSet(q)
  <2>1. 1 \in 1 .. Len(q)
    BY <1>1
  <2> QED BY <1>1, <1>3, <2>1 DEF ToSet
<1>5. ASSUME IsInjective(q) PROVE IsInjective(Tail(q)) /\ q[1] \notin ToSet(Tail(q))
  <2>1. \A i, j \in 1 .. Len(q) : q[i] = q[j] => i = j
    BY <1>1, <1>5 DEF IsInjective
  <2>2. 1 \in 1 .. Len(q)
    BY <1>1
  <2>3. q[1] \notin ToSet(Tail(q))
    BY <1>1, <1>3, <2>1, <2>2 DEF ToSet
  <2>4. ASSUME NEW i \in 1 .. Len(q) - 1, NEW j \in 1 .. Len(q) - 1, Tail(q)[i] = Tail(q)[j]
        PROVE  i = j
    <3>1. i + 1 = j + 1
      BY <1>1, <1>3, <2>1, <2>4
    <3> QED BY <3>1
  <2> QED BY <1>1, <2>3, <2>4 DEF IsInjective
<1> QED BY <1>1, <1>2, <1>4, <1>5

LEMMA ConcatFacts ==
  ASSUME NEW S, NEW p \in Seq(S), NEW q \in Seq(S)
  PROVE  /\ p \o q \in Seq(S) /\ ToSet(p \o q) = ToSet(p) \cup ToSet(q)
         /\ IsInjective(p) /\ IsInjective(q) /\ ToSet(p) \cap ToSet(q) = {} => IsInjective(p \o q)
<1>1. /\ p \o q \in Seq(S) /\ Len(p) \in Nat /\ Len(q) \in Nat
      /\ DOMAIN p = 1 .. Len(p) /\ DOMAIN q = 1 .. Len(q)
      /\ DOMAIN (p \o q) = 1 .. Len(p) + Len(q)
      /\ \A i \in 1 .. Len(p) : (p \o q)[i] = p[i]
      /\ \A i \in 1 .. Len(q) : (p \o q)[Len(p) + i] = q[i]
  OBVIOUS
<1>2. ASSUME NEW i \in 1 .. Len(p) + Len(q)
      PROVE  \/ i \in 1 .. Len(p) /\ (p \o q)[i] = p[i]
             \/ i - Len(p) \in 1 .. Len(q) /\ (p \o q)[i] = q[i - Len(p)]
  <2>1. CASE i <= Len(p)
    BY <1>1, <2>1
  <2>2. CASE ~(i <= Len(p))
    <3>1. i - Len(p) \in 1 .. Len(q) /\ Len(p) + (i - Len(p)) = i
      BY <1>1, <2>2
    <3> QED BY <1>1, <3>1
  <2> QED BY <2>1, <2>2
<1>3. ToSet(p \o q) \subseteq ToSet(p) \cup ToSet(q)
  BY <1>1, <1>2 DEF ToSet
<1>4. ToSet(p) \cup ToSet(q) \subseteq ToSet(p \o q)
  <2>1. \A i \in 1 .. Len(p) : i \in 1 .. Len(p) + Len(q)
    BY <1>1
  <2>2. \A i \in 1 .. Len(q) : Len(p) + i \in 1 .. Len(p) + Len(q)
    BY <1>1
  <2> QED BY <1>1, <2>1, <2>2 DEF ToSet
<1>5. ASSUME IsInjective(p), IsInjective(q), ToSet(p) \cap ToSet(q) = {}
      PROVE  IsInjective(p \o q)
  <2>1. /\ \A i, j \in 1 .. Len(p) : p[i] = p[j] => i = j
        /\ \A i, j \in 1 .. Len(q) : q[i] = q[j] => i = j
    BY <1>1, <1>5 DEF IsInjective
  <2>2. \A i \in 1 .. Len(p), j \in 1 .. Len(q) : p[i] # q[j]
    BY <1>1, <1>5 DEF ToSet
  <2>3. ASSUME NEW i \in 1 .. Len(p) + Len(q), NEW j \in 1 .. Len(p) + Len(q),
               (p \o q)[i] = (p \o q)[j]
        PROVE  i = j
    <3>1. i - Len(p) = j - Len(p) => i = j
      BY <1>1
    <3> QED BY <1>2, <2>1, <2>2, <2>3, <3>1
  <2> QED BY <1>1, <2>3 DEF IsInjective
<1> QED BY <1>1, <1>3, <1>4, <1>5

\* Kept is well defined; it keeps exactly the elements of S, and none twice
\* unless it was there twice.
LEMMA KeptFacts ==
  ASSUME NEW E, NEW s \in Seq(E), NEW S
  PROVE  /\ Kept(s, S) \in Seq(E) /\ ToSet(Kept(s, S)) = ToSet(s) \cap S
         /\ IsInjective(s) => IsInjective(Kept(s, S))
<1> DEFINE Rec(g, n) == g = [i \in 0 .. n |-> IF i = 0 THEN <<>>
                                ELSE IF s[i] \in S THEN Append(g[i - 1], s[i]) ELSE g[i - 1]]
           T == {n \in Nat : \E g : Rec(g, n)}
<1>1. 0 \in T
  <2> DEFINE g == [i \in 0 .. 0 |-> <<>>]
  <2>1. Rec(g, 0)
    OBVIOUS
  <2> QED BY <2>1
<1>2. ASSUME NEW n \in Nat, n \in T PROVE n + 1 \in T
  <2>1. PICK g : Rec(g, n)
    BY <1>2
  <2> DEFINE h == [i \in 0 .. n + 1 |->
                     IF i = n + 1 THEN (IF s[i] \in S THEN Append(g[n], s[i]) ELSE g[n]) ELSE g[i]]
  <2>2. \A i \in 0 .. n : g[i] = IF i = 0 THEN <<>>
                                 ELSE IF s[i] \in S THEN Append(g[i - 1], s[i]) ELSE g[i - 1]
    BY <2>1
  <2>3. ASSUME NEW i \in 0 .. n + 1
        PROVE  h[i] = IF i = 0 THEN <<>>
                      ELSE IF s[i] \in S THEN Append(h[i - 1], s[i]) ELSE h[i - 1]
    <3>1. CASE i = n + 1
      <4>1. h[n] = g[n] /\ i # 0 /\ i - 1 = n
        BY <1>2, <3>1
      <4> QED BY <3>1, <4>1
    <3>2. CASE i # n + 1
      <4>1. i \in 0 .. n /\ h[i] = g[i]
        BY <1>2, <3>2
      <4>2. i # 0 => h[i - 1] = g[i - 1]
        BY <1>2, <4>1
      <4> QED BY <2>2, <4>1, <4>2
    <3> QED BY <3>1, <3>2
  <2>4. Rec(h, n + 1)
    BY <2>3
  <2>5. n + 1 \in Nat
    OBVIOUS
  <2> HIDE DEF h
  <2> QED BY <2>4, <2>5
<1>3. Nat \subseteq T
  <2> HIDE DEF T
  <2> QED BY <1>1, <1>2, SetInduction
<1>4. Len(s) \in Nat /\ DOMAIN s = 1 .. Len(s)
  OBVIOUS
<1>5. PICK g : Rec(g, Len(s))
  BY <1>3, <1>4, Zenon
<1>6. PICK kept : kept = CHOOSE k : Rec(k, Len(s))
  OBVIOUS
<1>7. Rec(kept, Len(s))
  BY <1>5, <1>6, Zenon
<1>8. Kept(s, S) = kept[Len(s)]
  BY <1>6 DEF Kept
<1>9. /\ kept[0] = <<>>
      /\ \A i \in 1 .. Len(s) :
           kept[i] = IF s[i] \in S THEN Append(kept[i - 1], s[i]) ELSE kept[i - 1]
  <2>1. \A i \in 0 .. Len(s) : kept[i] = IF i = 0 THEN <<>>
                                         ELSE IF s[i] \in S THEN Append(kept[i - 1], s[i])
                                         ELSE kept[i - 1]
    BY <1>7
  <2>2. 0 \in 0 .. Len(s) /\ \A i \in 1 .. Len(s) : i \in 0 .. Len(s) /\ i # 0
    BY <1>4
  <2> QED BY <2>1, <2>2
\* After i elements, those of the first i that are in S are kept.
<1> DEFINE First(i) == {s[j] : j \in 1 .. i}
           Right(i) == /\ kept[i] \in Seq(E) /\ ToSet(kept[i]) = First(i) \cap S
                       /\ IsInjective(s) => IsInjective(kept[i])
           K == {i \in Nat : i <= Len(s) => Right(i)}
<1>10. 0 \in K
  <2>1. First(0) = {} /\ ToSet(<<>>) = {} /\ IsInjective(<<>>)
    BY DEF ToSet, IsInjective
  <2>2. Right(0)
    <3> HIDE DEF First
    <3> QED BY <1>9, <2>1
  <2> HIDE DEF Right
  <2> QED BY <2>2
<1>11. ASSUME NEW i \in Nat, i \in K PROVE i + 1 \in K
  <2> SUFFICES ASSUME i + 1 <= Len(s) PROVE Right(i + 1)
    OBVIOUS
  <2>1. Right(i)
    BY <1>4, <1>11
  <2>2. i + 1 \in 1 .. Len(s) /\ (i + 1) - 1 = i /\ s[i + 1] \in E
    BY <1>4
  <2>3. First(i + 1) = First(i) \cup {s[i + 1]}
    <3>1. 1 .. i + 1 = (1 .. i) \cup {i + 1}
      OBVIOUS
    <3> QED BY <3>1
  <2>4. kept[i + 1] = IF s[i + 1] \in S THEN Append(kept[i], s[i + 1]) ELSE kept[i]
    BY <1>9, <2>2
  <2>5. IsInjective(s) => s[i + 1] \notin First(i)
    <3>1. \A j \in 1 .. i : j \in 1 .. Len(s) /\ j # i + 1
      BY <1>4
    <3> QED BY <1>4, <2>2, <3>1 DEF IsInjective
  <2> HIDE DEF First
  <2>6. CASE s[i + 1] \in S
    <3>1. PICK e \in E : e = s[i + 1]
      BY <2>2
    <3>2. /\ Append(kept[i], e) \in Seq(E) /\ ToSet(Append(kept[i], e)) = ToSet(kept[i]) \cup {e}
          /\ IsInjective(kept[i]) /\ e \notin ToSet(kept[i]) => IsInjective(Append(kept[i], e))
      BY <2>1, <3>1, AppendFacts
    <3>3. kept[i + 1] = Append(kept[i], e)
      BY <2>4, <2>6, <3>1
    <3> QED BY <2>1, <2>3, <2>5, <2>6, <3>1, <3>2, <3>3
  <2>7. CASE s[i + 1] \notin S
    BY <2>1, <2>3, <2>4, <2>7
  <2> QED BY <2>6, <2>7
<1>12. Len(s) \in K
  <2> HIDE DEF K
  <2>1. Nat \subseteq K
    BY <1>10, <1>11, SetInduction
  <2> QED BY <1>4, <2>1
<1>13. First(Len(s)) = ToSet(s)
  BY <1>4 DEF ToSet
<1>14. Right(Len(s))
  BY <1>4, <1>12
<1> HIDE DEF First
<1> QED BY <1>8, <1>13, <1>14

-----------------------------------------------------------------------------
(* Trees: ways up, and the places of nodes.                                *)

LEMMA Members ==
  ASSUME NEW S, NEW s \in Seq(S)
  PROVE  ToSet(s) \subseteq S
BY DEF ToSet

\* What is listed by a node is below that node and no other.
LEMMA ChildFacts ==
  ASSUME NEW t, Answered(t), NEW m \in t.nodes, NEW c \in ToSet(t.children[m])
  PROVE  /\ c \in t.nodes /\ c # t.root /\ Up(t, c) = m
         /\ \/ t.kind[m] = "space" /\ t.kind[c] \in {"space", "callout"}
            \/ t.kind[m] = "callout" /\ t.kind[c] \in Contribution
<1>1. t.children[m] \in Seq(t.nodes \ {t.root})
  BY DEF Answered
<1>2. c \in t.nodes /\ c # t.root
  BY <1>1, Members
<1>3. \A n \in t.nodes : c \in ToSet(t.children[n]) => n = m
  BY DEF Answered
<1>4. Up(t, c) = m
  <2>1. Up(t, c) = CHOOSE n \in t.nodes : c \in ToSet(t.children[n])
    BY <1>2 DEF Up
  <2> QED BY <1>3, <2>1
<1>5. \/ t.kind[m] = "space" /\ t.kind[c] \in {"space", "callout"}
      \/ t.kind[m] = "callout" /\ t.kind[c] \in Contribution
  BY DEF Answered
<1> QED BY <1>2, <1>4, <1>5

LEMMA UpFacts ==
  ASSUME NEW t, Answered(t), NEW n \in t.nodes
  PROVE  /\ Up(t, n) \in t.nodes
         /\ n = t.root => Up(t, n) = n
         /\ n # t.root => n \in ToSet(t.children[Up(t, n)])
<1>1. CASE n = t.root
  BY <1>1 DEF Up
<1>2. CASE n # t.root
  <2>1. Up(t, n) = CHOOSE m \in t.nodes : n \in ToSet(t.children[m])
    BY <1>2 DEF Up
  <2>2. \E m \in t.nodes : n \in ToSet(t.children[m])
    BY <1>2 DEF Answered
  <2>3. Up(t, n) \in t.nodes /\ n \in ToSet(t.children[Up(t, n)])
    BY <2>1, <2>2
  <2> QED BY <1>2, <2>3
<1> QED BY <1>1, <1>2

\* Contributions are below callouts, callouts below spaces.
LEMMA KindFacts ==
  ASSUME NEW t, Answered(t), NEW n \in t.nodes
  PROVE  \/ /\ t.kind[n] = "space" /\ t.kind[Up(t, n)] = "space"
            /\ Up(t, Up(t, n)) = t.root
         \/ t.kind[n] = "callout" /\ n # t.root /\ t.kind[Up(t, n)] = "space"
         \/ t.kind[n] \in Contribution /\ n # t.root /\ t.kind[Up(t, n)] = "callout"
<1>1. t.kind[t.root] = "space"
  BY DEF Answered
<1>2. t.kind[n] = "space" => Up(t, Up(t, n)) = t.root
  BY DEF Answered
<1>3. CASE n = t.root
  BY <1>1, <1>2, <1>3, UpFacts
<1>4. CASE n # t.root
  <2>1. Up(t, n) \in t.nodes /\ n \in ToSet(t.children[Up(t, n)])
    BY <1>4, UpFacts
  <2>2. \/ t.kind[Up(t, n)] = "space" /\ t.kind[n] \in {"space", "callout"}
        \/ t.kind[Up(t, n)] = "callout" /\ t.kind[n] \in Contribution
    BY <2>1, ChildFacts
  <2> QED BY <1>2, <1>4, <2>2
<1> QED BY <1>3, <1>4

LEMMA KindsDiffer ==
  "space" # "callout" /\ "space" \notin Contribution /\ "callout" \notin Contribution
BY DEF Contribution

\* Four steps lead to the root.
LEMMA WayUp ==
  ASSUME NEW t, Answered(t), NEW n \in t.nodes
  PROVE  /\ Up(t, Up(t, Up(t, Up(t, n)))) = t.root
         /\ t.kind[n] \notin Contribution => Up(t, Up(t, Up(t, n))) = t.root
         /\ Above(t, n) \subseteq t.nodes /\ n \in Above(t, n)
<1> DEFINE u == Up(t, n)  uu == Up(t, u)  uuu == Up(t, uu)
<1>1. t.root \in t.nodes
  BY DEF Answered
<1>2. u \in t.nodes /\ Up(t, t.root) = t.root
  BY <1>1, UpFacts
<1>3. uu \in t.nodes
  BY <1>2, UpFacts
<1>4. uuu \in t.nodes
  BY <1>3, UpFacts
<1>5. Above(t, n) = {n, u, uu, uuu, t.root}
  BY DEF Above
<1>6. t.kind[n] = "space" => uu = t.root
  BY KindFacts, KindsDiffer
<1>7. t.kind[u] = "space" => uuu = t.root
  BY <1>2, KindFacts, KindsDiffer
<1>8. t.kind[uu] = "space" => Up(t, uuu) = t.root
  BY <1>3, KindFacts, KindsDiffer
<1>9. \/ t.kind[n] = "space"
      \/ t.kind[n] = "callout" /\ t.kind[u] = "space"
      \/ t.kind[n] \in Contribution /\ t.kind[u] = "callout"
  BY KindFacts
<1>10. t.kind[u] = "callout" => t.kind[uu] = "space"
  BY <1>2, KindFacts, KindsDiffer
<1> HIDE DEF u, uu, uuu
<1>11. Up(t, uuu) = t.root /\ (t.kind[n] \notin Contribution => uuu = t.root)
  BY <1>2, <1>6, <1>7, <1>8, <1>9, <1>10 DEF uuu
<1> QED BY <1>1, <1>2, <1>3, <1>4, <1>5, <1>11 DEF u, uu, uuu

\* The way of a child is that of its parent and the child.
LEMMA ChildAbove ==
  ASSUME NEW t, Answered(t), NEW m \in t.nodes, NEW c \in ToSet(t.children[m])
  PROVE  Above(t, c) = {c} \cup Above(t, m) /\ c \notin Above(t, m)
<1>1. /\ c \in t.nodes /\ c # t.root /\ Up(t, c) = m
      /\ \/ t.kind[m] = "space" /\ t.kind[c] \in {"space", "callout"}
         \/ t.kind[m] = "callout" /\ t.kind[c] \in Contribution
  BY ChildFacts
<1> DEFINE u == Up(t, m)  uu == Up(t, u)  uuu == Up(t, uu)
<1>2. Above(t, m) = {m, u, uu, uuu, t.root} /\ Above(t, c) = {c, m, u, uu, t.root}
  BY <1>1 DEF Above
<1>3. uuu = t.root /\ u \in t.nodes
  BY <1>1, WayUp, UpFacts, KindsDiffer
<1>4. uu \in t.nodes
  BY <1>3, UpFacts
<1>5. t.kind[t.root] = "space"
  BY DEF Answered
<1>6. \/ t.kind[m] = "space" /\ t.kind[u] = "space" /\ uu = t.root
      \/ t.kind[m] = "callout" /\ t.kind[u] = "space"
  BY <1>1, KindFacts, KindsDiffer
<1>7. t.kind[u] = "space" => t.kind[uu] = "space"
  BY <1>3, KindFacts, KindsDiffer
<1>8. t.kind[c] = "space" => u = t.root
  BY <1>1, KindFacts, KindsDiffer
<1>9. c # m
  <2>1. c = m => t.kind[c] = "space"
    BY <1>1, KindsDiffer
  <2> QED BY <1>1, <1>8, <2>1
<1> HIDE DEF u, uu, uuu
<1>10. c # u /\ c # uu
  BY <1>1, <1>5, <1>6, <1>7, <1>8, KindsDiffer
<1> QED BY <1>1, <1>2, <1>3, <1>9, <1>10

\* Above n the way leads through a child of each node it passes.
LEMMA StepBelow ==
  ASSUME NEW t, Answered(t), NEW n \in t.nodes, NEW m \in Above(t, n), m # n
  PROVE  \E c \in ToSet(t.children[m]) : c \in Above(t, n)
<1> DEFINE u == Up(t, n)  uu == Up(t, u)  uuu == Up(t, uu)
<1>1. Above(t, n) = {n, u, uu, uuu, t.root} /\ Up(t, uuu) = t.root
  BY WayUp DEF Above
<1>2. u \in t.nodes
  BY UpFacts
<1>3. uu \in t.nodes
  BY <1>2, UpFacts
<1>4. uuu \in t.nodes
  BY <1>3, UpFacts
<1>5. ASSUME NEW d \in Above(t, n) \cap t.nodes, d # m, Up(t, d) = m
      PROVE  \E c \in ToSet(t.children[m]) : c \in Above(t, n)
  <2>1. d \in ToSet(t.children[m])
    BY <1>5, UpFacts
  <2> QED BY <2>1
<1>6. CASE m = u
  BY <1>1, <1>5, <1>6
<1>7. CASE m # u /\ m = uu
  BY <1>1, <1>2, <1>5, <1>7
<1>8. CASE m # uu /\ m = uuu
  BY <1>1, <1>3, <1>5, <1>8
<1>9. CASE m # uuu /\ m = t.root
  BY <1>1, <1>4, <1>5, <1>9
<1> QED BY <1>1, <1>6, <1>7, <1>8, <1>9

\* A way through a child passes the parent.
LEMMA StepAbove ==
  ASSUME NEW t, Answered(t), NEW n \in t.nodes, NEW m \in t.nodes,
         NEW c \in ToSet(t.children[m]), c \in Above(t, n)
  PROVE  m \in Above(t, n)
<1>1. c # t.root /\ Up(t, c) = m
  BY ChildFacts
<1>2. /\ Above(t, n) = {n, Up(t, n), Up(t, Up(t, n)), Up(t, Up(t, Up(t, n))), t.root}
      /\ Up(t, Up(t, Up(t, Up(t, n)))) = t.root
  BY WayUp DEF Above
<1> QED BY <1>1, <1>2

\* Where a node is read: the root first, callouts and subspaces below the
\* position of their space, contributions at their own.
VisitOf(t, n) ==
    [node  |-> n,
     pos   |-> IF n = t.root THEN NoPosition
               ELSE IF t.kind[n] \in Contribution THEN PositionOf(t, n)
               ELSE PositionOf(t, Up(t, n)),
     depth |-> PositionOf(t, n).depth]

\* The cases of a place.
LEMMA PlaceFacts ==
  ASSUME NEW t, Answered(t), NEW n \in t.nodes
  PROVE  /\ t.kind[n] = "space" => Home(t, n) = n /\ CalloutOf(t, n) = Absent
         /\ t.kind[n] = "callout" => Home(t, n) = Up(t, n) /\ CalloutOf(t, n) = n
         /\ t.kind[n] \in Contribution =>
              Home(t, n) = Up(t, Up(t, n)) /\ CalloutOf(t, n) = Up(t, n)
BY KindsDiffer DEF Home, CalloutOf

Place(s, b, c, d) == [space |-> s, subspace |-> b, callout |-> c, depth |-> d]

\* What the moves of the walk make of a place.
LEMMA PlaceMoves ==
  ASSUME NEW s, NEW b, NEW c, NEW d
  PROVE  /\ \A x : ForNode(Place(s, b, c, d), x, 0) = Place(x, b, c, 0)
         /\ \A x, y : y # 0 => ForNode(Place(s, b, c, d), x, y) = Place(s, x, c, y)
         /\ \A x : ForCallout(Place(s, b, c, d), x) = Place(s, b, x, d)
         /\ ForContribution(Place(s, b, c, d)) = Place(s, b, c, 3)
         /\ Place(s, b, c, d).depth = d
<1> SUFFICES ASSUME NEW x, NEW y
             PROVE  /\ ForNode(Place(s, b, c, d), x, 0) = Place(x, b, c, 0)
                    /\ y # 0 => ForNode(Place(s, b, c, d), x, y) = Place(s, x, c, y)
                    /\ ForCallout(Place(s, b, c, d), x) = Place(s, b, x, d)
                    /\ ForContribution(Place(s, b, c, d)) = Place(s, b, c, 3)
                    /\ Place(s, b, c, d).depth = d
  OBVIOUS
<1> DEFINE S == {s, b, c, d, x, y, 0, 3}
           P == [space : S, subspace : S, callout : S, depth : S]
           p == Place(s, b, c, d)
<1>1. s \in S /\ b \in S /\ c \in S /\ d \in S /\ x \in S /\ y \in S /\ 0 \in S /\ 3 \in S
  OBVIOUS
<1> HIDE DEF S
<1>2. ASSUME NEW q \in P, NEW r \in P,
             q.space = r.space, q.subspace = r.subspace, q.callout = r.callout, q.depth = r.depth
      PROVE  q = r
  BY <1>2
<1>3. p \in P /\ p.space = s /\ p.subspace = b /\ p.callout = c /\ p.depth = d
  BY <1>1 DEF Place
<1>4. ASSUME NEW q \in P, NEW e \in S, NEW f \in S, NEW g \in S, NEW h \in S,
             q.space = e /\ q.subspace = f /\ q.callout = g /\ q.depth = h
      PROVE  q = Place(e, f, g, h)
  <2>1. /\ Place(e, f, g, h) \in P /\ Place(e, f, g, h).space = e
        /\ Place(e, f, g, h).subspace = f /\ Place(e, f, g, h).callout = g
        /\ Place(e, f, g, h).depth = h
    BY <1>4 DEF Place
  <2> HIDE DEF P
  <2> QED BY <1>2, <1>4, <2>1
<1> HIDE DEF p
<1>5. [p EXCEPT !.space = x, !.depth = 0] = Place(x, b, c, 0)
  <2> DEFINE q == [p EXCEPT !.space = x, !.depth = 0]
  <2>1. q \in P /\ q.space = x /\ q.subspace = b /\ q.callout = c /\ q.depth = 0
    BY <1>1, <1>3
  <2> HIDE DEF q, P
  <2>2. q = Place(x, b, c, 0)
    BY <1>1, <1>4, <2>1
  <2> QED BY <2>2 DEF q
<1>6. [p EXCEPT !.subspace = x, !.depth = y] = Place(s, x, c, y)
  <2> DEFINE q == [p EXCEPT !.subspace = x, !.depth = y]
  <2>1. q \in P /\ q.space = s /\ q.subspace = x /\ q.callout = c /\ q.depth = y
    BY <1>1, <1>3
  <2> HIDE DEF q, P
  <2>2. q = Place(s, x, c, y)
    BY <1>1, <1>4, <2>1
  <2> QED BY <2>2 DEF q
<1>7. [p EXCEPT !.callout = x] = Place(s, b, x, d)
  <2> DEFINE q == [p EXCEPT !.callout = x]
  <2>1. q \in P /\ q.space = s /\ q.subspace = b /\ q.callout = x /\ q.depth = d
    BY <1>1, <1>3
  <2> HIDE DEF q, P
  <2>2. q = Place(s, b, x, d)
    BY <1>1, <1>4, <2>1
  <2> QED BY <2>2 DEF q
<1>8. [p EXCEPT !.depth = 3] = Place(s, b, c, 3)
  <2> DEFINE q == [p EXCEPT !.depth = 3]
  <2>1. q \in P /\ q.space = s /\ q.subspace = b /\ q.callout = c /\ q.depth = 3
    BY <1>1, <1>3
  <2> HIDE DEF q, P
  <2>2. q = Place(s, b, c, 3)
    BY <1>1, <1>4, <2>1
  <2> QED BY <2>2 DEF q
<1>9. /\ ForNode(p, x, 0) = [p EXCEPT !.space = x, !.depth = 0]
      /\ y # 0 => ForNode(p, x, y) = [p EXCEPT !.subspace = x, !.depth = y]
      /\ ForCallout(p, x) = [p EXCEPT !.callout = x]
      /\ ForContribution(p) = [p EXCEPT !.depth = 3]
  BY Zenon DEF ForNode, ForCallout, ForContribution
<1> QED BY <1>3, <1>5, <1>6, <1>7, <1>8, <1>9 DEF p

\* The places of the three kinds of nodes.
LEMMA PositionIs ==
  ASSUME NEW t, Answered(t), NEW n \in t.nodes
  PROVE  /\ t.kind[n] = "space" =>
              PositionOf(t, n) = Place(t.root, IF n = t.root THEN Absent ELSE n, Absent, Level(t, n))
         /\ t.kind[n] = "callout" =>
              LET h == Up(t, n)
              IN  PositionOf(t, n) = Place(t.root, IF h = t.root THEN Absent ELSE h, n, Level(t, h))
         /\ t.kind[n] \in Contribution =>
              LET h == Up(t, Up(t, n))
              IN  PositionOf(t, n) = Place(t.root, IF h = t.root THEN Absent ELSE h, Up(t, n), 3)
BY PlaceFacts, KindsDiffer DEF PositionOf, Place

\* The place of a child follows from that of its parent.
LEMMA ChildPlace ==
  ASSUME NEW t, Answered(t), NEW m \in t.nodes, NEW c \in ToSet(t.children[m])
  PROVE  /\ t.kind[c] = "space" =>
              /\ PositionOf(t, c).depth = PositionOf(t, m).depth + 1
              /\ PositionOf(t, c) = ForNode(PositionOf(t, m), c, PositionOf(t, c).depth)
         /\ t.kind[c] = "callout" =>
              /\ PositionOf(t, c).depth = PositionOf(t, m).depth
              /\ PositionOf(t, c) = ForCallout(PositionOf(t, m), c)
         /\ t.kind[c] \in Contribution =>
              /\ PositionOf(t, c).depth = 3
              /\ PositionOf(t, c) = ForContribution(PositionOf(t, m))
<1>1. /\ c \in t.nodes /\ c # t.root /\ Up(t, c) = m
      /\ \/ t.kind[m] = "space" /\ t.kind[c] \in {"space", "callout"}
         \/ t.kind[m] = "callout" /\ t.kind[c] \in Contribution
  BY ChildFacts
<1>2. CASE t.kind[c] = "space"
  <2>1. t.kind[m] = "space" /\ Up(t, m) = t.root
    BY <1>1, <1>2, KindFacts, KindsDiffer
  <2>2. Level(t, c) # 0 /\ Level(t, c) = Level(t, m) + 1
    BY <1>1, <2>1 DEF Level
  <2>3. PICK b : PositionOf(t, m) = Place(t.root, b, Absent, Level(t, m))
    BY <2>1, PositionIs
  <2>4. PositionOf(t, c) = Place(t.root, c, Absent, Level(t, c))
    BY <1>1, <1>2, PositionIs
  <2>5. PositionOf(t, c).depth = Level(t, c) /\ PositionOf(t, m).depth = Level(t, m)
    BY <2>3, <2>4, PlaceMoves
  <2>6. PositionOf(t, c) = ForNode(PositionOf(t, m), c, Level(t, c))
    BY <2>2, <2>3, <2>4, PlaceMoves
  <2> QED BY <1>2, <2>2, <2>5, <2>6, KindsDiffer
<1>3. CASE t.kind[c] = "callout"
  <2>1. t.kind[m] = "space"
    BY <1>1, <1>3, KindsDiffer
  <2> DEFINE b == IF m = t.root THEN Absent ELSE m
  <2>2. PositionOf(t, m) = Place(t.root, b, Absent, Level(t, m))
    BY <2>1, PositionIs
  <2>3. PositionOf(t, c) = Place(t.root, b, c, Level(t, m))
    BY <1>1, <1>3, PositionIs
  <2> HIDE DEF b
  <2> QED BY <1>3, <2>2, <2>3, PlaceMoves, KindsDiffer
<1>4. CASE t.kind[c] \in Contribution
  <2>1. t.kind[m] = "callout"
    BY <1>1, <1>4, KindsDiffer
  <2> DEFINE b == IF Up(t, m) = t.root THEN Absent ELSE Up(t, m)
  <2>2. PositionOf(t, m) = Place(t.root, b, m, Level(t, Up(t, m)))
    BY <2>1, PositionIs
  <2>3. PositionOf(t, c) = Place(t.root, b, m, 3)
    BY <1>1, <1>4, PositionIs
  <2> HIDE DEF b
  <2> QED BY <1>4, <2>2, <2>3, PlaceMoves, KindsDiffer
<1> QED BY <1>1, <1>2, <1>3, <1>4

\* From the position a visit is given, the walk gets to the place of the node.
LEMMA VisitArrives ==
  ASSUME NEW t, Answered(t), NEW n \in t.nodes
  PROVE  LET v == VisitOf(t, n)
         IN  /\ t.kind[n] = "space" => ForNode(v.pos, n, v.depth) = PositionOf(t, n)
             /\ t.kind[n] = "callout" => ForCallout(v.pos, n) = PositionOf(t, n)
             /\ t.kind[n] \in Contribution => v.pos = PositionOf(t, n)
<1> DEFINE v == VisitOf(t, n)
<1>1. v.node = n /\ v.depth = PositionOf(t, n).depth
  BY DEF VisitOf
<1>2. CASE n = t.root
  <2>1. t.kind[n] = "space" /\ v.pos = NoPosition
    BY <1>2 DEF VisitOf, Answered
  <2>2. PositionOf(t, n) = Place(n, Absent, Absent, 0)
    BY <1>2, <2>1, PositionIs DEF Level
  <2>3. v.depth = 0 /\ v.pos = Place(Absent, Absent, Absent, 0)
    BY <1>1, <2>1, <2>2, PlaceMoves DEF NoPosition, Place
  <2> HIDE DEF v
  <2>4. ForNode(v.pos, n, v.depth) = PositionOf(t, n)
    BY <2>2, <2>3, PlaceMoves
  <2> QED BY <2>1, <2>4, KindsDiffer DEF v
<1>3. CASE n # t.root
  <2> DEFINE m == Up(t, n)
  <2>1. m \in t.nodes /\ n \in ToSet(t.children[m])
    BY <1>3, UpFacts
  <2>2. t.kind[n] \notin Contribution => v.pos = PositionOf(t, m)
    BY <1>3 DEF VisitOf
  <2>3. t.kind[n] \in Contribution => v.pos = PositionOf(t, n)
    BY <1>3 DEF VisitOf
  <2> HIDE DEF v, m
  <2>4. CASE t.kind[n] = "space"
    BY <1>1, <2>1, <2>2, <2>4, ChildPlace, KindsDiffer DEF v
  <2>5. CASE t.kind[n] = "callout"
    BY <1>1, <2>1, <2>2, <2>5, ChildPlace, KindsDiffer DEF v
  <2>6. CASE t.kind[n] \in Contribution
    BY <2>3, <2>6, KindsDiffer DEF v
  <2> QED BY <2>4, <2>5, <2>6, KindFacts
<1> QED BY <1>2, <1>3

LEMMA PlaceTyped ==
  ASSUME NEW t \in Trees, Answered(t), NEW n \in t.nodes
  PROVE  /\ PositionOf(t, n) \in Position
         /\ VisitOf(t, n) \in [node : Node, pos : Position, depth : 0 .. 3]
<1>1. t.nodes \subseteq Node
  BY DEF Node
<1>2. ASSUME NEW m \in t.nodes PROVE PositionOf(t, m) \in Position
  <2>1. Up(t, m) \in t.nodes /\ t.root \in t.nodes
    BY UpFacts DEF Answered
  <2>2. Up(t, Up(t, m)) \in t.nodes
    BY <2>1, UpFacts
  <2>3. Home(t, m) \in t.nodes /\ CalloutOf(t, m) \in t.nodes \cup {Absent}
    BY <2>1, <2>2, PlaceFacts, KindFacts
  <2>4. \A s : Level(t, s) \in 0 .. 3
    BY DEF Level
  <2> QED BY <1>1, <2>1, <2>3, <2>4 DEF PositionOf, Position
<1>3. Up(t, n) \in t.nodes
  BY UpFacts
<1>4. PositionOf(t, n) \in Position /\ PositionOf(t, Up(t, n)) \in Position
  BY <1>2, <1>3
<1>5. NoPosition \in Position
  BY DEF NoPosition, Position
<1>6. PositionOf(t, n).depth \in 0 .. 3
  BY <1>4 DEF Position
<1>7. n \in Node
  BY <1>1
<1> QED BY <1>4, <1>5, <1>6, <1>7 DEF VisitOf

\* Everything above n has an identity, and a knowledge base is read without its
\* subspaces.
Reached(t, n) ==
    /\ \A m \in Above(t, n) \ {n} : Identified(t, m)
    /\ t.base => Home(t, n) = t.root

Below(t, n) == {c \in ToSet(t.children[n]) : Reached(t, c)}
BelowVisits(t, n) == {VisitOf(t, c) : c \in Below(t, n)}

LEMMA LegibleIsReached ==
  ASSUME NEW t, Answered(t), NEW n \in t.nodes
  PROVE  n \in Legible(t) <=> Reached(t, n) /\ Identified(t, n)
BY WayUp DEF Legible, Reached

\* The walk goes on below what it could read.
LEMMA ChildReached ==
  ASSUME NEW t, Answered(t), NEW m \in t.nodes, NEW c \in ToSet(t.children[m])
  PROVE  Reached(t, c) <=> /\ Reached(t, m) /\ Identified(t, m)
                           /\ ~(t.base /\ t.kind[c] = "space")
<1>1. /\ c \in t.nodes /\ c # t.root /\ Up(t, c) = m
      /\ \/ t.kind[m] = "space" /\ t.kind[c] \in {"space", "callout"}
         \/ t.kind[m] = "callout" /\ t.kind[c] \in Contribution
  BY ChildFacts
<1>2. Above(t, c) \ {c} = Above(t, m) /\ m \in Above(t, m)
  BY ChildAbove, WayUp
<1>3. (\A x \in Above(t, c) \ {c} : Identified(t, x))
        <=> (\A x \in Above(t, m) \ {m} : Identified(t, x)) /\ Identified(t, m)
  BY <1>2
<1>4. CASE t.kind[c] = "space"
  <2>1. Home(t, c) # t.root
    BY <1>1, <1>4, PlaceFacts
  <2>2. t.kind[m] = "space"
    BY <1>1, <1>4, KindsDiffer
  <2>3. Home(t, m) = m
    BY <2>2, PlaceFacts
  <2> QED BY <1>3, <1>4, <2>1 DEF Reached
<1>5. CASE t.kind[c] # "space"
  <2>1. Home(t, c) = Home(t, m)
    <3>1. CASE t.kind[c] = "callout"
      BY <1>1, <3>1, PlaceFacts, KindsDiffer
    <3>2. CASE t.kind[c] \in Contribution
      BY <1>1, <3>2, PlaceFacts, KindsDiffer
    <3> QED BY <1>1, <1>5, <3>1, <3>2
  <2> QED BY <1>3, <1>5, <2>1 DEF Reached
<1> QED BY <1>4, <1>5

\* In a knowledge base that has no subspaces the only space is the root.
LEMMA RootAlone ==
  ASSUME NEW t, Answered(t), NEW n \in t.nodes, Home(t, n) = t.root,
         NEW m \in Above(t, n), t.kind[m] = "space"
  PROVE  m = t.root
<1>1. t.root \in t.nodes
  BY DEF Answered
<1>2. Up(t, t.root) = t.root /\ Up(t, n) \in t.nodes
  BY <1>1, UpFacts
<1>3. m \in {n, Up(t, n), Up(t, Up(t, n)), Up(t, Up(t, Up(t, n))), t.root}
  BY DEF Above
<1>4. CASE t.kind[n] = "space"
  BY <1>2, <1>3, <1>4, PlaceFacts
<1>5. CASE t.kind[n] = "callout"
  <2>1. Up(t, n) = t.root
    BY <1>5, PlaceFacts
  <2>2. m # n
    BY <1>5, KindsDiffer
  <2> QED BY <1>2, <1>3, <2>1, <2>2
<1>6. CASE t.kind[n] \in Contribution
  <2>1. Up(t, Up(t, n)) = t.root /\ t.kind[Up(t, n)] = "callout"
    BY <1>6, PlaceFacts, KindFacts, KindsDiffer
  <2>2. m # n /\ m # Up(t, n)
    BY <1>6, <2>1, KindsDiffer
  <2> QED BY <1>2, <1>3, <2>1, <2>2
<1> QED BY <1>4, <1>5, <1>6, KindFacts

\* The visits that are due are on different ways.
Apart(t, T) == \A m \in T, n \in T : m \in Above(t, n) => m = n

\* What is due after the visit of n, of those due, T.
NowDue(t, T, n) == (T \ {n}) \cup Below(t, n)

\* One visit n of those due, T, is replaced by visits below it: they stay apart,
\* nothing that was left behind is due again, n included, and what is legible
\* and was to come is still to come, n excepted.
LEMMA Advance ==
  ASSUME NEW t, Answered(t), NEW T, T \subseteq t.nodes, Apart(t, T),
         NEW n \in T, Reached(t, n)
  PROVE  /\ Below(t, n) \cap T = {} /\ Below(t, n) \subseteq t.nodes
         /\ Apart(t, NowDue(t, T, n))
         /\ \A d \in t.nodes :
              Above(t, d) \cap T = {} => Above(t, d) \cap NowDue(t, T, n) = {}
         /\ Above(t, n) \cap NowDue(t, T, n) = {}
         /\ \A m \in Legible(t) : Above(t, m) \cap T # {} =>
              m = n \/ Above(t, m) \cap NowDue(t, T, n) # {}
<1> DEFINE U == (T \ {n}) \cup Below(t, n)
<1>1. n \in t.nodes
  OBVIOUS
<1>2. ASSUME NEW c \in Below(t, n)
      PROVE  /\ c \in t.nodes /\ c \in ToSet(t.children[n]) /\ n \in Above(t, n)
             /\ Above(t, c) = {c} \cup Above(t, n) /\ c \notin Above(t, n)
             /\ c \notin T
  <2>1. c \in ToSet(t.children[n])
    BY DEF Below
  <2>2. c \in t.nodes
    BY <1>1, <2>1, ChildFacts
  <2>3. Above(t, c) = {c} \cup Above(t, n) /\ c \notin Above(t, n) /\ n \in Above(t, n)
    BY <1>1, <2>1, ChildAbove, WayUp
  <2>4. c \notin T
    BY <2>3 DEF Apart
  <2> QED BY <2>1, <2>2, <2>3, <2>4
<1>3. ASSUME NEW d \in t.nodes, NEW c \in Below(t, n), c \in Above(t, d)
      PROVE  n \in Above(t, d)
  BY <1>1, <1>2, <1>3, StepAbove
<1>4. Apart(t, U)
  <2> SUFFICES ASSUME NEW a \in U, NEW b \in U, a \in Above(t, b) PROVE a = b
    BY DEF Apart
  <2>1. CASE a \in T \ {n} /\ b \in T \ {n}
    BY <2>1 DEF Apart
  <2>2. CASE a \in T \ {n} /\ b \in Below(t, n)
    <3>1. a = b \/ a \in Above(t, n)
      BY <1>2, <2>2
    <3> QED BY <2>2, <3>1 DEF Apart
  <2>3. CASE a \in Below(t, n) /\ b \in T \ {n}
    <3>1. n \in Above(t, b)
      BY <1>3, <2>3
    <3> QED BY <2>3, <3>1 DEF Apart
  <2>4. CASE a \in Below(t, n) /\ b \in Below(t, n)
    BY <1>2, <2>4
  <2> QED BY <2>1, <2>2, <2>3, <2>4
<1>5. ASSUME NEW d \in t.nodes, Above(t, d) \cap T = {} PROVE Above(t, d) \cap U = {}
  BY <1>3, <1>5
<1>6. Above(t, n) \cap U = {}
  BY <1>2 DEF Apart
<1>7. ASSUME NEW m \in Legible(t), NEW x \in Above(t, m) \cap T, m # n
      PROVE  Above(t, m) \cap U # {}
  <2>1. CASE x # n
    BY <2>1
  <2>2. CASE x = n
    <3>1. m \in t.nodes /\ Identified(t, n) /\ (t.base => Home(t, m) = t.root)
      BY <2>2 DEF Legible
    <3>2. PICK c \in ToSet(t.children[n]) : c \in Above(t, m)
      BY <1>7, <2>2, <3>1, StepBelow
    <3>3. c # t.root
      BY <1>1, ChildFacts
    <3>4. ~(t.base /\ t.kind[c] = "space")
      BY <3>1, <3>2, <3>3, RootAlone
    <3>5. Reached(t, c)
      BY <1>1, <3>1, <3>4, ChildReached
    <3> QED BY <3>2, <3>5 DEF Below
  <2> QED BY <2>1, <2>2
<1>8. Below(t, n) \cap T = {} /\ Below(t, n) \subseteq t.nodes
  BY <1>2
<1>9. NowDue(t, T, n) = U
  BY DEF NowDue
<1> HIDE DEF U
<1> QED BY <1>4, <1>5, <1>6, <1>7, <1>8, <1>9

-----------------------------------------------------------------------------
(* Documents and visits.                                                   *)

AnyContent == [parts : Seq(Text), url : Url \cup {NoUrl}]
DocType == {"space", "subspace", "knowledge", "callout"} \cup Contribution
Document == [id : Node, pos : Position, type : DocType, content : AnyContent]
Visit == [node : Node, pos : Position, depth : 0 .. 3]

LEMMA TextFacts ==
  ASSUME NEW t \in Trees, NEW n \in Node
  PROVE  /\ t.text[n] \in Text /\ t.title[n] \in Text
         /\ "#" \in Text /\ "body" \in Text
<1>1. t.text[n] \in Words(t) /\ t.title[n] \in Words(t)
  BY DEF Words
<1> QED BY <1>1 DEF Text

LEMMA ContentTyped ==
  ASSUME NEW p \in Seq(Text), NEW u \in Url \cup {NoUrl}
  PROVE  Content(p, u) \in AnyContent
<1>1. Kept(p, Text \ {Absent, "markup"}) \in Seq(Text)
  BY KeptFacts
<1> QED BY <1>1 DEF Content, AnyContent

LEMMA Joins ==
  ASSUME NEW S, NEW p \in Seq(S), NEW q \in Seq(S)
  PROVE  p \o q \in Seq(S)
OBVIOUS

\* What a node says is a content, and depends on the tree and, for a link, on
\* what was fetched for it.
LEMMA SaysContent ==
  ASSUME tree \in Trees, NEW n \in Node, NEW c, c \in Node \/ tree.kind[n] \in {"space", "callout"}
  PROVE  /\ TextOf(n, c) \in AnyContent
         /\ \A body \in {Absent, "body"} : 
              c \in Node /\ tree.uri[n] \in Url \cup {NoUrl} => LinkText(n, c, body) \in AnyContent
<1>1. tree.text[n] \in Text /\ tree.title[n] \in Text /\ "#" \in Text /\ "body" \in Text
  BY TextFacts
<1>2. Nothing \in AnyContent
  <2>1. <<>> \in Seq(Text)
    OBVIOUS
  <2> QED BY <2>1, ContentTyped DEF Nothing
<1>3. Heading(n) \in Seq(Text)
  BY <1>1 DEF Heading
<1>4. c \in Node => Context(c) \in Seq(Text)
  <2>1. c \in Node => tree.text[c] \in Text /\ tree.title[c] \in Text
    BY TextFacts
  <2> QED BY <2>1 DEF Context
<1>5. <<tree.text[n]>> \in Seq(Text) /\ <<tree.title[n], tree.text[n]>> \in Seq(Text)
  BY <1>1
<1>6. c \in Node => Context(c) \o Heading(n) \o <<tree.text[n]>> \in Seq(Text)
  <2> SUFFICES ASSUME c \in Node PROVE Context(c) \o Heading(n) \o <<tree.text[n]>> \in Seq(Text)
    OBVIOUS
  <2>1. Context(c) \o Heading(n) \in Seq(Text)
    BY <1>3, <1>4, Joins
  <2> QED BY <1>5, <2>1, Joins
<1>7. TextOf(n, c) \in AnyContent
  BY <1>2, <1>5, <1>6, ContentTyped DEF TextOf
<1>8. ASSUME NEW body \in {Absent, "body"}, c \in Node, tree.uri[n] \in Url \cup {NoUrl}
      PROVE  LinkText(n, c, body) \in AnyContent
  <2>1. ASSUME body # Absent PROVE Content(Heading(n) \o <<tree.text[n], body>>, NoUrl) \in AnyContent
    <3>1. <<tree.text[n], body>> \in Seq(Text)
      BY <1>1, <2>1
    <3>2. Heading(n) \o <<tree.text[n], body>> \in Seq(Text)
      BY <1>3, <3>1, Joins
    <3> QED BY <3>2, ContentTyped
  <2>2. Content(Context(c) \o Heading(n) \o <<tree.text[n]>>, tree.uri[n]) \in AnyContent
    BY <1>6, <1>8, ContentTyped
  <2> QED BY <1>2, <2>1, <2>2 DEF LinkText
<1> QED BY <1>7, <1>8

\* No content twice.
Distinct(docs) == \A i, j \in DOMAIN docs : docs[i].content = docs[j].content => i = j

\* _append_unique adds at most the document it is given, and afterwards its
\* content is there.
LEMMA AppendUniqueFacts ==
  ASSUME NEW docs \in Seq(Document), Distinct(docs), NEW n \in Node, NEW type \in DocType,
         NEW content \in AnyContent, NEW pos \in Position
  PROVE  LET all == AppendUnique(docs, n, type, content, pos)
         IN  /\ all \in Seq(Document) /\ Distinct(all)
             /\ ToSet(docs) \subseteq ToSet(all)
             /\ \A d \in ToSet(all) : \/ d \in ToSet(docs)
                                      \/ d.id = n /\ d.content = content /\ d.pos = pos
                                         /\ content # Nothing
             /\ content = Nothing \/ \E d \in ToSet(all) : d.content = content
<1> DEFINE all == AppendUnique(docs, n, type, content, pos)
           new == [id |-> n, type |-> type, content |-> content, pos |-> pos]
<1>1. CASE content = Nothing \/ \E i \in DOMAIN docs : docs[i].content = content
  <2>1. all = docs
    BY <1>1 DEF AppendUnique
  <2>2. content = Nothing \/ \E d \in ToSet(docs) : d.content = content
    BY <1>1 DEF ToSet
  <2> QED BY <2>1, <2>2
<1>2. CASE ~(content = Nothing \/ \E i \in DOMAIN docs : docs[i].content = content)
  <2>1. all = Append(docs, new)
    BY <1>2 DEF AppendUnique
  <2>2. new \in Document /\ new.id = n /\ new.content = content /\ new.pos = pos
    BY DEF Document
  <2> HIDE DEF all, new
  <2>3. all \in Seq(Document) /\ ToSet(all) = ToSet(docs) \cup {new}
    BY <2>1, <2>2, AppendFacts
  <2>4. /\ Len(docs) \in Nat /\ DOMAIN docs = 1 .. Len(docs)
        /\ DOMAIN all = 1 .. Len(docs) + 1
        /\ \A i \in 1 .. Len(docs) : all[i] = docs[i]
        /\ all[Len(docs) + 1] = new
    BY <2>1, <2>2
  <2>5. Distinct(all)
    <3> SUFFICES ASSUME NEW i \in 1 .. Len(docs) + 1, NEW j \in 1 .. Len(docs) + 1,
                        all[i].content = all[j].content
                 PROVE  i = j
      BY <2>4 DEF Distinct
    <3>1. CASE i \in 1 .. Len(docs) /\ j \in 1 .. Len(docs)
      BY <2>4, <3>1 DEF Distinct
    <3>2. CASE i = Len(docs) + 1 /\ j \in 1 .. Len(docs)
      BY <1>2, <2>2, <2>4, <3>2
    <3>3. CASE j = Len(docs) + 1 /\ i \in 1 .. Len(docs)
      BY <1>2, <2>2, <2>4, <3>3
    <3>4. CASE i = Len(docs) + 1 /\ j = Len(docs) + 1
      BY <3>4
    <3> QED BY <2>4, <3>1, <3>2, <3>3, <3>4
  <2>6. \A d \in ToSet(all) : \/ d \in ToSet(docs)
                              \/ d.id = n /\ d.content = content /\ d.pos = pos
                                 /\ content # Nothing
    BY <1>2, <2>2, <2>3
  <2>7. new \in ToSet(all)
    BY <2>3
  <2> QED BY <2>2, <2>3, <2>5, <2>6, <2>7 DEF all
<1> QED BY <1>1, <1>2

\* The visits of nodes whose places follow from the one that is given.
LEMMA VisitsFacts ==
  ASSUME NEW t \in Trees, Answered(t), NEW nodes \in Seq(t.nodes), NEW pos, NEW depth,
         \A c \in ToSet(nodes) : VisitOf(t, c) = [node |-> c, pos |-> pos, depth |-> depth]
  PROVE  /\ Visits(nodes, pos, depth) \in Seq(Visit)
         /\ ToSet(Visits(nodes, pos, depth)) = {VisitOf(t, c) : c \in ToSet(nodes)}
         /\ IsInjective(nodes) => IsInjective(Visits(nodes, pos, depth))
<1> DEFINE s == Visits(nodes, pos, depth)
<1>1. Len(nodes) \in Nat /\ DOMAIN nodes = 1 .. Len(nodes) /\ ToSet(nodes) \subseteq t.nodes
  BY Members
<1>2. \A i \in 1 .. Len(nodes) : nodes[i] \in ToSet(nodes)
  BY <1>1 DEF ToSet
<1>3. /\ DOMAIN s = 1 .. Len(nodes)
      /\ \A i \in 1 .. Len(nodes) : s[i] = [node |-> nodes[i], pos |-> pos, depth |-> depth]
  BY <1>1 DEF Visits
<1>4. \A i \in 1 .. Len(nodes) : s[i] = VisitOf(t, nodes[i])
  BY <1>2, <1>3
<1>5. \A i \in 1 .. Len(nodes) : s[i] \in Visit
  <2>1. \A c \in t.nodes : VisitOf(t, c) \in Visit
    BY PlaceTyped DEF Visit
  <2> QED BY <1>1, <1>2, <1>4, <2>1
<1>6. s = [i \in 1 .. Len(nodes) |-> s[i]]
  BY <1>1 DEF Visits
<1> HIDE DEF s
<1>7. s \in Seq(Visit)
  BY <1>1, <1>5, <1>6
<1>8. ToSet(s) = {VisitOf(t, c) : c \in ToSet(nodes)}
  BY <1>1, <1>3, <1>4 DEF ToSet
<1>9. \A i \in 1 .. Len(nodes) : s[i].node = nodes[i]
  BY <1>3
<1>10. IsInjective(nodes) => IsInjective(s)
  BY <1>1, <1>3, <1>9 DEF IsInjective
<1> QED BY <1>7, <1>8, <1>10 DEF s

-----------------------------------------------------------------------------
(* What a visit leads to.                                                  *)

LEMMA ChildrenFacts ==
  ASSUME Answered(tree), NEW n \in tree.nodes, NEW kinds
  PROVE  /\ Children(n, kinds) \in Seq(tree.nodes) /\ IsInjective(Children(n, kinds))
         /\ ToSet(Children(n, kinds)) = {c \in ToSet(tree.children[n]) : tree.kind[c] \in kinds}
<1> DEFINE some == {c \in tree.nodes : tree.kind[c] \in kinds}
<1>1. tree.children[n] \in Seq(tree.nodes) /\ IsInjective(tree.children[n])
  <2>1. tree.children[n] \in Seq(tree.nodes \ {tree.root}) /\ IsInjective(tree.children[n])
    BY DEF Answered
  <2> QED BY <2>1
<1>2. ToSet(tree.children[n]) \subseteq tree.nodes
  BY <1>1, Members
<1>3. ToSet(tree.children[n]) \cap some = {c \in ToSet(tree.children[n]) : tree.kind[c] \in kinds}
  BY <1>2
<1>4. Children(n, kinds) = Kept(tree.children[n], some)
  BY DEF Children
<1> HIDE DEF some
<1> QED BY <1>1, <1>3, <1>4, KeptFacts

\* A space is followed by its callouts and its subspaces.
LEMMA SpaceExpands ==
  ASSUME tree \in Trees, Answered(tree), NEW n \in tree.nodes, tree.kind[n] = "space",
         Reached(tree, n), Identified(tree, n), NEW pos, pos = PositionOf(tree, n)
  PROVE  /\ ChildVisits(n, pos, pos.depth) \in Seq(Visit)
         /\ IsInjective(ChildVisits(n, pos, pos.depth))
         /\ ToSet(ChildVisits(n, pos, pos.depth)) = BelowVisits(tree, n)
<1> DEFINE C == Children(n, {"callout"})
           S == Subspaces(n)
           below == ToSet(tree.children[n])
<1>1. /\ C \in Seq(tree.nodes) /\ IsInjective(C)
      /\ ToSet(C) = {c \in below : tree.kind[c] = "callout"}
  BY ChildrenFacts
<1>2. /\ S \in Seq(tree.nodes) /\ IsInjective(S)
      /\ ToSet(S) = {c \in below : tree.kind[c] = "space" /\ ~tree.base}
  <2>1. CASE tree.base
    <3>1. S = <<>>
      BY <2>1 DEF Subspaces
    <3>2. <<>> \in Seq(tree.nodes) /\ IsInjective(<<>>) /\ ToSet(<<>>) = {}
      BY DEF IsInjective, ToSet
    <3> QED BY <2>1, <3>1, <3>2
  <2>2. CASE ~tree.base
    <3>1. S = Children(n, {"space"})
      BY <2>2 DEF Subspaces
    <3> HIDE DEF S
    <3> QED BY <2>2, <3>1, ChildrenFacts
  <2> QED BY <2>1, <2>2
<1>3. \A c \in below : /\ c \in tree.nodes /\ c # tree.root /\ Up(tree, c) = n
                       /\ tree.kind[c] \in {"space", "callout"} /\ tree.kind[c] \notin Contribution
  BY ChildFacts, KindsDiffer
<1>4. \A c \in below : VisitOf(tree, c) = [node |-> c, pos |-> pos, depth |-> PositionOf(tree, c).depth]
  BY <1>3 DEF VisitOf
<1>5. \A c \in below : /\ tree.kind[c] = "callout" => PositionOf(tree, c).depth = pos.depth
                       /\ tree.kind[c] = "space" => PositionOf(tree, c).depth = pos.depth + 1
  BY ChildPlace
<1> DEFINE VC == Visits(C, pos, pos.depth)
           VS == Visits(S, pos, pos.depth + 1)
<1>6. ChildVisits(n, pos, pos.depth) = VC \o VS
  BY DEF ChildVisits
<1> HIDE DEF C, S
<1>7. VC \in Seq(Visit) /\ ToSet(VC) = {VisitOf(tree, c) : c \in ToSet(C)} /\ IsInjective(VC)
  <2>1. \A c \in ToSet(C) : VisitOf(tree, c) = [node |-> c, pos |-> pos, depth |-> pos.depth]
    BY <1>1, <1>4, <1>5
  <2> QED BY <1>1, <2>1, VisitsFacts
<1>8. VS \in Seq(Visit) /\ ToSet(VS) = {VisitOf(tree, c) : c \in ToSet(S)} /\ IsInjective(VS)
  <2>1. \A c \in ToSet(S) : VisitOf(tree, c) = [node |-> c, pos |-> pos, depth |-> pos.depth + 1]
    BY <1>2, <1>4, <1>5
  <2> QED BY <1>2, <2>1, VisitsFacts
<1>9. \A c : VisitOf(tree, c).node = c
  BY DEF VisitOf
<1>10. ToSet(C) \cap ToSet(S) = {}
  BY <1>1, <1>2, KindsDiffer
<1>11. Below(tree, n) = ToSet(C) \cup ToSet(S)
  <2>1. \A c \in below : Reached(tree, c) <=> ~(tree.base /\ tree.kind[c] = "space")
    BY ChildReached
  <2>2. Below(tree, n) = {c \in below : ~(tree.base /\ tree.kind[c] = "space")}
    BY <2>1 DEF Below
  <2>3. \A c \in below : tree.kind[c] = "callout" \/ tree.kind[c] = "space"
    BY <1>3
  <2> HIDE DEF below
  <2> QED BY <1>1, <1>2, <2>2, <2>3, KindsDiffer
<1> HIDE DEF VC, VS
<1>12. ToSet(VC) \cap ToSet(VS) = {}
  BY <1>7, <1>8, <1>9, <1>10
<1>13. VC \o VS \in Seq(Visit) /\ IsInjective(VC \o VS) /\ ToSet(VC \o VS) = ToSet(VC) \cup ToSet(VS)
  <2>1. VC \in Seq(Visit) /\ VS \in Seq(Visit)
    BY <1>7, <1>8
  <2>2. IsInjective(VC) /\ IsInjective(VS)
    BY <1>7, <1>8
  <2> QED BY <1>12, <2>1, <2>2, ConcatFacts
<1>14. ToSet(VC) \cup ToSet(VS) = BelowVisits(tree, n)
  BY <1>7, <1>8, <1>11 DEF BelowVisits
<1> QED BY <1>6, <1>13, <1>14

\* A callout is followed by its contributions.
LEMMA CalloutExpands ==
  ASSUME tree \in Trees, Answered(tree), NEW n \in tree.nodes, tree.kind[n] = "callout",
         Reached(tree, n), Identified(tree, n), NEW pos, pos = PositionOf(tree, n)
  PROVE  LET s == Visits(Children(n, Contribution), ForContribution(pos), 3)
         IN  /\ s \in Seq(Visit) /\ IsInjective(s)
             /\ ToSet(s) = BelowVisits(tree, n)
<1> DEFINE K == Children(n, Contribution)
           at == ForContribution(pos)
           below == ToSet(tree.children[n])
<1>1. \A c \in below : c \in tree.nodes /\ c # tree.root /\ tree.kind[c] \in Contribution
  BY ChildFacts, KindsDiffer
<1>2. K \in Seq(tree.nodes) /\ IsInjective(K) /\ ToSet(K) = below
  <2>1. {c \in below : tree.kind[c] \in Contribution} = below
    BY <1>1
  <2> QED BY <2>1, ChildrenFacts
<1>3. \A c \in below : PositionOf(tree, c) = at /\ PositionOf(tree, c).depth = 3
  BY <1>1, ChildPlace
<1> HIDE DEF at
<1>4. \A c \in below : VisitOf(tree, c) = [node |-> c, pos |-> at, depth |-> 3]
  BY <1>1, <1>3 DEF VisitOf
<1>5. Below(tree, n) = below
  <2>1. ASSUME NEW c \in below PROVE Reached(tree, c)
    <3>1. tree.kind[c] # "space"
      BY <1>1, KindsDiffer
    <3> QED BY <3>1, ChildReached
  <2> QED BY <2>1 DEF Below
<1> HIDE DEF K
<1>6. /\ Visits(K, at, 3) \in Seq(Visit) /\ IsInjective(Visits(K, at, 3))
      /\ ToSet(Visits(K, at, 3)) = {VisitOf(tree, c) : c \in ToSet(K)}
  BY <1>2, <1>4, VisitsFacts
<1> QED BY <1>2, <1>5, <1>6 DEF K, at, BelowVisits

\* Nothing comes below a contribution or what could not be read.
LEMMA NothingBelow ==
  ASSUME Answered(tree), NEW n \in tree.nodes,
         tree.kind[n] \in Contribution \/ ~Identified(tree, n)
  PROVE  Below(tree, n) = {}
<1> SUFFICES ASSUME NEW c \in ToSet(tree.children[n]), Reached(tree, c) PROVE FALSE
  BY DEF Below
<1>1. Identified(tree, n)
  BY ChildReached
<1>2. tree.kind[n] \in {"space", "callout"}
  BY ChildFacts
<1> QED BY <1>1, <1>2, KindsDiffer

\* The nodes whose visits are due.
Pending(q) == {v.node : v \in ToSet(q)}

\* The visits that are due are at their places, of nodes that are reached, and
\* none is below another.
InPlace(t, q) ==
    /\ q \in Seq(Visit) /\ IsInjective(q)
    /\ \A v \in ToSet(q) :
         /\ v.node \in t.nodes /\ v = VisitOf(t, v.node)
         /\ Reached(t, v.node)
    /\ Apart(t, Pending(q))

\* A visit that is replaced by those below it leaves the others where they are.
LEMMA Replaced ==
  ASSUME NEW t, Answered(t), NEW q, InPlace(t, q), q # <<>>,
         NEW n, n = q[1].node, NEW s \in Seq(Visit), IsInjective(s),
         ToSet(s) = BelowVisits(t, n)
  PROVE  /\ InPlace(t, s \o Tail(q))
         /\ Pending(s \o Tail(q)) = NowDue(t, Pending(q), n)
         /\ n \in Pending(q) /\ q[1] = VisitOf(t, n) /\ Reached(t, n)
<1> DEFINE T == Pending(q)
           rest == Tail(q)
           U == NowDue(t, T, n)
<1>1. /\ q \in Seq(Visit) /\ IsInjective(q) /\ Apart(t, T)
      /\ \A v \in ToSet(q) : v.node \in t.nodes /\ v = VisitOf(t, v.node) /\ Reached(t, v.node)
  BY DEF InPlace
<1>2. /\ rest \in Seq(Visit) /\ IsInjective(rest)
      /\ ToSet(q) = {q[1]} \cup ToSet(rest) /\ q[1] \notin ToSet(rest)
  BY <1>1, TailFacts
<1> HIDE DEF rest
<1>3. q[1] \in ToSet(q) /\ q[1] = VisitOf(t, n) /\ Reached(t, n)
  BY <1>1, <1>2
<1>4. T \subseteq t.nodes /\ n \in T
  BY <1>1, <1>3 DEF Pending
<1>5. Pending(rest) = T \ {n}
  <2>1. \A v \in ToSet(rest) : v.node # n
    BY <1>1, <1>2, <1>3
  <2> QED BY <1>2, <2>1 DEF Pending
<1>6. \A c : VisitOf(t, c).node = c
  BY DEF VisitOf
<1>7. Pending(s) = Below(t, n)
  BY <1>6 DEF Pending, BelowVisits
<1>8. /\ Below(t, n) \cap T = {} /\ Below(t, n) \subseteq t.nodes /\ Apart(t, U)
  BY <1>1, <1>3, <1>4, Advance
<1>9. ToSet(s) \cap ToSet(rest) = {}
  <2> SUFFICES ASSUME NEW v \in ToSet(s), v \in ToSet(rest) PROVE FALSE
    OBVIOUS
  <2>1. v.node \in Below(t, n)
    BY <1>7 DEF Pending
  <2>2. v.node \in T
    BY <1>2 DEF Pending
  <2> QED BY <1>8, <2>1, <2>2
<1>10. s \o rest \in Seq(Visit) /\ ToSet(s \o rest) = ToSet(s) \cup ToSet(rest)
  BY <1>2, ConcatFacts
<1>11. IsInjective(s \o rest)
  BY <1>2, <1>9, ConcatFacts
<1>12. Pending(s \o rest) = U
  <2>1. Pending(s \o rest) = Pending(s) \cup Pending(rest)
    BY <1>10 DEF Pending
  <2> QED BY <1>5, <1>7, <2>1 DEF NowDue
<1>13. ASSUME NEW v \in ToSet(s \o rest)
       PROVE  v.node \in t.nodes /\ v = VisitOf(t, v.node) /\ Reached(t, v.node)
  <2>1. CASE v \in ToSet(s)
    <3>1. PICK c \in Below(t, n) : v = VisitOf(t, c)
      BY <2>1 DEF BelowVisits
    <3>2. v.node = c
      BY <1>6, <3>1
    <3> QED BY <1>8, <3>1, <3>2 DEF Below
  <2>2. CASE v \in ToSet(rest)
    BY <1>1, <1>2, <2>2
  <2> QED BY <1>10, <2>1, <2>2
<1> HIDE DEF U
<1>14. InPlace(t, s \o rest)
  BY <1>8, <1>10, <1>11, <1>12, <1>13 DEF InPlace
<1> QED BY <1>3, <1>4, <1>12, <1>14 DEF U, rest

\* A document is of a legible node that the walk has left behind.
Emitted(t, says, docs, T) ==
    /\ docs \in Seq(Document) /\ Distinct(docs)
    /\ \A d \in ToSet(docs) :
         /\ d.id \in Legible(t) /\ d.pos = PositionOf(t, d.id)
         /\ d.content = says[d.id] /\ d.content # Nothing
         /\ Above(t, d.id) \cap T = {}

\* The walk still comes to a node, or a document has what it says.
Covered(t, says, docs, T) ==
    \A n \in Legible(t) : \/ Above(t, n) \cap T # {}
                          \/ says[n] = Nothing
                          \/ \E d \in ToSet(docs) : d.content = says[n]

\* The documents after the visit of n.
WithSay(t, docs, n, type, content) ==
    IF Identified(t, n) THEN AppendUnique(docs, n, type, content, PositionOf(t, n)) ELSE docs

\* A visit ends: its node, if it is legible, has its say and the walk goes on
\* below it.
LEMMA Visited ==
  ASSUME NEW t, Answered(t), t.nodes \subseteq Node, NEW T, T \subseteq t.nodes, Apart(t, T),
         NEW n \in T, Reached(t, n),
         NEW says, NEW says2, \A m \in t.nodes \ {n} : says2[m] = says[m],
         NEW docs, Emitted(t, says, docs, T), Covered(t, says, docs, T),
         NEW type \in DocType, NEW content \in AnyContent, content = says2[n],
         PositionOf(t, n) \in Position
  PROVE  /\ Emitted(t, says2, WithSay(t, docs, n, type, content), NowDue(t, T, n))
         /\ Covered(t, says2, WithSay(t, docs, n, type, content), NowDue(t, T, n))
<1> DEFINE more == WithSay(t, docs, n, type, content)
           U == NowDue(t, T, n)
<1>1. /\ \A d \in t.nodes : Above(t, d) \cap T = {} => Above(t, d) \cap U = {}
      /\ Above(t, n) \cap U = {}
      /\ \A m \in Legible(t) : Above(t, m) \cap T # {} => m = n \/ Above(t, m) \cap U # {}
  BY Advance
<1>2. n \in t.nodes /\ (n \in Legible(t) <=> Identified(t, n))
  BY LegibleIsReached
<1>3. Legible(t) \subseteq t.nodes
  BY DEF Legible
<1>4. \A m \in t.nodes : m \in Above(t, m)
  BY WayUp
<1>5. /\ docs \in Seq(Document) /\ Distinct(docs)
      /\ \A d \in ToSet(docs) :
           /\ d.id \in Legible(t) /\ d.pos = PositionOf(t, d.id)
           /\ d.content = says[d.id] /\ d.content # Nothing
           /\ Above(t, d.id) \cap T = {}
  BY DEF Emitted
<1>6. /\ more \in Seq(Document) /\ Distinct(more) /\ ToSet(docs) \subseteq ToSet(more)
      /\ \A d \in ToSet(more) : \/ d \in ToSet(docs)
                                \/ /\ Identified(t, n) /\ d.id = n /\ d.content = content
                                   /\ d.pos = PositionOf(t, n) /\ content # Nothing
      /\ Identified(t, n) => content = Nothing \/ \E d \in ToSet(more) : d.content = content
  <2>1. CASE Identified(t, n)
    <3>1. more = AppendUnique(docs, n, type, content, PositionOf(t, n)) /\ n \in Node
      BY <1>2, <2>1 DEF WithSay
    <3> HIDE DEF more
    <3> QED BY <1>5, <2>1, <3>1, AppendUniqueFacts
  <2>2. CASE ~Identified(t, n)
    BY <1>5, <2>2 DEF WithSay
  <2> QED BY <2>1, <2>2
<1> HIDE DEF more, U
<1>7. ASSUME NEW d \in ToSet(docs)
      PROVE  /\ d.id \in Legible(t) /\ d.pos = PositionOf(t, d.id)
             /\ d.content = says2[d.id] /\ d.content # Nothing
             /\ Above(t, d.id) \cap U = {}
  <2>1. d.id \in t.nodes /\ Above(t, d.id) \cap T = {}
    BY <1>3, <1>5
  <2>2. d.id # n
    BY <1>4, <2>1
  <2> QED BY <1>1, <1>5, <2>1, <2>2
<1>8. ASSUME NEW d \in ToSet(more), d \notin ToSet(docs)
      PROVE  /\ d.id \in Legible(t) /\ d.pos = PositionOf(t, d.id)
             /\ d.content = says2[d.id] /\ d.content # Nothing
             /\ Above(t, d.id) \cap U = {}
  BY <1>1, <1>2, <1>6, <1>8
<1>9. Emitted(t, says2, more, U)
  BY <1>6, <1>7, <1>8 DEF Emitted
<1>10. ASSUME NEW m \in Legible(t), Above(t, m) \cap U = {}, says2[m] # Nothing
       PROVE  \E d \in ToSet(more) : d.content = says2[m]
  <2>1. CASE m = n
    BY <1>2, <1>6, <1>10, <2>1
  <2>2. CASE m # n
    <3>1. Above(t, m) \cap T = {}
      BY <1>1, <1>10, <2>2
    <3>2. says2[m] = says[m]
      BY <1>3, <2>2
    <3>3. \E d \in ToSet(docs) : d.content = says[m]
      BY <1>10, <3>1, <3>2 DEF Covered
    <3> QED BY <1>6, <3>2, <3>3
  <2> QED BY <2>1, <2>2
<1>11. Covered(t, says2, more, U)
  BY <1>10 DEF Covered
<1> QED BY <1>9, <1>11 DEF more, U

\* At the root nothing has been said and everything is to come.
LEMMA WalkStarts ==
  ASSUME NEW t \in Trees, Answered(t), NEW says, NEW q,
         q = <<[node |-> t.root, pos |-> NoPosition, depth |-> 0]>>
  PROVE  /\ InPlace(t, q)
         /\ Emitted(t, says, <<>>, Pending(q)) /\ Covered(t, says, <<>>, Pending(q))
<1> DEFINE v == VisitOf(t, t.root)
<1>1. t.root \in t.nodes /\ t.kind[t.root] = "space" /\ Up(t, t.root) = t.root
  BY UpFacts DEF Answered
<1>2. PositionOf(t, t.root).depth = 0
  BY <1>1, KindsDiffer, PlaceFacts DEF PositionOf, Level
<1>3. v = [node |-> t.root, pos |-> NoPosition, depth |-> 0] /\ v.node = t.root
  BY <1>2 DEF VisitOf
<1>4. v \in Visit
  BY <1>1, PlaceTyped DEF Visit
<1>5. Reached(t, t.root)
  <2>1. Above(t, t.root) = {t.root}
    BY <1>1 DEF Above
  <2>2. Home(t, t.root) = t.root
    BY <1>1, PlaceFacts
  <2> QED BY <2>1, <2>2 DEF Reached
<1>6. q = <<v>>
  BY <1>3
<1> HIDE DEF v
<1>7. q \in Seq(Visit) /\ IsInjective(q) /\ ToSet(q) = {v}
  <2>1. Len(q) = 1 /\ DOMAIN q = 1 .. 1 /\ q[1] = v /\ q \in Seq(Visit)
    BY <1>4, <1>6
  <2>2. \A i \in DOMAIN q : i = 1
    BY <2>1
  <2> QED BY <2>1, <2>2 DEF IsInjective, ToSet
<1>8. Pending(q) = {t.root}
  BY <1>3, <1>7 DEF Pending
<1>9. InPlace(t, q)
  <2>1. Apart(t, {t.root})
    BY DEF Apart
  <2> QED BY <1>1, <1>3, <1>5, <1>7, <1>8, <2>1 DEF InPlace, v
<1>10. Emitted(t, says, <<>>, Pending(q))
  <2>1. <<>> \in Seq(Document) /\ Distinct(<<>>) /\ ToSet(<<>>) = {}
    BY DEF Distinct, ToSet
  <2> QED BY <2>1 DEF Emitted
<1>11. Covered(t, says, <<>>, Pending(q))
  <2>1. \A n : t.root \in Above(t, n)
    BY DEF Above
  <2> QED BY <1>8, <2>1 DEF Covered
<1> QED BY <1>9, <1>10, <1>11

\* What the nodes say, as far as the links have been fetched.
Contents == [n \in tree.nodes |-> ContentOf(n)]

\* What the phases say of the walk.
PhaseInv ==
    /\ phase \in {"login", "query", "walk", "fetch", "cleanup", "ingest", "failed"}
    /\ attempt \in 0 .. MaxRetries
    /\ phase \in {"login", "query"} => attempt < MaxRetries /\ todo = <<>> /\ documents = <<>>
    /\ phase = "fetch" => /\ todo # <<>> /\ tree.kind[todo[1].node] = "link"
                          /\ tree.uri[todo[1].node] # NoUrl
    /\ phase \in {"cleanup", "ingest"} => todo = <<>>

\* Only what has a URI has been fetched.
FetchedInv ==
    /\ fetched \in [Node -> {Absent, "body"}]
    /\ \A n \in tree.nodes : fetched[n] # Absent => tree.uri[n] # NoUrl

\* The state of the walk: what is due is in place, what was emitted is final,
\* and what was passed is said.
WalkInv ==
    /\ GuardTypes /\ tree \in Trees /\ token \in BOOLEAN
    /\ FetchedInv
    /\ PhaseInv
    /\ InPlace(tree, todo)
    /\ Emitted(tree, Contents, documents, Pending(todo))
    /\ phase \in {"walk", "fetch", "cleanup", "ingest"} =>
         Covered(tree, Contents, documents, Pending(todo))

\* With a visit due there is a tree.
LEMMA DueIsInTree ==
  ASSUME WalkInv, todo # <<>>
  PROVE  /\ Answered(tree) /\ tree.nodes \subseteq Node
         /\ todo[1].node \in tree.nodes /\ todo[1] = VisitOf(tree, todo[1].node)
         /\ Reached(tree, todo[1].node)
<1>1. tree \in Trees /\ InPlace(tree, todo)
  BY DEF WalkInv
<1>2. todo[1] \in ToSet(todo)
  BY <1>1, TailFacts DEF InPlace
<1>3. /\ todo[1].node \in tree.nodes /\ todo[1] = VisitOf(tree, todo[1].node)
      /\ Reached(tree, todo[1].node)
  BY <1>1, <1>2 DEF InPlace
<1>4. Answered(tree)
  BY <1>1, <1>3, TreeAssumption
<1>5. tree.nodes \subseteq Node
  BY <1>1 DEF Node
<1> QED BY <1>3, <1>4, <1>5

\* What a node says changes only with what was fetched for it.
LEMMA ContentStays ==
  ASSUME tree' = tree, NEW n, fetched'[n] = fetched[n]
  PROVE  ContentOf(n)' = ContentOf(n)
BY DEF ContentOf, TextOf, LinkText, Heading, Context

\* The end of a visit keeps the walk in order.
LEMMA VisitEnds ==
  ASSUME WalkInv, phase \in {"walk", "fetch"}, todo # <<>>, tree' = tree,
         NEW n, n = todo[1].node, \A m \in tree.nodes \ {n} : fetched'[m] = fetched[m],
         NEW type \in DocType, NEW content \in AnyContent, content = ContentOf(n)',
         documents' = WithSay(tree, documents, n, type, content),
         NEW s \in Seq(Visit), IsInjective(s), ToSet(s) = BelowVisits(tree, n),
         todo' = s \o Tail(todo)
  PROVE  /\ InPlace(tree, todo)'
         /\ Emitted(tree, Contents, documents, Pending(todo))'
         /\ Covered(tree, Contents, documents, Pending(todo))'
<1>1. /\ InPlace(tree, todo) /\ Emitted(tree, Contents, documents, Pending(todo))
      /\ Covered(tree, Contents, documents, Pending(todo)) /\ tree \in Trees
  BY DEF WalkInv
<1>2. Answered(tree) /\ tree.nodes \subseteq Node /\ n \in tree.nodes
  BY DueIsInTree
<1> DEFINE U == NowDue(tree, Pending(todo), n)
<1>3. /\ InPlace(tree, s \o Tail(todo)) /\ Pending(s \o Tail(todo)) = U
      /\ n \in Pending(todo) /\ Reached(tree, n)
  BY <1>1, <1>2, Replaced
<1>4. Pending(todo) \subseteq tree.nodes /\ Apart(tree, Pending(todo))
  BY <1>1 DEF InPlace, Pending
<1>5. PositionOf(tree, n) \in Position
  BY <1>1, <1>2, PlaceTyped
<1>6. PICK says2 : says2 = Contents'
  OBVIOUS
<1>7. says2 = [m \in tree.nodes |-> ContentOf(m)']
  BY <1>6 DEF Contents
<1>8. \A m \in tree.nodes \ {n} : says2[m] = Contents[m]
  <2> SUFFICES ASSUME NEW m \in tree.nodes \ {n} PROVE says2[m] = Contents[m]
    OBVIOUS
  <2>1. says2[m] = ContentOf(m)'
    BY <1>7
  <2>2. Contents[m] = ContentOf(m)
    BY DEF Contents
  <2> QED BY <2>1, <2>2, ContentStays
<1>9. content = says2[n]
  BY <1>2, <1>7
<1>10. PICK more : more = documents'
  OBVIOUS
<1> HIDE DEF U
<1>11. Emitted(tree, says2, more, U) /\ Covered(tree, says2, more, U)
  <2>1. more = WithSay(tree, documents, n, type, content)
    BY <1>10
  <2> QED BY <1>1, <1>2, <1>3, <1>4, <1>5, <1>8, <1>9, <2>1, Visited DEF U
<1>12. Pending(todo)' = U
  BY <1>3 DEF Pending
<1> QED BY <1>3, <1>6, <1>10, <1>11, <1>12

LEMMA VisitKeepsWalkInv ==
  ASSUME WalkInv, phase \in {"walk", "fetch"}, phase' = "walk", todo # <<>>,
         tree' = tree, token' = token, attempt' = attempt, GuardTypes', FetchedInv',
         NEW n, n = todo[1].node, \A m \in tree.nodes \ {n} : fetched'[m] = fetched[m],
         NEW type \in DocType, NEW content \in AnyContent, content = ContentOf(n)',
         documents' = WithSay(tree, documents, n, type, content),
         NEW s \in Seq(Visit), IsInjective(s), ToSet(s) = BelowVisits(tree, n),
         todo' = s \o Tail(todo)
  PROVE  WalkInv'
<1>1. /\ InPlace(tree, todo)'
      /\ Emitted(tree, Contents, documents, Pending(todo))'
      /\ Covered(tree, Contents, documents, Pending(todo))'
  BY VisitEnds
<1>2. tree' \in Trees /\ token' \in BOOLEAN /\ PhaseInv'
  BY DEF WalkInv, PhaseInv
<1> QED BY <1>1, <1>2 DEF WalkInv

\* What a node that is no link says, wherever it is asked.
LEMMA SaysText ==
  ASSUME WalkInv, NEW n \in tree.nodes, Answered(tree), tree.nodes \subseteq Node,
         tree.kind[n] # "link"
  PROVE  /\ ContentOf(n) = TextOf(n, PositionOf(tree, n).callout)
         /\ ContentOf(n) \in AnyContent
         /\ tree.kind[n] \in {"space", "callout"} => ContentOf(n) = TextOf(n, Absent)
<1>1. tree \in Trees /\ n \in Node
  BY DEF WalkInv
<1>2. PositionOf(tree, n).callout = CalloutOf(tree, n)
  BY DEF PositionOf
<1>3. ContentOf(n) = TextOf(n, CalloutOf(tree, n))
  BY DEF ContentOf
<1>4. CalloutOf(tree, n) \in Node \/ tree.kind[n] \in {"space", "callout"}
  <2>1. Up(tree, n) \in Node
    BY UpFacts
  <2> QED BY <2>1, KindFacts, PlaceFacts
<1>5. TextOf(n, CalloutOf(tree, n)) \in AnyContent
  BY <1>1, <1>4, SaysContent
<1>6. tree.kind[n] \in {"space", "callout"} => TextOf(n, CalloutOf(tree, n)) = TextOf(n, Absent)
  BY DEF TextOf
<1> QED BY <1>2, <1>3, <1>5, <1>6

LEMMA LinkSays ==
  ASSUME WalkInv, NEW n \in tree.nodes, Answered(tree), tree.nodes \subseteq Node,
         tree.kind[n] = "link", NEW body \in {Absent, "body"}
  PROVE  /\ LinkText(n, PositionOf(tree, n).callout, body) \in AnyContent
         /\ fetched[n] = body => ContentOf(n) = LinkText(n, PositionOf(tree, n).callout, body)
<1>1. tree \in Trees /\ n \in Node
  BY DEF WalkInv
<1>2. PositionOf(tree, n).callout = CalloutOf(tree, n)
  BY DEF PositionOf
<1>3. CalloutOf(tree, n) \in Node
  <2>1. Up(tree, n) \in Node
    BY UpFacts
  <2>2. "link" \in Contribution
    BY DEF Contribution
  <2> QED BY <2>1, <2>2, PlaceFacts
<1>4. tree.uri[n] \in Url \cup {NoUrl}
  BY DEF Answered
<1>5. LinkText(n, CalloutOf(tree, n), body) \in AnyContent
  BY <1>1, <1>3, <1>4, SaysContent
<1>6. fetched[n] = body => ContentOf(n) = LinkText(n, CalloutOf(tree, n), body)
  BY DEF ContentOf
<1> QED BY <1>2, <1>5, <1>6

LEMMA NoVisits ==
  ASSUME NEW t, NEW n, Below(t, n) = {}
  PROVE  <<>> \in Seq(Visit) /\ IsInjective(<<>>) /\ ToSet(<<>>) = BelowVisits(t, n)
BY DEF IsInjective, ToSet, BelowVisits

\* A visit of a space.
LEMMA SpaceStep ==
  ASSUME WalkInv, ProcessSpace
  PROVE  WalkInv'
<1>1. PICK n : n = todo[1].node
  OBVIOUS
<1> DEFINE v == todo[1]
           pos == PositionOf(tree, n)
           type == IF v.depth > 0 THEN "subspace" ELSE IF tree.base THEN "knowledge" ELSE "space"
           s == IF tree.id[n] THEN ChildVisits(n, pos, pos.depth) ELSE <<>>
<1>2. phase = "walk" /\ todo # <<>> /\ tree.kind[n] = "space"
  BY <1>1 DEF ProcessSpace, Due
<1>3. /\ Answered(tree) /\ tree.nodes \subseteq Node /\ n \in tree.nodes
      /\ v = VisitOf(tree, n) /\ Reached(tree, n) /\ tree \in Trees
  BY <1>1, <1>2, DueIsInTree DEF WalkInv
<1>4. ForNode(v.pos, n, v.depth) = pos /\ v.depth = pos.depth
  BY <1>2, <1>3, VisitArrives DEF VisitOf
<1>5. Identified(tree, n) <=> tree.id[n]
  BY <1>2 DEF Identified
<1>6. /\ documents' = IF tree.id[n] THEN AppendUnique(documents, n, type, TextOf(n, Absent), pos)
                      ELSE documents
      /\ todo' = s \o Tail(todo)
      /\ UNCHANGED <<guardVars, tree, token, phase, attempt, fetched>>
  <2> HIDE DEF pos
  <2> QED BY <1>1, <1>4, Zenon DEF ProcessSpace
<1>7. PICK content : content = ContentOf(n)
  OBVIOUS
<1>8. content = TextOf(n, Absent) /\ content \in AnyContent
  BY <1>2, <1>3, <1>7, SaysText, KindsDiffer DEF Contribution
<1>9. content = ContentOf(n)'
  BY <1>6, <1>7, ContentStays
<1>10. type \in DocType
  BY DEF DocType
<1> HIDE DEF type
<1>11. documents' = WithSay(tree, documents, n, type, content)
  BY <1>5, <1>6, <1>8 DEF WithSay
<1>12. s \in Seq(Visit) /\ IsInjective(s) /\ ToSet(s) = BelowVisits(tree, n)
  <2>1. CASE tree.id[n]
    BY <1>2, <1>3, <1>5, <2>1, SpaceExpands
  <2>2. CASE ~tree.id[n]
    <3>1. s = <<>> /\ Below(tree, n) = {}
      BY <1>3, <1>5, <2>2, NothingBelow
    <3> QED BY <3>1, NoVisits
  <2> QED BY <2>1, <2>2
<1>13. GuardTypes' /\ FetchedInv'
  BY <1>6 DEF WalkInv, GuardTypes, guardVars, FetchedInv
<1> HIDE DEF s
<1> QED BY <1>1, <1>2, <1>3, <1>6, <1>8, <1>9, <1>10, <1>11, <1>12, <1>13, VisitKeepsWalkInv DEF WalkInv

\* A visit of a callout.
LEMMA CalloutStep ==
  ASSUME WalkInv, ProcessCallout
  PROVE  WalkInv'
<1>1. PICK n : n = todo[1].node
  OBVIOUS
<1> DEFINE v == todo[1]
           pos == PositionOf(tree, n)
           s == IF tree.id[n] THEN Visits(Children(n, Contribution), ForContribution(pos), 3)
                ELSE <<>>
<1>2. phase = "walk" /\ todo # <<>> /\ tree.kind[n] = "callout"
  BY <1>1 DEF ProcessCallout, Due
<1>3. /\ Answered(tree) /\ tree.nodes \subseteq Node /\ n \in tree.nodes
      /\ v = VisitOf(tree, n) /\ Reached(tree, n) /\ tree \in Trees
  BY <1>1, <1>2, DueIsInTree DEF WalkInv
<1>4. ForCallout(v.pos, n) = pos
  BY <1>2, <1>3, VisitArrives
<1>5. Identified(tree, n) <=> tree.id[n]
  BY <1>2 DEF Identified
<1>6. /\ documents' = IF tree.id[n] THEN AppendUnique(documents, n, "callout", TextOf(n, Absent), pos)
                      ELSE documents
      /\ todo' = s \o Tail(todo)
      /\ UNCHANGED <<guardVars, tree, token, phase, attempt, fetched>>
  <2> HIDE DEF pos
  <2> QED BY <1>1, <1>4, Zenon DEF ProcessCallout
<1>7. PICK content : content = ContentOf(n)
  OBVIOUS
<1>8. content = TextOf(n, Absent) /\ content \in AnyContent
  BY <1>2, <1>3, <1>7, SaysText, KindsDiffer DEF Contribution
<1>9. content = ContentOf(n)'
  BY <1>6, <1>7, ContentStays
<1>10. "callout" \in DocType
  BY DEF DocType
<1>11. documents' = WithSay(tree, documents, n, "callout", content)
  BY <1>5, <1>6, <1>8 DEF WithSay
<1>12. s \in Seq(Visit) /\ IsInjective(s) /\ ToSet(s) = BelowVisits(tree, n)
  <2>1. CASE tree.id[n]
    BY <1>2, <1>3, <1>5, <2>1, CalloutExpands
  <2>2. CASE ~tree.id[n]
    <3>1. s = <<>> /\ Below(tree, n) = {}
      BY <1>3, <1>5, <2>2, NothingBelow
    <3> QED BY <3>1, NoVisits
  <2> QED BY <2>1, <2>2
<1>13. GuardTypes' /\ FetchedInv'
  BY <1>6 DEF WalkInv, GuardTypes, guardVars, FetchedInv
<1> HIDE DEF s
<1> QED BY <1>1, <1>2, <1>3, <1>6, <1>8, <1>9, <1>10, <1>11, <1>12, <1>13, VisitKeepsWalkInv DEF WalkInv

\* The end of the visit of a contribution, when its document is due.
LEMMA ContributionDone ==
  ASSUME WalkInv, phase \in {"walk", "fetch"}, phase' = "walk", todo # <<>>,
         tree' = tree, token' = token, attempt' = attempt, GuardTypes', FetchedInv',
         NEW n, n = todo[1].node, tree.kind[n] \in Contribution,
         \A m \in tree.nodes \ {n} : fetched'[m] = fetched[m],
         NEW content \in AnyContent, content = ContentOf(n)',
         documents' = AppendUnique(documents, n, tree.kind[n], content, todo[1].pos),
         todo' = Tail(todo)
  PROVE  WalkInv'
<1>1. /\ Answered(tree) /\ tree.nodes \subseteq Node /\ n \in tree.nodes
      /\ todo[1] = VisitOf(tree, n)
  BY DueIsInTree
<1>2. todo[1].pos = PositionOf(tree, n)
  BY <1>1, VisitArrives
<1>3. Identified(tree, n)
  BY KindsDiffer DEF Identified
<1>4. PICK type : type = tree.kind[n]
  OBVIOUS
<1>5. type \in DocType
  BY <1>4 DEF DocType
<1>6. documents' = WithSay(tree, documents, n, type, content)
  BY <1>2, <1>3, <1>4 DEF WithSay
<1>7. PICK s : s = <<>>
  OBVIOUS
<1>8. s \in Seq(Visit) /\ IsInjective(s) /\ ToSet(s) = BelowVisits(tree, n)
  <2>1. Below(tree, n) = {}
    BY <1>1, NothingBelow
  <2> QED BY <1>7, <2>1, NoVisits
<1>9. todo' = s \o Tail(todo)
  <2>1. Tail(todo) \in Seq(Visit)
    BY TailFacts DEF WalkInv, InPlace
  <2>2. \A q \in Seq(Visit) : <<>> \o q = q
    OBVIOUS
  <2> QED BY <1>7, <2>1, <2>2
<1> QED BY <1>5, <1>6, <1>8, <1>9, VisitKeepsWalkInv

\* A visit of a post or a whiteboard.
LEMMA TextStep ==
  ASSUME WalkInv, ProcessText
  PROVE  WalkInv'
<1>1. PICK n : n = todo[1].node
  OBVIOUS
<1>2. phase = "walk" /\ todo # <<>> /\ tree.kind[n] \in {"post", "whiteboard"}
  BY <1>1 DEF ProcessText, Due
<1>3. /\ Answered(tree) /\ tree.nodes \subseteq Node /\ n \in tree.nodes
      /\ todo[1] = VisitOf(tree, n)
  BY <1>1, <1>2, DueIsInTree
<1>4. tree.kind[n] \in Contribution /\ tree.kind[n] # "link"
  BY <1>2 DEF Contribution
<1>5. todo[1].pos = PositionOf(tree, n)
  BY <1>3, <1>4, VisitArrives
<1>6. PICK content : content = ContentOf(n)
  OBVIOUS
<1>7. content = TextOf(n, todo[1].pos.callout) /\ content \in AnyContent
  BY <1>3, <1>4, <1>5, <1>6, SaysText
<1>8. /\ documents' = AppendUnique(documents, n, tree.kind[n], TextOf(n, todo[1].pos.callout),
                                   todo[1].pos)
      /\ todo' = Tail(todo)
      /\ UNCHANGED <<guardVars, tree, token, phase, attempt, fetched>>
  BY <1>1, Zenon DEF ProcessText
<1>9. content = ContentOf(n)'
  BY <1>6, <1>8, ContentStays
<1>10. GuardTypes' /\ FetchedInv' /\ phase' = "walk"
  BY <1>2, <1>8 DEF WalkInv, GuardTypes, guardVars, FetchedInv
<1>11. tree' = tree /\ token' = token /\ attempt' = attempt /\ fetched' = fetched
  BY <1>8
<1> QED BY <1>1, <1>2, <1>4, <1>7, <1>8, <1>9, <1>10, <1>11, ContributionDone

\* The end of a link's visit.
LEMMA LinkStep ==
  ASSUME WalkInv, phase \in {"walk", "fetch"}, todo # <<>>,
         tree' = tree, token' = token, attempt' = attempt, GuardTypes',
         NEW n, n = todo[1].node, tree.kind[n] = "link", NEW body \in {Absent, "body"},
         \/ fetched' = [fetched EXCEPT ![n] = body] /\ tree.uri[n] # NoUrl
         \/ fetched' = fetched /\ fetched[n] = body,
         LinkDone(n, todo[1].pos, body)
  PROVE  WalkInv'
<1>1. /\ Answered(tree) /\ tree.nodes \subseteq Node /\ n \in tree.nodes
      /\ todo[1] = VisitOf(tree, n)
  BY DueIsInTree
<1>2. tree.kind[n] \in Contribution
  BY DEF Contribution
<1>3. todo[1].pos = PositionOf(tree, n)
  BY <1>1, <1>2, VisitArrives
<1>4. /\ documents' = AppendUnique(documents, n, "link", LinkText(n, todo[1].pos.callout, body),
                                   todo[1].pos)
      /\ todo' = Tail(todo) /\ phase' = "walk"
  BY DEF LinkDone
<1>5. /\ FetchedInv' /\ fetched'[n] = body
      /\ \A m \in tree.nodes \ {n} : fetched'[m] = fetched[m]
  <2>1. /\ fetched \in [Node -> {Absent, "body"}] /\ n \in Node
        /\ \A m \in tree.nodes : fetched[m] # Absent => tree.uri[m] # NoUrl
    BY <1>1 DEF WalkInv, FetchedInv
  <2> QED BY <1>1, <2>1 DEF FetchedInv
<1>6. PICK content : content = LinkText(n, PositionOf(tree, n).callout, body)
  OBVIOUS
<1>7. content \in AnyContent
  BY <1>1, <1>6, LinkSays
<1>8. content = ContentOf(n)'
  <2>1. PICK c : c = PositionOf(tree, n).callout
    OBVIOUS
  <2>2. CalloutOf(tree, n) = c
    BY <2>1 DEF PositionOf
  <2>3. ContentOf(n)' = LinkText(n, c, body)'
    BY <1>5, <2>2 DEF ContentOf
  <2>4. LinkText(n, c, body)' = LinkText(n, c, body)
    BY DEF LinkText, Heading, Context
  <2> QED BY <1>6, <2>1, <2>3, <2>4
<1>9. documents' = AppendUnique(documents, n, tree.kind[n], content, todo[1].pos)
  BY <1>3, <1>4, <1>6
<1>10. todo' = Tail(todo) /\ phase' = "walk"
  BY <1>4
<1>11. FetchedInv' /\ \A m \in tree.nodes \ {n} : fetched'[m] = fetched[m]
  BY <1>5
<1> QED BY <1>2, <1>7, <1>8, <1>9, <1>10, <1>11, ContributionDone

\* A URI that belongs to the deployment is moved there.
LEMMA RewriteTyped ==
  ASSUME NEW u \in Url
  PROVE  RewriteTarget(u) \in Url
<1>1. CASE (u.host = "alkem.io" \/ IsDeploymentUrl(u)) /\ u.path = "api"
  <2>1. RewriteTarget(u) = [Deployment EXCEPT !.path = "api"]
    BY <1>1 DEF RewriteTarget
  <2> QED BY <2>1, UrlAssumption
<1>2. CASE ~((u.host = "alkem.io" \/ IsDeploymentUrl(u)) /\ u.path = "api")
  BY <1>2 DEF RewriteTarget
<1> QED BY <1>1, <1>2

\* A step that leaves the walk where it is.
LEMMA WalkStays ==
  ASSUME WalkInv, UNCHANGED <<tree, todo, documents, fetched>>
  PROVE  /\ tree' \in Trees /\ FetchedInv' /\ InPlace(tree, todo)'
         /\ Emitted(tree, Contents, documents, Pending(todo))'
         /\ Covered(tree, Contents, documents, Pending(todo))' =
              Covered(tree, Contents, documents, Pending(todo))
<1>1. tree' = tree /\ todo' = todo /\ documents' = documents /\ fetched' = fetched
  OBVIOUS
<1>2. Contents' = Contents
  BY <1>1 DEF Contents, ContentOf, TextOf, LinkText, Heading, Context
<1>3. Pending(todo)' = Pending(todo)
  BY <1>1
<1> QED BY <1>1, <1>2, <1>3 DEF WalkInv, FetchedInv

LEMMA NoDocuments ==
  <<>> \in Seq(Document) /\ Distinct(<<>>) /\ ToSet(<<>>) = {}
BY DEF Distinct, ToSet

LEMMA NoResultTyped == NoResult \in Outcome
BY Zenon DEF NoResult, Outcome

\* The root is the first to be visited.
LEMMA StartStep ==
  ASSUME WalkInv, TreeArrives
  PROVE  WalkInv'
<1>1. /\ phase = "query" /\ phase' = "walk" /\ attempt' = attempt /\ token' = token
      /\ UNCHANGED guardVars /\ tree' = tree /\ documents' = documents /\ fetched' = fetched
      /\ todo' = IF tree.nodes = {} THEN <<>> ELSE Visits(<<tree.root>>, NoPosition, 0)
  BY DEF TreeArrives
<1>2. todo = <<>> /\ documents = <<>> /\ attempt \in 0 .. MaxRetries /\ tree \in Trees
  BY <1>1 DEF WalkInv, PhaseInv
<1>3. GuardTypes' /\ FetchedInv' /\ tree' \in Trees /\ token' \in BOOLEAN /\ PhaseInv'
  BY <1>1, <1>2 DEF WalkInv, GuardTypes, guardVars, FetchedInv, PhaseInv
<1>4. /\ InPlace(tree, todo)' /\ Emitted(tree, Contents, documents, Pending(todo))'
      /\ Covered(tree, Contents, documents, Pending(todo))'
  <2>1. PICK says : says = Contents'
    OBVIOUS
  <2>2. PICK q : q = todo'
    OBVIOUS
  <2>3. CASE tree.nodes = {}
    <3>1. q = todo
      BY <1>1, <1>2, <2>2, <2>3
    <3>2. Legible(tree) = {}
      BY <2>3 DEF Legible
    <3>3. InPlace(tree, q)
      BY <3>1 DEF WalkInv
    <3>4. Emitted(tree, says, <<>>, Pending(q))
      BY NoDocuments DEF Emitted
    <3>5. Covered(tree, says, <<>>, Pending(q))
      BY <3>2 DEF Covered
    <3> QED BY <1>1, <1>2, <2>1, <2>2, <3>3, <3>4, <3>5
  <2>4. CASE tree.nodes # {}
    <3>1. Answered(tree)
      BY <1>2, <2>4, TreeAssumption
    <3>2. q = <<[node |-> tree.root, pos |-> NoPosition, depth |-> 0]>>
      BY <1>1, <2>2, <2>4 DEF Visits
    <3>3. /\ InPlace(tree, q) /\ Emitted(tree, says, <<>>, Pending(q))
          /\ Covered(tree, says, <<>>, Pending(q))
      BY <1>2, <3>1, <3>2, WalkStarts
    <3> QED BY <1>1, <1>2, <2>1, <2>2, <3>3
  <2> QED BY <2>3, <2>4
<1> QED BY <1>3, <1>4 DEF WalkInv

\* Every step keeps the walk in order.
LEMMA WalkInvStep ==
  ASSUME WalkInv, SpaceInv, BodyInv, BodyInv', [Next]_vars
  PROVE  WalkInv'
<1> USE DEF WalkInv
<1>1. CASE Authenticate
  <2>1. UNCHANGED <<tree, todo, documents, fetched>> /\ UNCHANGED guardVars /\ attempt' = attempt
    BY <1>1 DEF Authenticate
  <2>2. /\ phase = "login" /\ token' \in BOOLEAN
        /\ phase' = "query" \/ phase' = "failed"
    BY <1>1 DEF Authenticate
  <2>3. GuardTypes' /\ PhaseInv'
    BY <2>1, <2>2 DEF GuardTypes, guardVars, PhaseInv
  <2> QED BY <2>1, <2>2, <2>3, WalkStays
<1>2. CASE TreeArrives
  BY <1>2, StartStep
<1>3. CASE QueryAttemptFails
  <2>1. UNCHANGED <<tree, todo, documents, fetched>> /\ UNCHANGED guardVars /\ token' = token
    BY <1>3 DEF QueryAttemptFails
  <2>2. /\ phase = "query" /\ attempt' = attempt + 1
        /\ phase' = IF attempt' < MaxRetries THEN "query" ELSE "failed"
    BY <1>3 DEF QueryAttemptFails
  <2>3. GuardTypes' /\ PhaseInv'
    BY <2>1, <2>2, TreeAssumption DEF GuardTypes, guardVars, PhaseInv
  <2>4. phase' = "query" \/ phase' = "failed"
    BY <2>2
  <2> QED BY <2>1, <2>3, <2>4, WalkStays
<1>4. CASE ProcessSpace
  BY <1>4, SpaceStep
<1>5. CASE ProcessCallout
  BY <1>5, CalloutStep
<1>6. CASE ProcessText
  BY <1>6, TextStep
<1>7. CASE ProcessPlainLink
  <2>1. PICK n : n = todo[1].node
    OBVIOUS
  <2>2. phase = "walk" /\ todo # <<>> /\ tree.kind[n] = "link" /\ tree.uri[n] = NoUrl
    BY <1>7, <2>1 DEF ProcessPlainLink, Due
  <2>3. /\ UNCHANGED guardVars /\ tree' = tree /\ token' = token /\ attempt' = attempt
        /\ fetched' = fetched /\ LinkDone(n, todo[1].pos, Absent)
    BY <1>7, <2>1, Zenon DEF ProcessPlainLink
  <2>4. fetched[n] = Absent
    BY <2>1, <2>2, DueIsInTree DEF FetchedInv
  <2>5. GuardTypes'
    BY <2>3 DEF GuardTypes, guardVars
  <2> QED BY <2>1, <2>2, <2>3, <2>4, <2>5, LinkStep
<1>8. CASE FetchLink
  <2>1. PICK n : n = todo[1].node
    OBVIOUS
  <2>2. phase = "walk" /\ todo # <<>> /\ tree.kind[n] = "link" /\ tree.uri[n] # NoUrl
    BY <1>8, <2>1 DEF FetchLink, Due
  <2>3. /\ UNCHANGED <<tree, todo, documents, fetched>> /\ token' = token /\ attempt' = attempt
        /\ phase' = "fetch" /\ Fetch(RewriteTarget(tree.uri[n]))
    BY <1>8, <2>1 DEF FetchLink
  <2>4. RewriteTarget(tree.uri[n]) \in Url
    <3>1. tree.uri[n] \in Url
      BY <2>1, <2>2, DueIsInTree DEF Answered
    <3> QED BY <3>1, RewriteTyped
  <2>5. GuardTypes'
    BY <2>3, <2>4 DEF GuardTypes, Fetch
  <2>6. PhaseInv'
    BY <2>1, <2>2, <2>3 DEF PhaseInv
  <2> QED BY <2>2, <2>3, <2>5, <2>6, WalkStays
<1>9. CASE Fetching
  <2>1. phase = "fetch" /\ GuardStep(token) /\ UNCHANGED readerVars
    BY <1>9 DEF Fetching
  <2>2. GuardTypes'
    BY <2>1, GuardStepTyped
  <2>3. /\ UNCHANGED <<tree, todo, documents, fetched>>
        /\ token' = token /\ phase' = phase /\ attempt' = attempt
    BY <2>1 DEF readerVars
  <2>4. PhaseInv'
    BY <2>3 DEF PhaseInv
  <2> QED BY <2>1, <2>2, <2>3, <2>4, WalkStays
<1>10. CASE LinkFetched
  <2>1. PICK n : n = todo[1].node
    OBVIOUS
  <2>2. phase = "fetch" /\ todo # <<>> /\ tree.kind[n] = "link" /\ tree.uri[n] # NoUrl
    BY <1>10, <2>1 DEF LinkFetched, PhaseInv
  <2>3. PICK text \in Extracted(result) :
          /\ fetched' = [fetched EXCEPT ![n] = text]
          /\ LinkDone(n, todo[1].pos, text)
    BY <1>10, <2>1, Zenon DEF LinkFetched
  <2>4. text \in {Absent, "body"}
    BY <2>3 DEF Extracted
  <2>5. /\ UNCHANGED <<target, hops, decision, request, reading, tree, token, attempt>>
        /\ step' = "idle" /\ result' = NoResult
    BY <1>10, Zenon DEF LinkFetched
  <2>6. GuardTypes'
    BY <2>5, NoResultTyped DEF GuardTypes
  <2>7. tree' = tree /\ token' = token /\ attempt' = attempt
    BY <2>5
  <2> QED BY <2>1, <2>2, <2>3, <2>4, <2>6, <2>7, LinkStep
<1>11. CASE ReadingEnds
  <2>1. UNCHANGED <<tree, todo, documents, fetched>> /\ UNCHANGED guardVars
    BY <1>11 DEF ReadingEnds
  <2>2. /\ phase = "walk" /\ todo = <<>> /\ token' = token /\ attempt' = attempt
        /\ phase' = "cleanup" \/ phase' = "ingest"
    BY <1>11 DEF ReadingEnds
  <2>3. GuardTypes' /\ PhaseInv'
    BY <2>1, <2>2 DEF GuardTypes, guardVars, PhaseInv
  <2> QED BY <2>1, <2>2, <2>3, WalkStays
<1>12. CASE UNCHANGED vars
  <2>1. /\ UNCHANGED <<tree, todo, documents, fetched>> /\ UNCHANGED guardVars
        /\ token' = token /\ phase' = phase /\ attempt' = attempt
    BY <1>12 DEF vars, readerVars
  <2>2. GuardTypes' /\ PhaseInv'
    BY <2>1 DEF GuardTypes, guardVars, PhaseInv
  <2> QED BY <2>1, <2>2, WalkStays
<1> QED BY <1>1, <1>2, <1>3, <1>4, <1>5, <1>6, <1>7, <1>8, <1>9, <1>10, <1>11, <1>12
        DEF Next, Working, Handed

LEMMA WalkInvInit == Init => WalkInv
<1> SUFFICES ASSUME Init PROVE WalkInv
  OBVIOUS
<1>1. /\ tree \in Trees /\ token \in BOOLEAN /\ phase = "login" /\ attempt = 0
      /\ todo = <<>> /\ documents = <<>> /\ fetched = [n \in Node |-> Absent]
  BY DEF Init
<1>2. GuardTypes
  <2>1. /\ step = "idle" /\ target = NoUrl /\ hops = 0 /\ decision = NoDecision
        /\ request = NoRequest /\ reading = NoReading /\ result = NoResult
    BY DEF Init, GuardInit
  <2>2. NoReading \in Reading
    BY BoundAssumption DEF NoReading, Reading, Types
  <2> QED BY <2>1, <2>2, NothingTyped, NoResultTyped DEF GuardTypes
<1>3. FetchedInv
  <2>1. \A t \in Trees : t.nodes \subseteq Node
    BY DEF Node
  <2> QED BY <1>1, <2>1 DEF FetchedInv
<1>4. PhaseInv
  BY <1>1, TreeAssumption DEF PhaseInv
<1>5. InPlace(tree, todo)
  <2>1. <<>> \in Seq(Visit) /\ IsInjective(<<>>) /\ ToSet(<<>>) = {}
    BY DEF IsInjective, ToSet
  <2>2. Pending(<<>>) = {}
    BY <2>1 DEF Pending
  <2> QED BY <1>1, <2>1, <2>2 DEF InPlace, Apart
<1>6. Emitted(tree, Contents, documents, Pending(todo))
  BY <1>1, NoDocuments DEF Emitted
<1>7. phase \notin {"walk", "fetch", "cleanup", "ingest"}
  BY <1>1
<1> QED BY <1>1, <1>2, <1>3, <1>4, <1>5, <1>6, <1>7 DEF WalkInv

LEMMA WalkInvariant == Spec => []WalkInv
<1>1. SpaceInv /\ BodyInv /\ WalkInv /\ [Next]_vars => BodyInv' /\ WalkInv'
  BY NextIsWhole, WalkInvStep
<1> QED BY <1>1, SpaceInvariant, BodyInvInit, WalkInvInit, PTL DEF Spec

\* The walk, its documents and every fetch keep their types, for any trees,
\* URLs and limits.
THEOREM ReaderIsTyped == Spec => []TypeOK
<1>1. WalkInv => TypeOK
  <2> SUFFICES ASSUME WalkInv PROVE TypeOK
    OBVIOUS
  <2>1. GuardTypeOK
    BY GuardTypesNamed DEF WalkInv
  <2>2. todo \in Seq(Visit) /\ documents \in Seq(Document)
    BY DEF WalkInv, InPlace, Emitted
  <2>3. /\ tree \in Trees /\ token \in BOOLEAN /\ fetched \in [Node -> {Absent, "body"}]
        /\ phase \in {"login", "query", "walk", "fetch", "cleanup", "ingest", "failed"}
        /\ attempt \in 0 .. MaxRetries
    BY DEF WalkInv, FetchedInv, PhaseInv
  <2> QED BY <2>1, <2>2, <2>3, Zenon DEF TypeOK, Visit, Document, DocType, AnyContent
<1> QED BY <1>1, WalkInvariant, PTL

\* A reading that did not fail yields what the legible part of the tree says,
\* each content once and at the place of a node that has it, for any tree of two
\* levels of subspaces and whatever the links yield.
THEOREM TreesAreRead == Spec => []WholeTreeRead
<1>1. WalkInv => WholeTreeRead
  <2> SUFFICES ASSUME WalkInv, phase \in {"ingest", "cleanup"}
               PROVE  /\ {documents[i].content : i \in DOMAIN documents}
                           = {ContentOf(n) : n \in Legible(tree)} \ {Nothing}
                      /\ \A i \in DOMAIN documents :
                           /\ documents[i].content = ContentOf(documents[i].id)
                           /\ documents[i].pos = PositionOf(tree, documents[i].id)
                      /\ \A i, j \in DOMAIN documents :
                           documents[i].content = documents[j].content => i = j
    BY DEF WholeTreeRead
  <2>1. todo = <<>>
    BY DEF WalkInv, PhaseInv
  <2>2. Pending(todo) = {}
    BY <2>1 DEF Pending, ToSet
  <2>3. Legible(tree) \subseteq tree.nodes
    BY DEF Legible
  <2>4. \A n \in Legible(tree) : Contents[n] = ContentOf(n)
    BY <2>3 DEF Contents
  <2>5. \A i \in DOMAIN documents :
          LET d == documents[i]
          IN  /\ d.id \in Legible(tree) /\ d.pos = PositionOf(tree, d.id)
              /\ d.content = ContentOf(d.id) /\ d.content # Nothing
    <3>1. \A d \in ToSet(documents) :
            /\ d.id \in Legible(tree) /\ d.pos = PositionOf(tree, d.id)
            /\ d.content = Contents[d.id] /\ d.content # Nothing
      BY DEF WalkInv, Emitted
    <3>2. \A i \in DOMAIN documents : documents[i] \in ToSet(documents)
      BY DEF ToSet
    <3> QED BY <2>4, <3>1, <3>2
  <2>6. \A n \in Legible(tree) :
          \/ ContentOf(n) = Nothing
          \/ \E i \in DOMAIN documents : documents[i].content = ContentOf(n)
    <3>1. Covered(tree, Contents, documents, Pending(todo))
      BY DEF WalkInv
    <3>2. \A d \in ToSet(documents) : \E i \in DOMAIN documents : d = documents[i]
      BY DEF ToSet
    <3> QED BY <2>2, <2>4, <3>1, <3>2 DEF Covered
  <2>7. Distinct(documents)
    BY DEF WalkInv, Emitted
  <2>8. {documents[i].content : i \in DOMAIN documents}
          = {ContentOf(n) : n \in Legible(tree)} \ {Nothing}
    BY <2>5, <2>6
  <2> QED BY <2>5, <2>7, <2>8 DEF Distinct
<1> QED BY <1>1, WalkInvariant, PTL

=============================================================================
