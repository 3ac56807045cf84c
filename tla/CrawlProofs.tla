---------------------------- MODULE CrawlProofs ----------------------------
(***************************************************************************)
(* The pages a crawl returns, for any web site, links, redirects and page  *)
(* limit: whatever fetches fail, each once, on the site, and no more than  *)
(* the limit; and where none fails, exactly the ones that can be reached.  *)
(***************************************************************************)
EXTENDS Crawl, WellFoundedInduction, TLAPS

\* The inductive invariant: a page of the result was visited, so comparing a
\* redirect's target with the visited URLs covers the results as well.
PagesInv ==
    /\ results \in Seq(OnSite)
    /\ ToSet(results) \subseteq visited
    /\ IsInjective(results)
    /\ Len(results) <= PageLimit

LEMMA AppendSet ==
    ASSUME NEW S, NEW s \in Seq(S), NEW e \in S
    PROVE  Append(s, e) \in Seq(S) /\ ToSet(Append(s, e)) = ToSet(s) \cup {e}
<1> DEFINE t == Append(s, e)
<1>1. /\ t \in Seq(S) /\ Len(s) \in Nat
      /\ DOMAIN t = 1 .. Len(s) + 1 /\ DOMAIN s = 1 .. Len(s)
      /\ t[Len(s) + 1] = e
      /\ \A i \in 1 .. Len(s) : t[i] = s[i]
  OBVIOUS
<1>2. ToSet(t) \subseteq ToSet(s) \cup {e}
  BY <1>1 DEF ToSet
<1>3. ToSet(s) \cup {e} \subseteq ToSet(t)
  BY <1>1 DEF ToSet
<1> QED BY <1>1, <1>2, <1>3

\* A page that is new to a result stays unique in it.
LEMMA AppendNew ==
    ASSUME NEW S, NEW s \in Seq(S), NEW e \in S, e \notin ToSet(s), IsInjective(s)
    PROVE  /\ Append(s, e) \in Seq(S)
           /\ IsInjective(Append(s, e))
           /\ ToSet(Append(s, e)) = ToSet(s) \cup {e}
           /\ Len(Append(s, e)) = Len(s) + 1
<1> DEFINE t == Append(s, e)
<1>1. /\ t \in Seq(S) /\ Len(t) = Len(s) + 1 /\ Len(s) \in Nat
      /\ DOMAIN t = 1 .. Len(s) + 1 /\ DOMAIN s = 1 .. Len(s)
      /\ t[Len(s) + 1] = e
      /\ \A i \in 1 .. Len(s) : t[i] = s[i]
  OBVIOUS
<1>2. \A i \in 1 .. Len(s) : s[i] # e
  BY <1>1 DEF ToSet
<1>3. ASSUME NEW i \in DOMAIN t, NEW j \in DOMAIN t, t[i] = t[j] PROVE i = j
  <2>1. CASE i \in 1 .. Len(s) /\ j \in 1 .. Len(s)
    BY <1>1, <1>3, <2>1 DEF IsInjective
  <2>2. CASE i = Len(s) + 1 \/ j = Len(s) + 1
    BY <1>1, <1>2, <1>3, <2>2
  <2> QED BY <1>1, <2>1, <2>2
<1>4. ToSet(t) = ToSet(s) \cup {e}
  BY AppendSet
<1>5. IsInjective(t)
  BY <1>3 DEF IsInjective
<1> QED BY <1>1, <1>4, <1>5

LEMMA FetchPageKeeps == ASSUME PagesInv, FetchPage PROVE PagesInv'
<1> DEFINE u == Head(queue)
           page == site.redirect[u]
<1>1. page \in OnSite /\ visited' = visited \cup {u, page} /\ u \notin visited
  BY DEF FetchPage, WorthVisiting
<1>2. Len(results) < PageLimit
  BY DEF FetchPage, InLoop
<1>3. CASE page # u /\ page \in visited
  <2>1. results' = results
    BY <1>3 DEF FetchPage
  <2> QED BY <1>1, <2>1 DEF PagesInv
<1>4. CASE ~(page # u /\ page \in visited)
  <2>1. results' = Append(results, page)
    BY <1>4 DEF FetchPage
  <2>2. page \notin ToSet(results)
    BY <1>1, <1>4 DEF PagesInv
  <2>3. /\ results' \in Seq(OnSite) /\ IsInjective(results')
        /\ ToSet(results') = ToSet(results) \cup {page}
        /\ Len(results') = Len(results) + 1
    BY <1>1, <2>1, <2>2, AppendNew DEF PagesInv
  <2>4. Len(results') <= PageLimit
    BY <1>2, <2>3, ConstantsOK DEF PagesInv
  <2> QED BY <1>1, <2>3, <2>4 DEF PagesInv
<1> QED BY <1>3, <1>4

LEMMA PagesNext == PagesInv /\ [Next]_vars => PagesInv'
<1> SUFFICES ASSUME PagesInv, [Next]_vars PROVE PagesInv'
  OBVIOUS
<1>1. CASE FetchPage
  BY <1>1, FetchPageKeeps
<1>2. CASE FetchFails
  <2>1. results' = results /\ visited \subseteq visited'
    BY <1>2 DEF FetchFails
  <2> QED BY <2>1 DEF PagesInv
<1>3. CASE CheckBase \/ PassOver \/ Return \/ Convert \/ UNCHANGED vars
  <2>1. results' = results /\ visited' = visited
    BY <1>3 DEF CheckBase, PassOver, Return, Convert, vars
  <2> QED BY <2>1 DEF PagesInv
<1> QED BY <1>1, <1>2, <1>3 DEF Next

LEMMA PagesInit == Init => PagesInv
<1> SUFFICES ASSUME Init PROVE PagesInv
  OBVIOUS
<1>1. results = <<>>
  BY DEF Init
<1> QED BY <1>1, ConstantsOK DEF PagesInv, ToSet, IsInjective

\* crawl() returns every page once, however many URLs redirect to it and in
\* whatever order they and links to it are met.
THEOREM PagesUnique == Spec => []NoDuplicatePages
<1>1. PagesInv => NoDuplicatePages
  BY DEF PagesInv, NoDuplicatePages
<1> QED BY <1>1, PagesInit, PagesNext, PTL DEF Spec

\* crawl() returns pages of the base URL's domain only, redirects included, and
\* at most page_limit of them.
THEOREM CrawlBounded == Spec => []StaysInBounds
<1>1. PagesInv => StaysInBounds
  <2> SUFFICES ASSUME PagesInv PROVE ToSet(results) \subseteq OnSite
    BY DEF PagesInv, StaysInBounds
  <2> QED BY DEF PagesInv, ToSet
<1> QED BY <1>1, PagesInit, PagesNext, PTL DEF Spec
-----------------------------------------------------------------------------
(* Sequences: the library's induction theorems take an operator, so        *)
(* induction is done here on the set of numbers for which a claim holds.   *)

LEMMA LeastNumber ==
    ASSUME NEW T, T \subseteq Nat, T # {} PROVE \E x \in T : \A y \in T : ~(y < x)
<1> DEFINE R == {ss \in Nat \X Nat : ss[1] < ss[2]}
<1>1. IsWellFoundedOn(R, Nat)
  BY NatLessThanWellFounded DEF OpToRel
<1>2. PICK x \in T : \A y \in T : ~(<<y, x>> \in R)
  BY <1>1, WFMin
<1>3. \A y \in T : y < x => <<y, x>> \in R
  OBVIOUS
<1> QED BY <1>2, <1>3

LEMMA SetInduction ==
    ASSUME NEW T, 0 \in T, \A n \in Nat : n \in T => n + 1 \in T PROVE Nat \subseteq T
<1> DEFINE U == Nat \ T
<1> SUFFICES ASSUME U # {} PROVE FALSE
  OBVIOUS
<1>1. U \subseteq Nat
  OBVIOUS
<1>2. PICK x \in U : \A y \in U : ~(y < x)
  <2> HIDE DEF U
  <2> QED BY <1>1, LeastNumber
<1>3. x # 0 /\ x - 1 \in Nat /\ x - 1 < x
  OBVIOUS
<1> QED BY <1>2, <1>3

LEMMA TailSet ==
    ASSUME NEW S, NEW q \in Seq(S), q # <<>>
    PROVE  /\ Tail(q) \in Seq(S) /\ Head(q) \in S
           /\ ToSet(q) = {Head(q)} \cup ToSet(Tail(q))
<1>1. /\ Len(q) \in Nat /\ Len(q) > 0 /\ DOMAIN q = 1 .. Len(q) /\ Head(q) = q[1]
      /\ Tail(q) \in Seq(S) /\ Head(q) \in S
      /\ DOMAIN Tail(q) = 1 .. Len(q) - 1
      /\ \A i \in 1 .. Len(q) - 1 : Tail(q)[i] = q[i + 1]
  OBVIOUS
<1>2. ToSet(q) \subseteq {Head(q)} \cup ToSet(Tail(q))
  <2> SUFFICES ASSUME NEW i \in 1 .. Len(q), i # 1 PROVE q[i] \in ToSet(Tail(q))
    BY <1>1 DEF ToSet
  <2>1. i - 1 \in 1 .. Len(q) - 1 /\ (i - 1) + 1 = i
    BY <1>1
  <2> QED BY <1>1, <2>1 DEF ToSet
<1>3. {Head(q)} \cup ToSet(Tail(q)) \subseteq ToSet(q)
  <2>1. \A i \in 1 .. Len(q) - 1 : i + 1 \in 1 .. Len(q)
    BY <1>1
  <2> QED BY <1>1, <2>1 DEF ToSet
<1> QED BY <1>1, <1>2, <1>3

LEMMA ConcatSet ==
    ASSUME NEW S, NEW p \in Seq(S), NEW q \in Seq(S)
    PROVE  p \o q \in Seq(S) /\ ToSet(p \o q) = ToSet(p) \cup ToSet(q)
<1>1. /\ p \o q \in Seq(S) /\ Len(p) \in Nat /\ Len(q) \in Nat
      /\ DOMAIN p = 1 .. Len(p) /\ DOMAIN q = 1 .. Len(q)
      /\ DOMAIN (p \o q) = 1 .. Len(p) + Len(q)
      /\ \A i \in 1 .. Len(p) : (p \o q)[i] = p[i]
      /\ \A i \in 1 .. Len(q) : (p \o q)[Len(p) + i] = q[i]
  OBVIOUS
<1>2. ToSet(p \o q) \subseteq ToSet(p) \cup ToSet(q)
  <2> SUFFICES ASSUME NEW i \in 1 .. Len(p) + Len(q) PROVE (p \o q)[i] \in ToSet(p) \cup ToSet(q)
    BY <1>1 DEF ToSet
  <2>1. CASE i <= Len(p)
    <3>1. i \in 1 .. Len(p)
      BY <1>1, <2>1
    <3> QED BY <1>1, <3>1 DEF ToSet
  <2>2. CASE ~(i <= Len(p))
    <3>1. i - Len(p) \in 1 .. Len(q) /\ Len(p) + (i - Len(p)) = i
      BY <1>1, <2>2
    <3> QED BY <1>1, <3>1 DEF ToSet
  <2> QED BY <2>1, <2>2
<1>3. ToSet(p) \cup ToSet(q) \subseteq ToSet(p \o q)
  <2>1. \A i \in 1 .. Len(p) : i \in 1 .. Len(p) + Len(q)
    BY <1>1
  <2>2. \A i \in 1 .. Len(q) : Len(p) + i \in 1 .. Len(p) + Len(q)
    BY <1>1
  <2> QED BY <1>1, <2>1, <2>2 DEF ToSet
<1> QED BY <1>1, <1>2, <1>3

\* NewLinks is well defined, and keeps exactly the links worth queueing.
LEMMA NewLinksSet ==
    ASSUME NEW s \in Seq(Url), NEW seen
    PROVE  /\ NewLinks(s, seen) \in Seq(Url)
           /\ ToSet(NewLinks(s, seen)) = ToSet(s) \cap (OnSite \ (Skipped \cup seen))
<1> DEFINE G == OnSite \ (Skipped \cup seen)
           Rec(g, n) == g = [i \in 0 .. n |-> IF i = 0 THEN <<>>
                                ELSE IF s[i] \in G THEN Append(g[i - 1], s[i]) ELSE g[i - 1]]
           T == {n \in Nat : \E g : Rec(g, n)}
<1> HIDE DEF G
<1>1. 0 \in T
  <2> DEFINE g == [i \in 0 .. 0 |-> <<>>]
  <2>1. Rec(g, 0)
    OBVIOUS
  <2> QED BY <2>1
<1>2. ASSUME NEW n \in Nat, n \in T PROVE n + 1 \in T
  <2>1. PICK g : Rec(g, n)
    BY <1>2
  <2> DEFINE h == [i \in 0 .. n + 1 |->
                     IF i = n + 1 THEN (IF s[i] \in G THEN Append(g[n], s[i]) ELSE g[n]) ELSE g[i]]
  <2>2. \A i \in 0 .. n : g[i] = IF i = 0 THEN <<>>
                                 ELSE IF s[i] \in G THEN Append(g[i - 1], s[i]) ELSE g[i - 1]
    BY <2>1
  <2>3. ASSUME NEW i \in 0 .. n + 1
        PROVE  h[i] = IF i = 0 THEN <<>>
                      ELSE IF s[i] \in G THEN Append(h[i - 1], s[i]) ELSE h[i - 1]
    <3>1. CASE i = n + 1
      <4>1. h[n] = g[n] /\ i # 0 /\ i - 1 = n
        BY <1>2, <3>1
      <4> QED BY <3>1, <4>1
    <3>2. CASE i # n + 1
      <4>1. i \in 0 .. n /\ h[i] = g[i]
        BY <1>2, <3>2
      <4>2. i # 0 => h[i - 1] = g[i - 1]
        BY <1>2, <4>1
      <4> QED BY <2>2, <4>1, <4>2
    <3> QED BY <3>1, <3>2
  <2>4. Rec(h, n + 1)
    BY <2>3
  <2>5. n + 1 \in Nat
    OBVIOUS
  <2> HIDE DEF h
  <2> QED BY <2>4, <2>5
<1>3. Nat \subseteq T
  <2> HIDE DEF T
  <2> QED BY <1>1, <1>2, SetInduction
<1>4. Len(s) \in Nat
  OBVIOUS
<1>5. PICK g : Rec(g, Len(s))
  BY <1>3, <1>4, Zenon
<1>6. PICK kept : kept = CHOOSE k : Rec(k, Len(s))
  OBVIOUS
<1>7. Rec(kept, Len(s))
  BY <1>5, <1>6, Zenon
<1>8. NewLinks(s, seen) = kept[Len(s)]
  BY <1>6 DEF NewLinks, G
<1>9. /\ kept[0] = <<>>
      /\ \A i \in 1 .. Len(s) :
           kept[i] = IF s[i] \in G THEN Append(kept[i - 1], s[i]) ELSE kept[i - 1]
  <2>1. \A i \in 0 .. Len(s) : kept[i] = IF i = 0 THEN <<>>
                                         ELSE IF s[i] \in G THEN Append(kept[i - 1], s[i])
                                         ELSE kept[i - 1]
    BY <1>7
  <2>2. 0 \in 0 .. Len(s) /\ \A i \in 1 .. Len(s) : i \in 0 .. Len(s) /\ i # 0
    BY <1>4
  <2> QED BY <2>1, <2>2
\* After i links, those of the first i that are worth queueing are kept.
<1> DEFINE First(i) == {s[j] : j \in 1 .. i}
           K == {i \in Nat : i <= Len(s) =>
                    kept[i] \in Seq(Url) /\ ToSet(kept[i]) = First(i) \cap G}
<1>10. 0 \in K
  <2>1. First(0) = {} /\ ToSet(<<>>) = {}
    BY DEF ToSet
  <2>2. kept[0] \in Seq(Url) /\ ToSet(kept[0]) = First(0) \cap G
    <3> HIDE DEF First
    <3> QED BY <1>9, <2>1
  <2> HIDE DEF First
  <2> QED BY <2>2
<1>11. ASSUME NEW i \in Nat, i \in K PROVE i + 1 \in K
  <2> SUFFICES ASSUME i + 1 <= Len(s)
               PROVE  /\ kept[i + 1] \in Seq(Url)
                      /\ ToSet(kept[i + 1]) = First(i + 1) \cap G
    OBVIOUS
  <2>1. kept[i] \in Seq(Url) /\ ToSet(kept[i]) = First(i) \cap G
    BY <1>4, <1>11
  <2>2. i + 1 \in 1 .. Len(s) /\ (i + 1) - 1 = i /\ s[i + 1] \in Url
    BY <1>4
  <2>3. First(i + 1) = First(i) \cup {s[i + 1]}
    <3>1. 1 .. i + 1 = (1 .. i) \cup {i + 1}
      OBVIOUS
    <3> QED BY <3>1
  <2>4. kept[i + 1] = IF s[i + 1] \in G THEN Append(kept[i], s[i + 1]) ELSE kept[i]
    BY <1>9, <2>2
  <2>5. CASE s[i + 1] \in G
    <3>1. PICK e \in Url : e = s[i + 1]
      BY <2>2
    <3>2. Append(kept[i], e) \in Seq(Url) /\ ToSet(Append(kept[i], e)) = ToSet(kept[i]) \cup {e}
      BY <2>1, <3>1, AppendSet
    <3> QED BY <2>1, <2>3, <2>4, <2>5, <3>1, <3>2
  <2>6. CASE s[i + 1] \notin G
    BY <2>1, <2>3, <2>4, <2>6
  <2> QED BY <2>5, <2>6
<1>12. Len(s) \in K
  <2> HIDE DEF K
  <2>1. Nat \subseteq K
    BY <1>10, <1>11, SetInduction
  <2> QED BY <1>4, <2>1
<1>13. First(Len(s)) = ToSet(s)
  BY <1>4 DEF ToSet
<1>14. kept[Len(s)] \in Seq(Url) /\ ToSet(kept[Len(s)]) = ToSet(s) \cap G
  BY <1>4, <1>12, <1>13
<1> QED BY <1>8, <1>14 DEF G

-----------------------------------------------------------------------------
(* Types, and what the crawl finds.                                        *)

\* What makes the crawl miss nothing and invent nothing:
\*   - in any set of pages that is closed under links, the pages of the result
\*     and those behind the queued URLs are included;
\*   - unless a fetch failed, a URL that was visited has its page in the result,
\*     and the base URL and the links of the result were visited or are queued;
\*   - a crawl that returned had nothing left to visit, or reached the limit.
Met == visited \cup ToSet(queue)
SoundInv ==
    \A P \in SUBSET Url : Closed(P) =>
        /\ ToSet(results) \subseteq P
        /\ \A u \in ToSet(queue) : Requestable(u) => site.redirect[u] \in P
CompleteInv ==
    /\ failed = {} => \A u \in visited : site.redirect[u] \in OnSite => site.redirect[u] \in ToSet(results)
    /\ \A p \in ToSet(results), u \in Url : u \in ToSet(site.links[p]) /\ Requestable(u) => u \in Met
    /\ pc = "crawling" \/ (pc = "returned" /\ visited # {}) => (Requestable(Base) => Base \in Met)
    /\ pc = "start" => visited = {}
    /\ pc = "returned" /\ visited # {} => queue = <<>> \/ Len(results) >= PageLimit
CrawlInv == TypeOK /\ site \in Sites /\ PagesInv /\ SoundInv /\ CompleteInv

LEMMA SiteType == ASSUME TypeOK, NEW u \in Url
                  PROVE  site.links[u] \in Seq(Url) /\ site.redirect[u] \in Url
BY DEF TypeOK, Site

\* A step of the loop: the URL it takes from the queue.
LEMMA Taken ==
    ASSUME TypeOK, InLoop
    PROVE  /\ Head(queue) \in Url /\ Tail(queue) \in Seq(Url)
           /\ ToSet(queue) = {Head(queue)} \cup ToSet(Tail(queue))
BY TailSet DEF TypeOK, InLoop

LEMMA TypeInit == Init => TypeOK /\ site \in Sites
BY ConstantsOK DEF Init, TypeOK

LEMMA FetchPageType == ASSUME TypeOK, FetchPage PROVE TypeOK'
<1> DEFINE u == Head(queue)
           page == site.redirect[u]
           seen == visited \cup {u, page}
<1>1. InLoop /\ u \in Url /\ Tail(queue) \in Seq(Url)
  BY Taken DEF FetchPage
<1>2. page \in Url /\ site.links[page] \in Seq(Url)
  BY <1>1, SiteType
<1>3. /\ visited' = seen /\ site' = site /\ pc' = pc /\ failed' = failed /\ reached' = reached
  BY DEF FetchPage
<1>4. seen \subseteq Url /\ failed \subseteq seen /\ seen # {}
  BY <1>1, <1>2 DEF TypeOK
<1>5. CASE page # u /\ page \in visited
  <2>1. queue' = Tail(queue) /\ results' = results /\ isFirst' = isFirst
    BY <1>5 DEF FetchPage
  <2>2. isFirst = FALSE
    BY <1>5 DEF TypeOK
  <2> QED BY <1>1, <1>3, <1>4, <2>1, <2>2 DEF TypeOK
<1>6. CASE ~(page # u /\ page \in visited)
  <2>1. /\ queue' = Tail(queue) \o NewLinks(site.links[page], seen)
        /\ results' = Append(results, page) /\ isFirst' = FALSE
    BY <1>6 DEF FetchPage
  <2>2. NewLinks(site.links[page], seen) \in Seq(Url)
    BY <1>2, NewLinksSet
  <2>3. queue' \in Seq(Url)
    BY <1>1, <2>1, <2>2, ConcatSet
  <2>4. results' \in Seq(Url)
    BY <1>2, <2>1 DEF TypeOK
  <2> HIDE DEF seen
  <2> QED BY <1>3, <1>4, <2>1, <2>3, <2>4 DEF TypeOK
<1> QED BY <1>5, <1>6

LEMMA TypeNext == TypeOK /\ [Next]_vars => TypeOK'
<1> SUFFICES ASSUME TypeOK, [Next]_vars PROVE TypeOK'
  OBVIOUS
<1>1. CASE CheckBase
  <2>1. queue' \in Seq(Url)
    <3>1. Base \in Url /\ <<Base>> \in Seq(Url)
      BY ConstantsOK
    <3> QED BY <1>1, <3>1 DEF CheckBase, TypeOK
  <2> QED BY <1>1, <2>1 DEF CheckBase, TypeOK
<1>2. CASE PassOver
  BY <1>2, Taken DEF PassOver, TypeOK
<1>3. CASE FetchFails
  <2>1. Head(queue) \in Url /\ Tail(queue) \in Seq(Url)
    BY <1>3, Taken DEF FetchFails
  <2>2. /\ visited' = visited \cup {Head(queue)} /\ failed' \subseteq failed \cup {Head(queue)}
        /\ queue' = Tail(queue) /\ isFirst' = FALSE /\ site' = site /\ results' = results
        /\ pc' \in {pc, "raised"} /\ reached' \in BOOLEAN
    BY <1>3 DEF FetchFails, TypeOK
  <2> QED BY <2>1, <2>2 DEF TypeOK
<1>4. CASE FetchPage
  BY <1>4, FetchPageType
<1>5. CASE Return \/ Convert
  <2>1. pc' \in {"returned", "cleanup", "ingest"} /\ UNCHANGED <<site, queue, visited, results, isFirst, failed, reached>>
    BY <1>5 DEF Return, Convert
  <2> QED BY <2>1 DEF TypeOK
<1>6. CASE UNCHANGED vars
  BY <1>6 DEF vars, TypeOK
<1> QED BY <1>1, <1>2, <1>3, <1>4, <1>5, <1>6 DEF Next

\* The crawler's lists hold URLs, what failed was visited, and is_first_request
\* is set exactly until the first visit, on every path through the loop.
THEOREM TypeCorrect == Spec => []TypeOK
BY TypeInit, TypeNext, PTL DEF Spec

-----------------------------------------------------------------------------

\* A step that leaves the site, the visited URLs and the result alone and takes
\* nothing worth visiting from the queue.
LEMMA QuietStep ==
    ASSUME CrawlInv, TypeOK', site' = site, visited' = visited, results' = results,
           failed' = failed, ToSet(queue') \subseteq ToSet(queue),
           \A u \in ToSet(queue) : Requestable(u) => u \in visited' \cup ToSet(queue')
    PROVE  /\ SoundInv'
           /\ failed' = {} => \A u \in visited' :
                site'.redirect[u] \in OnSite => site'.redirect[u] \in ToSet(results')
           /\ \A p \in ToSet(results'), u \in Url :
                u \in ToSet(site'.links[p]) /\ Requestable(u)' => u \in Met'
<1>1. \A P : Closed(P)' <=> Closed(P)
  BY DEF Closed, Requestable
<1>2. SoundInv'
  BY <1>1 DEF CrawlInv, SoundInv, Requestable
<1>3. \A u : Requestable(u)' <=> Requestable(u)
  BY DEF Requestable
<1>4. \A u \in Met : Requestable(u) => u \in Met'
  BY DEF Met
<1> QED BY <1>2, <1>3, <1>4 DEF CrawlInv, CompleteInv

LEMMA CheckBaseFinds == ASSUME CrawlInv, CheckBase PROVE SoundInv' /\ CompleteInv'
<1>1. /\ pc = "start" /\ visited = {} /\ site' = site /\ visited' = visited
      /\ results' = results /\ failed' = failed
  BY DEF CheckBase, CrawlInv, CompleteInv
<1>2. ToSet(results) = {} 
  BY <1>1 DEF CrawlInv, PagesInv
<1>3. \A P : Closed(P)' <=> Closed(P)
  BY <1>1 DEF Closed, Requestable
<1>4. \A u : Requestable(u)' <=> Requestable(u)
  BY <1>1 DEF Requestable
<1>5. CASE pc' = "crawling" /\ queue' = <<Base>>
  <2>1. ToSet(queue') = {Base}
    BY <1>5 DEF ToSet
  <2>2. SoundInv'
    BY <1>1, <1>2, <1>3, <1>4, <2>1 DEF SoundInv, Closed
  <2>3. CompleteInv'
    BY <1>1, <1>2, <1>5, <2>1 DEF CompleteInv, Met
  <2> QED BY <2>2, <2>3
<1>6. CASE pc' = "returned" /\ queue' = queue
  <2>1. SoundInv'
    BY <1>1, <1>3, <1>4, <1>6 DEF CrawlInv, SoundInv
  <2>2. CompleteInv'
    BY <1>1, <1>2, <1>6 DEF CompleteInv
  <2> QED BY <2>1, <2>2
<1> QED BY <1>5, <1>6 DEF CheckBase

LEMMA PassOverFinds == ASSUME CrawlInv, TypeOK', PassOver PROVE SoundInv' /\ CompleteInv'
<1> DEFINE u == Head(queue)
<1>1. /\ InLoop /\ ~WorthVisiting(u) /\ queue' = Tail(queue) /\ pc' = pc /\ site' = site
      /\ visited' = visited /\ results' = results /\ failed' = failed
  BY DEF PassOver
<1>2. ToSet(queue) = {u} \cup ToSet(queue')
  BY <1>1, Taken DEF CrawlInv
<1>3. Requestable(u) => u \in visited
  BY <1>1 DEF Requestable, WorthVisiting
<1>4. \A v \in ToSet(queue) : Requestable(v) => v \in visited' \cup ToSet(queue')
  BY <1>1, <1>2, <1>3
<1>5. \A v \in Met : Requestable(v) => v \in Met'
  BY <1>1, <1>4 DEF Met
<1>6. pc = "crawling" /\ Requestable(Base)' = Requestable(Base)
  BY <1>1 DEF InLoop, Requestable
<1>7. Requestable(Base)' => Base \in Met'
  BY <1>5, <1>6 DEF CrawlInv, CompleteInv
<1> QED BY <1>1, <1>2, <1>4, <1>6, <1>7, QuietStep DEF CompleteInv

LEMMA ReturnFinds ==
    ASSUME CrawlInv, TypeOK', Return \/ Convert \/ UNCHANGED vars PROVE SoundInv' /\ CompleteInv'
<1>1. /\ site' = site /\ visited' = visited /\ results' = results /\ failed' = failed
      /\ queue' = queue
  BY DEF Return, Convert, vars
<1>2. Met' = Met /\ Requestable(Base)' = Requestable(Base)
  BY <1>1 DEF Met, Requestable
<1>3. \A u \in ToSet(queue) : Requestable(u) => u \in visited' \cup ToSet(queue')
  BY <1>1
<1>4. CASE Return
  <2>1. pc = "crawling" /\ pc' = "returned" /\ (queue = <<>> \/ ~(Len(results) < PageLimit))
    BY <1>4 DEF Return, InLoop
  <2>2. Len(results) \in Nat /\ PageLimit \in Nat
    BY ConstantsOK DEF CrawlInv, TypeOK
  <2>3. queue' = <<>> \/ Len(results') >= PageLimit
    BY <1>1, <2>1, <2>2
  <2> QED BY <1>1, <1>2, <1>3, <2>1, <2>3, QuietStep DEF CompleteInv, CrawlInv
<1>5. CASE Convert \/ UNCHANGED vars
  <2>1. pc' \in {"cleanup", "ingest"} \/ pc' = pc
    BY <1>5 DEF Convert, vars
  <2> QED BY <1>1, <1>2, <1>3, <2>1, QuietStep DEF CompleteInv, CrawlInv
<1> QED BY <1>4, <1>5

\* A page that cannot be fetched is a failure, unless it is not on the site.
LEMMA FetchFailsFinds == ASSUME CrawlInv, TypeOK', FetchFails PROVE SoundInv' /\ CompleteInv'
<1> DEFINE u == Head(queue)
<1>1. /\ InLoop /\ queue' = Tail(queue) /\ site' = site /\ visited' = visited \cup {u}
      /\ results' = results /\ pc' \in {pc, "raised"} /\ pc = "crawling"
      /\ failed' = IF site.redirect[u] \in OnSite THEN failed \cup {u} ELSE failed
  BY DEF FetchFails, InLoop
<1>2. ToSet(queue) = {u} \cup ToSet(queue')
  BY <1>1, Taken DEF CrawlInv
<1>3. \A P : Closed(P)' <=> Closed(P)
  BY <1>1 DEF Closed, Requestable
<1>4. \A v : Requestable(v)' <=> Requestable(v)
  BY <1>1 DEF Requestable
<1>5. Met' = Met
  BY <1>1, <1>2 DEF Met
<1>6. SoundInv'
  BY <1>1, <1>2, <1>3, <1>4 DEF CrawlInv, SoundInv
<1>7. failed' = {} => failed = {} /\ site.redirect[u] \notin OnSite
  BY <1>1
<1>8. CompleteInv'
  BY <1>1, <1>4, <1>5, <1>7 DEF CrawlInv, CompleteInv
<1> QED BY <1>6, <1>8

LEMMA FetchPageFinds == ASSUME CrawlInv, TypeOK', FetchPage PROVE SoundInv' /\ CompleteInv'
<1> DEFINE u == Head(queue)
           page == site.redirect[u]
           seen == visited \cup {u, page}
<1>1. /\ InLoop /\ WorthVisiting(u) /\ site' = site /\ visited' = seen /\ page \in OnSite
      /\ pc' = pc /\ pc = "crawling" /\ failed' = failed
  BY DEF FetchPage, InLoop
<1>2. u \in Url /\ ToSet(queue) = {u} \cup ToSet(Tail(queue)) /\ Tail(queue) \in Seq(Url)
  BY <1>1, Taken DEF CrawlInv
<1>3. page \in Url /\ site.links[page] \in Seq(Url) /\ site.redirect[page] = page
  BY <1>2, SiteType, ConstantsOK DEF CrawlInv
<1>4. Requestable(u)
  BY <1>1 DEF Requestable, WorthVisiting
<1>5. \A P : Closed(P)' <=> Closed(P)
  BY <1>1 DEF Closed, Requestable
<1>6. \A v : Requestable(v)' <=> Requestable(v)
  BY <1>1 DEF Requestable
<1>7. ASSUME NEW P \in SUBSET Url, Closed(P)
      PROVE  /\ page \in P /\ ToSet(results) \subseteq P
             /\ \A v \in ToSet(Tail(queue)) : Requestable(v) => site.redirect[v] \in P
  BY <1>2, <1>4, <1>7 DEF CrawlInv, SoundInv
<1> HIDE DEF u, page
<1>8. CASE page # u /\ page \in visited
  <2>1. queue' = Tail(queue) /\ results' = results
    BY <1>8 DEF FetchPage, u, page
  <2>2. Met \subseteq Met'
    BY <1>1, <1>2, <2>1 DEF Met
  <2>3. SoundInv'
    BY <1>5, <1>6, <1>7, <1>1, <2>1 DEF SoundInv
  <2>4. ASSUME failed = {}, NEW v \in seen, site.redirect[v] \in OnSite
        PROVE  site.redirect[v] \in ToSet(results)
    <3>1. \A w \in visited : site.redirect[w] \in OnSite => site.redirect[w] \in ToSet(results)
      BY <2>4 DEF CrawlInv, CompleteInv
    <3>2. site.redirect[u] = page
      BY DEF page
    <3> QED BY <1>1, <1>3, <1>8, <2>4, <3>1, <3>2
  <2>5. CompleteInv'
    BY <1>1, <1>6, <2>1, <2>2, <2>4 DEF CrawlInv, CompleteInv
  <2> QED BY <2>3, <2>5
<1>9. CASE ~(page # u /\ page \in visited)
  <2> DEFINE new == NewLinks(site.links[page], seen)
  <2>1. queue' = Tail(queue) \o new /\ results' = Append(results, page)
    BY <1>9 DEF FetchPage, u, page
  <2>2. new \in Seq(Url) /\ ToSet(new) = ToSet(site.links[page]) \cap (OnSite \ (Skipped \cup seen))
    BY <1>3, NewLinksSet
  <2> HIDE DEF new
  <2>3. ToSet(queue') = ToSet(Tail(queue)) \cup ToSet(new)
    <3>1. Tail(queue) \in Seq(Url) /\ new \in Seq(Url)
      BY <1>2, <2>2
    <3>2. ToSet(Tail(queue) \o new) = ToSet(Tail(queue)) \cup ToSet(new)
      BY <3>1, ConcatSet
    <3> QED BY <2>1, <3>2
  <2>4. ToSet(results') = ToSet(results) \cup {page}
    BY <1>3, <2>1, AppendSet DEF CrawlInv, TypeOK
  <2>5. SoundInv'
    <3> SUFFICES ASSUME NEW P \in SUBSET Url, Closed(P)
                 PROVE  /\ ToSet(results') \subseteq P
                        /\ \A v \in ToSet(queue') : Requestable(v) => site.redirect[v] \in P
      BY <1>1, <1>5, <1>6 DEF SoundInv
    <3>1. \A v \in ToSet(new) : v \in Url /\ v \in ToSet(site.links[page])
      BY <2>2, ConstantsOK
    <3>2. page \in P
      BY <1>7
    <3>3. \A v \in ToSet(new) : Requestable(v) => site.redirect[v] \in P
      BY <3>1, <3>2 DEF Closed
    <3> QED BY <1>7, <2>3, <2>4, <3>3
  <2>6. Met \subseteq Met'
    BY <1>1, <1>2, <2>3 DEF Met
  <2>7. ASSUME NEW v \in Url, v \in ToSet(site.links[page]), Requestable(v) PROVE v \in Met'
    <3>1. v \in seen \/ v \in ToSet(new)
      BY <2>2, <2>7 DEF Requestable
    <3> QED BY <1>1, <2>3, <3>1 DEF Met
  <2>8. ASSUME failed = {}, NEW v \in seen, site.redirect[v] \in OnSite
        PROVE  site.redirect[v] \in ToSet(results')
    <3>1. \A w \in visited : site.redirect[w] \in OnSite => site.redirect[w] \in ToSet(results)
      BY <2>8 DEF CrawlInv, CompleteInv
    <3>2. site.redirect[u] = page
      BY DEF page
    <3> QED BY <1>3, <2>4, <2>8, <3>1, <3>2
  <2>9. CompleteInv'
    BY <1>1, <1>6, <2>4, <2>6, <2>7, <2>8 DEF CrawlInv, CompleteInv
  <2> QED BY <2>5, <2>9
<1> QED BY <1>8, <1>9

LEMMA CrawlInit == Init => CrawlInv
<1> SUFFICES ASSUME Init PROVE SoundInv /\ CompleteInv
  BY TypeInit, PagesInit DEF CrawlInv
<1>1. /\ ToSet(results) = {} /\ ToSet(queue) = {} /\ visited = {} /\ pc = "start"
  BY DEF Init, ToSet
<1> QED BY <1>1 DEF SoundInv, CompleteInv

LEMMA CrawlNext == CrawlInv /\ [Next]_vars => CrawlInv'
<1> SUFFICES ASSUME CrawlInv, [Next]_vars PROVE CrawlInv'
  OBVIOUS
<1>1. TypeOK' /\ PagesInv'
  <2>1. TypeOK /\ PagesInv
    BY DEF CrawlInv
  <2>2. TypeOK'
    BY <2>1, TypeNext
  <2>3. PagesInv'
    BY <2>1, PagesNext
  <2> QED BY <2>2, <2>3
<1>2. site' \in Sites
  BY DEF CrawlInv, Next, CheckBase, PassOver, FetchFails, FetchPage, Return, Convert, vars
<1>3. SoundInv' /\ CompleteInv'
  BY <1>1, CheckBaseFinds, PassOverFinds, ReturnFinds, FetchFailsFinds, FetchPageFinds DEF Next
<1> QED BY <1>1, <1>2, <1>3 DEF CrawlInv

\* crawl() returns exactly the pages that can be reached from the base URL, for
\* every site, whatever cycles, duplicate links and redirects it has, unless the
\* page limit ends it or a fetch fails: no URL is marked as visited, skipped or
\* dropped from the queue in a way that hides a page.
THEOREM CrawlFindsAll == Spec => []FindsEveryPage
<1>1. CrawlInv => FindsEveryPage
  <2> SUFFICES ASSUME CrawlInv, pc = "returned", visited # {}, failed = {},
                      Len(results) < PageLimit
               PROVE  ToSet(results) = Reachable
    BY DEF FindsEveryPage
  <2>1. Len(results) \in Nat /\ PageLimit \in Nat
    BY ConstantsOK DEF CrawlInv, TypeOK
  <2>2. queue = <<>>
    BY <2>1 DEF CrawlInv, CompleteInv
  <2>3. Met = visited
    BY <2>2 DEF Met, ToSet
  <2>4. \A u \in visited : Requestable(u) => site.redirect[u] \in ToSet(results)
    BY DEF CrawlInv, CompleteInv, Requestable
  <2>5. Closed(ToSet(results))
    BY <2>3, <2>4 DEF CrawlInv, CompleteInv, Closed
  <2>6. ToSet(results) \in SUBSET Url
    BY DEF CrawlInv, TypeOK, ToSet
  <2>7. Reachable \subseteq ToSet(results)
    BY <2>5, <2>6 DEF Reachable
  <2>8. ToSet(results) \subseteq Reachable
    BY <2>6 DEF CrawlInv, SoundInv, Reachable
  <2> QED BY <2>7, <2>8
<1> QED BY <1>1, CrawlInit, CrawlNext, PTL DEF Spec
=============================================================================
