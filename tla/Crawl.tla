------------------------------- MODULE Crawl --------------------------------
(***************************************************************************)
(* The website crawler and what the ingest plugin makes of its result:     *)
(* crawl() of ingest_website/crawler.py and the first half of handle() of  *)
(* ingest_website/plugin.py.  Fetching is guarded_fetch of url_guard.py:   *)
(* it follows redirects within the domain and returns a page or a refusal. *)
(*                                                                         *)
(* The web site is chosen in the initial state and does not change during  *)
(* one crawl; whether a fetch succeeds may change from one to the next.    *)
(***************************************************************************)
EXTENDS Naturals, Sequences, FiniteSets, SequencesExt

CONSTANTS
    Url,         \* normalized URLs
    Base,        \* the base URL of the event
    OnSite,      \* URLs with the netloc of the base URL
    Skipped,     \* URLs whose path ends in one of SKIP_EXTENSIONS
    PageLimit,   \* page_limit
    Sites        \* the web sites considered

\* links: the URLs that a page links to, in document order; redirect: the final
\* URL of a request; text: the pages from which extract_text gets some text.
Site == [links : [Url -> Seq(Url)], redirect : [Url -> Url], text : SUBSET Url]
ASSUME ConstantsOK ==
    /\ IsFiniteSet(Url) /\ OnSite \subseteq Url /\ Skipped \subseteq Url /\ Base \in OnSite
    /\ PageLimit \in Nat \ {0}
    /\ Sites \subseteq Site
    \* the final answer to a request is a page, not a redirect
    /\ \A s \in Sites, u \in Url : s.redirect[s.redirect[u]] = s.redirect[u]

VARIABLES
    site,       \* the web site
    pc,         \* "start", "crawling", "returned", "raised", "ingest", "cleanup"
    queue, visited, results,   \* as in crawl(); results: URLs of the pages
    isFirst,    \* is_first_request
    failed,     \* history: URLs whose fetch failed for no fault of the page
    reached     \* history: nothing kept the crawler from contacting the base URL
vars == <<site, pc, queue, visited, results, isFirst, failed, reached>>

TypeOK ==
    /\ site \in Site
    /\ pc \in {"start", "crawling", "returned", "raised", "ingest", "cleanup"}
    /\ queue \in Seq(Url) /\ results \in Seq(Url)
    /\ visited \subseteq Url /\ failed \subseteq visited
    /\ isFirst \in BOOLEAN /\ reached \in BOOLEAN
    /\ isFirst <=> visited = {}

Init ==
    /\ site \in Sites /\ pc = "start"
    /\ queue = <<>> /\ visited = {} /\ results = <<>>
    /\ isFirst = TRUE /\ failed = {} /\ reached = TRUE

-----------------------------------------------------------------------------

\* check_destination of the base URL: allowed, refused by policy, or the name
\* could not be resolved.  A refusal returns no pages.
CheckBase ==
    /\ pc = "start"
    /\ \/ pc' = "crawling" /\ queue' = <<Base>> /\ UNCHANGED reached
       \/ pc' = "returned" /\ reached' \in BOOLEAN /\ UNCHANGED queue
    /\ UNCHANGED <<site, visited, results, isFirst, failed>>

\* Mutant: the page limit is not part of the loop condition.
InLoopUnlimited == pc = "crawling" /\ queue # <<>>

InLoop == pc = "crawling" /\ queue # <<>> /\ Len(results) < PageLimit

WorthVisiting(u) == u \notin visited /\ u \notin Skipped /\ u \in OnSite

\* Mutant: a URL is taken from the queue only when it is fetched.
PassOverInPlace ==
    /\ InLoop /\ ~WorthVisiting(Head(queue))
    /\ UNCHANGED vars

PassOver ==
    /\ InLoop /\ ~WorthVisiting(Head(queue))
    /\ queue' = Tail(queue)
    /\ UNCHANGED <<site, pc, visited, results, isFirst, failed, reached>>

\* Mutant: is_first_request stays set after a failed fetch.
FetchFailsStillFirst ==
    /\ InLoop /\ WorthVisiting(Head(queue))
    /\ visited' = visited \cup {Head(queue)}
    /\ queue' = Tail(queue)
    /\ UNCHANGED <<site, pc, results, isFirst, failed, reached>>

\* The fetch gave no body.  The base URL being unreachable (no HTTP status at
\* all) ends the crawl with CrawlError; any other refusal, a name that does not
\* resolve this time included, passes over the page.
FetchFails ==
    /\ InLoop /\ WorthVisiting(Head(queue))
    /\ LET u == Head(queue) IN
       /\ visited' = visited \cup {u}
       /\ failed' = IF site.redirect[u] \in OnSite THEN failed \cup {u} ELSE failed
       /\ \/ isFirst /\ pc' = "raised" /\ reached' = FALSE
          \/ UNCHANGED pc /\ reached' \in IF isFirst THEN BOOLEAN ELSE {reached}
    /\ queue' = Tail(queue) /\ isFirst' = FALSE
    /\ UNCHANGED <<site, results>>

\* The links of a page that are queued, in document order: SelectSeq, as a
\* function that can be reasoned about.
NewLinks(links, seen) ==
    LET kept[i \in 0 .. Len(links)] ==
            IF i = 0 THEN <<>>
            ELSE IF links[i] \in OnSite \ (Skipped \cup seen) THEN Append(kept[i - 1], links[i])
            ELSE kept[i - 1]
    IN  kept[Len(links)]

\* Mutant: the redirect target is not compared with the visited pages.
FetchRedirectUnchecked ==
    /\ InLoop /\ WorthVisiting(Head(queue))
    /\ LET u == Head(queue)
           page == site.redirect[u]
           seen == visited \cup {u, page} IN
       /\ page \in OnSite
       /\ results' = Append(results, page)
       /\ visited' = seen
       /\ queue' = Tail(queue) \o NewLinks(site.links[page], seen)
    /\ isFirst' = FALSE
    /\ UNCHANGED <<site, pc, failed, reached>>

\* Mutant: the links are resolved against the requested URL instead of the page
\* that served them.
FetchLinksOfRequest ==
    /\ InLoop /\ WorthVisiting(Head(queue))
    /\ LET u == Head(queue)
           page == site.redirect[u]
           seen == visited \cup {u, page} IN
       /\ page \in OnSite
       /\ visited' = seen
       /\ IF page # u /\ page \in visited
          THEN queue' = Tail(queue) /\ UNCHANGED <<results, isFirst>>
          ELSE /\ results' = Append(results, page)
               /\ queue' = Tail(queue) \o NewLinks(site.links[u], seen)
               /\ isFirst' = FALSE
    /\ UNCHANGED <<site, pc, failed, reached>>

\* A page.  It counts under its final URL, once, and its links are queued.
FetchPage ==
    /\ InLoop /\ WorthVisiting(Head(queue))
    /\ LET u == Head(queue)
           page == site.redirect[u]
           seen == visited \cup {u, page} IN
       /\ page \in OnSite
       /\ visited' = seen
       /\ IF page # u /\ page \in visited
          THEN queue' = Tail(queue) /\ UNCHANGED <<results, isFirst>>
          ELSE /\ results' = Append(results, page)
               /\ queue' = Tail(queue) \o NewLinks(site.links[page], seen)
               /\ isFirst' = FALSE
    /\ UNCHANGED <<site, pc, failed, reached>>

Return ==
    /\ pc = "crawling" /\ ~InLoop
    /\ pc' = "returned"
    /\ UNCHANGED <<site, queue, visited, results, isFirst, failed, reached>>

\* handle(): pages with text are the documents; on sites of four pages or more
\* the removal of repeated paragraphs may leave some of them without text.
Convert ==
    /\ pc = "returned"
    /\ LET documents == {u \in ToSet(results) : u \in site.text} IN
       \E kept \in SUBSET documents :
         /\ kept # documents => Cardinality(documents) >= 4
         /\ pc' = IF kept = {} THEN "cleanup" ELSE "ingest"
    /\ UNCHANGED <<site, queue, visited, results, isFirst, failed, reached>>

Next == CheckBase \/ PassOver \/ FetchFails \/ FetchPage \/ Return \/ Convert
Spec == Init /\ [][Next]_vars

\* Every fetch returns: guarded_fetch bounds resolution, redirects and reads.
FairSpec == Spec /\ WF_vars(Next)

-----------------------------------------------------------------------------
(* Properties.                                                             *)

\* Every page is returned once, whichever redirects lead to it: page URLs are
\* the document ids of the ingestion, which takes them to be unique.
NoDuplicatePages == IsInjective(results)

\* The crawl stays within the site and the page limit, across redirects.
StaysInBounds == ToSet(results) \subseteq OnSite /\ Len(results) <= PageLimit

\* The pages one can reach: the base URL's page and, from each page, the pages
\* behind its links within the domain.
Requestable(u) == u \in OnSite \ Skipped /\ site.redirect[u] \in OnSite
Closed(P) ==
    /\ Requestable(Base) => site.redirect[Base] \in P
    /\ \A p \in P, u \in Url :
         u \in ToSet(site.links[p]) /\ Requestable(u) => site.redirect[u] \in P
Reachable == {p \in Url : \A P \in SUBSET Url : Closed(P) => p \in P}

\* Without failing fetches and below the page limit, the crawl returns exactly
\* the reachable pages, despite cycles, duplicate links and redirects; a page
\* it missed would be deleted from the knowledge base.
FindsEveryPage ==
    pc = "returned" /\ visited # {} /\ failed = {} /\ Len(results) < PageLimit =>
        ToSet(results) = Reachable

\* The crawl ends, whatever the links.
Terminates == <>(pc \in {"raised", "ingest", "cleanup"})

\* Violated.  crawler.py docstring: "Raises CrawlError when the base URL is
\* unreachable (e.g. network error, DNS failure) so callers can distinguish a
\* genuine empty site from a transient failure."
UnreachableIsNoEmptySite == ~reached => pc # "cleanup"
=============================================================================
