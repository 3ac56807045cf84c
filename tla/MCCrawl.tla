------------------------------ MODULE MCCrawl -------------------------------
(* TLC instances of Crawl: small sites around a base page, four more       *)
(* pages, a page of another domain and a file that is not worth a visit.   *)
EXTENDS Crawl
CONSTANTS base, a, b, c, d, ext, pdf

Pages == {base, a, b, c, d}
LinkLists == {<<>>, <<a>>, <<a, b>>, <<b, a>>, <<a, a>>, <<ext, b>>, <<c, b, base, a>>}
BackLinks == {<<>>, <<base, c>>, <<pdf, a>>, <<d, b>>}
Redirects ==
    {f \in [Pages -> Pages \cup {ext}] :
        /\ \A u \in Pages : f[u] = ext \/ f[f[u]] = f[u]
        /\ Cardinality({u \in Pages : f[u] # u}) <= 2}

\* The pages of the site link to and redirect to each other; every page or only
\* some have text.
SmallSites ==
    {[links |-> (base :> l @@ a :> m @@ b :> n @@ c :> <<d, a>> @@ d :> <<>> @@ ext :> <<base>> @@ pdf :> <<>>),
      redirect |-> f @@ (ext :> ext @@ pdf :> pdf),
      text |-> t] :
        l \in LinkLists, m \in BackLinks, n \in BackLinks, f \in Redirects,
        t \in {Pages, {b}}}

\* A single page without links is enough for the counterexample.
OnePage ==
    {[links |-> [u \in Url |-> <<>>], redirect |-> [u \in Url |-> u], text |-> {base}]}
=============================================================================
