------------------------------ MODULE MCSpace ------------------------------
(* Properties of reading a space, and its instance for TLC.                 *)
EXTENDS SpaceReader

\* The reading ends, whatever the platform and the linked sites do.
ReadEnds == <>(phase \in {"ingest", "cleanup", "failed"})

-----------------------------------------------------------------------------
U(scheme, host, port, path) == [scheme |-> scheme, host |-> host, port |-> port, path |-> path]
HomeUrl == U("https", "home", 0, "api")
Urls == {HomeUrl,
         U("https", "alkem.io", 0, "api"),    \* rewritten onto the deployment
         U("http", "home", 443, "api"),       \* another origin on its host
         U("https", "site", 0, "page"),
         U("http", "127.1", 0, "page"),       \* a spelling of an address
         U("ftp", "site", 0, "page"),
         U("https", "malformed", 0, "page"),
         U("https", "", 0, "page")}
Literals == [h \in {"127.1"} |-> "inner"]

\* A space with two levels of subspaces, listed before the callout, and links
\* on every level.
Kinds == [sp |-> "space", s1 |-> "space", s2 |-> "space", c1 |-> "callout", c2 |-> "callout",
          p1 |-> "post", w1 |-> "whiteboard", l1 |-> "link", l2 |-> "link"]
Kids == [sp |-> <<"s1", "c1">>, s1 |-> <<"s2">>, s2 |-> <<"c2">>, c1 |-> <<"p1", "l1">>,
         c2 |-> <<"w1", "l2">>, p1 |-> <<>>, w1 |-> <<>>, l1 |-> <<>>, l2 |-> <<>>]
All == DOMAIN Kinds

Tree(base, noId, title, text, uri) ==
    [root |-> "sp", nodes |-> All, kind |-> Kinds, children |-> Kids, base |-> base,
     id |-> [n \in All |-> n \notin noId],
     title |-> [n \in All |-> IF n \in DOMAIN title THEN title[n] ELSE Absent],
     text |-> [n \in All |-> IF n \in DOMAIN text THEN text[n] ELSE Absent],
     uri |-> [n \in All |-> IF n \in DOMAIN uri THEN uri[n] ELSE NoUrl]]

NoText == [n \in {} |-> Absent]
Titles == [sp |-> "a", c1 |-> "b", p1 |-> "b", w1 |-> "a", l1 |-> "b", l2 |-> "b"]
Texts == [sp |-> "a", s1 |-> "markup", s2 |-> "a", c1 |-> "b", c2 |-> "b", p1 |-> "a", w1 |-> "a"]
Pages == [l1 |-> U("https", "site", 0, "page"), l2 |-> U("https", "alkem.io", 0, "api")]
SamePage == [l1 |-> HomeUrl, l2 |-> HomeUrl]

Samples ==
    {Tree(FALSE, {}, Titles, Texts, Pages),
     Tree(FALSE, {"s2"}, NoText, Texts, SamePage),
     Tree(FALSE, {"c1"}, Titles, Texts, [l2 |-> U("http", "127.1", 0, "page")]),
     Tree(TRUE, {}, Titles, Texts, [l1 |-> U("http", "home", 443, "api")]),
     Tree(FALSE, {}, [s2 |-> "a"], [s1 |-> "markup"], NoText),
     [Tree(FALSE, {}, NoText, NoText, NoText) EXCEPT !.nodes = {}]}
=============================================================================
