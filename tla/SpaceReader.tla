---------------------------- MODULE SpaceReader ----------------------------
(***************************************************************************)
(* The reading half of one space ingestion, IngestSpacePlugin.handle: the  *)
(* GraphQL client logs in, asks for the tree with retries, the reader      *)
(* walks it depth first and turns it into documents, fetching what link    *)
(* contributions point to through UrlGuard, and handle chooses between     *)
(* the pipeline, the clean-up of an empty collection and a failure.        *)
(*                                                                         *)
(* A node's texts are members of Text, or Absent; "markup" is HTML that    *)
(* strips to nothing.  A document's content is the sequence of the parts   *)
(* that are joined into it.                                                *)
(***************************************************************************)
EXTENDS UrlGuard, SequencesExt

CONSTANTS Trees,        \* what the platform may hold, see TreeAssumption
          MaxRetries    \* MAX_RETRIES of the GraphQL client

Absent == ""

Node == UNION {t.nodes : t \in Trees}

Contribution == {"post", "whiteboard", "link"}

\* The node that lists n; the root is above itself.
Up(t, n) == IF n = t.root THEN n ELSE CHOOSE m \in t.nodes : n \in ToSet(t.children[m])

\* An answer to the query: spaces with callouts and subspaces, two levels of
\* them, and callouts with contributions.  Each object stands in one place.
Answered(t) ==
    /\ t.root \in t.nodes /\ t.kind[t.root] = "space"
    /\ \A m \in t.nodes :
         /\ t.children[m] \in Seq(t.nodes \ {t.root}) /\ IsInjective(t.children[m])
         /\ \A n \in t.nodes \ {m} : ToSet(t.children[m]) \cap ToSet(t.children[n]) = {}
         /\ \A n \in ToSet(t.children[m]) :
              \/ t.kind[m] = "space" /\ t.kind[n] \in {"space", "callout"}
              \/ t.kind[m] = "callout" /\ t.kind[n] \in Contribution
    /\ \A n \in t.nodes \ {t.root} : \E m \in t.nodes : n \in ToSet(t.children[m])
    /\ \A n \in t.nodes :
         /\ t.uri[n] \in Url \cup {NoUrl}
         /\ t.kind[n] = "space" => Up(t, Up(t, n)) = t.root

ASSUME TreeAssumption ==
    /\ MaxRetries \in Nat \ {0}
    /\ \A t \in Trees :
         /\ DOMAIN t = {"root", "nodes", "kind", "id", "title", "text", "uri", "children", "base"}
         /\ t.nodes # {} => Answered(t)

Words(t) == {t.text[n] : n \in Node} \cup {t.title[n] : n \in Node}
Text == {"#", "body"} \cup UNION {Words(t) : t \in Trees}

VARIABLES tree,       \* the platform's answer; without nodes: no such space
          token,      \* _session_token is set; it outlives an ingestion
          phase,      \* where handle is
          attempt,    \* of the query
          todo,       \* the nodes still to be processed, with their position
          documents,  \* emitted so far
          fetched     \* history: link |-> the text its fetch yielded, or Absent

readerVars == <<tree, token, phase, attempt, todo, documents, fetched>>
vars == <<guardVars, readerVars>>

-----------------------------------------------------------------------------
(* The tree as it comes: callouts before subspaces, contributions in order *)

\* The elements of s that are in S, in the order of s.
Kept(s, S) ==
    LET upTo[i \in 0 .. Len(s)] ==
            IF i = 0 THEN <<>>
            ELSE IF s[i] \in S THEN Append(upTo[i - 1], s[i]) ELSE upTo[i - 1]
    IN  upTo[Len(s)]

Children(n, kinds) == Kept(tree.children[n], {c \in tree.nodes : tree.kind[c] \in kinds})

\* A knowledge base has callouts only.
Subspaces(n) == IF tree.base THEN <<>> ELSE Children(n, {"space"})

NoPosition == [space |-> Absent, subspace |-> Absent, callout |-> Absent, depth |-> 0]

\* Mutant: a second level keeps the first level's name.
FirstSubspace(pos, n, depth) ==
    IF depth = 0 THEN [pos EXCEPT !.space = n, !.depth = 0]
    ELSE [pos EXCEPT !.subspace = IF @ = Absent THEN n ELSE @, !.depth = depth]

ForNode(pos, n, depth) ==
    IF depth = 0 THEN [pos EXCEPT !.space = n, !.depth = 0]
    ELSE [pos EXCEPT !.subspace = n, !.depth = depth]

ForCallout(pos, n) == [pos EXCEPT !.callout = n]

ForContribution(pos) == [pos EXCEPT !.depth = 3]

\* A pending visit of a node below the position pos.
Visits(nodes, pos, depth) ==
    [i \in DOMAIN nodes |-> [node |-> nodes[i], pos |-> pos, depth |-> depth]]

\* Joined parts after _strip_html; a link's metadata ends with its URL.
Content(parts, url) ==
    [parts |-> Kept(parts, Text \ {Absent, "markup"}), url |-> url]
Nothing == Content(<<>>, NoUrl)

\* Nothing for empty content, and the first document of a content wins.
AppendUnique(docs, n, type, content, pos) ==
    IF content = Nothing \/ \E i \in DOMAIN docs : docs[i].content = content THEN docs
    ELSE Append(docs, [id |-> n, type |-> type, content |-> content, pos |-> pos])

\* "# title" of a contribution.
Heading(n) == IF tree.title[n] = Absent THEN <<>> ELSE <<"#", tree.title[n]>>

\* The callout's name and description, put before its contributions.
Context(c) == <<tree.title[c], tree.text[c]>>

\* What a node that is no link says.
TextOf(n, c) ==
    IF tree.text[n] = Absent THEN Nothing
    ELSE IF tree.kind[n] \in {"space", "callout"}
    THEN Content(<<tree.title[n], tree.text[n]>>, NoUrl)
    ELSE Content(Context(c) \o Heading(n) \o <<tree.text[n]>>, NoUrl)

\* What a link says: the body under a short header, or metadata in the context
\* of its callout.
LinkText(n, c, body) ==
    IF tree.uri[n] = NoUrl /\ tree.title[n] = Absent /\ tree.text[n] = Absent THEN Nothing
    ELSE IF body # Absent THEN Content(Heading(n) \o <<tree.text[n], body>>, NoUrl)
    ELSE Content(Context(c) \o Heading(n) \o <<tree.text[n]>>, tree.uri[n])

-----------------------------------------------------------------------------
(* What the tree says, without walking it.                                 *)

\* n and the nodes on its way to the root.
Above(t, n) == {n, Up(t, n), Up(t, Up(t, n)), Up(t, Up(t, Up(t, n))), t.root}

\* The space that n is or belongs to, and the callout.
Home(t, n) == CASE t.kind[n] = "space" -> n
                [] t.kind[n] = "callout" -> Up(t, n)
                [] OTHER -> Up(t, Up(t, n))
CalloutOf(t, n) == CASE t.kind[n] = "space" -> Absent
                     [] t.kind[n] = "callout" -> n
                     [] OTHER -> Up(t, n)

\* Of a space: how far it is from the root.
Level(t, s) == IF s = t.root THEN 0 ELSE IF Up(t, s) = t.root THEN 1 ELSE 2

PositionOf(t, n) ==
    [space    |-> t.root,
     subspace |-> IF Home(t, n) = t.root THEN Absent ELSE Home(t, n),
     callout  |-> CalloutOf(t, n),
     depth    |-> IF t.kind[n] \in Contribution THEN 3 ELSE Level(t, Home(t, n))]

\* Spaces and callouts have an identity, and a knowledge base has no subspaces.
Identified(t, m) == t.kind[m] \in {"space", "callout"} => t.id[m]
Legible(t) ==
    {n \in t.nodes : /\ \A m \in Above(t, n) : Identified(t, m)
                     /\ t.base => Home(t, n) = t.root}

ContentOf(n) ==
    IF tree.kind[n] = "link" THEN LinkText(n, CalloutOf(tree, n), fetched[n])
    ELSE TextOf(n, CalloutOf(tree, n))

\* A reading that did not fail yields every content of the legible part of the
\* tree exactly once, under a node that has it and at that node's place: no
\* content is lost to the de-duplication, to a link that could not be fetched or
\* to a node without an id elsewhere, a document names its nearest subspace and
\* its callout although callouts are read before the subspaces that follow, and
\* a collection is only cleaned when the tree has nothing (_process_space,
\* _process_callout, _append_unique, _Position, handle).
WholeTreeRead ==
    phase \in {"ingest", "cleanup"} =>
      /\ {documents[i].content : i \in DOMAIN documents}
           = {ContentOf(n) : n \in Legible(tree)} \ {Nothing}
      /\ \A i \in DOMAIN documents :
           /\ documents[i].content = ContentOf(documents[i].id)
           /\ documents[i].pos = PositionOf(tree, documents[i].id)
      /\ \A i, j \in DOMAIN documents : documents[i].content = documents[j].content => i = j

-----------------------------------------------------------------------------
Position == [space : Node \cup {Absent}, subspace : Node \cup {Absent},
             callout : Node \cup {Absent}, depth : 0 .. 3]

TypeOK ==
    /\ GuardTypeOK
    /\ tree \in Trees
    /\ token \in BOOLEAN
    /\ phase \in {"login", "query", "walk", "fetch", "cleanup", "ingest", "failed"}
    /\ attempt \in 0 .. MaxRetries
    /\ todo \in Seq([node : Node, pos : Position, depth : 0 .. 3])
    /\ documents \in Seq([id : Node, pos : Position,
                          type : {"space", "subspace", "knowledge", "callout"} \cup Contribution,
                          content : [parts : Seq(Text), url : Url \cup {NoUrl}]])
    /\ fetched \in [Node -> {Absent, "body"}]

Init ==
    /\ GuardInit
    /\ tree \in Trees
    /\ token \in BOOLEAN
    /\ phase = "login"
    /\ attempt = 0
    /\ todo = <<>>
    /\ documents = <<>>
    /\ fetched = [n \in Node |-> Absent]

\* query logs in when there is no session; a failed login is not retried.
Authenticate ==
    /\ phase = "login"
    /\ \/ token' = TRUE /\ phase' = "query"
       \/ ~token /\ token' = FALSE /\ phase' = "failed"
    /\ UNCHANGED <<guardVars, tree, attempt, todo, documents, fetched>>

\* The tree arrives; lookup.space may be null.
TreeArrives ==
    /\ phase = "query"
    /\ phase' = "walk"
    /\ todo' = IF tree.nodes = {} THEN <<>> ELSE Visits(<<tree.root>>, NoPosition, 0)
    /\ UNCHANGED <<guardVars, tree, token, attempt, documents, fetched>>

\* Mutant: a failed attempt logs in again and is not counted.
QueryAlwaysAgain ==
    /\ phase = "query"
    /\ token' = FALSE
    /\ phase' = "login"
    /\ UNCHANGED <<guardVars, tree, attempt, todo, documents, fetched>>

\* A transport error, an error status or "errors" in the answer; the last
\* attempt's exception leaves query and handle reports a failure.
QueryAttemptFails ==
    /\ phase = "query"
    /\ attempt' = attempt + 1
    /\ phase' = IF attempt' < MaxRetries THEN "query" ELSE "failed"
    /\ UNCHANGED <<guardVars, tree, token, todo, documents, fetched>>

\* The visit that is due, of a node of one of the kinds.
Due(kinds) == phase = "walk" /\ todo # <<>> /\ tree.kind[todo[1].node] \in kinds

ChildVisits(n, pos, depth) ==
    Visits(Children(n, {"callout"}), pos, depth) \o Visits(Subspaces(n), pos, depth + 1)

\* _process_space: without an id the whole subtree is passed over.
ProcessSpace ==
    LET v   == todo[1]
        n   == v.node
        pos == ForNode(v.pos, n, v.depth)
        type == IF v.depth > 0 THEN "subspace" ELSE IF tree.base THEN "knowledge" ELSE "space"
    IN  /\ Due({"space"})
        /\ documents' = IF tree.id[n] THEN AppendUnique(documents, n, type, TextOf(n, Absent), pos)
                        ELSE documents
        /\ todo' = (IF tree.id[n] THEN ChildVisits(n, pos, v.depth) ELSE <<>>) \o Tail(todo)
        /\ UNCHANGED <<guardVars, tree, token, phase, attempt, fetched>>

\* _process_callout up to its contributions.
ProcessCallout ==
    LET v   == todo[1]
        n   == v.node
        pos == ForCallout(v.pos, n)
    IN  /\ Due({"callout"})
        /\ documents' = IF tree.id[n] THEN AppendUnique(documents, n, "callout", TextOf(n, Absent), pos)
                        ELSE documents
        /\ todo' = (IF tree.id[n] THEN Visits(Children(n, Contribution), ForContribution(pos), 3)
                    ELSE <<>>) \o Tail(todo)
        /\ UNCHANGED <<guardVars, tree, token, phase, attempt, fetched>>

\* A post or a whiteboard.
ProcessText ==
    LET v == todo[1]
    IN  /\ Due({"post", "whiteboard"})
        /\ documents' = AppendUnique(documents, v.node, tree.kind[v.node],
                                     TextOf(v.node, v.pos.callout), v.pos)
        /\ todo' = Tail(todo)
        /\ UNCHANGED <<guardVars, tree, token, phase, attempt, fetched>>

\* The end of a link's visit, with the text that was extracted or Absent.
LinkDone(n, pos, body) ==
    /\ documents' = AppendUnique(documents, n, "link", LinkText(n, pos.callout, body), pos)
    /\ todo' = Tail(todo)
    /\ phase' = "walk"

\* A link without a URI has nothing to fetch.
ProcessPlainLink ==
    LET v == todo[1]
    IN  /\ Due({"link"})
        /\ tree.uri[v.node] = NoUrl
        /\ LinkDone(v.node, v.pos, Absent)
        /\ UNCHANGED <<guardVars, tree, token, attempt, fetched>>

\* fetch_url: the URI is rewritten onto the deployment where it belongs there.
FetchLink ==
    /\ Due({"link"})
    /\ tree.uri[todo[1].node] # NoUrl
    /\ Fetch(RewriteTarget(tree.uri[todo[1].node]))
    /\ phase' = "fetch"
    /\ UNCHANGED <<tree, token, attempt, todo, documents, fetched>>

\* The fetch proceeds; its token provider finds the session of the query.
Fetching ==
    /\ phase = "fetch"
    /\ GuardStep(token)
    /\ UNCHANGED readerVars

\* What extract_text may make of a body: nothing of an empty or unreadable
\* one, else a text that depends on the body.
Extracted(r) ==
    IF r.body = NoBody \/ r.body = <<>> THEN {Absent}
    ELSE IF r.type = "other" /\ ~Recognised(r.body) THEN {Absent}
    ELSE {Absent, "body"}

LinkFetched ==
    LET v == todo[1]
    IN  /\ phase = "fetch"
        /\ step = "done"
        /\ \E text \in Extracted(result) :
             /\ fetched' = [fetched EXCEPT ![v.node] = text]
             /\ LinkDone(v.node, v.pos, text)
        /\ step' = "idle"
        /\ result' = NoResult
        /\ UNCHANGED <<target, hops, decision, request, reading, tree, token, attempt>>

\* handle: nothing was read, or the pipeline runs on what was.
ReadingEnds ==
    /\ phase = "walk"
    /\ todo = <<>>
    /\ phase' = IF documents = <<>> THEN "cleanup" ELSE "ingest"
    /\ UNCHANGED <<guardVars, tree, token, attempt, todo, documents, fetched>>

Handed == phase \in {"cleanup", "ingest", "failed"} /\ UNCHANGED vars

Working ==
    \/ Authenticate \/ TreeArrives \/ QueryAttemptFails
    \/ ProcessSpace \/ ProcessCallout \/ ProcessText
    \/ ProcessPlainLink \/ FetchLink \/ Fetching \/ LinkFetched
    \/ ReadingEnds

Next == Working \/ Handed

Spec == Init /\ [][Next]_vars

\* Every await of the reading has a timeout: 60 seconds per read of the HTTP
\* clients, 30 for the login, 5 for a resolution.
FairSpec == Spec /\ WF_vars(Working)
=============================================================================
