------------------------------ MODULE MCIngest ------------------------------
(* TLC instances of IngestPipeline.                                        *)
EXTENDS IngestPipeline
CONSTANTS d1, d2, p1, p2

Just(d, P) == [NoCorpus EXCEPT ![d] = P]

\* Corpora of two documents and two pieces: empty, below and at the summary
\* threshold, with documents and pieces coming and going.  The second document
\* only grows and shrinks, the first one is also replaced.
ManyCorpora == {c \in [Doc -> SUBSET Piece] : c[d2] # {p2}}

\* A few of them for the counterexamples.
SomeCorpora == {
    NoCorpus,
    Just(d1, {p1}), Just(d1, {p2}), Just(d1, {p1, p2}),
    [d \in Doc |-> {p1, p2}],
    [Just(d1, {p1, p2}) EXCEPT ![d2] = {p1}],
    Just(d2, {p1})}

\* An older and a newer version of one document.
TwoVersions == {Just(d1, {p1}), Just(d1, {p2})}
=============================================================================
