----------------------------- MODULE MCIndexer -----------------------------
EXTENDS Indexer

CONSTANTS a, b, v, w, x

\* One text imports the one file, another both, and one is not UTF-8.
MCImports  == (v :> {b}) @@ (w :> {a, b}) @@ (x :> {})

\* There is no parser for what the second file may hold.
MCUnparsed == {<<b, v>>}
=============================================================================
