----------------------------- MODULE MCDb4Search -----------------------------
EXTENDS Db4Search

\* Two keys, each in a file of its own.
MCFp == 1 .. 2

\* Two keys a search finds, an aged key that the walk meets last, and a store
\* with room for a new key.
MCStores == {<<{"key", "a", "b"}, {"key", "a", "b"}>>,
             <<{"key", "b", "aged"}, {"key"}>>,
             <<{"key", "a", "b", "aged"}, {}>>}
MCTexts == {<<>>, <<"b">>, <<"a", "b">>}
MCSubmitted == {{"key", "a"}, {"key", "b", "aged"}}
=============================================================================
