--------------------------- MODULE MCStackedStore ---------------------------
EXTENDS StackedStore, MCKeys

MCUpstream == {k \in MCKey : k.parts = {"u", "s"}}
=============================================================================
