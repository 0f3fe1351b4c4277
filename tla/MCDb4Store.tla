----------------------------- MODULE MCDb4Store -----------------------------
EXTENDS Db4Store, MCKeys

CONSTANT Certified   \* parts with signatures whose check looks up the signer;
                     \* the other parts are self-certified

MCCleanFetches == {k \in MCKey : k.parts \subseteq Certified}
=============================================================================
