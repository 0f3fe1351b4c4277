---------------------------- MODULE MCWebOfTrust ----------------------------
(***************************************************************************)
(* Four keys that sign themselves, or have no signature at all, and the    *)
(* ways they may sign each other; few of them sign key 1.  Key 3 is        *)
(* revoked.                                                                *)
(***************************************************************************)
EXTENDS WebOfTrust

MCNode == 1 .. 4
MCSigners == {g \in [MCNode -> SUBSET MCNode] :
                /\ g[1] \in {{}, {1}, {1, 4}}
                /\ \A n \in {2, 3} : n \in g[n]
                /\ g[4] = {} \/ 4 \in g[4]}
MCPairs == {<<1, 2>>, <<1, 1>>}
MCRevokedSets == {{3}}
=============================================================================
