------------------------------- MODULE MCKeys -------------------------------
(***************************************************************************)
(* A small world of keys: primary keys p1, p2 and p3.  The contents of a   *)
(* key is a set of parts: user id "u", user id "j", which cleaning         *)
(* removes, and a subkey "s".                                              *)
(***************************************************************************)
EXTENDS KeyData

CONSTANTS Primaries,            \* which of p1, p2 and p3 there are
          Subkeys1, Subkeys2,   \* the fingerprints behind the two "s" parts
          Dropped               \* fingerprints of keys cleaning removes

MCFp == {"p1", "p2", "p3", "s1", "s2"}
MCWord == {"ann", "bob"}
MCId == {"L1", "L2", "L3", "L4", "X", "Y"}
MCKey == {k \in [fp : Primaries, parts : SUBSET {"u", "j", "s"}] :
            /\ k.parts \cap {"u", "j"} # {}
            /\ k.fp = "p3" => k.parts = {"u"}}

MCFpOf(k) == k.fp
MCSubkeyFps(k) ==
    IF "s" \notin k.parts THEN {}
    ELSE IF k.fp = "p1" THEN Subkeys1 ELSE Subkeys2

\* Both user ids share a word.
MCWords(k) == IF "j" \in k.parts THEN {"ann", "bob"} ELSE {"ann"}

\* The SKS hash is collision free, so the contents stand for their digest.
MCHash == MCKey
MCSksHash(k) == k

\* 64 bit ids differ; the short ids of p1, p2 and s1 collide.  Bound: p3
\* has no rows in the id tables; p1, p2 and the subkeys show what happens there.
MCIds(f) == CASE f = "p1" -> {"L1", "X"}
              [] f = "p2" -> {"L2", "X"}
              [] f = "p3" -> {}
              [] f = "s1" -> {"L3", "X"}
              [] f = "s2" -> {"L4", "Y"}

MCMerge(k, l) == [fp |-> k.fp, parts |-> k.parts \cup l.parts]
MCChanges(k, l) == ~(l.parts \subseteq k.parts)
MCClean(k) == IF k.fp \in Dropped THEN NoKey
              ELSE IF "u" \in k.parts
                   THEN [k EXCEPT !.parts = @ \ {"j"}] ELSE k
=============================================================================
