------------------------------ MODULE KeyStore ------------------------------
(***************************************************************************)
(* What a key database promises (the dbctx operations of keydb/keydb.h):   *)
(* a map from primary fingerprints to key contents.  Submitted contents    *)
(* are added or merged, never substituted; a key only goes away when it is *)
(* deleted, and only cleaning may reduce it.                               *)
(***************************************************************************)
EXTENDS KeyData

VARIABLE keys

Init == keys = [f \in Fp |-> NoKey]

Add(k) == /\ keys[FpOf(k)] = NoKey
          /\ keys' = [keys EXCEPT ![FpOf(k)] = k]

Improve(k) == /\ keys[FpOf(k)] # NoKey
              /\ keys' = [keys EXCEPT ![FpOf(k)] = Merge(@, k)]

Remove(f) == keys' = [keys EXCEPT ![f] = NoKey]

Tidy(f) == /\ keys[f] # NoKey
           /\ keys' = [keys EXCEPT ![f] = Clean(@)]

Next == \/ \E k \in Key : Add(k) \/ Improve(k)
        \/ \E f \in Fp : Remove(f) \/ Tidy(f)

Spec == Init /\ [][Next]_keys
=============================================================================
