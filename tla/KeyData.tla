------------------------------ MODULE KeyData ------------------------------
(***************************************************************************)
(* What the key stores need to know of an OpenPGP key.  A key's contents   *)
(* are an opaque value of Key; the operators below give the few facts the  *)
(* database code derives from them.  Merging and cleaning are parameters   *)
(* here: the stores only depend on their keeping the fingerprint.          *)
(***************************************************************************)
EXTENDS Naturals, FiniteSets

CONSTANTS
    Key,            \* contents of public keys (struct openpgp_publickey)
    Fp,             \* fingerprints, of primary keys and of subkeys
    Word,           \* words that occur in user ids
    Id,             \* 64 bit and 32 bit key ids, kept apart
    Hash,           \* SKS hashes
    NoKey, NoFp,    \* "nothing there"
    FpOf(_),        \* get_fingerprint: the fingerprint of the primary key
    SubkeyFps(_),   \* keysubkeys: the fingerprints of the subkeys
    Words(_),       \* makewordlistfromkey: the distinct words of the uids
    SksHash(_),     \* get_skshash: digest of the sorted packets
    Ids(_),         \* the 64 bit id of a fingerprint and its low 32 bits
    Merge(_, _),    \* merge_keys(old, new): the merged key
    Changes(_, _),  \* merge_keys(old, new): something is left in new
    Clean(_)        \* cleankeys on one key; NoKey when it removes the key

ASSUME NothingAssumption == NoKey \notin Key /\ NoFp \notin Fp

ASSUME KeyAssumption ==
    \A k \in Key : /\ FpOf(k) \in Fp
                   /\ SubkeyFps(k) \subseteq Fp
                   /\ IsFiniteSet(SubkeyFps(k))
                   /\ Words(k) \subseteq Word
                   /\ SksHash(k) \in Hash

\* The digest is taken over every packet: two keys with one hash are one key.
ASSUME HashAssumption ==
    \A k, l \in Key : SksHash(k) = SksHash(l) => k = l

ASSUME IdAssumption == \A f \in Fp : Ids(f) \subseteq Id

ASSUME MergeAssumption ==
    \A k, l \in Key : /\ Changes(k, l) \in BOOLEAN
                      /\ FpOf(k) = FpOf(l) => /\ Merge(k, l) \in Key
                                              /\ FpOf(Merge(k, l)) = FpOf(k)

ASSUME CleanAssumption ==
    \A k \in Key : Clean(k) # NoKey => /\ Clean(k) \in Key
                                       /\ FpOf(Clean(k)) = FpOf(k)

\* The fingerprints a key answers to.
FpsOf(k) == {FpOf(k)} \cup SubkeyFps(k)
=============================================================================
