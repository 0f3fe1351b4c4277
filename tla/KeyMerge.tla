------------------------------ MODULE KeyMerge ------------------------------
(***************************************************************************)
(* One key of a server under a sequence of submissions ("onak add": parse, *)
(* cleankeys, update_keys), with the signatures in it.                     *)
(***************************************************************************)
EXTENDS Clean, TLC

CONSTANTS Sites,            \* configured servers with the keys they may be sent:
                            \* policies, maxsigs and pool, all of one key id
          Signer,           \* other keys whose signatures can be checked
          Nothing           \* no key stored

VARIABLES site,             \* the server
          stored,           \* the key in the database
          known,            \* the signers whose keys are in the database
          had               \* history: the signers whose keys were

vars == <<site, stored, known, had>>

\* cleankeys, with what the database holds at that time.
Cleans(k) == CleanKey(k, site.policies, site.maxsigs, known, stored = Nothing)

\* generic_update_keys on a cleaned key: the key that is stored afterwards and
\* what is left of the submission for the peers.  A merge that leaves nothing
\* is not stored.
UpdateKeys(old, new) ==
    IF old = Nothing THEN [key |-> new, diff |-> new]
    ELSE LET m == MergeKeys(old, new)
         IN [key  |-> IF NothingLeft(m.diff) THEN old ELSE m.merged,
             diff |-> m.diff]

Init == /\ site \in Sites
        /\ stored = Nothing
        /\ known = {}
        /\ had = {}

\* cleankeys removes a key without uids from the list.
AddDropped(k) == Cleans(k).uids = <<>> /\ UNCHANGED vars

Add(k) == LET new == Cleans(k)
          IN /\ new.uids # <<>>
             /\ stored' = UpdateKeys(stored, new).key
             /\ UNCHANGED <<site, known, had>>

\* "onak reindex": the key is deleted and what cleaning leaves of it is stored.
\* Cleaning already finds the key gone.
Reindexed == CleanKey([ver |-> 4] @@ stored, site.policies, site.maxsigs, known, TRUE)

Reindex == /\ Reindexed.uids # <<>>
           /\ stored' = Reindexed
           /\ UNCHANGED <<site, known, had>>

\* When nothing is left store_key is given no key and the program dies.  With
\* transactions nothing is committed then; over keyd and in files the key is
\* gone.  A lookup for a signer's key may also end the program (Db4Store).
ReindexDies == /\ \/ Reindexed.uids = <<>> /\ stored' \in {stored, Nothing}
                  \/ "verify" \in site.policies /\ stored' = stored
               /\ UNCHANGED <<site, known, had>>

\* A signer's key is added or deleted; it matters where keys are verified.
SignerComes(i) == /\ "verify" \in site.policies
                  /\ known' = known \cup {i}
                  /\ had' = had \cup {i}
                  /\ UNCHANGED <<site, stored>>

SignerGoes(i) == /\ i \in known
                 /\ known' = known \ {i}
                 /\ UNCHANGED <<site, stored, had>>

Next == \/ \E k \in site.pool : AddDropped(k) \/ Add(k)
        \/ stored # Nothing /\ (Reindex \/ ReindexDies)
        \/ \E i \in Signer : SignerComes(i) \/ SignerGoes(i)

Spec == Init /\ [][Next]_vars

-----------------------------------------------------------------------------
(* Properties.  Those that speak of an update hold of every submission the   *)
(* stored key may meet next.                                                 *)

Cleaned == {new \in {Cleans(k) : k \in site.pool} : new.uids # <<>>}

\* The signatures under a packet, of a key that may not be there.
SigsOf(k, p) ==
    IF k = Nothing THEN <<>>
    ELSE IF p \in Packets(k.uids \o k.subkeys)
         THEN FindSignedPacket(k.uids \o k.subkeys, p).sigs
    ELSE <<>>

PacketsOf(k) == IF k = Nothing THEN {} ELSE Packets(k.uids \o k.subkeys)

\* Something in sigs says at least what a says: a itself, or from the same
\* signer a revocation for a revocation, or a certification no older.
Represented(a, sigs) ==
    \E i \in DOMAIN sigs :
        \/ sigs[i] = a
        \/ SameSigner(a, sigs[i]) /\ (IsRevocation(a) \/ sigs[i].time >= a.time)
        \/ a.issuer = NoIssuer /\ SameSignature(a, sigs[i])

\* No revocation and no latest certification is lost, neither of the stored key
\* nor of the submission.
NothingSuperseded ==
    \A new \in Cleaned :
        LET after == UpdateKeys(stored, new).key IN
        \A p \in PacketsOf(stored) \cup PacketsOf(new) :
            LET before == SigsOf(stored, p) \o SigsOf(new, p)
            IN \A i \in DOMAIN before : Represented(before[i], SigsOf(after, p))

\* A stored uid or subkey has one signature per version, type and issuer.
OnePerSigner ==
    \A p \in PacketsOf(stored) :
        LET sigs == SigsOf(stored, p)
        IN \A i, j \in DOMAIN sigs : SameSigner(sigs[i], sigs[j]) => i = j

\* Merging and deduplicating (merge_packet_sigs, dedupe_sigs), on a first import
\* and on every later one, leave of each signer the latest signature and no
\* other.
LatestOfEach == NothingSuperseded /\ OnePerSigner

\* Of the signatures of one signer the first revocation, or the first of the
\* newest certifications, stays where it is.
Reference(sigs) ==
    Without(sigs, {i \in DOMAIN sigs : \E j \in DOMAIN sigs :
        /\ j # i
        /\ SameSigner(sigs[i], sigs[j])
        /\ \/ IsRevocation(sigs[i]) /\ j < i
           \/ ~IsRevocation(sigs[i]) /\ sigs[j].time > sigs[i].time
           \/ sigs[j].time = sigs[i].time /\ j < i})

\* The in-place, order-dependent scan of dedupe_sigs computes the reference, for
\* what is stored with a submission behind it and with itself once more.
DedupeIsReference ==
    \A k \in site.pool : \A i \in DOMAIN k.uids :
        LET old == SigsOf(stored, k.uids[i].packet)
            long == old \o k.uids[i].sigs \o Reverse(old)
        IN DedupeSigs(long) = Reference(long)

\* merge.c says the difference is what is "necessary to convert olda to newa":
\* a peer that has the old key and merges the difference gets the new key.
DiffSuffices ==
    stored # Nothing =>
        \A new \in Cleaned :
            LET u == UpdateKeys(stored, new)
            IN MergeKeys(stored, u.diff).merged = u.key

Newest(list, S, n) ==
    {i \in S : Cardinality({j \in S : j > i}) < n}

First(S) == IF S = {} THEN {} ELSE {CHOOSE i \in S : \A j \in S : i <= j}

\* What the cap should keep of the packets that are not revoked.
ToKeep(list, tag, max) ==
    LET active == OfClass(list, tag, FALSE)
        primary == First({i \in active : IsPrimary(list[i])})
        anchor == First({i \in active \ primary : IsAnchor(list[i])})
        n == Cardinality(active)
        kept == primary \cup anchor
        rest == Newest(list, active \ kept, max - Cardinality(kept))
    IN IF n <= max THEN active ELSE kept \cup rest

\* cap_packet_type keeps what its comments promise, whatever the order: of the
\* uids that are not revoked the newest, a primary one and an anchor, of those
\* that are revoked the newest, so that these never push out the others.
CapKeepsNewest ==
    \A k \in site.pool : \A tag \in {"uid", "uat"} :
        LET max == IF tag = "uid" THEN MaxUids ELSE MaxUats
            list == DedupePackets(k.uids)
            keep == ToKeep(list, tag, max) \cup
                    Newest(list, OfClass(list, tag, TRUE), max)
        IN Packets(CapPackets(list, tag, max)) =
               {list[i].packet : i \in {j \in DOMAIN list :
                   j \in keep \/ list[j].packet.tag # tag}}

\* A lookup cleans what it serves once more: a key that was cleaned when it was
\* added is served as it was stored, if no revocation was lost on the way (one
\* the signature cap cut off, or that does not verify) and the database knows
\* the signers it knew.
CleanIdempotent ==
    \A k \in site.pool :
        LET once == Cleans(k)
            again == CleanKey([ver |-> k.ver] @@ once, site.policies, site.maxsigs, known, FALSE)
            Rev(l) == {e.packet : e \in {l[i] : i \in {j \in DOMAIN l : IsRevoked(l[j])}}}
        IN Rev(once.uids) = Rev(k.uids) \cap Packets(once.uids) => again = once

\* With verification every signature in the database was checked against a key
\* that was there, and every uid and subkey is signed by the owner, whatever was
\* merged and deduplicated since.
StoredVerified ==
    "verify" \in site.policies => \A p \in PacketsOf(stored) :
        LET sigs == SigsOf(stored, p)
        IN /\ \A i \in DOMAIN sigs : sigs[i].valid /\ sigs[i].issuer \in had \cup {Owner}
           /\ BySomeone(sigs, {Owner})
=============================================================================
