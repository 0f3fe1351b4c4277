------------------------------- MODULE Clean -------------------------------
(***************************************************************************)
(* cleankey.c: what a submitted key goes through before it is merged with  *)
(* the stored one, for a set of policies and the keys that are stored.     *)
(*                                                                         *)
(* Beside what Merge.tla reads from it, a signature says whether it marks  *)
(* its uid as primary, what its two octets of hash are compared with the   *)
(* computed one, and whether it verifies under its issuer's key.  A packet *)
(* has a tag, a name, a length and, a uid, whether its text is an anchor   *)
(* ("UID:urn:").                                                           *)
(***************************************************************************)
EXTENDS Merge, FiniteSets

CONSTANTS
    Owner,              \* the id of the key that is cleaned
    UidLimit, UatLimit, \* UID_LIMIT, UAT_LIMIT
    MaxUids, MaxUats    \* MAX_UIDS_PER_KEY, MAX_UATS_PER_KEY

\* Of each kind a primary one and an anchor are kept beside the newest.
ASSUME CapAssumption == MaxUids \in Nat /\ MaxUids >= 2 /\ MaxUats \in Nat /\ MaxUats >= 2

\* clean_large_packets
CleanLarge(list) ==
    SelectSeq(list, LAMBDA e :
        e.packet.length <= IF e.packet.tag = "uid" THEN UidLimit ELSE UatLimit)

\* dedupuids, dedupsubkeys: later copies of a packet are merged into the first.
RECURSIVE DedupePackets(_)
DedupePackets(list) ==
    IF list = <<>> THEN <<>>
    ELSE LET e == Head(list)
             copies == SelectSeq(Tail(list), LAMBDA d : d.packet = e.packet)
             others == SelectSeq(Tail(list), LAMBDA d : d.packet # e.packet)
             sigs == FoldLeft(LAMBDA acc, d : MergePacketSigs(acc, d.sigs).merged,
                              e.sigs, copies)
         IN <<[e EXCEPT !.sigs = sigs]>> \o DedupePackets(others)

\* signedpacket_is_revoked, signedpacket_is_primary, signedpacket_is_urn_anchor
IsRevoked(e) == \E i \in DOMAIN e.sigs : e.sigs[i].ver \in {4, 5} /\ IsRevocation(e.sigs[i])
IsPrimary(e) == \E i \in DOMAIN e.sigs :
    e.sigs[i].ver \in {4, 5} /\ ~IsRevocation(e.sigs[i]) /\ e.sigs[i].primary
IsAnchor(e) == e.packet.tag = "uid" /\ e.packet.anchor

\* The packets of a tag that are revoked, or that are not.
OfClass(list, tag, rev) ==
    {i \in DOMAIN list : list[i].packet.tag = tag /\ IsRevoked(list[i]) = rev}

\* Mutant of Excess: one packet goes each time.
ExcessOne(n, max) == IF n > max THEN 1 ELSE 0

Excess(n, max) == IF n > max THEN n - max ELSE 0

\* cap_packet_type, second pass, from packet i on: a and r are drop_active and
\* drop_revoked; kept has "primary" and "anchor" once such a packet was kept.
RECURSIVE DropFrom(_, _, _, _, _, _)
DropFrom(list, tag, i, a, r, kept) ==
    IF i > Len(list) \/ a + r = 0 THEN {}
    ELSE LET e == list[i] IN
         CASE e.packet.tag # tag -> DropFrom(list, tag, i + 1, a, r, kept)
           [] e.packet.tag = tag /\ IsRevoked(e) ->
                IF r = 0 THEN DropFrom(list, tag, i + 1, a, r, kept)
                ELSE {i} \cup DropFrom(list, tag, i + 1, a, r - 1, kept)
           [] OTHER ->
                IF a = 0 THEN DropFrom(list, tag, i + 1, a, r, kept)
                ELSE IF "primary" \notin kept /\ IsPrimary(e)
                     THEN DropFrom(list, tag, i + 1, a, r, kept \cup {"primary"})
                ELSE IF "anchor" \notin kept /\ IsAnchor(e)
                     THEN DropFrom(list, tag, i + 1, a, r, kept \cup {"anchor"})
                ELSE {i} \cup DropFrom(list, tag, i + 1, a - 1, r, kept)

\* Mutant of CapPackets: one count for the packets that are revoked and those
\* that are not.
CapPacketsTogether(list, tag, max) ==
    LET n == Cardinality(OfClass(list, tag, TRUE) \cup OfClass(list, tag, FALSE))
    IN Without(list, DropFrom(list, tag, 1, Excess(n, max), Excess(n, max), {}))

\* cap_packet_type: cap_uids_per_key, cap_uats_per_key
CapPackets(list, tag, max) ==
    Without(list, DropFrom(list, tag, 1,
        Excess(Cardinality(OfClass(list, tag, FALSE)), max),
        Excess(Cardinality(OfClass(list, tag, TRUE)), max), {}))

\* cap_sigs_per_packet: the first signatures stay, 0 is no limit.
CapSigs(list, tag, max) ==
    [i \in DOMAIN list |->
        IF list[i].packet.tag = tag /\ max > 0 /\ Len(list[i].sigs) > max
        THEN [list[i] EXCEPT !.sigs = SubSeq(@, 1, max)]
        ELSE list[i]]

\* clean_sighashes on one signature: with "verify" its issuer's key must be
\* stored, or be the key itself, and verify it.
Passes(a, policies, known) ==
    IF "verify" \in policies
    THEN a.hash # "unsupported" /\ a.valid /\ a.issuer \in known \cup {Owner}
    ELSE a.hash # "differs"

CleanSigHashes(sigs, policies, known) ==
    SelectSeq(sigs, LAMBDA a : Passes(a, policies, known))

BySomeone(sigs, who) == \E i \in DOMAIN sigs : sigs[i].issuer \in who

\* Mutant of CleanListSigHashes: any signature will do for a uid.
CleanListAnySig(list, policies, known, needother) ==
    LET cleaned == [i \in DOMAIN list |->
            [list[i] EXCEPT !.sigs = CleanSigHashes(@, policies, known)]]
    IN IF "verify" \in policies THEN SelectSeq(cleaned, LAMBDA e : e.sigs # <<>>) ELSE cleaned

\* clean_list_sighashes: with "verify" a packet needs a signature of the owner,
\* and with needother one of the packets, kept or not, one of another key.
CleanListSigHashes(list, policies, known, needother) ==
    LET cleaned == [i \in DOMAIN list |->
            [list[i] EXCEPT !.sigs = CleanSigHashes(@, policies, known)]]
        owned == SelectSeq(cleaned, LAMBDA e : BySomeone(e.sigs, {Owner}))
        other == \E i \in DOMAIN cleaned : BySomeone(cleaned[i].sigs, known \ {Owner})
    IN IF "verify" \notin policies THEN cleaned
       ELSE IF needother /\ ~other THEN <<>> ELSE owned

\* cleankeys on one key; one of an older version, and one that ends up without
\* uids, is removed from the list.
CleanKey(k, policies, maxsigs, known, isnew) ==
    LET Deduped(list) == [i \in DOMAIN list |->
            [list[i] EXCEPT !.sigs = DedupeSigs(@)]]
        small == IF "large" \in policies THEN CleanLarge(k.uids) ELSE k.uids
        uids == DedupePackets(small)
        capped == IF "capuids" \in policies THEN CapPackets(uids, "uid", MaxUids) ELSE uids
        few == IF "capuats" \in policies THEN CapPackets(capped, "uat", MaxUats) ELSE capped
        some == CapSigs(CapSigs(Deduped(few), "uid", maxsigs.uid), "uat", maxsigs.uat)
        sigs == DedupeSigs(k.sigs)
        subkeys == Deduped(DedupePackets(k.subkeys))
        needother == "needother" \in policies /\ isnew
    IN IF k.ver < 4 THEN [sigs |-> <<>>, uids |-> <<>>, subkeys |-> <<>>]
       ELSE IF policies \cap {"sighash", "verify"} = {}
       THEN [sigs |-> sigs, uids |-> some, subkeys |-> subkeys]
       ELSE [sigs    |-> CleanSigHashes(sigs, policies, known),
             uids    |-> CleanListSigHashes(some, policies, known, needother),
             subkeys |-> CleanListSigHashes(subkeys, policies, known, FALSE)]
=============================================================================
