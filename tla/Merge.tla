------------------------------- MODULE Merge -------------------------------
(***************************************************************************)
(* Merging of keys as lists of packets: merge.c.                           *)
(*                                                                         *)
(* A signature is what the code reads from it: version, type, issuer and   *)
(* time.  A signed packet is a user id or a subkey with its signatures; a  *)
(* key has signatures of its own, uids and subkeys.                        *)
(***************************************************************************)
EXTENDS Integers, Sequences, SequencesExt

NoIssuer == 0               \* sig_info found no issuer

\* s without the elements at the positions in I.
Without(s, I) ==
    LET kept == SelectSeq([i \in DOMAIN s |-> i], LAMBDA i : i \notin I)
    IN [j \in DOMAIN kept |-> s[kept[j]]]

-----------------------------------------------------------------------------
(* Signatures *)

\* sig_is_revocation
IsRevocation(a) == a.type = "rev"

\* signatures_match_signer
SameSigner(a, b) == /\ a.ver = b.ver
                    /\ a.type = b.type
                    /\ a.issuer = b.issuer
                    /\ a.issuer # NoIssuer

\* compare_signatures: the type only counts in version 4.
SameSignature(a, b) == /\ a.ver = b.ver
                       /\ a.ver = 4 => a.type = b.type
                       /\ a.issuer = b.issuer
                       /\ a.time = b.time

\* Mutant of FindSignature: the time is not compared.
FindSignatureAnyTime(sigs, a) == \E i \in DOMAIN sigs : SameSigner(sigs[i], a)

\* find_signature
FindSignature(sigs, a) == \E i \in DOMAIN sigs : SameSignature(sigs[i], a)

\* dedupe_sigs from the outer element o on.  The inner loop drops what matches
\* the outer signature, until it meets a newer certification, for which the
\* outer one is dropped.
RECURSIVE DedupeFrom(_, _)
DedupeFrom(sigs, o) ==
    IF o > Len(sigs) THEN sigs
    ELSE LET matches == {i \in o + 1 .. Len(sigs) : SameSigner(sigs[o], sigs[i])}
             newer   == {i \in matches : /\ ~IsRevocation(sigs[o])
                                         /\ sigs[i].time > sigs[o].time}
             first   == CHOOSE i \in newer : \A j \in newer : i <= j
         IN IF newer = {} THEN DedupeFrom(Without(sigs, matches), o + 1)
            ELSE DedupeFrom(Without(sigs, {i \in matches : i < first} \cup {o}), o)

\* Mutant of DedupeSigs: of two as new the later one stays.
DedupeKeepsLast(sigs) == Reverse(DedupeFrom(Reverse(sigs), 1))

DedupeSigs(sigs) == DedupeFrom(sigs, 1)

\* Mutant of MergePacketSigs: the merged list is not deduplicated.
MergeWithoutDedupe(old, new) ==
    LET diff == SelectSeq(new, LAMBDA a : ~FindSignature(old, a))
    IN [merged |-> old \o diff, diff |-> diff]

\* merge_packet_sigs: new loses what old already has, the rest is appended to
\* old, and old is deduplicated.
MergePacketSigs(old, new) ==
    LET diff == SelectSeq(new, LAMBDA a : ~FindSignature(old, a))
    IN [merged |-> DedupeSigs(old \o diff), diff |-> diff]

-----------------------------------------------------------------------------
(* Signed packets and keys *)

Packets(list) == {list[i].packet : i \in DOMAIN list}

\* find_signed_packet
FindSignedPacket(list, p) ==
    list[CHOOSE i \in DOMAIN list :
            /\ list[i].packet = p
            /\ \A j \in 1 .. i - 1 : list[j].packet # p]

\* Mutant of MergeSignedPackets: any packet without signatures is removed from
\* the difference.
MergeDropsUnsigned(old, new) ==
    LET Both(e) == e.packet \in Packets(old) \cap Packets(new)
        Merged(e) == MergePacketSigs(FindSignedPacket(old, e.packet).sigs,
                                     FindSignedPacket(new, e.packet).sigs)
        added == SelectSeq(new, LAMBDA e : e.packet \notin Packets(old))
        diffs == [i \in DOMAIN new |->
            IF Both(new[i]) THEN [new[i] EXCEPT !.sigs = Merged(new[i]).diff]
            ELSE new[i]]
    IN [merged |-> [i \in DOMAIN old |->
                       IF Both(old[i])
                       THEN [old[i] EXCEPT !.sigs = Merged(old[i]).merged]
                       ELSE old[i]] \o added,
        diff   |-> SelectSeq(diffs, LAMBDA e : e.sigs # <<>>)]

\* merge_signed_packets, for lists in which no packet occurs twice (dedupuids
\* and dedupsubkeys see to that).  A packet of new without signatures left is
\* removed; packets that old lacks are copied to its end as they are.
MergeSignedPackets(old, new) ==
    LET Both(e) == e.packet \in Packets(old) \cap Packets(new)
        Merged(e) == MergePacketSigs(FindSignedPacket(old, e.packet).sigs,
                                     FindSignedPacket(new, e.packet).sigs)
        added == SelectSeq(new, LAMBDA e : e.packet \notin Packets(old))
        diffs == [i \in DOMAIN new |->
            IF Both(new[i]) THEN [new[i] EXCEPT !.sigs = Merged(new[i]).diff]
            ELSE new[i]]
    IN [merged |-> [i \in DOMAIN old |->
                       IF Both(old[i])
                       THEN [old[i] EXCEPT !.sigs = Merged(old[i]).merged]
                       ELSE old[i]] \o added,
        diff   |-> SelectSeq(diffs, LAMBDA e :
                       e.sigs # <<>> \/ e.packet \notin Packets(old))]

\* merge_keys for two keys with one key id.  The signatures on the key itself
\* are compared byte by byte and only appended.
MergeKeys(a, b) ==
    LET sigs == SelectSeq(b.sigs, LAMBDA s : ~Contains(a.sigs, s))
        uids == MergeSignedPackets(a.uids, b.uids)
        subkeys == MergeSignedPackets(a.subkeys, b.subkeys)
    IN [merged |-> [sigs |-> a.sigs \o sigs, uids |-> uids.merged,
                    subkeys |-> subkeys.merged],
        diff   |-> [sigs |-> sigs, uids |-> uids.diff,
                    subkeys |-> subkeys.diff]]

NothingLeft(diff) == diff.sigs = <<>> /\ diff.uids = <<>> /\ diff.subkeys = <<>>
=============================================================================
