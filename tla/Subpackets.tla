----------------------------- MODULE Subpackets -----------------------------
(***************************************************************************)
(* What the code reads in a signature packet.  The subpackets are walked   *)
(* three times over in the source: parse_subpackets for the issuer and the *)
(* time, find_keyexpiry_in_sig for the lifetime of the key and             *)
(* signedpacket_is_primary for the primary user ID.                        *)
(*                                                                         *)
(* An octet is a number, a key id a sequence of eight octets.  Offsets     *)
(* count from 0, as in the source.  The signatures have at least the six   *)
(* octets that two of the three ask for.                                   *)
(***************************************************************************)
EXTENDS Integers, Sequences, SequencesExt

Creation == 2
KeyExpiry == 9
Issuer == 16
PrimaryUid == 25
IssuerFinger == 33

\* The types parse_subpackets knows.
Known == (2 .. 12) \union (16 .. 33)

Slice(d, o, n) == SubSeq(d, o + 1, o + n)
From(d, o) == SubSeq(d, o + 1, Len(d))
LastOf(d, n) == SubSeq(d, Len(d) - n + 1, Len(d))
Number(s) == FoldLeft(LAMBDA a, b : a * 256 + b, 0, s)

NoId == [i \in 1 .. 8 |-> 0]
WrongId == [i \in 1 .. 8 |-> 255]
NoTime == 0

-----------------------------------------------------------------------------
\* The length at offset o, and where the subpacket itself begins.
Field(d, o) ==
    LET n == d[o + 1]
    IN CASE n < 192 -> [at |-> o + 1, n |-> n]
         [] n \in 192 .. 254 -> [at |-> o + 2, n |-> ((n - 192) * 256) + d[o + 2] + 192]
         [] OTHER -> [at |-> o + 5, n |-> Number(Slice(d, o + 1, 4))]

Bad == [type |-> -1, data |-> <<>>]

\* The subpackets of an area of the given length, up to one that does not fit
\* in.  What a length of five octets needs behind its first one differs.
Subs(d, length, room) ==
    LET walk[o \in 0 .. length] ==
            IF o + 2 >= length THEN <<>>
            ELSE IF d[o + 1] = 255 /\ o + 1 + room > length THEN <<Bad>>
            ELSE LET f == Field(d, o)
                 IN IF f.n = 0 \/ f.n > length - f.at THEN <<Bad>>
                    ELSE <<[type |-> d[f.at + 1], data |-> Slice(d, f.at + 1, f.n - 1)]>>
                         \o walk[f.at + f.n]
    IN walk[2]

AreaLength(d) == Number(Slice(d, 0, 2)) + 2

\* fingerprint2keyid.
FingerprintId(fp) == CASE Len(fp) = 20 -> LastOf(fp, 8)
                       [] Len(fp) = 32 -> Slice(fp, 0, 8)
                       [] OTHER -> WrongId

-----------------------------------------------------------------------------
(* decodekey.c *)

\* One round of parse_subpackets.
ParseSubpacket(r, s) ==
    LET type == s.type % 128 IN
    CASE r.status # "ok" -> r
      [] r.status = "ok" /\ s = Bad -> [r EXCEPT !.status = "invalid"]
      [] r.status = "ok" /\ s # Bad /\ type = Creation ->
            IF Len(s.data) < 4 THEN [r EXCEPT !.status = "invalid"]
            ELSE [r EXCEPT !.creation = Number(LastOf(s.data, 4))]
      [] r.status = "ok" /\ s # Bad /\ type = Issuer ->
            IF Len(s.data) < 8 THEN [r EXCEPT !.status = "invalid"]
            ELSE [r EXCEPT !.keyid = LastOf(s.data, 8)]
      [] r.status = "ok" /\ s # Bad /\ type = IssuerFinger ->
            IF Len(s.data) \in 1 .. 33 THEN [r EXCEPT !.keyid = FingerprintId(Tail(s.data))]
            ELSE r
      [] OTHER -> IF type \notin Known /\ s.type >= 128
                  THEN [r EXCEPT !.status = "unsupported"] ELSE r

NoInfo == [status |-> "ok", parselen |-> 0, keyid |-> NoId, creation |-> NoTime]

ParseSubpackets(d) ==
    IF Len(d) < 4 \/ Len(d) < AreaLength(d) THEN [NoInfo EXCEPT !.status = "invalid"]
    ELSE FoldLeft(ParseSubpacket, [NoInfo EXCEPT !.parselen = AreaLength(d)],
                  Subs(d, AreaLength(d), 5))

\* Mutant of SigInfo: the unhashed subpackets have the last word.
SigInfoUnhashed(data) ==
    LET hashed == ParseSubpackets(From(data, 4))
        unhashed == ParseSubpackets(From(data, 4 + hashed.parselen))
    IN IF data[1] \in {4, 5} /\ hashed.status = "ok" /\ unhashed.keyid # NoId
       THEN [unhashed EXCEPT !.creation = hashed.creation]
       ELSE IF data[1] \in {4, 5} THEN hashed ELSE NoInfo

\* sig_info, both values asked for.
SigInfo(data) ==
    LET hashed == ParseSubpackets(From(data, 4))
        unhashed == ParseSubpackets(From(data, 4 + hashed.parselen))
    IN CASE data[1] \in {2, 3} -> [NoInfo EXCEPT !.keyid = Slice(data, 7, 8),
                                                 !.creation = Number(Slice(data, 3, 4))]
         [] data[1] \in {4, 5} ->
               IF hashed.status = "ok" /\ hashed.keyid = NoId
               THEN [unhashed EXCEPT !.creation = hashed.creation] ELSE hashed
         [] OTHER -> NoInfo

\* sig_keyid: whatever sig_info returns.
SigKeyid(data) == SigInfo(data).keyid

-----------------------------------------------------------------------------
(* aged.c and cleankey.c *)

\* The subpackets in the hashed area of a v4 or v5 signature, as these see them.
Hashed(data) ==
    LET d == From(data, 4)
    IN IF data[1] \notin {4, 5} \/ AreaLength(d) > Len(d) THEN <<>>
       ELSE Subs(d, AreaLength(d), 4)

\* Mutant of FindKeyexpiryInSig: the critical bit is not masked.
FindKeyexpiryUnmasked(data) ==
    LET found == SelectSeq(Hashed(data), LAMBDA s : s.type = KeyExpiry /\ Len(s.data) >= 4)
    IN IF found = <<>> THEN 0 ELSE Number(Slice(found[1].data, 0, 4))

\* find_keyexpiry_in_sig
FindKeyexpiryInSig(data) ==
    LET found == SelectSeq(Hashed(data),
                           LAMBDA s : s # Bad /\ s.type % 128 = KeyExpiry /\ Len(s.data) >= 4)
    IN IF found = <<>> THEN 0 ELSE Number(Slice(found[1].data, 0, 4))

\* signedpacket_is_primary, for one signature.
IsPrimarySig(data) ==
    /\ data[2] \in 16 .. 19
    /\ \E s \in ToSet(Hashed(data)) :
          s # Bad /\ s.type % 128 = PrimaryUid /\ Len(s.data) >= 1 /\ s.data[1] # 0

\* key_creation_time of the public key packet.
KeyCreationTime(data) == IF Len(data) < 5 THEN 0 ELSE Number(Slice(data, 1, 4))

Day == 86400

\* Mutant of KeyExpirationTime: the last signature decides.
KeyExpirationLast(k) ==
    LET data == k.key.data
        creation == KeyCreationTime(data)
        sigs == FlattenSeq([i \in DOMAIN k.uids |-> k.uids[i].sigs])
        offsets == SelectSeq([i \in DOMAIN sigs |-> FindKeyexpiryInSig(sigs[i].data)],
                             LAMBDA n : n # 0)
    IN IF offsets = <<>> THEN 0 ELSE creation + Last(offsets)

\* key_expiration_time: 0 when the key does not expire.
KeyExpirationTime(k) ==
    LET data == k.key.data
        creation == KeyCreationTime(data)
        days == Number(Slice(data, 5, 2))
        sigs == FlattenSeq([i \in DOMAIN k.uids |-> k.uids[i].sigs])
        Later(latest, sig) ==
            LET offset == FindKeyexpiryInSig(sig.data)
            IN IF offset # 0 /\ creation + offset > latest THEN creation + offset ELSE latest
    IN CASE creation = 0 -> 0
         [] creation # 0 /\ data[1] \in {2, 3} ->
               IF Len(data) < 7 \/ days = 0 THEN 0 ELSE creation + days * Day
         [] OTHER -> FoldLeft(Later, 0, sigs)

\* key_is_aged_or_expired; maxage 0 is no limit.
KeyIsAgedOrExpired(k, now, maxage) ==
    LET creation == KeyCreationTime(k.key.data)
        expiration == KeyExpirationTime(k)
    IN /\ creation # 0
       /\ \/ maxage > 0 /\ creation + maxage < now
          \/ expiration # 0 /\ expiration < now
=============================================================================
