----------------------------- MODULE MCKeyStream -----------------------------
EXTENDS Keyring

Filled(n) == [i \in 1 .. n |-> 7]
P(new, tag, data) == [new |-> new, tag |-> tag, data |-> data]

MCKey == P(FALSE, PublicKey, <<4, 0, 0, 0, 77>>)
MCUid == P(TRUE, Uid, <<200>>)
MCSig == P(TRUE, Signature, <<4, 32, 9>>)
MCSub == P(FALSE, Subkey, <<4>>)
MCTrust == P(FALSE, 12, <<>>)
MCOldSig == P(FALSE, Signature, <<1, 0>>)

\* Every order of four packets.
Orders == SeqOf({MCKey, MCUid, MCSig, MCSub}, 4)

\* A key with everything, one with a packet that is ignored, one with a
\* signature of a version that is not supported.
Lists == {<<MCKey, MCSig, MCUid, MCSig, MCSub, MCSig>>, <<MCKey, MCTrust, MCUid>>,
          <<MCKey, MCUid, MCOldSig>>, <<MCKey, MCUid, MCKey, MCUid>>}

\* Lengths at the boundaries of their encodings.
Lengths == {191, 192, 193, 255, 256, 447, 448, 8382, 8383, 8384, 65535, 65536}

\* Signatures.  Subpackets of every kind that is looked at, in the forms of the
\* length, and some that are not looked at or not known.
Sub(type, data) == [type |-> type, data |-> data, form |-> 1, critical |-> FALSE, over |-> 0]
Id(n) == [i \in 1 .. 8 |-> n]
Time(n) == <<0, 0, 0, n>>
Filler(form, n) == [Sub(20, Filled(n - 1)) EXCEPT !.form = form]
Fillers == {Filler(1, 191), Filler(2, 192), Filler(2, 255), Filler(2, 448), Filler(5, 3),
            Filler(5, 192), Filler(1, 1)}
Looked == {Sub(Creation, Time(5)), [Sub(Creation, Time(6)) EXCEPT !.form = 5],
           Sub(Issuer, Id(1)), Sub(IssuerFinger, <<4>> \o Filled(12) \o Id(2)),
           Sub(IssuerFinger, <<5>> \o Id(3) \o Filled(24)),
           Sub(KeyExpiry, Time(3)), [Sub(KeyExpiry, Time(1)) EXCEPT !.critical = TRUE],
           Sub(PrimaryUid, <<0>>), [Sub(PrimaryUid, <<1>>) EXCEPT !.critical = TRUE],
           Sub(40, <<7>>)}
Odd == {[Sub(40, <<7>>) EXCEPT !.critical = TRUE], [Sub(20, <<7>>) EXCEPT !.over = 1],
        [Filler(5, 3) EXCEPT !.over = 1]}

HashedLists == {<<a>> : a \in Looked \union Fillers \union Odd}
               \union {<<a, b>> : a \in Looked \union Fillers, b \in Looked \union Odd}
UnhashedLists == {<<>>, <<Sub(Issuer, Id(4))>>, <<Filler(2, 192), Sub(Issuer, Id(4))>>,
                  <<Sub(Issuer, Id(4)), Filler(1, 1)>>}

DatedKey == P(FALSE, PublicKey, <<4, 0, 0, 0, 10>>)
OldKey == P(FALSE, PublicKey, <<3, 0, 0, 0, 10, 0, 1, 1>>)
SignedBy(h, u) == P(FALSE, Signature, SigWritten(19, h, u))

SigCases ==
    {[packets |-> <<DatedKey, MCUid, SignedBy(h, u)>>, armored |-> FALSE, says |-> {<<3, h, u>>}] :
        h \in HashedLists, u \in UnhashedLists}
    \union {[packets |-> <<k, MCUid, SignedBy(<<a>>, <<>>), MCUid, SignedBy(<<b>>, <<>>)>>,
             armored |-> FALSE, says |-> {<<3, <<a>>, <<>>>>, <<5, <<b>>, <<>>>>}] :
        k \in {DatedKey, OldKey}, a, b \in {s \in Looked : s.type \in {KeyExpiry, Creation}}}

\* Keyrings: two keys of which one may be there twice, and in front of a key
\* packets of lengths at the boundaries.
OtherKey == P(TRUE, PublicKey, <<4, 0, 0, 0, 11, 1>>)
RingCases == {<<a, MCUid, b, MCSig, c, MCUid, MCSub>> : a, b, c \in {DatedKey, OtherKey}}
             \union {<<DatedKey, P(new, Uid, Filled(n)), OtherKey, MCUid>> :
                        new \in BOOLEAN, n \in Lengths}
             \union {<<DatedKey, MCTrust, MCUid, OtherKey>>}

MCCases == {[packets |-> ps, armored |-> a, says |-> {}] : ps \in Lists, a \in BOOLEAN}
           \union {[packets |-> ps, armored |-> FALSE, says |-> {}] : ps \in Orders}
           \union {[packets |-> <<P(new, Uid, Filled(n)), MCKey>>, armored |-> FALSE,
                    says |-> {}] : new \in BOOLEAN, n \in Lengths}
           \union {[packets |-> ps, armored |-> FALSE, says |-> {}] : ps \in RingCases}
           \union SigCases
MCTrailer == {<<10>>}
MCNow == (10 .. 15) \union {10 + Day, 11 + Day}
=============================================================================
