------------------------------ MODULE KeyStream ------------------------------
(***************************************************************************)
(* Keys on their way through a file, a mail or a connection:               *)
(* flatten_publickey, write_openpgp_stream and armor_openpgp_stream on one *)
(* side, dearmor_openpgp_stream, read_openpgp_stream and parse_keys on the *)
(* other, with streams that are cut short or followed by something else.   *)
(*                                                                         *)
(* An octet is a number.  A character of armored text is a number too: the *)
(* 64 letters by their value, then '-', '=', newline, return and anything  *)
(* else.  A packet has its format, tag and data.                           *)
(***************************************************************************)
EXTENDS Subpackets, Functions

CONSTANTS
    Cases,          \* [packets, armored, says]: what is sent, and what the signatures
                    \* in it say: <<i, hashed, unhashed>> for the packet i
    Trailer,        \* octets that may follow a binary stream
    MaxCut,         \* bound: longer texts, and what says something, arrive whole
    ArmorWidth,     \* ARMOR_WIDTH
    Now             \* times at which keys are looked at

ASSUME WidthAssumption == ArmorWidth \in Nat /\ ArmorWidth > 0 /\ ArmorWidth % 4 = 0

VARIABLES
    case,           \* what is sent
    via,            \* "text", or "ring" when a keyring has the octets (Keyring)
    text,           \* the octets or characters of it
    whole,          \* all of it arrives
    more,           \* octets after it
    stream,         \* [octets, endless]: what the reader gets
    pos,            \* octets read
    packets,        \* *packets of read_openpgp_stream
    rc,
    parsed,         \* packets parse_keys has done; -1 while reading, -2 before,
                    \* -3 while a keyring is opened
    keys,           \* the keys of parse_keys
    count           \* its result, -1 while it runs

vars == <<case, via, text, whole, more, stream, pos, packets, rc, parsed, keys, count>>

Signature == 2
PublicKey == 6
Uid == 13
Subkey == 14
Uat == 17

OK == 0
InvalidParam == 3   \* ONAK_E_INVALID_PARAM

-----------------------------------------------------------------------------
\* write_openpgp_stream.

\* n as k octets, the highest first.
BigEndian(n, k) == [i \in 1 .. k |-> (n \div (256 ^ (k - i))) % 256]

\* Mutant of LengthOctets: 192 in one octet.
LengthOctetsOne(new, n) ==
    IF new
    THEN CASE n <= 192 -> <<n>>
           [] n \in 193 .. 8382 -> <<192 + (((n - 192) \div 256) % 256), (n - 192) % 256>>
           [] OTHER -> <<255>> \o BigEndian(n, 4)
    ELSE CASE n < 256 -> <<n>>
           [] n \in 256 .. 65535 -> BigEndian(n, 2)
           [] OTHER -> BigEndian(n, 4)

LengthOctets(new, n) ==
    IF new
    THEN CASE n < 192 -> <<n>>
           [] n \in 192 .. 8382 -> <<192 + (((n - 192) \div 256) % 256), (n - 192) % 256>>
           [] OTHER -> <<255>> \o BigEndian(n, 4)
    ELSE CASE n < 256 -> <<n>>
           [] n \in 256 .. 65535 -> BigEndian(n, 2)
           [] OTHER -> BigEndian(n, 4)

\* The low bits of an old format header say how many octets the length has.
LengthType(n) == CASE n < 256 -> 0 [] n \in 256 .. 65535 -> 1 [] OTHER -> 2

Header(p) == LET n == Len(p.data)
             IN  <<IF p.new THEN 192 + p.tag ELSE 128 + 4 * p.tag + LengthType(n)>>
                 \o LengthOctets(p.new, n)

Written(ps) == FlattenSeq([i \in DOMAIN ps |-> Header(ps[i]) \o ps[i].data])

-----------------------------------------------------------------------------
\* armor_openpgp_stream.

Dash == 64
Equals == 65
Newline == 66
Return == 67
Other == 68

At0(s, i) == IF i \in DOMAIN s THEN s[i] ELSE 0

\* Letter i of the encoding: six bits of at most two octets.
Letter(s, i) ==
    LET k == ((i - 1) \div 4) * 3
    IN CASE i % 4 = 1 -> At0(s, k + 1) \div 4
         [] i % 4 = 2 -> ((At0(s, k + 1) % 4) * 16) + (At0(s, k + 2) \div 16)
         [] i % 4 = 3 -> ((At0(s, k + 2) % 16) * 4) + (At0(s, k + 3) \div 64)
         [] OTHER     -> At0(s, k + 3) % 64

\* The letters armor_putchar writes, and what armor_finish adds to the last
\* group.
Letters(s) ==
    LET used == (Len(s) * 4 + 2) \div 3
        all == ((Len(s) + 2) \div 3) * 4
    IN [i \in 1 .. all |-> IF i <= used THEN Letter(s, i) ELSE Equals]

\* Lines of ArmorWidth letters.
Wrapped(l) ==
    FlattenSeq([i \in DOMAIN l |->
        IF i % ArmorWidth = 0 \/ i = Len(l) THEN <<l[i], Newline>> ELSE <<l[i]>>])

Dashes == [i \in 1 .. 5 |-> Dash]

\* "-----BEGIN ...-----", an empty line, the text, a checksum that is never
\* looked at, "-----END ...-----".
Armored(s) == Dashes \o <<1, 4, Other>> \o Dashes \o <<Newline, Newline>> \o Wrapped(Letters(s))
              \o <<Equals, 0, 0, 0, 0, Newline>> \o Dashes \o <<4, 13>> \o Dashes \o <<Newline>>

-----------------------------------------------------------------------------
\* dearmor_openpgp_stream.

\* The state machine that looks for the armor header: <<state, count>> after
\* the character c.
HeaderStep(s, c) ==
    CASE s[1] = 0 -> IF c = Newline THEN <<1, 0>> ELSE s
      [] s[1] = 1 /\ c = Dash -> IF s[2] = 4 THEN <<2, 5>> ELSE <<1, s[2] + 1>>
      [] s[1] = 1 /\ c # Dash -> IF c = Newline THEN s ELSE <<0, s[2]>>
      [] s[1] = 2 -> IF c = 1 THEN <<3, 0>> ELSE <<0, s[2]>>
      [] s[1] = 3 -> IF c = Newline THEN (IF s[2] = 1 THEN <<4, 2>> ELSE <<3, s[2] + 1>>)
                     ELSE IF c = Return THEN s ELSE <<3, 0>>
      [] OTHER -> s

\* The first position where the machine is in state 4, or 0.
HeaderEnd(t) ==
    LET run[i \in 0 .. Len(t)] == IF i = 0 THEN <<1, 0>> ELSE HeaderStep(run[i - 1], t[i])
    IN IF \E i \in DOMAIN t : run[i][1] = 4
       THEN CHOOSE i \in DOMAIN t : run[i][1] = 4 /\ run[i - 1][1] # 4
       ELSE 0

IsEnd(c) == c \in {Dash, Equals}

\* The letters from position i on, up to a '=' or '-'; other characters are
\* skipped (decode64, dearmor_getchar).
Body(t, i) ==
    LET rest == SubSeq(t, i, Len(t))
        ends == {j \in DOMAIN rest : IsEnd(rest[j])}
        stop == IF ends = {} THEN Len(rest) ELSE (CHOOSE j \in ends : \A k \in ends : j <= k) - 1
    IN [letters |-> SelectSeq(SubSeq(rest, 1, stop), LAMBDA c : c < 64), endless |-> ends = {}]

\* Octet k of the letters; a letter that is missing counts as 'A'.
Octet(l, k) ==
    LET g == ((k - 1) \div 3) * 4
    IN CASE k % 3 = 1 -> (At0(l, g + 1) * 4) + (At0(l, g + 2) \div 16)
         [] k % 3 = 2 -> ((At0(l, g + 2) % 16) * 16) + (At0(l, g + 3) \div 4)
         [] OTHER     -> ((At0(l, g + 3) % 4) * 64) + At0(l, g + 4)

NoStream == [octets |-> <<>>, endless |-> FALSE]

\* What the reader gets.  At the end of a text without '=' dearmor_getchar
\* takes its own start value for a letter 'A', and goes on with zeros.
Dearmored(t) ==
    LET h == HeaderEnd(t)
        b == Body(t, h + 1)
        n == Len(b.letters)
    IN IF h = 0 THEN NoStream
       ELSE [octets |-> [k \in 1 .. (IF b.endless THEN (n * 3 + 3) \div 4 ELSE (n * 3) \div 4)
                            |-> Octet(b.letters, k)],
             endless |-> b.endless]

-----------------------------------------------------------------------------
\* read_openpgp_stream.

Has(n) == stream.endless \/ pos + n <= Len(stream.octets)
Got(i) == At0(stream.octets, pos + i)
FromBigEndian(i, k) == FoldFunction(+, 0, [j \in 1 .. k |-> Got(i + j - 1) * (256 ^ (k - j))])

\* How many octets the header at pos has (1: partial or indeterminate lengths,
\* which are not supported), and the length in it.
IsNew == Got(1) % 128 >= 64
HeaderSize == IF IsNew THEN CASE Got(2) < 192 -> 2 [] Got(2) \in 192 .. 223 -> 3
                              [] Got(2) = 255 -> 6 [] OTHER -> 1
              ELSE CASE Got(1) % 4 = 0 -> 2 [] Got(1) % 4 = 1 -> 3
                     [] Got(1) % 4 = 2 -> 5 [] OTHER -> 1
Tag == IF IsNew THEN Got(1) % 64 ELSE (Got(1) % 64) \div 4
DataLength == CASE HeaderSize = 2 -> Got(2)
                [] HeaderSize = 3 /\ IsNew -> ((Got(2) - 192) * 256) + Got(3) + 192
                [] HeaderSize = 3 /\ ~IsNew -> FromBigEndian(2, 2)
                [] HeaderSize = 5 -> FromBigEndian(2, 4)
                [] OTHER -> FromBigEndian(3, 4)

\* The version that packets of some kinds must have; the first octet of an
\* empty packet is whatever the allocated memory holds.
SaneVersion(tag, v) ==
    CASE tag = 18 -> v = 1
      [] tag \in {1, 4} -> v = 3
      [] tag = 3 -> v = 4
      [] tag \in {Signature, 5, PublicKey} -> v >= 2
      [] OTHER -> TRUE

Reading == rc = OK /\ parsed = -1
Keep == UNCHANGED <<case, via, text, whole, more, stream, keys, count>>

\* A whole packet of a version that is supported.
ReadsPacket ==
    /\ Reading /\ Has(1) /\ Got(1) >= 128
    /\ HeaderSize > 1 /\ Has(HeaderSize) /\ Has(HeaderSize + DataLength)
    /\ \E v \in IF DataLength = 0 THEN {0, 4} ELSE {Got(HeaderSize + 1)} : SaneVersion(Tag, v)
    /\ packets' = Append(packets, [new |-> IsNew, tag |-> Tag,
                                   data |-> [i \in 1 .. DataLength |-> Got(HeaderSize + i)]])
    /\ pos' = pos + HeaderSize + DataLength
    /\ UNCHANGED <<rc, parsed>>
    /\ Keep

\* Mutant of DropsPacket: what there is of the data is kept.
KeepsPacket ==
    /\ Reading /\ Has(1) /\ Got(1) >= 128
    /\ \/ HeaderSize = 1
       \/ ~Has(HeaderSize)
       \/ ~Has(HeaderSize + DataLength)
    /\ rc' = 1
    /\ packets' = Append(packets, [new |-> IsNew, tag |-> Tag,
                                   data |-> SubSeq(stream.octets, pos + 3, Len(stream.octets))])
    /\ UNCHANGED <<pos, parsed>>
    /\ Keep

\* A packet that is cut, not supported or of a wrong version is taken off the
\* list again.
DropsPacket ==
    /\ Reading /\ Has(1) /\ Got(1) >= 128
    /\ \/ HeaderSize = 1
       \/ ~Has(HeaderSize)
       \/ ~Has(HeaderSize + DataLength)
       \/ \E v \in IF DataLength = 0 THEN {0, 4} ELSE {Got(HeaderSize + 1)} : ~SaneVersion(Tag, v)
    /\ rc' = 1
    /\ UNCHANGED <<pos, packets, parsed>>
    /\ Keep

\* An octet that starts no packet: nothing was added to the list, and what is
\* taken off is the last packet read.
DropsLast ==
    /\ Reading /\ Has(1) /\ Got(1) < 128
    /\ packets' = IF packets = <<>> THEN packets ELSE Front(packets)
    /\ rc' = 1
    /\ UNCHANGED <<pos, parsed>>
    /\ Keep

StartsParsing ==
    /\ parsed = -1
    /\ rc # OK \/ ~Has(1)
    /\ parsed' = 0
    /\ UNCHANGED <<pos, packets, rc>>
    /\ Keep

-----------------------------------------------------------------------------
\* parse_keys.

NewKey(p) == [key |-> p, sigs |-> <<>>, uids |-> <<>>, subkeys |-> <<>>, revoked |-> FALSE]
Signed(p) == [packet |-> p, sigs |-> <<>>]

\* The last element of a list of signed packets gets another signature.
AddSig(l, p) == [l EXCEPT ![Len(l)].sigs = Append(@, p)]

\* Whether a signature on the key is taken for a revocation; of a packet that
\* is too short, what lies behind it decides.
Revokes(p) ==
    LET at(i) == IF i <= Len(p.data) THEN {p.data[i]} ELSE {0, 4, 32}
    IN \E v \in at(1) : \/ v = 3 /\ 32 \in at(3)
                        \/ v = 4 /\ 32 \in at(2)
MayNotRevoke(p) == Len(p.data) < 3 \/ ~Revokes(p)

\* Mutant of WithSig: a signature goes to the last user ID while there is one.
WithSigUidFirst(k, p) ==
    {IF k.uids # <<>> THEN [k EXCEPT !.uids = AddSig(@, p)]
     ELSE IF k.subkeys # <<>> THEN [k EXCEPT !.subkeys = AddSig(@, p)]
     ELSE [k EXCEPT !.sigs = Append(@, p)]}

\* The keys that k may become with the signature p: on the last subkey, else on
\* the last user ID, else on the key.
WithSig(k, p) ==
    IF k.subkeys # <<>> THEN {[k EXCEPT !.subkeys = AddSig(@, p)]}
    ELSE IF k.uids # <<>> THEN {[k EXCEPT !.uids = AddSig(@, p)]}
    ELSE {[k EXCEPT !.sigs = Append(@, p), !.revoked = @ \/ r] :
             r \in {b \in BOOLEAN : IF b THEN Revokes(p) ELSE MayNotRevoke(p)}}

Packet == packets[parsed + 1]
Parsing == parsed >= 0 /\ count = -1 /\ parsed < Len(packets)
LastKey == keys[Len(keys)]
Went(k) == /\ keys' = k
           /\ parsed' = parsed + 1
           /\ UNCHANGED <<case, via, text, whole, more, stream, pos, packets, rc, count>>

ParsesKey == /\ Parsing /\ Packet.tag = PublicKey
             /\ Went(Append(keys, NewKey(Packet)))

ParsesSig == /\ Parsing /\ Packet.tag = Signature /\ keys # <<>>
             /\ \E k \in WithSig(LastKey, Packet) : Went([keys EXCEPT ![Len(keys)] = k])

ParsesUid == /\ Parsing /\ Packet.tag \in {Uid, Uat} /\ keys # <<>> /\ LastKey.subkeys = <<>>
             /\ Went([keys EXCEPT ![Len(keys)].uids = Append(@, Signed(Packet))])

ParsesSubkey == /\ Parsing /\ Packet.tag = Subkey /\ keys # <<>>
                /\ Went([keys EXCEPT ![Len(keys)].subkeys = Append(@, Signed(Packet))])

\* Trust, comment and unknown packets.
Ignored(p) == p.tag \notin {PublicKey, Signature, Uid, Uat, Subkey}
ParsesOther == Parsing /\ Ignored(Packet) /\ Went(keys)

\* A packet without its key, or a user ID after a subkey: parse_keys returns an
\* error number, the keys so far stay in the list.
Misplaced == \/ keys = <<>> /\ Packet.tag \in {Signature, Uid, Uat, Subkey}
             \/ keys # <<>> /\ Packet.tag \in {Uid, Uat} /\ LastKey.subkeys # <<>>
ParseFails == /\ Parsing /\ Misplaced
              /\ count' = InvalidParam
              /\ UNCHANGED <<case, via, text, whole, more, stream, pos, packets, rc, parsed, keys>>

ParseEnds == /\ parsed = Len(packets) /\ count = -1
             /\ count' = Len(keys)
             /\ UNCHANGED <<case, via, text, whole, more, stream, pos, packets, rc, parsed, keys>>

-----------------------------------------------------------------------------
\* flatten_publickey.

FlattenSigned(l) == FlattenSeq([i \in DOMAIN l |-> <<l[i].packet>> \o l[i].sigs])
FlattenKey(k) == <<k.key>> \o k.sigs \o FlattenSigned(k.uids) \o FlattenSigned(k.subkeys)
Flatten(ks) == FlattenSeq([i \in DOMAIN ks |-> FlattenKey(ks[i])])

-----------------------------------------------------------------------------
Init == /\ case \in Cases
        /\ via = "text"
        /\ text = LET w == Written(case.packets) IN IF case.armored THEN Armored(w) ELSE w
        /\ whole = FALSE
        /\ more = <<>>
        /\ stream = NoStream
        /\ pos = 0
        /\ packets = <<>>
        /\ rc = OK
        /\ parsed = -2
        /\ keys = <<>>
        /\ count = -1

\* The text gets to the reader, cut short or followed by something else.
Arrives ==
    /\ parsed = -2
    /\ parsed' = -1
    /\ \E cut \in IF Len(text) <= MaxCut /\ case.says = {} THEN 0 .. Len(text) ELSE {Len(text)},
          m \in IF case.armored THEN {<<>>} ELSE Trailer \union {<<>>} :
          /\ m # <<>> => cut = Len(text)
          /\ whole' = (cut = Len(text))
          /\ more' = m
          /\ LET t == SubSeq(text, 1, cut) \o m
             IN stream' = IF case.armored THEN Dearmored(t) ELSE [octets |-> t, endless |-> FALSE]
    /\ UNCHANGED <<case, via, text, pos, packets, rc, keys, count>>

Next == \/ Arrives
        \/ ReadsPacket \/ DropsPacket \/ DropsLast \/ StartsParsing
        \/ ParsesKey \/ ParsesSig \/ ParsesUid \/ ParsesSubkey \/ ParsesOther
        \/ ParseFails \/ ParseEnds

Spec == Init /\ [][Next]_vars

-----------------------------------------------------------------------------
Whole == via = "text" /\ whole /\ more = <<>>
ReadDone == parsed >= 0

\* A packet that read_openpgp_stream accepts.
Sane(p) == Len(p.data) > 0 => SaneVersion(p.tag, p.data[1])
AllSane == \A i \in DOMAIN case.packets : Sane(case.packets[i])

\* The packets that have arrived whole.
WholePackets == {n \in 0 .. Len(case.packets) :
                    Len(Written(SubSeq(case.packets, 1, n))) <= Len(stream.octets)}
MaxWhole == CHOOSE n \in WholePackets : \A m \in WholePackets : m <= n

\* read_openpgp_stream and dearmor_openpgp_stream give back the packets that
\* write_openpgp_stream and armor_openpgp_stream wrote, in both formats and at
\* every boundary of the length encodings.  Of a stream that is cut short they
\* give the packets that arrived whole and no other; of armored text the last
\* one may be missing, or one more be there whose end is filled with zeros.
ReadsWhatArrived ==
    via = "text" /\ ReadDone /\ AllSane /\ more = <<>> =>
        IF whole THEN packets = case.packets
        ELSE IF ~stream.endless THEN packets = SubSeq(case.packets, 1, MaxWhole)
        ELSE /\ Len(packets) \in MaxWhole - 1 .. MaxWhole + 1
             /\ \A i \in DOMAIN packets \intersect 1 .. MaxWhole : packets[i] = case.packets[i]

\* parse_keys puts every packet where flatten_publickey takes it from: storing
\* a key that was parsed changes neither the packets nor their order, whatever
\* came, up to the packet at which it gave up.
FlattenIsParse ==
    parsed >= 0 =>
        Flatten(keys) = SelectSeq(SubSeq(packets, 1, parsed), LAMBDA p : ~Ignored(p))

-----------------------------------------------------------------------------
(* What the signatures of a key that arrived say.  A subpacket is written    *)
(* with its type, data, the form of its length (1, 2 or 5 octets), whether   *)
(* it is critical, and by how much its length is too high.                   *)

SubLength(n, form) == CASE form = 1 -> <<n>>
                        [] form = 2 -> <<192 + ((n - 192) \div 256), (n - 192) % 256>>
                        [] OTHER -> <<255>> \o BigEndian(n, 4)
SubWritten(s) == SubLength(1 + Len(s.data) + s.over, s.form)
                 \o <<s.type + (IF s.critical THEN 128 ELSE 0)>> \o s.data
AreaWritten(l) == LET all == FlattenSeq([i \in DOMAIN l |-> SubWritten(l[i])])
                  IN BigEndian(Len(all), 2) \o all
SigWritten(type, hashed, unhashed) ==
    <<4, type, 1, 8>> \o AreaWritten(hashed) \o AreaWritten(unhashed) \o <<0, 0, 0, 1, 1>>

Arrived == Whole /\ count >= 0 /\ packets = case.packets

\* The subpackets of a list in front of one whose length is too high.
Sound(l) == SelectSeq(l, LAMBDA s : s.over = 0)
AllSound(l) == Sound(l) = l
Understood(l) == \A i \in DOMAIN l : l[i].critical => l[i].type \in Known
LastWith(l, types) == LET L == SelectSeq(l, LAMBDA s : s.type \in types) IN L[Len(L)]
SomeWith(l, types) == \E i \in DOMAIN l : l[i].type \in types
\* The first lifetime, 0 when there is none.
LifetimeSaid(l) == LET L == SelectSeq(l, LAMBDA s : s.type = KeyExpiry)
                   IN IF L = <<>> THEN 0 ELSE Number(L[1].data)
IdSaid(s) == IF s.type = Issuer THEN s.data ELSE FingerprintId(Tail(s.data))

\* sig_info finds what was written, whatever the order and the forms of the
\* lengths: the issuer in the hashed subpackets, else in the others, and the
\* time in the hashed ones.  A length that is too high is noticed.
SigInfoTrue ==
    Arrived => \A say \in case.says :
        LET info == SigInfo(packets[say[1]].data)
            hashed == say[2]
            all == IF SomeWith(hashed, {Issuer, IssuerFinger}) THEN hashed ELSE say[3]
        IN IF ~AllSound(hashed) THEN info.status # "ok"
           ELSE Understood(hashed) /\ Understood(say[3]) /\ AllSound(say[3]) =>
              /\ info.status = "ok"
              /\ SigKeyid(packets[say[1]].data) =
                    IF SomeWith(all, {Issuer, IssuerFinger})
                    THEN IdSaid(LastWith(all, {Issuer, IssuerFinger})) ELSE NoId
              /\ info.creation = IF SomeWith(hashed, {Creation})
                                 THEN Number(LastWith(hashed, {Creation}).data) ELSE NoTime

\* The primary user ID and the lifetime are found by the walks of their own
\* (signedpacket_is_primary, find_keyexpiry_in_sig) where parse_subpackets
\* would see them: in front of a length that is too high, critical or not.
WalksAgree ==
    Arrived => \A say \in case.says :
        LET data == packets[say[1]].data
            seen == Sound(say[2])
        IN /\ IsPrimarySig(data) = \E i \in DOMAIN seen :
                                      seen[i].type = PrimaryUid /\ seen[i].data[1] # 0
           /\ FindKeyexpiryInSig(data) = LifetimeSaid(seen)

\* What signatures say is read as it was written, by sig_info and by the walks
\* of signedpacket_is_primary and find_keyexpiry_in_sig alike.
SignaturesRead == SigInfoTrue /\ WalksAgree

\* clean-aged deletes a key exactly when it is older than the limit or when
\* every lifetime that its signatures give it is over, at the boundaries too.
AgedTrue ==
    Arrived /\ case.says # {} => \A now \in Now : \A maxage \in {0, 2} :
        LET k == keys[1]
            created == KeyCreationTime(k.key.data)
            lifetimes == {LifetimeSaid(Sound(say[2])) : say \in case.says} \ {0}
            ends == IF k.key.data[1] = 3 THEN {created + k.key.data[7] * Day}
                    ELSE {created + n : n \in lifetimes}
        IN KeyIsAgedOrExpired(k, now, maxage) =
               (\/ maxage > 0 /\ now - created > maxage
                \/ ends # {} /\ \A e \in ends : e < now)

=============================================================================
