----------------------------- MODULE MCKeyMerge -----------------------------
EXTENDS KeyMerge

CONSTANTS Times,                    \* the signatures there are
          MaxSigs,                  \* bound: signatures per submitted packet
          MaxList                   \* bound: uids of a submission

Cert(i, t) == [ver |-> 4, type |-> "cert", issuer |-> i, time |-> t,
               primary |-> FALSE, hash |-> "ok", valid |-> TRUE]
Rev(i, t) == [Cert(i, t) EXCEPT !.type = "rev"]
Uid(name) == [tag |-> "uid", name |-> name, length |-> 1, anchor |-> FALSE]
Subkey == [Uid("s") EXCEPT !.tag = "subkey"]
Signed(p, sigs) == [packet |-> p, sigs |-> sigs]
KeyWith(sigs, uids, subkeys) ==
    [ver |-> 4, sigs |-> sigs, uids |-> uids, subkeys |-> subkeys]
Lists(S, n) == UNION {[1 .. m -> S] : m \in 0 .. n}

\* Merging.  One uid with any list of signatures; the uid repeated; two uids; a
\* subkey; signatures on the key; a key of an older version.  One signature has
\* no issuer that sig_info can find.
MCSig == {Cert(Owner, t) : t \in Times} \cup {Rev(Owner, t) : t \in {1, 3}}
         \cup {Cert(NoIssuer, 1)}

MergePool ==
    LET OneCert == {<<Cert(Owner, t)>> : t \in Times}
    IN {KeyWith(<<>>, <<Signed(Uid("u"), l)>>, <<>>) : l \in Lists(MCSig, MaxSigs)}
       \cup {KeyWith(<<>>, <<Signed(Uid("u"), <<a>>), Signed(Uid("u"), <<b>>)>>, <<>>) :
                a, b \in MCSig}
       \cup {KeyWith(<<>>, <<Signed(Uid("v"), l)>>, <<Signed(Subkey, l)>>) : l \in OneCert}
       \cup {KeyWith(<<>>, <<>>, <<Signed(Subkey, l)>>) : l \in OneCert}
       \cup {KeyWith(<<Rev(Owner, 1)>>, <<Signed(Uid("u"), <<>>)>>, <<>>)}
       \cup {[KeyWith(<<>>, <<Signed(Uid("u"), <<>>)>>, <<>>) EXCEPT !.ver = 3]}

\* Caps.  A submission with uids of every kind in every order.
Kinds == {"plain", "primary", "anchor", "both", "revoked", "uat", "large"}
OfKind(kind, i) ==
    LET primary == kind \in {"primary", "both"}
        anchor == kind \in {"anchor", "both"}
        length == IF kind = "large" THEN UidLimit + 1 ELSE 1
        cert == [Cert(Owner, 1) EXCEPT !.primary = primary]
    IN Signed([tag |-> IF kind = "uat" THEN "uat" ELSE "uid", name |-> i,
               length |-> length, anchor |-> anchor],
              IF kind = "revoked" THEN <<cert, Rev(Owner, 1)>> ELSE <<cert>>)

CapPools(max) ==
    {{KeyWith(<<>>, [i \in DOMAIN l |-> OfKind(l[i], i)], <<>>)} :
        l \in {m \in Lists(Kinds, max) : Len(m) > MaxUids}}

\* Verification.  Signatures of the owner and of another signer that verify or not.
CheckedSig == {Cert(Owner, 1), [Cert(Owner, 2) EXCEPT !.valid = FALSE, !.hash = "differs"],
               [Rev(Owner, 1) EXCEPT !.valid = FALSE], Rev(Owner, 2)}
              \cup {Cert(i, 1) : i \in Signer}
              \cup {[Cert(i, 2) EXCEPT !.hash = "unsupported"] : i \in Signer}

VerifyPool ==
    {KeyWith(<<>>, <<Signed(Uid("u"), l)>>, <<>>) : l \in Lists(CheckedSig, MaxSigs)}
    \cup {KeyWith(<<>>, <<Signed(Uid("u"), <<Cert(Owner, 1)>>), Signed(Uid("v"), <<a>>)>>,
                  <<Signed(Subkey, <<a>>)>>) : a \in CheckedSig}

MCSites ==
    LET Site(policies, max, pool) ==
            [policies |-> policies, maxsigs |-> [uid |-> max, uat |-> max], pool |-> pool]
        caps == {"large", "capuids", "capuats"}
    IN {Site({}, 0, MergePool)}
       \cup {Site(caps, 0, pool) : pool \in CapPools(MaxList)}
       \cup {Site(caps, 1, pool) : pool \in CapPools(MaxList - 1)}
       \cup {Site({"sighash"}, 0, VerifyPool), Site({"verify"}, 0, VerifyPool),
             Site({"verify", "needother"}, 2, VerifyPool)}
=============================================================================
