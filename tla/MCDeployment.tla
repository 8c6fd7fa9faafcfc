---------------------------- MODULE MCDeployment ----------------------------
EXTENDS Deployment

CONSTANTS a, b, c, k1, k2, i, j

Value(v) == [value |-> v, file |-> Unset]
File(v, f) == [value |-> v, file |-> f]

\* Of one prefix each: for testnet, mainnet and none.
Three(t, m, l) == [p \in Prefix |-> IF p = "testnet" THEN t ELSE IF p = "mainnet" THEN m ELSE l]

Plain ==
    [quoteKey |-> Value(k1), issuer |-> Value(i), pubkey |-> Unset, numbers |-> TRUE,
     network |-> Unset,
     secret |-> Three(Value(a), Value(Unset), Value(Unset)),
     channels |-> Three(Value(Unset), Value(Unset), Value(Unset)),
     tokens |-> Three({}, {}, {})]

\* Which prefixes have a sponsor, what RESERVE_NETWORK says, and which tokens
\* each prefix names.
Networks ==
    {[Plain EXCEPT !.secret = Three(t, m, l), !.tokens = Three(tt, mt, lt), !.network = n] :
        t \in {Value(Blank), Value(a)}, m \in {Value(Unset), Value(a)},
        l \in {Value(Unset), Value(b)}, n \in {Unset, "mainnet", "futurenet"},
        tt \in {{}, {Wildcard}}, mt \in {{}, {"fake", "XLM"}, {Wildcard}}, lt \in {{}, {Wildcard}}}

\* Who signs integrator keys and whose signature is believed.
Issuers ==
    {[Plain EXCEPT !.issuer = s, !.pubkey = p, !.secret = Three(Value(a), m, Value(Unset))] :
        s \in {Value(Unset), Value(j), File(j, i), Value(Bad)}, p \in {Unset, i, Bad},
        m \in {Value(Unset), Value(a)}}

\* A sponsor, channels and a quote key that are replaced.
Rotations ==
    {[Plain EXCEPT !.secret = Three(s, Value(Unset), Value(Unset)),
                   !.channels = Three(ch, Value(Unset), Value(Unset)), !.quoteKey = k, !.numbers = n] :
        s \in {Value(a), File(a, b), File(a, Blank)}, n \in BOOLEAN,
        ch \in {Value(Unset), Value({c}), Value({a, c}), File({c}, {b}), Value({Bad})},
        k \in {Value(k1), File(k1, k2), Value(Bad)}}

Environments == Networks \cup Issuers \cup Rotations
=============================================================================
