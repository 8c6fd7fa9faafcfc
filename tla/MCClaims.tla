------------------------------ MODULE MCClaims ------------------------------
EXTENDS Claims

\* A tree of one node, and one that holds other trees as its parts.
One(label) == [s \in {Root} |-> label]
Join(kind, parts) ==
    [s \in {Root} \cup UNION {{<<i>> \o r : r \in DOMAIN parts[i]} : i \in DOMAIN parts} |->
        IF s = Root THEN [kind |-> kind] ELSE parts[Head(s)][Tail(s)]]

Always == One([kind |-> "unconditional", flag |-> TRUE])
Never == One([kind |-> "unconditional", flag |-> FALSE])
Before(t) == One([kind |-> "abs_before", at |-> t])
Within(t) == One([kind |-> "rel_before", rel |-> t])
Not(p) == Join("not", <<p>>)
And(parts) == Join("and", parts)
Or(parts) == Join("or", parts)

Leaves == {Always, Never, Before(1), Within(1), Within(2)}

Pairs == {<<a, b>> : a \in {Always, Before(1), Not(Within(1))}, b \in {Before(2), Within(2), Never}}

\* Not(Not(... Before(1))), n times.
Nested[n \in 0 .. MaxDepth] == IF n = 0 THEN Before(1) ELSE Not(Nested[n - 1])

Trees ==
    Leaves \cup {Not(p) : p \in Leaves}
    \cup {And(q) : q \in Pairs} \cup {Or(q) : q \in Pairs} \cup {Not(And(q)) : q \in Pairs}
    \cup {Nested[n] : n \in 2 .. MaxDepth}
    \cup {And(<<Always>>), Or(<<Always>>), And(<<Always, Always, Always>>)}

\* One balance under every tree, one that is always open.
MCPredicates == {[id \in Ids |-> IF id = "b1" THEN p ELSE Always] : p \in Trees}
=============================================================================
