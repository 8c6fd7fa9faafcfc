---------------------------- MODULE AccessProofs ----------------------------
(***************************************************************************)
(* Proofs about Keys, Limits and Claims: who is calling, how often they    *)
(* may, and whether what they claim can be claimed.  They share nothing;   *)
(* each is proved of its own specification.                                *)
(*                                                                         *)
(* Keys, for any accounts, any length of a year and any validity of a      *)
(* challenge: the expiry of a key depends on the year it is issued in and  *)
(* on nothing else, so two keys good at one time are one.                  *)
(*                                                                         *)
(* Limits, for any rates, hosts, addresses and keys: the time at which a   *)
(* budget is full again is bounded from both sides by the requests of the  *)
(* last minute (Accounted), whatever address they name and however often   *)
(* idle budgets are dropped.                                               *)
(*                                                                         *)
(* Claims, for predicates of any shape and finite depth, any balances and  *)
(* requests: predicates are evaluated and amounts added up by recursion,   *)
(* so it is first shown that the recursive functions exist (RunningSum,    *)
(* Valuation), by induction over a set of numbers (SetInduction).          *)
(***************************************************************************)
EXTENDS Keys, Limits, Claims, SequenceTheorems, FiniteSetTheorems, WellFoundedInduction, TLAPS

-----------------------------------------------------------------------------
(* Keys *)

\* Rounding up to the next multiple: later than t, by a year at most.
LEMMA RoundsUp ==
  ASSUME NEW t \in Nat
  PROVE  /\ (t \div Year + 1) * Year \in Nat
         /\ (t \div Year + 1) * Year > t
         /\ (t \div Year + 1) * Year <= t + Year
<1>1. Year \in Nat \ {0}
  BY KeysAssumption
<1>2. t \div Year \in Nat /\ t = Year * (t \div Year) + (t % Year) /\ t % Year \in 0 .. Year - 1
  BY <1>1
<1>3. (t \div Year + 1) * Year = Year * (t \div Year) + Year
  BY <1>1, <1>2
<1>4. Year * (t \div Year) \in Nat
  BY <1>1, <1>2
<1> QED BY <1>1, <1>2, <1>3, <1>4

\* Two times before the ends of each other's years are in the same year.
LEMMA SameYear ==
  ASSUME NEW t \in Nat, NEW u \in Nat, NEW n \in Nat, t <= n, u <= n,
         n < (t \div Year + 1) * Year, n < (u \div Year + 1) * Year
  PROVE  t \div Year = u \div Year
<1>1. Year \in Nat \ {0}
  BY KeysAssumption
<1> DEFINE p == t \div Year
           q == u \div Year
<1>2. p \in Nat /\ q \in Nat /\ Year * p <= t /\ Year * q <= u
  BY <1>1
<1>3. n < (p + 1) * Year /\ n < (q + 1) * Year
  OBVIOUS
<1> HIDE DEF p, q
<1>4. ASSUME NEW a \in Nat, NEW b \in Nat, a < b, Year * b <= n, n < (a + 1) * Year
      PROVE  FALSE
  <2>1. (a + 1) * Year <= Year * b
    BY <1>1, <1>4
  <2>2. (a + 1) * Year \in Nat /\ Year * b \in Nat
    BY <1>1
  <2> QED BY <1>4, <2>1, <2>2
<1>5. Year * p \in Nat /\ Year * q \in Nat
  BY <1>1, <1>2
<1>6. Year * p <= n /\ Year * q <= n
  BY <1>2, <1>5
<1>7. ~(p < q) /\ ~(q < p)
  BY <1>2, <1>3, <1>4, <1>6
<1> QED BY <1>2, <1>7 DEF p, q

LEMMA InitKeys == Init => IInv
<1> SUFFICES ASSUME Init PROVE IInv
  OBVIOUS
<1>1. InRange
  BY KeysAssumption DEF Init, InRange, IssuedKey, Networks, Challenge, Signature
<1>2. ShortLived /\ KeysWereIssued /\ IssuedKeysAreRight
  BY DEF Init, ShortLived, KeysWereIssued, IssuedKeysAreRight
<1> QED BY <1>1, <1>2 DEF IInv

\* A challenge is asked for.
LEMMA AskKeeps == ASSUME IInv, NEW a \in Accounts, Ask(a) PROVE IInv'
<1> USE DEF IInv, Ask
<1>1. ChallengeFor(a) \in Challenge /\ ChallengeFor(a).expires_at = now + ValidFor
  BY KeysAssumption DEF ChallengeFor, Challenge, InRange
<1>2. InRange'
  BY <1>1 DEF InRange
<1>3. ShortLived'
  BY <1>1, KeysAssumption DEF ShortLived, InRange
<1>4. KeysWereIssued' /\ IssuedKeysAreRight'
  BY DEF KeysWereIssued, IssuedKeysAreRight, Earned
<1> QED BY <1>2, <1>3, <1>4

\* A challenge comes back signed.
LEMMA SignKeeps ==
  ASSUME IInv, NEW a \in Accounts, NEW n \in Networks, Sign(a, n) PROVE IInv'
<1> USE DEF IInv
<1>1. PICK c \in challenges \cup {[account |-> b, expires_at |-> now + Year, ours |-> FALSE] : b \in Accounts} :
          signed' = signed \cup {[challenge |-> c, by |-> a, network |-> n]}
  BY DEF Sign
<1>2. c \in Challenge /\ (c.ours => c \in challenges)
  <2>1. now + Year \in Nat
    BY KeysAssumption DEF InRange
  <2>2. CASE c \in challenges
    BY <2>2 DEF InRange
  <2>3. CASE c \notin challenges
    <3>1. PICK b \in Accounts : c = [account |-> b, expires_at |-> now + Year, ours |-> FALSE]
      BY <2>3
    <3> QED BY <2>1, <3>1 DEF Challenge
  <2> QED BY <2>2, <2>3
<1>3. InRange'
  BY <1>1, <1>2 DEF InRange, Signature, Sign
<1>4. ShortLived'
  BY <1>1, <1>2 DEF ShortLived, Sign
<1>5. KeysWereIssued' /\ IssuedKeysAreRight'
  BY DEF KeysWereIssued, IssuedKeysAreRight, Earned, Sign
<1> QED BY <1>3, <1>4, <1>5

\* A key is issued.
LEMMA IssueKeeps == ASSUME IInv, NEW s \in signed, IssueKey(s) PROVE IInv'
<1> USE DEF IInv
<1>0. PICK k : k = KeyFor(s.challenge.account)
  OBVIOUS
<1>1. s \in Signature /\ s.challenge \in Challenge /\ now \in Nat
  BY KeysAssumption DEF InRange, Signature
<1>2. k = [id |-> s.challenge.account, network |-> "ours", expires_at |-> (now \div Year + 1) * Year]
  BY <1>0 DEF KeyFor, Expiry
<1>3. k \in IssuedKey
  BY <1>1, <1>2, RoundsUp DEF IssuedKey, Networks, Challenge
<1>4. /\ keys' = keys \cup {k}
      /\ issuedAt' = [x \in DOMAIN issuedAt \cup {k} |->
                        IF x = k THEN [at |-> now, on |-> s] ELSE issuedAt[x]]
      /\ now' = now /\ signed' = signed /\ challenges' = challenges
  BY <1>0 DEF IssueKey
<1>5. InRange'
  BY <1>3, <1>4 DEF InRange
<1>6. ShortLived'
  BY <1>4 DEF ShortLived
<1>7. KeysWereIssued'
  BY <1>4 DEF KeysWereIssued
<1>8. Earned(k)' /\ issuedAt'[k].at = now
  <2>1. issuedAt'[k] = [at |-> now, on |-> s]
    BY <1>4
  <2>2. s.challenge.ours /\ now < s.challenge.expires_at /\ s.by = s.challenge.account /\ s.network = "ours"
    BY DEF IssueKey, Proves
  <2>3. s.challenge.expires_at <= now + ValidFor
    BY <2>2 DEF ShortLived
  <2>4. s.challenge.expires_at \in Nat /\ ValidFor \in Nat
    BY <1>1, KeysAssumption DEF Challenge
  <2>5. now \in s.challenge.expires_at - ValidFor .. s.challenge.expires_at - 1
    BY <2>2, <2>3, <2>4, <1>1
  <2> QED BY <2>1, <2>2, <2>5, <1>2 DEF Earned
<1>9. IssuedKeysAreRight'
  <2>1. SUFFICES ASSUME NEW l \in DOMAIN issuedAt'
                 PROVE  /\ l \in keys' /\ Earned(l)' /\ issuedAt'[l].at \in 0 .. now'
                        /\ l.expires_at = (issuedAt'[l].at \div Year + 1) * Year
    BY DEF IssuedKeysAreRight
  <2>2. CASE l = k
    <3>1. k.expires_at = (now \div Year + 1) * Year /\ issuedAt'[k].at = now
      BY <1>2, <1>8
    <3>2. now \in 0 .. now' /\ k \in keys'
      BY <1>1, <1>4
    <3> HIDE DEF IInv
    <3> QED BY <2>2, <3>1, <3>2, <1>8
  <2>3. CASE l # k
    <3>1. l \in DOMAIN issuedAt /\ issuedAt'[l] = issuedAt[l]
      BY <2>3, <1>4
    <3> QED BY <3>1, <1>4 DEF IssuedKeysAreRight, Earned
  <2> QED BY <2>2, <2>3
<1> QED BY <1>5, <1>6, <1>7, <1>9

LEMMA NextKeepsKeys == IInv /\ [Next]_vars => IInv'
<1> SUFFICES ASSUME IInv, [Next]_vars PROVE IInv'
  OBVIOUS
<1>1. ASSUME NEW a \in Accounts, Ask(a) PROVE IInv'
  BY <1>1, AskKeeps
<1>2. ASSUME NEW a \in Accounts, NEW n \in Networks, Sign(a, n) PROVE IInv'
  BY <1>2, SignKeeps
<1>3. ASSUME NEW s \in signed, IssueKey(s) PROVE IInv'
  BY <1>3, IssueKeeps
<1>4. CASE Pass
  <2> USE DEF IInv, Pass
  <2>1. InRange'
    BY <1>4, KeysAssumption DEF InRange
  <2>2. ShortLived'
    <3>1. ASSUME NEW c \in challenges \cup {s.challenge : s \in signed}, c.ours
          PROVE  c.expires_at <= now + 1 + ValidFor
      <4>1. c \in Challenge
        BY DEF InRange, Signature
      <4>2. c.expires_at <= now + ValidFor
        BY <3>1 DEF ShortLived
      <4> QED BY <4>1, <4>2, KeysAssumption DEF Challenge, InRange
    <3> QED BY <1>4, <3>1 DEF ShortLived
  <2>3. KeysWereIssued'
    BY <1>4 DEF KeysWereIssued
  <2>4. IssuedKeysAreRight'
    BY <1>4, KeysAssumption DEF IssuedKeysAreRight, Earned, InRange
  <2> QED BY <2>1, <2>2, <2>3, <2>4
<1>5. CASE UNCHANGED vars
  BY <1>5 DEF vars, IInv, InRange, ShortLived, KeysWereIssued, IssuedKeysAreRight, Earned
<1> QED BY <1>1, <1>2, <1>3, <1>4, <1>5 DEF Next

\* The inductive invariant holds of challenge() and issue_key(), whatever wallets
\* sign and whenever they come back.
THEOREM KeysFollow == Spec => []IInv
<1>1. Init => IInv
  BY InitKeys
<1>2. IInv /\ [Next]_vars => IInv'
  BY NextKeepsKeys
<1> QED BY <1>1, <1>2, PTL DEF Spec

\* Type correctness.
THEOREM KeysTyped == Spec => []TypeOK
<1>1. IInv => TypeOK
  BY DEF IInv, InRange, IssuedKeysAreRight, TypeOK, IssuedKey
<1> QED BY <1>1, KeysFollow, PTL

\* An account never holds two keys that are good at the same time.
THEOREM KeyIsUnique == Spec => []OneKeyAtATime
<1>1. IInv => OneKeyAtATime
  <2> SUFFICES ASSUME IInv, NEW k \in keys, NEW l \in keys, Usable(k), Usable(l), k.id = l.id
               PROVE  k = l
    BY DEF OneKeyAtATime
  <2> USE DEF IInv
  <2>1. k \in IssuedKey /\ l \in IssuedKey /\ k.network = "ours" /\ l.network = "ours"
    BY DEF InRange, Usable
  <2> DEFINE t == issuedAt[k].at
             u == issuedAt[l].at
  <2>2. /\ t \in 0 .. now /\ k.expires_at = (t \div Year + 1) * Year
        /\ u \in 0 .. now /\ l.expires_at = (u \div Year + 1) * Year
    BY <2>1 DEF KeysWereIssued, IssuedKeysAreRight
  <2>3. now < k.expires_at /\ now < l.expires_at /\ now \in Nat
    BY KeysAssumption DEF Usable, InRange
  <2> HIDE DEF t, u
  <2>4. t \div Year = u \div Year
    BY <2>2, <2>3, SameYear
  <2>5. k.expires_at = l.expires_at
    BY <2>2, <2>4
  <2> QED BY <2>1, <2>5 DEF IssuedKey
<1> QED BY <1>1, KeysFollow, PTL

\* A usable key names an account that signed a challenge of ours while it was good.
THEOREM KeyIsEarned == Spec => []KeysAreEarned
<1>1. IInv => KeysAreEarned
  BY DEF IInv, KeysWereIssued, IssuedKeysAreRight, KeysAreEarned, Usable
<1> QED BY <1>1, KeysFollow, PTL

\* A key is good when it is issued, and for a year at most.
THEOREM KeyIsFresh == Spec => []FreshKeyWorks
<1>1. IInv => FreshKeyWorks
  <2> SUFFICES ASSUME IInv, NEW k \in DOMAIN issuedAt
               PROVE  k.expires_at > issuedAt[k].at /\ k.expires_at <= issuedAt[k].at + Year
    BY DEF FreshKeyWorks
  <2>1. issuedAt[k].at \in Nat /\ k.expires_at = (issuedAt[k].at \div Year + 1) * Year
    BY KeysAssumption DEF IInv, IssuedKeysAreRight, InRange
  <2> QED BY <2>1, RoundsUp
<1> QED BY <1>1, KeysFollow, PTL

-----------------------------------------------------------------------------
(* Limits: budgets *)

\* A budget against the times at which cells were taken from it within the last
\* minute: it is full no sooner than the cells taken since any of them allow
\* (FillsNoSooner), and no later than what they took (FullByNow), which a time
\* that leaves the minute does not change (FullAfter): a budget is full a minute
\* after whatever was taken.
InMinute(times, t) == \A i \in DOMAIN times : times[i] \in t - Minute + 1 .. t
InOrder(times) == \A i, j \in DOMAIN times : i <= j => times[i] <= times[j]
FillsNoSooner(full, times, n, t) ==
    \A i \in DOMAIN times : Later(full, t) >= times[i] + (Len(times) - i + 1) * Cell(n)
FullByNow(full, times, n, t) == full <= t + Len(times) * Cell(n)
FullAfter(full, times, n) ==
    \A i \in DOMAIN times : full <= times[i] + Minute + (Len(times) - i) * Cell(n)

Accounted(full, times, n, t) ==
    /\ full \in 0 .. t + Minute
    /\ times \in Seq(Int) /\ InMinute(times, t) /\ InOrder(times)
    /\ FillsNoSooner(full, times, n, t)
    /\ FullByNow(full, times, n, t)
    /\ FullAfter(full, times, n)

\* A minute is n cells.
LEMMA CellsMakeAMinute ==
  ASSUME NEW n \in Quotas
  PROVE  /\ n \in Nat \ {0} /\ Cell(n) \in Nat \ {0} /\ n * Cell(n) = Minute
         /\ (n - 1) * Cell(n) = Minute - Cell(n) /\ Cell(n) <= Minute
<1>1. n \in Nat \ {0} /\ Minute \in Nat \ {0} /\ Minute % n = 0
  BY LimitsAssumption
<1>2. Minute \div n \in Nat /\ Minute = n * (Minute \div n) + (Minute % n)
  BY <1>1
<1> DEFINE c == Minute \div n
<1>3. c \in Nat /\ n * c = Minute
  BY <1>1, <1>2
<1> HIDE DEF c
<1>4. c # 0
  BY <1>1, <1>3
<1>5. (n - 1) * c = n * c - c
  BY <1>1, <1>3
<1>6. (n - 1) * c >= 0
  BY <1>1, <1>3
<1> QED BY <1>1, <1>3, <1>4, <1>5, <1>6 DEF c, Cell

LEMMA OneCellMore ==
  ASSUME NEW c \in Int, NEW a \in Int
  PROVE  (a + 1) * c = a * c + c /\ a * c \in Int
OBVIOUS

\* Products grow with the count.
LEMMA MoreCells ==
  ASSUME NEW c \in Nat, NEW a \in Int, NEW b \in Int, a <= b
  PROVE  a * c <= b * c
<1>1. (b - a) * c \in Nat
  OBVIOUS
<1>2. (b - a) * c = b * c - a * c
  OBVIOUS
<1> QED BY <1>1, <1>2

\* A cell taken from a budget that is not spent.
LEMMA TakenIsAccounted ==
  ASSUME NEW n \in Quotas, NEW full \in Int, NEW times, clock \in Nat,
         Accounted(full, times, n, clock), ~Spent(full, n)
  PROVE  Accounted(Take(full, n), Append(times, clock), n, clock)
<1> DEFINE L == Len(times)
           c == Cell(n)
           more == Append(times, clock)
           new == Take(full, n)
<1>1. c \in Nat \ {0} /\ Minute \in Nat \ {0} /\ full - clock <= Minute - c /\ c <= Minute
  BY CellsMakeAMinute, LimitsAssumption DEF Spent
<1>2. /\ L \in Nat /\ DOMAIN times = 1 .. L
      /\ more \in Seq(Int) /\ Len(more) = L + 1 /\ DOMAIN more = 1 .. L + 1
      /\ more[L + 1] = clock
      /\ \A i \in 1 .. L : more[i] = times[i] /\ times[i] \in Int
  BY AppendProperties, LenProperties, ElementOfSeq DEF Accounted
<1>3. /\ new = Later(full, clock) + c /\ new \in Int
      /\ new >= clock + c /\ new >= full + c
      /\ new = clock + c \/ new = full + c
  BY <1>1 DEF Take, Later
<1> HIDE DEF c, L, more, new
<1>4. new \in 0 .. clock + Minute
  BY <1>1, <1>3
<1>5. InMinute(more, clock)
  BY <1>1, <1>2 DEF Accounted, InMinute
<1>6. InOrder(more)
  BY <1>2 DEF Accounted, InMinute, InOrder
<1>7. FillsNoSooner(new, more, n, clock)
  <2> SUFFICES ASSUME NEW i \in 1 .. L + 1
               PROVE  Later(new, clock) >= more[i] + (L + 1 - i + 1) * c
    BY <1>2 DEF FillsNoSooner, c
  <2>1. Later(new, clock) = new
    BY <1>1, <1>3 DEF Later
  <2>2. CASE i = L + 1
    <3>1. (L + 1 - i + 1) * c = c
      BY <1>1, <1>2, <2>2
    <3> QED BY <3>1, <2>1, <2>2, <1>1, <1>2, <1>3
  <2>3. CASE i \in 1 .. L
    <3>1. Later(full, clock) >= times[i] + (L - i + 1) * c
      BY <1>2, <2>3 DEF Accounted, FillsNoSooner, c, L
    <3>2. (L + 1 - i + 1) * c = (L - i + 1) * c + c /\ (L - i + 1) * c \in Int
      <4>1. L - i + 1 \in Int /\ L + 1 - i + 1 = (L - i + 1) + 1
        BY <1>2
      <4> QED BY <4>1, <1>1, OneCellMore
    <3>3. Later(full, clock) \in Int /\ new = Later(full, clock) + c
      BY <1>3 DEF Later
    <3>4. more[i] = times[i] /\ times[i] \in Int
      BY <1>2, <2>3
    <3> QED BY <3>1, <3>2, <3>3, <3>4, <2>1, <1>1
  <2> QED BY <2>2, <2>3, <1>2
<1>8. FullByNow(new, more, n, clock)
  <2>1. full <= clock + L * c
    BY DEF Accounted, FullByNow, c, L
  <2>2. (L + 1) * c = L * c + c /\ L * c \in Int
    BY <1>1, <1>2, OneCellMore
  <2>3. L * c >= 0 * c
    BY <1>1, <1>2, MoreCells
  <2>4. L * c >= 0
    BY <2>2, <2>3, <1>1
  <2>5. new <= clock + (L + 1) * c
    BY <2>1, <2>2, <2>4, <1>1, <1>3
  <2> QED BY <2>5, <1>2 DEF FullByNow, c
<1>9. FullAfter(new, more, n)
  <2> SUFFICES ASSUME NEW i \in 1 .. L + 1
               PROVE  new <= more[i] + Minute + (L + 1 - i) * c
    BY <1>2 DEF FullAfter, c
  <2>1. CASE i = L + 1
    <3>1. (L + 1 - i) * c = 0
      BY <1>1, <1>2, <2>1
    <3> QED BY <3>1, <2>1, <1>1, <1>2, <1>4
  <2>2. CASE i \in 1 .. L
    <3>1. full <= times[i] + Minute + (L - i) * c
      BY <1>2, <2>2 DEF Accounted, FullAfter, c, L
    <3>2. (L + 1 - i) * c = (L - i) * c + c /\ (L - i) * c \in Int
      <4>1. L - i \in Int /\ L + 1 - i = (L - i) + 1
        BY <1>2
      <4> QED BY <4>1, <1>1, OneCellMore
    <3>3. (L - i) * c >= 0
      <4>1. L - i \in Int /\ 0 <= L - i
        BY <1>2, <2>2
      <4>2. 0 * c <= (L - i) * c
        BY <4>1, <1>1, MoreCells
      <4> QED BY <4>2, <1>1
    <3>4. times[i] > clock - Minute /\ times[i] \in Int /\ more[i] = times[i]
      <4>1. InMinute(times, clock) /\ i \in DOMAIN times
        BY <1>2, <2>2 DEF Accounted
      <4>2. times[i] \in clock - Minute + 1 .. clock
        BY <4>1 DEF InMinute
      <4>3. times[i] \in Int /\ more[i] = times[i]
        BY <1>2, <2>2
      <4> QED BY <4>2, <4>3, <1>1
    <3>5. CASE new = clock + c
      BY <3>5, <3>2, <3>3, <3>4, <1>1
    <3>6. CASE new = full + c
      BY <3>6, <3>1, <3>2, <3>4, <1>1
    <3> QED BY <3>5, <3>6, <1>3
  <2> QED BY <2>1, <2>2, <1>2
<1> QED BY <1>2, <1>4, <1>5, <1>6, <1>7, <1>8, <1>9 DEF Accounted, more, new

\* In a sequence that is in order, what is not after t comes first.
LEMMA AfterIsTheEnd ==
  ASSUME NEW times \in Seq(Int), InOrder(times), NEW t \in Int
  PROVE  /\ After(times, t) \in Seq(Int)
         /\ \E k \in 0 .. Len(times) :
               /\ Len(After(times, t)) = Len(times) - k
               /\ \A i \in 1 .. Len(times) - k : After(times, t)[i] = times[i + k]
               /\ \A i \in 1 .. k : times[i] <= t
               /\ \A i \in k + 1 .. Len(times) : times[i] > t
<1> DEFINE L == Len(times)
           past == {i \in DOMAIN times : times[i] <= t}
           k == Cardinality(past)
<1>1. L \in Nat /\ DOMAIN times = 1 .. L /\ \A i \in 1 .. L : times[i] \in Int
  BY LenProperties, ElementOfSeq
<1> HIDE DEF L
<1>2. IsFiniteSet(1 .. L) /\ Cardinality(1 .. L) = L
  BY <1>1, FS_Interval
<1>3. past \in SUBSET (1 .. L)
  BY <1>1
<1> HIDE DEF past
<1>4. IsFiniteSet(past) /\ k \in Nat /\ k <= L
  BY <1>2, <1>3, FS_Subset, FS_CardinalityType
<1>5. past \subseteq 1 .. k
  <2> SUFFICES ASSUME NEW i \in past PROVE i <= k
    BY <1>3, <1>4
  <2>1. 1 .. i \in SUBSET past
    BY <1>1 DEF past, InOrder
  <2>2. Cardinality(1 .. i) = i
    BY <1>3, FS_Interval
  <2>3. Cardinality(1 .. i) <= Cardinality(past)
    BY <2>1, <1>4, FS_Subset
  <2> QED BY <2>2, <2>3
<1>6. past = 1 .. k
  <2>1. IsFiniteSet(1 .. k) /\ Cardinality(1 .. k) = k
    BY <1>4, FS_Interval
  <2>2. past \in SUBSET (1 .. k)
    BY <1>5
  <2> QED BY <2>1, <2>2, FS_Subset
<1>7. After(times, t) = SubSeq(times, k + 1, L)
  BY DEF After, L, past
<1> HIDE DEF k
<1>8. /\ SubSeq(times, k + 1, L) \in Seq(Int)
      /\ Len(SubSeq(times, k + 1, L)) = L - k
      /\ \A i \in 1 .. L - k : SubSeq(times, k + 1, L)[i] = times[i + k]
  <2>1. \A i \in k + 1 .. L : times[i] \in Int
    BY <1>1, <1>4
  <2>2. /\ SubSeq(times, k + 1, L) \in Seq(Int)
        /\ Len(SubSeq(times, k + 1, L)) = IF k + 1 <= L THEN L - (k + 1) + 1 ELSE 0
        /\ \A i \in 1 .. L - (k + 1) + 1 : SubSeq(times, k + 1, L)[i] = times[k + 1 + i - 1]
    BY <2>1, <1>1, <1>4, SubSeqProperties
  <2>3. L - (k + 1) + 1 = L - k /\ \A i \in 1 .. L - k : k + 1 + i - 1 = i + k
    BY <1>1, <1>4
  <2> QED BY <2>2, <2>3, <1>1, <1>4
<1>9. /\ \A i \in 1 .. k : times[i] <= t
      /\ \A i \in k + 1 .. L : times[i] > t
  <2>1. \A i \in 1 .. L : i \in past <=> times[i] <= t
    BY <1>1 DEF past
  <2>2. \A i \in 1 .. k : i \in past /\ i \in 1 .. L
    BY <1>3, <1>6
  <2>3. \A i \in k + 1 .. L : i \notin past /\ i \in 1 .. L
    BY <1>4, <1>6
  <2> QED BY <2>1, <2>2, <2>3, <1>1
<1>10. k \in 0 .. L
  BY <1>4
<1> QED BY <1>7, <1>8, <1>9, <1>10 DEF L

\* A tick: what leaves the minute has filled up.
LEMMA TickIsAccounted ==
  ASSUME NEW n \in Quotas, NEW full \in Int, NEW times, NEW t \in Nat, Accounted(full, times, n, t)
  PROVE  Accounted(full, After(times, t + 1 - Minute), n, t + 1)
<1> DEFINE L == Len(times)
           c == Cell(n)
           rest == After(times, t + 1 - Minute)
<1>1. c \in Nat \ {0} /\ Minute \in Nat \ {0}
  BY CellsMakeAMinute, LimitsAssumption
<1>2. L \in Nat /\ DOMAIN times = 1 .. L /\ \A i \in 1 .. L : times[i] \in Int /\ times[i] <= t
  BY LenProperties, ElementOfSeq DEF Accounted, InMinute
<1>3. PICK k \in 0 .. L :
        /\ rest \in Seq(Int) /\ Len(rest) = L - k
        /\ \A i \in 1 .. L - k : rest[i] = times[i + k]
        /\ \A i \in 1 .. k : times[i] <= t + 1 - Minute
        /\ \A i \in k + 1 .. L : times[i] > t + 1 - Minute
  <2>1. times \in Seq(Int) /\ InOrder(times) /\ t + 1 - Minute \in Int
    BY <1>1 DEF Accounted
  <2> QED BY <2>1, AfterIsTheEnd
<1>4. DOMAIN rest = 1 .. L - k
  BY <1>3, LenProperties
<1> HIDE DEF c, L, rest
<1>5. full \in 0 .. t + 1 + Minute
  BY <1>1 DEF Accounted
<1>6. InMinute(rest, t + 1)
  BY <1>1, <1>2, <1>3, <1>4 DEF InMinute
<1>7. InOrder(rest)
  <2> SUFFICES ASSUME NEW i \in 1 .. L - k, NEW j \in 1 .. L - k, i <= j PROVE rest[i] <= rest[j]
    BY <1>4 DEF InOrder
  <2>1. i + k \in 1 .. L /\ j + k \in 1 .. L /\ i + k <= j + k
    BY <1>2, <1>3
  <2> QED BY <2>1, <1>2, <1>3 DEF Accounted, InOrder
<1>8. FillsNoSooner(full, rest, n, t + 1)
  <2> SUFFICES ASSUME NEW i \in 1 .. L - k
               PROVE  Later(full, t + 1) >= rest[i] + (L - k - i + 1) * c
    BY <1>3, <1>4 DEF FillsNoSooner, c
  <2>1. i + k \in 1 .. L /\ L - (i + k) + 1 = L - k - i + 1
    BY <1>2, <1>3
  <2>2. Later(full, t) >= times[i + k] + (L - (i + k) + 1) * c
    BY <2>1, <1>2 DEF Accounted, FillsNoSooner, c, L
  <2>3. Later(full, t + 1) >= Later(full, t) /\ Later(full, t) \in Int /\ Later(full, t + 1) \in Int
    BY DEF Later
  <2>4. rest[i] = times[i + k] /\ rest[i] \in Int
    BY <2>1, <1>2, <1>3
  <2>5. (L - k - i + 1) * c \in Int
    BY <1>1, <1>2, <1>3
  <2> QED BY <2>1, <2>2, <2>3, <2>4, <2>5
<1>9. FullByNow(full, rest, n, t + 1)
  <2>1. CASE k = 0
    <3>1. full <= t + L * c
      BY DEF Accounted, FullByNow, c, L
    <3> QED BY <3>1, <2>1, <1>1, <1>2, <1>3 DEF FullByNow, c
  <2>2. CASE k \in 1 .. L
    <3>1. full <= times[k] + Minute + (L - k) * c
      BY <2>2, <1>2 DEF Accounted, FullAfter, c, L
    <3>2. times[k] <= t + 1 - Minute /\ times[k] \in Int
      BY <2>2, <1>2, <1>3
    <3>3. (L - k) * c \in Int
      BY <1>1, <1>2
    <3> QED BY <3>1, <3>2, <3>3, <1>1, <1>3 DEF FullByNow, c
  <2> QED BY <2>1, <2>2, <1>2
<1>10. FullAfter(full, rest, n)
  <2> SUFFICES ASSUME NEW i \in 1 .. L - k PROVE full <= rest[i] + Minute + (L - k - i) * c
    BY <1>3, <1>4 DEF FullAfter, c
  <2>1. i + k \in 1 .. L /\ L - (i + k) = L - k - i
    BY <1>2, <1>3
  <2>2. full <= times[i + k] + Minute + (L - (i + k)) * c
    BY <2>1, <1>2 DEF Accounted, FullAfter, c, L
  <2> QED BY <2>1, <2>2, <1>3
<1> QED BY <1>3, <1>5, <1>6, <1>7, <1>8, <1>9, <1>10 DEF Accounted, rest

\* A budget that is full may be forgotten.
LEMMA ForgottenIsAccounted ==
  ASSUME NEW n \in Quotas, NEW full \in Int, NEW times, NEW t \in Nat,
         Accounted(full, times, n, t), full <= t
  PROVE  Accounted(0, times, n, t)
<1>1. Later(0, t) = t /\ Later(full, t) = t
  BY DEF Later, Accounted
<1>2. FullByNow(0, times, n, t) /\ FullAfter(0, times, n)
  <2> DEFINE L == Len(times)
             c == Cell(n)
  <2>1. c \in Nat /\ L \in Nat /\ DOMAIN times = 1 .. L /\ Minute \in Nat
    BY CellsMakeAMinute, LimitsAssumption, LenProperties DEF Accounted
  <2> HIDE DEF c, L
  <2>2. 0 <= t + L * c
    <3>1. L * c \in Nat
      BY <2>1
    <3> QED BY <3>1
  <2>3. ASSUME NEW i \in 1 .. L PROVE 0 <= times[i] + Minute + (L - i) * c
    <3>1. times[i] \in t - Minute + 1 .. t
      BY <2>1 DEF Accounted, InMinute
    <3>2. L - i \in Nat
      BY <2>1
    <3>3. (L - i) * c \in Nat
      BY <3>2, <2>1
    <3> QED BY <3>1, <3>3, <2>1
  <2> QED BY <2>1, <2>2, <2>3 DEF FullByNow, FullAfter, c, L
<1> QED BY <1>1, <1>2, LimitsAssumption DEF Accounted, FillsNoSooner

-----------------------------------------------------------------------------
(* Limits: callers *)

Whoever == Hosts \cup KeyIds

\* The budget a request of w's is counted against, as c.
CallsAs(w, c) ==
    IF w \in KeyIds THEN c = <<"key", w>>
    ELSE \E ip \in AddressesOf[w] : c = <<"anonymous", BucketIp(ip)>>

\* Two addresses share a bucket when they are of one site.
LEMMA BucketIsSite ==
  ASSUME NEW a \in Address, NEW b \in Address
  PROVE  BucketIp(a) = BucketIp(b) <=> Site(a) = Site(b)
<1> DEFINE BucketOf(ip) == IF ip.kind = "v6" THEN [kind |-> "v6", net |-> ip.net, low |-> 0]
                           ELSE [kind |-> "v4", net |-> ip.net]
<1>1. ASSUME NEW ip \in Address PROVE BucketIp(ip) = BucketOf(ip)
  <2>1. CASE ip \in [kind : {"v6"}, net : Nets, low : Nat]
    BY <2>1 DEF BucketIp
  <2>2. CASE ip \in [kind : {"v4"}, net : Nets]
    BY <2>2 DEF BucketIp
  <2>3. CASE ip \in [kind : {"mapped"}, net : Nets]
    BY <2>3 DEF BucketIp
  <2> QED BY <2>1, <2>2, <2>3 DEF Address
<1>2. BucketOf(a) = BucketOf(b) <=> Site(a) = Site(b)
  <2>1. ASSUME BucketOf(a) = BucketOf(b) PROVE Site(a) = Site(b)
    <3>1. BucketOf(a).kind = BucketOf(b).kind /\ BucketOf(a).net = BucketOf(b).net
      BY <2>1
    <3> QED BY <3>1 DEF Site
  <2>2. ASSUME Site(a) = Site(b) PROVE BucketOf(a) = BucketOf(b)
    BY <2>2 DEF Site
  <2> QED BY <2>1, <2>2
<1> QED BY <1>1, <1>2

\* Each has one budget of its own, at its own rate.
LEMMA OneBudgetEach ==
  ASSUME NEW v \in Whoever, NEW w \in Whoever, NEW c, NEW d, CallsAs(v, c), CallsAs(w, d)
  PROVE  /\ v = w <=> c = d
         /\ c \in Callers /\ PerMinute(c) = Budget(v)
<1>1. ASSUME NEW u \in Whoever, NEW e, CallsAs(u, e)
      PROVE  \/ u \in KeyIds /\ e = <<"key", u>>
             \/ /\ u \notin KeyIds /\ u \in Hosts
                /\ \E ip \in AddressesOf[u] : ip \in Address /\ e = <<"anonymous", BucketIp(ip)>>
  BY <1>1, SitesAssumption DEF CallsAs, Whoever
<1>2. c \in Callers /\ PerMinute(c) = Budget(v)
  <2>1. CASE v \in KeyIds
    BY <1>1, <2>1 DEF Callers, PerMinute, Budget
  <2>2. CASE v \notin KeyIds
    <3>1. PICK ip \in AddressesOf[v] : c = <<"anonymous", BucketIp(ip)>>
      BY <1>1, <2>2
    <3>2. ip \in Addresses /\ v \in Hosts
      BY <3>1, <1>1, <2>2 DEF Addresses
    <3> QED BY <3>1, <3>2, <2>2 DEF Callers, PerMinute, Budget
  <2> QED BY <2>1, <2>2
<1>3. v = w <=> c = d
  <2>1. CASE v \in KeyIds \/ w \in KeyIds
    BY <1>1, <2>1
  <2>2. CASE v \notin KeyIds /\ w \notin KeyIds
    <3>1. PICK a \in AddressesOf[v] : a \in Address /\ c = <<"anonymous", BucketIp(a)>>
      BY <1>1, <2>2
    <3>2. PICK b \in AddressesOf[w] : b \in Address /\ d = <<"anonymous", BucketIp(b)>>
      BY <1>1, <2>2
    <3>3. v \in Hosts /\ w \in Hosts
      BY <1>1, <2>2
    <3>4. c = d <=> BucketIp(a) = BucketIp(b)
      BY <3>1, <3>2
    <3>5. BucketIp(a) = BucketIp(b) <=> Site(a) = Site(b)
      BY <3>1, <3>2, BucketIsSite
    <3>6. Site(a) = Site(b) <=> v = w
      BY <3>1, <3>2, <3>3, SitesAssumption
    <3> QED BY <3>4, <3>5, <3>6
  <2> QED BY <2>1, <2>2
<1> QED BY <1>2, <1>3

\* Whatever a header says, a request is counted as its host's, the proxy's or the key's.
LEMMA RequestIsCounted ==
  ASSUME NEW h \in Hosts, NEW key \in KeyIds \cup {NoKey, Unusable},
         RequestDirect(h, key) \/ RequestForwarded(h, key)
  PROVE  \E w \in Whoever, c \in Callers : CallsAs(w, c) /\ Check(w, c)
<1>1. Gateway \in Hosts /\ \A g \in Hosts : g \notin KeyIds
  BY SitesAssumption
<1>2. \A g \in Hosts : \A ip \in AddressesOf[g] : ip # NoAddress
  <2> SUFFICES ASSUME NEW g \in Hosts, NEW ip \in AddressesOf[g] PROVE ip # NoAddress
    OBVIOUS
  <2>1. ip \in Address
    BY SitesAssumption
  <2>2. ip.kind # None
    BY <2>1 DEF Address, None
  <2> QED BY <2>2 DEF NoAddress
<1>3. ASSUME NEW g \in Hosts, NEW ip \in AddressesOf[g], NEW c,
             c = IF key \in KeyIds THEN <<"key", key>> ELSE <<"anonymous", BucketIp(ip)>>,
             Check(IF key \in KeyIds THEN key ELSE g, c)
      PROVE  \E w \in Whoever, d \in Callers : CallsAs(w, d) /\ Check(w, d)
  <2> DEFINE who == IF key \in KeyIds THEN key ELSE g
  <2>1. who \in Whoever /\ CallsAs(who, c)
    BY <1>1, <1>3 DEF Whoever, CallsAs
  <2>2. c \in Callers
    BY <2>1, OneBudgetEach
  <2> QED BY <1>3, <2>1, <2>2
<1>4. CASE RequestDirect(h, key)
  <2>1. PICK ip \in AddressesOf[h], header \in Headers(Addresses) :
            Check(IF key \in KeyIds THEN key ELSE h, CallerOf(key, header, ip))
    BY <1>4 DEF RequestDirect
  <2>2. CallerOf(key, header, ip) = IF key \in KeyIds THEN <<"key", key>> ELSE <<"anonymous", BucketIp(ip)>>
    BY <1>4 DEF RequestDirect, CallerOf, Forwarded
  <2> QED BY <1>3, <2>1, <2>2
<1>5. CASE RequestForwarded(h, key)
  <2> DEFINE host(header) == IF Forwarded(header) = NoAddress THEN Gateway ELSE h
  <2>1. PICK peer \in AddressesOf[Gateway], header \in Headers(AddressesOf[h]) :
            Check(IF key \in KeyIds THEN key ELSE host(header), CallerOf(key, header, peer))
    BY <1>5 DEF RequestForwarded
  <2>2. Forwarded(header) = NoAddress \/ Forwarded(header) \in AddressesOf[h]
    <3>1. CASE header = <<>> \/ header = <<NoAddress>>
      BY <3>1 DEF Forwarded
    <3>2. CASE header # <<>> /\ header # <<NoAddress>>
      <4>1. header[1] \in AddressesOf[h]
        BY <2>1, <3>2 DEF Headers
      <4> QED BY <4>1 DEF Forwarded
    <3> QED BY <3>1, <3>2
  <2>3. CASE Forwarded(header) = NoAddress
    <3>1. CallerOf(key, header, peer) =
              IF key \in KeyIds THEN <<"key", key>> ELSE <<"anonymous", BucketIp(peer)>>
      BY <2>3 DEF CallerOf
    <3> QED BY <1>1, <1>3, <2>1, <2>3, <3>1
  <2>4. CASE Forwarded(header) # NoAddress
    <3>1. CallerOf(key, header, peer) =
              IF key \in KeyIds THEN <<"key", key>> ELSE <<"anonymous", BucketIp(Forwarded(header))>>
      BY <2>4 DEF CallerOf
    <3> QED BY <1>3, <2>1, <2>2, <2>4, <3>1
  <2> QED BY <2>3, <2>4
<1> QED BY <1>4, <1>5

-----------------------------------------------------------------------------
(* Limits: the inductive invariant *)

\* Types that LimitsTypeOK leaves open.
Kept ==
    /\ fullAt \in [Callers -> Int]
    /\ DOMAIN asked = Whoever
    /\ clock \in 0 .. LastTick

\* A budget is accounted for by the requests of the one it belongs to.
OwnBudgets ==
    \A w \in Whoever, c \in Callers :
        CallsAs(w, c) => Accounted(fullAt[c], asked[w], Budget(w), clock)

SharedBudget == Accounted(globalFullAt, served, GlobalPerMinute, clock)

LimitsInv ==
    /\ LimitsTypeOK
    /\ Kept
    /\ OwnBudgets
    /\ SharedBudget
    /\ DenialIsEarned
    /\ CapacityIsReal

LEMMA QuotaOf ==
  /\ GlobalPerMinute \in Quotas
  /\ \A w : Budget(w) \in Quotas
  /\ \A c : PerMinute(c) \in Quotas
BY DEF Quotas, Budget, PerMinute

\* A budget nobody has taken from.
LEMMA FreshIsAccounted ==
  ASSUME NEW n \in Quotas PROVE Accounted(0, <<>>, n, 0)
<1>1. Cell(n) \in Nat /\ Minute \in Nat
  BY CellsMakeAMinute, LimitsAssumption
<1> QED BY <1>1 DEF Accounted, InMinute, InOrder, FillsNoSooner, FullByNow, FullAfter

\* A budget is spent only by as many cells taken within the last minute.
LEMMA SpentWasTaken ==
  ASSUME NEW n \in Quotas, NEW full \in Int, NEW times, clock \in Nat,
         Accounted(full, times, n, clock), Spent(full, n)
  PROVE  Len(times) >= n
<1> DEFINE c == Cell(n)
           L == Len(times)
<1>1. c \in Nat /\ n \in Nat /\ L \in Nat
  BY CellsMakeAMinute, LenProperties DEF Accounted
<1>2. full - clock > (n - 1) * c /\ full <= clock + L * c
  BY DEF Spent, Accounted, FullByNow
<1> HIDE DEF c, L
<1>3. (n - 1) * c \in Int /\ L * c \in Int
  BY <1>1
<1>4. L * c > (n - 1) * c
  BY <1>2, <1>3
<1>5. ~(L <= n - 1)
  BY <1>1, <1>3, <1>4, MoreCells
<1> QED BY <1>1, <1>5 DEF L

\* Within one minute: a burst, and what is filled up meanwhile.
LEMMA AccountedIsBounded ==
  ASSUME NEW n \in Quotas, NEW full \in Int, NEW times, NEW t \in Nat, Accounted(full, times, n, t)
  PROVE  Len(times) <= 2 * n - 1
<1> DEFINE c == Cell(n)
           L == Len(times)
<1>1. /\ c \in Nat \ {0} /\ n \in Nat \ {0} /\ L \in Nat /\ DOMAIN times = 1 .. L
      /\ n * c = Minute /\ Minute \in Nat
  BY CellsMakeAMinute, LenProperties, LimitsAssumption DEF Accounted
<1>2. ASSUME L >= 1 PROVE Later(full, t) >= times[1] + (L - 1 + 1) * c /\ times[1] \in t - Minute + 1 .. t
  BY <1>1, <1>2 DEF Accounted, FillsNoSooner, InMinute
<1>3. Later(full, t) <= t + Minute /\ Later(full, t) \in Int
  BY <1>1 DEF Accounted, Later
<1> HIDE DEF c, L
<1>4. L - 1 + 1 = L /\ L * c \in Int /\ (2 * n) * c = n * c + n * c
  BY <1>1
<1>5. L >= 1 => L * c < (2 * n) * c
  BY <1>1, <1>2, <1>3, <1>4
<1>6. L >= 1 => ~(2 * n <= L)
  <2>1. 2 * n \in Int /\ (2 * n) * c \in Int
    BY <1>1
  <2> QED BY <2>1, <1>1, <1>4, <1>5, MoreCells
<1> QED BY <1>1, <1>6 DEF L

LEMMA LimitsRanges ==
  ASSUME LimitsInv
  PROVE  /\ clock \in Nat /\ Minute \in Nat /\ LastTick \in Nat
         /\ fullAt \in [Callers -> Int] /\ DOMAIN asked = Whoever
         /\ \A c \in Callers : fullAt[c] \in 0 .. clock + Minute
         /\ globalFullAt \in 0 .. clock + Minute /\ globalFullAt \in Int
<1>1. Minute \in Nat /\ LastTick \in Nat
  BY LimitsAssumption
<1>2. clock \in 0 .. LastTick /\ fullAt \in [Callers -> Int] /\ DOMAIN asked = Whoever
  BY DEF LimitsInv, Kept
<1>3. /\ \A c \in Callers : fullAt[c] \in 0 .. clock + Minute
      /\ globalFullAt \in 0 .. clock + Minute
  BY DEF LimitsInv, LimitsTypeOK
<1> QED BY <1>1, <1>2, <1>3

LEMMA LimitsInitInvariant == LimitsInit => LimitsInv
<1> SUFFICES ASSUME LimitsInit PROVE LimitsInv
  OBVIOUS
<1>1. LimitsTypeOK /\ Kept
  BY LimitsAssumption DEF LimitsInit, LimitsTypeOK, Kept, Whoever
<1>2. OwnBudgets
  BY QuotaOf, FreshIsAccounted DEF LimitsInit, OwnBudgets, Whoever
<1>3. SharedBudget
  BY QuotaOf, FreshIsAccounted DEF LimitsInit, SharedBudget
<1>4. DenialIsEarned /\ CapacityIsReal
  BY DEF LimitsInit, DenialIsEarned, CapacityIsReal, None
<1> QED BY <1>1, <1>2, <1>3, <1>4 DEF LimitsInv

LEMMA CheckKeeps ==
  ASSUME LimitsInv, NEW w \in Whoever, NEW c \in Callers, CallsAs(w, c), Check(w, c)
  PROVE  LimitsInv'
<1> DEFINE own == Spent(fullAt[c], PerMinute(c))
           all == Spent(globalFullAt, GlobalPerMinute)
<1>1. /\ clock \in Nat /\ fullAt \in [Callers -> Int] /\ fullAt[c] \in Int /\ globalFullAt \in Int
      /\ DOMAIN asked = Whoever
  BY LimitsRanges
<1>2. PerMinute(c) = Budget(w) /\ Budget(w) \in Quotas /\ GlobalPerMinute \in Quotas
  BY OneBudgetEach, QuotaOf
<1>3. /\ Accounted(fullAt[c], asked[w], Budget(w), clock)
      /\ Accounted(globalFullAt, served, GlobalPerMinute, clock)
  BY DEF LimitsInv, OwnBudgets, SharedBudget
<1>4. UNCHANGED clock
  BY DEF Check
<1>5. ASSUME own PROVE LimitsInv'
  <2>1. UNCHANGED <<fullAt, globalFullAt, asked, served>> /\ answer' = <<"too many", w>>
    BY <1>5 DEF Check, Decide
  <2>2. LimitsTypeOK' /\ Kept' /\ OwnBudgets' /\ SharedBudget'
    BY <2>1, <1>4 DEF LimitsInv, LimitsTypeOK, Kept, OwnBudgets, SharedBudget
  <2>3. DenialIsEarned'
    <3>1. Len(asked[w]) >= Budget(w)
      BY <1>1, <1>2, <1>3, <1>5, SpentWasTaken
    <3> QED BY <3>1, <2>1 DEF DenialIsEarned
  <2>4. CapacityIsReal'
    BY <2>1 DEF CapacityIsReal
  <2> QED BY <2>2, <2>3, <2>4 DEF LimitsInv
<1>6. ASSUME ~own
      PROVE  /\ fullAt' = [fullAt EXCEPT ![c] = Take(@, PerMinute(c))]
             /\ asked' = [asked EXCEPT ![w] = Append(@, clock)]
  BY <1>6 DEF Check, Decide
<1>7. ASSUME ~own PROVE OwnBudgets' /\ Kept' /\ Take(fullAt[c], PerMinute(c)) \in 0 .. clock + Minute
  <2>1. Accounted(Take(fullAt[c], Budget(w)), Append(asked[w], clock), Budget(w), clock)
    BY <1>1, <1>2, <1>3, <1>7, TakenIsAccounted
  <2>2. Take(fullAt[c], PerMinute(c)) \in 0 .. clock + Minute
    BY <2>1, <1>2 DEF Accounted
  <2>3. Minute \in Nat
    BY LimitsAssumption
  <2>4. Kept'
    BY <2>2, <2>3, <1>1, <1>4, <1>6, <1>7 DEF LimitsInv, Kept
  <2>5. ASSUME NEW v \in Whoever, NEW d \in Callers, CallsAs(v, d)
        PROVE  Accounted(fullAt'[d], asked'[v], Budget(v), clock)
    <3>1. v = w <=> d = c
      BY <2>5, OneBudgetEach
    <3>2. CASE v = w
      BY <3>1, <3>2, <2>1, <1>1, <1>2, <1>6, <1>7
    <3>3. CASE v # w
      <4>1. fullAt'[d] = fullAt[d] /\ asked'[v] = asked[v]
        BY <3>1, <3>3, <1>1, <1>6, <1>7
      <4> QED BY <4>1, <2>5 DEF LimitsInv, OwnBudgets
    <3> QED BY <3>2, <3>3
  <2>6. OwnBudgets'
    BY <2>5, <1>4 DEF OwnBudgets, CallsAs
  <2> QED BY <2>2, <2>4, <2>6
<1>8. ASSUME ~own, all PROVE LimitsInv'
  <2>1. UNCHANGED <<globalFullAt, served>> /\ answer' = <<"at capacity", w>>
    BY <1>8 DEF Check, Decide
  <2>2. LimitsTypeOK'
    BY <2>1, <1>1, <1>4, <1>6, <1>7, <1>8 DEF LimitsInv, LimitsTypeOK
  <2>3. SharedBudget' /\ DenialIsEarned'
    BY <2>1, <1>3, <1>4 DEF SharedBudget, DenialIsEarned
  <2>4. CapacityIsReal'
    <3>1. Len(served) >= GlobalPerMinute
      BY <1>1, <1>2, <1>3, <1>8, SpentWasTaken
    <3> QED BY <3>1, <2>1 DEF CapacityIsReal
  <2> QED BY <2>2, <2>3, <2>4, <1>7, <1>8 DEF LimitsInv
<1>9. ASSUME ~own, ~all PROVE LimitsInv'
  <2>1. /\ globalFullAt' = Take(globalFullAt, GlobalPerMinute)
        /\ served' = Append(served, clock)
        /\ answer' = <<"allow", w>>
    BY <1>9 DEF Check, Decide
  <2>2. Accounted(globalFullAt', served', GlobalPerMinute, clock)
    BY <2>1, <1>1, <1>2, <1>3, <1>9, TakenIsAccounted
  <2>3. LimitsTypeOK'
    BY <2>1, <2>2, <1>1, <1>4, <1>6, <1>7, <1>9 DEF LimitsInv, LimitsTypeOK, Accounted
  <2>4. DenialIsEarned' /\ CapacityIsReal'
    BY <2>1 DEF DenialIsEarned, CapacityIsReal
  <2> QED BY <2>2, <2>3, <2>4, <1>4, <1>7, <1>9 DEF LimitsInv, SharedBudget
<1> QED BY <1>5, <1>8, <1>9

LEMMA PruneKeeps ==
  ASSUME LimitsInv, Prune PROVE LimitsInv'
<1>1. /\ fullAt' = Pruned /\ UNCHANGED <<clock, globalFullAt, asked, served, answer>>
      /\ clock \in Nat /\ fullAt \in [Callers -> Int]
  BY LimitsRanges DEF Prune
<1>2. LimitsTypeOK' /\ Kept'
  <2>1. \A c \in Callers : Pruned[c] \in 0 .. clock + Minute /\ Pruned[c] \in Int
    BY <1>1, LimitsRanges DEF Pruned
  <2>2. fullAt' \in [Callers -> Int]
    BY <1>1, <2>1 DEF Pruned
  <2> QED BY <1>1, <2>1, <2>2 DEF LimitsInv, LimitsTypeOK, Kept
<1>3. OwnBudgets'
  <2> SUFFICES ASSUME NEW w \in Whoever, NEW c \in Callers, CallsAs(w, c)
               PROVE  Accounted(Pruned[c], asked[w], Budget(w), clock)
    BY <1>1 DEF OwnBudgets, CallsAs
  <2>1. Accounted(fullAt[c], asked[w], Budget(w), clock) /\ fullAt[c] \in Int
    BY <1>1 DEF LimitsInv, OwnBudgets
  <2>2. CASE fullAt[c] <= clock
    BY <2>1, <2>2, <1>1, QuotaOf, ForgottenIsAccounted DEF Pruned
  <2>3. CASE fullAt[c] > clock
    BY <2>1, <2>3, <1>1 DEF Pruned
  <2> QED BY <2>1, <2>2, <2>3, <1>1
<1>4. SharedBudget' /\ DenialIsEarned' /\ CapacityIsReal'
  BY <1>1 DEF LimitsInv, SharedBudget, DenialIsEarned, CapacityIsReal
<1> QED BY <1>2, <1>3, <1>4 DEF LimitsInv

LEMMA TickKeeps ==
  ASSUME LimitsInv, ClockTick PROVE LimitsInv'
<1>1. /\ clock' = clock + 1 /\ clock \in Nat /\ clock < LastTick /\ LastTick \in Nat
      /\ asked' = [w \in DOMAIN asked |-> After(asked[w], clock + 1 - Minute)]
      /\ served' = After(served, clock + 1 - Minute)
      /\ answer' = <<None, None>>
      /\ UNCHANGED <<fullAt, globalFullAt>>
      /\ fullAt \in [Callers -> Int] /\ globalFullAt \in Int /\ DOMAIN asked = Whoever
  BY LimitsRanges DEF ClockTick
<1>2. Kept'
  BY <1>1 DEF LimitsInv, Kept
<1>3. LimitsTypeOK'
  <2>1. clock' \in 0 .. LastTick /\ answer'[1] = None
    BY <1>1
  <2>2. /\ \A c \in Callers : fullAt'[c] \in 0 .. clock' + Minute
        /\ globalFullAt' \in 0 .. clock' + Minute
    BY <1>1, LimitsRanges
  <2> QED BY <2>1, <2>2 DEF LimitsTypeOK
<1>4. OwnBudgets'
  <2> SUFFICES ASSUME NEW w \in Whoever, NEW c \in Callers, CallsAs(w, c)
               PROVE  Accounted(fullAt[c], After(asked[w], clock + 1 - Minute), Budget(w), clock + 1)
    BY <1>1 DEF OwnBudgets, CallsAs
  <2>1. Accounted(fullAt[c], asked[w], Budget(w), clock)
    BY DEF LimitsInv, OwnBudgets
  <2> QED BY <2>1, <1>1, QuotaOf, TickIsAccounted
<1>5. SharedBudget'
  BY <1>1, QuotaOf, TickIsAccounted DEF LimitsInv, SharedBudget
<1>6. DenialIsEarned' /\ CapacityIsReal'
  BY <1>1 DEF DenialIsEarned, CapacityIsReal, None
<1> QED BY <1>2, <1>3, <1>4, <1>5, <1>6 DEF LimitsInv

LEMMA LimitsNextInvariant == LimitsInv /\ [LimitsNext]_limitsVars => LimitsInv'
<1> SUFFICES ASSUME LimitsInv, [LimitsNext]_limitsVars PROVE LimitsInv'
  OBVIOUS
<1>1. ASSUME NEW h \in Hosts, NEW key \in KeyIds \cup {NoKey, Unusable},
             RequestDirect(h, key) \/ RequestForwarded(h, key)
      PROVE  LimitsInv'
  BY <1>1, RequestIsCounted, CheckKeeps
<1>2. CASE Prune
  BY <1>2, PruneKeeps
<1>3. CASE ClockTick
  BY <1>3, TickKeeps
<1>4. CASE UNCHANGED limitsVars
  BY <1>4 DEF limitsVars, LimitsInv, LimitsTypeOK, Kept, OwnBudgets, CallsAs, SharedBudget,
              DenialIsEarned, CapacityIsReal
<1> QED BY <1>1, <1>2, <1>3, <1>4 DEF LimitsNext

\* Every budget is accounted for by the requests of the last minute, whoever
\* they claim to be from, pruned or not.
THEOREM LimitsInvariant == LimitsSpec => []LimitsInv
<1> QED BY LimitsInitInvariant, LimitsNextInvariant, PTL DEF LimitsSpec

\* Type correctness of the rate limits.
THEOREM LimitsTyped == LimitsSpec => []LimitsTypeOK
<1>1. LimitsInv => LimitsTypeOK
  BY DEF LimitsInv
<1> QED BY <1>1, LimitsInvariant, PTL

\* For any rates, hosts and addresses: nobody is let past its own limit more
\* often within a minute than a burst and what is filled up meanwhile
\* (Limits::check, prune, bucket_ip, caller_of).
THEOREM MinuteIsBounded == LimitsSpec => []MinuteBound
<1>1. ASSUME LimitsInv PROVE MinuteBound
  <2> SUFFICES ASSUME NEW w \in Whoever PROVE Len(asked[w]) <= 2 * Budget(w) - 1
    BY <1>1 DEF MinuteBound, LimitsInv, Kept
  <2>1. PICK c \in Callers : CallsAs(w, c)
    <3>1. w \notin KeyIds => w \in Hosts /\ AddressesOf[w] # {}
      BY SitesAssumption DEF Whoever
    <3>2. \E d : CallsAs(w, d)
      BY <3>1 DEF CallsAs
    <3> QED BY <3>2, OneBudgetEach
  <2>2. Accounted(fullAt[c], asked[w], Budget(w), clock) /\ clock \in Nat /\ fullAt[c] \in Int
    BY <1>1, <2>1 DEF LimitsInv, OwnBudgets, Kept
  <2> QED BY <2>2, QuotaOf, AccountedIsBounded
<1> QED BY <1>1, LimitsInvariant, PTL

\* Whoever is told to slow down has had its whole budget within the last minute,
\* whatever others do (Limits::check asks the caller's own budget first).
THEOREM DenialsAreEarned == LimitsSpec => []DenialIsEarned
<1>1. LimitsInv => DenialIsEarned
  BY DEF LimitsInv
<1> QED BY <1>1, LimitsInvariant, PTL

\* The service is at capacity only when it let as many requests through: a denied
\* caller takes nothing from the shared budget (the order in Limits::check).
THEOREM CapacityWasUsed == LimitsSpec => []CapacityIsReal
<1>1. LimitsInv => CapacityIsReal
  BY DEF LimitsInv
<1> QED BY <1>1, LimitsInvariant, PTL

-----------------------------------------------------------------------------
(* Claims *)

\* A set of numbers that is not empty has a least one.
LEMMA LeastNumber ==
  ASSUME NEW T \in SUBSET Nat, T # {}
  PROVE  \E n \in T : \A m \in T : n <= m
<1> DEFINE Less == {ss \in Nat \X Nat : ss[1] < ss[2]}
<1>1. IsWellFoundedOn(Less, Nat)
  BY NatLessThanWellFounded DEF OpToRel
<1>2. PICK n \in T : \A m \in T : <<m, n>> \notin Less
  <2> HIDE DEF Less
  <2>1. T \subseteq Nat
    OBVIOUS
  <2> QED BY <1>1, <2>1, WFMin
<1>3. ASSUME NEW m \in T PROVE n <= m
  <2>1. m \in Nat /\ n \in Nat /\ <<m, n>> \in Nat \X Nat
    OBVIOUS
  <2>2. ~(<<m, n>>[1] < <<m, n>>[2])
    BY <1>2, <2>1
  <2> QED BY <2>1, <2>2
<1> QED BY <1>3

\* Induction, for a set of numbers.
LEMMA SetInduction ==
  ASSUME NEW T, 0 \in T, \A n \in Nat : n \in T => n + 1 \in T
  PROVE  \A n \in Nat : n \in T
<1> DEFINE Bad == {n \in Nat : n \notin T}
<1>1. SUFFICES ASSUME Bad # {} PROVE FALSE
  BY <1>1
<1>2. PICK n \in Bad : \A m \in Bad : n <= m
  <2>1. Bad \in SUBSET Nat
    OBVIOUS
  <2> HIDE DEF Bad
  <2> QED BY <1>1, <2>1, LeastNumber
<1>3. n - 1 \in Nat /\ n = (n - 1) + 1
  OBVIOUS
<1>4. n - 1 \notin Bad
  <2> HIDE DEF Bad
  <2> QED BY <1>2, <1>3
<1> QED BY <1>3, <1>4

\* There is a running sum of any n amounts.
LEMMA RunningSum ==
  ASSUME NEW n \in Nat, NEW w \in [1 .. n -> Nat]
  PROVE  \E f \in [0 .. n -> Nat] : f[0] = 0 /\ \A i \in 1 .. n : f[i] = f[i - 1] + w[i]
<1> DEFINE Sums(k, f) == /\ f \in [0 .. k -> Nat] /\ f[0] = 0
                         /\ \A i \in 1 .. k : f[i] = f[i - 1] + w[i]
           T == {k \in Nat : k <= n => \E f : Sums(k, f)}
<1> HIDE DEF Sums
<1>1. 0 \in T
  <2>1. Sums(0, [i \in 0 .. 0 |-> 0])
    BY DEF Sums
  <2> QED BY <2>1
<1>2. ASSUME NEW k \in Nat, k \in T PROVE k + 1 \in T
  <2>1. SUFFICES ASSUME k + 1 <= n PROVE \E g : Sums(k + 1, g)
    OBVIOUS
  <2>2. PICK f : Sums(k, f)
    BY <1>2, <2>1
  <2> DEFINE g == [i \in 0 .. k + 1 |-> IF i = k + 1 THEN f[k] + w[k + 1] ELSE f[i]]
  <2>3. g \in [0 .. k + 1 -> Nat] /\ g[0] = 0
    BY <2>1, <2>2 DEF Sums
  <2>4. ASSUME NEW i \in 1 .. k + 1 PROVE g[i] = g[i - 1] + w[i]
    <3>1. g[i - 1] = f[i - 1]
      OBVIOUS
    <3>2. CASE i = k + 1
      BY <3>1, <3>2, <2>1
    <3>3. CASE i # k + 1
      BY <3>1, <3>3, <2>2 DEF Sums
    <3> QED BY <3>2, <3>3
  <2>5. Sums(k + 1, g)
    BY <2>3, <2>4 DEF Sums
  <2> QED BY <2>5
<1>3. n \in T
  <2>1. \A k \in Nat : k \in T => k + 1 \in T
    BY <1>2
  <2> HIDE DEF T
  <2>2. \A k \in Nat : k \in T
    BY <1>1, <2>1, SetInduction
  <2> QED BY <2>2
<1>4. PICK f : Sums(n, f)
  BY <1>3
<1> QED BY <1>4 DEF Sums

\* A running sum of amounts is never negative, and 0 where nothing is added.
LEMMA SumOfAmounts ==
  ASSUME NEW n \in Nat, NEW w \in [1 .. n -> Nat], NEW f, f[0] = 0,
         \A i \in 1 .. n : f[i] = f[i - 1] + w[i],
         NEW i \in 0 .. n
  PROVE  f[i] \in Nat /\ ((\A j \in 1 .. n : w[j] = 0) => f[i] = 0)
<1> DEFINE T == {k \in Nat : k <= n => f[k] \in Nat /\ ((\A j \in 1 .. n : w[j] = 0) => f[k] = 0)}
<1>1. 0 \in T
  OBVIOUS
<1>2. ASSUME NEW k \in Nat, k \in T PROVE k + 1 \in T
  <2>1. SUFFICES ASSUME k + 1 <= n
                 PROVE  f[k + 1] \in Nat /\ ((\A j \in 1 .. n : w[j] = 0) => f[k + 1] = 0)
    OBVIOUS
  <2>2. k + 1 \in 1 .. n /\ (k + 1) - 1 = k /\ f[k + 1] = f[k] + w[k + 1] /\ w[k + 1] \in Nat
    BY <2>1
  <2> QED BY <1>2, <2>1, <2>2
<1>3. i \in T
  <2>1. \A k \in Nat : k \in T => k + 1 \in T
    BY <1>2
  <2> HIDE DEF T
  <2>2. \A k \in Nat : k \in T
    BY <1>1, <2>1, SetInduction
  <2> QED BY <2>2
<1> QED BY <1>3

\* A claim is of one of the balances.
LEMMA ClaimsAreOfBalances ==
  ASSUME ClaimsTypeOK, NEW i \in Claims
  PROVE  /\ i \in 1 .. Len(ops) /\ ops[i].id \in Ids
         /\ ops[i].type = "claim_balance"
         /\ ledger[ops[i].id].amount \in Nat
         /\ IsPredicate(ledger[ops[i].id].predicate)
<1>1. i \in 1 .. Len(ops) /\ ops[i] \in Operation /\ ops[i].type = "claim_balance"
  BY DEF ClaimsTypeOK, Claims
<1>2. PICK id \in Ids : ops[i] = Claim(id)
  BY <1>1 DEF Operation, Pay
<1>3. ops[i].id = id
  BY <1>2 DEF Claim
<1>4. ledger[id] \in [exists : BOOLEAN, asset : {"fee", "other"}, amount : Amounts, predicate : Held]
  BY DEF ClaimsTypeOK
<1>5. ledger[id].amount \in Nat /\ ledger[id].predicate \in Held
  BY <1>4, ClaimsAssumption
<1>6. IsPredicate(ledger[id].predicate)
  BY <1>5, ClaimsAssumption DEF Held
<1> QED BY <1>1, <1>3, <1>5, <1>6

\* The sum the code runs up exists, and is that of its loop.
LEMMA ArrivingIs ==
  ASSUME ClaimsTypeOK
  PROVE  /\ Arriving[0] = 0
         /\ \A i \in 1 .. Len(ops) :
               Arriving[i] = Arriving[i - 1] + (IF i \in InFeeToken THEN ledger[ops[i].id].amount ELSE 0)
<1> DEFINE w == [i \in 1 .. Len(ops) |-> IF i \in InFeeToken THEN ledger[ops[i].id].amount ELSE 0]
           Eq(g) == g = [i \in 0 .. Len(ops) |->
                           IF i = 0 THEN 0
                           ELSE g[i - 1] + (IF i \in InFeeToken THEN ledger[ops[i].id].amount ELSE 0)]
<1>1. Len(ops) \in Nat /\ w \in [1 .. Len(ops) -> Nat]
  <2>1. Len(ops) \in Nat
    BY DEF ClaimsTypeOK
  <2> QED BY <2>1, ClaimsAreOfBalances DEF InFeeToken
<1>2. PICK f \in [0 .. Len(ops) -> Nat] :
         f[0] = 0 /\ \A i \in 1 .. Len(ops) : f[i] = f[i - 1] + w[i]
  <2> HIDE DEF w
  <2> QED BY <1>1, RunningSum
<1>3. Eq(f)
  BY <1>1, <1>2
<1>4. Arriving = CHOOSE g : Eq(g)
  BY DEF Arriving
<1>5. Eq(Arriving)
  <2> HIDE DEF Eq
  <2> QED BY <1>3, <1>4
<1> QED BY <1>1, <1>5

\* A tree of finite depth can be evaluated: whatever makes a node true of the
\* set of its true parts, there is a set of true nodes.
LEMMA Valuation ==
  ASSUME NEW p, NEW n \in Nat, NEW gate,
         \A s \in DOMAIN p : Len(s) \in Nat /\ Len(s) <= n
  PROVE  \E V : \A s \in DOMAIN p : s \in V <=> Parts(p, s) \cap V \in gate[s]
<1> DEFINE Fits(V, s) == s \in V <=> Parts(p, s) \cap V \in gate[s]
           Below(k, V) == \A s \in DOMAIN p : Len(s) + k > n => Fits(V, s)
           T == {k \in Nat : \E V : Below(k, V)}
<1>1. \A s \in DOMAIN p : \A r \in Parts(p, s) : r \in DOMAIN p /\ Len(r) = Len(s) + 1
  BY DEF Parts
<1>2. 0 \in T
  OBVIOUS
<1>3. ASSUME NEW k \in Nat, k \in T PROVE k + 1 \in T
  <2>1. PICK V : Below(k, V)
    BY <1>3
  <2> DEFINE W == {s \in DOMAIN p : IF Len(s) + k > n THEN s \in V ELSE Parts(p, s) \cap V \in gate[s]}
  <2>2. ASSUME NEW s \in DOMAIN p, Len(s) + (k + 1) > n PROVE Fits(W, s)
    <3>1. \A r \in Parts(p, s) : r \in DOMAIN p /\ Len(r) + k > n
      BY <1>1, <2>2
    <3>2. Parts(p, s) \cap W = Parts(p, s) \cap V
      BY <3>1
    <3>3. s \in W <=> Parts(p, s) \cap V \in gate[s]
      BY <2>1
    <3> QED BY <3>2, <3>3
  <2>3. Below(k + 1, W)
    BY <2>2
  <2> HIDE DEF W, Below
  <2> QED BY <2>3
<1>4. n + 1 \in T
  <2>1. \A k \in Nat : k \in T => k + 1 \in T
    BY <1>3
  <2> HIDE DEF T
  <2>2. \A k \in Nat : k \in T
    BY <1>2, <2>1, SetInduction
  <2> QED BY <2>2
<1>5. PICK V : Below(n + 1, V)
  BY <1>4
<1>6. \A s \in DOMAIN p : Fits(V, s)
  BY <1>5
<1> QED BY <1>6

\* What a node can say.
LEMMA NodeKinds ==
  ASSUME NEW p, IsPredicate(p), NEW s \in DOMAIN p
  PROVE  /\ Len(s) \in Nat /\ Len(s) <= MaxDepth
         /\ p[s].kind \in {"and", "or", "not", "unconditional", "abs_before", "rel_before"}
         /\ p[s].kind = "unconditional" => p[s].flag \in BOOLEAN
         /\ p[s].kind = "abs_before" => p[s].at \in Int
         /\ p[s].kind = "rel_before" => p[s].rel \in Int
<1>1. s \in Seq(Nat \ {0}) /\ Len(s) <= MaxDepth /\ p[s] \in Gate \cup Leaf
  BY DEF IsPredicate
<1>2. Len(s) \in Nat
  BY <1>1
<1> QED BY <1>1, <1>2 DEF Gate, Leaf

\* What a node comes to is true or false, and depends on its parts alone.
LEMMA NodeIsBoolean ==
  ASSUME NEW p, IsPredicate(p), NEW s \in DOMAIN p, NEW at, NEW t \in Int, NEW created \in Int
  PROVE  NodeHolds(p, s, at, t, created) \in BOOLEAN
<1>1. CASE Len(s) > Deepest
  BY <1>1 DEF NodeHolds
<1>2. CASE ~(Len(s) > Deepest)
  <2>1. CASE p[s].kind = "and"
    BY <1>2, <2>1 DEF NodeHolds
  <2>2. CASE p[s].kind = "or"
    BY <1>2, <2>2 DEF NodeHolds
  <2>3. CASE p[s].kind = "not"
    BY <1>2, <2>3 DEF NodeHolds
  <2>4. CASE p[s].kind = "unconditional"
    BY <1>2, <2>4, NodeKinds DEF NodeHolds
  <2>5. CASE p[s].kind = "abs_before"
    BY <1>2, <2>5, NodeKinds DEF NodeHolds
  <2>6. CASE p[s].kind = "rel_before"
    BY <1>2, <2>6, NodeKinds DEF NodeHolds
  <2> QED BY <2>1, <2>2, <2>3, <2>4, <2>5, <2>6, NodeKinds
<1> QED BY <1>1, <1>2

LEMMA NodeOfParts ==
  ASSUME NEW p, IsPredicate(p), NEW s \in DOMAIN p, NEW t \in Int, NEW created \in Int,
         NEW a, NEW b, \A r \in Parts(p, s) : a[r] = b[r]
  PROVE  NodeHolds(p, s, a, t, created) = NodeHolds(p, s, b, t, created)
<1>1. CASE Len(s) > Deepest
  BY <1>1 DEF NodeHolds
<1>2. CASE ~(Len(s) > Deepest)
  <2>1. CASE p[s].kind = "and"
    BY <1>2, <2>1 DEF NodeHolds
  <2>2. CASE p[s].kind = "or"
    BY <1>2, <2>2 DEF NodeHolds
  <2>3. CASE p[s].kind = "not"
    BY <1>2, <2>3 DEF NodeHolds
  <2>4. CASE p[s].kind = "unconditional"
    BY <1>2, <2>4 DEF NodeHolds
  <2>5. CASE p[s].kind = "abs_before"
    BY <1>2, <2>5 DEF NodeHolds
  <2>6. CASE p[s].kind = "rel_before"
    BY <1>2, <2>6 DEF NodeHolds
  <2> QED BY <2>1, <2>2, <2>3, <2>4, <2>5, <2>6, NodeKinds
<1> QED BY <1>1, <1>2

\* The code's evaluation gives every node what its parts make of it.
LEMMA HoldsAtIs ==
  ASSUME NEW p, IsPredicate(p), NEW t \in Int, NEW created \in Int
  PROVE  \A s \in DOMAIN p :
            /\ HoldsAt(p, t, created)[s] \in BOOLEAN
            /\ HoldsAt(p, t, created)[s] = NodeHolds(p, s, HoldsAt(p, t, created), t, created)
<1> DEFINE gate == [s \in DOMAIN p |->
                      {X \in SUBSET Parts(p, s) :
                         NodeHolds(p, s, [r \in Parts(p, s) |-> r \in X], t, created)}]
           Eq(f) == f = [s \in DOMAIN p |-> NodeHolds(p, s, f, t, created)]
<1>1. PICK V : \A s \in DOMAIN p : s \in V <=> Parts(p, s) \cap V \in gate[s]
  <2> HIDE DEF gate
  <2> QED BY NodeKinds, Valuation, ClaimsAssumption
<1> DEFINE f == [s \in DOMAIN p |-> s \in V]
<1>2. ASSUME NEW s \in DOMAIN p PROVE f[s] = NodeHolds(p, s, f, t, created)
  <2> DEFINE X == Parts(p, s) \cap V
             g == [r \in Parts(p, s) |-> r \in X]
  <2>1. f[s] <=> NodeHolds(p, s, g, t, created)
    BY <1>1
  <2>2. \A r \in Parts(p, s) : f[r] = g[r]
    BY DEF Parts
  <2> HIDE DEF f, g
  <2>3. NodeHolds(p, s, f, t, created) = NodeHolds(p, s, g, t, created)
    BY <2>2, NodeOfParts
  <2>4. NodeHolds(p, s, f, t, created) \in BOOLEAN
    BY NodeIsBoolean
  <2>5. f[s] \in BOOLEAN
    BY DEF f
  <2> QED BY <2>1, <2>3, <2>4, <2>5
<1>3. Eq(f)
  BY <1>2
<1>4. HoldsAt(p, t, created) = CHOOSE h : Eq(h)
  BY DEF HoldsAt
<1>5. Eq(HoldsAt(p, t, created))
  <2> HIDE DEF Eq
  <2> QED BY <1>3, <1>4
<1>6. \A s \in DOMAIN p :
         HoldsAt(p, t, created)[s] = NodeHolds(p, s, HoldsAt(p, t, created), t, created)
  BY <1>5
<1> QED BY <1>6, NodeIsBoolean

\* The same of the ledger's evaluation.
LEMMA LedgerNodeIsBoolean ==
  ASSUME NEW p, IsPredicate(p), NEW s \in DOMAIN p, NEW at, time \in Nat
  PROVE  NodeHoldsOnLedger(p, s, at) \in BOOLEAN
<1>1. CASE p[s].kind = "and"
  BY <1>1 DEF NodeHoldsOnLedger
<1>2. CASE p[s].kind = "or"
  BY <1>2 DEF NodeHoldsOnLedger
<1>3. CASE p[s].kind = "not"
  BY <1>3 DEF NodeHoldsOnLedger
<1>4. CASE p[s].kind = "unconditional"
  BY <1>4, NodeKinds DEF NodeHoldsOnLedger
<1>5. CASE p[s].kind = "abs_before"
  BY <1>5, NodeKinds DEF NodeHoldsOnLedger
<1>6. CASE p[s].kind = "rel_before"
  BY <1>6, NodeKinds DEF NodeHoldsOnLedger, Created
<1> QED BY <1>1, <1>2, <1>3, <1>4, <1>5, <1>6, NodeKinds

LEMMA LedgerNodeOfParts ==
  ASSUME NEW p, IsPredicate(p), NEW s \in DOMAIN p, NEW a, NEW b, time \in Nat,
         \A r \in Parts(p, s) : a[r] = b[r]
  PROVE  NodeHoldsOnLedger(p, s, a) = NodeHoldsOnLedger(p, s, b)
<1>1. CASE p[s].kind = "and"
  BY <1>1 DEF NodeHoldsOnLedger
<1>2. CASE p[s].kind = "or"
  BY <1>2 DEF NodeHoldsOnLedger
<1>3. CASE p[s].kind = "not"
  BY <1>3 DEF NodeHoldsOnLedger
<1>4. CASE p[s].kind \in {"unconditional", "abs_before", "rel_before"}
  BY <1>4 DEF NodeHoldsOnLedger
<1> QED BY <1>1, <1>2, <1>3, <1>4, NodeKinds

LEMMA HoldsOnLedgerIs ==
  ASSUME NEW p, IsPredicate(p), time \in Nat
  PROVE  \A s \in DOMAIN p :
            /\ HoldsOnLedger(p)[s] \in BOOLEAN
            /\ HoldsOnLedger(p)[s] = NodeHoldsOnLedger(p, s, HoldsOnLedger(p))
<1> DEFINE gate == [s \in DOMAIN p |->
                      {X \in SUBSET Parts(p, s) :
                         NodeHoldsOnLedger(p, s, [r \in Parts(p, s) |-> r \in X])}]
           Eq(f) == f = [s \in DOMAIN p |-> NodeHoldsOnLedger(p, s, f)]
<1>1. PICK V : \A s \in DOMAIN p : s \in V <=> Parts(p, s) \cap V \in gate[s]
  <2> HIDE DEF gate
  <2> QED BY NodeKinds, Valuation, ClaimsAssumption
<1> DEFINE f == [s \in DOMAIN p |-> s \in V]
<1>2. ASSUME NEW s \in DOMAIN p PROVE f[s] = NodeHoldsOnLedger(p, s, f)
  <2> DEFINE X == Parts(p, s) \cap V
             g == [r \in Parts(p, s) |-> r \in X]
  <2>1. f[s] <=> NodeHoldsOnLedger(p, s, g)
    BY <1>1
  <2>2. \A r \in Parts(p, s) : f[r] = g[r]
    BY DEF Parts
  <2> HIDE DEF f, g
  <2>3. NodeHoldsOnLedger(p, s, f) = NodeHoldsOnLedger(p, s, g)
    BY <2>2, LedgerNodeOfParts
  <2>4. NodeHoldsOnLedger(p, s, f) \in BOOLEAN
    BY LedgerNodeIsBoolean
  <2>5. f[s] \in BOOLEAN
    BY DEF f
  <2> QED BY <2>1, <2>3, <2>4, <2>5
<1>3. Eq(f)
  BY <1>2
<1>4. HoldsOnLedger(p) = CHOOSE h : Eq(h)
  BY DEF HoldsOnLedger
<1>5. Eq(HoldsOnLedger(p))
  <2> HIDE DEF Eq
  <2> QED BY <1>3, <1>4
<1>6. \A s \in DOMAIN p : HoldsOnLedger(p)[s] = NodeHoldsOnLedger(p, s, HoldsOnLedger(p))
  BY <1>5
<1> QED BY <1>6, LedgerNodeIsBoolean

\* The creation time that Horizon gives away.
CreatedShown == IF shown THEN Created ELSE Unknown

\* A node the code can place comes to what the ledger makes of it, if its parts do.
LEMMA PlacedNode ==
  ASSUME NEW p, IsPredicate(p), Placed(p), NEW s \in DOMAIN p, NEW a, NEW b,
         time \in Nat, shown \in BOOLEAN, \A r \in Parts(p, s) : a[r] = b[r]
  PROVE  NodeHolds(p, s, a, time, CreatedShown) = NodeHoldsOnLedger(p, s, b)
<1>1. /\ ~(Len(s) > Deepest)
      /\ p[s].kind \in {"and", "or"} => Cardinality(Parts(p, s)) = 2
      /\ shown \/ p[s].kind # "rel_before"
  BY NodeKinds DEF Placed, OnLedger, Deepest
<1>2. CASE p[s].kind = "and"
  BY <1>1, <1>2 DEF NodeHolds, NodeHoldsOnLedger
<1>3. CASE p[s].kind = "or"
  BY <1>1, <1>3 DEF NodeHolds, NodeHoldsOnLedger
<1>4. CASE p[s].kind = "not"
  BY <1>1, <1>4 DEF NodeHolds, NodeHoldsOnLedger
<1>5. CASE p[s].kind \in {"unconditional", "abs_before"}
  BY <1>1, <1>5 DEF NodeHolds, NodeHoldsOnLedger
<1>6. CASE p[s].kind = "rel_before"
  BY <1>1, <1>6 DEF NodeHolds, NodeHoldsOnLedger, CreatedShown, Created, Unknown
<1> QED BY <1>2, <1>3, <1>4, <1>5, <1>6, NodeKinds

\* A node of a tree without `not` comes to true only where the ledger makes it
\* so, if its parts do.
LEMMA MonotoneNode ==
  ASSUME NEW p, IsPredicate(p), Monotone(p), NEW s \in DOMAIN p, NEW a, NEW b,
         time \in Nat, shown \in BOOLEAN, \A r \in Parts(p, s) : a[r] => b[r],
         NodeHolds(p, s, a, time, CreatedShown)
  PROVE  NodeHoldsOnLedger(p, s, b)
<1>1. p[s].kind # "not" /\ ~(Len(s) > Deepest)
  BY DEF Monotone, NodeHolds
<1>2. CASE p[s].kind = "and"
  BY <1>1, <1>2 DEF NodeHolds, NodeHoldsOnLedger
<1>3. CASE p[s].kind = "or"
  BY <1>1, <1>3 DEF NodeHolds, NodeHoldsOnLedger
<1>4. CASE p[s].kind \in {"unconditional", "abs_before"}
  BY <1>1, <1>4 DEF NodeHolds, NodeHoldsOnLedger
<1>5. CASE p[s].kind = "rel_before"
  BY <1>1, <1>5 DEF NodeHolds, NodeHoldsOnLedger, CreatedShown, Created, Unknown
<1> QED BY <1>1, <1>2, <1>3, <1>4, <1>5, NodeKinds

\* The evaluation of predicate.rs is the ledger's, at every node of a tree that
\* the ledger can hold and whose deadlines can be placed, whatever its shape.
THEOREM EvaluationAgrees ==
  ASSUME NEW p, IsPredicate(p), Placed(p), time \in Nat, shown \in BOOLEAN
  PROVE  \A s \in DOMAIN p : HoldsAt(p, time, CreatedShown)[s] = HoldsOnLedger(p)[s]
<1> DEFINE a == HoldsAt(p, time, CreatedShown)
           b == HoldsOnLedger(p)
           Agree(k) == \A s \in DOMAIN p : Len(s) + k > MaxDepth => a[s] = b[s]
           T == {k \in Nat : Agree(k)}
<1>1. \A s \in DOMAIN p : a[s] = NodeHolds(p, s, a, time, CreatedShown)
  BY HoldsAtIs DEF CreatedShown, Created, Unknown
<1>2. \A s \in DOMAIN p : b[s] = NodeHoldsOnLedger(p, s, b)
  BY HoldsOnLedgerIs
<1> HIDE DEF a, b
<1>3. \A s \in DOMAIN p : /\ Len(s) \in Nat /\ Len(s) <= MaxDepth
                          /\ \A r \in Parts(p, s) : r \in DOMAIN p /\ Len(r) = Len(s) + 1
  BY NodeKinds DEF Parts
<1>4. 0 \in T
  BY <1>3, ClaimsAssumption
<1>5. ASSUME NEW k \in Nat, k \in T PROVE k + 1 \in T
  <2>1. SUFFICES ASSUME NEW s \in DOMAIN p, Len(s) + (k + 1) > MaxDepth PROVE a[s] = b[s]
    OBVIOUS
  <2>2. \A r \in Parts(p, s) : a[r] = b[r]
    BY <1>3, <1>5, <2>1, ClaimsAssumption
  <2>3. NodeHolds(p, s, a, time, CreatedShown) = NodeHoldsOnLedger(p, s, b)
    BY <2>2, PlacedNode
  <2> QED BY <1>1, <1>2, <2>3
<1>6. MaxDepth + 1 \in T
  <2>1. \A k \in Nat : k \in T => k + 1 \in T
    BY <1>5
  <2> HIDE DEF T
  <2>2. \A k \in Nat : k \in T
    BY <1>4, <2>1, SetInduction
  <2> QED BY <2>2, ClaimsAssumption
<1>7. Agree(MaxDepth + 1)
  BY <1>6
<1> QED BY <1>3, <1>7, ClaimsAssumption DEF a, b

\* Without `not`, what predicate.rs cannot tell is never taken for true: a tree of
\* any depth and shape that it finds open is open on the ledger.
THEOREM EvaluationFailsClosed ==
  ASSUME NEW p, IsPredicate(p), Monotone(p), time \in Nat, shown \in BOOLEAN
  PROVE  \A s \in DOMAIN p : HoldsAt(p, time, CreatedShown)[s] => HoldsOnLedger(p)[s]
<1> DEFINE a == HoldsAt(p, time, CreatedShown)
           b == HoldsOnLedger(p)
           Agree(k) == \A s \in DOMAIN p : Len(s) + k > MaxDepth => (a[s] => b[s])
           T == {k \in Nat : Agree(k)}
<1>1. \A s \in DOMAIN p : a[s] = NodeHolds(p, s, a, time, CreatedShown)
  BY HoldsAtIs DEF CreatedShown, Created, Unknown
<1>2. \A s \in DOMAIN p : b[s] = NodeHoldsOnLedger(p, s, b)
  BY HoldsOnLedgerIs
<1> HIDE DEF a, b
<1>3. \A s \in DOMAIN p : /\ Len(s) \in Nat /\ Len(s) <= MaxDepth
                          /\ \A r \in Parts(p, s) : r \in DOMAIN p /\ Len(r) = Len(s) + 1
  BY NodeKinds DEF Parts
<1>4. 0 \in T
  BY <1>3, ClaimsAssumption
<1>5. ASSUME NEW k \in Nat, k \in T PROVE k + 1 \in T
  <2>1. SUFFICES ASSUME NEW s \in DOMAIN p, Len(s) + (k + 1) > MaxDepth, a[s] PROVE b[s]
    OBVIOUS
  <2>2. \A r \in Parts(p, s) : a[r] => b[r]
    BY <1>3, <1>5, <2>1, ClaimsAssumption
  <2>3. NodeHoldsOnLedger(p, s, b)
    BY <1>1, <2>1, <2>2, MonotoneNode
  <2> QED BY <1>2, <2>3
<1>6. MaxDepth + 1 \in T
  <2>1. \A k \in Nat : k \in T => k + 1 \in T
    BY <1>5
  <2> HIDE DEF T
  <2>2. \A k \in Nat : k \in T
    BY <1>4, <2>1, SetInduction
  <2> QED BY <2>2, ClaimsAssumption
<1>7. Agree(MaxDepth + 1)
  BY <1>6
<1> QED BY <1>3, <1>7, ClaimsAssumption DEF a, b

\* The verdict speaks of nothing but the request, the balances and the clock.
LEMMA EnsureIsOfTheWorld ==
  ASSUME ops' = ops, ledger' = ledger, mode' = mode, time' = time, shown' = shown
  PROVE  /\ need' = need => (EnsureClaims(need)' <=> EnsureClaims(need))
         /\ EnsureClaims(need)' <=> EnsureClaims(need')
         /\ Claims' = Claims
<1>1. Claims' = Claims
  BY DEF Claims
<1>2. InFeeToken' = InFeeToken
  BY <1>1 DEF InFeeToken
<1>3. Payable' = Payable
  BY <1>2 DEF Payable, Arriving
<1>4. ASSUME NEW id PROVE ClaimableBy(id)' = ClaimableBy(id)
  BY DEF ClaimableBy
<1>5. EnsureClaims(need)' <=> EnsureClaims(need')
  BY <1>1, <1>2, <1>3, <1>4 DEF EnsureClaims, Covers
<1> QED BY <1>1, <1>5

\* Before anything is asked of Horizon there is no verdict to be wrong.
THEOREM ClaimsInvInit == ClaimsInit => ClaimsInv
<1>1. SUFFICES ASSUME ClaimsInit PROVE ClaimsInv
  OBVIOUS
<1>2. ops \in Seq(Operation)
  BY <1>1 DEF ClaimsInit
<1>3. ledger \in [Ids -> [exists : BOOLEAN, asset : {"fee", "other"}, amount : Amounts, predicate : Held]]
  <2>1. PICK asset \in [Ids -> {"fee", "other"}], amount \in [Ids -> Amounts], f \in Predicates :
           ledger = [id \in Ids |-> [exists |-> TRUE, asset |-> asset[id], amount |-> amount[id],
                                     predicate |-> f[id]]]
    BY <1>1 DEF ClaimsInit
  <2>2. \A id \in Ids : f[id] \in Held
    BY DEF Held
  <2> QED BY <2>1, <2>2
<1>4. ClaimsTypeOK
  BY <1>1, <1>2, <1>3 DEF ClaimsInit, ClaimsTypeOK, Created
<1>5. NewAccountClaims /\ Verdict
  BY <1>1 DEF ClaimsInit, NewAccountClaims, Verdict
<1> QED BY <1>4, <1>5 DEF ClaimsInv

\* Quoting and submitting (ensure_claims) give the verdict of what they see; once
\* it is given, neither the clock nor the balances move before the ledger looks.
THEOREM ClaimsInvStep == ClaimsInv /\ [ClaimsNext]_claimsVars => ClaimsInv'
<1>1. SUFFICES ASSUME ClaimsInv, [ClaimsNext]_claimsVars PROVE ClaimsInv'
  OBVIOUS
<1>2. ClaimsTypeOK /\ NewAccountClaims /\ Verdict
  BY <1>1 DEF ClaimsInv
<1>3. ASSUME NEW sendMax \in SendMaxes, Quote(sendMax) PROVE ClaimsInv'
  <2>1. ClaimsTypeOK'
    BY <1>2, <1>3 DEF Quote, ClaimsTypeOK, NeedFor
  <2>2. NewAccountClaims'
    BY <1>2, <1>3, EnsureIsOfTheWorld DEF Quote, NewAccountClaims, NeedFor
  <2>3. Verdict'
    BY <1>3, EnsureIsOfTheWorld DEF Quote, Verdict
  <2> QED BY <2>1, <2>2, <2>3 DEF ClaimsInv
<1>4. CASE Submit
  <2>1. ClaimsTypeOK'
    BY <1>2, <1>4 DEF Submit, ClaimsTypeOK
  <2>2. NewAccountClaims'
    BY <1>2, <1>4, EnsureIsOfTheWorld DEF Submit, NewAccountClaims
  <2>3. Verdict'
    BY <1>4, EnsureIsOfTheWorld DEF Submit, Verdict
  <2> QED BY <2>1, <2>2, <2>3 DEF ClaimsInv
<1>5. ASSUME NEW id \in Ids, Vanish(id) PROVE ClaimsInv'
  <2>1. ClaimsTypeOK'
    BY <1>2, <1>5 DEF Vanish, ClaimsTypeOK
  <2>2. NewAccountClaims'
    BY <1>2, <1>5 DEF Vanish, NewAccountClaims, Claims
  <2>3. Verdict'
    BY <1>5 DEF Vanish, Verdict
  <2> QED BY <2>1, <2>2, <2>3 DEF ClaimsInv
<1>6. CASE Elapse
  <2>1. ClaimsTypeOK'
    BY <1>2, <1>6 DEF Elapse, ClaimsTypeOK
  <2>2. NewAccountClaims'
    BY <1>2, <1>6 DEF Elapse, NewAccountClaims, Claims
  <2>3. Verdict'
    BY <1>6 DEF Elapse, Verdict
  <2> QED BY <2>1, <2>2, <2>3 DEF ClaimsInv
<1>7. CASE UNCHANGED claimsVars
  <2>1. ClaimsTypeOK'
    BY <1>2, <1>7 DEF claimsVars, ClaimsTypeOK
  <2>2. NewAccountClaims' /\ Verdict'
    BY <1>2, <1>7, EnsureIsOfTheWorld DEF claimsVars, NewAccountClaims, Verdict
  <2> QED BY <2>1, <2>2 DEF ClaimsInv
<1> QED BY <1>1, <1>3, <1>4, <1>5, <1>6, <1>7 DEF ClaimsNext

\* The invariant holds of the specification.
THEOREM ClaimsAreTyped == ClaimsSpec => []ClaimsInv
BY ClaimsInvInit, ClaimsInvStep, PTL DEF ClaimsSpec

\* What has been added up, and what it leaves after the payments.
LEMMA SumsOfClaims ==
  ASSUME ClaimsTypeOK, NEW i \in 0 .. Len(ops)
  PROVE  /\ Arriving[i] \in Nat
         /\ InFeeToken = {} => Arriving[i] = 0
         /\ Purse(i) <= Arriving[i] /\ Purse(i) \in Int
         /\ (\A j \in DOMAIN ops : ops[j] # Pay) => Purse(i) = Arriving[i]
<1> DEFINE w == [j \in 1 .. Len(ops) |-> IF j \in InFeeToken THEN ledger[ops[j].id].amount ELSE 0]
           Paid == {j \in 1 .. i : ops[j].type = "payment"}
<1>1. Len(ops) \in Nat /\ DOMAIN ops = 1 .. Len(ops) /\ \A j \in DOMAIN ops : ops[j] \in Operation
  BY DEF ClaimsTypeOK
<1>2. w \in [1 .. Len(ops) -> Nat]
  BY ClaimsAreOfBalances DEF InFeeToken
<1>3. Arriving[0] = 0 /\ \A j \in 1 .. Len(ops) : Arriving[j] = Arriving[j - 1] + w[j]
  BY ArrivingIs
<1>4. Arriving[i] \in Nat /\ ((\A j \in 1 .. Len(ops) : w[j] = 0) => Arriving[i] = 0)
  <2> HIDE DEF w
  <2> QED BY <1>1, <1>2, <1>3, SumOfAmounts
<1>5. InFeeToken = {} => Arriving[i] = 0
  BY <1>4
<1>6. IsFiniteSet(Paid) /\ Cardinality(Paid) \in Nat
  <2>1. Paid \subseteq 1 .. i /\ IsFiniteSet(1 .. i)
    BY FS_Interval
  <2> HIDE DEF Paid
  <2>2. IsFiniteSet(Paid)
    BY <2>1, FS_Subset
  <2> QED BY <2>2, FS_CardinalityType
<1>7. Purse(i) = Arriving[i] - Cardinality(Paid)
  BY DEF Purse
<1>8. ASSUME \A j \in DOMAIN ops : ops[j] # Pay PROVE Cardinality(Paid) = 0
  <2>1. \A j \in DOMAIN ops : ops[j].type # "payment"
    BY <1>1, <1>8 DEF Operation, Claim
  <2>2. Paid = {}
    BY <1>1, <2>1
  <2> QED BY <2>2, FS_EmptySet
<1> HIDE DEF Paid
<1> QED BY <1>4, <1>5, <1>6, <1>7, <1>8

\* What is claimable for the code is what is open on the ledger, as far as the
\* code can tell; and no more than that without `not`.
LEMMA Claimable ==
  ASSUME ClaimsTypeOK, NEW i \in Claims
  PROVE  LET p == ledger[ops[i].id].predicate
         IN  /\ Placed(p) => (ClaimableBy(ops[i].id) <=> HoldsOnLedger(p)[Root])
             /\ Monotone(p) /\ ClaimableBy(ops[i].id) => HoldsOnLedger(p)[Root]
<1> DEFINE p == ledger[ops[i].id].predicate
<1>1. IsPredicate(p) /\ Root \in DOMAIN p
  BY ClaimsAreOfBalances DEF IsPredicate
<1>2. time \in Nat /\ shown \in BOOLEAN
  BY DEF ClaimsTypeOK
<1>3. ClaimableBy(ops[i].id) = HoldsAt(p, time, CreatedShown)[Root]
  BY DEF ClaimableBy, CreatedShown
<1> HIDE DEF p
<1>4. Placed(p) => HoldsAt(p, time, CreatedShown)[Root] = HoldsOnLedger(p)[Root]
  BY <1>1, <1>2, EvaluationAgrees
<1>5. Monotone(p) /\ HoldsAt(p, time, CreatedShown)[Root] => HoldsOnLedger(p)[Root]
  BY <1>1, <1>2, EvaluationFailsClosed
<1> QED BY <1>3, <1>4, <1>5 DEF p

\* What is cleared applies (ClearedApplies), for any predicates, balances, amounts
\* and requests.
THEOREM ClearedOperationsApply == ClaimsSpec => []ClearedApplies
<1>1. ASSUME ClaimsInv PROVE ClearedApplies
  <2>1. SUFFICES ASSUME phase = "cleared", FailsClosed, \A i \in DOMAIN ops : ops[i] # Pay,
                        \A i, j \in Claims : ops[i] = ops[j] => i = j
                 PROVE  Applies
    BY DEF ClearedApplies
  <2>2. ClaimsTypeOK /\ NewAccountClaims /\ EnsureClaims(need)
    BY <1>1, <2>1 DEF ClaimsInv, Verdict
  <2>3. ASSUME NEW i \in Claims
        PROVE  ledger[ops[i].id].exists /\ HoldsOnLedger(ledger[ops[i].id].predicate)[Root]
    <3>1. ledger[ops[i].id].exists /\ ClaimableBy(ops[i].id)
      BY <2>2 DEF EnsureClaims
    <3>2. Placed(ledger[ops[i].id].predicate) \/ Monotone(ledger[ops[i].id].predicate)
      BY <2>1 DEF FailsClosed
    <3> QED BY <2>2, <3>1, <3>2, Claimable
  <2>4. ASSUME need # NoNeed
        PROVE  (\A i \in DOMAIN ops : Purse(i) >= 0) /\ Purse(Len(ops)) >= need
    <3>1. InFeeToken # {} /\ Payable >= need
      BY <2>2, <2>4 DEF EnsureClaims, Covers, NewAccountClaims
    <3>2. Len(ops) \in Nat /\ DOMAIN ops = 1 .. Len(ops)
      BY <2>2 DEF ClaimsTypeOK
    <3>3. \A i \in 0 .. Len(ops) : Purse(i) = Arriving[i] /\ Arriving[i] \in Nat
      BY <2>1, <2>2, SumsOfClaims
    <3> QED BY <3>1, <3>2, <3>3 DEF Payable
  <2> QED BY <2>1, <2>3, <2>4 DEF Applies
<1> QED BY <1>1, ClaimsAreTyped, PTL

\* Nobody is turned away whose operations would have applied (RefusedFails), for
\* any predicates, balances, amounts and requests.
THEOREM RefusedOperationsFail == ClaimsSpec => []RefusedFails
<1>1. ASSUME ClaimsInv PROVE RefusedFails
  <2>1. SUFFICES ASSUME phase = "refused", Readable, Applies PROVE FALSE
    BY DEF RefusedFails
  <2>2. ClaimsTypeOK /\ ~EnsureClaims(need)
    BY <1>1, <2>1 DEF ClaimsInv, Verdict
  <2>3. ASSUME NEW i \in Claims PROVE ledger[ops[i].id].exists /\ ClaimableBy(ops[i].id)
    <3>1. ledger[ops[i].id].exists /\ HoldsOnLedger(ledger[ops[i].id].predicate)[Root]
      BY <2>1 DEF Applies
    <3>2. Placed(ledger[ops[i].id].predicate)
      BY <2>1 DEF Readable
    <3> QED BY <2>2, <3>1, <3>2, Claimable
  <2>4. need # NoNeed /\ ~Covers(need)
    BY <2>2, <2>3 DEF EnsureClaims, Covers
  <2>5. need \in Nat /\ need > 0
    BY <2>2, <2>4, ClaimsAssumption DEF ClaimsTypeOK, NoNeed
  <2>6. Len(ops) \in Nat /\ Purse(Len(ops)) >= need
    BY <2>1, <2>2, <2>4 DEF Applies, ClaimsTypeOK
  <2>7. /\ Payable \in Nat /\ (InFeeToken = {} => Payable = 0)
        /\ Purse(Len(ops)) <= Payable /\ Purse(Len(ops)) \in Int
    <3>1. Len(ops) \in 0 .. Len(ops)
      BY <2>6
    <3> QED BY <2>2, <3>1, SumsOfClaims DEF Payable
  <2>8. InFeeToken # {} /\ Payable >= need
    BY <2>5, <2>6, <2>7
  <2> QED BY <2>4, <2>8 DEF Covers
<1> QED BY <1>1, ClaimsAreTyped, PTL
=============================================================================
