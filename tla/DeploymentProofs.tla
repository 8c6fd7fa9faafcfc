-------------------------- MODULE DeploymentProofs --------------------------
(***************************************************************************)
(* Proofs about Deployment, for any accounts, keys, tokens and settings    *)
(* and any number of starts: each thing handed out is right by what the    *)
(* process that made it had read, and what it had read passed the start.   *)
(***************************************************************************)
EXTENDS Deployment, TLAPS

\* A process that runs was started with settings that are none of the errors.
RunsOnGoodSettings == loaded # Unset => loaded \in Environment /\ ~BootFails(loaded)

\* A channel that is named is not the sponsor.
QuotesAreMade ==
    \A q \in quotes : /\ q.mode \in {"sponsored", "bootstrap"} /\ q.opens \in BOOLEAN
                      /\ q.channel # Unset => q.channel # q.sponsor

KeysAreIssued == \A k \in issued : k.issuer \in IssuerKey

DeploymentInv ==
    /\ RunsOnGoodSettings
    /\ QuotesAreMade
    /\ KeysAreIssued
    /\ FeeTokenWasChosen
    /\ SignedAsQuoted

\* The settings of a network that is served without a prefix are asked for by
\* RESERVE_NETWORK.
LEMMA EntriesAreAsked ==
  ASSUME NEW e, NEW slug \in Served(e)
  PROVE  Entries(e, slug) \subseteq AskedFor(e, slug)
<1>1. CASE Prefixed(e) # {}
  BY <1>1 DEF Entries, PrefixOf, AskedFor
<1>2. CASE Prefixed(e) = {}
  <2>1. slug = (IF e.network = Unset THEN "testnet" ELSE e.network)
    BY <1>2 DEF Served
  <2>2. Entries(e, slug) = e.tokens["legacy"]
    BY <1>2 DEF Entries, PrefixOf
  <2> QED BY <2>1, <2>2 DEF AskedFor
<1> QED BY <1>1, <1>2

\* What a running process takes on mainnet was checked or asked for there.
LEMMA TakesWhatWasChosen ==
  ASSUME RunsOnGoodSettings, loaded # Unset, "mainnet" \in Served(loaded),
         NEW token \in Token, Allows(Entries(loaded, "mainnet"), "mainnet", token)
  PROVE  \/ token \in KnownTokens("mainnet")
         \/ token \in AskedFor(loaded, "mainnet") \ {Wildcard}
<1>1. Entries(loaded, "mainnet") # {Wildcard}
  BY DEF RunsOnGoodSettings, BootFails, LaneFails
<1>2. CASE token \in Entries(loaded, "mainnet")
  <2>1. token \in AskedFor(loaded, "mainnet")
    BY <1>2, EntriesAreAsked
  <2> QED BY <2>1, DeploymentAssumption
<1>3. CASE token = "native"
  BY <1>3 DEF KnownTokens
<1> QED BY <1>1, <1>2, <1>3 DEF Allows

LEMMA QuoteKeeps ==
  ASSUME DeploymentInv, NEW path, NEW slug \in Slug, NEW mode \in {"sponsored", "bootstrap"},
         NEW token \in Token, NEW opens \in BOOLEAN, Quote(path, slug, mode, token, opens)
  PROVE  DeploymentInv'
<1>1. PICK lane \in Lanes(loaded, slug) :
          quotes' = quotes \cup
              {[network |-> slug, mode |-> mode, opens |-> opens, sponsor |-> SponsorOf(loaded, slug),
                channel |-> IF mode = "sponsored" \/ lane = SponsorOf(loaded, slug) THEN Unset ELSE lane,
                token |-> token, key |-> Read(loaded.quoteKey), asked |-> AskedFor(loaded, slug)]}
  BY DEF Quote
<1>2. loaded # Unset /\ slug \in Served(loaded) /\ Allows(Entries(loaded, slug), slug, token)
  BY DEF Quote, Reached
<1>3. PICK new : new =
          [network |-> slug, mode |-> mode, opens |-> opens, sponsor |-> SponsorOf(loaded, slug),
           channel |-> IF mode = "sponsored" \/ lane = SponsorOf(loaded, slug) THEN Unset ELSE lane,
           token |-> token, key |-> Read(loaded.quoteKey), asked |-> AskedFor(loaded, slug)]
  OBVIOUS
<1>4. new.network = slug /\ new.mode = mode /\ new.token = token /\ new.asked = AskedFor(loaded, slug)
  BY <1>3
<1>5. \A q \in quotes' : q \in quotes \/ q = new
  BY <1>1, <1>3
<1>6. new.network = "mainnet" =>
          new.token \in KnownTokens("mainnet") \/ new.token \in new.asked \ {Wildcard}
  BY <1>2, <1>4, TakesWhatWasChosen DEF DeploymentInv
<1>7. FeeTokenWasChosen'
  BY <1>5, <1>6 DEF DeploymentInv, FeeTokenWasChosen, KnownTokens
<1>8. QuotesAreMade'
  <2>1. new.opens = opens /\ (new.channel # Unset => new.channel # new.sponsor)
    BY <1>3
  <2> QED BY <1>4, <1>5, <2>1 DEF DeploymentInv, QuotesAreMade
<1>9. UNCHANGED <<loaded, issued, sent>>
  BY DEF Quote
<1> QED BY <1>7, <1>8, <1>9 DEF DeploymentInv, RunsOnGoodSettings, KeysAreIssued, SignedAsQuoted

LEMMA IssueKeyKeeps ==
  ASSUME DeploymentInv, NEW path, NEW slug \in Slug, IssueKey(path, slug)
  PROVE  DeploymentInv'
<1>1. loaded # Unset /\ Read(loaded.issuer) # Unset
  BY DEF IssueKey, Reached
<1>2. Read(loaded.issuer) \in IssuerKey
  BY <1>1 DEF DeploymentInv, RunsOnGoodSettings, BootFails, SharedFails
<1>3. KeysAreIssued'
  BY <1>2 DEF DeploymentInv, KeysAreIssued, IssueKey
<1> QED BY <1>3 DEF IssueKey, DeploymentInv, RunsOnGoodSettings, QuotesAreMade, FeeTokenWasChosen, SignedAsQuoted

\* sign_bootstrap: a sponsor that has not changed signs and pays, with the lane;
\* and where the sponsor's signature is needed and there, it has not changed.
LEMMA SubmitSigns ==
  ASSUME NEW q, q.mode \in {"sponsored", "bootstrap"}, q.opens \in BOOLEAN,
         q.channel # Unset => q.channel # q.sponsor, NEW slug, KnownChannel(q, slug)
  PROVE  /\ SponsorOf(loaded, slug) = q.sponsor =>
                /\ Payer(q, slug) = q.sponsor
                /\ NeededSigners(q) \ SignedBy(q, slug) = IF SponsorMissing(q) THEN {q.sponsor} ELSE {}
                /\ SignedBy(q, slug) \ NeededSigners(q) = IF SponsorUnasked(q) THEN {q.sponsor} ELSE {}
         /\ q.mode = "bootstrap" /\ q.opens /\ NeededSigners(q) \subseteq SignedBy(q, slug) =>
                Payer(q, slug) = q.sponsor
<1>1. CASE q.mode = "sponsored"
  BY <1>1 DEF NeededSigners, SignedBy, Payer, SponsorMissing, SponsorUnasked
<1>2. CASE q.mode = "bootstrap"
  <2>1. ASSUME SponsorOf(loaded, slug) = q.sponsor
        PROVE  /\ Payer(q, slug) = q.sponsor
               /\ NeededSigners(q) \ SignedBy(q, slug) = IF SponsorMissing(q) THEN {q.sponsor} ELSE {}
               /\ SignedBy(q, slug) \ NeededSigners(q) = IF SponsorUnasked(q) THEN {q.sponsor} ELSE {}
    <3>1. SignedBy(q, slug) = {q.sponsor, TxSource(q)}
      BY <1>2, <2>1 DEF SignedBy, KnownChannel
    <3>2. NeededSigners(q) = {TxSource(q)} \cup (IF q.opens THEN {q.sponsor} ELSE {})
      BY <1>2 DEF NeededSigners
    <3>3. q.channel # Unset => q.sponsor # TxSource(q)
      BY DEF TxSource
    <3>4. q.channel = Unset => q.sponsor = TxSource(q)
      BY DEF TxSource
    <3>5. Payer(q, slug) = q.sponsor
      BY <2>1 DEF Payer
    <3>6. ~SponsorMissing(q) /\ (SponsorUnasked(q) <=> ~q.opens /\ q.channel # Unset)
      BY <1>2 DEF SponsorMissing, SponsorUnasked
    <3> QED BY <3>1, <3>2, <3>3, <3>4, <3>5, <3>6
  <2>2. ASSUME q.opens, NeededSigners(q) \subseteq SignedBy(q, slug)
        PROVE  Payer(q, slug) = q.sponsor
    <3>1. q.sponsor \in SignedBy(q, slug)
      BY <2>2 DEF NeededSigners
    <3>2. q.sponsor = SponsorOf(loaded, slug)
      BY <1>2, <3>1 DEF SignedBy
    <3> QED BY <3>2 DEF Payer
  <2> QED BY <1>2, <2>1, <2>2
<1> QED BY <1>1, <1>2

LEMMA SubmitKeeps ==
  ASSUME DeploymentInv, NEW path, NEW slug \in Slug, NEW q \in quotes, SubmitQuote(path, slug, q)
  PROVE  DeploymentInv'
<1>1. /\ q.mode \in {"sponsored", "bootstrap"} /\ q.opens \in BOOLEAN /\ KnownChannel(q, slug)
      /\ q.channel # Unset => q.channel # q.sponsor
  BY DEF DeploymentInv, QuotesAreMade, SubmitQuote
<1>2. PICK new : new =
          [quote |-> q, at |-> slug, signers |-> SignedBy(q, slug),
           payer |-> Payer(q, slug), sponsor |-> SponsorOf(loaded, slug)]
  OBVIOUS
<1>3. new.quote = q /\ new.signers = SignedBy(q, slug) /\ new.payer = Payer(q, slug)
      /\ new.sponsor = SponsorOf(loaded, slug)
  BY <1>2
<1>4. \A t \in sent' : t \in sent \/ t = new
  BY <1>2 DEF SubmitQuote
<1>5. /\ new.sponsor = new.quote.sponsor =>
             /\ new.payer = new.quote.sponsor
             /\ NeededSigners(new.quote) \ new.signers =
                    IF SponsorMissing(new.quote) THEN {new.quote.sponsor} ELSE {}
             /\ new.signers \ NeededSigners(new.quote) =
                    IF SponsorUnasked(new.quote) THEN {new.quote.sponsor} ELSE {}
      /\ new.quote.mode = "bootstrap" /\ new.quote.opens
             /\ NeededSigners(new.quote) \subseteq new.signers =>
         new.payer = new.quote.sponsor
  BY <1>1, <1>3, SubmitSigns
<1>6. SignedAsQuoted'
  <2>1. SignedAsQuoted
    BY DEF DeploymentInv
  <2> QED BY <1>4, <1>5, <2>1 DEF SignedAsQuoted
<1> QED BY <1>6 DEF SubmitQuote, DeploymentInv, RunsOnGoodSettings, QuotesAreMade, FeeTokenWasChosen, KeysAreIssued

LEMMA StartStopKeeps ==
  ASSUME DeploymentInv, (\E e \in Environment : Start(e)) \/ Stop \/ UNCHANGED vars
  PROVE  DeploymentInv'
<1>1. RunsOnGoodSettings'
  BY DEF DeploymentInv, RunsOnGoodSettings, Start, Stop, vars
<1>2. UNCHANGED <<quotes, issued, sent>>
  BY DEF Start, Stop, vars
<1> QED BY <1>1, <1>2 DEF DeploymentInv, QuotesAreMade, FeeTokenWasChosen, KeysAreIssued, SignedAsQuoted

\* Every start, stop and request keeps what was handed out right.
THEOREM HandedOutRight == Spec => []DeploymentInv
<1>1. Init => DeploymentInv
  BY DEF Init, DeploymentInv, RunsOnGoodSettings, QuotesAreMade, FeeTokenWasChosen, KeysAreIssued, SignedAsQuoted
<1>2. DeploymentInv /\ [Next]_vars => DeploymentInv'
  BY QuoteKeeps, IssueKeyKeeps, SubmitKeeps, StartStopKeeps DEF Next
<1> QED BY <1>1, <1>2, PTL DEF Spec

\* Mainnet quotes are in tokens that were checked or asked for.
THEOREM TokensChosen == Spec => []FeeTokenWasChosen
<1>1. DeploymentInv => FeeTokenWasChosen
  BY DEF DeploymentInv
<1> QED BY <1>1, HandedOutRight, PTL

\* A key is accepted by every process with its issuer, on its network only.
THEOREM KeysAccepted == Spec => []IssuedIsAccepted
<1>1. ASSUME DeploymentInv PROVE IssuedIsAccepted
  <2> SUFFICES ASSUME NEW k \in issued, loaded # Unset, loaded.pubkey \in {Unset, k.issuer},
                      Read(loaded.issuer) = k.issuer, NEW slug \in Served(loaded)
               PROVE  Accepts(slug, k) <=> slug = k.network
    BY DEF IssuedIsAccepted
  <2>1. k.issuer \in IssuerKey /\ k.issuer # Unset
    BY <1>1, DeploymentAssumption DEF DeploymentInv, KeysAreIssued
  <2>2. Verifier(loaded) = k.issuer
    BY DEF Verifier
  <2> QED BY <2>1, <2>2 DEF Accepts
<1> QED BY <1>1, HandedOutRight, PTL

\* A quote that comes back to its sponsor is paid for by it and signed as it asks,
\* but for the two kinds of quotes that no settings would make right.
THEOREM QuotesSigned == Spec => []SignedAsQuoted
<1>1. DeploymentInv => SignedAsQuoted
  BY DEF DeploymentInv
<1> QED BY <1>1, HandedOutRight, PTL
=============================================================================
