----------------------------- MODULE Deployment -----------------------------
(***************************************************************************)
(* What a process serves, and what of it outlives the process: the         *)
(* settings it reads at its start (api/config.rs, main.rs, core/tokens.rs),*)
(* the lanes and routes it makes of them, and the two things it hands out  *)
(* and keeps no copy of, sealed quotes (core/quote.rs) and integrator keys *)
(* (api/apikey.rs), which may come back to a process that was started with *)
(* other settings.                                                         *)
(*                                                                         *)
(* A key pair is named by one name, its secret and its public half alike.  *)
(* A file that cannot be read, text that is no secret and a quote key that *)
(* is too short are all Bad: each ends the start.                          *)
(***************************************************************************)
EXTENDS FiniteSets, Naturals

CONSTANTS
    Account,     \* key pairs a sponsor or a channel may have
    QuoteKey,    \* texts that are long enough to seal quotes with
    IssuerKey,   \* key pairs that integrator keys may be signed with
    Token,       \* assets a caller may offer to pay in
    Environment, \* the settings an operator may start a process with
    Unset, Blank, Bad, \* no setting, an empty one, and one that cannot be used
    MaxQuotes, MaxKeys, MaxSent \* bounds: how many are handed out and sent

Slug == {"testnet", "mainnet"}

\* The settings of a prefix: RESERVE_TESTNET_*, RESERVE_MAINNET_*, RESERVE_*.
Prefix == Slug \cup {"legacy"}

Wildcard == "*"

ASSUME DeploymentAssumption ==
    /\ {Unset, Blank, Bad} \cap (Account \cup QuoteKey \cup IssuerKey) = {}
    /\ Unset # Blank
    /\ Wildcard \notin Token
    /\ \A e \in Environment : DOMAIN e.secret = Prefix /\ DOMAIN e.tokens = Prefix

VARIABLES
    loaded, \* the environment the running process has read, or Unset
    quotes, \* the quotes sealed so far; "asked" is history: see AskedFor
    issued, \* the integrator keys handed out so far
    sent    \* history: transactions submitted to a network

vars == <<loaded, quotes, issued, sent>>

-----------------------------------------------------------------------------
(* Fee tokens *)

\* The assets that were checked, on each network.
KnownTokens(slug) ==
    IF slug = "mainnet"
    THEN {"native", "USDC", "USDT0", "EURC", "PYUSD", "USDGLO", "AQUA", "SHX", "yXLM", "yUSDC"}
    ELSE {"native", "USDC of Cavos", "USDC of Circle on Testnet"}

\* Allowlist::parse and allows(): the entries, the list of the network when
\* there are none, or anything; "XLM" stands for the native asset.
Allows(entries, slug, token) ==
    \/ entries = {Wildcard}
    \/ entries = {} /\ token \in KnownTokens(slug)
    \/ token \in entries
    \/ token = "native" /\ "XLM" \in entries

-----------------------------------------------------------------------------
(* Boot::from_env *)

\* The file, when one is named, and not the value.
Read(setting) == IF setting.file # Unset THEN setting.file ELSE setting.value

\* optional_secret: an empty value is no value; an empty file is an error.
OptionalSecret(setting) ==
    IF setting.file = Unset /\ setting.value = Blank THEN Unset ELSE Read(setting)

\* parse_channel_secrets: what is named, nothing when nothing is.
ChannelSecrets(setting) == IF Read(setting) = Unset THEN {} ELSE Read(setting)

\* The networks with a sponsor of their own, or else the one RESERVE_NETWORK names.
Prefixed(e) == {slug \in Slug : OptionalSecret(e.secret[slug]) # Unset}

Served(e) ==
    IF Prefixed(e) # {} THEN Prefixed(e)
    ELSE {IF e.network = Unset THEN "testnet" ELSE e.network}

\* Where the settings of a served network are.
PrefixOf(e, slug) == IF Prefixed(e) # {} THEN slug ELSE "legacy"

SponsorOf(e, slug) == OptionalSecret(e.secret[PrefixOf(e, slug)])

Entries(e, slug) == e.tokens[PrefixOf(e, slug)]

\* AppState::new: without channels the sponsor is the only lane.
Lanes(e, slug) ==
    LET named == ChannelSecrets(e.channels[PrefixOf(e, slug)])
    IN  IF named = {} THEN {SponsorOf(e, slug)} ELSE named

\* Mutant: only a public key that was set is verified with.
VerifierPinned(e) == e.pubkey

\* Keys are verified with the public key that was set, or the issuer's own.
Verifier(e) == IF e.pubkey # Unset THEN e.pubkey ELSE Read(e.issuer)

\* env_u32, env_i64: a number that is none.
Unparsed(e) == ~e.numbers

SharedFails(e) ==
    \/ Read(e.quoteKey) \notin QuoteKey
    \/ Read(e.issuer) \notin IssuerKey \cup {Unset}
    \/ Unparsed(e)

\* Mutant: the wildcard is taken on every network.
LaneFailsOpen(e, slug) ==
    \/ SponsorOf(e, slug) \notin Account
    \/ ~(Lanes(e, slug) \subseteq Account)
    \/ Verifier(e) \notin IssuerKey \cup {Unset}

LaneFails(e, slug) ==
    \/ SponsorOf(e, slug) \notin Account
    \/ ~(Lanes(e, slug) \subseteq Account)
    \/ slug = "mainnet" /\ Entries(e, slug) = {Wildcard}
    \/ Verifier(e) \notin IssuerKey \cup {Unset}

BootFails(e) ==
    \/ SharedFails(e)
    \/ ~(Served(e) \subseteq Slug) \* RESERVE_NETWORK names no network
    \/ \E slug \in Served(e) : LaneFails(e, slug)

-----------------------------------------------------------------------------
(* The process *)

Init ==
    /\ loaded = Unset
    /\ quotes = {} /\ issued = {} /\ sent = {}

\* main(): configuration is read once; a process that cannot read it ends.
Start(e) ==
    /\ loaded = Unset
    /\ ~BootFails(e)
    /\ loaded' = e
    /\ UNCHANGED <<quotes, issued, sent>>

\* Shut down or killed: quotes and keys are with the callers.
Stop ==
    /\ loaded # Unset
    /\ loaded' = Unset
    /\ UNCHANGED <<quotes, issued, sent>>

\* app(): each network under its name; the only one also at the root.
Reached(path, slug) ==
    /\ loaded # Unset
    /\ slug \in Served(loaded)
    /\ path = slug \/ (path = "root" /\ Cardinality(Served(loaded)) = 1)

\* What an operator asked for on a network: the entries under its own name, or
\* the unprefixed ones when RESERVE_NETWORK means this network.
AskedFor(e, slug) ==
    e.tokens[slug] \cup
    (IF slug = (IF e.network = Unset THEN "testnet" ELSE e.network) THEN e.tokens["legacy"] ELSE {})

\* quote(): the token is checked, and in bootstrap a lane taken, which is left
\* unnamed when it is the sponsor; it opens a sponsorship when it locks reserves.
Quote(path, slug, mode, token, opens) ==
    /\ Reached(path, slug)
    /\ Cardinality(quotes) < MaxQuotes
    /\ Allows(Entries(loaded, slug), slug, token)
    /\ \E lane \in Lanes(loaded, slug) :
          quotes' = quotes \cup
              {[network |-> slug, mode |-> mode, opens |-> opens, sponsor |-> SponsorOf(loaded, slug),
                channel |-> IF mode = "sponsored" \/ lane = SponsorOf(loaded, slug) THEN Unset ELSE lane,
                token |-> token, key |-> Read(loaded.quoteKey), asked |-> AskedFor(loaded, slug)]}
    /\ UNCHANGED <<loaded, issued, sent>>

\* issue_key(): only where there is an issuer; the key is for the lane's network.
IssueKey(path, slug) ==
    /\ Reached(path, slug)
    /\ Cardinality(issued) < MaxKeys
    /\ Read(loaded.issuer) # Unset
    /\ issued' = issued \cup {[issuer |-> Read(loaded.issuer), network |-> slug]}
    /\ UNCHANGED <<loaded, quotes, sent>>

\* KeyVerifier::verify, but for the expiry.
Accepts(slug, k) ==
    /\ Verifier(loaded) # Unset
    /\ k.issuer = Verifier(loaded)
    /\ k.network = slug

\* Quote::open: the MAC is that of this process's key, whoever sealed it.
Opens(q) == q.key = Read(loaded.quoteKey)

\* tx_source() of a bootstrap quote.
TxSource(q) == IF q.channel = Unset THEN q.sponsor ELSE q.channel

\* The accounts of the service that source the transaction build_inner() makes of
\* a quote, or an operation of it, and that the network therefore asks to sign.
NeededSigners(q) ==
    (IF q.mode = "bootstrap" THEN {TxSource(q)} ELSE {}) \cup (IF q.opens THEN {q.sponsor} ELSE {})

\* Mutant: a channel that is not configured is passed over.
KnownChannelOrNot(q, slug) == TRUE

\* sign_bootstrap: a lane that is not the quote's sponsor must be configured.
KnownChannel(q, slug) ==
    q.mode = "sponsored" \/ TxSource(q) = q.sponsor \/ TxSource(q) \in Lanes(loaded, slug)

\* Our signatures on the inner transaction; a sponsored one is left as it is.
SignedBy(q, slug) ==
    IF q.mode = "sponsored" THEN {}
    ELSE {SponsorOf(loaded, slug)} \cup ({TxSource(q)} \cap (Lanes(loaded, slug) \ {q.sponsor}))

\* Who pays the network: the transaction's source, or the sponsor of the bump.
Payer(q, slug) ==
    IF q.mode = "bootstrap" /\ TxSource(q) = q.sponsor THEN q.sponsor ELSE SponsorOf(loaded, slug)

\* submit(): the quote is opened, the transaction signed, and out it goes
\* to this lane's network, whichever network the quote names.
SubmitQuote(path, slug, q) ==
    /\ Reached(path, slug)
    /\ Cardinality(sent) < MaxSent
    /\ Opens(q)
    /\ KnownChannel(q, slug)
    /\ sent' = sent \cup
           {[quote |-> q, at |-> slug, signers |-> SignedBy(q, slug),
             payer |-> Payer(q, slug), sponsor |-> SponsorOf(loaded, slug)]}
    /\ UNCHANGED <<loaded, quotes, issued>>

Next ==
    \/ \E e \in Environment : Start(e)
    \/ Stop
    \/ \E path \in Slug \cup {"root"}, slug \in Slug :
          \/ \E mode \in {"sponsored", "bootstrap"}, token \in Token, opens \in BOOLEAN :
                Quote(path, slug, mode, token, opens)
          \/ IssueKey(path, slug)
          \/ \E q \in quotes : SubmitQuote(path, slug, q)

Spec == Init /\ [][Next]_vars

-----------------------------------------------------------------------------
(* Properties *)

\* "An allowlist, not a filter": on mainnet nobody is ever quoted in a token
\* that was neither checked nor asked for on mainnet by name, whatever
\* combination of prefixes, empty values and wildcards the process was given.
FeeTokenWasChosen ==
    \A q \in quotes : q.network = "mainnet" =>
        \/ q.token \in KnownTokens("mainnet")
        \/ q.token \in q.asked \ {Wildcard}

\* A key outlives the process that issued it: any later process with the same
\* issuer accepts it on its network, and on no other, unless another public key
\* was set.
IssuedIsAccepted ==
    \A k \in issued :
        loaded # Unset /\ loaded.pubkey \in {Unset, k.issuer} /\ Read(loaded.issuer) = k.issuer =>
            \A slug \in Served(loaded) : Accepts(slug, k) <=> slug = k.network

\* The quotes whose transaction is not signed as the network asks, whatever the
\* settings: a sponsored one that opens a sponsorship, of which the sponsor's
\* signature is missing, and a bootstrap one on a channel that opens none, on
\* which the sponsor's is one too many.
SponsorMissing(q) == q.mode = "sponsored" /\ q.opens
SponsorUnasked(q) == q.mode = "bootstrap" /\ ~q.opens /\ q.channel # Unset

\* A quote outlives the process that sealed it: when a later one with the same
\* sponsor, whatever its channels, sends the transaction to the network it is
\* for, the quote's sponsor pays, and the service's signatures are those the
\* network asks for, except on the two kinds of quotes above.  And a bootstrap
\* transaction that opens a sponsorship is never signed in full and paid for by
\* another sponsor than the one it pays.
SignedAsQuoted ==
    \A t \in sent :
        /\ t.at = t.quote.network /\ t.sponsor = t.quote.sponsor =>
               /\ t.payer = t.quote.sponsor
               /\ NeededSigners(t.quote) \ t.signers =
                      IF SponsorMissing(t.quote) THEN {t.quote.sponsor} ELSE {}
               /\ t.signers \ NeededSigners(t.quote) =
                      IF SponsorUnasked(t.quote) THEN {t.quote.sponsor} ELSE {}
        /\ t.quote.mode = "bootstrap" /\ t.quote.opens /\ NeededSigners(t.quote) \subseteq t.signers =>
               t.payer = t.quote.sponsor
=============================================================================
