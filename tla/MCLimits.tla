------------------------------ MODULE MCLimits ------------------------------
EXTENDS Limits

\* One host has addresses of one /64, the other an IPv4 address it may write
\* either way; the proxy has one address.
MCAddressesOf ==
    [h \in Hosts |->
        IF h = Gateway THEN {[kind |-> "v4", net |-> "proxy"]}
        ELSE IF h = "six" THEN {[kind |-> "v6", net |-> "six", low |-> i] : i \in 1 .. 2}
        ELSE {[kind |-> k, net |-> "four"] : k \in {"v4", "mapped"}}]
=============================================================================
