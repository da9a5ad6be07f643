------------------------------ MODULE MCNetcode ------------------------------
(***************************************************************************)
(* Instances of Netcode.  A token's key names it; every token is made at   *)
(* time 0.                                                                 *)
(***************************************************************************)
EXTENDS Netcode

CONSTANTS Expire, Timeout

Token(key, client_id, hosts) == Generate(key, 0, 7, Expire, client_id, Timeout, hosts, "secret")

\* The same user at two addresses: one token shared, then one for the same id.
SameUser == [c1 |-> <<Token("k1", 1, <<"s1">>)>>,
             c2 |-> <<Token("k1", 1, <<"s1">>), Token("k2", 1, <<"s1">>)>>]

\* One client that runs twice.
OneClient == [c1 |-> <<Token("k1", 1, <<"s1">>), Token("k2", 1, <<"s1">>)>>]

\* One client whose token lists two servers.
TwoServers == [c1 |-> <<Token("k1", 1, <<"s1", "s2">>)>>]
=============================================================================
