----------------------------- MODULE MCRouting -----------------------------
(***************************************************************************)
(* Routing on a small instance: IPv4 addresses of two bits, IPv6 addresses *)
(* of three, of which those that begin with 1 are mapped IPv4 addresses.   *)
(***************************************************************************)
EXTENDS Routing, TLC

CONSTANTS id1, id2, ga, gb, exact, outer, inner

V4(b) == [fam |-> "v4", bits |-> b]
V6(b) == [fam |-> "v6", bits |-> b]

MCPatternOf ==
    exact :> [wild |-> FALSE, labels |-> <<"x", "b">>]
    @@ outer :> [wild |-> TRUE, labels |-> <<"b">>]
    @@ inner :> [wild |-> TRUE, labels |-> <<"x", "b">>]

\* 10/1; 11/1, the same network spelt with a host bit; the mapped 10/2; ::/0
Net == [fam |-> "v4", bits |-> <<1, 0>>, len |-> 1]
SameNet == [fam |-> "v4", bits |-> <<1, 1>>, len |-> 1]
MappedNet == [fam |-> "v6", bits |-> <<1, 1, 0>>, len |-> 3]
AllSix == [fam |-> "v6", bits |-> <<0, 0, 0>>, len |-> 0]

MCCidrKeys == {Net, SameNet, MappedNet, AllSix}
MCBatches == {{exact, inner}, {SameNet}}

MCMapped == <<1>>

MCHosts == {<<>>, <<"b">>, <<"x", "b">>, <<"y", "b">>, <<"y", "x", "b">>, <<"y", "", "b">>,
            <<"c">>, <<"1", "2">>, <<"1", "3">>}

\* Two of the hosts are literals: an IPv4 address and a mapped one.
MCAddrOf ==
    [h \in MCHosts |-> CASE h = <<"1", "2">> -> V4(<<1, 1>>)
                         [] h = <<"1", "3">> -> V6(<<1, 1, 0>>)
                         [] OTHER -> None]

MCResolutions ==
    {None, <<V4(<<0, 1>>)>>, <<V4(<<1, 1>>), V4(<<1, 0>>)>>, <<V6(<<0, 1, 0>>), V6(<<1, 1, 1>>)>>}

\* Domains only, CIDRs only, a default route only, or no route; one rule of each
\* kind is a direct one.
MCStart ==
    {[groups |-> (id1 :> ga @@ id2 :> None),
      domains |-> [k \in DomainKeys |->
                     IF k \notin rules THEN None ELSE IF k = outer THEN RouteDirect ELSE ga],
      cidrs |-> [k \in MCCidrKeys |->
                     IF k \notin rules THEN None ELSE IF k = Net THEN RouteDirect ELSE ga],
      default |-> route] :
         <<rules, route>> \in {<<DomainKeys, None>>, <<MCCidrKeys \ {SameNet}, None>>,
                                 <<{}, ga>>, <<{}, None>>}}
=============================================================================
