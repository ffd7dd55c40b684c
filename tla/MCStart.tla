------------------------------ MODULE MCStart -------------------------------
(* Every field of the conflist entry in each form ParseConfig tells apart, *)
(* with the namespace lists of one entry varied apart from the rest.       *)
EXTENDS PodStart

A(kind, addr) == [kind |-> kind, addr |-> addr, bits |-> 0, host |-> FALSE]
Junk == A("junk", "junk")
Prefix(kind, bits, host) == [kind |-> kind, addr |-> "p", bits |-> bits, host |-> host]
MCDefaultPod == A("v4", "192.0.0.2")
MCDefaultGateway == A("v4", "192.0.0.1")
MCDefaultErrorSource == A("v4", "192.0.0.8")

MCPrefixes == {Empty, Junk, Prefix("v4", 24, FALSE), Prefix("4in6", 96, FALSE),
               Prefix("v6", 64, FALSE), Prefix("v6", 96, TRUE), Prefix("v6", 96, FALSE)}
MCAddrs == {Empty, Junk, A("v6", "x"), A("4in6", "x"), A("v4", "192.0.0.1"),
            A("v4", "192.0.0.2")}
MCConfs ==
  [prefix: MCPrefixes, pod: MCAddrs, gw: MCAddrs, err: MCAddrs, include: {{}}, exclude: {{}}]
  \cup [prefix: {Prefix("v6", 96, FALSE)}, pod: {Empty}, gw: {Empty}, err: {Empty},
        include: SUBSET {"a", ""}, exclude: SUBSET {"a", ""}]

MCArgs ==
  LET NS(v) == <<"K8S_POD_NAMESPACE", v>>
  IN {<<>>, << <<"IgnoreUnknown">>, NS("a"), NS("b")>>, <<NS("b"), <<"K8S_POD_NAME", "a">> >>}

MCIPs == {Empty, A("junk", "j"), A("v4", "1"), A("4in6", "2"), A("v6", "3"), A("v6", "4")}
MCResults == {<<>>} \cup UNION {{<<s>> : s \in [1..n -> MCIPs]} : n \in 0..3}

(* One counter of each direction, and two CPUs. *)
MCNames == <<"egress_translated", "ingress_translated">>
MCHookOf == <<"egress", "ingress">>
MCCPUs == <<"cpu0", "cpu1">>
=============================================================================
