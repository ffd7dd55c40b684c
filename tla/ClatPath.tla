------------------------------ MODULE ClatPath ------------------------------
(***************************************************************************)
(* A pod behind the two programs, and what answers it: servers behind the  *)
(* PLAT, routers on the way, and hosts that speak IPv6 to the pod.  The    *)
(* pod's stack sends IPv4; clat_egress runs on each frame; the network     *)
(* answers some of them, in any order, more than once or never;            *)
(* clat_ingress runs on every frame that comes back.                       *)
(*                                                                         *)
(* The stack, the PLAT and the routers are not part of the repository.     *)
(* They are modelled by the packets that bpf_test.go builds for them.      *)
(***************************************************************************)
EXTENDS ClatEgress, ClatIngress, FiniteSets, Functions

CONSTANTS
  PodFrames,     \* what the pod sends
  Mixed,         \* those of them that it sends next to others
  NativeFrames,  \* IPv6 and other frames for the pod that no CLAT flow caused
  ReplyLens,     \* transport lengths of replies
  ReplyFrags,    \* Fragment headers of replies, with <<>> for none
  ErrorKinds,    \* <<type, code, word>> of ICMPv6 errors
  ErrorSources,  \* IPv6 addresses errors come from
  QuoteCuts,     \* how much of the transport part an error quotes
  MaxSent,       \* bound on the frames of Mixed the pod sends; of others, one
  MaxBack,       \* bound on the frames on their way to the pod
  MaxArrived     \* bound on the frames that arrive

(* An IPv4 frame of the pod's stack.  A malformed one may have any lengths. *)
IsPodFrame4(p) ==
  /\ IsTransport(p.l4) /\ p.l4.q = <<>> /\ IsFragment(p.frag) /\ p.proto # "icmp6"
  /\ p.len \in Nat /\ p.hl \in Nat /\ p.tot_len \in 0..(U16 - 1)
  /\ p.ver = 4 /\ IP4_HLEN <= p.hl /\ p.hl <= p.tot_len
       => p.len = p.tot_len /\ (IsFrag(p) \/ p.l4.dlen = l4len(p))
  /\ p.l4.part => p.proto \in {"tcp", "udp"} /\ First(p)

(* Its checksum is complete, left to the device, or absent (UDP); an echo  *)
(* has the code 0.                                                         *)
IsSent4(p) ==
  /\ First(p) /\ p.proto \in {"tcp", "udp", "icmp"}
       => \/ p.l4.field = (IF p.l4.part THEN PartialField(p) ELSE FullField(p))
          \/ p.proto = "udp" /\ ~p.l4.part /\ p.l4.field = Zero
  /\ p.proto = "icmp" /\ p.l4.tc[1] = 8 => p.l4.tc = <<8, 0>>

ASSUME PodAssumption ==
  \A p \in PodFrames \cup Mixed :
    /\ p.eth = "ip4" => IsPodFrame4(p) /\ IsSent4(p)
    /\ p.eth = "ip6" => p.dst.net # "clat"

(* The PLAT sends what IPv4 can carry, routers send errors.                *)
ASSUME NetworkAssumption ==
  /\ \A n \in ReplyLens : n \in Nat /\ n + IP4_HLEN < U16
  /\ \A f \in ReplyFrags : IsFragment(f)
  /\ \A k \in ErrorKinds : k[1] \in 1..4 /\ k[3] \in Nat
  /\ \A c \in QuoteCuts : c \in Nat /\ c + 100 < U16

(* No native frame is an error about a packet to P, and what comes from P  *)
(* without being an answer is not well-formed.                             *)
ASSUME NativeAssumption ==
  \A p \in NativeFrames : p.eth = "ip6" =>
    /\ p.ver = 6 /\ (p.l4.q = <<>> \/ p.l4.q = << p.l4.q[1] >>)
    /\ p.l4.q # <<>> => ~(p.l4.q[1].src = POD_IP6 /\ p.l4.q[1].dst.net = "clat")
    /\ p.src.net = "clat" /\ p.dst = POD_IP6 /\ p.len >= IP6_HLEN + FRAG_HLEN
         => \/ FirstDrop(HeaderChecks6(p)) # "none"
            \/ FirstDrop(TransportChecks6(p)) # "none"

VARIABLES
  sent,      \* frames the pod sent
  fwd,       \* frames that left the pod
  back,      \* frames on their way to the pod
  runs,      \* how often each program ran
  own,       \* how many frames of CLAT flows a program dropped or changed
  cnt,       \* clat_counters, summed over the CPUs
  ev         \* the last run of a program: <<[hook, in, out]>>

vars == <<sent, fwd, back, runs, own, cnt, ev>>

Counters == EgressCounters \cup IngressCounters

Init ==
  /\ sent = {} /\ fwd = {} /\ back = {}
  /\ runs = [egress |-> 0, ingress |-> 0]
  /\ own = 0
  /\ cnt = [c \in Counters |-> 0]
  /\ ev = <<>>

-----------------------------------------------------------------------------
(* The network (external).                                                 *)

(* A checksum the stack left to the device is complete on the wire.        *)
Completed(q) ==
  IF q.l4.part THEN [q EXCEPT !.l4.field = FullField(q), !.l4.part = FALSE] ELSE q

(* A server's answer, as the PLAT forwards it: n bytes, a fragment or not. *)
Reply(q, n, frag) ==
  LET more == IF frag = <<>> THEN 0 ELSE 8 * frag[1].off + (IF frag[1].mf THEN 8 ELSE 0)
      p == [eth  |-> "ip6", ver |-> 6,
            len  |-> IP6_HLEN + (IF frag = <<>> THEN 0 ELSE FRAG_HLEN) + n,
            plen |-> (IF frag = <<>> THEN 0 ELSE FRAG_HLEN) + n,
            frag |-> frag, nh |-> q.nh, src |-> q.dst, dst |-> q.src,
            l4   |-> [tc |-> IF q.l4.tc[1] = 128 THEN <<129, 0>> ELSE q.l4.tc,
                      info |-> q.l4.info, data |-> "reply", n |-> n,
                      dlen |-> n + more, field |-> Zero, part |-> FALSE, q |-> <<>>]]
  IN IF First(p) /\ CsumEnd(p.nh) # 0 THEN [p EXCEPT !.l4.field = FullField(p)] ELSE p

(* An ICMPv6 error that quotes q up to cut bytes of its transport part.    *)
ErrorAbout(q, src, kind, cut) ==
  LET inner == [q EXCEPT !.l4.n = Min2(@, cut)]
      n == 8 + IP6_HLEN + (IF IsFrag(q) THEN FRAG_HLEN ELSE 0) + inner.l4.n
      p == [eth |-> "ip6", ver |-> 6, len |-> IP6_HLEN + n, plen |-> n,
            frag |-> <<>>, nh |-> "icmp6", src |-> src, dst |-> q.src,
            l4  |-> [tc |-> <<kind[1], kind[2]>>, info |-> kind[3], data |-> "error",
                     n |-> n, dlen |-> n, field |-> Zero, part |-> FALSE,
                     q |-> << inner >>]]
  IN [p EXCEPT !.l4.field = FullField(p)]

(* A frame that belongs to a CLAT flow: it comes from P, or is an error    *)
(* about a packet the pod sent into P.                                     *)
Outgoing == {q \in fwd : q.eth = "ip6" /\ q.dst.net = "clat"}
Quoted(p) == IF p.nh = "icmp6" THEN {p.l4.q[i] : i \in DOMAIN p.l4.q} ELSE {}
ClatFlow(p) ==
  /\ p.eth = "ip6" /\ p.dst = POD_IP6
  /\ \/ p.src.net = "clat"
     \/ \E q \in Quoted(p), s \in Outgoing : q.src = s.src /\ q.dst = s.dst

-----------------------------------------------------------------------------
(* A run of a program: what it returns, and what it counts.                *)

(* Mutant: a frame that is let through is not counted. *)
MutCount(o) == IF o.act = "ok" THEN cnt' = cnt
               ELSE cnt' = [cnt EXCEPT ![o.counter] = @ + 1]
Count(o) == IF o.counter = "none" THEN cnt' = cnt
            ELSE cnt' = [cnt EXCEPT ![o.counter] = @ + 1]

Run(hook, p, o, mine) ==
  /\ ev' = << [hook |-> hook, in |-> p, out |-> o] >>
  /\ runs' = [runs EXCEPT ![hook] = @ + 1]
  /\ own' = own + (IF mine /\ (o.act # "ok" \/ o.pkt # <<p>>) THEN 1 ELSE 0)
  /\ Count(o)

(* The pod's stack hands a frame to the interface.                         *)
PodSends(p) ==
  /\ \E o \in clat_egress(p) :
       /\ Run("egress", p, o, p.eth = "ip4")
       /\ fwd' = fwd \cup {o.pkt[i] : i \in DOMAIN o.pkt}
  /\ sent' = sent \cup {p}
  /\ UNCHANGED back

(* Nobody answers an echo reply.                                           *)
ServerAnswers(q, n, frag) ==
  /\ q.l4.tc[1] # 129
  /\ back' = back \cup {Reply(Completed(q), n, frag)}
  /\ UNCHANGED <<sent, fwd, runs, own, cnt, ev>>

(* The node itself may quote a packet whose checksum is still partial.     *)
RouterAnswers(q, src, kind, cut) ==
  /\ \E about \in {q, Completed(q)} : back' = back \cup {ErrorAbout(about, src, kind, cut)}
  /\ UNCHANGED <<sent, fwd, runs, own, cnt, ev>>

NativeArrives(p) ==
  /\ back' = back \cup {p}
  /\ UNCHANGED <<sent, fwd, runs, own, cnt, ev>>

(* A frame reaches the pod's interface, and perhaps a copy of it later.    *)
PodReceives(p) ==
  /\ \E o \in clat_ingress(p) :
       Run("ingress", p, o, ClatFlow(p) /\ p.len >= IP6_HLEN + FRAG_HLEN)
  /\ back' \in {back, back \ {p}}
  /\ UNCHANGED <<sent, fwd>>

Next ==
  \/ runs.egress = 0 /\ \E p \in PodFrames : PodSends(p)
  \/ /\ runs.egress \in 1..(MaxSent - 1) /\ sent \subseteq Mixed
     /\ \E p \in Mixed : PodSends(p)
  \/ /\ runs.ingress < MaxArrived /\ Cardinality(back) < MaxBack
     /\ \/ \E q \in Outgoing, n \in ReplyLens, f \in ReplyFrags : ServerAnswers(q, n, f)
        \/ \E q \in Outgoing, s \in ErrorSources, k \in ErrorKinds, c \in QuoteCuts :
             RouterAnswers(q, s, k, c)
        \/ \E p \in NativeFrames : NativeArrives(p)
  \/ runs.ingress < MaxArrived /\ \E p \in back : PodReceives(p)

Spec == Init /\ [][Next]_vars

-----------------------------------------------------------------------------
Ran(hook) == ev # <<>> /\ ev[1].hook = hook
Changed(hook) == Ran(hook) /\ ev[1].out.counter # "none" /\ ev[1].out.act = "ok"
Was == ev[1].in
Is == ev[1].out.pkt[1]

(* No IPv4 leaves the pod, and a datagram whose transport checksum was     *)
(* right, left to the device, or absent (UDP) carries one that the         *)
(* receiver accepts over IPv6: the incremental updates of clat_egress add  *)
(* up to the sum of the translated packet.  (A datagram without checksum   *)
(* that is taken for a partial one is the subject of module CsumField.)    *)
SentIsAccepted ==
  Ran("egress") /\ ev[1].out.act = "ok" /\ Was.eth = "ip4" =>
    /\ Is.eth = "ip6" /\ Is.src = POD_IP6 /\ Is.dst = Mapped(Was.dst)
    /\ Is.frag = Was.frag /\ Is.l4.info = Was.l4.info
    /\ First(Was) /\ CsumEnd(Is.nh) # 0 /\ (FullCsum(Was) \/ Accepted(Was))
         => Accepted(Is)

(* After all the room that is added and removed around the headers, the    *)
(* length in the header is the length of the packet, in both directions    *)
(* and an error is as long as what is left of the packet it quotes.        *)
LengthsAgree ==
  /\ Changed("egress") => Is.len = IP6_HLEN + Is.plen
  /\ Changed("ingress") =>
       /\ Is.len = Is.tot_len /\ Is.len = Is.hl + Is.l4.n
       /\ \A i \in DOMAIN Is.l4.q : Is.l4.n = 8 + IP4_HLEN + Is.l4.q[i].l4.n

(* What the pod receives over IPv4 from a server is an answer to something *)
(* it sent: from the address it sent to, of the same protocol and flow, an *)
(* echo reply for an echo, with checksums its stack accepts.               *)
ReplyFitsFlow ==
  Changed("ingress") /\ Is.l4.q = <<>> =>
    /\ \E s \in sent : /\ s.eth = "ip4"
                       /\ s.src = Is.dst /\ s.dst = Is.src /\ s.proto = Is.proto
                       /\ s.l4.info = Is.l4.info
                       /\ s.proto = "icmp" => <<s.l4.tc, Is.l4.tc>> = << <<8, 0>>, <<0, 0>> >>
    /\ Is.frag = Was.frag /\ Is.df = (Was.frag = <<>>)
    /\ HeaderAccepted(Is)
    /\ First(Is) /\ CsumEnd(Is.proto) # 0 => Accepted(Is)

(* The packet quoted by an error the pod receives is one it sent: same     *)
(* addresses, protocol, fragment, length without options, same transport   *)
(* header, and the checksum it sent or would have sent, up to the carry    *)
(* that EmbeddedField may lose.  The stack finds the socket by it.         *)
OriginalField(s) ==
  IF First(s) /\ (s.l4.part \/ FullCsum(s)) THEN FullField(s) ELSE s.l4.field
Quotes(q, s) ==
  /\ s.eth = "ip4" /\ q.src = s.src /\ q.dst = s.dst /\ q.proto = s.proto
  /\ q.frag = s.frag /\ q.tot_len = s.tot_len - optlen(s)
  /\ q.l4.tc = s.l4.tc /\ q.l4.info = s.l4.info
  /\ HasField(q.proto, q.l4) /\ ~q.l4.part =>
       \E lost \in BOOLEAN : /\ lost => "carry" \in Faults
                             /\ q.l4.field = EmbeddedField(OriginalField(s), Zero, lost)
QuoteIsSent ==
  Changed("ingress") /\ Is.l4.q # <<>> => \E s \in sent : Quotes(Is.l4.q[1], s)

(* An error the pod receives passes every checksum: the outer header, the  *)
(* embedded header, and the ICMP message, whatever the embedded transport  *)
(* checksum became.  Its source is the router, or the dummy address when   *)
(* the router has no IPv4 one.                                             *)
ErrorIsAccepted ==
  Changed("ingress") /\ Is.l4.q # <<>> =>
    /\ HeaderAccepted(Is) /\ HeaderAccepted(Is.l4.q[1]) /\ Accepted(Is)
    /\ Is.dst = Pod4
    /\ Is.src = IF Was.src.net = "clat" THEN Was.src.host ELSE Err4

Business(hook) ==
  IF hook = "egress" THEN Was.eth = "ip4"
  ELSE ClatFlow(Was) /\ Was.len >= IP6_HLEN + FRAG_HLEN

(* The programs touch exactly the frames of CLAT flows.  Any other frame   *)
(* passes unchanged and uncounted: native IPv6, neighbour discovery,       *)
(* errors about native flows, other prefixes.  A frame of a CLAT flow      *)
(* never passes as it is: IPv4 does not leave the pod, and an answer to it *)
(* does not reach the pod's IPv6 stack, which would reset the connection.  *)
(* The exception clat_ingress makes is a frame with fewer than 8 bytes     *)
(* behind the IPv6 header, or one whose bytes it has no memory to read     *)
(* (Unread).                                                               *)
TouchesClatOnly ==
  \A hook \in {"egress", "ingress"} :
    Ran(hook) => (Business(hook) <=> ev[1].out # Pass(Was))

(* Every frame a program drops or translates is in exactly one counter,    *)
(* and no other frame is.                                                  *)
CountedOnce == FoldFunction(LAMBDA a, b : a + b, 0, cnt) = own
=============================================================================
