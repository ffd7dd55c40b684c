------------------------------ MODULE SkbSteps ------------------------------
(***************************************************************************)
(* The helper calls with which the programs of bpf/clat.c move and rewrite *)
(* the bytes of one frame, one call per step; each may fail.  Module       *)
(* ClatPath says what a translated packet is worth; here is whether the    *)
(* calls, in the order and with the offsets and flags of the code, build   *)
(* it, and whether skb->csum, the sum a network card hands up with the     *)
(* frame (CHECKSUM_COMPLETE), still is the sum of its bytes.               *)
(*                                                                         *)
(* The frame is a sequence of 4-byte words behind the Ethernet header.     *)
(* Every word is a linear form, a fresh term unless its value matters.     *)
(***************************************************************************)
EXTENDS LinearForms, Sequences, Functions

CONSTANT
  Frames       \* the kinds of frames that pass the checks of the programs

(* prog   "egress" or "ingress"                                            *)
(* proto  "tcp", "udp", "udp0" (no checksum), "echo", "error", "other"     *)
(* frag   "no", "first" or "later"                                         *)
(* opts   words of IPv4 options                                            *)
(* inner, infrag, quoted: for an error, the packet it quotes and how many  *)
(*        words of its transport part                                      *)
VARIABLES
  k,       \* the frame's kind
  skb,     \* [proto, eth, words, csum]
  pc,      \* the next call
  diff,    \* the difference for the transport checksum
  old      \* the words loaded from the frame

frame == <<k, skb, pc, diff, old>>

Term(name, i) == Sum({<<name, i>>})
Fresh(name, n) == [i \in 1..n |-> Term(name, i)]
SumOf(ws) ==
  LET coef(t) == SumFunction([i \in DOMAIN ws |-> Coef(ws[i], t)])
      terms == UNION {Terms(ws[i]) : i \in DOMAIN ws}
  IN {p \in {<<t, coef(t)>> : t \in terms} : p[2] # 0}

-----------------------------------------------------------------------------
(* What the helpers do to the words and to skb->csum (external).           *)

Pop(s, at, n) ==
  [s EXCEPT !.words = SubSeq(@, 1, at) \o SubSeq(@, at + n + 1, Len(@)),
            !.csum = Minus(@, SumOf(SubSeq(s.words, at + 1, at + n)))]

Push(s, at, n) ==
  [s EXCEPT !.words = SubSeq(@, 1, at) \o [i \in 1..n |-> Zero]
                        \o SubSeq(@, at + 1, Len(@))]

(* bpf_skb_adjust_room works right behind the network header that          *)
(* skb->protocol announces.                                                *)
bpf_skb_adjust_room(s, n) ==
  LET base == IF s.proto = "ip4" THEN 5 ELSE 10
  IN IF n < 0 THEN Pop(s, base, -n) ELSE Push(s, base, n)

(* bpf_skb_change_proto adds or removes 20 bytes in front.                 *)
bpf_skb_change_proto(s, to) ==
  [(IF to = "ip6" THEN Push(s, 0, 5) ELSE Pop(s, 0, 5)) EXCEPT !.proto = to]

bpf_skb_store_bytes(s, at, ws, recompute) ==
  LET new == SubSeq(s.words, 1, at) \o ws \o SubSeq(s.words, at + Len(ws) + 1, Len(s.words))
  IN [s EXCEPT !.words = new,
               !.csum = IF recompute THEN Plus(Minus(@, SumOf(s.words)), SumOf(new)) ELSE @]

(* With BPF_F_PSEUDO_HDR, skb->csum follows the field. *)
bpf_l4_csum_replace(s, at, d) ==
  [s EXCEPT !.words[at + 1] = Minus(@, d), !.csum = Minus(@, d)]

(* A call that may fail; the frame is then dropped. *)
Try(s, next) ==
  \/ skb' = s /\ pc' = next
  \/ skb' = skb /\ pc' = "shot"

-----------------------------------------------------------------------------
(* The frames.  A checksum word makes the sum of its packet zero; bytes    *)
(* that are in other fragments or not quoted are part of that sum.         *)

Field(proto) ==
  CASE proto = "tcp" -> 5 [] proto \in {"udp", "udp0"} -> 2
    [] proto \in {"echo", "error"} -> 1 [] OTHER -> 0
L4Size(proto) == IF proto = "other" THEN 1 ELSE Field(proto) + 2

LenProto(name) == Plus(Term("len", name), Term("proto", name))
Elsewhere(frag, name) == IF frag = "no" THEN Zero ELSE Term("elsewhere", name)
Checked(ws, c, others) ==
  IF c = 0 THEN ws ELSE [ws EXCEPT ![c] = Minus(@, Plus(SumOf(ws), others))]

Addresses6(h) == SumOf(SubSeq(h, 3, 10))
Addresses4(h) == SumOf(SubSeq(h, 4, 5))

(* An IPv4 header whose own checksum, in its third word, is right.         *)
Header4(name, src, dst) == Checked(Fresh(name, 3) \o <<src, dst>>, 3, Zero)

Pod4Word == Term("POD_IP4", 1)
Pod6Words == Fresh("POD_IP6", 4)
PrefixWords == Fresh("CLAT_PREFIX", 3)
Server == Term("a4", 1)

In6 == Fresh("in6", 2) \o Pod6Words \o PrefixWords \o <<Server>>
InnerFull(f) ==
  IF f.infrag = "later" THEN Fresh("in", 3)
  ELSE Checked(Fresh("in", L4Size(f.inner)), Field(f.inner),
               Plus(Plus(Addresses6(In6), LenProto("in")), Elsewhere(f.infrag, "in")))
InnerQuoted(f) == SubSeq(InnerFull(f), 1, f.quoted)
InnerMissing(f) == SumOf(SubSeq(InnerFull(f), f.quoted + 1, Len(InnerFull(f))))

Transport(f) ==
  IF f.proto = "error"
  THEN Fresh("l4", 2) \o In6
         \o (IF f.infrag = "no" THEN <<>> ELSE Fresh("infh", 2)) \o InnerQuoted(f)
  ELSE Fresh("l4", L4Size(f.proto))

FrameHeader(f) ==
  IF f.prog = "egress"
  THEN Header4("h4", Pod4Word, Server)
  ELSE Fresh("h6", 2) \o PrefixWords \o <<Server>> \o Pod6Words

Pseudo(f, h) ==
  IF Len(h) = 10 THEN Plus(Addresses6(h), LenProto("l4"))
  ELSE IF f.proto \in {"echo", "error"} THEN Zero
  ELSE Plus(Addresses4(h), LenProto("l4"))

Words(f) ==
  LET h == FrameHeader(f)
      l4 == IF f.frag = "later" \/ f.proto = "udp0" THEN Transport(f)
            ELSE Checked(Transport(f), Field(f.proto),
                         Plus(Pseudo(f, h), Elsewhere(f.frag, "l4")))
  IN h \o Fresh("opt", f.opts)
       \o (IF f.prog = "ingress" /\ f.frag # "no" THEN Fresh("fh", 2) ELSE <<>>) \o l4

FrameProto(f) == IF f.prog = "egress" THEN "ip4" ELSE "ip6"
Received(f) ==
  [proto |-> FrameProto(f), eth |-> FrameProto(f), words |-> Words(f), csum |-> SumOf(Words(f))]

SkbInit ==
  \E f \in Frames :
    /\ k = f
    /\ skb = Received(f)
    /\ pc = IF f.prog = "egress" THEN "options" ELSE "fragment"
    /\ diff = Zero
    /\ old = <<>>

SameBut(ws, vs, c) ==
  Len(ws) = Len(vs) /\ \A i \in DOMAIN ws : i = c \/ ws[i] = vs[i]

IsFrag == k.frag # "no"
Step(from) == pc = from /\ UNCHANGED k
Locals == <<diff, old>>

(* Both programs store h_proto, which skb->csum does not cover.            *)
StoreEthType ==
  /\ Step("eth")
  /\ Try([skb EXCEPT !.eth = IF k.prog = "egress" THEN "ip6" ELSE "ip4"],
         IF k.frag = "later" THEN "done" ELSE "transport")
  /\ UNCHANGED Locals

-----------------------------------------------------------------------------
(* clat_egress.                                                            *)

StripOptions ==
  /\ Step("options")
  /\ IF k.opts = 0 THEN pc' = "to6" /\ UNCHANGED skb
     ELSE Try(bpf_skb_adjust_room(skb, -k.opts), "to6")
  /\ UNCHANGED Locals

ChangeTo6 ==
  /\ Step("to6")
  /\ Try(bpf_skb_change_proto(skb, "ip6"), IF IsFrag THEN "grow" ELSE "h6")
  /\ UNCHANGED Locals

GrowFragment ==
  /\ Step("grow")
  /\ Try(bpf_skb_adjust_room(skb, 2), "h6")
  /\ UNCHANGED Locals

Header6 == Fresh("h6", 2) \o Pod6Words \o PrefixWords \o <<Server>>

StoreHeader6 ==
  /\ Step("h6")
  /\ Try(bpf_skb_store_bytes(skb, 0, Header6, TRUE), IF IsFrag THEN "fh" ELSE "eth")
  /\ UNCHANGED Locals

StoreFragment ==
  /\ Step("fh")
  /\ Try(bpf_skb_store_bytes(skb, 10, Fresh("fh", 2), TRUE), "eth")
  /\ UNCHANGED Locals

l4off6 == IF IsFrag THEN 12 ELSE 10

UpdateAddresses6 ==
  /\ Step("transport") /\ k.prog = "egress" /\ k.proto \in {"tcp", "udp"}
  /\ Try(bpf_l4_csum_replace(
           skb, l4off6 + Field(k.proto) - 1,
           bpf_csum_diff(Plus(Pod4Word, Server), Addresses6(Header6), Zero)), "done")
  /\ UNCHANGED Locals

(* udp_full_csum reads the datagram; its result goes into the zero field.  *)
StoreFullCsum ==
  /\ Step("transport") /\ k.proto = "udp0"
  /\ LET l4 == SubSeq(skb.words, l4off6 + 1, Len(skb.words))
         full == Minus(Zero, Plus(Plus(Addresses6(Header6), LenProto("l4")), SumOf(l4)))
     IN Try(bpf_skb_store_bytes(skb, l4off6 + 1, <<Plus(l4[2], full)>>, TRUE), "done")
  /\ UNCHANGED Locals

(* Echo, in both directions: store the type, then patch the field.         *)
EchoType(at, pseudo) ==
  LET ow == Term("type", "old")
      nw == Term("type", "new")
  IN /\ diff' = bpf_csum_diff(ow, nw, pseudo)
     /\ Try(bpf_skb_store_bytes(skb, at, <<bpf_csum_diff(ow, nw, skb.words[at + 1])>>, TRUE),
            "field")
     /\ UNCHANGED old

EchoToIcmp6 ==
  /\ Step("transport") /\ k.prog = "egress" /\ k.proto = "echo"
  /\ EchoType(l4off6, Plus(Addresses6(Header6), LenProto("l4")))

OtherProtocol ==
  /\ Step("transport") /\ k.proto = "other"
  /\ pc' = "done" /\ UNCHANGED <<skb, diff, old>>

PatchField ==
  /\ Step("field")
  /\ Try(bpf_l4_csum_replace(skb, IF k.prog = "egress" THEN l4off6 ELSE 5, diff), "done")
  /\ UNCHANGED Locals

-----------------------------------------------------------------------------
(* clat_ingress.  The addresses were copied before the frame is reshaped.  *)

DropFragment ==
  /\ Step("fragment")
  /\ IF IsFrag THEN Try(bpf_skb_adjust_room(skb, -2), "to4")
     ELSE pc' = "to4" /\ UNCHANGED skb
  /\ UNCHANGED Locals

ChangeTo4 ==
  /\ Step("to4")
  /\ Try(bpf_skb_change_proto(skb, "ip4"), "h4")
  /\ UNCHANGED Locals

addr6 == Addresses6(FrameHeader(k))
h4(name) == Header4(name, Server, Pod4Word)

StoreHeader4 ==
  /\ Step("h4")
  /\ Try(bpf_skb_store_bytes(skb, 0, h4("h4"), TRUE), "eth")
  /\ UNCHANGED Locals

UpdateAddresses4 ==
  /\ Step("transport") /\ k.prog = "ingress" /\ k.proto \in {"tcp", "udp"}
  /\ Try(bpf_l4_csum_replace(
           skb, 5 + Field(k.proto) - 1,
           bpf_csum_diff(addr6, Addresses4(h4("h4")), Zero)), "done")
  /\ UNCHANGED Locals

WithoutPseudo == bpf_csum_diff(Plus(addr6, LenProto("l4")), Zero, Zero)

EchoToIcmp4 ==
  /\ Step("transport") /\ k.prog = "ingress" /\ k.proto = "echo"
  /\ EchoType(5, WithoutPseudo)

(* An error: the headers that go, loaded from the frame, and those that    *)
(* take their place.                                                       *)
InFrag == k.infrag # "no"
New == Fresh("icmp4", 2) \o Header4("in4", Pod4Word, old[12])

LoadQuoted ==
  /\ Step("transport") /\ k.proto = "error"
  /\ old' = SubSeq(skb.words, 6, 5 + 2 + 10 + (IF InFrag THEN 2 ELSE 0))
  /\ diff' = WithoutPseudo
  /\ pc' = "shrink"
  /\ UNCHANGED skb

(* Mutant: the room of the quoted Fragment header is not taken out. *)
MutShrinkEmbedded ==
  /\ Step("shrink")
  /\ diff' = bpf_csum_diff(SumOf(old), SumOf(New), diff)
  /\ Try(bpf_skb_adjust_room(skb, -5), "new")
  /\ UNCHANGED old
ShrinkEmbedded ==
  /\ Step("shrink")
  /\ diff' = bpf_csum_diff(SumOf(old), SumOf(New), diff)
  /\ Try(bpf_skb_adjust_room(skb, -(Len(old) - Len(New))), "new")
  /\ UNCHANGED old

(* Mutant: skb->csum does not follow the store. *)
MutStoreNew ==
  /\ Step("new")
  /\ Try(bpf_skb_store_bytes(skb, 5, New, FALSE), "outer")
  /\ UNCHANGED Locals
StoreNew ==
  /\ Step("new")
  /\ Try(bpf_skb_store_bytes(skb, 5, New, TRUE), "outer")
  /\ UNCHANGED Locals

(* The outer header again, with the shorter total length.                  *)
StoreOuter ==
  /\ Step("outer")
  /\ Try(bpf_skb_store_bytes(skb, 0, h4("short"), TRUE), "inner")
  /\ UNCHANGED Locals

(* The embedded transport checksum, and the type of an embedded echo: how  *)
(* much the word that holds them grows.                                    *)
in_l4 == 5 + Len(New)
in_addr6 == Addresses6(SubSeq(old, 3, 12))
InnerGrowth ==
  LET type == bpf_csum_diff(Term("type", "ow"), Term("type", "nw"), Zero)
      idiff == Plus(type, bpf_csum_diff(Plus(in_addr6, LenProto("in")), Zero, Zero))
      id6 == bpf_csum_diff(in_addr6, Addresses4(SubSeq(New, 3, 7)), Zero)
  IN IF k.inner = "echo" THEN Minus(type, idiff) ELSE Minus(Zero, id6)

InnerFieldThere == k.quoted >= Field(k.inner)
InnerUpdated ==
  IF k.inner = "echo" THEN ~InFrag
  ELSE Field(k.inner) # 0 /\ k.infrag # "later" /\ InnerFieldThere

(* Mutant: the outer checksum is not told. *)
MutFed(growth) == diff
Fed(growth) == Plus(diff, growth)

InnerTransport ==
  /\ Step("inner")
  /\ IF ~InnerUpdated THEN pc' = "field" /\ UNCHANGED <<skb, diff>>
     ELSE IF ~InnerFieldThere THEN pc' = "shot" /\ UNCHANGED <<skb, diff>>
     ELSE LET at == in_l4 + Field(k.inner) - 1
          IN /\ diff' = Fed(InnerGrowth)
             /\ Try(bpf_skb_store_bytes(skb, at, <<Plus(skb.words[at + 1], InnerGrowth)>>, TRUE),
                    "field")
  /\ UNCHANGED old

-----------------------------------------------------------------------------
EgressStep ==
  \/ StripOptions \/ ChangeTo6 \/ GrowFragment \/ StoreHeader6 \/ StoreFragment
  \/ UpdateAddresses6 \/ StoreFullCsum \/ EchoToIcmp6

IngressStep ==
  \/ DropFragment \/ ChangeTo4 \/ StoreHeader4
  \/ UpdateAddresses4 \/ EchoToIcmp4
  \/ LoadQuoted \/ ShrinkEmbedded \/ StoreNew \/ StoreOuter \/ InnerTransport

(* The verdict is given and the program does not run again. *)
Returned == pc \in {"done", "shot"} /\ UNCHANGED frame

SkbStep ==
  EgressStep \/ IngressStep \/ StoreEthType \/ OtherProtocol \/ PatchField \/ Returned

-----------------------------------------------------------------------------
Forwarded == pc = "done"
HeaderLen == (IF k.prog = "egress" THEN l4off6 ELSE 5)
FinalTransport == SubSeq(skb.words, HeaderLen + 1, Len(skb.words))

(* The calls take out and put in exactly the header bytes: the forwarded   *)
(* frame is the new header, and behind it every transport word of the old  *)
(* frame except those that hold a checksum, a type or a translated header, *)
(* at its place.                                                           *)
BytesInPlace ==
  Forwarded =>
    /\ skb.eth = skb.proto /\ skb.proto # FrameProto(k)
    /\ SubSeq(skb.words, 1, HeaderLen) =
         IF k.prog = "ingress" THEN h4(IF k.proto = "error" THEN "short" ELSE "h4")
         ELSE Header6 \o (IF IsFrag THEN Fresh("fh", 2) ELSE <<>>)
    /\ IF k.proto # "error"
       THEN SameBut(FinalTransport, Transport(k), Field(k.proto))
       ELSE /\ SubSeq(FinalTransport, 2, 7) = Tail(New)
            /\ SameBut(SubSeq(FinalTransport, 8, Len(FinalTransport)), InnerQuoted(k),
                       Field(k.inner))

(* skb->csum of the forwarded frame is the sum of its bytes, so the stack  *)
(* believes the network card's verdict (clat.c: "so that skb->csum stays   *)
(* valid for CHECKSUM_COMPLETE packets").                                  *)
SumFollowsBytes == Forwarded => skb.csum = SumOf(skb.words)

(* The transport checksum of the forwarded frame is right over the bytes   *)
(* that are really there, and so is the one of the packet an error quotes. *)
ChecksumsRight ==
  Forwarded =>
    /\ k.frag # "later" /\ Field(k.proto) # 0 =>
         Plus(SumOf(FinalTransport),
              Plus(Pseudo(k, SubSeq(skb.words, 1, IF k.prog = "egress" THEN 10 ELSE 5)),
                   Elsewhere(k.frag, "l4"))) = Zero
    /\ k.proto = "error" /\ InnerUpdated =>
         Plus(SumOf(SubSeq(FinalTransport, 8, Len(FinalTransport))),
              Plus(InnerMissing(k),
                   Plus(IF k.inner = "echo" THEN Zero
                        ELSE Plus(Addresses4(SubSeq(FinalTransport, 3, 7)), LenProto("in")),
                        Elsewhere(k.infrag, "in")))) = Zero
=============================================================================
