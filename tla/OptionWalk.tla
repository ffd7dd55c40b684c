----------------------------- MODULE OptionWalk -----------------------------
(***************************************************************************)
(* ip4_has_source_route of bpf/clat.c: the walk over the IPv4 options,     *)
(* one turn of the bounded loop per step.  Bytes are numbers, because an   *)
(* option's length byte moves the walk.                                    *)
(***************************************************************************)
EXTENDS Integers, Sequences

CONSTANTS
  OptionLists,   \* what can stand between the IPv4 header and the payload
  MaxOptlen      \* 40: the most IHL can announce, and the bound of the loop

ASSUME OptionAssumption ==
  /\ MaxOptlen \in Nat
  /\ \A l \in OptionLists :
       l \in Seq(0..255) /\ Len(l) \in 4..MaxOptlen /\ Len(l) % 4 = 0

IPOPT_LSRR_T == 131
IPOPT_SSRR_T == 137

VARIABLES
  o,       \* the option bytes
  i,       \* offset of the walk
  turns,   \* of the loop
  at, ret, \* where it is, and what it returns
  failed   \* a helper has failed

walk == <<o, i, turns, at, ret, failed>>

optlen == Len(o)
Byte(j) == o[j + 1]

(* A length that is not 4 to 40 in words, for which the function returns   *)
(* early, is none that an IHL announces.                                   *)
WalkInit(lists, start) ==
  /\ o \in lists
  /\ i = 0 /\ turns = 0 /\ ret = FALSE /\ failed = FALSE
  /\ at = start

Return(b) == at' = "done" /\ ret' = b

(* The loop is over: its turns, or the options.  Mutant: a turn for each   *)
(* word is taken to be enough.                                             *)
MutTurns == MaxOptlen \div 4
Turns == MaxOptlen
Exit ==
  /\ at = "walk" /\ (turns = Turns \/ i >= optlen)
  /\ Return(FALSE) /\ UNCHANGED <<o, i, turns, failed>>

LoadFails ==
  /\ at = "walk" /\ turns < Turns /\ i < optlen
  /\ failed' = TRUE /\ Return(TRUE) /\ UNCHANGED <<o, i, turns>>

(* What one turn makes of the option at j: the walk goes on behind it, or  *)
(* it ends here.                                                           *)
Behind(j) == j + Byte(j + 1)

Malformed(j) == j + 1 >= optlen \/ Byte(j + 1) < 2

Turn ==
  /\ at = "walk" /\ turns < Turns /\ i < optlen
  /\ CASE Byte(i) = 0 -> Return(FALSE) /\ UNCHANGED <<i, turns>>
       [] Byte(i) = 1 -> i' = i + 1 /\ turns' = turns + 1 /\ UNCHANGED <<at, ret>>
       [] Byte(i) \in {IPOPT_LSRR_T, IPOPT_SSRR_T} -> Return(TRUE) /\ UNCHANGED <<i, turns>>
       [] OTHER -> IF Malformed(i) THEN Return(TRUE) /\ UNCHANGED <<i, turns>>
                   ELSE i' = Behind(i) /\ turns' = turns + 1 /\ UNCHANGED <<at, ret>>
  /\ UNCHANGED <<o, failed>>

WalkStep == Exit \/ LoadFails \/ Turn

-----------------------------------------------------------------------------
(* RFC 791: what the options are.  An option whose length runs past the    *)
(* end of the list makes the list malformed.                               *)
ReadingFrom[j \in 1..(optlen + 1)] ==
  IF j = optlen + 1 \/ o[j] = 0 THEN "plain"
  ELSE IF o[j] = 1 THEN ReadingFrom[j + 1]
  ELSE IF o[j] \in {131, 137} THEN "route"
  ELSE IF j = optlen \/ o[j + 1] < 2 THEN "malformed"
  ELSE IF j + o[j + 1] > optlen + 1 THEN "overrun"
  ELSE ReadingFrom[j + o[j + 1]]
Reading == ReadingFrom[1]

(* A source route is found wherever it stands in the list, and so is an    *)
(* option without a valid length: no turn of the bounded loop is missing   *)
(* to reach it.  Options that are neither do not cost the packet.          *)
RouteIsFound ==
  at = "done" =>
    /\ Reading \in {"route", "malformed"} => ret
    /\ Reading = "plain" => ~ret \/ failed

(* "Returns true when one is present or the option list is malformed"      *)
(* (clat.c:232-233).                                                       *)
MalformedIsRefused == at = "done" /\ Reading \in {"malformed", "overrun"} => ret
=============================================================================
