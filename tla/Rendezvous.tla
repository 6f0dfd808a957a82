----------------------------- MODULE Rendezvous -----------------------------
(* What a queue of consumers and producers promises its users, with nothing  *)
(* said of how: consumers and data are served in the order they came, each   *)
(* consumer gets one datum and each datum one consumer, and nobody gets to   *)
(* call in while a consumer and a datum are both waiting, until the copy of  *)
(* an element fails: then a pair may stay waiting, but not out of turn.      *)
EXTENDS Sequences, Naturals

CONSTANTS Handlers,   \* consuming function objects
          Data        \* data tuples

VARIABLES asked,      \* the handlers passed to consume, in call order
          offered,    \* the data passed to produce, in call order
          served,     \* the <<handler, datum>> invocations, in order
          failed      \* has a copy failed?

vars == <<asked, offered, served, failed>>

Waiting == Len(served) < Len(asked) /\ Len(served) < Len(offered)

Init == asked = <<>> /\ offered = <<>> /\ served = <<>> /\ failed = FALSE

Ask(h) ==
    /\ failed \/ ~Waiting
    /\ asked' = Append(asked, h)
    /\ UNCHANGED <<offered, served, failed>>

Offer(d) ==
    /\ failed \/ ~Waiting
    /\ offered' = Append(offered, d)
    /\ UNCHANGED <<asked, served, failed>>

Serve ==
    /\ Waiting
    /\ served' = Append(served,
                        <<asked[Len(served) + 1], offered[Len(served) + 1]>>)
    /\ UNCHANGED <<asked, offered, failed>>

Fail ==
    /\ Waiting
    /\ failed' = TRUE
    /\ UNCHANGED <<asked, offered, served>>

Next == \/ \E h \in Handlers : Ask(h)
        \/ \E d \in Data : Offer(d)
        \/ Serve \/ Fail

Safety == Init /\ [][Next]_vars

Spec == Safety /\ WF_vars(Serve /\ ~failed)
=============================================================================
