------------------------------ MODULE Acceptor ------------------------------
(* ws::AcceptorImpl (include/util/asio/ws/acceptor.hpp): handshakes finish on*)
(* the io_service's thread and the connections they yield meet the calls of  *)
(* asyncAccept in a ProducerConsumerQueue; close() drains it.                *)
(*                                                                           *)
(* asyncAccept and close touch the queue on the thread that calls them.  A   *)
(* user must not let that coincide with the io_service's thread, for the     *)
(* queue takes no lock: here every call is one step.  Called on the          *)
(* io_service's thread the handlers they complete run at once, on another    *)
(* they are posted.  mConnectionQueue is given by its two halves, of which   *)
(* one is empty whenever a call begins (ProducerConsumerQueue).              *)
EXTENDS Naturals, Sequences, SequencesExt, FiniteSets, Numbering

CONSTANTS Connections,  \* connections peers open
          MaxAccepts,   \* bound: calls of asyncAccept
          MaxCloses     \* bound: calls of close

ASSUME BoundAssumption == MaxAccepts \in Nat /\ MaxCloses \in Nat
ASSUME ConnectionAssumption == "none" \notin Connections

VARIABLES listening,    \* is the server accepting connections?
          session,      \* websocketpp's state of each connection: "none",
                        \* "connecting", "open", "failed" or "closed"
          transportEc,  \* connections whose transport has recorded an error
          waiting,      \* mConnectionQueue: accepts waiting for a connection
          surplus,      \* mConnectionQueue: [ec, con] waiting for an accept
          tasks,        \* functions posted to the io_service
          owner,        \* does the Acceptor object exist?
          accepts,      \* calls of asyncAccept so far: the n-th is accept n
          closes,       \* calls of close so far
          mq,           \* the connection of each accept's message queue
          results,      \* history: accepts completed, with their error
          finished,     \* history: handshakes finished so far
          number,       \* history: which one each connection's was; 0: none yet
          matched,      \* history: the numbers of the connections that accepts
                        \* took, in that order
          late          \* history: what came to an acceptor already closed:
                        \* connections that were queued, accepts issued

net == <<session, transportEc>>
queue == <<waiting, surplus>>
handshakes == <<finished, number>>
vars == <<listening, session, transportEc, waiting, surplus, tasks, owner,
          accepts, closes, mq, results, finished, number, matched, late>>

None == "none"
Accept == 1..MaxAccepts

Init ==
    /\ listening = FALSE
    /\ session = [c \in Connections |-> "none"] /\ transportEc = {}
    /\ waiting = <<>> /\ surplus = <<>> /\ tasks = <<>>
    /\ owner = TRUE /\ accepts = 0 /\ closes = 0
    /\ mq = [a \in Accept |-> None] /\ results = <<>>
    /\ finished = 0 /\ number = [c \in Connections |-> 0]
    /\ matched = <<>>
    /\ late = [connections |-> {}, accepts |-> {}]

-----------------------------------------------------------------------------
(* handler(ec) of accept a: called at once on the io_service's thread,       *)
(* posted from another.  done and queued are the results and tasks so far.   *)
Finish(list, here, done, queued) ==
    \/ here /\ results' = done \o list /\ tasks' = queued
    \/ ~here /\ results' = done
       /\ tasks' = queued \o
              [i \in DOMAIN list |->
                  [kind |-> "handler", op |-> list[i].op, ec |-> list[i].ec]]

(* The consumer asyncAccept queues, given a datum. *)
GiveNoPointer(a, d) ==   \* mutant of Give: no setConnectionPtr
    /\ mq' = mq
    /\ matched' = Append(matched, number[d.con])
Give(a, d) ==
    /\ mq' = IF d.ec = "ok" THEN [mq EXCEPT ![a] = d.con] ELSE mq
    /\ matched' = Append(matched, number[d.con])

Done(a, d) == <<[op |-> a, ec |-> d.ec]>>

Listen ==
    /\ owner /\ ~listening /\ closes = 0
    /\ listening' = TRUE
    /\ UNCHANGED <<net, queue, tasks, owner, accepts, closes, mq, results,
                   handshakes, matched, late>>

TakeNewest == Last(surplus)   \* mutant of Taken
Taken == Head(surplus)

AsyncAccept(here) ==
    /\ owner /\ accepts < MaxAccepts
    /\ accepts' = accepts + 1
    /\ late' = IF closes = 0 THEN late
               ELSE [late EXCEPT !.accepts = @ \union {accepts'}]
    /\ \/ /\ surplus = <<>>
          /\ waiting' = Append(waiting, accepts')
          /\ UNCHANGED <<surplus, tasks, mq, results, matched>>
       \/ /\ surplus # <<>>
          /\ Give(accepts', Taken)
          /\ Finish(Done(accepts', Taken), here, results, tasks)
          /\ surplus' = Tail(surplus)
          /\ UNCHANGED waiting
    /\ UNCHANGED <<listening, net, owner, closes, handshakes>>

(* The posted half of handleOpen: produce(con->get_transport_ec(), con). *)
ProduceTo(c, rest) ==
    LET d == [con |-> c,
              ec |-> IF c \in transportEc THEN "transport" ELSE "ok"]
    IN  \/ /\ waiting = <<>>
           /\ surplus' = Append(surplus, d)
           /\ tasks' = rest
           /\ UNCHANGED <<waiting, mq, results, matched>>
        \/ /\ waiting # <<>>
           /\ Give(Head(waiting), d)
           /\ Finish(Done(Head(waiting), d), TRUE, results, rest)
           /\ waiting' = Tail(waiting)
           /\ UNCHANGED surplus

RunProduceLater ==   \* mutant of RunProduce: what was posted posts again
    /\ tasks # <<>> /\ Head(tasks).kind = "produce"
    /\ \/ /\ "again" \notin DOMAIN Head(tasks)
          /\ tasks' = Append(Tail(tasks), Head(tasks) @@ [again |-> TRUE])
          /\ UNCHANGED <<queue, mq, results, matched>>
       \/ /\ "again" \in DOMAIN Head(tasks)
          /\ ProduceTo(Head(tasks).con, Tail(tasks))
    /\ UNCHANGED <<listening, net, owner, accepts, closes, handshakes, late>>

RunProduce ==
    /\ tasks # <<>> /\ Head(tasks).kind = "produce"
    /\ ProduceTo(Head(tasks).con, Tail(tasks))
    /\ late' = IF closes = 0 THEN late
               ELSE [late EXCEPT !.connections = @ \union {Head(tasks).con}]
    /\ UNCHANGED <<listening, net, owner, accepts, closes, handshakes>>

RunHandler ==
    /\ tasks # <<>> /\ Head(tasks).kind = "handler"
    /\ results' = Append(results,
                         [op |-> Head(tasks).op, ec |-> Head(tasks).ec])
    /\ tasks' = Tail(tasks)
    /\ UNCHANGED <<listening, net, queue, owner, accepts, closes, mq,
                   handshakes, matched, late>>

(* close(): waiting accepts are aborted, queued connections closed unless    *)
(* they carry an error.                                                      *)
AbortedOne ==              \* mutant of Aborted: the loop runs once
    [i \in DOMAIN waiting \intersect {1} |->
        [op |-> waiting[i], ec |-> "aborted"]]
Aborted == [i \in DOMAIN waiting |-> [op |-> waiting[i], ec |-> "aborted"]]
NoneDiscarded == {}        \* mutant of Discarded: dropped, never closed
Discarded ==
    {surplus[i].con : i \in {j \in DOMAIN surplus : surplus[j].ec = "ok"}}

Drain(here) ==
    /\ listening' = FALSE
    /\ Finish(Aborted, here, results, tasks)
    /\ waiting' = <<>> /\ surplus' = <<>>
    /\ session' = [c \in Connections |->
                     IF c \in Discarded /\ session[c] = "open" THEN "closed"
                                                               ELSE session[c]]
    /\ UNCHANGED <<transportEc, accepts, mq, handshakes, matched, late>>

Close(here) ==
    /\ owner /\ closes < MaxCloses
    /\ closes' = closes + 1
    /\ Drain(here)
    /\ UNCHANGED owner

(* The Acceptor's destructor, through TransparentService::destroy. *)
Destroy(here) ==
    /\ owner
    /\ owner' = FALSE /\ closes' = closes + 1
    /\ Drain(here)

-----------------------------------------------------------------------------
(* The peers and websocketpp's server.  A handshake under way when the server*)
(* stops listening still finishes; either way handleOpen is called, and posts*)
(* the rest of its work.                                                     *)
Connect(c) ==
    /\ listening /\ session[c] = "none"
    /\ session' = [session EXCEPT ![c] = "connecting"]
    /\ UNCHANGED <<listening, transportEc, queue, tasks, owner, accepts,
                   closes, mq, results, handshakes, matched, late>>

HandshakeEnds(c, to) ==
    /\ session[c] = "connecting"
    /\ session' = [session EXCEPT ![c] = to]
    /\ tasks' = Append(tasks, [kind |-> "produce", con |-> c])
    /\ finished' = finished + 1
    /\ number' = [number EXCEPT ![c] = finished']
    /\ UNCHANGED <<listening, transportEc, queue, owner, accepts, closes, mq,
                   results, matched, late>>

TransportFails(c) ==
    /\ session[c] \in {"connecting", "open"} /\ c \notin transportEc
    /\ transportEc' = transportEc \union {c}
    /\ UNCHANGED <<listening, session, queue, tasks, owner, accepts, closes,
                   mq, results, handshakes, matched, late>>

RunTask == RunProduce \/ RunHandler

Next ==
    \/ Listen \/ RunTask
    \/ \E here \in BOOLEAN : AsyncAccept(here) \/ Close(here) \/ Destroy(here)
    \/ \E c \in Connections :
           \/ Connect(c) \/ TransportFails(c)
           \/ \E to \in {"open", "failed"} : HandshakeEnds(c, to)

(* The io_service runs what is posted. *)
Spec == Init /\ [][Next]_vars /\ WF_vars(RunTask)
-----------------------------------------------------------------------------
(* Type invariant. *)
Verdict == {"ok", "transport", "aborted"}
TypeOK ==
    /\ {listening, owner} \subseteq BOOLEAN
    /\ session \in [Connections ->
                       {"none", "connecting", "open", "failed", "closed"}]
    /\ transportEc \subseteq Connections
    /\ waiting \in Seq(Accept)
    /\ surplus \in Seq([ec : {"ok", "transport"}, con : Connections])
    /\ tasks \in Seq([kind : {"produce"}, con : Connections]
                     \union [kind : {"handler"}, op : Accept, ec : Verdict])
    /\ accepts \in 0..MaxAccepts /\ closes \in 0..(MaxCloses + 1)
    /\ mq \in [Accept -> Connections \union {None}]
    /\ results \in Seq([op : Accept, ec : Verdict])
    /\ finished \in Nat /\ number \in [Connections -> 0..finished]
    /\ matched \in Seq(0..finished)
    /\ late \in [connections : SUBSET Connections, accepts : SUBSET Accept]

(* Where the accepts are, and the connections, by number. *)
Handlers(s) ==
    [i \in DOMAIN s |-> IF s[i].kind = "handler" THEN s[i].op ELSE 0]
Ops(s) == [i \in DOMAIN s |-> s[i].op]
Produces(s) ==
    [i \in DOMAIN s |-> IF s[i].kind = "produce" THEN number[s[i].con] ELSE 0]
Queued(s) == [i \in DOMAIN s |-> number[s[i].con]]

(* Connections go to accepts in the order their handshakes finished, and     *)
(* until a close() none is skipped: what was not taken is still queued or    *)
(* posted.                                                                   *)
Line == matched \o Queued(surplus) \o Produces(tasks)
ConnectionsInOrder ==
    /\ InOrder(Line)
    /\ closes = 0 => Numbers(Line) = 1..finished

(* Every accept issued is waiting, about to complete, or completed, once; a  *)
(* message queue gets a connection exactly if its accept succeeds, and no    *)
(* connection goes to two.                                                   *)
Everywhere == waiting \o Handlers(tasks) \o Ops(results)
EachAcceptOnce ==
    /\ Numbers(Everywhere) = 1..accepts /\ Once(Everywhere)
    /\ \A i \in DOMAIN results :
           results[i].ec = "ok" <=> mq[results[i].op] # None
    /\ \A a, b \in Accept : mq[a] # None /\ mq[a] = mq[b] => a = b

(* A closed acceptor leaves no open connection without an owner, but for a   *)
(* handshake that was under way or just over when close() was called: that   *)
(* one is queued, and nobody takes or closes it.                             *)
CloseLeavesOnlyLate ==
    closes > 0 =>
        \A c \in Connections \ transportEc :
            session[c] = "open" => \/ \E a \in Accept : mq[a] = c
                                   \/ c \in late.connections
                                   \/ \E i \in DOMAIN tasks :
                                          /\ tasks[i].kind = "produce"
                                          /\ tasks[i].con = c

(* close() ends every accept issued before it. *)
Completed(a) == \E i \in DOMAIN results : results[i].op = a
CloseEndsAccepts ==
    \A a \in Accept :
        (closes > 0 /\ a <= accepts /\ a \notin late.accepts) ~> Completed(a)
=============================================================================
