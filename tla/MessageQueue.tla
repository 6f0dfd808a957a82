---------------------------- MODULE MessageQueue ----------------------------
(* ws::MessageQueueImpl (include/util/asio/ws/messagequeue.hpp) on one       *)
(* websocketpp connection and one thread running the io_service.             *)
(*                                                                           *)
(* tasks is the io_service's queue of posted functions, run one at a time in *)
(* the order they were posted.  Callbacks of the connection come between two *)
(* tasks.  The consumers asyncReceive gives to mReceiveQueue only post, so   *)
(* no call of consume or produce nests in another here: each is one step, as *)
(* ProducerConsumerQueue shows, and mReceiveQueue is given by its two halves,*)
(* the receives waiting for data and the data waiting for a receive.         *)
EXTENDS Naturals, Sequences, SequencesExt, FiniteSets, Numbering

CONSTANTS MsgSizes,        \* payload sizes the peer sends
          BufSize,         \* size of the buffer of every asyncReceive
          MaxReceives,     \* bound: calls of asyncReceive
          MaxOutstanding,  \* how many receives the user keeps outstanding
          MaxSends,        \* bound: calls of asyncSend
          MaxMessages,     \* bound: messages the peer sends
          MaxCloses        \* bound: calls of close

ASSUME SizeAssumption == MsgSizes \subseteq Nat /\ BufSize \in Nat
ASSUME BoundAssumption ==
    {MaxReceives, MaxOutstanding, MaxSends, MaxMessages, MaxCloses}
        \subseteq Nat

VARIABLES conn,         \* session state of the connection (websocketpp)
          transportEc,  \* has the transport recorded an error?
          mPtr,         \* has setConnectionPtr been called?
          waiting,      \* mReceiveQueue: the receives waiting for a datum
          data,         \* mReceiveQueue: the data waiting for a receive
          tasks,        \* functions posted to the io_service
          owner,        \* does the MessageQueue object exist?
          issued,       \* receives issued so far: the n-th call is receive n
          sends,        \* sends issued so far
          closes,       \* calls of close so far
          results,      \* history: completions of receives, in order
          sent,         \* history: completions of sends, in order
          arrived,      \* history: messages handleMessage was given
          unheard       \* history: has the close of the connection gone by
                        \* before the handlers were set, or been discarded?

sending == <<sends, sent>>
network == <<conn, transportEc>>
queue == <<waiting, data>>
vars == <<conn, transportEc, mPtr, waiting, data, tasks, owner, issued, sends,
          closes, results, sent, arrived, unheard>>

Errors == {"ok", "message_size", "operation_aborted", "transport"}
NoMessage == [id |-> 0, size |-> 0]            \* the nullptr message
Message == [id : 1..MaxMessages, size : MsgSizes]
Datum == [ec : {"ok"}, msg : Message]
         \union [ec : {"operation_aborted", "transport"}, msg : {NoMessage}]

(* A posted asyncReceive, and the posted completion of one. *)
Receive(n) == [kind |-> "receive", op |-> n]
Complete(n, ec, msg, size) ==
    [kind |-> "complete", op |-> n, ec |-> ec, msg |-> msg, size |-> size]

Init ==
    /\ conn = "open" /\ transportEc = FALSE
    /\ mPtr = FALSE
    /\ waiting = <<>> /\ data = <<>> /\ tasks = <<>>
    /\ owner = TRUE /\ issued = 0 /\ sends = 0 /\ closes = 0
    /\ results = <<>> /\ sent = <<>> /\ arrived = <<>> /\ unheard = FALSE

-----------------------------------------------------------------------------
SmallerOf(a, b) == IF a < b THEN a ELSE b

(* What a receive's consumer posts when it is given a datum. *)
Consumed(n, d) ==
    IF d.ec = "ok"
    THEN Complete(n, IF d.msg.size <= BufSize THEN "ok" ELSE "message_size",
                  d.msg, SmallerOf(d.msg.size, BufSize))
    ELSE Complete(n, d.ec, NoMessage, 0)

(* mReceiveQueue.produce(d), posting into the task queue queued. *)
Produce(d, queued) ==
    \/ /\ waiting = <<>>
       /\ data' = Append(data, d)
       /\ tasks' = queued
       /\ UNCHANGED waiting
    \/ /\ waiting # <<>>
       /\ tasks' = Append(queued, Consumed(Head(waiting), d))
       /\ waiting' = Tail(waiting)
       /\ UNCHANGED data

(* mReceiveQueue.consume of receive n. *)
ConsumeNewest(n, queued) ==   \* mutant of Consume: takes data.back()
    \/ /\ data = <<>>
       /\ waiting' = Append(waiting, n)
       /\ tasks' = queued
       /\ UNCHANGED data
    \/ /\ data # <<>>
       /\ tasks' = Append(queued, Consumed(n, Last(data)))
       /\ data' = Front(data)
       /\ UNCHANGED waiting

Consume(n, queued) ==
    \/ /\ data = <<>>
       /\ waiting' = Append(waiting, n)
       /\ tasks' = queued
       /\ UNCHANGED data
    \/ /\ data # <<>>
       /\ tasks' = Append(queued, Consumed(n, Head(data)))
       /\ data' = Tail(data)
       /\ UNCHANGED waiting

-----------------------------------------------------------------------------
(* setConnectionPtr: called once, by the acceptor or the connector, maybe    *)
(* long after the connection opened.                                         *)
Attach ==
    /\ owner /\ ~mPtr
    /\ mPtr' = TRUE
    /\ unheard' = (conn = "closed")
    /\ UNCHANGED <<sending, network, queue, owner, issued, closes, results,
                   arrived>>

SetConnectionPtr == Attach /\ UNCHANGED tasks

Outstanding == issued - Len(results)

(* A reader that keeps up to MaxOutstanding receives outstanding and issues  *)
(* no more once one has failed.  asyncReceive only posts.                    *)
AsyncReceive ==
    /\ owner /\ mPtr
    /\ issued < MaxReceives /\ Outstanding < MaxOutstanding
    /\ \A i \in DOMAIN results : results[i].ec \in {"ok", "message_size"}
    /\ issued' = issued + 1
    /\ tasks' = Append(tasks, Receive(issued'))
    /\ UNCHANGED <<sending, network, mPtr, queue, owner, closes, results,
                   arrived, unheard>>

(* The posted half of asyncReceive. *)
ReceiveIgnoringTransport ==   \* mutant of RunReceive: no look at the transport
    /\ tasks # <<>> /\ Head(tasks).kind = "receive"
    /\ Consume(Head(tasks).op, Tail(tasks))
    /\ UNCHANGED <<sending, network, mPtr, owner, issued, closes, results,
                   arrived, unheard>>

RunReceive ==
    /\ tasks # <<>> /\ Head(tasks).kind = "receive"
    /\ LET n == Head(tasks).op
       IN  \/ /\ transportEc
              /\ tasks' = Append(Tail(tasks),
                                 Complete(n, "transport", NoMessage, 0))
              /\ UNCHANGED queue
           \/ /\ ~transportEc
              /\ Consume(n, Tail(tasks))
    /\ UNCHANGED <<sending, network, mPtr, owner, issued, closes, results,
                   arrived, unheard>>

RunComplete ==
    /\ tasks # <<>> /\ Head(tasks).kind = "complete"
    /\ results' = Append(results, Head(tasks))
    /\ tasks' = Tail(tasks)
    /\ UNCHANGED <<sending, network, mPtr, queue, owner, issued, closes,
                   arrived, unheard>>

(* asyncSend hands the payload to the connection and posts its verdict: the  *)
(* send fails, with an error code and not an exception, unless it is open.   *)
AsyncSend ==
    /\ owner /\ mPtr /\ sends < MaxSends
    /\ sends' = sends + 1
    /\ tasks' = Append(tasks,
                       [kind |-> "sent", op |-> sends', ok |-> conn = "open"])
    /\ UNCHANGED <<network, mPtr, queue, owner, issued, closes, results, sent,
                   arrived, unheard>>

RunSent ==
    /\ tasks # <<>> /\ Head(tasks).kind = "sent"
    /\ sent' = Append(sent, Head(tasks))
    /\ tasks' = Tail(tasks)
    /\ UNCHANGED <<network, mPtr, queue, owner, issued, sends, closes, results,
                   arrived, unheard>>

RunTask == RunReceive \/ RunComplete \/ RunSent

-----------------------------------------------------------------------------
(* The two loops of close(): every waiting receive is given operation_aborted*)
(* and posts its completion, or every queued datum is discarded.             *)
Aborted == [ec |-> "operation_aborted", msg |-> NoMessage]
DrainedInReverse ==   \* mutant of Drained
    Reverse([i \in DOMAIN waiting |-> Consumed(waiting[i], Aborted)])
Drained ==
    [i \in DOMAIN waiting |-> Consumed(waiting[i], Aborted)]

CloseDropsWaiting ==   \* mutant of CloseQueue: pops without a completion
    /\ waiting' = <<>>
    /\ data' = <<>>
    /\ UNCHANGED tasks

CloseQueue ==
    /\ tasks' = tasks \o Drained
    /\ waiting' = <<>>
    /\ data' = <<>>

CloseConnection ==
    conn' = IF mPtr /\ conn = "open" THEN "closing" ELSE conn

DiscardsNotice == \E i \in DOMAIN data : data[i].ec # "ok"

Close ==
    /\ owner /\ closes < MaxCloses
    /\ closes' = closes + 1
    /\ CloseQueue /\ CloseConnection
    /\ unheard' = (unheard \/ DiscardsNotice)
    /\ UNCHANGED <<sending, transportEc, mPtr, owner, issued, results,
                   arrived>>

(* The MessageQueue's destructor: TransparentService::destroy closes the     *)
(* implementation and drops its pointer to it.                               *)
Destroy ==
    /\ owner
    /\ owner' = FALSE
    /\ CloseQueue /\ CloseConnection
    /\ unheard' = (unheard \/ DiscardsNotice)
    /\ UNCHANGED <<sending, transportEc, mPtr, issued, closes, results,
                   arrived>>

-----------------------------------------------------------------------------
(* The connection: it drops messages while no handler is set and once it is  *)
(* no longer open.                                                           *)
NextId == Len(arrived) + 1

Deliver(msg, queued) ==
    /\ conn = "open" /\ mPtr
    /\ arrived' = Append(arrived, msg)
    /\ Produce([ec |-> "ok", msg |-> msg], queued)
    /\ UNCHANGED <<sending, network, mPtr, owner, issued, closes, results,
                   unheard>>

HandleMessage(size) ==
    /\ Len(arrived) < MaxMessages
    /\ Deliver([id |-> NextId, size |-> size], tasks)

TransportFails ==
    /\ conn # "closed" /\ ~transportEc
    /\ transportEc' = TRUE
    /\ UNCHANGED <<sending, conn, mPtr, queue, tasks, owner, issued, closes,
                   results, arrived, unheard>>

(* The session ends, after a closing handshake, a timeout or an error; the   *)
(* close handler, when set, is called once.                                  *)
CloseNotice ==
    [ec |-> IF transportEc THEN "transport" ELSE "operation_aborted",
     msg |-> NoMessage]

Terminate ==
    /\ conn # "closed"
    /\ conn' = "closed"
    /\ \/ mPtr /\ Produce(CloseNotice, tasks)
       \/ ~mPtr /\ UNCHANGED <<sending, queue, tasks>>
    /\ UNCHANGED <<sending, transportEc, mPtr, owner, issued, closes, results,
                   arrived, unheard>>

Next ==
    \/ SetConnectionPtr \/ AsyncReceive \/ AsyncSend \/ RunTask
    \/ Close \/ Destroy
    \/ \E size \in MsgSizes : HandleMessage(size)
    \/ TransportFails \/ Terminate

(* The io_service runs what was posted; websocketpp's close timer ends a     *)
(* closing handshake, and a failed transport ends the session.  Nothing      *)
(* obliges the peer or the user to do anything.                              *)
Fairness ==
    /\ WF_vars(RunTask)
    /\ WF_vars(Terminate /\ (conn = "closing" \/ transportEc))

Spec == Init /\ [][Next]_vars /\ Fairness
-----------------------------------------------------------------------------
(* Type invariant. *)
Completion == [kind : {"complete"}, op : 1..MaxReceives, ec : Errors,
               msg : Message \union {NoMessage}, size : 0..BufSize]
Sent == [kind : {"sent"}, op : 1..MaxSends, ok : BOOLEAN]
TypeOK ==
    /\ conn \in {"open", "closing", "closed"}
    /\ {transportEc, mPtr, owner, unheard} \subseteq BOOLEAN
    /\ waiting \in Seq(1..MaxReceives) /\ data \in Seq(Datum)
    /\ tasks \in Seq(Completion \union Sent
                     \union [kind : {"receive"}, op : 1..MaxReceives])
    /\ issued \in 0..MaxReceives /\ sends \in 0..MaxSends
    /\ closes \in 0..MaxCloses
    /\ results \in Seq(Completion) /\ sent \in Seq(Sent)
    /\ arrived \in Seq(Message)

(* The numbers of the operations of some kinds that a sequence holds, and of *)
(* the messages it completes with: by place, with 0 where there is none.     *)
OpsOf(s, kinds) ==
    [i \in DOMAIN s |-> IF s[i].kind \in kinds THEN s[i].op ELSE 0]
IdsOf(s) ==
    [i \in DOMAIN s |-> IF s[i].kind = "complete" THEN s[i].msg.id ELSE 0]

(* Every receive and every send issued is in exactly one place: posted,      *)
(* waiting, about to complete, or completed, once; and sends complete in     *)
(* order.  No path of asyncReceive, handleMessage, handleClose or close drops*)
(* a handler or calls it twice.                                              *)
Receives == OpsOf(results, {"complete"})
            \o (OpsOf(tasks, {"receive", "complete"}) \o waiting)
Sendings == OpsOf(sent, {"sent"}) \o OpsOf(tasks, {"sent"})
EachHandlerOnce ==
    /\ Numbers(Receives) = 1..issued /\ Once(Receives)
    /\ Numbers(Sendings) = 1..sends /\ InOrder(Sendings)

(* The messages the connection delivered, and no others, reach the receives  *)
(* in order and once, and without a gap until the queue is closed, which     *)
(* discards.                                                                 *)
Stream == IdsOf(results) \o (IdsOf(tasks) \o [i \in DOMAIN data |-> data[i].msg.id])
Carried == {results[i].msg : i \in DOMAIN results}
           \union {data[i].msg : i \in DOMAIN data}
           \union {tasks[i].msg : i \in {j \in DOMAIN tasks :
                                            tasks[j].kind = "complete"}}
StreamInOrder ==
    /\ InOrder(Stream)
    /\ Carried \subseteq ToSet(arrived) \union {NoMessage}
    /\ closes = 0 /\ owner => Numbers(Stream) = 1..Len(arrived)

(* Receives complete in the order they were issued, through messages, local  *)
(* and remote close alike; only a transport error, which asyncReceive reports*)
(* past those already waiting, lets a later one overtake.                    *)
CompletesInCallOrder ==
    ~transportEc => InOrder(OpsOf(results, {"complete"})
                            \o OpsOf(tasks, {"complete"}))

(* Once the connection is closing, closed or broken, a receive completes or  *)
(* an earlier one was told of the end: a reader that keeps one outstanding   *)
(* always learns of it.  The exception is a connection that closed cleanly   *)
(* and unheard: before setConnectionPtr, or with close() discarding the      *)
(* notice.  With two receives outstanding, the second may wait for ever.     *)
Pending(n) == n <= issued /\ \A i \in DOMAIN results : results[i].op # n
EarlierTold(n) ==
    \E i \in DOMAIN results :
        /\ results[i].op < n
        /\ results[i].ec \in {"operation_aborted", "transport"}
ReceiveEnds ==
    \A n \in 1..MaxReceives :
        (Pending(n) /\ conn # "open")
            ~> (~Pending(n) \/ EarlierTold(n) \/ (unheard /\ ~transportEc))

(* Who holds a shared_ptr to the implementation: the MessageQueue, the tasks *)
(* and consumers of asyncReceive, and the connection's handlers, which live  *)
(* as long as the connection: as long as mPtr points to it.                  *)
ImplAlive ==
    \/ owner \/ mPtr \/ waiting # <<>>
    \/ \E i \in DOMAIN tasks : tasks[i].kind = "receive"

(* messagequeue.hpp:42: "mPtr's handlers have shared_ptrs back to this, so   *)
(* we need to break the cycle", says the destructor: once the MessageQueue   *)
(* is gone, its connection closed and nothing left to run, the implementation*)
(* would be freed.                                                           *)
DestroyedIsFreed ==
    ~owner /\ conn = "closed" /\ tasks = <<>> /\ waiting = <<>> => ~ImplAlive
=============================================================================
