------------------------------ MODULE Session -------------------------------
(* A ws::Acceptor and the ws::MessageQueue that its accepts give a connection*)
(* to, on one io_service (tests/asio-ws.cpp).  tasks is the queue of the     *)
(* io_service, in which the posted functions of both and the data read from  *)
(* the connection wait for their turn together.  The connection belongs to   *)
(* the acceptor's world until its handshake is over, to the queue's then.    *)
EXTENDS Naturals, Sequences, SequencesExt, FiniteSets, Numbering

CONSTANTS Connections,  \* connections peers open
          Conn,         \* the one whose messages and queue are followed
          MaxAccepts,   \* bound: calls of asyncAccept
          MaxCloses,    \* bound: calls of close, of the acceptor's and of the
                        \* queue's
          MaxReceives,  \* bound: calls of asyncReceive
          MaxMessages   \* bound: messages the peer sends

ASSUME ConnectionAssumption == Conn \in Connections /\ "none" \notin Connections
ASSUME BoundAssumption ==
    {MaxAccepts, MaxCloses, MaxReceives, MaxMessages} \subseteq Nat

VARIABLES tasks,
          \* The acceptor.
          listening, session, transportEc, waiting, surplus, owner, accepts,
          closes, mq, results, finished, number, matched, late,
          \* The message queue.
          conn, broken, mPtr, readers, data, mqOwner, issued, sends, mqCloses,
          received, sent, arrived, unheard,
          \* The peer, and history.
          peerSent,     \* messages the peer has sent
          inTime        \* was an accept waiting for Conn when its handshake
                        \* was over?

acceptorVars == <<listening, session, transportEc, waiting, surplus, owner,
                  accepts, closes, mq, results, finished, number, matched,
                  late>>
queueVars == <<conn, broken, mPtr, readers, data, mqOwner, issued, sends,
               mqCloses, received, sent, arrived, unheard>>
peerVars == <<peerSent, inTime>>
vars == <<tasks, acceptorVars, queueVars, peerVars>>

A == INSTANCE Acceptor
Q == INSTANCE MessageQueue
     WITH MsgSizes <- {1}, BufSize <- 1, MaxOutstanding <- 1, MaxSends <- 0,
          transportEc <- broken, waiting <- readers, owner <- mqOwner,
          closes <- mqCloses, results <- received

Init == A!Init /\ Q!Init /\ peerSent = 0 /\ inTime = FALSE

IsTask(kind) == tasks # <<>> /\ Head(tasks).kind = kind

-----------------------------------------------------------------------------
(* The consumer an accept queued sets the pointer of its message queue before*)
(* it calls the accept's handler: one step of both.                          *)
Has(queues) == Conn \in Range(queues)
Consumer ==
    \/ Has(mq') = Has(mq) /\ UNCHANGED queueVars
    \/ Has(mq') # Has(mq) /\ Q!Attach

AcceptorCalled(here) ==
    /\ A!AsyncAccept(here) \/ A!Close(here)
    /\ Consumer
    /\ UNCHANGED peerVars

AcceptorRuns ==
    /\ A!RunTask
    /\ Consumer
    /\ UNCHANGED peerVars

Listen == A!Listen /\ UNCHANGED <<queueVars, peerVars>>

(* The handshakes.  Those that finished before Conn have their connections,  *)
(* posted, ahead of it in the queue.                                         *)
Ahead == Cardinality({i \in DOMAIN tasks : tasks[i].kind = "produce"})

Handshake(c) ==
    /\ \/ A!Connect(c) /\ inTime' = inTime
       \/ /\ A!HandshakeEnds(c, "open")
          /\ inTime' = IF c = Conn THEN Len(waiting) > Ahead ELSE inTime
    /\ UNCHANGED <<queueVars, peerSent>>

TransportFails ==
    /\ A!TransportFails(Conn) /\ Q!TransportFails
    /\ UNCHANGED peerVars

-----------------------------------------------------------------------------
(* The user of the message queue: its handlers and its close().              *)
QueueCalled ==
    /\ UNCHANGED <<acceptorVars, peerVars>>
    /\ Q!AsyncReceive \/ Q!Close

QueueRuns ==
    /\ UNCHANGED <<acceptorVars, peerVars>>
    /\ Q!RunTask

(* The peer sends once it has the answer to its handshake: what it sends is  *)
(* read after handleOpen has posted, and waits its turn.                     *)
PeerSends ==
    /\ session[Conn] = "open" /\ conn = "open" /\ ~broken
    /\ peerSent < MaxMessages
    /\ peerSent' = peerSent + 1
    /\ tasks' = Append(tasks, [kind |-> "read", msg |-> [id |-> peerSent',
                                                         size |-> 1]])
    /\ UNCHANGED <<acceptorVars, queueVars, inTime>>

(* The connection calls the message handler, if it has one and is open.      *)
Read ==
    /\ IsTask("read")
    /\ UNCHANGED <<acceptorVars, peerVars>>
    /\ \/ Q!Deliver(Head(tasks).msg, Tail(tasks))
       \/ /\ ~(mPtr /\ conn = "open")
          /\ tasks' = Tail(tasks) /\ UNCHANGED queueVars

SessionEnds ==
    /\ session[Conn] = "open"
    /\ UNCHANGED <<acceptorVars, peerVars>>
    /\ Q!Terminate

Runs == AcceptorRuns \/ QueueRuns \/ Read

Next ==
    \/ Listen \/ Runs \/ QueueCalled \/ PeerSends \/ TransportFails
    \/ SessionEnds
    \/ \E here \in BOOLEAN : AcceptorCalled(here)
    \/ \E c \in Connections : Handshake(c)

(* The io_service runs what waits for it, and the user reads on: the handler *)
(* of an accept and of each receive calls asyncReceive.                      *)
Fairness == WF_vars(Runs) /\ WF_vars(Q!AsyncReceive
                                     /\ UNCHANGED <<acceptorVars, peerVars>>)

Spec == Init /\ [][Next]_vars /\ Fairness
-----------------------------------------------------------------------------
(* The messages that receives have been given, by number. *)
Ids == Q!IdsOf(received \o tasks)

(* A reader gets what the peer sent in order and once, and until it closes   *)
(* the queue without a gap; and from the first message on if the accept was  *)
(* waiting when the handshake was over and the acceptor was not closed under *)
(* it: the posted half of handleOpen sets the queue's handlers before        *)
(* anything is read.  A connection that had to wait for its accept loses, for*)
(* good and unreported, what came before.                                    *)
ReadsFromTheFirst ==
    /\ InOrder(Ids)
    /\ mqCloses = 0 =>
           \A m, n \in Numbers(Ids) : m..n \subseteq Numbers(Ids)
    /\ inTime /\ closes = 0 /\ mqCloses = 0 /\ ~broken =>
           \A n \in Numbers(Ids) : 1..n \subseteq Numbers(Ids)

(* Whatever the peer of such a connection sends is read in the end, unless   *)
(* one side ends the connection first.                                       *)
Ended == conn # "open" \/ broken \/ closes > 0 \/ mqCloses > 0
ReadInTheEnd ==
    \A n \in 1..MaxMessages :
        (inTime /\ peerSent >= n) ~> (n \in Numbers(Ids) \/ Ended)
=============================================================================
