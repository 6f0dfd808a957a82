----------------------------- MODULE Connector ------------------------------
(* ws::ConnectorImpl (include/util/asio/ws/connector.hpp): asyncConnect keeps*)
(* each connection it starts, with the handler to call, in a map of nascent  *)
(* connections; the open and fail callbacks and close() take them out.       *)
(*                                                                           *)
(* asyncConnect and close only post: the map is touched on the io_service's  *)
(* thread alone, and each callback or posted function is one step.           *)
EXTENDS Naturals, Sequences, SequencesExt, FiniteSets

CONSTANTS MaxConnects,   \* bound: calls of asyncConnect
          MaxCloses      \* bound: calls of close

ASSUME BoundAssumption == MaxConnects \in Nat /\ MaxCloses \in Nat

VARIABLES tasks,        \* functions posted to the io_service
          nascent,      \* mNascentConnections: connections, each with its
                        \* handler; connection n is the one call n got
          session,      \* websocketpp's state of each connection: "none",
                        \* "connecting", "open", "failed"
          hooked,       \* connections whose open and fail handlers are set
          attached,     \* connections given to the message queue of the call
          owner,        \* does the Connector object exist?
          connects, closes,  \* calls of asyncConnect and close so far
          results       \* history: calls of handlers, in order

vars == <<tasks, nascent, session, hooked, attached, owner, connects, closes,
          results>>
counts == <<connects, closes>>
Call == 1..MaxConnects

Init ==
    /\ tasks = <<>> /\ nascent = {}
    /\ session = [n \in Call |-> "none"] /\ hooked = {} /\ attached = {}
    /\ owner = TRUE /\ connects = 0 /\ closes = 0 /\ results = <<>>

Handler(n, ec) == [op |-> n, ec |-> ec]
IsTask(kind) == tasks # <<>> /\ Head(tasks).kind = kind

AsyncConnect ==
    /\ owner /\ connects < MaxConnects
    /\ connects' = connects + 1
    /\ tasks' = Append(tasks, [kind |-> "connect", op |-> connects'])
    /\ UNCHANGED <<nascent, session, hooked, attached, owner, closes, results>>

(* The posted half of asyncConnect; get_connection may refuse the address.   *)
(* A new connection starts with the client's open and fail handlers.         *)
NoRefusal(n) == results                          \* mutant of Refusal
Refusal(n) == Append(results, Handler(n, "refused"))

RunConnect ==
    /\ IsTask("connect")
    /\ tasks' = Tail(tasks)
    /\ LET n == Head(tasks).op
       IN  \/ /\ results' = Refusal(n)
              /\ UNCHANGED <<nascent, session, hooked>>
           \/ /\ nascent' = nascent \union {n}
              /\ session' = [session EXCEPT ![n] = "connecting"]
              /\ hooked' = hooked \union {n}
              /\ UNCHANGED results
    /\ UNCHANGED <<attached, owner, counts>>

(* close() only posts. *)
Close ==
    /\ owner /\ closes < MaxCloses
    /\ closes' = closes + 1
    /\ tasks' = Append(tasks, [kind |-> "close"])
    /\ UNCHANGED <<nascent, session, hooked, attached, owner, connects,
                   results>>

(* The Connector's destructor, through TransparentService::destroy. *)
Destroy ==
    /\ owner
    /\ owner' = FALSE
    /\ tasks' = Append(tasks, [kind |-> "close"])
    /\ UNCHANGED <<nascent, session, hooked, attached, counts, results>>

(* The posted half of close(): handlers are taken off the connections, which *)
(* are closed (which websocketpp may refuse for a handshake under way); their*)
(* operations are aborted, in the order of the map's keys, which are         *)
(* pointers.                                                                 *)
HookedStill == hooked              \* mutant of Unhooked: callbacks stay set
Unhooked == hooked \ nascent
RunClose ==
    /\ IsTask("close")
    /\ tasks' = Tail(tasks)
    /\ \E order \in SetToSeqs(nascent) :
           results' = results \o
               [i \in DOMAIN order |-> Handler(order[i], "aborted")]
    /\ hooked' = Unhooked
    /\ \E shut \in SUBSET nascent :
           session' = [n \in Call |->
                          IF n \in shut THEN "failed" ELSE session[n]]
    /\ nascent' = {}
    /\ UNCHANGED <<attached, owner, counts>>

(* The posted end of handleOpenOrFail. *)
RunUnhook ==
    /\ IsTask("unhook")
    /\ tasks' = Tail(tasks)
    /\ hooked' = hooked \ {Head(tasks).op}
    /\ UNCHANGED <<nascent, session, attached, owner, counts, results>>

-----------------------------------------------------------------------------
(* handleOpen and handleFail of connection n, which websocketpp calls at     *)
(* most once between them: the message queue gets the connection even when it*)
(* failed, then the handler is called.                                       *)
KeepNascent(n) == nascent     \* mutant of Erased: the entry stays in the map
Erased(n) == nascent \ {n}

FailureUnnamed == [open |-> "ok", failed |-> "ok"]   \* mutant of Outcome
Outcome == [open |-> "ok", failed |-> "failed"]

HandleOpenOrFail(n, ec) ==
    /\ nascent' = Erased(n)
    /\ tasks' = Append(tasks, [kind |-> "unhook", op |-> n])
    /\ attached' = attached \union {n}
    /\ results' = Append(results, Handler(n, ec))

(* handleFail makes an error up when the transport recorded none.  A callback*)
(* for a connection that is not in the map only logs.                        *)
HandshakeEnds(n, to) ==
    /\ session[n] = "connecting"
    /\ session' = [session EXCEPT ![n] = to]
    /\ \/ n \in hooked \intersect nascent /\ HandleOpenOrFail(n, Outcome[to])
       \/ /\ n \notin hooked \intersect nascent
          /\ UNCHANGED <<nascent, tasks, attached, results>>
    /\ UNCHANGED <<hooked, owner, counts>>

RunTask == RunConnect \/ RunClose \/ RunUnhook

Next ==
    \/ AsyncConnect \/ Close \/ Destroy \/ RunTask
    \/ \E n \in Call, to \in {"open", "failed"} : HandshakeEnds(n, to)

(* The io_service runs what is posted; websocketpp's timers end a handshake. *)
Fairness ==
    /\ WF_vars(RunTask)
    /\ \A n \in Call :
           WF_vars(\E to \in {"open", "failed"} : HandshakeEnds(n, to))

Spec == Init /\ [][Next]_vars /\ Fairness
-----------------------------------------------------------------------------
(* Type invariant. *)
TypeOK ==
    /\ tasks \in Seq([kind : {"connect", "unhook"}, op : Call]
                     \union [kind : {"close"}])
    /\ {nascent, hooked, attached} \subseteq SUBSET Call
    /\ session \in [Call -> {"none", "connecting", "open", "failed"}]
    /\ owner \in BOOLEAN
    /\ connects \in 0..MaxConnects /\ closes \in 0..MaxCloses
    /\ results \in Seq([op : Call,
                        ec : {"ok", "failed", "refused", "aborted"}])

Waiting(n) ==
    {i \in DOMAIN tasks : tasks[i].kind = "connect" /\ tasks[i].op = n}
Answers(n) == {i \in DOMAIN results : results[i].op = n}

(* Every connect issued is posted, nascent or completed, once: open, fail and*)
(* close() never both complete one, and none is dropped.                     *)
EachConnectOnce ==
    \A n \in Call :
        Cardinality(Waiting(n)) + Cardinality(nascent \cap {n})
            + Cardinality(Answers(n)) = IF n <= connects THEN 1 ELSE 0

(* Success means that the handshake succeeded and the message queue has the  *)
(* connection; an aborted or refused connect leaves its message queue alone, *)
(* which may be gone by then: the map refers to it by reference.             *)
VerdictIsTrue ==
    \A i \in DOMAIN results :
        LET n == results[i].op
        IN  CASE results[i].ec = "ok" -> session[n] = "open" /\ n \in attached
              [] results[i].ec \in {"aborted", "refused"} -> n \notin attached
              [] OTHER -> session[n] = "failed"

(* connector.hpp:168: the handlers of a connection, which hold the           *)
(* implementation, are destroyed, however the connect ends.                  *)
HandlersDestroyed == \A n \in Call : n \in hooked ~> n \notin hooked

(* Every connect calls its handler in the end. *)
ConnectEnds ==
    \A n \in Call :
        (n <= connects) ~> \E i \in DOMAIN results : results[i].op = n
=============================================================================
