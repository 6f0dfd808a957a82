------------------------------ MODULE Loggers -------------------------------
(* The loggers of handlers, in two frameworks that know nothing of each      *)
(* other: util::asio::addAssociatedLogger and getAssociatedLogger            *)
(* (include/util/asio/associatedlogger.hpp), through the wrappers that       *)
(* forward them, and composed::associated_logger, whose logger is a pointer  *)
(* that tasks keep (include/composed/associated_logger.hpp).  A logger is    *)
(* told by the attributes its records carry.                                 *)
CONSTANTS Threads,     \* threads, each with thread_local default loggers
          Handlers,    \* completion handlers of operations
          Attributes,
          None         \* no token, no logger

(* The initiating scope's logger, the one of a handler's own, which its      *)
(* copies share, and the default of a framework on a thread.                 *)
Scope == <<"scope", None>>
Own(h) == <<"own", h>>
Default(framework, t) == <<framework, t>>
Loggers == {Scope} \cup {Own(h) : h \in Handlers}
               \cup {Default(f, t) : f \in {"util", "composed"}, t \in Threads}

VARIABLES attributes,  \* of each logger
          token,       \* the logger copied into a LoggerCompletionToken
          kind,        \* of each handler: "idle", no operation started yet;
                       \* "plain"; "util", a LoggerHandler; "composed", of a
                       \* class that has a get_logger()
          lg,          \* the logger that the composed task of a handler keeps
          ended,       \* threads that are over
          meant,       \* history: attributes given to each operation, with its
                       \* logger and through it since
          dangled      \* history: handlers whose task used a dead logger

vars == <<attributes, token, kind, lg, ended, meant, dangled>>

Init ==
    /\ attributes = [l \in Loggers |-> {}] /\ meant = [h \in Handlers |-> {}]
    /\ token = None /\ kind = [h \in Handlers |-> "idle"] /\ ended = {}
    /\ lg = [h \in Handlers |-> None] /\ dangled = {}

Dead(l) == \E t \in ended : l = Default("composed", t)

(* util's, asked for on thread t; TransparentHandler and Operation answer    *)
(* with their handler's.                                                     *)
DefaultAssociatedLogger(t) == Default("util", t)
GetAssociatedLogger(h, t) ==
    IF kind[h] = "util" THEN Own(h) ELSE DefaultAssociatedLogger(t)

(* composed's, which a LoggerHandler has not opted into. *)
AssociatedLogger(h, t) ==
    IF kind[h] = "composed" THEN Own(h) ELSE Default("composed", t)

(* The scope's logger gets an attribute; its token copies the logger.        *)
Describe(a) ==
    /\ attributes' = [attributes EXCEPT ![Scope] = @ \cup {a}]
    /\ UNCHANGED <<token, kind, lg, ended, meant, dangled>>

AddAssociatedLogger ==
    /\ token' = [tags |-> attributes[Scope]]
    /\ UNCHANGED <<attributes, kind, lg, ended, meant, dangled>>

Begin(h, k, tags) ==
    /\ kind[h] = "idle" /\ kind' = [kind EXCEPT ![h] = k]
    /\ meant' = [meant EXCEPT ![h] = tags]
    /\ UNCHANGED <<token, lg, ended, dangled>>

(* LoggerHandler (LoggerCompletionToken) makes a logger of the handler's own.*)
ConvertByReference(h) ==   \* mutant of ConvertToken: the token has no copy
    /\ token # None /\ Begin(h, "util", token.tags)
    /\ attributes' = [attributes EXCEPT ![Own(h)] = attributes[Scope]]
ConvertToken(h) ==
    /\ token # None /\ Begin(h, "util", token.tags)
    /\ attributes' = [attributes EXCEPT ![Own(h)] = token.tags]

(* A handler with a get_logger() brings a source that lives as long as it.   *)
InitiateWithLogger(h, tags) ==
    /\ Begin(h, "composed", tags)
    /\ attributes' = [attributes EXCEPT ![Own(h)] = tags]

InitiatePlain(h) == Begin(h, "plain", {}) /\ UNCHANGED attributes

(* A composed task's constructor, which may keep the logger: copying the     *)
(* wrapper copies the pointer.                                               *)
KeepLogger(h, t) ==
    /\ kind[h] # "idle" /\ lg[h] = None /\ t \notin ended
    /\ lg' = [lg EXCEPT ![h] = AssociatedLogger(h, t)]
    /\ UNCHANGED <<attributes, token, kind, ended, meant, dangled>>

(* add_attribute on the logger l of an operation: meant for the operation,   *)
(* unless l is the default of the framework that its handler is not of.      *)
AddAttribute(h, framework, l, a) ==
    /\ attributes' = [attributes EXCEPT ![l] = @ \cup {a}]
    /\ meant' = [meant EXCEPT ![h] = IF kind[h] = framework THEN @ \cup {a}
                                                            ELSE @]

(* On thread t: through a copy of the handler, or by its task, which runs on *)
(* other threads than the one it was made on.  What a task does through a    *)
(* pointer into a thread that has ended is recorded, and its effect left out.*)
Annotate(h, t, a) ==
    /\ kind[h] # "idle" /\ t \notin ended
    /\ AddAttribute(h, "util", GetAssociatedLogger(h, t), a)
    /\ UNCHANGED <<token, kind, lg, ended, dangled>>
TaskAnnotates(h, a) ==
    /\ lg[h] # None
    /\ IF Dead(lg[h])
       THEN dangled' = dangled \cup {h} /\ UNCHANGED <<attributes, meant>>
       ELSE AddAttribute(h, "composed", lg[h], a) /\ UNCHANGED dangled
    /\ UNCHANGED <<token, kind, lg, ended>>

EndThread(t) ==
    /\ ended' = ended \cup {t}
    /\ UNCHANGED <<attributes, token, kind, lg, meant, dangled>>

Next ==
    \/ AddAssociatedLogger
    \/ \E t \in Threads : EndThread(t)
    \/ \E a \in Attributes : Describe(a)
    \/ \E h \in Handlers :
           \/ ConvertToken(h) \/ InitiatePlain(h)
           \/ \E tags \in SUBSET Attributes : InitiateWithLogger(h, tags)
           \/ \E t \in Threads : KeepLogger(h, t)
           \/ \E a \in Attributes : TaskAnnotates(h, a)
           \/ \E t \in Threads, a \in Attributes : Annotate(h, t, a)

Spec == Init /\ [][Next]_vars
-----------------------------------------------------------------------------
(* In the framework that its handler is of, an operation's records say what  *)
(* was said of it when it was given its logger, and what was added through   *)
(* that since, by whatever thread: nothing of another operation that shares  *)
(* its token, of the scope later, or of a thread's default logger.  Its task *)
(* never uses a logger that is gone.  That holds of handlers that have a     *)
(* get_logger(), and of no others: a task keeps a pointer to the default     *)
(* logger of the thread it is made on, that of a LoggerHandler included.     *)
OperationsKeepTheirLogger ==
    /\ \A h \in Handlers : attributes[Own(h)] = meant[h]
    /\ \A h \in dangled : kind[h] \in {"plain", "util"}
=============================================================================
