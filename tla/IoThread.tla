------------------------------ MODULE IoThread ------------------------------
(* util::asio::IoThread (include/util/asio/iothread.hpp, src/iothread.cpp): a*)
(* thread that runs an io_service, kept running by a work object until the   *)
(* thread that owns the IoThread calls join() or destroys it.                *)
EXTENDS Naturals

VARIABLES mWork,     \* is the work object there?
          run,       \* mContext.run(), in its thread: "running", "returned",
                     \* or "threw" what a handler threw
          mJoin,     \* is the future of run() valid?
          caller,    \* the owner: "free", blocked in get() in "join" or in the
                     \* "destructor", "gone" with the IoThread, "terminated"
          outstanding, \* the io_service's count of work objects, queued
                     \* handlers and handlers being run
          caught     \* history: has join() thrown what run() threw?

threadVars == <<mWork, run, mJoin, caller, outstanding, caught>>

InitThread ==
    /\ mWork = TRUE /\ run = "running" /\ mJoin = TRUE
    /\ caller = "free" /\ outstanding = 1 /\ caught = FALSE

(* The io_service is told of work that starts and ends, and stops itself at  *)
(* zero: run() then returns whatever starts later.                           *)
WorkStarts(n) ==
    /\ outstanding' = outstanding + n
    /\ UNCHANGED run
WorkFinishes ==
    /\ outstanding' = outstanding - 1
    /\ run' = IF run = "running" /\ outstanding' = 0 THEN "returned" ELSE run

Blocked == caller \in {"join", "destructor"}

(* mWork = boost::none *)
DropWork ==
    /\ mWork' = FALSE
    /\ IF mWork THEN WorkFinishes ELSE UNCHANGED <<outstanding, run>>

Join ==
    /\ caller = "free"
    /\ DropWork
    /\ caller' = IF mJoin THEN "join" ELSE "free"
    /\ UNCHANGED <<mJoin, caught>>

DestructorOnlyWaits ==   \* mutant of Destructor: no get()
    /\ caller = "free"
    /\ DropWork
    /\ caller' = "gone"
    /\ UNCHANGED <<mJoin, caught>>

Destructor ==
    /\ caller = "free"
    /\ DropWork
    /\ caller' = IF mJoin THEN "destructor" ELSE "gone"
    /\ UNCHANGED <<mJoin, caught>>

(* mJoin.get() waits for run(), invalidates the future and rethrows; an      *)
(* exception that leaves the destructor terminates the program.              *)
Get ==
    /\ Blocked /\ run # "running"
    /\ mJoin' = FALSE
    /\ \/ caller = "join" /\ caller' = "free" /\ caught' = (run = "threw")
       \/ /\ caller = "destructor"
          /\ caller' = IF run = "threw" THEN "terminated" ELSE "gone"
          /\ UNCHANGED caught
    /\ UNCHANGED <<mWork, run, outstanding>>

ThreadTypeOK ==
    /\ {mWork, mJoin, caught} \subseteq BOOLEAN
    /\ run \in {"running", "returned", "threw"}
    /\ caller \in {"free", "join", "destructor", "gone", "terminated"}
    /\ outstanding \in Nat

(* What a handler throws is not lost: an owner that is rid of the IoThread   *)
(* has been thrown it by join().  One that did call join() is not terminated *)
(* by the destructor (src/iothread.cpp:25: "Call join() before the           *)
(* destructor, catch the exception").                                        *)
ExceptionsSurface ==
    /\ caller = "gone" => (run = "threw" <=> caught)
    /\ caller = "terminated" => run = "threw" /\ ~caught
=============================================================================
