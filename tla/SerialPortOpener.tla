-------------------------- MODULE SerialPortOpener --------------------------
(* util::asio::SerialPortOpener (include/util/asio/serialportopener.hpp): a  *)
(* coroutine that opens a serial port, waits, sets its options and waits     *)
(* again, one that repeats it until it succeeds, and close(), which cancels  *)
(* either through the expiry time of the one timer they share.               *)
(*                                                                           *)
(* One operation at a time on one opener and one port.  What runs between    *)
(* two waits is one step: inside a handler dispatch() calls its function at  *)
(* once, and the end of asyncOpen calls asyncOpenUntilSuccess's coroutine.   *)
(* Only the calls of setSerialPortOptions are steps of their own: the device *)
(* may come and go between them.  close() runs on the io_service's thread,   *)
(* or while its handlers do not.                                             *)
EXTENDS SerialPortOptions

CONSTANTS MaxOps,      \* bound: operations started
          MaxCloses    \* bound: calls of close

ASSUME OpenerBounds == MaxOps \in Nat /\ MaxCloses \in Nat

VARIABLES expiry,      \* mTimer.expires_at(): "min" or any "other" time
          wait,        \* the wait on mTimer: "none", "pending", or its handler
                       \* queued with no error, "expired", or "aborted",
                       \* which is the coroutine's ec when it runs
          at,          \* where the coroutine is suspended: "idle", "posted"
                       \* (dispatched from another thread), "settle", "options"
                       \* (in setSerialPortOptions), "write", "retry"
          mode,        \* "once": asyncOpen, "until": asyncOpenUntilSuccess
          port,        \* "closed", "open"
          result,      \* of the last operation: "none" while it runs
          ops, closes, \* operations started, calls of close
          closed,      \* history: has close() been called since the start?
          erased,      \* history: has its mark on the timer been overwritten
                       \* by a new attempt?
          leftOpen     \* history: has an attempt failed with the port open?

openerVars ==
    <<expiry, wait, at, mode, port, sound, optionVars, result, ops, closes,
      closed, erased, leftOpen>>
counts == <<ops, closes>>

InitOpener ==
    /\ expiry = "other" /\ wait = "none" /\ at = "idle" /\ mode = "once"
    /\ port = "closed" /\ sound \in BOOLEAN /\ InitOptions
    /\ result = "ok" /\ ops = 0 /\ closes = 0
    /\ closed = FALSE /\ erased = FALSE /\ leftOpen = FALSE

-----------------------------------------------------------------------------
(* mTimer.expires_from_now(delay); yield mTimer.async_wait(op): suspended at *)
(* place.                                                                    *)
WaitAt(place) ==
    /\ expiry' = "other" /\ wait' = "pending" /\ at' = place
    /\ UNCHANGED result

CompleteOpen(ec) ==
    /\ result' = ec
    /\ at' = "idle" /\ wait' = "none"

(* The end of asyncOpen with result ec, the expiry time being time.          *)
EndOnMin(ec, time) ==   \* mutant of End: no look at the expiry before a retry
    \/ /\ mode = "once" \/ ec = "ok"
       /\ CompleteOpen(ec) /\ expiry' = time
    \/ /\ mode = "until" /\ ec # "ok"
       /\ WaitAt("retry")

End(ec, time) ==
    \/ /\ mode = "once" \/ ec = "ok"
       /\ CompleteOpen(ec) /\ expiry' = time
    \/ /\ mode = "until" /\ ec # "ok"
       /\ \/ time = "min" /\ CompleteOpen("aborted") /\ expiry' = time
          \/ time # "min" /\ WaitAt("retry")

(* The head of asyncOpen's coroutine: open() fails on an open port.          *)
Open(time) ==
    \/ /\ port # "closed" \/ ~sound
       /\ End("error", time)
       /\ leftOpen' = (leftOpen \/ port # "closed")
       /\ UNCHANGED <<port, line, garbled>>
    \/ /\ port = "closed" /\ sound
       /\ port' = "open" /\ FreshLine
       /\ \/ time = "min" /\ End("aborted", time)
          \/ time # "min" /\ WaitAt("settle")
       /\ UNCHANGED leftOpen

KeepExpiry == expiry        \* mutant of Reset: no expires_from_now
Reset == "other"            \* asyncOpen: mTimer.expires_from_now(0)

Overwritten == erased \/ (expiry = "min" /\ closed)

(* asyncOpen called from a coroutine: its head runs at once. *)
Attempt ==
    /\ Open(Reset)
    /\ erased' = Overwritten
    /\ UNCHANGED <<call, attempts, tioRead>>

-----------------------------------------------------------------------------
(* asyncOpen or asyncOpenUntilSuccess is called and its coroutine dispatched:*)
(* on the io_service's thread it runs at once, on another it is posted and   *)
(* other things come first.  asyncOpen resets the timer in the caller,       *)
(* asyncOpenUntilSuccess only when it runs.                                  *)
Start(m) ==
    /\ at = "idle" /\ ops < MaxOps
    /\ ops' = ops + 1 /\ mode' = m
    /\ at' = "posted" /\ result' = "none"
    /\ expiry' = IF m = "once" THEN Reset ELSE expiry
    /\ closed' = FALSE /\ erased' = FALSE /\ leftOpen' = FALSE
    /\ UNCHANGED <<wait, port, sound, optionVars, closes>>

Dispatched ==
    /\ at = "posted"
    /\ \/ mode = "once" /\ Open(expiry) /\ UNCHANGED erased
       \/ mode = "until" /\ Attempt
    /\ UNCHANGED <<call, attempts, tioRead, mode, sound, counts, closed>>

TimerExpires ==
    /\ wait = "pending"
    /\ wait' = "expired"
    /\ UNCHANGED <<expiry, at, mode, port, sound, optionVars, result, counts,
                   closed, erased, leftOpen>>

(* The handler of the wait for the port to settle sets the options.          *)
Settled ==
    /\ at = "settle" /\ wait \in {"expired", "aborted"}
    /\ at' = "options"
    /\ BeginOptions
    /\ UNCHANGED <<expiry, wait, mode, port, sound, result, counts, closed,
                   erased, leftOpen>>

Configure ==
    /\ at = "options"
    /\ SetOption \/ TcGetAttr
    /\ UNCHANGED <<expiry, wait, at, mode, port, sound, result, counts, closed,
                   erased, leftOpen>>

OptionsFail ==
    /\ at = "options" /\ Throws
    /\ End("error", expiry)
    /\ leftOpen' = TRUE
    /\ UNCHANGED <<mode, port, sound, optionVars, counts, closed, erased>>

(* setSerialPortOptions only ever sets ec: an aborted wait left it set.      *)
ConfiguredAnyway ==   \* mutant of Configured: no look at ec or the expiry
    /\ at = "options" /\ TcSetAttr
    /\ WaitAt("write")
    /\ UNCHANGED <<leftOpen, mode, port, sound, counts, closed, erased>>

Configured ==
    /\ at = "options" /\ TcSetAttr
    /\ \/ /\ wait = "aborted" \/ expiry = "min"
          /\ End("aborted", expiry)
       \/ /\ wait = "expired" /\ expiry # "min"
          /\ WaitAt("write")
    /\ leftOpen' = (leftOpen \/ at' # "write")
    /\ UNCHANGED <<mode, port, sound, counts, closed, erased>>

Written ==
    /\ at = "write" /\ wait \in {"expired", "aborted"}
    /\ End(IF wait = "aborted" THEN "aborted" ELSE "ok", expiry)
    /\ leftOpen' = (leftOpen \/ wait = "aborted")
    /\ UNCHANGED <<mode, port, sound, optionVars, counts, closed, erased>>

RetriedWithoutOpen ==   \* mutant of Retried: the loop only waits
    /\ at = "retry" /\ wait \in {"expired", "aborted"}
    /\ \/ wait = "aborted" /\ CompleteOpen("aborted") /\ UNCHANGED expiry
       \/ wait = "expired" /\ WaitAt("retry")
    /\ UNCHANGED <<port, optionVars, leftOpen, erased, mode, sound, counts,
                   closed>>

(* The handler of the wait between two attempts. *)
Retried ==
    /\ at = "retry" /\ wait \in {"expired", "aborted"}
    /\ \/ /\ wait = "aborted"
          /\ CompleteOpen("aborted")
          /\ UNCHANGED <<expiry, port, optionVars, leftOpen, erased>>
       \/ /\ wait = "expired"
          /\ Attempt
    /\ UNCHANGED <<mode, sound, counts, closed>>

(* expires_at(min) cancels a pending wait; a handler already queued keeps    *)
(* its success.                                                              *)
Cancelled == IF wait = "pending" THEN "aborted" ELSE wait
Close ==
    /\ closes < MaxCloses /\ at # "options"
    /\ closes' = closes + 1
    /\ expiry' = "min" /\ wait' = Cancelled /\ closed' = TRUE
    /\ UNCHANGED <<at, mode, port, sound, optionVars, result, ops, erased,
                   leftOpen>>

(* The user closes the port between two operations; the device comes and     *)
(* goes.                                                                     *)
ClosePort ==
    /\ at = "idle" /\ port # "closed"
    /\ port' = "closed"
    /\ UNCHANGED <<expiry, wait, at, mode, sound, optionVars, result, counts,
                   closed, erased, leftOpen>>

DeviceChanges ==
    /\ sound' = ~sound
    /\ UNCHANGED <<expiry, wait, at, mode, port, optionVars, result, counts,
                   closed, erased, leftOpen>>

Handler ==
    \/ Dispatched \/ Settled \/ Configure \/ OptionsFail \/ Configured
    \/ Written \/ Retried

NextOpener ==
    \/ \E m \in {"once", "until"} : Start(m)
    \/ Handler \/ TimerExpires \/ Close \/ ClosePort \/ DeviceChanges

(* Timers expire and the io_service runs what is queued. *)
SpecOpener ==
    /\ InitOpener /\ [][NextOpener]_openerVars
    /\ WF_openerVars(Handler) /\ WF_openerVars(TimerExpires)
-----------------------------------------------------------------------------
(* Type invariant. *)
OpenerTypeOK ==
    /\ expiry \in {"min", "other"}
    /\ wait \in {"none", "pending", "expired", "aborted"}
    /\ at \in {"idle", "posted", "settle", "options", "write", "retry"}
    /\ wait = "none" <=> at \in {"idle", "posted"}
    /\ mode \in {"once", "until"} /\ port \in {"closed", "open"}
    /\ OptionsTypeOK
    /\ {closed, erased, leftOpen} \subseteq BOOLEAN
    /\ result \in {"none", "ok", "error", "aborted"}
    /\ ops \in 0..MaxOps /\ closes \in 0..MaxCloses

(* An operation that succeeds leaves the port open with its five options in  *)
(* force, whatever failed, was retried or was cancelled on the way, unless   *)
(* tcgetattr failed and tcsetattr did not: then indeterminate attributes     *)
(* were applied, and nothing tells.                                          *)
SuccessMeansReady ==
    [][at # "idle" /\ result' = "ok" =>
           /\ at' = "idle" /\ port' = "open"
           /\ line' = Options \/ garbled']_openerVars

(* serialportopener.hpp:55: "If this opener was closed before, mTimer might  *)
(* still be at time_point::min()": an operation is aborted only by a close() *)
(* that came after its start, never by the mark an earlier one left.         *)
AbortedByOwnClose == result = "aborted" => closed

(* close() ends the operation under way, whatever it waits for and even if   *)
(* the timer has just expired, unless the operation goes on to overwrite its *)
(* mark: when it is called before asyncOpenUntilSuccess's coroutine runs, or *)
(* between the expiry of a retry delay and its handler.                      *)
CloseEnds == (closed /\ at # "idle") ~> (at = "idle" \/ erased)

(* asyncOpenUntilSuccess ends while the device is sound, unless an attempt   *)
(* failed after it had opened the port, which no code closes: from then on   *)
(* open() fails.                                                             *)
UntilSuccessEnds ==
    <>[]sound => []((at # "idle") => <>(at = "idle" \/ leftOpen))
=============================================================================
