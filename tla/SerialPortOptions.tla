------------------------- MODULE SerialPortOptions --------------------------
(* util::asio::setSerialPortOptions and tenaciousSetOption (include/util/    *)
(* asio/setserialportoptions.hpp), one call to the operating system a step:  *)
(* five options, each tried until it takes or for the last time, then the    *)
(* terminal attributes, whose errors are only logged.  The device may fail   *)
(* at one call and work at the next.                                         *)
EXTENDS Naturals

CONSTANT MaxAttempts    \* kMaxSerialSetOptionAttempts

ASSUME AttemptsAssumption == MaxAttempts \in Nat

VARIABLES sound,      \* can the port be opened and its options be set?
          call,       \* the next call: an option, then tcgetattr, tcsetattr
          attempts,   \* failed attempts at the option
          line,       \* the options in force
          tioRead,    \* has tcgetattr filled in tio?
          garbled     \* history: have indeterminate attributes been applied?

optionVars == <<call, attempts, line, tioRead, garbled>>

Options == 1..5       \* baud rate, size, parity, stop bits, flow control
GetAttributes == 6    \* tcgetattr
SetAttributes == 7    \* tcsetattr

InitOptions ==
    /\ call = 1 /\ attempts = 0 /\ line = {}
    /\ tioRead = FALSE /\ garbled = FALSE

(* What opening the port leaves of earlier settings is not relied on. *)
FreshLine == line' = {} /\ garbled' = FALSE

BeginOptions ==
    /\ call' = 1 /\ attempts' = 0 /\ tioRead' = FALSE
    /\ UNCHANGED <<line, garbled>>

-----------------------------------------------------------------------------
(* The condition of tenaciousSetOption's do-while loop after a failure.      *)
TriesAgain == MaxAttempts > 0 /\ attempts + 1 # MaxAttempts

SetOptionSkipping ==     \* mutant of SetOption: on to the next after a failure
    /\ call \in Options
    /\ line' = IF sound THEN line \union {call} ELSE line
    /\ call' = call + 1 /\ attempts' = 0
    /\ UNCHANGED <<tioRead, garbled>>

SetOption ==
    /\ call \in Options
    /\ \/ /\ sound
          /\ line' = line \union {call}
          /\ call' = call + 1 /\ attempts' = 0
       \/ /\ ~sound /\ TriesAgain
          /\ attempts' = attempts + 1
          /\ UNCHANGED <<line, call>>
    /\ UNCHANGED <<tioRead, garbled>>

(* The last attempt fails: system_error, which the overload the opener calls *)
(* turns into its error code.                                                *)
Throws == call \in Options /\ ~sound /\ ~TriesAgain

TcGetAttr ==
    /\ call = GetAttributes
    /\ call' = SetAttributes
    /\ tioRead' = sound
    /\ UNCHANGED <<attempts, line, garbled>>

(* tcsetattr, with whatever tio held if tcgetattr had failed.                *)
TcSetAttr ==
    /\ call = SetAttributes
    /\ call' = 1
    /\ \/ /\ sound /\ ~tioRead
          /\ line' \in SUBSET Options
          /\ garbled' = TRUE
       \/ /\ ~sound \/ tioRead
          /\ UNCHANGED <<line, garbled>>
    /\ UNCHANGED <<attempts, tioRead>>

OptionsTypeOK ==
    /\ call \in 1..SetAttributes /\ attempts \in 0..MaxAttempts
    /\ line \subseteq Options
    /\ {sound, tioRead, garbled} \subseteq BOOLEAN
=============================================================================
