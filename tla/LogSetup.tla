------------------------------ MODULE LogSetup ------------------------------
(* util::log (src/log.cpp): optionsDescription() switches logging off, and   *)
(* the notifiers of the options, which program_options runs by name, each    *)
(* add a sink and switch it on.  Other threads log at any time.              *)
EXTENDS Naturals

CONSTANT MaxRounds    \* bound: calls of optionsDescription and notify

Options == {"console", "file", "syslog"}      \* log-console, and so on
Paths == {"directory", "absent", "blocked"}   \* what the log file's parent is

VARIABLES enabled,    \* boost::log's core: set_logging_enabled
          sinks,      \* number of sinks of each kind that the core has
          bare,       \* those of them without defaultFormatter()
          given,      \* options of this round that ask for a sink
          next,       \* option whose notifier runs next; "throw" after one
                      \* threw, "end" after the last, "-" between rounds
          round,      \* history: rounds begun
          written     \* history: <<kind, with the formatter?>> of log records

vars == <<enabled, sinks, bare, given, next, round, written>>

Init ==
    /\ enabled = TRUE /\ sinks = [o \in Options |-> 0] /\ bare = {}
    /\ given = {} /\ next = "-" /\ round = 0 /\ written = {}

After(o) == CASE o = "console" -> "file" [] o = "file" -> "syslog"
              [] o = "syslog" -> "end"

OptionsDescription ==
    /\ next \in {"-", "end", "throw"} /\ round < MaxRounds
    /\ enabled' = FALSE
    /\ next' = "-" /\ given' = {} /\ round' = round + 1
    /\ UNCHANGED <<sinks, bare, written>>

(* po::notify, on options of which empty or false ones return at once.       *)
Notify(on) ==
    /\ next = "-" /\ round > 0
    /\ given' = on /\ next' = "console"
    /\ UNCHANGED <<enabled, sinks, bare, round, written>>

Skip ==
    /\ next \in Options \ given
    /\ next' = After(next)
    /\ UNCHANGED <<enabled, sinks, bare, given, round, written>>

(* add_console_log, add_file_log; the syslog sink is formatted beforehand.   *)
AddSink(path) ==
    /\ next \in given /\ bare = {} /\ ~(next = "file" /\ path = "blocked")
    /\ sinks' = [sinks EXCEPT ![next] = @ + 1]
    /\ \/ /\ next = "syslog"
          /\ bare' = {} /\ next' = After(next) /\ enabled' = TRUE
       \/ next # "syslog" /\ bare' = {next} /\ UNCHANGED <<next, enabled>>
    /\ UNCHANGED <<given, round, written>>

(* The parent is not a directory, or cannot be made one.                     *)
Throw(path) ==
    /\ next = "file" /\ next \in given /\ bare = {} /\ path # "directory"
    /\ next' = "throw"
    /\ UNCHANGED <<enabled, sinks, bare, given, round, written>>

EnablesFirst ==   \* mutant of SetFormatter: logging goes on before
    /\ bare # {}
    /\ enabled' = TRUE
    /\ IF enabled THEN bare' = {} /\ next' = After(next)
                  ELSE UNCHANGED <<bare, next>>
    /\ UNCHANGED <<sinks, given, round, written>>
(* ->set_formatter(defaultFormatter()), and set_logging_enabled(true).       *)
SetFormatter ==
    /\ bare # {}
    /\ bare' = {}
    /\ enabled' = TRUE /\ next' = After(next)
    /\ UNCHANGED <<sinks, given, round, written>>

(* A log statement of any thread goes to every sink.                         *)
Log ==
    /\ enabled
    /\ written' = written \cup
           {<<o, TRUE>> : o \in {o \in Options :
                                sinks[o] > (IF o \in bare THEN 1 ELSE 0)}}
           \cup {<<o, FALSE>> : o \in bare}
    /\ UNCHANGED <<enabled, sinks, bare, given, next, round>>

Next == \/ OptionsDescription \/ Skip \/ SetFormatter \/ Log
        \/ \E on \in SUBSET Options : Notify(on)
        \/ \E path \in Paths : AddSink(path) \/ Throw(path)

Spec == Init /\ [][Next]_vars
-----------------------------------------------------------------------------
Before(o) == CASE o = "console" -> {} [] o = "file" -> {"console"}
               [] o = "syslog" -> {"console", "file"} [] o = "end" -> Options
               [] o = "throw" -> {"console"} [] OTHER -> {}

(* Once options are described, logging is on exactly when the notifier of    *)
(* log-console, log-file or log-syslog has added its sink since, also when   *)
(* the file's throws after the console's.  No record goes to the console's   *)
(* or syslog's sink before that has the formatter; one may to the file's,    *)
(* which is added when the console's notifier has switched logging on.       *)
OnWithASink ==
    /\ round > 0 => (enabled <=> given \cap Before(next) # {})
    /\ enabled /\ round > 0 => \E o \in Options \ bare : sinks[o] > 0
    /\ <<"syslog", FALSE>> \notin written
    /\ <<"console", FALSE>> \notin written
=============================================================================
