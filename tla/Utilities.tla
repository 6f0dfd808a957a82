----------------------------- MODULE Utilities ------------------------------
(* The small classes of util side by side, each a component of its own that  *)
(* shares nothing with the others: a behaviour is one of one of them.        *)
EXTENDS PotQueue

CONSTANTS VariantNames, Types, Values, Void, Raw, Husk, Gone,      \* Variant
          VersionNames, Texts, MaxRank,                            \* Version
          MaxRounds,                                               \* LogSetup
          Threads, Handlers, Attributes, None,                     \* Loggers
          MaxArgument, MaxSize,                                    \* packs
          Users, MaxObjects, Nothing                               \* global

VARIABLES tool,        \* the component that the behaviour is of
          slot, abandoned,
          versions,
          enabled, sinks, bare, given, next, round, written,
          attributes, token, kind, lg, ended, meant, dangled,
          pack,
          inside, wp, made, building, dying, p

V == INSTANCE Variant WITH Names <- VariantNames
W == INSTANCE Version WITH Names <- VersionNames, mData <- versions
L == INSTANCE LogSetup
G == INSTANCE Loggers
P == INSTANCE ParameterPacks
O == INSTANCE Global

ASSUME DistinctAssumption ==
    /\ V!MarksDiffer /\ W!TextsFit /\ P!PacksFit /\ O!GlobalAssumption

ringVars == <<vars, control, verdicts>>
variantVars == <<slot, abandoned>>
logVars == <<enabled, sinks, bare, given, next, round, written>>
loggerVars == <<attributes, token, kind, lg, ended, meant, dangled>>
globalVars == <<inside, wp, made, building, dying, p>>
allVars ==
    <<tool, ringVars, variantVars, versions, logVars, loggerVars, pack,
      globalVars>>

UtilitiesInit ==
    /\ tool \in {"ring", "queue", "Variant", "Version", "log", "loggers",
                 "packs", "global"}
    /\ QueueInit /\ V!Init /\ W!Init /\ L!Init /\ G!Init /\ P!Init /\ O!Init
    /\ tool \notin {"ring", "queue"} => \A i \in DOMAIN mData : mData[i] = elem
    /\ tool # "queue" =>
           producer = "program" /\ elem = CHOOSE e \in Elems : TRUE

UtilitiesNext ==
    \/ /\ tool = "ring" /\ Next
       /\ UNCHANGED <<tool, control, verdicts, variantVars, versions, logVars,
                      loggerVars, pack, globalVars>>
    \/ /\ tool = "queue" /\ QueueNext
       /\ UNCHANGED <<tool, variantVars, versions, logVars, loggerVars, pack,
                      globalVars>>
    \/ /\ tool = "Variant" /\ V!Next
       /\ UNCHANGED <<tool, ringVars, versions, logVars, loggerVars, pack,
                      globalVars>>
    \/ /\ tool = "Version" /\ W!Next
       /\ UNCHANGED <<tool, ringVars, variantVars, logVars, loggerVars, pack,
                      globalVars>>
    \/ /\ tool = "log" /\ L!Next
       /\ UNCHANGED <<tool, ringVars, variantVars, versions, loggerVars, pack,
                      globalVars>>
    \/ /\ tool = "loggers" /\ G!Next
       /\ UNCHANGED <<tool, ringVars, variantVars, versions, logVars, pack,
                      globalVars>>
    \/ /\ tool = "packs" /\ P!Next
       /\ UNCHANGED <<tool, ringVars, variantVars, versions, logVars,
                      loggerVars, globalVars>>
    \/ /\ tool = "global" /\ O!Next
       /\ UNCHANGED <<tool, ringVars, variantVars, versions, logVars,
                      loggerVars, pack>>

UtilitiesSpec == UtilitiesInit /\ [][UtilitiesNext]_allVars
-----------------------------------------------------------------------------
(* The components' properties, by their names there. *)

(* Of a Variant, its destructor fits its object (Variant). *)
DestructorFits == V!DestructorFits
(* A Variant holds what was put in it (Variant). *)
ImplementsCells == V!ImplementsCells
(* Versions are ordered by precedence (Version). *)
OrderIsPrecedence == W!OrderIsPrecedence
(* A printed version is read back (Version). *)
FormatRoundTrips == W!FormatRoundTrips
(* Logging is on when there is a sink for it (LogSetup). *)
OnWithASink == L!OnWithASink
(* Operations' loggers do not mix (Loggers). *)
OperationsKeepTheirLogger == G!OperationsKeepTheirLogger
(* All users of a global share one object (Global). *)
OneGlobal == O!OneGlobal
(* Recursions over packs treat every element, in order (ParameterPacks). *)
PacksKeepOrder == P!PacksKeepOrder
=============================================================================
