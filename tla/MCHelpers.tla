------------------------------ MODULE MCHelpers ------------------------------
(***************************************************************************)
(* Small instances, for TLC, of the parts that share nothing with another: *)
(* the statistics, the string functions, the programs that get signals,    *)
(* the parents that wait for a child, and the threads that wait for a      *)
(* broadcast.  A behaviour is one of a single part; the others are at      *)
(* rest, in a state with no next one.                                      *)
(***************************************************************************)
EXTENDS Statistics

CONSTANTS BYTE, Symbols, MaxArray, MaxNeedle, MaxString,   \* of ByteStrings
          MaxSent,  \* of Signals
          Waiters, MainThread   \* of CondBroadcast

VARIABLES part
VARIABLES host, request, result   \* of ByteStrings
VARIABLES program, todo, blocked, action, pending, sent, freed, misused, ended   \* of Signals
VARIABLES way, parent, child, fate, ret, status, reported   \* of Children
VARIABLES global, mutex, place   \* of CondBroadcast

String == INSTANCE ByteStrings WITH call <- request, NULL <- None
Signal == INSTANCE Signals
Child  == INSTANCE Children
Cond   == INSTANCE CondBroadcast WITH Main <- MainThread, m <- mutex, pc <- place

ASSUME ByteAssumption == BYTE \in Nat /\ BYTE > 2 /\ Symbols \subseteq String!Bytes
ASSUME BoundsAssumption == MaxArray \in Nat /\ MaxNeedle \in Nat /\ MaxString \in Nat
ASSUME SentAssumption == MaxSent \in Nat
ASSUME FateAssumption == None \notin Child!Fates
ASSUME ThreadsAssumption == MainThread \notin Waiters /\ None \notin Waiters \cup {MainThread}

statistic == vars
string    == <<host, request, result>>
signal    == <<program, todo, blocked, action, pending, sent, freed, misused, ended>>
family    == <<way, parent, child, fate, ret, status, reported>>
broadcast == <<global, mutex, place>>
allVars   == <<part, statistic, string, signal, family, broadcast>>

StringAtRest == host = None /\ request = None /\ result = None
SignalAtRest ==
  /\ ended = "exit" /\ program = "alarm" /\ todo = [t \in Signal!ProgramThreads |-> <<>>]
  /\ blocked = [t \in Signal!ProgramThreads |-> {}] /\ action = [s \in Signal!Signals |-> "default"]
  /\ pending = {} /\ sent = 0 /\ freed = 0 /\ misused = {}
ChildAtRest ==
  /\ parent = "ended" /\ child = "none" /\ way = "poll"
  /\ fate = None /\ ret = None /\ status = None /\ reported = None
CondAtRest == global = 100 /\ mutex = None /\ place = [t \in Cond!Everyone |-> "done"]

HelpersInit ==
  /\ Init
  /\ \/ /\ part = "statistics"
        /\ StringAtRest /\ SignalAtRest /\ ChildAtRest /\ CondAtRest
     \/ part = "strings" /\ String!Init /\ SignalAtRest /\ ChildAtRest /\ CondAtRest
     \/ part = "signals" /\ StringAtRest /\ Signal!Init /\ ChildAtRest /\ CondAtRest
     \/ part = "children" /\ StringAtRest /\ SignalAtRest /\ Child!Init /\ CondAtRest
     \/ part = "broadcast" /\ StringAtRest /\ SignalAtRest /\ ChildAtRest /\ Cond!Init

HelpersNext ==
  /\ UNCHANGED part
  /\ \/ /\ part = "statistics" /\ Next
        /\ UNCHANGED <<string, signal, family, broadcast>>
     \/ /\ part = "strings" /\ String!Return
        /\ UNCHANGED <<statistic, signal, family, broadcast>>
     \/ /\ part = "signals" /\ Signal!Next
        /\ UNCHANGED <<statistic, string, family, broadcast>>
     \/ /\ part = "children" /\ Child!Next
        /\ UNCHANGED <<statistic, string, signal, broadcast>>
     \/ /\ part = "broadcast" /\ Cond!Next
        /\ UNCHANGED <<statistic, string, signal, family>>

HelpersSafety == HelpersInit /\ [][HelpersNext]_allVars
HelpersSpec   == HelpersSafety /\ Signal!Fairness /\ Child!Fairness /\ Cond!Fairness

BytesAgree       == String!BytesAgree
SearchFindsFirst == String!SearchFindsFirst
TrimThenTest     == String!TrimThenTest
KilledUnprepared == Signal!KilledUnprepared
FreedAfterUse    == Signal!FreedAfterUse
SignalEnds       == Signal!SignalEnds
ReportsTheChild  == Child!ReportsTheChild
NobodySleepsOn   == Cond!NobodySleepsOn
ShowsTheValue    == Cond!ShowsTheValue
EveryoneLeaves   == Cond!EveryoneLeaves
==============================================================================
