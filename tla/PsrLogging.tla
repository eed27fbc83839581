------------------------------ MODULE PsrLogging -----------------------------
(***************************************************************************)
(* Which function calls get a hook (src/plugin/mod.rs), for the plugin     *)
(* that selects by the parents of a class: the one that reports the        *)
(* messages of PSR-3 loggers (src/plugin/plugin_psr3.rs).                  *)
(*                                                                         *)
(* The plugin of a method is selected at its first call and remembered in  *)
(* HOOK_MAP under the names of class and method for the life of the        *)
(* process, while the classes of a name are those of the request.  The     *)
(* class of a method is the one that declares it.  A logger may inherit    *)
(* the methods of the levels from AbstractLogger, which call the method    *)
(* log of the logger, or all methods from another class of the scripts.    *)
(***************************************************************************)
EXTENDS Naturals, FiniteSets

CONSTANTS
    Classes,        \* class names of the scripts
    AbstractLogger, \* Psr\Log\AbstractLogger
    Top             \* the highest level: 8, Emergency

ASSUME PsrAssumption ==
    /\ AbstractLogger \notin Classes
    /\ Top \in Nat \ {0}

(* PsrLogLevel: Off is 0, and what is no level is Off. *)
Off == 0
Levels == 1 .. Top

(* The methods of the levels, by their number, and log. *)
Log == 0
Methods == {Log} \cup Levels
Scopes == Classes \cup {AbstractLogger}

(* What a class may be: a LoggerInterface with methods of its own, one     *)
(* that extends AbstractLogger, one that extends another class of the      *)
(* scripts for all methods, or a class with methods of these names that is *)
(* no LoggerInterface.                                                     *)
Declaring == {"logger", "abstract", "plain"}
ClassKinds == Declaring \cup {"heir"}

VARIABLES
    threshold, \* PSR_LOGGING_LEVEL
    stands,    \* stands[c]: what the name stands for in this request, or "none"
    base,      \* base[c]: the class whose methods c has: its own or another's
    known,     \* known[c]: what it has stood for in the process, "none" or "many"
    HOOK_MAP,  \* HOOK_MAP[s, m]: "hook", "no hook", or "unknown"
    last       \* the call that was just made

psrVars == <<threshold, stands, base, known, HOOK_MAP, last>>

(* A call can be reported unless the level given to log is no string, or   *)
(* the message is none or the request has no context.                      *)
Fits == {"fine", "untyped", "bad"}

(* A call: the class of the logger, the level, and how often the message   *)
(* was reported.                                                           *)
Calls == [class : Classes, level : 0 .. Top, fit : Fits, reports : 0 .. 2]
NoCall == [class |-> AbstractLogger]

PsrInit ==
    /\ threshold \in 0 .. Top
    /\ stands = [c \in Classes |-> "none"]
    /\ base = [c \in Classes |-> c]
    /\ known = [c \in Classes |-> "none"]
    /\ HOOK_MAP = [k \in Scopes \X Methods |-> "unknown"]
    /\ last = NoCall

(* The next request of the process has its own classes. *)
NextRequest ==
    /\ stands' = [c \in Classes |-> "none"]
    /\ base' = [c \in Classes |-> c]
    /\ last' = NoCall
    /\ UNCHANGED <<threshold, known, HOOK_MAP>>

(* A class that has the methods of d: its own, or those of its parent.     *)
Declare(c, k, d) ==
    /\ stands[c] = "none"
    /\ IF k = "heir" THEN stands[d] \in Declaring ELSE d = c
    /\ stands' = [stands EXCEPT ![c] = k]
    /\ base' = [base EXCEPT ![c] = d]
    /\ known' = [known EXCEPT ![c] = IF @ \in {"none", k} THEN k ELSE "many"]
    /\ last' = NoCall
    /\ UNCHANGED <<threshold, HOOK_MAP>>

-----------------------------------------------------------------------------
IsLogger(s) == s = AbstractLogger \/ stands[s] \notin {"none", "plain"}

(* PLUGINS has the plugin unless the level is off; select_plugin takes it  *)
(* for a class with the interface, and hook for log and for the methods of *)
(* the levels that are reported.                                           *)
Select(s, m) ==
    IF threshold > Off /\ IsLogger(s) /\ (m = Log \/ m >= threshold)
    THEN "hook"
    ELSE "no hook"

(* A key without the class. *)
KeyOfMethod(s, m) == <<AbstractLogger, m>>

Key(s, m) == <<s, m>>

(* select_plugin_hook: what is remembered, or selected now. *)
HookOf(s, m) ==
    IF HOOK_MAP[Key(s, m)] = "unknown" THEN Select(s, m) ELSE HOOK_MAP[Key(s, m)]

(* hook_log without the comparison of levels. *)
ReportsAll(s, m, level, fit) == HookOf(s, m) = "hook" /\ fit = "fine"

(* The before hooks.  That of log compares the level it is given, which it *)
(* wants as a string (hook_log, handle_message, handle_log).               *)
Reports(s, m, level, fit) ==
    HookOf(s, m) = "hook" /\ (m = Log => level >= threshold) /\ fit = "fine"

(* The methods that a call of m on a logger of class c runs. *)
Run(c, m) ==
    IF stands[base[c]] = "abstract" /\ m # Log
    THEN {<<AbstractLogger, m>>, <<base[c], Log>>}
    ELSE {<<base[c], m>>}

(* A call of a method of a level, or of log with a level that may be none  *)
(* or no string.                                                           *)
CallMethod(c, m, level, fit) ==
    LET run == Run(c, m)
        reports == {r \in run : Reports(r[1], r[2], level, fit)}
    IN  /\ stands[c] # "none"
        /\ m # Log => level = m /\ fit # "untyped"
        /\ fit = "untyped" => level = Off
        /\ HOOK_MAP' = [k \in DOMAIN HOOK_MAP |->
                          LET asks == {r \in run : Key(r[1], r[2]) = k}
                          IN  IF asks = {}
                              THEN HOOK_MAP[k]
                              ELSE LET r == CHOOSE r \in asks : TRUE IN HookOf(r[1], r[2])]
        /\ last' = [class |-> c, level |-> level, fit |-> fit,
                    reports |-> Cardinality(reports)]
        /\ UNCHANGED <<threshold, stands, base, known>>

-----------------------------------------------------------------------------
PsrNext ==
    \/ NextRequest
    \/ \E c, d \in Classes, k \in ClassKinds : Declare(c, k, d)
    \/ \E c \in Classes, m \in Methods, level \in 0 .. Top, fit \in Fits :
          CallMethod(c, m, level, fit)

PsrSpec == PsrInit /\ [][PsrNext]_psrVars

-----------------------------------------------------------------------------
PsrTypeOK ==
    /\ threshold \in 0 .. Top
    /\ stands \in [Classes -> ClassKinds \cup {"none"}]
    /\ base \in [Classes -> Classes]
    /\ known \in [Classes -> ClassKinds \cup {"none", "many"}]
    /\ HOOK_MAP \in [Scopes \X Methods -> {"hook", "no hook", "unknown"}]
    /\ last \in Calls \cup {NoCall}

(* "Logs with a level lower than the configured value will be ignored and  *)
(* not sent to SkyWalking", whichever method they come through and         *)
(* whatever was called before; with Off none are sent.                     *)
NoneBelow ==
    last # NoCall /\ (threshold = Off \/ last.level < threshold) => last.reports = 0

(* The name has stood for one kind of class since the process started.     *)
Steady(c) == known[c] = stands[c]

(* The call can be reported, is of a level that is, and is not misled by   *)
(* what HOOK_MAP remembers of another class of the same name.              *)
Due ==
    /\ last # NoCall
    /\ last.fit = "fine"
    /\ threshold # Off /\ last.level >= threshold
    /\ Steady(last.class) /\ Steady(base[last.class])

(* "If the log level is greater than or equal to the specified             *)
(* skywalking_agent.psr_logging_level, the log is reported to SkyWalking": *)
(* of every class whose methods are declared by a LoggerInterface, and of  *)
(* no other, although hooks are remembered from the first call on and for  *)
(* any class of the name (select_plugin_hook).  Left out is what Due names:*)
(* classes whose name has stood for another kind of class, a level for log *)
(* that is no string, and a message that cannot be reported.               *)
LoggersReported == Due => (last.reports > 0 <=> stands[base[last.class]] # "plain")

(* "works by hooking into any PHP LoggerInterface implementation that      *)
(* follows the PSR-3 standard": a due message of any class with the        *)
(* interface is reported.  It is not if the class inherits its methods     *)
(* from one without, which is the class that select_plugin is asked about  *)
(* (get_function_and_class_name).                                          *)
AnyLoggerReported == Due /\ stands[last.class] # "plain" => last.reports > 0
=============================================================================
