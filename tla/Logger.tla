------------------------------- MODULE Logger -------------------------------
(***************************************************************************)
(* The logging facade (src/src/log.h, log.cpp): the LoggerManager with its *)
(* root logger, loggers with a level, a formatter and a list of appenders, *)
(* and the listener LogIniter registers on the "logs" config var, which    *)
(* rebuilds loggers from the YAML logger definitions.  The listener runs   *)
(* on the thread that sets the config, as a series of separate critical    *)
(* sections; a user thread logs through the SYLAR_LOG_LEVEL macro at the   *)
(* same time.  A formatter is its pattern, as tokens of LogPattern, whose *)
(* LogFormatter::init decides isError().                                   *)
(***************************************************************************)
EXTENDS Naturals, Sequences, FiniteSets, LogPattern

CONSTANTS
    Root,        \* the logger named "root"
    NameOrder,   \* the logger names, in std::string order (std::set order)
    DefaultFmt,  \* LogFormatter's default pattern (log.h:82), as tokens
    Configs,     \* YAML values of "logs": [names -> logger entry]
    MsgLevels,   \* levels the user thread logs at
    MaxChanges,  \* bound on config changes
    MaxMsgs      \* bound on log calls

LoggerNames == {NameOrder[i] : i \in 1..Len(NameOrder)}

ASSUME Root \in LoggerNames

\* LogLevel::Level (log.h:24-31); setLevel((LogLevel::Level)100) on removal.
UNKNOW == 0
DEBUG == 1
INFO == 2
WARN == 3
ERROR == 4
FATAL == 5
Removed == 100

\* LogLevel::FromString (log.cpp:531-548): either case, else UNKNOW.
FromString(s) ==
    CASE s \in {"debug", "DEBUG"} -> DEBUG
      [] s \in {"info", "INFO"}   -> INFO
      [] s \in {"warn", "WARN"}   -> WARN
      [] s \in {"error", "ERROR"} -> ERROR
      [] s \in {"fatal", "FATAL"} -> FATAL
      [] OTHER -> UNKNOW

\* new LogFormatter(p)->isError(): LogFormatter::init on the pattern.
IsError(p) == FormatterInit(RenderAll(p)).error

AppenderTypes == {"FileLogAppender", "StdoutLogAppender"}

\* LexicalCast<string, set<LogDefine>> (log.cpp:370-426) on one YAML
\* entry: an absent level is "" (UNKNOW), an absent logger formatter is "",
\* an appender of unknown type is skipped, an absent appender formatter is
\* the default pattern, and the appender's level is never read (INFO).
Define(y) ==
    LET as == SelectSeq(y.apps, LAMBDA a : a.type \in AppenderTypes) IN
    [level |-> FromString(y.level),
     fmt   |-> y.fmt,
     apps  |-> [k \in 1..Len(as) |->
                  [type  |-> as[k].type,
                   level |-> INFO,
                   fmt   |-> IF as[k].fmt = <<>> THEN DefaultFmt ELSE as[k].fmt]]]

Defines(c) == [n \in DOMAIN c |-> Define(c[n])]

\* A new appender: LogAppender() (log.h:108-110), m_level DEBUG.
NewAppender(type) == [type |-> type, level |-> DEBUG, fmt |-> DefaultFmt, has |-> FALSE]

VARIABLES
    made,      \* names in LoggerManager::m_loggers
    level,     \* Logger::m_level
    lfmt,      \* Logger::m_formatter
    apps,      \* Logger::m_appender: [type, level, fmt, has]
    conf,      \* the config var's value, as LogDefines
    new,       \* the value being installed, while the listener runs
    lpc,       \* listener: "idle", "scan", "level", "fmt", "clear", "add",
               \*           "rscan", "rlevel", "rclear"
    li,        \* the listener's position in NameOrder
    lk,        \* the appender define being added
    changes,   \* config changes so far
    gone,      \* names whose removal the listener has begun (history)
    upc,       \* user thread: "idle", "log" (in Logger::log), "write"
    uname, ulvl, uafter,  \* the current log call; uafter: begun after its
                          \* logger's removal began
    msgs,      \* log calls so far
    last       \* the outcome of the last completed log call

vars == <<made, level, lfmt, apps, conf, new, lpc, li, lk, changes, gone,
          upc, uname, ulvl, uafter, msgs, last>>
listenerVars == <<conf, new, lpc, li, lk, changes, gone>>
userVars == <<upc, uname, ulvl, uafter, msgs, last>>

\* LoggerManager() (log.cpp:321-328) and Logger("root") (90-98): the root
\* logger holds one StdoutLogAppender; every logger starts at DEBUG with
\* the default formatter.
Init ==
    /\ made = {Root}
    /\ level = [n \in LoggerNames |-> DEBUG]
    /\ lfmt = [n \in LoggerNames |-> DefaultFmt]
    /\ apps = [n \in LoggerNames |->
                 IF n = Root THEN <<NewAppender("StdoutLogAppender")>> ELSE <<>>]
    /\ conf = <<>> /\ new = <<>>
    /\ lpc = "idle" /\ li = 1 /\ lk = 1 /\ changes = 0 /\ gone = {}
    /\ upc = "idle" /\ uname = Root /\ ulvl = DEBUG /\ uafter = FALSE
    /\ msgs = 0 /\ last = [name |-> Root, sinks |-> 0, after |-> FALSE]

\* LoggerManager::getLogger (log.cpp:330-341): finds or creates the logger
\* (name, DEBUG, default formatter, m_root set) under the manager's mutex.
GetLogger(n) == made' = made \cup {n}

(***************************************************************************)
(* The listener (log.cpp:471-527).                                         *)
(***************************************************************************)

\* The config var takes a new value and calls the listener with old, new.
Reconfigure(c) ==
    /\ lpc = "idle" /\ changes < MaxChanges
    /\ Defines(c) # conf
    /\ new' = Defines(c)
    /\ lpc' = "scan" /\ li' = 1
    /\ changes' = changes + 1
    /\ UNCHANGED <<made, level, lfmt, apps, conf, lk, gone>> /\ UNCHANGED userVars

\* for (i : new_value): a define equal to the old one is skipped, any other
\* gets its logger; after the last one, the loop over old_value starts.
ScanNew ==
    /\ lpc = "scan"
    /\ IF li > Len(NameOrder)
       THEN lpc' = "rscan" /\ li' = 1 /\ UNCHANGED <<made, gone>>
       ELSE LET n == NameOrder[li] IN
            IF n \notin DOMAIN new \/ (n \in DOMAIN conf /\ conf[n] = new[n])
            THEN li' = li + 1 /\ UNCHANGED <<made, lpc, gone>>
            ELSE /\ GetLogger(n) /\ lpc' = "level" /\ UNCHANGED li
                 /\ gone' = gone \ {n}
    /\ UNCHANGED <<level, lfmt, apps, conf, new, lk, changes>> /\ UNCHANGED userVars

\* logger->setLevel(i.level): a plain store, no lock.
SetLevel ==
    /\ lpc = "level"
    /\ LET n == NameOrder[li] IN
       /\ level' = [level EXCEPT ![n] = new[n].level]
       /\ lpc' = IF new[n].fmt # <<>> THEN "fmt" ELSE "clear"
    /\ UNCHANGED <<made, lfmt, apps, conf, new, li, lk, changes, gone>>
    /\ UNCHANGED userVars

\* Logger::setFormatter(string) (log.cpp:570-578): an erroneous pattern is
\* dropped; otherwise setFormatter(ptr) (559-569) installs it and hands it
\* to every appender that has no formatter of its own.
SetFormatter ==
    /\ lpc = "fmt"
    /\ LET n == NameOrder[li]
           f == new[n].fmt
       IN IF IsError(f)
          THEN UNCHANGED <<lfmt, apps>>
          ELSE /\ lfmt' = [lfmt EXCEPT ![n] = f]
               /\ apps' = [apps EXCEPT ![n] =
                            [k \in DOMAIN @ |->
                               IF @[k].has THEN @[k] ELSE [@[k] EXCEPT !.fmt = f]]]
    /\ lpc' = "clear"
    /\ UNCHANGED <<made, level, conf, new, li, lk, changes, gone>>
    /\ UNCHANGED userVars

\* Mutant: the old appenders are kept.
ClearNever(n) == apps' = apps

\* Logger::clearAppenders (log.cpp:554-557).
ClearAppenders(n) == apps' = [apps EXCEPT ![n] = <<>>]

\* logger->clearAppenders(), then the appenders are added one by one.
Clear ==
    /\ lpc = "clear"
    /\ ClearAppenders(NameOrder[li])
    /\ lpc' = "add" /\ lk' = 1
    /\ UNCHANGED <<made, level, lfmt, conf, new, li, changes, gone>>
    /\ UNCHANGED userVars

\* One appender define: a new appender gets setLevel(a.level), and an
\* appender define with an EMPTY formatter a LogFormatter of it (the test
\* is inverted, log.cpp:504); Logger::addAppender (100-107) then only
\* appends, for the appender's formatter is never null.
AddAppender ==
    /\ lpc = "add"
    /\ LET n == NameOrder[li]
           ds == new[n].apps
       IN IF lk > Len(ds)
          THEN lpc' = "scan" /\ li' = li + 1 /\ UNCHANGED <<apps, lk>>
          ELSE LET a == ds[lk]
                   ap == [NewAppender(a.type) EXCEPT !.level = a.level]
               IN /\ apps' = [apps EXCEPT ![n] = Append(@,
                       IF a.fmt = <<>> /\ ~IsError(a.fmt)
                       THEN [ap EXCEPT !.fmt = a.fmt, !.has = TRUE]
                       ELSE ap)]
                  /\ lk' = lk + 1 /\ UNCHANGED <<lpc, li>>
    /\ UNCHANGED <<made, level, lfmt, conf, new, changes, gone>>
    /\ UNCHANGED userVars

\* for (i : old_value) not in new_value: getLogger, then the removal.
ScanOld ==
    /\ lpc = "rscan"
    /\ IF li > Len(NameOrder)
       THEN /\ lpc' = "idle" /\ conf' = new /\ new' = <<>>
            /\ UNCHANGED <<made, li>>
       ELSE LET n == NameOrder[li] IN
            IF n \in DOMAIN conf /\ n \notin DOMAIN new
            THEN GetLogger(n) /\ lpc' = "rlevel" /\ UNCHANGED <<li, conf, new>>
            ELSE li' = li + 1 /\ UNCHANGED <<made, lpc, conf, new>>
    /\ UNCHANGED <<level, lfmt, apps, lk, changes, gone>> /\ UNCHANGED userVars

\* Mutant: the removed logger's level is left as it was.
RemoveLevelNever(n) == level' = level

\* logger->setLevel((LogLevel::Level)100).
RemoveLevel(n) == level' = [level EXCEPT ![n] = Removed]

\* Mutant: the removal clears the appenders first and sets the level last.
RemovalStepSwapped(n, k) ==
    IF k = 1 THEN ClearAppenders(n) /\ UNCHANGED level
             ELSE RemoveLevel(n) /\ UNCHANGED apps

\* Step k of the removal of n (log.cpp:520-521), each its own critical
\* section: setLevel(100), then clearAppenders().
RemovalStep(n, k) ==
    IF k = 1 THEN RemoveLevel(n) /\ UNCHANGED apps
             ELSE ClearAppenders(n) /\ UNCHANGED level

\* The removal's first step; from here on the logger counts as removed.
RLevel ==
    /\ lpc = "rlevel"
    /\ RemovalStep(NameOrder[li], 1)
    /\ gone' = gone \cup {NameOrder[li]}
    /\ lpc' = "rclear"
    /\ UNCHANGED <<made, lfmt, conf, new, li, lk, changes>>
    /\ UNCHANGED userVars

\* The removal's second step.
RClear ==
    /\ lpc = "rclear"
    /\ RemovalStep(NameOrder[li], 2)
    /\ lpc' = "rscan" /\ li' = li + 1
    /\ UNCHANGED <<made, lfmt, conf, new, lk, changes, gone>> /\ UNCHANGED userVars

(***************************************************************************)
(* The user thread: SYLAR_LOG_LEVEL(SYLAR_LOG_NAME(n), l) << ...           *)
(***************************************************************************)

\* The outcome of a log call on n: how many appenders it reached.
Outcome(n, sinks, after) == last' = [name |-> n, sinks |-> sinks, after |-> after]

\* The macro (log.h:232-236): getLogger, then `logger->getLevel() <= level`
\* decides whether a LogEventWrap is built at all.
Check(n, l) ==
    /\ upc = "idle" /\ msgs < MaxMsgs
    /\ GetLogger(n)
    /\ uname' = n /\ ulvl' = l /\ uafter' = (n \in gone) /\ msgs' = msgs + 1
    /\ IF level[n] <= l
       THEN upc' = "log" /\ UNCHANGED last
       ELSE Outcome(n, 0, n \in gone) /\ UNCHANGED upc
    /\ UNCHANGED <<level, lfmt, apps>> /\ UNCHANGED listenerVars

\* ~LogEventWrap calls Logger::log (log.cpp:119-134), whose test
\* `level > m_level` reads the level again, before taking the mutex.
LogCheck ==
    /\ upc = "log"
    /\ IF ulvl > level[uname]
       THEN upc' = "write" /\ UNCHANGED last
       ELSE upc' = "idle" /\ Outcome(uname, 0, uafter)
    /\ UNCHANGED <<made, level, lfmt, apps, uname, ulvl, uafter, msgs>>
    /\ UNCHANGED listenerVars

\* The appenders of n that take a message of level l (log.cpp:168-193).
Reached(n, l) == Cardinality({k \in DOMAIN apps[n] : l >= apps[n][k].level})

\* Under the logger's mutex: every appender, or, with none, the root
\* logger's log() (which has no m_root of its own).
Write ==
    /\ upc = "write"
    /\ Outcome(uname,
               IF apps[uname] # <<>> THEN Reached(uname, ulvl)
               ELSE IF uname # Root /\ ulvl > level[Root] THEN Reached(Root, ulvl)
               ELSE 0,
               uafter)
    /\ upc' = "idle"
    /\ UNCHANGED <<made, level, lfmt, apps, uname, ulvl, uafter, msgs>>
    /\ UNCHANGED listenerVars

Next ==
    \/ \E c \in Configs : Reconfigure(c)
    \/ ScanNew \/ SetLevel \/ SetFormatter \/ Clear \/ AddAppender
    \/ ScanOld \/ RLevel \/ RClear
    \/ \E n \in LoggerNames, l \in MsgLevels : Check(n, l)
    \/ LogCheck \/ Write

Spec == Init /\ [][Next]_vars

-----------------------------------------------------------------------------
\* Once the listener has returned, every logger the config defines has the
\* level the config gives it (FromString of its YAML level), exactly its
\* configured appenders in order, each with its define's type and level,
\* and, when its formatter parses, that formatter: nothing of an earlier
\* configuration survives a change (log.cpp:471-527).
ConfigApplied ==
    lpc = "idle" =>
      \A n \in DOMAIN conf :
        /\ n \in made
        /\ level[n] = conf[n].level
        /\ Len(apps[n]) = Len(conf[n].apps)
        /\ \A k \in DOMAIN apps[n] :
              apps[n][k].type = conf[n].apps[k].type
              /\ apps[n][k].level = conf[n].apps[k].level
        /\ conf[n].fmt # <<>> /\ ~IsError(conf[n].fmt) => lfmt[n] = conf[n].fmt

\* A log call begun once the listener has started to remove its logger
\* from the config, even between the removal's two critical sections,
\* reaches no appender: neither the logger's own nor, through the m_root
\* fallback of an emptied appender list, the root logger's.  This is why
\* the level is set before the appenders are cleared (log.cpp:516-523
\* against the macro, log.h:232-236, and Logger::log, 119-134).
RemovedLoggerSilent ==
    last.after => last.sinks = 0

=============================================================================
