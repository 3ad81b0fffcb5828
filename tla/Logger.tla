------------------------------- MODULE Logger -------------------------------
(***************************************************************************)
(* The log files: the date_file appenders of log4.lua, one in each logging *)
(* service, srv_logger.lua, which they all ask for the file of the day,    *)
(* and service_logger.c, the service "jmlogger" that writes one file.      *)
(*                                                                         *)
(* A coroutine that finds the date changed sends `close' of the old file   *)
(* and calls `open' for the new one; other coroutines of its service log   *)
(* while it waits.  A file is named by its day.                            *)
(***************************************************************************)
EXTENDS Naturals, Sequences, FiniteSets, FiniteSetsExt

CONSTANTS
    Appenders,     \* one in each service that logs
    Coroutines,
    AppenderOf,    \* the appender a coroutine logs with
    LastDay,       \* bound: midnights
    MaxHandle      \* bound: handles in use at the same time

Days == 1 .. LastDay
LogHandles == 1 .. MaxHandle
None == 0          \* nil: no handle, no file, no date

ASSUME LoggerAssumption ==
    /\ AppenderOf \in [Coroutines -> Appenders]
    /\ LastDay \in Nat \ {0} /\ MaxHandle \in Nat \ {0}

VARIABLES
    today,      \* skynet_time
    log,        \* the upvalue `log' of each appender
    waiting,    \* day of the file a coroutine waits for, None when it does not wait
    inbox,      \* messages to srv_logger
    replies,    \* its replies on their way to each service
    LOGGER,     \* srv_logger: the handle of each file
    files,      \* the file of each running jmlogger
    mail,       \* lines sent to each jmlogger and not written yet
    abandoned   \* history: days an appender left while its first open was under way

logVars == <<today, log, waiting, inbox, replies, LOGGER, files, mail, abandoned>>

\* `day' is the date the line was logged at, `stamp' the one its layout prints.
Line == [day: Days, stamp: Days]
Request == [cmd: {"close"}, file: Days] \cup [cmd: {"open"}, file: Days, from: Coroutines]
Reply == [to: Coroutines, handle: LogHandles \cup {None}]

LogInit ==
    /\ today = 1
    /\ log = [a \in Appenders |-> [handle |-> None, filename |-> None, date |-> None]]
    /\ waiting = [c \in Coroutines |-> None]
    /\ inbox = <<>>
    /\ replies = [a \in Appenders |-> <<>>]
    /\ LOGGER = [d \in Days |-> None]
    /\ files = [h \in LogHandles |-> None]
    /\ mail = [h \in LogHandles |-> {}]
    /\ abandoned = {}

midnight ==
    /\ today < LastDay
    /\ today' = today + 1
    /\ UNCHANGED <<log, waiting, inbox, replies, LOGGER, files, mail, abandoned>>

-----------------------------------------------------------------------------
(* log4.lua *)

\* A line to a jmlogger that was killed is lost.
Sent(handle, line) ==
    IF handle # None /\ files[handle] # None
      THEN [mail EXCEPT ![handle] = @ \cup {line}]
      ELSE mail

\* The date has not changed: the line goes to the handle there is.
append_line(c) ==
    LET l == log[AppenderOf[c]] IN
    /\ waiting[c] = None /\ l.date = today
    /\ mail' = Sent(l.handle, [day |-> today, stamp |-> today])
    /\ UNCHANGED <<today, log, waiting, inbox, replies, LOGGER, files, abandoned>>

OpensUnderWay(a) == {waiting[c] : c \in {x \in Coroutines : AppenderOf[x] = a}} \ {None}

\* Mutant: the date is remembered before the file is there.
NewFileDated(l) == [l EXCEPT !.filename = today, !.date = today]

\* What the appender remembers before it calls: the name of the file, not the date.
NewFile(l) == [l EXCEPT !.filename = today]

\* Mutant: the name is changed before the message is sent.
CloseNew(l) == IF l.handle = None THEN <<>> ELSE <<[cmd |-> "close", file |-> today]>>

\* Without a handle there is nothing to close.
CloseOld(l) == IF l.handle = None THEN <<>> ELSE <<[cmd |-> "close", file |-> l.filename]>>

\* The date has changed: the old file is closed and the new one asked for.
change_date(c) ==
    LET a == AppenderOf[c]
        l == log[a]
    IN  /\ waiting[c] = None /\ l.date # today
        /\ inbox' = inbox \o CloseOld(l) \o <<[cmd |-> "open", file |-> today, from |-> c]>>
        /\ log' = [log EXCEPT ![a] = NewFile(l)]
        /\ waiting' = [waiting EXCEPT ![c] = today]
        /\ abandoned' = abandoned \cup
              (IF l.handle = None /\ l.filename \in OpensUnderWay(a) \ {today}
                 THEN {l.filename} ELSE {})
        /\ UNCHANGED <<today, replies, LOGGER, files, mail>>

\* Mutant: a file that could not be opened is asked for again.
date_changed_retry(c) ==
    LET a == AppenderOf[c]
        r == Head(replies[a])
    IN  /\ replies[a] # <<>> /\ r.to = c
        /\ replies' = [replies EXCEPT ![a] = Tail(@)]
        /\ IF r.handle = None
             THEN /\ inbox' = Append(inbox, [cmd |-> "open", file |-> waiting[c], from |-> c])
                  /\ UNCHANGED <<log, waiting, mail>>
             ELSE /\ log' = [log EXCEPT ![a].handle = r.handle, ![a].date = waiting[c]]
                  /\ mail' = Sent(r.handle, [day |-> waiting[c], stamp |-> today])
                  /\ waiting' = [waiting EXCEPT ![c] = None]
                  /\ UNCHANGED inbox
        /\ UNCHANGED <<today, LOGGER, files, abandoned>>

\* The reply has come.  The layout asks for the time once more.
date_changed(c) ==
    LET a == AppenderOf[c]
        r == Head(replies[a])
    IN  /\ replies[a] # <<>> /\ r.to = c
        /\ replies' = [replies EXCEPT ![a] = Tail(@)]
        /\ log' = [log EXCEPT ![a].handle = r.handle, ![a].date = waiting[c]]
        /\ mail' = Sent(r.handle, [day |-> waiting[c], stamp |-> today])
        /\ waiting' = [waiting EXCEPT ![c] = None]
        /\ UNCHANGED <<today, inbox, LOGGER, files, abandoned>>

-----------------------------------------------------------------------------
(* srv_logger.lua *)

\* Handles are not reused: a new one is one that nobody knows any more.
Known ==
    {log[a].handle : a \in Appenders}
    \cup UNION {{replies[a][i].handle : i \in 1 .. Len(replies[a])} : a \in Appenders}
Fresh == {h \in LogHandles : files[h] = None} \ Known

Received(cmd) == inbox # <<>> /\ Head(inbox).cmd = cmd /\ inbox' = Tail(inbox)

\* The caller gets the handle.
Answer(handle) ==
    LET c == Head(inbox).from
    IN  replies' = [replies EXCEPT ![AppenderOf[c]] = Append(@, [to |-> c, handle |-> handle])]

\* The file is open already.
open_known ==
    /\ Received("open") /\ LOGGER[Head(inbox).file] # None
    /\ Answer(LOGGER[Head(inbox).file])
    /\ UNCHANGED <<today, log, waiting, LOGGER, files, mail, abandoned>>

\* skynet.launch starts a jmlogger on it ...
jmlogger_init ==
    LET f == Head(inbox).file
        h == Min(Fresh)
    IN  /\ Received("open") /\ LOGGER[f] = None /\ Fresh # {}
        /\ LOGGER' = [LOGGER EXCEPT ![f] = h]
        /\ files' = [files EXCEPT ![h] = f]
        /\ Answer(h)
        /\ UNCHANGED <<today, log, waiting, mail, abandoned>>

\* ... which gives up when it cannot open the file, and launch returns nil.
jmlogger_init_failed ==
    /\ Received("open") /\ LOGGER[Head(inbox).file] = None
    /\ Answer(None)
    /\ UNCHANGED <<today, log, waiting, LOGGER, files, mail, abandoned>>

\* skynet.kill: jmlogger_release closes the file; lines not written are lost.
Killed(handle) == [files EXCEPT ![handle] = None]

close ==
    LET f == Head(inbox).file
        h == LOGGER[f]
    IN  /\ Received("close") /\ h # None
        /\ files' = Killed(h)
        /\ mail' = [mail EXCEPT ![h] = {}]
        /\ LOGGER' = [LOGGER EXCEPT ![f] = None]
        /\ UNCHANGED <<today, log, waiting, replies, abandoned>>

\* Somebody else has closed it.
close_unknown ==
    /\ Received("close") /\ LOGGER[Head(inbox).file] = None
    /\ UNCHANGED <<today, log, waiting, replies, LOGGER, files, mail, abandoned>>

\* service_logger.c: one line is written and flushed.
_logger(h) ==
    /\ \E line \in mail[h] : mail' = [mail EXCEPT ![h] = @ \ {line}]
    /\ UNCHANGED <<today, log, waiting, inbox, replies, LOGGER, files, abandoned>>

-----------------------------------------------------------------------------
Serve == open_known \/ jmlogger_init \/ jmlogger_init_failed \/ close \/ close_unknown

LogNext ==
    \/ midnight
    \/ \E c \in Coroutines : append_line(c) \/ change_date(c) \/ date_changed(c)
    \/ Serve
    \/ \E h \in LogHandles : _logger(h)

LogSpec == LogInit /\ [][LogNext]_logVars

\* skynet delivers every message; nobody is obliged to log.
LogFairness ==
    /\ WF_logVars(Serve)
    /\ \A c \in Coroutines : WF_logVars(date_changed(c))

-----------------------------------------------------------------------------
LogTypeOK ==
    /\ today \in Days
    /\ log \in [Appenders -> [handle: LogHandles \cup {None}, filename: Days \cup {None},
                              date: Days \cup {None}]]
    /\ waiting \in [Coroutines -> Days \cup {None}]
    /\ inbox \in Seq(Request)
    /\ replies \in [Appenders -> Seq(Reply)]
    /\ LOGGER \in [Days -> LogHandles \cup {None}]
    /\ files \in [LogHandles -> Days \cup {None}]
    /\ mail \in [LogHandles -> SUBSET Line]
    /\ abandoned \subseteq Days

\* Every line that waits to be written waits at the file of the day it was logged on,
\* whatever coroutines cross midnight while they wait for a file; the date printed in it
\* may be a later one, never an earlier.
LineInItsFile ==
    \A h \in LogHandles : \A line \in mail[h] :
        files[h] = line.day /\ line.day <= line.stamp

\* The file of a past day is open only as long as an appender still has to close it or the
\* message that does so is on its way, however many appenders share it: files do not pile
\* up.  The exception is a file that its appender turned away from while its very first
\* open was under way: log.handle is nil then and nothing is closed.
PastFilesClosed ==
    \A d \in Days :
        d < today /\ LOGGER[d] # None =>
            \/ \E a \in Appenders : log[a].filename = d
            \/ \E i \in 1 .. Len(inbox) : inbox[i] = [cmd |-> "close", file |-> d]
            \/ d \in abandoned

\* Whoever logs gets on: a line that waits for its file is sent or given up in the end.
LogReturns == \A c \in Coroutines : (waiting[c] # None) ~> (waiting[c] = None)
=============================================================================
