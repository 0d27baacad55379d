------------------------------- MODULE XoSyslog -------------------------------
(***************************************************************************)
(* Delivery of xo_syslog() messages (xo_syslog.c): one socket shared by    *)
(* the threads of the program under xo_syslog_mutex, the local logger that *)
(* may be restarted or run out of socket space between any two calls of    *)
(* the library, the remote destinations and the caller's own handler.      *)
(*                                                                         *)
(* What the message says is abstracted to a number given to it in the      *)
(* order of the calls; its text is that of two xo_emit calls (XoEmit).     *)
(***************************************************************************)
EXTENDS Integers, Sequences, FiniteSets

CONSTANTS
  Threads,      \* the threads of the program
  NoThread,     \* the holder of a free lock
  Capacity,     \* datagrams a logger's socket holds before ENOBUFS
  MaxMessages,  \* messages a behaviour hands to the library
  MaxSettings,  \* open, close, mask, host and handler calls of a behaviour
  MaxRestarts,  \* times a logger stops
  MaxFills,     \* times other programs fill a logger's socket
  Careful       \* a destination is changed only after xo_close_log

ASSUME SyslogAssumption ==
  /\ NoThread \notin Threads
  /\ Capacity \in Nat \ {0}
  /\ {MaxMessages, MaxSettings, MaxRestarts, MaxFills} \subseteq Nat
  /\ Careful \in BOOLEAN

VARIABLES
  holder,       \* who has xo_syslog_mutex
  pc,           \* where each thread is in xo_vsyslog
  todo,         \* messages each thread still has to pass: own, or diagnostic first
  xo_logfile,   \* the socket: what it is, and what it is connected to
  xo_status,    \* NOCONN, CONNDEF or CONNPRIV
  xo_opened,    \* a default xo_open_log is no longer needed
  xo_logstat,   \* the option bits that matter here: LOG_CONS, LOG_NDELAY
  xo_logmask,   \* the severities let through
  remote,       \* "none", "path" (AF_LOCAL) or "host" (UDP)
  custom,       \* the caller's handlers replace socket, send and close
  born,         \* what happened to the sockets a logger listens on: their number
  listening,    \* the sockets that have a logger reading now
  queue,        \* datagrams waiting in each
  received,     \* how often each message reached a logger, host or handler
  console,      \* messages written to the console
  lost,         \* messages given up on
  disturbed,    \* a logger was away at some point of the current delivery
  given, settings, stops, fills    \* what the bounds count

socket   == <<xo_logfile, xo_status>>
config   == <<xo_opened, xo_logstat>>
choices  == <<xo_logmask, remote, custom>>
loggers  == <<born, listening, queue>>
outcome  == <<received, console, lost>>
counts   == <<given, settings, stops, fills>>
vars == <<holder, pc, todo, socket, config, choices, loggers, outcome, disturbed, counts>>

Sockets == {"priv", "def", "path"}   \* _PATH_LOG_PRIV; _PATH_LOG; the remote path
Local   == {"priv", "def"}

Closed == [kind |-> "none"]
Unix(s) == [kind |-> "unix", to |-> s, born |-> born[s]]
Fresh   == [kind |-> "unix", to |-> "nowhere", born |-> 0]   \* socket(), not connected
Udp     == [kind |-> "inet"]

-------------------------------------------------------------------------------
\* Sockets and loggers, as the code uses them.

(* A datagram socket stays connected to the incarnation it was connected to. *)
Reaches(f, s) ==
  f.kind = "unix" /\ f.to = s /\ s \in listening /\ f.born = born[s]

(* What send() answers. *)
Answer(f) ==
  IF \E s \in Sockets : Reaches(f, s)
    THEN IF queue[f.to] < Capacity THEN "sent" ELSE "ENOBUFS"
    ELSE "error"

-------------------------------------------------------------------------------
\* Connecting and disconnecting: a <<xo_logfile, xo_status>> pair to the next.

(* xo_connect_remote_log: nothing when a socket is there already. *)
ConnectRemote(f, st) ==
  IF f # Closed THEN <<f, st>>
  ELSE IF remote = "host" THEN <<Udp, "CONNDEF">>
  ELSE IF "path" \in listening THEN <<Unix("path"), "CONNDEF">>
  ELSE <<Closed, st>>

(* The local half of xo_connect_log: privileged socket, then the default. *)
ConnectLocal(f, st) ==
  IF st # "NOCONN" THEN <<IF f = Closed THEN Fresh ELSE f, st>>
  ELSE IF "priv" \in listening THEN <<Unix("priv"), "CONNPRIV">>
  ELSE IF "def" \in listening THEN <<Unix("def"), "CONNDEF">>
  ELSE <<Closed, "NOCONN">>

\* Mutant: a remote destination counts only while no local logger is there.
ConnectLocalFirst(f, st) ==
  CASE custom                                         -> <<f, st>>
    [] remote # "none" /\ listening \cap Local = {} -> ConnectRemote(f, st)
    [] OTHER                                          -> ConnectLocal(f, st)

Connect(f, st) ==
  CASE custom          -> <<f, st>>
    [] remote # "none" -> ConnectRemote(f, st)
    [] OTHER           -> ConnectLocal(f, st)

\* Mutant: disconnecting forgets to make the next connect start over.
DisconnectKeepsStatus(f, st) == IF custom THEN <<f, st>> ELSE <<Closed, st>>

Disconnect(f, st) == IF custom THEN <<f, st>> ELSE <<Closed, "NOCONN">>

SocketIs(s) == xo_logfile' = s[1] /\ xo_status' = s[2]

-------------------------------------------------------------------------------
(* The types of the variables, by what changes together. *)
Messages == [id : 1..MaxMessages, sev : {"err", "debug"}]

CallsOK ==
  /\ holder \in Threads \cup {NoThread}
  /\ pc \in [Threads -> {"idle", "called", "built", "send", "resend", "retry"}]
  /\ todo \in [Threads -> Seq(Messages)]
  /\ given \in 0..MaxMessages

SocketOK ==
  /\ xo_logfile \in {Closed, Udp, Fresh}
       \cup [kind : {"unix"}, to : Sockets, born : 0..MaxRestarts]
  /\ xo_status \in {"NOCONN", "CONNDEF", "CONNPRIV"}

SettingsOK ==
  /\ xo_opened \in BOOLEAN
  /\ xo_logstat \subseteq {"LOG_CONS", "LOG_NDELAY"}
  /\ xo_logmask \subseteq {"err", "debug"}
  /\ remote \in {"none", "path", "host"}
  /\ custom \in BOOLEAN

(* No logger's socket holds more than it can. *)
LoggersOK ==
  /\ born \in [Sockets -> 0..MaxRestarts]
  /\ listening \subseteq Sockets
  /\ queue \in [Sockets -> 0..Capacity]

OutcomeOK ==
  /\ received \in [1..MaxMessages -> Nat]
  /\ console \cup lost \subseteq 1..MaxMessages
  /\ disturbed \in BOOLEAN

TypeOK == CallsOK /\ SocketOK /\ SettingsOK /\ LoggersOK /\ OutcomeOK

Init ==
  /\ holder = NoThread
  /\ pc = [t \in Threads |-> "idle"]
  /\ todo = [t \in Threads |-> << >>]
  /\ xo_logfile = Closed /\ xo_status = "NOCONN"
  /\ xo_opened = FALSE /\ xo_logstat = {}
  /\ xo_logmask = {"err", "debug"} /\ remote = "none" /\ custom = FALSE
  /\ born = [s \in Sockets |-> 0]
  /\ listening \in {{}, {"def", "path"}, Sockets}
  /\ queue = [s \in Sockets |-> 0]
  /\ received = [m \in 1..MaxMessages |-> 0]
  /\ console = {} /\ lost = {} /\ disturbed = FALSE
  /\ given = 0 /\ settings = 0 /\ stops = 0 /\ fills = 0

-------------------------------------------------------------------------------
\* xo_syslog and xo_vsyslog, up to the message being ready.

(* Bits that are neither a severity nor a facility make the call first send a
   diagnostic of its own, through all of xo_vsyslog. *)
Call(t, severity, valid) ==
  LET own == [id |-> given + (IF valid THEN 1 ELSE 2), sev |-> severity]
  IN /\ pc[t] = "idle" /\ own.id <= MaxMessages
     /\ todo' = [todo EXCEPT ![t] =
          IF valid THEN <<own>> ELSE <<[id |-> given + 1, sev |-> "err"], own>>]
     /\ given' = own.id
     /\ pc' = [pc EXCEPT ![t] = "called"]
     /\ UNCHANGED <<holder, socket, config, choices, loggers, outcome, disturbed,
                    settings, stops, fills>>

(* xo_vsyslog returns: to the caller, or to the call whose diagnostic it was. *)
Return(t) ==
  /\ todo' = [todo EXCEPT ![t] = Tail(@)]
  /\ pc' = [pc EXCEPT ![t] = IF Len(todo[t]) > 1 THEN "called" ELSE "idle"]

\* Mutant: the early return of a masked message keeps the lock.
MaskedKeepsLock(t) == holder' = t /\ Return(t) /\ UNCHANGED disturbed

(* The mask leaves the severity out: unlock and return. *)
Masked(t) == Return(t) /\ UNCHANGED <<holder, disturbed>>

Lock(t) ==
  /\ pc[t] = "called" /\ holder = NoThread
  /\ IF Head(todo[t]).sev \notin xo_logmask THEN Masked(t)
     ELSE /\ holder' = t
          /\ pc' = [pc EXCEPT ![t] = "built"]
          /\ disturbed' = (listening \cap Local = {})
          /\ UNCHANGED todo
  /\ UNCHANGED <<socket, config, choices, loggers, outcome, counts>>

-------------------------------------------------------------------------------
\* xo_send_syslog.

Message(t) == Head(todo[t]).id
Unlock(t)  == holder' = NoThread /\ Return(t)

(* A send() that worked ends the call. *)
Sent(t) ==
  /\ queue' = [queue EXCEPT ![xo_logfile.to] = @ + 1]
  /\ received' = [received EXCEPT ![Message(t)] = @ + 1]
  /\ Unlock(t)
  /\ UNCHANGED <<console, lost>>

(* The console, when LOG_CONS asks for it, is the last resort. *)
GiveUp(t) ==
  /\ console' = IF "LOG_CONS" \in xo_logstat THEN console \cup {Message(t)} ELSE console
  /\ lost' = lost \cup ({Message(t)} \ console')
  /\ Unlock(t)
  /\ UNCHANGED <<queue, received>>

Continue(t, at) ==
  /\ pc' = [pc EXCEPT ![t] = at]
  /\ UNCHANGED <<holder, todo, queue, outcome>>

(* The caller's send handler takes the place of all that follows. *)
Handler(t) ==
  /\ pc[t] = "built" /\ custom
  /\ received' = [received EXCEPT ![Message(t)] = @ + 1]
  /\ Unlock(t)
  /\ UNCHANGED <<socket, config, choices, loggers, console, lost, disturbed, counts>>

(* The open a program need not make itself, and the connect of every send. *)
Prepare(t) ==
  /\ pc[t] = "built" /\ ~custom
  /\ xo_opened' = TRUE
  /\ xo_logstat' = IF xo_opened THEN xo_logstat ELSE xo_logstat \cup {"LOG_NDELAY"}
  /\ SocketIs(Connect(xo_logfile, xo_status))
  /\ Continue(t, "send")
  /\ UNCHANGED <<choices, born, listening, disturbed, counts>>

(* xo_send_remote_syslog: one attempt, its answer ignored, no console. *)
SendRemote(t) ==
  /\ pc[t] = "send" /\ remote # "none"
  /\ CASE remote = "path" /\ Answer(xo_logfile) = "sent" -> Sent(t)
       [] remote = "host" /\ xo_logfile = Udp ->
            /\ received' = [received EXCEPT ![Message(t)] = @ + 1]
            /\ Unlock(t)
            /\ UNCHANGED <<queue, console, lost>>
       [] OTHER ->
            /\ lost' = lost \cup {Message(t)}
            /\ Unlock(t)
            /\ UNCHANGED <<queue, received, console>>
  /\ UNCHANGED <<socket, config, choices, born, listening, disturbed, counts>>

(* The first send to the local logger: a full socket is waited for, any other
   error reconnects. *)
Send(t) ==
  /\ pc[t] = "send" /\ remote = "none"
  /\ CASE Answer(xo_logfile) = "sent"    -> Sent(t) /\ UNCHANGED socket
       [] Answer(xo_logfile) = "ENOBUFS" -> Continue(t, "retry") /\ UNCHANGED socket
       [] OTHER ->
            LET off == Disconnect(xo_logfile, xo_status)
            IN SocketIs(Connect(off[1], off[2])) /\ Continue(t, "resend")
  /\ UNCHANGED <<config, choices, born, listening, disturbed, counts>>

\* Mutant: the resend that worked falls through to the console.
ResendFallsThrough(t) ==
  /\ pc[t] = "resend"
  /\ CASE Answer(xo_logfile) = "sent" ->
            /\ received' = [received EXCEPT ![Message(t)] = @ + 1]
            /\ queue' = [queue EXCEPT ![xo_logfile.to] = @ + 1]
            /\ console' = console \cup {Message(t)}
            /\ Unlock(t)
            /\ UNCHANGED lost
       [] Answer(xo_logfile) = "ENOBUFS" -> Continue(t, "retry")
       [] OTHER -> GiveUp(t)
  /\ UNCHANGED <<socket, config, choices, born, listening, disturbed, counts>>

(* The one resend after reconnecting. *)
Resend(t) ==
  /\ pc[t] = "resend"
  /\ CASE Answer(xo_logfile) = "sent"    -> Sent(t)
       [] Answer(xo_logfile) = "ENOBUFS" -> Continue(t, "retry")
       [] OTHER -> GiveUp(t)
  /\ UNCHANGED <<socket, config, choices, born, listening, disturbed, counts>>

(* The loop after ENOBUFS: at once over for a privileged socket, else until the
   logger has read something or another error ends it. *)
Retry(t) ==
  /\ pc[t] = "retry"
  /\ CASE xo_status = "CONNPRIV"         -> GiveUp(t)
       [] Answer(xo_logfile) = "sent"    -> Sent(t)
       [] Answer(xo_logfile) = "ENOBUFS" -> Continue(t, "retry")
       [] OTHER -> GiveUp(t)
  /\ UNCHANGED <<socket, config, choices, born, listening, disturbed, counts>>

-------------------------------------------------------------------------------
\* The other calls. Those with the lock wait for it; the setters without one are
\* made, as the only caller in the tree makes them, while no message is on its way.

Setting ==
  /\ holder = NoThread /\ settings < MaxSettings
  /\ settings' = settings + 1
  /\ UNCHANGED <<holder, pc, todo, loggers, outcome, disturbed, given, stops, fills>>

xo_open_log(logstat) ==
  /\ Setting
  /\ xo_logstat' = logstat /\ xo_opened' = TRUE
  /\ SocketIs(IF "LOG_NDELAY" \in logstat THEN Connect(xo_logfile, xo_status) ELSE socket)
  /\ UNCHANGED choices

\* Mutant: closing leaves the status behind.
CloseKeepsStatus ==
  /\ Setting
  /\ SocketIs(<<Closed, xo_status>>)
  /\ UNCHANGED <<config, choices>>

xo_close_log ==
  /\ Setting
  /\ SocketIs(<<Closed, "NOCONN">>)
  /\ UNCHANGED <<config, choices>>

xo_set_logmask(mask) ==
  /\ Setting
  /\ xo_logmask' = mask
  /\ UNCHANGED <<socket, config, remote, custom>>

(* xo_log_set_host, xo_log_set_host_path and their NULL arguments: the open
   socket is left as it is. *)
xo_log_set_host(to) ==
  /\ Setting
  /\ \A t \in Threads : pc[t] = "idle"
  /\ Careful => xo_logfile = Closed
  /\ remote' = to
  /\ UNCHANGED <<socket, config, xo_logmask, custom>>

xo_set_syslog_handler(on) ==
  /\ Setting
  /\ \A t \in Threads : pc[t] = "idle"
  /\ custom' = on
  /\ UNCHANGED <<socket, config, xo_logmask, remote>>

-------------------------------------------------------------------------------
\* The loggers.

LoggersOnly == UNCHANGED <<holder, pc, todo, socket, config, choices, outcome, given, settings>>

(* A logger stops: its sockets are gone, with what they held. *)
Stop(own) ==
  /\ stops < MaxRestarts /\ own \cap listening # {}
  /\ listening' = listening \ own
  /\ queue' = [s \in Sockets |-> IF s \in own THEN 0 ELSE queue[s]]
  /\ stops' = stops + 1
  /\ disturbed' = TRUE
  /\ LoggersOnly /\ UNCHANGED <<born, fills>>

(* It comes back with new sockets of the same names, with or without the
   privileged one. *)
Start(own) ==
  /\ own \cap listening = {} /\ \A s \in own : born[s] < MaxRestarts
  /\ listening' = listening \cup own
  /\ born' = [s \in Sockets |-> IF s \in own THEN born[s] + 1 ELSE born[s]]
  /\ LoggersOnly /\ UNCHANGED <<queue, disturbed, stops, fills>>

Drain(s) ==
  /\ queue[s] > 0
  /\ queue' = [queue EXCEPT ![s] = @ - 1]
  /\ LoggersOnly /\ UNCHANGED <<born, listening, disturbed, stops, fills>>

(* Other programs log as well. *)
Fill(s) ==
  /\ s \in listening /\ fills < MaxFills /\ queue[s] < Capacity
  /\ queue' = [queue EXCEPT ![s] = Capacity]
  /\ fills' = fills + 1
  /\ LoggersOnly /\ UNCHANGED <<born, listening, disturbed, stops>>

-------------------------------------------------------------------------------
Step(t) ==
  \/ Lock(t) \/ Handler(t) \/ Prepare(t)
  \/ SendRemote(t) \/ Send(t) \/ Resend(t) \/ Retry(t)

Settings ==
  \/ \E stat \in {{}, {"LOG_CONS"}, {"LOG_NDELAY"}} : xo_open_log(stat)
  \/ xo_close_log
  \/ \E mask \in {{"err"}, {"err", "debug"}} : xo_set_logmask(mask)
  \/ \E to \in {"none", "path", "host"} : xo_log_set_host(to)
  \/ \E on \in BOOLEAN : xo_set_syslog_handler(on)

Environment ==
  \/ \E own \in {Local, {"path"}} : Stop(own)
  \/ \E own \in {Local, {"def"}, {"path"}} : Start(own)
  \/ \E s \in Sockets : Drain(s) \/ Fill(s)

Next ==
  \/ \E t \in Threads :
       \/ \E sev \in {"err", "debug"}, valid \in BOOLEAN : Call(t, sev, valid)
       \/ Step(t)
  \/ Settings
  \/ Environment

(* The threads run. Nothing makes a logger read, stop or come back. *)
Spec == Init /\ [][Next]_vars /\ \A t \in Threads : WF_vars(Step(t))

-------------------------------------------------------------------------------
\* Properties.

(* No retry delivers a message twice: it reaches a logger once at most, and then
   neither the console nor the list of those given up on. *)
AtMostOnce ==
  /\ \A m \in DOMAIN received : received[m] <= 1
  /\ \A m \in console \cup lost : received[m] = 0
  /\ console \cap lost = {}

(* Between calls the status says whether there is a socket. xo_connect_log relies
   on it: with a stale status it makes a socket and connects it to nothing. *)
StatusMatches ==
  holder = NoThread => (xo_status = "NOCONN" <=> xo_logfile = Closed)

(* A logger restarted before a call costs no message of it: one with a local
   destination is given up on only if no local logger was there all the time, or
   if the privileged socket was full. *)
RestartLosesNothing ==
  [][ \A m \in (lost' \cup console') \ (lost \cup console) :
        remote = "none" =>
          \/ disturbed
          \/ xo_status = "CONNPRIV" /\ pc[holder] = "retry" ]_vars

(* With the destination changed only while there is no socket, all that is sent
   to a host goes out on a socket for hosts. *)
HostGetsAll ==
  [][ remote = "host" => lost' \subseteq lost ]_vars

FullDefault ==
  /\ holder # NoThread /\ pc[holder] = "retry"
  /\ xo_status # "CONNPRIV" /\ Answer(xo_logfile) = "ENOBUFS"

(* A call returns, whatever the loggers do and without their help, unless the
   default socket is full: that is the only thing anybody waits for. *)
CallsReturn ==
  \A t \in Threads : pc[t] = "called" ~> (pc[t] = "idle" \/ FullDefault)
===============================================================================
