---------------------------- MODULE XoSyslogProofs ----------------------------
(***************************************************************************)
(* Proofs about XoSyslog, for any number of threads, messages, restarts    *)
(* and datagrams a logger's socket holds.                                  *)
(***************************************************************************)
EXTENDS XoSyslog, TLAPS

LogFiles == {Closed, Udp, Fresh}
              \cup [kind : {"unix"}, to : Sockets, born : 0..MaxRestarts]
Statuses == {"NOCONN", "CONNDEF", "CONNPRIV"}

(* A thread in a call has the message it is about. *)
Busy == \A t \in Threads : pc[t] # "idle" => Len(todo[t]) > 0

TypeInv == TypeOK /\ Busy

-------------------------------------------------------------------------------
(* The pairs of socket and status that connecting and disconnecting lead to. *)

LEMMA ConnectType ==
  ASSUME LoggersOK, NEW f \in LogFiles, NEW st \in Statuses
  PROVE  /\ Connect(f, st)[1] \in LogFiles
         /\ Connect(f, st)[2] \in Statuses
<1> USE DEF LoggersOK, LogFiles, Statuses
<1>1. \A s \in Sockets : Unix(s) \in LogFiles
  BY DEF Unix
<1>2. "priv" \in Sockets /\ "def" \in Sockets /\ "path" \in Sockets
  BY DEF Sockets
<1>3. /\ ConnectRemote(f, st)[1] \in LogFiles
      /\ ConnectRemote(f, st)[2] \in Statuses
  BY <1>1, <1>2 DEF ConnectRemote
<1>4. /\ ConnectLocal(f, st)[1] \in LogFiles
      /\ ConnectLocal(f, st)[2] \in Statuses
  BY <1>1, <1>2 DEF ConnectLocal
<1> QED BY <1>3, <1>4 DEF Connect

LEMMA DisconnectType ==
  ASSUME NEW f \in LogFiles, NEW st \in Statuses
  PROVE  /\ Disconnect(f, st)[1] \in LogFiles
         /\ Disconnect(f, st)[2] \in Statuses
BY DEF Disconnect, LogFiles, Statuses

LEMMA SocketTypes == SocketOK <=> xo_logfile \in LogFiles /\ xo_status \in Statuses
BY DEF SocketOK, LogFiles, Statuses

(* A datagram is only given to a socket that has room for it. *)
LEMMA SentHasRoom ==
  ASSUME NEW f, Answer(f) = "sent"
  PROVE  f.to \in Sockets /\ queue[f.to] < Capacity
BY DEF Answer, Reaches

(* The message a call is about, and what the thread has left after it. *)
LEMMA MessageType ==
  ASSUME CallsOK, Busy, NEW t \in Threads, pc[t] # "idle"
  PROVE  /\ Message(t) \in 1..MaxMessages
         /\ Tail(todo[t]) \in Seq(Messages)
         /\ Len(Tail(todo[t])) = Len(todo[t]) - 1
<1>1. todo[t] \in Seq(Messages) /\ Len(todo[t]) > 0
  BY DEF CallsOK, Busy
<1>2. Head(todo[t]) \in Messages
  BY <1>1
<1>3. Tail(todo[t]) \in Seq(Messages) /\ Len(Tail(todo[t])) = Len(todo[t]) - 1
  BY <1>1
<1>4. Message(t) \in 1..MaxMessages
  BY <1>2 DEF Message, Messages
<1> QED BY <1>3, <1>4

-------------------------------------------------------------------------------
(* The steps of a thread. *)

LEMMA InitType == Init => TypeInv
<1> SUFFICES ASSUME Init PROVE TypeInv
  OBVIOUS
<1> USE SyslogAssumption DEF Init
<1>1. CallsOK
  BY DEF CallsOK
<1>2. SocketOK
  BY DEF SocketOK
<1>3. SettingsOK
  BY DEF SettingsOK
<1>4. LoggersOK
  BY DEF LoggersOK, Sockets
<1>5. OutcomeOK
  BY DEF OutcomeOK
<1>6. Busy
  BY DEF Busy
<1> QED BY <1>1, <1>2, <1>3, <1>4, <1>5, <1>6 DEF TypeInv, TypeOK

LEMMA CallType ==
  ASSUME CallsOK, Busy, NEW t \in Threads, NEW severity \in {"err", "debug"},
         NEW valid \in BOOLEAN, Call(t, severity, valid)
  PROVE  CallsOK' /\ Busy'
<1> DEFINE own == [id |-> given + (IF valid THEN 1 ELSE 2), sev |-> severity]
           diagnostic == [id |-> given + 1, sev |-> "err"]
           new == IF valid THEN <<own>> ELSE <<diagnostic, own>>
<1>1. own.id \in 1..MaxMessages /\ given + 1 \in 1..MaxMessages
  BY SyslogAssumption DEF Call, CallsOK
<1>2. own \in Messages /\ diagnostic \in Messages
  BY <1>1 DEF Messages
<1>3. new \in Seq(Messages) /\ Len(new) > 0
  BY <1>2
<1>4. /\ todo' = [todo EXCEPT ![t] = new]
      /\ pc' = [pc EXCEPT ![t] = "called"]
      /\ given' = own.id
      /\ holder' = holder
  BY DEF Call
<1> HIDE DEF new, own
<1>5. CallsOK'
  BY <1>1, <1>3, <1>4 DEF CallsOK
<1>6. Busy'
  BY <1>3, <1>4 DEF CallsOK, Busy
<1> QED BY <1>5, <1>6

(* A thread that leaves a call goes on with the rest of what it has to pass. *)
LEMMA ReturnType ==
  ASSUME CallsOK, Busy, NEW t \in Threads, pc[t] # "idle", Return(t)
  PROVE  /\ pc' \in [Threads -> {"idle", "called", "built", "send", "resend", "retry"}]
         /\ todo' \in [Threads -> Seq(Messages)]
         /\ Busy'
<1>1. /\ Tail(todo[t]) \in Seq(Messages)
      /\ Len(Tail(todo[t])) = Len(todo[t]) - 1
      /\ Len(todo[t]) \in Nat
  BY MessageType DEF CallsOK
<1>2. /\ todo' = [todo EXCEPT ![t] = Tail(todo[t])]
      /\ pc' = [pc EXCEPT ![t] = IF Len(todo[t]) > 1 THEN "called" ELSE "idle"]
  BY DEF Return
<1>3. Busy'
  BY <1>1, <1>2 DEF CallsOK, Busy
<1> QED BY <1>1, <1>2, <1>3 DEF CallsOK

LEMMA UnlockType ==
  ASSUME CallsOK, Busy, NEW t \in Threads, pc[t] # "idle", Unlock(t), given' = given
  PROVE  CallsOK' /\ Busy'
BY ReturnType DEF Unlock, CallsOK

LEMMA LockType ==
  ASSUME TypeInv, NEW t \in Threads, Lock(t)
  PROVE  TypeInv'
<1>1. CASE Head(todo[t]).sev \notin xo_logmask
  <2>1. Return(t) /\ UNCHANGED <<holder, disturbed, given>> /\ pc[t] # "idle"
    BY <1>1 DEF Lock, Masked, counts
  <2>2. CallsOK' /\ Busy'
    BY <2>1, ReturnType DEF CallsOK, TypeInv, TypeOK
  <2> QED BY <2>1, <2>2 DEF Lock, TypeInv, TypeOK, SocketOK, SettingsOK, LoggersOK, OutcomeOK,
                        socket, config, choices, loggers, outcome
<1>2. CASE Head(todo[t]).sev \in xo_logmask
  <2>1. /\ holder' = t /\ pc' = [pc EXCEPT ![t] = "built"] /\ disturbed' \in BOOLEAN
        /\ UNCHANGED <<todo, given>> /\ pc[t] # "idle"
    BY <1>2 DEF Lock, counts
  <2>2. CallsOK' /\ Busy'
    BY <2>1 DEF CallsOK, Busy, TypeInv, TypeOK
  <2> QED BY <2>1, <2>2 DEF Lock, TypeInv, TypeOK, SocketOK, SettingsOK, LoggersOK, OutcomeOK,
                        socket, config, choices, loggers, outcome
<1> QED BY <1>1, <1>2

LEMMA SentType ==
  ASSUME TypeInv, NEW t \in Threads, pc[t] # "idle", Answer(xo_logfile) = "sent", Sent(t),
         UNCHANGED <<given, born, listening, disturbed>>
  PROVE  CallsOK' /\ Busy' /\ LoggersOK' /\ OutcomeOK'
<1>1. CallsOK' /\ Busy'
  BY UnlockType DEF Sent, TypeInv, TypeOK
<1>2. LoggersOK'
  BY SentHasRoom, SyslogAssumption DEF Sent, LoggersOK, TypeInv, TypeOK
<1>3. OutcomeOK'
  BY MessageType DEF Sent, OutcomeOK, TypeInv, TypeOK
<1> QED BY <1>1, <1>2, <1>3

LEMMA GiveUpType ==
  ASSUME TypeInv, NEW t \in Threads, pc[t] # "idle", GiveUp(t),
         UNCHANGED <<given, born, listening, disturbed>>
  PROVE  CallsOK' /\ Busy' /\ LoggersOK' /\ OutcomeOK'
<1>1. CallsOK' /\ Busy'
  BY UnlockType DEF GiveUp, TypeInv, TypeOK
<1>2. LoggersOK'
  BY DEF GiveUp, LoggersOK, TypeInv, TypeOK
<1>3. Message(t) \in 1..MaxMessages
  BY MessageType DEF TypeInv, TypeOK
<1>4. OutcomeOK'
  BY <1>3 DEF GiveUp, OutcomeOK, TypeInv, TypeOK
<1> QED BY <1>1, <1>2, <1>4

LEMMA ContinueType ==
  ASSUME TypeInv, NEW t \in Threads, pc[t] # "idle",
         NEW at \in {"send", "resend", "retry"}, Continue(t, at),
         UNCHANGED <<given, born, listening, disturbed>>
  PROVE  CallsOK' /\ Busy' /\ LoggersOK' /\ OutcomeOK'
<1>1. CallsOK' /\ Busy'
  BY DEF Continue, CallsOK, Busy, TypeInv, TypeOK
<1> QED BY <1>1 DEF Continue, LoggersOK, OutcomeOK, outcome, TypeInv, TypeOK

LEMMA HandlerType ==
  ASSUME TypeInv, NEW t \in Threads, Handler(t)
  PROVE  TypeInv'
<1>1. CallsOK' /\ Busy'
  BY UnlockType DEF Handler, counts, TypeInv, TypeOK
<1>2. OutcomeOK'
  BY MessageType DEF Handler, OutcomeOK, TypeInv, TypeOK
<1> QED BY <1>1, <1>2 DEF Handler, TypeInv, TypeOK, SocketOK, SettingsOK, LoggersOK,
                        socket, config, choices, loggers

LEMMA PrepareType ==
  ASSUME TypeInv, NEW t \in Threads, Prepare(t)
  PROVE  TypeInv'
<1>1. CallsOK' /\ Busy' /\ LoggersOK' /\ OutcomeOK'
  BY ContinueType DEF Prepare, counts
<1>2. SocketOK'
  BY ConnectType, SocketTypes DEF Prepare, SocketIs, TypeInv, TypeOK, SocketOK, LogFiles, Statuses
<1>3. SettingsOK'
  BY DEF Prepare, SettingsOK, choices, TypeInv, TypeOK
<1> QED BY <1>1, <1>2, <1>3 DEF TypeInv, TypeOK

LEMMA SendRemoteType ==
  ASSUME TypeInv, NEW t \in Threads, SendRemote(t)
  PROVE  TypeInv'
<1>1. /\ pc[t] # "idle" /\ UNCHANGED <<given, born, listening, disturbed>>
      /\ SocketOK' /\ SettingsOK'
  BY DEF SendRemote, counts, socket, config, choices, SocketOK, SettingsOK, TypeInv, TypeOK
<1>2. CASE Answer(xo_logfile) = "sent" /\ Sent(t)
  BY <1>1, <1>2, SentType DEF TypeInv, TypeOK
<1>3. CASE /\ received' = [received EXCEPT ![Message(t)] = @ + 1]
           /\ Unlock(t) /\ UNCHANGED <<queue, console, lost>>
  <2>1. CallsOK' /\ Busy'
    BY <1>1, <1>3, UnlockType DEF TypeInv, TypeOK
  <2>2. LoggersOK' /\ OutcomeOK'
    BY <1>1, <1>3, MessageType DEF LoggersOK, OutcomeOK, TypeInv, TypeOK
  <2> QED BY <1>1, <2>1, <2>2 DEF TypeInv, TypeOK
<1>4. CASE lost' = lost \cup {Message(t)} /\ Unlock(t) /\ UNCHANGED <<queue, received, console>>
  <2>1. CallsOK' /\ Busy'
    BY <1>1, <1>4, UnlockType DEF TypeInv, TypeOK
  <2>2. LoggersOK' /\ OutcomeOK'
    BY <1>1, <1>4, MessageType DEF LoggersOK, OutcomeOK, TypeInv, TypeOK
  <2> QED BY <1>1, <2>1, <2>2 DEF TypeInv, TypeOK
<1> QED BY <1>2, <1>3, <1>4 DEF SendRemote

LEMMA SendType ==
  ASSUME TypeInv, NEW t \in Threads, Send(t)
  PROVE  TypeInv'
<1>1. /\ pc[t] # "idle" /\ UNCHANGED <<given, born, listening, disturbed>> /\ SettingsOK'
  BY DEF Send, counts, config, choices, SettingsOK, TypeInv, TypeOK
<1>2. CASE Answer(xo_logfile) = "sent"
  <2>1. Sent(t) /\ SocketOK'
    BY <1>2 DEF Send, socket, SocketOK, TypeInv, TypeOK
  <2> QED BY <1>1, <1>2, <2>1, SentType DEF TypeInv, TypeOK
<1>3. CASE Answer(xo_logfile) = "ENOBUFS"
  <2>1. Continue(t, "retry") /\ SocketOK'
    BY <1>3 DEF Send, socket, SocketOK, TypeInv, TypeOK
  <2> QED BY <1>1, <2>1, ContinueType DEF TypeInv, TypeOK
<1>4. CASE Answer(xo_logfile) \notin {"sent", "ENOBUFS"}
  <2> DEFINE off == Disconnect(xo_logfile, xo_status)
  <2>1. Continue(t, "resend") /\ SocketIs(Connect(off[1], off[2]))
    BY <1>4 DEF Send
  <2>2. off[1] \in LogFiles /\ off[2] \in Statuses
    BY DisconnectType, SocketTypes DEF TypeInv, TypeOK
  <2> HIDE DEF off
  <2>3. SocketOK'
    BY <2>1, <2>2, ConnectType DEF SocketIs, SocketOK, LogFiles, Statuses, TypeInv, TypeOK
  <2> QED BY <1>1, <2>1, <2>3, ContinueType DEF TypeInv, TypeOK
<1> QED BY <1>2, <1>3, <1>4

(* Resend and Retry: sent, gone on with, or given up on. *)
LEMMA LastTriesType ==
  ASSUME TypeInv, NEW t \in Threads, Resend(t) \/ Retry(t)
  PROVE  TypeInv'
<1>1. /\ pc[t] # "idle" /\ UNCHANGED <<given, born, listening, disturbed>>
      /\ SocketOK' /\ SettingsOK'
  BY DEF Resend, Retry, counts, socket, config, choices, SocketOK, SettingsOK, TypeInv, TypeOK
<1>2. \/ Answer(xo_logfile) = "sent" /\ Sent(t)
      \/ Continue(t, "retry")
      \/ GiveUp(t)
  BY DEF Resend, Retry
<1> QED BY <1>1, <1>2, SentType, ContinueType, GiveUpType DEF TypeInv, TypeOK

-------------------------------------------------------------------------------
(* The other calls, and the loggers. *)

LEMMA SettingKeeps ==
  ASSUME TypeInv, Setting
  PROVE  CallsOK' /\ Busy' /\ LoggersOK' /\ OutcomeOK'
BY DEF Setting, TypeInv, TypeOK, CallsOK, Busy, LoggersOK, OutcomeOK, loggers, outcome

LEMMA SettingsType ==
  ASSUME TypeInv, Settings
  PROVE  TypeInv'
<1>1. CASE \E stat \in {{}, {"LOG_CONS"}, {"LOG_NDELAY"}} : xo_open_log(stat)
  <2>1. PICK stat \in {{}, {"LOG_CONS"}, {"LOG_NDELAY"}} : xo_open_log(stat)
    BY <1>1
  <2>2. SocketOK'
    BY <2>1, ConnectType
       DEF xo_open_log, SocketIs, socket, SocketOK, LogFiles, Statuses, TypeInv, TypeOK
  <2>3. SettingsOK'
    BY <2>1 DEF xo_open_log, choices, SettingsOK, TypeInv, TypeOK
  <2>4. Setting
    BY <2>1 DEF xo_open_log
  <2> QED BY <2>2, <2>3, <2>4, SettingKeeps DEF TypeInv, TypeOK
<1>2. CASE xo_close_log
  <2>1. SocketOK' /\ SettingsOK'
    BY <1>2 DEF xo_close_log, SocketIs, SocketOK, SettingsOK, config, choices, TypeInv, TypeOK
  <2> QED BY <1>2, <2>1, SettingKeeps DEF xo_close_log, TypeInv, TypeOK
<1>3. CASE \E mask \in {{"err"}, {"err", "debug"}} : xo_set_logmask(mask)
  <2>1. SocketOK' /\ SettingsOK' /\ Setting
    BY <1>3 DEF xo_set_logmask, SocketOK, SettingsOK, socket, config, TypeInv, TypeOK
  <2> QED BY <2>1, SettingKeeps DEF TypeInv, TypeOK
<1>4. CASE \E to \in {"none", "path", "host"} : xo_log_set_host(to)
  <2>1. SocketOK' /\ SettingsOK' /\ Setting
    BY <1>4 DEF xo_log_set_host, SocketOK, SettingsOK, socket, config, TypeInv, TypeOK
  <2> QED BY <2>1, SettingKeeps DEF TypeInv, TypeOK
<1>5. CASE \E on \in BOOLEAN : xo_set_syslog_handler(on)
  <2>1. SocketOK' /\ SettingsOK' /\ Setting
    BY <1>5 DEF xo_set_syslog_handler, SocketOK, SettingsOK, socket, config, TypeInv, TypeOK
  <2> QED BY <2>1, SettingKeeps DEF TypeInv, TypeOK
<1> QED BY <1>1, <1>2, <1>3, <1>4, <1>5 DEF Settings

LEMMA LoggersOnlyKeeps ==
  ASSUME TypeInv, LoggersOnly
  PROVE  /\ CallsOK' /\ Busy' /\ SocketOK' /\ SettingsOK'
         /\ disturbed' \in BOOLEAN => OutcomeOK'
BY DEF LoggersOnly, TypeInv, TypeOK, CallsOK, Busy, SocketOK, SettingsOK, OutcomeOK,
       socket, config, choices, outcome

LEMMA EnvironmentType ==
  ASSUME TypeInv, Environment
  PROVE  TypeInv'
<1> USE SyslogAssumption DEF LoggersOK
<1>1. LoggersOK /\ disturbed \in BOOLEAN
  BY DEF TypeInv, TypeOK, OutcomeOK
<1>2. LoggersOK' /\ LoggersOnly /\ disturbed' \in BOOLEAN
  <2>1. ASSUME NEW own \in {Local, {"path"}}, Stop(own)
        PROVE  LoggersOK' /\ LoggersOnly /\ disturbed' \in BOOLEAN
    BY <1>1, <2>1 DEF Stop
  <2>2. ASSUME NEW own \in {Local, {"def"}, {"path"}}, Start(own)
        PROVE  LoggersOK' /\ LoggersOnly /\ disturbed' \in BOOLEAN
    <3>1. own \subseteq Sockets
      BY DEF Local, Sockets
    <3> QED BY <1>1, <2>2, <3>1 DEF Start
  <2>3. ASSUME NEW s \in Sockets, Drain(s) \/ Fill(s)
        PROVE  LoggersOK' /\ LoggersOnly /\ disturbed' \in BOOLEAN
    BY <1>1, <2>3 DEF Drain, Fill
  <2> QED BY <2>1, <2>2, <2>3 DEF Environment
<1> QED BY <1>2, LoggersOnlyKeeps DEF TypeInv, TypeOK

LEMMA StepType ==
  ASSUME TypeInv, [Next]_vars
  PROVE  TypeInv'
<1>1. ASSUME NEW t \in Threads, NEW sev \in {"err", "debug"}, NEW valid \in BOOLEAN,
             Call(t, sev, valid)
      PROVE  TypeInv'
  <2>1. CallsOK' /\ Busy'
    BY <1>1, CallType DEF TypeInv, TypeOK
  <2> QED BY <1>1, <2>1 DEF Call, TypeInv, TypeOK, SocketOK, SettingsOK, LoggersOK, OutcomeOK,
                            socket, config, choices, loggers, outcome
<1>2. ASSUME NEW t \in Threads, Step(t)
      PROVE  TypeInv'
  BY <1>2, LockType, HandlerType, PrepareType, SendRemoteType, SendType, LastTriesType DEF Step
<1>3. CASE UNCHANGED vars
  BY <1>3 DEF vars, TypeInv, TypeOK, CallsOK, Busy, SocketOK, SettingsOK, LoggersOK, OutcomeOK,
              socket, config, choices, loggers, outcome, counts
<1> QED BY <1>1, <1>2, <1>3, SettingsType, EnvironmentType DEF Next

(* The variables keep their types whatever the threads, the program and the
   loggers do: a thread in a call has a message, and a logger's socket is given
   nothing it has no room for (xo_syslog.c:457). *)
THEOREM Types == Spec => []TypeOK
<1>1. Spec => []TypeInv
  BY InitType, StepType, PTL DEF Spec
<1> QED BY <1>1, PTL DEF TypeInv

-------------------------------------------------------------------------------
(* The status and the socket. *)

Matches(f, st) == st = "NOCONN" <=> f = Closed

SocketMatches == Matches(xo_logfile, xo_status)

LEMMA ConnectMatches ==
  ASSUME NEW f \in LogFiles, NEW st \in Statuses, Matches(f, st)
  PROVE  Matches(Connect(f, st)[1], Connect(f, st)[2])
<1>1. Udp # Closed /\ Fresh # Closed /\ \A s \in Sockets : Unix(s) # Closed
  BY DEF Udp, Closed, Fresh, Unix
<1>2. Matches(ConnectRemote(f, st)[1], ConnectRemote(f, st)[2])
  BY <1>1 DEF ConnectRemote, Matches, Sockets
<1>3. Matches(ConnectLocal(f, st)[1], ConnectLocal(f, st)[2])
  BY <1>1 DEF ConnectLocal, Matches, Sockets
<1> QED BY <1>2, <1>3 DEF Connect

LEMMA DisconnectMatches ==
  ASSUME NEW f \in LogFiles, NEW st \in Statuses, Matches(f, st)
  PROVE  Matches(Disconnect(f, st)[1], Disconnect(f, st)[2])
BY DEF Disconnect, Matches

LEMMA StepMatches ==
  ASSUME TypeInv, SocketMatches, [Next]_vars
  PROVE  SocketMatches'
<1>1. /\ xo_logfile \in LogFiles /\ xo_status \in Statuses
      /\ Matches(xo_logfile, xo_status)
  BY SocketTypes DEF TypeInv, TypeOK, SocketMatches
<1>2. CASE UNCHANGED socket
  BY <1>1, <1>2 DEF socket, SocketMatches
<1>3. CASE SocketIs(Connect(xo_logfile, xo_status))
  BY <1>1, <1>3, ConnectMatches DEF SocketIs, SocketMatches
<1>4. CASE SocketIs(<<Closed, "NOCONN">>)
  BY <1>4 DEF SocketIs, SocketMatches, Matches
<1>5. CASE LET off == Disconnect(xo_logfile, xo_status)
           IN  SocketIs(Connect(off[1], off[2]))
  <2> DEFINE off == Disconnect(xo_logfile, xo_status)
  <2>1. off[1] \in LogFiles /\ off[2] \in Statuses /\ Matches(off[1], off[2])
    BY <1>1, DisconnectType, DisconnectMatches
  <2>2. SocketIs(Connect(off[1], off[2]))
    BY <1>5
  <2> HIDE DEF off
  <2> QED BY <2>1, <2>2, ConnectMatches DEF SocketIs, SocketMatches
<1>6. \/ UNCHANGED socket
      \/ SocketIs(Connect(xo_logfile, xo_status))
      \/ SocketIs(<<Closed, "NOCONN">>)
      \/ LET off == Disconnect(xo_logfile, xo_status)
         IN  SocketIs(Connect(off[1], off[2]))
  <2>1. ASSUME NEW t \in Threads, Step(t)
        PROVE  \/ UNCHANGED socket
               \/ SocketIs(Connect(xo_logfile, xo_status))
               \/ LET off == Disconnect(xo_logfile, xo_status)
                  IN  SocketIs(Connect(off[1], off[2]))
    <3>1. CASE Lock(t) \/ Handler(t) \/ SendRemote(t) \/ Resend(t) \/ Retry(t)
      BY <3>1 DEF Lock, Handler, SendRemote, Resend, Retry
    <3>2. CASE Prepare(t)
      BY <3>2 DEF Prepare
    <3>3. CASE Send(t)
      BY <3>3 DEF Send
    <3> QED BY <2>1, <3>1, <3>2, <3>3 DEF Step
  <2>2. ASSUME Settings
        PROVE  \/ UNCHANGED socket
               \/ SocketIs(Connect(xo_logfile, xo_status))
               \/ SocketIs(<<Closed, "NOCONN">>)
    <3>1. ASSUME NEW stat \in {{}, {"LOG_CONS"}, {"LOG_NDELAY"}}, xo_open_log(stat)
          PROVE  UNCHANGED socket \/ SocketIs(Connect(xo_logfile, xo_status))
      BY <3>1 DEF xo_open_log, SocketIs, socket
    <3> QED BY <2>2, <3>1 DEF Settings, xo_close_log, xo_set_logmask, xo_log_set_host, xo_set_syslog_handler
  <2>3. Environment => UNCHANGED socket
    BY DEF Environment, Stop, Start, Drain, Fill, LoggersOnly
  <2>4. ASSUME NEW t \in Threads, NEW sev \in {"err", "debug"}, NEW valid \in BOOLEAN,
               Call(t, sev, valid)
        PROVE  UNCHANGED socket
    BY <2>4 DEF Call
  <2> QED BY <2>1, <2>2, <2>3, <2>4 DEF Next, vars
<1> QED BY <1>2, <1>3, <1>4, <1>5, <1>6

(* Between calls, and in fact at any time, the status says whether there is a
   socket, whatever order connects, disconnects and closes come in
   (xo_syslog.c:563). *)
THEOREM StatusAlwaysMatches == Spec => []StatusMatches
<1>1. Init => SocketMatches
  BY DEF Init, SocketMatches, Matches
<1>2. Spec => [](TypeInv /\ SocketMatches)
  BY <1>1, InitType, StepType, StepMatches, PTL DEF Spec
<1>3. SocketMatches => StatusMatches
  BY DEF SocketMatches, Matches, StatusMatches
<1> QED BY <1>2, <1>3, PTL

-------------------------------------------------------------------------------
(* No message twice. AtMostOnce is about messages that were passed on; that none is
   passed on again needs to be known of those that still wait: they are all
   different, and nobody has had one yet, nor one that was not given yet. *)

Apart ==
  \A t, u \in Threads : \A i \in DOMAIN todo[t], j \in DOMAIN todo[u] :
    todo[t][i].id = todo[u][j].id => t = u /\ i = j

Untouched(m) == received[m] = 0 /\ m \notin console /\ m \notin lost

Waiting ==
  \A t \in Threads : \A i \in DOMAIN todo[t] :
    todo[t][i].id <= given /\ Untouched(todo[t][i].id)

Unseen == \A m \in 1..MaxMessages : m > given => Untouched(m)

OnceInv == Apart /\ Waiting /\ Unseen /\ AtMostOnce

(* Message m, of which nobody had heard, gets one outcome at most; no other
   message does. *)
OneOutcome(m) ==
  /\ \A k \in (1..MaxMessages) \ {m} :
       /\ received'[k] = received[k]
       /\ k \in console' <=> k \in console
       /\ k \in lost' <=> k \in lost
  /\ received'[m] <= 1
  /\ m \in console' \/ m \in lost' => received'[m] = 0
  /\ ~(m \in console' /\ m \in lost')

(* What a thread has to pass moves up by one when it returns. *)
LEMMA ReturnShifts ==
  ASSUME CallsOK, Busy, NEW t \in Threads, pc[t] # "idle", Return(t),
         NEW u \in Threads, NEW i \in DOMAIN todo'[u]
  PROVE  LET j == IF u = t THEN i + 1 ELSE i
         IN  i \in Nat /\ i > 0 /\ j \in DOMAIN todo[u] /\ todo'[u][i] = todo[u][j]
<1>1. todo \in [Threads -> Seq(Messages)] /\ todo' = [todo EXCEPT ![t] = Tail(todo[t])]
  BY DEF CallsOK, Return
<1>2. CASE u = t
  <2>1. todo[t] \in Seq(Messages) /\ Len(todo[t]) > 0 /\ todo'[t] = Tail(todo[t])
    BY <1>1 DEF Busy
  <2>2. i \in DOMAIN Tail(todo[t])
    BY <1>2, <2>1
  <2>3. i \in 1..(Len(todo[t]) - 1) /\ Tail(todo[t])[i] = todo[t][i + 1]
    BY <2>1, <2>2
  <2> QED BY <1>2, <2>1, <2>3
<1>3. CASE u # t
  <2>1. todo'[u] = todo[u] /\ todo[u] \in Seq(Messages)
    BY <1>1, <1>3
  <2> QED BY <1>3, <2>1
<1> QED BY <1>2, <1>3

LEMMA PassedOnce ==
  ASSUME TypeInv, OnceInv, NEW t \in Threads, pc[t] # "idle", Return(t), given' = given,
         OneOutcome(Message(t)), OutcomeOK'
  PROVE  OnceInv'
<1> DEFINE m == Message(t)
           Was(u, i) == IF u = t THEN i + 1 ELSE i
<1>1. CallsOK /\ Busy /\ OutcomeOK
  BY DEF TypeInv, TypeOK
<1>2. \A u \in Threads : \A i \in DOMAIN todo'[u] :
        /\ i \in Nat /\ i > 0
        /\ Was(u, i) \in DOMAIN todo[u]
        /\ todo'[u][i] = todo[u][Was(u, i)]
  BY <1>1, ReturnShifts
<1>3. /\ m \in 1..MaxMessages /\ 1 \in DOMAIN todo[t] /\ todo[t][1].id = m
      /\ todo[t] \in Seq(Messages)
  BY <1>1, MessageType DEF CallsOK, Busy, Message
<1>4. Apart'
  BY <1>2 DEF OnceInv, Apart
<1>5. \A u \in Threads : \A i \in DOMAIN todo'[u] :
        todo'[u][i].id # m /\ todo'[u][i].id \in 1..MaxMessages
  <2> SUFFICES ASSUME NEW u \in Threads, NEW i \in DOMAIN todo'[u]
               PROVE  todo'[u][i].id # m /\ todo'[u][i].id \in 1..MaxMessages
    OBVIOUS
  <2>1. /\ i \in Nat /\ i > 0 /\ Was(u, i) \in DOMAIN todo[u]
        /\ todo'[u][i] = todo[u][Was(u, i)]
    BY <1>2
  <2>2. todo[u][Was(u, i)] \in Messages
    BY <1>1, <2>1 DEF CallsOK
  <2>3. ~(u = t /\ Was(u, i) = 1)
    BY <2>1
  <2>4. todo[u][Was(u, i)].id # m
    BY <1>3, <2>1, <2>3 DEF OnceInv, Apart
  <2> QED BY <2>1, <2>2, <2>4 DEF Messages
<1>6. m <= given
  BY <1>3 DEF OnceInv, Waiting
<1> HIDE DEF m
<1>7. \A k \in (1..MaxMessages) \ {m} : Untouched(k) => Untouched(k)'
  BY DEF OneOutcome, Untouched, m
<1>8. Waiting'
  BY <1>2, <1>5, <1>7 DEF OnceInv, Waiting
<1>9. Unseen'
  BY <1>1, <1>3, <1>6, <1>7 DEF OnceInv, Unseen, CallsOK
<1>10. AtMostOnce'
  <2>1. \A k \in (1..MaxMessages) \ {m} :
          /\ received'[k] <= 1
          /\ k \in console' \cup lost' => received'[k] = 0
          /\ ~(k \in console' /\ k \in lost')
    BY <1>1 DEF OneOutcome, OnceInv, AtMostOnce, OutcomeOK, m
  <2>2. /\ received'[m] <= 1
        /\ m \in console' \cup lost' => received'[m] = 0
        /\ ~(m \in console' /\ m \in lost')
    BY DEF OneOutcome, m
  <2>3. DOMAIN received' = 1..MaxMessages /\ console' \cup lost' \subseteq 1..MaxMessages
    BY DEF OutcomeOK
  <2> QED BY <2>1, <2>2, <2>3 DEF AtMostOnce
<1> QED BY <1>4, <1>8, <1>9, <1>10 DEF OnceInv

(* The message of a call is one that nobody has heard of. *)
LEMMA MessageUntouched ==
  ASSUME TypeInv, OnceInv, NEW t \in Threads, pc[t] # "idle"
  PROVE  Message(t) \in 1..MaxMessages /\ Untouched(Message(t))
<1>1. CallsOK /\ Busy
  BY DEF TypeInv, TypeOK
<1>2. 1 \in DOMAIN todo[t] /\ todo[t][1].id = Message(t)
  BY <1>1 DEF CallsOK, Busy, Message
<1>3. Untouched(todo[t][1].id)
  BY <1>2 DEF OnceInv, Waiting
<1> QED BY <1>1, <1>2, <1>3, MessageType

LEMMA QuietOnce ==
  ASSUME OnceInv, UNCHANGED <<todo, given, received, console, lost>>
  PROVE  OnceInv'
BY DEF OnceInv, Apart, Waiting, Unseen, AtMostOnce, Untouched

LEMMA CallOnce ==
  ASSUME TypeInv, OnceInv, NEW t \in Threads, NEW severity \in {"err", "debug"},
         NEW valid \in BOOLEAN, Call(t, severity, valid)
  PROVE  OnceInv'
<1> DEFINE own == [id |-> given + (IF valid THEN 1 ELSE 2), sev |-> severity]
           diagnostic == [id |-> given + 1, sev |-> "err"]
           new == IF valid THEN <<own>> ELSE <<diagnostic, own>>
<1>1. CallsOK
  BY DEF TypeInv, TypeOK
<1>2. /\ todo' = [todo EXCEPT ![t] = new] /\ given' = own.id /\ own.id <= MaxMessages
      /\ UNCHANGED <<received, console, lost>>
  BY DEF Call, outcome
<1>3. /\ \A i \in DOMAIN new : new[i].id \in (given + 1)..own.id
      /\ \A i, j \in DOMAIN new : new[i].id = new[j].id => i = j
  BY <1>1 DEF CallsOK
<1>4. given \in Nat /\ own.id \in Nat /\ own.id > given
  BY <1>1 DEF CallsOK
<1> HIDE DEF new, own
<1>5. todo'[t] = new /\ \A u \in Threads : u # t => todo'[u] = todo[u]
  BY <1>1, <1>2 DEF CallsOK
<1>6. \A u \in Threads : \A i \in DOMAIN todo[u] :
        todo[u][i].id \in Int /\ todo[u][i].id <= given
  <2> SUFFICES ASSUME NEW u \in Threads, NEW i \in DOMAIN todo[u]
               PROVE  todo[u][i].id \in Int /\ todo[u][i].id <= given
    OBVIOUS
  <2>1. todo[u][i] \in Messages
    BY <1>1 DEF CallsOK
  <2> QED BY <2>1 DEF Messages, OnceInv, Waiting
<1>7. Apart'
  <2> SUFFICES ASSUME NEW u \in Threads, NEW v \in Threads,
                      NEW i \in DOMAIN todo'[u], NEW j \in DOMAIN todo'[v],
                      todo'[u][i].id = todo'[v][j].id
               PROVE  u = v /\ i = j
    BY DEF Apart
  <2>1. CASE u = t /\ v = t
    BY <1>3, <1>5, <2>1
  <2>2. CASE u = t /\ v # t
    BY <1>3, <1>4, <1>5, <1>6, <2>2
  <2>3. CASE u # t /\ v = t
    BY <1>3, <1>4, <1>5, <1>6, <2>3
  <2>4. CASE u # t /\ v # t
    BY <1>5, <2>4 DEF OnceInv, Apart
  <2> QED BY <2>1, <2>2, <2>3, <2>4
<1>8. \A m : Untouched(m) => Untouched(m)'
  BY <1>2 DEF Untouched
<1>9. Waiting'
  <2> SUFFICES ASSUME NEW u \in Threads, NEW i \in DOMAIN todo'[u]
               PROVE  (todo[u][i].id <= given /\ Untouched(todo[u][i].id))'
    BY DEF Waiting
  <2>1. CASE u = t
    <3>1. todo'[u][i].id \in (given + 1)..own.id
      BY <1>3, <1>5, <2>1
    <3>2. todo'[u][i].id \in 1..MaxMessages /\ todo'[u][i].id > given
      BY <1>2, <1>4, <3>1, SyslogAssumption
    <3>3. Untouched(todo'[u][i].id)
      BY <3>2 DEF OnceInv, Unseen
    <3> QED BY <1>2, <1>4, <1>8, <3>1, <3>3
  <2>2. CASE u # t
    <3>1. todo'[u] = todo[u] /\ i \in DOMAIN todo[u]
      BY <1>5, <2>2
    <3>2. Untouched(todo[u][i].id) /\ todo[u][i].id <= given /\ todo[u][i].id \in Int
      BY <1>6, <3>1 DEF OnceInv, Waiting
    <3> QED BY <1>2, <1>4, <1>8, <3>1, <3>2
  <2> QED BY <2>1, <2>2
<1>10. Unseen'
  BY <1>2, <1>4, <1>8 DEF OnceInv, Unseen
<1>11. AtMostOnce'
  BY <1>2 DEF OnceInv, AtMostOnce
<1> QED BY <1>7, <1>9, <1>10, <1>11 DEF OnceInv

(* A step of a thread leaves what waits and what was passed alone, or ends the
   call with at most one outcome for its message. *)
LEMMA StepOutcome ==
  ASSUME TypeInv, OnceInv, NEW t \in Threads, Step(t)
  PROVE  /\ given' = given
         /\ \/ UNCHANGED <<todo, received, console, lost>>
            \/ pc[t] # "idle" /\ Return(t) /\ OneOutcome(Message(t))
<1>1. pc[t] # "idle" /\ given' = given
  BY DEF Step, Lock, Handler, Prepare, SendRemote, Send, Resend, Retry, counts
<1>2. Message(t) \in 1..MaxMessages /\ Untouched(Message(t))
  BY <1>1, MessageUntouched
<1>3. received \in [1..MaxMessages -> Nat]
  BY DEF TypeInv, TypeOK, OutcomeOK
<1>4. ASSUME UNCHANGED <<received, console, lost>>
      PROVE  OneOutcome(Message(t))
  BY <1>2, <1>4 DEF OneOutcome, Untouched
<1>5. ASSUME received' = [received EXCEPT ![Message(t)] = @ + 1], UNCHANGED <<console, lost>>
      PROVE  OneOutcome(Message(t))
  BY <1>2, <1>3, <1>5 DEF OneOutcome, Untouched
<1>6. ASSUME lost' = lost \cup {Message(t)}, UNCHANGED <<received, console>>
      PROVE  OneOutcome(Message(t))
  BY <1>2, <1>3, <1>6 DEF OneOutcome, Untouched
<1>7. ASSUME Sent(t)
      PROVE  Return(t) /\ OneOutcome(Message(t))
  BY <1>5, <1>7 DEF Sent, Unlock
<1>8. ASSUME GiveUp(t)
      PROVE  Return(t) /\ OneOutcome(Message(t))
  <2> DEFINE m == Message(t)
  <2>1. /\ console' = IF "LOG_CONS" \in xo_logstat THEN console \cup {m} ELSE console
        /\ lost' = lost \cup ({m} \ console') /\ received' = received /\ Return(t)
    BY <1>8 DEF GiveUp, Unlock
  <2>2. received[m] = 0 /\ m \notin console /\ m \notin lost
    BY <1>2 DEF Untouched
  <2> HIDE DEF m
  <2>3. OneOutcome(m)
    BY <2>1, <2>2 DEF OneOutcome
  <2> QED BY <2>1, <2>3 DEF m
<1>9. ASSUME NEW at, Continue(t, at)
      PROVE  UNCHANGED <<todo, received, console, lost>>
  BY <1>9 DEF Continue, outcome
<1>10. CASE Lock(t)
  <2>1. UNCHANGED <<received, console, lost>> /\ (Return(t) \/ UNCHANGED todo)
    BY <1>10 DEF Lock, Masked, outcome
  <2> QED BY <1>1, <1>4, <2>1
<1>11. CASE Handler(t)
  BY <1>1, <1>5, <1>11 DEF Handler, Unlock
<1>12. CASE Prepare(t)
  BY <1>1, <1>9, <1>12 DEF Prepare
<1>13. CASE SendRemote(t)
  <2>1. \/ Sent(t)
        \/ /\ received' = [received EXCEPT ![Message(t)] = @ + 1]
           /\ Return(t) /\ UNCHANGED <<console, lost>>
        \/ lost' = lost \cup {Message(t)} /\ Return(t) /\ UNCHANGED <<received, console>>
    BY <1>13 DEF SendRemote, Unlock
  <2> QED BY <1>1, <1>5, <1>6, <1>7, <2>1
<1>14. CASE Send(t)
  <2>1. Sent(t) \/ Continue(t, "retry") \/ Continue(t, "resend")
    BY <1>14 DEF Send
  <2> QED BY <1>1, <1>7, <1>9, <2>1
<1>15. CASE Resend(t) \/ Retry(t)
  <2>1. Sent(t) \/ Continue(t, "retry") \/ GiveUp(t)
    BY <1>15 DEF Resend, Retry
  <2> QED BY <1>1, <1>7, <1>8, <1>9, <2>1
<1> QED BY <1>10, <1>11, <1>12, <1>13, <1>14, <1>15 DEF Step

LEMMA StepOnce ==
  ASSUME TypeInv, OnceInv, [Next]_vars
  PROVE  OnceInv'
<1>1. ASSUME NEW t \in Threads, Step(t)
      PROVE  OnceInv'
  <2>1. OutcomeOK'
    BY <1>1, StepType DEF Next, TypeInv, TypeOK
  <2>2. CASE UNCHANGED <<todo, received, console, lost>>
    BY <1>1, <2>2, StepOutcome, QuietOnce
  <2>3. CASE pc[t] # "idle" /\ Return(t) /\ OneOutcome(Message(t))
    BY <1>1, <2>1, <2>3, StepOutcome, PassedOnce
  <2> QED BY <1>1, <2>2, <2>3, StepOutcome
<1>2. CASE Settings
  BY <1>2, QuietOnce DEF Settings, xo_open_log, xo_close_log, xo_set_logmask, xo_log_set_host,
                         xo_set_syslog_handler, Setting, outcome
<1>3. CASE Environment
  BY <1>3, QuietOnce DEF Environment, Stop, Start, Drain, Fill, LoggersOnly, outcome
<1>4. CASE UNCHANGED vars
  BY <1>4, QuietOnce DEF vars, outcome, counts
<1> QED BY <1>1, <1>2, <1>3, <1>4, CallOnce DEF Next

LEMMA InitOnce == Init => OnceInv
<1> SUFFICES ASSUME Init PROVE OnceInv
  OBVIOUS
<1>1. Apart /\ Waiting
  BY DEF Init, Apart, Waiting
<1>2. Unseen /\ AtMostOnce
  BY DEF Init, Unseen, AtMostOnce, Untouched
<1> QED BY <1>1, <1>2 DEF OnceInv

(* No retry, reconnect or change of destination delivers a message twice, or both
   delivers it and gives up on it, for any number of threads, restarts and full
   sockets (xo_syslog.c:463). *)
THEOREM DeliveredOnce == Spec => []AtMostOnce
<1>1. Spec => [](TypeInv /\ OnceInv)
  BY InitType, InitOnce, StepType, StepOnce, PTL DEF Spec
<1> QED BY <1>1, PTL DEF OnceInv
-------------------------------------------------------------------------------
(* What the thread with the lock relies on while it sends: nobody else is past
   the lock, the caller's handlers are not set, a destination other than the
   local logger gets one attempt; a host is sent to on a socket for hosts when
   destinations are changed with care; and a reconnect that found a logger
   stays good until that logger stops. *)

InDelivery == {"built", "send", "resend", "retry"}

OneHolder == \A t \in Threads : pc[t] \in InDelivery <=> holder = t

OwnSends ==
  \A t \in Threads :
    /\ pc[t] \in {"send", "resend", "retry"} => ~custom
    /\ pc[t] \in {"resend", "retry"} => remote = "none"

HostSocket ==
  Careful /\ remote = "host" =>
    /\ xo_logfile \in {Closed, Udp}
    /\ \A t \in Threads : pc[t] = "send" => xo_logfile = Udp

Reached == \E s \in Sockets : Reaches(xo_logfile, s)

StillThere ==
  ~disturbed =>
    /\ holder # NoThread => listening \cap Local # {}
    /\ \A t \in Threads : pc[t] \in {"resend", "retry"} => Reached

DeliveryInv == OneHolder /\ OwnSends /\ HostSocket /\ StillThere

LEMMA InitDelivery == Init => DeliveryInv
<1> SUFFICES ASSUME Init PROVE DeliveryInv
  OBVIOUS
<1>1. OneHolder
  BY SyslogAssumption DEF Init, OneHolder, InDelivery
<1>2. OwnSends /\ HostSocket /\ StillThere
  BY DEF Init, OwnSends, HostSocket, StillThere
<1> QED BY <1>1, <1>2 DEF DeliveryInv

(* send() tells whether the socket still reaches a logger. *)
LEMMA AnswerReaches == Answer(xo_logfile) = "error" <=> ~Reached
BY DEF Answer, Reached

(* A connect made while a local logger listens reaches it. *)
LEMMA ReconnectReaches ==
  ASSUME ~custom, remote = "none", listening \cap Local # {}
  PROVE  LET off == Disconnect(xo_logfile, xo_status)
             on  == Connect(off[1], off[2])
         IN  \E s \in Sockets : Reaches(on[1], s)
<1>1. Disconnect(xo_logfile, xo_status) = <<Closed, "NOCONN">>
  BY DEF Disconnect
<1>2. Connect(Closed, "NOCONN") = ConnectLocal(Closed, "NOCONN")
  BY DEF Connect
<1>3. "priv" \in listening \/ "def" \in listening
  BY DEF Local
<1>4. \A s \in listening : Reaches(Unix(s), s)
  BY DEF Reaches, Unix
<1>5. "priv" \in Sockets /\ "def" \in Sockets
  BY DEF Sockets
<1> QED BY <1>1, <1>2, <1>3, <1>4, <1>5 DEF ConnectLocal

(* Connecting keeps a socket for hosts and makes one where there was none. *)
LEMMA ConnectHost ==
  ASSUME remote = "host", NEW f \in {Closed, Udp}, NEW st
  PROVE  /\ Connect(f, st)[1] \in {Closed, Udp}
         /\ ~custom => Connect(f, st)[1] = Udp
BY DEF Connect, ConnectRemote

(* A step of a thread takes the lock, leaves a call, or goes on with the lock. *)
LEMMA StepMoves ==
  ASSUME TypeInv, OneHolder, NEW t \in Threads, Step(t)
  PROVE  /\ pc[t] # "idle"
         /\ \A u \in Threads \ {t} : pc'[u] = pc[u]
         /\ pc' \in [Threads -> {"idle", "called", "built", "send", "resend", "retry"}]
         /\ \/ pc'[t] \in {"idle", "called"} /\ holder \in {t, NoThread} /\ holder' = NoThread
            \/ pc'[t] = "built" /\ holder = NoThread /\ holder' = t
            \/ pc'[t] \in {"send", "resend", "retry"} /\ holder = t /\ holder' = t
<1>1. /\ pc \in [Threads -> {"idle", "called", "built", "send", "resend", "retry"}]
      /\ pc' \in [Threads -> {"idle", "called", "built", "send", "resend", "retry"}]
  BY StepType DEF Next, TypeInv, TypeOK, CallsOK
<1>2. ASSUME pc[t] \in InDelivery, Unlock(t)
      PROVE  /\ pc'[t] \in {"idle", "called"} /\ holder = t /\ holder' = NoThread
             /\ \A u \in Threads \ {t} : pc'[u] = pc[u]
  BY <1>1, <1>2 DEF Unlock, Return, OneHolder
<1>3. ASSUME pc[t] \in InDelivery, NEW at \in {"send", "resend", "retry"}, Continue(t, at)
      PROVE  /\ pc'[t] \in {"send", "resend", "retry"} /\ holder = t /\ holder' = t
             /\ \A u \in Threads \ {t} : pc'[u] = pc[u]
  BY <1>1, <1>3 DEF Continue, OneHolder
<1>4. CASE Lock(t)
  <2>1. CASE Head(todo[t]).sev \notin xo_logmask
    BY <1>1, <1>4, <2>1 DEF Lock, Masked, Return
  <2>2. CASE Head(todo[t]).sev \in xo_logmask
    BY <1>1, <1>4, <2>2 DEF Lock
  <2> QED BY <2>1, <2>2
<1>5. CASE Handler(t) \/ Prepare(t) \/ SendRemote(t) \/ Send(t) \/ Resend(t) \/ Retry(t)
  <2>1. pc[t] \in InDelivery
    BY <1>5 DEF Handler, Prepare, SendRemote, Send, Resend, Retry, InDelivery
  <2>2. \/ Unlock(t)
        \/ Continue(t, "send") \/ Continue(t, "resend") \/ Continue(t, "retry")
    <3>1. Sent(t) \/ GiveUp(t) => Unlock(t)
      BY DEF Sent, GiveUp
    <3>2. CASE Handler(t)
      BY <3>2 DEF Handler
    <3>3. CASE Prepare(t)
      BY <3>3 DEF Prepare
    <3>4. CASE SendRemote(t)
      BY <3>1, <3>4 DEF SendRemote
    <3>5. CASE Send(t)
      BY <3>1, <3>5 DEF Send
    <3>6. CASE Resend(t)
      BY <3>1, <3>6 DEF Resend
    <3>7. CASE Retry(t)
      BY <3>1, <3>7 DEF Retry
    <3> QED BY <1>5, <3>2, <3>3, <3>4, <3>5, <3>6, <3>7
  <2>3. pc[t] # "idle"
    BY <2>1 DEF InDelivery
  <2> QED BY <1>1, <1>2, <1>3, <2>1, <2>2, <2>3
<1> QED BY <1>4, <1>5 DEF Step

LEMMA StepHolder ==
  ASSUME TypeInv, OneHolder, NEW t \in Threads, Step(t)
  PROVE  OneHolder'
BY StepMoves, SyslogAssumption DEF OneHolder, InDelivery

(* What a step of a thread leaves alone, and what each of them finds. *)
LEMMA StepLeaves ==
  ASSUME NEW t \in Threads, Step(t)
  PROVE  UNCHANGED <<remote, custom, listening, born>>
BY DEF Step, Lock, Handler, Prepare, SendRemote, Send, Resend, Retry, choices, loggers

LEMMA StepOwn ==
  ASSUME TypeInv, DeliveryInv, NEW t \in Threads, Step(t)
  PROVE  OwnSends'
<1>1. UNCHANGED <<remote, custom>>
  BY StepLeaves
<1>2. OneHolder /\ OwnSends
  BY DEF DeliveryInv
<1>3. \A u \in Threads \ {t} : pc'[u] = pc[u]
  BY <1>2, StepMoves
<1>4. /\ pc'[t] \in {"send", "resend", "retry"} => ~custom
      /\ pc'[t] \in {"resend", "retry"} => remote = "none"
  <2>1. pc \in [Threads -> {"idle", "called", "built", "send", "resend", "retry"}]
    BY DEF TypeInv, TypeOK, CallsOK
  <2>2. CASE pc'[t] \in {"send", "resend", "retry"}
    <3>1. pc[t] \in InDelivery
      BY <1>2, <2>2, StepMoves DEF OneHolder
    <3>2. CASE Prepare(t)
      BY <2>1, <3>2 DEF Prepare, Continue
    <3>3. CASE Send(t) \/ Resend(t) \/ Retry(t)
      BY <1>2, <3>3 DEF Send, Resend, Retry, OwnSends
    <3>4. CASE Handler(t) \/ SendRemote(t)
      <4>1. Unlock(t)
        BY <3>4 DEF Handler, SendRemote, Sent
      <4> QED BY <2>1, <2>2, <4>1 DEF Unlock, Return
    <3>5. CASE Lock(t)
      BY <3>1, <3>5 DEF Lock, InDelivery
    <3> QED BY <3>2, <3>3, <3>4, <3>5 DEF Step
  <2> QED BY <2>2
<1> QED BY <1>1, <1>2, <1>3, <1>4 DEF OwnSends

LEMMA StepHost ==
  ASSUME TypeInv, DeliveryInv, NEW t \in Threads, Step(t)
  PROVE  HostSocket'
<1> SUFFICES ASSUME Careful, remote = "host"
             PROVE  /\ xo_logfile' \in {Closed, Udp}
                    /\ \A u \in Threads : pc'[u] = "send" => xo_logfile' = Udp
  BY StepLeaves DEF HostSocket
<1>1. OneHolder /\ OwnSends /\ xo_logfile \in {Closed, Udp}
      /\ \A u \in Threads : pc[u] = "send" => xo_logfile = Udp
  BY DEF DeliveryInv, HostSocket
<1>2. \A u \in Threads \ {t} : pc'[u] = pc[u]
  BY <1>1, StepMoves
<1>3. pc \in [Threads -> {"idle", "called", "built", "send", "resend", "retry"}]
  BY DEF TypeInv, TypeOK, CallsOK
<1>4. CASE Prepare(t)
  <2>1. ~custom /\ SocketIs(Connect(xo_logfile, xo_status))
    BY <1>4 DEF Prepare
  <2>2. xo_logfile' = Udp
    BY <1>1, <2>1, ConnectHost DEF SocketIs
  <2> QED BY <2>2
<1>5. CASE Lock(t) \/ Handler(t) \/ SendRemote(t)
  <2>1. xo_logfile' = xo_logfile
    BY <1>5 DEF Lock, Handler, SendRemote, socket
  <2>2. pc'[t] \in {"idle", "called", "built"}
    BY <1>3, <1>5 DEF Lock, Masked, Handler, SendRemote, Sent, Unlock, Return
  <2> QED BY <1>1, <1>2, <2>1, <2>2
<1>6. CASE Send(t) \/ Resend(t) \/ Retry(t)
  BY <1>1, <1>6 DEF Send, Resend, Retry, OwnSends
<1> QED BY <1>4, <1>5, <1>6 DEF Step

LEMMA StepThere ==
  ASSUME TypeInv, DeliveryInv, NEW t \in Threads, Step(t)
  PROVE  StillThere'
<1> SUFFICES ASSUME ~disturbed'
             PROVE  /\ holder' # NoThread => listening \cap Local # {}
                    /\ \A u \in Threads : pc'[u] \in {"resend", "retry"} => Reached'
  BY StepLeaves DEF StillThere
<1>1. OneHolder /\ OwnSends /\ StillThere
  BY DEF DeliveryInv
<1>2. OneHolder'
  BY <1>1, StepHolder
<1>3. UNCHANGED <<listening, born>>
  BY StepLeaves
<1>4. ASSUME UNCHANGED socket, Reached
      PROVE  Reached'
  BY <1>3, <1>4 DEF Reached, Reaches, socket
<1>5. CASE Lock(t)
  <2>1. pc'[t] \notin {"resend", "retry"} /\ \A u \in Threads \ {t} : pc'[u] = pc[u]
    BY <1>1, <1>5, StepMoves DEF Lock, OneHolder, InDelivery
  <2>2. CASE Head(todo[t]).sev \notin xo_logmask
    <3>1. UNCHANGED <<holder, disturbed, socket>>
      BY <1>5, <2>2 DEF Lock, Masked
    <3> QED BY <1>1, <1>4, <2>1, <3>1 DEF StillThere
  <2>3. CASE Head(todo[t]).sev \in xo_logmask
    <3>1. holder = NoThread /\ disturbed' = (listening \cap Local = {})
      BY <1>5, <2>3 DEF Lock
    <3>2. \A u \in Threads : pc[u] \notin {"resend", "retry"}
      BY <1>1, <3>1, SyslogAssumption DEF OneHolder, InDelivery
    <3> QED BY <2>1, <3>1, <3>2
  <2> QED BY <2>2, <2>3
<1>6. CASE ~Lock(t)
  <2>1. ~disturbed /\ pc[t] \in InDelivery
    BY <1>6 DEF Step, Handler, Prepare, SendRemote, Send, Resend, Retry, InDelivery
  <2>2. holder = t /\ listening \cap Local # {} /\ t # NoThread
    BY <1>1, <2>1, SyslogAssumption DEF OneHolder, StillThere
  <2>3. ASSUME NEW u \in Threads, pc'[u] \in {"resend", "retry"}
        PROVE  Reached'
    <3>1. u = t /\ holder' = t
      BY <1>1, <1>2, <2>1, <2>2, <2>3, StepMoves, SyslogAssumption DEF OneHolder, InDelivery
    <3>2. pc \in [Threads -> {"idle", "called", "built", "send", "resend", "retry"}]
      BY DEF TypeInv, TypeOK, CallsOK
    <3>3. CASE Send(t)
      <4>1. CASE Answer(xo_logfile) = "sent"
        BY <2>2, <3>1, <3>3, <4>1, SyslogAssumption DEF Send, Sent, Unlock
      <4>2. CASE Answer(xo_logfile) = "ENOBUFS"
        BY <1>4, <3>3, <4>2, AnswerReaches DEF Send
      <4>3. CASE Answer(xo_logfile) \notin {"sent", "ENOBUFS"}
        <5> DEFINE off == Disconnect(xo_logfile, xo_status)
                   on  == Connect(off[1], off[2])
        <5>1. SocketIs(on) /\ ~custom /\ remote = "none"
          BY <1>1, <3>3, <4>3 DEF Send, OwnSends
        <5>2. \E s \in Sockets : Reaches(on[1], s)
          BY <2>2, <5>1, ReconnectReaches
        <5>3. xo_logfile' = on[1]
          BY <5>1 DEF SocketIs
        <5> HIDE DEF on
        <5> QED BY <1>3, <5>2, <5>3 DEF Reached, Reaches
      <4> QED BY <4>1, <4>2, <4>3
    <3>4. CASE Resend(t) \/ Retry(t)
      <4>1. Reached
        BY <1>1, <2>1, <3>4 DEF Resend, Retry, StillThere
      <4>2. UNCHANGED socket
        BY <3>4 DEF Resend, Retry
      <4> QED BY <1>4, <4>1, <4>2
    <3>5. CASE Prepare(t)
      BY <2>3, <3>1, <3>2, <3>5 DEF Prepare, Continue
    <3>6. CASE Handler(t) \/ SendRemote(t)
      BY <2>2, <3>1, <3>6, SyslogAssumption DEF Handler, SendRemote, Sent, Unlock
    <3> QED BY <1>6, <3>3, <3>4, <3>5, <3>6 DEF Step
  <2> QED BY <2>2, <2>3
<1> QED BY <1>5, <1>6

(* The other calls are made while nobody has the lock. *)
LEMMA SettingsDelivery ==
  ASSUME TypeInv, DeliveryInv, Settings
  PROVE  DeliveryInv'
<1>1. Setting /\ UNCHANGED <<holder, pc, listening, disturbed>>
  BY DEF Settings, xo_open_log, xo_close_log, xo_set_logmask, xo_log_set_host,
         xo_set_syslog_handler, Setting, loggers
<1>2. \A t \in Threads : pc[t] \notin InDelivery
  BY <1>1, SyslogAssumption DEF Setting, DeliveryInv, OneHolder
<1>3. OneHolder' /\ OwnSends'
  BY <1>1, <1>2 DEF DeliveryInv, OneHolder, OwnSends, InDelivery
<1>4. StillThere'
  BY <1>1, <1>2 DEF Setting, StillThere, InDelivery
<1>5. HostSocket'
  <2>1. \A t \in Threads : pc'[t] # "send"
    BY <1>1, <1>2 DEF InDelivery
  <2>2. ASSUME Careful, remote' = "host"
        PROVE  xo_logfile' \in {Closed, Udp}
    <3>1. CASE \E to \in {"none", "path", "host"} : xo_log_set_host(to)
      BY <2>2, <3>1 DEF xo_log_set_host, socket
    <3>2. CASE ~\E to \in {"none", "path", "host"} : xo_log_set_host(to)
      <4>1. remote = "host" /\ xo_logfile \in {Closed, Udp}
        BY <2>2, <3>2 DEF Settings, xo_open_log, xo_close_log, xo_set_logmask,
                          xo_set_syslog_handler, choices, DeliveryInv, HostSocket
      <4>2. \/ UNCHANGED socket \/ SocketIs(<<Closed, "NOCONN">>)
            \/ SocketIs(Connect(xo_logfile, xo_status))
        <5>1. ASSUME NEW stat \in {{}, {"LOG_CONS"}, {"LOG_NDELAY"}}, xo_open_log(stat)
              PROVE  UNCHANGED socket \/ SocketIs(Connect(xo_logfile, xo_status))
          BY <5>1 DEF xo_open_log, SocketIs, socket
        <5> QED BY <3>2, <5>1 DEF Settings, xo_close_log, xo_set_logmask, xo_set_syslog_handler
      <4> QED BY <4>1, <4>2, ConnectHost DEF SocketIs, socket
    <3> QED BY <3>1, <3>2
  <2> QED BY <2>1, <2>2 DEF HostSocket
<1> QED BY <1>3, <1>4, <1>5 DEF DeliveryInv

(* A logger that stops is noticed; one that comes back leaves the sockets that
   are there alone. *)
LEMMA EnvironmentDelivery ==
  ASSUME TypeInv, DeliveryInv, Environment
  PROVE  DeliveryInv'
<1>1. UNCHANGED <<holder, pc, xo_logfile, remote, custom>>
  BY DEF Environment, Stop, Start, Drain, Fill, LoggersOnly, socket, choices
<1>2. OneHolder' /\ OwnSends' /\ HostSocket'
  BY <1>1 DEF DeliveryInv, OneHolder, OwnSends, HostSocket
<1>3. \/ disturbed'
      \/ /\ listening \subseteq listening' /\ disturbed' = disturbed
         /\ \A s \in listening : born'[s] = born[s]
  <2>1. ASSUME NEW own \in {Local, {"path"}}, Stop(own)
        PROVE  disturbed'
    BY <2>1 DEF Stop
  <2>2. ASSUME NEW own \in {Local, {"def"}, {"path"}}, Start(own)
        PROVE  /\ listening \subseteq listening' /\ disturbed' = disturbed
               /\ \A s \in listening : born'[s] = born[s]
    <3>1. listening \subseteq Sockets
      BY DEF TypeInv, TypeOK, LoggersOK
    <3> QED BY <2>2, <3>1 DEF Start
  <2>3. ASSUME NEW s \in Sockets, Drain(s) \/ Fill(s)
        PROVE  UNCHANGED <<listening, born, disturbed>>
    BY <2>3 DEF Drain, Fill
  <2> QED BY <2>1, <2>2, <2>3 DEF Environment
<1>4. StillThere'
  <2>1. CASE disturbed'
    BY <2>1 DEF StillThere
  <2>2. CASE ~disturbed'
    <3>1. /\ listening \subseteq listening' /\ ~disturbed
          /\ \A s \in listening : born'[s] = born[s]
      BY <1>3, <2>2
    <3>2. Reached => Reached'
      BY <1>1, <3>1 DEF Reached, Reaches
    <3> QED BY <1>1, <3>1, <3>2 DEF DeliveryInv, StillThere
  <2> QED BY <2>1, <2>2
<1> QED BY <1>2, <1>4 DEF DeliveryInv

LEMMA StepDelivery ==
  ASSUME TypeInv, DeliveryInv, [Next]_vars
  PROVE  DeliveryInv'
<1>1. ASSUME NEW t \in Threads, Step(t)
      PROVE  DeliveryInv'
  BY <1>1, StepHolder, StepOwn, StepHost, StepThere DEF DeliveryInv
<1>2. ASSUME NEW t \in Threads, NEW sev \in {"err", "debug"}, NEW valid \in BOOLEAN,
             Call(t, sev, valid)
      PROVE  DeliveryInv'
  <2>1. /\ pc[t] = "idle" /\ pc' = [pc EXCEPT ![t] = "called"]
        /\ UNCHANGED <<holder, xo_logfile, remote, custom, born, listening, disturbed>>
    BY <1>2 DEF Call, socket, choices, loggers
  <2>2. pc \in [Threads -> {"idle", "called", "built", "send", "resend", "retry"}]
    BY DEF TypeInv, TypeOK, CallsOK
  <2>3. \A u \in Threads :
          pc'[u] = pc[u] \/ (pc[u] = "idle" /\ pc'[u] = "called")
    BY <2>1, <2>2
  <2>4. Reached' <=> Reached
    BY <2>1 DEF Reached, Reaches
  <2>5. OneHolder'
    BY <2>1, <2>3 DEF DeliveryInv, OneHolder, InDelivery
  <2>6. OwnSends' /\ HostSocket' /\ StillThere'
    BY <2>1, <2>3, <2>4 DEF DeliveryInv, OwnSends, HostSocket, StillThere
  <2> QED BY <2>5, <2>6 DEF DeliveryInv
<1>3. CASE UNCHANGED vars
  <2>1. UNCHANGED <<holder, pc, xo_logfile, remote, custom, born, listening, disturbed>>
    BY <1>3 DEF vars, socket, choices, loggers
  <2> QED BY <2>1 DEF DeliveryInv, OneHolder, OwnSends, HostSocket, StillThere, Reached, Reaches
<1> QED BY <1>1, <1>2, <1>3, SettingsDelivery, EnvironmentDelivery DEF Next

LEMMA DeliveryAlways == Spec => [](TypeInv /\ DeliveryInv)
BY InitType, InitDelivery, StepType, StepDelivery, PTL DEF Spec

(* The only steps that give up on a message. *)
LEMMA WhoGivesUp ==
  ASSUME [Next]_vars, ~UNCHANGED <<lost, console>>
  PROVE  \E t \in Threads :
           \/ /\ pc[t] = "send" /\ remote # "none"
              /\ ~(remote = "host" /\ xo_logfile = Udp)
           \/ /\ pc[t] \in {"resend", "retry"}
              /\ \/ Answer(xo_logfile) = "error"
                 \/ pc[t] = "retry" /\ xo_status = "CONNPRIV"
<1>1. PICK t \in Threads : Step(t)
  <2>1. ~(Settings \/ Environment \/ UNCHANGED vars)
    BY DEF Settings, xo_open_log, xo_close_log, xo_set_logmask, xo_log_set_host,
           xo_set_syslog_handler, Setting, Environment, Stop, Start, Drain, Fill,
           LoggersOnly, outcome, vars
  <2>2. ASSUME NEW t \in Threads, NEW sev, NEW valid, Call(t, sev, valid)
        PROVE  UNCHANGED <<lost, console>>
    BY <2>2 DEF Call, outcome
  <2> QED BY <2>1, <2>2 DEF Next
<1>2. CASE Lock(t) \/ Handler(t) \/ Prepare(t)
  BY <1>2 DEF Lock, Handler, Prepare, Continue, outcome
<1>3. CASE SendRemote(t)
  BY <1>1, <1>3 DEF SendRemote, Sent
<1>4. CASE Send(t)
  BY <1>4 DEF Send, Sent, Continue, outcome
<1>5. CASE Resend(t) \/ Retry(t)
  <2>1. Answer(xo_logfile) \in {"sent", "ENOBUFS", "error"}
    BY DEF Answer
  <2> QED BY <1>1, <1>5, <2>1 DEF Resend, Retry, Sent, Continue, outcome
<1> QED BY <1>1, <1>2, <1>3, <1>4, <1>5 DEF Step

(* A logger that is restarted between two calls, or during one that reconnects to
   it in time, costs no message with a local destination, for any number of
   threads and restarts: one is given up on only when the loggers were away during
   its delivery or the privileged socket was full (xo_syslog.c:455). *)
THEOREM RestartsLoseNothing == Spec => RestartLosesNothing
<1>1. ASSUME TypeInv, DeliveryInv, [Next]_vars,
             NEW m \in (lost' \cup console') \ (lost \cup console), remote = "none"
      PROVE  disturbed \/ (xo_status = "CONNPRIV" /\ pc[holder] = "retry")
  <2>1. PICK t \in Threads :
          /\ pc[t] \in {"resend", "retry"}
          /\ \/ Answer(xo_logfile) = "error"
             \/ pc[t] = "retry" /\ xo_status = "CONNPRIV"
    BY <1>1, WhoGivesUp
  <2>2. holder = t
    BY <1>1, <2>1 DEF DeliveryInv, OneHolder, InDelivery
  <2>3. ~disturbed => Reached
    BY <1>1, <2>1 DEF DeliveryInv, StillThere
  <2> QED BY <2>1, <2>2, <2>3, AnswerReaches
<1>2. TypeInv /\ DeliveryInv /\ [Next]_vars =>
        [\A m \in (lost' \cup console') \ (lost \cup console) :
           remote = "none" =>
             \/ disturbed
             \/ xo_status = "CONNPRIV" /\ pc[holder] = "retry"]_vars
  BY <1>1
<1> QED BY <1>2, DeliveryAlways, PTL DEF Spec, RestartLosesNothing

(* A program that changes destinations only while the log is closed loses no
   message to a host: none goes out on a socket of another kind, whatever calls
   come between (xo_syslog.c:281). *)
THEOREM CarefulReachesHost ==
  ASSUME Careful
  PROVE  Spec => HostGetsAll
<1>1. ASSUME TypeInv, DeliveryInv, [Next]_vars, remote = "host"
      PROVE  lost' \subseteq lost
  <2> SUFFICES ASSUME NEW m \in lost' \ lost
               PROVE  FALSE
    OBVIOUS
  <2>1. \A t \in Threads : /\ pc[t] \notin {"resend", "retry"}
                           /\ pc[t] = "send" => xo_logfile = Udp
    BY <1>1 DEF DeliveryInv, OwnSends, HostSocket
  <2> QED BY <1>1, <2>1, WhoGivesUp
<1>2. TypeInv /\ DeliveryInv /\ [Next]_vars => [remote = "host" => lost' \subseteq lost]_vars
  BY <1>1
<1> QED BY <1>2, DeliveryAlways, PTL DEF Spec, HostGetsAll

===============================================================================
