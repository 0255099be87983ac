------------------------------ MODULE PlayLoop ------------------------------
(***************************************************************************)
(* The loop of one connection in Play: poll the events of the tick thread, *)
(* check the keep-alive timer, decode one packet, and read from the socket *)
(* when the decoder has nothing to hand over.                              *)
(*                                                                         *)
(* Time passes only while the loop is blocked in read; a read returns as   *)
(* soon as there is data, or after its timeout.  Times are ages, counted   *)
(* in a unit that divides the ping interval.  The payload of a keep-alive  *)
(* is the tick count of its ping, so no two are equal and all the loop     *)
(* asks of an answer is whether it is to the last ping sent: "answer" is   *)
(* an answer to the last ping and "late_answer" one to an earlier ping.    *)
(* The client may send anything, at any time, more than once.              *)
(***************************************************************************)
EXTENDS Integers, Sequences, Functions

CONSTANTS
    PingInterval,  \* KEEP_ALIVE_INTERVAL_TICKS
    Timeout,       \* keep_alive_timeout
    ReadTimeout,   \* play_read_timeout
    Packet,        \* the kinds of packets, but the answers, that the client sends
    NetCap,        \* bound: packets sent and not yet decoded
    MaxDigs        \* bound: digs sent and not yet acknowledged

ASSUME ConstantsAssumption ==
    /\ PingInterval \in Nat \ {0}
    /\ Timeout \in Nat
    /\ ReadTimeout \in Nat \ {0}
    /\ Packet \subseteq {"move", "dig", "unknown", "invalid"}
    /\ NetCap \in Nat \ {0}
    /\ MaxDigs \in Nat

Answer == {"answer", "late_answer"}

NoPing == -1   \* last_keep_alive_sent = None

VARIABLES
    pc,                   \* of the session thread
    events,               \* keep-alive events waiting in event_receiver
    tick_up,              \* the tick thread runs
    since_ping,           \* age of the last ping of the tick thread
    last_keep_alive_sent, \* its age, or NoPing
    reading_for,          \* how long the current read has been blocked
    read_buffer,          \* received, not decoded
    socket,               \* sent by the client, not read
    open,                 \* the client has not closed the connection
    heard,                \* pings written to the client, counted up to two
    answered,             \* when the client answered the last ping
    silent_for,           \* how long the client has been asked and has sent no answer
    digs                  \* packets that are owed an Acknowledge Block Change

tick == <<tick_up, since_ping>>
net == <<read_buffer, socket, open>>
client == <<heard, answered, silent_for>>
vars == <<pc, events, tick, last_keep_alive_sent, reading_for, net, client, digs>>

Ended == pc \in {"gone", "kicked"}
PacketsUnderWay == Len(socket) + Len(read_buffer)
Patience == ReadTimeout + 2 * Timeout + 1

Smaller(a, b) == IF a < b THEN a ELSE b
Older(age, bound) == Smaller(age + 1, bound)

Init ==
    /\ pc = "poll"
    /\ events = 0
    /\ tick_up = TRUE
    /\ since_ping \in 0..PingInterval
    /\ last_keep_alive_sent = NoPing
    /\ reading_for = 0
    /\ read_buffer = <<>>
    /\ socket = <<>>
    /\ open = TRUE
    /\ heard = 0
    /\ answered = "no"
    /\ silent_for = 0
    /\ digs = 0

-----------------------------------------------------------------------------
(* The client *)

ClientAnswers(a) ==
    /\ open /\ ~Ended
    /\ PacketsUnderWay < NetCap
    /\ heard >= (IF a = "answer" THEN 1 ELSE 2)
    /\ socket' = Append(socket, a)
    /\ answered' = IF a # "answer" \/ answered # "no" THEN answered
                   ELSE IF last_keep_alive_sent <= Timeout THEN "in_time" ELSE "late"
    /\ silent_for' = 0
    /\ UNCHANGED <<pc, events, tick, last_keep_alive_sent, reading_for, read_buffer,
                   open, heard, digs>>

ClientSends(p) ==
    /\ open /\ ~Ended
    /\ PacketsUnderWay < NetCap
    /\ p = "dig" => digs < MaxDigs
    /\ socket' = Append(socket, p)
    /\ digs' = IF p = "dig" THEN digs + 1 ELSE digs
    /\ UNCHANGED <<pc, events, tick, last_keep_alive_sent, reading_for, read_buffer,
                   open, client>>

ClientCloses ==
    /\ open /\ ~Ended
    /\ open' = FALSE
    /\ UNCHANGED <<pc, events, tick, last_keep_alive_sent, reading_for, read_buffer,
                   socket, client, digs>>

-----------------------------------------------------------------------------
(* The tick thread, and time *)

TickPing ==
    /\ tick_up
    /\ since_ping = PingInterval
    /\ since_ping' = 0
    /\ events' = events + 1
    /\ UNCHANGED <<pc, tick_up, last_keep_alive_sent, reading_for, net, client, digs>>

\* The server stops: the event channel is closed, the session is not told.
TickStops ==
    /\ tick_up
    /\ tick_up' = FALSE
    /\ UNCHANGED <<pc, events, since_ping, last_keep_alive_sent, reading_for, net,
                   client, digs>>

\* Mutant: a read without a timeout.
PassUnbounded ==
    /\ pc = "read"
    /\ socket = <<>> /\ open
    /\ tick_up => since_ping < PingInterval
    /\ reading_for' = reading_for + 1
    /\ since_ping' = Older(since_ping, PingInterval)
    /\ last_keep_alive_sent' = IF last_keep_alive_sent = NoPing THEN NoPing
                               ELSE Older(last_keep_alive_sent, Timeout + 1)
    /\ silent_for' = IF heard = 0 THEN 0 ELSE Older(silent_for, Patience)
    /\ UNCHANGED <<pc, events, tick_up, net, heard, answered, digs>>

\* One unit of time: the session is blocked and no ping is due.
Pass ==
    /\ pc = "read"
    /\ socket = <<>> /\ open
    /\ reading_for < ReadTimeout
    /\ tick_up => since_ping < PingInterval
    /\ reading_for' = reading_for + 1
    /\ since_ping' = Older(since_ping, PingInterval)
    /\ last_keep_alive_sent' = IF last_keep_alive_sent = NoPing THEN NoPing
                               ELSE Older(last_keep_alive_sent, Timeout + 1)
    /\ silent_for' = IF heard = 0 THEN 0 ELSE Older(silent_for, Patience)
    /\ UNCHANGED <<pc, events, tick_up, net, heard, answered, digs>>

-----------------------------------------------------------------------------
(* The session thread *)

\* With a new ping, the answers under way have become answers to an earlier one.
Stale(packets) == [i \in DOMAIN packets |->
                      IF packets[i] = "answer" THEN "late_answer" ELSE packets[i]]

\* Mutant: one event in each turn of the loop.
PollOneEvent ==
    /\ pc = "poll"
    /\ pc' = "check"
    /\ IF events = 0
       THEN UNCHANGED <<events, last_keep_alive_sent, read_buffer, socket, heard, answered>>
       ELSE /\ events' = events - 1
            /\ last_keep_alive_sent' = 0
            /\ heard' = Smaller(heard + 1, 2)
            /\ answered' = "no"
            /\ read_buffer' = Stale(read_buffer)
            /\ socket' = Stale(socket)
    /\ UNCHANGED <<tick, reading_for, open, silent_for, digs>>

\* poll_events sends everything there is; each ping takes the place of the last.
PollEvents ==
    /\ pc = "poll"
    /\ pc' = "check"
    /\ IF events = 0
       THEN UNCHANGED <<events, last_keep_alive_sent, read_buffer, socket, heard, answered>>
       ELSE /\ events' = 0
            /\ last_keep_alive_sent' = 0
            /\ heard' = Smaller(heard + events, 2)
            /\ answered' = "no"
            /\ read_buffer' = Stale(read_buffer)
            /\ socket' = Stale(socket)
    /\ UNCHANGED <<tick, reading_for, open, silent_for, digs>>

\* An event or an acknowledgement cannot be written, or read fails: the loop ends.
ConnectionFails ==
    /\ \/ pc \in {"poll", "read"}
       \/ pc = "decode" /\ read_buffer # <<>> /\ Head(read_buffer) = "dig"
    /\ pc' = "gone"
    /\ UNCHANGED <<events, tick, last_keep_alive_sent, reading_for, net, client, digs>>

IsKeepAliveTimedOut == last_keep_alive_sent > Timeout

CheckTimeout ==
    /\ pc = "check"
    /\ pc' = IF IsKeepAliveTimedOut THEN "kicked" ELSE "decode"
    /\ UNCHANGED <<events, tick, last_keep_alive_sent, reading_for, net, client, digs>>

\* Mutant: an answer is matched with the ping before the last.
HandleLateAnswer(p) ==
    /\ last_keep_alive_sent' = IF p = "late_answer" THEN NoPing ELSE last_keep_alive_sent
    /\ digs' = IF p = "dig" THEN digs - 1 ELSE digs

\* handle_play_packet, and the acknowledgement it asks for.
HandlePlayPacket(p) ==
    /\ last_keep_alive_sent' = IF p = "answer" THEN NoPing ELSE last_keep_alive_sent
    /\ digs' = IF p = "dig" THEN digs - 1 ELSE digs

\* A packet the session knows.
Decode ==
    /\ pc = "decode"
    /\ read_buffer # <<>>
    /\ Head(read_buffer) \in Answer \cup {"move", "dig"}
    /\ HandlePlayPacket(Head(read_buffer))
    /\ read_buffer' = Tail(read_buffer)
    /\ pc' = "poll"
    /\ UNCHANGED <<events, tick, reading_for, socket, open, client>>

\* A frame of an unknown packet is consumed, and reported like an incomplete one.
SkipUnknown ==
    /\ pc = "decode"
    /\ read_buffer # <<>>
    /\ Head(read_buffer) = "unknown"
    /\ read_buffer' = Tail(read_buffer)
    /\ pc' = "read"
    /\ reading_for' = 0
    /\ UNCHANGED <<events, tick, last_keep_alive_sent, socket, open, client, digs>>

\* A malformed frame, or a position that is not finite: Disconnect is sent.
Refuse ==
    /\ pc = "decode"
    /\ read_buffer # <<>>
    /\ Head(read_buffer) = "invalid"
    /\ read_buffer' = Tail(read_buffer)
    /\ pc' = "gone"
    /\ UNCHANGED <<events, tick, last_keep_alive_sent, reading_for, socket, open,
                   client, digs>>

NeedMoreData ==
    /\ pc = "decode"
    /\ read_buffer = <<>>
    /\ pc' = "read"
    /\ reading_for' = 0
    /\ UNCHANGED <<events, tick, last_keep_alive_sent, net, client, digs>>

\* read returns some of what has arrived.
Read ==
    /\ pc = "read"
    /\ \E n \in 1..Len(socket) :
          /\ read_buffer' = read_buffer \o SubSeq(socket, 1, n)
          /\ socket' = SubSeq(socket, n + 1, Len(socket))
    /\ pc' = "poll"
    /\ UNCHANGED <<events, tick, last_keep_alive_sent, reading_for, open, client, digs>>

\* Mutant: a read that times out ends nothing and starts nothing.
ReadOnAndOn ==
    /\ pc = "read"
    /\ socket = <<>> /\ open
    /\ reading_for = ReadTimeout
    /\ reading_for' = 0
    /\ UNCHANGED <<pc, events, tick, last_keep_alive_sent, net, client, digs>>

\* WouldBlock or TimedOut: the loop goes on.
ReadTimesOut ==
    /\ pc = "read"
    /\ socket = <<>> /\ open
    /\ reading_for = ReadTimeout
    /\ pc' = "poll"
    /\ UNCHANGED <<events, tick, last_keep_alive_sent, reading_for, net, client, digs>>

ReadEnd ==
    /\ pc = "read"
    /\ socket = <<>> /\ ~open
    /\ pc' = "gone"
    /\ UNCHANGED <<events, tick, last_keep_alive_sent, reading_for, net, client, digs>>

Session ==
    \/ PollEvents
    \/ CheckTimeout
    \/ Decode
    \/ SkipUnknown
    \/ Refuse
    \/ NeedMoreData
    \/ Read
    \/ ReadTimesOut
    \/ ReadEnd

Next ==
    \/ \E a \in Answer : ClientAnswers(a)
    \/ \E p \in Packet : ClientSends(p)
    \/ ClientCloses
    \/ TickPing
    \/ TickStops
    \/ Pass
    \/ Session
    \/ ConnectionFails

Spec == Init /\ [][Next]_vars

\* The session thread runs, time passes and the tick thread is on time.
FairSpec == Spec /\ WF_vars(Session) /\ WF_vars(Pass) /\ WF_vars(TickPing)

-----------------------------------------------------------------------------
(* Properties *)

\* Every variable has its type; no read outlives its timeout.
TypeOK ==
    /\ pc \in {"poll", "check", "decode", "read", "gone", "kicked"}
    /\ events \in Nat
    /\ tick_up \in BOOLEAN
    /\ since_ping \in 0..PingInterval
    /\ last_keep_alive_sent \in {NoPing} \cup 0..(Timeout + 1)
    /\ reading_for \in 0..ReadTimeout
    /\ read_buffer \in Seq(Answer \cup Packet)
    /\ socket \in Seq(Answer \cup Packet)
    /\ open \in BOOLEAN
    /\ heard \in 0..2
    /\ answered \in {"no", "in_time", "late"}
    /\ silent_for \in 0..Patience
    /\ digs \in 0..MaxDigs

\* The event channel has no limit, and a session blocked in read does not
\* empty it; the read timeout alone bounds what can pile up in it.
EventsBounded == ~Ended => events <= (ReadTimeout \div PingInterval) + 1

\* Nobody whose answer to the last ping was sent in time, and handed over by the
\* decoder, is kicked for it, whatever answers to earlier pings are under way and
\* although events are sent and the timer is checked before the answer is
\* decoded.  Only packets unknown to the server in front of the answer can hold
\* it back in read_buffer beyond the timeout: after each the loop waits in read.
ResponsiveStays ==
    pc = "kicked" /\ answered = "in_time" => "answer" \in Range(read_buffer)

\* "Always ACK the dig packet (protocol requires it)": each burst of them, unless
\* the connection ends, also when the client falls silent after it and packets
\* the server does not know come before it.
DigsAcknowledged == (digs > 0) ~> (digs = 0 \/ Ended)

\* "If a client does not respond to a Keep Alive within this period, it is
\* disconnected": here, generously, within twice the period and the time of a
\* read, while the server runs.
SilentKicked == silent_for = Patience => Ended \/ ~tick_up

=============================================================================
