------------------------------- MODULE Realtime -------------------------------
(***************************************************************************)
(* The realtime channel of one device: the client's ladder of connections  *)
(* (packages/core/src/realtime/controller.ts) and the server's hub         *)
(* (apps/server/src/realtime/hub.ts).  The callbacks of a connection wait  *)
(* in its inbox and may arrive after it was replaced.  A poke only starts a *)
(* sync, which fetches all there is.  One connection is used again when    *)
(* nothing refers to it.                                                   *)
(***************************************************************************)
EXTENDS Integers, FiniteSets, Sequences

CONSTANTS
    Conn,        \* connections, numbered
    WsFailures,  \* WS_CONNECT_FAILURES_TO_SSE
    SseFailures, \* SSE_CONNECT_FAILURES_TO_POLLING
    MaxNews      \* bound: changes accepted for this device

ASSUME RealtimeConstants ==
    /\ Conn \subseteq Nat \ {0} /\ IsFiniteSet(Conn)
    /\ WsFailures \in Nat \ {0} /\ SseFailures \in Nat \ {0} /\ MaxNews \in Nat

NoConn == 0

VARIABLES
    ladder, \* the controller: rung, connections, failures, its two timers
    lines,  \* per connection: its rung, its state, whether onOpen ran
    inbox,  \* per connection, callbacks to come
    hub,    \* the device's entry: connection, coalescing window, a poke owed
    news,   \* changes accepted
    heard   \* changes there were when a sync was last started
realtimeVars == <<ladder, lines, inbox, hub, news, heard>>

NoEntry == [conn |-> NoConn, window |-> FALSE, owed |-> FALSE]
World == [l |-> ladder, lines |-> lines]

----------------------------------------------------------------------------
(* The controller's methods, on its state and its handles.                 *)

Referred(l) == {l.primary, l.recovery}
FreeConn(w) == {c \in Conn : w.lines[c].state = "gone" /\ inbox[c] = <<>> /\ c \notin Referred(w.l)}

OpenConn(w, role, rung) ==
    LET c == CHOOSE x \in FreeConn(w) : \A y \in FreeConn(w) : x <= y
    IN  [l |-> [w.l EXCEPT ![role] = c],
         lines |-> [w.lines EXCEPT ![c] = [rung |-> rung, state |-> "connecting", opened |-> FALSE]]]
\* closeHandle.
Shut(w, c) ==
    IF c = NoConn \/ w.lines[c].state = "gone" THEN w ELSE [w EXCEPT !.lines[c].state = "shut"]

EnsureRetry(w) == IF w.l.rung = "ws" THEN w ELSE [w EXCEPT !.l.retry = TRUE]
ConnectPrimary(w) ==
    LET cleared == [w EXCEPT !.l.reconnect = FALSE]
    IN  IF w.l.rung = "polling" THEN EnsureRetry(cleared) ELSE OpenConn(cleared, "primary", w.l.rung)
Escalate(w, to) ==
    ConnectPrimary(EnsureRetry([w EXCEPT !.l.rung = to, !.l.reconnect = FALSE, !.l.sseFails = 0]))
ScheduleReconnect(w) == [w EXCEPT !.l.reconnect = TRUE]

\* A drop reconnects on its rung; a connection that never opened counts.
PrimaryClosed(w, opened) ==
    IF opened THEN ScheduleReconnect(w)
    ELSE IF w.l.rung = "ws"
         THEN LET n == w.l.wsFails + 1
              IN  IF n >= WsFailures THEN Escalate([w EXCEPT !.l.wsFails = n], "sse")
                  ELSE ScheduleReconnect([w EXCEPT !.l.wsFails = n])
         ELSE LET n == w.l.sseFails + 1
              IN  IF n >= SseFailures THEN Escalate([w EXCEPT !.l.sseFails = n], "polling")
                  ELSE ScheduleReconnect([w EXCEPT !.l.sseFails = n])
OnClosed(w, c) ==
    IF c = w.l.recovery THEN EnsureRetry([w EXCEPT !.l.recovery = NoConn])
    ELSE PrimaryClosed([w EXCEPT !.l.primary = NoConn], w.lines[c].opened)

Promoted(w, c) ==
    LET shut == Shut(w, w.l.primary) IN
    [shut EXCEPT !.l.primary = c, !.l.recovery = NoConn, !.l.rung = "ws", !.l.reconnect = FALSE,
                 !.l.retry = FALSE, !.l.wsFails = 0, !.l.sseFails = 0]
OnOpen(w, c) ==
    LET opened == [w EXCEPT !.lines[c].opened = TRUE] IN
    IF c = w.l.recovery THEN Promoted(opened, c)
    ELSE IF w.l.rung = "ws" THEN [opened EXCEPT !.l.wsFails = 0] ELSE [opened EXCEPT !.l.sseFails = 0]

----------------------------------------------------------------------------
RealtimeInit ==
    /\ ladder = [rung |-> "ws", primary |-> NoConn, recovery |-> NoConn, wsFails |-> 0, sseFails |-> 0,
                 reconnect |-> FALSE, retry |-> FALSE, started |-> FALSE, stopped |-> FALSE]
    /\ lines = [c \in Conn |-> [rung |-> "ws", state |-> "gone", opened |-> FALSE]]
    /\ inbox = [c \in Conn |-> <<>>] /\ hub = NoEntry /\ news = 0 /\ heard = 0

Becoming(w) == ladder' = w.l /\ lines' = w.lines
CanOpen == Cardinality(FreeConn(World)) > 0
ServerSame == UNCHANGED <<hub, news>>

StartLadder ==
    /\ ~ladder.started /\ ~ladder.stopped
    /\ Becoming(ConnectPrimary([World EXCEPT !.l.started = TRUE]))
    /\ ServerSame /\ UNCHANGED <<inbox, heard>>
StopLadder ==
    /\ ladder.started /\ ~ladder.stopped
    /\ Becoming([Shut(Shut(World, ladder.primary), ladder.recovery) EXCEPT !.l.stopped = TRUE,
                 !.l.primary = NoConn, !.l.recovery = NoConn, !.l.reconnect = FALSE, !.l.retry = FALSE])
    /\ ServerSame /\ UNCHANGED <<inbox, heard>>

\* Mutant: a callback of a connection that was replaced is taken for the current one's.
CurrentAny(c) == ~ladder.stopped
Current(c) == ~ladder.stopped /\ c \in Referred(ladder)

\* The next callback of a connection: onOpen, a poke, onClose or onError.
Callback(c) ==
    /\ inbox[c] # <<>> /\ inbox' = [inbox EXCEPT ![c] = Tail(@)]
    /\ LET what == Head(inbox[c]) IN
       IF ~Current(c) THEN UNCHANGED <<ladder, lines, heard>>
       ELSE /\ what = "closed" /\ ladder.rung = "ws" => CanOpen
            /\ Becoming(CASE what = "open" -> OnOpen(World, c)
                          [] what = "closed" -> OnClosed(World, c)
                          [] OTHER -> World)
            /\ heard' = IF what = "closed" THEN heard ELSE news
    /\ ServerSame

\* The idle watchdog of an open SSE leg that fell silent.
Watchdog(c) ==
    /\ Current(c) /\ lines[c].rung = "sse" /\ lines[c].opened /\ lines[c].state = "silent" /\ inbox[c] = <<>>
    /\ Becoming(OnClosed(Shut(World, c), c))
    /\ ServerSame /\ UNCHANGED <<inbox, heard>>

ReconnectDue ==
    /\ ladder.reconnect /\ (ladder.rung # "polling" => CanOpen)
    /\ Becoming(ConnectPrimary(World))
    /\ ServerSame /\ UNCHANGED <<inbox, heard>>
\* The five-minute retry of WS while degraded.
WsRetryDue ==
    /\ ladder.retry /\ (ladder.recovery = NoConn => CanOpen)
    /\ Becoming(IF ladder.recovery = NoConn THEN OpenConn(World, "recovery", "ws") ELSE World)
    /\ ServerSame /\ UNCHANGED <<inbox, heard>>

----------------------------------------------------------------------------
(* The network and the hub.                                                *)

Hears(box, c, what) == [box EXCEPT ![c] = Append(@, what)]
\* teardown, when the transport closed.
Disposed(c) == IF hub.conn = c THEN NoEntry ELSE hub

\* The upgrade is accepted: register closes the device's earlier connection.
LineOpens(c) ==
    /\ lines[c].state = "connecting"
    /\ hub' = [NoEntry EXCEPT !.conn = c]
    /\ LET old == hub.conn IN
       IF old # NoConn /\ lines[old].state \in {"up", "silent"}
       THEN /\ lines' = [lines EXCEPT ![c].state = "up", ![old].state = "gone"]
            /\ inbox' = Hears(IF lines[old].state = "up" THEN Hears(inbox, old, "closed") ELSE inbox, c, "open")
       ELSE lines' = [lines EXCEPT ![c].state = "up"] /\ inbox' = Hears(inbox, c, "open")
    /\ UNCHANGED <<ladder, news, heard>>

\* An attempt fails, a line drops, or one the client shut is closed at the server.
LineEnds(c) ==
    /\ lines[c].state \in {"connecting", "up", "shut"}
    /\ lines' = [lines EXCEPT ![c].state = "gone"] /\ inbox' = Hears(inbox, c, "closed")
    /\ hub' = Disposed(c) /\ UNCHANGED <<ladder, news, heard>>

\* An SSE line carries nothing any more, and neither end is told.
LineSilent(c) ==
    /\ lines[c].state = "up" /\ lines[c].rung = "sse"
    /\ lines' = [lines EXCEPT ![c].state = "silent"]
    /\ UNCHANGED <<ladder, inbox, hub, news, heard>>

Poked == IF hub.conn # NoConn /\ lines[hub.conn].state = "up" THEN Hears(inbox, hub.conn, "poke") ELSE inbox
\* Mutant: inside the window a poke is dropped.
HubAfterNewsDropping == [hub EXCEPT !.window = TRUE]
\* coalesceEmit.
HubAfterNews == IF hub.window THEN [hub EXCEPT !.owed = TRUE] ELSE [hub EXCEPT !.window = TRUE]
AcceptNews ==
    /\ news < MaxNews /\ news' = news + 1
    /\ IF hub.conn = NoConn THEN UNCHANGED <<hub, inbox>>
       ELSE hub' = HubAfterNews /\ inbox' = IF hub.window THEN inbox ELSE Poked
    /\ UNCHANGED <<ladder, lines, heard>>
WindowEnds ==
    /\ hub.window
    /\ IF hub.owed THEN hub' = [hub EXCEPT !.owed = FALSE] /\ inbox' = Poked
       ELSE hub' = [hub EXCEPT !.window = FALSE] /\ UNCHANGED inbox
    /\ UNCHANGED <<ladder, lines, news, heard>>

RealtimeNext ==
    \/ StartLadder \/ StopLadder \/ ReconnectDue \/ WsRetryDue \/ AcceptNews \/ WindowEnds
    \/ \E c \in Conn : Callback(c) \/ Watchdog(c) \/ LineOpens(c) \/ LineEnds(c) \/ LineSilent(c)
RealtimeSpec == RealtimeInit /\ [][RealtimeNext]_realtimeVars

\* Callbacks and timers run; an attempt opens or fails, a closed line ends.
RealtimeFairness ==
    /\ WF_realtimeVars(ReconnectDue) /\ WF_realtimeVars(WindowEnds)
    /\ \A c \in Conn : /\ WF_realtimeVars(Callback(c)) /\ WF_realtimeVars(Watchdog(c))
                       /\ WF_realtimeVars(lines[c].state # "up" /\ (LineOpens(c) \/ LineEnds(c)))

----------------------------------------------------------------------------
RealtimeTypeOK ==
    /\ ladder.rung \in {"ws", "sse", "polling"} /\ Referred(ladder) \subseteq Conn \cup {NoConn}
    /\ ladder.wsFails \in 0..WsFailures /\ ladder.sseFails \in 0..SseFailures
    /\ \A c \in Conn : lines[c].state \in {"connecting", "up", "silent", "shut", "gone"}
    /\ hub.conn \in Conn \cup {NoConn} /\ heard <= news /\ news <= MaxNews

=============================================================================
