---------------------------- MODULE SessionStream ----------------------------
(***************************************************************************)
(* The live events of one session: what send_message and kill_session      *)
(* publish (comms/sessions.py), the passive observers that read it over    *)
(* SSE, and the browser terminals bridged to the mind's pty, whose watcher *)
(* is an observer too (comms/server.py, ws_attach).                        *)
(*                                                                         *)
(* A step runs from one await to the next.  Reading the row and            *)
(* subscribing are one: the sessions database serves its statements and    *)
(* hands back their results in order, so who read the status that a kill   *)
(* then overwrites subscribes before that kill publishes.                  *)
(*                                                                         *)
(* said is history, read by no action: whether the kill that closed the    *)
(* session has been published since.                                       *)
(*                                                                         *)
(* Left out: contents of events, pings, resize frames, authentication.     *)
(***************************************************************************)
EXTENDS Naturals, Sequences, FiniteSets

CONSTANTS
  Observer,   \* passive observers
  Tile,       \* terminals in browsers
  QueueMax,   \* events an observer may be behind (200)
  MaxEvents,  \* bound on the events published
  MaxCloses   \* bound on kills and on reaps

ASSUME StreamAssumption ==
  /\ QueueMax \in Nat \ {0} /\ MaxEvents \in Nat /\ MaxCloses \in Nat
  /\ Observer \cap Tile = {}

VARIABLES
  status,  \* of the row; "killed" and "reaped" are both 'closed'
  turn,    \* whether a turn is under way
  kills,   \* kill_session calls that wrote and have still to publish
  said,    \* session_closed was published since the session was killed
  closes,  \* how often the session was closed
  events,  \* what was published, in order
  queue,   \* of each subscriber: numbers of events
  got,     \* of each subscriber: the last event before its queue
  watch,   \* what each observer and each tile's watcher is doing
  tile     \* of each terminal: the bridge and its two ends

stream == <<status, turn, kills, said, closes, events>>
readers == <<queue, got, watch>>
vars == <<stream, readers, tile>>

Watcher == Observer \cup Tile
Closed == status \in {"killed", "reaped"}

(* live is ws_attach's was_live; mind is the pty's end; frames what the    *)
(* browser has still to take; code what the browser's socket closed with.  *)
NoBridge == [pc |-> "away", live |-> FALSE, mind |-> "none", frames |-> 0,
             here |-> TRUE, code |-> "none"]

Init ==
  /\ status = "live" /\ turn = FALSE /\ kills = 0 /\ said = FALSE
  /\ closes = 0 /\ events = <<>>
  /\ queue = [w \in Watcher |-> <<>>]
  /\ got = [w \in Watcher |-> 0]
  /\ watch = [w \in Watcher |-> "away"]
  /\ tile = [a \in Tile |-> NoBridge]

-----------------------------------------------------------------------------
(* Publishing *)

(* A variant that refuses the event instead of dropping the oldest. *)
PutIfRoom(q, n) == IF Len(q) < QueueMax THEN Append(q, n) ELSE q

(* A full queue loses its oldest event. *)
Put(q, n) == Append(IF Len(q) < QueueMax THEN q ELSE Tail(q), n)

Publish(kind) ==
  /\ events' = Append(events, kind)
  /\ queue' = [w \in Watcher |-> IF watch[w] = "on" THEN Put(queue[w], Len(events) + 1)
                                 ELSE queue[w]]
  /\ UNCHANGED <<got, watch, tile>>

(* send_message: the session may be closed while its turn goes on. *)
TurnStart ==
  /\ ~ turn /\ ~ Closed /\ Len(events) + kills < MaxEvents
  /\ turn' = TRUE
  /\ Publish("user")
  /\ UNCHANGED <<status, kills, said, closes>>

TurnEvent ==
  /\ turn /\ Len(events) + kills < MaxEvents
  /\ Publish("turn")
  /\ UNCHANGED <<status, turn, kills, said, closes>>

TurnEnd ==
  turn /\ turn' = FALSE /\ UNCHANGED <<status, kills, said, closes, events, readers, tile>>

(* kill_session does not look at the status. *)
KillWrite ==
  /\ closes < MaxCloses /\ Len(events) + kills < MaxEvents
  /\ status' = "killed" /\ kills' = kills + 1 /\ closes' = closes + 1
  /\ said' = (said /\ status = "killed")
  /\ UNCHANGED <<turn, events, readers, tile>>

KillPublish ==
  /\ kills > 0
  /\ kills' = kills - 1 /\ said' = TRUE
  /\ Publish("session_closed")
  /\ UNCHANGED <<status, turn, closes>>

(* A kill inside send_message (a rotation) is cancelled with it when its   *)
(* client disconnects, here while it awaits its commit: the row is closed  *)
(* and nothing is published.                                               *)
KillCancelled ==
  /\ kills > 0
  /\ kills' = kills - 1
  /\ UNCHANGED <<status, turn, said, closes, events, readers, tile>>

(* reap_stale_sessions publishes nothing. *)
Reap ==
  /\ status = "live" /\ ~ turn /\ closes < MaxCloses
  /\ status' = "reaped" /\ closes' = closes + 1
  /\ UNCHANGED <<turn, kills, said, events, readers, tile>>

(* switch_model and toggle_autopilot revive a closed session. *)
Revive ==
  /\ Closed
  /\ status' = "live"
  /\ UNCHANGED <<turn, kills, said, closes, events, readers, tile>>

-----------------------------------------------------------------------------
(* stream_session_events *)

Unsubscribe(w, pc) ==
  /\ watch' = [watch EXCEPT ![w] = pc]
  /\ queue' = [queue EXCEPT ![w] = <<>>]
  /\ got' = [got EXCEPT ![w] = 0]

(* A variant that does not look at the status. *)
SubscribeBlind(w) ==
  /\ watch' = [watch EXCEPT ![w] = "on"]
  /\ got' = [got EXCEPT ![w] = Len(events)]
  /\ UNCHANGED queue

Subscribe(w) ==
  IF Closed THEN Unsubscribe(w, "told")
  ELSE /\ watch' = [watch EXCEPT ![w] = "on"]
       /\ got' = [got EXCEPT ![w] = Len(events)]
       /\ UNCHANGED queue

Take(w) ==
  /\ watch[w] = "on" /\ queue[w] # <<>>
  /\ IF events[Head(queue[w])] = "session_closed" THEN Unsubscribe(w, "told")
     ELSE /\ queue' = [queue EXCEPT ![w] = Tail(@)]
          /\ got' = [got EXCEPT ![w] = Head(queue[w])]
          /\ UNCHANGED watch
  /\ UNCHANGED <<stream, tile>>

ObserverOpens(o) == watch[o] = "away" /\ Subscribe(o) /\ UNCHANGED <<stream, tile>>

(* The client hangs up, or comes back after it was told. *)
ObserverLeaves(o) ==
  watch[o] \in {"on", "told"} /\ Unsubscribe(o, "away") /\ UNCHANGED <<stream, tile>>

-----------------------------------------------------------------------------
(* ws_attach *)

AttachRead(a) ==
  /\ tile[a].pc = "away"
  /\ tile' = [tile EXCEPT ![a] = [NoBridge EXCEPT !.pc = "connecting", !.live = ~ Closed]]
  /\ UNCHANGED <<stream, readers>>

(* The mind is not registered, refuses the terminal, or is not reachable. *)
AttachFails(a) ==
  /\ tile[a].pc = "connecting"
  /\ \E code \in {"4404", "4415", "1011"} :
       tile' = [tile EXCEPT ![a] = [NoBridge EXCEPT !.pc = "closed", !.code = code]]
  /\ UNCHANGED <<stream, readers>>

(* Only a session that was live is watched. *)
AttachConnect(a) ==
  /\ tile[a].pc = "connecting"
  /\ tile' = [tile EXCEPT ![a] = [@ EXCEPT !.pc = "bridged", !.mind = "open"]]
  /\ watch' = [watch EXCEPT ![a] = IF tile[a].live THEN "start" ELSE "away"]
  /\ UNCHANGED <<stream, queue, got>>

WatcherOpens(a) == watch[a] = "start" /\ Subscribe(a) /\ UNCHANGED <<stream, tile>>

(* The mind's end: output, the end of the pty, a connection that breaks,   *)
(* and eviction by another window's attach (1012).                         *)
MindOutput(a) ==
  /\ tile[a].mind = "open" /\ tile[a].frames = 0
  /\ tile' = [tile EXCEPT ![a].frames = 1]
  /\ UNCHANGED <<stream, readers>>

MindCloses(a) ==
  /\ tile[a].mind = "open"
  /\ \E code \in {"1000", "1006", "1012"} : tile' = [tile EXCEPT ![a].mind = code]
  /\ UNCHANGED <<stream, readers>>

BrowserTakes(a) ==
  /\ tile[a].pc = "bridged" /\ tile[a].here /\ tile[a].frames > 0
  /\ tile' = [tile EXCEPT ![a].frames = 0]
  /\ UNCHANGED <<stream, readers>>

BrowserLeaves(a) ==
  /\ tile[a].pc \in {"connecting", "bridged"} /\ tile[a].here
  /\ tile' = [tile EXCEPT ![a].here = FALSE]
  /\ UNCHANGED <<stream, readers>>

(* Whatever ends the bridge cancels both tasks and closes the mind's end. *)
BridgeEnds(a, code) ==
  /\ tile' = [tile EXCEPT ![a] = [NoBridge EXCEPT !.pc = "closed", !.code = code]]
  /\ Unsubscribe(a, "away")
  /\ UNCHANGED stream

(* A variant that waits for both tasks. *)
WatcherWaits(a) ==
  /\ tile[a].pc = "bridged" /\ watch[a] = "told" /\ tile[a].mind # "open"
  /\ BridgeEnds(a, "4410")

WatcherEnds(a) ==
  /\ tile[a].pc = "bridged" /\ watch[a] = "told"
  /\ BridgeEnds(a, "4410")

MindGone(a) == tile[a].mind \notin {"open", "none"}

(* A variant that looks for the code among the messages. *)
CodeInMessages(a) == "dropped"

(* The code is read off the socket. *)
PassedOn(a) == tile[a].mind

(* A variant that ends whenever the mind has nothing to say. *)
PumpEndsEarly(a) ==
  /\ tile[a].pc = "bridged" /\ tile[a].frames = 0
  /\ BridgeEnds(a, PassedOn(a))

(* mind_to_browser goes through what the mind sent, and then ends.  If the *)
(* watcher was told in the meantime, that comes first.                     *)
PumpMindEnds(a) ==
  /\ tile[a].pc = "bridged" /\ MindGone(a) /\ tile[a].frames = 0
  /\ BridgeEnds(a, IF watch[a] = "told" THEN "4410" ELSE PassedOn(a))

(* browser_to_mind ends first: the browser has gone, or types into a       *)
(* socket that is closed while mind_to_browser still waits for it to take  *)
(* a frame.  No code is passed on.                                         *)
PumpBrowserEnds(a) ==
  /\ tile[a].pc = "bridged"
  /\ ~ tile[a].here \/ (MindGone(a) /\ tile[a].frames > 0)
  /\ BridgeEnds(a, IF watch[a] = "told" THEN "4410" ELSE "dropped")

(* A browser stands down or, if the connection dropped, reconnects. *)
Reconnect(a) ==
  /\ tile[a].pc = "closed" /\ tile[a].code \in {"1006", "1011", "dropped"}
  /\ tile' = [tile EXCEPT ![a] = NoBridge]
  /\ UNCHANGED <<stream, readers>>

Next ==
  \/ TurnStart \/ TurnEvent \/ TurnEnd
  \/ KillWrite \/ KillPublish \/ KillCancelled \/ Reap \/ Revive
  \/ \E w \in Watcher : Take(w)
  \/ \E o \in Observer : ObserverOpens(o) \/ ObserverLeaves(o)
  \/ \E a \in Tile :
       \/ AttachRead(a) \/ AttachFails(a) \/ AttachConnect(a)
       \/ WatcherOpens(a) \/ WatcherEnds(a)
       \/ MindOutput(a) \/ MindCloses(a) \/ BrowserTakes(a) \/ BrowserLeaves(a)
       \/ PumpMindEnds(a) \/ PumpBrowserEnds(a) \/ Reconnect(a)

(* The tasks of the comms process run: a kill goes on or is cancelled. *)
Spec ==
  /\ Init /\ [][Next]_vars
  /\ WF_vars(KillPublish \/ KillCancelled)
  /\ \A a \in Tile : WF_vars(WatcherOpens(a)) /\ WF_vars(WatcherEnds(a)) /\ WF_vars(Take(a))

-----------------------------------------------------------------------------
(* Correctness *)

Kind == {"user", "turn", "session_closed"}

TileType == [pc : {"away", "connecting", "bridged", "closed"}, live : BOOLEAN,
             mind : {"none", "open", "1000", "1006", "1012"}, frames : 0..1,
             here : BOOLEAN,
             code : {"none", "4404", "4410", "4415", "1000", "1006", "1011",
                     "1012", "dropped"}]

TypeOK ==
  /\ status \in {"live", "killed", "reaped"} /\ turn \in BOOLEAN
  /\ kills \in 0..MaxCloses /\ said \in BOOLEAN /\ closes \in 0..MaxCloses
  /\ events \in Seq(Kind) /\ Len(events) <= MaxEvents
  /\ queue \in [Watcher -> Seq(1..Len(events))]
  /\ got \in [Watcher -> 0..Len(events)]
  /\ watch \in [Watcher -> {"away", "start", "on", "told"}]
  /\ tile \in [Tile -> TileType]

(* What waits for a subscriber are the newest events, in order and without *)
(* a gap, and it has missed an older one only if its queue is full         *)
(* (_publish_session_event, sessions.py:680-692).                          *)
NewestKept ==
  \A w \in Watcher : watch[w] = "on" =>
    /\ Len(queue[w]) <= QueueMax
    /\ \A i \in DOMAIN queue[w] : queue[w][i] = Len(events) - Len(queue[w]) + i
    /\ Len(queue[w]) < QueueMax => got[w] = Len(events) - Len(queue[w])

(* Since the last kill was published, more came than a queue holds. *)
Overrun ==
  \A i \in DOMAIN events : events[i] = "session_closed" => Len(events) >= i + QueueMax

(* Once the kill of a session is published, no subscriber is left on it    *)
(* without the end of the session in its queue, unless a full queue of     *)
(* later events pushed it out: whoever read the status before the kill was *)
(* subscribed when it published (sessions.py:649-659 against 1183-1192).   *)
NoDeafWatcher ==
  status = "killed" /\ said =>
    \A w \in Watcher : watch[w] = "on" =>
      (\E i \in DOMAIN queue[w] : events[queue[w][i]] = "session_closed") \/ Overrun

(* A terminal that was opened on a live session comes down when the        *)
(* session's kill is published, if the kill stands, wherever the terminal  *)
(* is between its connection and its watcher's wait (server.py:580-613).   *)
KillEndsBridge ==
  \A a \in Tile :
    (tile[a].pc = "bridged" /\ tile[a].live /\ status = "killed" /\ said)
      ~> (tile[a].pc # "bridged" \/ status # "killed" \/ Overrun)

(* What _watch_for_close says of it: "Watching the session event stream    *)
(* lets a kill (end-session, /kill, rotation) tear the bridge down"        *)
(* (server.py:582-583).                                                    *)
KillTearsDown ==
  \A a \in Tile :
    (tile[a].pc = "bridged" /\ tile[a].live /\ status = "killed")
      ~> (tile[a].pc # "bridged" \/ MindGone(a) \/ status # "killed")

(* A terminal that another window took over is told so, and never with a   *)
(* code that makes it reconnect and take over in turn (server.py:480-487): *)
(* as long as its browser is there and takes what the mind sent.           *)
EvictedStandsDown ==
  [][\A a \in Tile :
       (/\ tile[a].pc = "bridged" /\ tile'[a].pc = "closed"
        /\ tile[a].mind = "1012" /\ tile[a].here /\ tile[a].frames = 0)
         => tile'[a].code \in {"1012", "4410"}]_vars
=============================================================================
