----------------------------- MODULE LiveSocket -----------------------------
(***************************************************************************)
(* A tab's subscription to the relay: useLiveMarket (data/live-market.ts). *)
(*                                                                         *)
(* Each effect keeps one socket, a timer to open the next and one to let   *)
(* go of a tab nobody looks at.  What a socket delivers comes late: the    *)
(* frames and the close of one that was replaced arrive after the next is  *)
(* open.  How long the timers run is left out, so each may fire at any     *)
(* time while it is armed.                                                 *)
(***************************************************************************)
EXTENDS Integers

CONSTANTS Sockets   \* bound: the sockets of a page, 1..Sockets in the order they are opened

ASSUME LiveSocketAssumption == Sockets \in Nat \ {0}

VARIABLES
  effect,      \* the mounted effect's variables
  sockets,     \* every socket the page opened
  indicator,   \* the module's, "live" or "snapshot"
  visible      \* document.visibilityState

socketVars == <<effect, sockets, indicator, visible>>

\* `current` is the effect's `socket`; the three timers are armed or not.
Fresh == [on |-> TRUE, idle |-> FALSE, current |-> 0, retry |-> FALSE, idleTimer |-> FALSE, heartbeat |-> FALSE]
Unmounted == [Fresh EXCEPT !.on = FALSE]

\* A socket, the effect that opened it still the mounted one or not, and the last
\* status it delivered.  "lost": it ended and its close event has yet to come.
Unopened == [state |-> "unopened", mounted |-> FALSE, status |-> "none"]
Living == {"connecting", "open"}

SocketInit ==
  /\ effect = Unmounted
  /\ sockets = [k \in 1..Sockets |-> Unopened]
  /\ indicator = "snapshot" /\ visible \in BOOLEAN

Opened == {k \in 1..Sockets : sockets[k].state # "unopened"}
Room == \E k \in 1..Sockets : k \notin Opened
NextSocket == CHOOSE k \in 1..Sockets : k \notin Opened /\ \A j \in 1..(k - 1) : j \in Opened

\* connect, for an effect that is neither stopped nor idle.
Connected(e) == [e EXCEPT !.current = NextSocket, !.retry = FALSE]
Opening(all) == [all EXCEPT ![NextSocket] = [Unopened EXCEPT !.state = "connecting", !.mounted = TRUE]]

\* socket?.close: one that has not ended yet is on its way to.
Closing(all, k) ==
  [j \in 1..Sockets |-> IF j = k /\ all[j].state \in Living THEN [all[j] EXCEPT !.state = "closing"] ELSE all[j]]

\* The effect's sockets once it is cleaned up.
Detached(all) == [j \in 1..Sockets |-> [all[j] EXCEPT !.mounted = FALSE]]

Mount ==
  /\ ~effect.on /\ Room
  /\ effect' = Connected([Fresh EXCEPT !.idleTimer = ~visible])
  /\ sockets' = Opening(sockets)
  /\ UNCHANGED <<indicator, visible>>

\* The audience or the symbols change, or the page has none.
Cleanup ==
  /\ effect.on /\ effect' = Unmounted
  /\ sockets' = Detached(Closing(sockets, effect.current))
  /\ indicator' = "snapshot" /\ UNCHANGED visible

\* Mutant: a listener asks only whether its effect was cleaned up.
OfMounted(k) == sockets[k].mounted

\* Each listener answers for its own socket, while that is the current one.
Speaks(k) == sockets[k].mounted /\ effect.current = k

SocketOpens(k) ==
  /\ sockets[k].state = "connecting"
  /\ sockets' = [sockets EXCEPT ![k].state = "open"]
  /\ effect' = IF Speaks(k) THEN [effect EXCEPT !.heartbeat = TRUE] ELSE effect
  /\ UNCHANGED <<indicator, visible>>

\* A status frame; market events go to BrowserStore.
Status(k) ==
  /\ sockets[k].state \in {"open", "closing", "lost"}
  /\ \E status \in {"live", "waiting"} :
       /\ sockets' = [sockets EXCEPT ![k].status = status]
       /\ indicator' = IF ~Speaks(k) THEN indicator ELSE IF status = "live" THEN "live" ELSE "snapshot"
  /\ UNCHANGED <<effect, visible>>

\* The relay, the network or the handshake ends it.
SocketEnds(k) ==
  /\ sockets[k].state \in Living
  /\ sockets' = [sockets EXCEPT ![k].state = "lost"]
  /\ UNCHANGED <<effect, indicator, visible>>

\* Its close event: of the current socket, the next is scheduled.
SocketCloses(k) ==
  /\ sockets[k].state \in {"closing", "lost"}
  /\ sockets' = [sockets EXCEPT ![k].state = "closed"]
  /\ IF Speaks(k) /\ ~effect.idle
     THEN effect' = [effect EXCEPT !.heartbeat = FALSE, !.retry = TRUE] /\ indicator' = "snapshot"
     ELSE UNCHANGED <<effect, indicator>>
  /\ UNCHANGED visible

Reconnect ==
  /\ effect.retry /\ Room
  /\ effect' = Connected(effect) /\ sockets' = Opening(sockets)
  /\ UNCHANGED <<indicator, visible>>

GoIdle ==
  /\ effect.idleTimer
  /\ effect' = [effect EXCEPT !.idle = TRUE, !.idleTimer = FALSE, !.retry = FALSE,
                              !.heartbeat = FALSE, !.current = 0]
  /\ sockets' = Closing(sockets, effect.current)
  /\ indicator' = "snapshot" /\ UNCHANGED visible

Hide ==
  /\ visible /\ visible' = FALSE
  /\ effect' = IF effect.on THEN [effect EXCEPT !.idleTimer = TRUE] ELSE effect
  /\ UNCHANGED <<sockets, indicator>>

\* Mutant: a timer that is already armed is left to fire.
KeptTimer(e) == e

Disarmed(e) == [e EXCEPT !.idleTimer = FALSE]

\* The tab is seen again: the timer is cleared, and an idle effect connects.
Show ==
  /\ ~visible /\ visible' = TRUE
  /\ IF effect.idle
     THEN /\ Room /\ effect' = Connected([Disarmed(effect) EXCEPT !.idle = FALSE])
          /\ sockets' = Opening(sockets)
     ELSE effect' = Disarmed(effect) /\ UNCHANGED sockets
  /\ UNCHANGED indicator

SocketNext ==
  \/ Mount \/ Cleanup \/ Reconnect \/ GoIdle \/ Hide \/ Show
  \/ \E k \in 1..Sockets : SocketOpens(k) \/ Status(k) \/ SocketEnds(k) \/ SocketCloses(k)

SocketSpec == SocketInit /\ [][SocketNext]_socketVars

(***************************************************************************)
(* Properties                                                              *)
(***************************************************************************)

\* A page holds one socket at most, the relay's connection is never kept up by one
\* that was replaced, and "live" is what the current one last said: neither a late
\* frame nor a late close of another turns it, or opens a second socket.
OneSocketSpeaks ==
  /\ \A k \in 1..Sockets : sockets[k].state \in Living => k = effect.current
  /\ indicator = "live" => effect.current # 0 /\ sockets[effect.current].status = "live"
                             /\ sockets[effect.current].state \in Living \cup {"lost"}

\* A page that is looked at is not left without a way back to the feed: it has a
\* socket that has not closed, or the timer that opens the next; and one that is not
\* looked at has let go, or will (goIdle, onVisibilityChange).
NeverStranded ==
  effect.on =>
    /\ visible => ~effect.idle /\ ~effect.idleTimer
    /\ ~visible => effect.idle \/ effect.idleTimer
    /\ effect.idle \/ effect.retry \/ (effect.current # 0 /\ sockets[effect.current].state # "closed")
    /\ effect.current # 0 /\ sockets[effect.current].state = "open" => effect.heartbeat

\* A page neither keeps a socket too many nor is left without the one it needs.
SocketInv == OneSocketSpeaks /\ NeverStranded
=============================================================================
