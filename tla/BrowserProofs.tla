---------------------------- MODULE BrowserProofs ----------------------------
(***************************************************************************)
(* Proofs about what one browser keeps: the socket of a page, the          *)
(* favorites staged before signing in, the calendar of a symbol, and the   *)
(* record and overlay that the page draws; and about the rows of the feed: *)
(* the years of one-shot reads and the charts of the browsers that join.   *)
(***************************************************************************)
EXTENDS FeedSeries, BrowserStore, LiveSocket, BrowserFavorites, BrowserCalendar,
        FiniteSetTheorems, SequenceTheorems, NaturalsInduction, WellFoundedInduction, TLAPS

(***************************************************************************)
(* The socket of a page                                                    *)
(***************************************************************************)

SocketStates == {"unopened", "connecting", "open", "closing", "lost", "closed"}
SocketRecord == [state : SocketStates, mounted : BOOLEAN, status : {"none", "live", "waiting"}]
EffectRecord ==
  [on : BOOLEAN, idle : BOOLEAN, current : 0..Sockets, retry : BOOLEAN, idleTimer : BOOLEAN, heartbeat : BOOLEAN]

SocketShape ==
  /\ effect \in EffectRecord /\ sockets \in [1..Sockets -> SocketRecord]
  /\ indicator \in {"live", "snapshot"} /\ visible \in BOOLEAN

\* The current socket is the mounted effect's and was not let go of.
CurrentIsHeld ==
  /\ effect.on = FALSE => effect = Unmounted
  /\ effect.idle = TRUE => effect.current = 0 /\ effect.retry = FALSE
  /\ effect.current # 0 => /\ sockets[effect.current].mounted = TRUE
                           /\ sockets[effect.current].state \notin {"unopened", "closing"}
  /\ effect.retry = TRUE => effect.current # 0 /\ sockets[effect.current].state = "closed"

SocketIInv == SocketShape /\ CurrentIsHeld /\ OneSocketSpeaks /\ NeverStranded

\* While there is room, the next socket is one that was never opened.
LEMMA NextIsUnopened ==
  ASSUME Room
  PROVE  NextSocket \in 1..Sockets /\ sockets[NextSocket].state = "unopened"
<1> DEFINE S == {k \in 1..Sockets : k \notin Opened}
           R == {p \in Nat \X Nat : p[1] < p[2]}
<1>1. S \in SUBSET Nat /\ S # {}
  BY LiveSocketAssumption DEF Room
<1>2. IsWellFoundedOn(R, Nat)
  BY NatLessThanWellFounded DEF OpToRel
<1>3. \A m, n \in Nat : <<m, n>> \in R <=> m < n
  OBVIOUS
<1> HIDE DEF R
<1>4. PICK k \in S : \A n \in S : <<n, k>> \notin R
  BY <1>1, <1>2, WFMin
<1>5. \A j \in 1..(k - 1) : j \in Opened
  <2> SUFFICES ASSUME NEW j \in 1..(k - 1), j \notin Opened PROVE FALSE
    OBVIOUS
  <2>1. k \in 1..Sockets /\ k \in Nat /\ j \in Nat /\ j < k /\ j \in 1..Sockets
    BY <1>4, LiveSocketAssumption
  <2> QED
    BY <1>3, <1>4, <2>1
<1>6. NextSocket \in 1..Sockets /\ NextSocket \notin Opened
  BY <1>4, <1>5 DEF NextSocket
<1> QED
  BY <1>6 DEF Opened

\* A new connection, of an effect whose last socket has closed or been let go of.
LEMMA ConnectKeeps ==
  ASSUME SocketShape, OneSocketSpeaks, Room, NEW e \in EffectRecord,
         effect' = Connected(e), sockets' = Opening(sockets), UNCHANGED indicator, visible' \in BOOLEAN,
         e.on = TRUE, e.idle = FALSE,
         e.idleTimer = TRUE <=> visible' = FALSE,
         effect.current = 0 \/ sockets[effect.current].state = "closed"
  PROVE  SocketIInv'
<1> DEFINE next == NextSocket
           m == [Unopened EXCEPT !.state = "connecting", !.mounted = TRUE]
<1>1. next \in 1..Sockets /\ sockets[next].state = "unopened" /\ next # 0 /\ next \in 0..Sockets
  BY NextIsUnopened, LiveSocketAssumption
<1>2. sockets' = [sockets EXCEPT ![next] = m]
  BY DEF Opening
<1>3. m \in SocketRecord /\ m.state = "connecting" /\ m.mounted = TRUE
  BY DEF Unopened, SocketRecord, SocketStates
<1> HIDE DEF m
<1>4. effect' = [e EXCEPT !.current = next, !.retry = FALSE]
  BY DEF Connected
<1> HIDE DEF next
<1>5. /\ effect' \in EffectRecord /\ effect'.on = TRUE /\ effect'.idle = FALSE /\ effect'.current = next
      /\ effect'.retry = FALSE /\ effect'.idleTimer = e.idleTimer
  BY <1>1, <1>4 DEF EffectRecord
<1>6. /\ sockets' \in [1..Sockets -> SocketRecord] /\ sockets'[next] = m
      /\ \A k \in 1..Sockets \ {next} : sockets'[k] = sockets[k]
  BY <1>1, <1>2, <1>3 DEF SocketShape
<1>7. \A k \in 1..Sockets : sockets[k].state \notin Living
  BY DEF OneSocketSpeaks, Living, SocketShape
<1>8. indicator # "live"
  BY <1>7 DEF OneSocketSpeaks, Living, SocketShape, EffectRecord
<1>9. SocketShape'
  BY <1>5, <1>6 DEF SocketShape
<1>10. OneSocketSpeaks'
  BY <1>5, <1>6, <1>7, <1>8 DEF OneSocketSpeaks
<1>11. CurrentIsHeld'
  BY <1>1, <1>3, <1>5, <1>6 DEF CurrentIsHeld
<1>12. NeverStranded'
  BY <1>1, <1>3, <1>5, <1>6, <1>9 DEF NeverStranded, SocketShape, EffectRecord
<1> QED
  BY <1>9, <1>10, <1>11, <1>12 DEF SocketIInv

LEMMA UnmountedIs ==
  /\ Unmounted \in EffectRecord /\ Unmounted.on = FALSE /\ Unmounted.idle = FALSE /\ Unmounted.current = 0
  /\ Unmounted.retry = FALSE /\ Unmounted.idleTimer = FALSE
<1>1. 0 \in 0..Sockets
  BY LiveSocketAssumption
<1> QED
  BY <1>1 DEF Unmounted, Fresh, EffectRecord

LEMMA MountKeeps ==
  ASSUME SocketIInv, Mount
  PROVE  SocketIInv'
<1> DEFINE hidden == ~visible
           e == [Fresh EXCEPT !.idleTimer = hidden]
<1>1. SocketShape /\ OneSocketSpeaks /\ CurrentIsHeld /\ visible \in BOOLEAN /\ effect.on \in BOOLEAN
  BY DEF SocketIInv, SocketShape, EffectRecord
<1>2. /\ Room /\ effect.on = FALSE /\ effect' = Connected(e) /\ sockets' = Opening(sockets)
      /\ UNCHANGED <<indicator, visible>>
  BY <1>1 DEF Mount
<1>3. hidden \in BOOLEAN /\ (hidden = TRUE <=> visible' = FALSE)
  BY <1>1, <1>2
<1> HIDE DEF hidden
<1>4. e \in EffectRecord /\ e.on = TRUE /\ e.idle = FALSE /\ e.idleTimer = hidden
  <2>1. 0 \in 0..Sockets
    BY LiveSocketAssumption
  <2> QED
    BY <1>3, <2>1 DEF Fresh, EffectRecord
<1> HIDE DEF e
<1>5. effect.current = 0
  BY <1>1, <1>2, UnmountedIs DEF CurrentIsHeld
<1> QED
  BY <1>1, <1>2, <1>3, <1>4, <1>5, ConnectKeeps

LEMMA ReconnectKeeps ==
  ASSUME SocketIInv, Reconnect
  PROVE  SocketIInv'
<1>1. /\ SocketShape /\ OneSocketSpeaks /\ CurrentIsHeld /\ visible \in BOOLEAN /\ effect \in EffectRecord
      /\ effect.retry = TRUE
  BY DEF SocketIInv, SocketShape, EffectRecord, Reconnect
<1>2. effect.on = TRUE /\ effect.idle = FALSE
  BY <1>1, UnmountedIs DEF CurrentIsHeld, EffectRecord
<1>3. effect.idleTimer = TRUE <=> visible = FALSE
  BY <1>1, <1>2 DEF SocketIInv, NeverStranded, EffectRecord
<1> QED
  BY <1>1, <1>2, <1>3, ConnectKeeps DEF Reconnect, CurrentIsHeld

LEMMA ShowKeeps ==
  ASSUME SocketIInv, Show
  PROVE  SocketIInv'
<1>1. /\ SocketShape /\ OneSocketSpeaks /\ CurrentIsHeld /\ NeverStranded /\ effect \in EffectRecord
      /\ visible = FALSE /\ visible' = TRUE /\ UNCHANGED indicator
  BY DEF SocketIInv, SocketShape, EffectRecord, Show
<1>2. CASE effect.idle = TRUE
  <2> DEFINE e == [Disarmed(effect) EXCEPT !.idle = FALSE]
  <2>1. Room /\ effect' = Connected(e) /\ sockets' = Opening(sockets)
    BY <1>2 DEF Show
  <2>2. effect.on = TRUE /\ effect.current = 0
    BY <1>1, <1>2, UnmountedIs DEF CurrentIsHeld, EffectRecord
  <2>3. e \in EffectRecord /\ e.on = TRUE /\ e.idle = FALSE /\ e.idleTimer = FALSE
    BY <1>1, <2>2 DEF Disarmed, EffectRecord
  <2> HIDE DEF e
  <2> QED
    BY <1>1, <2>1, <2>2, <2>3, ConnectKeeps
<1>3. CASE effect.idle = FALSE
  <2>1. effect' = [effect EXCEPT !.idleTimer = FALSE] /\ UNCHANGED sockets
    BY <1>3 DEF Show, Disarmed
  <2>2. /\ effect' \in EffectRecord /\ effect'.on = effect.on /\ effect'.idle = effect.idle /\ effect'.idleTimer = FALSE
        /\ effect'.current = effect.current /\ effect'.retry = effect.retry /\ effect'.heartbeat = effect.heartbeat
    BY <1>1, <2>1 DEF EffectRecord
  <2>3. effect.on = FALSE => effect' = Unmounted
    BY <1>1, <2>1 DEF CurrentIsHeld, Unmounted, Fresh
  <2> QED
    BY <1>1, <1>3, <2>1, <2>2, <2>3 DEF SocketIInv, SocketShape, CurrentIsHeld, OneSocketSpeaks, NeverStranded
<1> QED
  BY <1>1, <1>2, <1>3 DEF EffectRecord

LEMMA HideKeeps ==
  ASSUME SocketIInv, Hide
  PROVE  SocketIInv'
<1>1. /\ SocketShape /\ OneSocketSpeaks /\ CurrentIsHeld /\ NeverStranded /\ effect \in EffectRecord
      /\ visible = TRUE /\ visible' = FALSE /\ UNCHANGED <<sockets, indicator>>
  BY DEF SocketIInv, SocketShape, EffectRecord, Hide
<1>2. CASE effect.on = TRUE
  <2>1. effect' = [effect EXCEPT !.idleTimer = TRUE]
    BY <1>2 DEF Hide
  <2>2. /\ effect' \in EffectRecord /\ effect'.on = effect.on /\ effect'.idle = effect.idle /\ effect'.idleTimer = TRUE
        /\ effect'.current = effect.current /\ effect'.retry = effect.retry /\ effect'.heartbeat = effect.heartbeat
    BY <1>1, <2>1 DEF EffectRecord
  <2> QED
    BY <1>1, <1>2, <2>2 DEF SocketIInv, SocketShape, CurrentIsHeld, OneSocketSpeaks, NeverStranded
<1>3. CASE effect.on = FALSE
  <2>1. UNCHANGED effect
    BY <1>3 DEF Hide
  <2> QED
    BY <1>1, <1>3, <2>1 DEF SocketIInv, SocketShape, CurrentIsHeld, OneSocketSpeaks, NeverStranded
<1> QED
  BY <1>1, <1>2, <1>3 DEF EffectRecord

\* Closing the current socket leaves none that lives.
LEMMA ClosingEndsAll ==
  ASSUME SocketShape, OneSocketSpeaks
  PROVE  /\ Closing(sockets, effect.current) \in [1..Sockets -> SocketRecord]
         /\ \A k \in 1..Sockets : Closing(sockets, effect.current)[k].state \notin Living
<1> DEFINE all == Closing(sockets, effect.current)
<1>1. ASSUME NEW k \in 1..Sockets
      PROVE  all[k] \in SocketRecord /\ all[k].state \notin Living
  <2> DEFINE old == sockets[k]
             m == [old EXCEPT !.state = "closing"]
  <2>1. old \in SocketRecord /\ (old.state \in Living => k = effect.current)
    BY DEF SocketShape, OneSocketSpeaks
  <2>2. all[k] = IF k = effect.current /\ old.state \in Living THEN m ELSE old
    BY DEF Closing
  <2> HIDE DEF old, all
  <2>3. m \in SocketRecord /\ m.state = "closing"
    BY <2>1 DEF SocketRecord, SocketStates
  <2> HIDE DEF m
  <2> QED
    BY <2>1, <2>2, <2>3 DEF Living
<1>2. all = [k \in 1..Sockets |-> all[k]]
  BY DEF Closing
<1> HIDE DEF all
<1>3. all \in [1..Sockets -> SocketRecord]
  BY <1>1, <1>2
<1> QED
  BY <1>1, <1>3 DEF all

LEMMA CleanupKeeps ==
  ASSUME SocketIInv, Cleanup
  PROVE  SocketIInv'
<1> DEFINE all == Closing(sockets, effect.current)
<1>1. SocketShape /\ OneSocketSpeaks /\ effect' = Unmounted /\ indicator' = "snapshot" /\ UNCHANGED visible
  BY DEF SocketIInv, Cleanup
<1>2. all \in [1..Sockets -> SocketRecord] /\ \A k \in 1..Sockets : all[k].state \notin Living
  BY <1>1, ClosingEndsAll
<1>3. sockets' = Detached(all)
  BY DEF Cleanup
<1> HIDE DEF all
<1>4. ASSUME NEW k \in 1..Sockets
      PROVE  sockets'[k] \in SocketRecord /\ sockets'[k].state \notin Living
  <2> DEFINE old == all[k]
             m == [old EXCEPT !.mounted = FALSE]
  <2>1. old \in SocketRecord /\ old.state \notin Living /\ sockets'[k] = m
    BY <1>2, <1>3 DEF Detached
  <2> HIDE DEF old
  <2> QED
    BY <2>1 DEF SocketRecord
<1>5. sockets' \in [1..Sockets -> SocketRecord]
  <2>1. sockets' = [k \in 1..Sockets |-> sockets'[k]]
    BY <1>3 DEF Detached
  <2> QED
    BY <1>4, <2>1
<1> QED
  BY <1>1, <1>4, <1>5, UnmountedIs DEF SocketIInv, SocketShape, CurrentIsHeld, OneSocketSpeaks, NeverStranded

LEMMA GoIdleKeeps ==
  ASSUME SocketIInv, GoIdle
  PROVE  SocketIInv'
<1>1. /\ SocketShape /\ OneSocketSpeaks /\ CurrentIsHeld /\ NeverStranded /\ effect \in EffectRecord
      /\ indicator' = "snapshot" /\ UNCHANGED visible /\ effect.idleTimer = TRUE /\ visible \in BOOLEAN
  BY DEF SocketIInv, SocketShape, EffectRecord, GoIdle
<1>2. effect.on = TRUE
  BY <1>1, UnmountedIs DEF CurrentIsHeld, EffectRecord
<1>3. visible = FALSE
  BY <1>1, <1>2 DEF NeverStranded
<1>4. effect' = [effect EXCEPT !.idle = TRUE, !.idleTimer = FALSE, !.retry = FALSE, !.heartbeat = FALSE, !.current = 0]
  BY DEF GoIdle
<1>5. /\ effect' \in EffectRecord /\ effect'.on = TRUE /\ effect'.idle = TRUE /\ effect'.retry = FALSE /\ effect'.current = 0
  <2>1. 0 \in 0..Sockets
    BY LiveSocketAssumption
  <2> QED
    BY <1>1, <1>2, <1>4, <2>1 DEF EffectRecord
<1>6. sockets' \in [1..Sockets -> SocketRecord] /\ \A k \in 1..Sockets : sockets'[k].state \notin Living
  BY <1>1, ClosingEndsAll DEF GoIdle
<1> QED
  BY <1>1, <1>3, <1>5, <1>6 DEF SocketIInv, SocketShape, CurrentIsHeld, OneSocketSpeaks, NeverStranded

\* One socket's state changes; the others stay.
LEMMA StateChanges ==
  ASSUME SocketShape, NEW k \in 1..Sockets, NEW state \in SocketStates,
         sockets' = [sockets EXCEPT ![k].state = state]
  PROVE  /\ sockets' \in [1..Sockets -> SocketRecord]
         /\ sockets'[k].state = state /\ sockets'[k].status = sockets[k].status /\ sockets'[k].mounted = sockets[k].mounted
         /\ \A j \in 1..Sockets \ {k} : sockets'[j] = sockets[j]
<1> DEFINE old == sockets[k]
           m == [old EXCEPT !.state = state]
<1>1. old \in SocketRecord /\ sockets' = [sockets EXCEPT ![k] = m]
  BY DEF SocketShape
<1> HIDE DEF old
<1>2. m \in SocketRecord /\ m.state = state /\ m.status = old.status /\ m.mounted = old.mounted
  BY <1>1 DEF SocketRecord
<1> HIDE DEF m
<1> QED
  BY <1>1, <1>2 DEF SocketShape, old

LEMMA OpensKeeps ==
  ASSUME SocketIInv, NEW k \in 1..Sockets, SocketOpens(k)
  PROVE  SocketIInv'
<1>1. /\ SocketShape /\ OneSocketSpeaks /\ CurrentIsHeld /\ NeverStranded /\ effect \in EffectRecord
      /\ UNCHANGED <<indicator, visible>> /\ sockets[k].state = "connecting" /\ k # 0
  BY DEF SocketIInv, SocketShape, SocketOpens
<1>2. /\ sockets' \in [1..Sockets -> SocketRecord]
      /\ sockets'[k].state = "open" /\ sockets'[k].status = sockets[k].status /\ sockets'[k].mounted = sockets[k].mounted
      /\ \A j \in 1..Sockets \ {k} : sockets'[j] = sockets[j]
  BY <1>1, StateChanges DEF SocketOpens, SocketStates
<1>3. effect.current = k
  BY <1>1 DEF OneSocketSpeaks, Living
<1>4. effect' = [effect EXCEPT !.heartbeat = TRUE]
  BY <1>1, <1>3 DEF SocketOpens, Speaks, CurrentIsHeld
<1>5. /\ effect' \in EffectRecord /\ effect'.on = effect.on /\ effect'.idle = effect.idle /\ effect'.idleTimer = effect.idleTimer
      /\ effect'.current = effect.current /\ effect'.retry = effect.retry /\ effect'.heartbeat = TRUE
  BY <1>1, <1>4 DEF EffectRecord
<1>6. effect.on # FALSE
  BY <1>1, <1>3, UnmountedIs DEF CurrentIsHeld
<1>7. SocketShape' /\ CurrentIsHeld'
  BY <1>1, <1>2, <1>3, <1>5, <1>6 DEF SocketShape, CurrentIsHeld
<1>8. OneSocketSpeaks'
  BY <1>1, <1>2, <1>3, <1>5 DEF OneSocketSpeaks, Living
<1>9. NeverStranded'
  BY <1>1, <1>2, <1>3, <1>5 DEF NeverStranded
<1> QED
  BY <1>7, <1>8, <1>9 DEF SocketIInv

LEMMA StatusKeeps ==
  ASSUME SocketIInv, NEW k \in 1..Sockets, Status(k)
  PROVE  SocketIInv'
<1>1. /\ SocketShape /\ OneSocketSpeaks /\ CurrentIsHeld /\ NeverStranded /\ effect \in EffectRecord
      /\ UNCHANGED <<effect, visible>> /\ sockets[k].state \in {"open", "closing", "lost"} /\ k # 0
  BY DEF SocketIInv, SocketShape, Status
<1>2. PICK status \in {"live", "waiting"} :
        /\ sockets' = [sockets EXCEPT ![k].status = status]
        /\ indicator' = IF ~Speaks(k) THEN indicator ELSE IF status = "live" THEN "live" ELSE "snapshot"
  BY DEF Status
<1>3. /\ sockets' \in [1..Sockets -> SocketRecord]
      /\ sockets'[k].state = sockets[k].state /\ sockets'[k].status = status /\ sockets'[k].mounted = sockets[k].mounted
      /\ \A j \in 1..Sockets \ {k} : sockets'[j] = sockets[j]
  <2> DEFINE old == sockets[k]
             m == [old EXCEPT !.status = status]
  <2>1. old \in SocketRecord /\ sockets' = [sockets EXCEPT ![k] = m]
    BY <1>1, <1>2 DEF SocketShape
  <2> HIDE DEF old
  <2>2. m \in SocketRecord /\ m.state = old.state /\ m.status = status /\ m.mounted = old.mounted
    BY <2>1 DEF SocketRecord
  <2> HIDE DEF m
  <2> QED
    BY <1>1, <2>1, <2>2 DEF SocketShape, old
<1>4. SocketShape' /\ CurrentIsHeld' /\ NeverStranded'
  BY <1>1, <1>2, <1>3 DEF SocketShape, CurrentIsHeld, NeverStranded
<1>5. ASSUME indicator' = "live"
      PROVE  /\ effect.current # 0 /\ sockets'[effect.current].status = "live"
             /\ sockets'[effect.current].state \in Living \cup {"lost"}
  <2>1. CASE effect.current = k
    <3>1. Speaks(k) /\ sockets[k].state # "closing"
      BY <1>1, <2>1 DEF Speaks, CurrentIsHeld
    <3> QED
      BY <1>1, <1>2, <1>3, <1>5, <2>1, <3>1 DEF Living
  <2>2. CASE effect.current # k
    <3>1. indicator = "live"
      BY <1>2, <1>5, <2>2 DEF Speaks
    <3>2. effect.current \in 1..Sockets \ {k}
      BY <1>1, <2>2, <3>1, LiveSocketAssumption DEF OneSocketSpeaks, EffectRecord
    <3> QED
      BY <1>1, <1>3, <3>1, <3>2 DEF OneSocketSpeaks
  <2> QED
    BY <2>1, <2>2
<1>6. OneSocketSpeaks'
  BY <1>1, <1>3, <1>5 DEF OneSocketSpeaks
<1> QED
  BY <1>4, <1>6 DEF SocketIInv

LEMMA EndsKeeps ==
  ASSUME SocketIInv, NEW k \in 1..Sockets, SocketEnds(k)
  PROVE  SocketIInv'
<1>1. /\ SocketShape /\ OneSocketSpeaks /\ CurrentIsHeld /\ NeverStranded /\ effect \in EffectRecord
      /\ UNCHANGED <<effect, indicator, visible>> /\ sockets[k].state \in Living /\ k # 0
  BY DEF SocketIInv, SocketShape, SocketEnds
<1>2. /\ sockets' \in [1..Sockets -> SocketRecord]
      /\ sockets'[k].state = "lost" /\ sockets'[k].status = sockets[k].status /\ sockets'[k].mounted = sockets[k].mounted
      /\ \A j \in 1..Sockets \ {k} : sockets'[j] = sockets[j]
  BY <1>1, StateChanges DEF SocketEnds, SocketStates
<1>3. effect.current = k /\ effect.retry # TRUE
  BY <1>1 DEF OneSocketSpeaks, CurrentIsHeld, Living
<1>4. SocketShape' /\ CurrentIsHeld'
  BY <1>1, <1>2, <1>3 DEF SocketShape, CurrentIsHeld
<1>5. OneSocketSpeaks'
  BY <1>1, <1>2, <1>3 DEF OneSocketSpeaks, Living
<1>6. NeverStranded'
  BY <1>1, <1>2, <1>3 DEF NeverStranded
<1> QED
  BY <1>4, <1>5, <1>6 DEF SocketIInv

LEMMA ClosesKeeps ==
  ASSUME SocketIInv, NEW k \in 1..Sockets, SocketCloses(k)
  PROVE  SocketIInv'
<1>1. /\ SocketShape /\ OneSocketSpeaks /\ CurrentIsHeld /\ NeverStranded /\ effect \in EffectRecord
      /\ UNCHANGED visible /\ sockets[k].state \in {"closing", "lost"} /\ k # 0
  BY DEF SocketIInv, SocketShape, SocketCloses
<1>2. /\ sockets' \in [1..Sockets -> SocketRecord]
      /\ sockets'[k].state = "closed" /\ sockets'[k].status = sockets[k].status /\ sockets'[k].mounted = sockets[k].mounted
      /\ \A j \in 1..Sockets \ {k} : sockets'[j] = sockets[j]
  BY <1>1, StateChanges DEF SocketCloses, SocketStates
<1>3. CASE effect.current = k
  <2>1. effect.idle = FALSE /\ Speaks(k) /\ effect.on # FALSE
    BY <1>1, <1>3, UnmountedIs DEF CurrentIsHeld, Speaks, EffectRecord
  <2>2. effect' = [effect EXCEPT !.heartbeat = FALSE, !.retry = TRUE] /\ indicator' = "snapshot"
    BY <2>1 DEF SocketCloses
  <2>3. /\ effect' \in EffectRecord /\ effect'.on = effect.on /\ effect'.idle = effect.idle /\ effect'.idleTimer = effect.idleTimer
        /\ effect'.current = effect.current /\ effect'.retry = TRUE /\ effect'.heartbeat = FALSE
    BY <1>1, <2>2 DEF EffectRecord
  <2>4. SocketShape' /\ CurrentIsHeld'
    BY <1>1, <1>2, <1>3, <2>1, <2>2, <2>3 DEF SocketShape, CurrentIsHeld
  <2>5. OneSocketSpeaks'
    BY <1>1, <1>2, <1>3, <2>2, <2>3 DEF OneSocketSpeaks, Living
  <2>6. NeverStranded'
    BY <1>1, <1>2, <1>3, <2>3 DEF NeverStranded
  <2> QED
    BY <2>4, <2>5, <2>6 DEF SocketIInv
<1>4. CASE effect.current # k
  <2>1. UNCHANGED <<effect, indicator>>
    BY <1>4 DEF SocketCloses, Speaks
  <2>2. effect.current # 0 => effect.current \in 1..Sockets \ {k}
    BY <1>1, <1>4, LiveSocketAssumption DEF EffectRecord
  <2>3. SocketShape' /\ CurrentIsHeld'
    BY <1>1, <1>2, <2>1, <2>2 DEF SocketShape, CurrentIsHeld
  <2>4. OneSocketSpeaks'
    BY <1>1, <1>2, <2>1, <2>2 DEF OneSocketSpeaks, Living
  <2>5. NeverStranded'
    BY <1>1, <1>2, <2>1, <2>2 DEF NeverStranded
  <2> QED
    BY <2>3, <2>4, <2>5 DEF SocketIInv
<1> QED
  BY <1>3, <1>4

LEMMA SocketBegin ==
  ASSUME SocketInit
  PROVE  SocketIInv
<1>1. \A k \in 1..Sockets : sockets[k] = Unopened /\ sockets[k].state = "unopened" /\ sockets[k] \in SocketRecord
  BY DEF SocketInit, Unopened, SocketRecord, SocketStates
<1>2. sockets \in [1..Sockets -> SocketRecord]
  BY DEF SocketInit, Unopened, SocketRecord, SocketStates
<1> QED
  BY <1>1, <1>2, UnmountedIs
  DEF SocketInit, SocketIInv, SocketShape, CurrentIsHeld, OneSocketSpeaks, NeverStranded, Living

LEMMA SocketStep ==
  ASSUME SocketIInv, [SocketNext]_socketVars
  PROVE  SocketIInv'
<1>1. CASE UNCHANGED socketVars
  BY <1>1 DEF socketVars, SocketIInv, SocketShape, CurrentIsHeld, OneSocketSpeaks, NeverStranded
<1> QED
  BY <1>1, MountKeeps, CleanupKeeps, ReconnectKeeps, GoIdleKeeps, HideKeeps, ShowKeeps,
     OpensKeeps, StatusKeeps, EndsKeeps, ClosesKeeps DEF SocketNext

\* A page has one socket at most, "live" is what that one last said, and a page that is looked
\* at has a way back to the feed, for any number of sockets, hides, shows and late frames.
THEOREM SocketHolds == SocketSpec => []SocketInv
<1>1. SocketInit => SocketIInv
  BY SocketBegin
<1>2. SocketIInv /\ [SocketNext]_socketVars => SocketIInv'
  BY SocketStep
<1>3. SocketIInv => SocketInv
  BY DEF SocketIInv, SocketInv
<1> QED
  BY <1>1, <1>2, <1>3, PTL DEF SocketSpec

(***************************************************************************)
(* Favorites                                                               *)
(***************************************************************************)

SyncSteps == {"off", "merging", "reading", "answered"}
SyncRecord ==
  [step : SyncSteps, version : Int, symbols : SUBSET Stars, added : SUBSET Stars, held : SUBSET Stars]

FavoriteShape ==
  /\ stage \in [version : Nat, symbols : SUBSET Stars] /\ consumed \in Int /\ consumed <= stage.version
  /\ syncs \in [Tabs -> SyncRecord] /\ account \in SUBSET Stars /\ starred \in SUBSET Stars

\* A fetch of the present stage has all of it; what its answer held and somebody still
\* stars is in the account.
FetchesOfStage ==
  \A t \in Tabs : LET sync == syncs[t] IN
    /\ sync.version <= stage.version
    /\ sync.version = stage.version => sync.symbols = stage.symbols
    /\ sync.version = stage.version /\ sync.step = "answered" => sync.held \cap starred \subseteq account

FavoriteIInv == FavoriteShape /\ FetchesOfStage /\ StagedNotLost

LEMMA FavoriteFacts ==
  ASSUME FavoriteShape
  PROVE  /\ stage.version \in Nat /\ stage.symbols \in SUBSET Stars
         /\ Pending \subseteq stage.symbols
         /\ \A t \in Tabs : /\ syncs[t] \in SyncRecord /\ syncs[t].version \in Int /\ syncs[t].step \in SyncSteps
                            /\ syncs[t].symbols \in SUBSET Stars /\ syncs[t].held \in SUBSET Stars
  BY DEF FavoriteShape, SyncRecord, Pending

LEMMA NoSyncIs ==
  /\ NoSync \in SyncRecord /\ NoSync.step = "off" /\ NoSync.version = NeverConsumed /\ NeverConsumed \in Int
  /\ \A n \in Nat : NeverConsumed < n
  BY DEF NoSync, SyncRecord, SyncSteps, NeverConsumed

\* One tab's fetch goes on; nothing else changes.
LEMMA FetchGoesOn ==
  ASSUME FavoriteIInv, NEW t \in Tabs, NEW m \in SyncRecord, syncs' = [syncs EXCEPT ![t] = m],
         UNCHANGED <<stage, consumed, starred>>, account' \in SUBSET Stars, account \subseteq account',
         m.version <= stage.version,
         m.version = stage.version => m.symbols = stage.symbols,
         m.version = stage.version /\ m.step = "answered" => m.held \cap starred \subseteq account'
  PROVE  FavoriteIInv'
<1>1. FavoriteShape /\ FetchesOfStage /\ StagedNotLost
  BY DEF FavoriteIInv
<1>2. syncs' \in [Tabs -> SyncRecord] /\ syncs'[t] = m /\ \A u \in Tabs \ {t} : syncs'[u] = syncs[u]
  BY <1>1 DEF FavoriteShape
<1>3. FavoriteShape'
  BY <1>1, <1>2 DEF FavoriteShape
<1>4. FetchesOfStage'
  <2> SUFFICES ASSUME NEW u \in Tabs
               PROVE  /\ syncs'[u].version <= stage.version
                      /\ syncs'[u].version = stage.version => syncs'[u].symbols = stage.symbols
                      /\ syncs'[u].version = stage.version /\ syncs'[u].step = "answered" =>
                           syncs'[u].held \cap starred \subseteq account'
    BY DEF FetchesOfStage
  <2>1. CASE u = t
    BY <1>2, <2>1
  <2>2. CASE u # t
    <3>1. syncs'[u] = syncs[u]
      BY <1>2, <2>2
    <3> QED
      BY <1>1, <3>1 DEF FetchesOfStage
  <2> QED
    BY <2>1, <2>2
<1>5. StagedNotLost'
  BY <1>1 DEF StagedNotLost, Pending
<1> QED
  BY <1>3, <1>4, <1>5 DEF FavoriteIInv

LEMMA InsertsKeep ==
  ASSUME NEW symbols \in SUBSET Stars, account \in SUBSET Stars, NEW all \in InsertedBy(symbols)
  PROVE  all \in SUBSET Stars /\ account \subseteq all
  BY DEF InsertedBy

LEMMA ToggleKeeps ==
  ASSUME FavoriteIInv, NEW s \in Stars, ToggleAnonymous(s)
  PROVE  FavoriteIInv'
<1> DEFINE next == stage.version + 1
           symbols == IF s \in Pending THEN Pending \ {s} ELSE Pending \cup {s}
<1>1. FavoriteShape /\ FetchesOfStage /\ StagedNotLost
  BY DEF FavoriteIInv
<1>2. /\ next \in Nat /\ stage.version < next /\ symbols \in SUBSET Stars /\ consumed \in Int /\ consumed < next
      /\ stage.version \in Nat
  BY <1>1, FavoriteFacts DEF FavoriteShape
<1>3. /\ stage' = [version |-> next, symbols |-> symbols] /\ UNCHANGED <<consumed, account, syncs>>
      /\ starred' = IF s \in Pending THEN starred \ {s} ELSE starred \cup {s}
  BY DEF ToggleAnonymous
<1>4. Pending' = symbols
  BY <1>2, <1>3 DEF Pending
<1> HIDE DEF next
<1>5. FavoriteShape'
  BY <1>1, <1>2, <1>3 DEF FavoriteShape
<1>6. FetchesOfStage'
  <2> SUFFICES ASSUME NEW u \in Tabs PROVE syncs[u].version < next
    BY <1>2, <1>3, <1>1, FavoriteFacts DEF FetchesOfStage
  <2> QED
    BY <1>1, <1>2, FavoriteFacts DEF FetchesOfStage
<1>7. StagedNotLost'
  BY <1>1, <1>3, <1>4 DEF StagedNotLost
<1> QED
  BY <1>5, <1>6, <1>7 DEF FavoriteIInv

LEMMA FetchKeeps ==
  ASSUME FavoriteIInv, NEW t \in Tabs, Fetch(t)
  PROVE  FavoriteIInv'
<1> DEFINE step == IF Pending = {} THEN "reading" ELSE "merging"
           version == IF stage.version = consumed THEN NeverConsumed ELSE stage.version
           pending == Pending
           m == [NoSync EXCEPT !.step = step, !.version = version, !.symbols = pending]
<1>1. FavoriteShape /\ account \in SUBSET Stars
  BY DEF FavoriteIInv, FavoriteShape
<1>2. syncs' = [syncs EXCEPT ![t] = m] /\ UNCHANGED <<stage, consumed, account, starred>>
  BY DEF Fetch
<1>3. /\ step \in {"reading", "merging"} /\ version \in Int /\ version <= stage.version /\ pending \in SUBSET Stars
      /\ version = stage.version => pending = stage.symbols
  BY <1>1, FavoriteFacts, NoSyncIs DEF Pending
<1> HIDE DEF step, version, pending
<1>4. m \in SyncRecord /\ m.step = step /\ m.version = version /\ m.symbols = pending
  BY <1>3 DEF NoSync, SyncRecord, SyncSteps
<1> HIDE DEF m
<1> QED
  BY <1>1, <1>2, <1>3, <1>4, FetchGoesOn

LEMMA MergeKeeps ==
  ASSUME FavoriteIInv, NEW t \in Tabs, Merge(t)
  PROVE  FavoriteIInv'
<1> DEFINE old == syncs[t]
           m == [old EXCEPT !.step = "reading"]
<1>1. FavoriteShape /\ FetchesOfStage /\ old \in SyncRecord
  BY FavoriteFacts DEF FavoriteIInv
<1>2. syncs' = [syncs EXCEPT ![t] = m] /\ UNCHANGED <<stage, consumed, starred>>
  BY DEF Merge
<1>3. account' \in SUBSET Stars /\ account \subseteq account'
  BY <1>1, FavoriteFacts, InsertsKeep DEF Merge, FavoriteShape
<1>4. old.version <= stage.version /\ (old.version = stage.version => old.symbols = stage.symbols)
  BY <1>1 DEF FetchesOfStage
<1> HIDE DEF old
<1>5. m \in SyncRecord /\ m.step = "reading" /\ m.version = old.version /\ m.symbols = old.symbols
  BY <1>1 DEF SyncRecord, SyncSteps
<1> HIDE DEF m
<1> QED
  BY <1>2, <1>3, <1>4, <1>5, FetchGoesOn

LEMMA ReadKeeps ==
  ASSUME FavoriteIInv, NEW t \in Tabs, Read(t)
  PROVE  FavoriteIInv'
<1> DEFINE old == syncs[t]
           m == [old EXCEPT !.step = "answered", !.held = account]
<1>1. FavoriteShape /\ FetchesOfStage /\ old \in SyncRecord /\ account \in SUBSET Stars
  BY FavoriteFacts DEF FavoriteIInv, FavoriteShape
<1>2. syncs' = [syncs EXCEPT ![t] = m] /\ UNCHANGED <<stage, consumed, account, starred>>
  BY <1>1 DEF Read, FavoriteShape
<1>3. old.version <= stage.version /\ (old.version = stage.version => old.symbols = stage.symbols)
  BY <1>1 DEF FetchesOfStage
<1> HIDE DEF old
<1>4. m \in SyncRecord /\ m.version = old.version /\ m.symbols = old.symbols /\ m.held = account
  BY <1>1 DEF SyncRecord, SyncSteps
<1> HIDE DEF m
<1> QED
  BY <1>1, <1>2, <1>3, <1>4, FetchGoesOn

LEMMA NoSyncKeeps ==
  ASSUME FavoriteIInv, NEW t \in Tabs, syncs' = [syncs EXCEPT ![t] = NoSync],
         UNCHANGED <<stage, consumed, account, starred>>
  PROVE  FavoriteIInv'
<1>1. FavoriteShape /\ account \in SUBSET Stars /\ stage.version \in Nat
  BY FavoriteFacts DEF FavoriteIInv, FavoriteShape
<1>2. NoSync.version <= stage.version /\ NoSync.version # stage.version
  BY <1>1, NoSyncIs
<1> QED
  BY <1>1, <1>2, NoSyncIs, FetchGoesOn

\* The stage that is marked is in the account, so nothing that is starred goes with it.
LEMMA ConsumeKeeps ==
  ASSUME FavoriteIInv, NEW t \in Tabs, Consume(t)
  PROVE  FavoriteIInv'
<1> DEFINE sync == syncs[t]
<1>1. FavoriteShape /\ FetchesOfStage /\ StagedNotLost
  BY DEF FavoriteIInv
<1>2. /\ sync.step = "answered" /\ sync.symbols \subseteq sync.held /\ syncs' = [syncs EXCEPT ![t] = NoSync]
      /\ consumed' = IF sync.version = NeverConsumed THEN consumed ELSE sync.version
      /\ UNCHANGED <<stage, account, starred>>
  BY DEF Consume, Complete, SentStage
<1>3. /\ sync.version <= stage.version /\ sync.version \in Int /\ stage.version \in Nat
      /\ sync.version = stage.version => sync.symbols = stage.symbols /\ sync.held \cap starred \subseteq account
  BY <1>1, <1>2, FavoriteFacts DEF FetchesOfStage
<1>4. CASE consumed' = consumed
  BY <1>2, <1>4, NoSyncKeeps
<1>5. CASE consumed' = sync.version
  <2>1. syncs' \in [Tabs -> SyncRecord] /\ syncs'[t] = NoSync /\ \A u \in Tabs \ {t} : syncs'[u] = syncs[u]
    BY <1>1, <1>2, NoSyncIs DEF FavoriteShape
  <2>2. FavoriteShape'
    BY <1>1, <1>2, <1>3, <1>5, <2>1 DEF FavoriteShape
  <2>3. FetchesOfStage'
    <3> SUFFICES ASSUME NEW u \in Tabs
                 PROVE  /\ syncs'[u].version <= stage.version
                        /\ syncs'[u].version = stage.version => syncs'[u].symbols = stage.symbols
                        /\ syncs'[u].version = stage.version /\ syncs'[u].step = "answered" =>
                             syncs'[u].held \cap starred \subseteq account
      BY <1>2 DEF FetchesOfStage
    <3>1. CASE u = t
      <4>1. NoSync.version < stage.version
        BY <1>3, NoSyncIs
      <4> QED
        BY <1>3, <2>1, <3>1, <4>1, NoSyncIs
    <3>2. CASE u # t
      BY <1>1, <2>1, <3>2 DEF FetchesOfStage
    <3> QED
      BY <3>1, <3>2
  <2>4. StagedNotLost'
    <3>1. CASE sync.version = stage.version
      <4>1. starred \subseteq account
        BY <1>1, <1>2, <1>3, <3>1, FavoriteFacts DEF StagedNotLost
      <4> QED
        BY <1>2, <4>1 DEF StagedNotLost
    <3>2. CASE sync.version # stage.version
      <4>1. Pending' = stage.symbols
        BY <1>2, <1>5, <3>2 DEF Pending
      <4> QED
        BY <1>1, <1>2, <4>1, FavoriteFacts DEF StagedNotLost
    <3> QED
      BY <3>1, <3>2
  <2> QED
    BY <2>2, <2>3, <2>4 DEF FavoriteIInv
<1> QED
  BY <1>2, <1>4, <1>5

LEMMA AccountKeeps ==
  ASSUME FavoriteIInv, NEW s \in Stars, Unstar(s) \/ Add(s)
  PROVE  FavoriteIInv'
<1>1. FavoriteShape /\ FetchesOfStage /\ StagedNotLost
  BY DEF FavoriteIInv
<1>2. UNCHANGED <<stage, consumed, syncs>> /\ Pending' = Pending
  BY DEF Unstar, Add, Pending
<1>3. \/ account' = account \ {s} /\ starred' = starred \ {s}
      \/ account \subseteq account' /\ account' \in SUBSET Stars /\ UNCHANGED starred
  <2>1. CASE Unstar(s)
    BY <2>1 DEF Unstar
  <2>2. CASE Add(s)
    BY <1>1, <2>2, InsertsKeep DEF Add, FavoriteShape
  <2> QED
    BY <2>1, <2>2
<1>4. FavoriteShape'
  BY <1>1, <1>2, <1>3 DEF FavoriteShape
<1>5. FetchesOfStage'
  BY <1>1, <1>2, <1>3 DEF FetchesOfStage
<1>6. StagedNotLost'
  BY <1>1, <1>2, <1>3 DEF StagedNotLost
<1> QED
  BY <1>4, <1>5, <1>6 DEF FavoriteIInv

LEMMA FavoriteBegin ==
  ASSUME FavoriteInit
  PROVE  FavoriteIInv
<1>1. PICK symbols \in SUBSET Stars : stage = [version |-> 0, symbols |-> symbols]
  BY DEF FavoriteInit
<1>2. consumed = NeverConsumed /\ account = {} /\ syncs = [t \in Tabs |-> NoSync] /\ starred = symbols
  BY <1>1 DEF FavoriteInit
<1>3. FavoriteShape
  BY <1>1, <1>2, NoSyncIs DEF FavoriteShape
<1>4. Pending = symbols
  BY <1>1, <1>2, NoSyncIs DEF Pending
<1>5. NoSync.version < 0 /\ stage.version = 0
  BY <1>1, NoSyncIs
<1>6. FetchesOfStage
  BY <1>2, <1>5, NoSyncIs DEF FetchesOfStage
<1> QED
  BY <1>2, <1>3, <1>4, <1>6 DEF FavoriteIInv, StagedNotLost

LEMMA FavoriteStep ==
  ASSUME FavoriteIInv, [FavoriteNext]_favoriteVars
  PROVE  FavoriteIInv'
<1>1. CASE UNCHANGED favoriteVars
  BY <1>1 DEF favoriteVars, FavoriteIInv, FavoriteShape, FetchesOfStage, StagedNotLost, Pending
<1>2. ASSUME NEW t \in Tabs, FetchFails(t) PROVE FavoriteIInv'
  BY <1>2, NoSyncKeeps DEF FetchFails
<1> QED
  BY <1>1, <1>2, ToggleKeeps, FetchKeeps, MergeKeeps, ReadKeeps, ConsumeKeeps, AccountKeeps DEF FavoriteNext

\* What a reader starred is in the account or still staged, for any number of symbols, tabs,
\* edits and changes by other devices, and whatever the limit.
THEOREM FavoritesHold == FavoriteSpec => []StagedNotLost
<1>1. FavoriteInit => FavoriteIInv
  BY FavoriteBegin
<1>2. FavoriteIInv /\ [FavoriteNext]_favoriteVars => FavoriteIInv'
  BY FavoriteStep
<1>3. FavoriteIInv => StagedNotLost
  BY DEF FavoriteIInv
<1> QED
  BY <1>1, <1>2, <1>3, PTL DEF FavoriteSpec

(***************************************************************************)
(* The calendar of a symbol                                                *)
(***************************************************************************)

PlacesOfCopies == {"browser", "edge"}
ReadRecord == [step : {"off", "sent", "answered"}, ver : Int, revision : Nat]
AskRecord ==
  [step : {"off", "sent", "answered"}, outcome : {"none", "bound", "empty", "refused", "failed"}, ver : Nat]
CopyRecord == [ver : Int, age : Int]
CalendarRecord ==
  [cache : Int, of : Nat, revision : Nat, inflight : SUBSET ReadIds, asked : BOOLEAN, ranEmpty : BOOLEAN,
   searched : BOOLEAN, failed : BOOLEAN, answer : {"none", "bound", "empty"}]

CalendarShape ==
  /\ calendar \in CalendarRecord /\ reads \in [ReadIds -> ReadRecord] /\ asks \in [Asks -> AskRecord]
  /\ ran \in Nat /\ copies \in [PlacesOfCopies -> CopyRecord]

CalendarIInv == CalendarShape /\ CalendarFollowsSearch

LEMMA CalendarFacts ==
  ASSUME CalendarShape
  PROVE  /\ calendar.cache \in Int /\ calendar.of \in Nat /\ calendar.revision \in Nat
         /\ calendar.inflight \in SUBSET ReadIds /\ BrowserAge \in Nat /\ EdgeAge \in Nat /\ Forever \in Int
         /\ \A r \in ReadIds : /\ reads[r] \in ReadRecord /\ reads[r].ver \in Int /\ reads[r].revision \in Nat
         /\ \A a \in Asks : asks[a] \in AskRecord
         /\ \A p \in PlacesOfCopies : copies[p] \in CopyRecord /\ copies[p].ver \in Int /\ copies[p].age \in Int
  BY CalendarAssumption DEF CalendarShape, CalendarRecord, ReadRecord, CopyRecord, Forever

LEMMA NoReadIs ==
  NoRead \in ReadRecord /\ NoRead.step = "off" /\ Unread \in Int
  BY DEF NoRead, ReadRecord, Unread

LEMMA LoadKeeps ==
  ASSUME CalendarIInv, NEW r \in ReadIds, Load(r)
  PROVE  CalendarIInv'
<1> DEFINE revision == calendar.revision
           m == [NoRead EXCEPT !.step = "sent", !.revision = revision]
<1>1. CalendarShape /\ CalendarFollowsSearch /\ calendar \in CalendarRecord /\ revision \in Nat
  BY CalendarFacts DEF CalendarIInv, CalendarShape
<1>2. /\ reads' = [reads EXCEPT ![r] = m] /\ calendar' = [calendar EXCEPT !.inflight = {r}]
      /\ UNCHANGED <<asks, ran, copies>> /\ calendar.cache = Unread
  BY DEF Load
<1> HIDE DEF revision
<1>3. m \in ReadRecord /\ m.step = "sent" /\ m.revision = revision
  BY <1>1, NoReadIs DEF ReadRecord
<1> HIDE DEF m
<1>4. reads' \in [ReadIds -> ReadRecord] /\ reads'[r] = m
  BY <1>1, <1>2, <1>3 DEF CalendarShape
<1>5. /\ calendar' \in CalendarRecord /\ calendar'.inflight = {r} /\ calendar'.cache = Unread
      /\ calendar'.revision = calendar.revision /\ calendar'.searched = calendar.searched
      /\ calendar'.answer = calendar.answer /\ calendar'.ranEmpty = calendar.ranEmpty
  BY <1>1, <1>2 DEF CalendarRecord
<1>6. CalendarShape'
  BY <1>1, <1>2, <1>4, <1>5 DEF CalendarShape
<1>7. CalendarFollowsSearch'
  BY <1>1, <1>3, <1>4, <1>5 DEF CalendarFollowsSearch, ConfirmedEmpty, revision
<1> QED
  BY <1>6, <1>7 DEF CalendarIInv

LEMMA AnswerKeeps ==
  ASSUME CalendarIInv, NEW r \in ReadIds, Answer(r)
  PROVE  CalendarIInv'
<1> DEFINE fetched == IF FreshAt("browser") THEN copies["browser"]
                      ELSE IF FreshAt("edge") THEN copies["edge"]
                      ELSE [ver |-> ran, age |-> 0]
           kept == [fetched EXCEPT !.age = IF @ < BrowserAge THEN @ ELSE Forever]
           old == reads[r]
           ver == fetched.ver
           m == [old EXCEPT !.step = "answered", !.ver = ver]
<1>1. CalendarShape /\ CalendarFollowsSearch /\ old \in ReadRecord /\ old.step = "sent"
  BY CalendarFacts DEF CalendarIInv, Answer
<1>2. /\ reads' = [reads EXCEPT ![r] = m] /\ UNCHANGED <<calendar, asks, ran>>
      /\ copies' = [place \in PlacesOfCopies |->
           IF FreshAt(place) THEN copies[place]
           ELSE IF place = "browser" THEN kept ELSE IF FreshAt("browser") THEN copies[place] ELSE fetched]
  BY <1>1 DEF Answer, PlacesOfCopies, CalendarShape
<1>3. fetched \in CopyRecord
  <2>1. [ver |-> ran, age |-> 0] \in CopyRecord
    BY <1>1 DEF CalendarShape, CopyRecord
  <2> QED
    BY <1>1, <2>1, CalendarFacts DEF PlacesOfCopies
<1> HIDE DEF fetched
<1>4. kept \in CopyRecord /\ ver \in Int
  BY <1>1, <1>3, CalendarFacts DEF CopyRecord
<1> HIDE DEF kept, ver, old
<1>5. m \in ReadRecord /\ m.step = "answered" /\ m.revision = old.revision
  BY <1>1, <1>4 DEF ReadRecord
<1> HIDE DEF m
<1>6. reads' \in [ReadIds -> ReadRecord] /\ reads'[r] = m /\ \A q \in ReadIds \ {r} : reads'[q] = reads[q]
  BY <1>1, <1>2, <1>5 DEF CalendarShape
<1>7. CalendarShape'
  BY <1>1, <1>2, <1>3, <1>4, <1>6, CalendarFacts DEF CalendarShape
<1>8. CalendarFollowsSearch'
  BY <1>1, <1>2, <1>5, <1>6, CalendarFacts DEF CalendarFollowsSearch, ConfirmedEmpty, old
<1> QED
  BY <1>7, <1>8 DEF CalendarIInv

LEMMA EndKeeps ==
  ASSUME CalendarIInv, NEW r \in ReadIds, Settle(r) \/ RowsFail(r)
  PROVE  CalendarIInv'
<1> DEFINE ver == reads[r].ver
           revision == reads[r].revision
<1>1. /\ CalendarShape /\ CalendarFollowsSearch /\ calendar \in CalendarRecord
      /\ reads' = [reads EXCEPT ![r] = NoRead] /\ UNCHANGED <<asks, ran, copies>>
      /\ ver \in Int /\ revision \in Nat
  BY CalendarFacts DEF CalendarIInv, CalendarShape, Settle, RowsFail
<1>2. reads' \in [ReadIds -> ReadRecord] /\ \A q \in ReadIds \ {r} : reads'[q] = reads[q]
  BY <1>1, NoReadIs DEF CalendarShape
<1>3. CASE calendar' = calendar /\ r \notin calendar.inflight
  <2>1. CalendarShape'
    BY <1>1, <1>2, <1>3 DEF CalendarShape
  <2>2. CalendarFollowsSearch'
    BY <1>1, <1>2, <1>3, CalendarFacts DEF CalendarFollowsSearch, ConfirmedEmpty
  <2> QED
    BY <2>1, <2>2 DEF CalendarIInv
<1>4. CASE calendar' = [calendar EXCEPT !.inflight = {}]
  <2>1. /\ calendar' \in CalendarRecord /\ calendar'.inflight = {} /\ calendar'.cache = calendar.cache
        /\ calendar'.of = calendar.of /\ calendar'.revision = calendar.revision /\ calendar'.searched = calendar.searched
        /\ calendar'.answer = calendar.answer /\ calendar'.ranEmpty = calendar.ranEmpty
    BY <1>1, <1>4 DEF CalendarRecord
  <2>2. CalendarShape'
    BY <1>1, <1>2, <2>1 DEF CalendarShape
  <2>3. CalendarFollowsSearch'
    BY <1>1, <2>1 DEF CalendarFollowsSearch, ConfirmedEmpty
  <2> QED
    BY <2>2, <2>3 DEF CalendarIInv
<1>5. CASE r \in calendar.inflight /\ calendar' = [calendar EXCEPT !.cache = ver, !.of = revision, !.inflight = {}]
  <2>1. revision = calendar.revision
    BY <1>1, <1>5 DEF CalendarFollowsSearch
  <2> HIDE DEF ver, revision
  <2>2. /\ calendar' \in CalendarRecord /\ calendar'.inflight = {}
        /\ calendar'.of = revision /\ calendar'.revision = calendar.revision /\ calendar'.searched = calendar.searched
        /\ calendar'.answer = calendar.answer /\ calendar'.ranEmpty = calendar.ranEmpty
    BY <1>1, <1>5 DEF CalendarRecord
  <2>3. CalendarShape'
    BY <1>1, <1>2, <2>2 DEF CalendarShape
  <2>4. CalendarFollowsSearch'
    BY <1>1, <2>1, <2>2 DEF CalendarFollowsSearch, ConfirmedEmpty
  <2> QED
    BY <2>3, <2>4 DEF CalendarIInv
<1> QED
  BY <1>3, <1>4, <1>5 DEF Settle, RowsFail, Current

LEMMA SeekKeeps ==
  ASSUME CalendarIInv, NEW a \in Asks, Seek(a)
  PROVE  CalendarIInv'
<1> DEFINE old == asks[a]
           m == [old EXCEPT !.step = "sent"]
<1>1. /\ CalendarShape /\ CalendarFollowsSearch /\ calendar \in CalendarRecord /\ old \in AskRecord
      /\ asks' = [asks EXCEPT ![a] = m] /\ UNCHANGED <<reads, ran, copies>>
  BY CalendarFacts DEF CalendarIInv, CalendarShape, Seek
<1> HIDE DEF old
<1>2. m \in AskRecord
  BY <1>1 DEF AskRecord
<1> HIDE DEF m
<1>3. asks' \in [Asks -> AskRecord]
  BY <1>1, <1>2 DEF CalendarShape
<1>4. /\ calendar' \in CalendarRecord /\ calendar'.inflight = calendar.inflight /\ calendar'.cache = calendar.cache
      /\ calendar'.of = calendar.of /\ calendar'.revision = calendar.revision /\ calendar'.searched = calendar.searched
      /\ calendar'.answer = calendar.answer /\ calendar'.ranEmpty = calendar.ranEmpty
  <2>1. calendar' = calendar \/ calendar' = [calendar EXCEPT !.asked = TRUE]
    BY DEF Seek
  <2> QED
    BY <1>1, <2>1 DEF CalendarRecord
<1>5. CalendarShape'
  BY <1>1, <1>3, <1>4 DEF CalendarShape
<1>6. CalendarFollowsSearch'
  BY <1>1, <1>4 DEF CalendarFollowsSearch, ConfirmedEmpty
<1> QED
  BY <1>5, <1>6 DEF CalendarIInv

LEMMA SearchedKeeps ==
  ASSUME CalendarIInv, NEW a \in Asks, Searched(a)
  PROVE  CalendarIInv'
<1>1. CalendarShape /\ CalendarFollowsSearch /\ ran \in Nat /\ UNCHANGED <<calendar, reads, copies>>
  BY DEF CalendarIInv, CalendarShape, Searched
<1>2. ran' \in Nat
  BY <1>1 DEF Searched
<1>3. PICK outcome \in {"bound", "empty", "refused", "failed"} :
        asks' = [asks EXCEPT ![a] = [step |-> "answered", outcome |-> outcome, ver |-> ran']]
  BY DEF Searched
<1>4. [step |-> "answered", outcome |-> outcome, ver |-> ran'] \in AskRecord
  BY <1>2 DEF AskRecord
<1>5. CalendarShape'
  BY <1>1, <1>2, <1>3, <1>4 DEF CalendarShape
<1> QED
  BY <1>1, <1>5 DEF CalendarIInv, CalendarFollowsSearch, ConfirmedEmpty

\* A search that ran leaves nothing kept and nothing under way; only one that bound nothing
\* leaves the reader told so.
LEMMA RecordKeeps ==
  ASSUME CalendarIInv, NEW a \in Asks, Record(a)
  PROVE  CalendarIInv'
<1> DEFINE outcome == asks[a].outcome
           kept == IF Ran(outcome) THEN Forgotten(calendar) ELSE calendar
           answer == IF outcome = "failed" THEN kept.answer ELSE IF outcome = "bound" THEN "bound" ELSE "empty"
           asked == kept.asked /\ outcome # "failed"
           isRan == Ran(outcome)
           isEmpty == outcome = "empty"
           isFailed == outcome = "failed"
<1>1. /\ CalendarShape /\ CalendarFollowsSearch /\ calendar \in CalendarRecord
      /\ outcome \in {"none", "bound", "empty", "refused", "failed"}
      /\ asks' = [asks EXCEPT ![a] = NoAsk] /\ UNCHANGED <<reads, ran, copies>>
  BY CalendarFacts DEF CalendarIInv, CalendarShape, Record, AskRecord
<1>2. calendar' = [kept EXCEPT !.answer = answer, !.searched = isRan, !.ranEmpty = isEmpty,
                               !.failed = isFailed, !.asked = asked]
  BY DEF Record
<1>3. /\ kept \in CalendarRecord
      /\ isRan = TRUE => kept.cache = Unread /\ kept.inflight = {}
      /\ isRan = FALSE => kept = calendar
  <2>1. CASE isRan
    <3> DEFINE next == calendar.revision + 1
    <3>1. next \in Nat
      BY <1>1, CalendarFacts
    <3>2. kept = [calendar EXCEPT !.cache = Unread, !.inflight = {}, !.revision = next]
      BY <2>1 DEF Forgotten
    <3> HIDE DEF next, kept
    <3> QED
      BY <1>1, <2>1, <3>1, <3>2, NoReadIs DEF CalendarRecord
  <2>2. CASE ~isRan
    BY <1>1, <2>2
  <2> QED
    BY <2>1, <2>2
<1>4. /\ answer \in {"none", "bound", "empty"} /\ asked \in BOOLEAN /\ isRan \in BOOLEAN /\ isEmpty \in BOOLEAN
      /\ isFailed \in BOOLEAN
  BY <1>1, <1>3 DEF CalendarRecord, Ran
<1>5. isRan = TRUE /\ answer # "bound" => isEmpty = TRUE
  BY <1>1 DEF Ran
<1> HIDE DEF answer, asked, isRan, isEmpty, isFailed, kept
<1>6. /\ calendar' \in CalendarRecord /\ calendar'.inflight = kept.inflight /\ calendar'.cache = kept.cache
      /\ calendar'.of = kept.of /\ calendar'.revision = kept.revision /\ calendar'.searched = isRan
      /\ calendar'.answer = answer /\ calendar'.ranEmpty = isEmpty
  BY <1>2, <1>3, <1>4 DEF CalendarRecord
<1>7. CalendarShape'
  <2>1. NoAsk \in AskRecord
    BY DEF NoAsk, AskRecord
  <2> QED
    BY <1>1, <1>6, <2>1 DEF CalendarShape
<1>8. CalendarFollowsSearch'
  BY <1>1, <1>3, <1>4, <1>5, <1>6 DEF CalendarFollowsSearch, ConfirmedEmpty
<1> QED
  BY <1>7, <1>8 DEF CalendarIInv

LEMMA MinuteKeeps ==
  ASSUME CalendarIInv, Minute
  PROVE  CalendarIInv'
<1>1. CalendarShape /\ CalendarFollowsSearch /\ UNCHANGED <<calendar, reads, asks, ran>>
  BY DEF CalendarIInv, Minute
<1>2. copies' = [place \in PlacesOfCopies |-> [copies[place] EXCEPT !.age = IF @ < Forever THEN @ + 1 ELSE @]]
  BY DEF Minute, PlacesOfCopies
<1>3. ASSUME NEW p \in PlacesOfCopies
      PROVE  [copies[p] EXCEPT !.age = IF @ < Forever THEN @ + 1 ELSE @] \in CopyRecord
  <2> DEFINE old == copies[p]
             age == IF old.age < Forever THEN old.age + 1 ELSE old.age
  <2>1. old \in CopyRecord /\ age \in Int
    BY <1>1, CalendarFacts
  <2> HIDE DEF age
  <2>2. [old EXCEPT !.age = age] \in CopyRecord
    <3> HIDE DEF old
    <3> QED
      BY <2>1 DEF CopyRecord
  <2> QED
    BY <2>2 DEF age
<1>4. copies' \in [PlacesOfCopies -> CopyRecord]
  BY <1>2, <1>3
<1> QED
  BY <1>1, <1>4 DEF CalendarIInv, CalendarShape, CalendarFollowsSearch, ConfirmedEmpty

LEMMA CalendarBegin ==
  ASSUME CalendarInit
  PROVE  CalendarIInv
<1>1. calendar \in CalendarRecord /\ calendar.cache = Unread /\ calendar.inflight = {} /\ calendar.searched = FALSE
  BY NoReadIs DEF CalendarInit, CalendarRecord
<1>2. reads \in [ReadIds -> ReadRecord] /\ asks \in [Asks -> AskRecord] /\ ran \in Nat
  BY NoReadIs DEF CalendarInit, NoAsk, AskRecord
<1>3. copies \in [PlacesOfCopies -> CopyRecord]
  <2>1. Forever \in Int /\ Unread \in Int
    BY CalendarAssumption DEF Forever, Unread
  <2> QED
    BY <2>1 DEF CalendarInit, NothingKept, CopyRecord, PlacesOfCopies
<1> QED
  BY <1>1, <1>2, <1>3 DEF CalendarIInv, CalendarShape, CalendarFollowsSearch, ConfirmedEmpty

LEMMA CalendarStep ==
  ASSUME CalendarIInv, [CalendarNext]_calendarVars
  PROVE  CalendarIInv'
<1>1. CASE UNCHANGED calendarVars
  BY <1>1 DEF calendarVars, CalendarIInv, CalendarShape, CalendarFollowsSearch, ConfirmedEmpty
<1> QED
  BY <1>1, LoadKeeps, AnswerKeeps, EndKeeps, SeekKeeps, SearchedKeeps, RecordKeeps, MinuteKeeps DEF CalendarNext

\* A page's rows follow the last search it recorded, for any number of reads and searches.
THEOREM CalendarHolds == CalendarSpec => []CalendarFollowsSearch
<1>1. CalendarInit => CalendarIInv
  BY CalendarBegin
<1>2. CalendarIInv /\ [CalendarNext]_calendarVars => CalendarIInv'
  BY CalendarStep
<1>3. CalendarIInv => CalendarFollowsSearch
  BY DEF CalendarIInv
<1> QED
  BY <1>1, <1>2, <1>3, PTL DEF CalendarSpec

(***************************************************************************)
(* The record and the overlay                                              *)
(***************************************************************************)

SnapshotSet == {Nothing} \cup [aud : Audiences, ver : Nat, extra : Nat, own : BOOLEAN]
RowSet == [auds : SUBSET Audiences, at : Nat]
TagSet == {NoTag} \cup [aud : Audiences, ver : Nat]
Kinds == {"preview", "restore", "hydrate", "retain"}
OperationSteps == {"begin", "swap", "swapped", "persisting", "preferring", "select"}
OperationSet ==
  [kind : Kinds, snapshot : SnapshotSet, step : OperationSteps, forced : BOOLEAN, before : SnapshotSet]
PollSet == [step : {"off", "asked", "hydrating", "stored"}, tag : TagSet]
SpentSet == [pages : Nat, others : Nat, choices : Nat, failures : Nat]

StoreShape ==
  /\ record \in SnapshotSet /\ overlay \in [Symbols -> RowSet]
  /\ heldFor \in Audiences \cup {"none"} /\ viewer \in Audiences \cup {"unknown"}
  /\ selected \in Symbols \cup {"none"} /\ queue \in Seq(OperationSet)
  /\ poll \in PollSet /\ tag \in TagSet /\ instant \in Nat /\ served \in Nat /\ served <= instant
  /\ spent \in SpentSet

\* Only the first operation has begun, the preview is the first of its page, and a
\* hydration in the queue is the one the poll waits for.
QueueInv ==
  /\ \A i \in 1..Len(queue) : /\ queue[i].step = "begin" => queue[i].forced = FALSE
                              /\ i # 1 => queue[i].step = "begin" /\ queue[i].kind # "preview"
                              /\ queue[i].kind = "hydrate" =>
                                   /\ poll.step = "hydrating" /\ queue[i].snapshot.aud \in Audiences
                                   /\ queue[i].snapshot.aud = poll.tag.aud /\ queue[i].snapshot.ver = poll.tag.ver
  /\ \A i, j \in 1..Len(queue) : queue[i].kind = "hydrate" /\ queue[j].kind = "hydrate" => i = j

Of(rows, aud) == \A s \in Symbols : rows[s].auds \subseteq {aud}

\* Where the running operation is, and what the record and the overlay may be then.
OperationInv(op) ==
  /\ op.step \in {"swap", "swapped"} => /\ record.own = TRUE => record.aud \in {"none", op.snapshot.aud}
                                        /\ op.snapshot = Nothing => op.forced = TRUE /\ op.kind = "restore"
  /\ op.step = "swapped" => Of(overlay, op.snapshot.aud) /\ (op.snapshot = Nothing => overlay = NoRows)
  /\ op.step \in {"persisting", "preferring"} => heldFor = op.snapshot.aud /\ op.snapshot # Nothing /\ op.kind # "preview"
  /\ op.step = "persisting" => /\ op.kind \in {"hydrate", "retain"}
                               /\ op.before.own = TRUE => op.before.aud \in {"none", op.snapshot.aud}
  /\ op.step = "select" => op.kind = "retain"
  /\ op.step = "swap" /\ op.forced = TRUE /\ op.kind # "hydrate" => op.kind = "preview" \/ op.snapshot = Nothing
  /\ op.kind = "preview" /\ op.step \in {"begin", "swap"} => heldFor = "none"
  /\ op.kind = "hydrate" /\ op.step \in {"persisting", "preferring"} =>
       (record.own = TRUE /\ record.aud = op.snapshot.aud => record.ver >= op.snapshot.ver)

HeadInv == queue # <<>> => OperationInv(queue[1])

\* Between the two steps of a replacement the overlay is nobody's.
HeldInv ==
  ~(queue # <<>> /\ queue[1].step = "swapped") =>
    IF heldFor = "none" THEN overlay = NoRows ELSE Of(overlay, heldFor)

\* This tab's record is never beside the other audience's rows.
OwnInv == record.own = TRUE /\ record # Nothing => Of(overlay, record.aud)

\* A record that this tab wrote, or may go back to, is no older than what a tag names.
NoOlder(c) ==
  c.own = TRUE =>
    /\ c.aud = tag.aud => c.ver >= tag.ver
    /\ poll.step \in {"asked", "stored"} /\ c.aud = poll.tag.aud => c.ver >= poll.tag.ver

TagInv ==
  /\ tag.ver <= served /\ poll.tag.ver <= served
  /\ poll.step \in {"hydrating", "stored"} => tag.ver <= poll.tag.ver
  /\ poll.step # "off" => viewer # "unknown"
  /\ poll.step = "asked" /\ poll.tag # NoTag => poll.tag.aud = viewer
  /\ NoOlder(record)
  /\ queue # <<>> /\ queue[1].kind \in {"hydrate", "retain"} /\ queue[1].step \in {"swap", "swapped", "persisting"} =>
       NoOlder(queue[1].snapshot)
  /\ queue # <<>> /\ queue[1].step = "persisting" => NoOlder(queue[1].before)

StoreIInv == StoreShape /\ QueueInv /\ HeadInv /\ HeldInv /\ OwnInv /\ TagInv

LEMMA SnapshotIs ==
  ASSUME NEW c \in SnapshotSet
  PROVE  /\ c.aud \in Audiences \cup {"none"} /\ c.ver \in Nat /\ c.extra \in Nat /\ c.own \in BOOLEAN
         /\ c.aud = "none" <=> c = Nothing
         /\ Nothing.own = TRUE /\ Nothing.aud = "none" /\ Nothing.ver = 0 /\ Nothing.extra = 0 /\ Nothing \in SnapshotSet
         /\ "none" \notin Audiences
<1>1. Nothing = [aud |-> "none", ver |-> 0, extra |-> 0, own |-> TRUE]
  BY DEF Nothing, SnapshotOf
<1>2. Nothing.own = TRUE /\ Nothing.aud = "none" /\ Nothing.ver = 0 /\ Nothing.extra = 0 /\ "none" \notin Audiences
  BY <1>1 DEF Audiences
<1>3. CASE c = Nothing
  <2>1. c.aud = "none" /\ c.ver \in Nat /\ c.extra \in Nat
    BY <1>2, <1>3
  <2>2. c.own \in BOOLEAN
    BY <1>1, <1>3
  <2>3. Nothing \in SnapshotSet
    BY DEF SnapshotSet
  <2> QED
    BY <1>2, <1>3, <2>1, <2>2, <2>3
<1>4. CASE c \in [aud : Audiences, ver : Nat, extra : Nat, own : BOOLEAN]
  <2>1. c.aud \in Audiences /\ c.ver \in Nat /\ c.extra \in Nat /\ c.own \in BOOLEAN
    BY <1>4
  <2>2. c.aud # "none" /\ c # Nothing
    BY <1>2, <2>1
  <2> QED
    BY <1>2, <2>1, <2>2 DEF SnapshotSet
<1>5. c = Nothing \/ c \in [aud : Audiences, ver : Nat, extra : Nat, own : BOOLEAN]
  BY DEF SnapshotSet
<1> QED
  BY <1>3, <1>4, <1>5

LEMMA TagIs ==
  ASSUME NEW g \in TagSet
  PROVE  /\ g.aud \in Audiences \cup {"none"} /\ g.ver \in Nat /\ (g.aud = "none" <=> g = NoTag)
         /\ NoTag.ver = 0 /\ NoTag.aud = "none" /\ NoTag \in TagSet
  BY DEF TagSet, NoTag, Audiences

LEMMA OperationIs ==
  ASSUME NEW op \in OperationSet
  PROVE  /\ op.kind \in Kinds /\ op.snapshot \in SnapshotSet /\ op.step \in OperationSteps
         /\ op.forced \in BOOLEAN /\ op.before \in SnapshotSet
  BY DEF OperationSet

LEMMA PollIs ==
  ASSUME NEW p \in PollSet
  PROVE  p.step \in {"off", "asked", "hydrating", "stored"} /\ p.tag \in TagSet
  BY DEF PollSet

\* The operation that runs goes on; those behind it wait.
LEMMA ContinuesIs ==
  ASSUME queue \in Seq(OperationSet), queue # <<>>, NEW op \in OperationSet, Continues(op)
  PROVE  /\ queue' \in Seq(OperationSet) /\ Len(queue') = Len(queue) /\ queue' # <<>> /\ queue'[1] = op
         /\ Len(queue) \in Nat /\ 1 \in 1..Len(queue)
         /\ \A i \in 1..Len(queue) : i # 1 => queue'[i] = queue[i]
  BY DEF Continues

\* It ends; the next is the first.
LEMMA EndsIs ==
  ASSUME queue \in Seq(OperationSet), queue # <<>>, OpEnds
  PROVE  /\ queue' \in Seq(OperationSet) /\ Len(queue') = Len(queue) - 1 /\ Len(queue) \in Nat
         /\ \A i \in 1..Len(queue') : queue'[i] = queue[i + 1] /\ i + 1 \in 1..Len(queue)
         /\ queue' # <<>> => 1 \in 1..Len(queue') /\ 2 \in 1..Len(queue) /\ queue'[1] = queue[2]
  BY DEF OpEnds

LEMMA QueuesIs ==
  ASSUME queue \in Seq(OperationSet), NEW op \in OperationSet, Queues(op)
  PROVE  /\ queue' \in Seq(OperationSet) /\ Len(queue') = Len(queue) + 1 /\ Len(queue) \in Nat /\ queue' # <<>>
         /\ \A i \in 1..Len(queue) : queue'[i] = queue[i] /\ i \in 1..Len(queue')
         /\ queue'[Len(queue')] = op /\ 1 \in 1..Len(queue')
         /\ queue = <<>> => queue'[1] = op /\ Len(queue) = 0
         /\ queue # <<>> => queue'[1] = queue[1] /\ 1 \in 1..Len(queue)
  BY DEF Queues

\* The first of the queue, as the operators of the module name it.
LEMMA HeadIs ==
  ASSUME StoreShape, queue # <<>>
  PROVE  Head(queue) = queue[1] /\ queue[1] \in OperationSet /\ 1 \in 1..Len(queue) /\ Len(queue) \in Nat
  BY DEF StoreShape

LEMMA RowsAre ==
  ASSUME NEW c \in SnapshotSet
  PROVE  /\ RowsOf(c) \in [Symbols -> RowSet] /\ Of(RowsOf(c), c.aud)
         /\ c = Nothing => RowsOf(c) = NoRows
         /\ c # Nothing => RowsOf(c)["listed"] # NoRow
         /\ NoRows \in [Symbols -> RowSet] /\ \A aud : Of(NoRows, aud)
<1>1. c.aud \in Audiences \cup {"none"} /\ c.ver \in Nat /\ c.extra \in Nat /\ (c.aud = "none" <=> c = Nothing)
  BY SnapshotIs
<1>2. NoRow \in RowSet /\ NoRow.auds = {}
  BY DEF NoRow, RowSet
<1>3. ASSUME NEW s \in Symbols
      PROVE  RowsOf(c)[s] \in RowSet /\ RowsOf(c)[s].auds \subseteq {c.aud}
  BY <1>1, <1>2, <1>3 DEF RowsOf, RowSet
<1>4. RowsOf(c) \in [Symbols -> RowSet]
  BY <1>3 DEF RowsOf
<1>5. c = Nothing => RowsOf(c) = NoRows
  BY DEF RowsOf, NoRows
<1>6. c # Nothing => RowsOf(c)["listed"] # NoRow
  BY <1>1 DEF RowsOf, NoRow, Symbols
<1>7. NoRows \in [Symbols -> RowSet] /\ \A aud : Of(NoRows, aud)
  BY <1>2 DEF NoRows, Of
<1> QED
  BY <1>3, <1>4, <1>5, <1>6, <1>7 DEF Of

\* A replacement leaves the rows of its snapshot's audience alone.
LEMMA SwapsTo ==
  ASSUME StoreShape, HeldInv, ~(queue # <<>> /\ queue[1].step = "swapped"),
         NEW c \in SnapshotSet, NEW forced \in BOOLEAN, c.aud = "none" => forced = TRUE,
         Swaps(RowsOf(c), forced, c.aud)
  PROVE  /\ overlay' \in [Symbols -> RowSet] /\ Of(overlay', c.aud) /\ heldFor' = "none"
         /\ c = Nothing => overlay' = NoRows
         /\ \A s \in Symbols : overlay'[s] = NoRow <=> RowsOf(c)[s] = NoRow
         /\ (forced = FALSE => \A s \in Symbols :
               overlay[s] # NoRow /\ overlay'[s] # NoRow /\ overlay'[s].auds = overlay[s].auds =>
                 overlay'[s].at >= overlay[s].at)
<1> DEFINE rows == RowsOf(c)
<1>1. rows \in [Symbols -> RowSet] /\ Of(rows, c.aud) /\ (c = Nothing => rows = NoRows)
  BY RowsAre
<1>2. overlay \in [Symbols -> RowSet]
  BY DEF StoreShape
<1>3. overlay' = [s \in Symbols |-> IF forced \/ heldFor # c.aud THEN rows[s] ELSE MergedRow(overlay[s], rows[s])]
  BY DEF Swaps, Replaced, ReplacesExisting
<1>4. heldFor' = "none"
  BY DEF Swaps
<1> HIDE DEF rows
<1>5. CASE forced = TRUE \/ heldFor # c.aud
  <2>1. overlay' = rows
    BY <1>1, <1>3, <1>5
  <2>2. ASSUME forced = FALSE, NEW s \in Symbols, overlay[s] # NoRow, overlay'[s] # NoRow, overlay'[s].auds = overlay[s].auds
        PROVE  FALSE
    <3>1. heldFor # c.aud /\ c # Nothing
      BY <1>5, <2>2, SnapshotIs
    <3>2. overlay'[s].auds = {c.aud}
      BY <1>1, <2>1, <2>2, <3>1 DEF rows, RowsOf
    <3>3. heldFor # "none" => overlay[s].auds \subseteq {heldFor}
      BY DEF HeldInv, Of
    <3>4. heldFor = "none" => overlay[s] = NoRow
      BY DEF HeldInv, NoRows
    <3> QED
      BY <2>2, <3>1, <3>2, <3>3, <3>4
  <2> QED
    BY <1>1, <1>4, <2>1, <2>2 DEF rows
<1>6. CASE forced = FALSE /\ heldFor = c.aud
  <2>1. c # Nothing /\ c.aud # "none" /\ Of(overlay, c.aud)
    BY <1>6, SnapshotIs DEF HeldInv
  <2>2. ASSUME NEW s \in Symbols
        PROVE  /\ overlay'[s] \in RowSet /\ overlay'[s].auds \subseteq {c.aud}
               /\ overlay'[s] = NoRow <=> rows[s] = NoRow
               /\ overlay'[s] # NoRow => overlay'[s].at >= overlay[s].at
    <3> DEFINE row == overlay[s]
               next == rows[s]
    <3>1. /\ row \in RowSet /\ next \in RowSet /\ row.auds \subseteq {c.aud} /\ next.auds \subseteq {c.aud}
          /\ overlay'[s] = MergedRow(row, next)
      BY <1>1, <1>2, <1>3, <1>6, <2>1 DEF Of
    <3>2. row.at \in Nat /\ next.at \in Nat /\ row.auds \in SUBSET Audiences /\ next.auds \in SUBSET Audiences
      BY <3>1 DEF RowSet
    <3> HIDE DEF row, next
    <3>3. CASE next # NoRow /\ row.at > next.at
      <4>1. overlay'[s] = [auds |-> next.auds \cup row.auds, at |-> row.at]
        BY <3>1, <3>3 DEF MergedRow
      <4>2. overlay'[s] # NoRow
        BY <3>2, <3>3, <4>1 DEF NoRow
      <4> QED
        BY <3>1, <3>2, <3>3, <4>1, <4>2 DEF RowSet, row, next
    <3>4. CASE ~(next # NoRow /\ row.at > next.at)
      <4>1. overlay'[s] = next
        BY <3>1, <3>4 DEF MergedRow
      <4> QED
        BY <3>1, <3>2, <3>4, <4>1 DEF row, next
    <3> QED
      BY <3>3, <3>4
  <2>3. overlay' \in [Symbols -> RowSet]
    BY <1>3, <2>2
  <2> QED
    BY <1>4, <2>1, <2>2, <2>3 DEF Of, rows
<1> QED
  BY <1>5, <1>6

(***************************************************************************)
(* The steps of the browser's store                                        *)
(***************************************************************************)

\* Steps of the poll, the tags and the server, which leave what is drawn alone.
LEMMA PollSteps ==
  ASSUME StoreIInv, UNCHANGED <<record, overlay, heldFor, queue>>,
         poll' \in PollSet, tag' \in TagSet, selected' \in Symbols \cup {"none"}, spent' \in SpentSet,
         viewer' \in Audiences \cup {"unknown"},
         instant' \in Nat, served' \in Nat, served' <= instant',
         tag'.ver <= served', poll'.tag.ver <= served',
         poll'.step \in {"hydrating", "stored"} => tag'.ver <= poll'.tag.ver,
         poll'.step # "off" => viewer' # "unknown",
         poll'.step = "asked" /\ poll'.tag # NoTag => poll'.tag.aud = viewer',
         poll.step = "hydrating" => poll' = poll,
         \A c \in SnapshotSet : NoOlder(c) => NoOlder(c)'
  PROVE  StoreIInv'
<1>1. StoreShape /\ QueueInv /\ HeadInv /\ HeldInv /\ OwnInv /\ TagInv
  BY DEF StoreIInv
<1>2. StoreShape'
  BY <1>1 DEF StoreShape
<1>3. QueueInv'
  BY <1>1 DEF QueueInv
<1>4. HeadInv' /\ HeldInv' /\ OwnInv'
  BY <1>1 DEF HeadInv, HeldInv, OwnInv, OperationInv, Of
<1>5. TagInv'
  <2>1. record \in SnapshotSet /\ (queue # <<>> => queue[1].snapshot \in SnapshotSet /\ queue[1].before \in SnapshotSet)
    BY <1>1, HeadIs, OperationIs DEF StoreShape
  <2>2. \A c \in SnapshotSet : NoOlder(c) => NoOlder(c)'
    OBVIOUS
  <2>3. NoOlder(record) => NoOlder(record)'
    BY <2>1, <2>2 DEF NoOlder
  <2>4. queue # <<>> => (NoOlder(queue[1].snapshot) => NoOlder(queue[1].snapshot)')
    BY <2>1, <2>2 DEF NoOlder
  <2>5. queue # <<>> => (NoOlder(queue[1].before) => NoOlder(queue[1].before)')
    BY <2>1, <2>2 DEF NoOlder
  <2> QED
    BY <1>1, <2>3, <2>4, <2>5 DEF TagInv
<1> QED
  BY <1>2, <1>3, <1>4, <1>5 DEF StoreIInv

\* An operation joins the queue.
LEMMA QueuesKeep ==
  ASSUME StoreIInv, NEW op \in OperationSet, Queues(op), op.step = "begin", op.forced = FALSE, op.kind # "preview",
         UNCHANGED <<record, overlay, heldFor, selected, instant, served, tag>>,
         poll' \in PollSet, spent' \in SpentSet, viewer' \in Audiences \cup {"unknown"},
         op.kind = "hydrate" => /\ poll'.step = "hydrating" /\ op.snapshot.aud \in Audiences
                                /\ op.snapshot.aud = poll'.tag.aud /\ op.snapshot.ver = poll'.tag.ver
                                /\ poll.step # "hydrating",
         op.kind # "hydrate" => poll' = poll,
         poll'.tag.ver <= served, poll'.step = "hydrating" => tag.ver <= poll'.tag.ver,
         poll' = poll \/ poll'.step = "hydrating",
         viewer' = viewer \/ viewer = "unknown",
         poll'.step # "off" => viewer' # "unknown"
  PROVE  StoreIInv'
<1>1. StoreShape /\ QueueInv /\ HeadInv /\ HeldInv /\ OwnInv /\ TagInv
  BY DEF StoreIInv
<1>2. /\ queue \in Seq(OperationSet)
      /\ queue' \in Seq(OperationSet) /\ Len(queue') = Len(queue) + 1 /\ Len(queue) \in Nat /\ queue' # <<>>
      /\ \A i \in 1..Len(queue) : queue'[i] = queue[i] /\ i \in 1..Len(queue')
      /\ queue'[Len(queue')] = op /\ 1 \in 1..Len(queue')
      /\ queue = <<>> => queue'[1] = op /\ Len(queue) = 0
      /\ queue # <<>> => queue'[1] = queue[1] /\ 1 \in 1..Len(queue)
  BY <1>1, QueuesIs DEF StoreShape
<1>3. StoreShape'
  BY <1>1, <1>2 DEF StoreShape
<1>4. QueueInv'
  <2>1. \A i \in 1..Len(queue') : i \in 1..Len(queue) \/ (i = Len(queue') /\ queue'[i] = op)
    BY <1>2
  <2>2. \A i \in 1..Len(queue) : queue[i].kind = "hydrate" => op.kind # "hydrate" /\ poll' = poll
    BY <1>1 DEF QueueInv
  <2>3. ASSUME NEW i \in 1..Len(queue')
        PROVE  /\ queue'[i].step = "begin" => queue'[i].forced = FALSE
               /\ i # 1 => queue'[i].step = "begin" /\ queue'[i].kind # "preview"
               /\ queue'[i].kind = "hydrate" =>
                    /\ poll'.step = "hydrating" /\ queue'[i].snapshot.aud \in Audiences
                    /\ queue'[i].snapshot.aud = poll'.tag.aud /\ queue'[i].snapshot.ver = poll'.tag.ver
    <3>1. CASE i \in 1..Len(queue)
      BY <1>1, <1>2, <2>2, <3>1 DEF QueueInv
    <3>2. CASE queue'[i] = op
      BY <3>2
    <3> QED
      BY <2>1, <3>1, <3>2
  <2>4. ASSUME NEW i \in 1..Len(queue'), NEW j \in 1..Len(queue'), queue'[i].kind = "hydrate", queue'[j].kind = "hydrate"
        PROVE  i = j
    BY <1>1, <1>2, <2>1, <2>2, <2>4 DEF QueueInv
  <2> QED
    BY <2>3, <2>4 DEF QueueInv
<1>5. HeadInv'
  <2>1. CASE queue = <<>>
    BY <1>2, <2>1 DEF HeadInv, OperationInv
  <2>2. CASE queue # <<>>
    BY <1>1, <1>2, <2>2 DEF HeadInv, OperationInv, Of
  <2> QED
    BY <2>1, <2>2
<1>6. HeldInv'
  BY <1>1, <1>2 DEF HeldInv, Of
<1>7. OwnInv'
  BY <1>1 DEF OwnInv, Of
<1>8. TagInv'
  <2>1. ASSUME NEW c, NoOlder(c), c.own = TRUE
        PROVE  /\ c.aud = tag.aud => c.ver >= tag.ver
               /\ poll'.step \in {"asked", "stored"} /\ c.aud = poll'.tag.aud => c.ver >= poll'.tag.ver
    BY <2>1 DEF NoOlder
  <2>2. NoOlder(record)'
    BY <1>1, <2>1 DEF TagInv, NoOlder
  <2>3. /\ tag'.ver <= served' /\ poll'.tag.ver <= served'
        /\ poll'.step \in {"hydrating", "stored"} => tag'.ver <= poll'.tag.ver
        /\ poll'.step # "off" => viewer' # "unknown"
        /\ poll'.step = "asked" /\ poll'.tag # NoTag => poll'.tag.aud = viewer'
    BY <1>1 DEF TagInv
  <2>4. CASE queue = <<>>
    BY <1>2, <2>2, <2>3, <2>4 DEF TagInv
  <2>5. CASE queue # <<>>
    <3>1. queue'[1] = queue[1]
      BY <1>2, <2>5
    <3>2. NoOlder(queue[1].snapshot) => NoOlder(queue[1].snapshot)'
      BY <2>1, <3>1 DEF NoOlder
    <3>3. NoOlder(queue[1].before) => NoOlder(queue[1].before)'
      BY <2>1, <3>1 DEF NoOlder
    <3> QED
      BY <1>1, <2>2, <2>3, <2>5, <3>1, <3>2, <3>3 DEF TagInv
  <2> QED
    BY <2>4, <2>5
<1> QED
  BY <1>3, <1>4, <1>5, <1>6, <1>7, <1>8 DEF StoreIInv

LEMMA SpendsIs ==
  ASSUME spent \in SpentSet, NEW what \in {"pages", "others", "choices", "failures"}, NEW limit, Spends(what, limit)
  PROVE  /\ spent' \in SpentSet /\ spent'[what] # 0
         /\ \A other \in {"pages", "others", "choices", "failures"} \ {what} : spent'[other] = spent[other]
<1> DEFINE next == spent[what] + 1
<1>1. spent' = [spent EXCEPT ![what] = next]
  BY DEF Spends
<1>2. next \in Nat /\ next # 0
  BY DEF SpentSet
<1> HIDE DEF next
<1> QED
  BY <1>1, <1>2 DEF SpentSet

LEMMA NewOperation ==
  ASSUME NEW kind \in Kinds, NEW c \in SnapshotSet
  PROVE  /\ Operation(kind, c) \in OperationSet /\ Operation(kind, c).kind = kind /\ Operation(kind, c).snapshot = c
         /\ Operation(kind, c).step = "begin" /\ Operation(kind, c).forced = FALSE
  BY SnapshotIs DEF Operation, OperationSet, OperationSteps

LEMMA ResolvedKeeps ==
  ASSUME StoreIInv, Resolved
  PROVE  StoreIInv'
<1>1. /\ StoreShape /\ TagInv /\ viewer = "unknown" /\ viewer' \in Audiences /\ Queues(Operation("restore", Nothing))
      /\ UNCHANGED <<record, overlay, heldFor, selected, poll, tag, instant, served, spent>>
  BY DEF StoreIInv, Resolved
<1>2. poll.step = "off" /\ poll \in PollSet /\ spent \in SpentSet /\ poll.tag.ver <= served /\ record \in SnapshotSet
  BY <1>1 DEF TagInv, StoreShape
<1>3. Nothing \in SnapshotSet
  BY <1>2, SnapshotIs
<1> DEFINE op == Operation("restore", Nothing)
<1>4. op \in OperationSet /\ op.kind = "restore" /\ op.step = "begin" /\ op.forced = FALSE
  BY <1>3, NewOperation DEF Kinds
<1> HIDE DEF op
<1> QED
  BY <1>1, <1>2, <1>4, QueuesKeep DEF op

LEMMA ChooseKeeps ==
  ASSUME StoreIInv, Choose
  PROVE  StoreIInv'
<1>1. /\ StoreShape /\ TagInv /\ viewer # "unknown" /\ Queues(Operation("retain", Nothing)) /\ Spends("choices", MaxChoices)
      /\ UNCHANGED <<record, overlay, heldFor, selected, viewer, poll, tag, instant, served>>
  BY DEF StoreIInv, Choose
<1>2. /\ poll \in PollSet /\ spent \in SpentSet /\ poll.tag.ver <= served /\ record \in SnapshotSet
      /\ (poll.step = "hydrating" => tag.ver <= poll.tag.ver) /\ viewer \in Audiences \cup {"unknown"}
  BY <1>1 DEF TagInv, StoreShape
<1>3. Nothing \in SnapshotSet
  BY <1>2, SnapshotIs
<1>4. spent' \in SpentSet
  BY <1>1, <1>2, SpendsIs
<1> DEFINE op == Operation("retain", Nothing)
<1>5. op \in OperationSet /\ op.kind = "retain" /\ op.step = "begin" /\ op.forced = FALSE
  BY <1>3, NewOperation DEF Kinds
<1> HIDE DEF op
<1> QED
  BY <1>1, <1>2, <1>4, <1>5, QueuesKeep DEF op

LEMMA BodyKeeps ==
  ASSUME StoreIInv, Body
  PROVE  StoreIInv'
<1>1. /\ StoreShape /\ TagInv /\ poll.step = "asked" /\ tag' = tag
      /\ UNCHANGED <<record, overlay, heldFor, selected, viewer, instant, served, spent>>
  BY DEF StoreIInv, Body, TagOnBody
<1>2. /\ poll \in PollSet /\ spent \in SpentSet /\ tag.ver <= served /\ served \in Nat /\ viewer \in Audiences
      /\ viewer # "unknown"
  BY <1>1 DEF TagInv, StoreShape
<1>3. PICK extra \in {0, served} : Queues(Operation("hydrate", SnapshotOf(viewer, served, extra, TRUE)))
  BY DEF Body
<1> DEFINE c == SnapshotOf(viewer, served, extra, TRUE)
           op == Operation("hydrate", c)
           g == [aud |-> viewer, ver |-> served]
           old == poll
           m == [old EXCEPT !.step = "hydrating", !.tag = g]
<1>4. c \in SnapshotSet /\ c.aud = viewer /\ c.ver = served
  BY <1>2 DEF SnapshotOf, SnapshotSet
<1>5. g \in TagSet /\ g.aud = viewer /\ g.ver = served
  BY <1>2 DEF TagSet
<1>6. poll' = m
  BY DEF Body
<1> HIDE DEF c, g
<1>7. m \in PollSet /\ m.step = "hydrating" /\ m.tag = g
  BY <1>2, <1>5 DEF PollSet
<1>8. op \in OperationSet /\ op.kind = "hydrate" /\ op.step = "begin" /\ op.forced = FALSE /\ op.snapshot = c
  BY <1>4, NewOperation DEF Kinds
<1> HIDE DEF m, op
<1>9. Queues(op)
  BY <1>3 DEF op, c
<1>10. /\ poll' \in PollSet /\ poll'.step = "hydrating" /\ poll'.tag.ver <= served /\ tag.ver <= poll'.tag.ver
       /\ op.snapshot.aud \in Audiences /\ op.snapshot.aud = poll'.tag.aud /\ op.snapshot.ver = poll'.tag.ver
       /\ op.kind # "preview" /\ poll.step # "hydrating" /\ poll'.step # "off"
  BY <1>1, <1>2, <1>4, <1>5, <1>6, <1>7, <1>8
<1>11. UNCHANGED <<record, overlay, heldFor, selected, instant, served, tag>> /\ spent' \in SpentSet /\ viewer' = viewer
       /\ viewer' \in Audiences \cup {"unknown"} /\ viewer' # "unknown"
  BY <1>1, <1>2
<1> QED
  BY <1>8, <1>9, <1>10, <1>11, QueuesKeep

LEMMA PollKeeps ==
  ASSUME StoreIInv, Poll
  PROVE  StoreIInv'
<1> DEFINE g == HeldTag
           m == [step |-> "asked", tag |-> g]
<1>1. /\ StoreShape /\ TagInv /\ viewer # "unknown" /\ poll.step = "off" /\ poll' = m
      /\ UNCHANGED <<record, overlay, heldFor, selected, viewer, queue, tag, instant, served, spent>>
  BY DEF StoreIInv, Poll
<1>2. tag \in TagSet /\ tag.ver <= served /\ served \in Nat
  BY <1>1 DEF StoreShape, TagInv
<1>3. g \in TagSet /\ (g = NoTag \/ (g = tag /\ tag.aud = viewer)) /\ NoTag.ver = 0 /\ NoTag.aud = "none"
  BY <1>2, TagIs DEF HeldTag
<1> HIDE DEF g
<1>4. m \in PollSet /\ m.step = "asked" /\ m.tag = g
  BY <1>3 DEF PollSet
<1> HIDE DEF m
<1>5. g.ver <= served
  BY <1>2, <1>3
<1>6. \A c \in SnapshotSet : NoOlder(c) => NoOlder(c)'
  <2> SUFFICES ASSUME NEW c \in SnapshotSet, NoOlder(c), c.own = TRUE
               PROVE  /\ c.aud = tag.aud => c.ver >= tag.ver
                      /\ c.aud = g.aud => c.ver >= g.ver
    BY <1>1, <1>4 DEF NoOlder
  <2>1. c.ver \in Nat
    BY SnapshotIs
  <2> QED
    BY <1>3, <2>1 DEF NoOlder
<1> QED
  BY <1>1, <1>2, <1>3, <1>4, <1>5, <1>6, PollSteps DEF StoreShape

LEMMA UnchangedKeeps ==
  ASSUME StoreIInv, Unchanged
  PROVE  StoreIInv'
<1>1. /\ StoreShape /\ TagInv /\ poll.step = "asked"
      /\ UNCHANGED <<record, overlay, heldFor, selected, viewer, queue, instant, served, spent>>
  BY DEF StoreIInv, Unchanged
<1>2. /\ poll \in PollSet /\ tag \in TagSet /\ tag.ver <= served /\ served \in Nat /\ viewer # "unknown"
      /\ NoTag \in TagSet /\ NoTag.ver = 0 /\ NoTag.aud = "none"
  BY <1>1, TagIs DEF StoreShape, TagInv
<1>3. ASSUME NEW c \in SnapshotSet, c.own = TRUE
      PROVE  c.ver >= NoTag.ver
  <2>1. c.ver \in Nat
    BY SnapshotIs
  <2> QED
    BY <1>2, <2>1
<1>4. CASE poll' = PollOff /\ UNCHANGED tag
  <2>1. PollOff \in PollSet /\ PollOff.step = "off" /\ PollOff.tag = NoTag
    BY <1>2 DEF PollOff, PollSet
  <2>2. \A c \in SnapshotSet : NoOlder(c) => NoOlder(c)'
    BY <1>4, <2>1 DEF NoOlder
  <2> QED
    BY <1>1, <1>2, <1>4, <2>1, <2>2, PollSteps DEF StoreShape
<1>5. CASE poll' = [poll EXCEPT !.tag = NoTag] /\ tag' = NoTag
  <2>1. poll' \in PollSet /\ poll'.step = "asked" /\ poll'.tag = NoTag
    BY <1>1, <1>2, <1>5 DEF PollSet
  <2>2. \A c \in SnapshotSet : NoOlder(c) => NoOlder(c)'
    BY <1>3, <1>5, <2>1 DEF NoOlder
  <2> QED
    BY <1>1, <1>2, <1>5, <2>1, <2>2, PollSteps DEF StoreShape
<1> QED
  BY <1>4, <1>5 DEF Unchanged

LEMMA HydratedKeeps ==
  ASSUME StoreIInv, Hydrated
  PROVE  StoreIInv'
<1>1. /\ StoreShape /\ TagInv /\ poll.step = "stored" /\ poll' = PollOff /\ tag' = poll.tag
      /\ UNCHANGED <<record, overlay, heldFor, selected, viewer, queue, instant, served, spent>>
  BY DEF StoreIInv, Hydrated
<1>2. /\ poll.tag \in TagSet /\ poll.tag.ver <= served /\ served \in Nat /\ tag \in TagSet
      /\ NoTag \in TagSet /\ NoTag.ver = 0 /\ NoTag.aud = "none"
  BY <1>1, TagIs, PollIs DEF StoreShape, TagInv
<1>3. PollOff \in PollSet /\ PollOff.step = "off" /\ PollOff.tag = NoTag
  BY <1>2 DEF PollOff, PollSet
<1>4. \A c \in SnapshotSet : NoOlder(c) => NoOlder(c)'
  BY <1>1, <1>3 DEF NoOlder
<1> QED
  BY <1>1, <1>2, <1>3, <1>4, PollSteps DEF StoreShape

LEMMA PollEndKeeps ==
  ASSUME StoreIInv, PollFails
  PROVE  StoreIInv'
<1>1. /\ StoreShape /\ TagInv /\ poll.step = "asked" /\ poll' = PollOff
      /\ UNCHANGED <<record, overlay, heldFor, selected, viewer, queue, tag, instant, served, spent>>
  BY DEF StoreIInv, PollFails
<1>2. /\ tag.ver <= served /\ served \in Nat /\ tag \in TagSet
      /\ NoTag \in TagSet /\ NoTag.ver = 0 /\ NoTag.aud = "none"
  BY <1>1, TagIs DEF StoreShape, TagInv
<1>3. PollOff \in PollSet /\ PollOff.step = "off" /\ PollOff.tag = NoTag
  BY <1>2 DEF PollOff, PollSet
<1>4. \A c \in SnapshotSet : NoOlder(c) => NoOlder(c)'
  BY <1>1, <1>3 DEF NoOlder
<1> QED
  BY <1>1, <1>2, <1>3, <1>4, PollSteps DEF StoreShape

LEMMA MarketKeeps ==
  ASSUME StoreIInv, MarketMoves \/ ServerRefreshes
  PROVE  StoreIInv'
<1>1. /\ StoreShape /\ TagInv
      /\ UNCHANGED <<record, overlay, heldFor, selected, viewer, queue, poll, tag, spent>>
  BY DEF StoreIInv, MarketMoves, ServerRefreshes
<1>2. /\ instant \in Nat /\ served \in Nat /\ served <= instant /\ poll \in PollSet
      /\ instant' \in Nat /\ served' \in Nat /\ served' <= instant' /\ served <= served'
  BY <1>1 DEF StoreShape, MarketMoves, ServerRefreshes
<1>3. tag.ver \in Nat /\ poll.tag.ver \in Nat
  BY <1>1, TagIs, PollIs DEF StoreShape
<1>4. tag.ver <= served' /\ poll.tag.ver <= served'
  BY <1>1, <1>2, <1>3 DEF TagInv
<1>5. \A c \in SnapshotSet : NoOlder(c) => NoOlder(c)'
  BY <1>1 DEF NoOlder
<1> QED
  BY <1>1, <1>2, <1>4, <1>5, PollSteps DEF StoreShape, TagInv

\* The running operation goes on.
LEMMA GoesOn ==
  ASSUME StoreIInv, queue # <<>>, NEW op \in OperationSet, Continues(op),
         op.kind = queue[1].kind, op.step # "begin", op.kind = "hydrate" => op.snapshot = queue[1].snapshot,
         UNCHANGED <<viewer, poll, tag, instant, served>>,
         record' \in SnapshotSet, overlay' \in [Symbols -> RowSet], heldFor' \in Audiences \cup {"none"},
         selected' \in Symbols \cup {"none"}, spent' \in SpentSet,
         OperationInv(op)', OwnInv',
         op.step # "swapped" => IF heldFor' = "none" THEN overlay' = NoRows ELSE Of(overlay', heldFor'),
         NoOlder(record)',
         op.kind \in {"hydrate", "retain"} /\ op.step \in {"swap", "swapped", "persisting"} => NoOlder(op.snapshot),
         op.step = "persisting" => NoOlder(op.before)
  PROVE  StoreIInv'
<1>1. StoreShape /\ QueueInv /\ TagInv /\ queue \in Seq(OperationSet)
  BY DEF StoreIInv, StoreShape
<1>2. /\ queue' \in Seq(OperationSet) /\ Len(queue') = Len(queue) /\ queue' # <<>> /\ queue'[1] = op
      /\ Len(queue) \in Nat /\ 1 \in 1..Len(queue)
      /\ \A i \in 1..Len(queue) : i # 1 => queue'[i] = queue[i]
  BY <1>1, ContinuesIs
<1>3. StoreShape'
  BY <1>1, <1>2 DEF StoreShape
<1>4. QueueInv'
  <2>1. \A i \in 1..Len(queue) : queue'[i].kind = queue[i].kind /\ (queue[i].kind = "hydrate" => queue'[i].snapshot = queue[i].snapshot)
    BY <1>2
  <2>2. \A i \in 1..Len(queue) : /\ queue'[i].step = "begin" => queue'[i].forced = FALSE
                                 /\ i # 1 => queue'[i].step = "begin" /\ queue'[i].kind # "preview"
    BY <1>1, <1>2 DEF QueueInv
  <2> QED
    BY <1>1, <1>2, <2>1, <2>2 DEF QueueInv
<1>5. HeadInv'
  BY <1>2 DEF HeadInv, OperationInv, Of
<1>6. HeldInv'
  BY <1>2 DEF HeldInv, Of
<1>7. TagInv'
  BY <1>1, <1>2 DEF TagInv, NoOlder
<1> QED
  BY <1>3, <1>4, <1>5, <1>6, <1>7 DEF StoreIInv

\* It ends, and the next waits to begin.
LEMMA EndsThere ==
  ASSUME StoreIInv, queue # <<>>, OpEnds,
         UNCHANGED <<viewer, tag, instant, served>>, poll' \in PollSet, poll' = poll \/ queue[1].kind = "hydrate",
         record' \in SnapshotSet, overlay' \in [Symbols -> RowSet], heldFor' \in Audiences \cup {"none"},
         selected' \in Symbols \cup {"none"}, spent' \in SpentSet,
         OwnInv', IF heldFor' = "none" THEN overlay' = NoRows ELSE Of(overlay', heldFor'),
         NoOlder(record)',
         poll'.tag.ver <= served, poll'.step \in {"hydrating", "stored"} => tag.ver <= poll'.tag.ver,
         poll'.step # "off" => viewer # "unknown",
         poll'.step = "asked" /\ poll'.tag # NoTag => poll'.tag.aud = viewer
  PROVE  StoreIInv'
<1>1. StoreShape /\ QueueInv /\ TagInv /\ queue \in Seq(OperationSet)
  BY DEF StoreIInv, StoreShape
<1>2. /\ queue' \in Seq(OperationSet) /\ Len(queue') = Len(queue) - 1 /\ Len(queue) \in Nat
      /\ \A i \in 1..Len(queue') : queue'[i] = queue[i + 1] /\ i + 1 \in 1..Len(queue)
      /\ queue' # <<>> => 1 \in 1..Len(queue') /\ 2 \in 1..Len(queue) /\ queue'[1] = queue[2]
  BY <1>1, EndsIs
<1>3. StoreShape'
  BY <1>1, <1>2 DEF StoreShape
<1>4. ASSUME NEW i \in 1..Len(queue')
      PROVE  /\ queue'[i].step = "begin" /\ queue'[i].kind # "preview" /\ queue'[i].forced = FALSE
             /\ queue'[i].kind = "hydrate" =>
                  /\ poll' = poll /\ poll.step = "hydrating" /\ queue'[i].snapshot.aud \in Audiences
                  /\ queue'[i].snapshot.aud = poll.tag.aud /\ queue'[i].snapshot.ver = poll.tag.ver
  <2>1. i + 1 \in 1..Len(queue) /\ queue'[i] = queue[i + 1] /\ i + 1 # 1 /\ 1 \in 1..Len(queue)
    BY <1>2
  <2> QED
    BY <1>1, <2>1 DEF QueueInv
<1>5. QueueInv'
  <2>1. ASSUME NEW i \in 1..Len(queue'), NEW j \in 1..Len(queue'), queue'[i].kind = "hydrate", queue'[j].kind = "hydrate"
        PROVE  i = j
    <3>1. i + 1 \in 1..Len(queue) /\ queue'[i] = queue[i + 1] /\ j + 1 \in 1..Len(queue) /\ queue'[j] = queue[j + 1]
      BY <1>2
    <3>2. i + 1 = j + 1
      BY <1>1, <2>1, <3>1 DEF QueueInv
    <3> QED
      BY <3>2
  <2> QED
    BY <1>4, <2>1 DEF QueueInv
<1>6. queue' # <<>> => queue'[1].step = "begin" /\ queue'[1].kind # "preview"
  BY <1>2, <1>4
<1>7. HeadInv'
  BY <1>6 DEF HeadInv, OperationInv
<1>8. HeldInv'
  BY <1>6 DEF HeldInv, Of
<1>9. TagInv'
  BY <1>1, <1>6 DEF TagInv
<1> QED
  BY <1>3, <1>5, <1>7, <1>8, <1>9 DEF StoreIInv

\* What the settling of a poll may leave.
LEMMA SettlesTo ==
  ASSUME StoreIInv, queue # <<>>, NEW step \in {"off", "stored"}, Settles(step)
  PROVE  /\ queue[1].kind # "hydrate" => poll' = poll
         /\ queue[1].kind = "hydrate" /\ step = "off" => poll' = PollOff
         /\ queue[1].kind = "hydrate" /\ step = "stored" => poll' = [poll EXCEPT !.step = "stored"]
         /\ PollOff \in PollSet /\ PollOff.step = "off" /\ PollOff.tag = NoTag /\ NoTag.ver = 0
<1>1. Head(queue) = queue[1] /\ tag \in TagSet
  BY HeadIs DEF StoreIInv, StoreShape
<1>2. NoTag \in TagSet /\ NoTag.ver = 0
  BY <1>1, TagIs
<1>3. PollOff \in PollSet /\ PollOff.step = "off" /\ PollOff.tag = NoTag
  BY <1>2 DEF PollOff, PollSet
<1> QED
  BY <1>1, <1>2, <1>3 DEF Settles, Running

\* An operation that fails leaves the poll as it was, or off.
LEMMA FailsThere ==
  ASSUME StoreIInv, queue # <<>>, OpEnds, Settles("off"),
         UNCHANGED <<viewer, tag, instant, served>>,
         record' \in SnapshotSet, UNCHANGED <<overlay, heldFor>>, queue[1].step # "swapped",
         selected' \in Symbols \cup {"none"}, spent' \in SpentSet,
         OwnInv', NoOlder(record')
  PROVE  StoreIInv'
<1>1. StoreShape /\ TagInv /\ HeldInv /\ served \in Nat /\ poll \in PollSet
  BY DEF StoreIInv, StoreShape
<1>2. /\ poll' = poll \/ (queue[1].kind = "hydrate" /\ poll' = PollOff)
      /\ PollOff \in PollSet /\ PollOff.step = "off" /\ PollOff.tag = NoTag /\ NoTag.ver = 0
  BY SettlesTo
<1>3. NoOlder(record)'
  BY <1>2 DEF NoOlder
<1>4. IF heldFor' = "none" THEN overlay' = NoRows ELSE Of(overlay', heldFor')
  BY <1>1 DEF HeldInv
<1> QED
  BY <1>1, <1>2, <1>3, <1>4, EndsThere DEF StoreShape, TagInv

LEMMA HeadFacts ==
  ASSUME StoreIInv, queue # <<>>
  PROVE  /\ StoreShape /\ QueueInv /\ HeldInv /\ OwnInv /\ TagInv /\ OperationInv(queue[1]) /\ Head(queue) = queue[1]
         /\ queue[1] \in OperationSet /\ queue[1].kind \in Kinds /\ queue[1].snapshot \in SnapshotSet
         /\ queue[1].step \in OperationSteps /\ queue[1].forced \in BOOLEAN /\ queue[1].before \in SnapshotSet
         /\ queue[1].step = "begin" => queue[1].forced = FALSE
         /\ queue[1].kind = "hydrate" =>
              /\ poll.step = "hydrating" /\ queue[1].snapshot.aud \in Audiences
              /\ queue[1].snapshot.aud = poll.tag.aud /\ queue[1].snapshot.ver = poll.tag.ver
<1>1. StoreShape /\ QueueInv /\ HeldInv /\ OwnInv /\ TagInv /\ HeadInv
  BY DEF StoreIInv
<1>2. Head(queue) = queue[1] /\ queue[1] \in OperationSet /\ 1 \in 1..Len(queue)
  BY <1>1, HeadIs
<1> QED
  BY <1>1, <1>2, OperationIs DEF QueueInv, HeadInv

\* The running operation, at another step.
LEMMA AtStepIs ==
  ASSUME StoreIInv, queue # <<>>, NEW step \in OperationSteps
  PROVE  \E m \in OperationSet : /\ m = AtStep(step) /\ m.kind = queue[1].kind /\ m.snapshot = queue[1].snapshot
                                 /\ m.step = step /\ m.forced = queue[1].forced /\ m.before = queue[1].before
<1> DEFINE old == queue[1]
           m == [old EXCEPT !.step = step]
<1>1. old \in OperationSet /\ AtStep(step) = m
  BY HeadFacts DEF AtStep
<1> HIDE DEF old
<1>2. m \in OperationSet /\ m.kind = old.kind /\ m.snapshot = old.snapshot /\ m.step = step /\ m.forced = old.forced /\ m.before = old.before
  BY <1>1 DEF OperationSet
<1> QED
  BY <1>1, <1>2 DEF old

LEMMA SwapKeeps ==
  ASSUME StoreIInv, Swap
  PROVE  StoreIInv'
<1>1. queue # <<>> /\ Head(queue).step = "swap"
  BY DEF Swap, Running
<1>2. /\ StoreShape /\ HeldInv /\ OwnInv /\ TagInv /\ OperationInv(queue[1]) /\ Head(queue) = queue[1]
      /\ queue[1].snapshot \in SnapshotSet /\ queue[1].forced \in BOOLEAN /\ record \in SnapshotSet
      /\ queue[1].kind \in Kinds
  BY <1>1, HeadFacts DEF StoreShape
<1>3. /\ Swaps(RowsOf(queue[1].snapshot), queue[1].forced, queue[1].snapshot.aud) /\ queue[1].step = "swap"
      /\ Continues(AtStep("swapped"))
      /\ UNCHANGED <<record, selected, viewer, poll, tag, instant, served, spent>>
  BY <1>1, <1>2 DEF Swap
<1>4. queue[1].snapshot.aud = "none" => queue[1].snapshot = Nothing /\ queue[1].forced = TRUE
  BY <1>2, <1>3, SnapshotIs DEF OperationInv
<1>5. PICK m \in OperationSet : /\ m = AtStep("swapped") /\ m.kind = queue[1].kind /\ m.snapshot = queue[1].snapshot
                                /\ m.step = "swapped" /\ m.forced = queue[1].forced
  BY <1>1, AtStepIs DEF OperationSteps
<1>6. /\ overlay' \in [Symbols -> RowSet] /\ Of(overlay', m.snapshot.aud) /\ heldFor' = "none"
      /\ m.snapshot = Nothing => overlay' = NoRows
  BY <1>2, <1>3, <1>4, <1>5, SwapsTo
<1>7. OperationInv(m)'
  BY <1>2, <1>3, <1>5, <1>6 DEF OperationInv, Of
<1>8. OwnInv'
  <2>1. record.own = TRUE /\ record # Nothing => record.aud = m.snapshot.aud
    BY <1>2, <1>3, <1>5, SnapshotIs DEF OperationInv
  <2> QED
    BY <1>3, <1>6, <2>1 DEF OwnInv, Of
<1>9. /\ NoOlder(record)' /\ (m.kind \in {"hydrate", "retain"} => NoOlder(m.snapshot))
  BY <1>1, <1>2, <1>3, <1>5 DEF TagInv, NoOlder
<1> QED
  BY <1>1, <1>2, <1>3, <1>5, <1>6, <1>7, <1>8, <1>9, GoesOn DEF StoreShape

LEMMA BeginHydrateKeeps ==
  ASSUME StoreIInv, BeginHydrate
  PROVE  StoreIInv'
<1>1. queue # <<>> /\ Head(queue).step = "begin" /\ Head(queue).kind = "hydrate"
  BY DEF BeginHydrate, Running
<1>2. /\ StoreShape /\ HeldInv /\ OwnInv /\ TagInv /\ OperationInv(queue[1]) /\ Head(queue) = queue[1]
      /\ queue[1].snapshot \in SnapshotSet /\ record \in SnapshotSet /\ queue[1].forced = FALSE
      /\ poll.step = "hydrating" /\ queue[1].snapshot.aud \in Audiences
      /\ queue[1].snapshot.aud = poll.tag.aud /\ queue[1].snapshot.ver = poll.tag.ver
  BY <1>1, HeadFacts DEF StoreShape
<1>3. UNCHANGED <<overlay, heldFor, selected, viewer, poll, tag, instant, served, spent>>
  BY DEF BeginHydrate
<1>4. PICK m \in OperationSet : /\ Continues(m) /\ m.kind = "hydrate" /\ m.snapshot = queue[1].snapshot /\ m.step = "swap"
  <2>1. PICK n \in OperationSet : /\ n = AtStep("swap") /\ n.kind = queue[1].kind /\ n.snapshot = queue[1].snapshot
                                  /\ n.step = "swap"
    BY <1>1, AtStepIs DEF OperationSteps
  <2>2. [n EXCEPT !.forced = TRUE] \in OperationSet
    BY DEF OperationSet
  <2>3. /\ [n EXCEPT !.forced = TRUE].kind = n.kind /\ [n EXCEPT !.forced = TRUE].snapshot = n.snapshot
        /\ [n EXCEPT !.forced = TRUE].step = n.step
    BY DEF OperationSet
  <2>4. Continues([n EXCEPT !.forced = TRUE]) \/ Continues(n)
    BY <2>1 DEF BeginHydrate
  <2> QED
    BY <1>1, <1>2, <2>1, <2>2, <2>3, <2>4
<1>5. \/ record' = record /\ record.aud \in {"none", m.snapshot.aud}
      \/ record' = Nothing
  BY <1>2, <1>4, SnapshotIs DEF BeginHydrate
<1>6. record' \in SnapshotSet /\ record'.aud \in {"none", m.snapshot.aud} /\ (record'.own = TRUE /\ record' # Nothing => record' = record)
  BY <1>2, <1>5, SnapshotIs
<1>7. m.snapshot # Nothing
  BY <1>2, <1>4, SnapshotIs
<1>8. OperationInv(m)'
  BY <1>4, <1>6, <1>7 DEF OperationInv
<1>9. OwnInv'
  BY <1>2, <1>3, <1>6 DEF OwnInv, Of
<1>10. IF heldFor' = "none" THEN overlay' = NoRows ELSE Of(overlay', heldFor')
  BY <1>1, <1>2, <1>3 DEF HeldInv, Of
<1>11. NoOlder(Nothing) /\ NoOlder(record)
  <2>1. Nothing.aud = "none" /\ Nothing.ver = 0 /\ tag \in TagSet /\ poll.tag \in TagSet
    BY <1>2, SnapshotIs, PollIs DEF StoreShape
  <2>2. (tag.aud = "none" => tag.ver = 0) /\ (poll.tag.aud = "none" => poll.tag.ver = 0)
    BY <2>1, TagIs
  <2> QED
    BY <1>2, <2>1, <2>2 DEF NoOlder, TagInv
<1>12. NoOlder(record)'
  BY <1>3, <1>5, <1>11 DEF NoOlder
<1>13. NoOlder(m.snapshot)
  BY <1>2, <1>4, PollIs, TagIs DEF NoOlder, TagInv, StoreShape
<1> QED
  BY <1>1, <1>2, <1>3, <1>4, <1>6, <1>8, <1>9, <1>10, <1>12, <1>13, GoesOn DEF StoreShape

LEMMA NothingIsNoOlder ==
  ASSUME StoreShape
  PROVE  NoOlder(Nothing)
<1>1. Nothing.aud = "none" /\ Nothing.ver = 0 /\ tag \in TagSet /\ poll.tag \in TagSet
  BY SnapshotIs, PollIs DEF StoreShape
<1>2. (tag.aud = "none" => tag.ver = 0) /\ (poll.tag.aud = "none" => poll.tag.ver = 0)
  BY <1>1, TagIs
<1> QED
  BY <1>1, <1>2 DEF NoOlder

LEMMA HydrateFailsKeeps ==
  ASSUME StoreIInv, HydrateFails
  PROVE  StoreIInv'
<1>1. queue # <<>> /\ Head(queue).step = "begin"
  BY DEF HydrateFails, Running
<1>2. /\ StoreShape /\ OwnInv /\ TagInv /\ Head(queue) = queue[1] /\ spent \in SpentSet
  BY <1>1, HeadFacts DEF StoreShape
<1>3. /\ StoreFails /\ OpEnds /\ Settles("off")
      /\ UNCHANGED <<record, overlay, heldFor, selected, viewer, tag, instant, served>>
  BY DEF HydrateFails
<1>4. spent' \in SpentSet
  BY <1>2, <1>3, SpendsIs DEF StoreFails
<1>5. OwnInv' /\ NoOlder(record')
  BY <1>2, <1>3 DEF OwnInv, Of, TagInv
<1> QED
  BY <1>1, <1>2, <1>3, <1>4, <1>5, FailsThere DEF StoreShape

LEMMA SwappedKeeps ==
  ASSUME StoreIInv, Swapped
  PROVE  StoreIInv'
<1>1. queue # <<>> /\ Head(queue).step = "swapped"
  BY DEF Swapped, Running
<1>2. /\ StoreShape /\ HeldInv /\ OwnInv /\ TagInv /\ OperationInv(queue[1]) /\ Head(queue) = queue[1]
      /\ queue[1].snapshot \in SnapshotSet /\ record \in SnapshotSet /\ queue[1].kind \in Kinds
      /\ queue[1].step = "swapped" /\ poll \in PollSet
  BY <1>1, HeadFacts DEF StoreShape
<1> DEFINE c == queue[1].snapshot
<1>3. /\ heldFor' = c.aud /\ UNCHANGED <<overlay, selected, viewer, poll, tag, instant, served, spent>>
  BY <1>2 DEF Swapped
<1>4. /\ heldFor' \in Audiences \cup {"none"} /\ Of(overlay, c.aud)
      /\ IF heldFor' = "none" THEN overlay' = NoRows ELSE Of(overlay', heldFor')
  BY <1>2, <1>3, SnapshotIs DEF OperationInv, Of
<1>5. CASE queue[1].kind \in {"hydrate", "retain"}
  <2>1. record' = c /\ Continues([AtStep("persisting") EXCEPT !.before = record])
    BY <1>2, <1>5 DEF Swapped
  <2>2. c # Nothing /\ c.aud # "none"
    BY <1>2, <1>5, SnapshotIs DEF OperationInv
  <2>3. PICK m \in OperationSet : /\ Continues(m) /\ m.kind = queue[1].kind /\ m.snapshot = c /\ m.step = "persisting"
                                  /\ m.before = record
    <3>1. PICK n \in OperationSet : /\ n = AtStep("persisting") /\ n.kind = queue[1].kind /\ n.snapshot = queue[1].snapshot
                                    /\ n.step = "persisting"
      BY <1>1, AtStepIs DEF OperationSteps
    <3>2. [n EXCEPT !.before = record] \in OperationSet
      BY <1>2 DEF OperationSet
    <3>3. /\ [n EXCEPT !.before = record].kind = n.kind /\ [n EXCEPT !.before = record].snapshot = n.snapshot
          /\ [n EXCEPT !.before = record].step = n.step /\ [n EXCEPT !.before = record].before = record
      BY DEF OperationSet
    <3> QED
      BY <2>1, <3>1, <3>2, <3>3
  <2>4. OperationInv(m)'
    <3>1. record.own = TRUE => record.aud \in {"none", c.aud}
      BY <1>2 DEF OperationInv
    <3>2. c.ver \in Nat
      BY <1>2, SnapshotIs
    <3> QED
      BY <1>3, <1>5, <2>1, <2>2, <2>3, <3>1, <3>2 DEF OperationInv
  <2>5. OwnInv'
    BY <1>3, <1>4, <2>1 DEF OwnInv, Of
  <2>6. NoOlder(c) /\ NoOlder(record)
    BY <1>1, <1>2, <1>5 DEF TagInv
  <2>7. NoOlder(record)'
    BY <1>3, <2>1, <2>6 DEF NoOlder
  <2> QED
    BY <1>1, <1>2, <1>3, <1>4, <1>5, <2>1, <2>3, <2>4, <2>5, <2>6, <2>7, GoesOn DEF StoreShape
<1>6. CASE queue[1].kind \notin {"hydrate", "retain"}
  <2>1. /\ UNCHANGED record
        /\ \/ queue[1].kind = "restore" /\ c # Nothing /\ Continues(AtStep("preferring"))
           \/ OpEnds
    BY <1>2, <1>6 DEF Swapped
  <2>2. OwnInv' /\ NoOlder(record)'
    BY <1>2, <1>3, <2>1 DEF OwnInv, Of, TagInv, NoOlder
  <2>3. CASE queue[1].kind = "restore" /\ c # Nothing /\ Continues(AtStep("preferring"))
    <3>1. PICK m \in OperationSet : /\ m = AtStep("preferring") /\ m.kind = queue[1].kind /\ m.snapshot = queue[1].snapshot
                                    /\ m.step = "preferring"
      BY <1>1, AtStepIs DEF OperationSteps
    <3>2. OperationInv(m)'
      BY <1>3, <2>3, <3>1 DEF OperationInv
    <3> QED
      BY <1>1, <1>2, <1>3, <1>4, <2>1, <2>2, <2>3, <3>1, <3>2, GoesOn DEF StoreShape
  <2>4. CASE OpEnds
    BY <1>1, <1>2, <1>3, <1>4, <2>1, <2>2, <2>4, EndsThere DEF StoreShape, TagInv
  <2> QED
    BY <2>1, <2>3, <2>4
<1> QED
  BY <1>5, <1>6

LEMMA PersistKeeps ==
  ASSUME StoreIInv, Persist
  PROVE  StoreIInv'
<1>1. queue # <<>> /\ Head(queue).step = "persisting"
  BY DEF Persist, Running
<1>2. /\ StoreShape /\ HeldInv /\ OwnInv /\ TagInv /\ OperationInv(queue[1]) /\ Head(queue) = queue[1]
      /\ queue[1].snapshot \in SnapshotSet /\ record \in SnapshotSet /\ queue[1].before \in SnapshotSet
      /\ queue[1].step = "persisting" /\ spent \in SpentSet
  BY <1>1, HeadFacts DEF StoreShape
<1>3. UNCHANGED <<overlay, heldFor, selected, viewer, tag, instant, served>>
  BY DEF Persist
<1>4. heldFor = queue[1].snapshot.aud /\ heldFor # "none" /\ Of(overlay, heldFor)
  BY <1>1, <1>2, SnapshotIs DEF OperationInv, HeldInv
<1>5. CASE Continues(AtStep("preferring")) /\ UNCHANGED <<record, poll, spent>>
  <2>1. PICK m \in OperationSet : /\ m = AtStep("preferring") /\ m.kind = queue[1].kind /\ m.snapshot = queue[1].snapshot
                                  /\ m.step = "preferring"
    BY <1>1, AtStepIs DEF OperationSteps
  <2>2. OperationInv(m)'
    BY <1>2, <1>3, <1>5, <2>1 DEF OperationInv
  <2>3. OwnInv' /\ NoOlder(record)'
    BY <1>2, <1>3, <1>5 DEF OwnInv, Of, TagInv, NoOlder
  <2>4. IF heldFor' = "none" THEN overlay' = NoRows ELSE Of(overlay', heldFor')
    BY <1>3, <1>4
  <2> QED
    BY <1>1, <1>2, <1>3, <1>5, <2>1, <2>2, <2>3, <2>4, GoesOn DEF StoreShape
<1>6. CASE /\ StoreFails /\ OpEnds /\ Settles("off")
           /\ record' = IF record = Head(queue).snapshot THEN Head(queue).before ELSE record
  <2>1. spent' \in SpentSet
    BY <1>2, <1>6, SpendsIs DEF StoreFails
  <2>2. record' \in SnapshotSet /\ (record' = record \/ record' = queue[1].before)
    BY <1>2, <1>6
  <2>3. NoOlder(record')
    BY <1>1, <1>2, <2>2 DEF TagInv
  <2>4. OwnInv'
    <3>1. CASE record' = record
      BY <1>2, <1>3, <3>1 DEF OwnInv, Of
    <3>2. CASE record' = queue[1].before
      <4>1. record'.own = TRUE /\ record' # Nothing => record'.aud = heldFor
        BY <1>2, <1>4, <3>2, SnapshotIs DEF OperationInv
      <4> QED
        BY <1>3, <1>4, <4>1 DEF OwnInv, Of
    <3> QED
      BY <2>2, <3>1, <3>2
  <2> QED
    BY <1>1, <1>2, <1>3, <1>6, <2>1, <2>2, <2>3, <2>4, FailsThere DEF StoreShape
<1> QED
  BY <1>5, <1>6 DEF Persist

LEMMA PreferKeeps ==
  ASSUME StoreIInv, Prefer
  PROVE  StoreIInv'
<1>1. queue # <<>> /\ Head(queue).step = "preferring"
  BY DEF Prefer, Running
<1>2. /\ StoreShape /\ HeldInv /\ OwnInv /\ TagInv /\ OperationInv(queue[1]) /\ Head(queue) = queue[1]
      /\ queue[1].snapshot \in SnapshotSet /\ record \in SnapshotSet /\ queue[1].step = "preferring"
      /\ spent \in SpentSet /\ poll \in PollSet /\ selected \in Symbols \cup {"none"}
      /\ queue[1].kind = "hydrate" =>
           /\ poll.step = "hydrating" /\ queue[1].snapshot.aud \in Audiences
           /\ queue[1].snapshot.aud = poll.tag.aud /\ queue[1].snapshot.ver = poll.tag.ver
  BY <1>1, HeadFacts DEF StoreShape
<1>3. UNCHANGED <<record, overlay, heldFor, viewer, tag, instant, served>>
  BY DEF Prefer
<1>4. OwnInv' /\ NoOlder(record) /\ IF heldFor' = "none" THEN overlay' = NoRows ELSE Of(overlay', heldFor')
  BY <1>1, <1>2, <1>3 DEF HeldInv, OwnInv, Of, TagInv
<1>5. CASE /\ selected' = Preferred(Head(queue).snapshot) /\ UNCHANGED spent
           /\ IF Head(queue).kind = "retain" THEN Continues(AtStep("select")) ELSE OpEnds
           /\ Settles("stored")
  <2>1. selected' \in Symbols \cup {"none"}
    BY <1>2, <1>5 DEF Preferred, Symbols
  <2>2. /\ queue[1].kind # "hydrate" => poll' = poll
        /\ queue[1].kind = "hydrate" => poll' = [poll EXCEPT !.step = "stored"]
    BY <1>1, <1>5, SettlesTo
  <2>3. CASE queue[1].kind = "retain"
    <3>1. PICK m \in OperationSet : /\ m = AtStep("select") /\ m.kind = queue[1].kind /\ m.snapshot = queue[1].snapshot
                                    /\ m.step = "select"
      BY <1>1, AtStepIs DEF OperationSteps
    <3>2. OperationInv(m)'
      BY <2>3, <3>1 DEF OperationInv
    <3>3. poll' = poll /\ NoOlder(record)'
      BY <1>3, <1>4, <2>2, <2>3 DEF NoOlder
    <3> QED
      BY <1>1, <1>2, <1>3, <1>4, <1>5, <2>1, <2>3, <3>1, <3>2, <3>3, GoesOn DEF StoreShape
  <2>4. CASE queue[1].kind = "hydrate"
    <3> DEFINE old == poll
               m == [old EXCEPT !.step = "stored"]
    <3>1. old \in PollSet /\ poll' = m
      BY <1>2, <2>2, <2>4
    <3> HIDE DEF old
    <3>2. m \in PollSet /\ m.step = "stored" /\ m.tag = old.tag
      BY <3>1 DEF PollSet
    <3>3. poll' \in PollSet /\ poll'.step = "stored" /\ poll'.tag = poll.tag
      BY <3>1, <3>2 DEF old
    <3>4. NoOlder(record)'
      BY <1>2, <1>3, <1>4, <2>4, <3>3 DEF NoOlder, OperationInv
    <3>5. poll.tag.ver <= served /\ tag.ver <= poll.tag.ver /\ viewer # "unknown"
      BY <1>2, <2>4 DEF TagInv
    <3> QED
      BY <1>1, <1>2, <1>3, <1>4, <1>5, <2>1, <2>4, <3>3, <3>4, <3>5, EndsThere DEF StoreShape
  <2>5. CASE queue[1].kind \notin {"retain", "hydrate"}
    <3>1. poll' = poll /\ NoOlder(record)' /\ OpEnds
      BY <1>2, <1>3, <1>4, <1>5, <2>2, <2>5 DEF NoOlder
    <3> QED
      BY <1>1, <1>2, <1>3, <1>4, <1>5, <2>1, <3>1, EndsThere DEF StoreShape, TagInv
  <2> QED
    BY <2>3, <2>4, <2>5
<1>6. CASE StoreFails /\ OpEnds /\ Settles("off") /\ UNCHANGED selected
  <2>1. spent' \in SpentSet
    BY <1>2, <1>6, SpendsIs DEF StoreFails
  <2>2. NoOlder(record')
    BY <1>3, <1>4
  <2> QED
    BY <1>1, <1>2, <1>3, <1>4, <1>6, <2>1, <2>2, FailsThere DEF StoreShape
<1> QED
  BY <1>5, <1>6 DEF Prefer

\* A step that only ends the operation.
LEMMA JustEnds ==
  ASSUME StoreIInv, queue # <<>>, OpEnds, queue[1].step # "swapped",
         UNCHANGED <<record, overlay, heldFor, viewer, poll, tag, instant, served>>,
         selected' \in Symbols \cup {"none"}, spent' \in SpentSet
  PROVE  StoreIInv'
<1>1. StoreShape /\ HeldInv /\ OwnInv /\ TagInv
  BY DEF StoreIInv
<1>2. OwnInv' /\ NoOlder(record)' /\ IF heldFor' = "none" THEN overlay' = NoRows ELSE Of(overlay', heldFor')
  BY <1>1 DEF HeldInv, OwnInv, Of, TagInv, NoOlder
<1> QED
  BY <1>1, <1>2, EndsThere DEF StoreShape, TagInv

\* An operation with its snapshot begins to replace rows.
LEMMA ToSwap ==
  ASSUME StoreIInv, queue # <<>>, queue[1].step = "begin", queue[1].kind # "hydrate",
         NEW c \in SnapshotSet, NEW m \in OperationSet, m.kind = queue[1].kind, m.snapshot = c, m.step = "swap",
         Continues(m), UNCHANGED <<overlay, heldFor, selected, viewer, poll, tag, instant, served, spent>>,
         record' = record \/ record' = Nothing,
         record'.own = TRUE => record'.aud \in {"none", c.aud},
         c = Nothing => m.forced = TRUE /\ m.kind = "restore",
         m.forced = TRUE => m.kind = "preview" \/ c = Nothing,
         m.kind = "retain" => NoOlder(c)
  PROVE  StoreIInv'
<1>1. /\ StoreShape /\ HeldInv /\ OwnInv /\ TagInv /\ OperationInv(queue[1]) /\ record \in SnapshotSet
      /\ Nothing \in SnapshotSet
  BY HeadFacts, SnapshotIs DEF StoreShape
<1>2. OperationInv(m)'
  BY <1>1 DEF OperationInv
<1>3. OwnInv' /\ IF heldFor' = "none" THEN overlay' = NoRows ELSE Of(overlay', heldFor')
  BY <1>1 DEF HeldInv, OwnInv, Of
<1>4. NoOlder(record) /\ NoOlder(Nothing)
  BY <1>1, NothingIsNoOlder DEF TagInv
<1>5. NoOlder(record)'
  BY <1>4 DEF NoOlder
<1> QED
  BY <1>1, <1>2, <1>3, <1>5, GoesOn DEF StoreShape

LEMMA BeginPreviewKeeps ==
  ASSUME StoreIInv, BeginPreview
  PROVE  StoreIInv'
<1>1. queue # <<>> /\ Head(queue).step = "begin" /\ Head(queue).kind = "preview"
  BY DEF BeginPreview, Running
<1>2. /\ StoreShape /\ Head(queue) = queue[1] /\ record \in SnapshotSet
      /\ UNCHANGED <<record, overlay, heldFor, selected, viewer, poll, tag, instant, served, spent>>
  BY <1>1, HeadFacts DEF StoreShape, BeginPreview
<1>3. CASE record.aud = "public"
  <2>1. PICK n \in OperationSet : /\ n = AtStep("swap") /\ n.kind = "preview" /\ n.step = "swap"
    BY <1>1, <1>2, AtStepIs DEF OperationSteps
  <2> DEFINE m == [n EXCEPT !.snapshot = record, !.forced = TRUE]
  <2>2. Continues(m)
    BY <1>3, <2>1 DEF BeginPreview
  <2>3. m \in OperationSet /\ m.kind = "preview" /\ m.snapshot = record /\ m.step = "swap" /\ m.forced = TRUE
    BY <1>2, <2>1 DEF OperationSet
  <2> HIDE DEF m
  <2>4. record # Nothing /\ record.aud \in {"none", record.aud}
    BY <1>2, <1>3, SnapshotIs
  <2> QED
    BY <1>1, <1>2, <2>2, <2>3, <2>4, ToSwap
<1>4. CASE record.aud # "public"
  <2>1. OpEnds
    BY <1>4 DEF BeginPreview
  <2> QED
    BY <1>1, <1>2, <2>1, JustEnds DEF StoreShape
<1> QED
  BY <1>3, <1>4

LEMMA BeginRestoreKeeps ==
  ASSUME StoreIInv, BeginRestore
  PROVE  StoreIInv'
<1>1. queue # <<>> /\ Head(queue).step = "begin" /\ Head(queue).kind = "restore"
  BY DEF BeginRestore, Running
<1>2. /\ StoreShape /\ Head(queue) = queue[1] /\ record \in SnapshotSet /\ spent \in SpentSet /\ queue[1].forced = FALSE
      /\ viewer \in Audiences \cup {"unknown"} /\ OwnInv /\ TagInv
      /\ UNCHANGED <<overlay, heldFor, selected, viewer, poll, tag, instant, served>>
  BY <1>1, HeadFacts DEF StoreShape, BeginRestore
<1>3. PICK n \in OperationSet : n = AtStep("swap") /\ n.kind = "restore" /\ n.step = "swap" /\ n.forced = FALSE
  BY <1>1, <1>2, AtStepIs DEF OperationSteps
<1>4. /\ Nothing \in SnapshotSet /\ Nothing.aud = "none" /\ "none" \notin Audiences /\ (record.aud = "none" <=> record = Nothing)
  BY <1>2, SnapshotIs
<1>5. CASE record.aud = viewer /\ Continues([AtStep("swap") EXCEPT !.snapshot = record]) /\ UNCHANGED <<record, spent>>
  <2> DEFINE m == [n EXCEPT !.snapshot = record]
  <2>1. Continues(m)
    BY <1>3, <1>5
  <2>2. m \in OperationSet /\ m.kind = "restore" /\ m.snapshot = record /\ m.step = "swap" /\ m.forced = FALSE
    BY <1>2, <1>3 DEF OperationSet
  <2> HIDE DEF m
  <2>3. record # Nothing
    BY <1>2, <1>4, <1>5
  <2> QED
    BY <1>1, <1>2, <1>5, <2>1, <2>2, <2>3, ToSwap
<1>6. CASE /\ record.aud # viewer
           /\ record' = Nothing /\ UNCHANGED spent
           /\ Continues([AtStep("swap") EXCEPT !.snapshot = Nothing, !.forced = TRUE])
  <2> DEFINE m == [n EXCEPT !.snapshot = Nothing, !.forced = TRUE]
  <2>1. Continues(m)
    BY <1>3, <1>6
  <2>2. m \in OperationSet /\ m.kind = "restore" /\ m.snapshot = Nothing /\ m.step = "swap" /\ m.forced = TRUE
    BY <1>3, <1>4 DEF OperationSet
  <2> HIDE DEF m
  <2> QED
    BY <1>1, <1>2, <1>4, <1>6, <2>1, <2>2, ToSwap
<1>7. CASE StoreFails /\ OpEnds /\ UNCHANGED record
  <2>1. spent' \in SpentSet
    BY <1>2, <1>7, SpendsIs DEF StoreFails
  <2> QED
    BY <1>1, <1>2, <1>7, <2>1, JustEnds DEF StoreShape
<1> QED
  BY <1>5, <1>6, <1>7 DEF BeginRestore

LEMMA BeginRetainKeeps ==
  ASSUME StoreIInv, BeginRetain
  PROVE  StoreIInv'
<1>1. queue # <<>> /\ Head(queue).step = "begin" /\ Head(queue).kind = "retain"
  BY DEF BeginRetain, Running
<1>2. /\ StoreShape /\ Head(queue) = queue[1] /\ record \in SnapshotSet /\ queue[1].forced = FALSE
      /\ HeldInv /\ OwnInv /\ TagInv /\ instant \in Nat
      /\ UNCHANGED <<record, overlay, heldFor, selected, viewer, poll, tag, instant, served, spent>>
  BY <1>1, HeadFacts DEF StoreShape, BeginRetain
<1>3. CASE OpEnds
  BY <1>1, <1>2, <1>3, JustEnds DEF StoreShape
<1>4. CASE Continues(AtStep("select"))
  <2>1. PICK m \in OperationSet : m = AtStep("select") /\ m.kind = "retain" /\ m.step = "select"
    BY <1>1, <1>2, AtStepIs DEF OperationSteps
  <2>2. OperationInv(m)'
    BY <2>1 DEF OperationInv
  <2>3. OwnInv' /\ NoOlder(record)' /\ IF heldFor' = "none" THEN overlay' = NoRows ELSE Of(overlay', heldFor')
    BY <1>1, <1>2 DEF HeldInv, OwnInv, Of, TagInv, NoOlder
  <2> QED
    BY <1>1, <1>2, <1>4, <2>1, <2>2, <2>3, GoesOn DEF StoreShape
<1>5. CASE record # Nothing /\ Continues([AtStep("swap") EXCEPT !.snapshot = [record EXCEPT !.extra = instant]])
  <2>1. PICK n \in OperationSet : n = AtStep("swap") /\ n.kind = "retain" /\ n.step = "swap" /\ n.forced = FALSE
    BY <1>1, <1>2, AtStepIs DEF OperationSteps
  <2> DEFINE old == record
             c == [old EXCEPT !.extra = instant]
             m == [n EXCEPT !.snapshot = c]
  <2>2. old \in [aud : Audiences, ver : Nat, extra : Nat, own : BOOLEAN]
    BY <1>2, <1>5 DEF SnapshotSet
  <2>3. Continues(m)
    BY <1>5, <2>1
  <2> HIDE DEF old
  <2>4. c \in [aud : Audiences, ver : Nat, extra : Nat, own : BOOLEAN]
    BY <1>2, <2>2
  <2>5. c.aud = old.aud /\ c.ver = old.ver /\ c.own = old.own
    BY <2>2
  <2>6. c \in SnapshotSet
    BY <2>4 DEF SnapshotSet
  <2> HIDE DEF c
  <2>7. m \in OperationSet /\ m.kind = "retain" /\ m.snapshot = c /\ m.step = "swap" /\ m.forced = FALSE
    BY <2>1, <2>6 DEF OperationSet
  <2> HIDE DEF m
  <2>8. c.aud = record.aud /\ c.ver = record.ver /\ c.own = record.own
    BY <2>5 DEF old
  <2>9. c # Nothing
    BY <1>2, <1>5, <2>6, <2>8, SnapshotIs
  <2>10. NoOlder(c)
    BY <1>2, <2>8 DEF NoOlder, TagInv
  <2>11. record'.own = TRUE => record'.aud \in {"none", c.aud}
    BY <1>2, <2>8
  <2> QED
    BY <1>1, <1>2, <2>3, <2>6, <2>7, <2>9, <2>10, <2>11, ToSwap
<1> QED
  BY <1>3, <1>4, <1>5 DEF BeginRetain

LEMMA SelectKeeps ==
  ASSUME StoreIInv, Select
  PROVE  StoreIInv'
<1>1. queue # <<>> /\ Head(queue).step = "select" /\ OpEnds
  BY DEF Select, Running
<1>2. /\ Head(queue) = queue[1] /\ spent \in SpentSet /\ selected \in Symbols \cup {"none"}
      /\ UNCHANGED <<record, overlay, heldFor, viewer, poll, tag, instant, served>>
  BY <1>1, HeadFacts DEF StoreShape, Select
<1>3. selected' \in Symbols \cup {"none"}
  BY <1>2 DEF Select, Symbols
<1>4. spent' \in SpentSet
  <2>1. UNCHANGED spent \/ StoreFails
    BY DEF Select
  <2> QED
    BY <1>2, <2>1, SpendsIs DEF StoreFails
<1> QED
  BY <1>1, <1>2, <1>3, <1>4, JustEnds

\* A frame raises the price of a row and is no other audience's.
LEMMA FrameIs ==
  ASSUME StoreIInv, LiveFrame
  PROVE  /\ overlay' \in [Symbols -> RowSet] /\ overlay # NoRows
         /\ \A s \in Symbols : overlay'[s].auds = overlay[s].auds /\ overlay'[s].at >= overlay[s].at
         /\ UNCHANGED <<record, heldFor, selected, viewer, queue, poll, tag, instant, served, spent>>
<1>1. overlay \in [Symbols -> RowSet] /\ instant \in Nat
  BY DEF StoreIInv, StoreShape
<1>2. PICK s \in Symbols : /\ overlay[s] # NoRow /\ overlay[s].at < instant
                           /\ overlay' = [overlay EXCEPT ![s].at = instant]
  BY DEF LiveFrame
<1> DEFINE old == overlay[s]
           m == [old EXCEPT !.at = instant]
<1>3. old \in RowSet /\ overlay' = [overlay EXCEPT ![s] = m] /\ old.at < instant
  BY <1>1, <1>2
<1> HIDE DEF old
<1>4. m \in RowSet /\ m.auds = old.auds /\ m.at >= old.at
  BY <1>1, <1>3 DEF RowSet
<1> HIDE DEF m
<1>5. \A r \in Symbols : overlay[r].at \in Nat
  BY <1>1 DEF RowSet
<1>6. \A r \in Symbols : overlay'[r].auds = overlay[r].auds /\ overlay'[r].at >= overlay[r].at
  BY <1>1, <1>3, <1>4, <1>5 DEF old
<1>7. overlay # NoRows
  BY <1>2 DEF NoRows
<1> QED
  BY <1>1, <1>3, <1>4, <1>6, <1>7 DEF LiveFrame

LEMMA LiveFrameKeeps ==
  ASSUME StoreIInv, LiveFrame
  PROVE  StoreIInv'
<1>1. /\ overlay' \in [Symbols -> RowSet] /\ overlay # NoRows
      /\ \A s \in Symbols : overlay'[s].auds = overlay[s].auds
      /\ UNCHANGED <<record, heldFor, selected, viewer, queue, poll, tag, instant, served, spent>>
  BY FrameIs
<1>2. StoreShape /\ QueueInv /\ HeadInv /\ HeldInv /\ OwnInv /\ TagInv
  BY DEF StoreIInv
<1>3. StoreShape'
  BY <1>1, <1>2 DEF StoreShape
<1>4. QueueInv'
  BY <1>1, <1>2 DEF QueueInv
<1>5. HeadInv'
  BY <1>1, <1>2 DEF HeadInv, OperationInv, Of
<1>6. HeldInv' /\ OwnInv'
  BY <1>1, <1>2 DEF HeldInv, OwnInv, Of
<1>7. TagInv'
  BY <1>1, <1>2 DEF TagInv, NoOlder
<1> QED
  BY <1>3, <1>4, <1>5, <1>6, <1>7 DEF StoreIInv

\* Another tab's record is not this tab's.
LEMMA OtherTabKeeps ==
  ASSUME StoreIInv, OtherTab
  PROVE  StoreIInv'
<1>1. UNCHANGED <<overlay, heldFor, selected, viewer, queue, poll, tag, instant, served>>
  BY DEF OtherTab
<1>2. StoreShape /\ QueueInv /\ HeadInv /\ HeldInv /\ OwnInv /\ TagInv
  BY DEF StoreIInv
<1>3. spent' \in SpentSet
  BY <1>2, SpendsIs DEF OtherTab, StoreShape
<1>4. record' = Nothing \/ (record' \in SnapshotSet /\ record'.own = FALSE)
  <2>1. ASSUME NEW aud \in Audiences, NEW ver \in 1..served, record' = SnapshotOf(aud, ver, 0, FALSE)
        PROVE  record' \in SnapshotSet /\ record'.own = FALSE
    <3>1. ver \in Nat
      BY <1>2 DEF StoreShape
    <3> QED
      BY <2>1, <3>1 DEF SnapshotOf, SnapshotSet
  <2> QED
    BY <2>1 DEF OtherTab
<1>5. Nothing \in SnapshotSet /\ Nothing.aud = "none" /\ NoOlder(Nothing)
  BY <1>2, SnapshotIs, NothingIsNoOlder DEF StoreShape
<1>6. record' \in SnapshotSet
  BY <1>4, <1>5
<1>7. StoreShape'
  BY <1>1, <1>2, <1>3, <1>6 DEF StoreShape
<1>8. QueueInv'
  BY <1>1, <1>2 DEF QueueInv
<1>9. HeadInv'
  <2>1. record'.own = TRUE => record' = Nothing
    BY <1>4
  <2>2. queue # <<>> /\ queue[1].kind = "hydrate" => queue[1].snapshot.aud # "none"
    BY HeadFacts, SnapshotIs
  <2> QED
    BY <1>1, <1>2, <1>5, <2>1, <2>2 DEF HeadInv, OperationInv, Of
<1>10. HeldInv' /\ OwnInv'
  BY <1>1, <1>2, <1>4 DEF HeldInv, OwnInv, Of
<1>11. NoOlder(record')
  BY <1>4, <1>5 DEF NoOlder
<1>12. TagInv'
  BY <1>1, <1>2, <1>11 DEF TagInv, NoOlder
<1> QED
  BY <1>7, <1>8, <1>9, <1>10, <1>12 DEF StoreIInv

\* A page that begins holds no rows, no tag and one operation.
LEMMA PageBegins ==
  ASSUME NEW c \in SnapshotSet, record' = c, c.own = TRUE \/ c = Nothing, overlay' = NoRows, heldFor' = "none",
         viewer' = "unknown", queue' = <<Operation("preview", Nothing)>>, poll' = PollOff, tag' = NoTag,
         selected' \in Symbols \cup {"none"}, instant' \in Nat, served' \in Nat, served' <= instant', spent' \in SpentSet
  PROVE  StoreIInv'
<1>1. /\ Nothing \in SnapshotSet /\ Nothing.aud = "none" /\ c.ver \in Nat /\ (c.aud = "none" <=> c = Nothing)
  BY SnapshotIs
<1>2. NoTag \in TagSet /\ NoTag.ver = 0 /\ NoTag.aud = "none"
  BY DEF NoTag, TagSet
<1>3. PollOff \in PollSet /\ PollOff.step = "off" /\ PollOff.tag = NoTag
  BY <1>2 DEF PollOff, PollSet
<1>4. NoRows \in [Symbols -> RowSet] /\ \A aud : Of(NoRows, aud)
  BY RowsAre
<1> DEFINE op == Operation("preview", Nothing)
<1>5. op \in OperationSet /\ op.kind = "preview" /\ op.step = "begin" /\ op.forced = FALSE
  <2>1. Nothing \in SnapshotSet /\ "preview" \in Kinds
    BY <1>1 DEF Kinds
  <2> QED
    BY <2>1, NewOperation
<1> HIDE DEF op
<1>6. queue' = <<op>>
  BY DEF op
<1>7. queue' \in Seq(OperationSet) /\ Len(queue') = 1 /\ queue'[1] = op /\ 1..Len(queue') = {1}
  BY <1>5, <1>6
<1>8. StoreShape'
  BY <1>2, <1>3, <1>4, <1>7 DEF StoreShape
<1>9. QueueInv'
  <2>1. ASSUME NEW i \in 1..Len(queue')
        PROVE  i = 1 /\ queue'[i] = op
    BY <1>7
  <2> QED
    BY <1>5, <2>1 DEF QueueInv
<1>10. HeadInv'
  BY <1>5, <1>7 DEF HeadInv, OperationInv
<1>11. HeldInv'
  BY DEF HeldInv
<1>12. OwnInv'
  BY <1>4 DEF OwnInv, Of
<1>13. TagInv'
  <2>1. NoOlder(record)'
    BY <1>1, <1>2, <1>3 DEF NoOlder
  <2> QED
    BY <1>2, <1>3, <1>5, <1>7, <2>1 DEF TagInv
<1> QED
  BY <1>8, <1>9, <1>10, <1>11, <1>12, <1>13 DEF StoreIInv

LEMMA NewPageKeeps ==
  ASSUME StoreIInv, NewPage
  PROVE  StoreIInv'
<1>1. /\ StoreShape /\ record \in SnapshotSet /\ spent \in SpentSet /\ instant \in Nat /\ served \in Nat /\ served <= instant
      /\ selected \in Symbols \cup {"none"}
  BY DEF StoreIInv, StoreShape
<1>2. /\ overlay' = NoRows /\ heldFor' = "none" /\ viewer' = "unknown"
      /\ queue' = <<Operation("preview", Nothing)>> /\ poll' = PollOff /\ tag' = NoTag
      /\ UNCHANGED <<selected, instant, served>>
  BY DEF NewPage
<1>3. spent' \in SpentSet
  BY <1>1, SpendsIs DEF NewPage
<1>4. PICK old \in SnapshotSet : record' = [old EXCEPT !.own = TRUE]
  <2>1. CASE Running({"hydrate", "retain"}, "persisting") /\ record = Head(queue).snapshot
    <3>1. record' = [Head(queue).before EXCEPT !.own = TRUE] /\ queue # <<>>
      BY <2>1 DEF NewPage, Running
    <3>2. Head(queue).before \in SnapshotSet
      BY <3>1, HeadFacts
    <3> QED
      BY <3>1, <3>2
  <2>2. CASE ~(Running({"hydrate", "retain"}, "persisting") /\ record = Head(queue).snapshot)
    BY <1>1, <2>2 DEF NewPage
  <2> QED
    BY <2>1, <2>2
<1> DEFINE c == [old EXCEPT !.own = TRUE]
<1>5. c \in SnapshotSet /\ (c.own = TRUE \/ c = Nothing)
  <2>1. CASE old = Nothing
    <3> DEFINE k == [aud |-> "none", ver |-> 0, extra |-> 0, own |-> TRUE]
    <3>1. old = k /\ k = Nothing
      BY <2>1 DEF Nothing, SnapshotOf
    <3> DEFINE m == [k EXCEPT !.own = TRUE]
    <3>2. m = k
      <4>1. k \in [aud : {"none"}, ver : {0}, extra : {0}, own : BOOLEAN]
        OBVIOUS
      <4>2. k.own = TRUE
        OBVIOUS
      <4> HIDE DEF k
      <4> QED
        BY <4>1, <4>2
    <3> HIDE DEF k
    <3>3. c = Nothing
      BY <3>1, <3>2
    <3> QED
      BY <3>3 DEF SnapshotSet
  <2>2. CASE old \in [aud : Audiences, ver : Nat, extra : Nat, own : BOOLEAN]
    BY <2>2 DEF SnapshotSet
  <2> QED
    BY <2>1, <2>2 DEF SnapshotSet
<1> HIDE DEF c
<1>6. record' = c
  BY <1>4 DEF c
<1> QED
  BY <1>1, <1>2, <1>3, <1>5, <1>6, PageBegins

LEMMA StoreBegins == StoreInit => StoreIInv
<1> SUFFICES ASSUME StoreInit
             PROVE  StoreIInv
  OBVIOUS
<1>1. /\ record \in SnapshotSet /\ record.own = TRUE
  <2>1. SnapshotOf("public", 1, 0, TRUE) \in SnapshotSet /\ SnapshotOf("public", 1, 0, TRUE).own = TRUE
    BY DEF SnapshotOf, SnapshotSet, Audiences
  <2>2. Nothing \in SnapshotSet /\ Nothing.own = TRUE
    BY DEF SnapshotSet, Nothing, SnapshotOf
  <2> QED
    BY <2>1, <2>2 DEF StoreInit
<1>2. /\ Nothing \in SnapshotSet /\ record.ver \in Nat /\ (record.aud = "none" <=> record = Nothing)
  BY <1>1, SnapshotIs
<1>3. NoTag \in TagSet /\ NoTag.ver = 0 /\ NoTag.aud = "none"
  BY DEF NoTag, TagSet
<1>4. PollOff \in PollSet /\ PollOff.step = "off" /\ PollOff.tag = NoTag
  BY <1>3 DEF PollOff, PollSet
<1>5. NoRows \in [Symbols -> RowSet] /\ \A aud : Of(NoRows, aud)
  BY RowsAre, <1>1
<1> DEFINE op == Operation("preview", Nothing)
<1>6. op \in OperationSet /\ op.kind = "preview" /\ op.step = "begin" /\ op.forced = FALSE
  <2>1. "preview" \in Kinds /\ Nothing \in SnapshotSet
    BY <1>2 DEF Kinds
  <2> QED
    BY <2>1, NewOperation
<1>7. queue = <<op>>
  BY DEF StoreInit
<1> HIDE DEF op
<1>8. queue \in Seq(OperationSet) /\ Len(queue) = 1 /\ queue[1] = op /\ 1..Len(queue) = {1}
  BY <1>6, <1>7
<1>9. StoreShape
  BY <1>1, <1>3, <1>4, <1>5, <1>8 DEF StoreShape, StoreInit, SpentSet
<1>10. QueueInv
  <2>1. ASSUME NEW i \in 1..Len(queue)
        PROVE  i = 1 /\ queue[i] = op
    BY <1>8
  <2> QED
    BY <1>6, <2>1 DEF QueueInv
<1>11. HeadInv
  BY <1>6, <1>8 DEF HeadInv, OperationInv, StoreInit
<1>12. HeldInv /\ OwnInv
  BY <1>5 DEF HeldInv, OwnInv, Of, StoreInit
<1>13. TagInv
  BY <1>2, <1>3, <1>4, <1>6, <1>8 DEF TagInv, NoOlder, StoreInit
<1> QED
  BY <1>9, <1>10, <1>11, <1>12, <1>13 DEF StoreIInv

LEMMA StoreStep == StoreIInv /\ [StoreNext]_storeVars => StoreIInv'
<1> SUFFICES ASSUME StoreIInv, [StoreNext]_storeVars
             PROVE  StoreIInv'
  OBVIOUS
<1>1. CASE UNCHANGED storeVars
  BY <1>1 DEF storeVars, StoreIInv, StoreShape, QueueInv, HeadInv, HeldInv, OwnInv, TagInv, OperationInv, NoOlder, Of
<1>2. CASE BeginHydrate
  BY <1>2, BeginHydrateKeeps
<1>3. CASE HydrateFails
  BY <1>3, HydrateFailsKeeps
<1>4. CASE Swap
  BY <1>4, SwapKeeps
<1>5. CASE Swapped
  BY <1>5, SwappedKeeps
<1>6. CASE Persist
  BY <1>6, PersistKeeps
<1>7. CASE Prefer
  BY <1>7, PreferKeeps
<1>8. CASE BeginPreview
  BY <1>8, BeginPreviewKeeps
<1>9. CASE BeginRestore
  BY <1>9, BeginRestoreKeeps
<1>10. CASE BeginRetain
  BY <1>10, BeginRetainKeeps
<1>11. CASE Select
  BY <1>11, SelectKeeps
<1>12. CASE Resolved
  BY <1>12, ResolvedKeeps
<1>13. CASE Choose
  BY <1>13, ChooseKeeps
<1>14. CASE Poll
  BY <1>14, PollKeeps
<1>15. CASE Unchanged
  BY <1>15, UnchangedKeeps
<1>16. CASE Body
  BY <1>16, BodyKeeps
<1>17. CASE Hydrated
  BY <1>17, HydratedKeeps
<1>18. CASE PollFails
  BY <1>18, PollEndKeeps
<1>19. CASE LiveFrame
  BY <1>19, LiveFrameKeeps
<1>20. CASE OtherTab
  BY <1>20, OtherTabKeeps
<1>21. CASE NewPage
  BY <1>21, NewPageKeeps
<1>22. CASE MarketMoves \/ ServerRefreshes
  BY <1>22, MarketKeeps
<1> QED
  BY <1>1, <1>2, <1>3, <1>4, <1>5, <1>6, <1>7, <1>8, <1>9, <1>10, <1>11, <1>12, <1>13, <1>14, <1>15, <1>16,
     <1>17, <1>18, <1>19, <1>20, <1>21, <1>22 DEF StoreNext

\* A page draws one audience's rows beside its record, and the tag its poll sends names
\* no newer body than the record it keeps, whatever fails, ends or is written by another
\* tab meanwhile (hydrateCollectionsImmediately, replaceLiveOverlay, syncFromCloud).
THEOREM AudienceHolds == StoreSpec => []AudienceInv
<1>1. StoreIInv => AudienceInv
  <2> SUFFICES ASSUME StoreIInv
               PROVE  AudienceInv
    OBVIOUS
  <2>1. OwnInv /\ TagInv /\ record \in SnapshotSet /\ viewer \in Audiences \cup {"unknown"}
    BY DEF StoreIInv, StoreShape
  <2>2. AudiencesNotMixed
    <3>1. Shown => record # Nothing
      BY <2>1, SnapshotIs DEF Shown, Audiences
    <3> QED
      BY <2>1, <3>1 DEF AudiencesNotMixed, OwnInv, Of
  <2>3. UnchangedIsCurrent
    BY <2>1 DEF UnchangedIsCurrent, TagInv, NoOlder
  <2> QED
    BY <2>2, <2>3 DEF AudienceInv
<1> QED
  BY <1>1, StoreBegins, StoreStep, PTL DEF StoreSpec

\* No snapshot of its own audience pulls a row's price back to an older instant, whoever
\* brings it: the poll, a restore or a search's admission (replaceLiveTickers).
THEOREM PriceStands == StoreSpec => PriceNotPulledBack
<1> DEFINE Stands ==
      \A s \in Symbols :
        /\ overlay[s] # NoRow /\ overlay'[s] # NoRow /\ overlay'[s].auds = overlay[s].auds
        /\ ~(Running({"hydrate"}, "swap") /\ Head(queue).forced)
        => overlay'[s].at >= overlay[s].at
<1>1. ASSUME StoreIInv, [StoreNext]_storeVars
      PROVE  [Stands]_storeVars
  <2>1. overlay \in [Symbols -> RowSet]
    BY <1>1 DEF StoreIInv, StoreShape
  <2>2. \A s \in Symbols : overlay[s].at \in Nat
    BY <2>1 DEF RowSet
  <2>3. UNCHANGED overlay => Stands
    BY <2>2
  <2>4. CASE Swap
    <3>1. /\ queue # <<>> /\ Head(queue).step = "swap" /\ Head(queue).kind \in Kinds
          /\ Swaps(RowsOf(Head(queue).snapshot), Head(queue).forced, Head(queue).snapshot.aud)
      BY <2>4 DEF Swap, Running, Kinds
    <3>2. /\ StoreShape /\ HeldInv /\ OperationInv(queue[1]) /\ Head(queue) = queue[1]
          /\ queue[1].snapshot \in SnapshotSet /\ queue[1].forced \in BOOLEAN
      BY <1>1, <3>1, HeadFacts
    <3> DEFINE op == queue[1]
               rows == RowsOf(op.snapshot)
    <3>3. op.snapshot.aud = "none" => op.snapshot = Nothing /\ op.forced = TRUE
      BY <3>1, <3>2, SnapshotIs DEF OperationInv
    <3>4. /\ op.snapshot = Nothing => overlay' = NoRows
          /\ op.forced = FALSE => \A s \in Symbols :
               overlay[s] # NoRow /\ overlay'[s] # NoRow /\ overlay'[s].auds = overlay[s].auds =>
                 overlay'[s].at >= overlay[s].at
      BY <3>1, <3>2, <3>3, SwapsTo
    <3>5. CASE op.forced = FALSE
      BY <3>4, <3>5
    <3>6. CASE op.snapshot = Nothing
      BY <3>4, <3>6 DEF NoRows
    <3>7. CASE op.forced = TRUE /\ op.kind = "preview"
      <4>1. heldFor = "none"
        BY <3>1, <3>2, <3>7 DEF OperationInv
      <4>2. overlay = NoRows
        BY <3>1, <3>2, <4>1 DEF HeldInv
      <4> QED
        BY <4>2 DEF NoRows
    <3>8. CASE op.forced = TRUE /\ op.kind = "hydrate"
      BY <3>1, <3>2, <3>8 DEF Running
    <3>9. op.forced = TRUE => op.kind = "hydrate" \/ op.kind = "preview" \/ op.snapshot = Nothing
      BY <3>1, <3>2 DEF OperationInv
    <3>10. op.forced = TRUE \/ op.forced = FALSE
      BY <3>2
    <3> QED
      BY <3>5, <3>6, <3>7, <3>8, <3>9, <3>10
  <2>5. CASE LiveFrame
    BY <1>1, <2>5, FrameIs
  <2>6. CASE NewPage
    BY <2>6 DEF NewPage, NoRows
  <2>7. CASE BeginHydrate \/ HydrateFails \/ Swapped \/ Persist \/ Prefer
    BY <2>3, <2>7 DEF BeginHydrate, HydrateFails, Swapped, Persist, Prefer
  <2>8. CASE BeginPreview \/ BeginRestore \/ BeginRetain \/ Select
    BY <2>3, <2>8 DEF BeginPreview, BeginRestore, BeginRetain, Select
  <2>9. CASE Resolved \/ Choose \/ Poll \/ Unchanged \/ Body \/ Hydrated \/ PollFails
    BY <2>3, <2>9 DEF Resolved, Choose, Poll, Unchanged, Body, Hydrated, PollFails
  <2>10. CASE OtherTab \/ MarketMoves \/ ServerRefreshes
    BY <2>3, <2>10 DEF OtherTab, MarketMoves, ServerRefreshes
  <2> HIDE DEF Stands
  <2>11. StoreNext => [Stands]_storeVars
    BY <2>4, <2>5, <2>6, <2>7, <2>8, <2>9, <2>10 DEF StoreNext
  <2> QED
    BY <1>1, <2>11
<1>2. StoreSpec => [][Stands]_storeVars
  BY <1>1, StoreBegins, StoreStep, PTL DEF StoreSpec
<1> QED
  BY <1>2 DEF PriceNotPulledBack

(***************************************************************************)
(* The series of a chart and the years of reads                            *)
(***************************************************************************)

Point == [time : 1..Bars, close : Nat]

\* The bars of one snapshot at some times.
BarsAt(times, v) == {[time |-> t, close |-> v] : t \in times}

\* What is kept of the first k rows of a snapshot, which come newest first.
Top(k, v) == BarsAt({t \in 1..Bars : t > Bars - k /\ t > Bars - Limit}, v)

UniqueTimes(points) == \A p, r \in points : p.time = r.time => p = r
HasSecond(points) == \E p \in points : p.time = Bars - 1

\* The k-th last row of a snapshot of daily bars.
DayBar(t, v) == Row(IF t = Bars THEN {"begin"} ELSE IF t = 1 THEN {"end"} ELSE {}, t, v)

LEMMA LeastTime ==
  ASSUME NEW S \in SUBSET Nat, S # {}
  PROVE  \E k \in S : \A n \in S : k <= n
<1> DEFINE R == {p \in Nat \X Nat : p[1] < p[2]}
<1>1. IsWellFoundedOn(R, Nat)
  BY NatLessThanWellFounded DEF OpToRel
<1>2. \A m, n \in Nat : <<m, n>> \in R <=> m < n
  OBVIOUS
<1> HIDE DEF R
<1>3. PICK k \in S : \A n \in S : <<n, k>> \notin R
  BY <1>1, WFMin
<1>4. ASSUME NEW n \in S PROVE k <= n
  <2>1. ~(n < k)
    BY <1>2, <1>3
  <2> QED
    BY <2>1
<1> QED
  BY <1>4

\* A snapshot's bars at an interval of times are as many as the times.
LEMMA BarsCounted ==
  ASSUME NEW a \in Int, NEW b \in Int, a <= b + 1, NEW v
  PROVE  Cardinality(BarsAt(a..b, v)) = b - a + 1
<1> DEFINE S == BarsAt(a..b, v)
           f == [t \in a..b |-> [time |-> t, close |-> v]]
<1>1. f \in [a..b -> S]
  BY DEF BarsAt
<1>2. \A t, u \in a..b : f[t] = f[u] => t = u
  <2> SUFFICES ASSUME NEW t \in a..b, NEW u \in a..b, f[t] = f[u] PROVE t = u
    OBVIOUS
  <2>1. f[t].time = t /\ f[u].time = u
    OBVIOUS
  <2> QED
    BY <2>1
<1>3. \A p \in S : \E t \in a..b : f[t] = p
  BY DEF BarsAt
<1> HIDE DEF f
<1>4. f \in Bijection(a..b, S)
  BY <1>1, <1>2, <1>3 DEF Bijection, Injection, Surjection, IsInjective
<1>5. ExistsBijection(a..b, S)
  BY <1>4 DEF ExistsBijection
<1>6. IsFiniteSet(a..b) /\ Cardinality(a..b) = IF a > b THEN 0 ELSE b - a + 1
  BY FS_Interval
<1>7. Cardinality(S) = Cardinality(a..b)
  BY <1>5, <1>6, FS_Bijection
<1>8. CASE a > b
  BY <1>6, <1>7, <1>8
<1>9. CASE ~(a > b)
  BY <1>6, <1>7, <1>9
<1> QED
  BY <1>8, <1>9

Later(points, t) == {r \in points : r.time > t}

LEMMA NewestByLater ==
  ASSUME NEW points
  PROVE  Newest(points) = {p \in points : Cardinality(Later(points, p.time)) < Limit}
BY DEF Newest, Later

LEMMA LaterBars ==
  ASSUME NEW times, NEW v, NEW t
  PROVE  Later(BarsAt(times, v), t) = BarsAt({u \in times : u > t}, v)
<1>1. \A p \in BarsAt(times, v) : p.time \in times /\ p = [time |-> p.time, close |-> v]
  BY DEF BarsAt
<1>2. \A u \in times : [time |-> u, close |-> v] \in BarsAt(times, v) /\ [time |-> u, close |-> v].time = u
  BY DEF BarsAt
<1>3. ASSUME NEW r \in BarsAt(times, v), r.time > t PROVE r \in BarsAt({u \in times : u > t}, v)
  BY <1>1, <1>3 DEF BarsAt
<1>4. ASSUME NEW r \in BarsAt({u \in times : u > t}, v) PROVE r \in BarsAt(times, v) /\ r.time > t
  BY <1>2 DEF BarsAt
<1> QED
  BY <1>3, <1>4 DEF Later

\* The next row of a snapshot leaves the next of its series.
LEMMA TopGrows ==
  ASSUME NEW k \in 1..(Bars - 1), NEW v \in Nat, NEW flags, "remove" \notin flags
  PROVE  UpdateCandleSeries(Top(k, v), Row(flags, Bars - k, v)) = Top(k + 1, v)
<1> DEFINE p0 == [time |-> Bars - k, close |-> v]
           times == {t \in 1..Bars : t > Bars - k /\ t > Bars - Limit} \cup {Bars - k}
           S == BarsAt(times, v)
<1>0. Bars \in Nat /\ Limit \in Nat /\ Limit >= 2 /\ Limit <= Bars /\ Bars >= 2 /\ k \in Nat /\ Bars - k \in 1..Bars
  BY SeriesAssumption
<1>1. Row(flags, Bars - k, v).flags = flags /\ Row(flags, Bars - k, v).time = Bars - k
      /\ Row(flags, Bars - k, v).close = v
  BY DEF Row
<1>2. {p \in Top(k, v) : p.time # Bars - k} \cup {p0} = S
  BY <1>0 DEF Top, BarsAt
<1>3. UpdateCandleSeries(Top(k, v), Row(flags, Bars - k, v)) = Newest(S)
  BY <1>1, <1>2 DEF UpdateCandleSeries
<1>4. ASSUME NEW t \in times, t > Bars - Limit
      PROVE  Cardinality(Later(S, t)) < Limit
  <2>1. t \in 1..Bars
    BY <1>0
  <2>2. Later(S, t) = BarsAt((t + 1)..Bars, v)
    <3>1. {u \in times : u > t} = (t + 1)..Bars
      BY <1>0, <1>4, <2>1
    <3>2. Later(S, t) = BarsAt({u \in times : u > t}, v)
      BY LaterBars
    <3> QED
      BY <3>1, <3>2
  <2>3. Cardinality(BarsAt((t + 1)..Bars, v)) = Bars - (t + 1) + 1
    BY <1>0, <2>1, BarsCounted
  <2>4. Bars - (t + 1) + 1 < Limit
    BY <1>0, <1>4, <2>1
  <2> QED
    BY <2>2, <2>3, <2>4
<1>5. ASSUME NEW t \in times, ~(t > Bars - Limit)
      PROVE  ~(Cardinality(Later(S, t)) < Limit)
  <2>1. t = Bars - k /\ k >= Limit
    BY <1>0, <1>5
  <2>2. Later(S, t) = BarsAt((Bars - Limit + 1)..Bars, v)
    <3>1. {u \in times : u > t} = (Bars - Limit + 1)..Bars
      BY <1>0, <2>1
    <3>2. Later(S, t) = BarsAt({u \in times : u > t}, v)
      BY LaterBars
    <3> QED
      BY <3>1, <3>2
  <2>3. Cardinality(BarsAt((Bars - Limit + 1)..Bars, v)) = Bars - (Bars - Limit + 1) + 1
    BY <1>0, BarsCounted
  <2>4. ~(Bars - (Bars - Limit + 1) + 1 < Limit)
    BY <1>0
  <2> QED
    BY <2>2, <2>3, <2>4
<1>6. Newest(S) = BarsAt({t \in times : t > Bars - Limit}, v)
  <2>1. \A p \in S : p.time \in times /\ p = [time |-> p.time, close |-> v]
    BY DEF BarsAt
  <2>2. \A t \in times : [time |-> t, close |-> v] \in S /\ [time |-> t, close |-> v].time = t
    BY DEF BarsAt
  <2> HIDE DEF S, times
  <2>3. \A p \in S : Cardinality(Later(S, p.time)) < Limit <=> p.time > Bars - Limit
    BY <1>4, <1>5, <2>1
  <2> QED
    BY <2>1, <2>2, <2>3, NewestByLater DEF BarsAt
<1>7. {t \in times : t > Bars - Limit} = {t \in 1..Bars : t > Bars - (k + 1) /\ t > Bars - Limit}
  BY <1>0
<1> QED
  BY <1>3, <1>6, <1>7 DEF Top

\* Its first row leaves the first.
LEMMA TopBegins ==
  ASSUME NEW v \in Nat, NEW flags, "remove" \notin flags
  PROVE  UpdateCandleSeries({}, Row(flags, Bars, v)) = Top(1, v)
<1> DEFINE p0 == [time |-> Bars, close |-> v]
<1>0. Bars \in Nat /\ Limit \in Nat /\ Limit >= 2 /\ Limit <= Bars /\ Bars >= 2
  BY SeriesAssumption
<1>1. UpdateCandleSeries({}, Row(flags, Bars, v)) = Newest({p0})
  BY DEF UpdateCandleSeries, Row
<1>2. Later({p0}, p0.time) = {}
  BY <1>0 DEF Later
<1>3. Newest({p0}) = {p0}
  BY <1>0, <1>2, FS_EmptySet, NewestByLater
<1>4. {t \in 1..Bars : t > Bars - 1 /\ t > Bars - Limit} = {Bars}
  BY <1>0
<1> QED
  BY <1>1, <1>3, <1>4 DEF Top, BarsAt

\* All of its rows leave the newest bars of the snapshot.
LEMMA TopWhole ==
  ASSUME NEW v
  PROVE  Top(Bars, v) = {[time |-> t, close |-> v] : t \in (Bars - Limit + 1)..Bars}
<1>1. Bars \in Nat /\ Limit \in Nat /\ Limit >= 2 /\ Limit <= Bars
  BY SeriesAssumption
<1>2. {t \in 1..Bars : t > Bars - Bars /\ t > Bars - Limit} = (Bars - Limit + 1)..Bars
  BY <1>1
<1> QED
  BY <1>2 DEF Top, BarsAt

LEMMA TopIsPoints ==
  ASSUME NEW k \in 1..Bars, NEW v \in Nat
  PROVE  Top(k, v) \in SUBSET Point
BY DEF Top, BarsAt, Point

\* A row keeps a series a set of bars, one of each time.
LEMMA UpdateKeepsPoints ==
  ASSUME NEW points \in SUBSET Point, NEW row,
         row.close \in Nat, "remove" \in row.flags \/ row.time \in 1..Bars
  PROVE  /\ UpdateCandleSeries(points, row) \in SUBSET Point
         /\ UniqueTimes(points) => UniqueTimes(UpdateCandleSeries(points, row))
BY DEF UpdateCandleSeries, Newest, Point, UniqueTimes

\* A row that removes nothing leaves a series with a bar.
LEMMA UpdateLeavesBar ==
  ASSUME NEW points \in SUBSET Point, NEW row,
         row.close \in Nat, row.time \in 1..Bars, "remove" \notin row.flags
  PROVE  UpdateCandleSeries(points, row) # {}
<1> DEFINE p0 == [time |-> row.time, close |-> row.close]
           S == {p \in points : p.time # row.time} \cup {p0}
           ages == {Bars - p.time : p \in S}
<1>0. Bars \in Nat /\ Limit \in Nat /\ Limit >= 2
  BY SeriesAssumption
<1>1. S \in SUBSET Point /\ p0 \in S
  BY DEF Point
<1>2. UpdateCandleSeries(points, row) = Newest(S)
  BY DEF UpdateCandleSeries
<1> HIDE DEF S
<1>3. \A p \in S : Bars - p.time \in Nat /\ p.time \in Nat
  BY <1>0, <1>1 DEF Point
<1>4. ages \in SUBSET Nat /\ ages # {}
  BY <1>1, <1>3
<1>5. PICK k \in ages : \A n \in ages : k <= n
  BY <1>4, LeastTime
<1>6. PICK p \in S : k = Bars - p.time
  BY <1>5
<1>7. Later(S, p.time) = {}
  <2> SUFFICES ASSUME NEW r \in S, r.time > p.time PROVE FALSE
    BY DEF Later
  <2>1. Bars - p.time <= Bars - r.time
    BY <1>5, <1>6
  <2> QED
    BY <1>0, <1>3, <2>1
<1>8. Cardinality({}) = 0
  BY FS_EmptySet
<1>9. Cardinality(Later(S, p.time)) < Limit
  BY <1>0, <1>7, <1>8
<1>10. p \in Newest(S)
  BY <1>9, NewestByLater
<1> QED
  BY <1>2, <1>10

\* The second newest bar is never among those that a series of two or more lets go.
LEMMA NewestKeepsSecond ==
  ASSUME NEW points \in SUBSET Point, UniqueTimes(points), HasSecond(points)
  PROVE  HasSecond(Newest(points))
<1>0. Bars \in Nat /\ Limit \in Nat /\ Limit >= 2
  BY SeriesAssumption
<1>1. PICK p \in points : p.time = Bars - 1
  BY DEF HasSecond
<1> DEFINE later == Later(points, p.time)
<1>2. \A r \in later : r \in points /\ r.time = Bars
  BY <1>0, <1>1 DEF Point, Later
<1>3. later = {} \/ \E r : later = {r}
  BY <1>2 DEF UniqueTimes
<1>4. Cardinality({}) = 0 /\ \A r : Cardinality({r}) = 1
  BY FS_EmptySet, FS_Singleton
<1> HIDE DEF later
<1>5. Cardinality(later) = 0 \/ Cardinality(later) = 1
  BY <1>3, <1>4
<1>6. Cardinality(later) < Limit
  BY <1>0, <1>5
<1> QED
  BY <1>1, <1>6, NewestByLater DEF HasSecond, later

LEMMA UpdateKeepsSecond ==
  ASSUME NEW points \in SUBSET Point, UniqueTimes(points), NEW row,
         row.close \in Nat, row.time \in 1..Bars, "remove" \in row.flags => row.time = Bars,
         HasSecond(points) \/ (row.time = Bars - 1 /\ "remove" \notin row.flags)
  PROVE  HasSecond(UpdateCandleSeries(points, row))
<1> DEFINE p0 == [time |-> row.time, close |-> row.close]
           others == {p \in points : p.time # row.time}
           S == IF "remove" \in row.flags THEN others ELSE others \cup {p0}
<1>0. Bars \in Nat /\ Bars >= 2
  BY SeriesAssumption
<1>1. S \in SUBSET Point /\ UniqueTimes(S)
  BY DEF Point, UniqueTimes
<1>2. HasSecond(S)
  <2>1. CASE row.time = Bars - 1
    <3>1. "remove" \notin row.flags
      BY <1>0, <2>1
    <3>2. p0 \in S /\ p0.time = Bars - 1
      BY <2>1, <3>1
    <3> QED
      BY <3>2 DEF HasSecond
  <2>2. CASE row.time # Bars - 1
    <3>1. PICK p \in points : p.time = Bars - 1
      BY <2>2 DEF HasSecond
    <3>2. p \in S
      BY <2>2, <3>1
    <3> QED
      BY <3>1, <3>2 DEF HasSecond
  <2> QED
    BY <2>1, <2>2
<1>3. UpdateCandleSeries(points, row) = Newest(S)
  BY DEF UpdateCandleSeries
<1> HIDE DEF S
<1> QED
  BY <1>1, <1>2, <1>3, NewestKeepsSecond

\* Of nothing, a removal leaves nothing.
LEMMA UpdateOfNothing ==
  ASSUME NEW row, "remove" \in row.flags
  PROVE  UpdateCandleSeries({}, row) = {}
BY DEF UpdateCandleSeries, Newest

(***************************************************************************)
(* The relay's memory                                                      *)
(***************************************************************************)

FeedRows == [flags : SUBSET {"begin", "end", "pending", "remove"}, time : 0..Bars, close : Nat]
HalfSet == [open : BOOLEAN, endSeen : BOOLEAN, points : SUBSET Point]

RelayShape(m) ==
  /\ m = [reads |-> m.reads, pending |-> m.pending, cache |-> m.cache]
  /\ m.reads = [q \in Reads |-> m.reads[q]]
  /\ \A q \in Reads : m.reads[q] = [state |-> m.reads[q].state, received |-> m.reads[q].received]
  /\ m.pending \in [Series -> HalfSet]
  /\ m.cache \in [Watched -> SUBSET Point]

\* AnswersWhole, of a memory and of the snapshots up to a version.
WholeBy(n, points, top) ==
  IF n \in Bare THEN points = {}
  ELSE \E v \in 1..top : points = {[time |-> t, close |-> v] : t \in (Bars - Limit + 1)..Bars}

ReadsWhole(m, top) ==
  /\ \A q \in YearReads : \A n \in DOMAIN m.reads[q].received : WholeBy(n, m.reads[q].received[n], top)
  /\ \A q \in GreeksReads : m.reads[q].state = "answered" => DOMAIN m.reads[q].received = ReadNames[q]

\* What a read of some name is given.
Given(r, q, n, value) ==
  LET received == [x \in DOMAIN r.received \cup {n} |-> IF x = n THEN value ELSE r.received[x]]
  IN [state |-> IF DOMAIN received = ReadNames[q] THEN "answered" ELSE "waiting", received |-> received]

LEMMA NotOpenIs ==
  NotOpen \in HalfSet /\ NotOpen.open = FALSE /\ NotOpen.endSeen = FALSE /\ NotOpen.points = {}
BY DEF NotOpen, HalfSet

LEMMA DeliverIs ==
  ASSUME NEW m, RelayShape(m), NEW n, NEW value
  PROVE  /\ RelayShape(Deliver(m, n, value))
         /\ Deliver(m, n, value).pending = m.pending /\ Deliver(m, n, value).cache = m.cache
         /\ Registered(Deliver(m, n, value)) = Registered(m)
         /\ \A q \in Reads : Deliver(m, n, value).reads[q] =
              IF q \notin Waiting(m) \/ n \notin ReadNames[q] THEN m.reads[q] ELSE Given(m.reads[q], q, n, value)
<1> DEFINE f == [q \in Reads |-> IF q \notin Waiting(m) \/ n \notin ReadNames[q] THEN m.reads[q]
                                ELSE Given(m.reads[q], q, n, value)]
           d == [m EXCEPT !.reads = f]
<1>1. Deliver(m, n, value) = d
  BY DEF Deliver, Given
<1>2. d = [reads |-> f, pending |-> m.pending, cache |-> m.cache]
  BY DEF RelayShape
<1> HIDE DEF d
<1>3. \A q \in Reads : Given(m.reads[q], q, n, value).state \in {"answered", "waiting"}
                       /\ Given(m.reads[q], q, n, value)
                            = [state |-> Given(m.reads[q], q, n, value).state,
                               received |-> Given(m.reads[q], q, n, value).received]
  BY DEF Given
<1>4. \A q \in Reads : f[q] = [state |-> f[q].state, received |-> f[q].received]
  BY <1>3 DEF RelayShape
<1>5. \A q \in Reads : f[q].state # "away" <=> m.reads[q].state # "away"
  BY <1>3 DEF Waiting
<1> HIDE DEF f
<1>6. d.reads = f /\ d.pending = m.pending /\ d.cache = m.cache
  BY <1>2
<1>7. f = [q \in Reads |-> f[q]]
  BY DEF f
<1>8. RelayShape(d)
  BY <1>2, <1>4, <1>6, <1>7 DEF RelayShape
<1>9. Registered(d) = Registered(m)
  BY <1>5, <1>6 DEF Registered
<1>10. \A q \in Reads : f[q] = IF q \notin Waiting(m) \/ n \notin ReadNames[q] THEN m.reads[q]
                               ELSE Given(m.reads[q], q, n, value)
  BY DEF f
<1> QED
  BY <1>1, <1>6, <1>8, <1>9, <1>10

LEMMA GivenIs ==
  ASSUME NEW r, NEW q, NEW n, NEW value
  PROVE  /\ DOMAIN Given(r, q, n, value).received = DOMAIN r.received \cup {n}
         /\ \A x \in DOMAIN r.received \cup {n} :
              Given(r, q, n, value).received[x] = IF x = n THEN value ELSE r.received[x]
         /\ Given(r, q, n, value).state = "answered" => DOMAIN Given(r, q, n, value).received = ReadNames[q]
BY DEF Given

\* What is delivered is whole, or is a contract's and no year takes it.
LEMMA DeliverWhole ==
  ASSUME NEW m, RelayShape(m), NEW top, ReadsWhole(m, top), NEW n, NEW value,
         WholeBy(n, value, top) \/ n \in Contracts
  PROVE  ReadsWhole(Deliver(m, n, value), top)
<1> DEFINE d == Deliver(m, n, value)
<1>1. \A q \in Reads : d.reads[q] =
        IF q \notin Waiting(m) \/ n \notin ReadNames[q] THEN m.reads[q] ELSE Given(m.reads[q], q, n, value)
  BY DeliverIs
<1> HIDE DEF d
<1>2. ASSUME NEW q \in YearReads, NEW x \in DOMAIN d.reads[q].received
      PROVE  WholeBy(x, d.reads[q].received[x], top)
  <2>1. q \in Reads
    BY DEF Reads
  <2>2. CASE q \notin Waiting(m) \/ n \notin ReadNames[q]
    BY <1>1, <1>2, <2>1, <2>2 DEF ReadsWhole
  <2>3. CASE ~(q \notin Waiting(m) \/ n \notin ReadNames[q])
    <3>1. d.reads[q] = Given(m.reads[q], q, n, value)
      BY <1>1, <2>1, <2>3
    <3>2. WholeBy(n, value, top)
      BY <2>3, SeriesAssumption
    <3>3. x \in DOMAIN m.reads[q].received \cup {n}
          /\ d.reads[q].received[x] = IF x = n THEN value ELSE m.reads[q].received[x]
      BY <1>2, <3>1, GivenIs
    <3> QED
      BY <3>2, <3>3 DEF ReadsWhole
  <2> QED
    BY <2>2, <2>3
<1>3. ASSUME NEW q \in GreeksReads, d.reads[q].state = "answered"
      PROVE  DOMAIN d.reads[q].received = ReadNames[q]
  <2>1. q \in Reads
    BY DEF Reads
  <2> QED
    BY <1>1, <1>3, <2>1, GivenIs DEF ReadsWhole
<1> QED
  BY <1>2, <1>3 DEF ReadsWhole, d

\* Forgetting closes years and touches nothing else.
LEMMA ForgetIs ==
  ASSUME NEW m, RelayShape(m)
  PROVE  /\ RelayShape(Forget(m)) /\ Forget(m).reads = m.reads /\ Forget(m).cache = m.cache
         /\ \A n \in Series : Forget(m).pending[n] = IF IsDemanded(m, n) THEN m.pending[n] ELSE NotOpen
<1> DEFINE f == [n \in Series |-> IF IsDemanded(m, n) THEN m.pending[n] ELSE NotOpen]
           d == [m EXCEPT !.pending = f]
<1>1. Forget(m) = d
  BY DEF Forget
<1>2. d = [reads |-> m.reads, pending |-> f, cache |-> m.cache]
  BY DEF RelayShape
<1>3. f \in [Series -> HalfSet]
  BY NotOpenIs DEF RelayShape
<1>4. \A n \in Series : f[n] = IF IsDemanded(m, n) THEN m.pending[n] ELSE NotOpen
  OBVIOUS
<1> HIDE DEF f, d
<1>5. d.reads = m.reads /\ d.pending = f /\ d.cache = m.cache
  BY <1>2
<1>6. RelayShape(d)
  BY <1>2, <1>3, <1>5 DEF RelayShape
<1> QED
  BY <1>1, <1>4, <1>5, <1>6

\* One read's entry changes.
LEMMA ReadChanges ==
  ASSUME NEW m, RelayShape(m), NEW q \in Reads, NEW r, r = [state |-> r.state, received |-> r.received]
  PROVE  LET d == [m EXCEPT !.reads[q] = r]
         IN /\ RelayShape(d) /\ d.pending = m.pending /\ d.cache = m.cache
            /\ d.reads[q] = r /\ \A p \in Reads \ {q} : d.reads[p] = m.reads[p]
<1> DEFINE f == [m.reads EXCEPT ![q] = r]
           d == [m EXCEPT !.reads[q] = r]
<1>1. d = [reads |-> f, pending |-> m.pending, cache |-> m.cache]
  BY DEF RelayShape
<1>2. f[q] = r /\ (\A p \in Reads \ {q} : f[p] = m.reads[p]) /\ f = [p \in Reads |-> f[p]]
  BY DEF RelayShape
<1> HIDE DEF f, d
<1>3. d.reads = f /\ d.pending = m.pending /\ d.cache = m.cache
  BY <1>1
<1>4. RelayShape(d)
  BY <1>1, <1>2, <1>3 DEF RelayShape
<1> QED
  BY <1>2, <1>3, <1>4 DEF d

(***************************************************************************)
(* A year's rows                                                           *)
(***************************************************************************)

Begins(row) == "begin" \in row.flags
IsTick(row) == row.time = Bars /\ row.flags \subseteq {"remove"}
IsDayBar(row, top) == \E t \in 1..Bars, v \in 1..top : row = DayBar(t, v)
NextBar(r, row, top) == \E t \in 1..(Bars - 1), v \in 1..top : r = DayBar(t + 1, v) /\ row = DayBar(t, v)

\* What is on its way of a year: pieces of snapshots, each from its first row but
\* for the piece whose head has arrived, and later bars behind whole ones.
Ended(row) == row.time = 1 \/ IsTick(row)
YearQueue(w, top) ==
  /\ \A i \in 1..Len(w) : IsDayBar(w[i], top) \/ IsTick(w[i])
  /\ \A i \in 1..(Len(w) - 1) :
       Begins(w[i + 1]) \/ NextBar(w[i], w[i + 1], top) \/ (IsTick(w[i + 1]) /\ Ended(w[i]))
\* Its last piece has all of its rows.
EndsWhole(w) == w # <<>> => Ended(w[Len(w)])

\* A half-delivered year is the first rows of a snapshot, and the next on the way.
HalfYear(p, w, top) ==
  p.open = TRUE => /\ p.endSeen = FALSE
                   /\ \E k \in 1..(Bars - 1), v \in 1..top :
                        /\ p.points = Top(k, v)
                        /\ w # <<>> => Begins(w[1]) \/ w[1] = DayBar(Bars - k, v)

LEMMA DayBarIs ==
  ASSUME NEW t \in 1..Bars, NEW v \in Nat \ {0}
  PROVE  /\ DayBar(t, v) \in FeedRows /\ DayBar(t, v).time = t /\ DayBar(t, v).close = v
         /\ "begin" \in DayBar(t, v).flags <=> t = Bars
         /\ "end" \in DayBar(t, v).flags <=> t = 1
         /\ "remove" \notin DayBar(t, v).flags /\ "pending" \notin DayBar(t, v).flags
         /\ ~IsTick(DayBar(t, v))
<1>1. Bars \in Nat /\ Bars >= 2
  BY SeriesAssumption
<1> QED
  BY <1>1 DEF DayBar, Row, FeedRows, IsTick

LEMMA TailIs ==
  ASSUME NEW w \in Seq(FeedRows), w # <<>>
  PROVE  /\ Len(w) \in Nat /\ Len(w) >= 1 /\ Head(w) = w[1] /\ w[1] \in FeedRows
         /\ Tail(w) \in Seq(FeedRows) /\ Len(Tail(w)) = Len(w) - 1
         /\ \A i \in 1..(Len(w) - 1) : Tail(w)[i] = w[i + 1]
         /\ Tail(w) = <<>> <=> Len(w) = 1
<1>1. Len(w) \in Nat /\ Len(w) # 0
  BY EmptySeq, LenProperties
<1>2. Head(w) = w[1] /\ w[1] \in FeedRows
  BY <1>1
<1>3. Tail(w) \in Seq(FeedRows) /\ Len(Tail(w)) = Len(w) - 1
  BY <1>1, HeadTailProperties
<1>4. \A i \in 1..(Len(w) - 1) : Tail(w)[i] = w[i + 1]
  BY <1>1, HeadTailProperties
<1>5. Tail(w) = <<>> <=> Len(Tail(w)) = 0
  BY <1>3, EmptySeq
<1> QED
  BY <1>1, <1>2, <1>3, <1>4, <1>5

LEMMA YearTail ==
  ASSUME NEW w \in Seq(FeedRows), w # <<>>, NEW top, YearQueue(w, top)
  PROVE  YearQueue(Tail(w), top) /\ (EndsWhole(w) => EndsWhole(Tail(w)))
<1>1. /\ Len(w) \in Nat /\ Len(w) >= 1 /\ Tail(w) \in Seq(FeedRows) /\ Len(Tail(w)) = Len(w) - 1
      /\ \A i \in 1..(Len(w) - 1) : Tail(w)[i] = w[i + 1]
      /\ Tail(w) = <<>> <=> Len(w) = 1
  BY TailIs
<1> DEFINE u == Tail(w)
<1> HIDE DEF u
<1>2. Len(u) \in Nat /\ Len(u) = Len(w) - 1 /\ (u = <<>> <=> Len(w) = 1)
      /\ \A i \in 1..Len(u) : u[i] = w[i + 1] /\ i + 1 \in 1..Len(w) /\ i + 1 # 1
  BY <1>1 DEF u
<1>3. \A i \in 1..Len(u) : IsDayBar(u[i], top) \/ IsTick(u[i])
  BY <1>2 DEF YearQueue
<1>4. \A i \in 1..(Len(u) - 1) : i \in 1..Len(u) /\ i + 1 \in 1..Len(u) /\ i + 1 \in 1..(Len(w) - 1)
  BY <1>1, <1>2
<1>5. \A i \in 1..(Len(u) - 1) :
        Begins(u[i + 1]) \/ NextBar(u[i], u[i + 1], top) \/ (IsTick(u[i + 1]) /\ Ended(u[i]))
  BY <1>2, <1>4 DEF YearQueue
<1>6. EndsWhole(w) => EndsWhole(u)
  <2> SUFFICES ASSUME EndsWhole(w), u # <<>> PROVE u[Len(u)] = w[Len(w)]
    BY <1>1 DEF EndsWhole
  <2>1. Len(u) \in 1..Len(u) /\ Len(u) + 1 = Len(w)
    BY <1>1, <1>2
  <2> QED
    BY <1>2, <2>1
<1> QED
  BY <1>3, <1>5, <1>6 DEF YearQueue, u

LEMMA BufferedIs ==
  ASSUME NEW p \in HalfSet, NEW row \in FeedRows, "remove" \in row.flags \/ row.time \in 1..Bars
  PROVE  /\ Buffered(p, row) \in HalfSet
         /\ Buffered(p, row).open = TRUE <=> Opens(p, row)
         /\ Buffered(p, row).points = UpdateCandleSeries(IF Begins(row) THEN {} ELSE p.points, row)
         /\ Buffered(p, row).endSeen = TRUE
              <=> ("end" \in row.flags \/ (~Begins(row) /\ p.endSeen = TRUE))
<1> DEFINE begun == IF "begin" \in row.flags THEN [NotOpen EXCEPT !.open = TRUE] ELSE p
           points == UpdateCandleSeries(begun.points, row)
           seen == begun.endSeen \/ "end" \in row.flags
<1>1. begun \in HalfSet /\ begun.points = (IF Begins(row) THEN {} ELSE p.points)
      /\ (begun.open = TRUE <=> Opens(p, row)) /\ (begun.endSeen = TRUE <=> (~Begins(row) /\ p.endSeen = TRUE))
  <2>1. CASE "begin" \in row.flags
    BY <2>1, NotOpenIs DEF Begins, Opens, HalfSet
  <2>2. CASE "begin" \notin row.flags
    BY <2>2 DEF Begins, Opens, HalfSet
  <2> QED
    BY <2>1, <2>2
<1>2. Buffered(p, row) = [begun EXCEPT !.points = points, !.endSeen = seen]
  BY DEF Buffered
<1> HIDE DEF begun
<1>3. begun.points \in SUBSET Point /\ begun.open \in BOOLEAN /\ begun.endSeen \in BOOLEAN
  BY <1>1 DEF HalfSet
<1>4. row.close \in Nat
  BY DEF FeedRows
<1>5. points \in SUBSET Point
  BY <1>3, <1>4, UpdateKeepsPoints
<1>6. points = UpdateCandleSeries(IF Begins(row) THEN {} ELSE p.points, row)
  BY <1>1
<1> HIDE DEF points
<1>7. seen \in BOOLEAN /\ (seen = TRUE <=> ("end" \in row.flags \/ begun.endSeen = TRUE))
  BY <1>3
<1> HIDE DEF seen
<1>8. Buffered(p, row) \in HalfSet /\ Buffered(p, row).open = begun.open
      /\ Buffered(p, row).points = points /\ Buffered(p, row).endSeen = seen
  BY <1>1, <1>2, <1>5, <1>7 DEF HalfSet
<1> QED
  BY <1>1, <1>6, <1>7, <1>8

\* One entry of the pending years changes.
LEMMA PendingChanges ==
  ASSUME NEW m, RelayShape(m), NEW n \in Series, NEW p \in HalfSet
  PROVE  LET d == [m EXCEPT !.pending[n] = p]
         IN RelayShape(d) /\ d.reads = m.reads /\ d.cache = m.cache
            /\ d.pending[n] = p /\ \A x \in Series \ {n} : d.pending[x] = m.pending[x]
<1> DEFINE f == [m.pending EXCEPT ![n] = p]
           d == [m EXCEPT !.pending[n] = p]
<1>1. d = [reads |-> m.reads, pending |-> f, cache |-> m.cache]
  BY DEF RelayShape
<1>2. f \in [Series -> HalfSet] /\ f[n] = p /\ \A x \in Series \ {n} : f[x] = m.pending[x]
  BY DEF RelayShape
<1> HIDE DEF f, d
<1>3. d.reads = m.reads /\ d.pending = f /\ d.cache = m.cache
  BY <1>1
<1>4. RelayShape(d)
  BY <1>1, <1>2, <1>3 DEF RelayShape
<1> QED
  BY <1>2, <1>3, <1>4 DEF d

\* What a row of the year of n leaves as it is.
OnlyYear(d, m, n) ==
  /\ RelayShape(d) /\ d.cache = m.cache /\ Registered(d) = Registered(m)
  /\ \A x \in Series \ {n} : d.pending[x] = m.pending[x]

\* A row of a year: it is skipped, it is one more of a year, or it ends one.
LEMMA AcceptDailyIs ==
  ASSUME NEW m, RelayShape(m), NEW n \in Series, NEW row \in FeedRows,
         "remove" \in row.flags \/ row.time \in 1..Bars, NEW top, ReadsWhole(m, top)
  PROVE  LET d == AcceptDaily(m, n, row)
             half == Buffered(m.pending[n], row)
         IN \/ d = m /\ (~IsDemanded(m, n) \/ ~Opens(m.pending[n], row))
            \/ /\ IsDemanded(m, n) /\ Opens(m.pending[n], row) /\ ~Closes(m.pending[n], row)
               /\ OnlyYear(d, m, n) /\ d.pending[n] = half /\ ReadsWhole(d, top)
            \/ /\ IsDemanded(m, n) /\ Opens(m.pending[n], row) /\ Closes(m.pending[n], row)
               /\ OnlyYear(d, m, n) /\ d.pending[n] = NotOpen
               /\ WholeBy(n, half.points, top) => ReadsWhole(d, top)
<1> DEFINE d == AcceptDaily(m, n, row)
           half == Buffered(m.pending[n], row)
<1>1. CASE ~IsDemanded(m, n) \/ ~Opens(m.pending[n], row)
  BY <1>1 DEF AcceptDaily
<1>2. ASSUME IsDemanded(m, n), Opens(m.pending[n], row), ~Closes(m.pending[n], row)
      PROVE  OnlyYear(d, m, n) /\ d.pending[n] = half /\ ReadsWhole(d, top)
  <2>1. d = [m EXCEPT !.pending[n] = half]
    BY <1>2 DEF AcceptDaily
  <2>2. m.pending[n] \in HalfSet
    BY DEF RelayShape
  <2>3. half \in HalfSet
    BY <2>2, BufferedIs
  <2> HIDE DEF half, d
  <2>4. RelayShape(d) /\ d.reads = m.reads /\ d.cache = m.cache
        /\ d.pending[n] = half /\ \A x \in Series \ {n} : d.pending[x] = m.pending[x]
    BY <2>1, <2>3, PendingChanges
  <2> QED
    BY <2>4 DEF OnlyYear, ReadsWhole, Registered
<1>3. ASSUME IsDemanded(m, n), Opens(m.pending[n], row), Closes(m.pending[n], row)
      PROVE  /\ OnlyYear(d, m, n) /\ d.pending[n] = NotOpen
             /\ WholeBy(n, half.points, top) => ReadsWhole(d, top)
  <2> DEFINE e == [m EXCEPT !.pending[n] = NotOpen]
  <2>1. d = Deliver(e, n, half.points)
    BY <1>3 DEF AcceptDaily
  <2>2. RelayShape(e) /\ e.reads = m.reads /\ e.cache = m.cache
        /\ e.pending[n] = NotOpen /\ \A x \in Series \ {n} : e.pending[x] = m.pending[x]
    BY NotOpenIs, PendingChanges
  <2> HIDE DEF e, half, d
  <2>3. RelayShape(d) /\ d.pending = e.pending /\ d.cache = e.cache /\ Registered(d) = Registered(e)
    BY <2>1, <2>2, DeliverIs
  <2>4. ReadsWhole(e, top)
    BY <2>2 DEF ReadsWhole
  <2>5. WholeBy(n, half.points, top) => ReadsWhole(d, top)
    BY <2>1, <2>2, <2>4, DeliverWhole
  <2> QED
    BY <2>2, <2>3, <2>5 DEF OnlyYear, Registered
<1> HIDE DEF d, half
<1> QED
  BY <1>1, <1>2, <1>3 DEF d, half

\* A row of a year arrives, of a symbol with history.
LEMMA YearRow ==
  ASSUME NEW m, RelayShape(m), NEW n \in Series \ Bare, NEW top \in Nat, ReadsWhole(m, top),
         NEW w \in Seq(FeedRows), w # <<>>, YearQueue(w, top),
         HalfYear(m.pending[n], w, top), m.pending[n].open = TRUE => IsDemanded(m, n)
  PROVE  LET d == DailyRow(m, n, Head(w))
         IN /\ OnlyYear(d, m, n) /\ ReadsWhole(d, top) /\ HalfYear(d.pending[n], Tail(w), top)
            /\ d.pending[n].open = TRUE => /\ IsDemanded(m, n)
                                           /\ Tail(w) = <<>> => ~EndsWhole(w)
<1> DEFINE row == w[1]
           p == m.pending[n]
           half == Buffered(p, row)
           d == DailyRow(m, n, row)
           u == Tail(w)
           Goal == /\ OnlyYear(d, m, n) /\ ReadsWhole(d, top) /\ HalfYear(d.pending[n], u, top)
                   /\ d.pending[n].open = TRUE => IsDemanded(m, n) /\ (u = <<>> => ~EndsWhole(w))
<1>0. Bars \in Nat /\ Bars >= 2 /\ n \in Series
  BY SeriesAssumption
<1>1. /\ Len(w) \in Nat /\ Len(w) >= 1 /\ Head(w) = row /\ row \in FeedRows
      /\ u \in Seq(FeedRows) /\ Len(u) = Len(w) - 1
      /\ \A i \in 1..(Len(w) - 1) : u[i] = w[i + 1]
      /\ (u = <<>> <=> Len(w) = 1)
  BY TailIs
<1>2. p \in HalfSet
  BY <1>0 DEF RelayShape
<1>3. OnlyYear(m, m, n)
  BY DEF OnlyYear
<1>4. ASSUME p.open # TRUE, d = m PROVE Goal
  BY <1>3, <1>4 DEF HalfYear
<1>5. IsDayBar(row, top) \/ IsTick(row)
  BY <1>1 DEF YearQueue
<1>6. ASSUME IsTick(row) PROVE Goal
  <2>1. row.time \in 1..Bars /\ ~Begins(row) /\ row.flags \cap {"begin", "end"} = {}
    BY <1>0, <1>6 DEF IsTick, Begins
  <2>2. p.open # TRUE
    <3> SUFFICES ASSUME p.open = TRUE PROVE FALSE
      OBVIOUS
    <3>1. PICK k \in 1..(Bars - 1), v \in 1..top : Begins(row) \/ row = DayBar(Bars - k, v)
      BY DEF HalfYear
    <3>2. Bars - k \in 1..Bars /\ v \in Nat \ {0}
      BY <1>0
    <3> QED
      BY <1>6, <2>1, <3>1, <3>2, DayBarIs
  <2>3. ~Opens(p, row)
    BY <1>2, <2>1, <2>2 DEF Opens, Begins, HalfSet
  <2>4. d = m
    BY <2>1, <2>3 DEF DailyRow, AcceptDaily
  <2> QED
    BY <1>4, <2>2, <2>4
<1>7. ASSUME IsDayBar(row, top) PROVE Goal
  <2>1. PICK t \in 1..Bars, v \in 1..top : row = DayBar(t, v)
    BY <1>7 DEF IsDayBar
  <2>2. v \in Nat \ {0} /\ t \in Nat
    BY <1>0
  <2>3. /\ row.time = t /\ row.close = v /\ (Begins(row) <=> t = Bars) /\ ("end" \in row.flags <=> t = 1)
        /\ "remove" \notin row.flags /\ "pending" \notin row.flags /\ ~IsTick(row)
    BY <2>1, <2>2, DayBarIs DEF Begins
  <2>4. d = AcceptDaily(m, n, row)
    BY <2>2, <2>3 DEF DailyRow, Publishes, NoClose
  <2>5. row = Row(row.flags, t, v)
    BY <2>1 DEF DayBar, Row
  <2>6. ASSUME Opens(p, row)
        PROVE  /\ half \in HalfSet /\ half.points = Top(Bars - t + 1, v) /\ half.open = TRUE
               /\ half.endSeen = TRUE <=> t = 1
    <3>1. /\ half \in HalfSet /\ half.open = TRUE
          /\ half.points = UpdateCandleSeries(IF Begins(row) THEN {} ELSE p.points, row)
          /\ half.endSeen = TRUE <=> ("end" \in row.flags \/ (~Begins(row) /\ p.endSeen = TRUE))
      BY <1>1, <1>2, <2>3, <2>6, BufferedIs
    <3>2. CASE t = Bars
      <4>1. half.points = UpdateCandleSeries({}, Row(row.flags, Bars, v))
        BY <2>3, <2>5, <3>1, <3>2
      <4>2. half.points = Top(1, v)
        BY <2>2, <2>3, <4>1, TopBegins
      <4> QED
        BY <1>0, <2>3, <3>1, <3>2, <4>2
    <3>3. CASE t # Bars
      <4>1. p.open = TRUE
        BY <1>2, <2>3, <2>6, <3>3 DEF Opens, Begins, HalfSet
      <4>2. PICK k \in 1..(Bars - 1), v2 \in 1..top :
              p.points = Top(k, v2) /\ (Begins(row) \/ row = DayBar(Bars - k, v2))
        BY <4>1 DEF HalfYear
      <4>3. Bars - k \in 1..Bars /\ v2 \in Nat \ {0}
        BY <1>0
      <4>4. t = Bars - k /\ v = v2
        BY <2>3, <3>3, <4>2, <4>3, DayBarIs
      <4>5. half.points = UpdateCandleSeries(Top(k, v), Row(row.flags, Bars - k, v))
        BY <2>3, <2>5, <3>1, <3>3, <4>2, <4>4
      <4>6. half.points = Top(k + 1, v)
        BY <2>2, <2>3, <4>5, TopGrows
      <4>7. k + 1 = Bars - t + 1
        BY <1>0, <4>4
      <4>8. p.endSeen = FALSE
        BY <4>1 DEF HalfYear
      <4> QED
        BY <2>3, <3>1, <3>3, <4>6, <4>7, <4>8
    <3> QED
      BY <3>2, <3>3
  <2>7. ASSUME Opens(p, row) PROVE Closes(p, row) <=> half.endSeen = TRUE
    BY <2>3, <2>6, <2>7 DEF Closes, HalfSet
  <2>8. \/ d = m /\ (~IsDemanded(m, n) \/ ~Opens(p, row))
        \/ /\ IsDemanded(m, n) /\ Opens(p, row) /\ ~Closes(p, row)
           /\ OnlyYear(d, m, n) /\ d.pending[n] = half /\ ReadsWhole(d, top)
        \/ /\ IsDemanded(m, n) /\ Opens(p, row) /\ Closes(p, row)
           /\ OnlyYear(d, m, n) /\ d.pending[n] = NotOpen
           /\ WholeBy(n, half.points, top) => ReadsWhole(d, top)
    BY <1>0, <1>1, <2>3, <2>4, AcceptDailyIs
  <2>9. ASSUME ~IsDemanded(m, n) \/ ~Opens(p, row) PROVE p.open # TRUE
    BY <2>9 DEF Opens
  <2> HIDE DEF d, half
  <2>10. ASSUME IsDemanded(m, n), Opens(p, row), ~Closes(p, row),
                OnlyYear(d, m, n), d.pending[n] = half, ReadsWhole(d, top)
         PROVE  Goal
    <3>1. t # 1 /\ half.endSeen = FALSE /\ half.points = Top(Bars - t + 1, v)
      BY <2>6, <2>7, <2>10 DEF HalfSet
    <3>2. Bars - t + 1 \in 1..(Bars - 1) /\ Bars - (Bars - t + 1) = t - 1
      BY <1>0, <2>2, <3>1
    <3>3. u # <<>> => Begins(u[1]) \/ u[1] = DayBar(t - 1, v)
      <4> SUFFICES ASSUME u # <<>>, ~Begins(u[1]) PROVE u[1] = DayBar(t - 1, v)
        OBVIOUS
      <4>1. u[1] = w[1 + 1] /\ 1 \in 1..(Len(w) - 1)
        BY <1>1
      <4>2. PICK t2 \in 1..(Bars - 1), v2 \in 1..top : row = DayBar(t2 + 1, v2) /\ w[1 + 1] = DayBar(t2, v2)
        BY <2>3, <3>1, <4>1 DEF YearQueue, NextBar, Ended
      <4>3. t2 + 1 \in 1..Bars /\ v2 \in Nat \ {0} /\ t2 \in Nat
        BY <1>0
      <4>4. t2 + 1 = t /\ v2 = v
        BY <2>3, <4>2, <4>3, DayBarIs
      <4> QED
        BY <2>2, <4>1, <4>2, <4>3, <4>4
    <3>4. HalfYear(half, u, top)
      BY <3>1, <3>2, <3>3 DEF HalfYear
    <3>5. u = <<>> => ~EndsWhole(w)
      BY <1>1, <2>3, <3>1 DEF EndsWhole, Ended
    <3> QED
      BY <2>10, <3>4, <3>5
  <2>11. ASSUME IsDemanded(m, n), Opens(p, row), Closes(p, row), OnlyYear(d, m, n), d.pending[n] = NotOpen,
                WholeBy(n, half.points, top) => ReadsWhole(d, top)
         PROVE  Goal
    <3>1. t = 1 /\ half.points = Top(Bars - t + 1, v)
      BY <2>6, <2>7, <2>11 DEF HalfSet
    <3>2. half.points = {[time |-> x, close |-> v] : x \in (Bars - Limit + 1)..Bars}
      BY <1>0, <3>1, TopWhole
    <3>3. WholeBy(n, half.points, top)
      BY <3>2 DEF WholeBy
    <3> QED
      BY <2>11, <3>3, NotOpenIs DEF HalfYear
  <2> HIDE DEF Goal
  <2> QED
    BY <1>4, <2>8, <2>9, <2>10, <2>11
<1>8. Goal
  BY <1>5, <1>6, <1>7
<1> QED
  BY <1>1, <1>8

\* A row of the year of a symbol without any.
LEMMA BareRow ==
  ASSUME NEW m, RelayShape(m), NEW n \in Series \cap Bare, NEW top \in Nat, ReadsWhole(m, top),
         m.pending[n].open = FALSE, NEW row, row = Row({"begin", "end", "remove"}, 0, NoClose)
  PROVE  LET d == DailyRow(m, n, row)
         IN OnlyYear(d, m, n) /\ ReadsWhole(d, top) /\ d.pending[n].open = FALSE
<1> DEFINE p == m.pending[n]
           half == Buffered(p, row)
           d == AcceptDaily(m, n, row)
<1>0. Bars \in Nat /\ n \in Series
  BY SeriesAssumption
<1>1. row \in FeedRows /\ row.close = 0 /\ row.time = 0 /\ row.flags = {"begin", "end", "remove"}
  BY <1>0 DEF Row, FeedRows, NoClose
<1>2. row = [row EXCEPT !.flags = row.flags \cup {"remove"}]
  BY <1>1 DEF FeedRows
<1>3. DailyRow(m, n, row) = d
  BY <1>1, <1>2 DEF DailyRow, Publishes
<1>4. p \in HalfSet
  BY <1>0 DEF RelayShape
<1>5. half \in HalfSet /\ half.endSeen = TRUE /\ half.points = UpdateCandleSeries({}, row)
  BY <1>1, <1>4, BufferedIs DEF Begins
<1>6. half.points = {}
  BY <1>1, <1>5, UpdateOfNothing
<1>7. WholeBy(n, half.points, top) /\ Closes(p, row)
  BY <1>1, <1>5, <1>6 DEF WholeBy, Closes
<1>8. \/ d = m
      \/ OnlyYear(d, m, n) /\ d.pending[n] = NotOpen /\ (WholeBy(n, half.points, top) => ReadsWhole(d, top))
  BY <1>0, <1>1, <1>7, AcceptDailyIs
<1>9. OnlyYear(m, m, n)
  BY DEF OnlyYear
<1> HIDE DEF d, half
<1> QED
  BY <1>3, <1>7, <1>8, <1>9, NotOpenIs

(***************************************************************************)
(* Queues that are cut and queues that grow                                *)
(***************************************************************************)

LEMMA ConcatIs ==
  ASSUME NEW w \in Seq(FeedRows), NEW f \in Seq(FeedRows)
  PROVE  /\ w \o f \in Seq(FeedRows) /\ Len(w \o f) = Len(w) + Len(f) /\ Len(w) \in Nat /\ Len(f) \in Nat
         /\ \A i \in 1..Len(w) : (w \o f)[i] = w[i]
         /\ \A i \in (Len(w) + 1)..(Len(w) + Len(f)) : (w \o f)[i] = f[i - Len(w)]
<1>1. Len(w) \in Nat /\ Len(f) \in Nat
  BY LenProperties
<1> QED
  BY <1>1, ConcatProperties

LEMMA EmptyIs ==
  ASSUME NEW w \in Seq(FeedRows)
  PROVE  Len(w) \in Nat /\ (w = <<>> <=> Len(w) = 0)
<1>1. Len(w) \in Nat
  BY LenProperties
<1> QED
  BY <1>1, EmptySeq

LEMMA CutIs ==
  ASSUME NEW w \in Seq(FeedRows), NEW c \in 0..Len(w)
  PROVE  /\ SubSeq(w, 1, c) \in Seq(FeedRows) /\ Len(SubSeq(w, 1, c)) = c
         /\ \A i \in 1..c : SubSeq(w, 1, c)[i] = w[i]
         /\ Len(w) \in Nat
<1>1. Len(w) \in Nat
  BY LenProperties
<1>2. CASE c = 0
  <2>1. SubSeq(w, 1, c) = <<>>
    BY <1>2, SubSeqEmpty
  <2> QED
    BY <1>1, <1>2, <2>1, EmptySeq
<1>3. CASE c # 0
  <2>1. c \in 1..Len(w) /\ c \in Nat
    BY <1>1, <1>3
  <2>2. \A i \in 1..c : w[i] \in FeedRows
    BY <1>1, <2>1, ElementOfSeq
  <2>3. SubSeq(w, 1, c) = [i \in 1..c |-> w[i]]
    BY <1>1, <2>1
  <2> QED
    BY <1>1, <2>1, <2>2, <2>3
<1> QED
  BY <1>2, <1>3

\* The rows of a snapshot that a row with a price ends.
BarsDown(flags, v) ==
  [i \in 1..Bars |-> Row(IF i = 1 THEN {"begin"} ELSE IF i = Bars THEN flags ELSE {}, Bars + 1 - i, v)]

LEMMA BarsDownIs ==
  ASSUME NEW flags \in SUBSET {"begin", "end", "pending", "remove"}, NEW v \in Nat
  PROVE  /\ BarsDown(flags, v) \in Seq(FeedRows) /\ Len(BarsDown(flags, v)) = Bars
         /\ \A i \in 1..Bars : BarsDown(flags, v)[i]
              = Row(IF i = 1 THEN {"begin"} ELSE IF i = Bars THEN flags ELSE {}, Bars + 1 - i, v)
<1>1. Bars \in Nat /\ Bars >= 2
  BY SeriesAssumption
<1>2. \A i \in 1..Bars : Row(IF i = 1 THEN {"begin"} ELSE IF i = Bars THEN flags ELSE {}, Bars + 1 - i, v) \in FeedRows
  BY <1>1 DEF Row, FeedRows
<1> QED
  BY <1>1, <1>2 DEF BarsDown

LEMMA FullSnapshotIs ==
  ASSUME NEW v \in Nat
  PROVE  /\ FullSnapshot("priced", v) = BarsDown({"end"}, v)
         /\ FullSnapshot("pending", v) = Append(BarsDown({"end", "pending"}, v), Row({}, 1, v))
         /\ FullSnapshot("quiet", v) = Append(BarsDown({}, v), Row({"end"}, 0, NoClose))
BY DEF FullSnapshot, BarsDown

LEMMA SnapshotIsRows ==
  ASSUME NEW st \in Streams, NEW end \in EndRows, NEW observed \in BOOLEAN, NEW v \in Nat
  PROVE  Snapshot(st, end, observed, v) \in Seq(FeedRows)
<1>1. Bars \in Nat /\ Bars >= 2 /\ end \in {"priced", "pending", "quiet"}
  BY SeriesAssumption
<1>2. Row({}, Bars, v) \in FeedRows /\ Row({"begin", "end", "remove"}, 0, NoClose) \in FeedRows
      /\ Row({}, 1, v) \in FeedRows /\ Row({"end"}, 0, NoClose) \in FeedRows
  BY <1>1 DEF Row, FeedRows, NoClose
<1>3. BarsDown({"end"}, v) \in Seq(FeedRows) /\ BarsDown({"end", "pending"}, v) \in Seq(FeedRows)
      /\ BarsDown({}, v) \in Seq(FeedRows)
  BY BarsDownIs
<1>4. FullSnapshot("priced", v) \in Seq(FeedRows)
  BY <1>3, FullSnapshotIs
<1>5. FullSnapshot("pending", v) \in Seq(FeedRows)
  <2>1. \A f \in Seq(FeedRows), row \in FeedRows : Append(f, row) \in Seq(FeedRows)
    BY AppendProperties
  <2> QED
    BY <1>2, <1>3, <2>1, FullSnapshotIs
<1>6. FullSnapshot("quiet", v) \in Seq(FeedRows)
  <2>1. \A f \in Seq(FeedRows), row \in FeedRows : Append(f, row) \in Seq(FeedRows)
    BY AppendProperties
  <2> QED
    BY <1>2, <1>3, <2>1, FullSnapshotIs
<1>7. FullSnapshot(end, v) \in Seq(FeedRows)
  BY <1>1, <1>4, <1>5, <1>6
<1>8. EmptySnapshot \in Seq(FeedRows) /\ <<Row({}, Bars, v)>> \in Seq(FeedRows) /\ <<>> \in Seq(FeedRows)
  BY <1>2, EmptySeq DEF EmptySnapshot
<1> QED
  BY <1>4, <1>7, <1>8 DEF Snapshot

\* The rows of a year.
LEMMA YearSnapshot ==
  ASSUME NEW v \in Nat \ {0}
  PROVE  LET f == FullSnapshot("priced", v)
         IN f \in Seq(FeedRows) /\ Len(f) = Bars /\ \A i \in 1..Bars : f[i] = DayBar(Bars + 1 - i, v)
<1>1. Bars \in Nat /\ Bars >= 2
  BY SeriesAssumption
<1> DEFINE f == FullSnapshot("priced", v)
<1>2. /\ f \in Seq(FeedRows) /\ Len(f) = Bars
      /\ \A i \in 1..Bars : f[i]
           = Row(IF i = 1 THEN {"begin"} ELSE IF i = Bars THEN {"end"} ELSE {}, Bars + 1 - i, v)
  <2>1. {"end"} \in SUBSET {"begin", "end", "pending", "remove"} /\ v \in Nat
    OBVIOUS
  <2>2. f = BarsDown({"end"}, v)
    BY <2>1, FullSnapshotIs
  <2> HIDE DEF f
  <2> QED
    BY <2>1, <2>2, BarsDownIs
<1> HIDE DEF f
<1>3. ASSUME NEW i \in 1..Bars PROVE f[i] = DayBar(Bars + 1 - i, v)
  <2>1. (i = 1 <=> Bars + 1 - i = Bars) /\ (i = Bars <=> Bars + 1 - i = 1)
    BY <1>1
  <2> QED
    BY <1>2, <2>1 DEF DayBar
<1> QED
  BY <1>2, <1>3 DEF f

LEMMA YearAppended ==
  ASSUME NEW w \in Seq(FeedRows), NEW top \in Nat, YearQueue(w, top), NEW p, HalfYear(p, w, top)
  PROVE  LET f == w \o FullSnapshot("priced", top + 1)
         IN YearQueue(f, top + 1) /\ EndsWhole(f) /\ HalfYear(p, f, top + 1) /\ f # <<>> /\ f \in Seq(FeedRows)
<1> DEFINE v == top + 1
           y == FullSnapshot("priced", v)
           f == w \o y
<1>0. Bars \in Nat /\ Bars >= 2 /\ v \in Nat \ {0} /\ v \in 1..v
  BY SeriesAssumption
<1>1. y \in Seq(FeedRows) /\ Len(y) = Bars /\ \A i \in 1..Bars : y[i] = DayBar(Bars + 1 - i, v)
  BY <1>0, YearSnapshot
<1> HIDE DEF v, y
<1>2. /\ f \in Seq(FeedRows) /\ Len(f) = Len(w) + Bars /\ Len(w) \in Nat
      /\ \A i \in 1..Len(w) : f[i] = w[i]
      /\ \A i \in (Len(w) + 1)..(Len(w) + Bars) : f[i] = y[i - Len(w)]
  BY <1>1, ConcatIs
<1> HIDE DEF f
<1> DEFINE l == Len(w)
<1> HIDE DEF l
<1>3. l \in Nat /\ Len(f) = l + Bars /\ \A i \in 1..l : f[i] = w[i]
  BY <1>2 DEF l
<1>4. \A i \in (l + 1)..(l + Bars), t \in 1..Bars : t = Bars + 1 - (i - l) => f[i] = DayBar(t, v)
  <2> SUFFICES ASSUME NEW i \in (l + 1)..(l + Bars) PROVE f[i] = DayBar(Bars + 1 - (i - l), v)
    OBVIOUS
  <2>1. i - l \in 1..Bars
    BY <1>0, <1>3
  <2>2. f[i] = y[i - l]
    BY <1>2 DEF l
  <2> QED
    BY <1>1, <2>1, <2>2
<1>5. \A k \in 1..top : k \in 1..v
  BY <1>0 DEF v
<1>6. ASSUME NEW i \in 1..Len(f) PROVE IsDayBar(f[i], v) \/ IsTick(f[i])
  <2>1. CASE i \in 1..l
    BY <1>3, <1>5, <2>1 DEF YearQueue, IsDayBar, l
  <2>2. CASE i \in (l + 1)..(l + Bars)
    <3>1. Bars + 1 - (i - l) \in 1..Bars
      BY <1>0, <1>3, <2>2
    <3> QED
      BY <1>0, <1>4, <2>2, <3>1 DEF IsDayBar
  <2> QED
    BY <1>0, <1>3, <2>1, <2>2
<1>7. ASSUME NEW i \in 1..(Len(f) - 1)
      PROVE  Begins(f[i + 1]) \/ NextBar(f[i], f[i + 1], v) \/ (IsTick(f[i + 1]) /\ Ended(f[i]))
  <2>0. l + Bars \in Nat /\ i \in Nat /\ i <= l + Bars - 1 /\ i >= 1
    BY <1>0, <1>3
  <2>1. CASE i + 1 <= l
    <3>1. i \in 1..l /\ i + 1 \in 1..l /\ i \in 1..(l - 1)
      BY <1>3, <2>0, <2>1
    <3> QED
      BY <1>3, <1>5, <3>1 DEF YearQueue, NextBar, l
  <2>2. CASE i = l
    <3>1. i + 1 \in (l + 1)..(l + Bars) /\ Bars = Bars + 1 - (i + 1 - l) /\ Bars \in 1..Bars
      BY <1>0, <1>3, <2>2
    <3>2. \A x \in (l + 1)..(l + Bars) : Bars = Bars + 1 - (x - l) => f[x] = DayBar(Bars, v)
      BY <1>4, <3>1
    <3>4. f[i + 1] = DayBar(Bars, v)
      BY <1>0, <1>3, <2>0, <3>1, <3>2
    <3> QED
      BY <1>0, <3>1, <3>4, DayBarIs DEF Begins
  <2>3. CASE i > l
    <3> DEFINE t == Bars + 1 - (i + 1 - l)
    <3>0. l \in Nat /\ Bars \in Nat /\ i \in Nat /\ i + 1 <= l + Bars /\ i >= l + 1
      BY <1>0, <1>3, <2>0, <2>3
    <3>a. i \in (l + 1)..(l + Bars) /\ i + 1 \in (l + 1)..(l + Bars)
      BY <3>0
    <3>b. t \in Nat /\ t >= 1 /\ t <= Bars - 1 /\ Bars + 1 - (i - l) = t + 1
      BY <3>0
    <3>c. t \in 1..(Bars - 1) /\ t \in 1..Bars /\ t + 1 \in 1..Bars
      BY <3>0, <3>b
    <3>1. /\ i \in (l + 1)..(l + Bars) /\ i + 1 \in (l + 1)..(l + Bars)
          /\ t \in 1..(Bars - 1) /\ t \in 1..Bars /\ t + 1 \in 1..Bars /\ Bars + 1 - (i - l) = t + 1
      BY <3>a, <3>b, <3>c
    <3>2. f[i + 1] = DayBar(t, v) /\ f[i] = DayBar(t + 1, v)
      BY <1>0, <1>3, <1>4, <2>0, <3>1
    <3> HIDE DEF t
    <3> QED
      BY <1>0, <3>1, <3>2 DEF NextBar
  <2> QED
    BY <1>3, <2>0, <2>1, <2>2, <2>3
<1>8. EndsWhole(f) /\ f # <<>>
  <2>1. l + Bars \in (l + 1)..(l + Bars) /\ Bars + 1 - (l + Bars - l) = 1 /\ l + Bars # 0 /\ 1 \in 1..Bars
    BY <1>0, <1>3
  <2>2. f[Len(f)] = DayBar(1, v)
    BY <1>0, <1>3, <1>4, <2>1
  <2>3. f[Len(f)].time = 1
    BY <1>0, <2>1, <2>2, DayBarIs
  <2>4. f # <<>>
    BY <1>2, <1>3, <2>1, EmptyIs
  <2> QED
    BY <2>3, <2>4 DEF EndsWhole, Ended
<1>9. Begins(f[1]) \/ (w # <<>> /\ f[1] = w[1])
  <2>1. CASE w = <<>>
    <3>1. l = 0 /\ 1 \in (l + 1)..(l + Bars) /\ Bars + 1 - (1 - l) = Bars /\ Bars \in 1..Bars
      BY <1>0, <2>1, EmptyIs DEF l
    <3>2. f[1] = DayBar(Bars, v)
      BY <1>4, <3>1
    <3> QED
      BY <1>0, <3>1, <3>2, DayBarIs DEF Begins
  <2>2. CASE w # <<>>
    <3>1. 1 \in 1..l
      BY <1>3, <2>2, EmptyIs DEF l
    <3> QED
      BY <1>3, <2>2, <3>1
  <2> QED
    BY <2>1, <2>2
<1>10. HalfYear(p, f, v)
  BY <1>5, <1>9 DEF HalfYear
<1> QED
  BY <1>2, <1>6, <1>7, <1>8, <1>10 DEF YearQueue, f, y, v

LEMMA YearLater ==
  ASSUME NEW w, NEW p, NEW top \in Nat, NEW later \in Nat, top <= later, YearQueue(w, top), HalfYear(p, w, top)
  PROVE  YearQueue(w, later) /\ HalfYear(p, w, later)
<1>1. \A v \in 1..top : v \in 1..later
  OBVIOUS
<1>2. YearQueue(w, later)
  BY <1>1 DEF YearQueue, IsDayBar, NextBar
<1>3. HalfYear(p, w, later)
  BY <1>1 DEF HalfYear
<1> QED
  BY <1>2, <1>3

LEMMA YearCut ==
  ASSUME NEW w \in Seq(FeedRows), NEW p, NEW top, YearQueue(w, top), HalfYear(p, w, top), NEW c \in 0..Len(w)
  PROVE  LET f == SubSeq(w, 1, c) IN YearQueue(f, top) /\ HalfYear(p, f, top) /\ f \in Seq(FeedRows)
<1> DEFINE f == SubSeq(w, 1, c)
<1>1. f \in Seq(FeedRows) /\ Len(f) = c /\ (\A i \in 1..c : f[i] = w[i]) /\ Len(w) \in Nat /\ c \in Nat
  BY CutIs
<1> HIDE DEF f
<1>2. \A i \in 1..c : i \in 1..Len(w)
  BY <1>1
<1>3. \A i \in 1..(c - 1) : i \in 1..(Len(w) - 1) /\ i \in 1..c /\ i + 1 \in 1..c
  BY <1>1
<1>4. YearQueue(f, top)
  BY <1>1, <1>2, <1>3 DEF YearQueue
<1>5. f # <<>> => w # <<>> /\ f[1] = w[1]
  <2> SUFFICES ASSUME f # <<>> PROVE w # <<>> /\ f[1] = w[1]
    OBVIOUS
  <2>1. 1 \in 1..c /\ Len(w) # 0
    BY <1>1, EmptyIs
  <2> QED
    BY <1>1, <2>1, EmptyIs
<1>6. HalfYear(p, f, top)
  BY <1>5 DEF HalfYear
<1> QED
  BY <1>1, <1>4, <1>6 DEF f

\* A later bar behind what is left of a year that is still asked for.
LEMMA YearTicked ==
  ASSUME NEW w \in Seq(FeedRows), NEW top \in Nat, YearQueue(w, top), EndsWhole(w), NEW p, HalfYear(p, w, top),
         p.open = TRUE => w # <<>>, NEW row \in FeedRows, IsTick(row)
  PROVE  LET f == Append(w, row)
         IN YearQueue(f, top) /\ EndsWhole(f) /\ HalfYear(p, f, top) /\ f # <<>> /\ f \in Seq(FeedRows)
<1> DEFINE f == Append(w, row)
           l == Len(w)
<1>1. f \in Seq(FeedRows) /\ Len(f) = l + 1 /\ l \in Nat /\ f[l + 1] = row /\ \A i \in 1..l : f[i] = w[i]
  BY LenProperties, AppendProperties
<1>2. w = <<>> <=> l = 0
  BY EmptyIs
<1> HIDE DEF f, l
<1>3. f # <<>>
  BY <1>1, EmptyIs
<1>4. ASSUME NEW i \in 1..Len(f) PROVE IsDayBar(f[i], top) \/ IsTick(f[i])
  <2>1. i \in 1..l \/ i = l + 1
    BY <1>1
  <2> QED
    BY <1>1, <2>1 DEF YearQueue, l
<1>5. ASSUME NEW i \in 1..(Len(f) - 1)
      PROVE  Begins(f[i + 1]) \/ NextBar(f[i], f[i + 1], top) \/ (IsTick(f[i + 1]) /\ Ended(f[i]))
  <2>1. CASE i = l
    <3>1. l \in 1..l /\ w # <<>>
      BY <1>1, <1>2, <2>1
    <3> QED
      BY <1>1, <2>1, <3>1 DEF EndsWhole, l
  <2>2. CASE i # l
    <3>1. i \in 1..(l - 1) /\ i \in 1..l /\ i + 1 \in 1..l
      BY <1>1, <2>2
    <3> QED
      BY <1>1, <3>1 DEF YearQueue, l
  <2> QED
    BY <2>1, <2>2
<1>6. EndsWhole(f)
  BY <1>1 DEF EndsWhole, Ended
<1>7. w # <<>> => f[1] = w[1]
  <2>1. w # <<>> => 1 \in 1..l
    BY <1>1, <1>2
  <2> QED
    BY <1>1, <2>1
<1>8. HalfYear(p, f, top)
  BY <1>3, <1>7 DEF HalfYear
<1> QED
  BY <1>1, <1>3, <1>4, <1>5, <1>6, <1>8 DEF f, YearQueue

(***************************************************************************)
(* The years of reads are whole                                            *)
(***************************************************************************)

PageSet == [socket : {"none", "accepted", "joined"}, buffer : [Watched -> HalfSet],
            chart : [Watched -> SUBSET Point]]

SeriesShape ==
  /\ streams \in SUBSET Streams /\ up \in BOOLEAN /\ owed \in BOOLEAN /\ sent \in Nat
  /\ wire \in [Streams -> Seq(FeedRows)] /\ RelayShape(relay) /\ browsers \in [Browsers -> PageSet]

Year(n) == Stream(n, "daily")
EmptyRow == Row({"begin", "end", "remove"}, 0, NoClose)

YearHolds(n) ==
  /\ YearQueue(wire[Year(n)], sent) /\ HalfYear(relay.pending[n], wire[Year(n)], sent)
  /\ Year(n) \in streams => EndsWhole(wire[Year(n)])
  /\ relay.pending[n].open = TRUE => /\ IsDemanded(relay, n)
                                     /\ wire[Year(n)] = <<>> => Year(n) \notin streams

BareHolds(n) ==
  relay.pending[n].open = FALSE /\ \A i \in 1..Len(wire[Year(n)]) : wire[Year(n)][i] = EmptyRow

YearsHold ==
  /\ \A n \in Series \ Bare : YearHolds(n)
  /\ \A n \in Series \cap Bare : BareHolds(n)

YearsIInv == SeriesShape /\ YearsHold /\ ReadsWhole(relay, sent)

LEMMA StreamsAre ==
  /\ \A n \in Series : Year(n) \in Streams
  /\ \A n \in Watched : Stream(n, "intraday") \in Streams
  /\ \A st \in Streams : \/ st.period = "daily" /\ st.name \in Series /\ st = Year(st.name)
                         \/ st.period = "intraday" /\ st.name \in Watched /\ st = Stream(st.name, "intraday")
                         \/ st.period = "greeks" /\ st.name \in Contracts
  /\ \A n, x : (Year(n) = Year(x) => n = x) /\ Year(n) # Stream(x, "intraday") /\ Year(n).period = "daily"
               /\ Year(n).name = n
  /\ \A n, x : Stream(n, "intraday") = Stream(x, "intraday") => n = x
<1>1. \A n \in Series : Year(n) \in Streams
  BY DEF Streams, Year
<1>2. \A n \in Watched : Stream(n, "intraday") \in Streams
  BY DEF Streams
<1>3. \A n, period : Stream(n, period).name = n /\ Stream(n, period).period = period
  BY DEF Stream
<1>4. ASSUME NEW st \in Streams
      PROVE  \/ st.period = "daily" /\ st.name \in Series /\ st = Year(st.name)
             \/ st.period = "intraday" /\ st.name \in Watched /\ st = Stream(st.name, "intraday")
             \/ st.period = "greeks" /\ st.name \in Contracts
  <2>1. CASE \E n \in Watched : st = Stream(n, "intraday")
    BY <1>3, <2>1
  <2>2. CASE \E n \in Series : st = Stream(n, "daily")
    BY <1>3, <2>2 DEF Year
  <2>3. CASE \E n \in Contracts : st = Stream(n, "greeks")
    BY <1>3, <2>3
  <2> QED
    BY <2>1, <2>2, <2>3 DEF Streams
<1>5. \A n, x : (Year(n) = Year(x) => n = x) /\ Year(n) # Stream(x, "intraday") /\ Year(n).period = "daily"
                /\ Year(n).name = n
  BY DEF Year, Stream
<1>6. \A n, x : Stream(n, "intraday") = Stream(x, "intraday") => n = x
  BY DEF Stream
<1> QED
  BY <1>1, <1>2, <1>4, <1>5, <1>6

LEMMA DesiredStreams ==
  Desired \in SUBSET Streams
BY SeriesAssumption DEF Desired, Streams, Stream

\* What one reconcile does to each stream's queue.
Synced(st) ==
  \/ wire'[st] = wire[st] /\ (st \in streams' => st \in streams)
  \/ st \notin streams' /\ \E c \in 0..Len(wire[st]) : wire'[st] = SubSeq(wire[st], 1, c)
  \/ /\ st \in streams' /\ st \notin streams /\ sent' = sent + 1
     /\ \E end \in EndRows, observed \in BOOLEAN : wire'[st] = wire[st] \o Snapshot(st, end, observed, sent + 1)

LEMMA SyncIs ==
  ASSUME SeriesShape, Sync
  PROVE  /\ streams' \in SUBSET Streams /\ up' \in BOOLEAN /\ owed' = FALSE /\ sent' \in Nat /\ sent <= sent'
         /\ wire' \in [Streams -> Seq(FeedRows)] /\ (up' = TRUE => streams' = Desired)
         /\ \A st \in Streams : Synced(st)
<1>0. /\ wire \in [Streams -> Seq(FeedRows)] /\ sent \in Nat /\ streams \in SUBSET Streams /\ up \in BOOLEAN
      /\ \A st \in Streams : wire[st] \in Seq(FeedRows)
  BY DEF SeriesShape
<1>1. ASSUME Desired = {}, up' = FALSE, streams' = {}, wire' = Quiet, UNCHANGED sent
      PROVE  wire' \in [Streams -> Seq(FeedRows)] /\ \A st \in Streams : Synced(st)
  <2>1. ASSUME NEW st \in Streams PROVE wire'[st] \in Seq(FeedRows) /\ Synced(st)
    <3>1. wire'[st] = <<>> /\ <<>> \in Seq(FeedRows)
      BY <1>1, EmptySeq DEF Quiet
    <3>2. SubSeq(wire[st], 1, 0) = <<>> /\ Len(wire[st]) \in Nat
      BY <1>0, SubSeqEmpty, LenProperties
    <3>3. 0 \in 0..Len(wire[st])
      BY <3>2
    <3> QED
      BY <1>1, <3>1, <3>2, <3>3 DEF Synced
  <2>2. wire' = [st \in Streams |-> wire'[st]]
    BY <1>1 DEF Quiet
  <2> QED
    BY <2>1, <2>2
<1>2. ASSUME NEW gone, gone = {s \in Streams \ Desired : wire[s] # <<>>},
             NEW cut \in [gone -> UNION {0..Len(wire[s]) : s \in gone}], \A s \in gone : cut[s] <= Len(wire[s]),
             NEW end \in EndRows, NEW observed \in BOOLEAN,
             wire' = Resubscribed(gone, cut, end, observed), streams' = Desired,
             sent' = IF Desired \ streams = {} THEN sent ELSE sent + 1
      PROVE  wire' \in [Streams -> Seq(FeedRows)] /\ \A st \in Streams : Synced(st)
  <2>1. ASSUME NEW st \in Streams PROVE wire'[st] \in Seq(FeedRows) /\ Synced(st)
    <3>0. wire'[st] = IF st \in gone THEN SubSeq(wire[st], 1, cut[st])
                      ELSE IF st \in Desired \ streams
                           THEN wire[st] \o Snapshot(st, end, observed, sent + 1)
                           ELSE wire[st]
      BY <1>2 DEF Resubscribed
    <3>1. CASE st \in gone
      <4>1. cut[st] \in UNION {0..Len(wire[s]) : s \in gone} /\ cut[st] <= Len(wire[st])
        BY <1>2, <3>1
      <4>2. \A s \in gone : Len(wire[s]) \in Nat
        BY <1>0, <1>2, LenProperties
      <4>3. cut[st] \in Nat
        BY <4>1, <4>2
      <4>4. cut[st] \in 0..Len(wire[st])
        BY <3>1, <4>1, <4>2, <4>3
      <4>5. wire'[st] = SubSeq(wire[st], 1, cut[st])
        BY <3>0, <3>1
      <4>6. SubSeq(wire[st], 1, cut[st]) \in Seq(FeedRows)
        BY <1>0, <4>4, CutIs
      <4>7. st \notin streams'
        BY <1>2, <3>1
      <4> QED
        BY <4>4, <4>5, <4>6, <4>7 DEF Synced
    <3>2. CASE st \notin gone /\ st \in Desired \ streams
      <4>1. wire'[st] = wire[st] \o Snapshot(st, end, observed, sent + 1)
        BY <3>0, <3>2
      <4>2. Snapshot(st, end, observed, sent + 1) \in Seq(FeedRows)
        BY <1>0, SnapshotIsRows
      <4>3. wire'[st] \in Seq(FeedRows)
        BY <1>0, <4>1, <4>2, ConcatIs
      <4>4. sent' = sent + 1 /\ st \in streams' /\ st \notin streams
        BY <1>2, <3>2
      <4> QED
        BY <4>1, <4>3, <4>4 DEF Synced
    <3>3. CASE st \notin gone /\ st \notin Desired \ streams
      <4>1. wire'[st] = wire[st]
        BY <3>0, <3>3
      <4> QED
        BY <1>0, <1>2, <3>3, <4>1 DEF Synced
    <3> QED
      BY <3>1, <3>2, <3>3
  <2>2. wire' = [st \in Streams |-> wire'[st]]
    BY <1>2 DEF Resubscribed
  <2> QED
    BY <2>1, <2>2
<1>3. \/ Desired = {} /\ up' = FALSE /\ streams' = {} /\ wire' = Quiet /\ UNCHANGED sent
      \/ /\ Desired # {} /\ up /\ UNCHANGED up /\ streams' = Desired
         /\ sent' = IF Desired \ streams = {} THEN sent ELSE sent + 1
  BY DEF Sync
<1>4. wire' \in [Streams -> Seq(FeedRows)] /\ \A st \in Streams : Synced(st)
  <2>1. CASE Desired = {} /\ up' = FALSE /\ streams' = {} /\ wire' = Quiet /\ UNCHANGED sent
    BY <1>1, <2>1
  <2>2. CASE Desired # {}
    <3> DEFINE gone == {s \in Streams \ Desired : wire[s] # <<>>}
    <3>1. PICK cut \in [gone -> UNION {0..Len(wire[s]) : s \in gone}], end \in EndRows, observed \in BOOLEAN :
            (\A s \in gone : cut[s] <= Len(wire[s])) /\ wire' = Resubscribed(gone, cut, end, observed)
      BY <2>2 DEF Sync
    <3>2. streams' = Desired /\ sent' = IF Desired \ streams = {} THEN sent ELSE sent + 1
      BY <1>3, <2>2
    <3> HIDE DEF gone
    <3>3. gone = {s \in Streams \ Desired : wire[s] # <<>>}
      BY DEF gone
    <3> QED
      BY <1>2, <3>1, <3>2, <3>3
  <2> QED
    BY <1>3, <2>1, <2>2
<1>5. sent' \in Nat /\ sent <= sent'
  BY <1>0, <1>3
<1>6. streams' \in SUBSET Streams /\ up' \in BOOLEAN /\ owed' = FALSE /\ (up' = TRUE => streams' = Desired)
  BY <1>0, <1>3, DesiredStreams DEF Sync
<1> QED
  BY <1>4, <1>5, <1>6

LEMMA WholeLater ==
  ASSUME NEW m, NEW top \in Nat, NEW later \in Nat, top <= later, ReadsWhole(m, top)
  PROVE  ReadsWhole(m, later)
<1>1. \A v \in 1..top : v \in 1..later
  OBVIOUS
<1>2. \A n, points : WholeBy(n, points, top) => WholeBy(n, points, later)
  BY <1>1 DEF WholeBy
<1> QED
  BY <1>2 DEF ReadsWhole

\* A step that leaves a year's queue alone and forgets no year that is demanded.
LEMMA YearStays ==
  ASSUME NEW n \in Series \ Bare, YearHolds(n), sent \in Nat, sent' \in Nat, sent <= sent',
         wire'[Year(n)] = wire[Year(n)], Year(n) \in streams' => Year(n) \in streams,
         \/ relay'.pending[n] = NotOpen
         \/ relay'.pending[n] = relay.pending[n] /\ (IsDemanded(relay, n) => IsDemanded(relay', n))
  PROVE  YearHolds(n)'
<1> DEFINE w == wire[Year(n)]
<1>1. YearQueue(w, sent) /\ HalfYear(relay.pending[n], w, sent)
  BY DEF YearHolds
<1>2. YearQueue(w, sent') /\ HalfYear(relay.pending[n], w, sent')
  BY <1>1, YearLater
<1>3. CASE relay'.pending[n] = NotOpen
  BY <1>2, <1>3, NotOpenIs DEF YearHolds, HalfYear
<1>4. CASE relay'.pending[n] = relay.pending[n] /\ (IsDemanded(relay, n) => IsDemanded(relay', n))
  BY <1>2, <1>4 DEF YearHolds
<1> QED
  BY <1>3, <1>4

LEMMA BareStays ==
  ASSUME NEW n \in Series \cap Bare, BareHolds(n), wire'[Year(n)] = wire[Year(n)],
         relay'.pending[n] = NotOpen \/ relay'.pending[n] = relay.pending[n]
  PROVE  BareHolds(n)'
BY NotOpenIs DEF BareHolds

\* A step that leaves every year's queue alone.
LEMMA YearsStay ==
  ASSUME YearsHold, sent \in Nat, sent' = sent,
         \A n \in Series : /\ wire'[Year(n)] = wire[Year(n)] /\ (Year(n) \in streams' => Year(n) \in streams)
                           /\ \/ relay'.pending[n] = NotOpen
                              \/ /\ relay'.pending[n] = relay.pending[n]
                                 /\ IsDemanded(relay, n) => IsDemanded(relay', n)
  PROVE  YearsHold'
<1>1. ASSUME NEW n \in Series \ Bare PROVE YearHolds(n)'
  BY YearStays DEF YearsHold
<1>2. ASSUME NEW n \in Series \cap Bare PROVE BareHolds(n)'
  BY BareStays DEF YearsHold
<1> QED
  BY <1>1, <1>2 DEF YearsHold

LEMMA SyncYears ==
  ASSUME YearsIInv, Sync
  PROVE  YearsIInv'
<1>1. SeriesShape /\ YearsHold /\ sent \in Nat /\ relay' = relay /\ browsers' = browsers
      /\ \A n \in Series : wire[Year(n)] \in Seq(FeedRows)
  BY StreamsAre DEF YearsIInv, SeriesShape, Sync
<1>2. /\ streams' \in SUBSET Streams /\ up' \in BOOLEAN /\ owed' = FALSE /\ sent' \in Nat /\ sent <= sent'
      /\ wire' \in [Streams -> Seq(FeedRows)] /\ \A st \in Streams : Synced(st)
  BY <1>1, SyncIs
<1>3. SeriesShape'
  BY <1>1, <1>2 DEF SeriesShape
<1>4. ReadsWhole(relay', sent')
  BY <1>1, <1>2, WholeLater DEF YearsIInv
<1>5. ASSUME NEW n \in Series \ Bare PROVE YearHolds(n)'
  <2> DEFINE w == wire[Year(n)]
             p == relay.pending[n]
  <2>1. w \in Seq(FeedRows) /\ YearHolds(n) /\ Synced(Year(n)) /\ YearQueue(w, sent) /\ HalfYear(p, w, sent)
    BY <1>1, <1>2, StreamsAre DEF YearsHold, YearHolds
  <2>2. CASE wire'[Year(n)] = w /\ (Year(n) \in streams' => Year(n) \in streams)
    BY <1>1, <1>2, <2>1, <2>2, YearStays
  <2>3. ASSUME Year(n) \notin streams', NEW c \in 0..Len(w), wire'[Year(n)] = SubSeq(w, 1, c)
        PROVE  YearHolds(n)'
    <3>1. YearQueue(SubSeq(w, 1, c), sent) /\ HalfYear(p, SubSeq(w, 1, c), sent)
      BY <2>1, YearCut
    <3>2. YearQueue(SubSeq(w, 1, c), sent') /\ HalfYear(p, SubSeq(w, 1, c), sent')
      BY <1>1, <1>2, <3>1, YearLater
    <3> QED
      BY <1>1, <2>1, <2>3, <3>2 DEF YearHolds
  <2>4. ASSUME Year(n) \in streams', sent' = sent + 1,
               NEW end \in EndRows, NEW observed \in BOOLEAN,
               wire'[Year(n)] = w \o Snapshot(Year(n), end, observed, sent + 1)
        PROVE  YearHolds(n)'
    <3>1. Snapshot(Year(n), end, observed, sent + 1) = FullSnapshot("priced", sent + 1)
      BY StreamsAre DEF Snapshot
    <3> DEFINE f == w \o FullSnapshot("priced", sent + 1)
    <3>2. YearQueue(f, sent + 1) /\ EndsWhole(f) /\ HalfYear(p, f, sent + 1) /\ f # <<>>
      BY <1>1, <2>1, YearAppended
    <3>3. wire'[Year(n)] = f
      BY <2>4, <3>1
    <3> HIDE DEF f
    <3> QED
      BY <1>1, <2>1, <2>4, <3>2, <3>3 DEF YearHolds
  <2> QED
    BY <2>1, <2>2, <2>3, <2>4 DEF Synced
<1>6. ASSUME NEW n \in Series \cap Bare PROVE BareHolds(n)'
  <2> DEFINE w == wire[Year(n)]
  <2>1. w \in Seq(FeedRows) /\ BareHolds(n) /\ Synced(Year(n))
    BY <1>1, <1>2, StreamsAre DEF YearsHold
  <2>2. CASE wire'[Year(n)] = w
    BY <1>1, <2>1, <2>2, BareStays
  <2>3. ASSUME NEW c \in 0..Len(w), wire'[Year(n)] = SubSeq(w, 1, c)
        PROVE  BareHolds(n)'
    <3>1. Len(SubSeq(w, 1, c)) = c /\ (\A i \in 1..c : SubSeq(w, 1, c)[i] = w[i]) /\ Len(w) \in Nat
      BY <2>1, CutIs
    <3>2. \A i \in 1..c : i \in 1..Len(w)
      BY <3>1
    <3> QED
      BY <1>1, <2>1, <2>3, <3>1, <3>2 DEF BareHolds
  <2>4. ASSUME NEW end \in EndRows, NEW observed \in BOOLEAN,
               wire'[Year(n)] = w \o Snapshot(Year(n), end, observed, sent + 1)
        PROVE  BareHolds(n)'
    <3>1. Snapshot(Year(n), end, observed, sent + 1) = <<EmptyRow>>
      BY StreamsAre DEF Snapshot, EmptySnapshot, EmptyRow
    <3>2. EmptyRow \in FeedRows
      BY SeriesAssumption DEF EmptyRow, Row, FeedRows, NoClose
    <3>3. <<EmptyRow>> \in Seq(FeedRows) /\ Len(<<EmptyRow>>) = 1 /\ <<EmptyRow>>[1] = EmptyRow
      BY <3>2
    <3> DEFINE f == w \o <<EmptyRow>>
    <3>4. /\ Len(f) = Len(w) + 1 /\ Len(w) \in Nat /\ \A i \in 1..Len(w) : f[i] = w[i]
          /\ \A i \in (Len(w) + 1)..(Len(w) + 1) : f[i] = <<EmptyRow>>[i - Len(w)]
      BY <2>1, <3>3, ConcatIs
    <3>5. wire'[Year(n)] = f
      BY <2>4, <3>1
    <3> HIDE DEF f
    <3>6. f[Len(w) + 1] = EmptyRow
      <4>1. Len(w) + 1 \in (Len(w) + 1)..(Len(w) + 1) /\ Len(w) + 1 - Len(w) = 1
        BY <3>4
      <4> QED
        BY <3>3, <3>4, <4>1
    <3>7. ASSUME NEW i \in 1..Len(f) PROVE f[i] = EmptyRow
      <4>1. i \in 1..Len(w) \/ i = Len(w) + 1
        BY <3>4
      <4> QED
        BY <2>1, <3>4, <3>6, <4>1 DEF BareHolds
    <3> QED
      BY <1>1, <2>1, <3>5, <3>7 DEF BareHolds
  <2> QED
    BY <2>1, <2>2, <2>3, <2>4 DEF Synced
<1> QED
  BY <1>3, <1>4, <1>5, <1>6 DEF YearsIInv, YearsHold

\* A row reaches a browser: its chart takes it, or its snapshot, which the row may close.
LEMMA DrawnIs ==
  ASSUME NEW c \in PageSet, NEW n \in Watched, NEW row \in FeedRows, Publishes(row)
  PROVE  LET d == Drawn(c, n, row)
             half == Buffered(c.buffer[n], row)
         IN /\ d \in PageSet /\ d.socket = c.socket
            /\ \A x \in Watched \ {n} : d.buffer[x] = c.buffer[x] /\ d.chart[x] = c.chart[x]
            /\ ~Opens(c.buffer[n], row) =>
                 d.buffer[n] = c.buffer[n] /\ d.chart[n] = UpdateCandleSeries(c.chart[n], row)
            /\ Opens(c.buffer[n], row) /\ ~Closes(c.buffer[n], row) =>
                 d.buffer[n] = half /\ d.chart[n] = c.chart[n]
            /\ Opens(c.buffer[n], row) /\ Closes(c.buffer[n], row) =>
                 d.buffer[n] = NotOpen /\ d.chart[n] = IF half.points = {} THEN c.chart[n] ELSE half.points
            /\ half \in HalfSet
<1> DEFINE d == Drawn(c, n, row)
           half == Buffered(c.buffer[n], row)
           drawn == UpdateCandleSeries(c.chart[n], row)
           closed == IF half.points = {} THEN c.chart[n] ELSE half.points
<1>0. row.time \in 1..Bars /\ row.close \in Nat
  BY SeriesAssumption DEF Publishes, FeedRows
<1>1. c.buffer \in [Watched -> HalfSet] /\ c.chart \in [Watched -> SUBSET Point]
  BY DEF PageSet
<1>2. c.buffer[n] \in HalfSet /\ c.chart[n] \in SUBSET Point
  BY <1>1
<1>3. half \in HalfSet
  BY <1>0, <1>2, BufferedIs
<1>4. drawn \in SUBSET Point
  BY <1>0, <1>2, UpdateKeepsPoints
<1>5. closed \in SUBSET Point
  BY <1>2, <1>3 DEF HalfSet
<1>6. NotOpen \in HalfSet
  BY NotOpenIs
<1>7. CASE ~Opens(c.buffer[n], row)
  <2>1. d = [c EXCEPT !.chart[n] = drawn]
    BY <1>7 DEF Drawn
  <2> HIDE DEF d, drawn
  <2>2. d \in PageSet /\ d.socket = c.socket /\ d.buffer = c.buffer /\ d.chart = [c.chart EXCEPT ![n] = drawn]
    BY <1>1, <1>4, <2>1 DEF PageSet
  <2> QED
    BY <1>1, <1>3, <1>7, <2>2 DEF d, drawn
<1>8. CASE Opens(c.buffer[n], row) /\ ~Closes(c.buffer[n], row)
  <2>1. d = [c EXCEPT !.buffer[n] = half]
    BY <1>8 DEF Drawn
  <2> HIDE DEF d, half
  <2>2. d \in PageSet /\ d.socket = c.socket /\ d.chart = c.chart /\ d.buffer = [c.buffer EXCEPT ![n] = half]
    BY <1>1, <1>3, <2>1 DEF PageSet
  <2> QED
    BY <1>1, <1>3, <1>8, <2>2 DEF d, half
<1>9. CASE Opens(c.buffer[n], row) /\ Closes(c.buffer[n], row)
  <2>1. d = [c EXCEPT !.buffer[n] = NotOpen, !.chart[n] = closed]
    BY <1>9 DEF Drawn
  <2> HIDE DEF d, closed
  <2>2. d \in PageSet /\ d.socket = c.socket /\ d.chart = [c.chart EXCEPT ![n] = closed]
        /\ d.buffer = [c.buffer EXCEPT ![n] = NotOpen]
    BY <1>1, <1>5, <1>6, <2>1 DEF PageSet
  <2> QED
    BY <1>1, <1>3, <1>9, <2>2 DEF d, closed
<1> QED
  BY <1>7, <1>8, <1>9

\* A bar of a day at the relay.
LEMMA CacheIs ==
  ASSUME NEW m, RelayShape(m), NEW n \in Watched, NEW row \in FeedRows, Publishes(row)
  PROVE  LET d == CacheCandle(m, n, row)
         IN /\ RelayShape(d) /\ d.reads = m.reads /\ d.pending = m.pending
            /\ d.cache[n] = UpdateCandleSeries(IF Begins(row) THEN {} ELSE m.cache[n], row)
            /\ \A x \in Watched \ {n} : d.cache[x] = m.cache[x]
<1> DEFINE points == UpdateCandleSeries(IF Begins(row) THEN {} ELSE m.cache[n], row)
           f == [m.cache EXCEPT ![n] = points]
           d == CacheCandle(m, n, row)
<1>0. row.time \in 1..Bars /\ row.close \in Nat
  BY SeriesAssumption DEF Publishes, FeedRows
<1>1. (IF Begins(row) THEN {} ELSE m.cache[n]) \in SUBSET Point
  BY DEF RelayShape
<1>2. points \in SUBSET Point
  BY <1>0, <1>1, UpdateKeepsPoints
<1>3. d = [m EXCEPT !.cache[n] = points]
  BY DEF CacheCandle, Begins
<1> HIDE DEF points
<1>4. d = [reads |-> m.reads, pending |-> m.pending, cache |-> f]
  BY <1>3 DEF RelayShape
<1>5. f \in [Watched -> SUBSET Point] /\ f[n] = points /\ \A x \in Watched \ {n} : f[x] = m.cache[x]
  BY <1>2 DEF RelayShape
<1> HIDE DEF f, d
<1>6. d.reads = m.reads /\ d.pending = m.pending /\ d.cache = f
  BY <1>4
<1>7. RelayShape(d)
  BY <1>4, <1>5, <1>6 DEF RelayShape
<1> QED
  BY <1>5, <1>6, <1>7 DEF d, points

\* The relay after a row: the years are kept, and only a day's row changes a day.
RowTaken(st) ==
  /\ RelayShape(relay') /\ ReadsWhole(relay', sent') /\ YearsHold'
  /\ Registered(relay') = Registered(relay)
  /\ st.period # "intraday" => relay'.cache = relay.cache

LEMMA RowYears ==
  ASSUME YearsIInv, NEW st \in Streams, RowArrives(st)
  PROVE  RowTaken(st)
<1> DEFINE w == wire[st]
           row == Head(w)
<1>1. SeriesShape /\ YearsHold /\ ReadsWhole(relay, sent) /\ RelayShape(relay) /\ sent \in Nat /\ w \in Seq(FeedRows)
      /\ wire \in [Streams -> Seq(FeedRows)]
  BY DEF YearsIInv, SeriesShape
<1>2. /\ w # <<>> /\ wire' = [wire EXCEPT ![st] = Tail(w)] /\ relay' = RowAtRelay(relay, st, row)
      /\ streams' = streams /\ sent' = sent
  BY DEF RowArrives
<1>3. /\ row = w[1] /\ row \in FeedRows /\ wire'[st] = Tail(w)
      /\ \A x \in Streams \ {st} : wire'[x] = wire[x]
      /\ Len(w) \in Nat /\ Len(w) >= 1 /\ Len(Tail(w)) = Len(w) - 1
      /\ \A i \in 1..(Len(w) - 1) : Tail(w)[i] = w[i + 1]
  BY <1>1, <1>2, TailIs
<1>4. ASSUME st.period # "daily"
      PROVE  \A n \in Series : wire'[Year(n)] = wire[Year(n)]
  BY <1>3, <1>4, StreamsAre
<1>5. ASSUME st.period = "greeks", st.name \in Contracts
      PROVE  RowTaken(st)
  <2>1. relay' = Deliver(relay, st.name, {row.close})
    BY <1>2, <1>5 DEF RowAtRelay
  <2>2. RelayShape(relay') /\ relay'.pending = relay.pending /\ Registered(relay') = Registered(relay)
        /\ relay'.cache = relay.cache
    BY <1>1, <2>1, DeliverIs
  <2>3. ReadsWhole(relay', sent')
    BY <1>1, <1>2, <1>5, <2>1, DeliverWhole
  <2>4. \A n : IsDemanded(relay', n) <=> IsDemanded(relay, n)
    BY <2>2 DEF IsDemanded
  <2>5. YearsHold'
    BY <1>1, <1>2, <1>4, <1>5, <2>2, <2>4, YearsStay
  <2> QED
    BY <2>2, <2>3, <2>5 DEF RowTaken
<1>6. ASSUME st.period = "intraday", st.name \in Watched
      PROVE  RowTaken(st)
  <2>1. relay' = IF Publishes(row) THEN CacheCandle(relay, st.name, row) ELSE relay
    BY <1>2, <1>6 DEF RowAtRelay
  <2>2. RelayShape(relay') /\ relay'.pending = relay.pending /\ relay'.reads = relay.reads
    BY <1>1, <1>3, <1>6, <2>1, CacheIs
  <2>3. /\ ReadsWhole(relay', sent') /\ Registered(relay') = Registered(relay)
        /\ \A n : IsDemanded(relay', n) <=> IsDemanded(relay, n)
    BY <1>1, <1>2, <2>2 DEF ReadsWhole, IsDemanded, Registered
  <2>4. YearsHold'
    BY <1>1, <1>2, <1>4, <1>6, <2>2, <2>3, YearsStay
  <2> QED
    BY <1>6, <2>2, <2>3, <2>4 DEF RowTaken
<1>7. ASSUME NEW n \in Series, st = Year(n)
      PROVE  RowTaken(st)
  <2>1. relay' = DailyRow(relay, n, row) /\ st.period = "daily" /\ st.name = n
    BY <1>2, <1>7, StreamsAre DEF RowAtRelay
  <2>2. \A x \in Series \ {n} : wire'[Year(x)] = wire[Year(x)]
    BY <1>3, <1>7, StreamsAre
  <2>3. ASSUME OnlyYear(relay', relay, n), ReadsWhole(relay', sent),
               n \notin Bare => YearHolds(n)', n \in Bare => BareHolds(n)'
        PROVE  RowTaken(st)
    <3>1. \A x : IsDemanded(relay', x) <=> IsDemanded(relay, x)
      BY <2>3 DEF OnlyYear, IsDemanded
    <3>2. ASSUME NEW x \in Series \ Bare PROVE YearHolds(x)'
      <4>1. CASE x # n
        <5>1. relay'.pending[x] = relay.pending[x] /\ wire'[Year(x)] = wire[Year(x)] /\ YearHolds(x)
          BY <1>1, <2>2, <2>3, <4>1 DEF OnlyYear, YearsHold
        <5> QED
          BY <1>1, <1>2, <3>1, <5>1, YearStays
      <4> QED
        BY <2>3, <4>1
    <3>3. ASSUME NEW x \in Series \cap Bare PROVE BareHolds(x)'
      <4>1. CASE x # n
        <5>1. relay'.pending[x] = relay.pending[x] /\ wire'[Year(x)] = wire[Year(x)] /\ BareHolds(x)
          BY <1>1, <2>2, <2>3, <4>1 DEF OnlyYear, YearsHold
        <5> QED
          BY <5>1, BareStays
      <4> QED
        BY <2>3, <4>1
    <3> QED
      BY <1>2, <2>3, <3>2, <3>3 DEF OnlyYear, YearsHold, RowTaken
  <2>4. CASE n \notin Bare
    <3>1. YearHolds(n)
      BY <1>1, <2>4 DEF YearsHold
    <3>2. YearQueue(w, sent) /\ HalfYear(relay.pending[n], w, sent)
          /\ (relay.pending[n].open = TRUE => IsDemanded(relay, n)) /\ (st \in streams => EndsWhole(w))
      BY <1>7, <3>1 DEF YearHolds
    <3>3. /\ OnlyYear(relay', relay, n) /\ ReadsWhole(relay', sent) /\ HalfYear(relay'.pending[n], Tail(w), sent)
          /\ relay'.pending[n].open = TRUE => /\ IsDemanded(relay, n)
                                              /\ Tail(w) = <<>> => ~EndsWhole(w)
      BY <1>1, <1>2, <2>1, <2>4, <3>2, YearRow
    <3>4. YearQueue(Tail(w), sent) /\ (EndsWhole(w) => EndsWhole(Tail(w)))
      BY <1>1, <1>2, <3>2, YearTail
    <3>5. IsDemanded(relay', n) <=> IsDemanded(relay, n)
      BY <3>3 DEF OnlyYear, IsDemanded
    <3>6. wire'[Year(n)] = Tail(w)
      BY <1>3, <1>7
    <3> HIDE DEF w
    <3>7. YearHolds(n)'
      BY <1>2, <1>7, <3>2, <3>3, <3>4, <3>5, <3>6 DEF YearHolds
    <3> QED
      BY <2>3, <2>4, <3>3, <3>7
  <2>5. CASE n \in Bare
    <3>1. BareHolds(n)
      BY <1>1, <2>5 DEF YearsHold
    <3>2. row = EmptyRow /\ relay.pending[n].open = FALSE
      BY <1>3, <1>7, <3>1 DEF BareHolds
    <3>3. OnlyYear(relay', relay, n) /\ ReadsWhole(relay', sent) /\ relay'.pending[n].open = FALSE
      <4>1. n \in Series \cap Bare /\ row = Row({"begin", "end", "remove"}, 0, NoClose)
        BY <2>5, <3>2 DEF EmptyRow
      <4> HIDE DEF row
      <4> DEFINE d == DailyRow(relay, n, row)
      <4>2. OnlyYear(d, relay, n) /\ ReadsWhole(d, sent) /\ d.pending[n].open = FALSE
        BY <1>1, <3>2, <4>1, BareRow
      <4> HIDE DEF d
      <4>3. relay' = d
        BY <2>1 DEF d
      <4> QED
        BY <4>2, <4>3
    <3>4. \A i \in 1..(Len(w) - 1) : i + 1 \in 1..Len(w)
      BY <1>3
    <3>5. \A i \in 1..Len(wire'[Year(n)]) : wire'[Year(n)][i] = EmptyRow
      BY <1>3, <1>7, <3>1, <3>4 DEF BareHolds
    <3>6. BareHolds(n)'
      BY <3>3, <3>5 DEF BareHolds
    <3> QED
      BY <2>3, <2>5, <3>3, <3>6
  <2> QED
    BY <2>4, <2>5
<1> QED
  BY <1>5, <1>6, <1>7, StreamsAre

LEMMA RowShape ==
  ASSUME SeriesShape, RelayShape(relay'), NEW st \in Streams, RowArrives(st)
  PROVE  SeriesShape'
<1> DEFINE row == Head(wire[st])
<1>1. /\ wire[st] # <<>> /\ wire' = [wire EXCEPT ![st] = Tail(wire[st])]
      /\ browsers' = [b \in Browsers |-> IF b \in Attached /\ st.period = "intraday" /\ Publishes(row)
                                         THEN Drawn(browsers[b], st.name, row) ELSE browsers[b]]
      /\ UNCHANGED <<streams, up, owed, sent>>
  BY DEF RowArrives
<1>2. wire \in [Streams -> Seq(FeedRows)] /\ browsers \in [Browsers -> PageSet]
  BY DEF SeriesShape
<1>3. row \in FeedRows /\ Tail(wire[st]) \in Seq(FeedRows)
  BY <1>1, <1>2, TailIs
<1>4. wire' \in [Streams -> Seq(FeedRows)]
  BY <1>1, <1>2, <1>3
<1>5. ASSUME NEW b \in Browsers PROVE browsers'[b] \in PageSet
  BY <1>1, <1>2, <1>3, DrawnIs, StreamsAre
<1>6. browsers' \in [Browsers -> PageSet]
  BY <1>1, <1>5
<1> QED
  BY <1>1, <1>4, <1>6 DEF SeriesShape

\* A later bar goes behind what is left of a stream's rows.
LEMMA TickIs ==
  ASSUME SeriesShape, NEW st \in Streams, MarketTicks(st)
  PROVE  /\ st \in streams /\ st.name \notin Bare /\ UNCHANGED <<streams, up, owed, relay, browsers, sent>>
         /\ wire' \in [Streams -> Seq(FeedRows)] /\ \A x \in Streams \ {st} : wire'[x] = wire[x]
         /\ \E row \in FeedRows : IsTick(row) /\ wire'[st] = Append(wire[st], row)
<1>1. PICK change \in {"price", "removal", "quiet"} :
        wire' = [wire EXCEPT ![st] = Append(@, Row(IF change = "removal" THEN {"remove"} ELSE {}, Bars,
                                                   IF change = "price" THEN NewClose ELSE NoClose))]
  BY DEF MarketTicks
<1> DEFINE row == Row(IF change = "removal" THEN {"remove"} ELSE {}, Bars,
                      IF change = "price" THEN NewClose ELSE NoClose)
<1>2. row \in FeedRows /\ IsTick(row)
  BY SeriesAssumption DEF Row, FeedRows, NewClose, NoClose, IsTick
<1>3. wire' = [wire EXCEPT ![st] = Append(@, row)]
  BY <1>1
<1> HIDE DEF row
<1>4. wire \in [Streams -> Seq(FeedRows)] /\ wire[st] \in Seq(FeedRows)
  BY DEF SeriesShape
<1>5. Append(wire[st], row) \in Seq(FeedRows)
  BY <1>2, <1>4, AppendProperties
<1>6. wire' \in [Streams -> Seq(FeedRows)] /\ wire'[st] = Append(wire[st], row)
      /\ \A x \in Streams \ {st} : wire'[x] = wire[x]
  BY <1>3, <1>4, <1>5
<1> QED
  BY <1>2, <1>6 DEF MarketTicks

LEMMA TickYears ==
  ASSUME YearsIInv, NEW st \in Streams, MarketTicks(st)
  PROVE  YearsIInv'
<1>1. SeriesShape /\ YearsHold /\ ReadsWhole(relay, sent) /\ sent \in Nat /\ wire \in [Streams -> Seq(FeedRows)]
  BY DEF YearsIInv, SeriesShape
<1>2. PICK row \in FeedRows :
        /\ st \in streams /\ st.name \notin Bare /\ UNCHANGED <<streams, up, owed, relay, browsers, sent>>
        /\ wire' \in [Streams -> Seq(FeedRows)] /\ \A x \in Streams \ {st} : wire'[x] = wire[x]
        /\ IsTick(row) /\ wire'[st] = Append(wire[st], row)
  BY <1>1, TickIs
<1>3. SeriesShape'
  BY <1>1, <1>2 DEF SeriesShape
<1>4. ReadsWhole(relay', sent')
  BY <1>1, <1>2
<1>5. ASSUME NEW n \in Series \ Bare PROVE YearHolds(n)'
  <2>1. YearHolds(n) /\ Year(n) \in Streams
    BY <1>1, StreamsAre DEF YearsHold
  <2>2. CASE Year(n) # st
    <3>1. wire'[Year(n)] = wire[Year(n)]
      BY <1>2, <2>1, <2>2
    <3> QED
      BY <1>1, <1>2, <2>1, <3>1, YearStays
  <2>3. CASE Year(n) = st
    <3> DEFINE w == wire[Year(n)]
               f == Append(w, row)
    <3>1. /\ w \in Seq(FeedRows) /\ YearQueue(w, sent) /\ EndsWhole(w) /\ HalfYear(relay.pending[n], w, sent)
          /\ relay.pending[n].open = TRUE => w # <<>> /\ IsDemanded(relay, n)
      BY <1>1, <1>2, <2>1, <2>3 DEF YearHolds
    <3>2. YearQueue(f, sent) /\ EndsWhole(f) /\ HalfYear(relay.pending[n], f, sent) /\ f # <<>>
      BY <1>1, <1>2, <3>1, YearTicked
    <3>3. wire'[Year(n)] = f
      BY <1>2, <2>3
    <3> HIDE DEF w, f
    <3> QED
      BY <1>2, <3>1, <3>2, <3>3 DEF YearHolds
  <2> QED
    BY <2>2, <2>3
<1>6. ASSUME NEW n \in Series \cap Bare PROVE BareHolds(n)'
  <2>1. Year(n) # st /\ BareHolds(n)
    BY <1>1, <1>2, StreamsAre DEF YearsHold
  <2>2. wire'[Year(n)] = wire[Year(n)]
    BY <1>2, <2>1, StreamsAre
  <2> QED
    BY <1>2, <2>1, <2>2, BareStays
<1> QED
  BY <1>3, <1>4, <1>5, <1>6 DEF YearsIInv, YearsHold

\* A step that touches no row: what is demanded stays in hand, or is forgotten.
LEMMA ReadsStep ==
  ASSUME YearsIInv, RelayShape(relay'), ReadsWhole(relay', sent), browsers' \in [Browsers -> PageSet],
         UNCHANGED <<streams, wire, sent>>, up' \in BOOLEAN, owed' \in BOOLEAN,
         \A n \in Series : \/ relay'.pending[n] = NotOpen
                           \/ /\ relay'.pending[n] = relay.pending[n]
                              /\ IsDemanded(relay, n) => IsDemanded(relay', n)
  PROVE  YearsIInv'
<1>1. SeriesShape /\ YearsHold /\ sent \in Nat
  BY DEF YearsIInv, SeriesShape
<1>2. SeriesShape'
  BY <1>1 DEF SeriesShape
<1>3. YearsHold'
  BY <1>1, YearsStay
<1> QED
  BY <1>2, <1>3 DEF YearsIInv

LEMMA EndYears ==
  ASSUME YearsIInv, ConnectionEnds
  PROVE  YearsIInv'
<1>1. SeriesShape /\ YearsHold /\ ReadsWhole(relay, sent) /\ RelayShape(relay) /\ sent \in Nat
  BY DEF YearsIInv, SeriesShape
<1>2. up' = FALSE /\ streams' = {} /\ wire' = Quiet /\ relay' = Dropped(relay) /\ UNCHANGED <<owed, browsers, sent>>
  BY DEF ConnectionEnds
<1> DEFINE f == [n \in Series |-> NotOpen]
<1>3. relay' = [reads |-> relay.reads, pending |-> f, cache |-> relay.cache]
  BY <1>1, <1>2 DEF Dropped, RelayShape
<1>4. f \in [Series -> HalfSet] /\ \A n \in Series : f[n] = NotOpen
  BY NotOpenIs
<1> HIDE DEF f
<1>5. relay'.reads = relay.reads /\ relay'.cache = relay.cache /\ relay'.pending = f
  BY <1>3
<1>6. RelayShape(relay')
  BY <1>1, <1>3, <1>4, <1>5 DEF RelayShape
<1>7. ReadsWhole(relay', sent')
  BY <1>1, <1>2, <1>5 DEF ReadsWhole
<1>8. \A st \in Streams : wire'[st] = <<>> /\ <<>> \in Seq(FeedRows)
  BY <1>2, EmptySeq DEF Quiet
<1>9. wire' \in [Streams -> Seq(FeedRows)]
  BY <1>2, <1>8 DEF Quiet
<1>10. SeriesShape'
  BY <1>1, <1>2, <1>6, <1>9 DEF SeriesShape
<1>11. Len(<<>>) = 0 /\ \A n \in Series : wire'[Year(n)] = <<>>
  BY <1>8, StreamsAre, EmptySeq
<1>12. \A n \in Series : YearHolds(n)' /\ BareHolds(n)'
  <2> SUFFICES ASSUME NEW n \in Series PROVE YearHolds(n)' /\ BareHolds(n)'
    OBVIOUS
  <2>1. relay'.pending[n].open = FALSE /\ wire'[Year(n)] = <<>>
    BY <1>4, <1>5, <1>11, NotOpenIs
  <2>2. YearQueue(<<>>, sent') /\ EndsWhole(<<>>)
    BY <1>11 DEF YearQueue, EndsWhole
  <2>3. HalfYear(relay'.pending[n], <<>>, sent')
    BY <2>1 DEF HalfYear
  <2> QED
    BY <1>11, <2>1, <2>2, <2>3 DEF YearHolds, BareHolds
<1> QED
  BY <1>7, <1>10, <1>12 DEF YearsIInv, YearsHold

LEMMA RegisterYears ==
  ASSUME YearsIInv, NEW q \in Reads, Register(q) \/ TimesOut(q)
  PROVE  YearsIInv' /\ relay'.cache = relay.cache
         /\ (TimesOut(q) => Registered(relay') = Registered(relay))
<1>1. SeriesShape /\ ReadsWhole(relay, sent) /\ RelayShape(relay) /\ owed \in BOOLEAN
      /\ up \in BOOLEAN /\ browsers \in [Browsers -> PageSet]
  BY DEF YearsIInv, SeriesShape
<1> DEFINE old == relay.reads[q]
<1>2. old = [state |-> old.state, received |-> old.received]
  BY <1>1 DEF RelayShape
<1>3. PICK state : /\ relay' = [relay EXCEPT !.reads[q].state = state]
                   /\ state # "away" /\ (state = "answered" => q \in YearReads)
                   /\ UNCHANGED <<streams, wire, sent, browsers, up>> /\ owed' \in BOOLEAN
  <2>1. CASE Register(q)
    <3>1. relay' = [relay EXCEPT !.reads[q].state = "waiting"]
      BY <2>1 DEF Register
    <3> QED
      BY <2>1, <3>1 DEF Register
  <2>2. CASE TimesOut(q)
    <3> DEFINE state == IF q \in YearReads /\ relay.reads[q].received # NothingYet THEN "answered" ELSE "failed"
    <3>1. relay' = [relay EXCEPT !.reads[q].state = state]
      BY <2>2 DEF TimesOut
    <3>2. state # "away" /\ (state = "answered" => q \in YearReads)
      OBVIOUS
    <3> HIDE DEF state
    <3> QED
      BY <1>1, <2>2, <3>1, <3>2 DEF TimesOut
  <2> QED
    BY <2>1, <2>2
<1> DEFINE r == [state |-> state, received |-> old.received]
<1>4. relay' = [relay EXCEPT !.reads[q] = r]
  BY <1>1, <1>2, <1>3 DEF RelayShape
<1>5. r = [state |-> r.state, received |-> r.received] /\ r.state = state /\ r.received = old.received
  OBVIOUS
<1> HIDE DEF r
<1> DEFINE d == [relay EXCEPT !.reads[q] = r]
<1>6. /\ RelayShape(d) /\ d.pending = relay.pending /\ d.cache = relay.cache
      /\ d.reads[q] = r /\ \A p \in Reads \ {q} : d.reads[p] = relay.reads[p]
  BY <1>1, <1>5, ReadChanges
<1> HIDE DEF d
<1>7. relay' = d
  BY <1>4 DEF d
<1>8. /\ RelayShape(relay') /\ relay'.pending = relay.pending /\ relay'.cache = relay.cache
      /\ relay'.reads[q] = r /\ \A p \in Reads \ {q} : relay'.reads[p] = relay.reads[p]
  BY <1>6, <1>7
<1>9. \A n \in Series : IsDemanded(relay, n) => IsDemanded(relay', n)
  BY <1>3, <1>5, <1>8 DEF IsDemanded, Registered
<1>10. ReadsWhole(relay', sent)
  <2>1. \A p \in Reads : relay'.reads[p].received = relay.reads[p].received
    BY <1>5, <1>8
  <2>2. \A p \in GreeksReads : relay'.reads[p].state = "answered" => relay'.reads[p].state = relay.reads[p].state
    <3>1. \A p \in GreeksReads : p \notin YearReads /\ p \in Reads
      BY SeriesAssumption DEF Reads
    <3> QED
      BY <1>3, <1>5, <1>8, <3>1
  <2>3. YearReads \subseteq Reads /\ GreeksReads \subseteq Reads
    BY DEF Reads
  <2> QED
    BY <1>1, <2>1, <2>2, <2>3 DEF ReadsWhole
<1>11. TimesOut(q) => Registered(relay') = Registered(relay)
  BY <1>3, <1>5, <1>8 DEF TimesOut, Registered
<1> QED
  BY <1>1, <1>3, <1>8, <1>9, <1>10, <1>11, ReadsStep

LEMMA ReleaseYears ==
  ASSUME YearsIInv, NEW q \in Reads, Release(q)
  PROVE  YearsIInv' /\ relay'.cache = relay.cache
<1>1. SeriesShape /\ ReadsWhole(relay, sent) /\ RelayShape(relay) /\ up \in BOOLEAN
      /\ browsers \in [Browsers -> PageSet]
  BY DEF YearsIInv, SeriesShape
<1> DEFINE m == [relay EXCEPT !.reads[q] = Away]
<1>2. relay' = Forget(m) /\ owed' = TRUE /\ UNCHANGED <<streams, wire, sent, browsers, up>>
  BY DEF Release, Released
<1>3. Away = [state |-> Away.state, received |-> Away.received] /\ Away.state = "away"
      /\ DOMAIN Away.received = {}
  BY DEF Away, NothingYet
<1>4. /\ RelayShape(m) /\ m.pending = relay.pending /\ m.cache = relay.cache
      /\ m.reads[q] = Away /\ \A p \in Reads \ {q} : m.reads[p] = relay.reads[p]
  BY <1>1, <1>3, ReadChanges
<1> HIDE DEF m
<1>5. /\ RelayShape(relay') /\ relay'.reads = m.reads /\ relay'.cache = m.cache
      /\ \A n \in Series : relay'.pending[n] = IF IsDemanded(m, n) THEN m.pending[n] ELSE NotOpen
  BY <1>2, <1>4, ForgetIs
<1>6. \A n : IsDemanded(relay', n) <=> IsDemanded(m, n)
  BY <1>5 DEF IsDemanded, Registered
<1>7. ReadsWhole(relay', sent)
  <2>1. YearReads \subseteq Reads /\ GreeksReads \subseteq Reads
    BY DEF Reads
  <2> QED
    BY <1>1, <1>3, <1>4, <1>5, <2>1 DEF ReadsWhole
<1> QED
  BY <1>1, <1>2, <1>4, <1>5, <1>6, <1>7, ReadsStep

LEMMA PageYears ==
  ASSUME YearsIInv, browsers' \in [Browsers -> PageSet], UNCHANGED <<streams, wire, sent, relay>>,
         up' \in BOOLEAN, owed' \in BOOLEAN
  PROVE  YearsIInv'
<1>1. RelayShape(relay') /\ ReadsWhole(relay', sent) /\ \A n \in Series : relay'.pending[n] = relay.pending[n]
  BY DEF YearsIInv, SeriesShape
<1>2. \A n \in Series : IsDemanded(relay, n) => IsDemanded(relay', n)
  OBVIOUS
<1> QED
  BY <1>1, <1>2, ReadsStep

\* What a browser is replayed.
LEMMA ReplayedIs ==
  ASSUME NEW c \in PageSet, NEW m, RelayShape(m)
  PROVE  LET d == [Replayed(c, m) EXCEPT !.socket = "joined"] IN
         /\ d \in PageSet /\ d.socket = "joined"
         /\ \A n \in Watched :
              IF m.cache[n] = {} THEN d.buffer[n] = c.buffer[n] /\ d.chart[n] = c.chart[n]
              ELSE d.buffer[n] = NotOpen /\ d.chart[n] = m.cache[n]
<1> DEFINE buffer == [n \in Watched |-> IF m.cache[n] = {} THEN c.buffer[n] ELSE NotOpen]
           chart == [n \in Watched |-> IF m.cache[n] = {} THEN c.chart[n] ELSE m.cache[n]]
<1>1. Replayed(c, m) = [c EXCEPT !.buffer = buffer, !.chart = chart]
  BY DEF Replayed
<1>2. buffer \in [Watched -> HalfSet] /\ chart \in [Watched -> SUBSET Point]
  BY NotOpenIs DEF PageSet, RelayShape
<1>3. \A n \in Watched : buffer[n] = (IF m.cache[n] = {} THEN c.buffer[n] ELSE NotOpen)
                         /\ chart[n] = (IF m.cache[n] = {} THEN c.chart[n] ELSE m.cache[n])
  OBVIOUS
<1> HIDE DEF buffer, chart
<1> DEFINE d == [Replayed(c, m) EXCEPT !.socket = "joined"]
<1>4. d \in PageSet /\ d.socket = "joined" /\ d.buffer = buffer /\ d.chart = chart
  BY <1>1, <1>2 DEF PageSet
<1> HIDE DEF d
<1>5. \A n \in Watched :
        IF m.cache[n] = {} THEN d.buffer[n] = c.buffer[n] /\ d.chart[n] = c.chart[n]
        ELSE d.buffer[n] = NotOpen /\ d.chart[n] = m.cache[n]
  BY <1>3, <1>4
<1> QED
  BY <1>4, <1>5 DEF d

\* A browser comes, is replayed what the relay keeps, or goes.
LEMMA VisitIs ==
  ASSUME SeriesShape, NEW b \in Browsers, Join(b) \/ Replay(b) \/ Leave(b)
  PROVE  /\ browsers' \in [Browsers -> PageSet] /\ UNCHANGED <<streams, wire, sent, relay, up>> /\ owed' \in BOOLEAN
         /\ \A x \in Browsers \ {b} : browsers'[x] = browsers[x]
         /\ \A n \in Watched :
              \/ browsers'[b].buffer[n] = browsers[b].buffer[n] /\ browsers'[b].chart[n] = browsers[b].chart[n]
                 /\ (browsers'[b].socket # "joined" \/ relay.cache[n] = {})
              \/ browsers'[b].buffer[n] = NotOpen /\ browsers'[b].chart[n] = relay.cache[n] /\ relay.cache[n] # {}
<1>1. browsers \in [Browsers -> PageSet] /\ RelayShape(relay) /\ owed \in BOOLEAN /\ browsers[b] \in PageSet
  BY DEF SeriesShape
<1>2. CASE Join(b) \/ Leave(b)
  <2>1. PICK socket \in {"accepted", "none"} : browsers' = [browsers EXCEPT ![b].socket = socket]
    BY <1>2 DEF Join, Leave
  <2> DEFINE d == [browsers[b] EXCEPT !.socket = socket]
  <2>2. browsers' = [browsers EXCEPT ![b] = d]
    BY <1>1, <2>1
  <2>3. d \in PageSet /\ d.buffer = browsers[b].buffer /\ d.chart = browsers[b].chart /\ d.socket # "joined"
    BY <1>1 DEF PageSet
  <2> HIDE DEF d
  <2>4. browsers' \in [Browsers -> PageSet] /\ browsers'[b] = d /\ \A x \in Browsers \ {b} : browsers'[x] = browsers[x]
    BY <1>1, <2>2, <2>3
  <2> QED
    BY <1>2, <2>3, <2>4 DEF Join, Leave
<1>3. CASE Replay(b)
  <2> DEFINE d == [Replayed(browsers[b], relay) EXCEPT !.socket = "joined"]
  <2>1. browsers' = [browsers EXCEPT ![b] = d] /\ UNCHANGED <<streams, up, wire, owed, relay, sent>>
    BY <1>3 DEF Replay
  <2>2. /\ d \in PageSet /\ d.socket = "joined"
        /\ \A n \in Watched :
             IF relay.cache[n] = {} THEN d.buffer[n] = browsers[b].buffer[n] /\ d.chart[n] = browsers[b].chart[n]
             ELSE d.buffer[n] = NotOpen /\ d.chart[n] = relay.cache[n]
    BY <1>1, ReplayedIs
  <2> HIDE DEF d
  <2>3. browsers' \in [Browsers -> PageSet] /\ browsers'[b] = d /\ \A x \in Browsers \ {b} : browsers'[x] = browsers[x]
    BY <1>1, <2>1, <2>2
  <2> QED
    BY <1>1, <2>1, <2>2, <2>3
<1> QED
  BY <1>2, <1>3

LEMMA InitYears ==
  ASSUME SeriesInit
  PROVE  YearsIInv
<1>1. /\ streams = {} /\ up = FALSE /\ wire = Quiet /\ owed = FALSE /\ sent = 0
      /\ relay = [reads |-> [q \in Reads |-> Away], pending |-> [n \in Series |-> NotOpen],
                  cache |-> [n \in Watched |-> {}]]
      /\ browsers = [b \in Browsers |-> [socket |-> "none", buffer |-> [n \in Watched |-> NotOpen],
                                         chart |-> [n \in Watched |-> {}]]]
  BY DEF SeriesInit
<1>2. NotOpen \in HalfSet /\ NotOpen.open = FALSE
  BY NotOpenIs
<1>3. \A st \in Streams : wire[st] = <<>> /\ <<>> \in Seq(FeedRows)
  BY <1>1, EmptySeq DEF Quiet
<1>4. wire \in [Streams -> Seq(FeedRows)]
  BY <1>1, <1>3 DEF Quiet
<1>5. Away = [state |-> Away.state, received |-> Away.received] /\ Away.state = "away"
      /\ DOMAIN Away.received = {}
  BY DEF Away, NothingYet
<1>6. RelayShape(relay) /\ \A q \in Reads : relay.reads[q] = Away
  BY <1>1, <1>2, <1>5 DEF RelayShape
<1>7. browsers \in [Browsers -> PageSet]
  BY <1>1, <1>2 DEF PageSet
<1>8. SeriesShape
  BY <1>1, <1>4, <1>6, <1>7 DEF SeriesShape
<1>9. ReadsWhole(relay, sent)
  BY <1>5, <1>6 DEF ReadsWhole, Reads
<1>10. ASSUME NEW n \in Series PROVE YearHolds(n) /\ BareHolds(n)
  <2>1. wire[Year(n)] = <<>> /\ Len(<<>>) = 0 /\ relay.pending[n].open = FALSE
    BY <1>1, <1>2, <1>3, StreamsAre, EmptySeq
  <2>2. YearQueue(<<>>, sent) /\ EndsWhole(<<>>)
    BY <2>1 DEF YearQueue, EndsWhole
  <2> QED
    BY <2>1, <2>2 DEF YearHolds, BareHolds, HalfYear
<1> QED
  BY <1>8, <1>9, <1>10 DEF YearsIInv, YearsHold

LEMMA YearsNext ==
  ASSUME YearsIInv, [SeriesNext]_seriesVars
  PROVE  YearsIInv'
<1>1. SeriesShape
  BY DEF YearsIInv
<1>2. CASE Sync
  BY <1>2, SyncYears
<1>3. CASE Connects
  BY <1>1, <1>3, PageYears DEF Connects, SeriesShape
<1>4. CASE ConnectionEnds
  BY <1>4, EndYears
<1>5. ASSUME NEW st \in Streams, RowArrives(st) PROVE YearsIInv'
  BY <1>1, <1>5, RowYears, RowShape DEF YearsIInv, RowTaken
<1>6. ASSUME NEW st \in Streams, MarketTicks(st) PROVE YearsIInv'
  BY <1>6, TickYears
<1>7. ASSUME NEW q \in Reads, Register(q) \/ TimesOut(q) \/ Release(q) PROVE YearsIInv'
  BY <1>7, RegisterYears, ReleaseYears
<1>8. ASSUME NEW b \in Browsers, Join(b) \/ Replay(b) \/ Leave(b) PROVE YearsIInv'
  BY <1>1, <1>8, VisitIs, PageYears DEF SeriesShape
<1>9. CASE UNCHANGED seriesVars
  BY <1>1, <1>9, PageYears DEF seriesVars, SeriesShape
<1> QED
  BY <1>2, <1>3, <1>4, <1>5, <1>6, <1>7, <1>8, <1>9 DEF SeriesNext

\* What a one-shot read is answered with is whole, whatever row ends a chart's
\* snapshot: the registries of the relay (AnswersWhole).
THEOREM AnswersAreWhole ==
  SeriesSpec => []AnswersWhole
<1>1. SeriesInit => YearsIInv
  BY InitYears
<1>2. YearsIInv /\ [SeriesNext]_seriesVars => YearsIInv'
  BY YearsNext
<1>3. YearsIInv => AnswersWhole
  BY DEF YearsIInv, ReadsWhole, WholeBy, AnswersWhole, Whole
<1> QED
  BY <1>1, <1>2, <1>3, PTL DEF SeriesSpec

(***************************************************************************)
(* Charts agree with the relay                                             *)
(***************************************************************************)

Joined == {b \in Browsers : browsers[b].socket = "joined"}
Day(n) == Stream(n, "intraday")
Priced(row) == row.close # NoClose /\ "remove" \notin row.flags
NoneBegins(w, j) == \A i \in (j + 1)..Len(w) : ~Begins(w[i])

\* Before the i-th row of a queue is taken the series has its second newest bar,
\* from the snapshot that row is of.
SecondBefore(w, i, c) ==
  \/ \E j \in 1..(i - 1) : /\ w[j].time = Bars - 1 /\ Priced(w[j])
                           /\ \A k \in (j + 1)..(i - 1) : ~Begins(w[k])
  \/ HasSecond(c) /\ \A k \in 1..(i - 1) : ~Begins(w[k])
SecondComes(w, c) == SecondBefore(w, Len(w) + 1, c)

\* What is on its way of a day: bars of its snapshots and later ones, and a row
\* that corrects the newest bar away finds another in the series.
DayQueue(w, c) ==
  \A i \in 1..Len(w) :
    /\ w[i].time \in 1..Bars /\ (w[i].close # NoClose \/ w[i].flags \subseteq {"remove"})
    /\ "remove" \in w[i].flags => w[i].time = Bars /\ w[i].flags = {"remove"} /\ SecondBefore(w, i, c)

\* The joined browsers that hold a snapshot open, and those that have not had its end.
HeldOpen(n) == {b \in Joined : browsers[b].buffer[n].open = TRUE}
EndAwaited(n) == {b \in HeldOpen(n) : browsers[b].buffer[n].endSeen # TRUE}

\* A row that ends the last snapshot is on its way, with one that no batch holds
\* open; or it has arrived and that one is; or every joined browser has closed it.
EndsAt(w, j, k) ==
  /\ "end" \in w[j].flags /\ Priced(w[j]) /\ "pending" \notin w[k].flags /\ Priced(w[k])
  /\ NoneBegins(w, j)
CompletedAt(w, k) == "pending" \notin w[k].flags /\ Priced(w[k])
CloseComes(w, opened, awaiting) ==
  \/ \E j \in 1..Len(w) : \E k \in j..Len(w) : EndsAt(w, j, k)
  \/ NoneBegins(w, 0) /\ awaiting = {} /\ \E k \in 1..Len(w) : CompletedAt(w, k)
  \/ NoneBegins(w, 0) /\ opened = {}

\* A page's snapshot, or its chart, is what the relay keeps.
PageFollows(page, n, c) ==
  IF page.buffer[n].open = TRUE THEN page.buffer[n].points = c ELSE page.chart[n] = c

ChartHolds(n) ==
  /\ UniqueTimes(relay.cache[n]) /\ DayQueue(wire[Day(n)], relay.cache[n])
  /\ Day(n) \in streams => /\ SecondComes(wire[Day(n)], relay.cache[n])
                           /\ CloseComes(wire[Day(n)], HeldOpen(n), EndAwaited(n))
  /\ \A b \in Joined : PageFollows(browsers[b], n, relay.cache[n])
  /\ relay.cache[n] = {} =>
       \A b \in Browsers : browsers[b].chart[n] = {} /\ browsers[b].buffer[n].open = FALSE

SubscribedInv == up = TRUE /\ owed = FALSE => streams = Desired

SeriesIInv == YearsIInv /\ (\A n \in Watched \ Bare : ChartHolds(n)) /\ SubscribedInv

LEMMA NoneBeginsTail ==
  ASSUME NEW w \in Seq(FeedRows), w # <<>>, NEW j \in Nat, NoneBegins(w, j)
  PROVE  /\ j > 0 => NoneBegins(Tail(w), j - 1)
         /\ j = 0 => NoneBegins(Tail(w), 0) /\ ~Begins(w[1])
<1>1. /\ Len(w) \in Nat /\ Len(w) >= 1 /\ Len(Tail(w)) = Len(w) - 1
      /\ \A i \in 1..(Len(w) - 1) : Tail(w)[i] = w[i + 1]
  BY TailIs
<1>2. ASSUME NEW i \in 1..(Len(w) - 1), i + 1 > j PROVE ~Begins(Tail(w)[i])
  <2>1. i + 1 \in (j + 1)..Len(w)
    BY <1>1, <1>2
  <2> QED
    BY <1>1, <2>1 DEF NoneBegins
<1>3. j = 0 => ~Begins(w[1])
  <2>1. j = 0 => 1 \in (j + 1)..Len(w)
    BY <1>1
  <2> QED
    BY <2>1 DEF NoneBegins
<1>4. j > 0 => \A i \in (j - 1 + 1)..Len(Tail(w)) : i \in 1..(Len(w) - 1) /\ i + 1 > j
  BY <1>1
<1>5. j = 0 => \A i \in (0 + 1)..Len(Tail(w)) : i \in 1..(Len(w) - 1) /\ i + 1 > j
  BY <1>1
<1> QED
  BY <1>2, <1>3, <1>4, <1>5 DEF NoneBegins

\* What is said of a row depends on those before it.
LEMMA SecondSame ==
  ASSUME NEW w, NEW f, NEW i \in Nat, \A k \in 1..(i - 1) : f[k] = w[k], NEW c, SecondBefore(w, i, c)
  PROVE  SecondBefore(f, i, c)
<1>1. ASSUME NEW j \in 1..(i - 1), w[j].time = Bars - 1, Priced(w[j]), \A k \in (j + 1)..(i - 1) : ~Begins(w[k])
      PROVE  SecondBefore(f, i, c)
  <2>1. \A k \in (j + 1)..(i - 1) : k \in 1..(i - 1)
    OBVIOUS
  <2>2. f[j] = w[j] /\ \A k \in (j + 1)..(i - 1) : ~Begins(f[k])
    BY <1>1, <2>1
  <2> QED
    BY <1>1, <2>2 DEF SecondBefore
<1>2. ASSUME HasSecond(c), \A k \in 1..(i - 1) : ~Begins(w[k]) PROVE SecondBefore(f, i, c)
  BY <1>2 DEF SecondBefore
<1> QED
  BY <1>1, <1>2 DEF SecondBefore

LEMMA SecondGrows ==
  ASSUME NEW w, NEW i \in Nat \ {0}, NEW c, SecondBefore(w, i, c), ~Begins(w[i])
  PROVE  SecondBefore(w, i + 1, c)
<1>1. i + 1 - 1 = i
  OBVIOUS
<1>2. ASSUME NEW j \in 1..(i - 1), w[j].time = Bars - 1, Priced(w[j]), \A k \in (j + 1)..(i - 1) : ~Begins(w[k])
      PROVE  SecondBefore(w, i + 1, c)
  <2>1. j \in 1..(i + 1 - 1) /\ \A k \in (j + 1)..(i + 1 - 1) : k \in (j + 1)..(i - 1) \/ k = i
    BY <1>1
  <2>2. \A k \in (j + 1)..(i + 1 - 1) : ~Begins(w[k])
    BY <1>2, <2>1
  <2> QED
    BY <1>2, <2>1, <2>2 DEF SecondBefore
<1>3. ASSUME HasSecond(c), \A k \in 1..(i - 1) : ~Begins(w[k]) PROVE SecondBefore(w, i + 1, c)
  <2>1. \A k \in 1..(i + 1 - 1) : k \in 1..(i - 1) \/ k = i
    BY <1>1
  <2>2. \A k \in 1..(i + 1 - 1) : ~Begins(w[k])
    BY <1>3, <2>1
  <2> QED
    BY <1>3, <2>2 DEF SecondBefore
<1> QED
  BY <1>2, <1>3 DEF SecondBefore

\* The head of the queue is taken, and leaves the series d.
LEMMA SecondTail ==
  ASSUME NEW w \in Seq(FeedRows), w # <<>>, NEW i \in 1..Len(w), NEW c, NEW d, SecondBefore(w, i + 1, c),
         HasSecond(c) /\ ~Begins(w[1]) => HasSecond(d),
         w[1].time = Bars - 1 /\ Priced(w[1]) => HasSecond(d)
  PROVE  SecondBefore(Tail(w), i, d)
<1> DEFINE u == Tail(w)
<1>1. /\ Len(w) \in Nat /\ Len(w) >= 1 /\ i \in Nat /\ i + 1 - 1 = i
      /\ \A k \in 1..(Len(w) - 1) : u[k] = w[k + 1]
  BY TailIs
<1> HIDE DEF u
<1>2. \A k \in 1..(i - 1) : k \in 1..(Len(w) - 1) /\ k + 1 \in 1..(i + 1 - 1)
  BY <1>1
<1>3. \A k \in 1..(i - 1) : u[k] = w[k + 1]
  BY <1>1, <1>2
<1>4. ASSUME NEW j \in 1..(i + 1 - 1), w[j].time = Bars - 1, Priced(w[j]),
             \A k \in (j + 1)..(i + 1 - 1) : ~Begins(w[k])
      PROVE  SecondBefore(u, i, d)
  <2>1. CASE j = 1
    <3>1. \A k \in 1..(i - 1) : k + 1 \in (j + 1)..(i + 1 - 1)
      BY <1>1, <2>1
    <3>2. \A k \in 1..(i - 1) : ~Begins(u[k])
      BY <1>3, <1>4, <3>1
    <3> QED
      BY <1>4, <2>1, <3>2 DEF SecondBefore
  <2>2. CASE j # 1
    <3>1. /\ j - 1 \in 1..(i - 1) /\ j - 1 + 1 = j
          /\ \A k \in (j - 1 + 1)..(i - 1) : k \in 1..(i - 1) /\ k + 1 \in (j + 1)..(i + 1 - 1)
      BY <1>1, <2>2
    <3>2. u[j - 1] = w[j]
      BY <1>3, <3>1
    <3>3. \A k \in (j - 1 + 1)..(i - 1) : ~Begins(u[k])
      BY <1>3, <1>4, <3>1
    <3> QED
      BY <1>4, <3>1, <3>2, <3>3 DEF SecondBefore
  <2> QED
    BY <2>1, <2>2
<1>5. ASSUME HasSecond(c), \A k \in 1..(i + 1 - 1) : ~Begins(w[k]) PROVE SecondBefore(u, i, d)
  <2>1. 1 \in 1..(i + 1 - 1)
    BY <1>1
  <2>2. ~Begins(w[1]) /\ \A k \in 1..(i - 1) : ~Begins(u[k])
    BY <1>2, <1>3, <1>5, <2>1
  <2> QED
    BY <1>5, <2>2 DEF SecondBefore
<1> QED
  BY <1>4, <1>5 DEF SecondBefore, u

\* A day's row is taken: the series that results.
LEMMA DayRow ==
  ASSUME NEW w \in Seq(FeedRows), w # <<>>, NEW c \in SUBSET Point, UniqueTimes(c), DayQueue(w, c),
         Publishes(w[1])
  PROVE  LET d == UpdateCandleSeries(IF Begins(w[1]) THEN {} ELSE c, w[1])
         IN /\ UniqueTimes(d) /\ DayQueue(Tail(w), d) /\ d # {}
            /\ SecondComes(w, c) => SecondComes(Tail(w), d)
<1> DEFINE row == w[1]
           base == IF Begins(row) THEN {} ELSE c
           d == UpdateCandleSeries(base, row)
           u == Tail(w)
<1>0. Bars \in Nat /\ Bars >= 2
  BY SeriesAssumption
<1>1. /\ Len(w) \in Nat /\ Len(w) >= 1 /\ row \in FeedRows /\ u \in Seq(FeedRows) /\ Len(u) = Len(w) - 1
      /\ \A i \in 1..(Len(w) - 1) : u[i] = w[i + 1]
      /\ u = <<>> <=> Len(w) = 1
  BY TailIs
<1>2. row.time \in 1..Bars /\ row.close \in Nat
  BY <1>1 DEF DayQueue, FeedRows
<1>3. base \in SUBSET Point /\ UniqueTimes(base)
  BY DEF UniqueTimes
<1>4. d \in SUBSET Point /\ UniqueTimes(d)
  BY <1>2, <1>3, UpdateKeepsPoints
<1>5. "remove" \in row.flags => row.time = Bars /\ HasSecond(c) /\ base = c
  <2>1. 1 \in 1..Len(w) /\ \A j \in 1..(1 - 1) : FALSE
    BY <1>1
  <2>2. "remove" \in row.flags => row.time = Bars /\ row.flags = {"remove"} /\ SecondBefore(w, 1, c)
    BY <2>1 DEF DayQueue
  <2>3. SecondBefore(w, 1, c) => HasSecond(c)
    BY <2>1 DEF SecondBefore
  <2> QED
    BY <2>2, <2>3 DEF Begins
<1>6. HasSecond(base) \/ (row.time = Bars - 1 /\ "remove" \notin row.flags) => HasSecond(d)
  <2> HIDE DEF base
  <2> QED
    BY <1>2, <1>3, <1>5, UpdateKeepsSecond
<1>7. d # {}
  <2>1. CASE "remove" \in row.flags
    BY <1>5, <1>6, <2>1 DEF HasSecond
  <2>2. CASE "remove" \notin row.flags
    <3> HIDE DEF base
    <3> QED
      BY <1>2, <1>3, <2>2, UpdateLeavesBar
  <2> QED
    BY <2>1, <2>2
<1> HIDE DEF d
<1>8. ASSUME NEW i \in 1..Len(w), SecondBefore(w, i + 1, c) PROVE SecondBefore(u, i, d)
  <2>1. HasSecond(c) /\ ~Begins(w[1]) => HasSecond(d)
    BY <1>6
  <2>2. w[1].time = Bars - 1 /\ Priced(w[1]) => HasSecond(d)
    BY <1>6 DEF Priced
  <2> QED
    BY <1>8, <2>1, <2>2, SecondTail
<1>9. DayQueue(u, d)
  <2>1. \A i \in 1..Len(u) : i \in 1..Len(w) /\ i + 1 \in 1..Len(w) /\ u[i] = w[i + 1]
    BY <1>1
  <2> HIDE DEF u
  <2> QED
    BY <1>8, <2>1 DEF DayQueue
<1>10. SecondComes(w, c) => SecondComes(u, d)
  <2>1. Len(w) \in 1..Len(w) /\ Len(u) + 1 = Len(w)
    BY <1>1
  <2> HIDE DEF u
  <2> QED
    BY <1>8, <2>1 DEF SecondComes
<1> QED
  BY <1>4, <1>7, <1>9, <1>10 DEF d

\* A row that is not published: one without a price, which only leaves the queue.
LEMMA DaySkip ==
  ASSUME NEW w \in Seq(FeedRows), w # <<>>, NEW c, DayQueue(w, c), ~Publishes(w[1])
  PROVE  /\ w[1].flags = {} /\ w[1].close = NoClose /\ DayQueue(Tail(w), c)
         /\ SecondComes(w, c) => SecondComes(Tail(w), c)
<1> DEFINE u == Tail(w)
<1>0. Bars \in Nat /\ Bars >= 2
  BY SeriesAssumption
<1>1. /\ Len(w) \in Nat /\ Len(w) >= 1 /\ w[1] \in FeedRows /\ u \in Seq(FeedRows) /\ Len(u) = Len(w) - 1
      /\ \A i \in 1..(Len(w) - 1) : u[i] = w[i + 1]
      /\ u = <<>> <=> Len(w) = 1
  BY TailIs
<1>2. 1 \in 1..Len(w)
  BY <1>1
<1>3. w[1].time \in 1..Bars /\ (w[1].close # NoClose \/ w[1].flags \subseteq {"remove"})
  BY <1>2 DEF DayQueue
<1>4. w[1].flags = {} /\ w[1].close = NoClose
  BY <1>0, <1>3 DEF Publishes
<1>5. ASSUME NEW i \in 1..Len(w), SecondBefore(w, i + 1, c) PROVE SecondBefore(u, i, c)
  BY <1>4, <1>5, SecondTail DEF Priced
<1>6. DayQueue(u, c)
  <2>1. \A i \in 1..Len(u) : i \in 1..Len(w) /\ i + 1 \in 1..Len(w) /\ u[i] = w[i + 1]
    BY <1>1
  <2> HIDE DEF u
  <2> QED
    BY <1>5, <2>1 DEF DayQueue
<1>7. SecondComes(w, c) => SecondComes(u, c)
  <2>1. Len(w) \in 1..Len(w) /\ Len(u) + 1 = Len(w)
    BY <1>1
  <2> HIDE DEF u
  <2> QED
    BY <1>5, <2>1 DEF SecondComes
<1> QED
  BY <1>4, <1>6, <1>7

LEMMA CloseTail ==
  ASSUME NEW w \in Seq(FeedRows), w # <<>>, NEW o, NEW a, CloseComes(w, o, a), NEW o2, NEW a2,
         ~Begins(w[1]) /\ o = {} => o2 = {},
         CompletedAt(w, 1) /\ ("end" \in w[1].flags \/ (~Begins(w[1]) /\ a = {})) => o2 = {},
         "end" \in w[1].flags \/ (~Begins(w[1]) /\ a = {}) => a2 = {}
  PROVE  CloseComes(Tail(w), o2, a2)
<1> DEFINE u == Tail(w)
<1>1. /\ Len(w) \in Nat /\ Len(w) >= 1 /\ Len(u) = Len(w) - 1
      /\ \A i \in 1..(Len(w) - 1) : u[i] = w[i + 1]
  BY TailIs
<1>2. \A i \in 2..Len(w) : i - 1 \in 1..Len(u) /\ i - 1 \in 1..(Len(w) - 1) /\ i - 1 + 1 = i
  BY <1>1
<1>3. \A i \in 2..Len(w) : u[i - 1] = w[i]
  BY <1>1, <1>2
<1>4. ASSUME NoneBegins(w, 0) PROVE NoneBegins(u, 0) /\ ~Begins(w[1])
  BY <1>4, NoneBeginsTail
<1>5. ASSUME NEW j \in 1..Len(w), NEW k \in j..Len(w), EndsAt(w, j, k)
      PROVE  CloseComes(u, o2, a2)
  <2>1. NoneBegins(u, j - 1) /\ j \in Nat /\ k \in Nat
    BY <1>1, <1>5, NoneBeginsTail DEF EndsAt
  <2>2. CASE j > 1
    <3>1. j \in 2..Len(w) /\ k \in 2..Len(w) /\ k - 1 \in (j - 1)..Len(u)
      BY <1>1, <2>1, <2>2
    <3>2. EndsAt(u, j - 1, k - 1)
      BY <1>3, <1>5, <2>1, <3>1 DEF EndsAt
    <3> HIDE DEF u
    <3> QED
      BY <1>2, <3>1, <3>2 DEF CloseComes
  <2>3. CASE j = 1
    <3>1. "end" \in w[1].flags /\ CompletedAt(w, k) /\ NoneBegins(u, 0)
      BY <1>5, <2>1, <2>3 DEF EndsAt, CompletedAt
    <3>2. CASE k = 1
      BY <3>1, <3>2 DEF CloseComes
    <3>3. CASE k > 1
      <4>1. k \in 2..Len(w)
        BY <1>1, <2>1, <3>3
      <4>2. CompletedAt(u, k - 1)
        BY <1>3, <3>1, <4>1 DEF CompletedAt
      <4> HIDE DEF u
      <4> QED
        BY <1>2, <3>1, <4>1, <4>2 DEF CloseComes
    <3> QED
      BY <2>1, <2>3, <3>2, <3>3
  <2> QED
    BY <2>1, <2>2, <2>3
<1>6. ASSUME NoneBegins(w, 0), a = {}, NEW k \in 1..Len(w), CompletedAt(w, k)
      PROVE  CloseComes(u, o2, a2)
  <2>1. CASE k = 1
    BY <1>4, <1>6, <2>1 DEF CloseComes
  <2>2. CASE k # 1
    <3>1. k \in 2..Len(w)
      BY <1>1, <2>2
    <3>2. CompletedAt(u, k - 1)
      BY <1>3, <1>6, <3>1 DEF CompletedAt
    <3> HIDE DEF u
    <3> QED
      BY <1>2, <1>4, <1>6, <3>1, <3>2 DEF CloseComes
  <2> QED
    BY <2>1, <2>2
<1>7. ASSUME NoneBegins(w, 0), o = {} PROVE CloseComes(u, o2, a2)
  BY <1>4, <1>7 DEF CloseComes
<1> QED
  BY <1>5, <1>6, <1>7 DEF CloseComes

LEMMA CloseFewer ==
  ASSUME NEW w, NEW o, NEW a, CloseComes(w, o, a), NEW o2, NEW a2, o2 \subseteq o, a2 \subseteq a
  PROVE  CloseComes(w, o2, a2)
<1>1. (o = {} => o2 = {}) /\ (a = {} => a2 = {})
  OBVIOUS
<1> QED
  BY <1>1 DEF CloseComes

\* A row that is published is drawn alike by the relay and by a joined browser.
LEMMA PageRow ==
  ASSUME NEW page \in PageSet, NEW n \in Watched, NEW row \in FeedRows, Publishes(row),
         NEW c \in SUBSET Point, PageFollows(page, n, c),
         NEW d, d = UpdateCandleSeries(IF Begins(row) THEN {} ELSE c, row), d # {}
  PROVE  LET e == Drawn(page, n, row)
         IN /\ PageFollows(e, n, d)
            /\ e.buffer[n].open = TRUE =>
                 /\ Begins(row) \/ page.buffer[n].open = TRUE
                 /\ "pending" \notin row.flags => e.buffer[n].endSeen # TRUE
                 /\ e.buffer[n].endSeen # TRUE =>
                      "end" \notin row.flags /\ (~Begins(row) => page.buffer[n].endSeen # TRUE)
<1> DEFINE e == Drawn(page, n, row)
           p == page.buffer[n]
           half == Buffered(p, row)
<1>0. row.time \in 1..Bars /\ row.close \in Nat
  BY SeriesAssumption DEF Publishes, FeedRows
<1>1. p \in HalfSet
  BY DEF PageSet
<1>2. /\ half \in HalfSet /\ (half.open = TRUE <=> Opens(p, row))
      /\ half.points = UpdateCandleSeries(IF Begins(row) THEN {} ELSE p.points, row)
      /\ half.endSeen = TRUE <=> ("end" \in row.flags \/ (~Begins(row) /\ p.endSeen = TRUE))
  BY <1>0, <1>1, BufferedIs
<1>3. /\ ~Opens(p, row) => e.buffer[n] = p /\ e.chart[n] = UpdateCandleSeries(page.chart[n], row)
      /\ Opens(p, row) /\ ~Closes(p, row) => e.buffer[n] = half /\ e.chart[n] = page.chart[n]
      /\ Opens(p, row) /\ Closes(p, row) =>
           e.buffer[n] = NotOpen /\ e.chart[n] = IF half.points = {} THEN page.chart[n] ELSE half.points
  BY DrawnIs
<1>4. Opens(p, row) <=> (p.open = TRUE \/ Begins(row))
  BY <1>1 DEF Opens, Begins, HalfSet
<1>5. Closes(p, row) <=> (half.endSeen = TRUE /\ "pending" \notin row.flags)
  BY <1>2 DEF Closes, HalfSet
<1> HIDE DEF e, p, half
<1>6. p.open = TRUE => p.points = c
  BY DEF PageFollows, p
<1>7. p.open # TRUE => page.chart[n] = c
  BY DEF PageFollows, p
<1>8. Opens(p, row) => half.points = d
  BY <1>2, <1>4, <1>6
<1>9. CASE ~Opens(p, row)
  BY <1>3, <1>4, <1>7, <1>9 DEF PageFollows, e
<1>10. CASE Opens(p, row) /\ ~Closes(p, row)
  <2>1. PageFollows(e, n, d)
    BY <1>2, <1>3, <1>8, <1>10 DEF PageFollows
  <2> QED
    BY <1>2, <1>3, <1>4, <1>5, <1>10, <2>1 DEF e, p
<1>11. CASE Opens(p, row) /\ Closes(p, row)
  BY <1>3, <1>8, <1>11, NotOpenIs DEF PageFollows, e
<1> QED
  BY <1>9, <1>10, <1>11

\* A step that leaves the day's queue alone: a browser is as it was, or has what
\* the relay keeps.
LEMMA DayStays ==
  ASSUME NEW n \in Watched \ Bare, ChartHolds(n),
         wire'[Day(n)] = wire[Day(n)], Day(n) \in streams' => Day(n) \in streams,
         relay'.cache[n] = relay.cache[n],
         \A b \in Browsers :
           \/ /\ browsers'[b].buffer[n] = browsers[b].buffer[n] /\ browsers'[b].chart[n] = browsers[b].chart[n]
              /\ browsers'[b].socket = "joined" => browsers[b].socket = "joined" \/ relay.cache[n] = {}
           \/ /\ browsers'[b].buffer[n] = NotOpen /\ browsers'[b].chart[n] = relay.cache[n]
              /\ relay.cache[n] # {}
  PROVE  ChartHolds(n)'
<1> DEFINE w == wire[Day(n)]
           c == relay.cache[n]
<1>1. /\ UniqueTimes(c) /\ DayQueue(w, c)
      /\ Day(n) \in streams => SecondComes(w, c) /\ CloseComes(w, HeldOpen(n), EndAwaited(n))
      /\ \A b \in Joined : PageFollows(browsers[b], n, c)
      /\ c = {} => \A b \in Browsers : browsers[b].chart[n] = {} /\ browsers[b].buffer[n].open = FALSE
  BY DEF ChartHolds
<1>2. ASSUME NEW b \in Joined'
      PROVE  /\ PageFollows(browsers[b], n, c)'
             /\ browsers'[b].buffer[n].open = TRUE => b \in Joined /\ browsers'[b].buffer[n] = browsers[b].buffer[n]
  <2>0. b \in Browsers /\ browsers'[b].socket = "joined"
    BY DEF Joined
  <2>1. CASE browsers'[b].buffer[n] = NotOpen /\ browsers'[b].chart[n] = c /\ c # {}
    BY <2>0, <2>1, NotOpenIs DEF PageFollows
  <2>2. CASE /\ browsers'[b].buffer[n] = browsers[b].buffer[n] /\ browsers'[b].chart[n] = browsers[b].chart[n]
             /\ browsers[b].socket = "joined"
    BY <1>1, <2>0, <2>2 DEF PageFollows, Joined
  <2>3. CASE /\ browsers'[b].buffer[n] = browsers[b].buffer[n] /\ browsers'[b].chart[n] = browsers[b].chart[n]
             /\ c = {}
    BY <1>1, <2>0, <2>3 DEF PageFollows
  <2> QED
    BY <2>0, <2>1, <2>2, <2>3
<1>3. HeldOpen(n)' \subseteq HeldOpen(n) /\ EndAwaited(n)' \subseteq EndAwaited(n)
  BY <1>2 DEF HeldOpen, EndAwaited
<1>4. Day(n) \in streams' => SecondComes(w, c) /\ CloseComes(w, HeldOpen(n)', EndAwaited(n)')
  <2> HIDE DEF w, c
  <2> QED
    BY <1>1, <1>3, CloseFewer
<1>5. c = {} => \A b \in Browsers : browsers'[b].chart[n] = {} /\ browsers'[b].buffer[n].open = FALSE
  BY <1>1
<1> QED
  BY <1>1, <1>2, <1>4, <1>5 DEF ChartHolds

\* A row of the day itself arrives.
LEMMA DayTakesRow ==
  ASSUME SeriesShape, NEW n \in Watched \ Bare, ChartHolds(n), RowArrives(Day(n))
  PROVE  ChartHolds(n)'
<1> DEFINE w == wire[Day(n)]
           c == relay.cache[n]
           row == w[1]
<1>1. /\ w \in Seq(FeedRows) /\ w # <<>> /\ RelayShape(relay) /\ c \in SUBSET Point
      /\ browsers \in [Browsers -> PageSet] /\ Day(n) \in Streams
      /\ Day(n).period = "intraday" /\ Day(n).name = n
  BY StreamsAre DEF SeriesShape, RelayShape, RowArrives, Day, Stream
<1>2. Head(w) = row /\ row \in FeedRows
  BY <1>1, TailIs
<1>3. wire'[Day(n)] = Tail(w) /\ streams' = streams
  BY <1>1 DEF RowArrives, SeriesShape
<1>4. relay' = IF Publishes(row) THEN CacheCandle(relay, n, row) ELSE relay
  BY <1>1, <1>2 DEF RowArrives, RowAtRelay
<1>5. browsers' = [b \in Browsers |-> IF b \in Attached /\ Publishes(row)
                                      THEN Drawn(browsers[b], n, row) ELSE browsers[b]]
  BY <1>1, <1>2 DEF RowArrives
<1>6. /\ UniqueTimes(c) /\ DayQueue(w, c)
      /\ Day(n) \in streams => SecondComes(w, c) /\ CloseComes(w, HeldOpen(n), EndAwaited(n))
      /\ \A b \in Joined : PageFollows(browsers[b], n, c)
      /\ c = {} => \A b \in Browsers : browsers[b].chart[n] = {} /\ browsers[b].buffer[n].open = FALSE
  BY DEF ChartHolds
<1> HIDE DEF w, c, row
<1>7. CASE ~Publishes(row)
  <2>1. relay' = relay /\ browsers' = browsers
    BY <1>1, <1>4, <1>5, <1>7
  <2>2. /\ row.flags = {} /\ row.close = NoClose /\ DayQueue(Tail(w), c)
        /\ SecondComes(w, c) => SecondComes(Tail(w), c)
    BY <1>1, <1>6, <1>7, DaySkip DEF row
  <2>3. ~CompletedAt(w, 1) /\ ~Begins(w[1]) /\ "end" \notin w[1].flags
    BY <2>2 DEF CompletedAt, Priced, Begins, row
  <2>4. \A o, a : CloseComes(w, o, a) => CloseComes(Tail(w), o, a)
    BY <1>1, <2>3, CloseTail
  <2> QED
    BY <1>3, <1>6, <2>1, <2>2, <2>4 DEF ChartHolds, Joined, HeldOpen, EndAwaited, c
<1>8. CASE Publishes(row)
  <2> DEFINE d == UpdateCandleSeries(IF Begins(row) THEN {} ELSE c, row)
  <2>1. UniqueTimes(d) /\ DayQueue(Tail(w), d) /\ d # {} /\ (SecondComes(w, c) => SecondComes(Tail(w), d))
    BY <1>1, <1>6, <1>8, DayRow DEF row
  <2>2. relay'.cache[n] = d
    <3> DEFINE e == CacheCandle(relay, n, row)
    <3>1. e.cache[n] = d
      BY <1>1, <1>2, <1>8, CacheIs DEF c
    <3> HIDE DEF e, d
    <3>2. relay' = e
      BY <1>4, <1>8 DEF e
    <3> QED
      BY <3>1, <3>2
  <2>0. d = UpdateCandleSeries(IF Begins(row) THEN {} ELSE c, row)
    OBVIOUS
  <2> HIDE DEF d
  <2>3. ASSUME NEW b \in Joined'
        PROVE  /\ b \in Joined /\ PageFollows(browsers'[b], n, d)
               /\ browsers'[b].buffer[n].open = TRUE =>
                    /\ Begins(row) \/ browsers[b].buffer[n].open = TRUE
                    /\ "pending" \notin row.flags => browsers'[b].buffer[n].endSeen # TRUE
                    /\ browsers'[b].buffer[n].endSeen # TRUE =>
                         "end" \notin row.flags /\ (~Begins(row) => browsers[b].buffer[n].endSeen # TRUE)
    <3> DEFINE e == Drawn(browsers[b], n, row)
    <3>0. b \in Browsers /\ browsers'[b].socket = "joined" /\ browsers[b] \in PageSet
      BY <1>1 DEF Joined
    <3>1. e.socket = browsers[b].socket
      BY <1>2, <1>8, <3>0, DrawnIs
    <3>2. browsers'[b] = IF b \in Attached THEN e ELSE browsers[b]
      BY <1>5, <1>8, <3>0
    <3>3. b \in Attached /\ b \in Joined
      <4> HIDE DEF e
      <4> QED
        BY <3>0, <3>1, <3>2 DEF Attached, Joined
    <3>4. PageFollows(browsers[b], n, c)
      BY <1>6, <3>3
    <3>5. /\ PageFollows(e, n, d)
          /\ e.buffer[n].open = TRUE =>
               /\ Begins(row) \/ browsers[b].buffer[n].open = TRUE
               /\ "pending" \notin row.flags => e.buffer[n].endSeen # TRUE
               /\ e.buffer[n].endSeen # TRUE =>
                    "end" \notin row.flags /\ (~Begins(row) => browsers[b].buffer[n].endSeen # TRUE)
      BY <1>1, <1>2, <1>8, <2>0, <2>1, <3>0, <3>4, PageRow
    <3> HIDE DEF e
    <3>6. browsers'[b] = e
      BY <3>2, <3>3
    <3> QED
      BY <3>3, <3>5, <3>6
  <2>4. CloseComes(w, HeldOpen(n), EndAwaited(n)) => CloseComes(Tail(w), HeldOpen(n)', EndAwaited(n)')
    <3> DEFINE o == HeldOpen(n)
               a == EndAwaited(n)
               o2 == HeldOpen(n)'
               a2 == EndAwaited(n)'
    <3>1. ASSUME ~Begins(row), o = {} PROVE o2 = {}
      BY <2>3, <3>1 DEF HeldOpen
    <3>2. ASSUME "end" \in row.flags \/ (~Begins(row) /\ a = {}) PROVE a2 = {}
      <4> SUFFICES ASSUME NEW b \in a2 PROVE FALSE
        OBVIOUS
      <4>1. b \in Joined' /\ browsers'[b].buffer[n].open = TRUE /\ browsers'[b].buffer[n].endSeen # TRUE
        BY DEF EndAwaited, HeldOpen
      <4>2. /\ "end" \notin row.flags /\ b \in Joined /\ ~Begins(row) /\ browsers[b].buffer[n].open = TRUE
            /\ browsers[b].buffer[n].endSeen # TRUE
        BY <2>3, <3>2, <4>1
      <4> QED
        BY <3>2, <4>2 DEF EndAwaited, HeldOpen
    <3>3. ASSUME CompletedAt(w, 1), "end" \in row.flags \/ (~Begins(row) /\ a = {}) PROVE o2 = {}
      <4> SUFFICES ASSUME NEW b \in o2 PROVE FALSE
        OBVIOUS
      <4>1. b \in Joined' /\ browsers'[b].buffer[n].open = TRUE
        BY DEF HeldOpen
      <4>2. browsers'[b].buffer[n].endSeen # TRUE
        BY <2>3, <3>3, <4>1 DEF CompletedAt, row
      <4>3. b \in a2
        BY <4>1, <4>2 DEF EndAwaited, HeldOpen
      <4> QED
        BY <3>2, <3>3, <4>3
    <3> HIDE DEF o, a, o2, a2
    <3>4. CloseComes(w, o, a) => CloseComes(Tail(w), o2, a2)
      BY <1>1, <3>1, <3>2, <3>3, CloseTail DEF row
    <3> QED
      BY <3>4 DEF o, a, o2, a2
  <2>5. \A b \in Joined' : PageFollows(browsers[b], n, relay.cache[n])'
    BY <2>2, <2>3
  <2> QED
    BY <1>3, <1>6, <2>1, <2>2, <2>4, <2>5 DEF ChartHolds
<1> QED
  BY <1>7, <1>8

\* A row of any other stream leaves the day as it is.
LEMMA OtherRow ==
  ASSUME YearsIInv, NEW n \in Watched \ Bare, ChartHolds(n), NEW st \in Streams, st # Day(n), RowArrives(st)
  PROVE  ChartHolds(n)'
<1> DEFINE row == Head(wire[st])
<1>1. /\ SeriesShape /\ RelayShape(relay) /\ wire[st] \in Seq(FeedRows) /\ wire[st] # <<>>
      /\ browsers \in [Browsers -> PageSet] /\ wire \in [Streams -> Seq(FeedRows)]
  BY DEF YearsIInv, SeriesShape, RowArrives
<1>2. row \in FeedRows
  BY <1>1, TailIs
<1>3. wire'[Day(n)] = wire[Day(n)] /\ streams' = streams
  BY <1>1, StreamsAre DEF RowArrives, Day
<1>4. st.period = "intraday" => st.name \in Watched /\ st.name # n
  BY StreamsAre DEF Day
<1>5. relay'.cache[n] = relay.cache[n]
  <2>1. CASE st.period # "intraday"
    BY <2>1, RowYears DEF RowTaken
  <2>2. CASE st.period = "intraday"
    <3> DEFINE e == CacheCandle(relay, st.name, row)
    <3>1. Publishes(row) => e.cache[n] = relay.cache[n]
      BY <1>1, <1>2, <1>4, <2>2, CacheIs
    <3>2. relay' = IF Publishes(row) THEN e ELSE relay
      BY <2>2 DEF RowArrives, RowAtRelay
    <3> HIDE DEF e, row
    <3> QED
      BY <3>1, <3>2
  <2> QED
    BY <2>1, <2>2
<1>6. ASSUME NEW b \in Browsers
      PROVE  /\ browsers'[b].buffer[n] = browsers[b].buffer[n] /\ browsers'[b].chart[n] = browsers[b].chart[n]
             /\ browsers'[b].socket = browsers[b].socket
  <2> DEFINE e == Drawn(browsers[b], st.name, row)
  <2>1. st.period = "intraday" /\ Publishes(row) =>
          e.buffer[n] = browsers[b].buffer[n] /\ e.chart[n] = browsers[b].chart[n] /\ e.socket = browsers[b].socket
    BY <1>1, <1>2, <1>4, DrawnIs
  <2>2. browsers'[b] = IF b \in Attached /\ st.period = "intraday" /\ Publishes(row) THEN e ELSE browsers[b]
    BY DEF RowArrives
  <2> HIDE DEF e, row
  <2> QED
    BY <2>1, <2>2
<1> QED
  BY <1>3, <1>5, <1>6, DayStays

\* A day's snapshot that a row with a price ends.
DayRows(y, v) ==
  /\ y \in Seq(FeedRows) /\ Len(y) \in {Bars, Bars + 1}
  /\ \A i \in 1..Len(y) : y[i].time \in 1..Bars /\ y[i].close = v /\ "remove" \notin y[i].flags
  /\ \A i \in 2..Len(y) : ~Begins(y[i])
  /\ y[2].time = Bars - 1 /\ "end" \in y[Bars].flags /\ "pending" \notin y[Len(y)].flags

LEMMA DaySnapshot ==
  ASSUME NEW v \in Nat \ {0}, NEW end \in {"priced", "pending"}
  PROVE  DayRows(FullSnapshot(end, v), v)
<1> DEFINE flags == IF end = "priced" THEN {"end"} ELSE {"end", "pending"}
           s == BarsDown(flags, v)
           y == FullSnapshot(end, v)
<1>0. Bars \in Nat /\ Bars >= 2 /\ v \in Nat
  BY SeriesAssumption
<1>1. /\ flags \in SUBSET {"begin", "end", "pending", "remove"} /\ "end" \in flags /\ "begin" \notin flags
      /\ "remove" \notin flags /\ (end = "priced" => "pending" \notin flags)
  OBVIOUS
<1>2. y = IF end = "priced" THEN s ELSE Append(s, Row({}, 1, v))
  BY <1>0, FullSnapshotIs
<1> HIDE DEF flags
<1>3. /\ s \in Seq(FeedRows) /\ Len(s) = Bars
      /\ \A i \in 1..Bars : s[i] = Row(IF i = 1 THEN {"begin"} ELSE IF i = Bars THEN flags ELSE {}, Bars + 1 - i, v)
  BY <1>0, <1>1, BarsDownIs
<1> HIDE DEF s
<1>4. /\ \A i \in 1..Bars : s[i].time \in 1..Bars /\ s[i].close = v /\ "remove" \notin s[i].flags
      /\ \A i \in 2..Bars : ~Begins(s[i])
      /\ s[2].time = Bars - 1 /\ "end" \in s[Bars].flags /\ (end = "priced" => "pending" \notin s[Bars].flags)
  <2>1. \A i \in 1..Bars : Bars + 1 - i \in 1..Bars
    BY <1>0
  <2>2. \A i \in 2..Bars : i \in 1..Bars /\ i # 1
    BY <1>0
  <2>3. 2 \in 1..Bars /\ Bars \in 1..Bars /\ Bars # 1 /\ Bars + 1 - 2 = Bars - 1
    BY <1>0
  <2>4. \A i \in 1..Bars : s[i].time \in 1..Bars /\ s[i].close = v /\ "remove" \notin s[i].flags
    BY <1>1, <1>3, <2>1 DEF Row
  <2>5. \A i \in 2..Bars : ~Begins(s[i])
    BY <1>1, <1>3, <2>2 DEF Row, Begins
  <2>6. s[2].time = Bars - 1 /\ s[Bars].flags = flags
    BY <1>3, <2>3 DEF Row
  <2> QED
    BY <1>1, <2>4, <2>5, <2>6
<1> HIDE DEF y
<1>5. ASSUME end = "priced" PROVE DayRows(y, v)
  BY <1>2, <1>3, <1>4, <1>5 DEF DayRows
<1>6. ASSUME end = "pending" PROVE DayRows(y, v)
  <2> DEFINE last == Row({}, 1, v)
  <2>1. /\ last \in FeedRows /\ last.time \in 1..Bars /\ last.close = v /\ "remove" \notin last.flags
        /\ ~Begins(last) /\ "pending" \notin last.flags
    BY <1>0 DEF Row, FeedRows, Begins
  <2>2. y = Append(s, last)
    BY <1>2, <1>6
  <2> HIDE DEF last
  <2>3. y \in Seq(FeedRows) /\ Len(y) = Bars + 1 /\ y[Bars + 1] = last /\ \A i \in 1..Bars : y[i] = s[i]
    BY <1>0, <1>3, <2>1, <2>2, AppendProperties
  <2>4. \A i \in 1..Len(y) : i \in 1..Bars \/ i = Bars + 1
    BY <1>0, <2>3
  <2>5. \A i \in 2..Len(y) : (i \in 1..Bars /\ i \in 2..Bars) \/ i = Bars + 1
    BY <1>0, <2>3
  <2>6. 2 \in 1..Bars /\ Bars \in 1..Bars
    BY <1>0
  <2> QED
    BY <1>4, <2>1, <2>3, <2>4, <2>5, <2>6 DEF DayRows
<1> QED
  BY <1>5, <1>6 DEF y

\* A stream that is asked for again brings the second newest bar and a close.
LEMMA DayAppended ==
  ASSUME NEW w \in Seq(FeedRows), NEW c, DayQueue(w, c), NEW v \in Nat \ {0}, NEW end \in {"priced", "pending"}
  PROVE  LET f == w \o FullSnapshot(end, v)
         IN DayQueue(f, c) /\ SecondComes(f, c) /\ \A o, a : CloseComes(f, o, a)
<1> DEFINE y == FullSnapshot(end, v)
<1>0. Bars \in Nat /\ Bars >= 2 /\ v # NoClose /\ v \in Nat \ {0} /\ end \in {"priced", "pending"}
  BY SeriesAssumption DEF NoClose
<1>a. DayRows(y, v)
  BY DaySnapshot
<1> HIDE DEF y
<1> DEFINE f == w \o y
           l == Len(w)
           e == Len(y)
<1>1. /\ y \in Seq(FeedRows) /\ e \in {Bars, Bars + 1}
      /\ \A i \in 1..e : y[i].time \in 1..Bars /\ y[i].close = v /\ "remove" \notin y[i].flags
      /\ \A i \in 2..e : ~Begins(y[i])
      /\ y[2].time = Bars - 1 /\ "end" \in y[Bars].flags /\ "pending" \notin y[e].flags
  BY <1>a DEF DayRows
<1>2. /\ Len(f) = l + e /\ l \in Nat /\ e \in Nat
      /\ \A i \in 1..l : f[i] = w[i]
      /\ \A i \in (l + 1)..(l + e) : f[i] = y[i - l]
  BY <1>1, ConcatIs
<1>3. w = <<>> <=> l = 0
  BY EmptyIs
<1> HIDE DEF f, l, e
<1>4. \A i \in 1..e : i + l \in (l + 1)..(l + e) /\ i + l - l = i
  BY <1>2
<1>5. \A i \in 1..e : f[i + l] = y[i]
  BY <1>2, <1>4
<1>6. \A i \in (l + 1)..(l + e) : i - l \in 1..e /\ f[i] = y[i - l]
  BY <1>2
<1>7. \A i \in 1..(l + e) : i \in 1..l \/ i \in (l + 1)..(l + e)
  BY <1>2
<1>8. DayQueue(f, c)
  <2> SUFFICES ASSUME NEW i \in 1..Len(f)
               PROVE  /\ f[i].time \in 1..Bars /\ (f[i].close # NoClose \/ f[i].flags \subseteq {"remove"})
                      /\ "remove" \in f[i].flags =>
                           f[i].time = Bars /\ f[i].flags = {"remove"} /\ SecondBefore(f, i, c)
    BY DEF DayQueue
  <2>1. CASE i \in 1..l
    <3>1. /\ i \in 1..Len(w) /\ i \in Nat /\ f[i] = w[i] /\ \A k \in 1..(i - 1) : k \in 1..l
      BY <1>2, <2>1 DEF l
    <3>2. \A k \in 1..(i - 1) : f[k] = w[k]
      BY <1>2, <3>1
    <3>3. SecondBefore(w, i, c) => SecondBefore(f, i, c)
      BY <3>1, <3>2, SecondSame
    <3> QED
      BY <3>1, <3>3 DEF DayQueue
  <2>2. CASE i \in (l + 1)..(l + e)
    BY <1>0, <1>1, <1>6, <2>2
  <2> QED
    BY <1>2, <1>7, <2>1, <2>2
<1>9. ASSUME NEW j \in 1..e PROVE NoneBegins(f, j + l)
  <2>1. \A i \in (j + l + 1)..(l + e) : i \in (l + 1)..(l + e) /\ i - l \in 2..e
    BY <1>2
  <2> QED
    BY <1>1, <1>2, <1>6, <2>1 DEF NoneBegins
<1>10. /\ 2 \in 1..e /\ Bars \in 1..e /\ e \in 1..e /\ 2 + l \in 1..Len(f) /\ Bars + l \in 1..Len(f)
       /\ e + l \in (Bars + l)..Len(f)
  <2>1. e \in Nat /\ l \in Nat /\ Bars \in Nat /\ Bars >= 2 /\ e >= Bars /\ Len(f) = l + e
    BY <1>0, <1>1, <1>2
  <2>2. 2 \in 1..e /\ Bars \in 1..e /\ e \in 1..e
    BY <2>1
  <2>3. 2 + l \in 1..(l + e) /\ Bars + l \in 1..(l + e)
    BY <2>1
  <2>4. e + l \in (Bars + l)..(l + e)
    BY <2>1
  <2> QED
    BY <2>1, <2>2, <2>3, <2>4
<1>11. \A i \in 1..e : Priced(f[i + l])
  BY <1>0, <1>1, <1>5 DEF Priced
<1>12. SecondComes(f, c)
  <2>1. f[2 + l].time = Bars - 1 /\ Priced(f[2 + l]) /\ NoneBegins(f, 2 + l)
    BY <1>1, <1>5, <1>9, <1>10, <1>11
  <2>2. Len(f) + 1 - 1 = Len(f)
    BY <1>2
  <2> QED
    BY <1>10, <2>1, <2>2 DEF SecondComes, SecondBefore, NoneBegins
<1>13. ASSUME NEW o, NEW a PROVE CloseComes(f, o, a)
  <2>1. EndsAt(f, Bars + l, e + l)
    BY <1>1, <1>5, <1>9, <1>10, <1>11 DEF EndsAt
  <2> QED
    BY <1>10, <2>1 DEF CloseComes
<1> QED
  BY <1>8, <1>12, <1>13 DEF f, y

LEMMA DayCut ==
  ASSUME NEW w \in Seq(FeedRows), NEW c, DayQueue(w, c), NEW k \in 0..Len(w)
  PROVE  DayQueue(SubSeq(w, 1, k), c)
<1> DEFINE f == SubSeq(w, 1, k)
<1>1. f \in Seq(FeedRows) /\ Len(f) = k /\ (\A i \in 1..k : f[i] = w[i]) /\ Len(w) \in Nat /\ k \in Nat
  BY CutIs
<1> HIDE DEF f
<1>2. \A i \in 1..k : i \in 1..Len(w) /\ i \in Nat /\ \A j \in 1..(i - 1) : j \in 1..k
  BY <1>1
<1>3. \A i \in 1..k : SecondBefore(w, i, c) => SecondBefore(f, i, c)
  <2> SUFFICES ASSUME NEW i \in 1..k, SecondBefore(w, i, c) PROVE SecondBefore(f, i, c)
    OBVIOUS
  <2>1. i \in Nat /\ \A j \in 1..(i - 1) : f[j] = w[j]
    BY <1>1, <1>2
  <2> QED
    BY <2>1, SecondSame
<1>4. DayQueue(f, c)
  BY <1>1, <1>2, <1>3 DEF DayQueue
<1> QED
  BY <1>4 DEF f

LEMMA SyncDays ==
  ASSUME SeriesShape, Sync, "quiet" \notin EndRows, NEW n \in Watched \ Bare, ChartHolds(n)
  PROVE  ChartHolds(n)'
<1> DEFINE w == wire[Day(n)]
           c == relay.cache[n]
<1>1. /\ w \in Seq(FeedRows) /\ Day(n) \in Streams /\ relay' = relay /\ browsers' = browsers /\ sent \in Nat
      /\ Day(n).period = "intraday" /\ Day(n).name = n
  BY StreamsAre DEF SeriesShape, Sync, Day, Stream
<1>2. Synced(Day(n)) /\ streams' \in SUBSET Streams
  BY <1>1, SyncIs
<1>3. /\ UniqueTimes(c) /\ DayQueue(w, c)
      /\ \A b \in Joined : PageFollows(browsers[b], n, c)
      /\ c = {} => \A b \in Browsers : browsers[b].chart[n] = {} /\ browsers[b].buffer[n].open = FALSE
  BY DEF ChartHolds
<1>4. Joined' = Joined /\ HeldOpen(n)' = HeldOpen(n) /\ EndAwaited(n)' = EndAwaited(n) /\ relay'.cache[n] = c
  BY <1>1 DEF Joined, HeldOpen, EndAwaited
<1>5. ASSUME DayQueue(wire'[Day(n)], c),
             Day(n) \in streams' => /\ SecondComes(wire'[Day(n)], c)
                                    /\ CloseComes(wire'[Day(n)], HeldOpen(n), EndAwaited(n))
      PROVE  ChartHolds(n)'
  BY <1>1, <1>3, <1>4, <1>5 DEF ChartHolds
<1>6. CASE wire'[Day(n)] = w /\ (Day(n) \in streams' => Day(n) \in streams)
  BY <1>3, <1>5, <1>6 DEF ChartHolds
<1>7. ASSUME Day(n) \notin streams', NEW k \in 0..Len(w), wire'[Day(n)] = SubSeq(w, 1, k)
      PROVE  ChartHolds(n)'
  BY <1>1, <1>3, <1>5, <1>7, DayCut
<1>8. ASSUME NEW end \in EndRows, NEW observed \in BOOLEAN,
             wire'[Day(n)] = w \o Snapshot(Day(n), end, observed, sent + 1)
      PROVE  ChartHolds(n)'
  <2>1. end \in {"priced", "pending"} /\ sent + 1 \in Nat \ {0}
    BY <1>1, SeriesAssumption
  <2>2. Snapshot(Day(n), end, observed, sent + 1) = FullSnapshot(end, sent + 1)
    BY <1>1 DEF Snapshot
  <2> DEFINE f == w \o FullSnapshot(end, sent + 1)
  <2>3. DayQueue(f, c) /\ SecondComes(f, c) /\ CloseComes(f, HeldOpen(n), EndAwaited(n))
    BY <1>1, <1>3, <2>1, DayAppended
  <2>4. wire'[Day(n)] = f
    BY <1>8, <2>2
  <2> HIDE DEF f
  <2> QED
    BY <1>5, <2>3, <2>4
<1> QED
  BY <1>2, <1>6, <1>7, <1>8 DEF Synced

LEMMA EndDays ==
  ASSUME SeriesShape, ConnectionEnds, NEW n \in Watched \ Bare, ChartHolds(n)
  PROVE  ChartHolds(n)'
<1>1. /\ Day(n) \in Streams /\ RelayShape(relay) /\ browsers' = browsers /\ streams' = {}
      /\ wire' = Quiet /\ relay' = Dropped(relay)
  BY StreamsAre DEF SeriesShape, ConnectionEnds, Day
<1>2. wire'[Day(n)] = <<>> /\ Day(n) \notin streams'
  BY <1>1 DEF Quiet
<1>3. relay'.cache = relay.cache
  BY <1>1 DEF Dropped, RelayShape
<1>4. DayQueue(<<>>, relay.cache[n])
  BY EmptySeq DEF DayQueue
<1> QED
  BY <1>1, <1>2, <1>3, <1>4 DEF ChartHolds, Joined

\* A later bar takes nothing of a day from what is on its way.
LEMMA DayTicked ==
  ASSUME NEW w \in Seq(FeedRows), NEW c, NEW row \in FeedRows, IsTick(row), NEW o, NEW a,
         DayQueue(w, c), SecondComes(w, c), CloseComes(w, o, a)
  PROVE  LET f == Append(w, row)
         IN DayQueue(f, c) /\ SecondComes(f, c) /\ CloseComes(f, o, a)
<1> DEFINE f == Append(w, row)
           l == Len(w)
<1>0. row.time = Bars /\ row.flags \subseteq {"remove"} /\ Bars \in 1..Bars
  BY SeriesAssumption DEF IsTick
<1>1. l \in Nat /\ Len(f) = l + 1 /\ f[l + 1] = row /\ \A i \in 1..l : f[i] = w[i]
  BY AppendProperties
<1> HIDE DEF f, l
<1>2. \A i \in 1..(l + 1) : i \in 1..l \/ i = l + 1
  BY <1>1
<1>3. l + 1 \in Nat \ {0} /\ l + 1 - 1 = l /\ l + 1 \in Nat
  BY <1>1
<1>4. SecondBefore(f, l + 1, c)
  <2>1. SecondBefore(w, l + 1, c)
    BY DEF SecondComes, l
  <2> QED
    BY <1>1, <1>3, <2>1, SecondSame
<1>5. ~Begins(f[l + 1])
  BY <1>0, <1>1 DEF Begins
<1>6. SecondComes(f, c)
  BY <1>1, <1>3, <1>4, <1>5, SecondGrows DEF SecondComes
<1>7. DayQueue(f, c)
  <2> SUFFICES ASSUME NEW i \in 1..Len(f)
               PROVE  /\ f[i].time \in 1..Bars /\ (f[i].close # NoClose \/ f[i].flags \subseteq {"remove"})
                      /\ "remove" \in f[i].flags =>
                           f[i].time = Bars /\ f[i].flags = {"remove"} /\ SecondBefore(f, i, c)
    BY DEF DayQueue
  <2>1. CASE i \in 1..l
    <3>1. i \in 1..Len(w) /\ i \in Nat /\ f[i] = w[i] /\ \A k \in 1..(i - 1) : k \in 1..l
      BY <1>1, <2>1 DEF l
    <3>2. \A k \in 1..(i - 1) : f[k] = w[k]
      BY <1>1, <3>1
    <3>3. SecondBefore(w, i, c) => SecondBefore(f, i, c)
      BY <3>1, <3>2, SecondSame
    <3> QED
      BY <3>1, <3>3 DEF DayQueue
  <2>2. CASE i = l + 1
    <3>1. "remove" \in row.flags => row.flags = {"remove"}
      BY <1>0
    <3> QED
      BY <1>0, <1>1, <1>4, <2>2, <3>1
  <2> QED
    BY <1>1, <1>2, <2>1, <2>2
<1>8. ASSUME NEW j \in Nat, NoneBegins(w, j) PROVE NoneBegins(f, j)
  <2>1. \A i \in (j + 1)..(l + 1) : (i \in (j + 1)..l /\ i \in 1..l) \/ i = l + 1
    BY <1>1, <1>8
  <2>2. \A i \in (j + 1)..l : ~Begins(w[i])
    BY <1>8 DEF NoneBegins, l
  <2> QED
    BY <1>1, <1>5, <2>1, <2>2 DEF NoneBegins
<1>9. CloseComes(f, o, a)
  <2>1. ASSUME NEW j \in 1..l, NEW k \in j..l, EndsAt(w, j, k) PROVE CloseComes(f, o, a)
    <3>1. k \in 1..l /\ j \in Nat /\ j \in 1..Len(f) /\ k \in j..Len(f)
      BY <1>1
    <3>2. EndsAt(f, j, k)
      BY <1>1, <1>8, <2>1, <3>1 DEF EndsAt
    <3> QED
      BY <3>1, <3>2 DEF CloseComes
  <2>2. ASSUME NoneBegins(w, 0), a = {}, NEW k \in 1..l, CompletedAt(w, k) PROVE CloseComes(f, o, a)
    <3>1. k \in 1..Len(f) /\ f[k] = w[k] /\ NoneBegins(f, 0)
      BY <1>1, <1>8, <2>2
    <3>2. CompletedAt(f, k)
      BY <2>2, <3>1 DEF CompletedAt
    <3> QED
      BY <2>2, <3>1, <3>2 DEF CloseComes
  <2>3. ASSUME NoneBegins(w, 0), o = {} PROVE CloseComes(f, o, a)
    BY <1>8, <2>3 DEF CloseComes
  <2> QED
    BY <2>1, <2>2, <2>3 DEF CloseComes, l
<1> QED
  BY <1>6, <1>7, <1>9 DEF f

LEMMA TickDays ==
  ASSUME SeriesShape, NEW st \in Streams, MarketTicks(st), NEW n \in Watched \ Bare, ChartHolds(n)
  PROVE  ChartHolds(n)'
<1> DEFINE c == relay.cache[n]
           w == wire[Day(n)]
<1>1. PICK row \in FeedRows :
        /\ st \in streams /\ UNCHANGED <<streams, relay, browsers>>
        /\ \A x \in Streams \ {st} : wire'[x] = wire[x]
        /\ IsTick(row) /\ wire'[st] = Append(wire[st], row)
  BY TickIs
<1>2. Day(n) \in Streams /\ w \in Seq(FeedRows)
  BY StreamsAre DEF SeriesShape, Day
<1>3. CASE st # Day(n)
  <2>1. wire'[Day(n)] = w
    BY <1>1, <1>2, <1>3
  <2> QED
    BY <1>1, <2>1, DayStays
<1>4. CASE st = Day(n)
  <2> DEFINE f == Append(w, row)
  <2>1. /\ Day(n) \in streams /\ DayQueue(w, c)
        /\ SecondComes(w, c) /\ CloseComes(w, HeldOpen(n), EndAwaited(n))
    BY <1>1, <1>4 DEF ChartHolds
  <2>2. DayQueue(f, c) /\ SecondComes(f, c) /\ CloseComes(f, HeldOpen(n), EndAwaited(n))
    BY <1>1, <1>2, <2>1, DayTicked
  <2>3. wire'[Day(n)] = f
    BY <1>1, <1>4
  <2> HIDE DEF f
  <2> QED
    BY <1>1, <2>2, <2>3 DEF ChartHolds, Joined, HeldOpen, EndAwaited
<1> QED
  BY <1>3, <1>4

LEMMA DaysNext ==
  ASSUME YearsIInv, \A n \in Watched \ Bare : ChartHolds(n), "quiet" \notin EndRows, [SeriesNext]_seriesVars,
         NEW n \in Watched \ Bare
  PROVE  ChartHolds(n)'
<1>1. SeriesShape /\ ChartHolds(n)
  BY DEF YearsIInv
<1>2. CASE Sync
  BY <1>1, <1>2, SyncDays
<1>3. CASE Connects
  BY <1>1, <1>3, DayStays DEF Connects
<1>4. CASE ConnectionEnds
  BY <1>1, <1>4, EndDays
<1>5. ASSUME NEW st \in Streams, RowArrives(st) PROVE ChartHolds(n)'
  BY <1>1, <1>5, DayTakesRow, OtherRow
<1>6. ASSUME NEW st \in Streams, MarketTicks(st) PROVE ChartHolds(n)'
  BY <1>1, <1>6, TickDays
<1>7. ASSUME NEW q \in Reads, Register(q) \/ TimesOut(q) \/ Release(q) PROVE ChartHolds(n)'
  <2>1. relay'.cache = relay.cache
    BY <1>7, RegisterYears, ReleaseYears
  <2>2. UNCHANGED <<streams, wire, browsers>>
    BY <1>7 DEF Register, TimesOut, Release
  <2> QED
    BY <1>1, <2>1, <2>2, DayStays
<1>8. ASSUME NEW b \in Browsers, Join(b) \/ Replay(b) \/ Leave(b) PROVE ChartHolds(n)'
  <2>1. UNCHANGED <<streams, wire, relay>>
    BY <1>8 DEF Join, Replay, Leave
  <2>2. /\ \A x \in Browsers \ {b} : browsers'[x] = browsers[x]
        /\ \/ browsers'[b].buffer[n] = browsers[b].buffer[n] /\ browsers'[b].chart[n] = browsers[b].chart[n]
              /\ (browsers'[b].socket # "joined" \/ relay.cache[n] = {})
           \/ browsers'[b].buffer[n] = NotOpen /\ browsers'[b].chart[n] = relay.cache[n] /\ relay.cache[n] # {}
    BY <1>1, <1>8, VisitIs
  <2> QED
    BY <1>1, <2>1, <2>2, DayStays
<1>9. CASE UNCHANGED seriesVars
  BY <1>1, <1>9, DayStays DEF seriesVars
<1> QED
  BY <1>2, <1>3, <1>4, <1>5, <1>6, <1>7, <1>8, <1>9 DEF SeriesNext

LEMMA DesiredSame ==
  ASSUME Attached' = {} <=> Attached = {}, Registered(relay') = Registered(relay)
  PROVE  Desired' = Desired
<1>1. (IF Attached' = {} THEN {} ELSE Watched) = (IF Attached = {} THEN {} ELSE Watched)
  OBVIOUS
<1> QED
  BY <1>1 DEF Desired

LEMMA SubscribedNext ==
  ASSUME YearsIInv, SubscribedInv, [SeriesNext]_seriesVars
  PROVE  SubscribedInv'
<1>1. SeriesShape
  BY DEF YearsIInv
<1>2. ASSUME Attached' = Attached, Registered(relay') = Registered(relay), UNCHANGED <<up, owed, streams>>
      PROVE  SubscribedInv'
  BY <1>2, DesiredSame DEF SubscribedInv
<1>3. ASSUME UNCHANGED <<relay, browsers>> PROVE Attached' = Attached /\ Registered(relay') = Registered(relay)
  BY <1>3 DEF Attached
<1>4. CASE Sync
  <2>1. up' = TRUE => streams' = Desired
    BY <1>1, <1>4, SyncIs
  <2>2. Desired' = Desired
    BY <1>3, <1>4, DesiredSame DEF Sync
  <2> QED
    BY <2>1, <2>2 DEF SubscribedInv
<1>5. CASE Connects
  BY <1>5 DEF Connects, SubscribedInv
<1>6. CASE ConnectionEnds
  BY <1>6 DEF ConnectionEnds, SubscribedInv
<1>7. ASSUME NEW st \in Streams, RowArrives(st) PROVE SubscribedInv'
  <2> DEFINE row == Head(wire[st])
  <2>1. Registered(relay') = Registered(relay)
    BY <1>7, RowYears DEF RowTaken
  <2>2. row \in FeedRows
    BY <1>1, <1>7, TailIs DEF SeriesShape, RowArrives
  <2>3. ASSUME NEW b \in Browsers PROVE browsers'[b].socket = browsers[b].socket
    <3> DEFINE e == Drawn(browsers[b], st.name, row)
    <3>1. st.period = "intraday" /\ Publishes(row) => e.socket = browsers[b].socket
      BY <1>1, <2>2, DrawnIs, StreamsAre DEF SeriesShape
    <3>2. browsers'[b] = IF b \in Attached /\ st.period = "intraday" /\ Publishes(row) THEN e ELSE browsers[b]
      BY <1>7 DEF RowArrives
    <3> HIDE DEF e, row
    <3> QED
      BY <3>1, <3>2
  <2>4. Attached' = Attached
    BY <2>3 DEF Attached
  <2> QED
    BY <1>2, <1>7, <2>1, <2>4 DEF RowArrives
<1>8. ASSUME NEW st \in Streams, MarketTicks(st) PROVE SubscribedInv'
  BY <1>2, <1>3, <1>8 DEF MarketTicks
<1>9. ASSUME NEW q \in Reads, Register(q) \/ Release(q) PROVE SubscribedInv'
  BY <1>9 DEF Register, Release, SubscribedInv
<1>10. ASSUME NEW q \in Reads, TimesOut(q) PROVE SubscribedInv'
  <2>1. Registered(relay') = Registered(relay)
    BY <1>10, RegisterYears
  <2>2. Attached' = Attached /\ UNCHANGED <<up, owed, streams>>
    BY <1>10 DEF TimesOut, Attached
  <2> QED
    BY <1>2, <2>1, <2>2
<1>11. ASSUME NEW b \in Browsers, Join(b) \/ Leave(b) PROVE SubscribedInv'
  BY <1>11 DEF Join, Leave, SubscribedInv
<1>12. ASSUME NEW b \in Browsers, Replay(b) PROVE SubscribedInv'
  <2>1. browsers[b].socket = "accepted" /\ UNCHANGED <<up, owed, streams, relay>>
    BY <1>12 DEF Replay
  <2>2. browsers'[b].socket = "joined" /\ \A x \in Browsers \ {b} : browsers'[x] = browsers[x]
    <3> DEFINE d == [Replayed(browsers[b], relay) EXCEPT !.socket = "joined"]
    <3>1. browsers \in [Browsers -> PageSet] /\ RelayShape(relay)
      BY <1>1 DEF SeriesShape
    <3>2. d.socket = "joined"
      BY <3>1, ReplayedIs
    <3>3. browsers' = [browsers EXCEPT ![b] = d]
      BY <1>12 DEF Replay
    <3> HIDE DEF d
    <3> QED
      BY <3>1, <3>2, <3>3
  <2>3. Attached' = Attached
    BY <2>1, <2>2 DEF Attached
  <2> QED
    BY <1>2, <2>1, <2>3
<1>13. CASE UNCHANGED seriesVars
  BY <1>2, <1>3, <1>13 DEF seriesVars
<1> QED
  BY <1>4, <1>5, <1>6, <1>7, <1>8, <1>9, <1>10, <1>11, <1>12, <1>13 DEF SeriesNext

LEMMA InitSeries ==
  ASSUME SeriesInit
  PROVE  SeriesIInv
<1>1. /\ YearsIInv /\ SubscribedInv
  BY InitYears DEF SeriesInit, SubscribedInv
<1>2. ASSUME NEW n \in Watched \ Bare PROVE ChartHolds(n)
  <2>1. wire[Day(n)] = <<>> /\ streams = {} /\ relay.cache[n] = {} /\ Len(<<>>) = 0
    BY StreamsAre, EmptySeq DEF SeriesInit, Quiet, Day
  <2>2. \A b \in Browsers : /\ browsers[b].socket = "none" /\ browsers[b].chart[n] = {}
                            /\ browsers[b].buffer[n].open = FALSE
    BY NotOpenIs DEF SeriesInit
  <2>3. DayQueue(<<>>, {}) /\ UniqueTimes({})
    BY <2>1 DEF DayQueue, UniqueTimes
  <2> QED
    BY <2>1, <2>2, <2>3 DEF ChartHolds, Joined
<1> QED
  BY <1>1, <1>2 DEF SeriesIInv

\* When nothing is on its way every snapshot of a joined browser is closed, and its
\* chart is what the relay keeps.
LEMMA SettledAgree ==
  ASSUME SeriesIInv
  PROVE  SeriesInv
<1>1. YearsIInv /\ SeriesShape /\ SubscribedInv
  BY DEF SeriesIInv, YearsIInv
<1>2. AnswersWhole
  BY <1>1 DEF YearsIInv, ReadsWhole, WholeBy, AnswersWhole, Whole
<1>3. ASSUME Settled, NEW b \in Attached, NEW n \in Watched \ Bare
      PROVE  browsers[b].chart[n] = relay.cache[n]
  <2>1. up = TRUE /\ owed = FALSE /\ b \in Joined /\ Day(n) \in Streams
    BY <1>1, <1>3, StreamsAre DEF Settled, SeriesShape, Attached, Joined, PageSet, Day
  <2>2. Day(n) \in streams
    BY <1>1, <1>3, <2>1 DEF SubscribedInv, Desired, Day
  <2>3. wire[Day(n)] = <<>> /\ Len(<<>>) = 0
    BY <1>3, <2>1, EmptySeq DEF Settled, Quiet
  <2>4. CloseComes(<<>>, HeldOpen(n), EndAwaited(n)) /\ PageFollows(browsers[b], n, relay.cache[n])
    BY <2>1, <2>2, <2>3 DEF SeriesIInv, ChartHolds
  <2>5. HeldOpen(n) = {}
    BY <2>3, <2>4 DEF CloseComes
  <2> QED
    BY <2>1, <2>4, <2>5 DEF HeldOpen, PageFollows
<1> QED
  BY <1>2, <1>3 DEF SeriesInv, ChartsAgree

\* Years that are read are whole and, when no snapshot of a chart ends in a row
\* without a price (SnapshotsClose), a browser that joined in the middle of one
\* ends with the chart the relay has: replayCandles, applyLiveMarketEvent.
THEOREM SeriesHolds ==
  ASSUME "quiet" \notin EndRows
  PROVE  SeriesSpec => []SeriesInv
<1>1. SeriesInit => SeriesIInv
  BY InitSeries
<1>2. SeriesIInv /\ [SeriesNext]_seriesVars => SeriesIInv'
  <2> SUFFICES ASSUME SeriesIInv, [SeriesNext]_seriesVars PROVE SeriesIInv'
    OBVIOUS
  <2>1. YearsIInv' /\ SubscribedInv'
    BY YearsNext, SubscribedNext DEF SeriesIInv
  <2>2. ASSUME NEW n \in Watched \ Bare PROVE ChartHolds(n)'
    BY DaysNext DEF SeriesIInv
  <2> QED
    BY <2>1, <2>2 DEF SeriesIInv
<1>3. SeriesIInv => SeriesInv
  BY SettledAgree
<1> QED
  BY <1>1, <1>2, <1>3, PTL DEF SeriesSpec

===============================================================================
