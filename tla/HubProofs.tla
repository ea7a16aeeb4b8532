------------------------------ MODULE HubProofs ------------------------------
(***************************************************************************)
(* Theorems of Hub for every number of connections and events and every    *)
(* capacity of the send channels.                                          *)
(***************************************************************************)
EXTENDS Hub, TLAPS

Started(c) == reader[c] \in {"reading", "leaving", "gone"}

\* l has been a listener.
Opened(l) == sub[l] # "none"

AnotherOpened(l) == \E k \in Listeners : k # l /\ Opened(k)

\* The room, its subscription and its clients agree.
RoomInv ==
    /\ exists <=> subscriber # NoClient
    /\ members # {} => exists
    /\ \A l \in Listeners : sub[l] \in {"dialing", "live"} <=> l = subscriber
    /\ ~panicked => members \cap shut = {}
    /\ \A c \in members \cup shut : Started(c)

\* A listener broadcasts only what it was subscribed to, and finds a client shut
\* only when there is another listener.
ListenerInv ==
    /\ \A l \in Listeners : queue[l] # <<>> \/ Broadcasting(l) => Opened(l)
    /\ \A l \in Listeners : at[l] # NoClient => Broadcasting(l) /\ Started(at[l])
    /\ \A l \in Listeners : at[l] \in shut => AnotherOpened(l)
    /\ PanicTakesTwo

HubInv == TypeOK /\ RoomInv /\ ListenerInv

LEMMA UpdateType ==
    ASSUME NEW S, NEW T, NEW f \in [S -> T], NEW x \in S, NEW y \in T
    PROVE  [f EXCEPT ![x] = y] \in [S -> T]
OBVIOUS

LEMMA TypeInit == Init => TypeOK
<1> SUFFICES ASSUME Init PROVE TypeOK
  OBVIOUS
<1> USE HubAssumption DEF Init, Listeners, Events
<1>1. /\ queue \in [Listeners -> Seq(Events)]
      /\ buf \in [Clients -> Seq(Events)]
      /\ got \in [Clients -> Seq(Events)]
  OBVIOUS
<1>2. \A c \in Clients : Len(buf[c]) <= SendCap
  OBVIOUS
<1>3. job \in [Listeners -> 0 .. MaxEvents] /\ published \in 0 .. MaxEvents
  OBVIOUS
<1> QED BY <1>1, <1>2, <1>3 DEF TypeOK

LEMMA TypeStep ==
    ASSUME HubInv, [Next]_vars
    PROVE  TypeOK'
<1> USE HubAssumption DEF TypeOK, Listeners, Events, room, listener, client, HubInv
<1>1. ASSUME NEW c \in Clients, Upgrade(c) PROVE TypeOK'
  BY <1>1 DEF Upgrade
<1>2. ASSUME NEW c \in Clients, Register(c) PROVE TypeOK'
  BY <1>2 DEF Register, StartListener
<1>3. ASSUME NEW c \in Clients, Unregister(c) PROVE TypeOK'
  BY <1>3 DEF Unregister, StopListener
<1>4. ASSUME NEW c \in Clients, Break(c) PROVE TypeOK'
  BY <1>4 DEF Break
<1>5. ASSUME NEW c \in Clients, Write(c) PROVE TypeOK'
  <2>1. /\ buf' \in [Clients -> Seq(Events)]
        /\ \A d \in Clients : Len(buf'[d]) <= SendCap
    BY <1>5, SMTT(30) DEF Write
  <2>2. got' \in [Clients -> Seq(Events)]
    <3>1. Head(buf[c]) \in Events
      BY <1>5, SMTT(30) DEF Write
    <3>2. Append(got[c], Head(buf[c])) \in Seq(Events)
      BY <3>1
    <3>3. got' = got \/ got' = [got EXCEPT ![c] = Append(got[c], Head(buf[c]))]
      BY <1>5 DEF Write
    <3> QED BY <3>2, <3>3
  <2>3. conn' \in [Clients -> {"none", "up", "down"}] /\ writing' \subseteq Clients
    BY <1>5 DEF Write
  <2> QED BY <1>5, <2>1, <2>2, <2>3 DEF Write
<1>6. ASSUME NEW c \in Clients, WriteClose(c) PROVE TypeOK'
  BY <1>6 DEF WriteClose
<1>7. ASSUME NEW c \in Clients, PingFails(c) PROVE TypeOK'
  BY <1>7 DEF PingFails
<1>8. ASSUME NEW c \in Clients, ReadFails(c) PROVE TypeOK'
  BY <1>8 DEF ReadFails
<1>9. ASSUME NEW l \in Listeners, Subscribed(l) PROVE TypeOK'
  BY <1>9 DEF Subscribed
<1>10. ASSUME NEW l \in Listeners, Disconnect(l) PROVE TypeOK'
  BY <1>10 DEF Disconnect
<1>11. ASSUME NEW l \in Listeners, Receive(l) PROVE TypeOK'
  <2>1. queue' \in [Listeners -> Seq(Events)]
    BY <1>11 DEF Receive
  <2>2. Head(queue[l]) \in Events
    BY <1>11 DEF Receive
  <2>3. job' = job \/ job' = [job EXCEPT ![l] = Head(queue[l])]
    BY <1>11 DEF Receive
  <2>4. todo' = todo \/ todo' = [todo EXCEPT ![l] = members]
    BY <1>11 DEF Receive
  <2>5. job' \in [Listeners -> 0 .. MaxEvents]
    <3>1. job \in [Listeners -> 0 .. MaxEvents] /\ Head(queue[l]) \in 0 .. MaxEvents
      BY <2>2
    <3>2. [job EXCEPT ![l] = Head(queue[l])] \in [Listeners -> 0 .. MaxEvents]
      BY <3>1, UpdateType
    <3> QED BY <2>3, <3>1, <3>2
  <2>6. todo' \in [Listeners -> SUBSET Clients]
    <3>1. todo \in [Listeners -> SUBSET Clients] /\ members \in SUBSET Clients
      OBVIOUS
    <3>2. [todo EXCEPT ![l] = members] \in [Listeners -> SUBSET Clients]
      BY <3>1, UpdateType
    <3> QED BY <2>4, <3>1, <3>2
  <2> QED BY <1>11, <2>1, <2>5, <2>6 DEF Receive
<1>12. ASSUME NEW l \in Listeners, Visit(l) PROVE TypeOK'
  <2>1. at' \in [Listeners -> Clients \cup {NoClient}]
    BY <1>12 DEF Visit
  <2>2. todo' \in [Listeners -> SUBSET Clients]
    BY <1>12, SMTT(30) DEF Visit
  <2> QED BY <1>12, <2>1, <2>2 DEF Visit
<1>13. ASSUME NEW l \in Listeners, Offer(l) PROVE TypeOK'
  <2>1. CASE Send(l, at[l])
    <3>1. job[l] \in Events
      BY <1>13 DEF Offer, ListenerInv, Broadcasting
    <3>2. buf' \in [Clients -> Seq(Events)]
      BY <1>13, <2>1, <3>1 DEF Offer, Send
    <3>3. \A c \in Clients : Len(buf'[c]) <= SendCap
      BY <1>13, <2>1, <3>1 DEF Offer, Send, HasRoom
    <3> QED BY <1>13, <2>1, <3>2, <3>3 DEF Offer, Send
  <2>2. CASE Drop(l, at[l])
    BY <1>13, <2>2 DEF Offer, Drop
  <2>3. CASE SendOnClosed(at[l])
    BY <1>13, <2>3 DEF Offer, SendOnClosed
  <2> QED BY <1>13, <2>1, <2>2, <2>3 DEF Offer
<1>14. ASSUME NEW l \in Listeners, Finish(l) PROVE TypeOK'
  BY <1>14 DEF Finish, Broadcasting
<1>15. CASE Publish
  <2>1. published + 1 \in Events /\ published' \in 0 .. MaxEvents
    BY <1>15 DEF Publish
  <2>2. queue' \in [Listeners -> Seq(Events)]
    <3>1. \A k \in Listeners : Append(queue[k], published + 1) \in Seq(Events)
      BY <2>1
    <3> QED BY <1>15, <3>1 DEF Publish
  <2>3. due' \in [Clients -> SUBSET Events]
    BY <1>15, <2>1 DEF Publish
  <2> QED BY <1>15, <2>1, <2>2, <2>3 DEF Publish
<1>16. CASE UNCHANGED vars
  BY <1>16 DEF vars
<1> QED
  BY <1>1, <1>2, <1>3, <1>4, <1>5, <1>6, <1>7, <1>8, <1>9, <1>10, <1>11,
     <1>12, <1>13, <1>14, <1>15, <1>16
  DEF Next, Work, Run, Listen, WritePump, Rest

\* The room: RoomInv is disturbed by Run and by the broadcasts that drop a client.
LEMMA RoomStep ==
    ASSUME HubInv, [Next]_vars
    PROVE  RoomInv'
<1> USE HubAssumption DEF HubInv, TypeOK, RoomInv, Started, Listeners, room, listener, client
<1>1. ASSUME NEW c \in Clients, ~panicked, Upgrade(c) PROVE RoomInv'
  BY <1>1 DEF Upgrade
<1>2. ASSUME NEW c \in Clients, ~panicked, Register(c) PROVE RoomInv'
  <2>1. c \notin members /\ c \notin shut /\ reader'[c] = "reading"
    BY <1>2 DEF Register
  <2>2. members' = members \cup {c} /\ shut' = shut /\ exists' = TRUE /\ panicked' = panicked
    BY <1>2 DEF Register
  <2>3. \A d \in Clients : Started(d) => Started(d)'
    BY <1>2 DEF Register
  <2>4. subscriber' # NoClient
    BY <1>2 DEF Register, StartListener
  <2>5. \A l \in Listeners : sub'[l] \in {"dialing", "live"} <=> l = subscriber'
    <3>1. CASE exists
      BY <1>2, <3>1 DEF Register
    <3>2. CASE ~exists
      <4>1. subscriber = NoClient /\ subscriber' = c /\ sub' = [sub EXCEPT ![c] = "dialing"]
        BY <1>2, <3>2 DEF Register, StartListener
      <4> QED BY <4>1
    <3> QED BY <3>1, <3>2
  <2>6. \A d \in members' \cup shut' : Started(d)'
    BY <2>1, <2>2, <2>3
  <2> QED BY <2>1, <2>2, <2>4, <2>5, <2>6
<1>3. ASSUME NEW c \in Clients, ~panicked, Unregister(c) PROVE RoomInv'
  <2>1. CASE c \notin members
    BY <1>3, <2>1 DEF Unregister
  <2>2. CASE c \in members
    <3>1. /\ members' = members \ {c}
          /\ shut' = shut \cup {c}
          /\ exists' = (members' # {})
          /\ IF exists' THEN UNCHANGED <<subscriber, sub>> ELSE StopListener
          /\ panicked' = panicked
      BY <1>3, <2>2 DEF Unregister
    <3>2. \A d \in Clients : Started(d) => Started(d)'
      BY <1>3 DEF Unregister
    <3>3. \A d \in members' \cup shut' : Started(d)'
      BY <2>2, <3>1, <3>2
    <3>4. exists' <=> subscriber' # NoClient
      BY <2>2, <3>1 DEF StopListener
    <3>5. \A l \in Listeners : sub'[l] \in {"dialing", "live"} <=> l = subscriber'
      BY <2>2, <3>1 DEF StopListener
    <3> QED BY <3>1, <3>3, <3>4, <3>5
  <2> QED BY <2>1, <2>2
<1>4. ASSUME NEW c \in Clients, ~panicked, Break(c) PROVE RoomInv'
  BY <1>4 DEF Break
<1>5. ASSUME NEW c \in Clients, ~panicked, Write(c) PROVE RoomInv'
  BY <1>5 DEF Write
<1>6. ASSUME NEW c \in Clients, ~panicked, WriteClose(c) PROVE RoomInv'
  BY <1>6 DEF WriteClose
<1>7. ASSUME NEW c \in Clients, ~panicked, PingFails(c) PROVE RoomInv'
  BY <1>7 DEF PingFails
<1>8. ASSUME NEW c \in Clients, ~panicked, ReadFails(c) PROVE RoomInv'
  BY <1>8 DEF ReadFails
<1>9. ASSUME NEW l \in Listeners, ~panicked, Subscribed(l) PROVE RoomInv'
  BY <1>9 DEF Subscribed
<1>10. ASSUME NEW l \in Listeners, ~panicked, Disconnect(l) PROVE RoomInv'
  BY <1>10 DEF Disconnect
<1>11. ASSUME NEW l \in Listeners, ~panicked, Receive(l) PROVE RoomInv'
  BY <1>11 DEF Receive, Broadcasting
<1>12. ASSUME NEW l \in Listeners, ~panicked, Visit(l) PROVE RoomInv'
  BY <1>12 DEF Visit, Broadcasting
<1>13. ASSUME NEW l \in Listeners, ~panicked, Offer(l) PROVE RoomInv'
  <2>1. at[l] \in Clients /\ Started(at[l])
    BY <1>13 DEF Offer, ListenerInv
  <2>2. UNCHANGED <<exists, subscriber, sub, reader>>
    BY <1>13 DEF Offer
  <2>3. CASE Send(l, at[l]) \/ SendOnClosed(at[l])
    BY <2>2, <2>3 DEF Send, SendOnClosed
  <2>4. CASE Drop(l, at[l])
    <3>1. members' = members \ {at[l]} /\ shut' = shut \cup {at[l]}
      BY <2>4 DEF Drop
    <3> QED BY <1>13, <2>1, <2>2, <3>1
  <2> QED BY <1>13, <2>3, <2>4 DEF Offer
<1>14. ASSUME NEW l \in Listeners, ~panicked, Finish(l) PROVE RoomInv'
  BY <1>14 DEF Finish, Broadcasting
<1>15. CASE ~panicked /\ Publish
  BY <1>15 DEF Publish, Live
<1>16. CASE UNCHANGED vars
  BY <1>16 DEF vars
<1> QED
  BY <1>1, <1>2, <1>3, <1>4, <1>5, <1>6, <1>7, <1>8, <1>9, <1>10, <1>11,
     <1>12, <1>13, <1>14, <1>15, <1>16
  DEF Next, Work, Run, Listen, WritePump, Rest

\* The client that a range yields is a member, so its channel is open.
LEMMA VisitKeepsListenerInv ==
    ASSUME HubInv, NEW l \in Listeners, ~panicked, Visit(l)
    PROVE  ListenerInv'
<1>1. PICK c \in todo[l] \cap members : at' = [at EXCEPT ![l] = c]
  BY DEF Visit
<1>2. c \notin shut /\ Started(c) /\ Broadcasting(l)
  BY <1>1 DEF HubInv, RoomInv, Visit
<1>3. UNCHANGED <<sub, queue, job, shut, reader, panicked>>
  BY DEF Visit, room, client
<1>4. ASSUME NEW k \in Listeners
      PROVE  \/ k = l /\ at'[k] = c
             \/ at'[k] = at[k]
  BY <1>1 DEF HubInv, TypeOK
<1>5. \A k \in Listeners : queue'[k] # <<>> \/ Broadcasting(k)' => Opened(k)'
  BY <1>3 DEF HubInv, ListenerInv, Broadcasting, Opened
<1>6. \A k \in Listeners : at'[k] # NoClient => Broadcasting(k)' /\ Started(at[k])'
  BY <1>2, <1>3, <1>4 DEF HubInv, ListenerInv, Broadcasting, Started
<1>7. \A k \in Listeners : at'[k] \in shut' => AnotherOpened(k)'
  BY <1>2, <1>3, <1>4 DEF HubInv, ListenerInv, AnotherOpened, Opened
<1>8. PanicTakesTwo'
  BY <1>3 DEF PanicTakesTwo, HubInv, TypeOK
<1> QED BY <1>5, <1>6, <1>7, <1>8 DEF ListenerInv

LEMMA ListenerStep ==
    ASSUME HubInv, [Next]_vars
    PROVE  ListenerInv'
<1> USE HubAssumption DEF HubInv, TypeOK, ListenerInv, Started, Opened, AnotherOpened,
                          PanicTakesTwo, Broadcasting, Listeners, room, listener, client
<1>1. ASSUME NEW c \in Clients, ~panicked, Upgrade(c) PROVE ListenerInv'
  BY <1>1 DEF Upgrade
<1>2. ASSUME NEW c \in Clients, ~panicked, Register(c) PROVE ListenerInv'
  BY <1>2 DEF Register, StartListener
<1>3. ASSUME NEW c \in Clients, ~panicked, Unregister(c) PROVE ListenerInv'
  <2>1. \A k \in Listeners : at[k] = NoClient /\ job[k] = 0
    BY <1>3 DEF Unregister, LockFree
  <2>2. \A k \in Listeners : Opened(k) => Opened(k)'
    BY <1>3 DEF Unregister, StopListener
  <2>3. shut' \subseteq Clients
    BY <1>3 DEF Unregister
  <2>4. UNCHANGED <<queue, job, at, panicked>>
    BY <1>3 DEF Unregister
  <2> QED BY <1>3, <2>1, <2>2, <2>3, <2>4
<1>4. ASSUME NEW c \in Clients, ~panicked, Break(c) PROVE ListenerInv'
  BY <1>4 DEF Break
<1>5. ASSUME NEW c \in Clients, ~panicked, Write(c) PROVE ListenerInv'
  BY <1>5 DEF Write
<1>6. ASSUME NEW c \in Clients, ~panicked, WriteClose(c) PROVE ListenerInv'
  BY <1>6 DEF WriteClose
<1>7. ASSUME NEW c \in Clients, ~panicked, PingFails(c) PROVE ListenerInv'
  BY <1>7 DEF PingFails
<1>8. ASSUME NEW c \in Clients, ~panicked, ReadFails(c) PROVE ListenerInv'
  BY <1>8 DEF ReadFails
<1>9. ASSUME NEW l \in Listeners, ~panicked, Subscribed(l) PROVE ListenerInv'
  BY <1>9 DEF Subscribed
<1>10. ASSUME NEW l \in Listeners, ~panicked, Disconnect(l) PROVE ListenerInv'
  BY <1>10 DEF Disconnect
<1>11. ASSUME NEW l \in Listeners, ~panicked, Receive(l) PROVE ListenerInv'
  BY <1>11 DEF Receive, Broadcasting
<1>12. ASSUME NEW l \in Listeners, ~panicked, Visit(l) PROVE ListenerInv'
  BY <1>12, VisitKeepsListenerInv
<1>13. ASSUME NEW l \in Listeners, ~panicked, Offer(l) PROVE ListenerInv'
  <2>1. Broadcasting(l) /\ Opened(l) /\ at[l] \in Clients
    BY <1>13 DEF Offer
  <2>2. UNCHANGED <<sub, queue, job, reader>> /\ at' = [at EXCEPT ![l] = NoClient]
    BY <1>13 DEF Offer
  <2>3. shut' \subseteq shut \cup {at[l]}
    BY <1>13 DEF Offer, Send, Drop, SendOnClosed
  <2>4. ASSUME NEW k \in Listeners, at'[k] \in shut' PROVE AnotherOpened(k)'
    <3>1. k # l /\ at'[k] = at[k]
      BY <2>1, <2>2, <2>3, <2>4
    <3> QED BY <2>1, <2>2, <3>1
  <2>5. PanicTakesTwo'
    <3>1. CASE Send(l, at[l])
      BY <1>13, <3>1 DEF Send
    <3>2. CASE Drop(l, at[l])
      <4>1. panicked' => \E k \in Listeners \ {l} : Broadcasting(k)
        BY <3>2 DEF Drop
      <4> QED BY <2>1, <2>2, <4>1
    <3>3. CASE SendOnClosed(at[l])
      <4>1. AnotherOpened(l)
        BY <3>3 DEF SendOnClosed
      <4> QED BY <2>1, <2>2, <4>1
    <3> QED BY <1>13, <3>1, <3>2, <3>3 DEF Offer
  <2> QED BY <2>1, <2>2, <2>4, <2>5
<1>14. ASSUME NEW l \in Listeners, ~panicked, Finish(l) PROVE ListenerInv'
  BY <1>14 DEF Finish, Broadcasting
<1>15. CASE ~panicked /\ Publish
  BY <1>15 DEF Publish, Live
<1>16. CASE UNCHANGED vars
  BY <1>16 DEF vars
<1> QED
  BY <1>1, <1>2, <1>3, <1>4, <1>5, <1>6, <1>7, <1>8, <1>9, <1>10, <1>11,
     <1>12, <1>13, <1>14, <1>15, <1>16
  DEF Next, Work, Run, Listen, WritePump, Rest

LEMMA AppendRange ==
    ASSUME NEW s \in Seq(Events), NEW e \in Events
    PROVE  RangeOf(Append(s, e)) = RangeOf(s) \cup {e}
<1>1. ASSUME NEW i \in 1 .. Len(s) PROVE Append(s, e)[i] = s[i]
  OBVIOUS
<1>2. Append(s, e)[Len(s) + 1] = e /\ Len(Append(s, e)) = Len(s) + 1
  OBVIOUS
<1> QED BY <1>1, <1>2 DEF RangeOf

LEMMA TailRange ==
    ASSUME NEW s \in Seq(Events), s # <<>>
    PROVE  RangeOf(s) = {Head(s)} \cup RangeOf(Tail(s))
<1>1. Len(Tail(s)) = Len(s) - 1 /\ Len(s) \in Nat \ {0} /\ s[1] = Head(s)
  OBVIOUS
<1>2. \A i \in 1 .. Len(Tail(s)) : Tail(s)[i] = s[i + 1]
  OBVIOUS
<1>3. RangeOf(s) \subseteq {Head(s)} \cup RangeOf(Tail(s))
  <2> SUFFICES ASSUME NEW i \in 1 .. Len(s), i # 1
               PROVE  s[i] \in RangeOf(Tail(s))
    BY <1>1 DEF RangeOf
  <2>1. i - 1 \in 1 .. Len(Tail(s)) /\ Tail(s)[i - 1] = s[i]
    BY <1>1, <1>2
  <2> QED BY <2>1 DEF RangeOf
<1>4. {Head(s)} \cup RangeOf(Tail(s)) \subseteq RangeOf(s)
  BY <1>1, <1>2 DEF RangeOf
<1> QED BY <1>3, <1>4

\* Where an event that is due to c can be.
Heard(c, e) == e \in RangeOf(got[c]) \cup RangeOf(buf[c])

Coming(c, e) ==
    \/ e \in RangeOf(queue[subscriber])
    \/ job[subscriber] = e /\ c \in todo[subscriber] \cup {at[subscriber]}

\* Nothing is due to a client before it is registered.
DueInv ==
    /\ \A c \in Clients : due[c] # {} => Started(c)
    /\ NothingSkipped

\* Who remains a member finds what is due to it where it can be, still.
Carried(c) ==
    conn'[c] = "up" =>
        \/ due[c] = {}
        \/ /\ c \in members /\ conn[c] = "up"
           /\ \A e \in due[c] : Heard(c, e) \/ Coming(c, e) => Heard(c, e)' \/ Coming(c, e)'

LEMMA DueMoved ==
    ASSUME HubInv, DueInv, due' = due, \A c \in Clients : Started(c) => Started(c)',
           \A c \in members' : Carried(c)
    PROVE  DueInv'
<1>1. \A c \in Clients : due'[c] # {} => Started(c)'
  BY DEF DueInv
<1>2. ASSUME NEW c \in members', conn'[c] = "up", NEW e \in due'[c]
      PROVE  Heard(c, e)' \/ Coming(c, e)'
  BY <1>2 DEF DueInv, NothingSkipped, Heard, Coming, Carried
<1>3. NothingSkipped'
  BY <1>2 DEF NothingSkipped, Heard, Coming
<1> QED BY <1>1, <1>3 DEF DueInv

LEMMA DueStep ==
    ASSUME HubInv, HubInv', DueInv, [Next]_vars
    PROVE  DueInv'
<1> USE HubAssumption DEF HubInv, TypeOK, RoomInv, DueInv, Started, Listeners,
                          room, listener, client
<1>1. ASSUME NEW c \in Clients, ~panicked, Upgrade(c) PROVE DueInv'
  <2>1. due' = due /\ \A d \in Clients : Started(d) => Started(d)'
    BY <1>1 DEF Upgrade
  <2>2. ASSUME NEW d \in members' PROVE Carried(d)
    BY <1>1 DEF Upgrade, Carried, Heard, Coming
  <2> QED BY <2>1, <2>2, DueMoved
<1>2. ASSUME NEW c \in Clients, ~panicked, Register(c) PROVE DueInv'
  <2>1. due' = due /\ \A d \in Clients : Started(d) => Started(d)'
    BY <1>2 DEF Register
  <2>2. due[c] = {}
    BY <1>2 DEF Register
  <2>3. members' = members \cup {c} /\ UNCHANGED <<conn, got, buf, queue, job, todo, at>>
    BY <1>2 DEF Register
  <2>4. members # {} => subscriber' = subscriber
    BY <1>2 DEF Register
  <2>5. ASSUME NEW d \in members' PROVE Carried(d)
    BY <2>2, <2>3, <2>4 DEF Carried, Heard, Coming
  <2> QED BY <2>1, <2>5, DueMoved
<1>3. ASSUME NEW c \in Clients, ~panicked, Unregister(c) PROVE DueInv'
  <2>1. due' = due /\ \A d \in Clients : Started(d) => Started(d)'
    BY <1>3 DEF Unregister
  <2>2. members' \subseteq members /\ UNCHANGED <<conn, got, buf, queue, job, todo, at>>
    BY <1>3 DEF Unregister
  <2>3. members' # {} => subscriber' = subscriber
    BY <1>3 DEF Unregister
  <2>4. ASSUME NEW d \in members' PROVE Carried(d)
    BY <2>2, <2>3 DEF Carried, Heard, Coming
  <2> QED BY <2>1, <2>4, DueMoved
<1>4. ASSUME NEW c \in Clients, ~panicked, Break(c) PROVE DueInv'
  <2>1. due' = due /\ \A d \in Clients : Started(d) => Started(d)'
    BY <1>4 DEF Break
  <2>2. ASSUME NEW d \in members' PROVE Carried(d)
    BY <1>4 DEF Break, Carried, Heard, Coming
  <2> QED BY <2>1, <2>2, DueMoved
<1>5. ASSUME NEW c \in Clients, ~panicked, Write(c) PROVE DueInv'
  <2>1. UNCHANGED <<due, reader, members, queue, job, todo, at, subscriber>>
    BY <1>5 DEF Write
  <2>2. ASSUME NEW d \in members', conn'[d] = "up", NEW e, Heard(d, e) PROVE Heard(d, e)'
    <3>1. CASE d # c
      BY <1>5, <2>2, <3>1 DEF Write, Heard
    <3>2. CASE d = c
      <4>1. /\ buf[c] \in Seq(Events) /\ buf[c] # <<>> /\ got[c] \in Seq(Events)
            /\ Head(buf[c]) \in Events
        BY <1>5 DEF Write
      <4>2. buf'[c] = Tail(buf[c]) /\ got'[c] = Append(got[c], Head(buf[c]))
        BY <1>5, <2>2, <3>2 DEF Write
      <4>3. RangeOf(Append(got[c], Head(buf[c]))) = RangeOf(got[c]) \cup {Head(buf[c])}
        BY <4>1, AppendRange
      <4>4. RangeOf(buf[c]) = {Head(buf[c])} \cup RangeOf(buf'[c])
        BY <4>1, <4>2, TailRange
      <4> QED BY <2>2, <3>2, <4>2, <4>3, <4>4 DEF Heard
    <3> QED BY <3>1, <3>2
  <2>3. ASSUME NEW d \in members' PROVE Carried(d)
    BY <1>5, <2>1, <2>2, SMTT(30) DEF Carried, Coming, Write
  <2> QED BY <2>1, <2>3, DueMoved
<1>6. ASSUME NEW c \in Clients, ~panicked, WriteClose(c) PROVE DueInv'
  <2>1. due' = due /\ \A d \in Clients : Started(d) => Started(d)'
    BY <1>6 DEF WriteClose
  <2>2. ASSUME NEW d \in members' PROVE Carried(d)
    BY <1>6 DEF WriteClose, Carried, Heard, Coming
  <2> QED BY <2>1, <2>2, DueMoved
<1>7. ASSUME NEW c \in Clients, ~panicked, PingFails(c) PROVE DueInv'
  <2>1. due' = due /\ \A d \in Clients : Started(d) => Started(d)'
    BY <1>7 DEF PingFails
  <2>2. ASSUME NEW d \in members' PROVE Carried(d)
    BY <1>7 DEF PingFails, Carried, Heard, Coming
  <2> QED BY <2>1, <2>2, DueMoved
<1>8. ASSUME NEW c \in Clients, ~panicked, ReadFails(c) PROVE DueInv'
  <2>1. due' = due /\ \A d \in Clients : Started(d) => Started(d)'
    BY <1>8 DEF ReadFails
  <2>2. ASSUME NEW d \in members' PROVE Carried(d)
    BY <1>8 DEF ReadFails, Carried, Heard, Coming
  <2> QED BY <2>1, <2>2, DueMoved
<1>9. ASSUME NEW l \in Listeners, ~panicked, Subscribed(l) PROVE DueInv'
  <2>1. due' = due /\ \A d \in Clients : Started(d) => Started(d)'
    BY <1>9 DEF Subscribed
  <2>2. ASSUME NEW d \in members' PROVE Carried(d)
    BY <1>9 DEF Subscribed, Carried, Heard, Coming
  <2> QED BY <2>1, <2>2, DueMoved
<1>10. ASSUME NEW l \in Listeners, ~panicked, Disconnect(l) PROVE DueInv'
  <2>1. due' = due /\ \A d \in Clients : Started(d) => Started(d)'
    BY <1>10 DEF Disconnect
  <2>2. ASSUME NEW d \in members' PROVE Carried(d)
    BY <1>10 DEF Disconnect, Carried, Heard, Coming
  <2> QED BY <2>1, <2>2, DueMoved
<1>11. ASSUME NEW l \in Listeners, ~panicked, Receive(l) PROVE DueInv'
  <2>1. UNCHANGED <<due, reader, members, conn, got, buf, at, subscriber>>
    BY <1>11 DEF Receive
  <2>2. ASSUME NEW d \in members', NEW e \in due[d], Coming(d, e) PROVE Coming(d, e)'
    <3>1. CASE l # subscriber
      BY <1>11, <2>1, <2>2, <3>1 DEF Receive, Coming
    <3>2. CASE l = subscriber
      <4>1. queue[l] \in Seq(Events) /\ queue[l] # <<>> /\ job[l] = 0
        BY <1>11 DEF Receive, Broadcasting
      <4>2. /\ queue'[l] = Tail(queue[l])
            /\ job'[l] = Head(queue[l])
            /\ todo'[l] = members
        BY <1>11, <2>1, <2>2 DEF Receive
      <4>3. RangeOf(queue[l]) = {Head(queue[l])} \cup RangeOf(queue'[l])
        BY <4>1, <4>2, TailRange
      <4>4. e \in RangeOf(queue[l])
        BY <2>1, <2>2, <3>2, <4>1 DEF Coming, Events
      <4> QED BY <2>1, <3>2, <4>2, <4>3, <4>4 DEF Coming
    <3> QED BY <3>1, <3>2
  <2>3. ASSUME NEW d \in members' PROVE Carried(d)
    BY <2>1, <2>2 DEF Carried, Heard
  <2> QED BY <2>1, <2>3, DueMoved
<1>12. ASSUME NEW l \in Listeners, ~panicked, Visit(l) PROVE DueInv'
  <2>1. UNCHANGED <<due, reader, members, conn, got, buf, queue, job, subscriber>>
    BY <1>12 DEF Visit
  <2>2. PICK c \in todo[l] : /\ at' = [at EXCEPT ![l] = c]
                             /\ todo' = [todo EXCEPT ![l] = @ \ {c}]
    BY <1>12 DEF Visit
  <2>3. \A d \in Clients : d \in todo[subscriber] \cup {at[subscriber]}
                             => d \in todo'[subscriber] \cup {at'[subscriber]}
    BY <1>12, <2>2 DEF Visit
  <2>4. ASSUME NEW d \in members' PROVE Carried(d)
    BY <2>1, <2>3 DEF Carried, Heard, Coming
  <2> QED BY <2>1, <2>4, DueMoved
<1>13. ASSUME NEW l \in Listeners, ~panicked, Offer(l) PROVE DueInv'
  <2>1. UNCHANGED <<due, reader, conn, got, queue, job, todo, subscriber>>
    BY <1>13 DEF Offer
  <2>2. at' = [at EXCEPT ![l] = NoClient] /\ at[l] \in Clients /\ job[l] \in Events
    BY <1>13 DEF Offer, ListenerInv, Broadcasting, Events
  <2>3. ASSUME NEW d \in members', NEW e, Heard(d, e) PROVE Heard(d, e)'
    <3>1. CASE d = at[l] /\ Send(l, at[l])
      <4>1. buf[d] \in Seq(Events) /\ buf'[d] = Append(buf[d], job[l])
        BY <2>2, <3>1 DEF Send
      <4>2. RangeOf(buf'[d]) = RangeOf(buf[d]) \cup {job[l]}
        BY <2>2, <4>1, AppendRange
      <4> QED BY <2>1, <2>3, <4>2 DEF Heard
    <3>2. CASE ~(d = at[l] /\ Send(l, at[l]))
      <4>1. buf'[d] = buf[d]
        BY <1>13, <3>2 DEF Offer, Send, Drop, SendOnClosed
      <4> QED BY <2>1, <2>3, <4>1 DEF Heard
    <3> QED BY <3>1, <3>2
  <2>4. members' \subseteq members
    <3>1. CASE Send(l, at[l])
      BY <3>1 DEF Send
    <3>2. CASE Drop(l, at[l])
      BY <3>2 DEF Drop
    <3>3. CASE SendOnClosed(at[l])
      BY <3>3 DEF SendOnClosed
    <3> QED BY <1>13, <3>1, <3>2, <3>3 DEF Offer
  <2>5. ASSUME NEW d \in members', NEW e, Coming(d, e) PROVE Heard(d, e)' \/ Coming(d, e)'
    <3>1. CASE l = subscriber /\ d = at[l] /\ job[l] = e
      <4>1. d \in members /\ d \notin shut
        BY <1>13, <2>4
      <4>2. Send(l, d)
        BY <1>13, <2>5, <3>1, <4>1 DEF Offer, Drop, SendOnClosed
      <4>3. buf[d] \in Seq(Events) /\ buf'[d] = Append(buf[d], job[l])
        BY <2>2, <3>1, <4>2 DEF Send
      <4>4. RangeOf(buf'[d]) = RangeOf(buf[d]) \cup {job[l]}
        BY <2>2, <4>3, AppendRange
      <4> QED BY <3>1, <4>4 DEF Heard
    <3>2. CASE ~(l = subscriber /\ d = at[l] /\ job[l] = e)
      BY <2>1, <2>2, <2>5, <3>2 DEF Coming
    <3> QED BY <3>1, <3>2
  <2>6. ASSUME NEW d \in members' PROVE Carried(d)
    BY <2>1, <2>3, <2>4, <2>5 DEF Carried
  <2> QED BY <2>1, <2>6, DueMoved
<1>14. ASSUME NEW l \in Listeners, ~panicked, Finish(l) PROVE DueInv'
  <2>1. UNCHANGED <<due, reader, members, conn, got, buf, queue, at, subscriber>>
    BY <1>14 DEF Finish
  <2>2. ASSUME NEW d \in members', NEW e \in due[d], Coming(d, e) PROVE Coming(d, e)'
    <3>1. CASE l # subscriber
      BY <1>14, <2>1, <2>2, <3>1 DEF Finish, Coming
    <3>2. CASE l = subscriber
      <4>1. d \notin todo[l] \cup {at[l]}
        BY <1>14, <2>1 DEF Finish
      <4> QED BY <2>1, <2>2, <3>2, <4>1 DEF Coming
    <3> QED BY <3>1, <3>2
  <2>3. ASSUME NEW d \in members' PROVE Carried(d)
    BY <2>1, <2>2 DEF Carried, Heard
  <2> QED BY <2>1, <2>3, DueMoved
<1>15. CASE ~panicked /\ Publish
  <2>1. UNCHANGED <<members, subscriber, job, todo, at, conn, got, buf, reader>>
    BY <1>15 DEF Publish
  <2>2. published + 1 \in Events
    BY <1>15 DEF Publish, Events
  <2>3. \A d \in Clients : due'[d] # {} => Started(d)'
    BY <1>15, <2>1 DEF Publish
  <2>4. ASSUME NEW d \in members', NEW e, Coming(d, e) PROVE Coming(d, e)'
    <3>1. queue[subscriber] \in Seq(Events)
      BY <2>1
    <3>2. \/ queue'[subscriber] = queue[subscriber]
          \/ queue'[subscriber] = Append(queue[subscriber], published + 1)
      BY <1>15, <2>1 DEF Publish
    <3>3. RangeOf(Append(queue[subscriber], published + 1))
            = RangeOf(queue[subscriber]) \cup {published + 1}
      BY <2>2, <3>1, AppendRange
    <3> QED BY <2>1, <2>4, <3>2, <3>3 DEF Coming
  <2>5. ASSUME NEW d \in members', NEW e \in due'[d], e \notin due[d] PROVE Coming(d, e)'
    <3>1. subscriber \in Live /\ e = published + 1
      BY <1>15, <2>1, <2>5 DEF Publish
    <3>2. /\ queue[subscriber] \in Seq(Events)
          /\ queue'[subscriber] = Append(queue[subscriber], published + 1)
      BY <1>15, <3>1 DEF Publish, Live
    <3>3. RangeOf(Append(queue[subscriber], published + 1))
            = RangeOf(queue[subscriber]) \cup {published + 1}
      BY <2>2, <3>2, AppendRange
    <3> QED BY <2>1, <3>1, <3>2, <3>3 DEF Coming
  <2>6. ASSUME NEW d \in members', conn'[d] = "up", NEW e \in due'[d]
        PROVE  Heard(d, e)' \/ Coming(d, e)'
    <3>1. CASE e \in due[d]
      <4>1. Heard(d, e) \/ Coming(d, e)
        BY <2>1, <2>6, <3>1 DEF NothingSkipped, Heard, Coming
      <4> QED BY <2>1, <2>4, <2>6, <4>1 DEF Heard
    <3>2. CASE e \notin due[d]
      BY <2>5, <2>6, <3>2
    <3> QED BY <3>1, <3>2
  <2>7. NothingSkipped'
    BY <2>6 DEF NothingSkipped, Heard, Coming
  <2> QED BY <2>3, <2>7
<1>16. CASE UNCHANGED vars
  BY <1>16 DEF vars, NothingSkipped
<1> QED
  BY <1>1, <1>2, <1>3, <1>4, <1>5, <1>6, <1>7, <1>8, <1>9, <1>10, <1>11,
     <1>12, <1>13, <1>14, <1>15, <1>16
  DEF Next, Work, Run, Listen, WritePump, Rest

LEMMA HubInvariant == Spec => []HubInv
<1>1. Init => HubInv
  <2> SUFFICES ASSUME Init PROVE HubInv
    OBVIOUS
  <2>1. RoomInv
    BY HubAssumption DEF Init, RoomInv, Listeners
  <2>2. ListenerInv
    BY HubAssumption DEF Init, ListenerInv, PanicTakesTwo, Broadcasting, Listeners
  <2> QED BY <2>1, <2>2, TypeInit DEF HubInv
<1>2. HubInv /\ [Next]_vars => HubInv'
  BY TypeStep, RoomStep, ListenerStep DEF HubInv
<1> QED BY <1>1, <1>2, PTL DEF Spec

\* Every variable of the hub keeps to its type; no send channel overflows.
THEOREM HubTypeCorrect == Spec => []TypeOK
<1>1. HubInv => TypeOK
  BY DEF HubInv
<1> QED BY <1>1, HubInvariant, PTL

\* A client in the room is listened for by the one subscription that is open, and
\* its channel is open, however registrations, drops and losses interleave.
THEOREM MembersAreServedHolds == Spec => []MembersAreServed
<1>1. HubInv => MembersAreServed
  BY HubAssumption DEF HubInv, RoomInv, MembersAreServed, TypeOK, Listeners
<1> QED BY <1>1, HubInvariant, PTL

\* No process with a single listener panics, for any number of slow clients.
THEOREM PanicTakesTwoHolds == Spec => []PanicTakesTwo
<1>1. HubInv => PanicTakesTwo
  BY DEF HubInv, ListenerInv
<1> QED BY <1>1, HubInvariant, PTL

\* A client that stays connected and in the room misses no event published while
\* it was listened for, whichever clients are dropped, lost or added meanwhile.
THEOREM NothingSkippedHolds == Spec => []NothingSkipped
<1>1. Init => DueInv
  BY DEF Init, DueInv, NothingSkipped
<1>2. HubInv /\ HubInv' /\ DueInv /\ [Next]_vars => DueInv'
  BY DueStep
<1>3. DueInv => NothingSkipped
  BY DEF DueInv
<1> QED BY <1>1, <1>2, <1>3, HubInvariant, PTL DEF Spec

NoRepeat(s) == \A i, j \in 1 .. Len(s) : s[i] = s[j] => i = j

\* l has e still to broadcast, or broadcasts it.
Holds(l, e) == e \in RangeOf(queue[l]) \/ job[l] = e

\* l will offer e to c if c stays a member.
Ahead(l, c, e) ==
    \/ e \in RangeOf(queue[l])
    \/ job[l] = e /\ c \in todo[l] \cup {at[l]}

\* One listener at most was given an event, and holds it once.
HeldInv ==
    /\ \A l \in Listeners : NoRepeat(queue[l]) /\ job[l] \notin RangeOf(queue[l])
    /\ \A l \in Listeners, e \in Events : Holds(l, e) => e <= published
    /\ \A l, k \in Listeners, e \in Events : Holds(l, e) /\ Holds(k, e) => l = k
    /\ \A l \in Listeners : at[l] \notin todo[l]

\* No listener will offer a client what the client was sent.
HeardInv ==
    \A c \in Clients :
        /\ NoRepeat(got[c])
        /\ NoRepeat(buf[c])
        /\ RangeOf(got[c]) \cap RangeOf(buf[c]) = {}
        /\ \A e \in Events : Heard(c, e) =>
             e <= published /\ \A l \in Listeners : ~Ahead(l, c, e)

OnceInv == HeldInv /\ HeardInv

LEMMA NoRepeatAppend ==
    ASSUME NEW s \in Seq(Events), NEW e \in Events, NoRepeat(s), e \notin RangeOf(s)
    PROVE  NoRepeat(Append(s, e))
<1>1. \A i \in 1 .. Len(s) : Append(s, e)[i] = s[i] /\ s[i] # e
  BY DEF RangeOf
<1>2. Append(s, e)[Len(s) + 1] = e /\ Len(Append(s, e)) = Len(s) + 1 /\ Len(s) \in Nat
  OBVIOUS
<1>3. \A i \in 1 .. Len(Append(s, e)) : i \in 1 .. Len(s) \/ i = Len(s) + 1
  BY <1>2
<1> QED BY <1>1, <1>2, <1>3 DEF NoRepeat

LEMMA NoRepeatTail ==
    ASSUME NEW s \in Seq(Events), s # <<>>, NoRepeat(s)
    PROVE  NoRepeat(Tail(s)) /\ Head(s) \notin RangeOf(Tail(s))
<1>1. Len(Tail(s)) = Len(s) - 1 /\ Len(s) \in Nat \ {0} /\ s[1] = Head(s)
  OBVIOUS
<1>2. \A i \in 1 .. Len(Tail(s)) : Tail(s)[i] = s[i + 1]
  OBVIOUS
<1>3. \A i \in 1 .. Len(Tail(s)) : i + 1 \in 1 .. Len(s) /\ i + 1 # 1
  BY <1>1
<1>4. NoRepeat(Tail(s))
  BY <1>1, <1>2, <1>3 DEF NoRepeat
<1>5. Head(s) \notin RangeOf(Tail(s))
  <2> SUFFICES ASSUME NEW i \in 1 .. Len(Tail(s)), Tail(s)[i] = Head(s) PROVE FALSE
    BY DEF RangeOf
  <2>1. s[i + 1] = s[1] /\ i + 1 \in 1 .. Len(s) /\ 1 \in 1 .. Len(s) /\ i + 1 # 1
    BY <1>1, <1>2, <1>3
  <2> QED BY <2>1 DEF NoRepeat
<1> QED BY <1>4, <1>5

\* A stream repeats nothing when neither of its parts does and they share nothing.
LEMMA NoRepeatStream ==
    ASSUME NEW s \in Seq(Events), NEW t \in Seq(Events),
           NoRepeat(s), NoRepeat(t), RangeOf(s) \cap RangeOf(t) = {}
    PROVE  NoRepeat(s \o t)
<1>1. Len(s \o t) = Len(s) + Len(t) /\ Len(s) \in Nat /\ Len(t) \in Nat
  OBVIOUS
<1>2. \A i \in 1 .. Len(s) : (s \o t)[i] = s[i]
  OBVIOUS
<1>3. \A i \in 1 .. Len(s \o t) : i \notin 1 .. Len(s) =>
        (s \o t)[i] = t[i - Len(s)] /\ i - Len(s) \in 1 .. Len(t)
  OBVIOUS
<1>4. \A i \in 1 .. Len(s), j \in 1 .. Len(t) : s[i] # t[j]
  BY DEF RangeOf
<1> SUFFICES ASSUME NEW i \in 1 .. Len(s \o t), NEW j \in 1 .. Len(s \o t),
                    (s \o t)[i] = (s \o t)[j]
             PROVE  i = j
  BY DEF NoRepeat
<1>5. CASE i \in 1 .. Len(s) /\ j \in 1 .. Len(s)
  BY <1>2, <1>5 DEF NoRepeat
<1>6. CASE i \notin 1 .. Len(s) /\ j \notin 1 .. Len(s)
  <2>1. i - Len(s) = j - Len(s)
    BY <1>3, <1>6 DEF NoRepeat
  <2> QED BY <1>1, <2>1
<1>7. CASE ~(i \in 1 .. Len(s) <=> j \in 1 .. Len(s))
  BY <1>2, <1>3, <1>4, <1>7
<1> QED BY <1>5, <1>6, <1>7

\* What has been sent and what is still to be sent decide it.
LEMMA OnceMoved ==
    ASSUME OnceInv, UNCHANGED <<queue, job, todo, at, got, buf, published>>
    PROVE  OnceInv'
<1>1. HeldInv'
  BY DEF OnceInv, HeldInv, Holds
<1>2. HeardInv'
  BY DEF OnceInv, HeardInv, Ahead, Heard
<1> QED BY <1>1, <1>2 DEF OnceInv

\* The listener takes the next event of its subscription.
LEMMA OnceReceive ==
    ASSUME HubInv, OnceInv, NEW l \in Listeners, Receive(l)
    PROVE  OnceInv'
<1> USE DEF HubInv, TypeOK
<1>1. /\ queue[l] \in Seq(Events) /\ queue[l] # <<>> /\ job[l] = 0
      /\ NoRepeat(queue[l]) /\ Head(queue[l]) \in Events
  BY DEF Receive, Broadcasting, OnceInv, HeldInv
<1>2. PICK e \in Events : e = Head(queue[l])
  BY <1>1
<1>3. /\ NoRepeat(queue'[l]) /\ e \notin RangeOf(queue'[l])
      /\ RangeOf(queue[l]) = {e} \cup RangeOf(queue'[l])
  BY <1>1, <1>2, NoRepeatTail, TailRange DEF Receive
<1>4. \A k \in Listeners : k # l =>
        queue'[k] = queue[k] /\ job'[k] = job[k] /\ todo'[k] = todo[k]
  BY DEF Receive
<1>5. job'[l] = e \/ job'[l] = 0
  BY <1>1, <1>2 DEF Receive
<1>6. UNCHANGED <<at, got, buf, published>>
  BY DEF Receive, client
<1>7. 0 \notin Events
  BY DEF Events
<1>8. ASSUME NEW k \in Listeners, NEW d \in Events, Holds(k, d)' PROVE Holds(k, d)
  BY <1>3, <1>4, <1>5, <1>7, <1>8 DEF Holds
<1>9. ASSUME NEW k \in Listeners, NEW c \in Clients, NEW d \in Events, Ahead(k, c, d)'
      PROVE  Ahead(k, c, d)
  BY <1>3, <1>4, <1>5, <1>6, <1>7, <1>9 DEF Ahead
<1>10. HeldInv'
  <2>1. \A k \in Listeners : NoRepeat(queue'[k]) /\ job'[k] \notin RangeOf(queue'[k])
    <3>1. 0 \notin RangeOf(queue'[l])
      BY <1>3, <1>1, <1>7 DEF OnceInv, HeldInv
    <3> QED BY <1>3, <1>4, <1>5, <3>1 DEF OnceInv, HeldInv
  <2>2. \A k \in Listeners : at'[k] \notin todo'[k]
    <3>1. at[l] = NoClient /\ NoClient \notin members
      BY <1>1, HubAssumption DEF ListenerInv, Broadcasting
    <3>2. todo'[l] = members \/ todo'[l] = todo[l]
      BY DEF Receive
    <3> QED BY <1>4, <1>6, <3>1, <3>2 DEF OnceInv, HeldInv
  <2>3. \A k \in Listeners, d \in Events : Holds(k, d)' => d <= published'
    BY <1>6, <1>8 DEF OnceInv, HeldInv
  <2>4. \A k, m \in Listeners, d \in Events : Holds(k, d)' /\ Holds(m, d)' => k = m
    BY <1>8 DEF OnceInv, HeldInv
  <2> QED BY <2>1, <2>2, <2>3, <2>4 DEF HeldInv
<1>11. HeardInv'
  BY <1>6, <1>9 DEF OnceInv, HeardInv, Heard
<1> QED BY <1>10, <1>11 DEF OnceInv

LEMMA OnceVisit ==
    ASSUME HubInv, OnceInv, NEW l \in Listeners, Visit(l)
    PROVE  OnceInv'
<1> USE DEF HubInv, TypeOK
<1>1. PICK c \in todo[l] : at' = [at EXCEPT ![l] = c] /\ todo' = [todo EXCEPT ![l] = @ \ {c}]
  BY DEF Visit
<1>2. UNCHANGED <<queue, job, got, buf, published>>
  BY DEF Visit, client
<1>3. \A k \in Listeners : /\ at'[k] \notin todo'[k]
                           /\ todo'[k] \cup {at'[k]} \subseteq todo[k] \cup {at[k]}
  BY <1>1 DEF OnceInv, HeldInv
<1>4. HeldInv'
  BY <1>2, <1>3 DEF OnceInv, HeldInv, Holds
<1>5. \A k \in Listeners, d \in Clients, e \in Events : Ahead(k, d, e)' => Ahead(k, d, e)
  BY <1>2, <1>3 DEF Ahead
<1>6. HeardInv'
  BY <1>2, <1>5 DEF OnceInv, HeardInv, Heard
<1> QED BY <1>4, <1>6 DEF OnceInv

\* The client that the broadcast offers the event to has not been sent it before,
\* and is not offered it again.
LEMMA OnceOffer ==
    ASSUME HubInv, OnceInv, NEW l \in Listeners, Offer(l)
    PROVE  OnceInv'
<1> USE DEF HubInv, TypeOK
<1>1. PICK c \in Clients : c = at[l]
  BY DEF Offer
<1>2. PICK e \in Events : e = job[l]
  BY <1>1 DEF Offer, ListenerInv, Broadcasting, Events
<1>3. UNCHANGED <<queue, job, todo, got, published>> /\ at' = [at EXCEPT ![l] = NoClient]
  BY DEF Offer
<1>4. NoClient \notin Clients
  BY HubAssumption
<1>5. HeldInv'
  <2>1. \A k \in Listeners : at'[k] \notin todo'[k]
    BY <1>3, <1>4 DEF OnceInv, HeldInv
  <2> QED BY <1>3, <2>1 DEF OnceInv, HeldInv, Holds
<1>6. \A k \in Listeners, d \in Clients, f \in Events : Ahead(k, d, f)' => Ahead(k, d, f)
  BY <1>3, <1>4 DEF Ahead
<1>7. CASE Send(l, c)
  <2>1. buf[c] \in Seq(Events) /\ buf' = [buf EXCEPT ![c] = Append(buf[c], e)]
    BY <1>2, <1>7 DEF Send
  <2>2. Ahead(l, c, e) /\ Holds(l, e)
    BY <1>1, <1>2 DEF Ahead, Holds
  <2>3. ~Heard(c, e)
    BY <2>2 DEF OnceInv, HeardInv
  <2>4. ASSUME NEW k \in Listeners PROVE ~Ahead(k, c, e)'
    <3>1. CASE k = l
      BY <1>1, <1>2, <1>3, <1>4, <3>1 DEF Ahead, OnceInv, HeldInv
    <3>2. CASE k # l
      <4>1. ~Holds(k, e)
        BY <2>2, <3>2 DEF OnceInv, HeldInv
      <4> QED BY <1>3, <4>1 DEF Holds, Ahead
    <3> QED BY <3>1, <3>2
  <2>5. NoRepeat(Append(buf[c], e))
    BY <2>1, <2>3, NoRepeatAppend DEF OnceInv, HeardInv, Heard
  <2>6. RangeOf(Append(buf[c], e)) = RangeOf(buf[c]) \cup {e}
    BY <2>1, AppendRange
  <2>7. buf'[c] = Append(buf[c], e) /\ \A d \in Clients \ {c} : buf'[d] = buf[d]
    BY <2>1
  <2>8. e <= published'
    BY <1>3, <2>2 DEF OnceInv, HeldInv
  <2>9. ASSUME NEW d \in Clients
        PROVE  /\ NoRepeat(got'[d]) /\ NoRepeat(buf'[d])
               /\ RangeOf(got'[d]) \cap RangeOf(buf'[d]) = {}
    <3>1. CASE d # c
      BY <1>3, <2>7, <3>1 DEF OnceInv, HeardInv
    <3>2. CASE d = c
      <4>1. /\ NoRepeat(got[c]) /\ e \notin RangeOf(got[c])
            /\ RangeOf(got[c]) \cap RangeOf(buf[c]) = {}
        BY <2>3 DEF OnceInv, HeardInv, Heard
      <4> QED BY <1>3, <2>5, <2>6, <2>7, <3>2, <4>1
    <3> QED BY <3>1, <3>2
  <2>10. ASSUME NEW d \in Clients, NEW f \in Events, Heard(d, f)'
         PROVE  f <= published' /\ \A k \in Listeners : ~Ahead(k, d, f)'
    <3>1. CASE d = c /\ f = e
      BY <2>4, <2>8, <3>1
    <3>2. CASE ~(d = c /\ f = e)
      <4>1. Heard(d, f)
        <5>1. f \in RangeOf(got[d]) \/ f \in RangeOf(buf'[d])
          BY <1>3, <2>10 DEF Heard
        <5>2. f \in RangeOf(buf'[d]) => f \in RangeOf(buf[d])
          BY <2>6, <2>7, <3>2
        <5> QED BY <5>1, <5>2 DEF Heard
      <4> QED BY <1>3, <1>6, <4>1 DEF OnceInv, HeardInv
    <3> QED BY <3>1, <3>2
  <2>11. HeardInv'
    BY <2>9, <2>10 DEF HeardInv
  <2> QED BY <1>5, <2>11 DEF OnceInv
<1>8. CASE ~Send(l, c)
  <2>1. buf' = buf
    BY <1>1, <1>8 DEF Offer, Drop, SendOnClosed
  <2>2. HeardInv'
    BY <1>3, <1>6, <2>1 DEF OnceInv, HeardInv, Heard
  <2> QED BY <1>5, <2>2 DEF OnceInv
<1> QED BY <1>7, <1>8

LEMMA OnceFinish ==
    ASSUME HubInv, OnceInv, NEW l \in Listeners, Finish(l)
    PROVE  OnceInv'
<1> USE DEF HubInv, TypeOK
<1>1. UNCHANGED <<queue, at, got, buf, published>> /\ 0 \notin Events
  BY DEF Finish, client, Events
<1>2. /\ job'[l] = 0 /\ todo'[l] = {}
      /\ \A k \in Listeners \ {l} : job'[k] = job[k] /\ todo'[k] = todo[k]
  BY DEF Finish
<1>3. \A k \in Listeners, e \in Events : Holds(k, e)' => Holds(k, e)
  BY <1>1, <1>2 DEF Holds
<1>4. \A k \in Listeners, c \in Clients, e \in Events : Ahead(k, c, e)' => Ahead(k, c, e)
  BY <1>1, <1>2 DEF Ahead
<1>5. \A k \in Listeners : job'[k] \notin RangeOf(queue'[k])
  <2>1. 0 \notin RangeOf(queue[l])
    BY <1>1 DEF RangeOf
  <2> QED BY <1>1, <1>2, <2>1 DEF OnceInv, HeldInv
<1>6. HeldInv'
  BY <1>1, <1>2, <1>3, <1>5 DEF OnceInv, HeldInv
<1>7. HeardInv'
  BY <1>1, <1>4 DEF OnceInv, HeardInv, Heard
<1> QED BY <1>6, <1>7 DEF OnceInv

\* Only the room's subscription is live: Redis gives the event to one listener.
LEMMA OncePublish ==
    ASSUME HubInv, OnceInv, Publish
    PROVE  OnceInv'
<1> USE DEF HubInv, TypeOK
<1>1. PICK e \in Events : e = published + 1
  BY HubAssumption DEF Publish, Events
<1>2. published' = e /\ published < e /\ UNCHANGED <<job, todo, at, got, buf>>
  BY <1>1 DEF Publish, client
<1>3. \A k \in Listeners : k \in Live => k = subscriber
  BY DEF RoomInv, Live
<1>4. ASSUME NEW k \in Listeners
      PROVE  \/ queue'[k] = queue[k]
             \/ /\ k = subscriber
                /\ queue'[k] = Append(queue[k], e)
                /\ RangeOf(queue'[k]) = RangeOf(queue[k]) \cup {e}
                /\ NoRepeat(queue'[k])
  <2>1. CASE k \notin Live
    BY <2>1 DEF Publish
  <2>2. CASE k \in Live
    <3>1. queue'[k] = Append(queue[k], e) /\ queue[k] \in Seq(Events)
      BY <1>1, <2>2 DEF Publish
    <3>2. ~Holds(k, e)
      BY <1>2 DEF OnceInv, HeldInv, Events
    <3>3. NoRepeat(Append(queue[k], e))
      BY <3>1, <3>2, NoRepeatAppend DEF OnceInv, HeldInv, Holds
    <3> QED BY <1>3, <2>2, <3>1, <3>3, AppendRange
  <2> QED BY <2>1, <2>2
<1>5. ASSUME NEW k \in Listeners, NEW f \in Events, Holds(k, f)'
      PROVE  \/ Holds(k, f)
             \/ f = e /\ k = subscriber
  <2>1. f \in RangeOf(queue'[k]) \/ job[k] = f
    BY <1>2, <1>5 DEF Holds
  <2> QED BY <1>4, <2>1 DEF Holds
<1>6. \A k \in Listeners : ~Holds(k, e)
  BY <1>2 DEF OnceInv, HeldInv, Events
<1>7. HeldInv'
  <2>1. ASSUME NEW k \in Listeners
        PROVE  NoRepeat(queue'[k]) /\ job'[k] \notin RangeOf(queue'[k])
    BY <1>2, <1>4, <1>6 DEF OnceInv, HeldInv, Holds
  <2>2. ASSUME NEW k \in Listeners, NEW f \in Events, Holds(k, f)' PROVE f <= published'
    BY <1>2, <1>5, <2>2 DEF OnceInv, HeldInv, Events
  <2>3. ASSUME NEW k \in Listeners, NEW m \in Listeners, NEW f \in Events,
               Holds(k, f)', Holds(m, f)'
        PROVE  k = m
    <3>1. Holds(k, f) /\ Holds(m, f) => k = m
      BY DEF OnceInv, HeldInv
    <3>2. Holds(k, f) \/ (f = e /\ k = subscriber)
      BY <1>5, <2>3
    <3>3. Holds(m, f) \/ (f = e /\ m = subscriber)
      BY <1>5, <2>3
    <3>4. f = e => ~Holds(k, f) /\ ~Holds(m, f)
      BY <1>6
    <3> QED BY <3>1, <3>2, <3>3, <3>4
  <2>4. \A k \in Listeners : at'[k] \notin todo'[k]
    BY <1>2 DEF OnceInv, HeldInv
  <2> QED BY <2>1, <2>2, <2>3, <2>4 DEF HeldInv
<1>8. HeardInv'
  <2>1. ASSUME NEW c \in Clients, NEW f \in Events, Heard(c, f)'
        PROVE  f <= published' /\ \A k \in Listeners : ~Ahead(k, c, f)'
    <3>1. Heard(c, f) /\ f <= published
      BY <1>2, <2>1 DEF OnceInv, HeardInv, Heard
    <3>2. f # e /\ f <= published'
      BY <1>2, <3>1 DEF Events
    <3>3. ASSUME NEW k \in Listeners PROVE ~Ahead(k, c, f)'
      <4>1. ~Ahead(k, c, f)
        BY <3>1 DEF OnceInv, HeardInv
      <4>2. f \notin RangeOf(queue'[k])
        <5>1. f \notin RangeOf(queue[k])
          BY <4>1 DEF Ahead
        <5>2. RangeOf(queue'[k]) \subseteq RangeOf(queue[k]) \cup {e}
          BY <1>4
        <5> QED BY <3>2, <5>1, <5>2
      <4> QED BY <1>2, <4>1, <4>2 DEF Ahead
    <3> QED BY <3>2, <3>3
  <2> QED BY <1>2, <2>1 DEF OnceInv, HeardInv
<1> QED BY <1>7, <1>8 DEF OnceInv

\* writePump moves the head of the channel to the browser, or loses it.
LEMMA OnceWrite ==
    ASSUME HubInv, OnceInv, NEW c \in Clients, Write(c)
    PROVE  OnceInv'
<1> USE DEF HubInv, TypeOK
<1>1. UNCHANGED <<queue, job, todo, at, published>>
  BY DEF Write, listener
<1>2. /\ buf[c] \in Seq(Events) /\ buf[c] # <<>> /\ got[c] \in Seq(Events)
      /\ NoRepeat(buf[c]) /\ NoRepeat(got[c]) /\ Head(buf[c]) \in Events
  BY DEF Write, OnceInv, HeardInv
<1>3. PICK e \in Events : e = Head(buf[c])
  BY <1>2
<1>4. /\ buf'[c] = Tail(buf[c])
      /\ got'[c] = got[c] \/ got'[c] = Append(got[c], e)
      /\ \A d \in Clients \ {c} : buf'[d] = buf[d] /\ got'[d] = got[d]
  BY <1>3 DEF Write
<1>5. /\ NoRepeat(buf'[c]) /\ e \notin RangeOf(buf'[c])
      /\ RangeOf(buf[c]) = {e} \cup RangeOf(buf'[c])
  BY <1>2, <1>3, <1>4, NoRepeatTail, TailRange
<1>6. e \notin RangeOf(got[c])
  BY <1>5 DEF OnceInv, HeardInv
<1>7. /\ NoRepeat(Append(got[c], e))
      /\ RangeOf(Append(got[c], e)) = RangeOf(got[c]) \cup {e}
  BY <1>2, <1>6, NoRepeatAppend, AppendRange
<1>8. NoRepeat(got'[c]) /\ RangeOf(got'[c]) \subseteq RangeOf(got[c]) \cup {e}
  BY <1>2, <1>4, <1>7
<1>9. \A d \in Clients, f \in Events : Heard(d, f)' => Heard(d, f)
  BY <1>4, <1>5, <1>8 DEF Heard
<1>10. ASSUME NEW d \in Clients
       PROVE  /\ NoRepeat(got'[d]) /\ NoRepeat(buf'[d])
              /\ RangeOf(got'[d]) \cap RangeOf(buf'[d]) = {}
  <2>1. CASE d # c
    BY <1>4, <2>1 DEF OnceInv, HeardInv
  <2>2. CASE d = c
    <3>1. RangeOf(got[c]) \cap RangeOf(buf[c]) = {}
      BY DEF OnceInv, HeardInv
    <3> QED BY <1>5, <1>8, <2>2, <3>1
  <2> QED BY <2>1, <2>2
<1>11. \A k \in Listeners, d \in Clients, f \in Events : Ahead(k, d, f)' <=> Ahead(k, d, f)
  BY <1>1 DEF Ahead
<1>12. HeardInv'
  BY <1>1, <1>9, <1>10, <1>11 DEF OnceInv, HeardInv
<1>13. HeldInv'
  BY <1>1 DEF OnceInv, HeldInv, Holds
<1> QED BY <1>12, <1>13 DEF OnceInv

LEMMA OnceStep ==
    ASSUME HubInv, OnceInv, [Next]_vars
    PROVE  OnceInv'
<1> USE DEF listener, client
<1>1. ASSUME NEW c \in Clients, Upgrade(c) \/ Run(c) \/ Break(c) \/ ReadFails(c) PROVE OnceInv'
  BY <1>1, OnceMoved DEF Upgrade, Run, Register, Unregister, Break, ReadFails
<1>2. ASSUME NEW c \in Clients, WritePump(c) PROVE OnceInv'
  <2>1. CASE Write(c)
    BY <2>1, OnceWrite
  <2>2. CASE WriteClose(c) \/ PingFails(c)
    BY <2>2, OnceMoved DEF WriteClose, PingFails
  <2> QED BY <1>2, <2>1, <2>2 DEF WritePump
<1>3. ASSUME NEW l \in Listeners, Subscribed(l) \/ Disconnect(l) PROVE OnceInv'
  BY <1>3, OnceMoved DEF Subscribed, Disconnect
<1>4. ASSUME NEW l \in Listeners, Listen(l) PROVE OnceInv'
  BY <1>4, OnceReceive, OnceVisit, OnceOffer, OnceFinish DEF Listen
<1>5. CASE Publish
  BY <1>5, OncePublish
<1>6. CASE UNCHANGED vars
  BY <1>6, OnceMoved DEF vars
<1> QED BY <1>1, <1>2, <1>3, <1>4, <1>5, <1>6 DEF Next, Work, Rest

\* No browser receives an event twice, however many lives the room has had and
\* however many listeners of earlier lives still broadcast.
THEOREM AtMostOnceHolds == Spec => []AtMostOnce
<1>1. Init => OnceInv
  <2> SUFFICES ASSUME Init PROVE OnceInv
    OBVIOUS
  <2>1. \A e \in Events : e # 0
    BY DEF Events
  <2>2. HeldInv
    BY <2>1, HubAssumption DEF Init, HeldInv, Holds, RangeOf, NoRepeat, Listeners
  <2>3. HeardInv
    BY <2>1 DEF Init, HeardInv, Heard, RangeOf, NoRepeat
  <2> QED BY <2>2, <2>3 DEF OnceInv
<1>2. HubInv /\ OnceInv /\ [Next]_vars => OnceInv'
  BY OnceStep
<1>3. HubInv /\ OnceInv => AtMostOnce
  <2> SUFFICES ASSUME HubInv, OnceInv, NEW c \in Clients
               PROVE  NoRepeat(got[c] \o buf[c])
    BY DEF AtMostOnce, NoRepeat
  <2> QED BY NoRepeatStream DEF HubInv, TypeOK, OnceInv, HeardInv
<1> QED BY <1>1, <1>2, <1>3, HubInvariant, PTL DEF Spec

==============================================================================
