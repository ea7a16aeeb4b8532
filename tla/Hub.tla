--------------------------------- MODULE Hub ---------------------------------
(***************************************************************************)
(* websocket/hub.go: one room of the hub.  The goroutine Run registers and *)
(* unregisters clients; a listener goroutine per Redis subscription        *)
(* broadcasts its events into the room; each client has a writePump and a  *)
(* readPump.  The maps of the hub are keyed by poll, so rooms share only   *)
(* the mutex and Run, and one room stands for them all.                    *)
(*                                                                         *)
(* Run changes the room under mu.Lock, so its steps are atomic and wait    *)
(* for every broadcast to end.  Broadcasts hold mu.RLock only: two of them *)
(* interleave.                                                             *)
(***************************************************************************)
EXTENDS Integers, FiniteSets, Sequences

CONSTANTS
    Clients,         \* connections; a browser that comes back is a new one
    NoClient,
    SendCap,         \* capacity of client.send: 256 in the code
    MaxEvents,       \* bound: events published on poll_updates:ID
    MayDisconnect    \* whether a Redis subscription may lose its connection

\* A listener is named by the client whose registration started it.
Listeners == Clients
Events    == 1 .. MaxEvents

ASSUME HubAssumption ==
    /\ IsFiniteSet(Clients)
    /\ NoClient \notin Clients
    /\ SendCap \in Nat \ {0}
    /\ MaxEvents \in Nat
    /\ MayDisconnect \in BOOLEAN

VARIABLES
    exists,      \* whether h.rooms has the room
    members,     \* its clients
    subscriber,  \* h.subscribers: the listener of the room, or NoClient
    sub,         \* state of each Redis subscription
    queue,       \* events each subscription has received, not yet ranged over
    job,         \* the event each listener broadcasts under RLock, 0 if none
    todo,        \* clients its range over the room has still to visit
    at,          \* the client its loop body is at
    buf,         \* contents of each client.send
    shut,        \* clients whose send channel is closed
    conn,        \* the connection of each client
    reader,      \* where ServeWs and then readPump of each client is
    writing,     \* clients whose writePump runs
    got,         \* events each browser has received, in order
    published,   \* events published so far
    panicked,    \* whether the process died of a panic
    due          \* history: events published while each client was listened for

room     == <<exists, members, subscriber>>
listener == <<sub, queue, job, todo, at>>
client   == <<buf, shut, conn, reader, writing, got>>
vars     == <<exists, members, subscriber, sub, queue, job, todo, at,
              buf, shut, conn, reader, writing, got, published, panicked, due>>

Init ==
    /\ exists = FALSE
    /\ members = {}
    /\ subscriber = NoClient
    /\ sub = [l \in Listeners |-> "none"]
    /\ queue = [l \in Listeners |-> <<>>]
    /\ job = [l \in Listeners |-> 0]
    /\ todo = [l \in Listeners |-> {}]
    /\ at = [l \in Listeners |-> NoClient]
    /\ buf = [c \in Clients |-> <<>>]
    /\ shut = {}
    /\ conn = [c \in Clients |-> "none"]
    /\ reader = [c \in Clients |-> "none"]
    /\ writing = {}
    /\ got = [c \in Clients |-> <<>>]
    /\ published = 0
    /\ panicked = FALSE
    /\ due = [c \in Clients |-> {}]

Broadcasting(l) == job[l] # 0

\* mu.Lock is granted when no broadcast holds mu.RLock.
LockFree == \A l \in Listeners : ~Broadcasting(l)

-----------------------------------------------------------------------------
(* Run.                                                                    *)

StartListener(c) ==
    /\ subscriber' = c
    /\ sub' = [sub EXCEPT ![c] = "dialing"]

StopListener_CancelOnly ==
    /\ subscriber' = NoClient
    /\ UNCHANGED sub

\* The subscription of the room, if there is one, is closed.
StopListener ==
    /\ sub' = [l \in Listeners |-> IF l = subscriber THEN "closed" ELSE sub[l]]
    /\ subscriber' = NoClient

\* The pumps start when Run has taken the client from h.register.
Register(c) ==
    /\ reader[c] = "registering"
    /\ LockFree
    /\ IF exists THEN UNCHANGED <<subscriber, sub>> ELSE StartListener(c)
    /\ exists' = TRUE
    /\ members' = members \cup {c}
    /\ reader' = [reader EXCEPT ![c] = "reading"]
    /\ writing' = writing \cup {c}
    /\ UNCHANGED <<queue, job, todo, at, buf, shut, conn, got, published, panicked, due>>

\* Without the look-up of the client in the room.
Unregister_Unchecked(c) ==
    /\ reader[c] = "leaving"
    /\ LockFree
    /\ reader' = [reader EXCEPT ![c] = "gone"]
    /\ members' = members \ {c}
    /\ shut' = shut \cup {c}
    /\ panicked' = (c \in shut)
    /\ exists' = (members' # {})
    /\ IF exists' THEN UNCHANGED <<subscriber, sub>> ELSE StopListener
    /\ UNCHANGED <<queue, job, todo, at, buf, conn, writing, got,
                   published, due>>

\* A broadcast may have removed the client before.
Unregister(c) ==
    /\ reader[c] = "leaving"
    /\ LockFree
    /\ reader' = [reader EXCEPT ![c] = "gone"]
    /\ \/ /\ c \in members
          /\ members' = members \ {c}
          /\ shut' = shut \cup {c}
          /\ exists' = (members' # {})
          /\ IF exists' THEN UNCHANGED <<subscriber, sub>> ELSE StopListener
       \/ /\ c \notin members
          /\ UNCHANGED <<exists, members, shut, subscriber, sub>>
    /\ UNCHANGED <<queue, job, todo, at, buf, conn, writing, got,
                   published, panicked, due>>

-----------------------------------------------------------------------------
(* Redis, seen through go-redis: a subscription has the events published   *)
(* while it is in force, and its channel still yields the ones it has      *)
(* received when it is closed.                                             *)

Subscribed(l) ==
    /\ sub[l] = "dialing"
    /\ sub' = [sub EXCEPT ![l] = "live"]
    /\ UNCHANGED <<room, queue, job, todo, at, client, published, panicked, due>>

Disconnect(l) ==
    /\ MayDisconnect
    /\ sub[l] = "live"
    /\ sub' = [sub EXCEPT ![l] = "dialing"]
    /\ UNCHANGED <<room, queue, job, todo, at, client, published, panicked, due>>

Live == {l \in Listeners : sub[l] = "live"}

Publish ==
    /\ published < MaxEvents
    /\ published' = published + 1
    /\ queue' = [l \in Listeners |->
                   IF l \in Live THEN Append(queue[l], published + 1) ELSE queue[l]]
    /\ due' = [c \in Clients |->
                 IF c \in members /\ subscriber \in Live
                 THEN due[c] \cup {published + 1} ELSE due[c]]
    /\ UNCHANGED <<room, sub, job, todo, at, client, panicked>>

-----------------------------------------------------------------------------
(* The listener goroutine and broadcastToRoom.                             *)

Receive(l) ==
    /\ ~Broadcasting(l)
    /\ queue[l] # <<>>
    /\ queue' = [queue EXCEPT ![l] = Tail(@)]
    /\ IF exists
       THEN /\ job' = [job EXCEPT ![l] = Head(queue[l])]
            /\ todo' = [todo EXCEPT ![l] = members]
       ELSE UNCHANGED <<job, todo>>
    /\ UNCHANGED <<room, sub, at, client, published, panicked, due>>

\* The range yields a client that is in the map still.
Visit(l) ==
    /\ Broadcasting(l)
    /\ at[l] = NoClient
    /\ \E c \in todo[l] \cap members :
         /\ at' = [at EXCEPT ![l] = c]
         /\ todo' = [todo EXCEPT ![l] = @ \ {c}]
    /\ UNCHANGED <<room, sub, queue, job, client, published, panicked, due>>

\* A channel made one larger than it should be.
HasRoom_OneMore(c) == Len(buf[c]) <= SendCap

HasRoom(c) == Len(buf[c]) < SendCap

Send(l, c) ==
    /\ c \notin shut
    /\ HasRoom(c)
    /\ buf' = [buf EXCEPT ![c] = Append(@, job[l])]
    /\ UNCHANGED <<members, shut, panicked>>

\* A default branch that does nothing.
Drop_Skips(l, c) ==
    /\ c \notin shut
    /\ ~HasRoom(c)
    /\ UNCHANGED <<members, shut, panicked, buf>>

\* A default branch that closes the channel only.
Drop_KeepsMember(l, c) ==
    /\ c \notin shut
    /\ ~HasRoom(c)
    /\ shut' = shut \cup {c}
    /\ UNCHANGED <<members, panicked, buf>>

\* The default branch: close the channel and delete the client, under RLock.
\* The runtime may notice that another goroutine uses the map, and die.
Drop(l, c) ==
    /\ c \notin shut
    /\ ~HasRoom(c)
    /\ shut' = shut \cup {c}
    /\ members' = members \ {c}
    /\ panicked' \in {FALSE, \E k \in Listeners \ {l} : Broadcasting(k)}
    /\ UNCHANGED buf

\* Another listener closed the channel since this one's range yielded it: both
\* a send on it and a close of it panic.
SendOnClosed(c) ==
    /\ c \in shut
    /\ panicked' = TRUE
    /\ UNCHANGED <<members, shut, buf>>

Offer(l) ==
    /\ at[l] # NoClient
    /\ \/ Send(l, at[l])
       \/ Drop(l, at[l])
       \/ SendOnClosed(at[l])
    /\ at' = [at EXCEPT ![l] = NoClient]
    /\ UNCHANGED <<exists, subscriber, sub, queue, job, todo,
                   conn, reader, writing, got, published, due>>

\* The range is over: mu.RUnlock.
Finish(l) ==
    /\ Broadcasting(l)
    /\ at[l] = NoClient
    /\ todo[l] \cap members = {}
    /\ job' = [job EXCEPT ![l] = 0]
    /\ todo' = [todo EXCEPT ![l] = {}]
    /\ UNCHANGED <<room, sub, queue, at, client, published, panicked, due>>

Listen(l) == Receive(l) \/ Visit(l) \/ Offer(l) \/ Finish(l)

-----------------------------------------------------------------------------
(* ServeWs, the pumps and the network.                                     *)

Upgrade(c) ==
    /\ reader[c] = "none"
    /\ conn' = [conn EXCEPT ![c] = "up"]
    /\ reader' = [reader EXCEPT ![c] = "registering"]
    /\ UNCHANGED <<room, listener, buf, shut, writing, got, published, panicked, due>>

\* The browser closes the page, or the network breaks.
Break(c) ==
    /\ conn[c] = "up"
    /\ conn' = [conn EXCEPT ![c] = "down"]
    /\ UNCHANGED <<room, listener, buf, shut, reader, writing, got, published,
                   panicked, due>>

\* writePump takes a message: it reaches the browser, or the write fails,
\* within its 10 seconds, and the pump closes the connection.
Write(c) ==
    /\ c \in writing
    /\ buf[c] # <<>>
    /\ buf' = [buf EXCEPT ![c] = Tail(@)]
    /\ \/ /\ conn[c] = "up"
          /\ got' = [got EXCEPT ![c] = Append(@, Head(buf[c]))]
          /\ UNCHANGED <<conn, writing>>
       \/ /\ conn' = [conn EXCEPT ![c] = "down"]
          /\ writing' = writing \ {c}
          /\ UNCHANGED got
    /\ UNCHANGED <<room, listener, shut, reader, published, panicked, due>>

\* A pump that goes on waiting.
WriteClose_Waits(c) ==
    /\ c \in writing
    /\ buf[c] = <<>>
    /\ c \in shut
    /\ writing' = writing \ {c}
    /\ UNCHANGED <<room, listener, buf, shut, conn, reader, got, published, panicked, due>>

\* The channel is closed and empty: a close frame, and the connection is closed.
WriteClose(c) ==
    /\ c \in writing
    /\ buf[c] = <<>>
    /\ c \in shut
    /\ conn' = [conn EXCEPT ![c] = "down"]
    /\ writing' = writing \ {c}
    /\ UNCHANGED <<room, listener, buf, shut, reader, got, published, panicked, due>>

\* The ping of every 30 seconds fails on a connection that is lost.
PingFails(c) ==
    /\ c \in writing
    /\ conn[c] = "down"
    /\ writing' = writing \ {c}
    /\ UNCHANGED <<room, listener, buf, shut, conn, reader, got, published, panicked, due>>

\* A readPump that returns without h.unregister <- c.
ReadFails_Quietly(c) ==
    /\ reader[c] = "reading"
    /\ conn[c] = "down"
    /\ reader' = [reader EXCEPT ![c] = "gone"]
    /\ UNCHANGED <<room, listener, buf, shut, conn, writing, got, published, panicked, due>>

\* ReadMessage fails; readPump waits for Run to take it from h.unregister.
ReadFails(c) ==
    /\ reader[c] = "reading"
    /\ conn[c] = "down"
    /\ reader' = [reader EXCEPT ![c] = "leaving"]
    /\ UNCHANGED <<room, listener, buf, shut, conn, writing, got, published, panicked, due>>

WritePump(c) == Write(c) \/ WriteClose(c) \/ PingFails(c)

-----------------------------------------------------------------------------

\* Nothing is left to do but what a browser or a voter may begin, or the
\* process is dead.
Rest ==
    /\ \/ panicked
       \/ /\ \A l \in Listeners : ~Broadcasting(l) /\ queue[l] = <<>>
          /\ \A c \in Clients :
               /\ reader[c] \in {"none", "reading", "gone"}
               /\ c \in writing => conn[c] = "up" /\ buf[c] = <<>>
               /\ reader[c] = "reading" => conn[c] = "up"
    /\ UNCHANGED vars

Run(c) == Register(c) \/ Unregister(c)

Work ==
    \/ \E c \in Clients : Upgrade(c)
    \/ \E c \in Clients : Run(c)
    \/ \E c \in Clients : Break(c)
    \/ \E c \in Clients : WritePump(c)
    \/ \E c \in Clients : ReadFails(c)
    \/ \E l \in Listeners : Subscribed(l)
    \/ \E l \in Listeners : Disconnect(l)
    \/ \E l \in Listeners : Listen(l)
    \/ Publish

Next == (~panicked /\ Work) \/ Rest

Spec == Init /\ [][Next]_vars

\* Goroutines are scheduled; reads and writes have deadlines; the mutex lets a
\* waiting Lock in before later RLocks, and a broadcast never blocks.
FairSpec ==
    /\ Spec
    /\ \A c \in Clients :
         /\ WF_vars(~panicked /\ Run(c))
         /\ WF_vars(~panicked /\ WritePump(c))
         /\ WF_vars(~panicked /\ ReadFails(c))
    /\ \A l \in Listeners : WF_vars(~panicked /\ Listen(l))

-----------------------------------------------------------------------------

RangeOf(s) == {s[i] : i \in 1 .. Len(s)}

TypeOK ==
    /\ exists \in BOOLEAN
    /\ members \subseteq Clients
    /\ subscriber \in Listeners \cup {NoClient}
    /\ sub \in [Listeners -> {"none", "dialing", "live", "closed"}]
    /\ queue \in [Listeners -> Seq(Events)]
    /\ job \in [Listeners -> 0 .. MaxEvents]
    /\ todo \in [Listeners -> SUBSET Clients]
    /\ at \in [Listeners -> Clients \cup {NoClient}]
    /\ buf \in [Clients -> Seq(Events)]
    /\ \A c \in Clients : Len(buf[c]) <= SendCap
    /\ shut \subseteq Clients
    /\ conn \in [Clients -> {"none", "up", "down"}]
    /\ reader \in [Clients -> {"none", "registering", "reading", "leaving", "gone"}]
    /\ writing \subseteq Clients
    /\ got \in [Clients -> Seq(Events)]
    /\ published \in 0 .. MaxEvents
    /\ panicked \in BOOLEAN
    /\ due \in [Clients -> SUBSET Events]

\* A client in the room is listened for: the room's subscription is the only
\* one that is not closed, and the client's channel is open, so that every
\* later broadcast reaches it (hub.go:56-79).
MembersAreServed ==
    /\ members # {} => exists
    /\ exists => subscriber # NoClient
    /\ \A l \in Listeners : sub[l] \in {"dialing", "live"} <=> l = subscriber
    /\ ~panicked => members \cap shut = {}

\* A client that stays connected and in the room misses no event published
\* while its room was subscribed: it has it, or the event is on its way.
NothingSkipped ==
    \A c \in members : conn[c] = "up" =>
        \A e \in due[c] :
            \/ e \in RangeOf(got[c]) \cup RangeOf(buf[c])
            \/ e \in RangeOf(queue[subscriber])
            \/ /\ job[subscriber] = e
               /\ c \in todo[subscriber] \cup {at[subscriber]}

\* No browser receives an event twice, although the listener of an earlier
\* life of the room may still be broadcasting.
AtMostOnce ==
    \A c \in Clients :
        LET stream == got[c] \o buf[c] IN
            \A i, j \in 1 .. Len(stream) : stream[i] = stream[j] => i = j

\* Run and a listener agree on who closes a channel and when it is no longer
\* sent to: a room that was opened once never brings the process down, however
\* slow its clients (hub.go:67-79, 113-126).
PanicTakesTwo ==
    panicked => \E l, k \in Listeners : l # k /\ sub[l] # "none" /\ sub[k] # "none"

\* A client that is too slow is not left with a silent connection: it is
\* closed, so that the browser notices and connects anew (hub.go:121-123, 140-143).
DroppedIsTold ==
    \A c \in Clients : c \in shut ~> conn[c] = "down" \/ panicked

\* A client whose connection is lost leaves the room (hub.go:161-165, 67-79).
GoneLeaves ==
    \A c \in Clients :
        conn[c] = "down" ~> (c \notin members /\ reader[c] = "gone") \/ panicked

\* Every event published for a client reaches it unless its connection breaks.
DueIsDelivered ==
    \A c \in Clients, e \in Events :
        e \in due[c] ~> e \in RangeOf(got[c]) \/ conn[c] = "down" \/ panicked

-----------------------------------------------------------------------------
(* What the README says, and the code does not do.                         *)

\* "When the last client disconnects, the subscription context is cancelled
\* and the Redis subscriber cleanly closes" (README.md:375).
LastOneOutCloses ==
    (\A c \in Clients : reader[c] \in {"none", "gone"}) => subscriber = NoClient

=============================================================================
