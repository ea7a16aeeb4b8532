------------------------------- MODULE LivePage -------------------------------
(***************************************************************************)
(* One browser on the pages of one poll: hooks/useLivePoll.js, the         *)
(* reconnecting socket of services/websocket.js, and the vote form of      *)
(* pages/VotePage.jsx, and the refresh button and chart of                 *)
(* pages/ResultsPage.jsx.  The server is abstract: a tally, and the        *)
(* handlers of the votes counted in it, each of which reads the tally and  *)
(* publishes what it read in steps of its own, so that an older tally may  *)
(* be the last to be broadcast; the poll may be open or not whenever it is *)
(* fetched.                                                                *)
(*                                                                         *)
(* A page is mounted and left; each visit has a hook state and a socket of *)
(* its own, and what was begun in a visit may be answered after it.        *)
(***************************************************************************)
EXTENDS Integers, Sequences, LiveChart

CONSTANTS
    OwnOptions,   \* bound: what the browser votes for
    OtherOptions, \* bound: what others vote for
    MaxVotes,     \* bound: votes the poll gets
    MaxVisits,    \* bound: pages of the poll the browser opens
    MaxLosses     \* bound: how often a connection is lost or not begun

Visits == 1 .. MaxVisits
Counts == 0 .. MaxVotes
Handlers == 1 .. MaxVotes

ASSUME PageAssumption ==
    /\ OwnOptions \subseteq Options
    /\ OtherOptions \subseteq Options
    /\ MaxVotes \in Nat
    /\ MaxVisits \in Nat \ {0}
    /\ MaxLosses \in Nat

VARIABLES
    tally,       \* what the server counts
    ownVote,     \* whether it has one of this browser
    recorded,    \* whether it took this browser down as a voter
    handler,     \* the CastVote at work on each vote counted: what it has done, the tally
                 \* it has read and the visit that it answers, 0 for somebody else's
    channel,     \* tallies published and not yet broadcast
    latest,      \* history: the total that the hub broadcast last; 0 if none
    losses,      \* connections lost, or not begun, so far
    visit,       \* the visit under way, or the last one
    mounted,     \* whether its page is on the screen
    kind,        \* which page: "vote" or "results"
    loaded,      \* hook state: poll is set
    loading,     \* hook state, with error, results and hasVoted
    error,
    shown,
    hasVoted,
    closed,      \* hook state: poll.status is not active, or isExpired
    status,      \* hook state wsStatus
    localVoted,  \* state of VotePage
    own,         \* history: the total that answered this page's vote; 0 if none did,
                 \* or if the connection was lost since
    remembered,  \* localStorage: voted_poll_ID
    fetch,       \* the request of fetchPollData: state, and its response
    cast,        \* the request of castVote in each visit; "taken" while its handler works
    sock,        \* the WebSocket of each visit
    joined,      \* whether what the hub broadcasts reaches it
    inbox,       \* events on their way to it
    timer        \* visits with a reconnectTimeout pending

votes  == <<tally, ownVote, recorded>>
stream == <<channel, latest>>
server == <<votes, handler, stream>>
hook   == <<loaded, loading, error, shown, hasVoted, closed, status>>
link   == <<sock, joined, inbox, timer>>
vars   == <<tally, ownVote, recorded, handler, channel, latest, losses, visit, mounted,
            kind, loaded, loading, error, shown, hasVoted, closed, status, localVoted, own,
            remembered, fetch, cast, sock, joined, inbox, timer>>

Reply(state, t, b, c) == [state |-> state, tally |-> t, voted |-> b, closed |-> c]
Bare(state) == Reply(state, NoVotes, FALSE, FALSE)
NoReply == Bare("none")
Asked == Bare("asked")

Work(state, t, from) == [state |-> state, tally |-> t, from |-> from]
Idle == Work("none", NoVotes, 0)

Init ==
    /\ tally = NoVotes
    /\ ownVote = FALSE
    /\ recorded = FALSE
    /\ handler = [n \in Handlers |-> Idle]
    /\ channel = <<>>
    /\ latest = 0
    /\ losses = 0
    /\ visit = 0
    /\ mounted = FALSE
    /\ kind = "vote"
    /\ loaded = FALSE
    /\ loading = TRUE
    /\ error = FALSE
    /\ shown = NoVotes
    /\ hasVoted = FALSE
    /\ closed = FALSE
    /\ status = "disconnected"
    /\ localVoted = FALSE
    /\ own = 0
    /\ remembered = FALSE
    /\ fetch = NoReply
    /\ cast = [v \in Visits |-> NoReply]
    /\ sock = [v \in Visits |-> "none"]
    /\ joined = [v \in Visits |-> FALSE]
    /\ inbox = [v \in Visits |-> <<>>]
    /\ timer = {}

\* The page of v is on the screen.
Current(v) == mounted /\ v = visit

\* The page shows its content, not a spinner or "Poll Not Found".
Ready == mounted /\ loaded /\ ~loading /\ ~error

\* VotePage shows the form.
Offered == Ready /\ kind = "vote" /\ ~closed /\ ~localVoted /\ ~hasVoted

\* The page shows the chart: VotePage in place of the form, ResultsPage always.
Charted == Ready /\ ~Offered

\* ResultsPage shows the state of the stream, the refresh button and the chart.
OnAudienceScreen == Ready /\ kind = "results"

-----------------------------------------------------------------------------
(* The server.                                                             *)

\* CastVote has stored a vote and counts it with HINCRBY.
CountVote(o, from) ==
    /\ tally.total < MaxVotes
    /\ tally' = Counted(tally, o)
    /\ handler' = [handler EXCEPT ![tally.total + 1] = Work("counted", NoVotes, from)]

OthersVote ==
    /\ \E o \in OtherOptions : CountVote(o, 0)
    /\ UNCHANGED <<ownVote, recorded, stream, losses, visit, mounted, kind, hook, localVoted,
                   own, remembered, fetch, cast, link>>

\* HGETALL: other votes may have been counted since, and others may read later and
\* publish earlier.
ReadTally(n) ==
    /\ handler[n].state = "counted"
    /\ handler' = [handler EXCEPT ![n] = Work("read", tally, @.from)]
    /\ UNCHANGED <<votes, stream, losses, visit, mounted, kind, hook, localVoted, own,
                   remembered, fetch, cast, link>>

\* The handler is done: the browser is answered if it still waits.
Answer(n, reply) ==
    /\ handler' = [handler EXCEPT ![n] = Idle]
    /\ cast' = [v \in Visits |-> IF v = handler[n].from /\ cast[v].state = "taken"
                                 THEN reply ELSE cast[v]]

\* PUBLISH may fail, which nobody is told of.
Publish(n) ==
    /\ handler[n].state = "read"
    /\ channel' \in {channel, Append(channel, handler[n].tally)}
    /\ Answer(n, Reply("answered", handler[n].tally, TRUE, FALSE))
    /\ UNCHANGED <<votes, latest, losses, visit, mounted, kind, hook, localVoted, own,
                   remembered, fetch, link>>

\* HGETALL fails and the handler panics, or the process dies.
HandlerFails(n) ==
    /\ handler[n].state # "none"
    /\ Answer(n, Bare("failed"))
    /\ UNCHANGED <<votes, stream, losses, visit, mounted, kind, hook, localVoted, own,
                   remembered, fetch, link>>

\* The listener of the poll's room sends the event to every client in it.
Broadcast ==
    /\ channel # <<>>
    /\ channel' = Tail(channel)
    /\ latest' = Head(channel).total
    /\ inbox' = [v \in Visits |-> IF joined[v] THEN Append(inbox[v], Head(channel)) ELSE inbox[v]]
    /\ UNCHANGED <<votes, handler, losses, visit, mounted, kind, hook, localVoted, own,
                   remembered, fetch, cast, sock, joined, timer>>

\* When the lookup of the vote fails the response says that there is none.
ServeFetch ==
    /\ fetch.state = "asked"
    /\ \/ \E voted \in {ownVote, FALSE}, c \in BOOLEAN :
            fetch' = Reply("answered", tally, voted, c)
       \/ fetch' = Bare("failed")
    /\ UNCHANGED <<server, losses, visit, mounted, kind, hook, localVoted, own, remembered,
                   cast, link>>

\* The request may be lost, the poll may be closed by now, and the vote may fail
\* after the voter was taken down: the next one is then refused.
ServeCast(v) ==
    /\ cast[v].state = "asked"
    /\ \/ /\ ~recorded
          /\ ownVote' = TRUE
          /\ recorded' = TRUE
          /\ \E o \in OwnOptions : CountVote(o, v)
          /\ cast' = [cast EXCEPT ![v] = Bare("taken")]
       \/ /\ recorded
          /\ cast' = [cast EXCEPT ![v] = Bare("refused")]
          /\ UNCHANGED <<votes, handler>>
       \/ /\ cast' = [cast EXCEPT ![v] = Bare("failed")]
          /\ recorded' \in {recorded, TRUE}
          /\ UNCHANGED <<tally, ownVote, handler>>
    /\ UNCHANGED <<stream, losses, visit, mounted, kind, hook, localVoted, own, remembered,
                   fetch, link>>

\* The connection of the request is lost, and with it the response to come.
ResponseLost(v) ==
    /\ cast[v].state = "taken"
    /\ cast' = [cast EXCEPT ![v] = Bare("failed")]
    /\ UNCHANGED <<server, losses, visit, mounted, kind, hook, localVoted, own, remembered,
                   fetch, link>>

-----------------------------------------------------------------------------
(* The page: mounting, fetching, leaving.                                  *)

Mount ==
    /\ ~mounted
    /\ visit < MaxVisits
    /\ visit' = visit + 1
    /\ mounted' = TRUE
    /\ kind' \in {"vote", "results"}
    /\ fetch' = Asked
    /\ UNCHANGED <<server, losses, hook, localVoted, own, remembered, cast, link>>

\* The refresh button of ResultsPage.
Refetch ==
    /\ OnAudienceScreen
    /\ fetch' = Asked
    /\ loading' = TRUE
    /\ error' = FALSE
    /\ UNCHANGED <<server, losses, visit, mounted, kind, loaded, shown, hasVoted, closed,
                   status, localVoted, own, remembered, cast, link>>

\* What the socket's callbacks set on the hook while its page is mounted.
Tell(v, s) == status' = IF Current(v) THEN s ELSE status

\* connect, unless disconnect was called: the constructor may throw, and is then
\* tried again in three seconds.
Connect(v) ==
    IF Current(v)
    THEN /\ Tell(v, "connecting")
         /\ \/ /\ sock' = [sock EXCEPT ![v] = "connecting"]
               /\ timer' = timer \ {v}
               /\ UNCHANGED losses
            \/ /\ losses < MaxLosses
               /\ losses' = losses + 1
               /\ timer' = timer \cup {v}
               /\ UNCHANGED sock
    ELSE /\ timer' = timer \ {v}
         /\ UNCHANGED <<status, sock, losses>>

\* setPoll gives the poll its id: the effects open the socket and look the vote
\* up in localStorage.
FetchArrives ==
    /\ fetch.state = "answered"
    /\ fetch' = NoReply
    /\ loading' = FALSE
    /\ loaded' = TRUE
    /\ shown' = fetch.tally
    /\ hasVoted' = fetch.voted
    /\ closed' = fetch.closed
    /\ IF loaded
       THEN UNCHANGED <<sock, status, timer, losses, localVoted>>
       ELSE /\ Connect(visit)
            /\ localVoted' = (localVoted \/ (kind = "vote" /\ remembered))
    /\ UNCHANGED <<server, visit, mounted, kind, error, own, remembered, cast, joined, inbox>>

FetchFails ==
    /\ fetch.state = "failed"
    /\ fetch' = NoReply
    /\ loading' = FALSE
    /\ error' = TRUE
    /\ UNCHANGED <<server, losses, visit, mounted, kind, loaded, shown, hasVoted,
                   closed, status, localVoted, own, remembered, cast, link>>

\* A disconnect that forgets clearTimeout.
Disconnect_KeepsTimer(v) ==
    /\ sock' = [sock EXCEPT ![v] = "closed"]
    /\ joined' = [joined EXCEPT ![v] = FALSE]
    /\ inbox' = [inbox EXCEPT ![v] = <<>>]
    /\ UNCHANGED timer

\* disconnect: no event is dispatched by a socket that is closing.
Disconnect(v) ==
    /\ sock' = [sock EXCEPT ![v] = "closed"]
    /\ joined' = [joined EXCEPT ![v] = FALSE]
    /\ inbox' = [inbox EXCEPT ![v] = <<>>]
    /\ timer' = timer \ {v}

\* The clean-up of the socket's effect.  The state of the hook and of the page is
\* gone, and what is set on it later is lost; the next page starts anew.
Leave ==
    /\ mounted
    /\ mounted' = FALSE
    /\ loaded' = FALSE
    /\ loading' = TRUE
    /\ error' = FALSE
    /\ shown' = NoVotes
    /\ hasVoted' = FALSE
    /\ closed' = FALSE
    /\ status' = "disconnected"
    /\ localVoted' = FALSE
    /\ own' = 0
    /\ fetch' = NoReply
    /\ Disconnect(visit)
    /\ UNCHANGED <<server, losses, visit, kind, remembered, cast>>

-----------------------------------------------------------------------------
(* Voting.                                                                 *)

\* The button is disabled while a vote is being submitted.
Submit ==
    /\ Offered
    /\ cast[visit].state = "none"
    /\ cast' = [cast EXCEPT ![visit] = Asked]
    /\ UNCHANGED <<server, losses, visit, mounted, kind, hook, localVoted, own, remembered,
                   fetch, link>>

\* A browser that is marked as having voted whenever the server answers.
CastArrives_MarksRefused(v) ==
    /\ cast[v].state \in {"answered", "refused", "failed"}
    /\ cast' = [cast EXCEPT ![v] = NoReply]
    /\ remembered' = (remembered \/ cast[v].state # "failed")
    /\ UNCHANGED <<server, losses, visit, mounted, kind, hook, localVoted, own, fetch, link>>

\* A castVote that leaves the tally to the events.
CastArrives_KeepsTally(v) ==
    /\ cast[v].state \in {"answered", "refused", "failed"}
    /\ cast' = [cast EXCEPT ![v] = NoReply]
    /\ remembered' = (remembered \/ cast[v].state = "answered")
    /\ IF Current(v) /\ cast[v].state = "answered"
       THEN /\ hasVoted' = TRUE
            /\ own' = cast[v].tally.total
       ELSE UNCHANGED <<hasVoted, own>>
    /\ localVoted' = (localVoted \/ (Current(v) /\ cast[v].state # "failed"))
    /\ UNCHANGED <<server, losses, visit, mounted, kind, loaded, loading, error, shown,
                   closed, status, fetch, link>>

\* What castVote and handleVoteSubmit do with the response; localStorage is
\* written although the page was left.
CastArrives(v) ==
    /\ cast[v].state \in {"answered", "refused", "failed"}
    /\ cast' = [cast EXCEPT ![v] = NoReply]
    /\ remembered' = (remembered \/ cast[v].state = "answered")
    /\ IF Current(v) /\ cast[v].state = "answered"
       THEN /\ shown' = cast[v].tally
            /\ hasVoted' = TRUE
            /\ own' = cast[v].tally.total
       ELSE UNCHANGED <<shown, hasVoted, own>>
    /\ localVoted' = (localVoted \/ (Current(v) /\ cast[v].state # "failed"))
    /\ UNCHANGED <<server, losses, visit, mounted, kind, loaded, loading, error, closed,
                   status, fetch, link>>

-----------------------------------------------------------------------------
(* The socket.                                                             *)

Opened(v) ==
    /\ sock[v] = "connecting"
    /\ sock' = [sock EXCEPT ![v] = "open"]
    /\ Tell(v, "connected")
    /\ UNCHANGED <<server, losses, visit, mounted, kind, loaded, loading, error, shown,
                   hasVoted, closed, localVoted, own, remembered, fetch, cast,
                   joined, inbox, timer>>

\* The hub registers the client after the upgrade, before or after onopen.
Join(v) ==
    /\ sock[v] \in {"connecting", "open"}
    /\ ~joined[v]
    /\ joined' = [joined EXCEPT ![v] = TRUE]
    /\ UNCHANGED <<server, losses, visit, mounted, kind, hook, localVoted, own, remembered,
                   fetch, cast, sock, inbox, timer>>

\* A page that adds the total of an event to the one it shows.
Receive_Adds(v) ==
    /\ sock[v] = "open"
    /\ inbox[v] # <<>>
    /\ inbox' = [inbox EXCEPT ![v] = Tail(@)]
    /\ shown' = [shown EXCEPT !.total = @ + Head(inbox[v]).total]
    /\ UNCHANGED <<server, losses, visit, mounted, kind, loaded, loading, error,
                   hasVoted, closed, status, localVoted, own, remembered, fetch, cast, sock,
                   joined, timer>>

\* A page that takes an event and does not show it.
Receive_Drops(v) ==
    /\ sock[v] = "open"
    /\ inbox[v] # <<>>
    /\ inbox' = [inbox EXCEPT ![v] = Tail(@)]
    /\ UNCHANGED <<server, losses, visit, mounted, kind, hook, localVoted, own, remembered,
                   fetch, cast, sock, joined, timer>>

\* A page that takes the results of an event and forgets its total.
Receive_KeepsTotal(v) ==
    /\ sock[v] = "open"
    /\ inbox[v] # <<>>
    /\ inbox' = [inbox EXCEPT ![v] = Tail(@)]
    /\ shown' = [shown EXCEPT !.results = Head(inbox[v]).results]
    /\ UNCHANGED <<server, losses, visit, mounted, kind, loaded, loading, error,
                   hasVoted, closed, status, localVoted, own, remembered, fetch, cast,
                   sock, joined, timer>>

Receive(v) ==
    /\ sock[v] = "open"
    /\ inbox[v] # <<>>
    /\ inbox' = [inbox EXCEPT ![v] = Tail(@)]
    /\ shown' = Head(inbox[v])
    /\ UNCHANGED <<server, losses, visit, mounted, kind, loaded, loading, error,
                   hasVoted, closed, status, localVoted, own, remembered, fetch, cast, sock,
                   joined, timer>>

\* An onclose that reconnects and tells nobody.
Lost_Quietly(v) ==
    /\ losses < MaxLosses
    /\ sock[v] \in {"connecting", "open"}
    /\ losses' = losses + 1
    /\ sock' = [sock EXCEPT ![v] = "closed"]
    /\ joined' = [joined EXCEPT ![v] = FALSE]
    /\ inbox' = [inbox EXCEPT ![v] = <<>>]
    /\ timer' = timer \cup {v}
    /\ UNCHANGED <<server, visit, mounted, kind, hook, localVoted, own, remembered, fetch, cast>>

\* onclose, after an error or not: the events on their way are lost.
Lost(v) ==
    /\ losses < MaxLosses
    /\ sock[v] \in {"connecting", "open"}
    /\ losses' = losses + 1
    /\ sock' = [sock EXCEPT ![v] = "closed"]
    /\ joined' = [joined EXCEPT ![v] = FALSE]
    /\ inbox' = [inbox EXCEPT ![v] = <<>>]
    /\ Tell(v, "disconnected")
    /\ own' = IF Current(v) THEN 0 ELSE own
    /\ timer' = timer \cup {v}
    /\ UNCHANGED <<server, visit, mounted, kind, loaded, loading, error, shown,
                   hasVoted, closed, localVoted, remembered, fetch, cast>>

\* A connect that takes the page for left.
Reconnect_Refuses(v) ==
    /\ v \in timer
    /\ timer' = timer \ {v}
    /\ UNCHANGED <<server, losses, visit, mounted, kind, hook, localVoted, own, remembered,
                   fetch, cast, sock, joined, inbox>>

\* The timeout calls connect.
Reconnect(v) ==
    /\ v \in timer
    /\ Connect(v)
    /\ UNCHANGED <<server, visit, mounted, kind, loaded, loading, error, shown, hasVoted,
                   closed, localVoted, own, remembered, fetch, cast, joined, inbox>>

-----------------------------------------------------------------------------

\* Nothing is pending; only a person may begin something.
AtRest ==
    /\ \A n \in Handlers : handler[n].state = "none"
    /\ channel = <<>>
    /\ fetch.state = "none"
    /\ timer = {}
    /\ \A v \in Visits :
         /\ cast[v].state = "none"
         /\ sock[v] # "connecting"
         /\ sock[v] = "open" => joined[v] /\ inbox[v] = <<>>

Rest == AtRest /\ UNCHANGED vars

Next ==
    \/ OthersVote
    \/ \E n \in Handlers : ReadTally(n)
    \/ \E n \in Handlers : Publish(n)
    \/ \E n \in Handlers : HandlerFails(n)
    \/ Broadcast
    \/ ServeFetch
    \/ \E v \in Visits : ServeCast(v)
    \/ \E v \in Visits : ResponseLost(v)
    \/ Mount
    \/ Refetch
    \/ FetchArrives
    \/ FetchFails
    \/ Leave
    \/ Submit
    \/ \E v \in Visits : CastArrives(v)
    \/ \E v \in Visits : Opened(v)
    \/ \E v \in Visits : Join(v)
    \/ \E v \in Visits : Receive(v)
    \/ \E v \in Visits : Lost(v)
    \/ \E v \in Visits : Reconnect(v)
    \/ Rest

Spec == Init /\ [][Next]_vars

\* The browser runs callbacks and timers; the network lets a socket open.
FairSpec ==
    /\ Spec
    /\ \A v \in Visits :
         WF_vars(Opened(v)) /\ WF_vars(Receive(v)) /\ WF_vars(Reconnect(v))

-----------------------------------------------------------------------------

Replies == [state : {"none", "asked", "taken", "answered", "refused", "failed"},
            tally : Tallies(Counts), voted : BOOLEAN, closed : BOOLEAN]
Works == [state : {"none", "counted", "read"}, tally : Tallies(Counts), from : 0 .. MaxVisits]

TypeOK ==
    /\ tally \in Tallies(Counts)
    /\ ownVote \in BOOLEAN
    /\ recorded \in BOOLEAN
    /\ handler \in [Handlers -> Works]
    /\ channel \in Seq(Tallies(Counts))
    /\ latest \in Counts
    /\ losses \in 0 .. MaxLosses
    /\ visit \in 0 .. MaxVisits
    /\ mounted \in BOOLEAN
    /\ mounted => visit \in Visits
    /\ kind \in {"vote", "results"}
    /\ loaded \in BOOLEAN
    /\ loading \in BOOLEAN
    /\ error \in BOOLEAN
    /\ shown \in Tallies(Counts)
    /\ hasVoted \in BOOLEAN
    /\ closed \in BOOLEAN
    /\ status \in {"disconnected", "connecting", "connected"}
    /\ localVoted \in BOOLEAN
    /\ own \in Counts
    /\ remembered \in BOOLEAN
    /\ fetch \in Replies
    /\ cast \in [Visits -> Replies]
    /\ sock \in [Visits -> {"none", "connecting", "open", "closed"}]
    /\ joined \in [Visits -> BOOLEAN]
    /\ inbox \in [Visits -> Seq(Tallies(Counts))]
    /\ timer \subseteq Visits

\* However timers, losses and leaving interleave, a page that was left keeps no
\* socket and no timer that would open one (websocket.js:42-49, 65-72).
NothingOutlivesItsPage ==
    \A v \in Visits : ~Current(v) =>
        v \notin timer /\ sock[v] \notin {"connecting", "open"}

\* The pill on the screen tells the state of the socket, through every loss,
\* reconnect and refetch (websocket.js:24-44).
StatusTellsTruth ==
    mounted => (status = "connected" <=> sock[visit] = "open")

\* Nobody is thanked for a vote that is not counted: when localStorage or the
\* hook says that a vote was cast there is one on the server, though responses
\* are lost, refused or come after their page was left; only the form of a page
\* may also be closed by a refusal (VotePage.jsx:38-61).
VotedMeansCounted ==
    /\ remembered \/ hasVoted => ownVote
    /\ localVoted => ownVote \/ recorded

\* Once all is quiet a voter's page shows at least the tally that answered its vote,
\* though the response crosses the events of this vote and of others, which are read,
\* published and broadcast in any order, or is lost.  There are two exceptions: the
\* event that the hub broadcast last may have been read before the vote, and is then
\* what the page shows; and the connection may have been lost since
\* (useLivePoll.js:52-78, vote_controller.go:133, 151).
OwnVoteShown ==
    AtRest /\ Charted => shown.total >= own \/ (latest > 0 /\ shown.total = latest)

\* Results and total are two states, set by responses and events that cross: the
\* chart is still of one tally (useLivePoll.js:30-34, 55-56, 74-75, LiveChart.jsx:6-18).
ChartAddsUp == Charted => DrawsATally(shown)

\* A page in use has a live socket again after every loss (websocket.js:42-60).
ComesBack == mounted /\ visit \in timer ~> ~mounted \/ sock[visit] = "open"

\* A page with events on their way to it comes to show what the hub broadcast last,
\* unless its connection is lost or it is left first; the response to a refresh or
\* to a vote may then overwrite it (websocket.js:33-40, useLivePoll.js:52-58).
HeardIsShown ==
    mounted /\ inbox[visit] # <<>> ~> ~mounted \/ ~joined[visit] \/ shown.total = latest

=============================================================================
