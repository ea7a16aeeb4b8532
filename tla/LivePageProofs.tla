---------------------------- MODULE LivePageProofs ----------------------------
(***************************************************************************)
(* Theorems of LivePage for every number of votes, visits and losses.      *)
(***************************************************************************)
EXTENDS LivePage, ChartProofs, TLAPS

LEMMA TallyType ==
    NoVotes \in Tallies(Counts) /\ 0 \in Counts
BY PageAssumption DEF NoVotes, Tallies, Counts

LEMMA ReplyType ==
    /\ \A s \in {"none", "asked", "taken", "answered", "refused", "failed"},
          t \in Tallies(Counts), b \in BOOLEAN, c \in BOOLEAN : Reply(s, t, b, c) \in Replies
    /\ NoReply \in Replies /\ Asked \in Replies
    /\ Bare("failed") \in Replies /\ Bare("refused") \in Replies /\ Bare("taken") \in Replies
BY TallyType DEF Reply, Bare, NoReply, Asked, Replies

LEMMA WorkType ==
    /\ \A s \in {"none", "counted", "read"}, t \in Tallies(Counts), f \in 0 .. MaxVisits :
         Work(s, t, f) \in Works
    /\ Idle \in Works
<1>1. 0 \in 0 .. MaxVisits
  BY PageAssumption
<1> QED BY <1>1, TallyType DEF Work, Idle, Works

LEMMA TypeInit == Init => TypeOK
<1> SUFFICES ASSUME Init PROVE TypeOK
  OBVIOUS
<1> USE PageAssumption DEF Init
<1>1. NoReply \in Replies /\ NoVotes \in Tallies(Counts)
  BY TallyType, ReplyType
<1>2. inbox \in [Visits -> Seq(Tallies(Counts))]
  OBVIOUS
<1>3. own \in Counts /\ losses \in 0 .. MaxLosses /\ visit \in 0 .. MaxVisits
  BY DEF Counts
<1>4. handler \in [Handlers -> Works] /\ channel \in Seq(Tallies(Counts)) /\ latest \in Counts
  BY WorkType, TallyType
<1> QED BY <1>1, <1>2, <1>3, <1>4 DEF TypeOK

LEMMA CountType ==
    ASSUME TypeOK, NEW o \in Options, NEW from \in 0 .. MaxVisits, CountVote(o, from)
    PROVE  /\ Counted(tally, o) \in Tallies(Counts)
           /\ tally' = Counted(tally, o)
           /\ tally' \in Tallies(Counts)
           /\ handler' \in [Handlers -> Works]
<1>1. Counted(tally, o) \in Tallies(Counts)
  <2>1. tally.total + 1 \in Counts
    BY PageAssumption DEF TypeOK, CountVote, Counts, Tallies
  <2>2. [tally.results EXCEPT ![o] = @ + 1] \in [Options -> Nat]
    BY DEF TypeOK, Tallies
  <2> QED BY <2>1, <2>2 DEF Counted, Tallies
<1>2. handler' \in [Handlers -> Works]
  <2>1. Work("counted", NoVotes, from) \in Works
    BY WorkType, TallyType
  <2> QED BY <2>1 DEF TypeOK, CountVote
<1> QED BY <1>1, <1>2 DEF CountVote

\* What a handler has at hand, and its last step.
LEMMA AnswerType ==
    ASSUME TypeOK, NEW n \in Handlers
    PROVE  /\ handler[n] \in Works
           /\ handler[n].tally \in Tallies(Counts) /\ handler[n].from \in 0 .. MaxVisits
           /\ \A reply \in Replies :
                Answer(n, reply) => /\ handler' \in [Handlers -> Works]
                                    /\ cast' \in [Visits -> Replies]
<1>1. handler[n] \in Works
  BY DEF TypeOK
<1>2. ASSUME NEW reply \in Replies, Answer(n, reply)
      PROVE  handler' \in [Handlers -> Works] /\ cast' \in [Visits -> Replies]
  <2>1. handler' \in [Handlers -> Works]
    BY <1>2, WorkType DEF TypeOK, Answer
  <2>2. \A v \in Visits : cast[v] \in Replies
    BY DEF TypeOK
  <2> QED BY <1>2, <2>1, <2>2 DEF Answer
<1> QED BY <1>1, <1>2 DEF Works

LEMMA ConnectType ==
    ASSUME TypeOK, NEW v \in 0 .. MaxVisits, Connect(v)
    PROVE  /\ sock' \in [Visits -> {"none", "connecting", "open", "closed"}]
           /\ status' \in {"disconnected", "connecting", "connected"}
           /\ timer' \subseteq Visits
           /\ losses' \in 0 .. MaxLosses
<1> USE PageAssumption DEF TypeOK
<1>1. CASE Current(v)
  <2>1. v \in Visits
    BY <1>1 DEF Current
  <2>2. \/ sock' = [sock EXCEPT ![v] = "connecting"] /\ timer' = timer \ {v} /\ losses' = losses
        \/ sock' = sock /\ timer' = timer \cup {v} /\ losses' = losses + 1 /\ losses < MaxLosses
    BY <1>1 DEF Connect
  <2>3. status' = "connecting"
    BY <1>1 DEF Connect, Tell
  <2>4. sock' \in [Visits -> {"none", "connecting", "open", "closed"}]
    BY <2>1, <2>2
  <2>5. timer' \subseteq Visits
    BY <2>1, <2>2
  <2>6. losses' \in 0 .. MaxLosses
    BY <2>2
  <2> QED BY <2>3, <2>4, <2>5, <2>6
<1>2. CASE ~Current(v)
  BY <1>2 DEF Connect
<1> QED BY <1>1, <1>2

LEMMA TypeStep ==
    ASSUME TypeOK, [Next]_vars
    PROVE  TypeOK'
<1> USE PageAssumption DEF TypeOK, votes, stream, server, hook, link
<1>1. CASE OthersVote
  <2>1. PICK o \in Options : CountVote(o, 0)
    BY <1>1 DEF OthersVote
  <2>2. 0 \in 0 .. MaxVisits
    OBVIOUS
  <2>3. tally' \in Tallies(Counts) /\ handler' \in [Handlers -> Works]
    BY <2>1, <2>2, CountType
  <2> QED BY <1>1, <2>3 DEF OthersVote
<1>2. ASSUME NEW n \in Handlers, ReadTally(n) PROVE TypeOK'
  <2>1. Work("read", tally, handler[n].from) \in Works
    BY AnswerType, WorkType
  <2>2. handler' = [handler EXCEPT ![n] = Work("read", tally, handler[n].from)]
    BY <1>2 DEF ReadTally
  <2>3. handler' \in [Handlers -> Works]
    BY <2>1, <2>2
  <2> QED BY <1>2, <2>3 DEF ReadTally
<1>3. ASSUME NEW n \in Handlers, Publish(n) PROVE TypeOK'
  <2>1. Reply("answered", handler[n].tally, TRUE, FALSE) \in Replies
    BY AnswerType, ReplyType
  <2>2. handler' \in [Handlers -> Works] /\ cast' \in [Visits -> Replies]
    BY <1>3, <2>1, AnswerType DEF Publish
  <2>3. channel' \in Seq(Tallies(Counts))
    <3>1. channel \in Seq(Tallies(Counts)) /\ handler[n].tally \in Tallies(Counts)
      BY AnswerType
    <3>2. Append(channel, handler[n].tally) \in Seq(Tallies(Counts))
      BY <3>1
    <3> QED BY <1>3, <3>1, <3>2 DEF Publish
  <2> QED BY <1>3, <2>2, <2>3 DEF Publish
<1>4. ASSUME NEW n \in Handlers, HandlerFails(n) PROVE TypeOK'
  <2>1. handler' \in [Handlers -> Works] /\ cast' \in [Visits -> Replies]
    BY <1>4, ReplyType, AnswerType DEF HandlerFails
  <2> QED BY <1>4, <2>1 DEF HandlerFails
<1>5. CASE Broadcast
  <2>1. Head(channel) \in Tallies(Counts) /\ channel' \in Seq(Tallies(Counts))
    BY <1>5 DEF Broadcast
  <2>2. latest' \in Counts
    BY <1>5, <2>1 DEF Broadcast, Tallies
  <2>3. \A v \in Visits : Append(inbox[v], Head(channel)) \in Seq(Tallies(Counts))
    BY <2>1
  <2>4. inbox' \in [Visits -> Seq(Tallies(Counts))]
    BY <1>5, <2>3 DEF Broadcast
  <2> QED BY <1>5, <2>1, <2>2, <2>4 DEF Broadcast
<1>6. ASSUME NEW v \in Visits, ResponseLost(v) PROVE TypeOK'
  <2>1. cast' \in [Visits -> Replies]
    BY <1>6, ReplyType DEF ResponseLost
  <2> QED BY <1>6, <2>1 DEF ResponseLost
<1>7. CASE ServeFetch
  <2>1. fetch' \in Replies
    BY <1>7, ReplyType DEF ServeFetch
  <2> QED BY <1>7, <2>1 DEF ServeFetch
<1>8. ASSUME NEW v \in Visits, ServeCast(v) PROVE TypeOK'
  <2>1. cast' \in [Visits -> Replies]
    BY <1>8, ReplyType DEF ServeCast
  <2>2. ASSUME NEW o \in OwnOptions, CountVote(o, v), ownVote' = TRUE, recorded' = TRUE
        PROVE  TypeOK'
    <3>1. o \in Options /\ v \in 0 .. MaxVisits
      BY DEF Visits
    <3>2. tally' \in Tallies(Counts) /\ handler' \in [Handlers -> Works]
      BY <2>2, <3>1, CountType
    <3> QED BY <1>8, <2>1, <2>2, <3>2 DEF ServeCast
  <2>3. CASE recorded' \in BOOLEAN /\ UNCHANGED <<tally, ownVote, handler>>
    BY <1>8, <2>1, <2>3 DEF ServeCast
  <2> QED BY <1>8, <2>2, <2>3 DEF ServeCast
<1>9. CASE Mount
  <2>1. visit + 1 \in 0 .. MaxVisits /\ visit + 1 \in Visits
    BY <1>9 DEF Mount, Visits
  <2>2. fetch' \in Replies
    BY <1>9, ReplyType DEF Mount
  <2> QED BY <1>9, <2>1, <2>2 DEF Mount
<1>10. CASE Refetch
  <2>1. fetch' \in Replies
    BY <1>10, ReplyType DEF Refetch
  <2>2. /\ loading' \in BOOLEAN /\ error' \in BOOLEAN
        /\ UNCHANGED <<server, losses, visit, mounted, kind, loaded, shown, hasVoted, closed,
                       status, localVoted, own, remembered, cast, link>>
    BY <1>10 DEF Refetch
  <2> QED BY <2>1, <2>2
<1>11. CASE FetchArrives
  <2>1. /\ fetch.tally \in Tallies(Counts)
        /\ fetch.voted \in BOOLEAN
        /\ fetch.closed \in BOOLEAN
    BY DEF Replies
  <2>2. localVoted' \in BOOLEAN /\ fetch' \in Replies
    BY <1>11, ReplyType DEF FetchArrives
  <2>3. /\ sock' \in [Visits -> {"none", "connecting", "open", "closed"}]
        /\ status' \in {"disconnected", "connecting", "connected"}
        /\ timer' \subseteq Visits /\ losses' \in 0 .. MaxLosses
    <3>1. CASE Connect(visit)
      BY <3>1, ConnectType
    <3>2. CASE UNCHANGED <<sock, status, timer, losses>>
      BY <3>2
    <3> QED BY <1>11, <3>1, <3>2 DEF FetchArrives
  <2> QED BY <1>11, <2>1, <2>2, <2>3 DEF FetchArrives
<1>12. CASE FetchFails
  <2>1. fetch' \in Replies
    BY <1>12, ReplyType DEF FetchFails
  <2>2. /\ loading' \in BOOLEAN /\ error' \in BOOLEAN
        /\ UNCHANGED <<server, losses, visit, mounted, kind, loaded, shown, hasVoted, closed,
                       status, localVoted, own, remembered, cast, link>>
    BY <1>12 DEF FetchFails
  <2> QED BY <2>1, <2>2
<1>13. CASE Leave
  <2>1. inbox' \in [Visits -> Seq(Tallies(Counts))]
    <3>1. <<>> \in Seq(Tallies(Counts)) /\ inbox' = [inbox EXCEPT ![visit] = <<>>]
      BY <1>13 DEF Leave, Disconnect
    <3> QED BY <3>1
  <2>2. sock' \in [Visits -> {"none", "connecting", "open", "closed"}]
    BY <1>13 DEF Leave, Disconnect
  <2>3. joined' \in [Visits -> BOOLEAN] /\ timer' \subseteq Visits
    BY <1>13 DEF Leave, Disconnect
  <2>4. fetch' \in Replies
    BY <1>13, ReplyType DEF Leave
  <2>5. /\ mounted' = FALSE /\ shown' = NoVotes /\ own' = 0
        /\ loaded' \in BOOLEAN /\ loading' \in BOOLEAN /\ error' \in BOOLEAN
        /\ hasVoted' \in BOOLEAN /\ closed' \in BOOLEAN /\ localVoted' \in BOOLEAN
        /\ status' = "disconnected"
        /\ UNCHANGED <<server, losses, visit, kind, remembered, cast>>
    BY <1>13 DEF Leave
  <2> QED BY <2>1, <2>2, <2>3, <2>4, <2>5, TallyType
<1>14. CASE Submit
  <2>1. cast' \in [Visits -> Replies]
    <3>1. cast \in [Visits -> Replies] /\ cast' = [cast EXCEPT ![visit] = Asked]
      BY <1>14 DEF Submit
    <3> QED BY <3>1, ReplyType
  <2> QED BY <1>14, <2>1 DEF Submit
<1>15. ASSUME NEW v \in Visits, CastArrives(v) PROVE TypeOK'
  <2>1. cast[v].tally \in Tallies(Counts) /\ cast[v].tally.total \in Counts
    BY DEF Replies, Tallies
  <2>2. cast' \in [Visits -> Replies]
    BY <1>15, ReplyType DEF CastArrives
  <2>3. remembered' \in BOOLEAN /\ localVoted' \in BOOLEAN
    BY <1>15 DEF CastArrives
  <2>4. shown' \in Tallies(Counts) /\ hasVoted' \in BOOLEAN /\ own' \in Counts
    BY <1>15, <2>1 DEF CastArrives
  <2> QED BY <1>15, <2>2, <2>3, <2>4 DEF CastArrives
<1>16. ASSUME NEW v \in Visits, Opened(v) PROVE TypeOK'
  BY <1>16 DEF Opened, Tell, Current
<1>17. ASSUME NEW v \in Visits, Join(v) PROVE TypeOK'
  BY <1>17 DEF Join
<1>18. ASSUME NEW v \in Visits, Receive(v) PROVE TypeOK'
  <2>1. Head(inbox[v]) \in Tallies(Counts) /\ Tail(inbox[v]) \in Seq(Tallies(Counts))
    BY <1>18 DEF Receive
  <2>2. inbox' \in [Visits -> Seq(Tallies(Counts))]
    BY <1>18, <2>1 DEF Receive
  <2> QED BY <1>18, <2>1, <2>2 DEF Receive
<1>19. ASSUME NEW v \in Visits, Lost(v) PROVE TypeOK'
  <2>1. inbox' \in [Visits -> Seq(Tallies(Counts))] /\ losses' \in 0 .. MaxLosses
    BY <1>19 DEF Lost
  <2>2. /\ sock' \in [Visits -> {"none", "connecting", "open", "closed"}]
        /\ joined' \in [Visits -> BOOLEAN]
        /\ timer' \subseteq Visits
    BY <1>19 DEF Lost
  <2>3. status' \in {"disconnected", "connecting", "connected"} /\ own' \in Counts
    BY <1>19, TallyType DEF Lost, Tell
  <2> QED BY <1>19, <2>1, <2>2, <2>3 DEF Lost
<1>20. ASSUME NEW v \in Visits, Reconnect(v) PROVE TypeOK'
  <2>1. v \in 0 .. MaxVisits
    BY DEF Visits
  <2> QED BY <1>20, <2>1, ConnectType DEF Reconnect
<1>21. CASE UNCHANGED vars
  BY <1>21 DEF vars
<1> QED
  BY <1>1, <1>2, <1>3, <1>4, <1>5, <1>6, <1>7, <1>8, <1>9, <1>10, <1>11, <1>12, <1>13,
     <1>14, <1>15, <1>16, <1>17, <1>18, <1>19, <1>20, <1>21
  DEF Next, Rest

\* Every variable of the page keeps to its type.
THEOREM PageTypeCorrect == Spec => []TypeOK
<1>1. TypeOK /\ [Next]_vars => TypeOK'
  BY TypeStep
<1> QED BY TypeInit, <1>1, PTL DEF Spec

-----------------------------------------------------------------------------
(* The sockets and the page.                                               *)

\* Only a mounted page waits for a response to its fetch; only a loaded one has, or
\* waits to have, a socket, and never both.
SocketInv ==
    /\ \A v \in timer : sock[v] \notin {"connecting", "open"}
    /\ \A v \in Visits : v > visit => sock[v] = "none"
    /\ mounted /\ ~loaded => sock[visit] = "none" /\ visit \notin timer
    /\ ~mounted => status = "disconnected"
    /\ fetch.state # "none" => mounted
    /\ NothingOutlivesItsPage
    /\ StatusTellsTruth

LEMMA SocketStep ==
    ASSUME TypeOK, TypeOK', SocketInv, [Next]_vars
    PROVE  SocketInv'
<1> USE PageAssumption DEF TypeOK, Visits, SocketInv, NothingOutlivesItsPage, StatusTellsTruth,
                           Current, votes, stream, server, hook, link
<1>1. CASE OthersVote
  BY <1>1 DEF OthersVote
<1>2. ASSUME NEW n \in Handlers, ReadTally(n) PROVE SocketInv'
  BY <1>2 DEF ReadTally
<1>3. ASSUME NEW n \in Handlers, Publish(n) PROVE SocketInv'
  BY <1>3 DEF Publish
<1>4. ASSUME NEW n \in Handlers, HandlerFails(n) PROVE SocketInv'
  BY <1>4 DEF HandlerFails
<1>5. CASE Broadcast
  BY <1>5 DEF Broadcast
<1>6. ASSUME NEW v \in Visits, ResponseLost(v) PROVE SocketInv'
  BY <1>6 DEF ResponseLost
<1>7. CASE ServeFetch
  BY <1>7 DEF ServeFetch, Reply, Bare
<1>8. ASSUME NEW v \in Visits, ServeCast(v) PROVE SocketInv'
  BY <1>8 DEF ServeCast
<1>9. CASE Mount
  <2>1. PICK w \in Visits : visit' = w /\ w > visit
    BY <1>9 DEF Mount
  <2>2. mounted' /\ UNCHANGED <<loaded, status, sock, timer>>
    BY <1>9 DEF Mount
  <2>3. ~mounted /\ sock[w] = "none" /\ w \notin timer
    BY <1>9, <2>1 DEF Mount
  <2> QED BY <2>1, <2>2, <2>3
<1>10. CASE Refetch
  BY <1>10 DEF Refetch, OnAudienceScreen, Ready, Asked, Bare, Reply
<1>11. CASE FetchArrives
  <2>1. /\ fetch'.state = "none" /\ mounted /\ visit \in Visits
        /\ UNCHANGED <<mounted, visit>>
    BY <1>11 DEF FetchArrives, NoReply, Bare, Reply
  <2>2. CASE UNCHANGED <<sock, status, timer>> /\ loaded /\ loaded'
    BY <2>1, <2>2
  <2>3. CASE Connect(visit) /\ ~loaded /\ loaded'
    BY <2>1, <2>3 DEF Connect, Tell
  <2> QED BY <1>11, <2>1, <2>2, <2>3 DEF FetchArrives
<1>12. CASE FetchFails
  BY <1>12 DEF FetchFails, NoReply, Bare, Reply
<1>13. CASE Leave
  BY <1>13 DEF Leave, Disconnect, NoReply, Bare, Reply
<1>14. CASE Submit
  BY <1>14 DEF Submit, Offered, Ready, Asked, Bare, Reply
<1>15. ASSUME NEW v \in Visits, CastArrives(v) PROVE SocketInv'
  BY <1>15 DEF CastArrives, NoReply, Bare, Reply, Current
<1>16. ASSUME NEW v \in Visits, Opened(v) PROVE SocketInv'
  BY <1>16 DEF Opened, Tell, Current
<1>17. ASSUME NEW v \in Visits, Join(v) PROVE SocketInv'
  BY <1>17 DEF Join
<1>18. ASSUME NEW v \in Visits, Receive(v) PROVE SocketInv'
  BY <1>18 DEF Receive
<1>19. ASSUME NEW v \in Visits, Lost(v) PROVE SocketInv'
  BY <1>19 DEF Lost, Tell, Current
<1>20. ASSUME NEW v \in Visits, Reconnect(v) PROVE SocketInv'
  <2>1. Connect(v) /\ v \in timer /\ UNCHANGED <<mounted, visit, fetch>>
    BY <1>20 DEF Reconnect
  <2>2. mounted /\ v = visit /\ sock[v] \notin {"connecting", "open"} /\ loaded /\ loaded'
    BY <1>20, <2>1 DEF Reconnect
  <2>3. /\ status' = "connecting"
        /\ \/ sock' = [sock EXCEPT ![v] = "connecting"] /\ timer' = timer \ {v}
           \/ UNCHANGED <<sock, timer>>
    BY <2>1, <2>2 DEF Connect, Tell
  <2> QED BY <2>1, <2>2, <2>3
<1>21. CASE UNCHANGED vars
  BY <1>21 DEF vars
<1> QED
  BY <1>1, <1>2, <1>3, <1>4, <1>5, <1>6, <1>7, <1>8, <1>9, <1>10, <1>11, <1>12, <1>13,
     <1>14, <1>15, <1>16, <1>17, <1>18, <1>19, <1>20, <1>21
  DEF Next, Rest

LEMMA SocketInvariant == Spec => []SocketInv
<1>1. Init => SocketInv
  BY DEF Init, SocketInv, NothingOutlivesItsPage, StatusTellsTruth, Current, NoReply, Bare, Reply
<1>2. TypeOK /\ TypeOK' /\ SocketInv /\ [Next]_vars => SocketInv'
  BY SocketStep
<1> QED BY <1>1, <1>2, PageTypeCorrect, PTL DEF Spec

\* A page that was left has neither a socket nor a timer that would open one.
THEOREM NothingOutlivesItsPageHolds == Spec => []NothingOutlivesItsPage
<1>1. SocketInv => NothingOutlivesItsPage
  BY DEF SocketInv
<1> QED BY <1>1, SocketInvariant, PTL

\* The page says "connected" exactly when its socket is open.
THEOREM StatusTellsTruthHolds == Spec => []StatusTellsTruth
<1>1. SocketInv => StatusTellsTruth
  BY DEF SocketInv
<1> QED BY <1>1, SocketInvariant, PTL

-----------------------------------------------------------------------------
(* The vote.                                                               *)

\* What is on its way to the browser agrees with the server, too.
VoteInv ==
    /\ fetch.voted => ownVote
    /\ \A v \in Visits :
         /\ cast[v].state \in {"taken", "answered"} => ownVote
         /\ cast[v].state = "refused" => recorded
    /\ VotedMeansCounted

LEMMA VoteStep ==
    ASSUME TypeOK, VoteInv, [Next]_vars
    PROVE  VoteInv'
<1> USE DEF TypeOK, VoteInv, VotedMeansCounted, votes, stream, server, hook, link
<1>1. CASE OthersVote
  BY <1>1 DEF OthersVote
<1>2. ASSUME NEW n \in Handlers, ReadTally(n) PROVE VoteInv'
  BY <1>2 DEF ReadTally
<1>3. ASSUME NEW n \in Handlers, Publish(n) PROVE VoteInv'
  BY <1>3 DEF Publish, Answer, Reply
<1>4. ASSUME NEW n \in Handlers, HandlerFails(n) PROVE VoteInv'
  BY <1>4 DEF HandlerFails, Answer, Bare, Reply
<1>5. CASE Broadcast
  BY <1>5 DEF Broadcast
<1>6. ASSUME NEW v \in Visits, ResponseLost(v) PROVE VoteInv'
  BY <1>6 DEF ResponseLost, Bare, Reply
<1>7. CASE ServeFetch
  BY <1>7 DEF ServeFetch, Reply, Bare
<1>8. ASSUME NEW v \in Visits, ServeCast(v) PROVE VoteInv'
  <2>1. UNCHANGED <<fetch, localVoted, hasVoted, remembered>>
    BY <1>8 DEF ServeCast, hook
  <2>2. (ownVote => ownVote') /\ (recorded => recorded')
    BY <1>8 DEF ServeCast
  <2>3. PICK reply \in Replies :
          /\ cast' = [cast EXCEPT ![v] = reply]
          /\ reply.state = "taken" => ownVote'
          /\ reply.state # "answered"
          /\ reply.state = "refused" => recorded'
    BY <1>8, ReplyType DEF ServeCast, Reply, Bare
  <2> QED BY <2>1, <2>2, <2>3
<1>9. CASE Mount
  BY <1>9 DEF Mount, Asked, Bare, Reply
<1>10. CASE Refetch
  BY <1>10 DEF Refetch, OnAudienceScreen, Ready, Asked, Bare, Reply
<1>11. CASE FetchArrives
  BY <1>11 DEF FetchArrives, NoReply, Bare, Reply
<1>12. CASE FetchFails
  BY <1>12 DEF FetchFails, NoReply, Bare, Reply
<1>13. CASE Leave
  BY <1>13 DEF Leave, Disconnect, NoReply, Bare, Reply
<1>14. CASE Submit
  BY <1>14 DEF Submit, Offered, Ready, Asked, Bare, Reply
<1>15. ASSUME NEW v \in Visits, CastArrives(v) PROVE VoteInv'
  BY <1>15 DEF CastArrives, NoReply, Bare, Reply, Current
<1>16. ASSUME NEW v \in Visits, Opened(v) PROVE VoteInv'
  BY <1>16 DEF Opened, Tell, Current
<1>17. ASSUME NEW v \in Visits, Join(v) PROVE VoteInv'
  BY <1>17 DEF Join
<1>18. ASSUME NEW v \in Visits, Receive(v) PROVE VoteInv'
  BY <1>18 DEF Receive
<1>19. ASSUME NEW v \in Visits, Lost(v) PROVE VoteInv'
  BY <1>19 DEF Lost, Tell, Current
<1>20. ASSUME NEW v \in Visits, Reconnect(v) PROVE VoteInv'
  BY <1>20 DEF Reconnect
<1>21. CASE UNCHANGED vars
  BY <1>21 DEF vars
<1> QED
  BY <1>1, <1>2, <1>3, <1>4, <1>5, <1>6, <1>7, <1>8, <1>9, <1>10, <1>11, <1>12, <1>13,
     <1>14, <1>15, <1>16, <1>17, <1>18, <1>19, <1>20, <1>21
  DEF Next, Rest

\* Whatever responses are lost, late or refused, nobody is told of a vote that the
\* server does not have.
THEOREM VotedMeansCountedHolds == Spec => []VotedMeansCounted
<1>1. Init => VoteInv
  BY DEF Init, VoteInv, VotedMeansCounted, NoReply, Bare, Reply
<1>2. TypeOK /\ VoteInv /\ [Next]_vars => VoteInv'
  BY VoteStep
<1>3. VoteInv => VotedMeansCounted
  BY DEF VoteInv
<1> QED BY <1>1, <1>2, <1>3, PageTypeCorrect, PTL DEF Spec

-----------------------------------------------------------------------------
(* The tally that has the vote in it.                                      *)

\* No event is of no votes.  Events only travel over a connection, and the last of
\* them is the last that was broadcast.
LinkInv ==
    /\ \A n \in Handlers :
        /\ handler[n].state # "none" => tally.total > 0
        /\ handler[n].state = "read" => handler[n].tally.total > 0
    /\ channel \in Seq(Tallies(Handlers))
    /\ \A v \in Visits :
        /\ ~joined[v] => inbox[v] = <<>>
        /\ joined[v] => sock[v] \in {"connecting", "open"}
        /\ v > visit => cast[v].state = "none"
        /\ inbox[v] # <<>> => latest > 0 /\ inbox[v][Len(inbox[v])].total = latest

\* A page that was answered shows its vote or, over the connection that it still has,
\* the last event; it votes only after its one fetch, whose response is the only one
\* that could take it back.
OwnInv ==
    /\ kind = "vote" /\ loaded => fetch.state = "none"
    /\ ~mounted => own = 0 /\ ~loaded
    /\ mounted =>
         /\ own > 0 \/ cast[visit].state # "none" => kind = "vote" /\ loaded
         /\ inbox[visit] = <<>> =>
              shown.total >= own \/ (joined[visit] /\ latest > 0 /\ shown.total = latest)

\* The last of a sequence, after an append and after a tail.
LEMMA LastOf ==
    ASSUME NEW S, NEW s \in Seq(S), NEW e \in S
    PROVE  /\ Append(s, e) # <<>> /\ Append(s, e)[Len(Append(s, e))] = e
           /\ s # <<>> => /\ s[Len(s)] \in S
                          /\ Tail(s) = <<>> => Head(s) = s[Len(s)]
                          /\ Tail(s) # <<>> => Tail(s)[Len(Tail(s))] = s[Len(s)]
<1>1. Append(s, e) # <<>> /\ Append(s, e)[Len(Append(s, e))] = e
  <2>1. PICK n \in Nat : n = Len(s)
    OBVIOUS
  <2>2. Len(Append(s, e)) = n + 1 /\ Append(s, e)[n + 1] = e
    BY <2>1
  <2> QED BY <2>2
<1>2. ASSUME s # <<>> PROVE s[Len(s)] \in S
  <2>1. PICK n \in Nat : n = Len(s)
    OBVIOUS
  <2>2. n \in 1 .. n
    BY <1>2, <2>1
  <2> QED BY <2>1, <2>2
<1>3. ASSUME s # <<>>, Tail(s) = <<>> PROVE Head(s) = s[Len(s)]
  <2>1. PICK n \in Nat : n = Len(s)
    OBVIOUS
  <2>2. n > 0 /\ Len(Tail(s)) = n - 1
    BY <1>3, <2>1
  <2>3. n = 1
    <3>1. Len(<<>>) = 0
      OBVIOUS
    <3>2. Len(Tail(s)) = 0
      BY <1>3, <3>1, Zenon
    <3> QED BY <2>1, <2>2, <3>2
  <2> QED BY <1>3, <2>1, <2>3
<1>4. ASSUME s # <<>>, Tail(s) # <<>> PROVE Tail(s)[Len(Tail(s))] = s[Len(s)]
  <2>1. PICK n \in Nat : n = Len(s)
    OBVIOUS
  <2>2. Tail(s) \in Seq(S) /\ Len(Tail(s)) = n - 1
    BY <1>4, <2>1
  <2>3. n - 1 \in 1 .. n - 1
    BY <1>4, <2>1, <2>2
  <2> QED BY <1>4, <2>1, <2>2, <2>3
<1> QED BY <1>1, <1>2, <1>3, <1>4

LEMMA TotalType ==
    ASSUME TypeOK
    PROVE  /\ tally.total \in Nat /\ shown.total \in Nat /\ own \in Nat /\ latest \in Nat
           /\ fetch.tally.total \in Nat
           /\ \A v \in Visits : cast[v].tally.total \in Nat
<1>1. \A t \in Tallies(Counts) : t.total \in Nat
  BY PageAssumption DEF Tallies, Counts
<1>2. /\ tally \in Tallies(Counts) /\ shown \in Tallies(Counts)
      /\ own \in Nat /\ latest \in Nat
  BY PageAssumption DEF TypeOK, Counts
<1>3. ASSUME NEW v \in Visits PROVE cast[v].tally \in Tallies(Counts)
  <2>1. cast[v] \in Replies
    BY DEF TypeOK
  <2> QED BY <2>1 DEF Replies
<1>4. fetch.tally \in Tallies(Counts)
  BY DEF TypeOK, Replies
<1> QED BY <1>1, <1>2, <1>3, <1>4

\* What a handler has read is a tally with a vote in it.
LEMMA ReadTallies ==
    ASSUME TypeOK, LinkInv, NEW n \in Handlers, handler[n].state = "read"
    PROVE  handler[n].tally \in Tallies(Handlers)
<1>1. handler[n].tally \in Tallies(Counts) /\ handler[n].tally.total > 0
  BY AnswerType DEF LinkInv
<1> QED BY <1>1, PageAssumption DEF Tallies, Counts, Handlers

LEMMA LinkStep ==
    ASSUME TypeOK, SocketInv, SocketInv', LinkInv, [Next]_vars
    PROVE  LinkInv'
<1> USE PageAssumption DEF TypeOK, Visits, LinkInv, votes, stream, server, hook, link
<1>t. tally.total \in Nat
  BY TotalType
<1>1. CASE OthersVote
  <2>1. PICK o \in Options : CountVote(o, 0)
    BY <1>1 DEF OthersVote
  <2>2. UNCHANGED <<channel, latest, joined, inbox, sock, visit, cast>>
    BY <1>1 DEF OthersVote
  <2>3. \A n \in Handlers : /\ handler'[n].state # "none" => tally'.total > 0
                            /\ handler'[n].state = "read" => handler'[n].tally.total > 0
    BY <1>t, <2>1 DEF CountVote, Counted, Work
  <2> QED BY <2>2, <2>3
<1>2. ASSUME NEW n \in Handlers, ReadTally(n) PROVE LinkInv'
  <2>1. UNCHANGED <<tally, channel, latest, joined, inbox, sock, visit, cast>>
    BY <1>2 DEF ReadTally
  <2>2. \A k \in Handlers : /\ handler'[k].state # "none" => handler[k].state # "none"
                            /\ handler'[k].state = "read" => handler'[k].tally.total > 0
    BY <1>2 DEF ReadTally, Work
  <2> QED BY <2>1, <2>2
<1>3. ASSUME NEW n \in Handlers, Publish(n) PROVE LinkInv'
  <2>1. UNCHANGED <<tally, latest, joined, inbox, sock, visit>>
    BY <1>3 DEF Publish
  <2>2. /\ \A k \in Handlers : handler'[k] = handler[k] \/ handler'[k].state = "none"
        /\ \A v \in Visits : cast'[v] = cast[v] \/ cast[v].state = "taken"
    BY <1>3 DEF Publish, Answer, Idle, Work
  <2>3. channel' \in Seq(Tallies(Handlers))
    <3>1. handler[n].tally \in Tallies(Handlers)
      BY <1>3, ReadTallies DEF Publish
    <3>2. Append(channel, handler[n].tally) \in Seq(Tallies(Handlers))
      BY <3>1
    <3> QED BY <1>3, <3>2 DEF Publish
  <2>4. \A k \in Handlers : /\ handler'[k].state # "none" => tally'.total > 0
                            /\ handler'[k].state = "read" => handler'[k].tally.total > 0
    BY <2>1, <2>2
  <2>5. \A v \in Visits : v > visit' => cast'[v].state = "none"
    BY <2>1, <2>2
  <2> QED BY <2>1, <2>3, <2>4, <2>5
<1>4. ASSUME NEW n \in Handlers, HandlerFails(n) PROVE LinkInv'
  <2>1. UNCHANGED <<tally, channel, latest, joined, inbox, sock, visit>>
    BY <1>4 DEF HandlerFails
  <2>2. /\ \A k \in Handlers : handler'[k] = handler[k] \/ handler'[k].state = "none"
        /\ \A v \in Visits : cast'[v] = cast[v] \/ cast[v].state = "taken"
    BY <1>4 DEF HandlerFails, Answer, Idle, Work
  <2>3. \A k \in Handlers : /\ handler'[k].state # "none" => tally'.total > 0
                            /\ handler'[k].state = "read" => handler'[k].tally.total > 0
    BY <2>1, <2>2
  <2>4. \A v \in Visits : v > visit' => cast'[v].state = "none"
    BY <2>1, <2>2
  <2> QED BY <2>1, <2>3, <2>4
<1>5. CASE Broadcast
  <2>1. UNCHANGED <<tally, handler, joined, sock, visit, cast>>
    BY <1>5 DEF Broadcast
  <2>2. Head(channel) \in Tallies(Handlers) /\ channel' \in Seq(Tallies(Handlers))
    BY <1>5 DEF Broadcast
  <2>3. latest' = Head(channel).total /\ latest' > 0 /\ Head(channel) \in Tallies(Counts)
    BY <1>5, <2>2 DEF Broadcast, Tallies, Handlers, Counts
  <2>4. ASSUME NEW v \in Visits
        PROVE  /\ ~joined'[v] => inbox'[v] = <<>>
               /\ inbox'[v] # <<>> => latest' > 0 /\ inbox'[v][Len(inbox'[v])].total = latest'
    <3>1. CASE joined[v]
      <4>1. inbox'[v] = Append(inbox[v], Head(channel))
        BY <1>5, <3>1 DEF Broadcast
      <4>2. inbox[v] \in Seq(Tallies(Counts))
        OBVIOUS
      <4> QED BY <2>1, <2>3, <3>1, <4>1, <4>2, LastOf
    <3>2. CASE ~joined[v]
      BY <1>5, <2>1, <3>2 DEF Broadcast
    <3> QED BY <3>1, <3>2
  <2> QED BY <2>1, <2>2, <2>4
<1>6. ASSUME NEW v \in Visits, ResponseLost(v) PROVE LinkInv'
  BY <1>6 DEF ResponseLost
<1>7. CASE ServeFetch
  BY <1>7 DEF ServeFetch
<1>8. ASSUME NEW v \in Visits, ServeCast(v) PROVE LinkInv'
  <2>1. /\ UNCHANGED <<channel, latest, joined, inbox, sock, visit>>
        /\ \A w \in Visits : cast'[w] = cast[w] \/ cast[w].state = "asked"
    BY <1>8 DEF ServeCast
  <2>2. CASE UNCHANGED <<tally, handler>>
    BY <2>1, <2>2
  <2>3. ASSUME NEW o \in OwnOptions, CountVote(o, v) PROVE LinkInv'
    <3>1. \A n \in Handlers : /\ handler'[n].state # "none" => tally'.total > 0
                              /\ handler'[n].state = "read" => handler'[n].tally.total > 0
      BY <1>t, <2>3 DEF CountVote, Counted, Work
    <3> QED BY <2>1, <3>1
  <2> QED BY <1>8, <2>2, <2>3 DEF ServeCast
<1>9. CASE Mount
  <2>1. visit' = visit + 1 /\ UNCHANGED <<server, cast, joined, sock, inbox>>
    BY <1>9 DEF Mount
  <2>2. \A v \in Visits : v > visit' => v > visit
    BY <2>1
  <2> QED BY <2>1, <2>2
<1>10. CASE Refetch
  BY <1>10 DEF Refetch
<1>11. CASE FetchArrives
  <2>1. UNCHANGED <<server, cast, joined, inbox, visit>>
    BY <1>11 DEF FetchArrives
  <2>2. \A v \in Visits : joined[v] => sock'[v] \in {"connecting", "open"}
    BY <1>11 DEF FetchArrives, Connect
  <2> QED BY <2>1, <2>2
<1>12. CASE FetchFails
  BY <1>12 DEF FetchFails
<1>13. CASE Leave
  BY <1>13 DEF Leave, Disconnect
<1>14. CASE Submit
  BY <1>14 DEF Submit, Offered, Ready, Asked, Bare, Reply
<1>15. ASSUME NEW v \in Visits, CastArrives(v) PROVE LinkInv'
  BY <1>15 DEF CastArrives, NoReply, Bare, Reply
<1>16. ASSUME NEW v \in Visits, Opened(v) PROVE LinkInv'
  BY <1>16 DEF Opened
<1>17. ASSUME NEW v \in Visits, Join(v) PROVE LinkInv'
  BY <1>17 DEF Join
<1>18. ASSUME NEW v \in Visits, Receive(v) PROVE LinkInv'
  <2>1. /\ UNCHANGED <<server, joined, sock, visit, cast>>
        /\ inbox' = [inbox EXCEPT ![v] = Tail(@)]
    BY <1>18 DEF Receive
  <2>2. inbox[v] \in Seq(Tallies(Counts)) /\ inbox[v] # <<>> /\ NoVotes \in Tallies(Counts)
    BY <1>18, TallyType DEF Receive
  <2>3. Tail(inbox[v]) # <<>> => Tail(inbox[v])[Len(Tail(inbox[v]))] = inbox[v][Len(inbox[v])]
    BY <2>2, LastOf
  <2>4. joined[v] /\ inbox'[v] = Tail(inbox[v])
    BY <2>1, <2>2
  <2>5. ASSUME NEW w \in Visits
        PROVE  /\ ~joined'[w] => inbox'[w] = <<>>
               /\ inbox'[w] # <<>> => latest' > 0 /\ inbox'[w][Len(inbox'[w])].total = latest'
    <3>1. CASE w = v
      BY <2>1, <2>2, <2>3, <2>4, <3>1
    <3>2. CASE w # v
      <4>1. inbox'[w] = inbox[w]
        BY <2>1, <3>2
      <4> QED BY <2>1, <4>1
    <3> QED BY <3>1, <3>2
  <2> QED BY <2>1, <2>5
<1>19. ASSUME NEW v \in Visits, Lost(v) PROVE LinkInv'
  BY <1>19 DEF Lost
<1>20. ASSUME NEW v \in Visits, Reconnect(v) PROVE LinkInv'
  <2>1. UNCHANGED <<server, cast, joined, inbox, visit>>
    BY <1>20 DEF Reconnect
  <2>2. \A w \in Visits : joined[w] => sock'[w] \in {"connecting", "open"}
    BY <1>20 DEF Reconnect, Connect
  <2> QED BY <2>1, <2>2
<1>21. CASE UNCHANGED vars
  BY <1>21 DEF vars
<1> QED
  BY <1>1, <1>2, <1>3, <1>4, <1>5, <1>6, <1>7, <1>8, <1>9, <1>10, <1>11, <1>12, <1>13,
     <1>14, <1>15, <1>16, <1>17, <1>18, <1>19, <1>20, <1>21
  DEF Next, Rest

LEMMA OwnStep ==
    ASSUME TypeOK, SocketInv, LinkInv, OwnInv, [Next]_vars
    PROVE  OwnInv'
<1> USE PageAssumption DEF TypeOK, Visits, OwnInv, votes, stream, server, hook, link
<1>n. /\ tally.total \in Nat /\ shown.total \in Nat /\ own \in Nat /\ latest \in Nat
      /\ fetch.tally.total \in Nat
      /\ \A v \in Visits : cast[v].tally.total \in Nat
  BY TotalType
<1>1. CASE OthersVote
  BY <1>1 DEF OthersVote
<1>2. ASSUME NEW n \in Handlers, ReadTally(n) PROVE OwnInv'
  BY <1>2 DEF ReadTally
<1>3. ASSUME NEW n \in Handlers, Publish(n) PROVE OwnInv'
  <2>1. UNCHANGED <<kind, loaded, fetch, mounted, own, visit, inbox, shown, joined, latest>>
    BY <1>3 DEF Publish
  <2>2. \A v \in Visits : cast'[v] = cast[v] \/ cast[v].state = "taken"
    BY <1>3 DEF Publish, Answer
  <2> QED BY <2>1, <2>2
<1>4. ASSUME NEW n \in Handlers, HandlerFails(n) PROVE OwnInv'
  <2>1. UNCHANGED <<kind, loaded, fetch, mounted, own, visit, inbox, shown, joined, latest>>
    BY <1>4 DEF HandlerFails
  <2>2. \A v \in Visits : cast'[v] = cast[v] \/ cast[v].state = "taken"
    BY <1>4 DEF HandlerFails, Answer
  <2> QED BY <2>1, <2>2
<1>5. CASE Broadcast
  <2>1. UNCHANGED <<kind, loaded, fetch, mounted, own, cast, visit, shown, joined>>
    BY <1>5 DEF Broadcast
  <2>2. ASSUME mounted, inbox'[visit] = <<>> PROVE ~joined[visit] /\ inbox[visit] = <<>>
    <3>1. inbox[visit] \in Seq(Tallies(Counts)) /\ Head(channel) \in Tallies(Counts)
      <4>1. visit \in Visits /\ channel \in Seq(Tallies(Counts)) /\ channel # <<>>
        BY <1>5, <2>2 DEF Broadcast
      <4> QED BY <4>1
    <3>2. Append(inbox[visit], Head(channel)) # <<>>
      <4>1. Len(Append(inbox[visit], Head(channel))) = Len(inbox[visit]) + 1
        BY <3>1
      <4>2. Len(inbox[visit]) \in Nat /\ Len(<<>>) = 0
        BY <3>1
      <4>3. Len(Append(inbox[visit], Head(channel))) # Len(<<>>)
        BY <4>1, <4>2
      <4> QED BY <4>3, Zenon
    <3>3. inbox'[visit] = IF joined[visit] THEN Append(inbox[visit], Head(channel))
                                           ELSE inbox[visit]
      BY <1>5, <2>2 DEF Broadcast
    <3> QED BY <2>2, <3>2, <3>3
  <2> QED BY <2>1, <2>2
<1>6. ASSUME NEW v \in Visits, ResponseLost(v) PROVE OwnInv'
  BY <1>6 DEF ResponseLost
<1>7. CASE ServeFetch
  BY <1>7 DEF ServeFetch
<1>8. ASSUME NEW v \in Visits, ServeCast(v) PROVE OwnInv'
  <2>1. /\ UNCHANGED <<kind, loaded, fetch, mounted, own, visit, inbox, shown, joined, latest>>
        /\ \A w \in Visits : cast'[w] = cast[w] \/ cast[w].state = "asked"
    BY <1>8 DEF ServeCast
  <2> QED BY <2>1
<1>9. CASE Mount
  <2>1. PICK w \in Visits : visit' = w /\ w > visit
    BY <1>9 DEF Mount
  <2>2. own = 0 /\ ~loaded /\ UNCHANGED <<own, loaded, shown, cast>>
    BY <1>9 DEF Mount
  <2>3. cast[w].state = "none"
    BY <2>1 DEF LinkInv
  <2>4. ~(own' > 0) /\ shown'.total >= own' /\ cast'[visit'].state = "none"
    BY <1>n, <2>1, <2>2, <2>3
  <2>5. mounted' /\ ~loaded'
    BY <1>9, <2>2 DEF Mount
  <2> QED BY <2>4, <2>5
<1>10. CASE Refetch
  BY <1>10 DEF Refetch, OnAudienceScreen
<1>11. CASE FetchArrives
  <2>1. /\ fetch'.state = "none" /\ mounted /\ loaded' /\ shown' = fetch.tally
        /\ UNCHANGED <<kind, mounted, own, cast, visit>>
    BY <1>11 DEF FetchArrives, NoReply, Bare, Reply, SocketInv
  <2>2. own = 0 /\ cast[visit].state = "none"
    BY <1>11, <1>n, <2>1 DEF FetchArrives
  <2>3. shown'.total >= own'
    BY <1>n, <2>1, <2>2
  <2> QED BY <1>n, <2>1, <2>2, <2>3
<1>12. CASE FetchFails
  BY <1>12 DEF FetchFails, NoReply, Bare, Reply
<1>13. CASE Leave
  BY <1>13 DEF Leave
<1>14. CASE Submit
  BY <1>14 DEF Submit, Offered, Ready
<1>15. ASSUME NEW v \in Visits, CastArrives(v) PROVE OwnInv'
  <2> USE DEF NoReply, Bare, Reply
  <2>1. UNCHANGED <<kind, loaded, fetch, mounted, visit, inbox, joined, latest>>
    BY <1>15 DEF CastArrives
  <2>2. cast' = [cast EXCEPT ![v] = NoReply]
    BY <1>15 DEF CastArrives
  <2>3. CASE Current(v) /\ cast[v].state = "answered"
    <3>1. shown' = cast[v].tally /\ own' = cast[v].tally.total
      BY <1>15, <2>3 DEF CastArrives
    <3>2. mounted /\ v = visit
      BY <2>3 DEF Current
    <3>3. kind = "vote" /\ loaded
      BY <2>3, <3>2
    <3>4. shown'.total >= own'
      BY <1>n, <3>1, <3>2
    <3> QED BY <2>1, <3>2, <3>3, <3>4
  <2>4. CASE ~(Current(v) /\ cast[v].state = "answered")
    <3>1. UNCHANGED <<shown, own>>
      BY <1>15, <2>4 DEF CastArrives
    <3>2. \A w \in Visits : cast'[w].state # "none" => cast[w].state # "none"
      BY <2>2
    <3> QED BY <2>1, <3>1, <3>2
  <2> QED BY <2>3, <2>4
<1>16. ASSUME NEW v \in Visits, Opened(v) PROVE OwnInv'
  BY <1>16 DEF Opened
<1>17. ASSUME NEW v \in Visits, Join(v) PROVE OwnInv'
  BY <1>17 DEF Join
<1>18. ASSUME NEW v \in Visits, Receive(v) PROVE OwnInv'
  <2>1. /\ UNCHANGED <<kind, loaded, fetch, mounted, visit, own, cast, joined, latest>>
        /\ inbox' = [inbox EXCEPT ![v] = Tail(@)] /\ shown' = Head(inbox[v])
    BY <1>18 DEF Receive
  <2>2. mounted /\ v = visit
    BY <1>18 DEF Receive, SocketInv, NothingOutlivesItsPage, Current
  <2>3. inbox[v] \in Seq(Tallies(Counts)) /\ inbox[v] # <<>> /\ NoVotes \in Tallies(Counts)
    BY <1>18, TallyType DEF Receive
  <2>4. Tail(inbox[v]) = <<>> => Head(inbox[v]) = inbox[v][Len(inbox[v])]
    BY <2>3, LastOf
  <2>5. joined[v] /\ latest > 0 /\ inbox[v][Len(inbox[v])].total = latest
    BY <2>3 DEF LinkInv
  <2>6. inbox'[v] = Tail(inbox[v])
    BY <2>1
  <2>7. inbox'[visit] = <<>> => shown'.total = latest
    BY <2>1, <2>2, <2>4, <2>5, <2>6
  <2> QED BY <2>1, <2>2, <2>5, <2>7
<1>19. ASSUME NEW v \in Visits, Lost(v) PROVE OwnInv'
  <2>1. /\ UNCHANGED <<kind, loaded, fetch, mounted, visit, shown, cast, latest>>
        /\ inbox' = [inbox EXCEPT ![v] = <<>>] /\ joined' = [joined EXCEPT ![v] = FALSE]
        /\ own' = IF Current(v) THEN 0 ELSE own
    BY <1>19 DEF Lost
  <2>2. CASE Current(v)
    <3>1. own' = 0 /\ mounted /\ shown'.total >= own' /\ ~(own' > 0)
      BY <1>n, <2>1, <2>2 DEF Current
    <3> QED BY <2>1, <3>1
  <2>3. CASE ~Current(v)
    <3>1. own' = own /\ (mounted => /\ inbox'[visit] = inbox[visit]
                                   /\ joined'[visit] = joined[visit])
      BY <2>1, <2>3 DEF Current
    <3> QED BY <2>1, <3>1
  <2> QED BY <2>2, <2>3
<1>20. ASSUME NEW v \in Visits, Reconnect(v) PROVE OwnInv'
  BY <1>20 DEF Reconnect
<1>21. CASE UNCHANGED vars
  BY <1>21 DEF vars
<1> QED
  BY <1>1, <1>2, <1>3, <1>4, <1>5, <1>6, <1>7, <1>8, <1>9, <1>10, <1>11, <1>12, <1>13,
     <1>14, <1>15, <1>16, <1>17, <1>18, <1>19, <1>20, <1>21
  DEF Next, Rest

\* However a vote's response and the events of the votes around it cross, which may be
\* read in one order and broadcast in another, a page at rest that did not lose its
\* connection shows a tally that has its vote in it, or else the event broadcast last.
THEOREM OwnVoteShownHolds == Spec => []OwnVoteShown
<1>1. Init => LinkInv /\ OwnInv
  BY DEF Init, LinkInv, OwnInv, NoReply, Bare, Reply, Idle, Work, NoVotes
<1>2. /\ TypeOK /\ SocketInv /\ SocketInv' /\ LinkInv /\ OwnInv /\ [Next]_vars
      => LinkInv' /\ OwnInv'
  BY LinkStep, OwnStep
<1>3. TypeOK /\ SocketInv /\ LinkInv /\ OwnInv => OwnVoteShown
  <2> SUFFICES ASSUME TypeOK, SocketInv, LinkInv, OwnInv, AtRest, Charted
               PROVE  shown.total >= own \/ (latest > 0 /\ shown.total = latest)
    BY DEF OwnVoteShown
  <2>1. mounted /\ visit \in Visits
    BY DEF Charted, Ready, TypeOK
  <2>2. inbox[visit] = <<>>
    BY <2>1 DEF AtRest, LinkInv
  <2> QED BY <2>1, <2>2 DEF OwnInv
<1> QED BY <1>1, <1>2, <1>3, PageTypeCorrect, SocketInvariant, PTL DEF Spec

-----------------------------------------------------------------------------
(* The chart.                                                              *)

SoundTallies == {t \in Tallies(Counts) : Sound(t)}

\* Whatever the browser shows or is sent, results and total were counted together.
SoundInv ==
    /\ tally \in SoundTallies
    /\ \A n \in Handlers : handler[n].tally \in SoundTallies
    /\ channel \in Seq(SoundTallies)
    /\ shown \in SoundTallies
    /\ fetch.tally \in SoundTallies
    /\ \A v \in Visits : /\ cast[v].tally \in SoundTallies
                         /\ inbox[v] \in Seq(SoundTallies)

LEMMA SoundNone ==
    /\ NoVotes \in SoundTallies
    /\ NoReply.tally = NoVotes /\ Asked.tally = NoVotes /\ Idle.tally = NoVotes
    /\ \A s : Bare(s).tally = NoVotes
BY TallyType, NoVotesSound DEF SoundTallies, NoReply, Asked, Bare, Reply, Idle, Work

LEMMA SoundCount ==
    ASSUME TypeOK, SoundInv, NEW o \in Options, NEW from \in 0 .. MaxVisits, CountVote(o, from)
    PROVE  /\ tally' \in SoundTallies
           /\ \A n \in Handlers : handler'[n].tally \in SoundTallies
<1>1. tally' = Counted(tally, o) /\ Counted(tally, o) \in SoundTallies
  <2>1. tally \in Tallies(Nat) /\ Sound(tally)
    BY PageAssumption DEF SoundInv, SoundTallies, Tallies, Counts
  <2> QED BY <2>1, CountType, CountedSound DEF SoundTallies
<1>2. \A n \in Handlers : handler'[n].tally \in {handler[n].tally, NoVotes}
  BY DEF TypeOK, CountVote, Work
<1> QED BY <1>1, <1>2, SoundNone DEF SoundInv

\* The last step of a handler whose answer is sound.
LEMMA SoundAnswer ==
    ASSUME TypeOK, SoundInv, NEW n \in Handlers, NEW reply \in Replies,
           reply.tally \in SoundTallies, Answer(n, reply)
    PROVE  /\ \A k \in Handlers : handler'[k].tally \in SoundTallies
           /\ \A v \in Visits : cast'[v].tally \in SoundTallies
<1>1. \A k \in Handlers : handler'[k] \in {handler[k], Idle}
  BY DEF Answer, TypeOK
<1>2. \A v \in Visits : cast'[v] \in {cast[v], reply}
  BY DEF Answer
<1> QED BY <1>1, <1>2, SoundNone DEF SoundInv

LEMMA SoundStep ==
    ASSUME TypeOK, SoundInv, [Next]_vars
    PROVE  SoundInv'
<1> USE PageAssumption DEF SoundInv, votes, stream, server, hook, link
<1>t. /\ cast \in [Visits -> Replies]
      /\ handler \in [Handlers -> Works]
      /\ inbox \in [Visits -> Seq(Tallies(Counts))]
  BY DEF TypeOK
<1>1. CASE OthersVote
  <2>1. PICK o \in Options : CountVote(o, 0)
    BY <1>1 DEF OthersVote
  <2>2. 0 \in 0 .. MaxVisits
    OBVIOUS
  <2>3. tally' \in SoundTallies /\ \A n \in Handlers : handler'[n].tally \in SoundTallies
    BY <2>1, <2>2, SoundCount
  <2> QED BY <1>1, <2>3 DEF OthersVote
<1>2. ASSUME NEW n \in Handlers, ReadTally(n) PROVE SoundInv'
  <2>1. \A k \in Handlers : handler'[k].tally \in {handler[k].tally, tally}
    BY <1>t, <1>2 DEF ReadTally, Work
  <2> QED BY <1>2, <2>1 DEF ReadTally
<1>3. ASSUME NEW n \in Handlers, Publish(n) PROVE SoundInv'
  <2>1. Reply("answered", handler[n].tally, TRUE, FALSE) \in Replies
    BY AnswerType, ReplyType
  <2>2. Reply("answered", handler[n].tally, TRUE, FALSE).tally \in SoundTallies
    BY DEF Reply
  <2>3. /\ \A k \in Handlers : handler'[k].tally \in SoundTallies
        /\ \A v \in Visits : cast'[v].tally \in SoundTallies
    BY <1>3, <2>1, <2>2, SoundAnswer DEF Publish
  <2>4. channel' \in Seq(SoundTallies)
    BY <1>3 DEF Publish
  <2> QED BY <1>3, <2>3, <2>4 DEF Publish
<1>4. ASSUME NEW n \in Handlers, HandlerFails(n) PROVE SoundInv'
  <2>1. /\ \A k \in Handlers : handler'[k].tally \in SoundTallies
        /\ \A v \in Visits : cast'[v].tally \in SoundTallies
    BY <1>4, ReplyType, SoundNone, SoundAnswer DEF HandlerFails
  <2> QED BY <1>4, <2>1 DEF HandlerFails
<1>5. CASE Broadcast
  <2>1. Head(channel) \in SoundTallies /\ channel' \in Seq(SoundTallies)
    BY <1>5 DEF Broadcast
  <2>2. \A v \in Visits : inbox'[v] \in Seq(SoundTallies)
    BY <1>5, <2>1 DEF Broadcast
  <2> QED BY <1>5, <2>1, <2>2 DEF Broadcast
<1>6. ASSUME NEW v \in Visits, ResponseLost(v) PROVE SoundInv'
  <2>1. /\ UNCHANGED <<tally, handler, channel, shown, fetch, inbox>>
        /\ cast' = [cast EXCEPT ![v] = Bare("failed")]
    BY <1>6 DEF ResponseLost
  <2>2. \A w \in Visits : cast'[w].tally \in SoundTallies
    BY <1>t, <2>1, SoundNone
  <2> QED BY <2>1, <2>2
<1>7. CASE ServeFetch
  <2>1. fetch'.tally \in SoundTallies
    BY <1>7, SoundNone DEF ServeFetch, Reply
  <2> QED BY <1>7, <2>1 DEF ServeFetch
<1>8. ASSUME NEW v \in Visits, ServeCast(v) PROVE SoundInv'
  <2>1. UNCHANGED <<shown, fetch, inbox, channel>>
    BY <1>8 DEF ServeCast
  <2>2. \A w \in Visits : cast'[w].tally \in SoundTallies
    <3>1. PICK s : cast' = [cast EXCEPT ![v] = Bare(s)]
      BY <1>8 DEF ServeCast
    <3> QED BY <1>t, <3>1, SoundNone
  <2>3. CASE UNCHANGED <<tally, handler>>
    BY <2>1, <2>2, <2>3
  <2>4. ASSUME NEW o \in OwnOptions, CountVote(o, v) PROVE SoundInv'
    <3>1. o \in Options /\ v \in 0 .. MaxVisits
      BY DEF Visits
    <3>2. tally' \in SoundTallies /\ \A n \in Handlers : handler'[n].tally \in SoundTallies
      BY <2>4, <3>1, SoundCount
    <3> QED BY <2>1, <2>2, <3>2
  <2> QED BY <1>8, <2>3, <2>4 DEF ServeCast
<1>9. CASE Mount
  BY <1>9, SoundNone DEF Mount
<1>10. CASE Refetch
  BY <1>10, SoundNone DEF Refetch
<1>11. CASE FetchArrives
  BY <1>11, SoundNone DEF FetchArrives
<1>12. CASE FetchFails
  BY <1>12, SoundNone DEF FetchFails
<1>13. CASE Leave
  <2>1. /\ UNCHANGED <<tally, handler, channel, cast>> /\ fetch' = NoReply /\ shown' = NoVotes
        /\ inbox' = [inbox EXCEPT ![visit] = <<>>]
    BY <1>13 DEF Leave, Disconnect
  <2>2. \A w \in Visits : inbox'[w] \in Seq(SoundTallies)
    BY <1>t, <2>1
  <2> QED BY <2>1, <2>2, SoundNone
<1>14. CASE Submit
  <2>1. UNCHANGED <<tally, handler, channel, shown, fetch, inbox>> /\ cast' = [cast EXCEPT ![visit] = Asked]
    BY <1>14 DEF Submit
  <2>2. \A w \in Visits : cast'[w].tally \in SoundTallies
    BY <1>t, <2>1, SoundNone
  <2> QED BY <2>1, <2>2
<1>15. ASSUME NEW v \in Visits, CastArrives(v) PROVE SoundInv'
  <2>1. /\ UNCHANGED <<tally, handler, channel, fetch, inbox>> /\ cast' = [cast EXCEPT ![v] = NoReply]
        /\ shown' \in {shown, cast[v].tally}
    BY <1>15 DEF CastArrives
  <2>2. \A w \in Visits : cast'[w].tally \in SoundTallies
    BY <1>t, <2>1, SoundNone
  <2> QED BY <2>1, <2>2
<1>16. ASSUME NEW v \in Visits, Opened(v) PROVE SoundInv'
  BY <1>16 DEF Opened
<1>17. ASSUME NEW v \in Visits, Join(v) PROVE SoundInv'
  BY <1>17 DEF Join
<1>18. ASSUME NEW v \in Visits, Receive(v) PROVE SoundInv'
  <2>1. /\ UNCHANGED <<tally, handler, channel, fetch, cast>> /\ inbox' = [inbox EXCEPT ![v] = Tail(@)]
        /\ shown' = Head(inbox[v]) /\ inbox[v] # <<>>
    BY <1>18 DEF Receive
  <2>2. Head(inbox[v]) \in SoundTallies /\ Tail(inbox[v]) \in Seq(SoundTallies)
    BY <2>1
  <2>3. \A w \in Visits : inbox'[w] \in Seq(SoundTallies)
    BY <1>t, <2>1, <2>2
  <2> QED BY <2>1, <2>2, <2>3
<1>19. ASSUME NEW v \in Visits, Lost(v) PROVE SoundInv'
  <2>1. UNCHANGED <<tally, handler, channel, shown, fetch, cast>> /\ inbox' = [inbox EXCEPT ![v] = <<>>]
    BY <1>19 DEF Lost
  <2>2. \A w \in Visits : inbox'[w] \in Seq(SoundTallies)
    BY <1>t, <2>1
  <2> QED BY <2>1, <2>2
<1>20. ASSUME NEW v \in Visits, Reconnect(v) PROVE SoundInv'
  BY <1>20 DEF Reconnect
<1>21. CASE UNCHANGED vars
  BY <1>21 DEF vars
<1> QED
  BY <1>1, <1>2, <1>3, <1>4, <1>5, <1>6, <1>7, <1>8, <1>9, <1>10, <1>11, <1>12, <1>13,
     <1>14, <1>15, <1>16, <1>17, <1>18, <1>19, <1>20, <1>21
  DEF Next, Rest

\* Though responses and events cross, the chart on the screen is always of one tally:
\* its percentages add up to 100 but for the rounding, and its leaders lead.
THEOREM ChartAddsUpHolds == Spec => []ChartAddsUp
<1>1. Init => SoundInv
  BY SoundNone DEF Init, SoundInv
<1>2. TypeOK /\ SoundInv /\ [Next]_vars => SoundInv'
  BY SoundStep
<1>3. SoundInv => ChartAddsUp
  <2>1. SoundInv => shown \in Tallies(Nat) /\ Sound(shown)
    BY PageAssumption DEF SoundInv, SoundTallies, Tallies, Counts
  <2> QED BY <2>1, SoundDrawsATally DEF ChartAddsUp
<1> QED BY <1>1, <1>2, <1>3, PageTypeCorrect, PTL DEF Spec

===============================================================================
