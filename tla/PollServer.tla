----------------------------- MODULE PollServer -----------------------------
(***************************************************************************)
(* The backend serving one poll: every handler of the two controllers      *)
(* running concurrently over MongoDB and Redis, the clock passing          *)
(* expires_at, Redis losing keys, and the process dying.                   *)
(***************************************************************************)
EXTENDS VoteController, PollController

Steps == {"idle", "sismember", "sadd", "hasVoted", "insert", "hincrby",
          "hgetall", "publish", "readCounts", "aggregate", "sync", "readVoted",
          "listCounts", "listAggregate", "setStatus", "deletePoll",
          "deleteVotes", "delCounts", "delVoters", "hsetnx", "done"}

Init ==
    /\ poll = "none"
    /\ expired = FALSE
    /\ votes = {}
    /\ counts = NoFields
    /\ voters = {}
    /\ event = NoFields
    /\ pc = [r \in Requests |-> "idle"]
    /\ arg = [r \in Requests |-> [option |-> 0, fp |-> Empty, ip |-> Empty]]
    /\ snap = [r \in Requests |-> NoFields]
    /\ idx = [r \in Requests |-> 1]
    /\ resp = [r \in Requests |-> 0]
    /\ voted = {}
    /\ before = [r \in Requests |-> {}]

-----------------------------------------------------------------------------
(* What happens around the handlers.                                       *)

requests == <<pc, arg, snap, idx, resp, voted, before>>

Expire ==
    /\ MayExpire
    /\ poll \in {"active", "closed"}
    /\ ~expired
    /\ expired' = TRUE
    /\ UNCHANGED <<poll, votes, counts, voters, event, requests>>

EvictCounts ==
    /\ MayEvict
    /\ counts # NoFields
    /\ counts' = NoFields
    /\ UNCHANGED <<poll, expired, votes, voters, event, requests>>

EvictVoters ==
    /\ MayEvict
    /\ voters # {}
    /\ voters' = {}
    /\ UNCHANGED <<poll, expired, votes, counts, event, requests>>

InFlight(r) == pc[r] \notin {"idle", "done"}

\* The handlers live in the process only: the ones at work are gone, without
\* an answer.  What the stores hold stays.
Crash ==
    /\ MayCrash
    /\ \E r \in Requests : InFlight(r)
    /\ pc' = [r \in Requests |-> IF InFlight(r) THEN "done" ELSE pc[r]]
    /\ UNCHANGED <<stores, arg, snap, idx, resp, voted, before>>

\* No request is at work and none need come.
Rest ==
    /\ \A r \in Requests : ~InFlight(r)
    /\ UNCHANGED vars

-----------------------------------------------------------------------------

Arrivals ==
    \/ CreateInsert(CreateReq)
    \/ \E r \in CastReqs : CastFind(r)
    \/ \E r \in ResultsReqs : ResultsFind(r)
    \/ \E r \in LoadReqs : LoadFind(r)
    \/ \E r \in ListReqs : ListFind(r)
    \/ \E r \in CloseReqs \cup ReopenReqs : StatusFind(r)
    \/ \E r \in DeleteReqs : DeleteFind(r)

Advance(r) ==
    \/ CreateInit(r)
    \/ CastStep(r)
    \/ ReadStep(r)
    \/ LoadHasVoted(r)
    \/ ListCounts(r)
    \/ ListAggregate(r)
    \/ StatusSet(r)
    \/ DeleteStep(r)

Next ==
    \/ Arrivals
    \/ \E r \in Requests : Advance(r)
    \/ Expire
    \/ EvictCounts
    \/ EvictVoters
    \/ Crash
    \/ Rest

Spec == Init /\ [][Next]_vars

\* net/http runs each handler to its end; nobody has to send a request.
FairSpec == Spec /\ \A r \in Requests : WF_vars(Advance(r))

-----------------------------------------------------------------------------
(* Type invariant.  No handler is between calls it does not make: a vote   *)
(* document, a voter or a has_voted flag belongs to a request of its kind. *)

TypeOK ==
    /\ poll \in {"none", "active", "closed", "deleted"}
    /\ expired \in BOOLEAN
    /\ votes \subseteq CastReqs
    /\ counts \in Tallies
    /\ voters \subseteq (Fingerprints \cup IPs) \ {Empty}
    /\ event \in Tallies
    /\ pc \in [Requests -> Steps]
    /\ arg \in [Requests -> [option : 0 .. NumOptions,
                             fp : Fingerprints \cup {Empty},
                             ip : IPs \cup {Empty}]]
    /\ snap \in [Requests -> Tallies]
    /\ idx \in [Requests -> Options]
    /\ resp \in [Requests -> {0, 200, 201, 400, 403, 404, 409, 500}]
    /\ voted \subseteq LoadReqs
    /\ before \in [Requests -> SUBSET Requests]

-----------------------------------------------------------------------------
(* Words of the properties.                                                *)

Quiet == \A r \in Requests : ~InFlight(r)

Alive == poll \in {"active", "closed"}

\* Redis forgets nothing, and the stores fail no call that another request depends
\* on: in GetMyPolls any, in a read of the tally those on Redis.  The server may die.
StoresSound ==
    /\ FlakyMongo \subseteq ListReqs
    /\ FlakyRedis \subseteq ListReqs \cup ResultsReqs \cup LoadReqs
    /\ ~MayEvict

\* d has begun to delete: it may have removed votes already.
Deleting(d) == pc[d] \notin {"idle", "deletePoll"} /\ resp[d] \notin {403, 404}

NoDelete == \A d \in DeleteReqs : ~Deleting(d)

Accepted(r) == r \in CastReqs /\ resp[r] = 200

\* The sender of r is known by fingerprint, else by address.
SameSender(v, r) ==
    IF arg[r].fp # Empty THEN arg[v].fp = arg[r].fp
                         ELSE arg[r].ip # Empty /\ arg[v].ip = arg[r].ip

\* A vote of the sender of r was accepted before r arrived.
VotedBefore(r) == \E v \in before[r] : Accepted(v) /\ SameSender(v, r)

\* These requests came after the response to the poll's creation gave its id.
KnowId(reqs) == \A r \in reqs : pc[r] # "idle" => CreateReq \in before[r]

ReadersKnowId == KnowId(ResultsReqs \cup LoadReqs)

\* Of r and any vote, one was answered before the other came.
OverlapsNoVote(r) ==
    \A v \in CastReqs : pc[v] = "idle" \/ v \in before[r] \/ r \in before[v]

\* A read may sync the hash when it came before the id of the poll was known, or when
\* its HGETALL may fail.  Such reads overlap no vote: a sync undoes the HINCRBY that
\* comes between its aggregation and its HSETs.
SeedsApart ==
    \A r \in ResultsReqs \cup LoadReqs :
        \/ pc[r] = "idle"
        \/ CreateReq \in before[r] /\ r \notin FlakyRedis
        \/ OverlapsNoVote(r)

-----------------------------------------------------------------------------
(* What the responses promise about MongoDB, whatever fails.               *)

\* A vote answered 200 is stored, and stays so until its poll is deleted; a
\* vote refused with 400, 404 or 409 never is, whichever calls failed and
\* wherever the process died (vote_controller.go:57-123).
AnswersTellStorage ==
    \A r \in CastReqs :
        /\ resp[r] = 200 /\ NoDelete => r \in votes
        /\ resp[r] \in {400, 404, 409} => r \notin votes

\* Who got 200 for a vote cannot vote again later, even if Redis fails or has
\* forgotten its voters: the second tier finds the stored vote
\* (vote_controller.go:106-111, vote_repo.go:53-78).
NoRepeatAfterAnswer ==
    NoDelete =>
        \A r \in CastReqs \ FlakyMongo : VotedBefore(r) => r \notin votes

\* A page loaded by someone whose vote was answered says has_voted
\* (poll_controller.go:233-235).
PageKnowsVoter ==
    NoDelete =>
        \A r \in LoadReqs \ FlakyMongo :
            resp[r] = 200 /\ VotedBefore(r) => r \in voted

\* No vote that arrives after a close was answered is stored, unless a reopen
\* has been at work (vote_controller.go:63-66).
ClosedRefusesLaterVotes ==
    \A r \in CastReqs : \A c \in before[r] \cap CloseReqs :
        /\ resp[c] = 200
        /\ \A o \in ReopenReqs : pc[o] \in {"idle"} \/ resp[o] \in {400, 403, 404}
        => r \notin votes

\* Nor is one that arrives after any request was told that the poll is not there,
\* however little of the delete was done; a lookup that fails is answered 404, too,
\* and tells nothing.  Nor does the 200 of the delete itself promise anything: the
\* errors of its four calls are dropped (poll_controller.go:308-326).
MissingPollTakesNoVote ==
    \A r \in CastReqs : \A q \in before[r] \ FlakyMongo :
        resp[q] = 404 => r \notin votes

\* A deleted poll is never back, although UpdatePollStatus writes to a poll it
\* has looked up in an earlier call (poll_controller.go:263-280).
DeletedForGood == [][poll = "deleted" => poll' = "deleted"]_vars

-----------------------------------------------------------------------------
(* The poll of a client who knows nothing of handlers and stores.          *)

Phase ==
    CASE poll = "none"                  -> "none"
      [] poll = "deleted"               -> "gone"
      [] poll = "active" /\ ~expired    -> "open"
      [] OTHER                          -> "closed"

Admitted  == {r \in CastReqs : pc[r] # "idle" /\ resp[r] \notin {400, 404}}
Confirmed == {r \in CastReqs : resp[r] = 200}
Refused   == {r \in CastReqs : resp[r] \in {400, 404, 409}}

B == INSTANCE Ballot WITH
       Ballots <- CastReqs, phase <- Phase, doomed <- ~NoDelete, admitted <- Admitted,
       box <- votes, confirmed <- Confirmed, refused <- Refused

\* The handlers of votes, status changes and deletes, at work at the same time,
\* failing or dying, act as a ballot does (vote_controller.go:35-160,
\* poll_controller.go:248-326).
ImplementsBallot == B!Spec

-----------------------------------------------------------------------------
(* What the cached tally shows while no vote is lost from it: StoresSound  *)
(* and SeedsApart name the cases in which the code loses one.              *)

\* No handler was stopped by the death of the server.
NoneCutShort == \A r \in Requests : pc[r] = "done" => Answered(r)

\* At rest, unless a handler was cut short, the Redis hash of a poll holds exactly the
\* votes MongoDB stores.  The HSETNX of CreatePoll, the increments of concurrent votes,
\* and the syncs of reads that come before the hash is made or whose HGETALL failed
\* neither lose nor add a vote (redis_service.go:33-89, vote_controller.go:182-194).
CountsExact ==
    StoresSound /\ NoneCutShort /\ SeedsApart /\ Alive /\ Quiet =>
        counts = CountVotesByOption

\* Every tally in a response, read from the hash or from MongoDB, has all votes
\* answered before the request came, the vote of the request itself included, and
\* no vote that is not stored.
TallyBracketed ==
    StoresSound /\ SeedsApart /\ Alive =>
        \A r \in Requests \ FlakyMongo, o \in Options :
            snap[r] # NoFields =>
                /\ Cardinality({v \in before[r] \cup {r} :
                                  Accepted(v) /\ arg[v].option = o}) <= snap[r][o]
                /\ snap[r][o] <= Cardinality(VotesFor(o))

\* Who asks again after an answer never sees a count go down, from whichever
\* endpoint, answered from the hash or from MongoDB.  Only GetMyPolls may have been
\* ahead: while Redis counts nothing it answers from MongoDB, which has a vote
\* before Redis does.
TallyMonotone ==
    StoresSound /\ SeedsApart /\ Alive =>
        \A r \in Requests \ FlakyMongo : \A q \in before[r] \ ListReqs :
            snap[q] # NoFields /\ snap[r] # NoFields =>
                \A o \in Options : snap[q][o] <= snap[r][o]

\* The hash comes to agree with MongoDB and then stays so: every handler ends,
\* and none leaves a vote uncounted.
EventuallyExact == <>[](Alive /\ SeedsApart => counts = CountVotesByOption)

-----------------------------------------------------------------------------
(* What the documents and comments say, and the code does not do.          *)

\* "Rejection of ... repeated votes" (README.md:32).  SISMEMBER and SADD are
\* two commands, and the count and the insert two calls.
OneVotePerBrowser ==
    \A r, q \in votes : arg[r].fp = arg[q].fp /\ arg[r].fp # Empty => r = q

\* "If a Redis cache miss occurs on poll lookup, the backend executes an
\* aggregation query on MongoDB `votes` and re-seeds the Redis hash"
\* (README.md:381), so that no vote counts are lost: a vote answered before a
\* successful read shows in it, evictions and failed reads of others or not.
ReadsShowAnsweredVotes ==
    Alive /\ ReadersKnowId /\ KnowId(CastReqs) =>
        \A r \in (ResultsReqs \cup LoadReqs) \ (FlakyMongo \cup FlakyRedis) :
            resp[r] = 200 => \A o \in Options :
                Cardinality({v \in before[r] : Accepted(v) /\ arg[v].option = o})
                    <= snap[r][o]

\* "Live results stream instantly to all connected audience screens"
\* (README.md:15): at rest, the last event shows the final tally.  A handler
\* reads the tally and publishes it in two calls.
LastEventIsFinal ==
    StoresSound /\ ~MayCrash /\ Alive /\ Quiet /\ event # NoFields =>
        event = CountVotesByOption

=============================================================================
