--------------------------- MODULE VoteController ---------------------------
(***************************************************************************)
(* controllers/vote_controller.go: CastVote and GetResults, one action per *)
(* store call.  A call that fails (the store is down, or the client went   *)
(* away and its request context is cancelled) has an error disjunct, with  *)
(* the handler's own treatment of that error.                              *)
(***************************************************************************)
EXTENDS TallyReader

(* CastVote.  Lines 42-85: bind the body, look the poll up and validate    *)
(* the vote.  A body that does not bind is 400 whatever the poll.          *)

Accepts_AnyStatus(status, option) == ~expired /\ option \in Options

Accepts(status, option) ==
    /\ status = "active"
    /\ ~expired
    /\ option \in Options

CastFind(r) ==
    /\ Arrive(r)
    /\ \E c \in Clients, option \in Choices, status \in FindByID(r) :
         /\ arg' = [arg EXCEPT ![r] = [option |-> option, fp |-> c.fp, ip |-> c.ip]]
         /\ \/ Answer(r, 400)
            \/ /\ status \in {"deleted", "error"}
               /\ Answer(r, 404)
            \/ /\ status \in {"active", "closed"}
               /\ ~Accepts(status, option)
               /\ Answer(r, 400)
            \/ /\ status \in {"active", "closed"}
               /\ Accepts(status, option)
               /\ Goto(r, "sismember")
    /\ UNCHANGED <<stores, snap, idx, voted>>

(* CheckAndRecordVoter: SISMEMBER, then SADD as a second command.          *)

CastIsMember(r) ==
    /\ pc[r] = "sismember"
    /\ LET id == VoterIdentifier(arg[r]) IN
         \/ /\ id \in voters \ {Empty}
            /\ Answer(r, 409)
         \/ /\ id \notin voters \cup {Empty}
            /\ Goto(r, "sadd")
         \/ /\ id = Empty \/ r \in FlakyRedis
            /\ Goto(r, "hasVoted")
    /\ UNCHANGED <<stores, arg, snap, idx, voted, before>>

CastAdd(r) ==
    /\ pc[r] = "sadd"
    /\ \/ voters' = voters \cup {VoterIdentifier(arg[r])}
       \/ r \in FlakyRedis /\ UNCHANGED voters
    /\ Goto(r, "hasVoted")
    /\ UNCHANGED <<poll, expired, votes, counts, event, arg, snap, idx, voted, before>>

(* HasUserVoted: its error lets the vote through (line 108).               *)

CastHasVoted(r) ==
    /\ pc[r] = "hasVoted"
    /\ \/ /\ HasUserVoted(arg[r].fp, arg[r].ip)
          /\ Answer(r, 409)
       \/ /\ ~HasUserVoted(arg[r].fp, arg[r].ip) \/ r \in FlakyMongo
          /\ Goto(r, "insert")
    /\ UNCHANGED <<stores, arg, snap, idx, voted, before>>

(* The insert may have been applied although it reports an error.          *)

CastInsert_Unchecked(r) ==
    /\ pc[r] = "insert"
    /\ votes' \in {votes \cup {r}} \cup (IF r \in FlakyMongo THEN {votes} ELSE {})
    /\ Goto(r, "hincrby")
    /\ UNCHANGED <<poll, expired, counts, voters, event, arg, snap, idx, voted, before>>

CastInsert(r) ==
    /\ pc[r] = "insert"
    /\ \/ /\ votes' = votes \cup {r}
          /\ Goto(r, "hincrby")
       \/ /\ r \in FlakyMongo
          /\ votes' \in {votes, votes \cup {r}}
          /\ Answer(r, 500)
    /\ UNCHANGED <<poll, expired, counts, voters, event, arg, snap, idx, voted, before>>

CastIncrement(r) ==
    /\ pc[r] = "hincrby"
    /\ \/ counts' = HIncrBy(arg[r].option)
       \/ r \in FlakyRedis /\ UNCHANGED counts
    /\ Goto(r, "hgetall")
    /\ UNCHANGED <<poll, expired, votes, voters, event, arg, snap, idx, voted, before>>

(* Lines 133-139: an error leaves a nil map, the write to it panics, and   *)
(* gin's recovery answers 500.                                             *)

CastGetVotes(r) ==
    /\ pc[r] = "hgetall"
    /\ \/ /\ snap' = [snap EXCEPT ![r] = Fill(counts)]
          /\ Goto(r, "publish")
       \/ /\ r \in FlakyRedis
          /\ Answer(r, 500)
          /\ UNCHANGED snap
    /\ UNCHANGED <<stores, arg, idx, voted, before>>

CastPublish(r) ==
    /\ pc[r] = "publish"
    /\ \/ event' = snap[r]
       \/ r \in FlakyRedis /\ UNCHANGED event
    /\ Answer(r, 200)
    /\ UNCHANGED <<poll, expired, votes, counts, voters, arg, snap, idx, voted, before>>

CastStep(r) ==
    \/ CastIsMember(r)
    \/ CastAdd(r)
    \/ CastHasVoted(r)
    \/ CastInsert(r)
    \/ CastIncrement(r)
    \/ CastGetVotes(r)
    \/ CastPublish(r)

-----------------------------------------------------------------------------
(* GetResults: the tally is read by ReadStep.                              *)

ResultsFind(r) ==
    /\ Arrive(r)
    /\ \E status \in FindByID(r) :
         \/ status \in {"deleted", "error"} /\ Answer(r, 404)
         \/ status \in {"active", "closed"} /\ Goto(r, "readCounts")
    /\ UNCHANGED <<stores, arg, snap, idx, voted>>

=============================================================================
