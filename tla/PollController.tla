--------------------------- MODULE PollController ---------------------------
(***************************************************************************)
(* controllers/poll_controller.go: CreatePoll, GetMyPolls, GetPollByID and *)
(* GetPollByShareCode, UpdatePollStatus and DeletePoll, one action per     *)
(* store call.                                                             *)
(***************************************************************************)
EXTENDS TallyReader

(* CreatePoll.  A body that does not bind or validate is 400.  The insert  *)
(* fails, too, when the share code drawn at random is taken already.       *)

CreateInsert(r) ==
    /\ pc[r] = "idle"
    /\ poll = "none"
    /\ \/ /\ Answer(r, 400)
          /\ UNCHANGED poll
       \/ /\ poll' = "active"
          /\ Goto(r, "hsetnx")
       \/ /\ poll' \in {"none"} \cup (IF r \in FlakyMongo THEN {"active"} ELSE {})
          /\ Answer(r, 500)
    /\ UNCHANGED <<expired, votes, counts, voters, event, arg, snap, idx, voted, before>>

\* InitPollVotes, one HSETNX of its pipeline; its error is ignored.
CreateInit(r) ==
    /\ pc[r] = "hsetnx"
    /\ \/ /\ counts' = HSetNX(idx[r])
          /\ ~AtLastOption(r)
          /\ idx' = [idx EXCEPT ![r] = @ + 1]
          /\ Goto(r, "hsetnx")
       \/ /\ counts' = HSetNX(idx[r])
          /\ AtLastOption(r)
          /\ Answer(r, 201)
          /\ UNCHANGED idx
       \/ /\ r \in FlakyRedis
          /\ Answer(r, 201)
          /\ UNCHANGED <<counts, idx>>
    /\ UNCHANGED <<poll, expired, votes, voters, event, arg, snap, voted, before>>

-----------------------------------------------------------------------------
(* GetPollByID and GetPollByShareCode, with respondWithPollResults: the    *)
(* tally is read by the actions of ReadStep, then HasUserVoted is asked.   *)

LoadFind(r) ==
    /\ Arrive(r)
    /\ \E c \in Clients, status \in FindByID(r) :
         /\ arg' = [arg EXCEPT ![r] = [option |-> 0, fp |-> c.fp, ip |-> c.ip]]
         /\ \/ status \in {"deleted", "error"} /\ Answer(r, 404)
            \/ status \in {"active", "closed"} /\ Goto(r, "readCounts")
    /\ UNCHANGED <<stores, snap, idx, voted>>

LoadHasVoted(r) ==
    /\ pc[r] = "readVoted"
    /\ \/ voted' = IF HasUserVoted(arg[r].fp, arg[r].ip) THEN voted \cup {r} ELSE voted
       \/ r \in FlakyMongo /\ UNCHANGED voted
    /\ Answer(r, 200)
    /\ UNCHANGED <<stores, arg, snap, idx, before>>

-----------------------------------------------------------------------------
(* GetMyPolls: a total of zero, for whatever reason, asks MongoDB.  What   *)
(* it finds there is not written back to Redis.                            *)

ListFind(r) ==
    /\ Arrive(r)
    /\ \E status \in FindByID(r) :
         \/ status = "error" /\ Answer(r, 500)
         \/ status = "deleted" /\ Answer(r, 200)
         \/ status \in {"active", "closed"} /\ Goto(r, "listCounts")
    /\ UNCHANGED <<stores, arg, snap, idx, voted>>

ListCounts(r) ==
    /\ pc[r] = "listCounts"
    /\ \/ /\ Fill(counts) # Zeros
          /\ snap' = [snap EXCEPT ![r] = Fill(counts)]
          /\ Answer(r, 200)
       \/ /\ Fill(counts) = Zeros \/ r \in FlakyRedis
          /\ Goto(r, "listAggregate")
          /\ UNCHANGED snap
    /\ UNCHANGED <<stores, arg, idx, voted, before>>

ListAggregate(r) ==
    /\ pc[r] = "listAggregate"
    /\ snap' \in {[snap EXCEPT ![r] = t] :
                    t \in {CountVotesByOption} \cup
                          (IF r \in FlakyMongo THEN {Zeros} ELSE {})}
    /\ Answer(r, 200)
    /\ UNCHANGED <<stores, arg, idx, voted, before>>

-----------------------------------------------------------------------------
(* UpdatePollStatus.  A body that does not bind is 400.  The update        *)
(* finds no document when a delete overtook it, and reports no error.      *)

StatusFind(r) ==
    /\ Start(r)
    /\ \E status \in FindByID(r), user \in Users :
         \/ status \in {"deleted", "error"} /\ Answer(r, 404)
         \/ /\ status \in {"active", "closed"}
            /\ user # "creator"
            /\ Answer(r, 403)
         \/ /\ status \in {"active", "closed"}
            /\ user = "creator"
            /\ Answer(r, 400) \/ Goto(r, "setStatus")
    /\ UNCHANGED <<stores, arg, snap, idx, voted, before>>

Requested(r) == IF r \in CloseReqs THEN "closed" ELSE "active"

StatusSet(r) ==
    /\ pc[r] = "setStatus"
    /\ \/ /\ poll' = UpdateStatus(Requested(r))
          /\ Answer(r, 200)
       \/ /\ r \in FlakyMongo
          /\ poll' \in {poll, UpdateStatus(Requested(r))}
          /\ Answer(r, 500)
    /\ UNCHANGED <<expired, votes, counts, voters, event, arg, snap, idx, voted, before>>

-----------------------------------------------------------------------------
(* DeletePoll: four calls whose errors are all ignored.                    *)

DeleteFind(r) ==
    /\ Start(r)
    /\ \E status \in FindByID(r), user \in Users :
         \/ status \in {"deleted", "error"} /\ Answer(r, 404)
         \/ /\ status \in {"active", "closed"}
            /\ user # "creator"
            /\ Answer(r, 403)
         \/ /\ status \in {"active", "closed"}
            /\ user = "creator"
            /\ Goto(r, "deletePoll")
    /\ UNCHANGED <<stores, arg, snap, idx, voted, before>>

DeletePollDoc(r) ==
    /\ pc[r] = "deletePoll"
    /\ \/ poll' = "deleted"
       \/ r \in FlakyMongo /\ UNCHANGED poll
    /\ Goto(r, "deleteVotes")
    /\ UNCHANGED <<expired, votes, counts, voters, event, arg, snap, idx, voted, before>>

DeleteVotes(r) ==
    /\ pc[r] = "deleteVotes"
    /\ \/ votes' = {}
       \/ r \in FlakyMongo /\ votes' \in SUBSET votes
    /\ Goto(r, "delCounts")
    /\ UNCHANGED <<poll, expired, counts, voters, event, arg, snap, idx, voted, before>>

DeleteCounts(r) ==
    /\ pc[r] = "delCounts"
    /\ \/ counts' = NoFields
       \/ r \in FlakyRedis /\ UNCHANGED counts
    /\ Goto(r, "delVoters")
    /\ UNCHANGED <<poll, expired, votes, voters, event, arg, snap, idx, voted, before>>

DeleteVoters(r) ==
    /\ pc[r] = "delVoters"
    /\ \/ voters' = {}
       \/ r \in FlakyRedis /\ UNCHANGED voters
    /\ Answer(r, 200)
    /\ UNCHANGED <<poll, expired, votes, counts, event, arg, snap, idx, voted, before>>

DeleteStep(r) ==
    \/ DeletePollDoc(r)
    \/ DeleteVotes(r)
    \/ DeleteCounts(r)
    \/ DeleteVoters(r)

=============================================================================
