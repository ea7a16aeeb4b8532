---------------------------- MODULE TallyReader ----------------------------
(***************************************************************************)
(* Reading the tally through the cache: GetPollVotes and, on an error or   *)
(* an empty hash, CountVotesByOption and SyncVotesFromDB.  The handlers    *)
(* VoteController.GetResults (lines 182-194) and                           *)
(* PollController.respondWithPollResults (lines 216-230) share these lines *)
(* word for word.                                                          *)
(***************************************************************************)
EXTENDS PollStore

\* The tally is in hand: GetResults answers, a page load asks one thing more.
\* Without a map (nil) the loop that fills in options panics, which is a 500.
TallyRead(r, tally) ==
    \/ tally = NoFields /\ Answer(r, 500)
    \/ tally # NoFields /\ r \in ResultsReqs /\ Answer(r, 200)
    \/ tally # NoFields /\ r \in LoadReqs /\ Goto(r, "readVoted")

CacheHit_SomeVotes == Fill(counts) # Zeros

CacheHit == counts # NoFields

ReadCounts(r) ==
    /\ pc[r] = "readCounts"
    /\ \/ /\ CacheHit
          /\ snap' = [snap EXCEPT ![r] = Fill(counts)]
          /\ TallyRead(r, Fill(counts))
       \/ /\ ~CacheHit \/ r \in FlakyRedis
          /\ Goto(r, "aggregate")
          /\ UNCHANGED snap
    /\ UNCHANGED <<stores, arg, idx, voted, before>>

ReadAggregate(r) ==
    /\ pc[r] = "aggregate"
    /\ \/ snap' = [snap EXCEPT ![r] = CountVotesByOption]
       \/ r \in FlakyMongo /\ UNCHANGED snap
    /\ Goto(r, "sync")
    /\ UNCHANGED <<stores, arg, idx, voted, before>>

\* A sync that adds to what the hash has.
Synced_Adds(r) == Filled(counts[idx[r]]) + Filled(snap[r][idx[r]])

\* The field r writes next; a nil map reads as zeros.
Synced(r) == Filled(snap[r][idx[r]])

\* One HSET of the pipeline.
ReadSync(r) ==
    /\ pc[r] = "sync"
    /\ \/ /\ counts' = HSet(idx[r], Synced(r))
          /\ ~AtLastOption(r)
          /\ idx' = [idx EXCEPT ![r] = @ + 1]
          /\ Goto(r, "sync")
       \/ /\ counts' = HSet(idx[r], Synced(r))
          /\ AtLastOption(r)
          /\ TallyRead(r, snap[r])
          /\ UNCHANGED idx
       \/ /\ r \in FlakyRedis
          /\ TallyRead(r, snap[r])
          /\ UNCHANGED <<counts, idx>>
    /\ UNCHANGED <<poll, expired, votes, voters, event, arg, snap, voted, before>>

ReadStep(r) ==
    \/ ReadCounts(r)
    \/ ReadAggregate(r)
    \/ ReadSync(r)

=============================================================================
