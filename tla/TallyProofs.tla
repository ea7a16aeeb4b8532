----------------------------- MODULE TallyProofs -----------------------------
(***************************************************************************)
(* The cached tally of PollServer, for every set of requests and every     *)
(* number of options, while the stores forget nothing and no read that     *)
(* syncs the hash overlaps a vote.                                         *)
(***************************************************************************)
EXTENDS BallotProofs

\* What the properties of the tally presume, of the constants and of the past.
Presumed == StoresSound /\ SeedsApart /\ poll # "deleted"

Readers == ResultsReqs \cup LoadReqs

\* Votes for o that are counted for certain, and those that are not for certain.
Counted(o) == {v \in CastReqs : arg[v].option = o /\ (pc[v] \in {"hgetall", "publish"} \/ resp[v] = 200)}
Pending(o) == {v \in votes : arg[v].option = o /\ pc[v] = "hincrby"}

\* The votes a handler has to see: its own, and those answered when it came.
Due(r, o) ==
    {v \in CastReqs : arg[v].option = o /\ (v = r \/ (v \in before[r] /\ resp[v] = 200))}

\* Only these reads may miss the hash: CreatePoll makes it before the id of the poll
\* is known.
MayMiss(r) == CreateReq \notin before[r] \/ r \in FlakyRedis

\* How the hash comes to be there, and who syncs it with what.
HashInv ==
    /\ resp[CreateReq] \in {0, 201, 400, 500}
    /\ pc[CreateReq] = "idle" \/ resp[CreateReq] \in {400, 500} => poll = "none"
    /\ \A o \in Options :
           resp[CreateReq] = 201 \/ (pc[CreateReq] = "hsetnx" /\ o < idx[CreateReq])
               => counts[o] # Absent
    /\ \A r \in Requests :
           /\ pc[r] = "idle" => snap[r] = NoFields /\ idx[r] = 1
           /\ pc[r] \in {"aggregate", "sync"} => MayMiss(r)
           /\ pc[r] = "sync" => snap[r] # NoFields
    /\ \A v \in CastReqs :
           /\ resp[v] \in {0, 200, 400, 404, 409}
           /\ pc[v] \in AfterStore => v \in votes

\* The hash holds the votes that are counted, and no vote that is not stored.
CountInv ==
    \A o \in Options :
        /\ Counted(o) \subseteq votes
        /\ Cardinality(Counted(o)) <= Filled(counts[o])
        /\ Filled(counts[o]) <= Cardinality(VotesFor(o) \ Pending(o))

\* So does a tally read from it, and no later one is less.
SnapInv ==
    \A r \in Requests : snap[r] # NoFields =>
        \A o \in Options :
            /\ r \notin FlakyMongo => /\ Cardinality(Due(r, o)) <= snap[r][o]
                                      /\ snap[r][o] <= Cardinality(VotesFor(o))
            /\ r \notin ListReqs => snap[r][o] <= Filled(counts[o])

\* Nor does one that was asked for after the answer.
MonotoneInv ==
    \A r \in Requests \ FlakyMongo : \A q \in before[r] \ ListReqs :
        snap[q] # NoFields /\ snap[r] # NoFields =>
            \A o \in Options : snap[q][o] <= snap[r][o]

TallyInv == Presumed => HashInv /\ CountInv /\ SnapInv /\ MonotoneInv

-----------------------------------------------------------------------------
(* What changes the hash and the tallies that handlers hold.               *)

LEMMA SoundRequests ==
    ASSUME StoresSound
    PROVE  /\ {CreateReq} \cup CastReqs \subseteq Requests \ (FlakyMongo \cup FlakyRedis)
           /\ Readers \subseteq Requests \ FlakyMongo
           /\ (CloseReqs \cup ReopenReqs \cup DeleteReqs) \cap (FlakyMongo \cup FlakyRedis) = {}
           /\ ~MayEvict
BY RequestAssumption DEF StoresSound, Readers, Requests

\* Nor do the votes of a poll that is there go.
LEMMA VotesStay ==
    ASSUME ServerInv, Presumed, [Next]_vars
    PROVE  votes \subseteq votes'
<1>1. \A d \in DeleteReqs : ~DeleteVotes(d)
  BY SoundRequests DEF Presumed, DeleteVotes, ServerInv, MissingInv, AfterDelete
<1>2. ASSUME NEW r \in CastReqs, CastInsert(r) PROVE votes \subseteq votes'
  BY <1>2 DEF CastInsert
<1> QED BY <1>1, <1>2, StoreChanges DEF ServerInv, BaseInv

LEMMA CountsChanges ==
    ASSUME BaseInv, [Next]_vars
    PROVE  \/ counts' = counts
           \/ CreateInit(CreateReq)
           \/ \E r \in CastReqs : CastIncrement(r)
           \/ \E r \in Requests : ReadSync(r)
           \/ \E d \in DeleteReqs : DeleteCounts(d)
           \/ EvictCounts
<1> USE DEF stores
<1>1. CASE Arrivals
  BY <1>1 DEF Arrivals, CreateInsert, CastFind, ResultsFind, LoadFind, ListFind, StatusFind,
              DeleteFind
<1>2. ASSUME NEW r \in Requests, CastStep(r) PROVE counts' = counts \/ (r \in CastReqs /\ CastIncrement(r))
  <2>1. CastIncrement(r) => r \in CastReqs
    BY DEF BaseInv, KindOK, CastIncrement, CastCalls
  <2> QED BY <1>2, <2>1 DEF CastStep, CastIsMember, CastAdd, CastHasVoted, CastInsert,
                            CastGetVotes, CastPublish
<1>3. ASSUME NEW r \in Requests, ReadStep(r) PROVE counts' = counts \/ ReadSync(r)
  BY <1>3 DEF ReadStep, ReadCounts, ReadAggregate
<1>4. ASSUME NEW r \in Requests, DeleteStep(r) PROVE counts' = counts \/ (r \in DeleteReqs /\ DeleteCounts(r))
  <2>1. DeleteCounts(r) => r \in DeleteReqs
    BY DEF BaseInv, KindOK, DeleteCounts, DeleteCalls
  <2> QED BY <1>4, <2>1 DEF DeleteStep, DeletePollDoc, DeleteVotes, DeleteVoters
<1>5. ASSUME NEW r \in Requests,
             LoadHasVoted(r) \/ ListCounts(r) \/ ListAggregate(r) \/ StatusSet(r)
      PROVE  counts' = counts
  BY <1>5 DEF LoadHasVoted, ListCounts, ListAggregate, StatusSet
<1>6. ASSUME NEW r \in Requests, CreateInit(r) PROVE CreateInit(CreateReq)
  BY <1>6 DEF BaseInv, KindOK, CreateInit
<1>7. CASE Expire \/ EvictVoters \/ Crash \/ UNCHANGED vars
  BY <1>7 DEF Expire, EvictVoters, Crash, vars
<1> QED BY <1>1, <1>2, <1>3, <1>4, <1>5, <1>6, <1>7 DEF Next, Advance, Rest

\* A handler sets its own tally and its own place in a pipeline.
LEMMA SnapChanges ==
    ASSUME BaseInv, [Next]_vars, NEW q \in Requests
    PROVE  /\ \/ snap'[q] = snap[q]
              \/ q \in CastReqs /\ CastGetVotes(q)
              \/ ReadCounts(q) \/ ReadAggregate(q)
              \/ q \in ListReqs /\ (ListCounts(q) \/ ListAggregate(q))
           /\ \/ idx'[q] = idx[q]
              \/ CreateInit(q) \/ ReadSync(q)
<1> DEFINE Goal == /\ \/ snap'[q] = snap[q]
                      \/ q \in CastReqs /\ CastGetVotes(q)
                      \/ ReadCounts(q) \/ ReadAggregate(q)
                      \/ q \in ListReqs /\ (ListCounts(q) \/ ListAggregate(q))
                   /\ \/ idx'[q] = idx[q]
                      \/ CreateInit(q) \/ ReadSync(q)
<1>0. snap \in [Requests -> Tallies] /\ idx \in [Requests -> Options]
  BY DEF BaseInv, TypeOK
<1>1. CASE UNCHANGED <<snap, idx>>
  BY <1>1
<1>2. ASSUME NEW r \in Requests, CastGetVotes(r) PROVE Goal
  <2>1. r \in CastReqs
    BY <1>2 DEF BaseInv, KindOK, CastGetVotes, CastCalls
  <2> QED BY <1>0, <1>2, <2>1 DEF CastGetVotes
<1>3. ASSUME NEW r \in Requests, ReadCounts(r) \/ ReadAggregate(r) PROVE Goal
  BY <1>0, <1>3 DEF ReadCounts, ReadAggregate
<1>4. ASSUME NEW r \in Requests, ListCounts(r) \/ ListAggregate(r) PROVE Goal
  <2>1. r \in ListReqs
    BY <1>4 DEF BaseInv, KindOK, ListCounts, ListAggregate, ListCalls
  <2>2. idx' = idx
    BY <1>4 DEF ListCounts, ListAggregate
  <2>3. snap'[q] = snap[q] \/ q = r
    BY <1>0, <1>4 DEF ListCounts, ListAggregate
  <2> QED BY <1>4, <2>1, <2>2, <2>3
<1>5. ASSUME NEW r \in Requests, CreateInit(r) \/ ReadSync(r) PROVE Goal
  BY <1>0, <1>5 DEF CreateInit, ReadSync
<1>6. CASE Arrivals
  BY <1>6 DEF Arrivals, CreateInsert, CastFind, ResultsFind, LoadFind, ListFind, StatusFind,
              DeleteFind
<1>7. ASSUME NEW r \in Requests, CastStep(r), ~CastGetVotes(r) PROVE UNCHANGED <<snap, idx>>
  BY <1>7 DEF CastStep, CastIsMember, CastAdd, CastHasVoted, CastInsert, CastIncrement, CastPublish
<1>8. ASSUME NEW r \in Requests, DeleteStep(r) \/ LoadHasVoted(r) \/ StatusSet(r)
      PROVE  UNCHANGED <<snap, idx>>
  BY <1>8 DEF DeleteStep, DeletePollDoc, DeleteVotes, DeleteCounts, DeleteVoters, LoadHasVoted,
              StatusSet
<1>9. CASE Expire \/ EvictCounts \/ EvictVoters \/ Crash \/ UNCHANGED vars
  BY <1>9 DEF Expire, EvictCounts, EvictVoters, Crash, vars, requests
<1> QED BY <1>1, <1>2, <1>3, <1>4, <1>5, <1>6, <1>7, <1>8, <1>9 DEF Next, Advance, ReadStep, Rest

\* What is presumed after a step was so before it.
LEMMA PresumedBefore ==
    ASSUME BaseInv, [Next]_vars, poll = "deleted" => poll' = "deleted", Presumed'
    PROVE  Presumed
<1>1. StoresSound /\ poll # "deleted"
  BY DEF Presumed, StoresSound
<1>2. ASSUME NEW r \in Readers, pc[r] # "idle"
      PROVE  (CreateReq \in before[r] /\ r \notin FlakyRedis) \/ OverlapsNoVote(r)
  <2>1. r \in Requests
    BY SubsetOfRequests DEF Readers
  <2>2. pc'[r] # "idle" /\ before'[r] = before[r]
    BY <1>2, <2>1, RequestKept DEF Kept, BaseInv
  <2>3. (CreateReq \in before'[r] /\ r \notin FlakyRedis) \/ OverlapsNoVote(r)'
    BY <2>2 DEF Presumed, SeedsApart, Readers
  <2>4. ASSUME NEW v \in CastReqs, OverlapsNoVote(r)'
        PROVE  pc[v] = "idle" \/ v \in before[r] \/ r \in before[v]
    <3>1. v \in Requests
      BY SubsetOfRequests
    <3>2. pc'[v] = "idle" \/ v \in before'[r] \/ r \in before'[v]
      BY <2>4 DEF OverlapsNoVote
    <3> QED BY <2>2, <3>1, <3>2, RequestKept DEF Kept, BaseInv
  <2> QED BY <2>2, <2>3, <2>4 DEF OverlapsNoVote
<1> QED BY <1>1, <1>2 DEF Presumed, SeedsApart, Readers

\* A reader that comes with the id of the poll finds a hash.
LEMMA ReadersHit ==
    ASSUME ServerInv, HashInv, NEW r \in Requests, pc[r] = "readCounts", CreateReq \in before[r]
    PROVE  CacheHit
<1>1. r # CreateReq
  BY RequestAssumption DEF ServerInv, BaseInv, KindOK, ReadCalls
<1>2. Answered(CreateReq)
  BY DEF ServerInv, BaseInv, HistoryOK
<1>3. poll # "none"
  BY <1>1 DEF ServerInv, NoneInv, Others
<1>4. resp[CreateReq] = 201
  BY <1>2, <1>3 DEF HashInv, Answered
<1>5. \A o \in Options : counts[o] # Absent
  BY <1>4 DEF HashInv
<1>6. 1 \in Options
  BY OptionsAssumption DEF Options
<1> QED BY <1>5, <1>6 DEF CacheHit, NoFields

LEMMA Finite ==
    ASSUME ServerInv, NEW o
    PROVE  /\ IsFiniteSet(Counted(o)) /\ Cardinality(Counted(o)) \in Nat
           /\ IsFiniteSet(VotesFor(o)) /\ Cardinality(VotesFor(o)) \in Nat
           /\ IsFiniteSet(VotesFor(o) \ Pending(o)) /\ Cardinality(VotesFor(o) \ Pending(o)) \in Nat
           /\ Cardinality(VotesFor(o) \ Pending(o)) <= Cardinality(VotesFor(o))
<1>1. Counted(o) \subseteq CastReqs /\ VotesFor(o) \subseteq CastReqs
  BY DEF Counted, VotesFor, ServerInv, BaseInv, TypeOK
<1>2. IsFiniteSet(Counted(o)) /\ IsFiniteSet(VotesFor(o))
  BY <1>1, FS_Subset, RequestAssumption
<1>3. /\ IsFiniteSet(VotesFor(o) \ Pending(o))
      /\ Cardinality(VotesFor(o) \ Pending(o)) <= Cardinality(VotesFor(o))
  BY <1>2, FS_Subset
<1> QED BY <1>2, <1>3, FS_CardinalityType

LEMMA CountedAreStored ==
    ASSUME ServerInv, CountInv, NEW o \in Options
    PROVE  /\ Counted(o) \subseteq votes
           /\ Filled(counts[o]) <= Cardinality(VotesFor(o))
<1>1. Counted(o) \subseteq votes /\ Filled(counts[o]) <= Cardinality(VotesFor(o) \ Pending(o))
  BY DEF CountInv
<1>2. Filled(counts[o]) \in Nat
  BY TallyTypes DEF ServerInv, BaseInv, TypeOK
<1> QED BY <1>1, <1>2, Finite

\* A vote that was answered and is stored was answered 200.
LEMMA StoredAnswers ==
    ASSUME ServerInv, HashInv, NEW v \in votes, Answered(v)
    PROVE  resp[v] = 200
<1>1. v \in CastReqs
  BY DEF ServerInv, BaseInv, TypeOK
<1> QED BY <1>1 DEF ServerInv, StorageInv, HashInv, Answered

\* While a reader syncs the hash no vote is at work, so that MongoDB and the hash
\* agree, and on the votes the reader has to see.
LEMMA SeedAgrees ==
    ASSUME ServerInv, Presumed, HashInv, CountInv, NEW r \in Requests,
           pc[r] \in {"aggregate", "sync"}, NEW o \in Options
    PROVE  /\ Filled(counts[o]) = Cardinality(VotesFor(o))
           /\ Due(r, o) = VotesFor(o)
<1>1. r \in Readers /\ r \notin CastReqs /\ resp[r] = 0 /\ MayMiss(r)
  BY RequestAssumption DEF ServerInv, BaseInv, KindOK, ReadCalls, HistoryOK, Readers, HashInv
<1>2. OverlapsNoVote(r)
  BY <1>1 DEF Presumed, SeedsApart, Readers, MayMiss
<1>3. ASSUME NEW v \in votes PROVE v \in CastReqs /\ v \in before[r] /\ resp[v] = 200
  <2>1. v \in CastReqs /\ v \in Requests /\ pc[v] # "idle"
    BY SubsetOfRequests DEF ServerInv, BaseInv, TypeOK, StorageInv, BeforeStore
  <2>2. r \notin before[v]
    BY <1>1, <2>1 DEF ServerInv, BaseInv, HistoryOK, Answered
  <2>3. v \in before[r]
    BY <1>2, <2>1, <2>2 DEF OverlapsNoVote
  <2>4. Answered(v)
    BY <2>3 DEF ServerInv, BaseInv, HistoryOK
  <2> QED BY <2>1, <2>3, <2>4, StoredAnswers
<1>4. Counted(o) \subseteq votes
  BY DEF CountInv
<1>5. VotesFor(o) = Counted(o)
  BY <1>3, <1>4 DEF VotesFor, Counted
<1>6. Due(r, o) = VotesFor(o)
  <2>1. Due(r, o) \subseteq Counted(o)
    BY <1>1 DEF Due, Counted
  <2>2. VotesFor(o) \subseteq Due(r, o)
    BY <1>3 DEF VotesFor, Due
  <2> QED BY <1>5, <2>1, <2>2
<1>7. Cardinality(Counted(o)) <= Filled(counts[o]) /\ Filled(counts[o]) \in Nat
  BY TallyTypes DEF CountInv, ServerInv, BaseInv, TypeOK
<1>8. Filled(counts[o]) <= Cardinality(VotesFor(o)) /\ Cardinality(VotesFor(o)) \in Nat
  BY CountedAreStored, Finite
<1> QED BY <1>5, <1>6, <1>7, <1>8

\* What is written to the hash is what is there, but for the increments of votes.
LEMMA SoundCounts ==
    ASSUME ServerInv, Presumed, HashInv, CountInv, SnapInv, [Next]_vars
    PROVE  \/ counts' = counts
           \/ \E p \in Options : counts' = HSet(p, Filled(counts[p]))
           \/ \E r \in CastReqs : CastIncrement(r)
<1>1. ~EvictCounts
  BY SoundRequests DEF Presumed, EvictCounts
<1>2. ASSUME NEW r \in Requests, ReadSync(r), counts' # counts
      PROVE  \E p \in Options : counts' = HSet(p, Filled(counts[p]))
  <2> DEFINE p == idx[r]
  <2>1. /\ pc[r] = "sync" /\ counts' = HSet(p, Synced(r)) /\ p \in Options
        /\ snap[r] \in Tallies /\ snap[r] # NoFields
    BY <1>2 DEF ReadSync, ServerInv, BaseInv, TypeOK, HashInv
  <2>2. r \notin FlakyMongo
    BY <2>1, SoundRequests DEF ServerInv, BaseInv, KindOK, ReadCalls, Readers, Presumed
  <2>3. Cardinality(Due(r, p)) <= snap[r][p] /\ snap[r][p] <= Cardinality(VotesFor(p))
    BY <2>1, <2>2 DEF SnapInv
  <2>4. Filled(counts[p]) = Cardinality(VotesFor(p)) /\ Due(r, p) = VotesFor(p)
    BY <2>1, SeedAgrees
  <2>5. Cardinality(VotesFor(p)) \in Nat /\ snap[r][p] \in Int
    <3>1. Cardinality(VotesFor(p)) \in Nat
      BY Finite
    <3>2. \A t \in Tallies : \A o \in Options : t[o] \in Int
      BY DEF Tallies, Absent
    <3> QED BY <2>1, <3>1, <3>2
  <2>6. Synced(r) = Filled(counts[p])
    BY <2>3, <2>4, <2>5 DEF Synced, Filled, Absent
  <2> QED BY <2>1, <2>6
<1>3. \A d \in DeleteReqs : ~DeleteCounts(d)
  BY SoundRequests DEF Presumed, DeleteCounts, ServerInv, MissingInv, AfterDelete
<1>4. CreateReq \in Requests /\ idx \in [Requests -> Options]
  BY SubsetOfRequests DEF ServerInv, BaseInv, TypeOK
<1>5. CreateInit(CreateReq) =>
        counts' = counts \/ \E p \in Options : counts' = HSet(p, Filled(counts[p]))
  BY <1>4 DEF CreateInit, HSetNX
<1> QED BY <1>1, <1>2, <1>3, <1>5, CountsChanges DEF ServerInv

\* A count is only ever raised, and a field stays.
LEMMA CountsGrow ==
    ASSUME ServerInv, Presumed, HashInv, CountInv, SnapInv, [Next]_vars, NEW o \in Options
    PROVE  /\ Filled(counts[o]) <= Filled(counts'[o])
           /\ counts[o] # Absent => counts'[o] # Absent
<1>0. counts \in Tallies
  BY DEF ServerInv, BaseInv, TypeOK
<1>1. ASSUME NEW p, counts' = HSet(p, Filled(counts[p]))
      PROVE  /\ Filled(counts[o]) <= Filled(counts'[o])
             /\ counts[o] # Absent => counts'[o] # Absent
  BY <1>0, <1>1, TallyTypes DEF HSet, Filled, Tallies, Absent
<1>2. ASSUME NEW p, counts' = HSet(p, Filled(counts[p]) + 1)
      PROVE  /\ Filled(counts[o]) <= Filled(counts'[o])
             /\ counts[o] # Absent => counts'[o] # Absent
  BY <1>0, <1>2, TallyTypes DEF HSet, Filled, Tallies, Absent
<1>3. CASE counts' = counts
  BY <1>0, <1>3, TallyTypes
<1> QED BY <1>1, <1>2, <1>3, SoundCounts DEF CastIncrement, HIncrBy

-----------------------------------------------------------------------------
(* The hash of a poll.                                                     *)

\* Where a handler goes after a call of its own.
LEMMA OwnGoes ==
    ASSUME BaseInv, NEW r \in Requests, Own(r)
    PROVE  /\ pc'[r] = "aggregate" => pc[r] = "readCounts" /\ (~CacheHit \/ r \in FlakyRedis)
           /\ pc'[r] = "sync" => pc[r] \in {"aggregate", "sync"}
           /\ pc'[r] = "sync" /\ pc[r] = "aggregate" => ReadAggregate(r)
<1> DEFINE Goal == /\ pc'[r] = "aggregate" => pc[r] = "readCounts" /\ (~CacheHit \/ r \in FlakyRedis)
                   /\ pc'[r] = "sync" => pc[r] \in {"aggregate", "sync"}
                   /\ pc'[r] = "sync" /\ pc[r] = "aggregate" => ReadAggregate(r)
<1>0. pc \in [Requests -> Steps] /\ DOMAIN resp = Requests
  BY DEF BaseInv, TypeOK
<1>1. ASSUME NEW c, Goto(r, c), c \notin {"aggregate", "sync"} PROVE Goal
  BY <1>0, <1>1 DEF Goto
<1>2. ASSUME NEW s, Answer(r, s) PROVE Goal
  BY <1>0, <1>2 DEF Answer
<1>3. CASE CreateInsert(r) \/ CreateInit(r)
  BY <1>1, <1>2, <1>3 DEF CreateInsert, CreateInit
<1>4. CASE CastFind(r) \/ ResultsFind(r) \/ LoadFind(r) \/ ListFind(r) \/ StatusFind(r) \/ DeleteFind(r)
  BY <1>1, <1>2, <1>4 DEF CastFind, ResultsFind, LoadFind, ListFind, StatusFind, DeleteFind
<1>5. CASE CastStep(r)
  BY <1>1, <1>2, <1>5 DEF CastStep, CastIsMember, CastAdd, CastHasVoted, CastInsert, CastIncrement,
                          CastGetVotes, CastPublish
<1>6. ASSUME NEW t, TallyRead(r, t) PROVE Goal
  BY <1>1, <1>2, <1>6 DEF TallyRead
<1>7. CASE ReadCounts(r)
  <2>1. ASSUME Goto(r, "aggregate"), ~CacheHit \/ r \in FlakyRedis PROVE Goal
    BY <1>0, <1>7, <2>1 DEF Goto, ReadCounts
  <2> QED BY <1>6, <1>7, <2>1 DEF ReadCounts
<1>8. CASE ReadAggregate(r)
  BY <1>0, <1>8 DEF ReadAggregate, Goto
<1>9. CASE ReadSync(r)
  <2>1. ASSUME Goto(r, "sync") PROVE Goal
    BY <1>0, <1>9, <2>1 DEF ReadSync, Goto
  <2> QED BY <1>6, <1>9, <2>1 DEF ReadSync
<1>10. CASE LoadHasVoted(r) \/ ListCounts(r) \/ ListAggregate(r) \/ StatusSet(r) \/ DeleteStep(r)
  BY <1>1, <1>2, <1>10 DEF LoadHasVoted, ListCounts, ListAggregate, StatusSet, DeleteStep,
                           DeletePollDoc, DeleteVotes, DeleteCounts, DeleteVoters
<1> QED BY <1>3, <1>4, <1>5, <1>7, <1>8, <1>9, <1>10 DEF Own, Advance, ReadStep

\* The request that creates the poll is moved by CreatePoll only.
LEMMA CreateMoves ==
    ASSUME BaseInv, [Next]_vars
    PROVE  Still(CreateReq) \/ Crash \/ CreateInsert(CreateReq) \/ CreateInit(CreateReq)
<1>1. Advance(CreateReq) => CreateInit(CreateReq)
  BY SubsetOfRequests, RequestAssumption
  DEF BaseInv, KindOK, Advance, CastStep, CastIsMember, CastAdd, CastHasVoted, CastInsert,
      CastIncrement, CastGetVotes, CastPublish, ReadStep, ReadCounts, ReadAggregate, ReadSync,
      LoadHasVoted, ListCounts, ListAggregate, StatusSet, DeleteStep, DeletePollDoc,
      DeleteVotes, DeleteCounts, DeleteVoters, CastCalls, ReadCalls, ListCalls, DeleteCalls
<1> QED BY <1>1, OwnerMoves, SubsetOfRequests, RequestAssumption DEF Own, BaseInv

\* Only CreatePoll makes a poll.
LEMMA NoneStays ==
    ASSUME ServerInv, [Next]_vars, poll = "none", ~CreateInsert(CreateReq)
    PROVE  poll' = "none"
<1>1. \A s \in CloseReqs \cup ReopenReqs : ~StatusSet(s)
  BY CastsAreOthers DEF ServerInv, NoneInv, StatusSet
<1>2. \A d \in DeleteReqs : ~DeletePollDoc(d)
  BY CastsAreOthers DEF ServerInv, NoneInv, DeletePollDoc
<1> QED BY <1>1, <1>2, StoreChanges DEF ServerInv, BaseInv

LEMMA HashStep ==
    ASSUME ServerInv, Presumed, HashInv, CountInv, SnapInv, [Next]_vars
    PROVE  HashInv'
<1> DEFINE C == CreateReq
<1>0. /\ C \in Requests /\ C \notin FlakyMongo /\ C \notin FlakyRedis
      /\ pc \in [Requests -> Steps] /\ DOMAIN resp = Requests
      /\ idx \in [Requests -> Options]
      /\ BaseInv
  BY SubsetOfRequests, SoundRequests DEF ServerInv, BaseInv, TypeOK, Presumed
<1>1. idx'[C] = idx[C] \/ CreateInit(C)
  <2>1. ~ReadSync(C)
    BY <1>0, RequestAssumption DEF ReadSync, BaseInv, KindOK, ReadCalls
  <2> QED BY <1>0, <2>1, SnapChanges
<1>2. /\ resp'[C] \in {0, 201, 400, 500}
      /\ pc'[C] = "idle" \/ resp'[C] \in {400, 500} => poll' = "none"
  <2>1. CASE CreateInsert(C)
    BY <1>0, <2>1 DEF CreateInsert, Goto, Answer, HashInv, BaseInv, HistoryOK
  <2>2. CASE CreateInit(C)
    BY <1>0, <2>2 DEF CreateInit, Goto, Answer, HashInv, BaseInv, HistoryOK
  <2>3. CASE (Still(C) \/ Crash) /\ ~CreateInsert(C)
    <3>1. resp'[C] = resp[C] /\ (pc'[C] = "idle" => pc[C] = "idle")
      BY <1>0, <2>3 DEF Still, Crash, InFlight
    <3> QED BY <2>3, <3>1, NoneStays DEF HashInv
  <2> QED BY <1>0, <2>1, <2>2, <2>3, CreateMoves
<1>3. ASSUME NEW o \in Options, resp'[C] = 201 \/ (pc'[C] = "hsetnx" /\ o < idx'[C])
      PROVE  counts'[o] # Absent
  <2>1. CASE CreateInsert(C)
    <3>1. pc'[C] = "hsetnx" /\ idx'[C] = idx[C] /\ idx[C] = 1
      BY <1>0, <1>3, <2>1 DEF CreateInsert, Goto, Answer, HashInv, BaseInv, HistoryOK
    <3> QED BY <1>0, <1>3, <2>1, <3>1 DEF CreateInsert, Answer, Goto, Options, HashInv, BaseInv, HistoryOK
  <2>2. CASE CreateInit(C)
    <3>1. /\ counts' = HSet(idx[C], Filled(counts[idx[C]]))
          /\ pc[C] = "hsetnx" /\ resp[C] = 0
      BY <1>0, <2>2 DEF CreateInit, HSetNX, BaseInv, HistoryOK
    <3>2. o <= idx[C]
      <4>1. CASE AtLastOption(C)
        BY <1>0, <4>1, OptionsAssumption DEF AtLastOption, Options
      <4>2. CASE ~AtLastOption(C)
        BY <1>0, <1>3, <2>2, <3>1, <4>2 DEF CreateInit, Goto, Options
      <4> QED BY <4>1, <4>2
    <3>3. CASE o = idx[C]
      <4>1. counts \in Tallies
        BY <1>0 DEF BaseInv, TypeOK
      <4>2. counts'[o] = Filled(counts[o]) /\ Filled(counts[o]) \in Nat
        BY <3>1, <3>3, <4>1, TallyTypes DEF HSet, Tallies
      <4> QED BY <4>2 DEF Absent
    <3>4. CASE o # idx[C]
      <4>1. o < idx[C]
        BY <1>0, <3>2, <3>4 DEF Options
      <4> QED BY <3>1, <4>1, CountsGrow DEF HashInv
    <3> QED BY <3>3, <3>4
  <2>3. CASE (Still(C) \/ Crash) /\ ~CreateInit(C)
    <3>1. idx'[C] = idx[C] /\ resp'[C] = resp[C] /\ (pc'[C] = "hsetnx" => pc[C] = "hsetnx")
      BY <1>0, <1>1, <2>3 DEF Still, Crash, InFlight
    <3> QED BY <1>3, <3>1, CountsGrow DEF HashInv
  <2> QED BY <1>0, <2>1, <2>2, <2>3, CreateMoves
<1>4. ASSUME NEW r \in Requests
      PROVE  /\ pc'[r] \in {"aggregate", "sync"} => MayMiss(r)'
             /\ pc'[r] = "sync" => snap'[r] # NoFields
  <2>1. \/ pc'[r] \in {"aggregate", "sync"} => pc'[r] = pc[r]
        \/ Own(r)
    <3>1. Still(r) \/ Crash \/ Own(r)
      BY <1>0, OwnerMoves DEF BaseInv
    <3> QED BY <1>0, <3>1 DEF Still, Crash, InFlight
  <2>2. ASSUME pc'[r] \in {"aggregate", "sync"} PROVE MayMiss(r)'
    <3>1. before'[r] = before[r]
      <4>1. pc[r] # "idle"
        BY <1>0, <2>1, <2>2, OwnGoes
      <4> QED BY <1>0, <4>1, RequestKept DEF Kept, BaseInv
    <3>2. MayMiss(r)
      BY <1>0, <2>1, <2>2, OwnGoes, ReadersHit DEF HashInv, MayMiss
    <3> QED BY <3>1, <3>2 DEF MayMiss
  <2>3. ASSUME pc'[r] = "sync" PROVE snap'[r] # NoFields
    <3>1. CASE pc[r] = "sync"
      <4>1. snap'[r] = snap[r]
        BY <1>0, <3>1, SnapChanges
        DEF CastGetVotes, ReadCounts, ReadAggregate, ListCounts, ListAggregate
      <4> QED BY <3>1, <4>1 DEF HashInv
    <3>2. CASE pc[r] # "sync"
      <4>1. ReadAggregate(r)
        BY <1>0, <2>1, <2>3, <3>2, OwnGoes
      <4>2. r \notin FlakyMongo
        BY <1>0, <4>1, SoundRequests DEF ReadAggregate, BaseInv, KindOK, ReadCalls, Readers, Presumed
      <4>3. snap'[r] = CountVotesByOption
        BY <4>1, <4>2 DEF ReadAggregate, ServerInv, BaseInv, TypeOK
      <4> QED BY <4>3, CountType DEF ServerInv, BaseInv, TypeOK
    <3> QED BY <3>1, <3>2
  <2> QED BY <2>2, <2>3
<1>6. ASSUME NEW v \in CastReqs
      PROVE  /\ resp'[v] \in {0, 200, 400, 404, 409}
             /\ pc'[v] \in AfterStore => v \in votes'
  <2>0. /\ v \in Requests /\ v \notin FlakyMongo /\ v \notin FlakyRedis
        /\ votes \subseteq votes'
        /\ resp[v] \in {0, 200, 400, 404, 409}
        /\ pc[v] \in AfterStore => v \in votes
    BY SubsetOfRequests, SoundRequests, VotesStay DEF Presumed, HashInv
  <2>1. CASE Still(v)
    BY <2>0, <2>1 DEF Still
  <2>2. CASE Crash
    BY <1>0, <2>0, <2>2 DEF Crash, InFlight, AfterStore
  <2>3. CASE CastFind(v) \/ CastIsMember(v) \/ CastAdd(v) \/ CastHasVoted(v)
    BY <1>0, <2>0, <2>3 DEF CastFind, CastIsMember, CastAdd, CastHasVoted, Goto, Answer, AfterStore
  <2>4. CASE CastInsert(v)
    BY <1>0, <2>0, <2>4 DEF CastInsert, Goto
  <2>5. CASE CastIncrement(v) \/ CastGetVotes(v) \/ CastPublish(v)
    BY <1>0, <2>0, <2>5 DEF CastIncrement, CastGetVotes, CastPublish, Goto, Answer, AfterStore
  <2> QED BY <1>0, <2>1, <2>2, <2>3, <2>4, <2>5, CastMoves DEF CastStep
<1>5. ASSUME NEW r \in Requests, pc'[r] = "idle"
      PROVE  snap'[r] = NoFields /\ idx'[r] = 1
  <2>1. pc[r] = "idle"
    BY <1>0, <1>5, RequestKept DEF Kept, BaseInv
  <2>2. snap'[r] = snap[r] /\ idx'[r] = idx[r]
    BY <1>0, <2>1, SnapChanges DEF CastGetVotes, ReadCounts, ReadAggregate, ListCounts, ListAggregate,
                                   CreateInit, ReadSync
  <2> QED BY <2>1, <2>2 DEF HashInv
<1> QED BY <1>2, <1>3, <1>4, <1>5, <1>6 DEF HashInv

-----------------------------------------------------------------------------
(* What the hash counts.                                                   *)

\* A vote other than the ones the step stores or counts.
LEMMA VoteKept ==
    ASSUME ServerInv, Presumed, HashInv, [Next]_vars, NEW v \in CastReqs, NEW o \in Options,
           ~CastInsert(v), ~CastIncrement(v)
    PROVE  /\ v \in Counted(o)' => v \in Counted(o)
           /\ v \in votes => arg'[v] = arg[v]
           /\ v \in votes /\ pc'[v] = "hincrby" => pc[v] = "hincrby"
<1> DEFINE Goal == /\ arg'[v].option = o /\ (pc'[v] \in {"hgetall", "publish"} \/ resp'[v] = 200)
                        => arg[v].option = o /\ (pc[v] \in {"hgetall", "publish"} \/ resp[v] = 200)
                   /\ v \in votes => arg'[v] = arg[v]
                   /\ v \in votes /\ pc'[v] = "hincrby" => pc[v] = "hincrby"
<1> SUFFICES Goal
  BY DEF Counted
<1>0. /\ v \in Requests /\ v \notin FlakyMongo /\ v \notin FlakyRedis
      /\ pc \in [Requests -> Steps] /\ DOMAIN resp = Requests /\ BaseInv
      /\ pc[v] = "idle" => v \notin votes
  BY SubsetOfRequests, SoundRequests
  DEF ServerInv, BaseInv, TypeOK, Presumed, StorageInv, BeforeStore
<1>1. CASE Still(v)
  BY <1>1 DEF Still
<1>2. CASE Crash
  BY <1>0, <1>2 DEF Crash, InFlight
<1>3. CASE CastFind(v)
  BY <1>0, <1>3 DEF CastFind, Goto, Answer, Arrive, Start, BaseInv, HistoryOK
<1>4. CASE CastIsMember(v) \/ CastAdd(v) \/ CastHasVoted(v)
  BY <1>0, <1>4 DEF CastIsMember, CastAdd, CastHasVoted, Goto, Answer, BaseInv, HistoryOK
<1>5. CASE CastGetVotes(v) \/ CastPublish(v)
  BY <1>0, <1>5 DEF CastGetVotes, CastPublish, Goto, Answer
<1> QED
  BY <1>1, <1>2, <1>3, <1>4, <1>5, CastMoves DEF CastStep, ServerInv

LEMMA CountStep ==
    ASSUME ServerInv, Presumed, HashInv, CountInv, SnapInv, [Next]_vars, Presumed', ServerInv'
    PROVE  CountInv'
<1> DEFINE Held(o) == VotesFor(o) \ Pending(o)
           Goal(o) == /\ Counted(o)' \subseteq votes'
                      /\ Cardinality(Counted(o)') <= Filled(counts'[o])
                      /\ Filled(counts'[o]) <= Cardinality(Held(o)')
<1>0. /\ BaseInv /\ counts \in Tallies /\ counts' \in Tallies /\ CastReqs \subseteq Requests
      /\ pc \in [Requests -> Steps] /\ votes \subseteq CastReqs
  BY SubsetOfRequests DEF ServerInv, BaseInv, TypeOK
<1>a. votes \subseteq votes'
  BY VotesStay
<1>f. \A o \in Options : Filled(counts[o]) \in Nat /\ Filled(counts'[o]) \in Nat
  BY <1>0, TallyTypes
<1>1. ASSUME NEW r \in CastReqs, CastInsert(r), NEW o \in Options PROVE Goal(o)
  <2>1. /\ votes' = votes \cup {r} /\ counts' = counts /\ arg' = arg /\ resp' = resp
        /\ pc[r] = "insert" /\ pc' = [pc EXCEPT ![r] = "hincrby"]
    BY <1>1, SoundRequests DEF CastInsert, Goto, Presumed
  <2>2. r \notin votes /\ r \in Requests
    BY <1>0, <1>1, <2>1 DEF ServerInv, StorageInv, BeforeStore
  <2>3. Counted(o)' = Counted(o)
    BY <1>0, <2>1, <2>2 DEF Counted
  <2>4. Held(o)' = Held(o)
    <3>1. \A v \in votes : v # r /\ pc'[v] = pc[v]
      BY <1>0, <2>1, <2>2
    <3>2. pc'[r] = "hincrby"
      BY <1>0, <2>1, <2>2
    <3> QED BY <2>1, <3>1, <3>2 DEF VotesFor, Pending
  <2> QED BY <1>a, <2>1, <2>3, <2>4 DEF CountInv
<1>2. ASSUME NEW r \in CastReqs, CastIncrement(r), NEW o \in Options PROVE Goal(o)
  <2>1. /\ votes' = votes /\ counts' = HIncrBy(arg[r].option) /\ arg' = arg /\ resp' = resp
        /\ pc[r] = "hincrby" /\ pc' = [pc EXCEPT ![r] = "hgetall"]
    BY <1>2, SoundRequests DEF CastIncrement, Goto, Presumed
  <2>2. r \in votes /\ r \in Requests /\ resp[r] = 0
    BY <1>0, <2>1 DEF HashInv, AfterStore, BaseInv, HistoryOK
  <2>3. pc'[r] = "hgetall" /\ \A v \in CastReqs : v # r => pc'[v] = pc[v]
    BY <1>0, <2>1, <2>2
  <2>4. CASE arg[r].option # o
    <3>1. counts'[o] = counts[o]
      BY <1>0, <2>1, <2>4 DEF HIncrBy, HSet, Tallies
    <3>2. Counted(o)' = Counted(o)
      BY <2>1, <2>3, <2>4 DEF Counted
    <3>3. Held(o)' = Held(o)
      BY <1>0, <2>1, <2>3, <2>4 DEF VotesFor, Pending
    <3> QED BY <2>1, <3>1, <3>2, <3>3 DEF CountInv
  <2>5. CASE arg[r].option = o
    <3>1. Filled(counts'[o]) = Filled(counts[o]) + 1
      <4>1. counts'[o] = Filled(counts[o]) + 1
        BY <1>0, <2>1, <2>5 DEF HIncrBy, HSet, Tallies
      <4> QED BY <1>f, <4>1 DEF Filled, Absent
    <3>2. r \notin Counted(o) /\ Counted(o)' = Counted(o) \cup {r}
      BY <1>0, <2>1, <2>2, <2>3, <2>5 DEF Counted
    <3>3. r \notin Held(o) /\ Held(o)' = Held(o) \cup {r}
      BY <1>0, <2>1, <2>2, <2>3, <2>5 DEF VotesFor, Pending
    <3>4. Cardinality(Counted(o)') = Cardinality(Counted(o)) + 1
      BY <3>2, Finite, FS_AddElement
    <3>5. Cardinality(Held(o)') = Cardinality(Held(o)) + 1
      BY <3>3, Finite, FS_AddElement
    <3>6. Counted(o)' \subseteq votes'
      BY <2>1, <2>2, <3>2 DEF CountInv
    <3> HIDE DEF Held
    <3>7. Cardinality(Counted(o)) \in Nat /\ Cardinality(Held(o)) \in Nat
      BY Finite DEF Held
    <3>8. /\ Cardinality(Counted(o)) <= Filled(counts[o])
          /\ Filled(counts[o]) <= Cardinality(Held(o))
      BY DEF CountInv, Held
    <3> QED BY <1>f, <3>1, <3>4, <3>5, <3>6, <3>7, <3>8
  <2> QED BY <2>4, <2>5
<1>3. ASSUME \A r \in CastReqs : ~CastInsert(r) /\ ~CastIncrement(r), NEW o \in Options PROVE Goal(o)
  <2>1. Filled(counts'[o]) = Filled(counts[o])
    <3>1. CASE counts' = counts
      BY <3>1
    <3>2. ASSUME NEW p \in Options, counts' = HSet(p, Filled(counts[p]))
          PROVE  Filled(counts'[o]) = Filled(counts[o])
      BY <1>0, <1>f, <3>2 DEF HSet, Tallies, Filled, Absent
    <3> QED BY <1>3, <3>1, <3>2, SoundCounts
  <2>2. votes' = votes
    <3>1. \A d \in DeleteReqs : ~DeleteVotes(d)
      BY SoundRequests DEF Presumed, DeleteVotes, ServerInv, MissingInv, AfterDelete
    <3> QED BY <1>0, <1>3, <3>1, StoreChanges DEF BaseInv
  <2>3. Counted(o)' \subseteq Counted(o)
    <3>1. \A v \in CastReqs : v \in Counted(o)' => v \in Counted(o)
      BY <1>3, VoteKept
    <3> QED BY <3>1 DEF Counted
  <2>4. \A v \in votes : arg'[v] = arg[v] /\ (pc'[v] = "hincrby" => pc[v] = "hincrby")
    BY <1>0, <1>3, VoteKept
  <2>5. Held(o) \subseteq Held(o)'
    BY <2>2, <2>4 DEF VotesFor, Pending
  <2>6. /\ IsFiniteSet(Counted(o)) /\ IsFiniteSet(Held(o)') /\ Cardinality(Counted(o)) \in Nat
        /\ Cardinality(Held(o)) \in Nat /\ Cardinality(Held(o)') \in Nat
        /\ Cardinality(Counted(o)') \in Nat
    <3>1. VotesFor(o)' \subseteq CastReqs /\ Counted(o)' \subseteq CastReqs
      BY DEF VotesFor, Counted, ServerInv, BaseInv, TypeOK
    <3>2. IsFiniteSet(Held(o)') /\ IsFiniteSet(Counted(o)')
      BY <3>1, FS_Subset, RequestAssumption
    <3> QED BY <3>2, Finite, FS_CardinalityType
  <2> HIDE DEF Held
  <2>7. Cardinality(Counted(o)') <= Cardinality(Counted(o)) /\ Cardinality(Held(o)) <= Cardinality(Held(o)')
    BY <2>3, <2>5, <2>6, FS_Subset
  <2>8. /\ Counted(o) \subseteq votes
        /\ Cardinality(Counted(o)) <= Filled(counts[o])
        /\ Filled(counts[o]) <= Cardinality(Held(o))
    BY DEF CountInv, Held
  <2>9. Counted(o)' \subseteq votes'
    BY <2>2, <2>3, <2>8
  <2> QED BY <1>f, <2>1, <2>5, <2>6, <2>7, <2>8, <2>9
<1>4. \A o \in Options : Goal(o)
  BY <1>1, <1>2, <1>3
<1> QED BY <1>4 DEF CountInv

-----------------------------------------------------------------------------
(* What the handlers read.                                                 *)

\* A tally is taken from the hash as it is, but for GetMyPolls, which may have
\* it from MongoDB.
LEMMA SnapTaken ==
    ASSUME ServerInv, Presumed, HashInv, CountInv, [Next]_vars, NEW r \in Requests, snap'[r] # snap[r]
    PROVE  /\ pc[r] \notin {"idle", "done"}
           /\ UNCHANGED <<votes, counts>>
           /\ r \in CastReqs => pc[r] = "hgetall"
           /\ \/ snap'[r] = Fill(counts)
              \/ r \in ListReqs /\ (r \in FlakyMongo \/ snap'[r] = CountVotesByOption)
<1>0. snap \in [Requests -> Tallies] /\ BaseInv
  BY DEF ServerInv, BaseInv, TypeOK
<1>1. CASE CastGetVotes(r)
  BY <1>0, <1>1 DEF CastGetVotes, stores
<1>2. CASE ReadCounts(r)
  <2>1. r \notin CastReqs
    BY <1>0, <1>2, RequestAssumption DEF ReadCounts, BaseInv, KindOK, ReadCalls
  <2> QED BY <1>0, <1>2, <2>1 DEF ReadCounts, stores
<1>3. CASE r \in ListReqs /\ (ListCounts(r) \/ ListAggregate(r))
  <2>1. r \notin CastReqs
    BY <1>3, RequestAssumption
  <2> QED BY <1>0, <1>3, <2>1 DEF ListCounts, ListAggregate, stores
<1>4. CASE ReadAggregate(r)
  <2>1. r \notin CastReqs /\ pc[r] = "aggregate" /\ snap'[r] = CountVotesByOption
    BY <1>0, <1>4, RequestAssumption DEF ReadAggregate, BaseInv, KindOK, ReadCalls
  <2>2. \A o \in Options : Filled(counts[o]) = Cardinality(VotesFor(o))
    BY <2>1, SeedAgrees
  <2>3. Fill(counts) = CountVotesByOption
    BY <2>2 DEF Fill, CountVotesByOption
  <2> QED BY <1>4, <2>1, <2>3 DEF ReadAggregate, stores
<1> QED BY <1>0, <1>1, <1>2, <1>3, <1>4, SnapChanges

\* The votes a handler has to see are settled when it starts.
LEMMA DueKept ==
    ASSUME ServerInv, [Next]_vars, NEW r \in Requests, pc[r] # "idle", NEW o
    PROVE  Due(r, o)' = Due(r, o)
<1>0. BaseInv /\ CastReqs \subseteq Requests
  BY SubsetOfRequests DEF ServerInv
<1>1. before'[r] = before[r] /\ arg'[r] = arg[r]
  BY <1>0, RequestKept DEF Kept, BaseInv
<1>2. ASSUME NEW v \in CastReqs, v \in before[r]
      PROVE  arg'[v] = arg[v] /\ resp'[v] = resp[v]
  <2>1. pc[v] = "done"
    BY <1>0, <1>2 DEF BaseInv, HistoryOK, Answered
  <2> QED BY <1>0, <2>1, RequestKept DEF Kept, BaseInv
<1> QED BY <1>1, <1>2 DEF Due

LEMMA DueIsCounted ==
    ASSUME NEW r \in Requests, r \in CastReqs => pc[r] = "hgetall", NEW o
    PROVE  Due(r, o) \subseteq Counted(o)
BY DEF Due, Counted

LEMMA SnapStep ==
    ASSUME ServerInv, Presumed, HashInv, CountInv, SnapInv, [Next]_vars, ServerInv'
    PROVE  SnapInv'
<1> SUFFICES ASSUME NEW r \in Requests, snap'[r] # NoFields, NEW o \in Options
             PROVE  /\ r \notin FlakyMongo => /\ Cardinality(Due(r, o)') <= snap'[r][o]
                                              /\ snap'[r][o] <= Cardinality(VotesFor(o)')
                    /\ r \notin ListReqs => snap'[r][o] <= Filled(counts'[o])
  BY DEF SnapInv
<1>0. /\ BaseInv /\ counts \in Tallies /\ snap \in [Requests -> Tallies]
      /\ snap' \in [Requests -> Tallies] /\ votes \subseteq CastReqs
      /\ Filled(counts[o]) \in Nat
  BY TallyTypes DEF ServerInv, BaseInv, TypeOK
<1>1. pc[r] # "idle"
  BY SnapTaken DEF HashInv
<1>2. Due(r, o)' = Due(r, o)
  BY <1>1, DueKept
<1>3. Cardinality(VotesFor(o)) <= Cardinality(VotesFor(o)')
  <2>1. votes \subseteq votes'
    BY VotesStay
  <2>2. \A v \in votes : arg'[v] = arg[v]
    <3>1. \A v \in votes : v \in Requests /\ pc[v] # "idle"
      BY <1>0, SubsetOfRequests DEF ServerInv, StorageInv, BeforeStore
    <3> QED BY <1>0, <3>1, RequestKept DEF Kept, BaseInv
  <2>3. VotesFor(o) \subseteq VotesFor(o)'
    BY <2>1, <2>2 DEF VotesFor
  <2>4. IsFiniteSet(VotesFor(o)')
    <3>1. VotesFor(o)' \subseteq CastReqs
      BY DEF VotesFor, ServerInv, BaseInv, TypeOK
    <3> QED BY <3>1, FS_Subset, RequestAssumption
  <2> QED BY <2>3, <2>4, FS_Subset
<1>4. Cardinality(VotesFor(o)') \in Nat /\ Cardinality(VotesFor(o)) \in Nat
  <2>1. VotesFor(o)' \subseteq CastReqs
    BY DEF VotesFor, ServerInv, BaseInv, TypeOK
  <2> QED BY <2>1, Finite, FS_Subset, FS_CardinalityType, RequestAssumption
<1>5. snap[r][o] \in Int /\ snap'[r][o] \in Int /\ Filled(counts'[o]) \in Nat
  <2>1. counts' \in Tallies
    BY DEF ServerInv, BaseInv, TypeOK
  <2> QED BY <1>0, <2>1, TallyTypes DEF Tallies, Absent
<1>6. IsFiniteSet(Due(r, o)) /\ Cardinality(Due(r, o)) \in Nat
  BY RequestAssumption, FS_Subset, FS_CardinalityType DEF Due
<1>7. Filled(counts[o]) <= Filled(counts'[o])
  BY CountsGrow
<1>8. Filled(counts[o]) <= Cardinality(VotesFor(o))
  BY CountedAreStored
<1>9. CASE snap'[r] = snap[r]
  BY <1>0, <1>2, <1>3, <1>4, <1>5, <1>6, <1>7, <1>9 DEF SnapInv
<1>10. CASE snap'[r] # snap[r]
  <2>1. /\ UNCHANGED <<votes, counts>> /\ (r \in CastReqs => pc[r] = "hgetall")
        /\ \/ snap'[r] = Fill(counts)
           \/ r \in ListReqs /\ (r \in FlakyMongo \/ snap'[r] = CountVotesByOption)
    BY <1>10, SnapTaken
  <2>2. Due(r, o) \subseteq Counted(o)
    BY <2>1, DueIsCounted
  <2>3. Cardinality(Due(r, o)) <= Cardinality(Counted(o)) /\ Cardinality(Counted(o)) \in Nat
    BY <2>2, Finite, FS_Subset
  <2>4. CASE snap'[r] = Fill(counts)
    <3>1. snap'[r][o] = Filled(counts[o])
      BY <2>4 DEF Fill
    <3>2. Cardinality(Counted(o)) <= Filled(counts[o])
      BY DEF CountInv
    <3> QED BY <1>0, <1>2, <1>3, <1>4, <1>6, <1>7, <1>8, <2>1, <2>3, <3>1, <3>2
  <2>5. CASE r \in ListReqs /\ snap'[r] = CountVotesByOption
    <3>1. snap'[r][o] = Cardinality(VotesFor(o))
      BY <2>5 DEF CountVotesByOption
    <3>2. Due(r, o) \subseteq VotesFor(o)
      <4>1. Due(r, o) \subseteq votes
        BY <2>2, CountedAreStored
      <4>2. \A v \in Due(r, o) : arg[v].option = o
        BY DEF Due
      <4> QED BY <4>1, <4>2 DEF VotesFor
    <3>3. Cardinality(Due(r, o)) <= Cardinality(VotesFor(o))
      BY <3>2, Finite, FS_Subset
    <3> QED BY <1>2, <1>3, <1>4, <1>6, <2>5, <3>1, <3>3
  <2> QED BY <2>1, <2>4, <2>5
<1> QED BY <1>9, <1>10

LEMMA MonotoneStep ==
    ASSUME ServerInv, Presumed, HashInv, CountInv, SnapInv, MonotoneInv, [Next]_vars
    PROVE  MonotoneInv'
<1> SUFFICES ASSUME NEW r \in Requests \ FlakyMongo, NEW q \in before'[r] \ ListReqs,
                    snap'[q] # NoFields, snap'[r] # NoFields, NEW o \in Options
             PROVE  snap'[q][o] <= snap'[r][o]
  BY DEF MonotoneInv
<1>0. /\ BaseInv /\ snap \in [Requests -> Tallies] /\ counts \in Tallies
      /\ Filled(counts[o]) \in Nat
  BY TallyTypes DEF ServerInv, BaseInv, TypeOK
<1>1. pc[r] # "idle" /\ before'[r] = before[r]
  <2>1. pc[r] # "idle"
    BY SnapTaken DEF HashInv
  <2> QED BY <1>0, <2>1, RequestKept DEF Kept, BaseInv
<1>2. q \in Requests /\ pc[q] = "done"
  BY <1>0, <1>1 DEF BaseInv, HistoryOK, Answered, TypeOK
<1>3. snap'[q] = snap[q]
  BY <1>2, SnapTaken
<1>4. CASE snap'[r] = snap[r]
  BY <1>1, <1>3, <1>4 DEF MonotoneInv
<1>5. CASE snap'[r] # snap[r]
  <2>1. snap'[r] = Fill(counts) \/ snap'[r] = CountVotesByOption
    BY <1>5, SnapTaken
  <2>2. snap[q][o] <= Filled(counts[o]) /\ snap[q][o] \in Int
    BY <1>0, <1>2, <1>3 DEF SnapInv, Tallies, Absent
  <2>3. Filled(counts[o]) <= Cardinality(VotesFor(o)) /\ Cardinality(VotesFor(o)) \in Nat
    BY CountedAreStored, Finite
  <2>4. snap'[r][o] = Filled(counts[o]) \/ snap'[r][o] = Cardinality(VotesFor(o))
    BY <2>1 DEF Fill, CountVotesByOption
  <2> QED BY <1>0, <1>3, <2>2, <2>3, <2>4
<1> QED BY <1>4, <1>5

-----------------------------------------------------------------------------
(* Theorems.                                                               *)

LEMMA TallyInit == Init => TallyInv
<1> SUFFICES ASSUME Init PROVE HashInv /\ CountInv /\ SnapInv /\ MonotoneInv
  BY DEF TallyInv
<1>1. HashInv
  BY SubsetOfRequests DEF Init, HashInv, AfterStore
<1>2. CountInv
  <2> SUFFICES ASSUME NEW o \in Options
               PROVE  /\ Counted(o) = {} /\ VotesFor(o) \ Pending(o) = {}
                      /\ Filled(counts[o]) = 0
    BY FS_EmptySet DEF CountInv
  <2>1. Counted(o) = {}
    BY SubsetOfRequests DEF Init, Counted
  <2>2. VotesFor(o) \ Pending(o) = {} /\ Filled(counts[o]) = 0
    BY DEF Init, VotesFor, Filled, NoFields
  <2> QED BY <2>1, <2>2
<1>3. SnapInv /\ MonotoneInv
  BY DEF Init, SnapInv, MonotoneInv
<1> QED BY <1>1, <1>2, <1>3

LEMMA TallyStep ==
    ASSUME ServerInv, TallyInv, [Next]_vars, ServerInv', poll = "deleted" => poll' = "deleted"
    PROVE  TallyInv'
<1> SUFFICES ASSUME Presumed'
             PROVE  HashInv' /\ CountInv' /\ SnapInv' /\ MonotoneInv'
  BY DEF TallyInv
<1>1. Presumed
  BY PresumedBefore DEF ServerInv
<1>2. HashInv /\ CountInv /\ SnapInv /\ MonotoneInv
  BY <1>1 DEF TallyInv
<1> QED BY <1>1, <1>2, HashStep, CountStep, SnapStep, MonotoneStep

LEMMA TallyInvariant ==
    ASSUME StoresSound
    PROVE  Spec => [](ServerInv /\ TallyInv)
<1>1. ServerInv /\ TallyInv /\ [Next]_vars /\ ServerInv' /\ [poll = "deleted" => poll' = "deleted"]_vars
        => TallyInv'
  BY TallyStep DEF vars
<1> QED BY <1>1, TallyInit, ServerInvariant, DeletedForGoodHolds, PTL DEF Spec, DeletedForGood

LEMMA PresumedNow ==
    ASSUME StoresSound, SeedsApart, Alive
    PROVE  Presumed
BY DEF Presumed, Alive

\* At rest, unless a handler was cut short, the Redis hash of a poll holds exactly
\* the votes MongoDB stores: the HSETNX of CreatePoll, the increments of any number
\* of concurrent votes, and the HSETs of any number of reads that miss the hash or
\* fail to read it, but overlap no vote, lose and add nothing
\* (redis_service.go:33-89).
THEOREM CountsExactHolds == Spec => []CountsExact
<1>1. ServerInv /\ TallyInv => CountsExact
  <2> SUFFICES ASSUME ServerInv, TallyInv, StoresSound, NoneCutShort, SeedsApart, Alive, Quiet
               PROVE  counts = CountVotesByOption
    BY DEF CountsExact
  <2>1. HashInv /\ CountInv
    BY PresumedNow DEF TallyInv
  <2>2. resp[CreateReq] = 201
    <3>1. pc[CreateReq] = "done"
      BY <2>1, SubsetOfRequests DEF Quiet, InFlight, HashInv, Alive
    <3> QED BY <2>1, <3>1, SubsetOfRequests DEF HashInv, NoneCutShort, Answered, Alive
  <2>3. ASSUME NEW o \in Options PROVE counts[o] = Cardinality(VotesFor(o))
    <3>1. counts[o] # Absent
      BY <2>1, <2>2 DEF HashInv
    <3>2. ASSUME NEW v \in votes PROVE v \in CastReqs /\ resp[v] = 200
      <4>1. v \in CastReqs /\ v \in Requests /\ pc[v] # "idle"
        BY SubsetOfRequests DEF ServerInv, BaseInv, TypeOK, StorageInv, BeforeStore
      <4>2. Answered(v)
        BY <4>1 DEF Quiet, InFlight, NoneCutShort
      <4> QED BY <2>1, <4>1, <4>2, StoredAnswers
    <3>3. VotesFor(o) \subseteq Counted(o)
      BY <3>2 DEF VotesFor, Counted
    <3>4. Cardinality(VotesFor(o)) <= Cardinality(Counted(o))
      BY <3>3, Finite, FS_Subset
    <3>5. Cardinality(Counted(o)) <= Filled(counts[o]) /\ Filled(counts[o]) \in Nat
      BY <2>1, TallyTypes DEF CountInv, ServerInv, BaseInv, TypeOK
    <3>6. Filled(counts[o]) <= Cardinality(VotesFor(o))
      BY <2>1, CountedAreStored
    <3>7. Cardinality(VotesFor(o)) \in Nat /\ Cardinality(Counted(o)) \in Nat
      BY Finite
    <3>8. Filled(counts[o]) = Cardinality(VotesFor(o))
      BY <3>4, <3>5, <3>6, <3>7
    <3> QED BY <3>1, <3>8 DEF Filled
  <2>4. counts \in [Options -> Nat \cup {Absent}]
    BY DEF ServerInv, BaseInv, TypeOK, Tallies
  <2> QED BY <2>3, <2>4 DEF CountVotesByOption
<1>2. ~StoresSound => CountsExact
  BY DEF CountsExact
<1>3. CASE StoresSound
  BY <1>1, <1>3, TallyInvariant, PTL
<1>4. CASE ~StoresSound
  BY <1>2, <1>4, PTL
<1> QED BY <1>3, <1>4

\* Every tally in a response has all votes answered before the request came,
\* its own vote included, and no vote that is not stored, although the handler
\* reads it in one call and MongoDB is written in another.
THEOREM TallyBracketedHolds == Spec => []TallyBracketed
<1>1. ServerInv /\ TallyInv => TallyBracketed
  <2> SUFFICES ASSUME ServerInv, TallyInv, StoresSound, SeedsApart, Alive,
                      NEW r \in Requests \ FlakyMongo, NEW o \in Options, snap[r] # NoFields
               PROVE  /\ Cardinality({v \in before[r] \cup {r} :
                                        Accepted(v) /\ arg[v].option = o}) <= snap[r][o]
                      /\ snap[r][o] <= Cardinality(VotesFor(o))
    BY DEF TallyBracketed
  <2> DEFINE Seen == {v \in before[r] \cup {r} : Accepted(v) /\ arg[v].option = o}
  <2>1. SnapInv
    BY PresumedNow DEF TallyInv
  <2>2. Cardinality(Due(r, o)) <= snap[r][o] /\ snap[r][o] <= Cardinality(VotesFor(o))
    BY <2>1 DEF SnapInv
  <2>3. Seen \subseteq Due(r, o)
    BY DEF Due, Accepted
  <2>4. IsFiniteSet(Due(r, o)) /\ Cardinality(Due(r, o)) \in Nat
    BY RequestAssumption, FS_Subset, FS_CardinalityType DEF Due
  <2>5. Cardinality(Seen) <= Cardinality(Due(r, o)) /\ Cardinality(Seen) \in Nat
    BY <2>3, <2>4, FS_Subset, FS_CardinalityType
  <2>6. snap[r][o] \in Int
    BY DEF ServerInv, BaseInv, TypeOK, Tallies, Absent
  <2> QED BY <2>2, <2>4, <2>5, <2>6
<1>2. ~StoresSound => TallyBracketed
  BY DEF TallyBracketed
<1>3. CASE StoresSound
  BY <1>1, <1>3, TallyInvariant, PTL
<1>4. CASE ~StoresSound
  BY <1>2, <1>4, PTL
<1> QED BY <1>3, <1>4

\* Who asks again after an answer never sees a count go down, from whichever
\* endpoint, GetMyPolls excepted as the first of the two.
THEOREM TallyMonotoneHolds == Spec => []TallyMonotone
<1>1. ServerInv /\ TallyInv => TallyMonotone
  BY PresumedNow DEF TallyInv, TallyMonotone, MonotoneInv
<1>2. ~StoresSound => TallyMonotone
  BY DEF TallyMonotone
<1>3. CASE StoresSound
  BY <1>1, <1>3, TallyInvariant, PTL
<1>4. CASE ~StoresSound
  BY <1>2, <1>4, PTL
<1> QED BY <1>3, <1>4

==============================================================================
