-------------------------- MODULE PollServerProofs --------------------------
(***************************************************************************)
(* Theorems of PollServer for every poll, every set of requests and every  *)
(* choice of the calls that may fail.                                      *)
(***************************************************************************)
EXTENDS PollServer, FiniteSetTheorems, TLAPS

CastCalls   == {"sismember", "sadd", "hasVoted", "insert", "hincrby", "hgetall", "publish"}
ReadCalls   == {"readCounts", "aggregate", "sync"}
ListCalls   == {"listCounts", "listAggregate"}
DeleteCalls == {"deletePoll", "deleteVotes", "delCounts", "delVoters"}

\* A handler only makes the calls of its own endpoint.
KindOK ==
    \A r \in Requests :
        /\ pc[r] \in CastCalls => r \in CastReqs
        /\ pc[r] \in ReadCalls => r \in ResultsReqs \cup LoadReqs
        /\ pc[r] = "readVoted" => r \in LoadReqs
        /\ pc[r] \in ListCalls => r \in ListReqs
        /\ pc[r] = "setStatus" => r \in CloseReqs \cup ReopenReqs
        /\ pc[r] \in DeleteCalls => r \in DeleteReqs
        /\ pc[r] = "hsetnx" => r = CreateReq
        /\ pc[r] = "sadd" => VoterIdentifier(arg[r]) # Empty

LEMMA SubsetOfRequests ==
    /\ CreateReq \in Requests
    /\ CastReqs \subseteq Requests
    /\ ResultsReqs \subseteq Requests
    /\ LoadReqs \subseteq Requests
    /\ ListReqs \subseteq Requests
    /\ CloseReqs \cup ReopenReqs \subseteq Requests
    /\ DeleteReqs \subseteq Requests
BY DEF Requests

\* CountVotesByOption and the other tallies are tallies.
LEMMA TallyTypes ==
    /\ NoFields \in Tallies
    /\ Zeros \in Tallies
    /\ NoFields # Zeros
    /\ \A t \in Tallies : Fill(t) \in Tallies
    /\ \A t \in Tallies : \A o \in Options : Filled(t[o]) \in Nat
BY OptionsAssumption DEF NoFields, Zeros, Tallies, Fill, Filled, Absent, Options


LEMMA HSetType ==
    ASSUME counts \in Tallies, NEW o, NEW n, o \in Options => n \in Nat
    PROVE  HSet(o, n) \in Tallies
BY DEF HSet, Tallies

LEMMA CountType ==
    ASSUME votes \subseteq CastReqs
    PROVE  CountVotesByOption \in Tallies /\ CountVotesByOption # NoFields
<1>1. ASSUME NEW o \in Options
      PROVE  Cardinality(VotesFor(o)) \in Nat
  <2>1. IsFiniteSet(VotesFor(o))
    BY FS_Subset, RequestAssumption DEF VotesFor
  <2> QED BY <2>1, FS_CardinalityType
<1> QED
  BY <1>1, OptionsAssumption DEF CountVotesByOption, Tallies, NoFields, Absent, Options

-----------------------------------------------------------------------------
(* Types, and which handler makes which call.                              *)

Codes == {0, 200, 201, 400, 403, 404, 409, 500}

Senders == [option : 0 .. NumOptions, fp : Fingerprints \cup {Empty}, ip : IPs \cup {Empty}]

ControlOK == pc \in [Requests -> Steps] /\ resp \in [Requests -> Codes]

LEMMA TypeInit == Init => TypeOK /\ KindOK
<1> SUFFICES ASSUME Init PROVE TypeOK /\ KindOK
  OBVIOUS
<1>1. /\ poll \in {"none", "active", "closed", "deleted"}
      /\ expired \in BOOLEAN
      /\ votes \subseteq CastReqs
      /\ voted \subseteq LoadReqs
      /\ voters \subseteq (Fingerprints \cup IPs) \ {Empty}
      /\ before \in [Requests -> SUBSET Requests]
  BY DEF Init
<1>2. counts \in Tallies /\ event \in Tallies /\ snap \in [Requests -> Tallies]
  BY TallyTypes DEF Init
<1>3. ControlOK
  BY DEF Init, ControlOK, Steps, Codes
<1>4. idx \in [Requests -> Options] /\ arg \in [Requests -> Senders]
  BY OptionsAssumption DEF Init, Options, Senders
<1>5. TypeOK
  BY <1>1, <1>2, <1>3, <1>4 DEF TypeOK, ControlOK, Codes, Senders
<1>6. KindOK
  BY DEF Init, KindOK, CastCalls, ReadCalls, ListCalls, DeleteCalls
<1> QED BY <1>5, <1>6

LEMMA GotoType ==
    ASSUME TypeOK, NEW r \in Requests, NEW call \in Steps, Goto(r, call)
    PROVE  ControlOK'
BY DEF TypeOK, ControlOK, Codes, Goto

LEMMA AnswerType ==
    ASSUME TypeOK, NEW r \in Requests, NEW s \in Codes, Answer(r, s)
    PROVE  ControlOK'
BY DEF TypeOK, ControlOK, Codes, Answer, Steps

LEMMA ArriveType ==
    ASSUME TypeOK, NEW r \in Requests, Arrive(r)
    PROVE  before' \in [Requests -> SUBSET Requests]
BY DEF TypeOK, Arrive, Start

LEMMA SenderType ==
    ASSUME TypeOK, NEW r \in Requests, NEW c \in Clients, NEW o \in 0 .. NumOptions,
           arg' = [arg EXCEPT ![r] = [option |-> o, fp |-> c.fp, ip |-> c.ip]]
    PROVE  arg' \in [Requests -> Senders]
BY InputAssumption DEF TypeOK, Senders

LEMMA SnapType ==
    ASSUME TypeOK, NEW r \in Requests, NEW t \in Tallies, snap' = [snap EXCEPT ![r] = t]
    PROVE  snap' \in [Requests -> Tallies]
BY DEF TypeOK

LEMMA PipelineType ==
    ASSUME TypeOK, NEW r \in Requests, ~AtLastOption(r),
           idx' = [idx EXCEPT ![r] = @ + 1]
    PROVE  idx' \in [Requests -> Options]
<1>1. idx \in [Requests -> Options]
  BY DEF TypeOK
<1>2. idx[r] + 1 \in Options
  BY <1>1, OptionsAssumption DEF AtLastOption, Options
<1> QED BY <1>1, <1>2

LEMMA TypeStep ==
    ASSUME TypeOK, KindOK, [Next]_vars
    PROVE  TypeOK'
<1> USE SubsetOfRequests
<1>1. ASSUME NEW r \in {CreateReq}, CreateInsert(r) PROVE TypeOK'
  <2>1. ControlOK'
    BY <1>1, GotoType, AnswerType DEF CreateInsert, Codes, Steps
  <2>2. poll' \in {"none", "active", "closed", "deleted"}
    BY <1>1 DEF CreateInsert, TypeOK
  <2> QED
    BY <1>1, <2>1, <2>2 DEF CreateInsert, TypeOK, ControlOK, Codes, Senders, stores
<1>2. ASSUME NEW r \in CastReqs, CastFind(r) PROVE TypeOK'
  <2>1. ControlOK'
    BY <1>2, GotoType, AnswerType DEF CastFind, Codes, Steps
  <2>2. before' \in [Requests -> SUBSET Requests]
    BY <1>2, ArriveType DEF CastFind
  <2>3. arg' \in [Requests -> Senders]
    BY <1>2, SenderType, InputAssumption DEF CastFind
  <2> QED
    BY <1>2, <2>1, <2>2, <2>3 DEF CastFind, TypeOK, ControlOK, Codes, Senders, stores
<1>3. ASSUME NEW r \in ResultsReqs, ResultsFind(r) PROVE TypeOK'
  <2>1. ControlOK'
    BY <1>3, GotoType, AnswerType DEF ResultsFind, Codes, Steps
  <2>2. before' \in [Requests -> SUBSET Requests]
    BY <1>3, ArriveType DEF ResultsFind
  <2> QED
    BY <1>3, <2>1, <2>2 DEF ResultsFind, TypeOK, ControlOK, Codes, Senders, stores
<1>4. ASSUME NEW r \in LoadReqs, LoadFind(r) PROVE TypeOK'
  <2>1. ControlOK'
    BY <1>4, GotoType, AnswerType DEF LoadFind, Codes, Steps
  <2>2. before' \in [Requests -> SUBSET Requests]
    BY <1>4, ArriveType DEF LoadFind
  <2>3. 0 \in 0 .. NumOptions
    BY <1>4, OptionsAssumption
  <2>4. arg' \in [Requests -> Senders]
    BY <1>4, <2>3, SenderType DEF LoadFind
  <2> QED
    BY <1>4, <2>1, <2>2, <2>3, <2>4 DEF LoadFind, TypeOK, ControlOK, Codes, Senders, stores
<1>5. ASSUME NEW r \in ListReqs, ListFind(r) PROVE TypeOK'
  <2>1. ControlOK'
    BY <1>5, GotoType, AnswerType DEF ListFind, Codes, Steps
  <2>2. before' \in [Requests -> SUBSET Requests]
    BY <1>5, ArriveType DEF ListFind
  <2> QED
    BY <1>5, <2>1, <2>2 DEF ListFind, TypeOK, ControlOK, Codes, Senders, stores
<1>6. ASSUME NEW r \in CloseReqs \cup ReopenReqs, StatusFind(r) PROVE TypeOK'
  <2>1. ControlOK'
    BY <1>6, GotoType, AnswerType DEF StatusFind, Codes, Steps
  <2> QED
    BY <1>6, <2>1 DEF StatusFind, TypeOK, ControlOK, Codes, Senders, stores
<1>7. ASSUME NEW r \in DeleteReqs, DeleteFind(r) PROVE TypeOK'
  <2>1. ControlOK'
    BY <1>7, GotoType, AnswerType DEF DeleteFind, Codes, Steps
  <2> QED
    BY <1>7, <2>1 DEF DeleteFind, TypeOK, ControlOK, Codes, Senders, stores
<1>8. ASSUME NEW r \in Requests, CreateInit(r) PROVE TypeOK'
  <2>1. ControlOK'
    BY <1>8, GotoType, AnswerType DEF CreateInit, Codes, Steps
  <2>2. idx' \in [Requests -> Options]
    BY <1>8, PipelineType DEF CreateInit, TypeOK
  <2>3. counts' \in Tallies
    BY <1>8, HSetType, TallyTypes DEF CreateInit, HSetNX, TypeOK
  <2> QED
    BY <1>8, <2>1, <2>2, <2>3 DEF CreateInit, TypeOK, ControlOK, Codes, Senders, stores
<1>9. ASSUME NEW r \in Requests, CastIsMember(r) PROVE TypeOK'
  <2>1. ControlOK'
    BY <1>9, GotoType, AnswerType DEF CastIsMember, Codes, Steps
  <2> QED
    BY <1>9, <2>1 DEF CastIsMember, TypeOK, ControlOK, Codes, Senders, stores
<1>10. ASSUME NEW r \in Requests, CastAdd(r) PROVE TypeOK'
  <2>1. ControlOK'
    BY <1>10, GotoType, AnswerType DEF CastAdd, Codes, Steps
  <2>2. voters' \subseteq (Fingerprints \cup IPs) \ {Empty}
    BY <1>10 DEF CastAdd, TypeOK, KindOK, VoterIdentifier
  <2> QED
    BY <1>10, <2>1, <2>2 DEF CastAdd, TypeOK, ControlOK, Codes, Senders, stores
<1>11. ASSUME NEW r \in Requests, CastHasVoted(r) PROVE TypeOK'
  <2>1. ControlOK'
    BY <1>11, GotoType, AnswerType DEF CastHasVoted, Codes, Steps
  <2> QED
    BY <1>11, <2>1 DEF CastHasVoted, TypeOK, ControlOK, Codes, Senders, stores
<1>12. ASSUME NEW r \in Requests, CastInsert(r) PROVE TypeOK'
  <2>1. ControlOK'
    BY <1>12, GotoType, AnswerType DEF CastInsert, Codes, Steps
  <2>2. votes' \subseteq CastReqs
    BY <1>12 DEF CastInsert, TypeOK, KindOK, CastCalls
  <2> QED
    BY <1>12, <2>1, <2>2 DEF CastInsert, TypeOK, ControlOK, Codes, Senders, stores
<1>13. ASSUME NEW r \in Requests, CastIncrement(r) PROVE TypeOK'
  <2>1. ControlOK'
    BY <1>13, GotoType, AnswerType DEF CastIncrement, Codes, Steps
  <2>2. counts' \in Tallies
    BY <1>13, HSetType, TallyTypes, SMTT(30) DEF CastIncrement, HIncrBy, TypeOK
  <2> QED
    BY <1>13, <2>1, <2>2 DEF CastIncrement, TypeOK, ControlOK, Codes, Senders, stores
<1>14. ASSUME NEW r \in Requests, CastGetVotes(r) PROVE TypeOK'
  <2>1. ControlOK'
    BY <1>14, GotoType, AnswerType DEF CastGetVotes, Codes, Steps
  <2>2. snap' \in [Requests -> Tallies]
    BY <1>14, SnapType, TallyTypes DEF CastGetVotes, TypeOK
  <2> QED
    BY <1>14, <2>1, <2>2 DEF CastGetVotes, TypeOK, ControlOK, Codes, Senders, stores
<1>15. ASSUME NEW r \in Requests, CastPublish(r) PROVE TypeOK'
  <2>1. ControlOK'
    BY <1>15, GotoType, AnswerType DEF CastPublish, Codes, Steps
  <2>2. event' \in Tallies
    BY <1>15 DEF CastPublish, TypeOK
  <2> QED
    BY <1>15, <2>1, <2>2 DEF CastPublish, TypeOK, ControlOK, Codes, Senders, stores
<1>16. ASSUME NEW r \in Requests, ReadCounts(r) PROVE TypeOK'
  <2>1. ControlOK'
    BY <1>16, GotoType, AnswerType DEF ReadCounts, TallyRead, Codes, Steps
  <2>2. snap' \in [Requests -> Tallies]
    BY <1>16, SnapType, TallyTypes DEF ReadCounts, TypeOK
  <2> QED
    BY <1>16, <2>1, <2>2 DEF ReadCounts, TypeOK, ControlOK, Codes, Senders, stores
<1>17. ASSUME NEW r \in Requests, ReadAggregate(r) PROVE TypeOK'
  <2>1. ControlOK'
    BY <1>17, GotoType, AnswerType DEF ReadAggregate, Codes, Steps
  <2>2. snap' \in [Requests -> Tallies]
    BY <1>17, SnapType, CountType DEF ReadAggregate, TypeOK
  <2> QED
    BY <1>17, <2>1, <2>2 DEF ReadAggregate, TypeOK, ControlOK, Codes, Senders, stores
<1>18. ASSUME NEW r \in Requests, ReadSync(r) PROVE TypeOK'
  <2>1. ControlOK'
    BY <1>18, GotoType, AnswerType DEF ReadSync, TallyRead, Codes, Steps
  <2>2. idx' \in [Requests -> Options]
    BY <1>18, PipelineType DEF ReadSync, TypeOK
  <2>3. Synced(r) \in Nat /\ counts \in Tallies
    <3>1. snap[r] \in Tallies /\ idx[r] \in Options
      BY DEF TypeOK
    <3> QED BY <3>1, TallyTypes DEF Synced, TypeOK
  <2>4. counts' \in Tallies
    BY <1>18, <2>3, HSetType DEF ReadSync
  <2> QED
    BY <1>18, <2>1, <2>2, <2>4 DEF ReadSync, TypeOK, ControlOK, Codes, Senders, stores
<1>19. ASSUME NEW r \in Requests, LoadHasVoted(r) PROVE TypeOK'
  <2>1. ControlOK'
    BY <1>19, GotoType, AnswerType DEF LoadHasVoted, Codes, Steps
  <2>2. voted' \subseteq LoadReqs
    BY <1>19 DEF LoadHasVoted, TypeOK, KindOK
  <2> QED
    BY <1>19, <2>1, <2>2 DEF LoadHasVoted, TypeOK, ControlOK, Codes, Senders, stores
<1>20. ASSUME NEW r \in Requests, ListCounts(r) PROVE TypeOK'
  <2>1. ControlOK'
    BY <1>20, GotoType, AnswerType DEF ListCounts, Codes, Steps
  <2>2. snap' \in [Requests -> Tallies]
    BY <1>20, SnapType, TallyTypes DEF ListCounts, TypeOK
  <2> QED
    BY <1>20, <2>1, <2>2 DEF ListCounts, TypeOK, ControlOK, Codes, Senders, stores
<1>21. ASSUME NEW r \in Requests, ListAggregate(r) PROVE TypeOK'
  <2>1. ControlOK'
    BY <1>21, GotoType, AnswerType DEF ListAggregate, Codes, Steps
  <2>2. snap' \in [Requests -> Tallies]
    BY <1>21, SnapType, CountType, TallyTypes DEF ListAggregate, TypeOK
  <2> QED
    BY <1>21, <2>1, <2>2 DEF ListAggregate, TypeOK, ControlOK, Codes, Senders, stores
<1>22. ASSUME NEW r \in Requests, StatusSet(r) PROVE TypeOK'
  <2>1. ControlOK'
    BY <1>22, GotoType, AnswerType DEF StatusSet, Codes, Steps
  <2>2. poll' \in {"none", "active", "closed", "deleted"}
    BY <1>22 DEF StatusSet, TypeOK, UpdateStatus, Requested
  <2> QED
    BY <1>22, <2>1, <2>2 DEF StatusSet, TypeOK, ControlOK, Codes, Senders, stores
<1>23. ASSUME NEW r \in Requests, DeletePollDoc(r) PROVE TypeOK'
  <2>1. ControlOK'
    BY <1>23, GotoType, AnswerType DEF DeletePollDoc, Codes, Steps
  <2>2. poll' \in {"none", "active", "closed", "deleted"}
    BY <1>23 DEF DeletePollDoc, TypeOK
  <2> QED
    BY <1>23, <2>1, <2>2 DEF DeletePollDoc, TypeOK, ControlOK, Codes, Senders, stores
<1>24. ASSUME NEW r \in Requests, DeleteVotes(r) PROVE TypeOK'
  <2>1. ControlOK'
    BY <1>24, GotoType, AnswerType DEF DeleteVotes, Codes, Steps
  <2>2. votes' \subseteq CastReqs
    BY <1>24 DEF DeleteVotes, TypeOK
  <2> QED
    BY <1>24, <2>1, <2>2 DEF DeleteVotes, TypeOK, ControlOK, Codes, Senders, stores
<1>25. ASSUME NEW r \in Requests, DeleteCounts(r) PROVE TypeOK'
  <2>1. ControlOK'
    BY <1>25, GotoType, AnswerType DEF DeleteCounts, Codes, Steps
  <2>2. counts' \in Tallies
    BY <1>25, TallyTypes DEF DeleteCounts, TypeOK
  <2> QED
    BY <1>25, <2>1, <2>2 DEF DeleteCounts, TypeOK, ControlOK, Codes, Senders, stores
<1>26. ASSUME NEW r \in Requests, DeleteVoters(r) PROVE TypeOK'
  <2>1. ControlOK'
    BY <1>26, GotoType, AnswerType DEF DeleteVoters, Codes, Steps
  <2>2. voters' \subseteq (Fingerprints \cup IPs) \ {Empty}
    BY <1>26 DEF DeleteVoters, TypeOK
  <2> QED
    BY <1>26, <2>1, <2>2 DEF DeleteVoters, TypeOK, ControlOK, Codes, Senders, stores
<1>27. CASE Expire
  BY <1>27 DEF Expire, requests, TypeOK
<1>28. CASE EvictCounts
  BY <1>28, TallyTypes DEF EvictCounts, requests, TypeOK
<1>29. CASE EvictVoters
  BY <1>29 DEF EvictVoters, requests, TypeOK
<1>30. CASE Crash
  BY <1>30 DEF Crash, InFlight, stores, Steps, TypeOK
<1>31. CASE UNCHANGED vars
  BY <1>31 DEF vars, TypeOK
<1> QED
  BY <1>1, <1>2, <1>3, <1>4, <1>5, <1>6, <1>7, <1>8, <1>9, <1>10,
     <1>11, <1>12, <1>13, <1>14, <1>15, <1>16, <1>17, <1>18, <1>19,
     <1>20, <1>21, <1>22, <1>23, <1>24, <1>25, <1>26, <1>27, <1>28,
     <1>29, <1>30, <1>31
  DEF Next, Arrivals, Advance, CastStep, ReadStep, DeleteStep, Rest

LEMMA KindStep ==
    ASSUME TypeOK, KindOK, [Next]_vars
    PROVE  KindOK'
<1> USE SubsetOfRequests DEF KindOK, CastCalls, ReadCalls, ListCalls, DeleteCalls
<1>1. ASSUME NEW r \in {CreateReq}, CreateInsert(r) PROVE KindOK'
  BY <1>1 DEF CreateInsert, TypeOK, Goto, Answer
<1>2. ASSUME NEW r \in CastReqs, CastFind(r) PROVE KindOK'
  BY <1>2 DEF CastFind, TypeOK, Goto, Answer, Arrive, Start
<1>3. ASSUME NEW r \in ResultsReqs, ResultsFind(r) PROVE KindOK'
  BY <1>3 DEF ResultsFind, TypeOK, Goto, Answer, Arrive, Start
<1>4. ASSUME NEW r \in LoadReqs, LoadFind(r) PROVE KindOK'
  BY <1>4 DEF LoadFind, TypeOK, Goto, Answer, Arrive, Start
<1>5. ASSUME NEW r \in ListReqs, ListFind(r) PROVE KindOK'
  BY <1>5 DEF ListFind, TypeOK, Goto, Answer, Arrive, Start
<1>6. ASSUME NEW r \in CloseReqs \cup ReopenReqs, StatusFind(r) PROVE KindOK'
  BY <1>6 DEF StatusFind, TypeOK, Goto, Answer, Start
<1>7. ASSUME NEW r \in DeleteReqs, DeleteFind(r) PROVE KindOK'
  BY <1>7 DEF DeleteFind, TypeOK, Goto, Answer, Start
<1>8. ASSUME NEW r \in Requests, CreateInit(r) PROVE KindOK'
  BY <1>8 DEF CreateInit, TypeOK, Goto, Answer
<1>9. ASSUME NEW r \in Requests, CastIsMember(r) PROVE KindOK'
  BY <1>9 DEF CastIsMember, TypeOK, Goto, Answer
<1>10. ASSUME NEW r \in Requests, CastAdd(r) PROVE KindOK'
  BY <1>10 DEF CastAdd, TypeOK, Goto, Answer
<1>11. ASSUME NEW r \in Requests, CastHasVoted(r) PROVE KindOK'
  BY <1>11 DEF CastHasVoted, TypeOK, Goto, Answer
<1>12. ASSUME NEW r \in Requests, CastInsert(r) PROVE KindOK'
  BY <1>12 DEF CastInsert, TypeOK, Goto, Answer
<1>13. ASSUME NEW r \in Requests, CastIncrement(r) PROVE KindOK'
  BY <1>13 DEF CastIncrement, TypeOK, Goto, Answer
<1>14. ASSUME NEW r \in Requests, CastGetVotes(r) PROVE KindOK'
  BY <1>14 DEF CastGetVotes, TypeOK, Goto, Answer
<1>15. ASSUME NEW r \in Requests, CastPublish(r) PROVE KindOK'
  BY <1>15 DEF CastPublish, TypeOK, Goto, Answer
<1>16. ASSUME NEW r \in Requests, ReadCounts(r) PROVE KindOK'
  BY <1>16 DEF ReadCounts, TypeOK, Goto, Answer, TallyRead
<1>17. ASSUME NEW r \in Requests, ReadAggregate(r) PROVE KindOK'
  BY <1>17 DEF ReadAggregate, TypeOK, Goto, Answer
<1>18. ASSUME NEW r \in Requests, ReadSync(r) PROVE KindOK'
  BY <1>18 DEF ReadSync, TypeOK, Goto, Answer, TallyRead
<1>19. ASSUME NEW r \in Requests, LoadHasVoted(r) PROVE KindOK'
  BY <1>19 DEF LoadHasVoted, TypeOK, Goto, Answer
<1>20. ASSUME NEW r \in Requests, ListCounts(r) PROVE KindOK'
  BY <1>20 DEF ListCounts, TypeOK, Goto, Answer
<1>21. ASSUME NEW r \in Requests, ListAggregate(r) PROVE KindOK'
  BY <1>21 DEF ListAggregate, TypeOK, Goto, Answer
<1>22. ASSUME NEW r \in Requests, StatusSet(r) PROVE KindOK'
  BY <1>22 DEF StatusSet, TypeOK, Goto, Answer
<1>23. ASSUME NEW r \in Requests, DeletePollDoc(r) PROVE KindOK'
  BY <1>23 DEF DeletePollDoc, TypeOK, Goto, Answer
<1>24. ASSUME NEW r \in Requests, DeleteVotes(r) PROVE KindOK'
  BY <1>24 DEF DeleteVotes, TypeOK, Goto, Answer
<1>25. ASSUME NEW r \in Requests, DeleteCounts(r) PROVE KindOK'
  BY <1>25 DEF DeleteCounts, TypeOK, Goto, Answer
<1>26. ASSUME NEW r \in Requests, DeleteVoters(r) PROVE KindOK'
  BY <1>26 DEF DeleteVoters, TypeOK, Goto, Answer
<1>27. CASE Expire
  BY <1>27 DEF Expire, requests
<1>28. CASE EvictCounts
  BY <1>28 DEF EvictCounts, requests
<1>29. CASE EvictVoters
  BY <1>29 DEF EvictVoters, requests
<1>30. CASE Crash
  BY <1>30 DEF Crash, InFlight, TypeOK
<1>31. CASE UNCHANGED vars
  BY <1>31 DEF vars
<1> QED
  BY <1>1, <1>2, <1>3, <1>4, <1>5, <1>6, <1>7, <1>8, <1>9, <1>10,
     <1>11, <1>12, <1>13, <1>14, <1>15, <1>16, <1>17, <1>18, <1>19,
     <1>20, <1>21, <1>22, <1>23, <1>24, <1>25, <1>26, <1>27, <1>28,
     <1>29, <1>30, <1>31
  DEF Next, Arrivals, Advance, CastStep, ReadStep, DeleteStep, Rest

\* Every variable keeps to its type, whatever fails.
THEOREM TypeCorrect == Spec => []TypeOK
<1>1. TypeOK /\ KindOK /\ [Next]_vars => TypeOK' /\ KindOK'
  BY TypeStep, KindStep
<1> QED BY TypeInit, <1>1, PTL DEF Spec

-----------------------------------------------------------------------------
(* Who moves a request, and who changes the stores.                        *)

\* What the step does to q, it does as a step of q's own handler.
Own(q) ==
    \/ q = CreateReq /\ CreateInsert(q)
    \/ q \in CastReqs /\ CastFind(q)
    \/ q \in ResultsReqs /\ ResultsFind(q)
    \/ q \in LoadReqs /\ LoadFind(q)
    \/ q \in ListReqs /\ ListFind(q)
    \/ q \in CloseReqs \cup ReopenReqs /\ StatusFind(q)
    \/ q \in DeleteReqs /\ DeleteFind(q)
    \/ Advance(q)

Still(q) == UNCHANGED <<pc[q], resp[q], arg[q], before[q]>>

LEMMA OwnerMoves ==
    ASSUME TypeOK, [Next]_vars, NEW q \in Requests
    PROVE  Still(q) \/ Crash \/ Own(q)
<1> USE SubsetOfRequests DEF TypeOK, Goto, Answer, Arrive, Start, stores, Still
<1>1. ASSUME NEW r \in {CreateReq}, CreateInsert(r) PROVE Still(q) \/ Own(q)
  <2>1. CASE r = q
    BY <1>1, <2>1 DEF Own
  <2>2. CASE r # q
    BY <1>1, <2>2 DEF CreateInsert
  <2> QED BY <2>1, <2>2
<1>2. ASSUME NEW r \in CastReqs, CastFind(r) PROVE Still(q) \/ Own(q)
  <2>1. CASE r = q
    BY <1>2, <2>1 DEF Own
  <2>2. CASE r # q
    BY <1>2, <2>2 DEF CastFind
  <2> QED BY <2>1, <2>2
<1>3. ASSUME NEW r \in ResultsReqs, ResultsFind(r) PROVE Still(q) \/ Own(q)
  <2>1. CASE r = q
    BY <1>3, <2>1 DEF Own
  <2>2. CASE r # q
    BY <1>3, <2>2 DEF ResultsFind
  <2> QED BY <2>1, <2>2
<1>4. ASSUME NEW r \in LoadReqs, LoadFind(r) PROVE Still(q) \/ Own(q)
  <2>1. CASE r = q
    BY <1>4, <2>1 DEF Own
  <2>2. CASE r # q
    BY <1>4, <2>2 DEF LoadFind
  <2> QED BY <2>1, <2>2
<1>5. ASSUME NEW r \in ListReqs, ListFind(r) PROVE Still(q) \/ Own(q)
  <2>1. CASE r = q
    BY <1>5, <2>1 DEF Own
  <2>2. CASE r # q
    BY <1>5, <2>2 DEF ListFind
  <2> QED BY <2>1, <2>2
<1>6. ASSUME NEW r \in CloseReqs \cup ReopenReqs, StatusFind(r) PROVE Still(q) \/ Own(q)
  <2>1. CASE r = q
    BY <1>6, <2>1 DEF Own
  <2>2. CASE r # q
    BY <1>6, <2>2 DEF StatusFind
  <2> QED BY <2>1, <2>2
<1>7. ASSUME NEW r \in DeleteReqs, DeleteFind(r) PROVE Still(q) \/ Own(q)
  <2>1. CASE r = q
    BY <1>7, <2>1 DEF Own
  <2>2. CASE r # q
    BY <1>7, <2>2 DEF DeleteFind
  <2> QED BY <2>1, <2>2
<1>8. ASSUME NEW r \in Requests, CreateInit(r) PROVE Still(q) \/ Own(q)
  <2>1. CASE r = q
    BY <1>8, <2>1 DEF Own, Advance, CastStep, ReadStep, DeleteStep
  <2>2. CASE r # q
    BY <1>8, <2>2 DEF CreateInit
  <2> QED BY <2>1, <2>2
<1>9. ASSUME NEW r \in Requests, CastIsMember(r) PROVE Still(q) \/ Own(q)
  <2>1. CASE r = q
    BY <1>9, <2>1 DEF Own, Advance, CastStep, ReadStep, DeleteStep
  <2>2. CASE r # q
    BY <1>9, <2>2 DEF CastIsMember
  <2> QED BY <2>1, <2>2
<1>10. ASSUME NEW r \in Requests, CastAdd(r) PROVE Still(q) \/ Own(q)
  <2>1. CASE r = q
    BY <1>10, <2>1 DEF Own, Advance, CastStep, ReadStep, DeleteStep
  <2>2. CASE r # q
    BY <1>10, <2>2 DEF CastAdd
  <2> QED BY <2>1, <2>2
<1>11. ASSUME NEW r \in Requests, CastHasVoted(r) PROVE Still(q) \/ Own(q)
  <2>1. CASE r = q
    BY <1>11, <2>1 DEF Own, Advance, CastStep, ReadStep, DeleteStep
  <2>2. CASE r # q
    BY <1>11, <2>2 DEF CastHasVoted
  <2> QED BY <2>1, <2>2
<1>12. ASSUME NEW r \in Requests, CastInsert(r) PROVE Still(q) \/ Own(q)
  <2>1. CASE r = q
    BY <1>12, <2>1 DEF Own, Advance, CastStep, ReadStep, DeleteStep
  <2>2. CASE r # q
    BY <1>12, <2>2 DEF CastInsert
  <2> QED BY <2>1, <2>2
<1>13. ASSUME NEW r \in Requests, CastIncrement(r) PROVE Still(q) \/ Own(q)
  <2>1. CASE r = q
    BY <1>13, <2>1 DEF Own, Advance, CastStep, ReadStep, DeleteStep
  <2>2. CASE r # q
    BY <1>13, <2>2 DEF CastIncrement
  <2> QED BY <2>1, <2>2
<1>14. ASSUME NEW r \in Requests, CastGetVotes(r) PROVE Still(q) \/ Own(q)
  <2>1. CASE r = q
    BY <1>14, <2>1 DEF Own, Advance, CastStep, ReadStep, DeleteStep
  <2>2. CASE r # q
    BY <1>14, <2>2 DEF CastGetVotes
  <2> QED BY <2>1, <2>2
<1>15. ASSUME NEW r \in Requests, CastPublish(r) PROVE Still(q) \/ Own(q)
  <2>1. CASE r = q
    BY <1>15, <2>1 DEF Own, Advance, CastStep, ReadStep, DeleteStep
  <2>2. CASE r # q
    BY <1>15, <2>2 DEF CastPublish
  <2> QED BY <2>1, <2>2
<1>16. ASSUME NEW r \in Requests, ReadCounts(r) PROVE Still(q) \/ Own(q)
  <2>1. CASE r = q
    BY <1>16, <2>1 DEF Own, Advance, CastStep, ReadStep, DeleteStep
  <2>2. CASE r # q
    BY <1>16, <2>2 DEF ReadCounts, TallyRead
  <2> QED BY <2>1, <2>2
<1>17. ASSUME NEW r \in Requests, ReadAggregate(r) PROVE Still(q) \/ Own(q)
  <2>1. CASE r = q
    BY <1>17, <2>1 DEF Own, Advance, CastStep, ReadStep, DeleteStep
  <2>2. CASE r # q
    BY <1>17, <2>2 DEF ReadAggregate
  <2> QED BY <2>1, <2>2
<1>18. ASSUME NEW r \in Requests, ReadSync(r) PROVE Still(q) \/ Own(q)
  <2>1. CASE r = q
    BY <1>18, <2>1 DEF Own, Advance, CastStep, ReadStep, DeleteStep
  <2>2. CASE r # q
    BY <1>18, <2>2 DEF ReadSync, TallyRead
  <2> QED BY <2>1, <2>2
<1>19. ASSUME NEW r \in Requests, LoadHasVoted(r) PROVE Still(q) \/ Own(q)
  <2>1. CASE r = q
    BY <1>19, <2>1 DEF Own, Advance, CastStep, ReadStep, DeleteStep
  <2>2. CASE r # q
    BY <1>19, <2>2 DEF LoadHasVoted
  <2> QED BY <2>1, <2>2
<1>20. ASSUME NEW r \in Requests, ListCounts(r) PROVE Still(q) \/ Own(q)
  <2>1. CASE r = q
    BY <1>20, <2>1 DEF Own, Advance, CastStep, ReadStep, DeleteStep
  <2>2. CASE r # q
    BY <1>20, <2>2 DEF ListCounts
  <2> QED BY <2>1, <2>2
<1>21. ASSUME NEW r \in Requests, ListAggregate(r) PROVE Still(q) \/ Own(q)
  <2>1. CASE r = q
    BY <1>21, <2>1 DEF Own, Advance, CastStep, ReadStep, DeleteStep
  <2>2. CASE r # q
    BY <1>21, <2>2 DEF ListAggregate
  <2> QED BY <2>1, <2>2
<1>22. ASSUME NEW r \in Requests, StatusSet(r) PROVE Still(q) \/ Own(q)
  <2>1. CASE r = q
    BY <1>22, <2>1 DEF Own, Advance, CastStep, ReadStep, DeleteStep
  <2>2. CASE r # q
    BY <1>22, <2>2 DEF StatusSet
  <2> QED BY <2>1, <2>2
<1>23. ASSUME NEW r \in Requests, DeletePollDoc(r) PROVE Still(q) \/ Own(q)
  <2>1. CASE r = q
    BY <1>23, <2>1 DEF Own, Advance, CastStep, ReadStep, DeleteStep
  <2>2. CASE r # q
    BY <1>23, <2>2 DEF DeletePollDoc
  <2> QED BY <2>1, <2>2
<1>24. ASSUME NEW r \in Requests, DeleteVotes(r) PROVE Still(q) \/ Own(q)
  <2>1. CASE r = q
    BY <1>24, <2>1 DEF Own, Advance, CastStep, ReadStep, DeleteStep
  <2>2. CASE r # q
    BY <1>24, <2>2 DEF DeleteVotes
  <2> QED BY <2>1, <2>2
<1>25. ASSUME NEW r \in Requests, DeleteCounts(r) PROVE Still(q) \/ Own(q)
  <2>1. CASE r = q
    BY <1>25, <2>1 DEF Own, Advance, CastStep, ReadStep, DeleteStep
  <2>2. CASE r # q
    BY <1>25, <2>2 DEF DeleteCounts
  <2> QED BY <2>1, <2>2
<1>26. ASSUME NEW r \in Requests, DeleteVoters(r) PROVE Still(q) \/ Own(q)
  <2>1. CASE r = q
    BY <1>26, <2>1 DEF Own, Advance, CastStep, ReadStep, DeleteStep
  <2>2. CASE r # q
    BY <1>26, <2>2 DEF DeleteVoters
  <2> QED BY <2>1, <2>2
<1>27. CASE Expire
  BY <1>27 DEF Expire, requests
<1>28. CASE EvictCounts
  BY <1>28 DEF EvictCounts, requests
<1>29. CASE EvictVoters
  BY <1>29 DEF EvictVoters, requests
<1>30. CASE UNCHANGED vars
  BY <1>30 DEF vars
<1> QED
  BY <1>1, <1>2, <1>3, <1>4, <1>5, <1>6, <1>7, <1>8, <1>9, <1>10,
     <1>11, <1>12, <1>13, <1>14, <1>15, <1>16, <1>17, <1>18, <1>19,
     <1>20, <1>21, <1>22, <1>23, <1>24, <1>25, <1>26, <1>27, <1>28,
     <1>29, <1>30
  DEF Next, Arrivals, Advance, CastStep, ReadStep, DeleteStep, Rest

LEMMA StoreChanges ==
    ASSUME TypeOK, KindOK, [Next]_vars
    PROVE  /\ \/ votes' = votes
              \/ \E r \in CastReqs : CastInsert(r)
              \/ \E d \in DeleteReqs : DeleteVotes(d)
           /\ \/ poll' = poll
              \/ CreateInsert(CreateReq)
              \/ \E r \in CloseReqs \cup ReopenReqs : StatusSet(r)
              \/ \E d \in DeleteReqs : DeletePollDoc(d)
           /\ voted \subseteq voted'
<1> DEFINE Goal == /\ \/ votes' = votes
                      \/ \E r \in CastReqs : CastInsert(r)
                      \/ \E d \in DeleteReqs : DeleteVotes(d)
                   /\ \/ poll' = poll
                      \/ CreateInsert(CreateReq)
                      \/ \E r \in CloseReqs \cup ReopenReqs : StatusSet(r)
                      \/ \E d \in DeleteReqs : DeletePollDoc(d)
                   /\ voted \subseteq voted'
<1>1. ASSUME NEW r \in {CreateReq}, CreateInsert(r) PROVE Goal
  BY <1>1 DEF CreateInsert, stores
<1>2. ASSUME NEW r \in CastReqs, CastFind(r) PROVE Goal
  BY <1>2 DEF CastFind, stores
<1>3. ASSUME NEW r \in ResultsReqs, ResultsFind(r) PROVE Goal
  BY <1>3 DEF ResultsFind, stores
<1>4. ASSUME NEW r \in LoadReqs, LoadFind(r) PROVE Goal
  BY <1>4 DEF LoadFind, stores
<1>5. ASSUME NEW r \in ListReqs, ListFind(r) PROVE Goal
  BY <1>5 DEF ListFind, stores
<1>6. ASSUME NEW r \in CloseReqs \cup ReopenReqs, StatusFind(r) PROVE Goal
  BY <1>6 DEF StatusFind, stores
<1>7. ASSUME NEW r \in DeleteReqs, DeleteFind(r) PROVE Goal
  BY <1>7 DEF DeleteFind, stores
<1>8. ASSUME NEW r \in Requests, CreateInit(r) PROVE Goal
  BY <1>8 DEF CreateInit, stores
<1>9. ASSUME NEW r \in Requests, CastIsMember(r) PROVE Goal
  BY <1>9 DEF CastIsMember, stores
<1>10. ASSUME NEW r \in Requests, CastAdd(r) PROVE Goal
  BY <1>10 DEF CastAdd, stores
<1>11. ASSUME NEW r \in Requests, CastHasVoted(r) PROVE Goal
  BY <1>11 DEF CastHasVoted, stores
<1>12. ASSUME NEW r \in Requests, CastInsert(r) PROVE Goal
  BY <1>12 DEF CastInsert, stores, KindOK, CastCalls, DeleteCalls
<1>13. ASSUME NEW r \in Requests, CastIncrement(r) PROVE Goal
  BY <1>13 DEF CastIncrement, stores
<1>14. ASSUME NEW r \in Requests, CastGetVotes(r) PROVE Goal
  BY <1>14 DEF CastGetVotes, stores
<1>15. ASSUME NEW r \in Requests, CastPublish(r) PROVE Goal
  BY <1>15 DEF CastPublish, stores
<1>16. ASSUME NEW r \in Requests, ReadCounts(r) PROVE Goal
  BY <1>16 DEF ReadCounts, stores
<1>17. ASSUME NEW r \in Requests, ReadAggregate(r) PROVE Goal
  BY <1>17 DEF ReadAggregate, stores
<1>18. ASSUME NEW r \in Requests, ReadSync(r) PROVE Goal
  BY <1>18 DEF ReadSync, stores
<1>19. ASSUME NEW r \in Requests, LoadHasVoted(r) PROVE Goal
  BY <1>19 DEF LoadHasVoted, stores
<1>20. ASSUME NEW r \in Requests, ListCounts(r) PROVE Goal
  BY <1>20 DEF ListCounts, stores
<1>21. ASSUME NEW r \in Requests, ListAggregate(r) PROVE Goal
  BY <1>21 DEF ListAggregate, stores
<1>22. ASSUME NEW r \in Requests, StatusSet(r) PROVE Goal
  BY <1>22 DEF StatusSet, stores, KindOK, CastCalls, DeleteCalls
<1>23. ASSUME NEW r \in Requests, DeletePollDoc(r) PROVE Goal
  BY <1>23 DEF DeletePollDoc, stores, KindOK, CastCalls, DeleteCalls
<1>24. ASSUME NEW r \in Requests, DeleteVotes(r) PROVE Goal
  BY <1>24 DEF DeleteVotes, stores, KindOK, CastCalls, DeleteCalls
<1>25. ASSUME NEW r \in Requests, DeleteCounts(r) PROVE Goal
  BY <1>25 DEF DeleteCounts, stores
<1>26. ASSUME NEW r \in Requests, DeleteVoters(r) PROVE Goal
  BY <1>26 DEF DeleteVoters, stores
<1>27. CASE Expire
  BY <1>27 DEF Expire, requests
<1>28. CASE EvictCounts
  BY <1>28 DEF EvictCounts, requests
<1>29. CASE EvictVoters
  BY <1>29 DEF EvictVoters, requests
<1>30. CASE Crash
  BY <1>30 DEF Crash, stores
<1>31. CASE UNCHANGED vars
  BY <1>31 DEF vars
<1> QED
  BY <1>1, <1>2, <1>3, <1>4, <1>5, <1>6, <1>7, <1>8, <1>9, <1>10,
     <1>11, <1>12, <1>13, <1>14, <1>15, <1>16, <1>17, <1>18, <1>19,
     <1>20, <1>21, <1>22, <1>23, <1>24, <1>25, <1>26, <1>27, <1>28,
     <1>29, <1>30, <1>31
  DEF Next, Arrivals, Advance, CastStep, ReadStep, DeleteStep, Rest

-----------------------------------------------------------------------------
(* What holds of every request: an answer is the end of it, and what it    *)
(* found answered when it came stays so.                                   *)

HistoryOK ==
    \A r \in Requests :
        /\ resp[r] # 0 => pc[r] = "done"
        /\ pc[r] = "idle" => before[r] = {}
        /\ \A q \in before[r] : Answered(q)

\* What a request carries is settled once it is answered.
Kept(q) ==
    /\ pc[q] = "done" => pc'[q] = "done" /\ resp'[q] = resp[q]
    /\ pc[q] # "idle" => pc'[q] # "idle" /\ arg'[q] = arg[q] /\ before'[q] = before[q]
    /\ pc'[q] = "idle" => before'[q] = before[q] /\ pc[q] = "idle"
    /\ resp'[q] # resp[q] => pc'[q] = "done"
    /\ pc[q] = "idle" /\ pc'[q] # "idle" =>
         \/ before'[q] = before[q]
         \/ before'[q] = {p \in Requests : Answered(p)}

LEMMA RequestKept ==
    ASSUME TypeOK, [Next]_vars, NEW q \in Requests
    PROVE  Kept(q)
<1> USE SubsetOfRequests DEF TypeOK, Kept
<1>1. CASE Still(q)
  BY <1>1 DEF Still
<1>2. CASE Crash
  BY <1>2 DEF Crash, InFlight, stores
<1>3. CASE q = CreateReq /\ CreateInsert(q)
  BY <1>3 DEF CreateInsert, Goto, Answer
<1>4. CASE q \in CastReqs /\ CastFind(q)
  BY <1>4 DEF CastFind, Goto, Answer, Arrive, Start
<1>5. CASE q \in ResultsReqs /\ ResultsFind(q)
  BY <1>5 DEF ResultsFind, Goto, Answer, Arrive, Start
<1>6. CASE q \in LoadReqs /\ LoadFind(q)
  BY <1>6 DEF LoadFind, Goto, Answer, Arrive, Start
<1>7. CASE q \in ListReqs /\ ListFind(q)
  BY <1>7 DEF ListFind, Goto, Answer, Arrive, Start
<1>8. CASE q \in CloseReqs \cup ReopenReqs /\ StatusFind(q)
  BY <1>8 DEF StatusFind, Goto, Answer, Start
<1>9. CASE q \in DeleteReqs /\ DeleteFind(q)
  BY <1>9 DEF DeleteFind, Goto, Answer, Start
<1>10. CASE CastStep(q)
  BY <1>10 DEF CastStep, CastIsMember, CastAdd, CastHasVoted, CastInsert,
               CastIncrement, CastGetVotes, CastPublish, Goto, Answer, stores
<1>11. CASE ReadStep(q)
  BY <1>11 DEF ReadStep, ReadCounts, ReadAggregate, ReadSync, TallyRead, Goto, Answer, stores
<1>12. CASE CreateInit(q) \/ LoadHasVoted(q) \/ ListCounts(q) \/ ListAggregate(q)
              \/ StatusSet(q) \/ DeleteStep(q)
  BY <1>12 DEF CreateInit, LoadHasVoted, ListCounts, ListAggregate, StatusSet, DeleteStep,
               DeletePollDoc, DeleteVotes, DeleteCounts, DeleteVoters, Goto, Answer, stores
<1> QED
  BY OwnerMoves, <1>1, <1>2, <1>3, <1>4, <1>5, <1>6, <1>7, <1>8, <1>9, <1>10, <1>11, <1>12
  DEF Own, Advance

LEMMA HistoryInit == Init => HistoryOK
BY DEF Init, HistoryOK

LEMMA HistoryStep ==
    ASSUME TypeOK, HistoryOK, [Next]_vars
    PROVE  HistoryOK'
<1> SUFFICES ASSUME NEW r \in Requests
             PROVE  /\ resp'[r] # 0 => pc'[r] = "done"
                    /\ pc'[r] = "idle" => before'[r] = {}
                    /\ \A q \in before'[r] : Answered(q)'
  BY DEF HistoryOK
<1>1. \A q \in Requests : Kept(q)
  BY RequestKept
<1>2. \A q \in Requests : Answered(q) => Answered(q)'
  BY <1>1 DEF Kept, HistoryOK, Answered
<1>3. /\ resp'[r] # 0 => pc'[r] = "done"
      /\ pc'[r] = "idle" => before'[r] = {}
  BY <1>1 DEF Kept, HistoryOK
<1>4. before'[r] = before[r] \/ before'[r] = {p \in Requests : Answered(p)}
  BY <1>1 DEF Kept
<1>5. before[r] \subseteq Requests
  BY DEF TypeOK
<1> QED BY <1>2, <1>3, <1>4, <1>5 DEF HistoryOK

\* The invariant every later proof starts from.
BaseInv == TypeOK /\ KindOK /\ HistoryOK

LEMMA BaseInvariant == Spec => []BaseInv
<1>1. Init => BaseInv
  BY TypeInit, HistoryInit DEF BaseInv
<1>2. BaseInv /\ [Next]_vars => BaseInv'
  BY TypeStep, KindStep, HistoryStep DEF BaseInv
<1> QED BY <1>1, <1>2, PTL DEF Spec

\* A vote is moved by the steps of CastVote.
LEMMA CastMoves ==
    ASSUME BaseInv, [Next]_vars, NEW q \in CastReqs
    PROVE  Still(q) \/ Crash \/ CastFind(q) \/ CastStep(q)
<1>1. q \in Requests
  BY SubsetOfRequests
<1>2. Advance(q) => CastStep(q)
  BY <1>1, RequestAssumption
  DEF BaseInv, KindOK, Advance, CreateInit, ReadStep, ReadCounts, ReadAggregate, ReadSync,
      LoadHasVoted, ListCounts, ListAggregate, StatusSet, DeleteStep, DeletePollDoc,
      DeleteVotes, DeleteCounts, DeleteVoters, ReadCalls, ListCalls, DeleteCalls
<1> QED
  BY <1>1, <1>2, OwnerMoves, RequestAssumption DEF Own, BaseInv

\* A delete at work stays so: NoDelete only ever becomes false.
LEMMA DeletingStays ==
    ASSUME BaseInv, [Next]_vars, NoDelete'
    PROVE  NoDelete
<1> SUFFICES ASSUME NEW d \in DeleteReqs, Deleting(d)
             PROVE  Deleting(d)'
  BY DEF NoDelete
<1>1. d \in Requests /\ pc[d] \notin {"idle", "deletePoll"} /\ resp[d] \notin {403, 404}
  BY SubsetOfRequests DEF Deleting
<1>2. CASE Still(d)
  BY <1>1, <1>2 DEF Still, Deleting
<1>3. CASE Crash
  BY <1>1, <1>3 DEF Crash, InFlight, Deleting, BaseInv, TypeOK
<1>4. CASE DeleteStep(d)
  BY <1>1, <1>4 DEF DeleteStep, DeletePollDoc, DeleteVotes, DeleteCounts, DeleteVoters,
                    Goto, Answer, Deleting, BaseInv, TypeOK
<1>5. Own(d) => DeleteStep(d)
  BY <1>1, RequestAssumption
  DEF Own, Advance, BaseInv, KindOK, CreateInit, CastStep, CastIsMember, CastAdd,
      CastHasVoted, CastInsert, CastIncrement, CastGetVotes, CastPublish,
      ReadStep, ReadCounts, ReadAggregate, ReadSync,
      LoadHasVoted, ListCounts, ListAggregate, StatusSet, DeleteFind, Start,
      CastCalls, ReadCalls, ListCalls
<1> QED
  BY <1>1, <1>2, <1>3, <1>4, <1>5, OwnerMoves DEF BaseInv

-----------------------------------------------------------------------------
(* Answers tell what is stored.                                            *)

BeforeStore == {"idle", "sismember", "sadd", "hasVoted", "insert"}
AfterStore  == {"hincrby", "hgetall", "publish"}

\* Between the insert and the answer, too, the vote is there.
StorageInv ==
    \A r \in CastReqs :
        /\ NoDelete /\ (pc[r] \in AfterStore \/ resp[r] = 200) => r \in votes
        /\ pc[r] \in BeforeStore \/ resp[r] \in {400, 404, 409} => r \notin votes

\* A vote is stored by its own insert only.
LEMMA StoreFrom ==
    ASSUME BaseInv, [Next]_vars, NEW r
    PROVE  r \in votes' => r \in votes \/ CastInsert(r)
<1>1. ASSUME NEW d \in DeleteReqs, DeleteVotes(d) PROVE votes' \subseteq votes
  BY <1>1 DEF DeleteVotes
<1>2. ASSUME NEW q \in CastReqs, CastInsert(q) PROVE votes' \subseteq votes \cup {q}
  BY <1>2 DEF CastInsert
<1> QED BY <1>1, <1>2, StoreChanges DEF BaseInv

LEMMA StorageStep ==
    ASSUME BaseInv, StorageInv, [Next]_vars
    PROVE  StorageInv'
<1> SUFFICES ASSUME NEW r \in CastReqs
             PROVE  /\ NoDelete' /\ (pc'[r] \in AfterStore \/ resp'[r] = 200) => r \in votes'
                    /\ pc'[r] \in BeforeStore \/ resp'[r] \in {400, 404, 409} => r \notin votes'
  BY DEF StorageInv
<1> USE DEF BeforeStore, AfterStore
<1>0. r \in Requests /\ pc \in [Requests -> Steps]
      /\ resp \in [Requests -> {0, 200, 201, 400, 403, 404, 409, 500}]
  BY SubsetOfRequests DEF BaseInv, TypeOK
\* The vote goes only where a delete removes it, and comes by its own insert.
<1>1. NoDelete' => NoDelete
  BY DeletingStays
<1>2. NoDelete' /\ r \in votes => r \in votes'
  <2>1. ASSUME NEW d \in DeleteReqs, DeleteVotes(d) PROVE ~NoDelete'
    BY <2>1, SubsetOfRequests
    DEF DeleteVotes, NoDelete, Deleting, BaseInv, TypeOK, HistoryOK, Goto
  <2>2. ASSUME NEW q \in CastReqs, CastInsert(q) PROVE votes \subseteq votes'
    BY <2>2 DEF CastInsert
  <2> QED BY <2>1, <2>2, StoreChanges DEF BaseInv
<1>3. r \in votes' => r \in votes \/ CastInsert(r)
  BY StoreFrom
<1>4. CASE Still(r)
  <2>1. ~CastInsert(r)
    BY <1>0, <1>4 DEF Still, CastInsert, Goto, Answer
  <2> QED BY <1>1, <1>2, <1>3, <1>4, <2>1 DEF Still, StorageInv
<1>5. CASE Crash
  BY <1>0, <1>1, <1>2, <1>5 DEF Crash, InFlight, StorageInv, stores
<1>6. CASE CastFind(r)
  BY <1>0, <1>6 DEF CastFind, Arrive, Start, Goto, Answer, StorageInv, BaseInv, HistoryOK, stores
<1>7. CASE CastIsMember(r) \/ CastAdd(r) \/ CastHasVoted(r)
  BY <1>0, <1>7 DEF CastIsMember, CastAdd, CastHasVoted, Goto, Answer, StorageInv,
                    BaseInv, HistoryOK, stores
<1>8. CASE CastInsert(r)
  BY <1>0, <1>8 DEF CastInsert, Goto, Answer, BaseInv, HistoryOK
<1>9. CASE CastIncrement(r) \/ CastGetVotes(r) \/ CastPublish(r)
  BY <1>0, <1>1, <1>2, <1>9
  DEF CastIncrement, CastGetVotes, CastPublish, Goto, Answer, StorageInv,
      BaseInv, HistoryOK, stores
<1> QED
  BY CastMoves, <1>4, <1>5, <1>6, <1>7, <1>8, <1>9 DEF CastStep

LEMMA StorageInvariant == Spec => [](BaseInv /\ StorageInv)
<1>1. Init => StorageInv
  BY SubsetOfRequests DEF Init, StorageInv, AfterStore
<1>2. BaseInv /\ BaseInv' /\ StorageInv /\ [Next]_vars => StorageInv'
  BY StorageStep
<1> QED BY <1>1, <1>2, BaseInvariant, PTL DEF Spec

\* A vote answered 200 is stored until its poll is deleted, and a refused vote
\* never is: for any requests, and any of their store calls failing.
THEOREM AnswersTellStorageHolds == Spec => []AnswersTellStorage
<1>1. BaseInv /\ StorageInv => AnswersTellStorage
  BY DEF StorageInv, AnswersTellStorage
<1> QED BY <1>1, StorageInvariant, PTL

-----------------------------------------------------------------------------
(* No second vote after an answered one.                                   *)

\* Such a vote does not even pass the second tier.
RepeatInv ==
    NoDelete =>
        \A r \in CastReqs \ FlakyMongo :
            VotedBefore(r) => r \notin votes /\ pc[r] \notin AfterStore \cup {"insert"}

\* Whom a request finds to have voted before it is settled when it comes.
LEMMA VotedBeforeSettled ==
    ASSUME BaseInv, [Next]_vars, NEW r \in Requests, pc[r] # "idle", VotedBefore(r)'
    PROVE  VotedBefore(r)
<1>1. \A q \in Requests : Kept(q)
  BY RequestKept DEF BaseInv
<1>2. arg'[r] = arg[r] /\ before'[r] = before[r]
  BY <1>1 DEF Kept
<1>3. PICK v \in before[r] : Accepted(v)' /\ SameSender(v, r)'
  BY <1>2 DEF VotedBefore
<1>4. v \in Requests /\ pc[v] = "done"
  BY DEF BaseInv, TypeOK, HistoryOK, Answered
<1>5. resp'[v] = resp[v] /\ arg'[v] = arg[v]
  BY <1>1, <1>4 DEF Kept
<1> QED BY <1>2, <1>3, <1>5 DEF VotedBefore, Accepted, SameSender

\* A vote found before is among the documents HasUserVoted counts.
LEMMA VotedBeforeIsFound ==
    ASSUME BaseInv, StorageInv, NoDelete, NEW r \in Requests, VotedBefore(r)
    PROVE  HasUserVoted(arg[r].fp, arg[r].ip)
BY DEF VotedBefore, Accepted, SameSender, HasUserVoted, SameVoter, StorageInv

LEMMA RepeatStep ==
    ASSUME BaseInv, StorageInv, RepeatInv, [Next]_vars
    PROVE  RepeatInv'
<1> SUFFICES ASSUME NoDelete', NEW r \in CastReqs \ FlakyMongo, VotedBefore(r)'
             PROVE  r \notin votes' /\ pc'[r] \notin AfterStore \cup {"insert"}
  BY DEF RepeatInv
<1>0. r \in Requests /\ pc \in [Requests -> Steps] /\ NoDelete
  BY SubsetOfRequests, DeletingStays DEF BaseInv, TypeOK
<1>1. r \in votes' => r \in votes \/ CastInsert(r)
  BY StoreFrom
<1>2. CASE pc[r] = "idle"
  <2>1. r \notin votes /\ ~CastInsert(r)
    BY <1>0, <1>2 DEF StorageInv, BeforeStore, CastInsert
  <2>2. pc'[r] \notin AfterStore \cup {"insert"}
    BY <1>0, <1>2, CastMoves
    DEF Still, Crash, CastFind, CastStep, CastIsMember, CastAdd, CastHasVoted, CastInsert,
        CastIncrement, CastGetVotes, CastPublish, Goto, Answer, AfterStore, InFlight
  <2> QED BY <1>1, <2>1, <2>2
<1>3. CASE pc[r] # "idle"
  <2>1. VotedBefore(r)
    BY <1>0, <1>3, VotedBeforeSettled
  <2>2. r \notin votes /\ pc[r] \notin AfterStore \cup {"insert"}
    BY <1>0, <2>1 DEF RepeatInv
  <2>3. r \notin votes'
    BY <1>1, <2>2 DEF CastInsert
  <2>4. HasUserVoted(arg[r].fp, arg[r].ip)
    BY <1>0, <2>1, VotedBeforeIsFound
  <2>5. pc'[r] \notin AfterStore \cup {"insert"}
    BY <1>0, <1>3, <2>2, <2>4, CastMoves
    DEF Still, Crash, CastFind, Arrive, Start, CastStep, CastIsMember, CastAdd, CastHasVoted,
        CastInsert, CastIncrement, CastGetVotes, CastPublish, Goto, Answer, AfterStore,
        InFlight
  <2> QED BY <2>3, <2>5
<1> QED BY <1>2, <1>3

LEMMA RepeatInvariant == Spec => [](BaseInv /\ StorageInv /\ RepeatInv)
<1>1. Init => RepeatInv
  BY SubsetOfRequests DEF Init, RepeatInv, VotedBefore
<1>2. BaseInv /\ StorageInv /\ RepeatInv /\ [Next]_vars => RepeatInv'
  BY RepeatStep
<1> QED BY <1>1, <1>2, StorageInvariant, PTL DEF Spec

\* Whoever got 200 for a vote has no later vote stored, whatever Redis does.
THEOREM NoRepeatAfterAnswerHolds == Spec => []NoRepeatAfterAnswer
<1>1. RepeatInv => NoRepeatAfterAnswer
  BY DEF RepeatInv, NoRepeatAfterAnswer
<1> QED BY <1>1, RepeatInvariant, PTL

-----------------------------------------------------------------------------
(* A page load knows its voter.                                            *)

LEMMA LoadMoves ==
    ASSUME BaseInv, [Next]_vars, NEW q \in LoadReqs, resp'[q] # resp[q], resp'[q] = 200
    PROVE  LoadHasVoted(q)
<1>1. q \in Requests
  BY SubsetOfRequests
<1>2. ~Still(q) /\ ~Crash
  BY DEF Still, Crash
<1>3. Advance(q) => LoadHasVoted(q)
  BY <1>1, RequestAssumption
  DEF BaseInv, TypeOK, KindOK, Advance, CreateInit, CastStep, CastIsMember, CastAdd,
      CastHasVoted, CastInsert, CastIncrement, CastGetVotes, CastPublish,
      ReadStep, ReadCounts, ReadAggregate, ReadSync, TallyRead, ListCounts, ListAggregate,
      StatusSet, DeleteStep, DeletePollDoc, DeleteVotes, DeleteCounts, DeleteVoters,
      CastCalls, ListCalls, DeleteCalls, Goto, Answer
<1>4. ~LoadFind(q)
  BY <1>1 DEF LoadFind, Goto, Answer, BaseInv, TypeOK
<1> QED
  BY <1>1, <1>2, <1>3, <1>4, OwnerMoves, RequestAssumption DEF Own, BaseInv

LEMMA PageStep ==
    ASSUME BaseInv, StorageInv, PageKnowsVoter, [Next]_vars
    PROVE  PageKnowsVoter'
<1> SUFFICES ASSUME NoDelete', NEW r \in LoadReqs \ FlakyMongo, resp'[r] = 200, VotedBefore(r)'
             PROVE  r \in voted'
  BY DEF PageKnowsVoter
<1>1. r \in Requests /\ NoDelete
  BY SubsetOfRequests, DeletingStays
<1>2. CASE resp[r] = 200
  <2>1. VotedBefore(r)
    BY <1>1, <1>2, VotedBeforeSettled DEF BaseInv, HistoryOK
  <2> QED BY <1>1, <1>2, <2>1, StoreChanges DEF PageKnowsVoter, BaseInv
<1>3. CASE resp[r] # 200
  <2>1. LoadHasVoted(r)
    BY <1>3, LoadMoves
  <2>2. VotedBefore(r)
    BY <1>1, <2>1, VotedBeforeSettled DEF LoadHasVoted
  <2>3. HasUserVoted(arg[r].fp, arg[r].ip)
    BY <1>1, <2>2, VotedBeforeIsFound
  <2> QED BY <2>1, <2>3 DEF LoadHasVoted
<1> QED BY <1>2, <1>3

\* A page load whose sender was answered 200 before says has_voted.
THEOREM PageKnowsVoterHolds == Spec => []PageKnowsVoter
<1>1. Init => PageKnowsVoter
  BY DEF Init, PageKnowsVoter, Requests
<1>2. BaseInv /\ StorageInv /\ PageKnowsVoter /\ [Next]_vars => PageKnowsVoter'
  BY PageStep
<1> QED BY <1>1, <1>2, StorageInvariant, PTL DEF Spec

-----------------------------------------------------------------------------
(* Closing and deleting a poll.                                            *)

\* UpdateStatus and a second delete find nothing to bring back.
THEOREM DeletedForGoodHolds == Spec => DeletedForGood
<1>1. BaseInv /\ [Next]_vars => [poll = "deleted" => poll' = "deleted"]_vars
  <2> SUFFICES ASSUME BaseInv, [Next]_vars, poll = "deleted"
               PROVE  poll' = "deleted"
    OBVIOUS
  <2>1. ~CreateInsert(CreateReq)
    BY DEF CreateInsert
  <2>2. ASSUME NEW r \in CloseReqs \cup ReopenReqs, StatusSet(r) PROVE poll' = "deleted"
    BY <2>2 DEF StatusSet, UpdateStatus
  <2>3. ASSUME NEW d \in DeleteReqs, DeletePollDoc(d) PROVE poll' = "deleted"
    BY <2>3 DEF DeletePollDoc
  <2> QED BY <2>1, <2>2, <2>3, StoreChanges DEF BaseInv
<1> QED BY <1>1, BaseInvariant, PTL DEF Spec, DeletedForGood

\* A vote that arrived when the poll took none ends at its first call.
LEMMA RefusedOnArrival ==
    ASSUME BaseInv, StorageInv, [Next]_vars, NEW r \in CastReqs,
           poll \in {"closed", "deleted"}, pc[r] = "idle"
    PROVE  pc'[r] \in {"idle", "done"} /\ r \notin votes'
<1>1. r \in Requests /\ r \notin votes
  BY SubsetOfRequests DEF StorageInv, BeforeStore
<1>2. pc'[r] \in {"idle", "done"}
  BY <1>1, CastMoves
  DEF Still, Crash, InFlight, CastFind, Accepts, FindByID, CastStep, CastIsMember, CastAdd,
      CastHasVoted, CastInsert, CastIncrement, CastGetVotes, CastPublish, Goto, Answer,
      BaseInv, TypeOK
<1>3. ~CastInsert(r)
  BY <1>1 DEF CastInsert
<1> QED BY <1>1, <1>2, <1>3, StoreFrom

\* A vote that is over does not move, and is not stored later.
LEMMA OverStays ==
    ASSUME BaseInv, [Next]_vars, NEW r \in CastReqs, pc[r] = "done", r \notin votes
    PROVE  pc'[r] = "done" /\ r \notin votes'
<1>1. pc'[r] = "done"
  BY RequestKept, SubsetOfRequests DEF Kept, BaseInv
<1>2. ~CastInsert(r)
  BY DEF CastInsert
<1> QED BY <1>1, <1>2, StoreFrom

AfterDelete == {"deleteVotes", "delCounts", "delVoters"}

\* A delete that goes on, and whoever is told so, finds the poll gone: then no vote
\* that comes later gets past its lookup.
MissingInv ==
    /\ \A d \in DeleteReqs \ FlakyMongo : pc[d] \in AfterDelete => poll = "deleted"
    /\ \A q \in Requests \ FlakyMongo : resp[q] = 404 => poll = "deleted"
    /\ \A r \in CastReqs : \A q \in before[r] \ FlakyMongo :
         resp[q] = 404 => pc[r] \in {"idle", "done"} /\ r \notin votes

\* A delete is moved by the steps of DeletePoll.
LEMMA DeleteMoves ==
    ASSUME BaseInv, [Next]_vars, NEW d \in DeleteReqs
    PROVE  Still(d) \/ Crash \/ DeleteFind(d) \/ DeleteStep(d)
<1>1. d \in Requests
  BY SubsetOfRequests
<1>2. Advance(d) => DeleteStep(d)
  BY <1>1, RequestAssumption
  DEF Advance, BaseInv, KindOK, CreateInit, CastStep, CastIsMember, CastAdd,
      CastHasVoted, CastInsert, CastIncrement, CastGetVotes, CastPublish,
      ReadStep, ReadCounts, ReadAggregate, ReadSync,
      LoadHasVoted, ListCounts, ListAggregate, StatusSet,
      CastCalls, ReadCalls, ListCalls
<1> QED
  BY <1>1, <1>2, OwnerMoves, RequestAssumption DEF Own, BaseInv

\* Only the lookup of a poll is answered 404.
LEMMA LookupMissing ==
    ASSUME BaseInv, [Next]_vars, NEW q \in Requests \ FlakyMongo, resp'[q] = 404, resp[q] # 404
    PROVE  poll = "deleted"
<1>0. q \in Requests /\ resp \in [Requests -> Codes] /\ poll # "error"
  BY DEF BaseInv, TypeOK, Codes
<1>1. ~Still(q) /\ ~Crash
  BY DEF Still, Crash
<1>2. ASSUME NEW c, Goto(q, c) PROVE FALSE
  BY <1>2 DEF Goto
<1>3. ASSUME NEW s, Answer(q, s), s # 404 PROVE FALSE
  BY <1>0, <1>3 DEF Answer
<1>4. ASSUME NEW t, TallyRead(q, t) PROVE FALSE
  BY <1>2, <1>3, <1>4 DEF TallyRead
<1>5. ~CreateInsert(q) /\ ~CreateInit(q)
  BY <1>2, <1>3 DEF CreateInsert, CreateInit
<1>6. ~CastStep(q)
  BY <1>2, <1>3 DEF CastStep, CastIsMember, CastAdd, CastHasVoted, CastInsert, CastIncrement,
                    CastGetVotes, CastPublish
<1>7. ~ReadStep(q)
  BY <1>2, <1>4 DEF ReadStep, ReadCounts, ReadAggregate, ReadSync
<1>8. ~LoadHasVoted(q) /\ ~ListCounts(q) /\ ~ListAggregate(q) /\ ~StatusSet(q) /\ ~DeleteStep(q)
  BY <1>2, <1>3 DEF LoadHasVoted, ListCounts, ListAggregate, StatusSet, DeleteStep,
                    DeletePollDoc, DeleteVotes, DeleteCounts, DeleteVoters
<1>9. CASE CastFind(q) \/ ResultsFind(q) \/ LoadFind(q)
  BY <1>0, <1>2, <1>3, <1>9 DEF CastFind, ResultsFind, LoadFind, FindByID
<1>10. CASE ListFind(q) \/ StatusFind(q) \/ DeleteFind(q)
  BY <1>0, <1>2, <1>3, <1>10 DEF ListFind, StatusFind, DeleteFind, FindByID
<1> QED
  BY <1>0, <1>1, <1>5, <1>6, <1>7, <1>8, <1>9, <1>10, OwnerMoves DEF Own, Advance, BaseInv

LEMMA MissingStep ==
    ASSUME BaseInv, StorageInv, MissingInv, [Next]_vars, poll = "deleted" => poll' = "deleted"
    PROVE  MissingInv'
<1>0. \A q \in Requests : Kept(q)
  BY RequestKept DEF BaseInv
<1>1. ASSUME NEW d \in DeleteReqs \ FlakyMongo, pc'[d] \in AfterDelete
      PROVE  poll' = "deleted"
  <2>1. d \in Requests
    BY SubsetOfRequests
  <2>2. CASE Still(d) \/ Crash
    BY <1>1, <2>1, <2>2 DEF Still, Crash, InFlight, MissingInv, AfterDelete, BaseInv, TypeOK
  <2>3. CASE DeleteFind(d)
    BY <1>1, <2>1, <2>3 DEF DeleteFind, Goto, Answer, AfterDelete, BaseInv, TypeOK
  <2>4. CASE DeletePollDoc(d)
    BY <1>1, <2>4 DEF DeletePollDoc
  <2>5. CASE DeleteVotes(d) \/ DeleteCounts(d) \/ DeleteVoters(d)
    BY <2>5 DEF DeleteVotes, DeleteCounts, DeleteVoters, MissingInv, AfterDelete
  <2> QED BY <2>2, <2>3, <2>4, <2>5, DeleteMoves DEF DeleteStep
<1>2. ASSUME NEW q \in Requests \ FlakyMongo, resp'[q] = 404
      PROVE  poll' = "deleted"
  BY <1>2, LookupMissing DEF MissingInv
<1>3. ASSUME NEW r \in CastReqs, NEW q \in before'[r] \ FlakyMongo, resp'[q] = 404
      PROVE  pc'[r] \in {"idle", "done"} /\ r \notin votes'
  <2>1. r \in Requests
    BY SubsetOfRequests
  <2>2. CASE pc[r] = "idle"
    <3>1. CASE pc'[r] = "idle"
      BY <1>0, <1>3, <2>1, <2>2, <3>1 DEF Kept, BaseInv, HistoryOK
    <3>2. CASE pc'[r] # "idle"
      <4>1. q \in Requests /\ Answered(q)
        BY <1>0, <1>3, <2>1, <2>2, <3>2 DEF Kept, BaseInv, HistoryOK
      <4>2. resp[q] = 404
        BY <1>0, <1>3, <4>1 DEF Kept, BaseInv, HistoryOK, Answered
      <4>3. poll = "deleted"
        BY <1>3, <4>1, <4>2 DEF MissingInv
      <4> QED BY <2>2, <4>3, RefusedOnArrival
    <3> QED BY <3>1, <3>2
  <2>3. CASE pc[r] # "idle"
    <3>1. q \in before[r] /\ q \in Requests
      BY <1>0, <1>3, <2>1, <2>3 DEF Kept, BaseInv, TypeOK
    <3>2. resp[q] = 404
      BY <1>0, <1>3, <2>1, <3>1 DEF Kept, BaseInv, HistoryOK, Answered
    <3>3. pc[r] = "done" /\ r \notin votes
      BY <1>3, <2>3, <3>1, <3>2 DEF MissingInv
    <3> QED BY <3>3, OverStays
  <2> QED BY <2>2, <2>3
<1> QED BY <1>1, <1>2, <1>3 DEF MissingInv

LEMMA MissingInvariant == Spec => [](BaseInv /\ StorageInv /\ MissingInv)
<1>1. Init => MissingInv
  BY SubsetOfRequests DEF Init, MissingInv, AfterDelete
<1>2. BaseInv /\ StorageInv /\ MissingInv /\ [Next]_vars
        /\ [poll = "deleted" => poll' = "deleted"]_vars => MissingInv'
  BY MissingStep DEF vars
<1> QED
  BY <1>1, <1>2, StorageInvariant, DeletedForGoodHolds, PTL DEF Spec, DeletedForGood

\* No vote that arrives after some request was told that the poll is not there is
\* stored, however little of the delete was done and whatever fails or dies.
THEOREM MissingPollTakesNoVoteHolds == Spec => []MissingPollTakesNoVote
<1>1. MissingInv => MissingPollTakesNoVote
  BY DEF MissingInv, MissingPollTakesNoVote
<1> QED BY <1>1, MissingInvariant, PTL

\* No reopen has been at work.
NoReopen == \A o \in ReopenReqs : pc[o] \in {"idle"} \/ resp[o] \in {400, 403, 404}

ClosedInv ==
    NoReopen =>
        /\ \A c \in CloseReqs : resp[c] = 200 => poll \in {"closed", "deleted"}
        /\ \A r \in CastReqs : \A c \in before[r] \cap CloseReqs :
             resp[c] = 200 => pc[r] \in {"idle", "done"} /\ r \notin votes

\* A status request is moved by the steps of UpdatePollStatus.
LEMMA StatusMoves ==
    ASSUME BaseInv, [Next]_vars, NEW s \in CloseReqs \cup ReopenReqs
    PROVE  Still(s) \/ Crash \/ StatusFind(s) \/ StatusSet(s)
<1>1. s \in Requests
  BY SubsetOfRequests
<1>2. Advance(s) => StatusSet(s)
  BY <1>1, RequestAssumption
  DEF Advance, BaseInv, KindOK, CreateInit, CastStep, CastIsMember, CastAdd,
      CastHasVoted, CastInsert, CastIncrement, CastGetVotes, CastPublish,
      ReadStep, ReadCounts, ReadAggregate, ReadSync, LoadHasVoted, ListCounts,
      ListAggregate, DeleteStep, DeletePollDoc, DeleteVotes, DeleteCounts, DeleteVoters,
      CastCalls, ReadCalls, ListCalls, DeleteCalls
<1> QED
  BY <1>1, <1>2, OwnerMoves, RequestAssumption DEF Own, BaseInv

\* A reopen at work stays so: NoReopen only ever becomes false.
LEMMA ReopenStays ==
    ASSUME BaseInv, [Next]_vars, NoReopen'
    PROVE  NoReopen
<1> SUFFICES ASSUME NEW o \in ReopenReqs, pc[o] # "idle", resp[o] \notin {400, 403, 404}
             PROVE  pc'[o] # "idle" /\ resp'[o] \notin {400, 403, 404}
  BY DEF NoReopen
<1>1. o \in Requests
  BY SubsetOfRequests
<1>2. CASE Still(o) \/ Crash
  BY <1>1, <1>2 DEF Still, Crash, InFlight, BaseInv, TypeOK
<1>3. CASE StatusSet(o)
  BY <1>1, <1>3 DEF StatusSet, Goto, Answer, BaseInv, TypeOK
<1>4. ~StatusFind(o)
  BY DEF StatusFind, Start
<1> QED BY <1>2, <1>3, <1>4, StatusMoves

LEMMA ClosedStep ==
    ASSUME BaseInv, StorageInv, ClosedInv, [Next]_vars
    PROVE  ClosedInv'
<1> SUFFICES ASSUME NoReopen'
             PROVE  /\ \A c \in CloseReqs : resp'[c] = 200 => poll' \in {"closed", "deleted"}
                    /\ \A r \in CastReqs : \A c \in before'[r] \cap CloseReqs :
                         resp'[c] = 200 => pc'[r] \in {"idle", "done"} /\ r \notin votes'
  BY DEF ClosedInv, NoReopen
<1>0. /\ NoReopen
      /\ \A q \in Requests : Kept(q)
  BY ReopenStays, RequestKept DEF BaseInv
<1>1. ASSUME NEW c \in CloseReqs, resp'[c] = 200
      PROVE  poll' \in {"closed", "deleted"}
  <2>1. c \in Requests /\ c \notin ReopenReqs
    BY SubsetOfRequests, RequestAssumption
  <2>2. CASE resp[c] = 200
    <3>1. poll \in {"closed", "deleted"}
      BY <1>0, <2>2 DEF ClosedInv
    <3>2. ~CreateInsert(CreateReq)
      BY <3>1 DEF CreateInsert
    <3>3. ASSUME NEW s \in CloseReqs, StatusSet(s) PROVE poll' \in {"closed", "deleted"}
      BY <3>1, <3>3 DEF StatusSet, UpdateStatus, Requested
    <3>4. ASSUME NEW s \in ReopenReqs PROVE ~StatusSet(s)
      BY <1>0, SubsetOfRequests DEF StatusSet, NoReopen, BaseInv, HistoryOK
    <3>5. ASSUME NEW d \in DeleteReqs, DeletePollDoc(d) PROVE poll' \in {"closed", "deleted"}
      BY <3>1, <3>5 DEF DeletePollDoc
    <3> QED BY <3>1, <3>2, <3>3, <3>4, <3>5, StoreChanges DEF BaseInv
  <2>3. CASE resp[c] # 200
    <3>1. StatusSet(c)
      BY <1>1, <2>1, <2>3, StatusMoves
      DEF Still, Crash, StatusFind, Goto, Answer, BaseInv, TypeOK
    <3> QED BY <1>1, <2>1, <3>1 DEF StatusSet, UpdateStatus, Requested, Answer, BaseInv, TypeOK
  <2> QED BY <2>2, <2>3
<1>2. ASSUME NEW r \in CastReqs, NEW c \in before'[r] \cap CloseReqs, resp'[c] = 200
      PROVE  pc'[r] \in {"idle", "done"} /\ r \notin votes'
  <2>1. r \in Requests /\ c \in Requests
    BY SubsetOfRequests
  <2>2. CASE pc[r] = "idle"
    <3>1. CASE pc'[r] = "idle"
      BY <1>0, <1>2, <2>1, <2>2, <3>1 DEF Kept, BaseInv, HistoryOK
    <3>2. CASE pc'[r] # "idle"
      <4>1. Answered(c)
        BY <1>0, <1>2, <2>1, <2>2, <3>2 DEF Kept, BaseInv, HistoryOK
      <4>2. resp[c] = 200
        BY <1>0, <1>2, <2>1, <4>1 DEF Kept, BaseInv, HistoryOK, Answered
      <4>3. poll \in {"closed", "deleted"}
        BY <1>0, <1>2, <4>2 DEF ClosedInv
      <4> QED BY <2>2, <4>3, RefusedOnArrival
    <3> QED BY <3>1, <3>2
  <2>3. CASE pc[r] # "idle"
    <3>1. c \in before[r]
      BY <1>0, <1>2, <2>1, <2>3 DEF Kept
    <3>2. resp[c] = 200
      BY <1>0, <1>2, <2>1, <3>1 DEF Kept, BaseInv, HistoryOK, Answered
    <3>3. pc[r] = "done" /\ r \notin votes
      BY <1>0, <1>2, <2>3, <3>1, <3>2 DEF ClosedInv
    <3> QED BY <3>3, OverStays
  <2> QED BY <2>2, <2>3
<1> QED BY <1>1, <1>2

\* No vote that arrives after an answered close is stored, unless a reopen was
\* at work: for any number of owners and voters, and any failing calls.
THEOREM ClosedRefusesLaterVotesHolds == Spec => []ClosedRefusesLaterVotes
<1>1. Init => ClosedInv
  BY SubsetOfRequests DEF Init, ClosedInv
<1>2. BaseInv /\ StorageInv /\ ClosedInv /\ [Next]_vars => ClosedInv'
  BY ClosedStep
<1>3. ClosedInv => ClosedRefusesLaterVotes
  BY DEF ClosedInv, NoReopen, ClosedRefusesLaterVotes
<1> QED BY <1>1, <1>2, <1>3, StorageInvariant, PTL DEF Spec

=============================================================================
