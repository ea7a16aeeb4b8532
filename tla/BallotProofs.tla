----------------------------- MODULE BallotProofs -----------------------------
(***************************************************************************)
(* The handlers of PollServer implement Ballot, for every set of requests  *)
(* and every choice of the calls that may fail.                            *)
(***************************************************************************)
EXTENDS PollServerProofs

Others == Requests \ {CreateReq}

\* Nothing comes before the poll.
NoneInv == poll = "none" => ~expired /\ \A r \in Others : pc[r] = "idle"

ServerInv == BaseInv /\ StorageInv /\ MissingInv /\ NoneInv

LEMMA CastsAreOthers == CastReqs \subseteq Others /\ DeleteReqs \subseteq Others
                          /\ CloseReqs \cup ReopenReqs \subseteq Others
BY RequestAssumption DEF Requests, Others

\* Only the clock passes expires_at.
LEMMA ExpiryChanges ==
    ASSUME [Next]_vars
    PROVE  expired' = expired \/ Expire
<1>1. CASE Arrivals
  BY <1>1 DEF Arrivals, CreateInsert, CastFind, ResultsFind, LoadFind, ListFind,
              StatusFind, DeleteFind, stores
<1>2. ASSUME NEW r \in Requests, CastStep(r) PROVE expired' = expired
  BY <1>2 DEF CastStep, CastIsMember, CastAdd, CastHasVoted, CastInsert, CastIncrement,
              CastGetVotes, CastPublish, stores
<1>3. ASSUME NEW r \in Requests, ReadStep(r) PROVE expired' = expired
  BY <1>3 DEF ReadStep, ReadCounts, ReadAggregate, ReadSync, stores
<1>4. ASSUME NEW r \in Requests,
             CreateInit(r) \/ LoadHasVoted(r) \/ ListCounts(r) \/ ListAggregate(r) \/ StatusSet(r)
      PROVE  expired' = expired
  BY <1>4 DEF CreateInit, LoadHasVoted, ListCounts, ListAggregate, StatusSet, stores
<1>5. ASSUME NEW r \in Requests, DeleteStep(r) PROVE expired' = expired
  BY <1>5 DEF DeleteStep, DeletePollDoc, DeleteVotes, DeleteCounts, DeleteVoters
<1>6. CASE EvictCounts \/ EvictVoters \/ Crash \/ UNCHANGED vars
  BY <1>6 DEF EvictCounts, EvictVoters, Crash, stores, vars
<1> QED BY <1>1, <1>2, <1>3, <1>4, <1>5, <1>6 DEF Next, Advance, Rest

\* A poll that exists has existed ever since.
LEMMA NoneBefore ==
    ASSUME BaseInv, [Next]_vars, poll' = "none"
    PROVE  poll = "none"
<1>1. ASSUME NEW r \in CloseReqs \cup ReopenReqs, StatusSet(r) PROVE poll = "none"
  BY <1>1 DEF StatusSet, UpdateStatus, Requested
<1>2. ASSUME NEW d \in DeleteReqs, DeletePollDoc(d) PROVE poll = "none"
  BY <1>2 DEF DeletePollDoc
<1> QED BY <1>1, <1>2, StoreChanges DEF BaseInv, CreateInsert

LEMMA NoneStep ==
    ASSUME ServerInv, [Next]_vars
    PROVE  NoneInv'
<1> USE DEF ServerInv
<1> SUFFICES ASSUME poll' = "none" PROVE ~expired' /\ \A r \in Others : pc'[r] = "idle"
  BY DEF NoneInv
<1>1. poll = "none" /\ ~expired /\ \A r \in Others : pc[r] = "idle"
  BY NoneBefore DEF NoneInv
<1>2. ~expired'
  BY <1>1, ExpiryChanges DEF Expire
<1>3. ASSUME NEW q \in Others PROVE pc'[q] = "idle"
  <2>1. q \in Requests /\ q # CreateReq /\ pc[q] = "idle"
    BY <1>1 DEF Others
  <2>2. CASE Still(q)
    BY <2>1, <2>2 DEF Still
  <2>3. CASE Crash
    BY <2>1, <2>3 DEF Crash, InFlight
  <2>4. ~Own(q)
    <3>1. ~Arrive(q) /\ ~Start(q)
      BY <1>1 DEF Arrive, Start
    <3>2. ~Advance(q)
      BY <2>1 DEF Advance, CreateInit, CastStep, CastIsMember, CastAdd, CastHasVoted,
           CastInsert, CastIncrement, CastGetVotes, CastPublish, ReadStep, ReadCounts,
           ReadAggregate, ReadSync, LoadHasVoted, ListCounts, ListAggregate, StatusSet,
           DeleteStep, DeletePollDoc, DeleteVotes, DeleteCounts, DeleteVoters
    <3> QED BY <2>1, <3>1, <3>2 DEF Own, CastFind, ResultsFind, LoadFind, ListFind,
                                    StatusFind, DeleteFind
  <2> QED BY <2>1, <2>2, <2>3, <2>4, OwnerMoves DEF BaseInv
<1> QED BY <1>2, <1>3

LEMMA ServerInvariant == Spec => []ServerInv
<1>1. Init => NoneInv
  BY CastsAreOthers DEF Init, NoneInv, Others, Requests
<1>2. ServerInv /\ [Next]_vars => NoneInv'
  BY NoneStep
<1> QED
  BY <1>1, <1>2, MissingInvariant, PTL DEF Spec, ServerInv

-----------------------------------------------------------------------------
(* When a deletion begins.                                                 *)

\* Not by a step of a handler that deletes nothing.
LEMMA DoomKept ==
    ASSUME BaseInv, NEW r \in Requests \ DeleteReqs, NEW c, Goto(r, c) \/ Answer(r, c)
    PROVE  NoDelete' = NoDelete
<1>1. \A d \in DeleteReqs : pc'[d] = pc[d] /\ resp'[d] = resp[d]
  BY SubsetOfRequests DEF Goto, Answer, BaseInv, TypeOK
<1> QED BY <1>1 DEF NoDelete, Deleting

\* Only with the first call of a delete, or its handler's death before that.
LEMMA DoomChanges ==
    ASSUME BaseInv, [Next]_vars, ~Crash, \A d \in DeleteReqs : ~DeletePollDoc(d)
    PROVE  NoDelete' = NoDelete
<1>1. ASSUME NEW d \in DeleteReqs, Deleting(d)' PROVE Deleting(d)
  <2>0. d \in Requests /\ pc \in [Requests -> Steps] /\ resp \in [Requests -> Codes]
    BY SubsetOfRequests DEF BaseInv, TypeOK, Codes
  <2>1. CASE Still(d)
    BY <1>1, <2>1 DEF Still, Deleting
  <2>2. CASE DeleteFind(d)
    BY <1>1, <2>0, <2>2 DEF DeleteFind, Goto, Answer, Deleting
  <2>3. CASE DeleteVotes(d) \/ DeleteCounts(d) \/ DeleteVoters(d)
    BY <2>0, <2>3 DEF DeleteVotes, DeleteCounts, DeleteVoters, Deleting, BaseInv, HistoryOK
  <2> QED BY <2>1, <2>2, <2>3, DeleteMoves DEF DeleteStep
<1>2. NoDelete => NoDelete'
  BY <1>1 DEF NoDelete
<1>3. NoDelete' => NoDelete
  BY DeletingStays
<1> QED BY <1>2, <1>3 DEF NoDelete

-----------------------------------------------------------------------------
(* What a step of a vote does to the ballot.                               *)

People == <<Admitted, Confirmed, Refused>>

\* A handler that makes a call, after its first or as its first.
LEMMA CallingOn ==
    ASSUME BaseInv, NEW r \in CastReqs, pc[r] \notin {"idle", "done"},
           NEW c \in Steps \ {"idle"}, Goto(r, c)
    PROVE  UNCHANGED People
<1>1. r \in Requests /\ pc \in [Requests -> Steps]
  BY SubsetOfRequests DEF BaseInv, TypeOK
<1>2. \A q \in CastReqs : (pc'[q] = "idle" <=> pc[q] = "idle") /\ resp'[q] = resp[q]
  BY <1>1, SubsetOfRequests DEF Goto
<1> QED BY <1>2 DEF People, Admitted, Confirmed, Refused

LEMMA CallingFirst ==
    ASSUME BaseInv, NEW r \in CastReqs, pc[r] = "idle", Goto(r, "sismember")
    PROVE  /\ r \notin Admitted \cup Refused
           /\ Admitted' = Admitted \cup {r}
           /\ UNCHANGED <<Confirmed, Refused>>
<1>1. r \in Requests /\ pc \in [Requests -> Steps] /\ resp[r] = 0
  BY SubsetOfRequests DEF BaseInv, TypeOK, HistoryOK
<1>2. /\ \A q \in CastReqs : resp'[q] = resp[q]
      /\ \A q \in CastReqs \ {r} : pc'[q] = pc[q]
      /\ pc'[r] = "sismember"
  BY <1>1, SubsetOfRequests DEF Goto
<1>3. Confirmed' = Confirmed /\ Refused' = Refused
  BY <1>2 DEF Confirmed, Refused
<1>4. r \notin Admitted \cup Refused
  BY <1>1 DEF Admitted, Refused
<1>5. ASSUME NEW q PROVE q \in Admitted' <=> q \in Admitted \cup {r}
  BY <1>1, <1>2 DEF Admitted
<1> QED BY <1>3, <1>4, <1>5

LEMMA Answering ==
    ASSUME BaseInv, NEW r \in CastReqs, pc[r] # "done", NEW status, Answer(r, status),
           status \in {400, 404} <=> pc[r] = "idle",
           status \in {200, 400, 404, 409, 500}
    PROVE  /\ r \notin Confirmed \cup Refused
           /\ Admitted' = Admitted
           /\ Confirmed' = IF status = 200 THEN Confirmed \cup {r} ELSE Confirmed
           /\ Refused' = IF status \in {400, 404, 409} THEN Refused \cup {r} ELSE Refused
           /\ status \notin {400, 404} => r \in Admitted
<1>1. /\ r \in Requests
      /\ pc \in [Requests -> Steps]
      /\ resp \in [Requests -> {0, 200, 201, 400, 403, 404, 409, 500}]
      /\ resp[r] = 0
  BY SubsetOfRequests DEF BaseInv, TypeOK, HistoryOK
<1>2. /\ \A q \in CastReqs \ {r} : pc'[q] = pc[q] /\ resp'[q] = resp[q]
      /\ pc'[r] = "done" /\ resp'[r] = status
  BY <1>1, SubsetOfRequests DEF Answer
<1>3. r \notin Confirmed \cup Refused
  BY <1>1 DEF Confirmed, Refused
<1>4. \A q \in CastReqs : pc'[q] # "idle" /\ resp'[q] \notin {400, 404}
                            <=> pc[q] # "idle" /\ resp[q] \notin {400, 404}
  BY <1>1, <1>2
<1>5. \A q \in CastReqs : resp'[q] = 200 <=> resp[q] = 200 \/ (q = r /\ status = 200)
  BY <1>1, <1>2
<1>6. \A q \in CastReqs : resp'[q] \in {400, 404, 409}
                            <=> resp[q] \in {400, 404, 409}
                                  \/ (q = r /\ status \in {400, 404, 409})
  BY <1>1, <1>2
<1>7. status \notin {400, 404} => r \in Admitted
  BY <1>1 DEF Admitted
<1>8. Admitted' = Admitted
  BY <1>4 DEF Admitted
<1>9. Confirmed' = IF status = 200 THEN Confirmed \cup {r} ELSE Confirmed
  BY <1>5 DEF Confirmed
<1>10. Refused' = IF status \in {400, 404, 409} THEN Refused \cup {r} ELSE Refused
  BY <1>6 DEF Refused
<1> QED BY <1>3, <1>7, <1>8, <1>9, <1>10

\* The poll itself, as far as a ballot knows of it.
LEMMA PhaseKept ==
    ASSUME UNCHANGED <<poll, expired>>
    PROVE  Phase' = Phase
BY DEF Phase

LEMMA CastFindStep ==
    ASSUME ServerInv, NEW r \in CastReqs, CastFind(r)
    PROVE  B!Admit(r) \/ B!Refuse(r)
<1>1. pc[r] = "idle" /\ r \in Requests /\ r \notin votes
  BY SubsetOfRequests DEF CastFind, Arrive, Start, ServerInv, StorageInv, BeforeStore
<1>2. UNCHANGED <<poll, expired, votes>> /\ Phase' = Phase
  BY PhaseKept DEF CastFind, stores
<1>d. r \notin DeleteReqs
  BY RequestAssumption
<1>3. CASE Answer(r, 400) \/ Answer(r, 404)
  BY <1>1, <1>2, <1>3, <1>d, Answering, DoomKept DEF B!Refuse, ServerInv
<1>4. CASE Goto(r, "sismember") /\ poll = "active" /\ ~expired
  <2>1. Phase = "open"
    BY <1>4 DEF Phase
  <2> QED BY <1>1, <1>2, <1>4, <1>d, <2>1, CallingFirst, DoomKept DEF B!Admit, ServerInv
<1> QED BY <1>3, <1>4 DEF CastFind, FindByID, Accepts

LEMMA CastStepStep ==
    ASSUME ServerInv, NEW r \in CastReqs, CastStep(r)
    PROVE  B!Refuse(r) \/ B!Put(r) \/ B!Confirm(r) \/ UNCHANGED B!vars
<1> USE DEF ServerInv
<1>0. UNCHANGED <<poll, expired>> /\ Phase' = Phase
  BY PhaseKept DEF CastStep, CastIsMember, CastAdd, CastHasVoted, CastInsert, CastIncrement,
                   CastGetVotes, CastPublish, stores
<1>d. NoDelete' = NoDelete
  <2>1. r \in Requests \ DeleteReqs
    BY SubsetOfRequests, RequestAssumption
  <2>2. \E c : Goto(r, c) \/ Answer(r, c)
    BY DEF CastStep, CastIsMember, CastAdd, CastHasVoted, CastInsert, CastIncrement,
           CastGetVotes, CastPublish
  <2> QED BY <2>1, <2>2, DoomKept
<1>1. CASE CastIsMember(r) \/ CastHasVoted(r)
  <2>1. pc[r] \in {"sismember", "hasVoted"} /\ votes' = votes /\ r \notin votes
    BY <1>1 DEF CastIsMember, CastHasVoted, stores, StorageInv, BeforeStore
  <2>2. CASE Answer(r, 409)
    BY <1>0, <1>d, <2>1, <2>2, Answering DEF B!Refuse
  <2>3. CASE \E c \in {"sadd", "hasVoted", "insert"} : Goto(r, c)
    BY <1>0, <1>d, <2>1, <2>3, CallingOn DEF B!vars, People, Steps
  <2> QED BY <1>1, <2>2, <2>3 DEF CastIsMember, CastHasVoted
<1>2. CASE CastAdd(r) \/ CastIncrement(r)
  <2>1. /\ pc[r] \in {"sadd", "hincrby"} /\ votes' = votes
        /\ \E c \in {"hasVoted", "hgetall"} : Goto(r, c)
    BY <1>2 DEF CastAdd, CastIncrement
  <2> QED BY <1>0, <1>d, <2>1, CallingOn DEF B!vars, People, Steps
<1>3. CASE CastInsert(r)
  <2>1. pc[r] = "insert" /\ r \notin votes
    BY <1>3 DEF CastInsert, StorageInv, BeforeStore
  <2>2. UNCHANGED People
    BY <1>3, <2>1, CallingOn, Answering DEF CastInsert, People, Steps
  <2>3. r \in Admitted \ (Confirmed \cup Refused)
    BY <2>1, SubsetOfRequests DEF Admitted, Confirmed, Refused, BaseInv, TypeOK, HistoryOK
  <2>4. votes' = votes \/ votes' = votes \cup {r}
    BY <1>3 DEF CastInsert
  <2> QED BY <1>0, <1>d, <2>1, <2>2, <2>3, <2>4 DEF B!Put, B!vars, People
<1>4. CASE CastGetVotes(r)
  <2>1. pc[r] = "hgetall" /\ votes' = votes /\ (Goto(r, "publish") \/ Answer(r, 500))
    BY <1>4 DEF CastGetVotes, stores
  <2>2. UNCHANGED People
    BY <2>1, CallingOn, Answering DEF People, Steps
  <2> QED BY <1>0, <1>d, <2>1, <2>2 DEF B!vars, People
<1>5. CASE CastPublish(r)
  <2>1. pc[r] = "publish" /\ votes' = votes /\ Answer(r, 200)
    BY <1>5 DEF CastPublish
  <2>2. r \in votes \/ ~NoDelete
    BY <2>1 DEF StorageInv, AfterStore
  <2> QED BY <1>0, <1>d, <2>1, <2>2, Answering DEF B!Confirm
<1> QED BY <1>1, <1>2, <1>3, <1>4, <1>5 DEF CastStep

-----------------------------------------------------------------------------
(* What the other steps do to it.                                          *)

LEMMA OtherStep ==
    ASSUME ServerInv, [Next]_vars, \A r \in CastReqs : ~CastFind(r) /\ ~CastStep(r)
    PROVE  B!Open \/ B!Close \/ B!Doom \/ B!Discard \/ UNCHANGED B!vars
<1> USE DEF ServerInv
<1>1. UNCHANGED People
  <2>1. ASSUME NEW r \in CastReqs
        PROVE  (pc'[r] = "idle" <=> pc[r] = "idle") /\ resp'[r] = resp[r]
    <3>1. r \in Requests /\ pc \in [Requests -> Steps]
      BY SubsetOfRequests DEF BaseInv, TypeOK
    <3>2. CASE Still(r)
      BY <3>2 DEF Still
    <3>3. CASE Crash
      BY <3>1, <3>3 DEF Crash, InFlight
    <3> QED BY <3>2, <3>3, CastMoves
  <2> QED BY <2>1 DEF People, Admitted, Confirmed, Refused
<1>2. ASSUME NEW d \in DeleteReqs, DeleteVotes(d)
      PROVE  B!Discard
  <2>1. /\ d \in Requests /\ pc[d] = "deleteVotes" /\ votes' \in SUBSET votes
        /\ UNCHANGED <<poll, expired>>
    BY <1>2, SubsetOfRequests DEF DeleteVotes
  <2>2. ~NoDelete /\ ~NoDelete'
    BY <2>1, DeletingStays DEF NoDelete, Deleting, BaseInv, HistoryOK
  <2>3. NoDelete' = NoDelete
    BY <2>2 DEF NoDelete
  <2> QED BY <1>1, <2>1, <2>2, <2>3, PhaseKept DEF B!Discard, People
<1>3. CASE votes' = votes
  <2>1. CASE CreateInsert(CreateReq)
    <3>1. poll = "none" /\ poll' \in {"none", "active"} /\ expired' = expired /\ ~expired
      BY <2>1 DEF CreateInsert, NoneInv
    <3>2. Phase' \in {Phase, "open"} /\ Phase = "none"
      BY <3>1 DEF Phase
    <3>3. NoDelete' = NoDelete
      <4>1. CreateReq \in Requests \ DeleteReqs
        BY SubsetOfRequests, RequestAssumption
      <4>2. \E c : Goto(CreateReq, c) \/ Answer(CreateReq, c)
        BY <2>1 DEF CreateInsert
      <4> QED BY <4>1, <4>2, DoomKept
    <3> QED BY <1>1, <1>3, <3>2, <3>3 DEF B!Open, B!vars, B!people, People
  <2>2. ASSUME NEW s \in CloseReqs \cup ReopenReqs, StatusSet(s)
        PROVE  B!Open \/ B!Close \/ UNCHANGED B!vars
    <3>1. /\ poll # "none"
          /\ poll' \in {poll, UpdateStatus(Requested(s))}
          /\ expired' = expired
      BY <2>2, CastsAreOthers DEF StatusSet, NoneInv
    <3>2. /\ poll \in {"active", "closed", "deleted"}
          /\ poll' = poll \/ (poll # "deleted" /\ poll' \in {"active", "closed"})
      BY <3>1 DEF UpdateStatus, Requested, BaseInv, TypeOK
    <3>3. Phase' = Phase \/ (Phase \in {"open", "closed"} /\ Phase' \in {"open", "closed"})
      BY <3>1, <3>2 DEF Phase
    <3>4. NoDelete' = NoDelete
      <4>1. s \in Requests \ DeleteReqs
        BY SubsetOfRequests, RequestAssumption
      <4>2. \E c : Goto(s, c) \/ Answer(s, c)
        BY <2>2 DEF StatusSet
      <4> QED BY <4>1, <4>2, DoomKept
    <3> QED BY <1>1, <1>3, <3>3, <3>4 DEF B!Open, B!Close, B!vars, B!people, People
  <2>3. ASSUME NEW d \in DeleteReqs, DeletePollDoc(d)
        PROVE  B!Doom
    <3>1. poll # "none" /\ poll' \in {poll, "deleted"} /\ expired' = expired
      BY <2>3, CastsAreOthers DEF DeletePollDoc, NoneInv
    <3>2. Phase' \in {Phase, "gone"} /\ Phase \in {"open", "closed", "gone"}
      BY <3>1 DEF Phase, BaseInv, TypeOK
    <3>3. ~NoDelete'
      BY <2>3, SubsetOfRequests
      DEF DeletePollDoc, Goto, NoDelete, Deleting, BaseInv, TypeOK, HistoryOK
    <3> QED BY <1>1, <1>3, <3>2, <3>3 DEF B!Doom, B!people, People
  <2>4. CASE Crash
    <3>1. UNCHANGED <<poll, expired>> /\ Phase' = Phase
      BY <2>4, PhaseKept DEF Crash, stores
    <3>2. CASE NoDelete' = NoDelete
      BY <1>1, <1>3, <3>1, <3>2 DEF B!vars, People
    <3>3. CASE NoDelete /\ ~NoDelete'
      <4>1. PICK d \in DeleteReqs : ~Deleting(d) /\ Deleting(d)'
        BY <3>3 DEF NoDelete
      <4>2. d \in Requests /\ pc[d] # "idle"
        BY <2>4, <4>1, SubsetOfRequests DEF Crash, InFlight, Deleting
      <4>3. poll \in {"active", "closed", "deleted"}
        BY <4>2, CastsAreOthers DEF NoneInv, BaseInv, TypeOK
      <4>4. Phase # "none"
        BY <4>3 DEF Phase
      <4> QED BY <1>1, <1>3, <3>1, <3>3, <4>4 DEF B!Doom, B!people, People
    <3> QED BY <3>2, <3>3, DeletingStays DEF NoDelete
  <2>5. CASE poll' = poll /\ ~Crash /\ \A d \in DeleteReqs : ~DeletePollDoc(d)
    <3>1. Phase' = Phase \/ (Phase = "open" /\ Phase' = "closed")
      BY <2>5, ExpiryChanges DEF Phase, Expire
    <3>2. NoDelete' = NoDelete
      BY <2>5, DoomChanges
    <3> QED BY <1>1, <1>3, <3>1, <3>2 DEF B!Close, B!vars, B!people, People
  <2> QED BY <2>1, <2>2, <2>3, <2>4, <2>5, StoreChanges DEF BaseInv
<1>4. ~\E r \in CastReqs : CastInsert(r)
  BY DEF CastStep
<1> QED BY <1>2, <1>3, <1>4, StoreChanges DEF BaseInv

LEMMA BallotStep ==
    ASSUME ServerInv, [Next]_vars
    PROVE  [B!Next]_B!vars
<1>1. ASSUME NEW r \in CastReqs, CastFind(r) PROVE B!Next
  BY <1>1, CastFindStep DEF B!Next
<1>2. ASSUME NEW r \in CastReqs, CastStep(r) PROVE [B!Next]_B!vars
  BY <1>2, CastStepStep DEF B!Next
<1>3. CASE \A r \in CastReqs : ~CastFind(r) /\ ~CastStep(r)
  BY <1>3, OtherStep DEF B!Next
<1> QED BY <1>1, <1>2, <1>3

\* Any number of handlers at work at the same time, deletes that fail half-way among
\* them, with stores that fail and a process that dies, act as a ballot.
THEOREM ImplementsBallotHolds == Spec => ImplementsBallot
<1>1. Init => B!Init
  BY CastsAreOthers, SubsetOfRequests
  DEF Init, B!Init, Phase, Admitted, Confirmed, Refused, NoDelete, Deleting
<1>2. ServerInv /\ [Next]_vars => [B!Next]_B!vars
  BY BallotStep
<1> QED BY <1>1, <1>2, ServerInvariant, PTL DEF Spec, ImplementsBallot, B!Spec

===============================================================================
