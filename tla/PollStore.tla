------------------------------ MODULE PollStore ------------------------------
(***************************************************************************)
(* The stores behind one poll of the backend and the calls the handlers    *)
(* make on them: the MongoDB collections polls and votes (repository/) and *)
(* the Redis keys poll:ID:votes, poll:ID:voters and poll_updates:ID        *)
(* (services/redis_service.go).  Every key and every filter of the code    *)
(* carries the poll's id, so polls do not interact and one poll stands for *)
(* them all.                                                               *)
(*                                                                         *)
(* Each HTTP request is served by a goroutine of its own.  A request is a  *)
(* constant that is used once; pc[r] names the next store call its handler *)
(* makes, and one store call is one atomic step.                           *)
(***************************************************************************)
EXTENDS Integers, FiniteSets

CONSTANTS
    NumOptions,      \* the options of the poll are opt_1 .. opt_NumOptions
    Fingerprints,    \* browser fingerprints
    IPs,             \* client addresses
    Empty,           \* the empty string: a fingerprint or an address not known
    Clients,         \* who may send: records [fp, ip]
    Choices,         \* the options a vote may name; 0 is one the poll lacks
    CreateReq,       \* the request that creates the poll
    CastReqs,        \* POST /polls/:id/vote
    ResultsReqs,     \* GET /polls/:id/results
    LoadReqs,        \* GET /polls/:id and /polls/share/:shareCode
    ListReqs,        \* GET /polls/my
    CloseReqs,       \* PATCH /polls/:id/status with "closed"
    ReopenReqs,      \* PATCH /polls/:id/status with "active"
    DeleteReqs,      \* DELETE /polls/:id
    FlakyMongo,      \* requests whose MongoDB calls may fail
    FlakyRedis,      \* requests whose Redis calls may fail
    MayExpire,       \* whether the poll's expires_at may pass
    MayEvict,        \* whether Redis may lose a key (30 day TTL, eviction)
    MayCrash         \* whether the server process may die and be restarted

Options  == 1 .. NumOptions
Users    == {"creator", "stranger"}
Requests == {CreateReq} \cup CastReqs \cup ResultsReqs \cup LoadReqs
              \cup ListReqs \cup CloseReqs \cup ReopenReqs \cup DeleteReqs

ASSUME OptionsAssumption == NumOptions \in 2 .. 10

ASSUME InputAssumption ==
    /\ Clients \subseteq [fp : Fingerprints \cup {Empty}, ip : IPs \cup {Empty}]
    /\ Choices \subseteq 0 .. NumOptions
    /\ MayExpire \in BOOLEAN
    /\ MayEvict \in BOOLEAN
    /\ MayCrash \in BOOLEAN

ASSUME RequestAssumption ==
    /\ IsFiniteSet(CastReqs)
    /\ CreateReq \notin CastReqs \cup ResultsReqs \cup LoadReqs \cup ListReqs
                          \cup CloseReqs \cup ReopenReqs \cup DeleteReqs
    /\ CastReqs \cap (ResultsReqs \cup LoadReqs \cup ListReqs \cup CloseReqs
                          \cup ReopenReqs \cup DeleteReqs) = {}
    /\ ResultsReqs \cap (LoadReqs \cup ListReqs \cup CloseReqs
                          \cup ReopenReqs \cup DeleteReqs) = {}
    /\ LoadReqs \cap (ListReqs \cup CloseReqs \cup ReopenReqs \cup DeleteReqs) = {}
    /\ ListReqs \cap (CloseReqs \cup ReopenReqs \cup DeleteReqs) = {}
    /\ CloseReqs \cap (ReopenReqs \cup DeleteReqs) = {}
    /\ ReopenReqs \cap DeleteReqs = {}

VARIABLES
    poll,       \* the poll document: "none" yet, its status, or "deleted"
    expired,    \* whether time.Now() is past expires_at
    votes,      \* vote documents, each named by the request that inserted it
    counts,     \* Redis hash poll:ID:votes, Absent for a field it lacks
    voters,     \* Redis set poll:ID:voters
    event,      \* the tally of the last VOTE_UPDATED on poll_updates:ID
    pc,         \* the store call each request makes next
    arg,        \* what each vote or page load carries: option and sender
    snap,       \* the tally each handler holds, and puts in its response
    idx,        \* position of each handler in its pipeline of HSET / HSETNX
    resp,       \* status code of each response, 0 before it is written
    voted,      \* page loads answered with has_voted = true
    before      \* history: the requests already answered when a vote or a read comes

stores == <<poll, expired, votes, counts, voters, event>>
vars   == <<poll, expired, votes, counts, voters, event,
            pc, arg, snap, idx, resp, voted, before>>

-----------------------------------------------------------------------------
(* Tallies: option -> count.                                               *)

Absent   == -1
NoFields == [o \in Options |-> Absent]
Zeros    == [o \in Options |-> 0]
Tallies  == [Options -> Nat \cup {Absent}]

Filled(n) == IF n = Absent THEN 0 ELSE n
Fill(t)   == [o \in Options |-> Filled(t[o])]

-----------------------------------------------------------------------------
(* polls: FindByID, FindByShareCode, UpdateStatus.                         *)

\* A read preference that allows for secondaries would return older documents.
FindByID_FromSecondary(r) ==
    {poll, "active"} \cup (IF r \in FlakyMongo THEN {"error"} ELSE {})

\* What a lookup may return: the poll as it is now, or an error.
FindByID(r) == {poll} \cup (IF r \in FlakyMongo THEN {"error"} ELSE {})

UpdateStatus_Upserts(status) == status

\* UpdateOne matches nothing once the document is gone.
UpdateStatus(status) == IF poll = "deleted" THEN poll ELSE status

-----------------------------------------------------------------------------
(* votes: HasUserVoted, CountVotesByOption.                                *)

SameVoter_FingerprintOnly(v, fp, ip) == fp # Empty /\ arg[v].fp = fp

\* v is a vote the filter of HasUserVoted selects for the sender [fp, ip].
SameVoter(v, fp, ip) ==
    \/ fp # Empty /\ arg[v].fp = fp
    \/ fp = Empty /\ ip # Empty /\ arg[v].ip = ip

HasUserVoted_AsksRedis(fp, ip) == (IF fp # Empty THEN fp ELSE ip) \in voters

HasUserVoted(fp, ip) == \E v \in votes : SameVoter(v, fp, ip)

VotesFor(o) == {v \in votes : arg[v].option = o}

CountVotesByOption == [o \in Options |-> Cardinality(VotesFor(o))]

-----------------------------------------------------------------------------
(* Redis commands.                                                         *)

\* What CheckAndRecordVoter looks up: the fingerprint, else the address.
VoterIdentifier(a) == IF a.fp # Empty THEN a.fp ELSE a.ip

HSet(o, n) == [counts EXCEPT ![o] = n]

HIncrBy(o) == HSet(o, Filled(counts[o]) + 1)

HSetNX_Resets(o) == HSet(o, 0)

HSetNX(o) == HSet(o, Filled(counts[o]))

\* The pipeline of r is at its last command.
AtLastOption_OneMore(r) == idx[r] > NumOptions

AtLastOption(r) == idx[r] = NumOptions

-----------------------------------------------------------------------------
(* The life of a request.                                                  *)

Answered(r) == resp[r] # 0

Goto(r, call) ==
    /\ pc' = [pc EXCEPT ![r] = call]
    /\ UNCHANGED resp

Answer(r, status) ==
    /\ pc' = [pc EXCEPT ![r] = "done"]
    /\ resp' = [resp EXCEPT ![r] = status]

\* The handler of r starts.  The poll has an id to ask for once it exists.
Start(r) ==
    /\ pc[r] = "idle"
    /\ poll # "none"

\* A vote or a read remembers what was answered before it.
Arrive(r) ==
    /\ Start(r)
    /\ before' = [before EXCEPT ![r] = {q \in Requests : Answered(q)}]

=============================================================================
