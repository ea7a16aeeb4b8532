# PollPulse: a verification project

PollPulse runs live polls.  A Go/Gin backend (`src/backend`) keeps polls and
votes in MongoDB, mirrors the tallies in Redis, and pushes every new tally to
browsers through Redis Pub/Sub and a WebSocket hub; a React frontend
(`src/frontend`) shows a poll and follows it live.  The modules here are read
off that code, TLC checks them on small instances, and TLAPS proves the
properties that matter most for every value of the constants.

Contents: 1 inventory · 2 plan · 3 the modules and the code · 4 the runs ·
5 fairness · 6 the proofs · 7 where code and documents disagree · 8 what is
not modelled · 9 how to run it.

## 1. Inventory

| component | state | operations | hard because |
|---|---|---|---|
| Voting (`controllers/vote_controller.go`) | none of its own; a goroutine per request holds what it has read | `CastVote`, `GetResults` | seven store calls in a row, each of which may fail, or be the last before the process dies, while other requests run |
| Polls (`controllers/poll_controller.go`) | as above | `CreatePoll`, `GetPollByID`, `GetPollByShareCode`, `GetMyPolls`, `UpdatePollStatus`, `DeletePoll` | the poll read at the beginning may be closed or gone when the handler writes; `DeletePoll` ignores the errors of four calls |
| MongoDB repositories (`repository/poll_repo.go`, `vote_repo.go`) | collections `polls`, `votes` | `FindByID`, `UpdateStatus`, `Delete`, `HasUserVoted`, `CountVotesByOption`, `DeleteByPollID`, inserts | no unique index on votes; a call may be applied and still report an error |
| Redis service (`services/redis_service.go`) | hash `poll:ID:votes`, set `poll:ID:voters`, channel `poll_updates:ID` | `InitPollVotes`, `IncrementVote`, `GetPollVotes`, `SyncVotesFromDB`, `CheckAndRecordVoter`, `DeletePollData`, `PublishVoteUpdate`, `SubscribeToPollChannel` | a cache beside the database, filled and read without a lock; keys expire |
| WebSocket hub (`websocket/hub.go`) | `rooms`, `subscribers`, a send channel per client | `Run` (register, unregister), `startRedisListener`, `broadcastToRoom`, `writePump`, `readPump`, `ServeWs` | three kinds of goroutine over two maps; broadcasts change the map and close channels under a read lock |
| Live page (`hooks/useLivePoll.js`, `services/websocket.js`, `VotePage.jsx`, `ResultsPage.jsx`) | React state of a mounted page, its socket and reconnect timer, `localStorage` | fetch, refetch, connect, reconnect, event, vote, leave | responses, events and timers arrive in any order, also after the page was left |
| Session (`hooks/useAuth.jsx`, `services/api.js`) | token in `localStorage`, shared by all tabs; token, user and loading of each tab | login, signup, logout, `me()` after every change of the token | a pending `me()` outlives a logout or another login; another tab writes the token |
| Accounts (`controllers/auth_controller.go`, `user_repo.go`, `auth_middleware.go`) | collection `users` | signup, login, me, the token check | look-up and insert in two calls |
| New polls (`poll_controller.go:48-134`, `CreatePollPage.jsx`) | the form's question and options | edit, add, remove, trim, drop and compare options | boundaries: 2 and 10 options, duplicates after trimming; JavaScript and Go read a text differently |
| Creator's pages (`DashboardPage.jsx`, `PollCard.jsx`, `CreatePollPage.jsx`) | list, loading, filter; a busy flag per card | fetch, filter, close, reopen, delete, publish | fetches and actions cross; cards and pages go while their requests are under way |
| Router and entry pages (`App.jsx`, `HomePage.jsx`, `LoginPage.jsx`, `SignupPage.jsx`, `Navbar.jsx`) | current path; a busy flag per form | navigate, back, submit | a late answer finds another page on the screen |
| Routes, configuration, start (`routes`, `config`, `cmd/server/main.go`) | none after start | dial MongoDB and Redis, create indexes, or start an in-process Redis | the in-process Redis forgets everything on a restart |
| Toasts, packaging | messages with a timer each | - | - |

Interactions.  Handlers call the repositories and the Redis service
synchronously; they meet other handlers only in the two stores.  `CastVote`
ends with a `PUBLISH`; every open room of the hub holds one subscription and
turns an event into a non-blocking send to each client's channel, which its
`writePump` drains.  The page receives the event as the new tally, replacing
what it shows; so do the responses to its fetch and its own vote.  Every request
of the frontend goes through `services/api.js`, which adds the token it finds in
`localStorage`; the pages hold what they have asked for only as long as they are
mounted.

What makes each part correct:

* Voting: who was told "recorded" is in the database and cannot vote again; who
  was refused is not; a tally answered lies between what was answered before and
  what is stored, and does not go backwards; Redis agrees with MongoDB at rest.
* Polls: a close, once answered, stops later votes; a poll that is deleted is gone
  for good, and takes no vote once somebody was told so.
* Hub: a client in the room is listened for, misses nothing while it is
  connected, gets nothing twice, is told when it is dropped, and leaves the room
  when it is lost; channels are closed once.
* Page: nothing outlives a page that was left; its status is that of its socket;
  it claims a vote only when the server has it; it comes back after a loss.
* Session and accounts: the user shown is the one of the token held; one account
  per address; no spinner or form waits for good.
* Creator's pages: a dashboard at rest shows the polls the server has; the form
  and the server refuse the same polls; one form makes one poll.

`PROJECT.json` lists the hazards behind these properties, each at its line.

## 2. Plan

Order, most important first.  Done: 1-10.  To come: 11.

1. `PollStore`, `TallyReader`, `VoteController`, `PollController`, composed by
   `PollServer`: every handler of the backend over both stores.
2. `PollServerProofs`: types, and the promises of the responses about MongoDB.
3. `Hub`, and `HubProofs`: the room, the panics, the missed events.
4. `LivePage` with `LiveChart`, and `LivePageProofs`: the browser of a voter.
5. The runs of section 4 and the disagreements of section 7.
6. `Ballot`, what the handlers promise together, checked as a `PROPERTY` of
   `PollServer` and proved in `BallotProofs`.
7. `Session`: accounts, tokens, tabs, and the router that shows or hides pages.
8. `PollForm` and `Creator`: the validation of a new poll on both sides, and the
   pages of a poll's creator.
9. `TallyProofs`: the tallies that are answered, and the cache at rest.
10. `SessionProofs`, `ChartProofs`, `CreatorProofs`, and the rest of `HubProofs`
    and `LivePageProofs`: every invariant of a passing run is a theorem.
11. *Feed*, what the hub promises each client, as an abstract specification of
    `Hub`: its clients get every event due to them once, in an order that two
    listeners may disturb.

## 3. The modules and the code

**`PollStore`** has the state of the backend for one poll.  All keys and filters
carry the poll's id, so polls do not interact and one is enough.  `poll` is the
document's status, `votes` the vote documents (each named by the request that
inserted it, whose option and sender are in `arg`), `counts` and `voters` the two
Redis keys, `event` the last message published.  A request is a constant used
once: `pc[r]` names the store call its handler makes next, and `resp[r]` its
status code.  The operators of the module are the store calls (`FindByID`,
`UpdateStatus`, `HasUserVoted`, `CountVotesByOption`, `HSet`, `HSetNX`,
`HIncrBy`).  `before[r]` is a history variable: the requests that had been
answered when `r` arrived.  That is the only order a client can observe, and
most properties speak of it.

**`TallyReader`**, **`VoteController`** and **`PollController`** have one action
per store call of a handler; what a handler does between two calls (validation,
early returns, filling in missing options) is part of the action of the call
before it.  A pipeline of `HSET` or `HSETNX` is one step per command, since Redis
may run other clients' commands between the times the fields are seen by readers
of a cluster client; a larger grain would only have fewer behaviours.  Each call
of a request in `FlakyMongo` or `FlakyRedis` also has the outcomes "failed" and,
for writes to MongoDB, "applied, but reported as failed", with the handler's own
treatment: the nil map that `GetPollVotes` returns on an error panics when it is
written to (500), an error of `HasUserVoted` lets the vote through, `DeletePoll`
goes on.

**`PollServer`** composes the handlers and adds the world: `Expire` (the clock
passes `expires_at`), `EvictCounts` and `EvictVoters` (TTL, memory pressure, or
a Redis without persistence restarting), `Crash` (the process dies between any
two calls; the stores keep what they have).

**`Ballot`** is the abstract specification of voting: a ballot is admitted only
while the poll is open, put in the box at most once and only if it was admitted
and not turned away, and confirmed only when it is in the box, unless the box is
doomed.  `Doom` is the first call of a delete; from then on `Discard` may take
ballots out of the box, all or some, and the poll may be gone or still there,
because `DeletePoll` goes on whatever its calls return.  `Ballot` knows neither
Redis nor store calls nor failures.  `PollServer` defines the refinement mapping:
the phase of the poll is its status and its expiry, the box is the `votes`
collection, it is doomed once a delete is past its lookup and its first call, and
a ballot is admitted once its handler has passed the validation, confirmed or
refused by its status code; a vote answered 500 is neither, and so is one whose
handler died with the server.

**`Hub`** is one room.  `exists`, `members` and `subscriber` are the entries of
`h.rooms` and `h.subscribers`; `buf` and `shut` are the clients' send channels.
`Register` and `Unregister` are the two cases of `Run`, atomic because they hold
`mu.Lock`, and only enabled when no broadcast holds `mu.RLock`.  A broadcast is
`Receive`, then `Visit`/`Offer` per client, then `Finish`, and two listeners may
interleave there: `Offer` sends, or drops a client whose channel is full (close
and delete under the read lock, which the runtime may notice as concurrent map
use), or panics on a channel the other listener closed.  A listener is named by
the client whose registration started it.  Redis is seen through go-redis: a
subscription has the events published while it is live, may lose its
connection, and still yields what it received after it is closed.

**`LivePage`** is one browser that opens pages of a poll one after the other.
Each visit has its own socket, timer and pending vote, so that what a visit began
may end after it.  The server is abstract: a tally, whether it has a vote of this
browser (`ownVote`), whether it took the browser down as a voter (`recorded`,
which `CastVote` may do and then fail, so that the next attempt gets 409), and
whether a response says that the poll is closed.  `handler` holds the `CastVote`s
at work on the votes that were counted: each reads the tally (`ReadTally`),
publishes what it read into `channel` and answers (`Publish`), or fails
(`HandlerFails`), and `Broadcast` is the room's listener taking the next event
from the channel.  Handlers may read in one order and publish in the other, as in
the code, so an older tally may be broadcast last (the run `last_event`).  A
request the server took (`"taken"`) may lose its response.  A tally is a pair, the `total`
and the `results` per option, because the page keeps them in two states; what
`LiveChart.jsx` draws of them (`MaxCount`, `Percentage`, `Leaders`) is in
**`LiveChart`**.  `Disconnect`, `Lost`, `Reconnect` and `Opened` are the callbacks
of `createPollWebSocket`; `FetchArrives` is `fetchPollData` with the effects that
setting the poll triggers; `CastArrives` is what `castVote` and
`handleVoteSubmit` do with a response.  `Connect` is `connect`: it does nothing
once the page was left, and when the constructor of the socket throws it sets the
timer again and leaves the status at "connecting".  Delays (the backoff of the
reconnect) have no duration.  Two history variables serve `OwnVoteShown`: `own` is
the total that answered the page's vote, until its connection is lost, and
`latest` the total broadcast last.

**`Session`** is a browser with several tabs and the accounts behind it.
`stored` is the token in `localStorage`, which all tabs share; `token`, `user`
and `loading` are the state of each tab's `AuthProvider`, `path` that of its
router, `busy` that of the form on its screen.  Attempts to log in or sign up
are numbered, and attempt `k` yields token `k`, so `Owner` gives the user of a
token.  `asking[t]` are the tokens of the `me()` calls that tab `t` waits for:
`MeAnswered` sets the user of the token asked with, whatever token the tab has
by now, as the effect of `useAuth.jsx` does.  `Page` is `renderRoute`, `Links`
are the links of the navigation bar and of each page, and `Show` is what a
change of path, user or loading does to the screen, which ends the state of a
form that is not on it any more.  `Open` is a reload or a new document.
`SignupLookup` and `SignupInsert` are the two calls of `Signup`; the index
refuses the second insert.  `hurried` and `writer` are history variables that
name the two ways a tab is known to be wrong (section 7).

**`PollForm`** has the texts of a new poll as far as the two sides tell them
apart: whether a text is left empty by trimming, and what lower case makes of it,
in JavaScript and in Go; for the question its length in UTF-16 units, in runes
and in bytes.  `FormAccepts` is `handleSubmit` of `CreatePollPage.jsx`,
`ServerAccepts` is `CreatePoll` with its binding tags.

**`Creator`** is the dashboard, its cards and the form over the server's polls.
A request is served at one step and answered at a later one.  `act[a]` is an
update or a delete asked by a card: `card` says whether that card is still on the
screen (a refresh shows the spinner and unmounts all of them, and a card put back
is another one, whose buttons are enabled), `here` whether the page is.
`StartFetch` and `Mount` are what `fetchPolls` and a change of page do at once.
`draft` numbers the instances of the form.  `doubt` is a history variable: the
list may be behind, for one of the reasons listed at `DashboardIsCurrent`.

`MCPollServer`, `MCHub`, `MCLivePage`, `MCSession` and `MCCreator` instantiate
them.  Definitions whose name has an underscore and a second word
(`Accepts_AnyStatus`) are not part of a specification: each is a plausible bug in
the definition that follows it, and shows that the property it is meant for would
notice.

## 4. The runs

| run | instance | shows |
|---|---|---|
| `votes` | two votes and a page load; a browser, and another behind its address without fingerprint; evictions at any moment; the load's Redis calls fail | `NoRepeatAfterAnswer`, `PageKnowsVoter`: the MongoDB tier alone carries both |
| `manage` | a vote, a close, a reopen, a delete, expiry; any MongoDB call of the vote, the close and the delete and any Redis call of the delete fails; crashes | `AnswersTellStorage`, `ClosedRefusesLaterVotes`, `MissingPollTakesNoVote`, `DeletedForGood`, and that the handlers implement `Ballot` (`ImplementsBallot`) |
| `readers` | a vote, a results request, a page load, a dashboard; Redis calls of the load and the dashboard fail; reads may come while the poll is being made, and sync the hash; crashes | `TypeOK`, `CountsExact`, `TallyBracketed`, `TallyMonotone` |
| `tally` | two votes of two browsers for any of two options, a results request; fair handlers | `TallyBracketed`, `TallyMonotone`, `EventuallyExact` |
| `hub` | two connections (so two lives of the room and two listeners), channels of one message, two events, a Redis connection that drops | all the safety and liveness of the hub |
| `page` | two visits, two votes, the browser's for one option and another's for the other, one loss or throwing constructor | all the safety and liveness of the page |
| `session` | two tabs, an address with an account and one without, two attempts | all the safety and liveness of the session and the accounts |
| `creator` | three scopes: a poll with two fetches and two actions under way; two submissions; every form of up to three options | all the safety and liveness of the creator's pages |
| `repeat`, `evict`, `last_event`, `hub_leak` | the smallest instance of each | a statement of a document or comment that the code does not keep (section 7) |

The properties, in words, are in the modules above each definition.

Bounds and why they are enough.  Two votes are what a race between votes takes;
the handlers share nothing but the stores, so a third one repeats an
interleaving of the two.  One reader of each kind is enough for the tallies
because `TallyMonotone` relates two answers, and the results request, the page
load and the dashboard are three readers.  Two options are the fewest a poll may
have (`poll_controller.go` refuses one), and enough to have a partial hash.  The
hub needs two connections for a second listener, a channel of one for a full
one, and two events for the second to find it full.  The page needs a second
visit to be disturbed by the first, two handlers to publish in the wrong order,
and one loss that cuts a connection or keeps one from being begun; what the
second of two losses meets is what the first left, a pending timer.  With the
browser's votes and those of others for different options (`OwnOptions`,
`OtherOptions`) a tally that lacks either is seen.
A session needs two tabs to write each other's token, two addresses to show the
wrong one, and two attempts for two signups of one address or a login after a
login; nothing grows with a third.  In `creator` a crossing takes two requests of
a kind, so each scope has two of the kind it is about and as few of the others
as it can; the texts are some on which the two sides agree, and one for each way
in which they do not (a capital dotted I, the next-line character, an emoji).
`OwnOptions`, `OtherOptions`, `MaxVotes`, `MaxVisits`, `MaxLosses`, `MaxEvents`,
`MaxAttempts`, `MaxPolls`,
`MaxActs`, `MaxOptions` and the fields of `Scopes` are the only bounds.
Section 6 removes the bounds for the properties it lists.

Deadlock is checked everywhere.  `Rest` is the step of a system in which nothing
is at work: it is enabled only when no handler, goroutine, callback or timer has
anything left to do, or the hub's process is dead.  `Session` and `Creator` need no
such step: a person can always go to another page.

## 5. Fairness

* `PollServer!FairSpec`: weak fairness of `Advance(r)` for each request.
  `net/http` gives each request a goroutine, which the scheduler runs, and the
  store calls return or fail (they carry the request's context or time out).
  Nobody is obliged to send a request, and nothing is assumed of evictions,
  expiry or crashes.
* `Hub!FairSpec`: weak fairness of `Run`, of each `writePump`, of each `readPump`
  on a lost connection (deadlines of 60 and 10 seconds), and of each listener.
  `Register` and `Unregister` wait for `mu.Lock`; Go's `RWMutex` lets a waiting
  writer in before later readers, and a broadcast never blocks, so weak fairness
  is what the code has.  No fairness of `Subscribed`: Redis may stay away.
* `LivePage!FairSpec`: weak fairness of `Opened`, `Receive` and `Reconnect`: the
  browser runs due timers and callbacks, and the network lets a socket open that
  is not lost first.  Losses are bounded, responses need never come.
* `Session!FairSpec` and `Creator!FairSpec`: a `fetch` ends in a response or in
  an error, and the browser runs its continuation.  Which of the two it is stays
  open, so the liveness properties hold because every path through the code,
  the failing ones included, frees the form or the spinner.

## 6. The proofs

The theorems hold for any number of requests, connections, events, visits, tabs,
attempts and polls, for any options and texts, from the assumptions in the
modules that declare the constants: `OptionsAssumption`, `InputAssumption` and
`RequestAssumption` of the backend, `HubAssumption`, `ChartAssumption` and
`PageAssumption`, `SessionAssumption`, `PollFormAssumption` and
`CreatorAssumption`.  They say that sets are finite, numbers are numbers, and
names of different things differ.  Every invariant of a passing run is proved, and
the action property `DeletedForGood` and the refinement `ImplementsBallot`; each
inductive invariant named below has been checked by TLC on the instances of
section 4, too.

`PollServerProofs`:

* `BaseInv == TypeOK /\ KindOK /\ HistoryOK`.  `KindOK`: a handler is only at
  calls of its own endpoint, which types alone do not say and every case split
  needs.  `HistoryOK`: an answer ends a request, and what a request found
  answered stays answered.  `OwnerMoves` says that a step moves one request, by a
  step of its own handler, and `StoreChanges` who may change a store: with them
  the later proofs look at a handful of actions instead of all.
* `StorageInv` strengthens `AnswersTellStorage` to requests that are not yet
  answered: past its insert a vote is stored, before it it is not.  It is needed
  because the answer is three calls away from the insert.
* `RepeatInv` strengthens `NoRepeatAfterAnswer`: a vote whose sender was answered
  before is not even at its insert.  With `VotedBeforeIsFound` (what was answered
  is stored, by `StorageInv`, so `HasUserVoted` finds it) the second tier stops
  it.  `PageKnowsVoter` follows the same way.
* `MissingInv` and `ClosedInv`: a delete that got past the poll's document without
  an error, and whoever was told 404 by a lookup that did not fail
  (`LookupMissing`), found the poll gone; after an answered close, with no reopen
  at work, it is closed or gone.  A vote that arrives later then ends at its first
  call (`RefusedOnArrival`, `OverStays`).

`BallotProofs` shows that `PollServer` implements `Ballot`, with nothing assumed of
the calls that may fail, those of a delete included.  The invariant is
`ServerInv == BaseInv /\ StorageInv /\ MissingInv /\ NoneInv`; `NoneInv` adds that
nothing comes before the poll.  `DoomKept` and `DoomChanges` say that a delete once
begun stays so and which step begins it.  `CastFindStep` and `CastStepStep` map each
step of a vote to `Admit`, `Refuse`, `Put`, `Confirm` or a stutter, `OtherStep` the
rest to `Open`, `Close`, `Doom` and `Discard`.

`TallyProofs` is about the hash while no vote is lost from it.  `TallyInv` says so
under `Presumed`: Redis forgets nothing and only calls of reads fail
(`StoresSound`); a read that may sync the hash overlaps no vote (`SeedsApart`); and
the poll is not deleted (once it is, none of the properties says anything).
`HashInv`: `CreatePoll` has made the whole hash before its answer tells anybody the
poll's id, so the reads that may miss it are those that came before (MongoDB has
the poll by then) and those whose `HGETALL` fails (`MayMiss`).  `SeedAgrees`: such a read overlaps no vote, so the aggregation that it
writes back is what MongoDB has and what the hash would have.  `CountInv`: the hash
of an option holds every vote past its `HINCRBY`, and no vote that is not stored or
still before it; the two bounds meet if no handler was cut short, which is
`CountsExact`.  `SnapInv` carries the bounds to the tallies that handlers hold,
where they must survive the steps of others: votes grow and counts grow
(`CountsGrow`), so a tally read stays below, and `Due` (the reader's own vote and
those answered when it came) is fixed on arrival, so it stays above.  `MonotoneInv`
compares a reader with those answered before it: they are no larger than the hash,
which it reads.  The votes in these sums are sets, and the step of one vote adds one
element to a set (`FS_AddElement`), so no induction is needed.

`HubProofs`: `HubInv == TypeOK /\ RoomInv /\ ListenerInv`.  `RoomInv` ties
`rooms`, `subscribers`, the subscriptions and the channels together;
`ListenerInv` says that a listener which is at a client whose channel is closed
is not the only listener there was, because its own drops move it on and `Run`
closes channels only when no broadcast runs.  `DueInv` follows each event due to
a client from the subscription through the broadcast into its channel and out.
`OnceInv == HeldInv /\ HeardInv` is the converse: at most one listener was given
an event, because at most one subscription is live when it is published, and no
listener is yet to offer a client what the client was sent.

`LivePageProofs`: `SocketInv` adds to the two properties that only a mounted page
waits for its fetch, which is what keeps a late response from opening a socket
for a page that was left; `VoteInv` extends `VotedMeansCounted` to responses on
their way.  `LinkInv`: events travel only over a connection, none of them is of no
votes, and the last one on its way to a page is the one broadcast last.  `OwnInv`: a
page that was answered shows at least the answer to its vote or, over the
connection it still has, the event broadcast last, when none is on its way; the
response to its one fetch, which could take the vote back, was consumed before the
form was offered.  Nothing is assumed of the order in which handlers read and
publish.  `SoundInv` says that results and total
are of one tally wherever the browser has them.

`ChartProofs` draws a chart of any such tally (`SoundDrawsATally`): each
percentage is off by a half at most (`Rounding`), the errors add up
(`SumsOfPercentages`), and the longest bar exists (`MaxCountType`).  A sum over a
finite set is a recursive function; that it exists, and what sums do, is shown
along the choices it makes (`SumsExist`, `SetInduction`).

`SessionProofs`: `SessionInv == TypeOK /\ AttemptInv /\ TokenInv /\ ProviderInv /\
ShownUserIsTokens`.  Tokens come from attempts that were submitted and have an
owner; a tab that was not hurried asks only about the token it has, so any
answer sets the right user; and the last writer of `localStorage` still has what
it wrote.  `OneSignupWins` counts the signups granted against the documents.

`CreatorProofs`: `CreatorInv` holds the types in four parts, with what is known
of requests that were not asked yet.  `CurrentInv`: the fetches that see every
answered change are a suffix of those under way, so the last one decides; if it
does not, or there is none, the list is current already, or `doubt` says why
not.  `DraftInv`: polls are asked for in order, and a form that was told of its
poll is off the screen. `BodyKept` follows the loop of `handleSubmit` over the
options and shows that what is sent has no text that trims to nothing, which
`RefusedWhenReadDifferently` needs for every form.

Induction.  The library's induction theorems take an operator as a parameter and
cannot be used; where data need induction the proofs take the least element of
the set of counterexamples instead (`Least`, from the well-foundedness of `<`),
and derive from it the induction over finite sets.

| theorem | statement |
|---|---|
| `TypeCorrect`, `HubTypeCorrect`, `PageTypeCorrect`, `TypesHold`, `TypeOKHolds` | the type invariants; for the hub also that no channel overflows |
| `AnswersTellStorageHolds`, `NoRepeatAfterAnswerHolds`, `PageKnowsVoterHolds` | what the answers to votes promise |
| `ClosedRefusesLaterVotesHolds`, `MissingPollTakesNoVoteHolds`, `DeletedForGoodHolds` | what a close, and a poll that is told to be missing, promise |
| `ImplementsBallotHolds` | the handlers together are a ballot box |
| `CountsExactHolds`, `TallyBracketedHolds`, `TallyMonotoneHolds` | the tallies, while Redis forgets nothing, only reads fail, and reads that sync overlap no vote |
| `MembersAreServedHolds`, `PanicTakesTwoHolds`, `NothingSkippedHolds`, `AtMostOnceHolds` | the room |
| `NothingOutlivesItsPageHolds`, `StatusTellsTruthHolds`, `VotedMeansCountedHolds`, `OwnVoteShownHolds` | the page |
| `SoundDrawsATally`, `ChartAddsUpHolds` | the chart |
| `ShownUserIsTokensHolds`, `ActsAsShownHolds`, `OneSignupWinsHolds` | the session and the accounts |
| `DashboardIsCurrentHolds`, `TwinsTakeALostReplyHolds`, `RefusedWhenReadDifferentlyHolds` | the creator's pages |

Model-checked only: what speaks of fairness (`EventuallyExact`, `DroppedIsTold`,
`GoneLeaves`, `DueIsDelivered`, `ComesBack`, `HeardIsShown`, `EveryCallEnds`,
`SpinnerEnds`), which is beyond the proof system, as is `ENABLED`; and the
disagreements of section 7, which are counterexamples.

## 7. Where code and documents disagree

Four runs expect a violation.  Each states what a document or a comment says of
the program, and TLC shows what the code does instead.

* `repeat`: "Rejection of ... repeated votes" (README.md:32).  Two concurrent
  votes of one browser both pass `SISMEMBER` and the count, and both are stored.
  What does hold is `NoRepeatAfterAnswer`.
* `evict`: a cache miss "re-seeds the Redis hash" (README.md:381).  A `HINCRBY`
  on an evicted hash creates a hash with one field, which is no miss; earlier
  votes are never shown again.  What holds, with stores that do not forget, is
  `TallyBracketed`.
* `last_event`: "Live results stream instantly to all connected audience screens"
  (README.md:15).  The handler that read the older tally may publish last.  What
  holds is `OwnVoteShown`: a voter's page shows its vote, or the event that was
  broadcast last.
* `hub_leak`: "When the last client disconnects ... the Redis subscriber cleanly
  closes" (README.md:375).  When a broadcast dropped the last client the room and
  its subscription stay.

Other limits the model has, without a run of their own:

* A 409 may answer a sender who has no vote (the voter was recorded, the insert
  failed); a vote in flight is stored after a close or a delete was answered; a
  failed aggregation is synced to Redis as zeros.
* A delete answers 200 whatever became of its calls: the poll may still be there,
  with or without its votes (poll_controller.go:319-322).  What holds is
  `MissingPollTakesNoVote`, and that the votes go only once a delete has begun
  (`ImplementsBallot`).
* A read that syncs the hash while a vote is at work may undo its `HINCRBY`
  (redis_service.go:84).  `CountsExact`, `TallyBracketed` and `TallyMonotone` are
  about reads that do not (`SeedsApart`).
* A close and a reopen at work together end in either status, whichever is
  answered last.
* When `HGETALL` fails, `CastVote` writes to the nil map it got and panics: a vote
  that is stored is answered 500 (vote_controller.go:137, against the comment
  at 128).
* Two listeners of one room can bring the process down (`PanicTakesTwo` says that
  it takes two).
* The page fetches before it subscribes and not again after a reconnect
  (useLivePoll.js:47), so votes of others in between are not shown until the
  next event; and a refresh that is answered late may put an older tally in the
  place of a newer event.
* A `me()` that is answered after a logout or another login sets the user of the
  old token (useAuth.jsx:18), and one that fails for want of a network logs the
  user out.  `ShownUserIsTokens` and `ActsAsShown` hold but for a token that
  changed while a `me()` was under way (`hurried`).
* A tab goes on showing its user after another tab has logged in as someone else
  or logged out, and its requests carry the other token (api.js:18).
* The answer to a login or to the creation of a poll navigates away from
  whatever page is on the screen by then.
* A creator who is told that a poll was not made may have made it, and makes a
  second one by trying again (`TwinsTakeALostReply` says that it takes that).
* The older of two crossing fetches may arrive last and stay on the dashboard.
* A poll that the form lets through is refused by the server when the two
  languages read a text differently (`RefusedWhenReadDifferently` names how).

## 8. What is not modelled

* The expiry of a new poll (parsing, a date in the past) and its display; in
  `PollServer` the passing of `expires_at` is an event.
* MongoDB replica sets, Redis clusters and the wire protocols; a `HINCRBY` that
  go-redis retries, with which no upper bound of a cached tally holds.
* Passwords, hashing and the signature of tokens: a login of an account may
  succeed or be refused, a token is its attempt.
* Time as a quantity: TTLs, deadlines, backoff and the life of tokens.
* A mounted page that is switched to another poll.
* Toasts (a list of messages, each with a timer that removes it, read by nothing
  else), copied links and QR codes, layout, logging, configuration, packaging.

## 9. Running it

In this directory, `tlc -config MCVotes.cfg MCPollServer.tla` runs `votes`; each
run's module and configuration are in `PROJECT.json`.  `tlapm PollServerProofs.tla`
checks the proofs of a module; the others are `BallotProofs`, `TallyProofs`,
`HubProofs`, `ChartProofs`, `LivePageProofs`, `SessionProofs` and `CreatorProofs`.
The longest run takes a few minutes with two workers.
