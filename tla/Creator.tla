------------------------------- MODULE Creator -------------------------------
(***************************************************************************)
(* The pages of a poll's creator: the dashboard with its cards             *)
(* (DashboardPage.jsx, PollCard.jsx) and the form of a new poll            *)
(* (CreatePollPage.jsx), over the polls the server keeps for that user.    *)
(*                                                                         *)
(* A request is served at some moment and answered at some later one, and  *)
(* nothing keeps two of them in order.  A page that is left forgets its    *)
(* state, but not what it has asked for.                                   *)
(***************************************************************************)
EXTENDS PollForm

CONSTANTS
    Example,      \* what "Load Example" fills in
    MaxPolls,     \* bound: polls of the creator
    MaxActs,      \* bound: updateStatus and delete under way at a time
    Scopes        \* bounds: a sequence of them, of which a behavior has one

\* Of a scope, old are the polls that exist at the start, all those and the
\* ones submitted, fetches the getMyPolls under way at a time, acts how many
\* of Acts are used, and forms what the form is filled in with.
ASSUME CreatorAssumption ==
    /\ MaxPolls \in Nat /\ MaxActs \in Nat
    /\ Scopes \in Seq([old : Nat, all : Nat, fetches : Nat, acts : Nat, forms : SUBSET AllForms])
    /\ \A s \in 1 .. Len(Scopes) : NewForm \in Scopes[s].forms /\ Scopes[s].old <= Scopes[s].all
    /\ Example \in AllForms

Polls == 1 .. MaxPolls      \* poll p is the one that request p creates
Acts == 1 .. MaxActs
Statuses == {"active", "closed"}
Filters == {"all"} \cup Statuses

VARIABLES
    scope,      \* which of Scopes this behavior has
    polls,      \* the server's polls
    create,     \* requests of the form
    act,        \* requests of the cards
    fetches,    \* requests of the dashboard, in the order they were asked
    page,       \* the page on the screen
    list,       \* state of DashboardPage: polls, loading and filter
    loading,
    filter,
    form,       \* state of CreatePollPage: question and options
    draft,      \* which instance of that page this is
    doubt       \* history: the list may be behind, for a reason listed below

Bound == Scopes[scope]

requests  == <<create, act, fetches>>
dashboard == <<list, loading, filter>>
creation  == <<form, draft>>
vars      == <<scope, polls, requests, page, dashboard, creation, doubt>>

NoAct == [state |-> "idle", poll |-> 0, want |-> "closed", card |-> FALSE, here |-> FALSE]
NoList == [p \in Polls |-> "none"]

\* What GetMyPolls answers, expiry left out.
Listing == [p \in Polls |-> IF polls[p] \in Statuses THEN polls[p] ELSE "none"]

-----------------------------------------------------------------------------
(* What is on the screen. *)

\* The cards under the filter that is chosen; none while the list is loading.
Shown(l, waits, f) ==
    {p \in Polls : ~waits /\ l[p] # "none" /\ f \in {"all", l[p]}}

DashboardView == IF page = "dashboard" THEN Shown(list, loading, filter) ELSE {}

\* A card is busy while it waits for a request of its own; a card that was
\* taken off the screen and put back is another one, which waits for nothing.
Busy(p) == \E a \in Acts : act[a].poll = p /\ act[a].card

CardView(p) ==
    [wants   |-> IF list[p] = "active" THEN "closed" ELSE "active",
     enabled |-> ~Busy(p)]

Publishing == \E p \in Polls : create[p].draft = draft /\ create[p].state \in {"asked", "ok", "failed"}

\* A form whose buttons stay enabled while it waits.
FormView_AlwaysEnabled ==
    [publish |-> TRUE,
     remove  |-> Len(form.options) > 2,
     add     |-> Len(form.options) < MaxOptions]

FormView ==
    [publish |-> ~Publishing,
     remove  |-> Len(form.options) > 2,
     add     |-> Len(form.options) < MaxOptions]

\* A dashboard whose cards outlive the spinner.
Unmount_Nothing(cards) == act

\* Requests of cards that are no longer shown lose their card; those of a
\* page that is left are answered to nobody.
Unmount(cards) == [a \in Acts |-> [act[a] EXCEPT !.card = @ /\ act[a].poll \in cards]]

Abandoned ==
    [a \in Acts |-> IF act[a].state = "asked" THEN [act[a] EXCEPT !.card = FALSE, !.here = FALSE]
                                              ELSE NoAct]

-----------------------------------------------------------------------------
(* The dashboard. *)

Fetch(good) == [state |-> "asked", list |-> NoList, good |-> good]

\* What fetchPolls does at once: all cards give way to the spinner.
StartFetch(earlier) ==
    /\ Len(earlier) < Bound.fetches
    /\ fetches' = Append(earlier, Fetch(TRUE))
    /\ loading' = TRUE

Refresh ==
    /\ page = "dashboard"
    /\ StartFetch(fetches)
    /\ act' = Unmount({})
    /\ UNCHANGED <<polls, create, page, list, filter, creation, doubt>>

SetFilter ==
    \E f \in Filters \ {filter} :
        /\ page = "dashboard"
        /\ filter' = f
        /\ act' = Unmount(Shown(list, loading, f))
        /\ UNCHANGED <<polls, create, fetches, page, list, loading, creation, doubt>>

Ask(p, want) ==
    \E a \in Acts :
        /\ a <= Bound.acts
        /\ act[a].state = "idle"
        /\ \A b \in 1 .. a - 1 : act[b].state # "idle"
        /\ act' = [act EXCEPT ![a] =
               [state |-> "asked", poll |-> p, want |-> want, card |-> TRUE, here |-> TRUE]]
        /\ UNCHANGED <<polls, create, fetches, page, dashboard, creation, doubt>>

Toggle(p) ==
    /\ p \in DashboardView
    /\ CardView(p).enabled
    /\ Ask(p, CardView(p).wants)

Delete(p) ==
    /\ p \in DashboardView
    /\ CardView(p).enabled
    /\ Ask(p, "deleted")

\* A change of the server's polls that no later fetch will be asked for.
Untold ==
    /\ doubt' = (page = "dashboard")
    /\ fetches' = [i \in 1 .. Len(fetches) |-> [fetches[i] EXCEPT !.good = FALSE]]

\* UpdatePollStatus or DeletePoll: a poll may be found and gone by the time it is
\* updated, a delete ignores that its calls failed, and a change may be made
\* although the page is told that it failed.
ServeAct(a) ==
    /\ act[a].state = "asked"
    /\ \/ /\ polls[act[a].poll] \in Statuses
          /\ polls' = [polls EXCEPT ![act[a].poll] = act[a].want]
          /\ \E told \in {"ok", "failed"} :
                /\ act' = [act EXCEPT ![a] = IF @.here THEN [@ EXCEPT !.state = told] ELSE NoAct]
                /\ IF told = "ok" /\ act[a].here THEN UNCHANGED <<doubt, fetches>> ELSE Untold
       \/ /\ \E told \in {"ok", "failed"} :
                /\ told = "ok" => act[a].want = "deleted" \/ polls[act[a].poll] \notin Statuses
                /\ act' = [act EXCEPT ![a] = IF @.here THEN [@ EXCEPT !.state = told] ELSE NoAct]
          /\ UNCHANGED <<polls, doubt, fetches>>
    /\ UNCHANGED <<create, page, dashboard, creation>>

\* A dashboard that leaves the list as it is after an action.
ActArrives_NoRefresh(a) ==
    /\ act[a].state \in {"ok", "failed"}
    /\ act' = [act EXCEPT ![a] = NoAct]
    /\ UNCHANGED <<polls, create, fetches, page, dashboard, creation, doubt>>

\* A success calls onRefresh, whether the card that asked for it is still
\* there or not; a failure only frees the card.
ActArrives(a) ==
    /\ act[a].state \in {"ok", "failed"}
    /\ IF act[a].state = "ok"
       THEN /\ StartFetch(fetches)
            /\ act' = [Unmount({}) EXCEPT ![a] = NoAct]
       ELSE /\ act' = [act EXCEPT ![a] = NoAct]
            /\ UNCHANGED <<fetches, loading>>
    /\ UNCHANGED <<polls, create, page, list, filter, creation, doubt>>

ServeFetch(i) ==
    /\ fetches[i].state = "asked"
    /\ fetches' = [fetches EXCEPT ![i].state = "answered", ![i].list = Listing]
    /\ UNCHANGED <<polls, create, act, page, dashboard, creation, doubt>>

\* The fetches that stay when number i is over; the ones asked before it bring
\* an older list than it has brought, or would have.
Without(i) ==
    [j \in 1 .. Len(fetches) - 1 |->
        IF j < i THEN [fetches[j] EXCEPT !.good = FALSE] ELSE fetches[j + 1]]

FetchArrives(i) ==
    /\ fetches[i].state = "answered"
    /\ list' = fetches[i].list
    /\ loading' = FALSE
    /\ act' = Unmount(IF loading THEN {} ELSE Shown(list', FALSE, filter))
    /\ fetches' = Without(i)
    /\ doubt' = ~fetches[i].good
    /\ UNCHANGED <<polls, create, page, filter, creation>>

\* A fetch without the finally that ends the spinner.
FetchFails_KeepsLoading(i) ==
    /\ fetches' = Without(i)
    /\ doubt' = (doubt \/ fetches[i].good)
    /\ UNCHANGED <<polls, create, act, page, dashboard, creation>>

\* The list that was shown before is shown again.
FetchFails(i) ==
    /\ loading' = FALSE
    /\ fetches' = Without(i)
    /\ doubt' = (doubt \/ fetches[i].good)
    /\ UNCHANGED <<polls, create, act, page, list, filter, creation>>

-----------------------------------------------------------------------------
(* The form. *)

Edit(f) ==
    /\ page = "create"
    /\ f \in Bound.forms
    /\ form' = f
    /\ UNCHANGED <<polls, requests, page, dashboard, draft, doubt>>

SetQuestion == \E q \in Questions : Edit([form EXCEPT !.question = q])
SetOption ==
    \E i \in 1 .. Len(form.options), t \in Texts :
        Edit([form EXCEPT !.options = SetAt(@, i, t)])

UseExample == Edit(Example)

AddOption ==
    /\ FormView.add
    /\ Edit([form EXCEPT !.options = Added(@)])

RemoveOption ==
    \E i \in 1 .. Len(form.options) :
        /\ FormView.remove
        /\ Edit([form EXCEPT !.options = Removed(@, i)])

Publish(p) ==
    /\ page = "create"
    /\ FormView.publish
    /\ FormAccepts(form)
    /\ p <= Bound.all
    /\ create[p].state = "unused"
    /\ \A q \in 1 .. p - 1 : create[q].state # "unused"
    /\ create' = [create EXCEPT ![p] =
           [state |-> "asked", draft |-> draft,
            valid |-> ServerAccepts(form.question, Body(form.options))]]
    /\ UNCHANGED <<polls, act, fetches, page, dashboard, creation, doubt>>

\* CreatePoll: a poll may be stored although the page is told that it is not.
ServeCreate(p) ==
    /\ create[p].state = "asked"
    /\ \/ /\ create[p].valid
          /\ polls' = [polls EXCEPT ![p] = "active"]
          /\ \E told \in {"ok", "failed"} : create' = [create EXCEPT ![p].state = told, ![p].valid = FALSE]
          /\ Untold
       \/ /\ create' = [create EXCEPT ![p].state = "failed", ![p].valid = FALSE]
          /\ UNCHANGED <<polls, doubt, fetches>>
    /\ UNCHANGED <<act, page, dashboard, creation>>

-----------------------------------------------------------------------------
(* From page to page. *)

\* Page p takes the place of the one before, with a state of its own.
Mount(p) ==
    /\ page' = p
    /\ act' = Abandoned
    /\ list' = NoList
    /\ filter' = "all"
    /\ form' = NewForm
    /\ draft' = IF p = "create" /\ \E q \in Polls : create[q].draft = draft THEN draft + 1 ELSE draft
    /\ doubt' = FALSE
    /\ IF p = "dashboard" THEN StartFetch(<<>>) ELSE fetches' = <<>> /\ loading' = FALSE

Goto(p) ==
    /\ page # p
    /\ Mount(p)
    /\ UNCHANGED <<polls, create>>

\* A success leads to the results of the new poll, from any page.
CreateArrives(p) ==
    \/ /\ create[p].state = "ok"
       /\ create' = [create EXCEPT ![p].state = "done"]
       /\ IF page = "other"
          THEN UNCHANGED <<act, fetches, page, dashboard, creation, doubt>>
          ELSE Mount("other")
       /\ UNCHANGED polls
    \/ /\ create[p].state = "failed"
       /\ create' = [create EXCEPT ![p].state = "gaveup"]
       /\ UNCHANGED <<polls, act, fetches, page, dashboard, creation, doubt>>

Init ==
    /\ scope \in 1 .. Len(Scopes)
    /\ polls = [p \in Polls |-> IF p <= Bound.old THEN "active" ELSE "none"]
    /\ create = [p \in Polls |->
           [state |-> IF p <= Bound.old THEN "done" ELSE "unused", draft |-> 0, valid |-> FALSE]]
    /\ act = [a \in Acts |-> NoAct]
    /\ fetches = <<>>
    /\ page = "other"
    /\ list = NoList
    /\ loading = FALSE
    /\ filter = "all"
    /\ form = NewForm
    /\ draft = 1
    /\ doubt = FALSE

Next ==
    \/ \E p \in {"dashboard", "create", "other"} : Goto(p)
    \/ Refresh \/ SetFilter
    \/ \E p \in Polls : Toggle(p) \/ Delete(p)
    \/ \E a \in Acts : ServeAct(a) \/ ActArrives(a)
    \/ \E i \in 1 .. Len(fetches) : ServeFetch(i) \/ FetchArrives(i) \/ FetchFails(i)
    \/ SetQuestion \/ SetOption \/ UseExample \/ AddOption \/ RemoveOption
    \/ \E p \in Polls : Publish(p) \/ ServeCreate(p) \/ CreateArrives(p)

Spec == Init /\ [][UNCHANGED scope /\ Next]_vars

\* Every request is served or fails, and the page learns of it.
FairSpec ==
    /\ Spec
    /\ WF_vars(UNCHANGED scope /\ \E i \in 1 .. Len(fetches) :
                    ServeFetch(i) \/ FetchArrives(i) \/ FetchFails(i))
    /\ WF_vars(UNCHANGED scope /\ \E p \in Polls : ServeCreate(p) \/ CreateArrives(p))

-----------------------------------------------------------------------------
(* Properties. *)

\* Every variable has its type, the form always has 2 to MaxOptions options,
\* and a card that is disabled is one that is on the screen.
TypeOK ==
    /\ polls \in [Polls -> {"none", "active", "closed", "deleted"}]
    /\ create \in [Polls -> [state : {"unused", "asked", "ok", "failed", "done", "gaveup"},
                             draft : Nat, valid : BOOLEAN]]
    /\ act \in [Acts -> [state : {"idle", "asked", "ok", "failed"}, poll : Polls \cup {0},
                         want : {"active", "closed", "deleted"}, card : BOOLEAN, here : BOOLEAN]]
    /\ Len(fetches) <= Bound.fetches
    /\ \A i \in 1 .. Len(fetches) :
           fetches[i] \in [state : {"asked", "answered"}, list : [Polls -> Statuses \cup {"none"}],
                           good : BOOLEAN]
    /\ page \in {"dashboard", "create", "other"}
    /\ list \in [Polls -> Statuses \cup {"none"}]
    /\ loading \in BOOLEAN
    /\ filter \in Filters
    /\ scope \in 1 .. Len(Scopes)
    /\ form \in Bound.forms
    /\ Len(form.options) \in 2 .. MaxOptions
    /\ draft \in Nat
    /\ doubt \in BOOLEAN
    /\ \A a \in Acts : act[a].card => act[a].here /\ act[a].poll \in DashboardView

\* With no request of its own under way the dashboard shows the polls as the
\* server has them, although its fetches may overtake each other and cards
\* come and go with requests under way.  The exceptions: a list that arrived
\* after that of a later fetch, a fetch that failed, a change the page was
\* told had failed, and one that an earlier page asked for.
DashboardIsCurrent ==
    page = "dashboard" /\ fetches = <<>> /\ ~doubt
        /\ (\A a \in Acts : act[a].state # "ok")
    => list = Listing

\* A poll the form lets through is refused by the server's own checks only
\* if the two sides read a text differently: white space and lower case of
\* JavaScript and Go, UTF-16 units against runes and bytes, or more than the
\* 500 characters the form does not know of (models/poll.go:27).
RefusedWhenReadDifferently ==
    FormAccepts(form) /\ ~ServerAccepts(form.question, Body(form.options))
        => ReadDifferently(form.question, Body(form.options))

\* One form on the screen makes two polls only when the creator was told that
\* the first had failed; a double click or a return to the page does not.
TwinsTakeALostReply ==
    \A p, q \in Polls :
        p < q /\ create[p].draft = create[q].draft /\ create[p].draft # 0 /\ polls[p] # "none" /\ polls[q] # "none"
            => create[p].state = "gaveup"

\* The spinner of the dashboard gives way to a list, and a form that was
\* submitted can be submitted again or is gone.
SpinnerEnds ==
    (loading \/ (page = "create" /\ Publishing)) ~> ~(loading \/ (page = "create" /\ Publishing))
=============================================================================
