---------------------------- MODULE CreatorProofs ----------------------------
(***************************************************************************)
(* Theorems of Creator for every number of polls, of actions under way and *)
(* of fetches in flight, and for whatever may be typed into the form.      *)
(***************************************************************************)
EXTENDS Creator, WellFoundedInduction, TLAPS

FetchType ==
    [state : {"asked", "answered"}, list : [Polls -> Statuses \cup {"none"}], good : BOOLEAN]

CreateType ==
    [state : {"unused", "asked", "ok", "failed", "done", "gaveup"}, draft : Nat, valid : BOOLEAN]

ActType ==
    [state : {"idle", "asked", "ok", "failed"}, poll : Polls \cup {0},
     want : {"active", "closed", "deleted"}, card : BOOLEAN, here : BOOLEAN]

\* An action is about a poll, and is answered to the dashboard that asked.
ActInv ==
    \A a \in Acts :
        /\ act[a].state # "idle" => act[a].poll \in Polls
        /\ act[a].here => page = "dashboard"
        /\ act[a].state \in {"ok", "failed"} => act[a].here
        /\ act[a].card => act[a].here /\ act[a].poll \in DashboardView

\* Only a dashboard fetches, and waits for what it fetches.
FetchInv ==
    /\ fetches \in Seq(FetchType)
    /\ fetches # <<>> => page = "dashboard"

ActsOK == act \in [Acts -> ActType] /\ ActInv

FetchesOK == FetchInv /\ Len(fetches) <= Bound.fetches

ScreenOK ==
    /\ page \in {"dashboard", "create", "other"}
    /\ list \in [Polls -> Statuses \cup {"none"}]
    /\ loading \in BOOLEAN
    /\ filter \in Filters
    /\ doubt \in BOOLEAN
    /\ scope \in 1 .. Len(Scopes)
    /\ form \in Bound.forms
    /\ draft \in Nat

PollsOK ==
    /\ polls \in [Polls -> {"none", "active", "closed", "deleted"}]
    /\ create \in [Polls -> CreateType]

CreatorInv == ActsOK /\ FetchesOK /\ ScreenOK /\ PollsOK

\* Nothing that succeeded is still to be told to the dashboard.
AllTold == \A a \in Acts : act[a].state # "ok"

\* The last fetch decides: if it is good it brings what the server has, and
\* if it is not, or there is none, the list is that already.
CurrentInv ==
    LET n == Len(fetches) IN
    /\ \A i, j \in 1 .. n : i < j /\ fetches[i].good => fetches[j].good
    /\ page = "dashboard" /\ AllTold =>
        /\ n > 0 /\ fetches[n].good /\ fetches[n].state = "answered" => fetches[n].list = Listing
        /\ (n > 0 => ~fetches[n].good) /\ ~doubt => list = Listing

\* Polls are asked for in order, each by an instance of the form that is on the
\* screen then, and one that has its poll is not on the screen any more.
DraftInv ==
    /\ draft >= 1
    /\ \A p \in Polls :
        /\ create[p].draft <= draft
        /\ create[p].state = "unused" => create[p].draft = 0
        /\ create[p].state = "done" /\ create[p].draft = draft => page # "create"
        /\ \A q \in Polls : p < q =>
            /\ create[p].state = "unused" => create[q].state = "unused"
            /\ create[p].draft = create[q].draft /\ create[p].draft # 0 => create[p].state = "gaveup"

-----------------------------------------------------------------------------
(* The bounds, the forms and the operators of the model. *)

LEMMA Bounds ==
    ASSUME scope \in 1 .. Len(Scopes)
    PROVE  /\ Bound.fetches \in Nat /\ Bound.old \in Nat /\ Bound.forms \subseteq AllForms
           /\ NewForm \in Bound.forms
<1> DEFINE S == [old : Nat, all : Nat, fetches : Nat, acts : Nat, forms : SUBSET AllForms]
<1>1. Scopes \in Seq(S)
  BY CreatorAssumption
<1>2. NewForm \in Scopes[scope].forms
  BY CreatorAssumption
<1>3. Scopes[scope] \in S
  <2> HIDE DEF S
  <2> QED BY <1>1
<1> QED BY <1>2, <1>3 DEF Bound

LEMMA FormOptions ==
    ASSUME NEW f \in AllForms
    PROVE  /\ f.question \in Questions /\ f.options \in Seq(Texts)
           /\ Len(f.options) \in 2 .. MaxOptions
<1>1. PICK n \in 2 .. MaxOptions : f.options \in [1 .. n -> Texts] /\ f.question \in Questions
  BY DEF AllForms
<1>2. n \in Nat /\ DOMAIN f.options = 1 .. n
  BY <1>1, PollFormAssumption
<1>3. f.options \in Seq(Texts)
  BY <1>1, <1>2
<1>4. Len(f.options) = n
  BY <1>2, <1>3
<1> QED BY <1>1, <1>4

LEMMA CreatorTypes ==
    ASSUME CreatorInv
    PROVE  TypeOK
<1>1. Len(form.options) \in 2 .. MaxOptions
  BY Bounds, FormOptions DEF CreatorInv, ScreenOK
<1>2. \A i \in 1 .. Len(fetches) : fetches[i] \in FetchType
  BY DEF CreatorInv, FetchesOK, FetchInv
<1>3. \A a \in Acts : act[a].card => act[a].here /\ act[a].poll \in DashboardView
  BY DEF CreatorInv, ActsOK, ActInv
<1> QED BY <1>1, <1>2, <1>3
    DEF TypeOK, CreatorInv, ActsOK, FetchesOK, ScreenOK, PollsOK, ActType, FetchType, CreateType

LEMMA Unmounted ==
    ASSUME ActsOK, NEW cards
    PROVE  /\ Unmount(cards) \in [Acts -> ActType]
           /\ \A a \in Acts :
                /\ Unmount(cards)[a].state = act[a].state
                /\ Unmount(cards)[a].poll = act[a].poll
                /\ Unmount(cards)[a].here = act[a].here
                /\ Unmount(cards)[a].card <=> act[a].card /\ act[a].poll \in cards
<1>1. ASSUME NEW a \in Acts
      PROVE  /\ Unmount(cards)[a] \in ActType
             /\ Unmount(cards)[a].state = act[a].state
             /\ Unmount(cards)[a].poll = act[a].poll
             /\ Unmount(cards)[a].here = act[a].here
             /\ Unmount(cards)[a].card <=> act[a].card /\ act[a].poll \in cards
  <2>1. PICK b \in BOOLEAN : b = (act[a].card /\ act[a].poll \in cards)
    OBVIOUS
  <2>2. Unmount(cards)[a] = [act[a] EXCEPT !.card = b]
    BY <2>1 DEF Unmount
  <2>3. act[a] \in ActType
    BY DEF ActsOK
  <2> QED BY <2>1, <2>2, <2>3 DEF ActType
<1>2. Unmount(cards) = [a \in Acts |-> Unmount(cards)[a]]
  BY DEF Unmount
<1> QED BY <1>1, <1>2

LEMMA NoActFacts ==
    /\ NoAct \in ActType /\ NoAct.state = "idle" /\ NoAct.poll = 0
    /\ NoAct.card = FALSE /\ NoAct.here = FALSE
BY DEF NoAct, ActType

LEMMA AbandonedActs ==
    ASSUME ActsOK
    PROVE  /\ Abandoned \in [Acts -> ActType]
           /\ \A a \in Acts :
                /\ Abandoned[a].state \in {"idle", "asked"}
                /\ Abandoned[a].state = "asked" => Abandoned[a].poll \in Polls
                /\ ~Abandoned[a].card /\ ~Abandoned[a].here
<1>1. ASSUME NEW a \in Acts
      PROVE  /\ Abandoned[a] \in ActType
             /\ Abandoned[a].state \in {"idle", "asked"}
             /\ Abandoned[a].state = "asked" => Abandoned[a].poll \in Polls
             /\ ~Abandoned[a].card /\ ~Abandoned[a].here
  <2>1. act[a] \in ActType /\ (act[a].state = "asked" => act[a].poll \in Polls)
    BY DEF ActsOK, ActInv
  <2>2. CASE act[a].state = "asked"
    <3>1. Abandoned[a] = [act[a] EXCEPT !.card = FALSE, !.here = FALSE]
      BY <2>2 DEF Abandoned
    <3> QED BY <2>1, <2>2, <3>1 DEF ActType
  <2>3. CASE act[a].state # "asked"
    <3>1. Abandoned[a] = NoAct
      BY <2>3 DEF Abandoned
    <3> QED BY <3>1, NoActFacts
  <2> QED BY <2>2, <2>3
<1>2. Abandoned = [a \in Acts |-> Abandoned[a]]
  BY DEF Abandoned
<1> QED BY <1>1, <1>2

LEMMA NewFetch ==
    /\ Fetch(TRUE) \in FetchType
    /\ Fetch(TRUE).state = "asked"
    /\ Fetch(TRUE).good = TRUE
BY DEF Fetch, FetchType, NoList

\* What Untold makes of the fetches under way.
Stale == [i \in 1 .. Len(fetches) |-> [fetches[i] EXCEPT !.good = FALSE]]

LEMMA StaleFetches ==
    ASSUME fetches \in Seq(FetchType)
    PROVE  /\ Stale \in Seq(FetchType)
           /\ Len(Stale) = Len(fetches)
           /\ \A i \in 1 .. Len(fetches) : ~Stale[i].good
<1>1. ASSUME NEW i \in 1 .. Len(fetches) PROVE Stale[i] \in FetchType /\ ~Stale[i].good
  <2>1. fetches[i] \in FetchType /\ Stale[i] = [fetches[i] EXCEPT !.good = FALSE]
    BY DEF Stale
  <2> QED BY <2>1 DEF FetchType
<1>2. Len(fetches) \in Nat /\ Stale = [i \in 1 .. Len(fetches) |-> Stale[i]]
  BY DEF Stale
<1>3. Stale \in Seq(FetchType)
  BY <1>1, <1>2
<1>4. Len(Stale) = Len(fetches)
  BY <1>2, <1>3
<1> QED BY <1>1, <1>3, <1>4

LEMMA WithoutFetch ==
    ASSUME fetches \in Seq(FetchType), NEW i \in 1 .. Len(fetches)
    PROVE  /\ Without(i) \in Seq(FetchType)
           /\ Len(Without(i)) = Len(fetches) - 1
           /\ \A j \in 1 .. Len(fetches) - 1 :
                IF j < i THEN ~Without(i)[j].good ELSE Without(i)[j] = fetches[j + 1]
<1>1. Len(fetches) \in Nat \ {0} /\ Len(fetches) - 1 \in Nat
  OBVIOUS
<1>2. ASSUME NEW j \in 1 .. Len(fetches) - 1
      PROVE  /\ Without(i)[j] \in FetchType
             /\ IF j < i THEN ~Without(i)[j].good ELSE Without(i)[j] = fetches[j + 1]
  <2>1. j \in 1 .. Len(fetches) /\ j + 1 \in 1 .. Len(fetches)
    BY <1>1
  <2>2. fetches[j] \in FetchType /\ fetches[j + 1] \in FetchType
    BY <2>1
  <2>3. CASE j < i
    <3>1. Without(i)[j] = [fetches[j] EXCEPT !.good = FALSE]
      BY <2>3 DEF Without
    <3> QED BY <2>2, <2>3, <3>1 DEF FetchType
  <2>4. CASE ~(j < i)
    <3>1. Without(i)[j] = fetches[j + 1]
      BY <2>4 DEF Without
    <3> QED BY <2>2, <2>4, <3>1
  <2> QED BY <2>3, <2>4
<1>3. Without(i) = [j \in 1 .. Len(fetches) - 1 |-> Without(i)[j]]
  BY DEF Without
<1>4. Without(i) \in Seq(FetchType)
  BY <1>1, <1>2, <1>3
<1>5. Len(Without(i)) = Len(fetches) - 1
  BY <1>1, <1>3, <1>4
<1> QED BY <1>2, <1>4, <1>5

\* A fetch that was served has the server's list.
LEMMA ServedFetch ==
    ASSUME fetches \in Seq(FetchType), NEW i \in 1 .. Len(fetches), PollsOK, ServeFetch(i)
    PROVE  /\ fetches' \in Seq(FetchType) /\ Len(fetches') = Len(fetches)
           /\ \A j \in 1 .. Len(fetches) : fetches'[j].good = fetches[j].good
           /\ \A j \in 1 .. Len(fetches) : j # i => fetches'[j] = fetches[j]
           /\ fetches'[i].list = Listing
<1>1. Listing \in [Polls -> Statuses \cup {"none"}]
  BY DEF Listing
<1>2. fetches[i] \in FetchType
  OBVIOUS
<1>3. PICK f \in FetchType : /\ f = [fetches[i] EXCEPT !.state = "answered", !.list = Listing]
                             /\ f.good = fetches[i].good /\ f.list = Listing
  <2> DEFINE f == [fetches[i] EXCEPT !.state = "answered", !.list = Listing]
  <2>1. f.good = fetches[i].good /\ f.list = Listing
    BY <1>2 DEF FetchType
  <2>2. f \in FetchType
    BY <1>1, <1>2 DEF FetchType
  <2> HIDE DEF f
  <2>3. \E g \in FetchType : g = f
    BY <2>2
  <2> QED BY <2>1, <2>3 DEF f
<1>4. fetches' = [fetches EXCEPT ![i] = f]
  <2>1. fetches' = [fetches EXCEPT ![i].state = "answered", ![i].list = Listing]
    BY DEF ServeFetch
  <2> DEFINE once == [fetches EXCEPT ![i].state = "answered"]
  <2>2. fetches' = [once EXCEPT ![i].list = Listing]
    BY <2>1
  <2>3. once = [fetches EXCEPT ![i] = [fetches[i] EXCEPT !.state = "answered"]]
    OBVIOUS
  <2>4. once[i] = [fetches[i] EXCEPT !.state = "answered"]
    BY <2>3
  <2>5. fetches' = [once EXCEPT ![i] = [once[i] EXCEPT !.list = Listing]]
    BY <2>2
  <2>6. [once[i] EXCEPT !.list = Listing] = f
    BY <1>2, <1>3, <2>4 DEF FetchType
  <2> HIDE DEF once
  <2> QED BY <2>3, <2>5, <2>6
<1> QED BY <1>2, <1>3, <1>4

-----------------------------------------------------------------------------
(* One lemma for each action, on the types. *)

LEMMA InitTypes == Init => CreatorInv
<1> SUFFICES ASSUME Init PROVE CreatorInv
  OBVIOUS
<1> USE CreatorAssumption, Bounds DEF Init
<1>1. ActsOK
  <2>1. act \in [Acts -> ActType]
    BY NoActFacts
  <2> QED BY <2>1, NoActFacts DEF ActsOK, ActInv
<1>2. FetchesOK
  BY SMTT(30) DEF FetchesOK, FetchInv
<1>3. ScreenOK
  BY DEF ScreenOK, NoList, Filters
<1>4. PollsOK
  <2>1. \A p \in Polls :
          [state |-> IF p <= Bound.old THEN "done" ELSE "unused", draft |-> 0, valid |-> FALSE]
            \in CreateType
    BY DEF CreateType
  <2> QED BY <2>1 DEF PollsOK
<1> QED BY <1>1, <1>2, <1>3, <1>4 DEF CreatorInv

LEMMA EditTypes ==
    ASSUME CreatorInv, UNCHANGED scope, NEW f, Edit(f)
    PROVE  CreatorInv'
<1> USE DEF CreatorInv, Edit, requests, dashboard
<1>1. ActsOK'
  BY DEF ActsOK, ActInv, DashboardView
<1>2. FetchesOK'
  BY DEF FetchesOK, FetchInv, Bound
<1>3. ScreenOK' /\ PollsOK'
  BY DEF ScreenOK, PollsOK, Bound
<1> QED BY <1>1, <1>2, <1>3

\* A fetch that the dashboard starts when all its cards are gone.
LEMMA StartTypes ==
    ASSUME CreatorInv, page = "dashboard", UNCHANGED <<scope, page>>, StartFetch(fetches)
    PROVE  FetchesOK' /\ loading' = TRUE
<1>1. fetches \in Seq(FetchType) /\ fetches' = Append(fetches, Fetch(TRUE)) /\ Len(fetches) < Bound.fetches
  BY DEF CreatorInv, FetchesOK, FetchInv, StartFetch
<1>2. fetches' \in Seq(FetchType) /\ Len(fetches') = Len(fetches) + 1
  <2>1. PICK f \in FetchType : f = Fetch(TRUE)
    BY NewFetch
  <2>2. fetches' = Append(fetches, f) /\ fetches \in Seq(FetchType)
    BY <1>1, <2>1
  <2>3. Append(fetches, f) \in Seq(FetchType)
    BY <2>2
  <2>4. Len(Append(fetches, f)) = Len(fetches) + 1
    BY <2>2
  <2> QED BY <2>2, <2>3, <2>4
<1>3. Bound.fetches \in Nat
  BY Bounds DEF CreatorInv, ScreenOK
<1>4. Len(fetches) \in Nat
  BY <1>1
<1>5. Len(fetches') <= Bound.fetches
  BY <1>1, <1>2, <1>3, <1>4
<1> QED BY <1>2, <1>5 DEF FetchesOK, FetchInv, Bound, StartFetch

LEMMA RefreshTypes ==
    ASSUME CreatorInv, UNCHANGED scope, Refresh
    PROVE  CreatorInv'
<1> USE DEF CreatorInv
<1>1. FetchesOK' /\ loading' = TRUE
  BY StartTypes DEF Refresh
<1>2. ActsOK'
  BY Unmounted DEF Refresh, ActsOK, ActInv
<1>3. ScreenOK' /\ PollsOK'
  BY <1>1 DEF ScreenOK, PollsOK, Bound, Refresh, creation
<1> QED BY <1>1, <1>2, <1>3

LEMMA SetFilterTypes ==
    ASSUME CreatorInv, UNCHANGED scope, SetFilter
    PROVE  CreatorInv'
<1> USE DEF CreatorInv
<1>1. PICK f \in Filters : filter' = f /\ act' = Unmount(Shown(list, loading, f))
  BY DEF SetFilter
<1>2. page = "dashboard" /\ UNCHANGED <<polls, create, fetches, page, list, loading, creation, doubt>>
  BY DEF SetFilter
<1>3. DashboardView' = Shown(list, loading, f)
  BY <1>1, <1>2 DEF DashboardView, Shown
<1>4. ActsOK'
  BY <1>1, <1>2, <1>3, Unmounted DEF ActsOK, ActInv
<1>5. FetchesOK'
  BY <1>2 DEF FetchesOK, FetchInv, Bound
<1>6. ScreenOK' /\ PollsOK'
  BY <1>1, <1>2 DEF ScreenOK, PollsOK, Bound, creation
<1> QED BY <1>4, <1>5, <1>6

LEMMA AskTypes ==
    ASSUME CreatorInv, UNCHANGED scope, NEW p \in Polls, p \in DashboardView,
           NEW want \in {"active", "closed", "deleted"}, Ask(p, want)
    PROVE  CreatorInv'
<1> USE DEF CreatorInv
<1> DEFINE request == [state |-> "asked", poll |-> p, want |-> want, card |-> TRUE, here |-> TRUE]
<1>1. PICK a \in Acts : act' = [act EXCEPT ![a] = request]
  BY DEF Ask
<1>2. UNCHANGED <<polls, create, fetches, page, dashboard, creation, doubt>>
  BY DEF Ask
<1>3. page = "dashboard" /\ DashboardView' = DashboardView
  BY <1>2 DEF DashboardView, dashboard
<1>4. request \in ActType
  BY DEF ActType
<1>5. ActsOK'
  BY <1>1, <1>2, <1>3, <1>4 DEF ActsOK, ActInv
<1>6. FetchesOK'
  BY <1>2 DEF FetchesOK, FetchInv, Bound
<1>7. ScreenOK' /\ PollsOK'
  BY <1>2 DEF ScreenOK, PollsOK, Bound, creation, dashboard
<1> QED BY <1>5, <1>6, <1>7

LEMMA UntoldTypes ==
    ASSUME CreatorInv, UNCHANGED <<scope, page>>, Untold \/ UNCHANGED <<doubt, fetches>>
    PROVE  FetchesOK' /\ doubt' \in BOOLEAN
<1>1. CASE Untold
  <2>1. fetches' = Stale /\ doubt' \in BOOLEAN
    BY <1>1 DEF Untold, Stale
  <2>2. fetches' \in Seq(FetchType) /\ Len(fetches') = Len(fetches)
    BY <2>1, StaleFetches DEF CreatorInv, FetchesOK, FetchInv
  <2>3. fetches' # <<>> => fetches # <<>>
    BY <2>2 DEF CreatorInv, FetchesOK, FetchInv
  <2> QED BY <2>1, <2>2, <2>3 DEF CreatorInv, FetchesOK, FetchInv, Bound
<1>2. CASE UNCHANGED <<doubt, fetches>>
  BY <1>2 DEF CreatorInv, FetchesOK, FetchInv, ScreenOK, Bound
<1> QED BY <1>1, <1>2

\* What becomes of an action that is served: it is answered if somebody waits.
Served(a, told) == IF act[a].here THEN [act[a] EXCEPT !.state = told] ELSE NoAct

LEMMA ServedAct ==
    ASSUME CreatorInv, NEW a \in Acts, act[a].state = "asked", NEW told \in {"ok", "failed"}
    PROVE  /\ Served(a, told) \in ActType
           /\ Served(a, told).state = IF act[a].here THEN told ELSE "idle"
           /\ Served(a, told).here => act[a].here
           /\ Served(a, told).state # "idle" => Served(a, told).here /\ Served(a, told).poll \in Polls
           /\ Served(a, told).card =>
                act[a].card /\ Served(a, told).poll = act[a].poll /\ Served(a, told).here
<1>1. act[a] \in ActType /\ act[a].poll \in Polls
  BY DEF CreatorInv, ActsOK, ActInv
<1>2. CASE act[a].here
  <2>1. Served(a, told) = [act[a] EXCEPT !.state = told]
    BY <1>2 DEF Served
  <2> QED BY <1>1, <1>2, <2>1 DEF ActType
<1>3. CASE ~act[a].here
  <2>1. Served(a, told) = NoAct
    BY <1>3 DEF Served
  <2> QED BY <1>3, <2>1, NoActFacts
<1> QED BY <1>2, <1>3

LEMMA ServeActTypes ==
    ASSUME CreatorInv, UNCHANGED scope, NEW a \in Acts, ServeAct(a)
    PROVE  CreatorInv'
<1> USE DEF CreatorInv
<1>1. PICK told \in {"ok", "failed"} :
        act' = [act EXCEPT ![a] = IF @.here THEN [@ EXCEPT !.state = told] ELSE NoAct]
  BY DEF ServeAct
<1>2. act[a].state = "asked" /\ UNCHANGED <<create, page, dashboard, creation>>
  BY DEF ServeAct
<1>3. PICK b : b = Served(a, told)
  OBVIOUS
<1>4. /\ b \in ActType
      /\ b.here => act[a].here
      /\ b.state # "idle" => b.here /\ b.poll \in Polls
      /\ b.card => act[a].card /\ b.poll = act[a].poll /\ b.here
  BY <1>2, <1>3, ServedAct
<1>5. act' = [act EXCEPT ![a] = b]
  BY <1>1, <1>3 DEF Served
<1>6. DashboardView' = DashboardView
  BY <1>2 DEF DashboardView, dashboard
<1>7. ActsOK'
  BY <1>2, <1>4, <1>5, <1>6 DEF ActsOK, ActInv
<1>8. FetchesOK' /\ doubt' \in BOOLEAN
  BY <1>2, UntoldTypes DEF ServeAct
<1>9. ScreenOK'
  BY <1>2, <1>8 DEF ScreenOK, Bound, creation, dashboard
<1>10. PollsOK'
  <2>1. act[a].poll \in Polls /\ act[a].want \in {"active", "closed", "deleted"}
    BY <1>2 DEF ActsOK, ActInv, ActType
  <2> QED BY <1>2, <2>1 DEF ServeAct, PollsOK
<1> QED BY <1>7, <1>8, <1>9, <1>10

LEMMA ActArrivesTypes ==
    ASSUME CreatorInv, UNCHANGED scope, NEW a \in Acts, ActArrives(a)
    PROVE  CreatorInv'
<1> USE DEF CreatorInv
<1>1. page = "dashboard" /\ UNCHANGED <<polls, create, page, list, filter, creation, doubt>>
  BY DEF ActArrives, ActsOK, ActInv
<1>2. CASE act[a].state = "ok"
  <2>1. StartFetch(fetches) /\ act' = [Unmount({}) EXCEPT ![a] = NoAct]
    BY <1>2 DEF ActArrives
  <2>2. FetchesOK' /\ loading' = TRUE
    BY <1>1, <2>1, StartTypes
  <2>3. act' \in [Acts -> ActType]
    BY <2>1, Unmounted, NoActFacts
  <2>4. ActInv'
    BY <1>1, <2>1, Unmounted, NoActFacts DEF ActsOK, ActInv
  <2> QED BY <1>1, <2>2, <2>3, <2>4 DEF ActsOK, ScreenOK, PollsOK, Bound, creation
<1>3. CASE act[a].state # "ok"
  <2>1. act' = [act EXCEPT ![a] = NoAct] /\ UNCHANGED <<fetches, loading>>
    BY <1>3 DEF ActArrives
  <2>2. DashboardView' = DashboardView
    BY <1>1, <2>1 DEF DashboardView
  <2>3. ActsOK'
    BY <1>1, <2>1, <2>2, NoActFacts DEF ActsOK, ActInv
  <2> QED BY <1>1, <2>1, <2>3 DEF FetchesOK, FetchInv, ScreenOK, PollsOK, Bound, creation
<1> QED BY <1>2, <1>3

LEMMA ServeFetchTypes ==
    ASSUME CreatorInv, UNCHANGED scope, NEW i \in 1 .. Len(fetches), ServeFetch(i)
    PROVE  CreatorInv'
<1> USE DEF CreatorInv
<1>1. UNCHANGED <<polls, create, act, page, dashboard, creation, doubt>>
  BY DEF ServeFetch
<1>2. fetches \in Seq(FetchType) /\ fetches # <<>>
  BY DEF FetchesOK, FetchInv
<1>3. fetches' \in Seq(FetchType) /\ Len(fetches') = Len(fetches)
  BY <1>2, ServedFetch
<1>4. FetchesOK'
  BY <1>1, <1>2, <1>3 DEF FetchesOK, FetchInv, Bound
<1>5. ActsOK' /\ ScreenOK' /\ PollsOK'
  BY <1>1 DEF ActsOK, ActInv, DashboardView, ScreenOK, PollsOK, Bound, creation, dashboard
<1> QED BY <1>4, <1>5

LEMMA WithoutTypes ==
    ASSUME CreatorInv, UNCHANGED <<scope, page>>, NEW i \in 1 .. Len(fetches), fetches' = Without(i)
    PROVE  FetchesOK' /\ page = "dashboard"
<1>1. fetches \in Seq(FetchType) /\ Len(fetches) <= Bound.fetches /\ page = "dashboard"
  BY DEF CreatorInv, FetchesOK, FetchInv
<1>2. fetches' \in Seq(FetchType) /\ Len(fetches') = Len(fetches) - 1
  BY <1>1, WithoutFetch
<1>3. Bound.fetches \in Nat /\ Len(fetches) \in Nat
  BY <1>1, Bounds DEF CreatorInv, ScreenOK
<1> QED BY <1>1, <1>2, <1>3 DEF FetchesOK, FetchInv, Bound

LEMMA FetchArrivesTypes ==
    ASSUME CreatorInv, UNCHANGED scope, NEW i \in 1 .. Len(fetches), FetchArrives(i)
    PROVE  CreatorInv'
<1> USE DEF CreatorInv
<1>1. UNCHANGED <<polls, create, page, filter, creation>> /\ fetches[i] \in FetchType
  BY DEF FetchArrives, FetchesOK, FetchInv
<1>2. FetchesOK' /\ page = "dashboard"
  BY <1>1, WithoutTypes DEF FetchArrives
<1>3. /\ list' = fetches[i].list /\ loading' = FALSE /\ doubt' = ~fetches[i].good
      /\ list' \in [Polls -> Statuses \cup {"none"}]
  BY <1>1 DEF FetchArrives, FetchType
<1>4. PICK cards : /\ cards = IF loading THEN {} ELSE Shown(list', FALSE, filter)
                   /\ act' = Unmount(cards)
  BY DEF FetchArrives
<1>5. cards \subseteq DashboardView'
  BY <1>1, <1>2, <1>3, <1>4 DEF DashboardView, Shown
<1>6. ActsOK'
  <2>1. act' \in [Acts -> ActType]
    BY <1>4, Unmounted
  <2>2. ASSUME NEW a \in Acts
        PROVE  /\ act'[a].state = act[a].state /\ act'[a].poll = act[a].poll
               /\ act'[a].here = act[a].here
               /\ act'[a].card => act[a].card /\ act[a].poll \in DashboardView'
    BY <1>4, <1>5, Unmounted
  <2> QED BY <1>1, <2>1, <2>2 DEF ActsOK, ActInv
<1>7. ScreenOK' /\ PollsOK'
  BY <1>1, <1>3 DEF ScreenOK, PollsOK, Bound, creation
<1> QED BY <1>2, <1>6, <1>7

LEMMA FetchFailsTypes ==
    ASSUME CreatorInv, UNCHANGED scope, NEW i \in 1 .. Len(fetches), FetchFails(i)
    PROVE  CreatorInv'
<1> USE DEF CreatorInv
<1>1. /\ UNCHANGED <<polls, create, act, page, list, filter, creation>>
      /\ loading' = FALSE /\ doubt' \in BOOLEAN
  BY DEF FetchFails
<1>2. FetchesOK'
  BY <1>1, WithoutTypes DEF FetchFails
<1>3. DashboardView \subseteq DashboardView'
  BY <1>1 DEF DashboardView, Shown
<1>4. ActsOK'
  BY <1>1, <1>3 DEF ActsOK, ActInv
<1>5. ScreenOK' /\ PollsOK'
  BY <1>1 DEF ScreenOK, PollsOK, Bound, creation
<1> QED BY <1>2, <1>4, <1>5

LEMMA PublishTypes ==
    ASSUME CreatorInv, UNCHANGED scope, NEW p \in Polls, Publish(p)
    PROVE  CreatorInv'
<1> USE DEF CreatorInv
<1>1. UNCHANGED <<polls, act, fetches, page, dashboard, creation, doubt>>
  BY DEF Publish
<1>2. PICK r : /\ r = [state |-> "asked", draft |-> draft,
                       valid |-> ServerAccepts(form.question, Body(form.options))]
               /\ create' = [create EXCEPT ![p] = r]
  BY DEF Publish
<1>3. r \in CreateType
  <2>1. PICK v \in BOOLEAN : v = ServerAccepts(form.question, Body(form.options))
    BY DEF ServerAccepts
  <2>2. r = [state |-> "asked", draft |-> draft, valid |-> v] /\ draft \in Nat
    BY <1>2, <2>1 DEF ScreenOK
  <2> QED BY <2>2 DEF CreateType
<1>4. PollsOK'
  BY <1>1, <1>2, <1>3 DEF PollsOK
<1>5. ActsOK' /\ FetchesOK' /\ ScreenOK'
  BY <1>1 DEF ActsOK, ActInv, DashboardView, FetchesOK, FetchInv, ScreenOK, Bound, creation, dashboard
<1> QED BY <1>4, <1>5

\* A request of the form that is answered, in either way.
LEMMA AnsweredCreate ==
    ASSUME PollsOK, NEW p \in Polls, NEW told \in {"ok", "failed"},
           create' = [create EXCEPT ![p].state = told, ![p].valid = FALSE]
    PROVE  /\ create' \in [Polls -> CreateType]
           /\ create'[p].state = told /\ create'[p].draft = create[p].draft
           /\ \A q \in Polls \ {p} : create'[q] = create[q]
<1>1. create[p] \in CreateType
  BY DEF PollsOK
<1> DEFINE once == [create EXCEPT ![p].state = told]
<1>2. /\ once \in [Polls -> CreateType]
      /\ once[p].state = told /\ once[p].draft = create[p].draft
      /\ \A q \in Polls \ {p} : once[q] = create[q]
  BY <1>1 DEF PollsOK, CreateType
<1>3. create' = [once EXCEPT ![p].valid = FALSE]
  OBVIOUS
<1> HIDE DEF once
<1>4. PICK v \in CreateType : v = [once[p] EXCEPT !.valid = FALSE]
  <2>1. once[p] \in CreateType
    BY <1>2
  <2> QED BY <2>1 DEF CreateType
<1>5. v.state = once[p].state /\ v.draft = once[p].draft
  <2>1. once[p] \in CreateType
    BY <1>2
  <2> QED BY <1>4, <2>1 DEF CreateType
<1>6. create' = [once EXCEPT ![p] = v]
  BY <1>3, <1>4
<1> QED BY <1>2, <1>5, <1>6

LEMMA ServeCreateTypes ==
    ASSUME CreatorInv, UNCHANGED scope, NEW p \in Polls, ServeCreate(p)
    PROVE  CreatorInv'
<1> USE DEF CreatorInv
<1>1. UNCHANGED <<act, page, dashboard, creation>>
  BY DEF ServeCreate
<1>2. PICK told \in {"ok", "failed"} :
        create' = [create EXCEPT ![p].state = told, ![p].valid = FALSE]
  BY DEF ServeCreate
<1>3. polls' = polls \/ polls' = [polls EXCEPT ![p] = "active"]
  BY DEF ServeCreate
<1>4. create' \in [Polls -> CreateType]
  BY <1>2, AnsweredCreate
<1>5. polls' \in [Polls -> {"none", "active", "closed", "deleted"}]
  BY <1>3 DEF PollsOK
<1>6. FetchesOK' /\ doubt' \in BOOLEAN
  BY <1>1, UntoldTypes DEF ServeCreate
<1>7. ActsOK' /\ ScreenOK'
  BY <1>1, <1>6 DEF ActsOK, ActInv, DashboardView, ScreenOK, Bound, creation, dashboard
<1> QED BY <1>4, <1>5, <1>6, <1>7 DEF PollsOK

LEMMA MountTypes ==
    ASSUME CreatorInv, UNCHANGED scope, NEW p \in {"dashboard", "create", "other"}, Mount(p)
    PROVE  ActsOK' /\ FetchesOK' /\ ScreenOK'
<1> USE DEF CreatorInv
<1>1. page' = p /\ act' = Abandoned /\ list' = NoList /\ filter' = "all" /\ form' = NewForm
      /\ doubt' = FALSE
  BY DEF Mount
<1>2. ActsOK'
  BY <1>1, AbandonedActs DEF ActsOK, ActInv
<1>3. ASSUME p = "dashboard" PROVE FetchesOK'
  <2>1. PICK f \in FetchType : f = Fetch(TRUE)
    BY NewFetch
  <2>2. fetches' = Append(<<>>, f) /\ 0 < Bound.fetches /\ loading' = TRUE
    BY <1>3, <2>1 DEF Mount, StartFetch
  <2>3. Append(<<>>, f) \in Seq(FetchType) /\ Len(Append(<<>>, f)) = 1
    OBVIOUS
  <2>4. Bound.fetches \in Nat
    BY Bounds DEF ScreenOK
  <2>5. 1 <= Bound.fetches
    BY <2>2, <2>4
  <2> QED BY <1>1, <1>3, <2>2, <2>3, <2>5 DEF FetchesOK, FetchInv, Bound
<1>4. ASSUME p # "dashboard" PROVE FetchesOK'
  <2>1. fetches' = <<>> /\ loading' = FALSE
    BY <1>4 DEF Mount
  <2>2. 0 <= Bound.fetches
    BY Bounds DEF ScreenOK
  <2> QED BY <2>1, <2>2 DEF FetchesOK, FetchInv, Bound
<1>5. FetchesOK' /\ loading' \in BOOLEAN
  <2>1. loading' \in BOOLEAN
    BY DEF Mount, StartFetch
  <2> QED BY <1>3, <1>4, <2>1
<1>6. draft' \in Nat
  BY DEF Mount, ScreenOK
<1>7. ScreenOK'
  BY <1>1, <1>5, <1>6, Bounds DEF ScreenOK, NoList, Filters, Bound
<1> QED BY <1>2, <1>5, <1>7

\* A request of the form whose answer has arrived.
LEMMA ArrivedCreate ==
    ASSUME PollsOK, NEW p \in Polls, CreateArrives(p)
    PROVE  \E s \in {"done", "gaveup"} :
             /\ create' \in [Polls -> CreateType]
             /\ create'[p].state = s /\ create'[p].draft = create[p].draft
             /\ s = "done" => create[p].state = "ok"
             /\ s = "gaveup" => create[p].state = "failed"
             /\ \A q \in Polls \ {p} : create'[q] = create[q]
<1>1. PICK s \in {"done", "gaveup"} :
        /\ create' = [create EXCEPT ![p].state = s]
        /\ s = "done" => create[p].state = "ok"
        /\ s = "gaveup" => create[p].state = "failed"
  BY DEF CreateArrives
<1>2. create[p] \in CreateType
  BY DEF PollsOK
<1>3. /\ create' \in [Polls -> CreateType]
      /\ create'[p].state = s /\ create'[p].draft = create[p].draft
      /\ \A q \in Polls \ {p} : create'[q] = create[q]
  BY <1>1, <1>2 DEF PollsOK, CreateType
<1> QED BY <1>1, <1>3

LEMMA CreateArrivesTypes ==
    ASSUME CreatorInv, UNCHANGED scope, NEW p \in Polls, CreateArrives(p)
    PROVE  CreatorInv'
<1> USE DEF CreatorInv
<1>1. PollsOK'
  BY ArrivedCreate DEF CreateArrives, PollsOK
<1>2. CASE Mount("other")
  BY <1>1, <1>2, MountTypes
<1>3. CASE UNCHANGED <<act, fetches, page, dashboard, creation, doubt>>
  BY <1>1, <1>3
  DEF ActsOK, ActInv, DashboardView, FetchesOK, FetchInv, ScreenOK, Bound, creation, dashboard
<1> QED BY <1>2, <1>3 DEF CreateArrives

\* The steps that edit the form, and those that ask for an action, are one each.
LEMMA Steps ==
    ASSUME Next
    PROVE  \/ \E p \in {"dashboard", "create", "other"} : Goto(p)
           \/ Refresh \/ SetFilter
           \/ \E p \in Polls, want \in {"active", "closed", "deleted"} :
                p \in DashboardView /\ Ask(p, want)
           \/ \E a \in Acts : ServeAct(a) \/ ActArrives(a)
           \/ \E i \in 1 .. Len(fetches) : ServeFetch(i) \/ FetchArrives(i) \/ FetchFails(i)
           \/ \E f : Edit(f)
           \/ \E p \in Polls : Publish(p) \/ ServeCreate(p) \/ CreateArrives(p)
<1>1. ASSUME NEW p \in Polls, Toggle(p) \/ Delete(p)
      PROVE  \E want \in {"active", "closed", "deleted"} : p \in DashboardView /\ Ask(p, want)
  BY <1>1 DEF Toggle, Delete, CardView
<1>2. ASSUME SetQuestion \/ SetOption \/ UseExample \/ AddOption \/ RemoveOption
      PROVE  \E f : Edit(f)
  BY <1>2 DEF SetQuestion, SetOption, UseExample, AddOption, RemoveOption
<1> QED BY <1>1, <1>2 DEF Next

LEMMA TypesStep ==
    ASSUME CreatorInv, [UNCHANGED scope /\ Next]_vars
    PROVE  CreatorInv'
<1>1. CASE UNCHANGED vars
  BY <1>1 DEF vars, CreatorInv, ActsOK, ActInv, DashboardView, FetchesOK, FetchInv, ScreenOK,
              PollsOK, Bound, creation, dashboard, requests
<1>2. CASE UNCHANGED scope /\ Next
  <2>1. ASSUME NEW p \in {"dashboard", "create", "other"}, Goto(p) PROVE CreatorInv'
    BY <1>2, <2>1, MountTypes DEF Goto, CreatorInv, PollsOK
  <2>2. ASSUME NEW f, Edit(f) PROVE CreatorInv'
    BY <1>2, <2>2, EditTypes
  <2> QED BY <1>2, <2>1, <2>2, Steps, RefreshTypes, SetFilterTypes, AskTypes, ServeActTypes,
             ActArrivesTypes, ServeFetchTypes, FetchArrivesTypes, FetchFailsTypes,
             PublishTypes, ServeCreateTypes, CreateArrivesTypes
<1> QED BY <1>1, <1>2

LEMMA CreatorInvariant == Spec => []CreatorInv
<1>1. CreatorInv /\ [UNCHANGED scope /\ Next]_vars => CreatorInv'
  BY TypesStep
<1> QED BY <1>1, InitTypes, PTL DEF Spec

\* The form always has 2 to MaxOptions options, a card waits only for an action
\* of its own dashboard, and every variable has its type.
THEOREM TypeOKHolds == Spec => []TypeOK
<1>1. CreatorInv => TypeOK
  BY CreatorTypes
<1> QED BY <1>1, CreatorInvariant, PTL

-----------------------------------------------------------------------------
(* What the dashboard shows. *)

\* Neither the list nor what is under way to replace it changes.
LEMMA CurrentKept ==
    ASSUME CurrentInv, UNCHANGED <<polls, fetches, list, page, doubt>>, AllTold' => AllTold
    PROVE  CurrentInv'
BY DEF CurrentInv, Listing

\* A new fetch is the last one, and good, and not served yet.
LEMMA CurrentStart ==
    ASSUME CurrentInv, NEW earlier \in Seq(FetchType), StartFetch(earlier),
           \A i, j \in 1 .. Len(earlier) : i < j /\ earlier[i].good => earlier[j].good
    PROVE  CurrentInv'
<1>1. PICK f \in FetchType : f = Fetch(TRUE) /\ f.good = TRUE /\ f.state = "asked"
  BY NewFetch
<1>2. fetches' = Append(earlier, f)
  BY <1>1 DEF StartFetch
<1>3. Len(fetches') = Len(earlier) + 1 /\ Len(earlier) \in Nat
  BY <1>2
<1>4. fetches'[Len(earlier) + 1] = f /\ \A i \in 1 .. Len(earlier) : fetches'[i] = earlier[i]
  BY <1>2
<1>5. ASSUME NEW i \in 1 .. Len(fetches'), NEW j \in 1 .. Len(fetches'), i < j, fetches'[i].good
      PROVE  fetches'[j].good
  <2>1. i \in 1 .. Len(earlier)
    BY <1>3, <1>5
  <2>2. CASE j = Len(earlier) + 1
    BY <1>1, <1>4, <2>2
  <2>3. CASE j # Len(earlier) + 1
    <3>1. j \in 1 .. Len(earlier)
      BY <1>3, <2>3
    <3> QED BY <1>4, <1>5, <2>1, <3>1
  <2> QED BY <2>2, <2>3
<1>6. fetches'[Len(fetches')] = f /\ Len(fetches') > 0
  BY <1>3, <1>4
<1>7. fetches'[Len(fetches')].good = TRUE /\ fetches'[Len(fetches')].state = "asked"
  BY <1>1, <1>6
<1> QED BY <1>5, <1>6, <1>7 DEF CurrentInv

\* After a change that nobody will tell it of, a dashboard is in doubt.
LEMMA CurrentUntold ==
    ASSUME CurrentInv, fetches \in Seq(FetchType), UNCHANGED page, Untold
    PROVE  CurrentInv'
<1>1. fetches' = Stale /\ doubt' = (page = "dashboard")
  BY DEF Untold, Stale
<1>2. Len(fetches') = Len(fetches) /\ \A i \in 1 .. Len(fetches') : ~fetches'[i].good
  BY <1>1, StaleFetches
<1>3. Len(fetches') > 0 => ~fetches'[Len(fetches')].good
  BY <1>2
<1> QED BY <1>1, <1>2, <1>3 DEF CurrentInv

\* A fetch is over: those asked before it are not good any more, the last one stays
\* the last one unless it was this one.
LEMMA CurrentWithout ==
    ASSUME CurrentInv, fetches \in Seq(FetchType), NEW i \in 1 .. Len(fetches),
           fetches' = Without(i), UNCHANGED <<polls, page>>, AllTold' => AllTold,
           \/ list' = list /\ doubt' = (doubt \/ fetches[i].good)
           \/ list' = fetches[i].list /\ doubt' = ~fetches[i].good /\ fetches[i].state = "answered"
    PROVE  CurrentInv'
<1>1. PICK n \in Nat \ {0} : n = Len(fetches)
  OBVIOUS
<1>2. /\ Len(fetches') = n - 1
      /\ \A j \in 1 .. n - 1 : IF j < i THEN ~fetches'[j].good ELSE fetches'[j] = fetches[j + 1]
  BY <1>1, WithoutFetch
<1>3. ASSUME NEW j \in 1 .. n - 1, NEW k \in 1 .. n - 1, j < k, fetches'[j].good
      PROVE  fetches'[k].good
  <2>1. fetches'[j] = fetches[j + 1] /\ fetches'[k] = fetches[k + 1]
    BY <1>2, <1>3
  <2>2. j + 1 \in 1 .. n /\ k + 1 \in 1 .. n /\ j + 1 < k + 1
    BY <1>3
  <2> QED BY <1>1, <1>3, <2>1, <2>2 DEF CurrentInv
<1>4. CASE i < n
  <2>1. fetches'[n - 1] = fetches[n] /\ n - 1 > 0
    BY <1>2, <1>4
  <2>2. fetches[i].good => fetches[n].good
    BY <1>1, <1>4 DEF CurrentInv
  <2>3. Listing' = Listing
    BY DEF Listing
  <2>4. ASSUME page' = "dashboard", AllTold'
        PROVE  /\ fetches'[n - 1].good /\ fetches'[n - 1].state = "answered"
                    => fetches'[n - 1].list = Listing'
               /\ ~fetches'[n - 1].good /\ ~doubt' => list' = Listing'
    <3>1. /\ fetches[n].good /\ fetches[n].state = "answered" => fetches[n].list = Listing
          /\ ~fetches[n].good /\ ~doubt => list = Listing
      BY <1>1, <2>4 DEF CurrentInv
    <3> QED BY <2>1, <2>2, <2>3, <3>1
  <2> QED BY <1>2, <1>3, <2>1, <2>4 DEF CurrentInv
<1>5. CASE i = n
  <2>1. \A j \in 1 .. n - 1 : ~fetches'[j].good
    BY <1>2, <1>5
  <2>2. n - 1 > 0 => ~fetches'[n - 1].good
    BY <2>1
  <2>3. Listing' = Listing
    BY DEF Listing
  <2>4. ASSUME page' = "dashboard", AllTold', ~doubt'
        PROVE  list' = Listing'
    <3>1. /\ fetches[n].good /\ fetches[n].state = "answered" => fetches[n].list = Listing
          /\ ~fetches[n].good /\ ~doubt => list = Listing
      BY <1>1, <2>4 DEF CurrentInv
    <3> QED BY <1>5, <2>3, <2>4, <3>1
  <2> QED BY <1>2, <1>3, <2>2, <2>4 DEF CurrentInv
<1> QED BY <1>1, <1>4, <1>5

LEMMA CurrentServe ==
    ASSUME CurrentInv, PollsOK, fetches \in Seq(FetchType), NEW i \in 1 .. Len(fetches), ServeFetch(i)
    PROVE  CurrentInv'
<1>1. UNCHANGED <<polls, act, list, page, doubt>>
  BY DEF ServeFetch, dashboard
<1>2. /\ Len(fetches') = Len(fetches)
      /\ \A j \in 1 .. Len(fetches) : fetches'[j].good = fetches[j].good
      /\ \A j \in 1 .. Len(fetches) : j # i => fetches'[j] = fetches[j]
      /\ fetches'[i].list = Listing
  BY ServedFetch
<1>3. Len(fetches) \in 1 .. Len(fetches)
  OBVIOUS
<1>4. Listing' = Listing /\ (AllTold' <=> AllTold)
  BY <1>1 DEF Listing, AllTold
<1>5. ASSUME NEW j \in 1 .. Len(fetches'), NEW k \in 1 .. Len(fetches'), j < k, fetches'[j].good
      PROVE  fetches'[k].good
  BY <1>2, <1>5 DEF CurrentInv
<1>6. ASSUME page' = "dashboard", AllTold'
      PROVE  /\ fetches'[Len(fetches)].good /\ fetches'[Len(fetches)].state = "answered"
                  => fetches'[Len(fetches)].list = Listing'
             /\ ~fetches'[Len(fetches)].good /\ ~doubt' => list' = Listing'
  <2>1. /\ fetches[Len(fetches)].good /\ fetches[Len(fetches)].state = "answered"
                => fetches[Len(fetches)].list = Listing
        /\ ~fetches[Len(fetches)].good /\ ~doubt => list = Listing
    BY <1>1, <1>3, <1>4, <1>6 DEF CurrentInv
  <2>2. fetches'[Len(fetches)].good = fetches[Len(fetches)].good
    BY <1>2, <1>3
  <2>3. CASE i = Len(fetches)
    BY <1>1, <1>2, <1>4, <2>1, <2>2, <2>3
  <2>4. CASE i # Len(fetches)
    BY <1>1, <1>2, <1>3, <1>4, <2>1, <2>4
  <2> QED BY <2>3, <2>4
<1> QED BY <1>2, <1>5, <1>6 DEF CurrentInv

LEMMA CurrentStep ==
    ASSUME CreatorInv, CurrentInv, [UNCHANGED scope /\ Next]_vars
    PROVE  CurrentInv'
<1> USE DEF CreatorInv, ActsOK, FetchesOK, FetchInv
<1>1. ASSUME NEW p, Mount(p) PROVE CurrentInv'
  <2>1. CASE p = "dashboard"
    <3>1. StartFetch(<<>>)
      BY <1>1, <2>1 DEF Mount
    <3>2. <<>> \in Seq(FetchType) /\ Len(<<>>) = 0
      OBVIOUS
    <3>3. \A i, j \in 1 .. Len(<<>>) : i < j /\ <<>>[i].good => <<>>[j].good
      BY <3>2
    <3> QED BY <3>1, <3>2, <3>3, CurrentStart
  <2>2. CASE p # "dashboard"
    <3>1. page' # "dashboard" /\ fetches' = <<>>
      BY <1>1, <2>2 DEF Mount
    <3> QED BY <3>1 DEF CurrentInv
  <2> QED BY <2>1, <2>2
<1>2. CASE Refresh
  BY <1>2, CurrentStart DEF Refresh, CurrentInv
<1>3. CASE SetFilter
  <2>1. PICK f : act' = Unmount(Shown(list, loading, f))
    BY <1>3 DEF SetFilter
  <2>2. AllTold' => AllTold
    BY <2>1, Unmounted DEF AllTold
  <2> QED BY <1>3, <2>2, CurrentKept DEF SetFilter
<1>4. ASSUME NEW p \in Polls, NEW want, Ask(p, want) PROVE CurrentInv'
  <2>1. AllTold' => AllTold
    BY <1>4 DEF Ask, AllTold
  <2> QED BY <1>4, <2>1, CurrentKept DEF Ask, dashboard
<1>5. ASSUME NEW a \in Acts, ServeAct(a) PROVE CurrentInv'
  <2>1. UNCHANGED <<page, list>>
    BY <1>5 DEF ServeAct, dashboard
  <2>2. CASE Untold
    BY <2>1, <2>2, CurrentUntold
  <2>3. CASE UNCHANGED <<polls, doubt, fetches>>
    <3>1. AllTold' => AllTold
      BY <1>5 DEF ServeAct, AllTold
    <3> QED BY <2>1, <2>3, <3>1, CurrentKept
  <2>4. CASE UNCHANGED <<doubt, fetches>> /\ act' = [act EXCEPT ![a] = [@ EXCEPT !.state = "ok"]]
    <3>1. act[a] \in ActType
      OBVIOUS
    <3>2. act'[a].state = "ok"
      BY <2>4, <3>1 DEF ActType
    <3>3. ~AllTold'
      BY <3>2 DEF AllTold
    <3> QED BY <2>4, <3>3 DEF CurrentInv
  <2> QED BY <1>5, <2>2, <2>3, <2>4 DEF ServeAct
<1>6. ASSUME NEW a \in Acts, ActArrives(a) PROVE CurrentInv'
  <2>1. CASE act[a].state = "ok"
    BY <1>6, <2>1, CurrentStart DEF ActArrives, CurrentInv
  <2>2. CASE act[a].state # "ok"
    <3>1. AllTold' => AllTold
      BY <1>6, <2>2 DEF ActArrives, AllTold
    <3> QED BY <1>6, <2>2, <3>1, CurrentKept DEF ActArrives
  <2> QED BY <2>1, <2>2
<1>7. ASSUME NEW i \in 1 .. Len(fetches), ServeFetch(i) PROVE CurrentInv'
  BY <1>7, CurrentServe
<1>8. ASSUME NEW i \in 1 .. Len(fetches), FetchArrives(i) PROVE CurrentInv'
  <2>1. PICK cards : act' = Unmount(cards)
    BY <1>8 DEF FetchArrives
  <2>2. AllTold' => AllTold
    BY <2>1, Unmounted DEF AllTold
  <2> QED BY <1>8, <2>2, CurrentWithout DEF FetchArrives
<1>9. ASSUME NEW i \in 1 .. Len(fetches), FetchFails(i) PROVE CurrentInv'
  <2>1. AllTold' => AllTold
    BY <1>9 DEF FetchFails, AllTold
  <2> QED BY <1>9, <2>1, CurrentWithout DEF FetchFails
<1>10. ASSUME NEW f, Edit(f) PROVE CurrentInv'
  BY <1>10, CurrentKept DEF Edit, AllTold, requests, dashboard
<1>11. ASSUME NEW p \in Polls, Publish(p) PROVE CurrentInv'
  BY <1>11, CurrentKept DEF Publish, AllTold, dashboard
<1>12. ASSUME NEW p \in Polls, ServeCreate(p) PROVE CurrentInv'
  <2>1. CASE Untold
    BY <1>12, <2>1, CurrentUntold DEF ServeCreate
  <2>2. CASE UNCHANGED <<polls, doubt, fetches>>
    BY <1>12, <2>2, CurrentKept DEF ServeCreate, AllTold, dashboard
  <2> QED BY <1>12, <2>1, <2>2 DEF ServeCreate
<1>13. ASSUME NEW p \in Polls, CreateArrives(p) PROVE CurrentInv'
  <2>1. CASE Mount("other")
    BY <1>1, <2>1
  <2>2. CASE UNCHANGED <<act, fetches, page, dashboard, creation, doubt>>
    BY <1>13, <2>2, CurrentKept DEF CreateArrives, AllTold, dashboard
  <2> QED BY <1>13, <2>1, <2>2 DEF CreateArrives
<1>14. CASE UNCHANGED vars
  BY <1>14, CurrentKept DEF vars, AllTold, requests, dashboard
<1> QED BY <1>1, <1>2, <1>3, <1>4, <1>5, <1>6, <1>7, <1>8, <1>9, <1>10, <1>11, <1>12, <1>13, <1>14,
           Steps
       DEF Goto

\* A dashboard that waits for nothing and has no reason to doubt its list shows
\* what the server has, however many fetches and actions have overtaken each other.
THEOREM DashboardIsCurrentHolds == Spec => []DashboardIsCurrent
<1>1. Init => CurrentInv
  BY DEF Init, CurrentInv
<1>2. CreatorInv /\ CurrentInv /\ [UNCHANGED scope /\ Next]_vars => CurrentInv'
  BY CurrentStep
<1>3. CurrentInv => DashboardIsCurrent
  BY DEF CurrentInv, DashboardIsCurrent, AllTold
<1> QED BY <1>1, <1>2, <1>3, CreatorInvariant, PTL DEF Spec

-----------------------------------------------------------------------------
(* What the form makes. *)

LEMMA DraftStep ==
    ASSUME CreatorInv, DraftInv, [UNCHANGED scope /\ Next]_vars
    PROVE  DraftInv'
<1> USE DEF CreatorInv, PollsOK, ScreenOK
<1>1. ASSUME UNCHANGED <<create, draft, page>> PROVE DraftInv'
  BY <1>1 DEF DraftInv
<1>2. ASSUME NEW p \in {"dashboard", "create", "other"}, Mount(p), UNCHANGED create PROVE DraftInv'
  <2>1. page' = p
    BY <1>2 DEF Mount
  <2>2. \A q \in Polls : create[q].draft \in Nat
    BY DEF CreateType
  <2>3. CASE p = "create" /\ \E q \in Polls : create[q].draft = draft
    <3>1. draft' = draft + 1
      BY <1>2, <2>3 DEF Mount
    <3>2. \A q \in Polls : create[q].draft <= draft' /\ create[q].draft # draft'
      BY <2>2, <3>1 DEF DraftInv
    <3> QED BY <1>2, <3>1, <3>2 DEF DraftInv
  <2>4. CASE ~(p = "create" /\ \E q \in Polls : create[q].draft = draft)
    <3>1. draft' = draft
      BY <1>2, <2>4 DEF Mount
    <3>2. p = "create" => \A q \in Polls : create[q].draft # draft
      BY <2>4
    <3> QED BY <1>2, <2>1, <3>1, <3>2 DEF DraftInv
  <2> QED BY <2>3, <2>4
<1>3. ASSUME NEW p \in Polls, Publish(p) PROVE DraftInv'
  <2>1. UNCHANGED <<draft, page>> /\ page = "create" /\ ~Publishing /\ create[p].state = "unused"
    BY <1>3 DEF Publish, creation, FormView
  <2>2. /\ create'[p].state = "asked" /\ create'[p].draft = draft
        /\ \A q \in Polls \ {p} : create'[q] = create[q]
    BY <1>3 DEF Publish
  <2>3. \A q \in Polls : q < p => create[q].state # "unused"
    <3>1. \A q \in 1 .. p - 1 : create[q].state # "unused"
      BY <1>3 DEF Publish
    <3>2. \A q \in Polls : q < p => q \in 1 .. p - 1
      BY CreatorAssumption DEF Polls
    <3> QED BY <3>1, <3>2
  <2>4. \A q \in Polls : p < q => create[q].state = "unused" /\ create[q].draft = 0
    BY <2>1 DEF DraftInv
  <2>5. ASSUME NEW q \in Polls \ {p}, create[q].draft = draft, draft # 0
        PROVE  create[q].state = "gaveup"
    <3>1. create[q].state \in {"unused", "asked", "ok", "failed", "done", "gaveup"}
      BY DEF CreateType
    <3> QED BY <2>1, <2>5, <3>1 DEF DraftInv, Publishing
  <2>6. ASSUME NEW m \in Polls
        PROVE  /\ create'[m].draft <= draft'
               /\ create'[m].state = "unused" => create'[m].draft = 0
               /\ create'[m].state = "done" /\ create'[m].draft = draft' => page' # "create"
    BY <2>1, <2>2 DEF DraftInv
  <2>7. ASSUME NEW m \in Polls, NEW q \in Polls, m < q
        PROVE  /\ create'[m].state = "unused" => create'[q].state = "unused"
               /\ create'[m].draft = create'[q].draft /\ create'[m].draft # 0
                    => create'[m].state = "gaveup"
    <3>1. CASE m = p
      <4>1. q # p /\ create'[q] = create[q] /\ create[q].draft = 0
        BY <2>2, <2>4, <2>7, <3>1 DEF Polls
      <4> QED BY <2>2, <3>1, <4>1
    <3>2. CASE q = p
      <4>1. m # p /\ create'[m] = create[m] /\ create[m].state # "unused"
        BY <2>2, <2>3, <2>7, <3>2 DEF Polls
      <4> QED BY <2>2, <2>5, <3>2, <4>1
    <3>3. CASE m # p /\ q # p
      BY <2>2, <2>7, <3>3 DEF DraftInv
    <3> QED BY <3>1, <3>2, <3>3
  <2>8. draft' >= 1
    BY <2>1 DEF DraftInv
  <2> QED BY <2>6, <2>7, <2>8 DEF DraftInv
<1>4. ASSUME NEW p \in Polls, ServeCreate(p) PROVE DraftInv'
  <2>1. UNCHANGED <<draft, page>> /\ create[p].state = "asked"
    BY <1>4 DEF ServeCreate, creation
  <2>2. PICK told \in {"ok", "failed"} :
          create' = [create EXCEPT ![p].state = told, ![p].valid = FALSE]
    BY <1>4 DEF ServeCreate
  <2>3. /\ create'[p].state = told /\ create'[p].draft = create[p].draft
        /\ \A q \in Polls \ {p} : create'[q] = create[q]
    BY <2>2, AnsweredCreate
  <2>4. \A q \in Polls : /\ create'[q].draft = create[q].draft
                         /\ create'[q].state = "unused" <=> create[q].state = "unused"
                         /\ create'[q].state = "done" <=> create[q].state = "done"
                         /\ create'[q].state = "gaveup" <=> create[q].state = "gaveup"
    BY <2>1, <2>3
  <2> QED BY <2>1, <2>4 DEF DraftInv
<1>5. ASSUME NEW p \in Polls, CreateArrives(p) PROVE DraftInv'
  <2>1. PICK s \in {"done", "gaveup"} :
          /\ create'[p].state = s /\ create'[p].draft = create[p].draft
          /\ s = "done" => create[p].state = "ok"
          /\ s = "gaveup" => create[p].state = "failed"
          /\ \A q \in Polls \ {p} : create'[q] = create[q]
    BY <1>5, ArrivedCreate
  <2>2. \A q \in Polls : /\ create'[q].draft = create[q].draft
                         /\ create'[q].state = "unused" <=> create[q].state = "unused"
                         /\ create'[q].state = "done" => q = p \/ create[q].state = "done"
                         /\ create[q].state = "gaveup" => create'[q].state = "gaveup"
    BY <2>1
  <2>3. draft' = draft /\ (create'[p].state = "done" => page' # "create")
        /\ (page' = "create" => page = "create")
    BY <1>5, <2>1 DEF CreateArrives, Mount, creation
  <2> QED BY <2>2, <2>3 DEF DraftInv
<1>6. ASSUME NEW a \in Acts, ServeAct(a) \/ ActArrives(a) PROVE DraftInv'
  BY <1>1, <1>6 DEF ServeAct, ActArrives, creation
<1>7. ASSUME NEW i, ServeFetch(i) \/ FetchArrives(i) \/ FetchFails(i) PROVE DraftInv'
  BY <1>1, <1>7 DEF ServeFetch, FetchArrives, FetchFails, creation
<1>8. ASSUME NEW f, Edit(f) PROVE DraftInv'
  BY <1>1, <1>8 DEF Edit, requests
<1>9. CASE Refresh \/ SetFilter
  BY <1>1, <1>9 DEF Refresh, SetFilter, creation
<1>10. ASSUME NEW p, NEW want, Ask(p, want) PROVE DraftInv'
  BY <1>1, <1>10 DEF Ask, creation
<1>11. CASE UNCHANGED vars
  BY <1>1, <1>11 DEF vars, requests, creation
<1> QED BY <1>2, <1>3, <1>4, <1>5, <1>6, <1>7, <1>8, <1>9, <1>10, <1>11, Steps DEF Goto

\* One form makes two polls only after a reply that the first had failed, however
\* often the creator clicks, leaves and comes back.
THEOREM TwinsTakeALostReplyHolds == Spec => []TwinsTakeALostReply
<1>1. Init => DraftInv
  <2> SUFFICES ASSUME Init PROVE DraftInv
    OBVIOUS
  <2>1. \A p \in Polls : /\ create[p].state = IF p <= Bound.old THEN "done" ELSE "unused"
                         /\ create[p].draft = 0
    BY DEF Init
  <2>2. \A p, q \in Polls : p < q /\ ~(p <= Bound.old) => ~(q <= Bound.old)
    <3>1. Bound.old \in Nat
      BY Bounds DEF Init
    <3> QED BY <3>1, CreatorAssumption DEF Polls
  <2>3. draft = 1 /\ page = "other"
    BY DEF Init
  <2> QED BY <2>1, <2>2, <2>3 DEF DraftInv
<1>2. CreatorInv /\ DraftInv /\ [UNCHANGED scope /\ Next]_vars => DraftInv'
  BY DraftStep
<1>3. DraftInv => TwinsTakeALostReply
  BY DEF DraftInv, TwinsTakeALostReply
<1> QED BY <1>1, <1>2, <1>3, CreatorInvariant, PTL DEF Spec

-----------------------------------------------------------------------------
(* What the form lets through. *)

\* A set of naturals that has an element has a least one: induction without an
\* operator for what is proved.
LEMMA Least ==
    ASSUME NEW T \in SUBSET Nat, T # {}
    PROVE  \E x \in T : \A y \in T : x <= y
<1> DEFINE Less == {ss \in Nat \X Nat : ss[1] < ss[2]}
<1>1. IsWellFoundedOn(Less, Nat)
  BY NatLessThanWellFounded DEF OpToRel
<1>2. PICK x \in T : \A y \in T : <<y, x>> \notin Less
  <2> HIDE DEF Less
  <2> QED BY <1>1, WFMin
<1>3. ASSUME NEW y \in T PROVE x <= y
  <2>1. x \in Nat /\ y \in Nat /\ <<y, x>> \notin Less
    BY <1>2
  <2>2. ~(y < x)
    BY <2>1
  <2> QED BY <2>1, <2>2
<1> QED BY <1>3

\* f is what the form keeps of the first n options, for every n up to N.
IsSent(f, options, N) ==
    f = [n \in 0 .. N |->
            IF n = 0 THEN <<>>
            ELSE IF KeptText(options[n]) THEN Append(f[n - 1], options[n])
            ELSE f[n - 1]]

LEMMA SentExists ==
    ASSUME NEW options
    PROVE  \A N \in Nat : \E f : IsSent(f, options, N)
<1> DEFINE Bad == {N \in Nat : ~\E f : IsSent(f, options, N)}
<1> SUFFICES ASSUME Bad # {} PROVE FALSE
  OBVIOUS
<1>1. PICK N \in Bad : \A k \in Bad : N <= k
  BY Least
<1>2. N \in Nat /\ ~\E f : IsSent(f, options, N)
  OBVIOUS
<1>3. N # 0
  <2>1. IsSent([n \in 0 .. 0 |-> <<>>], options, 0)
    BY DEF IsSent
  <2> QED BY <1>2, <2>1
<1>4. PICK f : IsSent(f, options, N - 1)
  <2>1. N - 1 \in Nat /\ ~(N <= N - 1)
    BY <1>2, <1>3
  <2>2. N - 1 \notin Bad
    BY <1>1, <2>1
  <2> QED BY <2>1, <2>2
<1> DEFINE g == [n \in 0 .. N |->
                   IF n = N
                   THEN IF KeptText(options[N]) THEN Append(f[N - 1], options[N]) ELSE f[N - 1]
                   ELSE f[n]]
<1>5. \A n \in 0 .. N : n # N => n \in 0 .. N - 1
  BY <1>2
<1>6. ASSUME NEW n \in 0 .. N
      PROVE  g[n] = IF n = 0 THEN <<>>
                    ELSE IF KeptText(options[n]) THEN Append(g[n - 1], options[n])
                    ELSE g[n - 1]
  <2>1. CASE n = N
    <3>1. g[n - 1] = f[n - 1] /\ n # 0
      BY <1>2, <1>3, <2>1
    <3> QED BY <2>1, <3>1
  <2>2. CASE n # N
    <3>1. /\ n \in 0 .. N - 1 /\ g[n] = f[n]
          /\ f[n] = IF n = 0 THEN <<>>
                    ELSE IF KeptText(options[n]) THEN Append(f[n - 1], options[n])
                    ELSE f[n - 1]
      BY <1>4, <1>5, <2>2 DEF IsSent
    <3>2. n # 0 => n - 1 \in 0 .. N /\ n - 1 # N
      BY <1>2, <3>1
    <3>3. n # 0 => g[n - 1] = f[n - 1]
      BY <3>2
    <3> QED BY <3>1, <3>3
  <2> QED BY <2>1, <2>2
<1>7. g = [n \in 0 .. N |-> g[n]]
  OBVIOUS
<1> HIDE DEF g
<1>8. IsSent(g, options, N)
  BY <1>6, <1>7 DEF IsSent
<1> QED BY <1>2, <1>8

\* What the form sends: no more options than it has, and none that it trims to nothing.
LEMMA BodyKept ==
    ASSUME NEW options \in Seq(Texts)
    PROVE  /\ Body(options) \in Seq(Texts)
           /\ Len(Body(options)) <= Len(options)
           /\ \A i \in 1 .. Len(Body(options)) : KeptText(Body(options)[i])
<1>1. PICK N \in Nat : N = Len(options)
  OBVIOUS
<1> DEFINE f == CHOOSE f : IsSent(f, options, N)
<1>2. IsSent(f, options, N)
  BY SentExists
<1>3. Body(options) = f[N]
  BY <1>1 DEF Body, IsSent
<1> DEFINE Good(n) == /\ f[n] \in Seq(Texts) /\ Len(f[n]) <= n
                      /\ \A i \in 1 .. Len(f[n]) : KeptText(f[n][i])
           Bad == {n \in 0 .. N : ~Good(n)}
<1> HIDE DEF f
<1>4. Bad = {}
  <2> SUFFICES ASSUME Bad # {} PROVE FALSE
    OBVIOUS
  <2>1. PICK n \in Bad : \A k \in Bad : n <= k
    <3>1. Bad \in SUBSET Nat
      OBVIOUS
    <3> HIDE DEF Bad
    <3> QED BY <3>1, Least
  <2>2. n \in 0 .. N /\ ~Good(n)
    OBVIOUS
  <2>3. n # 0
    <3>1. f[0] = <<>>
      BY <1>1, <1>2 DEF IsSent
    <3>2. Good(0)
      BY <3>1
    <3> QED BY <2>2, <3>2
  <2>4. Good(n - 1)
    <3>1. n - 1 \in 0 .. N /\ ~(n <= n - 1)
      BY <2>2, <2>3
    <3> QED BY <2>1, <3>1
  <2>5. f[n] = IF KeptText(options[n]) THEN Append(f[n - 1], options[n]) ELSE f[n - 1]
    BY <1>1, <1>2, <2>2, <2>3 DEF IsSent
  <2>6. options[n] \in Texts
    BY <1>1, <2>2, <2>3
  <2>7. CASE ~KeptText(options[n])
    BY <2>2, <2>4, <2>5, <2>7
  <2>8. CASE KeptText(options[n])
    <3>1. PICK s \in Seq(Texts) : s = f[n - 1]
      BY <2>4
    <3>2. PICK t \in Texts : t = options[n]
      BY <2>6
    <3>3. f[n] = Append(s, t)
      BY <2>5, <2>8, <3>1, <3>2
    <3>4. /\ Append(s, t) \in Seq(Texts) /\ Len(Append(s, t)) = Len(s) + 1
          /\ Append(s, t)[Len(s) + 1] = t
          /\ \A i \in 1 .. Len(s) : Append(s, t)[i] = s[i]
      OBVIOUS
    <3>5. \A i \in 1 .. Len(s) + 1 : i \in 1 .. Len(s) \/ i = Len(s) + 1
      OBVIOUS
    <3>6. \A i \in 1 .. Len(Append(s, t)) : KeptText(Append(s, t)[i])
      BY <2>4, <2>8, <3>1, <3>2, <3>4, <3>5
    <3>7. Len(s) + 1 <= n
      BY <2>2, <2>4, <3>1
    <3> QED BY <2>2, <3>3, <3>4, <3>6, <3>7
  <2> QED BY <2>7, <2>8
<1>5. N \notin Bad /\ N \in 0 .. N
  BY <1>4
<1> QED BY <1>1, <1>3, <1>5

\* A poll that the form lets through and the server refuses has a question or an
\* option that the two read differently, whatever texts there are.
THEOREM RefusedWhenReadDifferentlyHolds == Spec => []RefusedWhenReadDifferently
<1>1. CreatorInv => RefusedWhenReadDifferently
  <2> SUFFICES ASSUME CreatorInv, FormAccepts(form),
                      ~ReadDifferently(form.question, Body(form.options))
               PROVE  ServerAccepts(form.question, Body(form.options))
    BY DEF RefusedWhenReadDifferently
  <2>1. form \in AllForms
    BY Bounds DEF CreatorInv, ScreenOK
  <2>2. PICK options \in Seq(Texts) : options = form.options /\ Len(options) <= MaxOptions
    BY <2>1, FormOptions
  <2>3. PICK q \in [units : Nat, runes : Nat, bytes : Nat] : q = form.question
    BY <2>1, FormOptions, PollFormAssumption
  <2>4. PICK body \in Seq(Texts) : body = Body(options)
    BY BodyKept
  <2>5. /\ Len(body) <= Len(options)
        /\ \A i \in 1 .. Len(body) : body[i].form # ""
    BY <2>4, BodyKept DEF KeptText
  <2>6. body = Body(form.options)
    BY <2>2, <2>4
  <2>7. FormDistinct(body)
    BY <2>6 DEF FormAccepts
  <2>8. ~ReadDifferently(q, body)
    BY <2>3, <2>6
  <2>9. q.runes \in 5 .. 500 /\ q.bytes >= 5
    <3>1. PICK n \in Nat : n = q.units /\ n = q.runes /\ n = q.bytes
      BY <2>8 DEF ReadDifferently
    <3>2. n >= 5
      BY <2>3, <3>1 DEF FormAccepts
    <3>3. ~(n > 500)
      BY <2>8, <3>1 DEF ReadDifferently
    <3>4. n \in 5 .. 500
      BY <3>2, <3>3
    <3> QED BY <3>1, <3>2, <3>4
  <2>10. Len(body) \in 2 .. MaxOptions
    <3>1. PICK n \in Nat : n = Len(body)
      OBVIOUS
    <3>2. n >= 2
      BY <2>6, <3>1 DEF FormAccepts
    <3>3. PICK m \in Nat : m = MaxOptions
      BY PollFormAssumption
    <3>4. PICK k \in Nat : k = Len(options)
      OBVIOUS
    <3>5. n <= k /\ k <= m
      BY <2>2, <2>5, <3>1, <3>3, <3>4
    <3>6. n \in 2 .. m
      BY <3>2, <3>5
    <3> QED BY <3>1, <3>3, <3>6
  <2>11. \A i \in 1 .. Len(body) : body[i].form = body[i].server
    BY <2>8 DEF ReadDifferently
  <2>12. \A i \in 1 .. Len(body) : body[i].server # ""
    BY <2>5, <2>11
  <2>13. \A i, j \in 1 .. Len(body) : body[i].server = body[j].server => i = j
    BY <2>7, <2>11 DEF FormDistinct
  <2>14. ServerAccepts(q, body)
    BY <2>9, <2>10, <2>12, <2>13 DEF ServerAccepts
  <2> QED BY <2>3, <2>6, <2>14
<1> QED BY <1>1, CreatorInvariant, PTL

==============================================================================
